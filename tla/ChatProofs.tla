----------------------------- MODULE ChatProofs -----------------------------
(***************************************************************************)
(* Theorems about the three chat components, for any number of messages,  *)
(* handlers, conversations, cases, questions, files and suppliers.         *)
(***************************************************************************)
EXTENDS ChatIntake, CaseChat, ReceiptDesk, TLAPS, FiniteSetTheorems, SequenceTheorems

-----------------------------------------------------------------------------
(* The receipt desk *)

TaskRow == [pc : {"idle", "arm", "claim", "look", "download", "record"},
            file : Drops \union {Nobody}, for : Suppliers \union {Nobody},
            read : Suppliers \union {Nobody}]

\* The tasks past claim_event: each has its file to itself.
Owns(x) == x.pc \in {"look", "download", "record"}

TaskSound(x) ==
    /\ x.pc = "arm" => x.for \in Suppliers
    /\ x.pc = "claim" \/ Owns(x) => x.file \in Drops
    /\ Owns(x) => x.file \in claimed /\ \A r \in register : r.file # x.file
    /\ x.pc \in {"download", "record"} => x.for = x.read /\ x.for \in Suppliers

RegisterSound ==
    /\ \A r \in register : r.file \in claimed /\ r.for = r.read /\ r.for \in Suppliers
    /\ OneRecordPerDrop

DeskInv ==
    /\ armed \in Suppliers \union {Nobody}
    /\ caption \in [Drops -> Suppliers \union Strangers \union {Nobody}]
    /\ RegisterSound
    /\ task \in [Tasks -> TaskRow]
    /\ \A t \in Tasks : TaskSound(task[t])
    /\ \A t, u \in Tasks : Owns(task[t]) /\ Owns(task[u]) /\ task[t].file = task[u].file => t = u

LEMMA DeskStart == DeskInit => DeskInv
  BY DEF DeskInit, DeskInv, TaskRest, TaskRow, TaskSound, Owns, RegisterSound, OneRecordPerDrop

\* One task goes on; the register and the claims stay, or the claims grow by a
\* file the task alone holds.
LEMMA TaskMoves ==
    ASSUME DeskInv, NEW t \in Tasks, NEW x \in TaskRow, task' = [task EXCEPT ![t] = x],
           armed' \in Suppliers \union {Nobody}, UNCHANGED <<register, caption>>,
           claimed \subseteq claimed',
           x.pc = "arm" => x.for \in Suppliers, x.pc = "claim" \/ Owns(x) => x.file \in Drops,
           Owns(x) => /\ x.file \in claimed' /\ \A r \in register : r.file # x.file
                      /\ \A u \in Tasks \ {t} : Owns(task[u]) => task[u].file # x.file,
           x.pc \in {"download", "record"} => x.for = x.read /\ x.for \in Suppliers
    PROVE  DeskInv'
  <1>1. task' \in [Tasks -> TaskRow]
    BY DEF DeskInv
  <1>2. ASSUME NEW u \in Tasks PROVE task'[u] = IF u = t THEN x ELSE task[u]
    BY DEF DeskInv
  <1>3. RegisterSound'
    BY DEF DeskInv, RegisterSound, OneRecordPerDrop
  <1>4. ASSUME NEW u \in Tasks PROVE TaskSound(task[u])'
    <2>1. CASE u = t
      BY <1>2, <2>1 DEF TaskSound, Owns
    <2>2. CASE u # t
      BY <1>2, <2>2 DEF TaskSound, Owns, DeskInv
    <2> QED BY <2>1, <2>2
  <1>5. ASSUME NEW u \in Tasks, NEW v \in Tasks, Owns(task'[u]), Owns(task'[v]),
               task'[u].file = task'[v].file
        PROVE  u = v
    <2>1. CASE u # t /\ v # t
      BY <1>2, <1>5, <2>1 DEF DeskInv
    <2>2. CASE u = t /\ v # t
      BY <1>2, <1>5, <2>2
    <2>3. CASE u # t /\ v = t
      BY <1>2, <1>5, <2>3
    <2> QED BY <2>1, <2>2, <2>3
  <1> QED BY <1>1, <1>3, <1>4, <1>5 DEF DeskInv, Owns

LEMMA RestIsRow ==
    TaskRest \in TaskRow /\ TaskRest.pc = "idle" /\ ~Owns(TaskRest)
  BY DEF TaskRest, TaskRow, Owns

LEMMA TaskFacts ==
    ASSUME DeskInv, NEW t \in Tasks PROVE task[t] \in TaskRow /\ TaskSound(task[t])
  BY DEF DeskInv

\* Whatever words are typed, the supplier found is an invited one.
LEMMA NamedInvited ==
    ASSUME NEW words \in Suppliers \union Strangers, NEW s \in Named(words)
    PROVE  s \in Suppliers
  BY DeskAssumption DEF Named

LEMMA ArmSteps ==
    ASSUME DeskInv, NEW t \in Tasks,
           \/ \E s \in Suppliers : _start_receipt_upload(t, s)
           \/ \E words \in Suppliers \union Strangers : _arm_receipt_from_text(t, words)
           \/ Arm(t)
    PROVE  DeskInv'
  <1>1. ASSUME NEW s \in Suppliers, ArmFor(t, s) PROVE DeskInv'
    <2> DEFINE x == [TaskRest EXCEPT !.pc = "arm", !.for = s]
    <2>1. x \in TaskRow /\ x.pc = "arm" /\ x.for = s
      BY DEF TaskRest, TaskRow
    <2>2. /\ task' = [task EXCEPT ![t] = x] /\ UNCHANGED <<register, caption>> /\ claimed' = claimed
          /\ armed' \in Suppliers \union {Nobody}
      BY <1>1 DEF ArmFor, DeskInv
    <2> HIDE DEF x
    <2> QED BY <2>1, <2>2, TaskMoves DEF Owns
  <1>2. CASE Arm(t)
    <2>1. armed' \in Suppliers \union {Nobody}
      BY <1>2, TaskFacts DEF Arm, TaskSound
    <2>2. task' = [task EXCEPT ![t] = TaskRest] /\ UNCHANGED <<register, caption>> /\ claimed' = claimed
      BY <1>2 DEF Arm
    <2> QED BY <2>1, <2>2, RestIsRow, TaskMoves
  <1> QED BY <1>1, <1>2, NamedInvited DEF _start_receipt_upload, _arm_receipt_from_text

LEMMA GoesMoves ==
    ASSUME DeskInv, NEW t \in Tasks, NEW x \in TaskRow, Goes(t, x),
           x.pc \notin {"arm", "claim"},
           Owns(x) => Owns(task[t]) /\ x.file = task[t].file,
           x.pc \in {"download", "record"} => x.for = x.read /\ x.for \in Suppliers
    PROVE  DeskInv'
  <1>1. /\ task' = [task EXCEPT ![t] = x] /\ UNCHANGED <<register, caption>> /\ claimed' = claimed
        /\ armed' \in Suppliers \union {Nobody}
    BY DEF Goes, DeskInv
  <1>2. Owns(x) => /\ x.file \in claimed' /\ \A r \in register : r.file # x.file
                   /\ \A u \in Tasks \ {t} : Owns(task[u]) => task[u].file # x.file
    BY <1>1 DEF DeskInv, TaskSound
  <1>3. x.pc = "claim" \/ Owns(x) => x.file \in Drops
    BY DEF DeskInv, TaskSound
  <1> QED BY <1>1, <1>2, <1>3, TaskMoves

LEMMA FileSteps ==
    ASSUME DeskInv, NEW t \in Tasks,
           (\E d \in Drops : Deliver(t, d)) \/ Claim(t) \/ LookUp(t) \/ Download(t)
    PROVE  DeskInv'
  <1>0. task[t] \in TaskRow /\ TaskSound(task[t])
    BY TaskFacts
  <1>1. ASSUME NEW d \in Drops, Deliver(t, d) PROVE DeskInv'
    <2> DEFINE x == [TaskRest EXCEPT !.pc = "claim", !.file = d]
    <2>1. x \in TaskRow /\ x.pc = "claim" /\ x.file \in Drops
      BY DEF TaskRest, TaskRow
    <2>2. /\ task' = [task EXCEPT ![t] = x] /\ UNCHANGED <<register, caption>> /\ claimed' = claimed
          /\ armed' \in Suppliers \union {Nobody}
      BY <1>1 DEF Deliver, DeskInv
    <2> HIDE DEF x
    <2> QED BY <2>1, <2>2, TaskMoves DEF Owns
  <1>2. CASE Claim(t)
    <2>1. CASE task[t].file \in claimed
      BY <1>2, <2>1, RestIsRow, GoesMoves DEF Claim
    <2>2. CASE task[t].file \notin claimed
      <3> DEFINE x == [task[t] EXCEPT !.pc = "look"]
      <3>1. x \in TaskRow /\ x.pc = "look" /\ x.file = task[t].file /\ x.file \in Drops
        BY <1>0, <1>2 DEF TaskRow, TaskSound, Claim
      <3>2. /\ task' = [task EXCEPT ![t] = x] /\ UNCHANGED <<register, caption>>
            /\ claimed' = claimed \union {x.file} /\ armed' \in Suppliers \union {Nobody}
        BY <1>0, <1>2, <2>2 DEF Claim, DeskInv, TaskRow
      <3> HIDE DEF x
      <3>3. /\ \A r \in register : r.file # x.file
            /\ \A u \in Tasks \ {t} : Owns(task[u]) => task[u].file # x.file
        BY <2>2, <3>1 DEF DeskInv, RegisterSound, TaskSound
      <3> QED BY <3>1, <3>2, <3>3, TaskMoves
    <2> QED BY <2>1, <2>2
  <1>3. CASE LookUp(t)
    <2>1. CASE Goes(t, TaskRest)
      BY <2>1, RestIsRow, GoesMoves
    <2>2. ASSUME NEW for \in Suppliers,
                 Goes(t, [task[t] EXCEPT !.pc = "download", !.for = for, !.read = for])
          PROVE  DeskInv'
      <3> DEFINE x == [task[t] EXCEPT !.pc = "download", !.for = for, !.read = for]
      <3>1. x \in TaskRow /\ x.pc = "download" /\ x.file = task[t].file
            /\ x.for = for /\ x.read = for
        BY <1>0 DEF TaskRow
      <3>2. Goes(t, x) /\ Owns(task[t])
        BY <1>3, <2>2 DEF LookUp, Owns
      <3> HIDE DEF x
      <3> QED BY <3>1, <3>2, GoesMoves
    <2>3. task[t].file \in Drops
      BY <1>0, <1>3 DEF LookUp, TaskSound, Owns
    <2>4. /\ armed # Nobody => armed \in Suppliers
          /\ caption[task[t].file] # Nobody => caption[task[t].file] \in Suppliers \union Strangers
      BY <2>3 DEF DeskInv
    <2>5. \A s \in Named(caption[task[t].file]) :
             caption[task[t].file] # Nobody => s \in Suppliers
      BY <2>4, NamedInvited
    <2> QED BY <1>3, <2>1, <2>2, <2>4, <2>5 DEF LookUp
  <1>4. CASE Download(t)
    <2>1. CASE Goes(t, TaskRest)
      BY <2>1, RestIsRow, GoesMoves
    <2>2. CASE Goes(t, [task[t] EXCEPT !.pc = "record"])
      <3> DEFINE x == [task[t] EXCEPT !.pc = "record"]
      <3>1. x \in TaskRow /\ x.pc = "record" /\ x.file = task[t].file
            /\ x.for = task[t].for /\ x.read = task[t].read
        BY <1>0 DEF TaskRow
      <3>2. Goes(t, x) /\ Owns(task[t]) /\ task[t].for = task[t].read
            /\ task[t].for \in Suppliers
        BY <1>0, <1>4, <2>2 DEF Download, Owns, TaskSound
      <3> HIDE DEF x
      <3> QED BY <3>1, <3>2, GoesMoves
    <2> QED BY <1>4, <2>1, <2>2 DEF Download
  <1> QED BY <1>1, <1>2, <1>3, <1>4

\* The file recorded was this task's alone, so no other task records it again.
LEMMA RecordStep ==
    ASSUME DeskInv, NEW t \in Tasks, Record(t) PROVE DeskInv'
  <1>0. /\ task[t] \in TaskRow /\ TaskSound(task[t]) /\ Owns(task[t])
        /\ task[t].for = task[t].read /\ task[t].for \in Suppliers
    BY TaskFacts DEF Record, Owns, TaskSound
  <1>1. task' = [task EXCEPT ![t] = TaskRest] /\ claimed' = claimed /\ caption' = caption
    BY DEF Record
  <1>2. CASE UNCHANGED <<register, armed>>
    BY <1>1, <1>2, RestIsRow, TaskMoves DEF DeskInv
  <1>3. CASE ~UNCHANGED <<register, armed>>
    <2>1. PICK n : n = Cardinality(register)
      OBVIOUS
    <2> DEFINE b == [task |-> t, file |-> task[t].file, for |-> task[t].for,
                     read |-> task[t].read, n |-> n]
    <2>2. register' = register \union {b} /\ armed' = Nobody
      BY <1>3, <2>1 DEF Record
    <2>3. b.file = task[t].file /\ b.for = task[t].for /\ b.read = task[t].read
      OBVIOUS
    <2> HIDE DEF b
    <2>4. b.file \in claimed /\ \A r \in register : r.file # b.file
      BY <1>0, <2>3 DEF TaskSound
    <2>5. RegisterSound'
      <3>1. \A r \in register' : r.file \in claimed' /\ r.for = r.read /\ r.for \in Suppliers
        BY <1>0, <1>1, <2>2, <2>3, <2>4 DEF DeskInv, RegisterSound
      <3>2. \A r, s \in register' : r.file = s.file => r = s
        BY <2>2, <2>4 DEF DeskInv, RegisterSound, OneRecordPerDrop
      <3> QED BY <3>1, <3>2 DEF RegisterSound, OneRecordPerDrop
    <2>6. task' \in [Tasks -> TaskRow]
      BY <1>1, RestIsRow DEF DeskInv
    <2>7. ASSUME NEW u \in Tasks PROVE task'[u] = IF u = t THEN TaskRest ELSE task[u]
      BY <1>1 DEF DeskInv
    <2>8. ASSUME NEW u \in Tasks PROVE TaskSound(task[u])'
      <3>1. CASE u = t
        BY <2>7, <3>1, RestIsRow DEF TaskSound, Owns
      <3>2. CASE u # t
        <4>1. Owns(task[u]) => task[u].file # b.file
          BY <1>0, <2>3, <3>2 DEF DeskInv
        <4> QED BY <1>1, <2>2, <2>7, <3>2, <4>1 DEF TaskSound, Owns, DeskInv
      <3> QED BY <3>1, <3>2
    <2>9. ASSUME NEW u \in Tasks, NEW v \in Tasks, Owns(task'[u]), Owns(task'[v]),
                 task'[u].file = task'[v].file
          PROVE  u = v
      BY <2>7, <2>9, RestIsRow DEF DeskInv
    <2>10. caption' \in [Drops -> Suppliers \union Strangers \union {Nobody}]
      BY <1>1 DEF DeskInv
    <2> QED BY <2>2, <2>5, <2>6, <2>8, <2>9, <2>10 DEF DeskInv, Owns
  <1> QED BY <1>2, <1>3

LEMMA DeskStep == DeskInv /\ [DeskNext]_deskVars => DeskInv'
  <1> SUFFICES ASSUME DeskInv, [DeskNext]_deskVars PROVE DeskInv'
    OBVIOUS
  <1>1. CASE UNCHANGED deskVars \/ CloseDesk
    BY <1>1 DEF deskVars, CloseDesk, DeskInv, RegisterSound, OneRecordPerDrop, TaskSound, Owns
  <1>2. CASE RestartDesk
    <2>1. /\ task' = [t \in Tasks |-> TaskRest] /\ armed' = Nobody
          /\ register' = register /\ claimed' = claimed /\ caption' = caption
      BY <1>2 DEF RestartDesk
    <2>2. RegisterSound'
      BY <2>1 DEF DeskInv, RegisterSound, OneRecordPerDrop
    <2> QED BY <2>1, <2>2, RestIsRow DEF DeskInv, TaskSound, Owns
  <1>3. ASSUME NEW t \in Tasks,
               \/ \E s \in Suppliers : _start_receipt_upload(t, s)
               \/ \E words \in Suppliers \union Strangers : _arm_receipt_from_text(t, words)
               \/ \E d \in Drops : Deliver(t, d)
               \/ Arm(t) \/ Claim(t) \/ LookUp(t) \/ Download(t) \/ Record(t)
        PROVE  DeskInv'
    BY <1>3, ArmSteps, FileSteps, RecordStep
  <1> QED BY <1>1, <1>2, <1>3 DEF DeskNext

\* What a task past claim_event holds, and what the register has of it.
THEOREM DeskInvariant == DeskSpec => []DeskInv
  BY DeskStart, DeskStep, PTL DEF DeskSpec

\* However often Slack delivers a file and whatever is armed or restarted while
\* _handle_receipt_file downloads it, it becomes one bid, of the invited supplier
\* it was taken for.
THEOREM BidsKept == DeskSpec => []BidIsItsSuppliers
  <1>1. DeskInv => BidIsItsSuppliers
    BY DEF DeskInv, RegisterSound, BidIsItsSuppliers, OneRecordPerDrop, RecordedAsTaken,
       RecordedIsInvited, Recorded
  <1> QED BY <1>1, DeskInvariant, PTL

-----------------------------------------------------------------------------
(* Filed cases reached by chat *)

Befores == {<<>>} \union (CaseStates \X (0..3))

TurnPcs == {"idle", "broker", "act", "answer", "rerun", "after", "decide"}

ChatRow == [pc : TurnPcs, who : People, intent : Intents \union CaseStates, ref : Nat,
            named : 0..NumCases, meant : 0..NumCases, how : {"own", "ref", "name", "only"},
            at : 0..NumCases, receipt : BOOLEAN, before : Befores, changed : BOOLEAN,
            ids : SUBSET Questions, open : SUBSET Questions, count : Nat]

\* A turn that may still change a case is about one its speaker may see: the
\* broker found it in the menu, or it is the speaker's own.
TurnSound(x) ==
    /\ x.pc \notin {"idle", "broker"} => x.at \in Cases
    /\ x.pc \in {"broker", "act"} => x.intent \in Intents
    /\ x.pc \in {"act", "answer", "rerun"} => Visible(x.who, x.at)

\* What a reply was read against still stands when it is stored, if nobody else
\* speaks in between.
Answering(x) ==
    x.pc = "answer" =>
        /\ kase[x.at].state = "waiting_clarification"
        /\ x.open = PendingQuestions(x.at)
        /\ x.ids \subseteq x.open
        /\ Cardinality(x.ids) <= x.count

\* A conversation holds a case its person filed.
CasesTyped ==
    /\ kase \in [Cases -> CaseRow] /\ owned \in [People -> 0..NumCases]
    /\ \A p \in People : owned[p] # 0 => owned[p] \in Cases /\ kase[owned[p]].by = p

TurnsSound ==
    /\ chat \in [Chats -> ChatRow]
    /\ \A h \in Chats : TurnSound(chat[h])

OneSpeaks ==
    oneloop => \A h \in Chats :
        /\ Answering(chat[h])
        /\ chat[h].pc # "idle" => \A g \in Chats \ {h} : chat[g].pc = "idle"

CaseInv == CasesTyped /\ TurnsSound /\ OneSpeaks /\ NothingStranded /\ RefusalsAreTrue

LEMMA IntentsAre ==
    Intents = {"amend_request", "request_addendum", "record_submission", "open_bids"}
  BY DEF Intents, Risk

LEMMA ChatRestFacts ==
    /\ ChatRest \in ChatRow /\ ChatRest.pc = "idle"
    /\ ChatRest.how = "own" /\ ChatRest.at = 0
  <1>1. <<>> \in Befores
    BY DEF Befores
  <1>2. "requester" \in People /\ "amend_request" \in Intents /\ "idle" \in TurnPcs
    BY IntentsAre DEF People, TurnPcs
  <1>3. 0 \in 0..NumCases
    BY CaseChatAssumption
  <1> QED BY <1>1, <1>2, <1>3 DEF ChatRest, ChatRow

LEMMA CaseStart == CaseChatInit => CaseInv
  <1> SUFFICES ASSUME CaseChatInit PROVE CaseInv
    OBVIOUS
  <1>1. kase \in [Cases -> CaseRow] /\ \A c \in Cases : kase[c].state # "intake_ready"
    <2> DEFINE First == {[state |-> s, by |-> p, unknowns |-> Questions, blocking |-> {},
                          answered |-> {}, latest |-> {}, signals |-> 0] :
                           s \in {"draft", "analyzing", "published"}, p \in People}
    <2>1. ASSUME NEW r \in First PROVE r \in CaseRow /\ r.state # "intake_ready"
      BY DEF CaseRow, CaseStates
    <2>2. kase \in [Cases -> First]
      BY DEF CaseChatInit
    <2> HIDE DEF First
    <2> QED BY <2>1, <2>2
  <1>2. /\ owned \in [People -> 0..NumCases]
        /\ \A p \in People : owned[p] # 0 => owned[p] \in Cases /\ kase[owned[p]].by = p
    <2>1. PICK c \in {0, 1} : owned = [requester |-> c, approver |-> 0]
      BY DEF CaseChatInit
    <2>2. 1 \in Cases /\ {0, 1} \subseteq 0..NumCases /\ kase[1].by = "requester"
      BY CaseChatAssumption DEF CaseChatInit, Cases
    <2>3. owned["requester"] = c /\ owned["approver"] = 0
      BY <2>1
    <2>4. owned \in [People -> 0..NumCases]
      BY <2>1, <2>2 DEF People
    <2> QED BY <2>2, <2>3, <2>4 DEF People
  <1>3. chat \in [Chats -> ChatRow] /\ \A h \in Chats : chat[h].pc = "idle"
    BY ChatRestFacts DEF CaseChatInit
  <1>4. TurnsSound
    BY <1>3 DEF TurnsSound, TurnSound
  <1>5. OneSpeaks
    BY <1>3 DEF OneSpeaks, Answering
  <1>6. NothingStranded
    BY <1>1 DEF NothingStranded
  <1>7. RefusalsAreTrue
    BY DEF CaseChatInit, RefusalsAreTrue
  <1> QED BY <1>1, <1>2, <1>4, <1>5, <1>6, <1>7 DEF CaseInv, CasesTyped

\* Where one message is handled at a time, a case waits for its run at the one
\* handler there is.
LEMMA OnlyHere ==
    ASSUME CaseInv, NEW h \in Chats, oneloop, refusedRuns = 0,
           \A g \in Chats \ {h} : chat[g].pc = "idle",
           NEW c \in Cases, kase[c].state = "intake_ready"
    PROVE  chat[h].pc = "rerun" /\ chat[h].at = c
  BY DEF CaseInv, NothingStranded

\* One turn goes on: its handler and perhaps its case change.
LEMMA TurnGoesOn ==
    ASSUME CaseInv, NEW h \in Chats, NEW x \in ChatRow, chat' = [chat EXCEPT ![h] = x],
           kase' \in [Cases -> CaseRow], \A c \in Cases : kase'[c].by = kase[c].by,
           owned' = owned, oneloop' = oneloop, TurnSound(x), RefusalsAreTrue',
           oneloop => \A g \in Chats \ {h} : chat[g].pc = "idle",
           oneloop => Answering(x)',
           oneloop /\ refusedRuns' = 0 =>
              \A c \in Cases : kase'[c].state = "intake_ready" => x.pc = "rerun" /\ x.at = c
    PROVE  CaseInv'
  <1>1. /\ chat' \in [Chats -> ChatRow]
        /\ \A g \in Chats : chat'[g] = IF g = h THEN x ELSE chat[g]
    BY DEF CaseInv, TurnsSound
  <1>2. CasesTyped'
    BY DEF CaseInv, CasesTyped
  <1>3. ASSUME NEW g \in Chats PROVE TurnSound(chat[g])'
    <2>1. PICK y : y = chat'[g]
      OBVIOUS
    <2>2. TurnSound(y)
      BY <1>1, <2>1 DEF CaseInv, TurnsSound
    <2>3. y.pc \notin {"idle", "broker"} => y.at \in Cases /\ kase'[y.at].by = kase[y.at].by
      BY <2>2 DEF TurnSound
    <2>4. y.pc \in TurnPcs
      BY <1>1, <2>1 DEF ChatRow
    <2> QED BY <2>1, <2>2, <2>3, <2>4 DEF TurnSound, Visible, TurnPcs
  <1>4. OneSpeaks'
    <2> SUFFICES ASSUME oneloop, NEW g \in Chats
                 PROVE  /\ Answering(chat[g])'
                        /\ chat'[g].pc # "idle" => \A f \in Chats \ {g} : chat'[f].pc = "idle"
      BY DEF OneSpeaks
    <2>1. CASE g = h
      BY <1>1, <2>1 DEF Answering
    <2>2. CASE g # h
      BY <1>1, <2>2 DEF Answering
    <2> QED BY <2>1, <2>2
  <1>5. NothingStranded'
    BY <1>1 DEF NothingStranded
  <1> QED BY <1>1, <1>2, <1>3, <1>4, <1>5 DEF CaseInv, TurnsSound

\* The steps that leave the cases alone.
LEMMA TurnSays ==
    ASSUME CaseInv, NEW h \in Chats, NEW x \in ChatRow, chat' = [chat EXCEPT ![h] = x],
           UNCHANGED <<kase, owned, oneloop, refusedRuns>>, TurnSound(x), RefusalsAreTrue',
           oneloop => \A g \in Chats \ {h} : chat[g].pc = "idle",
           oneloop => Answering(x),
           chat[h].pc = "rerun" => refusedRuns # 0 \/ (x.pc = "rerun" /\ x.at = chat[h].at)
    PROVE  CaseInv'
  <1>1. kase' \in [Cases -> CaseRow] /\ kase' = kase /\ owned' = owned /\ oneloop' = oneloop
    BY DEF CaseInv, CasesTyped
  <1>2. oneloop => Answering(x)'
    BY <1>1 DEF Answering, PendingQuestions
  <1>3. oneloop /\ refusedRuns' = 0 =>
           \A c \in Cases : kase'[c].state = "intake_ready" => x.pc = "rerun" /\ x.at = c
    BY <1>1, OnlyHere
  <1> QED BY <1>1, <1>2, <1>3, TurnGoesOn

LEMMA HearsAlone ==
    ASSUME NEW h \in Chats, Hears(h)
    PROVE  chat[h].pc = "idle" /\ (oneloop => \A g \in Chats \ {h} : chat[g].pc = "idle")
  BY DEF Hears

LEMMA BusyAlone ==
    ASSUME CaseInv, NEW h \in Chats, chat[h].pc # "idle"
    PROVE  oneloop => \A g \in Chats \ {h} : chat[g].pc = "idle"
  BY DEF CaseInv, OneSpeaks

LEMMA ListenSound ==
    ASSUME CaseInv, NEW h \in Chats, NEW x \in ChatRow, Listen(h, x), TurnSound(x),
           oneloop => Answering(x)
    PROVE  CaseInv'
  <1>1. /\ Hears(h) /\ chat' = [chat EXCEPT ![h] = x] /\ told' = {}
        /\ UNCHANGED <<kase, owned, oneloop, refusedRuns>>
    BY DEF Listen
  <1>2. chat[h].pc # "rerun" /\ (oneloop => \A g \in Chats \ {h} : chat[g].pc = "idle")
    BY <1>1, HearsAlone
  <1>3. RefusalsAreTrue'
    BY <1>1 DEF RefusalsAreTrue
  <1> QED BY <1>1, <1>2, <1>3, TurnSays

LEMMA ThenSound ==
    ASSUME CaseInv, NEW h \in Chats, NEW x \in ChatRow, Then(h, x), TurnSound(x),
           chat[h].pc \notin {"idle", "rerun"}, x.pc # "answer"
    PROVE  CaseInv'
  <1>1. /\ chat' = [chat EXCEPT ![h] = x] /\ told' = told
        /\ UNCHANGED <<kase, owned, oneloop, refusedRuns>>
    BY DEF Then
  <1>2. oneloop => \A g \in Chats \ {h} : chat[g].pc = "idle"
    BY BusyAlone
  <1>3. RefusalsAreTrue'
    BY <1>1 DEF CaseInv, RefusalsAreTrue
  <1>4. Answering(x)
    BY DEF Answering
  <1> QED BY <1>1, <1>2, <1>3, <1>4, TurnSays

LEMMA MenuCases ==
    ASSUME NEW p, NEW focus, NEW e \in build_menu(p, focus)
    PROVE  e.case = 0 \/ (e.case \in Cases /\ Visible(p, e.case))
  <1> DEFINE listed == {c \in Cases : Visible(p, c)} \union (IF p \in drafting THEN {0} ELSE {})
  <1>1. PICK c \in listed :
          e = [case |-> c, number |-> 1 + Cardinality({d \in listed : Before(d, c, focus)})]
    BY Zenon DEF build_menu
  <1>2. e.case = c
    <2>1. PICK n : e = [case |-> c, number |-> n]
      BY <1>1, Zenon
    <2> QED BY <2>1
  <1>3. c = 0 \/ (c \in Cases /\ Visible(p, c))
    <2>1. CASE p \in drafting
      BY <2>1, Zenon
    <2>2. CASE p \notin drafting
      BY <2>2, Zenon
    <2> QED BY <2>1, <2>2, Zenon
  <1> QED BY <1>2, <1>3, Zenon

\* Whatever is found is in the menu.
LEMMA FoundInMenu ==
    ASSUME NEW p, NEW focus, NEW ref, NEW named, NEW risk,
           NEW f \in resolve(build_menu(p, focus), ref, named, risk)
    PROVE  /\ f.case = 0 \/ (f.case \in Cases /\ Visible(p, f.case))
           /\ f.how \in {"ref", "name", "only"}
  <1>1. PICK menu : menu = build_menu(p, focus)
    OBVIOUS
  <1>2. PICK S, how : /\ S \in {Numbered(menu, ref), NamedIn(menu, named), TheOnly(menu)}
                      /\ how \in {"ref", "name", "only"}
                      /\ f \in Found(S, how)
    BY <1>1 DEF resolve
  <1>3. \A c \in S : \E e \in menu : c = e.case
    BY <1>2 DEF Numbered, NamedIn, TheOnly
  <1>4. f.case \in S /\ f.how = how
    BY <1>2 DEF Found
  <1> QED BY <1>1, <1>2, <1>3, <1>4, MenuCases

LEMMA SnapshotTyped ==
    ASSUME CasesTyped, NEW c \in Cases PROVE Snapshot(c) \in Befores
  <1>1. kase[c].state \in CaseStates /\ kase[c].signals \in 0..3
    BY DEF CasesTyped, CaseRow
  <1> QED BY <1>1 DEF Snapshot, Befores

-----------------------------------------------------------------------------
(* What is said *)

LEMMA SaySome ==
    ASSUME CaseInv, NEW h \in Chats, NEW p \in People, SayAboutSome(h, p) PROVE CaseInv'
  <1> DEFINE shown == build_menu(p, 0)
  <1>1. ASSUME NEW x \in ChatRow, x.pc = "broker", x.intent \in Intents, Listen(h, x)
        PROVE  CaseInv'
    <2>1. TurnSound(x) /\ Answering(x)
      BY <1>1 DEF TurnSound, Answering
    <2> QED BY <1>1, <2>1, ListenSound
  <1>2. ASSUME NEW ref PROVE \A m \in Numbered(shown, ref) : m \in 0..NumCases
    <2> SUFFICES ASSUME NEW e \in shown PROVE e.case \in 0..NumCases
      BY DEF Numbered
    <2>1. e.case = 0 \/ e.case \in Cases
      BY MenuCases
    <2> QED BY <2>1, CaseChatAssumption DEF Cases
  <1>4. 0 \in 0..NumCases /\ "broker" \in TurnPcs
    BY CaseChatAssumption DEF TurnPcs
  <1>5. ASSUME NEW intent \in Intents, NEW ref \in 1..(Cardinality(shown) + 1),
               NEW meant \in IF Numbered(shown, ref) = {} THEN {0} ELSE Numbered(shown, ref),
               Listen(h, [ChatRest EXCEPT !.pc = "broker", !.who = p, !.intent = intent,
                                          !.ref = ref, !.meant = meant])
        PROVE  CaseInv'
    <2>1. meant \in 0..NumCases
      BY <1>2, <1>4
    <2>2. ref \in Nat
      OBVIOUS
    <2> DEFINE x == [ChatRest EXCEPT !.pc = "broker", !.who = p, !.intent = intent,
                                     !.ref = ref, !.meant = meant]
    <2>3. x \in ChatRow /\ x.pc = "broker" /\ x.intent = intent
      BY <1>4, <2>1, <2>2, ChatRestFacts DEF ChatRow
    <2>4. Listen(h, x)
      BY <1>5
    <2> HIDE DEF x
    <2> QED BY <1>1, <2>3, <2>4
  <1>6. ASSUME NEW intent \in Intents, NEW named \in 0..NumCases,
               Listen(h, [ChatRest EXCEPT !.pc = "broker", !.who = p, !.intent = intent,
                                          !.named = named])
        PROVE  CaseInv'
    <2> DEFINE x == [ChatRest EXCEPT !.pc = "broker", !.who = p, !.intent = intent,
                                     !.named = named]
    <2>1. x \in ChatRow /\ x.pc = "broker" /\ x.intent = intent
      BY <1>4, ChatRestFacts DEF ChatRow
    <2>2. Listen(h, x)
      BY <1>6
    <2> HIDE DEF x
    <2> QED BY <1>1, <2>1, <2>2
  <1> QED BY <1>5, <1>6 DEF SayAboutSome

LEMMA OwnedIsCase ==
    ASSUME CaseInv, NEW p \in People, owned[p] # 0
    PROVE  owned[p] \in Cases /\ Visible(p, owned[p])
  BY DEF CaseInv, CasesTyped, Visible

LEMMA SayOwn ==
    ASSUME CaseInv, NEW h \in Chats, NEW p \in People, SayAboutOwn(h, p) PROVE CaseInv'
  <1>1. PICK intent \in Intents :
          Listen(h, [ChatRest EXCEPT !.pc = "act", !.who = p, !.intent = intent,
                                     !.at = owned[p]])
    BY DEF SayAboutOwn
  <1>2. owned[p] \in Cases /\ owned[p] \in 0..NumCases /\ Visible(p, owned[p])
    BY OwnedIsCase DEF SayAboutOwn, CaseInv, CasesTyped
  <1> DEFINE x == [ChatRest EXCEPT !.pc = "act", !.who = p, !.intent = intent, !.at = owned[p]]
  <1>3. x \in ChatRow /\ x.pc = "act" /\ x.intent = intent /\ x.at = owned[p] /\ x.who = p
    <2>1. "act" \in TurnPcs
      BY DEF TurnPcs
    <2> QED BY <1>2, <2>1, ChatRestFacts DEF ChatRow
  <1>4. Listen(h, x)
    BY <1>1
  <1> HIDE DEF x
  <1>5. TurnSound(x) /\ Answering(x)
    BY <1>2, <1>3 DEF TurnSound, Answering
  <1> QED BY <1>3, <1>4, <1>5, ListenSound

LEMMA SayReply ==
    ASSUME CaseInv, NEW h \in Chats, NEW p \in People, SayAnswers(h, p) PROVE CaseInv'
  <1>1. PICK c : c = owned[p]
    OBVIOUS
  <1>2. /\ c \in Cases /\ c \in 0..NumCases /\ Visible(p, c)
        /\ kase[c].state = "waiting_clarification"
    BY <1>1, OwnedIsCase DEF SayAnswers, CaseInv, CasesTyped
  <1>3. PICK ids \in SUBSET PendingQuestions(c), extra \in 0..1 :
          Listen(h, [ChatRest EXCEPT !.pc = "answer", !.who = p, !.at = c, !.ids = ids,
                                     !.open = PendingQuestions(c),
                                     !.count = Cardinality(ids) + extra])
    BY <1>1 DEF SayAnswers
  <1>4. PendingQuestions(c) \in SUBSET Questions /\ ids \in SUBSET Questions
    BY <1>2 DEF PendingQuestions, CaseInv, CasesTyped, CaseRow
  <1>5. Cardinality(ids) \in Nat
    BY <1>4, CaseChatAssumption, FS_Subset, FS_CardinalityType
  <1>6. PICK n : n = Cardinality(ids) + extra
    OBVIOUS
  <1>7. n \in Nat /\ Cardinality(ids) <= n
    BY <1>5, <1>6
  <1>8. PICK o : o = PendingQuestions(c)
    OBVIOUS
  <1> DEFINE x == [ChatRest EXCEPT !.pc = "answer", !.who = p, !.at = c, !.ids = ids,
                                   !.open = o, !.count = n]
  <1>9. /\ x \in ChatRow /\ x.pc = "answer" /\ x.at = c /\ x.who = p /\ x.ids = ids
        /\ x.open = o /\ x.count = n
    <2>1. "answer" \in TurnPcs
      BY DEF TurnPcs
    <2> QED BY <1>2, <1>4, <1>7, <1>8, <2>1, ChatRestFacts DEF ChatRow
  <1>10. Listen(h, x)
    BY <1>3, <1>6, <1>8
  <1> HIDE DEF x
  <1>11. TurnSound(x)
    BY <1>2, <1>9 DEF TurnSound
  <1>12. Answering(x)
    BY <1>2, <1>7, <1>8, <1>9 DEF Answering
  <1> QED BY <1>9, <1>10, <1>11, <1>12, ListenSound

LEMMA DecideTurn ==
    ASSUME CaseInv, NEW h \in Chats, NEW p \in People, NEW c \in Cases, NEW s \in CaseStates,
           Listen(h, [ChatRest EXCEPT !.pc = "decide", !.who = p, !.at = c, !.intent = s])
    PROVE  CaseInv'
  <1> DEFINE x == [ChatRest EXCEPT !.pc = "decide", !.who = p, !.at = c, !.intent = s]
  <1>1. x \in ChatRow /\ x.pc = "decide" /\ x.at = c
    <2>1. "decide" \in TurnPcs /\ c \in 0..NumCases
      BY CaseChatAssumption DEF TurnPcs, Cases
    <2> QED BY <2>1, ChatRestFacts DEF ChatRow
  <1>2. Listen(h, x)
    OBVIOUS
  <1> HIDE DEF x
  <1>3. TurnSound(x) /\ Answering(x)
    BY <1>1 DEF TurnSound, Answering
  <1> QED BY <1>1, <1>2, <1>3, ListenSound

LEMMA SayDecision ==
    ASSUME CaseInv, NEW h \in Chats, NEW p \in People,
           try_text(h, p) \/ _handle_decision_action(h, p)
    PROVE  CaseInv'
  <1>1. CASE try_text(h, p)
    <2>1. PICK stage \in {"intake", "checkpoint", "any"}, named \in 0..NumCases :
            LET rows == OfStage(DecisionsFor(p), stage)
                left == IF Cardinality(rows) > 1 /\ named \in rows THEN {named} ELSE rows
            IN  /\ Cardinality(left) = 1
                /\ \E c \in left :
                     Listen(h, [ChatRest EXCEPT !.pc = "decide", !.who = p, !.at = c,
                                                !.intent = kase[c].state])
      BY <1>1 DEF try_text
    <2>2. PICK rows : rows = OfStage(DecisionsFor(p), stage)
      OBVIOUS
    <2>3. rows \subseteq Cases
      BY <2>1, <2>2 DEF OfStage, DecisionsFor
    <2>4. PICK c \in rows : Listen(h, [ChatRest EXCEPT !.pc = "decide", !.who = p, !.at = c,
                                                       !.intent = kase[c].state])
      BY <2>1, <2>2
    <2>5. kase[c].state \in CaseStates
      BY <2>3 DEF CaseInv, CasesTyped, CaseRow
    <2> QED BY <2>3, <2>4, <2>5, DecideTurn
  <1>2. CASE _handle_decision_action(h, p)
    <2>1. PICK c \in Cases, stage \in AwaitingAHuman :
            Listen(h, [ChatRest EXCEPT !.pc = "decide", !.who = p, !.at = c, !.intent = stage])
      BY <1>2 DEF _handle_decision_action
    <2>2. stage \in CaseStates
      BY DEF AwaitingAHuman, CaseStates
    <2> QED BY <2>1, <2>2, DecideTurn
  <1> QED BY <1>1, <1>2

-----------------------------------------------------------------------------
(* What is done *)

LEMMA TurnFacts ==
    ASSUME CaseInv, NEW h \in Chats
    PROVE  chat[h] \in ChatRow /\ TurnSound(chat[h])
  BY DEF CaseInv, TurnsSound

LEMMA RestSound == TurnSound(ChatRest) /\ Answering(ChatRest)
  BY ChatRestFacts DEF TurnSound, Answering

LEMMA AfterFacts ==
    ASSUME CaseInv, NEW h \in Chats, chat[h].at \in Cases,
           NEW x, x = [chat[h] EXCEPT !.pc = "after"]
    PROVE  x \in ChatRow /\ x.pc = "after" /\ TurnSound(x) /\ Answering(x)
  <1>1. chat[h] \in ChatRow /\ "after" \in TurnPcs
    BY TurnFacts DEF TurnPcs
  <1>2. x \in ChatRow /\ x.pc = "after" /\ x.at = chat[h].at
    BY <1>1 DEF ChatRow
  <1> QED BY <1>2 DEF TurnSound, Answering

LEMMA BrokeredSound ==
    ASSUME CaseInv, NEW h \in Chats, _brokered_turn(h) PROVE CaseInv'
  <1>0. chat[h].pc = "broker" /\ chat[h] \in ChatRow /\ chat[h].intent \in Intents
    BY TurnFacts DEF _brokered_turn, TurnSound
  <1>1. CASE Then(h, ChatRest)
    BY <1>0, <1>1, ChatRestFacts, RestSound, ThenSound
  <1>2. ASSUME NEW p, p = chat[h].who,
               NEW f \in resolve(build_menu(p, owned[p]), chat[h].ref, chat[h].named,
                                 Risk[chat[h].intent]),
               f.case # 0,
               Then(h, [ChatRest EXCEPT !.pc = "act", !.who = p, !.intent = chat[h].intent,
                          !.at = f.case, !.how = f.how, !.meant = chat[h].meant,
                          !.receipt = TRUE, !.before = Snapshot(f.case)])
        PROVE  CaseInv'
    <2>1. /\ f.case \in Cases /\ Visible(p, f.case)
          /\ f.how \in {"ref", "name", "only"}
      BY <1>2, FoundInMenu
    <2>2. PICK b : b = Snapshot(f.case)
      OBVIOUS
    <2>3. /\ b \in Befores /\ "act" \in TurnPcs /\ f.case \in 0..NumCases /\ p \in People
          /\ chat[h].meant \in 0..NumCases /\ f.how \in {"own", "ref", "name", "only"}
      <3>1. b \in Befores
        BY <2>1, <2>2, SnapshotTyped DEF CaseInv
      <3>2. f.case \in 0..NumCases
        BY <2>1, CaseChatAssumption DEF Cases
      <3> QED BY <1>0, <1>2, <2>1, <3>1, <3>2 DEF ChatRow, TurnPcs
    <2> DEFINE x == [ChatRest EXCEPT !.pc = "act", !.who = p, !.intent = chat[h].intent,
                          !.at = f.case, !.how = f.how, !.meant = chat[h].meant,
                          !.receipt = TRUE, !.before = b]
    <2>4. x \in ChatRow
      BY <1>0, <2>3, ChatRestFacts DEF ChatRow
    <2>5. /\ x.pc = "act" /\ x.who = p /\ x.intent = chat[h].intent /\ x.at = f.case
          /\ x.how = f.how
      BY ChatRestFacts DEF ChatRow
    <2>6. Then(h, x)
      BY <1>2, <2>2
    <2> HIDE DEF x
    <2>7. TurnSound(x)
      BY <1>0, <2>1, <2>5 DEF TurnSound
    <2> QED BY <1>0, <2>4, <2>5, <2>6, <2>7, ThenSound
  <1> QED BY <1>1, <1>2 DEF _brokered_turn

LEMMA EffectFacts ==
    ASSUME NEW row \in CaseRow, NEW intent \in Intents, NEW p \in People,
           NEW r \in Effect(row, intent, p)
    PROVE  /\ r \in CaseRow /\ r.by = row.by
           /\ (r.state = "intake_ready") = (intent = "amend_request")
  <1>0. Signal(row.signals) \in 0..3
    BY DEF Signal, CaseRow
  <1>1. PICK n \in 0..3 : n = Signal(row.signals)
    BY <1>0
  <1>2. {"intake_ready", "cp3_pending", "published", "receiving_bids"} \subseteq CaseStates
    BY DEF CaseStates
  <1>3. CASE intent = "amend_request"
    <2>1. r = [row EXCEPT !.state = "intake_ready", !.unknowns = {}, !.signals = n]
      BY <1>1, <1>3 DEF Effect, AmendEffect
    <2> QED BY <1>2, <1>3, <2>1 DEF CaseRow
  <1>4. CASE intent = "request_addendum"
    <2>1. PICK s \in {"cp3_pending", "published"} : r = [row EXCEPT !.state = s, !.signals = n]
      <3>1. row.state = "published"
            /\ r = [row EXCEPT !.state = IF CanDecide(p) THEN "cp3_pending" ELSE row.state,
                               !.signals = n]
        BY <1>1, <1>4 DEF Effect, AddendumEffect
      <3> QED BY <3>1
    <2> QED BY <1>2, <1>4, <2>1 DEF CaseRow
  <1>5. CASE intent = "record_submission"
    <2>1. r = [row EXCEPT !.state = "receiving_bids", !.signals = n]
      BY <1>1, <1>5 DEF Effect, SubmissionEffect
    <2> QED BY <1>2, <1>5, <2>1 DEF CaseRow
  <1>6. CASE intent = "open_bids"
    <2>1. r = [row EXCEPT !.signals = n] /\ row.state = "receiving_bids"
      BY <1>1, <1>6 DEF Effect, OpeningEffect
    <2> QED BY <1>2, <1>6, <2>1 DEF CaseRow
  <1> QED BY <1>3, <1>4, <1>5, <1>6, IntentsAre

LEMMA CaseUpdate ==
    ASSUME CasesTyped, NEW c \in Cases, NEW r \in CaseRow, r.by = kase[c].by,
           kase' = [kase EXCEPT ![c] = r]
    PROVE  /\ kase' \in [Cases -> CaseRow]
           /\ \A d \in Cases : kase'[d].by = kase[d].by
           /\ \A d \in Cases : kase'[d] = IF d = c THEN r ELSE kase[d]
  BY DEF CasesTyped

LEMMA ActRefused ==
    ASSUME CaseInv, NEW h \in Chats, Act(h),
           Effect(kase[chat[h].at], chat[h].intent, chat[h].who) = {}
    PROVE  CaseInv'
  <1>0. chat[h].pc = "act" /\ chat[h].at \in Cases
    BY TurnFacts DEF Act, TurnSound
  <1>1. PICK x : /\ x = IF chat[h].receipt /\ ~(chat[h].intent = "amend_request")
                          THEN [chat[h] EXCEPT !.pc = "after"] ELSE ChatRest
                 /\ chat' = [chat EXCEPT ![h] = x]
    BY DEF Act
  <1>2. /\ told' = told \/ told' = {[claim |-> "refused", changed |-> FALSE]}
        /\ UNCHANGED <<kase, owned, oneloop, refusedRuns>>
    BY DEF Act
  <1>3. RefusalsAreTrue'
    BY <1>2 DEF CaseInv, RefusalsAreTrue
  <1>4. x \in ChatRow /\ TurnSound(x) /\ Answering(x)
    BY <1>0, <1>1, AfterFacts, RestSound, ChatRestFacts
  <1>5. oneloop => \A g \in Chats \ {h} : chat[g].pc = "idle"
    BY <1>0, BusyAlone
  <1> QED BY <1>0, <1>1, <1>2, <1>3, <1>4, <1>5, TurnSays

LEMMA ActDone ==
    ASSUME CaseInv, NEW h \in Chats, Act(h),
           Effect(kase[chat[h].at], chat[h].intent, chat[h].who) # {}
    PROVE  CaseInv'
  <1> DEFINE c == chat[h].at
             amends == chat[h].intent = "amend_request"
  <1>0. /\ chat[h].pc = "act" /\ c \in Cases /\ chat[h].intent \in Intents
        /\ chat[h] \in ChatRow /\ chat[h].who \in People /\ kase[c] \in CaseRow
    BY TurnFacts DEF Act, TurnSound, ChatRow, CaseInv, CasesTyped
  <1>a. Visible(chat[h].who, c)
    BY <1>0, TurnFacts DEF TurnSound
  <1>1. PICK r \in Effect(kase[c], chat[h].intent, chat[h].who) :
          kase' = [kase EXCEPT ![c] = r]
    BY DEF Act
  <1>2. r \in CaseRow /\ r.by = kase[c].by /\ (r.state = "intake_ready") = amends
    BY <1>0, <1>1, EffectFacts
  <1>3. PICK x : /\ x = IF amends THEN [chat[h] EXCEPT !.pc = "rerun", !.changed = TRUE]
                        ELSE IF chat[h].receipt
                               THEN [chat[h] EXCEPT !.pc = "after", !.changed = TRUE]
                               ELSE ChatRest
                 /\ chat' = [chat EXCEPT ![h] = x]
    BY DEF Act
  <1>4. /\ x \in ChatRow /\ x.pc \in {"rerun", "after", "idle"}
        /\ x.pc # "idle" => x.at = c /\ x.who = chat[h].who
        /\ amends => x.pc = "rerun"
    <2>1. "rerun" \in TurnPcs /\ "after" \in TurnPcs
      BY DEF TurnPcs
    <2> QED BY <1>0, <1>3, <2>1, ChatRestFacts DEF ChatRow
  <1>5. told' = told /\ UNCHANGED <<owned, oneloop, refusedRuns>>
    BY DEF Act
  <1>6. RefusalsAreTrue'
    BY <1>5 DEF CaseInv, RefusalsAreTrue
  <1>7. oneloop => \A g \in Chats \ {h} : chat[g].pc = "idle"
    BY <1>0, BusyAlone
  <1>8. TurnSound(x) /\ Answering(x)'
    BY <1>0, <1>a, <1>4 DEF TurnSound, Answering
  <1>9. /\ kase' \in [Cases -> CaseRow]
        /\ \A d \in Cases : kase'[d].by = kase[d].by
        /\ \A d \in Cases : kase'[d] = IF d = c THEN r ELSE kase[d]
    BY <1>0, <1>1, <1>2, CaseUpdate DEF CaseInv
  <1>10. ASSUME oneloop, refusedRuns' = 0, NEW d \in Cases, kase'[d].state = "intake_ready"
         PROVE  x.pc = "rerun" /\ x.at = d
    <2>1. CASE d = c
      BY <1>2, <1>4, <1>9, <1>10, <2>1
    <2>2. CASE d # c
      BY <1>0, <1>5, <1>7, <1>9, <1>10, <2>2, OnlyHere
    <2> QED BY <2>1, <2>2
  <1> QED BY <1>3, <1>4, <1>5, <1>6, <1>7, <1>8, <1>9, <1>10, TurnGoesOn

LEMMA ActAsksSound ==
    ASSUME CaseInv, NEW h \in Chats, ActAsks(h) PROVE CaseInv'
  <1>0. chat[h].pc = "act" /\ chat[h].at \in Cases
    BY TurnFacts DEF ActAsks, TurnSound
  <1>1. PICK x : /\ x = IF chat[h].receipt THEN [chat[h] EXCEPT !.pc = "after"] ELSE ChatRest
                 /\ Then(h, x)
    BY DEF ActAsks
  <1>2. x \in ChatRow /\ TurnSound(x) /\ x.pc # "answer"
    BY <1>0, <1>1, AfterFacts, RestSound, ChatRestFacts
  <1> QED BY <1>0, <1>1, <1>2, ThenSound

LEMMA RunCaseSound ==
    ASSUME CaseInv, NEW h \in Chats, RunCase(h) PROVE CaseInv'
  <1>0. chat[h].pc = "rerun" /\ chat[h].at \in Cases
    BY TurnFacts DEF RunCase, TurnSound
  <1>1. oneloop => \A g \in Chats \ {h} : chat[g].pc = "idle"
    BY <1>0, BusyAlone
  <1>2. PICK c : c = chat[h].at
    OBVIOUS
  <1>3. ASSUME kase' = [kase EXCEPT ![c].state = "analyzing", ![c].signals = Signal(@)],
               NEW x, x = IF chat[h].receipt THEN [chat[h] EXCEPT !.pc = "after"] ELSE ChatRest,
               chat' = [chat EXCEPT ![h] = x],
               UNCHANGED <<told, refusedRuns, owned, oneloop>>
        PROVE  CaseInv'
    <2>1. kase[c] \in CaseRow /\ c \in Cases
      BY <1>0, <1>2 DEF CaseInv, CasesTyped
    <2>2. PICK n : n = Signal(kase[c].signals)
      OBVIOUS
    <2>3. n \in 0..3
      BY <2>1, <2>2 DEF Signal, CaseRow
    <2> DEFINE r == [kase[c] EXCEPT !.state = "analyzing", !.signals = n]
    <2>4. r \in CaseRow /\ r.by = kase[c].by /\ r.state = "analyzing"
      BY <2>1, <2>3 DEF CaseRow, CaseStates
    <2>5. kase' = [kase EXCEPT ![c] = r]
      BY <1>3, <2>1, <2>2 DEF CaseInv, CasesTyped, CaseRow
    <2> HIDE DEF r
    <2>6. /\ kase' \in [Cases -> CaseRow]
          /\ \A d \in Cases : kase'[d].by = kase[d].by
          /\ \A d \in Cases : kase'[d] = IF d = c THEN r ELSE kase[d]
      BY <2>1, <2>4, <2>5, CaseUpdate DEF CaseInv
    <2>7. x \in ChatRow /\ TurnSound(x) /\ x.pc \in {"idle", "after"}
      BY <1>0, <1>3, AfterFacts, RestSound, ChatRestFacts
    <2>8. Answering(x)' /\ RefusalsAreTrue'
      BY <1>3, <2>7 DEF Answering, RefusalsAreTrue, CaseInv
    <2>9. ASSUME oneloop, refusedRuns' = 0, NEW d \in Cases, kase'[d].state = "intake_ready"
          PROVE  FALSE
      <3>1. d # c /\ kase[d].state = "intake_ready"
        BY <2>4, <2>6, <2>9
      <3> QED BY <1>1, <1>2, <1>3, <2>9, <3>1, OnlyHere
    <2> QED BY <1>1, <1>3, <2>6, <2>7, <2>8, <2>9, TurnGoesOn
  <1>4. ASSUME refusedRuns' = 1, chat' = [chat EXCEPT ![h] = ChatRest],
               UNCHANGED <<kase, owned, oneloop>>
        PROVE  CaseInv'
    <2>1. kase' \in [Cases -> CaseRow] /\ kase' = kase
      BY <1>4 DEF CaseInv, CasesTyped
    <2>2. RefusalsAreTrue' /\ Answering(ChatRest)'
      BY <1>4, ChatRestFacts DEF RefusalsAreTrue, Answering
    <2>3. refusedRuns' # 0 /\ \A c2 \in Cases : kase'[c2].by = kase[c2].by
      BY <1>4, <2>1
    <2>4. owned' = owned /\ oneloop' = oneloop
      BY <1>4
    <2> QED BY <1>1, <1>4, <2>1, <2>2, <2>3, <2>4, ChatRestFacts, RestSound, TurnGoesOn
  <1> QED BY <1>2, <1>3, <1>4 DEF RunCase

LEMMA TellSound ==
    ASSUME CaseInv, NEW h \in Chats, TellReceipt(h) PROVE CaseInv'
  <1>1. /\ chat[h].pc = "after" /\ chat' = [chat EXCEPT ![h] = ChatRest]
        /\ UNCHANGED <<kase, owned, oneloop, refusedRuns>>
    BY DEF TellReceipt
  <1>2. oneloop => \A g \in Chats \ {h} : chat[g].pc = "idle"
    BY <1>1, BusyAlone
  <1>3. \A t \in told' : t.claim # "refused"
    <2>1. PICK s \in {"done", "words"} : told' = {[claim |-> s, changed |-> chat[h].changed]}
      BY DEF TellReceipt
    <2> QED BY <2>1
  <1>4. RefusalsAreTrue'
    BY <1>3 DEF RefusalsAreTrue
  <1> QED BY <1>1, <1>2, <1>4, ChatRestFacts, RestSound, TurnSays

\* A reply that leaves nothing open has at least as many answers as there were
\* questions, so the run is started again.
LEMMA AnswerSound ==
    ASSUME CaseInv, NEW h \in Chats, Answer(h) PROVE CaseInv'
  <1>0. /\ chat[h].pc = "answer" /\ chat[h].at \in Cases /\ chat[h] \in ChatRow
        /\ Visible(chat[h].who, chat[h].at)
    BY TurnFacts DEF Answer, TurnSound
  <1>1. PICK c : c = chat[h].at
    OBVIOUS
  <1>2. CASE kase[c].state # "waiting_clarification"
    <2>1. Then(h, ChatRest)
      BY <1>1, <1>2 DEF Answer
    <2> QED BY <1>0, <2>1, ChatRestFacts, RestSound, ThenSound
  <1>3. CASE kase[c].state = "waiting_clarification"
    <2>1. oneloop => \A g \in Chats \ {h} : chat[g].pc = "idle"
      BY <1>0, BusyAlone
    <2>2. kase[c] \in CaseRow /\ c \in Cases
      BY <1>0, <1>1 DEF CaseInv, CasesTyped
    <2>3. PICK ids \in SUBSET Questions : ids = chat[h].ids
      BY <1>0 DEF ChatRow
    <2> DEFINE row == [kase[c] EXCEPT !.answered = @ \union ids, !.latest = ids]
    <2>4. /\ row \in CaseRow /\ row.by = kase[c].by /\ row.state = kase[c].state
          /\ row.blocking = kase[c].blocking /\ row.answered = kase[c].answered \union ids
      BY <2>2, <2>3 DEF CaseRow
    <2>5. /\ kase' = [kase EXCEPT ![c] = [row EXCEPT !.state =
                        IF row.blocking \subseteq row.answered THEN "intake_ready"
                        ELSE row.state]]
          /\ chat' = [chat EXCEPT ![h] = AfterAnswer(chat[h])]
          /\ UNCHANGED <<owned, told, oneloop, refusedRuns>>
      BY <1>1, <1>3, <2>3 DEF Answer
    <2> HIDE DEF row
    <2>6. PICK s : s = IF row.blocking \subseteq row.answered THEN "intake_ready" ELSE row.state
      OBVIOUS
    <2> DEFINE r == [row EXCEPT !.state = s]
    <2>7. r \in CaseRow /\ r.by = kase[c].by /\ r.state = s
      <3>1. s \in CaseStates
        BY <2>4, <2>6 DEF CaseRow, CaseStates
      <3> QED BY <2>4, <3>1 DEF CaseRow
    <2>8. kase' = [kase EXCEPT ![c] = r]
      BY <2>5, <2>6
    <2> HIDE DEF r
    <2>9. /\ kase' \in [Cases -> CaseRow]
          /\ \A d \in Cases : kase'[d].by = kase[d].by
          /\ \A d \in Cases : kase'[d] = IF d = c THEN r ELSE kase[d]
      BY <2>2, <2>7, <2>8, CaseUpdate DEF CaseInv
    <2>10. PICK x : x = AfterAnswer(chat[h])
      OBVIOUS
    <2>11. /\ x \in ChatRow /\ x.pc \in {"idle", "rerun"} /\ (x.pc = "rerun" => x.at = c)
           /\ x.pc = "rerun" => x.who = chat[h].who
           /\ Cardinality(chat[h].open) <= chat[h].count => x.pc = "rerun"
      <3>1. "rerun" \in TurnPcs
        BY DEF TurnPcs
      <3>2. CASE Cardinality(chat[h].open) <= chat[h].count
        <4>1. x = [chat[h] EXCEPT !.pc = "rerun"]
          BY <2>10, <3>2 DEF AfterAnswer
        <4> QED BY <1>0, <1>1, <3>1, <4>1 DEF ChatRow
      <3>3. CASE ~(Cardinality(chat[h].open) <= chat[h].count)
        BY <2>10, <3>3, ChatRestFacts DEF AfterAnswer
      <3> QED BY <3>2, <3>3
    <2>12. TurnSound(x) /\ Answering(x)'
      BY <1>0, <1>1, <2>2, <2>11 DEF TurnSound, Answering
    <2>13. RefusalsAreTrue'
      BY <2>5 DEF RefusalsAreTrue, CaseInv
    <2>14. ASSUME oneloop, refusedRuns' = 0, NEW d \in Cases, kase'[d].state = "intake_ready"
           PROVE  x.pc = "rerun" /\ x.at = d
      <3>1. CASE d # c
        BY <1>0, <2>1, <2>5, <2>9, <2>14, <3>1, OnlyHere
      <3>2. CASE d = c
        <4>1. row.blocking \subseteq row.answered
          BY <1>3, <2>4, <2>6, <2>7, <2>9, <2>14, <3>2
        <4>2. /\ chat[h].open = kase[c].blocking \ kase[c].answered
              /\ ids \subseteq chat[h].open /\ Cardinality(ids) <= chat[h].count
          BY <1>0, <1>1, <2>3, <2>14 DEF CaseInv, OneSpeaks, Answering, PendingQuestions
        <4>3. chat[h].open = ids
          BY <2>4, <4>1, <4>2
        <4> QED BY <2>11, <3>2, <4>2, <4>3
      <3> QED BY <3>1, <3>2
    <2>15. owned' = owned /\ oneloop' = oneloop /\ chat' = [chat EXCEPT ![h] = x]
      BY <2>5, <2>10
    <2> QED BY <2>1, <2>9, <2>11, <2>12, <2>13, <2>14, <2>15, TurnGoesOn
  <1> QED BY <1>2, <1>3

LEMMA ExecuteSound ==
    ASSUME CaseInv, NEW h \in Chats, execute(h) PROVE CaseInv'
  <1>0. chat[h].pc = "decide" /\ chat[h].at \in Cases
    BY TurnFacts DEF execute, TurnSound
  <1>1. oneloop => \A g \in Chats \ {h} : chat[g].pc = "idle"
    BY <1>0, BusyAlone
  <1>2. PICK c : c = chat[h].at
    OBVIOUS
  <1>3. CASE Then(h, ChatRest)
    BY <1>0, <1>3, ChatRestFacts, RestSound, ThenSound
  <1>4. ASSUME NEW s \in Decided(kase[c]),
               kase' = [kase EXCEPT ![c].state = s, ![c].signals = Signal(@)],
               chat' = [chat EXCEPT ![h] = ChatRest],
               UNCHANGED <<owned, drafting, told, oneloop, said, refusedRuns>>
        PROVE  CaseInv'
    <2>1. kase[c] \in CaseRow /\ c \in Cases
      BY <1>0, <1>2 DEF CaseInv, CasesTyped
    <2>2. PICK n : n = Signal(kase[c].signals)
      OBVIOUS
    <2>3. n \in 0..3
      BY <2>1, <2>2 DEF Signal, CaseRow
    <2>4. s \in {"analyzing", "intake_rejected", "rejected", "published"}
      BY <1>4 DEF Decided
    <2> DEFINE r == [kase[c] EXCEPT !.state = s, !.signals = n]
    <2>5. r \in CaseRow /\ r.by = kase[c].by /\ r.state = s
      BY <2>1, <2>3, <2>4 DEF CaseRow, CaseStates
    <2>6. kase' = [kase EXCEPT ![c] = r]
      BY <1>4, <2>1, <2>2 DEF CaseInv, CasesTyped, CaseRow
    <2> HIDE DEF r
    <2>7. /\ kase' \in [Cases -> CaseRow]
          /\ \A d \in Cases : kase'[d].by = kase[d].by
          /\ \A d \in Cases : kase'[d] = IF d = c THEN r ELSE kase[d]
      BY <2>1, <2>5, <2>6, CaseUpdate DEF CaseInv
    <2>8. Answering(ChatRest)' /\ RefusalsAreTrue'
      BY <1>4, ChatRestFacts DEF Answering, RefusalsAreTrue, CaseInv
    <2>9. ASSUME oneloop, refusedRuns' = 0, NEW d \in Cases, kase'[d].state = "intake_ready"
          PROVE  FALSE
      <3>1. d # c /\ kase[d].state = "intake_ready"
        BY <2>4, <2>5, <2>7, <2>9
      <3> QED BY <1>0, <1>1, <1>4, <2>9, <3>1, OnlyHere
    <2> QED BY <1>1, <1>4, <2>7, <2>8, <2>9, ChatRestFacts, RestSound, TurnGoesOn
  <1> QED BY <1>2, <1>3, <1>4 DEF execute

LEMMA RunAsksSound ==
    ASSUME CaseInv, NEW c \in Cases, RunAsks(c) PROVE CaseInv'
  <1>1. PICK open, s : /\ open = kase[c].unknowns \ kase[c].latest
                       /\ s = IF open = {} THEN "cp_pending" ELSE "waiting_clarification"
                       /\ kase' = [kase EXCEPT ![c].blocking = open, ![c].state = s]
    BY DEF RunAsks
  <1>2. /\ kase[c].state = "analyzing"
        /\ UNCHANGED <<owned, drafting, chat, told, oneloop, said, refusedRuns>>
    BY DEF RunAsks
  <1>3. kase[c] \in CaseRow
    BY DEF CaseInv, CasesTyped
  <1> DEFINE r == [kase[c] EXCEPT !.blocking = open, !.state = s]
  <1>4. r \in CaseRow /\ r.by = kase[c].by /\ r.state = s
    BY <1>1, <1>3 DEF CaseRow, CaseStates
  <1>5. kase' = [kase EXCEPT ![c] = r]
    BY <1>1, <1>3 DEF CaseInv, CasesTyped, CaseRow
  <1> HIDE DEF r
  <1>6. /\ kase' \in [Cases -> CaseRow]
        /\ \A d \in Cases : kase'[d].by = kase[d].by
        /\ \A d \in Cases : kase'[d] = IF d = c THEN r ELSE kase[d]
    BY <1>4, <1>5, CaseUpdate DEF CaseInv
  <1>7. CasesTyped' /\ RefusalsAreTrue'
    BY <1>2, <1>6 DEF CaseInv, CasesTyped, RefusalsAreTrue
  <1>8. TurnsSound'
    <2>1. chat' = chat /\ chat \in [Chats -> ChatRow]
      BY <1>2 DEF CaseInv, TurnsSound
    <2>2. ASSUME NEW g \in Chats PROVE TurnSound(chat[g])'
      <3>1. TurnSound(chat[g])
        BY TurnFacts
      <3> QED BY <1>6, <2>1, <3>1 DEF TurnSound, Visible
    <2> QED BY <2>1, <2>2 DEF TurnsSound
  <1>9. OneSpeaks'
    <2> SUFFICES ASSUME oneloop, NEW g \in Chats PROVE Answering(chat[g])'
      BY <1>2 DEF CaseInv, OneSpeaks
    <2>1. Answering(chat[g]) /\ chat[g].pc = "answer" => chat[g].at \in Cases
      BY TurnFacts DEF CaseInv, OneSpeaks, TurnSound
    <2>2. chat[g].pc = "answer" => chat[g].at # c /\ chat[g].at \in Cases
      BY <1>2, TurnFacts DEF CaseInv, OneSpeaks, Answering, TurnSound
    <2>3. Answering(chat[g])
      BY DEF CaseInv, OneSpeaks
    <2> QED BY <1>2, <1>6, <2>2, <2>3 DEF Answering, PendingQuestions
  <1>10. NothingStranded'
    <2>1. ASSUME NEW d \in Cases, kase'[d].state = "intake_ready"
          PROVE  kase[d].state = "intake_ready"
      BY <1>1, <1>4, <1>6, <2>1
    <2> QED BY <1>2, <2>1 DEF CaseInv, NothingStranded
  <1> QED BY <1>7, <1>8, <1>9, <1>10 DEF CaseInv

LEMMA CaseStep == CaseInv /\ [CaseChatNext]_caseVars => CaseInv'
  <1> SUFFICES ASSUME CaseInv, [CaseChatNext]_caseVars PROVE CaseInv'
    OBVIOUS
  <1>1. CASE UNCHANGED caseVars
    BY <1>1 DEF caseVars, CaseInv, CasesTyped, TurnsSound, TurnSound, Visible, OneSpeaks,
       Answering, PendingQuestions, NothingStranded, RefusalsAreTrue
  <1>2. ASSUME NEW c \in Cases, RunAsks(c) PROVE CaseInv'
    BY <1>2, RunAsksSound
  <1>3. ASSUME NEW h \in Chats, NEW p \in People,
               SayAboutSome(h, p) \/ SayAboutOwn(h, p) \/ SayAnswers(h, p)
               \/ try_text(h, p) \/ _handle_decision_action(h, p)
        PROVE  CaseInv'
    BY <1>3, SaySome, SayOwn, SayReply, SayDecision
  <1>4. ASSUME NEW h \in Chats,
               \/ _brokered_turn(h) \/ Act(h) \/ ActAsks(h) \/ RunCase(h) \/ TellReceipt(h)
               \/ Answer(h) \/ execute(h)
        PROVE  CaseInv'
    BY <1>4, BrokeredSound, ActRefused, ActDone, ActAsksSound, RunCaseSound, TellSound,
       AnswerSound, ExecuteSound
  <1> QED BY <1>1, <1>2, <1>3, <1>4 DEF CaseChatNext, ChatStep

\* What a turn carries fits the case it is about, whoever else speaks.
THEOREM CaseChatInvariant == CaseChatSpec => []CaseInv
  BY CaseStart, CaseStep, PTL DEF CaseChatSpec

\* The variables of the case chat keep their types, and a turn past the broker
\* is about a case, never about the draft the menu lists beside the cases.
THEOREM CaseChatTypes == CaseChatSpec => []CaseChatTypeOK
  <1>1. CaseInv => CaseChatTypeOK
    <2> SUFFICES ASSUME CaseInv PROVE CaseChatTypeOK
      OBVIOUS
    <2>1. ASSUME NEW h \in Chats PROVE chat[h] \in ChatRow /\ TurnSound(chat[h])
      BY TurnFacts
    <2> QED BY <2>1 DEF CaseChatTypeOK, CaseInv, CasesTyped, ChatRow, TurnPcs, TurnSound
  <1> QED BY <1>1, CaseChatInvariant, PTL

Change(c) ==
    kase'[c] # kase[c] =>
        \/ kase[c].state = "analyzing" /\ chat' = chat
        \/ \E h \in Chats : Entitled(h, c)

\* A turn that is over, or goes on at another point, is not the turn it was.
LEMMA TurnMoves ==
    ASSUME CaseInv, NEW h \in Chats, NEW x, x.pc # chat[h].pc, chat' = [chat EXCEPT ![h] = x]
    PROVE  chat'[h] # chat[h]
  BY DEF CaseInv, TurnsSound

\* What a turn that is no decision does to its case is no decision: it is the
\* speaker's own case, or one in the speaker's menu.
LEMMA PlainChange ==
    ASSUME CaseInv, NEW h \in Chats, NEW x, x.pc # chat[h].pc, chat' = [chat EXCEPT ![h] = x],
           chat[h].pc \in {"act", "answer", "rerun"},
           NEW r, kase' = [kase EXCEPT ![chat[h].at] = r],
           kase[chat[h].at].state \in AwaitingAHuman =>
               r.state \in {kase[chat[h].at].state, "intake_ready"}
    PROVE  \A c \in Cases : Change(c)
  <1> SUFFICES ASSUME NEW c \in Cases, kase'[c] # kase[c] PROVE Entitled(h, c)
    BY DEF Change
  <1>1. chat[h].at = c /\ kase'[c] = r
    BY DEF CaseInv, CasesTyped
  <1>2. Visible(chat[h].who, c) /\ chat[h].pc # "idle"
    BY <1>1, TurnFacts DEF TurnSound
  <1>3. chat'[h] # chat[h]
    BY TurnMoves
  <1>4. ~Decides(c)
    BY <1>1 DEF Decides
  <1> QED BY <1>1, <1>2, <1>3, <1>4 DEF Entitled

LEMMA ActEntitled ==
    ASSUME CaseInv, NEW h \in Chats, Act(h) \/ RunCase(h) \/ Answer(h)
    PROVE  \A c \in Cases : Change(c)
  <1>1. CASE kase' = kase
    BY <1>1 DEF Change
  <1>0. chat[h] \in ChatRow /\ ChatRest.pc = "idle"
    BY TurnFacts, ChatRestFacts
  <1>2. CASE Act(h) /\ kase' # kase
    <2> DEFINE c == chat[h].at
    <2>0. chat[h].pc = "act" /\ c \in Cases /\ chat[h].intent \in Intents
      BY <1>2, TurnFacts DEF Act, TurnSound
    <2>1. PICK r \in Effect(kase[c], chat[h].intent, chat[h].who) :
            kase' = [kase EXCEPT ![c] = r]
      BY <1>2 DEF Act
    <2>2. PICK x : x.pc # "act" /\ chat' = [chat EXCEPT ![h] = x]
      <3>1. [chat[h] EXCEPT !.pc = "rerun", !.changed = TRUE].pc # "act"
            /\ [chat[h] EXCEPT !.pc = "after", !.changed = TRUE].pc # "act"
        BY <1>0 DEF ChatRow
      <3> QED BY <1>0, <1>2, <2>1, <3>1 DEF Act
    <2>3. kase[c].state \in AwaitingAHuman => r.state \in {kase[c].state, "intake_ready"}
      <3>1. kase[c] \in CaseRow /\ chat[h].who \in People
        BY <1>0, <2>0 DEF CaseInv, CasesTyped, ChatRow
      <3>2. chat[h].intent = "amend_request" => r.state = "intake_ready"
        BY <2>0, <2>1, <3>1, EffectFacts
      <3>3. chat[h].intent # "amend_request" => kase[c].state \in {"published", "receiving_bids"}
        BY <2>0, <2>1, IntentsAre
           DEF Effect, AddendumEffect, SubmissionEffect, OpeningEffect
      <3> QED BY <3>2, <3>3 DEF AwaitingAHuman
    <2> QED BY <2>0, <2>1, <2>2, <2>3, PlainChange
  <1>3. CASE RunCase(h) /\ kase' # kase
    <2>0. chat[h].pc = "rerun" /\ chat[h].at \in Cases
      BY <1>3, TurnFacts DEF RunCase, TurnSound
    <2>1. PICK c : c = chat[h].at
      OBVIOUS
    <2>2. /\ kase[c].state \in {"intake_ready", "waiting_clarification"}
          /\ kase' = [kase EXCEPT ![c].state = "analyzing", ![c].signals = Signal(@)]
      BY <1>3, <2>1 DEF RunCase
    <2>3. PICK r : kase' = [kase EXCEPT ![c] = r]
      BY <2>2
    <2>4. PICK x : x.pc # "rerun" /\ chat' = [chat EXCEPT ![h] = x]
      <3>1. [chat[h] EXCEPT !.pc = "after"].pc # "rerun"
        BY <1>0 DEF ChatRow
      <3> QED BY <1>0, <1>3, <3>1 DEF RunCase
    <2>5. kase[c].state \notin AwaitingAHuman
      BY <2>2 DEF AwaitingAHuman
    <2> QED BY <2>0, <2>1, <2>3, <2>4, <2>5, PlainChange
  <1>4. CASE Answer(h) /\ kase' # kase
    <2>0. chat[h].pc = "answer" /\ chat[h].at \in Cases
      BY <1>4, TurnFacts DEF Answer, TurnSound
    <2>1. PICK c : c = chat[h].at
      OBVIOUS
    <2>2. kase[c].state = "waiting_clarification" /\ \E r : kase' = [kase EXCEPT ![c] = r]
      BY <1>4, <2>1 DEF Answer, Then
    <2>3. PICK r : kase' = [kase EXCEPT ![c] = r]
      BY <2>2
    <2>4. PICK x : x.pc # "answer" /\ chat' = [chat EXCEPT ![h] = x]
      <3>1. [chat[h] EXCEPT !.pc = "rerun"].pc # "answer"
        BY <1>0 DEF ChatRow
      <3> QED BY <1>0, <1>4, <3>1 DEF Answer, AfterAnswer, Then
    <2>5. kase[c].state \notin AwaitingAHuman
      BY <2>2 DEF AwaitingAHuman
    <2> QED BY <2>0, <2>1, <2>3, <2>4, <2>5, PlainChange
  <1> QED BY <1>1, <1>2, <1>3, <1>4

LEMMA ExecuteEntitled ==
    ASSUME CaseInv, NEW h \in Chats, execute(h) PROVE \A c \in Cases : Change(c)
  <1> SUFFICES ASSUME NEW c \in Cases, kase'[c] # kase[c] PROVE Entitled(h, c)
    BY DEF Change
  <1>0. chat[h].pc = "decide" /\ chat[h].at \in Cases
    BY TurnFacts DEF execute, TurnSound
  <1>1. PICK d : d = chat[h].at
    OBVIOUS
  <1>2. /\ kase[d].state = chat[h].intent /\ CanDecide(chat[h].who)
        /\ kase[d].state = "draft" => kase[d].by # chat[h].who
        /\ \E s : kase' = [kase EXCEPT ![d].state = s, ![d].signals = Signal(@)]
        /\ chat' = [chat EXCEPT ![h] = ChatRest]
    BY <1>1 DEF execute, Then
  <1>3. c = d
    BY <1>2 DEF CaseInv, CasesTyped
  <1>4. chat'[h] # chat[h]
    BY <1>0, <1>2, ChatRestFacts, TurnMoves
  <1> QED BY <1>0, <1>1, <1>2, <1>3, <1>4 DEF Entitled, Visible

\* Whoever speaks in between, a case changes by its run or by a turn of somebody
\* who may see it, and leaves a state that awaits a person only by a decider, at
\* the stage decided, who did not file that draft (DecisionEngine.execute).
THEOREM ChangesEntitled == CaseChatSpec => ChangesAreEntitled
  <1>1. ASSUME CaseInv, [CaseChatNext]_caseVars PROVE \A c \in Cases : Change(c)
    <2>1. CASE kase' = kase
      BY <2>1 DEF Change
    <2>2. ASSUME NEW c \in Cases, RunAsks(c) PROVE \A d \in Cases : Change(d)
      <3>1. kase[c].state = "analyzing" /\ chat' = chat
            /\ \E r : kase' = [kase EXCEPT ![c] = r]
        BY <2>2 DEF RunAsks
      <3> QED BY <3>1 DEF Change, CaseInv, CasesTyped
    <2>3. ASSUME NEW h \in Chats, ChatStep(h), kase' # kase
          PROVE  Act(h) \/ RunCase(h) \/ Answer(h) \/ execute(h)
      BY <2>3 DEF ChatStep, SayAboutSome, SayAboutOwn, SayAnswers, try_text,
         _handle_decision_action, _brokered_turn, ActAsks, TellReceipt, Listen, Then
    <2>4. UNCHANGED caseVars => kase' = kase
      BY DEF caseVars
    <2> QED BY <1>1, <2>1, <2>2, <2>3, <2>4, ActEntitled, ExecuteEntitled DEF CaseChatNext
  <1>2. CaseInv /\ [CaseChatNext]_caseVars => [\A c \in Cases : Change(c)]_caseVars
    BY <1>1
  <1>3. CaseChatSpec => [][\A c \in Cases : Change(c)]_caseVars
    BY <1>2, CaseChatInvariant, PTL DEF CaseChatSpec
  <1> QED BY <1>3 DEF ChangesAreEntitled, Change

\* _clarify_flow and _act_with_receipt: where one message is handled at a time
\* and no run was refused, an answered or amended case has a handler that runs
\* it; and a refusal that is told is true.
THEOREM TurnsSettled == CaseChatSpec => []TurnsAreSettled
  <1>1. CaseInv => TurnsAreSettled
    BY DEF CaseInv, TurnsAreSettled
  <1> QED BY <1>1, CaseChatInvariant, PTL

-----------------------------------------------------------------------------
(* Conversation intake *)

Filing == [conv : Convs, item : Items \union {None}, full : BOOLEAN]

HandlerRow == [pc : Pcs, on : 0..MaxConvs, open : SUBSET Convs,
               seen : [Convs -> Row] \union {<<>>}, turn : Turns, case : 0..MaxFiled]

\* The order lists each of the first Len(rc) conversations once.
Listing(rc) ==
    /\ rc \in Seq(Convs)
    /\ \A i, j \in 1..Len(rc) : rc[i] = rc[j] => i = j
    /\ \A i \in 1..Len(rc) : rc[i] \in 1..Len(rc)
    /\ \A c \in 1..Len(rc) : \E i \in 1..Len(rc) : rc[i] = c

Known(row) == row.state # "absent"

\* The rows: a confirm card only shows a complete request, and the
\* conversations that exist are the ones listed.
RowsSound(cv, rc) ==
    /\ cv \in [Convs -> Row]
    /\ \A c \in Convs : cv[c].state = "confirming" => Complete(cv[c])
    /\ \A c \in Convs : Known(cv[c]) <=> c \in 1..Len(rc)

FilingsSound ==
    /\ filed \in Seq(Filing)
    /\ Len(filed) <= MaxFiled
    /\ FiledWasComplete
    /\ CaseIsItsOwn

\* What a handler carries, whatever the others do meanwhile.
HandlerSound(x, cv, fl) ==
    /\ x.pc # "idle" => x.seen \in [Convs -> Row]
    /\ x.pc \notin {"idle", "active", "create"} => x.on \in Convs /\ Known(cv[x.on])
    /\ x.pc = "active" /\ x.on # 0 => x.on \in Convs /\ Known(cv[x.on])
    /\ \A c \in x.open : Known(cv[c])
    /\ x.pc = "file" => Complete(x.seen[x.on])
    /\ x.pc = "mark" => x.case \in 1..Len(fl) /\ fl[x.case].conv = x.on

\* What it carries besides where messages are handled one at a time.
InStep(x, cv) ==
    /\ x.pc \in {"active", "create", "life", "turn", "focus"} => x.seen = cv
    /\ x.pc \in {"turn", "merge"} => cv[x.on].state \in ActiveStates
    /\ x.pc = "pivot" => /\ cv[x.on].state = "parked"
                         /\ \A c \in Convs \ {x.on} : x.seen[c] = cv[c]
    /\ x.pc \in {"editset", "file", "mark"} => cv[x.on].state = "confirming"
    /\ x.pc = "resumeset" => cv[x.on].state = "parked"
    /\ x.pc = "focusset" => x.seen[x.on] = cv[x.on]

Marking(h, i) ==
    handler[h].pc = "mark" /\ handler[h].on = filed[i].conv /\ handler[h].case = i

OneAtATime ==
    loop => /\ \A h \in Handlers : InStep(handler[h], conv)
            /\ \A h, g \in Handlers : handler[h].pc # "idle" /\ handler[g].pc # "idle" => h = g

\* A case filed is linked, or its handler is about to link it.
FiledIsLinked ==
    loop /\ restarts = 0 =>
        \A i \in 1..Len(filed) :
            \/ conv[filed[i].conv].state = "case_created"
            \/ \E h \in Handlers : Marking(h, i)

HandlersSound ==
    /\ handler \in [Handlers -> HandlerRow]
    /\ \A h \in Handlers : HandlerSound(handler[h], conv, filed)

IntakeInv ==
    /\ RowsSound(conv, recent)
    /\ Listing(recent)
    /\ FilingsSound
    /\ HandlersSound
    /\ OneAtATime
    /\ FiledIsLinked
    /\ OneCasePerRequest
    /\ restarts \in Nat

LEMMA IntakeBounds == MaxConvs \in Nat /\ MaxFiled \in Nat
  BY IntakeAssumption

LEMMA IntakeRestFacts ==
    /\ Rest \in HandlerRow
    /\ Rest.pc = "idle"
    /\ Rest.on = 0 /\ Rest.open = {} /\ Rest.seen = <<>> /\ Rest.turn = NoTurn /\ Rest.case = 0
    /\ \A cv, fl : HandlerSound(Rest, cv, fl) /\ InStep(Rest, cv)
  <1>1. Rest \in HandlerRow /\ Rest.pc = "idle" /\ Rest.open = {}
    BY IntakeBounds DEF Rest, HandlerRow, Pcs, Turns, NoTurn
  <1>2. Rest.on = 0 /\ Rest.seen = <<>> /\ Rest.turn = NoTurn /\ Rest.case = 0
    BY DEF Rest
  <1> QED BY <1>1, <1>2 DEF HandlerSound, InStep

LEMMA FreshFacts ==
    /\ Absent \in Row /\ Absent.state = "absent"
    /\ Fresh \in Row /\ Fresh.state = "collecting" /\ Fresh.case = 0
  <1>1. Absent \in Row /\ Absent.state = "absent" /\ Absent.case = 0
    BY IntakeBounds DEF Absent, Row
  <1>2. "collecting" \in ConvStates
    BY DEF ConvStates, OpenStates, ActiveStates
  <1> QED BY <1>1, <1>2 DEF Fresh, Row

LEMMA IntakeStart == IntakeInit => IntakeInv
  <1> SUFFICES ASSUME IntakeInit PROVE IntakeInv
    OBVIOUS
  <1>1. Listing(recent)
    BY DEF IntakeInit, Listing
  <1>2. RowsSound(conv, recent)
    BY FreshFacts DEF IntakeInit, RowsSound, Known
  <1>3. FilingsSound
    BY FreshFacts, IntakeBounds DEF IntakeInit, FilingsSound, FiledWasComplete, CaseIsItsOwn
  <1>4. HandlersSound
    BY IntakeRestFacts DEF IntakeInit, HandlersSound
  <1>5. OneAtATime
    BY IntakeRestFacts DEF IntakeInit, OneAtATime
  <1>6. FiledIsLinked /\ OneCasePerRequest
    BY DEF IntakeInit, FiledIsLinked, OneCasePerRequest
  <1>7. restarts \in Nat
    BY DEF IntakeInit
  <1> QED BY <1>1, <1>2, <1>3, <1>4, <1>5, <1>6, <1>7 DEF IntakeInv

\* Moving a conversation to the front keeps the order a listing, of one more
\* conversation when it is new.
LEMMA ToFrontLists ==
    ASSUME Listing(recent), NEW c \in Convs, c \in 1..(Len(recent) + 1)
    PROVE  /\ Listing(ToFront(c))
           /\ \A d \in Nat : d \in 1..Len(ToFront(c)) <=> d \in 1..Len(recent) \/ d = c
  <1> DEFINE n == Len(recent)
             p == Place(c)
             r == ToFront(c)
             m == IF c \in 1..n THEN n ELSE n + 1
  <1>1. /\ n \in Nat /\ DOMAIN recent = 1..n /\ recent \in [1..n -> Convs]
        /\ Convs \subseteq Nat /\ c \in Nat /\ c \in 1..(n + 1)
    <2>1. n \in Nat /\ DOMAIN recent = 1..n /\ recent \in [1..n -> Convs]
      BY DEF Listing
    <2>2. Convs \subseteq Nat
      BY IntakeBounds DEF Convs
    <2> QED BY <2>1, <2>2
  <1>a. /\ \A i, j \in 1..n : recent[i] = recent[j] => i = j
        /\ \A i \in 1..n : recent[i] \in 1..n
        /\ \A d \in 1..n : \E i \in 1..n : recent[i] = d
    BY DEF Listing
  <1>2. /\ p \in Nat
        /\ p \in 1..n => recent[p] = c
        /\ p \notin 1..n => c = n + 1 /\ p = n + 1
        /\ c \in 1..n => p \in 1..n
        /\ p \in 1..n => c \in 1..n
    <2>1. CASE \E i \in 1..n : recent[i] = c
      <3>1. p \in 1..n /\ recent[p] = c
        BY <1>1, <2>1 DEF Place
      <3> QED BY <1>1, <1>a, <3>1
    <2>2. CASE ~\E i \in 1..n : recent[i] = c
      <3>1. p = n + 1
        BY <1>1, <2>2 DEF Place
      <3>2. c \notin 1..n
        BY <1>a, <2>2
      <3> QED BY <1>1, <3>1, <3>2
    <2> QED BY <2>1, <2>2
  <1>b. r = [i \in DOMAIN recent \union {p} |->
              IF i = 1 THEN c ELSE IF i <= p THEN recent[i - 1] ELSE recent[i]]
    BY DEF ToFront
  <1>c. (c \in 1..n => m = n) /\ (c \notin 1..n => m = n + 1)
    OBVIOUS
  <1> HIDE DEF n, p, r, m
  <1>5. m \in Nat /\ m >= n /\ m >= 1 /\ p \in 1..m
    BY <1>1, <1>2, <1>c
  <1>3. DOMAIN recent \union {p} = 1..m
    BY <1>1, <1>2, <1>c
  <1>4. r = [i \in 1..m |-> IF i = 1 THEN c ELSE IF i <= p THEN recent[i - 1] ELSE recent[i]]
    BY <1>3, <1>b
  <1>6. ASSUME NEW i \in 1..m
        PROVE  /\ i = 1 => r[i] = c
               /\ i # 1 /\ i <= p => r[i] = recent[i - 1] /\ i - 1 \in 1..n
               /\ i # 1 /\ ~(i <= p) => r[i] = recent[i] /\ i \in 1..n
    BY <1>1, <1>2, <1>4, <1>5, <1>c
  <1>7. r \in [1..m -> Convs]
    BY <1>1, <1>4, <1>6
  <1>8. r \in Seq(Convs) /\ Len(r) = m
    BY <1>5, <1>c, <1>7
  <1>d. ASSUME NEW i \in 1..m, i # 1
        PROVE  \E k \in 1..n : /\ r[i] = recent[k] /\ k # p
                               /\ (k = i - 1 /\ k < p) \/ (k = i /\ k > p)
    <2>1. CASE i <= p
      <3>1. i - 1 \in 1..n /\ r[i] = recent[i - 1] /\ i - 1 < p
        BY <1>2, <1>5, <1>6, <1>d, <2>1
      <3> QED BY <1>2, <3>1
    <2>2. CASE ~(i <= p)
      <3>1. i \in 1..n /\ r[i] = recent[i] /\ i > p
        BY <1>2, <1>5, <1>6, <1>d, <2>2
      <3> QED BY <1>2, <3>1
    <2> QED BY <2>1, <2>2
  <1>9. ASSUME NEW i \in 1..m PROVE r[i] \in 1..m
    <2>1. c \in 1..m
      BY <1>1, <1>5, <1>c
    <2>2. \A d \in 1..n : d \in 1..m
      BY <1>1, <1>5
    <2> QED BY <1>6, <1>a, <1>d, <2>1, <2>2
  <1>10. ASSUME NEW i \in 1..m, i # 1 PROVE r[i] # c
    <2>1. PICK k \in 1..n : r[i] = recent[k] /\ k # p
      BY <1>d, <1>10
    <2>2. CASE p \in 1..n
      BY <1>2, <1>a, <2>1, <2>2
    <2>3. CASE p \notin 1..n
      <3>1. c = n + 1 /\ recent[k] \in 1..n
        BY <1>2, <1>a, <2>3
      <3> QED BY <1>1, <2>1, <3>1
    <2> QED BY <2>2, <2>3
  <1>11. ASSUME NEW i \in 1..m, NEW j \in 1..m, r[i] = r[j] PROVE i = j
    <2>1. CASE i = 1 \/ j = 1
      BY <1>6, <1>10, <1>11, <2>1
    <2>2. CASE i # 1 /\ j # 1
      <3>1. PICK k \in 1..n : r[i] = recent[k] /\ ((k = i - 1 /\ k < p) \/ (k = i /\ k > p))
        BY <1>d, <2>2
      <3>2. PICK l \in 1..n : r[j] = recent[l] /\ ((l = j - 1 /\ l < p) \/ (l = j /\ l > p))
        BY <1>d, <2>2
      <3>3. k = l
        BY <1>a, <1>11, <3>1, <3>2
      <3> QED BY <1>1, <1>2, <1>5, <3>1, <3>2, <3>3
    <2> QED BY <2>1, <2>2
  <1>12. ASSUME NEW d \in 1..m PROVE \E i \in 1..m : r[i] = d
    <2>1. CASE d = c
      BY <1>5, <1>c, <1>6, <2>1
    <2>2. CASE d # c
      <3>1. d \in 1..n
        BY <1>1, <1>2, <1>5, <1>c, <2>2
      <3>2. PICK k \in 1..n : recent[k] = d
        BY <3>1, <1>a
      <3>3. CASE k < p
        <4>1. k + 1 \in 1..m /\ k + 1 # 1 /\ k + 1 <= p /\ (k + 1) - 1 = k
          BY <1>1, <1>2, <1>5, <1>c, <3>3
        <4> QED BY <1>6, <3>2, <4>1
      <3>4. CASE k >= p
        <4>1. k # p /\ k \in 1..m /\ k # 1 /\ ~(k <= p)
          BY <1>1, <1>2, <1>5, <1>c, <2>2, <3>2, <3>4
        <4> QED BY <1>6, <3>2, <4>1
      <3> QED BY <1>1, <1>2, <1>5, <1>c, <3>3, <3>4
    <2> QED BY <2>1, <2>2
  <1>13. Listing(r)
    BY <1>8, <1>9, <1>11, <1>12 DEF Listing
  <1>14. ASSUME NEW d \in Nat PROVE d \in 1..m <=> d \in 1..n \/ d = c
    BY <1>1, <1>5, <1>c
  <1> QED BY <1>8, <1>13, <1>14 DEF n, r

\* A handler that rests is in step with any table.
LEMMA IdleInStep == \A x, cv : x.pc = "idle" => InStep(x, cv)
  BY DEF InStep

\* A busy handler is the only one where messages come one at a time.
LEMMA OnlyBusy ==
    ASSUME IntakeInv, NEW h \in Handlers, handler[h].pc # "idle"
    PROVE  loop => \A g \in Handlers \ {h} : handler[g].pc = "idle"
  BY DEF IntakeInv, OneAtATime

\* A handler goes on and the tables stay.
LEMMA Advances ==
    ASSUME IntakeInv, NEW h \in Handlers, NEW x \in HandlerRow,
           HandlerSound(x, conv, filed), loop => InStep(x, conv),
           loop => \A g \in Handlers \ {h} : handler[g].pc = "idle",
           handler[h].pc # "mark",
           handler' = [handler EXCEPT ![h] = x],
           UNCHANGED <<conv, recent, filed, loop, restarts>>
    PROVE  IntakeInv'
  <1>1. handler \in [Handlers -> HandlerRow]
    BY DEF IntakeInv, HandlersSound
  <1>2. handler' \in [Handlers -> HandlerRow]
    BY <1>1
  <1>3. handler'[h] = x /\ \A g \in Handlers \ {h} : handler'[g] = handler[g]
    BY <1>1
  <1>4. RowsSound(conv, recent)' /\ Listing(recent)' /\ FilingsSound' /\ OneCasePerRequest'
    BY DEF IntakeInv, FilingsSound, FiledWasComplete, CaseIsItsOwn, OneCasePerRequest
  <1>5. HandlersSound'
    BY <1>2, <1>3 DEF IntakeInv, HandlersSound
  <1>6. OneAtATime'
    BY <1>3 DEF IntakeInv, OneAtATime
  <1>7. FiledIsLinked'
    <2> SUFFICES ASSUME loop, restarts = 0, NEW i \in 1..Len(filed),
                        conv[filed[i].conv].state # "case_created"
                 PROVE  \E g \in Handlers : Marking(g, i)'
      BY DEF FiledIsLinked
    <2>1. PICK g \in Handlers : Marking(g, i)
      BY DEF IntakeInv, FiledIsLinked
    <2>2. g # h
      BY <2>1 DEF Marking
    <2> QED BY <1>3, <2>1, <2>2 DEF Marking
  <1>8. restarts' \in Nat
    BY DEF IntakeInv
  <1> QED BY <1>4, <1>5, <1>6, <1>7, <1>8 DEF IntakeInv

\* A statement on the table that the constraints accept.
LEMMA Writes ==
    ASSUME IntakeInv, NEW h \in Handlers, handler[h].pc # "idle",
           NEW c \in Convs, c \in 1..(Len(recent) + 1),
           NEW row \in Row, Known(row), row.state = "confirming" => Complete(row),
           row.state = "case_created" => row.case \in 1..Len(filed) /\ filed[row.case].conv = c,
           NEW cv, cv = [conv EXCEPT ![c] = row],
           NEW x \in HandlerRow, HandlerSound(x, cv, filed), loop => InStep(x, cv),
           loop => conv[c].state # "case_created" \/ row.state = "case_created",
           handler[h].pc = "mark" => row.state = "case_created" /\ handler[h].on = c,
           conv' = cv, recent' = ToFront(c), handler' = [handler EXCEPT ![h] = x],
           UNCHANGED <<filed, loop, restarts>>
    PROVE  IntakeInv'
  <1>1. handler \in [Handlers -> HandlerRow] /\ conv \in [Convs -> Row]
    BY DEF IntakeInv, HandlersSound, RowsSound
  <1>2. handler' \in [Handlers -> HandlerRow]
    BY <1>1
  <1>3. handler'[h] = x /\ \A g \in Handlers \ {h} : handler'[g] = handler[g]
    BY <1>1
  <1>4. conv' \in [Convs -> Row] /\ conv'[c] = row /\ \A d \in Convs \ {c} : conv'[d] = conv[d]
    BY <1>1
  <1>5. Listing(recent) /\ Listing(recent') /\ Convs \subseteq Nat
    BY ToFrontLists, IntakeBounds DEF IntakeInv, Convs
  <1>6. \A d \in Nat : d \in 1..Len(recent') <=> d \in 1..Len(recent) \/ d = c
    BY <1>5, ToFrontLists
  <1>7. RowsSound(conv, recent)'
    BY <1>4, <1>5, <1>6 DEF IntakeInv, RowsSound
  <1>8. \A d \in Convs : Known(conv[d]) => Known(conv'[d])
    BY <1>4
  <1>9. FilingsSound'
    <2>1. filed' = filed /\ filed \in Seq(Filing) /\ DOMAIN filed = 1..Len(filed)
      BY DEF IntakeInv, FilingsSound
    <2>2. CaseIsItsOwn'
      BY <1>4, <2>1 DEF IntakeInv, FilingsSound, CaseIsItsOwn
    <2> QED BY <2>1, <2>2 DEF IntakeInv, FilingsSound, FiledWasComplete
  <1>10. HandlersSound'
    <2>1. ASSUME NEW g \in Handlers, g # h PROVE HandlerSound(handler'[g], conv', filed')
      <3>1. HandlerSound(handler[g], conv, filed) /\ handler[g] \in HandlerRow
        BY <1>1 DEF IntakeInv, HandlersSound
      <3>2. handler[g].open \subseteq Convs
        BY <3>1 DEF HandlerRow
      <3> QED BY <1>3, <1>8, <2>1, <3>1, <3>2 DEF HandlerSound
    <2> QED BY <1>2, <1>3, <2>1 DEF HandlersSound
  <1>11. OneAtATime'
    BY <1>3, IdleInStep, OnlyBusy DEF OneAtATime
  <1>12. FiledIsLinked'
    <2> SUFFICES ASSUME loop, restarts = 0, NEW i \in 1..Len(filed),
                        conv'[filed[i].conv].state # "case_created"
                 PROVE  FALSE
      BY DEF FiledIsLinked
    <2>1. filed[i].conv \in Convs
      <3>1. filed[i] \in Filing
        BY DEF IntakeInv, FilingsSound
      <3> QED BY <3>1 DEF Filing
    <2>2. conv[filed[i].conv].state # "case_created"
      BY <1>4, <2>1
    <2>3. PICK g \in Handlers : Marking(g, i)
      BY <2>2 DEF IntakeInv, FiledIsLinked
    <2>4. g = h
      BY <2>3, OnlyBusy DEF Marking
    <2> QED BY <1>4, <2>3, <2>4 DEF Marking
  <1>13. OneCasePerRequest' /\ restarts' \in Nat
    BY DEF IntakeInv, OneCasePerRequest
  <1> QED BY <1>5, <1>7, <1>9, <1>10, <1>11, <1>12, <1>13 DEF IntakeInv

\* What a step may do to drafts that are not put away on purpose.
NoneClosed == \A c \in Convs : conv'[c].state = "cancelled" => conv[c].state = "cancelled"

\* A statement that is accepted, or raises and ends the turn.
LEMMA Updates ==
    ASSUME IntakeInv, NEW h \in Handlers, handler[h].pc # "idle",
           NEW c \in Convs, c \in 1..(Len(recent) + 1),
           NEW row \in Row, Known(row), row.state = "confirming" => Complete(row),
           row.state = "case_created" => row.case \in 1..Len(filed) /\ filed[row.case].conv = c,
           NEW cv, cv = [conv EXCEPT ![c] = row],
           NEW x \in HandlerRow, HandlerSound(x, cv, filed), loop => InStep(x, cv),
           loop => conv[c].state # "case_created" \/ row.state = "case_created",
           handler[h].pc = "mark" => row.state = "case_created" /\ handler[h].on = c,
           update(h, c, row, x)
    PROVE  IntakeInv' /\ (row.state # "cancelled" => NoneClosed)
  <1>1. UNCHANGED <<filed, loop, restarts>>
    BY DEF update
  <1>2. CASE Accepts(c, row.state)
    <2>1. conv' = cv /\ recent' = ToFront(c) /\ handler' = [handler EXCEPT ![h] = x]
      BY <1>2 DEF update
    <2>2. IntakeInv'
      BY <1>1, <2>1, Writes
    <2>3. row.state # "cancelled" => NoneClosed
      BY <2>1 DEF NoneClosed, IntakeInv, RowsSound
    <2> QED BY <2>2, <2>3
  <1>3. CASE ~Accepts(c, row.state)
    <2>1. conv' = conv /\ recent' = recent /\ handler' = [handler EXCEPT ![h] = Rest]
      BY <1>3 DEF update
    <2>2. handler[h].pc # "mark"
      BY <1>3 DEF Accepts, ActiveStates
    <2>3. IntakeInv'
      BY <1>1, <2>1, <2>2, IntakeRestFacts, OnlyBusy, Advances
    <2> QED BY <2>1, <2>3 DEF NoneClosed
  <1> QED BY <1>2, <1>3

LEMMA GoesOn ==
    ASSUME IntakeInv, NEW h \in Handlers, handler[h].pc \notin {"idle", "mark"},
           NEW x \in HandlerRow, HandlerSound(x, conv, filed), loop => InStep(x, conv),
           Go(h, x)
    PROVE  IntakeInv' /\ NoneClosed
  BY OnlyBusy, Advances DEF Go, NoneClosed

LEMMA GoesToRest ==
    ASSUME IntakeInv, NEW h \in Handlers, handler[h].pc \notin {"idle", "mark"}, Go(h, Rest)
    PROVE  IntakeInv' /\ NoneClosed
  BY GoesOn, IntakeRestFacts

LEMMA Arrives ==
    ASSUME IntakeInv, NEW h \in Handlers,
           NEW x \in HandlerRow, HandlerSound(x, conv, filed), loop => InStep(x, conv),
           Arrive(h, x)
    PROVE  IntakeInv' /\ NoneClosed
  BY Advances DEF Arrive, NoneClosed

LEMMA IntakeHandler ==
    ASSUME IntakeInv, NEW h \in Handlers
    PROVE  /\ handler[h] \in HandlerRow
           /\ HandlerSound(handler[h], conv, filed)
           /\ loop => InStep(handler[h], conv)
  BY DEF IntakeInv, HandlersSound, OneAtATime

LEMMA KnownListed ==
    ASSUME IntakeInv, NEW c \in Convs, Known(conv[c])
    PROVE  conv[c] \in Row /\ c \in 1..(Len(recent) + 1)
  <1>1. conv[c] \in Row /\ c \in 1..Len(recent)
    BY DEF IntakeInv, RowsSound
  <1>2. Len(recent) \in Nat
    BY DEF IntakeInv, Listing
  <1> QED BY <1>1, <1>2

\* A handler that changes only what it does next.
LEMMA StepsTo ==
    ASSUME NEW y \in HandlerRow, NEW p \in Pcs
    PROVE  LET x == [y EXCEPT !.pc = p]
           IN  /\ x \in HandlerRow /\ x.pc = p /\ x.on = y.on
               /\ x.open = y.open /\ x.seen = y.seen /\ x.turn = y.turn /\ x.case = y.case
  BY DEF HandlerRow

Plain == Pcs \ {"idle", "active", "file", "mark"}

LEMMA PlainPcs ==
    /\ {"create", "life", "turn", "pivot", "merge", "confirm", "edit", "editset",
        "resume", "resumeset", "focus", "focusset"} \subseteq Plain
    /\ Plain \subseteq Pcs
  BY DEF Plain, Pcs

\* What such a handler still knows.
LEMMA StaysSound ==
    ASSUME NEW cv, NEW fl, NEW y \in HandlerRow, HandlerSound(y, cv, fl), y.pc # "idle",
           NEW x \in HandlerRow, x.pc \in Plain, x.open = y.open, x.seen = y.seen,
           x.pc # "create" => x.on \in Convs /\ Known(cv[x.on])
    PROVE  HandlerSound(x, cv, fl)
  BY DEF HandlerSound, Plain

\* A new state for a conversation that exists.
LEMMA SetsState ==
    ASSUME IntakeInv, NEW h \in Handlers, handler[h].pc \notin {"idle", "mark"},
           NEW c \in Convs, Known(conv[c]), loop => conv[c].state # "case_created",
           NEW state \in {"collecting", "parked", "cancelled"},
           NEW x \in HandlerRow, HandlerSound(x, conv, filed),
           loop => InStep(x, [conv EXCEPT ![c] = [conv[c] EXCEPT !.state = state]]),
           SetState(h, c, state, x)
    PROVE  IntakeInv' /\ (state # "cancelled" => NoneClosed)
  <1> DEFINE row == [conv[c] EXCEPT !.state = state]
             cv == [conv EXCEPT ![c] = row]
  <1>1. conv \in [Convs -> Row] /\ conv[c] \in Row /\ c \in 1..(Len(recent) + 1)
    BY KnownListed DEF IntakeInv, RowsSound
  <1>2. state \in ConvStates
    BY DEF ConvStates, OpenStates, ActiveStates
  <1>3. row \in Row /\ row.state = state
    BY <1>1, <1>2 DEF Row
  <1>4. update(h, c, row, x)
    BY DEF SetState
  <1>5. loop => InStep(x, cv)
    OBVIOUS
  <1> HIDE DEF row
  <1>6. Known(row)
    BY <1>3 DEF Known
  <1>7. \A d \in Convs : Known(conv[d]) => Known(cv[d])
    BY <1>1, <1>6
  <1>8. HandlerSound(x, cv, filed)
    <2>1. x.open \subseteq Convs
      BY DEF HandlerRow
    <2> HIDE DEF cv
    <2> QED BY <1>7, <2>1 DEF HandlerSound
  <1>9. row.state \notin {"confirming", "case_created"}
    BY <1>3
  <1> QED BY <1>1, <1>3, <1>4, <1>5, <1>6, <1>8, <1>9, Updates

LEMMA SetsAndRests ==
    ASSUME IntakeInv, NEW h \in Handlers, handler[h].pc \notin {"idle", "mark"},
           NEW c \in Convs, Known(conv[c]), loop => conv[c].state # "case_created",
           SetState(h, c, "collecting", Rest)
    PROVE  IntakeInv' /\ NoneClosed
  BY SetsState, IntakeRestFacts

\* What a handler's own conversation and its others are.
LEMMA OnFacts ==
    ASSUME IntakeInv, NEW h \in Handlers, handler[h].pc \notin {"idle", "active", "create"}
    PROVE  /\ handler[h].on \in Convs /\ Known(conv[handler[h].on])
           /\ Draft(h) \in Row
  BY IntakeHandler DEF HandlerSound, Draft, View

LEMMA OthersFacts ==
    ASSUME IntakeInv, NEW h \in Handlers, NEW c \in Others(h)
    PROVE  c \in Convs /\ Known(conv[c]) /\ c # handler[h].on
  BY IntakeHandler DEF HandlerSound, Others, HandlerRow

\* The store's reads.
LEMMA LatestIn == ASSUME NEW S, NEW n PROVE Latest(S, n) \subseteq S
  BY DEF Latest

LEMMA InStateFacts ==
    ASSUME NEW S, S \subseteq ConvStates
    PROVE  \A c \in InState(S) : c \in Convs /\ conv[c].state \in S /\ Known(conv[c])
  BY DEF InState, Known, ConvStates, OpenStates, ActiveStates

LEMMA OpenFacts == list_open \subseteq Convs /\ \A c \in list_open : Known(conv[c])
  BY LatestIn, InStateFacts DEF list_open, ConvStates

\* A button that starts out from a table it has just read.
LEMMA StartsSound ==
    ASSUME IntakeInv, NEW x \in HandlerRow, x.seen = conv, x.pc \in Plain,
           \A c \in x.open : Known(conv[c]),
           x.on \in Convs /\ Known(conv[x.on]),
           x.pc \in {"confirm", "edit", "focus"}
    PROVE  HandlerSound(x, conv, filed) /\ InStep(x, conv)
  <1>1. conv \in [Convs -> Row]
    BY DEF IntakeInv, RowsSound
  <1>2. HandlerSound(x, conv, filed)
    BY <1>1 DEF HandlerSound
  <1>3. InStep(x, conv)
    BY DEF InStep
  <1> QED BY <1>2, <1>3

LEMMA ReceiveSound ==
    ASSUME IntakeInv, NEW h \in Handlers, Receive(h)
    PROVE  IntakeInv' /\ NoneClosed
  <1>1. PICK open : open = list_open
    OBVIOUS
  <1>2. open \in SUBSET Convs /\ \A c \in open : Known(conv[c])
    BY <1>1, OpenFacts
  <1>3. PICK c : /\ c = 0 \/ (c \in Convs /\ Known(conv[c]))
                 /\ Arrive(h, [Rest EXCEPT !.pc = "active", !.on = c, !.open = open,
                                           !.seen = conv])
    BY <1>1, <1>2, LatestIn DEF Receive
  <1> DEFINE x == [Rest EXCEPT !.pc = "active", !.on = c, !.open = open, !.seen = conv]
  <1>4. conv \in [Convs -> Row] /\ Rest \in HandlerRow
    BY IntakeRestFacts DEF IntakeInv, RowsSound
  <1>5. c \in 0..MaxConvs /\ "active" \in Pcs
    BY <1>3, IntakeBounds DEF Convs, Pcs
  <1>6. x \in HandlerRow /\ x.pc = "active" /\ x.on = c /\ x.open = open /\ x.seen = conv
    BY <1>2, <1>4, <1>5 DEF HandlerRow
  <1>7. Arrive(h, x)
    BY <1>3
  <1> HIDE DEF x
  <1>8. HandlerSound(x, conv, filed) /\ InStep(x, conv)
    BY <1>2, <1>3, <1>4, <1>6 DEF HandlerSound, InStep
  <1> QED BY <1>6, <1>7, <1>8, Arrives

\* Where messages come one at a time, the second read sees the table of the first.
LEMMA FindActiveSound ==
    ASSUME IntakeInv, NEW h \in Handlers, FindActive(h)
    PROVE  IntakeInv' /\ NoneClosed
  <1>1. /\ handler[h].pc = "active" /\ handler[h] \in HandlerRow
        /\ HandlerSound(handler[h], conv, filed) /\ (loop => InStep(handler[h], conv))
    BY IntakeHandler DEF FindActive
  <1>2. conv \in [Convs -> Row] /\ handler[h].seen \in [Convs -> Row]
    BY <1>1 DEF IntakeInv, RowsSound, HandlerSound
  <1>3. ASSUME NEW c \in find_active,
               Go(h, [handler[h] EXCEPT !.pc = "turn", !.on = c,
                                        !.seen = [handler[h].seen EXCEPT ![c] = conv[c]]])
        PROVE  IntakeInv' /\ NoneClosed
    <2>1. c \in Convs /\ Known(conv[c]) /\ conv[c].state \in ActiveStates
      BY InStateFacts DEF find_active, ConvStates, OpenStates
    <2>2. PICK cv : cv = [handler[h].seen EXCEPT ![c] = conv[c]]
      OBVIOUS
    <2>3. cv \in [Convs -> Row] /\ (loop => cv = conv)
      BY <1>1, <1>2, <2>1, <2>2 DEF InStep
    <2> DEFINE x == [handler[h] EXCEPT !.pc = "turn", !.on = c, !.seen = cv]
    <2>4. x \in HandlerRow /\ x.pc = "turn" /\ x.on = c /\ x.open = handler[h].open
          /\ x.seen = cv
      <3>1. c \in 0..MaxConvs /\ "turn" \in Pcs
        BY <2>1, IntakeBounds DEF Convs, Pcs
      <3> QED BY <1>1, <2>3, <3>1 DEF HandlerRow
    <2>5. Go(h, x)
      BY <1>3, <2>2
    <2> HIDE DEF x
    <2>6. HandlerSound(x, conv, filed)
      BY <1>1, <2>1, <2>3, <2>4 DEF HandlerSound
    <2>7. loop => InStep(x, conv)
      BY <2>1, <2>3, <2>4 DEF InStep
    <2> QED BY <1>1, <2>4, <2>5, <2>6, <2>7, GoesOn
  <1>4. ASSUME NEW p \in {"create", "life"}, p = "life" => handler[h].on # 0,
               Go(h, [handler[h] EXCEPT !.pc = p])
        PROVE  IntakeInv' /\ NoneClosed
    <2>1. p \in Pcs
      BY PlainPcs
    <2> DEFINE x == [handler[h] EXCEPT !.pc = p]
    <2>2. x \in HandlerRow /\ x.pc = p /\ x.on = handler[h].on /\ x.open = handler[h].open
          /\ x.seen = handler[h].seen
      BY <1>1, <2>1, StepsTo
    <2>3. Go(h, x)
      BY <1>4
    <2> HIDE DEF x
    <2>4. HandlerSound(x, conv, filed)
      BY <1>1, <1>4, <2>2 DEF HandlerSound
    <2>5. loop => InStep(x, conv)
      BY <1>1, <1>4, <2>2 DEF InStep
    <2> QED BY <1>1, <2>2, <2>3, <2>4, <2>5, GoesOn
  <1> QED BY <1>3, <1>4 DEF FindActive

LEMMA ButtonsSound ==
    ASSUME IntakeInv, NEW h \in Handlers, NEW c \in Convs, Press(h, c) \/ Pick(h, c)
    PROVE  IntakeInv' /\ NoneClosed
  <1>1. Known(conv[c])
    BY DEF Press, Pick, Known
  <1>2. ASSUME NEW x \in HandlerRow, x.pc \in {"confirm", "edit", "focus"}, x.on = c,
               \A d \in x.open : Known(conv[d]), x.seen = conv, Arrive(h, x)
        PROVE  IntakeInv' /\ NoneClosed
    <2>1. x.pc \in Plain
      BY <1>2, PlainPcs
    <2>2. HandlerSound(x, conv, filed) /\ InStep(x, conv)
      BY <1>1, <1>2, <2>1, StartsSound
    <2> QED BY <1>2, <2>2, Arrives
  <1>3. conv \in [Convs -> Row] /\ Rest \in HandlerRow /\ Rest.open = {}
    BY IntakeRestFacts DEF IntakeInv, RowsSound
  <1>4. c \in 0..MaxConvs
    BY IntakeBounds DEF Convs
  <1>5. CASE Press(h, c)
    <2>1. PICK p \in {"confirm", "edit"} :
              Arrive(h, [Rest EXCEPT !.pc = p, !.on = c, !.seen = conv])
      BY <1>5 DEF Press
    <2> DEFINE x == [Rest EXCEPT !.pc = p, !.on = c, !.seen = conv]
    <2>2. p \in Pcs
      BY PlainPcs
    <2>3. x \in HandlerRow /\ x.pc = p /\ x.on = c /\ x.open = {} /\ x.seen = conv
      BY <1>3, <1>4, <2>2 DEF HandlerRow
    <2> HIDE DEF x
    <2> QED BY <1>2, <2>1, <2>3 DEF x
  <1>6. CASE Pick(h, c)
    <2> DEFINE x == [Rest EXCEPT !.pc = "focus", !.on = c, !.open = list_open, !.seen = conv]
    <2>1. Arrive(h, x)
      BY <1>6 DEF Pick
    <2>2. "focus" \in Pcs
      BY PlainPcs
    <2>3. list_open \in SUBSET Convs /\ \A d \in list_open : Known(conv[d])
      BY OpenFacts
    <2>4. x \in HandlerRow /\ x.pc = "focus" /\ x.on = c /\ x.open = list_open /\ x.seen = conv
      BY <1>3, <1>4, <2>2, <2>3 DEF HandlerRow
    <2> HIDE DEF x
    <2> QED BY <1>2, <2>1, <2>3, <2>4
  <1> QED BY <1>5, <1>6

\* A handler that only turns to a conversation of its view.
LEMMA SwitchesSound ==
    ASSUME IntakeInv, NEW h \in Handlers, handler[h].pc \notin {"idle", "mark"},
           NEW p \in {"focus", "resumeset"}, NEW c \in Convs, Known(conv[c]),
           p = "focus" => handler[h].pc \in {"life", "turn"},
           p = "resumeset" => conv[c].state = "parked",
           Go(h, [handler[h] EXCEPT !.pc = p, !.on = c])
    PROVE  IntakeInv' /\ NoneClosed
  <1> DEFINE x == [handler[h] EXCEPT !.pc = p, !.on = c]
  <1>1. p \in Pcs /\ p \in Plain
    BY PlainPcs
  <1>a. handler[h] \in HandlerRow
    BY IntakeHandler
  <1>2. x \in HandlerRow /\ x.pc = p /\ x.on = c /\ x.open = handler[h].open /\ x.seen = handler[h].seen
    <2>1. c \in 0..MaxConvs
      BY IntakeBounds DEF Convs
    <2> QED BY <1>1, <1>a, <2>1 DEF HandlerRow
  <1>3. Go(h, x)
    OBVIOUS
  <1> HIDE DEF x
  <1>4. HandlerSound(x, conv, filed)
    BY <1>1, <1>2, IntakeHandler, StaysSound
  <1>5. loop => InStep(x, conv)
    BY <1>2, IntakeHandler DEF InStep
  <1> QED BY <1>2, <1>3, <1>4, <1>5, GoesOn

LEMMA StepsSound ==
    ASSUME IntakeInv, NEW h \in Handlers, handler[h].pc \notin {"idle", "mark"},
           NEW p \in Plain, p \in {"create", "confirm", "edit", "focusset"},
           p = "create" => handler[h].pc = "life",
           p = "focusset" => handler[h].pc = "focus",
           p # "create" => handler[h].pc \notin {"active", "create"},
           Go(h, [handler[h] EXCEPT !.pc = p])
    PROVE  IntakeInv' /\ NoneClosed
  <1> DEFINE x == [handler[h] EXCEPT !.pc = p]
  <1>1. x \in HandlerRow /\ x.pc = p /\ x.on = handler[h].on /\ x.open = handler[h].open
        /\ x.seen = handler[h].seen
    BY PlainPcs, IntakeHandler, StepsTo
  <1>2. Go(h, x)
    OBVIOUS
  <1> HIDE DEF x
  <1>3. HandlerSound(x, conv, filed)
    <2>1. p # "create" => x.on \in Convs /\ Known(conv[x.on])
      BY <1>1, OnFacts
    <2> QED BY <1>1, <2>1, IntakeHandler, StaysSound
  <1>4. loop => InStep(x, conv)
    BY <1>1, IntakeHandler DEF InStep
  <1> QED BY <1>1, <1>2, <1>3, <1>4, GoesOn

LEMMA LifecycleSound ==
    ASSUME IntakeInv, NEW h \in Handlers, LifecycleTurn(h)
    PROVE  IntakeInv' /\ NoneClosed
  <1>1. handler[h].pc = "life"
    BY DEF LifecycleTurn
  <1>2. "create" \in Plain
    BY PlainPcs
  <1>3. CASE Go(h, Rest)
    BY <1>1, <1>3, GoesToRest
  <1>4. CASE Go(h, [handler[h] EXCEPT !.pc = "create"])
    BY <1>1, <1>2, <1>4, StepsSound
  <1>5. CASE \E c \in Others(h) : Go(h, [handler[h] EXCEPT !.pc = "focus", !.on = c])
    BY <1>1, <1>5, OthersFacts, SwitchesSound
  <1> QED BY <1>3, <1>4, <1>5 DEF LifecycleTurn

LEMMA PlainTurns ==
    ASSUME IntakeInv, NEW h \in Handlers,
           TurnAsks(h) \/ TurnLists(h) \/ TurnEnds(h) \/ TurnAnswersCard(h) \/ TurnSwitches(h)
    PROVE  IntakeInv' /\ NoneClosed
  <1>1. handler[h].pc = "turn"
    BY DEF TurnAsks, TurnLists, TurnEnds, TurnAnswersCard, TurnSwitches
  <1>2. CASE TurnAsks(h) \/ TurnLists(h) \/ TurnEnds(h)
    BY <1>1, <1>2, GoesToRest DEF TurnAsks, TurnLists, TurnEnds
  <1>3. CASE TurnAnswersCard(h)
    <2>1. "confirm" \in Plain /\ "edit" \in Plain
      BY PlainPcs
    <2>2. PICK p \in {"confirm", "edit"} : Go(h, [handler[h] EXCEPT !.pc = p])
      BY <1>3 DEF TurnAnswersCard
    <2> QED BY <1>1, <2>1, <2>2, StepsSound
  <1>4. CASE TurnSwitches(h)
    <2>1. PICK c \in Others(h) : Go(h, [handler[h] EXCEPT !.pc = "focus", !.on = c])
      BY <1>4 DEF TurnSwitches
    <2> QED BY <1>1, <2>1, OthersFacts, SwitchesSound
  <1> QED BY <1>2, <1>3, <1>4

LEMMA FindParkedSound ==
    ASSUME IntakeInv, NEW h \in Handlers, FindParked(h)
    PROVE  IntakeInv' /\ NoneClosed
  <1>1. handler[h].pc = "resume"
    BY DEF FindParked
  <1>2. CASE Go(h, Rest)
    BY <1>1, <1>2, GoesToRest
  <1>3. CASE \E c \in Latest(InState({"parked"}), 1) :
                Go(h, [handler[h] EXCEPT !.pc = "resumeset", !.on = c])
    <2>1. PICK c \in Latest(InState({"parked"}), 1) :
              Go(h, [handler[h] EXCEPT !.pc = "resumeset", !.on = c])
      BY <1>3
    <2>2. {"parked"} \subseteq ConvStates
      BY DEF ConvStates, OpenStates
    <2>3. c \in Convs /\ conv[c].state = "parked" /\ Known(conv[c])
      BY <2>2, LatestIn, InStateFacts
    <2> QED BY <1>1, <2>1, <2>3, SwitchesSound
  <1> QED BY <1>2, <1>3 DEF FindParked

\* A new conversation, for a turn that goes on in it.
LEMMA CreateSound ==
    ASSUME IntakeInv, NEW h \in Handlers, handler[h].pc \in {"create", "pivot"},
           NEW y \in HandlerRow, y.pc \in {"turn", "merge"},
           y.open = handler[h].open, y.seen = handler[h].seen,
           y.pc = "turn" => handler[h].pc = "create",
           create(h, y)
    PROVE  IntakeInv' /\ NoneClosed
  <1> DEFINE c == Len(recent) + 1
             cv == [conv EXCEPT ![c] = Fresh]
             view == [y.seen EXCEPT ![c] = Fresh]
             x == [y EXCEPT !.on = c, !.open = @ \union {c}, !.seen = view]
  <1>1. /\ Len(recent) \in Nat /\ conv \in [Convs -> Row]
        /\ \A d \in Convs : Known(conv[d]) <=> d \in 1..Len(recent)
    BY DEF IntakeInv, Listing, RowsSound
  <1>2. Len(recent) < MaxConvs /\ update(h, c, Fresh, x)
    BY DEF create
  <1>3. c \in Convs /\ c \in 0..MaxConvs /\ c \in 1..(Len(recent) + 1) /\ c \notin 1..Len(recent)
    BY <1>1, <1>2, IntakeBounds DEF Convs
  <1>4. conv[c].state = "absent"
    BY <1>1, <1>3 DEF Known
  <1>5. y.seen \in [Convs -> Row] /\ \A d \in y.open : Known(conv[d])
    BY IntakeHandler DEF HandlerSound
  <1>6. y.open \subseteq Convs
    BY DEF HandlerRow
  <1>7. Fresh \in Row /\ Fresh.state = "collecting" /\ Known(Fresh)
    BY FreshFacts DEF Known
  <1> HIDE DEF c
  <1>8. view \in [Convs -> Row]
    BY <1>5, <1>7
  <1>9. cv[c] = Fresh /\ \A d \in Convs : Known(conv[d]) => Known(cv[d])
    BY <1>1, <1>3, <1>7
  <1>10. handler[h].pc = "create" /\ loop => view = cv
    BY IntakeHandler DEF InStep
  <1> HIDE DEF view, cv
  <1>11. /\ x \in HandlerRow /\ x.pc = y.pc /\ x.on = c
         /\ x.open = y.open \union {c} /\ x.seen = view
    BY <1>3, <1>6, <1>8 DEF HandlerRow
  <1> HIDE DEF x
  <1>12. HandlerSound(x, cv, filed)
    BY <1>3, <1>5, <1>6, <1>7, <1>8, <1>9, <1>11 DEF HandlerSound
  <1>13. loop => InStep(x, cv)
    BY <1>7, <1>9, <1>10, <1>11 DEF InStep, ActiveStates
  <1>14. cv = [conv EXCEPT ![c] = Fresh]
    BY DEF cv
  <1> QED BY <1>2, <1>3, <1>4, <1>7, <1>11, <1>12, <1>13, <1>14, Updates

LEMMA StartDraftSound ==
    ASSUME IntakeInv, NEW h \in Handlers, StartDraft(h)
    PROVE  IntakeInv' /\ NoneClosed
  <1> DEFINE y == [handler[h] EXCEPT !.pc = "turn"]
  <1>1. handler[h].pc = "create" /\ create(h, y) /\ "turn" \in Pcs
    BY PlainPcs DEF StartDraft
  <1>2. y \in HandlerRow /\ y.pc = "turn" /\ y.open = handler[h].open /\ y.seen = handler[h].seen
    BY <1>1, IntakeHandler, StepsTo
  <1> HIDE DEF y
  <1> QED BY <1>1, <1>2, CreateSound

LEMMA TurnPivotsSound ==
    ASSUME IntakeInv, NEW h \in Handlers, TurnPivots(h)
    PROVE  IntakeInv' /\ NoneClosed
  <1>1. PICK turn \in Turns : SetState(h, handler[h].on, "parked",
                                [handler[h] EXCEPT !.pc = "pivot", !.turn = turn])
    BY DEF TurnPivots
  <1> DEFINE y == handler[h]
             c == y.on
             x == [y EXCEPT !.pc = "pivot", !.turn = turn]
             row == [conv[c] EXCEPT !.state = "parked"]
             cv == [conv EXCEPT ![c] = row]
  <1>2. y.pc = "turn" /\ y \in HandlerRow /\ HandlerSound(y, conv, filed) /\ (loop => InStep(y, conv))
    BY IntakeHandler DEF TurnPivots
  <1>3. "pivot" \in Pcs /\ "pivot" \in Plain
    BY PlainPcs
  <1>4. /\ x \in HandlerRow /\ x.pc = "pivot" /\ x.on = c
        /\ x.open = y.open /\ x.seen = y.seen
    BY <1>2, <1>3 DEF HandlerRow
  <1>5. c \in Convs /\ Known(conv[c])
    BY <1>2, OnFacts
  <1>6. SetState(h, c, "parked", x)
    BY <1>1
  <1> HIDE DEF x, y
  <1>7. HandlerSound(x, conv, filed)
    BY <1>2, <1>3, <1>4, <1>5, StaysSound
  <1>8. conv \in [Convs -> Row] /\ conv[c] \in Row
    BY <1>5 DEF IntakeInv, RowsSound
  <1>9. row.state = "parked"
    BY <1>8 DEF Row
  <1>10. loop => conv[c].state \in ActiveStates /\ x.seen = conv
    BY <1>2, <1>4 DEF InStep
  <1>11. loop => InStep(x, cv)
    <2> HIDE DEF row
    <2>1. cv[c] = row /\ \A d \in Convs \ {c} : cv[d] = conv[d]
      BY <1>5, <1>8
    <2> HIDE DEF cv
    <2> QED BY <1>4, <1>9, <1>10, <2>1 DEF InStep
  <1>12. loop => conv[c].state # "case_created"
    BY <1>10 DEF ActiveStates
  <1>13. handler[h].pc \notin {"idle", "mark"}
    BY <1>2 DEF y
  <1> QED BY <1>4, <1>5, <1>6, <1>7, <1>11, <1>12, <1>13, SetsState

LEMMA PivotOpensSound ==
    ASSUME IntakeInv, NEW h \in Handlers, PivotOpens(h)
    PROVE  IntakeInv' /\ NoneClosed
  <1> DEFINE y == [handler[h] EXCEPT !.pc = "merge"]
  <1>1. handler[h].pc = "pivot" /\ "merge" \in Pcs /\ "merge" \in Plain
    BY PlainPcs DEF PivotOpens
  <1>2. /\ y \in HandlerRow /\ y.pc = "merge"
        /\ y.open = handler[h].open /\ y.seen = handler[h].seen
    BY <1>1, IntakeHandler, StepsTo
  <1>3. \/ create(h, y)
        \/ \E c \in Parked(h) : SetState(h, c, "collecting", [y EXCEPT !.on = c])
    BY DEF PivotOpens, Match
  <1> HIDE DEF y
  <1>4. CASE create(h, y)
    BY <1>1, <1>2, <1>4, CreateSound
  <1>5. ASSUME NEW c \in Parked(h), SetState(h, c, "collecting", [y EXCEPT !.on = c])
        PROVE  IntakeInv' /\ NoneClosed
    <2> DEFINE x == [y EXCEPT !.on = c]
               row == [conv[c] EXCEPT !.state = "collecting"]
               cv == [conv EXCEPT ![c] = row]
    <2>1. c \in Convs /\ Known(conv[c]) /\ c # handler[h].on /\ handler[h].seen[c].state = "parked"
      BY OthersFacts DEF Parked, View
    <2>2. c \in 0..MaxConvs
      BY <2>1, IntakeBounds DEF Convs
    <2>3. x \in HandlerRow /\ x.pc = "merge" /\ x.on = c /\ x.open = y.open /\ x.seen = y.seen
      BY <1>2, <2>2 DEF HandlerRow
    <2>4. SetState(h, c, "collecting", x)
      BY <1>5
    <2> HIDE DEF x
    <2>5. HandlerSound(x, conv, filed)
      BY <1>1, <1>2, <2>1, <2>3, IntakeHandler, StaysSound
    <2>6. loop => conv[c].state # "case_created"
      BY <1>1, <2>1, IntakeHandler DEF InStep
    <2>7. conv \in [Convs -> Row] /\ conv[c] \in Row
      BY <2>1 DEF IntakeInv, RowsSound
    <2>8. cv[c] = row /\ row.state = "collecting"
      BY <2>1, <2>7 DEF Row
    <2>9. InStep(x, cv)
      <3> HIDE DEF row, cv
      <3> QED BY <2>3, <2>8 DEF InStep, ActiveStates
    <2> QED BY <1>1, <2>1, <2>3, <2>4, <2>5, <2>6, <2>9, SetsState
  <1> QED BY <1>3, <1>4, <1>5

\* The slots that a turn writes are those of a row.
LEMMA MergeSound ==
    ASSUME IntakeInv, NEW h \in Handlers, handler[h].pc \in {"turn", "merge"},
           NEW r \in Row, Merge(h, r)
    PROVE  IntakeInv' /\ NoneClosed
  <1> DEFINE c == handler[h].on
             row == [r EXCEPT !.state = IF Complete(r) THEN "confirming" ELSE "collecting",
                              !.case = conv[c].case]
             cv == [conv EXCEPT ![c] = row]
  <1>1. c \in Convs /\ Known(conv[c]) /\ conv[c] \in Row /\ c \in 1..(Len(recent) + 1)
    BY OnFacts, KnownListed
  <1>2. update(h, c, row, Rest)
    BY DEF Merge
  <1>3. {"confirming", "collecting"} \subseteq ConvStates
    BY DEF ConvStates, OpenStates, ActiveStates
  <1> HIDE DEF c
  <1>4. conv[c].case \in 0..MaxFiled
    BY <1>1 DEF Row
  <1>5. /\ row \in Row /\ row.item = r.item /\ row.full = r.full
        /\ row.state = IF Complete(r) THEN "confirming" ELSE "collecting"
    BY <1>3, <1>4 DEF Row
  <1> HIDE DEF row
  <1>6. row.state = "confirming" => Complete(row)
    BY <1>5 DEF Complete
  <1>7. Known(row) /\ row.state # "case_created" /\ row.state # "cancelled"
    BY <1>5 DEF Known
  <1>8. loop => conv[c].state # "case_created"
    BY IntakeHandler DEF InStep, ActiveStates, c
  <1>9. HandlerSound(Rest, cv, filed) /\ InStep(Rest, cv) /\ Rest \in HandlerRow
    BY IntakeRestFacts
  <1>10. IntakeInv' /\ (row.state # "cancelled" => NoneClosed)
    BY <1>1, <1>2, <1>5, <1>6, <1>7, <1>8, <1>9, Updates
  <1> QED BY <1>7, <1>10

LEMMA FillSound ==
    ASSUME IntakeInv, NEW h \in Handlers, handler[h].pc \in {"turn", "merge"},
           NEW turn \in Turns, Fill(h, turn)
    PROVE  IntakeInv' /\ NoneClosed
  <1> DEFINE row == Merged(Draft(h), turn)
             dropped == [row EXCEPT !.full = FALSE]
  <1>1. Draft(h) \in Row
    BY OnFacts
  <1>2. turn.item \in Items \union {None} /\ turn.full \in BOOLEAN
    BY DEF Turns
  <1>3. row \in Row
    <2>1. Draft(h).item \in Items \union {None} /\ (Draft(h).full \/ turn.full) \in BOOLEAN
      BY <1>1 DEF Row
    <2> QED BY <1>1, <1>2, <2>1 DEF Merged, Row
  <1>4. Merge(h, row) \/ Merge(h, dropped)
    BY DEF Fill
  <1> HIDE DEF row
  <1>5. dropped \in Row
    BY <1>3 DEF Row
  <1> HIDE DEF dropped
  <1> QED BY <1>3, <1>4, <1>5, MergeSound

LEMMA FillTurns ==
    ASSUME IntakeInv, NEW h \in Handlers, PivotMerges(h) \/ TurnFills(h)
    PROVE  IntakeInv' /\ NoneClosed
  <1>1. CASE PivotMerges(h)
    <2>1. handler[h].turn \in Turns
      BY IntakeHandler DEF HandlerRow
    <2> QED BY <1>1, <2>1, FillSound DEF PivotMerges
  <1>2. CASE TurnFills(h)
    BY <1>2, FillSound DEF TurnFills
  <1> QED BY <1>1, <1>2

LEMMA TurnCancelsSound ==
    ASSUME IntakeInv, NEW h \in Handlers, TurnCancels(h)
    PROVE  IntakeInv'
  <1> DEFINE c == handler[h].on
             x == [handler[h] EXCEPT !.pc = "resume"]
             cv == [conv EXCEPT ![c] = [conv[c] EXCEPT !.state = "cancelled"]]
  <1>1. handler[h].pc = "turn" /\ SetState(h, c, "cancelled", x)
    BY DEF TurnCancels
  <1>2. c \in Convs /\ Known(conv[c])
    BY <1>1, OnFacts
  <1>3. "resume" \in Pcs /\ "resume" \in Plain
    BY PlainPcs
  <1>4. /\ x \in HandlerRow /\ x.pc = "resume" /\ x.on = c
        /\ x.open = handler[h].open /\ x.seen = handler[h].seen
    BY <1>3, IntakeHandler, StepsTo
  <1>5. loop => conv[c].state # "case_created"
    BY <1>1, IntakeHandler DEF InStep, ActiveStates
  <1> HIDE DEF x
  <1>6. HandlerSound(x, conv, filed)
    BY <1>1, <1>2, <1>3, <1>4, IntakeHandler, StaysSound
  <1>7. InStep(x, cv)
    <2> HIDE DEF cv
    <2> QED BY <1>4 DEF InStep
  <1> QED BY <1>1, <1>2, <1>4, <1>5, <1>6, <1>7, SetsState

LEMMA ActionSound ==
    ASSUME IntakeInv, NEW h \in Handlers, handle_action(h)
    PROVE  IntakeInv' /\ NoneClosed
  <1> DEFINE c == handler[h].on
             p == IF handler[h].pc = "edit" THEN "editset" ELSE "file"
             x == [handler[h] EXCEPT !.pc = p, !.seen = conv]
  <1>1. handler[h].pc \in {"confirm", "edit"}
    BY DEF handle_action
  <1>2. CASE Confirmable(conv[c])
    <2>1. Go(h, x)
      BY <1>2 DEF handle_action
    <2>2. c \in Convs /\ Known(conv[c])
      BY <1>1, OnFacts
    <2>3. conv \in [Convs -> Row] /\ conv[c].state = "confirming" /\ Complete(conv[c])
      BY <1>2, <2>2 DEF Confirmable, IntakeInv, RowsSound
    <2>4. p \in {"editset", "file"} /\ p \in Pcs
      BY DEF Pcs
    <2> HIDE DEF p
    <2>5. /\ x \in HandlerRow /\ x.pc = p /\ x.on = c
          /\ x.open = handler[h].open /\ x.seen = conv
      BY <2>3, <2>4, IntakeHandler DEF HandlerRow
    <2> HIDE DEF x
    <2>6. HandlerSound(x, conv, filed)
      BY <2>2, <2>3, <2>4, <2>5, IntakeHandler DEF HandlerSound
    <2>7. InStep(x, conv)
      BY <2>3, <2>4, <2>5 DEF InStep
    <2> QED BY <1>1, <2>1, <2>5, <2>6, <2>7, GoesOn
  <1>3. CASE ~Confirmable(conv[c])
    <2>1. Go(h, Rest)
      BY <1>3 DEF handle_action
    <2> QED BY <1>1, <2>1, GoesToRest
  <1> QED BY <1>2, <1>3

LEMMA EditResume ==
    ASSUME IntakeInv, NEW h \in Handlers, EditDraft(h) \/ ResumeParked(h)
    PROVE  IntakeInv' /\ NoneClosed
  <1>1. /\ handler[h].pc \in {"editset", "resumeset"}
        /\ SetState(h, handler[h].on, "collecting", Rest)
    BY DEF EditDraft, ResumeParked
  <1>2. handler[h].on \in Convs /\ Known(conv[handler[h].on])
    BY <1>1, OnFacts
  <1>3. loop => conv[handler[h].on].state # "case_created"
    BY <1>1, IntakeHandler DEF InStep
  <1> QED BY <1>1, <1>2, <1>3, SetsAndRests

\* create_case files the request as the handler saw it when it was confirmed,
\* and under one loop no case of this conversation is on file yet.
LEMMA FileCaseSound ==
    ASSUME IntakeInv, NEW h \in Handlers, FileCase(h)
    PROVE  IntakeInv' /\ NoneClosed
  <1>1. handler[h].pc = "file"
    BY DEF FileCase
  <1>2. CASE Go(h, Rest)
    BY <1>1, <1>2, GoesToRest
  <1>3. CASE ~Go(h, Rest)
    <2> DEFINE y == handler[h]
               c == y.on
               n == Len(filed) + 1
               f == [conv |-> c, item |-> Draft(h).item, full |-> Draft(h).full]
               x == handler'[h]
    <2>1. /\ Len(filed) < MaxFiled /\ filed' = Append(filed, f)
          /\ handler' = [handler EXCEPT ![h].pc = "mark", ![h].case = n]
          /\ UNCHANGED <<conv, recent, loop, restarts>>
      BY <1>3 DEF FileCase
    <2>2. handler \in [Handlers -> HandlerRow] /\ y \in HandlerRow /\ HandlerSound(y, conv, filed)
      BY IntakeHandler DEF IntakeInv, HandlersSound
    <2>3. filed \in Seq(Filing) /\ Len(filed) \in Nat /\ MaxFiled \in Nat
      BY IntakeBounds DEF IntakeInv, FilingsSound
    <2>4. c \in Convs /\ Known(conv[c]) /\ Draft(h) \in Row
      BY <1>1, OnFacts
    <2>5. Complete(Draft(h))
      BY <1>1, <2>2 DEF HandlerSound, Draft, View
    <2>6. f \in Filing /\ f.conv = c /\ Complete(f)
      BY <2>4, <2>5 DEF Filing, Row, Complete
    <2> HIDE DEF f
    <2>7. /\ filed' \in Seq(Filing) /\ Len(filed') = n /\ filed'[n] = f /\ n <= MaxFiled
          /\ \A i \in 1..Len(filed) : filed'[i] = filed[i]
      BY <2>1, <2>3, <2>6
    <2>a. n \in 0..MaxFiled /\ n \in 1..Len(filed') /\ n \notin 1..Len(filed)
      BY <2>3, <2>7
    <2>b. \A i \in 1..Len(filed') : i \in 1..Len(filed) \/ i = n
      BY <2>3, <2>7
    <2>c. 1..Len(filed) \subseteq 1..Len(filed')
      BY <2>3, <2>7
    <2> HIDE DEF n
    <2>8. "mark" \in Pcs
      BY DEF Pcs
    <2>9. /\ x \in HandlerRow /\ x.pc = "mark" /\ x.on = c /\ x.case = n
          /\ x.open = y.open /\ x.seen = y.seen
      BY <2>1, <2>2, <2>8, <2>a DEF HandlerRow
    <2>10. /\ \A g \in Handlers \ {h} : handler'[g] = handler[g]
           /\ handler' \in [Handlers -> HandlerRow]
      <3>1. \A g \in Handlers \ {h} : handler'[g] = handler[g]
        BY <2>1, <2>2
      <3>2. DOMAIN handler' = Handlers /\ handler' = [g \in Handlers |-> handler'[g]]
        BY <2>1, <2>2
      <3> QED BY <2>2, <2>9, <3>1, <3>2
    <2> HIDE DEF x, y
    <2>11. RowsSound(conv, recent)' /\ Listing(recent)' /\ restarts' \in Nat
      BY <2>1 DEF IntakeInv
    <2>12. FilingsSound'
      <3>1. DOMAIN filed = 1..Len(filed) /\ DOMAIN filed' = 1..Len(filed')
        BY <2>3, <2>7
      <3>2. FiledWasComplete'
        BY <2>6, <2>7, <2>b, <3>1 DEF IntakeInv, FilingsSound, FiledWasComplete
      <3>3. CaseIsItsOwn'
        BY <2>1, <2>7, <2>c, <3>1 DEF IntakeInv, FilingsSound, CaseIsItsOwn
      <3> QED BY <2>7, <3>2, <3>3 DEF FilingsSound
    <2>13. HandlersSound'
      <3>1. ASSUME NEW g \in Handlers, g # h PROVE HandlerSound(handler'[g], conv', filed')
        <4>1. HandlerSound(handler[g], conv, filed)
          BY IntakeHandler
        <4> QED BY <2>1, <2>7, <2>10, <2>c, <3>1, <4>1 DEF HandlerSound
      <3>2. HandlerSound(handler'[h], conv', filed')
        <4>1. x.seen \in [Convs -> Row] /\ \A d \in x.open : Known(conv[d])
          BY <1>1, <2>2, <2>9 DEF HandlerSound, y
        <4> QED BY <2>1, <2>4, <2>6, <2>7, <2>9, <2>a, <4>1 DEF HandlerSound, x
      <3> QED BY <2>10, <3>1, <3>2 DEF HandlersSound
    <2>14. loop => conv[c].state = "confirming"
      BY <1>1, IntakeHandler DEF InStep, y
    <2>15. OneAtATime'
      <3>1. loop => InStep(x, conv)
        BY <2>9, <2>14 DEF InStep
      <3> QED BY <1>1, <2>1, <2>10, <3>1, OnlyBusy, IdleInStep DEF OneAtATime, x
    <2>16. FiledIsLinked'
      <3> SUFFICES ASSUME loop, restarts = 0, NEW i \in 1..Len(filed')
                   PROVE  \/ conv[filed'[i].conv].state = "case_created"
                          \/ \E g \in Handlers : Marking(g, i)'
        BY <2>1 DEF FiledIsLinked
      <3>1. CASE i = n
        BY <2>6, <2>7, <2>9, <3>1 DEF Marking, x
      <3>2. CASE i \in 1..Len(filed)
        <4>1. ~\E g \in Handlers : Marking(g, i)
          BY <1>1, OnlyBusy DEF Marking
        <4> QED BY <2>7, <3>2, <4>1 DEF IntakeInv, FiledIsLinked
      <3> QED BY <2>b, <3>1, <3>2
    <2>17. OneCasePerRequest'
      <3> SUFFICES ASSUME loop, restarts = 0, NEW i \in 1..Len(filed'), NEW j \in 1..Len(filed'),
                          filed'[i].conv = filed'[j].conv
                   PROVE  i = j
        BY <2>1, <2>7 DEF OneCasePerRequest
      <3>1. ASSUME NEW k \in 1..Len(filed) PROVE filed'[k].conv # c
        <4>1. ~\E g \in Handlers : Marking(g, k)
          BY <1>1, OnlyBusy DEF Marking
        <4>2. conv[filed[k].conv].state = "case_created"
          BY <4>1 DEF IntakeInv, FiledIsLinked
        <4> QED BY <2>7, <2>14, <4>2
      <3>2. CASE i \in 1..Len(filed) /\ j \in 1..Len(filed)
        <4>1. DOMAIN filed = 1..Len(filed)
          BY <2>3
        <4> QED BY <2>7, <3>2, <4>1 DEF IntakeInv, OneCasePerRequest
      <3> QED BY <2>6, <2>7, <2>b, <3>1, <3>2
    <2>18. NoneClosed
      BY <2>1 DEF NoneClosed
    <2> QED BY <2>11, <2>12, <2>13, <2>15, <2>16, <2>17, <2>18 DEF IntakeInv
  <1> QED BY <1>2, <1>3

LEMMA MarkCreatedSound ==
    ASSUME IntakeInv, NEW h \in Handlers, MarkCreated(h)
    PROVE  IntakeInv' /\ NoneClosed
  <1> DEFINE y == handler[h]
             c == y.on
             row == [conv[c] EXCEPT !.state = "case_created", !.case = y.case]
             cv == [conv EXCEPT ![c] = row]
             x == [y EXCEPT !.pc = "resume"]
  <1>1. y.pc = "mark" /\ update(h, c, row, x)
    BY DEF MarkCreated
  <1>2. c \in Convs /\ Known(conv[c]) /\ conv[c] \in Row /\ c \in 1..(Len(recent) + 1)
    BY <1>1, OnFacts, KnownListed
  <1>3. y \in HandlerRow /\ HandlerSound(y, conv, filed)
    BY IntakeHandler
  <1>4. y.case \in 0..MaxFiled /\ "case_created" \in ConvStates
    BY <1>3 DEF HandlerRow, ConvStates, OpenStates
  <1>5. row \in Row /\ row.state = "case_created" /\ row.case = y.case
    BY <1>2, <1>4 DEF Row
  <1>6. y.case \in 1..Len(filed) /\ filed[y.case].conv = c
    BY <1>1, <1>3 DEF HandlerSound
  <1>7. "resume" \in Pcs /\ "resume" \in Plain
    BY PlainPcs
  <1>8. x \in HandlerRow /\ x.pc = "resume" /\ x.on = c /\ x.open = y.open /\ x.seen = y.seen
    BY <1>3, <1>7, StepsTo
  <1> HIDE DEF x, row, y
  <1>9. Known(row)
    BY <1>5 DEF Known
  <1>10. conv \in [Convs -> Row]
    BY DEF IntakeInv, RowsSound
  <1>11. cv[c] = row /\ \A d \in Convs : Known(conv[d]) => Known(cv[d])
    BY <1>2, <1>9, <1>10
  <1>12. HandlerSound(x, cv, filed)
    <2>1. y.open \subseteq Convs
      BY <1>3 DEF HandlerRow
    <2> HIDE DEF cv
    <2> QED BY <1>1, <1>2, <1>3, <1>8, <1>11, <2>1 DEF HandlerSound
  <1>13. InStep(x, cv)
    <2> HIDE DEF cv
    <2> QED BY <1>8 DEF InStep
  <1>14. handler[h].pc # "idle" /\ handler[h].on = c
    BY <1>1 DEF y
  <1>15. IntakeInv' /\ (row.state # "cancelled" => NoneClosed)
    BY <1>1, <1>2, <1>5, <1>6, <1>8, <1>9, <1>12, <1>13, <1>14, Updates
  <1> QED BY <1>5, <1>15

\* What a step may do where messages are handled one at a time.
ContentKept ==
    loop => \A c \in Convs : HasContent(conv[c]) /\ conv'[c].state = "cancelled"
                                => conv[c].state = "cancelled"

LEMMA FocusParksSound ==
    ASSUME IntakeInv, NEW h \in Handlers, FocusParks(h)
    PROVE  IntakeInv' /\ ContentKept
  <1> DEFINE y == handler[h]
             x == [y EXCEPT !.pc = "focusset"]
  <1>1. y.pc = "focus" /\ y \in HandlerRow /\ HandlerSound(y, conv, filed) /\ (loop => InStep(y, conv))
    BY IntakeHandler DEF FocusParks
  <1>2. "focusset" \in Pcs /\ "focusset" \in Plain
    BY PlainPcs
  <1>3. x \in HandlerRow /\ x.pc = "focusset" /\ x.on = y.on /\ x.open = y.open /\ x.seen = y.seen
    BY <1>1, <1>2, StepsTo
  <1>4. y.on \in Convs /\ Known(conv[y.on])
    BY <1>1, OnFacts
  <1>5. \/ Go(h, x)
        \/ \E c \in Others(h) : View(h, c).state \in ActiveStates /\ SetState(h, c, PutAway(View(h, c)), x)
    BY DEF FocusParks
  <1>6. conv \in [Convs -> Row]
    BY DEF IntakeInv, RowsSound
  <1>7. CASE Go(h, x)
    BY <1>1, <1>2, <1>7, StepsSound DEF ContentKept, NoneClosed
  <1>8. ASSUME NEW c \in Others(h), View(h, c).state \in ActiveStates,
               SetState(h, c, PutAway(View(h, c)), x)
        PROVE  IntakeInv' /\ ContentKept
    <2> DEFINE state == PutAway(View(h, c))
               row == [conv[c] EXCEPT !.state = state]
               cv == [conv EXCEPT ![c] = row]
    <2>1. c \in Convs /\ Known(conv[c]) /\ c # y.on
      BY OthersFacts
    <2>2. loop => y.seen = conv /\ View(h, c) = conv[c]
      BY <1>1 DEF InStep, View
    <2>3. loop => conv[c].state # "case_created"
      BY <1>8, <2>2 DEF ActiveStates
    <2>4. state \in {"collecting", "parked", "cancelled"}
      BY DEF PutAway
    <2> HIDE DEF x, y
    <2>5. HandlerSound(x, conv, filed)
      BY <1>1, <1>2, <1>3, <1>4, StaysSound
    <2>6. loop => InStep(x, cv)
      <3> HIDE DEF row
      <3>1. cv[y.on] = conv[y.on]
        BY <1>4, <1>6, <2>1
      <3> HIDE DEF cv
      <3> QED BY <1>3, <2>2, <3>1 DEF InStep
    <2>7. handler[h].pc \notin {"idle", "mark"}
      BY <1>1 DEF y
    <2>8. IntakeInv' /\ (state # "cancelled" => NoneClosed)
      <3> HIDE DEF state
      <3> QED BY <1>3, <1>8, <2>1, <2>3, <2>4, <2>5, <2>6, <2>7, SetsState DEF state
    <2>9. loop /\ state = "cancelled" => ~HasContent(conv[c])
      BY <2>2 DEF PutAway
    <2>10. \A d \in Convs \ {c} : conv'[d] = conv[d]
      BY <1>6, <1>8 DEF SetState, update
    <2> QED BY <2>8, <2>9, <2>10 DEF ContentKept, NoneClosed
  <1> HIDE DEF x
  <1> QED BY <1>5, <1>7, <1>8

LEMMA FocusSetsSound ==
    ASSUME IntakeInv, NEW h \in Handlers, FocusSets(h)
    PROVE  IntakeInv' /\ NoneClosed
  <1> DEFINE c == handler[h].on
  <1>1. handler[h].pc = "focusset"
    BY DEF FocusSets
  <1>2. c \in Convs /\ Known(conv[c]) /\ conv[c] \in Row /\ c \in 1..(Len(recent) + 1)
    BY <1>1, OnFacts, KnownListed
  <1>3. CASE Draft(h).state = "parked"
    <2>1. SetState(h, c, "collecting", Rest)
      BY <1>3 DEF FocusSets
    <2>2. loop => conv[c].state # "case_created"
      BY <1>1, <1>3, IntakeHandler DEF InStep, Draft, View
    <2> QED BY <1>1, <1>2, <2>1, <2>2, SetsAndRests
  <1>4. CASE Draft(h).state # "parked"
    <2>1. touch(h, c)
      BY <1>4 DEF FocusSets
    <2>2. conv = [conv EXCEPT ![c] = conv[c]]
      BY <1>2 DEF IntakeInv, RowsSound
    <2>3. /\ conv[c].state = "confirming" => Complete(conv[c])
          /\ conv[c].state = "case_created" =>
                conv[c].case \in 1..Len(filed) /\ filed[conv[c].case].conv = c
      <3>1. DOMAIN filed = 1..Len(filed)
        BY DEF IntakeInv, FilingsSound
      <3> QED BY <1>2, <3>1 DEF IntakeInv, RowsSound, FilingsSound, CaseIsItsOwn
    <2>4. /\ recent' = ToFront(c) /\ handler' = [handler EXCEPT ![h] = Rest]
          /\ conv' = conv /\ UNCHANGED <<filed, loop, restarts>>
      BY <2>1 DEF touch
    <2>5. HandlerSound(Rest, conv, filed) /\ InStep(Rest, conv) /\ Rest \in HandlerRow
      BY IntakeRestFacts
    <2>6. IntakeInv'
      BY <1>1, <1>2, <2>2, <2>3, <2>4, <2>5, Writes
    <2> QED BY <2>4, <2>6 DEF NoneClosed
  <1> QED BY <1>3, <1>4

LEMMA RestartSound == ASSUME IntakeInv, Restart PROVE IntakeInv' /\ NoneClosed
  <1>1. /\ restarts' = restarts + 1 /\ restarts \in Nat /\ restarts' \in Nat /\ restarts' # 0
        /\ handler' = [h \in Handlers |-> Rest]
        /\ conv' = conv /\ recent' = recent /\ filed' = filed /\ loop' = loop
    BY DEF Restart, IntakeInv
  <1>2. HandlersSound'
    BY <1>1, IntakeRestFacts DEF HandlersSound
  <1>3. OneAtATime'
    BY <1>1, IntakeRestFacts DEF OneAtATime
  <1>4. FiledIsLinked' /\ OneCasePerRequest'
    BY <1>1 DEF FiledIsLinked, OneCasePerRequest
  <1>5. RowsSound(conv, recent)' /\ Listing(recent)'
    BY <1>1 DEF IntakeInv
  <1>6. FilingsSound'
    BY <1>1 DEF IntakeInv, FilingsSound, FiledWasComplete, CaseIsItsOwn
  <1>7. NoneClosed
    BY <1>1 DEF NoneClosed
  <1> QED BY <1>1, <1>2, <1>3, <1>4, <1>5, <1>6, <1>7 DEF IntakeInv

\* Every step keeps the invariant, and every step but a cancelling turn keeps
\* the drafts.
LEMMA IntakeStepSound ==
    ASSUME IntakeInv, [IntakeNext]_intakeVars
    PROVE  IntakeInv' /\ (ContentKept \/ \E h \in Handlers : TurnCancels(h))
  <1>1. ASSUME NoneClosed PROVE ContentKept
    BY <1>1 DEF NoneClosed, ContentKept
  <1>2. CASE Restart
    BY <1>1, <1>2, RestartSound
  <1>3. ASSUME NEW h \in Handlers, IntakeStep(h)
        PROVE  IntakeInv' /\ (ContentKept \/ TurnCancels(h))
    <2>1. CASE Receive(h) \/ FindActive(h) \/ StartDraft(h) \/ LifecycleTurn(h)
      BY <1>1, <2>1, ReceiveSound, FindActiveSound, StartDraftSound, LifecycleSound
    <2>2. CASE TurnAsks(h) \/ TurnLists(h) \/ TurnEnds(h) \/ TurnAnswersCard(h) \/ TurnSwitches(h)
      BY <1>1, <2>2, PlainTurns
    <2>3. CASE TurnPivots(h) \/ PivotOpens(h) \/ PivotMerges(h) \/ TurnFills(h)
      BY <1>1, <2>3, TurnPivotsSound, PivotOpensSound, FillTurns
    <2>4. CASE TurnCancels(h)
      BY <2>4, TurnCancelsSound
    <2>5. CASE \E c \in Convs : Press(h, c) \/ Pick(h, c)
      BY <1>1, <2>5, ButtonsSound
    <2>6. CASE handle_action(h) \/ EditDraft(h) \/ ResumeParked(h)
      BY <1>1, <2>6, ActionSound, EditResume
    <2>7. CASE FileCase(h) \/ MarkCreated(h) \/ FindParked(h)
      BY <1>1, <2>7, FileCaseSound, MarkCreatedSound, FindParkedSound
    <2>8. CASE FocusParks(h) \/ FocusSets(h)
      BY <1>1, <2>8, FocusParksSound, FocusSetsSound
    <2> QED BY <1>3, <2>1, <2>2, <2>3, <2>4, <2>5, <2>6, <2>7, <2>8 DEF IntakeStep
  <1>4. CASE UNCHANGED intakeVars
    <2>1. /\ handler' = handler /\ conv' = conv /\ recent' = recent
          /\ filed' = filed /\ loop' = loop /\ restarts' = restarts
      BY <1>4 DEF intakeVars
    <2>2. FilingsSound' /\ OneCasePerRequest'
      BY <2>1 DEF IntakeInv, FilingsSound, FiledWasComplete, CaseIsItsOwn, OneCasePerRequest
    <2>3. HandlersSound' /\ OneAtATime' /\ FiledIsLinked'
      BY <2>1 DEF IntakeInv, HandlersSound, OneAtATime, FiledIsLinked, Marking
    <2>4. NoneClosed
      BY <2>1 DEF NoneClosed
    <2> QED BY <1>1, <2>1, <2>2, <2>3, <2>4 DEF IntakeInv
  <1> QED BY <1>2, <1>3, <1>4 DEF IntakeNext

\* The invariant of the intake: conversations are listed once each, a confirm
\* card shows a complete request, a handler's snapshot and its place in
\* handle_message, handle_action and _focus agree with the table where
\* messages come one at a time, and a filed case is linked or about to be.
THEOREM IntakeInvariant == IntakeSpec => []IntakeInv
  <1>1. IntakeInv /\ [IntakeNext]_intakeVars => IntakeInv'
    BY IntakeStepSound
  <1> QED BY <1>1, IntakeStart, PTL DEF IntakeSpec

\* However turns, clicks and restarts interleave, what handle_action files is a
\* complete request of its own conversation, and once where messages are
\* handled one at a time and no restart cut one short.
THEOREM FiledSound == IntakeSpec => []FiledAsAsked
  <1>1. ASSUME IntakeInv PROVE FiledAsAsked
    <2>1. FiledWasComplete /\ CaseIsItsOwn /\ OneCasePerRequest
      BY <1>1 DEF IntakeInv, FilingsSound
    <2>2. conv \in [Convs -> Row] /\ recent \in Seq(Convs) /\ DOMAIN recent = 1..Len(recent)
      BY <1>1 DEF IntakeInv, RowsSound, Listing
    <2>3. \A i, j \in DOMAIN recent : recent[i] = recent[j] => i = j
      BY <1>1, <2>2 DEF IntakeInv, Listing
    <2>4. InState(ConvStates) = {c \in Convs : Known(conv[c])}
      BY <2>2 DEF InState, Known, Row, ConvStates, OpenStates, ActiveStates
    <2>5. {recent[i] : i \in DOMAIN recent} = InState(ConvStates)
      <3>1. \A i \in 1..Len(recent) : recent[i] \in Convs /\ Known(conv[recent[i]])
        BY <1>1, <2>2 DEF IntakeInv, Listing, RowsSound
      <3>2. \A c \in Convs : Known(conv[c]) => \E i \in 1..Len(recent) : recent[i] = c
        BY <1>1 DEF IntakeInv, Listing, RowsSound
      <3> QED BY <2>2, <2>4, <3>1, <3>2
    <2>6. ASSUME NEW h \in Handlers
          PROVE  /\ handler[h].pc \in Pcs /\ handler[h].on \in 0..MaxConvs
                 /\ handler[h].turn \in Turns
                 /\ handler[h].pc \notin {"idle", "active", "create"} =>
                       handler[h].on \in Convs
      BY <1>1, IntakeHandler DEF HandlerRow, HandlerSound
    <2>7. filed \in Seq([conv : Convs, item : Items \union {None}, full : BOOLEAN])
      BY <1>1 DEF IntakeInv, FilingsSound, Filing
    <2> QED BY <2>1, <2>2, <2>3, <2>5, <2>6, <2>7 DEF FiledAsAsked, IntakeTypeOK
  <1> QED BY <1>1, IntakeInvariant, PTL

\* Where messages are handled one at a time, only the turn that cancels a
\* draft with content closes it: _focus, the pivot and _resume_parked park it.
THEOREM DraftsKept == IntakeSpec => DraftsAreKept
  <1> DEFINE A == loop => \A c \in Convs :
                conv[c].state # "cancelled" /\ HasContent(conv[c]) /\ conv'[c].state = "cancelled"
                    => \E h \in Handlers : TurnCancels(h)
  <1>1. ASSUME IntakeInv, [IntakeNext]_intakeVars PROVE [A]_intakeVars
    BY <1>1, IntakeStepSound DEF ContentKept
  <1>2. IntakeInv /\ [IntakeNext]_intakeVars => [A]_intakeVars
    BY <1>1
  <1>3. []IntakeInv /\ [][IntakeNext]_intakeVars => [][A]_intakeVars
    <2> HIDE DEF A
    <2> QED BY <1>2, PTL
  <1> QED BY <1>3, IntakeInvariant, PTL DEF IntakeSpec, DraftsAreKept
=============================================================================
