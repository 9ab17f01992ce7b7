------------------------------ MODULE CaseChat ------------------------------
(***************************************************************************)
(* Filed cases as chat reaches them: the numbered menu and the broker that *)
(* turns "extend it by ten days" into an act on one case (focus.py), the   *)
(* receipt told afterwards (receipt.py), the lifecycle and clarification   *)
(* turns of ConversationIntakeService, and decisions given in words        *)
(* (DecisionEngine).  The language model chooses the intent, the number it *)
(* points at and which questions a reply answers, so these are free        *)
(* choices; who may be meant and what is done is decided by code.          *)
(***************************************************************************)
EXTENDS Naturals, FiniteSets

CONSTANTS Chats,        \* messages being handled
          NumCases,     \* cases of the workspace, the newest first
          Questions,    \* points a purchase request can leave open
          MaxSaid       \* bound: messages

ASSUME CaseChatAssumption ==
    /\ NumCases \in Nat \ {0} /\ MaxSaid \in Nat
    /\ IsFiniteSet(Questions)

VARIABLES
    kase,      \* what chat reads of each case
    owned,     \* the case of a person's latest conversation with a case, or 0
    drafting,  \* the people whose chat holds a half-typed request
    chat,      \* the turn each handler works on
    told,      \* the last receipt: its claim, and whether the turn changed the case
    oneloop,   \* TRUE: one message at a time (Zalo); FALSE: tasks (Slack)
    said, refusedRuns

caseVars == <<kase, owned, drafting, chat, told, oneloop, said, refusedRuns>>

Cases == 1..NumCases
People == {"requester", "approver"}
CanDecide(p) == p = "approver"     \* the scope approvals.decide

CaseStates == {"draft", "intake_ready", "analyzing", "waiting_clarification",
               "cp_pending", "published", "cp3_pending", "receiving_bids",
               "intake_rejected", "rejected"}
AwaitingAHuman == {"draft", "cp_pending", "cp3_pending"}
Amendable == {"draft", "intake_ready", "analyzing", "waiting_clarification",
              "cp_pending", "rejected"}
CaseRow == [state : CaseStates, by : People, unknowns : SUBSET Questions,
            blocking : SUBSET Questions, answered : SUBSET Questions,
            latest : SUBSET Questions, signals : 0..3]

\* The case-scoped intents with their risk (actions.py).
Risk == [amend_request |-> "mutate", request_addendum |-> "mutate",
         record_submission |-> "mutate", open_bids |-> "approve"]
Intents == DOMAIN Risk

ChatRest == [pc |-> "idle", who |-> "requester", intent |-> "amend_request", ref |-> 0,
             named |-> 0, meant |-> 0, how |-> "own", at |-> 0, receipt |-> FALSE,
             before |-> <<>>, changed |-> FALSE, ids |-> {}, open |-> {}, count |-> 0]

\* Signals stand for artifact types and notifications; they are only compared.
Signal(n) == IF n < 3 THEN n + 1 ELSE n
Snapshot(c) == <<kase[c].state, kase[c].signals>>

\* The requester's conversations hold the newest case, or none.  The approver
\* never filed one in chat; the other cases came in over the web.
CaseChatInit ==
    /\ kase \in [Cases -> {[state |-> s, by |-> p, unknowns |-> Questions, blocking |-> {},
                            answered |-> {}, latest |-> {}, signals |-> 0] :
                           s \in {"draft", "analyzing", "published"}, p \in People}]
    /\ kase[1].by = "requester"
    /\ \A c \in Cases \ {1} : kase[c].state # "analyzing"
    /\ owned \in {[requester |-> c, approver |-> 0] : c \in {0, 1}}
    /\ drafting \in {{}, {"requester"}}
    /\ chat = [h \in Chats |-> ChatRest]
    /\ told = {}
    /\ oneloop \in BOOLEAN
    /\ said = 0
    /\ refusedRuns = 0

(***************************************************************************)
(* The menu: the cases a person may see, the focus first, then those that  *)
(* wait for a human, each group in listing order; 0 is the person's draft. *)
(***************************************************************************)
Visible(p, c) == CanDecide(p) \/ kase[c].by = p

MenuRank(c, focus) ==
    IF c = 0 THEN 3 ELSE IF c = focus THEN 0
    ELSE IF kase[c].state \in AwaitingAHuman THEN 1 ELSE 2

Before(c, d, focus) ==
    \/ MenuRank(c, focus) < MenuRank(d, focus)
    \/ MenuRank(c, focus) = MenuRank(d, focus) /\ c < d

\* The entries with their numbers.
build_menu(p, focus) ==
    LET listed == {c \in Cases : Visible(p, c)} \union (IF p \in drafting THEN {0} ELSE {})
    IN  {[case |-> c, number |-> 1 + Cardinality({d \in listed : Before(d, c, focus)})] :
            c \in listed}

Numbered(menu, ref) == {e.case : e \in {d \in menu : d.number = ref}}
NamedIn(menu, named) == {e.case : e \in {d \in menu : named # 0 /\ d.case = named}}
TheOnly(menu) == {e.case : e \in {d \in menu : menu = {d}}}
Found(cases, how) == {[case |-> c, how |-> how] : c \in cases}

\* The number the model gave, else the case the words name, else what may be
\* inferred: nothing for an approval, the only entry for the rest.  The focus
\* is inferred for reading and drafting only, which no case-scoped intent is.
resolve(menu, ref, named, risk) ==
    IF ref # 0 THEN Found(Numbered(menu, ref), "ref")
    ELSE IF NamedIn(menu, named) # {} THEN Found(NamedIn(menu, named), "name")
    ELSE IF risk # "approve" THEN Found(TheOnly(menu), "only") ELSE {}

(***************************************************************************)
(* A message comes in.                                                     *)
(***************************************************************************)
Hears(h) ==
    /\ chat[h].pc = "idle"
    /\ said < MaxSaid
    /\ oneloop => \A g \in Chats : chat[g].pc = "idle"

Listen(h, then) ==
    /\ Hears(h)
    /\ said' = said + 1
    /\ chat' = [chat EXCEPT ![h] = then]
    /\ told' = {}
    /\ UNCHANGED <<kase, owned, drafting, oneloop, refusedRuns>>

Then(h, then) ==
    /\ chat' = [chat EXCEPT ![h] = then]
    /\ UNCHANGED <<kase, owned, drafting, told, oneloop, said, refusedRuns>>

\* _run_turn for a conversation without a case: the model is shown the menu
\* without a focus and may give a number of it; the words may name a case.
SayAboutSome(h, p) ==
    /\ Hears(h)
    /\ p \in drafting \/ owned[p] = 0
    /\ LET shown == build_menu(p, 0)
       IN  \E intent \in Intents :
              \/ \E ref \in 1..(Cardinality(shown) + 1) :
                    \E meant \in IF Numbered(shown, ref) = {} THEN {0} ELSE Numbered(shown, ref) :
                       Listen(h, [ChatRest EXCEPT !.pc = "broker", !.who = p,
                                     !.intent = intent, !.ref = ref, !.meant = meant])
              \/ \E named \in 0..NumCases :
                    Listen(h, [ChatRest EXCEPT !.pc = "broker", !.who = p, !.intent = intent,
                                  !.named = named])

\* _try_lifecycle_turn: the case of the conversation, without a receipt.
SayAboutOwn(h, p) ==
    /\ p \notin drafting
    /\ owned[p] # 0
    /\ kase[owned[p]].state # "waiting_clarification"
    /\ \E intent \in Intents :
          Listen(h, [ChatRest EXCEPT !.pc = "act", !.who = p, !.intent = intent,
                                     !.at = owned[p]])

\* What chat still asks: blocking points no answer has ever named.
PendingQuestions(c) == kase[c].blocking \ kase[c].answered

\* _clarify_flow: with nothing pending it only says that it goes on.  The
\* model may answer a question twice; answers are counted, not questions.
SayAnswers(h, p) ==
    /\ p \notin drafting
    /\ owned[p] # 0
    /\ kase[owned[p]].state = "waiting_clarification"
    /\ LET c == owned[p]
       IN  \E ids \in SUBSET PendingQuestions(c), extra \in 0..1 :
              /\ ids # {}
              /\ Listen(h, [ChatRest EXCEPT !.pc = "answer", !.who = p, !.at = c, !.ids = ids,
                                            !.open = PendingQuestions(c),
                                            !.count = Cardinality(ids) + extra])

\* The second menu of the turn has the conversation's first case in front.
_brokered_turn(h) ==
    /\ chat[h].pc = "broker"
    /\ LET p == chat[h].who
           menu == build_menu(p, owned[p])
           found == resolve(menu, chat[h].ref, chat[h].named, Risk[chat[h].intent])
       IN  \/ \E f \in found :
                 /\ f.case # 0
                 /\ Then(h, [ChatRest EXCEPT !.pc = "act", !.who = p,
                               !.intent = chat[h].intent, !.at = f.case, !.how = f.how,
                               !.meant = chat[h].meant, !.receipt = TRUE,
                               !.before = Snapshot(f.case)])
           \/ /\ \A f \in found : f.case = 0   \* _ask_which, or nothing to act on
              /\ Then(h, ChatRest)

(***************************************************************************)
(* _lifecycle_action.                                                      *)
(***************************************************************************)
\* What the handler of each intent makes of a case; no row where it refuses.
\* An amendment leaves a demand snapshot that lists nothing open.  A requester
\* proposes an addendum, whoever may decide drafts and files it.
AmendEffect(row) ==
    IF row.state \in Amendable
      THEN {[row EXCEPT !.state = "intake_ready", !.unknowns = {}, !.signals = Signal(@)]}
      ELSE {}

AddendumEffect(row, p) ==
    IF row.state = "published"
      THEN {[row EXCEPT !.state = IF CanDecide(p) THEN "cp3_pending" ELSE @,
                        !.signals = Signal(@)]} ELSE {}

SubmissionEffect(row) ==
    IF row.state \in {"published", "receiving_bids"}
      THEN {[row EXCEPT !.state = "receiving_bids", !.signals = Signal(@)]} ELSE {}

OpeningEffect(row) ==
    IF row.state = "receiving_bids" THEN {[row EXCEPT !.signals = Signal(@)]} ELSE {}

Effect(row, intent, p) ==
    CASE intent = "amend_request" -> AmendEffect(row)
      [] intent = "request_addendum" -> AddendumEffect(row, p)
      [] intent = "record_submission" -> SubmissionEffect(row)
      [] intent = "open_bids" -> OpeningEffect(row)

\* An amendment goes on to restart the run; a refused one ends the turn with
\* the refusal, the others are answered in the handler's own words.
Act(h) ==
    /\ chat[h].pc = "act"
    /\ LET c == chat[h].at
           rows == Effect(kase[c], chat[h].intent, chat[h].who)
           amends == chat[h].intent = "amend_request"
       IN  IF rows = {}
             THEN /\ chat' = [chat EXCEPT ![h] = IF chat[h].receipt /\ ~amends
                                                   THEN [chat[h] EXCEPT !.pc = "after"]
                                                   ELSE ChatRest]
                  /\ told' = IF chat[h].receipt /\ amends
                                THEN {[claim |-> "refused", changed |-> FALSE]} ELSE told
                  /\ UNCHANGED kase
             ELSE /\ kase' = [kase EXCEPT ![c] = CHOOSE row \in rows : TRUE]
                  /\ chat' = [chat EXCEPT ![h] =
                        IF amends THEN [chat[h] EXCEPT !.pc = "rerun", !.changed = TRUE]
                        ELSE IF chat[h].receipt
                               THEN [chat[h] EXCEPT !.pc = "after", !.changed = TRUE]
                               ELSE ChatRest]
                  /\ UNCHANGED told
    /\ UNCHANGED <<owned, drafting, oneloop, said, refusedRuns>>

\* A handler that lacks a supplier name only asks for it.
ActAsks(h) ==
    /\ chat[h].pc = "act"
    /\ chat[h].intent = "record_submission"
    /\ Then(h, IF chat[h].receipt THEN [chat[h] EXCEPT !.pc = "after"] ELSE ChatRest)

\* run_case: the rework guard or the state may refuse, after what was done.
RunCase(h) ==
    /\ chat[h].pc = "rerun"
    /\ LET c == chat[h].at
           done == IF chat[h].receipt THEN [chat[h] EXCEPT !.pc = "after"] ELSE ChatRest
       IN  \/ /\ kase[c].state \in {"intake_ready", "waiting_clarification"}
              /\ kase' = [kase EXCEPT ![c].state = "analyzing", ![c].signals = Signal(@)]
              /\ chat' = [chat EXCEPT ![h] = done]
              /\ UNCHANGED <<told, refusedRuns>>
           \/ /\ refusedRuns' = 1
              /\ told' = IF chat[h].receipt
                            THEN {[claim |-> "refused", changed |-> chat[h].changed]} ELSE told
              /\ chat' = [chat EXCEPT ![h] = ChatRest]
              /\ UNCHANGED kase
    /\ UNCHANGED <<owned, drafting, oneloop, said>>

\* The second snapshot: a difference, whoever made it, is told as done; without
\* one the words of the handler stand (observed, reply_for).
TellReceipt(h) ==
    /\ chat[h].pc = "after"
    /\ told' = {[claim |-> IF Snapshot(chat[h].at) # chat[h].before
                                         THEN "done" ELSE "words",
                              changed |-> chat[h].changed]}
    /\ chat' = [chat EXCEPT ![h] = ChatRest]
    /\ UNCHANGED <<kase, owned, drafting, oneloop, said, refusedRuns>>

\* As many answers as there were questions restart the run.
AfterAnswer(turn) ==
    IF Cardinality(turn.open) <= turn.count THEN [turn EXCEPT !.pc = "rerun"] ELSE ChatRest

\* The run is started when the case was complete before this reply.
AnswerEndsEarly(h) ==
    /\ chat[h].pc = "answer"
    /\ LET c == chat[h].at
           row == [kase[c] EXCEPT !.answered = @ \union chat[h].ids, !.latest = chat[h].ids]
       IN  /\ kase' = [kase EXCEPT ![c] = [row EXCEPT !.state = "intake_ready"]]
           /\ chat' = [chat EXCEPT ![h] = AfterAnswer(chat[h])]
           /\ UNCHANGED <<owned, drafting, told, oneloop, said, refusedRuns>>

\* AnswerPreparationClarificationsHandler: each reply is an artifact of its
\* own; the case leaves the state when every blocking point is covered.
Answer(h) ==
    /\ chat[h].pc = "answer"
    /\ LET c == chat[h].at
           row == [kase[c] EXCEPT !.answered = @ \union chat[h].ids, !.latest = chat[h].ids]
           complete == row.blocking \subseteq row.answered
       IN  IF kase[c].state # "waiting_clarification"
             THEN Then(h, ChatRest)
             ELSE /\ kase' = [kase EXCEPT ![c] =
                        [row EXCEPT !.state = IF complete THEN "intake_ready" ELSE row.state]]
                  /\ chat' = [chat EXCEPT ![h] = AfterAnswer(chat[h])]
                  /\ UNCHANGED <<owned, drafting, told, oneloop, said, refusedRuns>>

(***************************************************************************)
(* DecisionEngine: what waits for this person, a decision in words, and    *)
(* its execution on the one row it left.                                   *)
(***************************************************************************)
DecisionsFor(p) ==
    {c \in Cases : \/ kase[c].state = "draft" /\ kase[c].by # p
                   \/ kase[c].state = "cp3_pending"
                   \/ kase[c].state = "cp_pending" /\ CanDecide(p)}

\* The stage narrows the rows, then the title; several rows are asked about.
OfStage(rows, stage) ==
    CASE stage = "intake" -> {c \in rows : kase[c].state = "draft"}
      [] stage = "checkpoint" -> {c \in rows : kase[c].state # "draft"}
      [] OTHER -> rows

try_text(h, p) ==
    /\ \E stage \in {"intake", "checkpoint", "any"}, named \in 0..NumCases :
          LET rows == OfStage(DecisionsFor(p), stage)
              left == IF Cardinality(rows) > 1 /\ named \in rows THEN {named} ELSE rows
          IN  /\ Cardinality(left) = 1
              /\ \E c \in left :
                    Listen(h, [ChatRest EXCEPT !.pc = "decide", !.who = p, !.at = c,
                                               !.intent = kase[c].state])

\* The button of a decision card, however old the card is.
_handle_decision_action(h, p) ==
    \E c \in Cases, stage \in AwaitingAHuman :
        Listen(h, [ChatRest EXCEPT !.pc = "decide", !.who = p, !.at = c, !.intent = stage])

\* execute: the handlers look at the case again; a decision on a draft is
\* refused to the person who filed it.  An approval of the last checkpoint
\* publishes, as PreparationCase and Tendering model in detail.
Decided(row) ==
    CASE row.state = "draft" -> {"analyzing", "intake_rejected"}
      [] row.state = "cp_pending" -> {"published", "analyzing", "rejected"}
      [] row.state = "cp3_pending" -> {"published"}
      [] OTHER -> {}

\* Trusts the listing, which leaves out the drafts of the person.
executeAsListed(h) ==
    /\ chat[h].pc = "decide"
    /\ LET c == chat[h].at
           decides == kase[c].state = chat[h].intent /\ CanDecide(chat[h].who)
       IN  \/ /\ decides
              /\ \E s \in Decided(kase[c]) :
                    kase' = [kase EXCEPT ![c].state = s, ![c].signals = Signal(@)]
              /\ chat' = [chat EXCEPT ![h] = ChatRest]
              /\ UNCHANGED <<owned, drafting, told, oneloop, said, refusedRuns>>
           \/ ~decides /\ Then(h, ChatRest)

execute(h) ==
    /\ chat[h].pc = "decide"
    /\ LET c == chat[h].at
           p == chat[h].who
       IN  \/ /\ kase[c].state = chat[h].intent
              /\ kase[c].state = "draft" => kase[c].by # p
              /\ CanDecide(p)
              /\ \E s \in Decided(kase[c]) :
                    kase' = [kase EXCEPT ![c].state = s, ![c].signals = Signal(@)]
              /\ chat' = [chat EXCEPT ![h] = ChatRest]
              /\ UNCHANGED <<owned, drafting, told, oneloop, said, refusedRuns>>
           \/ /\ ~ (/\ kase[c].state = chat[h].intent
                    /\ kase[c].state = "draft" => kase[c].by # p
                    /\ CanDecide(p))
              /\ Then(h, ChatRest)

(***************************************************************************)
(* The workflow run, reduced to what chat sees: load_case reads the latest *)
(* reply only, completeness_check numbers the points and asks for those it *)
(* does not cover, and the gate passes when none is left.                  *)
(***************************************************************************)
RunAsks(c) ==
    /\ kase[c].state = "analyzing"
    /\ LET open == kase[c].unknowns \ kase[c].latest
       IN  kase' = [kase EXCEPT ![c].blocking = open,
                                ![c].state = IF open = {} THEN "cp_pending"
                                             ELSE "waiting_clarification"]
    /\ UNCHANGED <<owned, drafting, chat, told, oneloop, said, refusedRuns>>

ChatStep(h) ==
    \/ \E p \in People : SayAboutSome(h, p) \/ SayAboutOwn(h, p) \/ SayAnswers(h, p)
                         \/ try_text(h, p) \/ _handle_decision_action(h, p)
    \/ _brokered_turn(h) \/ Act(h) \/ ActAsks(h) \/ RunCase(h) \/ TellReceipt(h)
    \/ Answer(h) \/ execute(h)

CaseChatNext == (\E h \in Chats : ChatStep(h)) \/ (\E c \in Cases : RunAsks(c))

CaseChatSpec == CaseChatInit /\ [][CaseChatNext]_caseVars

-----------------------------------------------------------------------------
\* The variables have their types, and what is acted on is a case: never the
\* draft that the menu lists beside the cases.
CaseChatTypeOK ==
    /\ kase \in [Cases -> CaseRow]
    /\ \A h \in Chats : chat[h].pc \in {"idle", "broker", "act", "answer", "rerun", "after",
                                        "decide"}
    /\ \A h \in Chats : chat[h].pc \notin {"idle", "broker"} => chat[h].at \in Cases

\* Turns about to act on a case that the broker found.
Brokered == {h \in Chats : chat[h].pc = "act" /\ chat[h].how # "own"}

\* Where messages are handled one at a time and no run was refused, an
\* answered or amended case does not wait with nobody to run it (_clarify_flow
\* after AnswerPreparationClarificationsHandler).
NothingStranded ==
    oneloop /\ refusedRuns = 0 =>
        \A c \in Cases : kase[c].state = "intake_ready" =>
            \E h \in Chats : chat[h].pc = "rerun" /\ chat[h].at = c

\* A refusal told in a receipt is true: unless the restart of the run was what
\* refused, the turn changed nothing (_act_with_receipt around the handlers).
RefusalsAreTrue ==
    refusedRuns = 0 => \A t \in told : t.claim = "refused" => ~t.changed

\* The number a model points at means the case it was shown under that number
\* ("Code builds it and code maps the number back", service.py).
ActsOnWhatWasPointedAt == \A h \in Brokered : chat[h].how = "ref" => chat[h].meant = chat[h].at

\* A case that waits for clarification waits for something chat can still
\* answer; chat is the only way to answer (_try_lifecycle_turn).
AnswerableInChat ==
    \A c \in Cases : kase[c].state = "waiting_clarification" => PendingQuestions(c) # {}

\* A step of the turn h that its speaker is entitled to take on case c.  What
\* takes a case out of a state where it awaits a person is a decision, except
\* an amendment, which sends it back.
Decides(c) ==
    /\ kase[c].state \in AwaitingAHuman
    /\ kase'[c].state \notin {kase[c].state, "intake_ready"}

Entitled(h, c) ==
    /\ chat[h].pc # "idle" /\ chat[h].at = c /\ chat'[h] # chat[h]
    /\ Visible(chat[h].who, c)
    /\ Decides(c) =>
          /\ CanDecide(chat[h].who)
          /\ chat[h].intent = kase[c].state
          /\ kase[c].state = "draft" => kase[c].by # chat[h].who

\* Whatever number a model points at, whatever the words name and however old
\* the card is, a case changes by its run or by a turn of somebody who may see
\* it; and it leaves a state that awaits a person only by somebody who may
\* decide, at the stage the decision was given for, never on a draft of their
\* own (build_menu and the conversations before, DecisionEngine.execute with
\* its handlers at the end of a turn, with other turns and runs in between).
ChangesAreEntitled ==
    [][\A c \in Cases : kase'[c] # kase[c] =>
          \/ kase[c].state = "analyzing" /\ chat' = chat
          \/ \E h \in Chats : Entitled(h, c)]_caseVars

\* After a turn its case can go on and its speaker was told what happened,
\* unless the run that should follow was refused.
TurnsAreSettled == NothingStranded /\ RefusalsAreTrue
=============================================================================
