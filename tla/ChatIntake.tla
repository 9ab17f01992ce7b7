----------------------------- MODULE ChatIntake -----------------------------
(***************************************************************************)
(* Purchase requests typed into one chat channel: the table                *)
(* chat_conversations and ConversationIntakeService, which fills a draft   *)
(* turn by turn, shows a confirm card, files the case, and parks a draft   *)
(* while another is worked on.  Every call of the store is a transaction   *)
(* of its own; what a handler knows in between is the snapshot it read     *)
(* when the message came in.  The Zalo loop handles one message at a time, *)
(* Slack starts a task for each.  The language model decides only which    *)
(* turn a message is, so a turn is chosen freely.                          *)
(***************************************************************************)
EXTENDS Naturals, Sequences, FiniteSets

CONSTANTS Handlers,     \* messages and buttons being handled
          Items,        \* goods a request may be for
          MaxConvs,     \* bound: conversations of the channel
          MaxFiled,     \* bound: cases filed
          MaxTurns,     \* bound: messages and buttons
          MaxRestarts,  \* bound: restarts of the process
          OpenLimit,    \* how many conversations list_open returns
          None

ASSUME IntakeAssumption ==
    /\ {MaxConvs, MaxFiled, MaxTurns, MaxRestarts, OpenLimit} \subseteq Nat
    /\ None \notin Items

VARIABLES
    conv,      \* chat_conversations: state, slots (item, full) and case_id
    recent,    \* conversations by updated_at, the latest first
    handler,   \* what each handler does, on which conversation, with which view
    filed,     \* cases filed from this channel, with the request they hold
    loop,      \* TRUE: one message at a time (Zalo); FALSE: tasks (Slack)
    checked,   \* TRUE: the table as the migration made it
    turns, restarts

intakeVars == <<conv, recent, handler, filed, loop, checked, turns, restarts>>

Convs == 1..MaxConvs
ActiveStates == {"collecting", "confirming"}
OpenStates == ActiveStates \union {"parked", "case_created"}
ConvStates == OpenStates \union {"cancelled"}
Row == [state : ConvStates \union {"absent"}, item : Items \union {None},
        full : BOOLEAN, case : 0..MaxFiled]
Absent == [state |-> "absent", item |-> None, full |-> FALSE, case |-> 0]
Fresh == [Absent EXCEPT !.state = "collecting"]

\* The part of a turn the service uses: the goods it names, and whether it
\* gives the last of the other required fields.
NoTurn == [item |-> None, full |-> FALSE]
Turns == [item : Items \union {None}, full : BOOLEAN]

Rest == [pc |-> "idle", on |-> 0, open |-> {}, seen |-> <<>>,
         turn |-> NoTurn, case |-> 0]
Pcs == {"idle", "active", "create", "life", "turn", "pivot", "merge", "confirm", "edit",
        "editset", "file", "mark", "resume", "resumeset", "focus", "focusset"}

\* missing_required: an item, the other fields and enough suppliers.
Complete(row) == row.item # None /\ row.full
HasContent(row) == row.case # 0 \/ row.item # None

\* merged_with: new values win, everything else is kept.
Merged(row, turn) ==
    [row EXCEPT !.item = IF turn.item # None THEN turn.item ELSE @,
                !.full = @ \/ turn.full]

(***************************************************************************)
(* The store.                                                              *)
(***************************************************************************)
\* The conversations in S that were updated last, n of them.
Latest(S, n) ==
    {recent[i] : i \in {j \in DOMAIN recent :
        recent[j] \in S /\ Cardinality({k \in 1..(j - 1) : recent[k] \in S}) < n}}

InState(states) == {c \in Convs : conv[c].state \in states}

list_open == Latest(InState(OpenStates), OpenLimit)

\* At most one conversation is active, so created_at does not matter.
find_active == InState(ActiveStates)

\* Where c is listed, or would be appended; those before it move down by one.
Place(c) ==
    IF \E i \in DOMAIN recent : recent[i] = c
      THEN CHOOSE i \in DOMAIN recent : recent[i] = c ELSE Len(recent) + 1

ToFront(c) ==
    LET p == Place(c)
    IN  [i \in DOMAIN recent \union {p} |->
            IF i = 1 THEN c ELSE IF i <= p THEN recent[i - 1] ELSE recent[i]]

\* The unique index on active conversations, and the check on state.
Accepts(c, state) ==
    /\ state \in ActiveStates => \A d \in Convs \ {c} : conv[d].state \notin ActiveStates
    /\ checked => state # "parked"

\* A statement that violates a constraint raises and ends the turn.
update(h, c, row, then) ==
    /\ IF Accepts(c, row.state)
          THEN /\ conv' = [conv EXCEPT ![c] = row]
               /\ recent' = ToFront(c)
               /\ handler' = [handler EXCEPT ![h] = then]
          ELSE /\ handler' = [handler EXCEPT ![h] = Rest]
               /\ UNCHANGED <<conv, recent>>
    /\ UNCHANGED <<filed, loop, checked, turns, restarts>>

SetState(h, c, state, then) == update(h, c, [conv[c] EXCEPT !.state = state], then)

touch(h, c) ==
    /\ recent' = ToFront(c)
    /\ handler' = [handler EXCEPT ![h] = Rest]
    /\ UNCHANGED <<conv, filed, loop, checked, turns, restarts>>

Go(h, then) ==
    /\ handler' = [handler EXCEPT ![h] = then]
    /\ UNCHANGED <<conv, recent, filed, loop, checked, turns, restarts>>

create(h, then) ==
    /\ Len(recent) < MaxConvs
    /\ LET c == Len(recent) + 1
       IN  update(h, c, Fresh, [then EXCEPT !.on = c, !.open = @ \union {c},
                                            !.seen = [then.seen EXCEPT ![c] = Fresh]])

IntakeInit ==
    /\ conv = [c \in Convs |-> Absent]
    /\ recent = <<>>
    /\ handler = [h \in Handlers |-> Rest]
    /\ filed = <<>>
    /\ loop \in BOOLEAN
    /\ checked \in BOOLEAN
    /\ turns = 0
    /\ restarts = 0

(***************************************************************************)
(* handle_message.                                                         *)
(***************************************************************************)
Arrive(h, then) ==
    /\ handler[h].pc = "idle"
    /\ turns < MaxTurns
    /\ loop => \A g \in Handlers : handler[g].pc = "idle"
    /\ turns' = turns + 1
    /\ handler' = [handler EXCEPT ![h] = then]
    /\ UNCHANGED <<conv, recent, filed, loop, checked, restarts>>

\* The first read of the turn: what is unfinished, and the live case talked
\* about last, or 0.
Receive(h) ==
    LET open == list_open
        cases == open \cap InState({"case_created"})
    IN  \E c \in IF cases = {} THEN {0} ELSE Latest(cases, 1) :
           Arrive(h, [Rest EXCEPT !.pc = "active", !.on = c, !.open = open, !.seen = conv])

\* The second, in a transaction of its own.  A live case is talked about only
\* when no intake is in flight by now.
FindActive(h) ==
    /\ handler[h].pc = "active"
    /\ \/ \E c \in find_active :
             Go(h, [handler[h] EXCEPT !.pc = "turn", !.on = c,
                                      !.seen = [handler[h].seen EXCEPT ![c] = conv[c]]])
       \/ /\ find_active = {}
          /\ Go(h, [handler[h] EXCEPT !.pc = IF handler[h].on = 0 THEN "create" ELSE "life"])

StartDraft(h) ==
    /\ handler[h].pc = "create"
    /\ create(h, [handler[h] EXCEPT !.pc = "turn"])

Others(h) == handler[h].open \ {handler[h].on}
View(h, c) == handler[h].seen[c]

\* _match_conversation: the one candidate whose label the message names.
Match(h, item, candidates) == {c \in candidates : View(h, c).item = item}
NamesOne(h, item, candidates) == Cardinality(Match(h, item, candidates)) = 1

\* A turn about a live case: answered or acted on there, a switch to another
\* conversation, or a new purchase, for which an intake is opened.
LifecycleTurn(h) ==
    /\ handler[h].pc = "life"
    /\ \/ Go(h, Rest)
       \/ Go(h, [handler[h] EXCEPT !.pc = "create"])
       \/ \E item \in Items, c \in Others(h) :
             /\ NamesOne(h, item, Others(h))
             /\ c \in Match(h, item, Others(h))
             /\ Go(h, [handler[h] EXCEPT !.pc = "focus", !.on = c])

Draft(h) == View(h, handler[h].on)

\* Nothing this person could mean: no case, and no draft with content.
NoMenu(h) ==
    /\ filed = <<>>
    /\ ~HasContent(Draft(h))
    /\ \A c \in Others(h) : ~HasContent(View(h, c))

\* Turns that leave the drafts alone: a question about readiness or the law, a
\* list of cases or drafts, and what ends without a write (a case acted on, a
\* sentence without goods, a request the rework guard refuses).
TurnAsks(h) == handler[h].pc = "turn" /\ Go(h, Rest)
TurnLists(h) == handler[h].pc = "turn" /\ Go(h, Rest)
TurnEnds(h) == handler[h].pc = "turn" /\ Go(h, Rest)

\* The confirm card answered in words.
TurnAnswersCard(h) ==
    /\ handler[h].pc = "turn"
    /\ Draft(h).state = "confirming"
    /\ \E pc \in {"confirm", "edit"} : Go(h, [handler[h] EXCEPT !.pc = pc])

TurnSwitches(h) ==
    /\ handler[h].pc = "turn"
    /\ \E item \in Items, c \in Others(h) :
          /\ NamesOne(h, item, Others(h))
          /\ c \in Match(h, item, Others(h))
          /\ Go(h, [handler[h] EXCEPT !.pc = "focus", !.on = c])

\* A new request for other goods: the draft is parked first.
Pivots(h, turn) ==
    /\ Draft(h).item # None
    /\ turn.item # None
    /\ turn.item # Draft(h).item

TurnPivots(h) ==
    /\ handler[h].pc = "turn"
    /\ \E turn \in Turns :
          /\ Pivots(h, turn)
          /\ SetState(h, handler[h].on, "parked",
                      [handler[h] EXCEPT !.pc = "pivot", !.turn = turn])

Parked(h) == {c \in Others(h) : View(h, c).state = "parked"}

\* A draft parked earlier for these goods goes on; otherwise a new one starts.
PivotOpens(h) ==
    /\ handler[h].pc = "pivot"
    /\ LET then == [handler[h] EXCEPT !.pc = "merge"]
           item == handler[h].turn.item
       IN  IF NamesOne(h, item, Parked(h))
             THEN \E c \in Match(h, item, Parked(h)) :
                     SetState(h, c, "collecting", [then EXCEPT !.on = c])
             ELSE create(h, then)

\* The slots are written with the state they imply, over the view of the turn.
Merge(h, row) ==
    update(h, handler[h].on,
           [row EXCEPT !.state = IF Complete(row) THEN "confirming" ELSE "collecting",
                       !.case = conv[handler[h].on].case], Rest)

\* An amount that the message does not contain is dropped again (mismatch),
\* and the draft is incomplete.
Fill(h, turn) ==
    \E mismatch \in BOOLEAN :
        /\ mismatch => turn.full
        /\ LET row == Merged(Draft(h), turn)
           IN  Merge(h, IF mismatch THEN [row EXCEPT !.full = FALSE] ELSE row)

PivotMerges(h) == handler[h].pc = "merge" /\ Fill(h, handler[h].turn)

\* Any other turn fills the draft.
TurnFills(h) ==
    /\ handler[h].pc = "turn"
    /\ \E turn \in Turns :
          /\ turn.item = None => HasContent(Draft(h)) \/ NoMenu(h)
          /\ Fill(h, turn)

TurnCancels(h) ==
    /\ handler[h].pc = "turn"
    /\ SetState(h, handler[h].on, "cancelled", [handler[h] EXCEPT !.pc = "resume"])

(***************************************************************************)
(* handle_action and handle_pick_case.                                     *)
(***************************************************************************)
\* A button, possibly on an old card.
Press(h, c) ==
    /\ conv[c].state # "absent"
    /\ \E pc \in {"confirm", "edit"} :
          Arrive(h, [Rest EXCEPT !.pc = pc, !.on = c, !.seen = conv])

\* The state is not looked at.
ConfirmableAnyState(row) == row.state # "cancelled"

Confirmable(row) == row.state = "confirming"

\* A case that exists is linked, a conversation elsewhere is refused.
handle_action(h) ==
    /\ handler[h].pc \in {"confirm", "edit"}
    /\ LET row == conv[handler[h].on]
       IN  IF Confirmable(row)
             THEN Go(h, [handler[h] EXCEPT !.pc = IF @ = "edit" THEN "editset" ELSE "file",
                                           !.seen = conv])
             ELSE Go(h, Rest)

EditDraft(h) ==
    /\ handler[h].pc = "editset"
    /\ SetState(h, handler[h].on, "collecting", Rest)

\* create_case commits in its own transaction; the rework gate may refuse it.
FileCase(h) ==
    /\ handler[h].pc = "file"
    /\ \/ Go(h, Rest)
       \/ /\ Len(filed) < MaxFiled
          /\ filed' = Append(filed, [conv |-> handler[h].on, item |-> Draft(h).item,
                                     full |-> Draft(h).full])
          /\ handler' = [handler EXCEPT ![h].pc = "mark", ![h].case = Len(filed) + 1]
          /\ UNCHANGED <<conv, recent, loop, checked, turns, restarts>>

MarkCreated(h) ==
    /\ handler[h].pc = "mark"
    /\ update(h, handler[h].on, [conv[handler[h].on] EXCEPT !.state = "case_created",
                                                           !.case = handler[h].case],
              [handler[h] EXCEPT !.pc = "resume"])

\* _resume_parked: the draft parked last is found, then reactivated.
FindParked(h) ==
    /\ handler[h].pc = "resume"
    /\ \/ InState({"parked"}) = {} /\ Go(h, Rest)
       \/ \E c \in Latest(InState({"parked"}), 1) :
             Go(h, [handler[h] EXCEPT !.pc = "resumeset", !.on = c])

ResumeParked(h) ==
    /\ handler[h].pc = "resumeset"
    /\ SetState(h, handler[h].on, "collecting", Rest)

Pick(h, c) ==
    /\ conv[c].state # "absent"
    /\ Arrive(h, [Rest EXCEPT !.pc = "focus", !.on = c, !.open = list_open, !.seen = conv])

\* Everything in flight is closed.
PutAwayClosed(row) == "cancelled"

\* _focus: what is in flight is put away by the view of the turn.
PutAway(row) == IF HasContent(row) THEN "parked" ELSE "cancelled"

FocusParks(h) ==
    /\ handler[h].pc = "focus"
    /\ LET busy == {c \in Others(h) : View(h, c).state \in ActiveStates}
           then == [handler[h] EXCEPT !.pc = "focusset"]
       IN  \/ busy = {} /\ Go(h, then)
           \/ \E c \in busy : SetState(h, c, PutAway(View(h, c)), then)

FocusSets(h) ==
    /\ handler[h].pc = "focusset"
    /\ IF Draft(h).state = "parked"
          THEN SetState(h, handler[h].on, "collecting", Rest)
          ELSE touch(h, handler[h].on)

\* The process stops; messages being handled are not delivered again.
Restart ==
    /\ restarts < MaxRestarts
    /\ \E h \in Handlers : handler[h].pc # "idle"
    /\ restarts' = restarts + 1
    /\ handler' = [h \in Handlers |-> Rest]
    /\ UNCHANGED <<conv, recent, filed, loop, checked, turns>>

IntakeStep(h) ==
    \/ Receive(h) \/ FindActive(h) \/ StartDraft(h) \/ LifecycleTurn(h)
    \/ TurnAsks(h) \/ TurnLists(h) \/ TurnEnds(h)
    \/ TurnAnswersCard(h) \/ TurnSwitches(h) \/ TurnPivots(h)
    \/ PivotOpens(h) \/ PivotMerges(h) \/ TurnFills(h) \/ TurnCancels(h)
    \/ (\E c \in Convs : Press(h, c) \/ Pick(h, c))
    \/ handle_action(h) \/ EditDraft(h) \/ FileCase(h) \/ MarkCreated(h)
    \/ FindParked(h) \/ ResumeParked(h) \/ FocusParks(h) \/ FocusSets(h)

IntakeNext == Restart \/ \E h \in Handlers : IntakeStep(h)

IntakeSpec == IntakeInit /\ [][IntakeNext]_intakeVars

-----------------------------------------------------------------------------
\* The variables have their types, and recent lists every conversation created once.
IntakeTypeOK ==
    /\ conv \in [Convs -> Row]
    /\ recent \in Seq(Convs)
    /\ \A i, j \in DOMAIN recent : recent[i] = recent[j] => i = j
    /\ {recent[i] : i \in DOMAIN recent} = InState(ConvStates)
    /\ \A h \in Handlers : /\ handler[h].pc \in Pcs
                           /\ handler[h].on \in 0..MaxConvs
                           /\ handler[h].turn \in Turns
                           /\ handler[h].pc \notin {"idle", "active", "create"} =>
                                 handler[h].on \in Convs
    /\ filed \in Seq([conv : Convs, item : Items \union {None}, full : BOOLEAN])

\* A case is only filed from a request that was complete when it was
\* confirmed, whatever turns overlap the confirmation (handle_action after
\* handle_message).
FiledWasComplete == \A i \in DOMAIN filed : Complete(filed[i])

\* A conversation that says its case exists names a case that was filed from
\* it, so a late click can repeat the link.
CaseIsItsOwn ==
    \A c \in Convs : conv[c].state = "case_created" =>
        /\ conv[c].case \in DOMAIN filed
        /\ filed[conv[c].case].conv = c

\* Where messages are handled one at a time and no restart cut one short, a
\* request becomes one case, however often its card is answered.
OneCasePerRequest ==
    loop /\ restarts = 0 =>
        \A i, j \in DOMAIN filed : filed[i].conv = filed[j].conv => i = j

\* Where messages are handled one at a time, a draft with content is closed
\* only by the turn that cancels it: switching, picking, pivoting and
\* resuming keep it.
DraftsAreKept ==
    [][loop => \A c \in Convs :
          conv[c].state # "cancelled" /\ HasContent(conv[c]) /\ conv'[c].state = "cancelled"
              => \E h \in Handlers : TurnCancels(h)]_intakeVars

\* However turns, clicks and restarts interleave, what is filed is a complete
\* request of its own conversation, once where the code can promise it.
FiledAsAsked == IntakeTypeOK /\ FiledWasComplete /\ CaseIsItsOwn /\ OneCasePerRequest
=============================================================================
