----------------------------- MODULE MCServices -----------------------------
(***************************************************************************)
(* Small instances of the services around the procurement case, side by    *)
(* side: a behaviour is one of the tool executor, of the meeting actions,  *)
(* of the Telegram intake or of the law watch, and the variables of the    *)
(* others stay where they start.                                           *)
(***************************************************************************)
EXTENDS ToolExecutor, WorkOps, TelegramIntake, LawWatch, TLC

CONSTANTS dispatch, lookup

VARIABLE service

\* A critical tool that must not be repeated and an idempotent one.
MCTools == {dispatch, lookup}
MCOne == {dispatch}
MCMaxRetries == (dispatch :> 1) @@ (lookup :> 1)
MCKinds == <<"transcript", "talk", "empty">>

ServiceInit ==
    /\ service \in {"tools", "work", "telegram", "law"}
    /\ Init /\ WorkInit /\ TelegramInit /\ LawInit
    \* cases and positions are interchangeable at first
    /\ law = CHOOSE p \in LegalPositions : TRUE
    /\ waiting[1] = CHOOSE c \in WatchedCases : TRUE
    /\ service # "law" => staffed /\ \A c \in WatchedCases : drafted[c] = law

UnchangedTools == UNCHANGED vars
UnchangedWork == UNCHANGED workVars
UnchangedTelegram == UNCHANGED telegramVars
UnchangedLaw == UNCHANGED lawVars

ServiceNext ==
    /\ service' = service
    /\ \/ service = "tools" /\ Next /\ UnchangedWork /\ UnchangedTelegram /\ UnchangedLaw
       \/ service = "work" /\ WorkNext /\ UnchangedTools /\ UnchangedTelegram /\ UnchangedLaw
       \/ service = "telegram" /\ TelegramNext /\ UnchangedTools /\ UnchangedWork /\ UnchangedLaw
       \/ service = "law" /\ LawNext /\ UnchangedTools /\ UnchangedWork /\ UnchangedTelegram

serviceVars == <<service, vars, workVars, telegramVars, lawVars>>

\* What keeps running by itself: a call that has begun, the nodes of a run, the
\* polling loop and the sweep.
Progress ==
    /\ service' = service
    /\ \/ /\ service = "tools" /\ UnchangedWork /\ UnchangedTelegram /\ UnchangedLaw
          /\ \E c \in Calls : Execute(c)
       \/ /\ service = "work" /\ UnchangedTools /\ UnchangedTelegram /\ UnchangedLaw
          /\ \E r \in WorkRuns : WorkNode(r)
       \/ /\ service = "telegram" /\ UnchangedTools /\ UnchangedWork /\ UnchangedLaw
          /\ run_forever
       \/ /\ service = "law" /\ UnchangedTools /\ UnchangedWork /\ UnchangedTelegram
          /\ Sweep

ServiceSpec == ServiceInit /\ [][ServiceNext]_serviceVars /\ WF_serviceVars(Progress)

\* What runs by itself comes to an end: calls, runs that wait for no person,
\* updates, and changes of the law on their way to somebody.
NothingWaitsForever == EveryCallEnds /\ WorkEnds /\ EveryUpdateLeaves /\ ChangeIsReported
=============================================================================
