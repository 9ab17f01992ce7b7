--------------------------- MODULE TelegramIntake ---------------------------
(***************************************************************************)
(* TelegramBotService: one long-polling loop that turns messages into      *)
(* meetings.  Telegram keeps an update until a getUpdates call names a     *)
(* higher offset; the bot keeps its offset in memory and raises it before  *)
(* it handles an update, so what the offset has passed is only confirmed   *)
(* by the next poll, and a restart starts again from what is unconfirmed.  *)
(* Nothing in the database remembers which updates became meetings.        *)
(***************************************************************************)
EXTENDS Naturals, Sequences

CONSTANTS Kinds,        \* sequence of updates: "transcript", "talk", "stranger", "empty"
          MaxNetFaults, \* bound: failing polls and sends, refused sends
          MaxRestarts   \* bound: restarts of the API process

UpdateIds == DOMAIN Kinds

ASSUME TelegramAssumption ==
    /\ Kinds \in Seq({"transcript", "talk", "stranger", "empty"})
    /\ {MaxNetFaults, MaxRestarts} \subseteq Nat

VARIABLES
    arrived,    \* updates 1..arrived have reached Telegram
    confirmed,  \* Telegram has forgotten the updates below this id
    _offset,    \* the next offset the bot will ask for
    batch,      \* updates of the last poll that are not handled yet
    at,         \* where the loop is with the first of the batch
    reply,      \* history: what the chat got last for each update
    unsent,     \* history: updates whose handling a failed send cut short, or
                \* whose last word Telegram refused
    meetings,   \* meetings created for each update
    netFaults, restarts

telegramVars == <<arrived, confirmed, _offset, batch, at, reply, unsent, meetings,
                  netFaults, restarts>>

Larger(m, n) == IF m > n THEN m ELSE n
Ending == {"help", "result", "error"}

TelegramInit ==
    /\ arrived = 0
    /\ confirmed = 1
    /\ _offset = 0
    /\ batch = {}
    /\ at = "poll"
    /\ reply = [u \in UpdateIds |-> "none"]
    /\ unsent = {}
    /\ meetings = [u \in UpdateIds |-> 0]
    /\ netFaults = 0
    /\ restarts = 0

First == CHOOSE u \in batch : \A v \in batch : u =< v

Arrive ==
    /\ arrived + 1 \in UpdateIds
    /\ arrived' = arrived + 1
    /\ UNCHANGED <<confirmed, _offset, batch, at, reply, unsent, meetings, netFaults, restarts>>

\* getUpdates(offset): a poll that fails on its way back has confirmed as well,
\* but returns nothing; the loop sleeps and polls again.
_get_updates ==
    /\ at = "poll"
    /\ batch = {}
    /\ confirmed' = Larger(confirmed, _offset)
    /\ \/ /\ batch' = confirmed'..arrived
          /\ at' = IF batch' = {} THEN "poll" ELSE "take"
          /\ UNCHANGED netFaults
       \/ /\ netFaults < MaxNetFaults
          /\ netFaults' = netFaults + 1
          /\ UNCHANGED <<batch, at>>
    /\ UNCHANGED <<arrived, _offset, reply, unsent, meetings, restarts>>

\* The head of the batch is done with.
Leave(rest) ==
    /\ batch' = rest
    /\ at' = IF rest = {} THEN "poll" ELSE "take"

\* A variant of _send whose error ends the loop.
_sendKillsLoop(u, text, goes) ==
    \/ /\ reply' = [reply EXCEPT ![u] = text]
       /\ goes
       /\ UNCHANGED <<unsent, netFaults>>
    \/ /\ netFaults < MaxNetFaults
       /\ netFaults' = netFaults + 1
       /\ unsent' = unsent \union {u}
       /\ at' = "poll"
       /\ UNCHANGED <<reply, batch>>

\* _send: an error of the network leaves _handle_update, and run_forever logs it.
\* The status of the answer is not looked at, so a text that Telegram refuses
\* counts as sent and the handling goes on.
_send(u, text, goes) ==
    \/ /\ reply' = [reply EXCEPT ![u] = text]
       /\ goes
       /\ UNCHANGED <<unsent, netFaults>>
    \/ /\ netFaults < MaxNetFaults
       /\ netFaults' = netFaults + 1
       /\ unsent' = unsent \union {u}
       /\ Leave(batch \ {u})
       /\ UNCHANGED reply
    \/ /\ netFaults < MaxNetFaults
       /\ netFaults' = netFaults + 1
       /\ unsent' = IF text \in Ending THEN unsent \union {u} ELSE unsent
       /\ goes
       /\ UNCHANGED reply

\* The offset passes the update; a message without text is ignored, a stranger
\* and a message that is no transcript get a hint, a transcript a receipt.
_handle_update ==
    /\ at = "take"
    /\ LET u == First
       IN /\ _offset' = Larger(_offset, u + 1)
          /\ \/ /\ Kinds[u] = "empty"
                /\ Leave(batch \ {u})
                /\ UNCHANGED <<reply, unsent, netFaults>>
             \/ /\ Kinds[u] \in {"talk", "stranger"}
                /\ _send(u, "help", Leave(batch \ {u}))
             \/ /\ Kinds[u] = "transcript"
                /\ _send(u, "received", at' = "create" /\ UNCHANGED batch)
    /\ UNCHANGED <<arrived, confirmed, meetings, restarts>>

\* The meeting is created, its run is generated and waits for approval, and
\* the meeting is read for the summary; or one of these raises.
_process_transcript ==
    /\ \/ /\ at = "create"
          /\ \/ meetings' = [meetings EXCEPT ![First] = @ + 1] /\ at' = "generate"
             \/ at' = "error" /\ UNCHANGED meetings
       \/ /\ at = "generate"
          /\ at' \in {"result", "error"}
          /\ UNCHANGED meetings
    /\ UNCHANGED <<arrived, confirmed, _offset, batch, reply, unsent, netFaults, restarts>>

Reply ==
    /\ at \in {"result", "error"}
    /\ _send(First, at, Leave(batch \ {First}))
    /\ UNCHANGED <<arrived, confirmed, _offset, meetings, restarts>>

\* A variant of TelegramRestart whose offset survives.
TelegramRestartKeepsOffset ==
    /\ restarts < MaxRestarts
    /\ restarts' = restarts + 1
    /\ batch' = {}
    /\ at' = "poll"
    /\ UNCHANGED <<arrived, confirmed, _offset, reply, unsent, meetings, netFaults>>

\* The API process stops and starts again: _offset is a field of the object.
TelegramRestart ==
    /\ restarts < MaxRestarts
    /\ restarts' = restarts + 1
    /\ _offset' = 0
    /\ batch' = {}
    /\ at' = "poll"
    /\ UNCHANGED <<arrived, confirmed, reply, unsent, meetings, netFaults>>

run_forever == _get_updates \/ _handle_update \/ _process_transcript \/ Reply

TelegramNext == Arrive \/ run_forever \/ TelegramRestart

\* run_forever catches every exception and goes on.
TelegramSpec == TelegramInit /\ [][TelegramNext]_telegramVars /\ WF_telegramVars(run_forever)

-----------------------------------------------------------------------------
(* Properties                                                              *)

\* The offsets never pass what has arrived, and the loop is at a known place.
TelegramTypeOK ==
    /\ arrived \in Nat /\ {confirmed, _offset} \subseteq 0..arrived + 1
    /\ batch \subseteq UpdateIds
    /\ at \in {"poll", "take", "create", "generate"} \union {"result", "error"}
    /\ reply \in [UpdateIds -> Ending \union {"none", "received"}]
    /\ unsent \subseteq UpdateIds

\* An update Telegram will not deliver again has got its last word (a hint, the
\* summary or the error), whatever crashed in between, unless a send of the bot
\* itself failed or was refused: raising the offset before handling loses nothing.
ForgottenWasAnswered ==
    \A u \in UpdateIds : u < confirmed /\ Kinds[u] # "empty" /\ u \notin unsent =>
        reply[u] \in Ending

\* A message becomes more than one meeting only through restarts: one more for
\* each, since a redelivered update is not recognised.
MeetingsBounded == \A u \in UpdateIds : meetings[u] =< 1 + restarts

\* Every message is answered or cut short by a failed send, and then forgotten
\* by Telegram, though polls fail and the process restarts.
EveryUpdateLeaves == \A u \in UpdateIds : arrived >= u ~> confirmed > u

\* Polls, sends and restarts fail in any order, and no update is lost; it may
\* be handled again, once for each restart.
NoUpdateIsLost == TelegramTypeOK /\ ForgottenWasAnswered /\ MeetingsBounded
=============================================================================
