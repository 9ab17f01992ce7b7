----------------------- MODULE MCNotificationQueue -------------------------
(* Instance of NotificationQueue for TLC: a reminder that waits, and a     *)
(* card attached to a person whose recipient has no Slack member id.       *)
EXTENDS NotificationQueue, TLC

CONSTANTS reminder, support, draft, moved

MCJobs == {reminder, support}
MCCaseStates == {draft, moved}
MCExpected == (reminder :> draft) @@ (support :> AnyState)
MCDueIn == (reminder :> 1) @@ (support :> 0)
MCUnmapped == {support}
=============================================================================
