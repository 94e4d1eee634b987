-------------------------- MODULE ProviderRestarts --------------------------
(***************************************************************************)
(* What one provider is owed across one npm command, and nothing about     *)
(* how it is found out: a session is open or it is not, every session that *)
(* ends does so for one cause of the policy's sessionEnds table, and the    *)
(* table alone says whether the end counts toward the restart limit and    *)
(* whether the provider is skipped for the rest of the command.            *)
(***************************************************************************)
EXTENDS Naturals

CONSTANT FailedSessionsBeforeNoRestart  \* failed ends after which no process is started

VARIABLES
    kills,         \* sessions that ended in a failure that counts
    skipped,       \* a hello failed: the provider is out for the command
    session_open,  \* a process is up: its hello is awaited or it is in use
    starts         \* processes the command started or tried to start

vars == <<kills, skipped, session_open, starts>>

(* The policy's table, by column. "error-answer" is in none of them.       *)
Causes        == {"timeout", "exit-outstanding", "oversized-line", "malformed-message",
                  "stray-line", "exit-idle", "hello-failed", "error-answer"}
Counts        == {"timeout", "exit-outstanding", "oversized-line", "malformed-message",
                  "stray-line"}
EndsSession   == Causes \ {"error-answer"}
SkipsProvider == {"hello-failed"}

Init == /\ kills = 0
        /\ skipped = FALSE
        /\ session_open = FALSE
        /\ starts = 0

may_start == ~skipped /\ kills < FailedSessionsBeforeNoRestart

start == /\ ~session_open
         /\ may_start
         /\ starts' = starts + 1
         /\ session_open' = TRUE
         /\ UNCHANGED <<kills, skipped>>

end(cause) == /\ session_open
              /\ session_open' = (cause \notin EndsSession)
              /\ kills' = IF cause \in Counts THEN kills + 1 ELSE kills
              /\ skipped' = (skipped \/ cause \in SkipsProvider)
              /\ UNCHANGED starts

(* The process could not be started at all: a hello that failed, with no   *)
(* session in between.                                                     *)
start_fails == /\ ~session_open
               /\ may_start
               /\ starts' = starts + 1
               /\ skipped' = TRUE
               /\ UNCHANGED <<kills, session_open>>

npm_exits == /\ session_open
             /\ session_open' = FALSE
             /\ UNCHANGED <<kills, skipped, starts>>

Next == start \/ start_fails \/ npm_exits \/ \E cause \in Causes : end(cause)

Spec == Init /\ [][Next]_vars
=============================================================================
