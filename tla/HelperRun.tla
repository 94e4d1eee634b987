----------------------------- MODULE HelperRun -----------------------------
(***************************************************************************)
(* One run of a token helper (run and stop of lib/utils/token-helper.js),  *)
(* for each registry key that has one: the program, its pipes, the events  *)
(* npm sees of them, the deadline, the drain and the kill timers, and the  *)
(* promise that is settled once. A run ends the way its events come:       *)
(* output over the limit, the deadline, the exit of the program, pipes     *)
(* that a background process holds open after it.                          *)
(***************************************************************************)
EXTENDS Naturals

CONSTANT RegKeys   \* the keys of registries, each with a helper of its own

VARIABLES
    platform,  \* "win32" or "posix"
    npm,       \* "up", and "gone" once npm's process has exited
    run        \* for each key, the run of its helper

runVars == <<platform, npm, run>>

Runs ==
    [promise : {"none", "pending", "header", "rejected"}, \* what the cache holds
     starts  : Nat,                                       \* programs started (history)
     proc    : {"none", "running", "gone"},
     status  : {"ok", "bad"},                             \* how it ended
     pipes   : {"closed", "open", "held"},   \* held: by a process the helper left behind
     exitSeen : BOOLEAN,                     \* the exit event was delivered
     timers  : SUBSET {"deadline", "drain", "kill"},
     aborted : BOOLEAN]                      \* ended by abort (history)

NoRun == [promise |-> "none", starts |-> 0, proc |-> "none", status |-> "bad",
          pipes |-> "closed", exitSeen |-> FALSE, timers |-> {}, aborted |-> FALSE]

(* Every key has at most one run, in one of its states.                    *)
RunTypeOK == platform \in {"win32", "posix"} /\ npm \in {"up", "gone"} /\ run \in [RegKeys -> Runs]

RunInit == platform \in {"win32", "posix"} /\ npm = "up" /\ run = [k \in RegKeys |-> NoRun]

Settled(k) == run[k].promise # "pending"

-----------------------------------------------------------------------------
(* npm starts a run, as one step of the function it hands to the fetcher.  *)

Started(r) ==
    [r EXCEPT !.promise = "pending", !.starts = r.starts + 1, !.proc = "running",
              !.pipes = "open", !.timers = {"deadline"}]

(* promiseSpawn throws, or a value is refused before it: nothing starts.   *)
NotStarted(r) == [r EXCEPT !.promise = "rejected"]

(* The spawn fails later, with an error event and no exit.                 *)
FailsToStart(r) ==
    [r EXCEPT !.promise = "pending", !.exitSeen = TRUE, !.timers = {"deadline"}]

-----------------------------------------------------------------------------
(* The program, and the processes it leaves behind.                        *)

HelperExits(k) ==
    /\ run[k].proc = "running"
    /\ \E status \in {"ok", "bad"} :
          run' = [run EXCEPT ![k].proc = "gone", ![k].status = status,
                             ![k].pipes = "closed"]
    /\ UNCHANGED <<platform, npm>>

(* It exits while a background process it started holds its output open.   *)
HelperLeavesPipes(k) ==
    /\ run[k].proc = "running" /\ run[k].pipes = "open"
    /\ \E status \in {"ok", "bad"} :
          run' = [run EXCEPT ![k].proc = "gone", ![k].status = status, ![k].pipes = "held"]
    /\ UNCHANGED <<platform, npm>>

BackgroundCloses(k) ==
    /\ run[k].pipes = "held"
    /\ run' = [run EXCEPT ![k].pipes = "closed"]
    /\ UNCHANGED <<platform, npm>>

-----------------------------------------------------------------------------
(* npm's side.                                                             *)

(* Mutant of Stopped: SIGTERM, and no timer to follow it up.               *)
Stopped_without_kill(r) ==
    IF ~r.exitSeen /\ platform = "win32" THEN [r EXCEPT !.proc = "gone"] ELSE r

(* stop: nothing for a program that has left; the whole tree, at once, on  *)
(* Windows; else SIGTERM, which a helper may ignore, and SIGKILL later.    *)
Stopped(r) ==
    IF r.exitSeen THEN r
    ELSE IF platform = "win32" THEN [r EXCEPT !.proc = "gone"]
    ELSE [r EXCEPT !.timers = @ \cup {"kill"}]

(* abort: rejects, stops the program, destroys the pipes.                  *)
Aborted(r) ==
    Stopped([r EXCEPT !.promise = IF @ = "pending" THEN "rejected" ELSE @,
                      !.timers = @ \ {"deadline", "drain"},
                      !.pipes = "closed", !.aborted = TRUE])

(* More output than the limit, from the helper or a process it left.       *)
Overflow(k) ==
    /\ npm = "up" /\ run[k].pipes # "closed"
    /\ run' = [run EXCEPT ![k] = Aborted(@)]
    /\ UNCHANGED <<platform, npm>>

Deadline(k) ==
    /\ npm = "up" /\ "deadline" \in run[k].timers
    /\ run' = [run EXCEPT ![k] = Aborted(@)]
    /\ UNCHANGED <<platform, npm>>

(* The deadline is only relied on for a program that does not end.         *)
DeadlineOfHanging(k) == run[k].proc = "running" /\ Deadline(k)

(* Mutant of SeeExit: the pipes are read until they close by themselves.   *)
SeeExit_no_drain(k) ==
    /\ npm = "up" /\ run[k].proc = "gone" /\ ~run[k].exitSeen
    /\ run' = [run EXCEPT ![k].exitSeen = TRUE, ![k].timers = @ \ {"kill"}]
    /\ UNCHANGED <<platform, npm>>

(* The exit event: the drain of the pipes is timed, the kill called off.   *)
SeeExit(k) ==
    /\ npm = "up" /\ run[k].proc = "gone" /\ ~run[k].exitSeen
    /\ run' = [run EXCEPT ![k].exitSeen = TRUE,
                          ![k].timers = (@ \ {"kill"}) \cup
                                        (IF Settled(k) THEN {} ELSE {"drain"})]
    /\ UNCHANGED <<platform, npm>>

Drain(k) ==
    /\ npm = "up" /\ "drain" \in run[k].timers
    /\ run' = [run EXCEPT ![k].pipes = "closed", ![k].timers = @ \ {"drain"}]
    /\ UNCHANGED <<platform, npm>>

(* SIGKILL, to a program that did not leave when it was asked.             *)
KillTimer(k) ==
    /\ npm = "up" /\ "kill" \in run[k].timers
    /\ run' = [run EXCEPT ![k].proc = "gone", ![k].timers = @ \ {"kill"}]
    /\ UNCHANGED <<platform, npm>>

(* The close event, and settle: a header when the program ended well and   *)
(* printed a token (toHeader), an error otherwise; nothing after an abort. *)
Close(k) ==
    /\ npm = "up" /\ run[k].exitSeen /\ run[k].pipes = "closed" /\ ~Settled(k)
    /\ \E promise \in IF run[k].status = "ok" THEN {"header", "rejected"} ELSE {"rejected"} :
          run' = [run EXCEPT ![k].promise = promise,
                             ![k].timers = @ \ {"deadline", "drain"}]
    /\ UNCHANGED <<platform, npm>>

(* What the event loop is obliged to do, and what the world may do.        *)
LoopStep(k)  == SeeExit(k) \/ Drain(k) \/ KillTimer(k) \/ Close(k)
WorldStep(k) == HelperExits(k) \/ HelperLeavesPipes(k) \/ BackgroundCloses(k) \/ Overflow(k)

RunStep(k) == LoopStep(k) \/ Deadline(k) \/ WorldStep(k)
=============================================================================
