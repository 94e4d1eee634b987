------------------------- MODULE ProviderSupervisor -------------------------
(***************************************************************************)
(* One provider of one npm command as the Rust client runs it: the         *)
(* supervisor that starts a session when a request needs one, the session  *)
(* with its reader and writer threads, and the provider process at the     *)
(* other end of the two pipes. Requests carry no id: what pairs an answer  *)
(* with its request is only that one request is outstanding at a time and  *)
(* that a session which failed is never read again.                        *)
(*                                                                         *)
(* A line is [what, to]: what kind of line it is to the client, and the    *)
(* request the provider wrote it for (0: none). `to' is not on the wire.   *)
(***************************************************************************)
EXTENDS Naturals, Sequences, FiniteSets

CONSTANTS
    MaxRequests,                    \* requests npm sends in the command (bound)
    MaxStray,                       \* lines the provider writes for no request (bound)
    FailedSessionsBeforeNoRestart   \* generated::FAILED_SESSIONS_BEFORE_NO_RESTART

ASSUME BoundsAssumption == MaxRequests \in Nat /\ MaxStray \in Nat
ASSUME LimitAssumption  == FailedSessionsBeforeNoRestart \in Nat

VARIABLES
    pc,           \* where the client's thread is
    req,          \* number of the current or last request
    session,      \* ProviderSupervisor.session is Some
    failed,       \* ProviderSupervisor.failed_sessions
    skipped,      \* ProviderSupervisor.skipped
    warnings,     \* warnings pushed
    starts,       \* calls of ProviderSupervisor.start
    outcome,      \* what each request came to
    credited,     \* the request whose answer each request was given (history)
    queued,       \* requests handed to the writer thread, not yet read
    writeFailed,  \* ProviderSession.write_failed is Some
    pipe,         \* what the provider wrote and the reader thread has not read
    lines,        \* ProviderSession.lines
    proc,         \* the provider process
    handling,     \* the request the provider works on, 0 for none
    strays        \* lines written for no request so far

supervisor == <<pc, req, session, failed, skipped, warnings, starts, outcome, credited>>
channels   == <<queued, writeFailed, pipe, lines>>
provider   == <<proc, handling, strays>>
vars       == <<supervisor, channels, provider>>

Requests == 1..MaxRequests
Failures == {"timeout", "exited", "malformed", "processFailed", "strayLine"}
Outcomes == {"none", "ok", "err", "invalid", "skipped", "notRestarted", "helloFailed"}
                \cup Failures
Line     == [what : {"hello", "badHello", "ok", "err", "bad", "eof"}, to : 0..MaxRequests]

(* The supervisor, the pipe and the provider keep within their types.      *)
TypeOK ==
    /\ pc \in {"idle", "ensure", "hello", "ready", "waiting", "dropped"}
    /\ req \in 0..MaxRequests
    /\ session \in BOOLEAN
    /\ failed \in Nat
    /\ skipped \in BOOLEAN
    /\ warnings \in Nat
    /\ starts \in Nat
    /\ outcome \in [Requests -> Outcomes]
    /\ credited \in [Requests -> 0..MaxRequests]
    /\ queued \in Seq(Requests)
    /\ writeFailed \in BOOLEAN
    /\ pipe \in Seq(Line)
    /\ lines \in Seq(Line)
    /\ proc \in {"none", "starting", "running", "exited"}
    /\ handling \in 0..MaxRequests
    /\ strays \in 0..MaxStray

Init ==
    /\ pc = "idle" /\ req = 0
    /\ session = FALSE /\ failed = 0 /\ skipped = FALSE /\ warnings = 0 /\ starts = 0
    /\ outcome = [r \in Requests |-> "none"]
    /\ credited = [r \in Requests |-> 0]
    /\ queued = <<>> /\ writeFailed = FALSE /\ pipe = <<>> /\ lines = <<>>
    /\ proc = "none" /\ handling = 0 /\ strays = 0

(***************************************************************************)
(* The session.                                                            *)
(***************************************************************************)

(* The session is gone with everything in it: the process killed, both     *)
(* pipes closed, the receiver of the lines dropped.                        *)
kill ==
    /\ session' = FALSE
    /\ proc' = "none" /\ handling' = 0
    /\ queued' = <<>> /\ writeFailed' = FALSE /\ pipe' = <<>> /\ lines' = <<>>
    /\ UNCHANGED strays

(* What watch_idle sees: any line is a stray one, malformed ones included. *)
idle == IF ~session \/ lines = <<>> THEN "quiet"
        ELSE IF Head(lines).what = "eof" THEN "exited" ELSE "stray"

Finish(result) ==
    /\ outcome' = [outcome EXCEPT ![req] = result]
    /\ pc' = "idle"
    /\ UNCHANGED req

(* A request fails, its session ends, and the end counts.                  *)
FailAndCount(result) ==
    /\ Finish(result)
    /\ failed' = failed + 1
    /\ kill
    /\ UNCHANGED <<skipped, warnings, starts, credited>>

(***************************************************************************)
(* The supervisor's request, step by step.                                 *)
(***************************************************************************)

(* Mutant of SeeIdle: a provider that exits while idle counts.             *)
SeeIdle_counts_exit ==
    \/ /\ idle = "quiet"
       /\ UNCHANGED <<session, failed, warnings, channels, provider>>
    \/ /\ idle = "stray"
       /\ failed' = failed + 1
       /\ warnings' = warnings + 1
       /\ kill
    \/ /\ idle = "exited"
       /\ failed' = failed + 1
       /\ kill
       /\ UNCHANGED warnings

(* What watch_idle of the supervisor does with what it saw.                *)
SeeIdle ==
    \/ /\ idle = "quiet"
       /\ UNCHANGED <<session, failed, warnings, channels, provider>>
    \/ /\ idle = "stray"
       /\ failed' = failed + 1
       /\ warnings' = warnings + 1
       /\ kill
    \/ /\ idle = "exited"
       /\ kill
       /\ UNCHANGED <<failed, warnings>>

(* npm's listening reader, while no request is being made.                 *)
WatchIdle ==
    /\ pc = "idle"
    /\ idle # "quiet"
    /\ SeeIdle
    /\ UNCHANGED <<pc, req, skipped, starts, outcome, credited>>

RequestSkipped ==
    /\ pc = "idle" /\ req < MaxRequests /\ skipped
    /\ req' = req + 1
    /\ outcome' = [outcome EXCEPT ![req + 1] = "skipped"]
    /\ UNCHANGED <<pc, session, failed, skipped, warnings, starts, credited, channels, provider>>

(* Mutant of Request: a skipped provider is looked for again.              *)
Request_ignores_skipped ==
    /\ pc = "idle" /\ req < MaxRequests
    /\ req' = req + 1
    /\ pc' = "ensure"
    /\ SeeIdle
    /\ UNCHANGED <<skipped, starts, outcome, credited>>

(* The look before a session is ensured: what has arrived by now.          *)
Request ==
    /\ pc = "idle" /\ req < MaxRequests /\ ~skipped
    /\ req' = req + 1
    /\ pc' = "ensure"
    /\ SeeIdle
    /\ UNCHANGED <<skipped, starts, outcome, credited>>

UseSession ==
    /\ pc = "ensure" /\ session
    /\ pc' = "ready"
    /\ UNCHANGED <<req, session, failed, skipped, warnings, starts, outcome, credited,
                   channels, provider>>

NotRestarted ==
    /\ pc = "ensure" /\ ~session /\ failed >= FailedSessionsBeforeNoRestart
    /\ Finish("notRestarted")
    /\ UNCHANGED <<session, failed, skipped, warnings, starts, credited, channels, provider>>

(* Mutant of mayStart: the limit is off by one.                            *)
mayStart_off_by_one == pc = "ensure" /\ ~session /\ failed <= FailedSessionsBeforeNoRestart

mayStart == pc = "ensure" /\ ~session /\ failed < FailedSessionsBeforeNoRestart

Spawn ==
    /\ mayStart
    /\ starts' = starts + 1
    /\ pc' = "hello"
    /\ proc' = "starting"
    /\ UNCHANGED <<req, session, failed, skipped, warnings, outcome, credited, channels,
                   handling, strays>>

CannotSpawn ==
    /\ mayStart
    /\ starts' = starts + 1
    /\ skipped' = TRUE
    /\ Finish("helloFailed")
    /\ UNCHANGED <<session, failed, warnings, credited, channels, provider>>

ReceiveHello ==
    /\ pc = "hello" /\ lines # <<>>
    /\ Head(lines).what = "hello"
    /\ lines' = Tail(lines)
    /\ session' = TRUE
    /\ pc' = "ready"
    /\ UNCHANGED <<req, failed, skipped, warnings, starts, outcome, credited,
                   queued, writeFailed, pipe, provider>>

(* No common version, a line that is no hello, or the provider gone.       *)
HelloFails ==
    /\ pc = "hello" /\ lines # <<>>
    /\ Head(lines).what # "hello"
    /\ skipped' = TRUE
    /\ Finish("helloFailed")
    /\ kill
    /\ UNCHANGED <<failed, warnings, starts, credited>>

(* Mutant of HelloTimesOut: the wait for the hello has no deadline, and    *)
(* ends only when the provider does.                                       *)
HelloTimesOut_no_deadline ==
    /\ pc = "hello" /\ lines = <<>> /\ proc = "exited"
    /\ FailAndCount("timeout")

HelloTimesOut ==
    /\ pc = "hello" /\ lines = <<>>
    /\ FailAndCount("timeout")

(* The request npm built was wrong: nobody's failure, nothing was sent.    *)
RequestInvalid ==
    /\ pc = "ready"
    /\ Finish("invalid")
    /\ UNCHANGED <<session, failed, skipped, warnings, starts, credited, channels, provider>>

(* exchange: a second look at the channel, then the write.                 *)
Send ==
    /\ pc = "ready" /\ idle = "quiet" /\ ~writeFailed
    /\ queued' = Append(queued, req)
    /\ pc' = "waiting"
    /\ UNCHANGED <<req, session, failed, skipped, warnings, starts, outcome, credited,
                   writeFailed, pipe, lines, provider>>

SendFails ==
    /\ pc = "ready"
    /\ \/ idle = "quiet" /\ writeFailed /\ FailAndCount("processFailed")
       \/ idle = "stray" /\ FailAndCount("strayLine")
       \/ idle = "exited" /\ FailAndCount("exited")

(* Mutant of ReceiveAnswer: whatever line comes is the answer.             *)
ReceiveAnswer_unvalidated ==
    /\ pc = "waiting" /\ lines # <<>>
    /\ Finish(Head(lines).what)
    /\ credited' = [credited EXCEPT ![req] = Head(lines).to]
    /\ lines' = Tail(lines)
    /\ UNCHANGED <<session, failed, skipped, warnings, starts,
                   queued, writeFailed, pipe, provider>>

ReceiveAnswer ==
    /\ pc = "waiting" /\ lines # <<>>
    /\ Head(lines).what \in {"ok", "err"}
    /\ Finish(Head(lines).what)
    /\ credited' = [credited EXCEPT ![req] = Head(lines).to]
    /\ lines' = Tail(lines)
    /\ UNCHANGED <<session, failed, skipped, warnings, starts,
                   queued, writeFailed, pipe, provider>>

(* Mutant of ReceiveFailure: a bad line fails its request only.            *)
ReceiveFailure_keeps_session ==
    /\ pc = "waiting" /\ lines # <<>>
    /\ Head(lines).what \notin {"ok", "err"}
    /\ Finish("malformed")
    /\ lines' = Tail(lines)
    /\ failed' = failed + 1
    /\ UNCHANGED <<session, skipped, warnings, starts, credited,
                   queued, writeFailed, pipe, provider>>

(* An oversized line, one that is no message, an Ok that does not fit the  *)
(* request, or the end of the provider's output.                           *)
ReceiveFailure ==
    /\ pc = "waiting" /\ lines # <<>>
    /\ Head(lines).what \notin {"ok", "err"}
    /\ FailAndCount(IF Head(lines).what = "eof" THEN "exited" ELSE "malformed")

(* Mutant of AnswerTimesOut: the timeout fails the request and leaves the  *)
(* provider to answer late.                                                *)
AnswerTimesOut_keeps_session ==
    /\ pc = "waiting" /\ lines = <<>>
    /\ Finish("timeout")
    /\ failed' = failed + 1
    /\ UNCHANGED <<session, skipped, warnings, starts, credited, channels, provider>>

AnswerTimesOut ==
    /\ pc = "waiting" /\ lines = <<>>
    /\ FailAndCount("timeout")

(* The command ends: the supervisor is dropped, and its session with it.   *)
Drop ==
    /\ pc = "idle"
    /\ pc' = "dropped"
    /\ kill
    /\ UNCHANGED <<req, failed, skipped, warnings, starts, outcome, credited>>

(***************************************************************************)
(* The provider process and the two threads at the pipes.                  *)
(***************************************************************************)

Write(what, to) == pipe' = Append(pipe, [what |-> what, to |-> to])

ProviderHello ==
    /\ proc = "starting"
    /\ \E what \in {"hello", "badHello"} : Write(what, 0)
    /\ proc' = "running"
    /\ UNCHANGED <<supervisor, queued, writeFailed, lines, handling, strays>>

ProviderReads ==
    /\ proc = "running" /\ handling = 0 /\ queued # <<>>
    /\ handling' = Head(queued)
    /\ queued' = Tail(queued)
    /\ UNCHANGED <<supervisor, writeFailed, pipe, lines, proc, strays>>

ProviderAnswers ==
    /\ proc = "running" /\ handling # 0
    /\ \E what \in {"ok", "err", "bad"} : Write(what, handling)
    /\ handling' = 0
    /\ UNCHANGED <<supervisor, queued, writeFailed, lines, proc, strays>>

(* A line for no request: a well-formed one, or one that is no message.    *)
ProviderStrays ==
    /\ proc = "running" /\ strays < MaxStray
    /\ \E what \in {"ok", "bad"} : Write(what, 0)
    /\ strays' = strays + 1
    /\ UNCHANGED <<supervisor, queued, writeFailed, lines, proc, handling>>

ProviderExits ==
    /\ proc \in {"starting", "running"}
    /\ Write("eof", 0)
    /\ proc' = "exited"
    /\ handling' = 0
    /\ UNCHANGED <<supervisor, queued, writeFailed, lines, strays>>

ReaderThread ==
    /\ pipe # <<>>
    /\ lines' = Append(lines, Head(pipe))
    /\ pipe' = Tail(pipe)
    /\ UNCHANGED <<supervisor, queued, writeFailed, provider>>

WriterThreadFails ==
    /\ proc = "exited" /\ queued # <<>>
    /\ writeFailed' = TRUE
    /\ queued' = <<>>
    /\ UNCHANGED <<supervisor, pipe, lines, provider>>

-----------------------------------------------------------------------------

ClientStep ==
    \/ UseSession \/ NotRestarted \/ Spawn \/ CannotSpawn
    \/ ReceiveHello \/ HelloFails \/ HelloTimesOut
    \/ RequestInvalid \/ Send \/ SendFails
    \/ ReceiveAnswer \/ ReceiveFailure \/ AnswerTimesOut

ProviderStep ==
    \/ ProviderHello \/ ProviderReads \/ ProviderAnswers \/ ProviderStrays \/ ProviderExits
    \/ ReaderThread \/ WriterThreadFails

Terminated == pc = "dropped" /\ UNCHANGED vars

Next == WatchIdle \/ RequestSkipped \/ Request \/ ClientStep \/ Drop \/ ProviderStep
            \/ Terminated

Spec == Init /\ [][Next]_vars

(* The client's thread runs while a request is being made: every wait in   *)
(* it has a deadline. Nothing is assumed of the provider or the threads.   *)
FairSpec == Spec /\ WF_vars(ClientStep)

-----------------------------------------------------------------------------
(* Properties.                                                             *)

(* An answer a request is given was written for it, as long as the         *)
(* provider wrote no line for no request: a late answer to a request that  *)
(* timed out never reaches a later one, across restarts.                   *)
AnswersMatch ==
    strays = 0 => \A r \in Requests : outcome[r] \in {"ok", "err"} => credited[r] = r

(* Whatever the provider writes, the answer to a request that failed       *)
(* (timeout, stray line, dead pipe) is lost with its session: it is never  *)
(* what another request is given.                                          *)
FailedAnswersLost ==
    \A r \in Requests : credited[r] # 0 => outcome[credited[r]] \in {"ok", "err"}

(* Every session that counted toward the limit was heard of: it failed     *)
(* exactly one request or was warned about, and nothing else counts.       *)
FailuresAccounted ==
    failed = warnings + Cardinality({r \in Requests : outcome[r] \in Failures})

(* No more sessions than the limit ever end in a failure that counts.      *)
FailedBounded == failed <= FailedSessionsBeforeNoRestart

(* The supervisor does what the policy's table says of restarts.           *)
Restarts == INSTANCE ProviderRestarts WITH
    kills <- failed,
    session_open <- session \/ pc = "hello"
ImplementsRestarts == Restarts!Spec

(* Every request ends, whatever the provider does or fails to do.          *)
RequestsEnd == \A r \in Requests : req = r ~> outcome[r] # "none"

(* "a stray line ... counts, and fails nothing".                           *)
StrayLineFailsNothing == \A r \in Requests : outcome[r] # "strayLine"
=============================================================================
