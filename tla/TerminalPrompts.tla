--------------------------- MODULE TerminalPrompts ---------------------------
(***************************************************************************)
(* A provider process and the person's terminal (examples/providers/lib,   *)
(* context.js and protocol.js): lines from npm are handled one after the   *)
(* other, and a handler may put questions on the terminal, each with a     *)
(* deadline. A question begins with a flush: for 30 ms, in raw mode, what  *)
(* was typed ahead is read and thrown away. A line is then read with the   *)
(* terminal echoing, a secret in raw mode. A deadline that passes in the   *)
(* flush of a line leaves the flush to run out by itself, beside whatever  *)
(* the handler does next.                                                  *)
(***************************************************************************)
EXTENDS Naturals

CONSTANTS MaxLines, MaxPrompts  \* bounds

ASSUME BoundAssumption == MaxLines \in Nat /\ MaxPrompts \in Nat

Prompts == 1..MaxPrompts

VARIABLES
    canRaw,        \* whether the terminal can be put in raw mode
    echo, ahead,   \* the terminal: it echoes, and holds keys nobody has read
    up,            \* the process
    lines,         \* lines read from npm (bounded)
    handling,      \* a request is being handled
    waits,         \* the prompt its handler waits for, or 0
    opened,        \* prompts so far (bounded)
    kind, step,    \* of each prompt
    rawTerminals,  \* the prompts that have turned raw mode on
    found,         \* of each prompt: whether its raw mode found the terminal echoing
    handlers,      \* the exit and SIGTERM handlers are installed
    overlapped     \* a prompt was opened in the flush of another (history)

terminal == <<canRaw, echo, ahead>>
session  == <<up, lines, handling, waits>>
prompts  == <<opened, kind, step, overlapped>>
guard    == <<rawTerminals, found, handlers>>
vars     == <<terminal, session, prompts, guard>>

TypeOK ==
    /\ canRaw \in BOOLEAN /\ echo \in BOOLEAN /\ ahead \in BOOLEAN
    /\ up \in {"running", "ended", "killed"}
    /\ lines \in 0..MaxLines /\ handling \in BOOLEAN
    /\ opened \in 0..MaxPrompts /\ waits \in 0..opened
    /\ kind \in [Prompts -> {"line", "secret"}] /\ step \in [Prompts -> {"none", "flush", "asked", "over"}]
    /\ rawTerminals \subseteq Prompts /\ found \in [Prompts -> BOOLEAN] /\ handlers \in BOOLEAN
    /\ overlapped \in BOOLEAN

Init ==
    /\ canRaw \in BOOLEAN /\ echo = TRUE /\ ahead \in BOOLEAN
    /\ up = "running" /\ lines = 0 /\ handling = FALSE /\ waits = 0
    /\ opened = 0 /\ kind = [n \in Prompts |-> "line"] /\ step = [n \in Prompts |-> "none"]
    /\ rawTerminals = {} /\ found = [n \in Prompts |-> TRUE] /\ handlers = FALSE /\ overlapped = FALSE

Flushing(n) == step[n] = "flush"
Asked       == \E n \in Prompts : step[n] = "asked"

-----------------------------------------------------------------------------
(* serve                                                                   *)

(* What is read up to a newline. A blank line is passed over, one over the *)
(* limit or that is no valid request is answered at once.                  *)
Lines == {"blank", "oversized", "malformed", "request"}

Handled(line) == line = "request"

ReadLine(line) ==
    /\ up = "running" /\ ~handling /\ lines < MaxLines
    /\ lines' = lines + 1 /\ handling' = Handled(line)
    /\ UNCHANGED <<up, waits, terminal, prompts, guard>>

Answer ==
    /\ up = "running" /\ handling /\ waits = 0 /\ handling' = FALSE
    /\ UNCHANGED <<up, lines, waits, terminal, prompts, guard>>

-----------------------------------------------------------------------------
(* guardRawMode, and the function it returns. Raw mode is the terminal's,  *)
(* whichever stream turns it on or off. Off is echoing on Windows, and the *)
(* mode that was found elsewhere.                                          *)

Echoes(n) == {TRUE, found[n]}

SetRaw(n) ==
    /\ echo' = FALSE /\ found' = [found EXCEPT ![n] = echo]
    /\ rawTerminals' = rawTerminals \cup {n}
    /\ handlers' = (handlers \/ rawTerminals = {})

Release(n) ==
    /\ echo' \in Echoes(n) /\ UNCHANGED found
    /\ rawTerminals' = rawTerminals \ {n}
    /\ handlers' = (handlers /\ rawTerminals \ {n} # {})

Step(n, what) == step' = [step EXCEPT ![n] = what]

(* Mutant of Settle: a prompt that is given up leaves the mode as it is.   *)
Settle_keeps_raw(n) ==
    /\ Step(n, "over") /\ waits' = 0
    /\ rawTerminals' = rawTerminals \ {n}
    /\ handlers' = (handlers /\ rawTerminals \ {n} # {})
    /\ UNCHANGED <<echo, found>>

(* The read ends: the stream is destroyed, and raw mode with it.           *)
Settle(n) ==
    /\ Step(n, "over") /\ waits' = 0
    /\ IF n \in rawTerminals THEN Release(n) ELSE UNCHANGED <<echo, guard>>

(* The question cannot be written: the caller is told.                     *)
Shown(n) == Step(n, "asked") /\ UNCHANGED waits

StartFlush(n) == Step(n, "flush") /\ SetRaw(n)

(* A secret is asked for as a line, and the person told, where the         *)
(* terminal has no raw mode; nothing is flushed there.                     *)
Open(secret) ==
    /\ up = "running" /\ handling /\ waits = 0 /\ opened < MaxPrompts
    /\ LET n == opened + 1 IN
       /\ opened' = n
       /\ overlapped' = (overlapped \/ \E m \in Prompts : Flushing(m))
       /\ IF canRaw
          THEN /\ kind' = [kind EXCEPT ![n] = IF secret THEN "secret" ELSE "line"]
               /\ waits' = n /\ StartFlush(n)
          ELSE /\ UNCHANGED <<kind, echo, guard>>
               /\ \/ waits' = n /\ Step(n, "asked")
                  \/ waits' = 0 /\ Step(n, "over")
    /\ UNCHANGED <<canRaw, ahead, up, lines, handling>>

(* The flush reads what the terminal gives: in raw mode every key.         *)
Discarded == ahead' = (ahead /\ echo)

(* Timers of one duration fire in the order they were set in.              *)
NextFlush(n) == up = "running" /\ Flushing(n) /\ \A m \in Prompts : Flushing(m) => n <= m

(* Mutant of LineFlushed: the deadline is not looked at after the flush.   *)
LineFlushed_asks_anyway(n) ==
    /\ NextFlush(n) /\ kind[n] = "line" /\ Discarded /\ Release(n)
    /\ Step(n, "asked") /\ UNCHANGED waits
    /\ UNCHANGED <<canRaw, up, lines, handling, opened, kind, overlapped>>

(* readTerminalLine goes on, unless it has been given up; writing the      *)
(* question may fail.                                                      *)
LineFlushed(n) ==
    /\ NextFlush(n) /\ kind[n] = "line" /\ Discarded /\ Release(n)
    /\ IF waits # n THEN Step(n, "over") /\ UNCHANGED waits
       ELSE Shown(n) \/ (Step(n, "over") /\ waits' = 0)
    /\ UNCHANGED <<canRaw, up, lines, handling, opened, kind, overlapped>>

(* Mutant of SecretFlushed: raw mode ends with the flush.                  *)
SecretFlushed_releases(n) ==
    /\ NextFlush(n) /\ kind[n] = "secret" /\ Discarded /\ Shown(n) /\ Release(n)
    /\ UNCHANGED <<canRaw, up, lines, handling, opened, kind, overlapped>>

(* readSecretLine stays in raw mode, and reads from now on.                *)
SecretFlushed(n) ==
    /\ NextFlush(n) /\ kind[n] = "secret" /\ Discarded
    /\ \/ Shown(n) /\ UNCHANGED <<echo, guard>>
       \/ Settle(n)
    /\ UNCHANGED <<canRaw, up, lines, handling, opened, kind, overlapped>>

(* The line is over: Enter, the end of the input, or Ctrl-C in raw mode.   *)
(* What else was in the terminal's buffer goes with it.                    *)
Typed(n) ==
    /\ up = "running" /\ step[n] = "asked" /\ Settle(n) /\ ahead' = FALSE
    /\ UNCHANGED <<canRaw, up, lines, handling, opened, kind, overlapped>>

(* withDeadline: the handler has its null. The read is aborted, and leaves *)
(* a half-typed line to the terminal; a flush for a line runs on.          *)
GiveUp(n) ==
    /\ up = "running" /\ waits = n
    /\ IF Flushing(n) /\ kind[n] = "line"
       THEN waits' = 0 /\ UNCHANGED <<step, echo, guard, ahead>>
       ELSE Settle(n) /\ ahead' \in {ahead, kind[n] = "line"}
    /\ UNCHANGED <<canRaw, up, lines, handling, opened, kind, overlapped>>

(* Keys that answer no question.                                           *)
TypeAhead ==
    /\ up = "running" /\ ~Asked /\ ahead' = TRUE
    /\ UNCHANGED <<canRaw, echo, session, prompts, guard>>

(* The process ends with its input, is gone with its client, or is ended   *)
(* by SIGTERM: what is left in raw mode is restored, if anything is there  *)
(* to do it. SIGKILL runs no handler.                                      *)
Exit ==
    /\ up = "running" /\ up' = "ended"
    /\ IF handlers /\ rawTerminals # {}
       THEN rawTerminals' = {} /\ \E n \in rawTerminals : echo' \in Echoes(n)
       ELSE UNCHANGED <<rawTerminals, echo>>
    /\ UNCHANGED <<canRaw, ahead, lines, handling, waits, prompts, found, handlers>>

Kill ==
    /\ up = "running" /\ up' = "killed"
    /\ UNCHANGED <<terminal, lines, handling, waits, prompts, guard>>

Ended == up # "running" /\ UNCHANGED vars

Next ==
    \/ \E line \in Lines : ReadLine(line)
    \/ Answer \/ TypeAhead \/ Exit \/ Kill \/ Ended
    \/ \E secret \in BOOLEAN : Open(secret)
    \/ \E n \in Prompts : LineFlushed(n) \/ SecretFlushed(n) \/ Typed(n) \/ GiveUp(n)

Spec == Init /\ [][Next]_vars

-----------------------------------------------------------------------------

(* As long as no prompt is opened in the flush of one that was given up, a *)
(* terminal that does not echo is one that a running process will give     *)
(* back, however it ends but by SIGKILL; and always the handlers are there *)
(* exactly as long as they are needed (guardRawMode, context.js:451).      *)
TerminalGivenBack ==
    /\ up = "running" => (handlers <=> rawTerminals # {})
    /\ ~overlapped => /\ up = "running" => (~echo => handlers)
                      /\ up = "ended" => echo

(* A question stands on the terminal only while its handler waits for it:  *)
(* one that was given up is not asked afterwards, and no two are asked at  *)
(* a time (readTerminalLine, readSecretLine, withDeadline).                *)
NothingAskedLate == up = "running" => \A n \in Prompts : step[n] = "asked" => waits = n

(* A secret is typed unseen, where the terminal can do that. Stated of all *)
(* executions by readSecretLine ("`setRawMode` turns echo off for as long  *)
(* as the read lasts", context.js:521); an overlap refutes it.             *)
SecretHidden ==
    up = "running" => \A n \in Prompts : step[n] = "asked" /\ kind[n] = "secret" => ~echo

(* As long as no prompt is opened in the flush of one that was given up, a *)
(* secret is typed unseen, and no question is answered by what was typed   *)
(* before it (flushTypeAhead, discardBuffered).                            *)
PromptsUndisturbed ==
    ~overlapped => /\ SecretHidden
                   /\ canRaw /\ up = "running" => \A n \in Prompts : step[n] = "asked" => ~ahead
=============================================================================
