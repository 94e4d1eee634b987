----------------------- MODULE TerminalPromptsProofs -----------------------
(***************************************************************************)
(* The properties of TerminalPrompts for any number of lines and prompts.  *)
(***************************************************************************)
EXTENDS TerminalPrompts, TLAPS

(* Which prompts have raw mode on, and which one the handler waits for: a  *)
(* flush, or the read of a secret; only a line's flush outlives its wait.  *)
StepInv ==
    /\ \A n \in Prompts : n > opened => step[n] = "none"
    /\ \A n \in Prompts : n \in rawTerminals <=> step[n] = "flush" \/ (step[n] = "asked" /\ kind[n] = "secret" /\ canRaw)
    /\ \A n \in Prompts : step[n] = "flush" /\ kind[n] = "secret" => waits = n
    /\ \A n \in Prompts : step[n] = "flush" => canRaw
    /\ ~canRaw => \A n \in Prompts : kind[n] = "line"

WaitInv ==
    /\ \A n \in Prompts : step[n] = "asked" => waits = n
    /\ waits # 0 => step[waits] \in {"flush", "asked"}
    /\ waits # 0 => handling

(* Until an overlap one stream at most has raw mode on, the one the        *)
(* handler waits for if it waits, and it found the terminal echoing.       *)
OneRaw ==
    /\ \A m, n \in rawTerminals : m = n
    /\ waits # 0 => rawTerminals \subseteq {waits}
    /\ \A n \in Prompts : found[n]
    /\ up = "running" => (echo <=> rawTerminals = {})
    /\ up = "ended" => echo
    /\ canRaw => \A n \in Prompts : step[n] = "asked" => ~ahead

RawInv ==
    /\ up = "running" => (handlers <=> rawTerminals # {})
    /\ ~overlapped => OneRaw

(* The running process, about which alone StepInv and WaitInv speak.       *)
Inv == TypeOK /\ RawInv /\ (up = "running" => StepInv /\ WaitInv)

(* The parts of the type invariant: a number, a truth value, and the rest. *)
NumbersOK == lines \in 0..MaxLines /\ opened \in 0..MaxPrompts /\ waits \in 0..opened
FlagsOK   == /\ canRaw \in BOOLEAN /\ echo \in BOOLEAN /\ ahead \in BOOLEAN
             /\ handling \in BOOLEAN /\ handlers \in BOOLEAN /\ overlapped \in BOOLEAN
PromptsOK == /\ up \in {"running", "ended", "killed"}
             /\ kind \in [Prompts -> {"line", "secret"}]
             /\ step \in [Prompts -> {"none", "flush", "asked", "over"}]
             /\ rawTerminals \subseteq Prompts /\ found \in [Prompts -> BOOLEAN]

-----------------------------------------------------------------------------

LEMMA TypeParts == TypeOK <=> NumbersOK /\ FlagsOK /\ PromptsOK
BY DEF TypeOK, NumbersOK, FlagsOK, PromptsOK

LEMMA TypeInit == Init => TypeOK
<1> SUFFICES ASSUME Init PROVE NumbersOK /\ FlagsOK /\ PromptsOK
  BY TypeParts
<1>1. lines = 0 /\ opened = 0 /\ waits = 0
  BY DEF Init
<1>2. NumbersOK
  BY <1>1, BoundAssumption DEF NumbersOK
<1>3. FlagsOK
  BY DEF Init, FlagsOK
<1>4. PromptsOK
  BY DEF Init, PromptsOK
<1> QED BY <1>2, <1>3, <1>4

LEMMA TypeStep == TypeOK /\ [Next]_vars => TypeOK'
<1> SUFFICES ASSUME NumbersOK, FlagsOK, PromptsOK, [Next]_vars
             PROVE  NumbersOK' /\ FlagsOK' /\ PromptsOK'
  BY DEF TypeOK, NumbersOK, FlagsOK, PromptsOK
<1> USE DEF terminal, session, prompts, guard
<1>1. ASSUME NEW line \in Lines, ReadLine(line) PROVE NumbersOK' /\ FlagsOK' /\ PromptsOK'
  <2>1. NumbersOK'
    BY <1>1, BoundAssumption DEF ReadLine, NumbersOK
  <2>2. FlagsOK'
    BY <1>1 DEF ReadLine, Handled, FlagsOK, PromptsOK
  <2>3. PromptsOK'
    BY <1>1 DEF ReadLine, Handled, FlagsOK, PromptsOK, NumbersOK
  <2> QED BY <2>1, <2>2, <2>3
<1>2. ASSUME Answer PROVE NumbersOK' /\ FlagsOK' /\ PromptsOK'
  <2>1. NumbersOK'
    BY <1>2, BoundAssumption DEF Answer, NumbersOK
  <2>2. FlagsOK'
    BY <1>2 DEF Answer, FlagsOK, PromptsOK
  <2>3. PromptsOK'
    BY <1>2 DEF Answer, FlagsOK, PromptsOK, NumbersOK
  <2> QED BY <2>1, <2>2, <2>3
<1>3. ASSUME TypeAhead PROVE NumbersOK' /\ FlagsOK' /\ PromptsOK'
  <2>1. NumbersOK'
    BY <1>3, BoundAssumption DEF TypeAhead, NumbersOK
  <2>2. FlagsOK'
    BY <1>3 DEF TypeAhead, FlagsOK, PromptsOK
  <2>3. PromptsOK'
    BY <1>3 DEF TypeAhead, FlagsOK, PromptsOK, NumbersOK
  <2> QED BY <2>1, <2>2, <2>3
<1>4. ASSUME Exit PROVE NumbersOK' /\ FlagsOK' /\ PromptsOK'
  <2>1. NumbersOK'
    BY <1>4, BoundAssumption DEF Exit, Echoes, NumbersOK
  <2>2. FlagsOK'
    BY <1>4 DEF Exit, Echoes, FlagsOK, PromptsOK
  <2>3. PromptsOK'
    BY <1>4 DEF Exit, Echoes, FlagsOK, PromptsOK, NumbersOK
  <2> QED BY <2>1, <2>2, <2>3
<1>5. ASSUME Kill PROVE NumbersOK' /\ FlagsOK' /\ PromptsOK'
  <2>1. NumbersOK'
    BY <1>5, BoundAssumption DEF Kill, NumbersOK
  <2>2. FlagsOK'
    BY <1>5 DEF Kill, FlagsOK, PromptsOK
  <2>3. PromptsOK'
    BY <1>5 DEF Kill, FlagsOK, PromptsOK, NumbersOK
  <2> QED BY <2>1, <2>2, <2>3
<1>6. ASSUME NEW secret \in BOOLEAN, Open(secret) PROVE NumbersOK' /\ FlagsOK' /\ PromptsOK'
  <2>1. NumbersOK'
    BY <1>6, BoundAssumption DEF Open, StartFlush, SetRaw, Step, NumbersOK, Prompts
  <2>2. FlagsOK'
    BY <1>6 DEF Open, StartFlush, SetRaw, Step, FlagsOK, PromptsOK
  <2>3. PromptsOK'
    <3>1. opened + 1 \in Prompts
      BY <1>6, BoundAssumption DEF Open, NumbersOK, Prompts
    <3>2. up' = up /\ kind' \in [Prompts -> {"line", "secret"}]
      BY <1>6, <3>1 DEF Open, PromptsOK
    <3>3. step' \in [Prompts -> {"none", "flush", "asked", "over"}]
      BY <1>6, <3>1 DEF Open, StartFlush, PromptsOK, Step
    <3>4. rawTerminals' \subseteq Prompts /\ found' \in [Prompts -> BOOLEAN]
      BY <1>6, <3>1 DEF Open, StartFlush, PromptsOK, FlagsOK, SetRaw
    <3> QED BY <3>2, <3>3, <3>4 DEF PromptsOK
  <2> QED BY <2>1, <2>2, <2>3
<1>7. ASSUME NEW n \in Prompts, LineFlushed(n) PROVE NumbersOK' /\ FlagsOK' /\ PromptsOK'
  <2>1. NumbersOK'
    BY <1>7, BoundAssumption DEF LineFlushed, NextFlush, Flushing, Discarded, Release, Echoes, Step, Shown, NumbersOK
  <2>2. FlagsOK'
    BY <1>7 DEF LineFlushed, NextFlush, Flushing, Discarded, Release, Echoes, Step, Shown, FlagsOK, PromptsOK
  <2>3. PromptsOK'
    BY <1>7 DEF LineFlushed, NextFlush, Flushing, Discarded, Release, Echoes, Step, Shown, FlagsOK, PromptsOK, NumbersOK
  <2> QED BY <2>1, <2>2, <2>3
<1>8. ASSUME NEW n \in Prompts, SecretFlushed(n) PROVE NumbersOK' /\ FlagsOK' /\ PromptsOK'
  <2>1. NumbersOK'
    <3>1. lines' = lines /\ opened' = opened /\ (waits' = waits \/ waits' = 0)
      BY <1>8 DEF SecretFlushed, Settle, Shown
    <3> QED BY <3>1, BoundAssumption DEF NumbersOK
  <2>2. FlagsOK'
    BY <1>8 DEF SecretFlushed, NextFlush, Flushing, Discarded, Settle, Release, Echoes, Step, Shown, FlagsOK, PromptsOK
  <2>3. PromptsOK'
    BY <1>8 DEF SecretFlushed, NextFlush, Flushing, Discarded, Settle, Release, Echoes, Step, Shown, FlagsOK, PromptsOK, NumbersOK
  <2> QED BY <2>1, <2>2, <2>3
<1>9. ASSUME NEW n \in Prompts, Typed(n) PROVE NumbersOK' /\ FlagsOK' /\ PromptsOK'
  <2>1. NumbersOK'
    BY <1>9, BoundAssumption DEF Typed, Settle, Release, Echoes, Step, NumbersOK
  <2>2. FlagsOK'
    BY <1>9 DEF Typed, Settle, Release, Echoes, Step, FlagsOK, PromptsOK
  <2>3. PromptsOK'
    BY <1>9 DEF Typed, Settle, Release, Echoes, Step, FlagsOK, PromptsOK, NumbersOK
  <2> QED BY <2>1, <2>2, <2>3
<1>10. ASSUME NEW n \in Prompts, GiveUp(n) PROVE NumbersOK' /\ FlagsOK' /\ PromptsOK'
  <2>1. NumbersOK'
    <3>1. lines' = lines /\ opened' = opened /\ (waits' = waits \/ waits' = 0)
      BY <1>10 DEF GiveUp, Settle, Shown
    <3> QED BY <3>1, BoundAssumption DEF NumbersOK
  <2>2. FlagsOK'
    BY <1>10 DEF GiveUp, Flushing, Settle, Release, Echoes, Step, FlagsOK, PromptsOK
  <2>3. PromptsOK'
    BY <1>10 DEF GiveUp, Flushing, Settle, Release, Echoes, Step, FlagsOK, PromptsOK, NumbersOK
  <2> QED BY <2>1, <2>2, <2>3
<1>11. CASE Ended \/ UNCHANGED vars
  BY <1>11 DEF Ended, vars, NumbersOK, FlagsOK, PromptsOK
<1> QED BY <1>1, <1>2, <1>3, <1>4, <1>5, <1>6, <1>7, <1>8, <1>9, <1>10, <1>11 DEF Next

-----------------------------------------------------------------------------
(* The invariant.                                                          *)

LEMMA InvInit == Init => Inv
<1> SUFFICES ASSUME Init PROVE RawInv /\ StepInv /\ WaitInv
  BY TypeInit DEF Inv
<1>1. RawInv
  BY DEF Init, RawInv, OneRaw
<1>2. StepInv
  BY DEF Init, StepInv
<1>3. WaitInv
  BY DEF Init, WaitInv
<1> QED BY <1>1, <1>2, <1>3

(* Raw mode ends with the one stream that has it, and the terminal echoes  *)
(* as it was found.                                                        *)
LEMMA ReleaseEnds ==
    ASSUME TypeOK, RawInv, up = "running", NEW n \in Prompts,
           (n \in rawTerminals /\ Release(n)) \/ (n \notin rawTerminals /\ UNCHANGED <<echo, guard>>)
    PROVE  /\ handlers' <=> rawTerminals' # {}
           /\ ~overlapped /\ rawTerminals \subseteq {n} =>
                 rawTerminals' = {} /\ echo' = TRUE /\ found' = found /\ \A m \in Prompts : found[m]
<1>1. handlers <=> rawTerminals # {}
  BY DEF RawInv
<1>2. CASE n \in rawTerminals /\ Release(n)
  <2>1. handlers' <=> rawTerminals' # {}
    BY <1>1, <1>2 DEF Release, TypeOK
  <2>2. ASSUME ~overlapped, rawTerminals \subseteq {n}
        PROVE  rawTerminals' = {} /\ echo' = TRUE /\ found' = found /\ \A m \in Prompts : found[m]
    BY <1>2, <2>2 DEF Release, Echoes, RawInv, OneRaw, TypeOK
  <2> QED BY <2>1, <2>2
<1>3. CASE n \notin rawTerminals /\ UNCHANGED <<echo, guard>>
  BY <1>1, <1>3 DEF RawInv, OneRaw, TypeOK, guard
<1> QED BY <1>2, <1>3

(* A prompt that its handler waits for is over.                            *)
LEMMA SettleKeeps ==
    ASSUME Inv, up = "running", NEW n \in Prompts, waits = n, Settle(n),
           UNCHANGED <<canRaw, up, overlapped>>
    PROVE  (handlers' <=> rawTerminals' # {}) /\ (~overlapped => OneRaw')
<1>1. (n \in rawTerminals /\ Release(n)) \/ (n \notin rawTerminals /\ UNCHANGED <<echo, guard>>)
  BY DEF Settle
<1>2. handlers' <=> rawTerminals' # {}
  BY <1>1, ReleaseEnds DEF Inv
<1>3. ASSUME ~overlapped PROVE OneRaw'
  <2>1. rawTerminals \subseteq {n}
    BY <1>3, BoundAssumption DEF Inv, RawInv, OneRaw, Prompts
  <2>2. rawTerminals' = {} /\ echo' = TRUE /\ found' = found /\ \A m \in Prompts : found[m]
    BY <1>1, <1>3, <2>1, ReleaseEnds DEF Inv
  <2>3. \A m \in Prompts : step'[m] # "asked"
    BY DEF Settle, Step, Inv, WaitInv, TypeOK
  <2> QED BY <2>2, <2>3 DEF OneRaw
<1> QED BY <1>2, <1>3

(* When the prompt that is waited for is over, no question is left.        *)
LEMMA SettleSteps ==
    ASSUME TypeOK, StepInv, WaitInv, NEW n \in Prompts, waits = n, Settle(n),
           UNCHANGED <<canRaw, opened, kind, handling>>
    PROVE  StepInv' /\ WaitInv'
<1>1. /\ step' = [step EXCEPT ![n] = "over"] /\ waits' = 0
      /\ rawTerminals' = rawTerminals \ {n}
  BY DEF Settle, Step, Release, guard
<1>2. step'[n] = "over" /\ \A m \in Prompts : m # n => step'[m] = step[m]
  BY <1>1 DEF TypeOK
<1>3. opened \in 0..MaxPrompts /\ waits \in 0..opened /\ n # 0 /\ ~(n > opened)
  BY BoundAssumption DEF TypeOK, Prompts
<1>4. \A m \in Prompts : m > opened' => step'[m] = "none"
  BY <1>2, <1>3 DEF StepInv
<1>5. \A m \in Prompts : m \in rawTerminals' <=>
         step'[m] = "flush" \/ (step'[m] = "asked" /\ kind'[m] = "secret" /\ canRaw')
  BY <1>1, <1>2 DEF StepInv
<1>6. \A m \in Prompts : ~(step'[m] = "flush" /\ kind'[m] = "secret")
  BY <1>2 DEF StepInv
<1>7. \A m \in Prompts : step'[m] # "asked"
  BY <1>2 DEF WaitInv
<1>8. StepInv'
  BY <1>2, <1>4, <1>5, <1>6 DEF StepInv
<1>9. WaitInv'
  BY <1>1, <1>7 DEF WaitInv
<1> QED BY <1>8, <1>9

LEMMA InvStep == Inv /\ [Next]_vars => Inv'
<1> SUFFICES ASSUME Inv, [Next]_vars
             PROVE  RawInv' /\ (up' = "running" => StepInv' /\ WaitInv')
  BY TypeStep DEF Inv
<1> USE DEF terminal, session, prompts, guard
<1>1. ASSUME NEW line \in Lines, ReadLine(line) PROVE RawInv' /\ StepInv' /\ WaitInv'
  <2>1. up = "running" /\ StepInv /\ WaitInv /\ RawInv
    BY <1>1 DEF Inv, ReadLine
  <2>2. StepInv'
    BY <1>1, <2>1 DEF ReadLine, StepInv, WaitInv, Inv, TypeOK
  <2>3. WaitInv'
    BY <1>1, <2>1 DEF ReadLine, StepInv, WaitInv, Inv, TypeOK
  <2>4. RawInv'
    BY <1>1, <2>1 DEF ReadLine, StepInv, WaitInv, RawInv, OneRaw, Inv, TypeOK
  <2> QED BY <2>2, <2>3, <2>4
<1>2. ASSUME Answer PROVE RawInv' /\ StepInv' /\ WaitInv'
  <2>1. up = "running" /\ StepInv /\ WaitInv /\ RawInv
    BY <1>2 DEF Inv, Answer
  <2>2. StepInv'
    BY <1>2, <2>1 DEF Answer, StepInv, WaitInv, Inv, TypeOK
  <2>3. WaitInv'
    BY <1>2, <2>1 DEF Answer, StepInv, WaitInv, Inv, TypeOK
  <2>4. RawInv'
    BY <1>2, <2>1 DEF Answer, StepInv, WaitInv, RawInv, OneRaw, Inv, TypeOK
  <2> QED BY <2>2, <2>3, <2>4
<1>3. ASSUME TypeAhead PROVE RawInv' /\ StepInv' /\ WaitInv'
  <2>1. up = "running" /\ StepInv /\ WaitInv /\ RawInv
    BY <1>3 DEF Inv, TypeAhead, Asked
  <2>2. StepInv'
    BY <1>3, <2>1 DEF TypeAhead, Asked, StepInv, WaitInv, Inv, TypeOK
  <2>3. WaitInv'
    BY <1>3, <2>1 DEF TypeAhead, Asked, StepInv, WaitInv, Inv, TypeOK
  <2>4. RawInv'
    BY <1>3, <2>1 DEF TypeAhead, Asked, StepInv, WaitInv, RawInv, OneRaw, Inv, TypeOK
  <2> QED BY <2>2, <2>3, <2>4
<1>4. ASSUME NEW secret \in BOOLEAN, Open(secret) PROVE RawInv' /\ StepInv' /\ WaitInv'
  <2>1. up = "running" /\ StepInv /\ WaitInv /\ RawInv
    BY <1>4 DEF Inv, Open, SetRaw, Step
  <2> DEFINE n == opened + 1
  <2>2. /\ n \in Prompts /\ n # 0 /\ opened' = n
        /\ \A m \in Prompts : m > opened' => m > opened /\ m # n
        /\ n > opened
    BY <1>4, BoundAssumption DEF Open, Prompts, Inv, TypeOK
  <2>3. /\ handling /\ handling' /\ waits = 0 /\ UNCHANGED <<canRaw, ahead, up>>
        /\ \A m \in Prompts : step[m] # "asked"
        /\ step[n] = "none" /\ n \notin rawTerminals
    <3>1. handling /\ handling' = handling /\ waits = 0 /\ UNCHANGED <<canRaw, ahead, up>>
      BY <1>4 DEF Open
    <3>2. \A m \in Prompts : m # 0
      BY DEF Prompts
    <3>3. \A m \in Prompts : step[m] # "asked"
      BY <2>1, <3>1, <3>2 DEF WaitInv
    <3>4. step[n] = "none"
      BY <2>1, <2>2 DEF StepInv
    <3>5. n \notin rawTerminals
      BY <2>1, <2>2, <3>4 DEF StepInv
    <3> QED BY <3>1, <3>3, <3>4, <3>5
  <2> HIDE DEF n
  <2>4. CASE canRaw
    <3>1. /\ kind' = [kind EXCEPT ![n] = IF secret THEN "secret" ELSE "line"]
          /\ waits' = n /\ step' = [step EXCEPT ![n] = "flush"]
          /\ SetRaw(n)
      BY <1>4, <2>4 DEF Open, StartFlush, Step, n
    <3>2. StepInv'
      <4>1. step' \in [Prompts -> {"none", "flush", "asked", "over"}] /\ kind' \in [Prompts -> {"line", "secret"}]
        BY <2>2, <3>1 DEF Inv, TypeOK
      <4>2. /\ step'[n] = "flush" /\ waits' = n /\ rawTerminals' = rawTerminals \cup {n}
            /\ \A m \in Prompts : m # n => step'[m] = step[m] /\ kind'[m] = kind[m]
        BY <2>2, <3>1 DEF SetRaw, Inv, TypeOK
      <4>3. \A m \in Prompts : m > opened' => step'[m] = "none"
        BY <2>1, <2>2, <4>2 DEF StepInv
      <4>4. \A m \in Prompts : m \in rawTerminals' <=>
               step'[m] = "flush" \/ (step'[m] = "asked" /\ kind'[m] = "secret" /\ canRaw')
        BY <2>1, <2>3, <4>2 DEF StepInv
      <4>5. \A m \in Prompts : step'[m] = "flush" /\ kind'[m] = "secret" => waits' = m
        <5> SUFFICES ASSUME NEW m \in Prompts, m # n, step[m] = "flush", kind[m] = "secret" PROVE FALSE
          BY <4>2
        <5>1. waits = m
          BY <2>1 DEF StepInv
        <5> QED BY <2>3, <5>1 DEF Prompts
      <4> QED BY <2>3, <2>4, <4>3, <4>4, <4>5 DEF StepInv
    <3>3. WaitInv'
      BY <2>2, <2>3, <3>1 DEF WaitInv, Inv, TypeOK
    <3>4. handlers' <=> rawTerminals' # {}
      BY <2>1, <3>1 DEF RawInv, SetRaw
    <3>5. ASSUME ~overlapped' PROVE OneRaw'
      <4>1. ~overlapped /\ \A m \in Prompts : step[m] # "flush"
        BY <1>4, <3>5 DEF Open, Flushing
      <4>2. rawTerminals = {} /\ echo = TRUE
        BY <2>1, <2>3, <4>1 DEF StepInv, RawInv, OneRaw, Inv, TypeOK
      <4>3. rawTerminals' = {n} /\ echo' = FALSE /\ \A m \in Prompts : found'[m]
        BY <2>1, <2>2, <3>1, <4>1, <4>2 DEF SetRaw, RawInv, OneRaw, Inv, TypeOK
      <4>4. \A m \in Prompts : step'[m] # "asked"
        BY <2>2, <2>3, <3>1 DEF Inv, TypeOK
      <4> QED BY <2>1, <2>3, <3>1, <4>3, <4>4 DEF OneRaw
    <3> QED BY <3>2, <3>3, <3>4, <3>5 DEF RawInv
  <2>5. CASE ~canRaw
    <3>1. /\ UNCHANGED <<kind, echo, guard>>
          /\ \/ waits' = n /\ step' = [step EXCEPT ![n] = "asked"]
             \/ waits' = 0 /\ step' = [step EXCEPT ![n] = "over"]
      BY <1>4, <2>5 DEF Open, StartFlush, Step, n
    <3>2. StepInv'
      BY <2>1, <2>2, <2>3, <2>5, <3>1 DEF StepInv, Inv, TypeOK
    <3>3. WaitInv'
      BY <2>2, <2>3, <3>1 DEF WaitInv, Inv, TypeOK
    <3>4. rawTerminals = {}
      BY <2>1, <2>5 DEF StepInv, Inv, TypeOK
    <3>5. overlapped' = (overlapped \/ \E m \in Prompts : Flushing(m))
      BY <1>4 DEF Open
    <3>6. RawInv'
      BY <2>1, <2>3, <2>5, <3>1, <3>4, <3>5 DEF RawInv, OneRaw
    <3> QED BY <3>2, <3>3, <3>6
  <2> QED BY <2>4, <2>5
<1>5. ASSUME NEW n \in Prompts, LineFlushed(n) PROVE RawInv' /\ StepInv' /\ WaitInv'
  <2>1. up = "running" /\ StepInv /\ WaitInv /\ RawInv
    BY <1>5 DEF Inv, LineFlushed, NextFlush, Flushing, Discarded, Release, Echoes, Step, Shown
  <2>2. StepInv'
    <3>1. /\ step[n] = "flush" /\ kind[n] = "line" /\ UNCHANGED <<canRaw, opened, kind>>
          /\ rawTerminals' = rawTerminals \ {n} /\ waits' \in {0, waits}
      BY <1>5 DEF LineFlushed, NextFlush, Flushing, Release, Shown
    <3>2. step'[n] \in {"asked", "over"} /\ \A m \in Prompts : m # n => step'[m] = step[m]
      BY <1>5 DEF LineFlushed, Shown, Step, Inv, TypeOK
    <3>3. waits' = 0 => waits \in {0, n}
      BY <1>5 DEF LineFlushed, Shown
    <3>4. \A m \in Prompts : m > opened' => step'[m] = "none"
      BY <2>1, <3>1, <3>2 DEF StepInv
    <3>5. \A m \in Prompts : m \in rawTerminals' <=>
             step'[m] = "flush" \/ (step'[m] = "asked" /\ kind'[m] = "secret" /\ canRaw')
      BY <2>1, <3>1, <3>2 DEF StepInv
    <3>6. \A m \in Prompts : step'[m] = "flush" /\ kind'[m] = "secret" => waits' = m
      <4> SUFFICES ASSUME NEW m \in Prompts, m # n, step[m] = "flush", kind[m] = "secret" PROVE waits' = m
        BY <3>1, <3>2
      <4>1. waits = m /\ m # 0
        BY <2>1 DEF StepInv, Prompts
      <4> QED BY <3>1, <3>3, <4>1
    <3> QED BY <2>1, <3>1, <3>2, <3>4, <3>5, <3>6 DEF StepInv
  <2>3. WaitInv'
    <3>1. step[n] = "flush" /\ UNCHANGED handling
      BY <1>5 DEF LineFlushed, NextFlush, Flushing
    <3>2. CASE waits # n /\ step' = [step EXCEPT ![n] = "over"] /\ waits' = waits
      BY <2>1, <3>1, <3>2 DEF WaitInv, Inv, TypeOK
    <3>3. CASE waits = n /\ step' = [step EXCEPT ![n] = "asked"] /\ waits' = waits
      BY <2>1, <3>1, <3>3 DEF WaitInv, Inv, TypeOK
    <3>4. CASE waits = n /\ step' = [step EXCEPT ![n] = "over"] /\ waits' = 0
      BY <2>1, <3>1, <3>4 DEF WaitInv, Inv, TypeOK
    <3> QED BY <1>5, <3>2, <3>3, <3>4 DEF LineFlushed, Step, Shown
  <2>4. RawInv'
    <3>1. n \in rawTerminals /\ Release(n) /\ canRaw
      BY <1>5, <2>1 DEF LineFlushed, NextFlush, Flushing, StepInv
    <3>2. UNCHANGED <<canRaw, up, overlapped>>
      BY <1>5 DEF LineFlushed
    <3>3. handlers' <=> rawTerminals' # {}
      BY <2>1, <3>1, ReleaseEnds DEF Inv
    <3>4. ASSUME ~overlapped PROVE OneRaw'
      <4>1. rawTerminals \subseteq {n} /\ ~echo
        BY <2>1, <3>1, <3>4 DEF RawInv, OneRaw
      <4>2. rawTerminals' = {} /\ echo' = TRUE /\ found' = found /\ \A m \in Prompts : found[m]
        BY <2>1, <3>1, <3>4, <4>1, ReleaseEnds DEF Inv
      <4>3. ~ahead'
        BY <1>5, <4>1 DEF LineFlushed, Discarded
      <4> QED BY <2>1, <3>2, <4>2, <4>3 DEF OneRaw
    <3> QED BY <3>2, <3>3, <3>4 DEF RawInv
  <2> QED BY <2>2, <2>3, <2>4
<1>6. ASSUME NEW n \in Prompts, SecretFlushed(n) PROVE RawInv' /\ StepInv' /\ WaitInv'
  <2>1. up = "running" /\ StepInv /\ WaitInv /\ RawInv
    BY <1>6 DEF Inv, SecretFlushed, NextFlush
  <2>2. /\ step[n] = "flush" /\ kind[n] = "secret" /\ UNCHANGED <<canRaw, opened, kind, handling>>
        /\ waits = n
    BY <1>6, <2>1 DEF SecretFlushed, NextFlush, Flushing, StepInv
  <2>3. StepInv' /\ WaitInv'
    <3>1. CASE Settle(n)
      BY <2>1, <2>2, <3>1, SettleSteps DEF Inv
    <3>2. CASE Shown(n) /\ UNCHANGED <<echo, guard>>
      <4>1. step'[n] = "asked" /\ \A m \in Prompts : m # n => step'[m] = step[m]
        BY <3>2 DEF Shown, Step, Inv, TypeOK
      <4>2. UNCHANGED <<waits, rawTerminals>>
        BY <3>2 DEF Shown
      <4>3. StepInv'
        BY <2>1, <2>2, <4>1, <4>2 DEF StepInv
      <4>4. WaitInv'
        BY <2>1, <2>2, <4>1, <4>2 DEF WaitInv
      <4> QED BY <4>3, <4>4
    <3> QED BY <1>6, <3>1, <3>2 DEF SecretFlushed
  <2>4. RawInv'
    <3>1. waits = n /\ n \in rawTerminals /\ canRaw /\ UNCHANGED <<canRaw, up, overlapped>>
      BY <1>6, <2>1 DEF SecretFlushed, NextFlush, Flushing, StepInv
    <3>2. CASE Shown(n) /\ UNCHANGED <<echo, guard>>
      <4>1. ~overlapped => ~ahead'
        BY <1>6, <2>1, <3>1 DEF SecretFlushed, Discarded, RawInv, OneRaw
      <4> QED BY <2>1, <3>1, <3>2, <4>1 DEF RawInv, OneRaw, Shown
    <3>3. CASE Settle(n)
      <4>1. (handlers' <=> rawTerminals' # {}) /\ (~overlapped => OneRaw')
        BY <2>1, <3>1, <3>3, SettleKeeps
      <4> QED BY <3>1, <4>1 DEF RawInv
    <3> QED BY <1>6, <3>2, <3>3 DEF SecretFlushed
  <2> QED BY <2>3, <2>4
<1>7. ASSUME NEW n \in Prompts, Typed(n) PROVE RawInv' /\ StepInv' /\ WaitInv'
  <2>1. up = "running" /\ StepInv /\ WaitInv /\ RawInv
    BY <1>7 DEF Inv, Typed
  <2>2. waits = n /\ Settle(n) /\ UNCHANGED <<canRaw, opened, kind, handling>>
    BY <1>7, <2>1 DEF Typed, WaitInv
  <2>3. StepInv' /\ WaitInv'
    BY <2>1, <2>2, SettleSteps DEF Inv
  <2>4. RawInv'
    <3>1. waits = n /\ Settle(n) /\ UNCHANGED <<canRaw, up, overlapped>>
      BY <1>7, <2>1 DEF Typed, WaitInv
    <3>2. (handlers' <=> rawTerminals' # {}) /\ (~overlapped => OneRaw')
      BY <2>1, <3>1, SettleKeeps
    <3> QED BY <3>1, <3>2 DEF RawInv
  <2> QED BY <2>3, <2>4
<1>8. ASSUME NEW n \in Prompts, GiveUp(n) PROVE RawInv' /\ StepInv' /\ WaitInv'
  <2>1. up = "running" /\ StepInv /\ WaitInv /\ RawInv
    BY <1>8 DEF Inv, GiveUp
  <2>2. waits = n /\ UNCHANGED <<canRaw, up, opened, kind, handling, overlapped>>
    BY <1>8 DEF GiveUp
  <2>3. StepInv' /\ WaitInv'
    <3>1. CASE Settle(n)
      BY <2>1, <2>2, <3>1, SettleSteps DEF Inv
    <3>2. CASE Flushing(n) /\ kind[n] = "line" /\ waits' = 0 /\ UNCHANGED <<step, echo, guard, ahead>>
      <4>1. StepInv'
        BY <2>1, <2>2, <3>2 DEF StepInv, Flushing
      <4>2. \A m \in Prompts : step[m] # "asked"
        BY <2>1, <2>2, <3>2 DEF WaitInv, Flushing
      <4>3. WaitInv'
        BY <3>2, <4>2 DEF WaitInv
      <4> QED BY <4>1, <4>3
    <3> QED BY <1>8, <3>1, <3>2 DEF GiveUp
  <2>4. RawInv'
    <3>1. waits = n /\ UNCHANGED <<canRaw, up, overlapped>>
      BY <1>8 DEF GiveUp
    <3>2. CASE Flushing(n) /\ kind[n] = "line" /\ waits' = 0 /\ UNCHANGED <<step, echo, guard, ahead>>
      BY <2>1, <3>1, <3>2 DEF RawInv, OneRaw
    <3>3. CASE Settle(n)
      <4>1. (handlers' <=> rawTerminals' # {}) /\ (~overlapped => OneRaw')
        BY <2>1, <3>1, <3>3, SettleKeeps
      <4> QED BY <3>1, <4>1 DEF RawInv
    <3> QED BY <1>8, <3>2, <3>3 DEF GiveUp
  <2> QED BY <2>3, <2>4
<1>9. CASE Exit
  BY <1>9 DEF Inv, RawInv, OneRaw, Exit, Echoes, TypeOK
<1>10. CASE Kill
  BY <1>10 DEF Inv, RawInv, OneRaw, Kill
<1>11. CASE Ended \/ UNCHANGED vars
  BY <1>11 DEF Ended, vars, Inv, RawInv, OneRaw, StepInv, WaitInv
<1> QED BY <1>1, <1>2, <1>3, <1>4, <1>5, <1>6, <1>7, <1>8, <1>9, <1>10, <1>11 DEF Next

LEMMA Invariance == Spec => []Inv
BY InvInit, InvStep, PTL DEF Spec

-----------------------------------------------------------------------------
(* The theorems.                                                           *)

(* Every variable of the terminal, the session and the prompts keeps its   *)
(* type.                                                                   *)
THEOREM TypeCorrect == Spec => []TypeOK
BY Invariance, PTL DEF Inv

(* The terminal is given back echoing, and the handlers that do it are     *)
(* there exactly while a prompt has raw mode on (guardRawMode).            *)
THEOREM TerminalIsGivenBack == Spec => []TerminalGivenBack
<1>1. Inv => TerminalGivenBack
  BY DEF Inv, RawInv, OneRaw, TerminalGivenBack
<1> QED BY <1>1, Invariance, PTL

(* A question stands on the terminal only while its handler waits for it   *)
(* (readTerminalLine, readSecretLine, withDeadline).                       *)
THEOREM NothingIsAskedLate == Spec => []NothingAskedLate
<1>1. Inv => NothingAskedLate
  BY DEF Inv, WaitInv, NothingAskedLate
<1> QED BY <1>1, Invariance, PTL

(* In the executions in which no prompt opens in the flush of one that was *)
(* given up, a secret is typed unseen, and nothing typed before a question *)
(* answers it (flushTypeAhead, discardBuffered). Of the others it says     *)
(* nothing.                                                                *)
THEOREM PromptsAreUndisturbed == Spec => []PromptsUndisturbed
<1>1. Inv => PromptsUndisturbed
  <2> SUFFICES ASSUME Inv, ~overlapped, up = "running", NEW n \in Prompts, step[n] = "asked"
               PROVE  (kind[n] = "secret" => ~echo) /\ (canRaw => ~ahead)
    BY DEF PromptsUndisturbed, SecretHidden
  <2>1. ASSUME kind[n] = "secret" PROVE n \in rawTerminals
    BY <2>1 DEF Inv, StepInv, TypeOK
  <2>2. kind[n] = "secret" => ~echo
    BY <2>1 DEF Inv, RawInv, OneRaw
  <2>3. canRaw => ~ahead
    BY DEF Inv, RawInv, OneRaw
  <2> QED BY <2>2, <2>3
<1> QED BY <1>1, Invariance, PTL
=============================================================================
