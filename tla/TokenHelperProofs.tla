------------------------- MODULE TokenHelperProofs -------------------------
(***************************************************************************)
(* Proofs about TokenHelper, for any number of requests, registry keys,    *)
(* calls and configurations.                                               *)
(***************************************************************************)
EXTENDS TokenHelper, TLAPS

(* A key whose promise is not there has started nothing, and a key starts  *)
(* nothing once it is.                                                     *)
StartInv ==
    \A k \in RegKeys :
       /\ run[k].starts \in {0, 1}
       /\ run[k].promise = "none" \/ config.guard => run[k].starts = 0

(* Whoever waits for a helper, or has its credential, was not refused.     *)
AskInv ==
    \A q \in Requests :
       pc[q] = "awaiting" \/ header[q] # "none" => ~ config.guard /\ ~ Plain(q) /\ ~ RouteRefused(q)

Decides(q) == {n \in 1..Len(call[q].keys) : Deciding(q, n)}

(* The first key that decides settles what a request carries; none, that   *)
(* it carries no helper's credential.                                      *)
Helps(q, n) ==
    LET k == call[q].keys[n] IN
    IF config.helper[k] # "none" /\ k \notin mask[q] THEN k ELSE "none"

RightFor(q) ==
    outcome[q] = "sent" /\ call[q].asks =>
        \/ Decides(q) = {} /\ header[q] = "none"
        \/ \E n \in Decides(q) : (\A m \in Decides(q) : n <= m) /\ header[q] = Helps(q, n)

(* Where a walk is: no key before it decides, and while the request has no *)
(* outcome the keys that were given are those it began with.               *)
WalkInv(q) ==
    /\ pc[q] = "idle" => outcome[q] = "none" /\ at[q] = 1
    /\ outcome[q] = "sent" => pc[q] = "done"
    /\ pc[q] = "done" => outcome[q] # "none"
    /\ outcome[q] = "none" => header[q] = "none"
    /\ pc[q] # "idle" /\ outcome[q] = "none" =>
          mask[q] = given /\ \A n \in 1..Len(call[q].keys) : n < at[q] => ~ Deciding(q, n)
    /\ pc[q] = "awaiting" /\ outcome[q] = "none" =>
          config.helper[Key(q)] # "none" /\ Key(q) \notin mask[q]

RequestInv(q) == WalkInv(q) /\ RightFor(q)

Inv == TypeOK /\ StartInv /\ AskInv /\ \A q \in Requests : RequestInv(q)

-----------------------------------------------------------------------------
(* The parts of the type invariant: numbers, and the rest.                 *)

PlacesOK == at \in [Requests -> Nat] /\ \A q \in Requests : at[q] \in 1..Len(call[q].keys)

RequestsOK ==
    /\ config \in Configs /\ given \in SUBSET RegKeys
    /\ call \in [Requests -> Calls]
    /\ pc \in [Requests -> {"idle", "walking", "awaiting", "done"}]
    /\ outcome \in [Requests -> {"none", "sent", "failed"}]
    /\ header \in [Requests -> RegKeys \cup {"none"}]
    /\ mask \in [Requests -> SUBSET RegKeys]

LEMMA TypeParts == TypeOK <=> RunTypeOK /\ RequestsOK /\ PlacesOK
BY DEF TypeOK, RequestsOK, PlacesOK

LEMMA TypeNext ==
    ASSUME RunTypeOK', RequestsOK', PlacesOK'
    PROVE  TypeOK'
BY DEF TypeOK, RequestsOK, PlacesOK

LEMMA CallTypes ==
    ASSUME RequestsOK, NEW q \in Requests
    PROVE  /\ call[q].keys \in Seq(RegKeys)
           /\ Len(call[q].keys) \in Nat /\ Len(call[q].keys) >= 1
           /\ call[q].asks \in BOOLEAN
           /\ call[q].scheme \in {"https", "http"}
<1>1. call[q] \in Call
  BY CallAssumption DEF RequestsOK
<1>2. call[q].keys \in Seq(RegKeys) /\ call[q].keys # <<>> /\ call[q].asks \in BOOLEAN
      /\ call[q].scheme \in {"https", "http"}
  BY <1>1 DEF Call
<1>3. Len(call[q].keys) \in Nat /\ Len(call[q].keys) # 0
  BY <1>2
<1> QED
  BY <1>2, <1>3

LEMMA KeyType ==
    ASSUME RequestsOK, PlacesOK, NEW q \in Requests
    PROVE  Key(q) \in RegKeys
<1>1. call[q].keys \in Seq(RegKeys)
  BY CallTypes
<1>2. at[q] \in 1..Len(call[q].keys)
  BY DEF PlacesOK
<1> QED
  BY <1>1, <1>2 DEF Key

LEMMA NoRunType == NoRun \in Runs
BY DEF NoRun, Runs

(* Every change of a run keeps its type, and only a start counts as one.   *)
LEMMA RunTypes ==
    ASSUME NEW r \in Runs
    PROVE  /\ Started(r) \in Runs /\ NotStarted(r) \in Runs /\ FailsToStart(r) \in Runs
           /\ Aborted(r) \in Runs
           /\ Started(r).starts = r.starts + 1 /\ Started(r).promise = "pending"
           /\ NotStarted(r).starts = r.starts /\ NotStarted(r).promise = "rejected"
           /\ FailsToStart(r).starts = r.starts /\ FailsToStart(r).promise = "pending"
           /\ Aborted(r).starts = r.starts
           /\ Aborted(r).promise = "none" => r.promise = "none"
<1>1. Started(r) \in Runs
  <2> DEFINE n == r.starts + 1
  <2>1. n \in Nat
    BY DEF Runs
  <2>2. Started(r) = [r EXCEPT !.promise = "pending", !.starts = n, !.proc = "running",
                               !.pipes = "open", !.timers = {"deadline"}]
    BY DEF Started
  <2> HIDE DEF n
  <2> QED
    BY <2>1, <2>2 DEF Runs
<1>2. NotStarted(r) \in Runs /\ FailsToStart(r) \in Runs
  BY DEF NotStarted, FailsToStart, Runs
<1>3. Aborted(r) \in Runs
  BY DEF Aborted, Stopped, Runs
<1>4. Started(r).starts = r.starts + 1 /\ Started(r).promise = "pending"
  BY DEF Started, Runs
<1>5. /\ NotStarted(r).starts = r.starts /\ NotStarted(r).promise = "rejected"
      /\ FailsToStart(r).starts = r.starts /\ FailsToStart(r).promise = "pending"
  BY DEF NotStarted, FailsToStart, Runs
<1>6. Aborted(r).starts = r.starts /\ (Aborted(r).promise = "none" => r.promise = "none")
  BY DEF Aborted, Stopped, Runs
<1> QED
  BY <1>1, <1>2, <1>3, <1>4, <1>5, <1>6

(* A step of a run touches its key alone, starts nothing and takes no      *)
(* promise back.                                                           *)
LEMMA RunStepKeeps ==
    ASSUME RunTypeOK, NEW k \in RegKeys, RunStep(k)
    PROVE  /\ RunTypeOK'
           /\ \A j \in RegKeys : run'[j].starts = run[j].starts
           /\ \A j \in RegKeys : run'[j].promise = "none" => run[j].promise = "none"
<1> USE DEF RunTypeOK
<1>1. PICK r \in Runs : /\ run' = [run EXCEPT ![k] = r]
                        /\ r.starts = run[k].starts
                        /\ r.promise = "none" => run[k].promise = "none"
  <2>0. run[k] \in Runs
    OBVIOUS
  <2>1. CASE HelperExits(k)
    <3>1. PICK status \in {"ok", "bad"} :
             run' = [run EXCEPT ![k].proc = "gone", ![k].status = status, ![k].pipes = "closed"]
      BY <2>1 DEF HelperExits
    <3>2. [run[k] EXCEPT !.proc = "gone", !.status = status, !.pipes = "closed"] \in Runs
      BY <2>0 DEF Runs
    <3> QED
      BY <2>0, <3>1, <3>2 DEF Runs
  <2>2. CASE HelperLeavesPipes(k)
    <3>1. PICK status \in {"ok", "bad"} :
             run' = [run EXCEPT ![k].proc = "gone", ![k].status = status, ![k].pipes = "held"]
      BY <2>2 DEF HelperLeavesPipes
    <3>2. [run[k] EXCEPT !.proc = "gone", !.status = status, !.pipes = "held"] \in Runs
      BY <2>0 DEF Runs
    <3> QED
      BY <2>0, <3>1, <3>2 DEF Runs
  <2>3. CASE BackgroundCloses(k)
    <3>1. [run[k] EXCEPT !.pipes = "closed"] \in Runs
      BY <2>0 DEF Runs
    <3> QED
      BY <2>0, <2>3, <3>1 DEF BackgroundCloses, Runs
  <2>4. CASE Overflow(k) \/ Deadline(k)
    <3>1. run' = [run EXCEPT ![k] = Aborted(run[k])]
      BY <2>4 DEF Overflow, Deadline
    <3>2. /\ Aborted(run[k]) \in Runs /\ Aborted(run[k]).starts = run[k].starts
          /\ Aborted(run[k]).promise = "none" => run[k].promise = "none"
      BY <2>0, RunTypes
    <3> QED
      BY <3>1, <3>2
  <2>5. CASE SeeExit(k)
    <3> DEFINE timers == (run[k].timers \ {"kill"}) \cup (IF Settled(k) THEN {} ELSE {"drain"})
    <3>1. run' = [run EXCEPT ![k].exitSeen = TRUE, ![k].timers = timers]
      BY <2>5 DEF SeeExit
    <3>2. timers \in SUBSET {"deadline", "drain", "kill"}
      BY <2>0 DEF Runs
    <3> HIDE DEF timers
    <3>3. [run[k] EXCEPT !.exitSeen = TRUE, !.timers = timers] \in Runs
      BY <2>0, <3>2 DEF Runs
    <3> QED
      BY <2>0, <3>1, <3>3 DEF Runs
  <2>6. CASE Drain(k)
    <3>1. [run[k] EXCEPT !.pipes = "closed", !.timers = @ \ {"drain"}] \in Runs
      BY <2>0 DEF Runs
    <3> QED
      BY <2>0, <2>6, <3>1 DEF Drain, Runs
  <2>7. CASE KillTimer(k)
    <3>1. [run[k] EXCEPT !.proc = "gone", !.timers = @ \ {"kill"}] \in Runs
      BY <2>0 DEF Runs
    <3> QED
      BY <2>0, <2>7, <3>1 DEF KillTimer, Runs
  <2>8. CASE Close(k)
    <3>1. PICK promise \in {"header", "rejected"} :
             run' = [run EXCEPT ![k].promise = promise, ![k].timers = @ \ {"deadline", "drain"}]
      BY <2>8 DEF Close
    <3>2. [run[k] EXCEPT !.promise = promise, !.timers = @ \ {"deadline", "drain"}] \in Runs
      BY <2>0 DEF Runs
    <3> QED
      BY <2>0, <3>1, <3>2 DEF Runs
  <2> QED
    BY <2>1, <2>2, <2>3, <2>4, <2>5, <2>6, <2>7, <2>8 DEF RunStep, LoopStep, WorldStep
<1>2. platform' = platform /\ npm' = npm
  BY DEF RunStep, LoopStep, WorldStep, HelperExits, HelperLeavesPipes, BackgroundCloses, Overflow,
         Deadline, SeeExit, Drain, KillTimer, Close
<1>3. run' \in [RegKeys -> Runs]
  BY <1>1
<1> QED
  BY <1>1, <1>2, <1>3

-----------------------------------------------------------------------------
(* Requests a step leaves alone, and what the kinds of steps do to one.    *)

(* What a request is stays as it is.                                       *)
LEMMA Unmoved ==
    ASSUME NEW q, RequestInv(q),
           config' = config, call'[q] = call[q], given' = given,
           pc'[q] = pc[q], at'[q] = at[q], outcome'[q] = outcome[q],
           header'[q] = header[q], mask'[q] = mask[q]
    PROVE  RequestInv(q)'
<1>1. \A n : Deciding(q, n)' <=> Deciding(q, n)
  BY DEF Deciding
<1>2. Decides(q)' = Decides(q)
  BY <1>1 DEF Decides
<1>3. \A n : Helps(q, n)' = Helps(q, n)
  BY DEF Helps
<1>4. Key(q)' = Key(q)
  BY DEF Key
<1>5. WalkInv(q)'
  BY <1>1, <1>4 DEF RequestInv, WalkInv
<1>6. RightFor(q)'
  BY <1>2, <1>3 DEF RequestInv, RightFor
<1> QED
  BY <1>5, <1>6 DEF RequestInv

(* A walk that ends at a key where no helper is in use carries what the    *)
(* first deciding key asks for, which is no helper's credential.           *)
LEMMA EndsBare ==
    ASSUME RequestsOK, PlacesOK, NEW q \in Requests, WalkInv(q),
           pc[q] = "walking", outcome[q] = "none", StepsAside(Key(q)),
           setsAuthorization(q, Key(q)) \/ at[q] = Len(call[q].keys)
    PROVE  \/ Decides(q) = {}
           \/ \E n \in Decides(q) : (\A m \in Decides(q) : n <= m) /\ Helps(q, n) = "none"
<1>1. mask[q] = given /\ \A n \in 1..Len(call[q].keys) : n < at[q] => ~ Deciding(q, n)
  BY DEF WalkInv
<1>2. at[q] \in Nat /\ at[q] \in 1..Len(call[q].keys) /\ Len(call[q].keys) \in Nat
  BY CallTypes DEF PlacesOK
<1>3. \A m \in Decides(q) : m \in 1..Len(call[q].keys) /\ at[q] <= m
  BY <1>1, <1>2 DEF Decides
<1>4. CASE Deciding(q, at[q])
  <2>1. at[q] \in Decides(q)
    BY <1>2, <1>4 DEF Decides
  <2>2. Helps(q, at[q]) = "none"
    BY <1>1 DEF Helps, StepsAside, Key
  <2> QED
    BY <1>3, <2>1, <2>2
<1>5. CASE ~ Deciding(q, at[q])
  <2>1. ~ setsAuthorization(q, Key(q))
    BY <1>5 DEF setsAuthorization, Deciding, Key
  <2>2. at[q] = Len(call[q].keys)
    BY <2>1
  <2>3. \A m \in Decides(q) : m = at[q] /\ Deciding(q, m)
    BY <1>2, <1>3, <2>2 DEF Decides
  <2>4. Decides(q) = {}
    BY <1>5, <2>3
  <2> QED
    BY <2>4
<1> QED
  BY <1>4, <1>5

(* A walk that waits for a helper is at the first key that decides.        *)
LEMMA WaitsAtFirst ==
    ASSUME RequestsOK, PlacesOK, NEW q \in Requests, WalkInv(q),
           pc[q] = "awaiting", outcome[q] = "none"
    PROVE  /\ at[q] \in Decides(q) /\ \A m \in Decides(q) : at[q] <= m
           /\ Helps(q, at[q]) = Key(q)
<1>1. /\ \A n \in 1..Len(call[q].keys) : n < at[q] => ~ Deciding(q, n)
      /\ config.helper[Key(q)] # "none" /\ Key(q) \notin mask[q]
  BY DEF WalkInv
<1>2. at[q] \in Nat /\ at[q] \in 1..Len(call[q].keys) /\ Len(call[q].keys) \in Nat
  BY CallTypes DEF PlacesOK
<1>3. Deciding(q, at[q])
  BY <1>1 DEF Deciding, Key
<1>4. at[q] \in Decides(q)
  BY <1>2, <1>3 DEF Decides
<1>5. \A m \in Decides(q) : at[q] <= m
  BY <1>1, <1>2 DEF Decides
<1>6. Helps(q, at[q]) = Key(q)
  BY <1>1 DEF Helps, Key
<1> QED
  BY <1>4, <1>5, <1>6

(* A step that touches one request alone keeps the others.                 *)
Moves(q) ==
    /\ config' = config /\ given' = given /\ call' = call
    /\ \A s \in Requests \ {q} :
          /\ pc'[s] = pc[s] /\ at'[s] = at[s] /\ outcome'[s] = outcome[s]
          /\ header'[s] = header[s] /\ mask'[s] = mask[s]

LEMMA OthersKept ==
    ASSUME NEW q \in Requests, Moves(q), \A s \in Requests : RequestInv(s), RequestInv(q)'
    PROVE  \A s \in Requests : RequestInv(s)'
<1>1. ASSUME NEW s \in Requests \ {q}
      PROVE  RequestInv(s)'
  BY <1>1, Unmoved DEF Moves
<1> QED
  BY <1>1

(* A step after which nobody waits, or has a header, who did not.          *)
LEMMA NobodyNew ==
    ASSUME AskInv, config' = config, call' = call,
           \A s \in Requests : pc'[s] = "awaiting" \/ header'[s] # "none"
                              => pc[s] = "awaiting" \/ header[s] # "none"
    PROVE  AskInv'
BY DEF AskInv, Plain, RouteRefused

LEMMA RunsUntouched ==
    ASSUME RunTypeOK, StartInv, UNCHANGED <<runVars, config>>
    PROVE  RunTypeOK' /\ StartInv'
BY DEF RunTypeOK, StartInv, runVars

(* What End does to its request.                                           *)
LEMMA EndEffect ==
    ASSUME RequestsOK, NEW q \in Requests, NEW how \in {"sent", "failed"}, End(q, how)
    PROVE  /\ pc' \in [Requests -> {"idle", "walking", "awaiting", "done"}]
           /\ outcome' \in [Requests -> {"none", "sent", "failed"}]
           /\ pc'[q] = "done" /\ outcome'[q] = IF outcome[q] = "none" THEN how ELSE outcome[q]
           /\ \A s \in Requests \ {q} : pc'[s] = pc[s] /\ outcome'[s] = outcome[s]
BY DEF RequestsOK, End

-----------------------------------------------------------------------------
(* The steps of a request.                                                 *)

LEMMA BeginKeeps ==
    ASSUME Inv, NEW q \in Requests, Begin(q)
    PROVE  Inv'
<1>1. RunTypeOK /\ RequestsOK /\ PlacesOK /\ StartInv /\ AskInv
      /\ \A s \in Requests : RequestInv(s)
  BY TypeParts DEF Inv
<1>2. RunTypeOK' /\ StartInv'
  BY <1>1, RunsUntouched DEF Begin
<1>3. /\ mask' = [mask EXCEPT ![q] = given]
      /\ pc[q] = "idle" /\ UNCHANGED <<config, given, call, at, header>>
      /\ WalkInv(q) /\ outcome[q] = "none" /\ header[q] = "none" /\ at[q] = 1
  BY <1>1 DEF Begin, RequestInv, WalkInv
<1>4. CASE call[q].asks
  <2>1. pc' = [pc EXCEPT ![q] = "walking"] /\ outcome' = outcome
    BY <1>4 DEF Begin
  <2>2. RequestsOK' /\ PlacesOK' /\ Moves(q)
    BY <1>1, <1>3, <2>1 DEF RequestsOK, PlacesOK, Moves
  <2>3. AskInv'
    BY <1>1, <1>3, <2>1, NobodyNew DEF RequestsOK
  <2>4. RequestInv(q)'
    BY <1>1, <1>3, <2>1 DEF RequestInv, WalkInv, RightFor, RequestsOK
  <2> QED
    BY <1>1, <1>2, <2>2, <2>3, <2>4, TypeNext, OthersKept DEF Inv
<1>5. CASE ~ call[q].asks
  <2>1. End(q, "sent")
    BY <1>5 DEF Begin
  <2>2. /\ pc' \in [Requests -> {"idle", "walking", "awaiting", "done"}]
        /\ outcome' \in [Requests -> {"none", "sent", "failed"}]
        /\ pc'[q] = "done" /\ outcome'[q] = "sent"
        /\ \A s \in Requests \ {q} : pc'[s] = pc[s] /\ outcome'[s] = outcome[s]
    BY <1>1, <1>3, <2>1, EndEffect
  <2>3. RequestsOK' /\ PlacesOK' /\ Moves(q)
    BY <1>1, <1>3, <2>2 DEF RequestsOK, PlacesOK, Moves
  <2>4. AskInv'
    BY <1>1, <1>3, <2>2, NobodyNew
  <2>5. RequestInv(q)'
    BY <1>3, <1>5, <2>2 DEF RequestInv, WalkInv, RightFor
  <2> QED
    BY <1>1, <1>2, <2>3, <2>4, <2>5, TypeNext, OthersKept DEF Inv
<1> QED
  BY <1>4, <1>5

LEMMA AskedAsideKeeps ==
    ASSUME Inv, NEW q \in Requests, AskedAside(q)
    PROVE  Inv'
<1>1. RunTypeOK /\ RequestsOK /\ PlacesOK /\ StartInv /\ AskInv
      /\ \A s \in Requests : RequestInv(s)
  BY TypeParts DEF Inv
<1>2. RunTypeOK' /\ StartInv'
  BY <1>1, RunsUntouched DEF AskedAside
<1>3. /\ pc[q] = "walking" /\ StepsAside(Key(q)) /\ NextKey(q)
      /\ UNCHANGED <<config, given, call, header, mask>>
      /\ WalkInv(q) /\ RightFor(q)
  BY <1>1 DEF AskedAside, RequestInv
<1>4. CASE setsAuthorization(q, Key(q)) \/ at[q] = Len(call[q].keys)
  <2>1. End(q, "sent") /\ at' = at
    BY <1>3, <1>4 DEF NextKey
  <2>2. /\ pc' \in [Requests -> {"idle", "walking", "awaiting", "done"}]
        /\ outcome' \in [Requests -> {"none", "sent", "failed"}]
        /\ pc'[q] = "done" /\ outcome'[q] = IF outcome[q] = "none" THEN "sent" ELSE outcome[q]
        /\ \A s \in Requests \ {q} : pc'[s] = pc[s] /\ outcome'[s] = outcome[s]
    BY <1>1, <2>1, EndEffect
  <2>3. RequestsOK' /\ PlacesOK' /\ Moves(q)
    BY <1>1, <1>3, <2>1, <2>2 DEF RequestsOK, PlacesOK, Moves
  <2>4. AskInv'
    BY <1>1, <1>3, <2>2, NobodyNew
  <2>5. WalkInv(q)'
    BY <1>1, <1>3, <2>2 DEF WalkInv, RequestsOK
  <2>6. RightFor(q)'
    <3>1. /\ Decides(q)' = Decides(q)
          /\ \A n : Helps(q, n)' = Helps(q, n)
      BY <1>3 DEF Decides, Deciding, Helps
    <3>2. CASE outcome[q] = "none"
      <4>1. header[q] = "none"
        BY <1>3, <3>2 DEF WalkInv
      <4>2. \/ Decides(q) = {}
            \/ \E n \in Decides(q) : (\A m \in Decides(q) : n <= m) /\ Helps(q, n) = "none"
        BY <1>1, <1>3, <1>4, <3>2, EndsBare
      <4> QED
        BY <1>3, <3>1, <4>1, <4>2 DEF RightFor
    <3>3. CASE outcome[q] # "none"
      BY <1>3, <2>2, <3>1, <3>3 DEF RightFor
    <3> QED
      BY <3>2, <3>3
  <2> QED
    BY <1>1, <1>2, <2>3, <2>4, <2>5, <2>6, TypeNext, OthersKept DEF Inv, RequestInv
<1>5. CASE ~ (setsAuthorization(q, Key(q)) \/ at[q] = Len(call[q].keys))
  <2>1. /\ at' = [at EXCEPT ![q] = at[q] + 1] /\ pc' = [pc EXCEPT ![q] = "walking"]
        /\ outcome' = outcome
    BY <1>3, <1>5 DEF NextKey
  <2>2. at[q] \in Nat /\ at[q] \in 1..Len(call[q].keys) /\ Len(call[q].keys) \in Nat
    BY <1>1, CallTypes DEF PlacesOK
  <2>3. at[q] + 1 \in Nat /\ at[q] + 1 \in 1..Len(call[q].keys)
    BY <1>5, <2>2
  <2>4. PlacesOK' /\ at'[q] = at[q] + 1
    <3> DEFINE n == at[q] + 1
    <3>1. n \in Nat /\ n \in 1..Len(call[q].keys) /\ at' = [at EXCEPT ![q] = n]
      BY <2>1, <2>3
    <3> HIDE DEF n
    <3>2. at' \in [Requests -> Nat] /\ at'[q] = n /\ \A s \in Requests \ {q} : at'[s] = at[s]
      BY <1>1, <3>1 DEF PlacesOK
    <3>3. \A s \in Requests : at'[s] \in 1..Len(call[s].keys)
      BY <1>1, <3>1, <3>2 DEF PlacesOK
    <3>4. PlacesOK'
      BY <1>3, <3>2, <3>3 DEF PlacesOK
    <3> QED
      BY <3>2, <3>4 DEF n
  <2>5. RequestsOK'
    BY <1>1, <1>3, <2>1 DEF RequestsOK
  <2>6. Moves(q)
    BY <1>1, <1>3, <2>1 DEF RequestsOK, PlacesOK, Moves
  <2>7. AskInv'
    BY <1>1, <1>3, <2>1, NobodyNew DEF RequestsOK
  <2>8. pc'[q] = "walking"
    BY <1>1, <2>1 DEF RequestsOK
  <2>9. WalkInv(q)'
    <3>1. \A n : Deciding(q, n)' <=> Deciding(q, n)
      BY <1>3 DEF Deciding
    <3>2. ASSUME outcome[q] = "none", NEW n \in 1..Len(call[q].keys), n < at[q] + 1
          PROVE  ~ Deciding(q, n)
      <4>1. mask[q] = given /\ (n < at[q] => ~ Deciding(q, n))
        BY <1>3, <3>2 DEF WalkInv
      <4>2. CASE n = at[q]
        BY <1>3, <1>5, <4>1, <4>2 DEF Deciding, StepsAside, setsAuthorization, Key
      <4>3. CASE n # at[q]
        BY <2>2, <3>2, <4>1, <4>3
      <4> QED
        BY <4>2, <4>3
    <3> QED
      BY <1>3, <2>1, <2>4, <2>8, <3>1, <3>2 DEF WalkInv
  <2>10. RightFor(q)'
    BY <1>3, <2>1 DEF RightFor, WalkInv
  <2> QED
    BY <1>1, <1>2, <2>4, <2>5, <2>6, <2>7, <2>9, <2>10, TypeNext, OthersKept DEF Inv, RequestInv
<1> QED
  BY <1>4, <1>5

(* A refusal, and the failure of a helper, end the request as failed.      *)
LEMMA FailedKeeps ==
    ASSUME Inv, NEW q \in Requests, pc[q] \in {"walking", "awaiting"}, End(q, "failed"),
           UNCHANGED <<runVars, config, given, call, at, header, mask>>
    PROVE  Inv'
<1>1. RunTypeOK /\ RequestsOK /\ PlacesOK /\ StartInv /\ AskInv
      /\ \A s \in Requests : RequestInv(s)
  BY TypeParts DEF Inv
<1>2. RunTypeOK' /\ StartInv'
  BY <1>1, RunsUntouched
<1>3. WalkInv(q) /\ RightFor(q)
  BY <1>1 DEF RequestInv
<1>4. /\ pc' \in [Requests -> {"idle", "walking", "awaiting", "done"}]
      /\ outcome' \in [Requests -> {"none", "sent", "failed"}]
      /\ pc'[q] = "done" /\ outcome'[q] = IF outcome[q] = "none" THEN "failed" ELSE outcome[q]
      /\ \A s \in Requests \ {q} : pc'[s] = pc[s] /\ outcome'[s] = outcome[s]
  BY <1>1, EndEffect
<1>5. RequestsOK' /\ PlacesOK' /\ Moves(q)
  BY <1>1, <1>4 DEF RequestsOK, PlacesOK, Moves
<1>6. AskInv'
  BY <1>1, <1>4, NobodyNew
<1>7. outcome'[q] = "failed"
  BY <1>3, <1>4, <1>1 DEF WalkInv, RequestsOK
<1>8. RequestInv(q)'
  BY <1>4, <1>7 DEF RequestInv, WalkInv, RightFor
<1> QED
  BY <1>1, <1>2, <1>5, <1>6, <1>8, TypeNext, OthersKept DEF Inv

LEMMA HelperAnsweredKeeps ==
    ASSUME Inv, NEW q \in Requests, HelperAnswered(q)
    PROVE  Inv'
<1>1. RunTypeOK /\ RequestsOK /\ PlacesOK /\ StartInv /\ AskInv
      /\ \A s \in Requests : RequestInv(s)
  BY TypeParts DEF Inv
<1>2. RunTypeOK' /\ StartInv'
  BY <1>1, RunsUntouched DEF HelperAnswered
<1>3. /\ pc[q] = "awaiting" /\ End(q, "sent") /\ UNCHANGED <<config, given, call, at, mask>>
      /\ header' = [header EXCEPT ![q] = IF outcome[q] = "none" THEN Key(q) ELSE header[q]]
      /\ WalkInv(q) /\ RightFor(q)
  BY <1>1 DEF HelperAnswered, RequestInv
<1>4. /\ pc' \in [Requests -> {"idle", "walking", "awaiting", "done"}]
      /\ outcome' \in [Requests -> {"none", "sent", "failed"}]
      /\ pc'[q] = "done" /\ outcome'[q] = IF outcome[q] = "none" THEN "sent" ELSE outcome[q]
      /\ \A s \in Requests \ {q} : pc'[s] = pc[s] /\ outcome'[s] = outcome[s]
  BY <1>1, <1>3, EndEffect
<1>5. Key(q) \in RegKeys
  BY <1>1, KeyType
<1>6. /\ header' \in [Requests -> RegKeys \cup {"none"}]
      /\ header'[q] = IF outcome[q] = "none" THEN Key(q) ELSE header[q]
      /\ \A s \in Requests \ {q} : header'[s] = header[s]
  BY <1>1, <1>3, <1>5 DEF RequestsOK
<1>7. RequestsOK' /\ PlacesOK' /\ Moves(q)
  BY <1>1, <1>3, <1>4, <1>6 DEF RequestsOK, PlacesOK, Moves
<1>8. AskInv'
  BY <1>1, <1>3, <1>4, <1>6, NobodyNew
<1>9. WalkInv(q)'
  BY <1>1, <1>3, <1>4, <1>6 DEF WalkInv, RequestsOK
<1>10. RightFor(q)'
  <2>1. /\ Decides(q)' = Decides(q)
        /\ \A n : Helps(q, n)' = Helps(q, n)
    BY <1>3 DEF Decides, Deciding, Helps
  <2>2. CASE outcome[q] = "none"
    <3>1. /\ at[q] \in Decides(q) /\ \A m \in Decides(q) : at[q] <= m
          /\ Helps(q, at[q]) = Key(q)
      BY <1>1, <1>3, <2>2, WaitsAtFirst
    <3> QED
      BY <1>6, <2>1, <2>2, <3>1 DEF RightFor
  <2>3. CASE outcome[q] # "none"
    BY <1>3, <1>4, <1>6, <2>1, <2>3 DEF RightFor
  <2> QED
    BY <2>2, <2>3
<1> QED
  BY <1>1, <1>2, <1>7, <1>8, <1>9, <1>10, TypeNext, OthersKept DEF Inv, RequestInv

(* The key's run starts at most now, and only for a request that nothing   *)
(* refuses.                                                                *)
LEMMA AskedHelperKeeps ==
    ASSUME Inv, NEW q \in Requests, AskedHelper(q)
    PROVE  Inv'
<1>1. RunTypeOK /\ RequestsOK /\ PlacesOK /\ StartInv /\ AskInv
      /\ \A s \in Requests : RequestInv(s)
  BY TypeParts DEF Inv
<1> DEFINE k == Key(q)
<1>2. /\ pc[q] = "walking" /\ ~ StepsAside(k) /\ ~ Refuses(q, k)
      /\ pc' = [pc EXCEPT ![q] = "awaiting"]
      /\ UNCHANGED <<platform, npm, config, given, call, at, outcome, header, mask>>
  BY DEF AskedHelper
<1>3. k \in RegKeys /\ run[k] \in Runs
  BY <1>1, KeyType DEF RunTypeOK
<1>4. \/ run' = run
      \/ /\ run[k].promise = "none"
         /\ \E r \in {Started(run[k]), NotStarted(run[k]), FailsToStart(run[k])} :
               run' = [run EXCEPT ![k] = r]
  BY DEF AskedHelper, Cached
<1>5. ~ config.guard /\ ~ Plain(q) /\ ~ RouteRefused(q)
  BY <1>2 DEF Refuses
<1>6. RunTypeOK' /\ StartInv'
  <2>1. CASE run' = run
    BY <1>1, <1>2, <2>1, RunsUntouched DEF runVars
  <2>2. CASE run' # run
    <3>1. run[k].promise = "none" /\ run[k].starts = 0
      BY <1>1, <1>3, <1>4, <2>2 DEF StartInv
    <3>2. PICK r \in {Started(run[k]), NotStarted(run[k]), FailsToStart(run[k])} :
             run' = [run EXCEPT ![k] = r]
      BY <1>4, <2>2
    <3>3. r \in Runs /\ r.promise # "none" /\ r.starts \in {0, 1}
      BY <1>3, <3>1, <3>2, RunTypes
    <3> QED
      BY <1>1, <1>2, <1>3, <1>5, <3>2, <3>3 DEF RunTypeOK, StartInv
  <2> QED
    BY <2>1, <2>2
<1>7. RequestsOK' /\ PlacesOK' /\ Moves(q) /\ pc'[q] = "awaiting"
  BY <1>1, <1>2 DEF RequestsOK, PlacesOK, Moves
<1>8. AskInv'
  BY <1>1, <1>2, <1>5, <1>7 DEF AskInv, Moves, Plain, RouteRefused
<1>9. WalkInv(q) /\ RightFor(q)
  BY <1>1 DEF RequestInv
<1>10. outcome[q] # "sent"
  BY <1>2, <1>9 DEF WalkInv
<1>11. Key(q)' = Key(q) /\ \A n : Deciding(q, n)' <=> Deciding(q, n)
  BY <1>2 DEF Key, Deciding
<1>12. outcome[q] = "none" => config.helper[k] # "none" /\ k \notin mask[q]
  BY <1>2, <1>9 DEF WalkInv, StepsAside
<1>13. WalkInv(q)'
  BY <1>2, <1>7, <1>9, <1>10, <1>11, <1>12 DEF WalkInv
<1>14. RightFor(q)'
  BY <1>2, <1>10 DEF RightFor
<1> QED
  BY <1>1, <1>6, <1>7, <1>8, <1>13, <1>14, TypeNext, OthersKept DEF Inv, RequestInv

LEMMA BodyFailsKeeps ==
    ASSUME Inv, NEW q \in Requests, BodyFails(q)
    PROVE  Inv'
<1>1. RunTypeOK /\ RequestsOK /\ PlacesOK /\ StartInv /\ AskInv
      /\ \A s \in Requests : RequestInv(s)
  BY TypeParts DEF Inv
<1>2. RunTypeOK' /\ StartInv'
  BY <1>1, RunsUntouched DEF BodyFails
<1>3. /\ outcome' = [outcome EXCEPT ![q] = "failed"] /\ outcome[q] = "none"
      /\ pc[q] \in {"walking", "awaiting"}
      /\ UNCHANGED <<config, given, call, pc, at, header, mask>>
      /\ WalkInv(q)
  BY <1>1 DEF BodyFails, RequestInv
<1>4. RequestsOK' /\ PlacesOK' /\ Moves(q) /\ outcome'[q] = "failed"
  BY <1>1, <1>3 DEF RequestsOK, PlacesOK, Moves
<1>5. AskInv'
  BY <1>1, <1>3, NobodyNew
<1>6. RequestInv(q)'
  BY <1>3, <1>4 DEF RequestInv, WalkInv, RightFor
<1> QED
  BY <1>1, <1>2, <1>4, <1>5, <1>6, TypeNext, OthersKept DEF Inv

-----------------------------------------------------------------------------
(* The steps of the command and of the helpers.                            *)

LEMMA HelperStepKeeps ==
    ASSUME Inv, NEW k \in RegKeys, HelperStep(k)
    PROVE  Inv'
<1>1. RunTypeOK /\ RequestsOK /\ PlacesOK /\ StartInv /\ AskInv
      /\ \A s \in Requests : RequestInv(s)
  BY TypeParts DEF Inv
<1>2. UNCHANGED <<config, given, call, pc, at, outcome, header, mask>>
  BY DEF HelperStep, reqVars
<1>3. /\ RunTypeOK'
      /\ \A j \in RegKeys : run'[j].starts = run[j].starts
      /\ \A j \in RegKeys : run'[j].promise = "none" => run[j].promise = "none"
  BY <1>1, RunStepKeeps DEF HelperStep
<1>4. StartInv'
  BY <1>1, <1>2, <1>3 DEF StartInv
<1>5. RequestsOK' /\ PlacesOK'
  BY <1>1, <1>2 DEF RequestsOK, PlacesOK
<1>6. AskInv'
  BY <1>1, <1>2, NobodyNew
<1>7. \A s \in Requests : RequestInv(s)'
  BY <1>1, <1>2, Unmoved
<1> QED
  BY <1>3, <1>4, <1>5, <1>6, <1>7, TypeNext DEF Inv

(* A token that comes between two publishes finds nobody on a walk.        *)
LEMMA OidcTokenKeeps ==
    ASSUME Inv, NEW k \in RegKeys, OidcToken(k)
    PROVE  Inv'
<1>1. RunTypeOK /\ RequestsOK /\ PlacesOK /\ StartInv /\ AskInv
      /\ \A s \in Requests : RequestInv(s)
  BY TypeParts DEF Inv
<1>2. /\ given' = given \cup {k}
      /\ UNCHANGED <<runVars, config, call, pc, at, outcome, header, mask>>
      /\ \A s \in Requests : pc[s] # "idle" => outcome[s] # "none"
  BY DEF OidcToken, reqVars
<1>3. RunTypeOK' /\ StartInv'
  BY <1>1, <1>2, RunsUntouched
<1>4. RequestsOK' /\ PlacesOK'
  BY <1>1, <1>2 DEF RequestsOK, PlacesOK
<1>5. AskInv'
  BY <1>1, <1>2, NobodyNew
<1>6. ASSUME NEW s \in Requests
      PROVE  RequestInv(s)'
  <2>1. WalkInv(s) /\ RightFor(s)
    BY <1>1 DEF RequestInv
  <2>2. /\ Decides(s)' = Decides(s)
        /\ \A n : Helps(s, n)' = Helps(s, n)
    BY <1>2 DEF Decides, Deciding, Helps
  <2>3. RightFor(s)'
    BY <1>2, <2>1, <2>2 DEF RightFor
  <2>4. WalkInv(s)'
    BY <1>2, <2>1 DEF WalkInv
  <2> QED
    BY <2>3, <2>4 DEF RequestInv
<1> QED
  BY <1>3, <1>4, <1>5, <1>6, TypeNext DEF Inv

(* npm's exit, and a step that changes nothing.                            *)
LEMMA ExitKeeps ==
    ASSUME Inv, NpmExits \/ UNCHANGED vars
    PROVE  Inv'
<1>1. RunTypeOK /\ RequestsOK /\ PlacesOK /\ StartInv /\ AskInv
      /\ \A s \in Requests : RequestInv(s)
  BY TypeParts DEF Inv
<1>2. UNCHANGED <<platform, run, config, given, call, pc, at, outcome, header, mask>>
  BY DEF NpmExits, vars, runVars, reqVars
<1>3. npm' = "gone" \/ npm' = npm
  BY DEF NpmExits, vars, runVars
<1>4. RunTypeOK' /\ StartInv'
  BY <1>1, <1>2, <1>3 DEF RunTypeOK, StartInv
<1>5. RequestsOK' /\ PlacesOK'
  BY <1>1, <1>2 DEF RequestsOK, PlacesOK
<1>6. AskInv'
  BY <1>1, <1>2, NobodyNew
<1>7. \A s \in Requests : RequestInv(s)'
  BY <1>1, <1>2, Unmoved
<1> QED
  BY <1>4, <1>5, <1>6, <1>7, TypeNext DEF Inv

-----------------------------------------------------------------------------
(* The invariant of the specification, and what follows from it.           *)

LEMMA InvInit == Init => Inv
<1> SUFFICES ASSUME Init PROVE Inv
  OBVIOUS
<1>1. RunTypeOK /\ StartInv
  BY NoRunType DEF Init, RunInit, RunTypeOK, StartInv, NoRun
<1>2. RequestsOK
  BY DEF Init, RequestsOK
<1>3. PlacesOK
  BY <1>2, CallTypes DEF Init, PlacesOK
<1>4. AskInv
  BY DEF Init, AskInv
<1>5. \A q \in Requests : RequestInv(q)
  BY DEF Init, RequestInv, WalkInv, RightFor
<1> QED
  BY <1>1, <1>2, <1>3, <1>4, <1>5, TypeParts DEF Inv

LEMMA InvStep == Inv /\ [Next]_vars => Inv'
<1> SUFFICES ASSUME Inv, [Next]_vars PROVE Inv'
  OBVIOUS
<1>1. ASSUME NEW q \in Requests, Begin(q) PROVE Inv'
  BY <1>1, BeginKeeps
<1>2. ASSUME NEW q \in Requests, AskedAside(q) PROVE Inv'
  BY <1>2, AskedAsideKeeps
<1>3. ASSUME NEW q \in Requests, AskedRefused(q) PROVE Inv'
  BY <1>3, FailedKeeps DEF AskedRefused
<1>4. ASSUME NEW q \in Requests, AskedHelper(q) PROVE Inv'
  BY <1>4, AskedHelperKeeps
<1>5. ASSUME NEW q \in Requests, HelperFailed(q) PROVE Inv'
  BY <1>5, FailedKeeps DEF HelperFailed
<1>6. ASSUME NEW q \in Requests, HelperAnswered(q) PROVE Inv'
  BY <1>6, HelperAnsweredKeeps
<1>7. ASSUME NEW q \in Requests, BodyFails(q) PROVE Inv'
  BY <1>7, BodyFailsKeeps
<1>8. ASSUME NEW k \in RegKeys, HelperStep(k) PROVE Inv'
  BY <1>8, HelperStepKeeps
<1>9. ASSUME NEW k \in RegKeys, OidcToken(k) PROVE Inv'
  BY <1>9, OidcTokenKeeps
<1>10. CASE NpmExits \/ UNCHANGED vars
  BY <1>10, ExitKeeps
<1> QED
  BY <1>1, <1>2, <1>3, <1>4, <1>5, <1>6, <1>7, <1>8, <1>9, <1>10 DEF Next, RequestStep

LEMMA Invariant == Spec => []Inv
<1> QED
  BY InvInit, InvStep, PTL DEF Spec

(* The runs, the walks and the requests keep within their types.           *)
THEOREM TypeCorrect == Spec => []TypeOK
<1>1. Inv => TypeOK
  BY DEF Inv
<1> QED
  BY <1>1, Invariant, PTL

(* A helper is started at most once for a registry key, whatever requests  *)
(* ask for it and however its run ends, and never by an npm that a helper  *)
(* started (the cache and the guard of token-helper.js).                   *)
THEOREM HelpersRunOnce == Spec => []RunOnce
<1>1. Inv => RunOnce
  <2> SUFFICES ASSUME Inv, NEW k \in RegKeys
               PROVE  run[k].starts <= IF config.guard THEN 0 ELSE 1
    BY DEF RunOnce
  <2>1. /\ run[k].starts \in {0, 1}
        /\ config.guard => run[k].starts = 0
    BY DEF Inv, StartInv
  <2> QED
    BY <2>1
<1> QED
  BY <1>1, Invariant, PTL

(* No request carries a helper's credential in the clear to another        *)
(* machine, or over a route that a project chose, though the run that gave *)
(* it was started for a request that may (the checks of token-helper.js    *)
(* come before the cache).                                                 *)
THEOREM NothingRefusedCarries == Spec => []RefusedNeverCarries
<1>1. Inv => RefusedNeverCarries
  BY DEF Inv, AskInv, RefusedNeverCarries
<1> QED
  BY <1>1, Invariant, PTL

(* A request that is sent carries what the first key of its walk that has  *)
(* a helper or a credential asks for, whatever requests, answers, failures *)
(* and tokens of trusted publishing come between (authorize of             *)
(* npm-registry-fetch over the function of token-helper.js).               *)
THEOREM CredentialIsRight == Spec => []RightCredential
<1>1. Inv => RightCredential
  <2> SUFFICES ASSUME Inv, NEW q \in Requests, outcome[q] = "sent", call[q].asks
               PROVE  IF Decides(q) = {} THEN header[q] = "none"
                      ELSE LET n == CHOOSE n \in Decides(q) : \A m \in Decides(q) : n <= m
                           IN header[q] = Helps(q, n)
    BY DEF RightCredential, Decides, Helps
  <2>1. \/ Decides(q) = {} /\ header[q] = "none"
        \/ \E n \in Decides(q) : (\A m \in Decides(q) : n <= m) /\ header[q] = Helps(q, n)
    BY DEF Inv, RequestInv, RightFor
  <2>2. CASE Decides(q) = {}
    BY <2>1, <2>2
  <2>3. CASE Decides(q) # {}
    <3>1. PICK n \in Decides(q) : (\A m \in Decides(q) : n <= m) /\ header[q] = Helps(q, n)
      BY <2>1, <2>3
    <3> DEFINE first == CHOOSE i \in Decides(q) : \A m \in Decides(q) : i <= m
    <3>2. first \in Decides(q) /\ \A m \in Decides(q) : first <= m
      BY <3>1
    <3>3. Decides(q) \subseteq Nat
      BY DEF Decides
    <3> HIDE DEF first
    <3>4. first = n
      BY <3>1, <3>2, <3>3
    <3> QED
      BY <2>3, <3>1, <3>4 DEF first
  <2> QED
    BY <2>2, <2>3
<1> QED
  BY <1>1, Invariant, PTL
=============================================================================
