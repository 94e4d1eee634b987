--------------------------- MODULE ProvidersProofs ---------------------------
(***************************************************************************)
(* Proofs about the eight reference providers of MCProviders, for any      *)
(* number of processes on one store, of requests and of credentials.       *)
(*                                                                         *)
(* The first part is of what the providers share (ProviderProcesses): what *)
(* a step of one process leaves of the others (OthersWait, Holds, Drops),  *)
(* an invariant of the answers (Shared), and what is known of the question *)
(* to the person (Yes). Then each provider has an invariant,               *)
(* <Provider>Inv: the types it needs, what a process holds in memory and   *)
(* in hand, what the store has, and where each good credential is          *)
(* (<Provider>Kept). A lemma <Provider>Step says which steps keep it, with *)
(* the parts that are the same for all of them; then there is a lemma for  *)
(* each action, <Provider>Init and <Provider>Next, and <Provider>Safe,     *)
(* which draws the properties from the invariant. <Provider>Asks says from *)
(* which awaits on a write is past its prompt; <Provider>AsksNext is its   *)
(* lemma (npmjs has it in its invariant, JFrog asks nobody). The last part *)
(* puts the eight together.                                                *)
(***************************************************************************)
EXTENDS MCProviders, FiniteSetTheorems, TLAPS

(* Of each process something is known, whatever it is.                     *)
OfProcesses(f) == f = [p \in Processes |-> f[p]]

Shape ==
    /\ issued \in Nat
    /\ OfProcesses(pc) /\ OfProcesses(req) /\ OfProcesses(local)
    /\ OfProcesses(asked) /\ OfProcesses(answer) /\ OfProcesses(memory) /\ OfProcesses(retired)

(* A step of p leaves the requests of the other processes as they are.     *)
OthersWait(p) ==
    /\ OfProcesses(pc)' /\ OfProcesses(req)' /\ OfProcesses(local)'
    /\ OfProcesses(asked)' /\ OfProcesses(answer)'
    /\ \A q \in Processes \ {p} : /\ pc'[q] = pc[q] /\ req'[q] = req[q] /\ local'[q] = local[q]
                                  /\ asked'[q] = asked[q] /\ answer'[q] = answer[q]

(* Where a request of p goes, with what in hand, and what was answered.    *)
Turned(p, step, r, values, a) ==
    OthersWait(p) /\ pc'[p] = step /\ req'[p] = r /\ local'[p] = values /\ answer'[p] = a

(* What a process then holds in memory, and has been told to drop.         *)
Holds(p, m) ==
    OfProcesses(memory)' /\ memory'[p] = m /\ \A q \in Processes \ {p} : memory'[q] = memory[q]

Drops(p, d) ==
    OfProcesses(retired)' /\ retired'[p] = d /\ \A q \in Processes \ {p} : retired'[q] = retired[q]

(* What a step says of the memory of p, as a whole.                        *)
LEMMA HoldsThis ==
    ASSUME Shape, NEW p \in Processes
    PROVE  /\ UNCHANGED memory => Holds(p, memory[p])
           /\ \A m : memory' = [memory EXCEPT ![p] = m] => Holds(p, m)
BY DEF Shape, OfProcesses, Holds

(* The same of what p has been told to drop.                               *)
LEMMA DropsThis ==
    ASSUME Shape, NEW p \in Processes
    PROVE  /\ UNCHANGED retired => Drops(p, retired[p])
           /\ \A d : retired' = [retired EXCEPT ![p] = d] => Drops(p, d)
BY DEF Shape, OfProcesses, Drops

(* A set of issued credentials, and with it the next one issued.           *)
LEMMA MoreIssued ==
    ASSUME NEW i \in Nat, NEW n \in Nat, n > i, NEW s \in SUBSET (1..i)
    PROVE  s \cup {n} \subseteq 1..n /\ s \subseteq 1..n
<1>1. ASSUME NEW t \in s
      PROVE  t \in 1..n
  <2>1. t \in 1..i
    OBVIOUS
  <2> QED
    BY <2>1
<1>2. n \in 1..n
  OBVIOUS
<1> QED
  BY <1>1, <1>2

(* An empty answer and an error carry no token.                            *)
LEMMA NoTokenInIt == NoToken.token = 0 /\ \A what : Failed(what).token = 0
BY DEF NoToken, Failed

(* What each way to go on does to the request of p and to the others.      *)
LEMMA Begins ==
    ASSUME Shape, NEW p \in Processes, NEW r, NEW step, NEW values, Begin(p, r, step, values)
    PROVE  pc[p] = "idle" /\ Turned(p, step, r, values, NoToken) /\ answer'[p].token = 0
BY DEF Shape, OfProcesses, OthersWait, Turned, Begin, Take, NoToken

LEMMA AnsweredAtOnce ==
    ASSUME Shape, NEW p \in Processes, NEW r, NEW a, AtOnce(p, r, a)
    PROVE  pc[p] = "idle" /\ Turned(p, "idle", req[p], local[p], a)
BY DEF Shape, OfProcesses, OthersWait, Turned, AtOnce, Take

LEMMA GoesOn ==
    ASSUME Shape, NEW p \in Processes, NEW step, NEW values, GoOn(p, step, values)
    PROVE  Turned(p, step, req[p], values, answer[p])
BY DEF Shape, OfProcesses, OthersWait, Turned, GoOn

LEMMA Replies ==
    ASSUME Shape, NEW p \in Processes, NEW a, Reply(p, a)
    PROVE  Turned(p, "idle", NoRequest, 0, a)
BY DEF Shape, OfProcesses, OthersWait, Turned, Reply

LEMMA Restarts ==
    ASSUME Shape, NEW p \in Processes, NEW fresh, Restart(p, fresh)
    PROVE  /\ Turned(p, "idle", NoRequest, 0, NoToken) /\ answer'[p].token = 0
           /\ Holds(p, fresh) /\ Drops(p, {})
BY DEF Shape, OfProcesses, OthersWait, Turned, Holds, Drops, Restart, NoToken

-----------------------------------------------------------------------------
(* What is known of every provider's processes.                            *)

(* Of a token that may write a person was asked, and a request under way   *)
(* has no answer yet.                                                      *)
AnswerAsked(p) ==
    /\ answer[p].token \in 0..issued
    /\ answer[p].token \in reserved => answer[p].asked
    /\ pc[p] # "idle" => answer[p].token = 0

Answered == reserved \subseteq 1..issued /\ \A p \in Processes : AnswerAsked(p)

(* What a process has been told to drop it has not answered with.          *)
Dropped(p) == retired[p] \subseteq 0..issued /\ answer[p].token \notin retired[p] \ {0}

(* A step keeps Asked if it answers nothing, or with a token of which the  *)
(* answer says who was asked.                                              *)
LEMMA AskedStep ==
    ASSUME Shape, Answered, NEW p \in Processes, OthersWait(p),
           issued' \in Nat, issued' >= issued, reserved' \subseteq reserved \cup ((issued + 1)..issued'),
           \/ answer'[p].token = 0
           \/ /\ pc'[p] = "idle" /\ answer'[p].token \in 0..issued'
              /\ answer'[p].token \in reserved' => answer'[p].asked
    PROVE  Answered'
<1>1. reserved' \subseteq 1..issued'
  BY DEF Shape, Answered
<1>2. AnswerAsked(p)'
  BY <1>1 DEF AnswerAsked
<1>3. ASSUME NEW q \in Processes \ {p}
      PROVE  AnswerAsked(q)'
  <2>1. pc'[q] = pc[q] /\ answer'[q] = answer[q] /\ AnswerAsked(q)
    BY DEF OthersWait, Answered
  <2> DEFINE t == answer[q].token
  <2>2. t \in 0..issued /\ (t \in reserved => answer[q].asked) /\ (pc[q] # "idle" => t = 0)
    BY <2>1 DEF AnswerAsked
  <2>3. t \in 0..issued' /\ (t \in reserved' => t \in reserved)
    BY <2>2 DEF Shape
  <2> QED
    BY <2>1, <2>2, <2>3 DEF AnswerAsked
<1> QED
  BY <1>1, <1>2, <1>3 DEF Answered

(* A step keeps Dropped if its answer is not what p has dropped by then.   *)
LEMMA DroppedStep ==
    ASSUME Shape, \A q \in Processes : Dropped(q), NEW p \in Processes, OthersWait(p),
           issued' \in Nat, issued' >= issued, NEW d, Drops(p, d), d \subseteq 0..issued',
           answer'[p].token = 0 \/ answer'[p].token \notin d
    PROVE  \A q \in Processes : Dropped(q)'
<1>1. Dropped(p)'
  BY DEF Drops, Dropped
<1>2. ASSUME NEW q \in Processes \ {p}
      PROVE  Dropped(q)'
  <2>1. retired'[q] \subseteq 0..issued'
    BY DEF Dropped, Drops, Shape
  <2> QED
    BY <2>1 DEF OthersWait, Drops, Dropped
<1> QED
  BY <1>1, <1>2

Shared == Shape /\ Answered /\ \A p \in Processes : Dropped(p)

(* The two together, which every provider's steps go through.              *)
LEMMA SharedStep ==
    ASSUME Shared, NEW p \in Processes, OthersWait(p), NEW m, Holds(p, m), NEW d, Drops(p, d),
           issued' \in Nat, issued' >= issued, reserved' \subseteq reserved \cup ((issued + 1)..issued'),
           d \subseteq 0..issued',
           \/ answer'[p].token = 0
           \/ /\ pc'[p] = "idle" /\ answer'[p].token \in 0..issued' /\ answer'[p].token \notin d
              /\ answer'[p].token \in reserved' => answer'[p].asked
    PROVE  Shared'
<1>1. Shape'
  BY DEF Shared, Shape, OthersWait, Holds, Drops
<1>2. Answered'
  BY AskedStep DEF Shared
<1>3. \A q \in Processes : Dropped(q)'
  BY DroppedStep DEF Shared
<1> QED
  BY <1>1, <1>2, <1>3 DEF Shared

(* A provider starts with no request, no answer and nothing dropped.       *)
LEMMA SharedInit ==
    ASSUME /\ issued \in Nat /\ reserved \subseteq 1..issued /\ retired = [p \in Processes |-> {}]
           /\ pc = [p \in Processes |-> "idle"] /\ local = [p \in Processes |-> 0]
           /\ req = [p \in Processes |-> NoRequest] /\ asked = [p \in Processes |-> FALSE]
           /\ answer = [p \in Processes |-> NoToken],
           NEW held, memory = [p \in Processes |-> held]
    PROVE  Shared
<1>1. Shape
  BY DEF Shape, OfProcesses
<1>2. \A p \in Processes : answer[p].token = 0 /\ retired[p] = {}
  BY NoTokenInIt
<1> QED
  BY <1>1, <1>2 DEF Shared, Answered, AnswerAsked, Dropped

-----------------------------------------------------------------------------
(* What is known of the question to the person.                            *)

Yes(p) == answer[p].write => answer[p].asked

(* An empty answer and an error are the answer to no write.                *)
LEMMA NothingWritten == ~ NoToken.write /\ \A what : ~ Failed(what).write
BY DEF NoToken, Failed

(* What a step of a request does with it, and with the answer.             *)
LEMMA Asking ==
    ASSUME Shape, NEW p \in Processes
    PROVE  /\ \A r, step, values : Begin(p, r, step, values) =>
                  /\ OthersWait(p) /\ pc[p] = "idle" /\ pc'[p] = step /\ req'[p] = r /\ local'[p] = values
                  /\ ~ asked'[p] /\ ~ answer'[p].write
           /\ \A r, a : AtOnce(p, r, a) =>
                  OthersWait(p) /\ pc[p] = "idle" /\ pc'[p] = "idle" /\ answer'[p] = a
           /\ \A step, values : GoOn(p, step, values) =>
                  /\ OthersWait(p) /\ pc'[p] = step /\ req'[p] = req[p] /\ local'[p] = values
                  /\ (Asked(p) => asked'[p]) /\ answer'[p] = answer[p]
           /\ \A a : Reply(p, a) => OthersWait(p) /\ pc'[p] = "idle" /\ answer'[p] = a
           /\ \A fresh : Restart(p, fresh) => OthersWait(p) /\ pc'[p] = "idle" /\ ~ answer'[p].write
<1>1. ASSUME NEW r, NEW step, NEW values, Begin(p, r, step, values)
      PROVE  /\ OthersWait(p) /\ pc[p] = "idle" /\ pc'[p] = step /\ req'[p] = r /\ local'[p] = values
             /\ ~ asked'[p] /\ ~ answer'[p].write
  <2>1. ~ asked'[p]
    BY <1>1 DEF Shape, OfProcesses, Begin
  <2> QED
    BY <1>1, <2>1, Begins, NothingWritten DEF Turned
<1>2. ASSUME NEW step, NEW values, GoOn(p, step, values)
      PROVE  /\ OthersWait(p) /\ pc'[p] = step /\ req'[p] = req[p] /\ local'[p] = values
             /\ (Asked(p) => asked'[p]) /\ answer'[p] = answer[p]
  <2>1. Asked(p) => asked'[p]
    BY <1>2 DEF Shape, OfProcesses, GoOn
  <2> QED
    BY <1>2, <2>1, GoesOn DEF Turned
<1> QED
  BY <1>1, <1>2, AnsweredAtOnce, Replies, Restarts, NothingWritten DEF Turned

(* What is shared has the first property in it.                            *)
LEMMA SharedSafe ==
    ASSUME Shared
    PROVE  RetiredNotGiven
BY DEF Shared, Dropped, RetiredNotGiven

(* With what is known of the question, the second.                         *)
LEMMA YesSafe ==
    ASSUME Shared, \A p \in Processes : Yes(p)
    PROVE  ReleasedOnYes
BY DEF Shared, Answered, AnswerAsked, Yes, ReleasedOnYes

(* A request comes, goes on or is answered: where to, with what in hand,   *)
(* and with which token.                                                   *)
Moves(p, steps, inHand, tokens) ==
    /\ OthersWait(p) /\ pc'[p] \in steps
    /\ pc'[p] = "idle" \/ local'[p] \in inHand
    /\ answer'[p].token = 0 \/ (pc'[p] = "idle" /\ answer'[p].token \in tokens)

(* The ways to go on that Moves stands for.                                *)
LEMMA Moving ==
    ASSUME Shape, Answered, NEW p \in Processes, NEW steps, "idle" \in steps, NEW inHand, NEW tokens
    PROVE  /\ \A r : \A step \in steps, values \in inHand :
                  Begin(p, r, step, values) => Moves(p, steps, inHand, tokens)
           /\ \A step \in steps, values \in inHand :
                  pc[p] # "idle" /\ GoOn(p, step, values) => Moves(p, steps, inHand, tokens)
           /\ \A r, a : AtOnce(p, r, a) /\ a.token \in tokens \cup {0} => Moves(p, steps, inHand, tokens)
           /\ \A a : Reply(p, a) /\ a.token \in tokens \cup {0} => Moves(p, steps, inHand, tokens)
           /\ \A r, what : AtOnce(p, r, Failed(what)) => Moves(p, steps, inHand, tokens)
           /\ \A what : Reply(p, Failed(what)) => Moves(p, steps, inHand, tokens)
<1>1. ASSUME NEW step \in steps, NEW r, NEW values \in inHand, Begin(p, r, step, values)
      PROVE  Moves(p, steps, inHand, tokens)
  BY <1>1, Begins DEF Turned, Moves
<1>2. ASSUME NEW step \in steps, NEW values \in inHand, pc[p] # "idle", GoOn(p, step, values)
      PROVE  Moves(p, steps, inHand, tokens)
  BY <1>2, GoesOn DEF Turned, Moves, Answered, AnswerAsked
<1>3. ASSUME NEW r, NEW a, AtOnce(p, r, a), a.token \in tokens \cup {0}
      PROVE  Moves(p, steps, inHand, tokens)
  BY <1>3, AnsweredAtOnce DEF Turned, Moves
<1>4. ASSUME NEW a, Reply(p, a), a.token \in tokens \cup {0}
      PROVE  Moves(p, steps, inHand, tokens)
  BY <1>4, Replies DEF Turned, Moves
<1> QED
  BY <1>1, <1>2, <1>3, <1>4, NoTokenInIt

-----------------------------------------------------------------------------
(* Google.                                                                 *)

GoogleMemory == [access : Nat, held : Nat]

(* What is kept in memory was handed out by the process, since it last was *)
(* told to drop it, and may not write; what it has to revoke is removed    *)
(* from the store.                                                         *)
GoogleProcess(p) ==
    /\ memory[p] \in GoogleMemory
    /\ memory[p].held \in 0..issued /\ memory[p].held \notin reserved
    /\ memory[p].held \notin retired[p] \ {0}
    /\ pc[p] # "idle" => local[p] \in Nat
    /\ pc[p] = "revoke" => local[p] \in ended

GoogleKept ==
    \A t \in good \ lost : t = store \/ \E p \in Processes : pc[p] = "revoke" /\ local[p] = t

GoogleInv ==
    /\ Shared
    /\ store \in 0..issued /\ ended \subseteq 1..issued /\ good \subseteq 1..issued
    /\ GoogleKept /\ store \notin ended /\ store \in good \cup {0}
    /\ \A p \in Processes : GoogleProcess(p)

(* The module's own copies of the shared operators are the operators.      *)
LEMMA GoogleShared ==
    /\ \A p, r, step, values : Google!Begin(p, r, step, values) <=> Begin(p, r, step, values)
    /\ \A p, r, a : Google!AtOnce(p, r, a) <=> AtOnce(p, r, a)
    /\ \A p, step, values : Google!GoOn(p, step, values) <=> GoOn(p, step, values)
    /\ \A p, a : Google!Reply(p, a) <=> Reply(p, a)
    /\ \A p, fresh : Google!Restart(p, fresh) <=> Restart(p, fresh)
    /\ \A what : Google!Failed(what) = Failed(what)
    /\ Google!NoToken = NoToken
BY DEF Google!Begin, Begin, Google!AtOnce, AtOnce, Google!Take, Take, Google!GoOn, GoOn,
       Google!Reply, Reply, Google!Restart, Restart, Google!NoRequest, NoRequest,
       Google!NoToken, NoToken, Google!Failed, Failed, Google!Asked, Asked

(* A write is past its prompt.                                             *)
GoogleYes(p) == pc[p] \in {"refresh", "impersonate"} /\ req[p].write => asked[p]

GoogleAsks == \A p \in Processes : Yes(p) /\ GoogleYes(p)

(* The parts of a step that are the same for all of them.                  *)
LEMMA GoogleStep ==
    ASSUME GoogleInv, NEW p \in Processes, OthersWait(p), NEW m \in GoogleMemory, Holds(p, m),
           NEW d, Drops(p, d), d \subseteq 0..issued,
           issued' \in {issued, issued + 1}, reserved' \subseteq reserved \cup ((issued + 1)..issued'),
           \/ answer'[p].token = 0
           \/ /\ pc'[p] = "idle" /\ answer'[p].token \in 0..issued' /\ answer'[p].token \notin d
              /\ answer'[p].token \in reserved' => answer'[p].asked,
           m.held = 0 \/ (m.held \in 0..issued' /\ m.held \notin reserved' /\ m.held \notin d),
           ended \subseteq ended', pc'[p] # "idle" => local'[p] \in Nat,
           pc'[p] = "revoke" => local'[p] \in ended'
    PROVE  Shared' /\ \A q \in Processes : GoogleProcess(q)'
<1>1. Shared /\ issued \in Nat /\ issued' \in Nat /\ issued' >= issued /\ d \subseteq 0..issued'
  BY DEF GoogleInv, Shared, Shape
<1>2. Shared'
  BY <1>1, SharedStep
<1>3. reserved' \subseteq 1..issued'
  BY <1>2 DEF Shared, Answered
<1>4. GoogleProcess(p)'
  BY <1>1, <1>3 DEF GoogleProcess, Holds, Drops
<1>5. ASSUME NEW q \in Processes \ {p}
      PROVE  GoogleProcess(q)'
  <2>1. GoogleProcess(q) /\ memory'[q] = memory[q] /\ retired'[q] = retired[q]
        /\ pc'[q] = pc[q] /\ local'[q] = local[q]
    BY DEF GoogleInv, Holds, Drops, OthersWait
  <2>2. memory[q].held \in 0..issued' /\ memory[q].held \notin reserved'
    BY <1>1, <2>1 DEF GoogleProcess
  <2> QED
    BY <2>1, <2>2 DEF GoogleProcess
<1> QED
  BY <1>2, <1>4, <1>5

(* A request that comes, goes on or fails.                                 *)
LEMMA GoogleQuiet ==
    ASSUME GoogleInv, NEW p \in Processes, pc[p] # "revoke",
           NEW steps, "revoke" \notin steps, NEW inHand \in SUBSET Nat, Moves(p, steps, inHand, {memory[p].held}),
           NEW m \in GoogleMemory, m.held = memory[p].held, Holds(p, m),
           UNCHANGED <<store, good, issued, history>>
    PROVE  GoogleInv'
<1>1. Shared /\ issued \in Nat /\ Drops(p, retired[p]) /\ GoogleProcess(p) /\ Dropped(p)
  BY DropsThis DEF GoogleInv, Shared, Shape, history
<1>2. Shared' /\ \A q \in Processes : GoogleProcess(q)'
  BY <1>1, GoogleStep DEF history, Dropped, GoogleProcess, Moves
<1>3. GoogleKept'
  <2>1. GoogleKept /\ UNCHANGED <<store, good, lost>>
    BY DEF GoogleInv, history
  <2>2. \A q \in Processes : pc[q] = "revoke" => pc'[q] = "revoke" /\ local'[q] = local[q]
    BY DEF Moves, OthersWait
  <2> QED
    BY <2>1, <2>2 DEF GoogleKept
<1> QED
  BY <1>2, <1>3 DEF GoogleInv, history

(* userToken, at the start of a request and after the confirmation.        *)
LEMMA GoogleUserToken ==
    ASSUME GoogleInv, NEW p \in Processes, NEW r, Google!UserToken(p, r),
           NEW steps, {"idle", "refresh", "impersonate"} \subseteq steps,
           NEW inHand, {store, memory[p].access} \subseteq inHand, NEW tokens
    PROVE  Moves(p, steps, inHand, tokens)
<1>1. Shape /\ Answered
  BY DEF GoogleInv, Shared
<1>2. ASSUME NEW step \in steps, NEW values \in inHand, Google!Awaits(p, r, step, values)
      PROVE  Moves(p, steps, inHand, tokens)
  <2>1. CASE pc[p] = "idle"
    BY <1>1, <1>2, <2>1, Moving, GoogleShared DEF Google!Awaits
  <2>2. CASE pc[p] # "idle"
    BY <1>1, <1>2, <2>2, Moving, GoogleShared DEF Google!Awaits
  <2> QED
    BY <2>1, <2>2
<1>3. ASSUME Google!Answers(p, r, Google!Failed("other"))
      PROVE  Moves(p, steps, inHand, tokens)
  BY <1>1, <1>3, Moving, GoogleShared DEF Google!Answers
<1> QED
  BY <1>2, <1>3 DEF Google!UserToken

(* What the service accepts is recorded still, or counted as lost.         *)
LEMMA GoogleKeeps ==
    ASSUME GoogleKept, NEW p \in Processes, OthersWait(p),
           \A t \in good' \ lost' :
               \/ t = store' \/ (pc'[p] = "revoke" /\ local'[p] = t)
               \/ t \in good \ lost /\ t # store /\ ~ (pc[p] = "revoke" /\ local[p] = t)
    PROVE  GoogleKept'
<1>1. SUFFICES ASSUME NEW t \in good' \ lost', t # store', ~ (pc'[p] = "revoke" /\ local'[p] = t)
               PROVE  \E q \in Processes : pc'[q] = "revoke" /\ local'[q] = t
  BY DEF GoogleKept
<1>2. PICK q \in Processes \ {p} : pc[q] = "revoke" /\ local[q] = t
  BY <1>1 DEF GoogleKept
<1> QED
  BY <1>2 DEF OthersWait

LEMMA GoogleGet ==
    ASSUME GoogleInv, NEW p \in Processes, NEW r, Google!Get(p, r)
    PROVE  GoogleInv'
<1> DEFINE steps == {"idle", "exchange", "confirm", "refresh", "impersonate"}
           inHand == {0, store, memory[p].access}
           tokens == {memory[p].held}
<1>1. Shape /\ Answered /\ GoogleProcess(p) /\ inHand \subseteq Nat
  BY DEF GoogleInv, GoogleProcess, GoogleMemory, Shared, Shape
<1>2. Moves(p, steps, inHand, tokens)
  <2>1. ASSUME NEW what, Google!AtOnce(p, r, Google!Failed(what))
        PROVE  Moves(p, steps, inHand, tokens)
    BY <1>1, <2>1, Moving, GoogleShared
  <2>2. ASSUME Google!AtOnce(p, r, Google!Gives(p, r, Google!Held(p, r), FALSE))
        PROVE  Moves(p, steps, inHand, tokens)
    <3>1. Google!Gives(p, r, Google!Held(p, r), FALSE).token \in tokens \cup {0}
      BY DEF Google!Gives, Google!Held
    <3> QED
      BY <1>1, <2>2, <3>1, Moving, GoogleShared
  <2>3. ASSUME NEW step \in steps, Google!Begin(p, r, step, 0)
        PROVE  Moves(p, steps, inHand, tokens)
    BY <1>1, <2>3, Moving, GoogleShared
  <2>4. ASSUME Google!UserToken(p, r)
        PROVE  Moves(p, steps, inHand, tokens)
    BY <2>4, GoogleUserToken
  <2> QED
    BY <2>1, <2>2, <2>3, <2>4 DEF Google!Get
<1>3. pc[p] # "revoke" /\ UNCHANGED <<store, good, issued, history, memory>>
  BY DEF Google!Get, Google!service, Google!history, service, history
<1> QED
  BY <1>1, <1>2, <1>3, GoogleQuiet, HoldsThis DEF GoogleProcess

LEMMA GoogleConfirm ==
    ASSUME GoogleInv, NEW p \in Processes, Google!Confirm(p)
    PROVE  GoogleInv'
<1> DEFINE steps == {"idle", "refresh", "impersonate"}
           inHand == {store, memory[p].access}
           tokens == {memory[p].held}
<1>1. Shape /\ Answered /\ GoogleProcess(p) /\ inHand \subseteq Nat
  BY DEF GoogleInv, GoogleProcess, GoogleMemory, Shared, Shape
<1>2. ASSUME Google!Reply(p, Google!Failed("other"))
      PROVE  Moves(p, steps, inHand, tokens)
  BY <1>1, <1>2, Moving, GoogleShared
<1>3. Moves(p, steps, inHand, tokens)
  BY <1>2, GoogleUserToken DEF Google!Confirm
<1>4. pc[p] # "revoke" /\ UNCHANGED <<store, good, issued, history, memory>>
  BY DEF Google!Confirm, Google!service, Google!history, service, history
<1> QED
  BY <1>1, <1>3, <1>4, GoogleQuiet, HoldsThis DEF GoogleProcess

LEMMA GoogleRefresh ==
    ASSUME GoogleInv, NEW p \in Processes, Google!Refresh(p)
    PROVE  GoogleInv'
<1> DEFINE steps == {"idle", "impersonate"}
           inHand == {local[p]}
           m == [memory[p] EXCEPT !.access = local[p]]
<1>1. Shape /\ Answered /\ GoogleProcess(p) /\ pc[p] = "refresh"
  BY DEF Google!Refresh, GoogleInv, Shared
<1>2. m \in GoogleMemory /\ m.held = memory[p].held /\ inHand \in SUBSET Nat
  BY <1>1 DEF GoogleProcess, GoogleMemory
<1>3. memory' = [memory EXCEPT ![p] = m]
  BY <1>1 DEF Google!Refresh, GoogleProcess, GoogleMemory
<1>4. Holds(p, m)
  BY <1>1, <1>3, HoldsThis
<1>5. Moves(p, steps, inHand, {memory[p].held})
  BY <1>1, Moving, GoogleShared DEF Google!Refresh
<1>6. UNCHANGED <<store, good, issued, history>>
  BY DEF Google!Refresh, Google!service, Google!history, service, history
<1> QED
  BY <1>1, <1>2, <1>4, <1>5, <1>6, GoogleQuiet

LEMMA GoogleErase ==
    ASSUME GoogleInv, NEW p \in Processes, NEW r, Google!Erase(p, r)
    PROVE  GoogleInv'
<1>1. Shape /\ GoogleProcess(p) /\ AtOnce(p, r, NoToken)
  BY GoogleShared DEF GoogleInv, Shared, Google!Erase
<1>2. Turned(p, "idle", req[p], local[p], NoToken) /\ answer'[p].token = 0 /\ pc[p] = "idle"
  BY <1>1, AnsweredAtOnce, NoTokenInIt DEF Turned
<1>3. Holds(p, Google!Nothing) /\ Drops(p, 1..issued)
  BY <1>1, HoldsThis, DropsThis DEF Google!Erase, Google!Forget
<1>4. Google!Nothing \in GoogleMemory /\ Google!Nothing.held = 0 /\ 1..issued \subseteq 0..issued
  BY DEF Google!Nothing, GoogleMemory
<1>5. UNCHANGED <<store, good, issued, reserved, ended, lost>>
  BY DEF Google!Erase, Google!Forget, Google!service, service
<1>6. Shared' /\ \A q \in Processes : GoogleProcess(q)'
  BY <1>2, <1>3, <1>4, <1>5, GoogleStep DEF Turned
<1>7. GoogleKept'
  BY <1>2, <1>5 DEF GoogleInv, GoogleKept, Turned, OthersWait
<1> QED
  BY <1>5, <1>6, <1>7 DEF GoogleInv

LEMMA GoogleLogin ==
    ASSUME GoogleInv, NEW p \in Processes, NEW r, Google!Login(p, r)
    PROVE  GoogleInv'
<1>1. Shape /\ Answered /\ GoogleProcess(p)
  BY DEF GoogleInv, Shared
<1>2. Moves(p, {"idle", "sign-in"}, {0}, {memory[p].held})
  BY <1>1, Moving, GoogleShared DEF Google!Login
<1>3. pc[p] = "idle"
  BY <1>1, Begins, AnsweredAtOnce, GoogleShared DEF Google!Login
<1>4. UNCHANGED <<store, good, issued, history, memory>>
  BY DEF Google!Login, Google!service, Google!history, service, history
<1> QED
  BY <1>1, <1>2, <1>3, <1>4, GoogleQuiet, HoldsThis DEF GoogleProcess

LEMMA GoogleMint ==
    ASSUME GoogleInv, GoogleAsks, NEW p \in Processes, Google!Mint(p)
    PROVE  GoogleInv'
<1> DEFINE n == issued + 1
           m == IF req[p].write THEN memory[p] ELSE [memory[p] EXCEPT !.held = n]
<1>1. Shape /\ Answered /\ GoogleProcess(p) /\ Dropped(p) /\ issued \in Nat
  BY DEF GoogleInv, Shared, Shape
<1>2. /\ pc[p] \in {"exchange", "impersonate"} /\ issued' = n /\ good' = good
      /\ UNCHANGED <<ci, store, retired, ended, lost>>
      /\ reserved' = IF req[p].write THEN reserved \cup {n} ELSE reserved
  BY DEF Google!Mint, Google!Impersonates, Google!Issue, Google!New
<1> DEFINE a == Google!Gives(p, req[p], n, pc[p] = "exchange")
<1>3. Turned(p, "idle", NoRequest, 0, a)
  BY <1>1, Replies, GoogleShared DEF Google!Mint, Google!New
<1>4. a.token = n /\ (req[p].write => a.asked)
  BY <1>2 DEF Google!Gives, GoogleAsks, GoogleYes, Google!Asked
<1> HIDE DEF a
<1>5. m \in GoogleMemory /\ (m.held = memory[p].held \/ (m.held = n /\ ~ req[p].write))
  BY <1>1 DEF GoogleProcess, GoogleMemory
<1>6. memory' = [memory EXCEPT ![p] = m]
  <2>1. CASE req[p].write
    BY <1>1, <2>1 DEF Google!Mint, Shape, OfProcesses
  <2>2. CASE ~ req[p].write
    BY <2>2 DEF Google!Mint, Google!New
  <2> QED
    BY <2>1, <2>2
<1>7. Holds(p, m) /\ Drops(p, retired[p])
  BY <1>1, <1>2, <1>6, HoldsThis, DropsThis
<1> HIDE DEF m
<1>8. reserved \subseteq 1..issued /\ n \notin retired[p] /\ n \notin reserved
  BY <1>1 DEF Answered, Dropped
<1>9. Shared' /\ \A q \in Processes : GoogleProcess(q)'
  <2>1. m.held = 0 \/ (m.held \in 0..issued' /\ m.held \notin reserved' /\ m.held \notin retired[p])
    BY <1>1, <1>2, <1>5, <1>8 DEF GoogleProcess
  <2>2. /\ answer'[p].token \in 0..issued' /\ answer'[p].token \notin retired[p]
        /\ answer'[p].token \in reserved' => answer'[p].asked
    BY <1>1, <1>2, <1>3, <1>4, <1>8 DEF Turned
  <2>3. retired[p] \subseteq 0..issued /\ reserved' \subseteq reserved \cup ((issued + 1)..issued')
    BY <1>1, <1>2 DEF Dropped
  <2> QED
    BY <1>2, <1>3, <1>5, <1>7, <2>1, <2>2, <2>3, GoogleStep DEF Turned
<1>10. GoogleKept'
  BY <1>2, <1>3, GoogleKeeps DEF GoogleInv, Turned
<1> QED
  BY <1>1, <1>2, <1>9, <1>10 DEF GoogleInv

(* What was made of a sign-in is forgotten when it goes, and whatever was  *)
(* handed out so far is not to be handed out again.                        *)
LEMMA GoogleForgets ==
    ASSUME GoogleInv, NEW p \in Processes, Google!Forget(p), OthersWait(p), answer'[p].token = 0,
           issued' \in {issued, issued + 1}, UNCHANGED reserved, ended \subseteq ended',
           pc'[p] # "idle" => local'[p] \in Nat, pc'[p] = "revoke" => local'[p] \in ended'
    PROVE  Shared' /\ \A q \in Processes : GoogleProcess(q)'
<1>1. Holds(p, Google!Nothing) /\ Drops(p, 1..issued)
  BY HoldsThis, DropsThis DEF GoogleInv, Shared, Google!Forget
<1>2. Google!Nothing \in GoogleMemory /\ Google!Nothing.held = 0 /\ 1..issued \subseteq 0..issued
  BY DEF Google!Nothing, GoogleMemory
<1> QED
  BY <1>1, <1>2, GoogleStep

LEMMA GoogleSignedIn ==
    ASSUME GoogleInv, NEW p \in Processes, Google!SignedIn(p)
    PROVE  GoogleInv'
<1> DEFINE n == issued + 1
<1>1. Shape /\ issued \in Nat /\ pc[p] = "sign-in"
  BY DEF GoogleInv, Shared, Shape, Google!SignedIn
<1>2. /\ issued' = n /\ good' = good \cup {n} /\ store' = n /\ Google!Forget(p)
      /\ ended' = ended \cup ({store} \ {0}) /\ UNCHANGED <<ci, reserved, lost>>
  BY DEF Google!SignedIn, Google!ExchangesCode, Google!Issue, Google!New
<1>3. /\ OthersWait(p) /\ answer'[p].token = 0
      /\ IF store = 0 THEN pc'[p] = "idle" ELSE pc'[p] = "revoke" /\ local'[p] = store
  BY <1>1, Replies, GoesOn, NoTokenInIt, GoogleShared
     DEF Google!SignedIn, Turned, GoogleInv, Shared, Answered, AnswerAsked
<1>a. store \in Nat /\ store \in ended' \cup {0}
  BY <1>1, <1>2 DEF GoogleInv
<1>4. Shared' /\ \A q \in Processes : GoogleProcess(q)'
  BY <1>1, <1>2, <1>3, <1>a, GoogleForgets
<1>5. GoogleKept'
  BY <1>1, <1>2, <1>3, GoogleKeeps DEF GoogleInv
<1>6. ended' \subseteq 1..issued' /\ good' \subseteq 1..issued' /\ store' \notin ended'
  BY <1>1, <1>2 DEF GoogleInv
<1> QED
  BY <1>1, <1>2, <1>4, <1>5, <1>6 DEF GoogleInv

LEMMA GoogleLogout ==
    ASSUME GoogleInv, NEW p \in Processes, NEW r, Google!Logout(p, r)
    PROVE  GoogleInv'
<1>1. Shape /\ Answered /\ GoogleProcess(p) /\ UNCHANGED <<ci, good, issued, reserved, lost>>
  BY DEF GoogleInv, Shared, Google!Logout, Google!service, service
<1>2. CASE store = 0
  <2>1. AtOnce(p, r, Failed("not-found")) /\ UNCHANGED <<store, memory, retired, ended>>
    BY <1>2, GoogleShared DEF Google!Logout
  <2>2. Moves(p, {"idle"}, {}, {memory[p].held}) /\ pc[p] = "idle"
    BY <1>1, <2>1, Moving, AnsweredAtOnce
  <2> QED
    BY <1>1, <2>1, <2>2, GoogleQuiet, HoldsThis DEF GoogleProcess, history
<1>3. CASE store # 0
  <2>1. /\ Begin(p, r, "revoke", store) /\ store' = 0 /\ Google!Forget(p)
        /\ ended' = ended \cup {store}
    BY <1>3, GoogleShared DEF Google!Logout
  <2>2. /\ OthersWait(p) /\ answer'[p].token = 0 /\ pc[p] = "idle"
        /\ pc'[p] = "revoke" /\ local'[p] = store
    BY <1>1, <2>1, Begins DEF Turned
  <2>3. Shared' /\ \A q \in Processes : GoogleProcess(q)'
    BY <1>1, <2>1, <2>2, GoogleForgets DEF GoogleInv
  <2>4. GoogleKept'
    BY <1>1, <2>1, <2>2 DEF GoogleInv, GoogleKept, OthersWait
  <2>5. store \in 1..issued /\ 0 \in 0..issued
    BY <1>1, <1>3 DEF GoogleInv, Shape
  <2> QED
    BY <1>1, <2>1, <2>3, <2>4, <2>5 DEF GoogleInv
<1> QED
  BY <1>2, <1>3

(* A request that ends with nothing: what it had in hand to revoke is      *)
(* revoked, or counted as lost, and so is what the service issued unseen.  *)
LEMMA GoogleEnds ==
    ASSUME GoogleInv, NEW p \in Processes, OthersWait(p), pc'[p] = "idle", answer'[p].token = 0,
           NEW m \in GoogleMemory, Holds(p, m), m.held \in {0, memory[p].held},
           NEW d \in {{}, retired[p]}, Drops(p, d), UNCHANGED <<store, reserved, ended>>,
           issued' \in {issued, issued + 1}, good' \subseteq 1..issued', store = 0 \/ store \in good',
           \A t \in good' \ lost' : t \in good \ lost /\ ~ (pc[p] = "revoke" /\ local[p] = t)
    PROVE  GoogleInv'
<1>1. issued \in Nat /\ GoogleProcess(p) /\ Dropped(p) /\ issued' >= issued
  BY DEF GoogleInv, Shared, Shape
<1>2. d \subseteq 0..issued /\ memory[p].held \notin d \ {0}
  BY <1>1 DEF Dropped, GoogleProcess
<1>3. Shared' /\ \A q \in Processes : GoogleProcess(q)'
  <2>1. m.held = 0 \/ (m.held \in 0..issued' /\ m.held \notin reserved' /\ m.held \notin d)
    BY <1>1, <1>2 DEF GoogleProcess
  <2> QED
    BY <1>2, <2>1, GoogleStep
<1>4. GoogleKept'
  BY GoogleKeeps DEF GoogleInv
<1> QED
  BY <1>1, <1>3, <1>4 DEF GoogleInv

LEMMA GoogleRevoke ==
    ASSUME GoogleInv, NEW p \in Processes, Google!Revoke(p)
    PROVE  GoogleInv'
<1>1. Shape /\ GoogleProcess(p) /\ pc[p] = "revoke" /\ UNCHANGED <<store, memory, reserved, retired, ended, issued>>
  BY DEF GoogleInv, Shared, Google!Revoke, Google!Revokes, Google!service, service
<1>2. OthersWait(p) /\ pc'[p] = "idle" /\ answer'[p].token = 0
  BY <1>1, Replies, NoTokenInIt, GoogleShared DEF Google!Revoke, Turned
<1>3. \/ good' = good \ {local[p]} /\ lost' = lost
      \/ lost' = lost \cup {local[p]} /\ good' = good
  BY DEF Google!Revoke, Google!Revokes, Google!service, service
<1>4. local[p] # store
  BY <1>1 DEF GoogleInv, GoogleProcess
<1>5. Holds(p, memory[p]) /\ Drops(p, retired[p]) /\ memory[p] \in GoogleMemory
  BY <1>1, HoldsThis, DropsThis DEF GoogleProcess
<1> QED
  BY <1>1, <1>2, <1>3, <1>4, <1>5, GoogleEnds DEF GoogleInv

LEMMA GoogleCallFails ==
    ASSUME GoogleInv, NEW p \in Processes, Google!CallFails(p)
    PROVE  GoogleInv'
<1>1. Shape /\ issued \in Nat /\ GoogleProcess(p) /\ pc[p] # "revoke" /\ UNCHANGED <<store, memory, reserved, retired, ended>>
  BY DEF GoogleInv, Shared, Shape, Google!CallFails
<1>2. OthersWait(p) /\ pc'[p] = "idle" /\ answer'[p].token = 0
  BY <1>1, Replies, NoTokenInIt, GoogleShared DEF Google!CallFails, Google!CallError, Turned
<1>3. \/ UNCHANGED <<good, issued, lost>>
      \/ issued' = issued + 1 /\ good' = good \cup {issued + 1} /\ lost' = lost \cup {issued + 1}
  BY DEF Google!CallFails, Google!ExchangesCode, Google!Issue, Google!New, Google!service, service
<1>4. Holds(p, memory[p]) /\ Drops(p, retired[p]) /\ memory[p] \in GoogleMemory
  BY <1>1, HoldsThis, DropsThis DEF GoogleProcess
<1>5. good' \subseteq 1..issued' /\ (store = 0 \/ store \in good')
  <2>1. good \subseteq 1..issued /\ (store = 0 \/ store \in good)
    BY DEF GoogleInv
  <2>2. CASE UNCHANGED <<good, issued, lost>>
    BY <1>1, <2>1, <2>2
  <2>3. CASE issued' = issued + 1 /\ good' = good \cup {issued + 1}
    BY <1>1, <2>1, <2>3
  <2> QED
    BY <1>3, <2>2, <2>3
<1> QED
  BY <1>1, <1>2, <1>3, <1>4, <1>5, GoogleEnds DEF GoogleInv

LEMMA GoogleStop ==
    ASSUME GoogleInv, NEW p \in Processes, Google!Stop(p)
    PROVE  GoogleInv'
<1>1. Shape /\ UNCHANGED <<store, reserved, ended, good, issued>>
  BY DEF GoogleInv, Shared, Google!Stop, Google!service, service
<1>2. /\ OthersWait(p) /\ pc'[p] = "idle" /\ answer'[p].token = 0
      /\ Holds(p, Google!Nothing) /\ Drops(p, {})
  BY <1>1, Restarts, GoogleShared DEF Google!Stop, Turned
<1>3. Google!Nothing \in GoogleMemory /\ Google!Nothing.held = 0
  BY DEF Google!Nothing, GoogleMemory
<1>4. lost' = IF pc[p] = "revoke" THEN lost \cup {local[p]} ELSE lost
  BY DEF Google!Stop
<1> QED
  BY <1>1, <1>2, <1>3, <1>4, GoogleEnds DEF GoogleInv

(* It starts in its invariant.                                             *)
LEMMA GoogleInit ==
    ASSUME Google!Init
    PROVE  GoogleInv /\ GoogleAsks
<1>1. PICK signin \in {0, 1} : /\ Google!ProcessInit(signin, Google!Nothing, {})
                               /\ good = {signin} \ {0} /\ issued = 1
  BY DEF Google!Init
<1>2. /\ store = signin /\ memory = [p \in Processes |-> Google!Nothing]
      /\ pc = [p \in Processes |-> "idle"] /\ local = [p \in Processes |-> 0]
      /\ req = [p \in Processes |-> NoRequest] /\ answer = [p \in Processes |-> NoToken]
      /\ asked = [p \in Processes |-> FALSE]
      /\ reserved = {} /\ retired = [p \in Processes |-> {}] /\ ended = {} /\ lost = {}
  BY <1>1, GoogleShared DEF Google!ProcessInit, Google!NoRequest, NoRequest
<1>3. Shared
  BY <1>1, <1>2, SharedInit
<1>4. \A p \in Processes : GoogleProcess(p)
  <2> TAKE p \in Processes
  <2>1. memory[p] = [access |-> 0, held |-> 0] /\ pc[p] = "idle"
    BY <1>2 DEF Google!Nothing
  <2> QED
    BY <1>1, <1>2, <2>1 DEF GoogleProcess, GoogleMemory
<1>5. GoogleAsks
  BY <1>2, NothingWritten DEF GoogleAsks, Yes, GoogleYes
<1> QED
  BY <1>1, <1>2, <1>3, <1>4, <1>5 DEF GoogleInv, GoogleKept

(* The question to the person, over the steps of a request.                *)
LEMMA GoogleAsksStep ==
    ASSUME GoogleAsks, NEW p \in Processes, OthersWait(p), Yes(p)', GoogleYes(p)'
    PROVE  GoogleAsks'
BY DEF GoogleAsks, OthersWait, Yes, GoogleYes

LEMMA GoogleUserTokenAsks ==
    ASSUME GoogleInv, GoogleAsks, NEW p \in Processes, NEW r, Google!UserToken(p, r),
           pc[p] = "idle" => ~ r.write, pc[p] = "idle" \/ pc[p] = "confirm"
    PROVE  GoogleAsks'
<1>1. Shape
  BY DEF GoogleInv, Shared
<1>2. ASSUME NEW step, NEW values, Google!Awaits(p, r, step, values)
      PROVE  GoogleAsks'
  <2>1. CASE pc[p] = "idle"
    BY <1>1, <1>2, <2>1, Asking, GoogleShared, GoogleAsksStep DEF Google!Awaits, Yes, GoogleYes
  <2>2. CASE pc[p] = "confirm"
    BY <1>1, <1>2, <2>2, Asking, GoogleShared, GoogleAsksStep DEF Google!Awaits, GoogleAsks, Yes, GoogleYes, Asked
  <2> QED
    BY <2>1, <2>2
<1>3. ASSUME Google!Answers(p, r, Google!Failed("other"))
      PROVE  GoogleAsks'
  BY <1>1, <1>3, Asking, NothingWritten, GoogleShared, GoogleAsksStep DEF Google!Answers, Yes, GoogleYes
<1> QED
  BY <1>2, <1>3 DEF Google!UserToken

(* A get, at its start.                                                    *)
LEMMA GoogleAsksGet ==
    ASSUME GoogleInv, GoogleAsks, NEW p \in Processes, NEW r, Google!Get(p, r)
    PROVE  GoogleAsks'
<1>1. Shape
  BY DEF GoogleInv, Shared
<1>2. ASSUME NEW what, Google!AtOnce(p, r, Google!Failed(what))
      PROVE  GoogleAsks'
  BY <1>1, <1>2, Asking, NothingWritten, GoogleShared, GoogleAsksStep DEF Yes, GoogleYes
<1>3. ASSUME Google!Held(p, r) # 0, Google!AtOnce(p, r, Google!Gives(p, r, Google!Held(p, r), FALSE))
      PROVE  GoogleAsks'
  <2>1. ~ r.write
    BY <1>3 DEF Google!Held
  <2> QED
    <3> DEFINE a == Google!Gives(p, r, Google!Held(p, r), FALSE)
    <3>1. ~ a.write /\ AtOnce(p, r, a)
      BY <1>3, <2>1, GoogleShared DEF Google!Gives
    <3> HIDE DEF a
    <3> QED
      BY <1>1, <3>1, Asking, GoogleAsksStep DEF Yes, GoogleYes
<1>4. ASSUME NEW step \in {"exchange", "confirm"}, Google!Begin(p, r, step, 0)
      PROVE  GoogleAsks'
  BY <1>1, <1>4, Asking, GoogleShared, GoogleAsksStep DEF Yes, GoogleYes
<1>5. ASSUME ~ r.write, Google!UserToken(p, r), pc[p] = "idle"
      PROVE  GoogleAsks'
  BY <1>5, GoogleUserTokenAsks
<1> QED
  BY <1>2, <1>3, <1>4, <1>5 DEF Google!Get

(* Every action keeps what is known of the question.                       *)
LEMMA GoogleAsksNext ==
    ASSUME GoogleInv, GoogleAsks, Google!Next
    PROVE  GoogleAsks'
<1>1. Shape
  BY DEF GoogleInv, Shared
<1>2. PICK p \in Processes :
        \/ \E r \in Google!Request : Google!Get(p, r) \/ Google!Erase(p, r) \/ Google!Login(p, r) \/ Google!Logout(p, r)
        \/ Google!Confirm(p) \/ Google!Refresh(p) \/ Google!Mint(p) \/ Google!SignedIn(p)
        \/ Google!Revoke(p) \/ Google!CallFails(p) \/ Google!Stop(p)
  BY DEF Google!Next
<1>3. ASSUME NEW r, Google!Erase(p, r) \/ Google!Login(p, r) \/ Google!Logout(p, r)
      PROVE  GoogleAsks'
  <2>1. OthersWait(p) /\ ~ answer'[p].write /\ pc'[p] \in {"idle", "sign-in", "revoke"}
    BY <1>1, <1>3, Asking, NothingWritten, GoogleShared DEF Google!Erase, Google!Login, Google!Logout
  <2> QED
    BY <2>1, GoogleAsksStep DEF Yes, GoogleYes
<1>4. ASSUME Google!Confirm(p)
      PROVE  GoogleAsks'
  <2>1. ASSUME Google!Reply(p, Google!Failed("other"))
        PROVE  GoogleAsks'
    BY <1>1, <2>1, Asking, NothingWritten, GoogleShared, GoogleAsksStep DEF Yes, GoogleYes
  <2> QED
    BY <1>4, <2>1, GoogleUserTokenAsks DEF Google!Confirm
<1>5. ASSUME Google!Refresh(p)
      PROVE  GoogleAsks'
  BY <1>1, <1>5, Asking, GoogleShared, GoogleAsksStep DEF Google!Refresh, GoogleAsks, Yes, GoogleYes, Asked
<1>6. ASSUME Google!Mint(p)
      PROVE  GoogleAsks'
  <2>1. PICK token : Google!Reply(p, Google!Gives(p, req[p], token, pc[p] = "exchange"))
    BY <1>6 DEF Google!Mint
  <2>2. pc[p] \in {"exchange", "impersonate"}
    BY <1>6 DEF Google!Mint
  <2> QED
    <3> DEFINE a == Google!Gives(p, req[p], token, pc[p] = "exchange")
    <3>1. a.write => a.asked
      BY <2>2 DEF GoogleAsks, GoogleYes, Google!Gives, Google!Asked
    <3>2. Reply(p, a)
      BY <2>1, GoogleShared
    <3> HIDE DEF a
    <3> QED
      BY <1>1, <3>1, <3>2, Asking, GoogleAsksStep DEF Yes, GoogleYes
<1>7. ASSUME Google!SignedIn(p) \/ Google!Revoke(p) \/ Google!CallFails(p) \/ Google!Stop(p)
      PROVE  GoogleAsks'
  <2>1. OthersWait(p) /\ pc'[p] \in {"idle", "revoke"} /\ Yes(p)'
    BY <1>1, <1>7, Asking, NothingWritten, GoogleShared
       DEF Google!SignedIn, Google!Revoke, Google!CallFails, Google!CallError, Google!Stop, GoogleAsks, Yes
  <2> QED
    BY <2>1, GoogleAsksStep DEF GoogleYes
<1> QED
  BY <1>2, <1>3, <1>4, <1>5, <1>6, <1>7, GoogleAsksGet

(* Every action keeps the invariant.                                       *)
LEMMA GoogleNext ==
    ASSUME GoogleInv, GoogleAsks, Google!Next
    PROVE  GoogleInv'
<1>1. PICK p \in Processes :
        \/ \E r \in Google!Request : Google!Get(p, r) \/ Google!Erase(p, r) \/ Google!Login(p, r) \/ Google!Logout(p, r)
        \/ Google!Confirm(p) \/ Google!Refresh(p) \/ Google!Mint(p) \/ Google!SignedIn(p)
        \/ Google!Revoke(p) \/ Google!CallFails(p) \/ Google!Stop(p)
  BY DEF Google!Next
<1> QED
  BY <1>1, GoogleGet, GoogleErase, GoogleLogin, GoogleLogout, GoogleConfirm, GoogleRefresh,
     GoogleMint, GoogleSignedIn, GoogleRevoke, GoogleCallFails, GoogleStop

(* The invariant gives the properties.                                     *)
LEMMA GoogleSafe ==
    ASSUME GoogleInv, GoogleAsks
    PROVE  /\ RetiredNotGiven /\ ReleasedOnYes
           /\ Google!NothingForgotten /\ Google!RemovedStaysRemoved /\ Google!StoredIsGood
<1>1. RetiredNotGiven /\ ReleasedOnYes
  BY SharedSafe, YesSafe DEF GoogleInv, GoogleAsks
<1>2. Google!NothingForgotten
  BY DEF GoogleInv, GoogleKept, Google!NothingForgotten
<1> QED
  BY <1>1, <1>2 DEF GoogleInv, Google!RemovedStaysRemoved, Google!StoredIsGood

-----------------------------------------------------------------------------
(* Corporate single sign-on.                                               *)

CorporateSession == [refresh : Nat, access : Nat, recent : BOOLEAN]
CorporateLocal   == [session : CorporateSession, access : Nat, renewed : BOOLEAN]

(* A good refresh token is stored, or about to be revoked, or lost.        *)
CorporateKept ==
    \A t \in good \ lost :
        t = store.refresh \/ \E p \in Processes : pc[p] = "revoke" /\ local[p].session.refresh = t

CorporateInv ==
    /\ Shared /\ CorporateKept
    /\ 0 \notin good /\ store \in CorporateSession /\ store.access <= issued
    /\ \A p \in Processes :
          /\ memory[p] \in Nat
          /\ pc[p] # "idle" => local[p] \in CorporateLocal

(* A write is past its prompt, or in a job.                                *)
CorporateYes(p) ==
    /\ pc[p] = "grant" => ci
    /\ (pc[p] = "mint" \/ (pc[p] = "refresh" /\ local[p].renewed)) /\ req[p].write => asked[p] \/ ci

CorporateAsks == \A p \in Processes : Yes(p) /\ CorporateYes(p)

(* The module's own copies of the shared operators are the operators.      *)
LEMMA CorporateShared ==
    /\ \A p, r, step, values : Corporate!Begin(p, r, step, values) <=> Begin(p, r, step, values)
    /\ \A p, r, a : Corporate!AtOnce(p, r, a) <=> AtOnce(p, r, a)
    /\ \A p, step, values : Corporate!GoOn(p, step, values) <=> GoOn(p, step, values)
    /\ \A p, a : Corporate!Reply(p, a) <=> Reply(p, a)
    /\ \A p, fresh : Corporate!Restart(p, fresh) <=> Restart(p, fresh)
    /\ \A what : Corporate!Failed(what) = Failed(what)
    /\ Corporate!NoToken = NoToken
BY DEF Corporate!Begin, Begin, Corporate!AtOnce, AtOnce, Corporate!Take, Take, Corporate!GoOn, GoOn,
       Corporate!Reply, Reply, Corporate!Restart, Restart, Corporate!NoRequest, NoRequest,
       Corporate!NoToken, NoToken, Corporate!Failed, Failed, Corporate!Asked, Asked

(* The parts of a step that are the same for all of them.                  *)
LEMMA CorporateStep ==
    ASSUME CorporateInv, NEW p \in Processes, OthersWait(p), NEW m \in Nat, Holds(p, m),
           NEW d, Drops(p, d), d \subseteq 0..issued,
           issued' \in Nat, issued' >= issued, reserved' \subseteq reserved \cup ((issued + 1)..issued'),
           0 \notin good',
           \/ answer'[p].token = 0
           \/ /\ pc'[p] = "idle" /\ answer'[p].token \in 0..issued' /\ answer'[p].token \notin d
              /\ answer'[p].token \in reserved' => answer'[p].asked,
           pc'[p] # "idle" => local'[p] \in CorporateLocal,
           store' \in CorporateSession, store'.access <= issued',
           \A t \in good' \ lost' :
               \/ t = store'.refresh \/ (pc'[p] = "revoke" /\ local'[p].session.refresh = t)
               \/ /\ t \in good \ lost /\ t # store.refresh
                  /\ ~ (pc[p] = "revoke" /\ local[p].session.refresh = t)
    PROVE  CorporateInv'
<1>1. Shared'
  <2>1. Shared /\ d \subseteq 0..issued'
    BY DEF CorporateInv, Shared, Shape
  <2> QED
    BY <2>1, SharedStep
<1>2. CorporateKept'
  <2>1. SUFFICES ASSUME NEW t \in good' \ lost', t # store'.refresh,
                        ~ (pc'[p] = "revoke" /\ local'[p].session.refresh = t)
                 PROVE  \E q \in Processes : pc'[q] = "revoke" /\ local'[q].session.refresh = t
    BY DEF CorporateKept
  <2>2. PICK q \in Processes \ {p} : pc[q] = "revoke" /\ local[q].session.refresh = t
    BY <2>1 DEF CorporateInv, CorporateKept
  <2> QED
    BY <2>2 DEF OthersWait
<1>3. ASSUME NEW q \in Processes
      PROVE  memory'[q] \in Nat /\ (pc'[q] # "idle" => local'[q] \in CorporateLocal)
  <2>1. CASE q = p
    BY <2>1 DEF Holds
  <2>2. CASE q # p
    BY <2>2 DEF CorporateInv, Holds, OthersWait
  <2> QED
    BY <2>1, <2>2
<1> QED
  BY <1>1, <1>2, <1>3 DEF CorporateInv

(* A request that comes, goes on or fails.                                 *)
LEMMA CorporateQuiet ==
    ASSUME CorporateInv, NEW p \in Processes, pc[p] # "revoke",
           NEW steps, "revoke" \notin steps, Moves(p, steps, CorporateLocal, {}),
           NEW m \in Nat, Holds(p, m), issued' \in Nat, issued' >= issued,
           UNCHANGED <<store, good, history>>
    PROVE  CorporateInv'
<1>1. /\ Shared /\ issued \in Nat /\ Drops(p, retired[p]) /\ Dropped(p)
      /\ UNCHANGED <<store, good, reserved, retired, ended, lost>> /\ 0 \notin good
  BY DropsThis DEF CorporateInv, Shared, Shape, history
<1>2. /\ store \in CorporateSession /\ store.access <= issued /\ store.access \in Nat
  BY DEF CorporateInv, CorporateSession
<1>3. /\ OthersWait(p) /\ answer'[p].token = 0 /\ (pc'[p] # "idle" => local'[p] \in CorporateLocal)
      /\ pc'[p] # "revoke"
  BY DEF Moves
<1>4. store.access <= issued' /\ retired[p] \subseteq 0..issued
  BY <1>1, <1>2 DEF Dropped
<1> QED
  BY <1>1, <1>2, <1>3, <1>4, CorporateStep

(* What the invariant says for a step of p: types, and how memory and      *)
(* drops go.                                                               *)
LEMMA CorporateTypes ==
    ASSUME CorporateInv, NEW p \in Processes
    PROVE  /\ Shape /\ Answered /\ issued \in Nat /\ store \in CorporateSession /\ memory[p] \in Nat
           /\ store.refresh \in Nat /\ store.access \in 0..issued
           /\ Holds(p, memory[p]) \/ memory' # memory
           /\ Drops(p, retired[p]) \/ retired' # retired
           /\ retired[p] \subseteq 0..issued
           /\ pc[p] # "idle" => /\ local[p] \in CorporateLocal /\ local[p].session \in CorporateSession
                                /\ local[p].session.refresh \in Nat
           /\ Corporate!Begun \in CorporateLocal /\ Corporate!Begun.session = Corporate!NoSession
           /\ Corporate!NoSession \in CorporateSession
           /\ Corporate!NoSession.refresh = 0 /\ Corporate!NoSession.access = 0
<1>1. /\ Shared /\ Shape /\ Answered /\ issued \in Nat /\ store \in CorporateSession /\ store.access <= issued
      /\ memory[p] \in Nat
      /\ pc[p] # "idle" => local[p] \in CorporateLocal
  BY DEF CorporateInv, Shared, Shape
<1>2. Holds(p, memory[p]) \/ memory' # memory
  BY <1>1, HoldsThis
<1>3. Drops(p, retired[p]) \/ retired' # retired
  BY <1>1, DropsThis
<1>4. retired[p] \subseteq 0..issued
  BY <1>1 DEF Shared, Dropped
<1>5. store.refresh \in Nat /\ store.access \in 0..issued
  BY <1>1 DEF CorporateSession
<1>6. pc[p] # "idle" => local[p].session \in CorporateSession /\ local[p].session.refresh \in Nat
  BY <1>1 DEF CorporateSession, CorporateLocal
<1>7. /\ Corporate!Begun \in CorporateLocal /\ Corporate!Begun.session = Corporate!NoSession
      /\ Corporate!NoSession \in CorporateSession
      /\ Corporate!NoSession.refresh = 0 /\ Corporate!NoSession.access = 0
  BY DEF CorporateLocal, CorporateSession, Corporate!Begun, Corporate!NoSession
<1> QED
  BY <1>1, <1>2, <1>3, <1>4, <1>5, <1>6, <1>7


(* A request that awaits what comes next, at its start or after an await.  *)
LEMMA CorporateAwaits ==
    ASSUME CorporateInv, NEW p \in Processes, NEW r, NEW steps, "idle" \in steps
    PROVE  /\ \A step \in steps, values \in CorporateLocal :
                  Corporate!Awaits(p, r, step, values) => Moves(p, steps, CorporateLocal, {})
           /\ \A what : Corporate!Answers(p, r, Corporate!Failed(what)) => Moves(p, steps, CorporateLocal, {})
<1>1. Shape /\ Answered
  BY DEF CorporateInv, Shared
<1>2. ASSUME NEW step \in steps, NEW values \in CorporateLocal, Corporate!Awaits(p, r, step, values)
      PROVE  Moves(p, steps, CorporateLocal, {})
  <2>1. CASE pc[p] = "idle"
    BY <1>1, <1>2, <2>1, Moving, CorporateShared DEF Corporate!Awaits
  <2>2. CASE pc[p] # "idle"
    BY <1>1, <1>2, <2>2, Moving, CorporateShared DEF Corporate!Awaits
  <2> QED
    BY <2>1, <2>2
<1>3. ASSUME NEW what, Corporate!Answers(p, r, Corporate!Failed(what))
      PROVE  Moves(p, steps, CorporateLocal, {})
  BY <1>1, <1>3, Moving, CorporateShared DEF Corporate!Answers
<1> QED
  BY <1>2, <1>3

LEMMA CorporateGet ==
    ASSUME CorporateInv, NEW p \in Processes, NEW r, Corporate!Get(p, r)
    PROVE  CorporateInv'
<1> DEFINE steps == {"idle", "grant", "mint", "device", "refresh", "userinfo", "confirm"}
           moves == Moves(p, steps, CorporateLocal, {})
<1>1. pc[p] = "idle" /\ UNCHANGED <<store, good, issued, history, memory>>
  BY DEF Corporate!Get, Corporate!service, Corporate!history, service, history
<1>2. ASSUME NEW what, Corporate!AtOnce(p, r, Corporate!Failed(what))
      PROVE  moves
  BY <1>2, Moving, CorporateShared, CorporateTypes
<1>3. ASSUME NEW step \in steps, NEW values \in CorporateLocal, Corporate!Begin(p, r, step, values)
      PROVE  moves
  BY <1>3, Moving, CorporateShared, CorporateTypes
<1>4. [Corporate!Begun EXCEPT !.access = memory[p]] \in CorporateLocal /\ Corporate!Begun \in CorporateLocal
  BY CorporateTypes DEF CorporateLocal
<1>5. ASSUME Corporate!SessionAccess(p, r)
      PROVE  moves
  <2>1. /\ [Corporate!Begun EXCEPT !.access = store.access] \in CorporateLocal
        /\ [Corporate!Begun EXCEPT !.session = store] \in CorporateLocal
    BY CorporateTypes DEF CorporateLocal
  <2>2. Corporate!WithAccess(r, r.retry = "403") \in steps
    BY DEF Corporate!WithAccess
  <2> QED
    BY <1>5, <2>1, <2>2, CorporateAwaits DEF Corporate!SessionAccess
<1>6. moves
  BY <1>2, <1>3, <1>4, <1>5 DEF Corporate!Get
<1> QED
  BY <1>1, <1>6, CorporateTypes, CorporateQuiet

(* A request that goes on past its prompt, if it is a write.               *)
LEMMA CorporateGoesOn ==
    ASSUME CorporateInv, NEW p \in Processes, pc[p] \notin {"idle", "revoke"},
           UNCHANGED <<ci, store, Corporate!service, memory, Corporate!history>>,
           \/ \E what : Corporate!Reply(p, Corporate!Failed(what))
           \/ \E step \in {"grant", "mint", "device", "refresh", "userinfo", "confirm"},
                 values \in CorporateLocal : Corporate!GoOn(p, step, values)
    PROVE  CorporateInv'
<1> DEFINE steps == {"idle", "grant", "mint", "device", "refresh", "userinfo", "confirm"}
<1>1. Moves(p, steps, CorporateLocal, {})
  BY Moving, CorporateShared, CorporateTypes
<1> QED
  BY <1>1, CorporateTypes, CorporateQuiet DEF Corporate!service, Corporate!history, history

LEMMA CorporateOnward ==
    ASSUME CorporateInv, NEW p \in Processes,
           Corporate!DeadLogin(p) \/ Corporate!Userinfo(p) \/ Corporate!Confirm(p) \/ Corporate!Renew(p)
    PROVE  CorporateInv'
<1>1. CASE Corporate!DeadLogin(p)
  BY <1>1, CorporateTypes, CorporateGoesOn DEF Corporate!DeadLogin
<1>2. CASE Corporate!Userinfo(p)
  BY <1>2, CorporateTypes, CorporateGoesOn DEF Corporate!Userinfo, Corporate!WithAccess
<1>3. CASE Corporate!Confirm(p)
  BY <1>3, CorporateTypes, CorporateGoesOn DEF Corporate!Confirm
<1>4. CASE Corporate!Renew(p)
  <2>1. pc[p] = "mint" /\ [local[p] EXCEPT !.renewed = TRUE, !.session = store] \in CorporateLocal
    BY <1>4, CorporateTypes DEF Corporate!Renew, CorporateLocal
  <2> QED
    BY <1>4, <2>1, CorporateTypes, CorporateGoesOn DEF Corporate!Renew
<1> QED
  BY <1>1, <1>2, <1>3, <1>4

LEMMA CorporateLogin ==
    ASSUME CorporateInv, NEW p \in Processes, NEW r, Corporate!Login(p, r)
    PROVE  CorporateInv'
<1>1. UNCHANGED <<store, good, issued, history, memory>>
  BY DEF Corporate!Login, Corporate!service, Corporate!history, service, history
<1>2. Moves(p, {"idle", "device"}, CorporateLocal, {})
  BY Moving, CorporateShared, CorporateTypes DEF Corporate!Login
<1>3. pc[p] = "idle"
  BY Begins, AnsweredAtOnce, CorporateShared, CorporateTypes DEF Corporate!Login
<1> QED
  BY <1>1, <1>2, <1>3, CorporateTypes, CorporateQuiet

LEMMA CorporateGrant ==
    ASSUME CorporateInv, NEW p \in Processes, Corporate!Grant(p)
    PROVE  CorporateInv'
<1>1. /\ pc[p] = "grant" /\ issued' = issued + 1 /\ memory' = [memory EXCEPT ![p] = issued + 1]
      /\ UNCHANGED <<store, good, history>>
  BY DEF Corporate!Grant, Corporate!Issue, Corporate!New, Corporate!history, history
<1>2. [local[p] EXCEPT !.access = issued + 1] \in CorporateLocal
  BY <1>1, CorporateTypes DEF CorporateLocal
<1>3. Moves(p, {"idle", "mint"}, CorporateLocal, {})
  <2>1. CASE Corporate!GoOn(p, "mint", [local[p] EXCEPT !.access = issued + 1])
    BY <1>1, <1>2, <2>1, Moving, CorporateShared, CorporateTypes
  <2>2. CASE Corporate!Reply(p, Corporate!Failed("other"))
    BY <2>2, Moving, CorporateShared, CorporateTypes
  <2> QED
    BY <2>1, <2>2 DEF Corporate!Grant, Corporate!New
<1>4. Shape /\ issued + 1 \in Nat /\ issued + 1 >= issued
  BY CorporateTypes
<1>5. Holds(p, issued + 1)
  BY <1>1, <1>4, HoldsThis
<1> QED
  BY <1>1, <1>3, <1>4, <1>5, CorporateQuiet

(* What is written over the session that is stored counts as lost.         *)
LEMMA CorporateSaves ==
    ASSUME CorporateInv, NEW p \in Processes, pc[p] # "revoke",
           NEW session \in CorporateSession, Corporate!SaveSession(session),
           issued' \in Nat, issued < session.access, session.access <= issued',
           0 \notin good', good' \subseteq good \cup {session.refresh}, UNCHANGED <<memory, reserved, retired>>,
           OthersWait(p), answer'[p].token = 0, pc'[p] # "revoke",
           pc'[p] # "idle" => local'[p] \in CorporateLocal
    PROVE  CorporateInv'
<1>1. /\ store' = session /\ memory[p] \in Nat /\ Holds(p, memory[p]) /\ Drops(p, retired[p])
      /\ retired[p] \subseteq 0..issued /\ issued \in Nat /\ session.access \in Nat
  BY CorporateTypes DEF Corporate!SaveSession, CorporateSession
<1>2. issued' >= issued
  BY <1>1
<1>3. ASSUME NEW t \in good' \ lost'
      PROVE  t = session.refresh \/ (t \in good \ lost /\ t # store.refresh)
  <2>1. t = session.refresh \/ (t \in good /\ t \notin lost)
    BY <1>3 DEF Corporate!SaveSession
  <2>2. store.refresh = session.refresh \/ t # store.refresh \/ store.refresh = 0
    BY <1>3 DEF Corporate!SaveSession
  <2>3. t # 0 \/ t = session.refresh
    BY <1>3, <2>1 DEF CorporateInv
  <2> QED
    BY <2>1, <2>2, <2>3
<1> QED
  BY <1>1, <1>2, <1>3, CorporateStep

LEMMA CorporateRefresh ==
    ASSUME CorporateInv, NEW p \in Processes, Corporate!Refresh(p)
    PROVE  CorporateInv'
<1> DEFINE session == [local[p].session EXCEPT !.access = issued + 1]
           values == [local[p] EXCEPT !.access = issued + 1]
           step == IF local[p].renewed THEN "mint" ELSE Corporate!WithAccess(req[p], req[p].retry = "403")
<1>1. /\ pc[p] = "refresh" /\ issued' = issued + 1 /\ UNCHANGED <<good, memory, reserved, retired>>
      /\ Corporate!SaveSession(session) /\ GoOn(p, step, values)
  BY CorporateShared DEF Corporate!Refresh, Corporate!Refreshes, Corporate!Issue, Corporate!New
<1>2. session \in CorporateSession /\ session.access = issued + 1 /\ values \in CorporateLocal
  BY <1>1, CorporateTypes DEF CorporateLocal, CorporateSession
<1>3. step # "revoke"
  BY DEF Corporate!WithAccess
<1> HIDE DEF session, values, step
<1>4. OthersWait(p) /\ answer'[p].token = 0 /\ pc'[p] # "revoke" /\ local'[p] \in CorporateLocal
  BY <1>1, <1>2, <1>3, GoesOn, CorporateTypes DEF Turned, Answered, AnswerAsked
<1>5. issued \in Nat /\ issued' \in Nat /\ 0 \notin good'
  BY <1>1, CorporateTypes DEF CorporateInv
<1> QED
  BY <1>1, <1>2, <1>4, <1>5, CorporateSaves

LEMMA CorporateApproved ==
    ASSUME CorporateInv, NEW p \in Processes, Corporate!Approved(p)
    PROVE  CorporateInv'
<1> DEFINE session == [refresh |-> issued + 1, access |-> issued + 1 + 1, recent |-> TRUE]
           step == Corporate!WithAccess(req[p], req[p].retry = "403")
           refreshed == [Corporate!Begun EXCEPT !.session = session]
           accessed == [Corporate!Begun EXCEPT !.access = issued + 1 + 1]
<1>1. /\ pc[p] = "device" /\ issued' = issued + 2 /\ good' = good \cup {issued + 1}
      /\ UNCHANGED <<memory, reserved, retired>> /\ Corporate!SaveSession(session)
      /\ Reply(p, NoToken) \/ GoOn(p, "refresh", refreshed) \/ GoOn(p, step, accessed)
  BY CorporateShared DEF Corporate!Approved, Corporate!ApprovesDevice, Corporate!New
<1>2. issued \in Nat
  BY CorporateTypes
<1>3. /\ session \in CorporateSession /\ session.access = issued + 2 /\ session.refresh = issued + 1
      /\ refreshed \in CorporateLocal /\ accessed \in CorporateLocal
  <2>1. session \in CorporateSession /\ session.access = issued + 2 /\ session.refresh = issued + 1
    BY <1>2 DEF CorporateSession
  <2> HIDE DEF session
  <2>2. refreshed \in CorporateLocal
    BY <2>1, CorporateTypes DEF CorporateLocal
  <2>3. accessed \in CorporateLocal
    BY <1>2, CorporateTypes DEF CorporateLocal
  <2> QED
    BY <2>1, <2>2, <2>3
<1>4. step # "revoke"
  BY DEF Corporate!WithAccess
<1> HIDE DEF session, step, refreshed, accessed
<1>5. OthersWait(p) /\ answer'[p].token = 0 /\ pc'[p] # "revoke" /\ (pc'[p] # "idle" => local'[p] \in CorporateLocal)
  <2>1. CASE Reply(p, NoToken)
    BY <2>1, Replies, NoTokenInIt, CorporateTypes DEF Turned
  <2>2. CASE GoOn(p, "refresh", refreshed)
    BY <1>1, <1>3, <2>2, GoesOn, CorporateTypes DEF Turned, Answered, AnswerAsked
  <2>3. CASE GoOn(p, step, accessed)
    BY <1>1, <1>3, <1>4, <2>3, GoesOn, CorporateTypes DEF Turned, Answered, AnswerAsked
  <2> QED
    BY <1>1, <2>1, <2>2, <2>3
<1>6. /\ issued' \in Nat /\ 0 \notin good' /\ issued < session.access /\ session.access <= issued'
      /\ good' \subseteq good \cup {session.refresh}
  BY <1>1, <1>2, <1>3 DEF CorporateInv
<1> QED
  BY <1>1, <1>3, <1>5, <1>6, CorporateSaves

LEMMA CorporateMint ==
    ASSUME CorporateInv, CorporateAsks, NEW p \in Processes, Corporate!Mint(p)
    PROVE  CorporateInv'
<1> DEFINE n == issued + 1
           a == Corporate!Gives(p, req[p], n, ci)
<1>1. /\ pc[p] = "mint" /\ issued' = n /\ Reply(p, a)
      /\ reserved' = IF req[p].write THEN reserved \cup {n} ELSE reserved
      /\ UNCHANGED <<store, good, memory, retired, ended, lost>>
  BY CorporateShared DEF Corporate!Mint, Corporate!Issue, Corporate!New
<1>2. a.token = n /\ (req[p].write => a.asked)
  BY <1>1 DEF Corporate!Gives, Corporate!Asked, CorporateAsks, CorporateYes
<1> HIDE DEF a
<1>3. OthersWait(p) /\ pc'[p] = "idle" /\ answer'[p] = a
  BY <1>1, Replies, CorporateTypes DEF Turned
<1>4. issued \in Nat /\ n \notin retired[p] /\ n \notin reserved
  BY CorporateTypes DEF Answered
<1>5. /\ answer'[p].token \in 0..issued' /\ answer'[p].token \notin retired[p]
      /\ answer'[p].token \in reserved' => answer'[p].asked
  BY <1>1, <1>2, <1>3, <1>4
<1>6. /\ issued' \in Nat /\ issued' >= issued /\ reserved' \subseteq reserved \cup ((issued + 1)..issued')
      /\ store' \in CorporateSession /\ store'.access <= issued' /\ 0 \notin good'
  BY <1>1, <1>4, CorporateTypes DEF CorporateInv
<1>7. \A t \in good' \ lost' : t = store'.refresh \/ (t \in good \ lost /\ t # store.refresh)
  BY <1>1
<1> QED
  BY <1>1, <1>3, <1>5, <1>6, <1>7, CorporateTypes, CorporateStep

LEMMA CorporateErase ==
    ASSUME CorporateInv, NEW p \in Processes, NEW r, Corporate!Erase(p, r)
    PROVE  CorporateInv'
<1>1. /\ AtOnce(p, r, NoToken) /\ store' = [store EXCEPT !.access = 0]
      /\ UNCHANGED <<good, issued, memory, reserved, retired, ended, lost>>
  BY CorporateShared DEF Corporate!Erase, Corporate!service, Corporate!history
<1>2. OthersWait(p) /\ pc[p] = "idle" /\ pc'[p] = "idle" /\ answer'[p].token = 0
  BY <1>1, AnsweredAtOnce, NoTokenInIt, CorporateTypes DEF Turned
<1>3. store' \in CorporateSession /\ store'.access = 0 /\ store'.refresh = store.refresh
  BY <1>1, CorporateTypes DEF CorporateSession
<1>4. 0 \notin good' /\ issued \in Nat
  BY <1>1, CorporateTypes DEF CorporateInv
<1>5. \A t \in good' \ lost' : t = store'.refresh \/ (t \in good \ lost /\ t # store.refresh)
  BY <1>1, <1>3
<1> QED
  BY <1>1, <1>2, <1>3, <1>4, <1>5, CorporateTypes, CorporateStep

LEMMA CorporateLogout ==
    ASSUME CorporateInv, NEW p \in Processes, NEW r, Corporate!Logout(p, r)
    PROVE  CorporateInv'
<1>1. UNCHANGED <<good, issued, memory, reserved, retired, lost>>
  BY DEF Corporate!Logout, Corporate!service, service
<1>2. CASE store = Corporate!NoSession
  <2>1. AtOnce(p, r, Failed("not-found")) /\ UNCHANGED <<store, ended>>
    BY <1>2, CorporateShared DEF Corporate!Logout
  <2>2. Moves(p, {"idle"}, CorporateLocal, {}) /\ pc[p] = "idle"
    BY <2>1, Moving, AnsweredAtOnce, CorporateTypes
  <2> QED
    BY <1>1, <2>1, <2>2, CorporateTypes, CorporateQuiet DEF history
<1>3. CASE store # Corporate!NoSession
  <2> DEFINE values == [Corporate!Begun EXCEPT !.session = store]
  <2>1. Begin(p, r, "revoke", values) /\ store' = Corporate!NoSession
    BY <1>3, CorporateShared DEF Corporate!Logout
  <2>2. values \in CorporateLocal /\ values.session = store
    BY CorporateTypes DEF CorporateLocal
  <2> HIDE DEF values
  <2>3. /\ OthersWait(p) /\ answer'[p].token = 0 /\ pc[p] = "idle"
        /\ pc'[p] = "revoke" /\ local'[p] = values
    BY <2>1, Begins, CorporateTypes DEF Turned
  <2>4. 0 \notin good' /\ issued \in Nat /\ store' \in CorporateSession /\ store'.access = 0
    BY <1>1, <2>1, CorporateTypes DEF CorporateInv
  <2>5. \A t \in good' \ lost' : t = local'[p].session.refresh \/ (t \in good \ lost /\ t # store.refresh)
    BY <1>1, <2>2, <2>3
  <2> QED
    BY <1>1, <2>2, <2>3, <2>4, <2>5, CorporateTypes, CorporateStep
<1> QED
  BY <1>2, <1>3

(* A request that ends with nothing.                                       *)
LEMMA CorporateEnds ==
    ASSUME CorporateInv, NEW p \in Processes, OthersWait(p), pc'[p] = "idle", answer'[p].token = 0,
           NEW m \in Nat, Holds(p, m), NEW d \in {{}, retired[p]}, Drops(p, d), UNCHANGED <<store, reserved>>,
           issued' \in Nat, issued' >= issued, 0 \notin good',
           \A t \in good' \ lost' :
               t \in good \ lost /\ ~ (pc[p] = "revoke" /\ local[p].session.refresh = t)
    PROVE  CorporateInv'
<1>1. /\ d \subseteq 0..issued /\ store.access <= issued'
      /\ store \in CorporateSession
  BY CorporateTypes
<1> QED
  BY <1>1, CorporateStep

LEMMA CorporateRevoke ==
    ASSUME CorporateInv, NEW p \in Processes, Corporate!Revoke(p)
    PROVE  CorporateInv'
<1>1. pc[p] = "revoke" /\ UNCHANGED <<store, memory, reserved, retired, ended, issued>>
  BY DEF Corporate!Revoke, Corporate!Revokes, Corporate!service, service
<1>2. OthersWait(p) /\ pc'[p] = "idle" /\ answer'[p].token = 0
  BY <1>1, Replies, NoTokenInIt, CorporateShared, CorporateTypes DEF Corporate!Revoke, Turned
<1>3. \/ good' = good \ {local[p].session.refresh} /\ lost' = lost
      \/ lost' = lost \cup {local[p].session.refresh} /\ good' = good
  BY DEF Corporate!Revoke, Corporate!Revokes, Corporate!service, service
<1>4. issued \in Nat /\ 0 \notin good'
  BY <1>3, CorporateTypes DEF CorporateInv
<1> QED
  BY <1>1, <1>2, <1>3, <1>4, CorporateTypes, CorporateEnds

LEMMA CorporateCallFails ==
    ASSUME CorporateInv, NEW p \in Processes, Corporate!CallFails(p)
    PROVE  CorporateInv'
<1>1. pc[p] # "revoke" /\ UNCHANGED <<store, memory, reserved, retired, ended>>
  BY DEF Corporate!CallFails
<1>2. OthersWait(p) /\ pc'[p] = "idle" /\ answer'[p].token = 0
  BY Replies, NoTokenInIt, CorporateShared, CorporateTypes DEF Corporate!CallFails, Corporate!CallError, Turned
<1>3. \/ UNCHANGED <<good, issued, lost>>
      \/ issued' = issued + 2 /\ good' = good \cup {issued + 1} /\ lost' = lost \cup {issued + 1}
  BY DEF Corporate!CallFails, Corporate!ApprovesDevice, Corporate!New, Corporate!service, service
<1>4. issued' \in Nat /\ issued' >= issued /\ 0 \notin good'
  BY <1>3, CorporateTypes DEF CorporateInv
<1> QED
  BY <1>1, <1>2, <1>3, <1>4, CorporateTypes, CorporateEnds

LEMMA CorporateStop ==
    ASSUME CorporateInv, NEW p \in Processes, Corporate!Stop(p)
    PROVE  CorporateInv'
<1>1. UNCHANGED <<store, reserved, ended, good, issued>>
  BY DEF Corporate!Stop, Corporate!service, service
<1>2. /\ OthersWait(p) /\ pc'[p] = "idle" /\ answer'[p].token = 0
      /\ Holds(p, 0) /\ Drops(p, {})
  BY <1>1, Restarts, CorporateShared, CorporateTypes DEF Corporate!Stop, Turned
<1>3. lost' = IF pc[p] = "revoke" THEN lost \cup {local[p].session.refresh} ELSE lost
  BY DEF Corporate!Stop
<1>4. issued \in Nat /\ 0 \notin good'
  BY <1>1, CorporateTypes DEF CorporateInv
<1> QED
  BY <1>1, <1>2, <1>3, <1>4, CorporateEnds

(* It starts in its invariant.                                             *)
LEMMA CorporateInit ==
    ASSUME Corporate!Init
    PROVE  CorporateInv /\ CorporateAsks
<1>1. PICK refresh \in {0, 1}, recent \in BOOLEAN :
        /\ Corporate!ProcessInit([Corporate!NoSession EXCEPT !.refresh = refresh, !.recent = recent], 0, {})
        /\ good = {refresh} \ {0} /\ issued = 1
  BY DEF Corporate!Init
<1>2. /\ store = [refresh |-> refresh, access |-> 0, recent |-> recent] /\ memory = [p \in Processes |-> 0]
      /\ pc = [p \in Processes |-> "idle"] /\ local = [p \in Processes |-> 0]
      /\ req = [p \in Processes |-> NoRequest] /\ answer = [p \in Processes |-> NoToken]
      /\ asked = [p \in Processes |-> FALSE]
      /\ reserved = {} /\ retired = [p \in Processes |-> {}] /\ ended = {} /\ lost = {}
  BY <1>1, CorporateShared DEF Corporate!ProcessInit, Corporate!NoSession, Corporate!NoRequest, NoRequest
<1>3. Shared
  BY <1>1, <1>2, SharedInit
<1>4. /\ store \in CorporateSession /\ store.access = 0 /\ store.refresh = refresh
      /\ \A p \in Processes : memory[p] = 0 /\ pc[p] = "idle"
  BY <1>2 DEF CorporateSession
<1>5. CorporateAsks
  BY <1>2, NothingWritten DEF CorporateAsks, Yes, CorporateYes
<1> QED
  BY <1>1, <1>3, <1>4, <1>5 DEF CorporateInv, CorporateKept

(* The question to the person, over the steps of a request.                *)
LEMMA CorporateAsksStep ==
    ASSUME CorporateAsks, NEW p \in Processes, OthersWait(p), ci' = ci, Yes(p)', CorporateYes(p)'
    PROVE  CorporateAsks'
BY DEF CorporateAsks, OthersWait, Yes, CorporateYes

(* A write is not minted for before the question.                          *)
LEMMA CorporateWithAccess ==
    \A r, rejected : Corporate!WithAccess(r, rejected) \in {"userinfo", "confirm", "mint"}
                     /\ (r.write => Corporate!WithAccess(r, rejected) # "mint")
BY DEF Corporate!WithAccess

(* A step of a request that leads to no minting.                           *)
LEMMA CorporateUnasked ==
    ASSUME CorporateInv, CorporateAsks, NEW p \in Processes, ci' = ci, NEW r, NEW step, NEW values,
           \/ Begin(p, r, step, values) /\ (r.write => step # "mint")
           \/ GoOn(p, step, values) /\ (req[p].write => step # "mint"),
           step # "grant", step = "refresh" => ~ values.renewed
    PROVE  CorporateAsks'
<1>1. Shape
  BY DEF CorporateInv, Shared
<1>2. CASE Begin(p, r, step, values) /\ (r.write => step # "mint")
  BY <1>1, <1>2, Asking, CorporateAsksStep DEF Yes, CorporateYes
<1>3. CASE GoOn(p, step, values) /\ (req[p].write => step # "mint")
  BY <1>1, <1>3, Asking, CorporateAsksStep DEF CorporateAsks, Yes, CorporateYes
<1> QED
  BY <1>2, <1>3

(* A step past the question.                                               *)
LEMMA CorporateOn ==
    ASSUME CorporateInv, CorporateAsks, NEW p \in Processes, ci' = ci, NEW step, NEW values,
           GoOn(p, step, values), step = "grant" => ci, Asked(p) \/ ci
    PROVE  CorporateAsks'
BY Asking, CorporateAsksStep DEF CorporateInv, Shared, CorporateAsks, Yes, CorporateYes

(* A step that answers with no credential.                                 *)
LEMMA CorporateUnanswered ==
    ASSUME CorporateInv, CorporateAsks, NEW p \in Processes, ci' = ci, NEW r,
           \/ \E what : Corporate!AtOnce(p, r, Corporate!Failed(what)) \/ Corporate!Reply(p, Corporate!Failed(what))
           \/ Corporate!AtOnce(p, r, Corporate!NoToken) \/ Corporate!Reply(p, Corporate!NoToken)
           \/ \E fresh : Corporate!Restart(p, fresh)
    PROVE  CorporateAsks'
<1>1. OthersWait(p) /\ pc'[p] = "idle" /\ ~ answer'[p].write
  BY Asking, NothingWritten, CorporateShared DEF CorporateInv, Shared
<1> QED
  BY <1>1, CorporateAsksStep DEF Yes, CorporateYes

(* A get, at its start.                                                    *)
LEMMA CorporateAsksGet ==
    ASSUME CorporateInv, CorporateAsks, NEW p \in Processes, NEW r, Corporate!Get(p, r)
    PROVE  CorporateAsks'
<1>1. ci' = ci /\ Shape /\ pc[p] = "idle" /\ Corporate!Begun.renewed = FALSE
  BY DEF Corporate!Get, CorporateInv, Shared, Corporate!Begun
<1>2. ASSUME NEW what, Corporate!AtOnce(p, r, Corporate!Failed(what))
      PROVE  CorporateAsks'
  BY <1>1, <1>2, CorporateUnanswered
<1>3. ASSUME NEW step \in {"grant", "mint"}, NEW values, ci, Corporate!Begin(p, r, step, values)
      PROVE  CorporateAsks'
  BY <1>1, <1>3, Asking, CorporateShared, CorporateAsksStep DEF Yes, CorporateYes
<1>4. ASSUME Corporate!Begin(p, r, "device", Corporate!Begun)
      PROVE  CorporateAsks'
  BY <1>1, <1>4, CorporateShared, CorporateUnasked
<1>5. ASSUME Corporate!SessionAccess(p, r)
      PROVE  CorporateAsks'
  <2> DEFINE step == Corporate!WithAccess(r, r.retry = "403")
             kept == [Corporate!Begun EXCEPT !.access = store.access]
             read == [Corporate!Begun EXCEPT !.session = store]
  <2>1. ~ read.renewed
    BY DEF Corporate!Begun
  <2>2. step \in {"userinfo", "confirm", "mint"} /\ (r.write => step # "mint")
    BY CorporateWithAccess
  <2>3. \/ Corporate!AtOnce(p, r, Corporate!Failed("other"))
        \/ Begin(p, r, step, kept)
        \/ Begin(p, r, "refresh", read)
    BY <1>1, <1>5, CorporateShared DEF Corporate!SessionAccess, Corporate!Answers, Corporate!Awaits
  <2> HIDE DEF step, kept, read
  <2>4. ASSUME Begin(p, r, step, kept)
        PROVE  CorporateAsks'
    BY <1>1, <2>2, <2>4, CorporateUnasked
  <2>5. ASSUME Begin(p, r, "refresh", read)
        PROVE  CorporateAsks'
    BY <1>1, <2>1, <2>5, CorporateUnasked
  <2> QED
    BY <1>2, <2>3, <2>4, <2>5
<1> QED
  BY <1>2, <1>3, <1>4, <1>5 DEF Corporate!Get

(* The awaits that the access token comes from.                            *)
LEMMA CorporateAsksRefresh ==
    ASSUME CorporateInv, CorporateAsks, NEW p \in Processes, Corporate!Refresh(p) \/ Corporate!Approved(p)
    PROVE  CorporateAsks'
<1> DEFINE step == Corporate!WithAccess(req[p], req[p].retry = "403")
<1>1. ci' = ci /\ step \in {"userinfo", "confirm", "mint"} /\ (req[p].write => step # "mint")
  BY CorporateWithAccess DEF Corporate!Refresh, Corporate!Approved
<1> HIDE DEF step
<1>2. ASSUME Corporate!Refresh(p)
      PROVE  CorporateAsks'
  <2>1. PICK values : GoOn(p, IF local[p].renewed THEN "mint" ELSE step, values)
    BY <1>2, CorporateShared DEF Corporate!Refresh, step
  <2>2. CASE local[p].renewed /\ req[p].write
    <3>1. asked[p] \/ ci
      BY <1>2, <2>2 DEF CorporateAsks, CorporateYes, Corporate!Refresh
    <3> QED
      BY <1>1, <2>1, <2>2, <3>1, CorporateOn DEF Asked
  <2>3. CASE ~ (local[p].renewed /\ req[p].write)
    BY <1>1, <2>1, <2>3, CorporateUnasked
  <2> QED
    BY <2>2, <2>3
<1>3. ASSUME Corporate!Approved(p)
      PROVE  CorporateAsks'
  <2> DEFINE session == [refresh |-> Corporate!New, access |-> Corporate!New + 1, recent |-> TRUE]
             again == [Corporate!Begun EXCEPT !.session = session]
  <2>1. /\ pc[p] = "device" /\ ~ again.renewed
        /\ \/ Reply(p, NoToken)
           \/ GoOn(p, "refresh", again)
           \/ GoOn(p, step, [Corporate!Begun EXCEPT !.access = Corporate!New + 1])
    BY <1>3, CorporateShared DEF Corporate!Approved, Corporate!Begun, step
  <2> HIDE DEF again
  <2>2. ASSUME GoOn(p, "refresh", again)
        PROVE  CorporateAsks'
    BY <1>1, <2>1, <2>2, CorporateUnasked
  <2>3. ASSUME NEW values, GoOn(p, step, values)
        PROVE  CorporateAsks'
    BY <1>1, <2>3, CorporateUnasked
  <2>4. ASSUME Reply(p, NoToken)
        PROVE  CorporateAsks'
    BY <1>1, <2>4, CorporateShared, CorporateUnanswered
  <2> QED
    BY <2>1, <2>2, <2>3, <2>4
<1> QED
  BY <1>2, <1>3

(* A token is minted, and handed out.                                      *)
LEMMA CorporateAsksMint ==
    ASSUME CorporateInv, CorporateAsks, NEW p \in Processes, Corporate!Mint(p)
    PROVE  CorporateAsks'
<1> DEFINE a == Corporate!Gives(p, req[p], Corporate!New, ci)
<1>1. pc[p] = "mint" /\ ci' = ci /\ Reply(p, a)
  BY CorporateShared DEF Corporate!Mint
<1>2. a.write => a.asked
  BY <1>1 DEF CorporateAsks, CorporateYes, Corporate!Gives, Corporate!Asked
<1> HIDE DEF a
<1>3. OthersWait(p) /\ pc'[p] = "idle" /\ answer'[p] = a
  BY <1>1, Asking DEF CorporateInv, Shared
<1> QED
  BY <1>1, <1>2, <1>3, CorporateAsksStep DEF Yes, CorporateYes

(* The awaits up to the minting.                                           *)
LEMMA CorporateAsksOnward ==
    ASSUME CorporateInv, CorporateAsks, NEW p \in Processes,
           \/ Corporate!Grant(p) \/ Corporate!DeadLogin(p) \/ Corporate!Userinfo(p)
           \/ Corporate!Confirm(p) \/ Corporate!Renew(p)
    PROVE  CorporateAsks'
<1>1. ci' = ci
  BY DEF Corporate!Grant, Corporate!DeadLogin, Corporate!Userinfo, Corporate!Confirm, Corporate!Renew
<1>2. ASSUME NEW what, Corporate!Reply(p, Corporate!Failed(what))
      PROVE  CorporateAsks'
  BY <1>1, <1>2, CorporateUnanswered
<1>3. ASSUME NEW step, NEW values, Corporate!GoOn(p, step, values), step = "grant" => ci, Asked(p) \/ ci
      PROVE  CorporateAsks'
  BY <1>1, <1>3, CorporateShared, CorporateOn
<1>4. CASE Corporate!Grant(p)
  <2>1. ci
    BY <1>4 DEF Corporate!Grant, CorporateAsks, CorporateYes
  <2> QED
    BY <1>2, <1>3, <1>4, <2>1 DEF Corporate!Grant
<1>5. CASE Corporate!DeadLogin(p)
  <2>1. ASSUME GoOn(p, "device", local[p])
        PROVE  CorporateAsks'
    BY <1>1, <2>1, CorporateUnasked
  <2> QED
    BY <1>2, <1>5, <2>1, CorporateShared DEF Corporate!DeadLogin
<1>6. CASE Corporate!Userinfo(p)
  <2> DEFINE step == Corporate!WithAccess(req[p], FALSE)
  <2>1. step \in {"userinfo", "confirm", "mint"} /\ (req[p].write => step # "mint")
    BY CorporateWithAccess
  <2> HIDE DEF step
  <2>2. ASSUME GoOn(p, step, local[p])
        PROVE  CorporateAsks'
    BY <1>1, <2>1, <2>2, CorporateUnasked
  <2> QED
    BY <1>2, <1>6, <2>2, CorporateShared DEF Corporate!Userinfo, step
<1>7. CASE Corporate!Confirm(p)
  BY <1>2, <1>3, <1>7 DEF Corporate!Confirm, Asked
<1>8. CASE Corporate!Renew(p)
  <2> DEFINE renewed == [local[p] EXCEPT !.renewed = TRUE, !.session = store]
  <2>1. /\ pc[p] = "mint"
        /\ \/ ci /\ Corporate!GoOn(p, "grant", renewed)
           \/ Corporate!Reply(p, Corporate!Failed("other"))
           \/ GoOn(p, "refresh", renewed)
    BY <1>8, CorporateShared DEF Corporate!Renew
  <2> HIDE DEF renewed
  <2>2. ASSUME GoOn(p, "refresh", renewed)
        PROVE  CorporateAsks'
    <3>1. req[p].write => asked[p] \/ ci
      BY <2>1 DEF CorporateAsks, CorporateYes
    <3>2. OthersWait(p) /\ req'[p] = req[p] /\ (Asked(p) => asked'[p]) /\ answer'[p] = answer[p]
          /\ pc'[p] = "refresh"
      BY <2>2, Asking DEF CorporateInv, Shared
    <3>3. Yes(p)' /\ CorporateYes(p)'
      BY <1>1, <3>1, <3>2 DEF Asked, CorporateAsks, Yes, CorporateYes
    <3> QED
      BY <1>1, <3>2, <3>3, CorporateAsksStep
  <2> QED
    BY <1>2, <1>3, <2>1, <2>2
<1> QED
  BY <1>4, <1>5, <1>6, <1>7, <1>8

(* Every action keeps what is known of the question.                       *)
LEMMA CorporateAsksNext ==
    ASSUME CorporateInv, CorporateAsks, Corporate!Next
    PROVE  CorporateAsks'
<1>1. PICK p \in Processes :
        \/ \E r \in Corporate!Request :
              \/ Corporate!Get(p, r) \/ Corporate!Erase(p, r)
              \/ Corporate!Login(p, r) \/ Corporate!Logout(p, r)
        \/ Corporate!Grant(p) \/ Corporate!Refresh(p) \/ Corporate!DeadLogin(p) \/ Corporate!Approved(p)
        \/ Corporate!Userinfo(p) \/ Corporate!Confirm(p) \/ Corporate!Mint(p) \/ Corporate!Renew(p)
        \/ Corporate!Revoke(p) \/ Corporate!CallFails(p) \/ Corporate!Stop(p)
  BY DEF Corporate!Next
<1>2. ASSUME NEW r, Corporate!Erase(p, r) \/ Corporate!Login(p, r) \/ Corporate!Logout(p, r)
      PROVE  CorporateAsks'
  <2>1. /\ ci' = ci
        /\ \/ \E what : Corporate!AtOnce(p, r, Corporate!Failed(what))
           \/ Corporate!AtOnce(p, r, Corporate!NoToken)
           \/ \E step \in {"device", "revoke"} : \E values : Begin(p, r, step, values)
    BY <1>2, CorporateShared DEF Corporate!Erase, Corporate!Login, Corporate!Logout
  <2>2. ASSUME NEW step \in {"device", "revoke"}, NEW values, Begin(p, r, step, values)
        PROVE  CorporateAsks'
    BY <2>1, <2>2, CorporateUnasked
  <2> QED
    BY <2>1, <2>2, CorporateUnanswered
<1>3. ASSUME Corporate!Revoke(p) \/ Corporate!CallFails(p) \/ Corporate!Stop(p)
      PROVE  CorporateAsks'
  BY <1>3, CorporateUnanswered DEF Corporate!Revoke, Corporate!CallFails, Corporate!CallError, Corporate!Stop
<1> QED
  BY <1>1, <1>2, <1>3, CorporateAsksGet, CorporateAsksRefresh, CorporateAsksMint, CorporateAsksOnward

(* Every action keeps the invariant.                                       *)
LEMMA CorporateNext ==
    ASSUME CorporateInv, CorporateAsks, Corporate!Next
    PROVE  CorporateInv'
<1>1. PICK p \in Processes :
        \/ \E r \in Corporate!Request :
              \/ Corporate!Get(p, r) \/ Corporate!Erase(p, r)
              \/ Corporate!Login(p, r) \/ Corporate!Logout(p, r)
        \/ Corporate!Grant(p) \/ Corporate!Refresh(p) \/ Corporate!DeadLogin(p) \/ Corporate!Approved(p)
        \/ Corporate!Userinfo(p) \/ Corporate!Confirm(p) \/ Corporate!Mint(p) \/ Corporate!Renew(p)
        \/ Corporate!Revoke(p) \/ Corporate!CallFails(p) \/ Corporate!Stop(p)
  BY DEF Corporate!Next
<1> QED
  BY <1>1, CorporateGet, CorporateErase, CorporateLogin, CorporateLogout, CorporateGrant,
     CorporateRefresh, CorporateOnward, CorporateApproved, CorporateMint, CorporateRevoke,
     CorporateCallFails, CorporateStop

(* The invariant gives the properties.                                     *)
LEMMA CorporateSafe ==
    ASSUME CorporateInv, CorporateAsks
    PROVE  RetiredNotGiven /\ ReleasedOnYes /\ Corporate!NothingForgotten
<1>1. RetiredNotGiven /\ ReleasedOnYes
  BY SharedSafe, YesSafe DEF CorporateInv, CorporateAsks
<1>2. Corporate!NothingForgotten
  BY DEF CorporateInv, CorporateKept, Corporate!NothingForgotten
<1> QED
  BY <1>1, <1>2

-----------------------------------------------------------------------------
(* JFrog Artifactory.                                                      *)

JfrogLogin  == [type : {"none", "identity", "refresh"}, token : Nat]
JfrogMemory == [held : Nat, identity : BOOLEAN, rejected : BOOLEAN]

(* Of what a process was told to drop it holds, and has answered with, at  *)
(* most an identity token that it does not know to be rejected.            *)
JfrogHolds(p) ==
    /\ memory[p] \in JfrogMemory /\ memory[p].held \in 0..issued
    /\ retired[p] \subseteq 0..issued
    /\ memory[p].held \in retired[p] \ {0} => memory[p].identity /\ ~ memory[p].rejected
    /\ answer[p].token \in retired[p] \ {0} => memory[p].identity /\ ~ memory[p].rejected
    /\ pc[p] # "idle" => local[p] \in JfrogLogin

(* A login that is good is stored, or about to be revoked, or lost.        *)
JfrogKept ==
    \A t \in good \ lost :
        t = store.token \/ \E p \in Processes : pc[p] = "revoke" /\ local[p].token = t

JfrogInv ==
    /\ Shape /\ Answered /\ JfrogKept
    /\ store \in JfrogLogin /\ store.token <= issued /\ good \subseteq 1..issued /\ reserved = {}
    /\ \A p \in Processes : JfrogHolds(p)

(* The module's own copies of the shared operators are the operators.      *)
LEMMA JfrogShared ==
    /\ \A p, r, step, values : Jfrog!Begin(p, r, step, values) <=> Begin(p, r, step, values)
    /\ \A p, r, a : Jfrog!AtOnce(p, r, a) <=> AtOnce(p, r, a)
    /\ \A p, a : Jfrog!Reply(p, a) <=> Reply(p, a)
    /\ \A p, fresh : Jfrog!Restart(p, fresh) <=> Restart(p, fresh)
    /\ \A what : Jfrog!Failed(what) = Failed(what)
    /\ Jfrog!NoToken = NoToken
BY DEF Jfrog!Begin, Begin, Jfrog!AtOnce, AtOnce, Jfrog!Take, Take, Jfrog!Reply, Reply,
       Jfrog!Restart, Restart, Jfrog!NoRequest, NoRequest, Jfrog!NoToken, NoToken, Jfrog!Failed, Failed

(* The parts of a step that are the same for all of them.                  *)
LEMMA JfrogStep ==
    ASSUME JfrogInv, NEW p \in Processes, OthersWait(p), NEW m \in JfrogMemory, Holds(p, m),
           NEW d, Drops(p, d), d \subseteq 0..issued,
           issued' \in Nat, issued' >= issued, UNCHANGED reserved,
           \/ answer'[p].token = 0
           \/ /\ pc'[p] = "idle" /\ answer'[p].token \in 0..issued'
              /\ answer'[p].token \in d \ {0} => m.identity /\ ~ m.rejected,
           m.held \in 0..issued', m.held \in d \ {0} => m.identity /\ ~ m.rejected,
           pc'[p] # "idle" => local'[p] \in JfrogLogin,
           store' \in JfrogLogin, store'.token <= issued', good' \subseteq 1..issued',
           \A t \in good' \ lost' :
               \/ t = store'.token \/ (pc'[p] = "revoke" /\ local'[p].token = t)
               \/ t \in good \ lost /\ t # store.token /\ ~ (pc[p] = "revoke" /\ local[p].token = t)
    PROVE  JfrogInv'
<1>1. Shape /\ Answered /\ issued \in Nat /\ reserved = {}
  BY DEF JfrogInv, Shape
<1>2. Shape'
  BY DEF Shape, OthersWait, Holds, Drops
<1>3. Answered'
  BY <1>1, AskedStep
<1>4. JfrogKept'
  <2>1. SUFFICES ASSUME NEW t \in good' \ lost', t # store'.token,
                        ~ (pc'[p] = "revoke" /\ local'[p].token = t)
                 PROVE  \E q \in Processes : pc'[q] = "revoke" /\ local'[q].token = t
    BY DEF JfrogKept
  <2>2. PICK q \in Processes \ {p} : pc[q] = "revoke" /\ local[q].token = t
    BY <2>1 DEF JfrogInv, JfrogKept
  <2> QED
    BY <2>2 DEF OthersWait
<1>5. JfrogHolds(p)'
  <2>1. d \subseteq 0..issued'
    BY <1>1
  <2> QED
    BY <2>1 DEF JfrogHolds, Holds, Drops
<1>6. ASSUME NEW q \in Processes \ {p}
      PROVE  JfrogHolds(q)'
  <2>1. /\ JfrogHolds(q) /\ memory'[q] = memory[q] /\ retired'[q] = retired[q]
        /\ pc'[q] = pc[q] /\ local'[q] = local[q] /\ answer'[q] = answer[q]
    BY DEF JfrogInv, Holds, Drops, OthersWait
  <2>2. memory[q].held \in 0..issued' /\ retired[q] \subseteq 0..issued'
    BY <1>1, <2>1 DEF JfrogHolds
  <2> QED
    BY <2>1, <2>2 DEF JfrogHolds
<1> QED
  BY <1>1, <1>2, <1>3, <1>4, <1>5, <1>6 DEF JfrogInv

(* What the invariant says for a step of p: types, and how memory and      *)
(* drops go.                                                               *)
LEMMA JfrogTypes ==
    ASSUME JfrogInv, NEW p \in Processes
    PROVE  /\ Shape /\ Answered /\ issued \in Nat /\ store \in JfrogLogin /\ store.token \in 0..issued
           /\ memory[p] \in JfrogMemory /\ memory[p].held \in 0..issued
           /\ memory[p].held \in retired[p] \ {0} => memory[p].identity /\ ~ memory[p].rejected
           /\ retired[p] \subseteq 0..issued /\ good \subseteq 1..issued /\ reserved = {}
           /\ UNCHANGED memory => Holds(p, memory[p])
           /\ UNCHANGED retired => Drops(p, retired[p])
           /\ pc[p] # "idle" => local[p] \in JfrogLogin /\ local[p].token \in Nat
           /\ Jfrog!NoLogin \in JfrogLogin /\ Jfrog!NoLogin.token = 0
           /\ Jfrog!Nothing \in JfrogMemory /\ Jfrog!Nothing.held = 0
<1>1. Shape /\ Answered /\ issued \in Nat /\ store \in JfrogLogin /\ JfrogHolds(p) /\ good \subseteq 1..issued /\ reserved = {}
  BY DEF JfrogInv, Shape
<1>2. /\ UNCHANGED memory => Holds(p, memory[p])
      /\ UNCHANGED retired => Drops(p, retired[p])
  BY <1>1, HoldsThis, DropsThis
<1>3. store.token \in 0..issued /\ (pc[p] # "idle" => local[p].token \in Nat)
  BY <1>1 DEF JfrogInv, JfrogHolds, JfrogLogin
<1>4. /\ Jfrog!NoLogin \in JfrogLogin /\ Jfrog!NoLogin.token = 0
      /\ Jfrog!Nothing \in JfrogMemory /\ Jfrog!Nothing.held = 0
  BY DEF Jfrog!NoLogin, Jfrog!Nothing, JfrogLogin, JfrogMemory
<1> QED
  BY <1>1, <1>2, <1>3, <1>4 DEF JfrogHolds

(* A request that comes, goes on or is answered from memory.               *)
LEMMA JfrogQuiet ==
    ASSUME JfrogInv, NEW p \in Processes, pc[p] # "revoke", NEW steps, "revoke" \notin steps,
           NEW m \in JfrogMemory, Holds(p, m), 
           m.held = 0 \/ m = memory[p],
           Moves(p, steps, JfrogLogin, {m.held}),
           UNCHANGED <<store, good, issued, reserved, retired, lost>>
    PROVE  JfrogInv'
<1>1. /\ OthersWait(p) /\ (pc'[p] # "idle" => local'[p] \in JfrogLogin) /\ pc'[p] # "revoke"
      /\ answer'[p].token = 0 \/ (pc'[p] = "idle" /\ answer'[p].token = m.held)
  BY DEF Moves
<1>2. /\ m.held \in 0..issued' /\ (m.held \in retired[p] \ {0} => m.identity /\ ~ m.rejected)
      /\ issued' \in Nat /\ issued' >= issued /\ good' \subseteq 1..issued'
  BY JfrogTypes
<1>3. Drops(p, retired[p]) /\ retired[p] \subseteq 0..issued /\ store' \in JfrogLogin /\ store'.token <= issued'
  BY JfrogTypes
<1>4. \A t \in good' \ lost' : t = store'.token \/ (t \in good \ lost /\ t # store.token)
  OBVIOUS
<1> QED
  BY <1>1, <1>2, <1>3, <1>4, JfrogStep

JfrogSteps == {"idle", "exchange", "mint", "web-login"}

LEMMA JfrogGet ==
    ASSUME JfrogInv, NEW p \in Processes, NEW r, Jfrog!Get(p, r)
    PROVE  JfrogInv'
<1> DEFINE m == [memory[p] EXCEPT !.held = 0, !.identity = FALSE]
           still == Moves(p, JfrogSteps, JfrogLogin, {memory[p].held})
           silent == Moves(p, JfrogSteps, JfrogLogin, {0})
<1>1. UNCHANGED <<store, good, issued, reserved, retired, lost>>
  BY DEF Jfrog!Get, Jfrog!service, Jfrog!history, service, history
<1>2. ASSUME NEW what, Jfrog!AtOnce(p, r, Jfrog!Failed(what))
      PROVE  still /\ silent /\ pc[p] = "idle"
  BY <1>2, Moving, AnsweredAtOnce, JfrogShared, JfrogTypes DEF JfrogSteps
<1>3. ASSUME NEW step \in JfrogSteps, Jfrog!Begin(p, r, step, store)
      PROVE  still /\ silent /\ pc[p] = "idle"
  BY <1>3, Moving, Begins, JfrogShared, JfrogTypes DEF JfrogSteps
<1>4. ASSUME Jfrog!AtOnce(p, r, Jfrog!Gives(p, r, memory[p].held, FALSE))
      PROVE  still /\ pc[p] = "idle"
  <2> DEFINE a == Jfrog!Gives(p, r, memory[p].held, FALSE)
  <2>1. a.token = memory[p].held
    BY DEF Jfrog!Gives
  <2>2. AtOnce(p, r, a)
    BY <1>4, JfrogShared
  <2> HIDE DEF a
  <2> QED
    BY <2>1, <2>2, Moving, AnsweredAtOnce, JfrogTypes DEF JfrogSteps
<1>5. "exchange" \in JfrogSteps /\ "mint" \in JfrogSteps /\ "revoke" \notin JfrogSteps
  BY DEF JfrogSteps
<1>6. \/ still /\ pc[p] = "idle" /\ UNCHANGED memory
      \/ silent /\ pc[p] = "idle" /\ memory' = [memory EXCEPT ![p].held = 0, ![p].identity = FALSE]
  BY <1>2, <1>3, <1>4, <1>5 DEF Jfrog!Get, Jfrog!Usable
<1>7. CASE still /\ pc[p] = "idle" /\ UNCHANGED memory
  BY <1>1, <1>5, <1>7, JfrogQuiet, JfrogTypes
<1>8. CASE silent /\ pc[p] = "idle" /\ memory' = [memory EXCEPT ![p].held = 0, ![p].identity = FALSE]
  <2>1. m \in JfrogMemory /\ m.held = 0
    BY JfrogTypes DEF JfrogMemory
  <2>2. memory' = [memory EXCEPT ![p] = m]
    BY <1>8, JfrogTypes DEF Shape, OfProcesses
  <2> HIDE DEF m
  <2>3. Holds(p, m)
    BY <2>2, HoldsThis, JfrogTypes
  <2> QED
    BY <1>1, <1>5, <1>8, <2>1, <2>3, JfrogQuiet
<1> QED
  BY <1>6, <1>7, <1>8

(* A token is handed out and held: a new one, or the identity token.       *)
LEMMA JfrogHands ==
    ASSUME JfrogInv, NEW p \in Processes, pc[p] # "revoke", NEW token, NEW identity \in BOOLEAN,
           Jfrog!Hand(p, token, identity), issued' \in Nat, issued' >= issued, token \in 0..issued',
           (identity /\ ~ memory[p].rejected) \/ token > issued, UNCHANGED <<reserved, retired>>,
           store' \in JfrogLogin, store'.token <= issued', good' \subseteq 1..issued',
           \A t \in good' \ lost' : t = store'.token \/ (t \in good \ lost /\ t # store.token)
    PROVE  JfrogInv'
<1> DEFINE m == [memory[p] EXCEPT !.held = token, !.identity = identity]
           a == Jfrog!Gives(p, req[p], token, FALSE)
<1>1. m \in JfrogMemory /\ m.held = token /\ m.identity = identity /\ m.rejected = memory[p].rejected
  <2>1. token \in Nat /\ memory[p] \in JfrogMemory
    BY JfrogTypes
  <2> QED
    BY <2>1 DEF JfrogMemory
<1>2. memory' = [memory EXCEPT ![p] = m]
  BY JfrogTypes DEF Jfrog!Hand, Shape, OfProcesses
<1>3. Reply(p, a) /\ a.token = token
  BY JfrogShared DEF Jfrog!Hand, Jfrog!Gives
<1> HIDE DEF m, a
<1>4. Holds(p, m) /\ Drops(p, retired[p]) /\ retired[p] \subseteq 0..issued
  BY <1>2, HoldsThis, JfrogTypes
<1>5. OthersWait(p) /\ pc'[p] = "idle" /\ answer'[p].token = token
  BY <1>3, Replies, JfrogTypes DEF Turned
<1>6. token \in retired[p] => identity /\ ~ memory[p].rejected
  BY JfrogTypes
<1> QED
  BY <1>1, <1>4, <1>5, <1>6, JfrogStep

LEMMA JfrogExchange ==
    ASSUME JfrogInv, NEW p \in Processes, Jfrog!Exchange(p) \/ Jfrog!Mint(p)
    PROVE  JfrogInv'
<1>1. /\ pc[p] # "revoke" /\ issued' = issued + 1 /\ Jfrog!Hand(p, issued + 1, FALSE)
      /\ UNCHANGED <<store, good, reserved, retired, lost>>
  BY DEF Jfrog!Exchange, Jfrog!Mint, Jfrog!Mints, Jfrog!Issue, Jfrog!New, Jfrog!history, history
<1>2. issued \in Nat /\ good' \subseteq 1..issued' /\ store' \in JfrogLogin /\ store'.token <= issued'
  BY <1>1, JfrogTypes
<1>3. issued' \in Nat /\ issued' >= issued /\ issued + 1 \in 0..issued' /\ issued + 1 > issued
  BY <1>1, <1>2
<1>4. \A t \in good' \ lost' : t = store'.token \/ (t \in good \ lost /\ t # store.token)
  BY <1>1
<1> QED
  BY <1>1, <1>2, <1>3, <1>4, JfrogHands

LEMMA JfrogMintRotated ==
    ASSUME JfrogInv, NEW p \in Processes, Jfrog!MintRotated(p)
    PROVE  JfrogInv'
<1>1. /\ pc[p] = "mint" /\ issued' = issued + 2 /\ Jfrog!Hand(p, issued + 1, FALSE)
      /\ UNCHANGED <<reserved, retired>>
      /\ store' = [local[p] EXCEPT !.token = issued + 1 + 1]
      /\ good' = (good \ {local[p].token}) \cup {issued + 1 + 1}
      /\ lost' = IF store.token \in {0, local[p].token} THEN lost ELSE lost \cup {store.token}
  BY DEF Jfrog!MintRotated, Jfrog!MintsAndRotates, Jfrog!New
<1>2. issued \in Nat /\ good \subseteq 1..issued /\ local[p] \in JfrogLogin
  BY <1>1, JfrogTypes
<1>3. store' \in JfrogLogin /\ store'.token = issued + 2
  BY <1>1, <1>2 DEF JfrogLogin
<1>4. /\ issued' \in Nat /\ issued' >= issued /\ issued + 1 \in 0..issued' /\ issued + 1 > issued
      /\ good' \subseteq 1..issued' /\ store'.token <= issued'
  BY <1>1, <1>2, <1>3
<1>5. \A t \in good' \ lost' : t = store'.token \/ (t \in good \ lost /\ t # store.token)
  BY <1>1, <1>2, <1>3
<1> QED
  BY <1>1, <1>3, <1>4, <1>5, JfrogHands

LEMMA JfrogHandIdentity ==
    ASSUME JfrogInv, NEW p \in Processes, Jfrog!HandIdentity(p)
    PROVE  JfrogInv'
<1>1. /\ pc[p] = "mint" /\ local[p].token \in good
      /\ UNCHANGED <<store, good, issued, reserved, retired, lost>>
  BY DEF Jfrog!HandIdentity, Jfrog!service, Jfrog!history, service, history
<1>2. CASE Jfrog!Reply(p, Jfrog!Failed("other")) /\ UNCHANGED memory
  <2>1. Moves(p, JfrogSteps, JfrogLogin, {memory[p].held}) /\ "revoke" \notin JfrogSteps
    BY <1>2, Moving, JfrogShared, JfrogTypes DEF JfrogSteps
  <2> QED
    BY <1>1, <1>2, <2>1, JfrogQuiet, JfrogTypes
<1>3. CASE ~ memory[p].rejected /\ Jfrog!Hand(p, local[p].token, TRUE)
  <2>1. /\ local[p].token \in 0..issued' /\ issued' \in Nat /\ issued' >= issued
        /\ good' \subseteq 1..issued' /\ store' \in JfrogLogin /\ store'.token <= issued'
    BY <1>1, JfrogTypes
  <2>2. \A t \in good' \ lost' : t = store'.token \/ (t \in good \ lost /\ t # store.token)
    BY <1>1
  <2> QED
    BY <1>1, <1>3, <2>1, <2>2, JfrogHands
<1> QED
  BY <1>2, <1>3 DEF Jfrog!HandIdentity

LEMMA JfrogErase ==
    ASSUME JfrogInv, NEW p \in Processes, NEW r, Jfrog!Erase(p, r)
    PROVE  JfrogInv'
<1> DEFINE m == [Jfrog!Nothing EXCEPT !.rejected = memory[p].identity]
           d == retired[p] \cup {memory[p].held}
<1>1. /\ AtOnce(p, r, NoToken) /\ UNCHANGED <<store, good, issued, reserved, lost>>
      /\ memory' = [memory EXCEPT ![p] = m] /\ retired' = [retired EXCEPT ![p] = d]
  BY JfrogShared, JfrogTypes DEF Jfrog!Erase, Jfrog!service, service, Shape, OfProcesses
<1>2. m \in JfrogMemory /\ m.held = 0
  BY JfrogTypes DEF JfrogMemory
<1>3. d \subseteq 0..issued /\ good' \subseteq 1..issued' /\ issued' \in Nat /\ issued' >= issued
      /\ store' \in JfrogLogin /\ store'.token <= issued'
  BY <1>1, JfrogTypes
<1> HIDE DEF m, d
<1>4. Holds(p, m) /\ Drops(p, d)
  BY <1>1, HoldsThis, DropsThis, JfrogTypes
<1>5. OthersWait(p) /\ pc[p] = "idle" /\ pc'[p] = "idle" /\ answer'[p].token = 0
  BY <1>1, AnsweredAtOnce, NoTokenInIt, JfrogTypes DEF Turned
<1>6. \A t \in good' \ lost' : t = store'.token \/ (t \in good \ lost /\ t # store.token)
  BY <1>1
<1>7. m.held \in 0..issued'
  BY <1>2, <1>3
<1> QED
  BY <1>1, <1>2, <1>3, <1>4, <1>5, <1>6, <1>7, JfrogStep

(* The new login replaces the one before, which counts as lost.            *)
LEMMA JfrogStores ==
    ASSUME JfrogInv, NEW p \in Processes, pc[p] # "revoke", NEW type \in {"identity", "refresh"},
           Jfrog!StoreLogin(p, type), OthersWait(p), pc'[p] = "idle", answer'[p].token = 0,
           UNCHANGED <<reserved, retired>>
    PROVE  JfrogInv'
<1> DEFINE m == [memory[p] EXCEPT !.rejected = FALSE]
<1>1. /\ issued' = issued + 1 /\ good' = good \cup {issued + 1}
      /\ store' = [type |-> type, token |-> issued + 1] /\ lost' = lost \cup ({store.token} \ {0})
  BY DEF Jfrog!StoreLogin, Jfrog!GivesLogin, Jfrog!Issue, Jfrog!New
<1>2. m \in JfrogMemory /\ m.held = memory[p].held /\ m.identity = memory[p].identity /\ ~ m.rejected
  BY JfrogTypes DEF JfrogMemory
<1>3. memory' = [memory EXCEPT ![p] = m]
  BY JfrogTypes DEF Jfrog!StoreLogin, Shape, OfProcesses
<1> HIDE DEF m
<1>4. Holds(p, m) /\ Drops(p, retired[p]) /\ retired[p] \subseteq 0..issued
  BY <1>3, HoldsThis, JfrogTypes
<1>5. issued \in Nat /\ good \subseteq 1..issued /\ memory[p].held \in 0..issued
  BY JfrogTypes
<1>6. store' \in JfrogLogin /\ store'.token = issued + 1
  BY <1>1, <1>5 DEF JfrogLogin
<1>7. /\ issued' \in Nat /\ issued' >= issued /\ good' \subseteq 1..issued' /\ m.held \in 0..issued'
      /\ m.held \in retired[p] \ {0} => m.identity /\ ~ m.rejected
  <2>1. issued' = issued + 1 /\ good' = good \cup {issued + 1}
    BY <1>1
  <2>2. good' \subseteq 1..issued'
    BY <1>5, <2>1, MoreIssued
  <2>3. m.held \in retired[p] \ {0} => m.identity /\ ~ m.rejected
    BY <1>2, JfrogTypes
  <2> QED
    BY <1>2, <1>5, <2>1, <2>2, <2>3
<1>8. \A t \in good' \ lost' : t = store'.token \/ (t \in good \ lost /\ t # store.token)
  BY <1>1, <1>5, <1>6
<1>9. store'.token <= issued'
  BY <1>1, <1>5, <1>6
<1> QED
  BY <1>2, <1>4, <1>6, <1>7, <1>8, <1>9, JfrogStep

LEMMA JfrogLogins ==
    ASSUME JfrogInv, NEW p \in Processes, NEW r, Jfrog!Login(p, r)
    PROVE  JfrogInv'
<1>1. CASE AtOnce(p, r, NoToken) /\ Jfrog!StoreLogin(p, "identity")
  <2>1. OthersWait(p) /\ pc[p] = "idle" /\ pc'[p] = "idle" /\ answer'[p].token = 0
    BY <1>1, AnsweredAtOnce, NoTokenInIt, JfrogTypes DEF Turned
  <2> QED
    BY <1>1, <2>1, JfrogStores DEF Jfrog!Login
<1>2. CASE /\ AtOnce(p, r, Failed("other")) \/ Begin(p, r, "web-login", Jfrog!NoLogin)
           /\ UNCHANGED <<store, Jfrog!service, memory, ended, lost>>
  <2>1. Moves(p, JfrogSteps, JfrogLogin, {memory[p].held}) /\ "revoke" \notin JfrogSteps /\ pc[p] = "idle"
    BY <1>2, Moving, AnsweredAtOnce, Begins, JfrogTypes DEF JfrogSteps
  <2>2. UNCHANGED <<store, good, issued, memory, reserved, retired, lost>>
    BY <1>2 DEF Jfrog!Login, Jfrog!service
  <2> QED
    BY <2>1, <2>2, JfrogQuiet, JfrogTypes
<1> QED
  BY <1>1, <1>2, JfrogShared DEF Jfrog!Login

LEMMA JfrogWebLogin ==
    ASSUME JfrogInv, NEW p \in Processes, Jfrog!WebLogin(p)
    PROVE  JfrogInv'
<1>1. OthersWait(p) /\ pc'[p] = "idle" /\ answer'[p].token = 0
  BY Replies, NoTokenInIt, JfrogShared, JfrogTypes DEF Jfrog!WebLogin, Turned
<1> QED
  BY <1>1, JfrogStores DEF Jfrog!WebLogin

LEMMA JfrogLogout ==
    ASSUME JfrogInv, NEW p \in Processes, NEW r, Jfrog!Logout(p, r)
    PROVE  JfrogInv'
<1>1. UNCHANGED <<good, issued, reserved, lost>>
  BY DEF Jfrog!Logout, Jfrog!service, service
<1>2. CASE AtOnce(p, r, Failed("not-found")) /\ UNCHANGED <<store, memory, retired>>
  <2>1. Moves(p, JfrogSteps, JfrogLogin, {memory[p].held}) /\ "revoke" \notin JfrogSteps /\ pc[p] = "idle"
    BY <1>2, Moving, AnsweredAtOnce, JfrogTypes DEF JfrogSteps
  <2> QED
    BY <1>1, <1>2, <2>1, JfrogQuiet, JfrogTypes
<1>3. CASE /\ Begin(p, r, "revoke", store) /\ store' = Jfrog!NoLogin
           /\ memory' = [memory EXCEPT ![p].held = 0, ![p].identity = FALSE]
           /\ retired' = [retired EXCEPT ![p] = @ \cup {memory[p].held, store.token}]
  <2> DEFINE m == [memory[p] EXCEPT !.held = 0, !.identity = FALSE]
             d == retired[p] \cup {memory[p].held, store.token}
  <2>1. m \in JfrogMemory /\ m.held = 0
    BY JfrogTypes DEF JfrogMemory
  <2>2. memory' = [memory EXCEPT ![p] = m] /\ retired' = [retired EXCEPT ![p] = d] /\ d \subseteq 0..issued
    BY <1>3, JfrogTypes DEF Shape, OfProcesses
  <2> HIDE DEF m, d
  <2>3. Holds(p, m) /\ Drops(p, d)
    BY <2>2, HoldsThis, DropsThis, JfrogTypes
  <2>4. /\ OthersWait(p) /\ pc[p] = "idle" /\ answer'[p].token = 0
        /\ pc'[p] = "revoke" /\ local'[p] = store
    BY <1>3, Begins, JfrogTypes DEF Turned
  <2>5. /\ issued' \in Nat /\ issued' >= issued /\ good' \subseteq 1..issued' /\ m.held \in 0..issued'
        /\ store' \in JfrogLogin /\ store \in JfrogLogin /\ store'.token <= issued'
    BY <1>1, <1>3, <2>1, JfrogTypes
  <2>6. \A t \in good' \ lost' : t = local'[p].token \/ (t \in good \ lost /\ t # store.token)
    BY <1>1, <2>4
  <2> QED
    BY <1>1, <2>1, <2>2, <2>3, <2>4, <2>5, <2>6, JfrogStep
<1> QED
  BY <1>2, <1>3, JfrogShared DEF Jfrog!Logout

(* A request that ends with nothing.                                       *)
LEMMA JfrogEnds ==
    ASSUME JfrogInv, NEW p \in Processes, OthersWait(p), pc'[p] = "idle", answer'[p].token = 0,
           NEW m \in JfrogMemory, Holds(p, m), NEW d, Drops(p, d),
           (m = memory[p] /\ d = retired[p]) \/ (m.held = 0 /\ d = {}), UNCHANGED <<store, reserved>>,
           issued' \in Nat, issued' >= issued, good' \subseteq 1..issued',
           \A t \in good' \ lost' :
               t \in good \ lost /\ ~ (pc[p] = "revoke" /\ local[p].token = t)
    PROVE  JfrogInv'
<1>1. /\ d \subseteq 0..issued /\ m.held \in 0..issued' /\ store' \in JfrogLogin /\ store'.token <= issued'
      /\ m.held \in d \ {0} => m.identity /\ ~ m.rejected
  BY JfrogTypes
<1> QED
  BY <1>1, JfrogStep

LEMMA JfrogRevoke ==
    ASSUME JfrogInv, NEW p \in Processes, Jfrog!Revoke(p)
    PROVE  JfrogInv'
<1>1. pc[p] = "revoke" /\ UNCHANGED <<store, memory, reserved, retired, ended, issued>>
  BY DEF Jfrog!Revoke, Jfrog!RevokesItself, Jfrog!service, service
<1>2. OthersWait(p) /\ pc'[p] = "idle" /\ answer'[p].token = 0
  BY <1>1, Replies, NoTokenInIt, JfrogShared, JfrogTypes DEF Jfrog!Revoke, Turned
<1>3. \/ good' = good \ {local[p].token} /\ lost' = lost
      \/ lost' = lost \cup {local[p].token} /\ good' = good
  BY DEF Jfrog!Revoke, Jfrog!RevokesItself, Jfrog!service, service
<1>4. issued' \in Nat /\ issued' >= issued /\ good' \subseteq 1..issued'
  BY <1>1, <1>3, JfrogTypes
<1> QED
  BY <1>1, <1>2, <1>3, <1>4, JfrogTypes, JfrogEnds

LEMMA JfrogCallFails ==
    ASSUME JfrogInv, NEW p \in Processes, Jfrog!CallFails(p)
    PROVE  JfrogInv'
<1>1. pc[p] # "revoke" /\ UNCHANGED <<store, memory, reserved, retired, ended>>
  BY DEF Jfrog!CallFails
<1>2. OthersWait(p) /\ pc'[p] = "idle" /\ answer'[p].token = 0
  BY Replies, NoTokenInIt, JfrogShared, JfrogTypes DEF Jfrog!CallFails, Jfrog!CallError, Turned
<1>3. \/ UNCHANGED <<good, issued, lost>>
      \/ issued' = issued + 1 /\ good' = good \cup {issued + 1} /\ lost' = lost \cup {issued + 1}
      \/ /\ issued' = issued + 2 /\ good' = (good \ {local[p].token}) \cup {issued + 1 + 1}
         /\ lost' = lost \cup {issued + 1 + 1}
  BY DEF Jfrog!CallFails, Jfrog!GivesLogin, Jfrog!MintsAndRotates, Jfrog!Issue, Jfrog!New,
         Jfrog!service, service
<1>4. issued \in Nat /\ good \subseteq 1..issued
  BY JfrogTypes
<1>5. issued' \in Nat /\ issued' >= issued /\ good' \subseteq 1..issued'
  <2>1. CASE UNCHANGED <<good, issued, lost>>
    BY <1>4, <2>1
  <2>2. CASE issued' = issued + 1 /\ good' = good \cup {issued + 1}
    BY <1>4, <2>2
  <2>3. CASE issued' = issued + 2 /\ good' = (good \ {local[p].token}) \cup {issued + 1 + 1}
    <3> DEFINE rest == good \ {local[p].token}
               n == issued + 1 + 1
    <3>1. n \in Nat /\ n > issued
      BY <1>4
    <3>3. rest \in SUBSET (1..issued)
      BY <1>4
    <3>2. issued' = n /\ good' = rest \cup {n}
      BY <1>4, <2>3
    <3> HIDE DEF rest, n
    <3> QED
      BY <1>4, <3>1, <3>2, <3>3, MoreIssued
  <2> QED
    BY <1>3, <2>1, <2>2, <2>3
<1>6. \A t \in good' \ lost' : t \in good \ lost
  BY <1>3
<1> QED
  BY <1>1, <1>2, <1>5, <1>6, JfrogTypes, JfrogEnds

LEMMA JfrogStop ==
    ASSUME JfrogInv, NEW p \in Processes, Jfrog!Stop(p)
    PROVE  JfrogInv'
<1>1. UNCHANGED <<store, reserved, good, issued>>
  BY DEF Jfrog!Stop, Jfrog!service, service
<1>2. /\ OthersWait(p) /\ pc'[p] = "idle" /\ answer'[p].token = 0
      /\ Holds(p, Jfrog!Nothing) /\ Drops(p, {})
  BY Restarts, JfrogShared, JfrogTypes DEF Jfrog!Stop, Turned
<1>3. lost' = IF pc[p] = "revoke" THEN lost \cup {local[p].token} ELSE lost
  BY DEF Jfrog!Stop
<1>4. issued' \in Nat /\ issued' >= issued /\ good' \subseteq 1..issued'
  BY <1>1, JfrogTypes
<1> QED
  BY <1>1, <1>2, <1>3, <1>4, JfrogTypes, JfrogEnds

(* It starts in its invariant.                                             *)
LEMMA JfrogInit ==
    ASSUME Jfrog!Init
    PROVE  JfrogInv
<1>1. PICK type \in {"none", "identity", "refresh"} :
        LET entry == IF type = "none" THEN Jfrog!NoLogin ELSE [type |-> type, token |-> 1] IN
        Jfrog!ProcessInit(entry, Jfrog!Nothing, {}) /\ good = {entry.token} \ {0} /\ issued = 1
  BY DEF Jfrog!Init
<1>2. /\ store \in {Jfrog!NoLogin, [type |-> type, token |-> 1]} /\ good = {store.token} \ {0}
      /\ memory = [p \in Processes |-> Jfrog!Nothing]
      /\ pc = [p \in Processes |-> "idle"] /\ local = [p \in Processes |-> 0]
      /\ req = [p \in Processes |-> NoRequest] /\ answer = [p \in Processes |-> NoToken]
      /\ asked = [p \in Processes |-> FALSE]
      /\ reserved = {} /\ retired = [p \in Processes |-> {}] /\ lost = {}
  BY <1>1, JfrogShared DEF Jfrog!ProcessInit, Jfrog!NoRequest, NoRequest
<1>3. Shared
  BY <1>1, <1>2, SharedInit
<1>4. store \in JfrogLogin /\ store.token \in {0, 1} /\ store.token <= issued /\ good \subseteq 1..issued
  BY <1>1, <1>2 DEF Jfrog!NoLogin, JfrogLogin
<1>5. ASSUME NEW p \in Processes
      PROVE  JfrogHolds(p)
  <2>1. /\ memory[p] = [held |-> 0, identity |-> FALSE, rejected |-> FALSE] /\ pc[p] = "idle"
        /\ retired[p] = {}
    BY <1>2 DEF Jfrog!Nothing
  <2> QED
    BY <1>1, <2>1 DEF JfrogHolds, JfrogMemory
<1> QED
  BY <1>2, <1>3, <1>4, <1>5 DEF JfrogInv, JfrogKept, Shared

(* Every action keeps the invariant.                                       *)
LEMMA JfrogNext ==
    ASSUME JfrogInv, Jfrog!Next
    PROVE  JfrogInv'
<1>1. PICK p \in Processes :
        \/ \E r \in Jfrog!Request :
              Jfrog!Get(p, r) \/ Jfrog!Erase(p, r) \/ Jfrog!Login(p, r) \/ Jfrog!Logout(p, r)
        \/ Jfrog!Exchange(p) \/ Jfrog!Mint(p) \/ Jfrog!MintRotated(p) \/ Jfrog!HandIdentity(p)
        \/ Jfrog!WebLogin(p) \/ Jfrog!Revoke(p) \/ Jfrog!CallFails(p) \/ Jfrog!Stop(p)
  BY DEF Jfrog!Next
<1> QED
  BY <1>1, JfrogGet, JfrogErase, JfrogLogins, JfrogLogout, JfrogExchange, JfrogMintRotated,
     JfrogHandIdentity, JfrogWebLogin, JfrogRevoke, JfrogCallFails, JfrogStop

(* The invariant gives the properties.                                     *)
LEMMA JfrogSafe ==
    ASSUME JfrogInv
    PROVE  Jfrog!DroppedNotGiven /\ Jfrog!NothingForgotten
BY DEF JfrogInv, JfrogHolds, Jfrog!DroppedNotGiven, JfrogKept, Jfrog!NothingForgotten

-----------------------------------------------------------------------------
(* Azure Artifacts.                                                        *)

AzureAccount == [signIn : Nat, pat : BOOLEAN, session : Nat, minted : SUBSET Nat]
AzureMemory  == [bare : Nat, rejected : Nat]
AzureLocal   == [account : AzureAccount, kind : Azure!Kinds, left : SUBSET Nat]

(* What a process may answer a read with.                                  *)
AzureKnown(p, t) == t \in 0..issued /\ t \notin retired[p] \ {0} /\ t \notin reserved

AzureRead(p, a) ==
    a \in AzureAccount /\ AzureKnown(p, a.signIn) /\ AzureKnown(p, a.session) /\ a.minted \subseteq 0..issued

AzureValues(p, v) == v \in AzureLocal /\ AzureRead(p, v.account) /\ v.left \subseteq 0..issued

(* A session token is no other's number, so that what an erase drops is    *)
(* neither the sign-in nor the machine's own token. A login that goes over *)
(* the handles it read has revoked those, or is about to.                  *)
AzureProcess(p) ==
    /\ memory[p] \in AzureMemory /\ AzureKnown(p, memory[p].bare)
    /\ store.session # 0 => store.session # memory[p].bare
    /\ store.signIn # 0 => store.signIn # memory[p].bare
    /\ AzureRead(p, store)
    /\ pc[p] # "idle" => AzureValues(p, local[p]) /\ (local[p].kind = "manage" => req[p].write)
    /\ pc[p] = "revoke" => \A t \in local[p].account.minted : t \in good \ lost => t \in local[p].left

AzureStored ==
    /\ store \in AzureAccount /\ store.signIn \in 0..issued /\ store.session \in 0..issued
    /\ store.signIn \notin reserved /\ store.session \notin reserved /\ store.minted \subseteq 0..issued
    /\ store.session # 0 => store.session # store.signIn
    /\ store.signIn \notin ended

AzureHas(p, t) == pc[p] = "revoke" /\ local[p].kind = "logout" /\ t \in local[p].left

AzureKept == \A t \in good \ lost : t \in store.minted \/ \E p \in Processes : AzureHas(p, t)

AzureInv ==
    /\ Shared /\ AzureStored /\ AzureKept
    /\ good \subseteq 1..issued /\ ended \subseteq 1..issued
    /\ \A p \in Processes : AzureProcess(p)

(* A write is past its prompt.                                             *)
AzureYes(p) == pc[p] = "mint" /\ req[p].write => asked[p]

AzureAsks == \A p \in Processes : Yes(p) /\ AzureYes(p)

(* The module's own copies of the shared operators are the operators.      *)
LEMMA AzureShared ==
    /\ \A p, r, step, values : Azure!Begin(p, r, step, values) <=> Begin(p, r, step, values)
    /\ \A p, r, a : Azure!AtOnce(p, r, a) <=> AtOnce(p, r, a)
    /\ \A p, step, values : Azure!GoOn(p, step, values) <=> GoOn(p, step, values)
    /\ \A p, a : Azure!Reply(p, a) <=> Reply(p, a)
    /\ \A p, fresh : Azure!Restart(p, fresh) <=> Restart(p, fresh)
    /\ \A what : Azure!Failed(what) = Failed(what)
    /\ Azure!NoToken = NoToken
BY DEF Azure!Begin, Begin, Azure!AtOnce, AtOnce, Azure!Take, Take, Azure!GoOn, GoOn,
       Azure!Reply, Reply, Azure!Restart, Restart, Azure!NoRequest, NoRequest,
       Azure!NoToken, NoToken, Azure!Failed, Failed, Azure!Asked, Asked

(* The parts of a step that are the same for all of them.                  *)
LEMMA AzureStep ==
    ASSUME AzureInv, NEW p \in Processes, OthersWait(p), NEW m, Holds(p, m),
           NEW d, Drops(p, d), d \subseteq 0..issued,
           issued' \in Nat, issued' >= issued, good' \subseteq 1..issued', ended' \subseteq 1..issued',
           reserved' \subseteq reserved \cup ((issued + 1)..issued'),
           good' \subseteq good \cup ((issued + 1)..issued'), lost \subseteq lost',
           \/ answer'[p].token = 0
           \/ /\ pc'[p] = "idle" /\ answer'[p].token \in 0..issued' /\ answer'[p].token \notin d
              /\ answer'[p].token \in reserved' => answer'[p].asked,
           AzureStored', AzureProcess(p)',
           store'.signIn \in {0, store.signIn} \cup ((issued + 1)..issued'),
           store'.session \in {0, store.session} \cup ((issued + 1)..issued'),
           \A t \in good' \ lost' : \/ t \in store'.minted \/ AzureHas(p, t)'
                                    \/ t \in good \ lost /\ t \notin store.minted /\ ~ AzureHas(p, t)
    PROVE  AzureInv'
<1> DEFINE new == (issued + 1)..issued'
<1>1. Shared /\ issued \in Nat /\ d \subseteq 0..issued'
  BY DEF AzureInv, Shared, Shape
<1>2. Shared'
  BY <1>1, SharedStep
<1>3. /\ \A t \in 0..issued : t \in 0..issued' /\ t \notin new
      /\ \A t \in new : t \in 0..issued' /\ t # 0
  BY <1>1
<1> HIDE DEF new
<1>4. AzureKept'
  <2>1. SUFFICES ASSUME NEW t \in good' \ lost', t \notin store'.minted, ~ AzureHas(p, t)'
                 PROVE  \E q \in Processes : AzureHas(q, t)'
    BY DEF AzureKept
  <2>2. PICK q \in Processes \ {p} : AzureHas(q, t)
    BY <2>1 DEF AzureInv, AzureKept
  <2>3. AzureHas(q, t)'
    BY <2>2 DEF AzureHas, OthersWait
  <2> QED
    BY <2>3
<1>5. ASSUME NEW q \in Processes \ {p}
      PROVE  AzureProcess(q)'
  <2>1. /\ AzureProcess(q) /\ pc'[q] = pc[q] /\ local'[q] = local[q] /\ memory'[q] = memory[q]
        /\ retired'[q] = retired[q] /\ req'[q] = req[q] /\ retired[q] \subseteq 0..issued
    BY DEF AzureInv, OthersWait, Holds, Drops, Shared, Dropped
  <2>2. \A t : AzureKnown(q, t) => AzureKnown(q, t)'
    BY <1>3, <2>1 DEF AzureKnown, new
  <2>3. \A t \in new : t \notin reserved' => AzureKnown(q, t)'
    BY <1>3, <2>1 DEF AzureKnown
  <2>4. AzureKnown(q, 0)
    BY <1>1 DEF AzureKnown, Shared, Answered
  <2>5. AzureRead(q, store)'
    <3>1. AzureKnown(q, store.signIn) /\ AzureKnown(q, store.session)
      BY <2>1 DEF AzureProcess, AzureRead
    <3>2. /\ store'.signIn \in {0, store.signIn} \cup new /\ store'.session \in {0, store.session} \cup new
      BY DEF new
    <3>3. AzureKnown(q, store.signIn)'
      <4>1. CASE store'.signIn \in new
        BY <2>3, <4>1 DEF AzureStored
      <4>2. CASE store'.signIn \in {0, store.signIn}
        <5>1. PICK t : t = store'.signIn
          OBVIOUS
        <5> QED
          BY <2>2, <2>4, <3>1, <4>2, <5>1
      <4> QED
        BY <3>2, <4>1, <4>2
    <3>4. AzureKnown(q, store.session)'
      <4>1. CASE store'.session \in new
        BY <2>3, <4>1 DEF AzureStored
      <4>2. CASE store'.session \in {0, store.session}
        <5>1. PICK t : t = store'.session
          OBVIOUS
        <5> QED
          BY <2>2, <2>4, <3>1, <4>2, <5>1
      <4> QED
        BY <3>2, <4>1, <4>2
    <3> QED
      BY <3>3, <3>4 DEF AzureRead, AzureStored
  <2>6. memory[q] \in AzureMemory /\ AzureKnown(q, memory[q].bare)'
    <3>1. PICK t : t = memory[q].bare
      OBVIOUS
    <3> QED
      BY <2>1, <2>2, <3>1 DEF AzureProcess
  <2>7. /\ store'.session # 0 => store'.session # memory[q].bare
        /\ store'.signIn # 0 => store'.signIn # memory[q].bare
    <3>1. /\ memory[q].bare \in 0..issued /\ (store.session # 0 => store.session # memory[q].bare)
          /\ store.signIn # 0 => store.signIn # memory[q].bare
      BY <2>1 DEF AzureProcess, AzureKnown
    <3>2. memory[q].bare \notin new
      BY <1>3, <3>1
    <3> QED
      BY <3>1, <3>2 DEF new
  <2>8. ASSUME pc[q] # "idle"
        PROVE  AzureValues(q, local[q])'
    <3>1. PICK v : v = local[q]
      OBVIOUS
    <3>2. AzureValues(q, v) /\ v = local'[q]
      BY <2>1, <2>8, <3>1 DEF AzureProcess
    <3>3. 0..issued \subseteq 0..issued'
      BY <1>3
    <3>4. AzureValues(q, v)'
      BY <2>2, <3>2, <3>3 DEF AzureValues, AzureRead
    <3> QED
      BY <3>2, <3>4
  <2>9. ASSUME pc[q] = "revoke"
        PROVE  \A t \in local[q].account.minted : t \in good' \ lost' => t \in local[q].left
    <3>1. ASSUME NEW t \in local[q].account.minted, t \in good' \ lost'
          PROVE  t \in local[q].left
      <4>1. t \in 0..issued
        BY <2>1, <2>9, <3>1 DEF AzureProcess, AzureValues, AzureRead
      <4>2. t \in good \ lost
        BY <1>3, <3>1, <4>1 DEF new
      <4> QED
        BY <2>1, <2>9, <3>1, <4>2 DEF AzureProcess
    <3> QED
      BY <3>1
  <2> QED
    BY <2>1, <2>5, <2>6, <2>7, <2>8, <2>9 DEF AzureProcess
<1> QED
  BY <1>2, <1>4, <1>5 DEF AzureInv

(* What the invariant says for a step of p: types, and how memory and      *)
(* drops go.                                                               *)
LEMMA AzureTypes ==
    ASSUME AzureInv, NEW p \in Processes
    PROVE  /\ Shape /\ Answered /\ issued \in Nat /\ good \subseteq 1..issued /\ ended \subseteq 1..issued
           /\ reserved \subseteq 1..issued /\ retired[p] \subseteq 0..issued
           /\ memory[p] \in AzureMemory /\ AzureKnown(p, memory[p].bare) /\ AzureKnown(p, 0)
           /\ store \in AzureAccount /\ AzureRead(p, store)
           /\ UNCHANGED memory => Holds(p, memory[p])
           /\ \A m : memory' = [memory EXCEPT ![p] = m] => Holds(p, m)
           /\ UNCHANGED retired => Drops(p, retired[p])
           /\ \A d : retired' = [retired EXCEPT ![p] = d] => Drops(p, d)
           /\ pc[p] # "idle" => /\ AzureValues(p, local[p]) /\ (local[p].kind = "manage" => req[p].write)
                                /\ answer[p].token = 0
           /\ pc[p] = "revoke" => \A t \in local[p].account.minted : t \in good \ lost => t \in local[p].left
<1>1. /\ Shared /\ Shape /\ Answered /\ issued \in Nat /\ AzureProcess(p) /\ Dropped(p)
      /\ good \subseteq 1..issued /\ ended \subseteq 1..issued
  BY DEF AzureInv, Shared, Shape
<1>2. /\ UNCHANGED memory => Holds(p, memory[p])
      /\ \A m : memory' = [memory EXCEPT ![p] = m] => Holds(p, m)
      /\ UNCHANGED retired => Drops(p, retired[p])
      /\ \A d : retired' = [retired EXCEPT ![p] = d] => Drops(p, d)
  BY <1>1, HoldsThis, DropsThis
<1>3. reserved \subseteq 1..issued /\ (pc[p] # "idle" => answer[p].token = 0) /\ AzureKnown(p, 0)
  BY <1>1 DEF Answered, AnswerAsked, AzureKnown
<1> QED
  BY <1>1, <1>2, <1>3 DEF AzureProcess, Dropped, AzureRead

(* A step that leaves the store alone.                                     *)
LEMMA AzureGoes ==
    ASSUME AzureInv, NEW p \in Processes, OthersWait(p),
           NEW m \in AzureMemory, Holds(p, m),
           m.bare \in {0, memory[p].bare} \/ (m.bare \in (issued + 1)..issued' /\ m.bare \notin reserved'),
           NEW d, Drops(p, d), d \subseteq retired[p], UNCHANGED <<store, ended>>,
           issued' \in Nat, issued' >= issued, reserved' \subseteq reserved \cup ((issued + 1)..issued'),
           good' \subseteq good \cup ((issued + 1)..issued'), lost \subseteq lost',
           \/ answer'[p].token = 0
           \/ /\ pc'[p] = "idle" /\ answer'[p].token \in 0..issued' /\ answer'[p].token \notin d \ {0}
              /\ answer'[p].token \in reserved' => answer'[p].asked,
           pc'[p] # "idle" => AzureValues(p, local'[p]) /\ (local'[p].kind = "manage" => req'[p].write),
           pc'[p] = "revoke" =>
               \A t \in local'[p].account.minted : t \in good' \ lost' => t \in local'[p].left,
           \A t \in good' \ lost' : AzureHas(p, t)' \/ (t \in good \ lost /\ ~ AzureHas(p, t))
    PROVE  AzureInv'
<1> DEFINE new == (issued + 1)..issued'
<1>1. /\ issued \in Nat /\ d \subseteq 0..issued /\ good \subseteq 1..issued /\ ended \subseteq 1..issued
      /\ AzureStored /\ AzureProcess(p) /\ retired[p] \subseteq 0..issued
  BY AzureTypes DEF AzureInv
<1>2. /\ good' \subseteq 1..issued' /\ ended' \subseteq 1..issued' /\ 0..issued \subseteq 0..issued'
      /\ \A t \in 0..issued : t \notin new
      /\ \A t \in new : t \in 0..issued' /\ t # 0 /\ t \notin 0..issued
  BY <1>1
<1> HIDE DEF new
<1>3. \A t : AzureKnown(p, t) => AzureKnown(p, t)'
  BY <1>2 DEF AzureKnown, Drops, new
<1>4. AzureStored'
  BY <1>2 DEF AzureStored, AzureInv, new
<1>5. AzureProcess(p)'
  <2>1. /\ AzureKnown(p, m.bare)' /\ (store.session # 0 => store.session # m.bare)
        /\ store.signIn # 0 => store.signIn # m.bare
    <3>1. CASE m.bare \in {0, memory[p].bare}
      BY <1>1, <1>3, <3>1, AzureTypes DEF AzureProcess
    <3>2. CASE m.bare \in new /\ m.bare \notin reserved'
      BY <1>1, <1>2, <3>2 DEF AzureStored, AzureKnown, Drops
    <3> QED
      BY <3>1, <3>2 DEF new
  <2>2. AzureRead(p, store)'
    <3>1. PICK a : a = store
      OBVIOUS
    <3>2. AzureRead(p, a)
      BY <1>1, <3>1 DEF AzureProcess
    <3>3. AzureRead(p, a)'
      BY <1>2, <1>3, <3>2 DEF AzureRead
    <3> QED
      BY <3>1, <3>3
  <2>3. ASSUME pc'[p] # "idle"
        PROVE  AzureValues(p, local[p])'
    <3>1. PICK v : v = local'[p]
      OBVIOUS
    <3>2. AzureValues(p, v)
      BY <2>3, <3>1
    <3>3. AzureValues(p, v)'
      BY <1>2, <1>3, <3>2 DEF AzureValues, AzureRead
    <3> QED
      BY <3>1, <3>3
  <2>4. memory'[p] = m
    BY DEF Holds
  <2>5. memory'[p] \in AzureMemory /\ AzureKnown(p, memory[p].bare)'
        /\ (store'.session # 0 => store'.session # memory'[p].bare)
        /\ (store'.signIn # 0 => store'.signIn # memory'[p].bare)
    BY <2>1, <2>4
  <2> QED
    BY <2>2, <2>3, <2>5 DEF AzureProcess
<1>6. /\ store'.signIn \in {0, store.signIn} \cup ((issued + 1)..issued')
      /\ store'.session \in {0, store.session} \cup ((issued + 1)..issued')
  OBVIOUS
<1>7. \A t \in good' \ lost' : \/ t \in store'.minted \/ AzureHas(p, t)'
                               \/ t \in good \ lost /\ t \notin store.minted /\ ~ AzureHas(p, t)
  OBVIOUS
<1>8. \/ answer'[p].token = 0
      \/ /\ pc'[p] = "idle" /\ answer'[p].token \in 0..issued' /\ answer'[p].token \notin d
         /\ answer'[p].token \in reserved' => answer'[p].asked
  OBVIOUS
<1> QED
  BY <1>1, <1>2, <1>4, <1>5, <1>6, <1>7, <1>8, AzureStep

-----------------------------------------------------------------------------
(* A request that comes, goes on or is answered, and changes nothing else. *)
AzureTurn(p) ==
    /\ pc[p] # "revoke" /\ OthersWait(p) /\ pc'[p] # "revoke"
    /\ pc'[p] # "idle" => AzureValues(p, local'[p]) /\ (local'[p].kind = "manage" => req'[p].write)
    /\ answer'[p].token = 0 \/ (pc'[p] = "idle" /\ AzureKnown(p, answer'[p].token))

(* A step that only moves a request on.                                    *)
LEMMA AzureQuiet ==
    ASSUME AzureInv, NEW p \in Processes, AzureTurn(p),
           UNCHANGED <<store, good, issued, memory, history>>
    PROVE  AzureInv'
<1>1. /\ Holds(p, memory[p]) /\ Drops(p, retired[p]) /\ memory[p] \in AzureMemory
      /\ UNCHANGED <<reserved, retired, ended, lost>> /\ issued' \in Nat /\ issued' >= issued
  BY AzureTypes DEF history
<1>2. /\ OthersWait(p) /\ pc'[p] # "revoke"
      /\ pc'[p] # "idle" => AzureValues(p, local'[p]) /\ (local'[p].kind = "manage" => req'[p].write)
      /\ \/ answer'[p].token = 0
         \/ /\ pc'[p] = "idle" /\ answer'[p].token \in 0..issued' /\ answer'[p].token \notin retired[p] \ {0}
            /\ answer'[p].token \in reserved' => answer'[p].asked
  BY <1>1 DEF AzureTurn, AzureKnown
<1>3. \A t : ~AzureHas(p, t)
  BY DEF AzureTurn, AzureHas
<1>4. \A t \in good' \ lost' : t \in good \ lost /\ ~ AzureHas(p, t)
  BY <1>1, <1>3
<1>5. /\ good' \subseteq good \cup ((issued + 1)..issued') /\ lost \subseteq lost'
      /\ reserved' \subseteq reserved \cup ((issued + 1)..issued')
  BY <1>1
<1> QED
  BY <1>1, <1>2, <1>4, <1>5, AzureGoes

(* A request that is answered, at its start or after an await.             *)
LEMMA AzureAnswers ==
    ASSUME AzureInv, NEW p \in Processes, pc[p] # "revoke", NEW r, NEW a,
           a.token = 0 \/ AzureKnown(p, a.token),
           Azure!AtOnce(p, r, a) \/ Azure!Reply(p, a) \/ Azure!Answers(p, r, a)
    PROVE  AzureTurn(p)
<1>1. AtOnce(p, r, a) \/ Reply(p, a)
  BY AzureShared DEF Azure!Answers
<1>2. OthersWait(p) /\ pc'[p] = "idle" /\ answer'[p] = a
  BY <1>1, AzureTypes, AnsweredAtOnce, Replies DEF Turned
<1> QED
  BY <1>2 DEF AzureTurn

(* Its empty answers carry no token.                                       *)
LEMMA AzureNothing == Azure!NoToken.token = 0 /\ \A what : Azure!Failed(what).token = 0
BY NoTokenInIt, AzureShared

(* A request that awaits what comes next, at its start or after an await.  *)
LEMMA AzureAwaits ==
    ASSUME AzureInv, NEW p \in Processes, pc[p] # "revoke", NEW r, NEW step, step \notin {"idle", "revoke"},
           NEW v, AzureValues(p, v), v.kind = "manage" => (IF pc[p] = "idle" THEN r ELSE req[p]).write,
           \/ Azure!Begin(p, r, step, v) \/ Azure!Awaits(p, r, step, v)
           \/ (pc[p] # "idle" /\ Azure!GoOn(p, step, v))
    PROVE  AzureTurn(p)
<1>1. Begin(p, r, step, v) \/ (pc[p] # "idle" /\ GoOn(p, step, v))
  BY AzureShared DEF Azure!Awaits
<1>2. /\ OthersWait(p) /\ pc'[p] = step /\ local'[p] = v /\ answer'[p].token = 0
      /\ req'[p] = IF pc[p] = "idle" THEN r ELSE req[p]
  <2>1. CASE Begin(p, r, step, v)
    BY <2>1, AzureTypes, Begins DEF Turned
  <2>2. CASE pc[p] # "idle" /\ GoOn(p, step, v)
    BY <2>2, AzureTypes, GoesOn DEF Turned
  <2> QED
    BY <1>1, <2>1, <2>2
<1> QED
  BY <1>2 DEF AzureTurn

(* What a request begins with is of the types, and may be handed out.      *)
LEMMA AzureBegun ==
    ASSUME AzureInv, NEW p \in Processes, NEW kind \in Azure!Kinds
    PROVE  AzureValues(p, Azure!Begun(kind)) /\ Azure!Begun(kind).kind = kind
BY AzureTypes DEF Azure!Begun, AzureValues, AzureLocal

LEMMA AzureFromLogin ==
    ASSUME AzureInv, NEW p \in Processes, pc[p] # "revoke", NEW r, NEW v, AzureValues(p, v),
           v.kind = "manage" => (IF pc[p] = "idle" THEN r ELSE req[p]).write,
           Azure!FromLogin(p, r, v)
    PROVE  AzureTurn(p)
<1>1. PICK a : a = Azure!Gives(p, r, v.account.session, FALSE)
  OBVIOUS
<1>2. a.token = v.account.session /\ AzureKnown(p, v.account.session)
  BY <1>1 DEF Azure!Gives, AzureValues, AzureRead
<1>3. Azure!Answers(p, r, a) \/ Azure!Awaits(p, r, "mint", v)
  BY <1>1 DEF Azure!FromLogin
<1> QED
  BY <1>2, <1>3, AzureAnswers, AzureAwaits

LEMMA AzureGet ==
    ASSUME AzureInv, NEW p \in Processes, NEW r, Azure!Get(p, r)
    PROVE  AzureInv'
<1>1. pc[p] = "idle" /\ UNCHANGED <<store, good, issued, memory, history>>
  BY DEF Azure!Get, Azure!service, Azure!history, history
<1>2. PICK a, job : a = Azure!Gives(p, r, store.signIn, FALSE) /\ job = Azure!Gives(p, r, 0, TRUE)
  OBVIOUS
<1>3. PICK kind \in Azure!Kinds :
        /\ kind = "manage" => r.write
        /\ \/ \E what : Azure!AtOnce(p, r, Azure!Failed(what))
           \/ Azure!AtOnce(p, r, job) \/ Azure!AtOnce(p, r, a)
           \/ Azure!FromLogin(p, r, Azure!Begun(kind))
           \/ \E step \in {"confirm", "identity"} : Azure!Begin(p, r, step, Azure!Begun(kind))
  <2>1. PICK kind \in IF r.write THEN {"session", "manage"} ELSE {"session"} :
          \/ \E what : Azure!AtOnce(p, r, Azure!Failed(what))
          \/ Azure!AtOnce(p, r, job) \/ Azure!AtOnce(p, r, a)
          \/ Azure!FromLogin(p, r, Azure!Begun(kind))
          \/ Azure!Begin(p, r, "confirm", Azure!Begun("job"))
          \/ Azure!Begin(p, r, "confirm", Azure!Begun("pat"))
          \/ Azure!Begin(p, r, "confirm", Azure!Begun(kind))
          \/ Azure!Begin(p, r, "identity", Azure!Begun("identity"))
    BY <1>2 DEF Azure!Get
  <2>2. /\ kind \in Azure!Kinds /\ (kind = "manage" => r.write)
        /\ {"job", "pat", "identity"} \subseteq Azure!Kinds
    BY <2>1 DEF Azure!Kinds
  <2> QED
    BY <2>1, <2>2
<1>4. CASE \/ \E what : Azure!AtOnce(p, r, Azure!Failed(what))
           \/ Azure!AtOnce(p, r, job)
  <2>1. job.token = 0
    BY <1>2 DEF Azure!Gives
  <2> QED
    BY <1>1, <1>4, <2>1, AzureNothing, AzureAnswers, AzureQuiet
<1>5. CASE Azure!AtOnce(p, r, a)
  <2>1. a.token = store.signIn /\ AzureKnown(p, store.signIn)
    BY <1>2, AzureTypes DEF Azure!Gives, AzureRead
  <2> QED
    BY <1>1, <1>5, <2>1, AzureAnswers, AzureQuiet
<1>6. CASE Azure!FromLogin(p, r, Azure!Begun(kind))
  BY <1>1, <1>3, <1>6, AzureBegun, AzureFromLogin, AzureQuiet
<1>7. ASSUME NEW step \in {"confirm", "identity"}, Azure!Begin(p, r, step, Azure!Begun(kind))
      PROVE  AzureInv'
  BY <1>1, <1>3, <1>7, AzureBegun, AzureAwaits, AzureQuiet
<1> QED
  BY <1>3, <1>4, <1>5, <1>6, <1>7

LEMMA AzureGives ==
    ASSUME NEW p, NEW t, NEW allowed
    PROVE  Azure!Gives(p, req[p], t, allowed).token = t
BY DEF Azure!Gives

LEMMA AzureConfirm ==
    ASSUME AzureInv, NEW p \in Processes, Azure!Confirm(p)
    PROVE  AzureInv'
<1>1. pc[p] = "confirm" /\ UNCHANGED <<store, good, issued, memory, history>>
  BY DEF Azure!Confirm, Azure!service, Azure!history, history
<1>2. AzureValues(p, local[p]) /\ (local[p].kind = "manage" => req[p].write)
  BY <1>1, AzureTypes
<1>3. CASE Azure!Reply(p, Azure!Failed("other"))
  BY <1>1, <1>3, AzureNothing, AzureAnswers, AzureQuiet
<1>4. CASE \/ Azure!Reply(p, Azure!Gives(p, req[p], 0, FALSE))
           \/ Azure!Reply(p, Azure!Gives(p, req[p], local[p].account.signIn, FALSE))
  <2>1. AzureKnown(p, local[p].account.signIn)
    BY <1>2 DEF AzureValues, AzureRead
  <2>2. PICK a : Azure!Reply(p, a) /\ (a.token = 0 \/ a.token = local[p].account.signIn)
    BY <1>4 DEF Azure!Gives
  <2> QED
    BY <1>1, <2>1, <2>2, AzureAnswers, AzureQuiet
<1>5. CASE Azure!FromLogin(p, req[p], local[p])
  BY <1>1, <1>2, <1>5, AzureFromLogin, AzureQuiet
<1> QED
  BY <1>3, <1>4, <1>5 DEF Azure!Confirm

LEMMA AzureLogin ==
    ASSUME AzureInv, NEW p \in Processes, NEW r, Azure!Login(p, r)
    PROVE  AzureInv'
<1>1. UNCHANGED <<store, good, issued, memory, history>>
  BY DEF Azure!Login, Azure!service, Azure!history, history
<1>2. CASE Azure!AtOnce(p, r, Azure!Failed("other"))
  <2>1. pc[p] = "idle"
    BY <1>2, AnsweredAtOnce, AzureShared, AzureTypes
  <2> QED
    BY <1>1, <1>2, <2>1, AzureNothing, AzureAnswers, AzureQuiet
<1>3. ASSUME NEW kind \in {"paste", "login"}, NEW step \in {"check", "device"},
             Azure!Begin(p, r, step, Azure!Begun(kind))
      PROVE  AzureInv'
  <2>1. pc[p] = "idle" /\ kind \in Azure!Kinds /\ kind # "manage"
    BY <1>3, Begins, AzureShared, AzureTypes DEF Azure!Kinds
  <2> QED
    BY <1>1, <1>3, <2>1, AzureBegun, AzureAwaits, AzureQuiet
<1> QED
  BY <1>2, <1>3 DEF Azure!Login

(* The machine's own token goes out, and is what memory has then.          *)
LEMMA AzureIdentity ==
    ASSUME AzureInv, NEW p \in Processes, Azure!Identity(p)
    PROVE  AzureInv'
<1>1. PICK t :
        /\ pc[p] = "identity" /\ UNCHANGED <<store, good, reserved, retired, ended, lost>>
        /\ \/ t = issued + 1 /\ issued' = issued + 1
           \/ t = memory[p].bare /\ issued' = issued
        /\ \/ Azure!Reply(p, Azure!Failed("other")) /\ UNCHANGED memory
           \/ /\ Azure!Reply(p, Azure!Gives(p, req[p], t, TRUE))
              /\ memory' = [memory EXCEPT ![p] = [memory[p] EXCEPT !.bare = t]]
  BY DEF Azure!Identity, Azure!IdentityToken, Azure!Issue, Azure!New, Azure!service, Azure!history
<1>2. /\ issued \in Nat /\ memory[p] \in AzureMemory /\ AzureKnown(p, memory[p].bare) /\ Drops(p, retired[p])
      /\ memory[p].bare \in Nat /\ reserved \subseteq 1..issued /\ retired[p] \subseteq 0..issued
  BY <1>1, AzureTypes DEF AzureMemory
<1>3. /\ t \in Nat /\ issued' \in Nat /\ issued' >= issued /\ t \in 0..issued' /\ t \notin reserved'
      /\ t \notin retired[p] \ {0}
      /\ t = memory[p].bare \/ t \in (issued + 1)..issued'
  BY <1>1, <1>2 DEF AzureKnown
<1>4. \A s : ~AzureHas(p, s)
  BY <1>1 DEF AzureHas
<1>5. /\ \A s \in good' \ lost' : s \in good \ lost /\ ~ AzureHas(p, s)
      /\ good' \subseteq good \cup ((issued + 1)..issued') /\ lost \subseteq lost'
      /\ reserved' \subseteq reserved \cup ((issued + 1)..issued')
  BY <1>1, <1>4
<1>6. CASE Azure!Reply(p, Azure!Failed("other")) /\ UNCHANGED memory
  <2>1. OthersWait(p) /\ pc'[p] = "idle" /\ answer'[p].token = 0 /\ Holds(p, memory[p])
    BY <1>6, Replies, NoTokenInIt, AzureShared, AzureTypes DEF Turned
  <2> QED
    BY <1>1, <1>2, <1>3, <1>5, <2>1, AzureGoes
<1>7. CASE /\ Azure!Reply(p, Azure!Gives(p, req[p], t, TRUE))
           /\ memory' = [memory EXCEPT ![p] = [memory[p] EXCEPT !.bare = t]]
  <2>1. PICK m : m = [memory[p] EXCEPT !.bare = t]
    OBVIOUS
  <2>2. m \in AzureMemory /\ m.bare = t
    BY <1>2, <1>3, <2>1 DEF AzureMemory
  <2>3. OthersWait(p) /\ pc'[p] = "idle" /\ answer'[p].token = t /\ Holds(p, m)
    <3>1. PICK a : a = Azure!Gives(p, req[p], t, TRUE)
      OBVIOUS
    <3>2. a.token = t /\ Reply(p, a)
      BY <1>7, <3>1, AzureShared DEF Azure!Gives
    <3>3. OthersWait(p) /\ pc'[p] = "idle" /\ answer'[p] = a
      BY <3>2, Replies, AzureTypes DEF Turned
    <3>4. Holds(p, m)
      BY <1>7, <2>1, AzureTypes
    <3> QED
      BY <3>2, <3>3, <3>4
  <2>4. m.bare \in {0, memory[p].bare} \/ (m.bare \in (issued + 1)..issued' /\ m.bare \notin reserved')
    BY <1>3, <2>2
  <2> QED
    BY <1>1, <1>2, <1>3, <1>5, <2>2, <2>3, <2>4, AzureGoes
<1> QED
  BY <1>1, <1>6, <1>7

LEMMA AzureCallFails ==
    ASSUME AzureInv, NEW p \in Processes, Azure!CallFails(p)
    PROVE  AzureInv'
<1>1. /\ pc[p] \in {"mint", "identity", "check", "device"} /\ Reply(p, Failed("other"))
      /\ UNCHANGED <<store, memory, reserved, retired, ended>>
      /\ \/ UNCHANGED <<good, issued, lost>>
         \/ issued' = issued + 1 /\ good' = good \cup {issued + 1} /\ lost' = lost \cup {issued + 1}
  BY AzureShared
     DEF Azure!CallFails, Azure!CallError, Azure!IssuesSession, Azure!Issue, Azure!New, Azure!service
<1>2. /\ OthersWait(p) /\ pc'[p] = "idle" /\ answer'[p].token = 0
      /\ Holds(p, memory[p]) /\ Drops(p, retired[p]) /\ memory[p] \in AzureMemory /\ issued \in Nat
  BY <1>1, Replies, NoTokenInIt, AzureTypes DEF Turned
<1>3. \A t : ~AzureHas(p, t)
  BY <1>1 DEF AzureHas
<1>4. /\ issued' \in Nat /\ issued' >= issued /\ lost \subseteq lost'
      /\ good' \subseteq good \cup ((issued + 1)..issued')
      /\ reserved' \subseteq reserved \cup ((issued + 1)..issued')
      /\ \A t \in good' \ lost' : t \in good \ lost /\ ~ AzureHas(p, t)
  BY <1>1, <1>2, <1>3
<1> QED
  BY <1>1, <1>2, <1>4, AzureGoes

LEMMA AzureStop ==
    ASSUME AzureInv, NEW p \in Processes, Azure!Stop(p)
    PROVE  AzureInv'
<1>1. /\ Restart(p, Azure!Nothing) /\ UNCHANGED <<store, reserved, ended, good, issued>>
      /\ lost' = IF pc[p] = "revoke" /\ local[p].kind = "logout" THEN lost \cup local[p].left ELSE lost
  BY AzureShared DEF Azure!Stop, Azure!service
<1>2. /\ OthersWait(p) /\ pc'[p] = "idle" /\ answer'[p].token = 0
      /\ Holds(p, Azure!Nothing) /\ Drops(p, {}) /\ issued \in Nat
  BY <1>1, Restarts, AzureTypes DEF Turned
<1>3. Azure!Nothing \in AzureMemory /\ Azure!Nothing.bare = 0
  BY DEF Azure!Nothing, AzureMemory
<1>4. /\ issued' \in Nat /\ issued' >= issued /\ lost \subseteq lost'
      /\ good' \subseteq good \cup ((issued + 1)..issued')
      /\ reserved' \subseteq reserved \cup ((issued + 1)..issued')
      /\ \A t \in good' \ lost' : t \in good \ lost /\ ~ AzureHas(p, t)
  BY <1>1, <1>2 DEF AzureHas
<1> QED
  BY <1>1, <1>2, <1>3, <1>4, AzureGoes

LEMMA AzureFirst ==
    ASSUME NEW t \in Nat
    PROVE  Azure!First({t}) = t
BY DEF Azure!First

LEMMA AzureRevoke ==
    ASSUME AzureInv, NEW p \in Processes, Azure!Revoke(p)
    PROVE  AzureInv'
<1>1. PICK old : old = local[p]
  OBVIOUS
<1>2. PICK t : t = Azure!First(old.left)
  OBVIOUS
<1>3. PICK v : v = [old EXCEPT !.left = old.left \ {t}]
  OBVIOUS
<1>4. /\ pc[p] = "revoke" /\ UNCHANGED <<store, ended, memory, retired, issued, reserved>>
      /\ (good' = good \ {t} /\ lost' = lost) \/ (good' = good /\ lost' = lost \cup {t})
      /\ IF old.left = {t} /\ old.kind = "logout" THEN Reply(p, NoToken) ELSE GoOn(p, "revoke", v)
  BY <1>1, <1>2, <1>3, AzureShared DEF Azure!Revoke, Azure!Revokes, Azure!service
<1>5. /\ AzureValues(p, old) /\ (old.kind = "manage" => req[p].write) /\ answer[p].token = 0 /\ old = local[p]
      /\ \A s \in old.account.minted : s \in good \ lost => s \in old.left
  BY <1>1, <1>4, AzureTypes
<1>6. /\ v \in AzureLocal /\ v.account = old.account /\ v.kind = old.kind /\ v.left = old.left \ {t}
      /\ AzureValues(p, v)
  <2>1. /\ v \in AzureLocal /\ v.account = old.account /\ v.kind = old.kind /\ v.left = old.left \ {t}
    BY <1>3, <1>5 DEF AzureValues, AzureLocal
  <2> QED
    BY <1>5, <2>1 DEF AzureValues
<1>7. /\ Holds(p, memory[p]) /\ Drops(p, retired[p]) /\ memory[p] \in AzureMemory /\ issued' \in Nat
      /\ issued' >= issued /\ lost \subseteq lost' /\ good' \subseteq good \cup ((issued + 1)..issued')
      /\ reserved' \subseteq reserved \cup ((issued + 1)..issued')
  BY <1>4, AzureTypes
<1>8. \A s \in good' \ lost' : s # t /\ s \in good \ lost
  BY <1>4
<1>9. CASE old.left = {t} /\ old.kind = "logout"
  <2>1. OthersWait(p) /\ pc'[p] = "idle" /\ answer'[p].token = 0
    BY <1>4, <1>9, Replies, NoTokenInIt, AzureTypes DEF Turned
  <2>2. \A s \in good' \ lost' : s \in good \ lost /\ ~ AzureHas(p, s)
    BY <1>5, <1>8, <1>9 DEF AzureHas
  <2> QED
    BY <1>4, <1>7, <2>1, <2>2, AzureGoes
<1>10. CASE ~ (old.left = {t} /\ old.kind = "logout")
  <2>1. /\ OthersWait(p) /\ pc'[p] = "revoke" /\ local'[p] = v /\ answer'[p].token = 0 /\ req'[p] = req[p]
    BY <1>4, <1>5, <1>10, GoesOn, AzureTypes DEF Turned
  <2>2. \A s \in v.account.minted : s \in good' \ lost' => s \in v.left
    BY <1>5, <1>6, <1>8
  <2>3. \A s : s # t /\ AzureHas(p, s) => AzureHas(p, s)'
    BY <1>5, <1>6, <2>1 DEF AzureHas
  <2>4. \A s \in good' \ lost' : AzureHas(p, s)' \/ (s \in good \ lost /\ ~ AzureHas(p, s))
    BY <1>8, <2>3
  <2> QED
    BY <1>4, <1>5, <1>6, <1>7, <2>1, <2>2, <2>4, AzureGoes
<1> QED
  BY <1>9, <1>10

-----------------------------------------------------------------------------
(* A step that writes the store, and drops nothing from memory.            *)
LEMMA AzureStores ==
    ASSUME AzureInv, NEW p \in Processes, OthersWait(p), Holds(p, memory[p]),
           NEW d, Drops(p, d), d \subseteq 0..issued, memory[p].bare \notin d \ {0},
           issued' \in Nat, issued' >= issued, ended' \subseteq 1..issued',
           reserved' \subseteq reserved \cup ((issued + 1)..issued'),
           good' \subseteq good \cup ((issued + 1)..issued'), lost \subseteq lost',
           NEW s \in AzureAccount, store' = s,
           s.signIn \in {0, store.signIn} \cup ((issued + 1)..issued'),
           s.session \in {0, store.session} \cup ((issued + 1)..issued'),
           s.session # 0 => s.session # s.signIn, s.minted \subseteq 0..issued',
           s.signIn \notin reserved' \cup ended', s.session \notin reserved',
           s.signIn \notin d \ {0}, s.session \notin d \ {0},
           \/ answer'[p].token = 0
           \/ /\ pc'[p] = "idle" /\ answer'[p].token \in 0..issued' /\ answer'[p].token \notin d
              /\ answer'[p].token \in reserved' => answer'[p].asked,
           pc'[p] # "idle" => /\ local'[p] \in AzureLocal /\ local'[p].account = Azure!NoAccount
                              /\ local'[p].kind # "manage" /\ local'[p].left \subseteq 0..issued,
           \A t \in good' \ lost' : t \in s.minted \/ AzureHas(p, t)' \/ (t \in good \ lost /\ t \notin store.minted /\ ~ AzureHas(p, t))
    PROVE  AzureInv'
<1> DEFINE new == (issued + 1)..issued'
<1>1. /\ issued \in Nat /\ good \subseteq 1..issued /\ retired[p] \subseteq 0..issued
      /\ store \in AzureAccount /\ AzureProcess(p) /\ AzureStored /\ AzureRead(p, store)
  BY AzureTypes DEF AzureInv
<1>2. /\ good' \subseteq 1..issued' /\ 0..issued \subseteq 0..issued'
      /\ \A t \in 0..issued : t \notin new
      /\ \A t \in new : t \in 0..issued' /\ t # 0 /\ t \notin 0..issued
  BY <1>1
<1> HIDE DEF new
<1>3. \A t : AzureKnown(p, t) /\ t \notin d \ {0} => AzureKnown(p, t)'
  BY <1>2 DEF AzureKnown, Drops, new
<1>4. \A t \in new : t \notin reserved' => AzureKnown(p, t)'
  BY <1>1, <1>2 DEF AzureKnown, Drops
<1>5. AzureKnown(p, 0) /\ AzureKnown(p, 0)'
  BY <1>3, AzureTypes
<1>6. s.signIn \in 0..issued' /\ AzureKnown(p, s.signIn)'
  <2>1. s.signIn \in {0, store.signIn} \cup new
    BY DEF new
  <2>2. AzureKnown(p, s.signIn)'
    BY <1>1, <1>3, <1>4, <1>5, <2>1 DEF AzureRead
  <2> QED
    BY <2>2 DEF AzureKnown
<1>7. s.session \in 0..issued' /\ AzureKnown(p, s.session)'
  <2>1. s.session \in {0, store.session} \cup new
    BY DEF new
  <2>2. AzureKnown(p, s.session)'
    BY <1>1, <1>3, <1>4, <1>5, <2>1 DEF AzureRead
  <2> QED
    BY <2>2 DEF AzureKnown
<1>8. AzureStored'
  BY <1>6, <1>7 DEF AzureStored
<1>9. AzureProcess(p)'
  <2>1. PICK m : m = memory[p]
    OBVIOUS
  <2>2. /\ m = memory'[p] /\ m \in AzureMemory /\ AzureKnown(p, m.bare) /\ m.bare \notin d \ {0}
        /\ (store.session # 0 => store.session # m.bare) /\ (store.signIn # 0 => store.signIn # m.bare)
    BY <1>1, <2>1 DEF Holds, AzureProcess
  <2>3. AzureKnown(p, m.bare)' /\ m.bare \notin new
    BY <1>2, <1>3, <2>2 DEF AzureKnown
  <2>4. (s.session # 0 => s.session # m.bare) /\ (s.signIn # 0 => s.signIn # m.bare)
    BY <2>2, <2>3 DEF new
  <2>5. AzureRead(p, store)'
    <3>1. AzureRead(p, s)'
      BY <1>6, <1>7 DEF AzureRead
    <3> QED
      BY <3>1
  <2>6. ASSUME pc'[p] # "idle"
        PROVE  AzureValues(p, local[p])' /\ local'[p].account.minted = {}
    <3>1. PICK v : v = local'[p]
      OBVIOUS
    <3>2. /\ v \in AzureLocal /\ v.account = Azure!NoAccount /\ v.left \subseteq 0..issued'
          /\ v.account \in AzureAccount /\ v.account.signIn = 0 /\ v.account.session = 0 /\ v.account.minted = {}
      BY <1>2, <2>6, <3>1 DEF AzureLocal, Azure!NoAccount
    <3>3. AzureValues(p, v)'
      BY <1>5, <3>2 DEF AzureValues, AzureRead
    <3> QED
      BY <3>1, <3>2, <3>3
  <2>7. memory'[p] \in AzureMemory /\ AzureKnown(p, memory[p].bare)'
    BY <2>2, <2>3
  <2>8. /\ store'.session # 0 => store'.session # memory'[p].bare
        /\ store'.signIn # 0 => store'.signIn # memory'[p].bare
    BY <2>2, <2>4
  <2> QED
    BY <2>5, <2>6, <2>7, <2>8 DEF AzureProcess
<1>10. /\ store'.signIn \in {0, store.signIn} \cup ((issued + 1)..issued')
       /\ store'.session \in {0, store.session} \cup ((issued + 1)..issued')
  OBVIOUS
<1>11. \A t \in good' \ lost' : \/ t \in store'.minted \/ AzureHas(p, t)'
                                \/ t \in good \ lost /\ t \notin store.minted /\ ~ AzureHas(p, t)
  OBVIOUS
<1> QED
  BY <1>1, <1>2, <1>8, <1>9, <1>10, <1>11, AzureStep

LEMMA AzureMint ==
    ASSUME AzureInv, AzureAsks, NEW p \in Processes, Azure!Mint(p)
    PROVE  AzureInv'
<1>1. PICK n : n = issued + 1
  OBVIOUS
<1>2. PICK a : a = Azure!Gives(p, req[p], n, FALSE)
  OBVIOUS
<1>3. PICK v : v = local[p]
  OBVIOUS
<1>4. PICK s : s = [store EXCEPT !.minted = v.account.minted \cup {n},
                                 !.session = IF v.kind = "session" THEN n ELSE store.session]
  OBVIOUS
<1>5. /\ pc[p] = "mint" /\ issued' = n /\ good' = good \cup {n} /\ Reply(p, a)
      /\ UNCHANGED <<memory, retired, ended>>
      /\ reserved' = IF v.kind = "manage" THEN reserved \cup {n} ELSE reserved
      /\ \/ store' = s /\ lost' = lost \cup (store.minted \ (v.account.minted \cup {n}))
         \/ store' = store /\ lost' = lost \cup {n}
  BY <1>1, <1>2, <1>3, <1>4, AzureShared DEF Azure!Mint, Azure!IssuesSession, Azure!Issue, Azure!New
<1>6. /\ a.token = n /\ (req[p].write => a.asked) /\ issued \in Nat /\ n \in Nat
      /\ AzureValues(p, v) /\ (v.kind = "manage" => req[p].write)
      /\ reserved \subseteq 1..issued /\ retired[p] \subseteq 0..issued /\ ended \subseteq 1..issued
      /\ Holds(p, memory[p]) /\ Drops(p, retired[p]) /\ memory[p] \in AzureMemory
      /\ memory[p].bare \notin retired[p] \ {0}
  <2>1. a.token = n
    BY <1>2, AzureGives
  <2>2. req[p].write => a.asked
    BY <1>2, <1>5 DEF Azure!Gives, Azure!Asked, AzureAsks, AzureYes
  <2>3. memory[p].bare \notin retired[p] \ {0}
    BY AzureTypes DEF AzureKnown
  <2> QED
    BY <1>1, <1>3, <1>5, <2>1, <2>2, <2>3, AzureTypes
<1>7. OthersWait(p) /\ pc'[p] = "idle" /\ answer'[p] = a
  BY <1>5, Replies, AzureTypes DEF Turned
<1>8. /\ issued' \in Nat /\ issued' >= issued /\ n \in (issued + 1)..issued' /\ n \in 0..issued'
      /\ n \notin reserved /\ n \notin retired[p] /\ 0..issued \subseteq 0..issued' /\ n \notin 0..issued
  BY <1>1, <1>5, <1>6
<1>9. /\ reserved' \subseteq reserved \cup ((issued + 1)..issued')
      /\ good' \subseteq good \cup ((issued + 1)..issued') /\ lost \subseteq lost'
      /\ reserved' \subseteq reserved \cup {n}
  BY <1>5, <1>8
<1>10. /\ answer'[p].token \in 0..issued' /\ answer'[p].token \notin retired[p]
       /\ answer'[p].token \in reserved' => answer'[p].asked
  BY <1>5, <1>6, <1>7, <1>8
<1>11. \A t : ~AzureHas(p, t)
  BY <1>5 DEF AzureHas
<1>12. ended' \subseteq 1..issued'
  <2>1. 1..issued \subseteq 1..issued'
    BY <1>6, <1>8
  <2> QED
    BY <1>5, <1>6, <2>1
<1>13. CASE store' = s /\ lost' = lost \cup (store.minted \ (v.account.minted \cup {n}))
  <2>1. AzureStored /\ store \in AzureAccount
    BY AzureTypes DEF AzureInv
  <2>2. /\ s \in AzureAccount /\ s.signIn = store.signIn /\ s.minted = v.account.minted \cup {n}
        /\ s.session = IF v.kind = "session" THEN n ELSE store.session
    <3>1. v.account.minted \cup {n} \in SUBSET Nat
      BY <1>6 DEF AzureValues, AzureRead, AzureAccount
    <3> QED
      BY <1>4, <1>6, <2>1, <3>1 DEF AzureAccount
  <2>3. s.minted \subseteq 0..issued'
    BY <1>6, <1>8, <2>2 DEF AzureValues, AzureRead
  <2>4. /\ s.signIn \in {0, store.signIn} \cup ((issued + 1)..issued')
        /\ s.session \in {0, store.session} \cup ((issued + 1)..issued')
    BY <1>8, <2>2
  <2>5. s.session # 0 => s.session # s.signIn
    BY <1>8, <2>1, <2>2 DEF AzureStored
  <2>6. s.signIn \notin reserved' \cup ended' /\ s.session \notin reserved'
    <3>1. store.signIn # n /\ store.session # n
      BY <1>8, <2>1 DEF AzureStored
    <3>2. v.kind = "session" => reserved' = reserved
      BY <1>5
    <3> QED
      BY <1>5, <1>8, <1>9, <2>1, <2>2, <3>1, <3>2 DEF AzureStored
  <2>7. \A t \in good' \ lost' : t \in s.minted \/ (t \in good \ lost /\ t \notin store.minted /\ ~ AzureHas(p, t))
    BY <1>5, <1>11, <1>13, <2>2
  <2>8. s.signIn \notin retired[p] \ {0} /\ s.session \notin retired[p] \ {0}
    BY <1>8, <2>2, AzureTypes DEF AzureRead, AzureKnown
  <2> QED
    BY <2>8, <1>6, <1>7, <1>8, <1>9, <1>10, <1>12, <1>13, <2>2, <2>3, <2>4, <2>5, <2>6, <2>7, AzureStores
<1>14. CASE store' = store /\ lost' = lost \cup {n}
  <2>1. \A t \in good' \ lost' : t \in good \ lost /\ ~ AzureHas(p, t)
    BY <1>5, <1>11, <1>14
  <2> QED
    BY <1>5, <1>6, <1>7, <1>8, <1>9, <1>10, <1>14, <2>1, AzureGoes
<1> QED
  BY <1>5, <1>13, <1>14

(* The session token goes from the store, and from what may be handed out. *)
LEMMA AzureErase ==
    ASSUME AzureInv, NEW p \in Processes, NEW r, Azure!Erase(p, r)
    PROVE  AzureInv'
<1>1. PICK m : m = IF memory[p].bare = 0 THEN memory[p] ELSE [memory[p] EXCEPT !.rejected = memory[p].bare]
  OBVIOUS
<1>2. PICK s : s = [store EXCEPT !.session = 0]
  OBVIOUS
<1>3. PICK d : d = retired[p] \cup {store.session}
  OBVIOUS
<1>4. /\ AtOnce(p, r, NoToken) /\ UNCHANGED <<good, issued, reserved, ended, lost>>
      /\ memory' = IF memory[p].bare = 0 THEN memory ELSE [memory EXCEPT ![p].rejected = memory[p].bare]
      /\ \/ UNCHANGED <<store, retired>>
         \/ store' = s /\ retired' = [retired EXCEPT ![p] = @ \cup {store.session}]
  BY <1>2, AzureShared DEF Azure!Erase, Azure!service
<1>5. /\ memory[p] \in AzureMemory /\ AzureKnown(p, memory[p].bare) /\ Shape /\ issued \in Nat
      /\ good \subseteq 1..issued /\ ended \subseteq 1..issued /\ retired[p] \subseteq 0..issued
      /\ store \in AzureAccount /\ AzureRead(p, store) /\ AzureStored /\ AzureProcess(p)
  BY AzureTypes DEF AzureInv
<1>6. OthersWait(p) /\ pc[p] = "idle" /\ pc'[p] = "idle" /\ answer'[p].token = 0
  BY <1>4, <1>5, AnsweredAtOnce, NoTokenInIt DEF Turned
<1>7. m \in AzureMemory /\ m.bare = memory[p].bare /\ Holds(p, m)
  <2>1. CASE memory[p].bare = 0
    BY <1>1, <1>4, <1>5, <2>1, AzureTypes
  <2>2. CASE memory[p].bare # 0
    <3>1. m \in AzureMemory /\ m.bare = memory[p].bare
      BY <1>1, <1>5, <2>2 DEF AzureMemory
    <3>2. memory' = [memory EXCEPT ![p] = m]
      BY <1>1, <1>4, <2>2
    <3> QED
      BY <3>1, <3>2, AzureTypes
  <2> QED
    BY <2>1, <2>2
<1>8. \A t : ~AzureHas(p, t) /\ ~AzureHas(p, t)'
  BY <1>6 DEF AzureHas
<1>9. /\ issued' \in Nat /\ issued' >= issued /\ reserved' \subseteq reserved \cup ((issued + 1)..issued')
      /\ good' \subseteq good \cup ((issued + 1)..issued') /\ lost \subseteq lost'
  BY <1>4, <1>5
<1>10. CASE UNCHANGED <<store, retired>>
  <2>1. Drops(p, retired[p])
    BY <1>10, AzureTypes
  <2>2. \A t \in good' \ lost' : t \in good \ lost /\ ~ AzureHas(p, t)
    BY <1>4, <1>8
  <2> QED
    BY <1>4, <1>6, <1>7, <1>9, <1>10, <2>1, <2>2, AzureGoes
<1>11. CASE store' = s /\ retired' = [retired EXCEPT ![p] = @ \cup {store.session}]
  <2>1. Drops(p, d)
    <3>1. retired' = [retired EXCEPT ![p] = d]
      BY <1>3, <1>5, <1>11 DEF Shape, OfProcesses
    <3> QED
      BY <3>1, AzureTypes
  <2>2. d \subseteq 0..issued
    BY <1>3, <1>5 DEF AzureStored
  <2>3. s \in AzureAccount /\ s.signIn = store.signIn /\ s.session = 0 /\ s.minted = store.minted
    BY <1>2, <1>5 DEF AzureAccount
  <2>4. AzureStored'
    <3>1. /\ s.signIn \in 0..issued /\ s.session \in 0..issued /\ s.minted \subseteq 0..issued
          /\ s.signIn \notin reserved /\ s.session \notin reserved /\ s.signIn \notin ended
      BY <1>5, <2>3, AzureTypes DEF AzureStored, AzureKnown
    <3>2. reserved' = reserved /\ ended' = ended /\ issued' = issued /\ store' = s
      BY <1>4, <1>11
    <3> QED
      BY <2>3, <3>1, <3>2 DEF AzureStored
  <2>5. AzureProcess(p)'
    <3>1. AzureKnown(p, m.bare)' /\ AzureKnown(p, s.signIn)' /\ AzureKnown(p, s.session)'
      <4>1. \A t : AzureKnown(p, t) /\ (store.session # 0 => t # store.session) => AzureKnown(p, t)'
        BY <1>3, <1>4, <2>1 DEF AzureKnown, Drops
      <4>2. AzureKnown(p, m.bare) /\ (store.session # 0 => m.bare # store.session)
        BY <1>5, <1>7 DEF AzureProcess
      <4>3. AzureKnown(p, s.signIn) /\ (store.session # 0 => s.signIn # store.session)
        BY <1>5, <2>3 DEF AzureRead, AzureStored
      <4>4. AzureKnown(p, s.session)
        BY <2>3, AzureTypes
      <4> QED
        BY <2>3, <4>1, <4>2, <4>3, <4>4
    <3>2. memory'[p] = m
      BY <1>7 DEF Holds
    <3>3. memory'[p] \in AzureMemory /\ AzureKnown(p, memory[p].bare)'
      BY <1>7, <3>1, <3>2
    <3>4. AzureRead(p, s)'
      BY <1>4, <1>5, <2>3, <3>1 DEF AzureRead
    <3>5. AzureRead(p, store)'
      BY <1>11, <3>4
    <3> QED
      BY <1>5, <1>6, <1>7, <1>11, <2>3, <3>2, <3>3, <3>5 DEF AzureProcess
  <2>6. good' \subseteq 1..issued' /\ ended' \subseteq 1..issued'
    BY <1>4, <1>5
  <2>7. /\ store'.signIn \in {0, store.signIn} \cup ((issued + 1)..issued')
        /\ store'.session \in {0, store.session} \cup ((issued + 1)..issued')
    BY <1>11, <2>3
  <2>8. \A t \in good' \ lost' : \/ t \in store'.minted \/ AzureHas(p, t)'
                                 \/ t \in good \ lost /\ t \notin store.minted /\ ~ AzureHas(p, t)
    BY <1>4, <1>8, <1>11, <2>3
  <2> QED
    BY <1>6, <1>7, <1>9, <2>1, <2>2, <2>4, <2>5, <2>6, <2>7, <2>8, AzureStep
<1> QED
  BY <1>4, <1>10, <1>11

(* What a login that replaces one drops, and a logout.                     *)
LEMMA AzureDrops ==
    ASSUME AzureInv, NEW p \in Processes, retired' = [retired EXCEPT ![p] = @ \cup Azure!Held(store)]
    PROVE  LET d == retired[p] \cup Azure!Held(store) IN
           Drops(p, d) /\ d \subseteq 0..issued /\ memory[p].bare \notin d \ {0}
<1> DEFINE d == retired[p] \cup Azure!Held(store)
<1>1. retired' = [retired EXCEPT ![p] = d]
  BY AzureTypes DEF Shape, OfProcesses
<1>2. d \subseteq 0..issued
  BY AzureTypes DEF AzureRead, AzureKnown, Azure!Held
<1>3. memory[p].bare \notin d \ {0}
  BY AzureTypes DEF AzureInv, AzureProcess, AzureKnown, Azure!Held
<1> QED
  BY <1>1, <1>2, <1>3, AzureTypes

(* A new sign-in goes over the store, when what the login read of it is    *)
(* revoked.                                                                *)
LEMMA AzureStoreSignIn ==
    ASSUME AzureInv, NEW p \in Processes, pc[p] # "idle", NEW account, Azure!StoreSignIn(p, account),
           UNCHANGED <<memory, reserved>>,
           \A t \in account.minted : t \notin good \ lost, \A t : ~ AzureHas(p, t)
    PROVE  AzureInv'
<1>1. PICK n : n = issued + 1
  OBVIOUS
<1>2. PICK s : s = [Azure!NoAccount EXCEPT !.signIn = n, !.pat = (local[p].kind = "paste")]
  OBVIOUS
<1> DEFINE d == retired[p] \cup Azure!Held(store)
<1>3. /\ issued' = n /\ good' = good /\ store' = s /\ Reply(p, NoToken)
      /\ retired' = [retired EXCEPT ![p] = @ \cup Azure!Held(store)]
      /\ ended' = ended \cup ({store.signIn} \ {0})
      /\ lost' = lost \cup (store.minted \ account.minted)
  BY <1>1, <1>2, AzureShared DEF Azure!StoreSignIn, Azure!GrantsLogin, Azure!Issue, Azure!New
<1>4. /\ issued \in Nat /\ n \in Nat /\ reserved \subseteq 1..issued /\ ended \subseteq 1..issued
      /\ good \subseteq 1..issued /\ Holds(p, memory[p])
      /\ store.signIn \in 0..issued
  BY <1>1, AzureTypes DEF AzureInv, AzureStored
<1>11. Drops(p, d) /\ d \subseteq 0..issued /\ memory[p].bare \notin d \ {0}
  BY <1>3, AzureDrops
<1> HIDE DEF d
<1>5. OthersWait(p) /\ pc'[p] = "idle" /\ answer'[p].token = 0
  BY <1>3, Replies, NoTokenInIt, AzureTypes DEF Turned
<1>6. s \in AzureAccount /\ s.signIn = n /\ s.session = 0 /\ s.minted = {}
  BY <1>2, <1>4 DEF AzureAccount, Azure!NoAccount
<1>7. /\ issued' \in Nat /\ issued' >= issued /\ n \in (issued + 1)..issued'
      /\ ended' \subseteq 1..issued' /\ n \notin reserved /\ n \notin ended' /\ 0 \notin reserved
  <2>1. {store.signIn} \ {0} \subseteq 1..issued
    BY <1>4
  <2>2. ended' \subseteq 1..issued
    BY <1>3, <1>4, <2>1
  <2> QED
    BY <1>1, <1>3, <1>4, <2>2
<1>8. \A t \in good' \ lost' : t \in good \ lost /\ t \notin store.minted /\ ~ AzureHas(p, t)
  BY <1>3
<1>9. /\ s.signIn \in {0, store.signIn} \cup ((issued + 1)..issued')
      /\ s.session \in {0, store.session} \cup ((issued + 1)..issued')
      /\ s.session # 0 => s.session # s.signIn
      /\ s.signIn \notin reserved' \cup ended' /\ s.session \notin reserved' /\ s.minted \subseteq 0..issued'
  BY <1>6, <1>7
<1>10. /\ reserved' \subseteq reserved \cup ((issued + 1)..issued')
       /\ good' \subseteq good \cup ((issued + 1)..issued') /\ lost \subseteq lost'
  BY <1>3
<1>12. s.signIn \notin d \ {0} /\ s.session \notin d \ {0}
  BY <1>1, <1>4, <1>6, <1>11
<1> QED
  BY <1>3, <1>4, <1>5, <1>6, <1>7, <1>8, <1>9, <1>10, <1>11, <1>12, AzureStores

LEMMA AzureSignedIn ==
    ASSUME AzureInv, NEW p \in Processes, Azure!SignedIn(p)
    PROVE  AzureInv'
<1>1. /\ pc[p] \in {"check", "device"} /\ UNCHANGED <<memory, reserved>>
      /\ \A t : ~ AzureHas(p, t)
  BY DEF Azure!SignedIn, AzureHas
<1>2. CASE store.minted = {}
  <2>1. Azure!StoreSignIn(p, store)
    BY <1>2 DEF Azure!SignedIn
  <2> QED
    BY <1>1, <1>2, <2>1, AzureStoreSignIn
<1>3. CASE store.minted # {}
  <2>1. PICK kind : kind = local[p].kind
    OBVIOUS
  <2>2. PICK v : v = [Azure!Begun(kind) EXCEPT !.left = store.minted]
    OBVIOUS
  <2>3. GoOn(p, "revoke", v) /\ UNCHANGED <<store, good, issued, retired, ended, lost>>
    BY <1>3, <2>1, <2>2, AzureShared DEF Azure!SignedIn, Azure!service
  <2>4. /\ kind \in Azure!Kinds /\ (kind = "manage" => req[p].write) /\ answer[p].token = 0
        /\ AzureRead(p, store) /\ store \in AzureAccount /\ issued \in Nat
        /\ Holds(p, memory[p]) /\ Drops(p, retired[p]) /\ memory[p] \in AzureMemory
    BY <1>1, <2>1, <2>3, AzureTypes DEF AzureValues, AzureLocal
  <2>5. v.account = store /\ v.kind = kind /\ v.left = store.minted /\ AzureValues(p, v)
    <3>1. v = [account |-> store, kind |-> kind, left |-> store.minted]
      BY <2>2 DEF Azure!Begun
    <3>2. store.minted \in SUBSET Nat /\ store.minted \subseteq 0..issued
      BY <2>4 DEF AzureAccount, AzureRead
    <3> QED
      BY <2>4, <3>1, <3>2 DEF AzureValues, AzureLocal
  <2>6. /\ OthersWait(p) /\ pc'[p] = "revoke" /\ local'[p] = v /\ answer'[p].token = 0 /\ req'[p] = req[p]
    BY <2>3, <2>4, GoesOn, AzureTypes DEF Turned
  <2>7. /\ issued' \in Nat /\ issued' >= issued /\ reserved' \subseteq reserved \cup ((issued + 1)..issued')
        /\ good' \subseteq good \cup ((issued + 1)..issued') /\ lost \subseteq lost'
    BY <1>1, <2>3, <2>4
  <2>8. \A t \in good' \ lost' : t \in good \ lost /\ ~ AzureHas(p, t)
    BY <1>1, <2>3
  <2>9. \A t \in v.account.minted : t \in good' \ lost' => t \in v.left
    BY <2>5
  <2> QED
    BY <1>1, <2>3, <2>4, <2>5, <2>6, <2>7, <2>8, <2>9, AzureGoes
<1> QED
  BY <1>2, <1>3

LEMMA AzureReplace ==
    ASSUME AzureInv, NEW p \in Processes, Azure!Replace(p)
    PROVE  AzureInv'
<1>1. /\ pc[p] = "revoke" /\ local[p].left = {} /\ Azure!StoreSignIn(p, local[p].account)
      /\ UNCHANGED <<memory, reserved>>
  BY DEF Azure!Replace
<1>2. \A t \in local[p].account.minted : t \notin good \ lost
  BY <1>1, AzureTypes
<1>3. \A t : ~ AzureHas(p, t)
  BY <1>1 DEF AzureHas
<1> QED
  BY <1>1, <1>2, <1>3, AzureStoreSignIn

(* The entry goes, and what it had minted is in hand.                      *)
LEMMA AzureLogout ==
    ASSUME AzureInv, NEW p \in Processes, NEW r, Azure!Logout(p, r)
    PROVE  AzureInv'
<1> DEFINE d == retired[p] \cup Azure!Held(store)
<1>1. PICK v : v = [account |-> Azure!NoAccount, kind |-> "logout", left |-> store.minted]
  OBVIOUS
<1>2. PICK s : s = Azure!NoAccount
  OBVIOUS
<1>3. /\ store' = s /\ ended' = ended \cup ({store.signIn} \ {0})
      /\ UNCHANGED <<good, issued, memory, reserved, lost>>
      /\ retired' = [retired EXCEPT ![p] = @ \cup Azure!Held(store)]
      /\ \/ store.minted = {} /\ (AtOnce(p, r, Failed("not-found")) \/ AtOnce(p, r, NoToken))
         \/ Begin(p, r, "revoke", v)
  <2>1. store = Azure!NoAccount => store.minted = {}
    BY DEF Azure!NoAccount
  <2> QED
    BY <1>1, <1>2, <2>1, AzureShared DEF Azure!Logout, Azure!service
<1>4. /\ issued \in Nat /\ reserved \subseteq 1..issued /\ ended \subseteq 1..issued
      /\ good \subseteq 1..issued /\ Holds(p, memory[p])
      /\ Drops(p, d) /\ d \subseteq 0..issued /\ memory[p].bare \notin d \ {0}
      /\ store.signIn \in 0..issued /\ store \in AzureAccount /\ AzureRead(p, store)
  BY <1>3, AzureTypes, AzureDrops DEF AzureInv, AzureStored
<1> HIDE DEF d
<1>5. s \in AzureAccount /\ s.signIn = 0 /\ s.session = 0 /\ s.minted = {}
  BY <1>2 DEF AzureAccount, Azure!NoAccount
<1>6. /\ issued' \in Nat /\ issued' >= issued /\ ended' \subseteq 1..issued'
      /\ s.signIn \notin reserved' \cup ended' /\ s.session \notin reserved'
      /\ s.session # 0 => s.session # s.signIn
  <2>1. {store.signIn} \ {0} \subseteq 1..issued
    BY <1>4
  <2>2. ended' \subseteq 1..issued /\ issued' = issued /\ reserved' = reserved
    BY <1>3, <1>4, <2>1
  <2> QED
    BY <1>4, <1>5, <2>2
<1>7. /\ s.signIn \in {0, store.signIn} \cup ((issued + 1)..issued')
      /\ s.session \in {0, store.session} \cup ((issued + 1)..issued') /\ s.minted \subseteq 0..issued'
      /\ reserved' \subseteq reserved \cup ((issued + 1)..issued')
      /\ good' \subseteq good \cup ((issued + 1)..issued') /\ lost \subseteq lost'
  BY <1>3, <1>5
<1>8. CASE store.minted = {} /\ (AtOnce(p, r, Failed("not-found")) \/ AtOnce(p, r, NoToken))
  <2>1. OthersWait(p) /\ pc[p] = "idle" /\ pc'[p] = "idle" /\ answer'[p].token = 0
    BY <1>8, AnsweredAtOnce, NoTokenInIt, AzureTypes DEF Turned
  <2>2. \A t \in good' \ lost' : t \in good \ lost /\ t \notin store.minted /\ ~ AzureHas(p, t)
    BY <1>3, <1>8, <2>1 DEF AzureHas
  <2> QED
    BY <1>3, <1>4, <1>5, <1>6, <1>7, <2>1, <2>2, AzureStores
<1>9. CASE Begin(p, r, "revoke", v)
  <2>2. /\ v.account = Azure!NoAccount /\ v.kind = "logout" /\ v.left = store.minted /\ v \in AzureLocal
        /\ v.left \subseteq 0..issued
    <3>1. /\ store.minted \in SUBSET Nat /\ store.minted \subseteq 0..issued /\ "logout" \in Azure!Kinds
          /\ Azure!NoAccount \in AzureAccount
      BY <1>2, <1>4, <1>5 DEF AzureAccount, AzureRead, Azure!Kinds
    <3> QED
      BY <1>1, <3>1 DEF AzureLocal
  <2>3. OthersWait(p) /\ pc[p] = "idle" /\ pc'[p] = "revoke" /\ local'[p] = v /\ answer'[p].token = 0
    BY <1>9, Begins, AzureTypes DEF Turned
  <2>4. \A t \in good' \ lost' : AzureHas(p, t)' \/ (t \in good \ lost /\ t \notin store.minted /\ ~ AzureHas(p, t))
    BY <1>3, <2>2, <2>3 DEF AzureHas
  <2> QED
    BY <1>3, <1>4, <1>5, <1>6, <1>7, <2>2, <2>3, <2>4, AzureStores
<1> QED
  BY <1>3, <1>8, <1>9

(* It starts in its invariant.                                             *)
LEMMA AzureInit ==
    ASSUME Azure!Init
    PROVE  AzureInv /\ AzureAsks
<1>1. PICK signin \in {0, 1} :
        /\ Azure!ProcessInit([Azure!NoAccount EXCEPT !.signIn = signin], Azure!Nothing, {})
        /\ good = {} /\ issued = 1
  BY DEF Azure!Init
<1>2. /\ store = [Azure!NoAccount EXCEPT !.signIn = signin] /\ memory = [p \in Processes |-> Azure!Nothing]
      /\ pc = [p \in Processes |-> "idle"] /\ local = [p \in Processes |-> 0]
      /\ req = [p \in Processes |-> NoRequest] /\ answer = [p \in Processes |-> NoToken]
      /\ asked = [p \in Processes |-> FALSE]
      /\ reserved = {} /\ retired = [p \in Processes |-> {}] /\ ended = {} /\ lost = {}
  BY <1>1, AzureShared DEF Azure!ProcessInit, Azure!NoRequest, NoRequest
<1>3. Shared
  BY <1>1, <1>2, SharedInit
<1>4. store \in AzureAccount /\ store.signIn \in {0, 1} /\ store.session = 0 /\ store.minted = {}
  <2>1. store = [signIn |-> signin, pat |-> FALSE, session |-> 0, minted |-> {}]
    BY <1>2 DEF Azure!NoAccount
  <2> QED
    BY <2>1 DEF AzureAccount
<1>5. 0 \in 0..issued /\ 1 \in 0..issued
  BY <1>1
<1>6. AzureStored
  BY <1>2, <1>4, <1>5 DEF AzureStored
<1>7. AzureKept
  BY <1>1 DEF AzureKept
<1>8. ASSUME NEW p \in Processes
      PROVE  AzureProcess(p)
  <2>1. memory[p] = [bare |-> 0, rejected |-> 0] /\ pc[p] = "idle" /\ retired[p] = {}
    BY <1>2 DEF Azure!Nothing
  <2>2. memory[p] \in AzureMemory /\ memory[p].bare = 0
    BY <2>1 DEF AzureMemory
  <2>3. \A t \in {0, 1} : AzureKnown(p, t)
    BY <1>2, <1>5, <2>1 DEF AzureKnown
  <2>4. AzureRead(p, store)
    BY <1>4, <2>3 DEF AzureRead
  <2> QED
    BY <1>4, <2>1, <2>2, <2>3, <2>4 DEF AzureProcess
<1>9. AzureAsks
  BY <1>2, NothingWritten DEF AzureAsks, Yes, AzureYes
<1> QED
  BY <1>1, <1>2, <1>3, <1>6, <1>7, <1>8, <1>9 DEF AzureInv

(* The question to the person, over the steps of a request.                *)
LEMMA AzureAsksStep ==
    ASSUME AzureAsks, NEW p \in Processes, OthersWait(p), Yes(p)', AzureYes(p)'
    PROVE  AzureAsks'
BY DEF AzureAsks, OthersWait, Yes, AzureYes

(* An answer that gives nothing to a write, or something on a yes.         *)
LEMMA AzureAsksAnswer ==
    ASSUME AzureInv, AzureAsks, NEW p \in Processes, NEW r, NEW a, a.write => a.asked,
           Azure!AtOnce(p, r, a) \/ Azure!Reply(p, a)
    PROVE  AzureAsks'
<1>1. OthersWait(p) /\ pc'[p] = "idle" /\ answer'[p] = a
  BY Asking, AzureShared DEF AzureInv, Shared
<1> QED
  BY <1>1, AzureAsksStep DEF Yes, AzureYes

LEMMA AzureNoneWritten == ~ Azure!NoToken.write /\ \A what : ~ Azure!Failed(what).write
BY NothingWritten, AzureShared

LEMMA AzureAsksOn ==
    ASSUME AzureInv, AzureAsks, NEW p \in Processes, NEW r, NEW step, NEW v,
           \/ Azure!Begin(p, r, step, v) /\ (r.write => step # "mint")
           \/ Azure!GoOn(p, step, v) /\ (step # "mint" \/ pc[p] = "confirm")
    PROVE  AzureAsks'
<1>1. Shape
  BY DEF AzureInv, Shared
<1>2. CASE Azure!Begin(p, r, step, v) /\ (r.write => step # "mint")
  BY <1>1, <1>2, Asking, AzureShared, AzureAsksStep DEF Yes, AzureYes
<1>3. CASE Azure!GoOn(p, step, v) /\ (step # "mint" \/ pc[p] = "confirm")
  BY <1>1, <1>3, Asking, AzureShared, AzureAsksStep DEF AzureAsks, Yes, AzureYes, Asked
<1> QED
  BY <1>2, <1>3

(* A get, at its start.                                                    *)
LEMMA AzureAsksGet ==
    ASSUME AzureInv, AzureAsks, NEW p \in Processes, NEW r, Azure!Get(p, r)
    PROVE  AzureAsks'
<1>1. pc[p] = "idle"
  BY DEF Azure!Get
<1>2. ASSUME NEW what, Azure!AtOnce(p, r, Azure!Failed(what))
      PROVE  AzureAsks'
  BY <1>2, AzureNoneWritten, AzureAsksAnswer
<1>3. ASSUME NEW token, Azure!AtOnce(p, r, Azure!Gives(p, r, token, FALSE)), ~ r.write
      PROVE  AzureAsks'
  <2>1. PICK a : a = Azure!Gives(p, r, token, FALSE)
    OBVIOUS
  <2>2. ~ a.write
    BY <1>3, <2>1 DEF Azure!Gives
  <2> QED
    BY <1>3, <2>1, <2>2, AzureAsksAnswer
<1>4. ASSUME Azure!AtOnce(p, r, Azure!Gives(p, r, 0, TRUE))
      PROVE  AzureAsks'
  <2>1. PICK a : a = Azure!Gives(p, r, 0, TRUE)
    OBVIOUS
  <2>2. a.asked
    BY <2>1 DEF Azure!Gives
  <2> QED
    BY <1>4, <2>1, <2>2, AzureAsksAnswer
<1>5. ASSUME NEW kind, ~ r.write, Azure!FromLogin(p, r, Azure!Begun(kind))
      PROVE  AzureAsks'
  <2>1. \/ \E token : Azure!AtOnce(p, r, Azure!Gives(p, r, token, FALSE))
        \/ Azure!Begin(p, r, "mint", Azure!Begun(kind))
    BY <1>1, <1>5 DEF Azure!FromLogin, Azure!Answers, Azure!Awaits
  <2> QED
    BY <1>3, <1>5, <2>1, AzureAsksOn
<1>6. ASSUME NEW kind, NEW step \in {"confirm", "identity"}, Azure!Begin(p, r, step, Azure!Begun(kind))
      PROVE  AzureAsks'
  BY <1>6, AzureAsksOn
<1> QED
  BY <1>2, <1>3, <1>4, <1>5, <1>6 DEF Azure!Get

LEMMA AzureAsksConfirm ==
    ASSUME AzureInv, AzureAsks, NEW p \in Processes, Azure!Confirm(p)
    PROVE  AzureAsks'
<1>1. pc[p] = "confirm"
  BY DEF Azure!Confirm
<1>2. ASSUME NEW token, Azure!Reply(p, Azure!Gives(p, req[p], token, FALSE))
      PROVE  AzureAsks'
  <2>1. PICK a : a = Azure!Gives(p, req[p], token, FALSE)
    OBVIOUS
  <2>2. a.asked
    BY <1>1, <2>1 DEF Azure!Gives, Azure!Asked
  <2> QED
    BY <1>2, <2>1, <2>2, AzureAsksAnswer
<1>3. ASSUME Azure!FromLogin(p, req[p], local[p])
      PROVE  AzureAsks'
  <2>1. \/ \E token : Azure!Reply(p, Azure!Gives(p, req[p], token, FALSE))
        \/ Azure!GoOn(p, "mint", local[p])
    BY <1>1, <1>3 DEF Azure!FromLogin, Azure!Answers, Azure!Awaits
  <2> QED
    BY <1>1, <1>2, <2>1, AzureAsksOn
<1> QED
  BY <1>2, <1>3, AzureNoneWritten, AzureAsksAnswer DEF Azure!Confirm

LEMMA AzureAsksReply ==
    ASSUME AzureInv, AzureAsks, NEW p \in Processes, Azure!Mint(p) \/ Azure!Identity(p)
    PROVE  AzureAsks'
<1>1. CASE Azure!Mint(p)
  <2>1. PICK a : a = Azure!Gives(p, req[p], Azure!New, FALSE)
    OBVIOUS
  <2>2. pc[p] = "mint" /\ Azure!Reply(p, a)
    BY <1>1, <2>1 DEF Azure!Mint
  <2>3. a.write => a.asked
    BY <2>1, <2>2 DEF Azure!Gives, Azure!Asked, AzureAsks, AzureYes
  <2> QED
    BY <2>2, <2>3, AzureAsksAnswer
<1>2. CASE Azure!Identity(p)
  <2>1. PICK t : \/ Azure!Reply(p, Azure!Failed("other"))
                 \/ Azure!Reply(p, Azure!Gives(p, req[p], t, TRUE))
    BY <1>2 DEF Azure!Identity
  <2>2. PICK a : a = Azure!Gives(p, req[p], t, TRUE)
    OBVIOUS
  <2>3. a.asked
    BY <2>2 DEF Azure!Gives
  <2> QED
    BY <2>1, <2>2, <2>3, AzureNoneWritten, AzureAsksAnswer
<1> QED
  BY <1>1, <1>2

(* Every action keeps what is known of the question.                       *)
LEMMA AzureAsksNext ==
    ASSUME AzureInv, AzureAsks, Azure!Next
    PROVE  AzureAsks'
<1>1. PICK p \in Processes :
        \/ \E r \in Azure!Request : Azure!Get(p, r) \/ Azure!Erase(p, r) \/ Azure!Login(p, r) \/ Azure!Logout(p, r)
        \/ Azure!Confirm(p) \/ Azure!Mint(p) \/ Azure!Identity(p) \/ Azure!SignedIn(p)
        \/ Azure!Revoke(p) \/ Azure!Replace(p) \/ Azure!CallFails(p) \/ Azure!Stop(p)
  BY DEF Azure!Next
<1>2. ASSUME NEW r, Azure!Erase(p, r) \/ Azure!Login(p, r) \/ Azure!Logout(p, r)
      PROVE  AzureAsks'
  <2>1. \/ Azure!AtOnce(p, r, Azure!NoToken) \/ \E what : Azure!AtOnce(p, r, Azure!Failed(what))
        \/ \E step \in {"check", "device", "revoke"} : \E v : Azure!Begin(p, r, step, v)
    BY <1>2 DEF Azure!Erase, Azure!Login, Azure!Logout
  <2> QED
    BY <2>1, AzureNoneWritten, AzureAsksAnswer, AzureAsksOn
<1>3. ASSUME Azure!SignedIn(p) \/ Azure!Revoke(p) \/ Azure!Replace(p) \/ Azure!CallFails(p)
      PROVE  AzureAsks'
  <2>1. \/ Azure!Reply(p, Azure!NoToken) \/ \E what : Azure!Reply(p, Azure!Failed(what))
        \/ \E v : Azure!GoOn(p, "revoke", v)
    BY <1>3 DEF Azure!SignedIn, Azure!StoreSignIn, Azure!Revoke, Azure!Replace, Azure!CallFails, Azure!CallError
  <2> QED
    BY <2>1, AzureNoneWritten, AzureAsksAnswer, AzureAsksOn
<1>4. ASSUME Azure!Stop(p)
      PROVE  AzureAsks'
  <2>1. OthersWait(p) /\ pc'[p] = "idle" /\ ~ answer'[p].write
    BY <1>4, Asking, AzureShared DEF Azure!Stop, AzureInv, Shared
  <2> QED
    BY <2>1, AzureAsksStep DEF Yes, AzureYes
<1> QED
  BY <1>1, <1>2, <1>3, <1>4, AzureAsksGet, AzureAsksConfirm, AzureAsksReply

(* Every action keeps the invariant.                                       *)
LEMMA AzureNext ==
    ASSUME AzureInv, AzureAsks, Azure!Next
    PROVE  AzureInv'
<1>1. PICK p \in Processes :
        \/ \E r \in Azure!Request : Azure!Get(p, r) \/ Azure!Erase(p, r) \/ Azure!Login(p, r) \/ Azure!Logout(p, r)
        \/ Azure!Confirm(p) \/ Azure!Mint(p) \/ Azure!Identity(p) \/ Azure!SignedIn(p)
        \/ Azure!Revoke(p) \/ Azure!Replace(p) \/ Azure!CallFails(p) \/ Azure!Stop(p)
  BY DEF Azure!Next
<1> QED
  BY <1>1, AzureGet, AzureErase, AzureLogin, AzureLogout, AzureConfirm, AzureMint, AzureIdentity,
     AzureSignedIn, AzureRevoke, AzureReplace, AzureCallFails, AzureStop

(* The invariant gives the properties.                                     *)
LEMMA AzureSafe ==
    ASSUME AzureInv, AzureAsks
    PROVE  /\ RetiredNotGiven /\ ReleasedOnYes
           /\ Azure!NothingForgotten /\ Azure!RemovedStaysRemoved /\ Azure!ErasedNotStored
<1>1. RetiredNotGiven /\ ReleasedOnYes
  BY SharedSafe, YesSafe DEF AzureInv, AzureAsks
<1>2. Azure!NothingForgotten
  <2>1. SUFFICES ASSUME NEW t \in good \ lost, t \notin store.minted
                 PROVE  t \in UNION {local[p].left : p \in {q \in Processes : pc[q] = "revoke" /\ local[q].kind = "logout"}}
    BY DEF Azure!NothingForgotten
  <2>2. PICK p \in Processes : AzureHas(p, t)
    BY <2>1 DEF AzureInv, AzureKept
  <2> QED
    BY <2>2 DEF AzureHas
<1>3. Azure!RemovedStaysRemoved
  BY DEF Azure!RemovedStaysRemoved, AzureInv, AzureStored
<1>4. Azure!ErasedNotStored
  BY DEF Azure!ErasedNotStored, AzureInv, AzureProcess, AzureRead, AzureKnown
<1> QED
  BY <1>1, <1>2, <1>3, <1>4
-----------------------------------------------------------------------------
(* GitHub Packages.                                                        *)

GithubStore == [Github!Tiers -> Nat]
GithubLocal == [tier : Github!Tiers, token : Nat, left : SUBSET Nat]

(* What a process has in hand it may hand out, unless it is to be revoked: *)
(* then it is gone from the store. What it dropped was removed.            *)
GithubHand(p) == {v \in GithubLocal : v.token \in 0..issued /\ v.token \notin retired[p] \ {0}}

GithubProcess(p) ==
    /\ retired[p] \subseteq ended
    /\ pc[p] # "idle" => local[p] \in GithubHand(p)
    /\ pc[p] = "revoke" => local[p].left \subseteq ended

(* A good token is stored, or about to be revoked, or lost.                *)
GithubKept ==
    \A t \in good \ lost :
        \/ \E u \in Github!Tiers : store[u] = t
        \/ \E p \in Processes : pc[p] = "revoke" /\ t \in local[p].left

GithubInv ==
    /\ Shared /\ GithubKept /\ store \in GithubStore
    /\ good \subseteq 1..issued /\ ended \subseteq 1..issued
    /\ \A u \in Github!Tiers : store[u] = 0 \/ (store[u] \in good /\ store[u] \notin ended)
    /\ store["read"] \notin reserved
    /\ \A p \in Processes : GithubProcess(p)

(* A get goes to the service for a token only past its prompt.             *)
GithubYes(p) == pc[p] \in {"device", "user", "revoke"} /\ req[p].op = "get" => asked[p]

GithubAsks == \A p \in Processes : Yes(p) /\ GithubYes(p)

(* The module's own copies of the shared operators are the operators.      *)
LEMMA GithubShared ==
    /\ \A p, r, step, values : Github!Begin(p, r, step, values) <=> Begin(p, r, step, values)
    /\ \A p, r, a : Github!AtOnce(p, r, a) <=> AtOnce(p, r, a)
    /\ \A p, step, values : Github!GoOn(p, step, values) <=> GoOn(p, step, values)
    /\ \A p, a : Github!Reply(p, a) <=> Reply(p, a)
    /\ \A p, fresh : Github!Restart(p, fresh) <=> Restart(p, fresh)
    /\ \A what : Github!Failed(what) = Failed(what)
    /\ Github!NoToken = NoToken
BY DEF Github!Begin, Begin, Github!AtOnce, AtOnce, Github!Take, Take, Github!GoOn, GoOn,
       Github!Reply, Reply, Github!Restart, Restart, Github!NoRequest, NoRequest,
       Github!NoToken, NoToken, Github!Failed, Failed, Github!Asked, Asked

(* The parts of a step that are the same for all of them.                  *)
LEMMA GithubStep ==
    ASSUME GithubInv, NEW p \in Processes, OthersWait(p), NEW m, Holds(p, m),
           NEW d, Drops(p, d), d \subseteq ended',
           issued' \in Nat, issued' >= issued, d \subseteq 0..issued,
           reserved' \subseteq reserved \cup ((issued + 1)..issued'),
           \/ answer'[p].token = 0
           \/ /\ pc'[p] = "idle" /\ answer'[p].token \in 0..issued' /\ answer'[p].token \notin d
              /\ answer'[p].token \in reserved' => answer'[p].asked,
           store' \in GithubStore, good' \subseteq 1..issued', ended' \subseteq 1..issued', ended \subseteq ended',
           \A u \in Github!Tiers : store'[u] = 0 \/ (store'[u] \in good' /\ store'[u] \notin ended'),
           store'["read"] \notin reserved',
           pc'[p] # "idle" =>
               local'[p] \in GithubLocal /\ local'[p].token \in 0..issued' /\ local'[p].token \notin d \ {0},
           pc'[p] = "revoke" => local'[p].left \subseteq ended',
           \A t \in good' \ lost' :
               \/ \E u \in Github!Tiers : store'[u] = t
               \/ pc'[p] = "revoke" /\ t \in local'[p].left
               \/ /\ t \in good \ lost /\ \A u \in Github!Tiers : store[u] # t
                  /\ ~ (pc[p] = "revoke" /\ t \in local[p].left)
    PROVE  GithubInv'
<1>1. Shared /\ issued \in Nat /\ d \subseteq 0..issued'
  BY DEF GithubInv, Shared, Shape
<1>2. Shared'
  BY <1>1, SharedStep
<1>3. GithubKept'
  <2>1. SUFFICES ASSUME NEW t \in good' \ lost', \A u \in Github!Tiers : store'[u] # t,
                        ~ (pc'[p] = "revoke" /\ t \in local'[p].left)
                 PROVE  \E q \in Processes : pc'[q] = "revoke" /\ t \in local'[q].left
    BY DEF GithubKept
  <2>2. PICK q \in Processes \ {p} : pc[q] = "revoke" /\ t \in local[q].left
    BY <2>1 DEF GithubInv, GithubKept
  <2> QED
    BY <2>2 DEF OthersWait
<1>4. GithubProcess(p)'
  BY DEF GithubProcess, GithubHand, Drops
<1>5. ASSUME NEW q \in Processes \ {p}
      PROVE  GithubProcess(q)'
  <2>1. /\ GithubProcess(q) /\ retired'[q] = retired[q] /\ pc'[q] = pc[q] /\ local'[q] = local[q]
    BY DEF GithubInv, Drops, OthersWait
  <2>2. 0..issued \subseteq 0..issued'
    BY <1>1
  <2> QED
    BY <2>1, <2>2 DEF GithubProcess, GithubHand
<1> QED
  BY <1>2, <1>3, <1>4, <1>5 DEF GithubInv

(* What the invariant says for a step of p: types, and how memory and      *)
(* drops go.                                                               *)
LEMMA GithubTypes ==
    ASSUME GithubInv, NEW p \in Processes
    PROVE  /\ Shape /\ Answered /\ issued \in Nat /\ store \in GithubStore
           /\ good \subseteq 1..issued /\ ended \subseteq 1..issued
           /\ \A u \in Github!Tiers : /\ store[u] \in 0..issued /\ store[u] \notin retired[p] \ {0}
                                      /\ store[u] = 0 \/ (store[u] \in good /\ store[u] \notin ended)
           /\ store["read"] \notin reserved /\ "read" \in Github!Tiers
           /\ retired[p] \subseteq ended /\ retired[p] \subseteq 0..issued
           /\ UNCHANGED memory => Holds(p, memory[p])
           /\ UNCHANGED retired => Drops(p, retired[p])
           /\ pc[p] # "idle" => /\ local[p] \in GithubHand(p) /\ local[p] \in GithubLocal
                                /\ local[p].token \in 0..issued /\ local[p].token \notin retired[p] \ {0}
           /\ pc[p] = "revoke" => local[p].left \subseteq ended
<1>1. /\ Shared /\ Shape /\ Answered /\ issued \in Nat /\ store \in GithubStore /\ GithubProcess(p) /\ Dropped(p)
      /\ good \subseteq 1..issued /\ ended \subseteq 1..issued /\ store["read"] \notin reserved
      /\ \A u \in Github!Tiers : store[u] = 0 \/ (store[u] \in good /\ store[u] \notin ended)
  BY DEF GithubInv, Shared, Shape
<1>2. /\ UNCHANGED memory => Holds(p, memory[p])
      /\ UNCHANGED retired => Drops(p, retired[p])
  BY <1>1, HoldsThis, DropsThis
<1>3. ASSUME NEW u \in Github!Tiers
      PROVE  store[u] \in 0..issued /\ store[u] \notin retired[p] \ {0}
  <2>1. CASE store[u] = 0
    BY <1>1, <2>1
  <2>2. CASE store[u] \in good /\ store[u] \notin ended
    <3>1. store[u] \in 1..issued
      BY <1>1, <2>2
    <3>2. store[u] \in 0..issued
      BY <1>1, <3>1
    <3>3. retired[p] \subseteq ended
      BY <1>1 DEF GithubProcess
    <3> QED
      BY <2>2, <3>2, <3>3
  <2> QED
    BY <1>1, <2>1, <2>2
<1>4. "read" \in Github!Tiers
  BY DEF Github!Tiers
<1> QED
  BY <1>1, <1>2, <1>3, <1>4 DEF GithubProcess, GithubHand, Dropped

(* A request that comes, goes on, or is answered with the read token.      *)
LEMMA GithubQuiet ==
    ASSUME GithubInv, NEW p \in Processes, pc[p] # "revoke", NEW steps, "revoke" \notin steps,
           Moves(p, steps, GithubHand(p), {store["read"]}),
           UNCHANGED <<store, good, issued, memory, history>>
    PROVE  GithubInv'
<1>1. /\ OthersWait(p) /\ pc'[p] # "revoke"
      /\ pc'[p] # "idle" => /\ local'[p] \in GithubLocal /\ local'[p].token \in 0..issued
                            /\ local'[p].token \notin retired[p] \ {0}
      /\ answer'[p].token = 0 \/ (pc'[p] = "idle" /\ answer'[p].token = store["read"])
  BY DEF Moves, GithubHand
<1>2. /\ Holds(p, memory[p]) /\ Drops(p, retired[p]) /\ UNCHANGED <<reserved, retired, ended, lost>>
      /\ retired[p] \subseteq ended' /\ retired[p] \subseteq 0..issued
      /\ issued' \in Nat /\ issued' >= issued
  BY GithubTypes DEF history
<1>3. \/ answer'[p].token = 0
      \/ /\ pc'[p] = "idle" /\ answer'[p].token \in 0..issued' /\ answer'[p].token \notin retired[p]
         /\ answer'[p].token \in reserved' => answer'[p].asked
  BY <1>1, <1>2, GithubTypes
<1>4. \A t \in good' \ lost' :
          (\E u \in Github!Tiers : store'[u] = t) \/ (t \in good \ lost /\ \A u \in Github!Tiers : store[u] # t)
  BY <1>2
<1>5. /\ store' \in GithubStore /\ good' \subseteq 1..issued' /\ ended' \subseteq 1..issued'
      /\ \A u \in Github!Tiers : store'[u] = 0 \/ (store'[u] \in good' /\ store'[u] \notin ended')
      /\ store'["read"] \notin reserved'
  BY <1>2, GithubTypes
<1> QED
  BY <1>1, <1>2, <1>3, <1>4, <1>5, GithubStep

LEMMA GithubGet ==
    ASSUME GithubInv, NEW p \in Processes, NEW r, Github!Get(p, r)
    PROVE  GithubInv'
<1> DEFINE steps == {"idle", "check", "confirm"}
           moves == Moves(p, steps, GithubHand(p), {store["read"]})
<1>1. UNCHANGED <<store, good, issued, memory, history>>
  BY DEF Github!Get, Github!service, Github!history, service, history
<1>2. PICK tier \in Github!Tiers :
        \/ \E what : Github!AtOnce(p, r, Github!Failed(what))
        \/ Github!AtOnce(p, r, Github!Gives(p, r, 0, TRUE))
        \/ \E step \in {"check", "confirm"} : Github!Begin(p, r, step, Github!Begun(tier, store[tier]))
        \/ tier = "read" /\ Github!AtOnce(p, r, Github!Gives(p, r, store[tier], FALSE))
  BY DEF Github!Get, Github!Tiers
<1>3. CASE (\E what : Github!AtOnce(p, r, Github!Failed(what))) \/ Github!AtOnce(p, r, Github!Gives(p, r, 0, TRUE))
  <2>0. Github!Gives(p, r, 0, TRUE).token = 0
    BY DEF Github!Gives
  <2>1. moves
    BY <1>3, <2>0, Moving, GithubShared, GithubTypes
  <2>2. pc[p] = "idle"
    BY <1>3, AnsweredAtOnce, GithubShared, GithubTypes
  <2> QED
    BY <1>1, <2>1, <2>2, GithubQuiet
<1>4. ASSUME NEW step \in {"check", "confirm"}, Github!Begin(p, r, step, Github!Begun(tier, store[tier]))
      PROVE  GithubInv'
  <2>1. Github!Begun(tier, store[tier]) \in GithubHand(p)
    BY GithubTypes DEF Github!Begun, GithubHand, GithubLocal
  <2>2. moves /\ pc[p] = "idle"
    BY <1>4, <2>1, Moving, Begins, GithubShared, GithubTypes
  <2> QED
    BY <1>1, <2>2, GithubQuiet
<1>5. CASE tier = "read" /\ Github!AtOnce(p, r, Github!Gives(p, r, store[tier], FALSE))
  <2> DEFINE a == Github!Gives(p, r, store["read"], FALSE)
  <2>1. AtOnce(p, r, a) /\ a.token = store["read"]
    BY <1>5, GithubShared DEF Github!Gives
  <2> HIDE DEF a
  <2>2. moves /\ pc[p] = "idle"
    BY <2>1, Moving, AnsweredAtOnce, GithubTypes
  <2> QED
    BY <1>1, <2>2, GithubQuiet
<1> QED
  BY <1>2, <1>3, <1>4, <1>5

LEMMA GithubLogin ==
    ASSUME GithubInv, NEW p \in Processes, NEW r, Github!Login(p, r) \/ Github!Erase(p, r)
    PROVE  GithubInv'
<1>1. UNCHANGED <<store, good, issued, memory, history>>
  BY DEF Github!Login, Github!Erase, Github!service, Github!history, service, history
<1>2. Github!Begun("read", 0) \in GithubHand(p)
  BY GithubTypes DEF Github!Begun, GithubHand, GithubLocal
<1>3. Moves(p, {"idle", "user", "device"}, GithubHand(p), {store["read"]})
  BY <1>2, Moving, NoTokenInIt, GithubShared, GithubTypes DEF Github!Login, Github!Erase
<1>4. pc[p] = "idle"
  BY AnsweredAtOnce, Begins, GithubShared, GithubTypes DEF Github!Login, Github!Erase
<1> QED
  BY <1>1, <1>3, <1>4, GithubQuiet

(* A token goes out that a person was asked for.                           *)
LEMMA GithubGrants ==
    ASSUME GithubInv, NEW p \in Processes, pc[p] = "confirm",
           Github!Reply(p, Github!Gives(p, req[p], local[p].token, FALSE)),
           UNCHANGED <<store, good, issued, memory, history>>
    PROVE  GithubInv'
<1> DEFINE a == Github!Gives(p, req[p], local[p].token, FALSE)
<1>0. a.token = local[p].token
  BY DEF Github!Gives
<1>1. a.asked
  BY DEF Github!Gives, Github!Asked
<1>2. Reply(p, a)
  BY GithubShared
<1> HIDE DEF a
<1>3. OthersWait(p) /\ pc'[p] = "idle" /\ answer'[p] = a
  BY <1>2, Replies, GithubTypes DEF Turned
<1>4. /\ Holds(p, memory[p]) /\ Drops(p, retired[p]) /\ UNCHANGED <<reserved, retired, ended, lost>>
      /\ retired[p] \subseteq ended' /\ retired[p] \subseteq 0..issued
      /\ issued' \in Nat /\ issued' >= issued
  BY GithubTypes DEF history
<1>5. \/ answer'[p].token = 0
      \/ /\ answer'[p].token \in 0..issued' /\ answer'[p].token \notin retired[p]
         /\ answer'[p].token \in reserved' => answer'[p].asked
  BY <1>0, <1>1, <1>3, GithubTypes
<1>6. \A t \in good' \ lost' :
          (\E u \in Github!Tiers : store'[u] = t) \/ (t \in good \ lost /\ \A u \in Github!Tiers : store[u] # t)
  BY <1>4
<1>7. /\ store' \in GithubStore /\ good' \subseteq 1..issued' /\ ended' \subseteq 1..issued'
      /\ \A u \in Github!Tiers : store'[u] = 0 \/ (store'[u] \in good' /\ store'[u] \notin ended')
      /\ store'["read"] \notin reserved'
  BY <1>4, GithubTypes
<1> QED
  BY <1>3, <1>4, <1>5, <1>6, <1>7, GithubStep

LEMMA GithubConfirm ==
    ASSUME GithubInv, NEW p \in Processes, Github!Confirm(p) \/ Github!Check(p)
    PROVE  GithubInv'
<1>1. pc[p] \in {"check", "confirm"} /\ UNCHANGED <<store, good, issued, memory, history>>
  BY DEF Github!Confirm, Github!Check, Github!service, Github!history, service, history
<1>2. CASE Github!Reply(p, Github!Failed("other")) \/ Github!GoOn(p, "device", local[p])
  <2>1. Moves(p, {"idle", "device"}, GithubHand(p), {store["read"]})
    BY <1>1, <1>2, Moving, GithubShared, GithubTypes
  <2> QED
    BY <1>1, <2>1, GithubQuiet
<1>3. CASE pc[p] = "confirm" /\ Github!Reply(p, Github!Gives(p, req[p], local[p].token, FALSE))
  BY <1>1, <1>3, GithubGrants
<1> QED
  BY <1>2, <1>3 DEF Github!Confirm, Github!Check


-----------------------------------------------------------------------------

(* A token is kept under the tiers it serves: what none of them holds any  *)
(* more is about to be revoked.                                            *)
LEMMA GithubKeeps ==
    ASSUME GithubInv, NEW p \in Processes, pc[p] # "idle", pc[p] # "revoke", req[p].op = "get" => asked[p],
           Github!Issues, NEW scopes \in SUBSET Github!Tiers, Github!Keep(p, Github!New, scopes),
           UNCHANGED memory, lost' = IF scopes = {} THEN lost \cup {Github!New} ELSE lost,
           reserved' \subseteq reserved \cup {Github!New}, "read" \in scopes => reserved' = reserved
    PROVE  GithubInv'
<1> DEFINE n == issued + 1
           account == [t \in Github!Tiers |-> IF t \in scopes THEN n ELSE store[t]]
           replaced == Github!TokensOf(store) \ Github!TokensOf(account)
           values == [local[p] EXCEPT !.token = n, !.left = replaced]
           a == Github!Gives(p, req[p], n, FALSE)
           d == retired[p] \cup replaced
<1>1. /\ issued' = n /\ good' = good \cup {n} /\ Github!New = n
      /\ store' = account /\ ended' = ended \cup replaced
      /\ retired' = [retired EXCEPT ![p] = d]
      /\ IF replaced # {} THEN GoOn(p, "revoke", values)
         ELSE Reply(p, IF req[p].op = "get" THEN a ELSE NoToken)
  BY GithubShared DEF Github!Issues, Github!Issue, Github!New, Github!Keep, Github!Finish
<1>2. \A t : t \in Github!TokensOf(store) <=> t # 0 /\ \E u \in Github!Tiers : store[u] = t
  BY DEF Github!TokensOf
<1>3. \A t : t \in Github!TokensOf(account) <=> t # 0 /\ \E u \in Github!Tiers : account[u] = t
  BY DEF Github!TokensOf
<1>4. n \in Nat /\ n > issued /\ n # 0 /\ n \in 1..n /\ issued \in Nat
  BY GithubTypes
<1>5. Github!TokensOf(store) \subseteq good
  BY <1>2, GithubTypes
<1>6. replaced \subseteq good /\ \A t \in Github!TokensOf(account) : t \notin replaced
  BY <1>5
<1>7. account \in GithubStore /\ \A u \in Github!Tiers : account[u] = IF u \in scopes THEN n ELSE store[u]
  BY <1>4, GithubTypes DEF GithubStore
<1>8. a.token = n /\ NoToken.token = 0
  BY DEF NoToken, Github!Gives
<1>80. req[p].op = "get" => a.asked
  BY DEF Github!Gives, Github!Asked
<1>9. values \in GithubLocal /\ values.token = n /\ values.left = replaced
  <2>1. local[p] \in GithubLocal /\ replaced \subseteq Nat
    BY <1>6, GithubTypes
  <2> HIDE DEF replaced
  <2> QED
    BY <1>4, <2>1 DEF GithubLocal
<1> HIDE DEF account, values, a, n, replaced
<1>90. d \subseteq 0..issued
  BY <1>6, GithubTypes
<1>10. good' \subseteq 1..issued' /\ ended' \subseteq 1..issued' /\ ended \subseteq ended'
  <2>1. replaced \subseteq 1..issued /\ good \subseteq 1..issued /\ ended \subseteq 1..issued
    BY <1>6, GithubTypes
  <2> QED
    BY <1>1, <1>4, <2>1, MoreIssued
<1>11. /\ OthersWait(p) /\ Holds(p, memory[p]) /\ Drops(p, d)
       /\ IF replaced # {} THEN pc'[p] = "revoke" /\ local'[p] = values /\ answer'[p] = answer[p]
          ELSE pc'[p] = "idle" /\ answer'[p] = (IF req[p].op = "get" THEN a ELSE NoToken)
  <2> DEFINE b == IF req[p].op = "get" THEN a ELSE NoToken
  <2>1. Shape /\ Holds(p, memory[p]) /\ Drops(p, d)
    BY <1>1, DropsThis, GithubTypes
  <2>2. IF replaced # {} THEN GoOn(p, "revoke", values) ELSE Reply(p, b)
    BY <1>1
  <2> HIDE DEF b
  <2>3. CASE replaced # {}
    BY <2>1, <2>2, <2>3, GoesOn DEF Turned
  <2>4. CASE replaced = {}
    <3>1. Turned(p, "idle", NoRequest, 0, b)
      BY <2>1, <2>2, <2>4, Replies
    <3> QED
      BY <2>1, <2>4, <3>1 DEF Turned, b
  <2> QED
    BY <2>3, <2>4
<1>12. answer[p].token = 0
  BY GithubTypes DEF Answered, AnswerAsked
<1>13. n \notin d /\ n \notin reserved /\ n \notin good /\ n \notin ended /\ n \in 0..issued' /\ n \notin replaced
  BY <1>1, <1>4, <1>6, GithubTypes DEF Answered
<1>14. \/ answer'[p].token = 0
       \/ /\ pc'[p] = "idle" /\ answer'[p].token \in 0..issued' /\ answer'[p].token \notin d
          /\ answer'[p].token \in reserved' => answer'[p].asked
  BY <1>8, <1>80, <1>11, <1>12, <1>13
<1>15. pc'[p] # "idle" => /\ local'[p] \in GithubLocal /\ local'[p].token \in 0..issued'
                          /\ local'[p].token \notin d \ {0}
  BY <1>9, <1>11, <1>13
<1>16. pc'[p] = "revoke" => local'[p].left \subseteq ended'
  BY <1>1, <1>9, <1>11
<1>17. \A u \in Github!Tiers : store'[u] = 0 \/ (store'[u] \in good' /\ store'[u] \notin ended')
  <2>1. SUFFICES ASSUME NEW u \in Github!Tiers, account[u] # 0
                 PROVE  account[u] \in good' /\ account[u] \notin ended'
    BY <1>1
  <2>2. CASE u \in scopes
    BY <1>1, <1>7, <1>13, <2>2
  <2>3. CASE u \notin scopes
    <3>1. account[u] = store[u] /\ store[u] \in good /\ store[u] \notin ended
      BY <1>7, <2>1, <2>3, GithubTypes
    <3>2. account[u] \notin replaced
      BY <1>3, <1>6, <2>1 DEF account
    <3> QED
      BY <1>1, <3>1, <3>2
  <2> QED
    BY <2>2, <2>3
<1>18. store'["read"] \notin reserved'
  <2>1. "read" \in Github!Tiers /\ store["read"] # n /\ store["read"] \notin reserved
    BY <1>4, GithubTypes
  <2> QED
    BY <1>1, <1>7, <1>13, <2>1
<1>19. \A t \in good' \ lost' :
           \/ \E u \in Github!Tiers : store'[u] = t
           \/ pc'[p] = "revoke" /\ t \in local'[p].left
           \/ t \in good \ lost /\ \A u \in Github!Tiers : store[u] # t
  <2>1. SUFFICES ASSUME NEW t, t \in good', t \notin lost', \A u \in Github!Tiers : store'[u] # t,
                        ~ (pc'[p] = "revoke" /\ t \in local'[p].left)
                 PROVE  t \in good \ lost /\ \A u \in Github!Tiers : store[u] # t
    OBVIOUS
  <2>2. t # n
    <3>1. CASE scopes = {}
      BY <1>1, <2>1, <3>1
    <3>2. CASE scopes # {}
      <4>1. PICK u \in scopes : TRUE
        BY <3>2
      <4> QED
        BY <1>1, <1>7, <2>1, <4>1
    <3> QED
      BY <3>1, <3>2
  <2>3. t \in good \ lost /\ t # 0
    BY <1>1, <1>4, <2>1, <2>2, GithubTypes
  <2>4. t \notin Github!TokensOf(account)
    BY <1>1, <1>3, <2>1
  <2>5. t \notin replaced
    BY <1>9, <1>11, <2>1
  <2>6. t \notin Github!TokensOf(store)
    BY <2>4, <2>5 DEF replaced
  <2> QED
    BY <1>2, <2>3, <2>6
<1>20. issued' \in Nat /\ issued' >= issued /\ d \subseteq ended'
       /\ reserved' \subseteq reserved \cup ((issued + 1)..issued') /\ store' \in GithubStore
  BY <1>1, <1>4, <1>7, GithubTypes DEF n
<1> QED
  BY <1>10, <1>90, <1>11, <1>14, <1>15, <1>16, <1>17, <1>18, <1>19, <1>20, GithubStep

LEMMA GithubLogout ==
    ASSUME GithubInv, NEW p \in Processes, NEW r, Github!Logout(p, r)
    PROVE  GithubInv'
<1> DEFINE values == [Github!Begun("read", 0) EXCEPT !.left = Github!TokensOf(store)]
<1>1. /\ store' = Github!NoAccount /\ ended' = ended \cup Github!TokensOf(store)
      /\ UNCHANGED <<good, issued, memory, reserved, lost>>
  BY DEF Github!Logout, Github!service
<1>2. \A t : t \in Github!TokensOf(store) <=> t # 0 /\ \E u \in Github!Tiers : store[u] = t
  BY DEF Github!TokensOf
<1>3. Github!TokensOf(store) \subseteq 1..issued
  BY <1>2, GithubTypes
<1>4. values \in GithubLocal /\ values.token = 0 /\ values.left = Github!TokensOf(store)
  <2>1. "read" \in Github!Tiers /\ Github!TokensOf(store) \in SUBSET Nat
    BY <1>3, GithubTypes
  <2> QED
    BY <2>1 DEF Github!Begun, GithubLocal
<1>5. store' \in GithubStore /\ \A u \in Github!Tiers : store'[u] = 0
  BY <1>1 DEF Github!NoAccount, GithubStore
<1>6. /\ issued' \in Nat /\ issued' >= issued /\ good' \subseteq 1..issued' /\ ended' \subseteq 1..issued'
      /\ ended \subseteq ended' /\ store'["read"] \notin reserved' /\ Holds(p, memory[p])
      /\ reserved' \subseteq reserved
  <2>1. 0 \notin reserved
    BY GithubTypes DEF Answered
  <2> QED
    BY <1>1, <1>3, <1>5, <2>1, GithubTypes
<1>7. \A u \in Github!Tiers : store'[u] = 0 \/ (store'[u] \in good' /\ store'[u] \notin ended')
  BY <1>5
<1>8. CASE store = Github!NoAccount
  <2>1. Github!AtOnce(p, r, Github!Failed("not-found")) /\ UNCHANGED retired
    BY <1>8 DEF Github!Logout
  <2>2. AtOnce(p, r, Failed("not-found"))
    BY <2>1, GithubShared
  <2>3. /\ OthersWait(p) /\ pc[p] = "idle" /\ pc'[p] = "idle" /\ answer'[p].token = 0
        /\ Drops(p, retired[p]) /\ retired[p] \subseteq ended' /\ retired[p] \subseteq 0..issued
    BY <1>6, <2>1, <2>2, AnsweredAtOnce, NoTokenInIt, GithubTypes DEF Turned
  <2>4. \A t \in good' \ lost' :
           (\E u \in Github!Tiers : store'[u] = t) \/ (t \in good \ lost /\ \A u \in Github!Tiers : store[u] # t)
    BY <1>1, <1>8
  <2> QED
    BY <1>5, <1>6, <1>7, <2>3, <2>4, GithubStep
<1>9. CASE store # Github!NoAccount
  <2> DEFINE d == retired[p] \cup Github!TokensOf(store)
  <2>1. Begin(p, r, "revoke", values) /\ retired' = [retired EXCEPT ![p] = d]
    BY <1>9, GithubShared DEF Github!Logout
  <2>2. d \subseteq ended' /\ d \subseteq 0..issued
    BY <1>1, <1>3, GithubTypes
  <2>3. Drops(p, d)
    BY <2>1, DropsThis, GithubTypes
  <2> HIDE DEF values
  <2>4. /\ OthersWait(p) /\ pc[p] = "idle" /\ pc'[p] = "revoke" /\ answer'[p].token = 0
        /\ local'[p] = values
    BY <2>1, Begins, GithubTypes DEF Turned
  <2>5. /\ local'[p] \in GithubLocal /\ local'[p].token \in 0..issued' /\ local'[p].token \notin d \ {0}
        /\ local'[p].left \subseteq ended'
    BY <1>1, <1>4, <1>6, <2>4
  <2>6. \A t \in good' \ lost' :
           (pc'[p] = "revoke" /\ t \in local'[p].left) \/ (t \in good \ lost /\ \A u \in Github!Tiers : store[u] # t)
    <3>1. \A t \in good : t # 0
      BY GithubTypes
    <3> QED
      BY <1>1, <1>2, <1>4, <2>4, <3>1
  <2> HIDE DEF d
  <2> QED
    BY <1>5, <1>6, <1>7, <2>2, <2>3, <2>4, <2>5, <2>6, GithubStep
<1> QED
  BY <1>8, <1>9

(* A request ends, and no token comes into the store.                      *)
LEMMA GithubEnds ==
    ASSUME GithubInv, NEW p \in Processes, OthersWait(p), pc'[p] = "idle",
           NEW m, Holds(p, m), NEW d, Drops(p, d), d \subseteq retired[p],
           \/ answer'[p].token = 0
           \/ answer'[p].token \in 0..issued /\ answer'[p].token \notin d /\ answer'[p].asked,
           UNCHANGED <<store, reserved, ended>>, issued' \in Nat, issued' >= issued,
           good' \subseteq good \cup ((issued + 1)..issued'),
           \A u \in Github!Tiers : store[u] \in good => store[u] \in good',
           \A t \in good' \ lost' : t \in good \ lost /\ ~ (pc[p] = "revoke" /\ t \in local[p].left)
    PROVE  GithubInv'
<1>1. /\ issued \in Nat /\ good \subseteq 1..issued /\ ended \subseteq 1..issued /\ retired[p] \subseteq ended
      /\ retired[p] \subseteq 0..issued /\ store \in GithubStore /\ store["read"] \notin reserved
      /\ \A u \in Github!Tiers : store[u] = 0 \/ (store[u] \in good /\ store[u] \notin ended)
  BY GithubTypes
<1>2. good' \subseteq 1..issued' /\ ended' \subseteq 1..issued'
  BY <1>1
<1>3. d \subseteq ended' /\ d \subseteq 0..issued
  BY <1>1
<1>4. \A u \in Github!Tiers : store'[u] = 0 \/ (store'[u] \in good' /\ store'[u] \notin ended')
  BY <1>1
<1>5. \/ answer'[p].token = 0
      \/ /\ answer'[p].token \in 0..issued' /\ answer'[p].token \notin d
         /\ answer'[p].token \in reserved' => answer'[p].asked
  BY <1>1
<1>6. \A t \in good' \ lost' :
          \/ \E u \in Github!Tiers : store'[u] = t
          \/ /\ t \in good \ lost /\ \A u \in Github!Tiers : store[u] # t
             /\ ~ (pc[p] = "revoke" /\ t \in local[p].left)
  BY <1>1
<1> QED
  BY <1>1, <1>2, <1>3, <1>4, <1>5, <1>6, GithubStep

LEMMA GithubRevoke ==
    ASSUME GithubInv, GithubAsks, NEW p \in Processes, Github!Revoke(p)
    PROVE  GithubInv'
<1> DEFINE a == Github!Gives(p, req[p], local[p].token, FALSE)
<1>1. /\ pc[p] = "revoke" /\ UNCHANGED <<store, memory, reserved, retired, ended, issued>>
      /\ Reply(p, IF req[p].op = "get" THEN a ELSE NoToken)
      /\ (good' = good \ local[p].left /\ lost' = lost) \/ (good' = good /\ lost' = lost \cup local[p].left)
  BY GithubShared DEF Github!Revoke, Github!Revokes, Github!Finish, Github!service
<1>2. a.token = local[p].token /\ NoToken.token = 0
  BY DEF NoToken, Github!Gives
<1>20. req[p].op = "get" => a.asked
  BY <1>1 DEF Github!Gives, Github!Asked, GithubAsks, GithubYes
<1> HIDE DEF a
<1>3. /\ OthersWait(p) /\ pc'[p] = "idle" /\ Holds(p, memory[p]) /\ Drops(p, retired[p])
      /\ answer'[p] = (IF req[p].op = "get" THEN a ELSE NoToken)
  BY <1>1, Replies, GithubTypes DEF Turned
<1>4. \/ answer'[p].token = 0
      \/ answer'[p].token \in 0..issued /\ answer'[p].token \notin retired[p] /\ answer'[p].asked
  BY <1>1, <1>2, <1>20, <1>3, GithubTypes
<1>5. issued' \in Nat /\ issued' >= issued
  BY <1>1, GithubTypes
<1>6. \A u \in Github!Tiers : store[u] \in good => store[u] \in good'
  BY <1>1, GithubTypes
<1>7. \A t \in good' \ lost' : t \in good \ lost /\ ~ (pc[p] = "revoke" /\ t \in local[p].left)
  BY <1>1
<1> QED
  BY <1>1, <1>3, <1>4, <1>5, <1>6, <1>7, GithubEnds

LEMMA GithubCallFails ==
    ASSUME GithubInv, NEW p \in Processes, Github!CallFails(p)
    PROVE  GithubInv'
<1>1. /\ pc[p] \in {"device", "user"} /\ UNCHANGED <<store, memory, reserved, retired, ended>>
      /\ Reply(p, Failed("other"))
      /\ \/ UNCHANGED <<good, issued, lost>>
         \/ issued' = issued + 1 /\ good' = good \cup {issued + 1} /\ lost' = lost \cup {issued + 1}
  BY GithubShared DEF Github!CallFails, Github!CallError, Github!Issues, Github!Issue, Github!New, Github!service
<1>2. /\ OthersWait(p) /\ pc'[p] = "idle" /\ answer'[p].token = 0
      /\ Holds(p, memory[p]) /\ Drops(p, retired[p])
  BY <1>1, Replies, NoTokenInIt, GithubTypes DEF Turned
<1>3. /\ issued' \in Nat /\ issued' >= issued
      /\ good' \subseteq good \cup ((issued + 1)..issued') /\ good \subseteq good'
      /\ \A t \in good' \ lost' : t \in good \ lost
  BY <1>1, GithubTypes
<1> QED
  BY <1>1, <1>2, <1>3, GithubEnds

LEMMA GithubStop ==
    ASSUME GithubInv, NEW p \in Processes, Github!Stop(p)
    PROVE  GithubInv'
<1>1. /\ Restart(p, 0) /\ UNCHANGED <<store, reserved, ended, good, issued>>
      /\ lost' = IF pc[p] = "revoke" THEN lost \cup local[p].left ELSE lost
  BY GithubShared DEF Github!Stop, Github!service
<1>2. OthersWait(p) /\ pc'[p] = "idle" /\ answer'[p].token = 0 /\ Holds(p, 0) /\ Drops(p, {})
  BY <1>1, Restarts, GithubTypes DEF Turned
<1>3. issued' \in Nat /\ issued' >= issued
  BY <1>1, GithubTypes
<1>4. \A t \in good' \ lost' : t \in good \ lost /\ ~ (pc[p] = "revoke" /\ t \in local[p].left)
  BY <1>1
<1> QED
  BY <1>1, <1>2, <1>3, <1>4, GithubEnds

(* It starts in its invariant.                                             *)
LEMMA GithubInit ==
    ASSUME Github!Init
    PROVE  GithubInv /\ GithubAsks
<1>1. PICK token \in {0, 1} :
        /\ store = [Github!NoAccount EXCEPT !["read"] = token] /\ good = {token} \ {0} /\ issued = 1
        /\ memory = [p \in Processes |-> 0] /\ reserved = {} /\ retired = [p \in Processes |-> {}]
        /\ pc = [p \in Processes |-> "idle"] /\ local = [p \in Processes |-> 0]
        /\ req = [p \in Processes |-> NoRequest] /\ answer = [p \in Processes |-> NoToken]
        /\ asked = [p \in Processes |-> FALSE] /\ ended = {}
  BY DEF Github!Init, Github!ProcessInit, Github!NoRequest, NoRequest, Github!NoToken, NoToken
<1>2. Shared
  BY <1>1, SharedInit
<1>3. /\ store \in GithubStore /\ store["read"] = token
      /\ \A u \in Github!Tiers : store[u] = 0 \/ store[u] = token
  BY <1>1 DEF GithubStore, Github!NoAccount, Github!Tiers
<1>4. GithubKept /\ good \subseteq 1..issued /\ \A u \in Github!Tiers : store[u] = 0 \/ store[u] \in good
  BY <1>1, <1>3 DEF GithubKept, Github!Tiers
<1>5. \A p \in Processes : GithubProcess(p)
  BY <1>1 DEF GithubProcess
<1>6. GithubAsks
  BY <1>1, NothingWritten DEF GithubAsks, Yes, GithubYes
<1> QED
  BY <1>1, <1>2, <1>3, <1>4, <1>5, <1>6 DEF GithubInv

-----------------------------------------------------------------------------
(* A write is answered, and a token obtained for one, past its prompt.     *)

(* The request of p is all that a step has to be asked about.              *)
LEMMA GithubAsksStep ==
    ASSUME GithubAsks, NEW p \in Processes, OthersWait(p), Yes(p)', GithubYes(p)'
    PROVE  GithubAsks'
BY DEF GithubAsks, OthersWait, Yes, GithubYes

(* A step that answers with no credential.                                 *)
LEMMA GithubUnanswered ==
    ASSUME GithubInv, GithubAsks, NEW p \in Processes, NEW r,
           \/ \E what : Github!AtOnce(p, r, Github!Failed(what)) \/ Github!Reply(p, Github!Failed(what))
           \/ Github!AtOnce(p, r, Github!NoToken) \/ Github!Reply(p, Github!NoToken)
           \/ \E fresh : Github!Restart(p, fresh)
    PROVE  GithubAsks'
<1>1. OthersWait(p) /\ pc'[p] = "idle" /\ ~ answer'[p].write
  BY Asking, NothingWritten, GithubShared DEF GithubInv, Shared
<1> QED
  BY <1>1, GithubAsksStep DEF Yes, GithubYes

(* An answer with a yes, if it is to a write.                              *)
LEMMA GithubAnswered ==
    ASSUME GithubInv, GithubAsks, NEW p \in Processes, NEW r, NEW a, a.write => a.asked,
           Github!AtOnce(p, r, a) \/ Github!Reply(p, a)
    PROVE  GithubAsks'
<1>1. OthersWait(p) /\ pc'[p] = "idle" /\ answer'[p] = a
  BY Asking, GithubShared DEF GithubInv, Shared
<1> QED
  BY <1>1, GithubAsksStep DEF Yes, GithubYes

(* A request that begins.                                                  *)
LEMMA GithubBegins ==
    ASSUME GithubInv, GithubAsks, NEW p \in Processes, NEW r, NEW step, NEW values, Github!Begin(p, r, step, values),
           r.op = "get" => step \notin {"device", "user", "revoke"}
    PROVE  GithubAsks'
<1>1. OthersWait(p) /\ pc'[p] = step /\ req'[p] = r /\ ~ answer'[p].write
  BY Asking, GithubShared DEF GithubInv, Shared
<1> QED
  BY <1>1, GithubAsksStep DEF Yes, GithubYes

(* A request that goes on past its prompt, if it is a write.               *)
LEMMA GithubGoesOn ==
    ASSUME GithubInv, GithubAsks, NEW p \in Processes, NEW step, NEW values, Github!GoOn(p, step, values),
           req[p].op = "get" => Asked(p)
    PROVE  GithubAsks'
<1>1. OthersWait(p) /\ req'[p] = req[p] /\ (Asked(p) => asked'[p]) /\ answer'[p] = answer[p]
  BY Asking, GithubShared DEF GithubInv, Shared
<1> QED
  BY <1>1, GithubAsksStep DEF GithubAsks, Yes, GithubYes

LEMMA GithubAsksFinish ==
    ASSUME GithubInv, GithubAsks, NEW p \in Processes, NEW token, NEW left,
           pc[p] \in {"device", "user", "revoke"}, Github!Finish(p, token, left)
    PROVE  GithubAsks'
<1>1. req[p].op = "get" => Asked(p)
  BY DEF GithubAsks, GithubYes, Asked
<1>2. PICK a : a = Github!Gives(p, req[p], token, FALSE)
  OBVIOUS
<1>3. req[p].op = "get" => a.asked
  BY <1>1, <1>2 DEF Github!Gives, Github!Asked, Asked
<1>4. \/ \E values : Github!GoOn(p, "revoke", values)
      \/ req[p].op = "get" /\ Github!Reply(p, a)
      \/ Github!Reply(p, Github!NoToken)
  BY <1>2 DEF Github!Finish
<1> QED
  BY <1>1, <1>3, <1>4, GithubGoesOn, GithubAnswered, GithubUnanswered

(* A get, at its start.                                                    *)
LEMMA GithubAsksGet ==
    ASSUME GithubInv, GithubAsks, NEW p \in Processes, NEW r, Github!Get(p, r)
    PROVE  GithubAsks'
<1>1. PICK own : own = Github!Gives(p, r, 0, TRUE)
  OBVIOUS
<1>2. PICK held : held = Github!Gives(p, r, store["read"], FALSE)
  OBVIOUS
<1>3. own.asked /\ held.write = r.write
  BY <1>1, <1>2 DEF Github!Gives
<1>4. \/ \E what : Github!AtOnce(p, r, Github!Failed(what))
      \/ Github!AtOnce(p, r, own)
      \/ \E step \in {"check", "confirm"} : \E values : Github!Begin(p, r, step, values)
      \/ ~ r.write /\ Github!AtOnce(p, r, held)
  BY <1>1, <1>2 DEF Github!Get
<1> QED
  BY <1>3, <1>4, GithubUnanswered, GithubAnswered, GithubBegins

LEMMA GithubAsksConfirm ==
    ASSUME GithubInv, GithubAsks, NEW p \in Processes, Github!Confirm(p)
    PROVE  GithubAsks'
<1>1. PICK a : a = Github!Gives(p, req[p], local[p].token, FALSE)
  OBVIOUS
<1>2. pc[p] = "confirm" /\ Asked(p)
  BY DEF Github!Confirm, Asked
<1>3. a.asked
  BY <1>1, <1>2 DEF Github!Gives, Github!Asked
<1>4. \/ Github!Reply(p, Github!Failed("other")) \/ Github!Reply(p, a) \/ Github!GoOn(p, "device", local[p])
  BY <1>1 DEF Github!Confirm
<1> QED
  BY <1>2, <1>3, <1>4, GithubUnanswered, GithubAnswered, GithubGoesOn

(* Every action keeps what is known of the question.                       *)
LEMMA GithubAsksNext ==
    ASSUME GithubInv, GithubAsks, Github!Next
    PROVE  GithubAsks'
<1>1. PICK p \in Processes :
        \/ \E r \in Github!Request : Github!Get(p, r) \/ Github!Erase(p, r) \/ Github!Login(p, r) \/ Github!Logout(p, r)
        \/ Github!Check(p) \/ Github!Confirm(p) \/ Github!Approved(p) \/ Github!Pasted(p)
        \/ Github!Revoke(p) \/ Github!CallFails(p) \/ Github!Stop(p)
  BY DEF Github!Next
<1>2. ASSUME NEW r, Github!Erase(p, r) \/ Github!Login(p, r) \/ Github!Logout(p, r)
      PROVE  GithubAsks'
  <2>1. /\ r.op # "get"
        /\ \/ \E what : Github!AtOnce(p, r, Github!Failed(what))
           \/ Github!AtOnce(p, r, Github!NoToken)
           \/ \E step, values : Github!Begin(p, r, step, values)
    BY <1>2 DEF Github!Erase, Github!Login, Github!Logout
  <2> QED
    BY <2>1, GithubUnanswered, GithubBegins
<1>3. ASSUME Github!Approved(p) \/ Github!Pasted(p) \/ Github!Revoke(p)
      PROVE  GithubAsks'
  <2>1. pc[p] \in {"device", "user", "revoke"} /\ \E token, left : Github!Finish(p, token, left)
    BY <1>3 DEF Github!Approved, Github!Pasted, Github!Revoke, Github!Keep
  <2> QED
    BY <2>1, GithubAsksFinish
<1>4. ASSUME Github!Check(p) \/ Github!CallFails(p) \/ Github!Stop(p)
      PROVE  GithubAsks'
  BY <1>4, GithubUnanswered DEF Github!Check, Github!CallFails, Github!CallError, Github!Stop
<1> QED
  BY <1>1, <1>2, <1>3, <1>4, GithubAsksGet, GithubAsksConfirm

(* Every action keeps the invariant.                                       *)
LEMMA GithubNext ==
    ASSUME GithubInv, GithubAsks, Github!Next
    PROVE  GithubInv'
<1>1. PICK p \in Processes :
        \/ \E r \in Github!Request : Github!Get(p, r) \/ Github!Erase(p, r) \/ Github!Login(p, r) \/ Github!Logout(p, r)
        \/ Github!Check(p) \/ Github!Confirm(p) \/ Github!Approved(p) \/ Github!Pasted(p)
        \/ Github!Revoke(p) \/ Github!CallFails(p) \/ Github!Stop(p)
  BY DEF Github!Next
<1>2. CASE \E r \in Github!Request : Github!Get(p, r) \/ Github!Erase(p, r) \/ Github!Login(p, r) \/ Github!Logout(p, r)
  BY <1>2, GithubGet, GithubLogin, GithubLogout
<1>3. CASE Github!Check(p) \/ Github!Confirm(p)
  BY <1>3, GithubConfirm
<1>4. CASE Github!Approved(p)
  <2>1. pc[p] = "device" /\ Github!Issues /\ UNCHANGED memory /\ (req[p].op = "get" => asked[p])
    BY <1>4 DEF Github!Approved, GithubAsks, GithubYes
  <2>2. PICK scopes \in SUBSET Github!Tiers :
          /\ Github!Keep(p, Github!New, scopes)
          /\ reserved' = IF "read" \in scopes THEN reserved ELSE reserved \cup {Github!New}
          /\ lost' = IF scopes = {} THEN lost \cup {Github!New} ELSE lost
    BY <1>4 DEF Github!Approved
  <2> QED
    BY <2>1, <2>2, GithubKeeps
<1>5. CASE Github!Pasted(p)
  <2>1. pc[p] = "user" /\ Github!Issues /\ UNCHANGED <<memory, reserved, lost>> /\ (req[p].op = "get" => asked[p])
    BY <1>5 DEF Github!Pasted, GithubAsks, GithubYes
  <2>2. PICK scopes \in SUBSET Github!Tiers : "read" \in scopes /\ Github!Keep(p, Github!New, scopes)
    BY <1>5 DEF Github!Pasted
  <2> QED
    BY <2>1, <2>2, GithubKeeps
<1>6. CASE Github!Revoke(p) \/ Github!CallFails(p) \/ Github!Stop(p)
  BY <1>6, GithubRevoke, GithubCallFails, GithubStop
<1> QED
  BY <1>1, <1>2, <1>3, <1>4, <1>5, <1>6

(* The invariant gives the properties.                                     *)
LEMMA GithubSafe ==
    ASSUME GithubInv, GithubAsks
    PROVE  /\ RetiredNotGiven /\ ReleasedOnYes
           /\ Github!NothingForgotten /\ Github!RemovedStaysRemoved /\ Github!StoredIsGood
<1>1. \A t : t \in Github!TokensOf(store) <=> t # 0 /\ \E u \in Github!Tiers : store[u] = t
  BY DEF Github!TokensOf
<1>2. RetiredNotGiven /\ ReleasedOnYes
  BY SharedSafe, YesSafe DEF GithubInv, GithubAsks
<1>3. Github!NothingForgotten
  <2>1. SUFFICES ASSUME NEW t \in good \ lost, t \notin Github!TokensOf(store)
                 PROVE  \E p \in {q \in Processes : pc[q] = "revoke"} : t \in local[p].left
    BY DEF Github!NothingForgotten
  <2>2. t # 0
    BY DEF GithubInv
  <2> QED
    BY <1>1, <2>1, <2>2 DEF GithubInv, GithubKept
<1>4. Github!RemovedStaysRemoved /\ Github!StoredIsGood
  BY <1>1 DEF GithubInv, Github!RemovedStaysRemoved, Github!StoredIsGood
<1> QED
  BY <1>2, <1>3, <1>4

-----------------------------------------------------------------------------
(* npmjs.com.                                                              *)

NpmjsEntries == [tier : Npmjs!Tiers, token : Nat]
NpmjsLocal   == [operation : Npmjs!Operations, entry : NpmjsEntries]

(* What a process has in hand it may hand out, unless it is to be deleted. *)
NpmjsEntry(p) == {e \in NpmjsEntries : e.token \in 0..issued /\ e.token \notin retired[p] \ {0}}
NpmjsHand(p)  == {v \in NpmjsLocal : v.entry \in NpmjsEntry(p)}

NpmjsProcess(p) ==
    /\ retired[p] \subseteq ended /\ Yes(p)
    /\ pc[p] # "idle" => local[p] \in NpmjsLocal
    /\ pc[p] \notin {"idle", "revoke"} => local[p] \in NpmjsHand(p)
    /\ pc[p] = "revoke" => local[p].entry.token \in ended

(* A token in the store was not removed. It is a good one exactly if it is *)
(* a session's, and there is one session; the tokens that read do not      *)
(* write.                                                                  *)
NpmjsStored ==
    /\ store \subseteq NpmjsEntries
    /\ \A e \in store :
        /\ e.token \in 1..issued /\ e.token \notin ended
        /\ e.token \in good <=> e.tier = "session"
        /\ e.tier \in {"read", "stage-read"} => e.token \notin reserved
        /\ \A f \in store : e.tier = "session" /\ f.tier = "session" => e.token = f.token

NpmjsKept ==
    \A t \in good \ lost :
        \/ \E e \in store : e.tier = "session" /\ e.token = t
        \/ \E p \in Processes : pc[p] = "revoke" /\ local[p].entry.token = t

NpmjsInv ==
    /\ Shared /\ NpmjsStored /\ NpmjsKept
    /\ good \subseteq 1..issued /\ ended \subseteq 1..issued
    /\ \A p \in Processes : NpmjsProcess(p)

(* The module's own copies of the shared operators are the operators.      *)
LEMMA NpmjsShared ==
    /\ \A p, r, step, values : Npmjs!Begin(p, r, step, values) <=> Begin(p, r, step, values)
    /\ \A p, r, a : Npmjs!AtOnce(p, r, a) <=> AtOnce(p, r, a)
    /\ \A p, step, values : Npmjs!GoOn(p, step, values) <=> GoOn(p, step, values)
    /\ \A p, a : Npmjs!Reply(p, a) <=> Reply(p, a)
    /\ \A p, fresh : Npmjs!Restart(p, fresh) <=> Restart(p, fresh)
    /\ \A what : Npmjs!Failed(what) = Failed(what)
    /\ Npmjs!NoToken = NoToken
BY DEF Npmjs!Begin, Begin, Npmjs!AtOnce, AtOnce, Npmjs!Take, Take, Npmjs!GoOn, GoOn,
       Npmjs!Reply, Reply, Npmjs!Restart, Restart, Npmjs!NoRequest, NoRequest,
       Npmjs!NoToken, NoToken, Npmjs!Failed, Failed, Npmjs!Asked, Asked

(* The parts of a step that are the same for all of them.                  *)
LEMMA NpmjsStep ==
    ASSUME NpmjsInv, NEW p \in Processes, OthersWait(p), NEW m, Holds(p, m),
           NEW d, Drops(p, d), d \subseteq ended', d \subseteq 0..issued,
           issued' \in Nat, issued' >= issued, ended \subseteq ended',
           reserved' \subseteq reserved \cup ((issued + 1)..issued'),
           \/ answer'[p].token = 0
           \/ /\ pc'[p] = "idle" /\ answer'[p].token \in 0..issued' /\ answer'[p].token \notin d
              /\ answer'[p].token \in reserved' => answer'[p].asked,
           answer'[p].write => answer'[p].asked,
           NpmjsStored', good' \subseteq 1..issued', ended' \subseteq 1..issued',
           pc'[p] # "idle" => local'[p] \in NpmjsLocal,
           pc'[p] \notin {"idle", "revoke"} =>
               local'[p].entry.token \in 0..issued' /\ local'[p].entry.token \notin d \ {0},
           pc'[p] = "revoke" => local'[p].entry.token \in ended',
           \A t \in good' \ lost' :
               \/ \E e \in store' : e.tier = "session" /\ e.token = t
               \/ pc'[p] = "revoke" /\ local'[p].entry.token = t
               \/ /\ t \in good \ lost /\ ~ \E e \in store : e.tier = "session" /\ e.token = t
                  /\ ~ (pc[p] = "revoke" /\ local[p].entry.token = t)
    PROVE  NpmjsInv'
<1>1. Shared /\ issued \in Nat /\ d \subseteq 0..issued' /\ 0..issued \subseteq 0..issued'
  BY DEF NpmjsInv, Shared, Shape
<1>2. Shared'
  BY <1>1, SharedStep
<1>3. NpmjsKept'
  <2>1. SUFFICES ASSUME NEW t \in good' \ lost', ~ \E e \in store' : e.tier = "session" /\ e.token = t,
                        ~ (pc'[p] = "revoke" /\ local'[p].entry.token = t)
                 PROVE  \E q \in Processes : pc'[q] = "revoke" /\ local'[q].entry.token = t
    BY DEF NpmjsKept
  <2>2. PICK q \in Processes \ {p} : pc[q] = "revoke" /\ local[q].entry.token = t
    BY <2>1 DEF NpmjsInv, NpmjsKept
  <2> QED
    BY <2>2 DEF OthersWait
<1>4. NpmjsProcess(p)'
  BY DEF NpmjsProcess, NpmjsHand, NpmjsEntry, NpmjsLocal, Drops, Yes
<1>5. ASSUME NEW q \in Processes \ {p}
      PROVE  NpmjsProcess(q)'
  <2>1. /\ NpmjsProcess(q) /\ retired'[q] = retired[q] /\ pc'[q] = pc[q] /\ local'[q] = local[q]
        /\ answer'[q] = answer[q]
    BY DEF NpmjsInv, Drops, OthersWait
  <2> QED
    BY <1>1, <2>1 DEF NpmjsProcess, NpmjsHand, NpmjsEntry, Yes
<1> QED
  BY <1>2, <1>3, <1>4, <1>5 DEF NpmjsInv

(* What the invariant says for a step of p: types, and how memory and      *)
(* drops go.                                                               *)
LEMMA NpmjsTypes ==
    ASSUME NpmjsInv, NEW p \in Processes
    PROVE  /\ Shape /\ Answered /\ issued \in Nat /\ good \subseteq 1..issued /\ ended \subseteq 1..issued
           /\ store \subseteq NpmjsEntry(p) /\ retired[p] \subseteq ended /\ retired[p] \subseteq 0..issued
           /\ Npmjs!NoEntry \in NpmjsEntry(p)
           /\ UNCHANGED memory => \E m : Holds(p, m)
           /\ \A m : memory' = [memory EXCEPT ![p] = m] => Holds(p, m)
           /\ UNCHANGED retired => Drops(p, retired[p])
           /\ \A d : retired' = [retired EXCEPT ![p] = d] => Drops(p, d)
           /\ pc[p] # "idle" => local[p] \in NpmjsLocal
           /\ pc[p] \notin {"idle", "revoke"} => local[p] \in NpmjsHand(p)
           /\ pc[p] = "revoke" => local[p].entry.token \in ended
<1>1. /\ Shared /\ Shape /\ Answered /\ issued \in Nat /\ NpmjsProcess(p) /\ Dropped(p)
      /\ good \subseteq 1..issued /\ ended \subseteq 1..issued
  BY DEF NpmjsInv, Shared, Shape
<1>2. store \subseteq NpmjsEntry(p)
  <2>1. SUFFICES ASSUME NEW e \in store
                 PROVE  e \in NpmjsEntry(p)
    OBVIOUS
  <2>2. e \in NpmjsEntries /\ e.token \in 1..issued /\ e.token \notin ended
    BY DEF NpmjsInv, NpmjsStored
  <2>3. e.token \in 0..issued
    BY <1>1, <2>2
  <2> QED
    BY <1>1, <2>2, <2>3 DEF NpmjsEntry, NpmjsProcess
<1>3. Npmjs!NoEntry \in NpmjsEntry(p)
  BY <1>1 DEF Npmjs!NoEntry, NpmjsEntry, NpmjsEntries, Npmjs!Tiers
<1>4. /\ UNCHANGED memory => \E m : Holds(p, m)
      /\ \A m : memory' = [memory EXCEPT ![p] = m] => Holds(p, m)
      /\ UNCHANGED retired => Drops(p, retired[p])
      /\ \A d : retired' = [retired EXCEPT ![p] = d] => Drops(p, d)
  BY <1>1, HoldsThis, DropsThis
<1> QED
  BY <1>1, <1>2, <1>3, <1>4 DEF NpmjsProcess, Dropped

-----------------------------------------------------------------------------
(* A request that comes, or is answered, and leaves the store alone.       *)
NpmjsTurn(p) ==
    /\ pc[p] # "revoke" /\ OthersWait(p) /\ (\E m : Holds(p, m)) /\ pc'[p] # "revoke"
    /\ pc'[p] # "idle" => local'[p] \in NpmjsHand(p)
    /\ answer'[p].write => answer'[p].asked
    /\ \/ answer'[p].token = 0
       \/ /\ pc'[p] = "idle" /\ answer'[p].token \in 0..issued /\ answer'[p].token \notin retired[p] \ {0}
          /\ answer'[p].token \in reserved => answer'[p].asked

(* A step that only moves a request on.                                    *)
LEMMA NpmjsQuiet ==
    ASSUME NpmjsInv, NEW p \in Processes, NpmjsTurn(p), UNCHANGED <<store, good, issued, history>>
    PROVE  NpmjsInv'
<1>1. PICK m : Holds(p, m)
  BY DEF NpmjsTurn
<1>2. /\ OthersWait(p) /\ pc[p] # "revoke" /\ pc'[p] # "revoke" /\ (answer'[p].write => answer'[p].asked)
      /\ pc'[p] # "idle" => /\ local'[p] \in NpmjsLocal /\ local'[p].entry.token \in 0..issued
                            /\ local'[p].entry.token \notin retired[p] \ {0}
  BY DEF NpmjsTurn, NpmjsHand, NpmjsEntry
<1>3. /\ Drops(p, retired[p]) /\ UNCHANGED <<reserved, retired, ended, lost>>
      /\ retired[p] \subseteq ended' /\ retired[p] \subseteq 0..issued /\ ended \subseteq ended'
      /\ issued' \in Nat /\ issued' >= issued
  BY NpmjsTypes DEF history
<1>4. \/ answer'[p].token = 0
      \/ /\ pc'[p] = "idle" /\ answer'[p].token \in 0..issued' /\ answer'[p].token \notin retired[p]
         /\ answer'[p].token \in reserved' => answer'[p].asked
  BY <1>3 DEF NpmjsTurn
<1>5. NpmjsStored' /\ good' \subseteq 1..issued' /\ ended' \subseteq 1..issued'
  BY <1>3 DEF NpmjsInv, NpmjsStored
<1>6. \A t \in good' \ lost' :
          \/ \E e \in store' : e.tier = "session" /\ e.token = t
          \/ t \in good \ lost /\ ~ \E e \in store : e.tier = "session" /\ e.token = t
  BY <1>3
<1> QED
  BY <1>1, <1>2, <1>3, <1>4, <1>5, <1>6, NpmjsStep

(* A request that begins.                                                  *)
LEMMA NpmjsBegins ==
    ASSUME NpmjsInv, NEW p \in Processes, \E m : Holds(p, m), NEW r,
           NEW step \in {"whoami", "confirm", "paste", "web-login"},
           NEW operation \in Npmjs!Operations, NEW e \in NpmjsEntry(p),
           Npmjs!Begin(p, r, step, Npmjs!Begun(operation, e))
    PROVE  NpmjsTurn(p)
<1> DEFINE values == Npmjs!Begun(operation, e)
<1>1. values \in NpmjsHand(p)
  BY DEF Npmjs!Begun, NpmjsHand, NpmjsLocal, NpmjsEntry
<1>2. Begin(p, r, step, values)
  BY NpmjsShared
<1> HIDE DEF values
<1>3. /\ pc[p] = "idle" /\ OthersWait(p) /\ pc'[p] = step /\ local'[p] = values
      /\ answer'[p].token = 0 /\ ~ answer'[p].write
  BY <1>2, NpmjsTypes, Begins, Asking DEF Turned
<1> QED
  BY <1>1, <1>3 DEF NpmjsTurn

(* An answer without a token, or with one that may go out.                 *)
NpmjsMayGo(p, a) ==
    /\ a.write => a.asked
    /\ \/ a.token = 0
       \/ /\ a.token \in 0..issued /\ a.token \notin retired[p] \ {0}
          /\ a.token \in reserved => a.asked

(* A request that is answered, at its start or after an await.             *)
LEMMA NpmjsAnswers ==
    ASSUME NpmjsInv, NEW p \in Processes, \E m : Holds(p, m), NEW r, NEW a, NpmjsMayGo(p, a),
           Npmjs!AtOnce(p, r, a) \/ (pc[p] # "revoke" /\ Npmjs!Reply(p, a))
    PROVE  NpmjsTurn(p)
<1>1. OthersWait(p) /\ pc[p] # "revoke" /\ pc'[p] = "idle" /\ answer'[p] = a
  BY NpmjsShared, NpmjsTypes, AnsweredAtOnce, Replies DEF Turned
<1> QED
  BY <1>1 DEF NpmjsTurn, NpmjsMayGo

(* Its empty answers carry no token.                                       *)
LEMMA NpmjsNothing ==
    ASSUME NEW p
    PROVE  NpmjsMayGo(p, Npmjs!NoToken) /\ \A what : NpmjsMayGo(p, Npmjs!Failed(what))
BY NoTokenInIt, NothingWritten, NpmjsShared DEF NpmjsMayGo

LEMMA NpmjsOut ==
    ASSUME NEW p, NEW e \in NpmjsEntry(p), NEW a, a.token = e.token,
           a.write => a.asked, e.token \in reserved => a.asked
    PROVE  NpmjsMayGo(p, a)
BY DEF NpmjsEntry, NpmjsMayGo

LEMMA NpmjsHandOut ==
    ASSUME NpmjsInv, NEW p \in Processes, NEW operation, NEW e, Npmjs!HandOut(p, operation, e)
    PROVE  \E m : Holds(p, m)
<1> DEFINE m == [memory[p] EXCEPT ![operation] = e.tier]
<1>1. UNCHANGED memory \/ memory' = [memory EXCEPT ![p] = m]
  BY DEF Npmjs!HandOut
<1> HIDE DEF m
<1> QED
  BY <1>1, NpmjsTypes

LEMMA NpmjsRelease ==
    ASSUME NpmjsInv, NEW p \in Processes, NEW r, NEW operation \in Npmjs!Operations, NEW tiers, NEW none,
           operation \notin Npmjs!Write => ~ r.write /\ tiers \subseteq {"read", "stage-read", "session"},
           Npmjs!Release(p, r, operation, tiers, none)
    PROVE  NpmjsTurn(p)
<1>1. CASE Npmjs!AtOnce(p, r, Npmjs!Failed(none)) /\ UNCHANGED memory
  BY <1>1, NpmjsTypes, NpmjsNothing, NpmjsAnswers
<1>2. ASSUME NEW e \in Npmjs!Candidates(tiers),
        \/ /\ e.tier = "session" /\ UNCHANGED memory
           /\ Npmjs!AtOnce(p, r, IF operation = "read" THEN Npmjs!NoToken ELSE Npmjs!Failed("other"))
        \/ /\ operation \notin Npmjs!Write /\ Npmjs!AtOnce(p, r, Npmjs!Gives(p, r, e.token, e.tier = "session"))
           /\ Npmjs!HandOut(p, operation, e)
        \/ /\ operation \in Npmjs!Write /\ r.interactive
           /\ Npmjs!Begin(p, r, "confirm", Npmjs!Begun(operation, e)) /\ UNCHANGED memory
        \/ /\ operation \in Npmjs!Write /\ ~r.interactive /\ ~(e.tier = "stage-only" /\ ci)
           /\ Npmjs!AtOnce(p, r, Npmjs!Failed("other")) /\ UNCHANGED memory
        \/ /\ operation \in Npmjs!Write /\ ~r.interactive /\ e.tier = "stage-only" /\ ci
           /\ Npmjs!AtOnce(p, r, Npmjs!Gives(p, r, e.token, TRUE)) /\ Npmjs!HandOut(p, operation, e)
      PROVE  NpmjsTurn(p)
  <2>1. e \in store /\ e.tier \in tiers /\ e \in NpmjsEntry(p)
    BY NpmjsTypes DEF Npmjs!Candidates
  <2>2. CASE \/ Npmjs!AtOnce(p, r, Npmjs!NoToken) /\ UNCHANGED memory
             \/ Npmjs!AtOnce(p, r, Npmjs!Failed("other")) /\ UNCHANGED memory
    BY <2>2, NpmjsTypes, NpmjsNothing, NpmjsAnswers
  <2>3. CASE /\ operation \notin Npmjs!Write /\ Npmjs!AtOnce(p, r, Npmjs!Gives(p, r, e.token, e.tier = "session"))
             /\ Npmjs!HandOut(p, operation, e)
    <3>1. PICK a : a = Npmjs!Gives(p, r, e.token, e.tier = "session")
      OBVIOUS
    <3>2. a.token = e.token /\ a.write = r.write
      BY <3>1 DEF Npmjs!Gives
    <3>3. e.tier = "session" => a.asked
      BY <3>1 DEF Npmjs!Gives
    <3>4. e.tier # "session" => e.token \notin reserved
      BY <2>1, <2>3 DEF NpmjsInv, NpmjsStored
    <3>5. NpmjsMayGo(p, a)
      BY <2>1, <2>3, <3>2, <3>3, <3>4, NpmjsOut
    <3> QED
      BY <2>3, <3>1, <3>5, NpmjsHandOut, NpmjsAnswers
  <2>4. CASE Npmjs!Begin(p, r, "confirm", Npmjs!Begun(operation, e)) /\ UNCHANGED memory
    BY <2>1, <2>4, NpmjsTypes, NpmjsBegins
  <2>5. CASE Npmjs!AtOnce(p, r, Npmjs!Gives(p, r, e.token, TRUE)) /\ Npmjs!HandOut(p, operation, e)
    <3>1. PICK a : a = Npmjs!Gives(p, r, e.token, TRUE)
      OBVIOUS
    <3>2. a.token = e.token
      BY <3>1 DEF Npmjs!Gives
    <3>3. a.asked
      BY <3>1 DEF Npmjs!Gives
    <3>4. NpmjsMayGo(p, a)
      BY <2>1, <3>2, <3>3, NpmjsOut
    <3> QED
      BY <2>5, <3>1, <3>4, NpmjsHandOut, NpmjsAnswers
  <2> QED
    BY <1>2, <2>2, <2>3, <2>4, <2>5
<1> QED
  BY <1>1, <1>2 DEF Npmjs!Release

LEMMA NpmjsGet ==
    ASSUME NpmjsInv, NEW p \in Processes, NEW r, Npmjs!Get(p, r)
    PROVE  NpmjsInv'
<1>1. UNCHANGED <<store, good, issued, history>>
  BY DEF Npmjs!Get, Npmjs!service, Npmjs!history, history
<1>2. CASE Npmjs!AtOnce(p, r, Npmjs!Failed("not-served")) /\ UNCHANGED memory
  BY <1>1, <1>2, NpmjsTypes, NpmjsNothing, NpmjsAnswers, NpmjsQuiet
<1>3. ASSUME NEW operation \in IF r.write THEN Npmjs!Write ELSE Npmjs!Operations \ Npmjs!Write,
        \/ r.retry = "no" /\ Npmjs!Release(p, r, operation, Npmjs!TiersOf(operation), "not-found")
        \/ /\ r.retry = "no" /\ operation = "read"
           /\ Npmjs!Release(p, r, operation, Npmjs!TiersOf(operation) \cup {"session"}, "not-found")
        \/ /\ UNCHANGED memory
           /\ \/ Npmjs!AtOnce(p, r, Npmjs!Failed("other"))
              \/ Npmjs!Begin(p, r, "whoami", Npmjs!Begun(operation, Npmjs!NoEntry))
        \/ Npmjs!Release(p, r, operation, {"session"}, "other")
        \/ Npmjs!AtOnce(p, r, Npmjs!Failed("other")) /\ UNCHANGED memory
      PROVE  NpmjsTurn(p)
  <2>1. operation \in Npmjs!Operations
    BY DEF Npmjs!Write
  <2>2. operation \notin Npmjs!Write =>
            ~ r.write /\ Npmjs!TiersOf(operation) \cup {"session"} \subseteq {"read", "stage-read", "session"}
    BY <2>1 DEF Npmjs!Write, Npmjs!Operations, Npmjs!TiersOf
  <2>3. CASE \/ Npmjs!Release(p, r, operation, Npmjs!TiersOf(operation), "not-found")
             \/ Npmjs!Release(p, r, operation, Npmjs!TiersOf(operation) \cup {"session"}, "not-found")
             \/ Npmjs!Release(p, r, operation, {"session"}, "other")
    BY <2>1, <2>2, <2>3, NpmjsRelease
  <2>4. CASE Npmjs!AtOnce(p, r, Npmjs!Failed("other")) /\ UNCHANGED memory
    BY <2>4, NpmjsTypes, NpmjsNothing, NpmjsAnswers
  <2>5. CASE Npmjs!Begin(p, r, "whoami", Npmjs!Begun(operation, Npmjs!NoEntry)) /\ UNCHANGED memory
    BY <2>1, <2>5, NpmjsTypes, NpmjsBegins
  <2> QED
    BY <1>3, <2>3, <2>4, <2>5
<1> QED
  BY <1>1, <1>2, <1>3, NpmjsQuiet DEF Npmjs!Get

LEMMA NpmjsConfirm ==
    ASSUME NpmjsInv, NEW p \in Processes, Npmjs!Confirm(p) \/ Npmjs!Whoami(p)
    PROVE  NpmjsInv'
<1>1. /\ pc[p] \in {"confirm", "whoami"} /\ UNCHANGED <<store, good, issued, history>>
      /\ \/ Npmjs!Reply(p, Npmjs!Failed("other")) /\ UNCHANGED memory
         \/ /\ pc[p] = "confirm" /\ Npmjs!Reply(p, Npmjs!Gives(p, req[p], local[p].entry.token, FALSE))
            /\ Npmjs!HandOut(p, local[p].operation, local[p].entry)
  BY DEF Npmjs!Confirm, Npmjs!Whoami, Npmjs!service, Npmjs!history, history
<1>2. local[p].entry \in NpmjsEntry(p)
  BY <1>1, NpmjsTypes DEF NpmjsHand
<1>3. CASE Npmjs!Reply(p, Npmjs!Failed("other")) /\ UNCHANGED memory
  BY <1>1, <1>3, NpmjsTypes, NpmjsNothing, NpmjsAnswers, NpmjsQuiet
<1>4. CASE /\ pc[p] = "confirm" /\ Npmjs!Reply(p, Npmjs!Gives(p, req[p], local[p].entry.token, FALSE))
           /\ Npmjs!HandOut(p, local[p].operation, local[p].entry)
  <2>1. PICK a : a = Npmjs!Gives(p, req[p], local[p].entry.token, FALSE)
    OBVIOUS
  <2>2. a.token = local[p].entry.token
    BY <2>1 DEF Npmjs!Gives
  <2>3. a.asked
    BY <1>4, <2>1 DEF Npmjs!Gives, Npmjs!Asked
  <2>4. NpmjsMayGo(p, a) /\ \E m : Holds(p, m)
    BY <1>2, <1>4, <2>2, <2>3, NpmjsOut, NpmjsHandOut
  <2> QED
    BY <1>1, <1>4, <2>1, <2>4, NpmjsAnswers, NpmjsQuiet
<1> QED
  BY <1>1, <1>3, <1>4

LEMMA NpmjsErase ==
    ASSUME NpmjsInv, NEW p \in Processes, NEW r, Npmjs!Erase(p, r) \/ Npmjs!Login(p, r)
    PROVE  NpmjsInv'
<1>1. UNCHANGED <<store, good, issued, history>>
  BY DEF Npmjs!Erase, Npmjs!Login, Npmjs!service, Npmjs!history, history
<1>2. CASE Npmjs!Erase(p, r)
  <2>1. \E m : Holds(p, m)
    <3>1. CASE UNCHANGED memory
      BY <3>1, NpmjsTypes
    <3>2. ASSUME NEW operation, memory' = [memory EXCEPT ![p][operation] = "none"]
          PROVE  \E m : Holds(p, m)
      <4> DEFINE m == [memory[p] EXCEPT ![operation] = "none"]
      <4>1. memory' = [memory EXCEPT ![p] = m]
        BY <3>2
      <4> HIDE DEF m
      <4> QED
        BY <4>1, NpmjsTypes
    <3> QED
      BY <1>2, <3>1, <3>2 DEF Npmjs!Erase
  <2>2. Npmjs!AtOnce(p, r, Npmjs!NoToken)
    BY <1>2 DEF Npmjs!Erase
  <2> QED
    BY <1>1, <2>1, <2>2, NpmjsNothing, NpmjsAnswers, NpmjsQuiet
<1>3. CASE Npmjs!Login(p, r)
  <2>1. \E m : Holds(p, m)
    BY <1>3, NpmjsTypes DEF Npmjs!Login
  <2>2. CASE Npmjs!AtOnce(p, r, Npmjs!Failed("other"))
    BY <1>1, <2>1, <2>2, NpmjsNothing, NpmjsAnswers, NpmjsQuiet
  <2>3. ASSUME NEW step \in {"paste", "web-login"}, Npmjs!Begin(p, r, step, Npmjs!Begun("access", Npmjs!NoEntry))
        PROVE  NpmjsInv'
    <3>1. "access" \in Npmjs!Operations /\ Npmjs!NoEntry \in NpmjsEntry(p)
      BY NpmjsTypes DEF Npmjs!Operations
    <3> QED
      BY <1>1, <2>1, <2>3, <3>1, NpmjsBegins, NpmjsQuiet
  <2> QED
    BY <1>3, <2>2, <2>3 DEF Npmjs!Login
<1> QED
  BY <1>2, <1>3


-----------------------------------------------------------------------------

LEMMA NpmjsSessions ==
    /\ \A t : t \in Npmjs!SessionIn(store) <=> \E e \in store : e.tier = "session" /\ e.token = t
    /\ (Npmjs!SessionIn(store))' = Npmjs!SessionIn(store')
    /\ \A entries : \A t : t \in Npmjs!SessionIn(entries) <=> \E e \in entries : e.tier = "session" /\ e.token = t
BY DEF Npmjs!SessionIn

(* A login ends: with the token the user pasted, or the web login's.       *)
LEMMA NpmjsPasted ==
    ASSUME NpmjsInv, NEW p \in Processes, Npmjs!Pasted(p)
    PROVE  NpmjsInv'
<1> DEFINE n == issued + 1
<1>1. PICK tier \in {"read", "stage-read", "stage-only", "publish"} :
        /\ store' = store \cup {[tier |-> tier, token |-> n]}
        /\ reserved' = IF tier \in {"stage-only", "publish"} THEN reserved \cup {n} ELSE reserved
  BY DEF Npmjs!Pasted, Npmjs!New
<1>2. /\ pc[p] = "paste" /\ issued' = n /\ Reply(p, NoToken)
      /\ UNCHANGED <<good, memory, retired, ended, lost>>
  BY NpmjsShared DEF Npmjs!Pasted, Npmjs!Issue
<1>3. n \in Nat /\ n > issued /\ n \in 1..n /\ issued \in Nat /\ n \notin 1..issued
  BY NpmjsTypes
<1>4. /\ OthersWait(p) /\ pc'[p] = "idle" /\ answer'[p].token = 0 /\ ~ answer'[p].write
      /\ Drops(p, retired[p])
  BY <1>2, Replies, NoTokenInIt, NothingWritten, NpmjsTypes DEF Turned
<1>5. PICK m : Holds(p, m)
  BY <1>2, NpmjsTypes
<1> DEFINE new == [tier |-> tier, token |-> n]
<1>6. new \in NpmjsEntries /\ new.token = n /\ new.tier = tier /\ tier # "session"
  BY <1>3 DEF NpmjsEntries, Npmjs!Tiers
<1>7. store' = store \cup {new}
  BY <1>1
<1> HIDE DEF n, new
<1>8. /\ good' \subseteq 1..issued' /\ ended' \subseteq 1..issued' /\ issued' \in Nat /\ issued' >= issued
      /\ retired[p] \subseteq ended' /\ retired[p] \subseteq 0..issued /\ ended \subseteq ended'
      /\ n \notin good /\ n \notin ended /\ n \notin reserved
  BY <1>2, <1>3, MoreIssued, NpmjsTypes DEF Answered
<1>9. reserved' \subseteq reserved \cup ((issued + 1)..issued')
  BY <1>1, <1>2, <1>3, NpmjsTypes DEF n
<1>10. NpmjsStored'
  <2>1. store' \subseteq NpmjsEntries
    BY <1>6, <1>7 DEF NpmjsInv, NpmjsStored
  <2>2. ASSUME NEW e \in store'
        PROVE  /\ e.token \in 1..issued' /\ e.token \notin ended'
               /\ e.token \in good' <=> e.tier = "session"
               /\ e.tier \in {"read", "stage-read"} => e.token \notin reserved'
               /\ \A f \in store' : e.tier = "session" /\ f.tier = "session" => e.token = f.token
    <3>1. CASE e = new
      BY <1>1, <1>2, <1>3, <1>6, <1>8, <3>1
    <3>2. CASE e \in store
      <4>1. /\ e.token \in 1..issued /\ e.token \notin ended
            /\ e.token \in good <=> e.tier = "session"
            /\ e.tier \in {"read", "stage-read"} => e.token \notin reserved
            /\ \A f \in store : e.tier = "session" /\ f.tier = "session" => e.token = f.token
        BY <3>2 DEF NpmjsInv, NpmjsStored
      <4>2. e.token \in 1..issued' /\ e.token # n
        BY <1>2, <1>3, <4>1
      <4> QED
        BY <1>1, <1>2, <1>6, <1>7, <4>1, <4>2
    <3> QED
      BY <1>7, <3>1, <3>2
  <2> QED
    BY <2>1, <2>2 DEF NpmjsStored
<1>11. \A t \in good' \ lost' :
          \/ \E e \in store' : e.tier = "session" /\ e.token = t
          \/ t \in good \ lost /\ ~ \E e \in store : e.tier = "session" /\ e.token = t
  BY <1>2, <1>7
<1> QED
  BY <1>2, <1>4, <1>5, <1>8, <1>9, <1>10, <1>11, NpmjsStep

LEMMA NpmjsWebLogin ==
    ASSUME NpmjsInv, NEW p \in Processes, Npmjs!WebLogin(p)
    PROVE  NpmjsInv'
<1> DEFINE n == issued + 1
           old == Npmjs!SessionIn(store)
           new == [tier |-> "session", token |-> n]
           d == retired[p] \cup old
<1>1. /\ pc[p] = "web-login" /\ issued' = n /\ good' = good \cup {n} /\ Reply(p, NoToken)
      /\ store' = {e \in store : e.tier # "session"} \cup {new}
      /\ ended' = ended \cup old /\ lost' = lost \cup old /\ reserved' = reserved \cup {n}
      /\ UNCHANGED memory /\ retired' = [retired EXCEPT ![p] = d]
  BY NpmjsShared DEF Npmjs!WebLogin, Npmjs!New, Npmjs!IssuesSession, Npmjs!Issue
<1>2. n \in Nat /\ n > issued /\ n \in 1..n /\ issued \in Nat /\ n \notin 1..issued
  BY NpmjsTypes
<1>3. /\ OthersWait(p) /\ pc'[p] = "idle" /\ answer'[p].token = 0 /\ ~ answer'[p].write
  BY <1>1, Replies, NoTokenInIt, NothingWritten, NpmjsTypes DEF Turned
<1>4. PICK m : Holds(p, m)
  BY <1>1, NpmjsTypes
<1>5. new \in NpmjsEntries /\ new.token = n /\ new.tier = "session"
  BY <1>2 DEF NpmjsEntries, Npmjs!Tiers
<1>6. \A t : t \in old <=> \E e \in store : e.tier = "session" /\ e.token = t
  BY NpmjsSessions
<1> HIDE DEF n, new, old, d
<1>30. Drops(p, d)
  BY <1>1, NpmjsTypes
<1>7. old \subseteq good /\ old \subseteq 1..issued
  BY <1>6, NpmjsTypes DEF NpmjsInv, NpmjsStored
<1>8. /\ good' \subseteq 1..issued' /\ ended' \subseteq 1..issued' /\ issued' \in Nat /\ issued' >= issued
      /\ d \subseteq ended' /\ d \subseteq 0..issued /\ ended \subseteq ended'
      /\ n \notin good /\ n \notin ended /\ n \notin old
  <2>1. /\ good \subseteq 1..issued /\ ended \subseteq 1..issued /\ retired[p] \subseteq ended
        /\ retired[p] \subseteq 0..issued
    BY NpmjsTypes
  <2>2. good' \subseteq 1..issued'
    BY <1>1, <1>2, <2>1, MoreIssued
  <2>3. ended' \subseteq 1..issued'
    BY <1>1, <1>2, <1>7, <2>1
  <2>4. d \subseteq ended' /\ d \subseteq 0..issued
    <3>1. old \subseteq 0..issued
      BY <1>2, <1>7
    <3>2. ended' = ended \cup old
      BY <1>1
    <3> QED
      BY <2>1, <3>1, <3>2 DEF d
  <2> QED
    BY <1>1, <1>2, <1>7, <2>1, <2>2, <2>3, <2>4
<1>9. reserved' \subseteq reserved \cup ((issued + 1)..issued')
  BY <1>1, <1>2, NpmjsTypes DEF n
<1>10. NpmjsStored'
  <2>1. store' \subseteq NpmjsEntries
    BY <1>1, <1>5 DEF NpmjsInv, NpmjsStored
  <2>2. ASSUME NEW e \in store'
        PROVE  /\ e.token \in 1..issued' /\ e.token \notin ended'
               /\ e.token \in good' <=> e.tier = "session"
               /\ e.tier \in {"read", "stage-read"} => e.token \notin reserved'
               /\ \A f \in store' : e.tier = "session" /\ f.tier = "session" => e.token = f.token
    <3>1. CASE e = new
      BY <1>1, <1>2, <1>5, <1>8, <3>1
    <3>2. CASE e \in store /\ e.tier # "session"
      <4>1. /\ e.token \in 1..issued /\ e.token \notin ended /\ e.token \notin good
            /\ e.tier \in {"read", "stage-read"} => e.token \notin reserved
        BY <3>2 DEF NpmjsInv, NpmjsStored
      <4>2. e.token \in 1..issued' /\ e.token # n /\ e.token \notin old
        BY <1>1, <1>2, <1>7, <4>1
      <4> QED
        BY <1>1, <3>2, <4>1, <4>2
    <3> QED
      BY <1>1, <3>1, <3>2
  <2> QED
    BY <2>1, <2>2 DEF NpmjsStored
<1>11. \A t \in good' \ lost' :
          \/ \E e \in store' : e.tier = "session" /\ e.token = t
          \/ t \in good \ lost /\ ~ \E e \in store : e.tier = "session" /\ e.token = t
  <2>1. SUFFICES ASSUME NEW t, t \in good', t \notin lost'
                 PROVE  \/ \E e \in store' : e.tier = "session" /\ e.token = t
                        \/ t \in good \ lost /\ ~ \E e \in store : e.tier = "session" /\ e.token = t
    OBVIOUS
  <2>2. CASE t = n
    BY <1>1, <1>5, <2>2
  <2>3. CASE t # n
    BY <1>1, <1>6, <2>1, <2>3
  <2> QED
    BY <2>2, <2>3
<1> QED
  BY <1>1, <1>3, <1>30, <1>4, <1>8, <1>9, <1>10, <1>11, NpmjsStep

LEMMA NpmjsLogout ==
    ASSUME NpmjsInv, NEW p \in Processes, NEW r, Npmjs!Logout(p, r)
    PROVE  NpmjsInv'
<1> DEFINE sessions == Npmjs!SessionIn(store)
           tokens == {e.token : e \in store}
           d == retired[p] \cup tokens
<1>1. /\ IF store = {} THEN AtOnce(p, r, Failed("not-found"))
         ELSE IF sessions = {} THEN AtOnce(p, r, NoToken)
         ELSE \E t \in sessions : Begin(p, r, "revoke", Npmjs!Begun("access", [tier |-> "session", token |-> t]))
      /\ ended' = ended \cup tokens /\ retired' = [retired EXCEPT ![p] = d] /\ store' = {}
      /\ UNCHANGED <<good, issued, memory, reserved, lost>>
  BY NpmjsShared DEF Npmjs!Logout, Npmjs!service
<1>2. \A t : t \in sessions <=> \E e \in store : e.tier = "session" /\ e.token = t
  BY NpmjsSessions
<1>3. tokens \subseteq 1..issued
  BY DEF NpmjsInv, NpmjsStored
<1>4. sessions \subseteq tokens
  BY <1>2
<1> HIDE DEF sessions, tokens
<1>5. d \subseteq ended' /\ d \subseteq 0..issued /\ ended' \subseteq 1..issued' /\ ended \subseteq ended'
  <2>1. /\ retired[p] \subseteq ended /\ retired[p] \subseteq 0..issued /\ ended \subseteq 1..issued
        /\ issued \in Nat
    BY NpmjsTypes
  <2>2. tokens \subseteq 0..issued
    BY <1>3, <2>1
  <2> QED
    BY <1>1, <1>3, <2>1, <2>2
<1> HIDE DEF d
<1>6. Drops(p, d) /\ issued' \in Nat /\ issued' >= issued /\ good' \subseteq 1..issued'
  <2>1. Drops(p, d)
    BY <1>1, NpmjsTypes
  <2>2. issued \in Nat /\ good \subseteq 1..issued
    BY NpmjsTypes
  <2> QED
    BY <1>1, <2>1, <2>2
<1>7. PICK m : Holds(p, m)
  BY <1>1, NpmjsTypes
<1>8. NpmjsStored'
  BY <1>1 DEF NpmjsStored
<1>9. CASE sessions = {}
  <2>1. AtOnce(p, r, Failed("not-found")) \/ AtOnce(p, r, NoToken)
    BY <1>1, <1>9
  <2>2. /\ OthersWait(p) /\ pc'[p] = "idle" /\ answer'[p].token = 0 /\ pc[p] = "idle"
        /\ ~ answer'[p].write
    BY <2>1, AnsweredAtOnce, NoTokenInIt, NothingWritten, NpmjsTypes DEF Turned
  <2>3. \A t \in good' \ lost' : t \in good \ lost /\ ~ \E e \in store : e.tier = "session" /\ e.token = t
    BY <1>1, <1>2, <1>9
  <2> QED
    BY <1>1, <1>5, <1>6, <1>7, <1>8, <2>2, <2>3, NpmjsStep
<1>10. CASE sessions # {}
  <2>1. store # {}
    BY <1>2, <1>10
  <2>2. PICK s \in sessions : Begin(p, r, "revoke", Npmjs!Begun("access", [tier |-> "session", token |-> s]))
    BY <1>1, <1>10, <2>1
  <2> DEFINE values == Npmjs!Begun("access", [tier |-> "session", token |-> s])
  <2>3. values \in NpmjsLocal /\ values.entry.token = s
    <3>1. s \in Nat
      BY <1>3, <1>4
    <3> QED
      BY <3>1 DEF Npmjs!Begun, NpmjsLocal, NpmjsEntries, Npmjs!Operations, Npmjs!Tiers
  <2>4. Begin(p, r, "revoke", values)
    BY <2>2
  <2> HIDE DEF values
  <2>5. /\ OthersWait(p) /\ pc'[p] = "revoke" /\ answer'[p].token = 0 /\ pc[p] = "idle"
        /\ local'[p] = values /\ ~ answer'[p].write
    BY <2>4, Begins, Asking, NpmjsTypes DEF Turned
  <2>6. local'[p] \in NpmjsLocal /\ local'[p].entry.token \in ended'
    BY <1>1, <1>4, <2>3, <2>5
  <2>7. \A t \in good' \ lost' :
           \/ pc'[p] = "revoke" /\ local'[p].entry.token = t
           \/ t \in good \ lost /\ ~ \E e \in store : e.tier = "session" /\ e.token = t
    <3>1. SUFFICES ASSUME NEW e \in store, e.tier = "session"
                   PROVE  e.token = s
      BY <1>1, <2>3, <2>5
    <3>2. PICK f \in store : f.tier = "session" /\ f.token = s
      BY <1>2
    <3> QED
      BY <3>1, <3>2 DEF NpmjsInv, NpmjsStored
  <2> QED
    BY <1>1, <1>5, <1>6, <1>7, <1>8, <2>5, <2>6, <2>7, NpmjsStep
<1> QED
  BY <1>9, <1>10

(* A request ends, and the store is as before.                             *)
LEMMA NpmjsEnds ==
    ASSUME NpmjsInv, NEW p \in Processes, OthersWait(p), pc'[p] = "idle",
           answer'[p].token = 0, ~ answer'[p].write,
           \E m : Holds(p, m), NEW d, Drops(p, d), d \subseteq retired[p],
           UNCHANGED <<store, reserved, ended>>, issued' \in Nat, issued' >= issued,
           good' \subseteq good \cup ((issued + 1)..issued'), good \ ended \subseteq good',
           \A t \in good' \ lost' : t \in good \ lost /\ ~ (pc[p] = "revoke" /\ local[p].entry.token = t)
    PROVE  NpmjsInv'
<1>1. /\ issued \in Nat /\ good \subseteq 1..issued /\ ended \subseteq 1..issued /\ retired[p] \subseteq ended
      /\ retired[p] \subseteq 0..issued
  BY NpmjsTypes
<1>2. PICK m : Holds(p, m)
  OBVIOUS
<1>3. good' \subseteq 1..issued' /\ ended' \subseteq 1..issued' /\ d \subseteq ended' /\ d \subseteq 0..issued
  BY <1>1
<1>4. NpmjsStored'
  <2>1. ASSUME NEW e \in store
        PROVE  e.token \in 1..issued' /\ (e.token \in good' <=> e.tier = "session")
    <3>1. e.token \in 1..issued /\ e.token \notin ended /\ (e.token \in good <=> e.tier = "session")
      BY DEF NpmjsInv, NpmjsStored
    <3>2. e.token \in 1..issued' /\ e.token \notin (issued + 1)..issued'
      BY <1>1, <3>1
    <3> QED
      BY <3>1, <3>2
  <2> QED
    BY <2>1 DEF NpmjsInv, NpmjsStored
<1>5. \A t \in good' \ lost' :
          \/ \E e \in store' : e.tier = "session" /\ e.token = t
          \/ /\ t \in good \ lost /\ ~ \E e \in store : e.tier = "session" /\ e.token = t
             /\ ~ (pc[p] = "revoke" /\ local[p].entry.token = t)
  OBVIOUS
<1> QED
  BY <1>1, <1>2, <1>3, <1>4, <1>5, NpmjsStep

LEMMA NpmjsRevoke ==
    ASSUME NpmjsInv, NEW p \in Processes, Npmjs!Revoke(p)
    PROVE  NpmjsInv'
<1> DEFINE token == local[p].entry.token
<1>1. /\ pc[p] = "revoke" /\ Reply(p, NoToken)
      /\ UNCHANGED <<store, memory, reserved, retired, ended, issued>>
      /\ (good' = good \ {token} /\ lost' = lost) \/ (good' = good /\ lost' = lost \cup {token})
  BY NpmjsShared DEF Npmjs!Revoke, Npmjs!Deletes, Npmjs!service
<1>2. /\ OthersWait(p) /\ pc'[p] = "idle" /\ answer'[p].token = 0 /\ ~ answer'[p].write
      /\ (\E m : Holds(p, m)) /\ Drops(p, retired[p]) /\ issued' \in Nat /\ issued' >= issued
  BY <1>1, Replies, NoTokenInIt, NothingWritten, NpmjsTypes DEF Turned
<1>3. token \in ended
  BY <1>1, NpmjsTypes
<1>4. /\ good' \subseteq good \cup ((issued + 1)..issued') /\ good \ ended \subseteq good'
      /\ \A t \in good' \ lost' : t \in good \ lost /\ token # t
  BY <1>1, <1>3
<1> QED
  BY <1>1, <1>2, <1>4, NpmjsEnds

LEMMA NpmjsCallFails ==
    ASSUME NpmjsInv, NEW p \in Processes, Npmjs!CallFails(p)
    PROVE  NpmjsInv'
<1>1. /\ pc[p] \in {"paste", "web-login"} /\ Reply(p, Failed("other"))
      /\ UNCHANGED <<store, memory, reserved, retired, ended>>
      /\ \/ UNCHANGED <<good, issued, lost>>
         \/ issued' = issued + 1 /\ good' = good \cup {issued + 1} /\ lost' = lost \cup {issued + 1}
  BY NpmjsShared DEF Npmjs!CallFails, Npmjs!CallError, Npmjs!IssuesSession, Npmjs!Issue, Npmjs!New, Npmjs!service
<1>2. /\ OthersWait(p) /\ pc'[p] = "idle" /\ answer'[p].token = 0 /\ ~ answer'[p].write
      /\ (\E m : Holds(p, m)) /\ Drops(p, retired[p])
  BY <1>1, Replies, NoTokenInIt, NothingWritten, NpmjsTypes DEF Turned
<1>3. /\ issued' \in Nat /\ issued' >= issued /\ good \subseteq good'
      /\ good' \subseteq good \cup ((issued + 1)..issued')
      /\ \A t \in good' \ lost' : t \in good \ lost
  BY <1>1, NpmjsTypes
<1> QED
  BY <1>1, <1>2, <1>3, NpmjsEnds

LEMMA NpmjsStop ==
    ASSUME NpmjsInv, NEW p \in Processes, Npmjs!Stop(p)
    PROVE  NpmjsInv'
<1>1. /\ Restart(p, Npmjs!Nothing) /\ UNCHANGED <<store, reserved, ended, good, issued>>
      /\ lost' = IF pc[p] = "revoke" THEN lost \cup {local[p].entry.token} ELSE lost
  BY NpmjsShared DEF Npmjs!Stop, Npmjs!service
<1>2. /\ OthersWait(p) /\ pc'[p] = "idle" /\ answer'[p].token = 0 /\ ~ answer'[p].write
      /\ (\E m : Holds(p, m)) /\ Drops(p, {}) /\ issued' \in Nat /\ issued' >= issued
  BY <1>1, Restarts, Asking, NpmjsTypes DEF Turned
<1>3. \A t \in good' \ lost' : t \in good \ lost /\ ~ (pc[p] = "revoke" /\ local[p].entry.token = t)
  BY <1>1
<1> QED
  BY <1>1, <1>2, <1>3, NpmjsEnds

(* It starts in its invariant.                                             *)
LEMMA NpmjsInit ==
    ASSUME Npmjs!Init
    PROVE  NpmjsInv
<1>1. PICK tiers \in {{}, {"session"}} :
        LET entries == {[tier |-> t, token |-> 1] : t \in tiers} IN
        Npmjs!ProcessInit(entries, Npmjs!Nothing, Npmjs!SessionIn(entries))
        /\ good = Npmjs!SessionIn(entries) /\ issued = 1
  BY DEF Npmjs!Init
<1> DEFINE entries == {[tier |-> t, token |-> 1] : t \in tiers}
<1>2. /\ store = entries /\ good = Npmjs!SessionIn(entries) /\ reserved = good /\ issued = 1
      /\ memory = [p \in Processes |-> Npmjs!Nothing] /\ retired = [p \in Processes |-> {}]
      /\ pc = [p \in Processes |-> "idle"] /\ local = [p \in Processes |-> 0]
      /\ req = [p \in Processes |-> NoRequest] /\ answer = [p \in Processes |-> NoToken]
      /\ asked = [p \in Processes |-> FALSE] /\ ended = {}
  BY <1>1 DEF Npmjs!ProcessInit, Npmjs!NoRequest, NoRequest, Npmjs!NoToken, NoToken
<1>3. \A e \in entries : e \in NpmjsEntries /\ e.tier = "session" /\ e.token = 1
  BY DEF NpmjsEntries, Npmjs!Tiers
<1> HIDE DEF entries
<1>4. \A t : t \in good <=> \E e \in entries : e.tier = "session" /\ e.token = t
  BY <1>2, NpmjsSessions
<1>5. good \subseteq {1} /\ good \subseteq 1..issued
  BY <1>2, <1>3, <1>4
<1>6. Shared
  BY <1>2, <1>5, SharedInit
<1>7. NpmjsStored
  BY <1>2, <1>3, <1>4 DEF NpmjsStored
<1>8. NpmjsKept
  BY <1>2, <1>4 DEF NpmjsKept
<1>9. \A p \in Processes : NpmjsProcess(p)
  BY <1>2, NothingWritten DEF NpmjsProcess, Yes
<1> QED
  BY <1>2, <1>5, <1>6, <1>7, <1>8, <1>9 DEF NpmjsInv

(* Every action keeps the invariant.                                       *)
LEMMA NpmjsNext ==
    ASSUME NpmjsInv, Npmjs!Next
    PROVE  NpmjsInv'
<1>1. PICK p \in Processes :
        \/ \E r \in Npmjs!Request : Npmjs!Get(p, r) \/ Npmjs!Erase(p, r) \/ Npmjs!Login(p, r) \/ Npmjs!Logout(p, r)
        \/ Npmjs!Whoami(p) \/ Npmjs!Confirm(p) \/ Npmjs!Pasted(p) \/ Npmjs!WebLogin(p)
        \/ Npmjs!Revoke(p) \/ Npmjs!CallFails(p) \/ Npmjs!Stop(p)
  BY DEF Npmjs!Next
<1>2. CASE \E r \in Npmjs!Request : Npmjs!Get(p, r) \/ Npmjs!Erase(p, r) \/ Npmjs!Login(p, r) \/ Npmjs!Logout(p, r)
  BY <1>2, NpmjsGet, NpmjsErase, NpmjsLogout
<1>3. CASE Npmjs!Whoami(p) \/ Npmjs!Confirm(p)
  BY <1>3, NpmjsConfirm
<1>4. CASE Npmjs!Pasted(p) \/ Npmjs!WebLogin(p)
  BY <1>4, NpmjsPasted, NpmjsWebLogin
<1>5. CASE Npmjs!Revoke(p) \/ Npmjs!CallFails(p) \/ Npmjs!Stop(p)
  BY <1>5, NpmjsRevoke, NpmjsCallFails, NpmjsStop
<1> QED
  BY <1>1, <1>2, <1>3, <1>4, <1>5

(* The invariant gives the properties.                                     *)
LEMMA NpmjsSafe ==
    ASSUME NpmjsInv
    PROVE  /\ RetiredNotGiven /\ ReleasedOnYes
           /\ Npmjs!NothingForgotten /\ Npmjs!RemovedStaysRemoved /\ Npmjs!StoredIsGood
<1> DEFINE sessions == Npmjs!SessionIn(store)
<1>1. \A t : t \in sessions <=> \E e \in store : e.tier = "session" /\ e.token = t
  BY NpmjsSessions
<1>2. RetiredNotGiven /\ ReleasedOnYes
  BY SharedSafe, YesSafe DEF NpmjsInv, NpmjsProcess
<1>3. Npmjs!NothingForgotten
  <2>1. SUFFICES ASSUME NEW t \in good \ lost, t \notin sessions
                 PROVE  \E p \in {q \in Processes : pc[q] = "revoke"} : local[p].entry.token = t
    BY DEF Npmjs!NothingForgotten
  <2> QED
    BY <1>1, <2>1 DEF NpmjsInv, NpmjsKept
<1>4. \A s \in sessions, t \in sessions : s = t
  BY <1>1 DEF NpmjsInv, NpmjsStored
<1>5. Npmjs!StoredIsGood
  BY <1>1 DEF NpmjsInv, NpmjsStored, Npmjs!StoredIsGood
<1>6. Npmjs!Cardinality(sessions) <= 1
  <2>1. \A S : Npmjs!Cardinality(S) = Cardinality(S)
    BY DEF Npmjs!Cardinality, Cardinality
  <2> HIDE DEF sessions
  <2>2. CASE sessions = {}
    BY <2>1, <2>2, FS_EmptySet
  <2>3. ASSUME NEW t \in sessions
        PROVE  Cardinality(sessions) = 1
    <3>1. sessions = {t}
      BY <1>4
    <3> QED
      BY <3>1, FS_Singleton
  <2> QED
    BY <2>1, <2>2, <2>3
<1>7. {e.token : e \in store} \cap ended = {}
  BY DEF NpmjsInv, NpmjsStored
<1> QED
  BY <1>2, <1>3, <1>5, <1>6, <1>7 DEF Npmjs!RemovedStaysRemoved

-----------------------------------------------------------------------------
(* Verdaccio.                                                              *)

VerdaccioCopies  == [Verdaccio!Tiers -> Nat]
VerdaccioAccount == [named : BOOLEAN, tokens : VerdaccioCopies]
VerdaccioLocal ==
    [token : Nat, previous : VerdaccioAccount, minted : VerdaccioCopies, left : SUBSET Nat]

(* What is stored, or was removed from the store.                          *)
VerdaccioSeen(t) == t = 0 \/ t \in ended \/ \E u \in Verdaccio!Tiers : store.tokens[u] = t

(* A process may hand out what it has seen there, until it is told not to. *)
VerdaccioFree(p, t) == VerdaccioSeen(t) /\ t \notin retired[p] \ {0}

VerdaccioHolding(p, m) ==
    m \in VerdaccioCopies /\ (\A u \in Verdaccio!Tiers : VerdaccioFree(p, m[u])) /\ m["read"] \notin reserved

(* An account that was read: a token that the user brought is not one that *)
(* the registry generated.                                                 *)
VerdaccioRead(a) ==
    /\ a \in VerdaccioAccount /\ \A u \in Verdaccio!Tiers : VerdaccioSeen(a.tokens[u])
    /\ ~a.named => \A u \in Verdaccio!Tiers : a.tokens[u] \notin good

VerdaccioValues(p, v) == v \in VerdaccioLocal /\ VerdaccioFree(p, v.token) /\ VerdaccioRead(v.previous)

(* The tokens a login generates are nowhere but in its hand until it       *)
(* stores them, and by then what they replace is revoked or lost.          *)
VerdaccioMinting(p) ==
    /\ pc[p] \notin {"mint-full", "undo", "replace"} => local[p].minted = Verdaccio!NoCopy
    /\ pc[p] \in {"mint-full", "undo"} => local[p].minted["full"] = 0
    /\ pc[p] = "undo" => local[p].left = {local[p].minted["read"]}
    /\ pc[p] = "replace" => \A u \in Verdaccio!Tiers :
           local[p].previous.tokens[u] \in good \ lost => local[p].previous.tokens[u] \in local[p].left
    /\ local[p].minted["read"] \notin reserved
    /\ \A u \in Verdaccio!Tiers : \/ local[p].minted[u] = 0
                                  \/ local[p].minted[u] \in 1..issued /\ ~VerdaccioSeen(local[p].minted[u])

VerdaccioMints(p, t) == pc[p] # "idle" /\ t # 0 /\ \E u \in Verdaccio!Tiers : local[p].minted[u] = t

VerdaccioProcess(p) ==
    /\ retired[p] \subseteq ended \cup {0} /\ VerdaccioHolding(p, memory[p])
    /\ pc[p] # "idle" => VerdaccioValues(p, local[p]) /\ VerdaccioMinting(p)

VerdaccioStored ==
    /\ store \in VerdaccioAccount
    /\ \A u \in Verdaccio!Tiers :
           store.tokens[u] = 0 \/ (store.tokens[u] \in 1..issued /\ store.tokens[u] \notin ended)
    /\ store.tokens["read"] \notin reserved
    /\ ~store.named => \A u \in Verdaccio!Tiers : store.tokens[u] \notin good

VerdaccioHas(p, t) ==
    \/ pc[p] = "revoke" /\ t \in local[p].left
    \/ pc[p] \in {"mint-full", "undo", "replace"} /\ \E u \in Verdaccio!Tiers : local[p].minted[u] = t

VerdaccioKept ==
    \A t \in good \ lost :
        \/ \E u \in Verdaccio!Tiers : store.tokens[u] = t
        \/ \E p \in Processes : VerdaccioHas(p, t)

VerdaccioInv ==
    /\ Shared /\ VerdaccioStored /\ VerdaccioKept
    /\ good \subseteq 1..issued /\ ended \subseteq 1..issued
    /\ \A p \in Processes : VerdaccioProcess(p)
    /\ \A p \in Processes : \A q \in Processes \ {p} : \A t : ~ (VerdaccioMints(p, t) /\ VerdaccioMints(q, t))

VerdaccioAsks == \A p \in Processes : Yes(p)

(* The module's own copies of the shared operators are the operators.      *)
LEMMA VerdaccioShared ==
    /\ \A p, r, step, values : Verdaccio!Begin(p, r, step, values) <=> Begin(p, r, step, values)
    /\ \A p, r, a : Verdaccio!AtOnce(p, r, a) <=> AtOnce(p, r, a)
    /\ \A p, step, values : Verdaccio!GoOn(p, step, values) <=> GoOn(p, step, values)
    /\ \A p, a : Verdaccio!Reply(p, a) <=> Reply(p, a)
    /\ \A p, fresh : Verdaccio!Restart(p, fresh) <=> Restart(p, fresh)
    /\ \A what : Verdaccio!Failed(what) = Failed(what)
    /\ Verdaccio!NoToken = NoToken
BY DEF Verdaccio!Begin, Begin, Verdaccio!AtOnce, AtOnce, Verdaccio!Take, Take, Verdaccio!GoOn, GoOn,
       Verdaccio!Reply, Reply, Verdaccio!Restart, Restart, Verdaccio!NoRequest, NoRequest,
       Verdaccio!NoToken, NoToken, Verdaccio!Failed, Failed, Verdaccio!Asked, Asked

LEMMA VerdaccioSeenIssued ==
    ASSUME VerdaccioInv, NEW t, VerdaccioSeen(t)
    PROVE  t \in 0..issued
<1>1. issued \in Nat /\ ended \subseteq 1..issued
  BY DEF VerdaccioInv, Shared, Shape
<1>2. CASE t = 0
  BY <1>1, <1>2
<1>3. CASE t \in ended
  BY <1>1, <1>3
<1>4. ASSUME NEW u \in Verdaccio!Tiers, store.tokens[u] = t, t # 0
      PROVE  t \in 0..issued
  <2>1. t \in 1..issued
    BY <1>4 DEF VerdaccioInv, VerdaccioStored
  <2> QED
    BY <1>1, <2>1
<1> QED
  BY <1>2, <1>3, <1>4 DEF VerdaccioSeen

(* The parts of a step that are the same for all of them.                  *)
LEMMA VerdaccioStep ==
    ASSUME VerdaccioInv, NEW p \in Processes, OthersWait(p), NEW m, Holds(p, m),
           NEW d, Drops(p, d), d \subseteq 0..issued,
           issued' \in Nat, issued' >= issued, good' \subseteq 1..issued', ended' \subseteq 1..issued',
           reserved' \subseteq reserved \cup ((issued + 1)..issued'),
           good' \subseteq good \cup ((issued + 1)..issued'), lost \subseteq lost', ended \subseteq ended',
           \/ answer'[p].token = 0
           \/ /\ pc'[p] = "idle" /\ answer'[p].token \in 0..issued' /\ answer'[p].token \notin d
              /\ answer'[p].token \in reserved' => answer'[p].asked,
           VerdaccioStored', VerdaccioProcess(p)',
           \A t : VerdaccioSeen(t) => VerdaccioSeen(t)',
           \A t : VerdaccioSeen(t)' => VerdaccioSeen(t) \/ t \in (issued + 1)..issued' \/ VerdaccioMints(p, t),
           \A t : VerdaccioMints(p, t)' => VerdaccioMints(p, t) \/ t \in (issued + 1)..issued',
           \A t \in good' \ lost' :
               \/ \E u \in Verdaccio!Tiers : store'.tokens[u] = t
               \/ VerdaccioHas(p, t)'
               \/ /\ t \in good \ lost /\ ~ \E u \in Verdaccio!Tiers : store.tokens[u] = t
                  /\ ~ VerdaccioHas(p, t)
    PROVE  VerdaccioInv'
<1> DEFINE new == (issued + 1)..issued'
<1>1. Shared /\ issued \in Nat /\ d \subseteq 0..issued'
  BY DEF VerdaccioInv, Shared, Shape
<1>2. Shared'
  BY <1>1, SharedStep
<1>3. \A t \in 0..issued : t \notin new
  BY <1>1
<1> HIDE DEF new
<1>4. ASSUME NEW q \in Processes \ {p}
      PROVE  /\ pc'[q] = pc[q] /\ local'[q] = local[q] /\ memory'[q] = memory[q] /\ retired'[q] = retired[q]
             /\ VerdaccioProcess(q)
  BY DEF OthersWait, Holds, Drops, VerdaccioInv
<1>5. ASSUME NEW q \in Processes \ {p}, NEW t
      PROVE  /\ VerdaccioMints(q, t)' <=> VerdaccioMints(q, t)
             /\ VerdaccioHas(q, t)' <=> VerdaccioHas(q, t)
             /\ VerdaccioMints(q, t) => t \in 1..issued /\ ~VerdaccioSeen(t) /\ ~VerdaccioMints(p, t)
  <2>1. (VerdaccioMints(q, t)' <=> VerdaccioMints(q, t)) /\ (VerdaccioHas(q, t)' <=> VerdaccioHas(q, t))
    BY <1>4 DEF VerdaccioMints, VerdaccioHas
  <2>2. VerdaccioMints(q, t) => t \in 1..issued /\ ~VerdaccioSeen(t)
    BY <1>4 DEF VerdaccioMints, VerdaccioProcess, VerdaccioMinting
  <2>3. VerdaccioMints(q, t) => ~VerdaccioMints(p, t)
    BY DEF VerdaccioInv
  <2> QED
    BY <2>1, <2>2, <2>3
<1>6. VerdaccioKept'
  <2>1. SUFFICES ASSUME NEW t \in good' \ lost', ~ \E u \in Verdaccio!Tiers : store'.tokens[u] = t,
                        ~ VerdaccioHas(p, t)'
                 PROVE  \E q \in Processes : VerdaccioHas(q, t)'
    BY DEF VerdaccioKept
  <2>2. PICK q \in Processes \ {p} : VerdaccioHas(q, t)
    BY <2>1 DEF VerdaccioInv, VerdaccioKept
  <2> QED
    BY <2>2, <1>5
<1>7. ASSUME NEW q \in Processes \ {p}, NEW t
      PROVE  ~ (VerdaccioMints(p, t)' /\ VerdaccioMints(q, t)')
  <2>1. SUFFICES ASSUME VerdaccioMints(q, t)
                 PROVE  ~VerdaccioMints(p, t)'
    BY <1>5
  <2>2. t \in 0..issued /\ ~VerdaccioMints(p, t)
    BY <1>1, <1>5, <2>1
  <2> QED
    BY <1>3, <2>2 DEF new
<1>8. \A q \in Processes : \A r \in Processes \ {q} : \A t : ~ (VerdaccioMints(q, t)' /\ VerdaccioMints(r, t)')
  <2>1. SUFFICES ASSUME NEW q \in Processes, NEW r \in Processes \ {q}, NEW t,
                        VerdaccioMints(q, t)', VerdaccioMints(r, t)'
                 PROVE  FALSE
    OBVIOUS
  <2>2. CASE q = p \/ r = p
    BY <1>7, <2>1, <2>2
  <2>3. CASE q # p /\ r # p
    BY <1>5, <2>1, <2>3 DEF VerdaccioInv
  <2> QED
    BY <2>2, <2>3
<1>9. ASSUME NEW q \in Processes \ {p}
      PROVE  VerdaccioProcess(q)'
  <2>1. /\ VerdaccioProcess(q) /\ pc'[q] = pc[q] /\ local'[q] = local[q] /\ memory'[q] = memory[q]
        /\ retired'[q] = retired[q]
    BY <1>4
  <2>2. ASSUME NEW t, VerdaccioSeen(t)
        PROVE  /\ VerdaccioSeen(t)' /\ (t \in reserved' => t \in reserved) /\ (t \in good' => t \in good)
               /\ (VerdaccioFree(q, t) => VerdaccioFree(q, t)')
    <3>1. t \in 0..issued /\ VerdaccioSeen(t)'
      BY <2>2, VerdaccioSeenIssued
    <3>2. t \notin new
      BY <1>3, <3>1
    <3> QED
      BY <2>1, <3>1, <3>2 DEF VerdaccioFree, new
  <2>3. VerdaccioHolding(q, memory[q])'
    <3>1. "read" \in Verdaccio!Tiers
      BY DEF Verdaccio!Tiers
    <3> QED
      BY <2>1, <2>2, <3>1 DEF VerdaccioProcess, VerdaccioHolding, VerdaccioFree
  <2>4. ASSUME pc[q] # "idle"
        PROVE  VerdaccioValues(q, local[q])' /\ VerdaccioMinting(q)'
    <3>0. PICK v : v = local[q]
      OBVIOUS
    <3>1. VerdaccioValues(q, v) /\ VerdaccioMinting(q) /\ v = local[q] /\ v = local'[q]
      BY <2>1, <2>4, <3>0 DEF VerdaccioProcess
    <3>2. VerdaccioFree(q, v.token)'
      BY <2>1, <2>2, <3>1 DEF VerdaccioValues, VerdaccioFree
    <3>3. \A u \in Verdaccio!Tiers :
            /\ VerdaccioSeen(v.previous.tokens[u])
            /\ VerdaccioSeen(v.previous.tokens[u])'
            /\ v.previous.tokens[u] \in good' => v.previous.tokens[u] \in good
      BY <2>2, <3>1 DEF VerdaccioValues, VerdaccioRead
    <3>4. VerdaccioRead(v.previous)'
      BY <2>1, <3>1, <3>3 DEF VerdaccioValues, VerdaccioRead
    <3>5. VerdaccioValues(q, local[q])'
      BY <2>1, <3>1, <3>2, <3>4 DEF VerdaccioValues
    <3>6. ASSUME NEW u \in Verdaccio!Tiers, v.minted[u] # 0
          PROVE  /\ v.minted[u] \in 1..issued' /\ v.minted[u] \notin new
                 /\ ~VerdaccioSeen(v.minted[u])'
      <4>0. PICK t : t = v.minted[u]
        OBVIOUS
      <4>1. VerdaccioMints(q, t)
        BY <2>4, <3>1, <3>6, <4>0 DEF VerdaccioMints
      <4>2. t \in 1..issued /\ ~VerdaccioSeen(t) /\ ~VerdaccioMints(p, t)
        BY <1>5, <4>1
      <4>3. t \in 1..issued' /\ t \in 0..issued
        BY <1>1, <4>2
      <4>4. t \notin new
        BY <1>3, <4>3
      <4>5. ~VerdaccioSeen(t)'
        BY <4>2, <4>4 DEF new
      <4> QED
        BY <4>0, <4>3, <4>4, <4>5
    <3>7. v.minted["read"] \notin reserved'
      <4>1. "read" \in Verdaccio!Tiers /\ v.minted["read"] \notin reserved
        BY <3>1 DEF Verdaccio!Tiers, VerdaccioMinting
      <4>2. 0 \notin new
        BY <1>1, <1>3
      <4> QED
        BY <3>6, <4>1, <4>2 DEF new
    <3>8. pc[q] = "replace" => \A u \in Verdaccio!Tiers :
            v.previous.tokens[u] \in good' \ lost' => v.previous.tokens[u] \in v.left
      BY <3>1, <3>3 DEF VerdaccioMinting
    <3>9. VerdaccioMinting(q)'
      BY <2>1, <3>1, <3>6, <3>7, <3>8 DEF VerdaccioMinting
    <3> QED
      BY <3>5, <3>9
  <2>5. retired'[q] \subseteq ended' \cup {0}
    BY <2>1 DEF VerdaccioProcess
  <2> QED
    BY <2>1, <2>3, <2>4, <2>5 DEF VerdaccioProcess
<1> QED
  BY <1>2, <1>6, <1>8, <1>9 DEF VerdaccioInv

(* What the invariant says for a step of p: types, and how memory and      *)
(* drops go.                                                               *)
LEMMA VerdaccioTypes ==
    ASSUME VerdaccioInv, NEW p \in Processes
    PROVE  /\ Shape /\ Answered /\ issued \in Nat /\ good \subseteq 1..issued /\ ended \subseteq 1..issued
           /\ reserved \subseteq 1..issued /\ retired[p] \subseteq ended \cup {0} /\ retired[p] \subseteq 0..issued
           /\ VerdaccioHolding(p, memory[p])
           /\ "read" \in Verdaccio!Tiers /\ "full" \in Verdaccio!Tiers
           /\ UNCHANGED memory => Holds(p, memory[p])
           /\ \A m : memory' = [memory EXCEPT ![p] = m] => Holds(p, m)
           /\ UNCHANGED retired => Drops(p, retired[p])
           /\ \A d : retired' = [retired EXCEPT ![p] = d] => Drops(p, d)
           /\ pc[p] # "idle" => VerdaccioValues(p, local[p]) /\ VerdaccioMinting(p) /\ answer[p].token = 0
<1>1. /\ Shared /\ Shape /\ Answered /\ issued \in Nat /\ VerdaccioProcess(p) /\ Dropped(p)
      /\ good \subseteq 1..issued /\ ended \subseteq 1..issued
  BY DEF VerdaccioInv, Shared, Shape
<1>2. /\ UNCHANGED memory => Holds(p, memory[p])
      /\ \A m : memory' = [memory EXCEPT ![p] = m] => Holds(p, m)
      /\ UNCHANGED retired => Drops(p, retired[p])
      /\ \A d : retired' = [retired EXCEPT ![p] = d] => Drops(p, d)
  BY <1>1, HoldsThis, DropsThis
<1>3. "read" \in Verdaccio!Tiers /\ "full" \in Verdaccio!Tiers
  BY DEF Verdaccio!Tiers
<1>4. reserved \subseteq 1..issued /\ (pc[p] # "idle" => answer[p].token = 0)
  BY <1>1 DEF Answered, AnswerAsked
<1> QED
  BY <1>1, <1>2, <1>3, <1>4 DEF VerdaccioProcess, Dropped

LEMMA VerdaccioStoredSeen ==
    ASSUME VerdaccioInv, NEW p \in Processes
    PROVE  /\ \A u \in Verdaccio!Tiers : VerdaccioFree(p, store.tokens[u])
           /\ VerdaccioRead(store) /\ store \in VerdaccioAccount
           /\ VerdaccioSeen(0) /\ VerdaccioFree(p, 0) /\ store.tokens["read"] \notin reserved
<1>1. \A u \in Verdaccio!Tiers : VerdaccioSeen(store.tokens[u])
  BY DEF VerdaccioSeen
<1>2. \A u \in Verdaccio!Tiers : store.tokens[u] = 0 \/ store.tokens[u] \notin ended
  BY DEF VerdaccioInv, VerdaccioStored
<1>3. retired[p] \subseteq ended \cup {0}
  BY DEF VerdaccioInv, VerdaccioProcess
<1>4. store \in VerdaccioAccount /\ (~store.named => \A u \in Verdaccio!Tiers : store.tokens[u] \notin good)
      /\ store.tokens["read"] \notin reserved
  BY DEF VerdaccioInv, VerdaccioStored
<1>5. VerdaccioSeen(0) /\ VerdaccioFree(p, 0)
  BY DEF VerdaccioSeen, VerdaccioFree
<1> QED
  BY <1>1, <1>2, <1>3, <1>4, <1>5 DEF VerdaccioFree, VerdaccioRead

-----------------------------------------------------------------------------
(* A request that comes, goes on or is answered, and leaves the store and  *)
(* the registry alone.                                                     *)

VerdaccioEarly == {"idle", "retry", "whoami", "confirm", "password", "mint-read"}

VerdaccioMayGo(p, a) ==
    a.token = 0 \/ (VerdaccioFree(p, a.token) /\ (a.token \in reserved => a.asked))

VerdaccioFresh(p, v) == VerdaccioValues(p, v) /\ v.minted = Verdaccio!NoCopy

VerdaccioTurn(p) ==
    /\ pc[p] \in VerdaccioEarly /\ OthersWait(p) /\ pc'[p] \in VerdaccioEarly
    /\ \E m : Holds(p, m) /\ VerdaccioHolding(p, m)
    /\ pc'[p] # "idle" => VerdaccioFresh(p, local'[p])
    /\ answer'[p].token = 0 \/ (pc'[p] = "idle" /\ VerdaccioMayGo(p, answer'[p]))

(* A step that only moves a request on.                                    *)
LEMMA VerdaccioQuiet ==
    ASSUME VerdaccioInv, NEW p \in Processes, VerdaccioTurn(p), UNCHANGED <<store, good, issued, history>>
    PROVE  VerdaccioInv'
<1>1. PICK m : Holds(p, m) /\ VerdaccioHolding(p, m)
  BY DEF VerdaccioTurn
<1>2. /\ OthersWait(p) /\ Drops(p, retired[p]) /\ UNCHANGED <<reserved, retired, ended, lost>>
      /\ retired[p] \subseteq 0..issued /\ retired[p] \subseteq ended \cup {0}
      /\ issued' \in Nat /\ issued' >= issued /\ good' \subseteq 1..issued' /\ ended' \subseteq 1..issued'
  BY VerdaccioTypes DEF history, VerdaccioTurn
<1>3. \A t : (VerdaccioSeen(t)' <=> VerdaccioSeen(t)) /\ (VerdaccioFree(p, t)' <=> VerdaccioFree(p, t))
  BY <1>2 DEF VerdaccioSeen, VerdaccioFree
<1>4. \A t : VerdaccioFree(p, t) => t \in 0..issued
  BY VerdaccioSeenIssued DEF VerdaccioFree
<1>5. \/ answer'[p].token = 0
      \/ /\ pc'[p] = "idle" /\ answer'[p].token \in 0..issued' /\ answer'[p].token \notin retired[p]
         /\ answer'[p].token \in reserved' => answer'[p].asked
  BY <1>2, <1>4 DEF VerdaccioTurn, VerdaccioMayGo, VerdaccioFree
<1>6. VerdaccioStored'
  BY <1>2 DEF VerdaccioInv, VerdaccioStored
<1>7. /\ \A t : ~VerdaccioHas(p, t) /\ ~VerdaccioHas(p, t)'
      /\ \A t : ~VerdaccioMints(p, t)'
  <2>1. \A u \in Verdaccio!Tiers : Verdaccio!NoCopy[u] = 0
    BY DEF Verdaccio!NoCopy
  <2>2. \A t : ~VerdaccioHas(p, t) /\ ~VerdaccioHas(p, t)'
    BY DEF VerdaccioTurn, VerdaccioEarly, VerdaccioHas
  <2>3. \A t : ~VerdaccioMints(p, t)'
    BY <2>1 DEF VerdaccioTurn, VerdaccioFresh, VerdaccioMints
  <2> QED
    BY <2>2, <2>3
<1>8. VerdaccioProcess(p)'
  <2>1. VerdaccioHolding(p, memory[p])'
    BY <1>1, <1>2, <1>3 DEF VerdaccioHolding, Holds
  <2>2. ASSUME pc'[p] # "idle"
        PROVE  VerdaccioValues(p, local[p])' /\ VerdaccioMinting(p)'
    <3>1. PICK v : v = local'[p]
      OBVIOUS
    <3>2. VerdaccioValues(p, v) /\ v.minted = Verdaccio!NoCopy /\ pc'[p] \in VerdaccioEarly
      BY <2>2, <3>1 DEF VerdaccioTurn, VerdaccioFresh
    <3>3. VerdaccioRead(v.previous)'
      BY <1>2, <1>3, <3>2 DEF VerdaccioValues, VerdaccioRead
    <3>4. VerdaccioValues(p, v)'
      BY <1>3, <3>2, <3>3 DEF VerdaccioValues
    <3>5. \A u \in Verdaccio!Tiers : v.minted[u] = 0
      BY <3>2 DEF Verdaccio!NoCopy
    <3>6. 0 \notin reserved' /\ "read" \in Verdaccio!Tiers
      BY <1>2, VerdaccioTypes
    <3>7. VerdaccioMinting(p)'
      BY <3>1, <3>2, <3>5, <3>6 DEF VerdaccioMinting, VerdaccioEarly
    <3> QED
      BY <3>1, <3>4, <3>7
  <2> QED
    BY <1>2, <2>1, <2>2 DEF VerdaccioProcess
<1>9. \A t \in good' \ lost' :
          \/ \E u \in Verdaccio!Tiers : store'.tokens[u] = t
          \/ t \in good \ lost /\ ~ \E u \in Verdaccio!Tiers : store.tokens[u] = t
  BY <1>2
<1>10. good' \subseteq good \cup ((issued + 1)..issued') /\ lost \subseteq lost' /\ ended \subseteq ended'
       /\ reserved' \subseteq reserved \cup ((issued + 1)..issued')
  BY <1>2
<1> QED
  BY <1>1, <1>2, <1>3, <1>5, <1>6, <1>7, <1>8, <1>9, <1>10, VerdaccioStep

(* A request that is answered, at its start or after an await.             *)
LEMMA VerdaccioAnswers ==
    ASSUME VerdaccioInv, NEW p \in Processes, pc[p] \in VerdaccioEarly, NEW r, NEW a, VerdaccioMayGo(p, a),
           \E m : Holds(p, m) /\ VerdaccioHolding(p, m),
           Verdaccio!AtOnce(p, r, a) \/ Verdaccio!Reply(p, a) \/ Verdaccio!Answers(p, r, a)
    PROVE  VerdaccioTurn(p)
<1>1. AtOnce(p, r, a) \/ Reply(p, a)
  BY VerdaccioShared DEF Verdaccio!Answers
<1>2. OthersWait(p) /\ pc'[p] = "idle" /\ answer'[p] = a
  BY <1>1, VerdaccioTypes, AnsweredAtOnce, Replies DEF Turned
<1>3. "idle" \in VerdaccioEarly
  BY DEF VerdaccioEarly
<1> QED
  BY <1>2, <1>3 DEF VerdaccioTurn

(* A request that awaits what comes next, at its start or after an await.  *)
LEMMA VerdaccioAwaits ==
    ASSUME VerdaccioInv, NEW p \in Processes, pc[p] \in VerdaccioEarly, NEW r,
           NEW step \in VerdaccioEarly \ {"idle"}, NEW v, VerdaccioFresh(p, v),
           \E m : Holds(p, m) /\ VerdaccioHolding(p, m),
           \/ Verdaccio!Begin(p, r, step, v) \/ Verdaccio!Awaits(p, r, step, v)
           \/ (pc[p] # "idle" /\ Verdaccio!GoOn(p, step, v))
    PROVE  VerdaccioTurn(p)
<1>1. Begin(p, r, step, v) \/ (pc[p] # "idle" /\ GoOn(p, step, v))
  BY VerdaccioShared DEF Verdaccio!Awaits
<1>2. OthersWait(p) /\ pc'[p] = step /\ local'[p] = v /\ answer'[p].token = 0
  <2>1. CASE Begin(p, r, step, v)
    BY <2>1, VerdaccioTypes, Begins DEF Turned
  <2>2. CASE pc[p] # "idle" /\ GoOn(p, step, v)
    BY <2>2, VerdaccioTypes, GoesOn DEF Turned
  <2> QED
    BY <1>1, <2>1, <2>2
<1> QED
  BY <1>2 DEF VerdaccioTurn

(* Its empty answers carry no token.                                       *)
LEMMA VerdaccioNothing ==
    ASSUME NEW p
    PROVE  VerdaccioMayGo(p, Verdaccio!NoToken) /\ \A what : VerdaccioMayGo(p, Verdaccio!Failed(what))
BY NoTokenInIt, VerdaccioShared DEF VerdaccioMayGo

LEMMA VerdaccioReleases ==
    ASSUME VerdaccioInv, NEW p \in Processes, pc[p] \in VerdaccioEarly, NEW r, NEW a,
           VerdaccioFree(p, a.token), a.token \in reserved => a.asked,
           \E m : Holds(p, m) /\ VerdaccioHolding(p, m),
           Verdaccio!Answers(p, r, a) \/ Verdaccio!Answers(p, r, Verdaccio!Failed("other"))
    PROVE  VerdaccioTurn(p)
<1>1. VerdaccioMayGo(p, a)
  BY DEF VerdaccioMayGo
<1> QED
  BY <1>1, VerdaccioNothing, VerdaccioAnswers

LEMMA VerdaccioTokenOf ==
    ASSUME VerdaccioInv, NEW p \in Processes, NEW tier \in Verdaccio!Tiers
    PROVE  /\ Verdaccio!TokenOf(p, tier) \in Nat /\ VerdaccioFree(p, Verdaccio!TokenOf(p, tier))
           /\ tier = "read" => Verdaccio!TokenOf(p, tier) \notin reserved
           /\ Verdaccio!Copy(p, tier) => \E m : Holds(p, m) /\ VerdaccioHolding(p, m)
<1> DEFINE t == Verdaccio!TokenOf(p, tier)
<1>1. t \in Nat /\ VerdaccioFree(p, t) /\ (tier = "read" => t \notin reserved)
  <2>1. CASE t = memory[p][tier]
    BY <2>1, VerdaccioTypes DEF VerdaccioHolding, VerdaccioCopies
  <2>2. CASE t = store.tokens[tier]
    BY <2>2, VerdaccioStoredSeen DEF VerdaccioAccount, VerdaccioCopies
  <2> QED
    BY <2>1, <2>2 DEF Verdaccio!TokenOf
<1>2. Verdaccio!Copy(p, tier) => memory' = [memory EXCEPT ![p] = [memory[p] EXCEPT ![tier] = t]]
  BY DEF Verdaccio!Copy
<1> HIDE DEF t
<1> DEFINE m == [memory[p] EXCEPT ![tier] = t]
<1>3. /\ m \in VerdaccioCopies /\ \A u \in Verdaccio!Tiers : m[u] = IF u = tier THEN t ELSE memory[p][u]
  BY <1>1, VerdaccioTypes DEF VerdaccioHolding, VerdaccioCopies
<1> HIDE DEF m
<1>4. VerdaccioHolding(p, m)
  BY <1>1, <1>3, VerdaccioTypes DEF VerdaccioHolding
<1>5. Verdaccio!Copy(p, tier) => Holds(p, m)
  BY <1>2, VerdaccioTypes DEF m
<1> QED
  BY <1>1, <1>4, <1>5 DEF t

(* What a request begins with is of the types, and may be handed out.      *)
LEMMA VerdaccioBegun ==
    ASSUME VerdaccioInv, NEW p \in Processes
    PROVE  /\ VerdaccioFresh(p, Verdaccio!Begun)
           /\ \A v, t : VerdaccioFresh(p, v) /\ t \in Nat /\ VerdaccioFree(p, t) =>
                            VerdaccioFresh(p, [v EXCEPT !.token = t])
           /\ \A v, tokens : VerdaccioFresh(p, v) /\ tokens \in SUBSET Nat =>
                            VerdaccioFresh(p, [v EXCEPT !.left = tokens])
<1>1. Verdaccio!NoCopy \in VerdaccioCopies
  BY DEF Verdaccio!NoCopy, VerdaccioCopies
<1>2. VerdaccioFresh(p, Verdaccio!Begun)
  BY <1>1, VerdaccioStoredSeen DEF Verdaccio!Begun, VerdaccioFresh, VerdaccioValues, VerdaccioLocal
<1>3. ASSUME NEW v, VerdaccioFresh(p, v), NEW t \in Nat, VerdaccioFree(p, t)
      PROVE  VerdaccioFresh(p, [v EXCEPT !.token = t])
  <2> DEFINE w == [v EXCEPT !.token = t]
  <2>1. w \in VerdaccioLocal /\ w.token = t /\ w.previous = v.previous /\ w.minted = v.minted
    BY <1>3 DEF VerdaccioFresh, VerdaccioValues, VerdaccioLocal
  <2> HIDE DEF w
  <2>2. VerdaccioFresh(p, w)
    BY <1>3, <2>1 DEF VerdaccioFresh, VerdaccioValues
  <2> QED
    BY <2>2 DEF w
<1>4. ASSUME NEW v, VerdaccioFresh(p, v), NEW tokens \in SUBSET Nat
      PROVE  VerdaccioFresh(p, [v EXCEPT !.left = tokens])
  <2> DEFINE w == [v EXCEPT !.left = tokens]
  <2>1. w \in VerdaccioLocal /\ w.token = v.token /\ w.previous = v.previous /\ w.minted = v.minted
    BY <1>4 DEF VerdaccioFresh, VerdaccioValues, VerdaccioLocal
  <2> HIDE DEF w
  <2>2. VerdaccioFresh(p, w)
    BY <1>4, <2>1 DEF VerdaccioFresh, VerdaccioValues
  <2> QED
    BY <2>2 DEF w
<1> QED
  BY <1>2, <1>3, <1>4

LEMMA VerdaccioServe ==
    ASSUME VerdaccioInv, NEW p \in Processes, pc[p] \in VerdaccioEarly, NEW r,
           NEW tier \in Verdaccio!Tiers, NEW values, VerdaccioFresh(p, values),
           Verdaccio!Copy(p, tier), Verdaccio!Serve(p, r, tier, values)
    PROVE  VerdaccioTurn(p)
<1>1. PICK token : token = Verdaccio!TokenOf(p, tier)
  OBVIOUS
<1>2. /\ token \in Nat /\ VerdaccioFree(p, token) /\ (tier = "read" => token \notin reserved)
      /\ \E m : Holds(p, m) /\ VerdaccioHolding(p, m)
  BY <1>1, VerdaccioTokenOf
<1>3. PICK v : v = [values EXCEPT !.token = token]
  OBVIOUS
<1>30. PICK a : a = Verdaccio!Gives(p, r, token, FALSE)
  OBVIOUS
<1>31. a.token = token
  BY <1>30 DEF Verdaccio!Gives
<1>4. \/ Verdaccio!Answers(p, r, Verdaccio!Failed("other"))
      \/ /\ tier = "read"
         /\ Verdaccio!Answers(p, r, a) \/ Verdaccio!Answers(p, r, Verdaccio!Failed("other"))
      \/ Verdaccio!Awaits(p, r, "confirm", v) \/ Verdaccio!Awaits(p, r, "whoami", v)
  BY <1>1, <1>3, <1>30 DEF Verdaccio!Serve, Verdaccio!Releases
<1>5. VerdaccioFresh(p, v)
  BY <1>2, <1>3, VerdaccioBegun
<1>6. CASE Verdaccio!Answers(p, r, Verdaccio!Failed("other"))
  BY <1>2, <1>6, VerdaccioNothing, VerdaccioAnswers
<1>7. CASE /\ tier = "read"
           /\ Verdaccio!Answers(p, r, a) \/ Verdaccio!Answers(p, r, Verdaccio!Failed("other"))
  BY <1>2, <1>31, <1>7, VerdaccioReleases
<1>8. ASSUME NEW step \in {"confirm", "whoami"}, Verdaccio!Awaits(p, r, step, v)
      PROVE  VerdaccioTurn(p)
  <2>1. step \in VerdaccioEarly \ {"idle"}
    BY DEF VerdaccioEarly
  <2> QED
    BY <1>2, <1>5, <1>8, <2>1, VerdaccioAwaits
<1> QED
  BY <1>4, <1>6, <1>7, <1>8

LEMMA VerdaccioGet ==
    ASSUME VerdaccioInv, NEW p \in Processes, NEW r, Verdaccio!Get(p, r)
    PROVE  VerdaccioInv'
<1>1. /\ UNCHANGED <<store, good, issued, history>> /\ pc[p] \in VerdaccioEarly
  BY DEF Verdaccio!Get, Verdaccio!service, Verdaccio!history, history, VerdaccioEarly
<1>2. PICK tier \in Verdaccio!Tiers :
        \/ (\E what : Verdaccio!AtOnce(p, r, Verdaccio!Failed(what))) /\ UNCHANGED memory
        \/ /\ Verdaccio!Copy(p, tier)
           /\ \/ Verdaccio!Begin(p, r, "retry", [Verdaccio!Begun EXCEPT !.token = Verdaccio!TokenOf(p, tier)])
              \/ Verdaccio!Serve(p, r, tier, Verdaccio!Begun)
  BY DEF Verdaccio!Get, Verdaccio!Tiers
<1>3. CASE (\E what : Verdaccio!AtOnce(p, r, Verdaccio!Failed(what))) /\ UNCHANGED memory
  <2>1. \E m : Holds(p, m) /\ VerdaccioHolding(p, m)
    BY <1>3, VerdaccioTypes
  <2> QED
    BY <1>1, <1>3, <2>1, VerdaccioNothing, VerdaccioAnswers, VerdaccioQuiet
<1>4. CASE /\ Verdaccio!Copy(p, tier)
           /\ Verdaccio!Begin(p, r, "retry", [Verdaccio!Begun EXCEPT !.token = Verdaccio!TokenOf(p, tier)])
  <2>1. PICK v : v = [Verdaccio!Begun EXCEPT !.token = Verdaccio!TokenOf(p, tier)]
    OBVIOUS
  <2>2. VerdaccioFresh(p, v) /\ \E m : Holds(p, m) /\ VerdaccioHolding(p, m)
    BY <1>4, <2>1, VerdaccioTokenOf, VerdaccioBegun
  <2>3. "retry" \in VerdaccioEarly \ {"idle"} /\ Verdaccio!Begin(p, r, "retry", v)
    BY <1>4, <2>1 DEF VerdaccioEarly
  <2> QED
    BY <1>1, <2>2, <2>3, VerdaccioAwaits, VerdaccioQuiet
<1>5. CASE Verdaccio!Copy(p, tier) /\ Verdaccio!Serve(p, r, tier, Verdaccio!Begun)
  BY <1>1, <1>5, VerdaccioBegun, VerdaccioServe, VerdaccioQuiet
<1> QED
  BY <1>2, <1>3, <1>4, <1>5

(* What is released past the prompt, or by the word of the configuration.  *)
LEMMA VerdaccioApproved ==
    ASSUME NEW p, Verdaccio!Approved(p)
    PROVE  \E a : /\ a.token = local[p].token /\ a.asked
                  /\ \/ Verdaccio!Answers(p, req[p], a)
                     \/ Verdaccio!Answers(p, req[p], Verdaccio!Failed("other"))
<1>1. PICK a : a = Verdaccio!Gives(p, req[p], local[p].token, pc[p] = "whoami")
  OBVIOUS
<1>2. a.token = local[p].token
  BY <1>1 DEF Verdaccio!Gives
<1>3. pc[p] \in {"whoami", "confirm"}
  BY DEF Verdaccio!Approved
<1>4. a.asked
  BY <1>1, <1>3 DEF Verdaccio!Gives, Verdaccio!Asked
<1> QED
  BY <1>1, <1>2, <1>4 DEF Verdaccio!Approved, Verdaccio!Releases

LEMMA VerdaccioRetryChecked ==
    ASSUME VerdaccioInv, NEW p \in Processes, Verdaccio!RetryChecked(p) \/ Verdaccio!Approved(p)
    PROVE  VerdaccioInv'
<1>1. /\ UNCHANGED <<store, good, issued, history>> /\ pc[p] \in {"retry", "whoami", "confirm"}
  BY DEF Verdaccio!RetryChecked, Verdaccio!Approved, Verdaccio!service, Verdaccio!history, history
<1>2. pc[p] \in VerdaccioEarly /\ VerdaccioFresh(p, local[p])
  BY <1>1, VerdaccioTypes DEF VerdaccioEarly, VerdaccioFresh, VerdaccioMinting
<1>3. CASE Verdaccio!RetryChecked(p)
  <2>1. CASE Verdaccio!Reply(p, Verdaccio!Failed("other")) /\ UNCHANGED memory
    <3>1. \E m : Holds(p, m) /\ VerdaccioHolding(p, m)
      BY <2>1, VerdaccioTypes
    <3> QED
      BY <1>1, <1>2, <2>1, <3>1, VerdaccioNothing, VerdaccioAnswers, VerdaccioQuiet
  <2>2. CASE Verdaccio!Copy(p, "full") /\ Verdaccio!Serve(p, req[p], "full", local[p])
    <3>1. "full" \in Verdaccio!Tiers
      BY VerdaccioTypes
    <3> QED
      BY <1>1, <1>2, <2>2, <3>1, VerdaccioServe, VerdaccioQuiet
  <2> QED
    BY <1>3, <2>1, <2>2 DEF Verdaccio!RetryChecked
<1>4. CASE Verdaccio!Approved(p)
  <2>1. VerdaccioFree(p, local[p].token) /\ \E m : Holds(p, m) /\ VerdaccioHolding(p, m)
    BY <1>2, <1>4, VerdaccioTypes DEF Verdaccio!Approved, VerdaccioFresh, VerdaccioValues
  <2>2. PICK a : /\ a.token = local[p].token /\ a.asked
                 /\ \/ Verdaccio!Answers(p, req[p], a)
                    \/ Verdaccio!Answers(p, req[p], Verdaccio!Failed("other"))
    BY <1>4, VerdaccioApproved
  <2> QED
    BY <1>1, <1>2, <2>1, <2>2, VerdaccioReleases, VerdaccioQuiet
<1> QED
  BY <1>3, <1>4

LEMMA VerdaccioErase ==
    ASSUME VerdaccioInv, NEW p \in Processes, NEW r, Verdaccio!Erase(p, r)
    PROVE  VerdaccioInv'
<1>1. /\ UNCHANGED <<store, good, issued, history>> /\ Verdaccio!AtOnce(p, r, Verdaccio!NoToken)
  BY DEF Verdaccio!Erase, Verdaccio!service, Verdaccio!history, history
<1>2. PICK tiers \in SUBSET Verdaccio!Tiers :
        memory' = [memory EXCEPT ![p] = [t \in Verdaccio!Tiers |-> IF t \in tiers THEN 0 ELSE @[t]]]
  BY DEF Verdaccio!Erase
<1> DEFINE m == [t \in Verdaccio!Tiers |-> IF t \in tiers THEN 0 ELSE memory[p][t]]
<1>3. memory' = [memory EXCEPT ![p] = m]
  BY <1>2
<1>4. m \in VerdaccioCopies /\ \A u \in Verdaccio!Tiers : m[u] = 0 \/ m[u] = memory[p][u]
  BY VerdaccioTypes DEF VerdaccioHolding, VerdaccioCopies
<1> HIDE DEF m
<1>5. 0 \notin reserved /\ "read" \in Verdaccio!Tiers /\ VerdaccioFree(p, 0)
  BY VerdaccioTypes, VerdaccioStoredSeen
<1>6. VerdaccioHolding(p, m) /\ Holds(p, m)
  BY <1>3, <1>4, <1>5, VerdaccioTypes DEF VerdaccioHolding
<1>7. pc[p] \in VerdaccioEarly
  BY <1>1, AnsweredAtOnce, VerdaccioShared, VerdaccioTypes DEF VerdaccioEarly
<1> QED
  BY <1>1, <1>6, <1>7, VerdaccioNothing, VerdaccioAnswers, VerdaccioQuiet

LEMMA VerdaccioLogin ==
    ASSUME VerdaccioInv, NEW p \in Processes, NEW r, Verdaccio!Login(p, r) \/ Verdaccio!LoggedIn(p)
    PROVE  VerdaccioInv'
<1>1. /\ UNCHANGED <<store, good, issued, history>> /\ UNCHANGED memory
  BY DEF Verdaccio!Login, Verdaccio!LoggedIn, Verdaccio!service, Verdaccio!history, history
<1>2. \E m : Holds(p, m) /\ VerdaccioHolding(p, m)
  BY <1>1, VerdaccioTypes
<1>3. CASE Verdaccio!AtOnce(p, r, Verdaccio!Failed("other"))
  <2>1. pc[p] \in VerdaccioEarly
    BY <1>3, AnsweredAtOnce, VerdaccioShared, VerdaccioTypes DEF VerdaccioEarly
  <2> QED
    BY <1>1, <1>2, <1>3, <2>1, VerdaccioNothing, VerdaccioAnswers, VerdaccioQuiet
<1>4. CASE Verdaccio!Begin(p, r, "password", Verdaccio!Begun)
  <2>1. pc[p] \in VerdaccioEarly /\ "password" \in VerdaccioEarly \ {"idle"}
    BY <1>4, Begins, VerdaccioShared, VerdaccioTypes DEF VerdaccioEarly
  <2> QED
    BY <1>1, <1>2, <1>4, <2>1, VerdaccioBegun, VerdaccioAwaits, VerdaccioQuiet
<1>5. CASE pc[p] = "password" /\ Verdaccio!GoOn(p, "mint-read", local[p])
  <2>1. /\ pc[p] \in VerdaccioEarly /\ "mint-read" \in VerdaccioEarly \ {"idle"} /\ pc[p] # "idle"
        /\ VerdaccioFresh(p, local[p])
    BY <1>5, VerdaccioTypes DEF VerdaccioEarly, VerdaccioFresh, VerdaccioMinting
  <2> QED
    BY <1>1, <1>2, <1>5, <2>1, VerdaccioAwaits, VerdaccioQuiet
<1> QED
  BY <1>3, <1>4, <1>5 DEF Verdaccio!Login, Verdaccio!LoggedIn

-----------------------------------------------------------------------------
(* A step of a login or a logout that leaves the store alone.              *)
LEMMA VerdaccioGoes ==
    ASSUME VerdaccioInv, NEW p \in Processes, OthersWait(p), NEW m, Holds(p, m), VerdaccioHolding(p, m),
           NEW d, Drops(p, d), d \subseteq retired[p], UNCHANGED <<store, ended>>, answer'[p].token = 0,
           issued' \in Nat, issued' >= issued, reserved' \subseteq reserved \cup ((issued + 1)..issued'),
           good' \subseteq good \cup ((issued + 1)..issued'), lost \subseteq lost',
           pc'[p] # "idle" => VerdaccioValues(p, local'[p]) /\ VerdaccioMinting(p)',
           \A t : VerdaccioMints(p, t)' => VerdaccioMints(p, t) \/ t \in (issued + 1)..issued',
           \A t \in good' \ lost' : VerdaccioHas(p, t)' \/ (t \in good \ lost /\ ~ VerdaccioHas(p, t))
    PROVE  VerdaccioInv'
<1> DEFINE new == (issued + 1)..issued'
<1>1. /\ issued \in Nat /\ d \subseteq 0..issued /\ retired[p] \subseteq ended \cup {0}
      /\ good \subseteq 1..issued /\ ended \subseteq 1..issued
  BY VerdaccioTypes
<1>2. /\ good' \subseteq 1..issued' /\ ended' \subseteq 1..issued' /\ ended \subseteq ended'
      /\ \A t \in 0..issued : t \notin new
  BY <1>1
<1> HIDE DEF new
<1>3. ASSUME NEW t
      PROVE  /\ VerdaccioSeen(t)' <=> VerdaccioSeen(t)
             /\ VerdaccioFree(p, t) => VerdaccioFree(p, t)'
             /\ VerdaccioSeen(t) => (t \in good' => t \in good) /\ (t \in reserved' => t \in reserved)
  <2>1. VerdaccioSeen(t)' <=> VerdaccioSeen(t)
    BY DEF VerdaccioSeen
  <2>2. VerdaccioFree(p, t) => VerdaccioFree(p, t)'
    BY <2>1 DEF VerdaccioFree, Drops
  <2>3. VerdaccioSeen(t) => (t \in good' => t \in good) /\ (t \in reserved' => t \in reserved)
    BY <1>2, VerdaccioSeenIssued DEF new
  <2> QED
    BY <2>1, <2>2, <2>3
<1>4. VerdaccioStored'
  <2>1. \A u \in Verdaccio!Tiers : VerdaccioSeen(store.tokens[u])
    BY VerdaccioStoredSeen DEF VerdaccioRead
  <2>2. "read" \in Verdaccio!Tiers
    BY VerdaccioTypes
  <2>3. /\ store.tokens["read"] \notin reserved'
        /\ ~store.named => \A u \in Verdaccio!Tiers : store.tokens[u] \notin good'
    BY <1>3, <2>1, <2>2 DEF VerdaccioInv, VerdaccioStored
  <2>4. /\ store \in VerdaccioAccount
        /\ \A u \in Verdaccio!Tiers :
               store.tokens[u] = 0 \/ (store.tokens[u] \in 1..issued' /\ store.tokens[u] \notin ended)
    <3>1. \A t \in 1..issued : t \in 1..issued'
      BY <1>1
    <3> QED
      BY <3>1 DEF VerdaccioInv, VerdaccioStored
  <2> QED
    BY <2>3, <2>4 DEF VerdaccioStored
<1>5. VerdaccioProcess(p)'
  <2>1. VerdaccioHolding(p, m)'
    <3>1. "read" \in Verdaccio!Tiers
      BY VerdaccioTypes
    <3> QED
      BY <1>3, <3>1 DEF VerdaccioHolding, VerdaccioFree
  <2>2. ASSUME pc'[p] # "idle"
        PROVE  VerdaccioValues(p, local[p])'
    <3>1. PICK v : v = local'[p]
      OBVIOUS
    <3>2. VerdaccioValues(p, v)
      BY <2>2, <3>1
    <3>3. VerdaccioRead(v.previous)'
      BY <1>3, <3>2 DEF VerdaccioValues, VerdaccioRead
    <3>4. VerdaccioValues(p, v)'
      BY <1>3, <3>2, <3>3 DEF VerdaccioValues
    <3> QED
      BY <3>1, <3>4
  <2>3. retired'[p] \subseteq ended' \cup {0} /\ memory'[p] = m
    BY <1>1 DEF Drops, Holds
  <2>4. VerdaccioHolding(p, memory[p])'
    BY <2>1, <2>3
  <2> QED
    BY <2>2, <2>3, <2>4 DEF VerdaccioProcess
<1>6. \A t : VerdaccioSeen(t) => VerdaccioSeen(t)'
  BY <1>3
<1>7. \A t : VerdaccioSeen(t)' => VerdaccioSeen(t) \/ t \in (issued + 1)..issued' \/ VerdaccioMints(p, t)
  BY <1>3
<1>8. \A t \in good' \ lost' :
          \/ \E u \in Verdaccio!Tiers : store'.tokens[u] = t
          \/ VerdaccioHas(p, t)'
          \/ /\ t \in good \ lost /\ ~ \E u \in Verdaccio!Tiers : store.tokens[u] = t
             /\ ~ VerdaccioHas(p, t)
  OBVIOUS
<1> QED
  BY <1>1, <1>2, <1>4, <1>5, <1>6, <1>7, <1>8, VerdaccioStep

(* The same with memory and what was dropped as they are.                  *)
LEMMA VerdaccioStays ==
    ASSUME VerdaccioInv, NEW p \in Processes, OthersWait(p),
           UNCHANGED <<store, ended, memory, retired>>, answer'[p].token = 0,
           \/ UNCHANGED <<issued, reserved>> /\ good' \subseteq good
           \/ /\ issued' = issued + 1 /\ good' = good \cup {issued + 1}
              /\ reserved' \subseteq reserved \cup {issued + 1},
           lost \subseteq lost',
           pc'[p] # "idle" => VerdaccioValues(p, local'[p]) /\ VerdaccioMinting(p)',
           \A t : VerdaccioMints(p, t)' => VerdaccioMints(p, t) \/ t \in (issued + 1)..issued',
           \A t \in good' \ lost' : VerdaccioHas(p, t)' \/ (t \in good \ lost /\ ~ VerdaccioHas(p, t))
    PROVE  VerdaccioInv'
<1>1. /\ Holds(p, memory[p]) /\ VerdaccioHolding(p, memory[p]) /\ Drops(p, retired[p])
      /\ issued \in Nat
  BY VerdaccioTypes
<1>2. /\ issued' \in Nat /\ issued' >= issued /\ reserved' \subseteq reserved \cup ((issued + 1)..issued')
      /\ good' \subseteq good \cup ((issued + 1)..issued')
  BY <1>1
<1> QED
  BY <1>1, <1>2, VerdaccioGoes

LEMMA VerdaccioMintRead ==
    ASSUME VerdaccioInv, NEW p \in Processes, Verdaccio!MintRead(p)
    PROVE  VerdaccioInv'
<1>1. PICK n : n = issued + 1
  OBVIOUS
<1>2. PICK old : old = local[p]
  OBVIOUS
<1>3. PICK v : v = [old EXCEPT !.minted["read"] = n]
  OBVIOUS
<1>4. /\ pc[p] = "mint-read" /\ issued' = n /\ good' = good \cup {n} /\ GoOn(p, "mint-full", v)
      /\ UNCHANGED <<store, ended, memory, retired, reserved, lost>>
  BY <1>1, <1>2, <1>3, VerdaccioShared
     DEF Verdaccio!MintRead, Verdaccio!Generates, Verdaccio!Issue, Verdaccio!New, Verdaccio!history
<1>5. /\ VerdaccioValues(p, old) /\ old.minted = Verdaccio!NoCopy /\ answer[p].token = 0
  BY <1>2, <1>4, VerdaccioTypes DEF VerdaccioMinting
<1>6. n \in Nat /\ n > issued /\ issued \in Nat /\ n \notin reserved /\ n # 0 /\ n \in 1..issued'
      /\ n \in (issued + 1)..issued' /\ ~VerdaccioSeen(n) /\ ~VerdaccioSeen(n)'
  <2>1. n \in Nat /\ n > issued /\ issued \in Nat /\ n \notin reserved
    BY <1>1, VerdaccioTypes
  <2>2. ~VerdaccioSeen(n)
    BY <2>1, VerdaccioSeenIssued
  <2>3. VerdaccioSeen(n)' <=> VerdaccioSeen(n)
    BY <1>4 DEF VerdaccioSeen
  <2> QED
    BY <1>1, <1>4, <2>1, <2>2, <2>3
<1>7. /\ v \in VerdaccioLocal /\ v.token = old.token /\ v.previous = old.previous
      /\ v.minted["read"] = n /\ v.minted["full"] = 0 /\ \A u \in Verdaccio!Tiers : v.minted[u] \in {0, n}
  <2>1. old \in VerdaccioLocal
    BY <1>5 DEF VerdaccioValues
  <2>2. v = [old EXCEPT !.minted = [old.minted EXCEPT !["read"] = n]]
    BY <1>3
  <2>3. PICK c : c = [old.minted EXCEPT !["read"] = n]
    OBVIOUS
  <2>4. c \in VerdaccioCopies /\ c["read"] = n /\ c["full"] = 0 /\ \A u \in Verdaccio!Tiers : c[u] \in {0, n}
    BY <1>5, <1>6, <2>3 DEF VerdaccioCopies, Verdaccio!NoCopy, Verdaccio!Tiers
  <2>5. v = [old EXCEPT !.minted = c]
    BY <2>2, <2>3
  <2>6. v \in VerdaccioLocal /\ v.token = old.token /\ v.previous = old.previous /\ v.minted = c
    BY <2>1, <2>4, <2>5 DEF VerdaccioLocal
  <2> QED
    BY <2>4, <2>6
<1>8. OthersWait(p) /\ pc'[p] = "mint-full" /\ local'[p] = v /\ answer'[p].token = 0
  BY <1>4, <1>5, GoesOn, VerdaccioTypes DEF Turned
<1>9. VerdaccioValues(p, v)
  BY <1>5, <1>7 DEF VerdaccioValues
<1>10. VerdaccioMinting(p)'
  BY <1>4, <1>6, <1>7, <1>8 DEF VerdaccioMinting
<1>11. \A t : VerdaccioMints(p, t)' => t \in (issued + 1)..issued'
  BY <1>6, <1>7, <1>8 DEF VerdaccioMints
<1>12. \A t \in good' \ lost' : VerdaccioHas(p, t)' \/ (t \in good \ lost /\ ~ VerdaccioHas(p, t))
  <2>1. VerdaccioHas(p, n)'
    BY <1>7, <1>8, VerdaccioTypes DEF VerdaccioHas
  <2>2. \A t : ~VerdaccioHas(p, t)
    BY <1>4 DEF VerdaccioHas
  <2> QED
    BY <1>4, <2>1, <2>2
<1> QED
  BY <1>1, <1>4, <1>8, <1>9, <1>10, <1>11, <1>12, VerdaccioStays

LEMMA VerdaccioMintFull ==
    ASSUME VerdaccioInv, NEW p \in Processes, Verdaccio!MintFull(p)
    PROVE  VerdaccioInv'
<1>1. PICK n : n = issued + 1
  OBVIOUS
<1>2. PICK old : old = local[p]
  OBVIOUS
<1>3. PICK left : left = Verdaccio!Generated(old.previous)
  OBVIOUS
<1>4. PICK c : c = [old.minted EXCEPT !["full"] = n]
  OBVIOUS
<1>5. PICK v : v = [old EXCEPT !.minted = c, !.left = left]
  OBVIOUS
<1>6. /\ pc[p] = "mint-full" /\ issued' = n /\ good' = good \cup {n} /\ reserved' = reserved \cup {n}
      /\ GoOn(p, "replace", v) /\ UNCHANGED <<store, ended, memory, retired, lost>>
  BY <1>1, <1>2, <1>3, <1>4, <1>5, VerdaccioShared
     DEF Verdaccio!MintFull, Verdaccio!Generates, Verdaccio!Issue, Verdaccio!New
<1>7. /\ VerdaccioValues(p, old) /\ VerdaccioMinting(p) /\ answer[p].token = 0 /\ old = local[p]
  BY <1>2, <1>6, VerdaccioTypes
<1>8. n \in Nat /\ n > issued /\ issued \in Nat /\ n # 0 /\ n \in 1..issued'
      /\ n \in (issued + 1)..issued' /\ ~VerdaccioSeen(n)
  <2>1. n \in Nat /\ n > issued /\ issued \in Nat
    BY <1>1, VerdaccioTypes
  <2>2. ~VerdaccioSeen(n)
    BY <2>1, VerdaccioSeenIssued
  <2> QED
    BY <1>1, <1>6, <2>1, <2>2
<1>9. \A t : VerdaccioSeen(t)' <=> VerdaccioSeen(t)
  BY <1>6 DEF VerdaccioSeen
<1>10. /\ c \in VerdaccioCopies /\ c["full"] = n /\ c["read"] = old.minted["read"]
       /\ \A u \in Verdaccio!Tiers : c[u] = n \/ c[u] = old.minted[u]
  BY <1>4, <1>7, <1>8 DEF VerdaccioValues, VerdaccioLocal, VerdaccioCopies, Verdaccio!Tiers
<1>11. left \subseteq Nat
  BY <1>3, <1>7 DEF Verdaccio!Generated, Verdaccio!TokensOf, VerdaccioValues, VerdaccioRead,
     VerdaccioAccount, VerdaccioCopies
<1>12. /\ v \in VerdaccioLocal /\ v.token = old.token /\ v.previous = old.previous
       /\ v.minted = c /\ v.left = left
  BY <1>5, <1>7, <1>10, <1>11 DEF VerdaccioValues, VerdaccioLocal
<1>13. OthersWait(p) /\ pc'[p] = "replace" /\ local'[p] = v /\ answer'[p].token = 0
  BY <1>6, <1>7, GoesOn, VerdaccioTypes DEF Turned
<1>14. VerdaccioValues(p, v)
  BY <1>7, <1>12 DEF VerdaccioValues
<1>15. ASSUME NEW u \in Verdaccio!Tiers, old.previous.tokens[u] \in good' \ lost'
       PROVE  old.previous.tokens[u] \in left
  <2>1. PICK t : t = old.previous.tokens[u]
    OBVIOUS
  <2>2. VerdaccioSeen(t) /\ (~old.previous.named => t \notin good)
    BY <1>7, <2>1 DEF VerdaccioValues, VerdaccioRead
  <2>3. t \in good /\ t # n
    BY <1>6, <1>8, <1>15, <2>1, <2>2
  <2>4. t # 0 /\ old.previous.named
    BY <2>2, <2>3, VerdaccioTypes
  <2> QED
    BY <1>3, <2>1, <2>4 DEF Verdaccio!Generated, Verdaccio!TokensOf
<1>16. VerdaccioMinting(p)'
  <2>1. c["read"] \notin reserved'
    <3>1. old.minted["read"] \notin reserved
      BY <1>7 DEF VerdaccioMinting
    <3>2. old.minted["read"] # n
      <4>1. old.minted["read"] = 0 \/ old.minted["read"] \in 1..issued
        BY <1>7, VerdaccioTypes DEF VerdaccioMinting
      <4> QED
        BY <1>8, <4>1
    <3> QED
      BY <1>6, <1>10, <3>1, <3>2
  <2>2. ASSUME NEW u \in Verdaccio!Tiers
        PROVE  c[u] = 0 \/ (c[u] \in 1..issued' /\ ~VerdaccioSeen(c[u])')
    <3>0. PICK t : t = c[u]
      OBVIOUS
    <3>1. t = n \/ t = old.minted[u]
      BY <1>10, <3>0
    <3>2. t = n \/ t = 0 \/ (t \in 1..issued /\ ~VerdaccioSeen(t))
      BY <1>7, <3>1 DEF VerdaccioMinting
    <3>3. t = 0 \/ (t \in 1..issued' /\ ~VerdaccioSeen(t))
      BY <1>1, <1>6, <1>8, <3>2
    <3>4. t = 0 \/ (t \in 1..issued' /\ ~VerdaccioSeen(t)')
      BY <1>9, <3>3
    <3> QED
      BY <3>0, <3>4
  <2>3. \A u \in Verdaccio!Tiers : old.previous.tokens[u] \in good' \ lost' => old.previous.tokens[u] \in left
    BY <1>15
  <2> QED
    BY <1>12, <1>13, <2>1, <2>2, <2>3 DEF VerdaccioMinting
<1>17. \A t : VerdaccioMints(p, t)' => VerdaccioMints(p, t) \/ t \in (issued + 1)..issued'
  BY <1>6, <1>7, <1>8, <1>10, <1>12, <1>13 DEF VerdaccioMints
<1>18. \A t \in good' \ lost' : VerdaccioHas(p, t)' \/ (t \in good \ lost /\ ~ VerdaccioHas(p, t))
  <2>1. SUFFICES ASSUME NEW t \in good' \ lost', ~ VerdaccioHas(p, t)'
                 PROVE  t \in good \ lost /\ ~ VerdaccioHas(p, t)
    OBVIOUS
  <2>2. \A u \in Verdaccio!Tiers : c[u] # t
    BY <1>12, <1>13, <2>1 DEF VerdaccioHas
  <2>3. t # n
    BY <1>10, <2>2, VerdaccioTypes
  <2>4. \A u \in Verdaccio!Tiers : u = "read" \/ u = "full"
    BY DEF Verdaccio!Tiers
  <2>5. old.minted["full"] = 0 /\ old.minted["read"] # t /\ t # 0
    <3>1. t \in good
      BY <1>6, <2>1, <2>3
    <3> QED
      BY <1>6, <1>7, <1>10, <2>2, <3>1, VerdaccioTypes DEF VerdaccioMinting
  <2>6. ~VerdaccioHas(p, t)
    BY <1>6, <1>7, <2>4, <2>5 DEF VerdaccioHas
  <2> QED
    BY <1>6, <2>1, <2>3, <2>6
<1> QED
  BY <1>1, <1>6, <1>13, <1>14, <1>16, <1>17, <1>18, VerdaccioStays

LEMMA VerdaccioNoSecondToken ==
    ASSUME VerdaccioInv, NEW p \in Processes, Verdaccio!NoSecondToken(p)
    PROVE  VerdaccioInv'
<1>1. PICK n : n = issued + 1
  OBVIOUS
<1>2. PICK old : old = local[p]
  OBVIOUS
<1>3. PICK left : left = {old.minted["read"]}
  OBVIOUS
<1>4. PICK v : v = [old EXCEPT !.left = left]
  OBVIOUS
<1>5. /\ pc[p] = "mint-full" /\ GoOn(p, "undo", v) /\ UNCHANGED <<store, ended, memory, retired>>
      /\ \/ UNCHANGED <<good, issued, reserved, lost>>
         \/ /\ issued' = n /\ good' = good \cup {n} /\ lost' = lost \cup {n} /\ reserved' = reserved \cup {n}
  BY <1>1, <1>2, <1>3, <1>4, VerdaccioShared
     DEF Verdaccio!NoSecondToken, Verdaccio!Generates, Verdaccio!Issue, Verdaccio!New, Verdaccio!service
<1>6. /\ VerdaccioValues(p, old) /\ VerdaccioMinting(p) /\ answer[p].token = 0 /\ old = local[p]
  BY <1>2, <1>5, VerdaccioTypes
<1>7. left \subseteq Nat
  BY <1>3, <1>6, VerdaccioTypes DEF VerdaccioValues, VerdaccioLocal, VerdaccioCopies
<1>8. /\ v \in VerdaccioLocal /\ v.token = old.token /\ v.previous = old.previous
      /\ v.minted = old.minted /\ v.left = left
  BY <1>4, <1>6, <1>7 DEF VerdaccioValues, VerdaccioLocal
<1>9. OthersWait(p) /\ pc'[p] = "undo" /\ local'[p] = v /\ answer'[p].token = 0
  BY <1>5, <1>6, GoesOn, VerdaccioTypes DEF Turned
<1>10. VerdaccioValues(p, v)
  BY <1>6, <1>8 DEF VerdaccioValues
<1>11. VerdaccioMinting(p)'
  <2>1. ASSUME NEW u \in Verdaccio!Tiers
        PROVE  old.minted[u] = 0 \/ (old.minted[u] \in 1..issued' /\ ~VerdaccioSeen(old.minted[u])')
    <3>1. PICK t : t = old.minted[u]
      OBVIOUS
    <3>2. t = 0 \/ (t \in 1..issued /\ ~VerdaccioSeen(t))
      BY <1>6, <3>1 DEF VerdaccioMinting
    <3>3. VerdaccioSeen(t)' <=> VerdaccioSeen(t)
      BY <1>5 DEF VerdaccioSeen
    <3>4. t \in 1..issued => t \in 1..issued'
      BY <1>1, <1>5, VerdaccioTypes
    <3> QED
      BY <1>2, <3>1, <3>2, <3>3, <3>4
  <2>2. old.minted["read"] \notin reserved'
    <3>1. old.minted["read"] \notin reserved /\ (old.minted["read"] = 0 \/ old.minted["read"] \in 1..issued)
      BY <1>6, VerdaccioTypes DEF VerdaccioMinting
    <3>2. n \notin 1..issued /\ n # 0
      BY <1>1, VerdaccioTypes
    <3> QED
      BY <1>5, <3>1, <3>2
  <2>3. old.minted["full"] = 0
    BY <1>5, <1>6 DEF VerdaccioMinting
  <2> QED
    BY <1>3, <1>8, <1>9, <2>1, <2>2, <2>3 DEF VerdaccioMinting
<1>12. \A t : VerdaccioMints(p, t)' => VerdaccioMints(p, t)
  BY <1>5, <1>6, <1>8, <1>9 DEF VerdaccioMints
<1>13. \A t : VerdaccioHas(p, t)' <=> VerdaccioHas(p, t)
  BY <1>5, <1>6, <1>8, <1>9 DEF VerdaccioHas
<1>14. \A t \in good' \ lost' : VerdaccioHas(p, t)' \/ (t \in good \ lost /\ ~ VerdaccioHas(p, t))
  BY <1>5, <1>13
<1>15. lost \subseteq lost'
  BY <1>5
<1> QED
  BY <1>1, <1>5, <1>9, <1>10, <1>11, <1>12, <1>14, <1>15, VerdaccioStays

LEMMA VerdaccioFirst ==
    ASSUME NEW t \in Nat
    PROVE  Verdaccio!First({t}) = t
BY DEF Verdaccio!First

LEMMA VerdaccioRevoke ==
    ASSUME VerdaccioInv, NEW p \in Processes, Verdaccio!Revoke(p)
    PROVE  VerdaccioInv'
<1>1. PICK old : old = local[p]
  OBVIOUS
<1>2. PICK t : t = Verdaccio!First(old.left)
  OBVIOUS
<1>3. PICK v : v = [old EXCEPT !.left = old.left \ {t}]
  OBVIOUS
<1>4. /\ pc[p] \in {"undo", "replace", "revoke"} /\ UNCHANGED <<store, ended, memory, retired, issued, reserved>>
      /\ (good' = good \ {t} /\ lost' = lost) \/ (good' = good /\ lost' = lost \cup {t})
      /\ IF pc[p] # "replace" /\ old.left = {t}
         THEN Reply(p, IF pc[p] = "undo" THEN Failed("other") ELSE NoToken)
         ELSE GoOn(p, pc[p], v)
  BY <1>1, <1>2, <1>3, VerdaccioShared DEF Verdaccio!Revoke, Verdaccio!Deletes, Verdaccio!service
<1>5. VerdaccioValues(p, old) /\ VerdaccioMinting(p) /\ answer[p].token = 0 /\ old = local[p]
  BY <1>1, <1>4, VerdaccioTypes
<1>6. /\ v \in VerdaccioLocal /\ v.token = old.token /\ v.previous = old.previous
      /\ v.minted = old.minted /\ v.left = old.left \ {t}
  BY <1>3, <1>5 DEF VerdaccioValues, VerdaccioLocal
<1>7. good' \subseteq good /\ lost \subseteq lost' /\ \A s \in good' \ lost' : s # t /\ s \in good \ lost
  BY <1>4
<1>8. pc[p] = "undo" => old.left = {t} /\ t = old.minted["read"] /\ old.minted["full"] = 0
  <2>1. SUFFICES ASSUME pc[p] = "undo"
                 PROVE  old.left = {t} /\ t = old.minted["read"] /\ old.minted["full"] = 0
    OBVIOUS
  <2>2. old.left = {old.minted["read"]} /\ old.minted["full"] = 0
    BY <1>5, <2>1 DEF VerdaccioMinting
  <2>3. old.minted["read"] \in Nat
    BY <1>5, VerdaccioTypes DEF VerdaccioValues, VerdaccioLocal, VerdaccioCopies
  <2> QED
    BY <1>2, <2>2, <2>3, VerdaccioFirst
<1>9. CASE pc[p] # "replace" /\ old.left = {t}
  <2>1. OthersWait(p) /\ pc'[p] = "idle" /\ answer'[p].token = 0
    BY <1>4, <1>9, Replies, NoTokenInIt, VerdaccioTypes DEF Turned
  <2>2. \A s : ~VerdaccioMints(p, s)'
    BY <2>1 DEF VerdaccioMints
  <2>3. ASSUME NEW s \in good' \ lost'
        PROVE  s \in good \ lost /\ ~ VerdaccioHas(p, s)
    <3>1. s # t /\ s # 0 /\ s \in good \ lost
      BY <1>7, VerdaccioTypes
    <3>2. \A u \in Verdaccio!Tiers : u = "read" \/ u = "full"
      BY DEF Verdaccio!Tiers
    <3> QED
      BY <1>4, <1>5, <1>8, <1>9, <3>1, <3>2 DEF VerdaccioHas
  <2> QED
    BY <1>4, <1>7, <2>1, <2>2, <2>3, VerdaccioStays
<1>10. CASE ~ (pc[p] # "replace" /\ old.left = {t})
  <2>1. pc[p] \in {"replace", "revoke"}
    BY <1>4, <1>8, <1>10
  <2>2. OthersWait(p) /\ pc'[p] = pc[p] /\ local'[p] = v /\ answer'[p].token = 0
    BY <1>4, <1>5, <1>10, GoesOn, VerdaccioTypes DEF Turned
  <2>3. VerdaccioValues(p, v)
    BY <1>5, <1>6 DEF VerdaccioValues
  <2>4. VerdaccioMinting(p)'
    <3>1. \A s : VerdaccioSeen(s)' <=> VerdaccioSeen(s)
      BY <1>4 DEF VerdaccioSeen
    <3>2. \A u \in Verdaccio!Tiers :
            old.minted[u] = 0 \/ (old.minted[u] \in 1..issued' /\ ~VerdaccioSeen(old.minted[u]))
      BY <1>4, <1>5 DEF VerdaccioMinting
    <3>3. ASSUME NEW u \in Verdaccio!Tiers
          PROVE  old.minted[u] = 0 \/ (old.minted[u] \in 1..issued' /\ ~VerdaccioSeen(old.minted[u])')
      <4>1. PICK s : s = old.minted[u]
        OBVIOUS
      <4>2. s = 0 \/ (s \in 1..issued' /\ ~VerdaccioSeen(s)')
        BY <3>1, <3>2, <4>1
      <4> QED
        BY <1>1, <4>1, <4>2
    <3>4. pc[p] = "replace" => \A u \in Verdaccio!Tiers :
            old.previous.tokens[u] \in good' \ lost' => old.previous.tokens[u] \in v.left
      BY <1>5, <1>6, <1>7 DEF VerdaccioMinting
    <3>5. old.minted["read"] \notin reserved' /\ (pc[p] = "revoke" => old.minted = Verdaccio!NoCopy)
      BY <1>4, <1>5 DEF VerdaccioMinting
    <3> QED
      BY <1>6, <2>1, <2>2, <3>3, <3>4, <3>5 DEF VerdaccioMinting
  <2>5. \A s : VerdaccioMints(p, s)' => VerdaccioMints(p, s)
    BY <1>5, <1>6, <2>1, <2>2 DEF VerdaccioMints
  <2>6. \A s : s # t /\ VerdaccioHas(p, s) => VerdaccioHas(p, s)'
    BY <1>5, <1>6, <2>1, <2>2 DEF VerdaccioHas
  <2>7. \A s \in good' \ lost' : VerdaccioHas(p, s)' \/ (s \in good \ lost /\ ~ VerdaccioHas(p, s))
    BY <1>7, <2>6
  <2> QED
    BY <1>4, <1>7, <2>2, <2>3, <2>4, <2>5, <2>7, VerdaccioStays
<1> QED
  BY <1>9, <1>10

LEMMA VerdaccioCallFails ==
    ASSUME VerdaccioInv, NEW p \in Processes, Verdaccio!CallFails(p)
    PROVE  VerdaccioInv'
<1>1. /\ pc[p] \in {"whoami", "confirm", "password", "mint-read"} /\ Reply(p, Failed("other"))
      /\ UNCHANGED <<store, memory, reserved, retired, ended>>
      /\ \/ UNCHANGED <<good, issued, lost>>
         \/ issued' = issued + 1 /\ good' = good \cup {issued + 1} /\ lost' = lost \cup {issued + 1}
  BY VerdaccioShared
     DEF Verdaccio!CallFails, Verdaccio!CallError, Verdaccio!Generates, Verdaccio!Issue, Verdaccio!New, Verdaccio!service
<1>2. OthersWait(p) /\ pc'[p] = "idle" /\ answer'[p].token = 0
  BY <1>1, Replies, NoTokenInIt, VerdaccioTypes DEF Turned
<1>3. /\ \A t : ~VerdaccioMints(p, t)' /\ ~VerdaccioHas(p, t)
      /\ \A t \in good' \ lost' : t \in good \ lost
      /\ lost \subseteq lost'
  BY <1>1, <1>2 DEF VerdaccioMints, VerdaccioHas
<1> QED
  BY <1>1, <1>2, <1>3, VerdaccioStays

LEMMA VerdaccioStop ==
    ASSUME VerdaccioInv, NEW p \in Processes, Verdaccio!Stop(p)
    PROVE  VerdaccioInv'
<1>1. /\ Restart(p, Verdaccio!NoCopy) /\ UNCHANGED <<store, reserved, ended, good, issued>>
      /\ lost' = lost \cup Verdaccio!InHand(p)
  BY VerdaccioShared DEF Verdaccio!Stop, Verdaccio!service
<1>2. /\ OthersWait(p) /\ pc'[p] = "idle" /\ answer'[p].token = 0
      /\ Holds(p, Verdaccio!NoCopy) /\ Drops(p, {})
  BY <1>1, Restarts, VerdaccioTypes DEF Turned
<1>3. \A t : VerdaccioHas(p, t) => t \in Verdaccio!InHand(p)
  BY DEF VerdaccioHas, Verdaccio!InHand
<1>4. VerdaccioHolding(p, Verdaccio!NoCopy)
  <2>1. /\ Verdaccio!NoCopy \in VerdaccioCopies /\ \A u \in Verdaccio!Tiers : Verdaccio!NoCopy[u] = 0
    BY DEF VerdaccioCopies, Verdaccio!NoCopy
  <2>2. "read" \in Verdaccio!Tiers /\ 0 \notin reserved /\ VerdaccioFree(p, 0)
    BY VerdaccioTypes, VerdaccioStoredSeen
  <2> QED
    BY <2>1, <2>2 DEF VerdaccioHolding
<1>5. \A t \in good' \ lost' : t \in good \ lost /\ ~ VerdaccioHas(p, t)
  BY <1>1, <1>3
<1>6. /\ issued' \in Nat /\ issued' >= issued /\ \A t : ~VerdaccioMints(p, t)'
  BY <1>1, <1>2, VerdaccioTypes DEF VerdaccioMints
<1> QED
  BY <1>1, <1>2, <1>4, <1>5, <1>6, VerdaccioGoes

-----------------------------------------------------------------------------
(* A login or a logout takes the place of the account: the process has no  *)
(* copies any more, and what it had is not handed out again.               *)
LEMMA VerdaccioForgets ==
    ASSUME VerdaccioInv, NEW p \in Processes, NEW tokens, \A t \in tokens : VerdaccioSeen(t),
           Verdaccio!Forget(p, tokens), ended \subseteq ended',
           \A u \in Verdaccio!Tiers : store.tokens[u] = 0 \/ store.tokens[u] \in ended'
    PROVE  /\ Holds(p, Verdaccio!NoCopy)
           /\ \E d : Drops(p, d) /\ d \subseteq ended' \cup {0} /\ d \subseteq 0..issued
<1>1. PICK d : d = retired[p] \cup tokens \cup {memory[p][t] : t \in Verdaccio!Tiers}
  OBVIOUS
<1>2. memory' = [memory EXCEPT ![p] = Verdaccio!NoCopy] /\ retired' = [retired EXCEPT ![p] = d]
  BY <1>1 DEF Verdaccio!Forget
<1>3. Holds(p, Verdaccio!NoCopy) /\ Drops(p, d)
  BY <1>2, VerdaccioTypes
<1>4. ASSUME NEW t \in d
      PROVE  t \in ended' \cup {0} /\ t \in 0..issued
  <2>1. CASE t \in retired[p]
    BY <2>1, VerdaccioTypes
  <2>2. CASE VerdaccioSeen(t)
    BY <2>2, VerdaccioSeenIssued DEF VerdaccioSeen
  <2>3. t \in retired[p] \/ VerdaccioSeen(t)
    BY <1>1, <1>4, VerdaccioTypes DEF VerdaccioHolding, VerdaccioFree
  <2> QED
    BY <2>1, <2>2, <2>3
<1> QED
  BY <1>3, <1>4

LEMMA VerdaccioNoCopy ==
    ASSUME VerdaccioInv, NEW p \in Processes, 0 \notin reserved', VerdaccioSeen(0)'
    PROVE  VerdaccioHolding(p, Verdaccio!NoCopy)' /\ VerdaccioHolding(p, Verdaccio!NoCopy)
<1>1. /\ Verdaccio!NoCopy \in VerdaccioCopies /\ \A u \in Verdaccio!Tiers : Verdaccio!NoCopy[u] = 0
  BY DEF VerdaccioCopies, Verdaccio!NoCopy
<1>2. "read" \in Verdaccio!Tiers /\ 0 \notin reserved /\ VerdaccioFree(p, 0) /\ VerdaccioFree(p, 0)'
  BY VerdaccioTypes, VerdaccioStoredSeen DEF VerdaccioFree
<1> QED
  BY <1>1, <1>2 DEF VerdaccioHolding

LEMMA VerdaccioTokens ==
    ASSUME NEW a
    PROVE  \A t : t \in Verdaccio!TokensOf(a) <=> t # 0 /\ \E u \in Verdaccio!Tiers : a.tokens[u] = t
BY DEF Verdaccio!TokensOf

LEMMA VerdaccioStoreLogin ==
    ASSUME VerdaccioInv, NEW p \in Processes, Verdaccio!StoreLogin(p)
    PROVE  VerdaccioInv'
<1>1. PICK old : old = local[p]
  OBVIOUS
<1>2. /\ pc[p] = "replace" /\ old.left = {} /\ Reply(p, NoToken)
      /\ store' = [named |-> TRUE, tokens |-> old.minted]
      /\ Verdaccio!Forget(p, Verdaccio!TokensOf(old.previous))
      /\ ended' = ended \cup Verdaccio!TokensOf(store)
      /\ lost' = lost \cup (Verdaccio!TokensOf(store) \ Verdaccio!TokensOf(old.previous))
      /\ UNCHANGED <<good, issued, reserved>>
  BY <1>1, VerdaccioShared DEF Verdaccio!StoreLogin, Verdaccio!service
<1>3. VerdaccioValues(p, old) /\ VerdaccioMinting(p) /\ old = local[p]
  BY <1>1, <1>2, VerdaccioTypes
<1>4. OthersWait(p) /\ pc'[p] = "idle" /\ answer'[p].token = 0
  BY <1>2, Replies, NoTokenInIt, VerdaccioTypes DEF Turned
<1>5. /\ ended \subseteq ended' /\ lost \subseteq lost'
      /\ \A u \in Verdaccio!Tiers : store.tokens[u] = 0 \/ store.tokens[u] \in ended'
  BY <1>2, VerdaccioTokens
<1>6. \A t \in Verdaccio!TokensOf(old.previous) : VerdaccioSeen(t)
  BY <1>3, VerdaccioTokens DEF VerdaccioValues, VerdaccioRead
<1>7. PICK d : Drops(p, d) /\ d \subseteq ended' \cup {0} /\ d \subseteq 0..issued
  BY <1>2, <1>5, <1>6, VerdaccioForgets
<1>8. Holds(p, Verdaccio!NoCopy)
  BY <1>2, <1>5, <1>6, VerdaccioForgets
<1>9. \A u \in Verdaccio!Tiers :
        old.minted[u] = 0 \/ (old.minted[u] \in 1..issued /\ ~VerdaccioSeen(old.minted[u]))
  BY <1>3 DEF VerdaccioMinting
<1>10. store'.named /\ store'.tokens = old.minted /\ store' \in VerdaccioAccount
  BY <1>2, <1>3 DEF VerdaccioValues, VerdaccioLocal, VerdaccioAccount
<1>11. VerdaccioStored'
  <2>1. ASSUME NEW u \in Verdaccio!Tiers, old.minted[u] # 0
        PROVE  old.minted[u] \in 1..issued' /\ old.minted[u] \notin ended'
    BY <1>2, <1>9, <2>1, VerdaccioTokens DEF VerdaccioSeen
  <2>2. old.minted["read"] \notin reserved'
    BY <1>2, <1>3 DEF VerdaccioMinting
  <2> QED
    BY <1>10, <2>1, <2>2 DEF VerdaccioStored
<1>12. \A t : VerdaccioSeen(t) => VerdaccioSeen(t)'
  BY <1>5 DEF VerdaccioSeen
<1>13. \A t : VerdaccioSeen(t)' => VerdaccioSeen(t) \/ VerdaccioMints(p, t)
  <2>1. SUFFICES ASSUME NEW t, VerdaccioSeen(t)', ~VerdaccioSeen(t)
                 PROVE  VerdaccioMints(p, t)
    OBVIOUS
  <2>2. t # 0 /\ t \notin ended'
    BY <1>2, <2>1, VerdaccioTokens DEF VerdaccioSeen
  <2>3. \E u \in Verdaccio!Tiers : old.minted[u] = t
    BY <1>10, <2>1, <2>2 DEF VerdaccioSeen
  <2> QED
    BY <1>2, <1>3, <2>2, <2>3 DEF VerdaccioMints
<1>14. /\ issued' \in Nat /\ issued' >= issued /\ good' \subseteq 1..issued'
       /\ ended' \subseteq 1..issued' /\ 0 \notin reserved'
  <2>1. /\ issued \in Nat /\ good \subseteq 1..issued /\ ended \subseteq 1..issued /\ 0 \notin reserved
    BY VerdaccioTypes
  <2>2. Verdaccio!TokensOf(store) \subseteq 1..issued
    <3>1. ASSUME NEW t \in Verdaccio!TokensOf(store)
          PROVE  t \in 1..issued
      <4>1. PICK u \in Verdaccio!Tiers : store.tokens[u] = t /\ t # 0
        BY VerdaccioTokens
      <4> QED
        BY <4>1 DEF VerdaccioInv, VerdaccioStored
    <3> QED
      BY <3>1
  <2>3. issued' = issued /\ good' = good /\ reserved' = reserved
    BY <1>2
  <2>4. ended' \subseteq 1..issued
    BY <1>2, <2>1, <2>2
  <2> QED
    BY <2>1, <2>3, <2>4
<1>15. VerdaccioProcess(p)'
  <2>1. VerdaccioSeen(0)'
    BY DEF VerdaccioSeen
  <2> QED
    BY <1>4, <1>7, <1>8, <1>14, <2>1, VerdaccioNoCopy DEF VerdaccioProcess, Drops, Holds
<1>16. \A t : ~VerdaccioMints(p, t)'
  BY <1>4 DEF VerdaccioMints
<1>17. \A t \in good' \ lost' :
           \/ \E u \in Verdaccio!Tiers : store'.tokens[u] = t
           \/ /\ t \in good \ lost /\ ~ \E u \in Verdaccio!Tiers : store.tokens[u] = t
              /\ ~ VerdaccioHas(p, t)
  <2>1. SUFFICES ASSUME NEW t, t \in good, t \notin lost', ~ \E u \in Verdaccio!Tiers : old.minted[u] = t
                 PROVE  /\ t \in good \ lost /\ ~ \E u \in Verdaccio!Tiers : store.tokens[u] = t
                        /\ ~ VerdaccioHas(p, t)
    BY <1>2, <1>10
  <2>2. t \notin lost /\ t # 0
    BY <1>5, <2>1, VerdaccioTypes
  <2>3. t \notin Verdaccio!TokensOf(old.previous)
    <3>1. \A u \in Verdaccio!Tiers : old.previous.tokens[u] \notin good \ lost
      BY <1>2, <1>3 DEF VerdaccioMinting
    <3> QED
      BY <2>1, <2>2, <3>1, VerdaccioTokens
  <2>4. t \notin Verdaccio!TokensOf(store)
    BY <1>2, <2>1, <2>3
  <2>5. ~VerdaccioHas(p, t)
    BY <1>2, <1>3, <2>1 DEF VerdaccioHas
  <2> QED
    BY <2>1, <2>2, <2>4, <2>5, VerdaccioTokens
<1> QED
  BY <1>2, <1>4, <1>5, <1>7, <1>8, <1>11, <1>12, <1>13, <1>14, <1>15, <1>16, <1>17, VerdaccioStep

(* What the account gives way to is nothing, or a token the user brought.  *)
LEMMA VerdaccioReplaced ==
    ASSUME VerdaccioInv, NEW p \in Processes, NEW r,
           IF Verdaccio!Generated(store) = {} THEN AtOnce(p, r, NoToken)
           ELSE Begin(p, r, "revoke", [Verdaccio!Begun EXCEPT !.left = Verdaccio!Generated(store)]),
           Verdaccio!Forget(p, Verdaccio!TokensOf(store)),
           ended' = ended \cup Verdaccio!TokensOf(store), UNCHANGED <<good, lost>>,
           NEW n \in {0, issued + 1}, store' = [named |-> FALSE, tokens |-> [Verdaccio!NoCopy EXCEPT !["full"] = n]],
           n = 0 => UNCHANGED <<issued, reserved>>,
           n # 0 => issued' = n /\ reserved' = reserved \cup {n}
    PROVE  VerdaccioInv'
<1>1. PICK left : left = Verdaccio!Generated(store)
  OBVIOUS
<1>2. PICK v : v = [Verdaccio!Begun EXCEPT !.left = left]
  OBVIOUS
<1>3. PICK c : c = [Verdaccio!NoCopy EXCEPT !["full"] = n]
  OBVIOUS
<1>4. /\ issued \in Nat /\ n \in Nat /\ issued' \in Nat /\ issued' >= issued /\ 0 \notin reserved'
      /\ reserved' \subseteq reserved \cup ((issued + 1)..issued') /\ (n # 0 => n \in (issued + 1)..issued')
  BY VerdaccioTypes
<1>5. /\ c \in VerdaccioCopies /\ c["full"] = n /\ c["read"] = 0 /\ \A u \in Verdaccio!Tiers : c[u] \in {0, n}
  BY <1>3, <1>4 DEF VerdaccioCopies, Verdaccio!NoCopy, Verdaccio!Tiers
<1>6. ~store'.named /\ store'.tokens = c /\ store' \in VerdaccioAccount
  BY <1>3, <1>5 DEF VerdaccioAccount
<1>7. \A t : t \in left <=> store.named /\ t # 0 /\ \E u \in Verdaccio!Tiers : store.tokens[u] = t
  BY <1>1, VerdaccioTokens DEF Verdaccio!Generated
<1>8. left \in SUBSET Nat
  BY <1>7, VerdaccioStoredSeen DEF VerdaccioAccount, VerdaccioCopies
<1>9. v.left = left /\ VerdaccioFresh(p, v)
  <2>1. v.left = left
    BY <1>2 DEF Verdaccio!Begun
  <2> QED
    BY <1>2, <1>8, <2>1, VerdaccioBegun
<1>10. IF left = {} THEN AtOnce(p, r, NoToken) ELSE Begin(p, r, "revoke", v)
  BY <1>1, <1>2
<1>11. /\ OthersWait(p) /\ pc[p] = "idle" /\ answer'[p].token = 0
       /\ IF left = {} THEN pc'[p] = "idle" ELSE pc'[p] = "revoke" /\ local'[p] = v
  <2>1. CASE left = {}
    BY <1>10, <2>1, AnsweredAtOnce, NoTokenInIt, VerdaccioTypes DEF Turned
  <2>2. CASE left # {}
    BY <1>10, <2>2, Begins, VerdaccioTypes DEF Turned
  <2> QED
    BY <2>1, <2>2
<1>12. /\ ended \subseteq ended' /\ \A u \in Verdaccio!Tiers : store.tokens[u] = 0 \/ store.tokens[u] \in ended'
       /\ \A t \in Verdaccio!TokensOf(store) : VerdaccioSeen(t)
  BY VerdaccioTokens DEF VerdaccioSeen
<1>13. PICK d : Drops(p, d) /\ d \subseteq ended' \cup {0} /\ d \subseteq 0..issued
  BY <1>12, VerdaccioForgets
<1>14. Holds(p, Verdaccio!NoCopy)
  BY <1>12, VerdaccioForgets
<1>15. good' \subseteq 1..issued' /\ ended' \subseteq 1..issued' /\ (n # 0 => n \notin ended' /\ n \notin good)
  <2>1. good \subseteq 1..issued /\ ended \subseteq 1..issued
    BY VerdaccioTypes
  <2>2. Verdaccio!TokensOf(store) \subseteq 1..issued
    <3>1. ASSUME NEW t \in Verdaccio!TokensOf(store)
          PROVE  t \in 1..issued
      <4>1. PICK u \in Verdaccio!Tiers : store.tokens[u] = t /\ t # 0
        BY VerdaccioTokens
      <4> QED
        BY <4>1 DEF VerdaccioInv, VerdaccioStored
    <3> QED
      BY <3>1
  <2>3. ended' \subseteq 1..issued
    BY <2>1, <2>2
  <2>4. \A t \in 1..issued : t \in 1..issued' /\ t # issued + 1
    BY <1>4
  <2> QED
    BY <2>1, <2>3, <2>4
<1>16. VerdaccioStored'
  <2>1. n # 0 => n \in 1..issued'
    BY <1>4
  <2>2. \A u \in Verdaccio!Tiers : c[u] = 0 \/ (c[u] \in 1..issued' /\ c[u] \notin ended')
    BY <1>5, <1>15, <2>1
  <2>3. \A u \in Verdaccio!Tiers : c[u] \notin good'
    BY <1>5, <1>15, VerdaccioTypes
  <2> QED
    BY <1>4, <1>5, <1>6, <2>2, <2>3 DEF VerdaccioStored
<1>17. \A t : VerdaccioSeen(t) => VerdaccioSeen(t)'
  BY <1>12 DEF VerdaccioSeen
<1>18. \A t : VerdaccioSeen(t)' => VerdaccioSeen(t) \/ t \in (issued + 1)..issued'
  <2>1. SUFFICES ASSUME NEW t, VerdaccioSeen(t)', ~VerdaccioSeen(t)
                 PROVE  t \in (issued + 1)..issued'
    OBVIOUS
  <2>2. t # 0 /\ t \notin ended'
    BY <2>1, VerdaccioTokens DEF VerdaccioSeen
  <2>3. \E u \in Verdaccio!Tiers : c[u] = t
    BY <1>6, <2>1, <2>2 DEF VerdaccioSeen
  <2> QED
    BY <1>4, <1>5, <2>2, <2>3
<1>19. VerdaccioProcess(p)'
  <2>1. VerdaccioSeen(0)'
    BY DEF VerdaccioSeen
  <2>2. VerdaccioHolding(p, memory[p])' /\ retired'[p] \subseteq ended' \cup {0}
    BY <1>4, <1>13, <1>14, <2>1, VerdaccioNoCopy DEF Drops, Holds
  <2>3. ASSUME pc'[p] # "idle"
        PROVE  VerdaccioValues(p, local[p])' /\ VerdaccioMinting(p)'
    <3>1. pc'[p] = "revoke" /\ local'[p] = v /\ v.minted = Verdaccio!NoCopy /\ VerdaccioValues(p, v)
      BY <1>9, <1>11, <2>3 DEF VerdaccioFresh
    <3>2. v.token = 0 /\ v.previous = store
      BY <1>2 DEF Verdaccio!Begun
    <3>3. VerdaccioFree(p, 0)'
      BY <2>1 DEF VerdaccioFree
    <3>4. PICK a : a = store
      OBVIOUS
    <3>5. VerdaccioRead(a)'
      <4>1. VerdaccioRead(a)
        BY <3>4, VerdaccioStoredSeen
      <4> QED
        BY <1>17, <4>1 DEF VerdaccioRead
    <3>6. VerdaccioValues(p, v)'
      BY <3>1, <3>2, <3>3, <3>4, <3>5 DEF VerdaccioValues
    <3>7. \A u \in Verdaccio!Tiers : v.minted[u] = 0
      BY <3>1 DEF Verdaccio!NoCopy
    <3>8. VerdaccioMinting(p)'
      BY <1>4, <3>1, <3>7, VerdaccioTypes DEF VerdaccioMinting
    <3> QED
      BY <3>1, <3>6, <3>8
  <2> QED
    BY <2>2, <2>3 DEF VerdaccioProcess
<1>20. \A t : ~VerdaccioMints(p, t)'
  <2>1. \A u \in Verdaccio!Tiers : Verdaccio!NoCopy[u] = 0
    BY DEF Verdaccio!NoCopy
  <2> QED
    BY <1>9, <1>11, <2>1 DEF VerdaccioMints, VerdaccioFresh
<1>21. \A t \in good' \ lost' :
           \/ VerdaccioHas(p, t)'
           \/ /\ t \in good \ lost /\ ~ \E u \in Verdaccio!Tiers : store.tokens[u] = t
              /\ ~ VerdaccioHas(p, t)
  <2>1. SUFFICES ASSUME NEW t, t \in good, t \notin lost, ~ VerdaccioHas(p, t)'
                 PROVE  ~ \E u \in Verdaccio!Tiers : store.tokens[u] = t
    BY <1>11 DEF VerdaccioHas
  <2>2. t \notin left
    BY <1>9, <1>11, <2>1 DEF VerdaccioHas
  <2>3. t # 0
    BY <2>1, VerdaccioTypes
  <2>4. ~store.named => \A u \in Verdaccio!Tiers : store.tokens[u] # t
    BY <2>1 DEF VerdaccioInv, VerdaccioStored
  <2> QED
    BY <1>7, <2>2, <2>3, <2>4
<1>22. /\ good' \subseteq good \cup ((issued + 1)..issued') /\ lost \subseteq lost'
  OBVIOUS
<1> QED
  BY <1>4, <1>11, <1>12, <1>13, <1>14, <1>15, <1>16, <1>17, <1>18, <1>19, <1>20, <1>21, <1>22, VerdaccioStep

LEMMA VerdaccioLogout ==
    ASSUME VerdaccioInv, NEW p \in Processes, NEW r, Verdaccio!Logout(p, r)
    PROVE  VerdaccioInv'
<1>1. CASE store = Verdaccio!NoAccount
  <2>1. /\ Verdaccio!AtOnce(p, r, Verdaccio!Failed("not-found"))
        /\ UNCHANGED <<store, memory, good, issued, history>>
    BY <1>1 DEF Verdaccio!Logout, Verdaccio!service, history
  <2>2. \E m : Holds(p, m) /\ VerdaccioHolding(p, m)
    BY <2>1, VerdaccioTypes
  <2>3. pc[p] \in VerdaccioEarly
    BY <2>1, AnsweredAtOnce, VerdaccioShared, VerdaccioTypes DEF VerdaccioEarly
  <2> QED
    BY <2>1, <2>2, <2>3, VerdaccioNothing, VerdaccioAnswers, VerdaccioQuiet
<1>2. CASE store # Verdaccio!NoAccount
  <2>1. /\ IF Verdaccio!Generated(store) = {} THEN AtOnce(p, r, NoToken)
           ELSE Begin(p, r, "revoke", [Verdaccio!Begun EXCEPT !.left = Verdaccio!Generated(store)])
        /\ store' = Verdaccio!NoAccount /\ Verdaccio!Forget(p, Verdaccio!TokensOf(store))
        /\ ended' = ended \cup Verdaccio!TokensOf(store)
        /\ UNCHANGED <<good, issued, reserved, lost>>
    BY <1>2, VerdaccioShared DEF Verdaccio!Logout, Verdaccio!service
  <2>2. Verdaccio!NoAccount = [named |-> FALSE, tokens |-> [Verdaccio!NoCopy EXCEPT !["full"] = 0]]
    BY DEF Verdaccio!NoAccount, Verdaccio!NoCopy
  <2> QED
    BY <2>1, <2>2, VerdaccioReplaced
<1> QED
  BY <1>1, <1>2

LEMMA VerdaccioBrought ==
    ASSUME VerdaccioInv, NEW p \in Processes, NEW r, Verdaccio!Brought(p, r)
    PROVE  VerdaccioInv'
<1>1. /\ IF Verdaccio!Generated(store) = {} THEN AtOnce(p, r, NoToken)
         ELSE Begin(p, r, "revoke", [Verdaccio!Begun EXCEPT !.left = Verdaccio!Generated(store)])
      /\ store' = [named |-> FALSE, tokens |-> [Verdaccio!NoCopy EXCEPT !["full"] = issued + 1]]
      /\ Verdaccio!Forget(p, Verdaccio!TokensOf(store))
      /\ ended' = ended \cup Verdaccio!TokensOf(store)
      /\ issued' = issued + 1 /\ reserved' = reserved \cup {issued + 1} /\ UNCHANGED <<good, lost>>
  BY VerdaccioShared DEF Verdaccio!Brought, Verdaccio!Issue, Verdaccio!New
<1>2. issued + 1 # 0
  BY VerdaccioTypes
<1> QED
  BY <1>1, <1>2, VerdaccioReplaced

(* It starts in its invariant.                                             *)
LEMMA VerdaccioInit ==
    ASSUME Verdaccio!Init
    PROVE  VerdaccioInv /\ VerdaccioAsks
<1>1. PICK tokens \in {Verdaccio!NoCopy, [read |-> 1, full |-> 2]} :
        /\ Verdaccio!ProcessInit([named |-> tokens # Verdaccio!NoCopy, tokens |-> tokens], Verdaccio!NoCopy,
                                 {tokens["full"]} \ {0})
        /\ good = {tokens[t] : t \in Verdaccio!Tiers} \ {0} /\ issued = tokens["full"]
  BY DEF Verdaccio!Init
<1>2. /\ store = [named |-> tokens # Verdaccio!NoCopy, tokens |-> tokens] /\ reserved = {tokens["full"]} \ {0}
      /\ memory = [p \in Processes |-> Verdaccio!NoCopy] /\ retired = [p \in Processes |-> {}]
      /\ pc = [p \in Processes |-> "idle"] /\ local = [p \in Processes |-> 0]
      /\ req = [p \in Processes |-> NoRequest] /\ answer = [p \in Processes |-> NoToken]
      /\ asked = [p \in Processes |-> FALSE]
      /\ ended = {} /\ good = {tokens[t] : t \in Verdaccio!Tiers} \ {0} /\ issued = tokens["full"]
  BY <1>1 DEF Verdaccio!ProcessInit, Verdaccio!NoRequest, NoRequest, Verdaccio!NoToken, NoToken
<1>3. /\ Verdaccio!NoCopy \in VerdaccioCopies /\ \A u \in Verdaccio!Tiers : Verdaccio!NoCopy[u] = 0
      /\ "read" \in Verdaccio!Tiers /\ "full" \in Verdaccio!Tiers
      /\ \A u \in Verdaccio!Tiers : u = "read" \/ u = "full"
  BY DEF VerdaccioCopies, Verdaccio!NoCopy, Verdaccio!Tiers
<1>4. PICK pair : pair = [read |-> 1, full |-> 2]
  OBVIOUS
<1>5. pair \in VerdaccioCopies /\ pair["read"] = 1 /\ pair["full"] = 2
  BY <1>4 DEF VerdaccioCopies, Verdaccio!Tiers
<1>6. tokens = Verdaccio!NoCopy \/ tokens = pair
  BY <1>4
<1>7. /\ tokens \in VerdaccioCopies /\ issued \in {0, 2} /\ reserved = {issued} \ {0}
      /\ \/ tokens["read"] = 0 /\ tokens["full"] = 0 /\ issued = 0
         \/ tokens["read"] = 1 /\ tokens["full"] = 2 /\ issued = 2
  BY <1>2, <1>3, <1>5, <1>6
<1>8. /\ good \subseteq 1..issued /\ reserved \subseteq 1..issued /\ issued \in Nat
      /\ \A t \in good : \E u \in Verdaccio!Tiers : tokens[u] = t
      /\ \A u \in Verdaccio!Tiers : tokens[u] = 0 \/ tokens[u] \in 1..issued
      /\ tokens["read"] \notin reserved
  BY <1>2, <1>3, <1>7
<1>9. Shared
  BY <1>2, <1>8, SharedInit
<1>10. store \in VerdaccioAccount /\ store.tokens = tokens /\ (~store.named => tokens = Verdaccio!NoCopy)
  BY <1>2, <1>7 DEF VerdaccioAccount
<1>11. VerdaccioStored
  <2>1. 0 \notin good
    BY <1>8
  <2> QED
    BY <1>2, <1>3, <1>8, <1>10, <2>1 DEF VerdaccioStored
<1>12. VerdaccioKept
  BY <1>8, <1>10 DEF VerdaccioKept
<1>13. ASSUME NEW p \in Processes
       PROVE  VerdaccioProcess(p) /\ pc[p] = "idle"
  <2>1. VerdaccioHolding(p, Verdaccio!NoCopy)
    BY <1>3, <1>8 DEF VerdaccioHolding, VerdaccioFree, VerdaccioSeen
  <2> QED
    BY <1>2, <2>1 DEF VerdaccioProcess
<1>14. VerdaccioAsks
  BY <1>2, NothingWritten DEF VerdaccioAsks, Yes
<1> QED
  BY <1>2, <1>8, <1>9, <1>11, <1>12, <1>13, <1>14 DEF VerdaccioInv, VerdaccioMints

(* Every action keeps the invariant.                                       *)
LEMMA VerdaccioNext ==
    ASSUME VerdaccioInv, Verdaccio!Next
    PROVE  VerdaccioInv'
<1>1. PICK p \in Processes :
        \/ \E r \in Verdaccio!Request :
             \/ Verdaccio!Get(p, r) \/ Verdaccio!Erase(p, r) \/ Verdaccio!Brought(p, r)
             \/ Verdaccio!Login(p, r) \/ Verdaccio!Logout(p, r)
        \/ Verdaccio!RetryChecked(p) \/ Verdaccio!Approved(p) \/ Verdaccio!LoggedIn(p)
        \/ Verdaccio!MintRead(p) \/ Verdaccio!MintFull(p) \/ Verdaccio!NoSecondToken(p)
        \/ Verdaccio!Revoke(p) \/ Verdaccio!StoreLogin(p) \/ Verdaccio!CallFails(p) \/ Verdaccio!Stop(p)
  BY DEF Verdaccio!Next
<1>2. CASE \E r \in Verdaccio!Request :
             \/ Verdaccio!Get(p, r) \/ Verdaccio!Erase(p, r) \/ Verdaccio!Brought(p, r)
             \/ Verdaccio!Login(p, r) \/ Verdaccio!Logout(p, r)
  BY <1>2, VerdaccioGet, VerdaccioErase, VerdaccioBrought, VerdaccioLogin, VerdaccioLogout
<1>3. CASE Verdaccio!RetryChecked(p) \/ Verdaccio!Approved(p)
  BY <1>3, VerdaccioRetryChecked
<1>4. CASE Verdaccio!LoggedIn(p)
  BY <1>4, VerdaccioLogin
<1>5. CASE Verdaccio!MintRead(p) \/ Verdaccio!MintFull(p) \/ Verdaccio!NoSecondToken(p)
  BY <1>5, VerdaccioMintRead, VerdaccioMintFull, VerdaccioNoSecondToken
<1>6. CASE Verdaccio!Revoke(p) \/ Verdaccio!StoreLogin(p) \/ Verdaccio!CallFails(p) \/ Verdaccio!Stop(p)
  BY <1>6, VerdaccioRevoke, VerdaccioStoreLogin, VerdaccioCallFails, VerdaccioStop
<1> QED
  BY <1>1, <1>2, <1>3, <1>4, <1>5, <1>6

-----------------------------------------------------------------------------
(* A write is answered past its prompt.                                    *)

(* An answer with a yes, if it is to a write.                              *)
LEMMA VerdaccioAnswered ==
    ASSUME VerdaccioInv, VerdaccioAsks, NEW p \in Processes, NEW r, NEW a, a.write => a.asked,
           Verdaccio!AtOnce(p, r, a) \/ Verdaccio!Reply(p, a) \/ Verdaccio!Answers(p, r, a)
    PROVE  VerdaccioAsks'
<1>1. AtOnce(p, r, a) \/ Reply(p, a)
  BY VerdaccioShared DEF Verdaccio!Answers
<1>2. OthersWait(p) /\ answer'[p] = a
  BY <1>1, Asking DEF VerdaccioInv, Shared
<1> QED
  BY <1>2 DEF OthersWait, VerdaccioAsks, Yes

(* A step that answers with no credential.                                 *)
LEMMA VerdaccioUnanswered ==
    ASSUME VerdaccioInv, VerdaccioAsks, NEW p \in Processes, NEW r,
           \/ \E what : \/ Verdaccio!AtOnce(p, r, Verdaccio!Failed(what)) \/ Verdaccio!Reply(p, Verdaccio!Failed(what))
                       \/ Verdaccio!Answers(p, r, Verdaccio!Failed(what))
           \/ Verdaccio!AtOnce(p, r, Verdaccio!NoToken) \/ Verdaccio!Reply(p, Verdaccio!NoToken)
           \/ \E step, values : \/ Verdaccio!Begin(p, r, step, values) \/ Verdaccio!GoOn(p, step, values)
                               \/ Verdaccio!Awaits(p, r, step, values)
           \/ \E fresh : Verdaccio!Restart(p, fresh)
    PROVE  VerdaccioAsks'
<1>1. \/ \E what : Verdaccio!AtOnce(p, r, Verdaccio!Failed(what)) \/ Verdaccio!Reply(p, Verdaccio!Failed(what))
      \/ Verdaccio!AtOnce(p, r, Verdaccio!NoToken) \/ Verdaccio!Reply(p, Verdaccio!NoToken)
      \/ \E step, values : Begin(p, r, step, values) \/ GoOn(p, step, values)
      \/ \E fresh : Verdaccio!Restart(p, fresh)
  BY VerdaccioShared DEF Verdaccio!Answers, Verdaccio!Awaits
<1>2. ~ Verdaccio!NoToken.write /\ \A what : ~ Verdaccio!Failed(what).write
  BY NothingWritten, VerdaccioShared
<1>3. ASSUME NEW step, NEW values, Begin(p, r, step, values) \/ GoOn(p, step, values)
      PROVE  VerdaccioAsks'
  <2>1. OthersWait(p) /\ (~ answer'[p].write \/ answer'[p] = answer[p])
    BY <1>3, Asking DEF VerdaccioInv, Shared
  <2> QED
    BY <2>1 DEF OthersWait, VerdaccioAsks, Yes
<1>4. ASSUME NEW fresh, Verdaccio!Restart(p, fresh)
      PROVE  VerdaccioAsks'
  <2>1. OthersWait(p) /\ ~ answer'[p].write
    BY <1>4, Asking, VerdaccioShared DEF VerdaccioInv, Shared
  <2> QED
    BY <2>1 DEF OthersWait, VerdaccioAsks, Yes
<1> QED
  BY <1>1, <1>2, <1>3, <1>4, VerdaccioAnswered

(* A get, past its checks.                                                 *)
LEMMA VerdaccioAsksServe ==
    ASSUME VerdaccioInv, VerdaccioAsks, NEW p \in Processes, NEW r, NEW tier, NEW values,
           tier = "read" => ~ r.write, Verdaccio!Serve(p, r, tier, values)
    PROVE  VerdaccioAsks'
<1>1. PICK a : a = Verdaccio!Gives(p, r, Verdaccio!TokenOf(p, tier), FALSE)
  OBVIOUS
<1>2. a.write = r.write
  BY <1>1 DEF Verdaccio!Gives
<1>3. \/ Verdaccio!Answers(p, r, Verdaccio!Failed("other"))
      \/ tier = "read" /\ Verdaccio!Answers(p, r, a)
      \/ \E step, v : Verdaccio!Awaits(p, r, step, v)
  BY <1>1 DEF Verdaccio!Serve, Verdaccio!Releases
<1> QED
  BY <1>2, <1>3, VerdaccioAnswered, VerdaccioUnanswered

(* Every action keeps what is known of the question.                       *)
LEMMA VerdaccioAsksNext ==
    ASSUME VerdaccioInv, VerdaccioAsks, Verdaccio!Next
    PROVE  VerdaccioAsks'
<1>1. PICK p \in Processes :
        \/ \E r \in Verdaccio!Request :
             \/ Verdaccio!Get(p, r) \/ Verdaccio!Erase(p, r) \/ Verdaccio!Brought(p, r)
             \/ Verdaccio!Login(p, r) \/ Verdaccio!Logout(p, r)
        \/ Verdaccio!RetryChecked(p) \/ Verdaccio!Approved(p) \/ Verdaccio!LoggedIn(p)
        \/ Verdaccio!MintRead(p) \/ Verdaccio!MintFull(p) \/ Verdaccio!NoSecondToken(p)
        \/ Verdaccio!Revoke(p) \/ Verdaccio!StoreLogin(p) \/ Verdaccio!CallFails(p) \/ Verdaccio!Stop(p)
  BY DEF Verdaccio!Next
<1>2. ASSUME NEW r, Verdaccio!Get(p, r)
      PROVE  VerdaccioAsks'
  <2>1. PICK tier : tier = IF r.write THEN "full" ELSE "read"
    OBVIOUS
  <2>2. \/ \E what : Verdaccio!AtOnce(p, r, Verdaccio!Failed(what))
        \/ \E step, values : Verdaccio!Begin(p, r, step, values)
        \/ Verdaccio!Serve(p, r, tier, Verdaccio!Begun)
    BY <1>2, <2>1 DEF Verdaccio!Get
  <2>3. tier = "read" => ~ r.write
    BY <2>1
  <2> QED
    BY <2>2, <2>3, VerdaccioUnanswered, VerdaccioAsksServe
<1>3. ASSUME NEW r, Verdaccio!Erase(p, r) \/ Verdaccio!Brought(p, r) \/ Verdaccio!Login(p, r) \/ Verdaccio!Logout(p, r)
      PROVE  VerdaccioAsks'
  <2>1. \/ \E what : Verdaccio!AtOnce(p, r, Verdaccio!Failed(what))
        \/ Verdaccio!AtOnce(p, r, Verdaccio!NoToken)
        \/ \E step, values : Verdaccio!Begin(p, r, step, values)
    BY <1>3 DEF Verdaccio!Erase, Verdaccio!Brought, Verdaccio!Login, Verdaccio!Logout
  <2> QED
    BY <2>1, VerdaccioUnanswered
<1>4. CASE Verdaccio!RetryChecked(p)
  BY <1>4, VerdaccioUnanswered, VerdaccioAsksServe DEF Verdaccio!RetryChecked
<1>5. CASE Verdaccio!Approved(p)
  BY <1>5, VerdaccioApproved, VerdaccioAnswered, VerdaccioUnanswered
<1>6. CASE Verdaccio!LoggedIn(p) \/ Verdaccio!MintRead(p) \/ Verdaccio!MintFull(p) \/ Verdaccio!NoSecondToken(p)
  BY <1>6, VerdaccioUnanswered
     DEF Verdaccio!LoggedIn, Verdaccio!MintRead, Verdaccio!MintFull, Verdaccio!NoSecondToken
<1>7. CASE Verdaccio!Revoke(p) \/ Verdaccio!StoreLogin(p) \/ Verdaccio!CallFails(p) \/ Verdaccio!Stop(p)
  BY <1>7, VerdaccioUnanswered
     DEF Verdaccio!Revoke, Verdaccio!StoreLogin, Verdaccio!CallFails, Verdaccio!CallError, Verdaccio!Stop
<1> QED
  BY <1>1, <1>2, <1>3, <1>4, <1>5, <1>6, <1>7

(* The invariant gives the properties.                                     *)
LEMMA VerdaccioSafe ==
    ASSUME VerdaccioInv, VerdaccioAsks
    PROVE  /\ RetiredNotGiven /\ ReleasedOnYes
           /\ Verdaccio!NothingForgotten /\ Verdaccio!RemovedStaysRemoved
<1>1. RetiredNotGiven /\ ReleasedOnYes
  BY SharedSafe, YesSafe DEF VerdaccioInv, VerdaccioAsks
<1>2. \A p, t : VerdaccioHas(p, t) => t \in Verdaccio!InHand(p)
  BY DEF VerdaccioHas, Verdaccio!InHand
<1>3. Verdaccio!NothingForgotten
  <2>1. SUFFICES ASSUME NEW t \in good \ lost, t \notin Verdaccio!TokensOf(store)
                 PROVE  \E p \in Processes : t \in Verdaccio!InHand(p)
    BY DEF Verdaccio!NothingForgotten
  <2>2. t # 0
    BY DEF VerdaccioInv
  <2> QED
    BY <1>2, <2>1, <2>2, VerdaccioTokens DEF VerdaccioInv, VerdaccioKept
<1>4. Verdaccio!RemovedStaysRemoved
  BY VerdaccioTokens DEF VerdaccioInv, VerdaccioStored, Verdaccio!RemovedStaysRemoved
<1> QED
  BY <1>1, <1>3, <1>4

-----------------------------------------------------------------------------
(* AWS CodeArtifact.                                                       *)

AwsMemory == [credentials : Nat, held : Nat]
AwsLocal  == [previous : Nat, shown : Nat, renewed : BOOLEAN]

(* What a process holds may be handed out: it only reads, and was not      *)
(* dropped.                                                                *)
AwsHolds(p) ==
    /\ memory[p] \in AwsMemory /\ memory[p].held \in 0..issued
    /\ memory[p].held \notin reserved /\ memory[p].held \notin retired[p] \ {0}
    /\ pc[p] # "idle" => local[p] \in AwsLocal

AwsInv == Shared /\ store \in Nat /\ \A p \in Processes : AwsHolds(p)

(* A write goes on only past its prompt, or in a job with no person.       *)
AwsAllowed(p, r) == r.write => Asked(p) \/ (ci /\ ~ r.interactive)

AwsYes(p) == pc[p] \notin {"idle", "confirm"} => AwsAllowed(p, req[p])

AwsAsks == \A p \in Processes : Yes(p) /\ AwsYes(p)

(* The module's own copies of the shared operators are the operators.      *)
LEMMA AwsShared ==
    /\ \A p, r, step, values : Aws!Begin(p, r, step, values) <=> Begin(p, r, step, values)
    /\ \A p, r, a : Aws!AtOnce(p, r, a) <=> AtOnce(p, r, a)
    /\ \A p, step, values : Aws!GoOn(p, step, values) <=> GoOn(p, step, values)
    /\ \A p, a : Aws!Reply(p, a) <=> Reply(p, a)
    /\ \A p, fresh : Aws!Restart(p, fresh) <=> Restart(p, fresh)
    /\ \A what : Aws!Failed(what) = Failed(what)
    /\ Aws!NoToken = NoToken
BY DEF Aws!Begin, Begin, Aws!AtOnce, AtOnce, Aws!Take, Take, Aws!GoOn, GoOn, Aws!Reply, Reply,
       Aws!Restart, Restart, Aws!NoRequest, NoRequest, Aws!NoToken, NoToken, Aws!Failed, Failed,
       Aws!Asked, Asked

(* The parts of a step that are the same for all of them.                  *)
LEMMA AwsStep ==
    ASSUME AwsInv, NEW p \in Processes, OthersWait(p), NEW m \in AwsMemory, Holds(p, m),
           NEW d, Drops(p, d), d \subseteq 0..issued,
           issued' \in Nat, issued' >= issued, reserved' \subseteq reserved \cup ((issued + 1)..issued'),
           \/ answer'[p].token = 0
           \/ /\ pc'[p] = "idle" /\ answer'[p].token \in 0..issued' /\ answer'[p].token \notin d
              /\ answer'[p].token \in reserved' => answer'[p].asked,
           m.held = 0 \/ (m.held \in 0..issued' /\ m.held \notin reserved' /\ m.held \notin d),
           pc'[p] # "idle" => local'[p] \in AwsLocal, store' \in Nat
    PROVE  AwsInv'
<1>1. Shared /\ issued \in Nat /\ d \subseteq 0..issued'
  BY DEF AwsInv, Shared, Shape
<1>2. Shared'
  BY <1>1, SharedStep
<1>3. reserved' \subseteq 1..issued'
  BY <1>2 DEF Shared, Answered
<1>4. AwsHolds(p)'
  BY <1>1, <1>3 DEF AwsHolds, Holds, Drops
<1>5. ASSUME NEW q \in Processes \ {p}
      PROVE  AwsHolds(q)'
  <2>1. /\ AwsHolds(q) /\ memory'[q] = memory[q] /\ retired'[q] = retired[q]
        /\ pc'[q] = pc[q] /\ local'[q] = local[q]
    BY DEF AwsInv, Holds, Drops, OthersWait
  <2>2. memory[q].held \in 0..issued' /\ memory[q].held \notin reserved'
    BY <1>1, <2>1 DEF AwsHolds
  <2> QED
    BY <2>1, <2>2 DEF AwsHolds
<1> QED
  BY <1>2, <1>4, <1>5 DEF AwsInv

(* What the invariant says for a step of p: types, and how memory and      *)
(* drops go.                                                               *)
LEMMA AwsTypes ==
    ASSUME AwsInv, NEW p \in Processes
    PROVE  /\ Shape /\ Answered /\ issued \in Nat /\ store \in Nat /\ memory[p] \in AwsMemory
           /\ memory[p].held \in 0..issued /\ memory[p].held \notin reserved
           /\ memory[p].held = 0 \/ memory[p].held \notin retired[p]
           /\ retired[p] \subseteq 0..issued
           /\ UNCHANGED memory => Holds(p, memory[p])
           /\ UNCHANGED retired => Drops(p, retired[p])
           /\ pc[p] # "idle" => local[p] \in AwsLocal /\ local[p].previous \in Nat /\ local[p].shown \in Nat
           /\ Aws!Begun \in AwsLocal
           /\ Aws!Nothing \in AwsMemory /\ Aws!Nothing.held = 0
<1>1. /\ Shared /\ Shape /\ Answered /\ issued \in Nat /\ store \in Nat /\ AwsHolds(p) /\ Dropped(p)
  BY DEF AwsInv, Shared, Shape
<1>2. /\ UNCHANGED memory => Holds(p, memory[p])
      /\ UNCHANGED retired => Drops(p, retired[p])
  BY <1>1, HoldsThis, DropsThis
<1>3. pc[p] # "idle" => local[p].previous \in Nat /\ local[p].shown \in Nat
  BY <1>1 DEF AwsHolds, AwsLocal
<1>4. Aws!Begun \in AwsLocal /\ Aws!Nothing \in AwsMemory /\ Aws!Nothing.held = 0
  BY <1>1 DEF Aws!Begun, Aws!Nothing, AwsLocal, AwsMemory
<1> QED
  BY <1>1, <1>2, <1>3, <1>4 DEF AwsHolds, Dropped

(* A request that comes, goes on or fails.                                 *)
LEMMA AwsQuiet ==
    ASSUME AwsInv, NEW p \in Processes,
           NEW steps, Moves(p, steps, AwsLocal, {memory[p].held}),
           NEW m \in AwsMemory, m.held \in {0, memory[p].held}, Holds(p, m),
           store' \in Nat, issued' \in Nat, issued' >= issued, UNCHANGED <<reserved, retired>>
    PROVE  AwsInv'
<1>1. /\ OthersWait(p) /\ (pc'[p] # "idle" => local'[p] \in AwsLocal)
      /\ answer'[p].token = 0 \/ (pc'[p] = "idle" /\ answer'[p].token = memory[p].held)
  BY DEF Moves
<1>2. memory[p].held \in 0..issued'
  BY AwsTypes
<1>3. Drops(p, retired[p]) /\ retired[p] \subseteq 0..issued
  BY AwsTypes
<1>4. \/ memory[p].held = 0
      \/ memory[p].held \in 0..issued' /\ memory[p].held \notin reserved' /\ memory[p].held \notin retired[p]
  BY <1>2, AwsTypes
<1> QED
  BY <1>1, <1>2, <1>3, <1>4, AwsStep

(* A request that awaits what comes next, at its start or after an await.  *)
LEMMA AwsAwaits ==
    ASSUME AwsInv, NEW p \in Processes, NEW r, NEW steps, "idle" \in steps, NEW tokens
    PROVE  /\ \A step \in steps, values \in AwsLocal :
                  Aws!Awaits(p, r, step, values) => Moves(p, steps, AwsLocal, tokens)
           /\ \A what : Aws!Answers(p, r, Aws!Failed(what)) => Moves(p, steps, AwsLocal, tokens)
<1>1. Shape /\ Answered
  BY DEF AwsInv, Shared
<1>2. ASSUME NEW step \in steps, NEW values \in AwsLocal, Aws!Awaits(p, r, step, values)
      PROVE  Moves(p, steps, AwsLocal, tokens)
  <2>1. CASE pc[p] = "idle"
    BY <1>1, <1>2, <2>1, Moving, AwsShared DEF Aws!Awaits
  <2>2. CASE pc[p] # "idle"
    BY <1>1, <1>2, <2>2, Moving, AwsShared DEF Aws!Awaits
  <2> QED
    BY <2>1, <2>2
<1>3. ASSUME NEW what, Aws!Answers(p, r, Aws!Failed(what))
      PROVE  Moves(p, steps, AwsLocal, tokens)
  BY <1>1, <1>3, Moving, AwsShared DEF Aws!Answers
<1> QED
  BY <1>2, <1>3

AwsSteps == {"idle", "confirm", "ambient", "portal", "caller", "device", "mfa", "assume", "mint"}

LEMMA AwsIdentity ==
    ASSUME AwsInv, NEW p \in Processes, NEW r, NEW tokens, Aws!Identity(p, r)
    PROVE  Moves(p, AwsSteps, AwsLocal, tokens)
<1>1. Aws!WithKey(r) \in AwsSteps /\ {"idle", "ambient", "portal"} \subseteq AwsSteps
  BY DEF Aws!WithKey, AwsSteps
<1> QED
  BY <1>1, AwsAwaits, AwsTypes DEF Aws!Identity

LEMMA AwsGet ==
    ASSUME AwsInv, NEW p \in Processes, NEW r, Aws!Get(p, r)
    PROVE  AwsInv'
<1> DEFINE tokens == {memory[p].held}
           moves  == Moves(p, AwsSteps, AwsLocal, tokens)
           stays  == moves /\ UNCHANGED memory
           m      == [memory[p] EXCEPT !.held = Aws!Held(p, r)]
<1>1. UNCHANGED <<store, issued, reserved, retired>>
  BY DEF Aws!Get, Aws!service, Aws!history, service, history
<1>2. ASSUME NEW what, Aws!AtOnce(p, r, Aws!Failed(what))
      PROVE  moves
  BY <1>2, Moving, AwsShared, AwsTypes DEF AwsSteps
<1>3. ASSUME Aws!AtOnce(p, r, Aws!Gives(p, r, Aws!Held(p, r), FALSE))
      PROVE  moves
  <2>a. PICK a : a = Aws!Gives(p, r, Aws!Held(p, r), FALSE)
    OBVIOUS
  <2>1. a.token \in tokens \cup {0}
    BY <2>a DEF Aws!Held, Aws!Gives
  <2>2. AtOnce(p, r, a)
    BY <1>3, <2>a, AwsShared
  <2> QED
    BY <2>1, <2>2, Moving, AwsTypes DEF AwsSteps
<1>4. ASSUME Aws!Begin(p, r, "confirm", Aws!Begun)
      PROVE  moves
  BY <1>4, Moving, AwsShared, AwsTypes DEF AwsSteps
<1>5. ASSUME Aws!Identity(p, r)
      PROVE  moves
  BY <1>5, AwsIdentity
<1>6. stays \/ (moves /\ memory' = [memory EXCEPT ![p].held = Aws!Held(p, r)])
  BY <1>2, <1>3, <1>4, <1>5 DEF Aws!Get
<1>7. CASE stays
  BY <1>1, <1>7, AwsQuiet, AwsTypes
<1>8. CASE moves /\ memory' = [memory EXCEPT ![p].held = Aws!Held(p, r)]
  <2>1. m \in AwsMemory /\ m.held \in {0, memory[p].held}
    BY AwsTypes DEF Aws!Held, AwsMemory
  <2>2. memory' = [memory EXCEPT ![p] = m]
    BY <1>8, AwsTypes DEF AwsMemory
  <2> HIDE DEF m
  <2>3. Shape /\ issued' \in Nat /\ issued' >= issued /\ store' \in Nat
    BY <1>1, AwsTypes
  <2>4. Holds(p, m)
    BY <2>2, <2>3, HoldsThis
  <2> QED
    BY <1>1, <1>8, <2>1, <2>3, <2>4, AwsQuiet
<1> QED
  BY <1>6, <1>7, <1>8

LEMMA AwsOnward ==
    ASSUME AwsInv, NEW p \in Processes,
           Aws!Confirm(p) \/ Aws!CallerOk(p) \/ Aws!Mfa(p) \/ Aws!Assume(p)
    PROVE  AwsInv'
<1> DEFINE moves == Moves(p, AwsSteps, AwsLocal, {memory[p].held})
<1>1. UNCHANGED <<store, issued, memory, reserved, retired>>
  BY DEF Aws!Confirm, Aws!CallerOk, Aws!Mfa, Aws!Assume, Aws!service, Aws!history, service, history
<1>2. pc[p] # "idle" /\ local[p] \in AwsLocal
  BY AwsTypes DEF Aws!Confirm, Aws!CallerOk, Aws!Mfa, Aws!Assume
<1>3. ASSUME NEW step \in AwsSteps, Aws!GoOn(p, step, local[p])
      PROVE  moves
  BY <1>2, <1>3, Moving, AwsShared, AwsTypes DEF AwsSteps
<1>4. ASSUME Aws!Reply(p, Aws!Failed("other")) \/ Aws!Reply(p, Aws!NoToken)
      PROVE  moves
  BY <1>4, Moving, NoTokenInIt, AwsShared, AwsTypes DEF AwsSteps
<1>5. Aws!WithKey(req[p]) \in AwsSteps /\ {"assume", "mint"} \subseteq AwsSteps
  BY DEF Aws!WithKey, AwsSteps
<1>6. moves
  BY <1>3, <1>4, <1>5, AwsIdentity DEF Aws!Confirm, Aws!CallerOk, Aws!Mfa, Aws!Assume
<1> QED
  BY <1>1, <1>6, AwsQuiet, AwsTypes

(* What is changed of the sign-in leaves what is held as it is.            *)
LEMMA AwsCredentials ==
    ASSUME AwsInv, NEW p \in Processes, NEW c \in Nat, memory' = [memory EXCEPT ![p].credentials = c]
    PROVE  \E m \in AwsMemory : m.held = memory[p].held /\ Holds(p, m)
<1> DEFINE m == [memory[p] EXCEPT !.credentials = c]
<1>1. m \in AwsMemory /\ m.held = memory[p].held /\ memory' = [memory EXCEPT ![p] = m]
  BY AwsTypes DEF AwsMemory
<1> HIDE DEF m
<1> QED
  BY <1>1, HoldsThis, AwsTypes

LEMMA AwsPortal ==
    ASSUME AwsInv, NEW p \in Processes, Aws!Portal(p)
    PROVE  AwsInv'
<1>1. /\ pc[p] # "idle" /\ UNCHANGED <<store, issued, reserved, retired>>
      /\ memory' = [memory EXCEPT ![p].credentials = local[p].shown]
  BY DEF Aws!Portal, Aws!service, Aws!history, service, history
<1>2. PICK m \in AwsMemory : m.held = memory[p].held /\ Holds(p, m)
  BY <1>1, AwsCredentials, AwsTypes
<1>3. Moves(p, AwsSteps, AwsLocal, {memory[p].held})
  BY <1>1, Moving, AwsShared, AwsTypes DEF Aws!Portal, AwsSteps
<1> QED
  BY <1>1, <1>2, <1>3, AwsQuiet, AwsTypes

(* A request that ends with an error, a login with what it found restored. *)
LEMMA AwsFails ==
    ASSUME AwsInv, NEW p \in Processes, pc[p] # "idle", Aws!Reply(p, Aws!Failed("other")),
           \/ Aws!Restore(p, local[p].previous)
           \/ memory' = [memory EXCEPT ![p].credentials = 0] /\ UNCHANGED store
           \/ UNCHANGED <<memory, store>>,
           UNCHANGED <<issued, reserved, retired>>
    PROVE  AwsInv'
<1>1. store' \in Nat /\ issued' \in Nat /\ issued' >= issued
  BY AwsTypes DEF Aws!Restore
<1>2. PICK m \in AwsMemory : m.held = memory[p].held /\ Holds(p, m)
  <2>1. CASE memory' = [memory EXCEPT ![p].credentials = 0]
    BY <2>1, AwsCredentials
  <2>2. CASE UNCHANGED memory
    BY <2>2, AwsTypes
  <2> QED
    BY <2>1, <2>2 DEF Aws!Restore
<1>3. Moves(p, AwsSteps, AwsLocal, {memory[p].held})
  BY Moving, AwsShared, AwsTypes DEF AwsSteps
<1> QED
  BY <1>1, <1>2, <1>3, AwsQuiet

LEMMA AwsLapsed ==
    ASSUME AwsInv, NEW p \in Processes, Aws!Lapsed(p)
    PROVE  AwsInv'
<1>1. pc[p] # "idle" /\ UNCHANGED <<issued, reserved, retired>>
  BY DEF Aws!Lapsed, Aws!service, service
<1>2. CASE Aws!Reply(p, Aws!Failed("other"))
  BY <1>1, <1>2, AwsFails DEF Aws!Lapsed
<1>3. CASE /\ Aws!GoOn(p, "device", local[p])
           /\ memory' = [memory EXCEPT ![p].credentials = 0] /\ UNCHANGED store
  <2>1. PICK m \in AwsMemory : m.held = memory[p].held /\ Holds(p, m)
    BY <1>3, AwsCredentials
  <2>2. Moves(p, AwsSteps, AwsLocal, {memory[p].held})
    BY <1>1, <1>3, Moving, AwsShared, AwsTypes DEF AwsSteps
  <2> QED
    BY <1>1, <1>3, <2>1, <2>2, AwsQuiet, AwsTypes
<1> QED
  BY <1>2, <1>3 DEF Aws!Lapsed

LEMMA AwsCallFails ==
    ASSUME AwsInv, NEW p \in Processes, Aws!CallFails(p)
    PROVE  AwsInv'
BY AwsFails DEF Aws!CallFails, Aws!CallError, Aws!service, service

LEMMA AwsSignedIn ==
    ASSUME AwsInv, NEW p \in Processes, Aws!SignedIn(p)
    PROVE  AwsInv'
<1> DEFINE values == [local[p] EXCEPT !.shown = issued + 1, !.renewed = TRUE]
<1>1. /\ pc[p] = "device" /\ issued' = issued + 1 /\ UNCHANGED <<reserved, retired>>
      /\ store' = issued + 1 /\ memory' = [memory EXCEPT ![p].credentials = 0]
      /\ GoOn(p, "portal", values)
  BY AwsShared DEF Aws!SignedIn, Aws!SignsIn, Aws!Restore, Aws!Issue, Aws!New
<1>2. issued \in Nat /\ Shape /\ Answered /\ local[p] \in AwsLocal
  BY <1>1, AwsTypes
<1>a. values \in AwsLocal
  <2>1. issued + 1 \in Nat
    BY <1>2
  <2> QED
    BY <1>2, <2>1 DEF AwsLocal
<1> HIDE DEF values
<1>3. PICK m \in AwsMemory : m.held = memory[p].held /\ Holds(p, m)
  BY <1>1, AwsCredentials
<1>4. Moves(p, AwsSteps, AwsLocal, {memory[p].held})
  BY <1>1, <1>2, <1>a, Moving DEF AwsSteps
<1>5. store' \in Nat /\ issued' \in Nat /\ issued' >= issued
  BY <1>1, <1>2
<1> QED
  BY <1>1, <1>3, <1>4, <1>5, AwsQuiet

LEMMA AwsMint ==
    ASSUME AwsInv, AwsAsks, NEW p \in Processes, Aws!Mint(p)
    PROVE  AwsInv'
<1> DEFINE n == issued + 1
           a == Aws!Gives(p, req[p], n, ci /\ ~ req[p].interactive)
           m == IF req[p].write THEN memory[p] ELSE [memory[p] EXCEPT !.held = n]
<1>1. /\ pc[p] = "mint" /\ issued' = n /\ Reply(p, a) /\ UNCHANGED <<store, retired>>
      /\ memory' = IF req[p].write THEN memory ELSE [memory EXCEPT ![p].held = n]
      /\ reserved' = IF req[p].write THEN reserved \cup {n} ELSE reserved
  BY AwsShared DEF Aws!Mint, Aws!Mints, Aws!Issue, Aws!New
<1>2. a.token = n /\ (req[p].write => a.asked)
  <2>1. AwsAllowed(p, req[p])
    BY <1>1 DEF AwsAsks, AwsYes
  <2>2. a.token = n
    BY DEF Aws!Gives
  <2> QED
    BY <2>1, <2>2 DEF AwsAllowed, Aws!Gives, Aws!Asked, Asked
<1>3. m \in AwsMemory /\ (m.held = memory[p].held \/ (m.held = n /\ ~ req[p].write))
  BY AwsTypes DEF AwsMemory
<1>4. Shape /\ issued \in Nat /\ n \in Nat
  BY AwsTypes
<1>5. memory' = [memory EXCEPT ![p] = m]
  <2>1. CASE req[p].write
    BY <1>1, <1>4, <2>1 DEF Shape, OfProcesses
  <2>2. CASE ~ req[p].write
    BY <1>1, <2>2
  <2> QED
    BY <2>1, <2>2
<1> HIDE DEF a, m
<1>6. Holds(p, m) /\ Drops(p, retired[p])
  BY <1>1, <1>4, <1>5, HoldsThis, DropsThis
<1>7. OthersWait(p) /\ pc'[p] = "idle" /\ answer'[p] = a
  BY <1>1, <1>4, Replies DEF Turned
<1>8. n \notin retired[p] /\ n \notin reserved /\ retired[p] \subseteq 0..issued
  BY <1>4, AwsTypes DEF Answered
<1>9. /\ answer'[p].token \in 0..issued' /\ answer'[p].token \notin retired[p]
      /\ answer'[p].token \in reserved' => answer'[p].asked
  BY <1>1, <1>2, <1>4, <1>7, <1>8
<1>10. m.held = 0 \/ (m.held \in 0..issued' /\ m.held \notin reserved' /\ m.held \notin retired[p])
  <2>1. CASE m.held = n /\ ~ req[p].write
    BY <1>1, <1>4, <1>8, <2>1
  <2>2. CASE m.held = memory[p].held
    BY <1>1, <1>4, <2>2, AwsTypes
  <2> QED
    BY <1>3, <2>1, <2>2
<1>11. /\ issued' \in Nat /\ issued' >= issued /\ store' \in Nat
       /\ reserved' \subseteq reserved \cup ((issued + 1)..issued')
  BY <1>1, <1>4, AwsTypes
<1> QED
  BY <1>3, <1>6, <1>7, <1>8, <1>9, <1>10, <1>11, AwsStep

(* The read token goes, from memory and from what may be handed out.       *)
LEMMA AwsDrops ==
    ASSUME AwsInv, NEW p \in Processes, NEW r, NEW a, AtOnce(p, r, a), a.token = 0,
           NEW m \in AwsMemory, m.held = 0, memory' = [memory EXCEPT ![p] = m],
           retired' = [retired EXCEPT ![p] = @ \cup {memory[p].held}],
           store' \in Nat, UNCHANGED <<issued, reserved>>
    PROVE  AwsInv'
<1> DEFINE d == retired[p] \cup {memory[p].held}
<1>1. Shape /\ issued \in Nat /\ d \subseteq 0..issued
  BY AwsTypes
<1>2. retired' = [retired EXCEPT ![p] = d]
  BY <1>1 DEF Shape, OfProcesses
<1> HIDE DEF d
<1>3. Holds(p, m) /\ Drops(p, d)
  BY <1>1, <1>2, HoldsThis, DropsThis
<1>4. OthersWait(p) /\ pc'[p] = "idle" /\ answer'[p].token = 0
  BY <1>1, AnsweredAtOnce DEF Turned
<1>5. issued' \in Nat /\ issued' >= issued /\ reserved' \subseteq reserved
  BY <1>1
<1> QED
  BY <1>1, <1>3, <1>4, <1>5, AwsStep

LEMMA AwsErase ==
    ASSUME AwsInv, NEW p \in Processes, NEW r, Aws!Erase(p, r)
    PROVE  AwsInv'
<1> DEFINE m == [memory[p] EXCEPT !.held = 0]
<1>1. /\ AtOnce(p, r, NoToken) /\ UNCHANGED <<store, issued, reserved>>
      /\ retired' = [retired EXCEPT ![p] = @ \cup {memory[p].held}]
  BY AwsShared DEF Aws!Erase, Aws!service, service
<1>2. memory' = [memory EXCEPT ![p] = m] /\ m \in AwsMemory /\ m.held = 0
  BY AwsTypes DEF Aws!Erase, AwsMemory
<1> HIDE DEF m
<1> QED
  BY <1>1, <1>2, AwsDrops, NoTokenInIt, AwsTypes

LEMMA AwsLogin ==
    ASSUME AwsInv, NEW p \in Processes, NEW r, Aws!Login(p, r)
    PROVE  AwsInv'
<1> DEFINE values == [Aws!Begun EXCEPT !.renewed = TRUE]
<1>1. UNCHANGED <<store, issued, memory, reserved, retired>>
  BY DEF Aws!Login, Aws!service, Aws!history, service, history
<1>2. values \in AwsLocal
  BY AwsTypes DEF AwsLocal
<1>3. Moves(p, AwsSteps, AwsLocal, {memory[p].held})
  BY <1>2, Moving, AwsShared, AwsTypes DEF Aws!Login, AwsSteps
<1> QED
  BY <1>1, <1>3, AwsQuiet, AwsTypes

LEMMA AwsLogout ==
    ASSUME AwsInv, NEW p \in Processes, NEW r, Aws!Logout(p, r)
    PROVE  AwsInv'
<1>1. UNCHANGED <<issued, reserved>>
  BY DEF Aws!Logout, Aws!service, service
<1>2. CASE AtOnce(p, r, Failed("not-found")) /\ UNCHANGED <<store, memory, ended, retired>>
  <2>1. Moves(p, AwsSteps, AwsLocal, {memory[p].held})
    BY <1>2, Moving, AwsTypes DEF AwsSteps
  <2> QED
    BY <1>1, <1>2, <2>1, AwsQuiet, AwsTypes
<1>3. CASE /\ AtOnce(p, r, NoToken) /\ store' = 0 /\ memory' = [memory EXCEPT ![p] = Aws!Nothing]
           /\ retired' = [retired EXCEPT ![p] = @ \cup {memory[p].held}]
  BY <1>1, <1>3, AwsDrops, NoTokenInIt, AwsTypes
<1> QED
  BY <1>2, <1>3, AwsShared DEF Aws!Logout

LEMMA AwsStop ==
    ASSUME AwsInv, NEW p \in Processes, Aws!Stop(p)
    PROVE  AwsInv'
<1>1. UNCHANGED <<store, issued, reserved>>
  BY DEF Aws!Stop, Aws!service, service
<1>2. /\ OthersWait(p) /\ pc'[p] = "idle" /\ answer'[p].token = 0
      /\ Holds(p, Aws!Nothing) /\ Drops(p, {})
  BY Restarts, AwsShared, AwsTypes DEF Aws!Stop, Turned
<1> QED
  BY <1>1, <1>2, AwsTypes, AwsStep

(* It starts in its invariant.                                             *)
LEMMA AwsInit ==
    ASSUME Aws!Init
    PROVE  AwsInv /\ AwsAsks
<1>1. PICK signin \in {0, 1} : Aws!ProcessInit(signin, Aws!Nothing, {}) /\ issued = 1
  BY DEF Aws!Init
<1>2. /\ store = signin /\ memory = [p \in Processes |-> Aws!Nothing]
      /\ pc = [p \in Processes |-> "idle"] /\ local = [p \in Processes |-> 0]
      /\ req = [p \in Processes |-> NoRequest] /\ answer = [p \in Processes |-> NoToken]
      /\ asked = [p \in Processes |-> FALSE] /\ reserved = {} /\ retired = [p \in Processes |-> {}]
  BY <1>1, AwsShared DEF Aws!ProcessInit, Aws!NoRequest, NoRequest
<1>3. Shared
  BY <1>1, <1>2, SharedInit
<1>4. ASSUME NEW p \in Processes
      PROVE  AwsHolds(p)
  <2>1. memory[p] = [credentials |-> 0, held |-> 0] /\ pc[p] = "idle"
    BY <1>2 DEF Aws!Nothing
  <2> QED
    BY <1>1, <1>2, <2>1 DEF AwsHolds, AwsMemory
<1>5. AwsAsks
  BY <1>2, NothingWritten DEF AwsAsks, Yes, AwsYes
<1> QED
  BY <1>2, <1>3, <1>4, <1>5 DEF AwsInv

(* Every action keeps the invariant.                                       *)
LEMMA AwsNext ==
    ASSUME AwsInv, AwsAsks, Aws!Next
    PROVE  AwsInv'
<1>1. PICK p \in Processes :
        \/ \E r \in Aws!Request : Aws!Get(p, r) \/ Aws!Erase(p, r) \/ Aws!Login(p, r) \/ Aws!Logout(p, r)
        \/ Aws!Confirm(p) \/ Aws!Portal(p) \/ Aws!CallerOk(p) \/ Aws!Lapsed(p) \/ Aws!SignedIn(p)
        \/ Aws!Mfa(p) \/ Aws!Assume(p) \/ Aws!Mint(p) \/ Aws!CallFails(p) \/ Aws!Stop(p)
  BY DEF Aws!Next
<1> QED
  BY <1>1, AwsGet, AwsErase, AwsLogin, AwsLogout, AwsOnward, AwsPortal, AwsLapsed, AwsSignedIn,
     AwsMint, AwsCallFails, AwsStop

-----------------------------------------------------------------------------
(* A write is minted for past its prompt.                                  *)

(* The request of p is all that a step has to be asked about.              *)
LEMMA AwsAsksStep ==
    ASSUME AwsAsks, NEW p \in Processes, OthersWait(p), ci' = ci, Yes(p)', AwsYes(p)'
    PROVE  AwsAsks'
<1>1. ASSUME NEW q \in Processes \ {p}
      PROVE  Yes(q)' /\ AwsYes(q)'
  BY DEF AwsAsks, OthersWait, Yes, AwsYes, AwsAllowed, Asked
<1> QED
  BY <1>1 DEF AwsAsks

(* A step that answers with no credential.                                 *)
LEMMA AwsUnanswered ==
    ASSUME AwsInv, AwsAsks, NEW p \in Processes, ci' = ci, NEW r,
           \/ \E what : Aws!AtOnce(p, r, Aws!Failed(what)) \/ Aws!Reply(p, Aws!Failed(what))
           \/ Aws!AtOnce(p, r, Aws!NoToken) \/ Aws!Reply(p, Aws!NoToken)
           \/ \E fresh : Aws!Restart(p, fresh)
    PROVE  AwsAsks'
<1>1. OthersWait(p) /\ pc'[p] = "idle" /\ ~ answer'[p].write
  BY Asking, NothingWritten, AwsShared DEF AwsInv, Shared
<1> QED
  BY <1>1, AwsAsksStep DEF Yes, AwsYes

(* An answer with a yes, if it is to a write.                              *)
LEMMA AwsAnswered ==
    ASSUME AwsInv, AwsAsks, NEW p \in Processes, ci' = ci, NEW r, NEW a, a.write => a.asked,
           AtOnce(p, r, a) \/ Reply(p, a)
    PROVE  AwsAsks'
<1>1. OthersWait(p) /\ pc'[p] = "idle" /\ answer'[p] = a
  BY Asking DEF AwsInv, Shared
<1> QED
  BY <1>1, AwsAsksStep DEF Yes, AwsYes

(* A request that begins.                                                  *)
LEMMA AwsBegins ==
    ASSUME AwsInv, AwsAsks, NEW p \in Processes, ci' = ci, NEW r, NEW step, NEW values,
           Begin(p, r, step, values), step = "confirm" \/ (r.write => ci /\ ~ r.interactive)
    PROVE  AwsAsks'
<1>1. OthersWait(p) /\ pc[p] = "idle" /\ pc'[p] = step /\ req'[p] = r /\ ~ asked'[p] /\ ~ answer'[p].write
  BY Asking DEF AwsInv, Shared
<1> QED
  BY <1>1, AwsAsksStep DEF Yes, AwsYes, AwsAllowed

(* A request that goes on past its prompt, if it is a write.               *)
LEMMA AwsGoesOn ==
    ASSUME AwsInv, AwsAsks, NEW p \in Processes, ci' = ci, NEW step, NEW values,
           GoOn(p, step, values), AwsAllowed(p, req[p])
    PROVE  AwsAsks'
<1>1. /\ OthersWait(p) /\ pc'[p] = step /\ req'[p] = req[p] /\ (Asked(p) => asked'[p])
      /\ answer'[p] = answer[p]
  BY Asking DEF AwsInv, Shared
<1>2. Yes(p)' /\ AwsYes(p)'
  BY <1>1 DEF AwsAsks, Yes, AwsYes, AwsAllowed, Asked
<1> QED
  BY <1>1, <1>2, AwsAsksStep

(* The identity that a token is minted for.                                *)
LEMMA AwsAsksIdentity ==
    ASSUME AwsInv, AwsAsks, NEW p \in Processes, ci' = ci, NEW r, Aws!Identity(p, r),
           pc[p] = "idle" => (r.write => ci /\ ~ r.interactive),
           pc[p] # "idle" => AwsAllowed(p, req[p])
    PROVE  AwsAsks'
<1>1. \/ \E what : Aws!AtOnce(p, r, Aws!Failed(what)) \/ Aws!Reply(p, Aws!Failed(what))
      \/ \E step, values : \/ pc[p] = "idle" /\ Begin(p, r, step, values)
                           \/ pc[p] # "idle" /\ GoOn(p, step, values)
  BY AwsShared DEF Aws!Identity, Aws!Awaits, Aws!Answers
<1> QED
  BY <1>1, AwsUnanswered, AwsBegins, AwsGoesOn DEF AwsAllowed

(* A get, at its start.                                                    *)
LEMMA AwsAsksGet ==
    ASSUME AwsInv, AwsAsks, NEW p \in Processes, NEW r, Aws!Get(p, r)
    PROVE  AwsAsks'
<1>1. ci' = ci /\ pc[p] = "idle"
  BY DEF Aws!Get
<1>2. PICK a : a = Aws!Gives(p, r, Aws!Held(p, r), FALSE)
  OBVIOUS
<1>3. a.write = r.write
  BY <1>2 DEF Aws!Gives
<1>4. \/ \E what : Aws!AtOnce(p, r, Aws!Failed(what))
      \/ Begin(p, r, "confirm", Aws!Begun)
      \/ ~ r.write /\ AtOnce(p, r, a)
      \/ (r.write => ci /\ ~ r.interactive) /\ Aws!Identity(p, r)
  BY <1>2, AwsShared DEF Aws!Get, Aws!MayWrite
<1> QED
  BY <1>1, <1>3, <1>4, AwsUnanswered, AwsBegins, AwsAnswered, AwsAsksIdentity

(* The awaits up to the minting.                                           *)
LEMMA AwsAsksOnward ==
    ASSUME AwsInv, AwsAsks, NEW p \in Processes,
           \/ Aws!Confirm(p) \/ Aws!Portal(p) \/ Aws!CallerOk(p) \/ Aws!Lapsed(p)
           \/ Aws!SignedIn(p) \/ Aws!Mfa(p) \/ Aws!Assume(p)
    PROVE  AwsAsks'
<1>1. ci' = ci /\ pc[p] # "idle" /\ AwsAllowed(p, req[p])
  BY DEF Aws!Confirm, Aws!Portal, Aws!CallerOk, Aws!Lapsed, Aws!SignedIn, Aws!Mfa, Aws!Assume,
         AwsAsks, AwsYes, AwsAllowed, Asked
<1>2. \/ \E what : Aws!Reply(p, Aws!Failed(what))
      \/ Aws!Reply(p, Aws!NoToken)
      \/ Aws!Identity(p, req[p])
      \/ \E step, values : GoOn(p, step, values)
  BY AwsShared
     DEF Aws!Confirm, Aws!Portal, Aws!CallerOk, Aws!Lapsed, Aws!SignedIn, Aws!Mfa, Aws!Assume
<1> QED
  BY <1>1, <1>2, AwsUnanswered, AwsAsksIdentity, AwsGoesOn

(* A token is minted, and handed out.                                      *)
LEMMA AwsAsksMint ==
    ASSUME AwsInv, AwsAsks, NEW p \in Processes, Aws!Mint(p)
    PROVE  AwsAsks'
<1> DEFINE a == Aws!Gives(p, req[p], Aws!New, ci /\ ~ req[p].interactive)
<1>1. ci' = ci /\ Reply(p, a) /\ AwsAllowed(p, req[p])
  BY AwsShared DEF Aws!Mint, AwsAsks, AwsYes
<1>2. a.write => a.asked
  BY <1>1 DEF AwsAllowed, Aws!Gives, Aws!Asked, Asked
<1> HIDE DEF a
<1> QED
  BY <1>1, <1>2, AwsAnswered

(* Every action keeps what is known of the question.                       *)
LEMMA AwsAsksNext ==
    ASSUME AwsInv, AwsAsks, Aws!Next
    PROVE  AwsAsks'
<1>1. PICK p \in Processes :
        \/ \E r \in Aws!Request : Aws!Get(p, r) \/ Aws!Erase(p, r) \/ Aws!Login(p, r) \/ Aws!Logout(p, r)
        \/ Aws!Confirm(p) \/ Aws!Portal(p) \/ Aws!CallerOk(p) \/ Aws!Lapsed(p) \/ Aws!SignedIn(p)
        \/ Aws!Mfa(p) \/ Aws!Assume(p) \/ Aws!Mint(p) \/ Aws!CallFails(p) \/ Aws!Stop(p)
  BY DEF Aws!Next
<1>2. ASSUME NEW r \in Aws!Request, Aws!Erase(p, r) \/ Aws!Login(p, r) \/ Aws!Logout(p, r)
      PROVE  AwsAsks'
  <2>1. /\ ci' = ci
        /\ \/ \E what : Aws!AtOnce(p, r, Aws!Failed(what))
           \/ Aws!AtOnce(p, r, Aws!NoToken)
           \/ r.op = "login" /\ \E values : Begin(p, r, "device", values)
    BY <1>2, AwsShared DEF Aws!Erase, Aws!Login, Aws!Logout
  <2>2. r.op = "login" => ~ r.write
    BY DEF Aws!Request
  <2> QED
    BY <2>1, <2>2, AwsUnanswered, AwsBegins DEF AwsAllowed
<1>3. ASSUME Aws!CallFails(p) \/ Aws!Stop(p)
      PROVE  AwsAsks'
  BY <1>3, AwsUnanswered DEF Aws!CallFails, Aws!CallError, Aws!Stop
<1> QED
  BY <1>1, <1>2, <1>3, AwsAsksGet, AwsAsksOnward, AwsAsksMint

(* The invariant gives the properties.                                     *)
LEMMA AwsSafe ==
    ASSUME AwsInv, AwsAsks
    PROVE  RetiredNotGiven /\ ReleasedOnYes
BY SharedSafe, YesSafe DEF AwsInv, AwsAsks

-----------------------------------------------------------------------------
(* The provider that was chosen at the start, whichever it is.             *)

ProvidersInv ==
    \/ provider = "google" /\ GoogleInv /\ GoogleAsks
    \/ provider = "corporate" /\ CorporateInv /\ CorporateAsks
    \/ provider = "jfrog" /\ JfrogInv
    \/ provider = "azure" /\ AzureInv /\ AzureAsks
    \/ provider = "github" /\ GithubInv /\ GithubAsks
    \/ provider = "npmjs" /\ NpmjsInv
    \/ provider = "verdaccio" /\ VerdaccioInv /\ VerdaccioAsks
    \/ provider = "aws" /\ AwsInv /\ AwsAsks

(* Each provider starts in its invariant.                                  *)
LEMMA ProvidersStart ==
    ASSUME Init
    PROVE  ProvidersInv
BY GoogleInit, CorporateInit, JfrogInit, AzureInit, GithubInit, NpmjsInit, VerdaccioInit, AwsInit
   DEF Init, ProvidersInv

(* What is unchanged keeps what is known of it.                            *)
LEMMA SharedRest ==
    ASSUME UNCHANGED vars
    PROVE  /\ Shape' = Shape /\ Answered' = Answered /\ Shared' = Shared
           /\ \A p \in Processes : Dropped(p)' = Dropped(p) /\ Yes(p)' = Yes(p)
BY DEF Shape, OfProcesses, Answered, AnswerAsked, Dropped, Shared, Yes, vars, service, process, history

(* A provider that rests keeps its invariant.                              *)
LEMMA GoogleRest ==
    ASSUME GoogleInv, GoogleAsks, UNCHANGED vars
    PROVE  GoogleInv' /\ GoogleAsks'
BY SharedRest DEF GoogleInv, GoogleKept, GoogleProcess, GoogleAsks, GoogleYes, vars, service, process, history

LEMMA CorporateRest ==
    ASSUME CorporateInv, CorporateAsks, UNCHANGED vars
    PROVE  CorporateInv' /\ CorporateAsks'
BY SharedRest DEF CorporateInv, CorporateKept, CorporateAsks, CorporateYes, vars, service, process, history

LEMMA JfrogRest ==
    ASSUME JfrogInv, UNCHANGED vars
    PROVE  JfrogInv'
BY SharedRest DEF JfrogInv, JfrogKept, JfrogHolds, vars, service, process, history

LEMMA AzureRest ==
    ASSUME AzureInv, AzureAsks, UNCHANGED vars
    PROVE  AzureInv' /\ AzureAsks'
BY SharedRest
   DEF AzureInv, AzureStored, AzureKept, AzureHas, AzureProcess, AzureKnown, AzureRead, AzureValues,
       AzureAsks, AzureYes, vars, service, process, history

LEMMA GithubRest ==
    ASSUME GithubInv, GithubAsks, UNCHANGED vars
    PROVE  GithubInv' /\ GithubAsks'
BY SharedRest DEF GithubInv, GithubKept, GithubProcess, GithubHand, GithubAsks, GithubYes, vars, service, process, history

LEMMA NpmjsRest ==
    ASSUME NpmjsInv, UNCHANGED vars
    PROVE  NpmjsInv'
BY SharedRest
   DEF NpmjsInv, NpmjsStored, NpmjsKept, NpmjsProcess, NpmjsHand, NpmjsEntry,
       vars, service, process, history

LEMMA VerdaccioRest ==
    ASSUME VerdaccioInv, VerdaccioAsks, UNCHANGED vars
    PROVE  VerdaccioInv' /\ VerdaccioAsks'
BY SharedRest
   DEF VerdaccioInv, VerdaccioStored, VerdaccioKept, VerdaccioHas, VerdaccioProcess, VerdaccioMints,
       VerdaccioMinting, VerdaccioValues, VerdaccioRead, VerdaccioHolding, VerdaccioFree, VerdaccioSeen,
       VerdaccioAsks, vars, service, process, history

LEMMA AwsRest ==
    ASSUME AwsInv, AwsAsks, UNCHANGED vars
    PROVE  AwsInv' /\ AwsAsks'
BY SharedRest DEF AwsInv, AwsHolds, AwsAsks, AwsYes, AwsAllowed, Asked, vars, service, process, history

(* The chosen provider keeps its invariant, and stays the chosen one.      *)
LEMMA ProvidersStep ==
    ASSUME ProvidersInv, [Next]_<<provider, vars>>
    PROVE  ProvidersInv'
<1>1. CASE UNCHANGED <<provider, vars>>
  BY <1>1, GoogleRest, CorporateRest, JfrogRest, AzureRest, GithubRest, NpmjsRest, VerdaccioRest, AwsRest
     DEF ProvidersInv
<1>2. CASE /\ UNCHANGED provider
           /\ \/ provider = "google" /\ Google!Next
              \/ provider = "corporate" /\ Corporate!Next
              \/ provider = "jfrog" /\ Jfrog!Next
              \/ provider = "azure" /\ Azure!Next
              \/ provider = "github" /\ Github!Next
              \/ provider = "npmjs" /\ Npmjs!Next
              \/ provider = "verdaccio" /\ Verdaccio!Next
              \/ provider = "aws" /\ Aws!Next
  BY <1>2, GoogleNext, CorporateNext, JfrogNext, AzureNext, GithubNext, NpmjsNext, VerdaccioNext, AwsNext,
     GoogleAsksNext, CorporateAsksNext, AzureAsksNext, GithubAsksNext, VerdaccioAsksNext, AwsAsksNext
     DEF ProvidersInv
<1> QED
  BY <1>1, <1>2 DEF Next

(* What the properties say of each provider follows from its invariant.    *)
LEMMA ProvidersSafe ==
    ASSUME ProvidersInv
    PROVE  NotGivenAgain /\ WriteWasAsked /\ NothingForgotten /\ RemovedStaysRemoved /\ StoredIsGood
BY GoogleSafe, CorporateSafe, JfrogSafe, AzureSafe, GithubSafe, NpmjsSafe, VerdaccioSafe, AwsSafe
   DEF ProvidersInv, NotGivenAgain, WriteWasAsked, NothingForgotten, RemovedStaysRemoved, StoredIsGood

(* The invariant of the chosen provider holds in every execution.          *)
LEMMA ProvidersAlways == Spec => []ProvidersInv
BY ProvidersStart, ProvidersStep, PTL DEF Spec

(* NotGivenAgain: what a process dropped at a logout that it handled, at   *)
(* an erase where its provider drops a token at one, or at a login where   *)
(* the provider puts the new one in its place, it does not hand out again, *)
(* with any number of processes on the same store. It is not said of what  *)
(* JFrog and AWS hold over a login, of a stored token that GitHub, npmjs   *)
(* and Verdaccio keep over an erase, nor of JFrog's identity token once it *)
(* is not known as rejected any more.                                      *)
THEOREM DroppedIsNotGiven == Spec => []NotGivenAgain
BY ProvidersAlways, ProvidersSafe, PTL

(* WriteWasAsked: a write is answered with a credential, and a credential  *)
(* kept for writes goes out at all, only on a yes at the prompt of that    *)
(* very request, or in a job, or by the word of the configuration,         *)
(* whatever lies between and whatever requests came before. JFrog, which   *)
(* asks nobody, is left out; a token that serves reads too is not one kept *)
(* for writes.                                                             *)
THEOREM WritesAreAsked == Spec => []WriteWasAsked
BY ProvidersAlways, ProvidersSafe, PTL

(* NothingForgotten: a credential that is still good at the service is     *)
(* where a logout finds it, or in the hand of a request that revokes it,   *)
(* or was lost for one of the reasons the modules give.                    *)
THEOREM GoodOnesAreKept == Spec => []NothingForgotten
BY ProvidersAlways, ProvidersSafe, PTL

(* RemovedStaysRemoved: a sign-in that was removed or replaced, or a token *)
(* that Azure's erase took from the store, is not written back by a        *)
(* request of another process that had read it before: of Google, Azure,   *)
(* GitHub, npmjs and Verdaccio.                                            *)
THEOREM RemovedIsGone == Spec => []RemovedStaysRemoved
BY ProvidersAlways, ProvidersSafe, PTL

(* StoredIsGood: what is in the store has not been revoked by any process  *)
(* of the provider.                                                        *)
THEOREM StoredIsNotRevoked == Spec => []StoredIsGood
BY ProvidersAlways, ProvidersSafe, PTL
=============================================================================
