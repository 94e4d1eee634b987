---------------------- MODULE ProviderSupervisorProofs ----------------------
(***************************************************************************)
(* Theorems about ProviderSupervisor, for every number of requests, stray  *)
(* lines and restarts allowed.                                             *)
(***************************************************************************)
EXTENDS ProviderSupervisor, FiniteSetTheorems, TLAPS

(* The actions, and the operators they are written with.                   *)
USE DEF Requests, Failures, Outcomes, supervisor, channels, provider

-----------------------------------------------------------------------------
(* Type correctness.                                                       *)

(* Queueing a line, and taking the first one, stay within the lines.       *)
LEMMA LineTypes ==
    ASSUME NEW s \in Seq(Line), NEW what \in {"hello", "badHello", "ok", "err", "bad", "eof"},
           NEW to \in 0..MaxRequests
    PROVE  /\ Append(s, [what |-> what, to |-> to]) \in Seq(Line)
           /\ s # <<>> => /\ Head(s) \in Line
                          /\ Head(s).what \in {"hello", "badHello", "ok", "err", "bad", "eof"}
                          /\ Head(s).to \in 0..MaxRequests
                          /\ Tail(s) \in Seq(Line)
<1>1. [what |-> what, to |-> to] \in Line
  BY DEF Line
<1>2. Append(s, [what |-> what, to |-> to]) \in Seq(Line)
  BY <1>1
<1>3. s # <<>> => Head(s) \in Line /\ Tail(s) \in Seq(Line)
  OBVIOUS
<1>4. QED
  BY <1>2, <1>3 DEF Line

(* An empty stream is a stream of lines, and of requests.                  *)
LEMMA EmptyTypes == <<>> \in Seq(Line) /\ <<>> \in Seq(Requests)
  OBVIOUS

(* A request being made has a number, which TypeOK needs to be inductive.  *)
InRequest == pc \notin {"idle", "dropped"} => req \in Requests

TypeInv == TypeOK /\ InRequest

(* Every variable of the client and of the provider keeps its type, and a  *)
(* request being made is numbered.                                         *)
THEOREM TypeInvariant == Spec => []TypeInv
<1>1. Init => TypeInv
  <2> SUFFICES ASSUME Init PROVE TypeInv
    OBVIOUS
  <2>1. outcome \in [Requests -> Outcomes] /\ credited \in [Requests -> 0..MaxRequests]
    BY BoundsAssumption DEF Init
  <2>2. queued \in Seq(Requests) /\ pipe \in Seq(Line) /\ lines \in Seq(Line)
    BY EmptyTypes DEF Init
  <2>3. session \in BOOLEAN /\ skipped \in BOOLEAN /\ writeFailed \in BOOLEAN
    BY Zenon DEF Init
  <2>4. /\ failed \in Nat /\ warnings \in Nat /\ starts \in Nat /\ req \in 0..MaxRequests
        /\ handling \in 0..MaxRequests /\ strays \in 0..MaxStray
        /\ proc \in {"none", "starting", "running", "exited"} /\ pc = "idle"
    BY BoundsAssumption DEF Init
  <2>5. QED
    BY <2>1, <2>2, <2>3, <2>4 DEF TypeInv, TypeOK, InRequest
<1>2. TypeInv /\ [Next]_vars => TypeInv'
  <2> SUFFICES ASSUME TypeInv, [Next]_vars PROVE TypeInv'
    OBVIOUS
  <2> USE BoundsAssumption, LimitAssumption DEF TypeInv, TypeOK, InRequest
  <2>0. lines # <<>> => /\ Head(lines).what \in {"hello", "badHello", "ok", "err", "bad", "eof"}
                        /\ Head(lines).to \in 0..MaxRequests
                        /\ Tail(lines) \in Seq(Line)
    BY LineTypes
  <2>k. kill => /\ session' \in BOOLEAN /\ proc' \in {"none", "starting", "running", "exited"}
                /\ handling' \in 0..MaxRequests /\ queued' \in Seq(Requests)
                /\ writeFailed' \in BOOLEAN /\ pipe' \in Seq(Line) /\ lines' \in Seq(Line)
                /\ strays' \in 0..MaxStray
    <3> SUFFICES ASSUME kill
                 PROVE  /\ session' \in BOOLEAN /\ writeFailed' \in BOOLEAN
                        /\ proc' \in {"none", "starting", "running", "exited"}
                        /\ handling' \in 0..MaxRequests /\ strays' \in 0..MaxStray
                        /\ queued' \in Seq(Requests) /\ pipe' \in Seq(Line)
                        /\ lines' \in Seq(Line)
      OBVIOUS
    <3>1. session' \in BOOLEAN /\ writeFailed' \in BOOLEAN
      BY Zenon DEF kill
    <3>2. queued' \in Seq(Requests) /\ pipe' \in Seq(Line) /\ lines' \in Seq(Line)
      BY EmptyTypes DEF kill
    <3>3. /\ proc' \in {"none", "starting", "running", "exited"}
          /\ handling' \in 0..MaxRequests /\ strays' \in 0..MaxStray
      BY DEF kill
    <3>4. QED BY <3>1, <3>2, <3>3
  <2>f. ASSUME NEW result \in Outcomes, Finish(result)
        PROVE  outcome' \in [Requests -> Outcomes] /\ pc' = "idle" /\ req' \in 0..MaxRequests
    BY <2>f DEF Finish
  <2>s. SeeIdle => /\ session' \in BOOLEAN /\ failed' \in Nat /\ warnings' \in Nat
                   /\ proc' \in {"none", "starting", "running", "exited"}
                   /\ handling' \in 0..MaxRequests /\ queued' \in Seq(Requests)
                   /\ writeFailed' \in BOOLEAN /\ pipe' \in Seq(Line) /\ lines' \in Seq(Line)
                   /\ strays' \in 0..MaxStray
    <3>1. CASE idle = "quiet"
      BY <3>1 DEF SeeIdle
    <3>2. CASE idle # "quiet"
      BY <3>2, <2>k DEF SeeIdle
    <3>3. QED BY <3>1, <3>2
  <2>c. ASSUME NEW result \in Failures, FailAndCount(result) PROVE TypeInv'
    BY <2>c, <2>k, <2>f DEF FailAndCount
  <2>1. CASE WatchIdle
    BY <2>1, <2>s DEF WatchIdle
  <2>2. CASE RequestSkipped
    BY <2>2 DEF RequestSkipped
  <2>3. CASE Request
    <3>1. /\ req' \in 0..MaxRequests /\ req' \in Requests /\ pc' = "ensure"
          /\ skipped' = skipped /\ starts' = starts
          /\ outcome' = outcome /\ credited' = credited
      BY <2>3 DEF Request
    <3>2. SeeIdle
      BY <2>3 DEF Request
    <3>3. /\ session' \in BOOLEAN /\ failed' \in Nat /\ warnings' \in Nat
          /\ proc' \in {"none", "starting", "running", "exited"}
          /\ handling' \in 0..MaxRequests /\ queued' \in Seq(Requests)
          /\ writeFailed' \in BOOLEAN /\ pipe' \in Seq(Line) /\ lines' \in Seq(Line)
          /\ strays' \in 0..MaxStray
      BY <3>2, <2>s
    <3>4. QED BY <3>1, <3>3
  <2>4. CASE UseSession
    BY <2>4 DEF UseSession
  <2>5. CASE NotRestarted
    BY <2>5, <2>f DEF NotRestarted
  <2>6. CASE Spawn
    BY <2>6 DEF Spawn, mayStart
  <2>7. CASE CannotSpawn
    BY <2>7, <2>f DEF CannotSpawn, mayStart
  <2>8. CASE ReceiveHello
    BY <2>8, <2>0 DEF ReceiveHello
  <2>9. CASE HelloFails
    BY <2>9, <2>k, <2>f DEF HelloFails
  <2>10. CASE HelloTimesOut
    BY <2>10, <2>c DEF HelloTimesOut
  <2>11. CASE RequestInvalid
    BY <2>11, <2>f DEF RequestInvalid
  <2>12. CASE Send
    <3>1. queued' \in Seq(Requests)
      BY <2>12 DEF Send
    <3>2. QED BY <2>12, <3>1 DEF Send
  <2>13. CASE SendFails
    BY <2>13, <2>c DEF SendFails
  <2>14. CASE ReceiveAnswer
    <3>1. Head(lines).what \in Outcomes
      BY <2>14 DEF ReceiveAnswer
    <3>2. outcome' \in [Requests -> Outcomes] /\ pc' = "idle" /\ req' \in 0..MaxRequests
      BY <2>14, <3>1, <2>f DEF ReceiveAnswer
    <3>3. credited' \in [Requests -> 0..MaxRequests] /\ lines' \in Seq(Line)
      BY <2>14, <2>0 DEF ReceiveAnswer
    <3>4. QED BY <2>14, <3>2, <3>3 DEF ReceiveAnswer
  <2>15. CASE ReceiveFailure
    BY <2>15, <2>c DEF ReceiveFailure
  <2>16. CASE AnswerTimesOut
    BY <2>16, <2>c DEF AnswerTimesOut
  <2>17. CASE Drop
    BY <2>17, <2>k DEF Drop
  <2>18. CASE ProviderHello
    BY <2>18, LineTypes DEF ProviderHello, Write
  <2>19. CASE ProviderReads
    BY <2>19 DEF ProviderReads
  <2>20. CASE ProviderAnswers
    BY <2>20, LineTypes DEF ProviderAnswers, Write
  <2>21. CASE ProviderStrays
    BY <2>21, LineTypes DEF ProviderStrays, Write
  <2>22. CASE ProviderExits
    BY <2>22, LineTypes DEF ProviderExits, Write
  <2>23. CASE ReaderThread
    BY <2>23 DEF ReaderThread
  <2>24. CASE WriterThreadFails
    BY <2>24 DEF WriterThreadFails
  <2>25. CASE UNCHANGED vars
    BY <2>25 DEF vars
  <2>26. QED
    BY <2>1, <2>2, <2>3, <2>4, <2>5, <2>6, <2>7, <2>8, <2>9, <2>10, <2>11, <2>12, <2>13,
       <2>14, <2>15, <2>16, <2>17, <2>18, <2>19, <2>20, <2>21, <2>22, <2>23, <2>24, <2>25
       DEF Next, ClientStep, ProviderStep, Terminated
<1>3. QED
  BY <1>1, <1>2, PTL DEF Spec

(* Every variable of the client and of the provider keeps its type.        *)
THEOREM TypeCorrect == Spec => []TypeOK
<1>1. TypeInv => TypeOK
  BY DEF TypeInv
<1>2. QED
  BY <1>1, TypeInvariant, PTL

-----------------------------------------------------------------------------
(* The restart limit.                                                      *)

(* What makes FailedBounded inductive: while a process is up the limit is  *)
(* not reached, and a session is there whenever one is read or written.    *)
LimitInv ==
    /\ failed <= FailedSessionsBeforeNoRestart
    /\ session \/ pc = "hello" => failed < FailedSessionsBeforeNoRestart /\ ~skipped
    /\ pc \in {"ready", "waiting"} => session
    /\ pc = "hello" => ~session
    /\ pc = "ensure" => ~skipped

(* A step keeps the count of failures within the limit.                    *)
LEMMA LimitInductive == TypeOK /\ LimitInv /\ [Next]_vars => LimitInv'
<1> SUFFICES ASSUME TypeOK, LimitInv, [Next]_vars PROVE LimitInv'
  OBVIOUS
<1> USE LimitAssumption DEF LimitInv
<1>0. failed \in Nat
  BY DEF TypeOK
<1>c. ASSUME NEW result \in Failures, FailAndCount(result), session \/ pc = "hello" PROVE LimitInv'
  BY <1>c, <1>0 DEF FailAndCount, Finish, kill
<1>s. ASSUME SeeIdle, pc \notin {"hello", "ready", "waiting"},
             pc' \notin {"hello", "ready", "waiting"}, skipped' = skipped,
             pc' = "ensure" => ~skipped
      PROVE  LimitInv'
  BY <1>s, <1>0 DEF SeeIdle, kill, idle, channels, provider
<1>1. CASE WatchIdle
  BY <1>1, <1>s DEF WatchIdle
<1>2. CASE RequestSkipped
  BY <1>2 DEF RequestSkipped
<1>3. CASE Request
  BY <1>3, <1>s DEF Request
<1>4. CASE UseSession
  BY <1>4 DEF UseSession
<1>5. CASE NotRestarted
  BY <1>5 DEF NotRestarted, Finish
<1>6. CASE Spawn
  BY <1>6, <1>0 DEF Spawn, mayStart
<1>7. CASE CannotSpawn
  BY <1>7 DEF CannotSpawn, mayStart, Finish
<1>8. CASE ReceiveHello
  BY <1>8 DEF ReceiveHello
<1>9. CASE HelloFails
  BY <1>9 DEF HelloFails, Finish, kill
<1>10. CASE HelloTimesOut
  BY <1>10, <1>c DEF HelloTimesOut
<1>11. CASE RequestInvalid
  BY <1>11 DEF RequestInvalid, Finish
<1>12. CASE Send
  BY <1>12 DEF Send
<1>13. CASE SendFails
  BY <1>13, <1>c DEF SendFails
<1>14. CASE ReceiveAnswer
  BY <1>14 DEF ReceiveAnswer, Finish
<1>15. CASE ReceiveFailure
  BY <1>15, <1>c DEF ReceiveFailure
<1>16. CASE AnswerTimesOut
  BY <1>16, <1>c DEF AnswerTimesOut
<1>17. CASE Drop
  BY <1>17 DEF Drop, kill
<1>18. CASE ProviderStep
  BY <1>18 DEF ProviderStep, ProviderHello, ProviderReads, ProviderAnswers, ProviderStrays,
               ProviderExits, ReaderThread, WriterThreadFails
<1>19. CASE UNCHANGED vars
  BY <1>19 DEF vars
<1>20. QED
  BY <1>1, <1>2, <1>3, <1>4, <1>5, <1>6, <1>7, <1>8, <1>9, <1>10, <1>11, <1>12, <1>13,
     <1>14, <1>15, <1>16, <1>17, <1>18, <1>19 DEF Next, ClientStep, Terminated

(* The failures counted never pass the limit, a skipped provider has no    *)
(* session, and a waiting request has one (supervisor.js).                 *)
LEMMA LimitInvariant == Spec => []LimitInv
<1>1. Init => LimitInv
  BY LimitAssumption DEF Init, LimitInv
<1>2. QED
  BY <1>1, LimitInductive, TypeCorrect, PTL DEF Spec

(* However the provider fails and restarts, no more sessions than the      *)
(* limit end in a failure that counts.                                     *)
THEOREM LimitHolds == Spec => []FailedBounded
<1>1. LimitInv => FailedBounded
  BY DEF LimitInv, FailedBounded
<1>2. QED
  BY <1>1, LimitInvariant, PTL

-----------------------------------------------------------------------------
(* Where answers go.                                                       *)

(* A line, or a request on its way to the provider, belongs to no request, *)
(* to one that got an answer, or to the one that waits for one.            *)
InFlight(n) ==
    \/ n = 0
    \/ n \in Requests /\ outcome[n] \in {"ok", "err"}
    \/ n \in Requests /\ n = req /\ pc = "waiting"

(* The same of the next state.                                             *)
InFlightAfter(n) ==
    \/ n = 0
    \/ n \in Requests /\ outcome'[n] \in {"ok", "err"}
    \/ n \in Requests /\ n = req' /\ pc' = "waiting"

(* FailedAnswersLost is kept because a request that fails while its answer *)
(* may still come takes every pipe and channel with it.                    *)
FlightInv ==
    /\ \A r \in Requests : r > req => outcome[r] = "none"
    /\ pc \notin {"idle", "dropped"} => outcome[req] = "none"
    /\ \A i \in 1..Len(pipe) : InFlight(pipe[i].to)
    /\ \A i \in 1..Len(lines) : InFlight(lines[i].to)
    /\ \A i \in 1..Len(queued) : InFlight(queued[i])
    /\ InFlight(handling)
    /\ FailedAnswersLost

(* A step keeps every line and request in flight tied to a request made.   *)
LEMMA FlightInductive == TypeInv /\ FlightInv /\ [Next]_vars => FlightInv'
<1> DEFINE FlightAfter ==
      /\ \A r \in Requests : r > req' => outcome'[r] = "none"
      /\ pc' \notin {"idle", "dropped"} => outcome'[req'] = "none"
      /\ \A i \in 1..Len(pipe') : InFlightAfter(pipe'[i].to)
      /\ \A i \in 1..Len(lines') : InFlightAfter(lines'[i].to)
      /\ \A i \in 1..Len(queued') : InFlightAfter(queued'[i])
      /\ InFlightAfter(handling')
      /\ FailedAnswersLost'
<1> SUFFICES ASSUME TypeInv, FlightInv, [Next]_vars PROVE FlightAfter
  BY DEF FlightInv, InFlight, InFlightAfter
<1>t. /\ req \in 0..MaxRequests /\ outcome \in [Requests -> Outcomes]
      /\ credited \in [Requests -> 0..MaxRequests]
      /\ pipe \in Seq(Line) /\ lines \in Seq(Line) /\ queued \in Seq(Requests)
      /\ handling \in 0..MaxRequests /\ MaxRequests \in Nat
      /\ pc \notin {"idle", "dropped"} => req \in Requests
  BY BoundsAssumption DEF TypeInv, TypeOK, InRequest
<1> USE DEF FlightInv
\* the ways an action moves outcome and the channels
<1>k. ASSUME kill PROVE /\ Len(pipe') = 0 /\ Len(lines') = 0 /\ Len(queued') = 0
                        /\ handling' = 0
  BY <1>k DEF kill
<1>f. ASSUME NEW result \in Outcomes, Finish(result), pc \notin {"idle", "dropped"}
      PROVE  /\ \A r \in Requests : r > req' => outcome'[r] = "none"
             /\ pc' = "idle" /\ req' = req
             /\ \A r \in Requests : r # req => outcome'[r] = outcome[r]
             /\ outcome'[req] = result
             /\ outcome[req] = "none"
  BY <1>f, <1>t DEF Finish
<1>w. ASSUME NEW result \in Outcomes, Finish(result), pc \notin {"idle", "dropped"},
             credited' = credited
      PROVE  FailedAnswersLost'
  <2>1. /\ \A r \in Requests : r # req => outcome'[r] = outcome[r]
        /\ outcome[req] = "none" /\ req \in Requests
    BY <1>w, <1>f, <1>t
  <2>2. ASSUME NEW r \in Requests, credited[r] # 0
        PROVE  outcome'[credited[r]] \in {"ok", "err"}
    <3>1. credited[r] \in Requests /\ outcome[credited[r]] \in {"ok", "err"}
      BY <2>2, <1>t DEF FailedAnswersLost
    <3>2. credited[r] # req
      BY <2>1, <3>1
    <3>3. QED BY <2>1, <3>1, <3>2
  <2>3. QED BY <2>2, <1>w DEF FailedAnswersLost
<1>c. ASSUME NEW result \in Failures, FailAndCount(result), pc \notin {"idle", "dropped"}
      PROVE  FlightAfter
  <2>1. result \in Outcomes /\ Finish(result) /\ kill /\ credited' = credited
    BY <1>c DEF FailAndCount
  <2>2. /\ \A r \in Requests : r > req' => outcome'[r] = "none"
        /\ pc' = "idle"
    BY <2>1, <1>c, <1>f
  <2>3. FailedAnswersLost'
    BY <2>1, <1>c, <1>w
  <2>4. Len(pipe') = 0 /\ Len(lines') = 0 /\ Len(queued') = 0 /\ InFlightAfter(handling')
    BY <2>1, <1>k DEF InFlightAfter
  <2>5. QED BY <2>2, <2>3, <2>4
<1>q. ASSUME NEW result \in Outcomes, Finish(result), pc \in {"ensure", "hello", "ready"},
             credited' = credited,
             \/ UNCHANGED <<pipe, lines, queued, handling>>
             \/ kill
      PROVE  FlightAfter
  <2>1. /\ \A r \in Requests : r > req' => outcome'[r] = "none"
        /\ pc' = "idle" /\ req' = req /\ outcome[req] = "none"
        /\ \A r \in Requests : r # req => outcome'[r] = outcome[r]
    BY <1>q, <1>f
  <2>2. \A n : InFlight(n) => InFlightAfter(n)
    BY <1>q, <2>1 DEF InFlight, InFlightAfter
  <2>3. FailedAnswersLost'
    BY <1>q, <1>w
  <2>4. CASE UNCHANGED <<pipe, lines, queued, handling>>
    BY <2>1, <2>2, <2>3, <2>4
  <2>5. CASE kill
    <3>1. Len(pipe') = 0 /\ Len(lines') = 0 /\ Len(queued') = 0 /\ InFlightAfter(handling')
      BY <2>5, <1>k DEF InFlightAfter
    <3>2. QED BY <2>1, <2>3, <3>1
  <2>6. QED BY <1>q, <2>4, <2>5
<1>p. ASSUME UNCHANGED outcome, UNCHANGED credited, pc # "waiting", pc' # "waiting",
             req' \in {req, req + 1}, req' = req + 1 => pc = "idle" /\ req < MaxRequests,
             pc' \notin {"idle", "dropped"} =>
                 \/ req' = req + 1
                 \/ req' = req /\ pc \notin {"idle", "dropped"},
             \/ UNCHANGED <<pipe, lines, queued, handling>>
             \/ kill
             \/ UNCHANGED <<pipe, queued, handling>> /\ lines # <<>> /\ lines' = Tail(lines)
      PROVE  FlightAfter
  <2>1. \A n : InFlight(n) => InFlightAfter(n)
    BY <1>p DEF InFlight, InFlightAfter
  <2>2. /\ \A r \in Requests : r > req' => outcome'[r] = "none"
        /\ pc' \notin {"idle", "dropped"} => outcome'[req'] = "none"
    BY <1>p, <1>t
  <2>3. FailedAnswersLost'
    BY <1>p DEF FailedAnswersLost
  <2>4. CASE UNCHANGED <<pipe, lines, queued, handling>>
    BY <2>1, <2>2, <2>3, <2>4
  <2>5. CASE kill
    <3>1. Len(pipe') = 0 /\ Len(lines') = 0 /\ Len(queued') = 0 /\ InFlightAfter(handling')
      BY <2>5, <1>k DEF InFlightAfter
    <3>2. QED BY <2>2, <2>3, <3>1
  <2>6. CASE UNCHANGED <<pipe, queued, handling>> /\ lines # <<>> /\ lines' = Tail(lines)
    <3>1. Len(lines') = Len(lines) - 1 /\ \A i \in 1..Len(lines') : lines'[i] = lines[i + 1]
      BY <2>6, <1>t
    <3>2. \A i \in 1..Len(lines') : InFlightAfter(lines'[i].to)
      <4>1. ASSUME NEW i \in 1..Len(lines') PROVE InFlight(lines[i + 1].to)
        <5>1. i + 1 \in 1..Len(lines)
          BY <3>1, <2>6, <1>t
        <5>2. QED BY <5>1
      <4>2. QED BY <4>1, <3>1, <2>1
    <3>3. QED BY <2>1, <2>2, <2>3, <2>6, <3>2
  <2>7. QED BY <1>p, <2>4, <2>5, <2>6
<1>s. ASSUME SeeIdle PROVE UNCHANGED <<pipe, lines, queued, handling>> \/ kill
  BY <1>s DEF SeeIdle, channels, provider
<1>1. CASE WatchIdle
  BY <1>1, <1>s, <1>p, <1>t DEF WatchIdle
<1>2. CASE RequestSkipped
  <2>1. /\ pc = "idle" /\ pc' = "idle" /\ req' = req + 1 /\ req + 1 \in Requests
        /\ outcome' = [outcome EXCEPT ![req + 1] = "skipped"] /\ credited' = credited
        /\ UNCHANGED <<pipe, lines, queued, handling>>
    BY <1>2, <1>t DEF RequestSkipped, channels, provider
  <2>2. outcome[req + 1] = "none"
    BY <2>1, <1>t
  <2>3. \A n : InFlight(n) => InFlightAfter(n)
    BY <2>1, <2>2, <1>t DEF InFlight, InFlightAfter
  <2>4. FailedAnswersLost'
    BY <2>1, <2>2, <1>t DEF FailedAnswersLost
  <2>5. QED BY <2>1, <2>3, <2>4, <1>t
<1>3. CASE Request
  BY <1>3, <1>s, <1>p, <1>t DEF Request
<1>4. CASE UseSession
  BY <1>4, <1>p, <1>t DEF UseSession, channels, provider
<1>5. CASE NotRestarted
  BY <1>5, <1>q DEF NotRestarted, channels, provider
<1>6. CASE Spawn
  BY <1>6, <1>p, <1>t DEF Spawn, mayStart, channels
<1>7. CASE CannotSpawn
  BY <1>7, <1>q DEF CannotSpawn, mayStart, channels, provider
<1>8. CASE ReceiveHello
  BY <1>8, <1>p, <1>t DEF ReceiveHello, provider
<1>9. CASE HelloFails
  BY <1>9, <1>q DEF HelloFails
<1>10. CASE HelloTimesOut
  BY <1>10, <1>c DEF HelloTimesOut
<1>11. CASE RequestInvalid
  BY <1>11, <1>q DEF RequestInvalid, channels, provider
<1>12. CASE Send
  <2>1. /\ pc = "ready" /\ pc' = "waiting" /\ req' = req /\ outcome' = outcome
        /\ credited' = credited /\ queued' = Append(queued, req)
        /\ UNCHANGED <<pipe, lines, handling>> /\ req \in Requests
    BY <1>12, <1>t DEF Send, provider
  <2>2. \A n : InFlight(n) => InFlightAfter(n)
    BY <2>1 DEF InFlight, InFlightAfter
  <2>3. InFlightAfter(req)
    BY <2>1 DEF InFlight, InFlightAfter
  <2>4. \A i \in 1..Len(queued') : InFlightAfter(queued'[i])
    <3>1. /\ Len(queued') = Len(queued) + 1
          /\ \A i \in 1..Len(queued) : queued'[i] = queued[i]
          /\ queued'[Len(queued) + 1] = req
      BY <2>1, <1>t
    <3>2. QED BY <3>1, <2>2, <2>3, <1>t, <2>1
  <2>5. FailedAnswersLost'
    BY <2>1 DEF FailedAnswersLost
  <2>6. QED BY <2>1, <2>2, <2>4, <2>5
<1>13. CASE SendFails
  BY <1>13, <1>c DEF SendFails
<1>14. CASE ReceiveAnswer
  <2>1. /\ pc = "waiting" /\ lines # <<>> /\ Head(lines).what \in {"ok", "err"}
        /\ Finish(Head(lines).what) /\ lines' = Tail(lines)
        /\ credited' = [credited EXCEPT ![req] = Head(lines).to]
        /\ UNCHANGED <<pipe, queued, handling>> /\ req \in Requests
    BY <1>14, <1>t DEF ReceiveAnswer, provider
  <2>l. lines \in Seq(Line)
    BY DEF TypeInv, TypeOK
  <2>h. lines[1] = Head(lines) /\ 1 \in 1..Len(lines)
    BY <2>1, <2>l
  <2>o. Head(lines).what \in Outcomes
    BY <2>1
  <2>i. InFlight(Head(lines).to)
    <3>1. \A i \in 1..Len(lines) : InFlight(lines[i].to)
      BY <1>f
    <3>2. QED
      BY <3>1, <2>h
  <2>2. Head(lines).what \in Outcomes /\ InFlight(Head(lines).to) /\ lines[1] = Head(lines)
    BY <2>h, <2>o, <2>i
  <2>3. \A n : InFlight(n) => InFlightAfter(n) /\ (n # 0 => outcome'[n] \in {"ok", "err"})
    BY <2>1, <2>2, <1>f, <1>t DEF InFlight, InFlightAfter
  <2>4. FailedAnswersLost'
    <3>1. credited'[req] = Head(lines).to /\ \A r \in Requests : r # req => credited'[r] = credited[r]
      BY <2>1, <1>t
    <3>2. credited'[req] # 0 => outcome'[credited'[req]] \in {"ok", "err"}
      BY <2>2, <2>3, <3>1
    <3>3. ASSUME NEW r \in Requests, r # req, credited[r] # 0
          PROVE  outcome'[credited[r]] \in {"ok", "err"}
      <4>1. credited[r] \in Requests /\ outcome[credited[r]] \in {"ok", "err"}
        BY <3>3, <1>t DEF FailedAnswersLost
      <4>2. QED
        BY <2>3, <4>1 DEF InFlight
    <3>4. QED
      BY <3>1, <3>2, <3>3 DEF FailedAnswersLost
  <2>5. \A i \in 1..Len(lines') : InFlightAfter(lines'[i].to)
    <3>1. Len(lines') = Len(lines) - 1 /\ \A i \in 1..Len(lines') : lines'[i] = lines[i + 1]
      BY <2>1, <1>t
    <3>2. ASSUME NEW i \in 1..Len(lines') PROVE InFlight(lines[i + 1].to)
      <4>1. i + 1 \in 1..Len(lines)
        BY <3>1, <2>1, <1>t
      <4>2. QED BY <4>1
    <3>3. QED BY <3>1, <3>2, <2>3
  <2>6. /\ \A r \in Requests : r > req' => outcome'[r] = "none"
        /\ pc' = "idle"
    BY <2>1, <2>2, <1>f
  <2>7. QED BY <2>1, <2>3, <2>4, <2>5, <2>6
<1>15. CASE ReceiveFailure
  BY <1>15, <1>c DEF ReceiveFailure
<1>16. CASE AnswerTimesOut
  BY <1>16, <1>c DEF AnswerTimesOut
<1>17. CASE Drop
  BY <1>17, <1>p, <1>t DEF Drop
\* the provider and the threads: outcome, pc and req stay
<1>u. ASSUME UNCHANGED supervisor
      PROVE  /\ \A n : InFlight(n) => InFlightAfter(n)
             /\ FailedAnswersLost'
             /\ pc' = pc /\ req' = req /\ outcome' = outcome
  BY <1>u DEF InFlight, InFlightAfter, FailedAnswersLost
<1>a. ASSUME UNCHANGED supervisor, NEW what, NEW to, Write(what, to), InFlight(to),
             UNCHANGED <<lines, queued>>, InFlight(handling')
      PROVE  FlightAfter
  <2>1. /\ Len(pipe') = Len(pipe) + 1
        /\ \A i \in 1..Len(pipe) : pipe'[i] = pipe[i]
        /\ pipe'[Len(pipe) + 1].to = to
    BY <1>a, <1>t DEF Write
  <2>2. ASSUME NEW i \in 1..Len(pipe') PROVE InFlightAfter(pipe'[i].to)
    <3>1. CASE i = Len(pipe) + 1
      BY <3>1, <2>1, <1>a, <1>u
    <3>2. CASE i # Len(pipe) + 1
      <4>1. Len(pipe) \in Nat /\ Len(pipe') = Len(pipe) + 1
        BY <2>1, <1>t
      <4>2. i \in 1..Len(pipe)
        BY <3>2, <4>1
      <4>3. QED BY <4>2, <2>1, <1>u, <1>a
    <3>3. QED BY <3>1, <3>2
  <2>3. InFlightAfter(handling')
    BY <1>a, <1>u DEF InFlight, InFlightAfter
  <2>4. QED BY <2>2, <2>3, <1>a, <1>u
<1>z. InFlight(0)
  BY DEF InFlight, InFlightAfter
<1>18. CASE ProviderHello
  BY <1>18, <1>a, <1>z DEF ProviderHello
<1>19. CASE ProviderReads
  <2>1. /\ queued # <<>> /\ handling' = queued[1] /\ queued' = Tail(queued)
        /\ UNCHANGED <<supervisor, pipe, lines>>
    BY <1>19, <1>t DEF ProviderReads
  <2>2. InFlight(handling')
    BY <2>1, <1>t
  <2>3. \A i \in 1..Len(queued') : InFlightAfter(queued'[i])
    BY <2>1, <1>u, <1>t
  <2>4. QED BY <2>1, <2>2, <2>3, <1>u
<1>20. CASE ProviderAnswers
  BY <1>20, <1>a, <1>z DEF ProviderAnswers
<1>21. CASE ProviderStrays
  BY <1>21, <1>a, <1>z DEF ProviderStrays
<1>22. CASE ProviderExits
  BY <1>22, <1>a, <1>z DEF ProviderExits
<1>23. CASE ReaderThread
  <2>1. /\ pipe # <<>> /\ pipe' = Tail(pipe) /\ lines' = Append(lines, pipe[1])
        /\ UNCHANGED <<supervisor, queued, handling>>
    BY <1>23, <1>t DEF ReaderThread, provider
  <2>2. \A i \in 1..Len(pipe') : InFlightAfter(pipe'[i].to)
    BY <2>1, <1>u, <1>t
  <2>3. \A i \in 1..Len(lines') : InFlightAfter(lines'[i].to)
    <3>1. /\ Len(lines') = Len(lines) + 1
          /\ \A i \in 1..Len(lines) : lines'[i] = lines[i]
          /\ lines'[Len(lines) + 1] = pipe[1]
      BY <2>1, <1>t
    <3>2. InFlight(pipe[1].to)
      BY <2>1, <1>t
    <3>3. ASSUME NEW i \in 1..Len(lines') PROVE InFlightAfter(lines'[i].to)
      <4>1. CASE i = Len(lines) + 1
        BY <4>1, <3>1, <3>2, <1>u, <2>1
      <4>2. CASE i # Len(lines) + 1
        <5>1. i \in 1..Len(lines)
          BY <4>2, <3>1, <1>t
        <5>2. QED BY <5>1, <3>1, <1>u, <2>1
      <4>3. QED BY <4>1, <4>2
    <3>4. QED BY <3>3
  <2>4. QED BY <2>1, <2>2, <2>3, <1>u
<1>24. CASE WriterThreadFails
  BY <1>24, <1>u DEF WriterThreadFails, provider
<1>25. CASE UNCHANGED vars
  BY <1>25, <1>u DEF vars, channels, provider
<1>26. QED
  BY <1>1, <1>2, <1>3, <1>4, <1>5, <1>6, <1>7, <1>8, <1>9, <1>10, <1>11, <1>12, <1>13,
     <1>14, <1>15, <1>16, <1>17, <1>18, <1>19, <1>20, <1>21, <1>22, <1>23, <1>24, <1>25
     DEF Next, ClientStep, ProviderStep, Terminated

(* Lines, requests and answers on their way are tied to requests made.     *)
LEMMA FlightInvariant == Spec => []FlightInv
<1>1. Init => FlightInv
  BY BoundsAssumption DEF Init, FlightInv, InFlight, FailedAnswersLost
<1>2. QED
  BY <1>1, FlightInductive, TypeInvariant, PTL DEF Spec

(* Whatever the provider writes and whenever it fails, the answer to a     *)
(* request that failed never becomes the answer to another.                *)
THEOREM FailedAnswersStayLost == Spec => []FailedAnswersLost
<1>1. FlightInv => FailedAnswersLost
  BY DEF FlightInv
<1>2. QED
  BY <1>1, FlightInvariant, PTL

-----------------------------------------------------------------------------
(* Which request an answer is given to.                                    *)

(* Lines that answer nothing, and lines of which one answers request n.    *)
Bland(line) == line.to = 0 /\ line.what \notin {"ok", "err"}
Blank(s)    == \A i \in 1..Len(s) : Bland(s[i])
Once(s, n)  == \E j \in 1..Len(s) : s[j].to = n /\ \A i \in 1..Len(s) \ {j} : Bland(s[i])

(* Nothing is on its way, or one thing: the request that waits, in the     *)
(* hands of the provider, or its answer.                                   *)
Quiet == queued = <<>> /\ handling = 0 /\ Blank(pipe) /\ Blank(lines)
OneDue ==
    \/ queued = <<req>> /\ handling = 0 /\ Blank(pipe) /\ Blank(lines)
    \/ queued = <<>> /\ handling = req /\ Blank(pipe) /\ Blank(lines)
    \/ queued = <<>> /\ handling = 0 /\ Once(pipe, req) /\ Blank(lines)
    \/ queued = <<>> /\ handling = 0 /\ Blank(pipe) /\ Once(lines, req)

(* As long as the provider wrote no line for no request, no more than one  *)
(* request is on its way, with or without its answer, and only while the   *)
(* client waits for it.                                                    *)
PairInv ==
    /\ AnswersMatch
    /\ strays = 0 => Quiet \/ (pc = "waiting" /\ OneDue)

(* Reading a stream, and adding to it.                                     *)
LEMMA StreamSteps ==
    ASSUME NEW s \in Seq(Line), NEW line \in Line, NEW n \in Nat \ {0}
    PROVE  /\ Blank(<<>>)
           /\ Blank(s) /\ Bland(line) => Blank(Append(s, line))
           /\ Blank(s) /\ line.to = n => Once(Append(s, line), n)
           /\ Once(s, n) /\ Bland(line) => Once(Append(s, line), n)
           /\ s # <<>> /\ Blank(s) => Bland(Head(s)) /\ Blank(Tail(s))
           /\ s # <<>> /\ Once(s, n) => \/ Head(s).to = n /\ Blank(Tail(s))
                                        \/ Bland(Head(s)) /\ Once(Tail(s), n)
<1> USE DEF Blank
<1>1. Blank(<<>>)
  OBVIOUS
<1>a. /\ Append(s, line) \in Seq(Line)
      /\ Len(Append(s, line)) = Len(s) + 1 /\ Append(s, line)[Len(s) + 1] = line
      /\ \A i \in 1..Len(s) : Append(s, line)[i] = s[i]
      /\ Len(s) \in Nat
  OBVIOUS
<1>2. Blank(s) /\ Bland(line) => Blank(Append(s, line))
  <2> SUFFICES ASSUME Blank(s), Bland(line), NEW i \in 1..(Len(s) + 1)
               PROVE  Bland(Append(s, line)[i])
    BY <1>a
  <2>1. i \in 1..Len(s) \/ i = Len(s) + 1
    BY <1>a
  <2> QED
    BY <1>a, <2>1
<1>3. Blank(s) /\ line.to = n => Once(Append(s, line), n)
  <2> SUFFICES ASSUME Blank(s), line.to = n PROVE Once(Append(s, line), n)
    OBVIOUS
  <2>1. \A i \in 1..(Len(s) + 1) \ {Len(s) + 1} : i \in 1..Len(s)
    BY <1>a
  <2>2. Len(s) + 1 \in 1..Len(Append(s, line))
    BY <1>a
  <2> QED
    BY <1>a, <2>1, <2>2 DEF Once
<1>4. Once(s, n) /\ Bland(line) => Once(Append(s, line), n)
  <2> SUFFICES ASSUME Bland(line), NEW j \in 1..Len(s), s[j].to = n,
                      \A i \in 1..Len(s) \ {j} : Bland(s[i])
               PROVE  Once(Append(s, line), n)
    BY DEF Once
  <2>1. \A i \in 1..(Len(s) + 1) \ {j} : i \in 1..Len(s) \ {j} \/ i = Len(s) + 1
    BY <1>a
  <2>2. \A i \in 1..(Len(s) + 1) \ {j} : Bland(Append(s, line)[i])
    BY <1>a, <2>1
  <2>3. j \in 1..Len(Append(s, line)) /\ Append(s, line)[j].to = n
    BY <1>a
  <2> QED
    BY <1>a, <2>2, <2>3 DEF Once
<1>5. ASSUME s # <<>>
      PROVE  /\ Len(s) \in Nat \ {0} /\ Head(s) = s[1] /\ Tail(s) \in Seq(Line)
             /\ Len(Tail(s)) = Len(s) - 1
             /\ \A i \in 1..Len(Tail(s)) : Tail(s)[i] = s[i + 1] /\ i + 1 \in 1..Len(s)
  BY <1>5
<1>6. s # <<>> /\ Blank(s) => Bland(Head(s)) /\ Blank(Tail(s))
  BY <1>5
<1>7. s # <<>> /\ Once(s, n) => \/ Head(s).to = n /\ Blank(Tail(s))
                                \/ Bland(Head(s)) /\ Once(Tail(s), n)
  <2> SUFFICES ASSUME s # <<>>, NEW j \in 1..Len(s), s[j].to = n,
                      \A i \in 1..Len(s) \ {j} : Bland(s[i])
               PROVE  \/ Head(s).to = n /\ Blank(Tail(s))
                      \/ Bland(Head(s)) /\ Once(Tail(s), n)
    BY DEF Once
  <2>1. CASE j = 1
    <3>1. \A i \in 1..Len(Tail(s)) : i + 1 \in 1..Len(s) \ {j}
      BY <1>5, <2>1
    <3> QED
      BY <1>5, <2>1, <3>1
  <2>2. CASE j # 1
    <3>1. Bland(Head(s))
      BY <1>5, <2>2
    <3>2. j - 1 \in 1..Len(Tail(s)) /\ Tail(s)[j - 1] = s[j]
      BY <1>5, <2>2
    <3>3. \A i \in 1..Len(Tail(s)) \ {j - 1} : i + 1 \in 1..Len(s) \ {j}
      BY <1>5, <2>2
    <3>4. \A i \in 1..Len(Tail(s)) \ {j - 1} : Bland(Tail(s)[i])
      BY <1>5, <3>3
    <3> QED
      BY <3>1, <3>2, <3>4 DEF Once
  <2> QED
    BY <2>1, <2>2
<1> QED
  BY <1>1, <1>2, <1>3, <1>4, <1>6, <1>7

(* A step that gives no answer gives none to another request, either.      *)
LEMMA MatchKept ==
    ASSUME TypeInv, PairInv, strays' = 0 => strays = 0,
           \A r \in Requests : outcome'[r] \in {"ok", "err"} =>
               outcome[r] \in {"ok", "err"} /\ credited'[r] = credited[r]
    PROVE  AnswersMatch'
BY DEF PairInv, AnswersMatch

(* A step keeps at most one request on its way.                            *)
LEMMA PairInductive == TypeInv /\ FlightInv /\ PairInv /\ [Next]_vars => PairInv'
<1> SUFFICES ASSUME TypeInv, FlightInv, PairInv, [Next]_vars PROVE PairInv'
  OBVIOUS
<1>t. /\ req \in 0..MaxRequests /\ outcome \in [Requests -> Outcomes]
      /\ credited \in [Requests -> 0..MaxRequests]
      /\ pipe \in Seq(Line) /\ lines \in Seq(Line) /\ queued \in Seq(Requests)
      /\ handling \in 0..MaxRequests /\ MaxRequests \in Nat /\ strays \in Nat
      /\ pc \notin {"idle", "dropped"} => req \in Requests
  BY BoundsAssumption DEF TypeInv, TypeOK, InRequest
<1>i. strays = 0 => Quiet \/ (pc = "waiting" /\ OneDue)
  BY DEF PairInv
<1>b. Blank(<<>>)
  BY DEF Blank
<1>k. kill => Quiet' /\ strays' = strays
  BY <1>b DEF kill, Quiet, Blank
<1>u. ASSUME UNCHANGED <<channels, handling>>
      PROVE  Quiet => Quiet'
  BY <1>u DEF Quiet, Blank
\* a request ends without an answer
<1>f. ASSUME NEW result \in Outcomes \ {"ok", "err"}, Finish(result), credited' = credited,
             strays' = strays
      PROVE  AnswersMatch'
  BY <1>f, <1>t, MatchKept DEF Finish
<1>e. ASSUME UNCHANGED <<outcome, credited>>, strays' = 0 => strays = 0
      PROVE  AnswersMatch'
  BY <1>e, MatchKept
<1>c. ASSUME NEW result \in Failures, FailAndCount(result) PROVE PairInv'
  <2>1. result \in Outcomes \ {"ok", "err"} /\ Finish(result) /\ credited' = credited /\ kill
    BY <1>c DEF FailAndCount
  <2> QED
    BY <2>1, <1>f, <1>k DEF PairInv
<1>s. ASSUME SeeIdle, pc = "idle", UNCHANGED <<outcome, credited>> PROVE PairInv'
  <2>1. (Quiet => Quiet') /\ strays' = strays
    BY <1>s, <1>k, <1>u DEF SeeIdle
  <2> QED
    BY <1>s, <1>i, <1>e, <2>1 DEF PairInv
<1>q. ASSUME pc # "waiting", UNCHANGED <<channels, handling, strays, outcome, credited>>
      PROVE  PairInv'
  BY <1>q, <1>i, <1>u, <1>e DEF PairInv
<1>g. ASSUME pc # "waiting", UNCHANGED <<channels, provider, credited>>,
             NEW result \in Outcomes \ {"ok", "err"}, Finish(result)
      PROVE  PairInv'
  BY <1>g, <1>i, <1>u, <1>f DEF PairInv
<1>1. CASE WatchIdle
  BY <1>1, <1>s DEF WatchIdle
<1>2. CASE RequestSkipped
  <2>1. AnswersMatch'
    BY <1>2, <1>t, MatchKept DEF RequestSkipped
  <2> QED
    BY <1>2, <1>i, <1>u, <2>1 DEF RequestSkipped, PairInv
<1>3. CASE Request
  BY <1>3, <1>s DEF Request
<1>4. CASE UseSession
  BY <1>4, <1>q DEF UseSession
<1>5. CASE NotRestarted
  BY <1>5, <1>g DEF NotRestarted
<1>6. CASE Spawn
  BY <1>6, <1>q DEF Spawn, mayStart
<1>7. CASE CannotSpawn
  BY <1>7, <1>g DEF CannotSpawn, mayStart
<1>8. CASE ReceiveHello
  <2>1. Quiet => Quiet'
    BY <1>8, <1>t, StreamSteps DEF ReceiveHello, Quiet, Blank
  <2> QED
    BY <1>8, <1>i, <1>e, <2>1 DEF ReceiveHello, PairInv
<1>9. CASE HelloFails
  <2>1. "helloFailed" \in Outcomes \ {"ok", "err"}
    OBVIOUS
  <2> QED
    BY <1>9, <2>1, <1>f, <1>k DEF HelloFails, PairInv
<1>10. CASE HelloTimesOut
  BY <1>10, <1>c DEF HelloTimesOut
<1>11. CASE RequestInvalid
  BY <1>11, <1>g DEF RequestInvalid
<1>12. CASE Send
  <2>1. /\ pc = "ready" /\ pc' = "waiting" /\ req' = req /\ queued' = Append(queued, req)
        /\ UNCHANGED <<pipe, lines, handling, strays, outcome, credited>>
    BY <1>12 DEF Send
  <2>2. ASSUME strays = 0 PROVE OneDue'
    <3>1. Quiet
      BY <1>i, <2>1, <2>2
    <3>2. queued' = <<req>>
      BY <2>1, <3>1 DEF Quiet
    <3> QED
      BY <2>1, <3>1, <3>2 DEF OneDue, Quiet, Blank
  <2> QED
    BY <2>1, <2>2, <1>e DEF PairInv
<1>13. CASE SendFails
  BY <1>13, <1>c DEF SendFails
<1>14. CASE ReceiveAnswer
  <2>1. /\ pc = "waiting" /\ lines # <<>> /\ Head(lines).what \in {"ok", "err"}
        /\ Finish(Head(lines).what) /\ lines' = Tail(lines)
        /\ credited' = [credited EXCEPT ![req] = Head(lines).to]
        /\ UNCHANGED <<pipe, queued, handling, strays>> /\ req \in Requests
    BY <1>14, <1>t DEF ReceiveAnswer
  <2>2. ASSUME strays = 0 PROVE Head(lines).to = req /\ Quiet'
    <3>1. ~ Bland(Head(lines)) /\ req \in Nat \ {0}
      BY <2>1, <1>t DEF Bland
    <3>2. ~ Blank(lines)
      BY <2>1, <3>1, <1>t, StreamSteps
    <3>3. queued = <<>> /\ handling = 0 /\ Blank(pipe) /\ Once(lines, req)
      BY <1>i, <2>2, <3>2 DEF Quiet, OneDue
    <3>4. Head(lines).to = req /\ Blank(Tail(lines))
      BY <2>1, <3>1, <3>3, <1>t, StreamSteps
    <3> QED
      BY <2>1, <3>3, <3>4 DEF Quiet, Blank
  <2>3. AnswersMatch'
    <3> SUFFICES ASSUME strays = 0, NEW r \in Requests, outcome'[r] \in {"ok", "err"}
                 PROVE  credited'[r] = r
      BY <2>1 DEF AnswersMatch
    <3>1. CASE r = req
      BY <2>1, <2>2, <3>1, <1>t
    <3>2. CASE r # req
      BY <2>1, <3>2, <1>t DEF Finish, PairInv, AnswersMatch
    <3> QED
      BY <3>1, <3>2
  <2> QED
    BY <2>1, <2>2, <2>3 DEF PairInv
<1>15. CASE ReceiveFailure
  BY <1>15, <1>c DEF ReceiveFailure
<1>16. CASE AnswerTimesOut
  BY <1>16, <1>c DEF AnswerTimesOut
<1>17. CASE Drop
  BY <1>17, <1>k, <1>e DEF Drop, PairInv
\* the provider and the threads
<1>v. ASSUME UNCHANGED supervisor, strays' = 0 => strays = 0,
             strays' = 0 => (Quiet => Quiet') /\ (pc = "waiting" /\ OneDue => OneDue' \/ Quiet')
      PROVE  PairInv'
  BY <1>v, <1>i, <1>e DEF PairInv
<1>r. pc = "waiting" => req \in Nat \ {0}
  BY <1>t
<1>w. ASSUME NEW what \in {"hello", "badHello", "eof", "bad", "ok", "err"}, NEW to \in 0..MaxRequests
      PROVE  [what |-> what, to |-> to] \in Line
  BY DEF Line
\* a line that is no answer changes nothing
<1>a. ASSUME NEW what \in {"hello", "badHello", "eof"}, Write(what, 0),
             UNCHANGED <<supervisor, queued, lines, strays>>,
             handling' = handling \/ handling' = 0
      PROVE  PairInv'
  <2> DEFINE line == [what |-> what, to |-> 0]
  <2>1. line \in Line /\ Bland(line) /\ pipe' = Append(pipe, line)
    BY <1>w, <1>a, <1>t DEF Bland, Write
  <2> HIDE DEF line
  <2>2. Blank(pipe) => Blank(pipe')
    BY <2>1, <1>t, StreamSteps DEF Blank
  <2>3. pc = "waiting" /\ Once(pipe, req) => Once(pipe', req)
    BY <2>1, <1>t, <1>r, StreamSteps
  <2>4. Quiet => Quiet'
    BY <2>2, <1>a DEF Quiet, Blank
  <2>5. pc = "waiting" /\ OneDue => OneDue' \/ Quiet'
    BY <2>2, <2>3, <1>a DEF Quiet, OneDue, Blank, Once
  <2> QED
    BY <2>4, <2>5, <1>a, <1>v
<1>18. CASE ProviderHello
  BY <1>18, <1>a DEF ProviderHello
<1>19. CASE ProviderReads
  <2>1. queued # <<>> /\ handling = 0 /\ handling' = Head(queued) /\ queued' = Tail(queued)
        /\ UNCHANGED <<supervisor, pipe, lines, strays>>
    BY <1>19 DEF ProviderReads
  <2>2. ~ Quiet
    BY <2>1 DEF Quiet
  <2>3. ASSUME OneDue PROVE OneDue'
    <3>1. queued = <<req>> /\ Blank(pipe) /\ Blank(lines)
      BY <2>1, <2>3 DEF OneDue
    <3>2. handling' = req /\ queued' = <<>>
      BY <2>1, <3>1
    <3> QED
      BY <2>1, <3>1, <3>2 DEF OneDue, Blank
  <2> QED
    BY <2>1, <2>2, <2>3, <1>v
<1>20. CASE ProviderAnswers
  <2>1. PICK what \in {"ok", "err", "bad"} : Write(what, handling)
    BY <1>20 DEF ProviderAnswers
  <2>2. handling # 0 /\ handling' = 0 /\ UNCHANGED <<supervisor, queued, lines, strays>>
    BY <1>20 DEF ProviderAnswers
  <2> DEFINE line == [what |-> what, to |-> handling]
  <2>3. line \in Line /\ line.to = handling /\ pipe' = Append(pipe, line)
    BY <1>w, <2>1, <1>t DEF Write
  <2> HIDE DEF line
  <2>4. ASSUME pc = "waiting", OneDue PROVE OneDue'
    <3>1. queued = <<>> /\ handling = req /\ Blank(pipe) /\ Blank(lines)
      BY <2>2, <2>4, <1>r DEF OneDue
    <3>2. Once(pipe', req)
      BY <2>3, <2>4, <3>1, <1>t, <1>r, StreamSteps
    <3> QED
      BY <2>2, <3>1, <3>2 DEF OneDue, Blank, Once
  <2>5. ~ Quiet
    BY <2>2 DEF Quiet
  <2> QED
    BY <2>2, <2>4, <2>5, <1>v
<1>21. CASE ProviderStrays
  BY <1>21, <1>t, <1>v DEF ProviderStrays
<1>22. CASE ProviderExits
  BY <1>22, <1>a DEF ProviderExits
<1>23. CASE ReaderThread
  <2>1. /\ pipe # <<>> /\ pipe' = Tail(pipe) /\ lines' = Append(lines, Head(pipe))
        /\ UNCHANGED <<supervisor, queued, handling, strays>> /\ Head(pipe) \in Line
    BY <1>23, <1>t DEF ReaderThread
  <2>2. Blank(pipe) /\ Blank(lines) => Blank(pipe') /\ Blank(lines')
    BY <2>1, <1>t, StreamSteps DEF Blank
  <2>3. pc = "waiting" /\ Blank(pipe) /\ Once(lines, req) => Blank(pipe') /\ Once(lines', req)
    BY <2>1, <1>t, <1>r, StreamSteps
  <2>4. pc = "waiting" /\ Once(pipe, req) /\ Blank(lines) =>
            \/ Once(pipe', req) /\ Blank(lines')
            \/ Blank(pipe') /\ Once(lines', req)
    BY <2>1, <1>t, <1>r, StreamSteps
  <2>5. Quiet => Quiet'
    BY <2>1, <2>2 DEF Quiet, Blank
  <2>6. pc = "waiting" /\ OneDue => OneDue'
    BY <2>1, <2>2, <2>3, <2>4 DEF OneDue, Blank, Once
  <2> QED
    BY <2>1, <2>5, <2>6, <1>v
<1>24. CASE WriterThreadFails
  <2>1. queued' = <<>> /\ UNCHANGED <<supervisor, pipe, lines, handling, strays>>
    BY <1>24 DEF WriterThreadFails
  <2>2. Quiet => Quiet'
    BY <2>1 DEF Quiet, Blank
  <2>3. OneDue => OneDue' \/ Quiet'
    BY <2>1 DEF Quiet, OneDue, Blank, Once
  <2> QED
    BY <2>1, <2>2, <2>3, <1>v
<1>25. CASE UNCHANGED vars
  BY <1>25 DEF vars, PairInv, AnswersMatch, Quiet, OneDue, Blank, Once
<1>26. QED
  BY <1>1, <1>2, <1>3, <1>4, <1>5, <1>6, <1>7, <1>8, <1>9, <1>10, <1>11, <1>12, <1>13,
     <1>14, <1>15, <1>16, <1>17, <1>18, <1>19, <1>20, <1>21, <1>22, <1>23, <1>24, <1>25
     DEF Next, ClientStep, ProviderStep, Terminated

(* Messages carry no id, and still every answer is given to the request it *)
(* was written for, whatever times out, fails and is started again in      *)
(* between, as long as the provider writes no line for no request.         *)
THEOREM AnswersArePaired == Spec => []AnswersMatch
<1>1. Init => PairInv
  BY DEF Init, PairInv, AnswersMatch, Quiet, Blank
<1>2. PairInv => AnswersMatch
  BY DEF PairInv
<1>3. QED
  BY <1>1, <1>2, PairInductive, FlightInvariant, TypeInvariant, PTL DEF Spec

-----------------------------------------------------------------------------
(* Which failures are counted.                                             *)

FailedRequests == {r \in Requests : outcome[r] \in Failures}

(* One more request fails, and it had no outcome before.                   *)
LEMMA OneMoreFailed ==
    ASSUME TypeInv, FlightInv, NEW result \in Failures, Finish(result), pc \notin {"idle", "dropped"}
    PROVE  Cardinality(FailedRequests') = Cardinality(FailedRequests) + 1
<1>1. req \in Requests /\ outcome \in [Requests -> Outcomes] /\ MaxRequests \in Nat
  BY BoundsAssumption DEF TypeInv, TypeOK, InRequest
<1>2. req \notin FailedRequests
  BY <1>1 DEF FailedRequests, FlightInv
<1>3. FailedRequests' = FailedRequests \cup {req}
  BY <1>1 DEF FailedRequests, Finish
<1>4. IsFiniteSet(Requests)
  BY <1>1, FS_Interval
<1>5. FailedRequests \subseteq Requests
  BY DEF FailedRequests
<1>6. IsFiniteSet(FailedRequests)
  BY <1>4, <1>5, FS_Subset
<1> QED
  BY <1>2, <1>3, <1>6, FS_AddElement

(* A step that ends no request in a failure counts and warns alike.        *)
LEMMA NoneFailed ==
    ASSUME TypeInv, FailuresAccounted,
           \A r \in Requests : outcome'[r] \in Failures <=> outcome[r] \in Failures,
           \/ UNCHANGED <<failed, warnings>>
           \/ failed' = failed + 1 /\ warnings' = warnings + 1
    PROVE  FailuresAccounted'
<1>1. FailedRequests' = FailedRequests
  BY DEF FailedRequests
<1>2. IsFiniteSet(FailedRequests)
  <2>1. IsFiniteSet(Requests) /\ FailedRequests \subseteq Requests
    BY BoundsAssumption, FS_Interval DEF FailedRequests
  <2> QED
    BY <2>1, FS_Subset
<1>3. Cardinality(FailedRequests) \in Nat /\ failed \in Nat /\ warnings \in Nat
  BY <1>2, FS_CardinalityType DEF TypeInv, TypeOK
<1>4. failed = warnings + Cardinality(FailedRequests)
  BY DEF FailuresAccounted, FailedRequests
<1>5. failed' = warnings' + Cardinality(FailedRequests')
  BY <1>1, <1>3, <1>4
<1> QED
  BY <1>5 DEF FailuresAccounted, FailedRequests

(* A failure that is counted fails the request being made, or is warned    *)
(* about.                                                                  *)
LEMMA AccountInductive ==
    TypeInv /\ FlightInv /\ FailuresAccounted /\ [Next]_vars => FailuresAccounted'
<1> SUFFICES ASSUME TypeInv, FlightInv, FailuresAccounted, [Next]_vars PROVE FailuresAccounted'
  OBVIOUS
<1>t. outcome \in [Requests -> Outcomes]
  BY DEF TypeInv, TypeOK
<1>c. ASSUME NEW result \in Failures, FailAndCount(result), pc \notin {"idle", "dropped"}
      PROVE  FailuresAccounted'
  <2>1. Cardinality(FailedRequests') = Cardinality(FailedRequests) + 1
    BY <1>c, OneMoreFailed DEF FailAndCount
  <2>2. IsFiniteSet(Requests) /\ FailedRequests \subseteq Requests
    BY BoundsAssumption, FS_Interval DEF FailedRequests
  <2>3. Cardinality(FailedRequests) \in Nat /\ warnings \in Nat
    BY <2>2, FS_Subset, FS_CardinalityType DEF TypeInv, TypeOK
  <2>4. failed = warnings + Cardinality(FailedRequests)
    BY DEF FailuresAccounted, FailedRequests
  <2>5. failed' = failed + 1 /\ warnings' = warnings
    BY <1>c DEF FailAndCount
  <2>6. failed' = warnings' + Cardinality(FailedRequests')
    BY <2>1, <2>3, <2>4, <2>5
  <2> QED
    BY <2>6 DEF FailuresAccounted, FailedRequests
<1>f. ASSUME NEW result \in Outcomes \ Failures, Finish(result), pc \notin {"idle", "dropped"},
             UNCHANGED <<failed, warnings>>
      PROVE  FailuresAccounted'
  <2>1. outcome[req] = "none"
    BY <1>f DEF FlightInv
  <2>2. \A r \in Requests : outcome'[r] \in Failures <=> outcome[r] \in Failures
    BY <1>f, <1>t, <2>1 DEF Finish
  <2> QED
    BY <1>f, <2>2, NoneFailed
<1>s. ASSUME SeeIdle, outcome' = outcome PROVE FailuresAccounted'
  BY <1>s, NoneFailed DEF SeeIdle
<1>u. ASSUME UNCHANGED <<outcome, failed, warnings>> PROVE FailuresAccounted'
  BY <1>u, NoneFailed
<1>1. CASE WatchIdle \/ Request
  BY <1>1, <1>s DEF WatchIdle, Request
<1>2. CASE RequestSkipped
  <2>1. outcome[req + 1] = "none" /\ req + 1 \in Requests
    BY <1>2, BoundsAssumption DEF RequestSkipped, FlightInv, TypeInv, TypeOK
  <2>2. \A r \in Requests : outcome'[r] \in Failures <=> outcome[r] \in Failures
    BY <1>2, <1>t, <2>1 DEF RequestSkipped
  <2> QED
    BY <1>2, <2>2, NoneFailed DEF RequestSkipped
<1>3. CASE UseSession \/ Spawn \/ ReceiveHello \/ Send \/ Drop
  BY <1>3, <1>u DEF UseSession, Spawn, ReceiveHello, Send, Drop
<1>4. CASE NotRestarted \/ CannotSpawn \/ HelloFails \/ RequestInvalid
  BY <1>4, <1>f DEF NotRestarted, CannotSpawn, mayStart, HelloFails, RequestInvalid
<1>5. CASE ReceiveAnswer
  BY <1>5, <1>f DEF ReceiveAnswer
<1>6. CASE HelloTimesOut \/ SendFails \/ ReceiveFailure \/ AnswerTimesOut
  BY <1>6, <1>c DEF HelloTimesOut, SendFails, ReceiveFailure, AnswerTimesOut
<1>7. CASE ProviderStep \/ UNCHANGED vars
  BY <1>7, <1>u DEF ProviderStep, ProviderHello, ProviderReads, ProviderAnswers, ProviderStrays,
     ProviderExits, ReaderThread, WriterThreadFails, vars
<1>8. QED
  BY <1>1, <1>2, <1>3, <1>4, <1>5, <1>6, <1>7 DEF Next, ClientStep, Terminated

(* Every session that counts toward the limit failed exactly one request   *)
(* or was warned about, and no request that failed goes uncounted.         *)
THEOREM FailuresAreAccounted == Spec => []FailuresAccounted
<1>1. Init => FailuresAccounted
  <2> SUFFICES ASSUME Init PROVE FailuresAccounted
    OBVIOUS
  <2>1. FailedRequests = {}
    BY DEF Init, FailedRequests
  <2>2. Cardinality(FailedRequests) = 0
    BY <2>1, FS_EmptySet
  <2>3. failed = 0 /\ warnings = 0
    BY DEF Init
  <2>4. failed = warnings + Cardinality(FailedRequests)
    BY <2>2, <2>3
  <2> QED
    BY <2>4 DEF FailuresAccounted, FailedRequests
<1>2. QED
  BY <1>1, AccountInductive, FlightInvariant, TypeInvariant, PTL DEF Spec

-----------------------------------------------------------------------------
(* The supervisor implements the policy's restart table.                   *)

(* Every step of the supervisor is a step of the restart table or leaves   *)
(* it alone.                                                               *)
LEMMA RestartStep == TypeOK /\ LimitInv /\ [Next]_vars => [Restarts!Next]_(Restarts!vars)
<1> SUFFICES ASSUME TypeOK, LimitInv, [Next]_vars,
                    ~UNCHANGED <<failed, skipped, session \/ pc = "hello", starts>>
             PROVE  Restarts!Next
  BY DEF Restarts!vars
<1>t. failed \in Nat /\ session \in BOOLEAN /\ skipped \in BOOLEAN
  BY DEF TypeOK
<1>l. /\ pc \in {"ready", "waiting"} => session
      /\ pc \in {"ready", "waiting", "hello"} =>
            ~skipped /\ failed < FailedSessionsBeforeNoRestart
      /\ pc = "hello" => ~session
      /\ pc = "ensure" => ~skipped
  BY DEF LimitInv
\* every end of a session is an end of the table
<1>e. ASSUME NEW cause \in Restarts!Causes,
             session \/ pc = "hello", ~(session' \/ pc' = "hello"),
             failed' = IF cause \in Restarts!Counts THEN failed + 1 ELSE failed,
             skipped' = (skipped \/ cause = "hello-failed"), starts' = starts,
             cause # "error-answer"
      PROVE  Restarts!Next
  <2>1. Restarts!end(cause)
    BY <1>e DEF Restarts!end, Restarts!EndsSession, Restarts!SkipsProvider
  <2>2. QED BY <2>1 DEF Restarts!Next
<1>c. ASSUME NEW result \in Failures, FailAndCount(result), session \/ pc = "hello"
      PROVE  Restarts!Next
  <2>1. /\ failed' = failed + 1 /\ ~session' /\ pc' = "idle" /\ skipped' = skipped
        /\ starts' = starts
    BY <1>c DEF FailAndCount, Finish, kill
  <2>2. "timeout" \in Restarts!Causes /\ "timeout" \in Restarts!Counts
    BY DEF Restarts!Causes, Restarts!Counts
  <2>3. skipped' = (skipped \/ "timeout" = "hello-failed")
    BY <2>1, <1>t
  <2>4. QED BY <2>1, <2>2, <2>3, <1>c, <1>e
<1>s. ASSUME SeeIdle, pc = "idle", pc' \in {"idle", "ensure"}, skipped' = skipped, starts' = starts
      PROVE  Restarts!Next
  <2>1. CASE idle = "quiet"
    BY <2>1, <1>s, <1>t DEF SeeIdle
  <2>2. CASE idle = "stray"
    <3>1. failed' = failed + 1 /\ ~session' /\ session
      BY <2>2, <1>s DEF SeeIdle, kill, idle
    <3>2. "stray-line" \in Restarts!Causes /\ "stray-line" \in Restarts!Counts
      BY DEF Restarts!Causes, Restarts!Counts
    <3>3. skipped' = (skipped \/ "stray-line" = "hello-failed")
      BY <1>s, <1>t
    <3>4. QED BY <3>1, <3>2, <3>3, <1>s, <1>e
  <2>3. CASE idle = "exited"
    <3>1. failed' = failed /\ ~session' /\ session
      BY <2>3, <1>s DEF SeeIdle, kill, idle
    <3>2. "exit-idle" \in Restarts!Causes /\ "exit-idle" \notin Restarts!Counts
      BY DEF Restarts!Causes, Restarts!Counts
    <3>3. skipped' = (skipped \/ "exit-idle" = "hello-failed")
      BY <1>s, <1>t
    <3>4. QED BY <3>1, <3>2, <3>3, <1>s, <1>e
  <2>4. QED BY <1>s, <2>1, <2>2, <2>3 DEF SeeIdle
<1>1. CASE WatchIdle
  BY <1>1, <1>s DEF WatchIdle
<1>2. CASE Request
  BY <1>2, <1>s DEF Request
<1>3. CASE Spawn
  <2>1. Restarts!start
    BY <1>3, <1>l, <1>t DEF Spawn, mayStart, Restarts!start, Restarts!may_start
  <2>2. QED BY <2>1 DEF Restarts!Next
<1>4. CASE CannotSpawn
  <2>1. Restarts!start_fails
    BY <1>4, <1>l, <1>t DEF CannotSpawn, mayStart, Finish, Restarts!start_fails, Restarts!may_start
  <2>2. QED BY <2>1 DEF Restarts!Next
<1>5. CASE HelloFails
  <2>1. /\ failed' = failed /\ ~session' /\ pc' = "idle" /\ skipped' = TRUE /\ pc = "hello"
        /\ starts' = starts
    BY <1>5 DEF HelloFails, Finish, kill
  <2>2. "hello-failed" \in Restarts!Causes /\ "hello-failed" \notin Restarts!Counts
    BY DEF Restarts!Causes, Restarts!Counts
  <2>3. skipped' = (skipped \/ "hello-failed" = "hello-failed")
    BY <2>1
  <2>4. QED BY <2>1, <2>2, <2>3, <1>e
<1>6. CASE HelloTimesOut
  BY <1>6, <1>c DEF HelloTimesOut
<1>7. CASE SendFails
  BY <1>7, <1>c, <1>l DEF SendFails
<1>8. CASE ReceiveFailure
  BY <1>8, <1>c, <1>l DEF ReceiveFailure
<1>9. CASE AnswerTimesOut
  BY <1>9, <1>c, <1>l DEF AnswerTimesOut
<1>10. CASE Drop
  <2>1. failed' = failed /\ skipped' = skipped /\ starts' = starts /\ ~session' /\ pc' = "dropped"
        /\ pc = "idle"
    BY <1>10 DEF Drop, kill
  <2>2. session
    BY <2>1, <1>t
  <2>3. Restarts!npm_exits
    BY <2>1, <2>2 DEF Restarts!npm_exits
  <2>4. QED BY <2>3 DEF Restarts!Next
\* the other actions change nothing the table speaks of
<1>11. CASE \/ RequestSkipped \/ UseSession \/ NotRestarted \/ ReceiveHello \/ RequestInvalid
            \/ Send \/ ReceiveAnswer
  <2>1. /\ failed' = failed /\ skipped' = skipped /\ starts' = starts
        /\ (session' \/ pc' = "hello") <=> (session \/ pc = "hello")
    BY <1>11, <1>l DEF RequestSkipped, UseSession, NotRestarted, ReceiveHello, RequestInvalid,
       Send, ReceiveAnswer, Finish
  <2>2. QED BY <2>1
<1>12. CASE ProviderStep \/ UNCHANGED vars
  <2>1. UNCHANGED supervisor
    BY <1>12 DEF ProviderStep, ProviderHello, ProviderReads, ProviderAnswers, ProviderStrays,
       ProviderExits, ReaderThread, WriterThreadFails, vars
  <2>2. QED BY <2>1
<1>13. QED
  BY <1>1, <1>2, <1>3, <1>4, <1>5, <1>6, <1>7, <1>8, <1>9, <1>10, <1>11, <1>12
     DEF Next, ClientStep, Terminated

(* The supervisor starts, counts, replaces and skips sessions as the       *)
(* policy's table says, for every number of requests and every limit.      *)
THEOREM SupervisorImplementsRestarts == Spec => ImplementsRestarts
<1>1. Init => Restarts!Init
  BY DEF Init, Restarts!Init
<1>2. QED
  BY <1>1, RestartStep, TypeCorrect, LimitInvariant, PTL
     DEF Spec, ImplementsRestarts, Restarts!Spec
=============================================================================
