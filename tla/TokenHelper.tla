---------------------------- MODULE TokenHelper ----------------------------
(***************************************************************************)
(* How registry requests get a token helper's credential: authorize of     *)
(* npm-registry-fetch walks the registry keys of a URL and asks the        *)
(* function of lib/utils/token-helper.js for each; that function refuses,  *)
(* steps aside, or hands out the one cached run of the key's helper. The   *)
(* requests of a command run concurrently; a body that fails ends its      *)
(* request while the walk goes on; npm may exit while a run is not over.   *)
(***************************************************************************)
EXTENDS HelperRun, Sequences

CONSTANTS
    Requests,   \* the requests of the command
    Calls,      \* what a request may be (see Call)
    Configs     \* configurations (see Config)

(* keys: the registry keys of the URL, in the order of the walk; remote: a *)
(* host other than this machine; route: the settings of the route that a   *)
(* project chose, those of publishConfig included; asks: there is a        *)
(* function, and neither offline nor forceAuth; slowBody: a stream or a    *)
(* promise, that may fail while the function is asked.                     *)
Call == [keys : Seq(RegKeys) \ {<<>>}, scheme : {"https", "http"}, remote : BOOLEAN,
         route : SUBSET {"proxy", "cafile"}, asks : BOOLEAN, slowBody : BOOLEAN]

(* helper: what config has for a key: no tokenHelper, a value that is      *)
(* refused (not an absolute path, has arguments, is not there), a program. *)
(* stored: the credential the options hold for a key. guard: this npm was  *)
(* started by a token helper.                                              *)
Config == [helper : [RegKeys -> {"none", "refused", "program"}],
           stored : [RegKeys -> {"none", "certfile", "auth"}], guard : BOOLEAN]

ASSUME CallAssumption   == Calls \subseteq Call
ASSUME ConfigAssumption == Configs \subseteq Config

VARIABLES
    config,   \* the loaded configuration
    given,    \* the keys with a credential from the command line or environment
    call,     \* for each request, what it is
    pc,       \* "idle", "walking", "awaiting", "done": the walk of authorize
    at,       \* the place in the walk
    outcome,  \* "none", "sent", "failed": what became of the request
    header,   \* the key whose helper gave the Authorization header, or "none"
    mask      \* the keys that were given when the request was made (history)

reqVars == <<call, pc, at, outcome, header, mask>>
vars == <<runVars, config, given, reqVars>>

(* The runs and the walks of the requests keep within their types.         *)
TypeOK ==
    /\ RunTypeOK
    /\ config \in Configs /\ given \in SUBSET RegKeys
    /\ call \in [Requests -> Calls]
    /\ pc \in [Requests -> {"idle", "walking", "awaiting", "done"}]
    /\ at \in [Requests -> Nat] /\ \A q \in Requests : at[q] \in 1..Len(call[q].keys)
    /\ outcome \in [Requests -> {"none", "sent", "failed"}]
    /\ header \in [Requests -> RegKeys \cup {"none"}]
    /\ mask \in [Requests -> SUBSET RegKeys]

Init ==
    /\ RunInit
    /\ config \in Configs /\ given = {}
    /\ call \in [Requests -> Calls]
    /\ pc = [q \in Requests |-> "idle"] /\ at = [q \in Requests |-> 1]
    /\ outcome = [q \in Requests |-> "none"] /\ header = [q \in Requests |-> "none"]
    /\ mask = [q \in Requests |-> {}]

-----------------------------------------------------------------------------
(* A request.                                                              *)

Key(q) == call[q].keys[at[q]]

(* Its outcome, unless its body has failed it already.                     *)
End(q, how) ==
    /\ pc' = [pc EXCEPT ![q] = "done"]
    /\ outcome' = [outcome EXCEPT ![q] = IF @ = "none" THEN how ELSE @]

(* regFetch: without a function to ask it sends at once.                   *)
Begin(q) ==
    /\ npm = "up" /\ pc[q] = "idle"
    /\ mask' = [mask EXCEPT ![q] = given]
    /\ IF call[q].asks
       THEN pc' = [pc EXCEPT ![q] = "walking"] /\ UNCHANGED outcome
       ELSE End(q, "sent")
    /\ UNCHANGED <<runVars, config, given, call, at, header>>

(* A token, _auth or a username and password under the key, from a file or *)
(* given; a client certificate alone sets no Authorization.                *)
setsAuthorization(q, k) == k \in mask[q] \/ config.stored[k] = "auth"

(* No value for the key: the walk ends at one that holds a credential of   *)
(* its own, and at the last.                                               *)
NextKey(q) ==
    IF setsAuthorization(q, Key(q)) \/ at[q] = Len(call[q].keys)
    THEN End(q, "sent") /\ UNCHANGED at
    ELSE /\ at' = [at EXCEPT ![q] = @ + 1]
         /\ pc' = [pc EXCEPT ![q] = "walking"] /\ UNCHANGED outcome

(* The function steps aside: no helper for the key, or one for which the   *)
(* command line or the environment gives a credential.                     *)
StepsAside(k) == config.helper[k] = "none" \/ k \in given

(* A proxy is refused for an http request, any other setting for both.     *)
RouteRefused(q) == call[q].route \ (IF call[q].scheme = "https" THEN {"proxy"} ELSE {}) # {}

Plain(q) == call[q].scheme = "http" /\ call[q].remote

(* Mutant of Refuses: the checks are made when a run is started.           *)
Refuses_only_uncached(q, k) ==
    config.guard \/ (run[k].promise = "none" /\ (Plain(q) \/ RouteRefused(q)))

(* What the function refuses for every request, cached run or not.         *)
Refuses(q, k) == config.guard \/ Plain(q) \/ RouteRefused(q)

AskedAside(q) ==
    /\ npm = "up" /\ pc[q] = "walking" /\ StepsAside(Key(q))
    /\ NextKey(q)
    /\ UNCHANGED <<runVars, config, given, call, header, mask>>

AskedRefused(q) ==
    /\ npm = "up" /\ pc[q] = "walking" /\ ~StepsAside(Key(q)) /\ Refuses(q, Key(q))
    /\ End(q, "failed")
    /\ UNCHANGED <<runVars, config, given, call, at, header, mask>>

(* Mutant of Cached: the outcome is cached when it is there.               *)
Cached_settled(k) == run[k].promise \in {"header", "rejected"}

(* One run per registry and helper for the life of the process.            *)
Cached(k) == run[k].promise # "none"

(* The first request for the key starts the run, or finds that it cannot;  *)
(* every request waits for the same promise.                               *)
AskedHelper(q) ==
    LET k == Key(q) IN
    /\ npm = "up" /\ pc[q] = "walking" /\ ~StepsAside(k) /\ ~Refuses(q, k)
    /\ IF Cached(k) THEN UNCHANGED run
       ELSE IF config.helper[k] = "refused" THEN run' = [run EXCEPT ![k] = NotStarted(@)]
       ELSE \E r \in {Started(run[k]), NotStarted(run[k]), FailsToStart(run[k])} :
               run' = [run EXCEPT ![k] = r]
    /\ pc' = [pc EXCEPT ![q] = "awaiting"]
    /\ UNCHANGED <<platform, npm, config, given, call, at, outcome, header, mask>>

(* Mutant of HelperFailed: a failed helper is passed over.                 *)
HelperFailed_falls_back(q) ==
    /\ npm = "up" /\ pc[q] = "awaiting" /\ run[Key(q)].promise = "rejected"
    /\ NextKey(q)
    /\ UNCHANGED <<runVars, config, given, call, header, mask>>

(* A failure of the helper is the request's.                               *)
HelperFailed(q) ==
    /\ npm = "up" /\ pc[q] = "awaiting" /\ run[Key(q)].promise = "rejected"
    /\ End(q, "failed")
    /\ UNCHANGED <<runVars, config, given, call, at, header, mask>>

(* The header replaces the one of a stored credential, and the request is  *)
(* sent, unless its body failed while it waited.                           *)
HelperAnswered(q) ==
    /\ npm = "up" /\ pc[q] = "awaiting" /\ run[Key(q)].promise = "header"
    /\ header' = [header EXCEPT ![q] = IF outcome[q] = "none" THEN Key(q) ELSE @]
    /\ End(q, "sent")
    /\ UNCHANGED <<runVars, config, given, call, at, mask>>

(* getAuthorization: the body's failure wins the race; the walk, and the   *)
(* helper it waits for, go on.                                             *)
BodyFails(q) ==
    /\ npm = "up" /\ call[q].slowBody
    /\ pc[q] \in {"walking", "awaiting"} /\ outcome[q] = "none"
    /\ outcome' = [outcome EXCEPT ![q] = "failed"]
    /\ UNCHANGED <<runVars, config, given, call, pc, at, header, mask>>

-----------------------------------------------------------------------------
(* The command.                                                            *)

(* Trusted publishing puts its token in the cli layer, between two         *)
(* publishes of one command.                                               *)
OidcToken(k) ==
    /\ npm = "up" /\ k \notin given
    /\ \A q \in Requests : pc[q] # "idle" => outcome[q] # "none"
    /\ given' = given \cup {k}
    /\ UNCHANGED <<runVars, config, reqVars>>

(* npm exits when its requests are over, whatever still runs.              *)
NpmExits ==
    /\ npm = "up" /\ \A q \in Requests : outcome[q] # "none"
    /\ npm' = "gone"
    /\ UNCHANGED <<platform, run, config, given, reqVars>>

RequestStep(q) == \/ Begin(q) \/ AskedAside(q) \/ AskedRefused(q) \/ AskedHelper(q)
                  \/ HelperFailed(q) \/ HelperAnswered(q)

HelperStep(k) == RunStep(k) /\ UNCHANGED <<config, given, reqVars>>

Next == \/ \E q \in Requests : RequestStep(q) \/ BodyFails(q)
        \/ \E k \in RegKeys : HelperStep(k) \/ OidcToken(k)
        \/ NpmExits
        \/ npm = "gone" /\ UNCHANGED vars

Spec == Init /\ [][Next]_vars

(* The event loop runs what is ready, the timers fire. The program owes    *)
(* nothing: it may never exit, and what it left may hold its output.       *)
Fairness ==
    /\ \A q \in Requests : WF_vars(RequestStep(q))
    /\ \A k \in RegKeys :
          /\ WF_vars(LoopStep(k) /\ UNCHANGED <<config, given, reqVars>>)
          /\ WF_vars(DeadlineOfHanging(k) /\ UNCHANGED <<config, given, reqVars>>)

FairSpec == Spec /\ Fairness

-----------------------------------------------------------------------------
(* Properties.                                                             *)

(* One run per registry key and helper, whatever the requests and however  *)
(* it ended; none in an npm that a helper started.                         *)
RunOnce == \A k \in RegKeys : run[k].starts <= IF config.guard THEN 0 ELSE 1

(* A helper's credential, cached or not, is carried neither over plain     *)
(* http to another machine nor over a route a project chose.               *)
RefusedNeverCarries ==
    \A q \in Requests : header[q] # "none" => ~Plain(q) /\ ~RouteRefused(q)

(* Which credential a sent request carries: that of the first key with a   *)
(* helper in use, or with a stored credential, whichever comes first (a    *)
(* helper wins over what is stored for its own key); so no request goes    *)
(* out with a stored credential, or with none, where a helper failed.      *)
Deciding(q, n) ==
    LET k == call[q].keys[n] IN
    config.helper[k] # "none" \/ k \in mask[q] \/ config.stored[k] = "auth"

RightCredential ==
    \A q \in Requests : outcome[q] = "sent" /\ call[q].asks =>
        LET decide == {n \in 1..Len(call[q].keys) : Deciding(q, n)} IN
        IF decide = {} THEN header[q] = "none"
        ELSE LET n == CHOOSE n \in decide : \A m \in decide : n <= m
                 k == call[q].keys[n]
             IN header[q] = IF config.helper[k] # "none" /\ k \notin mask[q] THEN k ELSE "none"

(* A program npm gave up on does not outlive the grace, unless npm ends    *)
(* first (on Windows it is ended at once).                                 *)
AbortedEnds ==
    \A k \in RegKeys : run[k].aborted ~> run[k].proc # "running" \/ npm = "gone"

(* Every request has an outcome: a helper that hangs meets the deadline,   *)
(* and one that has exited does not wait for it, whoever holds its output. *)
RequestsEnd == <>(\A q \in Requests : outcome[q] # "none")

(* Stated by phase-1a-token-helper.md:282 (SIGTERM, and SIGKILL 2 s later), *)
(* and not so: the timer of SIGKILL ends with npm, whoever ignores SIGTERM.  *)
HelperKilled == \A k \in RegKeys : run[k].aborted ~> run[k].proc # "running"
=============================================================================
