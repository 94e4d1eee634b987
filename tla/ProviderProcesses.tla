------------------------- MODULE ProviderProcesses -------------------------
(***************************************************************************)
(* What the reference providers share: the processes of a provider, one    *)
(* for each npm command, each answering one request at a time              *)
(* (examples/providers/lib/protocol.js), and the store file they meet in   *)
(* (lib/context.js). A module of a provider extends this one with its      *)
(* handlers. A handler runs without interruption from one await to the     *)
(* next, and the reads and writes of the store in such a stretch are one   *)
(* step here (GitLabProvider takes them apart).                            *)
(*                                                                         *)
(* Credentials of all kinds are numbers in the order of their issue, 0 for *)
(* none: sign-ins, refresh tokens, and the tokens a provider hands out.    *)
(***************************************************************************)
EXTENDS Naturals

CONSTANTS
    Processes,               \* the processes of the provider
    MaxRequests, MaxIssued   \* bounds

ASSUME BoundAssumption == MaxRequests \in Nat /\ MaxIssued \in Nat

Credentials == 0..MaxIssued

VARIABLES
    ci,        \* whether the job's own identity is there
    store,     \* the provider's entry in the store file
    good,      \* the service: the long-lived credentials it accepts
    issued,    \* the service: the last credential
    memory,    \* of each process: what it holds between requests
    pc, req,   \* of each process: where it is, and its request
    local,     \* of each process: the values its handler has in hand
    asked,     \* of each process: whether a person said yes to its request (history)
    answer,    \* of each process: its last answer
    requests,  \* the requests so far (bounded)
    reserved,  \* credentials kept for writes: none that reads are served with too (history)
    retired,   \* of each process: what it must not hand out again (history)
    ended,     \* sign-ins removed from the store or replaced, and what is rotated from one (history)
    lost       \* credentials recorded nowhere, for a known reason (history)

process == <<memory, pc, req, local, asked, answer, requests>>
service == <<good, issued>>
history == <<reserved, retired, ended, lost>>
vars == <<ci, store, service, process, history>>

(* A get says what for, whether a person is there, and whether it follows  *)
(* a refusal by the registry.                                              *)
Request ==
    [op : {"get"}, write : BOOLEAN, interactive : BOOLEAN, retry : {"no", "401", "403"}]
    \cup [op : {"erase", "login", "logout"}, write : {FALSE}, interactive : BOOLEAN, retry : {"no"}]
NoRequest == [op |-> "none", write |-> FALSE, interactive |-> FALSE, retry |-> "no"]

Errors  == {"not-found", "other", "not-served"}
NoToken == [kind |-> "ok", token |-> 0, write |-> FALSE, asked |-> FALSE]
Failed(what) == [NoToken EXCEPT !.kind = what]

Answer == [kind : {"ok"} \cup Errors, token : Credentials, write : BOOLEAN, asked : BOOLEAN]

(* A prompt is left with another await, or with a token, only on a yes.    *)
Asked(p) == asked[p] \/ pc[p] = "confirm"

(* An answer that gives a credential out, 0 for the job's own, records      *)
(* whether a person said yes to it, or what is in their place did: the     *)
(* identity of a job, or the provider's own configuration.                 *)
Gives(p, r, token, allowed) ==
    [kind |-> "ok", token |-> token, write |-> r.write, asked |-> Asked(p) \/ allowed]

Retry(p) == req[p].retry # "no"

-----------------------------------------------------------------------------
(* serve: a line is read when the one before it has been answered.         *)

Take(p, r) ==
    /\ pc[p] = "idle" /\ requests < MaxRequests
    /\ requests' = requests + 1

(* A request that needs an await first, and one answered without any.      *)
Begin(p, r, step, values) ==
    /\ Take(p, r)
    /\ pc' = [pc EXCEPT ![p] = step] /\ req' = [req EXCEPT ![p] = r]
    /\ local' = [local EXCEPT ![p] = values] /\ asked' = [asked EXCEPT ![p] = FALSE]
    /\ answer' = [answer EXCEPT ![p] = NoToken]

AtOnce(p, r, a) ==
    /\ Take(p, r)
    /\ answer' = [answer EXCEPT ![p] = a]
    /\ UNCHANGED <<pc, req, local, asked>>

(* A handler goes on to its next await, or returns its answer.             *)
GoOn(p, step, values) ==
    /\ pc' = [pc EXCEPT ![p] = step] /\ local' = [local EXCEPT ![p] = values]
    /\ asked' = [asked EXCEPT ![p] = Asked(p)]
    /\ UNCHANGED <<req, answer, requests>>

Reply(p, a) ==
    /\ pc' = [pc EXCEPT ![p] = "idle"] /\ req' = [req EXCEPT ![p] = NoRequest]
    /\ local' = [local EXCEPT ![p] = 0] /\ asked' = [asked EXCEPT ![p] = FALSE]
    /\ answer' = [answer EXCEPT ![p] = a]
    /\ UNCHANGED requests

(* What a handler does at its start and after an await alike.              *)
Awaits(p, r, step, values) == IF pc[p] = "idle" THEN Begin(p, r, step, values) ELSE GoOn(p, step, values)
Answers(p, r, a)           == IF pc[p] = "idle" THEN AtOnce(p, r, a) ELSE Reply(p, a)

(* A call of the service fails, or has no answer by its deadline; what the *)
(* service did with it is for each provider to say.                        *)
CallError(p) == Reply(p, Failed("other"))

(* The process ends, of itself or killed, and another takes its place.     *)
Restart(p, fresh) ==
    /\ pc' = [pc EXCEPT ![p] = "idle"] /\ req' = [req EXCEPT ![p] = NoRequest]
    /\ local' = [local EXCEPT ![p] = 0] /\ asked' = [asked EXCEPT ![p] = FALSE]
    /\ answer' = [answer EXCEPT ![p] = NoToken]
    /\ memory' = [memory EXCEPT ![p] = fresh] /\ retired' = [retired EXCEPT ![p] = {}]
    /\ UNCHANGED requests

-----------------------------------------------------------------------------
(* The service issues a credential.                                        *)

Issue == issued < MaxIssued /\ issued' = issued + 1
New   == issued + 1

ProcessType ==
    /\ ci \in BOOLEAN /\ issued \in Credentials /\ good \subseteq Credentials \ {0}
    /\ req \in [Processes -> Request \cup {NoRequest}] /\ answer \in [Processes -> Answer]
    /\ asked \in [Processes -> BOOLEAN]
    /\ requests \in 0..MaxRequests
    /\ reserved \subseteq Credentials /\ retired \in [Processes -> SUBSET Credentials]
    /\ ended \subseteq Credentials /\ lost \subseteq Credentials

ProcessInit(entry, held, writing) ==
    /\ ci \in BOOLEAN /\ store = entry
    /\ memory = [p \in Processes |-> held] /\ pc = [p \in Processes |-> "idle"]
    /\ req = [p \in Processes |-> NoRequest] /\ local = [p \in Processes |-> 0]
    /\ asked = [p \in Processes |-> FALSE] /\ answer = [p \in Processes |-> NoToken] /\ requests = 0
    /\ reserved = writing /\ retired = [p \in Processes |-> {}] /\ ended = {} /\ lost = {}

Idle == requests = MaxRequests /\ \A p \in Processes : pc[p] = "idle"

-----------------------------------------------------------------------------
(* What the providers promise.                                             *)

(* What a process was told to drop is not handed out by it again. Each     *)
(* module says which requests tell it so, and of what: retired.            *)
RetiredNotGiven == \A p \in Processes : answer[p].token \notin retired[p] \ {0}

(* A write is answered with a credential, and a credential that is kept    *)
(* for writes goes out at all, only when a person said yes at the prompt   *)
(* of that very request, or in a job, or by the word of the provider's     *)
(* configuration.                                                          *)
ReleasedOnYes == \A p \in Processes :
    answer[p].write \/ answer[p].token \in reserved => answer[p].asked
=============================================================================
