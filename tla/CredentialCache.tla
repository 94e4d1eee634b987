--------------------------- MODULE CredentialCache ---------------------------
(***************************************************************************)
(* npm's cache of one provider's credentials over one command, and the     *)
(* registry requests that share it. npm fetches in parallel: a request     *)
(* carries the answer ("issuance") of some `get', and its 401 or 403 may   *)
(* come back after that answer was erased, replaced, or issued again. The  *)
(* cache, the issuances and the handling of an answer and of a rejection   *)
(* are the functions of CredentialClientModel; the registry and the        *)
(* provider answer as they like.                                           *)
(***************************************************************************)
EXTENDS Naturals, Sequences, FiniteSets

CONSTANTS
    Requests,     \* registry requests
    Commands,     \* sets of requests that one command can make
    Contexts,     \* contexts they are made in
    ContextOf,    \* the context of each request
    Tokens,       \* credentials
    Answers,      \* what the provider can answer a `get' with
    MaxIssued     \* answers the provider gives in the command (bound)

None == "none"  \* no scope, no package, or a key bound to no operation

Granularities == {"registry", "scope", "package"}
Policies      == {"never", "session", "expires"}

ASSUME ContextAssumption ==
    /\ Contexts \subseteq [registry : STRING, scope : STRING, package : STRING,
                            operation : STRING \ {None}]
    /\ ContextOf \in [Requests -> Contexts]
ASSUME AnswerAssumption ==
    Answers \subseteq [auth : Tokens, cache : Policies, granularity : Granularities,
                       independent : BOOLEAN]
ASSUME CommandAssumption == Commands \subseteq SUBSET Requests
ASSUME BoundAssumption == MaxIssued \in Nat

VARIABLES
    cache,     \* key -> issuance of the entry it holds, 0 for no entry
    issued,    \* Issuance records, by id
    retired,   \* issuances erased by a 401 or replaced after a 403
    lapsed,    \* `expires' issuances within the margin of their expiry
    pc,        \* where each registry request is
    carried,   \* the issuance it left with last
    retried,   \* it has used its one retry
    refused,   \* the issuance a 403 retry is to replace, 0 for none
    channel,   \* the requests exchanging with the provider: at most one
    sends,     \* times each request left for the registry (history)
    erases,    \* erase requests built for each issuance (history)
    dropped    \* for each token, the last issuance when it was last retired (history)

store    == <<cache, issued, retired>>
requests == <<pc, carried, retried, refused>>
history  == <<sends, erases, dropped>>
vars     == <<store, lapsed, requests, channel, history>>

Ids      == 1..MaxIssued
Issuance == [auth : Tokens, granularity : Granularities, context : Contexts,
             cache : Policies, independent : BOOLEAN]

(***************************************************************************)
(* Keys and lookup.                                                        *)
(***************************************************************************)

KeyFor(granularity, c, operation) ==
    [granularity |-> granularity,
     registry    |-> c.registry,
     scope       |-> IF granularity = "registry" THEN None ELSE c.scope,
     package     |-> IF granularity = "package" THEN c.package ELSE None,
     operation   |-> operation]

Keys == {KeyFor(g, c, op) : g \in Granularities, c \in Contexts,
                            op \in {None} \cup {c.operation : c \in Contexts}}

(* The cache points at answers issued; every request keeps to its phases.  *)
TypeOK ==
    /\ cache \in [Keys -> 0..Len(issued)]
    /\ issued \in Seq(Issuance) /\ Len(issued) <= MaxIssued
    /\ retired \subseteq 1..Len(issued)
    /\ lapsed \subseteq 1..Len(issued)
    /\ pc \in [Requests -> {"start", "get", "sent", "wantErase", "erase", "wantRetry",
                            "retry", "done", "failed"}]
    /\ carried \in [Requests -> 0..Len(issued)]
    /\ retried \in [Requests -> BOOLEAN]
    /\ refused \in [Requests -> 0..Len(issued)]
    /\ channel \subseteq Requests
    /\ sends \in [Requests -> Nat]
    /\ erases \in [Ids -> Nat]
    /\ dropped \in [Tokens -> 0..MaxIssued]

Init ==
    /\ cache = [k \in Keys |-> 0]
    /\ issued = <<>> /\ retired = {} /\ lapsed = {}
    /\ \E command \in Commands :
          pc = [q \in Requests |-> IF q \in command THEN "start" ELSE "done"]
    /\ carried = [q \in Requests |-> 0]
    /\ retried = [q \in Requests |-> FALSE]
    /\ refused = [q \in Requests |-> 0]
    /\ channel = {}
    /\ sends = [q \in Requests |-> 0]
    /\ erases = [i \in Ids |-> 0]
    /\ dropped = [t \in Tokens |-> 0]

cache_key(iss) ==
    KeyFor(iss.granularity, iss.context,
           IF iss.independent THEN None ELSE iss.context.operation)

(* The most specific level first, and at each a bound entry before an      *)
(* operation-independent one.                                              *)
LookupOrder(c) ==
    <<KeyFor("package", c, c.operation),  KeyFor("package", c, None),
      KeyFor("scope", c, c.operation),    KeyFor("scope", c, None),
      KeyFor("registry", c, c.operation), KeyFor("registry", c, None)>>

Expired(k) == cache[k] # 0 /\ cache[k] \in lapsed
Serves(k)  == cache[k] # 0 /\ cache[k] \notin lapsed

HitAt(c, n) == /\ Serves(LookupOrder(c)[n])
               /\ \A m \in 1..(n - 1) : ~Serves(LookupOrder(c)[m])
Miss(c)     == \A n \in 1..6 : ~Serves(LookupOrder(c)[n])

(* A lookup that looked at the first n keys deleted the expired ones.      *)
Swept(c, n) ==
    [k \in Keys |-> IF Expired(k) /\ \E m \in 1..n : k = LookupOrder(c)[m]
                    THEN 0 ELSE cache[k]]

(***************************************************************************)
(* Answers and retirement.                                                 *)
(***************************************************************************)

(* Mutant of Binding: what the provider says of a write's answer holds.    *)
Binding_as_answered(c, granularity, independent) ==
    [granularity |-> granularity, independent |-> independent]

(* An answer for any operation but read serves that operation only, and    *)
(* the package the request names only.                                     *)
Binding(c, granularity, independent) ==
    IF c.operation = "read"
    THEN [granularity |-> granularity, independent |-> independent]
    ELSE [granularity |-> IF c.package # None THEN "package" ELSE granularity,
          independent |-> FALSE]

(* What _retire drops from a cache: every entry of the issuance, and every *)
(* entry that serves the same credential.                                  *)
SameAuth(from, i) == {j \in 1..Len(from) : from[j].auth = from[i].auth}

(* Mutant of Retires: entries are matched by their issuance alone.         *)
Retires_by_issuance(from, table, i) == {k \in Keys : table[k] = i}

Retires(from, table, i) == {k \in Keys : table[k] \in SameAuth(from, i)}

(* Mutant of RetireFrom: the answers are retired, their entries stay.      *)
RetireFrom_keeps_entries(from, table, already, i) ==
    /\ cache' = table
    /\ retired' = already \cup {i} \cup {table[k] : k \in Retires(from, table, i)}
    /\ dropped' = [dropped EXCEPT ![from[i].auth] = Len(from)]

RetireFrom(from, table, already, i) ==
    /\ cache' = [k \in Keys |-> IF k \in Retires(from, table, i) THEN 0 ELSE table[k]]
    /\ retired' = already \cup {i} \cup {table[k] : k \in Retires(from, table, i)}
    /\ dropped' = [dropped EXCEPT ![from[i].auth] = Len(from)]

(* The registry request leaves with what it carries.                       *)
Leave(q, i) ==
    /\ pc' = [pc EXCEPT ![q] = "sent"]
    /\ carried' = [carried EXCEPT ![q] = i]
    /\ sends' = [sends EXCEPT ![q] = @ + 1]

(* An Ok to request q is an issuance, cached unless the answer says never. *)
IssuanceOf(q, ok) ==
    LET b == Binding(ContextOf[q], ok.granularity, ok.independent)
    IN [auth |-> ok.auth, granularity |-> b.granularity, context |-> ContextOf[q],
        cache |-> ok.cache, independent |-> b.independent]

Stored(iss, id) ==
    IF iss.cache = "never" THEN cache ELSE [cache EXCEPT ![cache_key(iss)] = id]

(***************************************************************************)
(* A registry request that needs a credential.                             *)
(***************************************************************************)

(* The cache holds one: the request leaves with it, and asks nobody.       *)
UseCached(q) ==
    /\ pc[q] = "start"
    /\ \E n \in 1..6 :
        /\ HitAt(ContextOf[q], n)
        /\ cache' = Swept(ContextOf[q], n)
        /\ Leave(q, cache[LookupOrder(ContextOf[q])[n]])
    /\ UNCHANGED <<issued, retired, lapsed, retried, refused, channel, erases, dropped>>

(* It does not, and the provider is free: the look before a `get' is sent  *)
(* is the last one before it.                                              *)
SendGet(q) ==
    /\ pc[q] = "start" /\ channel = {}
    /\ Miss(ContextOf[q])
    /\ cache' = Swept(ContextOf[q], 6)
    /\ pc' = [pc EXCEPT ![q] = "get"]
    /\ channel' = {q}
    /\ UNCHANGED <<issued, retired, lapsed, carried, retried, refused, history>>

(* Bound: beyond MaxIssued answers the provider answers with an error.     *)
GetAnswered(q) ==
    /\ pc[q] = "get" /\ Len(issued) < MaxIssued
    /\ \E ok \in Answers :
        LET iss == IssuanceOf(q, ok) IN
        /\ issued' = Append(issued, iss)
        /\ cache' = Stored(iss, Len(issued) + 1)
    /\ Leave(q, Len(issued) + 1)
    /\ channel' = {}
    /\ UNCHANGED <<retired, lapsed, retried, refused, erases, dropped>>

(* Mutant of GetFails: a request that fails keeps the provider's channel.  *)
GetFails_keeps_channel(q) ==
    /\ pc[q] \in {"get", "retry"}
    /\ pc' = [pc EXCEPT ![q] = "failed"]
    /\ UNCHANGED <<store, lapsed, carried, retried, refused, channel, history>>

(* An Err, or the end of the provider's session.                           *)
GetFails(q) ==
    /\ pc[q] \in {"get", "retry"}
    /\ pc' = [pc EXCEPT ![q] = "failed"]
    /\ channel' = {}
    /\ UNCHANGED <<store, lapsed, carried, retried, refused, history>>

Accepted(q) ==
    /\ pc[q] = "sent"
    /\ pc' = [pc EXCEPT ![q] = "done"]
    /\ UNCHANGED <<store, lapsed, carried, retried, refused, channel, history>>

(***************************************************************************)
(* Rejections.                                                             *)
(***************************************************************************)

(* Mutant of Stale: every rejection is of the credential npm now has.      *)
Stale_never(q) == FALSE

(* The answer the request carried was erased or replaced meanwhile.        *)
Stale(q) == carried[q] \in retired

(* A 401: the credential goes from the cache, and the provider is told.    *)
Reject401(q) ==
    /\ pc[q] = "sent" /\ ~Stale(q)
    /\ RetireFrom(issued, cache, retired, carried[q])
    /\ erases' = [erases EXCEPT ![carried[q]] = @ + 1]
    /\ pc' = [pc EXCEPT ![q] = "wantErase"]
    /\ UNCHANGED <<issued, lapsed, carried, retried, refused, channel, sends>>

SendErase(q) ==
    /\ pc[q] = "wantErase" /\ channel = {}
    /\ pc' = [pc EXCEPT ![q] = "erase"]
    /\ channel' = {q}
    /\ UNCHANGED <<store, lapsed, carried, retried, refused, history>>

(* Mutant of EraseAnswered: the retry is not counted.                      *)
EraseAnswered_uncounted(q) ==
    /\ pc[q] = "erase"
    /\ pc' = [pc EXCEPT ![q] = "wantRetry"]
    /\ channel' = {}
    /\ UNCHANGED <<store, lapsed, carried, retried, refused, history>>

(* Whatever the provider said of the erase, the retry goes out: once.      *)
EraseAnswered(q) ==
    /\ pc[q] = "erase"
    /\ pc' = [pc EXCEPT ![q] = IF retried[q] THEN "failed" ELSE "wantRetry"]
    /\ retried' = [retried EXCEPT ![q] = TRUE]
    /\ channel' = {}
    /\ UNCHANGED <<store, lapsed, carried, refused, history>>

(* A 403: no erase; the retry's answer is to replace the refused one.      *)
Reject403(q) ==
    /\ pc[q] = "sent" /\ ~retried[q] /\ ~Stale(q)
    /\ refused' = [refused EXCEPT ![q] = carried[q]]
    /\ retried' = [retried EXCEPT ![q] = TRUE]
    /\ pc' = [pc EXCEPT ![q] = "wantRetry"]
    /\ UNCHANGED <<store, lapsed, carried, channel, history>>

(* A 401 or 403 on an answer already gone: no erase. The request goes again *)
(* with what the cache now holds, or asks the provider; that is its retry. *)
RejectStale(q) ==
    /\ pc[q] = "sent" /\ ~retried[q] /\ Stale(q)
    /\ retried' = [retried EXCEPT ![q] = TRUE]
    /\ \/ \E n \in 1..6 :
            /\ HitAt(ContextOf[q], n)
            /\ cache' = Swept(ContextOf[q], n)
            /\ Leave(q, cache[LookupOrder(ContextOf[q])[n]])
       \/ /\ Miss(ContextOf[q])
          /\ cache' = Swept(ContextOf[q], 6)
          /\ pc' = [pc EXCEPT ![q] = "wantRetry"]
          /\ UNCHANGED <<carried, sends>>
    /\ UNCHANGED <<issued, retired, lapsed, refused, channel, erases, dropped>>

(* No retry is left: a 403, or a 401 on an answer already gone.            *)
RejectFinal(q) ==
    /\ pc[q] = "sent" /\ retried[q]
    /\ pc' = [pc EXCEPT ![q] = "failed"]
    /\ UNCHANGED <<store, lapsed, carried, retried, refused, channel, history>>

SendRetry(q) ==
    /\ pc[q] = "wantRetry" /\ channel = {}
    /\ pc' = [pc EXCEPT ![q] = "retry"]
    /\ channel' = {q}
    /\ UNCHANGED <<store, lapsed, carried, retried, refused, history>>

(* The retry's answer is stored, and then what a 403 refused is retired.   *)
RetryAnswered(q) ==
    /\ pc[q] = "retry" /\ Len(issued) < MaxIssued
    /\ \E ok \in Answers :
        LET iss   == IssuanceOf(q, ok)
            after == Append(issued, iss)
            table == Stored(iss, Len(issued) + 1)
        IN /\ issued' = after
           /\ IF refused[q] # 0
              THEN RetireFrom(after, table, retired, refused[q])
              ELSE cache' = table /\ UNCHANGED <<retired, dropped>>
    /\ Leave(q, Len(issued) + 1)
    /\ refused' = [refused EXCEPT ![q] = 0]
    /\ channel' = {}
    /\ UNCHANGED <<lapsed, retried, erases>>

(* Time: an `expires' entry comes within the margin of its expiry.         *)
Lapse(i) ==
    /\ i \in 1..Len(issued) /\ i \notin lapsed /\ issued[i].cache = "expires"
    /\ lapsed' = lapsed \cup {i}
    /\ UNCHANGED <<store, requests, channel, history>>

-----------------------------------------------------------------------------

RequestStep(q) ==
    \/ UseCached(q) \/ SendGet(q) \/ GetAnswered(q) \/ GetFails(q) \/ Accepted(q)
    \/ Reject401(q) \/ SendErase(q) \/ EraseAnswered(q)
    \/ Reject403(q) \/ RejectStale(q) \/ RejectFinal(q)
    \/ SendRetry(q) \/ RetryAnswered(q)

Ended == \A q \in Requests : pc[q] \in {"done", "failed"}

Next == \/ \E q \in Requests : RequestStep(q)
        \/ \E i \in Ids : Lapse(i)
        \/ Ended /\ UNCHANGED vars

Spec == Init /\ [][Next]_vars

(* While some request can go on, one does: npm, the registry and the       *)
(* provider, each of which answers or fails by a deadline, do not all stop. *)
FairSpec == Spec /\ WF_vars(\E q \in Requests : RequestStep(q))

-----------------------------------------------------------------------------
(* Properties.                                                             *)

(* A value that was rejected is nowhere in the cache, at no level and      *)
(* under no issuance, unless the provider issued that value again since.   *)
NoDroppedValueCached ==
    \A k \in Keys : cache[k] # 0 => cache[k] > dropped[issued[cache[k]].auth]

(* No entry of the cache is of an answer already erased or replaced, so no *)
(* request leaves with one.                                                *)
RetiredNotServed == \A k \in Keys : cache[k] # 0 => cache[k] \notin retired

(* However many parallel requests carried an answer and are rejected, and  *)
(* however late, the provider is told to erase it at most once.            *)
EraseOnce == \A i \in Ids : erases[i] <= 1

(* Each registry request gets at most one retry, whichever of erase, 403   *)
(* and stale rejection it came from.                                       *)
AtMostOneRetry == \A q \in Requests : sends[q] <= 2

(* The answer a request carries is one for its registry, and for its       *)
(* scope, package and operation as far as the answer is bound to them; the *)
(* answer to a write serves that operation and that package alone.         *)
Covers(iss, c) ==
    /\ iss.context.registry = c.registry
    /\ iss.independent \/ iss.context.operation = c.operation
    /\ iss.granularity = "registry" \/ iss.context.scope = c.scope
    /\ iss.granularity # "package" \/ iss.context.package = c.package
    /\ iss.context.operation # "read" =>
          /\ iss.context.operation = c.operation
          /\ iss.context.package \in {None, c.package}
CarriedCovers ==
    \A q \in Requests : carried[q] # 0 => Covers(issued[carried[q]], ContextOf[q])

(* Every registry request ends.                                            *)
RequestsEnd == <>Ended

(* "Drops every cache entry that serves this credential, at every level,   *)
(* and retires each answer that carried it."                               *)
EachAnswerRetired ==
    [][\A i \in retired' \ retired :
          \A j \in 1..Len(issued') : issued'[j].auth = issued'[i].auth => j \in retired']_vars
=============================================================================
