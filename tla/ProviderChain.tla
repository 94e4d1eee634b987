--------------------------- MODULE ProviderChain ---------------------------
(***************************************************************************)
(* The requests of one npm command travel one chain of providers. Each     *)
(* provider answers one request at a time; a `url-not-supported' is        *)
(* remembered for the command per provider and registry, a `not-found' per *)
(* provider, registry and scope, so what one request is told ends the walk *)
(* of another without asking. What the chain decides is ChainPolicy's.     *)
(***************************************************************************)
EXTENDS ChainPolicy, FiniteSets

CONSTANTS
    Requests,    \* the registry requests of the command
    Providers,   \* the providers a chain can name
    Questions,   \* what a request asks for
    Setups,      \* configurations: the chain, what each hello lists, what is stored
    Commands     \* functions from Requests to Questions that one command can make

NoRequest == "no request"

ASSUME SetupAssumption ==
    \A s \in Setups :
        /\ s.chain \in Seq(Providers \cup {STORED_CREDENTIAL_ENTRY})
        /\ s.perRegistry \in BOOLEAN /\ s.stored \in BOOLEAN
        /\ s.project \in BOOLEAN /\ s.exchanged \in BOOLEAN
        /\ s.hello \in [Providers -> [listed : BOOLEAN, registries : SUBSET Url]]
ASSUME CommandAssumption == Commands \subseteq [Requests -> Questions]
(* One npm command carries one operation, and `stage-read' lookups before  *)
(* it.                                                                     *)
ASSUME OneOperation ==
    \A command \in Commands : \A q, r \in Requests :
        command[q].operation # "stage-read" /\ command[r].operation # "stage-read"
            => command[q].operation = command[r].operation
ASSUME NameAssumption == /\ STORED_CREDENTIAL_ENTRY \notin Providers
                         /\ NoRequest \notin Requests

VARIABLES
    setup,     \* the configuration of the command
    asks,      \* the question of each request
    declined,  \* registries each provider declined
    notFound,  \* registries and scopes each provider has nothing for
    channel,   \* the request each provider has before it
    answers,   \* what the entries of the chain said to each request so far
    result,    \* what the chain decided, "walking" before
    told       \* what each provider was asked and answered (history)

config == <<setup, asks>>
memory == <<declined, notFound>>
vars   == <<config, memory, channel, answers, result, told>>

Scopes     == {question.scope : question \in Questions}
Registries == {question.registry : question \in Questions}
Operations == {question.operation : question \in Questions}

(* The memory, the channels and the walks keep within their types.         *)
TypeOK ==
    /\ setup \in Setups /\ asks \in Commands
    /\ declined \subseteq Providers \X Registries
    /\ notFound \subseteq Providers \X Registries \X Scopes
    /\ channel \in [Providers -> Requests \cup {NoRequest}]
    /\ answers \in [Requests -> Seq(Outcomes \cup {STORED_CREDENTIAL_ENTRY})]
    /\ \A q \in Requests : Len(answers[q]) <= Len(setup.chain)
    /\ result \in [Requests -> {"walking", "ok", "fail", "stored-credential", "anonymous",
                                "npm-login", "oidc"}]
    /\ told \subseteq [provider : Providers, by : Requests, answer : Outcomes]

Init ==
    /\ setup \in Setups /\ asks \in Commands
    /\ declined = {} /\ notFound = {}
    /\ channel = [p \in Providers |-> NoRequest]
    /\ answers = [q \in Requests |-> <<>>]
    /\ result = [q \in Requests |-> "walking"]
    /\ told = {}

IsLogin(q) == asks[q].operation = "login"

(* The case of a request: what the chain has decided on so far.            *)
Case(q) ==
    [chain |-> setup.chain, answers |-> answers[q], perRegistry |-> setup.perRegistry,
     stored |-> setup.stored, project |-> setup.project, exchanged |-> setup.exchanged /\ ~IsLogin(q),
     behind |-> {p \in Providers : ListsHost(setup.hello[p], asks[q].registry)}]

Decided(q) ==
    \/ Case(q).exchanged
    \/ Len(answers[q]) = Len(setup.chain)
    \/ IF IsLogin(q) THEN LoginStops(Case(q)) ELSE Stops(Case(q))

(* The entry whose turn it is.                                             *)
Walking(q) == result[q] = "walking" /\ ~Decided(q)
Entry(q)   == setup.chain[Len(answers[q]) + 1]

Hear(q, answer) == answers' = [answers EXCEPT ![q] = Append(@, answer)]

-----------------------------------------------------------------------------
(* DeclinedRegistries.                                                     *)

(* The answer npm gives without asking, or none.                           *)
remembered(p, question) ==
    IF <<p, question.registry>> \in declined THEN {Declined}
    ELSE IF <<p, question.registry, question.scope>> \in notFound THEN {NotFound}
    ELSE {}

(* Mutant of remembers: a lookup before a write is remembered like it.     *)
remembers_any(operation) == TRUE

(* The lookup of `stage approve' comes before its command's write.         *)
remembers(operation) == operation # "stage-read"

(* Mutant of record: a not-found is kept without its scope.                *)
record_without_scope(p, question, answer) ==
    /\ declined' = IF answer = Declined
                   THEN declined \cup {<<p, question.registry>>} ELSE declined
    /\ notFound' = IF answer = NotFound /\ remembers(question.operation)
                   THEN notFound \cup {<<p, question.registry>>}
                   ELSE notFound

(* Mutant of record: what one answer says is forgotten at the next.        *)
record_last(p, question, answer) ==
    /\ declined' = IF answer = Declined THEN {<<p, question.registry>>} ELSE declined
    /\ notFound' = IF answer = NotFound /\ remembers(question.operation)
                   THEN {<<p, question.registry, question.scope>>} ELSE notFound

record(p, question, answer) ==
    /\ declined' = IF answer = Declined
                   THEN declined \cup {<<p, question.registry>>} ELSE declined
    /\ notFound' = IF answer = NotFound /\ remembers(question.operation)
                   THEN notFound \cup {<<p, question.registry, question.scope>>}
                   ELSE notFound

-----------------------------------------------------------------------------
(* The walk.                                                               *)

(* npm:token has nothing to send here, or ends the walk.                   *)
PassToken(q) ==
    /\ Walking(q) /\ Entry(q) = STORED_CREDENTIAL_ENTRY
    /\ Hear(q, STORED_CREDENTIAL_ENTRY)
    /\ UNCHANGED <<config, memory, channel, result, told>>

(* request_or_decline: the memory, the hello, and then the provider.       *)
AnswerFromMemory(q) ==
    /\ Walking(q) /\ Entry(q) \in Providers
    /\ \E answer \in remembered(Entry(q), asks[q]) : Hear(q, answer)
    /\ UNCHANGED <<config, memory, channel, result, told>>

DeclineUnlisted(q) ==
    /\ Walking(q) /\ Entry(q) \in Providers
    /\ remembered(Entry(q), asks[q]) = {}
    /\ ~serves(setup.hello[Entry(q)], asks[q].registry, setup.perRegistry)
    /\ declined' = declined \cup {<<Entry(q), asks[q].registry>>}
    /\ Hear(q, Declined)
    /\ UNCHANGED <<config, notFound, channel, result, told>>

Ask(q) ==
    /\ Walking(q) /\ Entry(q) \in Providers
    /\ channel[Entry(q)] = NoRequest
    /\ remembered(Entry(q), asks[q]) = {}
    /\ serves(setup.hello[Entry(q)], asks[q].registry, setup.perRegistry)
    /\ channel' = [channel EXCEPT ![Entry(q)] = q]
    /\ UNCHANGED <<config, memory, answers, result, told>>

(* Mutant of Answer: a provider that failed keeps the request.             *)
Answer_failure_keeps_channel(q, answer) ==
    /\ Walking(q) /\ Entry(q) \in Providers /\ channel[Entry(q)] = q
    /\ record(Entry(q), asks[q], answer)
    /\ Hear(q, answer)
    /\ told' = told \cup {[provider |-> Entry(q), by |-> q, answer |-> answer]}
    /\ channel' = IF answer = "fail" THEN channel
                  ELSE [channel EXCEPT ![Entry(q)] = NoRequest]
    /\ UNCHANGED <<config, result>>

(* answer_in_chain; "fail" stands for every other error, the end of the    *)
(* session included.                                                       *)
Answer(q, answer) ==
    /\ Walking(q) /\ Entry(q) \in Providers /\ channel[Entry(q)] = q
    /\ record(Entry(q), asks[q], answer)
    /\ Hear(q, answer)
    /\ told' = told \cup {[provider |-> Entry(q), by |-> q, answer |-> answer]}
    /\ channel' = [channel EXCEPT ![Entry(q)] = NoRequest]
    /\ UNCHANGED <<config, result>>

Decide(q) ==
    /\ result[q] = "walking" /\ Decided(q)
    /\ result' = [result EXCEPT ![q] = IF IsLogin(q) THEN resolve_login_chain(Case(q))
                                                     ELSE resolve_chain(Case(q))]
    /\ UNCHANGED <<config, memory, channel, answers, told>>

RequestStep(q) == \/ PassToken(q) \/ AnswerFromMemory(q) \/ DeclineUnlisted(q) \/ Ask(q)
                  \/ \E answer \in Outcomes : Answer(q, answer)
                  \/ Decide(q)

Ended == \A q \in Requests : result[q] # "walking"

Next == \/ \E q \in Requests : RequestStep(q)
        \/ Ended /\ UNCHANGED vars

Spec == Init /\ [][Next]_vars

(* While some request can go on, one does: every provider answers or its   *)
(* deadline passes, and npm takes its steps.                               *)
FairSpec == Spec /\ WF_vars(\E q \in Requests : RequestStep(q))

-----------------------------------------------------------------------------
(* Properties.                                                             *)

(* What provider p said when asked, for this question or one it holds for: *)
(* a decline for the registry, a not-found for the registry, scope and     *)
(* operation. A request's lookup is asked about before its write.          *)
ToldFor(p, q, answer) ==
    \E t \in told :
        /\ t.provider = p /\ t.answer = answer
        /\ asks[t.by].registry = asks[q].registry
        /\ answer = NotFound =>
              /\ asks[t.by].scope = asks[q].scope
              /\ asks[q].operation # "stage-read" =>
                    asks[t.by].operation = asks[q].operation

(* Every answer a request's walk goes by is one the provider gave: to this *)
(* request, or for a question that the answer holds for. No write fails by *)
(* the not-found of the lookup before it, or of another scope.             *)
MemoryFaithful ==
    \A q \in Requests : \A n \in 1..Len(answers[q]) :
        LET p == setup.chain[n] IN
        p \in Providers =>
            \/ ToldFor(p, q, answers[q][n])
            \/ /\ answers[q][n] = Declined
               /\ ~serves(setup.hello[p], asks[q].registry, setup.perRegistry)

(* A provider is sent nothing about a registry its hello leaves out or it  *)
(* declined in this command, and nothing about a scope it has nothing for, *)
(* however the command's requests interleave.                              *)
AskedAbout(p, q) ==
    /\ serves(setup.hello[p], asks[q].registry, setup.perRegistry)
    /\ ~ToldFor(p, q, Declined)
    /\ \A t \in told : (t.provider = p /\ t.answer = NotFound) =>
          \/ asks[t.by].operation = "stage-read"
          \/ asks[t.by].registry # asks[q].registry \/ asks[t.by].scope # asks[q].scope
NotAskedAgain ==
    [][\A p \in Providers : \A q \in Requests :
          channel'[p] = q /\ channel[p] # q => AskedAbout(p, q)]_vars

(* No stored credential stands in for a provider: where a request goes out *)
(* with one, no provider that was before it in the chain lists the host of *)
(* the registry unless it said not-found, and any not-found was passed by  *)
(* an npm:token the user listed.                                           *)
NoDowngrade ==
    \A q \in Requests : result[q] = "stored-credential" =>
        \A n \in 1..Len(answers[q]) :
            LET p == setup.chain[n] IN
            p \in Providers =>
                \/ ~ListsHost(setup.hello[p], asks[q].registry)
                \/ Listed(Case(q)) /\ ToldFor(p, q, NotFound)

(* The policy of a login against that of a get of the same registry with a *)
(* token stored: a provider takes the login exactly if one would answer    *)
(* the get, and a token is stored wherever the get would send it. That one *)
(* is stored nowhere else is said only where no provider that declined has *)
(* the host in its hello in another form (see LoginSendable).              *)
LoginEndsAsGet ==
    \A q \in Requests : (IsLogin(q) /\ result[q] # "walking" /\ setup.chain # <<>>) =>
        LET get == resolve_chain([Case(q) EXCEPT !.stored = TRUE]) IN
        /\ result[q] = "ok" <=> get = "ok"
        /\ get = "stored-credential" => result[q] = "npm-login"
        /\ (result[q] = "npm-login" /\ \A n \in 1..Len(answers[q]) :
               answers[q][n] = Declined => setup.chain[n] \notin Case(q).behind)
           => get = "stored-credential"

(* Every request of the command comes to an end.                           *)
RequestsEnd == <>Ended

(* "Every provider in the global chain answers url-not-supported, and some *)
(* provider's hello lists the registry's host in another form: npm fails,  *)
(* whether or not a credential is stored."                                 *)
ListedHostFails ==
    \A q \in Requests :
        /\ result[q] # "walking" /\ ~IsLogin(q) /\ ~setup.perRegistry /\ ~setup.stored
        /\ \A n \in 1..Len(setup.chain) : setup.chain[n] \in Providers =>
              n <= Len(answers[q]) /\ answers[q][n] = Declined
        /\ \E n \in 1..Len(setup.chain) : setup.chain[n] \in Case(q).behind
        => result[q] = "fail"

(* npm login never stores "a token that `get' would never send".           *)
LoginSendable ==
    \A q \in Requests : result[q] = "npm-login" =>
        resolve_chain([Case(q) EXCEPT !.stored = TRUE]) # "fail"
=============================================================================
