# Verification of the credential provider protocol

TLA+ models, model-checking runs and machine-checked proofs for the programs of
this repository: the proof-of-concept client and the client model of the
phase 2 protocol (credential providers), the token helper of phase 1a (patches
to npm), and the nine reference providers with the library they share. Every definition is translated from the
code; the documents serve only as the statements that the code is compared
with. `PROJECT.json` maps each definition to its lines.

## 1. Inventory

| component (code) | state | operations | hard part |
|---|---|---|---|
| **supervisor and session**: one provider of one command, Rust client (`poc/rust/crates/mock-client/src/lib.rs`) | the session or none, failures counted, skipped or not, warnings; a reader and a writer thread with a channel each; the provider process | request, start with hello, look while idle, exchange, kill, drop | requests carry no id, so pairing rests on order; answers that come late; lines nobody asked for; three independent threads and a foreign process; what counts toward the restart limit |
| **credential cache**: client model (`tests/protocol_model.py`, `CredentialClientModel`) | cache by key, answers issued, answers retired | lookup, get and store, 401 (erase, get), 403 (get with `retry`), rejection of an answer already gone | parallel requests carry one answer and are rejected in any order; one value under many keys and answers |
| **chain policy and memory**: client model (`resolve_chain`, `resolve_login_chain`, `ChainMemory`) | what providers declined, what they have nothing for | walk of a chain per request, end of a chain | several requests walk at once over one memory; URL forms of one host; a stored credential must not replace a provider's |
| **chain loop** of the Rust client (`run_provider_chain_with`) | three flags of the walk | ask the next provider, end | decides from flags what the policy decides from all answers |
| **token helper** (`poc/patches/npm-cli.patch`, `npm-registry-fetch.patch`) | one promise and one process per registry key, timers, the config of the command | a request's walk of its registry keys, the checks, the run, deadline, size limit, drain, stop | parallel requests share a run; exit, close, deadline and overflow in any order; npm may end before its timers |
| **config trust** across npm processes (`npm-cli.patch`) | layers of settings, two lists of marks handed to child npm processes | load the configuration, set the environment of a child, register a publishConfig | a child reads everything back from one layer, so who chose a value must survive several levels of npm; too much distrust breaks what the parent honours |
| **GitLab provider** (`examples/providers/gitlab/provider.js`, `lib/context.js`) | the store file; GitLab's OAuth tokens and deploy tokens | get, erase, login, logout; refresh, mint, revoke | one process per npm command on one file, a refresh token that rotates, answers that are lost, writes that overlap |
| **eight other providers** (`examples/providers/*/provider.js`) | an entry of the store file each, and what a process remembers | the same four handlers | await points between read and write, several processes, order of store and service, calls that fail with their work done, copies in memory |
| **provider library** (`examples/providers/lib/protocol.js`, `context.js`) | the session, the person's terminal, the store file | the serve loop, prompts with deadlines, flush of typed-ahead input, raw mode, read and rename of the store | a deadline that passes inside the flush, whose timer runs on beside what the handler does next; the process may end at any moment |
| **protocol crate** (`poc/rust/crates/protocol`) | none | framing, validation | parsing; sequential |
| **mock provider** (`poc/rust/crates/mock-provider`) | a scenario | misbehaves on purpose | it is the environment of the supervisor |
| **policy and generators** (`spec/policy-v1.json`, `tools/`) | none | data | none: the restart table and the limits are data the models use |
| **npm commands** (the rest of `npm-cli.patch`) | none across requests | login, logout, publish and their messages | sequential wiring |
| tests, fuzzers, transcripts; documents and their checkers | none | | not part of the system |

How they interact: npm (the client) resolves the chain for a registry request,
asks each provider through its supervisor over two pipes, one line per request
and answer, and keeps the answers in the cache. The registry's 401 and 403 come
back to the cache, which asks the provider to erase or to answer again. A
provider process lives as long as its npm command, and meets the provider
processes of other commands only in its store file and at the service.
The token helper is the earlier, independent mechanism: a program that npm runs
once for each registry key and whose output becomes the Authorization header.

What makes each correct, in a sentence:

- supervisor: an answer goes to the request it was written for, every failure is
  told once and counted once, the provider is not restarted past the limit, and
  no provider can hold up a command for ever;
- cache: a rejected credential is not sent again, is erased once, a request is
  retried once, and no answer serves a request it was not given for;
- chain: what the memory answers a provider would have answered, no provider is
  asked twice, and no stored credential goes out where a provider stands;
- token helper: it runs once, its credential never leaves over a refused
  connection, every request carries the credential of the right key or fails, and
  nothing hangs;
- config trust: a token helper runs only from a file that no project chose, npm knows
  every route setting that a project chose, and a child still honours what its parent
  honours;
- prompts: the terminal is given back whatever ends a prompt or the process, a secret is
  typed unseen, and no question outlives its request;
- every provider: a process does not hand out again what it was told is no longer
  good, a write is answered only on a person's yes to that very request, what the
  service issued is recorded where a logout finds it, and what was removed stays removed;
  where the code keeps less than that (JFrog asks nobody, and holds a token over a login),
  sections 3 and 6 say what it keeps;
- GitLab provider: a removed login stays removed, no deploy token is lost
  silently, and the good refresh token is the one in the store.

`PROJECT.json` lists the hazards behind these sentences at their lines.

## 2. Modules

| module | models | instance and proofs |
|---|---|---|
| `ProviderRestarts` | abstract: the policy's table of session ends (what counts, what restarts) | refined by `ProviderSupervisor` |
| `ProviderSupervisor` | supervisor, session, threads, pipes and provider process | `MCProviderSupervisor`, `ProviderSupervisorProofs` |
| `CredentialCache` | cache, rejections and retries of parallel registry requests | `MCCredentialCache`, `CredentialCacheProofs` |
| `ChainPolicy` | operators: registry matching, `resolve_chain`, `resolve_login_chain` | used by the next two |
| `ProviderChain` | the walk of a chain by several requests over the memory | `MCProviderChain`, `ChainProofs` |
| `ChainRunner` | the loop of the Rust client, compared with `ChainPolicy` | `MCChainRunner`, `ChainProofs` |
| `HelperRun` | one run of a token helper: process, pipes, timers, promise | part of `TokenHelper` |
| `TokenHelper` | the requests of a command that walk their keys and share the runs; composes `HelperRun` | `MCTokenHelper`, `TokenHelperProofs` |
| `ConfigTrust` | a chain of npm processes, their layers, and the marks for their children | `MCConfigTrust`, `ConfigTrustProofs` |
| `GitLabProvider` | provider processes, the store file with read and rename apart, GitLab | its own cfgs, `GitLabProviderProofs` |
| `ProviderProcesses` | what the other providers share: processes, requests, store, service, history | extended by the next |
| `GoogleProvider`, `CorporateProvider`, `JfrogProvider`, `AzureProvider`, `GithubProvider`, `NpmjsProvider`, `VerdaccioProvider`, `AwsProvider` | the handlers of one provider each, and its service | `MCProviders` instantiates all eight, `ProvidersProofs` |
| `TerminalPrompts` | the session's lines, the prompts and the person's terminal | `TerminalPromptsProofs` |

### ProviderSupervisor

`pc` is where the client's one thread is: between requests (`idle`), in
`ensure` (start or not), waiting for the `hello`, `ready` to send, `waiting` for an
answer. `session`, `failed`, `skipped` and `warnings` are the fields of
`ProviderSupervisor`; `queued` and `lines` are the two channels to the writer
and from the reader thread, `pipe` what the provider wrote and nobody has read.
`WatchIdle` is the supervisor's look at the channel between requests,
`Request`, `UseSession`, `NotRestarted`, `Spawn` the branches of `request` and
`ensure`, `Send` and the `Receive`/`TimesOut` actions the session's exchange.
Actions of the provider and the threads happen at any moment, so the window
between the two looks at the channel (`WatchIdle` and the one in `Send`) is in
the model. A provider may answer at any time, once, with an answer, an error or a
malformed line; write a line for nothing; or exit; nothing obliges it to do any
of it. A line carries the request it was written for; the client does not see
that field, only the properties do.

### CredentialCache

A request looks up the cache in the six-key order of `lookup`, goes to the
provider with a `get` on a miss (one exchange at a time: `channel`), leaves with an
answer, and may be accepted or rejected with a 401 or a 403 while others do the
same. `issued` numbers the answers, `cache` maps keys to the number of an
answer; `retired` is the model's set of that name. Expiry is an answer that
`lapsed`: it came within the margin, which may happen at any step to any entry
that expires. `dropped`, `erases` and `sends` are history and guide
no step.

### ChainPolicy, ProviderChain and ChainRunner

`ChainPolicy` writes the policy over a case: chain, hellos, answers, whether a
credential is stored. A URL is a record of its canonical parts; canonicalisation
comes before the model. `ProviderChain` lets the requests of a command walk the chain
concurrently: the memory is looked at before and after a provider is free,
answers are remembered, and the walk ends as `resolve_chain` says of what was
heard. `ChainRunner` is the same walk as the Rust client writes it, by one
request, with flags; its property compares the result with `resolve_chain`. Its names
(`RunnerInit`, `returned`) differ from those of `ProviderChain`, since `ChainProofs`
extends both.

### HelperRun and TokenHelper

`HelperRun` has the run of one key: `promise`, the process, the `pipes` (`held`:
the helper has left a process that keeps them open), whether the exit was seen, the
three timers. `TokenHelper` walks each request through its registry keys, longest
first, with the checks of `token-helper.js` in their order (guard, route, plain http,
stored and given credentials), waits on the shared promise, and sends or fails.
`OidcToken` puts trusted publishing's token into the config between requests;
`BodyFails` is the race of a request body with the helper; `NpmExits` ends
npm, after which no timer fires.

### GitLabProvider

Each process handles one request at a time, so a process is a `pc` and the account
object it read (`acc`). The store file is read and replaced in two steps
(`disk` is what was read), because that is what `context.js` does: the read and
the rename are separate. `current` and `live` are GitLab's side: the good generation
of each login's token pair, and the deploy tokens that exist. `GiveUp` is a
failed call or a stopped process, `AnswerLost` a call that GitLab carried out and
whose answer did not arrive. The revocation of access and refresh token is one
step; the CI job token, which has no state, is left out.

Nothing in the provider locks the file. The variable `straddled` records that
a rename fell between another process's read and its rename; then either's
change may be undone. The safety properties are stated of the executions without
that, and say what the rest of the design (re-reading the account before a write,
writing only one's own fields) achieves.

### ConfigTrust

An npmrc file is a record of what it sets: the paths of the user and the global file, a
prefix, route keys, a token helper or none. `world` is the tree of files, which no npm
changes. `config` is what the running npm loaded: command line, environment, the
project's file (`own` if that is the user's own file under another spelling), and the two
marks from its parent, `untrusted` and `transport`. `UserPath`, `GlobalPath`, `Prefix` and
`Find` are the precedence of the layers; `UserTrusted` and `GlobalTrusted` are
`#trustTokenHelpers`; `Untrusted` and `Transport` are the two lists that `set-envs.js`
exports, `Exported` the rest of the environment. `Start`, `Child` and
`SetPublishConfigRoute` are the steps: a child has its parent's `Exported` as its
environment, which is all that is left of where a value came from. That is what the
history `given` keeps: which of the values in the environment a repository chose. No
step reads `given`; the properties compare it with the marks.

Two corners are excluded from `TrustIsKept` (`DefaultOverruled`), for there the code does
take away from a child what its parent has: the default prefix given on the
command line or in the environment beside a user file with another prefix; and a user
file, loaded as the project's too, that names another user file. Both lose a helper and
trust none that should not be trusted. TLC shows both when the exclusion is removed.
That `globalconfig` is looked up beneath every layer, so that the one loaded last counts,
is a property of npm's code outside the patch, taken from the patch's comment on it.

### ProviderProcesses and the eight providers

`ProviderProcesses` has the state every provider shares: `store`, its entry in the file;
`good` and `issued`, the service; and for each process `memory`, `pc`, the request, the
handler's `local` values, whether a person said yes to the request (`asked`) and the last
`answer`. A handler is cut at its awaits: what
runs between two of them is one action, with the read and the write of the store that
stand in it together. (`GitLabProvider` takes read and rename apart; doing so in all
would only repeat its `straddled`.) A provider's module EXTENDS it and adds the handlers,
one action for each stretch, the fake service of its tests as operators, a failure of
each call with and without the work done (`CallFails`), and the end of the process
(`Stop`). Credentials are numbers in the order of their issue, so that history can speak
of them:

- `retired` (of each process): what it dropped, or should have, at a logout, an erase or a
  login that it handled itself. What that is differs. A logout retires everything it had
  and what was stored, in every provider. An erase retires what it drops from memory or
  from the store (Google, JFrog, AWS; Azure its session token); GitHub, npmjs and
  Verdaccio keep the stored token over an erase, on purpose, and a 401 has them look at
  it again. A login retires the credentials it takes the place of in Google, Azure,
  GitHub, npmjs and Verdaccio; in JFrog (`provider.js:254-257`, `277-281`) and AWS
  (`475-485`) the code keeps the token it holds and the next `get` hands it out, so nothing
  is retired there. The corporate provider keeps no token that it hands out, so there is
  nothing to retire. Azure's bare Entra token is not retired either: it is asked of its
  source anew at each `get`, which may well give the same one;
- `ended`: sign-ins that a logout removed or a login replaced, with what is rotated from
  one;
- `lost`: credentials that are good and recorded nowhere for a reason that the code
  accepts: a call whose answer never came, a revocation that failed, a process
  stopped while it held the only copy, a token obtained while another process replaced
  the sign-in, and, in corporate-sso, npmjs and JFrog, a sign-in that a login took the
  place of. For that one the service does have a call (their logout uses it, but for
  JFrog's refresh tokens): the code does not make it at a login;
- `reserved`: credentials kept for writes, with none among them that reads are served with
  too: a token minted for one write (Google, corporate, AWS, Azure's to unpublish with),
  a token of GitHub's that only writes, npmjs's tokens for writes and its session,
  Verdaccio's full token. Not in it are Azure's session token and a token of GitHub's that also reads,
  which can write as well, nor any of JFrog's, which serve every operation.

An answer that gives a credential out (`Gives`) records what the request was for (`write`)
and whether a person said yes to it (`asked`). `asked` comes from the prompt: it is set
when a request leaves its `confirm` step other than with an error, and cleared when it ends;
what may stand in the place of a yes (the identity of a job, or the provider's own
configuration: a CI publisher, a session that may serve reads) is named by the action
that answers.

Where one answer brings a read and a write token, or one rotation two credentials,
`issued` moves by two. A provider's own comment says which of its steps joins two
calls (`Azure`: refreshing an access token and using it).

### TerminalPrompts

`lines` and `handling` are the serve loop, `waits` the prompt its handler waits for.
Each prompt goes from `flush` to `asked` to `over`. `rawTerminals` and `handlers` are the
guard of raw mode in `context.js`, `found` the mode each prompt found, `echo` the terminal
itself. `GiveUp` is the deadline: a secret is settled at once, a line in its flush is left
to run out, and a later prompt may then open in that flush. `overlapped` records
this; what the terminal is like afterwards is then open, and the properties say what
holds as long as it has not happened, and what holds regardless (the handlers, and
`NothingAskedLate`).

## 3. Runs

| run | checks | bounds |
|---|---|---|
| `Supervisor` | `AnswersMatch`, `FailedAnswersLost`, `FailuresAccounted`, `FailedBounded`, `ImplementsRestarts`, `RequestsEnd` | 3 requests, 2 stray lines, limit 2 |
| `Cache` | `NoDroppedValueCached`, `RetiredNotServed`, `EraseOnce`, `AtMostOneRetry`, `CarriedCovers`, `RequestsEnd` | 2 parallel requests of 5 kinds, 2 credential values, 3 answers issued, 3 kinds of answer |
| `Chain` | `MemoryFaithful`, `NoDowngrade`, `LoginEndsAsGet`, `NotAskedAgain`, `RequestsEnd` | 2 requests, 2 providers, chains of up to 3 entries, 4 URL forms |
| `ChainRunner` | `RunnerAgrees` | lists of up to 3 providers, 4 hellos each |
| `TokenHelper` | `RunOnce`, `RefusedNeverCarries`, `RightCredential`, `AbortedEnds`, `RequestsEnd` | 2 requests of 9 kinds, 2 registry keys, 6 configurations |
| `ConfigTrust` | `HelperFileIsUsers`, `RouteIsKnown`, `TrustIsKept` | 5 files, 600 trees, 19 starts, 2 route keys, chains of 3 npm processes |
| `GitLab` | `RemovedStaysRemoved`, `TokensRecorded`, `StoredLoginGood`, `RequestsEnd` | 2 processes, 2 keys, 3 requests, 2 logins, 3 refreshes |
| `Providers` | `NotGivenAgain`, `WriteWasAsked`, `NothingForgotten`, `RemovedStaysRemoved`, `StoredIsGood` | each of 8 providers: 2 processes, 3 requests, 4 credentials (646 911 states) |
| `Terminal` | `TerminalGivenBack`, `NothingAskedLate`, `PromptsUndisturbed` | 3 lines, 3 prompts |

`Supervisor` and `Chain` also check their module's `TypeOK`; for the cache, the loop, the
token helper, the terminal and config trust it is a theorem, and the provider modules
state theirs without a run that lists it. The other three runs each show a disagreement
between a statement and the code (section 6).

What they show:

- **Supervisor.** With a provider that keeps to one answer per request, however
  late, every answer is given to the request it was written for, across
  timeouts and restarts. With one that writes lines for nothing this cannot hold
  (the client cannot tell them apart); what does hold is that the answer of a request
  that failed is never given to another. Every failure that counts was told once,
  as a failed request or as a warning. The module implements `ProviderRestarts`.
- **Cache.** After a rejection the value is under no key and no level, unless
  the provider issued it again since; a second, late rejection of the same
  answer sends no second erase.
- **Chain.** An answer taken from the memory is one that the provider gave to
  that question, and `not-found` for the lookup of `stage approve` is not passed on to
  its write. `login` is taken by a provider
  exactly if one would answer a `get`, and stores a token wherever a `get` would send it;
  on a host that a hello lists in another form it can store one that no `get` sends (section 6).
- **ChainRunner.** Rust loop and Python policy decide alike, for every list,
  hello and answer.
- **TokenHelper.** A helper that hangs, overflows, exits with its pipes held or
  fails is run once and ends in an outcome for every request; no order of exit, close
  and timers leaves a request waiting. The program is ended within the grace as long as
  npm is there (`AbortedEnds`); when npm ends first it may live on (section 6).
- **GitLab.** Re-reading the account before each write is enough to keep a
  logged-out login out, and recording a deploy token under its key alone to keep
  the other keys' tokens, as long as no two store writes overlap. `TokensRecorded`
  excuses tokens that cannot be recorded: lost answers, a login ended under
  the request, two processes that mint for one key at once.
- **ConfigTrust.** No chain of npm processes makes a file that a project chose look like
  the user's, though a child sees only an environment, and a route key that any
  project above chose is still refused at the bottom. Nor do the marks overshoot: a child
  honours what its parent honours, except where its own project chooses a file.
- **Providers.** `NotGivenAgain`: what is `retired` (section 2, which says what each
  provider's requests retire) the process does not hand out, out of memory or out of the
  store; of JFrog's identity token, not while it knows it as rejected. `WriteWasAsked`:
  no order of renewals, sign-ins, retries and other requests gets a write, or a credential
  kept for writes, past the prompt of that very request; JFrog, which has no prompt, is left out.
  That a token handed out for a read may itself be able to write is not excluded by it
  (section 6). `NothingForgotten`: neither a login over a login nor a
  failure between service and store leaves a credential alive and unrecorded, but for
  `lost`. `RemovedStaysRemoved` is stated of the five providers whose writes
  look at the store first (for the other three see section 6), `StoredIsGood` of the
  three that revoke what a login replaces.
- **Terminal.** A prompt that ends in any way, and a process that ends in any way but
  SIGKILL, leave the terminal echoing, as long as no prompt opened in the flush of one
  that was given up; without that condition, the exit handlers stay exactly as long as
  they are needed, and a flush that outlives its prompt never puts its question.
  `PromptsUndisturbed` says nothing of such an overlap, in which a secret can be
  typed visibly (section 6).

### Why the bounds are enough

The interesting cases need few actors. A late answer needs the request it was
written for, one that fails meanwhile and one that could take it: three
requests; the limit of two gives a restart, a second failure and the refusal of a
third start. Two parallel requests are the smallest race of a rejection with a
store, and three answers let the first be rejected after the third was issued;
commands are the pairs of requests the keys of the cache tell apart (two packages,
two URL forms, read with publish, two publishes). A chain is decided by what
stands before and after `npm:token` and by the form of the host: two providers
and three entries place a provider on either side. In `TokenHelper` two keys
give a key before the deciding one, and two requests a run shared while pending and
after it ended. In `GitLabProvider` two processes are needed for every race, the
third request comes after the race and meets what it left; the same holds of the other
providers, where four credentials allow a login, a login over it, and a token of
each. A third npm process in `ConfigTrust` is the first whose parent has marks of its own
to pass on; two route keys let a project choose one and the user the other; the
command lines of children choose no files (`Scripts`), as npm's own do not. A prompt,
one that opens in its flush and one after both are the overlaps that differ.
The bounds `MaxRequests`, `MaxStray`, `MaxIssued`, `MaxLogins`,
`MaxRefreshes`, `MaxLevel`, `MaxLines`, `MaxPrompts` are in
guards and named in the modules. What is proved (section 5) needs none of them.

### Fairness and deadlock

- `ProviderSupervisor`: weak fairness of the client's own steps. Each wait in it is a
  `recv_timeout` (hello, answer), so a step is always due. Provider and threads owe
  nothing.
- `CredentialCache`, `ProviderChain`: weak fairness of *some* request's step: npm
  and its partners do not all stop. Registry and provider calls have deadlines, and
  both answers and failures are among the steps.
- `TokenHelper`: weak fairness of request steps, of the event loop's deliveries and
  timers, and of the deadline of a helper that hangs. The helper itself, and what it
  leaves behind, owe nothing: it may never exit or close its output.
- `GitLabProvider`: weak fairness of a process's work on its request; every call
  has a timeout. A failure or a stop is never forced.
- `ConfigTrust`, `TerminalPrompts` and the eight providers state no fairness: their
  properties are about safety.

Deadlock is checked in every run. Each module has an explicit self-loop for the
finished command (in `ConfigTrust` registering the same route again), and nothing else
may be stuck.

## 4. Abstract specification

`ProviderRestarts` is the table of the policy (which ends of a session count, which
skip the provider, when it may be started again) as a state machine over four
variables. `ProviderSupervisor` is shown to implement it with `failed` for the
kills, and `session \/ pc = "hello"` for an open session: by TLC as the property
`ImplementsRestarts`, and by proof as `SupervisorImplementsRestarts`. `ChainPolicy`
plays the same part for `ChainRunner`: the loop is compared with the policy at its end.

## 5. Proofs

Proved with TLAPS for every value of the constants, from the assumptions each
module names (bounds and limits are naturals; constants have their types):

| theorem | states | rests on |
|---|---|---|
| `TypeCorrect` of six proof modules, `RunnerTypeCorrect` | `[]TypeOK`, `[]RunnerTypeOK` | in the supervisor with `InRequest` (a request being made has a number), in the cache with `ChannelInv` and `PhaseInv` |
| `LimitHolds` | `[]FailedBounded` | `LimitInv` |
| `FailedAnswersStayLost` | `[]FailedAnswersLost` | `FlightInv` |
| `AnswersArePaired` | `[]AnswersMatch` | `PairInv` |
| `FailuresAreAccounted` | `[]FailuresAccounted` | `FlightInv`, and the cardinality of the failed requests |
| `SupervisorImplementsRestarts` | `ImplementsRestarts` | `LimitInv`, `RestartStep` |
| `RejectedStaysOut` | `[]NoDroppedValueCached` | `RetireInv` |
| `RetiredAnswersAreGone` | `[]RetiredNotServed` | `RetireInv` |
| `ErasedOnce` | `[]EraseOnce` | `EraseInv` |
| `RetriedOnce` | `[]AtMostOneRetry` | `SendInv` |
| `CarriedAlwaysCovers` | `[]CarriedCovers` | `CoverInv` |
| `MemoryIsFaithful` | `[]MemoryFaithful` | `RememberedWasTold` |
| `NothingAskedAgain` | `NotAskedAgain` | `ToldIsRemembered` |
| `NeverDowngrades` | `[]NoDowngrade` | `WalkInv`, `ResultInv` |
| `LoginsEndAsGets` | `[]LoginEndsAsGet` | `LoginWalkInv`, `LoginResultInv`, `LoginAgainstGet` |
| `RunnerDecidesAsPolicy` | `[]RunnerAgrees` | `SeenInv`, `EndInv` |
| `HelpersRunOnce` | `[]RunOnce` | `StartInv` |
| `NothingRefusedCarries` | `[]RefusedNeverCarries` | `AskInv` |
| `CredentialIsRight` | `[]RightCredential` | `WalkInv`, `RightFor` |
| `HelperFilesAreUsers` | `[]HelperFileIsUsers` | `Loaded` |
| `RoutesAreKnown` | `[]RouteIsKnown` | `Loaded` |
| `TrustStays` | `TrustIsKept` | `Loaded` |
| `TerminalIsGivenBack` | `[]TerminalGivenBack` | `RawInv` |
| `NothingIsAskedLate` | `[]NothingAskedLate` | `WaitInv` |
| `PromptsAreUndisturbed` | `[]PromptsUndisturbed` | `RawInv`, `StepInv` |
| `RemovedLoginsStay` | `[]RemovedStaysRemoved` | `ProcInv`, `FreshInv`, `LoginsInv` |
| `StoredTokensGood` | `[]StoredLoginGood` | `GoodInv`, `ProcInv`, `FreshInv` |
| `TokensAreRecorded` | `[]TokensRecorded` | `TokenInv`, and the three above |
| `DroppedIsNotGiven` | `[]NotGivenAgain` | `ProvidersInv`: of each provider its `Shared` and what its processes hold |
| `WritesAreAsked` | `[]WriteWasAsked` | `ProvidersInv`: `GoogleAsks`, `CorporateAsks` and so on, and what of a store is not reserved |
| `GoodOnesAreKept` | `[]NothingForgotten` | `ProvidersInv`: `GoogleKept`, `CorporateKept` and so on |
| `RemovedIsGone` | `[]RemovedStaysRemoved` | `ProvidersInv`: what the store may have |
| `StoredIsNotRevoked` | `[]StoredIsGood` | `ProvidersInv`: what the store may have |

Why the invariants are needed:

- `FailedBounded` alone does not survive a failure: the count rises. `LimitInv` adds that
  while a session or a starting one is there, the limit has not been reached, which is
  what the comparison before a start gives.
- `FailedAnswersLost` needs to know where every line may still be. `FlightInv`
  says that a line in the pipe, in a channel or in the provider's hands is for
  no request, for one that was answered, or for the one now waiting. A request
  that fails takes pipe and channels with it, which is the whole argument.
- `AnswersMatch` says nothing of the lines still under way. `PairInv` does: while no stray
  line was written, what is on its way, as a request or as its answer, is for the request
  the client waits for, and there is at most one of it, so a timeout, which takes the
  session along, leaves nothing behind. `FailuresAccounted` counts outcomes, so each step
  has to add exactly one request to the failed ones: a request that is being made has no
  outcome yet.
- `RetireInv` adds to the two properties that what was dropped had been issued
  before, so an answer issued later is not caught by the drop.
- `EraseOnce` holds because an erase is built in the step that retires its answer,
  and retired answers stay retired (`RetiredGrows`); `AtMostOneRetry` by counting
  departures against `retried` and the phase (`SendInv`).
- `CoverInv` says that every entry is filed under the key its own answer gives, so
  whatever key a lookup finds an answer by, the answer's binding matches it.
- In the chain, the memory is faithful because each thing remembered was told by a
  provider for the very registry (and scope), and not told twice because each thing
  told is remembered before the provider is free. `NoDowngrade` then is an argument about
  the policy alone: the lemma `StoredCredential` shows what a case whose result is the
  stored credential looks like, for a chain of any length.
- `LoginEndsAsGet` compares a login's walk with a get that did not take place.
  `LoginWalkInv` says what the providers passed so far answered, `LoginResultInv` at which
  one the login ended and why, and the lemma `LoginAgainstGet` that the policy, given a
  stored token, stops at the same one.
- In `ChainRunner`, `SeenInv` says what the flags mean in terms of the outcomes heard so
  far, `EndInv` what a result says of the list; `PolicyStops` and `PolicyEnds`
  say what the policy makes of the same list.
- In `TokenHelper`, that what a request carries is right when it is sent needs to know where
  its walk has been: `WalkInv` says that no key before the present one decides, that a
  walk which waits is at a key with a helper in use, and that while a request has no
  outcome the given keys are those it began with (a token of trusted publishing comes only
  between publishes). `StartInv` says that a key without a promise has started
  nothing; `AskInv` that whoever waits was not refused, so that a cached answer reaches only
  requests for which a start would have been allowed.
- In `ConfigTrust` the properties speak of any depth, so the invariant must say what an
  environment is: `Loaded` says that nothing in it was given by a repository, or that it
  is a parent's: all three paths are set and agree with the files they name
  (`ParentPaths`), a file that a repository chose and that has a helper is marked
  (`ParentFiles`), and so is every given route, if a helper may run at all
  (`ParentRoutes`); and that the project's layer is the user's file where `own` says so
  (`OwnFile`).
- In `TerminalPrompts`, `RawInv` says that without an overlap at most one prompt has raw
  mode on, the one the handler waits for if it waits, and that it found the terminal
  echoing; `StepInv` says which steps have raw mode on, `WaitInv` that only the prompt
  waited for is asked.
- In `GitLabProvider`, as long as no rename came between the read and the rename of
  another, `ProcInv` says that a process about to rename has read what the store still
  holds, and that what it adds is of the stored login; a rename that straddles nothing
  leaves nobody else about to write. `FreshInv` says that a login which is about to be
  stored is known to no other process and never ended, and `LoginsInv` that only logins
  that were issued are known at all, so that a new one is new. `GoodInv` strengthens
  `StoredLoginGood`: when the stored tokens are the good ones, nobody is about to write
  others, or else the two cases could follow one another in the wrong order.
  `TokensRecorded` accepts any request that has read a token, but one that merely read it
  would drop it at its end: `TokenInv` therefore names only the requests about to record
  a token and the logouts about to revoke it, and says that a logout about to remove
  the entry has read all that the entry records.
- Of the eight providers `ProvidersInv` is the invariant of the one that runs. What an
  answer may carry depends on what the process holds, so each invariant says of everything
  that can become an answer (memory, the values in hand, the stored entry as far as it was
  read) that it was issued, is not reserved unless the request is one for a write, and is not
  among what the process dropped (`AzureKnown`, `VerdaccioFree`, `NpmjsHand` and the like).
  A credential is new when it is issued, so it is in nobody's drops and in nobody's hand.
  The invariants differ where the handlers do. Google, GitHub and npmjs take what they will
  revoke from the store in the step that changes it, so that what a request is about to
  revoke is in `ended`, and what is stored is not. In Azure a login that goes over the handles it
  read has each one in `left` or revoked (`AzureProcess`), and only a logout is known to
  carry handles the store no longer has. In Verdaccio a login's two tokens are in no store
  and in no other login's hand until they are stored (`VerdaccioMinting`), or else the one
  login could revoke the other's, and a token a user brought is not one that the registry
  generated. JFrog hands out the stored login itself, so `Shared` would be too strong:
  `JfrogHolds` lets the memory and the answer be a dropped identity token, and nothing else.
  `WriteWasAsked` needs to know where a prompt lies behind: `GoogleYes`, `AwsYes` and the like
  name the awaits that a write reaches only past its prompt (or in a job), and that the
  yes is kept (`asked`) over every await after it, a renewal or a sign-in included;
  `Yes` says it of the answer.
  AWS, JFrog and corporate-sso have no part in `RemovedStaysRemoved` for their sign-ins,
  since they write what they hold (section 6).

Model-checked only: liveness everywhere (out of the prover's reach), so `RequestsEnd` and
`AbortedEnds`. Every safety invariant and action property that a run checks has a theorem.
Not proved are two type invariants that no run lists: that of `GitLabProvider`, whose bound
on the number of deploy tokens needs a count of the requests under way (the proofs use the
types without the bounds, `EntriesOK` and `StepsOK`), and that of the eight providers (the
proofs use types without the bound on credentials, in each provider's invariant). No module
that is proved about uses a RECURSIVE operator.

## 6. Disagreements between statements and code

Three runs each check a statement as a property and end in a counterexample.

- `SupervisorStrayLineFailsNothing`: "a stray line fails no request". One that arrives
  between the supervisor's look and the session's own look fails the request being made.
- `GitLabDeadLogin`: a provider with a rotating refresh token is said to lock its store,
  or to read it again before it reports a login dead. The GitLab provider does neither.
- `ProvidersLogoutUndone`: a logout is said always to remove the local credentials. In
  corporate-sso, jfrog-artifactory and aws-codeartifact another process that
  read the sign-in before may write it, or what is rotated from it, over the empty entry
  afterwards: they write what they hold and not onto what they find.

Further statements are kept as definitions beside the code they are about, and TLC
refutes each when it is checked under the module's configuration:

- `EachAnswerRetired` (`CredentialCache`): `_retire` is said to retire "each answer that
  carried" the value. It retires those that still have a cache entry.
- `ListedHostFails` (`ProviderChain`): a global chain on which every provider declines a
  form of a host that a hello lists is said to fail "whether or not a credential is stored".
  With `npm:token` listed before the provider and nothing stored, it goes out anonymously.
- `LoginSendable` (`ProviderChain`): `login` is said to end "the way `get` ends". It is not
  given the hellos, and stores a token for a URL form on which every `get` fails.
- `HelperKilled` (`TokenHelper`): a helper past its limit is said to be killed 2 s after
  SIGTERM. The timer is npm's own, and npm may end first (on POSIX).
- `RejectedNotGiven` (`MCProviders`, with `MaxRequests = 4`): a JFrog identity token that
  an erase was told of is said not to be handed out again until a login stores another. A
  second erase, with nothing held, forgets the first, and the next `get` hands it out.
- The stricter reading of `NotGivenAgain`, that after a login nothing made of an older
  sign-in is handed out, does not hold of JFrog and AWS: both hold the token they
  minted over a login, until it lapses. With it added to `retired` in `StoreLogin` and
  `SignedIn`, TLC gives for each the trace `get`, login, `get`.
- The stricter reading of `WriteWasAsked`, that no credential able to write goes out without a
  yes, does not hold of three providers: Azure's session token (its scope is to write, and
  its answer serves every operation) and a token of GitHub's with both scopes also answer reads,
  and JFrog's tokens serve every operation and are given out without a question.
- `SecretHidden` (`TerminalPrompts`): raw mode is said to turn the echo off as long as the
  read lasts. The flush of a prompt that was given up ends in it and turns it on.

## 7. Not modelled, and why

- In `ConfigTrust`: relative paths in the user file, `PREFIX` and `DESTDIR`, `${VAR}` in
  key names, misspelled forms of a key, command lines of children that choose files,
  texts. They are ways to arrive at a path or a key, which the model has as values.
- In the providers: the CI job token of GitLab (stateless), expiry dates, texts, the
  parsing of a service's answers, and the choice of a registry's location.
- In the library: the validation of a request's fields, redaction, opening a browser.
- Line framing, JSON, validation, canonicalisation of URLs: sequential parsing; what
  comes of a line is a kind of line in `ProviderSupervisor` and in `TerminalPrompts`.
- Durations. A deadline may pass at any moment; that one deadline is shorter than another
  is used nowhere. That timers of one duration fire in the order they were set is used
  (`NextFlush`).
- Wording, logging, the environment of a helper, npm's commands, tests and documents.
- The live test runners and the end-to-end runner (`examples/providers/live`,
  `poc/npm-e2e`) drive the programs above and keep no state of their own.

## 8. Plan

Done, in this order: `ProviderRestarts`, `ProviderSupervisor`; `CredentialCache`;
`ChainPolicy`, `ProviderChain`, `ChainRunner`; `HelperRun`, `TokenHelper`;
`GitLabProvider`; `ProviderProcesses` and the eight providers; `TerminalPrompts`;
`ConfigTrust`; proofs about all of these.

Next, most important first:

1. `ConfigTrust` composed with `TokenHelper`, whose `config` and `route` it decides.
2. The type invariants of the providers, from their invariants and the bounds.
3. A composition of `ProviderChain` and `CredentialCache` over several providers, where the
   cache is per provider and the chain decides whose cache a request looks at.

## 9. Running it

    tlc -config Supervisor.cfg MCProviderSupervisor
    tlapm ProviderSupervisorProofs.tla

and so on for the other configurations; `PROJECT.json` names the module of each run.
`ProvidersProofs` takes about a quarter of an hour from nothing on two threads. The longest run, `Cache`, takes about two and a half minutes on two workers.
