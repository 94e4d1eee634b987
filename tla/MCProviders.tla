---------------------------- MODULE MCProviders ----------------------------
(***************************************************************************)
(* The eight reference providers that share ProviderProcesses, checked one *)
(* at a time: `provider' is chosen at the start. A property of this module *)
(* is what each provider's own module states under that name.              *)
(***************************************************************************)
EXTENDS ProviderProcesses, TLC

CONSTANT Providers  \* the providers to check

VARIABLE provider

Google    == INSTANCE GoogleProvider
Corporate == INSTANCE CorporateProvider
Jfrog     == INSTANCE JfrogProvider
Azure     == INSTANCE AzureProvider
Github    == INSTANCE GithubProvider
Npmjs     == INSTANCE NpmjsProvider
Verdaccio == INSTANCE VerdaccioProvider
Aws       == INSTANCE AwsProvider

Symmetry == Permutations(Processes)

Init == /\ provider \in Providers
        /\ \/ provider = "google" /\ Google!Init
           \/ provider = "corporate" /\ Corporate!Init
           \/ provider = "jfrog" /\ Jfrog!Init
           \/ provider = "azure" /\ Azure!Init
           \/ provider = "github" /\ Github!Init
           \/ provider = "npmjs" /\ Npmjs!Init
           \/ provider = "verdaccio" /\ Verdaccio!Init
           \/ provider = "aws" /\ Aws!Init

Next == \/ /\ UNCHANGED provider
           /\ \/ provider = "google" /\ Google!Next
              \/ provider = "corporate" /\ Corporate!Next
              \/ provider = "jfrog" /\ Jfrog!Next
              \/ provider = "azure" /\ Azure!Next
              \/ provider = "github" /\ Github!Next
              \/ provider = "npmjs" /\ Npmjs!Next
              \/ provider = "verdaccio" /\ Verdaccio!Next
              \/ provider = "aws" /\ Aws!Next
        \/ Idle /\ UNCHANGED <<provider, vars>>

Spec == Init /\ [][Next]_<<provider, vars>>

-----------------------------------------------------------------------------

(* The types of every provider's store, memory and requests. *)
TypeOK ==
    /\ provider = "google" => Google!TypeOK
    /\ provider = "corporate" => Corporate!TypeOK
    /\ provider = "jfrog" => Jfrog!TypeOK
    /\ provider = "azure" => Azure!TypeOK
    /\ provider = "github" => Github!TypeOK
    /\ provider = "npmjs" => Npmjs!TypeOK
    /\ provider = "verdaccio" => Verdaccio!TypeOK
    /\ provider = "aws" => Aws!TypeOK

(* What a process was told to drop it does not hand out again, out of a    *)
(* copy in memory or out of the store: by a logout that it handled, in     *)
(* every provider; by an erase, where the provider drops a token at one    *)
(* (Google, JFrog, AWS, and Azure's session token); and by a login that    *)
(* takes the place of one (Google, Azure, GitHub, npmjs, Verdaccio). JFrog *)
(* and AWS hold a token over a login, and GitHub, npmjs and Verdaccio the  *)
(* stored one over an erase: these stay out. Of JFrog's identity token it  *)
(* says less, that the process does not hand it out while it knows it as   *)
(* rejected (DroppedNotGiven); the corporate one hands nothing out twice.  *)
NotGivenAgain == IF provider = "jfrog" THEN Jfrog!DroppedNotGiven ELSE RetiredNotGiven

(* A write is answered with a credential, and a credential kept for writes *)
(* goes out at all, only on a yes at the prompt of that very request, or   *)
(* in a job, or by the word of the configuration: whatever awaits, sign-   *)
(* ins and renewals lie between, and whatever requests came before. JFrog  *)
(* asks nobody; a token that reads are served with too (a session token of *)
(* Azure's, a token of GitHub's that also reads) may write after a read    *)
(* that nobody was asked about.                                            *)
WriteWasAsked == provider # "jfrog" => ReleasedOnYes

(* A credential that was obtained at the service and is still good there   *)
(* is recorded where a logout finds it, or a process is about to revoke    *)
(* it: nothing is left alive by the order of store and service, by a login *)
(* over a login, or by a failure, but for what the modules count as lost.  *)
NothingForgotten ==
    /\ provider = "google" => Google!NothingForgotten
    /\ provider = "corporate" => Corporate!NothingForgotten
    /\ provider = "jfrog" => Jfrog!NothingForgotten
    /\ provider = "azure" => Azure!NothingForgotten
    /\ provider = "github" => Github!NothingForgotten
    /\ provider = "npmjs" => Npmjs!NothingForgotten
    /\ provider = "verdaccio" => Verdaccio!NothingForgotten

(* A sign-in that a logout removed, or a login replaced, is not written    *)
(* back by another process that read it before, and a token that an erase  *)
(* took out of the store is not put back by a request already under way.   *)
RemovedStaysRemoved ==
    /\ provider = "google" => Google!RemovedStaysRemoved
    /\ provider = "azure" => Azure!RemovedStaysRemoved /\ Azure!ErasedNotStored
    /\ provider = "github" => Github!RemovedStaysRemoved
    /\ provider = "npmjs" => Npmjs!RemovedStaysRemoved
    /\ provider = "verdaccio" => Verdaccio!RemovedStaysRemoved

(* What the provider has itself had revoked, it does not keep: no process  *)
(* revokes a sign-in that is still stored, or stores one that is revoked.  *)
StoredIsGood ==
    /\ provider = "google" => Google!StoredIsGood
    /\ provider = "github" => Github!StoredIsGood
    /\ provider = "npmjs" => Npmjs!StoredIsGood

-----------------------------------------------------------------------------

(* What a logout removed does not come back into the store, of the three   *)
(* providers whose writes do not look at the store first ("always removes  *)
(* its local credentials", phase-2-credential-provider.md:576).            *)
LogoutNotUndone ==
    /\ provider = "corporate" => Corporate!RemovedStaysRemoved
    /\ provider = "jfrog"     => Jfrog!RemovedStaysRemoved
    /\ provider = "aws"       => Aws!RemovedStaysRemoved

(* "not handed out again, by the retry or by any later `get`, until a      *)
(* `login` stores another" (jfrog-artifactory/provider.js:242-244): of     *)
(* what JFrog's erase was told the registry rejected.                      *)
RejectedNotGiven == provider = "jfrog" => RetiredNotGiven
=============================================================================
