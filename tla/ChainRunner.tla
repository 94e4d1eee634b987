---------------------------- MODULE ChainRunner ----------------------------
(***************************************************************************)
(* The Rust client's walk of a list of providers for one request           *)
(* (run_provider_chain_with): a loop that starts each provider in turn,    *)
(* keeps whether one answered not-found and which hellos list the host of  *)
(* the registry, and stops at the first decisive outcome or error. It      *)
(* knows no npm:token: what it decides is to be what ChainPolicy decides.  *)
(* Its names are not ProviderChain's: ChainProofs speaks of both.          *)
(***************************************************************************)
EXTENDS ChainPolicy

CONSTANTS
    ListedProviders, \* the providers of the list, in no order
    Lists,           \* provider lists: non-empty sequences of them
    Hellos,          \* what the providers' hellos can list: functions on them
    Registry         \* the registry of the request

ASSUME ListAssumption ==
    /\ Lists \subseteq Seq(ListedProviders) \ {<<>>}
    /\ Hellos \subseteq [ListedProviders -> [listed : BOOLEAN, registries : SUBSET Url]]
    /\ Registry \in Url
    /\ STORED_CREDENTIAL_ENTRY \notin ListedProviders

VARIABLES
    list,         \* provider_commands
    perRegistry,  \* kind
    hello,        \* what each provider's hello says
    not_found,    \* some provider answered not-found
    listing,      \* the providers whose hello lists the host of the registry
    heard,        \* the outcomes so far (history)
    returned      \* "walking", and then what the walk returned

runnerVars == <<list, perRegistry, hello, not_found, listing, heard, returned>>

(* The walk hears at most one outcome per provider of the list.            *)
RunnerTypeOK ==
    /\ list \in Lists /\ perRegistry \in BOOLEAN /\ hello \in Hellos
    /\ not_found \in BOOLEAN /\ listing \subseteq ListedProviders
    /\ heard \in Seq(Outcomes) /\ Len(heard) <= Len(list)
    /\ returned \in {"walking", "ok", "fail", "as-no-provider"}

RunnerInit ==
    /\ list \in Lists /\ perRegistry \in BOOLEAN /\ hello \in Hellos
    /\ not_found = FALSE /\ listing = {} /\ heard = <<>>
    /\ returned = "walking"

AtProvider == returned = "walking" /\ Len(heard) < Len(list)
Current    == list[Len(heard) + 1]

(* Mutant of Listing: only a provider that was asked can stand behind.     *)
Listing_of_asked ==
    IF /\ ListsHost(hello[Current], Registry)
       /\ serves(hello[Current], Registry, perRegistry)
    THEN listing \cup {Current} ELSE listing

(* The hello lists the host of the registry in some form.                  *)
Listing ==
    IF ListsHost(hello[Current], Registry) THEN listing \cup {Current} ELSE listing

(* run_exchange_in: a registry the hello leaves out is declined unasked.   *)
NotServed ==
    /\ AtProvider /\ ~serves(hello[Current], Registry, perRegistry)
    /\ listing' = Listing
    /\ heard' = Append(heard, Declined)
    /\ UNCHANGED <<list, perRegistry, hello, not_found, returned>>

Passes(answer) ==
    /\ AtProvider /\ serves(hello[Current], Registry, perRegistry)
    /\ answer \in {Declined, NotFound}
    /\ listing' = Listing
    /\ not_found' = (not_found \/ answer = NotFound)
    /\ heard' = Append(heard, answer)
    /\ UNCHANGED <<list, perRegistry, hello, returned>>

(* An Ok ends the walk.                                                    *)
Answers ==
    /\ AtProvider /\ serves(hello[Current], Registry, perRegistry)
    /\ listing' = Listing
    /\ heard' = Append(heard, "ok")
    /\ returned' = "ok"
    /\ UNCHANGED <<list, perRegistry, hello, not_found>>

(* So does any error: a provider that cannot be started, a hello that      *)
(* fails, an Err answer, the end of the session.                           *)
Fails ==
    /\ AtProvider
    /\ heard' = Append(heard, "fail")
    /\ returned' = "fail"
    /\ UNCHANGED <<list, perRegistry, hello, not_found, listing>>

AfterLoop ==
    IF ~perRegistry /\ listing # {} /\ ~not_found THEN "fail"
    ELSE IF not_found THEN "fail"
    ELSE IF perRegistry THEN "fail" ELSE "as-no-provider"

Return ==
    /\ returned = "walking" /\ Len(heard) = Len(list)
    /\ returned' = AfterLoop
    /\ UNCHANGED <<list, perRegistry, hello, not_found, listing, heard>>

RunnerNext ==
    \/ NotServed \/ \E answer \in Outcomes : Passes(answer)
    \/ Answers \/ Fails \/ Return
    \/ returned # "walking" /\ UNCHANGED runnerVars

RunnerSpec == RunnerInit /\ [][RunnerNext]_runnerVars

-----------------------------------------------------------------------------
(* Properties.                                                             *)

RunnerCase(stored) ==
    [chain |-> list, answers |-> heard, perRegistry |-> perRegistry, stored |-> stored,
     project |-> FALSE, exchanged |-> FALSE,
     behind |-> {p \in ListedProviders : ListsHost(hello[p], Registry)}]

(* The loop decides what the policy decides from the same answers, with    *)
(* and without a stored credential: "as-no-provider" is the one outcome in *)
(* which a stored credential, or none, is used.                            *)
RunnerAgrees ==
    returned # "walking" => \A stored \in BOOLEAN :
        LET policy == resolve_chain(RunnerCase(stored)) IN
        /\ returned = "ok" <=> policy = "ok"
        /\ returned = "fail" <=> policy = "fail"
        /\ returned = "as-no-provider" <=>
              policy = IF stored THEN "stored-credential" ELSE "anonymous"
=============================================================================
