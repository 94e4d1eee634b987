---------------------------- MODULE ChainPolicy ----------------------------
(***************************************************************************)
(* What a chain of credential providers decides for one registry: the      *)
(* matching of a registry against the list of a provider's hello, the end  *)
(* of a chain for `get' (resolve_chain) and for `login'                    *)
(* (resolve_login_chain). A chain is a sequence of providers and           *)
(* `npm:token' entries; `answers' holds what its first entries said, in    *)
(* the same order. A URL is its canonical form: scheme, host, port and the *)
(* segments of its path.                                                   *)
(***************************************************************************)
EXTENDS Naturals, Sequences

STORED_CREDENTIAL_ENTRY == "npm:token"

Declined == "try-next-provider"
NotFound == "try-next-provider-not-found"

(* What a provider of a chain can say, or npm say for it.                  *)
Outcomes == {"ok", Declined, NotFound, "fail"}

-----------------------------------------------------------------------------
(* Registry matching.                                                      *)

Url == [scheme : STRING, host : STRING, port : Nat, path : Seq(STRING)]

registry_matches(served, url) ==
    /\ served.scheme = url.scheme
    /\ served.host = url.host /\ served.port = url.port
    /\ Len(served.path) <= Len(url.path)
    /\ \A n \in 1..Len(served.path) : served.path[n] = url.path[n]

(* A hello: whether it had a list, and the URLs of it.                     *)
serves(hello, registry, perRegistry) ==
    IF hello.listed
    THEN \E entry \in hello.registries : registry_matches(entry, registry)
    ELSE perRegistry

(* The provider stands behind the host of the registry, in any form.       *)
ListsHost(hello, registry) ==
    hello.listed /\ \E entry \in hello.registries : entry.host = registry.host

-----------------------------------------------------------------------------
(* The end of a chain. A case c has                                        *)
(*   chain, answers   the entries, and what the first of them said         *)
(*   perRegistry      a per-registry list, or the global chain             *)
(*   stored           a credential npm:token may serve is stored           *)
(*   project          one is written in project config                     *)
(*   exchanged        a token came from a trusted-publishing exchange      *)
(*   behind           the providers whose hello lists the registry's host  *)

Listed(c)   == \E n \in 1..Len(c.chain) : c.chain[n] = STORED_CREDENTIAL_ENTRY
Said(c, a)  == \E n \in 1..Len(c.answers) : c.answers[n] = a
IsToken(c, n) == c.chain[n] = STORED_CREDENTIAL_ENTRY

(* Mutant of BehindListed: only the entry just before npm:token is seen.   *)
BehindListed_only_previous(c, n) ==
    \E m \in 1..(n - 1) : m = n - 1 /\ c.answers[m] = Declined /\ c.chain[m] \in c.behind

(* An earlier provider declined a URL form of a host its hello lists.      *)
BehindListed(c, n) ==
    \E m \in 1..(n - 1) : c.answers[m] = Declined /\ c.chain[m] \in c.behind

StopsAt(c, n) ==
    IF IsToken(c, n) THEN BehindListed(c, n) \/ c.stored
                     ELSE c.answers[n] \notin {Declined, NotFound}

FirstStop(c, n) == StopsAt(c, n) /\ \A m \in 1..(n - 1) : ~StopsAt(c, m)

Stops(c) == \E n \in 1..Len(c.answers) : StopsAt(c, n)

StopResult(c, n) ==
    IF IsToken(c, n)
    THEN IF BehindListed(c, n) THEN "fail" ELSE "stored-credential"
    ELSE IF c.answers[n] = "ok" THEN "ok" ELSE "fail"

(* No entry decided. npm:token ends a global chain that does not list it,  *)
(* where every provider declined a registry on a host no hello lists.      *)
EndResult(c) ==
    IF Said(c, NotFound) \/ c.perRegistry THEN "fail"
    ELSE IF ~Listed(c) /\ \E n \in 1..Len(c.chain) : c.chain[n] \in c.behind THEN "fail"
    ELSE IF c.stored /\ ~Listed(c) THEN "stored-credential"
    ELSE "anonymous"

resolve_chain(c) ==
    IF c.exchanged THEN "oidc"
    ELSE IF c.chain = <<>>
    THEN IF c.stored \/ c.project THEN "stored-credential" ELSE "anonymous"
    ELSE IF Stops(c)
    THEN StopResult(c, CHOOSE n \in 1..Len(c.answers) : FirstStop(c, n))
    ELSE EndResult(c)

(* A login ends at an npm:token entry, which stores a token.               *)
LoginStopsAt(c, n) == IsToken(c, n) \/ c.answers[n] \notin {Declined, NotFound}
LoginStops(c) == \E n \in 1..Len(c.answers) : LoginStopsAt(c, n)

(* Mutant of resolve_login_chain: a not-found is passed like a decline.     *)
resolve_login_chain_after_not_found(c) ==
    IF LoginStops(c)
    THEN LET n == CHOOSE n \in 1..Len(c.answers) :
                      LoginStopsAt(c, n) /\ \A m \in 1..(n - 1) : ~LoginStopsAt(c, m)
         IN IF IsToken(c, n) THEN "npm-login"
            ELSE IF c.answers[n] = "ok" THEN "ok" ELSE "fail"
    ELSE IF ~c.perRegistry /\ ~Listed(c) THEN "npm-login"
    ELSE "fail"

resolve_login_chain(c) ==
    IF LoginStops(c)
    THEN LET n == CHOOSE n \in 1..Len(c.answers) :
                      LoginStopsAt(c, n) /\ \A m \in 1..(n - 1) : ~LoginStopsAt(c, m)
         IN IF IsToken(c, n) THEN "npm-login"
            ELSE IF c.answers[n] = "ok" THEN "ok" ELSE "fail"
    ELSE IF ~c.perRegistry /\ ~Listed(c) /\ ~Said(c, NotFound) THEN "npm-login"
    ELSE "fail"
=============================================================================
