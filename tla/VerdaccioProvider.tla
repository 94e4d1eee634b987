-------------------------- MODULE VerdaccioProvider --------------------------
(***************************************************************************)
(* The Verdaccio provider: a login by password generates a read-only and a *)
(* full token, which are stored and are what is handed out; a process has  *)
(* copies of those it handed out, until an erase, a login or a logout that *)
(* it handles itself. A token the user brings takes the place of both. A   *)
(* login revokes what it replaces before it stores the new account.        *)
(***************************************************************************)
EXTENDS ProviderProcesses

Tiers  == {"read", "full"}
Copies == [Tiers -> Credentials]
NoCopy == [t \in Tiers |-> 0]

(* The account, and whether it is one of a password login (its name).      *)
Account   == [named : BOOLEAN, tokens : Copies]
NoAccount == [named |-> FALSE, tokens |-> NoCopy]
TokensOf(account) == {account.tokens[t] : t \in Tiers} \ {0}

(* Those the provider generated, whose keys it knows.                      *)
Generated(account) == IF account.named THEN TokensOf(account) ELSE {}

(* In a request: the token to be released, the account a login found, the  *)
(* tokens it has generated, and those to revoke.                           *)
Local == [token : Credentials, previous : Account, minted : Copies, left : SUBSET Credentials]
Begun == [token |-> 0, previous |-> store, minted |-> NoCopy, left |-> {}]

TypeOK ==
    /\ ProcessType /\ store \in Account /\ memory \in [Processes -> Copies]
    /\ pc \in [Processes -> {"idle", "retry", "whoami", "confirm", "password", "mint-read", "mint-full",
                             "undo", "replace", "revoke"}]
    /\ \A p \in Processes : pc[p] # "idle" => local[p] \in Local

Init == \E tokens \in {NoCopy, [read |-> 1, full |-> 2]} :
    /\ ProcessInit([named |-> tokens # NoCopy, tokens |-> tokens], NoCopy, {tokens["full"]} \ {0})
    /\ good = {tokens[t] : t \in Tiers} \ {0} /\ issued = tokens["full"]

-----------------------------------------------------------------------------
(* The registry (fake.js): tokens are generated for a login token and the  *)
(* password; a full token deletes one by its key.                          *)

Generates       == Issue /\ good' = good \cup {New}
Deletes(tokens) == good' = good \ tokens /\ UNCHANGED issued

-----------------------------------------------------------------------------

(* tokenOf: the copy, or one of what the store holds.                      *)
TokenOf(p, tier) == IF memory[p][tier] # 0 THEN memory[p][tier] ELSE store.tokens[tier]
Copy(p, tier)    == memory' = [memory EXCEPT ![p][tier] = TokenOf(p, tier)]

(* An answer with a token; one that is about to expire is not released.    *)
Releases(p, r, token, allowed) ==
    \/ Answers(p, r, Gives(p, r, token, allowed))
    \/ Answers(p, r, Failed("other"))

(* The rest of a get, from its tier. With nobody to ask, the full token    *)
(* goes only where the configuration names the account (ciAccount), and    *)
(* the registry says that it is the token's.                               *)
Serve(p, r, tier, values) ==
    LET token == TokenOf(p, tier)
        Continue(step) == Awaits(p, r, step, [values EXCEPT !.token = token]) IN
    \/ token = 0 /\ Answers(p, r, Failed("other"))
    \/ token # 0 /\ tier = "read" /\ Releases(p, r, token, FALSE)
    \/ token # 0 /\ tier = "full" /\ r.interactive /\ Continue("confirm")
    \/ token # 0 /\ tier = "full" /\ ~r.interactive /\ IF ci /\ values.previous.named
       THEN Continue("whoami") ELSE Answers(p, r, Failed("other"))

Get(p, r) ==
    /\ pc[p] = "idle" /\ r.op = "get"
    /\ LET tier == IF r.write THEN "full" ELSE "read" IN
       \/ AtOnce(p, r, Failed("not-served")) /\ UNCHANGED memory
       \/ store = NoAccount /\ UNCHANGED memory
          /\ AtOnce(p, r, Failed(IF r.retry = "no" THEN "not-found" ELSE "other"))
       \/ /\ store # NoAccount /\ Copy(p, tier)
          /\ IF r.retry # "no" /\ TokenOf(p, tier) # 0
             THEN Begin(p, r, "retry", [Begun EXCEPT !.token = TokenOf(p, tier)])
             ELSE Serve(p, r, tier, Begun)
    /\ UNCHANGED <<ci, store, service, history>>

(* The whoami before a retry: the token is dead, or the 401 or 403 was not *)
(* about it, and it does not go again. The account operation, refused with *)
(* 403, moves up to the full token, under its policy.                      *)
RetryChecked(p) ==
    /\ pc[p] = "retry"
    /\ \/ Reply(p, Failed("other")) /\ UNCHANGED memory
       \/ /\ req[p].retry = "403" /\ ~req[p].write /\ local[p].token \in good
          /\ Copy(p, "full") /\ Serve(p, req[p], "full", local[p])
    /\ UNCHANGED <<ci, store, service, history>>

(* The person says yes; or the registry says whose token it is, and that   *)
(* is the account of the configuration.                                    *)
Approved(p) ==
    /\ pc[p] \in {"whoami", "confirm"}
    /\ (pc[p] = "whoami" => local[p].token \in good)
    /\ Releases(p, req[p], local[p].token, pc[p] = "whoami")
    /\ UNCHANGED <<ci, store, service, memory, history>>

(* The copies of the operation's tiers are dropped.                        *)
Erase(p, r) ==
    /\ r.op = "erase" /\ AtOnce(p, r, NoToken)
    /\ \E tiers \in SUBSET Tiers : memory' = [memory EXCEPT ![p] = [t \in Tiers |-> IF t \in tiers THEN 0 ELSE @[t]]]
    /\ UNCHANGED <<ci, store, service, history>>

(* What is handed out was a copy of this account.                          *)
Forget(p, tokens) ==
    /\ memory' = [memory EXCEPT ![p] = NoCopy]
    /\ retired' = [retired EXCEPT ![p] = @ \cup tokens \cup {memory[p][t] : t \in Tiers}]

(* Mutant of Brought: the copies stay.                                     *)
Brought_keeps_copies(p, r) ==
    /\ r.op = "login" /\ r.interactive /\ Issue /\ UNCHANGED good
    /\ store' = [named |-> FALSE, tokens |-> [NoCopy EXCEPT !["full"] = New]]
    /\ retired' = [retired EXCEPT ![p] = @ \cup TokensOf(store)] /\ UNCHANGED memory
    /\ ended' = ended \cup TokensOf(store) /\ reserved' = reserved \cup {New}
    /\ IF Generated(store) = {} THEN AtOnce(p, r, NoToken)
       ELSE Begin(p, r, "revoke", [Begun EXCEPT !.left = Generated(store)])
    /\ UNCHANGED <<ci, lost>>

(* A token the user brings is stored at once, and what it replaces revoked.*)
Brought(p, r) ==
    /\ r.op = "login" /\ r.interactive /\ Issue /\ UNCHANGED good
    /\ store' = [named |-> FALSE, tokens |-> [NoCopy EXCEPT !["full"] = New]]
    /\ Forget(p, TokensOf(store))
    /\ ended' = ended \cup TokensOf(store) /\ reserved' = reserved \cup {New}
    /\ IF Generated(store) = {} THEN AtOnce(p, r, NoToken)
       ELSE Begin(p, r, "revoke", [Begun EXCEPT !.left = Generated(store)])
    /\ UNCHANGED <<ci, lost>>

(* Otherwise the account there is is read, and the person types.           *)
Login(p, r) ==
    /\ r.op = "login"
    /\ \/ AtOnce(p, r, Failed("other"))
       \/ r.interactive /\ Begin(p, r, "password", Begun)
    /\ UNCHANGED <<ci, store, service, memory, history>>

(* The registry takes the password, and a one-time one if it asks.         *)
LoggedIn(p) ==
    /\ pc[p] = "password" /\ GoOn(p, "mint-read", local[p])
    /\ UNCHANGED <<ci, store, service, memory, history>>

MintRead(p) ==
    /\ pc[p] = "mint-read" /\ Generates
    /\ GoOn(p, "mint-full", [local[p] EXCEPT !.minted["read"] = New])
    /\ UNCHANGED <<ci, store, memory, history>>

MintFull(p) ==
    /\ pc[p] = "mint-full" /\ Generates
    /\ GoOn(p, "replace", [local[p] EXCEPT !.minted["full"] = New, !.left = Generated(local[p].previous)])
    /\ reserved' = reserved \cup {New}
    /\ UNCHANGED <<ci, store, memory, retired, ended, lost>>

(* The second token was not generated: the first must not outlive it.      *)
NoSecondToken(p) ==
    /\ pc[p] = "mint-full" /\ GoOn(p, "undo", [local[p] EXCEPT !.left = {local[p].minted["read"]}])
    /\ \/ UNCHANGED <<service, reserved, lost>>
       \/ Generates /\ lost' = lost \cup {New} /\ reserved' = reserved \cup {New}
    /\ UNCHANGED <<ci, store, memory, retired, ended>>

First(tokens) == CHOOSE t \in tokens : \A u \in tokens : t <= u

(* A deletion at the registry, on a best effort: of the next token of a    *)
(* revokeAll (the read-only one is older), or of a failed login's.         *)
Revoke(p) ==
    /\ pc[p] \in {"undo", "replace", "revoke"} /\ local[p].left # {}
    /\ LET t == First(local[p].left) IN
       /\ \/ Deletes({t}) /\ UNCHANGED lost
          \/ lost' = lost \cup {t} /\ UNCHANGED service
       /\ IF pc[p] # "replace" /\ local[p].left = {t}
          THEN Reply(p, IF pc[p] = "undo" THEN Failed("other") ELSE NoToken)
          ELSE GoOn(p, pc[p], [local[p] EXCEPT !.left = @ \ {t}])
    /\ UNCHANGED <<ci, store, memory, reserved, retired, ended>>

(* The account of the login goes over whatever is there by now.            *)
StoreLogin(p) ==
    /\ pc[p] = "replace" /\ local[p].left = {} /\ Reply(p, NoToken)
    /\ store' = [named |-> TRUE, tokens |-> local[p].minted]
    /\ Forget(p, TokensOf(local[p].previous))
    /\ ended' = ended \cup TokensOf(store)
    /\ lost' = lost \cup (TokensOf(store) \ TokensOf(local[p].previous))
    /\ UNCHANGED <<ci, service, reserved>>

(* The entry goes first.                                                   *)
Logout(p, r) ==
    /\ r.op = "logout"
    /\ IF store = NoAccount THEN AtOnce(p, r, Failed("not-found")) /\ UNCHANGED <<store, memory, retired, ended>>
       ELSE /\ IF Generated(store) = {} THEN AtOnce(p, r, NoToken)
               ELSE Begin(p, r, "revoke", [Begun EXCEPT !.left = Generated(store)])
            /\ store' = NoAccount /\ Forget(p, TokensOf(store))
            /\ ended' = ended \cup TokensOf(store)
    /\ UNCHANGED <<ci, service, reserved, lost>>

(* A whoami says no or fails, the person does not say yes or type, or a    *)
(* call of the login fails; or the token does not arrive.                  *)
CallFails(p) ==
    /\ pc[p] \in {"whoami", "confirm", "password", "mint-read"} /\ CallError(p)
    /\ \/ UNCHANGED <<service, lost>>
       \/ pc[p] = "mint-read" /\ Generates /\ lost' = lost \cup {New}
    /\ UNCHANGED <<ci, store, memory, reserved, retired, ended>>

(* What a process has in hand and nothing records.                         *)
InHand(p) ==
    CASE pc[p] = "revoke" -> local[p].left
      [] pc[p] \in {"mint-full", "undo", "replace"} -> {local[p].minted[t] : t \in Tiers}
      [] OTHER -> {}

Stop(p) ==
    /\ Restart(p, NoCopy) /\ lost' = lost \cup InHand(p)
    /\ UNCHANGED <<ci, store, service, reserved, ended>>

Next == \E p \in Processes :
    \/ \E r \in Request : \/ Get(p, r) \/ Erase(p, r) \/ Brought(p, r) \/ Login(p, r) \/ Logout(p, r)
    \/ RetryChecked(p) \/ Approved(p) \/ LoggedIn(p) \/ MintRead(p) \/ MintFull(p) \/ NoSecondToken(p)
    \/ Revoke(p) \/ StoreLogin(p) \/ CallFails(p) \/ Stop(p)

-----------------------------------------------------------------------------

(* A generated token that is good is stored, or in hand, or it is known    *)
(* how it was lost.                                                        *)
NothingForgotten == good \ lost \subseteq TokensOf(store) \cup UNION {InHand(p) : p \in Processes}

(* A token that was removed or replaced never comes back.                  *)
RemovedStaysRemoved == TokensOf(store) \cap ended = {}
=============================================================================
