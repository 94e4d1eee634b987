--------------------------- MODULE GithubProvider ---------------------------
(***************************************************************************)
(* The GitHub Packages provider: a token for each tier is in the store,    *)
(* and is itself what is handed out. One token may serve several tiers, by *)
(* its scopes; one that no tier keeps any more is revoked. The provider    *)
(* holds nothing in memory. One account is modelled.                       *)
(***************************************************************************)
EXTENDS ProviderProcesses

Tiers     == {"read", "write", "delete"}
NoAccount == [t \in Tiers |-> 0]

TokensOf(account) == {account[t] : t \in Tiers} \ {0}

(* In a request: its tier, the token it has, and the tokens to revoke.     *)
Local == [tier : Tiers, token : Credentials, left : SUBSET Credentials]
Begun(tier, token) == [tier |-> tier, token |-> token, left |-> {}]

TypeOK ==
    /\ ProcessType /\ store \in [Tiers -> Credentials] /\ memory \in [Processes -> {0}]
    /\ pc \in [Processes -> {"idle", "check", "confirm", "device", "user", "revoke"}]
    /\ \A p \in Processes : pc[p] # "idle" => local[p] \in Local

Init == \E token \in {0, 1} :
    ProcessInit([NoAccount EXCEPT !["read"] = token], 0, {}) /\ good = {token} \ {0} /\ issued = 1

-----------------------------------------------------------------------------
(* GitHub (fake.js): a token is issued to an approved device; tokens are   *)
(* revoked, all in one call.                                               *)

Issues          == Issue /\ good' = good \cup {New}
Revokes(tokens) == good' = good \ tokens /\ UNCHANGED issued

-----------------------------------------------------------------------------

Get(p, r) ==
    /\ r.op = "get"
    /\ \E tier \in IF r.write THEN {"write", "delete"} ELSE {"read"} :
       LET held == store[tier]
           Error(what) == AtOnce(p, r, Failed(what))
           Continue(step) == Begin(p, r, step, Begun(tier, held)) IN
       \/ Error("not-served")
       \/ /\ ci /\ ~r.interactive /\ tier # "delete"  \* the job's token, for its owner's packages
          /\ IF r.retry # "no" THEN Error("other") ELSE AtOnce(p, r, Gives(p, r, 0, TRUE))
       \/ /\ held = 0 /\ (tier # "write" \/ ~r.interactive \/ r.retry # "no")
          /\ Error(IF r.retry = "no" THEN "not-found" ELSE "other")
       \/ held # 0 /\ r.retry = "403" /\ Error("other")
       \/ held # 0 /\ r.retry = "401" /\ Continue("check")
       \/ held # 0 /\ r.retry = "no" /\ tier = "read" /\ AtOnce(p, r, Gives(p, r, held, FALSE))
       \/ held # 0 /\ r.retry = "no" /\ tier # "read" /\ ~r.interactive /\ Error("other")
       \/ r.retry = "no" /\ r.interactive /\ ((held # 0 /\ tier = "delete") \/ tier = "write") /\ Continue("confirm")
    /\ UNCHANGED <<ci, store, service, memory, history>>

(* Whatever GitHub says of the token, no other is handed out.              *)
Check(p) ==
    /\ pc[p] = "check" /\ Reply(p, Failed("other"))
    /\ UNCHANGED <<ci, store, service, memory, history>>

(* The token there was before the question, or one obtained now.           *)
Confirm(p) ==
    /\ pc[p] = "confirm"
    /\ \/ Reply(p, Failed("other"))
       \/ local[p].token # 0 /\ Reply(p, Gives(p, req[p], local[p].token, FALSE))
       \/ local[p].token = 0 /\ GoOn(p, "device", local[p])
    /\ UNCHANGED <<ci, store, service, memory, history>>

(* A handler goes on to revoke what a token has replaced, and then hands   *)
(* the token out, if it is a get.                                          *)
Finish(p, token, left) ==
    IF left # {} THEN GoOn(p, "revoke", [local[p] EXCEPT !.token = token, !.left = left])
    ELSE Reply(p, IF req[p].op = "get" THEN Gives(p, req[p], token, FALSE) ELSE NoToken)

(* Mutant of Keep: it revokes what stood under the tiers of the new token, *)
(* and serves another still.                                               *)
Keep_revokes_shared(p, token, scopes) ==
    LET account  == [t \in Tiers |-> IF t \in scopes THEN token ELSE store[t]]
        replaced == {store[t] : t \in scopes} \ {0} IN
    /\ store' = account /\ ended' = ended \cup (TokensOf(store) \ TokensOf(account))
    /\ retired' = [retired EXCEPT ![p] = @ \cup replaced]
    /\ Finish(p, token, replaced)

(* keep: the token goes under every tier its scopes cover; what no tier    *)
(* holds any more is revoked.                                              *)
Keep(p, token, scopes) ==
    LET account  == [t \in Tiers |-> IF t \in scopes THEN token ELSE store[t]]
        replaced == TokensOf(store) \ TokensOf(account) IN
    /\ store' = account /\ ended' = ended \cup replaced
    /\ retired' = [retired EXCEPT ![p] = @ \cup replaced]
    /\ Finish(p, token, replaced)

(* The device is approved, for the scope asked or others: a token of none  *)
(* of the tiers is kept nowhere.                                           *)
Approved(p) ==
    /\ pc[p] = "device" /\ Issues
    /\ \E scopes \in SUBSET Tiers :
        /\ Keep(p, New, scopes)
        /\ reserved' = IF "read" \in scopes THEN reserved ELSE reserved \cup {New}
        /\ lost' = IF scopes = {} THEN lost \cup {New} ELSE lost
    /\ UNCHANGED <<ci, memory>>

(* A token the user has is stored, if it reads.                            *)
Pasted(p) ==
    /\ pc[p] = "user" /\ Issues
    /\ \E scopes \in SUBSET Tiers : "read" \in scopes /\ Keep(p, New, scopes)
    /\ UNCHANGED <<ci, memory, reserved, lost>>

(* The stored token is the credential: an erase keeps it.                  *)
Erase(p, r) ==
    /\ r.op = "erase" /\ AtOnce(p, r, NoToken)
    /\ UNCHANGED <<ci, store, service, memory, history>>

Login(p, r) ==
    /\ r.op = "login"
    /\ \/ AtOnce(p, r, Failed("other"))
       \/ Begin(p, r, "user", Begun("read", 0))
       \/ r.interactive /\ Begin(p, r, "device", Begun("read", 0))
    /\ UNCHANGED <<ci, store, service, memory, history>>

(* The entry goes first.                                                   *)
Logout(p, r) ==
    /\ r.op = "logout"
    /\ IF store = NoAccount THEN AtOnce(p, r, Failed("not-found")) /\ UNCHANGED retired
       ELSE /\ Begin(p, r, "revoke", [Begun("read", 0) EXCEPT !.left = TokensOf(store)])
            /\ retired' = [retired EXCEPT ![p] = @ \cup TokensOf(store)]
    /\ store' = NoAccount /\ ended' = ended \cup TokensOf(store)
    /\ UNCHANGED <<ci, service, memory, reserved, lost>>

(* One call for all of them, on a best effort.                             *)
Revoke(p) ==
    /\ pc[p] = "revoke" /\ Finish(p, local[p].token, {})
    /\ \/ Revokes(local[p].left) /\ UNCHANGED lost
       \/ lost' = lost \cup local[p].left /\ UNCHANGED service
    /\ UNCHANGED <<ci, store, memory, reserved, retired, ended>>

(* A call fails, or nobody approves; or the new token does not arrive.     *)
CallFails(p) ==
    /\ pc[p] \in {"device", "user"} /\ CallError(p)
    /\ \/ UNCHANGED <<service, lost>>
       \/ pc[p] = "device" /\ Issues /\ lost' = lost \cup {New}
    /\ UNCHANGED <<ci, store, memory, reserved, retired, ended>>

Stop(p) ==
    /\ Restart(p, 0)
    /\ lost' = IF pc[p] = "revoke" THEN lost \cup local[p].left ELSE lost
    /\ UNCHANGED <<ci, store, service, reserved, ended>>

Next == \E p \in Processes :
    \/ \E r \in Request : Get(p, r) \/ Erase(p, r) \/ Login(p, r) \/ Logout(p, r)
    \/ Check(p) \/ Confirm(p) \/ Approved(p) \/ Pasted(p) \/ Revoke(p) \/ CallFails(p) \/ Stop(p)

-----------------------------------------------------------------------------

(* A token the provider obtained, or was given, is stored, or about to be  *)
(* revoked, or it is known how it was lost.                                *)
NothingForgotten ==
    good \ lost \subseteq TokensOf(store) \cup UNION {local[p].left : p \in {q \in Processes : pc[q] = "revoke"}}

(* A token that was removed or replaced never comes back.                  *)
RemovedStaysRemoved == TokensOf(store) \cap ended = {}

(* What the provider has had revoked it does not store.                    *)
StoredIsGood == TokensOf(store) \subseteq good
=============================================================================
