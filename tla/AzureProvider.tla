--------------------------- MODULE AzureProvider ---------------------------
(***************************************************************************)
(* The Azure Artifacts provider: an entry of the store is of one sign-in   *)
(* (signIn), a pasted token (PAT) or a Microsoft Entra login. A login has  *)
(* one session token for reads and most writes, and a handle of every      *)
(* token minted of it, so that they can be revoked; a token to unpublish   *)
(* with is minted for one request. What a get changed in the account it    *)
(* read is written only onto an entry of the same sign-in (persist), the   *)
(* list of handles whole. The Entra access token and the lapse of handles  *)
(* are left out: they only decide whether a call comes before another.     *)
(***************************************************************************)
EXTENDS ProviderProcesses

Account   == [signIn : Credentials, pat : BOOLEAN, session : Credentials, minted : SUBSET Credentials]
NoAccount == [signIn |-> 0, pat |-> FALSE, session |-> 0, minted |-> {}]

(* The Entra token handed out bare, and the one the registry rejected.     *)
Memory  == [bare : Credentials, rejected : Credentials]
Nothing == [bare |-> 0, rejected |-> 0]

(* In a request: the account it read, what it is about, and the handles it *)
(* has yet to revoke.                                                      *)
Kinds == {"job", "pat", "session", "manage", "identity", "paste", "login", "logout"}
Local == [account : Account, kind : Kinds, left : SUBSET Credentials]
Begun(kind) == [account |-> store, kind |-> kind, left |-> {}]

TypeOK ==
    /\ ProcessType /\ store \in Account /\ memory \in [Processes -> Memory]
    /\ pc \in [Processes -> {"idle", "confirm", "mint", "identity", "check", "device", "revoke"}]
    /\ \A p \in Processes : pc[p] # "idle" => local[p] \in Local

Init == \E signin \in {0, 1} :
    ProcessInit([NoAccount EXCEPT !.signIn = signin], Nothing, {}) /\ good = {} /\ issued = 1

-----------------------------------------------------------------------------
(* Azure DevOps and Entra (fake.js): a session token is issued, and one is *)
(* revoked by its handle; Entra issues a login, or the identity's token.   *)

IssuesSession == Issue /\ good' = good \cup {New}
Revokes(t)    == good' = good \ {t} /\ UNCHANGED issued
GrantsLogin   == Issue /\ UNCHANGED good
IdentityToken(p, t) ==
    \/ t = New /\ Issue /\ UNCHANGED good
    \/ t = memory[p].bare /\ t # 0 /\ UNCHANGED service

-----------------------------------------------------------------------------

(* What an account has that is handed out again and again.                 *)
Held(account) == {account.session} \cup (IF account.pat THEN {account.signIn} ELSE {})

(* persist                                                                 *)
SameSignIn(p) == store # NoAccount /\ store.signIn = local[p].account.signIn

(* A request from the stored login: the session token, as long as it has   *)
(* not lapsed, or another; a token of its own to unpublish with.           *)
FromLogin(p, r, values) ==
    \/ /\ values.kind = "session" /\ values.account.session # 0
       /\ Answers(p, r, Gives(p, r, values.account.session, FALSE))
    \/ Awaits(p, r, "mint", values)

Get(p, r) ==
    /\ pc[p] = "idle" /\ r.op = "get"
    /\ \E kind \in IF r.write THEN {"session", "manage"} ELSE {"session"} :
       LET Error(what) == AtOnce(p, r, Failed(what))
           Confirmed(k) == Begin(p, r, "confirm", Begun(k)) IN
       \/ Error("not-served")
       \/ r.retry = "403" /\ Error("other")
       \/ ci /\ r.retry = "401" /\ Error("other")  \* the job's token
       \/ /\ ci /\ r.retry = "no"
          /\ IF r.write /\ r.interactive THEN Confirmed("job") ELSE AtOnce(p, r, Gives(p, r, 0, TRUE))
       \/ /\ ~ci /\ r.retry # "403" /\ store # NoAccount
          /\ IF r.write /\ ~r.interactive THEN Error("other")
             ELSE IF store.pat
             THEN IF r.retry = "401" THEN Error("other")
                  ELSE IF r.write THEN Confirmed("pat") ELSE AtOnce(p, r, Gives(p, r, store.signIn, FALSE))
             ELSE IF r.write THEN Confirmed(kind) ELSE FromLogin(p, r, Begun(kind))
       \/ /\ ~ci /\ r.retry # "403" /\ store = NoAccount
          /\ \/ Error("not-found")  \* no identity of the machine
             \/ Error("other")      \* nor for a person, or for a write
             \/ ~r.interactive /\ Begin(p, r, "identity", Begun("identity"))
    /\ UNCHANGED <<ci, store, service, memory, history>>

(* confirmWrite, and the request goes on with the account it read before.  *)
Confirm(p) ==
    /\ pc[p] = "confirm"
    /\ LET kind == local[p].kind IN
       \/ Reply(p, Failed("other"))
       \/ kind = "job" /\ Reply(p, Gives(p, req[p], 0, FALSE))
       \/ kind = "pat" /\ Reply(p, Gives(p, req[p], local[p].account.signIn, FALSE))
       \/ kind \in {"session", "manage"} /\ FromLogin(p, req[p], local[p])
    /\ UNCHANGED <<ci, store, service, memory, history>>

(* Mutant of Mint: the account is written back as the request read it.     *)
Mint_writes_back(p) ==
    /\ pc[p] = "mint" /\ IssuesSession
    /\ store' = [local[p].account EXCEPT !.minted = @ \cup {New},
                     !.session = IF local[p].kind = "session" THEN New ELSE @]
    /\ lost' = lost \cup (store.minted \ local[p].account.minted)
    /\ reserved' = IF local[p].kind = "manage" THEN reserved \cup {New} ELSE reserved
    /\ Reply(p, Gives(p, req[p], New, FALSE))
    /\ UNCHANGED <<ci, memory, retired, ended>>

(* The handle is kept with those the account had when it was read, if the  *)
(* sign-in is still there; the token goes out in any case.                 *)
Mint(p) ==
    /\ pc[p] = "mint" /\ IssuesSession
    /\ LET minted  == local[p].account.minted \cup {New}
           session == IF local[p].kind = "session" THEN New ELSE store.session IN
       IF SameSignIn(p)
       THEN /\ store' = [store EXCEPT !.minted = minted, !.session = session]
            /\ lost' = lost \cup (store.minted \ minted)
       ELSE lost' = lost \cup {New} /\ UNCHANGED store
    /\ reserved' = IF local[p].kind = "manage" THEN reserved \cup {New} ELSE reserved
    /\ Reply(p, Gives(p, req[p], New, FALSE))
    /\ UNCHANGED <<ci, memory, retired, ended>>

(* The machine's own Entra token, not the same again on a retry.           *)
Identity(p) ==
    /\ pc[p] = "identity"
    /\ \E t \in Credentials :
        /\ IdentityToken(p, t)
        /\ IF Retry(p) /\ t = memory[p].rejected THEN Reply(p, Failed("other")) /\ UNCHANGED memory
           ELSE Reply(p, Gives(p, req[p], t, TRUE)) /\ memory' = [memory EXCEPT ![p].bare = t]
    /\ UNCHANGED <<ci, store, history>>

(* The session token goes from the store; not for a package's credential.  *)
(* A pasted token stays; the machine's own is only not handed to a retry.  *)
Erase(p, r) ==
    /\ r.op = "erase" /\ AtOnce(p, r, NoToken)
    /\ memory' = IF memory[p].bare = 0 THEN memory ELSE [memory EXCEPT ![p].rejected = memory[p].bare]
    /\ \/ UNCHANGED <<store, retired>>
       \/ /\ store' = [store EXCEPT !.session = 0]
          /\ retired' = [retired EXCEPT ![p] = @ \cup {store.session}]
    /\ UNCHANGED <<ci, service, reserved, ended, lost>>

(* A pasted token is checked; without one the person signs in by device.   *)
Login(p, r) ==
    /\ r.op = "login"
    /\ \/ AtOnce(p, r, Failed("other"))
       \/ Begin(p, r, "check", Begun("paste"))
       \/ r.interactive /\ Begin(p, r, "device", Begun("login"))
    /\ UNCHANGED <<ci, store, service, memory, history>>

(* The new entry goes over whatever is there by now: the handles it did    *)
(* not have when the login read it are forgotten.                          *)
StoreSignIn(p, account) ==
    /\ GrantsLogin
    /\ store' = [NoAccount EXCEPT !.signIn = New, !.pat = (local[p].kind = "paste")]
    /\ ended' = ended \cup ({store.signIn} \ {0})
    /\ retired' = [retired EXCEPT ![p] = @ \cup Held(store)]
    /\ lost' = lost \cup (store.minted \ account.minted)
    /\ Reply(p, NoToken)

(* The sign-in is good, and read what it replaces: what that minted is     *)
(* revoked first.                                                          *)
SignedIn(p) ==
    /\ pc[p] \in {"check", "device"}
    /\ IF store.minted = {} THEN StoreSignIn(p, store)
       ELSE /\ GoOn(p, "revoke", [Begun(local[p].kind) EXCEPT !.left = store.minted])
            /\ UNCHANGED <<store, service, retired, ended, lost>>
    /\ UNCHANGED <<ci, memory, reserved>>

(* The entry goes first.                                                   *)
Logout(p, r) ==
    /\ r.op = "logout"
    /\ IF store = NoAccount THEN AtOnce(p, r, Failed("not-found"))
       ELSE IF store.minted = {} THEN AtOnce(p, r, NoToken)
       ELSE Begin(p, r, "revoke", [account |-> NoAccount, kind |-> "logout", left |-> store.minted])
    /\ store' = NoAccount /\ ended' = ended \cup ({store.signIn} \ {0})
    /\ retired' = [retired EXCEPT ![p] = @ \cup Held(store)]
    /\ UNCHANGED <<ci, service, memory, reserved, lost>>

First(tokens) == CHOOSE t \in tokens : \A u \in tokens : t <= u

(* revokeMinted: each in its turn, on a best effort. After the last a      *)
(* logout is done, and a login stores its entry.                           *)
Revoke(p) ==
    /\ pc[p] = "revoke" /\ local[p].left # {}
    /\ LET t == First(local[p].left) IN
       /\ \/ Revokes(t) /\ UNCHANGED lost
          \/ lost' = lost \cup {t} /\ UNCHANGED service
       /\ IF local[p].left = {t} /\ local[p].kind = "logout" THEN Reply(p, NoToken)
          ELSE GoOn(p, "revoke", [local[p] EXCEPT !.left = @ \ {t}])
    /\ UNCHANGED <<ci, store, memory, reserved, retired, ended>>

Replace(p) ==
    /\ pc[p] = "revoke" /\ local[p].left = {}
    /\ StoreSignIn(p, local[p].account)
    /\ UNCHANGED <<ci, memory, reserved>>

(* A call fails or is refused; the answer with a new token may be lost.    *)
CallFails(p) ==
    /\ pc[p] \in {"mint", "identity", "check", "device"} /\ CallError(p)
    /\ \/ UNCHANGED <<service, lost>>
       \/ pc[p] = "mint" /\ IssuesSession /\ lost' = lost \cup {New}
    /\ UNCHANGED <<ci, store, memory, reserved, retired, ended>>

(* A logout that is stopped has the only handles; a login has not.         *)
Stop(p) ==
    /\ Restart(p, Nothing)
    /\ lost' = IF pc[p] = "revoke" /\ local[p].kind = "logout" THEN lost \cup local[p].left ELSE lost
    /\ UNCHANGED <<ci, store, service, reserved, ended>>

Next == \E p \in Processes :
    \/ \E r \in Request : Get(p, r) \/ Erase(p, r) \/ Login(p, r) \/ Logout(p, r)
    \/ Confirm(p) \/ Mint(p) \/ Identity(p) \/ SignedIn(p) \/ Revoke(p) \/ Replace(p)
    \/ CallFails(p) \/ Stop(p)

-----------------------------------------------------------------------------

(* A session token that is good has its handle in the store, or in the     *)
(* hand of a logout that is to revoke it, or it is known how it was lost.  *)
NothingForgotten ==
    good \ lost \subseteq store.minted \cup
        UNION {local[p].left : p \in {q \in Processes : pc[q] = "revoke" /\ local[q].kind = "logout"}}

(* A sign-in that was removed or replaced never comes back.                *)
RemovedStaysRemoved == store.signIn \notin ended

(* A session token that was dropped is not stored again.                   *)
ErasedNotStored == \A p \in Processes : store.session \notin retired[p] \ {0}
=============================================================================
