--------------------------- MODULE JfrogProvider ---------------------------
(***************************************************************************)
(* The JFrog Artifactory provider: the login is in the store, an identity  *)
(* token or a refresh token. Tokens for an hour are minted of it and kept  *)
(* in memory; a user who may not create tokens has the identity token      *)
(* itself handed out. Any token serves every operation the user may do.    *)
(***************************************************************************)
EXTENDS ProviderProcesses

LoginEntry == [type : {"none", "identity", "refresh"}, token : Credentials]
NoLogin    == [type |-> "none", token |-> 0]

(* held and identityRejected; whether what is held is the identity token.  *)
Memory  == [held : Credentials, identity : BOOLEAN, rejected : BOOLEAN]
Nothing == [held |-> 0, identity |-> FALSE, rejected |-> FALSE]

(* In a request: the login it read, or was given.                          *)
TypeOK ==
    /\ ProcessType /\ store \in LoginEntry /\ memory \in [Processes -> Memory]
    /\ pc \in [Processes -> {"idle", "exchange", "mint", "web-login", "revoke"}]
    /\ \A p \in Processes : pc[p] # "idle" => local[p] \in LoginEntry

Init == \E type \in {"none", "identity", "refresh"} :
    LET entry == IF type = "none" THEN NoLogin ELSE [type |-> type, token |-> 1] IN
    ProcessInit(entry, Nothing, {}) /\ good = {entry.token} \ {0} /\ issued = 1

-----------------------------------------------------------------------------
(* Artifactory (fake.js): tokens are created for a login that is good, and *)
(* a refresh may rotate the refresh token; a token that calls for it       *)
(* revokes itself; a login gives a refresh token or an identity token.     *)

Mints(login) == login.token \in good /\ Issue /\ UNCHANGED good
MintsAndRotates(login) ==
    /\ login.type = "refresh" /\ login.token \in good
    /\ issued + 2 <= MaxIssued /\ issued' = issued + 2
    /\ good' = (good \ {login.token}) \cup {New + 1}
RevokesItself(login) == login.type = "identity" /\ good' = good \ {login.token} /\ UNCHANGED issued
GivesLogin == Issue /\ good' = good \cup {New}

-----------------------------------------------------------------------------

(* A token in memory serves a request that is no retry; one that has not   *)
(* been rejected.                                                          *)
Usable(p, r) == memory[p].held # 0 /\ r.retry = "no"

Get(p, r) ==
    /\ r.op = "get"
    /\ LET Continue(step) == Begin(p, r, step, store)
           Error(what) == AtOnce(p, r, Failed(what)) IN
       \/ Error("not-served") /\ UNCHANGED memory
       \/ r.retry = "403" /\ Error("other") /\ UNCHANGED memory
       \/ r.retry = "401" /\ memory[p].rejected /\ Error("other") /\ UNCHANGED memory
       \/ Usable(p, r) /\ AtOnce(p, r, Gives(p, r, memory[p].held, FALSE)) /\ UNCHANGED memory
       \/ /\ r.retry # "403" /\ ~(r.retry = "401" /\ memory[p].rejected)
          /\ Usable(p, r) => ~memory[p].identity  \* it has lapsed
          /\ memory' = IF r.retry = "no" THEN memory
                       ELSE [memory EXCEPT ![p].held = 0, ![p].identity = FALSE]
          /\ IF ci THEN Continue("exchange")
             ELSE IF store # NoLogin THEN Continue("mint")
             ELSE Error(IF r.retry = "no" THEN "not-found" ELSE "other")
    /\ UNCHANGED <<ci, store, service, history>>

Hand(p, token, isIdentity) ==
    /\ memory' = [memory EXCEPT ![p].held = token, ![p].identity = isIdentity]
    /\ Reply(p, Gives(p, req[p], token, FALSE))

Exchange(p) ==
    /\ pc[p] = "exchange" /\ Issue /\ Hand(p, New, FALSE)
    /\ UNCHANGED <<ci, store, good, history>>

Mint(p) ==
    /\ pc[p] = "mint" /\ Mints(local[p]) /\ Hand(p, New, FALSE)
    /\ UNCHANGED <<ci, store, history>>

(* The rotated refresh token is stored before anything else. It is of the  *)
(* same login: of one that has ended, if a logout or a login came between. *)
MintRotated(p) ==
    /\ pc[p] = "mint" /\ MintsAndRotates(local[p]) /\ Hand(p, New, FALSE)
    /\ store' = [local[p] EXCEPT !.token = New + 1]
    /\ lost' = IF store.token \in {0, local[p].token} THEN lost ELSE lost \cup {store.token}
    /\ ended' = IF local[p].token \in ended THEN ended \cup {New + 1} ELSE ended
    /\ UNCHANGED <<ci, reserved, retired>>

(* The user may create no tokens (403): the identity token is all there    *)
(* is, unless it was the rejected one.                                     *)
HandIdentity(p) ==
    /\ pc[p] = "mint" /\ local[p].type = "identity" /\ local[p].token \in good
    /\ IF memory[p].rejected THEN Reply(p, Failed("other")) /\ UNCHANGED memory
       ELSE Hand(p, local[p].token, TRUE)
    /\ UNCHANGED <<ci, store, service, history>>

Erase(p, r) ==
    /\ r.op = "erase" /\ AtOnce(p, r, NoToken)
    /\ retired' = [retired EXCEPT ![p] = @ \cup {memory[p].held}]
    /\ memory' = [memory EXCEPT ![p] = [Nothing EXCEPT !.rejected = memory[p].identity]]
    /\ UNCHANGED <<ci, store, service, reserved, ended, lost>>

(* A login replaces the one before it, which is not revoked; what is held  *)
(* of it stays, and is handed out until it lapses.                         *)
StoreLogin(p, type) ==
    /\ GivesLogin
    /\ store' = [type |-> type, token |-> New]
    /\ memory' = [memory EXCEPT ![p].rejected = FALSE]
    /\ ended' = ended \cup ({store.token} \ {0}) /\ lost' = lost \cup ({store.token} \ {0})

(* A pasted token is stored; without one the person signs in in a browser. *)
Login(p, r) ==
    /\ r.op = "login"
    /\ \/ AtOnce(p, r, NoToken) /\ StoreLogin(p, "identity")
       \/ /\ \/ AtOnce(p, r, Failed("other"))
             \/ r.interactive /\ Begin(p, r, "web-login", NoLogin)
          /\ UNCHANGED <<store, service, memory, ended, lost>>
    /\ UNCHANGED <<ci, reserved, retired>>

WebLogin(p) ==
    /\ pc[p] = "web-login" /\ Reply(p, NoToken)
    /\ \E type \in {"identity", "refresh"} : StoreLogin(p, type)
    /\ UNCHANGED <<ci, reserved, retired>>

(* The login goes first.                                                   *)
Logout(p, r) ==
    /\ r.op = "logout"
    /\ IF store = NoLogin THEN AtOnce(p, r, Failed("not-found")) /\ UNCHANGED <<store, memory, retired, ended>>
       ELSE /\ Begin(p, r, "revoke", store) /\ store' = NoLogin
            /\ memory' = [memory EXCEPT ![p].held = 0, ![p].identity = FALSE]
            /\ ended' = ended \cup {store.token}
            /\ retired' = [retired EXCEPT ![p] = @ \cup {memory[p].held, store.token}]
    /\ UNCHANGED <<ci, service, reserved, lost>>

(* No call revokes a refresh token: its period ends some time.             *)
Revoke(p) ==
    /\ pc[p] = "revoke" /\ Reply(p, NoToken)
    /\ \/ RevokesItself(local[p]) /\ UNCHANGED lost
       \/ lost' = lost \cup {local[p].token} /\ UNCHANGED service
    /\ UNCHANGED <<ci, store, memory, reserved, retired, ended>>

(* A call fails or is refused; or the answer with the new login, or the    *)
(* rotated token, does not arrive.                                         *)
CallFails(p) ==
    /\ pc[p] \in {"exchange", "mint", "web-login"} /\ CallError(p)
    /\ \/ UNCHANGED <<service, lost>>
       \/ pc[p] = "web-login" /\ GivesLogin /\ lost' = lost \cup {New}
       \/ pc[p] = "mint" /\ MintsAndRotates(local[p]) /\ lost' = lost \cup {New + 1}
    /\ UNCHANGED <<ci, store, memory, reserved, retired, ended>>

Stop(p) ==
    /\ Restart(p, Nothing)
    /\ lost' = IF pc[p] = "revoke" THEN lost \cup {local[p].token} ELSE lost
    /\ UNCHANGED <<ci, store, service, reserved, ended>>

Next == \E p \in Processes :
    \/ \E r \in Request : Get(p, r) \/ Erase(p, r) \/ Login(p, r) \/ Logout(p, r)
    \/ Exchange(p) \/ Mint(p) \/ MintRotated(p) \/ HandIdentity(p) \/ WebLogin(p)
    \/ Revoke(p) \/ CallFails(p) \/ Stop(p)

-----------------------------------------------------------------------------

(* A login that is good is in the store, or about to be revoked, or it is  *)
(* known how it was lost.                                                  *)
NothingForgotten ==
    good \ lost \subseteq {store.token} \cup {local[p].token : p \in {q \in Processes : pc[q] = "revoke"}}

(* What an erase or a logout dropped is not handed out again, but for an   *)
(* identity token once the process does not know it as rejected any more:  *)
(* a second erase forgets it (see RetiredNotGiven).                        *)
DroppedNotGiven == \A p \in Processes :
    answer[p].token \in retired[p] \ {0} => memory[p].identity /\ ~memory[p].rejected

(* A login that was removed or replaced never comes back.                  *)
RemovedStaysRemoved == store.token \notin ended
=============================================================================
