--------------------------- MODULE GoogleProvider ---------------------------
(***************************************************************************)
(* The Google Artifact Registry provider: the sign-in (a refresh token) is *)
(* in the store; a process holds an access token made of it, and the last  *)
(* reader token it handed out. A writer token is never kept.               *)
(***************************************************************************)
EXTENDS ProviderProcesses

(* What a process holds: the sign-in its access token (userAccess) is of,  *)
(* and the reader token (readTokens). In a request: the sign-in or access  *)
(* token it goes on with, or the sign-in it has to revoke.                 *)
Nothing == [access |-> 0, held |-> 0]

TypeOK ==
    /\ ProcessType /\ store \in Credentials
    /\ memory \in [Processes -> [access : Credentials, held : Credentials]]
    /\ pc \in [Processes -> {"idle", "exchange", "confirm", "refresh", "impersonate", "sign-in", "revoke"}]
    /\ local \in [Processes -> Credentials]

Init == \E signin \in {0, 1} : /\ ProcessInit(signin, Nothing, {})
                               /\ good = {signin} \ {0} /\ issued = 1

-----------------------------------------------------------------------------

Federated(r) == ci /\ ~r.interactive

(* The token kept under the repository serves a read that is no retry, as  *)
(* long as it has not lapsed.                                              *)
Held(p, r) == IF r.write \/ r.retry # "no" THEN 0 ELSE memory[p].held

(* Google (fake.js): what it does with a refresh grant, a code, an         *)
(* impersonation and a revocation it carries out.                          *)
Refreshes(signin)  == signin \in good
ExchangesCode      == Issue /\ good' = good \cup {New}
Impersonates       == Issue /\ UNCHANGED good
Revokes(signin)    == good' = good \ {signin} /\ UNCHANGED issued

(* userToken: the sign-in is read from the store; a forced one, or one     *)
(* whose access token has lapsed, is refreshed.                            *)
UserToken(p, r) ==
    IF store = 0 THEN Answers(p, r, Failed("other"))
    ELSE \/ Awaits(p, r, "refresh", store)
         \/ memory[p].access # 0 /\ r.retry = "no" /\ Awaits(p, r, "impersonate", memory[p].access)

Get(p, r) ==
    /\ pc[p] = "idle" /\ r.op = "get"
    /\ LET Error(what) == AtOnce(p, r, Failed(what)) IN
       \/ \E what \in {"not-served", "other"} : Error(what)
       \/ /\ r.retry # "403"
          /\ \/ Held(p, r) # 0 /\ (Federated(r) \/ store # 0)
                /\ AtOnce(p, r, Gives(p, r, Held(p, r), FALSE))
             \/ Federated(r) /\ Begin(p, r, "exchange", 0)
             \/ ~Federated(r) /\ store = 0 /\ Error(IF r.retry = "no" THEN "not-found" ELSE "other")
             \/ ~Federated(r) /\ store # 0 /\ r.write /\ r.interactive /\ Begin(p, r, "confirm", 0)
             \/ ~Federated(r) /\ store # 0 /\ ~r.write /\ UserToken(p, r)
    /\ UNCHANGED <<ci, store, service, memory, history>>

(* confirmWithin: yes; no, no answer in time, or no terminal.              *)
Confirm(p) ==
    /\ pc[p] = "confirm"
    /\ UserToken(p, req[p]) \/ Reply(p, Failed("other"))
    /\ UNCHANGED <<ci, store, service, memory, history>>

(* Google refreshes a sign-in that is good.                                *)
Refresh(p) ==
    /\ pc[p] = "refresh" /\ Refreshes(local[p])
    /\ memory' = [memory EXCEPT ![p].access = local[p]]
    /\ GoOn(p, "impersonate", local[p])
    /\ UNCHANGED <<ci, store, service, history>>

(* A token for the reader or the writer, of the job's identity (exchange)  *)
(* or by impersonation: only the reader's is kept.                         *)
Mint(p) ==
    /\ pc[p] \in {"exchange", "impersonate"} /\ Impersonates
    /\ memory' = IF req[p].write THEN memory ELSE [memory EXCEPT ![p].held = New]
    /\ reserved' = IF req[p].write THEN reserved \cup {New} ELSE reserved
    /\ Reply(p, Gives(p, req[p], New, pc[p] = "exchange"))
    /\ UNCHANGED <<ci, store, retired, ended, lost>>

Forget(p) == /\ memory' = [memory EXCEPT ![p] = Nothing]
             /\ retired' = [retired EXCEPT ![p] = 1..issued]

Erase(p, r) ==
    /\ r.op = "erase" /\ AtOnce(p, r, NoToken) /\ Forget(p)
    /\ UNCHANGED <<ci, store, service, reserved, ended, lost>>

Login(p, r) ==
    /\ r.op = "login"
    /\ \/ AtOnce(p, r, Failed("other"))
       \/ r.interactive /\ Begin(p, r, "sign-in", 0)
    /\ UNCHANGED <<ci, store, service, memory, history>>

(* Mutant of SignedIn: the sign-in it replaces is left as it is.           *)
SignedIn_drops_replaced(p) ==
    /\ pc[p] = "sign-in" /\ ExchangesCode
    /\ store' = New /\ Forget(p) /\ Reply(p, NoToken)
    /\ UNCHANGED <<ci, reserved, ended, lost>>

(* The code is exchanged. The new sign-in is stored, what was made of the  *)
(* old one is dropped, and the old one is revoked, since nobody could      *)
(* later.                                                                  *)
SignedIn(p) ==
    /\ pc[p] = "sign-in" /\ ExchangesCode
    /\ store' = New /\ Forget(p)
    /\ ended' = ended \cup ({store} \ {0})
    /\ IF store = 0 THEN Reply(p, NoToken) ELSE GoOn(p, "revoke", store)
    /\ UNCHANGED <<ci, reserved, lost>>

(* The entry goes first.                                                   *)
Logout(p, r) ==
    /\ r.op = "logout"
    /\ IF store = 0 THEN AtOnce(p, r, Failed("not-found")) /\ UNCHANGED <<store, memory, retired, ended>>
       ELSE /\ Begin(p, r, "revoke", store) /\ store' = 0 /\ Forget(p)
            /\ ended' = ended \cup {store}
    /\ UNCHANGED <<ci, service, reserved, lost>>

(* On a best effort.                                                       *)
Revoke(p) ==
    /\ pc[p] = "revoke" /\ Reply(p, NoToken)
    /\ \/ Revokes(local[p]) /\ UNCHANGED lost
       \/ lost' = lost \cup {local[p]} /\ UNCHANGED service
    /\ UNCHANGED <<ci, store, memory, reserved, retired, ended>>

(* A call fails or is refused, or nobody completes the sign-in. Google may *)
(* have issued one whose answer did not arrive.                            *)
CallFails(p) ==
    /\ pc[p] \in {"exchange", "refresh", "impersonate", "sign-in"} /\ CallError(p)
    /\ \/ UNCHANGED <<service, lost>>
       \/ pc[p] = "sign-in" /\ ExchangesCode /\ lost' = lost \cup {New}
    /\ UNCHANGED <<ci, store, memory, reserved, retired, ended>>

(* The process is stopped, and another takes its place: what it was about  *)
(* to revoke is recorded nowhere.                                          *)
Stop(p) ==
    /\ Restart(p, Nothing)
    /\ lost' = IF pc[p] = "revoke" THEN lost \cup {local[p]} ELSE lost
    /\ UNCHANGED <<ci, store, service, reserved, ended>>

Next == \E p \in Processes :
    \/ \E r \in Request : Get(p, r) \/ Erase(p, r) \/ Login(p, r) \/ Logout(p, r)
    \/ Confirm(p) \/ Refresh(p) \/ Mint(p) \/ SignedIn(p) \/ Revoke(p) \/ CallFails(p) \/ Stop(p)

-----------------------------------------------------------------------------

(* A sign-in Google accepts is the stored one, or a process has it in hand *)
(* to revoke, or it is known how it was lost.                              *)
NothingForgotten ==
    good \ lost \subseteq {store} \cup {local[p] : p \in {q \in Processes : pc[q] = "revoke"}}

(* A sign-in that was removed or replaced never comes back.                *)
RemovedStaysRemoved == store \notin ended

(* What is stored, Google accepts.                                         *)
StoredIsGood == store \in good \cup {0}
=============================================================================
