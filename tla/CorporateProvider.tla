------------------------- MODULE CorporateProvider -------------------------
(***************************************************************************)
(* The corporate SSO provider: the session of the identity provider is in  *)
(* the store, a refresh token with the access token last made of it; the   *)
(* gateway mints a token for each get. A refresh writes the session back   *)
(* as it was read before the call. An identity provider that rotates the   *)
(* refresh token is left out (GitLabProvider has that case).               *)
(***************************************************************************)
EXTENDS ProviderProcesses

(* recent: the person confirmed at the identity provider (interactiveAt).  *)
(* Whether that is less than five minutes ago is a choice of each look.    *)
Session   == [refresh : Credentials, access : Credentials, recent : BOOLEAN]
NoSession == [refresh |-> 0, access |-> 0, recent |-> FALSE]

(* In a request: the session it read, the access token it goes on with,    *)
(* and whether the one renewal after a 401 has been used.                  *)
Local == [session : Session, access : Credentials, renewed : BOOLEAN]
Begun == [session |-> NoSession, access |-> 0, renewed |-> FALSE]

TypeOK ==
    /\ ProcessType /\ store \in Session
    /\ memory \in [Processes -> Credentials]  \* identityGrant
    /\ pc \in [Processes -> {"idle", "grant", "device", "refresh", "userinfo", "confirm", "mint", "revoke"}]
    /\ \A p \in Processes : pc[p] # "idle" => local[p] \in Local

(* A session is found as an erase has left it.                             *)
Init == \E refresh \in {0, 1}, recent \in BOOLEAN :
    /\ recent => refresh # 0
    /\ ProcessInit([NoSession EXCEPT !.refresh = refresh, !.recent = recent], 0, {})
    /\ good = {refresh} \ {0} /\ issued = 1

-----------------------------------------------------------------------------
(* The identity provider (fake.js).                                        *)

Refreshes(refresh) == refresh \in good /\ Issue
ApprovesDevice     == issued + 2 <= MaxIssued /\ issued' = issued + 2 /\ good' = good \cup {New}
Revokes(refresh)   == good' = good \ {refresh} /\ UNCHANGED issued

-----------------------------------------------------------------------------

(* After sessionAccess: a 403 has the groups looked at, a write has the    *)
(* person asked, a read is minted for.                                     *)
WithAccess(r, rejected) == IF rejected THEN "userinfo" ELSE IF r.write THEN "confirm" ELSE "mint"

(* sessionAccess: the access token kept, if it has time left, or a         *)
(* refresh. A session that is gone by now is a failure.                    *)
SessionAccess(p, r) ==
    IF store = NoSession THEN Answers(p, r, Failed("other"))
    ELSE \/ r.retry # "403" /\ store.access # 0
            /\ Awaits(p, r, WithAccess(r, r.retry = "403"), [Begun EXCEPT !.access = store.access])
         \/ Awaits(p, r, "refresh", [Begun EXCEPT !.session = store])

Get(p, r) ==
    /\ pc[p] = "idle" /\ r.op = "get"
    /\ LET Error(what) == AtOnce(p, r, Failed(what)) IN
       \/ \E what \in {"not-served", "other"} : Error(what)
       \/ ci /\ memory[p] = 0 /\ Begin(p, r, "grant", Begun)
       \/ ci /\ memory[p] # 0 /\ Begin(p, r, "mint", [Begun EXCEPT !.access = memory[p]])
       \/ ~ci /\ store = NoSession /\ Error("not-found")
       \/ ~ci /\ store # NoSession /\ r.write /\ r.interactive /\ Begin(p, r, "device", Begun)
       \/ /\ ~ci /\ store # NoSession /\ (r.write => r.interactive /\ store.recent)
          /\ SessionAccess(p, r)
    /\ UNCHANGED <<ci, store, service, memory, history>>

(* The token of the job's service identity, which may lack the publisher's *)
(* role.                                                                   *)
Grant(p) ==
    /\ pc[p] = "grant" /\ Issue
    /\ memory' = [memory EXCEPT ![p] = New]
    /\ \/ GoOn(p, "mint", [local[p] EXCEPT !.access = New])
       \/ req[p].write /\ ~local[p].renewed /\ Reply(p, Failed("other"))
    /\ UNCHANGED <<ci, store, good, history>>

(* saveSession puts the session over whatever the store holds by now.      *)
SaveSession(session) ==
    /\ store' = session
    /\ ended' = IF store.refresh \in {0, session.refresh} THEN ended ELSE ended \cup {store.refresh}
    /\ lost' = IF store.refresh \in {0, session.refresh} THEN lost ELSE lost \cup {store.refresh}

(* Mutant of Refresh: a renewed session is minted for at once.             *)
Refresh_mints_at_once(p) ==
    /\ pc[p] = "refresh" /\ Refreshes(local[p].session.refresh)
    /\ SaveSession([local[p].session EXCEPT !.access = New])
    /\ GoOn(p, "mint", [local[p] EXCEPT !.access = New])
    /\ UNCHANGED <<ci, good, memory, reserved, retired>>

Refresh(p) ==
    /\ pc[p] = "refresh" /\ Refreshes(local[p].session.refresh)
    /\ SaveSession([local[p].session EXCEPT !.access = New])
    /\ GoOn(p, IF local[p].renewed THEN "mint" ELSE WithAccess(req[p], req[p].retry = "403"),
            [local[p] EXCEPT !.access = New])
    /\ UNCHANGED <<ci, good, memory, reserved, retired>>

(* A dead login is answered, or has a person at a write sign in again,     *)
(* unless they have already been asked.                                    *)
DeadLogin(p) ==
    /\ pc[p] = "refresh" /\ local[p].session.refresh \notin good
    /\ IF req[p].write /\ req[p].interactive /\ ~local[p].renewed
       THEN GoOn(p, "device", local[p])
       ELSE Reply(p, Failed("other"))
    /\ UNCHANGED <<ci, store, service, memory, history>>

(* signIn: the device grant is approved, and the session stored. After a   *)
(* step-up the access token is taken as for any get; after a dead login    *)
(* the new one is at hand. The session before is not revoked.              *)
Approved(p) ==
    /\ pc[p] = "device" /\ ApprovesDevice
    /\ SaveSession([refresh |-> New, access |-> New + 1, recent |-> TRUE])
    /\ LET session == [refresh |-> New, access |-> New + 1, recent |-> TRUE]
           stepUp  == local[p].session = NoSession IN
       IF req[p].op = "login" THEN Reply(p, NoToken)
       ELSE IF stepUp /\ req[p].retry = "403" THEN GoOn(p, "refresh", [Begun EXCEPT !.session = session])
       ELSE GoOn(p, WithAccess(req[p], req[p].retry = "403"), [Begun EXCEPT !.access = New + 1])
    /\ UNCHANGED <<ci, memory, reserved, retired>>

(* The groups are those of the refused token and the refusal stands, or    *)
(* another token is worth minting.                                         *)
Userinfo(p) ==
    /\ pc[p] = "userinfo"
    /\ \/ Reply(p, Failed("other"))
       \/ GoOn(p, WithAccess(req[p], FALSE), local[p])
    /\ UNCHANGED <<ci, store, service, memory, history>>

Confirm(p) ==
    /\ pc[p] = "confirm" /\ (Reply(p, Failed("other")) \/ GoOn(p, "mint", local[p]))
    /\ UNCHANGED <<ci, store, service, memory, history>>

Mint(p) ==
    /\ pc[p] = "mint" /\ Issue
    /\ reserved' = IF req[p].write THEN reserved \cup {New} ELSE reserved
    /\ Reply(p, Gives(p, req[p], New, ci))
    /\ UNCHANGED <<ci, store, good, memory, retired, ended, lost>>

(* The gateway answers 401: one renewal, and no sign-in.                   *)
Renew(p) ==
    /\ pc[p] = "mint" /\ ~local[p].renewed
    /\ LET renewed == [local[p] EXCEPT !.renewed = TRUE, !.session = store] IN
       IF ci THEN GoOn(p, "grant", renewed)
       ELSE IF store = NoSession THEN Reply(p, Failed("other"))
       ELSE GoOn(p, "refresh", renewed)
    /\ UNCHANGED <<ci, store, service, memory, history>>

(* The access token goes, the refresh token stays.                         *)
Erase(p, r) ==
    /\ r.op = "erase" /\ AtOnce(p, r, NoToken)
    /\ store' = [store EXCEPT !.access = 0]
    /\ UNCHANGED <<ci, service, memory, history>>

Login(p, r) ==
    /\ r.op = "login"
    /\ \/ AtOnce(p, r, Failed("other"))
       \/ r.interactive /\ Begin(p, r, "device", Begun)
    /\ UNCHANGED <<ci, store, service, memory, history>>

(* The entry goes first.                                                   *)
Logout(p, r) ==
    /\ r.op = "logout"
    /\ IF store = NoSession THEN AtOnce(p, r, Failed("not-found")) /\ UNCHANGED <<store, ended>>
       ELSE /\ Begin(p, r, "revoke", [Begun EXCEPT !.session = store])
            /\ store' = NoSession /\ ended' = ended \cup {store.refresh}
    /\ UNCHANGED <<ci, service, memory, reserved, retired, lost>>

Revoke(p) ==
    /\ pc[p] = "revoke" /\ Reply(p, NoToken)
    /\ \/ Revokes(local[p].session.refresh) /\ UNCHANGED lost
       \/ lost' = lost \cup {local[p].session.refresh} /\ UNCHANGED service
    /\ UNCHANGED <<ci, store, memory, reserved, retired, ended>>

(* A call fails, its deadline passes, a sign-in is denied or not completed *)
(* in time; or it was approved and the answer did not arrive.              *)
CallFails(p) ==
    /\ pc[p] \in {"grant", "device", "refresh", "userinfo", "mint"} /\ CallError(p)
    /\ \/ UNCHANGED <<service, lost>>
       \/ pc[p] = "device" /\ ApprovesDevice /\ lost' = lost \cup {New}
    /\ UNCHANGED <<ci, store, memory, reserved, retired, ended>>

Stop(p) ==
    /\ Restart(p, 0)
    /\ lost' = IF pc[p] = "revoke" THEN lost \cup {local[p].session.refresh} ELSE lost
    /\ UNCHANGED <<ci, store, service, reserved, ended>>

Next == \E p \in Processes :
    \/ \E r \in Request : Get(p, r) \/ Erase(p, r) \/ Login(p, r) \/ Logout(p, r)
    \/ Grant(p) \/ Refresh(p) \/ DeadLogin(p) \/ Approved(p) \/ Userinfo(p) \/ Confirm(p)
    \/ Mint(p) \/ Renew(p) \/ Revoke(p) \/ CallFails(p) \/ Stop(p)

-----------------------------------------------------------------------------

(* A refresh token that is good is in the store, or about to be revoked,   *)
(* or a login or a refresh has been written over it.                       *)
NothingForgotten ==
    good \ lost \subseteq {store.refresh}
        \cup {local[p].session.refresh : p \in {q \in Processes : pc[q] = "revoke"}}

(* A session that was removed or replaced never comes back.                *)
RemovedStaysRemoved == store.refresh \notin ended
=============================================================================
