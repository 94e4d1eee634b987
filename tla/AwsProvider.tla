----------------------------- MODULE AwsProvider -----------------------------
(***************************************************************************)
(* The AWS CodeArtifact provider: the sign-in of the profile is in the     *)
(* store (the AWS CLI's cache); a process holds role credentials made of   *)
(* one, and the read token it minted last. A write token is minted of a    *)
(* publish role, and never kept. A sign-in lapses at any time, which the   *)
(* portal or STS says. A login that fails puts back the sign-in it found.  *)
(***************************************************************************)
EXTENDS ProviderProcesses

(* The sign-in the role credentials are of, and the read token.            *)
Memory  == [credentials : Credentials, held : Credentials]
Nothing == [credentials |-> 0, held |-> 0]

(* In a request: the sign-in it found in the store, the one it shows the   *)
(* portal, and whether it has made one itself.                             *)
Local == [previous : Credentials, shown : Credentials, renewed : BOOLEAN]
Begun == [previous |-> store, shown |-> store, renewed |-> FALSE]

TypeOK ==
    /\ ProcessType /\ store \in Credentials /\ memory \in [Processes -> Memory]
    /\ pc \in [Processes -> {"idle", "confirm", "ambient", "portal", "caller", "device", "mfa", "assume", "mint"}]
    /\ \A p \in Processes : pc[p] # "idle" => local[p] \in Local

Init == \E signin \in {0, 1} : ProcessInit(signin, Nothing, {}) /\ good = {} /\ issued = 1

-----------------------------------------------------------------------------
(* AWS (fake.js): IAM Identity Center issues a sign-in to an approved      *)
(* device; a token for CodeArtifact is minted for a caller; the portal,    *)
(* STS and the assumption of a role say yes to whom is signed in.          *)

SignsIn == Issue /\ UNCHANGED good
Mints   == Issue /\ UNCHANGED good

-----------------------------------------------------------------------------

(* hasIdentity, and where a write with nobody to ask is allowed            *)
(* (ciPublisher).                                                          *)
HasIdentity     == ci \/ store # 0
MayWrite(r)     == r.interactive \/ ci

(* With the key, a read is minted for; a write has the code asked, if      *)
(* there is a person.                                                      *)
WithKey(r) == IF ~r.write THEN "mint" ELSE IF r.interactive THEN "mfa" ELSE "assume"

(* identityKey: the ambient role, or the role credentials of the sign-in.  *)
(* With no sign-in left by now the request fails.                          *)
Identity(p, r) ==
    IF ci THEN Awaits(p, r, "ambient", Begun)
    ELSE \/ memory[p].credentials # 0 /\ Awaits(p, r, WithKey(r), Begun)
         \/ IF store = 0 THEN Answers(p, r, Failed("other")) ELSE Awaits(p, r, "portal", Begun)

Held(p, r) == IF r.retry = "no" THEN memory[p].held ELSE 0

Get(p, r) ==
    /\ pc[p] = "idle" /\ r.op = "get"
    /\ LET Error(what) == AtOnce(p, r, Failed(what)) /\ UNCHANGED memory IN
       \/ \E what \in {"not-served", "other"} : Error(what)
       \/ /\ r.retry # "403"
          /\ \/ ~HasIdentity /\ Error("not-found")
             \/ HasIdentity /\ r.write /\ MayWrite(r) /\ UNCHANGED memory
                /\ IF r.interactive THEN Begin(p, r, "confirm", Begun)
                   ELSE Identity(p, r)
             \/ HasIdentity /\ ~r.write /\ Held(p, r) # 0 /\ UNCHANGED memory
                /\ AtOnce(p, r, Gives(p, r, Held(p, r), FALSE))
             \/ HasIdentity /\ ~r.write /\ memory' = [memory EXCEPT ![p].held = Held(p, r)]
                /\ Identity(p, r)
    /\ UNCHANGED <<ci, store, service, history>>

Confirm(p) ==
    /\ pc[p] = "confirm"
    /\ Reply(p, Failed("other")) \/ Identity(p, req[p])
    /\ UNCHANGED <<ci, store, service, memory, history>>

(* The portal gives role credentials of the sign-in it was shown.          *)
Portal(p) ==
    /\ pc[p] = "portal"
    /\ memory' = [memory EXCEPT ![p].credentials = local[p].shown]
    /\ GoOn(p, "caller", local[p])
    /\ UNCHANGED <<ci, store, service, history>>

(* STS takes them, or those of the ambient role: a login is done.          *)
CallerOk(p) ==
    /\ pc[p] \in {"caller", "ambient"}
    /\ IF req[p].op = "login" THEN Reply(p, NoToken) ELSE GoOn(p, WithKey(req[p]), local[p])
    /\ UNCHANGED <<ci, store, service, memory, history>>

(* restoreSsoCache                                                         *)
Restore(p, previous) ==
    /\ store' = previous /\ memory' = [memory EXCEPT ![p].credentials = 0]
    /\ ended' = IF store = previous THEN ended ELSE ended \cup ({store} \ {0})

(* The portal or STS refuses: a write with a person signs in, once, a      *)
(* login puts back what it found.                                          *)
Lapsed(p) ==
    /\ pc[p] \in {"portal", "caller"}
    /\ IF req[p].op = "login" THEN Reply(p, Failed("other")) /\ Restore(p, local[p].previous)
       ELSE /\ memory' = [memory EXCEPT ![p].credentials = 0] /\ UNCHANGED <<store, ended>>
            /\ IF req[p].write /\ req[p].interactive /\ ~local[p].renewed
               THEN GoOn(p, "device", local[p]) ELSE Reply(p, Failed("other"))
    /\ UNCHANGED <<ci, service, reserved, retired, lost>>

(* ssoLogin: the device is approved, and the sign-in stored. The read      *)
(* token of the one before is still held, and handed out until it lapses.  *)
SignedIn(p) ==
    /\ pc[p] = "device" /\ SignsIn
    /\ Restore(p, New)
    /\ GoOn(p, "portal", [local[p] EXCEPT !.shown = New, !.renewed = TRUE])
    /\ UNCHANGED <<ci, reserved, retired, lost>>

(* The code is typed in time; the publish role is assumed with it.         *)
Mfa(p) ==
    /\ pc[p] = "mfa" /\ GoOn(p, "assume", local[p])
    /\ UNCHANGED <<ci, store, service, memory, history>>

Assume(p) ==
    /\ pc[p] = "assume" /\ GoOn(p, "mint", local[p])
    /\ UNCHANGED <<ci, store, service, memory, history>>

(* authorizationToken; one that is throttled is asked for again. A read    *)
(* token is kept.                                                          *)
Mint(p) ==
    /\ pc[p] = "mint" /\ Mints
    /\ memory' = IF req[p].write THEN memory ELSE [memory EXCEPT ![p].held = New]
    /\ reserved' = IF req[p].write THEN reserved \cup {New} ELSE reserved
    /\ Reply(p, Gives(p, req[p], New, ci /\ ~req[p].interactive))
    /\ UNCHANGED <<ci, store, retired, ended, lost>>

Erase(p, r) ==
    /\ r.op = "erase" /\ AtOnce(p, r, NoToken)
    /\ memory' = [memory EXCEPT ![p].held = 0]
    /\ retired' = [retired EXCEPT ![p] = @ \cup {memory[p].held}]
    /\ UNCHANGED <<ci, store, service, reserved, ended, lost>>

Login(p, r) ==
    /\ r.op = "login"
    /\ \/ \E what \in {"other", "not-served"} : AtOnce(p, r, Failed(what))
       \/ r.interactive /\ Begin(p, r, "device", [Begun EXCEPT !.renewed = TRUE])
    /\ UNCHANGED <<ci, store, service, memory, history>>

(* The tokens go, and the sign-in, which is not revoked.                   *)
Logout(p, r) ==
    /\ r.op = "logout"
    /\ IF memory[p].held = 0 /\ store = 0
       THEN AtOnce(p, r, Failed("not-found")) /\ UNCHANGED <<store, memory, ended, retired>>
       ELSE /\ AtOnce(p, r, NoToken) /\ store' = 0 /\ memory' = [memory EXCEPT ![p] = Nothing]
            /\ ended' = ended \cup ({store} \ {0})
            /\ retired' = [retired EXCEPT ![p] = @ \cup {memory[p].held}]
    /\ UNCHANGED <<ci, service, reserved, lost>>

(* A call fails or is refused, nobody signs in or types a code; a login    *)
(* puts back what it found.                                                *)
CallFails(p) ==
    /\ pc[p] \in {"ambient", "portal", "caller", "device", "mfa", "assume", "mint"} /\ CallError(p)
    /\ IF req[p].op = "login" THEN Restore(p, local[p].previous) ELSE UNCHANGED <<store, memory, ended>>
    /\ UNCHANGED <<ci, service, reserved, retired, lost>>

Stop(p) ==
    /\ Restart(p, Nothing)
    /\ UNCHANGED <<ci, store, service, reserved, ended, lost>>

Next == \E p \in Processes :
    \/ \E r \in Request : Get(p, r) \/ Erase(p, r) \/ Login(p, r) \/ Logout(p, r)
    \/ Confirm(p) \/ Portal(p) \/ CallerOk(p) \/ Lapsed(p) \/ SignedIn(p) \/ Mfa(p) \/ Assume(p)
    \/ Mint(p) \/ CallFails(p) \/ Stop(p)

-----------------------------------------------------------------------------

(* A sign-in that was removed or replaced never comes back.                *)
RemovedStaysRemoved == store \notin ended
=============================================================================
