--------------------------- MODULE GitLabProvider ---------------------------
(***************************************************************************)
(* The GitLab reference provider (examples/providers/gitlab/provider.js):  *)
(* one process for each npm command, all on one store file, each handling  *)
(* one request at a time. A request reads the account from the store, and  *)
(* writes back what it changed after calls to GitLab during which other    *)
(* processes go on: they refresh the same OAuth login, mint and delete     *)
(* deploy tokens, log out, log in. A write of the store reads the file and *)
(* renames a new one over it, and another process can come in between. A   *)
(* call may fail, or its answer be lost by a timeout or with the process.  *)
(*                                                                         *)
(* A login is a number, 0 for none; its pair of tokens is known by how     *)
(* often it was refreshed; a deploy token is a number, in order of minting.*)
(***************************************************************************)
EXTENDS Naturals

CONSTANTS
    Processes,    \* provider processes
    Keys,         \* what a minted token is kept under
    MaxLogins, MaxRefreshes, MaxRequests  \* bounds

ASSUME BoundAssumption == {MaxLogins, MaxRefreshes, MaxRequests} \subseteq Nat \ {0}

Logins == 0..MaxLogins
Gens   == 0..MaxRefreshes
Tokens == 0..MaxRequests

(* The entry of the instance in the store, and the account object made of  *)
(* it: the login (signIn and oauth), the generation of its tokens, and the *)
(* deploy token recorded under each key, 0 for none.                       *)
Account   == [login : Logins, gen : Gens, minted : [Keys -> Tokens]]
NoAccount == [login |-> 0, gen |-> 0, minted |-> [k \in Keys |-> 0]]

VARIABLES
    store,     \* the store file
    current,   \* GitLab: for each login, the generation that is good, 0 once revoked
    issued,    \* GitLab: the last login
    live,      \* GitLab: the deploy tokens that exist
    last,      \* GitLab: the last deploy token
    pc, op, key, acc, \* of each process: where it is, its request, its account object
    try,       \* of each process: 1 after a refresh before a call, 2 after one for a 401
    disk,      \* of each process: what a write of the store has read
    answer,    \* of each process: the last answer
    requests,  \* the requests so far (bounded)
    ended,     \* the logins removed from the store or replaced in it (history)
    straddled, \* a rename came between another's read and rename (history)
    forsaken,  \* the deploy tokens nothing records, for a known reason (history)
    lapsed     \* the logins whose new tokens were lost on the way (history)

gitlab  == <<current, issued, live, last>>
history == <<ended, straddled, forsaken, lapsed>>
vars == <<store, gitlab, pc, op, key, acc, try, disk, answer, requests, history>>

Writing == {"write-oauth", "write-minted", "write-login", "remove"}
Answers == {"none", "ok", "not-found", "other", "dead-login"}

(* The store, the service and the operations keep within their types; a    *)
(* store without a login holds nothing.                                    *)
TypeOK ==
    /\ store \in Account /\ (store.login = 0 => store = NoAccount)
    /\ current \in [Logins -> Gens] /\ issued \in Logins
    /\ live \subseteq Tokens \ {0} /\ last \in Tokens
    /\ pc \in [Processes -> {"idle", "release", "mint", "login", "revoke"} \cup Writing]
    /\ op \in [Processes -> {"get", "erase", "login", "logout"}]
    /\ key \in [Processes -> Keys] /\ try \in [Processes -> 0..2]
    /\ acc \in [Processes -> Account] /\ disk \in [Processes -> Account]
    /\ answer \in [Processes -> Answers] /\ requests \in 0..MaxRequests
    /\ ended \subseteq Logins /\ lapsed \subseteq Logins
    /\ straddled \in BOOLEAN /\ forsaken \subseteq Tokens

Init ==
    /\ store \in {NoAccount, [NoAccount EXCEPT !.login = 1, !.gen = 1]}
    /\ current = [l \in Logins |-> IF l = 1 THEN 1 ELSE 0] /\ issued = 1
    /\ live = {} /\ last = 0
    /\ pc = [p \in Processes |-> "idle"] /\ op = [p \in Processes |-> "get"]
    /\ key = [p \in Processes |-> CHOOSE k \in Keys : TRUE]
    /\ acc = [p \in Processes |-> NoAccount] /\ disk = [p \in Processes |-> NoAccount]
    /\ try = [p \in Processes |-> 0] /\ answer = [p \in Processes |-> "none"]
    /\ requests = 0
    /\ ended = {} /\ straddled = FALSE /\ forsaken = {} /\ lapsed = {}

-----------------------------------------------------------------------------
(* A request ends, or goes on to its next call.                            *)

Reply(p, what) ==
    /\ pc' = [pc EXCEPT ![p] = "idle"] /\ answer' = [answer EXCEPT ![p] = what]
    /\ acc' = [acc EXCEPT ![p] = NoAccount] /\ disk' = [disk EXCEPT ![p] = NoAccount]
    /\ try' = [try EXCEPT ![p] = 0]

GoOn(p, step, account) ==
    /\ pc' = [pc EXCEPT ![p] = step] /\ acc' = [acc EXCEPT ![p] = account]
    /\ disk' = [disk EXCEPT ![p] = NoAccount] /\ try' = [try EXCEPT ![p] = 0]
    /\ UNCHANGED answer

Held(p) == acc[p].minted[key[p]]
Without(account, k) == [account EXCEPT !.minted[k] = 0]

(* After the deletion of the token held under the key, or without one: an  *)
(* erase is done, a get mints.                                             *)
AfterRelease(p, account) ==
    IF op[p] = "erase" THEN Reply(p, "ok") ELSE GoOn(p, "mint", account)

-----------------------------------------------------------------------------
(* A request comes; its handler reads the account.                         *)

Take(p, what, k) ==
    /\ pc[p] = "idle" /\ requests < MaxRequests
    /\ requests' = requests + 1
    /\ op' = [op EXCEPT ![p] = what] /\ key' = [key EXCEPT ![p] = k]
    /\ UNCHANGED <<store, gitlab, history>>

(* With no login stored a retry is never not-found. A write asks the       *)
(* person first, who may refuse or not answer. The token held for the      *)
(* context is deleted before another is minted.                            *)
Get(p, k) ==
    /\ Take(p, "get", k)
    /\ IF store.login = 0 THEN \E what \in {"not-found", "other"} : Reply(p, what)
       ELSE \/ Reply(p, "other")
            \/ GoOn(p, IF store.minted[k] = 0 THEN "mint" ELSE "release", store)

Erase(p, k) ==
    /\ Take(p, "erase", k)
    /\ IF store.minted[k] = 0 THEN Reply(p, "ok") ELSE GoOn(p, "release", store)

Login(p, k) == Take(p, "login", k) /\ GoOn(p, "login", NoAccount)

(* The local credentials go first.                                         *)
Logout(p, k) ==
    /\ Take(p, "logout", k)
    /\ IF store.login = 0 THEN Reply(p, "not-found") ELSE GoOn(p, "remove", store)

-----------------------------------------------------------------------------
(* Writes of the store: the read, and the rename some time after it.       *)

(* persist writes only while the store holds the login of the account, and *)
(* a logout has detached its account.                                      *)
SameLogin(p) == store.login = acc[p].login /\ op[p] # "logout"

Read(p, step, account) ==
    /\ pc' = [pc EXCEPT ![p] = step] /\ acc' = [acc EXCEPT ![p] = account]
    /\ disk' = [disk EXCEPT ![p] = store]
    /\ UNCHANGED answer

Rename(p, account) ==
    /\ store' = account
    /\ ended' = IF store.login \in {0, account.login} THEN ended ELSE ended \cup {store.login}
    /\ straddled' = (straddled \/ \E r \in Processes \ {p} : pc[r] \in Writing)

(* The call that needed the refresh is made next.                          *)
WriteOauth(p) ==
    /\ pc[p] = "write-oauth"
    /\ Rename(p, [disk[p] EXCEPT !.gen = acc[p].gen])
    /\ pc' = [pc EXCEPT ![p] = IF Held(p) = 0 THEN "mint" ELSE "release"]
    /\ disk' = [disk EXCEPT ![p] = NoAccount]
    /\ UNCHANGED <<gitlab, op, key, acc, try, answer, requests, forsaken, lapsed>>

(* Mutant of Merged: the account object is written as the request has it.  *)
Merged_whole(p) == acc[p]

(* The one record that changed is put onto what the store holds.           *)
Merged(p) == [disk[p] EXCEPT !.minted[key[p]] = Held(p)]

(* A token recorded there that this request did not know of was minted by  *)
(* another process for the same key, and is recorded no more.              *)
WriteMinted(p) ==
    /\ pc[p] = "write-minted"
    /\ Rename(p, Merged(p))
    /\ forsaken' = forsaken \cup ({disk[p].minted[key[p]]} \ {0, Held(p)})
    /\ IF Held(p) = 0 THEN AfterRelease(p, acc[p]) ELSE Reply(p, "ok")
    /\ UNCHANGED <<gitlab, op, key, requests, lapsed>>

WriteLogin(p) ==
    /\ pc[p] = "write-login"
    /\ Rename(p, [disk[p] EXCEPT !.login = acc[p].login, !.gen = 1])
    /\ Reply(p, "ok")
    /\ UNCHANGED <<gitlab, op, key, requests, forsaken, lapsed>>

(* logout: the entry goes before GitLab is told.                           *)
Remove(p) ==
    /\ pc[p] = "remove"
    /\ Rename(p, NoAccount)
    /\ GoOn(p, "revoke", acc[p])
    /\ UNCHANGED <<gitlab, op, key, requests, forsaken, lapsed>>

-----------------------------------------------------------------------------
(* GitLab, as gitlab/fake.js has it: a token that was replaced or revoked  *)
(* is answered 401, a refresh replaces the pair, a deploy token exists     *)
(* from its creation to its deletion, and to delete one that is gone or to *)
(* revoke a token nobody knows changes nothing.                            *)

Usable(p)    == acc[p].gen = current[acc[p].login]
Refreshed(p) == current' = [current EXCEPT ![acc[p].login] = @ + 1]
Granted      == /\ issued < MaxLogins /\ issued' = issued + 1
                /\ current' = [current EXCEPT ![issued + 1] = 1]
Revoked(p)   == current' = IF Usable(p) THEN [current EXCEPT ![acc[p].login] = 0] ELSE current
Created      == last' = last + 1 /\ live' = live \cup {last + 1}
Deleted(t)   == live' = live \ {t}

-----------------------------------------------------------------------------
(* Calls to GitLab with the access token (api, refresh).                   *)

Calling(p) ==
    \/ pc[p] \in {"release", "mint"}
    \/ pc[p] = "revoke" /\ \E k \in Keys : acc[p].minted[k] # 0

(* Mutant of Refresh: the new tokens are stored with the next record.      *)
Refresh_unsaved(p) ==
    /\ Calling(p) /\ try[p] < 2 /\ Usable(p) /\ acc[p].gen < MaxRefreshes
    /\ \E n \in {1, 2} : n > try[p] /\ try' = [try EXCEPT ![p] = n]
    /\ Refreshed(p)
    /\ acc' = [acc EXCEPT ![p].gen = @ + 1]
    /\ UNCHANGED <<store, issued, live, last, op, key, pc, disk, answer, requests, history>>

(* A token about to lapse is refreshed before the call, and a 401 is       *)
(* checked once with a refresh. The pair is replaced, and stored before    *)
(* anything else is done with it.                                          *)
Refresh(p) ==
    /\ Calling(p) /\ try[p] < 2 /\ Usable(p) /\ acc[p].gen < MaxRefreshes
    /\ \E n \in {1, 2} : n > try[p] /\ try' = [try EXCEPT ![p] = n]
    /\ Refreshed(p)
    /\ LET account == [acc[p] EXCEPT !.gen = @ + 1] IN
       IF SameLogin(p) THEN Read(p, "write-oauth", account)
       ELSE acc' = [acc EXCEPT ![p] = account] /\ UNCHANGED <<pc, disk, answer>>
    /\ UNCHANGED <<store, issued, live, last, op, key, requests, history>>

(* Mutant of Refused: a refresh token GitLab refused is tried again.       *)
Refused_retries(p) ==
    /\ pc[p] \in {"release", "mint"} /\ ~Usable(p)
    /\ UNCHANGED vars

(* GitLab refuses the refresh token (invalid_grant), and the login is said *)
(* to be dead; a 401 after its check is any other failure.                 *)
Refused(p) ==
    /\ pc[p] \in {"release", "mint"} /\ ~Usable(p)
    /\ Reply(p, IF try[p] < 2 THEN "dead-login" ELSE "other")
    /\ UNCHANGED <<store, gitlab, op, key, requests, history>>

(* release: a token that is gone already (404) is as deleted.              *)
Release(p) ==
    /\ pc[p] = "release" /\ Usable(p)
    /\ Deleted(Held(p))
    /\ LET account == Without(acc[p], key[p]) IN
       IF SameLogin(p) THEN Read(p, "write-minted", account) /\ try' = [try EXCEPT ![p] = 0]
                       ELSE AfterRelease(p, account)
    /\ UNCHANGED <<store, current, issued, last, op, key, requests, history>>

(* Mutant of Mint: the account the request read is written back.           *)
Mint_writes_back(p) ==
    /\ pc[p] = "mint" /\ Usable(p)
    /\ Created
    /\ LET account == [acc[p] EXCEPT !.minted[key[p]] = last + 1] IN
       /\ pc' = [pc EXCEPT ![p] = "write-minted"] /\ try' = [try EXCEPT ![p] = 0]
       /\ acc' = [acc EXCEPT ![p] = account] /\ disk' = [disk EXCEPT ![p] = account]
    /\ UNCHANGED <<store, current, issued, op, key, answer, requests, history>>

(* mint: the token is recorded, if the login is still the stored one.      *)
Mint(p) ==
    /\ pc[p] = "mint" /\ Usable(p)
    /\ Created
    /\ LET account == [acc[p] EXCEPT !.minted[key[p]] = last + 1] IN
       IF SameLogin(p)
       THEN Read(p, "write-minted", account) /\ try' = [try EXCEPT ![p] = 0] /\ UNCHANGED forsaken
       ELSE Reply(p, "ok") /\ forsaken' = forsaken \cup {last + 1}
    /\ UNCHANGED <<store, current, issued, op, key, requests, ended, straddled, lapsed>>

(* The device grant is approved: the account is read, and keeps what the   *)
(* login before it minted. Or it is not approved in time.                  *)
Approved(p) ==
    /\ pc[p] = "login" /\ Granted
    /\ Read(p, "write-login", [store EXCEPT !.login = issued + 1, !.gen = 1])
    /\ UNCHANGED <<store, live, last, op, key, try, requests, history>>

NotApproved(p) ==
    /\ pc[p] = "login" /\ Reply(p, "other")
    /\ UNCHANGED <<store, gitlab, op, key, requests, history>>

(* logout deletes what it held, one token after the other, each on a best  *)
(* effort: one it cannot delete is recorded nowhere.                       *)
ReleaseHeld(p, k) ==
    /\ pc[p] = "revoke" /\ acc[p].minted[k] # 0
    /\ \/ Usable(p) /\ Deleted(acc[p].minted[k]) /\ UNCHANGED forsaken
       \/ forsaken' = forsaken \cup {acc[p].minted[k]} /\ UNCHANGED live
    /\ acc' = [acc EXCEPT ![p] = Without(@, k)] /\ try' = [try EXCEPT ![p] = 0]
    /\ UNCHANGED <<store, current, issued, last, pc, op, key, disk, answer, requests,
                   ended, straddled, lapsed>>

(* Then it revokes the tokens it has, if they are the good ones.           *)
Revoke(p) ==
    /\ pc[p] = "revoke" /\ ~Calling(p)
    /\ Revoked(p) \/ UNCHANGED current
    /\ Reply(p, "ok")
    /\ UNCHANGED <<store, issued, live, last, op, key, requests, history>>

-----------------------------------------------------------------------------
(* Failures: a call or a write fails, or the process is stopped, with all  *)
(* it had not recorded.                                                    *)

Unrecorded(p) == CASE pc[p] = "write-minted" -> {Held(p)} \ {0}
                   [] pc[p] = "revoke"       -> {acc[p].minted[k] : k \in Keys} \ {0}
                   [] OTHER                  -> {}

GiveUp(p) ==
    /\ pc[p] # "idle" /\ Reply(p, "other")
    /\ forsaken' = forsaken \cup Unrecorded(p)
    /\ lapsed' = IF pc[p] = "write-oauth" THEN lapsed \cup {acc[p].login} ELSE lapsed
    /\ UNCHANGED <<store, gitlab, op, key, requests, ended, straddled>>

(* GitLab has done what it was asked, and its answer does not arrive.      *)
AnswerLost(p) ==
    /\ Calling(p) /\ Usable(p) /\ Reply(p, "other")
    /\ \/ /\ try[p] < 2 /\ acc[p].gen < MaxRefreshes /\ Refreshed(p)
          /\ lapsed' = lapsed \cup {acc[p].login}
          /\ forsaken' = forsaken \cup Unrecorded(p)
          /\ UNCHANGED <<live, last>>
       \/ /\ pc[p] = "release" /\ Deleted(Held(p))
          /\ UNCHANGED <<current, last, forsaken, lapsed>>
       \/ /\ pc[p] = "mint" /\ Created
          /\ forsaken' = forsaken \cup {last + 1}
          /\ UNCHANGED <<current, lapsed>>
    /\ UNCHANGED <<store, issued, op, key, requests, ended, straddled>>

-----------------------------------------------------------------------------

(* What a process is obliged to do with a request.                         *)
Work(p) ==
    \/ WriteOauth(p) \/ WriteMinted(p) \/ WriteLogin(p) \/ Remove(p)
    \/ Refresh(p) \/ Refused(p) \/ Release(p) \/ Mint(p)
    \/ Approved(p) \/ NotApproved(p) \/ Revoke(p) \/ \E k \in Keys : ReleaseHeld(p, k)

Arrive(p) == \E k \in Keys : Get(p, k) \/ Erase(p, k) \/ Login(p, k) \/ Logout(p, k)

Ended == requests = MaxRequests /\ \A p \in Processes : pc[p] = "idle"

Next == \/ \E p \in Processes : Arrive(p) \/ Work(p) \/ GiveUp(p) \/ AnswerLost(p)
        \/ Ended /\ UNCHANGED vars

Spec == Init /\ [][Next]_vars
FairSpec == Spec /\ \A p \in Processes : WF_vars(Work(p))

-----------------------------------------------------------------------------
(* Properties.                                                             *)

(* An entry that was removed stays removed, and one another login replaced *)
(* stays replaced, whatever calls were under way: true of every execution  *)
(* in which no rename comes between the read and the rename of another.    *)
RemovedStaysRemoved == ~straddled => store.login \notin ended

(* A deploy token that exists is recorded in the store or held by a        *)
(* request under way, or it is known how it was lost: its login ended, an  *)
(* answer was lost, or another process minted for the same key.            *)
TokensRecorded ==
    ~straddled => \A t \in live \ forsaken :
        \/ \E k \in Keys : store.minted[k] = t
        \/ \E p \in Processes, k \in Keys : pc[p] # "idle" /\ acc[p].minted[k] = t

(* The stored refresh token is the good one, or a request is about to      *)
(* store it, as long as no answer of GitLab's was lost: the new tokens are *)
(* stored before anything else is done with them.                          *)
StoredLoginGood ==
    LET l == store.login IN
    (l # 0 /\ ~straddled /\ l \notin lapsed /\ current[l] # 0) =>
        \/ store.gen = current[l]
        \/ \E p \in Processes : pc[p] = "write-oauth" /\ acc[p].login = l /\ acc[p].gen = current[l]

(* Every request is answered.                                              *)
RequestsEnd == \A p \in Processes : pc[p] # "idle" ~> pc[p] = "idle"

(* Stated by phase-2-credential-provider.md:839: a provider that loses the *)
(* race of a refresh reads the stored token again before it reports the    *)
(* login dead.                                                             *)
DeadLoginIsDead ==
    [][\A p \in Processes : answer'[p] = "dead-login" /\ pc[p] # "idle" /\ pc'[p] = "idle" =>
          ~(store.login = acc[p].login /\ store.gen = current[store.login])]_vars
=============================================================================
