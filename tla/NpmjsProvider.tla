---------------------------- MODULE NpmjsProvider ----------------------------
(***************************************************************************)
(* The npmjs.com provider: tokens of several tiers are in the store, and   *)
(* are themselves what is handed out: granular ones that the user pasted,  *)
(* and the session token of a web login. An operation takes a token of its *)
(* own tiers; a 403 may move it up to one it names, with the person asked  *)
(* again. What a granular token selects is left out: whether one covers a  *)
(* request, and which comes first, is a choice.                            *)
(***************************************************************************)
EXTENDS ProviderProcesses, FiniteSets

Tiers   == {"read", "stage-read", "stage-only", "publish", "trust", "session"}
Entries == [tier : Tiers, token : Credentials]

Escalating == {"publish", "unpublish"}
Operations == {"read", "stage-read", "stage", "trust", "access"} \cup Escalating
Write      == Operations \ {"read", "stage-read"}

TiersOf(op) ==
    CASE op = "stage" -> {"stage-only"} [] op = "access" -> {"session"}
      [] op = "unpublish" -> {"publish", "session"} [] OTHER -> {op}

(* handedOut: the tier of the token that went out for the context.         *)
Memory  == [Escalating -> Tiers \cup {"none"}]
Nothing == [op \in Escalating |-> "none"]

(* In a request: its operation, the entry picked for it, or to be revoked. *)
NoEntry == [tier |-> "session", token |-> 0]
Local   == [operation : Operations, entry : Entries]
Begun(operation, entry) == [operation |-> operation, entry |-> entry]

TypeOK ==
    /\ ProcessType /\ store \subseteq Entries /\ memory \in [Processes -> Memory]
    /\ pc \in [Processes -> {"idle", "whoami", "confirm", "paste", "web-login", "revoke"}]
    /\ \A p \in Processes : pc[p] # "idle" => local[p] \in Local

SessionIn(entries) == {e.token : e \in {f \in entries : f.tier = "session"}}

Init == \E tiers \in {{}, {"session"}} :
    LET entries == {[tier |-> t, token |-> 1] : t \in tiers} IN
    ProcessInit(entries, Nothing, SessionIn(entries)) /\ good = SessionIn(entries) /\ issued = 1

-----------------------------------------------------------------------------
(* The registry (fake.js): a web login issues a session token, and a token *)
(* that is deleted is not valid any more.                                  *)

IssuesSession  == Issue /\ good' = good \cup {New}
Deletes(token) == good' = good \ {token} /\ UNCHANGED issued

-----------------------------------------------------------------------------

(* A selection may leave a granular token out; the session covers all.     *)
Candidates(tiers) == {e \in store : e.tier \in tiers}
NoneCovers(tiers) == SessionIn(Candidates(tiers)) = {}

HandOut(p, operation, entry) ==
    memory' = IF operation \in Escalating THEN [memory EXCEPT ![p][operation] = entry.tier] ELSE memory

(* release: with no token for it, what the caller says. A lapsed session   *)
(* is not sent with a read, and fails any other. A write has the person    *)
(* asked; with nobody to ask only a stage-only token goes, and only where  *)
(* the configuration says so (ciStageOnly).                                *)
Release(p, r, operation, tiers, none) ==
    \/ NoneCovers(tiers) /\ AtOnce(p, r, Failed(none)) /\ UNCHANGED memory
    \/ \E e \in Candidates(tiers) :
        \/ /\ e.tier = "session" /\ UNCHANGED memory
           /\ AtOnce(p, r, IF operation = "read" THEN NoToken ELSE Failed("other"))
        \/ /\ operation \notin Write /\ AtOnce(p, r, Gives(p, r, e.token, e.tier = "session"))
           /\ HandOut(p, operation, e)
        \/ /\ operation \in Write /\ r.interactive
           /\ Begin(p, r, "confirm", Begun(operation, e)) /\ UNCHANGED memory
        \/ /\ operation \in Write /\ ~r.interactive /\ ~(e.tier = "stage-only" /\ ci)
           /\ AtOnce(p, r, Failed("other")) /\ UNCHANGED memory
        \/ /\ operation \in Write /\ ~r.interactive /\ e.tier = "stage-only" /\ ci
           /\ AtOnce(p, r, Gives(p, r, e.token, TRUE)) /\ HandOut(p, operation, e)

(* Whether a 403 may move an operation up, from the tier that went first.  *)
Widens(operation, first) == operation \in Escalating /\ first \notin {"stage-only", "session"}

FirstTier(p, operation) ==
    IF operation \in Escalating /\ memory[p][operation] # "none" THEN {memory[p][operation]}
    ELSE {e.tier : e \in Candidates(TiersOf(operation))} \cup
         (IF NoneCovers(TiersOf(operation)) THEN {"none"} ELSE {})

Get(p, r) ==
    /\ r.op = "get"
    /\ \/ AtOnce(p, r, Failed("not-served")) /\ UNCHANGED memory
       \/ \E operation \in IF r.write THEN Write ELSE Operations \ Write :
          LET tiers == TiersOf(operation) IN
          \/ r.retry = "no" /\ Release(p, r, operation, tiers, "not-found")
          \/ r.retry = "no" /\ operation = "read"  \* readWithSession
             /\ Release(p, r, operation, tiers \cup {"session"}, "not-found")
          \/ /\ r.retry = "401" /\ UNCHANGED memory
             /\ \/ NoneCovers(tiers) /\ AtOnce(p, r, Failed("other"))
                \/ Candidates(tiers) # {} /\ Begin(p, r, "whoami", Begun(operation, NoEntry))
          \/ r.retry = "403" /\ \E first \in FirstTier(p, operation) :
             IF Widens(operation, first) THEN Release(p, r, operation, {"session"}, "other")
             ELSE AtOnce(p, r, Failed("other")) /\ UNCHANGED memory
    /\ UNCHANGED <<ci, store, service, history>>

(* tokenIsLive: whatever the registry says, no token goes again.           *)
Whoami(p) ==
    /\ pc[p] = "whoami" /\ Reply(p, Failed("other"))
    /\ UNCHANGED <<ci, store, service, memory, history>>

Confirm(p) ==
    /\ pc[p] = "confirm"
    /\ \/ Reply(p, Failed("other")) /\ UNCHANGED memory
       \/ /\ Reply(p, Gives(p, req[p], local[p].entry.token, FALSE))
          /\ HandOut(p, local[p].operation, local[p].entry)
    /\ UNCHANGED <<ci, store, service, history>>

(* Only what is known of the context goes.                                 *)
Erase(p, r) ==
    /\ r.op = "erase" /\ AtOnce(p, r, NoToken)
    /\ \/ UNCHANGED memory
       \/ \E operation \in Escalating : memory' = [memory EXCEPT ![p][operation] = "none"]
    /\ UNCHANGED <<ci, store, service, history>>

Login(p, r) ==
    /\ r.op = "login"
    /\ \/ AtOnce(p, r, Failed("other"))
       \/ r.interactive /\ \E step \in {"paste", "web-login"} : Begin(p, r, step, Begun("access", NoEntry))
    /\ UNCHANGED <<ci, store, service, memory, history>>

(* The person has said what the pasted token is for, before the deadline;  *)
(* it is added to those there are by now.                                  *)
Pasted(p) ==
    /\ pc[p] = "paste" /\ Issue /\ Reply(p, NoToken)
    /\ \E tier \in {"read", "stage-read", "stage-only", "publish"} :
        /\ store' = store \cup {[tier |-> tier, token |-> New]}
        /\ reserved' = IF tier \in {"stage-only", "publish"} THEN reserved \cup {New} ELSE reserved
    /\ UNCHANGED <<ci, good, memory, retired, ended, lost>>

(* The session token takes the place of the one before, which is not       *)
(* deleted at the registry.                                                *)
WebLogin(p) ==
    /\ pc[p] = "web-login" /\ IssuesSession /\ Reply(p, NoToken)
    /\ LET old == SessionIn(store) IN
       /\ store' = {e \in store : e.tier # "session"} \cup {[tier |-> "session", token |-> New]}
       /\ ended' = ended \cup old /\ lost' = lost \cup old
       /\ retired' = [retired EXCEPT ![p] = @ \cup old]
    /\ reserved' = reserved \cup {New}
    /\ UNCHANGED <<ci, memory>>

(* The tokens go first; the session token is deleted at the registry.      *)
Logout(p, r) ==
    /\ r.op = "logout"
    /\ LET sessions == SessionIn(store)
           tokens   == {e.token : e \in store} IN
       /\ IF store = {} THEN AtOnce(p, r, Failed("not-found"))
          ELSE IF sessions = {} THEN AtOnce(p, r, NoToken)
          ELSE \E t \in sessions : Begin(p, r, "revoke", Begun("access", [tier |-> "session", token |-> t]))
       /\ ended' = ended \cup tokens
       /\ retired' = [retired EXCEPT ![p] = @ \cup tokens]
    /\ store' = {}
    /\ UNCHANGED <<ci, service, memory, reserved, lost>>

Revoke(p) ==
    /\ pc[p] = "revoke" /\ Reply(p, NoToken)
    /\ LET token == local[p].entry.token IN
       \/ Deletes(token) /\ UNCHANGED lost
       \/ lost' = lost \cup {token} /\ UNCHANGED service
    /\ UNCHANGED <<ci, store, memory, reserved, retired, ended>>

(* Nobody answers or signs in, or a call fails; or the token does not      *)
(* arrive.                                                                 *)
CallFails(p) ==
    /\ pc[p] \in {"paste", "web-login"} /\ CallError(p)
    /\ \/ UNCHANGED <<service, lost>>
       \/ pc[p] = "web-login" /\ IssuesSession /\ lost' = lost \cup {New}
    /\ UNCHANGED <<ci, store, memory, reserved, retired, ended>>

Stop(p) ==
    /\ Restart(p, Nothing)
    /\ lost' = IF pc[p] = "revoke" THEN lost \cup {local[p].entry.token} ELSE lost
    /\ UNCHANGED <<ci, store, service, reserved, ended>>

Next == \E p \in Processes :
    \/ \E r \in Request : Get(p, r) \/ Erase(p, r) \/ Login(p, r) \/ Logout(p, r)
    \/ Whoami(p) \/ Confirm(p) \/ Pasted(p) \/ WebLogin(p) \/ Revoke(p) \/ CallFails(p) \/ Stop(p)

-----------------------------------------------------------------------------

(* A session token the registry takes is stored, or about to be deleted,   *)
(* or it is known how it was lost.                                         *)
NothingForgotten ==
    good \ lost \subseteq SessionIn(store) \cup {local[p].entry.token : p \in {q \in Processes : pc[q] = "revoke"}}

(* A token that was removed or replaced never comes back, and there is one *)
(* session at the most.                                                    *)
RemovedStaysRemoved == {e.token : e \in store} \cap ended = {} /\ Cardinality(SessionIn(store)) <= 1

(* What the provider has had deleted it does not store.                    *)
StoredIsGood == SessionIn(store) \subseteq good
=============================================================================
