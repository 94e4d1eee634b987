------------------------ MODULE GitLabProviderProofs ------------------------
(***************************************************************************)
(* Proofs about GitLabProvider, for any number of processes, keys, logins, *)
(* refreshes and requests: what was removed stays removed, the stored      *)
(* refresh token is the good one, and a deploy token is recorded.          *)
(***************************************************************************)
EXTENDS GitLabProvider, TLAPS

(* The types the arguments need: how many tokens and generations there are *)
(* does not matter to them.                                                *)
Entry == [login : Logins, gen : Nat, minted : [Keys -> Nat]]

Steps == {"idle", "release", "mint", "login", "revoke"} \cup Writing

EntriesOK ==
    /\ store \in Entry
    /\ current \in [Logins -> Nat] /\ issued \in Logins /\ last \in Nat
    /\ acc \in [Processes -> Entry] /\ disk \in [Processes -> Entry]

StepsOK ==
    /\ pc \in [Processes -> Steps]
    /\ op \in [Processes -> {"get", "erase", "login", "logout"}]
    /\ key \in [Processes -> Keys \cup {CHOOSE k \in Keys : TRUE}]
    /\ straddled \in BOOLEAN

(* The logins that anything knows of have been issued; 0 is none of them.  *)
LoginsInv ==
    /\ store.login <= issued
    /\ \A l \in ended : l \in Logins /\ l # 0 /\ l <= issued
    /\ \A p \in Processes : acc[p].login <= issued /\ disk[p].login <= issued

(* Until a write straddles another's: what a process is about to write is  *)
(* what the store holds with its change; it is of the stored login, and a  *)
(* logout revokes one that is gone from the store.                         *)
ProcInv(p) ==
    /\ pc[p] # "idle" => key[p] \in Keys
    /\ pc[p] \in {"release", "mint", "write-oauth", "write-minted"} => op[p] # "logout"
    /\ pc[p] \in {"remove", "revoke"} => op[p] = "logout"
    /\ ~ straddled =>
          /\ pc[p] \in {"write-oauth", "write-minted", "write-login"} => disk[p] = store
          /\ pc[p] \in {"write-oauth", "write-minted", "remove"} => acc[p].login = store.login
          /\ pc[p] = "revoke" => acc[p].login \in ended \cup {0}

(* A login that is about to be stored for the first time is known to       *)
(* nobody else, and has the tokens it was granted with.                    *)
FreshInv(p) ==
    pc[p] = "write-login" =>
        /\ acc[p].login # 0 /\ acc[p].login \notin ended /\ acc[p].login # store.login
        /\ current[acc[p].login] = 1
        /\ \A r \in Processes \ {p} : acc[r].login # acc[p].login /\ disk[r].login # acc[p].login

(* A process is about to store the good tokens of the login.               *)
Renewing(l) ==
    \E p \in Processes : pc[p] = "write-oauth" /\ acc[p].login = l /\ acc[p].gen = current[l]

(* The stored tokens are the good ones and nobody has others, or the good  *)
(* ones are about to be stored.                                            *)
GoodInv ==
    LET l == store.login IN
    ~ straddled /\ l # 0 /\ l \notin lapsed /\ current[l] # 0 =>
        \/ Renewing(l)
        \/ store.gen = current[l] /\ \A p \in Processes : pc[p] # "write-oauth"

Inv ==
    /\ EntriesOK /\ StepsOK /\ LoginsInv
    /\ \A p \in Processes : ProcInv(p) /\ FreshInv(p)
    /\ RemovedStaysRemoved /\ GoodInv

-----------------------------------------------------------------------------
(* Entries, and the shape of a step.                                       *)

LEMMA NoLogin == 0 \in Logins /\ NoAccount \in Entry /\ NoAccount.login = 0
<1>1. 0 \in Logins
  BY BoundAssumption DEF Logins
<1>2. [k \in Keys |-> 0] \in [Keys -> Nat]
  OBVIOUS
<1> QED
  BY <1>1, <1>2 DEF NoAccount, Entry

LEMMA EntryFields ==
    ASSUME NEW a \in Entry
    PROVE  a.login \in Logins /\ a.gen \in Nat /\ a.minted \in [Keys -> Nat]
BY DEF Entry

LEMMA MintedChange ==
    ASSUME NEW a \in Entry, NEW k \in Keys, NEW n \in Nat
    PROVE  LET b == [a EXCEPT !.minted[k] = n] IN
           b \in Entry /\ b.login = a.login /\ b.gen = a.gen
<1> DEFINE minted == [a.minted EXCEPT ![k] = n]
<1>1. minted \in [Keys -> Nat]
  BY EntryFields
<1>2. [a EXCEPT !.minted[k] = n] = [a EXCEPT !.minted = minted]
  OBVIOUS
<1> HIDE DEF minted
<1>3. LET b == [a EXCEPT !.minted = minted] IN b \in Entry /\ b.login = a.login /\ b.gen = a.gen
  BY <1>1 DEF Entry
<1> QED
  BY <1>2, <1>3

LEMMA GenChange ==
    ASSUME NEW a \in Entry, NEW n \in Nat
    PROVE  LET b == [a EXCEPT !.gen = n] IN
           b \in Entry /\ b.login = a.login /\ b.gen = n /\ b.minted = a.minted
BY DEF Entry

LEMMA LoginChange ==
    ASSUME NEW a \in Entry, NEW l \in Logins, NEW n \in Nat
    PROVE  LET b == [a EXCEPT !.login = l, !.gen = n] IN
           b \in Entry /\ b.login = l /\ b.gen = n /\ b.minted = a.minted
BY DEF Entry

(* A process goes to a step, with an account and what it read of the disk. *)
Goes(p, step, account, read) ==
    /\ pc' = [pc EXCEPT ![p] = step] /\ acc' = [acc EXCEPT ![p] = account]
    /\ disk' = [disk EXCEPT ![p] = read]

LEMMA GoesEffect ==
    ASSUME EntriesOK, StepsOK, NEW p \in Processes, NEW step \in Steps,
           NEW account \in Entry, NEW read \in Entry, Goes(p, step, account, read)
    PROVE  /\ pc' \in [Processes -> Steps]
           /\ acc' \in [Processes -> Entry] /\ disk' \in [Processes -> Entry]
           /\ pc'[p] = step /\ acc'[p] = account /\ disk'[p] = read
           /\ \A r \in Processes \ {p} : pc'[r] = pc[r] /\ acc'[r] = acc[r] /\ disk'[r] = disk[r]
BY DEF EntriesOK, StepsOK, Goes

(* What a step does to operations and keys: nothing, or it takes a request.*)
Names(p) ==
    /\ op' \in [Processes -> {"get", "erase", "login", "logout"}]
    /\ key' \in [Processes -> Keys \cup {CHOOSE k \in Keys : TRUE}]
    /\ \A r \in Processes \ {p} : op'[r] = op[r] /\ key'[r] = key[r]

LEMMA NamesKept ==
    ASSUME StepsOK, NEW p \in Processes, UNCHANGED <<op, key>>
    PROVE  Names(p)
BY DEF StepsOK, Names

-----------------------------------------------------------------------------
(* Steps that do not write the store.                                      *)

(* Without a refresh or a revocation of the stored login, and without a    *)
(* process that begins or ends to renew, the good tokens stay where they   *)
(* are.                                                                    *)
LEMMA GoodKept ==
    ASSUME Inv, NEW p \in Processes,
           \A r \in Processes \ {p} : pc'[r] = pc[r] /\ acc'[r] = acc[r],
           pc[p] # "write-oauth", pc'[p] # "write-oauth",
           UNCHANGED <<store, straddled>>, lapsed \subseteq lapsed',
           \/ store.login = 0 \/ straddled \/ store.login \in lapsed' \/ current'[store.login] = 0
           \/ current'[store.login] = current[store.login]
    PROVE  GoodInv'
<1> DEFINE l == store.login
<1> SUFFICES ASSUME ~ straddled, l # 0, l \notin lapsed', current'[l] # 0
             PROVE  Renewing(l)' \/ (store.gen = current'[l] /\ \A r \in Processes : pc'[r] # "write-oauth")
  BY DEF GoodInv, Renewing
<1>1. current'[l] = current[l] /\ l \notin lapsed
  OBVIOUS
<1>2. Renewing(l) \/ (store.gen = current[l] /\ \A r \in Processes : pc[r] # "write-oauth")
  BY <1>1 DEF Inv, GoodInv
<1> QED
  BY <1>1, <1>2 DEF Renewing

LEMMA OrdinaryStep ==
    ASSUME Inv, NEW p \in Processes, NEW step \in Steps, step # "write-login",
           NEW account \in Entry, NEW read \in Entry, Goes(p, step, account, read), Names(p),
           account.login \in {acc[p].login, store.login, 0}, read.login \in {disk[p].login, store.login, 0},
           UNCHANGED <<store, issued, ended, straddled>>, last' \in Nat,
           current' \in [Logins -> Nat],
           \A l \in Logins \ {acc[p].login} : current'[l] = current[l],
           ProcInv(p)', GoodInv'
    PROVE  Inv'
<1>1. /\ EntriesOK /\ StepsOK /\ LoginsInv /\ RemovedStaysRemoved
      /\ \A r \in Processes : ProcInv(r) /\ FreshInv(r)
  BY DEF Inv
<1>2. /\ pc' \in [Processes -> Steps]
      /\ acc' \in [Processes -> Entry] /\ disk' \in [Processes -> Entry]
      /\ pc'[p] = step /\ acc'[p] = account /\ disk'[p] = read
      /\ \A r \in Processes \ {p} : pc'[r] = pc[r] /\ acc'[r] = acc[r] /\ disk'[r] = disk[r]
  BY <1>1, GoesEffect
<1>3. EntriesOK' /\ StepsOK'
  BY <1>1, <1>2 DEF EntriesOK, StepsOK, Names
<1>4. 0 <= issued /\ store.login <= issued
  BY <1>1, BoundAssumption DEF LoginsInv, EntriesOK, Logins
<1>5. account.login <= issued /\ read.login <= issued
  BY <1>1, <1>4 DEF LoginsInv
<1>6. LoginsInv'
  BY <1>1, <1>2, <1>5 DEF LoginsInv
<1>7. ASSUME NEW r \in Processes \ {p}
      PROVE  ProcInv(r)'
  BY <1>1, <1>2, <1>7 DEF ProcInv, Names
<1>8. ASSUME NEW r \in Processes
      PROVE  FreshInv(r)'
  <2>1. CASE r = p
    BY <1>2, <2>1 DEF FreshInv
  <2>2. CASE r # p /\ pc[r] = "write-login"
    <3>1. /\ acc[r].login # 0 /\ acc[r].login \notin ended /\ acc[r].login # store.login
          /\ current[acc[r].login] = 1
          /\ \A q \in Processes \ {r} : acc[q].login # acc[r].login /\ disk[q].login # acc[r].login
      BY <1>1, <2>2 DEF FreshInv
    <3>2. acc[r].login \in Logins \ {acc[p].login}
      BY <1>1, <2>2, <3>1 DEF EntriesOK, Entry
    <3>3. current'[acc[r].login] = 1 /\ acc'[r] = acc[r]
      BY <1>2, <2>2, <3>1, <3>2
    <3>4. acc'[p].login # acc[r].login /\ disk'[p].login # acc[r].login
      BY <1>2, <2>2, <3>1
    <3>5. ASSUME NEW q \in Processes \ {r}
          PROVE  acc'[q].login # acc[r].login /\ disk'[q].login # acc[r].login
      BY <1>2, <3>1, <3>4, <3>5
    <3> QED
      BY <3>1, <3>3, <3>5 DEF FreshInv
  <2>3. CASE r # p /\ pc[r] # "write-login"
    BY <1>2, <2>3 DEF FreshInv
  <2> QED
    BY <2>1, <2>2, <2>3
<1>9. RemovedStaysRemoved'
  BY <1>1 DEF RemovedStaysRemoved
<1> QED
  BY <1>3, <1>6, <1>7, <1>8, <1>9 DEF Inv

-----------------------------------------------------------------------------
(* Steps that write the store.                                             *)

(* A rename that straddles no other leaves nobody else about to write.     *)
LEMMA RenameEffect ==
    ASSUME Inv, NEW p \in Processes, NEW written \in Entry, Rename(p, written)
    PROVE  /\ store' = written /\ straddled' \in BOOLEAN
           /\ ~ straddled' => ~ straddled /\ \A r \in Processes \ {p} : pc[r] \notin Writing
           /\ ended \subseteq ended' /\ ended' \subseteq ended \cup ({store.login} \ {0})
           /\ written.login \notin ended => written.login \notin ended'
           /\ store.login \in {0, written.login} => ended' = ended
           /\ store.login \in ended' \cup {0, written.login}
<1>1. StepsOK
  BY DEF Inv
<1>2. straddled' \in BOOLEAN
      /\ (~ straddled' => ~ straddled /\ \A r \in Processes \ {p} : pc[r] \notin Writing)
  BY <1>1 DEF Rename, StepsOK
<1>3. /\ store' = written
      /\ ended \subseteq ended' /\ ended' \subseteq ended \cup ({store.login} \ {0})
      /\ written.login \notin ended => written.login \notin ended'
      /\ store.login \in {0, written.login} => ended' = ended
      /\ store.login \in ended' \cup {0, written.login}
  BY DEF Rename
<1> QED
  BY <1>2, <1>3

LEMMA RenameStep ==
    ASSUME Inv, NEW p \in Processes, pc[p] \in Writing, NEW written \in Entry, Rename(p, written),
           written.login \in {disk[p].login, acc[p].login, 0},
           NEW step \in {"idle", "release", "mint", "revoke"}, NEW account \in Entry,
           account.login \in {acc[p].login, 0}, Goes(p, step, account, NoAccount),
           UNCHANGED <<current, issued, last, op, key, lapsed>>,
           ProcInv(p)',
           ~ straddled' => written.login \notin ended,
           ~ straddled' => \/ written.login = 0 \/ written.login \in lapsed
                           \/ current[written.login] \in {0, written.gen}
    PROVE  Inv'
<1>1. /\ EntriesOK /\ StepsOK /\ LoginsInv
      /\ \A r \in Processes : ProcInv(r) /\ FreshInv(r)
  BY DEF Inv
<1>2. /\ store' = written /\ straddled' \in BOOLEAN
      /\ ~ straddled' => ~ straddled /\ \A r \in Processes \ {p} : pc[r] \notin Writing
      /\ ended \subseteq ended' /\ ended' \subseteq ended \cup ({store.login} \ {0})
      /\ written.login \notin ended => written.login \notin ended'
  BY RenameEffect
<1>3. /\ pc' \in [Processes -> Steps]
      /\ acc' \in [Processes -> Entry] /\ disk' \in [Processes -> Entry]
      /\ pc'[p] = step /\ acc'[p] = account /\ disk'[p] = NoAccount
      /\ \A r \in Processes \ {p} : pc'[r] = pc[r] /\ acc'[r] = acc[r] /\ disk'[r] = disk[r]
  <2>1. step \in Steps
    BY DEF Steps
  <2> QED
    BY <1>1, <2>1, NoLogin, GoesEffect
<1>4. EntriesOK' /\ StepsOK'
  BY <1>1, <1>2, <1>3 DEF EntriesOK, StepsOK
<1>5. 0 <= issued
  BY <1>1, BoundAssumption DEF EntriesOK, Logins
<1>6. LoginsInv'
  <2>1. written.login <= issued /\ account.login <= issued
    BY <1>1, <1>5 DEF LoginsInv
  <2>2. store.login \in Logins /\ store.login <= issued
    BY <1>1 DEF EntriesOK, Entry, LoginsInv
  <2>3. \A l \in ended' : l \in Logins /\ l # 0 /\ l <= issued
    BY <1>1, <1>2, <2>2 DEF LoginsInv
  <2> QED
    BY <1>1, <1>2, <1>3, <1>5, <2>1, <2>3, NoLogin DEF LoginsInv
<1>7. ASSUME NEW r \in Processes \ {p}
      PROVE  ProcInv(r)'
  BY <1>1, <1>2, <1>3, <1>7 DEF ProcInv, Writing
<1>8. ASSUME NEW r \in Processes
      PROVE  FreshInv(r)'
  <2>1. CASE r = p
    BY <1>3, <2>1 DEF FreshInv
  <2>2. CASE r # p /\ pc[r] = "write-login"
    <3>1. /\ acc[r].login # 0 /\ acc[r].login \notin ended /\ acc[r].login # store.login
          /\ current[acc[r].login] = 1
          /\ \A q \in Processes \ {r} : acc[q].login # acc[r].login /\ disk[q].login # acc[r].login
      BY <1>1, <2>2 DEF FreshInv
    <3>2. acc'[r] = acc[r] /\ acc[r].login \notin ended' /\ acc[r].login # written.login
      BY <1>2, <1>3, <2>2, <3>1
    <3>3. acc'[p].login # acc[r].login /\ disk'[p].login # acc[r].login
      BY <1>3, <2>2, <3>1, NoLogin
    <3>4. ASSUME NEW q \in Processes \ {r}
          PROVE  acc'[q].login # acc[r].login /\ disk'[q].login # acc[r].login
      BY <1>3, <3>1, <3>3, <3>4
    <3> QED
      BY <1>2, <3>1, <3>2, <3>4 DEF FreshInv
  <2>3. CASE r # p /\ pc[r] # "write-login"
    BY <1>3, <2>3 DEF FreshInv
  <2> QED
    BY <2>1, <2>2, <2>3
<1>9. RemovedStaysRemoved'
  BY <1>2 DEF RemovedStaysRemoved
<1>10. GoodInv'
  <2> SUFFICES ASSUME ~ straddled', written.login # 0, written.login \notin lapsed,
                      current[written.login] # 0
               PROVE  written.gen = current[written.login]
                      /\ \A r \in Processes : pc'[r] # "write-oauth"
    BY <1>2 DEF GoodInv, Renewing
  <2>1. \A r \in Processes : pc'[r] # "write-oauth"
    BY <1>2, <1>3 DEF Writing
  <2> QED
    BY <2>1
<1> QED
  BY <1>4, <1>6, <1>7, <1>8, <1>9, <1>10 DEF Inv

(* What a process in the middle of a write has, until a rename straddles.  *)
LEMMA Untouched ==
    ASSUME Inv, NEW p \in Processes, ~ straddled,
           pc[p] \in {"write-oauth", "write-minted", "write-login"}
    PROVE  /\ disk[p] = store /\ store.login \notin ended
           /\ pc[p] # "write-login" => acc[p].login = store.login
BY DEF Inv, ProcInv, RemovedStaysRemoved

LEMMA WriteOauthKeeps ==
    ASSUME Inv, NEW p \in Processes, WriteOauth(p)
    PROVE  Inv'
<1>1. EntriesOK /\ StepsOK /\ ProcInv(p)
  BY DEF Inv
<1> DEFINE written == [disk[p] EXCEPT !.gen = acc[p].gen]
           step == IF Held(p) = 0 THEN "mint" ELSE "release"
<1>2. /\ pc[p] = "write-oauth" /\ Rename(p, written)
      /\ pc' = [pc EXCEPT ![p] = step] /\ disk' = [disk EXCEPT ![p] = NoAccount]
      /\ UNCHANGED <<gitlab, op, key, acc, lapsed>>
  BY DEF WriteOauth
<1>3. disk[p] \in Entry /\ acc[p] \in Entry /\ acc[p].gen \in Nat /\ key[p] \in Keys
  BY <1>1, <1>2 DEF EntriesOK, Entry, ProcInv
<1>4. written \in Entry /\ written.login = disk[p].login /\ written.gen = acc[p].gen
  BY <1>3, GenChange
<1>5. acc' = [acc EXCEPT ![p] = acc[p]]
  BY <1>1, <1>2 DEF EntriesOK
<1> HIDE DEF written, step
<1>6. Goes(p, step, acc[p], NoAccount) /\ step \in {"mint", "release"}
  BY <1>2, <1>5 DEF Goes, step
<1>7. ProcInv(p)'
  <2>1. pc'[p] = step /\ op[p] # "logout"
    BY <1>1, <1>2 DEF StepsOK, ProcInv
  <2> QED
    BY <1>2, <1>3, <1>6, <2>1 DEF ProcInv
<1>8. ASSUME ~ straddled'
      PROVE  /\ written.login \notin ended
             /\ \/ written.login = 0 \/ written.login \in lapsed
                \/ current[written.login] \in {0, written.gen}
  <2>1. ~ straddled /\ \A r \in Processes \ {p} : pc[r] \notin Writing
    BY <1>2, <1>4, <1>8, RenameEffect
  <2>2. written.login = store.login /\ store.login \notin ended
    BY <1>2, <1>4, <2>1, Untouched
  <2>3. ASSUME store.login # 0, store.login \notin lapsed, current[store.login] # 0
        PROVE  acc[p].gen = current[store.login]
    <3>1. Renewing(store.login)
      BY <1>2, <2>1, <2>3 DEF Inv, GoodInv
    <3> QED
      BY <2>1, <3>1 DEF Renewing, Writing
  <2> QED
    BY <1>4, <2>2, <2>3
<1>9. pc[p] \in Writing
  BY <1>2 DEF Writing
<1> QED
  BY <1>2, <1>3, <1>4, <1>6, <1>7, <1>8, <1>9, RenameStep DEF gitlab

LEMMA WriteMintedKeeps ==
    ASSUME Inv, NEW p \in Processes, WriteMinted(p)
    PROVE  Inv'
<1>1. EntriesOK /\ StepsOK /\ ProcInv(p)
  BY DEF Inv
<1>2. /\ pc[p] = "write-minted" /\ Rename(p, Merged(p))
      /\ UNCHANGED <<gitlab, op, key, lapsed>>
  BY DEF WriteMinted
<1>3. disk[p] \in Entry /\ acc[p] \in Entry /\ key[p] \in Keys /\ op[p] # "logout"
  BY <1>1, <1>2 DEF EntriesOK, ProcInv
<1>4. Held(p) \in Nat
  BY <1>3, EntryFields DEF Held
<1>5. Merged(p) \in Entry /\ Merged(p).login = disk[p].login /\ Merged(p).gen = disk[p].gen
  BY <1>3, <1>4, MintedChange DEF Merged
<1>6. PICK step \in {"idle", "mint"}, account \in {acc[p], NoAccount} : Goes(p, step, account, NoAccount)
  BY DEF WriteMinted, AfterRelease, Reply, GoOn, Goes
<1>7. pc'[p] = step
  BY <1>1, <1>6 DEF Goes, StepsOK
<1>8. ProcInv(p)'
  BY <1>2, <1>3, <1>7 DEF ProcInv
<1>9. ASSUME ~ straddled'
      PROVE  /\ Merged(p).login \notin ended
             /\ \/ Merged(p).login = 0 \/ Merged(p).login \in lapsed
                \/ current[Merged(p).login] \in {0, Merged(p).gen}
  <2>1. ~ straddled /\ \A r \in Processes \ {p} : pc[r] \notin Writing
    BY <1>2, <1>5, <1>9, RenameEffect
  <2>2. Merged(p).login = store.login /\ Merged(p).gen = store.gen /\ store.login \notin ended
    BY <1>2, <1>5, <2>1, Untouched
  <2>3. ASSUME store.login # 0, store.login \notin lapsed, current[store.login] # 0
        PROVE  store.gen = current[store.login]
    <3>1. ~ Renewing(store.login)
      BY <1>2, <2>1 DEF Renewing, Writing
    <3> QED
      BY <2>1, <2>3, <3>1 DEF Inv, GoodInv
  <2> QED
    BY <2>2, <2>3
<1>10. pc[p] \in Writing /\ account \in Entry /\ account.login \in {acc[p].login, 0}
  BY <1>2, <1>3, NoLogin DEF Writing
<1> QED
  BY <1>2, <1>5, <1>6, <1>8, <1>9, <1>10, RenameStep DEF gitlab

(* A login is stored for the first time, with the tokens of its grant.     *)
LEMMA WriteLoginKeeps ==
    ASSUME Inv, NEW p \in Processes, WriteLogin(p)
    PROVE  Inv'
<1>1. EntriesOK /\ StepsOK /\ ProcInv(p) /\ FreshInv(p)
  BY DEF Inv
<1> DEFINE written == [disk[p] EXCEPT !.login = acc[p].login, !.gen = 1]
<1>2. /\ pc[p] = "write-login" /\ Rename(p, written)
      /\ Goes(p, "idle", NoAccount, NoAccount) /\ UNCHANGED <<gitlab, op, key, lapsed>>
  BY DEF WriteLogin, Reply, Goes
<1>3. disk[p] \in Entry /\ acc[p] \in Entry /\ acc[p].login \in Logins /\ key[p] \in Keys
  BY <1>1, <1>2 DEF EntriesOK, Entry, ProcInv
<1>4. written \in Entry /\ written.login = acc[p].login /\ written.gen = 1
  <2>1. 1 \in Nat
    OBVIOUS
  <2> QED
    BY <1>3, <2>1, LoginChange DEF Entry
<1> HIDE DEF written
<1>5. pc'[p] = "idle"
  BY <1>1, <1>2 DEF Goes, StepsOK
<1>6. ProcInv(p)'
  BY <1>5 DEF ProcInv
<1>7. written.login \notin ended /\ current[written.login] = written.gen
  BY <1>1, <1>2, <1>4 DEF FreshInv
<1>8. pc[p] \in Writing
  BY <1>2 DEF Writing
<1> QED
  BY <1>2, <1>4, <1>6, <1>7, <1>8, NoLogin, RenameStep DEF gitlab

LEMMA RemoveKeeps ==
    ASSUME Inv, NEW p \in Processes, Remove(p)
    PROVE  Inv'
<1>1. EntriesOK /\ StepsOK /\ LoginsInv /\ ProcInv(p)
  BY DEF Inv
<1>2. /\ pc[p] = "remove" /\ Rename(p, NoAccount)
      /\ Goes(p, "revoke", acc[p], NoAccount) /\ UNCHANGED <<gitlab, op, key, lapsed>>
  BY DEF Remove, GoOn, Goes
<1>3. pc'[p] = "revoke" /\ acc'[p] = acc[p] /\ acc[p] \in Entry
  BY <1>1, <1>2 DEF Goes, StepsOK, EntriesOK
<1>4. /\ ~ straddled' => ~ straddled
      /\ store.login \in ended' \cup {0}
  BY <1>2, NoLogin, RenameEffect
<1>5. ProcInv(p)'
  BY <1>1, <1>2, <1>3, <1>4 DEF ProcInv
<1>6. 0 \notin ended
  BY <1>1 DEF LoginsInv
<1>7. pc[p] \in Writing
  BY <1>2 DEF Writing
<1> QED
  BY <1>2, <1>3, <1>5, <1>6, <1>7, NoLogin, RenameStep DEF gitlab

-----------------------------------------------------------------------------
(* The steps of a request that do not write.                               *)

(* A request comes: its handler replies, or goes on with the stored entry. *)
LEMMA ArriveKeeps ==
    ASSUME Inv, NEW p \in Processes, Arrive(p)
    PROVE  Inv'
<1>1. EntriesOK /\ StepsOK /\ ProcInv(p)
  BY DEF Inv
<1>2. PICK what \in {"get", "erase", "login", "logout"}, k \in Keys :
        /\ pc[p] = "idle" /\ op' = [op EXCEPT ![p] = what] /\ key' = [key EXCEPT ![p] = k]
        /\ UNCHANGED <<store, gitlab, history>>
        /\ \/ Goes(p, "idle", NoAccount, NoAccount)
           \/ Goes(p, "login", NoAccount, NoAccount)
           \/ what # "logout" /\ Goes(p, "mint", store, NoAccount)
           \/ what # "logout" /\ Goes(p, "release", store, NoAccount)
           \/ what = "logout" /\ Goes(p, "remove", store, NoAccount)
  <2>1. PICK k \in Keys : Get(p, k) \/ Erase(p, k) \/ Login(p, k) \/ Logout(p, k)
    BY DEF Arrive
  <2>2. CASE Get(p, k)
    BY <2>2 DEF Get, Take, Reply, GoOn, Goes
  <2>3. CASE Erase(p, k)
    BY <2>3 DEF Erase, Take, Reply, GoOn, Goes
  <2>4. CASE Login(p, k)
    BY <2>4 DEF Login, Take, Reply, GoOn, Goes
  <2>5. CASE Logout(p, k)
    BY <2>5 DEF Logout, Take, Reply, GoOn, Goes
  <2> QED
    BY <2>1, <2>2, <2>3, <2>4, <2>5
<1>3. PICK step \in {"idle", "login", "mint", "release", "remove"}, account \in {NoAccount, store} :
        /\ Goes(p, step, account, NoAccount)
        /\ step \in {"mint", "release"} => what # "logout"
        /\ step = "remove" => what = "logout" /\ account = store
  BY <1>2
<1>4. /\ step \in Steps /\ account \in Entry /\ NoAccount \in Entry
      /\ account.login \in {store.login, 0} /\ NoAccount.login = 0
  BY <1>1, NoLogin DEF EntriesOK, Steps, Writing
<1>5. pc'[p] = step /\ acc'[p] = account
      /\ \A r \in Processes \ {p} : pc'[r] = pc[r] /\ acc'[r] = acc[r]
  BY <1>1, <1>3, <1>4, GoesEffect
<1>6. Names(p) /\ op'[p] = what /\ key'[p] = k
  BY <1>1, <1>2 DEF StepsOK, Names
<1>7. ProcInv(p)'
  BY <1>2, <1>3, <1>5, <1>6 DEF ProcInv, history
<1>8. GoodInv'
  BY <1>2, <1>5, GoodKept DEF history, gitlab
<1> QED
  BY <1>1, <1>2, <1>3, <1>4, <1>6, <1>7, <1>8, OrdinaryStep DEF history, gitlab, EntriesOK

(* A reply that leaves GitLab's logins alone.                              *)
LEMMA ReplyKeeps ==
    ASSUME Inv, NEW p \in Processes, NEW what, Reply(p, what),
           UNCHANGED <<store, issued, op, key, ended, straddled>>, last' \in Nat,
           current' \in [Logins -> Nat],
           \A l \in Logins \ {acc[p].login} : current'[l] = current[l],
           lapsed \subseteq lapsed',
           pc[p] = "write-oauth" => acc[p].login \in lapsed',
           current' = current \/ acc[p].login \in lapsed' \/ current'[acc[p].login] = 0
    PROVE  Inv'
<1>1. EntriesOK /\ StepsOK /\ ProcInv(p)
  BY DEF Inv
<1>2. Goes(p, "idle", NoAccount, NoAccount)
  BY DEF Reply, Goes
<1>3. "idle" \in Steps /\ NoAccount \in Entry /\ NoAccount.login = 0 /\ 0 \in Logins
  BY NoLogin DEF Steps
<1>4. pc'[p] = "idle"
      /\ \A r \in Processes \ {p} : pc'[r] = pc[r] /\ acc'[r] = acc[r]
  BY <1>1, <1>2, <1>3, GoesEffect
<1>5. ProcInv(p)'
  BY <1>4 DEF ProcInv
<1>6. store.login \in Logins
  BY <1>1, EntryFields DEF EntriesOK
<1>7. GoodInv'
  <2>1. CASE pc[p] = "write-oauth"
    <3>1. ~ straddled => store.login \in lapsed'
      BY <1>1, <2>1 DEF ProcInv
    <3> QED
      BY <3>1 DEF GoodInv
  <2>2. CASE pc[p] # "write-oauth"
    <3>1. \/ store.login \in lapsed' \/ current'[store.login] = 0
          \/ current'[store.login] = current[store.login]
      BY <1>6
    <3> QED
      BY <1>4, <2>2, <3>1, GoodKept
  <2> QED
    BY <2>1, <2>2
<1>8. Names(p)
  BY <1>1, NamesKept
<1> QED
  BY <1>2, <1>3, <1>5, <1>7, <1>8, OrdinaryStep

LEMMA RefreshKeeps ==
    ASSUME Inv, NEW p \in Processes, Refresh(p)
    PROVE  Inv'
<1>1. EntriesOK /\ StepsOK /\ LoginsInv /\ RemovedStaysRemoved /\ ProcInv(p)
  BY DEF Inv
<1> DEFINE l == acc[p].login
           n == acc[p].gen + 1
           account == [acc[p] EXCEPT !.gen = n]
<1>2. /\ pc[p] \in {"release", "mint", "revoke"} /\ acc[p].gen = current[l]
      /\ current' = [current EXCEPT ![l] = current[l] + 1]
      /\ UNCHANGED <<store, issued, last, op, key, history>>
  BY DEF Refresh, Calling, Usable, Refreshed
<1>3. acc[p] \in Entry /\ disk[p] \in Entry /\ l \in Logins /\ n \in Nat /\ current[l] + 1 = n
  <2>1. acc[p] \in Entry /\ disk[p] \in Entry
    BY <1>1 DEF EntriesOK
  <2>2. l \in Logins /\ acc[p].gen \in Nat
    BY <2>1, EntryFields
  <2> QED
    BY <1>2, <2>1, <2>2
<1>4. account \in Entry /\ account.login = l /\ account.gen = n
  BY <1>3, GenChange
<1> HIDE DEF account, n
<1>5. current' \in [Logins -> Nat] /\ current'[l] = n
      /\ \A m \in Logins \ {l} : current'[m] = current[m]
  BY <1>1, <1>2, <1>3 DEF EntriesOK
<1>6. Names(p) /\ store.login \in Logins
  BY <1>1, <1>2, NamesKept, EntryFields DEF EntriesOK
<1>7. CASE SameLogin(p)
  <2>1. Goes(p, "write-oauth", account, store) /\ op[p] # "logout" /\ store.login = l
    BY <1>7 DEF Refresh, Read, Goes, SameLogin, account, n
  <2>2. store \in Entry /\ "write-oauth" \in Steps
    BY <1>1 DEF EntriesOK, Steps, Writing
  <2>3. pc'[p] = "write-oauth" /\ acc'[p] = account /\ disk'[p] = store
    BY <1>1, <1>4, <2>1, <2>2, GoesEffect
  <2>4. ProcInv(p)'
    BY <1>1, <1>2, <1>4, <2>1, <2>3 DEF ProcInv, history
  <2>5. GoodInv'
    <3>1. acc'[p].login = store'.login /\ acc'[p].gen = current'[store'.login]
      BY <1>2, <1>4, <1>5, <2>1, <2>3
    <3>2. Renewing(store.login)'
      BY <2>3, <3>1 DEF Renewing
    <3> QED
      BY <3>2 DEF GoodInv
  <2> QED
    BY <1>2, <1>1, <1>4, <1>5, <1>6, <2>1, <2>2, <2>4, <2>5, OrdinaryStep DEF EntriesOK, history
<1>8. CASE ~ SameLogin(p)
  <2>1. acc' = [acc EXCEPT ![p] = account] /\ UNCHANGED <<pc, disk>>
    BY <1>8 DEF Refresh, account, n
  <2>2. Goes(p, pc[p], account, disk[p])
    BY <1>1, <2>1 DEF Goes, EntriesOK, StepsOK
  <2>3. pc[p] \in Steps /\ pc[p] # "write-login"
    BY <1>1, <1>2 DEF StepsOK
  <2>4. pc'[p] = pc[p] /\ acc'[p] = account
        /\ \A r \in Processes \ {p} : pc'[r] = pc[r] /\ acc'[r] = acc[r]
    BY <1>1, <1>3, <1>4, <2>2, <2>3, GoesEffect
  <2>5. ProcInv(p)'
    BY <1>1, <1>2, <1>4, <2>4 DEF ProcInv, history
  <2>6. store.login = 0 \/ straddled \/ store.login # l
    BY <1>1, <1>2, <1>8 DEF ProcInv, SameLogin, RemovedStaysRemoved
  <2>7. GoodInv'
    BY <1>2, <1>5, <1>6, <2>4, <2>6, GoodKept DEF history
  <2> QED
    BY <1>1, <1>2, <1>3, <1>4, <1>5, <1>6, <2>2, <2>3, <2>5, <2>7, OrdinaryStep DEF EntriesOK, history
<1> QED
  BY <1>7, <1>8

(* A call to GitLab that leaves the logins alone: the process stays where  *)
(* it is, goes on to another call, or reads the store to record a token.   *)
LEMMA CallKeeps ==
    ASSUME Inv, NEW p \in Processes, pc[p] \in {"release", "mint", "revoke"},
           NEW step \in {"mint", "revoke", "write-minted"}, NEW account \in Entry,
           account.login = acc[p].login, NEW read \in {store, disk[p], NoAccount},
           Goes(p, step, account, read),
           step = "write-minted" => SameLogin(p) /\ read = store,
           step = "revoke" <=> pc[p] = "revoke",
           UNCHANGED <<store, current, issued, op, key, ended, straddled, lapsed>>, last' \in Nat
    PROVE  Inv'
<1>1. EntriesOK /\ StepsOK /\ ProcInv(p)
  BY DEF Inv
<1>2. step \in Steps /\ read \in Entry /\ read.login \in {disk[p].login, store.login, 0}
  BY <1>1, NoLogin DEF Steps, Writing, EntriesOK
<1>3. pc'[p] = step /\ acc'[p] = account /\ disk'[p] = read
      /\ \A r \in Processes \ {p} : pc'[r] = pc[r] /\ acc'[r] = acc[r]
  BY <1>1, <1>2, GoesEffect
<1>4. ProcInv(p)'
  BY <1>1, <1>3 DEF ProcInv, SameLogin
<1>5. GoodInv'
  BY <1>3, GoodKept
<1>6. Names(p)
  BY <1>1, NamesKept
<1> QED
  BY <1>1, <1>2, <1>4, <1>5, <1>6, OrdinaryStep DEF EntriesOK

LEMMA ReleaseKeeps ==
    ASSUME Inv, NEW p \in Processes, Release(p)
    PROVE  Inv'
<1>1. EntriesOK /\ StepsOK /\ ProcInv(p)
  BY DEF Inv
<1> DEFINE account == Without(acc[p], key[p])
<1>2. /\ pc[p] = "release"
      /\ UNCHANGED <<store, current, issued, last, op, key, history>>
  BY DEF Release
<1>3. /\ acc[p] \in Entry /\ disk[p] \in Entry /\ store \in Entry /\ key[p] \in Keys
      /\ last \in Nat /\ current \in [Logins -> Nat]
  BY <1>1, <1>2 DEF EntriesOK, ProcInv
<1>4. account \in Entry /\ account.login = acc[p].login
  BY <1>3, MintedChange DEF Without
<1>5. CASE SameLogin(p)
  <2>1. Goes(p, "write-minted", account, store)
    BY <1>5 DEF Release, Read, Goes
  <2> QED
    BY <1>2, <1>3, <1>4, <1>5, <2>1, CallKeeps DEF history
<1>6. CASE ~ SameLogin(p) /\ op[p] # "erase"
  <2>1. Goes(p, "mint", account, NoAccount)
    BY <1>6 DEF Release, AfterRelease, GoOn, Goes
  <2> QED
    BY <1>2, <1>3, <1>4, <2>1, CallKeeps DEF history
<1>7. CASE ~ SameLogin(p) /\ op[p] = "erase"
  <2>1. Reply(p, "ok")
    BY <1>7 DEF Release, AfterRelease
  <2> QED
    BY <1>2, <1>3, <2>1, ReplyKeeps DEF history
<1> QED
  BY <1>5, <1>6, <1>7

LEMMA MintKeeps ==
    ASSUME Inv, NEW p \in Processes, Mint(p)
    PROVE  Inv'
<1>1. EntriesOK /\ StepsOK /\ ProcInv(p)
  BY DEF Inv
<1> DEFINE n == last + 1
           account == [acc[p] EXCEPT !.minted[key[p]] = n]
<1>2. /\ pc[p] = "mint" /\ last' = n
      /\ UNCHANGED <<store, current, issued, op, key, ended, straddled, lapsed>>
  BY DEF Mint, Created
<1>3. /\ acc[p] \in Entry /\ store \in Entry /\ key[p] \in Keys
      /\ n \in Nat /\ current \in [Logins -> Nat]
  BY <1>1, <1>2 DEF EntriesOK, ProcInv
<1>4. account \in Entry /\ account.login = acc[p].login
  BY <1>3, MintedChange
<1>5. CASE SameLogin(p)
  <2>1. Goes(p, "write-minted", account, store)
    BY <1>5 DEF Mint, Read, Goes
  <2> HIDE DEF account, n
  <2> QED
    BY <1>2, <1>3, <1>4, <1>5, <2>1, CallKeeps
<1>6. CASE ~ SameLogin(p)
  <2>1. Reply(p, "ok")
    BY <1>6 DEF Mint
  <2> HIDE DEF account, n
  <2> QED
    BY <1>2, <1>3, <2>1, ReplyKeeps
<1> QED
  BY <1>5, <1>6

LEMMA ReleaseHeldKeeps ==
    ASSUME Inv, NEW p \in Processes, NEW k \in Keys, ReleaseHeld(p, k)
    PROVE  Inv'
<1>1. EntriesOK /\ StepsOK
  BY DEF Inv
<1>2. /\ pc[p] = "revoke" /\ acc' = [acc EXCEPT ![p] = Without(acc[p], k)] /\ UNCHANGED <<pc, disk>>
      /\ UNCHANGED <<store, current, issued, last, op, key, ended, straddled, lapsed>>
  BY DEF ReleaseHeld
<1>3. acc[p] \in Entry /\ last \in Nat
  BY <1>1 DEF EntriesOK
<1>4. Without(acc[p], k) \in Entry /\ Without(acc[p], k).login = acc[p].login
  BY <1>3, MintedChange DEF Without
<1>5. Goes(p, "revoke", Without(acc[p], k), disk[p])
  BY <1>1, <1>2 DEF Goes, EntriesOK, StepsOK
<1> QED
  BY <1>2, <1>3, <1>4, <1>5, CallKeeps

(* A grant: a login that nobody knows of yet.                              *)
LEMMA ApprovedKeeps ==
    ASSUME Inv, NEW p \in Processes, Approved(p)
    PROVE  Inv'
<1>1. /\ EntriesOK /\ StepsOK /\ LoginsInv /\ RemovedStaysRemoved /\ GoodInv
      /\ \A r \in Processes : ProcInv(r) /\ FreshInv(r)
  BY DEF Inv
<1> DEFINE new == issued + 1
           account == [store EXCEPT !.login = new, !.gen = 1]
<1>2. /\ pc[p] = "login" /\ issued < MaxLogins /\ issued' = new
      /\ current' = [current EXCEPT ![new] = 1]
      /\ Goes(p, "write-login", account, store)
      /\ UNCHANGED <<store, last, op, key, history>>
  BY DEF Approved, Granted, Read, Goes
<1>3. new \in Logins /\ new # 0 /\ new > issued /\ issued \in Nat /\ 1 \in Nat
  BY <1>1, <1>2, BoundAssumption DEF EntriesOK, Logins
<1>4. account \in Entry /\ account.login = new /\ store \in Entry
  <2>1. store \in Entry
    BY <1>1 DEF EntriesOK
  <2> HIDE DEF new
  <2> QED
    BY <1>3, <2>1, LoginChange DEF Entry
<1> HIDE DEF account
<1>5. /\ store.login # new /\ new \notin ended /\ store.login \in Logins
      /\ \A r \in Processes : /\ acc[r].login # new /\ disk[r].login # new
                              /\ acc[r].login \in Logins /\ disk[r].login \in Logins
  <2>1. store.login \in Nat /\ store.login \in Logins
    BY <1>1, <1>4, EntryFields, BoundAssumption DEF Logins
  <2>2. ASSUME NEW r \in Processes
        PROVE  /\ acc[r].login \in Nat /\ disk[r].login \in Nat
               /\ acc[r].login \in Logins /\ disk[r].login \in Logins
    BY <1>1, EntryFields, BoundAssumption DEF EntriesOK, Logins
  <2>3. new \notin ended
    BY <1>1, <1>3 DEF LoginsInv
  <2>4. ASSUME NEW r \in Processes
        PROVE  acc[r].login # new /\ disk[r].login # new
    BY <1>1, <1>3, <2>2 DEF LoginsInv
  <2> QED
    BY <1>1, <1>3, <2>1, <2>2, <2>3, <2>4 DEF LoginsInv
<1> HIDE DEF new
<1>6. "write-login" \in Steps
  BY DEF Steps, Writing
<1>7. /\ pc' \in [Processes -> Steps]
      /\ acc' \in [Processes -> Entry] /\ disk' \in [Processes -> Entry]
      /\ pc'[p] = "write-login" /\ acc'[p] = account /\ disk'[p] = store
      /\ \A r \in Processes \ {p} : pc'[r] = pc[r] /\ acc'[r] = acc[r] /\ disk'[r] = disk[r]
  BY <1>1, <1>2, <1>4, <1>6, GoesEffect
<1>8. current' \in [Logins -> Nat] /\ current'[new] = 1
      /\ \A m \in Logins \ {new} : current'[m] = current[m]
  BY <1>1, <1>2, <1>3 DEF EntriesOK
<1>9. EntriesOK' /\ StepsOK'
  BY <1>1, <1>2, <1>3, <1>7, <1>8 DEF EntriesOK, StepsOK, history
<1>10. LoginsInv'
  <2>1. ended' = ended /\ store' = store /\ issued' = new
    BY <1>2 DEF history
  <2>2. store.login <= new
    BY <1>1, <1>3, <1>5, BoundAssumption DEF LoginsInv, Logins
  <2>3. \A l \in ended : l \in Logins /\ l # 0 /\ l <= new
    BY <1>1, <1>3, BoundAssumption DEF LoginsInv, Logins
  <2>4. ASSUME NEW r \in Processes
        PROVE  acc'[r].login <= new /\ disk'[r].login <= new
    <3>1. CASE r = p
      BY <1>3, <1>4, <1>7, <2>2, <3>1, BoundAssumption DEF Logins
    <3>2. CASE r # p
      BY <1>1, <1>3, <1>5, <1>7, <3>2, BoundAssumption DEF LoginsInv, Logins
    <3> QED
      BY <3>1, <3>2
  <2> QED
    BY <2>1, <2>2, <2>3, <2>4 DEF LoginsInv
<1>11. ASSUME NEW r \in Processes
       PROVE  ProcInv(r)'
  <2>1. CASE r = p
    BY <1>1, <1>2, <1>7, <2>1 DEF ProcInv, history
  <2>2. CASE r # p
    BY <1>1, <1>2, <1>7, <2>2 DEF ProcInv, history
  <2> QED
    BY <2>1, <2>2
<1>12. ASSUME NEW r \in Processes
       PROVE  FreshInv(r)'
  <2>1. CASE r = p
    BY <1>2, <1>3, <1>4, <1>5, <1>7, <1>8, <2>1 DEF FreshInv, history
  <2>2. CASE r # p /\ pc[r] = "write-login"
    <3>1. /\ acc[r].login # 0 /\ acc[r].login \notin ended /\ acc[r].login # store.login
          /\ current[acc[r].login] = 1
          /\ \A q \in Processes \ {r} : acc[q].login # acc[r].login /\ disk[q].login # acc[r].login
      BY <1>1, <2>2 DEF FreshInv
    <3>2. acc'[r] = acc[r] /\ current'[acc[r].login] = 1
      BY <1>5, <1>7, <1>8, <2>2, <3>1
    <3>3. acc'[p].login # acc[r].login /\ disk'[p].login # acc[r].login
      BY <1>4, <1>5, <1>7, <2>2, <3>1
    <3>4. ASSUME NEW q \in Processes \ {r}
          PROVE  acc'[q].login # acc[r].login /\ disk'[q].login # acc[r].login
      BY <1>7, <3>1, <3>3, <3>4
    <3> QED
      BY <1>2, <3>1, <3>2, <3>4 DEF FreshInv, history
  <2>3. CASE r # p /\ pc[r] # "write-login"
    BY <1>7, <2>3 DEF FreshInv
  <2> QED
    BY <2>1, <2>2, <2>3
<1>13. RemovedStaysRemoved'
  BY <1>1, <1>2 DEF RemovedStaysRemoved, history
<1>14. GoodInv'
  BY <1>2, <1>5, <1>7, <1>8, GoodKept DEF history
<1> QED
  BY <1>9, <1>10, <1>11, <1>12, <1>13, <1>14 DEF Inv

LEMMA RefusedKeeps ==
    ASSUME Inv, NEW p \in Processes, Refused(p) \/ NotApproved(p)
    PROVE  Inv'
<1>1. current \in [Logins -> Nat] /\ last \in Nat
  BY DEF Inv, EntriesOK
<1>2. PICK what \in Answers : Reply(p, what)
  BY DEF Refused, NotApproved, Answers
<1>3. pc[p] # "write-oauth" /\ UNCHANGED <<store, gitlab, op, key, history>>
  BY DEF Refused, NotApproved
<1> QED
  BY <1>1, <1>2, <1>3, ReplyKeeps DEF gitlab, history

LEMMA RevokeKeeps ==
    ASSUME Inv, NEW p \in Processes, Revoke(p)
    PROVE  Inv'
<1> DEFINE l == acc[p].login
<1>1. current \in [Logins -> Nat] /\ last \in Nat /\ l \in Logins
  BY EntryFields DEF Inv, EntriesOK
<1>2. /\ Reply(p, "ok") /\ pc[p] # "write-oauth"
      /\ UNCHANGED <<store, issued, last, op, key, history>>
  BY DEF Revoke
<1>3. current' = current \/ current' = [current EXCEPT ![l] = 0]
  BY DEF Revoke, Revoked
<1>4. /\ current' \in [Logins -> Nat] /\ \A m \in Logins \ {l} : current'[m] = current[m]
      /\ current' = current \/ current'[l] = 0
  BY <1>1, <1>3
<1> QED
  BY <1>1, <1>2, <1>4, ReplyKeeps DEF history

LEMMA GiveUpKeeps ==
    ASSUME Inv, NEW p \in Processes, GiveUp(p)
    PROVE  Inv'
<1>1. current \in [Logins -> Nat] /\ last \in Nat
  BY DEF Inv, EntriesOK
<1>2. Reply(p, "other") /\ UNCHANGED <<store, gitlab, op, key, ended, straddled>>
  BY DEF GiveUp
<1>3. lapsed \subseteq lapsed' /\ (pc[p] = "write-oauth" => acc[p].login \in lapsed')
  BY DEF GiveUp
<1> QED
  BY <1>1, <1>2, <1>3, ReplyKeeps DEF gitlab

LEMMA AnswerLostKeeps ==
    ASSUME Inv, NEW p \in Processes, AnswerLost(p)
    PROVE  Inv'
<1> DEFINE l == acc[p].login
           n == current[l] + 1
<1>1. current \in [Logins -> Nat] /\ last \in Nat /\ last + 1 \in Nat /\ l \in Logins /\ n \in Nat
  BY EntryFields DEF Inv, EntriesOK
<1>2. /\ Reply(p, "other") /\ pc[p] # "write-oauth"
      /\ UNCHANGED <<store, issued, op, key, ended, straddled>>
  BY DEF AnswerLost, Calling
<1>3. \/ current' = [current EXCEPT ![l] = n] /\ lapsed' = lapsed \cup {l} /\ last' = last
      \/ current' = current /\ lapsed' = lapsed /\ last' \in {last, last + 1}
  BY DEF AnswerLost, Refreshed, Created
<1> HIDE DEF n
<1>4. /\ current' \in [Logins -> Nat] /\ \A m \in Logins \ {l} : current'[m] = current[m]
      /\ current' = current \/ l \in lapsed'
      /\ lapsed \subseteq lapsed' /\ last' \in Nat
  BY <1>1, <1>3
<1> QED
  BY <1>2, <1>4, ReplyKeeps

-----------------------------------------------------------------------------
(* The invariant.                                                          *)

LEMMA InvInit == Init => Inv
<1> SUFFICES ASSUME Init PROVE Inv
  OBVIOUS
<1>1. 0 \in Logins /\ NoAccount \in Entry /\ NoAccount.login = 0
  BY NoLogin
<1>2. 1 \in Logins /\ 1 \in Nat /\ 0 \in Nat
  BY BoundAssumption DEF Logins
<1> DEFINE first == [NoAccount EXCEPT !.login = 1, !.gen = 1]
<1>3. first \in Entry /\ first.login = 1 /\ first.gen = 1
  BY <1>1, <1>2 DEF Entry
<1> HIDE DEF first
<1>4. /\ store \in {NoAccount, first}
      /\ current = [l \in Logins |-> IF l = 1 THEN 1 ELSE 0] /\ issued = 1 /\ last = 0
      /\ pc = [p \in Processes |-> "idle"] /\ op = [p \in Processes |-> "get"]
      /\ key = [p \in Processes |-> CHOOSE k \in Keys : TRUE]
      /\ acc = [p \in Processes |-> NoAccount] /\ disk = [p \in Processes |-> NoAccount]
      /\ ended = {} /\ straddled = FALSE
  BY DEF Init, first
<1>5. EntriesOK /\ StepsOK
  BY <1>1, <1>2, <1>3, <1>4 DEF EntriesOK, StepsOK, Steps
<1>6. LoginsInv /\ RemovedStaysRemoved
  BY <1>1, <1>3, <1>4 DEF LoginsInv, RemovedStaysRemoved
<1>7. \A p \in Processes : ProcInv(p) /\ FreshInv(p)
  BY <1>4 DEF ProcInv, FreshInv
<1>8. GoodInv
  BY <1>1, <1>2, <1>3, <1>4 DEF GoodInv
<1> QED
  BY <1>5, <1>6, <1>7, <1>8 DEF Inv

LEMMA StutterKeeps ==
    ASSUME Inv, UNCHANGED vars
    PROVE  Inv'
BY DEF Inv, EntriesOK, StepsOK, LoginsInv, ProcInv, FreshInv, Renewing, GoodInv,
       RemovedStaysRemoved, vars, gitlab, history

LEMMA InvStep == Inv /\ [Next]_vars => Inv'
<1> SUFFICES ASSUME Inv, [Next]_vars PROVE Inv'
  OBVIOUS
<1>1. ASSUME NEW p \in Processes, Work(p)
      PROVE  Inv'
  <2>1. CASE WriteOauth(p) \/ WriteMinted(p) \/ WriteLogin(p) \/ Remove(p)
    BY <2>1, WriteOauthKeeps, WriteMintedKeeps, WriteLoginKeeps, RemoveKeeps
  <2>2. CASE Refresh(p) \/ Refused(p) \/ Release(p) \/ Mint(p)
    BY <2>2, RefreshKeeps, RefusedKeeps, ReleaseKeeps, MintKeeps
  <2>3. CASE Approved(p) \/ NotApproved(p) \/ Revoke(p) \/ \E k \in Keys : ReleaseHeld(p, k)
    BY <2>3, ApprovedKeeps, RefusedKeeps, RevokeKeeps, ReleaseHeldKeeps
  <2> QED
    BY <1>1, <2>1, <2>2, <2>3 DEF Work
<1>2. CASE UNCHANGED vars
  BY <1>2, StutterKeeps
<1>3. CASE Next
  BY <1>1, <1>2, <1>3, ArriveKeeps, GiveUpKeeps, AnswerLostKeeps DEF Next
<1> QED
  BY <1>2, <1>3

THEOREM Invariant == Spec => []Inv
BY InvInit, InvStep, PTL DEF Spec

-----------------------------------------------------------------------------

(* What a logout removed from the store, or another login replaced there,  *)
(* is never written back by a request of any process that was under way    *)
(* (persist of examples/providers/gitlab/provider.js), as long as no       *)
(* rename of the store comes between the read and the rename of another.   *)
THEOREM RemovedLoginsStay == Spec => []RemovedStaysRemoved
<1>1. Inv => RemovedStaysRemoved
  BY DEF Inv
<1> QED
  BY <1>1, Invariant, PTL

(* However many processes refresh one login, the stored refresh token is   *)
(* the one GitLab takes or a process is about to store it, until an answer *)
(* of GitLab's is lost: refresh stores the pair before it goes on.         *)
THEOREM StoredTokensGood == Spec => []StoredLoginGood
<1>1. Inv => StoredLoginGood
  BY DEF Inv, GoodInv, Renewing, StoredLoginGood
<1> QED
  BY <1>1, Invariant, PTL

-----------------------------------------------------------------------------
(* The deploy tokens.                                                      *)

(* A request is about to record the token, or to delete it.                *)
HeldBy(p, t) ==
    \/ pc[p] = "write-minted" /\ Held(p) = t
    \/ pc[p] = "revoke" /\ \E k \in Keys : acc[p].minted[k] = t

Recorded(t) == \E k \in Keys : store.minted[k] = t

(* A logout that is about to remove the entry has read all it records, and *)
(* a token that exists is recorded or held by a request that is about to   *)
(* record or delete it: a request that merely read it does not keep it.    *)
TokenInv ==
    /\ live \subseteq Nat \ {0}
    /\ ~ straddled =>
          /\ \A p \in Processes : pc[p] = "remove" => acc[p].minted = store.minted
          /\ \A t \in live \ forsaken : Recorded(t) \/ \E p \in Processes : HeldBy(p, t)

(* What a step does to tokens and requests other than that of p.           *)
OthersStay(p) ==
    \A r \in Processes \ {p} : pc'[r] = pc[r] /\ acc'[r] = acc[r] /\ key'[r] = key[r]

(* A step that does not write the store: what p held it still holds, or it *)
(* is deleted or forsaken, and what is new p holds.                        *)
LEMMA TokensKept ==
    ASSUME TokenInv, NEW p \in Processes, OthersStay(p), UNCHANGED <<store, straddled>>,
           live' \subseteq Nat \ {0},
           pc'[p] = "remove" => acc'[p].minted = store.minted,
           \A t \in live' \ forsaken' : (t \in live \ forsaken /\ ~ HeldBy(p, t)) \/ HeldBy(p, t)'
    PROVE  TokenInv'
<1> SUFFICES ASSUME ~ straddled
             PROVE  /\ \A r \in Processes : pc'[r] = "remove" => acc'[r].minted = store.minted
                    /\ \A t \in live' \ forsaken' : Recorded(t) \/ \E r \in Processes : HeldBy(r, t)'
  BY DEF TokenInv, Recorded
<1>1. \A r \in Processes : pc'[r] = "remove" => acc'[r].minted = store.minted
  BY DEF TokenInv, OthersStay
<1>2. ASSUME NEW t \in live' \ forsaken', ~ HeldBy(p, t)', ~ Recorded(t)
      PROVE  \E r \in Processes : HeldBy(r, t)'
  <2>1. t \in live \ forsaken /\ ~ HeldBy(p, t)
    BY <1>2
  <2>2. PICK r \in Processes : HeldBy(r, t)
    BY <1>2, <2>1 DEF TokenInv
  <2>3. HeldBy(r, t)'
    BY <2>1, <2>2 DEF HeldBy, Held, OthersStay
  <2> QED
    BY <2>3
<1> QED
  BY <1>1, <1>2

(* A step that writes the store.                                           *)
LEMMA TokensWritten ==
    ASSUME Inv, TokenInv, NEW p \in Processes, OthersStay(p), NEW written \in Entry,
           Rename(p, written), UNCHANGED live, pc'[p] # "remove", forsaken \subseteq forsaken',
           \A t \in live \ forsaken' : ~ straddled' /\ (Recorded(t) \/ HeldBy(p, t)) =>
               (\E k \in Keys : written.minted[k] = t) \/ HeldBy(p, t)'
    PROVE  TokenInv'
<1>1. live' \subseteq Nat \ {0}
  BY DEF TokenInv
<1>2. store' = written /\ (~ straddled' => ~ straddled /\ \A r \in Processes \ {p} : pc[r] \notin Writing)
  BY RenameEffect
<1> SUFFICES ASSUME ~ straddled'
             PROVE  /\ \A r \in Processes : pc'[r] = "remove" => acc'[r].minted = store'.minted
                    /\ \A t \in live' \ forsaken' : Recorded(t)' \/ \E r \in Processes : HeldBy(r, t)'
  BY <1>1 DEF TokenInv
<1>3. \A r \in Processes : pc'[r] # "remove"
  BY <1>2 DEF OthersStay, Writing
<1>4. ASSUME NEW t \in live' \ forsaken'
      PROVE  Recorded(t)' \/ \E r \in Processes : HeldBy(r, t)'
  <2>1. Recorded(t) \/ \E r \in Processes : HeldBy(r, t)
    BY <1>2 DEF TokenInv
  <2>2. CASE Recorded(t) \/ HeldBy(p, t)
    BY <1>2, <2>2 DEF Recorded
  <2>3. ASSUME NEW r \in Processes \ {p}, HeldBy(r, t)
        PROVE  HeldBy(r, t)'
    BY <2>3 DEF HeldBy, Held, OthersStay
  <2> QED
    BY <2>1, <2>2, <2>3
<1> QED
  BY <1>3, <1>4

(* The request of p holds no token but while it records or revokes one.    *)
LEMMA NotHeld ==
    ASSUME NEW p, NEW t, pc[p] \notin {"write-minted", "revoke"}
    PROVE  ~ HeldBy(p, t)
BY DEF HeldBy

LEMMA TokensWriteOauth ==
    ASSUME Inv, TokenInv, NEW p \in Processes, WriteOauth(p)
    PROVE  TokenInv'
<1>1. EntriesOK /\ StepsOK /\ ProcInv(p)
  BY DEF Inv
<1> DEFINE written == [disk[p] EXCEPT !.gen = acc[p].gen]
           step == IF Held(p) = 0 THEN "mint" ELSE "release"
<1>2. /\ pc[p] = "write-oauth" /\ Rename(p, written)
      /\ pc' = [pc EXCEPT ![p] = step] /\ UNCHANGED <<gitlab, key, acc, forsaken>>
  BY DEF WriteOauth
<1>3. disk[p] \in Entry /\ acc[p].gen \in Nat
  BY <1>1, EntryFields DEF EntriesOK
<1>4. written \in Entry /\ written.minted = disk[p].minted
  BY <1>3, GenChange
<1> HIDE DEF written
<1>5. OthersStay(p) /\ pc'[p] = step
  BY <1>1, <1>2 DEF OthersStay, StepsOK
<1>6. ASSUME ~ straddled', NEW t, Recorded(t) \/ HeldBy(p, t)
      PROVE  \E k \in Keys : written.minted[k] = t
  <2>1. disk[p] = store
    BY <1>2, <1>4, <1>6, RenameEffect, Untouched
  <2> QED
    BY <1>2, <1>4, <1>6, <2>1, NotHeld DEF Recorded
<1> QED
  BY <1>2, <1>4, <1>5, <1>6, TokensWritten DEF gitlab

(* The other records are those of the store, and one that another process  *)
(* put under the key is forsaken.                                          *)
LEMMA TokensWriteMinted ==
    ASSUME Inv, TokenInv, NEW p \in Processes, WriteMinted(p)
    PROVE  TokenInv'
<1>1. EntriesOK /\ StepsOK /\ ProcInv(p)
  BY DEF Inv
<1>2. /\ pc[p] = "write-minted" /\ Rename(p, Merged(p))
      /\ forsaken' = forsaken \cup ({disk[p].minted[key[p]]} \ {0, Held(p)})
      /\ UNCHANGED <<gitlab, key>>
  BY DEF WriteMinted
<1>3. disk[p] \in Entry /\ acc[p] \in Entry /\ key[p] \in Keys
  BY <1>1, <1>2 DEF EntriesOK, ProcInv
<1>4. Held(p) \in Nat
  BY <1>3, EntryFields DEF Held
<1>5. Merged(p) \in Entry
  BY <1>3, <1>4, MintedChange DEF Merged
<1>6. /\ Merged(p).minted[key[p]] = Held(p)
      /\ \A k \in Keys \ {key[p]} : Merged(p).minted[k] = disk[p].minted[k]
  BY <1>3, <1>4, EntryFields DEF Merged, Entry
<1>7. OthersStay(p) /\ pc'[p] # "remove"
  BY <1>1, <1>2 DEF WriteMinted, AfterRelease, Reply, GoOn, OthersStay, EntriesOK, StepsOK
<1>8. ASSUME ~ straddled', NEW t \in live \ forsaken', Recorded(t) \/ HeldBy(p, t)
      PROVE  \E k \in Keys : Merged(p).minted[k] = t
  <2>1. disk[p] = store
    BY <1>2, <1>5, <1>8, RenameEffect, Untouched
  <2>2. CASE HeldBy(p, t)
    BY <1>2, <1>3, <1>6, <2>2 DEF HeldBy
  <2>3. CASE Recorded(t)
    <3>1. PICK k \in Keys : store.minted[k] = t
      BY <2>3 DEF Recorded
    <3>2. CASE k = key[p]
      <4>1. t # 0
        BY <1>8 DEF TokenInv
      <4> QED
        BY <1>2, <1>3, <1>6, <1>8, <2>1, <3>1, <3>2, <4>1
    <3>3. CASE k # key[p]
      BY <1>6, <2>1, <3>1, <3>3
    <3> QED
      BY <3>2, <3>3
  <2> QED
    BY <1>8, <2>2, <2>3
<1> QED
  BY <1>2, <1>5, <1>7, <1>8, TokensWritten DEF gitlab

(* A login keeps what the one before it minted.                            *)
LEMMA TokensWriteLogin ==
    ASSUME Inv, TokenInv, NEW p \in Processes, WriteLogin(p)
    PROVE  TokenInv'
<1>1. EntriesOK /\ StepsOK
  BY DEF Inv
<1> DEFINE written == [disk[p] EXCEPT !.login = acc[p].login, !.gen = 1]
<1>2. /\ pc[p] = "write-login" /\ Rename(p, written)
      /\ Reply(p, "ok") /\ UNCHANGED <<gitlab, key, forsaken>>
  BY DEF WriteLogin
<1>3. disk[p] \in Entry /\ acc[p].login \in Logins /\ 1 \in Nat
  BY <1>1, EntryFields DEF EntriesOK
<1>4. written \in Entry /\ written.minted = disk[p].minted
  BY <1>3, LoginChange DEF Entry
<1> HIDE DEF written
<1>5. OthersStay(p) /\ pc'[p] = "idle"
  BY <1>1, <1>2 DEF Reply, OthersStay, EntriesOK, StepsOK
<1>6. ASSUME ~ straddled', NEW t, Recorded(t) \/ HeldBy(p, t)
      PROVE  \E k \in Keys : written.minted[k] = t
  <2>1. disk[p] = store
    BY <1>2, <1>4, <1>6, RenameEffect, Untouched
  <2> QED
    BY <1>2, <1>4, <1>6, <2>1, NotHeld DEF Recorded
<1> QED
  BY <1>2, <1>4, <1>5, <1>6, TokensWritten DEF gitlab

(* What the entry recorded the logout now holds.                           *)
LEMMA TokensRemove ==
    ASSUME Inv, TokenInv, NEW p \in Processes, Remove(p)
    PROVE  TokenInv'
<1>1. EntriesOK /\ StepsOK
  BY DEF Inv
<1>2. /\ pc[p] = "remove" /\ Rename(p, NoAccount)
      /\ GoOn(p, "revoke", acc[p]) /\ UNCHANGED <<gitlab, key, forsaken>>
  BY DEF Remove
<1>3. OthersStay(p) /\ pc'[p] = "revoke" /\ acc'[p] = acc[p]
  BY <1>1, <1>2 DEF GoOn, OthersStay, EntriesOK, StepsOK
<1>4. ASSUME ~ straddled', NEW t, Recorded(t) \/ HeldBy(p, t)
      PROVE  HeldBy(p, t)'
  <2>1. acc[p].minted = store.minted
    BY <1>2, <1>4, NoLogin, RenameEffect DEF TokenInv
  <2> QED
    BY <1>2, <1>3, <1>4, <2>1, NotHeld DEF Recorded, HeldBy
<1> QED
  BY <1>2, <1>3, <1>4, NoLogin, TokensWritten DEF gitlab

LEMMA TokensArrive ==
    ASSUME Inv, TokenInv, NEW p \in Processes, Arrive(p)
    PROVE  TokenInv'
<1>1. EntriesOK /\ StepsOK
  BY DEF Inv
<1>2. PICK k \in Keys : Get(p, k) \/ Erase(p, k) \/ Login(p, k) \/ Logout(p, k)
  BY DEF Arrive
<1>3. pc[p] = "idle" /\ key' = [key EXCEPT ![p] = k] /\ UNCHANGED <<store, live, straddled, forsaken>>
  BY <1>2 DEF Get, Erase, Login, Logout, Take, gitlab, history
<1>4. PICK step \in {"idle", "login", "mint", "release", "remove"}, account \in {store, NoAccount} :
        /\ pc' = [pc EXCEPT ![p] = step] /\ acc' = [acc EXCEPT ![p] = account]
        /\ step = "remove" => account = store
  <2>1. CASE Get(p, k)
    BY <2>1 DEF Get, Reply, GoOn
  <2>2. CASE Erase(p, k)
    BY <2>2 DEF Erase, Reply, GoOn
  <2>3. CASE Login(p, k)
    BY <2>3 DEF Login, GoOn
  <2>4. CASE Logout(p, k)
    BY <2>4 DEF Logout, Reply, GoOn
  <2> QED
    BY <1>2, <2>1, <2>2, <2>3, <2>4
<1>5. OthersStay(p) /\ pc'[p] = step /\ acc'[p] = account
  BY <1>1, <1>3, <1>4 DEF OthersStay, EntriesOK, StepsOK
<1>6. \A t : ~ HeldBy(p, t)
  BY <1>3, NotHeld
<1> QED
  BY <1>3, <1>4, <1>5, <1>6, TokensKept DEF TokenInv

(* A request is answered: what it held is deleted or forsaken.             *)
LEMMA TokensReply ==
    ASSUME Inv, TokenInv, NEW p \in Processes, NEW what, Reply(p, what),
           UNCHANGED <<store, straddled, key>>, live' \subseteq Nat \ {0},
           \A t \in live' \ forsaken' : t \in live \ forsaken /\ ~ HeldBy(p, t)
    PROVE  TokenInv'
<1>1. OthersStay(p) /\ pc'[p] = "idle"
  BY DEF Inv, EntriesOK, StepsOK, Reply, OthersStay
<1> QED
  BY <1>1, TokensKept

LEMMA TokensRefresh ==
    ASSUME Inv, TokenInv, NEW p \in Processes, Refresh(p)
    PROVE  TokenInv'
<1>1. EntriesOK /\ StepsOK /\ ProcInv(p)
  BY DEF Inv
<1> DEFINE account == [acc[p] EXCEPT !.gen = acc[p].gen + 1]
<1>2. /\ pc[p] \in {"release", "mint", "revoke"}
      /\ UNCHANGED <<store, live, key, op, straddled, forsaken>>
  BY DEF Refresh, Calling, history
<1>3. acc[p] \in Entry /\ acc[p].gen + 1 \in Nat
  BY <1>1, EntryFields DEF EntriesOK
<1>4. account.minted = acc[p].minted
  BY <1>3, GenChange
<1>5. CASE SameLogin(p)
  <2>1. pc' = [pc EXCEPT ![p] = "write-oauth"] /\ acc' = [acc EXCEPT ![p] = account]
    BY <1>5 DEF Refresh, Read
  <2>2. OthersStay(p) /\ pc'[p] = "write-oauth"
    BY <1>1, <1>2, <2>1 DEF OthersStay, EntriesOK, StepsOK
  <2>3. pc[p] # "revoke"
    BY <1>1, <1>5 DEF ProcInv, SameLogin
  <2>4. \A t : ~ HeldBy(p, t)
    BY <1>2, <2>3, NotHeld
  <2> QED
    BY <1>2, <2>2, <2>4, TokensKept DEF TokenInv
<1>6. CASE ~ SameLogin(p)
  <2>1. pc' = pc /\ acc' = [acc EXCEPT ![p] = account]
    BY <1>6 DEF Refresh
  <2>2. OthersStay(p) /\ acc'[p].minted = acc[p].minted
    BY <1>1, <1>2, <1>4, <2>1 DEF OthersStay, EntriesOK
  <2>3. \A t : HeldBy(p, t) => HeldBy(p, t)'
    BY <1>2, <2>1, <2>2 DEF HeldBy, Held
  <2> QED
    BY <1>2, <2>1, <2>2, <2>3, TokensKept DEF TokenInv
<1> QED
  BY <1>5, <1>6

(* The token that was held is deleted, before its record goes.             *)
LEMMA TokensRelease ==
    ASSUME Inv, TokenInv, NEW p \in Processes, Release(p)
    PROVE  TokenInv'
<1>1. EntriesOK /\ StepsOK
  BY DEF Inv
<1>2. /\ pc[p] = "release" /\ live' \subseteq live /\ UNCHANGED <<store, key, straddled, forsaken>>
  BY DEF Release, Deleted, history
<1>3. PICK step \in {"write-minted", "idle", "mint"}, account \in {acc[p], Without(acc[p], key[p]), NoAccount} :
        pc' = [pc EXCEPT ![p] = step] /\ acc' = [acc EXCEPT ![p] = account]
  BY DEF Release, Read, AfterRelease, Reply, GoOn
<1>4. OthersStay(p) /\ pc'[p] # "remove"
  BY <1>1, <1>2, <1>3 DEF OthersStay, EntriesOK, StepsOK
<1>5. \A t : ~ HeldBy(p, t)
  BY <1>2, NotHeld
<1> QED
  BY <1>2, <1>4, <1>5, TokensKept DEF TokenInv

(* The new token is held until it is recorded.                             *)
LEMMA TokensMint ==
    ASSUME Inv, TokenInv, NEW p \in Processes, Mint(p)
    PROVE  TokenInv'
<1>1. EntriesOK /\ StepsOK /\ ProcInv(p)
  BY DEF Inv
<1> DEFINE n == last + 1
           minted == [acc[p].minted EXCEPT ![key[p]] = n]
<1>2. /\ pc[p] = "mint" /\ live' = live \cup {n} /\ UNCHANGED <<store, key, straddled>>
  BY DEF Mint, Created
<1>3. n \in Nat \ {0} /\ key[p] \in Keys /\ acc[p].minted \in [Keys -> Nat] /\ acc[p] \in Entry
  BY <1>1, <1>2, EntryFields DEF EntriesOK, ProcInv
<1>4. live' \subseteq Nat \ {0}
  BY <1>2, <1>3 DEF TokenInv
<1>5. CASE SameLogin(p)
  <2>1. /\ pc' = [pc EXCEPT ![p] = "write-minted"] /\ forsaken' = forsaken
        /\ acc' = [acc EXCEPT ![p] = [acc[p] EXCEPT !.minted[key[p]] = n]]
    BY <1>5 DEF Mint, Read
  <2>2. OthersStay(p) /\ pc'[p] = "write-minted" /\ acc'[p] = [acc[p] EXCEPT !.minted = minted]
    BY <1>1, <1>2, <2>1 DEF OthersStay, EntriesOK, StepsOK
  <2>3. minted[key[p]] = n
    BY <1>3
  <2> HIDE DEF minted, n
  <2>4. acc'[p].minted = minted
    BY <1>3, <2>2 DEF Entry
  <2>5. ASSUME NEW t \in live' \ forsaken'
        PROVE  (t \in live \ forsaken /\ ~ HeldBy(p, t)) \/ HeldBy(p, t)'
    <3>1. CASE t = n
      BY <1>2, <2>2, <2>3, <2>4, <3>1 DEF HeldBy, Held
    <3>2. CASE t # n
      BY <1>2, <2>1, <3>2, NotHeld
    <3> QED
      BY <3>1, <3>2
  <2> QED
    BY <1>2, <1>4, <2>2, <2>5, TokensKept
<1>6. CASE ~ SameLogin(p)
  <2>1. Reply(p, "ok") /\ forsaken' = forsaken \cup {n}
    BY <1>6 DEF Mint
  <2>2. \A t : ~ HeldBy(p, t)
    BY <1>2, NotHeld
  <2> QED
    BY <1>2, <1>4, <2>1, <2>2, TokensReply
<1> QED
  BY <1>5, <1>6

LEMMA TokensApproved ==
    ASSUME Inv, TokenInv, NEW p \in Processes, Approved(p)
    PROVE  TokenInv'
<1> DEFINE account == [store EXCEPT !.login = issued + 1, !.gen = 1]
<1>1. /\ pc[p] = "login" /\ UNCHANGED <<store, live, key, straddled, forsaken>>
      /\ pc' = [pc EXCEPT ![p] = "write-login"] /\ acc' = [acc EXCEPT ![p] = account]
  BY DEF Approved, Read, history
<1>2. OthersStay(p) /\ pc'[p] = "write-login"
  BY <1>1 DEF Inv, EntriesOK, StepsOK, OthersStay
<1>3. \A t : ~ HeldBy(p, t)
  BY <1>1, NotHeld
<1> QED
  BY <1>1, <1>2, <1>3, TokensKept DEF TokenInv

(* Of what a logout holds one token is deleted or forsaken.                *)
LEMMA TokensReleaseHeld ==
    ASSUME Inv, TokenInv, NEW p \in Processes, NEW k \in Keys, ReleaseHeld(p, k)
    PROVE  TokenInv'
<1>1. EntriesOK /\ StepsOK
  BY DEF Inv
<1> DEFINE minted == [acc[p].minted EXCEPT ![k] = 0]
<1>2. /\ pc[p] = "revoke" /\ UNCHANGED <<store, key, straddled, pc>>
      /\ acc' = [acc EXCEPT ![p] = Without(acc[p], k)]
      /\ \/ live' = live \ {acc[p].minted[k]} /\ UNCHANGED forsaken
         \/ forsaken' = forsaken \cup {acc[p].minted[k]} /\ UNCHANGED live
  BY DEF ReleaseHeld, Deleted
<1>3. acc[p] \in Entry /\ acc[p].minted \in [Keys -> Nat]
  BY <1>1, EntryFields DEF EntriesOK
<1>4. OthersStay(p) /\ acc'[p] = [acc[p] EXCEPT !.minted = minted]
  BY <1>1, <1>2 DEF OthersStay, EntriesOK, Without
<1>5. acc'[p].minted = minted
  BY <1>3, <1>4 DEF Entry
<1>6. ASSUME NEW t \in live' \ forsaken', HeldBy(p, t)
      PROVE  HeldBy(p, t)'
  <2>1. PICK j \in Keys : acc[p].minted[j] = t
    BY <1>2, <1>6 DEF HeldBy
  <2>2. j # k
    BY <1>2, <1>6, <2>1
  <2>3. acc'[p].minted[j] = t
    BY <1>3, <1>5, <2>1, <2>2
  <2> QED
    BY <1>2, <2>3 DEF HeldBy
<1>7. live' \subseteq Nat \ {0} /\ \A t \in live' \ forsaken' : t \in live \ forsaken
  BY <1>2 DEF TokenInv
<1> QED
  BY <1>2, <1>4, <1>6, <1>7, TokensKept

(* Replies after which no token is held: the calls of requests that hold   *)
(* none were refused or not approved, and a logout has done with its own.  *)
LEMMA TokensRefused ==
    ASSUME Inv, TokenInv, NEW p \in Processes, Refused(p) \/ NotApproved(p) \/ Revoke(p)
    PROVE  TokenInv'
<1>1. PICK what : Reply(p, what)
  BY DEF Refused, NotApproved, Revoke
<1>2. UNCHANGED <<store, live, key, straddled, forsaken>>
  BY DEF Refused, NotApproved, Revoke, gitlab, history
<1>3. ASSUME NEW t \in live
      PROVE  ~ HeldBy(p, t)
  <2>1. CASE Refused(p) \/ NotApproved(p)
    BY <2>1, NotHeld DEF Refused, NotApproved, Reply
  <2>2. CASE Revoke(p)
    <3>1. pc[p] = "revoke" /\ \A k \in Keys : acc[p].minted[k] = 0
      BY <2>2 DEF Revoke, Calling
    <3>2. t # 0
      BY DEF TokenInv
    <3> QED
      BY <3>1, <3>2 DEF HeldBy
  <2> QED
    BY <2>1, <2>2
<1> QED
  BY <1>1, <1>2, <1>3, TokensReply DEF TokenInv

(* What a request held that gives up, it leaves behind.                    *)
LEMMA HeldIsUnrecorded ==
    ASSUME TokenInv, NEW p, NEW t \in live, HeldBy(p, t)
    PROVE  t \in Unrecorded(p)
<1>1. t # 0
  BY DEF TokenInv
<1> QED
  BY <1>1 DEF HeldBy, Unrecorded

LEMMA TokensGiveUp ==
    ASSUME Inv, TokenInv, NEW p \in Processes, GiveUp(p)
    PROVE  TokenInv'
<1>1. /\ Reply(p, "other") /\ forsaken' = forsaken \cup Unrecorded(p)
      /\ UNCHANGED <<store, live, key, straddled>>
  BY DEF GiveUp, gitlab
<1>2. \A t \in live' \ forsaken' : t \in live \ forsaken /\ ~ HeldBy(p, t)
  BY <1>1, HeldIsUnrecorded
<1> QED
  BY <1>1, <1>2, TokensReply DEF TokenInv

LEMMA TokensAnswerLost ==
    ASSUME Inv, TokenInv, NEW p \in Processes, AnswerLost(p)
    PROVE  TokenInv'
<1>1. Reply(p, "other") /\ UNCHANGED <<store, key, straddled>>
  BY DEF AnswerLost
<1>2. last + 1 \in Nat \ {0}
  BY DEF Inv, EntriesOK
<1>3. \/ forsaken' = forsaken \cup Unrecorded(p) /\ live' = live
      \/ pc[p] = "release" /\ live' = live \ {Held(p)} /\ forsaken' = forsaken
      \/ pc[p] = "mint" /\ live' = live \cup {last + 1} /\ forsaken' = forsaken \cup {last + 1}
  BY DEF AnswerLost, Deleted, Created
<1>4. \A t \in live' \ forsaken' : t \in live \ forsaken /\ ~ HeldBy(p, t)
  BY <1>3, HeldIsUnrecorded, NotHeld
<1>5. live' \subseteq Nat \ {0}
  BY <1>2, <1>3 DEF TokenInv
<1> QED
  BY <1>1, <1>4, <1>5, TokensReply

LEMMA TokenStep == Inv /\ TokenInv /\ [Next]_vars => TokenInv'
<1> SUFFICES ASSUME Inv, TokenInv, [Next]_vars PROVE TokenInv'
  OBVIOUS
<1>1. ASSUME NEW p \in Processes, Work(p)
      PROVE  TokenInv'
  <2>1. CASE WriteOauth(p) \/ WriteMinted(p) \/ WriteLogin(p) \/ Remove(p)
    BY <2>1, TokensWriteOauth, TokensWriteMinted, TokensWriteLogin, TokensRemove
  <2>2. CASE Refresh(p) \/ Release(p) \/ Mint(p) \/ Approved(p)
    BY <2>2, TokensRefresh, TokensRelease, TokensMint, TokensApproved
  <2>3. CASE Refused(p) \/ NotApproved(p) \/ Revoke(p) \/ \E k \in Keys : ReleaseHeld(p, k)
    BY <2>3, TokensRefused, TokensReleaseHeld
  <2> QED
    BY <1>1, <2>1, <2>2, <2>3 DEF Work
<1>2. CASE UNCHANGED vars
  BY <1>2 DEF TokenInv, HeldBy, Recorded, Held, vars, gitlab, history
<1>3. CASE Next
  BY <1>1, <1>2, <1>3, TokensArrive, TokensGiveUp, TokensAnswerLost DEF Next
<1> QED
  BY <1>2, <1>3

LEMMA TokenInvariant == Spec => []TokenInv
<1>1. Init => TokenInv
  BY DEF Init, TokenInv
<1> QED
  BY <1>1, TokenStep, Invariant, PTL DEF Spec

(* As long as no rename of the store comes between the read and the rename *)
(* of another, every deploy token that exists is recorded in the store or  *)
(* held by a request under way, unless its login ended, an answer was lost *)
(* or two processes minted for one key: mint and release of                *)
(* examples/providers/gitlab/provider.js put one record onto what the      *)
(* store holds, and a logout takes all of them with it.                    *)
THEOREM TokensAreRecorded == Spec => []TokensRecorded
<1>1. Inv /\ TokenInv => TokensRecorded
  <2> SUFFICES ASSUME Inv, TokenInv, ~ straddled, NEW t \in live \ forsaken, ~ Recorded(t)
               PROVE  \E p \in Processes, k \in Keys : pc[p] # "idle" /\ acc[p].minted[k] = t
    BY DEF TokensRecorded, Recorded
  <2>1. PICK p \in Processes : HeldBy(p, t)
    BY DEF TokenInv
  <2>2. pc[p] # "idle" => key[p] \in Keys
    BY DEF Inv, ProcInv
  <2> QED
    BY <2>1, <2>2 DEF HeldBy, Held
<1> QED
  BY <1>1, TokenInvariant, Invariant, PTL
=============================================================================
