---------------------------- MODULE ChainProofs ----------------------------
(***************************************************************************)
(* Proofs about the two clients that walk a chain of providers.            *)
(*                                                                         *)
(* ProviderChain, for every chain, hello, command and number of parallel   *)
(* requests: the memory of a command answers only what was told and spares *)
(* what it remembers, no stored credential stands in for a provider, and a *)
(* login ends as a get would.                                              *)
(*                                                                         *)
(* ChainRunner, for every list of providers and every hello: the loop of   *)
(* the Rust client and the policy of the model decide the same. The loop   *)
(* keeps a flag and a set where the policy looks back over all the         *)
(* answers, so the invariant says what the two have seen: of the walk      *)
(* (SeenInv) and of its end (EndInv).                                      *)
(***************************************************************************)
EXTENDS ProviderChain, ChainRunner, TLAPS

-----------------------------------------------------------------------------
(* ProviderChain.                                                          *)

(* What is remembered was told, or follows from the hello.                 *)
RememberedWasTold ==
    /\ \A p \in Providers, r \in Registries : <<p, r>> \in declined =>
          \/ ~serves(setup.hello[p], r, setup.perRegistry)
          \/ \E t \in told : /\ t.provider = p /\ t.answer = Declined
                             /\ asks[t.by].registry = r
    /\ \A p \in Providers, r \in Registries, s \in Scopes : <<p, r, s>> \in notFound =>
          \E t \in told : /\ t.provider = p /\ t.answer = NotFound
                          /\ asks[t.by].registry = r /\ asks[t.by].scope = s
                          /\ asks[t.by].operation # "stage-read"

(* What was told is remembered.                                            *)
ToldIsRemembered ==
    \A t \in told :
        /\ t.answer = Declined => <<t.provider, asks[t.by].registry>> \in declined
        /\ t.answer = NotFound /\ asks[t.by].operation # "stage-read" =>
              <<t.provider, asks[t.by].registry, asks[t.by].scope>> \in notFound

(* No entry before the last one heard ended the walk of a get.             *)
WalkInv ==
    \A q \in Requests : ~IsLogin(q) =>
        \A n \in 1..(Len(answers[q]) - 1) : ~StopsAt(Case(q), n)

(* A stored credential is what the chain decided, of what was heard.       *)
ResultInv ==
    \A q \in Requests : result[q] = "stored-credential" =>
        ~IsLogin(q) /\ resolve_chain(Case(q)) = "stored-credential"

Heard == Outcomes \cup {STORED_CREDENTIAL_ENTRY}

(* The question of a request has a registry and a scope of the instance.   *)
LEMMA QuestionTypes ==
    ASSUME TypeOK, NEW q \in Requests
    PROVE  asks[q].registry \in Registries /\ asks[q].scope \in Scopes
<1>1. asks[q] \in Questions
  BY CommandAssumption DEF TypeOK
<1>2. QED
  BY <1>1 DEF Registries, Scopes

(* The chain names providers and npm:token only.                           *)
LEMMA EntryTypes ==
    ASSUME TypeOK, NEW q \in Requests, Walking(q)
    PROVE  /\ Len(setup.chain) \in Nat /\ Len(answers[q]) \in Nat
           /\ Len(answers[q]) < Len(setup.chain)
           /\ Entry(q) \in Providers \cup {STORED_CREDENTIAL_ENTRY}
<1>1. setup.chain \in Seq(Providers \cup {STORED_CREDENTIAL_ENTRY})
  BY SetupAssumption DEF TypeOK
<1>2. answers[q] \in Seq(Heard) /\ Len(answers[q]) <= Len(setup.chain)
  BY DEF TypeOK, Heard
<1>3. Len(answers[q]) # Len(setup.chain)
  BY DEF Walking, Decided
<1>4. /\ Len(setup.chain) \in Nat /\ Len(answers[q]) \in Nat
      /\ Len(answers[q]) < Len(setup.chain)
  BY <1>1, <1>2, <1>3
<1>5. Len(answers[q]) + 1 \in 1..Len(setup.chain)
  BY <1>4
<1>6. Entry(q) \in Providers \cup {STORED_CREDENTIAL_ENTRY}
  BY <1>1, <1>5 DEF Entry
<1>7. QED
  BY <1>4, <1>6

(* What hearing one more answer changes.                                   *)
LEMMA HearSteps ==
    ASSUME TypeOK, NEW q \in Requests, Walking(q), NEW a \in Heard, Hear(q, a)
    PROVE  /\ answers' \in [Requests -> Seq(Heard)]
           /\ Len(answers'[q]) = Len(answers[q]) + 1
           /\ answers'[q][Len(answers[q]) + 1] = a
           /\ \A n \in 1..Len(answers[q]) : answers'[q][n] = answers[q][n]
           /\ \A r \in Requests : r # q => answers'[r] = answers[r]
<1>1. answers \in [Requests -> Seq(Heard)] /\ answers[q] \in Seq(Heard)
  BY DEF TypeOK, Heard
<1>2. answers' = [answers EXCEPT ![q] = Append(answers[q], a)]
  BY DEF Hear
<1>3. Append(answers[q], a) \in Seq(Heard)
  BY <1>1
<1>4. /\ Len(Append(answers[q], a)) = Len(answers[q]) + 1
      /\ Append(answers[q], a)[Len(answers[q]) + 1] = a
      /\ \A n \in 1..Len(answers[q]) : Append(answers[q], a)[n] = answers[q][n]
  BY <1>1
<1>5. answers'[q] = Append(answers[q], a)
  BY <1>1, <1>2
<1>6. QED
  BY <1>1, <1>2, <1>3, <1>4, <1>5

(* The last four variables of a step that hears an answer.                 *)
LEMMA HearTypes ==
    ASSUME TypeOK, NEW q \in Requests, Walking(q), NEW a \in Heard, Hear(q, a),
           UNCHANGED <<config, result>>,
           declined' \subseteq Providers \X Registries,
           notFound' \subseteq Providers \X Registries \X Scopes,
           channel' \in [Providers -> Requests \cup {NoRequest}],
           told' \subseteq [provider : Providers, by : Requests, answer : Outcomes]
    PROVE  TypeOK'
<1>1. answers' \in [Requests -> Seq(Heard)]
  BY HearSteps
<1>2. \A r \in Requests : Len(answers'[r]) <= Len(setup.chain)
  <2>1. Len(answers'[q]) <= Len(setup.chain)
    BY HearSteps, EntryTypes
  <2>2. \A r \in Requests : r # q => answers'[r] = answers[r]
    BY HearSteps
  <2>3. QED
    BY <2>1, <2>2 DEF TypeOK
<1>3. QED
  BY <1>1, <1>2 DEF TypeOK, Heard, config

(* The variables keep their types.                                         *)
THEOREM TypeCorrect == Spec => []TypeOK
<1>1. Init => TypeOK
  BY DEF Init, TypeOK
<1>2. TypeOK /\ [Next]_vars => TypeOK'
  <2> SUFFICES ASSUME TypeOK, [Next]_vars PROVE TypeOK'
    OBVIOUS
  <2>1. CASE UNCHANGED vars
    BY <2>1 DEF TypeOK, vars, config, memory
  <2>2. ASSUME NEW q \in Requests, RequestStep(q) PROVE TypeOK'
    <3> USE DEF memory, config
    <3>1. CASE PassToken(q)
      <4>1. STORED_CREDENTIAL_ENTRY \in Heard /\ Walking(q) /\ Hear(q, STORED_CREDENTIAL_ENTRY)
        BY <3>1 DEF PassToken, Heard
      <4>2. UNCHANGED <<config, result, declined, notFound, channel, told>>
        BY <3>1 DEF PassToken
      <4>3. QED
        BY <4>1, <4>2, HearTypes DEF TypeOK
    <3>2. CASE AnswerFromMemory(q)
      <4>1. PICK a \in {Declined, NotFound} : Hear(q, a)
        BY <3>2 DEF AnswerFromMemory, remembered
      <4>2. Walking(q) /\ UNCHANGED <<config, result, declined, notFound, channel, told>>
        BY <3>2 DEF AnswerFromMemory
      <4>3. a \in Heard
        BY DEF Heard, Outcomes
      <4>4. QED
        BY <4>1, <4>2, <4>3, HearTypes DEF TypeOK
    <3>3. CASE DeclineUnlisted(q)
      <4>1. Walking(q) /\ Hear(q, Declined) /\ Declined \in Heard
        BY <3>3 DEF DeclineUnlisted, Heard, Outcomes
      <4>2. UNCHANGED <<config, result, notFound, channel, told>>
        BY <3>3 DEF DeclineUnlisted
      <4>3. declined' \subseteq Providers \X Registries
        BY <3>3, QuestionTypes DEF DeclineUnlisted, TypeOK
      <4>4. QED
        BY <4>1, <4>2, <4>3, HearTypes DEF TypeOK
    <3>4. CASE Ask(q)
      BY <3>4 DEF Ask, TypeOK
    <3>5. ASSUME NEW a \in Outcomes, Answer(q, a) PROVE TypeOK'
      <4>1. Walking(q) /\ Hear(q, a) /\ a \in Heard /\ Entry(q) \in Providers
        BY <3>5 DEF Answer, Heard
      <4>2. /\ declined' \subseteq Providers \X Registries
            /\ notFound' \subseteq Providers \X Registries \X Scopes
        BY <3>5, <4>1, QuestionTypes DEF Answer, record, TypeOK
      <4>3. /\ channel' \in [Providers -> Requests \cup {NoRequest}]
            /\ told' \subseteq [provider : Providers, by : Requests, answer : Outcomes]
        BY <3>5, <4>1 DEF Answer, TypeOK
      <4>4. UNCHANGED <<config, result>>
        BY <3>5 DEF Answer
      <4>5. QED
        BY <4>1, <4>2, <4>3, <4>4, HearTypes
    <3>6. CASE Decide(q)
      <4>1. resolve_chain(Case(q)) \in {"ok", "fail", "stored-credential", "anonymous", "oidc"}
        BY DEF resolve_chain, StopResult, EndResult
      <4>2. resolve_login_chain(Case(q)) \in {"ok", "fail", "npm-login"}
        BY DEF resolve_login_chain
      <4>3. QED
        BY <3>6, <4>1, <4>2 DEF Decide, TypeOK
    <3>7. QED
      BY <2>2, <3>1, <3>2, <3>3, <3>4, <3>5, <3>6 DEF RequestStep
  <2>3. QED
    BY <2>1, <2>2 DEF Next
<1>3. QED
  BY <1>1, <1>2, PTL DEF Spec
-----------------------------------------------------------------------------

(* What one step does to the answers of a request: it keeps them, or it    *)
(* hears one more, which is npm:token's, the memory's, the hello's or the  *)
(* provider's own.                                                         *)
LEMMA Steps ==
    ASSUME TypeOK, [Next]_vars
    PROVE  /\ UNCHANGED config /\ told \subseteq told'
           /\ \/ answers' = answers
              \/ \E q \in Requests, a \in Heard :
                    /\ Walking(q) /\ Hear(q, a)
                    /\ \/ Entry(q) = STORED_CREDENTIAL_ENTRY /\ a = STORED_CREDENTIAL_ENTRY
                       \/ Entry(q) \in Providers /\ a \in remembered(Entry(q), asks[q])
                       \/ /\ Entry(q) \in Providers /\ a = Declined
                          /\ ~serves(setup.hello[Entry(q)], asks[q].registry,
                                     setup.perRegistry)
                       \/ /\ Entry(q) \in Providers
                          /\ [provider |-> Entry(q), by |-> q, answer |-> a] \in told'
<1>1. CASE UNCHANGED vars
  BY <1>1 DEF vars
<1>2. ASSUME NEW q \in Requests, RequestStep(q)
      PROVE  /\ UNCHANGED config /\ told \subseteq told'
             /\ \/ answers' = answers
                \/ \E a \in Heard :
                    /\ Walking(q) /\ Hear(q, a)
                    /\ \/ Entry(q) = STORED_CREDENTIAL_ENTRY /\ a = STORED_CREDENTIAL_ENTRY
                       \/ Entry(q) \in Providers /\ a \in remembered(Entry(q), asks[q])
                       \/ /\ Entry(q) \in Providers /\ a = Declined
                          /\ ~serves(setup.hello[Entry(q)], asks[q].registry,
                                     setup.perRegistry)
                       \/ /\ Entry(q) \in Providers
                          /\ [provider |-> Entry(q), by |-> q, answer |-> a] \in told'
  <2>1. CASE PassToken(q)
    BY <2>1 DEF PassToken, Heard
  <2>2. CASE AnswerFromMemory(q)
    <3>1. PICK a \in remembered(Entry(q), asks[q]) : Hear(q, a)
      BY <2>2 DEF AnswerFromMemory
    <3>2. a \in Heard
      BY DEF remembered, Heard, Outcomes
    <3>3. QED
      BY <2>2, <3>1, <3>2 DEF AnswerFromMemory
  <2>3. CASE DeclineUnlisted(q)
    BY <2>3 DEF DeclineUnlisted, Heard, Outcomes
  <2>4. CASE Ask(q)
    BY <2>4 DEF Ask
  <2>5. ASSUME NEW a \in Outcomes, Answer(q, a)
        PROVE  /\ UNCHANGED config /\ told \subseteq told'
               /\ Walking(q) /\ Hear(q, a) /\ a \in Heard /\ Entry(q) \in Providers
               /\ [provider |-> Entry(q), by |-> q, answer |-> a] \in told'
    BY <2>5 DEF Answer, Heard
  <2>6. CASE Decide(q)
    BY <2>6 DEF Decide
  <2>7. QED
    BY <1>2, <2>1, <2>2, <2>3, <2>4, <2>5, <2>6 DEF RequestStep
<1>3. QED
  BY <1>1, <1>2 DEF Next

(* What is remembered was told, and what was told is remembered.           *)
LEMMA MemoryStep ==
    ASSUME TypeOK, RememberedWasTold, ToldIsRemembered, [Next]_vars
    PROVE  RememberedWasTold' /\ ToldIsRemembered'
<1> USE DEF config, memory
<1>1. ASSUME UNCHANGED <<config, memory, told>> PROVE RememberedWasTold' /\ ToldIsRemembered'
  BY <1>1 DEF RememberedWasTold, ToldIsRemembered
<1>2. ASSUME NEW q \in Requests, DeclineUnlisted(q)
      PROVE  RememberedWasTold' /\ ToldIsRemembered'
  <2>1. RememberedWasTold'
    BY <1>2 DEF DeclineUnlisted, RememberedWasTold
  <2>2. ToldIsRemembered'
    BY <1>2 DEF DeclineUnlisted, ToldIsRemembered
  <2>3. QED
    BY <2>1, <2>2
<1>3. ASSUME NEW q \in Requests, NEW a \in Outcomes, Answer(q, a)
      PROVE  RememberedWasTold' /\ ToldIsRemembered'
  <2> DEFINE new == [provider |-> Entry(q), by |-> q, answer |-> a]
  <2>1. /\ told' = told \cup {new} /\ UNCHANGED <<setup, asks>>
        /\ new.provider = Entry(q) /\ new.by = q /\ new.answer = a
    BY <1>3 DEF Answer
  <2>2. /\ declined' = IF a = Declined THEN declined \cup {<<Entry(q), asks[q].registry>>}
                                       ELSE declined
        /\ notFound' = IF a = NotFound /\ asks[q].operation # "stage-read"
                       THEN notFound \cup {<<Entry(q), asks[q].registry, asks[q].scope>>}
                       ELSE notFound
    BY <1>3 DEF Answer, record, remembers
  <2> HIDE DEF new
  <2>3. RememberedWasTold'
    <3>1. ASSUME NEW p \in Providers, NEW r \in Registries, <<p, r>> \in declined'
          PROVE  \/ ~serves(setup'.hello[p], r, setup'.perRegistry)
                 \/ \E t \in told' : /\ t.provider = p /\ t.answer = Declined
                                     /\ asks'[t.by].registry = r
      <4>1. CASE <<p, r>> \in declined
        BY <2>1, <4>1 DEF RememberedWasTold
      <4>2. CASE <<p, r>> \notin declined
        BY <2>1, <2>2, <3>1, <4>2
      <4>3. QED
        BY <4>1, <4>2
    <3>2. ASSUME NEW p \in Providers, NEW r \in Registries, NEW s \in Scopes,
                 <<p, r, s>> \in notFound'
          PROVE  \E t \in told' : /\ t.provider = p /\ t.answer = NotFound
                                  /\ asks'[t.by].registry = r /\ asks'[t.by].scope = s
                                  /\ asks'[t.by].operation # "stage-read"
      <4>1. CASE <<p, r, s>> \in notFound
        BY <2>1, <4>1 DEF RememberedWasTold
      <4>2. CASE <<p, r, s>> \notin notFound
        BY <2>1, <2>2, <3>2, <4>2
      <4>3. QED
        BY <4>1, <4>2
    <3>3. QED
      BY <3>1, <3>2 DEF RememberedWasTold
  <2>4. ToldIsRemembered'
    <3>1. declined \subseteq declined' /\ notFound \subseteq notFound'
      BY <2>2
    <3>2. ASSUME NEW t \in told'
          PROVE  /\ t.answer = Declined =>
                       <<t.provider, asks[t.by].registry>> \in declined'
                 /\ t.answer = NotFound /\ asks[t.by].operation # "stage-read" =>
                       <<t.provider, asks[t.by].registry, asks[t.by].scope>> \in notFound'
      <4>1. CASE t \in told
        BY <3>1, <4>1 DEF ToldIsRemembered
      <4>2. CASE t = new
        BY <2>1, <2>2, <4>2
      <4>3. QED
        BY <2>1, <3>2, <4>1, <4>2
    <3>3. QED
      BY <2>1, <3>2 DEF ToldIsRemembered
  <2>5. QED
    BY <2>3, <2>4
<1>4. ASSUME NEW q \in Requests, PassToken(q) \/ AnswerFromMemory(q) \/ Ask(q) \/ Decide(q)
      PROVE  UNCHANGED <<config, memory, told>>
  BY <1>4 DEF PassToken, AnswerFromMemory, Ask, Decide
<1>5. CASE UNCHANGED vars
  BY <1>1, <1>5 DEF vars
<1>6. QED
  BY <1>1, <1>2, <1>3, <1>4, <1>5 DEF Next, RequestStep

(* The provider said a, for the request's question or one it holds for, or *)
(* its hello leaves the registry out.                                      *)
Faithful(p, q, a) ==
    \/ ToldFor(p, q, a)
    \/ a = Declined /\ ~serves(setup.hello[p], asks[q].registry, setup.perRegistry)

(* An answer that is faithful for a question stays so as more is told.      *)
LEMMA FaithfulStays ==
    ASSUME UNCHANGED config, told \subseteq told', NEW p, NEW q, NEW a, Faithful(p, q, a)
    PROVE  Faithful(p, q, a)'
BY DEF Faithful, ToldFor, config

(* What the memory answers was told for that question.                     *)
LEMMA RememberedFaithful ==
    ASSUME TypeOK, RememberedWasTold, NEW q \in Requests, NEW p \in Providers,
           NEW a \in remembered(p, asks[q])
    PROVE  Faithful(p, q, a)
<1>1. asks[q].registry \in Registries /\ asks[q].scope \in Scopes
  BY QuestionTypes
<1>2. CASE <<p, asks[q].registry>> \in declined
  <2>1. a = Declined /\ a # NotFound
    BY <1>2 DEF remembered, Declined, NotFound
  <2>2. QED
    BY <1>1, <1>2, <2>1 DEF RememberedWasTold, Faithful, ToldFor
<1>3. CASE <<p, asks[q].registry>> \notin declined
  <2>1. a = NotFound /\ <<p, asks[q].registry, asks[q].scope>> \in notFound
    BY <1>3 DEF remembered
  <2>2. PICK t \in told : /\ t.provider = p /\ t.answer = NotFound
                          /\ asks[t.by].registry = asks[q].registry
                          /\ asks[t.by].scope = asks[q].scope
                          /\ asks[t.by].operation # "stage-read"
    BY <1>1, <2>1 DEF RememberedWasTold
  <2>3. asks \in Commands /\ t.by \in Requests
    BY DEF TypeOK
  <2>4. asks[q].operation # "stage-read" => asks[t.by].operation = asks[q].operation
    BY <2>2, <2>3, OneOperation
  <2>5. QED
    BY <2>1, <2>2, <2>4 DEF Faithful, ToldFor
<1>4. QED
  BY <1>2, <1>3

(* Every answer npm goes by was given by the provider, for this question   *)
(* or one it holds for: answer_in_chain records no more than it may.       *)
THEOREM MemoryIsFaithful == Spec => []MemoryFaithful
<1> DEFINE Inv == RememberedWasTold /\ ToldIsRemembered /\ MemoryFaithful
<1>1. Init => Inv
  BY DEF Init, RememberedWasTold, ToldIsRemembered, MemoryFaithful
<1>2. TypeOK /\ Inv /\ [Next]_vars => Inv'
  <2> SUFFICES ASSUME TypeOK, Inv, [Next]_vars PROVE Inv'
    OBVIOUS
  <2>1. RememberedWasTold' /\ ToldIsRemembered'
    BY MemoryStep
  <2>2. UNCHANGED config /\ told \subseteq told'
    BY Steps
  <2>3. ASSUME NEW r \in Requests, NEW n \in 1..Len(answers'[r]), setup.chain[n] \in Providers
        PROVE  \E p, a : p = setup.chain[n] /\ a = answers'[r][n] /\ Faithful(p, r, a)'
    <3>1. ASSUME n \in 1..Len(answers[r]), answers'[r][n] = answers[r][n]
          PROVE  \E p, a : p = setup.chain[n] /\ a = answers'[r][n] /\ Faithful(p, r, a)'
      <4>1. Faithful(setup.chain[n], r, answers[r][n])
        BY <2>3, <3>1 DEF MemoryFaithful, Faithful
      <4>2. PICK p, a : p = setup.chain[n] /\ a = answers[r][n] /\ Faithful(p, r, a)
        BY <4>1
      <4>3. Faithful(p, r, a)'
        BY <2>2, <4>2, FaithfulStays
      <4>4. QED
        BY <3>1, <4>2, <4>3
    <3>2. CASE answers' = answers
      BY <2>3, <3>1, <3>2
    <3>3. CASE answers' # answers
      <4>1. PICK q \in Requests, a \in Heard :
              /\ Walking(q) /\ Hear(q, a)
              /\ \/ Entry(q) = STORED_CREDENTIAL_ENTRY /\ a = STORED_CREDENTIAL_ENTRY
                 \/ Entry(q) \in Providers /\ a \in remembered(Entry(q), asks[q])
                 \/ /\ Entry(q) \in Providers /\ a = Declined
                    /\ ~serves(setup.hello[Entry(q)], asks[q].registry, setup.perRegistry)
                 \/ /\ Entry(q) \in Providers
                    /\ [provider |-> Entry(q), by |-> q, answer |-> a] \in told'
        BY <3>3, Steps
      <4>2. /\ Len(answers'[q]) = Len(answers[q]) + 1
            /\ answers'[q][Len(answers[q]) + 1] = a
            /\ \A m \in 1..Len(answers[q]) : answers'[q][m] = answers[q][m]
            /\ \A s \in Requests : s # q => answers'[s] = answers[s]
        BY <4>1, HearSteps
      <4>3. CASE r # q
        BY <2>3, <3>1, <4>2, <4>3
      <4>4. CASE r = q /\ n \in 1..Len(answers[q])
        BY <3>1, <4>2, <4>4
      <4>5. CASE r = q /\ n = Len(answers[q]) + 1
        <5>1. setup.chain[n] = Entry(q) /\ Entry(q) \in Providers /\ a = answers'[r][n]
          BY <2>3, <4>2, <4>5 DEF Entry
        <5>2. PICK p : p = Entry(q)
          OBVIOUS
        <5>3. CASE a \in remembered(Entry(q), asks[q])
          <6>1. Faithful(p, q, a)
            BY <5>1, <5>2, <5>3, RememberedFaithful
          <6>2. Faithful(p, q, a)'
            BY <2>2, <6>1, FaithfulStays
          <6>3. QED
            BY <4>5, <5>1, <5>2, <6>2
        <5>4. CASE a = Declined
                   /\ ~serves(setup.hello[Entry(q)], asks[q].registry, setup.perRegistry)
          <6>1. Faithful(p, q, a)
            BY <5>2, <5>4 DEF Faithful
          <6>2. Faithful(p, q, a)'
            BY <2>2, <6>1, FaithfulStays
          <6>3. QED
            BY <4>5, <5>1, <5>2, <6>2
        <5>5. CASE [provider |-> Entry(q), by |-> q, answer |-> a] \in told'
          <6>1. \E t \in told' : t.provider = p /\ t.by = q /\ t.answer = a
            BY <5>2, <5>5
          <6>2. Faithful(p, q, a)'
            BY <6>1 DEF Faithful, ToldFor
          <6>3. QED
            BY <4>5, <5>1, <5>2, <6>2
        <5>6. QED
          BY <4>1, <5>1, <5>3, <5>4, <5>5, NameAssumption
      <4>6. QED
        <5>1. Len(answers[q]) \in Nat
          BY <4>1, EntryTypes
        <5>2. QED
          BY <2>3, <4>2, <4>3, <4>4, <4>5, <5>1
    <3>4. QED
      BY <3>2, <3>3
  <2>4. MemoryFaithful'
    BY <2>2, <2>3 DEF MemoryFaithful, Faithful, config
  <2>5. QED
    BY <2>1, <2>4
<1>3. QED
  BY <1>1, <1>2, TypeCorrect, PTL DEF Spec

(* A provider is asked nothing that its hello or its earlier answers have  *)
(* answered, whichever request they were given to.                         *)
THEOREM NothingAskedAgain == Spec => NotAskedAgain
<1>1. Init => RememberedWasTold /\ ToldIsRemembered
  BY DEF Init, RememberedWasTold, ToldIsRemembered
<1>2. TypeOK /\ RememberedWasTold /\ ToldIsRemembered /\ [Next]_vars
         => RememberedWasTold' /\ ToldIsRemembered'
  BY MemoryStep
<1>3. TypeOK /\ ToldIsRemembered /\ [Next]_vars
         => [\A p \in Providers : \A q \in Requests :
                channel'[p] = q /\ channel[p] # q => AskedAbout(p, q)]_vars
  <2> SUFFICES ASSUME TypeOK, ToldIsRemembered, [Next]_vars,
                      NEW p \in Providers, NEW q \in Requests,
                      channel'[p] = q, channel[p] # q
               PROVE  AskedAbout(p, q)
    OBVIOUS
  <2>1. PICK r \in Requests : Ask(r) \/ \E a \in Outcomes : Answer(r, a)
    BY DEF Next, RequestStep, PassToken, AnswerFromMemory, DeclineUnlisted, Decide, vars
  <2>2. ASSUME NEW a \in Outcomes, Answer(r, a) PROVE FALSE
    BY <2>2, NameAssumption DEF Answer, TypeOK
  <2>3. Ask(r)
    BY <2>1, <2>2
  <2>4. r = q /\ p = Entry(q)
    BY <2>3, NameAssumption DEF Ask, TypeOK
  <2>5. /\ serves(setup.hello[p], asks[q].registry, setup.perRegistry)
        /\ <<p, asks[q].registry>> \notin declined
        /\ <<p, asks[q].registry, asks[q].scope>> \notin notFound
    BY <2>3, <2>4 DEF Ask, remembered
  <2>6. ~ToldFor(p, q, Declined)
    BY <2>5 DEF ToldFor, ToldIsRemembered
  <2>7. \A t \in told : (t.provider = p /\ t.answer = NotFound) =>
          \/ asks[t.by].operation = "stage-read"
          \/ asks[t.by].registry # asks[q].registry \/ asks[t.by].scope # asks[q].scope
    BY <2>5 DEF ToldIsRemembered
  <2>8. QED
    BY <2>5, <2>6, <2>7 DEF AskedAbout
<1>4. QED
  BY <1>1, <1>2, <1>3, TypeCorrect, PTL DEF Spec, NotAskedAgain
-----------------------------------------------------------------------------

(* Whether an entry ends a walk depends on what was heard up to it only.   *)
LEMMA StopsAtStays ==
    ASSUME TypeOK, NEW q \in Requests, NEW n \in Nat,
           UNCHANGED config, \A m \in 1..n : answers'[q][m] = answers[q][m]
    PROVE  n # 0 => (StopsAt(Case(q), n)' <=> StopsAt(Case(q), n))
<1> SUFFICES ASSUME n # 0 PROVE StopsAt(Case(q), n)' <=> StopsAt(Case(q), n)
  OBVIOUS
<1>1. \A m \in 1..n : Case(q)'.answers[m] = Case(q).answers[m]
  BY DEF Case
<1>2. /\ Case(q)'.chain = Case(q).chain /\ Case(q)'.stored = Case(q).stored
      /\ Case(q)'.behind = Case(q).behind
  BY DEF Case, config
<1>3. n \in 1..n /\ 1..(n - 1) \subseteq 1..n
  OBVIOUS
<1>4. BehindListed(Case(q), n)' <=> BehindListed(Case(q), n)
  BY <1>1, <1>2, <1>3 DEF BehindListed
<1>5. QED
  BY <1>1, <1>2, <1>3, <1>4 DEF StopsAt, IsToken

(* A step appends an answer only where the walk did not stop before.       *)
LEMMA WalkStep ==
    ASSUME TypeOK, WalkInv, [Next]_vars
    PROVE  WalkInv'
<1> SUFFICES ASSUME NEW r \in Requests, ~IsLogin(r)', NEW n \in 1..(Len(answers'[r]) - 1)
             PROVE  ~StopsAt(Case(r), n)'
  BY DEF WalkInv
<1>1. UNCHANGED config
  BY Steps
<1>2. ~IsLogin(r) /\ n \in Nat /\ n # 0
  <2>1. asks' = asks
    BY <1>1 DEF config
  <2>2. QED
    BY <2>1 DEF IsLogin
<1>3. ASSUME n \in 1..(Len(answers[r]) - 1), \A m \in 1..n : answers'[r][m] = answers[r][m]
      PROVE  ~StopsAt(Case(r), n)'
  <2>1. ~StopsAt(Case(r), n)
    BY <1>2, <1>3 DEF WalkInv
  <2>2. QED
    BY <1>1, <1>2, <1>3, <2>1, StopsAtStays
<1>4. CASE answers' = answers
  BY <1>3, <1>4
<1>5. CASE answers' # answers
  <2>1. PICK q \in Requests, a \in Heard : Walking(q) /\ Hear(q, a)
    BY <1>5, Steps
  <2>2. /\ Len(answers'[q]) = Len(answers[q]) + 1 /\ Len(answers[q]) \in Nat
        /\ \A m \in 1..Len(answers[q]) : answers'[q][m] = answers[q][m]
        /\ \A s \in Requests : s # q => answers'[s] = answers[s]
    BY <2>1, HearSteps, EntryTypes
  <2>3. CASE r # q
    BY <1>3, <2>2, <2>3
  <2>4. CASE r = q
    <3>1. n \in 1..Len(answers[q]) /\ \A m \in 1..n : answers'[q][m] = answers[q][m]
      BY <2>2, <2>4
    <3>2. ~Stops(Case(q))
      BY <1>2, <2>1, <2>4 DEF Walking, Decided
    <3>3. ~StopsAt(Case(q), n)
      BY <3>1, <3>2 DEF Stops, Case
    <3>4. QED
      BY <1>1, <1>2, <2>4, <3>1, <3>3, StopsAtStays
  <2>5. QED
    BY <2>3, <2>4
<1>6. QED
  BY <1>4, <1>5

(* A request that was decided hears no more.                               *)
LEMMA ResultStep ==
    ASSUME TypeOK, ResultInv, [Next]_vars
    PROVE  ResultInv'
<1> SUFFICES ASSUME NEW r \in Requests, result'[r] = "stored-credential"
             PROVE  (~IsLogin(r) /\ resolve_chain(Case(r)) = "stored-credential")'
  BY DEF ResultInv
<1>1. UNCHANGED config
  BY Steps
<1>2. ASSUME answers'[r] = answers[r], ~IsLogin(r),
             resolve_chain(Case(r)) = "stored-credential"
      PROVE  (~IsLogin(r) /\ resolve_chain(Case(r)) = "stored-credential")'
  <2>1. Case(r)' = Case(r) /\ IsLogin(r)' = IsLogin(r)
    BY <1>1, <1>2 DEF Case, IsLogin, config
  <2>2. resolve_chain(Case(r))' = resolve_chain(Case(r))
    BY <2>1
  <2>3. QED
    BY <1>2, <2>1, <2>2
<1>3. CASE result[r] = "stored-credential"
  <2>1. answers'[r] = answers[r]
    <3>1. CASE answers' = answers
      BY <3>1
    <3>2. CASE answers' # answers
      <4>1. PICK q \in Requests, a \in Heard : Walking(q) /\ Hear(q, a)
        BY <3>2, Steps
      <4>2. q # r
        BY <1>3, <4>1 DEF Walking
      <4>3. QED
        BY <4>1, <4>2, HearSteps
    <3>3. QED
      BY <3>1, <3>2
  <2>2. QED
    BY <1>2, <1>3, <2>1 DEF ResultInv
<1>4. CASE result[r] # "stored-credential"
  <2>1. PICK q \in Requests : Decide(q)
    BY <1>4 DEF Next, RequestStep, PassToken, AnswerFromMemory, DeclineUnlisted, Ask, Answer,
                vars
  <2>2. /\ q = r /\ answers' = answers
        /\ "stored-credential" = IF IsLogin(r) THEN resolve_login_chain(Case(r))
                                               ELSE resolve_chain(Case(r))
    BY <1>4, <2>1 DEF Decide, TypeOK
  <2>3. resolve_login_chain(Case(r)) # "stored-credential"
    BY DEF resolve_login_chain
  <2>4. QED
    BY <1>2, <2>2, <2>3
<1>5. QED
  BY <1>3, <1>4

(* Where resolve_chain ends with a stored credential, every provider that  *)
(* stands behind the host said not-found, and npm:token is listed.         *)
LEMMA StoredCredential ==
    ASSUME TypeOK, NEW q \in Requests, MemoryFaithful,
           \A n \in 1..(Len(answers[q]) - 1) : ~StopsAt(Case(q), n),
           resolve_chain(Case(q)) = "stored-credential",
           NEW n \in 1..Len(answers[q]), setup.chain[n] \in Providers,
           ListsHost(setup.hello[setup.chain[n]], asks[q].registry)
    PROVE  Listed(Case(q)) /\ answers[q][n] = NotFound
<1> DEFINE c == Case(q)
<1>1. /\ c.chain = setup.chain /\ c.answers = answers[q] /\ c.stored = setup.stored
      /\ c.perRegistry = setup.perRegistry /\ setup.chain[n] \in c.behind
  BY DEF Case
<1>2. /\ Len(answers[q]) \in Nat /\ Len(setup.chain) \in Nat
      /\ Len(answers[q]) <= Len(setup.chain)
  BY SetupAssumption DEF TypeOK
<1>3. c.chain # <<>> /\ ~IsToken(c, n)
  BY <1>1, <1>2, NameAssumption DEF IsToken
<1> HIDE DEF c
<1>4. ASSUME NEW m \in 1..Len(answers[q]) PROVE m = Len(answers[q]) \/ ~StopsAt(c, m)
  BY <1>2 DEF c
<1>5. CASE Stops(c)
  <2> DEFINE last == Len(answers[q])
  <2>1. last \in 1..last /\ StopsAt(c, last)
    BY <1>1, <1>2, <1>4, <1>5 DEF Stops
  <2>2. FirstStop(c, last) /\ \A m \in 1..last : FirstStop(c, m) => m = last
    <3>1. \A m \in 1..(last - 1) : ~StopsAt(c, m)
      BY <1>2, <1>4
    <3>2. QED
      BY <1>2, <2>1, <3>1, <1>4 DEF FirstStop
  <2>3. (CHOOSE m \in 1..Len(c.answers) : FirstStop(c, m)) = last
    BY <1>1, <2>1, <2>2
  <2>4. StopResult(c, last) = "stored-credential"
    BY <1>3, <1>5, <2>3 DEF resolve_chain, c
  <2>5. IsToken(c, last) /\ ~BehindListed(c, last)
    BY <2>4 DEF StopResult
  <2>6. n # last /\ n \in 1..(last - 1)
    BY <1>2, <1>3, <2>5
  <2>7. answers[q][n] # Declined
    BY <1>1, <2>5, <2>6 DEF BehindListed
  <2>8. answers[q][n] \in {Declined, NotFound}
    BY <1>1, <1>3, <1>4, <2>6 DEF StopsAt
  <2>9. Listed(c)
    BY <1>1, <1>2, <2>1, <2>5 DEF Listed, IsToken
  <2>10. QED
    BY <2>7, <2>8, <2>9 DEF c
<1>6. CASE ~Stops(c)
  <2>1. EndResult(c) = "stored-credential"
    BY <1>3, <1>6 DEF resolve_chain, c
  <2>2. n \in 1..Len(c.chain) /\ c.chain[n] \in c.behind
    BY <1>1, <1>2
  <2>3. QED
    BY <2>1, <2>2 DEF EndResult
<1>7. QED
  BY <1>5, <1>6

(* No stored credential stands in for a provider that stands behind the    *)
(* host of the registry: resolve_chain, over answers that the memory may   *)
(* have given, never downgrades.                                           *)
THEOREM NeverDowngrades == Spec => []NoDowngrade
<1>1. Init => WalkInv /\ ResultInv
  BY DEF Init, WalkInv, ResultInv
<1>2. TypeOK /\ WalkInv /\ ResultInv /\ [Next]_vars => WalkInv' /\ ResultInv'
  BY WalkStep, ResultStep
<1>3. TypeOK /\ WalkInv /\ ResultInv /\ MemoryFaithful => NoDowngrade
  <2> SUFFICES ASSUME TypeOK, WalkInv, ResultInv, MemoryFaithful,
                      NEW q \in Requests, result[q] = "stored-credential",
                      NEW n \in 1..Len(answers[q]), setup.chain[n] \in Providers,
                      ListsHost(setup.hello[setup.chain[n]], asks[q].registry)
               PROVE  Listed(Case(q)) /\ ToldFor(setup.chain[n], q, NotFound)
    BY DEF NoDowngrade
  <2>1. ~IsLogin(q) /\ resolve_chain(Case(q)) = "stored-credential"
    BY DEF ResultInv
  <2>2. Listed(Case(q)) /\ answers[q][n] = NotFound
    BY <2>1, StoredCredential DEF WalkInv
  <2>3. ToldFor(setup.chain[n], q, NotFound)
    BY <2>2 DEF MemoryFaithful, Declined, NotFound
  <2>4. QED
    BY <2>2, <2>3
<1>4. QED
  BY <1>1, <1>2, <1>3, TypeCorrect, MemoryIsFaithful, PTL DEF Spec
-----------------------------------------------------------------------------
(* A login against a get.                                                  *)

(* What a step adds to the answers a request has heard.                    *)
LEMMA HeardStep ==
    ASSUME TypeOK, [Next]_vars, NEW r \in Requests
    PROVE  /\ UNCHANGED config /\ Len(answers[r]) \in Nat
           /\ \/ answers'[r] = answers[r]
              \/ /\ Walking(r) /\ Len(answers'[r]) = Len(answers[r]) + 1
                 /\ \A n \in 1..Len(answers[r]) : answers'[r][n] = answers[r][n]
<1>1. UNCHANGED config
  BY Steps
<1>2. Len(answers[r]) \in Nat
  BY DEF TypeOK
<1>3. CASE answers' = answers
  BY <1>1, <1>2, <1>3
<1>4. CASE answers' # answers
  <2>1. PICK q \in Requests, a \in Heard : Walking(q) /\ Hear(q, a)
    BY <1>4, Steps
  <2>2. /\ Len(answers'[q]) = Len(answers[q]) + 1
        /\ \A n \in 1..Len(answers[q]) : answers'[q][n] = answers[q][n]
        /\ \A s \in Requests : s # q => answers'[s] = answers[s]
    BY <2>1, HearSteps
  <2> QED
    BY <1>1, <1>2, <2>1, <2>2
<1> QED
  BY <1>3, <1>4

(* No entry before the last one heard ended the walk of a login.           *)
LoginWalkInv ==
    \A q \in Requests : IsLogin(q) =>
        \A n \in 1..(Len(answers[q]) - 1) : ~LoginStopsAt(Case(q), n)

(* A login that is decided has heard an entry that ends it, or them all.   *)
LoginResultInv ==
    \A q \in Requests : IsLogin(q) /\ result[q] # "walking" =>
        /\ result[q] = resolve_login_chain(Case(q))
        /\ Len(answers[q]) = Len(setup.chain) \/ LoginStops(Case(q))

LEMMA LoginWalkStep ==
    ASSUME TypeOK, LoginWalkInv, [Next]_vars
    PROVE  LoginWalkInv'
<1> SUFFICES ASSUME NEW r \in Requests, IsLogin(r)', NEW n \in 1..(Len(answers'[r]) - 1)
             PROVE  ~LoginStopsAt(Case(r), n)'
  BY DEF LoginWalkInv
<1>1. UNCHANGED config /\ Len(answers[r]) \in Nat
  BY HeardStep
<1>2. IsLogin(r) /\ Case(r)'.chain = Case(r).chain
  BY <1>1 DEF config, IsLogin, Case
<1>3. ASSUME answers'[r][n] = answers[r][n], ~LoginStopsAt(Case(r), n)
      PROVE  ~LoginStopsAt(Case(r), n)'
  BY <1>2, <1>3 DEF LoginStopsAt, IsToken, Case
<1>4. CASE answers'[r] = answers[r]
  BY <1>2, <1>3, <1>4 DEF LoginWalkInv
<1>5. CASE /\ Walking(r) /\ Len(answers'[r]) = Len(answers[r]) + 1
           /\ \A m \in 1..Len(answers[r]) : answers'[r][m] = answers[r][m]
  <2>1. n \in 1..Len(answers[r])
    BY <1>1, <1>5
  <2>2. ~LoginStops(Case(r))
    BY <1>2, <1>5 DEF Walking, Decided
  <2>3. ~LoginStopsAt(Case(r), n)
    BY <2>1, <2>2 DEF LoginStops, Case
  <2> QED
    BY <1>3, <1>5, <2>1, <2>3
<1> QED
  BY <1>4, <1>5, HeardStep

LEMMA LoginResultStep ==
    ASSUME TypeOK, LoginResultInv, [Next]_vars
    PROVE  LoginResultInv'
<1> SUFFICES ASSUME NEW r \in Requests, IsLogin(r)', result'[r] # "walking"
             PROVE  /\ (result[r] = resolve_login_chain(Case(r)))'
                    /\ (Len(answers[r]) = Len(setup.chain) \/ LoginStops(Case(r)))'
  BY DEF LoginResultInv
<1>1. UNCHANGED config
  BY HeardStep
<1>2. IsLogin(r)
  BY <1>1 DEF config, IsLogin
<1>3. ASSUME answers'[r] = answers[r]
      PROVE  /\ Case(r)' = Case(r)
             /\ resolve_login_chain(Case(r))' = resolve_login_chain(Case(r))
             /\ LoginStops(Case(r))' = LoginStops(Case(r))
  <2>1. Case(r)' = Case(r)
    BY <1>1, <1>3 DEF Case, IsLogin, config
  <2> QED
    BY <2>1
<1>4. CASE result'[r] = result[r]
  <2>1. ~Walking(r)
    BY <1>4 DEF Walking
  <2>2. answers'[r] = answers[r]
    BY <2>1, HeardStep
  <2> QED
    BY <1>1, <1>2, <1>3, <1>4, <2>2 DEF LoginResultInv, config
<1>5. CASE result'[r] # result[r]
  <2>1. PICK q \in Requests : Decide(q)
    BY <1>5 DEF Next, RequestStep, PassToken, AnswerFromMemory, DeclineUnlisted, Ask, Answer,
                vars
  <2>2. /\ q = r /\ answers' = answers /\ Decided(r)
        /\ result'[r] = resolve_login_chain(Case(r))
    BY <1>2, <1>5, <2>1 DEF Decide, TypeOK
  <2>3. Len(answers[r]) = Len(setup.chain) \/ LoginStops(Case(r))
    BY <1>2, <2>2 DEF Decided, Case
  <2> QED
    BY <1>1, <1>3, <2>2, <2>3 DEF config
<1> QED
  BY <1>4, <1>5

(* The two policies of one case: a login stops where a get with a token    *)
(* stored would, and ends alike.                                           *)
LEMMA LoginAgainstGet ==
    ASSUME NEW c, NEW g, g.chain = c.chain, g.answers = c.answers,
           g.perRegistry = c.perRegistry, g.behind = c.behind, g.stored, ~g.exchanged,
           c.chain # <<>>, Len(c.chain) \in Nat, Len(c.answers) \in Nat,
           \A n \in 1..(Len(c.answers) - 1) : ~LoginStopsAt(c, n),
           Len(c.answers) = Len(c.chain) \/ LoginStops(c)
    PROVE  /\ resolve_login_chain(c) = "ok" <=> resolve_chain(g) = "ok"
           /\ resolve_chain(g) = "stored-credential" => resolve_login_chain(c) = "npm-login"
           /\ (resolve_login_chain(c) = "npm-login" /\ \A n \in 1..Len(c.answers) :
                  c.answers[n] = Declined => c.chain[n] \notin c.behind)
              => resolve_chain(g) = "stored-credential"
<1> DEFINE last == Len(c.answers)
<1>1. \A n : StopsAt(g, n) <=> LoginStopsAt(c, n)
  BY DEF StopsAt, LoginStopsAt, IsToken
<1>2. Stops(g) <=> LoginStops(c)
  BY <1>1 DEF Stops, LoginStops
<1>3. CASE LoginStops(c)
  <2>1. last \in 1..last /\ LoginStopsAt(c, last)
        /\ \A m \in 1..last : LoginStopsAt(c, m) => m = last
    BY <1>3 DEF LoginStops
  <2>2. \A m \in 1..last : m \in 1..(last - 1) => m # last
    OBVIOUS
  <2>3. last = CHOOSE n \in 1..Len(c.answers) :
                   LoginStopsAt(c, n) /\ \A m \in 1..(n - 1) : ~LoginStopsAt(c, m)
    BY <2>1
  <2>4. \A n \in 1..last : FirstStop(g, n) <=> n = last
    BY <1>1, <2>1 DEF FirstStop
  <2>5. last = CHOOSE n \in 1..Len(g.answers) : FirstStop(g, n)
    BY <2>1, <2>4
  <2>6. resolve_chain(g) = StopResult(g, last)
    BY <1>2, <1>3, <2>5 DEF resolve_chain
  <2>7. resolve_login_chain(c) = IF IsToken(c, last) THEN "npm-login"
                                 ELSE IF c.answers[last] = "ok" THEN "ok" ELSE "fail"
    BY <1>3, <2>3 DEF resolve_login_chain
  <2>8. BehindListed(g, last) => \E n \in 1..last : c.answers[n] = Declined /\ c.chain[n] \in c.behind
    BY DEF BehindListed
  <2> QED
    BY <2>6, <2>7, <2>8 DEF StopResult, IsToken
<1>4. CASE ~LoginStops(c)
  <2>1. last = Len(c.chain)
    BY <1>4
  <2>2. resolve_chain(g) = EndResult(g)
    BY <1>2, <1>4 DEF resolve_chain
  <2>3. resolve_login_chain(c) = IF ~c.perRegistry /\ ~Listed(c) /\ ~Said(c, NotFound)
                                 THEN "npm-login" ELSE "fail"
    BY <1>4 DEF resolve_login_chain
  <2>4. Listed(g) = Listed(c) /\ Said(g, NotFound) = Said(c, NotFound)
    BY DEF Listed, Said
  <2>5. \A n \in 1..last : c.answers[n] \in {Declined, NotFound}
    BY <1>4 DEF LoginStops, LoginStopsAt
  <2>6. ~Said(c, NotFound) => \A n \in 1..last : c.answers[n] = Declined
    BY <2>5 DEF Said
  <2> QED
    BY <2>1, <2>2, <2>3, <2>4, <2>6 DEF EndResult
<1> QED
  BY <1>3, <1>4

(* For every chain, hello and interleaving, the policy of npm login agrees *)
(* with that of a get made with a token stored (resolve_login_chain,       *)
(* resolve_chain): a provider takes the one exactly if one would answer    *)
(* the other, and a token is stored wherever the get would send it. Where  *)
(* a provider declined a form of a host that its hello lists, the login    *)
(* may store one that no get sends; the theorem does not exclude that.     *)
THEOREM LoginsEndAsGets == Spec => []LoginEndsAsGet
<1>1. Init => LoginWalkInv /\ LoginResultInv
  BY DEF Init, LoginWalkInv, LoginResultInv
<1>2. TypeOK /\ LoginWalkInv /\ LoginResultInv /\ [Next]_vars => LoginWalkInv' /\ LoginResultInv'
  BY LoginWalkStep, LoginResultStep
<1>3. TypeOK /\ LoginWalkInv /\ LoginResultInv => LoginEndsAsGet
  <2> SUFFICES ASSUME TypeOK, LoginWalkInv, LoginResultInv, NEW q \in Requests,
                      IsLogin(q), result[q] # "walking", setup.chain # <<>>
               PROVE  LET get == resolve_chain([Case(q) EXCEPT !.stored = TRUE]) IN
                      /\ result[q] = "ok" <=> get = "ok"
                      /\ get = "stored-credential" => result[q] = "npm-login"
                      /\ (result[q] = "npm-login" /\ \A n \in 1..Len(answers[q]) :
                             answers[q][n] = Declined => setup.chain[n] \notin Case(q).behind)
                         => get = "stored-credential"
    BY DEF LoginEndsAsGet
  <2> DEFINE c == Case(q)
             g == [c EXCEPT !.stored = TRUE]
  <2>1. /\ c.chain = setup.chain /\ c.answers = answers[q]
        /\ g.chain = c.chain /\ g.answers = c.answers /\ g.perRegistry = c.perRegistry
        /\ g.behind = c.behind /\ g.stored /\ ~g.exchanged
    BY DEF Case
  <2>2. Len(setup.chain) \in Nat /\ Len(answers[q]) \in Nat
    BY SetupAssumption DEF TypeOK
  <2>3. /\ result[q] = resolve_login_chain(c)
        /\ Len(answers[q]) = Len(setup.chain) \/ LoginStops(c)
    BY DEF LoginResultInv
  <2>4. \A n \in 1..(Len(answers[q]) - 1) : ~LoginStopsAt(c, n)
    BY DEF LoginWalkInv
  <2> HIDE DEF c, g
  <2>5. /\ resolve_login_chain(c) = "ok" <=> resolve_chain(g) = "ok"
        /\ resolve_chain(g) = "stored-credential" => resolve_login_chain(c) = "npm-login"
        /\ (resolve_login_chain(c) = "npm-login" /\ \A n \in 1..Len(c.answers) :
               c.answers[n] = Declined => c.chain[n] \notin c.behind)
           => resolve_chain(g) = "stored-credential"
    BY <2>1, <2>2, <2>3, <2>4, LoginAgainstGet
  <2> QED
    BY <2>1, <2>3, <2>5 DEF c, g
<1>4. QED
  BY <1>1, <1>2, <1>3, TypeCorrect, PTL DEF Spec

-----------------------------------------------------------------------------
(* ChainRunner.                                                            *)

Passing == {Declined, NotFound}
Passed(n) == \A i \in 1..n : heard[i] \in Passing

SeenInv ==
    /\ Passed(Len(heard) - 1)
    /\ returned = "walking" => Passed(Len(heard))
    /\ not_found <=> \E i \in 1..Len(heard) : heard[i] = NotFound
    /\ Passed(Len(heard)) =>
          \A p \in ListedProviders :
             p \in listing <=> \E i \in 1..Len(heard) :
                                  list[i] = p /\ ListsHost(hello[p], Registry)

EndInv ==
    \/ returned = "walking"
    \/ Len(heard) > 0 /\ heard[Len(heard)] = returned /\ returned \in {"ok", "fail"}
    \/ Passed(Len(heard)) /\ Len(heard) = Len(list) /\ returned = AfterLoop

-----------------------------------------------------------------------------
(* Types of the loop.                                                      *)

(* The provider the walk stands at is an entry of the list.                *)
LEMMA CurrentIsListed ==
    ASSUME RunnerTypeOK, AtProvider
    PROVE  /\ Current \in ListedProviders /\ Current = list[Len(heard) + 1]
           /\ Len(heard) \in Nat /\ Len(heard) + 1 \in 1..Len(list)
<1>1. list \in Seq(ListedProviders)
  BY ListAssumption DEF RunnerTypeOK
<1>2. Len(heard) \in Nat /\ Len(list) \in Nat
  BY <1>1 DEF RunnerTypeOK
<1>3. QED
  BY <1>1, <1>2 DEF AtProvider, Current

(* A step of the walk adds one outcome, and nothing before it changes.     *)
LEMMA Hearing ==
    ASSUME RunnerTypeOK, AtProvider, NEW answer \in Outcomes, heard' = Append(heard, answer)
    PROVE  /\ heard' \in Seq(Outcomes) /\ Len(heard') = Len(heard) + 1
           /\ Len(heard') <= Len(list)
           /\ \A i \in 1..Len(heard) : heard'[i] = heard[i]
           /\ heard'[Len(heard) + 1] = answer
<1>1. heard \in Seq(Outcomes)
  BY DEF RunnerTypeOK
<1>2. QED
  BY <1>1, CurrentIsListed

(* What the walk notes of a hello is a set of providers.                   *)
LEMMA ListingTyped ==
    ASSUME RunnerTypeOK, AtProvider
    PROVE  Listing \subseteq ListedProviders
BY CurrentIsListed DEF Listing, RunnerTypeOK

(* Every variable of the loop keeps its type.                              *)
THEOREM RunnerTypeCorrect == RunnerSpec => []RunnerTypeOK
<1>1. RunnerInit => RunnerTypeOK
  <2> SUFFICES ASSUME RunnerInit PROVE RunnerTypeOK
    OBVIOUS
  <2>1. list \in Seq(ListedProviders)
    BY ListAssumption DEF RunnerInit
  <2>2. heard \in Seq(Outcomes) /\ Len(heard) = 0 /\ Len(list) \in Nat
    BY <2>1 DEF RunnerInit
  <2>3. QED
    <3>1. Len(heard) <= Len(list)
      BY <2>2
    <3>2. returned \in {"walking", "ok", "fail", "as-no-provider"} /\ listing \subseteq ListedProviders
      BY DEF RunnerInit
    <3>3. not_found \in BOOLEAN
      BY DEF RunnerInit
    <3>4. list \in Lists /\ perRegistry \in BOOLEAN /\ hello \in Hellos
      BY DEF RunnerInit
    <3>5. QED
      BY <2>2, <3>1, <3>2, <3>3, <3>4, Zenon DEF RunnerTypeOK
<1>2. RunnerTypeOK /\ [RunnerNext]_runnerVars => RunnerTypeOK'
  <2> SUFFICES ASSUME RunnerTypeOK, [RunnerNext]_runnerVars PROVE RunnerTypeOK'
    OBVIOUS
  <2>1. CASE NotServed
    BY <2>1, Hearing, ListingTyped DEF NotServed, RunnerTypeOK, Outcomes
  <2>2. ASSUME NEW answer \in Outcomes, Passes(answer) PROVE RunnerTypeOK'
    BY <2>2, Hearing, ListingTyped DEF Passes, RunnerTypeOK
  <2>3. CASE Answers
    BY <2>3, Hearing, ListingTyped DEF Answers, RunnerTypeOK, Outcomes
  <2>4. CASE Fails
    BY <2>4, Hearing DEF Fails, RunnerTypeOK, Outcomes
  <2>5. CASE Return
    BY <2>5 DEF Return, AfterLoop, RunnerTypeOK
  <2>6. CASE UNCHANGED runnerVars
    BY <2>6 DEF runnerVars, RunnerTypeOK
  <2>7. QED
    BY <2>1, <2>2, <2>3, <2>4, <2>5, <2>6 DEF RunnerNext
<1>3. QED
  BY <1>1, <1>2, PTL DEF RunnerSpec

-----------------------------------------------------------------------------
(* What the walk has seen.                                                 *)

(* The set of providers grows by the current one when it lists the host.   *)
LEMMA ListingStep ==
    ASSUME RunnerTypeOK, SeenInv, AtProvider, UNCHANGED <<list, hello>>,
           Len(heard') = Len(heard) + 1, listing' = Listing
    PROVE  \A p \in ListedProviders :
              p \in listing' <=> \E i \in 1..Len(heard') :
                                    list'[i] = p /\ ListsHost(hello'[p], Registry)
<1>1. Passed(Len(heard))
  BY DEF SeenInv, AtProvider
<1>2. ASSUME NEW p \in ListedProviders
      PROVE  p \in Listing <=> \/ p \in listing
                               \/ p = Current /\ ListsHost(hello[p], Registry)
  BY CurrentIsListed DEF Listing
<1>3. ASSUME NEW p \in ListedProviders
      PROVE  p \in listing <=> \E i \in 1..Len(heard) :
                                  list[i] = p /\ ListsHost(hello[p], Registry)
  BY <1>1 DEF SeenInv
<1>4. 1..(Len(heard) + 1) = 1..Len(heard) \cup {Len(heard) + 1}
  BY CurrentIsListed
<1>5. QED
  BY <1>2, <1>3, <1>4, CurrentIsListed

(* A step of the loop keeps the record of the providers passed.            *)
LEMMA SeenStep == RunnerTypeOK /\ SeenInv /\ [RunnerNext]_runnerVars => SeenInv'
<1> SUFFICES ASSUME RunnerTypeOK, SeenInv, [RunnerNext]_runnerVars PROVE SeenInv'
  OBVIOUS
<1>1. ASSUME NEW answer \in Outcomes, AtProvider, heard' = Append(heard, answer)
      PROVE  /\ Passed(Len(heard) - 1)'
             /\ answer \in Passing => Passed(Len(heard))'
             /\ answer \notin Passing => ~Passed(Len(heard))'
             /\ (\E i \in 1..Len(heard') : heard'[i] = NotFound)
                <=> not_found \/ answer = NotFound
  <2>1. /\ Len(heard) \in Nat /\ Len(heard') = Len(heard) + 1
        /\ \A i \in 1..Len(heard) : heard'[i] = heard[i]
        /\ heard'[Len(heard) + 1] = answer
    BY <1>1, Hearing, CurrentIsListed
  <2>2. \A i \in 1..Len(heard) : heard[i] \in Passing
    BY <1>1 DEF SeenInv, AtProvider, Passed
  <2>3. 1..(Len(heard) + 1) = 1..Len(heard) \cup {Len(heard) + 1}
    BY <2>1
  <2>4. Passed(Len(heard) - 1)'
    BY <2>1, <2>2 DEF Passed
  <2>5. answer \in Passing => Passed(Len(heard))'
    BY <2>1, <2>2, <2>3 DEF Passed
  <2>6. answer \notin Passing => ~Passed(Len(heard))'
    BY <2>1 DEF Passed
  <2>7. (\E i \in 1..Len(heard') : heard'[i] = NotFound)
           <=> not_found \/ answer = NotFound
    BY <2>1, <2>3 DEF SeenInv
  <2>8. QED
    BY <2>4, <2>5, <2>6, <2>7
<1>2. CASE NotServed
  <2>1. AtProvider /\ heard' = Append(heard, Declined) /\ Declined \in Outcomes
    BY <1>2 DEF NotServed, Outcomes
  <2>2. Declined \in Passing /\ Declined # NotFound
    BY DEF Passing, Declined, NotFound
  <2>3. \A p \in ListedProviders :
           p \in listing' <=> \E i \in 1..Len(heard') :
                                 list'[i] = p /\ ListsHost(hello'[p], Registry)
    BY <1>2, <2>1, Hearing, ListingStep DEF NotServed
  <2>4. not_found' = not_found
    BY <1>2 DEF NotServed
  <2>5. QED
    BY <1>1, <2>1, <2>2, <2>3, <2>4 DEF SeenInv
<1>3. ASSUME NEW answer \in Outcomes, Passes(answer) PROVE SeenInv'
  <2>1. AtProvider /\ heard' = Append(heard, answer) /\ answer \in Passing
    BY <1>3 DEF Passes, Passing
  <2>2. \A p \in ListedProviders :
           p \in listing' <=> \E i \in 1..Len(heard') :
                                 list'[i] = p /\ ListsHost(hello'[p], Registry)
    BY <1>3, <2>1, Hearing, ListingStep DEF Passes
  <2>3. not_found' = (not_found \/ answer = NotFound)
    BY <1>3 DEF Passes
  <2>4. QED
    BY <1>1, <2>1, <2>2, <2>3 DEF SeenInv
<1>4. ASSUME NEW answer \in {"ok", "fail"}, AtProvider, heard' = Append(heard, answer),
             returned' = answer, not_found' = not_found
      PROVE  SeenInv'
  <2>1. answer \in Outcomes /\ answer \notin Passing /\ answer # NotFound
    BY DEF Outcomes, Passing, Declined, NotFound
  <2>2. returned' # "walking"
    BY <1>4
  <2>3. QED
    BY <1>1, <1>4, <2>1, <2>2 DEF SeenInv
<1>5. CASE Answers
  BY <1>4, <1>5 DEF Answers
<1>6. CASE Fails
  BY <1>4, <1>6 DEF Fails
<1>7. CASE Return
  BY <1>7 DEF Return, AfterLoop, SeenInv, Passed
<1>8. CASE UNCHANGED runnerVars
  BY <1>8 DEF runnerVars, SeenInv, Passed
<1>9. QED
  BY <1>2, <1>3, <1>5, <1>6, <1>7, <1>8 DEF RunnerNext

(* A step of the loop keeps what a finished walk returned.                 *)
LEMMA EndStep == RunnerTypeOK /\ SeenInv /\ EndInv /\ [RunnerNext]_runnerVars => EndInv'
<1> SUFFICES ASSUME RunnerTypeOK, SeenInv, EndInv, [RunnerNext]_runnerVars PROVE EndInv'
  OBVIOUS
<1>1. CASE NotServed \/ \E answer \in Outcomes : Passes(answer)
  BY <1>1 DEF NotServed, Passes, AtProvider, EndInv
<1>2. ASSUME NEW answer \in {"ok", "fail"}, AtProvider, heard' = Append(heard, answer),
             returned' = answer
      PROVE  EndInv'
  <2>1. answer \in Outcomes
    BY DEF Outcomes
  <2>2. Len(heard) \in Nat /\ Len(heard') = Len(heard) + 1 /\ heard'[Len(heard) + 1] = answer
    BY <1>2, <2>1, Hearing, CurrentIsListed
  <2>3. QED
    BY <1>2, <2>2 DEF EndInv
<1>3. CASE Answers
  BY <1>2, <1>3 DEF Answers
<1>4. CASE Fails
  BY <1>2, <1>4 DEF Fails
<1>5. CASE Return
  BY <1>5 DEF Return, EndInv, SeenInv, Passed, AfterLoop
<1>6. CASE UNCHANGED runnerVars
  BY <1>6 DEF runnerVars, EndInv, Passed, AfterLoop
<1>7. QED
  BY <1>1, <1>3, <1>4, <1>5, <1>6 DEF RunnerNext

-----------------------------------------------------------------------------
(* What the policy makes of it.                                            *)

(* The fields of the policy case that stands for this walk.                *)
LEMMA CaseFields ==
    ASSUME RunnerTypeOK, NEW stored \in BOOLEAN
    PROVE  /\ RunnerCase(stored).chain = list /\ RunnerCase(stored).answers = heard
           /\ RunnerCase(stored).stored = stored /\ RunnerCase(stored).perRegistry = perRegistry
           /\ RunnerCase(stored).behind = {p \in ListedProviders : ListsHost(hello[p], Registry)}
           /\ ~RunnerCase(stored).exchanged /\ RunnerCase(stored).chain # <<>>
           /\ Len(heard) \in Nat /\ Len(list) \in Nat /\ Len(heard) <= Len(list)
           /\ \A n \in 1..Len(list) : list[n] \in ListedProviders /\ ~IsToken(RunnerCase(stored), n)
           /\ ~Listed(RunnerCase(stored))
<1>1. list \in Seq(ListedProviders) /\ list # <<>>
  BY ListAssumption DEF RunnerTypeOK
<1>2. \A n \in 1..Len(list) : list[n] \in ListedProviders /\ list[n] # STORED_CREDENTIAL_ENTRY
  BY <1>1, ListAssumption
<1>3. /\ RunnerCase(stored).chain = list /\ RunnerCase(stored).answers = heard
      /\ RunnerCase(stored).stored = stored /\ RunnerCase(stored).perRegistry = perRegistry
      /\ RunnerCase(stored).behind = {p \in ListedProviders : ListsHost(hello[p], Registry)}
      /\ ~RunnerCase(stored).exchanged
  BY DEF RunnerCase
<1>4. Len(heard) \in Nat /\ Len(list) \in Nat /\ Len(heard) <= Len(list)
  BY <1>1 DEF RunnerTypeOK
<1>5. QED
  BY <1>1, <1>2, <1>3, <1>4 DEF IsToken, Listed

(* A walk that stopped at its last answer: the policy stops there too.     *)
LEMMA PolicyStops ==
    ASSUME RunnerTypeOK, SeenInv, NEW stored \in BOOLEAN, Len(heard) > 0,
           heard[Len(heard)] = returned, returned \in {"ok", "fail"}
    PROVE  resolve_chain(RunnerCase(stored)) = returned
<1> DEFINE c == RunnerCase(stored)
           last == Len(heard)
<1>1. /\ c.chain # <<>> /\ ~c.exchanged /\ c.answers = heard
      /\ last \in Nat /\ \A n \in 1..last : ~IsToken(c, n)
  BY CaseFields
<1> HIDE DEF c
<1>2. \A n \in 1..last : StopsAt(c, n) <=> heard[n] \notin Passing
  BY <1>1 DEF StopsAt, Passing
<1>3. last \in 1..last /\ StopsAt(c, last)
  BY <1>1, <1>2 DEF Passing, Declined, NotFound
<1>4. \A n \in 1..(last - 1) : ~StopsAt(c, n)
  BY <1>1, <1>2 DEF SeenInv, Passed
<1>5. FirstStop(c, last) /\ \A n \in 1..last : FirstStop(c, n) => n = last
  BY <1>1, <1>3, <1>4 DEF FirstStop
<1>6. (CHOOSE n \in 1..Len(c.answers) : FirstStop(c, n)) = last
  BY <1>1, <1>3, <1>5
<1>7. resolve_chain(c) = StopResult(c, last)
  BY <1>1, <1>3, <1>6 DEF resolve_chain, Stops
<1>8. StopResult(c, last) = returned
  BY <1>1, <1>3 DEF StopResult
<1>9. QED
  BY <1>7, <1>8 DEF c

(* A walk that every provider passed: the policy ends as the loop did.     *)
LEMMA PolicyEnds ==
    ASSUME RunnerTypeOK, SeenInv, NEW stored \in BOOLEAN,
           Passed(Len(heard)), Len(heard) = Len(list)
    PROVE  resolve_chain(RunnerCase(stored)) =
              IF AfterLoop = "fail" THEN "fail"
              ELSE IF stored THEN "stored-credential" ELSE "anonymous"
<1> DEFINE c == RunnerCase(stored)
<1>1. /\ c.chain = list /\ c.answers = heard /\ c.stored = stored
      /\ c.perRegistry = perRegistry /\ c.chain # <<>> /\ ~c.exchanged /\ ~Listed(c)
      /\ c.behind = {p \in ListedProviders : ListsHost(hello[p], Registry)}
      /\ \A n \in 1..Len(list) : list[n] \in ListedProviders /\ ~IsToken(c, n)
  BY CaseFields
<1> HIDE DEF c
<1>2. ~Stops(c)
  BY <1>1 DEF Stops, StopsAt, Passed, Passing
<1>3. Said(c, NotFound) <=> not_found
  BY <1>1 DEF Said, SeenInv
<1>4. listing # {} <=> \E n \in 1..Len(c.chain) : c.chain[n] \in c.behind
  <2>1. \A p \in ListedProviders :
           p \in listing <=> \E i \in 1..Len(heard) :
                                list[i] = p /\ ListsHost(hello[p], Registry)
    BY DEF SeenInv
  <2>2. listing \subseteq ListedProviders
    BY DEF RunnerTypeOK
  <2>3. QED
    BY <1>1, <2>1, <2>2
<1>5. resolve_chain(c) = EndResult(c)
  BY <1>1, <1>2 DEF resolve_chain
<1>6. QED
  BY <1>1, <1>3, <1>4, <1>5 DEF EndResult, AfterLoop, c

(* run_provider_chain_with decides what resolve_chain decides, for every   *)
(* list of providers, every hello and every sequence of answers.           *)
THEOREM RunnerDecidesAsPolicy == RunnerSpec => []RunnerAgrees
<1>1. RunnerInit => SeenInv /\ EndInv
  BY DEF RunnerInit, SeenInv, EndInv, Passed
<1>2. RunnerTypeOK /\ SeenInv /\ EndInv /\ [RunnerNext]_runnerVars => SeenInv' /\ EndInv'
  BY SeenStep, EndStep
<1>3. RunnerTypeOK /\ SeenInv /\ EndInv => RunnerAgrees
  <2> SUFFICES ASSUME RunnerTypeOK, SeenInv, EndInv, returned # "walking",
                      NEW stored \in BOOLEAN
               PROVE  LET policy == resolve_chain(RunnerCase(stored)) IN
                      /\ returned = "ok" <=> policy = "ok"
                      /\ returned = "fail" <=> policy = "fail"
                      /\ returned = "as-no-provider" <=>
                            policy = IF stored THEN "stored-credential" ELSE "anonymous"
    BY DEF RunnerAgrees
  <2>1. CASE Len(heard) > 0 /\ heard[Len(heard)] = returned /\ returned \in {"ok", "fail"}
    <3>1. resolve_chain(RunnerCase(stored)) = returned
      BY <2>1, PolicyStops
    <3>2. QED
      BY <2>1, <3>1
  <2>2. CASE Passed(Len(heard)) /\ Len(heard) = Len(list) /\ returned = AfterLoop
    <3>1. resolve_chain(RunnerCase(stored)) =
             IF AfterLoop = "fail" THEN "fail"
             ELSE IF stored THEN "stored-credential" ELSE "anonymous"
      BY <2>2, PolicyEnds
    <3>2. AfterLoop \in {"fail", "as-no-provider"}
      BY DEF AfterLoop
    <3>3. QED
      BY <2>2, <3>1, <3>2
  <2>3. QED
    BY <2>1, <2>2 DEF EndInv
<1>4. QED
  BY <1>1, <1>2, <1>3, RunnerTypeCorrect, PTL DEF RunnerSpec
=============================================================================
