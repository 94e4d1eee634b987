------------------------ MODULE CredentialCacheProofs ------------------------
(***************************************************************************)
(* Theorems of CredentialCache: its type invariant, and, for any number of *)
(* requests, contexts, tokens and answers, the safety properties its runs  *)
(* check on small instances. Every theorem is an induction over the steps  *)
(* of a registry request; each later one uses the invariants before it.    *)
(***************************************************************************)
EXTENDS CredentialCache, TLAPS

(* One request exchanges at a time.                                        *)
ChannelInv ==
    /\ \A q \in Requests : pc[q] \in {"get", "erase", "retry"} <=> q \in channel
    /\ \A p, q \in channel : p = q

(* A request that reached the registry carries an answer.                  *)
PhaseInv ==
    \A q \in Requests : pc[q] \in {"sent", "wantErase", "erase"} => carried[q] # 0

TypeInv == TypeOK /\ ChannelInv /\ PhaseInv

(* What was dropped was answered before; retired answers are not served.   *)
RetireInv ==
    /\ \A t \in Tokens : dropped[t] <= Len(issued)
    /\ RetiredNotServed
    /\ NoDroppedValueCached

(* An erase was built for an answer only as it was retired.                *)
EraseInv ==
    \A i \in Ids : /\ erases[i] <= 1
                   /\ erases[i] # 0 => i \in retired

(* How often a request has left, by where it is.                           *)
SendInv ==
    \A q \in Requests :
        /\ sends[q] <= 2
        /\ ~retried[q] => sends[q] <= 1
        /\ pc[q] \in {"start", "get"} => sends[q] = 0 /\ ~retried[q]
        /\ pc[q] \in {"wantRetry", "retry"} => sends[q] <= 1 /\ retried[q]

(* An answer to a write is bound to its operation, and to the package if   *)
(* one was named.                                                          *)
WellBound(iss) ==
    iss.context.operation # "read" =>
        /\ ~iss.independent
        /\ iss.context.package # None => iss.granularity = "package"

CoverInv ==
    /\ \A i \in 1..Len(issued) : WellBound(issued[i])
    /\ \A k \in Keys : cache[k] # 0 => k = cache_key(issued[cache[k]])
    /\ CarriedCovers

-----------------------------------------------------------------------------
(* Lemmas about the operators.                                             *)

(* The keys a lookup looks at are keys of the context, at some level, for  *)
(* the operation or for none.                                              *)
LEMMA LookupKeys ==
    ASSUME NEW c \in Contexts, NEW n \in 1..6
    PROVE  /\ \E g \in Granularities, op \in {None, c.operation} :
                 LookupOrder(c)[n] = KeyFor(g, c, op)
           /\ LookupOrder(c)[n] \in Keys
<1>1. \E g \in Granularities, op \in {None, c.operation} : LookupOrder(c)[n] = KeyFor(g, c, op)
  <2>1. CASE n = 1
    BY <2>1 DEF LookupOrder, Granularities
  <2>2. CASE n = 2
    BY <2>2 DEF LookupOrder, Granularities
  <2>3. CASE n = 3
    BY <2>3 DEF LookupOrder, Granularities
  <2>4. CASE n = 4
    BY <2>4 DEF LookupOrder, Granularities
  <2>5. CASE n = 5
    BY <2>5 DEF LookupOrder, Granularities
  <2>6. CASE n = 6
    BY <2>6 DEF LookupOrder, Granularities
  <2>7. QED
    BY <2>1, <2>2, <2>3, <2>4, <2>5, <2>6
<1>2. LookupOrder(c)[n] \in Keys
  BY <1>1 DEF Keys
<1>3. QED
  BY <1>1, <1>2

(* What a request is answered with is an issuance, bound as a write needs. *)
LEMMA IssuanceTypes ==
    ASSUME NEW q \in Requests, NEW ok \in Answers
    PROVE  IssuanceOf(q, ok) \in Issuance /\ WellBound(IssuanceOf(q, ok))
<1>1. ContextOf[q] \in Contexts
  BY ContextAssumption
<1>2. /\ ok.auth \in Tokens /\ ok.cache \in Policies /\ ok.granularity \in Granularities
      /\ ok.independent \in BOOLEAN
  BY AnswerAssumption
<1>3. CASE ContextOf[q].operation = "read"
  BY <1>1, <1>2, <1>3 DEF IssuanceOf, Binding, Issuance, WellBound
<1>4. CASE ContextOf[q].operation # "read"
  <2>1. Binding(ContextOf[q], ok.granularity, ok.independent).granularity \in Granularities
    BY <1>2, <1>4 DEF Binding, Granularities
  <2>2. Binding(ContextOf[q], ok.granularity, ok.independent).independent = FALSE
    BY <1>4 DEF Binding
  <2>3. ContextOf[q].package # None =>
          Binding(ContextOf[q], ok.granularity, ok.independent).granularity = "package"
    BY <1>4 DEF Binding
  <2>4. QED
    BY <1>1, <1>2, <2>1, <2>2, <2>3 DEF IssuanceOf, Issuance, WellBound
<1>5. QED
  BY <1>3, <1>4

(* An answer is stored at most under its own key; the others are kept.     *)
LEMMA StoredTypes ==
    ASSUME TypeOK, NEW iss, NEW id
    PROVE  /\ DOMAIN Stored(iss, id) = Keys
           /\ \A k \in Keys : \/ Stored(iss, id)[k] = cache[k]
                              \/ k = cache_key(iss) /\ Stored(iss, id)[k] = id
  BY DEF Stored, TypeOK
-----------------------------------------------------------------------------
(* Type correctness.                                                       *)

(* Recording an answer keeps the ones recorded before at their place.      *)
LEMMA AppendTypes ==
    ASSUME NEW s \in Seq(Issuance), NEW iss \in Issuance
    PROVE  /\ Append(s, iss) \in Seq(Issuance)
           /\ Len(Append(s, iss)) = Len(s) + 1
           /\ Append(s, iss)[Len(s) + 1] = iss
           /\ \A i \in 1..Len(s) : Append(s, iss)[i] = s[i]
           /\ Len(s) \in Nat
  OBVIOUS

(* A lookup only removes entries.                                          *)
LEMMA SweptTypes ==
    ASSUME TypeOK, NEW c, NEW n
    PROVE  /\ DOMAIN Swept(c, n) = Keys
           /\ \A k \in Keys : Swept(c, n)[k] \in {0, cache[k]}
           /\ Swept(c, n) \in [Keys -> 0..Len(issued)]
<1>1. Swept(c, n) = [k \in Keys |-> Swept(c, n)[k]]
  BY DEF Swept
<1>2. \A k \in Keys : Swept(c, n)[k] \in {0, cache[k]}
  BY DEF Swept
<1>3. \A k \in Keys : cache[k] \in 0..Len(issued) /\ 0 \in 0..Len(issued)
  BY DEF TypeOK
<1>4. QED
  BY <1>1, <1>2, <1>3

(* Retiring keeps the types, and removes entries only.                     *)
LEMMA RetireTypes ==
    ASSUME NEW from \in Seq(Issuance), NEW table \in [Keys -> 0..Len(from)],
           NEW already \in SUBSET (1..Len(from)), NEW i \in 1..Len(from),
           Len(from) <= MaxIssued, dropped \in [Tokens -> 0..MaxIssued],
           RetireFrom(from, table, already, i)
    PROVE  /\ cache' \in [Keys -> 0..Len(from)]
           /\ retired' \subseteq 1..Len(from)
           /\ dropped' \in [Tokens -> 0..MaxIssued]
<1>1. Len(from) \in Nat /\ SameAuth(from, i) \subseteq 1..Len(from)
  BY DEF SameAuth
<1>2. cache' \in [Keys -> 0..Len(from)]
  BY <1>1 DEF RetireFrom
<1>3. {table[k] : k \in Retires(from, table, i)} \subseteq 1..Len(from)
  BY <1>1 DEF Retires
<1>4. retired' \subseteq 1..Len(from)
  BY <1>3 DEF RetireFrom
<1>5. dropped' \in [Tokens -> 0..MaxIssued]
  <2>1. Len(from) \in 0..MaxIssued
    BY <1>1, BoundAssumption
  <2>2. dropped' = [dropped EXCEPT ![from[i].auth] = Len(from)]
    BY DEF RetireFrom
  <2>3. QED
    BY <2>1, <2>2
<1>6. QED
  BY <1>2, <1>4, <1>5

(* The cache with an answer stored holds it or what it held.               *)
LEMMA StoredRange ==
    ASSUME TypeOK, NEW iss
    PROVE  Stored(iss, Len(issued) + 1) \in [Keys -> 0..(Len(issued) + 1)]
<1>1. Len(issued) \in Nat /\ cache \in [Keys -> 0..(Len(issued) + 1)]
  BY DEF TypeOK
<1>2. Len(issued) + 1 \in 0..(Len(issued) + 1)
  BY <1>1
<1>3. [cache EXCEPT ![cache_key(iss)] = Len(issued) + 1] \in [Keys -> 0..(Len(issued) + 1)]
  BY <1>1, <1>2
<1>4. QED
  BY <1>1, <1>3 DEF Stored

(* What a request carries when it leaves with a cached answer.             *)
LEMMA HitTypes ==
    ASSUME TypeOK, NEW c \in Contexts, NEW n \in 1..6, HitAt(c, n)
    PROVE  cache[LookupOrder(c)[n]] \in 1..Len(issued)
<1>1. LookupOrder(c)[n] \in Keys
  BY LookupKeys
<1>2. cache[LookupOrder(c)[n]] \in 0..Len(issued) /\ cache[LookupOrder(c)[n]] # 0
  BY <1>1 DEF TypeOK, HitAt, Serves
<1>3. QED
  BY <1>2

Phases == {"start", "get", "sent", "wantErase", "erase", "wantRetry", "retry", "done",
           "failed"}

(* The variables keep their types, the channel has at most one request and *)
(* what reached the registry carries an answer.                            *)
THEOREM TypeInvariant == Spec => []TypeInv
<1> USE BoundAssumption
<1>1. Init => TypeInv
  <2> SUFFICES ASSUME Init PROVE TypeInv
    OBVIOUS
  <2>1. issued \in Seq(Issuance) /\ Len(issued) = 0
    BY DEF Init
  <2>2. /\ pc \in [Requests -> Phases] /\ sends \in [Requests -> Nat]
        /\ carried \in [Requests -> 0..Len(issued)] /\ refused \in [Requests -> 0..Len(issued)]
        /\ retried \in [Requests -> BOOLEAN]
    BY <2>1 DEF Init, Phases
  <2>3. /\ cache \in [Keys -> 0..Len(issued)] /\ erases \in [Ids -> Nat]
        /\ dropped \in [Tokens -> 0..MaxIssued]
    BY <2>1 DEF Init
  <2>4. retired = {} /\ lapsed = {} /\ channel = {}
        /\ \A q \in Requests : pc[q] \in {"start", "done"}
    BY DEF Init
  <2>5. TypeOK
    BY <2>1, <2>2, <2>3, <2>4 DEF TypeOK, Phases
  <2>6. ChannelInv /\ PhaseInv
    BY <2>4 DEF ChannelInv, PhaseInv
  <2>7. QED
    BY <2>5, <2>6 DEF TypeInv
<1>2. TypeInv /\ [Next]_vars => TypeInv'
  <2> SUFFICES ASSUME TypeInv, [Next]_vars PROVE TypeInv'
    OBVIOUS
  <2> USE DEF TypeInv, Phases
  <2>0. /\ Len(issued) \in Nat
        /\ TypeOK /\ ChannelInv /\ PhaseInv
    BY DEF TypeOK
  <2>u. CASE UNCHANGED vars
    BY <2>0, <2>u DEF TypeOK, ChannelInv, PhaseInv, vars, store, requests, history
  <2>l. ASSUME NEW i \in Ids, Lapse(i) PROVE TypeInv'
    BY <2>0, <2>l DEF Lapse, TypeOK, ChannelInv, PhaseInv, store, requests, history
  <2>r. ASSUME NEW q \in Requests, RequestStep(q) PROVE TypeInv'
    <3> USE <2>0 DEF store, requests, history
    <3>c. ContextOf[q] \in Contexts
      BY ContextAssumption
    <3>h. ASSUME NEW n \in 1..6, HitAt(ContextOf[q], n),
                 cache' = Swept(ContextOf[q], n),
                 Leave(q, cache[LookupOrder(ContextOf[q])[n]]),
                 pc[q] \in {"start", "sent"}, retried' \in [Requests -> BOOLEAN],
                 UNCHANGED <<issued, retired, lapsed, refused, channel, erases, dropped>>
          PROVE TypeInv'
      <4>1. cache[LookupOrder(ContextOf[q])[n]] \in 1..Len(issued)
        BY <3>c, <3>h, HitTypes
      <4>2. cache' \in [Keys -> 0..Len(issued)]
        BY <3>h, SweptTypes
      <4>3. /\ carried' \in [Requests -> 0..Len(issued)] /\ pc' \in [Requests -> Phases]
            /\ sends' \in [Requests -> Nat]
        BY <3>h, <4>1 DEF Leave, TypeOK
      <4>4. TypeOK'
        BY <3>h, <4>2, <4>3 DEF TypeOK
      <4>5. ChannelInv' /\ PhaseInv'
        BY <3>h, <4>1 DEF Leave, ChannelInv, PhaseInv, TypeOK
      <4>6. QED
        BY <4>4, <4>5
    <3>a. ASSUME NEW ok \in Answers, pc[q] \in {"get", "retry"}, Len(issued) < MaxIssued,
                 issued' = Append(issued, IssuanceOf(q, ok)),
                 Leave(q, Len(issued) + 1), channel' = {},
                 cache' \in [Keys -> 0..(Len(issued) + 1)],
                 retired' \subseteq 1..(Len(issued) + 1),
                 dropped' \in [Tokens -> 0..MaxIssued],
                 refused' \in [Requests -> 0..Len(issued)],
                 UNCHANGED <<lapsed, retried, erases>>
          PROVE TypeInv'
      <4>1. issued' \in Seq(Issuance) /\ Len(issued') = Len(issued) + 1
        BY <3>a, IssuanceTypes, AppendTypes DEF TypeOK
      <4>2. Len(issued') <= MaxIssued
        BY <3>a, <4>1
      <4>3. /\ carried' \in [Requests -> 0..Len(issued')] /\ pc' \in [Requests -> Phases]
            /\ sends' \in [Requests -> Nat] /\ refused' \in [Requests -> 0..Len(issued')]
        BY <3>a, <4>1 DEF Leave, TypeOK
      <4>4. TypeOK'
        BY <3>a, <4>1, <4>2, <4>3 DEF TypeOK
      <4>5. \A p \in Requests : p # q => pc[p] \notin {"get", "erase", "retry"}
        BY <3>a DEF ChannelInv
      <4>6. ChannelInv'
        BY <3>a, <4>5 DEF Leave, ChannelInv, TypeOK
      <4>7. PhaseInv'
        BY <3>a DEF Leave, PhaseInv, TypeOK
      <4>8. QED
        BY <4>4, <4>6, <4>7
    <3>1. CASE UseCached(q)
      BY <3>1, <3>h DEF UseCached, TypeOK
    <3>2. CASE SendGet(q)
      <4>1. cache' \in [Keys -> 0..Len(issued)]
        BY <3>2, SweptTypes DEF SendGet
      <4>2. TypeOK'
        BY <3>2, <4>1 DEF SendGet, TypeOK
      <4>3. ChannelInv' /\ PhaseInv'
        BY <3>2 DEF SendGet, ChannelInv, PhaseInv, TypeOK
      <4>4. QED
        BY <4>2, <4>3
    <3>3. CASE GetAnswered(q)
      <4>1. PICK ok \in Answers : /\ issued' = Append(issued, IssuanceOf(q, ok))
                                  /\ cache' = Stored(IssuanceOf(q, ok), Len(issued) + 1)
        BY <3>3 DEF GetAnswered
      <4>2. cache' \in [Keys -> 0..(Len(issued) + 1)]
        BY <4>1, StoredRange
      <4>3. retired' \subseteq 1..(Len(issued) + 1)
        BY <3>3 DEF GetAnswered, TypeOK
      <4>4. QED
        BY <3>3, <3>a, <4>1, <4>2, <4>3 DEF GetAnswered, TypeOK
    <3>4. CASE GetFails(q)
      BY <3>4 DEF GetFails, TypeOK, ChannelInv, PhaseInv
    <3>5. CASE Accepted(q)
      BY <3>5 DEF Accepted, TypeOK, ChannelInv, PhaseInv
    <3>6. CASE Reject401(q)
      <4>1. carried[q] \in 1..Len(issued)
        BY <3>6 DEF Reject401, TypeOK, PhaseInv
      <4>2. /\ cache' \in [Keys -> 0..Len(issued)] /\ retired' \subseteq 1..Len(issued)
            /\ dropped' \in [Tokens -> 0..MaxIssued]
        BY <3>6, <4>1, RetireTypes DEF Reject401, TypeOK
      <4>3. erases' \in [Ids -> Nat]
        <5>1. erases \in [Ids -> Nat] /\ erases' = [erases EXCEPT ![carried[q]] = @ + 1]
          BY <3>6 DEF Reject401, TypeOK
        <5>2. erases[carried[q]] + 1 \in Nat
          BY <4>1, <5>1 DEF TypeOK, Ids
        <5>3. QED
          BY <5>1, <5>2
      <4>4. TypeOK'
        BY <3>6, <4>2, <4>3 DEF Reject401, TypeOK
      <4>5. ChannelInv' /\ PhaseInv'
        BY <3>6, <4>1 DEF Reject401, ChannelInv, PhaseInv, TypeOK
      <4>6. QED
        BY <4>4, <4>5
    <3>7. CASE SendErase(q)
      BY <3>7 DEF SendErase, TypeOK, ChannelInv, PhaseInv
    <3>8. CASE EraseAnswered(q)
      BY <3>8 DEF EraseAnswered, TypeOK, ChannelInv, PhaseInv
    <3>9. CASE Reject403(q)
      <4>1. TypeOK'
        BY <3>9 DEF Reject403, TypeOK
      <4>2. ChannelInv' /\ PhaseInv'
        BY <3>9 DEF Reject403, TypeOK, ChannelInv, PhaseInv
      <4>3. QED
        BY <4>1, <4>2
    <3>10. CASE RejectStale(q)
      <4>1. retried' \in [Requests -> BOOLEAN]
        BY <3>10 DEF RejectStale, TypeOK
      <4>2. CASE Miss(ContextOf[q]) /\ cache' = Swept(ContextOf[q], 6)
                   /\ pc' = [pc EXCEPT ![q] = "wantRetry"] /\ UNCHANGED <<carried, sends>>
        <5>1. cache' \in [Keys -> 0..Len(issued)]
          BY <4>2, SweptTypes
        <5>2. TypeOK'
          BY <3>10, <4>1, <4>2, <5>1 DEF RejectStale, TypeOK
        <5>3. ChannelInv' /\ PhaseInv'
          BY <3>10, <4>2 DEF RejectStale, TypeOK, ChannelInv, PhaseInv
        <5>4. QED
          BY <5>2, <5>3
      <4>3. CASE ~(Miss(ContextOf[q]) /\ cache' = Swept(ContextOf[q], 6)
                     /\ pc' = [pc EXCEPT ![q] = "wantRetry"] /\ UNCHANGED <<carried, sends>>)
        BY <3>10, <3>h, <4>1, <4>3 DEF RejectStale
      <4>4. QED
        BY <4>2, <4>3
    <3>11. CASE RejectFinal(q)
      BY <3>11 DEF RejectFinal, TypeOK, ChannelInv, PhaseInv
    <3>12. CASE SendRetry(q)
      BY <3>12 DEF SendRetry, TypeOK, ChannelInv, PhaseInv
    <3>13. CASE RetryAnswered(q)
      <4>1. PICK ok \in Answers :
              /\ issued' = Append(issued, IssuanceOf(q, ok))
              /\ IF refused[q] # 0
                 THEN RetireFrom(Append(issued, IssuanceOf(q, ok)),
                                 Stored(IssuanceOf(q, ok), Len(issued) + 1), retired, refused[q])
                 ELSE /\ cache' = Stored(IssuanceOf(q, ok), Len(issued) + 1)
                      /\ UNCHANGED <<retired, dropped>>
        BY <3>13 DEF RetryAnswered
      <4>2. Stored(IssuanceOf(q, ok), Len(issued) + 1) \in [Keys -> 0..(Len(issued) + 1)]
        BY StoredRange
      <4>3. /\ issued' \in Seq(Issuance) /\ Len(issued') = Len(issued) + 1
            /\ Len(issued') <= MaxIssued
        BY <3>13, <4>1, IssuanceTypes, AppendTypes DEF RetryAnswered, TypeOK, ChannelInv
      <4>4. /\ cache' \in [Keys -> 0..(Len(issued) + 1)]
            /\ retired' \subseteq 1..(Len(issued) + 1)
            /\ dropped' \in [Tokens -> 0..MaxIssued]
        <5>1. CASE refused[q] # 0
          <6>1. refused[q] \in 1..Len(issued')
            BY <4>3, <5>1 DEF TypeOK
          <6>2. retired \subseteq 1..Len(issued')
            BY <4>3 DEF TypeOK
          <6>3. RetireFrom(issued', Stored(IssuanceOf(q, ok), Len(issued) + 1), retired,
                           refused[q])
            BY <4>1, <5>1
          <6>4. dropped \in [Tokens -> 0..MaxIssued]
            BY DEF TypeOK
          <6>5. QED
            BY <4>2, <4>3, <6>1, <6>2, <6>3, <6>4, RetireTypes
        <5>2. CASE refused[q] = 0
          <6>1. cache' = Stored(IssuanceOf(q, ok), Len(issued) + 1)
                /\ retired' = retired /\ dropped' = dropped
            BY <4>1, <5>2
          <6>2. retired \subseteq 1..(Len(issued) + 1) /\ dropped \in [Tokens -> 0..MaxIssued]
            BY DEF TypeOK
          <6>3. QED
            BY <4>2, <6>1, <6>2
        <5>3. QED
          BY <5>1, <5>2
      <4>5. refused' \in [Requests -> 0..Len(issued)]
        BY <3>13 DEF RetryAnswered, TypeOK
      <4>6. QED
        BY <3>13, <3>a, <4>1, <4>4, <4>5 DEF RetryAnswered
    <3>14. QED
      BY <2>r, <3>1, <3>2, <3>3, <3>4, <3>5, <3>6, <3>7, <3>8, <3>9, <3>10, <3>11, <3>12,
         <3>13 DEF RequestStep
  <2>q. QED
    BY <2>u, <2>l, <2>r DEF Next
<1>3. QED
  BY <1>1, <1>2, PTL DEF Spec

(* Each variable of the client's cache has its type in every state.        *)
THEOREM TypeCorrect == Spec => []TypeOK
<1>1. TypeInv => TypeOK
  BY DEF TypeInv
<1>2. QED
  BY <1>1, TypeInvariant, PTL
-----------------------------------------------------------------------------
(* What a step does to the cache, the answers and the retired ones.        *)

Removes == /\ \A k \in Keys : cache'[k] \in {0, cache[k]}
           /\ UNCHANGED <<issued, retired, dropped>>
Records(iss) == issued' = Append(issued, iss)
Caches(iss)  == cache' = Stored(iss, Len(issued) + 1) /\ UNCHANGED <<retired, dropped>>
Replaces(iss, i) ==
    RetireFrom(Append(issued, iss), Stored(iss, Len(issued) + 1), retired, i)

(* What a step may do to the cache and the retired answers: remove,        *)
(* retire one answer, or record a new one (and cache it, or let it         *)
(* replace one).                                                           *)
LEMMA StoreSteps ==
    ASSUME TypeInv, [Next]_vars
    PROVE  \/ Removes
           \/ \E i \in 1..Len(issued) : issued' = issued /\ RetireFrom(issued, cache, retired, i)
           \/ \E q \in Requests, ok \in Answers :
                /\ Records(IssuanceOf(q, ok))
                /\ \/ Caches(IssuanceOf(q, ok))
                   \/ \E i \in 1..Len(issued) : Replaces(IssuanceOf(q, ok), i)
<1> DEFINE Goal ==
           \/ Removes
           \/ \E i \in 1..Len(issued) : issued' = issued /\ RetireFrom(issued, cache, retired, i)
           \/ \E q \in Requests, ok \in Answers :
                /\ Records(IssuanceOf(q, ok))
                /\ \/ Caches(IssuanceOf(q, ok))
                   \/ \E i \in 1..Len(issued) : Replaces(IssuanceOf(q, ok), i)
<1>0. TypeOK /\ PhaseInv /\ Len(issued) \in Nat
  BY DEF TypeInv, TypeOK
<1>1. ASSUME UNCHANGED store, UNCHANGED dropped PROVE Goal
  BY <1>1 DEF store, Removes
<1>2. ASSUME NEW c, NEW n, cache' = Swept(c, n), UNCHANGED <<issued, retired, dropped>>
      PROVE  Goal
  BY <1>0, <1>2, SweptTypes DEF Removes
<1>3. CASE UNCHANGED vars
  BY <1>1, <1>3 DEF vars, store, history
<1>4. ASSUME NEW i \in Ids, Lapse(i) PROVE Goal
  BY <1>1, <1>4 DEF Lapse, history
<1>5. ASSUME NEW q \in Requests, RequestStep(q) PROVE Goal
  <2>1. CASE UseCached(q)
    BY <2>1, <1>2 DEF UseCached
  <2>2. CASE SendGet(q)
    BY <2>2, <1>2 DEF SendGet, history
  <2>3. CASE GetAnswered(q)
    <3>1. PICK ok \in Answers : /\ issued' = Append(issued, IssuanceOf(q, ok))
                                /\ cache' = Stored(IssuanceOf(q, ok), Len(issued) + 1)
      BY <2>3 DEF GetAnswered
    <3>2. Records(IssuanceOf(q, ok)) /\ Caches(IssuanceOf(q, ok))
      BY <2>3, <3>1 DEF GetAnswered, Records, Caches
    <3>3. QED
      BY <3>2
  <2>4. CASE GetFails(q) \/ Accepted(q) \/ SendErase(q) \/ EraseAnswered(q) \/ Reject403(q)
               \/ RejectFinal(q) \/ SendRetry(q)
    BY <2>4, <1>1 DEF GetFails, Accepted, SendErase, EraseAnswered, Reject403, RejectFinal,
                      SendRetry, store, history
  <2>5. CASE Reject401(q)
    <3>1. carried[q] \in 1..Len(issued)
      BY <1>0, <2>5 DEF Reject401, TypeOK, PhaseInv
    <3>2. QED
      BY <2>5, <3>1 DEF Reject401
  <2>6. CASE RejectStale(q)
    BY <2>6, <1>2 DEF RejectStale
  <2>7. CASE RetryAnswered(q)
    <3>1. PICK ok \in Answers :
            /\ issued' = Append(issued, IssuanceOf(q, ok))
            /\ IF refused[q] # 0
               THEN RetireFrom(Append(issued, IssuanceOf(q, ok)),
                               Stored(IssuanceOf(q, ok), Len(issued) + 1), retired, refused[q])
               ELSE /\ cache' = Stored(IssuanceOf(q, ok), Len(issued) + 1)
                    /\ UNCHANGED <<retired, dropped>>
      BY <2>7 DEF RetryAnswered
    <3>2. Records(IssuanceOf(q, ok))
      BY <3>1 DEF Records
    <3>3. CASE refused[q] # 0
      <4>1. refused[q] \in 1..Len(issued)
        BY <1>0, <3>3 DEF TypeOK
      <4>2. Replaces(IssuanceOf(q, ok), refused[q])
        BY <3>1, <3>3 DEF Replaces
      <4>3. QED
        BY <3>2, <4>1, <4>2
    <3>4. CASE refused[q] = 0
      BY <3>1, <3>2, <3>4 DEF Caches
    <3>5. QED
      BY <3>3, <3>4
  <2>8. QED
    BY <1>5, <2>1, <2>2, <2>3, <2>4, <2>5, <2>6, <2>7 DEF RequestStep
<1>6. QED
  BY <1>3, <1>4, <1>5 DEF Next

-----------------------------------------------------------------------------
(* Rejected values and retired answers stay out of the cache.              *)

(* The invariant's part about a cache and the answers, retired ones and    *)
(* last droppings it goes with.                                            *)
Clean(from, table, already, last) ==
    /\ \A t \in Tokens : last[t] <= Len(from)
    /\ \A k \in Keys : table[k] # 0 =>
          table[k] \notin already /\ table[k] > last[from[table[k]].auth]

(* Retiring one answer leaves a clean cache clean.                         *)
LEMMA RetireKeepsClean ==
    ASSUME NEW from \in Seq(Issuance), NEW table \in [Keys -> 0..Len(from)],
           NEW already, NEW i \in 1..Len(from),
           dropped \in [Tokens -> 0..MaxIssued],
           Clean(from, table, already, dropped),
           RetireFrom(from, table, already, i)
    PROVE  Clean(from, cache', retired', dropped')
<1>1. /\ Len(from) \in Nat /\ from[i].auth \in Tokens /\ i \in SameAuth(from, i)
      /\ \A j \in 1..Len(from) : from[j].auth \in Tokens
  <2>1. \A j \in 1..Len(from) : from[j] \in Issuance
    OBVIOUS
  <2>2. \A j \in 1..Len(from) : from[j].auth \in Tokens
    BY <2>1 DEF Issuance
  <2>3. QED
    BY <2>2 DEF SameAuth
<1>2. \A t \in Tokens : dropped'[t] = IF t = from[i].auth THEN Len(from) ELSE dropped[t]
  BY <1>1 DEF RetireFrom
<1>3. \A t \in Tokens : dropped'[t] <= Len(from)
  BY <1>1, <1>2 DEF Clean
<1>4. ASSUME NEW k \in Keys, cache'[k] # 0
      PROVE  cache'[k] \notin retired' /\ cache'[k] > dropped'[from[cache'[k]].auth]
  <2>1. k \notin Retires(from, table, i) /\ cache'[k] = table[k]
    BY <1>4 DEF RetireFrom
  <2>2. table[k] \notin SameAuth(from, i) /\ table[k] \in 1..Len(from)
    BY <1>4, <2>1 DEF Retires
  <2>3. from[table[k]].auth # from[i].auth
    BY <2>2 DEF SameAuth
  <2>4. table[k] \notin already /\ table[k] > dropped[from[table[k]].auth]
    BY <1>4, <2>1 DEF Clean
  <2>5. table[k] \notin retired'
    BY <1>1, <2>2, <2>4 DEF RetireFrom, Retires
  <2>6. QED
    BY <1>1, <1>2, <2>1, <2>2, <2>3, <2>4, <2>5
<1>5. QED
  BY <1>3, <1>4 DEF Clean

(* Storing a new answer leaves a clean cache clean.                        *)
LEMMA StoreKeepsClean ==
    ASSUME TypeOK, NEW iss \in Issuance, Clean(issued, cache, retired, dropped)
    PROVE  Clean(Append(issued, iss), Stored(iss, Len(issued) + 1), retired, dropped)
<1>1. Len(issued) \in Nat /\ retired \subseteq 1..Len(issued) /\ iss.auth \in Tokens
      /\ \A t \in Tokens : dropped[t] \in Nat /\ dropped[t] <= Len(issued)
  BY BoundAssumption DEF TypeOK, Issuance, Clean
<1>2. /\ Len(Append(issued, iss)) = Len(issued) + 1
      /\ Append(issued, iss)[Len(issued) + 1] = iss
      /\ \A j \in 1..Len(issued) : Append(issued, iss)[j] = issued[j]
  BY AppendTypes DEF TypeOK
<1>3. ASSUME NEW k \in Keys, Stored(iss, Len(issued) + 1)[k] # 0
      PROVE  LET j == Stored(iss, Len(issued) + 1)[k]
             IN  j \notin retired /\ j > dropped[Append(issued, iss)[j].auth]
  <2>1. CASE Stored(iss, Len(issued) + 1)[k] = cache[k]
    <3>1. cache[k] \in 1..Len(issued)
      BY <1>3, <2>1 DEF TypeOK
    <3>2. QED
      BY <1>2, <1>3, <2>1, <3>1 DEF Clean
  <2>2. CASE Stored(iss, Len(issued) + 1)[k] = Len(issued) + 1
    BY <1>1, <1>2, <2>2
  <2>3. QED
    BY <2>1, <2>2, StoredTypes
<1>4. \A t \in Tokens : dropped[t] <= Len(Append(issued, iss))
  BY <1>1, <1>2
<1>5. QED
  BY <1>3, <1>4 DEF Clean

(* No answer that was erased, or reported rejected, is in the cache        *)
(* again, whatever order parallel requests store, erase and retry in       *)
(* (_retire and get of the model).                                        *)
THEOREM RetireInvariant == Spec => []RetireInv
<1>1. Init => RetireInv
  BY DEF Init, RetireInv, RetiredNotServed, NoDroppedValueCached
<1>2. TypeInv /\ TypeInv' /\ RetireInv /\ [Next]_vars => RetireInv'
  <2> SUFFICES ASSUME TypeInv, TypeInv', RetireInv, [Next]_vars PROVE RetireInv'
    OBVIOUS
  <2>1. Clean(issued, cache, retired, dropped)
    BY DEF RetireInv, RetiredNotServed, NoDroppedValueCached, Clean
  <2>2. SUFFICES Clean(issued', cache', retired', dropped')
    BY DEF RetireInv, RetiredNotServed, NoDroppedValueCached, Clean
  <2>t. /\ TypeOK /\ Len(issued) \in Nat /\ issued \in Seq(Issuance)
        /\ cache \in [Keys -> 0..Len(issued)] /\ dropped \in [Tokens -> 0..MaxIssued]
    BY DEF TypeInv, TypeOK
  <2>3. CASE Removes
    BY <2>1, <2>3 DEF Removes, Clean
  <2>4. ASSUME NEW i \in 1..Len(issued), issued' = issued,
               RetireFrom(issued, cache, retired, i)
        PROVE  Clean(issued', cache', retired', dropped')
    BY <2>1, <2>4, <2>t, RetireKeepsClean
  <2>5. ASSUME NEW q \in Requests, NEW ok \in Answers, Records(IssuanceOf(q, ok)),
               \/ Caches(IssuanceOf(q, ok))
               \/ \E i \in 1..Len(issued) : Replaces(IssuanceOf(q, ok), i)
        PROVE  Clean(issued', cache', retired', dropped')
    <3>1. IssuanceOf(q, ok) \in Issuance
      BY IssuanceTypes
    <3>2. Clean(issued', Stored(IssuanceOf(q, ok), Len(issued) + 1), retired, dropped)
      BY <2>1, <2>5, <2>t, <3>1, StoreKeepsClean DEF Records
    <3>3. CASE Caches(IssuanceOf(q, ok))
      BY <3>2, <3>3 DEF Caches
    <3>4. ASSUME NEW i \in 1..Len(issued), Replaces(IssuanceOf(q, ok), i)
          PROVE  Clean(issued', cache', retired', dropped')
      <4>1. /\ issued' \in Seq(Issuance) /\ Len(issued') = Len(issued) + 1
            /\ i \in 1..Len(issued')
        BY <2>5, <2>t, <3>1, AppendTypes DEF Records
      <4>2. Stored(IssuanceOf(q, ok), Len(issued) + 1) \in [Keys -> 0..Len(issued')]
        BY <2>t, <4>1, StoredRange
      <4>3. RetireFrom(issued', Stored(IssuanceOf(q, ok), Len(issued) + 1), retired, i)
        BY <2>5, <3>4 DEF Records, Replaces
      <4>4. QED
        BY <2>t, <3>2, <4>1, <4>2, <4>3, RetireKeepsClean
    <3>5. QED
      BY <2>5, <3>3, <3>4
  <2>6. QED
    BY <2>3, <2>4, <2>5, StoreSteps
<1>3. QED
  BY <1>1, <1>2, TypeInvariant, PTL DEF Spec

(* A rejected value is nowhere in the cache until it is issued again,      *)
(* whatever the order of late rejections.                                  *)
THEOREM RejectedStaysOut == Spec => []NoDroppedValueCached
<1>1. RetireInv => NoDroppedValueCached
  BY DEF RetireInv
<1>2. QED
  BY <1>1, RetireInvariant, PTL

(* No retired answer has an entry: a retry, or another request that asks   *)
(* at the same moment, does not find the answer the registry rejected.     *)
THEOREM RetiredAnswersAreGone == Spec => []RetiredNotServed
<1>1. RetireInv => RetiredNotServed
  BY DEF RetireInv
<1>2. QED
  BY <1>1, RetireInvariant, PTL
-----------------------------------------------------------------------------
(* One erase for an answer, one retry for a request.                       *)

(* An answer once retired stays retired.                                   *)
LEMMA RetiredGrows ==
    ASSUME TypeInv, [Next]_vars
    PROVE  retired \subseteq retired'
  BY StoreSteps DEF Removes, Caches, Replaces, RetireFrom

(* A request that erased an answer, or retries because of it, has that     *)
(* answer retired: what makes one erase per answer and one retry per       *)
(* request.                                                                *)
THEOREM EraseInvariant == Spec => []EraseInv
<1>1. Init => EraseInv
  BY DEF Init, EraseInv
<1>2. TypeInv /\ EraseInv /\ [Next]_vars => EraseInv'
  <2> SUFFICES ASSUME TypeInv, EraseInv, [Next]_vars PROVE EraseInv'
    OBVIOUS
  <2>1. retired \subseteq retired'
    BY RetiredGrows
  <2>2. CASE erases' = erases
    BY <2>1, <2>2 DEF EraseInv
  <2>3. ASSUME NEW q \in Requests, Reject401(q) PROVE EraseInv'
    <3>1. /\ carried[q] \notin retired /\ erases' = [erases EXCEPT ![carried[q]] = @ + 1]
          /\ carried[q] \in retired'
      BY <2>3 DEF Reject401, Stale, RetireFrom
    <3>2. erases \in [Ids -> Nat]
      BY DEF TypeInv, TypeOK
    <3>3. ASSUME NEW i \in Ids PROVE erases'[i] <= 1 /\ (erases'[i] # 0 => i \in retired')
      <4>1. CASE i = carried[q]
        <5>1. erases[i] = 0
          BY <3>1, <4>1 DEF EraseInv
        <5>2. erases'[i] = 1
          BY <3>1, <3>2, <4>1, <5>1
        <5>3. QED
          BY <3>1, <4>1, <5>2
      <4>2. CASE i # carried[q]
        BY <2>1, <3>1, <3>2, <4>2 DEF EraseInv
      <4>3. QED
        BY <4>1, <4>2
    <3>4. QED
      BY <3>3 DEF EraseInv
  <2>4. ASSUME NEW q \in Requests, RequestStep(q), ~Reject401(q) PROVE erases' = erases
    BY <2>4 DEF RequestStep, UseCached, SendGet, GetAnswered, GetFails, Accepted, SendErase,
                EraseAnswered, Reject403, RejectStale, RejectFinal, SendRetry, RetryAnswered,
                history
  <2>5. QED
    BY <2>2, <2>3, <2>4 DEF Next, Lapse, vars, history
<1>3. QED
  BY <1>1, <1>2, TypeInvariant, PTL DEF Spec

(* However many requests carried an answer and were rejected, in whatever  *)
(* order, at most one erase is built for it.                               *)
THEOREM ErasedOnce == Spec => []EraseOnce
<1>1. EraseInv => EraseOnce
  BY DEF EraseInv, EraseOnce
<1>2. QED
  BY <1>1, EraseInvariant, PTL

(* A request sends once, and once more only when it retried.               *)
THEOREM SendInvariant == Spec => []SendInv
<1>1. Init => SendInv
  BY DEF Init, SendInv
<1>2. TypeInv /\ SendInv /\ [Next]_vars => SendInv'
  <2> SUFFICES ASSUME TypeInv, SendInv, [Next]_vars PROVE SendInv'
    OBVIOUS
  <2>t. /\ pc \in [Requests -> Phases] /\ retried \in [Requests -> BOOLEAN]
        /\ sends \in [Requests -> Nat]
    BY DEF TypeInv, TypeOK, Phases
  <2>1. CASE UNCHANGED <<pc, retried, sends>>
    BY <2>1 DEF SendInv
  <2>2. ASSUME NEW q \in Requests, RequestStep(q) PROVE SendInv'
    <3>1. CASE UseCached(q)
      BY <2>t, <3>1 DEF UseCached, Leave, SendInv
    <3>2. CASE SendGet(q)
      BY <2>t, <3>2 DEF SendGet, SendInv, history
    <3>3. CASE GetAnswered(q)
      BY <2>t, <3>3 DEF GetAnswered, Leave, SendInv
    <3>4. CASE GetFails(q) \/ Accepted(q) \/ RejectFinal(q)
      BY <2>t, <3>4 DEF GetFails, Accepted, RejectFinal, SendInv, history
    <3>5. CASE Reject401(q)
      BY <2>t, <3>5 DEF Reject401, SendInv
    <3>6. CASE SendErase(q)
      BY <2>t, <3>6 DEF SendErase, SendInv, history
    <3>7. CASE EraseAnswered(q)
      BY <2>t, <3>7 DEF EraseAnswered, SendInv, history
    <3>8. CASE Reject403(q)
      BY <2>t, <3>8 DEF Reject403, SendInv, history
    <3>9. CASE RejectStale(q)
      <4>1. pc[q] = "sent" /\ ~retried[q] /\ retried' = [retried EXCEPT ![q] = TRUE]
        BY <3>9 DEF RejectStale
      <4>2. ASSUME NEW i, Leave(q, i) PROVE SendInv'
        BY <2>t, <4>1, <4>2 DEF Leave, SendInv
      <4>3. ASSUME pc' = [pc EXCEPT ![q] = "wantRetry"], sends' = sends PROVE SendInv'
        BY <2>t, <4>1, <4>3 DEF SendInv
      <4>4. QED
        BY <3>9, <4>2, <4>3 DEF RejectStale
    <3>10. CASE SendRetry(q)
      BY <2>t, <3>10 DEF SendRetry, SendInv, history
    <3>11. CASE RetryAnswered(q)
      <4>1. pc[q] = "retry" /\ Leave(q, Len(issued) + 1) /\ retried' = retried
        BY <3>11 DEF RetryAnswered
      <4>2. QED
        BY <2>t, <4>1 DEF Leave, SendInv
    <3>12. QED
      BY <2>2, <3>1, <3>2, <3>3, <3>4, <3>5, <3>6, <3>7, <3>8, <3>9, <3>10, <3>11
         DEF RequestStep
  <2>3. QED
    BY <2>1, <2>2 DEF Next, Lapse, vars, requests, history
<1>3. QED
  BY <1>1, <1>2, TypeInvariant, PTL DEF Spec

(* A request leaves at most twice, however erases, 403s and stale          *)
(* rejections follow each other.                                           *)
THEOREM RetriedOnce == Spec => []AtMostOneRetry
<1>1. SendInv => AtMostOneRetry
  BY DEF SendInv, AtMostOneRetry
<1>2. QED
  BY <1>1, SendInvariant, PTL

-----------------------------------------------------------------------------
(* What a request carries covers it.                                       *)

(* An answer found under a key a context looks at covers the context.      *)
LEMMA KeyCovers ==
    ASSUME NEW c \in Contexts, NEW iss \in Issuance, WellBound(iss),
           NEW g \in Granularities, NEW op \in {None, c.operation},
           KeyFor(g, c, op) = cache_key(iss)
    PROVE  Covers(iss, c)
<1>1. c.operation # None /\ iss.context.operation # None
  BY ContextAssumption DEF Issuance
<1>2. iss.granularity \in Granularities /\ iss.independent \in BOOLEAN
  BY DEF Issuance
<1>3. /\ iss.context.registry = c.registry /\ iss.granularity = g
      /\ (IF g = "registry" THEN None ELSE c.scope)
           = (IF iss.granularity = "registry" THEN None ELSE iss.context.scope)
      /\ (IF g = "package" THEN c.package ELSE None)
           = (IF iss.granularity = "package" THEN iss.context.package ELSE None)
      /\ op = (IF iss.independent THEN None ELSE iss.context.operation)
  BY DEF KeyFor, cache_key
<1>4. iss.independent \/ iss.context.operation = c.operation
  BY <1>1, <1>2, <1>3
<1>5. iss.granularity = "registry" \/ iss.context.scope = c.scope
  BY <1>3
<1>6. iss.granularity # "package" \/ iss.context.package = c.package
  BY <1>3
<1>7. iss.context.operation # "read" => /\ iss.context.operation = c.operation
                                        /\ iss.context.package \in {None, c.package}
  BY <1>4, <1>6 DEF WellBound
<1>8. QED
  BY <1>3, <1>4, <1>5, <1>6, <1>7 DEF Covers

(* An answer to a request covers it.                                       *)
LEMMA AnswerCovers ==
    ASSUME NEW q \in Requests, NEW ok \in Answers
    PROVE  Covers(IssuanceOf(q, ok), ContextOf[q])
  BY DEF IssuanceOf, Covers

Filed(from, table) ==
    /\ \A i \in 1..Len(from) : WellBound(from[i])
    /\ \A k \in Keys : table[k] # 0 => k = cache_key(from[table[k]])

(* Entries that are removed leave the others under their keys.             *)
LEMMA FiledAfterRemoval ==
    ASSUME NEW from, NEW table, NEW after, Filed(from, table),
           \A k \in Keys : after[k] \in {0, table[k]}
    PROVE  Filed(from, after)
  BY DEF Filed

(* Storing a new answer leaves every key with an answer filed under it.    *)
LEMMA FiledAfterStore ==
    ASSUME TypeOK, NEW iss \in Issuance, WellBound(iss), Filed(issued, cache)
    PROVE  Filed(Append(issued, iss), Stored(iss, Len(issued) + 1))
<1>1. /\ Len(issued) \in Nat
      /\ Len(Append(issued, iss)) = Len(issued) + 1
      /\ Append(issued, iss)[Len(issued) + 1] = iss
      /\ \A j \in 1..Len(issued) : Append(issued, iss)[j] = issued[j]
  BY AppendTypes DEF TypeOK
<1>2. \A j \in 1..Len(Append(issued, iss)) : WellBound(Append(issued, iss)[j])
  <2>1. ASSUME NEW j \in 1..Len(Append(issued, iss)) PROVE WellBound(Append(issued, iss)[j])
    <3>1. CASE j = Len(issued) + 1
      BY <1>1, <3>1
    <3>2. CASE j # Len(issued) + 1
      <4>1. j \in 1..Len(issued)
        BY <1>1, <3>2
      <4>2. QED
        BY <1>1, <4>1 DEF Filed
    <3>3. QED
      BY <3>1, <3>2
  <2>2. QED
    BY <2>1
<1>3. ASSUME NEW k \in Keys, Stored(iss, Len(issued) + 1)[k] # 0
      PROVE  k = cache_key(Append(issued, iss)[Stored(iss, Len(issued) + 1)[k]])
  <2>1. CASE Stored(iss, Len(issued) + 1)[k] = cache[k]
    <3>1. cache[k] \in 1..Len(issued)
      BY <1>3, <2>1 DEF TypeOK
    <3>2. QED
      BY <1>1, <1>3, <2>1, <3>1 DEF Filed
  <2>2. CASE k = cache_key(iss) /\ Stored(iss, Len(issued) + 1)[k] = Len(issued) + 1
    <3>1. Append(issued, iss)[Stored(iss, Len(issued) + 1)[k]] = iss
      BY <1>1, <2>2
    <3>2. QED
      BY <2>2, <3>1
  <2>3. \/ Stored(iss, Len(issued) + 1)[k] = cache[k]
        \/ k = cache_key(iss) /\ Stored(iss, Len(issued) + 1)[k] = Len(issued) + 1
    BY StoredTypes
  <2>4. QED
    BY <2>1, <2>2, <2>3
<1>4. QED
  BY <1>2, <1>3 DEF Filed

(* An answer in the cache is filed under the key its own granularity       *)
(* gives, and a request carries only an answer that covers it.             *)
THEOREM CoverInvariant == Spec => []CoverInv
<1>1. Init => CoverInv
  <2> SUFFICES ASSUME Init PROVE CoverInv
    OBVIOUS
  <2>1. Len(issued) = 0 /\ \A k \in Keys : cache[k] = 0
    BY DEF Init
  <2>2. \A q \in Requests : carried[q] = 0
    BY DEF Init
  <2>3. QED
    BY <2>1, <2>2 DEF CoverInv, CarriedCovers
<1>2. TypeInv /\ TypeInv' /\ CoverInv /\ [Next]_vars => CoverInv'
  <2> SUFFICES ASSUME TypeInv, TypeInv', CoverInv, [Next]_vars PROVE CoverInv'
    OBVIOUS
  <2>t. TypeOK /\ Len(issued) \in Nat /\ issued \in Seq(Issuance)
    BY DEF TypeInv, TypeOK
  <2>f. Filed(issued, cache)
    BY DEF CoverInv, Filed
  <2>1. Filed(issued', cache')
    <3>1. CASE Removes
      BY <2>f, <3>1, FiledAfterRemoval DEF Removes
    <3>2. ASSUME NEW i \in 1..Len(issued), issued' = issued,
                 RetireFrom(issued, cache, retired, i)
          PROVE  Filed(issued', cache')
      BY <2>f, <3>2, FiledAfterRemoval DEF RetireFrom
    <3>3. ASSUME NEW q \in Requests, NEW ok \in Answers, Records(IssuanceOf(q, ok)),
                 \/ Caches(IssuanceOf(q, ok))
                 \/ \E i \in 1..Len(issued) : Replaces(IssuanceOf(q, ok), i)
          PROVE  Filed(issued', cache')
      <4>1. Filed(issued', Stored(IssuanceOf(q, ok), Len(issued) + 1))
        BY <2>f, <2>t, <3>3, IssuanceTypes, FiledAfterStore DEF Records
      <4>2. \A k \in Keys : cache'[k] \in {0, Stored(IssuanceOf(q, ok), Len(issued) + 1)[k]}
        BY <3>3 DEF Caches, Replaces, RetireFrom
      <4>3. QED
        BY <4>1, <4>2, FiledAfterRemoval
    <3>4. QED
      BY <3>1, <3>2, <3>3, StoreSteps
  <2>2. /\ Len(issued') >= Len(issued)
        /\ \A i \in 1..Len(issued) : issued'[i] = issued[i]
    <3>1. CASE issued' = issued
      BY <2>t, <3>1
    <3>2. ASSUME NEW q \in Requests, NEW ok \in Answers, Records(IssuanceOf(q, ok))
          PROVE  /\ Len(issued') >= Len(issued)
                 /\ \A i \in 1..Len(issued) : issued'[i] = issued[i]
      BY <2>t, <3>2, IssuanceTypes, AppendTypes DEF Records
    <3>3. QED
      BY <3>1, <3>2, StoreSteps DEF Removes
  <2>o. ASSUME NEW p \in Requests, carried'[p] = carried[p], carried[p] # 0
        PROVE  Covers(issued'[carried'[p]], ContextOf[p])
    <3>1. carried[p] \in 1..Len(issued)
      BY <2>o DEF TypeInv, TypeOK
    <3>2. QED
      BY <2>2, <2>o, <3>1 DEF CoverInv, CarriedCovers
  <2>h. ASSUME NEW q \in Requests, NEW n \in 1..6, HitAt(ContextOf[q], n)
        PROVE  Covers(issued[cache[LookupOrder(ContextOf[q])[n]]], ContextOf[q])
    <3>1. ContextOf[q] \in Contexts
      BY ContextAssumption
    <3>2. cache[LookupOrder(ContextOf[q])[n]] \in 1..Len(issued)
      BY <2>t, <2>h, <3>1, HitTypes
    <3>3. /\ LookupOrder(ContextOf[q])[n] \in Keys
          /\ \E g \in Granularities, op \in {None, ContextOf[q].operation} :
                LookupOrder(ContextOf[q])[n] = KeyFor(g, ContextOf[q], op)
      BY <3>1, LookupKeys
    <3>4. LookupOrder(ContextOf[q])[n]
            = cache_key(issued[cache[LookupOrder(ContextOf[q])[n]]])
      BY <2>f, <3>2, <3>3 DEF Filed
    <3>5. /\ issued[cache[LookupOrder(ContextOf[q])[n]]] \in Issuance
          /\ WellBound(issued[cache[LookupOrder(ContextOf[q])[n]]])
      BY <2>t, <2>f, <3>2 DEF Filed
    <3>6. QED
      BY <3>1, <3>3, <3>4, <3>5, KeyCovers
  <2>3. CarriedCovers'
    <3> SUFFICES ASSUME NEW p \in Requests, carried'[p] # 0
                 PROVE  Covers(issued'[carried'[p]], ContextOf[p])
      BY DEF CarriedCovers
    <3>t. carried \in [Requests -> 0..Len(issued)]
      BY DEF TypeInv, TypeOK
    <3>1. CASE carried' = carried
      BY <2>o, <3>1
    <3>2. ASSUME NEW q \in Requests, RequestStep(q), carried' # carried
          PROVE  Covers(issued'[carried'[p]], ContextOf[p])
      <4>1. CASE p # q
        <5>1. \E i : Leave(q, i)
          BY <3>2 DEF RequestStep, UseCached, SendGet, GetAnswered, GetFails, Accepted,
                      Reject401, SendErase, EraseAnswered, Reject403, RejectStale,
                      RejectFinal, SendRetry, RetryAnswered
        <5>2. carried'[p] = carried[p]
          BY <3>t, <4>1, <5>1 DEF Leave
        <5>3. QED
          BY <2>o, <5>2
      <4>2. CASE p = q /\ \E n \in 1..6 :
                            /\ HitAt(ContextOf[q], n) /\ issued' = issued
                            /\ Leave(q, cache[LookupOrder(ContextOf[q])[n]])
        BY <2>h, <3>t, <4>2 DEF Leave
      <4>3. CASE p = q /\ (GetAnswered(q) \/ RetryAnswered(q))
        <5>1. PICK ok \in Answers : issued' = Append(issued, IssuanceOf(q, ok))
          BY <4>3 DEF GetAnswered, RetryAnswered
        <5>2. carried'[p] = Len(issued) + 1
          BY <3>t, <4>3 DEF GetAnswered, RetryAnswered, Leave
        <5>3. issued'[Len(issued) + 1] = IssuanceOf(q, ok)
          BY <2>t, <5>1, IssuanceTypes, AppendTypes
        <5>4. QED
          BY <4>3, <5>2, <5>3, AnswerCovers
      <4>4. QED
        BY <3>2, <4>1, <4>2, <4>3 DEF RequestStep, UseCached, SendGet, GetFails, Accepted,
              Reject401, SendErase, EraseAnswered, Reject403, RejectStale, RejectFinal, SendRetry
    <3>3. QED
      BY <3>1, <3>2 DEF Next, Lapse, vars, requests
  <2>4. QED
    BY <2>1, <2>3 DEF CoverInv, Filed
<1>3. QED
  BY <1>1, <1>2, TypeInvariant, PTL DEF Spec

(* No request leaves with an answer that does not cover its registry,      *)
(* scope, package and operation.                                           *)
THEOREM CarriedAlwaysCovers == Spec => []CarriedCovers
<1>1. CoverInv => CarriedCovers
  BY DEF CoverInv
<1>2. QED
  BY <1>1, CoverInvariant, PTL
=============================================================================
