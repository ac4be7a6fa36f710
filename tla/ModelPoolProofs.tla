-------------------------- MODULE ModelPoolProofs --------------------------
(***************************************************************************)
(* Proofs about ModelPool, for any number of calls, keys, deployments and  *)
(* attempts and for any thresholds of the breaker.  The inductive          *)
(* invariant is IInv; each action of one call c preserves it, because it   *)
(* establishes CallOK(c)' and leaves every other call alone (Frame).  The  *)
(* theorems at the end are about the configuration a pool is built from,   *)
(* PoolConfig, which has no state.                                         *)
(***************************************************************************)
EXTENDS ModelPool, PoolConfig, FiniteSetTheorems, TLAPS

-----------------------------------------------------------------------------
(* Reports and ticks keep a breaker value what BreakerOK says of it. *)
LEMMA BreakerSteps ==
  ASSUME breaker \in BreakerValues, BreakerOK,
         \/ breaker' = ReportSuccess(breaker)
         \/ breaker' = ReportFailure(breaker)
         \/ IsOpen(breaker) /\ ~ResetDue(breaker) /\ breaker' = Aged(breaker)
         \/ breaker' = breaker
  PROVE  breaker' \in BreakerValues /\ BreakerOK'
  BY BreakerAssumption
     DEF BreakerValues, BreakerOK, ReportSuccess, ReportFailure, Aged, Fresh,
         Opened, IsOpen, ResetDue

(* The role has finitely many model ids. *)
LEMMA IdsFinite == IsFiniteSet(Ids) /\ Cardinality(Ids) \in Nat
<1>1. IsFiniteSet(Deployments)
  BY FS_Interval, PoolAssumption DEF Deployments
<1>2. Tiers \in Surjection(Deployments, Ids)
  BY PoolAssumption DEF Surjection, Ids, Deployments
<1>3. IsFiniteSet(Ids)
  BY <1>1, <1>2, FS_Surjection
<1>. QED  BY <1>3, FS_CardinalityType

LEMMA IdSets ==
  ASSUME NEW S \in SUBSET Ids
  PROVE  /\ Cardinality(S) \in Nat
         /\ Cardinality(S) <= Cardinality(Ids)
         /\ \A x \in Ids \ S : Cardinality(S \cup {x}) = Cardinality(S) + 1
<1>1. IsFiniteSet(S) /\ Cardinality(S) <= Cardinality(Ids)
  BY IdsFinite, FS_Subset
<1>2. Cardinality(S) \in Nat
  BY <1>1, FS_CardinalityType
<1>3. \A x \in Ids \ S : Cardinality(S \cup {x}) = Cardinality(S) + 1
  BY <1>1, FS_AddElement
<1>. QED  BY <1>1, <1>2, <1>3

(* The type invariant in three parts: what calls share, what ends an       *)
(* action, and the locals of a call.                                       *)
SharedTyped ==
  /\ breaker \in BreakerValues
  /\ cache \in [Keys -> Answers \cup {None}]
  /\ answered \in SUBSET Keys

EndTyped ==
  /\ pc \in [Calls -> Locations]
  /\ result \in [Calls -> Answers \cup Failures \cup {None}]

LocalsTyped ==
  /\ key \in [Calls -> Keys \cup {None}]
  /\ cacheable \in [Calls -> BOOLEAN]
  /\ attempt \in [Calls -> 0 .. MaxAttempts - 1]
  /\ attempted \in [Calls -> SUBSET Ids]
  /\ asking \in [Calls -> Deployments \cup {0}]
  /\ spent \in [Calls -> Nat]
  /\ limited \in [Calls -> SUBSET Deployments]

LEMMA TypeParts ==
  /\ TypeOK <=> SharedTyped /\ EndTyped /\ LocalsTyped
  /\ TypeOK' <=> SharedTyped' /\ EndTyped' /\ LocalsTyped'
  BY DEF TypeOK, SharedTyped, EndTyped, LocalsTyped

LEMMA EndSteps ==
  ASSUME EndTyped, NEW c \in Calls,
         \/ \E r \in Answers \cup Failures : Finish(c, r)
         \/ \E where \in Locations : Suspend(c, where)
  PROVE  EndTyped'
<1>1. ASSUME NEW r \in Answers \cup Failures, Finish(c, r) PROVE EndTyped'
  BY <1>1 DEF EndTyped, Finish, Locations
<1>2. ASSUME NEW where \in Locations, Suspend(c, where) PROVE EndTyped'
  BY <1>2 DEF EndTyped, Suspend
<1>. QED  BY <1>1, <1>2

(* A call no action touched keeps its part of the invariant. *)
Same(d) ==
  /\ pc'[d] = pc[d]
  /\ key'[d] = key[d]
  /\ attempt'[d] = attempt[d]
  /\ attempted'[d] = attempted[d]
  /\ asking'[d] = asking[d]
  /\ result'[d] = result[d]
  /\ spent'[d] = spent[d]
  /\ limited'[d] = limited[d]

LEMMA Frame ==
  ASSUME NEW d, CallOK(d), Same(d), answered \subseteq answered'
  PROVE  CallOK(d)'
<1>1. SpentOK(d)'
  BY DEF CallOK, SpentOK, Same
<1>2. FailoverOK(d)'
  BY DEF CallOK, FailoverOK, LimitedIds, SharingName, Same
<1>3. ResultOK(d)'
  BY DEF CallOK, ResultOK, Same
<1>. QED  BY <1>1, <1>2, <1>3 DEF CallOK

(* Whatever a call has spent so far is within its budget. *)
LEMMA SpentBound ==
  ASSUME TypeOK, NEW c \in Calls, SpentOK(c)
  PROVE  spent[c] <= MaxAttempts + Cardinality(Ids)
<1>1. /\ spent[c] \in Nat /\ attempt[c] \in 0 .. MaxAttempts - 1
      /\ attempted[c] \in SUBSET Ids /\ pc[c] \in Locations
  BY DEF TypeOK
<1>2. Cardinality(attempted[c]) \in Nat /\ Cardinality(attempted[c]) <= Cardinality(Ids)
  BY <1>1, IdSets
<1>. QED  BY <1>1, <1>2, IdsFinite, PoolAssumption DEF SpentOK, Locations

-----------------------------------------------------------------------------
LEMMA InitOK == Init => IInv
<1>. SUFFICES ASSUME Init PROVE IInv
  OBVIOUS
<1>1. TypeOK
  BY BreakerAssumption, PoolAssumption
     DEF Init, TypeOK, Locations, BreakerValues, Fresh
<1>2. BreakerOK
  BY BreakerAssumption DEF Init, BreakerOK, Fresh, IsOpen
<1>3. CacheOK
  BY DEF Init, CacheOK
<1>4. ASSUME NEW c \in Calls PROVE CallOK(c)
  BY PoolAssumption
     DEF Init, CallOK, SpentOK, FailoverOK, ResultOK, LimitedIds, Failures
<1>. QED  BY <1>1, <1>2, <1>3, <1>4 DEF IInv

LEMMA TranslateOK ==
  ASSUME IInv, NEW c \in Calls, NEW k \in Keys, NEW w \in BOOLEAN, Translate(c, k, w)
  PROVE  IInv'
<1>. USE DEF IInv
<1>1. TypeOK'
  <2>. USE TypeParts DEF Translate, AskRouter
  <2>1. SharedTyped'
    BY DEF SharedTyped
  <2>2. EndTyped'
    <3>1. CASE pc'[c] = "done" /\ result' = [result EXCEPT ![c] = cache[k]]
      BY <3>1 DEF EndTyped, SharedTyped, Locations, Finish, Suspend
    <3>2. CASE AskRouter(c, 0)
      BY <3>2, EndSteps DEF Failures, Locations
    <3>. QED  BY <3>1, <3>2 DEF EndTyped
  <2>3. LocalsTyped'
    BY PoolAssumption DEF LocalsTyped
  <2>. QED  BY <2>1, <2>2, <2>3
<1>. USE DEF Translate, AskRouter, Finish, Suspend
<1>2. BreakerOK' /\ CacheOK' /\ answered' = answered
  BY DEF BreakerOK, CacheOK, TypeOK, IsOpen
<1>3. SpentOK(c)'
  BY PoolAssumption, IdsFinite DEF TypeOK, SpentOK
<1>4. FailoverOK(c)'
  BY PoolAssumption DEF TypeOK, FailoverOK, Failures, CacheOK
<1>5. ResultOK(c)'
  BY PoolAssumption DEF TypeOK, ResultOK, CacheOK, Answers, Failures
<1>6. \A d \in Calls \ {c} : Same(d)
  BY DEF TypeOK, Same
<1>. QED  BY <1>1, <1>2, <1>3, <1>4, <1>5, <1>6, Frame DEF CallOK

LEMMA WakeOK ==
  ASSUME IInv, NEW c \in Calls, Wake(c)
  PROVE  IInv'
<1>. USE DEF IInv
<1>0. CallOK(c)
  OBVIOUS
<1>1. TypeOK'
  <2>. USE TypeParts DEF Wake, AskRouter
  <2>1. SharedTyped'
    BY DEF SharedTyped
  <2>2. EndTyped'
    BY EndSteps DEF Failures, Locations
  <2>3. attempt' \in [Calls -> 0 .. MaxAttempts - 1]
    <3>1. attempt[c] \in 0 .. MaxAttempts - 1 /\ attempt[c] < MaxAttempts - 1
      BY <1>0 DEF LocalsTyped, CallOK, SpentOK
    <3>2. attempt[c] + 1 \in 0 .. MaxAttempts - 1
      BY <3>1, PoolAssumption
    <3>. QED  BY <3>2 DEF LocalsTyped
  <2>4. spent' \in [Calls -> Nat]
    BY DEF LocalsTyped
  <2>5. LocalsTyped'
    BY <2>3, <2>4 DEF LocalsTyped
  <2>. QED  BY <2>1, <2>2, <2>5
<1>. USE DEF Wake, AskRouter, Finish, Suspend
<1>2. BreakerOK' /\ CacheOK' /\ answered' = answered
  BY DEF BreakerOK, CacheOK, IsOpen
<1>3. SpentOK(c)'
  BY <1>0, PoolAssumption, IdsFinite DEF TypeOK, CallOK, SpentOK
<1>4. FailoverOK(c)'
  BY <1>0, PoolAssumption DEF TypeOK, CallOK, FailoverOK, Failures
<1>5. ResultOK(c)'
  BY <1>0, PoolAssumption DEF TypeOK, CallOK, ResultOK, Answers, Failures
<1>6. \A d \in Calls \ {c} : Same(d)
  BY DEF TypeOK, Same
<1>. QED  BY <1>1, <1>2, <1>3, <1>4, <1>5, <1>6, Frame DEF CallOK

(* A call that delivers a text ends well, and the cache learns it. *)
LEMMA DeliverOK ==
  ASSUME IInv, NEW c \in Calls, pc[c] \in {"waiting", "direct"}, Deliver(c, "valid")
  PROVE  /\ cache' \in [Keys -> Answers \cup {None}]
         /\ answered \subseteq answered' /\ answered' \in SUBSET Keys
         /\ key[c] \in answered'
         /\ CacheOK'
<1>1. key[c] \in Keys
  BY DEF IInv, CallOK, ResultOK
<1>2. answered \subseteq answered' /\ answered' \in SUBSET Keys /\ key[c] \in answered'
  BY <1>1 DEF Deliver, IInv, TypeOK
<1>3. CASE UNCHANGED cache
  BY <1>2, <1>3 DEF IInv, TypeOK, CacheOK
<1>4. CASE Remember(key[c], "valid")
  <2>1. PICK evicted \in {None} \cup (Keys \ {key[c]}) :
          cache' = [x \in Keys |-> IF x = key[c] THEN "valid"
                                   ELSE IF x = evicted THEN None ELSE cache[x]]
    BY <1>4 DEF Remember
  <2>2. cache' \in [Keys -> Answers \cup {None}]
    BY <2>1 DEF IInv, TypeOK, Answers
  <2>3. CacheOK'
    BY <1>2, <2>1 DEF IInv, CacheOK
  <2>. QED  BY <1>2, <2>2, <2>3
<1>. QED  BY <1>2, <1>3, <1>4 DEF Deliver

(* A retry keeps the accounts of a call whose request is back. *)
LEMMA RetryOrOK ==
  ASSUME IInv, NEW c \in Calls, pc[c] = "waiting",
         NEW failure \in Failures \ {"rate_limit"}, RetryOr(c, failure),
         UNCHANGED <<key, attempt, attempted, asking, spent, limited>>
  PROVE  EndTyped' /\ CallOK(c)'
<1>0. CallOK(c) /\ TypeOK
  BY DEF IInv
<1>1. EndTyped'
  BY <1>0, EndSteps, TypeParts DEF RetryOr, Locations
<1>. USE DEF RetryOr, Finish, Suspend
<1>2. SpentOK(c)'
  BY <1>0, PoolAssumption, IdsFinite DEF TypeOK, CallOK, SpentOK
<1>3. FailoverOK(c)'
  BY <1>0, PoolAssumption DEF TypeOK, FailoverOK, Failures
<1>4. ResultOK(c)'
  <2>. failure \notin Answers /\ failure # None /\ None \notin Answers
    BY PoolAssumption DEF Answers, Failures, Errors
  <2>. QED  BY <1>0 DEF TypeOK, CallOK, ResultOK
<1>. QED  BY <1>1, <1>2, <1>3, <1>4 DEF CallOK

(* So does an end with a failure other than the 429. *)
LEMMA FinishOK ==
  ASSUME IInv, NEW c \in Calls, pc[c] \in {"waiting", "direct"},
         NEW failure \in Failures \ {"rate_limit"}, Finish(c, failure),
         UNCHANGED <<key, attempt, attempted, asking, spent, limited>>
  PROVE  EndTyped' /\ CallOK(c)'
<1>0. CallOK(c) /\ TypeOK
  BY DEF IInv
<1>1. EndTyped'
  BY <1>0, EndSteps, TypeParts
<1>. USE DEF Finish
<1>2. SpentOK(c)'
  BY <1>0, SpentBound DEF TypeOK, CallOK, SpentOK
<1>3. FailoverOK(c)'
  BY <1>0 DEF TypeOK, FailoverOK
<1>4. ResultOK(c)'
  <2>. failure \notin Answers /\ failure # None
    BY PoolAssumption DEF Answers, Failures, Errors
  <2>. QED  BY <1>0 DEF TypeOK, CallOK, ResultOK
<1>. QED  BY <1>1, <1>2, <1>3, <1>4 DEF CallOK

(* And an end with a text that was delivered. *)
LEMMA DeliveredOK ==
  ASSUME IInv, NEW c \in Calls, pc[c] \in {"waiting", "direct"}, Deliver(c, "valid"),
         UNCHANGED <<key, attempt, attempted, asking, spent, limited>>
  PROVE  EndTyped' /\ CallOK(c)'
<1>0. CallOK(c) /\ TypeOK
  BY DEF IInv
<1>1. EndTyped'
  BY <1>0, EndSteps, TypeParts DEF Deliver, Answers
<1>2. SpentOK(c)'
  BY <1>0, SpentBound DEF TypeOK, CallOK, SpentOK, Deliver, Finish
<1>3. FailoverOK(c)'
  BY <1>0 DEF TypeOK, FailoverOK, Deliver, Finish
<1>4. ResultOK(c)'
  <2>. "valid" # None
    BY PoolAssumption DEF Answers
  <2>. QED
    BY <1>0, DeliverOK DEF TypeOK, CallOK, ResultOK, Deliver, Finish
<1>. QED  BY <1>1, <1>2, <1>3, <1>4 DEF CallOK

LEMMA RouterAnswersOK ==
  ASSUME IInv, NEW c \in Calls, NEW a \in Answers, RouterAnswers(c, a)
  PROVE  IInv'
<1>. USE DEF RouterAnswers
<1>1. breaker' \in BreakerValues /\ BreakerOK'
  BY BreakerSteps DEF IInv, TypeOK
<1>2. /\ cache' \in [Keys -> Answers \cup {None}] /\ answered' \in SUBSET Keys
      /\ answered \subseteq answered' /\ CacheOK'
  BY DeliverOK DEF IInv, TypeOK, CacheOK
<1>3. EndTyped' /\ CallOK(c)'
  BY DeliveredOK, FinishOK, RetryOrOK DEF Failures
<1>4. TypeOK'
  BY <1>1, <1>2, <1>3, TypeParts DEF IInv, SharedTyped, LocalsTyped
<1>5. \A d \in Calls \ {c} : Same(d)
  BY DEF IInv, TypeOK, Same, Deliver, RetryOr, Finish, Suspend
<1>. QED  BY <1>1, <1>2, <1>3, <1>4, <1>5, Frame DEF IInv

LEMMA RouterFailsOK ==
  ASSUME IInv, NEW c \in Calls, NEW e \in Errors, RouterFails(c, e)
  PROVE  IInv'
<1>. USE DEF RouterFails
<1>1. breaker' \in BreakerValues /\ BreakerOK' /\ CacheOK'
  BY BreakerSteps DEF IInv, TypeOK, CacheOK
<1>2. e \in Failures \ {"rate_limit"}
  BY DEF Errors, Failures
<1>3. EndTyped' /\ CallOK(c)'
  BY <1>2, FinishOK, RetryOrOK
<1>4. TypeOK'
  BY <1>1, <1>3, TypeParts DEF IInv, SharedTyped, LocalsTyped
<1>5. \A d \in Calls \ {c} : Same(d)
  BY DEF IInv, TypeOK, Same, RetryOr, Finish, Suspend
<1>. QED  BY <1>1, <1>3, <1>4, <1>5, Frame DEF IInv

LEMMA DirectAnswersOK ==
  ASSUME IInv, NEW c \in Calls, NEW a \in Answers, DirectAnswers(c, a)
  PROVE  IInv'
<1>. USE DEF DirectAnswers
<1>1. breaker' = breaker /\ BreakerOK'
  BY DEF IInv, BreakerOK, IsOpen
<1>2. /\ cache' \in [Keys -> Answers \cup {None}] /\ answered' \in SUBSET Keys
      /\ answered \subseteq answered' /\ CacheOK'
  BY DeliverOK DEF IInv, TypeOK, CacheOK
<1>3. EndTyped' /\ CallOK(c)'
  BY DeliveredOK, FinishOK DEF Failures
<1>4. TypeOK'
  BY <1>1, <1>2, <1>3, TypeParts DEF IInv, SharedTyped, LocalsTyped
<1>5. \A d \in Calls \ {c} : Same(d)
  BY DEF IInv, TypeOK, Same, Deliver, Finish
<1>. QED  BY <1>1, <1>2, <1>3, <1>4, <1>5, Frame DEF IInv

LEMMA DirectFailsOK ==
  ASSUME IInv, NEW c \in Calls, NEW e \in Errors, DirectFails(c, e)
  PROVE  IInv'
<1>. USE DEF DirectFails
<1>1. BreakerOK' /\ CacheOK'
  BY DEF IInv, BreakerOK, CacheOK, IsOpen
<1>2. e \in Failures \ {"rate_limit"}
  BY DEF Errors, Failures
<1>3. EndTyped' /\ CallOK(c)'
  BY <1>2, FinishOK
<1>4. TypeOK'
  BY <1>3, TypeParts DEF IInv, SharedTyped, LocalsTyped
<1>5. \A d \in Calls \ {c} : Same(d)
  BY DEF IInv, TypeOK, Same, Finish
<1>. QED  BY <1>1, <1>3, <1>4, <1>5, Frame DEF IInv

(* Stepping on with only rate-limited ids marked keeps the accounts. *)
LEMMA StepOnOK ==
  ASSUME IInv, NEW c \in Calls, pc[c] \in {"waiting", "direct"},
         NEW tried \in SUBSET Ids, StepOn(c, tried),
         tried \subseteq SharingName(LimitedIds(c))', limited'[c] \subseteq Deployments,
         spent[c] <= MaxAttempts + Cardinality(tried),
         UNCHANGED <<key, attempt, asking, spent>>
  PROVE  /\ EndTyped' /\ CallOK(c)'
         /\ attempted' \in [Calls -> SUBSET Ids]
<1>0. CallOK(c) /\ TypeOK
  BY DEF IInv
<1>1. EndTyped'
  BY <1>0, EndSteps, TypeParts DEF StepOn, Locations, Failures
<1>. USE DEF StepOn, Finish, Suspend
<1>2. attempted' \in [Calls -> SUBSET Ids] /\ attempted'[c] = tried
  BY <1>0 DEF TypeOK
<1>3. SpentOK(c)'
  BY <1>0, <1>2, SpentBound DEF TypeOK, CallOK, SpentOK
<1>4. FailoverOK(c)'
  <2>. None # "rate_limit"
    BY PoolAssumption DEF Failures
  <2>. QED  BY <1>0, <1>2 DEF TypeOK, FailoverOK
<1>5. ResultOK(c)'
  <2>. "rate_limit" # None /\ "rate_limit" \notin Answers /\ None \notin Answers
    BY PoolAssumption DEF Answers, Failures
  <2>. QED  BY <1>0 DEF TypeOK, CallOK, ResultOK
<1>. QED  BY <1>1, <1>2, <1>3, <1>4, <1>5 DEF CallOK

LEMMA RouterLimitsOK ==
  ASSUME IInv, NEW c \in Calls, NEW i \in Deployments \cup {0},
         NEW label \in Labels, RouterLimits(c, i, label)
  PROVE  IInv'
<1>. DEFINE tried == Named(i, label)
<1>0. CallOK(c) /\ TypeOK
  BY DEF IInv
<1>1. breaker' \in BreakerValues /\ BreakerOK' /\ CacheOK'
  BY BreakerSteps DEF RouterLimits, IInv, TypeOK, CacheOK
<1>2. /\ limited' \in [Calls -> SUBSET Deployments]
      /\ limited'[c] = limited[c] \cup ({i} \cap Deployments)
  BY <1>0 DEF RouterLimits, TypeOK
<1>3. tried \in SUBSET Ids /\ tried \subseteq SharingName(LimitedIds(c))'
  BY <1>2 DEF Ids, LimitedIds, SharingName, Named
<1>4. ASSUME attempt[c] < MaxAttempts - 1
      PROVE  EndTyped' /\ CallOK(c)' /\ attempted' \in [Calls -> SUBSET Ids]
  <2>1. Suspend(c, "backoff") /\ UNCHANGED <<key, attempt, attempted, asking, spent>>
    BY <1>4, <1>0, PoolAssumption DEF RouterLimits, TypeOK
  <2>2. EndTyped'
    BY <2>1, <1>0, EndSteps, TypeParts DEF Locations
  <2>3. SpentOK(c)'
    BY <2>1, <1>0, <1>4 DEF TypeOK, CallOK, SpentOK, Suspend, RouterLimits
  <2>4. FailoverOK(c)'
    BY <2>1, <1>0, PoolAssumption DEF TypeOK, FailoverOK, Failures, Suspend
  <2>5. ResultOK(c)'
    BY <2>1, <1>0, PoolAssumption DEF TypeOK, CallOK, ResultOK, Suspend, RouterLimits
  <2>. QED  BY <2>1, <2>2, <2>3, <2>4, <2>5, <1>0 DEF CallOK, TypeOK
<1>5. ASSUME attempt[c] = MaxAttempts - 1
      PROVE  EndTyped' /\ CallOK(c)' /\ attempted' \in [Calls -> SUBSET Ids]
  <2>1. StepOn(c, tried) /\ UNCHANGED <<key, attempt, asking, spent>>
    BY <1>5, <1>0, PoolAssumption DEF RouterLimits, TypeOK
  <2>2. spent[c] <= MaxAttempts + Cardinality(tried)
    <3>1. spent[c] = attempt[c] + 1
      BY <1>0 DEF RouterLimits, CallOK, SpentOK
    <3>2. Cardinality(tried) \in Nat
      BY <1>3, IdSets
    <3>. QED  BY <3>1, <3>2, <1>5, PoolAssumption
  <2>3. pc[c] \in {"waiting", "direct"}
    BY DEF RouterLimits
  <2>. HIDE DEF tried
  <2>. QED  BY <2>1, <2>2, <2>3, <1>2, <1>3, StepOnOK
<1>6. EndTyped' /\ CallOK(c)' /\ attempted' \in [Calls -> SUBSET Ids]
  BY <1>4, <1>5 DEF RouterLimits
<1>7. TypeOK'
  BY <1>0, <1>1, <1>2, <1>6, TypeParts DEF RouterLimits, SharedTyped, LocalsTyped
<1>8. \A d \in Calls \ {c} : Same(d)
  BY <1>0 DEF RouterLimits, TypeOK, Same, StepOn, Finish, Suspend
<1>9. answered' = answered
  BY DEF RouterLimits
<1>. QED  BY <1>1, <1>6, <1>7, <1>8, <1>9, Frame DEF IInv

LEMMA DirectLimitsOK ==
  ASSUME IInv, NEW c \in Calls, DirectLimits(c)
  PROVE  IInv'
<1>0. CallOK(c) /\ TypeOK /\ pc[c] = "direct"
  BY DEF IInv, DirectLimits
<1>1. BreakerOK' /\ CacheOK'
  BY DEF DirectLimits, IInv, BreakerOK, CacheOK, IsOpen
<1>2. /\ limited' \in [Calls -> SUBSET Deployments]
      /\ limited'[c] = limited[c] \cup {asking[c]}
  BY <1>0 DEF DirectLimits, TypeOK, CallOK, FailoverOK
<1>3. attempted[c] \in SUBSET Ids /\ attempted[c] \subseteq SharingName(LimitedIds(c))'
  BY <1>0, <1>2 DEF TypeOK, CallOK, FailoverOK, LimitedIds, SharingName, Ids
<1>4. spent[c] <= MaxAttempts + Cardinality(attempted[c])
  BY <1>0 DEF CallOK, SpentOK
<1>5. EndTyped' /\ CallOK(c)' /\ attempted' \in [Calls -> SUBSET Ids]
  BY <1>0, <1>2, <1>3, <1>4, StepOnOK DEF DirectLimits
<1>6. TypeOK'
  BY <1>0, <1>2, <1>5, TypeParts DEF DirectLimits, SharedTyped, LocalsTyped
<1>7. \A d \in Calls \ {c} : Same(d)
  BY <1>0 DEF DirectLimits, TypeOK, Same, StepOn, Finish, Suspend
<1>8. answered' = answered
  BY DEF DirectLimits
<1>. QED  BY <1>1, <1>5, <1>6, <1>7, <1>8, Frame DEF IInv

LEMMA AskDirectlyOK ==
  ASSUME IInv, NEW c \in Calls, AskDirectly(c)
  PROVE  IInv'
<1>0. CallOK(c) /\ TypeOK /\ pc[c] = "stepping"
  BY DEF IInv, AskDirectly
<1>1. PICK i \in Deployments :
        /\ IsNextTier(c, i)
        /\ asking' = [asking EXCEPT ![c] = i]
        /\ attempted' = [attempted EXCEPT ![c] = @ \cup {Tiers[i]}]
  BY DEF AskDirectly
<1>2. Tiers[i] \in Ids \ attempted[c] /\ attempted[c] \in SUBSET Ids
  BY <1>0, <1>1 DEF IsNextTier, Ids, TypeOK
<1>3. /\ attempted' \in [Calls -> SUBSET Ids] /\ asking' \in [Calls -> Deployments \cup {0}]
      /\ attempted'[c] = attempted[c] \cup {Tiers[i]} /\ asking'[c] = i
  BY <1>0, <1>1, <1>2 DEF TypeOK
<1>. USE DEF AskDirectly, Suspend
<1>4. EndTyped' /\ LocalsTyped' /\ SharedTyped'
  <2>1. EndTyped'
    BY <1>0, EndSteps, TypeParts DEF Locations
  <2>. QED  BY <1>0, <1>3, <2>1, TypeParts DEF SharedTyped, LocalsTyped
<1>5. SpentOK(c)'
  <2>1. Cardinality(attempted'[c]) = Cardinality(attempted[c]) + 1
    BY <1>2, <1>3, IdSets
  <2>2. Cardinality(attempted[c]) \in Nat /\ spent[c] \in Nat
    BY <1>0, <1>2, IdSets DEF TypeOK
  <2>3. spent'[c] = spent[c] + 1 /\ pc'[c] = "direct"
    BY <1>0 DEF TypeOK
  <2>4. spent[c] <= MaxAttempts + Cardinality(attempted[c])
    BY <1>0 DEF CallOK, SpentOK
  <2>5. spent'[c] <= MaxAttempts + Cardinality(attempted'[c])
    BY <2>1, <2>2, <2>3, <2>4, PoolAssumption
  <2>. QED  BY <2>3, <2>5 DEF SpentOK
<1>6. FailoverOK(c)'
  BY <1>0, <1>1, <1>3, PoolAssumption
     DEF TypeOK, CallOK, FailoverOK, LimitedIds, SharingName, Failures
<1>7. ResultOK(c)'
  BY <1>0, PoolAssumption DEF TypeOK, CallOK, ResultOK
<1>8. BreakerOK' /\ CacheOK' /\ answered' = answered
  BY DEF IInv, BreakerOK, CacheOK, IsOpen
<1>9. \A d \in Calls \ {c} : Same(d)
  BY <1>0, <1>1 DEF TypeOK, Same
<1>. QED  BY <1>4, <1>5, <1>6, <1>7, <1>8, <1>9, Frame, TypeParts DEF IInv, CallOK

LEMMA TickOK ==
  ASSUME IInv, Tick \/ UNCHANGED vars
  PROVE  IInv'
<1>1. breaker' \in BreakerValues /\ BreakerOK'
  BY BreakerSteps DEF IInv, TypeOK, Tick, vars
<1>2. UNCHANGED <<cache, callVars, answered>>
  BY DEF Tick, vars
<1>3. TypeOK' /\ CacheOK'
  BY <1>1, <1>2 DEF IInv, TypeOK, CacheOK, callVars
<1>4. \A d \in Calls : Same(d)
  BY <1>2 DEF Same, callVars
<1>. QED  BY <1>1, <1>2, <1>3, <1>4, Frame DEF IInv

-----------------------------------------------------------------------------
LEMMA Inductive == IInv /\ [Next]_vars => IInv'
<1>. SUFFICES ASSUME IInv, [Next]_vars PROVE IInv'
  OBVIOUS
<1>1. ASSUME NEW c \in Calls, Continue(c) PROVE IInv'
  BY <1>1, WakeOK, AskDirectlyOK, RouterAnswersOK, RouterFailsOK, RouterLimitsOK,
     DirectAnswersOK, DirectFailsOK, DirectLimitsOK
     DEF Continue, Reply
<1>2. ASSUME NEW c \in Calls, NEW k \in Keys, NEW w \in BOOLEAN, Translate(c, k, w)
      PROVE  IInv'
  BY <1>2, TranslateOK
<1>. QED  BY <1>1, <1>2, TickOK DEF Next

(* Breaker, cache and calls stay related as IInv says, however the calls   *)
(* interleave: the fact every theorem below rests on.                      *)
THEOREM Invariance == Spec => []IInv
  BY InitOK, Inductive, PTL DEF Spec

(* Every variable keeps its type: type correctness of the pool. *)
THEOREM TypeCorrect == Spec => []TypeOK
<1>1. IInv => TypeOK
  BY DEF IInv
<1>. QED  BY <1>1, Invariance, PTL

(* No text reaches a caller or the cache of another call without having    *)
(* passed the checks of the response, for the key it was produced for.     *)
THEOREM TextsAreValid == Spec => []OnlyValidText
<1>1. IInv => OnlyValidText
  BY DEF IInv, CacheOK, CallOK, ResultOK, OnlyValidText
<1>. QED  BY <1>1, Invariance, PTL

LEMMA BudgetOfInvariant == IInv => WithinBudget
  BY SpentBound DEF IInv, CallOK, WithinBudget

LEMMA BudgetNext == IInv' => WithinBudget'
  BY BudgetOfInvariant, PTL

(* Retries and failover together never exceed the budget of a call. *)
THEOREM BudgetKept == Spec => []WithinBudget
  BY BudgetOfInvariant, Invariance, PTL

(* The 429 a caller sees means every model name of the role answered it    *)
(* 429, through one provider at least.                                     *)
THEOREM RateLimitIsExhaustion == Spec => []RateLimitMeansExhausted
<1>1. ASSUME IInv PROVE RateLimitMeansExhausted
  <2>. SUFFICES ASSUME NEW c \in Calls, result[c] = "rate_limit"
                PROVE  SharingName(LimitedIds(c)) = Ids
    BY DEF RateLimitMeansExhausted
  <2>1. Ids \subseteq SharingName(LimitedIds(c))
    BY <1>1 DEF IInv, CallOK, FailoverOK
  <2>2. SharingName(LimitedIds(c)) \subseteq Ids
    BY DEF SharingName
  <2>. QED  BY <2>1, <2>2
<1>. QED  BY <1>1, Invariance, PTL

(* An opened breaker is only aged until its reset is due, whatever the     *)
(* calls that were under way report.                                       *)
THEOREM OpenHolds == Spec => OpenHoldsUntilReset
<1>1. [Next]_vars =>
        [IsOpen(breaker) /\ ~ResetDue(breaker) =>
           breaker' \in {breaker, Aged(breaker)}]_vars
  BY DEF Next, Continue, Reply, Translate, Wake, RouterAnswers, RouterFails,
         RouterLimits, AskDirectly, DirectAnswers, DirectLimits, DirectFails,
         Tick, vars, ReportSuccess, ReportFailure
<1>. QED  BY <1>1, PTL DEF Spec, OpenHoldsUntilReset

-----------------------------------------------------------------------------
(* The refinement: each step of the pool is a step of TranslateContract or *)
(* changes nothing its callers can see.                                    *)

Statuses == [c \in Calls |-> Status(c)]

(* An action that touches call c only moves the status of c only. *)
LEMMA StatusStep ==
  ASSUME NEW c \in Calls, \A d \in Calls \ {c} : Same(d)
  PROVE  Statuses' = [Statuses EXCEPT ![c] = Status(c)']
<1>1. \A d \in Calls \ {c} : Status(d)' = Status(d)
  BY DEF Status, Same
<1>2. /\ Statuses' = [d \in Calls |-> Status(d)']
      /\ Statuses = [d \in Calls |-> Status(d)]
  BY DEF Statuses
<1>. QED  BY <1>1, <1>2

LEMMA OthersSame ==
  ASSUME TypeOK, NEW c \in Calls,
         Continue(c) \/ \E k \in Keys, w \in BOOLEAN : Translate(c, k, w)
  PROVE  \A d \in Calls \ {c} : Same(d)
<1>. USE DEF TypeOK, Same, Finish, Suspend
<1>1. CASE \E k \in Keys, w \in BOOLEAN : Translate(c, k, w)
  BY <1>1 DEF Translate, AskRouter
<1>2. CASE Wake(c)
  BY <1>2 DEF Wake, AskRouter
<1>3. CASE AskDirectly(c)
  BY <1>3 DEF AskDirectly
<1>4. CASE \E a \in Answers : RouterAnswers(c, a) \/ DirectAnswers(c, a)
  BY <1>4 DEF RouterAnswers, DirectAnswers, Deliver, RetryOr
<1>5. CASE \E e \in Errors : RouterFails(c, e) \/ DirectFails(c, e)
  BY <1>5 DEF RouterFails, DirectFails, RetryOr
<1>6. CASE \E i \in Deployments \cup {0}, label \in Labels : RouterLimits(c, i, label)
  BY <1>6 DEF RouterLimits, StepOn
<1>7. CASE DirectLimits(c)
  BY <1>7 DEF DirectLimits, StepOn
<1>. QED  BY <1>1, <1>2, <1>3, <1>4, <1>5, <1>6, <1>7 DEF Continue, Reply

(* What the end of an action makes of the status of its call. *)
LEMMA EndStatus ==
  ASSUME TypeOK, NEW c \in Calls
  PROVE  /\ \A where \in Locations \ {"idle", "done"} :
              Suspend(c, where) => Status(c)' = "pending"
         /\ \A r \in Failures : Finish(c, r) => Status(c)' = "failed"
         /\ Finish(c, "valid") => Status(c)' = "ok"
<1>1. ASSUME NEW where \in Locations \ {"idle", "done"}, Suspend(c, where)
      PROVE  Status(c)' = "pending"
  BY <1>1 DEF TypeOK, Suspend, Status
<1>2. ASSUME NEW r \in Failures, Finish(c, r) PROVE Status(c)' = "failed"
  BY <1>2 DEF TypeOK, Finish, Status, Failures, Errors
<1>3. ASSUME Finish(c, "valid") PROVE Status(c)' = "ok"
  BY <1>3 DEF TypeOK, Finish, Status
<1>. QED  BY <1>1, <1>2, <1>3

LEMMA InitRefines == Init => Contract!Init
  BY DEF Init, Contract!Init, Status

LEMMA BeginRefines ==
  ASSUME IInv, IInv', NEW c \in Calls, NEW k \in Keys, NEW w \in BOOLEAN,
         Translate(c, k, w)
  PROVE  Contract!Begin(c, k)
<1>1. Statuses' = [Statuses EXCEPT ![c] = Status(c)']
  BY OthersSame, StatusStep DEF IInv
<1>2. Statuses[c] # "pending"
  BY DEF Translate, Statuses, Status
<1>3. \E s \in {"pending", "ok", "failed"} :
        /\ s = "ok" => k \in answered
        /\ Status(c)' = s
        /\ spent' = [spent EXCEPT ![c] = IF s = "pending" THEN 1 ELSE 0]
  <2>1. CASE /\ w /\ cache[k] # None
             /\ pc' = [pc EXCEPT ![c] = "done"]
             /\ result' = [result EXCEPT ![c] = cache[k]]
             /\ spent' = [spent EXCEPT ![c] = 0]
    BY <2>1 DEF IInv, TypeOK, CacheOK, Status
  <2>2. CASE AskRouter(c, 0)
    BY <2>2 DEF IInv, TypeOK, AskRouter, Finish, Suspend, Status
  <2>. QED  BY <2>1, <2>2 DEF Translate
<1>. QED  BY <1>1, <1>2, <1>3 DEF Contract!Begin, Translate, Statuses

LEMMA ContinueRefines ==
  ASSUME IInv, IInv', NEW c \in Calls, Continue(c)
  PROVE  \/ Contract!Request(c) \/ Contract!Answer(c) \/ Contract!GiveUp(c)
         \/ UNCHANGED Contract!vars
<1>0. TypeOK /\ CallOK(c) /\ CallOK(c)' /\ TypeOK'
  BY DEF IInv
<1>1. Statuses' = [Statuses EXCEPT ![c] = Status(c)']
  BY <1>0, OthersSame, StatusStep
<1>2. pc[c] \in {"waiting", "backoff", "stepping", "direct"} /\ Statuses[c] = "pending"
  BY DEF Continue, Reply, Wake, AskDirectly, RouterAnswers, DirectAnswers,
         RouterFails, DirectFails, RouterLimits, DirectLimits, Statuses, Status
<1>3. key' = key
  BY DEF Continue, Reply, Wake, AskDirectly, RouterAnswers, DirectAnswers,
         RouterFails, DirectFails, RouterLimits, DirectLimits
<1>4. CASE /\ spent' = [spent EXCEPT ![c] = @ + 1]
           /\ answered' = answered
           /\ Status(c)' = "pending"
  <2>1. spent'[c] = spent[c] + 1 /\ spent[c] \in Nat
    BY <1>0, <1>4 DEF TypeOK
  <2>2. spent'[c] <= MaxAttempts + Cardinality(Ids)
    BY BudgetNext DEF WithinBudget
  <2>3. spent[c] < MaxAttempts + Cardinality(Ids)
    BY <2>1, <2>2, IdsFinite, PoolAssumption
  <2>4. Statuses' = Statuses
    BY <1>1, <1>2, <1>4 DEF Statuses
  <2>. QED  BY <1>2, <1>3, <1>4, <2>3, <2>4 DEF Contract!Request, Statuses
<1>5. CASE /\ spent' = spent
           /\ answered' = answered
           /\ Status(c)' = "pending"
  <2>1. Statuses' = Statuses
    BY <1>1, <1>2, <1>5 DEF Statuses
  <2>. QED  BY <1>3, <1>5, <2>1 DEF Contract!vars, Statuses
<1>6. CASE /\ spent' = spent
           /\ answered' = answered
           /\ Status(c)' = "failed"
  BY <1>1, <1>2, <1>3, <1>6 DEF Contract!GiveUp, Statuses
<1>7. CASE /\ spent' = spent
           /\ answered' = answered \cup {key[c]}
           /\ Status(c)' = "ok"
  BY <1>1, <1>2, <1>3, <1>7 DEF Contract!Answer, Statuses
<1>. USE <1>0, EndStatus DEF Locations
<1>8. CASE Wake(c)
  BY <1>4, <1>6, <1>8 DEF Wake, AskRouter, TypeOK, Failures
<1>9. CASE AskDirectly(c)
  BY <1>4, <1>9 DEF AskDirectly
<1>10. CASE \E a \in Answers : RouterAnswers(c, a) \/ DirectAnswers(c, a)
  BY <1>5, <1>6, <1>7, <1>10 DEF RouterAnswers, DirectAnswers, RetryOr, Deliver, Failures
<1>11. CASE \E e \in Errors : RouterFails(c, e) \/ DirectFails(c, e)
  BY <1>5, <1>6, <1>11 DEF RouterFails, DirectFails, RetryOr, Failures
<1>12. CASE \E i \in Deployments \cup {0}, label \in Labels : RouterLimits(c, i, label)
  BY <1>5, <1>6, <1>12 DEF RouterLimits, StepOn, Failures
<1>13. CASE DirectLimits(c)
  BY <1>5, <1>6, <1>13 DEF DirectLimits, StepOn, Failures
<1>. QED  BY <1>8, <1>9, <1>10, <1>11, <1>12, <1>13 DEF Continue, Reply

(* The pool implements TranslateContract: what its callers rely on. *)
THEOREM Refinement == Spec => ImplementsContract
<1>1. IInv /\ IInv' /\ [Next]_vars => [Contract!Next]_(Contract!vars)
  <2>. SUFFICES ASSUME IInv, IInv', [Next]_vars
                PROVE  Contract!Next \/ UNCHANGED Contract!vars
    OBVIOUS
  <2>1. ASSUME NEW c \in Calls, Continue(c)
        PROVE  Contract!Next \/ UNCHANGED Contract!vars
    BY <2>1, ContinueRefines DEF Contract!Next
  <2>2. ASSUME NEW c \in Calls, NEW k \in Keys, NEW w \in BOOLEAN, Translate(c, k, w)
        PROVE  Contract!Next
    BY <2>2, BeginRefines DEF Contract!Next
  <2>3. CASE Tick \/ UNCHANGED vars
    BY <2>3 DEF Tick, vars, callVars, Contract!vars, Status
  <2>. QED  BY <2>1, <2>2, <2>3 DEF Next
<1>. QED
  BY <1>1, InitRefines, Invariance, PTL DEF Spec, ImplementsContract, Contract!Spec

-----------------------------------------------------------------------------
(* What holds of every configuration and every environment.                *)

(* A fallback names another role, and that role has, among the deployments *)
(* the Router is given, one that may be asked; a translation is never      *)
(* handed to another role's models (_build_fallbacks, OL-8, #141).         *)
THEOREM FallbacksAreServed ==
  ASSUME NEW usable, DOMAIN usable = Roles
  PROVE  /\ "translation" \notin DOMAIN Fallbacks(usable)
         /\ \A r \in DOMAIN Fallbacks(usable) :
              /\ Fallbacks(usable)[r] # {} /\ r \notin Fallbacks(usable)[r]
              /\ \A t \in Fallbacks(usable)[r] :
                   \E d \in ModelList(usable) : d.group = t /\ d.entry.rpm > 0
<1>1. DOMAIN Fallbacks(usable) = Rescued(usable)
  BY DEF Fallbacks
<1>2. ASSUME NEW r \in Rescued(usable), NEW t \in Fallbacks(usable)[r]
      PROVE  \E d \in ModelList(usable) : d.group = t /\ d.entry.rpm > 0
  <2>1. t \in Roles /\ \E e \in usable[t] : e.rpm > 0
    BY <1>2 DEF Fallbacks, Targets, Groups
  <2>2. PICK e \in usable[t] : e.rpm > 0
    BY <2>1
  <2>3. Deployment(usable, t, e) \in ModelList(usable)
    BY <2>1, <2>2 DEF ModelList
  <2> QED BY <2>2, <2>3 DEF Deployment
<1> QED BY <1>1, <1>2 DEF Fallbacks, Rescued

(* A missing key takes its own models out and nothing else: a pool that is *)
(* built has a deployment for every role that was configured, and an entry *)
(* of a role has a deployment exactly when all its variables are set, no   *)
(* matter what the other entries lack (partition_usable_models and the     *)
(* check of ModelPool.__init__, OL#99).                                    *)
THEOREM OneKeyIsEnough ==
  ASSUME NEW pool, NEW env, Builds(pool, env)
  PROVE  /\ \A r \in Roles : pool[r] # {} =>
              \E d \in ModelList(Usable(pool, env)) : d.group = r
         /\ \A r \in Roles : \A e \in pool[r] :
              (\E d \in ModelList(Usable(pool, env)) : d.group = r /\ d.entry = e)
                <=> e.needs \subseteq env
         /\ \A d \in ModelList(Usable(pool, env)) : d.entry \in pool[d.group]
<1> DEFINE usable == Usable(pool, env)
<1>1. ASSUME NEW r \in Roles, NEW e \in usable[r]
      PROVE  \E d \in ModelList(usable) : d.group = r /\ d.entry = e
  <2>1. Deployment(usable, r, e) \in ModelList(usable)
    BY <1>1 DEF ModelList
  <2> QED BY <2>1 DEF Deployment
<1>2. ASSUME NEW r \in Roles
      PROVE  usable[r] = {e \in pool[r] : e.needs \subseteq env}
  BY <1>2 DEF Usable, Unresolved
<1>3. ASSUME NEW d \in ModelList(usable)
      PROVE  d.group \in Roles /\ d.entry \in usable[d.group]
  <2>1. PICK r \in Roles : \E e \in usable[r] : d = Deployment(usable, r, e)
    BY <1>3 DEF ModelList
  <2>2. PICK e \in usable[r] : d = Deployment(usable, r, e)
    BY <2>1
  <2> QED BY <2>2 DEF Deployment
<1>4. ASSUME NEW r \in Roles, pool[r] # {}
      PROVE  \E d \in ModelList(usable) : d.group = r
  <2>1. usable[r] # {}
    BY <1>4 DEF Builds, Starved
  <2> QED BY <1>1, <2>1
<1> HIDE DEF usable
<1>5. \A r \in Roles : \A e \in pool[r] :
        (\E d \in ModelList(usable) : d.group = r /\ d.entry = e) <=> e.needs \subseteq env
  BY <1>1, <1>2, <1>3
<1>6. \A d \in ModelList(usable) : d.entry \in pool[d.group]
  BY <1>2, <1>3
<1> QED BY <1>4, <1>5, <1>6 DEF usable

(* Whatever entry of a role answers, the ceiling of its answer is the one  *)
(* it declares, or the role's: what the call says never goes before what a *)
(* deployment declares (_build_model_list and _router_max_tokens_kwargs,   *)
(* which decide it in two places).                                         *)
THEOREM CeilingIsDeclared ==
  ASSUME NEW usable, NEW d \in ModelList(usable)
  PROVE  Ceiling(usable, d.group, d) = EffectiveTokens(d.group, d.entry)
<1>1. PICK r \in Roles : \E e \in usable[r] : d = Deployment(usable, r, e)
  BY DEF ModelList
<1>2. PICK e \in usable[r] : d = Deployment(usable, r, e)
  BY <1>1
<1>3. d.group = r /\ d.entry = e
      /\ d.max_tokens = IF HasOverride(usable[r]) THEN EffectiveTokens(r, e) ELSE 0
  BY <1>2 DEF Deployment
<1>4. CASE HasOverride(usable[r])
  BY <1>3, <1>4 DEF Ceiling, CallTokens
<1>5. CASE ~ HasOverride(usable[r])
  <2>1. e.max_tokens = 0
    BY <1>2, <1>5 DEF HasOverride
  <2>2. EffectiveTokens(r, e) = DefaultTokens(r) /\ DefaultTokens(r) # 0
    BY <2>1 DEF EffectiveTokens, DefaultTokens
  <2> QED BY <1>3, <1>5, <2>2 DEF Ceiling, CallTokens
<1> QED BY <1>4, <1>5

(* No wait after a 429 is longer than max_delay_s, whatever the provider's *)
(* header says and whatever jitter adds (compute_rate_limit_backoff).      *)
THEOREM BackoffIsCapped ==
  ASSUME NEW n \in Nat, NEW header \in SUBSET Int, NEW cfg,
         cfg.base_delay \in Nat, cfg.max_delay \in Nat
  PROVE  \A w \in Backoffs(n, header, cfg) : w <= cfg.max_delay
<1>1. ASSUME NEW x \in Int
      PROVE  AtMost(x, cfg) \in Int /\ AtMost(x, cfg) <= cfg.max_delay
  BY <1>1 DEF AtMost
<1>2. cfg.base_delay * 2 ^ n \in Int
  OBVIOUS
<1>3. \A h \in RetryAfter(header) : h \in Int
  BY DEF RetryAfter
<1>4. ASSUME NEW w \in Int, NEW j \in IF cfg.jitter THEN 0 .. AtMost(w, cfg) \div 4 ELSE {0}
      PROVE  AtMost(AtMost(w, cfg) + j, cfg) <= cfg.max_delay
  <2>1. AtMost(w, cfg) \in Int /\ AtMost(w, cfg) \div 4 \in Int
    BY <1>1
  <2>2. j \in Int
    BY <1>4, <2>1
  <2> QED BY <1>1, <2>1, <2>2
<1>5. CASE cfg.enabled
  BY <1>2, <1>3, <1>4, <1>5 DEF Backoffs
<1>6. CASE ~ cfg.enabled
  BY <1>6 DEF Backoffs
<1> QED BY <1>5, <1>6
=============================================================================
