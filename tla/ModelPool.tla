----------------------------- MODULE ModelPool -----------------------------
(***************************************************************************)
(* ModelPool.translate (ol_pool/router.py): concurrent translation calls   *)
(* that share the role's circuit breaker and the prompt cache.             *)
(*                                                                         *)
(* A call looks in the cache, asks the litellm Router up to MaxAttempts    *)
(* times, sleeps between attempts, and, when its last attempt is answered  *)
(* 429, asks the role's other models directly in priority order.  One      *)
(* action is what a coroutine does between two awaits.                     *)
(***************************************************************************)
EXTENDS CircuitBreaker, Sequences, FiniteSets

CONSTANTS
  Calls,        \* coroutines that call translate, each again and again
  Keys,         \* cache keys: one per (messages, languages, temperature)
  Tiers,        \* the role's deployments in priority order, each by model id:
                \* the pair of its provider and its bare model name
  MaxAttempts,  \* rate_limit_backoff.max_attempts_per_model
  None

Deployments == 1 .. Len(Tiers)
Ids == {Tiers[i] : i \in Deployments}

(* model.model: what is left of an id without the provider.                *)
NameOf(id) == id[2]
SharingName(ids) == {id \in Ids : \E l \in ids : NameOf(l) = NameOf(id)}

(* What a completion can hold: text that passes every check of             *)
(* _process_translation_response, text judged truncated, and text that is  *)
(* still mostly source language.                                           *)
Answers == {"valid", "truncated", "residual"}

(* What a completion can raise, 429 apart.                                 *)
Errors == {"timeout", "auth", "other"}

(* How a call can end when it does not return a text.                      *)
Failures ==
  Errors \cup {"rate_limit", "truncation", "source_residual", "breaker_open"}

ASSUME PoolAssumption ==
  /\ Tiers \in Seq(Ids)
  /\ MaxAttempts \in Nat \ {0}
  /\ None \notin Keys \cup Answers \cup Failures

VARIABLES
  breaker,    \* _breakers["translation"]
  cache,      \* _cache: the answer kept for each key
  pc,         \* where each call is suspended
  key,        \* its cache key
  cacheable,  \* temperature is 0 and the cache is enabled
  attempt,    \* the loop counter
  attempted,  \* failover: ids not to ask (again)
  asking,     \* failover: the deployment being asked, 0 for none
  result,     \* what the call returned or raised
  \* history, which no action reads:
  spent,      \* requests each call has sent
  limited,    \* deployments known to have answered this call with a 429
  answered    \* keys some completion has answered with valid text

callVars == <<pc, key, cacheable, attempt, attempted, asking, result, spent, limited>>
vars == <<breaker, cache, callVars, answered>>

Locations == {"idle", "waiting", "backoff", "stepping", "direct", "done"}

TypeOK ==
  /\ breaker \in BreakerValues
  /\ cache \in [Keys -> Answers \cup {None}]
  /\ pc \in [Calls -> Locations]
  /\ key \in [Calls -> Keys \cup {None}]
  /\ cacheable \in [Calls -> BOOLEAN]
  /\ attempt \in [Calls -> 0 .. MaxAttempts - 1]
  /\ attempted \in [Calls -> SUBSET Ids]
  /\ asking \in [Calls -> Deployments \cup {0}]
  /\ result \in [Calls -> Answers \cup Failures \cup {None}]
  /\ spent \in [Calls -> Nat]
  /\ limited \in [Calls -> SUBSET Deployments]
  /\ answered \in SUBSET Keys

Init ==
  /\ breaker = Fresh
  /\ cache = [k \in Keys |-> None]
  /\ pc = [c \in Calls |-> "idle"]
  /\ key = [c \in Calls |-> None]
  /\ cacheable = [c \in Calls |-> FALSE]
  /\ attempt = [c \in Calls |-> 0]
  /\ attempted = [c \in Calls |-> {}]
  /\ asking = [c \in Calls |-> 0]
  /\ result = [c \in Calls |-> None]
  /\ spent = [c \in Calls |-> 0]
  /\ limited = [c \in Calls |-> {}]
  /\ answered = {}

-----------------------------------------------------------------------------
(* What calls do at the end of an action.                                  *)

Finish(c, r) ==
  /\ pc' = [pc EXCEPT ![c] = "done"]
  /\ result' = [result EXCEPT ![c] = r]

Suspend(c, where) ==
  /\ pc' = [pc EXCEPT ![c] = where]
  /\ result' = [result EXCEPT ![c] = None]

(* _call_with_breaker up to its await: rejected when the breaker reads     *)
(* open, whatever its age, otherwise one request on its way.               *)
AskRouter(c, before) ==
  \/ /\ IsOpen(breaker)
     /\ Finish(c, "breaker_open")
     /\ spent' = [spent EXCEPT ![c] = before]
  \/ /\ ~IsOpen(breaker)
     /\ Suspend(c, "waiting")
     /\ spent' = [spent EXCEPT ![c] = before + 1]

(* Mutation of Remember: the key forgets what text it is for. *)
Remember_OneKeyForAll(k, a) == cache' = [x \in Keys |-> a]

(* _PromptCache.put: the entry is renewed, and the least recently used one *)
(* goes when the cache is over its size.                                   *)
Remember(k, a) ==
  \E evicted \in {None} \cup (Keys \ {k}) :
    cache' = [x \in Keys |-> IF x = k THEN a
                             ELSE IF x = evicted THEN None ELSE cache[x]]

(* A text that passed _process_translation_response.                       *)
Deliver(c, a) ==
  /\ Finish(c, a)
  /\ answered' = answered \cup {key[c]}
  /\ IF cacheable[c] THEN Remember(key[c], a) ELSE UNCHANGED cache

(* Mutation of RetryOr: the test for attempts left is off by one. *)
RetryOr_OneTooMany(c, failure) ==
  IF attempt[c] <= MaxAttempts - 1 THEN Suspend(c, "backoff") ELSE Finish(c, failure)

(* Attempts left: sleep and try again; otherwise raise.                    *)
RetryOr(c, failure) ==
  IF attempt[c] < MaxAttempts - 1 THEN Suspend(c, "backoff") ELSE Finish(c, failure)

(* Mutations of StepOn: the loop stops before its last model, or never. *)
StepOn_LastSkipped(c, tried) ==
  /\ attempted' = [attempted EXCEPT ![c] = tried]
  /\ IF Cardinality(tried) + 1 >= Cardinality(Ids)
     THEN Finish(c, "rate_limit") ELSE Suspend(c, "stepping")

StepOn_NoEnd(c, tried) ==
  /\ attempted' = [attempted EXCEPT ![c] = tried]
  /\ Suspend(c, "stepping")

(* The failover loop: on to the first deployment whose id is not in tried, *)
(* or, none left, the original 429 again.                                  *)
StepOn(c, tried) ==
  /\ attempted' = [attempted EXCEPT ![c] = tried]
  /\ IF Ids \subseteq tried THEN Finish(c, "rate_limit") ELSE Suspend(c, "stepping")

(* Mutation of IsNextTier: models already asked are not skipped. *)
IsNextTier_AskAgain(c, i) == \A j \in 1 .. i - 1 : Tiers[j] \in attempted[c]

(* for model in models: the first whose id was not attempted.              *)
IsNextTier(c, i) ==
  /\ Tiers[i] \notin attempted[c]
  /\ \A j \in 1 .. i - 1 : Tiers[j] \in attempted[c]

-----------------------------------------------------------------------------
(* translate is called: a live cache entry answers, an expired one is      *)
(* deleted, and without one the first request goes out.                    *)
Translate(c, k, w) ==
  /\ pc[c] \in {"idle", "done"}
  /\ key' = [key EXCEPT ![c] = k]
  /\ cacheable' = [cacheable EXCEPT ![c] = w]
  /\ attempt' = [attempt EXCEPT ![c] = 0]
  /\ attempted' = [attempted EXCEPT ![c] = {}]
  /\ asking' = [asking EXCEPT ![c] = 0]
  /\ limited' = [limited EXCEPT ![c] = {}]
  /\ \/ /\ w /\ cache[k] # None
        /\ pc' = [pc EXCEPT ![c] = "done"]
        /\ result' = [result EXCEPT ![c] = cache[k]]
        /\ spent' = [spent EXCEPT ![c] = 0]
        /\ UNCHANGED cache
     \/ /\ AskRouter(c, 0)
        /\ cache' = IF w THEN [cache EXCEPT ![k] = None] ELSE cache
  /\ UNCHANGED <<breaker, answered>>

(* The sleep before the next attempt is over.                              *)
Wake(c) ==
  /\ pc[c] = "backoff"
  /\ attempt' = [attempt EXCEPT ![c] = @ + 1]
  /\ AskRouter(c, spent[c])
  /\ UNCHANGED <<breaker, cache, key, cacheable, attempted, asking, limited, answered>>

(* The Router returns a completion: a success for the breaker, whatever    *)
(* the text is worth.                                                      *)
RouterAnswers(c, a) ==
  /\ pc[c] = "waiting"
  /\ breaker' = ReportSuccess(breaker)
  /\ \/ /\ a = "valid"
        /\ Deliver(c, a)
     \/ /\ a = "truncated"
        /\ Finish(c, "truncation")
        /\ UNCHANGED <<cache, answered>>
     \/ /\ a = "residual"
        /\ RetryOr(c, "source_residual")
        /\ UNCHANGED <<cache, answered>>
  /\ UNCHANGED <<key, cacheable, attempt, attempted, asking, spent, limited>>

(* The Router raises something else than a 429: only a timeout is retried. *)
RouterFails(c, e) ==
  /\ pc[c] = "waiting"
  /\ breaker' = ReportFailure(breaker)
  /\ IF e = "timeout" THEN RetryOr(c, e) ELSE Finish(c, e)
  /\ UNCHANGED <<cache, key, cacheable, attempt, attempted, asking, spent, limited, answered>>

(* _rate_limited_model_label and the loop below it: the ids the text of a  *)
(* 429 stands for.  It came from deployment i, or from the Router itself   *)
(* (i = 0), which names the role; a bare model name stands for every id    *)
(* that has it.                                                            *)
Labels == {"nothing", "id", "name"}

(* Mutation of Named: a 429 stands for all the models of its provider. *)
Named_ByProvider(i, label) ==
  {id \in Ids : label # "nothing" /\ \E j \in {i} \cap Deployments : id[1] = Tiers[j][1]}

Named(i, label) ==
  LET from == {Tiers[j] : j \in {i} \cap Deployments}
  IN IF label = "nothing" THEN {}
     ELSE IF label = "id" THEN from ELSE SharingName(from)

(* The Router raises a 429.  The last attempt goes over to the other       *)
(* models of the role, those the 429 names apart.                          *)
RouterLimits(c, i, label) ==
  /\ pc[c] = "waiting"
  /\ breaker' = ReportFailure(breaker)
  /\ limited' = [limited EXCEPT ![c] = @ \cup ({i} \cap Deployments)]
  /\ \/ /\ attempt[c] < MaxAttempts - 1
        /\ Suspend(c, "backoff")
        /\ UNCHANGED attempted
     \/ /\ attempt[c] = MaxAttempts - 1
        /\ StepOn(c, Named(i, label))
  /\ UNCHANGED <<cache, key, cacheable, attempt, asking, spent, answered>>

(* Failover: the wait is over, the next model is asked, past the breaker.  *)
AskDirectly(c) ==
  /\ pc[c] = "stepping"
  /\ \E i \in Deployments :
       /\ IsNextTier(c, i)
       /\ asking' = [asking EXCEPT ![c] = i]
       /\ attempted' = [attempted EXCEPT ![c] = @ \cup {Tiers[i]}]
  /\ spent' = [spent EXCEPT ![c] = @ + 1]
  /\ Suspend(c, "direct")
  /\ UNCHANGED <<breaker, cache, key, cacheable, attempt, limited, answered>>

(* A direct completion is checked like the Router's; a text that fails a   *)
(* check is raised, and no further model is asked.                         *)
DirectAnswers(c, a) ==
  /\ pc[c] = "direct"
  /\ \/ /\ a = "valid"
        /\ Deliver(c, a)
     \/ /\ a # "valid"
        /\ Finish(c, IF a = "truncated" THEN "truncation" ELSE "source_residual")
        /\ UNCHANGED <<cache, answered>>
  /\ UNCHANGED <<breaker, key, cacheable, attempt, attempted, asking, spent, limited>>

(* One more 429: on to the next model, or the end.                         *)
DirectLimits(c) ==
  /\ pc[c] = "direct"
  /\ limited' = [limited EXCEPT ![c] = @ \cup {asking[c]}]
  /\ StepOn(c, attempted[c])
  /\ UNCHANGED <<breaker, cache, key, cacheable, attempt, asking, spent, answered>>

(* Anything else a direct completion raises leaves the loop.               *)
DirectFails(c, e) ==
  /\ pc[c] = "direct"
  /\ Finish(c, e)
  /\ UNCHANGED <<breaker, cache, key, cacheable, attempt, attempted, asking, spent, limited, answered>>

(* Time passes for an open breaker.                                        *)
Tick ==
  /\ IsOpen(breaker)
  /\ ~ResetDue(breaker)
  /\ breaker' = Aged(breaker)
  /\ UNCHANGED <<cache, callVars, answered>>

-----------------------------------------------------------------------------
(* A request in flight comes back in some way: the Router and the direct   *)
(* calls carry a timeout.                                                  *)
Reply(c) ==
  \/ \E a \in Answers : RouterAnswers(c, a) \/ DirectAnswers(c, a)
  \/ \E e \in Errors : RouterFails(c, e) \/ DirectFails(c, e)
  \/ \E i \in Deployments \cup {0}, label \in Labels : RouterLimits(c, i, label)
  \/ DirectLimits(c)

Continue(c) == Wake(c) \/ AskDirectly(c) \/ Reply(c)

Next ==
  \/ \E c \in Calls, k \in Keys, w \in BOOLEAN : Translate(c, k, w)
  \/ \E c \in Calls : Continue(c)
  \/ Tick

Spec == Init /\ [][Next]_vars

(* A sleep ends and a request is answered; nothing makes a caller call.    *)
FairSpec == Spec /\ \A c \in Calls : WF_vars(Continue(c))

-----------------------------------------------------------------------------
(* A bad text never gets out: what a call returns and what the cache keeps *)
(* for later calls of any coroutine passed every response check, in the    *)
(* Router path and in the failover path, and was produced for that key.    *)
OnlyValidText ==
  /\ \A k \in Keys : cache[k] # None => cache[k] = "valid" /\ k \in answered
  /\ \A c \in Calls :
       result[c] \in Answers => result[c] = "valid" /\ key[c] \in answered

(* However retries and failover combine, one call sends at most            *)
(* max_attempts_per_model requests through the Router and one to each      *)
(* distinct model of its role.                                             *)
WithinBudget == \A c \in Calls : spent[c] <= MaxAttempts + Cardinality(Ids)

(* The model ids known to have answered a call with a 429.                 *)
LimitedIds(c) == {Tiers[i] : i \in limited[c]}

(* Fail-closed only at the end: the original 429 is raised again only when *)
(* every model name of the role has answered this very call with a 429,    *)
(* through one provider at least (_intra_role_failover).                   *)
RateLimitMeansExhausted ==
  \A c \in Calls : result[c] = "rate_limit" => SharingName(LimitedIds(c)) = Ids

(* An opened breaker stays as it is until the reset timeout: requests that *)
(* were under way when it opened, in any coroutine, neither close it nor   *)
(* restart its clock, whatever they report.                                *)
OpenHoldsUntilReset ==
  [][IsOpen(breaker) /\ ~ResetDue(breaker) =>
       breaker' \in {breaker, Aged(breaker)}]_vars

(* ARCHITECTURE.md:242: "After 60 s, the breaker half-opens: one call      *)
(* through": once the reset is due, no further call is rejected.           *)
RejectedOnlyUntilReset ==
  [][ResetDue(breaker) =>
       \A c \in Calls : result'[c] = "breaker_open" => result[c] = "breaker_open"]_vars

(* The calls, seen from outside.                                           *)
Status(c) ==
  IF pc[c] = "idle" THEN "idle"
  ELSE IF pc[c] # "done" THEN "pending"
  ELSE IF result[c] = "valid" THEN "ok" ELSE "failed"

Contract == INSTANCE TranslateContract WITH
  Budget <- MaxAttempts + Cardinality(Ids),
  status <- [c \in Calls |-> Status(c)],
  wants <- key,
  requests <- spent

(* The pool implements what its callers rely on: a text a call returns is  *)
(* an acceptable answer somebody got for that very key, within a bounded   *)
(* number of requests per call.                                            *)
ImplementsContract == Contract!Spec

(* Every call of translate returns or raises.                              *)
EveryCallReturns ==
  \A c \in Calls : pc[c] \notin {"idle", "done"} ~> pc[c] = "done"

-----------------------------------------------------------------------------
(* The inductive invariant the proofs use.                                 *)

(* A closed breaker is below its threshold and has no age.                 *)
BreakerOK ==
  /\ ~IsOpen(breaker) => breaker.failures < FailMax /\ breaker.age = 0
  /\ IsOpen(breaker) => breaker.failures = FailMax

(* What a call has spent, at each place it can be suspended.               *)
SpentOK(c) ==
  /\ pc[c] = "idle" => spent[c] = 0
  /\ pc[c] \in {"waiting", "backoff"} => spent[c] = attempt[c] + 1
  /\ pc[c] = "backoff" => attempt[c] < MaxAttempts - 1
  /\ pc[c] \in {"stepping", "direct"} =>
       spent[c] <= MaxAttempts + Cardinality(attempted[c])
  /\ pc[c] = "done" => spent[c] <= MaxAttempts + Cardinality(Ids)

(* Failover marks an id only when it shares its name with a rate-limited   *)
(* one, or is being asked.                                                 *)
FailoverOK(c) ==
  /\ pc[c] = "stepping" => attempted[c] \subseteq SharingName(LimitedIds(c))
  /\ pc[c] = "direct" =>
       /\ asking[c] \in Deployments
       /\ attempted[c] \subseteq SharingName(LimitedIds(c)) \cup {Tiers[asking[c]]}
  /\ result[c] = "rate_limit" => Ids \subseteq SharingName(LimitedIds(c))

(* A call that is under way has a key and no result yet.                   *)
ResultOK(c) ==
  /\ pc[c] # "done" => result[c] = None
  /\ pc[c] = "done" => result[c] # None
  /\ pc[c] # "idle" => key[c] \in Keys
  /\ result[c] \in Answers => result[c] = "valid" /\ key[c] \in answered

CacheOK == \A k \in Keys : cache[k] # None => cache[k] = "valid" /\ k \in answered

CallOK(c) == SpentOK(c) /\ FailoverOK(c) /\ ResultOK(c)

IInv ==
  /\ TypeOK
  /\ BreakerOK
  /\ CacheOK
  /\ \A c \in Calls : CallOK(c)
=============================================================================
