---------------------------- MODULE AnswerProofs ----------------------------
(***************************************************************************)
(* Proofs about what the system makes of a model's answer: about           *)
(* StructuredAnswer, for any callers of one kind and any answers, well     *)
(* formed, spoiled or cut off, and about TextRepair, in either channel.    *)
(***************************************************************************)
EXTENDS StructuredAnswer, TextRepair, FiniteSetTheorems, SequenceTheorems,
        WellFoundedInduction, TLAPS

(* Digits keeps the whole points of a number, without its sign.            *)
LEMMA DigitsTruncate ==
  ASSUME NEW n \in Scores
  PROVE  /\ Digits(n) \in Scores /\ Digits(n) % Points(1) = 0
         /\ \E size \in {n, - n} : size >= 0 /\ size - Digits(n) \in 0 .. Points(1) - 1
<1>. DEFINE m == IF n < 0 THEN - n ELSE n
            q == m \div 10
<1>1. n \in Int /\ m \in Nat /\ m \in {n, - n}
  BY DEF Scores
<1>. HIDE DEF m
<1>2. q \in Int /\ 10 * q <= m /\ m < 10 * q + 10
  BY <1>1
<1>. HIDE DEF q
<1>3. Digits(n) = 10 * q
  BY DEF Digits, Points, m, q
<1>4. 10 * q \in Int /\ (10 * q) % 2 = 0 /\ (10 * q) % 10 = 0
  BY <1>2
<1>5. m >= 0 /\ m - 10 * q \in 0 .. 9
  BY <1>1, <1>2
<1>. QED  BY <1>1, <1>3, <1>4, <1>5 DEF Scores, Points

(* A result that ends a call is marked as an answer, and the scores of a   *)
(* judgement are in the answer they were taken from.                       *)
LEMMA UsableCopies ==
  ASSUME NEW c, NEW a \in Answers, NEW nth, NEW r \in Usable(c, a, nth)
  PROVE  r.flag \in Answered /\ (~ Profiling(c) => Copies(r, a))
<1>1. CASE Parses(a) /\ Profiling(c)
  BY <1>1 DEF Usable, Profile, Plain, Answered
<1>2. CASE Parses(a) /\ ~ Profiling(c)
  <2>. DEFINE scores == Salvaged(a.fields)
  <2>1. r = Plain(scores) /\ AllValid(scores)
    BY <1>2 DEF Usable
  <2>2. ASSUME NEW f \in Checked
        PROVE  f \in DOMAIN a.fields /\ scores[f] = Coerced(a.fields[f]) /\ scores[f] # Null
    BY <2>1 DEF AllValid, Salvaged
  <2>3. Copies(r, a)
    BY <2>1, <2>2 DEF Copies, Coerced, Meant, Plain
  <2>. QED  BY <2>1, <2>3 DEF Plain, Answered
<1>3. CASE ~ Parses(a)
  <2>1. /\ Scraped(a)
        /\ r = [fields |-> [f \in Checked |-> Digits(a.fields[f].first)], flag |-> "regex_recovered"]
    BY <1>3 DEF Usable
  <2>2. ASSUME NEW f \in Checked
        PROVE  f \in DOMAIN a.fields /\ Truncated(r.fields[f], a.fields[f])
    <3>1. f \in DOMAIN a.fields /\ a.fields[f].first # Null
      BY <2>1 DEF Scraped
    <3>2. a.fields[f] \in Value
      BY <3>1, AnswerAssumption DEF Range
    <3>3. a.fields[f].first \in Scores /\ r.fields[f] = Digits(a.fields[f].first)
      BY <2>1, <3>1, <3>2 DEF Value
    <3>. QED  BY <3>1, <3>3, DigitsTruncate DEF Truncated
  <2>3. Copies(r, a)
    BY <2>1, <2>2 DEF Copies
  <2>. QED  BY <2>1, <2>3 DEF Answered
<1>. QED  BY <1>1, <1>2, <1>3

(* A failure is never marked as an answer. *)
LEMMA FailuresAreMarked ==
  ASSUME NEW c
  PROVE  /\ \A flag \in {"transport_error", "truncated", "raised"} : Failure(c, flag).flag \notin Answered
         /\ Unmended(c).flag \notin Answered
BY DEF Failure, Unmended, Zeros, Excuse, Answered

(* Given, of the answers heard after the step. *)
GivenThen(r) == \E a \in UNION {ToSet(heard'[d]) : d \in calls'} : Copies(r, a)

(* An answer that some call has heard is not forgotten when a call hears   *)
(* more.                                                                   *)
LEMMA HeardRemains ==
  ASSUME CallsOK, UNCHANGED calls, NEW r, Given(r),
         \A d \in calls : ToSet(heard[d]) \subseteq ToSet(heard'[d])
  PROVE  GivenThen(r)
BY DEF Given, GivenThen, Heard

(* What call c gets: either what somebody was given, or a failure; and the *)
(* cache, if it was filled, holds that too.                                *)
Settles(c, r) ==
  /\ r.flag \in Answered /\ ~ Profiling(c) => GivenThen(r)
  /\ result' = [result EXCEPT ![c] = r]
  /\ cache' = cache \/ (cache' = r /\ r.flag \in Answered /\ Cached(c))

(* A step of call c that hears what there is to hear keeps the invariant.  *)
LEMMA HearingStep ==
  ASSUME IInv, NEW c \in calls, UNCHANGED calls, CallsOK',
         \A d \in calls : ToSet(heard[d]) \subseteq ToSet(heard'[d]),
         \/ UNCHANGED <<result, cache>>
         \/ \E r : Settles(c, r)
  PROVE  IInv'
<1>1. ASSUME NEW d \in calls, cache' = cache, cache # None, ~ Profiling(d)
      PROVE  GivenThen(cache)
  BY <1>1, HeardRemains DEF IInv, CacheIsGiven
<1>2. ASSUME NEW d \in calls, ~ Profiling(d), result[d].flag \in Answered
      PROVE  GivenThen(result[d])
  BY <1>2, HeardRemains DEF IInv, ScoresAreTheModels
<1>3. CASE UNCHANGED <<result, cache>>
  <2>1. ScoresAreTheModels'
    BY <1>2, <1>3 DEF ScoresAreTheModels, Profiling, Given, GivenThen, Heard
  <2>2. CacheIsGiven'
    BY <1>1, <1>3 DEF CacheIsGiven, Profiling, Given, GivenThen, Heard
  <2>. QED  BY <1>3, <2>1, <2>2 DEF IInv, OutageIsForgotten
<1>4. ASSUME NEW r, Settles(c, r)
      PROVE  IInv'
  <2>1. DOMAIN result = calls
    BY DEF IInv, CallsOK
  <2>2. \A d \in calls : result'[d] = IF d = c THEN r ELSE result[d]
    BY <1>4, <2>1 DEF Settles
  <2>3. ScoresAreTheModels'
    BY <1>2, <1>4, <2>2 DEF ScoresAreTheModels, Settles, Profiling, Given, GivenThen, Heard
  <2>4. CASE cache' = cache
    <3>1. CacheIsGiven'
      BY <1>1, <2>4 DEF CacheIsGiven, Profiling, Given, GivenThen, Heard
    <3>. QED  BY <2>3, <2>4, <3>1 DEF IInv, OutageIsForgotten
  <2>5. CASE cache' = r /\ r.flag \in Answered /\ Cached(c)
    <3>1. ASSUME NEW d \in calls, ~ Profiling(d)
          PROVE  ~ Profiling(c)
      BY <3>1, <2>5, CallAssumption DEF IInv, CallsOK, Profiling, Cached
    <3>2. CacheIsGiven'
      BY <1>4, <2>5, <3>1 DEF CacheIsGiven, Settles, Profiling, Given, GivenThen, Heard
    <3>. QED  BY <2>3, <2>5, <3>2 DEF IInv, OutageIsForgotten
  <2>. QED  BY <1>4, <2>4, <2>5 DEF Settles
<1>. QED  BY <1>3, <1>4

-----------------------------------------------------------------------------
LEMMA InitIInv == Init => IInv
BY DEF Init, IInv, CallsOK, Phases, OutageIsForgotten, CacheIsGiven, ScoresAreTheModels,
       None, Answered

(* One lemma for each action that gives a call its result. *)
LEMMA AskStep ==
  ASSUME IInv, NEW c \in calls, Ask(c)
  PROVE  IInv'
<1>1. UNCHANGED <<calls, heard, cache>> /\ phase[c] = "idle"
  BY DEF Ask
<1>2. CASE phase' = [phase EXCEPT ![c] = "asked"] /\ UNCHANGED result
  <2>1. CallsOK'
    BY <1>1, <1>2 DEF IInv, CallsOK, Phases
  <2>. QED  BY <1>1, <1>2, <2>1, HearingStep
<1>3. CASE Cached(c) /\ cache # None /\ Return(c, cache)
  <2>1. CallsOK'
    BY <1>1, <1>3 DEF IInv, CallsOK, Phases, Return
  <2>2. ~ Profiling(c) => GivenThen(cache)
    BY <1>1, <1>3 DEF IInv, CacheIsGiven, Given, GivenThen, Heard
  <2>3. Settles(c, cache)
    BY <1>1, <1>3, <2>2 DEF Settles, Return
  <2>. QED  BY <1>1, <2>1, <2>3, HearingStep
<1>. QED  BY <1>2, <1>3 DEF Ask

(* A call that is answered.                                                *)
LEMMA AnswerStep ==
  ASSUME IInv, NEW c \in calls, Answer(c)
  PROVE  IInv'
<1>1. PICK a \in Answers :
        /\ heard' = [heard EXCEPT ![c] = <<a>>]
        /\ \/ \E r \in Usable(c, a, 1) : Return(c, r) /\ cache' = Remembered(c, r)
           \/ phase' = [phase EXCEPT ![c] = "repairing"] /\ UNCHANGED <<result, cache>>
  BY DEF Answer
<1>2. UNCHANGED calls /\ phase[c] = "asked" /\ heard[c] = <<>>
  BY DEF Answer, IInv, CallsOK
<1>3. /\ heard' \in [calls -> Seq(Answers)]
      /\ a \in ToSet(heard'[c])
      /\ \A d \in calls : ToSet(heard[d]) \subseteq ToSet(heard'[d])
      /\ \A d \in calls \ {c} : heard'[d] = heard[d]
  BY <1>1, <1>2 DEF IInv, CallsOK, ToSet
<1>4. CASE phase' = [phase EXCEPT ![c] = "repairing"] /\ UNCHANGED <<result, cache>>
  <2>1. CallsOK'
    BY <1>2, <1>3, <1>4 DEF IInv, CallsOK, Phases
  <2>. QED  BY <1>2, <1>3, <1>4, <2>1, HearingStep
<1>5. ASSUME NEW r \in Usable(c, a, 1), Return(c, r), cache' = Remembered(c, r)
      PROVE  IInv'
  <2>1. CallsOK'
    BY <1>2, <1>3, <1>5 DEF IInv, CallsOK, Phases, Return
  <2>2. r.flag \in Answered /\ (~ Profiling(c) => GivenThen(r))
    BY <1>2, <1>3, <1>5, UsableCopies DEF GivenThen
  <2>3. Settles(c, r)
    BY <1>5, <2>2 DEF Settles, Return, Remembered
  <2>. QED  BY <1>2, <1>3, <2>1, <2>3, HearingStep
<1>. QED  BY <1>1, <1>4, <1>5

(* A call that got no answer gets a failure, which is not remembered. *)
LEMMA FailureStep ==
  ASSUME IInv, NEW c \in calls, NEW r, r.flag \notin Answered,
         UNCHANGED calls, phase[c] \in {"asked", "repairing"},
         heard' \in [calls -> Seq(Answers)],
         \A d \in calls : ToSet(heard[d]) \subseteq ToSet(heard'[d]),
         \A d \in calls \ {c} : heard'[d] = heard[d],
         Return(c, r), cache' = Remembered(c, r)
  PROVE  IInv'
<1>1. CallsOK'
  BY DEF IInv, CallsOK, Phases, Return
<1>2. Settles(c, r)
  BY DEF Settles, Return, Remembered, Answered
<1>. QED  BY <1>1, <1>2, HearingStep

(* A call that fails for good.                                             *)
LEMMA FailStep ==
  ASSUME IInv, NEW c \in calls, Fail(c)
  PROVE  IInv'
<1>1. PICK flag \in {"transport_error", "truncated", "raised"} :
        Return(c, Failure(c, flag)) /\ cache' = Remembered(c, Failure(c, flag))
  BY DEF Fail
<1>2. Failure(c, flag).flag \notin Answered
  BY <1>1, FailuresAreMarked
<1>3. UNCHANGED <<calls, heard>> /\ phase[c] = "asked"
  BY DEF Fail
<1>4. heard \in [calls -> Seq(Answers)]
  BY DEF IInv, CallsOK
<1>. QED  BY <1>1, <1>2, <1>3, <1>4, FailureStep

(* An answer that is appended is heard, besides those before it. *)
LEMMA AppendedIsHeard ==
  ASSUME NEW answers \in Seq(Answers), NEW a \in Answers
  PROVE  a \in ToSet(Append(answers, a)) /\ ToSet(answers) \subseteq ToSet(Append(answers, a))
<1>. DEFINE longer == Append(answers, a)
<1>1. /\ DOMAIN answers = 1 .. Len(answers) /\ DOMAIN longer = 1 .. Len(answers) + 1
      /\ Len(answers) \in Nat
  OBVIOUS
<1>2. longer[Len(answers) + 1] = a /\ \A i \in DOMAIN answers : longer[i] = answers[i]
  OBVIOUS
<1>. HIDE DEF longer
<1>3. a \in ToSet(longer) /\ ToSet(answers) \subseteq ToSet(longer)
  BY <1>1, <1>2 DEF ToSet
<1>. QED  BY <1>3 DEF longer

(* A call whose answer is asked for again.                                 *)
LEMMA MendStep ==
  ASSUME IInv, NEW c \in calls, Mend(c)
  PROVE  IInv'
<1>. DEFINE Unmends == Return(c, Unmended(c)) /\ cache' = Remembered(c, result'[c])
<1>1. UNCHANGED calls /\ phase[c] = "repairing"
  BY DEF Mend
<1>2. heard \in [calls -> Seq(Answers)] /\ DOMAIN result = calls
  BY DEF IInv, CallsOK
<1>3. ASSUME Unmends
      PROVE  cache' = Remembered(c, Unmended(c))
  BY <1>2, <1>3 DEF Return
<1>4. CASE UNCHANGED heard /\ Unmends
  BY <1>1, <1>2, <1>3, <1>4, FailureStep, FailuresAreMarked
<1>5. ASSUME NEW a \in Answers, heard' = [heard EXCEPT ![c] = Append(@, a)],
             \/ \E r \in Usable(c, a, 2) : Return(c, r) /\ cache' = Remembered(c, r)
             \/ Unmends
      PROVE  IInv'
  <2>1. heard' \in [calls -> Seq(Answers)] /\ heard'[c] = Append(heard[c], a)
    BY <1>2, <1>5
  <2>2. a \in ToSet(heard'[c]) /\ ToSet(heard[c]) \subseteq ToSet(heard'[c])
    BY <1>2, <2>1, AppendedIsHeard
  <2>3. \A d \in calls \ {c} : heard'[d] = heard[d]
    BY <1>2, <1>5
  <2>4. \A d \in calls : ToSet(heard[d]) \subseteq ToSet(heard'[d])
    BY <2>2, <2>3
  <2>5. CASE Unmends
    BY <1>1, <1>3, <2>1, <2>3, <2>4, <2>5, FailureStep, FailuresAreMarked
  <2>6. ASSUME NEW r \in Usable(c, a, 2), Return(c, r), cache' = Remembered(c, r)
        PROVE  IInv'
    <3>1. CallsOK'
      BY <1>1, <2>1, <2>3, <2>6 DEF IInv, CallsOK, Phases, Return
    <3>2. r.flag \in Answered /\ (~ Profiling(c) => GivenThen(r))
      BY <1>1, <2>2, <2>6, UsableCopies DEF GivenThen
    <3>3. Settles(c, r)
      BY <2>6, <3>2 DEF Settles, Return, Remembered
    <3>. QED  BY <1>1, <2>4, <3>1, <3>3, HearingStep
  <2>. QED  BY <1>5, <2>5, <2>6
<1>. QED  BY <1>4, <1>5 DEF Mend

(* What the callers make of the results leaves them as they are.           *)
LEMMA CallerStep ==
  ASSUME IInv,
         \/ \E c \in calls : FindGuide(c) \/ Judge(c) \/ Report(c) \/ Guide(c)
         \/ Expire \/ Gather \/ UNCHANGED avars
  PROVE  IInv'
<1>1. UNCHANGED <<calls, heard, result>> /\ (cache' = cache \/ cache' = None)
  BY DEF FindGuide, Judge, Report, Guide, Expire, Gather, avars
<1>2. CASE UNCHANGED phase
  BY <1>1, <1>2 DEF IInv, CallsOK, OutageIsForgotten, CacheIsGiven, ScoresAreTheModels,
                    Profiling, Given, Heard
<1>3. ASSUME NEW c \in calls, phase' = [phase EXCEPT ![c] = "done"]
      PROVE  IInv'
  <2>1. CallsOK'
    BY <1>1, <1>3 DEF IInv, CallsOK, Phases
  <2>. QED  BY <1>1, <2>1 DEF IInv, OutageIsForgotten, CacheIsGiven, ScoresAreTheModels,
                              Profiling, Given, Heard
<1>. QED  BY <1>2, <1>3 DEF FindGuide, Judge, Report, Guide, Expire, Gather, avars

(* What the model said stays heard, so the scores of every judgement and   *)
(* of the cache remain somebody's answer.                                  *)
THEOREM Invariance == Spec => []IInv
<1>1. IInv /\ [Next]_avars => IInv'
  BY AskStep, AnswerStep, FailStep, MendStep, CallerStep DEF Next
<1>. QED  BY <1>1, InitIInv, PTL DEF Spec

(* No score is made up: through tolerance, salvage, the repair request and *)
(* the pool's cache the checked scores of a judgement come from one answer *)
(* of the model, as they stand in an object or, marked, as the whole       *)
(* points of the first numbers of any other answer; or the result is       *)
(* marked as a failure (ModelPool.judge).                                  *)
THEOREM ScoresAreTold == Spec => []ScoresAreTheModels
<1>1. IInv => ScoresAreTheModels
  BY DEF IInv
<1>. QED  BY <1>1, Invariance, PTL

(* Neither an outage nor an answer beyond repair stays in the pool's cache *)
(* to be served to later calls.                                            *)
THEOREM OutageIsNotCached == Spec => []OutageIsForgotten
<1>1. IInv => OutageIsForgotten
  BY DEF IInv
<1>. QED  BY <1>1, Invariance, PTL

-----------------------------------------------------------------------------
(* Least members, and votes counted on either side of a threshold.         *)
LEMMA LeastNatural ==
  ASSUME NEW S, S \subseteq Nat, S # {}
  PROVE  Min(S) \in S /\ \A y \in S : Min(S) <= y
<1>1. PICK x \in S : \A y \in S : ~ (<<y, x>> \in OpToRel(<, Nat))
  BY WFMin, NatLessThanWellFounded, Zenon
<1>2. ASSUME NEW y \in S
      PROVE  ~ (<<y, x>> \in {pair \in Nat \X Nat : pair[1] < pair[2]})
  BY <1>1, Zenon DEF OpToRel
<1>3. ASSUME NEW y \in S
      PROVE  x <= y
  <2>1. x \in Nat /\ y \in Nat
    OBVIOUS
  <2>2. ~ (y < x)
    BY <1>2, <2>1
  <2>. QED  BY <2>1, <2>2
<1>. QED  BY <1>3 DEF Min

(* A set of naturals that holds 1, and n + 1 with every n, holds them all  *)
(* up to any bound.                                                        *)
LEMMA UpTo ==
  ASSUME NEW S, NEW n \in Nat, n > 0 => 1 \in S, \A i \in S : i < n => i + 1 \in S
  PROVE  1 .. n \subseteq S
<1>. DEFINE out == (1 .. n) \ S
<1>. SUFFICES ASSUME out # {}
              PROVE  FALSE
  OBVIOUS
<1>1. out \subseteq Nat
  OBVIOUS
<1>2. PICK m \in out : \A y \in out : m <= y
  BY <1>1, LeastNatural
<1>3. m # 1 /\ m \in 2 .. n
  BY <1>2
<1>4. m - 1 \in 1 .. n /\ m - 1 \notin out
  BY <1>2, <1>3
<1>5. m - 1 \in S /\ m - 1 < n /\ (m - 1) + 1 = m
  BY <1>2, <1>3, <1>4
<1>6. m \in S
  BY <1>5
<1>. QED  BY <1>2, <1>6

(* A row of numbers has a least one.                                       *)
LEMMA LeastOfRow ==
  ASSUME NEW n \in Nat, n > 0, NEW g \in [1 .. n -> Int]
  PROVE  \E j \in 1 .. n : \A i \in 1 .. n : g[j] <= g[i]
<1>. DEFINE least(j, k) == \A i \in 1 .. k : g[j] <= g[i]
            low == {k \in 1 .. n : \E j \in 1 .. k : least(j, k)}
<1>1. 1 \in low
  OBVIOUS
<1>2. ASSUME NEW k \in low, k < n
      PROVE  k + 1 \in low
  <2>1. PICK j \in 1 .. k : least(j, k)
    OBVIOUS
  <2>2. /\ k \in 1 .. n /\ k + 1 \in 1 .. n /\ k + 1 \in 1 .. k + 1
        /\ j \in 1 .. k + 1
        /\ g[j] \in Int /\ g[k + 1] \in Int
    BY <1>2
  <2>3. ASSUME NEW i \in 1 .. k + 1
        PROVE  (i \in 1 .. k \/ i = k + 1) /\ g[i] \in Int
    BY <2>2
  <2>4. CASE g[j] <= g[k + 1]
    <3>1. least(j, k + 1)
      BY <2>1, <2>3, <2>4
    <3>. HIDE DEF least
    <3>. QED  BY <2>2, <3>1
  <2>5. CASE g[k + 1] < g[j]
    <3>1. ASSUME NEW i \in 1 .. k + 1
          PROVE  g[k + 1] <= g[i]
      <4>1. CASE i = k + 1
        BY <2>2, <4>1
      <4>2. CASE i \in 1 .. k
        <5>1. g[j] <= g[i] /\ g[i] \in Int
          BY <2>1, <2>3, <4>2
        <5>. HIDE DEF low, least
        <5>. QED  BY <2>2, <2>5, <5>1
      <4>. QED  BY <2>3, <4>1, <4>2
    <3>2. least(k + 1, k + 1)
      BY <3>1
    <3>. HIDE DEF least
    <3>. QED  BY <2>2, <3>2
  <2>. HIDE DEF low, least
  <2>. QED  BY <2>2, <2>4, <2>5
<1>3. n \in low
  <2>. HIDE DEF low
  <2>1. 1 .. n \subseteq low
    BY <1>1, <1>2, UpTo
  <2>. QED  BY <2>1
<1>. QED  BY <1>3

(* Of finitely many things with a score one has the least and one the      *)
(* greatest.                                                               *)
LEMMA Extremes ==
  ASSUME NEW V, IsFiniteSet(V), V # {}, NEW s, \A v \in V : s[v] \in Int
  PROVE  /\ \E lo \in V : \A v \in V : s[lo] <= s[v]
         /\ \E hi \in V : \A v \in V : s[v] <= s[hi]
<1>1. PICK n \in Nat : ExistsBijection(1 .. n, V)
  BY FS_NatBijection
<1>2. PICK f \in Bijection(1 .. n, V) : TRUE
  BY <1>1 DEF ExistsBijection
<1>3. /\ \A i \in 1 .. n : f[i] \in V /\ s[f[i]] \in Int
      /\ \A v \in V : \E i \in 1 .. n : f[i] = v
      /\ n > 0
  <2>1. f \in [1 .. n -> V] /\ \A v \in V : \E i \in 1 .. n : f[i] = v
    BY <1>2 DEF Bijection, Injection, Surjection
  <2>. QED  BY <2>1
<1>. DEFINE row == [i \in 1 .. n |-> s[f[i]]]
            back == [i \in 1 .. n |-> - s[f[i]]]
<1>4. row \in [1 .. n -> Int] /\ back \in [1 .. n -> Int]
  BY <1>3
<1>5. \E j \in 1 .. n : \A i \in 1 .. n : row[j] <= row[i]
  <2>. HIDE DEF row, back
  <2>. QED  BY <1>3, <1>4, LeastOfRow
<1>6. \E k \in 1 .. n : \A i \in 1 .. n : back[k] <= back[i]
  <2>. HIDE DEF row, back
  <2>. QED  BY <1>3, <1>4, LeastOfRow
<1>7. PICK j \in 1 .. n : \A i \in 1 .. n : s[f[j]] <= s[f[i]]
  BY <1>5
<1>8. PICK k \in 1 .. n : \A i \in 1 .. n : s[f[i]] <= s[f[k]]
  <2>1. PICK k \in 1 .. n : \A i \in 1 .. n : back[k] <= back[i]
    BY <1>6
  <2>2. ASSUME NEW i \in 1 .. n
        PROVE  s[f[i]] <= s[f[k]]
    <3>1. back[k] <= back[i]
      BY <2>1
    <3>2. - s[f[k]] <= - s[f[i]] /\ s[f[k]] \in Int /\ s[f[i]] \in Int
      BY <1>3, <3>1
    <3>. HIDE DEF row, back
    <3>. QED  BY <3>2
  <2>. QED  BY <2>2
<1>9. f[j] \in V /\ \A v \in V : s[f[j]] <= s[v]
  BY <1>3, <1>7
<1>10. f[k] \in V /\ \A v \in V : s[v] <= s[f[k]]
  BY <1>3, <1>8
<1>. QED  BY <1>9, <1>10

(* There are as many votes as voters. *)
LEMMA VotesAreVoters ==
  ASSUME NEW voters, IsFiniteSet(voters), NEW vote
  PROVE  LET votes == {<<vote[c], c>> : c \in voters}
         IN  IsFiniteSet(votes) /\ Cardinality(votes) = Cardinality(voters)
<1>. DEFINE votes == {<<vote[c], c>> : c \in voters}
            cast == [c \in voters |-> <<vote[c], c>>]
<1>1. cast \in Bijection(voters, votes)
  BY DEF Bijection, Injection, Surjection, IsInjective
<1>2. ExistsBijection(voters, votes)
  BY <1>1 DEF ExistsBijection
<1>. QED  BY <1>2, FS_Bijection

(* The vote of rank i is a vote, one that i votes reach at least, and no   *)
(* such vote is less.                                                      *)
LEMMA RankedVote ==
  ASSUME NEW votes, IsFiniteSet(votes), \A v \in votes : v[1] \in Int,
         NEW i \in Nat, 1 <= i, i <= Cardinality(votes)
  PROVE  \E w \in votes :
           /\ Ranked(votes, i) = w[1]
           /\ Cardinality({u \in votes : u[1] <= w[1]}) >= i
           /\ \A x \in votes : Cardinality({u \in votes : u[1] <= x[1]}) >= i => w[1] <= x[1]
<1>. DEFINE Upto(w) == {u \in votes : u[1] <= w[1]}
            reached == {w \in votes : Cardinality(Upto(w)) >= i}
            score == [v \in votes |-> v[1]]
<1>1. votes # {}
  BY FS_EmptySet
<1>2. PICK top \in votes : \A v \in votes : v[1] <= top[1]
  <2>1. \A v \in votes : score[v] \in Int /\ score[v] = v[1]
    OBVIOUS
  <2>. HIDE DEF score
  <2>2. \E hi \in votes : \A v \in votes : score[v] <= score[hi]
    BY <1>1, <2>1, Extremes
  <2>. QED  BY <2>1, <2>2
<1>3. Upto(top) = votes
  BY <1>2
<1>4. reached # {} /\ IsFiniteSet(reached) /\ reached \subseteq votes
  BY <1>3, FS_Subset
<1>5. PICK w \in reached : \A x \in reached : w[1] <= x[1]
  <2>1. \A v \in reached : score[v] \in Int /\ score[v] = v[1]
    OBVIOUS
  <2>. HIDE DEF score, reached
  <2>2. \E lo \in reached : \A v \in reached : score[lo] <= score[v]
    BY <1>4, <2>1, Extremes
  <2>. QED  BY <2>1, <2>2
<1>. DEFINE scores == {v[1] : v \in reached}
<1>6. w[1] \in scores /\ \A y \in scores : w[1] <= y
  BY <1>5
<1>7. scores \subseteq Int
  OBVIOUS
<1>8. Min(scores) = w[1]
  <2>. HIDE DEF scores
  <2>1. Min(scores) \in scores /\ \A y \in scores : Min(scores) <= y
    BY <1>6 DEF Min
  <2>2. Min(scores) \in Int /\ w[1] \in Int /\ Min(scores) <= w[1] /\ w[1] <= Min(scores)
    BY <1>6, <1>7, <2>1
  <2>. QED  BY <2>2
<1>9. Ranked(votes, i) = w[1]
  BY <1>8 DEF Ranked
<1>. QED  BY <1>5, <1>9

(* The vote of rank i is at or above the threshold t when fewer than i     *)
(* votes are below it, and below it when at least i votes are.             *)
LEMMA RankedSide ==
  ASSUME NEW votes, IsFiniteSet(votes), \A v \in votes : v[1] \in Int /\ v[1] # NaN,
         NEW t \in Int, NEW i \in Nat, 1 <= i, i <= Cardinality(votes)
  PROVE  /\ Ranked(votes, i) \in Int /\ Ranked(votes, i) # NaN
         /\ Cardinality({v \in votes : v[1] >= t}) + i > Cardinality(votes) => Ranked(votes, i) >= t
         /\ Cardinality({v \in votes : v[1] < t}) >= i => Ranked(votes, i) < t
<1>. DEFINE Upto(w) == {u \in votes : u[1] <= w[1]}
            high == {v \in votes : v[1] >= t}
            low == {v \in votes : v[1] < t}
<1>1. PICK w \in votes :
        /\ Ranked(votes, i) = w[1] /\ Cardinality(Upto(w)) >= i
        /\ \A x \in votes : Cardinality(Upto(x)) >= i => w[1] <= x[1]
  BY RankedVote
<1>2. ASSUME Cardinality(high) + i > Cardinality(votes)
      PROVE  w[1] >= t
  <2>1. /\ Cardinality(Upto(w)) \in Nat /\ Cardinality(high) \in Nat /\ Cardinality(votes) \in Nat
        /\ Upto(w) \subseteq votes /\ high \subseteq votes
    BY FS_Subset, FS_CardinalityType
  <2>2. Cardinality(Upto(w)) + Cardinality(high) > Cardinality(votes)
    BY <1>1, <1>2, <2>1
  <2>3. Upto(w) \cap high # {}
    BY <2>1, <2>2, FS_MajoritiesIntersect
  <2>. QED  BY <2>3
<1>3. ASSUME Cardinality(low) >= i
      PROVE  w[1] < t
  <2>. DEFINE score == [v \in votes |-> v[1]]
  <2>1. IsFiniteSet(low) /\ low # {} /\ low \subseteq votes
    BY <1>3, FS_Subset, FS_EmptySet
  <2>2. PICK last \in low : \A v \in low : v[1] <= last[1]
    <3>1. \A v \in low : score[v] \in Int /\ score[v] = v[1]
      OBVIOUS
    <3>. HIDE DEF score, low
    <3>2. \E hi \in low : \A v \in low : score[v] <= score[hi]
      BY <2>1, <3>1, Extremes
    <3>. QED  BY <3>1, <3>2
  <2>3. low \subseteq Upto(last) /\ Upto(last) \subseteq votes
    BY <2>2
  <2>4. /\ Cardinality(low) <= Cardinality(Upto(last))
        /\ Cardinality(low) \in Nat /\ Cardinality(Upto(last)) \in Nat
    BY <2>1, <2>3, FS_Subset, FS_CardinalityType
  <2>5. w[1] <= last[1]
    BY <1>1, <1>3, <2>4
  <2>. QED  BY <2>2, <2>5
<1>. QED  BY <1>1, <1>2, <1>3

(* The median is on the side of more than half of the votes.               *)
LEMMA MedianSide ==
  ASSUME NEW votes, IsFiniteSet(votes), \A v \in votes : v[1] \in Int /\ v[1] # NaN,
         NEW t \in Int
  PROVE  /\ Most({v \in votes : v[1] >= t}, votes) => Median(votes) >= t
         /\ Most({v \in votes : v[1] < t}, votes) => Median(votes) < t
<1>. DEFINE n == Cardinality(votes)
            h == Cardinality({v \in votes : v[1] >= t})
            l == Cardinality({v \in votes : v[1] < t})
<1>1. n \in Nat /\ h \in Nat /\ h <= n /\ l \in Nat /\ l <= n
  BY FS_CardinalityType, FS_Subset
<1>2. ASSUME NEW i \in Nat, 1 <= i, i <= n
      PROVE  /\ Ranked(votes, i) \in Int /\ Ranked(votes, i) # NaN
             /\ h + i > n => Ranked(votes, i) >= t
             /\ l >= i => Ranked(votes, i) < t
  BY <1>2, RankedSide
<1>. HIDE DEF h, l
<1>3. CASE n % 2 = 1
  <2>. DEFINE i == n \div 2 + 1
  <2>1. /\ i \in Nat /\ 1 <= i /\ i <= n
        /\ 2 * h > n => h + i > n
        /\ 2 * l > n => l >= i
    BY <1>1, <1>3
  <2>2. Median(votes) = Ranked(votes, i)
    BY <1>3 DEF Median
  <2>. QED  BY <1>2, <2>1, <2>2 DEF Most, h, l
<1>4. CASE n % 2 # 1
  <2>. DEFINE i == n \div 2
              a == Ranked(votes, i)
              b == Ranked(votes, i + 1)
  <2>1. ASSUME n > 0
        PROVE  /\ i \in Nat /\ 1 <= i /\ i + 1 <= n
               /\ 2 * h > n => h + i > n /\ h + (i + 1) > n
               /\ 2 * l > n => l >= i /\ l >= i + 1
    BY <1>1, <1>4, <2>1
  <2>2. ASSUME n > 0
        PROVE  /\ a \in Int /\ b \in Int /\ NaN \notin {a, b}
               /\ 2 * h > n => a >= t /\ b >= t
               /\ 2 * l > n => a < t /\ b < t
    <3>1. i \in Nat /\ i + 1 \in Nat /\ 1 <= i /\ i <= n /\ 1 <= i + 1 /\ i + 1 <= n
      BY <1>1, <2>1, <2>2
    <3>. HIDE DEF i, n
    <3>. QED  BY <1>2, <2>1, <2>2, <3>1
  <2>3. Median(votes) = Mean(a, b)
    BY <1>4 DEF Median
  <2>4. ASSUME n > 0
        PROVE  Median(votes) = (a + b) \div 2
    BY <2>2, <2>3, <2>4 DEF Mean
  <2>. HIDE DEF a, b, i
  <2>5. (2 * h > n \/ 2 * l > n) => n > 0
    BY <1>1
  <2>6. 2 * h > n => Median(votes) >= t
    BY <2>2, <2>4, <2>5
  <2>7. 2 * l > n => Median(votes) < t
    BY <2>2, <2>4, <2>5
  <2>. QED  BY <2>6, <2>7 DEF Most, h, l
<1>. QED  BY <1>1, <1>3, <1>4

-----------------------------------------------------------------------------
(* The fields a judgement can have, in what it brings to the vote.         *)
LEMMA UsableLoads ==
  ASSUME NEW c, NEW a \in Answers, NEW nth, NEW r \in Usable(c, a, nth)
  PROVE  Loads(r.fields)
<1>1. \A f \in DOMAIN a.fields : a.fields[f] \in Value
  BY AnswerAssumption DEF Range
<1>2. \A f \in DOMAIN a.fields : a.fields[f].n \in Scores /\ a.fields[f].first \in Scores \cup {Null}
  BY <1>1 DEF Value
<1>3. CASE Parses(a) /\ Profiling(c)
  BY <1>3 DEF Usable, Profile, Plain, Loads
<1>4. CASE Parses(a) /\ ~ Profiling(c)
  <2>1. r.fields = Salvaged(a.fields)
    BY <1>4 DEF Usable, Plain
  <2>2. ASSUME NEW f \in Criteria \cap DOMAIN a.fields
        PROVE  Salvaged(a.fields)[f] \in Scores \cup {Null, Words, NaN}
    <3>1. a.fields[f].n \in Scores
      BY <1>2
    <3>. QED  BY <3>1 DEF Salvaged, Coerced, Loaded
  <2>. QED  BY <2>1, <2>2 DEF Loads, Salvaged
<1>5. CASE ~ Parses(a)
  <2>1. /\ Scraped(a)
        /\ r.fields = [f \in Checked |-> Digits(a.fields[f].first)]
    BY <1>5 DEF Usable
  <2>2. \A f \in Checked : Digits(a.fields[f].first) \in Scores
    BY <1>2, <2>1, DigitsTruncate DEF Scraped
  <2>. QED  BY <2>1, <2>2 DEF Loads
<1>. QED  BY <1>3, <1>4, <1>5

(* What stands for a failed call loads as scores.                          *)
LEMMA FailureLoads ==
  ASSUME NEW c
  PROVE  /\ \A flag \in {"transport_error", "truncated", "raised"} : Loads(Failure(c, flag).fields)
         /\ Loads(Unmended(c).fields)
BY DEF Failure, Unmended, Zeros, Excuse, Loads, Scores

(* The pool returns to call c, and remembers, only such fields. *)
Brings(c, r) ==
  /\ Loads(r.fields)
  /\ result' = [result EXCEPT ![c] = r]
  /\ cache' \in {cache, r}

(* As long as one call is not done the ensemble is not gathered. *)
LEMMA PoolKeepsVotes ==
  ASSUME CallsOK, VotesOK, NEW c \in calls, phase[c] # "done",
         UNCHANGED <<calls, verdict, ensemble>>,
         UNCHANGED <<result, cache>> \/ \E r : Brings(c, r)
  PROVE  VotesOK'
<1>1. ensemble.flag \notin {"passed", "low"}
  BY DEF VotesOK, Gathered
<1>2. \A d \in calls : Loads(result'[d].fields)
  BY DEF CallsOK, VotesOK, Brings
<1>3. Loads(cache'.fields)
  BY DEF VotesOK, Brings
<1>. QED  BY <1>1, <1>2, <1>3 DEF VotesOK

(* A call of the pool answered for a caller.                               *)
LEMMA PoolVotes ==
  ASSUME CallsOK, VotesOK, NEW c \in calls,
         Ask(c) \/ Answer(c) \/ Fail(c) \/ Mend(c)
  PROVE  VotesOK'
<1>1. UNCHANGED <<calls, verdict, ensemble>> /\ phase[c] # "done"
  BY DEF Ask, Answer, Fail, Mend
<1>2. UNCHANGED <<result, cache>> \/ \E r : Brings(c, r)
  <2>1. DOMAIN result = calls /\ Loads(cache.fields)
    BY DEF CallsOK, VotesOK
  <2>2. ASSUME NEW r, Loads(r.fields), Return(c, r),
               \/ cache' = cache
               \/ cache' = Remembered(c, r)
               \/ cache' = Remembered(c, result'[c])
        PROVE  Brings(c, r)
    BY <2>1, <2>2 DEF Brings, Return, Remembered
  <2>3. CASE Ask(c)
    BY <2>1, <2>2, <2>3 DEF Ask
  <2>4. CASE Answer(c)
    BY <2>2, <2>4, UsableLoads DEF Answer
  <2>5. CASE Fail(c)
    BY <2>2, <2>5, FailureLoads DEF Fail
  <2>6. CASE Mend(c)
    BY <2>2, <2>6, UsableLoads, FailureLoads DEF Mend
  <2>. QED  BY <2>3, <2>4, <2>5, <2>6
<1>. QED  BY <1>1, <1>2, PoolKeepsVotes

(* A judge counts what is a number, and raises for what is none. *)
LEMMA CallerVotes ==
  ASSUME CallsOK, VotesOK, NEW c \in calls,
         FindGuide(c) \/ Judge(c) \/ Report(c) \/ Guide(c)
  PROVE  VotesOK'
<1>1. /\ UNCHANGED <<calls, result, cache, ensemble>> /\ phase[c] # "done"
      /\ DOMAIN verdict' = calls
      /\ \A d \in calls \ {c} : verdict'[d] = verdict[d]
  BY DEF FindGuide, Judge, Report, Guide, VotesOK
<1>2. ensemble.flag \notin {"passed", "low"}
  BY <1>1 DEF VotesOK, Gathered
<1>3. ASSUME c \in Units, verdict'[c].flag # "raised"
      PROVE  Counts(verdict'[c].fields)
  <2>1. Judge(c)
    BY <1>3, CallAssumption DEF FindGuide, Report, Guide, Profiling
  <2>. DEFINE scores == Remapped(result[c].fields)
  <2>2. CASE result[c].flag = "raised"
    <3>1. verdict'[c].fields = [f \in Criteria |-> 0]
      BY <1>3, <2>1, <2>2 DEF Judge, VotesOK
    <3>. QED  BY <3>1 DEF Counts, Scores
  <2>3. CASE result[c].flag # "raised"
    <3>1. Words \notin Range(scores) /\ verdict'[c].fields = scores
      BY <1>3, <2>1, <2>3 DEF Judge, VotesOK
    <3>2. ASSUME NEW f \in Criteria \cap DOMAIN scores
          PROVE  scores[f] \in Scores \cup {NaN}
      <4>1. /\ f \in DOMAIN result[c].fields /\ scores[f] = result[c].fields[f]
            /\ scores[f] # Null
        BY <3>2 DEF Remapped, Restrict
      <4>2. scores[f] # Words
        BY <3>1, <3>2 DEF Range
      <4>. QED  BY <4>1, <4>2 DEF VotesOK, Loads
    <3>. QED  BY <3>1, <3>2 DEF Counts
  <2>. QED  BY <2>2, <2>3
<1>. QED  BY <1>1, <1>2, <1>3 DEF VotesOK

(* The votes of an ensemble taken together.                                *)
LEMMA GatherVotes ==
  ASSUME CallsOK, VotesOK, Gather
  PROVE  VotesOK'
<1>1. UNCHANGED <<calls, phase, result, verdict, cache>>
  BY DEF Gather
<1>2. ASSUME ensemble'.flag \in {"passed", "low"}
      PROVE  Gathered'
  <2>1. calls = Units /\ \A c \in calls : phase[c] = "done"
    BY DEF Gather
  <2>. DEFINE voted == {f \in Criteria : Votes(f) # {}}
  <2>2. PICK scores \in [voted -> UNION {Middles(Votes(f)) : f \in voted}] :
          /\ \A f \in voted : scores[f] \in Middles(Votes(f))
          /\ ensemble' = IF \E c \in calls : verdict[c].flag = "raised"
                         THEN [fields |-> <<>>, flag |-> "raised"]
                         ELSE [fields |-> scores, flag |-> IF Passes(scores) THEN "passed" ELSE "low"]
    BY Zenon DEF Gather
  <2>3. /\ \A c \in calls : verdict[c].flag # "raised"
        /\ ensemble'.fields = scores
    BY <1>2, <2>2
  <2>4. \A f : Votes(f)' = Votes(f)
    BY <1>1 DEF Votes
  <2>5. \A f \in Criteria : Votes(f) # {} => ensemble'.fields[f] \in Middles(Votes(f))
    BY <2>2, <2>3
  <2>. QED  BY <1>1, <2>1, <2>3, <2>4, <2>5 DEF Gathered
<1>. QED  BY <1>1, <1>2 DEF VotesOK

(* An expiry of the cache, like a step of nobody, leaves the votes alone.  *)
LEMMA RestVotes ==
  ASSUME CallsOK, VotesOK, Expire \/ UNCHANGED avars
  PROVE  VotesOK'
<1>1. /\ UNCHANGED <<calls, phase, result, verdict, ensemble>>
      /\ cache' \in {cache, None}
  BY DEF Expire, avars
<1>2. Loads(cache'.fields)
  BY <1>1 DEF VotesOK, None, Loads
<1>3. Gathered' <=> Gathered
  BY <1>1 DEF Gathered, Votes
<1>. QED  BY <1>1, <1>2, <1>3 DEF VotesOK

(* What the judges report is a number, or a NaN the model put in quotes,   *)
(* and the ensemble is gathered from all of them when they are final.      *)
THEOREM VotesAreFinal == Spec => []VotesOK
<1>1. Init => VotesOK
  BY DEF Init, VotesOK, None, Loads, Counts
<1>2. IInv /\ VotesOK /\ [Next]_avars => VotesOK'
  BY PoolVotes, CallerVotes, GatherVotes, RestVotes DEF Next, IInv
<1>. QED  BY <1>1, <1>2, Invariance, PTL DEF Spec

(* T13-01: whatever the number of judges, and whichever of them left a     *)
(* criterion out, the ensemble's score of a criterion is on the side of    *)
(* the threshold where most of those are that reported it, as long as all  *)
(* their scores of it are numbers (EnsembleJudge.judge).                   *)
THEOREM MajorityIsFollowed == Spec => []MajorityDecides
<1>1. ASSUME VotesOK, ensemble.flag \in {"passed", "low"}, NEW f \in Criteria,
             \A c \in Reporting(f) : verdict[c].fields[f] # NaN
      PROVE  /\ Most(Content(f), Reporting(f)) => ensemble.fields[f] >= Threshold
             /\ Most(Reporting(f) \ Content(f), Reporting(f)) => ensemble.fields[f] < Threshold
  <2>. DEFINE voters == Reporting(f)
              content == Content(f)
              rest == voters \ content
              vote == [c \in calls |-> verdict[c].fields[f]]
              votes == {<<vote[c], c>> : c \in voters}
              high == {v \in votes : v[1] >= Threshold}
              low == {v \in votes : v[1] < Threshold}
  <2>1. Gathered
    BY <1>1 DEF VotesOK
  <2>2. IsFiniteSet(voters) /\ IsFiniteSet(content) /\ IsFiniteSet(rest)
    BY <2>1, CallAssumption, FS_Subset DEF Gathered, Reporting, Content
  <2>3. \A c \in voters : c \in calls /\ vote[c] = verdict[c].fields[f] /\ vote[c] \in Int /\ vote[c] # NaN
    BY <1>1, <2>1 DEF Gathered, VotesOK, Counts, Reporting, Scores
  <2>4. /\ content = {c \in voters : vote[c] >= Threshold}
        /\ rest = {c \in voters : vote[c] < Threshold}
    BY <2>3, ThresholdAssumption DEF Content, Scores
  <2>5. Votes(f) = votes
    BY DEF Votes, Reporting
  <2>. HIDE DEF vote, voters, content, rest
  <2>6. high = {<<vote[c], c>> : c \in content} /\ low = {<<vote[c], c>> : c \in rest}
    BY <2>4
  <2>7. /\ IsFiniteSet(votes) /\ Cardinality(votes) = Cardinality(voters)
        /\ Cardinality(high) = Cardinality(content) /\ Cardinality(low) = Cardinality(rest)
    <3>1. ASSUME NEW some, IsFiniteSet(some)
          PROVE  /\ IsFiniteSet({<<vote[c], c>> : c \in some})
                 /\ Cardinality({<<vote[c], c>> : c \in some}) = Cardinality(some)
      BY <3>1, VotesAreVoters
    <3>. HIDE DEF high, low
    <3>. QED  BY <2>2, <2>6, <3>1
  <2>8. \A v \in votes : v[1] \in Int /\ v[1] # NaN
    BY <2>3
  <2>9. ASSUME Cardinality(content) > 0 \/ Cardinality(rest) > 0
        PROVE  ensemble.fields[f] = Median(votes)
    <3>1. voters # {}
      <4>1. content \subseteq voters /\ rest \subseteq voters
        BY <2>4
      <4>. QED  BY <2>9, <4>1, FS_EmptySet
    <3>2. votes # {}
      BY <3>1
    <3>3. Middles(votes) = {Median(votes)}
      BY <2>8 DEF Middles
    <3>. QED  BY <2>1, <2>5, <3>2, <3>3 DEF Gathered
  <2>. HIDE DEF votes
  <2>10. /\ Most(high, votes) => Median(votes) >= Threshold
         /\ Most(low, votes) => Median(votes) < Threshold
    BY <2>7, <2>8, MedianSide, ThresholdAssumption DEF Scores
  <2>11. /\ Cardinality(voters) \in Nat /\ Cardinality(content) \in Nat /\ Cardinality(rest) \in Nat
    BY <2>2, FS_CardinalityType
  <2>12. /\ Most(content, voters) => Most(high, votes) /\ Cardinality(content) > 0
         /\ Most(rest, voters) => Most(low, votes) /\ Cardinality(rest) > 0
    BY <2>7, <2>11 DEF Most
  <2>. QED  BY <2>9, <2>10, <2>12 DEF voters, content, rest
<1>2. VotesOK => MajorityDecides
  BY <1>1 DEF MajorityDecides
<1>. QED  BY <1>2, VotesAreFinal, PTL

-----------------------------------------------------------------------------
(***************************************************************************)
(* A text on its way through shield, model and repair, for any XLIFF       *)
(* sources of words and tags.  First the functions on sequences it is      *)
(* built from.                                                             *)
(***************************************************************************)
(* FlattenSeq computes what its recursive definition says.                 *)
LEMMA Flattens ==
  ASSUME NEW S, NEW s \in Seq(Seq(S)), s # <<>>
  PROVE  \E f : /\ f = [i \in 1 .. Len(s) |-> IF i = 1 THEN s[i] ELSE f[i - 1] \o s[i]]
                /\ FlattenSeq(s) = f[Len(s)]
<1>. DEFINE Is(f, n) == f = [i \in 1 .. n |-> IF i = 1 THEN s[i] ELSE f[i - 1] \o s[i]]
            can == {n \in 1 .. Len(s) : \E f : Is(f, n)}
<1>0. ASSUME NEW n, NEW f, f = [i \in 1 .. n |-> f[i]],
             \A i \in 1 .. n : f[i] = IF i = 1 THEN s[i] ELSE f[i - 1] \o s[i]
      PROVE  Is(f, n)
  BY <1>0
<1>1. Len(s) \in Nat /\ Len(s) > 0
  OBVIOUS
<1>2. 1 \in can
  <2>1. PICK k : k = 1
    OBVIOUS
  <2>. DEFINE f == [i \in 1 .. k |-> s[i]]
  <2>2. \A i \in 1 .. k : f[i] = IF i = 1 THEN s[i] ELSE f[i - 1] \o s[i]
    BY <2>1
  <2>3. f = [i \in 1 .. k |-> f[i]]
    OBVIOUS
  <2>. HIDE DEF f
  <2>4. Is(f, k)
    BY <1>0, <2>2, <2>3
  <2>5. k \in 1 .. Len(s)
    BY <1>1, <2>1
  <2>6. k \in can
    BY <2>4, <2>5
  <2>. HIDE DEF can
  <2>. QED  BY <2>1, <2>6
<1>3. ASSUME NEW m \in can, m < Len(s)
      PROVE  m + 1 \in can
  <2>1. PICK g : Is(g, m)
    OBVIOUS
  <2>. DEFINE f == [i \in 1 .. m + 1 |-> IF i \in 1 .. m THEN g[i] ELSE g[m] \o s[i]]
  <2>2. ASSUME NEW i \in 1 .. m + 1
        PROVE  f[i] = IF i = 1 THEN s[i] ELSE f[i - 1] \o s[i]
    <3>1. CASE i \in 1 .. m
      <4>1. i # 1 => i - 1 \in 1 .. m
        BY <3>1
      <4>2. g[i] = IF i = 1 THEN s[i] ELSE g[i - 1] \o s[i]
        BY <2>1, <3>1
      <4>. QED  BY <3>1, <4>1, <4>2
    <3>2. CASE i = m + 1
      BY <3>2
    <3>. QED  BY <3>1, <3>2
  <2>3. f = [i \in 1 .. m + 1 |-> f[i]]
    OBVIOUS
  <2>. HIDE DEF f
  <2>4. Is(f, m + 1)
    BY <1>0, <2>2, <2>3
  <2>5. m + 1 \in 1 .. Len(s)
    BY <1>1, <1>3
  <2>. QED  BY <2>4, <2>5
<1>4. Len(s) \in can
  <2>. HIDE DEF can
  <2>1. 1 .. Len(s) \subseteq can
    BY <1>1, <1>2, <1>3, UpTo
  <2>. QED  BY <1>1, <2>1
<1>5. PICK h : Is(h, Len(s))
  BY <1>4
<1>. DEFINE c == CHOOSE f : Is(f, Len(s))
<1>6. Is(c, Len(s))
  BY <1>5
<1>7. FlattenSeq(s) = c[Len(s)]
  BY <1>1 DEF FlattenSeq
<1>. QED  BY <1>6, <1>7

(* A concatenation holds what its parts hold.                              *)
LEMMA ConcatSet ==
  ASSUME NEW S, NEW a \in Seq(S), NEW b \in Seq(S)
  PROVE  a \o b \in Seq(S) /\ ToSet(a \o b) = ToSet(a) \cup ToSet(b)
<1>1. /\ a \o b \in Seq(S) /\ Len(a \o b) = Len(a) + Len(b)
      /\ \A i \in 1 .. Len(a) + Len(b) :
           (a \o b)[i] = IF i <= Len(a) THEN a[i] ELSE b[i - Len(a)]
  BY ConcatProperties
<1>2. Len(a) \in Nat /\ Len(b) \in Nat
  OBVIOUS
<1>3. ASSUME NEW i \in DOMAIN (a \o b)
      PROVE  (a \o b)[i] \in ToSet(a) \cup ToSet(b)
  <2>1. i \in 1 .. Len(a) + Len(b)
    BY <1>1
  <2>2. i <= Len(a) => i \in DOMAIN a
    BY <2>1
  <2>3. ~ (i <= Len(a)) => i - Len(a) \in DOMAIN b
    BY <1>2, <2>1
  <2>. QED  BY <1>1, <2>1, <2>2, <2>3 DEF ToSet
<1>4. ASSUME NEW i \in DOMAIN a
      PROVE  a[i] \in ToSet(a \o b)
  <2>1. i \in 1 .. Len(a) + Len(b) /\ i <= Len(a)
    BY <1>2
  <2>. QED  BY <1>1, <2>1 DEF ToSet
<1>5. ASSUME NEW i \in DOMAIN b
      PROVE  b[i] \in ToSet(a \o b)
  <2>1. /\ i + Len(a) \in 1 .. Len(a) + Len(b) /\ ~ (i + Len(a) <= Len(a))
        /\ (i + Len(a)) - Len(a) = i
    BY <1>2
  <2>2. (a \o b)[i + Len(a)] = b[i]
    BY <1>1, <2>1
  <2>3. DOMAIN (a \o b) = 1 .. Len(a) + Len(b)
    BY <1>1
  <2>. QED  BY <2>1, <2>2, <2>3 DEF ToSet
<1>. QED  BY <1>1, <1>3, <1>4, <1>5 DEF ToSet

(* A flattened sequence holds what the sequences in it hold.               *)
LEMMA FlattenFacts ==
  ASSUME NEW S, NEW s \in Seq(Seq(S))
  PROVE  /\ FlattenSeq(s) \in Seq(S)
         /\ ToSet(FlattenSeq(s)) = UNION {ToSet(s[i]) : i \in DOMAIN s}
<1>1. CASE s = <<>>
  <2>1. FlattenSeq(s) = <<>>
    BY <1>1 DEF FlattenSeq
  <2>2. <<>> \in Seq(S) /\ DOMAIN s = {}
    BY <1>1
  <2>3. ToSet(<<>>) = {}
    BY DEF ToSet
  <2>4. UNION {ToSet(s[i]) : i \in DOMAIN s} = {}
    BY <2>2
  <2>. QED  BY <2>1, <2>2, <2>3, <2>4
<1>2. CASE s # <<>>
  <2>1. PICK f : /\ f = [i \in 1 .. Len(s) |-> IF i = 1 THEN s[i] ELSE f[i - 1] \o s[i]]
                 /\ FlattenSeq(s) = f[Len(s)]
    BY <1>2, Flattens
  <2>2. Len(s) \in Nat /\ Len(s) > 0 /\ DOMAIN s = 1 .. Len(s)
    BY <1>2
  <2>3. \A i \in 1 .. Len(s) : f[i] = IF i = 1 THEN s[i] ELSE f[i - 1] \o s[i]
    BY <2>1
  <2>. DEFINE Upto(n) == UNION {ToSet(s[i]) : i \in 1 .. n}
              good == {n \in 1 .. Len(s) : f[n] \in Seq(S) /\ ToSet(f[n]) = Upto(n)}
  <2>4. 1 \in good
    <3>1. 1 \in 1 .. Len(s) /\ f[1] = s[1] /\ s[1] \in Seq(S)
      BY <2>2, <2>3
    <3>2. Upto(1) = ToSet(s[1])
      OBVIOUS
    <3>. HIDE DEF Upto
    <3>. QED  BY <3>1, <3>2
  <2>5. ASSUME NEW n \in good, n < Len(s)
        PROVE  n + 1 \in good
    <3>1. /\ n + 1 \in 1 .. Len(s) /\ n \in 1 .. Len(s) /\ s[n + 1] \in Seq(S)
          /\ n + 1 # 1 /\ (n + 1) - 1 = n
          /\ f[n] \in Seq(S) /\ ToSet(f[n]) = Upto(n)
      BY <2>2, <2>5
    <3>2. f[n + 1] = f[n] \o s[n + 1]
      BY <2>3, <3>1
    <3>3. /\ f[n + 1] \in Seq(S)
          /\ ToSet(f[n + 1]) = ToSet(f[n]) \cup ToSet(s[n + 1])
      BY <3>1, <3>2, ConcatSet
    <3>4. 1 .. n + 1 = (1 .. n) \cup {n + 1}
      BY <3>1
    <3>5. Upto(n + 1) = Upto(n) \cup ToSet(s[n + 1])
      <4>1. ASSUME NEW x \in Upto(n + 1)
            PROVE  x \in Upto(n) \cup ToSet(s[n + 1])
        <5>1. PICK i \in 1 .. n + 1 : x \in ToSet(s[i])
          OBVIOUS
        <5>. QED  BY <3>4, <5>1
      <4>2. Upto(n) \subseteq Upto(n + 1)
        BY <3>4
      <4>3. n + 1 \in 1 .. n + 1
        BY <3>1
      <4>4. ToSet(s[n + 1]) \subseteq Upto(n + 1)
        BY <4>3
      <4>. QED  BY <4>1, <4>2, <4>4
    <3>. HIDE DEF Upto
    <3>. QED  BY <3>1, <3>3, <3>5
  <2>6. Len(s) \in good
    <3>. HIDE DEF good
    <3>1. 1 .. Len(s) \subseteq good
      BY <2>2, <2>4, <2>5, UpTo
    <3>. QED  BY <2>2, <3>1
  <2>. QED  BY <2>1, <2>2, <2>6
<1>. QED  BY <1>1, <1>2

(* Pieces put in for one another one by one. *)
LEMMA FlattenSingles ==
  ASSUME NEW S, NEW g \in Seq(S)
  PROVE  FlattenSeq([i \in DOMAIN g |-> <<g[i]>>]) = g
<1>. DEFINE s == [i \in DOMAIN g |-> <<g[i]>>]
<1>1. s \in Seq(Seq(S)) /\ Len(s) = Len(g) /\ Len(g) \in Nat
  <2>1. Len(g) \in Nat /\ DOMAIN g = 1 .. Len(g)
    OBVIOUS
  <2>2. \A i \in 1 .. Len(g) : <<g[i]>> \in Seq(S)
    OBVIOUS
  <2>3. s \in [1 .. Len(g) -> Seq(S)]
    BY <2>1, <2>2
  <2>. QED  BY <2>1, <2>3, SeqDef
<1>. HIDE DEF s
<1>2. CASE g = <<>>
  <2>1. s = <<>>
    BY <1>1, <1>2
  <2>. QED  BY <1>2, <2>1 DEF s, FlattenSeq
<1>3. CASE g # <<>>
  <2>0. s # <<>>
    BY <1>1, <1>3
  <2>1. PICK f : /\ f = [i \in 1 .. Len(s) |-> IF i = 1 THEN s[i] ELSE f[i - 1] \o s[i]]
                 /\ FlattenSeq(s) = f[Len(s)]
    BY <1>1, <2>0, Flattens
  <2>2. \A i \in 1 .. Len(g) : f[i] = IF i = 1 THEN <<g[i]>> ELSE f[i - 1] \o <<g[i]>>
    <3>1. \A i \in 1 .. Len(g) : s[i] = <<g[i]>>
      BY DEF s
    <3>2. \A i \in 1 .. Len(g) : f[i] = IF i = 1 THEN s[i] ELSE f[i - 1] \o s[i]
      BY <1>1, <2>1
    <3>. QED  BY <3>1, <3>2
  <2>. DEFINE good == {n \in 1 .. Len(g) : f[n] = SubSeq(g, 1, n)}
  <2>3. Len(g) > 0
    BY <1>3
  <2>4. 1 \in good
    <3>1. /\ SubSeq(g, 1, 1) \in Seq(S) /\ Len(SubSeq(g, 1, 1)) = 1
          /\ SubSeq(g, 1, 1)[1] = g[1]
      BY <1>1, <2>3
    <3>2. SubSeq(g, 1, 1) = <<g[1]>>
      <4>1. <<g[1]>> \in Seq(S) /\ Len(<<g[1]>>) = 1 /\ <<g[1]>>[1] = g[1]
        BY <1>1, <2>3
      <4>2. \A i \in 1 .. 1 : SubSeq(g, 1, 1)[i] = <<g[1]>>[i]
        BY <3>1
      <4>. QED  BY <3>1, <4>1, <4>2, SeqEqual
    <3>3. 1 \in 1 .. Len(g)
      BY <1>1, <2>3
    <3>4. f[1] = <<g[1]>>
      BY <2>2, <3>3
    <3>. QED  BY <3>2, <3>3, <3>4
  <2>5. ASSUME NEW n \in good, n < Len(g)
        PROVE  n + 1 \in good
    <3>1. /\ n + 1 \in 1 .. Len(g) /\ n \in 1 .. Len(g) /\ (n + 1) - 1 = n /\ n + 1 # 1
          /\ f[n] = SubSeq(g, 1, n)
      BY <1>1, <2>5
    <3>2. SubSeq(g, 1, n + 1) = SubSeq(g, 1, n) \o <<g[n + 1]>>
      BY <1>1, <3>1, SubSeqRecursiveSecond
    <3>3. f[n + 1] = f[n] \o <<g[n + 1]>>
      BY <2>2, <3>1
    <3>. QED  BY <3>1, <3>2, <3>3
  <2>6. Len(g) \in good
    <3>. HIDE DEF good
    <3>1. 1 .. Len(g) \subseteq good
      BY <1>1, <2>4, <2>5, UpTo
    <3>2. Len(g) \in 1 .. Len(g)
      BY <1>1, <2>3
    <3>. QED  BY <3>1, <3>2, Zenon
  <2>7. SubSeq(g, 1, Len(g)) = g
    BY SubSeqFull
  <2>. QED  BY <1>1, <2>1, <2>6, <2>7 DEF s
<1>. QED  BY <1>2, <1>3

(* Chosen keeps what stands at the places, and nothing else.               *)
LEMMA ChosenFacts ==
  ASSUME NEW S, NEW s \in Seq(S), NEW places
  PROVE  /\ Chosen(s, places) \in Seq(S)
         /\ ToSet(Chosen(s, places)) = {s[i] : i \in DOMAIN s \cap places}
<1>. DEFINE parts == [i \in DOMAIN s |-> IF i \in places THEN <<s[i]>> ELSE <<>>]
<1>1. parts \in Seq(Seq(S)) /\ DOMAIN parts = DOMAIN s
  <2>1. Len(s) \in Nat /\ DOMAIN s = 1 .. Len(s)
    OBVIOUS
  <2>2. \A i \in 1 .. Len(s) : <<s[i]>> \in Seq(S) /\ <<>> \in Seq(S)
    OBVIOUS
  <2>3. parts \in [1 .. Len(s) -> Seq(S)]
    BY <2>1, <2>2
  <2>. QED  BY <2>1, <2>3, SeqDef
<1>2. Chosen(s, places) = FlattenSeq(parts)
  BY DEF Chosen
<1>3. \A i \in DOMAIN s : ToSet(parts[i]) = IF i \in places THEN {s[i]} ELSE {}
  BY DEF ToSet
<1>. HIDE DEF parts
<1>. QED  BY <1>1, <1>2, <1>3, FlattenFacts

-----------------------------------------------------------------------------
LEMMA GreatestPlace ==
  ASSUME NEW n \in Nat, NEW I \in SUBSET (1 .. n), I # {}
  PROVE  Max(I) \in I /\ \A y \in I : Max(I) >= y
<1>. DEFINE gaps == {n - x : x \in I}
<1>1. gaps \subseteq Nat /\ gaps # {}
  <2>1. \A x \in I : n - x \in Nat
    OBVIOUS
  <2>. QED  BY <2>1
<1>2. PICK g \in gaps : \A y \in gaps : g <= y
  BY <1>1, LeastNatural
<1>3. PICK x \in I : g = n - x
  BY <1>2
<1>4. ASSUME NEW y \in I
      PROVE  x >= y
  <2>1. n - x <= n - y
    BY <1>2, <1>3
  <2>2. x \in Nat /\ y \in Nat
    OBVIOUS
  <2>. QED  BY <2>1, <2>2
<1>. QED  BY <1>4 DEF Max

(* LastOf is a place of the text, or 0.                                    *)
LEMMA LastIsPlace ==
  ASSUME NEW S, NEW s \in Seq(S), NEW form
  PROVE  LastOf(s, form) \in 0 .. Len(s)
<1>. DEFINE I == {i \in 1 .. Len(s) : s[i].is = form}
<1>1. LastOf(s, form) = IF I # {} THEN Max(I) ELSE 0
  BY DEF LastOf, SelectLastInSeq
<1>2. Len(s) \in Nat
  OBVIOUS
<1>3. I # {} => Max(I) \in 1 .. Len(s)
  BY <1>2, GreatestPlace
<1>. QED  BY <1>1, <1>2, <1>3

(* What stands behind a place of a text.                                   *)
LEMMA RestFacts ==
  ASSUME NEW S, NEW s \in Seq(S), NEW i \in 0 .. Len(s)
  PROVE  LET b == SubSeq(s, i + 1, Len(s))
         IN /\ b \in Seq(S) /\ Len(b) = Len(s) - i
            /\ \A j \in 1 .. Len(s) - i : b[j] = s[i + j]
<1>. DEFINE b == SubSeq(s, i + 1, Len(s))
<1>1. Len(s) \in Nat /\ i \in Nat /\ i <= Len(s) /\ DOMAIN s = 1 .. Len(s)
  OBVIOUS
<1>2. \A j \in i + 1 .. Len(s) : s[j] \in S
  BY <1>1
<1>3. /\ b \in Seq(S) /\ Len(b) = IF i + 1 <= Len(s) THEN Len(s) - (i + 1) + 1 ELSE 0
      /\ \A j \in 1 .. Len(s) - (i + 1) + 1 : b[j] = s[(i + 1) + j - 1]
  BY <1>1, <1>2, SubSeqProperties
<1>4. \A j \in 1 .. Len(s) - i : (i + 1) + j - 1 = i + j /\ j \in 1 .. Len(s) - (i + 1) + 1
  BY <1>1
<1>5. Len(b) = Len(s) - i
  <2>1. \A n, j, m \in Nat : j <= n /\ m = (IF j + 1 <= n THEN n - (j + 1) + 1 ELSE 0) => m = n - j
    OBVIOUS
  <2>2. Len(b) \in Nat /\ Len(b) = IF i + 1 <= Len(s) THEN Len(s) - (i + 1) + 1 ELSE 0
    BY <1>3
  <2>. QED  BY <1>1, <2>1, <2>2, Zenon
<1>6. ASSUME NEW j \in 1 .. Len(s) - i
      PROVE  b[j] = s[i + j]
  <2>1. b[j] = s[(i + 1) + j - 1] /\ (i + 1) + j - 1 = i + j
    BY <1>3, <1>4
  <2>. QED  BY <2>1
<1>. HIDE DEF b
<1>. QED  BY <1>3, <1>5, <1>6

(* What is put in behind a piece is added to what was there.               *)
LEMMA PutFacts ==
  ASSUME NEW S, NEW s \in Seq(S), NEW i \in 0 .. Len(s), NEW new \in Seq(S)
  PROVE  /\ PutBehind(s, i, new) \in Seq(S)
         /\ ToSet(PutBehind(s, i, new)) = ToSet(s) \cup ToSet(new)
<1>. DEFINE a == SubSeq(s, 1, i)
            b == SubSeq(s, i + 1, Len(s))
<1>1. Len(s) \in Nat /\ i \in Nat /\ i <= Len(s) /\ DOMAIN s = 1 .. Len(s)
  OBVIOUS
<1>2. /\ a \in Seq(S) /\ Len(a) = i
      /\ \A j \in 1 .. i : a[j] = s[j]
  BY <1>1
<1>3. /\ b \in Seq(S) /\ Len(b) = Len(s) - i
      /\ \A j \in 1 .. Len(s) - i : b[j] = s[i + j]
  BY RestFacts
<1>. HIDE DEF a, b
<1>4. ToSet(a) \cup ToSet(b) = ToSet(s)
  <2>1. DOMAIN a = 1 .. i /\ DOMAIN b = 1 .. Len(s) - i
    BY <1>2, <1>3
  <2>2. ToSet(a) \subseteq ToSet(s)
    BY <1>1, <1>2, <2>1 DEF ToSet
  <2>3. ToSet(b) \subseteq ToSet(s)
    <3>1. \A j \in 1 .. Len(s) - i : i + j \in DOMAIN s
      BY <1>1
    <3>. QED  BY <1>3, <2>1, <3>1 DEF ToSet
  <2>4. ASSUME NEW j \in DOMAIN s
        PROVE  s[j] \in ToSet(a) \cup ToSet(b)
    <3>1. CASE j <= i
      BY <1>1, <1>2, <2>1, <3>1 DEF ToSet
    <3>2. CASE ~ (j <= i)
      <4>1. j - i \in 1 .. Len(s) - i /\ i + (j - i) = j
        BY <1>1, <3>2
      <4>2. b[j - i] = s[j]
        BY <1>3, <4>1
      <4>. QED  BY <2>1, <4>1, <4>2 DEF ToSet
    <3>. QED  BY <3>1, <3>2
  <2>. QED  BY <2>2, <2>3, <2>4 DEF ToSet
<1>5. PutBehind(s, i, new) = (a \o new) \o b
  BY <1>2, <1>3 DEF PutBehind, a, b
<1>6. a \o new \in Seq(S) /\ ToSet(a \o new) = ToSet(a) \cup ToSet(new)
  BY <1>2, ConcatSet
<1>. DEFINE c == a \o new
<1>. HIDE DEF c
<1>7. c \o b \in Seq(S) /\ ToSet(c \o b) = ToSet(c) \cup ToSet(b)
  <2>1. c \in Seq(S)
    BY <1>6 DEF c
  <2>. QED  BY <1>3, <2>1, ConcatSet
<1>. QED  BY <1>4, <1>5, <1>6, <1>7 DEF c

(* XRestored cuts off what is escaped at the end, and no more. *)
LEMMA TrailingIs ==
  ASSUME NEW S, NEW s \in Seq(S)
  PROVE  \E m \in 0 .. Len(s) :
           /\ Len(s) - Cardinality(TrailingEscapes(s)) = m
           /\ \A i \in DOMAIN s : s[i].is # "escaped" => i <= m
<1>. DEFINE I == {i \in 1 .. Len(s) : s[i].is # "escaped"}
            m == IF I = {} THEN 0 ELSE Max(I)
<1>1. Len(s) \in Nat /\ DOMAIN s = 1 .. Len(s)
  OBVIOUS
<1>2. I # {} => Max(I) \in I /\ \A y \in I : Max(I) >= y
  BY <1>1, GreatestPlace
<1>3. m \in 0 .. Len(s) /\ (IF I # {} THEN m \in I ELSE m = 0) /\ \A i \in I : i <= m
  BY <1>1, <1>2
<1>. HIDE DEF m
<1>4. TrailingEscapes(s) = m + 1 .. Len(s)
  <2>1. ASSUME NEW i \in DOMAIN s, \A j \in i .. Len(s) : s[j].is = "escaped"
        PROVE  i \in m + 1 .. Len(s)
    <3>1. ~ (m \in I /\ m \in i .. Len(s))
      BY <2>1
    <3>2. m < i
      BY <1>1, <1>3, <3>1
    <3>. QED  BY <1>1, <1>3, <3>2
  <2>2. ASSUME NEW i \in m + 1 .. Len(s)
        PROVE  i \in DOMAIN s /\ \A j \in i .. Len(s) : s[j].is = "escaped"
    <3>1. i \in DOMAIN s
      BY <1>1, <1>3
    <3>2. ASSUME NEW j \in i .. Len(s)
          PROVE  s[j].is = "escaped"
      <4>1. j \in 1 .. Len(s) /\ ~ (j <= m)
        BY <1>1, <1>3
      <4>. QED  BY <1>3, <4>1
    <3>. QED  BY <3>1, <3>2
  <2>. QED  BY <2>1, <2>2 DEF TrailingEscapes
<1>5. Cardinality(m + 1 .. Len(s)) = Len(s) - m
  <2>1. m + 1 \in Int /\ Len(s) \in Int
    BY <1>1, <1>3
  <2>2. Cardinality(m + 1 .. Len(s)) = IF m + 1 > Len(s) THEN 0 ELSE Len(s) - (m + 1) + 1
    BY <2>1, FS_Interval
  <2>. QED  BY <1>1, <1>3, <2>2
<1>6. Len(s) - Cardinality(TrailingEscapes(s)) = m
  BY <1>1, <1>3, <1>4, <1>5
<1>. QED  BY <1>1, <1>3, <1>6

(* Halves of a pair in their order are the halves. *)
LEMMA SortedFacts ==
  ASSUME NEW halves, IsFiniteSet(halves), halves \subseteq [kind : {"bx", "ex"}, id : Nat]
  PROVE  Sorted(halves) \in Seq(halves) /\ ToSet(Sorted(halves)) = halves
<1>. DEFINE n == Cardinality(halves)
            Below(k) == {j \in halves : HalfBefore(j, k)}
            rank == [k \in halves |-> Cardinality(Below(k))]
<1>1. n \in Nat /\ \A k \in halves : IsFiniteSet(Below(k)) /\ Cardinality(Below(k)) \in Nat
  BY FS_CardinalityType, FS_Subset
<1>2. \A k \in halves : ~ HalfBefore(k, k)
  BY DEF HalfBefore
<1>3. \A j, k \in halves : j = k \/ HalfBefore(j, k) \/ HalfBefore(k, j)
  BY DEF HalfBefore
<1>4. \A i, j, k \in halves : HalfBefore(i, j) /\ HalfBefore(j, k) => HalfBefore(i, k)
  BY DEF HalfBefore
<1>5. ASSUME NEW j \in halves, NEW k \in halves, HalfBefore(j, k)
      PROVE  rank[j] < rank[k]
  <2>1. Below(j) \subseteq Below(k) /\ j \in Below(k) /\ j \notin Below(j)
    BY <1>2, <1>4, <1>5
  <2>2. /\ Cardinality(Below(j)) <= Cardinality(Below(k))
        /\ Cardinality(Below(k)) = Cardinality(Below(j)) => Below(k) = Below(j)
    BY <1>1, <2>1, FS_Subset
  <2>3. Cardinality(Below(j)) < Cardinality(Below(k))
    BY <1>1, <2>1, <2>2
  <2>. QED  BY <2>3
<1>6. \A k \in halves : rank[k] \in 0 .. n - 1
  <2>1. ASSUME NEW k \in halves
        PROVE  Cardinality(Below(k)) < n
    <3>1. /\ Cardinality(Below(k)) <= n
          /\ n = Cardinality(Below(k)) => halves = Below(k)
      BY FS_Subset
    <3>2. k \notin Below(k)
      BY <1>2
    <3>. QED  BY <1>1, <3>1, <3>2
  <2>2. \A k \in halves : rank[k] = Cardinality(Below(k))
    OBVIOUS
  <2>. HIDE DEF rank, n, Below
  <2>. QED  BY <1>1, <2>1, <2>2
<1>14. \A j, k \in halves : rank[j] = rank[k] => j = k
  <2>1. \A k \in halves : rank[k] \in Int
    BY <1>6
  <2>. HIDE DEF rank
  <2>. QED  BY <1>3, <1>5, <2>1
<1>7. rank \in Surjection(halves, 0 .. n - 1)
  <2>2. rank \in Injection(halves, 0 .. n - 1)
    <3>1. rank \in [halves -> 0 .. n - 1]
      BY <1>6
    <3>. QED  BY <1>14, <3>1 DEF Injection, IsInjective
  <2>3. IsFiniteSet(0 .. n - 1) /\ Cardinality(0 .. n - 1) = n
    BY <1>1, FS_Interval
  <2>. HIDE DEF rank, n
  <2>. QED  BY <2>2, <2>3, FS_Injection DEF n
<1>8. ASSUME NEW i \in 1 .. n
      PROVE  \E k \in halves : Cardinality(Below(k)) = i - 1
  <2>1. i - 1 \in 0 .. n - 1
    BY <1>1
  <2>2. \E k \in halves : rank[k] = i - 1
    BY <1>7, <2>1 DEF Surjection
  <2>. QED  BY <2>2
<1>9. \A i \in 1 .. n : Sorted(halves)[i] \in halves /\ Cardinality(Below(Sorted(halves)[i])) = i - 1
  BY <1>8 DEF Sorted
<1>10. Sorted(halves) \in [1 .. n -> halves]
  BY <1>9 DEF Sorted
<1>11. ASSUME NEW k \in halves
       PROVE  k \in ToSet(Sorted(halves))
  <2>. DEFINE i == rank[k] + 1
  <2>1. i \in 1 .. n /\ i - 1 = rank[k]
    BY <1>1, <1>6
  <2>2. Sorted(halves)[i] \in halves /\ rank[Sorted(halves)[i]] = rank[k]
    BY <1>9, <2>1
  <2>3. \A a \in halves : rank[a] = rank[k] => a = k
    BY <1>14
  <2>4. Sorted(halves)[i] = k
    BY <2>2, <2>3
  <2>. QED  BY <1>10, <2>1, <2>4 DEF ToSet
<1>12. ToSet(Sorted(halves)) \subseteq halves
  BY <1>10 DEF ToSet
<1>13. Sorted(halves) \in Seq(halves)
  BY <1>1, <1>10, SeqDef
<1>. QED  BY <1>11, <1>12, <1>13

-----------------------------------------------------------------------------
(* The functions of the XLIFF channel, on texts whose tags are all known.  *)
Tags == [kind : ToSet(XKinds), id : Nat]

(* What a piece can be: a word, or a tag that is known in one of its forms. *)
LEMMA PieceFacts ==
  ASSUME NEW N \in SUBSET Tags
  PROVE  /\ \A k \in N : /\ Raw(k) \in XPieces(N) /\ Mark(k) \in XPieces(N)
                         /\ Escaped(k) \in XPieces(N) /\ Bare(k) \in XPieces(N)
                         /\ Alt(k) \in XPieces(N)
         /\ \A p \in XPieces(N) :
              /\ p.is \in {"raw", "mark", "alt", "bare", "escaped", "word"}
              /\ p.wide = FALSE
              /\ p.is # "word" => p.name \in N /\ p = Piece(p.is, p.name)
              /\ p.is = "word" => p.name \notin Tags
<1>1. \A k : k \in Tags => k.kind \in {"x", "bx", "ex"}
  BY DEF Tags, XKinds, ToSet
<1>2. ASSUME NEW w \in Vocabulary \cup {"instruction"}
      PROVE  /\ Word(w).is = "word" /\ Word(w).wide = FALSE
             /\ Word(w).name \notin Tags
  BY <1>1, <1>2 DEF Word, Piece, Name, Vocabulary
<1>3. ASSUME NEW p \in [is : {"raw", "mark", "alt", "bare", "escaped"}, name : N, wide : {FALSE}]
      PROVE  p.name \in N /\ p = Piece(p.is, p.name) /\ p.wide = FALSE /\ p.is # "word"
  BY <1>3 DEF Piece
<1>4. \A k \in N : /\ Raw(k) \in XPieces(N) /\ Mark(k) \in XPieces(N)
                   /\ Escaped(k) \in XPieces(N) /\ Bare(k) \in XPieces(N)
                   /\ Alt(k) \in XPieces(N)
  BY DEF XPieces, Raw, Mark, Escaped, Bare, Alt, Piece
<1>. QED  BY <1>2, <1>3, <1>4 DEF XPieces

(* What restore_tags makes of a piece: it leaves no placeholder, loses     *)
(* only escaped tags, and turns an answer without those into its tags      *)
(* piece by piece.                                                         *)
Back(p) == IF p.is \in {"mark", "alt"} THEN Raw(p.name) ELSE p

LEMMA RestoredFacts ==
  ASSUME NEW keys, ToSet(keys) \subseteq Tags, Len(keys) \in Nat, DOMAIN keys = 1 .. Len(keys),
         NEW s \in Seq(XPieces(ToSet(keys)))
  PROVE  LET now == XRestored(s, keys)
         IN /\ now \in Seq(XPieces(ToSet(keys)))
            /\ \A i \in DOMAIN now : now[i].is \notin {"mark", "alt"}
            /\ \A i \in DOMAIN s : s[i].is # "escaped" => Held(now, Back(s[i]))
            /\ (\A i \in DOMAIN s : s[i].is # "escaped") => now = [i \in DOMAIN s |-> Back(s[i])]
<1>. DEFINE N == ToSet(keys)
            now == XRestored(s, keys)
            back == [i \in DOMAIN s |-> Back(s[i])]
<1>1. \A k \in N : Contains(keys, k)
  BY DEF ToSet, Contains
<1>2. Len(s) \in Nat /\ DOMAIN s = 1 .. Len(s) /\ \A i \in DOMAIN s : s[i] \in XPieces(N)
  OBVIOUS
<1>3. \A i \in DOMAIN s : s[i].is \in {"mark", "alt"} => s[i].name \in N
  BY <1>2, PieceFacts
<1>4. back = [i \in DOMAIN s |->
                IF s[i].is \in {"mark", "alt"} /\ Contains(keys, s[i].name)
                THEN Raw(s[i].name) ELSE s[i]]
  BY <1>1, <1>3 DEF Back
<1>5. \A i \in DOMAIN s : /\ back[i] \in XPieces(N) /\ back[i].is \notin {"mark", "alt"}
                          /\ back[i].is = "escaped" <=> s[i].is = "escaped"
  BY <1>2, <1>3, PieceFacts DEF Back, Raw, Piece
<1>6. back \in Seq(XPieces(N)) /\ Len(back) = Len(s) /\ DOMAIN back = DOMAIN s
  <2>1. back \in [1 .. Len(s) -> XPieces(N)]
    BY <1>2, <1>5
  <2>. QED  BY <1>2, <2>1, SeqDef
<1>7. \A i \in DOMAIN s : back[i] = Back(s[i])
  OBVIOUS
<1>. HIDE DEF back
<1>8. PICK m \in 0 .. Len(back) :
             /\ Len(back) - Cardinality(TrailingEscapes(back)) = m
             /\ \A i \in DOMAIN back : back[i].is # "escaped" => i <= m
  BY <1>6, TrailingIs
<1>9. now = SubSeq(back, 1, m)
  BY <1>4, <1>8 DEF XRestored
<1>10. /\ now \in Seq(XPieces(N)) /\ Len(now) = m /\ DOMAIN now = 1 .. m
       /\ \A i \in 1 .. m : now[i] = back[i] /\ i \in DOMAIN s
  BY <1>2, <1>6, <1>8, <1>9
<1>. HIDE DEF now
<1>11. \A i \in DOMAIN now : now[i].is \notin {"mark", "alt"}
  BY <1>5, <1>10
<1>12. ASSUME NEW i \in DOMAIN s, s[i].is # "escaped"
       PROVE  Held(now, Back(s[i]))
  <2>1. i \in 1 .. m
    BY <1>2, <1>5, <1>6, <1>8, <1>12
  <2>2. now[i] = Back(s[i])
    BY <1>7, <1>10, <2>1
  <2>. QED  BY <1>10, <2>1, <2>2 DEF Held, Contains
<1>13. ASSUME \A i \in DOMAIN s : s[i].is # "escaped"
       PROVE  now = back
  <2>1. m = Len(s)
    <3>1. m \in Nat /\ m <= Len(s)
      BY <1>2, <1>6, <1>8
    <3>2. ASSUME m < Len(s)
          PROVE  FALSE
      <4>1. Len(s) \in DOMAIN s
        BY <1>2, <3>1, <3>2
      <4>2. back[Len(s)].is # "escaped"
        BY <1>5, <1>13, <4>1
      <4>3. Len(s) <= m
        BY <1>6, <1>8, <4>1, <4>2
      <4>. QED  BY <1>2, <3>1, <3>2, <4>3
    <3>3. Len(s) \in Nat /\ ~ (m < Len(s))
      BY <1>2, <3>2
    <3>4. \A a, b \in Nat : a <= b /\ ~ (a < b) => a = b
      OBVIOUS
    <3>. QED  BY <3>1, <3>3, <3>4, Zenon
  <2>. QED  BY <1>6, <1>9, <2>1, SubSeqFull
<1>. QED  BY <1>10, <1>11, <1>12, <1>13 DEF now, Back, back

(* Level 1 of the repair turns tags into placeholders piece by piece.      *)
LEMMA CleanedFacts ==
  ASSUME NEW keys, ToSet(keys) \subseteq Tags, Len(keys) \in Nat, DOMAIN keys = 1 .. Len(keys),
         NEW s \in Seq(XPieces(ToSet(keys)))
  PROVE  /\ XCleaned(s, keys) \in Seq(XPieces(ToSet(keys)))
         /\ (\A i \in DOMAIN s : s[i] # Word("instruction")) =>
              XCleaned(s, keys) =
                [i \in DOMAIN s |-> IF s[i].is = "raw" THEN Mark(s[i].name) ELSE s[i]]
<1>. DEFINE N == ToSet(keys)
            marked == [i \in DOMAIN s |-> IF s[i].is = "raw" THEN Mark(s[i].name) ELSE s[i]]
<1>1. \A k \in N : Contains(keys, k)
  BY DEF ToSet, Contains
<1>2. Len(s) \in Nat /\ DOMAIN s = 1 .. Len(s) /\ \A i \in DOMAIN s : s[i] \in XPieces(N)
  OBVIOUS
<1>3. \A i \in DOMAIN s : s[i].is = "raw" => s[i].name \in N
  BY <1>2, PieceFacts
<1>4. marked = [i \in DOMAIN s |->
                  IF s[i].is = "raw" /\ Contains(keys, s[i].name) THEN Mark(s[i].name) ELSE s[i]]
  BY <1>1, <1>3
<1>5. XCleaned(s, keys) = WithoutInstruction(marked)
  BY <1>4 DEF XCleaned
<1>6. marked \in Seq(XPieces(N)) /\ DOMAIN marked = DOMAIN s
  <2>1. \A i \in DOMAIN s : marked[i] \in XPieces(N)
    BY <1>2, <1>3, PieceFacts
  <2>2. marked \in [1 .. Len(s) -> XPieces(N)]
    BY <1>2, <2>1
  <2>. QED  BY <1>2, <2>2, SeqDef
<1>7. ASSUME \A i \in DOMAIN s : s[i] # Word("instruction")
      PROVE  \A i \in DOMAIN s : marked[i] # Word("instruction")
  BY <1>7 DEF Mark, Word, Piece
<1>. HIDE DEF marked
<1>8. WithoutInstruction(marked) \in Seq(XPieces(N))
  BY <1>6, HeadTailProperties DEF WithoutInstruction
<1>9. ASSUME \A i \in DOMAIN s : s[i] # Word("instruction"), marked # <<>>
      PROVE  Head(marked) # Word("instruction")
  <2>1. 1 \in DOMAIN marked /\ Head(marked) = marked[1]
    BY <1>6, <1>9
  <2>. QED  BY <1>6, <1>7, <1>9, <2>1
<1>10. (\A i \in DOMAIN s : s[i] # Word("instruction")) => WithoutInstruction(marked) = marked
  BY <1>9 DEF WithoutInstruction
<1>. QED  BY <1>5, <1>8, <1>10 DEF marked

(* A reversed sequence holds the same.                                     *)
LEMMA ReverseFacts ==
  ASSUME NEW S, NEW s \in Seq(S)
  PROVE  Reverse(s) \in Seq(S) /\ ToSet(Reverse(s)) = ToSet(s)
<1>. DEFINE r == Reverse(s)
<1>1. Len(s) \in Nat /\ DOMAIN s = 1 .. Len(s)
  OBVIOUS
<1>2. \A i \in 1 .. Len(s) : (Len(s) - i) + 1 \in 1 .. Len(s)
  BY <1>1
<1>3. r = [i \in 1 .. Len(s) |-> s[(Len(s) - i) + 1]]
  BY DEF Reverse
<1>. HIDE DEF r
<1>4. r \in [1 .. Len(s) -> S]
  BY <1>1, <1>2, <1>3
<1>5. r \in Seq(S) /\ DOMAIN r = 1 .. Len(s)
  BY <1>1, <1>4, SeqDef
<1>6. ToSet(r) \subseteq ToSet(s)
  BY <1>1, <1>2, <1>3 DEF ToSet
<1>7. ASSUME NEW i \in DOMAIN s
      PROVE  s[i] \in ToSet(r)
  <2>1. (Len(s) - i) + 1 \in 1 .. Len(s) /\ (Len(s) - ((Len(s) - i) + 1)) + 1 = i
    BY <1>1
  <2>2. r[(Len(s) - i) + 1] = s[i]
    BY <1>3, <2>1
  <2>. QED  BY <1>5, <2>1, <2>2 DEF ToSet
<1>. QED  BY <1>5, <1>6, <1>7 DEF r, ToSet

(* The shields number the elements of every kind they look for.            *)
LEMMA OfKindFacts ==
  ASSUME NEW S, NEW src \in Seq(S), NEW T, NEW kind,
         \A i \in DOMAIN src : src[i].is = "raw" => src[i].name \in T
  PROVE  /\ OfKind(src, kind) \in Seq(T)
         /\ ToSet(OfKind(src, kind)) =
              {src[i].name : i \in {j \in DOMAIN src : src[j].is = "raw" /\ src[j].name.kind = kind}}
<1>. DEFINE places == {i \in DOMAIN src : src[i].is = "raw" /\ src[i].name.kind = kind}
            raws == Chosen(src, places)
            names == [i \in DOMAIN raws |-> raws[i].name]
<1>1. raws \in Seq(S) /\ ToSet(raws) = {src[i] : i \in DOMAIN src \cap places}
  BY ChosenFacts
<1>2. OfKind(src, kind) = Reverse(names)
  BY DEF OfKind
<1>. HIDE DEF raws
<1>3. Len(raws) \in Nat /\ DOMAIN raws = 1 .. Len(raws)
  BY <1>1
<1>4. \A i \in DOMAIN raws : raws[i] \in ToSet(raws)
  BY DEF ToSet
<1>5. \A i \in DOMAIN raws : raws[i].name \in T
  <2>1. \A p \in ToSet(raws) : p.name \in T
    BY <1>1
  <2>. QED  BY <1>4, <2>1
<1>6. names \in Seq(T)
  <2>1. names \in [1 .. Len(raws) -> T]
    BY <1>3, <1>5
  <2>. QED  BY <1>3, <2>1, SeqDef
<1>7. ToSet(names) = {p.name : p \in ToSet(raws)}
  BY DEF ToSet
<1>8. {p.name : p \in ToSet(raws)} = {src[i].name : i \in places}
  BY <1>1
<1>. HIDE DEF names
<1>. QED  BY <1>2, <1>6, <1>7, <1>8, ReverseFacts

LEMMA OrderFacts ==
  ASSUME NEW S, NEW src \in Seq(S), NEW T, NEW kinds, NEW n \in Nat, DOMAIN kinds = 1 .. n,
         \A i \in DOMAIN src : src[i].is = "raw" => src[i].name \in T /\ src[i].name.kind \in ToSet(kinds)
  PROVE  /\ KeyOrder(src, kinds) \in Seq(T)
         /\ ToSet(KeyOrder(src, kinds)) = {src[i].name : i \in {j \in DOMAIN src : src[j].is = "raw"}}
<1>. DEFINE Named(kind) == {src[i].name : i \in {j \in DOMAIN src : src[j].is = "raw"
                                                                    /\ src[j].name.kind = kind}}
            parts == [i \in DOMAIN kinds |-> OfKind(src, kinds[i])]
            all == KeyOrder(src, kinds)
<1>1. \A i \in DOMAIN kinds : /\ OfKind(src, kinds[i]) \in Seq(T)
                              /\ ToSet(OfKind(src, kinds[i])) = Named(kinds[i])
  BY OfKindFacts
<1>. HIDE DEF Named
<1>2. parts \in Seq(Seq(T)) /\ DOMAIN parts = DOMAIN kinds
  <2>1. parts \in [1 .. n -> Seq(T)]
    BY <1>1
  <2>. QED  BY <2>1, SeqDef
<1>3. \A i \in DOMAIN kinds : ToSet(parts[i]) = Named(kinds[i])
  BY <1>1
<1>4. all = FlattenSeq(parts)
  BY DEF KeyOrder
<1>. HIDE DEF parts, all
<1>5. all \in Seq(T) /\ ToSet(all) = UNION {Named(kinds[i]) : i \in DOMAIN kinds}
  <2>1. all \in Seq(T) /\ ToSet(all) = UNION {ToSet(parts[i]) : i \in DOMAIN parts}
    BY <1>2, <1>4, FlattenFacts
  <2>2. UNION {ToSet(parts[i]) : i \in DOMAIN parts} = UNION {Named(kinds[i]) : i \in DOMAIN kinds}
    BY <1>2, <1>3
  <2>. QED  BY <2>1, <2>2
<1>6. UNION {Named(kinds[i]) : i \in DOMAIN kinds} = UNION {Named(kind) : kind \in ToSet(kinds)}
  BY DEF ToSet
<1>7. UNION {Named(kind) : kind \in ToSet(kinds)} = {src[i].name : i \in {j \in DOMAIN src : src[j].is = "raw"}}
  BY DEF Named
<1>. QED  BY <1>5, <1>6, <1>7 DEF all

(* The keys of the shield_map are the names of all tags of the source.     *)
LEMMA KeysFacts ==
  ASSUME NEW src \in Seq(XPieces(Tags))
  PROVE  /\ XKeys(src) \in Seq(Tags)
         /\ ToSet(XKeys(src)) = {src[i].name : i \in {j \in DOMAIN src : src[j].is = "raw"}}
<1>. DEFINE all == KeyOrder(src, XKinds)
            firsts == {i \in DOMAIN all : \A j \in 1 .. i - 1 : all[j] # all[i]}
<1>1. all \in Seq(Tags) /\ ToSet(all) = {src[i].name : i \in {j \in DOMAIN src : src[j].is = "raw"}}
  <2>1. DOMAIN XKinds = 1 .. 3
    BY DEF XKinds
  <2>2. \A j \in DOMAIN src : src[j] \in XPieces(Tags)
    OBVIOUS
  <2>3. \A j \in DOMAIN src : src[j].is = "raw" => src[j].name \in Tags /\ src[j].name.kind \in ToSet(XKinds)
    BY <2>2, PieceFacts DEF Tags
  <2>4. src \in Seq(XPieces(Tags))
    OBVIOUS
  <2>. QED  BY <2>1, <2>3, <2>4, OrderFacts
<1>. HIDE DEF all
<1>2. /\ XKeys(src) = Chosen(all, firsts)
       /\ Chosen(all, firsts) \in Seq(Tags)
       /\ ToSet(Chosen(all, firsts)) = {all[i] : i \in DOMAIN all \cap firsts}
  BY <1>1, ChosenFacts DEF XKeys, all
<1>3. ASSUME NEW i \in DOMAIN all
       PROVE  \E m \in firsts : all[m] = all[i]
  <2>. DEFINE same == {j \in DOMAIN all : all[j] = all[i]}
  <2>1. DOMAIN all = 1 .. Len(all) /\ Len(all) \in Nat
    BY <1>1
  <2>2. same \subseteq Nat /\ i \in same
    BY <2>1
  <2>3. PICK m \in same : \A j \in same : m <= j
    BY <2>2, LeastNatural
  <2>4. \A j \in 1 .. m - 1 : j \in DOMAIN all /\ ~ (m <= j)
    BY <2>1
  <2>. QED  BY <2>3, <2>4
<1>4. {all[i] : i \in DOMAIN all \cap firsts} = ToSet(all)
  BY <1>3 DEF ToSet
<1>. QED  BY <1>1, <1>2, <1>4

(* A tag that becomes its placeholder keeps its name.                      *)
LEMMA Marking ==
  ASSUME NEW p, NEW k, NEW w \in BOOLEAN, p = [is |-> "raw", name |-> k, wide |-> w]
  PROVE  [p EXCEPT !.is = "mark"] = [is |-> "mark", name |-> k, wide |-> w]
OBVIOUS

(* What is sent: the words of the source, and marks for its tags. *)
LEMMA ShieldedFacts ==
  ASSUME NEW src \in Seq(XPieces(Tags)),
         \A i \in DOMAIN src : src[i].is \in {"raw", "word"} /\ src[i] # Word("instruction")
  PROVE  LET sent == XShielded(src)
             N == ToSet(XKeys(src))
         IN /\ N \subseteq Tags /\ XKeys(src) \in Seq(N)
            /\ Len(XKeys(src)) \in Nat /\ DOMAIN XKeys(src) = 1 .. Len(XKeys(src))
            /\ sent \in Seq(XPieces(N)) /\ DOMAIN sent = DOMAIN src
            /\ \A i \in DOMAIN sent : sent[i].is \in {"mark", "word"} /\ sent[i] # Word("instruction")
            /\ \A k \in N : Held(sent, Mark(k))
            /\ Kinds(sent) = Kinds(src)
<1>. DEFINE sent == XShielded(src)
            N == ToSet(XKeys(src))
<1>1. XKeys(src) \in Seq(Tags) /\ N = {src[i].name : i \in {j \in DOMAIN src : src[j].is = "raw"}}
  BY KeysFacts
<1>2. Len(XKeys(src)) \in Nat /\ DOMAIN XKeys(src) = 1 .. Len(XKeys(src))
  BY <1>1
<1>3. XKeys(src) \in Seq(N)
  <2>1. XKeys(src) \in [1 .. Len(XKeys(src)) -> N]
    BY <1>1, <1>2 DEF ToSet
  <2>. QED  BY <1>2, <2>1, SeqDef
<1>4. N \subseteq Tags
  BY <1>1 DEF ToSet
<1>. HIDE DEF N
<1>5. Len(src) \in Nat /\ DOMAIN src = 1 .. Len(src) /\ \A i \in DOMAIN src : src[i] \in XPieces(Tags)
  OBVIOUS
<1>6. ASSUME NEW i \in DOMAIN src
      PROVE  IF src[i].is = "raw" THEN src[i].name \in N /\ sent[i] = Mark(src[i].name)
             ELSE sent[i] = src[i] /\ src[i].is = "word" /\ src[i] \in XPieces(N)
  <2>1. CASE src[i].is = "raw"
    <3>1. src[i] = Raw(src[i].name)
      BY <1>5, <2>1, PieceFacts DEF Raw
    <3>2. [src[i] EXCEPT !.is = "mark"] = Mark(src[i].name)
      <4>1. src[i] = [is |-> "raw", name |-> src[i].name, wide |-> FALSE]
        BY <3>1 DEF Raw, Piece
      <4>. QED  BY <4>1, Marking DEF Mark, Piece
    <3>. QED  BY <1>1, <2>1, <3>2 DEF XShielded
  <2>2. CASE src[i].is # "raw"
    <3>1. src[i].is = "word" /\ src[i] \in XPieces(N)
      BY <1>5, <2>2 DEF XPieces
    <3>2. [src[i] EXCEPT !.is = src[i].is] = src[i]
      BY <3>1 DEF XPieces, Word, Piece
    <3>. QED  BY <2>2, <3>1, <3>2 DEF XShielded
  <2>. QED  BY <2>1, <2>2
<1>7. DOMAIN sent = DOMAIN src /\ sent = [i \in DOMAIN src |-> sent[i]]
  BY DEF XShielded
<1>8. \A k \in N : Mark(k) \in XPieces(N) /\ Mark(k).is = "mark" /\ Mark(k) # Word("instruction")
  BY <1>4, PieceFacts DEF Mark, Word, Piece
<1>. HIDE DEF sent
<1>9. \A i \in DOMAIN sent : sent[i] \in XPieces(N)
  BY <1>6, <1>7, <1>8
<1>10. sent \in Seq(XPieces(N)) /\ Len(sent) = Len(src)
  <2>1. sent \in [1 .. Len(src) -> XPieces(N)]
    BY <1>5, <1>7, <1>9
  <2>. QED  BY <1>5, <2>1, SeqDef
<1>11. \A i \in DOMAIN sent : sent[i].is \in {"mark", "word"} /\ sent[i] # Word("instruction")
  BY <1>6, <1>7, <1>8
<1>12. ASSUME NEW k \in N
       PROVE  Held(sent, Mark(k))
  <2>1. PICK i \in DOMAIN src : src[i].is = "raw" /\ src[i].name = k
    BY <1>1 DEF N
  <2>2. sent[i] = Mark(k)
    BY <1>6, <2>1
  <2>. QED  BY <1>5, <1>10, <2>2 DEF Held, Contains
<1>13. Kinds(sent) = Kinds(src)
  <2>1. \A i \in DOMAIN src : /\ sent[i].is = "word" <=> src[i].is = "word"
                              /\ src[i].is = "word" => sent[i] = src[i]
    BY <1>6, <1>8
  <2>2. {j \in DOMAIN sent : sent[j].is = "word"} = {j \in DOMAIN src : src[j].is = "word"}
    BY <1>7, <2>1
  <2>. QED  BY <2>1, <2>2 DEF Kinds
<1>. QED  BY <1>2, <1>3, <1>4, <1>7, <1>10, <1>11, <1>12, <1>13 DEF N, sent

(* Held, in terms of the set of pieces.                                    *)
LEMMA HeldIs ==
  ASSUME NEW S, NEW s \in Seq(S), NEW p
  PROVE  Held(s, p) <=> p \in ToSet(s)
BY DEF Held, Contains, ToSet

(* Level 4 puts back what has neither placeholder nor tag, and takes       *)
(* nothing away.                                                           *)
LEMMA FallbackFacts ==
  ASSUME NEW keys, ToSet(keys) \subseteq Tags, keys \in Seq(ToSet(keys)),
         NEW s \in Seq(XPieces(ToSet(keys)))
  PROVE  LET new == XInserted(s, XMissing(s, keys))
         IN /\ XFallback(s, new) \in Seq(XPieces(ToSet(keys)))
            /\ \A k \in ToSet(keys) : Held(XFallback(s, new), Mark(k)) \/ Held(XFallback(s, new), Raw(k))
<1>. DEFINE N == ToSet(keys)
            missing == XMissing(s, keys)
            halves == {k \in ToSet(missing) : Half(k) /\ ~ Held(s, Raw(k))}
            whole == {i \in DOMAIN missing : ~ Half(missing[i])}
            new == XInserted(s, missing)
            tags == [i \in DOMAIN new |-> Raw(new[i])]
<1>1. /\ missing \in Seq(N)
      /\ ToSet(missing) = {keys[i] : i \in DOMAIN keys \cap {i \in DOMAIN keys : ~ Held(s, Mark(keys[i]))}}
  BY ChosenFacts DEF XMissing
<1>2. \A k \in N : Held(s, Mark(k)) \/ k \in ToSet(missing)
  BY <1>1 DEF ToSet
<1>3. ToSet(missing) \subseteq N
  BY <1>1 DEF ToSet
<1>4. IsFiniteSet(halves) /\ halves \subseteq [kind : {"bx", "ex"}, id : Nat]
  <2>1. IsFiniteSet(ToSet(missing))
    <3>1. Len(missing) \in Nat /\ missing \in [1 .. Len(missing) -> N]
      BY <1>1
    <3>2. missing \in Surjection(1 .. Len(missing), ToSet(missing))
      <4>1. missing \in [1 .. Len(missing) -> ToSet(missing)]
        BY <3>1 DEF ToSet
      <4>2. \A k \in ToSet(missing) : \E i \in 1 .. Len(missing) : missing[i] = k
        BY <3>1 DEF ToSet
      <4>. QED  BY <4>1, <4>2 DEF Surjection
    <3>3. IsFiniteSet(1 .. Len(missing))
      BY <3>1, FS_Interval
    <3>. QED  BY <3>2, <3>3, FS_Surjection
  <2>2. \A k \in Tags : Half(k) => k \in [kind : {"bx", "ex"}, id : Nat]
    BY DEF Tags, Half
  <2>3. halves \subseteq Tags
    BY <1>3
  <2>. QED  BY <2>1, <2>2, <2>3, FS_Subset
<1>5. Sorted(halves) \in Seq(halves) /\ ToSet(Sorted(halves)) = halves
  BY <1>4, SortedFacts
<1>6. /\ Chosen(missing, whole) \in Seq(N)
      /\ ToSet(Chosen(missing, whole)) = {missing[i] : i \in DOMAIN missing \cap whole}
  BY <1>1, ChosenFacts
<1>7. new = Sorted(halves) \o Chosen(missing, whole)
  BY DEF XInserted
<1>8. Sorted(halves) \in Seq(N)
  <2>1. halves \subseteq N
    BY <1>3
  <2>. QED  BY <1>5, <2>1, SeqMonotonic
<1>9. new \in Seq(N) /\ ToSet(new) = halves \cup ToSet(Chosen(missing, whole))
  <2>. DEFINE a == Sorted(halves)
              b == Chosen(missing, whole)
  <2>1. a \in Seq(N) /\ b \in Seq(N) /\ ToSet(a) = halves /\ new = a \o b
    BY <1>5, <1>6, <1>7, <1>8
  <2>. HIDE DEF a, b, new, halves, N
  <2>2. a \o b \in Seq(N) /\ ToSet(a \o b) = ToSet(a) \cup ToSet(b)
    BY <2>1, ConcatSet
  <2>3. new \in Seq(N) /\ ToSet(new) = halves \cup ToSet(b)
    BY <2>1, <2>2
  <2>. QED  BY <2>3 DEF b
<1>10. \A k \in ToSet(missing) : k \in ToSet(new) \/ Held(s, Raw(k))
  <2>1. ASSUME NEW k \in ToSet(missing), ~ Half(k)
        PROVE  k \in ToSet(Chosen(missing, whole))
    <3>1. PICK i \in DOMAIN missing : missing[i] = k
      BY DEF ToSet
    <3>2. i \in whole
      BY <2>1, <3>1
    <3>. QED  BY <1>6, <3>1, <3>2
  <2>. QED  BY <1>9, <2>1
<1>. HIDE DEF missing, halves, whole, new
<1>11. /\ tags \in Seq(XPieces(N))
       /\ \A k \in ToSet(new) : Raw(k) \in ToSet(tags)
  <2>1. Len(new) \in Nat /\ DOMAIN new = 1 .. Len(new) /\ \A i \in DOMAIN new : new[i] \in N
    BY <1>9
  <2>2. \A i \in DOMAIN new : Raw(new[i]) \in XPieces(N)
    BY <2>1, PieceFacts
  <2>3. tags \in [1 .. Len(new) -> XPieces(N)]
    BY <2>1, <2>2
  <2>. QED  BY <2>1, <2>3, SeqDef DEF ToSet
<1>12. PICK i \in 0 .. Len(s) : XFallback(s, new) = PutBehind(s, i, tags)
  <2>1. LastOf(s, "raw") \in 0 .. Len(s) /\ LastOf(s, "mark") \in 0 .. Len(s) /\ Len(s) \in 0 .. Len(s)
    BY LastIsPlace
  <2>. QED  BY <2>1 DEF XFallback
<1>. HIDE DEF tags
<1>13. /\ XFallback(s, new) \in Seq(XPieces(N))
       /\ ToSet(XFallback(s, new)) = ToSet(s) \cup ToSet(tags)
  BY <1>11, <1>12, PutFacts
<1>14. \A k \in N : \/ Mark(k) \in ToSet(s) \/ Raw(k) \in ToSet(s) \/ Raw(k) \in ToSet(tags)
  BY <1>2, <1>10, <1>11, HeldIs
<1>. QED  BY <1>13, <1>14, HeldIs DEF new, missing

-----------------------------------------------------------------------------
(* An XLIFF unit.  What is known once it is shielded:                      *)
Known ==
  /\ Keys \subseteq Tags
  /\ shield.keys \in Seq(Keys) /\ Len(shield.keys) \in Nat
  /\ DOMAIN shield.keys = 1 .. Len(shield.keys)
  /\ shield.text \in Seq(XPieces(Keys))
  /\ \A i \in DOMAIN shield.text : shield.text[i].is \in {"mark", "word"}
                                   /\ shield.text[i] # Word("instruction")
  /\ \A k \in Keys : Held(shield.text, Mark(k)) /\ shield.value[k] = <<Raw(k)>>
  /\ Kinds(shield.text) = Kinds(job.source)

(* What Shield makes known stays known.                                    *)
LEMMA IsKnown ==
  ASSUME RepairInv, Xliff, stage # "new"
  PROVE  Known
<1>1. job \in Jobs /\ job.channel = "xliff" /\ shield = XShield
  BY DEF RepairInv, Xliff
<1>2. /\ job.source \in Seq(XPieces(Tags))
      /\ \A i \in DOMAIN job.source : job.source[i].is \in {"raw", "word"}
                                      /\ job.source[i] # Word("instruction")
  BY <1>1, TextAssumption DEF Tags
<1>3. /\ shield.text = XShielded(job.source) /\ shield.keys = XKeys(job.source)
      /\ shield.value = [k \in ToSet(XKeys(job.source)) |-> <<Raw(k)>>]
  BY <1>1 DEF XShield
<1>. QED  BY <1>2, <1>3, ShieldedFacts DEF Known, Keys

(* Every form of a known tag is a piece of the unit's texts.               *)
LEMMA KeptForms ==
  ASSUME Known
  PROVE  /\ \A w \in Vocabulary \cup {"instruction"} : Word(w) \in XPieces(Keys)
         /\ \A k \in Keys : /\ Raw(k) \in XPieces(Keys) /\ Mark(k) \in XPieces(Keys)
                            /\ Escaped(k) \in XPieces(Keys) /\ Bare(k) \in XPieces(Keys)
                            /\ Alt(k) \in XPieces(Keys)
BY PieceFacts DEF Known, XPieces

(* A step between the answer and the file. *)
LEMMA StepKeeps ==
  ASSUME RepairInv, Xliff, stage # "new", UNCHANGED <<job, shield, reply>>,
         stage' \in Stages \ {"new", "asked", "replied", "done"},
         text' \in Seq(XPieces(Keys)),
         stage' \in {"repaired", "gated"} => (\A k \in Keys : Present(k))',
         Clear => Unrepaired',
         stage' = "gated" => EchoSeen'
  PROVE  RepairInv'
<1>1. Keys' = Keys /\ Xliff' /\ XShield' = XShield /\ ~ Done'
  BY DEF Keys, Xliff, XShield, Done
<1>2. Clear' = Clear
  BY <1>1 DEF Clear, Forms
<1>3. NoPlaceholderShips' /\ LostOnlyInShadow'
  BY <1>1 DEF NoPlaceholderShips, LostOnlyInShadow
<1>. QED  BY <1>1, <1>2, <1>3 DEF RepairInv

(* Each action keeps RepairInv.  Shield: nothing was answered yet.         *)
LEMMA ShieldStep ==
  ASSUME RepairInv, Xliff, Shield
  PROVE  RepairInv'
<1>1. /\ stage = "new" /\ stage' = "asked" /\ shield' = XShield
      /\ UNCHANGED <<job, reply, text, told>>
  BY DEF Shield, Step, Keep
<1>2. reply' = <<>> /\ text' = <<>> /\ told' = {} /\ job' \in Jobs
  BY <1>1 DEF RepairInv
<1>3. shield' = XShield' /\ ~ Done' /\ Xliff'
  BY <1>1 DEF XShield, Done, Xliff
<1>4. NoPlaceholderShips' /\ LostOnlyInShadow' /\ Unrepaired'
  BY <1>1, <1>2, <1>3 DEF NoPlaceholderShips, LostOnlyInShadow, Unrepaired
<1>. QED  BY <1>1, <1>2, <1>3, <1>4 DEF RepairInv, Stages

(* What a model makes of known pieces are known pieces.                    *)
LEMMA EditsTyped ==
  ASSUME Xliff, Known, NEW p \in XPieces(Keys)
  PROVE  Edits(p) \subseteq Seq(XPieces(Keys))
<1>. DEFINE P == XPieces(Keys)
<1>1. \A q \in P : <<q>> \in Seq(P) /\ <<q, q>> \in Seq(P)
  OBVIOUS
<1>2. <<>> \in Seq(P)
  OBVIOUS
<1>3. Word("own") \in P /\ Word("protocol") \in P /\ Word("rendering") \in P
  BY KeptForms DEF Vocabulary
<1>4. CASE p.is # "mark"
  BY <1>1, <1>2, <1>3, <1>4 DEF Edits
<1>5. CASE p.is = "mark"
  <2>1. p.name \in Keys /\ p.name.kind # "image"
    <3>1. p.name \in Keys /\ p.name \in Tags
      BY <1>5, PieceFacts DEF Known
    <3>2. \A k \in Tags : k.kind # "image"
      BY DEF Tags, XKinds, ToSet
    <3>. QED  BY <3>1, <3>2
  <2>2. Raw(p.name) \in P /\ Bare(p.name) \in P /\ Alt(p.name) \in P
    BY <2>1, KeptForms
  <2>. QED  BY <1>1, <1>2, <1>5, <2>1, <2>2 DEF Edits
<1>. QED  BY <1>4, <1>5

(* A reply consists of words and known tags.                               *)
LEMMA RepliesTyped ==
  ASSUME Xliff, Known, NEW answer \in Replies
  PROVE  answer \in Seq(XPieces(Keys))
<1>. DEFINE P == XPieces(Keys)
            edits == UNION {Edits(shield.text[i]) : i \in DOMAIN shield.text}
            heads == {<<>>, <<Word("instruction")>>}
            tails == {<<>>} \cup {<<Escaped(shield.keys[i])>> :
                                    i \in IF Xliff THEN DOMAIN shield.keys \cap {1} ELSE {}}
<1>. DEFINE edited == {e \in [DOMAIN shield.text -> edits] :
                         \A i \in DOMAIN e : e[i] \in Edits(shield.text[i])}
            Composed(e, h, t) == {h \o FlattenSeq(e) \o t, h \o Reverse(FlattenSeq(e)) \o t}
<1>0. Replies = UNION {Composed(e, h, t) : e \in edited, h \in heads, t \in tails}
  BY DEF Replies
<1>1. PICK e \in [DOMAIN shield.text -> edits], h \in heads, t \in tails : answer \in Composed(e, h, t)
  <2>. HIDE DEF Composed, heads, tails
  <2>1. \E e \in edited, h \in heads, t \in tails : answer \in Composed(e, h, t)
    BY <1>0
  <2>. QED  BY <2>1
<1>2. Len(shield.text) \in Nat /\ DOMAIN shield.text = 1 .. Len(shield.text)
      /\ \A i \in DOMAIN shield.text : shield.text[i] \in P
  BY DEF Known
<1>3. edits \subseteq Seq(P)
  BY <1>2, EditsTyped
<1>. HIDE DEF P
<1>4. e \in Seq(Seq(P))
  <2>. HIDE DEF edits
  <2>1. e \in [1 .. Len(shield.text) -> edits]
    BY <1>2
  <2>2. e \in [1 .. Len(shield.text) -> Seq(P)]
    BY <1>3, <2>1
  <2>. QED  BY <1>2, <2>2, SeqDef
<1>5. h \in Seq(P)
  <2>1. <<Word("instruction")>> \in Seq(P)
    <3>1. Word("instruction") \in P
      BY KeptForms DEF P
    <3>. QED  BY <3>1
  <2>2. <<>> \in Seq(P)
    OBVIOUS
  <2>. QED  BY <2>1, <2>2
<1>6. t \in Seq(P)
  <2>1. ASSUME NEW i \in DOMAIN shield.keys
        PROVE  <<Escaped(shield.keys[i])>> \in Seq(P)
    <3>1. Escaped(shield.keys[i]) \in P
      BY KeptForms DEF Known, P
    <3>. QED  BY <3>1
  <2>2. <<>> \in Seq(P)
    OBVIOUS
  <2>3. t = <<>> \/ \E i \in DOMAIN shield.keys : t = <<Escaped(shield.keys[i])>>
    OBVIOUS
  <2>. QED  BY <2>1, <2>2, <2>3
<1>. HIDE DEF heads, tails, edits
<1>. DEFINE b == FlattenSeq(e)
            r == Reverse(b)
<1>7. b \in Seq(P)
  BY <1>4, FlattenFacts
<1>. HIDE DEF b
<1>8. r \in Seq(P)
  BY <1>7, ReverseFacts
<1>. HIDE DEF r
<1>9. h \o b \o t \in Seq(P) /\ h \o r \o t \in Seq(P)
  BY <1>5, <1>6, <1>7, <1>8
<1>10. answer = h \o b \o t \/ answer = h \o r \o t
  BY <1>1 DEF b, r
<1>. QED  BY <1>9, <1>10 DEF P

(* The model answers: any reply.                                           *)
LEMMA ReplyStep ==
  ASSUME RepairInv, Xliff, Reply
  PROVE  RepairInv'
<1>1. PICK answer \in Replies : reply' = answer /\ text' = answer
  BY DEF Reply
<1>2. stage = "asked" /\ stage' = "replied" /\ UNCHANGED <<job, shield, told>>
  BY DEF Reply, Step, Keep
<1>3. reply' \in Seq(XPieces(Keys)) /\ text' = reply'
  BY <1>1, <1>2, IsKnown, RepliesTyped
<1>4. Keys' = Keys /\ Xliff' /\ XShield' = XShield /\ ~ Done'
  BY <1>2 DEF Keys, Xliff, XShield, Done
<1>5. told' = {} /\ shield' = XShield
  BY <1>2 DEF RepairInv
<1>6. NoPlaceholderShips' /\ LostOnlyInShadow' /\ Unrepaired'
  BY <1>2, <1>4, <1>5 DEF NoPlaceholderShips, LostOnlyInShadow, Unrepaired
<1>. QED  BY <1>2, <1>3, <1>4, <1>5, <1>6 DEF RepairInv, Stages

(* A piece that is no bare or escaped key is a tag in a form of its own, or *)
(* a word.                                                                 *)
LEMMA FormIs ==
  ASSUME Known, NEW p \in XPieces(Keys), p.is \in {"mark", "alt", "raw", "word"}
  PROVE  IF p.name \in Keys THEN p.is # "word" /\ p = Piece(p.is, p.name) ELSE p.is = "word"
BY PieceFacts DEF Known

(* A clear answer is restored to its tags.                                 *)
LEMMA RestoreStep ==
  ASSUME RepairInv, Xliff, Restore
  PROVE  RepairInv'
<1>. DEFINE now == XRestored(text, shield.keys)
<1>1. /\ stage = "replied" /\ stage' = "restored" /\ UNCHANGED <<job, shield, reply>>
      /\ text' = now /\ told' = told \cup {n \in ToSet(text') : n.is = "notice"}
  BY DEF Restore, Step, Keep, RestoredFrom
<1>2. Known
  BY <1>1, IsKnown
<1>3. /\ text = reply /\ told = {} /\ reply \in Seq(XPieces(Keys))
  BY <1>1 DEF RepairInv
<1>4. /\ now \in Seq(XPieces(Keys))
      /\ (\A i \in DOMAIN text : text[i].is # "escaped") => now = [i \in DOMAIN text |-> Back(text[i])]
  <2>1. /\ ToSet(shield.keys) \subseteq Tags /\ text \in Seq(XPieces(ToSet(shield.keys)))
        /\ Len(shield.keys) \in Nat /\ DOMAIN shield.keys = 1 .. Len(shield.keys)
    BY <1>2, <1>3 DEF Known, Keys
  <2>2. now \in Seq(XPieces(ToSet(shield.keys)))
    BY <2>1, RestoredFacts, Zenon
  <2>3. (\A i \in DOMAIN text : text[i].is # "escaped") => now = [i \in DOMAIN text |-> Back(text[i])]
    BY <2>1, RestoredFacts, Zenon
  <2>. QED  BY <2>2, <2>3 DEF Keys
<1>. HIDE DEF now
<1>5. \A i \in DOMAIN now : now[i] \in XPieces(Keys)
  BY <1>4
<1>6. told' = {}
  <2>1. \A i \in DOMAIN now : now[i].is # "notice"
    BY <1>2, <1>5, PieceFacts DEF Known
  <2>. QED  BY <1>1, <1>3, <2>1 DEF ToSet
<1>7. ASSUME Clear
      PROVE  Unrepaired'
  <2>1. \A i \in DOMAIN reply : reply[i].is \in {"mark", "alt", "raw", "word"}
    BY <1>7 DEF Clear, Forms
  <2>2. \A i \in DOMAIN reply : reply[i] \in XPieces(Keys)
    BY <1>3
  <2>3. now = [i \in DOMAIN reply |-> Back(reply[i])]
    BY <1>3, <1>4, <2>1
  <2>4. \A i \in DOMAIN reply :
          Back(reply[i]) = IF reply[i].name \in Keys THEN Piece("raw", reply[i].name) ELSE reply[i]
    BY <1>2, <2>1, <2>2, FormIs DEF Back, Raw
  <2>5. now = InForm(reply, "raw")
    BY <2>3, <2>4 DEF InForm
  <2>6. text' = InForm(reply, "raw")' /\ told' = {}
    BY <1>1, <1>6, <2>5 DEF InForm, Keys
  <2>. QED  BY <1>1, <2>6 DEF Unrepaired
<1>8. text' \in Seq(XPieces(Keys))
  BY <1>1, <1>4
<1>. QED  BY <1>1, <1>7, <1>8, StepKeeps DEF Stages

(* A complete text has every tag present. *)
LEMMA CompleteIsPresent ==
  ASSUME Known, Xliff, UNCHANGED <<job, shield>>, Complete(text')
  PROVE  (\A k \in Keys : Present(k))'
<1>1. XComplete(text', shield.keys)
  BY DEF Complete
<1>2. ASSUME NEW k \in Keys
      PROVE  Held(text', Mark(k)) \/ Held(text', Raw(k)) \/ KeySeen(k, text')
  <2>1. PICK i \in DOMAIN shield.keys : shield.keys[i] = k
    BY DEF Keys, ToSet
  <2>. QED  BY <1>1, <2>1 DEF XComplete
<1>3. Keys' = Keys
  BY DEF Keys
<1>. QED  BY <1>2, <1>3 DEF Present

(* A clear answer, with placeholders again, is complete and goes straight to *)
(* the gates.                                                              *)
LEMMA CleanStep ==
  ASSUME RepairInv, Xliff, Clean
  PROVE  RepairInv'
<1>. DEFINE now == XCleaned(text, shield.keys)
<1>1. /\ stage = "restored" /\ UNCHANGED <<job, shield, reply, told>>
      /\ text' = now /\ stage' = IF Complete(now) THEN "repaired" ELSE "cleaned"
  BY DEF Clean, Keep, Next4
<1>2. Known
  BY <1>1, IsKnown
<1>3. text \in Seq(XPieces(Keys)) /\ reply \in Seq(XPieces(Keys))
  BY DEF RepairInv
<1>4. /\ now \in Seq(XPieces(Keys))
      /\ (\A i \in DOMAIN text : text[i] # Word("instruction")) =>
           now = [i \in DOMAIN text |-> IF text[i].is = "raw" THEN Mark(text[i].name) ELSE text[i]]
  <2>1. ToSet(shield.keys) \subseteq Tags /\ text \in Seq(XPieces(ToSet(shield.keys)))
    BY <1>2, <1>3 DEF Known, Keys
  <2>. QED  BY <1>2, <2>1, CleanedFacts DEF Known, Keys
<1>. HIDE DEF now
<1>5. stage' \in {"repaired", "gated"} => (\A k \in Keys : Present(k))'
  BY <1>1, <1>2, CompleteIsPresent
<1>6. ASSUME Clear
      PROVE  Unrepaired'
  <2>1. \A i \in DOMAIN reply : reply[i].is \in {"mark", "alt", "raw", "word"}
                                /\ reply[i] # Word("instruction")
    BY <1>6 DEF Clear, Forms
  <2>2. /\ text = InForm(reply, "raw")
        /\ \A n \in told : n.is # "appended" /\ n # Warning("missing_shields")
    BY <1>1, <1>6 DEF RepairInv, Unrepaired
  <2>3. \A i \in DOMAIN reply : reply[i] \in XPieces(Keys)
    BY <1>3
  <2>4. /\ DOMAIN text = DOMAIN reply
        /\ \A i \in DOMAIN reply :
             IF reply[i].name \in Keys THEN text[i] = Raw(reply[i].name)
             ELSE text[i] = reply[i] /\ reply[i].is = "word"
    BY <1>2, <2>1, <2>2, <2>3, FormIs DEF InForm, Raw
  <2>5. \A i \in DOMAIN text : text[i] # Word("instruction")
    BY <2>1, <2>4 DEF Raw, Word, Piece
  <2>6. \A i \in DOMAIN reply : (IF text[i].is = "raw" THEN Mark(text[i].name) ELSE text[i])
                                  = IF reply[i].name \in Keys THEN Piece("mark", reply[i].name) ELSE reply[i]
    <3>. TAKE i \in DOMAIN reply
    <3>1. CASE reply[i].name \in Keys
      <4>1. text[i].is = "raw" /\ text[i].name = reply[i].name
        BY <2>4, <3>1 DEF Raw, Piece
      <4>. QED  BY <3>1, <4>1 DEF Mark
    <3>2. CASE reply[i].name \notin Keys
      <4>1. text[i] = reply[i] /\ text[i].is # "raw"
        BY <2>4, <3>2
      <4>. QED  BY <3>2, <4>1
    <3>. QED  BY <3>1, <3>2
  <2>7. now = InForm(reply, "mark")
    BY <1>4, <2>4, <2>5, <2>6 DEF InForm
  <2>8. ASSUME NEW k \in Keys
        PROVE  Held(now, Mark(k))
    <3>1. PICK i \in DOMAIN reply : reply[i].name = k
      BY <1>6 DEF Clear
    <3>2. now[i] = Mark(k) /\ i \in DOMAIN now
      BY <2>7, <3>1 DEF InForm, Mark
    <3>. QED  BY <1>4, <3>2, HeldIs DEF ToSet
  <2>9. Complete(now)
    <3>1. \A i \in DOMAIN shield.keys : shield.keys[i] \in Keys
      BY DEF Keys, ToSet
    <3>. QED  BY <2>8, <3>1 DEF Complete, XComplete
  <2>10. text' = InForm(reply, "mark")'
    BY <1>1, <2>7 DEF InForm, Keys
  <2>. QED  BY <1>1, <2>2, <2>9, <2>10 DEF Unrepaired
<1>7. text' \in Seq(XPieces(Keys))
  BY <1>1, <1>4
<1>8. stage' \in Stages \ {"new", "asked", "replied", "done", "gated"}
  BY <1>1 DEF Stages
<1>. QED  BY <1>1, <1>5, <1>6, <1>7, <1>8, StepKeeps

(* Only an answer that is not clear comes to the span aligner.             *)
LEMMA AlignStep ==
  ASSUME RepairInv, Xliff, Align
  PROVE  RepairInv'
<1>1. /\ stage = "cleaned" /\ UNCHANGED <<job, shield, reply, told>> /\ text' \in Projections(text)
      /\ stage' = IF Complete(text') THEN "repaired" ELSE "aligned"
  BY DEF Align, Keep, Next4
<1>2. Known
  BY <1>1, IsKnown
<1>3. ~ Clear
  BY <1>1 DEF RepairInv, Unrepaired
<1>4. text' \in Seq(XPieces(Keys))
  <2>. DEFINE lost == {i \in DOMAIN shield.text : shield.text[i].is = "mark" /\ ~ Held(text, shield.text[i])}
  <2>1. text \in Seq(XPieces(Keys)) /\ shield.text \in Seq(XPieces(Keys))
    BY <1>2 DEF RepairInv, Known
  <2>2. text' = text \/ text' = text \o Chosen(shield.text, lost)
    BY <1>1 DEF Projections
  <2>. HIDE DEF lost
  <2>3. Chosen(shield.text, lost) \in Seq(XPieces(Keys))
    BY <2>1, ChosenFacts
  <2>4. text \o Chosen(shield.text, lost) \in Seq(XPieces(Keys))
    BY <2>1, <2>3, ConcatSet
  <2>. QED  BY <2>1, <2>2, <2>4
<1>5. stage' \in {"repaired", "gated"} => (\A k \in Keys : Present(k))'
  BY <1>1, <1>2, CompleteIsPresent
<1>6. stage' \in Stages \ {"new", "asked", "replied", "done", "gated"}
  BY <1>1 DEF Stages
<1>. QED  BY <1>1, <1>3, <1>4, <1>5, <1>6, StepKeeps

(* Level 4 makes every tag present.                                        *)
LEMMA FallBackStep ==
  ASSUME RepairInv, Xliff, FallBack
  PROVE  RepairInv'
<1>. DEFINE new == XInserted(text, XMissing(text, shield.keys))
            now == XFallback(text, new)
<1>1. /\ stage = "aligned" /\ stage' = "repaired" /\ UNCHANGED <<job, shield, reply>> /\ text' = now
  BY DEF FallBack, Step, Keep
<1>2. Known
  BY <1>1, IsKnown
<1>3. ~ Clear
  BY <1>1 DEF RepairInv, Unrepaired
<1>4. now \in Seq(XPieces(Keys)) /\ \A k \in Keys : Held(now, Mark(k)) \/ Held(now, Raw(k))
  <2>1. /\ ToSet(shield.keys) \subseteq Tags /\ text \in Seq(XPieces(ToSet(shield.keys)))
        /\ shield.keys \in Seq(ToSet(shield.keys))
    BY <1>2 DEF Known, Keys, RepairInv
  <2>2. /\ now \in Seq(XPieces(ToSet(shield.keys)))
        /\ \A k \in ToSet(shield.keys) : Held(now, Mark(k)) \/ Held(now, Raw(k))
    BY <2>1, FallbackFacts, Zenon
  <2>. QED  BY <2>2 DEF Keys
<1>. HIDE DEF now
<1>5. (\A k \in Keys : Present(k))'
  BY <1>1, <1>4 DEF Keys, Present
<1>6. text' \in Seq(XPieces(Keys))
  BY <1>1, <1>4
<1>. QED  BY <1>1, <1>3, <1>5, <1>6, StepKeeps DEF Stages

(* The gates add only notices, and see a text that was given back as it    *)
(* was sent as what it is.                                                 *)
LEMMA GateStep ==
  ASSUME RepairInv, Xliff, Gate
  PROVE  RepairInv'
<1>1. /\ stage = "repaired" /\ stage' = "gated" /\ UNCHANGED <<job, shield, reply, text>>
      /\ told' = told \cup Gates(shield.text, text, job.language)
  BY DEF Gate, Step, Keep
<1>2. Known
  BY <1>1, IsKnown
<1>3. text \in Seq(XPieces(Keys)) /\ (\A k \in Keys : Present(k)) /\ reply \in Seq(XPieces(Keys))
  BY <1>1 DEF RepairInv
<1>4. (\A k \in Keys : Present(k))'
  BY <1>1, <1>3 DEF Keys, Present
<1>5. \A n \in Gates(shield.text, text, job.language) : n.is # "appended" /\ n # Warning("missing_shields")
  BY DEF Gates, Notice, Warning, Piece, Name
<1>6. ASSUME Clear
      PROVE  Unrepaired'
  <2>1. Unrepaired
    BY <1>6 DEF RepairInv
  <2>2. InForm(reply, "mark")' = InForm(reply, "mark")
    BY <1>1 DEF InForm, Keys
  <2>. QED  BY <1>1, <1>5, <2>1, <2>2 DEF Unrepaired
<1>7. ASSUME reply = shield.text, Kinds(job.source) \cap SourceScript # {}
      PROVE  Notice("SOURCE_COPY") \in told'
  <2>1. \A i \in DOMAIN reply : reply[i].is \in {"mark", "word"} /\ reply[i] # Word("instruction")
                                /\ reply[i] \in XPieces(Keys)
    BY <1>2, <1>3, <1>7 DEF Known
  <2>2. ASSUME NEW k \in Keys
        PROVE  \E i \in DOMAIN reply : reply[i].name = k
    <3>1. Mark(k) \in ToSet(reply)
      BY <1>2, <1>7, HeldIs DEF Known
    <3>. QED  BY <3>1 DEF ToSet, Mark, Piece
  <2>3. Clear
    BY <2>1, <2>2 DEF Clear, Forms
  <2>4. text = InForm(reply, "mark")
    BY <1>1, <2>3 DEF RepairInv, Unrepaired
  <2>5. \A i \in DOMAIN reply :
          (IF reply[i].name \in Keys THEN Piece("mark", reply[i].name) ELSE reply[i]) = reply[i]
    BY <1>2, <2>1, FormIs
  <2>6. reply = [i \in DOMAIN reply |-> reply[i]]
    BY <1>3
  <2>7. text = reply
    BY <2>4, <2>5, <2>6 DEF InForm
  <2>8. Copied(shield.text, text)
    BY <1>2, <1>7, <2>7 DEF Copied, Known
  <2>9. Notice("SOURCE_COPY") \in Gates(shield.text, text, job.language)
    BY <2>8 DEF Gates
  <2>. QED  BY <1>1, <2>9
<1>8. EchoSeen'
  BY <1>1, <1>7 DEF EchoSeen
<1>9. text' \in Seq(XPieces(Keys))
  BY <1>1, <1>3
<1>. QED  BY <1>1, <1>4, <1>6, <1>8, <1>9, StepKeeps DEF Stages

(* What is written has tags for its placeholders and loses none.           *)
LEMMA WriteStep ==
  ASSUME RepairInv, Xliff, Write
  PROVE  RepairInv'
<1>. DEFINE now == XRestored(text, shield.keys)
<1>1. /\ stage = "gated" /\ stage' = "done" /\ UNCHANGED <<job, shield, reply, told>> /\ text' = now
  BY DEF Write, Step, Keep, XWritten
<1>2. Known
  BY <1>1, IsKnown
<1>3. /\ text \in Seq(XPieces(Keys)) /\ reply \in Seq(XPieces(Keys))
      /\ \A k \in Keys : Present(k)
  BY <1>1 DEF RepairInv
<1>4. /\ now \in Seq(XPieces(Keys))
      /\ \A i \in DOMAIN now : now[i].is \notin {"mark", "alt"}
      /\ \A i \in DOMAIN text : text[i].is # "escaped" => Held(now, Back(text[i]))
      /\ (\A i \in DOMAIN text : text[i].is # "escaped") => now = [i \in DOMAIN text |-> Back(text[i])]
  <2>1. /\ ToSet(shield.keys) \subseteq Tags /\ text \in Seq(XPieces(ToSet(shield.keys)))
        /\ Len(shield.keys) \in Nat /\ DOMAIN shield.keys = 1 .. Len(shield.keys)
    BY <1>2, <1>3 DEF Known, Keys
  <2>2. now \in Seq(XPieces(ToSet(shield.keys))) /\ \A i \in DOMAIN now : now[i].is \notin {"mark", "alt"}
    BY <2>1, RestoredFacts, Zenon
  <2>3. \A i \in DOMAIN text : text[i].is # "escaped" => Held(now, Back(text[i]))
    BY <2>1, RestoredFacts, Zenon
  <2>4. (\A i \in DOMAIN text : text[i].is # "escaped") => now = [i \in DOMAIN text |-> Back(text[i])]
    BY <2>1, RestoredFacts, Zenon
  <2>. QED  BY <2>2, <2>3, <2>4 DEF Keys
<1>. HIDE DEF now
<1>5. Keys' = Keys /\ Xliff' /\ Done' /\ XShield' = XShield
  BY <1>1 DEF Keys, Xliff, Done, XShield
<1>6. NoPlaceholderShips'
  BY <1>1, <1>4 DEF NoPlaceholderShips
<1>7. ASSUME NEW k \in Keys
      PROVE  \/ Held(now, Raw(k))
             \/ \E j \in Keys : InsideKey(k, j) /\ (Held(now, Bare(j)) \/ (j # k /\ Held(now, Raw(j))))
  <2>1. \A i \in DOMAIN text : text[i] \in XPieces(Keys)
    BY <1>3
  <2>2. ASSUME NEW form \in {"mark", "raw"}, Held(text, Piece(form, k))
        PROVE  Held(now, Raw(k))
    <3>1. PICK i \in DOMAIN text : text[i] = Piece(form, k)
      BY <1>3, <2>2, HeldIs DEF ToSet
    <3>2. text[i].is = form /\ text[i].name = k
      BY <3>1 DEF Piece
    <3>3. text[i].is # "escaped"
      BY <3>2
    <3>4. Back(text[i]) = Raw(k)
      BY <3>1, <3>2 DEF Back, Raw, Piece
    <3>. QED  BY <1>4, <3>3, <3>4
  <2>3. CASE Held(text, Mark(k)) \/ Held(text, Raw(k))
    BY <2>2, <2>3 DEF Mark, Raw
  <2>4. CASE KeySeen(k, text)
    <3>1. PICK i \in DOMAIN text : text[i].is \in {"mark", "bare"} /\ InsideKey(k, text[i].name)
      BY <2>4 DEF KeySeen
    <3>2. text[i].name \in Keys /\ text[i] = Piece(text[i].is, text[i].name)
      BY <1>2, <2>1, <3>1, PieceFacts DEF Known
    <3>3. Held(now, Back(text[i]))
      BY <1>4, <3>1
    <3>4. Back(text[i]) = IF text[i].is = "mark" THEN Raw(text[i].name) ELSE Bare(text[i].name)
      BY <3>1, <3>2 DEF Back, Bare
    <3>. QED  BY <3>1, <3>2, <3>3, <3>4
  <2>. QED  BY <1>3, <2>3, <2>4 DEF Present
<1>8. LostOnlyInShadow'
  BY <1>1, <1>5, <1>7 DEF LostOnlyInShadow
<1>9. ASSUME Clear
      PROVE  Unrepaired'
  <2>1. /\ text = InForm(reply, "mark")
        /\ \A n \in told : n.is # "appended" /\ n # Warning("missing_shields")
    BY <1>1, <1>9 DEF RepairInv, Unrepaired
  <2>2. \A i \in DOMAIN reply : reply[i].is \in {"mark", "alt", "raw", "word"} /\ reply[i] \in XPieces(Keys)
    BY <1>3, <1>9 DEF Clear, Forms
  <2>3. /\ DOMAIN text = DOMAIN reply
        /\ \A i \in DOMAIN reply :
             IF reply[i].name \in Keys THEN text[i] = Mark(reply[i].name)
             ELSE text[i] = reply[i] /\ reply[i].is = "word"
    BY <1>2, <2>1, <2>2, FormIs DEF InForm, Mark
  <2>4. \A i \in DOMAIN text : text[i].is # "escaped"
    BY <2>3 DEF Mark, Piece
  <2>5. \A i \in DOMAIN reply :
          Back(text[i]) = IF reply[i].name \in Keys THEN Piece("raw", reply[i].name) ELSE reply[i]
    <3>. TAKE i \in DOMAIN reply
    <3>1. CASE reply[i].name \in Keys
      <4>1. text[i].is = "mark" /\ text[i].name = reply[i].name
        BY <2>3, <3>1 DEF Mark, Piece
      <4>. QED  BY <3>1, <4>1 DEF Back, Raw
    <3>2. CASE reply[i].name \notin Keys
      <4>1. text[i] = reply[i] /\ text[i].is = "word"
        BY <2>3, <3>2
      <4>. QED  BY <3>2, <4>1 DEF Back
    <3>. QED  BY <3>1, <3>2
  <2>6. now = InForm(reply, "raw")
    BY <1>4, <2>3, <2>4, <2>5 DEF InForm
  <2>7. text' = InForm(reply, "raw")'
    BY <1>1, <2>6 DEF InForm, Keys
  <2>. QED  BY <1>1, <2>1, <2>7 DEF Unrepaired
<1>10. Clear' = Clear /\ EchoSeen'
  <2>1. EchoSeen
    BY <1>1 DEF RepairInv
  <2>. QED  BY <1>1, <1>5, <2>1 DEF Clear, Forms, EchoSeen
<1>11. text' \in Seq(XPieces(Keys')) /\ reply' \in Seq(XPieces(Keys'))
  BY <1>1, <1>3, <1>4, <1>5
<1>12. job' \in Jobs /\ shield' = XShield'
  BY <1>1, <1>5 DEF RepairInv
<1>. QED  BY <1>1, <1>6, <1>8, <1>9, <1>10, <1>11, <1>12 DEF RepairInv, Stages

(* Every step keeps RepairInv.                                             *)
LEMMA RepairStep == RepairInv /\ [RepairNext]_rvars => RepairInv'
<1>. SUFFICES ASSUME RepairInv, [RepairNext]_rvars
              PROVE  RepairInv'
  OBVIOUS
<1>1. CASE Xliff
  <2>1. CASE Shield
    BY <1>1, <2>1, ShieldStep
  <2>2. CASE Reply
    BY <1>1, <2>2, ReplyStep
  <2>3. CASE Restore
    BY <1>1, <2>3, RestoreStep
  <2>4. CASE Clean
    BY <1>1, <2>4, CleanStep
  <2>5. CASE Align
    BY <1>1, <2>5, AlignStep
  <2>6. CASE FallBack
    BY <1>1, <2>6, FallBackStep
  <2>7. CASE Write
    BY <1>1, <2>7, WriteStep
  <2>8. CASE Gate
    BY <1>1, <2>8, GateStep
  <2>9. CASE UNCHANGED rvars
    <3>1. Keys' = Keys /\ Xliff' = Xliff /\ XShield' = XShield
      BY <2>9 DEF rvars, Keys, Xliff, XShield
    <3>2. Clear' = Clear /\ Unrepaired' = Unrepaired /\ EchoSeen' = EchoSeen
      BY <2>9, <3>1 DEF rvars, Clear, Forms, Unrepaired, InForm, EchoSeen
    <3>3. (\A k \in Keys : Present(k))' = (\A k \in Keys : Present(k))
      BY <2>9, <3>1 DEF rvars, Present
    <3>4. NoPlaceholderShips' = NoPlaceholderShips /\ LostOnlyInShadow' = LostOnlyInShadow
      BY <2>9, <3>1 DEF rvars, NoPlaceholderShips, LostOnlyInShadow, Done
    <3>. QED  BY <2>9, <3>1, <3>2, <3>3, <3>4 DEF rvars, RepairInv
  <2>. QED  BY <2>1, <2>2, <2>3, <2>4, <2>5, <2>6, <2>7, <2>8, <2>9 DEF RepairNext
<1>2. CASE ~ Xliff
  <2>1. UNCHANGED job
    BY DEF RepairNext, rvars, Shield, Reply, Restore, Clean, Align, FallBack, Write, Gate, Keep
  <2>2. stage' \in Stages
    BY DEF RepairNext, rvars, Shield, Reply, Restore, Clean, Align, FallBack, Write, Gate,
           Step, Next4, Stages, RepairInv
  <2>. QED  BY <1>2, <2>1, <2>2 DEF RepairInv, Xliff
<1>. QED  BY <1>1, <1>2

(* The inductive invariant of a text on its way: for any jobs whose XLIFF  *)
(* sources consist of words and numbered tags of the three kinds.          *)
THEOREM RepairInvariance == RepairSpec => []RepairInv
<1>1. RepairInit => RepairInv
  <2>. SUFFICES ASSUME RepairInit
                PROVE  RepairInv
    OBVIOUS
  <2>1. reply = <<>> /\ text = <<>> /\ told = {} /\ stage = "new" /\ job \in Jobs
    BY DEF RepairInit
  <2>2. Unrepaired /\ NoPlaceholderShips /\ LostOnlyInShadow
    BY <2>1 DEF Unrepaired, NoPlaceholderShips, LostOnlyInShadow, Done
  <2>. QED  BY <2>1, <2>2 DEF RepairInv, Stages
<1>. QED  BY <1>1, RepairStep, PTL DEF RepairSpec

(* No placeholder of a known tag reaches the XLIFF file, although level 1  *)
(* turns tags back into placeholders after they were restored.             *)
THEOREM PlaceholdersNeverShip == RepairSpec => []NoPlaceholderShips
<1>1. RepairInv => NoPlaceholderShips
  BY DEF RepairInv, NoPlaceholderShips
<1>. QED  BY <1>1, RepairInvariance, PTL

(* Whatever the model did to the tags of a unit, the only ones the written *)
(* target can lack are those whose key is part of another key.             *)
THEOREM TagsSurvive == RepairSpec => []LostOnlyInShadow
<1>1. RepairInv => LostOnlyInShadow
  BY DEF RepairInv, LostOnlyInShadow
<1>. QED  BY <1>1, RepairInvariance, PTL

(* A piece that is not wide is its own folding.                            *)
LEMMA Narrow ==
  ASSUME NEW p, NEW form, NEW name, NEW w \in BOOLEAN, p = [is |-> form, name |-> name, wide |-> w]
  PROVE  [p EXCEPT !.wide = w] = p
OBVIOUS

(* An answer that holds every tag of its unit once ships as it is, with    *)
(* its tags for their placeholders, and no repair is reported.             *)
THEOREM FaithfulUnitsShip == RepairSpec => [](Xliff => FaithfulShips)
<1>1. ASSUME RepairInv, Xliff, Done, Faithful
      PROVE  /\ Folded(text) = Turned(reply, LAMBDA p : IF p.name \in Keys THEN shield.value[p.name] ELSE <<p>>)
             /\ ~ \E n \in told : n.is = "appended" \/ n = Warning("missing_shields")
  <2>1. Known /\ reply \in Seq(XPieces(Keys)) /\ text \in Seq(XPieces(Keys))
    BY <1>1, IsKnown DEF Done, RepairInv
  <2>2. ASSUME NEW k \in Keys
        PROVE  \E i \in DOMAIN reply : reply[i].name = k
    <3>1. {i \in DOMAIN reply : reply[i].name = k} # {}
      BY <1>1, FS_EmptySet DEF Faithful
    <3>. QED  BY <3>1
  <2>3. Clear
    BY <1>1, <2>2 DEF Clear, Faithful
  <2>4. /\ text = InForm(reply, "raw")
        /\ \A n \in told : n.is # "appended" /\ n # Warning("missing_shields")
    BY <1>1, <2>3 DEF RepairInv, Unrepaired, Done
  <2>5. Folded(text) = text
    <3>1. \A p \in XPieces(Keys) : [p EXCEPT !.wide = FALSE] = p
      <4>. TAKE p \in XPieces(Keys)
      <4>1. CASE p.is = "word"
        <5>1. PICK w : p = Word(w)
          BY <4>1 DEF XPieces
        <5>2. p = [is |-> "word", name |-> Name(w, 0), wide |-> FALSE]
          BY <5>1 DEF Word, Piece
        <5>. QED  BY <5>2, Narrow
      <4>2. CASE p.is # "word"
        <5>1. p = [is |-> p.is, name |-> p.name, wide |-> FALSE]
          BY <2>1, <4>2, PieceFacts DEF Known, Piece
        <5>. QED  BY <5>1, Narrow
      <4>. QED  BY <4>1, <4>2
    <3>2. \A i \in DOMAIN text : [text[i] EXCEPT !.wide = FALSE] = text[i]
      BY <2>1, <3>1
    <3>3. text = [i \in DOMAIN text |-> text[i]]
      BY <2>1
    <3>. QED  BY <3>2, <3>3 DEF Folded
  <2>6. \A i \in DOMAIN reply : (IF reply[i].name \in Keys THEN shield.value[reply[i].name] ELSE <<reply[i]>>)
                                  = <<text[i]>>
    BY <2>1, <2>4 DEF InForm, Known, Raw
  <2>7. DOMAIN text = DOMAIN reply
    BY <2>4 DEF InForm
  <2>8. Turned(reply, LAMBDA p : IF p.name \in Keys THEN shield.value[p.name] ELSE <<p>>)
          = FlattenSeq([i \in DOMAIN text |-> <<text[i]>>])
    BY <2>6, <2>7 DEF Turned
  <2>9. FlattenSeq([i \in DOMAIN text |-> <<text[i]>>]) = text
    BY <2>1, FlattenSingles
  <2>. QED  BY <2>4, <2>5, <2>8, <2>9
<1>2. RepairInv => (Xliff => FaithfulShips)
  BY <1>1 DEF FaithfulShips
<1>. QED  BY <1>2, RepairInvariance, PTL

(* A unit whose text the model gave back as it was sent is reported as a   *)
(* copy of its source, if the source has text in its language's script.    *)
THEOREM EchoedUnitsAreTold == RepairSpec => [](Xliff => EchoIsTold)
<1>1. RepairInv => (Xliff => EchoIsTold)
  BY DEF RepairInv, EchoIsTold, EchoSeen, Done
<1>. QED  BY <1>1, RepairInvariance, PTL

-----------------------------------------------------------------------------
(* A piece stands in a text once.                                          *)
Once(t, p) == \E i \in DOMAIN t : \A j \in DOMAIN t : t[j] = p <=> j = i

(* Standing once is being counted as one.                                  *)
LEMMA OnceIsCounted ==
  ASSUME NEW t, NEW p
  PROVE  Once(t, p) => Count(t, p) = 1
<1>1. ASSUME NEW i \in DOMAIN t, \A j \in DOMAIN t : t[j] = p <=> j = i
      PROVE  {j \in DOMAIN t : t[j] = p} = {i}
  BY <1>1
<1>. QED  BY <1>1, FS_Singleton DEF Once, Count

(* In a finite text, what is counted as one stands once.                   *)
LEMMA CountedIsOnce ==
  ASSUME NEW t, NEW p, IsFiniteSet(DOMAIN t), Count(t, p) = 1
  PROVE  Once(t, p)
<1>. DEFINE places == {j \in DOMAIN t : t[j] = p}
<1>1. IsFiniteSet(places) /\ Cardinality(places) = 1
  BY FS_Subset DEF Count
<1>. HIDE DEF places
<1>2. PICK i : places = {i}
  BY <1>1, FS_Singleton
<1>. QED  BY <1>2 DEF places, Once

(* What stands once in one part of a text and not in the other.            *)
LEMMA OnceConcat ==
  ASSUME NEW S, NEW a \in Seq(S), NEW b \in Seq(S), NEW p
  PROVE  /\ Once(a, p) /\ p \notin ToSet(b) => Once(a \o b, p)
         /\ p \notin ToSet(a) /\ Once(b, p) => Once(a \o b, p)
<1>. DEFINE c == a \o b
<1>1. /\ Len(a) \in Nat /\ Len(b) \in Nat /\ Len(c) = Len(a) + Len(b)
      /\ DOMAIN a = 1 .. Len(a) /\ DOMAIN b = 1 .. Len(b) /\ DOMAIN c = 1 .. Len(a) + Len(b)
      /\ \A i \in 1 .. Len(a) + Len(b) : c[i] = IF i <= Len(a) THEN a[i] ELSE b[i - Len(a)]
  BY ConcatProperties
<1>. HIDE DEF c
<1>2. ASSUME NEW j \in DOMAIN c
      PROVE  /\ j \in DOMAIN a => c[j] = a[j]
             /\ j \notin DOMAIN a => j - Len(a) \in DOMAIN b /\ c[j] = b[j - Len(a)]
  BY <1>1
<1>3. ASSUME NEW i \in DOMAIN a, \A j \in DOMAIN a : a[j] = p <=> j = i, p \notin ToSet(b)
      PROVE  Once(c, p)
  <2>1. i \in DOMAIN c
    BY <1>1
  <2>2. \A j \in DOMAIN b : b[j] # p
    BY <1>3 DEF ToSet
  <2>3. \A j \in DOMAIN c : c[j] = p <=> j = i
    BY <1>2, <1>3, <2>2
  <2>. QED  BY <2>1, <2>3 DEF Once
<1>4. ASSUME NEW i \in DOMAIN b, \A j \in DOMAIN b : b[j] = p <=> j = i, p \notin ToSet(a)
      PROVE  Once(c, p)
  <2>1. i + Len(a) \in DOMAIN c /\ i + Len(a) \notin DOMAIN a /\ (i + Len(a)) - Len(a) = i
    BY <1>1
  <2>2. \A j \in DOMAIN a : a[j] # p
    BY <1>4 DEF ToSet
  <2>3. ASSUME NEW j \in DOMAIN c
        PROVE  c[j] = p <=> j = i + Len(a)
    <3>1. CASE j \in DOMAIN a
      BY <1>2, <2>1, <2>2, <3>1
    <3>2. CASE j \notin DOMAIN a
      <4>1. c[j] = p <=> j - Len(a) = i
        BY <1>2, <1>4, <3>2
      <4>2. j - Len(a) = i <=> j = i + Len(a)
        BY <1>1
      <4>. QED  BY <4>1, <4>2
    <3>. QED  BY <3>1, <3>2
  <2>. QED  BY <2>1, <2>3 DEF Once
<1>. QED  BY <1>3, <1>4 DEF Once, c

(* What stands once in one of the flattened sequences.                     *)
LEMMA OnceFlattened ==
  ASSUME NEW S, NEW s \in Seq(Seq(S)), NEW m \in DOMAIN s, NEW p, Once(s[m], p),
         \A j \in DOMAIN s : j # m => p \notin ToSet(s[j])
  PROVE  Once(FlattenSeq(s), p)
<1>1. Len(s) \in Nat /\ Len(s) > 0 /\ DOMAIN s = 1 .. Len(s) /\ m \in 1 .. Len(s)
  OBVIOUS
<1>2. PICK f : /\ f = [i \in 1 .. Len(s) |-> IF i = 1 THEN s[i] ELSE f[i - 1] \o s[i]]
               /\ FlattenSeq(s) = f[Len(s)]
  <2>1. s # <<>>
    BY <1>1
  <2>. QED  BY <2>1, Flattens
<1>3. \A i \in 1 .. Len(s) : f[i] = IF i = 1 THEN s[i] ELSE f[i - 1] \o s[i]
  BY <1>2
<1>4. \A i \in 1 .. Len(s) : s[i] \in Seq(S)
  BY <1>1
<1>. DEFINE good == {n \in 1 .. Len(s) :
                      f[n] \in Seq(S) /\ (IF n < m THEN p \notin ToSet(f[n]) ELSE Once(f[n], p))}
<1>5. 1 \in good
  <2>1. 1 \in 1 .. Len(s) /\ f[1] = s[1]
    BY <1>1, <1>3
  <2>2. 1 < m \/ 1 = m
    BY <1>1
  <2>. QED  BY <1>1, <1>4, <2>1, <2>2
<1>6. ASSUME NEW n \in good, n < Len(s)
      PROVE  n + 1 \in good
  <2>1. /\ n + 1 \in 1 .. Len(s) /\ n \in 1 .. Len(s) /\ n + 1 # 1 /\ (n + 1) - 1 = n
        /\ f[n] \in Seq(S)
    BY <1>1, <1>6
  <2>2. f[n + 1] = f[n] \o s[n + 1] /\ s[n + 1] \in Seq(S)
    BY <1>3, <1>4, <2>1
  <2>3. f[n + 1] \in Seq(S) /\ ToSet(f[n + 1]) = ToSet(f[n]) \cup ToSet(s[n + 1])
    BY <2>1, <2>2, ConcatSet
  <2>4. CASE n + 1 < m
    <3>1. p \notin ToSet(f[n]) /\ p \notin ToSet(s[n + 1])
      BY <1>1, <1>6, <2>1, <2>4
    <3>. QED  BY <2>1, <2>3, <2>4, <3>1
  <2>5. CASE n + 1 = m
    <3>1. p \notin ToSet(f[n]) /\ Once(s[n + 1], p)
      BY <1>1, <1>6, <2>1, <2>5
    <3>2. Once(f[n + 1], p)
      BY <2>1, <2>2, <3>1, OnceConcat
    <3>. QED  BY <2>1, <2>3, <2>5, <3>2
  <2>6. CASE n + 1 > m
    <3>1. Once(f[n], p) /\ p \notin ToSet(s[n + 1])
      BY <1>1, <1>6, <2>1, <2>6
    <3>2. Once(f[n + 1], p)
      BY <2>1, <2>2, <3>1, OnceConcat
    <3>. QED  BY <1>1, <2>1, <2>3, <2>6, <3>2
  <2>. QED  BY <1>1, <2>1, <2>4, <2>5, <2>6
<1>7. Len(s) \in good
  <2>. HIDE DEF good
  <2>1. 1 .. Len(s) \subseteq good
    BY <1>1, <1>5, <1>6, UpTo
  <2>. QED  BY <1>1, <2>1
<1>8. ~ (Len(s) < m)
  BY <1>1
<1>. QED  BY <1>2, <1>7, <1>8

(* A sequence of texts of one piece or none.                               *)
LEMMA SingleParts ==
  ASSUME NEW S, NEW t \in Seq(S), NEW s, DOMAIN s = DOMAIN t,
         \A i \in DOMAIN t : s[i] = <<>> \/ \E p \in S : s[i] = <<p>>,
         s = [i \in DOMAIN s |-> s[i]]
  PROVE  s \in Seq(Seq(S)) /\ Len(s) = Len(t)
<1>1. Len(t) \in Nat /\ DOMAIN t = 1 .. Len(t)
  OBVIOUS
<1>2. \A i \in DOMAIN t : s[i] \in Seq(S)
  <2>1. <<>> \in Seq(S) /\ \A p \in S : <<p>> \in Seq(S)
    OBVIOUS
  <2>. QED  BY <2>1, Zenon
<1>3. s \in [1 .. Len(t) -> Seq(S)]
  BY <1>1, <1>2
<1>. QED  BY <1>1, <1>3, SeqDef

(* One piece of a text put in for another.                                 *)
InPlace(s, i, x) == SubSeq(s, 1, i - 1) \o <<x>> \o SubSeq(s, i + 1, Len(s))

(* All other pieces stay where they are.                                   *)
LEMMA PutInPlace ==
  ASSUME NEW S, NEW s \in Seq(S), NEW i \in 1 .. Len(s), NEW x \in S
  PROVE  /\ InPlace(s, i, x) \in Seq(S) /\ Len(InPlace(s, i, x)) = Len(s)
         /\ InPlace(s, i, x)[i] = x
         /\ \A j \in 1 .. Len(s) : j # i => InPlace(s, i, x)[j] = s[j]
<1>. DEFINE a == SubSeq(s, 1, i - 1)
            b == SubSeq(s, i + 1, Len(s))
<1>1. Len(s) \in Nat /\ i \in Nat /\ 1 <= i /\ i <= Len(s) /\ DOMAIN s = 1 .. Len(s)
  OBVIOUS
<1>2. /\ a \in Seq(S) /\ Len(a) = i - 1
      /\ \A j \in 1 .. i - 1 : a[j] = s[j]
  BY <1>1
<1>3. /\ b \in Seq(S) /\ Len(b) = Len(s) - i
      /\ \A j \in 1 .. Len(s) - i : b[j] = s[i + j]
  BY RestFacts
<1>. HIDE DEF a, b
<1>4. <<x>> \in Seq(S) /\ Len(<<x>>) = 1 /\ <<x>>[1] = x
  OBVIOUS
<1>. DEFINE c == a \o <<x>>
            d == c \o b
<1>5. /\ c \in Seq(S) /\ Len(c) = i
      /\ \A j \in 1 .. i : c[j] = IF j <= i - 1 THEN a[j] ELSE x
  <2>1. /\ c \in Seq(S) /\ Len(c) = Len(a) + Len(<<x>>)
        /\ \A j \in 1 .. Len(a) + Len(<<x>>) : c[j] = IF j <= Len(a) THEN a[j] ELSE <<x>>[j - Len(a)]
    BY <1>2, <1>4, ConcatProperties
  <2>2. Len(a) + Len(<<x>>) = i /\ \A j \in 1 .. i : ~ (j <= i - 1) => j - Len(a) = 1
    BY <1>1, <1>2, <1>4
  <2>. HIDE DEF c
  <2>. QED  BY <1>2, <1>4, <2>1, <2>2
<1>. HIDE DEF c
<1>6. /\ d \in Seq(S) /\ Len(d) = Len(s)
      /\ \A j \in 1 .. Len(s) : d[j] = IF j <= i THEN c[j] ELSE b[j - i]
  <2>1. /\ d \in Seq(S) /\ Len(d) = Len(c) + Len(b)
        /\ \A j \in 1 .. Len(c) + Len(b) : d[j] = IF j <= Len(c) THEN c[j] ELSE b[j - Len(c)]
    BY <1>3, <1>5, ConcatProperties
  <2>2. Len(c) + Len(b) = Len(s)
    BY <1>1, <1>3, <1>5
  <2>. HIDE DEF d
  <2>. QED  BY <1>5, <2>1, <2>2
<1>. HIDE DEF d
<1>7. ASSUME NEW j \in 1 .. Len(s)
      PROVE  d[j] = IF j = i THEN x ELSE s[j]
  <2>1. CASE j < i
    <3>1. j \in 1 .. i /\ j \in 1 .. i - 1 /\ j <= i /\ j <= i - 1 /\ j # i
      BY <1>1, <2>1
    <3>. QED  BY <1>2, <1>5, <1>6, <3>1
  <2>2. CASE j = i
    <3>1. i \in 1 .. i /\ i <= i /\ ~ (i <= i - 1)
      BY <1>1
    <3>. QED  BY <1>5, <1>6, <2>2, <3>1
  <2>3. CASE j > i
    <3>1. j - i \in 1 .. Len(s) - i /\ i + (j - i) = j /\ ~ (j <= i) /\ j # i
      BY <1>1, <2>3
    <3>. QED  BY <1>3, <1>6, <3>1
  <2>. QED  BY <1>1, <2>1, <2>2, <2>3
<1>8. InPlace(s, i, x) = d
  BY DEF InPlace, a, b, c, d
<1>. QED  BY <1>6, <1>7, <1>8

(* An element of a Markdown text, and what the shield keeps as its value.  *)
Elements == [kind : ToSet(MdKinds), id : Nat]
Kept(k) == IF k.kind = "inline_code" THEN Naked(k) ELSE Raw(k)

(* The forms of an element are told apart, and no word is one of them.     *)
LEMMA ElementForms ==
  ASSUME NEW N \in SUBSET Elements, NEW k \in N, NEW j \in N
  PROVE  /\ Kept(k) = Kept(j) => k = j
         /\ Mark(k) = Mark(j) => k = j
         /\ Raw(k) = Raw(j) => k = j
         /\ Kept(k) \notin MdPieces(N) /\ Kept(k) # Mark(j)
         /\ Raw(k) \notin MdPieces(N) /\ Raw(k) # Mark(j)
         /\ Kept(k).name = k /\ Mark(k).name = k
         /\ Kept(k).is \in {"raw", "naked"} /\ (Kept(k).is = "raw" => Kept(k) = Raw(k))
         /\ Kept(k).wide = FALSE
BY DEF Kept, Mark, Raw, Naked, Bare, Bent, Word, Piece, MdPieces

(* The same of one element against all others.                             *)
LEMMA Apart ==
  ASSUME NEW N \in SUBSET Elements, NEW k \in N
  PROVE  \A j \in N : /\ Kept(j) # Mark(k) /\ (Kept(j) = Kept(k) => j = k)
                     /\ Kept(k) # Mark(j) /\ (Mark(j) = Mark(k) => j = k)
BY DEF Kept, Mark, Raw, Naked, Piece

(* No word has the name of an element.                                     *)
LEMMA WordsApart ==
  ASSUME NEW N \in SUBSET Elements, NEW w \in Vocabulary \cup {"instruction"}
  PROVE  Word(w).name \notin N /\ Word(w).is = "word" /\ Word(w).wide = FALSE
BY DEF Word, Piece, Name, Vocabulary, Elements, MdKinds, ToSet

-----------------------------------------------------------------------------
(* A source all of whose elements in D are shielded.                       *)
Marked(src, D) ==
  [i \in DOMAIN src |-> IF src[i].is = "raw" /\ src[i].name \in D THEN Mark(src[i].name) ELSE src[i]]
Distinct(s) == \A i, j \in DOMAIN s : s[i] = s[j] => i = j
Shields(acc, src, N, D) ==
  /\ acc = [text |-> Marked(src, D), keys |-> acc.keys,
            value |-> [k \in N |-> IF k \in D THEN <<Kept(k)>> ELSE <<>>]]
  /\ acc.keys \in Seq(D) /\ Distinct(acc.keys) /\ ToSet(acc.keys) = D

(* A key that is not in a list of keys is added to it.                     *)
LEMMA AppendKey ==
  ASSUME NEW D, NEW s \in Seq(D), Distinct(s), NEW k, k \notin ToSet(s)
  PROVE  /\ Append(s, k) \in Seq(D \cup {k}) /\ Distinct(Append(s, k))
         /\ ToSet(Append(s, k)) = ToSet(s) \cup {k}
<1>. DEFINE u == Append(s, k)
<1>1. /\ Len(s) \in Nat /\ DOMAIN s = 1 .. Len(s)
      /\ \A i \in DOMAIN s : s[i] \in D /\ s[i] # k
  BY DEF ToSet
<1>2. /\ DOMAIN u = 1 .. Len(s) + 1 /\ Len(u) = Len(s) + 1
      /\ \A i \in 1 .. Len(s) : u[i] = s[i]
      /\ u[Len(s) + 1] = k
  BY <1>1
<1>3. u \in Seq(D \cup {k})
  <2>1. s \in Seq(D \cup {k})
    BY <1>1
  <2>. QED  BY <2>1
<1>. HIDE DEF u
<1>4. \A i \in DOMAIN u : i \in DOMAIN s \/ i = Len(s) + 1
  BY <1>1, <1>2
<1>5. Distinct(u)
  BY <1>1, <1>2, <1>4 DEF Distinct
<1>6. ToSet(u) = ToSet(s) \cup {k}
  <2>1. \A i \in DOMAIN s : i \in DOMAIN u /\ u[i] = s[i]
    BY <1>1, <1>2
  <2>2. Len(s) + 1 \in DOMAIN u
    BY <1>1, <1>2
  <2>. QED  BY <1>2, <1>4, <2>1, <2>2 DEF ToSet
<1>. QED  BY <1>3, <1>5, <1>6 DEF u

(* A stretch of one piece.                                                 *)
LEMMA OnePiece ==
  ASSUME NEW S, NEW s \in Seq(S), NEW i \in 1 .. Len(s)
  PROVE  SubSeq(s, i, i) = <<s[i]>>
<1>1. /\ SubSeq(s, i, i) \in Seq(S) /\ Len(SubSeq(s, i, i)) = 1 /\ SubSeq(s, i, i)[1] = s[i]
  OBVIOUS
<1>2. <<s[i]>> \in Seq(S) /\ Len(<<s[i]>>) = 1 /\ <<s[i]>>[1] = s[i]
  OBVIOUS
<1>3. \A j \in 1 .. 1 : SubSeq(s, i, i)[j] = <<s[i]>>[j]
  BY <1>1, <1>2
<1>. QED  BY <1>1, <1>2, <1>3, SeqEqual

(* shield_markdown, one element of a text without nesting.                 *)
LEMMA ShieldsOne ==
  ASSUME NEW N \in SUBSET Elements, NEW src \in Seq({Raw(k) : k \in N} \cup {Word(w) : w \in Vocabulary}),
         \A k \in N : Once(src, Raw(k)),
         NEW inside, DOMAIN inside = N, \A k \in N : inside[k] = 0,
         NEW D \in SUBSET N, NEW acc, Shields(acc, src, N, D), NEW k \in N
  PROVE  Shields(Shielding(inside, acc, k), src, N, D \cup {k})
<1>. DEFINE P == {Raw(j) : j \in N} \cup {Mark(j) : j \in N} \cup {Word(w) : w \in Vocabulary}
            t == Marked(src, D)
            n == Len(src)
<1>1. n \in Nat /\ DOMAIN src = 1 .. n
      /\ \A i \in DOMAIN src : src[i] \in {Raw(j) : j \in N} \cup {Word(w) : w \in Vocabulary}
  OBVIOUS
<1>2. ASSUME NEW i \in DOMAIN src
      PROVE  \/ src[i].is = "raw" /\ src[i].name \in N /\ src[i] = Raw(src[i].name)
             \/ src[i].is = "word" /\ src[i] \in {Word(w) : w \in Vocabulary}
  BY <1>1 DEF Raw, Word, Piece
<1>3. DOMAIN t = 1 .. n /\ t = [i \in DOMAIN t |-> t[i]]
      /\ \A i \in DOMAIN src :
           t[i] = IF src[i].is = "raw" /\ src[i].name \in D THEN Mark(src[i].name) ELSE src[i]
  BY <1>1 DEF Marked
<1>. HIDE DEF t
<1>4. t \in Seq(P) /\ Len(t) = n
  <2>1. \A i \in 1 .. n : t[i] \in P
    BY <1>1, <1>2, <1>3
  <2>2. t \in [1 .. n -> P]
    BY <1>3, <2>1
  <2>. QED  BY <1>1, <2>2, SeqDef
<1>5. acc.text = t
  BY DEF Shields, t
<1>6. ASSUME NEW i \in DOMAIN src
      PROVE  t[i] = Raw(k) <=> src[i] = Raw(k) /\ k \notin D
  <2>1. \A j \in N : Mark(j) # Raw(k) /\ Raw(j).is = "raw" /\ Raw(j).name = j
    BY DEF Mark, Raw, Piece
  <2>. QED  BY <1>2, <1>3, <2>1
<1>7. PICK i \in 1 .. n : \A j \in DOMAIN src : src[j] = Raw(k) <=> j = i
  BY <1>1 DEF Once
<1>8. Held(t, Raw(k)) <=> k \notin D
  BY <1>1, <1>3, <1>4, <1>6, <1>7 DEF Held, Contains
<1>9. CASE k \in D
  <2>1. Shielding(inside, acc, k) = acc
    BY <1>5, <1>8, <1>9 DEF Shielding
  <2>2. D \cup {k} = D
    BY <1>9
  <2>. QED  BY <2>1, <2>2
<1>10. CASE k \notin D
  <2>. DEFINE new == Shielding(inside, acc, k)
              first == SelectInSeq(t, LAMBDA p : p = Raw(k))
              E == D \cup {k}
  <2>1. {j \in 1 .. Len(t) : t[j] = Raw(k)} = {i}
    BY <1>1, <1>4, <1>6, <1>7, <1>10
  <2>2. first = i
    <3>1. Min({i}) = i
      BY <1>1, <1>7 DEF Min
    <3>. QED  BY <2>1, <3>1 DEF SelectInSeq
  <2>. HIDE DEF first
  <2>3. i + inside[k] = i /\ i \in 1 .. Len(t)
    BY <1>1, <1>4
  <2>4. new = [text |-> SubSeq(t, 1, i - 1) \o <<Mark(k)>> \o SubSeq(t, i + 1, Len(t)),
               keys |-> Append(acc.keys, k),
               value |-> [acc.value EXCEPT ![k] =
                            IF k.kind = "inline_code" THEN <<Naked(k)>> ELSE SubSeq(t, i, i)]]
    BY <1>5, <1>8, <1>10, <2>2, <2>3 DEF Shielding, first
  <2>5. SubSeq(t, i, i) = <<Raw(k)>>
    <3>1. t[i] = Raw(k)
      BY <1>6, <1>7, <1>10
    <3>. HIDE DEF P
    <3>. QED  BY <1>4, <2>3, <3>1, OnePiece
  <2>. DEFINE u == InPlace(t, i, Mark(k))
  <2>6. u \in Seq(P) /\ Len(u) = n /\ \A j \in 1 .. n : u[j] = IF j = i THEN Mark(k) ELSE t[j]
    <3>1. Mark(k) \in P
      OBVIOUS
    <3>. HIDE DEF P, n
    <3>2. t \in Seq(P) /\ i \in 1 .. Len(t)
      BY <1>4, <2>3
    <3>3. /\ u \in Seq(P) /\ Len(u) = Len(t)
          /\ u[i] = Mark(k) /\ \A j \in 1 .. Len(t) : j # i => u[j] = t[j]
      BY <3>1, <3>2, PutInPlace
    <3>. QED  BY <1>4, <3>3
  <2>. HIDE DEF u
  <2>7. u = Marked(src, E)
    <3>1. ASSUME NEW j \in DOMAIN src
          PROVE  u[j] = IF src[j].is = "raw" /\ src[j].name \in E THEN Mark(src[j].name) ELSE src[j]
      <4>1. CASE j = i
        <5>1. src[j] = Raw(k) /\ Raw(k).is = "raw" /\ Raw(k).name = k
          BY <1>7, <4>1 DEF Raw, Piece
        <5>. QED  BY <1>1, <2>6, <4>1, <5>1
      <4>2. CASE j # i
        <5>1. src[j].is = "raw" => src[j].name # k
          BY <1>2, <1>7, <4>2
        <5>2. u[j] = t[j]
          BY <1>1, <2>6, <4>2
        <5>. QED  BY <1>3, <5>1, <5>2
      <4>. QED  BY <4>1, <4>2
    <3>2. u = [j \in DOMAIN src |-> u[j]]
      BY <1>1, <2>6
    <3>. QED  BY <3>1, <3>2 DEF Marked
  <2>8. [acc.value EXCEPT ![k] = IF k.kind = "inline_code" THEN <<Naked(k)>> ELSE SubSeq(t, i, i)]
          = [j \in N |-> IF j \in E THEN <<Kept(j)>> ELSE <<>>]
    <3>1. acc.value = [j \in N |-> IF j \in D THEN <<Kept(j)>> ELSE <<>>]
      BY DEF Shields
    <3>2. (IF k.kind = "inline_code" THEN <<Naked(k)>> ELSE SubSeq(t, i, i)) = <<Kept(k)>>
      BY <2>5 DEF Kept
    <3>. HIDE DEF P
    <3>. QED  BY <3>1, <3>2
  <2>9. new = [text |-> Marked(src, E), keys |-> Append(acc.keys, k),
               value |-> [j \in N |-> IF j \in E THEN <<Kept(j)>> ELSE <<>>]]
    BY <2>4, <2>7, <2>8 DEF u, InPlace
  <2>10. /\ Append(acc.keys, k) \in Seq(E) /\ Distinct(Append(acc.keys, k))
         /\ ToSet(Append(acc.keys, k)) = E
    BY <1>10, AppendKey DEF Shields
  <2>. HIDE DEF new, E
  <2>. QED  BY <2>9, <2>10 DEF Shields, new, E
<1>. QED  BY <1>9, <1>10

(* Counting up from 0 comes to every number.                               *)
LEMMA FromZero ==
  ASSUME NEW S, NEW n \in Nat, 0 \in S, \A i \in S : i < n => i + 1 \in S
  PROVE  n \in S
<1>1. n > 0 => 1 \in S
  BY 0 + 1 = 1
<1>2. 1 .. n \subseteq S
  BY <1>1, UpTo
<1>. QED  BY <1>2

(* shield_markdown, the texts after each of the elements.                  *)
ShieldTurns(f, src, inside, order, L) ==
  /\ f = [n \in 0 .. L |->
            IF n = 0 THEN [text |-> src, keys |-> <<>>, value |-> [k \in DOMAIN inside |-> <<>>]]
            ELSE Shielding(inside, f[n - 1], order[n])]
  /\ MdShielded(src, inside) = f[L]

(* shield_markdown computes what its recursive definition says.            *)
LEMMA ShieldsInTurn ==
  ASSUME NEW src, NEW inside, NEW order, order = KeyOrder(src, MdKinds), NEW L \in Nat, Len(order) = L
  PROVE  \E f : ShieldTurns(f, src, inside, order, L)
<1>. DEFINE base == [text |-> src, keys |-> <<>>, value |-> [k \in DOMAIN inside |-> <<>>]]
            After(n, acc) == IF n = 0 THEN base ELSE Shielding(inside, acc, order[n])
            Is(f, m) == f = [n \in 0 .. m |-> After(n, f[n - 1])]
            can == {m \in 0 .. L : \E f : Is(f, m)}
<1>. HIDE DEF After
<1>1. ASSUME NEW m, NEW f, f = [n \in 0 .. m |-> f[n]], \A n \in 0 .. m : f[n] = After(n, f[n - 1])
      PROVE  Is(f, m)
  BY <1>1
<1>2. 0 \in can
  <2>1. PICK z : z = 0
    OBVIOUS
  <2>. DEFINE f == [n \in 0 .. z |-> base]
  <2>2. \A n \in 0 .. z : f[n] = After(n, f[n - 1])
    BY <2>1 DEF After
  <2>3. f = [n \in 0 .. z |-> f[n]]
    OBVIOUS
  <2>. HIDE DEF f
  <2>4. Is(f, z)
    BY <1>1, <2>2, <2>3
  <2>5. z \in 0 .. L
    BY <2>1
  <2>. QED  BY <2>1, <2>4, <2>5
<1>3. ASSUME NEW m \in can, m < L
      PROVE  m + 1 \in can
  <2>1. PICK g : Is(g, m)
    OBVIOUS
  <2>2. m \in Nat /\ m + 1 \in 0 .. L
    BY <1>3
  <2>. DEFINE f == [n \in 0 .. m + 1 |-> IF n \in 0 .. m THEN g[n] ELSE After(n, g[m])]
  <2>3. ASSUME NEW n \in 0 .. m + 1
        PROVE  f[n] = After(n, f[n - 1])
    <3>1. CASE n = 0
      <4>1. f[n] = g[n] /\ g[n] = After(n, g[n - 1])
        BY <2>1, <2>2, <3>1
      <4>. QED  BY <3>1, <4>1 DEF After
    <3>2. CASE n \in 1 .. m
      <4>1. n - 1 \in 0 .. m /\ n \in 0 .. m /\ n - 1 \in 0 .. m + 1
        BY <2>2, <3>2
      <4>2. g[n] = After(n, g[n - 1])
        BY <2>1, <4>1
      <4>. QED  BY <4>1, <4>2
    <3>3. CASE n = m + 1
      <4>1. n - 1 = m /\ m \in 0 .. m /\ n \notin 0 .. m /\ m \in 0 .. m + 1
        BY <2>2, <3>3
      <4>2. f[n] = After(n, g[m])
        BY <4>1
      <4>3. f[m] = g[m]
        BY <4>1
      <4>. HIDE DEF f
      <4>. QED  BY <4>1, <4>2, <4>3
    <3>4. n = 0 \/ n \in 1 .. m \/ n = m + 1
      BY <2>2
    <3>. HIDE DEF f
    <3>. QED  BY <3>1, <3>2, <3>3, <3>4
  <2>4. f = [n \in 0 .. m + 1 |-> f[n]]
    OBVIOUS
  <2>. HIDE DEF f
  <2>5. Is(f, m + 1)
    BY <1>1, <2>3, <2>4
  <2>. QED  BY <2>2, <2>5
<1>4. L \in can
  <2>. HIDE DEF can
  <2>. QED  BY <1>2, <1>3, FromZero
<1>5. PICK h : Is(h, L)
  BY <1>4
<1>. DEFINE c == CHOOSE f : Is(f, L)
<1>6. Is(c, L)
  BY <1>5
<1>7. MdShielded(src, inside) = c[L]
  BY DEF MdShielded, After
<1>. QED  BY <1>6, <1>7 DEF After, ShieldTurns

(* shield_markdown, a text without nesting: every element is shielded.     *)
LEMMA ShieldsAll ==
  ASSUME NEW N \in SUBSET Elements, NEW src \in Seq({Raw(k) : k \in N} \cup {Word(w) : w \in Vocabulary}),
         \A k \in N : Once(src, Raw(k)),
         NEW inside, DOMAIN inside = N, \A k \in N : inside[k] = 0
  PROVE  Shields(MdShielded(src, inside), src, N, N)
<1>. DEFINE order == KeyOrder(src, MdKinds)
<1>1. order \in Seq(N) /\ ToSet(order) = N
  <2>1. /\ DOMAIN src = 1 .. Len(src) /\ Len(src) \in Nat
        /\ \A i \in DOMAIN src : src[i] \in {Raw(k) : k \in N} \cup {Word(w) : w \in Vocabulary}
    OBVIOUS
  <2>2. \A i \in DOMAIN src : src[i].is = "raw" => src[i].name \in N /\ src[i].name.kind \in ToSet(MdKinds)
    BY <2>1 DEF Raw, Word, Piece, Elements
  <2>3. PICK n \in Nat : DOMAIN MdKinds = 1 .. n
    <3>1. DOMAIN MdKinds = 1 .. 7
      BY DEF MdKinds
    <3>. QED  BY <3>1
  <2>4. order \in Seq(N) /\ ToSet(order) = {src[i].name : i \in {j \in DOMAIN src : src[j].is = "raw"}}
    BY <2>2, <2>3, OrderFacts
  <2>5. ASSUME NEW k \in N
        PROVE  \E i \in DOMAIN src : src[i].is = "raw" /\ src[i].name = k
    <3>1. PICK i \in DOMAIN src : src[i] = Raw(k)
      BY DEF Once
    <3>. QED  BY <3>1 DEF Raw, Piece
  <2>6. {src[i].name : i \in {j \in DOMAIN src : src[j].is = "raw"}} = N
    BY <2>2, <2>5
  <2>. QED  BY <2>4, <2>6
<1>. HIDE DEF order
<1>2. PICK L \in Nat : L = Len(order) /\ DOMAIN order = 1 .. L
  BY <1>1
<1>3. PICK f : ShieldTurns(f, src, inside, order, L)
  <2>1. order = KeyOrder(src, MdKinds)
    BY DEF order
  <2>2. Len(order) = L
    BY <1>2
  <2>. QED  BY <2>1, <2>2, ShieldsInTurn
<1>4. \A n \in 0 .. L :
        f[n] = IF n = 0 THEN [text |-> src, keys |-> <<>>, value |-> [k \in DOMAIN inside |-> <<>>]]
               ELSE Shielding(inside, f[n - 1], order[n])
  BY <1>3 DEF ShieldTurns
<1>. DEFINE Until(n) == {order[i] : i \in 1 .. n}
            good == {n \in 0 .. L : Shields(f[n], src, N, Until(n))}
<1>5. 0 \in good
  <2>1. Until(0) = {}
    OBVIOUS
  <2>2. f[0] = [text |-> src, keys |-> <<>>, value |-> [k \in DOMAIN inside |-> <<>>]]
    BY <1>4
  <2>3. Marked(src, {}) = src
    BY DEF Marked
  <2>4. [k \in N |-> IF k \in {} THEN <<Kept(k)>> ELSE <<>>] = [k \in DOMAIN inside |-> <<>>]
    OBVIOUS
  <2>5. <<>> \in Seq({}) /\ Distinct(<<>>) /\ ToSet(<<>>) = {}
    BY DEF Distinct, ToSet
  <2>6. Shields(f[0], src, N, {})
    BY <2>2, <2>3, <2>4, <2>5 DEF Shields
  <2>. HIDE DEF Until
  <2>7. Shields(f[0], src, N, Until(0))
    BY <2>1, <2>6
  <2>8. 0 \in 0 .. L
    OBVIOUS
  <2>. QED  BY <2>7, <2>8
<1>6. ASSUME NEW n \in good, n < L
      PROVE  n + 1 \in good
  <2>1. /\ n \in Nat /\ n + 1 \in 0 .. L /\ n + 1 \in 1 .. L /\ n + 1 # 0 /\ (n + 1) - 1 = n
        /\ Shields(f[n], src, N, Until(n))
    BY <1>6
  <2>2. Until(n) \subseteq N /\ order[n + 1] \in N
    <3>1. \A i \in 1 .. L : order[i] \in N
      BY <1>1, <1>2
    <3>2. 1 .. n \subseteq 1 .. L
      BY <2>1
    <3>. QED  BY <2>1, <3>1, <3>2
  <2>3. Until(n + 1) = Until(n) \cup {order[n + 1]}
    <3>1. 1 .. n + 1 = (1 .. n) \cup {n + 1}
      BY <2>1
    <3>. QED  BY <3>1
  <2>. HIDE DEF Until
  <2>4. f[n + 1] = Shielding(inside, f[n], order[n + 1])
    BY <1>4, <2>1
  <2>5. Shields(f[n + 1], src, N, Until(n + 1))
    BY <2>1, <2>2, <2>3, <2>4, ShieldsOne
  <2>. QED  BY <2>1, <2>5
<1>7. L \in good
  <2>. HIDE DEF good
  <2>. QED  BY <1>5, <1>6, FromZero
<1>8. Until(L) = N
  BY <1>1, <1>2 DEF ToSet
<1>. HIDE DEF Until
<1>. QED  BY <1>3, <1>7, <1>8 DEF ShieldTurns

(* The first of a text's pieces m replaced by v, the others gone.          *)
FirstFor(t, m, v) ==
  FlattenSeq([i \in DOMAIN t |->
    IF t[i] # m THEN <<t[i]>> ELSE IF \A j \in 1 .. i - 1 : t[j] # m THEN <<v>> ELSE <<>>])

(* A piece stands once in the text of it alone.                            *)
LEMMA OnceAlone ==
  ASSUME NEW p
  PROVE  Once(<<p>>, p)
<1>1. DOMAIN <<p>> = {1} /\ <<p>>[1] = p
  OBVIOUS
<1>. QED  BY <1>1 DEF Once

(* What FirstFor puts in is there once, and nothing else is disturbed.      *)
LEMMA FirstForFacts ==
  ASSUME NEW S, NEW t \in Seq(S), NEW m, NEW v \in S, v # m, m \in ToSet(t), v \notin ToSet(t)
  PROVE  /\ FirstFor(t, m, v) \in Seq(S)
         /\ ToSet(FirstFor(t, m, v)) = (ToSet(t) \ {m}) \cup {v}
         /\ Once(FirstFor(t, m, v), v)
         /\ \A p \in S \ {m} : Once(t, p) => Once(FirstFor(t, m, v), p)
         /\ Once(t, m) => FirstFor(t, m, v) = [i \in DOMAIN t |-> IF t[i] = m THEN v ELSE t[i]]
<1>. DEFINE First(i) == \A j \in 1 .. i - 1 : t[j] # m
            parts == [i \in DOMAIN t |-> IF t[i] # m THEN <<t[i]>> ELSE IF First(i) THEN <<v>> ELSE <<>>]
            u == FirstFor(t, m, v)
<1>1. Len(t) \in Nat /\ DOMAIN t = 1 .. Len(t) /\ \A i \in DOMAIN t : t[i] \in S
  OBVIOUS
<1>2. u = FlattenSeq(parts)
  BY DEF FirstFor
<1>3. PICK a \in 1 .. Len(t) : t[a] = m /\ First(a)
  <2>. DEFINE places == {i \in DOMAIN t : t[i] = m}
  <2>1. places \subseteq Nat /\ places # {}
    BY <1>1 DEF ToSet
  <2>2. PICK a \in places : \A y \in places : a <= y
    BY <2>1, LeastNatural
  <2>3. First(a)
    <3>1. ASSUME NEW j \in 1 .. a - 1
          PROVE  j \in DOMAIN t /\ ~ (a <= j)
      BY <1>1
    <3>. QED  BY <2>2, <3>1
  <2>. QED  BY <1>1, <2>2, <2>3
<1>4. \A i \in 1 .. Len(t) : t[i] = m /\ First(i) => i = a
  <2>. TAKE i \in 1 .. Len(t)
  <2>1. i < a => ~ (t[i] = m)
    BY <1>3
  <2>2. a < i => ~ First(i)
    BY <1>3
  <2>. QED  BY <2>1, <2>2
<1>5. \A i \in 1 .. Len(t) : parts[i] = IF i = a THEN <<v>> ELSE IF t[i] = m THEN <<>> ELSE <<t[i]>>
  BY <1>1, <1>3, <1>4
<1>6. parts = [i \in DOMAIN parts |-> parts[i]] /\ DOMAIN parts = DOMAIN t
  OBVIOUS
<1>. HIDE DEF parts, First, u
<1>7. parts \in Seq(Seq(S)) /\ Len(parts) = Len(t)
  <2>1. \A i \in DOMAIN t : parts[i] = <<>> \/ \E p \in S : parts[i] = <<p>>
    BY <1>1, <1>5
  <2>. QED  BY <1>6, <2>1, SingleParts
<1>8. \A i \in 1 .. Len(t) : ToSet(parts[i]) = IF i = a THEN {v} ELSE {t[i]} \ {m}
  <2>1. ToSet(<<v>>) = {v} /\ ToSet(<<>>) = {} /\ \A i \in 1 .. Len(t) : ToSet(<<t[i]>>) = {t[i]}
    BY DEF ToSet
  <2>. QED  BY <1>5, <2>1
<1>9. u \in Seq(S) /\ ToSet(u) = (ToSet(t) \ {m}) \cup {v}
  <2>1. u \in Seq(S) /\ ToSet(u) = UNION {ToSet(parts[i]) : i \in DOMAIN parts}
    BY <1>2, <1>7, FlattenFacts
  <2>2. ASSUME NEW p \in ToSet(u)
        PROVE  p \in (ToSet(t) \ {m}) \cup {v}
    <3>1. PICK i \in 1 .. Len(t) : p \in ToSet(parts[i])
      BY <1>1, <1>6, <2>1
    <3>. QED  BY <1>1, <1>8, <3>1 DEF ToSet
  <2>3. ASSUME NEW p \in ToSet(t) \ {m}
        PROVE  p \in ToSet(u)
    <3>1. PICK i \in 1 .. Len(t) : t[i] = p
      BY <1>1 DEF ToSet
    <3>2. i # a
      BY <1>3, <3>1
    <3>3. p \in ToSet(parts[i])
      BY <1>8, <3>1, <3>2
    <3>. QED  BY <1>1, <1>6, <2>1, <3>3
  <2>4. v \in ToSet(u)
    BY <1>1, <1>6, <1>8, <2>1
  <2>. QED  BY <2>1, <2>2, <2>3, <2>4
<1>10. Once(u, v)
  <2>1. Once(parts[a], v)
    BY <1>5, OnceAlone
  <2>2. \A j \in DOMAIN parts : j # a => v \notin ToSet(parts[j])
    <3>1. \A j \in 1 .. Len(t) : t[j] # v
      BY <1>1 DEF ToSet
    <3>. QED  BY <1>1, <1>6, <1>8, <3>1
  <2>3. a \in DOMAIN parts
    BY <1>1, <1>6
  <2>. QED  BY <1>2, <1>7, <2>1, <2>2, <2>3, OnceFlattened
<1>11. ASSUME NEW p \in S \ {m}, Once(t, p)
       PROVE  Once(u, p)
  <2>1. PICK i \in 1 .. Len(t) : \A j \in DOMAIN t : t[j] = p <=> j = i
    BY <1>1, <1>11 DEF Once
  <2>2. t[i] = p /\ i # a
    BY <1>1, <1>3, <2>1
  <2>3. p # v
    BY <1>1, <2>2 DEF ToSet
  <2>4. Once(parts[i], p)
    BY <1>5, <2>2, OnceAlone
  <2>5. ASSUME NEW j \in 1 .. Len(t), j # i
        PROVE  p \notin ToSet(parts[j])
    BY <1>1, <1>8, <2>1, <2>3, <2>5
  <2>6. \A j \in DOMAIN parts : j # i => p \notin ToSet(parts[j])
    BY <1>1, <1>6, <2>5
  <2>7. i \in DOMAIN parts
    BY <1>1, <1>6
  <2>. QED  BY <1>2, <1>7, <2>4, <2>6, <2>7, OnceFlattened
<1>12. ASSUME Once(t, m)
       PROVE  u = [i \in DOMAIN t |-> IF t[i] = m THEN v ELSE t[i]]
  <2>. DEFINE w == [i \in DOMAIN t |-> IF t[i] = m THEN v ELSE t[i]]
  <2>1. \A i \in 1 .. Len(t) : t[i] = m <=> i = a
    BY <1>1, <1>3, <1>12 DEF Once
  <2>2. \A i \in DOMAIN t : parts[i] = <<w[i]>>
    BY <1>1, <1>5, <2>1
  <2>3. w \in Seq(S) /\ DOMAIN w = DOMAIN t
    <3>1. w \in [1 .. Len(t) -> S]
      BY <1>1
    <3>. QED  BY <1>1, <3>1, SeqDef
  <2>. HIDE DEF w
  <2>4. parts = [i \in DOMAIN w |-> <<w[i]>>]
    BY <1>6, <2>2, <2>3
  <2>5. FlattenSeq([i \in DOMAIN w |-> <<w[i]>>]) = w
    BY <2>3, FlattenSingles
  <2>. QED  BY <1>2, <2>4, <2>5 DEF w
<1>. QED  BY <1>9, <1>10, <1>11, <1>12 DEF u

-----------------------------------------------------------------------------
(* What rebuilding has made of an answer r once the markers of D are dealt *)
(* with.                                                                   *)
Made(N) == MdPieces(N) \cup {Kept(k) : k \in N}
Returned(r, D) == {k \in D : Mark(k) \in ToSet(r)}
Singly(r, N) == \A k \in N : Once(r, Mark(k))
Turning(r, D) ==
  [i \in DOMAIN r |-> IF r[i].is = "mark" /\ r[i].name \in D THEN Kept(r[i].name) ELSE r[i]]
Unshields(acc, r, N, D) ==
  /\ acc = [text |-> acc.text, missing |-> acc.missing]
  /\ acc.text \in Seq(Made(N))
  /\ ToSet(acc.text) = (ToSet(r) \ {Mark(k) : k \in D}) \cup {Kept(k) : k \in Returned(r, D)}
  /\ \A k \in Returned(r, D) : Once(acc.text, Kept(k))
  /\ acc.missing \in Seq(N) /\ Distinct(acc.missing) /\ ToSet(acc.missing) = D \ Returned(r, D)
  /\ Singly(r, N) => acc.text = Turning(r, D)

(* unshield_markdown, one key.                                             *)
LEMMA UnshieldsOne ==
  ASSUME NEW N \in SUBSET Elements, NEW r \in Seq(MdPieces(N)),
         NEW shielded, \A k \in N : shielded.value[k] = <<Kept(k)>>,
         NEW D \in SUBSET N, NEW acc, Unshields(acc, r, N, D), NEW k \in N, k \notin D
  PROVE  Unshields(Unshielding(shielded, acc, k), r, N, D \cup {k})
<1>. DEFINE t == acc.text
            m == Mark(k)
            v == Kept(k)
            E == D \cup {k}
            new == Unshielding(shielded, acc, k)
<1>1. /\ t \in Seq(Made(N))
      /\ ToSet(t) = (ToSet(r) \ {Mark(j) : j \in D}) \cup {Kept(j) : j \in Returned(r, D)}
      /\ \A j \in Returned(r, D) : Once(t, Kept(j))
      /\ Singly(r, N) => t = Turning(r, D)
  BY DEF Unshields
<1>2. acc.missing \in Seq(N) /\ Distinct(acc.missing) /\ ToSet(acc.missing) = D \ Returned(r, D)
  BY DEF Unshields
<1>3. acc = [text |-> t, missing |-> acc.missing]
  BY DEF Unshields
<1>4. \A j \in N : /\ Kept(j) # m /\ (Kept(j) = v => j = k) /\ (Mark(j) = m => j = k)
                   /\ v # Mark(j)
  BY Apart
<1>5. v \in Made(N) /\ v # m /\ v \notin ToSet(r)
  <2>1. v \notin MdPieces(N)
    BY ElementForms
  <2>2. ToSet(r) \subseteq MdPieces(N)
    BY DEF ToSet
  <2>. QED  BY <1>4, <2>1, <2>2 DEF Made
<1>6. Returned(r, D) \subseteq D
  BY DEF Returned
<1>7. v \notin ToSet(t)
  BY <1>1, <1>4, <1>5, <1>6
<1>8. Held(t, m) <=> m \in ToSet(r)
  <2>1. Held(t, m) <=> m \in ToSet(t)
    BY <1>1, HeldIs
  <2>. QED  BY <1>1, <1>4, <1>6, <2>1
<1>9. {Mark(j) : j \in E} = {Mark(j) : j \in D} \cup {m}
  OBVIOUS
<1>10. CASE m \notin ToSet(r)
  <2>1. new = [text |-> t, missing |-> Append(acc.missing, k)]
    BY <1>3, <1>8, <1>10 DEF Unshielding
  <2>2. Returned(r, E) = Returned(r, D)
    BY <1>10 DEF Returned
  <2>3. ToSet(r) \ {Mark(j) : j \in E} = ToSet(r) \ {Mark(j) : j \in D}
    BY <1>9, <1>10
  <2>4. /\ Append(acc.missing, k) \in Seq(N) /\ Distinct(Append(acc.missing, k))
        /\ ToSet(Append(acc.missing, k)) = E \ Returned(r, E)
    <3>1. k \notin ToSet(acc.missing) /\ N \cup {k} = N
      BY <1>2
    <3>2. /\ Append(acc.missing, k) \in Seq(N) /\ Distinct(Append(acc.missing, k))
          /\ ToSet(Append(acc.missing, k)) = ToSet(acc.missing) \cup {k}
      BY <1>2, <3>1, AppendKey
    <3>3. k \notin Returned(r, D)
      BY <1>6
    <3>. QED  BY <1>2, <2>2, <3>2, <3>3
  <2>5. ~ Singly(r, N)
    <3>1. ~ Once(r, m)
      BY <1>10 DEF Once, ToSet
    <3>. QED  BY <3>1 DEF Singly
  <2>. HIDE DEF new, t, E
  <2>6. /\ new.text = t /\ new.missing = Append(acc.missing, k)
        /\ new = [text |-> new.text, missing |-> new.missing]
    BY <2>1
  <2>7. Unshields(new, r, N, E)
    BY <1>1, <2>2, <2>3, <2>4, <2>5, <2>6 DEF Unshields
  <2>. QED  BY <2>7 DEF new, E
<1>11. CASE m \in ToSet(r)
  <2>. DEFINE u == FirstFor(t, m, v)
  <2>1. new = [text |-> u, missing |-> acc.missing]
    <3>1. shielded.value[k] = <<v>>
      OBVIOUS
    <3>2. new = [acc EXCEPT !.text = u]
      BY <1>8, <1>11, <3>1 DEF Unshielding, FirstFor
    <3>. HIDE DEF u, new, t
    <3>. QED  BY <1>3, <3>2
  <2>2. m \in ToSet(t)
    BY <1>1, <1>8, <1>11, HeldIs
  <2>. HIDE DEF t, m, v
  <2>3. /\ u \in Seq(Made(N)) /\ ToSet(u) = (ToSet(t) \ {m}) \cup {v} /\ Once(u, v)
        /\ \A p \in Made(N) \ {m} : Once(t, p) => Once(u, p)
        /\ Once(t, m) => u = [i \in DOMAIN t |-> IF t[i] = m THEN v ELSE t[i]]
    BY <1>1, <1>5, <1>7, <2>2, FirstForFacts
  <2>. HIDE DEF u
  <2>4. Returned(r, E) = Returned(r, D) \cup {k}
    BY <1>11 DEF Returned, m
  <2>5. ToSet(u) = (ToSet(r) \ {Mark(j) : j \in E}) \cup {Kept(j) : j \in Returned(r, E)}
    <3>1. {Kept(j) : j \in Returned(r, E)} = {Kept(j) : j \in Returned(r, D)} \cup {v}
      BY <2>4 DEF v
    <3>2. m \notin {Kept(j) : j \in Returned(r, D)}
      BY <1>4, <1>6 DEF m
    <3>. HIDE DEF E
    <3>. QED  BY <1>1, <1>9, <2>3, <3>1, <3>2
  <2>6. \A j \in Returned(r, E) : Once(u, Kept(j))
    <3>1. ASSUME NEW j \in Returned(r, D)
          PROVE  Once(u, Kept(j))
      <4>1. j \in N /\ Kept(j) # m /\ Once(t, Kept(j))
        BY <1>1, <1>4, <1>6
      <4>2. Kept(j) \in Made(N) \ {m}
        BY <4>1 DEF Made
      <4>. QED  BY <2>3, <4>1, <4>2
    <3>. QED  BY <2>3, <2>4, <3>1 DEF v
  <2>7. acc.missing \in Seq(N) /\ Distinct(acc.missing) /\ ToSet(acc.missing) = E \ Returned(r, E)
    BY <1>2, <1>6, <2>4
  <2>8. ASSUME Singly(r, N)
        PROVE  u = Turning(r, E)
    <3>1. t = Turning(r, D)
      BY <1>1, <2>8
    <3>2. DOMAIN t = DOMAIN r /\ \A i \in DOMAIN r :
            t[i] = IF r[i].is = "mark" /\ r[i].name \in D THEN Kept(r[i].name) ELSE r[i]
      BY <3>1 DEF Turning
    <3>3. \A i \in DOMAIN r : r[i].is = "mark" => r[i].name \in N /\ r[i] = Mark(r[i].name)
      BY DEF MdPieces, Mark, Bare, Bent, Word, Piece
    <3>4. ASSUME NEW i \in DOMAIN r
          PROVE  t[i] = m <=> r[i] = m
      <4>1. CASE r[i].is = "mark" /\ r[i].name \in D
        <5>1. t[i] # m
          BY <1>4, <3>2, <4>1
        <5>2. r[i] # m
          BY <1>4, <3>3, <4>1
        <5>. QED  BY <5>1, <5>2
      <4>2. CASE ~ (r[i].is = "mark" /\ r[i].name \in D)
        BY <3>2, <4>2
      <4>. QED  BY <4>1, <4>2
    <3>5. Once(t, m)
      <4>1. Once(r, m)
        BY <2>8 DEF Singly, m
      <4>. QED  BY <3>2, <3>4, <4>1 DEF Once
    <3>6. ASSUME NEW i \in DOMAIN r
          PROVE  (IF t[i] = m THEN v ELSE t[i])
                   = IF r[i].is = "mark" /\ r[i].name \in E THEN Kept(r[i].name) ELSE r[i]
      <4>1. CASE t[i] = m
        <5>1. r[i] = Mark(k) /\ Mark(k).is = "mark" /\ Mark(k).name = k
          BY <3>4, <4>1 DEF m, Mark, Piece
        <5>. QED  BY <4>1, <5>1 DEF v
      <4>2. CASE t[i] # m
        <5>1. ~ (r[i].is = "mark" /\ r[i].name = k)
          BY <3>3, <3>4, <4>2 DEF m
        <5>. QED  BY <3>2, <4>2, <5>1
      <4>. QED  BY <4>1, <4>2
    <3>7. u = [i \in DOMAIN r |-> IF t[i] = m THEN v ELSE t[i]]
      BY <2>3, <3>2, <3>5
    <3>. QED  BY <3>6, <3>7 DEF Turning
  <2>. HIDE DEF new, E
  <2>9. new.text = u /\ new.missing = acc.missing /\ new = [text |-> new.text, missing |-> new.missing]
    BY <2>1
  <2>10. Unshields(new, r, N, E)
    BY <2>3, <2>5, <2>6, <2>7, <2>8, <2>9 DEF Unshields
  <2>. QED  BY <2>10 DEF new, E
<1>. QED  BY <1>10, <1>11

(* unshield_markdown, the texts after each of its keys.                    *)
InTurn(f, shielded, r, L) ==
  /\ f = [n \in 0 .. L |-> IF n = 0 THEN [text |-> r, missing |-> <<>>]
                           ELSE Unshielding(shielded, f[n - 1], shielded.keys[n])]
  /\ Unshielded(shielded, r) =
       Healed(shielded, f[L].text \o IF f[L].missing = <<>> THEN <<>>
                                     ELSE <<Warning("missing_shields")>> \o Values(shielded, f[L].missing))

(* unshield_markdown computes what its recursive definition says.          *)
LEMMA UnshieldsInTurn ==
  ASSUME NEW shielded, NEW r, NEW L \in Nat, Len(shielded.keys) = L
  PROVE  \E f : InTurn(f, shielded, r, L)
<1>. DEFINE base == [text |-> r, missing |-> <<>>]
            After(n, acc) == IF n = 0 THEN base ELSE Unshielding(shielded, acc, shielded.keys[n])
            Is(f, m) == f = [n \in 0 .. m |-> After(n, f[n - 1])]
            can == {m \in 0 .. L : \E f : Is(f, m)}
<1>. HIDE DEF After
<1>1. ASSUME NEW m, NEW f, f = [n \in 0 .. m |-> f[n]], \A n \in 0 .. m : f[n] = After(n, f[n - 1])
      PROVE  Is(f, m)
  BY <1>1
<1>2. 0 \in can
  <2>1. PICK z : z = 0
    OBVIOUS
  <2>. DEFINE f == [n \in 0 .. z |-> base]
  <2>2. \A n \in 0 .. z : f[n] = After(n, f[n - 1])
    BY <2>1 DEF After
  <2>3. f = [n \in 0 .. z |-> f[n]]
    OBVIOUS
  <2>. HIDE DEF f
  <2>4. Is(f, z)
    BY <1>1, <2>2, <2>3
  <2>5. z \in 0 .. L
    BY <2>1
  <2>. QED  BY <2>1, <2>4, <2>5
<1>3. ASSUME NEW m \in can, m < L
      PROVE  m + 1 \in can
  <2>1. PICK g : Is(g, m)
    OBVIOUS
  <2>2. m \in Nat /\ m + 1 \in 0 .. L
    BY <1>3
  <2>. DEFINE f == [n \in 0 .. m + 1 |-> IF n \in 0 .. m THEN g[n] ELSE After(n, g[m])]
  <2>3. ASSUME NEW n \in 0 .. m + 1
        PROVE  f[n] = After(n, f[n - 1])
    <3>1. CASE n = 0
      <4>1. f[n] = g[n] /\ g[n] = After(n, g[n - 1])
        BY <2>1, <2>2, <3>1
      <4>. QED  BY <3>1, <4>1 DEF After
    <3>2. CASE n \in 1 .. m
      <4>1. n - 1 \in 0 .. m /\ n \in 0 .. m /\ n - 1 \in 0 .. m + 1
        BY <2>2, <3>2
      <4>2. g[n] = After(n, g[n - 1])
        BY <2>1, <4>1
      <4>. QED  BY <4>1, <4>2
    <3>3. CASE n = m + 1
      <4>1. n - 1 = m /\ m \in 0 .. m /\ n \notin 0 .. m /\ m \in 0 .. m + 1
        BY <2>2, <3>3
      <4>2. f[n] = After(n, g[m])
        BY <4>1
      <4>3. f[m] = g[m]
        BY <4>1
      <4>. HIDE DEF f
      <4>. QED  BY <4>1, <4>2, <4>3
    <3>4. n = 0 \/ n \in 1 .. m \/ n = m + 1
      BY <2>2
    <3>. HIDE DEF f
    <3>. QED  BY <3>1, <3>2, <3>3, <3>4
  <2>4. f = [n \in 0 .. m + 1 |-> f[n]]
    OBVIOUS
  <2>. HIDE DEF f
  <2>5. Is(f, m + 1)
    BY <1>1, <2>3, <2>4
  <2>. QED  BY <2>2, <2>5
<1>4. L \in can
  <2>. HIDE DEF can
  <2>. QED  BY <1>2, <1>3, FromZero
<1>5. PICK h : Is(h, L)
  BY <1>4
<1>. DEFINE c == CHOOSE f : Is(f, L)
<1>6. Is(c, L)
  BY <1>5
<1>7. Unshielded(shielded, r) =
        Healed(shielded, c[L].text \o IF c[L].missing = <<>> THEN <<>>
                                      ELSE <<Warning("missing_shields")>> \o Values(shielded, c[L].missing))
  BY DEF Unshielded, After
<1>. QED  BY <1>6, <1>7 DEF After, InTurn

(* unshield_markdown, all keys of a text without nesting.                  *)
LEMMA UnshieldsAll ==
  ASSUME NEW N \in SUBSET Elements, NEW r \in Seq(MdPieces(N)),
         NEW shielded, \A k \in N : shielded.value[k] = <<Kept(k)>>,
         shielded.keys \in Seq(N), Distinct(shielded.keys), ToSet(shielded.keys) = N
  PROVE  \E acc :
           /\ Unshields(acc, r, N, N)
           /\ Unshielded(shielded, r) =
                Healed(shielded, acc.text \o IF acc.missing = <<>> THEN <<>>
                                             ELSE <<Warning("missing_shields")>> \o Values(shielded, acc.missing))
<1>. DEFINE keys == shielded.keys
<1>1. PICK L \in Nat : L = Len(keys) /\ DOMAIN keys = 1 .. L
  OBVIOUS
<1>2. PICK f : InTurn(f, shielded, r, L)
  <2>1. Len(shielded.keys) = L
    BY <1>1
  <2>. HIDE DEF keys
  <2>. QED  BY <2>1, UnshieldsInTurn
<1>3. \A n \in 0 .. L :
        f[n] = IF n = 0 THEN [text |-> r, missing |-> <<>>] ELSE Unshielding(shielded, f[n - 1], keys[n])
  BY <1>2 DEF InTurn
<1>4. \A i \in 1 .. L : keys[i] \in N
  BY <1>1
<1>. HIDE DEF keys
<1>. DEFINE Until(n) == {keys[i] : i \in 1 .. n}
            good == {n \in 0 .. L : Unshields(f[n], r, N, Until(n))}
<1>5. 0 \in good
  <2>1. Until(0) = {}
    OBVIOUS
  <2>2. f[0] = [text |-> r, missing |-> <<>>]
    BY <1>3
  <2>3. Returned(r, {}) = {}
    BY DEF Returned
  <2>4. Turning(r, {}) = r
    BY DEF Turning
  <2>5. <<>> \in Seq(N) /\ Distinct(<<>>) /\ ToSet(<<>>) = {}
    BY DEF Distinct, ToSet
  <2>6. r \in Seq(Made(N))
    BY DEF Made
  <2>7. Unshields(f[0], r, N, {})
    BY <2>2, <2>3, <2>4, <2>5, <2>6 DEF Unshields
  <2>. HIDE DEF Until
  <2>8. Unshields(f[0], r, N, Until(0))
    BY <2>1, <2>7
  <2>9. 0 \in 0 .. L
    OBVIOUS
  <2>. QED  BY <2>8, <2>9
<1>6. ASSUME NEW n \in good, n < L
      PROVE  n + 1 \in good
  <2>1. /\ n \in Nat /\ n + 1 \in 0 .. L /\ n + 1 \in 1 .. L /\ n + 1 # 0 /\ (n + 1) - 1 = n
        /\ Unshields(f[n], r, N, Until(n))
    BY <1>6
  <2>2. Until(n) \in SUBSET N /\ keys[n + 1] \in N
    <3>1. 1 .. n \subseteq 1 .. L
      BY <2>1
    <3>. QED  BY <1>4, <2>1, <3>1
  <2>3. Until(n + 1) = Until(n) \cup {keys[n + 1]}
    <3>1. 1 .. n + 1 = (1 .. n) \cup {n + 1}
      BY <2>1
    <3>. QED  BY <3>1
  <2>4. keys[n + 1] \notin Until(n)
    <3>1. \A i \in 1 .. n : i \in DOMAIN keys /\ n + 1 \in DOMAIN keys /\ i # n + 1
      BY <1>1, <2>1
    <3>2. \A i \in 1 .. n : keys[i] # keys[n + 1]
      BY <3>1 DEF Distinct, keys
    <3>. QED  BY <3>2
  <2>. HIDE DEF Until
  <2>5. f[n + 1] = Unshielding(shielded, f[n], keys[n + 1])
    BY <1>3, <2>1
  <2>6. Unshields(f[n + 1], r, N, Until(n + 1))
    BY <2>1, <2>2, <2>3, <2>4, <2>5, UnshieldsOne
  <2>. QED  BY <2>1, <2>6
<1>7. L \in good
  <2>. HIDE DEF good
  <2>. QED  BY <1>5, <1>6, FromZero
<1>8. Until(L) = N
  BY <1>1 DEF ToSet, keys
<1>. HIDE DEF Until
<1>9. Unshields(f[L], r, N, N)
  BY <1>7, <1>8
<1>. QED  BY <1>2, <1>9 DEF InTurn

(* A piece whose punctuation is made full-width and narrow again.          *)
LEMMA Widened ==
  ASSUME NEW p, NEW q, NEW form, NEW name, NEW v \in BOOLEAN, NEW w \in BOOLEAN,
         p = [is |-> form, name |-> name, wide |-> v],
         q = [is |-> form, name |-> name, wide |-> w]
  PROVE  [p EXCEPT !.wide = w] = q
OBVIOUS

(* A narrow piece is its own folding, and that of its full-width form.     *)
LEMMA Refolded ==
  ASSUME NEW p, p = Piece(p.is, p.name)
  PROVE  /\ [p EXCEPT !.wide = FALSE] = p
         /\ \A w \in BOOLEAN : [[p EXCEPT !.wide = w] EXCEPT !.wide = FALSE] = p
<1>1. PICK form, name : p = [is |-> form, name |-> name, wide |-> FALSE]
  BY DEF Piece
<1>2. [p EXCEPT !.wide = FALSE] = p
  BY <1>1, Narrow
<1>3. ASSUME NEW w \in BOOLEAN
      PROVE  [[p EXCEPT !.wide = w] EXCEPT !.wide = FALSE] = p
  <2>1. PICK q : q = [is |-> form, name |-> name, wide |-> w]
    OBVIOUS
  <2>2. [p EXCEPT !.wide = w] = q
    BY <1>1, <2>1, Widened
  <2>3. [q EXCEPT !.wide = FALSE] = p
    BY <1>1, <2>1, Widened
  <2>. QED  BY <2>2, <2>3
<1>. QED  BY <1>2, <1>3

(* The punctuation pass and the frontmatter, seen through the folding of   *)
(* Gate 5: the frontmatter stands in front, all else is as it was.         *)
LEMMA PrintedFacts ==
  ASSUME NEW S, \A p \in S : p = Piece(p.is, p.name) /\ p # FrontMatter,
         NEW s \in Seq(S), NEW language
  PROVE  LET u == Punctuated(Fronted(s), language)
         IN /\ Folded(u) = <<FrontMatter>> \o s
            /\ u \in Seq(ToSet(u))
<1>. DEFINE F == <<FrontMatter>>
            t == F \o s
            u == Punctuated(t, language)
            n == Len(s)
<1>1. n \in Nat /\ DOMAIN s = 1 .. n /\ \A i \in 1 .. n : s[i] \in S
  OBVIOUS
<1>2. Fronted(s) = t
  <2>1. s # <<>> => Head(s) # FrontMatter
    <3>1. s # <<>> => Head(s) = s[1] /\ 1 \in 1 .. n
      BY <1>1
    <3>. QED  BY <1>1, <3>1
  <2>. QED  BY <2>1 DEF Fronted
<1>3. /\ DOMAIN t = 1 .. n + 1 /\ t[1] = FrontMatter /\ \A i \in 1 .. n : t[i + 1] = s[i]
      /\ Len(t) = n + 1 /\ t = [i \in DOMAIN t |-> t[i]]
  <2>1. F \in Seq(S \cup {FrontMatter}) /\ s \in Seq(S \cup {FrontMatter}) /\ Len(F) = 1 /\ F[1] = FrontMatter
    OBVIOUS
  <2>2. /\ t \in Seq(S \cup {FrontMatter}) /\ Len(t) = Len(F) + Len(s)
        /\ \A i \in 1 .. Len(F) + Len(s) : t[i] = IF i <= Len(F) THEN F[i] ELSE s[i - Len(F)]
    BY <2>1, ConcatProperties
  <2>3. \A i \in 1 .. n : i + 1 \in 1 .. n + 1 /\ ~ (i + 1 <= 1) /\ (i + 1) - 1 = i
    BY <1>1
  <2>4. 1 \in 1 .. n + 1 /\ Len(F) + Len(s) = n + 1
    BY <1>1, <2>1
  <2>. HIDE DEF t, F, n
  <2>5. DOMAIN t = 1 .. n + 1 /\ Len(t) = n + 1 /\ t = [i \in DOMAIN t |-> t[i]]
    BY <2>2, <2>4
  <2>. QED  BY <2>1, <2>2, <2>3, <2>4, <2>5 DEF n
<1>. HIDE DEF t
<1>4. \A i \in 1 .. n + 1 : t[i] = Piece(t[i].is, t[i].name)
  <2>1. FrontMatter = Piece(FrontMatter.is, FrontMatter.name)
    BY DEF FrontMatter, Notice, Piece
  <2>2. \A i \in 1 .. n + 1 : i = 1 \/ \E j \in 1 .. n : i = j + 1
    <3>1. \A i \in 1 .. n + 1 : i # 1 => i - 1 \in 1 .. n /\ i = (i - 1) + 1
      BY <1>1
    <3>. QED  BY <3>1, Zenon
  <2>. HIDE DEF n
  <2>. QED  BY <1>1, <1>3, <2>1, <2>2
<1>5. /\ DOMAIN u = 1 .. n + 1 /\ u = [i \in DOMAIN u |-> u[i]]
      /\ \A i \in 1 .. n + 1 : [u[i] EXCEPT !.wide = FALSE] = t[i]
      /\ u[1] = FrontMatter
  <2>1. CASE language \notin {"zh", "ja"}
    <3>1. u = t
      BY <2>1 DEF Punctuated
    <3>2. \A i \in 1 .. n + 1 : [t[i] EXCEPT !.wide = FALSE] = t[i]
      BY <1>4, Refolded
    <3>. QED  BY <1>3, <3>1, <3>2
  <2>2. CASE language \in {"zh", "ja"}
    <3>. DEFINE w(i) == t[i] # FrontMatter /\ ~ (t[i].is = "raw" /\ t[i].name.kind = "code")
    <3>1. u = [i \in DOMAIN t |-> [t[i] EXCEPT !.wide = w(i)]]
      BY <2>2 DEF Punctuated
    <3>2. \A i \in DOMAIN t : w(i) \in BOOLEAN
      OBVIOUS
    <3>3. w(1) = FALSE
      BY <1>3
    <3>. HIDE DEF w, u
    <3>4. \A i \in 1 .. n + 1 : [[t[i] EXCEPT !.wide = w(i)] EXCEPT !.wide = FALSE] = t[i]
      BY <1>3, <1>4, <3>2, Refolded
    <3>5. 1 \in DOMAIN t
      BY <1>1, <1>3
    <3>6. [t[1] EXCEPT !.wide = FALSE] = t[1]
      BY <1>3, <1>4, <3>5, Refolded
    <3>. QED  BY <1>3, <3>1, <3>3, <3>4, <3>5, <3>6
  <2>. QED  BY <2>1, <2>2
<1>. HIDE DEF u
<1>6. Folded(u) = t
  BY <1>3, <1>5 DEF Folded
<1>7. u \in Seq(ToSet(u))
  <2>1. u \in [1 .. n + 1 -> ToSet(u)]
    BY <1>5 DEF ToSet
  <2>2. n + 1 \in Nat
    BY <1>1
  <2>. HIDE DEF n
  <2>. QED  BY <2>1, <2>2
<1>. QED  BY <1>2, <1>6, <1>7 DEF u, t, F

(* The pieces of a text that is rebuilt.                                   *)
Shippable(N) ==
  {Bare(k) : k \in N} \cup {Kept(k) : k \in N} \cup {Word(w) : w \in Vocabulary \cup {"instruction"}}
    \cup {Warning("missing_shields")}

(* None of them is the frontmatter.                                        *)
LEMMA ShippableFacts ==
  ASSUME NEW N \in SUBSET Elements, NEW p \in Shippable(N)
  PROVE  /\ p = Piece(p.is, p.name) /\ p # FrontMatter
         /\ p.is = "notice" => p = Warning("missing_shields")
<1>1. CASE p = Warning("missing_shields")
  <2>1. "missing_shields" # "frontmatter"
    OBVIOUS
  <2>. QED  BY <1>1, <2>1 DEF Warning, FrontMatter, Notice, Piece, Name
<1>2. CASE p # Warning("missing_shields")
  BY <1>2 DEF Shippable, Bare, Kept, Naked, Raw, Word, FrontMatter, Notice, Piece
<1>. QED  BY <1>1, <1>2

(* The values of some keys, one after the other.                           *)
LEMMA ValuesFacts ==
  ASSUME NEW N \in SUBSET Elements, NEW shielded, \A k \in N : shielded.value[k] = <<Kept(k)>>,
         NEW keys \in Seq(N), Distinct(keys)
  PROVE  /\ Values(shielded, keys) \in Seq({Kept(k) : k \in N})
         /\ ToSet(Values(shielded, keys)) = {Kept(k) : k \in ToSet(keys)}
         /\ \A k \in ToSet(keys) : Once(Values(shielded, keys), Kept(k))
<1>. DEFINE S == {Kept(k) : k \in N}
            g == [i \in DOMAIN keys |-> Kept(keys[i])]
<1>1. Len(keys) \in Nat /\ DOMAIN keys = 1 .. Len(keys) /\ \A i \in DOMAIN keys : keys[i] \in N
  OBVIOUS
<1>2. g \in Seq(S) /\ DOMAIN g = DOMAIN keys
  <2>1. g \in [1 .. Len(keys) -> S]
    BY <1>1
  <2>. QED  BY <1>1, <2>1, SeqDef
<1>3. \A i \in DOMAIN keys : g[i] = Kept(keys[i])
  OBVIOUS
<1>. HIDE DEF g, S
<1>4. Values(shielded, keys) = g
  <2>1. \A i \in DOMAIN keys : shielded.value[keys[i]] = <<g[i]>>
    BY <1>1, <1>3
  <2>2. Values(shielded, keys) = FlattenSeq([i \in DOMAIN g |-> <<g[i]>>])
    BY <1>2, <2>1 DEF Values
  <2>. QED  BY <1>2, <2>2, FlattenSingles
<1>5. ToSet(g) = {Kept(k) : k \in ToSet(keys)}
  BY <1>2, <1>3 DEF ToSet
<1>6. ASSUME NEW k \in ToSet(keys)
      PROVE  Once(g, Kept(k))
  <2>1. PICK i \in DOMAIN keys : keys[i] = k
    BY DEF ToSet
  <2>2. k \in N
    BY <1>1, <2>1
  <2>3. \A j \in DOMAIN keys : Kept(keys[j]) = Kept(k) => keys[j] = k
    BY <1>1, <2>2, Apart
  <2>4. \A j \in DOMAIN keys : g[j] = Kept(k) <=> j = i
    BY <1>3, <2>1, <2>3 DEF Distinct
  <2>. QED  BY <1>2, <2>1, <2>4 DEF Once
<1>. QED  BY <1>2, <1>4, <1>5, <1>6 DEF S

(* restore_image_ref_integrity leaves a text without damaged references    *)
(* as it is.                                                               *)
LEMMA NothingHealed ==
  ASSUME NEW N \in SUBSET Elements, NEW shielded, NEW t \in Seq(Shippable(N))
  PROVE  Healed(shielded, t) = t
<1>1. \A i \in DOMAIN t : t[i] \in Shippable(N)
  OBVIOUS
<1>2. \A p \in Shippable(N) : p.is \in {"raw", "bent"} => Raw(p.name) = p
  <2>. TAKE p \in Shippable(N)
  <2>1. CASE p \in {Kept(k) : k \in N}
    BY <2>1 DEF Kept, Naked, Raw, Piece
  <2>2. CASE p \notin {Kept(k) : k \in N}
    BY <2>2 DEF Shippable, Bare, Word, Warning, Notice, Piece
  <2>. QED  BY <2>1, <2>2
<1>3. \A i \in DOMAIN t : t[i].is \in {"raw", "bent"} => Raw(t[i].name) = t[i]
  BY <1>1, <1>2
<1>4. t = [i \in DOMAIN t |-> t[i]]
  OBVIOUS
<1>. QED  BY <1>3, <1>4 DEF Healed

(* unshield_markdown, of an answer without damaged references: every       *)
(* element is there once, and an answer with every marker once is kept.    *)
LEMMA RebuiltFacts ==
  ASSUME NEW N \in SUBSET Elements, NEW r \in Seq(MdPieces(N)), \A k \in N : Bent(k) \notin ToSet(r),
         NEW shielded, \A k \in N : shielded.value[k] = <<Kept(k)>>,
         shielded.keys \in Seq(N), Distinct(shielded.keys), ToSet(shielded.keys) = N
  PROVE  /\ Unshielded(shielded, r) \in Seq(Shippable(N))
         /\ \A k \in N : Once(Unshielded(shielded, r), Kept(k))
         /\ Singly(r, N) => Unshielded(shielded, r) = Turning(r, N)
<1>1. PICK acc :
        /\ Unshields(acc, r, N, N)
        /\ Unshielded(shielded, r) =
             Healed(shielded, acc.text \o IF acc.missing = <<>> THEN <<>>
                                          ELSE <<Warning("missing_shields")>> \o Values(shielded, acc.missing))
  BY UnshieldsAll
<1>. DEFINE S == Shippable(N)
            t == acc.text
            lost == acc.missing
            value == Values(shielded, lost)
            warned == <<Warning("missing_shields")>> \o value
            rest == IF lost = <<>> THEN <<>> ELSE warned
            full == t \o rest
<1>2. /\ t \in Seq(Made(N))
      /\ ToSet(t) = (ToSet(r) \ {Mark(k) : k \in N}) \cup {Kept(k) : k \in Returned(r, N)}
      /\ \A k \in Returned(r, N) : Once(t, Kept(k))
      /\ Singly(r, N) => t = Turning(r, N)
  BY <1>1 DEF Unshields
<1>3. lost \in Seq(N) /\ Distinct(lost) /\ ToSet(lost) = N \ Returned(r, N)
  BY <1>1 DEF Unshields
<1>4. Unshielded(shielded, r) = Healed(shielded, full)
  BY <1>1
<1>. HIDE DEF t, lost
<1>5. /\ value \in Seq({Kept(k) : k \in N})
      /\ ToSet(value) = {Kept(k) : k \in ToSet(lost)}
      /\ \A k \in ToSet(lost) : Once(value, Kept(k))
  BY <1>3, ValuesFacts
<1>. HIDE DEF value, S
<1>6. t \in Seq(S)
  <2>1. \A i \in 1 .. Len(t) : t[i] \in S
    <3>1. \A i \in 1 .. Len(t) : t[i] \in ToSet(t)
      BY <1>2 DEF ToSet
    <3>2. ToSet(r) \subseteq MdPieces(N)
      BY DEF ToSet
    <3>3. ToSet(r) \ {Mark(k) : k \in N} \subseteq S
      BY <3>2 DEF MdPieces, S, Shippable
    <3>4. {Kept(k) : k \in Returned(r, N)} \subseteq S
      BY DEF S, Shippable, Returned
    <3>. QED  BY <1>2, <3>1, <3>3, <3>4
  <2>2. t \in [1 .. Len(t) -> S] /\ Len(t) \in Nat
    BY <1>2, <2>1
  <2>. QED  BY <2>2, SeqDef
<1>7. value \in Seq(S) /\ <<Warning("missing_shields")>> \in Seq(S)
  <2>1. Warning("missing_shields") \in S /\ {Kept(k) : k \in N} \subseteq S
    BY DEF S, Shippable
  <2>. QED  BY <1>5, <2>1
<1>8. warned \in Seq(S) /\ ToSet(warned) = {Warning("missing_shields")} \cup ToSet(value)
  <2>. DEFINE warning == <<Warning("missing_shields")>>
  <2>1. ToSet(warning) = {Warning("missing_shields")} /\ warning \in Seq(S)
    BY <1>7 DEF ToSet
  <2>. HIDE DEF warning
  <2>2. warning \o value \in Seq(S) /\ ToSet(warning \o value) = ToSet(warning) \cup ToSet(value)
    BY <1>7, <2>1, ConcatSet
  <2>. QED  BY <2>1, <2>2 DEF warning
<1>9. \A k \in N : Kept(k) # Warning("missing_shields") /\ Kept(k) \notin ToSet(r)
  <2>1. ToSet(r) \subseteq MdPieces(N)
    BY DEF ToSet
  <2>2. \A k \in N : Kept(k) \notin MdPieces(N)
    BY ElementForms
  <2>3. \A k \in N : Kept(k).is # "notice" /\ Warning("missing_shields").is = "notice"
    BY DEF Kept, Naked, Raw, Warning, Notice, Piece
  <2>. QED  BY <2>1, <2>2, <2>3
<1>. HIDE DEF warned
<1>10. rest \in Seq(S)
  BY <1>8
<1>11. lost = <<>> \/ rest = warned
  OBVIOUS
<1>12. lost = <<>> => ToSet(lost) = {}
  BY DEF ToSet
<1>13. ASSUME NEW k \in Returned(r, N)
       PROVE  Once(full, Kept(k))
  <2>1. k \in N /\ Once(t, Kept(k))
    BY <1>2 DEF Returned
  <2>2. Kept(k) \notin ToSet(value)
    <3>1. \A j \in N : Kept(j) = Kept(k) => j = k
      BY <2>1, Apart
    <3>. QED  BY <1>3, <1>5, <3>1
  <2>3. Kept(k) \notin ToSet(rest)
    <3>1. ToSet(<<>>) = {}
      BY DEF ToSet
    <3>. QED  BY <1>8, <1>9, <2>1, <2>2, <3>1
  <2>. HIDE DEF rest
  <2>. QED  BY <1>6, <1>10, <2>1, <2>3, OnceConcat
<1>14. ASSUME NEW k \in N \ Returned(r, N)
       PROVE  Once(full, Kept(k))
  <2>1. k \in ToSet(lost) /\ Once(value, Kept(k))
    BY <1>3, <1>5
  <2>2. Once(warned, Kept(k))
    <3>1. Kept(k) \notin ToSet(<<Warning("missing_shields")>>)
      BY <1>9 DEF ToSet
    <3>. QED  BY <1>7, <2>1, <3>1, OnceConcat DEF warned
  <2>3. rest = warned
    BY <1>11, <1>12, <2>1
  <2>4. Kept(k) \notin ToSet(t)
    <3>1. \A j \in N : Kept(j) = Kept(k) => j = k
      BY Apart
    <3>2. Kept(k) \notin {Kept(j) : j \in Returned(r, N)}
      BY <3>1 DEF Returned
    <3>. QED  BY <1>2, <1>9, <3>2
  <2>. HIDE DEF rest
  <2>. QED  BY <1>6, <1>8, <2>2, <2>3, <2>4, OnceConcat
<1>. HIDE DEF rest
<1>15. full \in Seq(S)
  BY <1>6, <1>10
<1>16. ASSUME Singly(r, N)
       PROVE  full = Turning(r, N)
  <2>1. Returned(r, N) = N
    BY <1>16 DEF Singly, Once, Returned, ToSet
  <2>2. lost = <<>>
    <3>1. ToSet(lost) = {}
      BY <1>3, <2>1
    <3>2. DOMAIN lost = 1 .. Len(lost) /\ Len(lost) \in Nat /\ DOMAIN lost = {}
      BY <1>3, <3>1 DEF ToSet
    <3>. QED  BY <1>3, <3>2
  <2>3. rest = <<>>
    BY <2>2 DEF rest
  <2>. QED  BY <1>2, <1>6, <1>16, <2>3
<1>. HIDE DEF full
<1>17. Unshielded(shielded, r) = full
  BY <1>4, <1>15, NothingHealed DEF S
<1>18. \A k \in N : Once(full, Kept(k))
  BY <1>13, <1>14
<1>. QED  BY <1>15, <1>16, <1>17, <1>18 DEF S

(* What stands in a text occurs in it.                                     *)
LEMMA HeldOccurs ==
  ASSUME NEW S, NEW t \in Seq(S), NEW p, Once(t, p)
  PROVE  Occurs(<<p>>, t)
<1>1. PICK i \in 1 .. Len(t) : t[i] = p
  BY DEF Once
<1>2. SubSeq(t, i, i) = <<p>>
  BY <1>1, OnePiece
<1>3. PICK m : m = i - 1
  OBVIOUS
<1>4. m \in 0 .. Len(t) /\ m + 1 = i /\ m + 1 <= Len(t)
  BY <1>3
<1>5. Len(<<p>>) = 1
  OBVIOUS
<1>. QED  BY <1>2, <1>4, <1>5 DEF Occurs

(* What stands once behind the head of a text.                             *)
LEMMA TailFacts ==
  ASSUME NEW S, NEW t \in Seq(S), t # <<>>
  PROVE  /\ Tail(t) \in Seq(S)
         /\ \A p : p # Head(t) /\ Once(t, p) => Once(Tail(t), p)
<1>. DEFINE u == Tail(t)
<1>1. Len(t) \in Nat /\ Len(t) > 0 /\ DOMAIN t = 1 .. Len(t) /\ Head(t) = t[1]
  OBVIOUS
<1>2. u \in Seq(S) /\ Len(u) = Len(t) - 1 /\ \A i \in 1 .. Len(u) : u[i] = t[i + 1]
  BY HeadTailProperties
<1>. HIDE DEF u
<1>3. ASSUME NEW p, p # Head(t), Once(t, p)
      PROVE  Once(u, p)
  <2>1. PICK i \in 1 .. Len(t) : \A j \in DOMAIN t : t[j] = p <=> j = i
    BY <1>1, <1>3 DEF Once
  <2>2. i # 1
    BY <1>1, <1>3, <2>1
  <2>3. PICK m \in 1 .. Len(u) : m = i - 1
    BY <1>1, <1>2, <2>2
  <2>4. ASSUME NEW j \in 1 .. Len(u)
        PROVE  u[j] = p <=> j = m
    <3>1. j + 1 \in DOMAIN t /\ (j + 1 = i <=> j = m)
      BY <1>1, <1>2, <2>3
    <3>. QED  BY <1>2, <2>1, <3>1
  <2>5. DOMAIN u = 1 .. Len(u)
    BY <1>2
  <2>. QED  BY <2>4, <2>5 DEF Once
<1>. QED  BY <1>2, <1>3 DEF u

(* level1_regex_clean, of a text that is rebuilt.                          *)
LEMMA WithoutFacts ==
  ASSUME NEW N \in SUBSET Elements, NEW t \in Seq(Shippable(N))
  PROVE  /\ WithoutInstruction(t) \in Seq(Shippable(N))
         /\ \A k \in N : Once(t, Kept(k)) => Once(WithoutInstruction(t), Kept(k))
         /\ Word("instruction") \notin ToSet(t) => WithoutInstruction(t) = t
<1>1. \A k \in N : Kept(k) # Word("instruction")
  BY DEF Kept, Naked, Raw, Word, Piece
<1>2. CASE t # <<>> /\ Head(t) = Word("instruction")
  <2>1. WithoutInstruction(t) = Tail(t)
    BY <1>2 DEF WithoutInstruction
  <2>2. Word("instruction") \in ToSet(t)
    BY <1>2 DEF ToSet
  <2>. HIDE DEF Shippable
  <2>3. Tail(t) \in Seq(Shippable(N)) /\ \A p : p # Head(t) /\ Once(t, p) => Once(Tail(t), p)
    BY <1>2, TailFacts
  <2>4. \A k \in N : Kept(k) # Head(t)
    BY <1>1, <1>2
  <2>. QED  BY <2>1, <2>2, <2>3, <2>4
<1>3. CASE ~ (t # <<>> /\ Head(t) = Word("instruction"))
  BY <1>3 DEF WithoutInstruction
<1>. QED  BY <1>2, <1>3

(* is_complete, of a text that holds every value.                          *)
LEMMA IsComplete ==
  ASSUME NEW N \in SUBSET Elements, NEW shielded, \A k \in N : shielded.value[k] = <<Kept(k)>>,
         shielded.keys \in Seq(N), NEW t \in Seq(Shippable(N)), \A k \in N : Once(t, Kept(k))
  PROVE  MdComplete(shielded, t)
<1>1. \A k \in N : Occurs(<<Kept(k)>>, t)
  BY HeldOccurs
<1>2. \A i \in DOMAIN shielded.keys : shielded.keys[i] \in N
  OBVIOUS
<1>. QED  BY <1>1, <1>2 DEF MdComplete

-----------------------------------------------------------------------------
(* A Markdown text without nesting.  What is known once it is shielded:    *)
MdKnown ==
  /\ Keys \in SUBSET Elements
  /\ shield.keys \in Seq(Keys) /\ Distinct(shield.keys)
  /\ \A k \in Keys : shield.value[k] = <<Kept(k)>>
  /\ shield.text = Marked(job.source, Keys)
  /\ job.source \in Seq({Raw(k) : k \in Keys} \cup {Word(w) : w \in Vocabulary})
  /\ \A k \in Keys : Once(job.source, Raw(k))

(* What Shield makes known stays known.                                    *)
LEMMA IsMdKnown ==
  ASSUME MdInv, ~ Xliff, Flat, stage # "new"
  PROVE  MdKnown
<1>. DEFINE N == DOMAIN job.inside
            src == job.source
<1>1. job \in Jobs /\ job.channel # "xliff" /\ shield = MdShielded(src, job.inside)
  BY DEF MdInv, Xliff
<1>2. /\ N \in SUBSET Elements
      /\ src \in Seq({Raw(k) : k \in N} \cup {Word(w) : w \in Vocabulary})
      /\ \A k \in N : Count(src, Raw(k)) = 1
  BY <1>1, TextAssumption DEF Elements
<1>3. \A k \in N : job.inside[k] = 0
  BY DEF Flat
<1>. HIDE DEF N, src
<1>4. \A k \in N : Once(src, Raw(k))
  <2>1. IsFiniteSet(DOMAIN src)
    <3>1. DOMAIN src = 1 .. Len(src) /\ Len(src) \in Nat
      BY <1>2
    <3>. QED  BY <3>1, FS_Interval
  <2>. QED  BY <1>2, <2>1, CountedIsOnce
<1>5. Shields(shield, src, N, N)
  <2>1. DOMAIN job.inside = N
    BY DEF N
  <2>. QED  BY <1>1, <1>2, <1>3, <1>4, <2>1, ShieldsAll
<1>6. /\ shield.text = Marked(src, N) /\ \A k \in N : shield.value[k] = <<Kept(k)>>
      /\ shield.keys \in Seq(N) /\ Distinct(shield.keys) /\ ToSet(shield.keys) = N
  BY <1>5 DEF Shields
<1>7. Keys = N
  BY <1>6 DEF Keys
<1>. QED  BY <1>2, <1>4, <1>6, <1>7 DEF MdKnown, src

(* What a model makes of words and markers are pieces of an answer.        *)
LEMMA MdEditsTyped ==
  ASSUME ~ Xliff, MdKnown, NEW p \in {Mark(k) : k \in Keys} \cup {Word(w) : w \in Vocabulary}
  PROVE  Edits(p) \subseteq Seq(MdPieces(Keys))
<1>. DEFINE P == MdPieces(Keys)
<1>1. \A q \in P : <<q>> \in Seq(P) /\ <<q, q>> \in Seq(P)
  OBVIOUS
<1>2. <<>> \in Seq(P)
  OBVIOUS
<1>3. p \in P /\ Word("own") \in P /\ Word("protocol") \in P /\ Word("rendering") \in P
  BY DEF MdPieces, Vocabulary
<1>4. CASE p.is # "mark"
  BY <1>1, <1>2, <1>3, <1>4 DEF Edits
<1>5. CASE p.is = "mark"
  <2>1. PICK k \in Keys : p = Mark(k) /\ p.name = k
    BY <1>5 DEF Mark, Word, Piece
  <2>2. Bare(p.name) \in P /\ Bent(p.name) \in P
    BY <2>1 DEF MdPieces
  <2>3. Edits(p) \subseteq {<<>>, <<p>>, <<p, p>>, <<Bare(p.name)>>, <<Bent(p.name)>>}
    BY <1>5 DEF Edits
  <2>4. <<p>> \in Seq(P) /\ <<p, p>> \in Seq(P) /\ <<Bare(p.name)>> \in Seq(P) /\ <<Bent(p.name)>> \in Seq(P)
    BY <1>1, <1>3, <2>2
  <2>. HIDE DEF P
  <2>. QED  BY <1>2, <2>3, <2>4 DEF P
<1>. QED  BY <1>4, <1>5

(* A reply consists of pieces of an answer.                                *)
LEMMA MdRepliesTyped ==
  ASSUME ~ Xliff, MdKnown, NEW answer \in Replies
  PROVE  answer \in Seq(MdPieces(Keys))
<1>. DEFINE P == MdPieces(Keys)
            edits == UNION {Edits(shield.text[i]) : i \in DOMAIN shield.text}
            heads == {<<>>, <<Word("instruction")>>}
            tails == {<<>>} \cup {<<Escaped(shield.keys[i])>> :
                                    i \in IF Xliff THEN DOMAIN shield.keys \cap {1} ELSE {}}
            edited == {e \in [DOMAIN shield.text -> edits] :
                         \A i \in DOMAIN e : e[i] \in Edits(shield.text[i])}
            Composed(e, h, t) == {h \o FlattenSeq(e) \o t, h \o Reverse(FlattenSeq(e)) \o t}
<1>0. Replies = UNION {Composed(e, h, t) : e \in edited, h \in heads, t \in tails}
  BY DEF Replies
<1>1. PICK e \in [DOMAIN shield.text -> edits], h \in heads, t \in tails : answer \in Composed(e, h, t)
  <2>. HIDE DEF Composed, heads, tails
  <2>1. \E e \in edited, h \in heads, t \in tails : answer \in Composed(e, h, t)
    BY <1>0
  <2>. QED  BY <2>1
<1>2. /\ DOMAIN shield.text = 1 .. Len(job.source) /\ Len(job.source) \in Nat
      /\ \A i \in DOMAIN shield.text :
           shield.text[i] \in {Mark(k) : k \in Keys} \cup {Word(w) : w \in Vocabulary}
  <2>1. /\ DOMAIN job.source = 1 .. Len(job.source) /\ Len(job.source) \in Nat
        /\ \A i \in DOMAIN job.source :
             job.source[i] \in {Raw(k) : k \in Keys} \cup {Word(w) : w \in Vocabulary}
    BY DEF MdKnown
  <2>2. ASSUME NEW i \in DOMAIN job.source
        PROVE  \/ job.source[i].is = "raw" /\ job.source[i].name \in Keys
               \/ job.source[i].is = "word" /\ job.source[i] \in {Word(w) : w \in Vocabulary}
    BY <2>1 DEF Raw, Word, Piece
  <2>. QED  BY <2>1, <2>2 DEF MdKnown, Marked
<1>3. edits \subseteq Seq(P)
  BY <1>2, MdEditsTyped
<1>. HIDE DEF P
<1>4. e \in Seq(Seq(P))
  <2>. HIDE DEF edits
  <2>1. e \in [1 .. Len(job.source) -> edits]
    BY <1>2
  <2>2. e \in [1 .. Len(job.source) -> Seq(P)]
    BY <1>3, <2>1
  <2>. QED  BY <1>2, <2>2, SeqDef
<1>5. h \in Seq(P) /\ t = <<>>
  <2>1. <<Word("instruction")>> \in Seq(P)
    <3>1. Word("instruction") \in P
      BY DEF P, MdPieces
    <3>. QED  BY <3>1
  <2>2. <<>> \in Seq(P)
    OBVIOUS
  <2>. QED  BY <2>1, <2>2
<1>. HIDE DEF heads, tails, edits
<1>. DEFINE b == FlattenSeq(e)
            r == Reverse(b)
<1>6. b \in Seq(P)
  BY <1>4, FlattenFacts
<1>. HIDE DEF b
<1>7. r \in Seq(P)
  BY <1>6, ReverseFacts
<1>. HIDE DEF r
<1>8. h \o b \o t \in Seq(P) /\ h \o r \o t \in Seq(P)
  BY <1>5, <1>6, <1>7
<1>9. answer = h \o b \o t \/ answer = h \o r \o t
  BY <1>1 DEF b, r
<1>. QED  BY <1>8, <1>9 DEF P

(* A rebuilt answer without damaged references is complete, and stays so   *)
(* without the instruction.                                                *)
LEMMA RebuiltText ==
  ASSUME MdKnown, reply \in Seq(MdPieces(Keys)), NamesIn(reply, "bent") = {}
  PROVE  /\ Rebuilt \in Seq(Shippable(Keys)) /\ WithoutInstruction(Rebuilt) \in Seq(Shippable(Keys))
         /\ \A k \in Keys : Once(WithoutInstruction(Rebuilt), Kept(k))
         /\ Singly(reply, Keys) => Rebuilt = Turning(reply, Keys)
         /\ MdComplete(shield, WithoutInstruction(Rebuilt))
<1>1. ASSUME NEW k \in Keys
      PROVE  Bent(k) \notin ToSet(reply)
  <2>1. \A i \in DOMAIN reply : reply[i].is # "bent"
    BY DEF NamesIn
  <2>. QED  BY <2>1 DEF ToSet, Bent, Piece
<1>2. /\ Keys \in SUBSET Elements /\ \A k \in Keys : shield.value[k] = <<Kept(k)>>
      /\ shield.keys \in Seq(Keys) /\ Distinct(shield.keys) /\ ToSet(shield.keys) = Keys
  BY DEF MdKnown, Keys
<1>. DEFINE t == Unshielded(shield, reply)
            N == Keys
<1>. HIDE DEF N
<1>3. /\ t \in Seq(Shippable(N)) /\ \A k \in N : Once(t, Kept(k))
      /\ Singly(reply, N) => t = Turning(reply, N)
  BY <1>1, <1>2, RebuiltFacts DEF N
<1>. HIDE DEF t
<1>4. /\ WithoutInstruction(t) \in Seq(Shippable(N))
      /\ \A k \in N : Once(WithoutInstruction(t), Kept(k))
  BY <1>2, <1>3, WithoutFacts DEF N
<1>5. MdComplete(shield, WithoutInstruction(t))
  BY <1>2, <1>4, IsComplete DEF N
<1>6. Rebuilt = t
  BY DEF Rebuilt, t
<1>. QED  BY <1>3, <1>4, <1>5, <1>6 DEF N

(* Each action keeps MdInv.  Shield: nothing was answered yet.             *)
LEMMA MdShieldStep ==
  ASSUME MdInv, ~ Xliff, Flat, Shield
  PROVE  MdInv'
<1>1. /\ stage = "new" /\ stage' = "asked" /\ shield' = MdShielded(job.source, job.inside)
      /\ UNCHANGED <<job, reply, text, told>>
  BY DEF Shield, Step, Keep
<1>2. reply' = <<>> /\ text' = <<>> /\ told' = {} /\ job' \in Jobs
  BY <1>1 DEF MdInv
<1>3. reply' \in Seq(MdPieces(Keys'))
  BY <1>2
<1>4. shield' = MdShielded(job.source, job.inside)'
  BY <1>1
<1>. QED  BY <1>1, <1>2, <1>3, <1>4 DEF MdInv

(* The model answers: any reply.                                           *)
LEMMA MdReplyStep ==
  ASSUME MdInv, ~ Xliff, Flat, Reply
  PROVE  MdInv'
<1>1. PICK answer \in Replies : reply' = answer /\ text' = answer
  BY DEF Reply
<1>2. stage = "asked" /\ stage' = "replied" /\ UNCHANGED <<job, shield, told>>
  BY DEF Reply, Step, Keep
<1>3. reply' \in Seq(MdPieces(Keys)) /\ text' = reply' /\ Keys' = Keys
  BY <1>1, <1>2, IsMdKnown, MdRepliesTyped DEF Keys
<1>4. MdPieces(Keys)' = MdPieces(Keys)
  BY <1>3 DEF MdPieces
<1>5. told' = {} /\ shield' = MdShielded(job.source, job.inside)' /\ job' \in Jobs
  BY <1>2 DEF MdInv
<1>. QED  BY <1>2, <1>3, <1>4, <1>5 DEF MdInv

(* A step behind the answer leaves it as it is.                            *)
LEMMA MdStepKeeps ==
  ASSUME MdInv, ~ Xliff, Flat, stage \notin {"new", "asked"}, UNCHANGED <<job, shield, reply>>,
         stage' \notin {"new", "asked", "replied"},
         NamesIn(reply, "bent") = {} =>
            /\ stage' \in {"restored", "repaired", "written", "done"}
            /\ stage' = "restored" => text' = Rebuilt
            /\ stage' = "repaired" => text' = WithoutInstruction(Rebuilt)
            /\ stage' \in {"written", "done"} => text' = Printed
            /\ told' = Reported \cup (IF stage' \in {"written", "done"} THEN ToSet(Closed) ELSE {})
                               \cup IF stage' = "done" THEN Gates(job.source, text', job.language) ELSE {}
  PROVE  MdInv'
<1>1. /\ Keys' = Keys /\ Rebuilt' = Rebuilt /\ Closed' = Closed /\ Printed' = Printed
      /\ Reported' = Reported
      /\ Done' <=> stage' = "done"
  BY DEF Keys, Rebuilt, Closed, Closing, Printed, Reported, Done
<1>2. MdPieces(Keys)' = MdPieces(Keys) /\ NamesIn(reply, "bent")' = NamesIn(reply, "bent")
  BY <1>1 DEF MdPieces, NamesIn
<1>3. /\ job' \in Jobs /\ shield' = MdShielded(job.source, job.inside)'
      /\ reply' \in Seq(MdPieces(Keys))
  BY DEF MdInv
<1>. HIDE DEF MdPieces, Rebuilt, Closed, Printed, Reported, Keys
<1>. QED  BY <1>1, <1>2, <1>3 DEF MdInv

(* The text is rebuilt.                                                    *)
LEMMA MdRestoreStep ==
  ASSUME MdInv, ~ Xliff, Flat, Restore
  PROVE  MdInv'
<1>1. /\ stage = "replied" /\ stage' = "restored" /\ UNCHANGED <<job, shield, reply>>
      /\ text' = Unshielded(shield, text) /\ told' = told \cup {n \in ToSet(text') : n.is = "notice"}
  BY DEF Restore, Step, Keep, RestoredFrom
<1>2. text = reply /\ told = {}
  BY <1>1 DEF MdInv
<1>3. text' = Rebuilt /\ told' = Reported
  BY <1>1, <1>2 DEF Rebuilt, Reported
<1>. QED  BY <1>1, <1>3, MdStepKeeps

(* A rebuilt text without damaged references needs no further repair.      *)
LEMMA MdCleanStep ==
  ASSUME MdInv, ~ Xliff, Flat, Clean
  PROVE  MdInv'
<1>1. /\ stage = "restored" /\ UNCHANGED <<job, shield, reply, told>>
      /\ text' = WithoutInstruction(text)
      /\ stage' = IF MdComplete(shield, text') THEN "repaired" ELSE "cleaned"
  BY DEF Clean, Keep, Next4, Complete
<1>2. ASSUME NamesIn(reply, "bent") = {}
      PROVE  stage' = "repaired" /\ text' = WithoutInstruction(Rebuilt) /\ told' = Reported
  <2>1. text = Rebuilt /\ told = Reported /\ reply \in Seq(MdPieces(Keys))
    BY <1>1, <1>2 DEF MdInv, Done
  <2>2. MdComplete(shield, WithoutInstruction(Rebuilt))
    BY <1>1, <1>2, <2>1, IsMdKnown, RebuiltText
  <2>. QED  BY <1>1, <2>1, <2>2
<1>3. stage' \in {"repaired", "cleaned"}
  BY <1>1
<1>. QED  BY <1>1, <1>2, <1>3, MdStepKeeps

(* Only a text with damaged references comes to the later levels.          *)
LEMMA MdLevelsStep ==
  ASSUME MdInv, ~ Xliff, Flat, Align \/ FallBack
  PROVE  MdInv'
<1>1. /\ stage \in {"cleaned", "aligned"} /\ UNCHANGED <<job, shield, reply>>
      /\ stage' \in {"repaired", "aligned"}
  BY DEF Align, FallBack, Keep, Next4, Step
<1>2. NamesIn(reply, "bent") # {}
  BY <1>1 DEF MdInv
<1>. QED  BY <1>1, <1>2, MdStepKeeps

(* The text gets its frontmatter, its punctuation and its notice.          *)
LEMMA MdWriteStep ==
  ASSUME MdInv, ~ Xliff, Flat, Write
  PROVE  MdInv'
<1>1. /\ stage = "repaired" /\ stage' = "written" /\ UNCHANGED <<job, shield, reply>>
      /\ text' = Punctuated(Fronted(text), job.language) \o Closing(text)
      /\ told' = told \cup ToSet(Closing(text))
  BY DEF Write, Step, Keep
<1>2. ASSUME NamesIn(reply, "bent") = {}
      PROVE  text' = Printed /\ told' = Reported \cup ToSet(Closed)
  <2>1. text = WithoutInstruction(Rebuilt) /\ told = Reported
    BY <1>1, <1>2 DEF MdInv, Done
  <2>. QED  BY <1>1, <2>1 DEF Printed, Closed
<1>. QED  BY <1>1, <1>2, MdStepKeeps

(* The gates compare the text with its source.                             *)
LEMMA MdGateStep ==
  ASSUME MdInv, ~ Xliff, Flat, Gate
  PROVE  MdInv'
<1>1. /\ stage = "written" /\ stage' = "done" /\ UNCHANGED <<job, shield, reply, text>>
      /\ told' = told \cup Gates(job.source, text, job.language)
  BY DEF Gate, Step, Keep
<1>2. ASSUME NamesIn(reply, "bent") = {}
      PROVE  /\ text' = Printed
             /\ told' = Reported \cup ToSet(Closed) \cup Gates(job.source, text', job.language)
  BY <1>1, <1>2 DEF MdInv, Done
<1>. QED  BY <1>1, <1>2, MdStepKeeps

(* Every step of a Markdown text keeps MdInv, a step of a unit too.        *)
LEMMA MdStep == MdInv /\ [RepairNext]_rvars => MdInv'
<1>. SUFFICES ASSUME MdInv, [RepairNext]_rvars
              PROVE  MdInv'
  OBVIOUS
<1>1. CASE ~ Xliff /\ Flat
  <2>1. CASE Shield
    BY <1>1, <2>1, MdShieldStep
  <2>2. CASE Reply
    BY <1>1, <2>2, MdReplyStep
  <2>3. CASE Restore
    BY <1>1, <2>3, MdRestoreStep
  <2>4. CASE Clean
    BY <1>1, <2>4, MdCleanStep
  <2>5. CASE Align \/ FallBack
    BY <1>1, <2>5, MdLevelsStep
  <2>6. CASE Write
    BY <1>1, <2>6, MdWriteStep
  <2>7. CASE Gate
    BY <1>1, <2>7, MdGateStep
  <2>8. CASE UNCHANGED rvars
    <3>1. Keys' = Keys /\ Xliff' = Xliff /\ Flat' = Flat /\ Done' = Done
      BY <2>8 DEF rvars, Keys, Xliff, Flat, Done
    <3>2. Rebuilt' = Rebuilt /\ Closed' = Closed /\ Printed' = Printed /\ Reported' = Reported
      BY <2>8 DEF rvars, Rebuilt, Closed, Closing, Printed, Reported
    <3>3. MdPieces(Keys)' = MdPieces(Keys) /\ NamesIn(reply, "bent")' = NamesIn(reply, "bent")
      BY <2>8, <3>1 DEF rvars, MdPieces, NamesIn
    <3>. QED  BY <2>8, <3>1, <3>2, <3>3 DEF rvars, MdInv
  <2>. QED  BY <2>1, <2>2, <2>3, <2>4, <2>5, <2>6, <2>7, <2>8 DEF RepairNext
<1>2. CASE ~ (~ Xliff /\ Flat)
  <2>1. UNCHANGED job
    BY DEF RepairNext, rvars, Shield, Reply, Restore, Clean, Align, FallBack, Write, Gate, Keep
  <2>2. (~ Xliff /\ Flat)' = (~ Xliff /\ Flat)
    BY <2>1 DEF Xliff, Flat
  <2>. QED  BY <1>2, <2>1, <2>2 DEF MdInv
<1>. QED  BY <1>1, <1>2

(* The inductive invariant of a Markdown text without nesting: for any     *)
(* jobs whose Markdown sources consist of words and elements of their own  *)
(* names.                                                                  *)
THEOREM MdInvariance == RepairSpec => []MdInv
<1>1. RepairInit => MdInv
  <2>. SUFFICES ASSUME RepairInit
                PROVE  MdInv
    OBVIOUS
  <2>1. reply = <<>> /\ text = <<>> /\ told = {} /\ stage = "new" /\ job \in Jobs
    BY DEF RepairInit
  <2>2. reply \in Seq(MdPieces(Keys))
    BY <2>1
  <2>. QED  BY <2>1, <2>2 DEF MdInv
<1>. QED  BY <1>1, MdStep, PTL DEF RepairSpec

-----------------------------------------------------------------------------
(* The notice a text may close with: it is no element, and folding leaves  *)
(* it as it is.                                                            *)
LEMMA ClosingFacts ==
  ASSUME NEW now
  PROVE  LET c == Closing(now)
         IN /\ c \in Seq({Notice("UNTRANSLATED_UNITS")}) /\ Folded(c) = c
            /\ ToSet(c) \in {{}, {Notice("UNTRANSLATED_UNITS")}}
            /\ Notice("UNTRANSLATED_UNITS") \in ToSet(c) <=> Copied(job.source, now)
            /\ c = IF Copied(job.source, now) THEN <<Notice("UNTRANSLATED_UNITS")>> ELSE <<>>
<1>. DEFINE n == Notice("UNTRANSLATED_UNITS")
            c == Closing(now)
<1>1. [n EXCEPT !.wide = FALSE] = n
  <2>1. n = Piece(n.is, n.name)
    BY DEF Notice, Piece
  <2>. QED  BY <2>1, Refolded
<1>. HIDE DEF n
<1>2. c = IF Copied(job.source, now) THEN <<n>> ELSE <<>>
  BY DEF Closing, n
<1>. HIDE DEF c
<1>3. CASE Copied(job.source, now)
  <2>1. c = <<n>> /\ DOMAIN c = 1 .. 1 /\ c[1] = n
    BY <1>2, <1>3
  <2>2. ToSet(c) = {n}
    BY <2>1 DEF ToSet
  <2>3. Folded(c) = [i \in DOMAIN c |-> n]
    BY <1>1, <2>1 DEF Folded
  <2>4. <<n>> = [i \in 1 .. 1 |-> n]
    OBVIOUS
  <2>. QED  BY <1>2, <1>3, <2>1, <2>2, <2>3, <2>4 DEF c, n
<1>4. CASE ~ Copied(job.source, now)
  <2>1. c = <<>> /\ DOMAIN c = {}
    BY <1>2, <1>4
  <2>2. ToSet(c) = {} /\ Folded(c) = c
    BY <2>1 DEF ToSet, Folded
  <2>. QED  BY <1>2, <1>4, <2>1, <2>2 DEF c, n
<1>. QED  BY <1>3, <1>4

(* Folding goes through a concatenation.                                   *)
LEMMA FoldedConcat ==
  ASSUME NEW S, NEW a \in Seq(S), NEW b \in Seq(S)
  PROVE  Folded(a \o b) = Folded(a) \o Folded(b)
<1>. DEFINE fa == Folded(a)
            fb == Folded(b)
            c == a \o b
            T == {[p EXCEPT !.wide = FALSE] : p \in S}
<1>1. /\ Len(a) \in Nat /\ Len(b) \in Nat
      /\ DOMAIN a = 1 .. Len(a) /\ DOMAIN b = 1 .. Len(b)
      /\ \A i \in 1 .. Len(a) : a[i] \in S
      /\ \A i \in 1 .. Len(b) : b[i] \in S
  OBVIOUS
<1>2. /\ DOMAIN c = 1 .. Len(a) + Len(b)
      /\ \A i \in 1 .. Len(a) + Len(b) : c[i] = IF i <= Len(a) THEN a[i] ELSE b[i - Len(a)]
  BY ConcatProperties
<1>3. /\ fa = [i \in 1 .. Len(a) |-> [a[i] EXCEPT !.wide = FALSE]]
      /\ fb = [i \in 1 .. Len(b) |-> [b[i] EXCEPT !.wide = FALSE]]
  BY <1>1 DEF Folded
<1>4. fa \in Seq(T) /\ fb \in Seq(T) /\ Len(fa) = Len(a) /\ Len(fb) = Len(b)
  <2>1. \A p \in S : [p EXCEPT !.wide = FALSE] \in T
    OBVIOUS
  <2>. HIDE DEF T, fa, fb
  <2>2. /\ \A i \in 1 .. Len(a) : [a[i] EXCEPT !.wide = FALSE] \in T
        /\ \A i \in 1 .. Len(b) : [b[i] EXCEPT !.wide = FALSE] \in T
    BY <1>1, <2>1
  <2>3. fa \in [1 .. Len(a) -> T] /\ fb \in [1 .. Len(b) -> T]
    BY <1>3, <2>2
  <2>4. \A n \in Nat : \A f \in [1 .. n -> T] : f \in Seq(T) /\ Len(f) = n
    OBVIOUS
  <2>. QED  BY <1>1, <2>3, <2>4
<1>. HIDE DEF fa, fb, c, T
<1>5. /\ \A i \in 1 .. Len(a) + Len(b) :
           (fa \o fb)[i] = IF i <= Len(a) THEN fa[i] ELSE fb[i - Len(a)]
      /\ fa \o fb = [i \in 1 .. Len(a) + Len(b) |-> (fa \o fb)[i]]
  <2>1. /\ fa \o fb \in Seq(T) /\ Len(fa \o fb) = Len(a) + Len(b)
        /\ \A i \in 1 .. Len(a) + Len(b) :
             (fa \o fb)[i] = IF i <= Len(a) THEN fa[i] ELSE fb[i - Len(a)]
    <3>1. /\ fa \o fb \in Seq(T) /\ Len(fa \o fb) = Len(fa) + Len(fb)
          /\ \A i \in 1 .. Len(fa) + Len(fb) :
               (fa \o fb)[i] = IF i <= Len(fa) THEN fa[i] ELSE fb[i - Len(fa)]
      BY ONLY <1>4, ConcatProperties
    <3>. QED  BY <1>4, <3>1
  <2>2. \A q \in Seq(T) : q = [i \in 1 .. Len(q) |-> q[i]]
    OBVIOUS
  <2>. QED  BY <2>1, <2>2
<1>6. ASSUME NEW i \in 1 .. Len(a) + Len(b)
      PROVE  [c[i] EXCEPT !.wide = FALSE] = (fa \o fb)[i]
  <2>1. CASE i <= Len(a)
    <3>1. i \in 1 .. Len(a)
      BY <1>1, <2>1
    <3>. QED  BY <1>2, <1>3, <1>5, <2>1, <3>1
  <2>2. CASE ~ (i <= Len(a))
    <3>1. i - Len(a) \in 1 .. Len(b)
      BY <1>1, <2>2
    <3>. QED  BY <1>2, <1>3, <1>5, <2>2, <3>1
  <2>. QED  BY <2>1, <2>2
<1>7. Folded(c) = [i \in 1 .. Len(a) + Len(b) |-> (fa \o fb)[i]]
  BY <1>2, <1>6 DEF Folded
<1>. QED  BY <1>5, <1>7 DEF fa, fb, c

(* What is printed of a rebuilt answer without damaged references.         *)
LEMMA PrintedText ==
  ASSUME MdInv, ~ Xliff, Flat, Done, NamesIn(reply, "bent") = {}
  PROVE  /\ MdKnown /\ text = Printed
         /\ told = Reported \cup ToSet(Closed) \cup Gates(job.source, text, job.language)
         /\ WithoutInstruction(Rebuilt) \in Seq(Shippable(Keys))
         /\ Folded(text) = <<FrontMatter>> \o WithoutInstruction(Rebuilt) \o Closed
         /\ ToSet(Closed) \subseteq ToSet(text)
<1>1. /\ MdKnown /\ text = Printed /\ reply \in Seq(MdPieces(Keys))
      /\ told = Reported \cup ToSet(Closed) \cup Gates(job.source, text, job.language)
  <2>1. stage = "done"
    BY DEF Done
  <2>2. MdKnown
    BY <2>1, IsMdKnown
  <2>. QED  BY <2>1, <2>2 DEF MdInv, Done
<1>. DEFINE s == WithoutInstruction(Rebuilt)
            S == Shippable(Keys)
            u == Punctuated(Fronted(s), job.language)
            c == Closed
            T == ToSet(u) \cup {Notice("UNTRANSLATED_UNITS")}
<1>2. s \in Seq(S)
  BY <1>1, RebuiltText
<1>3. \A p \in S : p = Piece(p.is, p.name) /\ p # FrontMatter
  BY <1>1, ShippableFacts DEF MdKnown
<1>4. text = u \o c /\ c \in Seq({Notice("UNTRANSLATED_UNITS")}) /\ Folded(c) = c
  BY <1>1, ClosingFacts DEF Printed, Closed
<1>5. Folded(u) = <<FrontMatter>> \o s /\ u \in Seq(ToSet(u))
  <2>. HIDE DEF s, S
  <2>. QED  BY <1>2, <1>3, PrintedFacts
<1>. HIDE DEF s, S, u, c
<1>6. u \in Seq(T) /\ c \in Seq(T)
  BY <1>4, <1>5 DEF ToSet
<1>. HIDE DEF T
<1>7. Folded(text) = Folded(u) \o Folded(c)
  BY <1>4, <1>6, FoldedConcat
<1>8. ToSet(c) \subseteq ToSet(text)
  <2>1. /\ Len(u) \in Nat /\ Len(c) \in Nat /\ DOMAIN c = 1 .. Len(c)
        /\ DOMAIN text = 1 .. Len(u) + Len(c)
        /\ \A i \in 1 .. Len(u) + Len(c) : text[i] = IF i <= Len(u) THEN u[i] ELSE c[i - Len(u)]
    BY <1>4, <1>6, ConcatProperties
  <2>2. ASSUME NEW i \in 1 .. Len(c)
        PROVE  c[i] \in ToSet(text)
    <3>1. Len(u) + i \in 1 .. Len(u) + Len(c) /\ ~ (Len(u) + i <= Len(u)) /\ Len(u) + i - Len(u) = i
      BY <2>1
    <3>2. text[Len(u) + i] = c[i]
      BY <2>1, <3>1
    <3>. QED  BY <2>1, <3>1, <3>2 DEF ToSet
  <2>. QED  BY <2>1, <2>2 DEF ToSet
<1>. QED  BY <1>1, <1>2, <1>4, <1>5, <1>7, <1>8 DEF s, S, c

(* Each protected element of a Markdown text without nesting ships exactly *)
(* once, whatever the model did to its marker (T13-02).                    *)
THEOREM ElementsShipOnce == RepairSpec => []ShieldedOnce
<1>1. ASSUME MdInv, Done, ~ Xliff, Flat, NamesIn(reply, "bent") = {}, NEW k \in Keys
      PROVE  Count(Folded(text), shield.value[k][1]) = 1
  <2>. DEFINE s == WithoutInstruction(Rebuilt)
              front == <<FrontMatter>>
              c == Closed
              T == Shippable(Keys) \cup {FrontMatter, Notice("UNTRANSLATED_UNITS")}
  <2>1. MdKnown /\ Folded(text) = front \o s \o c
    BY <1>1, PrintedText
  <2>2. s \in Seq(Shippable(Keys)) /\ Once(s, Kept(k))
    <3>1. reply \in Seq(MdPieces(Keys))
      BY <1>1 DEF MdInv
    <3>. QED  BY <1>1, <2>1, <3>1, RebuiltText
  <2>. HIDE DEF s
  <2>3. s \in Seq(T) /\ front \in Seq(T) /\ c \in Seq(T)
    BY <2>2, ClosingFacts DEF Closed
  <2>4. Kept(k) \notin ToSet(front) /\ Kept(k) \notin ToSet(c)
    <3>1. Kept(k).is # "notice" /\ FrontMatter.is = "notice" /\ Notice("UNTRANSLATED_UNITS").is = "notice"
      BY DEF Kept, Naked, Raw, FrontMatter, Notice, Piece
    <3>2. ToSet(front) = {FrontMatter} /\ ToSet(c) \subseteq {Notice("UNTRANSLATED_UNITS")}
      BY ClosingFacts DEF ToSet, Closed
    <3>. QED  BY <3>1, <3>2
  <2>. HIDE DEF front, c, T
  <2>5. Once(front \o s, Kept(k)) /\ front \o s \in Seq(T)
    BY <2>2, <2>3, <2>4, OnceConcat
  <2>5a. Once(front \o s \o c, Kept(k))
    BY <2>3, <2>4, <2>5, OnceConcat
  <2>6. shield.value[k][1] = Kept(k)
    BY <2>1 DEF MdKnown
  <2>. QED  BY <2>1, <2>5a, <2>6, OnceIsCounted
<1>2. MdInv => ShieldedOnce
  BY <1>1 DEF ShieldedOnce
<1>. QED  BY <1>2, MdInvariance, PTL

(* The pieces of an answer that is faithful.                               *)
LEMMA FaithfulPieces ==
  ASSUME MdInv, ~ Xliff, Flat, Done, Faithful
  PROVE  /\ \A i \in DOMAIN reply :
              \/ reply[i].name \in Keys /\ reply[i] = Mark(reply[i].name)
              \/ reply[i].name \notin Keys /\ reply[i] \in {Word(w) : w \in Vocabulary}
         /\ NamesIn(reply, "bent") = {} /\ Singly(reply, Keys)
<1>1. MdKnown /\ reply \in Seq(MdPieces(Keys))
  <2>1. stage # "new"
    BY DEF Done
  <2>. QED  BY <2>1, IsMdKnown DEF MdInv
<1>2. /\ DOMAIN reply = 1 .. Len(reply) /\ Len(reply) \in Nat
      /\ \A i \in DOMAIN reply : reply[i] \in MdPieces(Keys)
  BY <1>1
<1>3. \A i \in DOMAIN reply : reply[i].is \in {"mark", "word"} /\ reply[i] # Word("instruction")
  BY DEF Faithful, Forms
<1>4. \A w \in Vocabulary : Word(w).name \notin Keys
  BY <1>1, WordsApart DEF MdKnown
<1>5. ASSUME NEW i \in DOMAIN reply
      PROVE  \/ reply[i].name \in Keys /\ reply[i] = Mark(reply[i].name)
             \/ reply[i].name \notin Keys /\ reply[i] \in {Word(w) : w \in Vocabulary}
  <2>1. CASE reply[i].is = "mark"
    BY <1>2, <2>1 DEF MdPieces, Mark, Bare, Bent, Word, Piece
  <2>2. CASE reply[i].is = "word"
    <3>1. reply[i] \in {Word(w) : w \in Vocabulary}
      BY <1>2, <1>3, <2>2 DEF MdPieces, Mark, Bare, Bent, Piece
    <3>. QED  BY <1>4, <3>1
  <2>. QED  BY <1>3, <2>1, <2>2
<1>6. NamesIn(reply, "bent") = {}
  BY <1>3 DEF NamesIn
<1>7. ASSUME NEW k \in Keys
      PROVE  Once(reply, Mark(k))
  <2>. DEFINE places == {i \in DOMAIN reply : reply[i].name = k}
  <2>1. Cardinality(places) = 1
    BY DEF Faithful
  <2>2. \A i \in DOMAIN reply : reply[i] = Mark(k) <=> reply[i].name = k
    BY <1>5 DEF Mark, Piece
  <2>3. Count(reply, Mark(k)) = Cardinality(places)
    BY <2>2 DEF Count
  <2>4. IsFiniteSet(DOMAIN reply)
    BY <1>2, FS_Interval
  <2>. QED  BY <2>1, <2>3, <2>4, CountedIsOnce
<1>. QED  BY <1>5, <1>6, <1>7 DEF Singly

(* The gates say nothing of a repair, and do not count what is             *)
(* untranslated.                                                           *)
LEMMA GatesSay ==
  ASSUME NEW source, NEW target, NEW language, NEW n \in Gates(source, target, language)
  PROVE  n.is = "notice" /\ n # Warning("missing_shields") /\ n # Notice("UNTRANSLATED_UNITS")
<1>1. PICK code \in {"INLINE_TAG_MISMATCH", "TERMINOLOGY_INCONSISTENCY", "TERM_ABSENT", "LENGTH_RATIO", "LOCALE",
                     "SOURCE_COPY", "SOURCE_SCRIPT_FRAGMENT", "PROTOCOL_ARTIFACT", "INVENTED_TOKEN"} :
        n = Notice(code)
  BY Zenon DEF Gates
<1>2. code # "missing_shields" /\ code # "UNTRANSLATED_UNITS"
  BY <1>1
<1>. QED  BY <1>1, <1>2 DEF Warning, Notice, Piece, Name

(* An answer that holds every marker of a Markdown text without nesting    *)
(* once ships with the elements for their markers, between the frontmatter *)
(* and the notice there may be, and no repair is reported.                 *)
LEMMA FaithfulTextShips ==
  ASSUME MdInv, ~ Xliff, Flat, Done, Faithful
  PROVE  /\ Folded(text) = <<FrontMatter>> \o
              Turned(reply, LAMBDA p : IF p.name \in Keys THEN shield.value[p.name] ELSE <<p>>) \o Notices
         /\ ~ \E n \in told : n.is = "appended" \/ n = Warning("missing_shields")
<1>1. /\ \A i \in DOMAIN reply :
           \/ reply[i].name \in Keys /\ reply[i] = Mark(reply[i].name)
           \/ reply[i].name \notin Keys /\ reply[i] \in {Word(w) : w \in Vocabulary}
      /\ NamesIn(reply, "bent") = {} /\ Singly(reply, Keys)
  BY FaithfulPieces
<1>2. /\ MdKnown /\ told = Reported \cup ToSet(Closed) \cup Gates(job.source, text, job.language)
      /\ Folded(text) = <<FrontMatter>> \o WithoutInstruction(Rebuilt) \o Closed
  BY <1>1, PrintedText
<1>. DEFINE r == Turning(reply, Keys)
<1>3. /\ reply \in Seq(MdPieces(Keys)) /\ Rebuilt = r /\ r \in Seq(Shippable(Keys))
  <2>1. reply \in Seq(MdPieces(Keys))
    BY DEF MdInv
  <2>. QED  BY <1>1, <1>2, <2>1, RebuiltText
<1>4. /\ DOMAIN r = DOMAIN reply /\ r = [i \in DOMAIN r |-> r[i]]
      /\ \A i \in DOMAIN reply : r[i] = IF reply[i].is = "mark" /\ reply[i].name \in Keys
                                        THEN Kept(reply[i].name) ELSE reply[i]
  BY DEF Turning
<1>. HIDE DEF r
<1>5. \A i \in DOMAIN reply : r[i] = IF reply[i].name \in Keys THEN Kept(reply[i].name) ELSE reply[i]
  BY <1>1, <1>4 DEF Mark, Piece
<1>6. \A i \in DOMAIN r : r[i].is \in {"raw", "naked", "word"} /\ r[i] # Word("instruction")
  <2>1. \A i \in DOMAIN reply :
          reply[i].name \notin Keys => reply[i].is = "word" /\ reply[i] # Word("instruction")
    <3>1. \A w \in Vocabulary : Word(w).is = "word" /\ Word(w) # Word("instruction")
      BY DEF Vocabulary, Word, Piece, Name
    <3>. QED  BY <1>1, <3>1
  <2>2. \A k \in Keys : Kept(k).is \in {"raw", "naked"} /\ Kept(k) # Word("instruction")
    BY DEF Kept, Naked, Raw, Word, Piece
  <2>. QED  BY <1>4, <1>5, <2>1, <2>2
<1>7. WithoutInstruction(r) = r
  <2>1. Word("instruction") \notin ToSet(r)
    BY <1>6 DEF ToSet
  <2>2. Keys \in SUBSET Elements
    BY <1>2 DEF MdKnown
  <2>. QED  BY <1>3, <2>1, <2>2, WithoutFacts
<1>8. Turned(reply, LAMBDA p : IF p.name \in Keys THEN shield.value[p.name] ELSE <<p>>) = r
  <2>1. \A i \in DOMAIN reply : (IF reply[i].name \in Keys THEN shield.value[reply[i].name] ELSE <<reply[i]>>)
                                  = <<r[i]>>
    BY <1>2, <1>5 DEF MdKnown
  <2>2. Turned(reply, LAMBDA p : IF p.name \in Keys THEN shield.value[p.name] ELSE <<p>>)
          = FlattenSeq([i \in DOMAIN r |-> <<r[i]>>])
    BY <1>4, <2>1 DEF Turned
  <2>3. FlattenSeq([i \in DOMAIN r |-> <<r[i]>>]) = r
    BY <1>3, FlattenSingles
  <2>. QED  BY <2>2, <2>3
<1>9. Reported = {}
  <2>1. \A n \in ToSet(r) : n.is # "notice"
    BY <1>6 DEF ToSet
  <2>. QED  BY <1>3, <2>1 DEF Reported
<1>10. \A n \in told : n.is = "notice" /\ n # Warning("missing_shields")
  <2>1. /\ Notice("UNTRANSLATED_UNITS").is = "notice"
        /\ Notice("UNTRANSLATED_UNITS") # Warning("missing_shields")
    BY DEF Notice, Warning, Piece, Name
  <2>2. \A n \in ToSet(Closed) : n = Notice("UNTRANSLATED_UNITS")
    BY ClosingFacts DEF Closed
  <2>. QED  BY <1>2, <1>9, <2>1, <2>2, GatesSay
<1>10a. Closed = Notices
  <2>1. Notice("UNTRANSLATED_UNITS") \in told <=> Notice("UNTRANSLATED_UNITS") \in ToSet(Closed)
    BY <1>2, <1>9, GatesSay
  <2>. QED  BY <2>1, ClosingFacts DEF Closed, Notices
<1>11. \A n \in told : ~ (n.is = "appended" \/ n = Warning("missing_shields"))
  BY <1>10
<1>. QED  BY <1>2, <1>3, <1>7, <1>8, <1>10a, <1>11

(* A faithful answer is not touched, in either channel: what ships is the  *)
(* answer with its placeholders replaced, and no repair is reported        *)
(* (T13-02, #244).                                                         *)
THEOREM FaithfulAnswersShip == RepairSpec => []FaithfulShips
<1>1. MdInv /\ ~ Xliff => FaithfulShips
  BY FaithfulTextShips DEF FaithfulShips
<1>2. MdInv /\ (Xliff => FaithfulShips) => FaithfulShips
  BY <1>1
<1>. QED  BY <1>2, MdInvariance, FaithfulUnitsShip, PTL

(* A Markdown text without inline code that the model gave back as it was  *)
(* sent is its source again.                                               *)
LEMMA EchoedText ==
  ASSUME MdInv, ~ Xliff, Flat, Done, reply = shield.text, \A k \in Keys : k.kind # "inline_code"
  PROVE  NamesIn(reply, "bent") = {} /\ WithoutInstruction(Rebuilt) = job.source
<1>. DEFINE src == job.source
<1>1. /\ MdKnown /\ reply \in Seq(MdPieces(Keys)) /\ reply = Marked(src, Keys)
  <2>1. stage # "new"
    BY DEF Done
  <2>. QED  BY <2>1, IsMdKnown DEF MdInv, MdKnown
<1>2. /\ DOMAIN src = 1 .. Len(src) /\ src = [i \in DOMAIN src |-> src[i]]
      /\ \A i \in DOMAIN src : src[i] \in {Raw(k) : k \in Keys} \cup {Word(w) : w \in Vocabulary}
      /\ \A k \in Keys : Once(src, Raw(k))
  BY <1>1 DEF MdKnown
<1>. HIDE DEF src
<1>3. ASSUME NEW i \in DOMAIN src
      PROVE  \/ src[i].name \in Keys /\ src[i] = Raw(src[i].name) /\ src[i].is = "raw"
             \/ src[i].is = "word" /\ src[i] \in {Word(w) : w \in Vocabulary}
  BY <1>2 DEF Raw, Word, Piece
<1>4. /\ DOMAIN reply = DOMAIN src
      /\ \A i \in DOMAIN src : reply[i] = IF src[i].is = "raw" THEN Mark(src[i].name) ELSE src[i]
  BY <1>1, <1>3 DEF Marked
<1>5. NamesIn(reply, "bent") = {}
  <2>1. \A p : Mark(p).is = "mark"
    BY DEF Mark, Piece
  <2>2. \A i \in DOMAIN reply : reply[i].is \in {"mark", "word"}
    BY <1>3, <1>4, <2>1
  <2>. QED  BY <2>2 DEF NamesIn
<1>6. ASSUME NEW k \in Keys
      PROVE  Once(reply, Mark(k))
  <2>1. \A i \in DOMAIN src : reply[i] = Mark(k) <=> src[i] = Raw(k)
    <3>1. \A p : Mark(p).is = "mark" /\ Mark(p).name = p /\ Raw(p).is = "raw" /\ Raw(p).name = p
      BY DEF Mark, Raw, Piece
    <3>. QED  BY <1>3, <1>4, <3>1
  <2>2. PICK i \in DOMAIN src : \A j \in DOMAIN src : src[j] = Raw(k) <=> j = i
    BY <1>2 DEF Once
  <2>. QED  BY <1>4, <2>1, <2>2 DEF Once
<1>7. Turning(reply, Keys) = src
  <2>1. \A k \in Keys : Kept(k) = Raw(k) /\ Mark(k).is = "mark" /\ Mark(k).name = k
    BY DEF Kept, Mark, Piece
  <2>2. \A i \in DOMAIN src : (IF reply[i].is = "mark" /\ reply[i].name \in Keys
                               THEN Kept(reply[i].name) ELSE reply[i]) = src[i]
    <3>. TAKE i \in DOMAIN src
    <3>1. CASE src[i].is = "raw"
      BY <1>3, <1>4, <2>1, <3>1
    <3>2. CASE src[i].is # "raw"
      BY <1>3, <1>4, <3>2
    <3>. QED  BY <3>1, <3>2
  <2>. QED  BY <1>2, <1>4, <2>2 DEF Turning
<1>8. Rebuilt = src /\ src \in Seq(Shippable(Keys))
  BY <1>1, <1>5, <1>6, <1>7, RebuiltText DEF Singly
<1>9. Word("instruction") \notin ToSet(src)
  <2>1. \A w \in Vocabulary : Word(w) # Word("instruction")
    BY DEF Vocabulary, Word, Piece, Name
  <2>2. \A i \in DOMAIN src : src[i] # Word("instruction")
    BY <1>3, <2>1 DEF Word, Piece
  <2>. QED  BY <2>2 DEF ToSet
<1>10. WithoutInstruction(src) = src
  BY <1>1, <1>8, <1>9, WithoutFacts DEF MdKnown
<1>. QED  BY <1>5, <1>8, <1>10 DEF src

(* A text that the model gave back as it was sent is told to be its        *)
(* source: an XLIFF unit by gate 5, a Markdown text by the notice it ends  *)
(* in, although its elements were shielded and restored in between.        *)
THEOREM EchoesAreTold == RepairSpec => []EchoIsTold
<1>1. ASSUME MdInv, ~ Xliff, Flat, Done, reply = shield.text,
             Kinds(job.source) \cap SourceScript # {}, \A k \in Keys : k.kind # "inline_code"
      PROVE  Notice("UNTRANSLATED_UNITS") \in told \cap ToSet(text)
  <2>1. NamesIn(reply, "bent") = {} /\ WithoutInstruction(Rebuilt) = job.source
    BY <1>1, EchoedText
  <2>2. /\ told = Reported \cup ToSet(Closed) \cup Gates(job.source, text, job.language)
        /\ ToSet(Closed) \subseteq ToSet(text)
    BY <1>1, <2>1, PrintedText
  <2>3. Copied(job.source, WithoutInstruction(Rebuilt))
    BY <1>1, <2>1 DEF Copied
  <2>4. Notice("UNTRANSLATED_UNITS") \in ToSet(Closed)
    BY <2>3, ClosingFacts DEF Closed
  <2>. QED  BY <2>2, <2>4
<1>2. MdInv /\ ~ Xliff => EchoIsTold
  BY <1>1 DEF EchoIsTold
<1>3. MdInv /\ (Xliff => EchoIsTold) => EchoIsTold
  BY <1>2
<1>. QED  BY <1>3, MdInvariance, EchoedUnitsAreTold, PTL
=============================================================================
