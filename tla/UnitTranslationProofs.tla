----------------------- MODULE UnitTranslationProofs -----------------------
(***************************************************************************)
(* Proofs about UnitTranslation, for any number of units, slots and        *)
(* retries and any threshold.  The operators on records are followed in    *)
(* the order a coroutine runs through them, each with the condition of     *)
(* UnitTranslation that holds before it, up to UnitOK of the record an     *)
(* action leaves behind.                                                   *)
(***************************************************************************)
EXTENDS UnitTranslation, SequenceTheorems, TLAPS

(* A unit's record that has its type and what UnitOK says of it. *)
Good(u, r) == r \in UnitStates /\ UnitOK(u, r)

(* The result of a unit is counted if, and only if, it is a copy. *)
LEMMA FinishedGood ==
  ASSUME NEW u \in Units, NEW r \in UnitStates, Closing(r)
  PROVE  Good(u, Finished(u, r))
<1>1. Finished(u, r) \in UnitStates
  BY DEF Finished, UnitStates, Notes, Places, IsCopy
<1>2. Closing(Finished(u, r))
  BY DEF Finished, UnitStates, Closing, CopyBudget, BestText
<1>3. Counted(u, Finished(u, r)) /\ Finished(u, r).pc = "done"
  BY DEF Finished, UnitStates, Counted, IsCopy
<1>. QED  BY <1>1, <1>2, <1>3 DEF Good, UnitOK

(* From the copy loop's head, to a pause or to the end. *)
LEMMA CopyCheckedGood ==
  ASSUME NEW u \in Units, NEW r \in UnitStates, Closing(r)
  PROVE  Good(u, CopyChecked(u, r))
<1>1. CASE IsCopy(u, r.text) /\ r.copies < CopyAttempts
  BY <1>1 DEF CopyChecked, Good, UnitStates, UnitOK, Closing, CopyBudget, IsCopy, Places
<1>2. CASE ~(IsCopy(u, r.text) /\ r.copies < CopyAttempts)
  BY <1>2, FinishedGood DEF CopyChecked
<1>. QED  BY <1>1, <1>2

(* A blank text becomes the source before the copy check looks at it. *)
LEMMA SettledGood ==
  ASSUME NEW u \in Units, NEW r \in UnitStates, Settling(r)
  PROVE  Good(u, Settled(u, r))
<1>1. CASE r.text = Blank
  <2>. DEFINE t == [r EXCEPT !.text = Source,
                             !.notes = IF @ = {} THEN {"EMPTY_LLM_OUTPUT"} ELSE @]
  <2>1. t \in UnitStates
    BY DEF UnitStates, Texts, Notes
  <2>2. Closing(t)
    BY <1>1, UnitAssumption DEF Settling, Closing, CopyBudget, BestText, Shipped, UnitStates
  <2>3. Settled(u, r) = CopyChecked(u, t)
    BY <1>1 DEF Settled
  <2>. HIDE DEF t
  <2>. QED  BY <2>1, <2>2, <2>3, CopyCheckedGood
<1>2. CASE r.text # Blank
  <2>1. Closing(r)
    BY <1>2 DEF Settling, Closing, Shipped
  <2>2. Settled(u, r) = CopyChecked(u, r)
    BY <1>2 DEF Settled
  <2>. QED  BY <2>1, <2>2, CopyCheckedGood
<1>. QED  BY <1>1, <1>2

(* An answer of the pool: on to the judge, or to the end. *)
LEMMA ReceivedGood ==
  ASSUME NEW u \in Units, NEW r \in UnitStates, NEW text \in Texts,
         WhileAsked(r)
  PROVE  Good(u, Received(u, r, text))
<1>1. CASE Lqa
  BY <1>1 DEF Received, Good, UnitStates, UnitOK, WhileAsked, BestOK, Places
<1>2. CASE ~Lqa
  <2>. DEFINE t == [r EXCEPT !.text = text]
  <2>1. t \in UnitStates
    BY DEF UnitStates
  <2>2. r.history = <<>> /\ Len(r.history) = 0
    BY <1>2 DEF WhileAsked
  <2>3. Settling(t)
    BY <2>2, UnitAssumption
       DEF Settling, CopyBudget, BestText, WhileAsked, UnitStates
  <2>4. Received(u, r, text) = Settled(u, t)
    BY <1>2 DEF Received
  <2>. HIDE DEF t
  <2>. QED  BY <2>1, <2>3, <2>4, SettledGood
<1>. QED  BY <1>1, <1>2

(* A request at temperature 0, or the cache's answer in its place. *)
LEMMA AskedGood ==
  ASSUME NEW u \in Units, NEW r \in UnitStates, BeforeAsk(r)
  PROVE  Good(u, Asked(u, r))
<1>1. WhileAsked(r)
  BY DEF BeforeAsk, WhileAsked, UnitStates
<1>2. CASE r.kept # None
  <2>1. r.kept \in Texts
    BY <1>2 DEF UnitStates
  <2>. QED  BY <1>1, <1>2, <2>1, ReceivedGood DEF Asked
<1>3. CASE r.kept = None
  <2>. DEFINE t == [r EXCEPT !.pc = "asking", !.asks = @ + 1]
  <2>0. r.asks + 1 \in Nat
    BY DEF UnitStates
  <2>1. t \in UnitStates /\ t.pc = "asking"
    BY <2>0 DEF UnitStates, Places
  <2>2. t.asks = r.asks + 1 /\ t.copies = r.copies /\ t.status = r.status
        /\ t.history = r.history /\ t.best = r.best
    BY DEF UnitStates
  <2>3. r.asks \in Nat /\ Len(r.history) \in Nat
    BY DEF UnitStates
  <2>4. Asked(u, r) = t
    BY <1>3 DEF Asked
  <2>. HIDE DEF t
  <2>5. WhileAsked(t)
    BY <2>2, <2>3 DEF BeforeAsk, WhileAsked, BestOK
  <2>. QED  BY <2>1, <2>4, <2>5 DEF Good, UnitOK
<1>. QED  BY <1>2, <1>3

(* The score of one more attempt: best stays a best attempt. *)
LEMMA ScoredBest ==
  ASSUME NEW r \in UnitStates, NEW score \in Scores, BestOK(r)
  PROVE  LET t == Scored(r, score) IN
         /\ t \in UnitStates
         /\ BestOK(t)
         /\ Len(t.history) = Len(r.history) + 1
         /\ \A f \in {"asks", "copies"} : t[f] = r[f]
         /\ t.status = r.status
         /\ t.history[Len(t.history)] = [text |-> r.cand, score |-> score]
<1>. DEFINE H == [text : Texts, score : Scores]
            e == [text |-> r.cand, score |-> score]
            h == Append(r.history, e)
            t == Scored(r, score)
<1>1. r.history \in Seq(H) /\ r.best \in Nat /\ r.cand \in Texts
  BY DEF UnitStates
<1>2. e \in H /\ e.score = score
  BY <1>1
<1>3. /\ h \in Seq(H) /\ h # <<>> /\ Len(h) = Len(r.history) + 1
      /\ \A i \in 1 .. Len(r.history) : h[i] = r.history[i]
      /\ h[Len(r.history) + 1] = e
  <2>. HIDE DEF e, H
  <2>. QED  BY <1>1, <1>2, AppendProperties
<1>4. /\ t.history = h
      /\ t.best = IF r.best = 0 \/ score > r.history[r.best].score
                  THEN Len(r.history) + 1 ELSE r.best
      /\ t.asks = r.asks /\ t.copies = r.copies /\ t.status = r.status
  BY DEF Scored, UnitStates
<1>5. t \in UnitStates
  <2>1. Len(r.history) + 1 \in Nat
    BY <1>1
  <2>. QED  BY <1>1, <1>3, <2>1 DEF Scored, UnitStates
<1>6. BestOK(t)
  <2>1. DOMAIN h = 1 .. Len(r.history) + 1 /\ DOMAIN r.history = 1 .. Len(r.history)
        /\ Len(r.history) \in Nat
    BY <1>1, <1>3
  <2>2. \A i \in 1 .. Len(r.history) : r.history[i].score \in Nat
    <3>1. \A x \in H : x.score \in Nat
      BY UnitAssumption DEF Scores
    <3>2. \A i \in 1 .. Len(r.history) : r.history[i] \in H
      <4>. HIDE DEF H
      <4>. QED  BY <1>1
    <3>. HIDE DEF H
    <3>. QED  BY <3>1, <3>2
  <2>3. score \in Nat
    BY UnitAssumption DEF Scores
  <2>4. t.best \in 1 .. Len(r.history) + 1
    BY <1>4, <2>1 DEF BestOK
  <2>5. \A i \in DOMAIN h : h[i].score <= h[t.best].score
    <3>. HIDE DEF e, h, t, H
    <3>1. CASE r.best = 0
      BY <3>1, <1>2, <1>3, <1>4, <2>1, <2>2, <2>3 DEF BestOK
    <3>2. CASE r.best # 0 /\ score > r.history[r.best].score
      <4>1. h[t.best] = e /\ e.score = score
        BY <3>2, <1>2, <1>3, <1>4
      <4>2. /\ r.best \in 1 .. Len(r.history)
            /\ \A i \in 1 .. Len(r.history) : r.history[i].score <= r.history[r.best].score
        BY <3>2, <2>1 DEF BestOK
      <4>3. \A i \in 1 .. Len(r.history) : h[i].score <= score
        BY <3>2, <4>2, <1>3, <2>2, <2>3
      <4>4. h[Len(r.history) + 1].score <= score
        BY <1>2, <1>3, <2>3
      <4>. QED  BY <4>1, <4>3, <4>4, <2>1
    <3>3. CASE r.best # 0 /\ ~(score > r.history[r.best].score)
      <4>1. r.best \in 1 .. Len(r.history) /\ t.best = r.best
        BY <3>3, <1>4, <2>1 DEF BestOK
      <4>2. h[t.best] = r.history[r.best] /\ r.history[r.best].score \in Nat
        BY <4>1, <1>3, <2>2
      <4>3. \A i \in 1 .. Len(r.history) : h[i].score <= h[t.best].score
        BY <4>2, <1>3, <2>1 DEF BestOK
      <4>4. h[Len(r.history) + 1].score <= h[t.best].score
        BY <3>3, <4>2, <1>2, <1>3, <2>3
      <4>. QED  BY <4>3, <4>4, <2>1
    <3>. QED  BY <3>1, <3>2, <3>3
  <2>. HIDE DEF e, h, t, H
  <2>. QED  BY <1>3, <1>4, <2>1, <2>4, <2>5 DEF BestOK
<1>. HIDE DEF H, h
<1>. QED  BY <1>3, <1>4, <1>5, <1>6

(* After a score, whatever the loop decides. *)
LEMMA JudgedGood ==
  ASSUME NEW u \in Units, NEW r \in UnitStates, NEW score \in Scores,
         WhileAsked(r), Lqa
  PROVE  Good(u, Judged(u, Scored(r, score)))
<1>. DEFINE t == Scored(r, score)
            last == t.history[Len(t.history)]
            n == Len(r.history)
<1>1. t \in UnitStates /\ BestOK(t) /\ Len(t.history) = n + 1
      /\ t.asks = r.asks /\ t.copies = r.copies /\ t.status = r.status
      /\ last = [text |-> r.cand, score |-> score]
  BY ScoredBest DEF WhileAsked
<1>2. /\ r.asks <= n + 1 /\ n <= MaxRetries /\ n \in Nat /\ r.asks \in Nat
      /\ r.copies = 1 /\ r.status = "ok" /\ r.cand \in Texts
  BY DEF WhileAsked, UnitStates
<1>3. /\ last.text \in Texts /\ last.text = r.cand /\ last.score = score
      /\ score \in Nat /\ score <= Pass /\ Pass \in Nat
  BY <1>1, <1>2, UnitAssumption DEF Scores
<1>4. /\ t.history \in Seq([text : Texts, score : Scores])
      /\ DOMAIN t.history = 1 .. n + 1
  BY <1>1, <1>2 DEF UnitStates
<1>9. \A j \in DOMAIN t.history :
        /\ t.history[j].text \in Texts
        /\ t.history[j].score \in Nat /\ t.history[j].score <= Pass
  <2>. DEFINE H == [text : Texts, score : Scores]
  <2>1. \A x \in H : x.text \in Texts /\ x.score \in Nat /\ x.score <= Pass
    BY UnitAssumption DEF Scores
  <2>2. t.history \in Seq(H)
    BY <1>4
  <2>3. \A j \in DOMAIN t.history : t.history[j] \in H
    <3>. HIDE DEF H, t
    <3>. QED  BY <2>2
  <2>. HIDE DEF H, t
  <2>. QED  BY <2>1, <2>3
<1>5. CopyBudget(t)
  BY <1>1, <1>2, UnitAssumption DEF CopyBudget
<1>. HIDE DEF t
<1>6. CASE last.score >= Pass
  <2>. DEFINE s == [t EXCEPT !.text = last.text]
  <2>1. s \in UnitStates
    BY <1>1, <1>3 DEF UnitStates
  <2>2. /\ s.history = t.history /\ s.text = last.text /\ s.asks = t.asks
        /\ s.copies = t.copies /\ s.status = t.status
    BY <1>1 DEF UnitStates
  <2>4. \A j \in DOMAIN t.history : t.history[j].score <= last.score
    BY <1>3, <1>6, <1>9
  <2>5. Judged(u, t) = Settled(u, s)
    BY <1>6 DEF Judged
  <2>. HIDE DEF s
  <2>6. Settling(s)
    BY <1>1, <1>2, <1>4, <1>5, <2>2, <2>4 DEF Settling, BestText, CopyBudget
  <2>. QED  BY <2>1, <2>5, <2>6, SettledGood DEF t
<1>7. CASE ~(last.score >= Pass) /\ Len(t.history) <= MaxRetries
  <2>1. BeforeAsk(t)
    BY <1>1, <1>2, <1>7, Lqa DEF BeforeAsk
  <2>2. Judged(u, t) = Asked(u, t)
    BY <1>7 DEF Judged
  <2>. QED  BY <1>1, <2>1, <2>2, AskedGood DEF t
<1>8. CASE ~(last.score >= Pass) /\ ~(Len(t.history) <= MaxRetries)
  <2>. DEFINE s == [t EXCEPT !.text = t.history[t.best].text, !.notes = {"Low_Score"}]
  <2>1. t.best \in DOMAIN t.history
    BY <1>1, <1>2, <1>4 DEF BestOK
  <2>2. s \in UnitStates
    <3>1. t.history[t.best].text \in Texts
      BY <1>9, <2>1
    <3>. QED  BY <3>1, <1>1 DEF UnitStates, Notes
  <2>3. /\ s.history = t.history /\ s.text = t.history[t.best].text /\ s.asks = t.asks
        /\ s.copies = t.copies /\ s.status = t.status
    BY <1>1 DEF UnitStates
  <2>4. Judged(u, t) = Settled(u, s)
    BY <1>8 DEF Judged
  <2>. HIDE DEF s
  <2>5. Settling(s)
    BY <1>1, <1>5, <2>1, <2>3 DEF Settling, BestText, CopyBudget, BestOK
  <2>. QED  BY <2>2, <2>4, <2>5, SettledGood DEF t
<1>. QED  BY <1>6, <1>7, <1>8 DEF t

-----------------------------------------------------------------------------
(* An action on one unit leaves a good record in its place, and the others *)
(* as they were.                                                           *)
LEMMA UnitBecomes ==
  ASSUME IInv, NEW u \in Units, NEW r, Good(u, r), Becomes(u, r)
  PROVE  IInv'
<1>1. \A v \in Units : unit'[v] = IF v = u THEN r ELSE unit[v]
  BY DEF IInv, TypeOK, Becomes
<1>2. TypeOK'
  BY DEF IInv, TypeOK, Becomes, Good
<1>3. \A v \in Units : UnitOK(v, unit'[v])
  BY <1>1 DEF IInv, Good
<1>. QED  BY <1>2, <1>3 DEF IInv

LEMMA InitIInv == Init => IInv
<1>. SUFFICES ASSUME Init PROVE IInv
  OBVIOUS
<1>. DEFINE r == [pc |-> "queued", asks |-> 0, kept |-> None, cand |-> Source,
       history |-> <<>>, best |-> 0, text |-> Source, notes |-> {}, status |-> "ok",
       copies |-> 1, untranslated |-> FALSE]
<1>1. r \in UnitStates
  BY UnitAssumption DEF UnitStates, Places, Texts, Notes
<1>2. BeforeAsk(r)
  BY UnitAssumption DEF BeforeAsk, BestOK
<1>3. r.pc = "queued"
  OBVIOUS
<1>4. \A u \in Units : unit[u] = r
  BY DEF Init
<1>5. TypeOK
  BY <1>1 DEF Init, TypeOK
<1>. HIDE DEF r
<1>. QED  BY <1>2, <1>3, <1>4, <1>5 DEF IInv, UnitOK

LEMMA StepIInv ==
  ASSUME IInv, NEW u \in Units, Step(u) \/ Forget(u)
  PROVE  IInv'
<1>. DEFINE r == unit[u]
<1>1. r \in UnitStates /\ UnitOK(u, r)
  BY DEF IInv, TypeOK
<1>2. r.asks \in Nat /\ r.copies \in Nat /\ r.cand \in Texts
      /\ r.history \in Seq([text : Texts, score : Scores])
  BY <1>1 DEF UnitStates
<1>3. Replies(u) \subseteq Texts
  BY <1>2 DEF Replies, Texts
<1>4. CASE Start(u)
  <2>1. BeforeAsk(r)
    BY <1>1, <1>4 DEF Start, UnitOK
  <2>2. Good(u, Asked(u, r))
    BY <1>1, <2>1, AskedGood
  <2>. QED  BY <1>4, <2>2, UnitBecomes DEF Start
<1>5. ASSUME NEW text \in Replies(u), Answer(u, text)
      PROVE  IInv'
  <2>. DEFINE s == [r EXCEPT !.kept = text]
  <2>1. WhileAsked(r)
    BY <1>1, <1>5 DEF Answer, UnitOK
  <2>2. s \in UnitStates
    BY <1>1, <1>3 DEF UnitStates
  <2>3. WhileAsked(s)
    BY <1>1, <2>1 DEF WhileAsked, BestOK, UnitStates
  <2>4. Becomes(u, Received(u, s, text))
    BY <1>5 DEF Answer
  <2>. HIDE DEF s
  <2>5. Good(u, Received(u, s, text))
    BY <1>3, <2>2, <2>3, ReceivedGood
  <2>. QED  BY <2>4, <2>5, UnitBecomes
<1>6. ASSUME NEW text \in Replies(u), ReaskAnswers(u, text)
      PROVE  IInv'
  <2>. DEFINE s == [r EXCEPT !.text = text]
  <2>1. CopyBudget(r) /\ IsCopy(u, r.text) /\ r.copies > 1
    BY <1>1, <1>6 DEF ReaskAnswers, UnitOK
  <2>2. CASE text = Blank /\ Becomes(u, Finished(u, r))
    <3>1. Closing(r)
      BY <2>1, UnitAssumption DEF Closing, BestText, IsCopy
    <3>. QED  BY <1>1, <2>2, <3>1, FinishedGood, UnitBecomes
  <2>3. CASE text # Blank /\ Becomes(u, CopyChecked(u, s))
    <3>1. s \in UnitStates /\ s.text = text /\ s.copies = r.copies /\ s.asks = r.asks
      BY <1>1, <1>3 DEF UnitStates
    <3>. HIDE DEF s
    <3>2. Closing(s)
      BY <2>1, <2>3, <3>1 DEF Closing, BestText, CopyBudget
    <3>. QED  BY <2>3, <3>1, <3>2, CopyCheckedGood, UnitBecomes
  <2>. QED  BY <1>6, <2>2, <2>3 DEF ReaskAnswers
<1>7. CASE AskFails(u)
  <2>. DEFINE s == [r EXCEPT !.text = Source, !.notes = {"TRANSLATION_FAILED"},
                             !.status = IF Lqa THEN "transport_error" ELSE "exception"]
  <2>1. WhileAsked(r)
    BY <1>1, <1>7 DEF AskFails, UnitOK
  <2>2. s \in UnitStates
    BY <1>1 DEF UnitStates, Texts, Notes
  <2>3. s.status # "ok" /\ s.asks = r.asks /\ s.copies = r.copies
    BY <1>1 DEF UnitStates
  <2>4. Becomes(u, Settled(u, s))
    BY <1>7 DEF AskFails, AskFailed
  <2>. HIDE DEF s
  <2>5. Len(r.history) \in Nat
    BY <1>2
  <2>6. Settling(s)
    BY <1>2, <2>1, <2>3, <2>5, UnitAssumption DEF Settling, BestText, CopyBudget, WhileAsked
  <2>. QED  BY <2>2, <2>4, <2>6, SettledGood, UnitBecomes
<1>8. ASSUME NEW score \in Scores, Judge(u, score)
      PROVE  IInv'
  <2>1. WhileAsked(r) /\ Lqa
    BY <1>1, <1>8 DEF Judge, UnitOK
  <2>2. Good(u, Judged(u, Scored(r, score)))
    BY <1>1, <2>1, JudgedGood
  <2>. QED  BY <1>8, <2>2, UnitBecomes DEF Judge
<1>9. CASE JudgeFails(u)
  <2>. DEFINE e == [text |-> r.cand, score |-> 0]
              H == [text : Texts, score : Scores]
              s == [r EXCEPT !.text = r.cand, !.notes = {"LQA_SKIPPED"},
                             !.status = "transport_error", !.history = Append(@, e)]
  <2>1. WhileAsked(r)
    BY <1>1, <1>9 DEF JudgeFails, UnitOK
  <2>2. e \in H
    BY <1>2, UnitAssumption DEF Scores
  <2>3. Append(r.history, e) \in Seq(H)
    <3>. HIDE DEF e, H
    <3>. QED  BY <1>2, <2>2, AppendProperties DEF H
  <2>4. s \in UnitStates
    <3>. HIDE DEF e
    <3>. QED  BY <1>1, <1>2, <2>3 DEF UnitStates, Notes
  <2>5. s.status # "ok" /\ s.asks = r.asks /\ s.copies = r.copies
    BY <1>1 DEF UnitStates
  <2>6. Becomes(u, Settled(u, s))
    BY <1>9 DEF JudgeFails
  <2>. HIDE DEF s
  <2>7. Len(r.history) \in Nat
    BY <1>2
  <2>8. Settling(s)
    BY <1>2, <2>1, <2>5, <2>7, UnitAssumption DEF Settling, BestText, CopyBudget, WhileAsked
  <2>. QED  BY <2>4, <2>6, <2>8, SettledGood, UnitBecomes
<1>10. CASE Reask(u)
  <2>. DEFINE s == [r EXCEPT !.pc = "reasking", !.asks = @ + 1, !.copies = @ + 1]
  <2>1. CopyBudget(r) /\ IsCopy(u, r.text) /\ r.copies < CopyAttempts
    BY <1>1, <1>10 DEF Reask, UnitOK
  <2>2. r.asks + 1 \in Nat /\ r.copies + 1 \in Nat
    BY <1>2
  <2>3. s \in UnitStates
    BY <1>1, <2>2 DEF UnitStates, Places
  <2>4. s.pc = "reasking" /\ s.text = r.text /\ s.asks = r.asks + 1 /\ s.copies = r.copies + 1
    BY <1>1 DEF UnitStates
  <2>5. Becomes(u, s)
    BY <1>10 DEF Reask
  <2>. HIDE DEF s
  <2>6. UnitOK(u, s)
    BY <1>2, <2>1, <2>4, UnitAssumption DEF UnitOK, CopyBudget
  <2>. QED  BY <2>3, <2>5, <2>6, UnitBecomes DEF Good
<1>11. CASE ReaskFails(u)
  <2>1. CopyBudget(r) /\ IsCopy(u, r.text) /\ r.copies > 1
    BY <1>1, <1>11 DEF ReaskFails, UnitOK
  <2>2. Closing(r)
    BY <2>1, UnitAssumption DEF Closing, BestText, IsCopy
  <2>. QED  BY <1>1, <1>11, <2>2, FinishedGood, UnitBecomes DEF ReaskFails
<1>12. CASE Forget(u)
  <2>. DEFINE s == [r EXCEPT !.kept = None]
  <2>1. s \in UnitStates
    BY <1>1 DEF UnitStates
  <2>2. /\ s.pc = r.pc /\ s.asks = r.asks /\ s.history = r.history /\ s.best = r.best
        /\ s.text = r.text /\ s.status = r.status /\ s.copies = r.copies
        /\ s.untranslated = r.untranslated /\ s.notes = r.notes
    BY <1>1 DEF UnitStates
  <2>3. Becomes(u, s) /\ r.pc # "done"
    BY <1>12 DEF Forget
  <2>. HIDE DEF s
  <2>4. UnitOK(u, s)
    BY <1>1, <2>2, <2>3 DEF UnitOK, BeforeAsk, WhileAsked, BestOK, CopyBudget
  <2>. QED  BY <2>1, <2>3, <2>4, UnitBecomes DEF Good
<1>. QED
  BY <1>4, <1>5, <1>6, <1>7, <1>8, <1>9, <1>10, <1>11, <1>12 DEF Step

LEMMA NextIInv == IInv /\ [Next]_vars => IInv'
<1>1. ASSUME IInv, Next PROVE IInv'
  BY <1>1, StepIInv DEF Next
<1>2. ASSUME IInv, UNCHANGED vars PROVE IInv'
  BY <1>2 DEF vars, IInv, TypeOK
<1>. QED  BY <1>1, <1>2

(* A unit that ended keeps its properties. *)
LEMMA DoneUnits ==
  ASSUME IInv
  PROVE  FallbackIsCounted /\ BestAttemptShips /\ TypeOK
<1>1. ASSUME NEW u \in Units, Done(u)
      PROVE  Closing(unit[u]) /\ Counted(u, unit[u])
  BY <1>1 DEF IInv, UnitOK, Done
<1>2. FallbackIsCounted
  BY <1>1 DEF FallbackIsCounted, Closing, Counted
<1>3. BestAttemptShips
  BY <1>1 DEF BestAttemptShips, Closing, BestText
<1>. QED  BY <1>2, <1>3 DEF IInv

(* Wherever a unit is, its requests are within the budget of both loops. *)
LEMMA Budget ==
  ASSUME IInv
  PROVE  RequestBudget
<1>. SUFFICES ASSUME NEW u \in Units
              PROVE  unit[u].asks <= (MaxRetries + 1) + (CopyAttempts - 1)
  BY DEF RequestBudget
<1>. DEFINE r == unit[u]
<1>1. r \in UnitStates /\ UnitOK(u, r)
  BY DEF IInv, TypeOK
<1>2. r.asks \in Nat /\ r.copies \in Nat /\ Len(r.history) \in Nat /\ r.pc \in Places
  BY <1>1 DEF UnitStates
<1>. HIDE DEF r
<1>3. CASE r.pc \in {"queued", "asking", "judging"}
  <2>1. r.asks <= Len(r.history) + 1 /\ Len(r.history) <= MaxRetries
    BY <1>1, <1>2, <1>3 DEF UnitOK, BeforeAsk, WhileAsked
  <2>. QED  BY <1>2, <2>1, UnitAssumption DEF r
<1>4. CASE r.pc \in {"pausing", "reasking", "done"}
  <2>1. CopyBudget(r)
    BY <1>1, <1>4 DEF UnitOK, Closing
  <2>2. r.asks <= MaxRetries + r.copies /\ r.copies <= CopyAttempts
    BY <1>2, <2>1, UnitAssumption DEF CopyBudget
  <2>. QED  BY <1>2, <2>2, UnitAssumption DEF r
<1>. QED  BY <1>2, <1>3, <1>4 DEF Places, r

-----------------------------------------------------------------------------
(* The invariant of every run: the loops of a unit, its best attempt and   *)
(* its copy flag are what UnitOK says, whatever the other units do.        *)
THEOREM Invariance == Spec => []IInv
BY InitIInv, NextIInv, PTL DEF Spec

(* Every path of _translate_one_unit that ends with the source is counted  *)
(* as untranslated, and none ends blank: the README's "always reported".   *)
THEOREM FallbacksCounted == Spec => []FallbackIsCounted
<1>1. IInv => FallbackIsCounted
  BY DoneUnits
<1>. QED  BY <1>1, Invariance, PTL

(* The retry loops of RetryManager and of the source-copy check add up,    *)
(* for any lqa_max_retries: they do not multiply.                          *)
THEOREM RequestsBounded == Spec => []RequestBudget
<1>1. IInv => RequestBudget
  BY Budget
<1>. QED  BY <1>1, Invariance, PTL

(* execute_with_retry ships the text of a best score, for any number of    *)
(* attempts and any scores.                                                *)
THEOREM BestShips == Spec => []BestAttemptShips
<1>1. IInv => BestAttemptShips
  BY DoneUnits
<1>. QED  BY <1>1, Invariance, PTL
=============================================================================
