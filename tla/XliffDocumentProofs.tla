------------------------- MODULE XliffDocumentProofs -------------------------
(***************************************************************************)
(* Proofs about XliffDocument for any number of units, slots, answers and  *)
(* scores, with failures of every request and judgement and every choice   *)
(* of flags.                                                               *)
(***************************************************************************)
EXTENDS XliffDocument, FiniteSetTheorems, SequenceTheorems, TLAPS

Tries == [text : Texts, score : Scores \cup {None}]

(* What is known of the state a step starts from.                          *)
LEMMA Types ==
  ASSUME IInv, NEW u \in Units
  PROVE  /\ unit \in [Units -> UnitStates]
         /\ unit[u] \in UnitStates
         /\ unit[u].pc \in {"queued", "asking", "judging", "settled"}
         /\ unit[u].tries \in Seq(Tries) /\ Len(unit[u].tries) \in Nat /\ Len(unit[u].tries) <= 2
         /\ UnitOK(unit[u]) /\ StageOK(unit[u]) /\ TextOK(u)
<1>1. unit[u] \in UnitStates /\ Len(unit[u].tries) <= 2
  BY DEF IInv, TypeOK
<1>2. unit[u].tries \in Seq(Tries)
  BY <1>1 DEF UnitStates, Tries
<1>3. Len(unit[u].tries) \in Nat
  BY <1>2, LenProperties
<1>4. unit[u].pc \in {"queued", "asking", "judging", "settled"}
  BY <1>1 DEF UnitStates
<1>. QED  BY <1>1, <1>2, <1>3, <1>4 DEF IInv, TypeOK

(* A sequence is empty when its length is 0, and one that is appended to   *)
(* keeps what it had.                                                      *)
LEMMA OneMore ==
  ASSUME NEW tries \in Seq(Tries), NEW try \in Tries
  PROVE  /\ Append(tries, try) \in Seq(Tries)
         /\ Len(Append(tries, try)) = Len(tries) + 1
         /\ \A i \in 1 .. Len(tries) : Append(tries, try)[i] = tries[i]
         /\ Append(tries, try)[Len(tries) + 1] = try
         /\ Append(tries, try) # <<>>
         /\ tries = <<>> <=> Len(tries) = 0
BY AppendProperties, EmptySeq

(* A set with one member more, or with one taken out.                      *)
LEMMA OneUnit ==
  ASSUME NEW S, IsFiniteSet(S), NEW x
  PROVE  /\ Cardinality(S) \in Nat
         /\ IsFiniteSet(S \cup {x}) /\ Cardinality(S \cup {x}) \in Nat
         /\ Cardinality(S \cup {x}) <= Cardinality(S) + 1
         /\ IsFiniteSet(S \ {x}) /\ Cardinality(S \ {x}) \in Nat
         /\ Cardinality(S \ {x}) <= Cardinality(S)
<1>1. Cardinality(S) \in Nat
  BY FS_CardinalityType
<1>2. IsFiniteSet(S \cup {x}) /\ Cardinality(S \cup {x}) <= Cardinality(S) + 1
  BY <1>1, FS_AddElement
<1>3. IsFiniteSet(S \ {x}) /\ Cardinality(S \ {x}) <= Cardinality(S)
  BY <1>1, FS_RemoveElement
<1>. QED  BY <1>1, <1>2, <1>3, FS_CardinalityType

(* The last try of one or two, with its score.                             *)
LEMMA LastJudged ==
  ASSUME NEW tries \in Seq(Tries), tries # <<>>, Len(tries) <= 2,
         NEW score \in Scores \cup {None},
         NEW new, new = [tries EXCEPT ![Len(tries)].score = score]
  PROVE  /\ Len(tries) = 1 \/ Len(tries) = 2
         /\ new \in Seq(Tries) /\ Len(new) = Len(tries) /\ new # <<>>
         /\ Len(tries) = 2 => new[1] = tries[1]
<1>. PICK n \in Nat : n = Len(tries)
  BY LenProperties
<1>1. n = 1 \/ n = 2
  BY EmptySeq
<1>2. tries[n] \in Tries
  BY <1>1
<1>. DEFINE try == [tries[n] EXCEPT !.score = score]
<1>3. try \in Tries
  BY <1>2 DEF Tries
<1>4. new = [tries EXCEPT ![n] = try]
  BY <1>2
<1>. HIDE DEF try
<1>5. new \in Seq(Tries) /\ Len(new) = n /\ (n = 2 => new[1] = tries[1])
  BY <1>1, <1>3, <1>4, ExceptSeq
<1>. QED  BY <1>1, <1>5, EmptySeq

LEMMA InitIInv == Init => IInv
<1>. SUFFICES ASSUME Init PROVE IInv
  OBVIOUS
<1>1. \A u \in Units : unit[u] = [pc |-> "queued", tries |-> <<>>]
  BY DEF Init
<1>2. <<>> \in Seq(Tries) /\ Len(<<>>) = 0
  BY EmptySeq
<1>. DEFINE r0 == [pc |-> "queued", tries |-> <<>>]
<1>3. r0 \in UnitStates /\ Len(r0.tries) <= 2
  BY <1>2 DEF UnitStates, Tries
<1>4. TypeOK
  BY <1>3 DEF Init, TypeOK, Stages, Files
<1>5. Asking = {}
  BY <1>1 DEF Asking
<1>6. IsFiniteSet(Asking) /\ Cardinality(Asking) <= Slots
  BY <1>5, FS_EmptySet, XliffAssumption
<1>7. FilesOK
  BY XliffAssumption DEF Init, FilesOK
<1>8. ASSUME NEW u \in Units
      PROVE  UnitOK(unit[u]) /\ StageOK(unit[u]) /\ TextOK(u)
  BY <1>1, <1>2, <1>8 DEF Init, UnitOK, StageOK, TextOK
<1>. QED  BY <1>4, <1>6, <1>7, <1>8 DEF IInv

-----------------------------------------------------------------------------
(* A step of one unit u, after which it holds r, and no file is written.   *)
UnitBecomes(u, r) == unit' = [unit EXCEPT ![u] = r] /\ UNCHANGED <<stage, Command>>

LEMMA UnitSteps ==
  ASSUME IInv, NEW u \in Units, NEW r \in UnitStates,
         UnitBecomes(u, r), unit[u].pc # "settled",
         Len(r.tries) <= 2, UnitOK(r), StageOK(r),
         r.pc = "asking" => Cardinality(Asking) < Slots
  PROVE  IInv'
<1>1. unit \in [Units -> UnitStates]
  BY DEF IInv, TypeOK
<1>2. unit'[u] = r /\ \A v \in Units \ {u} : unit'[v] = unit[v]
  BY <1>1 DEF UnitBecomes
<1>3. UNCHANGED <<stage, flags, target, notes, output, cache, exit>>
  BY DEF UnitBecomes, Command
<1>4. TypeOK'
  BY <1>1, <1>2, <1>3 DEF IInv, TypeOK, UnitBecomes
<1>5. IsFiniteSet(Asking') /\ Cardinality(Asking') <= Slots
  <2>1. IsFiniteSet(Asking) /\ Cardinality(Asking) \in Nat
    BY OneUnit DEF IInv
  <2>2. CASE r.pc = "asking"
    <3>1. Asking' = Asking \cup {u}
      BY <1>1, <1>2, <2>2 DEF Asking
    <3>2. IsFiniteSet(Asking \cup {u}) /\ Cardinality(Asking \cup {u}) \in Nat
          /\ Cardinality(Asking \cup {u}) <= Cardinality(Asking) + 1
      BY <2>1, OneUnit
    <3>. QED  BY <2>1, <2>2, <3>1, <3>2, XliffAssumption
  <2>3. CASE r.pc # "asking"
    <3>1. Asking' = Asking \ {u}
      BY <1>1, <1>2, <2>3 DEF Asking
    <3>2. IsFiniteSet(Asking \ {u}) /\ Cardinality(Asking \ {u}) \in Nat
          /\ Cardinality(Asking \ {u}) <= Cardinality(Asking)
      BY <2>1, OneUnit
    <3>. QED  BY <2>1, <3>1, <3>2, XliffAssumption DEF IInv
  <2>. QED  BY <2>2, <2>3
<1>6. FilesOK'
  BY <1>3 DEF IInv, FilesOK
<1>7. stage \notin {"polish", "caching"} /\ output # "written"
  BY Types DEF StageOK
<1>8. ASSUME NEW v \in Units
      PROVE  (UnitOK(unit[v]) /\ StageOK(unit[v]) /\ TextOK(v))'
  <2>1. UnitOK(unit'[v]) /\ StageOK(unit'[v])
    BY <1>2, Types
  <2>2. StageOK(unit[v])'
    BY <1>3, <2>1 DEF StageOK
  <2>3. TextOK(v)'
    BY <1>3, <1>7 DEF TextOK
  <2>. QED  BY <2>1, <2>2, <2>3 DEF UnitOK, NeedsRetry, Low
<1>. QED  BY <1>4, <1>5, <1>6, <1>8 DEF IInv

LEMMA StartStep ==
  ASSUME IInv, NEW u \in Units, Start(u)
  PROVE  IInv'
<1>. DEFINE r == [unit[u] EXCEPT !.pc = "asking"]
<1>1. r \in UnitStates /\ r.pc = "asking" /\ r.tries = unit[u].tries
  BY Types DEF UnitStates
<1>2. UnitBecomes(u, r) /\ unit[u].pc = "queued" /\ Cardinality(Asking) < Slots
  BY DEF Start, UnitBecomes
<1>3. UnitOK(r) /\ StageOK(r) /\ Len(r.tries) <= 2
  BY <1>1, <1>2, Types DEF Start, UnitOK, StageOK, NeedsRetry
<1>. QED  BY <1>1, <1>2, <1>3, UnitSteps

LEMMA TranslatedStep ==
  ASSUME IInv, NEW u \in Units, NEW text \in Texts, Translated(u, text)
  PROVE  IInv'
<1>. DEFINE try == [text |-> text, score |-> None]
            old == unit[u].tries
            r == [unit[u] EXCEPT !.pc = "judging", !.tries = Append(@, try)]
<1>1. unit[u].pc = "asking" /\ unit[u] \in UnitStates /\ old \in Seq(Tries) /\ Len(old) \in Nat /\ Len(old) <= 2
      /\ UnitOK(unit[u]) /\ StageOK(unit[u])
  BY Types DEF Translated
<1>2. try \in Tries /\ try.score = None
  BY DEF Tries
<1>3. /\ Append(old, try) \in Seq(Tries) /\ Append(old, try) # <<>>
      /\ Len(Append(old, try)) = Len(old) + 1
      /\ Append(old, try)[Len(old) + 1] = try
      /\ Len(old) = 1 => Append(old, try)[1] = old[1]
      /\ old = <<>> <=> Len(old) = 0
  BY <1>1, <1>2, OneMore
<1>. HIDE DEF try
<1>4. r.pc = "judging" /\ r.tries = Append(old, try) /\ r \in UnitStates
  BY <1>1, <1>3 DEF UnitStates, Tries
<1>5. old = <<>> \/ (Len(old) = 1 /\ Low(old[1]))
  BY <1>1 DEF UnitOK, NeedsRetry, Low
<1>6. UnitBecomes(u, r)
  BY DEF Translated, UnitBecomes, try
<1>. HIDE DEF r
<1>7. UnitOK(r) /\ Len(r.tries) <= 2
  <2>1. Len(r.tries) = Len(old) + 1 /\ Len(old) \in 0 .. 1
    BY <1>1, <1>3, <1>4, <1>5
  <2>2. r.tries # <<>> /\ r.tries[Len(r.tries)].score = None
    BY <1>2, <1>3, <1>4
  <2>3. Len(r.tries) = 2 => Low(r.tries[1])
    BY <1>3, <1>4, <1>5, <2>1
  <2>. QED  BY <1>4, <2>1, <2>2, <2>3 DEF UnitOK
<1>8. StageOK(r)
  BY <1>1, <1>3, <1>4, <1>5 DEF StageOK
<1>. QED  BY <1>1, <1>4, <1>6, <1>7, <1>8, UnitSteps

LEMMA TranslateFailsStep ==
  ASSUME IInv, NEW u \in Units, TranslateFails(u)
  PROVE  IInv'
<1>. DEFINE r == [unit[u] EXCEPT !.pc = "settled"]
<1>1. r \in UnitStates /\ r.pc = "settled" /\ r.tries = unit[u].tries
  BY Types DEF UnitStates
<1>2. UnitBecomes(u, r) /\ unit[u].pc = "asking"
  BY DEF TranslateFails, UnitBecomes
<1>3. UnitOK(r) /\ StageOK(r) /\ Len(r.tries) <= 2
  BY <1>1, <1>2, Types DEF UnitOK, StageOK
<1>. QED  BY <1>1, <1>2, <1>3, UnitSteps

LEMMA JudgedStep ==
  ASSUME IInv, NEW u \in Units, NEW score \in Scores \cup {None}, Judged(u, score)
  PROVE  IInv'
<1>. DEFINE old == unit[u].tries
            new == [old EXCEPT ![Len(old)].score = score]
            r == [unit[u] EXCEPT !.pc = "settled", !.tries = new]
<1>1. unit[u].pc = "judging" /\ unit[u] \in UnitStates /\ old \in Seq(Tries) /\ Len(old) <= 2
      /\ UnitOK(unit[u]) /\ StageOK(unit[u])
  BY Types DEF Judged
<1>2. old # <<>>
  BY <1>1 DEF UnitOK
<1>3. /\ Len(old) = 1 \/ Len(old) = 2
      /\ new \in Seq(Tries) /\ Len(new) = Len(old) /\ new # <<>>
      /\ Len(old) = 2 => new[1] = old[1]
  BY <1>1, <1>2, LastJudged
<1>4. r.pc = "settled" /\ r.tries = new /\ r \in UnitStates
  BY <1>1, <1>3 DEF UnitStates, Tries
<1>5. UnitBecomes(u, r)
  BY <1>1 DEF Judged, UnitBecomes
<1>. HIDE DEF new
<1>6. UnitOK(r) /\ StageOK(r) /\ Len(r.tries) <= 2
  BY <1>1, <1>3, <1>4 DEF UnitOK, StageOK, Low
<1>. QED  BY <1>1, <1>4, <1>5, <1>6, UnitSteps

-----------------------------------------------------------------------------
(* The text of a unit is that of its try i, which no other try beats.      *)
ChosenIs(tries, i) ==
  /\ i \in DOMAIN tries
  /\ Chosen(tries) = tries[i].text
  /\ Retried(tries) /\ Low(tries[1]) => \A j \in DOMAIN tries : tries[j].score <= tries[i].score

(* What comes of the tries of a unit: the text of one of them, or the      *)
(* source.                                                                 *)
LEMMA ChosenText ==
  ASSUME NEW tries \in Seq(Tries), Len(tries) <= 2
  PROVE  /\ Chosen(tries) \in Texts
         /\ tries = <<>> => Chosen(tries) = Source
         /\ tries # <<>> => \E i : ChosenIs(tries, i)
<1>1. CASE tries = <<>>
  BY <1>1 DEF Chosen, Texts
<1>2. CASE tries # <<>>
  <2>. PICK n \in Nat : n = Len(tries)
    BY LenProperties
  <2>1. n = 1 \/ n = 2
    BY <1>2, EmptySeq
  <2>2. DOMAIN tries = 1 .. n /\ \A i \in 1 .. n : tries[i] \in Tries
    BY LenProperties
  <2>3. tries[1] \in Tries /\ (n = 2 => tries[2] \in Tries)
    BY <2>1, <2>2
  <2>. DEFINE i == IF Retried(tries) /\ tries[2].score > tries[1].score THEN 2 ELSE 1
  <2>4. i \in DOMAIN tries /\ Chosen(tries) = tries[i].text
    BY <1>2, <2>1, <2>2 DEF Chosen, Retried
  <2>5. tries[i].text \in Texts
    BY <2>1, <2>3 DEF Retried, Tries
  <2>6. ASSUME Retried(tries), Low(tries[1])
        PROVE  \A j \in DOMAIN tries : tries[j].score <= tries[i].score
    <3>1. tries[1].score \in Nat /\ tries[2].score \in Nat /\ n = 2
      BY <2>3, <2>6, XliffAssumption DEF Retried, Low, Tries, Scores
    <3>2. ASSUME NEW j \in DOMAIN tries PROVE j = 1 \/ j = 2
      BY <2>1, <2>2
    <3>. DEFINE a == tries[1].score
                b == tries[2].score
    <3>3. tries[i].score = (IF b > a THEN b ELSE a)
      BY <2>6
    <3>4. tries[i].score >= a /\ tries[i].score >= b
      BY <3>1, <3>3
    <3>. QED  BY <3>2, <3>4
  <2>7. ChosenIs(tries, i)
    BY <2>4, <2>6 DEF ChosenIs
  <2>. QED  BY <1>2, <2>4, <2>5, <2>7
<1>. QED  BY <1>1, <1>2

LEMMA BeginStep ==
  ASSUME IInv, Begin
  PROVE  IInv'
<1>1. stage = "begin" /\ UNCHANGED <<flags, unit, target, notes, cache>>
      /\ stage' \in {"exited", "first"}
  BY DEF Begin, Leave
<1>2. cache \in {"none", "earlier"} /\ output = "none" /\ exit = None
  BY <1>1 DEF IInv, TypeOK, FilesOK, Files
<1>3. output' \in {"none", "earlier"} /\ (stage' = "first" => output' = "none" /\ exit' = None)
      /\ exit' \in {None, "success"}
  BY <1>2 DEF Begin, Leave
<1>4. TypeOK'
  BY <1>1, <1>3 DEF IInv, TypeOK, Stages, Files, Exits
<1>5. FilesOK'
  BY <1>1, <1>2, <1>3, XliffAssumption DEF FilesOK
<1>6. Asking' = Asking
  BY <1>1 DEF Asking
<1>7. ASSUME NEW u \in Units
      PROVE  (UnitOK(unit[u]) /\ StageOK(unit[u]) /\ TextOK(u))'
  <2>1. UnitOK(unit[u]) /\ unit[u].pc = "queued" /\ unit[u].tries = <<>>
    BY <1>1, Types DEF StageOK
  <2>2. Len(unit[u].tries) < 2
    BY <2>1, EmptySeq
  <2>3. UnitOK(unit[u])'
    BY <1>1, <2>1 DEF UnitOK, NeedsRetry, Low
  <2>. QED  BY <1>1, <1>3, <2>1, <2>2, <2>3 DEF StageOK, TextOK
<1>. QED  BY <1>4, <1>5, <1>6, <1>7 DEF IInv

LEMMA PipelineFailsStep ==
  ASSUME IInv, PipelineFails
  PROVE  IInv'
<1>1. stage \in {"first", "polish"} /\ stage' = "exited" /\ exit' = "failed"
      /\ UNCHANGED <<flags, unit, target, notes, output, cache>>
  BY DEF PipelineFails, Leave
<1>2. TypeOK'
  BY <1>1 DEF IInv, TypeOK, Stages, Exits
<1>3. output = "none" /\ FilesOK'
  BY <1>1, XliffAssumption DEF IInv, FilesOK
<1>4. Asking' = Asking
  BY <1>1 DEF Asking
<1>5. ASSUME NEW u \in Units
      PROVE  (UnitOK(unit[u]) /\ StageOK(unit[u]) /\ TextOK(u))'
  <2>1. UnitOK(unit[u])'
    BY <1>1, Types DEF UnitOK, NeedsRetry, Low
  <2>. QED  BY <1>1, <1>3, <2>1 DEF StageOK, TextOK
<1>. QED  BY <1>2, <1>3, <1>4, <1>5 DEF IInv

LEMMA FirstRoundEndsStep ==
  ASSUME IInv, FirstRoundEnds
  PROVE  IInv'
<1>1. stage = "first" /\ stage' = "retry" /\ UNCHANGED <<flags, target, notes, output, cache, exit>>
      /\ \A u \in Units : unit[u].pc = "settled"
  BY DEF FirstRoundEnds, Command
<1>2. ASSUME NEW u \in Units
      PROVE  /\ unit'[u] \in UnitStates /\ unit'[u].tries = unit[u].tries
             /\ unit'[u].pc = (IF NeedsRetry(unit[u]) THEN "queued" ELSE "settled")
  BY <1>1, Types DEF FirstRoundEnds, UnitStates
<1>3. unit' \in [Units -> UnitStates]
  BY <1>2 DEF FirstRoundEnds
<1>4. TypeOK'
  BY <1>1, <1>2, <1>3 DEF IInv, TypeOK, Stages
<1>5. FilesOK'
  BY <1>1 DEF IInv, FilesOK
<1>6. Asking' = {}
  BY <1>2 DEF Asking
<1>7. IsFiniteSet(Asking') /\ Cardinality(Asking') <= Slots
  BY <1>6, FS_EmptySet, XliffAssumption
<1>8. ASSUME NEW u \in Units
      PROVE  (UnitOK(unit[u]) /\ StageOK(unit[u]) /\ TextOK(u))'
  <2>1. UnitOK(unit[u]) /\ output # "written"
    BY <1>1, Types DEF IInv, FilesOK
  <2>2. NeedsRetry(unit[u]) => unit[u].tries # <<>>
    BY EmptySeq DEF NeedsRetry
  <2>3. UnitOK(unit[u])'
    BY <1>2, <2>1 DEF UnitOK, NeedsRetry, Low
  <2>. QED  BY <1>1, <1>2, <2>1, <2>2, <2>3 DEF StageOK, TextOK
<1>. QED  BY <1>4, <1>5, <1>7, <1>8 DEF IInv

(* The texts of the result and what is said of them.                       *)
LEMMA Assembled ==
  ASSUME IInv, NEW u \in Units, NEW lossy,
         u \in lossy => MayLoseTags(u, Chosen(unit[u].tries))
  PROVE  /\ Chosen(unit[u].tries) \in Texts
         /\ Repaired(u, Chosen(unit[u].tries)) \in Targets
         /\ UnitNotes(u \in lossy, Warning(unit[u].tries)) \subseteq Notes
         /\ Told(unit[u].tries, UnitNotes(u \in lossy, Warning(unit[u].tries)))
<1>. DEFINE tries == unit[u].tries
            said == UnitNotes(u \in lossy, Warning(tries))
<1>1. /\ Chosen(tries) \in Texts
      /\ tries = <<>> => Chosen(tries) = Source
  BY Types, ChosenText
<1>2. Repaired(u, Chosen(tries)) \in Targets
  BY <1>1 DEF Repaired, Targets
<1>3. said \subseteq Notes
  BY DEF UnitNotes, Warning, Notes
<1>4. ASSUME "REPAIR" \in said \/ "LQA_SKIPPED" \in said \/ "Low_Score" \in said
      PROVE  {"LQA_SKIPPED", "Low_Score", "REPAIR"} \cap said # {}
  BY <1>4
<1>5. CASE u \in lossy
  <2>1. tries # <<>> /\ "REPAIR" \in said
    BY <1>1, <1>5 DEF UnitNotes, MayLoseTags
  <2>. QED  BY <1>1, <1>2, <1>3, <1>4, <2>1 DEF Told
<1>6. CASE u \notin lossy
  <2>1. said = Warning(tries)
    BY <1>6 DEF UnitNotes
  <2>2. tries = <<>> => "TRANSLATION_FAILED" \in said
    BY <2>1 DEF Warning
  <2>3. ASSUME tries # <<>>, tries[1].score = None
        PROVE  "LQA_SKIPPED" \in said
    BY <2>1, <2>3 DEF Warning
  <2>4. ASSUME tries # <<>>, tries[1].score # None, Retried(tries), \A i \in 1 .. 2 : tries[i].score < Pass
        PROVE  "Low_Score" \in said
    <3>1. tries[2].score < Pass
      BY <2>4
    <3>. QED  BY <2>1, <2>4, <3>1 DEF Warning
  <2>. QED  BY <1>1, <1>2, <1>3, <1>4, <2>2, <2>3, <2>4 DEF Told
<1>. QED  BY <1>5, <1>6

LEMMA AssembleStep ==
  ASSUME IInv, NEW lossy \in SUBSET Units, Assemble(lossy)
  PROVE  IInv'
<1>1. /\ stage = "retry" /\ UNCHANGED <<flags, unit, output, cache>>
      /\ \A u \in Units : unit[u].pc = "settled" /\ (u \in lossy => MayLoseTags(u, Chosen(unit[u].tries)))
  BY DEF Assemble
<1>2. \/ stage' = "exited" /\ exit' = "blocked"
      \/ stage' = "polish" /\ exit' = exit /\ ~Blocked(target', flags.blocking)
  BY DEF Assemble, Leave
<1>3. output = "none" /\ cache # "written" /\ exit = None
  BY <1>1 DEF IInv, FilesOK
<1>4. ASSUME NEW u \in Units
      PROVE  /\ target'[u] = Repaired(u, Chosen(unit[u].tries)) /\ target'[u] \in Targets
             /\ notes'[u] \subseteq Notes /\ Told(unit[u].tries, notes'[u])
  <2>. DEFINE said == UnitNotes(u \in lossy, Warning(unit[u].tries))
  <2>1. Repaired(u, Chosen(unit[u].tries)) \in Targets /\ said \subseteq Notes /\ Told(unit[u].tries, said)
    BY <1>1, Assembled
  <2>2. target'[u] = Repaired(u, Chosen(unit[u].tries)) /\ notes'[u] = said \cup Fragment(target'[u])
    BY DEF Assemble
  <2>3. notes'[u] \subseteq Notes
    BY <2>1, <2>2 DEF Fragment, Notes
  <2>. HIDE DEF said
  <2>4. Told(unit[u].tries, notes'[u])
    BY <2>1, <2>2 DEF Told
  <2>. QED  BY <2>1, <2>2, <2>3, <2>4
<1>5. target' \in [Units -> Targets] /\ notes' \in [Units -> SUBSET Notes]
  <2>1. target' = [u \in Units |-> target'[u]] /\ notes' = [u \in Units |-> notes'[u]]
    BY DEF Assemble
  <2>. QED  BY <1>4, <2>1
<1>6. TypeOK'
  BY <1>1, <1>2, <1>5 DEF IInv, TypeOK, Stages, Exits
<1>7. FilesOK'
  BY <1>1, <1>2, <1>3 DEF FilesOK
<1>8. Asking' = Asking
  BY <1>1 DEF Asking
<1>9. ASSUME NEW u \in Units
      PROVE  (UnitOK(unit[u]) /\ StageOK(unit[u]) /\ TextOK(u))'
  <2>1. UnitOK(unit[u])'
    BY <1>1, Types DEF UnitOK, NeedsRetry, Low
  <2>2. StageOK(unit[u])'
    BY <1>1, <1>2 DEF StageOK
  <2>3. stage' = "polish" /\ flags.blocking => target'[u] # Source
    BY <1>2 DEF Blocked
  <2>4. TextOK(u)'
    BY <1>1, <1>2, <1>3, <1>4, <2>3 DEF TextOK
  <2>. QED  BY <2>1, <2>2, <2>4
<1>. QED  BY <1>6, <1>7, <1>8, <1>9 DEF IInv

LEMMA WriteStep ==
  ASSUME IInv, NEW fixed \in SUBSET Units, Write(fixed)
  PROVE  IInv'
<1>1. stage = "polish" /\ stage' = "caching" /\ output' = "written" /\ UNCHANGED <<flags, unit, cache, exit>>
  BY DEF Write
<1>2. cache # "written" /\ exit = None
  BY <1>1 DEF IInv, FilesOK
<1>3. ASSUME NEW u \in Units
      PROVE  /\ target'[u] \in {Fix, Written(Repaired(u, Chosen(unit[u].tries)))}
             /\ target'[u] \in Targets
             /\ flags.blocking /\ target'[u] = Source => Repaired(u, Chosen(unit[u].tries)) = Blank
             /\ notes'[u] \subseteq Notes /\ Told(unit[u].tries, notes'[u])
  <2>. DEFINE text == Repaired(u, Chosen(unit[u].tries))
  <2>1. target[u] = text /\ (flags.blocking => text # Source) /\ Told(unit[u].tries, notes[u])
    BY <1>1, Types DEF TextOK
  <2>2. text \in Targets
    BY Types, ChosenText DEF Repaired, Targets
  <2>. HIDE DEF text
  <2>3. target'[u] = Fix \/ target'[u] = Written(text)
    BY <2>1, XliffAssumption DEF Write, Polished, Written
  <2>4. notes[u] \subseteq notes'[u] /\ notes'[u] \subseteq Notes
    <3>1. notes[u] \subseteq Notes
      BY DEF IInv, TypeOK
    <3>. QED  BY <3>1 DEF Write, Notes
  <2>5. Told(unit[u].tries, notes'[u])
    BY <2>1, <2>4 DEF Told
  <2>6. Written(text) \in Targets /\ Fix \in Targets
    BY <2>2 DEF Written, Targets, Texts
  <2>7. flags.blocking /\ target'[u] = Source => text = Blank
    BY <2>1, <2>3, XliffAssumption DEF Written
  <2>. QED  BY <2>3, <2>4, <2>5, <2>6, <2>7 DEF text
<1>4. target' \in [Units -> Targets] /\ notes' \in [Units -> SUBSET Notes]
  <2>1. target' = [u \in Units |-> target'[u]] /\ notes' = [u \in Units |-> notes'[u]]
    BY DEF Write
  <2>. QED  BY <1>3, <2>1
<1>5. TypeOK'
  BY <1>1, <1>4 DEF IInv, TypeOK, Stages, Files
<1>6. FilesOK'
  BY <1>1, <1>2, XliffAssumption DEF FilesOK
<1>7. Asking' = Asking
  BY <1>1 DEF Asking
<1>8. ASSUME NEW u \in Units
      PROVE  (UnitOK(unit[u]) /\ StageOK(unit[u]) /\ TextOK(u))'
  <2>1. UnitOK(unit[u]) /\ unit[u].pc = "settled"
    BY <1>1, Types DEF StageOK
  <2>2. (UnitOK(unit[u]) /\ StageOK(unit[u]))'
    BY <1>1, <2>1 DEF UnitOK, StageOK, NeedsRetry, Low
  <2>3. TextOK(u)'
    BY <1>1, <1>3 DEF TextOK
  <2>. QED  BY <2>2, <2>3
<1>. QED  BY <1>5, <1>6, <1>7, <1>8 DEF IInv

LEMMA WriteCacheStep ==
  ASSUME IInv, WriteCache
  PROVE  IInv'
<1>1. /\ stage = "caching" /\ stage' = "exited" /\ exit' = "success" /\ cache' \in {cache, output}
      /\ UNCHANGED <<flags, unit, target, notes, output>>
  BY DEF WriteCache, Leave
<1>2. TypeOK'
  BY <1>1 DEF IInv, TypeOK, Stages, Exits
<1>3. FilesOK'
  BY <1>1 DEF IInv, FilesOK
<1>4. Asking' = Asking
  BY <1>1 DEF Asking
<1>5. ASSUME NEW u \in Units
      PROVE  (UnitOK(unit[u]) /\ StageOK(unit[u]) /\ TextOK(u))'
  BY <1>1, Types DEF UnitOK, StageOK, TextOK, NeedsRetry, Low
<1>. QED  BY <1>2, <1>3, <1>4, <1>5 DEF IInv

-----------------------------------------------------------------------------
(* Every step of the command, of a unit or of the whole, and a step that   *)
(* changes nothing.                                                        *)
LEMMA NextIInv == IInv /\ [Next]_vars => IInv'
<1>. SUFFICES ASSUME IInv, [Next]_vars PROVE IInv'
  OBVIOUS
<1>1. ASSUME NEW u \in Units, UnitStep(u) PROVE IInv'
  BY <1>1, StartStep, TranslatedStep, TranslateFailsStep, JudgedStep DEF UnitStep
<1>2. CASE Finish
  BY <1>2, BeginStep, FirstRoundEndsStep, AssembleStep, WriteStep, WriteCacheStep DEF Finish
<1>3. CASE PipelineFails
  BY <1>3, PipelineFailsStep
<1>4. CASE UNCHANGED vars
  <2>1. UNCHANGED <<stage, flags, unit, target, notes, output, cache, exit>>
    BY <1>4 DEF vars
  <2>2. TypeOK' /\ FilesOK' /\ Asking' = Asking
    BY <2>1 DEF IInv, TypeOK, FilesOK, Asking
  <2>3. ASSUME NEW u \in Units
        PROVE  (UnitOK(unit[u]) /\ StageOK(unit[u]) /\ TextOK(u))'
    BY <2>1, Types DEF UnitOK, StageOK, TextOK, NeedsRetry, Low
  <2>. QED  BY <2>2, <2>3 DEF IInv
<1>. QED  BY <1>1, <1>2, <1>3, <1>4 DEF Next

(* The inductive invariant holds in every reachable state.                 *)
THEOREM Invariance == Spec => []IInv
<1>. QED  BY InitIInv, NextIInv, PTL DEF Spec

(* The state of a command keeps its types: a unit is asked about at most   *)
(* twice (_translate_xliff_pipelined has two rounds).                      *)
THEOREM TypeCorrect == Spec => []TypeOK
<1>1. IInv => TypeOK
  BY DEF IInv
<1>. QED  BY <1>1, Invariance, PTL

(* The second round begins when the first is over for every unit, and the  *)
(* two share the slots of the semaphore, whatever fails.                   *)
THEOREM SecondRoundWaits == Spec => []RetriesAtTheEnd
<1>1. ASSUME IInv PROVE RetriesAtTheEnd
  <2>1. ASSUME stage = "retry", NEW u \in Units
        PROVE  /\ unit[u].tries = <<>> => unit[u].pc = "settled"
               /\ Len(unit[u].tries) = 1 => unit[u].pc # "judging"
    <3>. StageOK(unit[u])
      BY <1>1, Types
    <3>. QED  BY <2>1 DEF StageOK
  <2>. QED  BY <1>1, <2>1 DEF IInv, RetriesAtTheEnd
<1>. QED  BY <1>1, Invariance, PTL

(* Of two judged answers the file never has the one with the lower score,  *)
(* and it has no text but an answer, the source, tags or a polish.         *)
THEOREM BetterShips == Spec => []BetterAnswerShips
<1>1. ASSUME IInv PROVE BetterAnswerShips
  <2>. SUFFICES ASSUME output = "written", NEW u \in Units,
                       unit[u].tries # <<>>, target[u] \notin {Fix, TagsOnly}
                PROVE  \E i \in DOMAIN unit[u].tries :
                         /\ target[u] = Written(unit[u].tries[i].text)
                         /\ Retried(unit[u].tries) =>
                              \A j \in DOMAIN unit[u].tries :
                                unit[u].tries[j].score <= unit[u].tries[i].score
    BY DEF BetterAnswerShips
  <2>. DEFINE tries == unit[u].tries
  <2>1. target[u] = Written(Repaired(u, Chosen(tries)))
    BY <1>1, Types DEF TextOK
  <2>2. Repaired(u, Chosen(tries)) = Chosen(tries)
    BY <2>1, XliffAssumption DEF Repaired, Written
  <2>3. Retried(tries) => Low(tries[1])
    BY <1>1, Types DEF UnitOK, Retried
  <2>4. tries \in Seq(Tries) /\ Len(tries) <= 2 /\ tries # <<>>
    BY <1>1, Types
  <2>. HIDE DEF tries
  <2>5. PICK i : ChosenIs(tries, i)
    BY <2>4, ChosenText
  <2>. QED  BY <2>1, <2>2, <2>3, <2>5 DEF tries, ChosenIs
<1>. QED  BY <1>1, Invariance, PTL

(* A unit without an answer, one whose answer nobody judged, and one both  *)
(* of whose answers were judged low has a warning in the file: it survives *)
(* the repair, the gates and the polish (_translate_xliff_pipelined).      *)
(* Nothing is promised for a low score whose retry failed.                 *)
THEOREM FailuresTold == Spec => []FailuresAreTold
<1>1. IInv => FailuresAreTold
  BY Types DEF FailuresAreTold, TextOK
<1>. QED  BY <1>1, Invariance, PTL

(* A blocking gate leaves nothing behind, and what it lets through has the *)
(* source of a unit only in the place of a blank answer.                   *)
THEOREM NothingBlockedShips == Spec => []BlockedShipsNothing
<1>1. ASSUME IInv PROVE BlockedShipsNothing
  <2>1. exit = "blocked" => output = "none" /\ cache # "written"
    BY <1>1 DEF IInv, FilesOK
  <2>2. ASSUME flags.blocking, output = "written", NEW u \in Units, target[u] = Source
        PROVE  \E i \in DOMAIN unit[u].tries : unit[u].tries[i].text = Blank
    <3>. DEFINE tries == unit[u].tries
    <3>1. Repaired(u, Chosen(tries)) = Blank
      BY <1>1, <2>2, Types DEF TextOK
    <3>2. Chosen(tries) = Blank
      BY <3>1, XliffAssumption DEF Repaired
    <3>3. tries \in Seq(Tries) /\ Len(tries) <= 2
      BY <1>1, Types
    <3>. HIDE DEF tries
    <3>4. tries # <<>>
      BY <3>2, <3>3, ChosenText, XliffAssumption
    <3>5. PICK i : ChosenIs(tries, i)
      BY <3>3, <3>4, ChosenText
    <3>. QED  BY <3>2, <3>5 DEF tries, ChosenIs
  <2>. QED  BY <2>1, <2>2 DEF BlockedShipsNothing
<1>. QED  BY <1>1, Invariance, PTL

=============================================================================
