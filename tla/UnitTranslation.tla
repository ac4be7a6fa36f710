--------------------------- MODULE UnitTranslation ---------------------------
(***************************************************************************)
(* The units of one document, translated concurrently: _translate_one_unit *)
(* (cli/translate_md.py) under _translate_units_concurrent, with the       *)
(* quality loop of RetryManager.execute_with_retry (ol_retry/retry.py).    *)
(*                                                                         *)
(* A unit waits for a slot, asks the pool for a translation, and, with LQA *)
(* on, has it judged and asks again while the score is low.  It gives the  *)
(* slot back; a text that is blank is replaced by the source, and a text   *)
(* that is a verbatim copy of the source is asked for again after a pause, *)
(* with a slot of its own, at a temperature the prompt cache ignores.      *)
(*                                                                         *)
(* The operators on records say what one coroutine does with a unit        *)
(* between two awaits; the actions apply them.                             *)
(***************************************************************************)
EXTENDS Naturals, Sequences, FiniteSets

CONSTANTS
  Units,
  Exempt,        \* units whose copy is not flagged: no letter, or none of the source's script
  Slots,         \* max_concurrent, the value of md_semaphore
  Lqa,           \* enable_lqa
  MaxRetries,    \* lqa_max_retries
  CopyAttempts,  \* _SOURCE_COPY_MAX_ATTEMPTS
  Pass,          \* lqa_threshold, on a scale of the model's
  Source, Blank, \* the texts that are the unit's source, and whitespace
  None

ASSUME UnitAssumption ==
  /\ Exempt \subseteq Units
  /\ Slots \in Nat \ {0}
  /\ Lqa \in BOOLEAN
  /\ MaxRetries \in Nat
  /\ CopyAttempts \in Nat \ {0}
  /\ Pass \in Nat \ {0}
  /\ Source \notin Nat /\ Blank \notin Nat /\ Source # Blank
  /\ None \notin Nat \cup {Source, Blank}

VARIABLE unit  \* what the coroutine of each unit holds

vars == unit

(* An answer that is neither is the number of the request it answers.      *)
Texts == {Source, Blank} \cup Nat
Scores == 0 .. Pass
Places == {"queued", "asking", "judging", "pausing", "reasking", "done"}
Notes == {"TRANSLATION_FAILED", "LQA_SKIPPED", "Low_Score", "EMPTY_LLM_OUTPUT", "SOURCE_COPY"}

(* asks: requests so far.  kept: the prompt cache's answer to the unit's   *)
(* prompt at temperature 0.  cand: the text before the judge.  history,    *)
(* best: attempt_history and the place in it of best_translation.          *)
(* copies: copy_attempts.                                                  *)
UnitStates == [
  pc : Places, asks : Nat, kept : Texts \cup {None}, cand : Texts,
  history : Seq([text : Texts, score : Scores]), best : Nat,
  text : Texts, notes : SUBSET Notes, status : {"ok", "transport_error", "exception"},
  copies : Nat, untranslated : BOOLEAN]

TypeOK == unit \in [Units -> UnitStates]

Init ==
  unit = [u \in Units |-> [
    pc |-> "queued", asks |-> 0, kept |-> None, cand |-> Source,
    history |-> <<>>, best |-> 0, text |-> Source, notes |-> {}, status |-> "ok",
    copies |-> 1, untranslated |-> FALSE]]

-----------------------------------------------------------------------------
(* check_source_copy.                                                      *)
IsCopy(u, text) == text = Source /\ u \notin Exempt

(* The result of the unit, the copy flag and its warning included.         *)
Finished(u, r) ==
  [r EXCEPT !.pc = "done",
            !.untranslated = IsCopy(u, r.text),
            !.notes = IF IsCopy(u, r.text) THEN @ \cup {"SOURCE_COPY"} ELSE @]

(* The head of the source-copy loop.                                       *)
CopyChecked(u, r) ==
  IF IsCopy(u, r.text) /\ r.copies < CopyAttempts
  THEN [r EXCEPT !.pc = "pausing"]
  ELSE Finished(u, r)

(* Mutation of Settled: the copy check comes before the fallback for a     *)
(* blank text.                                                             *)
Settled_CheckedFirst(u, r) ==
  [CopyChecked(u, r) EXCEPT !.text = IF @ = Blank THEN Source ELSE @]

(* The slot is free again.  A blank text gives way to the source, and an   *)
(* earlier warning is not replaced.                                        *)
Settled(u, r) ==
  CopyChecked(u,
    IF r.text = Blank
    THEN [r EXCEPT !.text = Source,
                   !.notes = IF @ = {} THEN {"EMPTY_LLM_OUTPUT"} ELSE @]
    ELSE r)

(* The pool returned a text.                                               *)
Received(u, r, text) ==
  IF Lqa THEN [r EXCEPT !.pc = "judging", !.cand = text]
         ELSE Settled(u, [r EXCEPT !.text = text])

(* pool.translate at temperature 0: a kept answer is returned without a    *)
(* suspension, otherwise a request goes out.                               *)
Asked(u, r) ==
  IF r.kept # None THEN Received(u, r, r.kept)
                   ELSE [r EXCEPT !.pc = "asking", !.asks = @ + 1]

(* The call raised: RetryManager turns it into a result with the source,   *)
(* without LQA the unit's own except clause does.                          *)
AskFailed(u, r) ==
  Settled(u, [r EXCEPT !.text = Source, !.notes = {"TRANSLATION_FAILED"},
                       !.status = IF Lqa THEN "transport_error" ELSE "exception"])

(* Mutation of Scored: the latest attempt is taken for the best. *)
Scored_Latest(r, score) ==
  [r EXCEPT !.history = Append(@, [text |-> r.cand, score |-> score]),
            !.best = Len(r.history) + 1]

(* attempt_history grows; only a higher score than the best replaces it.   *)
Scored(r, score) ==
  [r EXCEPT !.history = Append(@, [text |-> r.cand, score |-> score]),
            !.best = IF @ = 0 \/ score > r.history[@].score THEN Len(r.history) + 1 ELSE @]

(* Mutation of Judged: one retry too many. *)
Judged_OneMore(u, r) ==
  LET last == r.history[Len(r.history)] IN
  IF last.score >= Pass THEN Settled(u, [r EXCEPT !.text = last.text])
  ELSE IF Len(r.history) <= MaxRetries + 1 THEN Asked(u, r)
  ELSE Settled(u, [r EXCEPT !.text = r.history[r.best].text, !.notes = {"Low_Score"}])

(* After a score: good enough, once more, or the best there is.            *)
Judged(u, r) ==
  LET last == r.history[Len(r.history)] IN
  IF last.score >= Pass THEN Settled(u, [r EXCEPT !.text = last.text])
  ELSE IF Len(r.history) <= MaxRetries THEN Asked(u, r)
  ELSE Settled(u, [r EXCEPT !.text = r.history[r.best].text, !.notes = {"Low_Score"}])

-----------------------------------------------------------------------------
(* "async with sem": the units inside it.                                  *)
Inside == {u \in Units : unit[u].pc \in {"asking", "judging", "reasking"}}

(* Mutation of FreeSlot: a unit keeps its slot while it pauses, and then   *)
(* waits for another.                                                      *)
FreeSlot_PauseInside ==
  Cardinality({u \in Units : unit[u].pc \in {"asking", "judging", "pausing", "reasking"}}) < Slots

FreeSlot == Cardinality(Inside) < Slots

Becomes(u, r) == unit' = [unit EXCEPT ![u] = r]

(* What a completion can be: an echo of the source, whitespace, or a text. *)
Replies(u) == {Source, Blank, unit[u].asks}

(* A slot for the unit: its first request goes out.                        *)
Start(u) ==
  /\ unit[u].pc = "queued"
  /\ FreeSlot
  /\ Becomes(u, Asked(u, unit[u]))

(* The pool's answer, which the prompt cache keeps whatever it is.         *)
Answer(u, text) ==
  /\ unit[u].pc = "asking"
  /\ Becomes(u, Received(u, [unit[u] EXCEPT !.kept = text], text))

AskFails(u) ==
  /\ unit[u].pc = "asking"
  /\ Becomes(u, AskFailed(u, unit[u]))

(* The judge scored the text.  JudgeService turns an outage of the judging *)
(* model into a score of 0.                                                *)
Judge(u, score) ==
  /\ unit[u].pc = "judging"
  /\ Becomes(u, Judged(u, Scored(unit[u], score)))

(* judge_fn raised, on a score that is not a number: the text is taken.    *)
JudgeFails(u) ==
  /\ unit[u].pc = "judging"
  /\ Becomes(u, Settled(u,
       [unit[u] EXCEPT !.text = unit[u].cand, !.notes = {"LQA_SKIPPED"}, !.status = "transport_error",
                       !.history = Append(@, [text |-> unit[u].cand, score |-> 0])]))

(* The pause is over and a slot is free: the same text, warmer.            *)
Reask(u) ==
  /\ unit[u].pc = "pausing"
  /\ FreeSlot
  /\ Becomes(u, [unit[u] EXCEPT !.pc = "reasking", !.asks = @ + 1, !.copies = @ + 1])

(* A blank answer ends the loop with what there was before.                *)
ReaskAnswers(u, text) ==
  /\ unit[u].pc = "reasking"
  /\ \/ text = Blank /\ Becomes(u, Finished(u, unit[u]))
     \/ text # Blank /\ Becomes(u, CopyChecked(u, [unit[u] EXCEPT !.text = text]))

ReaskFails(u) ==
  /\ unit[u].pc = "reasking"
  /\ Becomes(u, Finished(u, unit[u]))

(* The cache's entry expires or is evicted.                                *)
Forget(u) ==
  /\ unit[u].kept # None
  /\ unit[u].pc # "done"
  /\ Becomes(u, [unit[u] EXCEPT !.kept = None])

Step(u) ==
  \/ Start(u)
  \/ \E text \in Replies(u) : Answer(u, text) \/ ReaskAnswers(u, text)
  \/ AskFails(u)
  \/ \E score \in Scores : Judge(u, score)
  \/ JudgeFails(u)
  \/ Reask(u)
  \/ ReaskFails(u)

Next == \E u \in Units : Step(u) \/ Forget(u)

Spec == Init /\ [][Next]_vars

(* Every request is answered or times out, every pause ends, and a free    *)
(* slot goes to a unit that waits.                                         *)
FairSpec == Spec /\ \A u \in Units : WF_vars(Step(u))

-----------------------------------------------------------------------------
Done(u) == unit[u].pc = "done"

(* "it catches every fallback path (exception, empty output, retry         *)
(* exhaustion) with one check": along every path a unit that ends with its *)
(* source is counted and carries the warning, a unit that does not is not  *)
(* counted, and no unit ends blank.                                        *)
FallbackIsCounted ==
  \A u \in Units : Done(u) =>
    /\ unit[u].untranslated <=> (unit[u].text = Source /\ u \notin Exempt)
    /\ unit[u].untranslated => "SOURCE_COPY" \in unit[u].notes
    /\ unit[u].text # Blank

(* The two retry loops do not multiply: a unit asks at most                *)
(* lqa_max_retries + 1 times for a better score and twice for a copy.      *)
RequestBudget ==
  \A u \in Units : unit[u].asks <= (MaxRetries + 1) + (CopyAttempts - 1)

(* What a text becomes when nothing else is done to it.                    *)
Shipped(text) == IF text = Blank THEN Source ELSE text

(* "emitting best attempt": when the judge had a word on every attempt and *)
(* the copy loop was not needed, the text of a best score is shipped, on   *)
(* the way out with a pass as on the way out with a warning.               *)
BestAttemptShips ==
  \A u \in Units :
    LET h == unit[u].history IN
    Done(u) /\ unit[u].status = "ok" /\ unit[u].copies = 1 /\ h # <<>> =>
      \E i \in DOMAIN h :
        /\ unit[u].text = Shipped(h[i].text)
        /\ \A j \in DOMAIN h : h[j].score <= h[i].score

(* No document waits for ever: units that pause and ask again compete for  *)
(* the slots with those not begun, and all of them end.                    *)
EveryUnitEnds == \A u \in Units : <>Done(u)

-----------------------------------------------------------------------------
(* The inductive invariant of the proofs: what is known of a unit, by      *)
(* where it is suspended.                                                  *)

(* r.best is a best attempt so far.                                        *)
BestOK(r) ==
  /\ r.best \in 0 .. Len(r.history)
  /\ r.best = 0 <=> r.history = <<>>
  /\ \A i \in DOMAIN r.history : r.history[i].score <= r.history[r.best].score

(* Before a request at temperature 0: every earlier one was judged.        *)
BeforeAsk(r) ==
  /\ r.asks <= Len(r.history) /\ Len(r.history) <= MaxRetries
  /\ r.copies = 1 /\ r.status = "ok"
  /\ BestOK(r)
  /\ ~Lqa => r.history = <<>>

(* While one request more than the judged ones is under way.               *)
WhileAsked(r) ==
  /\ r.asks <= Len(r.history) + 1 /\ Len(r.history) <= MaxRetries
  /\ r.copies = 1 /\ r.status = "ok"
  /\ BestOK(r)
  /\ ~Lqa => r.history = <<>>

(* The text of a best attempt, when nothing went wrong.                    *)
BestText(r, text) ==
  r.status = "ok" /\ r.copies = 1 /\ r.history # <<>> =>
    \E i \in DOMAIN r.history :
      /\ text = Shipped(r.history[i].text)
      /\ \A j \in DOMAIN r.history : r.history[j].score <= r.history[i].score

CopyBudget(r) == r.asks <= MaxRetries + r.copies /\ r.copies \in 1 .. CopyAttempts

(* At the end, and with a text that only has to pass the copy check.       *)
Closing(r) == CopyBudget(r) /\ r.text # Blank /\ BestText(r, r.text)

(* With a text that may be blank.                                          *)
Settling(r) == CopyBudget(r) /\ BestText(r, Shipped(r.text))

Counted(u, r) ==
  /\ r.untranslated <=> (r.text = Source /\ u \notin Exempt)
  /\ r.untranslated => "SOURCE_COPY" \in r.notes

UnitOK(u, r) ==
  /\ r.pc = "queued" => BeforeAsk(r)
  /\ r.pc \in {"asking", "judging"} => WhileAsked(r)
  /\ r.pc \in {"pausing", "reasking"} => CopyBudget(r) /\ IsCopy(u, r.text)
  /\ r.pc = "judging" => Lqa
  /\ r.pc = "pausing" => r.copies < CopyAttempts
  /\ r.pc = "reasking" => r.copies > 1
  /\ r.pc = "done" => Closing(r) /\ Counted(u, r)

IInv == TypeOK /\ \A u \in Units : UnitOK(u, unit[u])
=============================================================================
