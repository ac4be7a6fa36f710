---------------------------- MODULE XliffDocument ----------------------------
(***************************************************************************)
(* One invocation of "ol translate-xliff" with LQA on                      *)
(* (cli/translate_xliff.py): the cache, the units translated and judged in *)
(* two rounds (_translate_xliff_pipelined), the blocking quality gate, the *)
(* polish pass (ol_xliff/polish.py) and the file that is written           *)
(* (ol_buses/xliff_bus.py, write_target_back).                             *)
(*                                                                         *)
(* The judge runs without the slot its unit held, so the judging of one    *)
(* unit overlaps the translation of the next; the second round begins when *)
(* the first is over for every unit.                                       *)
(***************************************************************************)
EXTENDS Naturals, Sequences, FiniteSets

CONSTANTS
  Units,
  Tagged,   \* units with inline tags, a non-empty shield_map
  Slots,    \* max_xliff_concurrent
  Pass,     \* lqa_threshold, on a scale of the model's
  Answers,  \* texts of the model that are neither the source nor blank
  Source, Blank,  \* the unit's source, and whitespace
  TagsOnly, \* a unit's tags and no text
  Fix,      \* what the polish pass makes of a text
  None

ASSUME XliffAssumption ==
  /\ Tagged \subseteq Units
  /\ Slots \in Nat \ {0}
  /\ Pass \in Nat \ {0}
  /\ Source # Blank /\ TagsOnly # Fix
  /\ {Source, Blank} \cap {TagsOnly, Fix} = {}
  /\ Answers \cap {Source, Blank, TagsOnly, Fix} = {}
  /\ None \notin {"success", "blocked", "failed"}

VARIABLES
  stage,   \* where the command is
  flags,   \* --no-cache, --polish, and the blocking gate of the configuration
  unit,    \* what the coroutine of each unit holds
  target,  \* target_text of each unit, once there is one
  notes,   \* warnings_per_unit
  output,  \* the output file
  cache,   \* the file under the run's key
  exit

vars == <<stage, flags, unit, target, notes, output, cache, exit>>

Texts == Answers \cup {Source, Blank}
Targets == Texts \cup {TagsOnly, Fix}
Scores == 0 .. Pass
Stages == {"begin", "first", "retry", "polish", "caching", "exited"}
Notes == {"TRANSLATION_FAILED", "LQA_SKIPPED", "Low_Score", "REPAIR",
          "SOURCE_SCRIPT_FRAGMENT", "POLISH", "CROSS_UNIT_DUPLICATE"}
Exits == {"success", "blocked", "failed"}

(* The file a run makes is what target and notes say when it writes.       *)
Files == {"none", "earlier", "written"}

(* A unit asks at most twice; a try has no score until it is judged, and   *)
(* none after the judge failed.                                            *)
UnitStates == [pc : {"queued", "asking", "judging", "settled"},
               tries : Seq([text : Texts, score : Scores \cup {None}])]

TypeOK ==
  /\ stage \in Stages
  /\ flags \in [no_cache : BOOLEAN, polish : BOOLEAN, blocking : BOOLEAN]
  /\ unit \in [Units -> UnitStates]
  /\ \A u \in Units : Len(unit[u].tries) <= 2
  /\ target \in [Units -> Targets] \cup [Units -> {None}]
  /\ notes \in [Units -> SUBSET Notes]
  /\ output \in Files
  /\ cache \in Files
  /\ exit \in Exits \cup {None}

(* The cache is empty, or holds the file of an earlier invocation with the *)
(* same key.                                                               *)
Init ==
  /\ stage = "begin"
  /\ flags \in [no_cache : BOOLEAN, polish : BOOLEAN, blocking : BOOLEAN]
  /\ unit = [u \in Units |-> [pc |-> "queued", tries |-> <<>>]]
  /\ target = [u \in Units |-> None]
  /\ notes = [u \in Units |-> {}]
  /\ output = "none"
  /\ cache \in {"none", "earlier"}
  /\ exit = None

Command == <<flags, target, notes, output, cache, exit>>

Leave(code) == stage' = "exited" /\ exit' = code

-----------------------------------------------------------------------------
(* The cache is looked at before anything else; a hit is a success.        *)
Begin ==
  /\ stage = "begin"
  /\ \/ /\ ~flags.no_cache /\ cache # "none"
        /\ output' = cache
        /\ Leave("success")
     \/ /\ flags.no_cache \/ cache = "none"
        /\ stage' = "first"
        /\ UNCHANGED <<output, exit>>
  /\ UNCHANGED <<flags, unit, target, notes, cache>>

(* The file does not parse, has no unit, or anything else raises before    *)
(* the output is written.                                                  *)
PipelineFails ==
  /\ stage \in {"first", "polish"}
  /\ Leave("failed")
  /\ UNCHANGED <<flags, unit, target, notes, output, cache>>

(* Mutation of Asking: a unit whose request failed keeps its slot. *)
Asking_Leaked ==
  {u \in Units : unit[u].pc = "asking" \/ (unit[u].pc = "settled" /\ unit[u].tries = <<>>)}

(* The units that hold a slot.                                             *)
Asking == {u \in Units : unit[u].pc = "asking"}

(* "async with sem": a unit is translated, in either round.                *)
Start(u) ==
  /\ stage \in {"first", "retry"}
  /\ unit[u].pc = "queued"
  /\ Cardinality(Asking) < Slots
  /\ unit' = [unit EXCEPT ![u].pc = "asking"]
  /\ UNCHANGED <<stage, Command>>

(* pool.translate returned.  The second request has the prompt of the      *)
(* first, and the prompt cache may give the same answer.                   *)
Translated(u, text) ==
  /\ unit[u].pc = "asking"
  /\ unit' = [unit EXCEPT ![u].pc = "judging",
                          ![u].tries = Append(@, [text |-> text, score |-> None])]
  /\ UNCHANGED <<stage, Command>>

(* The exception is stored, and the unit is done with the round.           *)
TranslateFails(u) ==
  /\ unit[u].pc = "asking"
  /\ unit' = [unit EXCEPT ![u].pc = "settled"]
  /\ UNCHANGED <<stage, Command>>

(* The judge, which runs without a slot, gave a score, or raised.          *)
Judged(u, score) ==
  /\ unit[u].pc = "judging"
  /\ unit' = [unit EXCEPT ![u].pc = "settled",
                          ![u].tries[Len(unit[u].tries)].score = score]
  /\ UNCHANGED <<stage, Command>>

(* needs_retry: translated, judged, and the score is low.                  *)
NeedsRetry(r) == Len(r.tries) = 1 /\ r.tries[1].score \in 0 .. Pass - 1

(* Mutation of FirstRoundEnds: the second round begins when one unit is    *)
(* done with the first.                                                    *)
FirstRoundEnds_AtOnce ==
  /\ stage = "first"
  /\ \E u \in Units : unit[u].pc = "settled"
  /\ stage' = "retry"
  /\ unit' = [u \in Units |->
       IF NeedsRetry(unit[u]) THEN [unit[u] EXCEPT !.pc = "queued"] ELSE unit[u]]
  /\ UNCHANGED Command

(* The gather of the first round returns: the units with a low score, and  *)
(* only they, go round once more.                                          *)
FirstRoundEnds ==
  /\ stage = "first"
  /\ \A u \in Units : unit[u].pc = "settled"
  /\ stage' = "retry"
  /\ unit' = [u \in Units |->
       IF NeedsRetry(unit[u]) THEN [unit[u] EXCEPT !.pc = "queued"] ELSE unit[u]]
  /\ UNCHANGED Command

-----------------------------------------------------------------------------
(* A retry counts if it was judged.                                        *)
Retried(tries) == Len(tries) = 2 /\ tries[2].score # None

(* Mutation of Chosen: the retry is taken because it is the later one. *)
Chosen_Latest(tries) ==
  IF tries = <<>> THEN Source
  ELSE IF Retried(tries) THEN tries[2].text
  ELSE tries[1].text

(* The text of a unit: the source if nothing came, and the retry only if   *)
(* it is better than the first answer.                                     *)
Chosen(tries) ==
  IF tries = <<>> THEN Source
  ELSE IF Retried(tries) /\ tries[2].score > tries[1].score THEN tries[2].text
  ELSE tries[1].text

(* The warning of the result.  A low score whose retry failed has none.    *)
Warning(tries) ==
  IF tries = <<>> THEN {"TRANSLATION_FAILED"}
  ELSE IF tries[1].score = None THEN {"LQA_SKIPPED"}
  ELSE IF Retried(tries) /\ tries[2].score < Pass THEN {"Low_Score"}
  ELSE {}

(* XLIFFRepairPipeline.repair, for a text that lost tags or not: the tags  *)
(* that are missing are put back, and so a blank text is one no more.      *)
Repaired(u, text) == IF u \in Tagged /\ text = Blank THEN TagsOnly ELSE text

(* A source has its tags, whitespace has none.                             *)
MayLoseTags(u, text) == u \in Tagged /\ text # Source
MustLoseTags(u, text) == u \in Tagged /\ text = Blank

(* Mutation of UnitNotes: only the warnings of the repair are kept. *)
UnitNotes_Replaced(lost, warning) == IF lost THEN {"REPAIR"} ELSE {}

(* Warnings of the repair replace that of the translation.                 *)
UnitNotes(lost, warning) == IF lost THEN {"REPAIR"} ELSE warning

(* Mutation of Blocked: the gate looks at the units whose translation      *)
(* succeeded only.                                                         *)
Blocked_Answered(text, blocking) ==
  blocking /\ \E u \in Units : text[u] = Source /\ unit[u].tries # <<>>

(* Gate 6 found text of the source's script in a target.                   *)
Blocked(text, blocking) == blocking /\ \E u \in Units : text[u] = Source

Fragment(text) == IF text = Source THEN {"SOURCE_SCRIPT_FRAGMENT"} ELSE {}

(* The second round is over: texts, warnings, repair, gates, in one go.    *)
(* What a blocking gate finds ends the command before anything is written. *)
Assemble(lossy) ==
  /\ stage = "retry"
  /\ \A u \in Units : unit[u].pc = "settled"
  /\ \A u \in Units :
       LET text == Chosen(unit[u].tries) IN
       /\ u \in lossy => MayLoseTags(u, text)
       /\ MustLoseTags(u, text) => u \in lossy
  /\ target' = [u \in Units |-> Repaired(u, Chosen(unit[u].tries))]
  /\ notes' = [u \in Units |->
       UnitNotes(u \in lossy, Warning(unit[u].tries)) \cup Fragment(target'[u])]
  /\ IF Blocked(target', flags.blocking) THEN Leave("blocked")
     ELSE stage' = "polish" /\ UNCHANGED exit
  /\ UNCHANGED <<flags, unit, output, cache>>

-----------------------------------------------------------------------------
(* The pairs the polish request is about.                                  *)
Pairs == {u \in Units : target[u] # Source}

(* What the corrections make of the targets: of any unit, asked about or   *)
(* not, unless the fix falls back into the source language.                *)
Polished(fixed) == [u \in Units |-> IF u \in fixed THEN Fix ELSE target[u]]

(* check_cross_unit_uniqueness: units of different sources with one target *)
(* that is not blank.  Every source differs here.                          *)
Duplicates(text) ==
  {u \in Units : text[u] \in Answers \cup {TagsOnly, Fix}
                 /\ \E v \in Units \ {u} : text[v] = text[u]}

(* write_target_back: a blank target gives way to the source.              *)
Written(text) == IF text = Blank THEN Source ELSE text

(* The polish pass, if it is asked for, and if the request succeeds; then  *)
(* the duplicates, the file, and its header.                               *)
Write(fixed) ==
  /\ stage = "polish"
  /\ fixed # {} => flags.polish /\ Pairs # {}
  /\ LET text == Polished(fixed)
         told == [u \in Units |->
           notes[u] \cup (IF u \in fixed THEN {"POLISH"} ELSE {})
                    \cup (IF u \in Duplicates(text) THEN {"CROSS_UNIT_DUPLICATE"} ELSE {})]
     IN /\ target' = [u \in Units |-> Written(text[u])]
        /\ notes' = told
  /\ output' = "written"
  /\ stage' = "caching"
  /\ UNCHANGED <<flags, unit, cache, exit>>

(* _write_cache, whatever the units came to, and the exit.                 *)
WriteCache ==
  /\ stage = "caching"
  /\ cache' = IF flags.no_cache THEN cache ELSE output
  /\ Leave("success")
  /\ UNCHANGED <<flags, unit, target, notes, output>>

UnitStep(u) ==
  \/ Start(u)
  \/ \E text \in Texts : Translated(u, text)
  \/ TranslateFails(u)
  \/ \E score \in Scores \cup {None} : Judged(u, score)

Finish ==
  \/ Begin
  \/ FirstRoundEnds
  \/ \E lossy \in SUBSET Units : Assemble(lossy)
  \/ \E fixed \in SUBSET Units : Write(fixed)
  \/ WriteCache

Next == (\E u \in Units : UnitStep(u)) \/ Finish \/ PipelineFails

Spec == Init /\ [][Next]_vars

(* Requests are answered or time out, and the event loop goes on.          *)
FairSpec == Spec /\ WF_vars(Finish) /\ \A u \in Units : WF_vars(UnitStep(u))

-----------------------------------------------------------------------------
(* "re-translate happens at the end (not while other units are still       *)
(* translating)", and the requests of both rounds share the slots.         *)
RetriesAtTheEnd ==
  /\ Cardinality(Asking) <= Slots
  /\ stage = "retry" =>
       \A u \in Units :
         /\ unit[u].tries = <<>> => unit[u].pc = "settled"
         /\ Len(unit[u].tries) = 1 => unit[u].pc # "judging"

(* Of two answers that were judged, none that ships was beaten by the      *)
(* other, whichever came first; what ships without a polish is an answer   *)
(* of the unit's own, or its source.                                       *)
BetterAnswerShips ==
  output = "written" =>
    \A u \in Units :
      LET tries == unit[u].tries
          text == target[u] IN
      tries # <<>> /\ text \notin {Fix, TagsOnly} =>
        \E i \in DOMAIN tries :
          /\ text = Written(tries[i].text)
          /\ Retried(tries) => \A j \in DOMAIN tries : tries[j].score <= tries[i].score

(* What the list of warnings of a unit says of its answers.                *)
Told(tries, warnings) ==
  /\ tries = <<>> => "TRANSLATION_FAILED" \in warnings
  /\ tries # <<>> /\ (tries[1].score = None \/ (Retried(tries) /\ \A i \in 1 .. 2 : tries[i].score < Pass))
       => {"LQA_SKIPPED", "Low_Score", "REPAIR"} \cap warnings # {}

(* Through the repair, the gates and the polish that rewrite the list of   *)
(* warnings, a unit without an answer is told as failed in the file, and a *)
(* unit whose answer nobody judged, or both of whose answers were judged   *)
(* low, has a warning, of the repair if not of the judge.  Of a low first  *)
(* score whose retry failed or was not judged nothing is promised:         *)
(* translate_xliff.py:284 warns only when the retry has a score.           *)
FailuresAreTold == output = "written" => \A u \in Units : Told(unit[u].tries, notes[u])

(* A command the gate blocks leaves neither output nor cache entry, and    *)
(* one it lets through never ships the source of a unit that failed: a     *)
(* source in its file stands for an answer that was blank.                 *)
BlockedShipsNothing ==
  /\ exit = "blocked" => output = "none" /\ cache # "written"
  /\ flags.blocking /\ output = "written" =>
       \A u \in Units :
         target[u] = Source => \E i \in DOMAIN unit[u].tries : unit[u].tries[i].text = Blank

(* The two rounds end, whatever fails in them.                             *)
CommandEnds == <>(stage = "exited")

-----------------------------------------------------------------------------
(* The inductive invariant.  A unit that waits or asks has no answer, or   *)
(* one with a low score; one that is judged has an answer without a score; *)
(* and what was asked for twice had a low score first.                     *)
Low(try) == try.score \in 0 .. Pass - 1

UnitOK(r) ==
  /\ r.pc \in {"queued", "asking"} => r.tries = <<>> \/ NeedsRetry(r)
  /\ r.pc = "judging" => r.tries # <<>> /\ r.tries[Len(r.tries)].score = None
  /\ Len(r.tries) = 2 => Low(r.tries[1])

(* What each stage says of a unit.                                         *)
StageOK(r) ==
  /\ stage = "begin" => r.pc = "queued" /\ r.tries = <<>>
  /\ stage = "first" => Len(r.tries) < 2 /\ (r.pc \in {"queued", "asking"} => r.tries = <<>>)
  /\ stage = "retry" => /\ r.tries = <<>> => r.pc = "settled"
                        /\ r.pc = "judging" => Len(r.tries) = 2
  /\ stage \in {"polish", "caching"} \/ output = "written" => r.pc = "settled"

(* There is no output before it is written, and no cache entry of the run  *)
(* before its exit.                                                        *)
FilesOK ==
  /\ stage \in {"begin", "first", "retry", "polish"} => output = "none"
  /\ stage = "caching" => output = "written"
  /\ stage # "exited" => cache # "written" /\ exit = None
  /\ exit = "blocked" => output = "none" /\ cache # "written"

(* Where the text of a unit comes from, and what is said of it.            *)
TextOK(u) ==
  LET tries == unit[u].tries
      text == Repaired(u, Chosen(tries)) IN
  /\ stage = "polish" => target[u] = text /\ (flags.blocking => text # Source)
  /\ output = "written" =>
       /\ target[u] \in {Fix, Written(text)}
       /\ flags.blocking /\ target[u] = Source => text = Blank
  /\ stage = "polish" \/ output = "written" => Told(tries, notes[u])

IInv ==
  /\ TypeOK
  /\ IsFiniteSet(Asking) /\ Cardinality(Asking) <= Slots
  /\ FilesOK
  /\ \A u \in Units : UnitOK(unit[u]) /\ StageOK(unit[u]) /\ TextOK(u)
=============================================================================
