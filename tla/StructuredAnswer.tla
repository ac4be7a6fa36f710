-------------------------- MODULE StructuredAnswer --------------------------
(***************************************************************************)
(* Requests that want an object back from the language model, and what     *)
(* their callers make of the answer: ModelPool.judge and ModelPool.profile *)
(* with the tolerance of ol_pool/json_tolerance.py, JudgeService and       *)
(* EnsembleJudge, the judge_text and profile_doc tools of the MCP server   *)
(* (one process, one pool) and the command ol profile-doc (a process per   *)
(* call, a directory of profiles between them).                            *)
(*                                                                         *)
(* A score is a number, meant to be from 0 to 100 and counted in tenths.   *)
(* An answer is what stands before the object (nothing, a code fence,      *)
(* words, or words with a bracket or an apostrophe among them), how the    *)
(* object ends (whole or cut off) and the values of its fields: a number,  *)
(* one in quotes, a NaN with quotes or without, words with quotes or bare, *)
(* null, or a phrase with a colon in it ("directly as per ...: 100").      *)
(* Strings in single quotes and trailing commas are mended in every answer *)
(* and left out.                                                           *)
(***************************************************************************)
EXTENDS Integers, FiniteSets, Sequences, FiniteSetsExt, SequencesExt, Functions

CONSTANTS
  Units, Tools, Docs, Files,  \* the calls of each kind of caller
  Answers,                    \* what the model may answer
  Threshold,                  \* pass_threshold, on the scale of the answers
  Null, Words, NaN            \* values of a field that are no score

(* Even, so that the mean of two scores is one.                            *)
Scores == {i \in Int : i % 2 = 0}
Points(n) == 10 * n
Checked == {"accuracy", "fluency", "adequacy", "score"}
Weight == [adequacy |-> 35, fluency |-> 30, terminology_consistency |-> 20,
           format_preservation |-> 15, accuracy |-> 0, score |-> 0]
Criteria == {"adequacy", "fluency", "terminology_consistency", "format_preservation"}

(* What a value is, the score meant by it and the first number in its      *)
(* text, if there is one.                                                  *)
Value == [is : {"number", "quoted", "nan", "quotednan", "words", "bare", "null", "colon"},
          n : Scores, first : Scores \cup {Null}]

ASSUME AnswerAssumption ==
  \A a \in Answers : /\ a.before \in {"nothing", "fence", "words", "brackets"}
                     /\ a.whole \in BOOLEAN
                     /\ DOMAIN a.fields \subseteq DOMAIN Weight
                     /\ Range(a.fields) \subseteq Value
                     /\ \A v \in Range(a.fields) :
                          /\ v.is \in {"number", "quoted"} => v.first = v.n
                          /\ v.is \in {"nan", "quotednan", "null"} => v.first = Null
ASSUME ThresholdAssumption == Threshold \in Scores
(* A call has one kind of caller.                                          *)
ASSUME CallAssumption ==
  /\ IsFiniteSet(Units)
  /\ Units \cap Tools = {}
  /\ (Units \cup Tools) \cap (Docs \cup Files) = {}

VARIABLES
  calls,     \* the calls that share the pool, or the directory
  phase,
  heard,     \* call -> the answers the model gave to it, the repair's last
  result,    \* call -> what the pool returned
  verdict,   \* call -> what the caller made of it
  cache,     \* the pool's entry for the one request of temperature 0
  guides,    \* the profile in the directory
  ensemble   \* the verdict of EnsembleJudge over the units

avars == <<calls, phase, heard, result, verdict, cache, guides, ensemble>>

None == [fields |-> <<>>, flag |-> "none"]
Calls == Units \cup Tools \cup Docs \cup Files
Profiling(c) == c \in Docs \cup Files

(* A judgement that failed is four zeros; a profile that failed says so in *)
(* a dictionary of its own ("error", or "raw_response" with the answer).   *)
(* Where the pool raises there is neither.                                 *)
Zeros(flag) == [fields |-> [f \in Checked |-> 0], flag |-> flag]
Excuse(flag) == [fields |-> <<>>, flag |-> flag]
Failure(c, flag) == IF Profiling(c) \/ flag = "raised" THEN Excuse(flag) ELSE Zeros(flag)
Unmended(c) == IF Profiling(c) THEN Excuse("raw_response") ELSE Zeros("parse_failed")
Plain(fields) == [fields |-> fields, flag |-> "ok"]

Init ==
  /\ calls \in {Units, Tools, Docs, Files} \ {{}}
  /\ phase = [c \in calls |-> "idle"]
  /\ heard = [c \in calls |-> <<>>]
  /\ result = [c \in calls |-> None]
  /\ verdict = [c \in calls |-> None]
  /\ cache = None
  /\ guides = None
  /\ ensemble = None
-----------------------------------------------------------------------------
(* The object in an answer.                                                *)

(* repair_json_text and json.loads: the first bracket or brace of the text *)
(* opens what is taken for the object, and a value with a colon in it is   *)
(* not mended.                                                             *)
Parses(a) ==
  /\ a.before # "brackets" /\ a.whole /\ a.fields # <<>>
  /\ \A f \in DOMAIN a.fields : a.fields[f].is # "colon"

(* One value of the object: a bare word or NaN has become null, what is in *)
(* quotes is a string.                                                     *)
Loaded(v) == CASE v.is = "number" -> v.n
               [] v.is \in {"bare", "nan", "null"} -> Null
               [] OTHER -> Words

(* Mutation of Coerced: a value that cannot be used counts as 0.           *)
Coerced_Zero(v) ==
  CASE v.is \in {"number", "quoted"} -> v.n [] v.is = "quotednan" -> NaN [] OTHER -> 0

(* _coerce to float: a quoted number is a number, and "NaN" is one too.    *)
Coerced(v) ==
  CASE v.is \in {"number", "quoted"} -> v.n [] v.is = "quotednan" -> NaN [] OTHER -> Null

(* salvage_fields: the checked fields are coerced; any other stays as it   *)
(* is.                                                                     *)
Salvaged(fields) ==
  [f \in DOMAIN fields |-> IF f \in Checked THEN Coerced(fields[f]) ELSE Loaded(fields[f])]

(* _judge_all_valid.                                                       *)
AllValid(fields) == Checked \subseteq {f \in DOMAIN fields : fields[f] # Null}

(* _extract_numeric finds digits behind the name of every field, and takes *)
(* the first run of them: a sign and a fraction are lost.                  *)
Scraped(a) == Checked \subseteq {f \in DOMAIN a.fields : a.fields[f].first # Null}
Digits(n) == Points((IF n < 0 THEN - n ELSE n) \div 10)

(* _parse_profile_text: an object is a profile, whatever is in it.         *)
Profile == Plain(<<>>)

(* The results an answer ends a call with, none or one: the scores of a    *)
(* judgement, or the profile.  Nothing is scraped from the answer to the   *)
(* repair request.                                                         *)
Usable(c, a, nth) ==
  IF Parses(a)
  THEN IF Profiling(c) THEN {Profile}
       ELSE IF AllValid(Salvaged(a.fields)) THEN {Plain(Salvaged(a.fields))} ELSE {}
  ELSE IF Scraped(a) /\ nth = 1 /\ ~ Profiling(c)
       THEN {[fields |-> [f \in Checked |-> Digits(a.fields[f].first)], flag |-> "regex_recovered"]}
       ELSE {}

-----------------------------------------------------------------------------
(* The call to the pool.                                                   *)

(* JudgeService asks at temperature 0.7, which is not cached.              *)
Cached(c) == c \in Tools \cup Docs

Return(c, r) == phase' = [phase EXCEPT ![c] = "returned"] /\ result' = [result EXCEPT ![c] = r]

(* Mutation of Remembered: a failure is cached like an answer.             *)
Remembered_Always(c, r) == IF Cached(c) THEN r ELSE cache

(* _cache.put, on the paths that return an answer.                         *)
Remembered(c, r) == IF Cached(c) /\ r.flag \in {"ok", "regex_recovered"} THEN r ELSE cache

Ask(c) ==
  /\ phase[c] = "idle"
  /\ IF Cached(c) /\ cache # None THEN Return(c, cache)
     ELSE phase' = [phase EXCEPT ![c] = "asked"] /\ UNCHANGED result
  /\ ~ (c \in Files /\ guides # None)
  /\ UNCHANGED <<calls, heard, verdict, cache, guides, ensemble>>

(* profile_document finds the profile of the document.                     *)
FindGuide(c) ==
  /\ phase[c] = "idle" /\ c \in Files /\ guides # None
  /\ phase' = [phase EXCEPT ![c] = "done"]
  /\ verdict' = [verdict EXCEPT ![c] = guides]
  /\ UNCHANGED <<calls, heard, result, cache, guides, ensemble>>

(* An answer that can be used ends the call; any other is sent back, once, *)
(* to be repaired.                                                         *)
Answer(c) ==
  /\ phase[c] = "asked"
  /\ \E a \in Answers :
       /\ heard' = [heard EXCEPT ![c] = <<a>>]
       /\ \/ \E r \in Usable(c, a, 1) : Return(c, r) /\ cache' = Remembered(c, r)
          \/ /\ Usable(c, a, 1) = {}
             /\ phase' = [phase EXCEPT ![c] = "repairing"]
             /\ UNCHANGED <<result, cache>>
  /\ UNCHANGED <<calls, verdict, guides, ensemble>>

(* A timeout, a 429, an open breaker, an answer without a text; one cut    *)
(* off at the token limit; or one without a choice, of which the finish    *)
(* reason is asked for all the same, outside of any try.                   *)
Fail(c) ==
  /\ phase[c] = "asked"
  /\ \E flag \in {"transport_error", "truncated", "raised"} :
       Return(c, Failure(c, flag)) /\ cache' = Remembered(c, Failure(c, flag))
  /\ UNCHANGED <<calls, heard, verdict, guides, ensemble>>

(* repair_json_once: the second answer, or a transport error; what it does *)
(* not mend fails closed.                                                  *)
Mend(c) ==
  /\ phase[c] = "repairing"
  /\ \/ \E a \in Answers :
          /\ heard' = [heard EXCEPT ![c] = Append(@, a)]
          /\ \/ \E r \in Usable(c, a, 2) : Return(c, r) /\ cache' = Remembered(c, r)
             \/ /\ Usable(c, a, 2) = {}
                /\ Return(c, Unmended(c)) /\ cache' = Remembered(c, result'[c])
     \/ /\ UNCHANGED heard
        /\ Return(c, Unmended(c)) /\ cache' = Remembered(c, result'[c])
  /\ UNCHANGED <<calls, verdict, guides, ensemble>>

(* The entry of the pool's cache runs out or is pushed out.                *)
Expire ==
  /\ cache # None
  /\ cache' = None
  /\ UNCHANGED <<calls, phase, heard, result, verdict, guides, ensemble>>
-----------------------------------------------------------------------------
(* The callers.                                                            *)

(* _remap_llm_fields: the fields there are, and no others.                 *)
Remapped(fields) == Restrict(fields, {f \in DOMAIN fields : fields[f] # Null})

(* _compute_overall_score against the threshold: the mean weighted by what *)
(* was reported.  A NaN makes it NaN, which is neither below nor above.    *)
Passes(scores) ==
  LET voted == {f \in DOMAIN scores : Weight[f] > 0}
  IN /\ NaN \notin Range(scores)
     /\ voted # {}
     /\ MapThenSumSet(LAMBDA f : scores[f] * Weight[f], voted)
          >= Threshold * MapThenSumSet(LAMBDA f : Weight[f], voted)

(* JudgeService.judge.  Where the pool raises every criterion is 0.  One   *)
(* that the model added and nobody checked is divided by 10 all the same:  *)
(* when it is no number, judge raises.                                     *)
Judge(c) ==
  /\ phase[c] = "returned" /\ c \in Units
  /\ LET scores == IF result[c].flag = "raised" THEN [f \in Criteria |-> 0]
                   ELSE Remapped(result[c].fields)
     IN verdict' = [verdict EXCEPT ![c] =
          IF Words \in Range(scores) THEN [fields |-> <<>>, flag |-> "raised"]
          ELSE [fields |-> scores, flag |-> IF Passes(scores) THEN "passed" ELSE "low"]]
  /\ phase' = [phase EXCEPT ![c] = "done"]
  /\ UNCHANGED <<calls, heard, result, cache, guides, ensemble>>

(* judge_text reports the fields; what is missing is reported as 50.  An   *)
(* exception is reported as an error.                                      *)
Report(c) ==
  /\ phase[c] = "returned" /\ c \in Tools
  /\ verdict' = [verdict EXCEPT ![c] =
       IF result[c].flag = "raised" THEN Excuse("error")
       ELSE [fields |-> [f \in Criteria \cup {"score"} |->
                           IF f \in DOMAIN result[c].fields THEN result[c].fields[f]
                           ELSE Points(50)],
             flag |-> "success"]]
  /\ phase' = [phase EXCEPT ![c] = "done"]
  /\ UNCHANGED <<calls, heard, result, cache, guides, ensemble>>

(* StyleGuide.from_dict knows no "error" and no "raw_response": a failure  *)
(* is a guide with nothing in it, kept like any other.  An exception of    *)
(* the pool goes through, and nothing is kept.                             *)
Guide(c) ==
  /\ phase[c] = "returned" /\ Profiling(c)
  /\ verdict' = [verdict EXCEPT ![c] =
       Excuse(CASE result[c].flag = "ok" -> "style" [] result[c].flag = "raised" -> "error"
                [] OTHER -> "empty")]
  /\ guides' = IF c \in Files /\ result[c].flag # "raised" THEN verdict'[c] ELSE guides
  /\ phase' = [phase EXCEPT ![c] = "done"]
  /\ UNCHANGED <<calls, heard, result, cache, ensemble>>

(* Mutation of Votes: a judge that did not report the criterion votes 0.   *)
Votes_Absent(f) ==
  {<<IF f \in DOMAIN verdict[c].fields THEN verdict[c].fields[f] ELSE 0, c>> : c \in calls}

(* The votes of EnsembleJudge on a criterion: of those that reported it.   *)
Votes(f) ==
  {<<verdict[c].fields[f], c>> : c \in {d \in calls : f \in DOMAIN verdict[d].fields}}

(* The i-th of the sorted scores: the least that i of the votes reach.     *)
Ranked(votes, i) ==
  Min({v[1] : v \in {w \in votes : Cardinality({u \in votes : u[1] <= w[1]}) >= i}})

(* Mutation of Median: the best of the votes.                              *)
Median_Best(votes) == Ranked(votes, Cardinality(votes))

Mean(x, y) == IF NaN \in {x, y} THEN NaN ELSE (x + y) \div 2

Median(votes) ==
  LET n == Cardinality(votes)
  IN IF n % 2 = 1 THEN Ranked(votes, n \div 2 + 1)
     ELSE Mean(Ranked(votes, n \div 2), Ranked(votes, n \div 2 + 1))

(* A NaN is neither less than a score nor not: with one among the votes    *)
(* sorted() leaves an order that depends on the order of the judges, and   *)
(* any vote can come to stand in the middle.                               *)
Middles(votes) ==
  IF \A v \in votes : v[1] # NaN THEN {Median(votes)}
  ELSE IF Cardinality(votes) % 2 = 1 THEN {v[1] : v \in votes}
  ELSE UNION {{Mean(v[1], w[1]) : w \in votes \ {v}} : v \in votes}

Gather ==
  /\ calls = Units /\ ensemble = None
  /\ \A c \in calls : phase[c] = "done"
  /\ LET voted == {f \in Criteria : Votes(f) # {}}
     IN \E scores \in [voted -> UNION {Middles(Votes(f)) : f \in voted}] :
          /\ \A f \in voted : scores[f] \in Middles(Votes(f))
          /\ ensemble' = IF \E c \in calls : verdict[c].flag = "raised"
                         THEN [fields |-> <<>>, flag |-> "raised"]
                         ELSE [fields |-> scores, flag |-> IF Passes(scores) THEN "passed" ELSE "low"]
  /\ UNCHANGED <<calls, phase, heard, result, verdict, cache, guides>>

Next ==
  \/ \E c \in calls : \/ Ask(c) \/ FindGuide(c) \/ Answer(c) \/ Fail(c) \/ Mend(c)
                      \/ Judge(c) \/ Report(c) \/ Guide(c)
  \/ Expire
  \/ Gather

Spec == Init /\ [][Next]_avars
-----------------------------------------------------------------------------
Answered == {"ok", "regex_recovered"}

(* The score of a field as it was meant,                                   *)
Meant(score, v) ==
  \/ v.is \in {"number", "quoted", "colon"} /\ score = v.n
  \/ v.is = "quotednan" /\ score = NaN
(* and as digits behind its name give it: a multiple of a point, less than *)
(* a point below the size of the first number there.                       *)
Truncated(score, v) ==
  /\ v.first # Null /\ score % Points(1) = 0
  /\ \E size \in {v.first, - v.first} : size >= 0 /\ size - score \in 0 .. Points(1) - 1

(* The result r is, field by field, that of the answer a.                  *)
Copies(r, a) ==
  \A f \in Checked :
    /\ f \in DOMAIN a.fields
    /\ IF r.flag = "ok" THEN a.fields[f].is # "colon" /\ Meant(r.fields[f], a.fields[f])
       ELSE Truncated(r.fields[f], a.fields[f])

Heard == UNION {ToSet(heard[d]) : d \in calls}
Given(r) == \E a \in Heard : Copies(r, a)

(* The scores of a judgement are those of one answer of the model, field   *)
(* by field, to this call or to the one that filled the cache; a call that *)
(* got no such answer is a failure.  Nothing is made up for a field the    *)
(* model left out or spoiled, and two answers are never mixed.  The scores *)
(* of an answer that is an object are exact; those scraped from any other  *)
(* are the whole points, without the sign, of the first number behind each *)
(* name, and marked "regex_recovered".                                     *)
ScoresAreTheModels ==
  \A c \in calls : ~ Profiling(c) /\ result[c].flag \in Answered => Given(result[c])

(* What the cache holds for later calls is an answer: an outage of the     *)
(* model, or an answer that could not be mended, is not remembered.        *)
OutageIsForgotten == cache # None => cache.flag \in Answered

Reporting(f) == {c \in calls : f \in DOMAIN verdict[c].fields}
Content(f) == {c \in Reporting(f) : verdict[c].fields[f] >= Threshold}
Most(some, all) == 2 * Cardinality(some) > Cardinality(all)

(* Most of the judges that report a criterion decide on which side of the  *)
(* threshold it ends, on either side; the ones that left it out have no    *)
(* say (T13-01).  A judge whose call failed reports zeros and has a say.   *)
(* Only among votes that are numbers: a NaN the model put in quotes is a   *)
(* vote as well, and with it nothing is sure.                              *)
MajorityDecides ==
  ensemble.flag \in {"passed", "low"} =>
    \A f \in Criteria :
      (\A c \in Reporting(f) : verdict[c].fields[f] # NaN) =>
        /\ Most(Content(f), Reporting(f)) => ensemble.fields[f] >= Threshold
        /\ Most(Reporting(f) \ Content(f), Reporting(f)) => ensemble.fields[f] < Threshold

-----------------------------------------------------------------------------
(* The inductive invariant of the proofs: a call has heard nothing before  *)
(* it gets its answer, so that no answer is ever taken back; and what the  *)
(* cache holds was said by the model to one of the calls.                  *)
Phases == {"idle", "asked", "repairing", "returned", "done"}

CallsOK ==
  /\ calls \in {Units, Tools, Docs, Files}
  /\ phase \in [calls -> Phases]
  /\ heard \in [calls -> Seq(Answers)]
  /\ DOMAIN result = calls
  /\ \A c \in calls : phase[c] \in {"idle", "asked"} => heard[c] = <<>>

CacheIsGiven ==
  \A c \in calls : cache # None /\ ~ Profiling(c) => Given(cache)

IInv == CallsOK /\ OutageIsForgotten /\ CacheIsGiven /\ ScoresAreTheModels

(* What the vote rests on: what the judges report is numbers, or a NaN the *)
(* model put in quotes, unless they raised, and the ensemble is gathered   *)
(* from verdicts that are final.                                           *)
Loads(fields) == \A f \in Criteria \cap DOMAIN fields : fields[f] \in Scores \cup {Null, Words, NaN}
Counts(fields) == \A f \in Criteria \cap DOMAIN fields : fields[f] \in Scores \cup {NaN}

Gathered ==
  /\ calls = Units
  /\ \A c \in calls : phase[c] = "done" /\ verdict[c].flag # "raised"
  /\ \A f \in Criteria : Votes(f) # {} => ensemble.fields[f] \in Middles(Votes(f))

VotesOK ==
  /\ DOMAIN verdict = calls
  /\ \A c \in calls : Loads(result[c].fields)
  /\ Loads(cache.fields)
  /\ \A c \in calls \cap Units : verdict[c].flag # "raised" => Counts(verdict[c].fields)
  /\ ensemble.flag \in {"passed", "low"} => Gathered
=============================================================================
