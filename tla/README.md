# Omni-Localizer: a TLA+ model

Omni-Localizer translates Markdown and XLIFF files with LLMs. Its program logic
is in the protocols around the LLM calls: a pool of models with retries,
failover, circuit breakers and a cache; a quality loop that judges a translation
and asks again; concurrent translation of the units of a document and of the
files of a batch; an output cache that decides whether a run is needed at all;
checkpoints; and an MCP server that runs translations in the background. This
directory models those protocols in TLA+, checks small instances with TLC and
proves the main safety properties, for every value of the constants, with TLAPS.

Paths are relative to the repository's `src/` package directory; documents and
tests are named from the repository's root.

## 1. Inventory

| Part | State | Operations | What is hard | What makes it correct |
|---|---|---|---|---|
| `ol_pool/router.py` translate | breaker per role, prompt cache, attempt counter, tried models | `translate`, `_call_with_breaker`, `_process_translation_response`, `_intra_role_failover`, `_PromptCache.get/put` | coroutines share breaker and cache across awaits; retries and failover combine; reports that arrive after the breaker opened | only checked text gets out, for its own key; a request budget; a 429 only when every model name is exhausted; every call ends |
| `ol_pool/router.py` judge, profile, with `json_tolerance.py` | the prompt cache | `judge`, `profile`, `repair_json_text`, `repair_json_once`, `salvage_fields` | answers that are spoiled, cut off or missing, mended in four ways | a score is exact or marked; an outage is not remembered |
| `ol_concurrency/scheduler.py` | three semaphores | `translation`, `scoring`, `xliff` | a timeout or cancellation that races a grant | slots add up, no wake-up is lost, first come first served, the limit |
| `ol_retry/retry.py` | attempts, scores, best text | `execute_with_retry` | which text survives which failure, in which order | the best attempt ships |
| `cli/translate_md.py` units | text, warnings, flag of each unit | `_translate_one_unit`, `_translate_units_concurrent` | partial failure: one unit of many falls back, and the document must say so | every fallback counted; bounded requests; every unit ends |
| `cli/cache.py` with the Markdown command | output files, cache on disk | `_check_cache`, `_write_cache`, `_clear_ol_cache`, `translate_md` | a bad run must not poison the cache; kills and edits between steps | untranslated never cached; exit codes that tell the truth; files under their own input |
| `cli/translate_xliff.py`, `ol_xliff/polish.py` | answers, scores, warnings of each unit | `_translate_xliff_pipelined`, `_translate_xliff_async`, `polish_xliff_units`, `write_target_back` | two rounds that overlap; five stages that each rewrite the list of warnings; a gate that raises in the middle | the better answer ships; failures are told; a blocked command leaves nothing |
| `ol_mcp/` | task table, token bucket, temporary directories | the dispatcher, `translate_md_text`, `translate_xliff`, `translate_file`, `get_translation_status`, `TokenBucket.consume` | tasks in the background that race polls and restarts; subprocesses that hold the event loop | a task that ended is seen to have ended; tokens are spent once; a success has written its file |
| `ol_batch/processor.py`, `cli/batch.py` | results, the output directory | `process_batch`, `_process_single_file`, `batch_translate_texts` | slots under timeouts, one failing file, two files of one name | a success has its outputs; what is remembered is what was made |
| `ol_tm/service.py` | entries, dirty flag, TMX file and its lock | `_load`, `add`, `flush`, `close`, `search` | processes that read without the lock and write with it; kills in a write | the file is of one writer; nothing added is taken for saved |
| `ol_buses/`, `ol_xliff/`, `ol_md/`, `ol_post/` | shields, markers, warnings of a text | shield, restore, the four levels of repair, rebuild, punctuation | each level may add what is there already, or take one key for another | every protected element comes back once |
| `ol_lqa/` | judge scores | `judge`, `EnsembleJudge`, `run_quality_gates` | transport errors taken for verdicts; gates that read another text than ships | an ensemble that follows its majority; a copy of the source is told |
| `ol_config/`, the pool's construction | roles, deployments, fallbacks, ceilings | `load_config`, `partition_usable_models`, `_build_model_list`, `_build_fallbacks`, `compute_rate_limit_backoff` | missing keys, two places that decide one thing | fallbacks that are served; the ceiling an entry declares; waits that are capped |
| `ol_style/` | a directory of profiles | `profile_document`, `ProfileCache` | a failure that looks like a profile | see section 7 |
| `ol_terminology/` | glossary | load, `verify_translation`, coverage | none beyond text matching | |
| `ol_checkpoint/` | checkpoint file and its lock | `save`, `load`, `resume`, `gc` | no code outside its tests calls it | |
| `ol_restoration/` | | `extract_placeholders`, `restore` | works on placeholders the input file itself spells out | |
| `ol_logging/`, `ol_core/`, reports, other commands | | | none that a model checker reaches | |

How they interact. A command (`cli/`) or the MCP server builds a `ModelPool`
and a document bus. The command looks in its output cache; on a miss it parses
the document into units and starts one coroutine per unit (or, in a batch, per
file), gated by a semaphore. A unit calls `pool.translate` through
`RetryManager` (Markdown) or in two rounds (XLIFF), and the judge, which calls
the pool again, scores each text. The texts are restored, repaired, checked by
the gates, polished and written; in the Markdown command the untranslated units
are counted, and the count decides about the cache, the output and the exit
code. All coroutines of a process share one event loop, the pool's breakers and
its prompt cache; processes share the files.

The hazards of each part, at the line where they bite, are in `PROJECT.json`.

## 2. Plan

Done:

1. `CircuitBreaker`, `ModelPool` and `TranslateContract`, the abstract
   specification of what the pool promises; `ModelPoolProofs`.
2. `ConcurrencyLimiter`, `ConcurrencyLimiterProofs`.
3. `UnitTranslation`, `UnitTranslationProofs`.
4. `MdCommand`, `MdCommandProofs`.
5. `XliffDocument`: the XLIFF command.
6. `TMService`, and `BatchRun` composed of it.
7. `McpServer`.
8. `ShieldedText`, `XliffTags`, `MdShield`, `QualityGates`, pure algorithms on
   texts, and `TextRepair`, which runs them in the order of either channel.
9. `StructuredAnswer`: what is made of an answer that should be an object.
10. `PoolConfig`: from a configuration to the pool; its theorems are at the end
    of `ModelPoolProofs`.
11. `XliffDocumentProofs`.
12. `McpServerProofs`, with the budget of the token bucket.
13. `BatchRunProofs`, which proves the memory first and the batch on top of it.
14. `FiledUnderItsInput` in `MdCommandProofs`; `AnswerProofs`, with the vote of
    the ensemble.
15. `TextRepair` in `AnswerProofs`, first its XLIFF channel, then its Markdown
    channel.
16. `SlotPool`, the abstract specification of a slot pool, and its refinement in
    `ConcurrencyLimiterProofs`.

What could come next: the composition of the units with the command (a
document's count is the number of its flagged units), and the repair of texts in
which one element has another's text inside it.

Not planned: section 8.

## 3. Modules and code

Each module is named after the part it models; actions keep the functions'
names where one action is one function. One action is what a coroutine does
between two awaits, or a process between two system calls that others can see.
Definitions whose names carry a suffix (`Remember_OneKeyForAll`) are mutations
of the definition after them: each is a plausible bug that some property must
detect. They are in no specification.

**`CircuitBreaker`** models `pybreaker.CircuitBreaker` (a library) as
`ol_pool/router.py` uses it: a record of state, failure count and age. The
library half-opens only inside `call`; the age of an open breaker stops at
`ResetTimeout`, since nothing distinguishes later moments.

**`ModelPool`** is `ModelPool.translate` with everything it calls.

| Model | Code |
|---|---|
| `breaker` | `_breakers["translation"]` |
| `cache` | `_PromptCache`: the answer of each key |
| `pc`, `attempt`, `attempted`, `asking` | the await a coroutine is at, and its locals in `translate` and `_intra_role_failover` |
| `Translate` | the entry: cache lookup (an expired entry is deleted), first call |
| `Wake` | the end of a backoff sleep and the next `_call_with_breaker` |
| `RouterAnswers`, `RouterFails`, `RouterLimits` | what `router.acompletion` returns or raises, up to the next await |
| `AskDirectly`, `DirectAnswers`, `DirectLimits`, `DirectFails` | the loop of `_intra_role_failover` |
| `Tick` | the clock of an open breaker |
| `spent`, `limited`, `answered` | history, read by no action |

An answer is one of three kinds, by the checks of
`_process_translation_response`; an error is a timeout, a 429, an
authentication error or something else. The litellm Router's own retries and
choice of deployment are external: a 429 comes from any deployment or from the
Router itself. A model id is a provider and a name; two tiers may share an id, and
two ids a name. The text of a 429 says an id, a bare name or nothing (`Labels`),
and a bare name stands for every id that has it (`Named`), as in the loop at the
head of `_intra_role_failover`.

**`TranslateContract`** is what callers of `translate` rely on: a call makes a
bounded number of requests and ends with a text some request produced for its
key, or fails. `ModelPool` implements it (`ImplementsContract`) by mapping
`status` to where the call is, `wants` to its key and `requests` to `spent`.

**`ConcurrencyLimiter`** is one slot pool and the tasks that go through it.
`value` and the line (`ahead`) are `asyncio.Semaphore`, modelled after CPython
3.13 (a library, the version the project requires); `Managed` says whether
tasks use the context managers of `scheduler.py` with their `finally: release`,
or write `async with sem`.
`Interrupt` is the timeout or cancellation reaching a waiter, `Abandon` the
waiter running afterwards: between the two the semaphore may already have
granted it a slot.

**`SlotPool`** is what those tasks rely on, with no semaphore: a pool serves a
task at once if nobody waits and otherwise in the order the tasks came, and never
more tasks than it has slots; a `Leaky` pool may gain a slot when a task leaves.
`ConcurrencyLimiter` implements it (`ImplementsPool`): who waits is the queue,
who is served owns a unit, and the order of the waiting is read from `ahead`;
`Leaky` is `Managed`.

**`UnitTranslation`** is `_translate_one_unit` for all units of a document. A
unit's record holds what its coroutine and the `RetryManager` hold: the number
of requests, the answer the prompt cache keeps (`kept`), the text before the
judge (`cand`), `attempt_history` and the best attempt in it, the text, its
warnings, the copy attempts. The operators on records (`Asked`, `Scored`,
`Judged`, `Settled`, `CopyChecked`, `Finished`) are the stretches of code
between awaits, and the actions apply them: `Start`, `Answer`, `AskFails`,
`Judge`, `JudgeFails`, `Reask`, `ReaskAnswers`, `ReaskFails`. `Forget` is expiry
or eviction in the prompt cache.

**`MdCommand`** is `ol translate-md` as a process. A run looks in the cache
(`Begin`), copies a hit (`Copied`), or reads the input (`Read`), translates it
(`Translated`, `PipelineFails`), writes the cache in two steps (`WriteCache`,
`Filled`: `shutil.copy` in place) and exits (`End`). `Kill`, `Edit` and
`ClearCache` are what else happens to it, at any moment. Two fields are history,
read by no action: `overtaken` marks a run whose input was edited after it had read
it and before its second hash, `late` a cached file such a run has filed. A file is what anyone relies on: which
version of the input it is of, whether units of it carry their source
(`degraded`), whether its frontmatter says so (`recorded`), and whether it is
there to its end (`whole`). The translation is one step with a count of
untranslated units, whose correctness is `UnitTranslation`'s
`FallbackIsCounted`.

**`XliffDocument`** is `ol translate-xliff` with LQA on, as one process: the
cache (`Begin`), the units (`Start`, `Translated`, `TranslateFails`, `Judged`),
the end of the first round, which sends the low-scored units round once more
(`FirstRoundEnds`), the end of the second with texts, warnings, repair and gates
in one stretch without an await (`Assemble`), polish, duplicates and the file
(`Write`), the cache entry (`WriteCache`), and everything that raises
(`PipelineFails`). A unit is where its coroutine is and its `tries`: each answer
with its score, or with none when the judge failed. A text is an answer, the
source, whitespace, tags alone, or what polish made.

**`McpServer`** is the server as its clients see it. A call is turned away
(`Refused`: rate limit, secret, validation), becomes a task (`Accepted`) or is
waited for (`Waits`); `Starts`, `UnitTranslated`, `Translated`, `Polished` and
`Raises` are what its coroutine does between awaits; `Process` is one of the
three subprocesses of `translate_file`, which hold the event loop, so that every
other handler waits for `loop = None`. An answer may get frontmatter, as the last
thing before it is sent (`Headed`), behind the gates. `admitted` is history: how many
calls the bucket has let through up to each moment.
`Poll` is `get_translation_status`,
`Restart` loses what a process holds, `Tick` is the clock of the bucket. The
gates and the polish come in the order of each tool (`GatedBefore`).

**`TMService`** is the memory and its TMX file: `Open` reads without the lock;
`Flush` (or close), `Lock`, `Truncate`, `Written` and `SaveFails` are the steps
of a save; `Killed` may come between any two. **`BatchRun`** extends it with a
batch whose processor has one of the services: `Begin`, `Skip`, `QueueTimeout`,
`Fail`, `Translated`, `Retried` per file, `Interrupt` and `Exit` for the batch,
and `Memory` for the other processes. A file stands for its text, and `Finish`
is the stretch from the last answer to the written output, in the code's order:
first the memory, then the file. A wait for a slot that timed out leaves one slot
too many (`Slots`), as in `ConcurrencyLimiter`. `ol translate-batch` passes no `tm_service`;
the processor's parameter does.

**`ShieldedText`** says what a text is for the shields: a sequence of pieces, a
word of some kind or a protected element in one of the forms it takes on its way
(the element, its marker, its key as plain text, an escaped tag, a damaged
reference). An element is named by its kind and a number: the Markdown shield
counts, and an XLIFF tag has its `id`, which is a number in the files the shield's
second placeholder form and level 4 are written for (`\d+`); one id's decimal
digits can begin another's (`Beginnings`). **`XliffTags`** and **`MdShield`** are the two channels' functions on
such texts: shield, restore, completeness, the repair levels, the fallback, the
writing. **`QualityGates`** is `run_quality_gates` and the glossary audit on
words told apart by what the gates look for. **`TextRepair`** sends one text
through them: `Shield`, `Reply` (the model keeps, drops, repeats, moves or
rewrites each piece), `Restore`, `Clean` (level 1), `Align` (level 2),
`FallBack` (level 4), `Write`, `Gate`; level 3 is off, since no caller passes a
restorer. A Markdown text that is its source closes with the notice of
untranslated units (`Closing`), which the gates then read with the rest.

**`StructuredAnswer`** is every request that wants an object back. Its calls
share a pool (`Ask`, `Answer`, `Fail`, `Mend`, `Expire`), or a directory of
profiles (`FindGuide`); `Judge`, `Report` and `Guide` are what `JudgeService`,
the `judge_text` tool and the profile callers make of the result, and `Gather`
is `EnsembleJudge`, whose median is the score that as many votes reach as its
rank says (`Ranked`), or the mean of two; with a NaN among the votes any of them
can stand in the middle of what `sorted` returns (`Middles`). An answer is what
stands before the object, whether the object is whole, and of each field the form
of its value, its number and the first number in its text, which a regular
expression would find (`Digits`: without sign and fraction). Scores count in even
tenths, so that a fraction can be lost and the mean of two is exact. A call
may also raise (an answer without a choice), which `JudgeService` takes for zeros
on all four criteria.

**`PoolConfig`** has no state: operators from a configuration and an environment
to what the pool is given. `MCModelPool` takes the model ids of its runs, and
their order, from it, and assumes two facts about that configuration which TLC
evaluates in each run.

The module of a component ends with its inductive invariant, `IInv` (`RepairInv`
and `MdInv` in `TextRepair`, `TMInv` in `TMService`, `LineOK` besides in
`ConcurrencyLimiter`), where section 6 proves one. The `MC`
modules give the constants their small values; the `*Proofs` modules hold the
theorems.

## 4. What the runs show

| Run | Instance | Distinct states | Checks |
|---|---|---|---|
| `pool_calls` | 2 calls, 1 key, 2 models, 2 attempts, breaker opens at 2 | 428,000 | `TypeOK`; `ImplementsContract`: a call ends with a text got for its key, and sends at most `MaxAttempts` requests through the Router and one to each model; `EveryCallReturns` |
| `pool_cache` | 2 calls, 2 keys, 3 models of which two share a name, 1 attempt, reset after 2 ticks | 2,599,000 | `OnlyValidText`: whatever is returned or cached passed the checks and was made for its key; `RateLimitMeansExhausted`: the 429 a caller sees means that every model name of the role answered its call 429, through one provider at least; `OpenHoldsUntilReset`: late reports neither close an open breaker nor restart its clock |
| `limiter_slots` | 4 tasks, 2 slots, at most 2 leaks | 34,000 | `SlotAccounting`: units and owners add up to the configured slots and the releases without an acquire; `NoLostWakeup`; `QueuedProceeds`: a queued task gets its turn however many come after it; `ImplementsPool`: slots go to the tasks in the order they came, and no more are handed out than there are |
| `units` | 2 units, one exempt from the copy check, 1 slot, 1 quality retry, 3 copy attempts | 327,000 | `FallbackIsCounted`: along every path a unit that ends with its source is counted, no other is, and none ends blank; `RequestBudget`; `BestAttemptShips`; `EveryUnitEnds` |
| `md_closed` | 2 runs with every combination of flags, 2 versions of the input, edits at any moment, kills, old degraded cache files | 3,513,000 | `ExitIsHonest`: exit 0 means an output, degraded only if the caller allowed it and is told, and the fail-closed exit leaves none; `UntranslatedNeverCached`; `FiledUnderItsInput`: a cached file is a translation of the input it is filed under, unless its run was overtaken by an edit between its reading and its second hash |
| `xliff` | 2 units, one with tags, 1 slot, scores 0 to 2, one answer besides source and blank | 781,000 | `RetriesAtTheEnd`: the second round begins when the first is over, and both keep to the slots; `BetterAnswerShips`; `FailuresAreTold`: a unit without an answer, one whose answer nobody judged and one both of whose answers were judged low has a warning in the file (a low score whose retry failed has none, §7); `BlockedShipsNothing`; `CommandEnds` |
| `server` | 2 calls of 5 kinds of request, burst 2, refill 1, 2 ticks, 2 units in a file, 1 restart | 624,000 | `AdmittedWithinBudget`: no span sees more calls and polls admitted than a full bucket and the span's refill; `NotFoundOnlyAfterRestart`; `CompletedIsWritten`; `GatesSawWhatShips`: gates that ran read all of the answer but the frontmatter, which is there exactly when asked for; `EveryCallEnds` |
| `batch` | 2 files of one name or two, 1 or 2 slots, 2 services, 1 language pair, 2 entries | 415,000 | `NeverMixed`: the memory's file is never made of two writers; `CleanMeansSaved`; `SuccessIsWritten`; `RemembersWhatShips`; `BatchEnds` |
| `text` | 7 texts, three of XLIFF and four of Markdown, and every answer made of edits to their pieces | 65,000 | `FaithfulShips`: a faithful answer is not touched; `LostOnlyInShadow`: a tag is lost only where another key holds its own; `NoPlaceholderShips`; `ShieldedOnce`; `EchoIsTold`: an answer that is the source is told, a unit by gate 5 and a Markdown text by the notice it closes with |
| `answers` | 3 judges, 2 tools, 2 documents, 2 files, every form of answer, threshold 70 | 1,049,000 | `ScoresAreTheModels`: the scores of a judgement are those of one answer, exactly, or marked and cut to the digits of its first numbers; `OutageIsForgotten`; `MajorityDecides`: most of the judges that reported a criterion decide on which side of the threshold it ends, on either side, as long as all reported numbers |

Two more runs, `pool_reset` and `limiter_over`, end in a violation: each shows
where the code does something else than its documents say (section 7).

The bounds, and why they are enough:

- Two calls, units, runs or files: the shared state (breaker, cache, slots,
  cache files, memory) is read and written by single steps, and a hazard needs
  one actor between two steps of another. The slot pool has four tasks over two
  slots, so that two can be granted, and cancelled, at once while others queue.
- `MaxAttempts = 2` gives a first attempt, a retry and a last attempt that
  differs from the first; the default of the code differs only in how often the
  middle one repeats. Two models make a failover with a model left and one with
  none left; `pool_cache` has a third that shares its name with one of them, so that
  a 429 can take out a model nobody asked, with another left to ask.
- `FailMax = 2` (5 in the code) is the least at which failures accumulate before
  the breaker opens; `ResetTimeout` counts moments, 2 telling "just opened",
  "ageing" and "due" apart.
- `pool_cache` has one attempt: the cache, the failover and the late reports
  concern the ends of calls, whichever attempt ended them. With two keys an entry
  can be evicted by the other's. The contract is checked in `pool_calls`, where
  attempts and failover both spend the budget.
- `MaxLeaked = 2` is a bound of the model only: each cut-short wait adds a slot
  for good, so the state space has no end without it. Two leaks fill the pool
  with as many extra slots as it had.
- `CopyAttempts = 3` is the code's. `Pass = 2` gives a bad, a better and a
  passing score, so that the best need not be the last; `MaxRetries = 1` makes a
  first and a last attempt. One slot makes the two units compete.
- `md_closed` takes the unit mode and the frontmatter on; the theorems of section
  6 cover the frontmatter off. The cache starts with any selection of files that
  versions before the cache rules may have left.
- `xliff`: one answer besides the source and whitespace is enough to make two
  units' texts equal, and a retry equal to or unlike the first answer. The code
  has one retry.
- `server`: the five requests are an asynchronous and a waited-for call of each
  kind where the tool has both, with and without polish, two of them writing one
  path, and a document written over its source. `MaxTime = 2` lets the bucket
  refill past its size; one restart lets a client poll for a task of the process
  before it.
- `batch`: `MaxEntries = 2` (a bound of the model) lets a file's entry meet one
  of another process. The two layouts are one name in two directories, and two
  names.
- `text`: each text is the least that has its hazard: keys inside one another, a
  begin and an end tag, one tag twice, two images, fenced code and punctuation, an element
  inside an element, and inline code. An answer edits every piece on its own,
  keeps or turns round the order, and may have an instruction before it or an
  escaped tag behind it.
- `answers`: three judges are the least that has a majority without one of them,
  and with one that leaves a criterion out an even number votes. The answers have
  each form of a value and of a spoiled object: quoted and broken numbers, a
  negative one, a phrase with a number in it before the score, a NaN with quotes
  and without.
- Symmetry over calls (and keys), over runs with their files (and versions), or over judges
  is used in runs that check safety only. Deadlock is not checked in `units`,
  `xliff`, `server`, `batch`, `text` and `answers`, whose subject ends (or, in
  `server`, whose calls are used up); in the others a new call or run can always
  begin.

## 5. Fairness

Liveness is checked under weak fairness of what a coroutine or process does once
it can, never of what starts one, and in one place under strong fairness.

- `ModelPool`: `WF(Continue(c))` for each call. A sleep ends, and a request is
  answered or times out: the Router has a timeout of its own (120 s), and a
  direct request carries its model's or the library's default. Nothing
  makes a caller call, makes an entry expire or makes time pass for the breaker.
- `ConcurrencyLimiter`: `WF(Run(w))`. The event loop runs a task whose future is
  set or that was cancelled, and a body ends, for the same reason. No task has to
  arrive, and no wait has to time out.
- `UnitTranslation`: `WF(Step(u))`. A request or a judge call ends, a pause ends,
  and a free slot goes to a unit that waits. That the same unit does get it needs
  no more than weak fairness: the number of steps of the others is bounded.
- `XliffDocument`: `WF(UnitStep(u))`, as for the units above, and `WF(Finish)`:
  the command goes on when the gather of a round returns.
- `McpServer`: `WF(Works(c))` and `WF(Process(c))`. Requests to the pool have a
  timeout, and so has `subprocess.run`; the loop runs each coroutine once no
  subprocess holds it. No client has to call or poll, and time need not pass.
- `BatchRun`: `WF(Works(f))` and `WF(Exit)` as above; for a service
  `WF(Saves(s))`, a save goes on or fails, and `SF(Lock(s))`: a process that
  waits in `flock` gets the lock in its turn, however often others take it. A
  batch has a slot at all (`MaxSlots > 0`), which the command line does not see to
  (section 7).
- `MdCommand`, `TextRepair` and `StructuredAnswer` state no liveness: a process
  may be killed at any point, and the other two are one pass with no loop.

## 6. What is proved

All theorems hold for every value of the constants that satisfies the module's
assumption, which TLC evaluates in the runs (`BreakerAssumption`,
`PoolAssumption`, `LimiterAssumption`, `UnitAssumption`, `CommandAssumption`,
`XliffAssumption`, `TMAssumption`, `BatchAssumption`, `McpAssumption`,
`TextAssumption`, and `AnswerAssumption`, `ThresholdAssumption` and
`CallAssumption` of `StructuredAnswer`): any number of calls, keys, models, tasks,
units, runs, versions, files, services, judges, retries and texts. They say that a
bound is a number, that the requests of an instance have the shape the code
accepts, that the values standing for "nothing" are no data, that the callers of
`StructuredAnswer` are of one kind each and its judges finitely many, that an
XLIFF source is a sequence of words and of tags of the three kinds with a number
each, and that a Markdown source is a sequence of words and of protected elements,
each at one place; no more.

Each theorem follows the same argument: `Init => IInv`,
`IInv /\ [Next]_vars => IInv'` with one lemma per action, and `IInv` implies the
property. The type invariant is the first conjunct of each `IInv`; only
`pool_calls` also checks one by itself. TLC has checked each `IInv` on the
instance of the component's run.

**`ModelPoolProofs`**: `TypeCorrect`, `TextsAreValid` (`OnlyValidText`),
`BudgetKept` (`WithinBudget`), `RateLimitIsExhaustion`, `OpenHolds` and
`Refinement` (`ImplementsContract`, which bounds the requests of a run by that
budget). `WithinBudget` alone is
not inductive: that a call has a request left depends on how many models it has
tried. `IInv` therefore ties, for each place a call can be suspended at, the
requests sent to the attempt number and the number of ids in `attempted`
(`SpentOK`), the ids in `attempted` to the 429s received, from the id itself or
from one that shares its name (`FailoverOK`), and the
texts in results and cache to the keys they were produced for (`ResultOK`,
`CacheOK`). The refinement uses `IInv` in both states: a step of one call
changes the abstract status of that call only.

**`ConcurrencyLimiterProofs`**: `SlotsAddUp`, `WakeupsReach`, and
`RawRespectsLimit`: without the context managers (`ASSUME ~Managed`, the way
the Markdown and XLIFF paths use a semaphore) no more bodies run than there are
slots. The argument is a count of the tasks that own a unit, with lemmas on how
it changes when one task moves (`Move`) and when several are granted
(`GrantKeepsCount`). `NoLostWakeup` is inductive together with the accounting: a
step that frees units grants until no unit or no waiter is left. `Refinement`
(`ImplementsPool`): every step of a task is a step of `SlotPool` or leaves it
alone. The accounts give the limit; the order needs one more invariant, `LineOK`,
that a task which has left the line stands in front of nobody, since a task that
asks again must come after all who wait.

**`UnitTranslationProofs`**: `FallbacksCounted`, `RequestsBounded`, `BestShips`,
with LQA on and, which no run instantiates, off. `IInv` says of each unit, by
where it is suspended, what is known: before and while it asks, one request at
most is unaccounted for in `attempt_history` and `best` points at a maximum;
once settled, requests are bounded by retries and copies, and the text is that
of a best attempt unless something went wrong. Units only share the slots, so
one lemma (`UnitBecomes`) reduces a step to its unit.

**`MdCommandProofs`**: `CacheStaysTranslated` (`UntranslatedNeverCached`),
`ExitsAreHonest` and `CacheIsFiled` (`FiledUnderItsInput`). All ask that no
two invocations write to one output file (`OwnOutputs`; otherwise a run can cache,
or delete, another's output), and the first two that the runs count units
(`UnitsCounted`; the paragraph mode counts nothing, section 7). One `IInv` serves
all of them, with `UnitsCounted` as a hypothesis of its parts: a degraded file in
the cache is marked as such; a run's file and count agree from the moment it is
written to the exit; what a run holds is of the input as it is until the run is
overtaken, and then of the version it read; and what each exit means. Any
interleaving of runs, kills, edits and cache clearing is covered. What
`CacheIsFiled` leaves open is exactly the second hash (section 7): only a run
whose input was edited between its reading and that hash files a translation under
another text.

**`XliffDocumentProofs`**: `SecondRoundWaits`, `BetterShips`, `FailuresTold`,
`NothingBlockedShips`. `IInv` says, for each place of a unit, how many answers it
has and which are judged: one at most before the second round, a second only if
the first was judged and low (`UnitOK`); at most `Slots` units hold a slot. From
the assembly on it says of each unit's text and warnings which answers they
come from (`TextOK`). `FailuresAreTold` is not inductive by itself: of the five
stages that rewrite the warnings, two take some away, and that what they take is
never the last one rests on the text and the answers.

**`BatchRunProofs`**: first `MemoryIsSafe`, for `TMService` alone and any
environment that adds, flushes and is killed: its file is never made of two
writers, and an open service with nothing to save holds exactly what it last
read or wrote. The invariant (`TMInv`) is that the lock excludes, and that what a
service writes is all it has, because nothing is added to it while it is
written. Then the batch: every step of it is a step of the memory or leaves the
memory alone, so `BatchNeverMixes` and `BatchCleanIsSaved` follow, and
`SuccessWritten` and `WhatShipsIsRemembered` come from an invariant that ties
each file's place to its result, its text, its output and its entries.

**`McpServerProofs`**: `TasksAreFound`, `CompletedWritten`, `GatesSaw` follow from
what each place of a call says of its request, task and reply (`CallOK`).
`WithinBudget` (`AdmittedWithinBudget`) does not: that no span sees more
admissions than `Burst` and its refill needs the potential of the bucket. With
the calls counted up to each moment, what was admitted since any moment, and the
tokens left, are together at most what the bucket can have held and been given
since (`BucketOK`); admitting moves one from the tokens to the count, a tick
adds a refill to either bound.

**`AnswerProofs`**, on `StructuredAnswer`: `ScoresAreTold` and `OutageIsNotCached`, from the
invariant that every result, a cached one included, was given by the model to
one of the calls: field by field as it stands in an object, or, marked
`regex_recovered`, as the whole points of the first numbers, which is what
`Digits` makes of any number (`DigitsTruncate`). `MajorityIsFollowed`
(`MajorityDecides`) holds for any number of judges and on both sides of the
threshold. The condition that the reported scores are numbers is part of the
property: a NaN has no order, and no median of it means anything. Failed judges'
zeros are reports (section 7). The argument counts: if most votes are on one side, fewer than half are on the other,
and by its rank the median has at least half of the votes at or below it and at
least half at or above (`RankedSide`), so it is itself on that side; the mean of
the two middle ones is, because both are (`MedianSide`). That a vote of each rank
exists rests on the extremes of a finite set of scores (`Extremes`).

**`AnswerProofs`**, on `TextRepair`, for any XLIFF sources, of any length and with
any tags, and any of the answers `Replies` allows: `PlaceholdersNeverShip`
(`NoPlaceholderShips`), `TagsSurvive` (`LostOnlyInShadow`), `FaithfulUnitsShip`
(`FaithfulShips` of a unit) and `EchoedUnitsAreTold` (`EchoIsTold` of a unit).
None is inductive: they speak of what ships, and each stage rewrites the text.
`RepairInv` says what a stage can rely on. A text of a unit consists of words and
of tags the shield knows. From the end of the repair to the write every tag is
present, or seems to be, its key being inside another's. And an answer that has
every tag and nothing that is no part of a translation (`Clear`) is, at each
stage, that answer with its tags in the form of the stage: it is complete after
level 1 and never comes to the aligner or to level 4. What the gates see of the
source of a unit given back is therefore that source itself. The argument rests on what the
functions of the shield and the repair do to any sequence: `RestoredFacts`,
`CleanedFacts`, `ShieldedFacts`, `FallbackFacts`, each from lemmas on
concatenation, flattening, choosing and reversing. The library defines
flattening by recursion on the length; that a flattened sequence holds what its
parts hold (`FlattenFacts`) is proved by the least length at which it would not.

**`AnswerProofs`**, on `TextRepair`, for any Markdown text none of whose elements
has another's text inside it, of any length and with any elements, and any answer
the model may give: `ElementsShipOnce` (`ShieldedOnce`), and with the units above
`FaithfulAnswersShip` (`FaithfulShips`) and `EchoesAreTold` (`EchoIsTold`) for both
channels: a Markdown text that was given back is its source again after the
rebuilding, so the count sees it, and it closes with the notice. The invariant (`MdInv`, `MdInvariance`) is that, as long as the answer
has no damaged reference, the text is at each stage what the rebuilding makes of
the answer (`Rebuilt`), then that without the instruction, then that with the
target's punctuation (`Printed`), so that no later level of the repair is ever
reached; the theorems then speak of two functions, the shield's and the
rebuilding's. These go through the keys one after the other, each step on the
text the last one left, and are recursive in the number of keys dealt with. What
is proved of each is an invariant over that number (`ShieldsAll`, `UnshieldsAll`): the
elements dealt with stand in their new form, each at the place of its old one, or
at its marker, at its key or at the end; the others are as they were. One step
keeps it (`ShieldsOne`, `UnshieldsOne`), because an element that stands at one place
is found there (`FirstForFacts`) and putting another piece there leaves the rest
alone; that an element stands once in a text is carried through concatenation
and flattening (`OnceConcat`, `OnceFlattened`). The library's induction theorems
take a predicate, so the induction is over the set of the numbers at which the
invariant holds (`FromZero`, again by a least number); that the functions exist
and obey their recursive definitions is proved the same way (`ShieldsInTurn`,
`UnshieldsInTurn`). Nested elements and damaged references are outside these
theorems, as they are outside the properties; `EchoIsTold` besides says nothing
of a text with inline code.

At the end of **`ModelPoolProofs`**, about `PoolConfig`, for every configuration
and environment: `FallbacksAreServed`, a fallback names another role that has a
deployment which may be asked, and a translation has none; `OneKeyIsEnough`, an
entry of a built pool has a deployment exactly when all its variables are set,
whatever others lack, and every configured role keeps one; `CeilingIsDeclared`, the
ceiling of an answer is the one the entry or its role declares, though two
functions decide it in two places; `BackoffIsCapped`, no wait after a 429 is
longer than `max_delay_s`. These need no state: they unfold the operators, with
the witness of each set named.

Only model-checked: the liveness properties (`EveryCallReturns`,
`QueuedProceeds`, `EveryUnitEnds`, `CommandEnds`, `EveryCallEnds`, `BatchEnds`),
which are out of the prover's reach.

## 7. Where the code and its documents disagree

Shown by a run:

- **An open breaker never half-opens** (`pool_reset`). `_call_with_breaker`
  raises as soon as the state reads "open" (`ol_pool/router.py:672`) and never
  reaches `breaker.call`, where alone the library half-opens. Only a request that
  was under way can still close it; without one the role is rejected for the rest
  of the process. `docs/ARCHITECTURE.md:242` says "After 60 s, the breaker
  half-opens: one call through".
- **A wait that times out adds a slot** (`limiter_over`).
  `ol_concurrency/scheduler.py:73` releases in `finally` also when nothing was
  acquired; more bodies then run than the limit, against its own docstring.

Read in the code, and contained in the models where they cover it. What the code
does is given, and the document it departs from where there is one.

The pool and its configuration:

- A rate-limited call can be given up with models unasked: 429s of others open
  the breaker while it sleeps, and it wakes to a `CircuitBreakerError` without
  failover (`ol_pool/router.py:1252`, against `docs/ARCHITECTURE.md:234`).
- A quality retry is answered by the prompt cache: it asks with the same prompt
  at temperature 0 and gets the text that scored low (`ol_pool/router.py:1161`,
  against `README.md:275`).
- Failover takes every deployment whose id or bare name is the label of the 429
  for asked (`ol_pool/router.py:1018`). Of one name at two providers only one was;
  with no other model left the original 429 is raised, where the docstring at 1005
  says "If every same-role model is rate limited, the original exception is
  re-raised". `RateLimitMeansExhausted` therefore speaks of names.
- Failover tells deployments apart by `provider/model`; a second deployment of
  one id is skipped (`ol_pool/router.py:1026`), where the docstring at 1005 and
  `tests/test_intra_role_429_failover.py:153` speak of every same-role model.
- A request handed to another role's models has no token ceiling when only its
  own role declares one (`ol_pool/router.py:738`; an ASSUME of `MCModelPool`).
- Literal keys are refused in three roles and accepted in `profiling`
  (`ol_config/loader.py:40`). `get_instance` builds a new pool, with closed
  breakers and an empty cache, when the file's time changes
  (`ol_pool/router.py:655`).
- One `except TimeoutError` covers the wait for a slot and the body, so a timeout
  of the work itself is reported as `QueueTimeoutError`
  (`ol_concurrency/scheduler.py:70`, docstring at 10).

The Markdown command:

- The paragraph mode caches untranslated output. It returns a plain string, so
  nothing is counted (`cli/translate_md.py:1384`, against
  `docs/ARCHITECTURE.md:339` and `docs/API.md:75`).
- A cache file cut short is served. It is written in place and a hit is decided
  by its existence (`cli/cache.py:199`, against `docs/ARCHITECTURE.md:333`).
- `_write_cache` hashes the input a second time after the translation
  (`cli/cache.py:181`): if it was edited since the run read it, the translation of
  the old text is filed under the new one. `cli/cache.py:1` calls the cache
  content-addressed, and `docs/ARCHITECTURE.md:335` makes the input's bytes part of
  the key. The model has the edit and marks the file as late, which
  `FiledUnderItsInput` excepts, and nothing else.
- The text of a source-copy retry is never judged (`cli/translate_md.py:477`),
  where `README.md:275` speaks of every translation. A unit whose first request
  failed and whose source-copy retry succeeded keeps the status
  `transport_error` (`cli/translate_md.py:387`, against the docstring at 335).
- `--chunk-by-paragraph` is not part of the cache key (`cli/cache.py:79`), though
  the docstring at 55 says that flags affecting the output are. A glossary or
  style guide is in the key by its path (`cli/cache.py:85`).
- `--fail-on-untranslated` is on by default (`cli/translate_md.py:1216`);
  `docs/API.md:61` and `:86` say it is off. The model takes both values.
- A hit found degraded stays in the output directory when the pipeline then
  raises (`cli/translate_md.py:1333`). Two invocations that write to one output
  directory cache, and delete, each other's file (`cli/translate_md.py:816`).
- A transport error of a later attempt returns the source and drops an earlier
  attempt that had a score (`ol_retry/retry.py:55`).
- The polished document is handed out to the units by blank lines: a unit with a
  blank line in it shifts all that follow (`cli/translate_md.py:918`).

The XLIFF command:

- A unit with a low score whose retry failed ships its first text without a
  warning (`cli/translate_xliff.py:284`). Warnings of the repair replace
  `Low_Score` and `LQA_SKIPPED` (`:422`; the comment there calls it a contract).
- The output is cached and the exit is a success whatever units failed; only the
  blocking gate stops it. The gates run before polish, which may bring in what
  they look for.
- A blank answer of a unit with tags ships as its tags alone. Polish sends the
  first 200 characters of a text (`ol_xliff/polish.py:116`) and replaces the
  whole text by what comes back.
- A key counts as present if its name is anywhere in the text
  (`ol_xliff/pipeline.py:44`): `x_1` is seen in `bx_1` and `x_10`, and the
  cascade of "L4: Safe fallback (always completes)" (`:16`) stops without it.
- `write_target_back` makes tags of placeholders and escapes `ph`, `g` and `mrk`;
  escaped tags that end an answer are taken away, the author's own too.

Texts in Markdown:

- The punctuation pass keeps fenced code only; links, images and inline code get
  full-width characters (`ol_post/punctuation.py:18`).
- Inline code is shielded without its backticks (`ol_md/shield.py:78`) and comes
  back without them. An element inside a shielded one is not shielded, and its
  surroundings are restored with what stood there.
- Gate 5 compares a written Markdown document with its source. A document that is
  its source has the notice of untranslated units at its end by then
  (`cli/translate_md.py:809`), so the gate is silent and the notice alone tells
  it, which is what `docs/API.md:76` promises.
- A mangled image reference beside a restored marker ships twice.
- `PLACEHOLDER_PATTERN` (`ol_md/shield.py:25`) does not match the marker of inline
  code, `CODE_i`; level 3 has no caller that turns it on.

Batches and the memory:

- A flush writes what its process read and added: entries that another saved
  meanwhile are lost (`ol_tm/service.py:188`; the lock covers the write, not the
  read). A kill in the write loses the file, which is emptied first.
- All entries of a file come back under the pair of its first one, where
  `search` filters by pair (`ol_tm/service.py:204`). `weakref.finalize` is given
  the object itself, which it keeps alive, so a save on collection comes at the
  end of the process only.
- The memory's entry of a file is made before the output is written and stays
  when the write fails (`ol_batch/processor.py:294`). The entry pairs the
  shielded source with the unshielded target.
- A failed LQA re-translation makes the source a successful translation. Two
  files of one name from two directories write one output.
- The glossary reaches the prompt only if the memory has a match
  (`ol_batch/processor.py:191`, against `README.md:332`), and
  `ol translate-batch` passes no memory.
- After Ctrl+C new files still start (`cli/_shared.py:30` says "no new starts").
- `-j 0` is not refused (`cli/batch.py:74`): a semaphore of no slots, at which every
  file waits for ever. The model has a slot at least.

The MCP server:

- A task that was accepted counts as a translation (`ol_mcp/metrics.py:139`;
  its docstring says "success-only").
- `translate_file` never removes its temporary directory
  (`ol_mcp/translate_file.py:278`, against its description at 88), and its
  subprocesses hold the event loop: no poll is answered meanwhile. With the
  source's own format and no output directory it writes over the source.
- `translate_file` reports success when its last subprocess exits with 0 and does
  not look for the file (`ol_mcp/translate_file.py:246`). `CompletedIsWritten` rests
  on that exit code; it asks for a file at the path, which another call to the same
  path may have written earlier.
- Without `output_path` the XLIFF tool writes `<stem>_translated.xlf`;
  `ol_mcp/tools.py:266` says it overwrites the source.
- The gates of an XLIFF file run before polish and read the file anew; an answer
  that says `"quality_gates": "ran"` may ship text they did not see.
- Finished tasks are never evicted, and all are lost at a restart. The bucket is
  made without a lock (`ol_mcp/rate_limiter.py:69`), which is harmless on one
  event loop.

Answers of the judge:

- "NaN" in quotes is a valid score (`ol_pool/json_tolerance.py:259`). The mean
  it makes is neither below nor above the threshold, and among the votes of an
  ensemble it leaves `sorted` without an order, so that a majority can lose;
  `MajorityDecides` speaks of criteria without one. A criterion that is not
  checked and is no number raises a `TypeError` in `judge` (`ol_lqa/judge.py:133`).
- A bracket or an apostrophe before the object spoils it
  (`ol_pool/json_tolerance.py:234`). An answer that is no object is searched for
  the first digits behind each field's name (`ol_pool/router.py:1402`): -5 becomes
  5, 87.5 becomes 87, and "as per rule 3: 100" becomes 3, where the comment at 1467
  says "bad values are never treated as valid scores". The result is marked
  `regex_recovered`, and no caller asks.
- A failed judge votes: its zeros count as reports of all four criteria
  (`ol_lqa/judge.py:116`, `:361`) and can outvote a judge that answered, where the
  comment at 359 admits only those that did report the criterion.
- An outage is a score of 0 and asks for a good translation again
  (`ol_lqa/judge.py:116`). The `judge_text` tool reports 50 for a field that is
  missing.
- A failed profile is a style guide with nothing in it, which the directory keeps
  like any other (`ol_pool/router.py:1509` leaves it to the caller). `profile_doc`
  makes a new `ProfileCache` per call (`ol_mcp/profile_doc.py:65`), which can have
  no hit.

## 8. What is not modelled, and why

- Of the pool: its reload when the configuration file changes; the cancellation
  of a call under way; hit counters. Of the Router, a library, only what it
  returns and raises.
- Of the units: tag restoration and repair, which change a text without changing
  which kind of text it is for these properties (they are the subject of
  `TextRepair`); units whose prompts are equal and share a cache entry, where
  one's answer serves the other.
- Of the Markdown command: restoration, polish and the gates, which are inside
  the one step of the pipeline; how a polished document is handed out to its
  units (section 7); files without frontmatter left by versions before the cache
  rules, which record nothing and which no check can tell from good ones; two
  runs writing one output file (in the theorems and runs, excluded by `OutputOf`).
- Of the XLIFF command: the path without LQA, which is one request per unit and
  the same from the assembly on.
- Of the server: schemas, path checks and error texts, which are one outcome; the
  cancellation of a background task, for which the server has no operation. The
  handle of a background task is not kept (`ol_mcp/translate_md.py:257`), and a
  loop may collect a task nobody holds; the model's tasks run to their end.
- Of the quality gates and the judge: `qa_rules.py`, the optional scorer models
  and the stability report, which read scores and decide nothing.
- `ol_checkpoint`: no code outside its tests calls it, so there are no steps of a
  caller to interleave. (Read: `gc` removes by a pattern that other documents'
  files may match, `ol_checkpoint/checkpoint.py:145`.)
- `ol_restoration`: it looks for placeholders that the input file spells out; an
  ordinary document has none, and the text comes back as it is.
- `auto_gen.py`, the loading and coverage reports of the glossary, XML, YAML and
  Markdown parsing, prompt texts, logging, reports and the other commands:
  formatting and input/output without state that outlives a call.
