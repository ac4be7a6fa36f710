------------------------------ MODULE MdCommand ------------------------------
(***************************************************************************)
(* Invocations of "ol translate-md" (cli/translate_md.py, translate_md) on *)
(* one input file, and the output cache they share (cli/cache.py).         *)
(*                                                                         *)
(* An invocation looks in the cache, and on a miss reads the input,        *)
(* translates it, writes the output file, copies that into the cache and   *)
(* exits.  Invocations are processes: they interleave, can be killed at    *)
(* any point, and the input can be edited while they run.  A copy of a     *)
(* file is not atomic: it is there, cut short, before it is whole.         *)
(***************************************************************************)
EXTENDS Naturals

CONSTANTS
  Runs,
  Files, OutputOf,  \* output files, and the one each run writes
  Versions,         \* contents the input file can have
  Modes,            \* "units", and "paragraphs" for --chunk-by-paragraph
  Headers,          \* values of --frontmatter/--no-frontmatter
  Kills,            \* runs can be killed
  None

(* What a translated file is, as far as anyone relies on it: of which      *)
(* input it is, whether units of it carry their source, whether its        *)
(* frontmatter says so, and whether it is there to its end.  History: late *)
(* is a cached file whose run was overtaken by an edit of the input.       *)
Contents == [of : Versions, degraded : BOOLEAN, recorded : BOOLEAN, whole : BOOLEAN,
             late : BOOLEAN]

ASSUME CommandAssumption ==
  /\ OutputOf \in [Runs -> Files]
  /\ Modes \subseteq {"units", "paragraphs"}
  /\ Headers \subseteq BOOLEAN
  /\ Kills \in BOOLEAN
  /\ None \notin Versions \cup Contents

VARIABLES
  input,   \* the input file
  output,  \* the output files
  cache,   \* the files of _cache_root(), by key
  run      \* what each invocation holds

vars == <<input, output, cache, run>>

(* The flags of an invocation that the model tells apart.                  *)
Flags == [mode : Modes, frontmatter : Headers, no_cache : BOOLEAN,
          fail_on_untranslated : BOOLEAN]

(* Mutation of KeyOf: the input's bytes are left out of the digest. *)
KeyOf_NoInput(version, flags) == <<CHOOSE v \in Versions : TRUE, flags.frontmatter>>

(* _cache_key: the input's bytes and the flags; --chunk-by-paragraph is    *)
(* not among them.                                                         *)
KeyOf(version, flags) == <<version, flags.frontmatter>>

Keys == Versions \X Headers

Untranslated == {"none", "some", "all"}
Places == {"idle", "copying", "reading", "translating", "caching", "filling",
           "ending", "exited"}
Exits == {"success", "untranslated", "failed"}

(* History: overtaken is a run that has read the input, and the input was  *)
(* edited before the run hashed it for the second time.                    *)
RunStates == [
  pc : Places, flags : Flags \cup {None}, held : Contents \cup {None}, took : Versions \cup {None},
  overtaken : BOOLEAN, count : Untranslated, key : Keys \cup {None}, exit : Exits \cup {None}]

TypeOK ==
  /\ input \in Versions
  /\ output \in [Files -> Contents \cup {None}]
  /\ cache \in [Keys -> Contents \cup {None}]
  /\ run \in [Runs -> RunStates]

(* What a version from before the cache rules of issue #132 may have left  *)
(* under a key: a degraded file whose frontmatter records it.  (A file     *)
(* without frontmatter records nothing: nobody can tell it from a good one *)
(* and the model starts without such files.)                               *)
Legacy(key) ==
  {[of |-> key[1], degraded |-> TRUE, recorded |-> TRUE, whole |-> TRUE, late |-> FALSE] :
     header \in {key[2]} \cap {TRUE}}

Idle == [pc |-> "idle", flags |-> None, held |-> None, took |-> None, overtaken |-> FALSE,
         count |-> "none", key |-> None, exit |-> None]

Init ==
  /\ input \in Versions
  /\ output = [f \in Files |-> None]
  /\ cache \in {c \in [Keys -> {None} \cup UNION {Legacy(key) : key \in Keys}] :
                  \A key \in Keys : c[key] \in {None} \cup Legacy(key)}
  /\ run = [r \in Runs |-> Idle]

Becomes(r, s) == run' = [run EXCEPT ![r] = s]

(* A run that is over, and what is asked of it afterwards.                 *)
Exited(s, exit) ==
  [s EXCEPT !.pc = "exited", !.exit = exit, !.held = None, !.took = None,
            !.overtaken = FALSE, !.key = None]

Torn(content) == [content EXCEPT !.whole = FALSE]

InProgress == {r \in Runs : run[r].pc \notin {"idle", "exited"}}

-----------------------------------------------------------------------------
(* An invocation starts: _check_cache looks for a file under the key of    *)
(* the input as it is now, and begins to copy the one it finds.            *)
Begin(r, flags) ==
  /\ run[r].pc \in {"idle", "exited"}
  /\ LET key == KeyOf(input, flags)
         hit == ~flags.no_cache /\ cache[key] # None
         s   == [pc |-> IF hit THEN "copying" ELSE "reading", flags |-> flags,
                 held |-> IF hit THEN cache[key] ELSE None, took |-> None, overtaken |-> FALSE,
                 count |-> "none", key |-> IF hit THEN key ELSE None, exit |-> None]
     IN /\ Becomes(r, s)
        /\ output' = IF hit THEN [output EXCEPT ![OutputOf[r]] = Torn(cache[key])] ELSE output
  /\ UNCHANGED <<input, cache>>

(* Mutation of Served: a hit is served whatever its frontmatter says. *)
Served_Poisoned(s, file) == Exited(s, "success")

(* A hit whose frontmatter records untranslated units is a miss, any other *)
(* is a success.                                                           *)
Served(s, file) ==
  IF file.recorded THEN [s EXCEPT !.pc = "reading"] ELSE Exited(s, "success")

(* The copy ends.  What was copied is the file as it was opened, or as a   *)
(* writer has left it meanwhile.                                           *)
Copied(r) ==
  /\ run[r].pc = "copying"
  /\ \E file \in {run[r].held, cache[run[r].key]} \ {None} :
       /\ output' = [output EXCEPT ![OutputOf[r]] = file]
       /\ Becomes(r, Served(run[r], file))
  /\ UNCHANGED <<input, cache>>

(* The pipeline reads the input, once more.                                *)
Read(r) ==
  /\ run[r].pc = "reading"
  /\ Becomes(r, [run[r] EXCEPT !.pc = "translating", !.took = input, !.held = None, !.key = None])
  /\ UNCHANGED <<input, output, cache>>

(* untranslated_units of the result: the paragraph mode has none to tell.  *)
Counted(mode, left) == IF mode = "units" THEN left ELSE "none"

(* The translation ends with some units left in their source, and the      *)
(* output is written.                                                      *)
Translated(r, left) ==
  /\ run[r].pc = "translating"
  /\ LET s == run[r]
         count == Counted(s.flags.mode, left)
     IN /\ output' = [output EXCEPT ![OutputOf[r]] =
             [of |-> s.took, degraded |-> left # "none",
              recorded |-> count # "none" /\ s.flags.frontmatter, whole |-> TRUE, late |-> FALSE]]
        /\ Becomes(r, [s EXCEPT !.pc = "caching", !.count = count])
  /\ UNCHANGED <<input, cache>>

(* The pipeline raises, before it has written.                             *)
PipelineFails(r) ==
  /\ run[r].pc = "translating"
  /\ Becomes(r, Exited(run[r], "failed"))
  /\ UNCHANGED <<input, output, cache>>

(* Mutation of Cacheable: an untranslated run is cached like any other. *)
Cacheable_Any(s) == ~s.flags.no_cache

Cacheable(s) == s.count = "none" /\ ~s.flags.no_cache

(* The output file of run r, as the cache gets it.                         *)
Filed(r) == [output[OutputOf[r]] EXCEPT !.late = run[r].overtaken]

(* _write_cache: the key is computed again, of the input as it is now, and *)
(* the output file begins to be copied under it.                           *)
WriteCache(r) ==
  /\ run[r].pc = "caching"
  /\ LET s == run[r]
         file == output[OutputOf[r]]
         key == KeyOf(input, s.flags)
     IN \/ /\ Cacheable(s) /\ file # None
           /\ cache' = [cache EXCEPT ![key] = Torn(Filed(r))]
           /\ Becomes(r, [s EXCEPT !.pc = "filling", !.key = key])
        \/ /\ ~(Cacheable(s) /\ file # None)
           /\ Becomes(r, [s EXCEPT !.pc = "ending"])
           /\ UNCHANGED cache
  /\ UNCHANGED <<input, output>>

(* The copy under the key is whole.  A file removed meanwhile stays        *)
(* removed.                                                                *)
Filled(r) ==
  /\ run[r].pc = "filling"
  /\ output[OutputOf[r]] # None
  /\ cache' = [cache EXCEPT ![run[r].key] = IF @ = None THEN None ELSE Filed(r)]
  /\ Becomes(r, [run[r] EXCEPT !.pc = "ending"])
  /\ UNCHANGED <<input, output>>

(* The exit: fail-closed, the output of a run with untranslated units is   *)
(* removed; otherwise only a run that translated nothing fails.            *)
End(r) ==
  /\ run[r].pc = "ending"
  /\ LET s == run[r] IN
     \/ /\ s.flags.fail_on_untranslated /\ s.count # "none"
        /\ output' = [output EXCEPT ![OutputOf[r]] = None]
        /\ Becomes(r, Exited(s, "untranslated"))
     \/ /\ ~(s.flags.fail_on_untranslated /\ s.count # "none")
        /\ Becomes(r, Exited(s, IF s.count = "all" THEN "untranslated" ELSE "success"))
        /\ UNCHANGED output
  /\ UNCHANGED <<input, cache>>

(* SIGKILL, a crash, the machine going down.                               *)
Kill(r) ==
  /\ Kills
  /\ r \in InProgress
  /\ Becomes(r, Idle)
  /\ UNCHANGED <<input, output, cache>>

(* Somebody edits the input.                                               *)
Edit ==
  /\ input' \in Versions \ {input}
  /\ run' = [r \in Runs |->
               [run[r] EXCEPT !.overtaken = @ \/ run[r].pc \in {"translating", "caching"}]]
  /\ UNCHANGED <<output, cache>>

(* --clear-cache, from an invocation that does nothing else.               *)
ClearCache ==
  /\ cache' = [key \in Keys |-> None]
  /\ UNCHANGED <<input, output, run>>

Next ==
  \/ \E r \in Runs :
       \/ \E flags \in Flags : Begin(r, flags)
       \/ \E left \in Untranslated : Translated(r, left)
       \/ Copied(r) \/ Read(r) \/ PipelineFails(r) \/ WriteCache(r) \/ Filled(r)
       \/ End(r) \/ Kill(r)
  \/ Edit
  \/ ClearCache

Spec == Init /\ [][Next]_vars

-----------------------------------------------------------------------------
Succeeded(r) == run[r].pc = "exited" /\ run[r].exit = "success"
Result(r) == output[OutputOf[r]]

(* "an untranslated run never writes to the cache": whatever is new in the *)
(* cache has all its units translated.                                     *)
UntranslatedNeverCached ==
  [][\A key \in Keys :
       cache'[key] # cache[key] /\ cache'[key] # None => ~cache'[key].degraded]_vars

(* An invocation that exits 0 has its output, and its output carries       *)
(* source text only if the caller allowed that and is told so; one that    *)
(* fails for untranslated units leaves no output, unless it was allowed.   *)
ExitIsHonest ==
  \A r \in Runs :
    /\ Succeeded(r) =>
         /\ Result(r) # None
         /\ Result(r).degraded =>
              ~run[r].flags.fail_on_untranslated /\ run[r].count # "none"
    /\ /\ run[r].pc = "exited" /\ run[r].exit = "untranslated"
       /\ run[r].flags.fail_on_untranslated
       => Result(r) = None

(* "Content-addressed cache" (cli/cache.py): a file, torn or whole, is     *)
(* filed under the input it translates.  _write_cache hashes the input a   *)
(* second time, and files what a run translated under another input when   *)
(* somebody edited it after that run had read it and before that hash:     *)
(* such a file is late.  No other edit misfiles one: neither between the   *)
(* first hash and the reading, nor while the file is copied, nor on behalf *)
(* of another run that is killed or still busy.                            *)
FiledUnderItsInput ==
  \A key \in Keys : cache[key] # None /\ ~cache[key].late => cache[key].of = key[1]

-----------------------------------------------------------------------------
(* The inductive invariant of the proofs.  It needs that no two runs write *)
(* to one output file; what it says of untranslated units needs also that  *)
(* every unit is looked at.                                                *)
OwnOutputs == \A r, q \in Runs : OutputOf[r] = OutputOf[q] => r = q
UnitsCounted == Modes = {"units"}

(* A degraded file in the cache says so. *)
Marked(content) == UnitsCounted /\ content # None /\ content.degraded => content.recorded

CacheOK == \A key \in Keys : Marked(cache[key])

(* The output of a run agrees with its count.                              *)
Agree(s, file) ==
  /\ file # None
  /\ UnitsCounted => (file.degraded <=> s.count # "none")

RunOK(s, file) ==
  /\ s.pc # "idle" => s.flags \in Flags
  /\ s.pc = "copying" => s.held # None /\ Marked(s.held) /\ s.key \in Keys
  /\ s.pc = "translating" => s.took # None /\ (~s.overtaken => s.took = input)
  /\ s.pc \in {"caching", "filling", "ending"} => Agree(s, file)
  /\ s.pc = "caching" => (~s.overtaken => file.of = input)
  /\ s.pc = "filling" => s.count = "none" /\ s.key \in Keys /\ (~s.overtaken => file.of = s.key[1])
  /\ s.pc = "exited" =>
       /\ s.exit = "success" =>
            /\ file # None
            /\ UnitsCounted /\ file.degraded => ~s.flags.fail_on_untranslated /\ s.count # "none"
       /\ s.exit = "untranslated" /\ s.flags.fail_on_untranslated => file = None

IInv ==
  /\ TypeOK
  /\ CacheOK
  /\ \A r \in Runs : RunOK(run[r], Result(r))
  /\ FiledUnderItsInput
=============================================================================
