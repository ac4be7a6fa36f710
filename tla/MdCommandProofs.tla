-------------------------- MODULE MdCommandProofs --------------------------
(***************************************************************************)
(* Proofs about MdCommand for any number of runs and versions of the       *)
(* input, with kills, torn copies and edits at any moment, when each run   *)
(* has an output file of its own (OwnOutputs).  What is said of            *)
(* untranslated units is said without the paragraph mode (UnitsCounted).   *)
(***************************************************************************)
EXTENDS MdCommand, TLAPS

(* The two ways a run's step leaves the output files: its own is f, or     *)
(* they are untouched.                                                     *)
Writes(r, file) == output' = [output EXCEPT ![OutputOf[r]] = file]

(* A step of run r leaves the other runs, and their outputs, as they were. *)
LEMMA Frame ==
  ASSUME OwnOutputs, IInv, NEW r \in Runs, NEW s \in RunStates, NEW file \in Contents \cup {None},
         Becomes(r, s), UNCHANGED input,
         Writes(r, file) \/ (UNCHANGED output /\ file = Result(r)),
         RunOK(s, file)
  PROVE  /\ output' \in [Files -> Contents \cup {None}]
         /\ run' \in [Runs -> RunStates]
         /\ \A q \in Runs : RunOK(run[q], Result(q))'
<1>1. OutputOf \in [Runs -> Files]
  BY CommandAssumption
<1>2. output \in [Files -> Contents \cup {None}] /\ run \in [Runs -> RunStates]
  BY DEF IInv, TypeOK
<1>3. output' \in [Files -> Contents \cup {None}] /\ run' \in [Runs -> RunStates]
  BY <1>1, <1>2 DEF Becomes, Writes
<1>4. run'[r] = s /\ output'[OutputOf[r]] = file
  BY <1>1, <1>2 DEF Becomes, Writes, Result
<1>5. ASSUME NEW q \in Runs, q # r
      PROVE  run'[q] = run[q] /\ output'[OutputOf[q]] = output[OutputOf[q]]
  BY <1>1, <1>2, <1>5 DEF Becomes, Writes, OwnOutputs
<1>6. ASSUME NEW q \in Runs
      PROVE  RunOK(run'[q], output'[OutputOf[q]])
  <2>1. CASE q = r
    BY <1>4, <2>1
  <2>2. CASE q # r
    BY <1>5, <2>2 DEF IInv, Result
  <2>. QED  BY <2>1, <2>2
<1>7. \A q \in Runs : RunOK(run[q], Result(q))'
  BY <1>6 DEF RunOK, Agree, Result
<1>. QED  BY <1>3, <1>7

(* Types of what an action looks at. *)
LEMMA Types ==
  ASSUME IInv, NEW r \in Runs
  PROVE  /\ run[r] \in RunStates
         /\ RunOK(run[r], Result(r))
         /\ Result(r) \in Contents \cup {None}
         /\ input \in Versions
         /\ cache \in [Keys -> Contents \cup {None}]
         /\ \A key \in Keys : Marked(cache[key])
BY CommandAssumption DEF IInv, TypeOK, Result, CacheOK

LEMMA TornType ==
  ASSUME NEW content \in Contents
  PROVE  /\ Torn(content) \in Contents
         /\ Torn(content).degraded = content.degraded
         /\ Torn(content).recorded = content.recorded
         /\ Torn(content).of = content.of
         /\ Torn(content).late = content.late
BY DEF Torn, Contents

(* What the cache gets of an output file is the file, marked as late if    *)
(* its run was overtaken.                                                  *)
LEMMA FiledType ==
  ASSUME IInv, NEW r \in Runs, Result(r) # None
  PROVE  /\ Filed(r) \in Contents
         /\ Filed(r).degraded = Result(r).degraded
         /\ Filed(r).recorded = Result(r).recorded
         /\ Filed(r).of = Result(r).of
         /\ Filed(r).late = run[r].overtaken
<1>1. Result(r) \in Contents /\ run[r].overtaken \in BOOLEAN
  BY Types DEF RunStates
<1>. QED  BY <1>1 DEF Filed, Contents, Result

LEMMA KeyType ==
  ASSUME NEW version \in Versions, NEW flags \in Flags
  PROVE  KeyOf(version, flags) \in Keys
BY DEF KeyOf, Keys, Flags

LEMMA InitIInv == Init => IInv
<1>. SUFFICES ASSUME Init PROVE IInv
  OBVIOUS
<1>1. \A key \in Keys : \A file \in Legacy(key) : file \in Contents /\ file.recorded
  BY DEF Keys, Legacy, Contents
<1>2. cache \in [Keys -> Contents \cup {None}] /\ CacheOK
  BY <1>1 DEF Init, CacheOK, Marked
<1>3. \A r \in Runs : run[r] \in RunStates /\ run[r].pc = "idle"
  BY DEF Init, Idle, RunStates, Places, Untranslated
<1>4. \A r \in Runs : RunOK(run[r], Result(r))
  BY <1>3 DEF RunOK
<1>5. TypeOK
  BY <1>2, <1>3 DEF Init, TypeOK
<1>6. FiledUnderItsInput
  BY DEF Init, Legacy, Keys, FiledUnderItsInput
<1>. QED  BY <1>2, <1>4, <1>5, <1>6 DEF IInv

-----------------------------------------------------------------------------
(* One lemma for each action of a run. *)
LEMMA BeginStep ==
  ASSUME OwnOutputs, IInv, NEW r \in Runs, NEW flags \in Flags, Begin(r, flags)
  PROVE  IInv'
<1>. DEFINE key == KeyOf(input, flags)
            hit == ~flags.no_cache /\ cache[key] # None
            s == [pc |-> IF hit THEN "copying" ELSE "reading", flags |-> flags,
                  held |-> IF hit THEN cache[key] ELSE None, took |-> None, overtaken |-> FALSE,
                  count |-> "none", key |-> IF hit THEN key ELSE None, exit |-> None]
            file == IF hit THEN Torn(cache[key]) ELSE Result(r)
<1>1. key \in Keys
  BY Types, KeyType
<1>2. cache[key] \in Contents \cup {None} /\ Marked(cache[key])
  BY <1>1, Types
<1>. HIDE DEF key
<1>3. file \in Contents \cup {None}
  BY <1>2, Types, TornType
<1>4. s \in RunStates
  BY <1>1, <1>2 DEF RunStates, Places, Untranslated
<1>5. RunOK(s, file)
  BY <1>1, <1>2 DEF RunOK
<1>6. Becomes(r, s) /\ (Writes(r, file) \/ (UNCHANGED output /\ file = Result(r)))
      /\ UNCHANGED <<input, cache>>
  BY DEF Begin, Writes, key
<1>. HIDE DEF s, file
<1>7. /\ output' \in [Files -> Contents \cup {None}]
      /\ run' \in [Runs -> RunStates]
      /\ \A q \in Runs : RunOK(run[q], Result(q))'
  BY <1>3, <1>4, <1>5, <1>6, Frame
<1>. QED  BY <1>6, <1>7 DEF IInv, TypeOK, CacheOK, FiledUnderItsInput

LEMMA CopiedStep ==
  ASSUME OwnOutputs, IInv, NEW r \in Runs, Copied(r)
  PROVE  IInv'
<1>1. PICK file \in {run[r].held, cache[run[r].key]} \ {None} :
        Writes(r, file) /\ Becomes(r, Served(run[r], file))
  BY DEF Copied, Writes
<1>. DEFINE s == Served(run[r], file)
<1>2. run[r] \in RunStates /\ run[r].pc = "copying" /\ Marked(run[r].held)
      /\ run[r].key \in Keys /\ run[r].flags \in Flags
  BY Types DEF Copied, RunOK
<1>3. file \in Contents /\ Marked(file) /\ file # None
  BY <1>2, Types DEF RunStates
<1>4. s \in RunStates
  BY <1>2 DEF Served, Exited, RunStates, Places, Exits
<1>5. RunOK(s, file)
  BY <1>2, <1>3 DEF RunOK, Served, Exited, RunStates, Marked
<1>. HIDE DEF s
<1>6. UNCHANGED <<input, cache>>
  BY DEF Copied
<1>7. /\ output' \in [Files -> Contents \cup {None}]
      /\ run' \in [Runs -> RunStates]
      /\ \A q \in Runs : RunOK(run[q], Result(q))'
  BY <1>1, <1>3, <1>4, <1>5, <1>6, Frame DEF s
<1>. QED  BY <1>6, <1>7 DEF IInv, TypeOK, CacheOK, FiledUnderItsInput

(* A step that only changes what the run holds. *)
LEMMA LocalStep ==
  ASSUME OwnOutputs, IInv, NEW r \in Runs, NEW s \in RunStates,
         RunOK(s, Result(r)), Becomes(r, s), UNCHANGED <<input, output, cache>>
  PROVE  IInv'
<1>1. Result(r) \in Contents \cup {None}
  BY Types
<1>2. /\ output' \in [Files -> Contents \cup {None}]
      /\ run' \in [Runs -> RunStates]
      /\ \A q \in Runs : RunOK(run[q], Result(q))'
  BY <1>1, Frame
<1>. QED  BY <1>2 DEF IInv, TypeOK, CacheOK, FiledUnderItsInput

LEMMA ReadStep ==
  ASSUME OwnOutputs, IInv, NEW r \in Runs, Read(r)
  PROVE  IInv'
<1>. DEFINE s == [run[r] EXCEPT !.pc = "translating", !.took = input, !.held = None, !.key = None]
<1>1. run[r] \in RunStates /\ run[r].pc = "reading" /\ input # None
      /\ run[r].flags \in Flags /\ input \in Versions
  BY Types, CommandAssumption DEF Read, RunOK
<1>2. s \in RunStates
  BY <1>1 DEF RunStates, Places
<1>3. RunOK(s, Result(r))
  BY <1>1 DEF RunOK, RunStates
<1>. HIDE DEF s
<1>. QED  BY <1>2, <1>3, LocalStep DEF Read, s

LEMMA PipelineFailsStep ==
  ASSUME OwnOutputs, IInv, NEW r \in Runs, PipelineFails(r)
  PROVE  IInv'
<1>. DEFINE s == Exited(run[r], "failed")
<1>1. run[r] \in RunStates /\ run[r].pc = "translating" /\ run[r].flags \in Flags
  BY Types DEF PipelineFails, RunOK
<1>2. s \in RunStates
  BY <1>1 DEF Exited, RunStates, Places, Exits
<1>3. RunOK(s, Result(r))
  BY <1>1 DEF RunOK, RunStates, Exited
<1>. HIDE DEF s
<1>. QED  BY <1>2, <1>3, LocalStep DEF PipelineFails, s

LEMMA KillStep ==
  ASSUME OwnOutputs, IInv, NEW r \in Runs, Kill(r)
  PROVE  IInv'
<1>1. Idle \in RunStates
  BY DEF Idle, RunStates, Places, Untranslated
<1>2. RunOK(Idle, Result(r))
  BY DEF Idle, RunOK
<1>. QED  BY <1>1, <1>2, LocalStep DEF Kill

LEMMA TranslatedStep ==
  ASSUME OwnOutputs, IInv, NEW r \in Runs, NEW left \in Untranslated, Translated(r, left)
  PROVE  IInv'
<1>. DEFINE p == run[r]
            count == Counted(p.flags.mode, left)
            s == [p EXCEPT !.pc = "caching", !.count = count]
            file == [of |-> p.took, degraded |-> left # "none",
                     recorded |-> count # "none" /\ p.flags.frontmatter, whole |-> TRUE,
                     late |-> FALSE]
<1>1. p \in RunStates /\ p.pc = "translating" /\ p.flags \in Flags
      /\ p.took # None /\ (~p.overtaken => p.took = input)
  BY Types DEF Translated, RunOK
<1>2. p.flags.frontmatter \in BOOLEAN /\ count \in Untranslated
  BY <1>1, CommandAssumption DEF Flags, Counted, Untranslated
<1>3. UnitsCounted => count = left
  BY <1>1 DEF Counted, UnitsCounted, Flags
<1>4. p.took \in Versions
  BY <1>1 DEF RunStates
<1>5. file \in Contents /\ file # None
  <2>1. file \in Contents
    BY <1>2, <1>4 DEF Contents
  <2>2. None \notin Contents
    BY CommandAssumption
  <2>. QED  BY <2>1, <2>2
<1>6. s \in RunStates
  BY <1>1, <1>2 DEF RunStates, Places
<1>7. RunOK(s, file)
  BY <1>1, <1>3, <1>5 DEF RunOK, RunStates, Agree
<1>8. Becomes(r, s) /\ Writes(r, file) /\ UNCHANGED <<input, cache>>
  BY DEF Translated, Writes
<1>. HIDE DEF s, file
<1>9. /\ output' \in [Files -> Contents \cup {None}]
      /\ run' \in [Runs -> RunStates]
      /\ \A q \in Runs : RunOK(run[q], Result(q))'
  BY <1>5, <1>6, <1>7, <1>8, Frame
<1>. QED  BY <1>8, <1>9 DEF IInv, TypeOK, CacheOK, FiledUnderItsInput

LEMMA WriteCacheStep ==
  ASSUME OwnOutputs, IInv, NEW r \in Runs, WriteCache(r)
  PROVE  IInv' /\ \A key \in Keys :
                    cache'[key] # cache[key] /\ cache'[key] # None /\ UnitsCounted
                      => ~cache'[key].degraded
<1>. DEFINE p == run[r]
            file == Result(r)
            key == KeyOf(input, p.flags)
<1>1. /\ p \in RunStates /\ p.pc = "caching" /\ p.flags \in Flags /\ Agree(p, file)
      /\ ~p.overtaken => file.of = input
  BY Types DEF WriteCache, RunOK
<1>2. file \in Contents /\ file # None
  BY <1>1, Types DEF Agree
<1>3. key \in Keys
  BY <1>1, Types, KeyType
<1>4. cache \in [Keys -> Contents \cup {None}]
  BY Types
<1>7. key[1] = input
  BY DEF KeyOf
<1>. HIDE DEF file, key
<1>5. CASE /\ Cacheable(p) /\ file # None
           /\ cache' = [cache EXCEPT ![key] = Torn(Filed(r))]
           /\ Becomes(r, [p EXCEPT !.pc = "filling", !.key = key])
  <2>. DEFINE s == [p EXCEPT !.pc = "filling", !.key = key]
  <2>1. p.count = "none" /\ (UnitsCounted => ~file.degraded)
    BY <1>1, <1>5 DEF Cacheable, Agree
  <2>2. s \in RunStates
    BY <1>1, <1>3 DEF RunStates, Places
  <2>3. RunOK(s, file)
    BY <1>1, <1>3, <1>7, <2>1 DEF RunOK, RunStates, Agree
  <2>. DEFINE filed == Torn(Filed(r))
  <2>4. /\ filed \in Contents
        /\ UnitsCounted => ~filed.degraded
        /\ ~filed.late => filed.of = key[1]
    <3>1. /\ Filed(r) \in Contents /\ Filed(r).late = p.overtaken
          /\ Filed(r).degraded = file.degraded /\ Filed(r).of = file.of
      BY <1>2, FiledType DEF file
    <3>. QED  BY <1>1, <1>7, <2>1, <3>1, TornType
  <2>. HIDE DEF filed
  <2>. HIDE DEF s
  <2>5. /\ output' \in [Files -> Contents \cup {None}]
        /\ run' \in [Runs -> RunStates]
        /\ \A q \in Runs : RunOK(run[q], Result(q))'
    BY <1>2, <1>5, <2>2, <2>3, Frame DEF WriteCache, s, file
  <2>6. /\ cache' \in [Keys -> Contents \cup {None}]
        /\ \A k \in Keys : k # key => cache'[k] = cache[k]
        /\ cache'[key] = filed
    BY <1>3, <1>4, <1>5, <2>4 DEF filed
  <2>7. CacheOK'
    BY <2>4, <2>6 DEF CacheOK, Marked, IInv
  <2>8. FiledUnderItsInput'
    BY <2>4, <2>6 DEF FiledUnderItsInput, IInv
  <2>9. TypeOK'
    BY <2>5, <2>6 DEF IInv, TypeOK, WriteCache
  <2>. QED  BY <2>4, <2>5, <2>6, <2>7, <2>8, <2>9 DEF IInv
<1>6. CASE Becomes(r, [p EXCEPT !.pc = "ending"]) /\ UNCHANGED cache
  <2>. DEFINE s == [p EXCEPT !.pc = "ending"]
  <2>1. s \in RunStates
    BY <1>1 DEF RunStates, Places
  <2>2. RunOK(s, file)
    BY <1>1 DEF RunOK, RunStates, Agree
  <2>. HIDE DEF s
  <2>3. IInv'
    BY <1>6, <2>1, <2>2, LocalStep DEF WriteCache, s, file
  <2>. QED  BY <1>6, <2>3
<1>. QED  BY <1>5, <1>6 DEF WriteCache, file, key, Result

LEMMA FilledStep ==
  ASSUME OwnOutputs, IInv, NEW r \in Runs, Filled(r)
  PROVE  IInv' /\ \A key \in Keys :
                    cache'[key] # cache[key] /\ cache'[key] # None /\ UnitsCounted
                      => ~cache'[key].degraded
<1>. DEFINE p == run[r]
            file == Result(r)
            s == [p EXCEPT !.pc = "ending"]
            copy == IF cache[p.key] = None THEN None ELSE Filed(r)
<1>1. p \in RunStates /\ p.pc = "filling" /\ p.flags \in Flags /\ Agree(p, file)
      /\ p.count = "none" /\ p.key \in Keys /\ (~p.overtaken => file.of = p.key[1])
  BY Types DEF Filled, RunOK
<1>2. /\ file \in Contents
      /\ UnitsCounted => ~file.degraded
  BY <1>1, Types DEF Agree
<1>3. cache \in [Keys -> Contents \cup {None}]
  BY Types
<1>4. s \in RunStates
  BY <1>1 DEF RunStates, Places
<1>5. RunOK(s, file)
  BY <1>1 DEF RunOK, RunStates, Agree
<1>6. cache' = [cache EXCEPT ![p.key] = copy] /\ Becomes(r, s) /\ UNCHANGED <<input, output>>
  BY DEF Filled, Result
<1>10. /\ copy \in Contents \cup {None}
       /\ copy # None /\ UnitsCounted => ~copy.degraded
       /\ copy # None /\ ~copy.late => copy.of = p.key[1]
  <2>1. /\ Filed(r) \in Contents /\ Filed(r).late = p.overtaken
        /\ Filed(r).degraded = file.degraded /\ Filed(r).of = file.of
    BY <1>1, FiledType DEF Agree
  <2>. QED  BY <1>1, <1>2, <2>1
<1>. HIDE DEF s, p, file, copy
<1>7. /\ output' \in [Files -> Contents \cup {None}]
      /\ run' \in [Runs -> RunStates]
      /\ \A q \in Runs : RunOK(run[q], Result(q))'
  BY <1>2, <1>4, <1>5, <1>6, Frame DEF file
<1>8. /\ cache' \in [Keys -> Contents \cup {None}]
      /\ \A k \in Keys : k # p.key => cache'[k] = cache[k]
      /\ cache'[p.key] = copy
  BY <1>1, <1>3, <1>6, <1>10
<1>9. CacheOK'
  BY <1>8, <1>10 DEF CacheOK, Marked, IInv
<1>11. TypeOK'
  BY <1>6, <1>7, <1>8 DEF IInv, TypeOK
<1>12. FiledUnderItsInput'
  BY <1>8, <1>10 DEF FiledUnderItsInput, IInv
<1>. QED  BY <1>7, <1>8, <1>9, <1>10, <1>11, <1>12 DEF IInv

LEMMA EndStep ==
  ASSUME OwnOutputs, IInv, NEW r \in Runs, End(r)
  PROVE  IInv'
<1>. DEFINE p == run[r]
<1>1. p \in RunStates /\ p.pc = "ending" /\ p.flags \in Flags /\ Agree(p, Result(r))
  BY Types DEF End, RunOK
<1>2. CASE /\ p.flags.fail_on_untranslated /\ p.count # "none"
           /\ output' = [output EXCEPT ![OutputOf[r]] = None]
           /\ Becomes(r, Exited(p, "untranslated"))
  <2>. DEFINE s == Exited(p, "untranslated")
  <2>1. s \in RunStates
    BY <1>1 DEF Exited, RunStates, Places, Exits
  <2>2. RunOK(s, None)
    BY <1>1 DEF RunOK, RunStates, Exited
  <2>. HIDE DEF s
  <2>3. /\ output' \in [Files -> Contents \cup {None}]
        /\ run' \in [Runs -> RunStates]
        /\ \A q \in Runs : RunOK(run[q], Result(q))'
    BY <1>2, <2>1, <2>2, Frame DEF Writes, End, s
  <2>. QED  BY <2>3 DEF IInv, TypeOK, CacheOK, FiledUnderItsInput, End
<1>3. CASE /\ ~(p.flags.fail_on_untranslated /\ p.count # "none")
           /\ Becomes(r, Exited(p, IF p.count = "all" THEN "untranslated" ELSE "success"))
           /\ UNCHANGED output
  <2>. DEFINE s == Exited(p, IF p.count = "all" THEN "untranslated" ELSE "success")
  <2>1. s \in RunStates
    BY <1>1 DEF Exited, RunStates, Places, Exits
  <2>2. RunOK(s, Result(r))
    BY <1>1, <1>3 DEF RunOK, RunStates, Exited, Agree
  <2>. HIDE DEF s
  <2>. QED  BY <1>3, <2>1, <2>2, LocalStep DEF End, s
<1>. QED  BY <1>2, <1>3 DEF End

-----------------------------------------------------------------------------
(* What one run, an editor or --clear-cache does to the invariant, and to  *)
(* the files in the cache.                                                 *)
LEMMA NextStep ==
  ASSUME OwnOutputs, IInv, Next
  PROVE  IInv' /\ \A key \in Keys :
                    cache'[key] # cache[key] /\ cache'[key] # None /\ UnitsCounted
                      => ~cache'[key].degraded
<1>1. CASE Edit
  <2>. DEFINE s(r) == [run[r] EXCEPT !.overtaken = @ \/ run[r].pc \in {"translating", "caching"}]
  <2>1. /\ input' \in Versions /\ UNCHANGED <<output, cache>>
        /\ run' = [r \in Runs |-> s(r)]
    BY <1>1 DEF Edit
  <2>2. ASSUME NEW r \in Runs
        PROVE  s(r) \in RunStates /\ RunOK(run[r], Result(r))'
    <3>1. RunOK(run[r], Result(r)) /\ run[r] \in RunStates
      BY Types
    <3>2. s(r) \in RunStates
      BY <3>1 DEF RunStates
    <3>3. /\ s(r).pc = run[r].pc /\ s(r).flags = run[r].flags /\ s(r).held = run[r].held
          /\ s(r).took = run[r].took /\ s(r).count = run[r].count
          /\ s(r).key = run[r].key /\ s(r).exit = run[r].exit
          /\ run[r].overtaken => s(r).overtaken
          /\ s(r).pc \in {"translating", "caching"} => s(r).overtaken
      BY <3>1 DEF RunStates
    <3>4. run'[r] = s(r) /\ output'[OutputOf[r]] = Result(r)
      BY <2>1 DEF Result
    <3>. HIDE DEF s
    <3>5. Agree(run[r], Result(r)) => Agree(run'[r], Result(r))
      BY <3>3, <3>4 DEF Agree
    <3>6. RunOK(run[r], Result(r))'
      BY <3>1, <3>3, <3>4, <3>5 DEF RunOK, Agree, Result
    <3>. QED  BY <3>2, <3>6
  <2>3. run' \in [Runs -> RunStates]
    BY <2>1, <2>2
  <2>. HIDE DEF s
  <2>. QED  BY <2>1, <2>2, <2>3 DEF IInv, TypeOK, CacheOK, FiledUnderItsInput
<1>2. CASE ClearCache
  <2>1. cache' \in [Keys -> Contents \cup {None}] /\ \A key \in Keys : cache'[key] = None
    BY <1>2 DEF ClearCache
  <2>2. CacheOK'
    BY <2>1 DEF CacheOK, Marked
  <2>3. FiledUnderItsInput'
    BY <2>1 DEF FiledUnderItsInput
  <2>4. UNCHANGED <<input, output, run>>
    BY <1>2 DEF ClearCache
  <2>5. \A r \in Runs : RunOK(run[r], Result(r))'
    BY <2>4, Types DEF RunOK, Agree, Result
  <2>. QED  BY <2>1, <2>2, <2>3, <2>4, <2>5 DEF IInv, TypeOK
<1>3. ASSUME NEW r \in Runs,
             \/ \E flags \in Flags : Begin(r, flags)
             \/ \E left \in Untranslated : Translated(r, left)
             \/ Copied(r) \/ Read(r) \/ PipelineFails(r) \/ End(r) \/ Kill(r)
      PROVE  IInv' /\ UNCHANGED cache
  <2>1. IInv'
    BY <1>3, BeginStep, TranslatedStep, CopiedStep, ReadStep, PipelineFailsStep, EndStep, KillStep
  <2>2. UNCHANGED cache
    BY <1>3 DEF Begin, Translated, Copied, Read, PipelineFails, End, Kill
  <2>. QED  BY <2>1, <2>2
<1>. QED  BY <1>1, <1>2, <1>3, WriteCacheStep, FilledStep DEF Next, Edit, ClearCache

(* The count of untranslated units, the output file and the cache agree    *)
(* through every interleaving, edit and kill.                              *)
THEOREM Invariance ==
  ASSUME OwnOutputs
  PROVE  Spec => []IInv
<1>1. Init => IInv
  BY InitIInv
<1>2. IInv /\ [Next]_vars => IInv'
  <2>1. ASSUME IInv, UNCHANGED vars PROVE IInv'
    BY <2>1 DEF vars, IInv, TypeOK, CacheOK, RunOK, Agree, Result, FiledUnderItsInput
  <2>. QED  BY <2>1, NextStep
<1>. QED  BY <1>1, <1>2, PTL DEF Spec

(* Issue #132: outside the paragraph mode no interleaving of runs that     *)
(* write to their own outputs puts an untranslated file into the cache.    *)
THEOREM CacheStaysTranslated ==
  ASSUME OwnOutputs, UnitsCounted
  PROVE  Spec => UntranslatedNeverCached
<1>. DEFINE Kept == \A key \in Keys :
       cache'[key] # cache[key] /\ cache'[key] # None => ~cache'[key].degraded
<1>1. IInv /\ [Next]_vars => [Kept]_vars
  BY NextStep
<1>. QED  BY <1>1, Invariance, PTL DEF Spec, UntranslatedNeverCached

(* Issue #189: an exit code of 0 means a translated output, or one whose   *)
(* untranslated units were allowed and counted; fail-closed leaves none.   *)
THEOREM ExitsAreHonest ==
  ASSUME OwnOutputs, UnitsCounted
  PROVE  Spec => []ExitIsHonest
<1>1. IInv => ExitIsHonest
  BY DEF IInv, RunOK, ExitIsHonest, Succeeded, Result
<1>. QED  BY <1>1, Invariance, PTL

(* Through kills, torn copies and edits at any moment, no file is cached   *)
(* under the key of another input but by a run that was overtaken: whose   *)
(* input was edited after it had read it and before it hashed it for the   *)
(* second time (_write_cache).  It holds in the paragraph mode too.        *)
THEOREM CacheIsFiled ==
  ASSUME OwnOutputs
  PROVE  Spec => []FiledUnderItsInput
<1>1. IInv => FiledUnderItsInput
  BY DEF IInv
<1>. QED  BY <1>1, Invariance, PTL
=============================================================================
