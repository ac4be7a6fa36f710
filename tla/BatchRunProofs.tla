---------------------------- MODULE BatchRunProofs ----------------------------
(***************************************************************************)
(* Proofs about the translation memory (TMService) for any number of       *)
(* processes that share its file, and about a batch (BatchRun) that uses   *)
(* it, for any number of files, names and slots.                           *)
(***************************************************************************)
EXTENDS BatchRun, FiniteSetTheorems, SequenceTheorems, TLAPS

(* A function on 1 .. n is a sequence of n values.                         *)
LEMMA IsSequence ==
  ASSUME NEW S, NEW n \in Nat, NEW f \in [1 .. n -> S]
  PROVE  f \in Seq(S) /\ Len(f) = n
OBVIOUS

(* A service that is open is an object, which is as the invariant says.    *)
LEMMA Opened ==
  ASSUME TMInv, NEW s \in Services, service[s] # None
  PROVE  /\ service[s] \in Objects /\ ObjectOK(service[s])
         /\ service[s].entries \in Seq(Entries) /\ Len(service[s].entries) \in Nat
         /\ Len(service[s].entries) <= MaxEntries
<1>1. service[s] \in Objects /\ ObjectOK(service[s])
  BY DEF TMInv, TMTypeOK
<1>2. service[s].entries \in Seq(Entries)
  BY <1>1 DEF Objects
<1>. QED  BY <1>1, <1>2, LenProperties DEF ObjectOK

(* What a step of one service may do to the memory: it leaves the others,  *)
(* takes the lock when it is free and gives back only its own.             *)
LEMMA ServiceSteps ==
  ASSUME TMInv, NEW s \in Services, NEW o \in Objects \cup {None},
         service' = [service EXCEPT ![s] = o],
         o # None => ObjectOK(o),
         disk' \in Disks, disk'.state # "mixed",
         disk'.state = "whole" => Len(disk'.units) <= MaxEntries,
         \/ lock' = lock /\ (o # None /\ o.pc \in {"locked", "writing"} => Holds(s))
         \/ lock' = s /\ lock = None
         \/ lock' = None /\ lock = s /\ ~(o # None /\ o.pc \in {"locked", "writing"})
  PROVE  TMInv'
<1>1. service \in [Services -> Objects \cup {None}] /\ lock \in Services \cup {None}
  BY DEF TMInv, TMTypeOK
<1>2. service'[s] = o /\ \A t \in Services \ {s} : service'[t] = service[t]
  BY <1>1
<1>3. service' \in [Services -> Objects \cup {None}] /\ lock' \in Services \cup {None}
  BY <1>1
<1>4. ASSUME NEW t \in Services, service'[t] # None
      PROVE  ObjectOK(service'[t])
  BY <1>2, <1>4 DEF TMInv
<1>5. TMTypeOK'
  BY <1>3, <1>4 DEF TMTypeOK, ObjectOK
<1>6. ASSUME NEW t \in Services, Holds(t)'
      PROVE  lock' = t
  BY <1>1, <1>2, <1>6, TMAssumption DEF TMInv, Holds
<1>. QED  BY <1>4, <1>5, <1>6 DEF TMInv, ObjectOK

LEMMA LoadedFile ==
  ASSUME TMInv
  PROVE  Loaded \in Seq(Entries) /\ Len(Loaded) <= MaxEntries
<1>1. CASE disk.state # "whole"
  BY <1>1, EmptySeq, TMAssumption DEF Loaded
<1>2. CASE disk.state = "whole"
  <2>1. disk.units \in Seq(Units) /\ disk.pair \in Pairs
    BY <1>2 DEF TMInv, TMTypeOK, Disks, Whole
  <2>2. PICK n \in Nat : n = Len(disk.units) /\ \A i \in 1 .. n : disk.units[i] \in Units
    BY <2>1, LenProperties
  <2>3. Loaded = [i \in 1 .. n |-> [source |-> disk.units[i].source,
                                   target |-> disk.units[i].target, pair |-> disk.pair]]
    BY <1>2, <2>2 DEF Loaded
  <2>4. Loaded \in [1 .. n -> Entries]
    BY <2>1, <2>2, <2>3 DEF Units, Entries
  <2>5. Loaded \in Seq(Entries) /\ Len(Loaded) = n
    BY <2>4, IsSequence
  <2>. QED  BY <1>2, <2>2, <2>5 DEF TMInv
<1>. QED  BY <1>1, <1>2

LEMMA OpenStep ==
  ASSUME TMInv, NEW s \in Services, Open(s)
  PROVE  TMInv'
<1>. DEFINE o == [pc |-> "open", closing |-> FALSE, entries |-> Loaded, dirty |-> FALSE,
                  kept |-> Loaded]
<1>1. o \in Objects /\ ObjectOK(o)
  BY LoadedFile DEF Objects, ObjectOK
<1>2. service' = [service EXCEPT ![s] = o] /\ UNCHANGED <<disk, lock>> /\ o.pc = "open"
  BY DEF Open
<1>. HIDE DEF o
<1>. QED  BY <1>1, <1>2, ServiceSteps DEF TMInv, TMTypeOK

(* An entry is added, by a client of the service or by the batch.          *)
LEMMA AddedStep ==
  ASSUME TMInv, NEW s \in Services, Free(s), Len(service[s].entries) < MaxEntries,
         NEW src \in Sources, NEW tgt \in Targets, NEW p \in Pairs,
         service' = [service EXCEPT ![s] = Added(@, src, tgt, p)],
         UNCHANGED <<disk, lock>>
  PROVE  TMInv'
<1>. DEFINE old == service[s]
            e == [source |-> src, target |-> tgt, pair |-> p]
            o == Added(service[s], src, tgt, p)
<1>1. old \in Objects /\ old.entries \in Seq(Entries) /\ Len(old.entries) < MaxEntries /\ old.pc = "open"
      /\ Len(old.entries) \in Nat
  BY Opened DEF Free
<1>2. e \in Entries
  BY DEF Entries
<1>3. /\ Append(old.entries, e) \in Seq(Entries) /\ Append(old.entries, e) # <<>>
      /\ Len(Append(old.entries, e)) = Len(old.entries) + 1
  BY <1>1, <1>2, AppendProperties
<1>4. o \in Objects /\ o.pc = "open" /\ o.dirty = TRUE /\ o.entries = Append(old.entries, e)
  BY <1>1, <1>3 DEF Added, Objects
<1>5. Len(o.entries) <= MaxEntries
  BY <1>1, <1>3, <1>4, TMAssumption
<1>6. ObjectOK(o)
  BY <1>3, <1>4, <1>5 DEF ObjectOK
<1>7. service' = [service EXCEPT ![s] = o]
  BY DEF TMInv, TMTypeOK
<1>. HIDE DEF o
<1>. QED  BY <1>4, <1>6, <1>7, ServiceSteps DEF TMInv, TMTypeOK

LEMMA FlushStep ==
  ASSUME TMInv, NEW s \in Services, NEW closing \in BOOLEAN, Flush(s, closing)
  PROVE  TMInv'
<1>. DEFINE old == service[s]
<1>1. old \in Objects /\ ObjectOK(old) /\ old.pc = "open" /\ UNCHANGED <<disk, lock>>
  BY Opened DEF Flush, Free
<1>2. PICK o \in {[old EXCEPT !.pc = "waiting", !.closing = closing], None, old} :
        /\ service' = [service EXCEPT ![s] = o]
        /\ old.dirty = TRUE \/ o = None \/ o = old
  BY <1>1 DEF Flush, TMInv, TMTypeOK, Objects
<1>3. o \in Objects \cup {None} /\ (o # None => ObjectOK(o) /\ o.pc \in {"waiting", "open"})
  BY <1>1, <1>2 DEF Objects, ObjectOK
<1>. QED  BY <1>1, <1>2, <1>3, ServiceSteps DEF TMInv, TMTypeOK

LEMMA LockStep ==
  ASSUME TMInv, NEW s \in Services, Lock(s)
  PROVE  TMInv'
<1>. DEFINE o == [service[s] EXCEPT !.pc = "locked"]
<1>1. service[s] \in Objects /\ ObjectOK(service[s]) /\ service[s].pc = "waiting"
  BY Opened DEF Lock
<1>2. o \in Objects /\ ObjectOK(o)
  BY <1>1 DEF Objects, ObjectOK
<1>3. service' = [service EXCEPT ![s] = o] /\ lock = None /\ lock' = s /\ disk' = disk
  BY DEF Lock
<1>. HIDE DEF o
<1>. QED  BY <1>2, <1>3, ServiceSteps DEF TMInv, TMTypeOK

LEMMA TruncateStep ==
  ASSUME TMInv, NEW s \in Services, Truncate(s)
  PROVE  TMInv'
<1>. DEFINE o == [service[s] EXCEPT !.pc = "writing", !.kept = service[s].entries]
<1>1. service[s] \in Objects /\ ObjectOK(service[s]) /\ service[s].pc = "locked" /\ Holds(s)
  BY Opened DEF Truncate, Holds
<1>2. o \in Objects /\ ObjectOK(o)
  BY <1>1 DEF Objects, ObjectOK
<1>3. service' = [service EXCEPT ![s] = o] /\ lock' = lock /\ disk' = [state |-> "torn"]
  BY DEF Truncate
<1>4. disk' \in Disks /\ disk'.state = "torn"
  BY <1>3 DEF Disks
<1>. HIDE DEF o
<1>. QED  BY <1>1, <1>2, <1>3, <1>4, ServiceSteps

(* A flush that ends, well or badly, leaves an object that is open or none.*)
LEMMA ReturnedObject ==
  ASSUME TMInv, NEW s \in Services, Holds(s), NEW dirty \in BOOLEAN,
         ~dirty => service[s].pc = "writing"
  PROVE  /\ Returned(service[s], dirty) \in Objects \cup {None}
         /\ Returned(service[s], dirty) # None =>
              ObjectOK(Returned(service[s], dirty)) /\ Returned(service[s], dirty).pc = "open"
         /\ lock = s
<1>1. service[s] \in Objects /\ ObjectOK(service[s]) /\ service[s].pc \in {"locked", "writing"}
      /\ lock = s
  BY Opened DEF Holds, TMInv
<1>. DEFINE o == [service[s] EXCEPT !.pc = "open", !.dirty = dirty]
<1>2. o \in Objects /\ o.pc = "open" /\ o.dirty = dirty
      /\ o.entries = service[s].entries /\ o.kept = service[s].kept
  BY <1>1 DEF Objects
<1>3. ObjectOK(o)
  BY <1>1, <1>2 DEF ObjectOK
<1>. HIDE DEF o
<1>4. Returned(service[s], dirty) \in {o, None}
  BY DEF Returned, o
<1>. QED  BY <1>1, <1>2, <1>3, <1>4

(* No other service writes, so the file is whole, and holds what this one  *)
(* has copied.                                                             *)
LEMMA WrittenStep ==
  ASSUME TMInv, NEW s \in Services, Written(s)
  PROVE  TMInv'
<1>1. Holds(s) /\ service[s].pc = "writing" /\ lock' = None
      /\ service' = [service EXCEPT ![s] = Returned(service[s], FALSE)]
  BY DEF Written, Holds, TMInv, TMTypeOK
<1>2. \A t \in Services \ {s} : ~(service[t] # None /\ service[t].pc = "writing")
  BY <1>1 DEF TMInv, Holds
<1>. DEFINE kept == service[s].kept
            units == [i \in DOMAIN kept |-> UnitOf(kept[i])]
<1>3. disk' = [state |-> "whole", pair |-> kept[1].pair, units |-> units]
  BY <1>2 DEF Written
<1>4. kept \in Seq(Entries) /\ kept # <<>> /\ Len(kept) <= MaxEntries
  BY <1>1, Opened DEF Holds, Objects, ObjectOK
<1>. HIDE DEF kept
<1>5. PICK n \in Nat : n = Len(kept) /\ n # 0 /\ DOMAIN kept = 1 .. n /\ \A i \in 1 .. n : kept[i] \in Entries
  BY <1>4, LenProperties, EmptySeq
<1>6. units \in [1 .. n -> Units]
  BY <1>5 DEF UnitOf, Units, Entries
<1>7. units \in Seq(Units) /\ Len(units) = n
  BY <1>6, IsSequence
<1>8. kept[1].pair \in Pairs
  BY <1>5 DEF Entries
<1>. HIDE DEF units
<1>9. disk' \in Disks /\ disk'.state = "whole" /\ disk'.units = units
  BY <1>3, <1>7, <1>8 DEF Disks, Whole
<1>10. Len(disk'.units) <= MaxEntries
  BY <1>4, <1>5, <1>7, <1>9
<1>. DEFINE o == Returned(service[s], FALSE)
<1>11. o \in Objects \cup {None} /\ (o # None => ObjectOK(o) /\ o.pc = "open") /\ lock = s
  BY <1>1, ReturnedObject
<1>. HIDE DEF o
<1>12. service' = [service EXCEPT ![s] = o]
  BY <1>1 DEF o
<1>. QED  BY <1>1, <1>9, <1>10, <1>11, <1>12, ServiceSteps

LEMMA SaveFailsStep ==
  ASSUME TMInv, NEW s \in Services, SaveFails(s)
  PROVE  TMInv'
<1>. DEFINE o == Returned(service[s], TRUE)
<1>1. Holds(s) /\ lock' = None /\ disk' = disk
      /\ service' = [service EXCEPT ![s] = o]
  BY DEF SaveFails, Holds, TMInv, TMTypeOK
<1>2. o \in Objects \cup {None} /\ (o # None => ObjectOK(o) /\ o.pc = "open") /\ lock = s
  BY <1>1, ReturnedObject
<1>. HIDE DEF o
<1>. QED  BY <1>1, <1>2, ServiceSteps DEF TMInv, TMTypeOK

LEMMA KilledStep ==
  ASSUME TMInv, NEW s \in Services, Killed(s)
  PROVE  TMInv'
<1>1. service' = [service EXCEPT ![s] = None] /\ disk' = disk
      /\ (lock' = lock \/ (lock' = None /\ lock = s))
  BY DEF Killed
<1>. QED  BY <1>1, ServiceSteps DEF TMInv, TMTypeOK

LEMMA TMUnchanged == TMInv /\ UNCHANGED tmVars => TMInv'
<1>. SUFFICES ASSUME TMInv, UNCHANGED <<service, disk, lock>> PROVE TMInv'
  BY DEF tmVars
<1>1. TMTypeOK'
  BY DEF TMInv, TMTypeOK
<1>. QED  BY <1>1 DEF TMInv, ObjectOK, Holds

LEMMA SavesStep ==
  ASSUME TMInv, NEW s \in Services, Saves(s)
  PROVE  TMInv'
BY TruncateStep, WrittenStep, SaveFailsStep DEF Saves

(* What the invariant is for.                                              *)
LEMMA TMConsequences == TMInv => TMTypeOK /\ NeverMixed /\ CleanMeansSaved
<1>. SUFFICES ASSUME TMInv PROVE TMTypeOK /\ NeverMixed /\ CleanMeansSaved
  OBVIOUS
<1>1. CleanMeansSaved
  BY DEF TMInv, ObjectOK, CleanMeansSaved
<1>. QED  BY <1>1 DEF TMInv, NeverMixed

(* Services that share the file, whatever they do and whenever one of them *)
(* is killed, in any number: the file is of one of them, and one that has  *)
(* nothing to save has nothing it did not read or write (ol_tm/service.py).*)
THEOREM MemoryIsSafe == TMSpec => [](TMTypeOK /\ NeverMixed /\ CleanMeansSaved)
<1>1. TMInit => TMInv
  BY EmptySeq, TMAssumption DEF TMInit, TMInv, TMTypeOK, Disks, Holds
<1>2. TMInv /\ [TMNext]_tmVars => TMInv'
  <2>1. ASSUME TMInv, NEW s \in Services, NEW src \in Sources, NEW tgt \in Targets, NEW p \in Pairs,
               Add(s, src, tgt, p)
        PROVE  TMInv'
    BY <2>1, AddedStep DEF Add
  <2>2. ASSUME TMInv, TMNext PROVE TMInv'
    BY <2>1, <2>2, OpenStep, LockStep, SavesStep, KilledStep, FlushStep DEF TMNext
  <2>. QED  BY <2>2, TMUnchanged
<1>. QED  BY <1>1, <1>2, TMConsequences, PTL DEF TMSpec

-----------------------------------------------------------------------------
(* The batch.  w is what the coroutine of f writes when it ends as r, and  *)
(* e an entry it makes.                                                    *)
Output_of(f, r, w) ==
  /\ w \in [by : {f}, text : Targets \cup {"torn"}]
  /\ r.pc = "done"
  /\ r.result = "translated" => w.text = r.text
  /\ r.result = "skipped" => w.text = "source"
  /\ w.text = "torn" => r.result = "failed"

Entry_of(f, r, e) ==
  e.source = f /\ e.target = r.text /\ r.pc = "done" /\ r.result \in {"translated", "failed"}

LEMMA Typed ==
  ASSUME IInv
  PROVE  /\ run \in Runs /\ \A f \in Files : run.name[f] \in Names
         /\ item \in [Files -> Items]
         /\ out \in [Names -> [by : Files, text : Targets \cup {"torn"}] \cup {None}]
         /\ \A n \in Names : out[n] # None => out[n].by \in Files
<1>1. run \in Runs /\ item \in [Files -> Items]
      /\ out \in [Names -> [by : Files, text : Targets \cup {"torn"}] \cup {None}]
  BY DEF IInv, TypeOK
<1>2. \A f \in Files : run.name[f] \in Names
  BY <1>1, BatchAssumption DEF Runs
<1>. QED  BY <1>1, <1>2

(* A coroutine that is not done takes a step, to r.                        *)
LEMMA ItemSteps ==
  ASSUME IInv, NEW f \in Files, NEW r \in Items, exit = None, item[f].pc # "done",
         item' = [item EXCEPT ![f] = r], UNCHANGED <<run, interrupted, exit>>,
         TMInv',
         r.pc = "done" => r.result \in Results,
         \/ out' = out /\ ~(run.kind = "files" /\ r.pc = "done" /\ r.result \in {"translated", "skipped"})
         \/ \E w : out' = [out EXCEPT ![run.name[f]] = w] /\ Output_of(f, r, w),
         service'[Batch] # None =>
           \A i \in DOMAIN service'[Batch].entries :
             Entered(service'[Batch].entries[i]) \/ Entry_of(f, r, service'[Batch].entries[i])
  PROVE  IInv'
<1>1. item'[f] = r /\ \A g \in Files \ {f} : item'[g] = item[g]
  BY Typed
<1>2. \A n \in Names : \/ out'[n] = out[n]
                       \/ n = run.name[f] /\ Output_of(f, r, out'[n])
  BY Typed
<1>3. \A w : Output_of(f, r, w) => w # None /\ w \in [by : Files, text : Targets \cup {"torn"}]
  BY BatchAssumption DEF Output_of
<1>4. out' \in [Names -> [by : Files, text : Targets \cup {"torn"}] \cup {None}]
  BY Typed, <1>3
<1>5. TypeOK'
  BY <1>4, Typed DEF IInv, TypeOK, TMInv
<1>6. ASSUME NEW g \in Files PROVE ItemOK(g)'
  <2>1. run.name[g] \in Names
    BY Typed
  <2>2. out[run.name[g]] # None => out'[run.name[g]] # None
    BY <1>2, <1>3, <2>1
  <2>3. CASE g = f
    <3>1. run.kind = "files" /\ r.pc = "done" /\ r.result \in {"translated", "skipped"} =>
            out'[run.name[f]] # None
      BY <1>3, <2>1, <2>3, Typed
    <3>. QED  BY <1>1, <2>3, <3>1 DEF ItemOK
  <2>4. CASE g # f
    BY <1>1, <2>2, <2>4 DEF ItemOK, IInv
  <2>. QED  BY <2>3, <2>4
<1>7. ASSUME NEW n \in Names PROVE Output(n)'
  <2>1. CASE out'[n] = out[n]
    <3>1. out[n] # None => out[n].by \in Files \ {f}
      BY Typed DEF IInv, Output
    <3>. QED  BY <1>1, <2>1, <3>1 DEF IInv, Output
  <2>2. CASE n = run.name[f] /\ Output_of(f, r, out'[n])
    BY <1>1, <2>2 DEF Output, Output_of
  <2>. QED  BY <1>2, <2>1, <2>2
<1>8. ASSUME service'[Batch] # None, NEW i \in DOMAIN service'[Batch].entries
      PROVE  Entered(service[Batch].entries[i])'
  <2>. DEFINE e == service'[Batch].entries[i]
  <2>1. CASE Entered(e)
    <3>1. e.source \in Files \ {f}
      BY <2>1 DEF Entered
    <3>. QED  BY <1>1, <2>1, <3>1 DEF Entered
  <2>2. CASE Entry_of(f, r, e)
    BY <1>1, <2>2 DEF Entered, Entry_of
  <2>. QED  BY <1>8, <2>1, <2>2
<1>9. exit' # "success"
  BY BatchAssumption
<1>. QED  BY <1>5, <1>6, <1>7, <1>8, <1>9 DEF IInv

(* A step of a coroutine that leaves the memory alone.                     *)
LEMMA SameMemory ==
  ASSUME IInv, UNCHANGED tmVars
  PROVE  /\ TMInv'
         /\ service'[Batch] # None =>
              \A i \in DOMAIN service'[Batch].entries : Entered(service'[Batch].entries[i])
<1>1. service' = service
  BY DEF tmVars
<1>2. TMInv'
  BY TMUnchanged DEF IInv
<1>. QED  BY <1>1, <1>2 DEF IInv

LEMMA BeginStep ==
  ASSUME IInv, NEW f \in Files, Begin(f)
  PROVE  IInv'
<1>. DEFINE r == [item[f] EXCEPT !.pc = "translating"]
<1>1. r \in Items /\ r.pc = "translating"
  BY Typed DEF Items
<1>2. item' = [item EXCEPT ![f] = r] /\ item[f].pc = "queued" /\ exit = None
      /\ UNCHANGED <<run, out, interrupted, exit>> /\ UNCHANGED tmVars
  BY DEF Begin
<1>. HIDE DEF r
<1>. QED  BY <1>1, <1>2, SameMemory, ItemSteps

LEMMA SkipStep ==
  ASSUME IInv, NEW f \in Files, Skip(f)
  PROVE  IInv'
<1>. DEFINE r == [item[f] EXCEPT !.pc = "done", !.result = "skipped"]
            w == [by |-> f, text |-> "source"]
<1>1. r \in Items /\ r.pc = "done" /\ r.result = "skipped"
  BY Typed DEF Items
<1>2. item' = [item EXCEPT ![f] = r] /\ item[f].pc = "queued" /\ exit = None
      /\ UNCHANGED <<run, interrupted, exit>> /\ UNCHANGED tmVars
      /\ out' = [out EXCEPT ![run.name[f]] = w]
  BY DEF Skip, Done
<1>3. Output_of(f, r, w) /\ r.result \in Results
  BY <1>1, BatchAssumption DEF Output_of, Results
<1>. HIDE DEF r, w
<1>. QED  BY <1>1, <1>2, <1>3, SameMemory, ItemSteps

LEMMA FailStep ==
  ASSUME IInv, NEW f \in Files, Fail(f) \/ QueueTimeout(f)
  PROVE  IInv'
<1>1. PICK x \in {"failed", "queue_timeout"} : Done(f, x)
  BY DEF Fail, QueueTimeout
<1>. DEFINE r == [item[f] EXCEPT !.pc = "done", !.result = x]
<1>2. r \in Items /\ r.pc = "done" /\ r.result = x
  BY Typed DEF Items
<1>3. item' = [item EXCEPT ![f] = r] /\ item[f].pc # "done" /\ exit = None
      /\ UNCHANGED <<run, out, interrupted, exit>> /\ UNCHANGED tmVars
  BY <1>1 DEF Fail, QueueTimeout, Done
<1>4. r.result \in Results /\ r.result \notin {"translated", "skipped"}
  BY <1>2 DEF Results
<1>. HIDE DEF r
<1>. QED  BY <1>2, <1>3, <1>4, SameMemory, ItemSteps

(* The memory is given the text of f, or is not.                           *)
LEMMA RememberedStep ==
  ASSUME IInv, NEW f \in Files, NEW text \in Targets, Remembered(f, text), UNCHANGED <<disk, lock>>,
         NEW r, r.text = text, r.pc = "done", r.result \in {"translated", "failed"}
  PROVE  /\ TMInv'
         /\ service'[Batch] # None =>
              \A i \in DOMAIN service'[Batch].entries :
                Entered(service'[Batch].entries[i]) \/ Entry_of(f, r, service'[Batch].entries[i])
<1>1. CASE UNCHANGED service
  <2>1. UNCHANGED tmVars
    BY <1>1 DEF tmVars
  <2>. QED  BY <2>1, SameMemory
<1>2. CASE Free(Batch) /\ Len(service[Batch].entries) < MaxEntries
           /\ service' = [service EXCEPT ![Batch] = Added(@, f, text, Pair)]
  <2>1. TMInv'
    BY <1>2, AddedStep, BatchAssumption DEF IInv
  <2>. DEFINE old == service[Batch].entries
              e == [source |-> f, target |-> text, pair |-> Pair]
  <2>2. service[Batch] # None /\ service[Batch] \in Objects /\ old \in Seq(Entries) /\ e \in Entries
    BY <1>2, Opened, BatchAssumption DEF IInv, Free, Entries
  <2>3. service'[Batch].entries = Append(old, e)
    BY <1>2, <2>2, BatchAssumption DEF IInv, TMInv, TMTypeOK, Added, Objects
  <2>4. Entry_of(f, r, e)
    BY DEF Entry_of
  <2>5. PICK n \in Nat : n = Len(old) /\ DOMAIN old = 1 .. n
    BY <2>2, LenProperties
  <2>6. DOMAIN Append(old, e) = 1 .. n + 1 /\ Append(old, e)[n + 1] = e
        /\ \A i \in 1 .. n : Append(old, e)[i] = old[i]
    BY <2>2, <2>5, AppendProperties, LenProperties
  <2>. HIDE DEF old, e
  <2>7. ASSUME NEW i \in 1 .. n + 1
        PROVE  Entered(Append(old, e)[i]) \/ Entry_of(f, r, Append(old, e)[i])
    <3>1. CASE i = n + 1
      BY <2>4, <2>6, <3>1
    <3>2. CASE i \in 1 .. n
      <4>1. Entered(old[i])
        BY <2>2, <2>5, <3>2 DEF IInv, old
      <4>2. Append(old, e)[i] = old[i]
        BY <2>6, <3>2
      <4>. QED  BY <4>1, <4>2
    <3>3. i = n + 1 \/ i \in 1 .. n
      OBVIOUS
    <3>. QED  BY <3>1, <3>2, <3>3
  <2>. QED  BY <2>1, <2>3, <2>6, <2>7
<1>. QED  BY <1>1, <1>2 DEF Remembered

LEMMA FinishStep ==
  ASSUME IInv, NEW f \in Files, NEW text \in {"raw", "best", "source"}, Finish(f, text),
         item[f].pc # "done", exit = None, UNCHANGED <<disk, lock, run, interrupted, exit>>
  PROVE  IInv'
<1>. DEFINE done(result) == [pc |-> "done", text |-> text, result |-> result]
<1>1. text \in Targets /\ text # "torn"
  BY BatchAssumption
<1>2. \A x \in {"translated", "failed"} :
        done(x) \in Items /\ done(x).text = text /\ done(x).pc = "done" /\ done(x).result = x
  BY <1>1 DEF Items
<1>3. CASE run.kind = "texts"
  <2>. DEFINE r == done("translated")
  <2>1. item' = [item EXCEPT ![f] = r] /\ out' = out /\ UNCHANGED tmVars
    BY <1>3 DEF Finish, tmVars
  <2>2. r \in Items /\ r.result \in Results
    BY <1>2 DEF Results
  <2>. HIDE DEF r
  <2>. QED  BY <1>3, <2>1, <2>2, SameMemory, ItemSteps
<1>4. CASE run.kind # "texts"
  <2>1. PICK ok \in BOOLEAN :
          /\ item' = [item EXCEPT ![f] = done(IF ok THEN "translated" ELSE "failed")]
          /\ out' = [out EXCEPT ![run.name[f]] = [by |-> f, text |-> IF ok THEN text ELSE "torn"]]
    BY <1>4 DEF Finish
  <2>. DEFINE r == done(IF ok THEN "translated" ELSE "failed")
              w == [by |-> f, text |-> IF ok THEN text ELSE "torn"]
  <2>2. /\ r \in Items /\ r.text = text /\ r.pc = "done" /\ r.result \in {"translated", "failed"}
        /\ r.result \in Results
    BY <1>2 DEF Results
  <2>3. Output_of(f, r, w)
    BY <1>1 DEF Output_of
  <2>4. Remembered(f, text) /\ item' = [item EXCEPT ![f] = r] /\ out' = [out EXCEPT ![run.name[f]] = w]
    BY <1>4, <2>1 DEF Finish
  <2>. HIDE DEF r, w
  <2>. QED  BY <1>1, <2>2, <2>3, <2>4, RememberedStep, ItemSteps
<1>. QED  BY <1>3, <1>4

LEMMA TranslatedStep ==
  ASSUME IInv, NEW f \in Files, Translated(f)
  PROVE  IInv'
<1>1. exit = None /\ item[f].pc = "translating" /\ UNCHANGED <<disk, lock, run, interrupted, exit>>
  BY DEF Translated
<1>2. CASE run.lqa
  <2>. DEFINE r == [item[f] EXCEPT !.pc = "retrying", !.text = "raw"]
  <2>1. item' = [item EXCEPT ![f] = r] /\ out' = out /\ UNCHANGED tmVars
    BY <1>1, <1>2, Typed DEF Translated, tmVars, Items
  <2>2. r \in Items /\ r.pc = "retrying"
    <3>1. item[f] \in Items /\ "raw" \in Targets
      BY Typed, BatchAssumption
    <3>. QED  BY <3>1 DEF Items
  <2>. HIDE DEF r
  <2>3. /\ TMInv'
        /\ service'[Batch] # None =>
             \A i \in DOMAIN service'[Batch].entries : Entered(service'[Batch].entries[i])
    BY <2>1, SameMemory
  <2>. QED  BY <1>1, <2>1, <2>2, <2>3, ItemSteps
<1>3. CASE ~run.lqa
  BY <1>1, <1>3, FinishStep DEF Translated
<1>. QED  BY <1>2, <1>3

LEMMA RetriedStep ==
  ASSUME IInv, NEW f \in Files, Retried(f)
  PROVE  IInv'
BY FinishStep DEF Retried

LEMMA InterruptStep ==
  ASSUME IInv, Interrupt
  PROVE  IInv'
<1>1. UNCHANGED <<run, item, out, exit>> /\ UNCHANGED tmVars /\ interrupted' = TRUE
  BY DEF Interrupt
<1>2. TypeOK'
  BY <1>1, SameMemory DEF IInv, TypeOK, TMInv
<1>. QED  BY <1>1, <1>2, SameMemory DEF IInv, ItemOK, Output, Entered, Failed, tmVars

LEMMA ExitStep ==
  ASSUME IInv, Exit
  PROVE  IInv'
<1>1. UNCHANGED <<run, item, out, interrupted>> /\ UNCHANGED tmVars
      /\ exit' \in Exits /\ (exit' = "success" => Failed = {})
      /\ \A f \in Files : item[f].pc = "done"
  BY DEF Exit, Exits
<1>2. TypeOK'
  BY <1>1, SameMemory DEF IInv, TypeOK, TMInv
<1>. QED  BY <1>1, <1>2, SameMemory DEF IInv, ItemOK, Output, Entered, Failed, tmVars

(* What becomes of the batch's entries when its file is saved.             *)
LEMMA EntriesKept ==
  ASSUME TMInv, NEW s \in Services,
         \/ s # Batch /\ service' = [service EXCEPT ![s] = service'[s]]
         \/ Lock(s) \/ Saves(s) \/ \E closing \in BOOLEAN : Flush(s, closing),
         service'[Batch] # None
  PROVE  service[Batch] # None /\ service'[Batch].entries = service[Batch].entries
<1>1. Batch \in Services /\ service \in [Services -> Objects \cup {None}]
  BY BatchAssumption DEF TMInv, TMTypeOK
<1>2. CASE s # Batch
  BY <1>1, <1>2 DEF Lock, Saves, Truncate, Written, SaveFails, Flush
<1>3. CASE s = Batch /\ Lock(s)
  BY <1>1, <1>3 DEF Lock, Objects
<1>4. CASE s = Batch /\ Truncate(s)
  BY <1>1, <1>4 DEF Truncate, Objects
<1>5. CASE s = Batch /\ (Written(s) \/ SaveFails(s))
  <2>1. PICK dirty \in BOOLEAN : service'[s] = Returned(service[s], dirty)
    BY <1>1, <1>5 DEF Written, SaveFails
  <2>2. service[s] \in Objects
    BY <1>1, <1>5 DEF Written, SaveFails
  <2>. DEFINE o == [service[s] EXCEPT !.pc = "open", !.dirty = dirty]
  <2>3. o.entries = service[s].entries
    BY <2>2 DEF Objects
  <2>4. service'[s] = None \/ service'[s] = o
    BY <2>1 DEF Returned
  <2>. HIDE DEF o
  <2>. QED  BY <1>1, <1>5, <2>3, <2>4 DEF Written, SaveFails
<1>6. CASE s = Batch /\ \E closing \in BOOLEAN : Flush(s, closing)
  <2>1. PICK closing \in BOOLEAN : Flush(s, closing)
    BY <1>6
  <2>2. service[s] \in Objects
    BY <1>1, <2>1 DEF Flush, Free
  <2>. DEFINE o == [service[s] EXCEPT !.pc = "waiting", !.closing = closing]
  <2>3. o.entries = service[s].entries
    BY <2>2 DEF Objects
  <2>4. service'[s] = o \/ service'[s] = None \/ service'[s] = service[s]
    BY <1>1, <2>1 DEF Flush
  <2>. HIDE DEF o
  <2>. QED  BY <1>6, <2>1, <2>3, <2>4 DEF Flush, Free
<1>. QED  BY <1>2, <1>3, <1>4, <1>5, <1>6 DEF Saves

LEMMA MemoryStep ==
  ASSUME IInv, Memory
  PROVE  IInv'
<1>1. UNCHANGED <<run, item, out, interrupted, exit>> /\ TMInv
  BY DEF Memory, batchVars, IInv
<1>2. PICK s \in Services :
        \/ s # Batch /\ (Open(s) \/ Killed(s) \/ (\E closing \in BOOLEAN : Flush(s, closing))
                         \/ \E src \in Sources, p \in Pairs : Add(s, src, "raw", p))
        \/ s = Batch /\ Flush(s, TRUE)
        \/ Lock(s) \/ Saves(s)
  BY BatchAssumption DEF Memory
<1>3. ASSUME NEW src \in Sources, NEW p \in Pairs, Add(s, src, "raw", p) PROVE TMInv'
  BY <1>1, <1>3, AddedStep, BatchAssumption DEF Add
<1>4. TMInv'
  BY <1>1, <1>2, <1>3, OpenStep, KilledStep, FlushStep, LockStep, SavesStep
<1>5. \/ s # Batch /\ service' = [service EXCEPT ![s] = service'[s]]
      \/ Lock(s) \/ Saves(s) \/ \E closing \in BOOLEAN : Flush(s, closing)
  BY <1>1, <1>2 DEF Open, Killed, Add, TMInv, TMTypeOK
<1>6. service'[Batch] # None =>
        service[Batch] # None /\ service'[Batch].entries = service[Batch].entries
  BY <1>1, <1>5, EntriesKept
<1>7. TypeOK'
  BY <1>1, <1>4 DEF IInv, TypeOK, TMInv
<1>. QED  BY <1>1, <1>4, <1>6, <1>7 DEF IInv, ItemOK, Output, Entered, Failed

-----------------------------------------------------------------------------
LEMMA InitIInv == Init => IInv
<1>. SUFFICES ASSUME Init PROVE IInv
  OBVIOUS
<1>. DEFINE o == [pc |-> "open", closing |-> FALSE, entries |-> <<>>, dirty |-> FALSE, kept |-> <<>>]
<1>1. o \in Objects /\ ObjectOK(o) /\ o.pc = "open" /\ DOMAIN o.entries = {}
  BY EmptySeq, TMAssumption DEF Objects, ObjectOK
<1>2. \A s \in Services : service[s] = (IF s = Batch THEN o ELSE None)
  BY DEF Init
<1>. HIDE DEF o
<1>3. service \in [Services -> Objects \cup {None}]
  <2>1. service = [s \in Services |-> service[s]]
    BY DEF Init
  <2>. QED  BY <1>1, <1>2, <2>1
<1>4. disk = [state |-> "absent"] /\ lock = None
  BY DEF Init
<1>5. TMInv
  BY <1>1, <1>2, <1>3, <1>4 DEF TMInv, TMTypeOK, ObjectOK, Holds, Disks
<1>6. TypeOK
  BY <1>5 DEF Init, TypeOK, TMInv, Items
<1>7. \A f \in Files : item[f].pc = "queued"
  BY DEF Init
<1>8. \A n \in Names : out[n] = None
  BY DEF Init
<1>9. exit # "success"
  BY BatchAssumption DEF Init
<1>. QED  BY <1>1, <1>2, <1>5, <1>6, <1>7, <1>8, <1>9, BatchAssumption DEF IInv, ItemOK, Output

LEMMA NextIInv == IInv /\ [Next]_vars => IInv'
<1>. SUFFICES ASSUME IInv, [Next]_vars PROVE IInv'
  OBVIOUS
<1>1. ASSUME NEW f \in Files, Works(f) PROVE IInv'
  BY <1>1, BeginStep, SkipStep, FailStep, TranslatedStep, RetriedStep DEF Works
<1>2. CASE UNCHANGED vars
  <2>1. UNCHANGED <<run, item, out, interrupted, exit>> /\ UNCHANGED tmVars
    BY <1>2 DEF vars, batchVars
  <2>2. TypeOK'
    BY <2>1, SameMemory DEF IInv, TypeOK, TMInv
  <2>. QED  BY <2>1, <2>2, SameMemory DEF IInv, ItemOK, Output, Entered, Failed, tmVars
<1>. QED  BY <1>1, <1>2, InterruptStep, ExitStep, MemoryStep DEF Next

(* The inductive invariant holds in every reachable state of a batch.      *)
THEOREM Invariance == Spec => []IInv
<1>. QED  BY InitIInv, NextIInv, PTL DEF Spec

(* The state of a batch and of the memory it uses keeps its types.         *)
THEOREM TypeCorrect == Spec => []TypeOK
<1>1. IInv => TypeOK
  BY DEF IInv
<1>. QED  BY <1>1, Invariance, PTL

(* The memory a batch shares with other processes is never a mixture of    *)
(* two flushes.                                                            *)
THEOREM BatchNeverMixes == Spec => []NeverMixed
<1>1. IInv => NeverMixed
  BY TMConsequences DEF IInv
<1>. QED  BY <1>1, Invariance, PTL

(* What a batch adds while others flush is saved or marked as not saved.   *)
THEOREM BatchCleanIsSaved == Spec => []CleanMeansSaved
<1>1. IInv => CleanMeansSaved
  BY TMConsequences DEF IInv
<1>. QED  BY <1>1, Invariance, PTL

(* A batch of files that reports success has a whole output for each of    *)
(* them; only where two have one name is it the other's (processor.py).    *)
THEOREM SuccessWritten == Spec => []SuccessIsWritten
<1>1. ASSUME IInv PROVE SuccessIsWritten
  <2>. SUFFICES ASSUME exit = "success", run.kind = "files", NEW f \in Files
                PROVE  /\ item[f].result \in {"translated", "skipped"}
                       /\ out[run.name[f]] # None /\ out[run.name[f]].text # "torn"
                       /\ run.name[out[run.name[f]].by] = run.name[f]
                       /\ (\A g \in Files \ {f} : run.name[g] # run.name[f]) =>
                            out[run.name[f]] =
                              [by |-> f, text |-> IF item[f].result = "skipped"
                                                 THEN "source" ELSE item[f].text]
    BY DEF SuccessIsWritten
  <2>1. \A g \in Files : item[g].pc = "done" /\ item[g].result \in {"translated", "skipped"}
    BY <1>1 DEF IInv, ItemOK, Failed, Results
  <2>2. run.name[f] \in Names /\ out[run.name[f]] # None
    BY <1>1, <2>1, Typed DEF IInv, ItemOK
  <2>. DEFINE w == out[run.name[f]]
  <2>3. w \in [by : Files, text : Targets \cup {"torn"}] /\ Output(run.name[f])
    BY <1>1, <2>2, Typed DEF IInv
  <2>4. w.text # "torn" /\ run.name[w.by] = run.name[f]
    BY <2>1, <2>2, <2>3 DEF Output
  <2>5. ASSUME \A g \in Files \ {f} : run.name[g] # run.name[f]
        PROVE  w = [by |-> f, text |-> IF item[f].result = "skipped" THEN "source" ELSE item[f].text]
    <3>1. w.by = f
      BY <2>3, <2>4, <2>5
    <3>2. w.text = (IF item[f].result = "skipped" THEN "source" ELSE item[f].text)
      BY <2>1, <2>2, <2>3, <3>1 DEF Output
    <3>3. w = [by |-> w.by, text |-> w.text]
      BY <2>3
    <3>. QED  BY <3>1, <3>2, <3>3
  <2>. QED  BY <2>1, <2>2, <2>4, <2>5
<1>. QED  BY <1>1, Invariance, PTL

(* The memory has for a file of the batch what its output was made of, and *)
(* nothing for one that was skipped or had no slot.                        *)
THEOREM WhatShipsIsRemembered == Spec => []RemembersWhatShips
<1>1. IInv => RemembersWhatShips
  BY DEF IInv, RemembersWhatShips, Entered
<1>. QED  BY <1>1, Invariance, PTL

=============================================================================
