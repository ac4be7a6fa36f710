------------------------------- MODULE BatchRun -------------------------------
(***************************************************************************)
(* A batch: "ol translate-batch" on a directory (cli/batch.py,             *)
(* ol_batch/processor.py), whose processor may be given a translation      *)
(* memory that other processes use at the same time (TMService), and the   *)
(* batch of texts of the MCP server (ol_mcp/batch_translate.py).  All      *)
(* items are started at once, each waits for a slot, and the results are   *)
(* put together when the last one is done.                                 *)
(***************************************************************************)
EXTENDS TMService, FiniteSets

CONSTANTS
  Files,
  Names,    \* file names without their directories
  Layouts,  \* what the files may be called
  MaxSlots, \* of max_concurrent, or of the request's concurrency
  Batch,    \* the service of the processor
  Pair      \* the languages of the run

ASSUME BatchAssumption ==
  /\ Layouts \subseteq [Files -> Names]
  /\ MaxSlots \in Nat \ {0}
  /\ Batch \in Services /\ Pair \in Pairs
  /\ Files \subseteq Sources  \* a file stands for its text
  /\ {"raw", "best", "source"} \subseteq Targets
  /\ None \notin [by : Files, text : Targets \cup {"torn"}]
  /\ None \notin {"success", "pipeline_error", "interrupted"}

VARIABLES
  run,   \* kind, names of the files, slots, LQA
  item,  \* the coroutine of each file
  out,   \* the output directory
  interrupted, \* the flag of the SIGINT handler
  exit   \* of the command, or the answer of the tool

batchVars == <<run, item, out, interrupted, exit>>
vars == <<tmVars, batchVars>>

Runs == [kind : {"files", "texts"}, name : Layouts, slots : 1 .. MaxSlots,
         lqa : BOOLEAN]
Exits == {"success", "pipeline_error", "interrupted"}

(* text: what the file's coroutine holds, the source when a request failed.*)
Items == [pc : {"queued", "translating", "retrying", "done"},
          text : Targets \cup {None},
          result : {None, "translated", "skipped", "failed", "queue_timeout"}]

TypeOK ==
  /\ TMTypeOK
  /\ run \in Runs
  /\ item \in [Files -> Items]
  /\ out \in [Names -> [by : Files, text : Targets \cup {"torn"}] \cup {None}]
  /\ interrupted \in BOOLEAN
  /\ exit \in Exits \cup {None}

Init ==
  /\ disk = [state |-> "absent"] /\ lock = None
  /\ service = [s \in Services |->
       IF s = Batch THEN [pc |-> "open", closing |-> FALSE, entries |-> <<>>,
                          dirty |-> FALSE, kept |-> <<>>]
       ELSE None]
  /\ run \in Runs
  /\ run.kind = "texts" => ~run.lqa
  /\ item = [f \in Files |-> [pc |-> "queued", text |-> None, result |-> None]]
  /\ out = [n \in Names |-> None]
  /\ interrupted = FALSE
  /\ exit = None

-----------------------------------------------------------------------------
(* Mutation of Running: a file that failed keeps its slot. *)
Running_Leaked ==
  {f \in Files : item[f].pc \in {"translating", "retrying"} \/ item[f].result = "failed"}

(* The files that hold a slot of limiter.translation, or of the semaphore. *)
Running == {f \in Files : item[f].pc \in {"translating", "retrying"}}

(* The finally clause of limiter.translation releases a slot the wait that *)
(* timed out never had: each makes room for one file more.                 *)
Slots == run.slots + Cardinality({f \in Files : item[f].result = "queue_timeout"})
SlotFree == Cardinality(Running) < Slots

Done(f, r) == item' = [item EXCEPT ![f].pc = "done", ![f].result = r]

(* A slot is free: the file is read, its language looked at and the memory *)
(* searched.  The flag that Ctrl+C sets is not asked.                      *)
Begin(f) ==
  /\ exit = None
  /\ item[f].pc = "queued" /\ SlotFree
  /\ item' = [item EXCEPT ![f].pc = "translating"]
  /\ UNCHANGED <<tmVars, run, out, interrupted, exit>>

(* The text is in the target language already: it is copied.               *)
Skip(f) ==
  /\ exit = None
  /\ run.kind = "files"
  /\ item[f].pc = "queued" /\ SlotFree
  /\ Done(f, "skipped")
  /\ out' = [out EXCEPT ![run.name[f]] = [by |-> f, text |-> "source"]]
  /\ UNCHANGED <<tmVars, run, interrupted, exit>>

(* limiter.translation(timeout): no slot in the time of a configuration    *)
(* that sets one.  A slot is given back all the same (Slots).              *)
QueueTimeout(f) ==
  /\ exit = None
  /\ run.kind = "files"
  /\ item[f].pc = "queued"
  /\ Done(f, "queue_timeout")
  /\ UNCHANGED <<tmVars, run, out, interrupted, exit>>

(* The file cannot be read, the search of the memory needs a model that is *)
(* not installed, the first request fails, or the text cannot be put       *)
(* together.                                                               *)
Fail(f) ==
  /\ exit = None
  /\ item[f].pc \in {"translating", "retrying"}
  /\ Done(f, "failed")
  /\ UNCHANGED <<tmVars, run, out, interrupted, exit>>

(* Mutation of Remembered: the memory gets the first translation. *)
Remembered_First(f, text) ==
  IF Free(Batch) /\ Len(service[Batch].entries) < MaxEntries
  THEN service' = [service EXCEPT ![Batch] = Added(@, f, "raw", Pair)]
  ELSE UNCHANGED service

(* _tm_service.add, whose failure is logged.                               *)
Remembered(f, text) ==
  IF Free(Batch) /\ Len(service[Batch].entries) < MaxEntries
  THEN service' = [service EXCEPT ![Batch] = Added(@, f, text, Pair)]
  ELSE UNCHANGED service

(* Mutation of Finish: a file that cannot be written is a success. *)
Finish_Unwritten(f, text) ==
  /\ Remembered(f, text)
  /\ item' = [item EXCEPT ![f] = [pc |-> "done", text |-> text, result |-> "translated"]]
  /\ out' \in {out, [out EXCEPT ![run.name[f]] = [by |-> f, text |-> text]]}

(* Repair, gates and frontmatter, then the memory, then the output file,   *)
(* which may be written in part.                                           *)
Finish(f, text) ==
  IF run.kind = "texts"
  THEN /\ item' = [item EXCEPT ![f] = [pc |-> "done", text |-> text, result |-> "translated"]]
       /\ UNCHANGED <<service, out>>
  ELSE /\ Remembered(f, text)
       /\ \E ok \in BOOLEAN :
            /\ item' = [item EXCEPT ![f] =
                 [pc |-> "done", text |-> text,
                  result |-> IF ok THEN "translated" ELSE "failed"]]
            /\ out' = [out EXCEPT ![run.name[f]] =
                 [by |-> f, text |-> IF ok THEN text ELSE "torn"]]

(* The first request returned.  With LQA on, the text is translated again. *)
Translated(f) ==
  /\ exit = None
  /\ item[f].pc = "translating"
  /\ IF run.lqa
     THEN /\ item' = [item EXCEPT ![f].pc = "retrying", ![f].text = "raw"]
          /\ UNCHANGED <<service, out>>
     ELSE Finish(f, "raw")
  /\ UNCHANGED <<disk, lock, run, interrupted, exit>>

(* execute_with_retry: the best of its own translations, the source when   *)
(* one of its requests failed, the first translation when it raised.       *)
Retried(f) ==
  /\ exit = None
  /\ item[f].pc = "retrying"
  /\ \E text \in {"best", "source", "raw"} : Finish(f, text)
  /\ UNCHANGED <<disk, lock, run, interrupted, exit>>

(* Ctrl+C: the handler sets the flag and the loop goes on.                 *)
Interrupt ==
  /\ exit = None /\ run.kind = "files"
  /\ interrupted' = TRUE
  /\ UNCHANGED <<tmVars, run, item, out, exit>>

Failed == {f \in Files : item[f].result \in {"failed", "queue_timeout"}}

(* gather returned: the exit code, or the answer.                          *)
Exit ==
  /\ exit = None
  /\ \A f \in Files : item[f].pc = "done"
  /\ exit' = IF interrupted THEN "interrupted"
             ELSE IF Failed # {} THEN "pipeline_error" ELSE "success"
  /\ UNCHANGED <<tmVars, run, item, out, interrupted>>

(* Another process, or the processor's own service when the interpreter    *)
(* exits.                                                                  *)
Memory ==
  /\ \/ \E s \in Services \ {Batch} :
          \/ Open(s) \/ Killed(s)
          \/ \E closing \in BOOLEAN : Flush(s, closing)
          \/ \E src \in Sources \ Files, p \in Pairs : Add(s, src, "raw", p)
     \/ exit # None /\ Flush(Batch, TRUE)
     \/ \E s \in Services : Lock(s) \/ Saves(s)
  /\ UNCHANGED batchVars

Works(f) == Begin(f) \/ Skip(f) \/ QueueTimeout(f) \/ Fail(f) \/ Translated(f) \/ Retried(f)

Next == Interrupt \/ Exit \/ Memory \/ \E f \in Files : Works(f)

Spec == Init /\ [][Next]_vars

(* The loop runs every coroutine that can go on, and every request to the  *)
(* pool ends.                                                              *)
FairSpec == Spec /\ TMFairness /\ WF_vars(Exit) /\ \A f \in Files : WF_vars(Works(f))

-----------------------------------------------------------------------------
(* A batch that reports success has a result for each of its files, and    *)
(* the output of each is in its place and whole; where two files of        *)
(* different directories have one name, the output of one of them is.      *)
SuccessIsWritten ==
  exit = "success" /\ run.kind = "files" =>
    \A f \in Files :
      /\ item[f].result \in {"translated", "skipped"}
      /\ out[run.name[f]] # None /\ out[run.name[f]].text # "torn"
      /\ run.name[out[run.name[f]].by] = run.name[f]
      /\ (\A g \in Files \ {f} : run.name[g] # run.name[f]) =>
           out[run.name[f]] = [by |-> f, text |-> IF item[f].result = "skipped"
                                                THEN "source" ELSE item[f].text]

(* What the processor put into the memory for a file is the text it made   *)
(* its output of, after every retry, and nothing is put in for a file that *)
(* was skipped or never got a slot.                                        *)
RemembersWhatShips ==
  service[Batch] # None =>
    \A i \in DOMAIN service[Batch].entries :
      LET e == service[Batch].entries[i]
      IN /\ item[e.source].result \in {"translated", "failed"}
         /\ e.target = item[e.source].text

(* A batch ends, whatever fails in it and whoever holds the memory's lock. *)
BatchEnds == <>(exit # None)

-----------------------------------------------------------------------------
(* The inductive invariant: a coroutine has its result when it is done;    *)
Results == {"translated", "skipped", "failed", "queue_timeout"}

ItemOK(f) ==
  /\ item[f].pc = "done" => item[f].result \in Results
  /\ run.kind = "files" /\ item[f].pc = "done" /\ item[f].result \in {"translated", "skipped"}
       => out[run.name[f]] # None

(* an output is that of a file with its name, which is done with it;       *)
Output(n) ==
  out[n] # None =>
    LET f == out[n].by IN
    /\ run.name[f] = n
    /\ item[f].pc = "done"
    /\ item[f].result = "translated" => out[n].text = item[f].text
    /\ item[f].result = "skipped" => out[n].text = "source"
    /\ out[n].text = "torn" => item[f].result = "failed"

(* and so is an entry of the batch's memory.                               *)
Entered(e) ==
  /\ e.source \in Files
  /\ item[e.source].pc = "done"
  /\ item[e.source].result \in {"translated", "failed"}
  /\ e.target = item[e.source].text

IInv ==
  /\ TMInv /\ TypeOK
  /\ \A f \in Files : ItemOK(f)
  /\ \A n \in Names : Output(n)
  /\ service[Batch] # None =>
       \A i \in DOMAIN service[Batch].entries : Entered(service[Batch].entries[i])
  /\ exit = "success" => Failed = {} /\ \A f \in Files : item[f].pc = "done"
=============================================================================
