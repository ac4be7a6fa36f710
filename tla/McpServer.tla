------------------------------ MODULE McpServer ------------------------------
(***************************************************************************)
(* The MCP server (ol_mcp): the dispatcher (tools.py), the token bucket    *)
(* (rate_limiter.py), the secret (auth.py), the tasks in the background    *)
(* (task_tracker.py, status.py), the tools that translate a text           *)
(* (translate_md.py), an XLIFF file (translate_xliff.py) and a document    *)
(* (translate_file.py), and their quality gates (gates.py).                *)
(*                                                                         *)
(* There is one event loop: what a handler or a background task does       *)
(* between two awaits is one step, and a document is translated by         *)
(* subprocess.run, which holds the loop until the process ends.            *)
(***************************************************************************)
EXTENDS Naturals, FiniteSets

CONSTANTS
  Calls,     \* the calls of translation tools; a task has its call's name
  Requests,  \* what a call may ask for
  Burst,     \* OMNI_RATE_LIMIT_BURST
  Refill,    \* tokens in one unit of the model's time; 0 disables the bucket
  MaxTime,   \* bound on the time
  MaxUnits,  \* units of an XLIFF file
  None

(* An XLIFF request or a document has a path it reads and a path it        *)
(* writes; the path written when none is given is fixed by the other.      *)
Shape == [tool : {"md", "xliff", "file"}, async : BOOLEAN, gates : BOOLEAN,
          polish : BOOLEAN, keep_temp : BOOLEAN, add_frontmatter : BOOLEAN,
          reads : STRING, writes : STRING]

ASSUME McpAssumption ==
  /\ Requests \subseteq Shape
  /\ \A r \in Requests : r.tool = "file" => ~r.async
  /\ \A r \in Requests : r.add_frontmatter => r.tool = "md"
  /\ Burst \in Nat \ {0} /\ Refill \in Nat /\ MaxTime \in Nat
  /\ MaxUnits \in Nat \ {0}
  /\ IsFiniteSet(Calls)
  /\ None \notin Calls /\ None \notin Requests
  /\ None \notin {"pending", "running", "completed", "failed", "not_found"}

VARIABLES
  now,       \* time.monotonic
  bucket,    \* the TokenBucket
  admitted,  \* calls and polls the bucket let through up to each time
  request,   \* what each call asked for
  job,       \* the coroutine that works on the call
  reply,     \* what the client of the call was told
  tasks,     \* the tracker: the status of each task, None where it has none
  polled,    \* the last status a client was given for the task
  files,     \* the last call that wrote each path
  loop,      \* the call whose subprocess holds the event loop
  temp,      \* calls whose temporary directory exists
  counted,   \* OL_TRANSLATIONS_TOTAL
  restarted

vars == <<now, bucket, admitted, request, job, reply, tasks, polled, files,
          loop, temp, counted, restarted>>

Paths == {r.reads : r \in Requests} \cup {r.writes : r \in Requests}
Texts == {"none", "translated", "polished"}
Gates == {"ran", "not_run", "skipped", "none"}
Live == {"pending", "running"}
Final == {"completed", "failed"}
Replies == {"none", "rate_limited", "auth_failed", "invalid", "error",
            "accepted", "success", "lost"}

(* gated is the text that the quality gates looked at; an answer is the    *)
(* text of its job, behind generated frontmatter or alone.                 *)
Jobs == [pc : {"idle", "scheduled", "translating", "polishing", "opp", "ol",
               "orf", "ended"},
         done : 0 .. MaxUnits, text : Texts, gates : Gates, gated : Texts,
         frontmatter : BOOLEAN]
Idle == [pc |-> "idle", done |-> 0, text |-> "none", gates |-> "none",
         gated |-> "none", frontmatter |-> FALSE]

TypeOK ==
  /\ now \in 0 .. MaxTime
  /\ bucket \in [tokens : 0 .. Burst, last_refill : 0 .. now]
  /\ admitted \in [0 .. MaxTime -> Nat]
  /\ request \in [Calls -> Requests \cup {None}]
  /\ job \in [Calls -> Jobs]
  /\ reply \in [Calls -> Replies]
  /\ tasks \in [Calls -> Live \cup Final \cup {None}]
  /\ polled \in [Calls -> Live \cup Final \cup {"not_found", None}]
  /\ files \in [Paths -> Calls \cup {None}]
  /\ loop \in Calls \cup {None}
  /\ temp \subseteq Calls
  /\ counted \in 0 .. Cardinality(Calls)
  /\ restarted \in BOOLEAN

Init ==
  /\ now = 0
  /\ bucket = [tokens |-> Burst, last_refill |-> 0]
  /\ admitted = [t \in 0 .. MaxTime |-> 0]
  /\ request = [c \in Calls |-> None]
  /\ job = [c \in Calls |-> Idle]
  /\ reply = [c \in Calls |-> "none"]
  /\ tasks = [c \in Calls |-> None]
  /\ polled = [c \in Calls |-> None]
  /\ files = [p \in Paths |-> None]
  /\ loop = None
  /\ temp = {}
  /\ counted = 0
  /\ restarted = FALSE

Limiter == <<bucket, admitted>>
Client == <<reply, counted>>

-----------------------------------------------------------------------------
(* Mutation of Refilled: the bucket has no limit while nobody calls. *)
Refilled_Unlimited == bucket.tokens + (now - bucket.last_refill) * Refill

(* TokenBucket._refill                                                     *)
Refilled ==
  LET more == bucket.tokens + (now - bucket.last_refill) * Refill
  IN IF more < Burst THEN more ELSE Burst

(* TokenBucket.consume                                                     *)
Admit ==
  /\ \/ Refill = 0 /\ UNCHANGED bucket
     \/ /\ Refill > 0 /\ Refilled >= 1
        /\ bucket' = [tokens |-> Refilled - 1, last_refill |-> now]
  /\ admitted' = [t \in 0 .. MaxTime |-> admitted[t] + (IF t >= now THEN 1 ELSE 0)]

RateLimited ==
  /\ Refill > 0 /\ Refilled < 1
  /\ bucket' = [tokens |-> Refilled, last_refill |-> now]
  /\ UNCHANGED admitted

Tick ==
  /\ now < MaxTime
  /\ now' = now + 1
  /\ UNCHANGED <<Limiter, Client, request, job, tasks, polled, files, loop,
                 temp, restarted>>

-----------------------------------------------------------------------------
(* What the gates of the request make of a text: skipped when the caller   *)
(* said so, not run when the configuration does not load or a gate raises. *)
Gated(r, text) ==
  IF r.gates THEN {[gates |-> "ran", gated |-> text], [gates |-> "not_run", gated |-> "none"]}
             ELSE {[gates |-> "skipped", gated |-> "none"]}

(* Mutation of TaskEnds: the task of a job that raised keeps its status. *)
TaskEnds_Silent(c, status) ==
  IF tasks[c] \in Live /\ status = "completed" THEN [tasks EXCEPT ![c] = status] ELSE tasks

(* TaskTracker.update_progress, which ignores a task it does not have.     *)
TaskEnds(c, status) ==
  IF tasks[c] # None THEN [tasks EXCEPT ![c] = status] ELSE tasks

(* The dispatcher counts a translation for each answer that is a success.  *)
Answer(c, r, told) ==
  /\ reply' = [reply EXCEPT ![c] = told]
  /\ counted' = counted + (IF told \in {"accepted", "success"} /\ r.tool # "file"
                           THEN 1 ELSE 0)

(* The coroutine is over: a task has its status, a caller who waits is     *)
(* answered.                                                               *)
Ends(c, j, ok) ==
  /\ job' = [job EXCEPT ![c] = [j EXCEPT !.pc = "ended"]]
  /\ tasks' = TaskEnds(c, IF ok THEN "completed" ELSE "failed")
  /\ IF request[c].async THEN UNCHANGED Client
                         ELSE Answer(c, request[c], IF ok THEN "success" ELSE "error")

(* add_frontmatter: the last thing done to an answer, behind the gates.    *)
Headed(c, j) == [j EXCEPT !.frontmatter = request[c].add_frontmatter]

(* Mutation of Succeeds: the task is complete before the file is written. *)
Succeeds_Early(c, j) ==
  /\ Ends(c, Headed(c, j), TRUE)
  /\ UNCHANGED files

(* write_target_back comes first, then the answer.                         *)
Succeeds(c, j) ==
  /\ Ends(c, Headed(c, j), TRUE)
  /\ files' = IF request[c].tool = "md" THEN files
              ELSE [files EXCEPT ![request[c].writes] = c]

-----------------------------------------------------------------------------
(* A call that the dispatcher or the tool turns away.                      *)
Refused(c, r) ==
  /\ loop = None
  /\ request[c] = None
  /\ request' = [request EXCEPT ![c] = r]
  /\ \/ Answer(c, r, "invalid") /\ UNCHANGED Limiter
     \/ Answer(c, r, "rate_limited") /\ RateLimited
     \/ Answer(c, r, "auth_failed") /\ Admit
     \/ Answer(c, r, "error") /\ Admit /\ ~r.async
  /\ UNCHANGED <<now, job, tasks, polled, files, loop, temp, restarted>>

(* Mutation of Accepted: the coroutine is started and the task forgotten. *)
Accepted_Untracked(c, r) ==
  /\ loop = None /\ request[c] = None /\ r.async
  /\ Admit
  /\ request' = [request EXCEPT ![c] = r]
  /\ job' = [job EXCEPT ![c].pc = "scheduled"]
  /\ Answer(c, r, "accepted")
  /\ UNCHANGED <<now, tasks, polled, files, loop, temp, restarted>>

(* async_mode: the task is in the tracker before its name is given away.   *)
Accepted(c, r) ==
  /\ loop = None /\ request[c] = None /\ r.async
  /\ Admit
  /\ request' = [request EXCEPT ![c] = r]
  /\ tasks' = [tasks EXCEPT ![c] = "pending"]
  /\ job' = [job EXCEPT ![c].pc = "scheduled"]
  /\ Answer(c, r, "accepted")
  /\ UNCHANGED <<now, polled, files, loop, temp, restarted>>

(* A call whose client waits: the handler runs to its first await, or      *)
(* takes the loop and a temporary directory with it.                       *)
Waits(c, r) ==
  /\ loop = None /\ request[c] = None /\ ~r.async
  /\ Admit
  /\ request' = [request EXCEPT ![c] = r]
  /\ job' = [job EXCEPT ![c].pc = IF r.tool = "file" THEN "opp" ELSE "translating"]
  /\ loop' = IF r.tool = "file" THEN c ELSE None
  /\ temp' = IF r.tool = "file" THEN temp \cup {c} ELSE temp
  /\ UNCHANGED <<now, Client, tasks, polled, files, restarted>>

(* The background coroutine runs to its first await.                       *)
Starts(c) ==
  /\ loop = None
  /\ job[c].pc = "scheduled"
  /\ job' = [job EXCEPT ![c].pc = "translating"]
  /\ tasks' = TaskEnds(c, "running")
  /\ UNCHANGED <<now, Limiter, Client, request, polled, files, loop, temp, restarted>>

(* A request to the pool raised, or another step: a path is refused, the   *)
(* file does not parse or is empty, the output cannot be written.          *)
Raises(c) ==
  /\ loop = None
  /\ job[c].pc \in {"translating", "polishing"}
  /\ Ends(c, job[c], FALSE)
  /\ UNCHANGED <<now, Limiter, request, polled, files, loop, temp, restarted>>

(* A unit of an XLIFF file that is not the last was translated.            *)
UnitTranslated(c) ==
  /\ loop = None
  /\ job[c].pc = "translating"
  /\ request[c].tool = "xliff"
  /\ job[c].done + 1 < MaxUnits
  /\ job' = [job EXCEPT ![c].done = @ + 1]
  /\ UNCHANGED <<now, Limiter, Client, request, tasks, polled, files, loop, temp, restarted>>

(* Mutation of GatedBefore: the gates of a text run before it is polished. *)
GatedBefore_Always(r) == TRUE

(* The gates of an XLIFF file run before the polish pass.                  *)
GatedBefore(r) == r.tool = "xliff" \/ ~r.polish

(* The last or only request returned.                                      *)
Translated(c) ==
  /\ loop = None
  /\ job[c].pc = "translating"
  /\ \E g \in IF GatedBefore(request[c]) THEN Gated(request[c], "translated")
              ELSE {[gates |-> "none", gated |-> "none"]} :
       LET j == [job[c] EXCEPT !.text = "translated", !.gates = g.gates, !.gated = g.gated]
       IN IF request[c].polish
          THEN /\ job' = [job EXCEPT ![c] = [j EXCEPT !.pc = "polishing"]]
               /\ UNCHANGED <<Client, tasks, files>>
          ELSE Succeeds(c, j)
  /\ UNCHANGED <<now, Limiter, request, polled, loop, temp, restarted>>

(* The polish pass returned, which changes the text or leaves it.          *)
Polished(c) ==
  /\ loop = None
  /\ job[c].pc = "polishing"
  /\ \E text \in {"translated", "polished"} :
       \E g \in IF GatedBefore(request[c])
                THEN {[gates |-> job[c].gates, gated |-> job[c].gated]}
                ELSE Gated(request[c], text) :
         Succeeds(c, [job[c] EXCEPT !.text = text, !.gates = g.gates, !.gated = g.gated])
  /\ UNCHANGED <<now, Limiter, request, polled, loop, temp, restarted>>

-----------------------------------------------------------------------------
(* A subprocess of translate_file ended: the next one begins, the document *)
(* is there, or an exit code, the timeout or a missing file ends the call. *)
(* No branch removes the temporary directory: the finally block is empty.  *)
Process(c) ==
  /\ loop = c
  /\ \/ /\ job[c].pc \in {"opp", "ol"}
        /\ job' = [job EXCEPT ![c].pc = IF @ = "opp" THEN "ol" ELSE "orf"]
        /\ UNCHANGED <<loop, Client, tasks, files>>
     \/ /\ job[c].pc = "orf"
        /\ Succeeds(c, [job[c] EXCEPT !.text = "translated"])
        /\ loop' = None
     \/ /\ Ends(c, job[c], FALSE)
        /\ loop' = None
        /\ UNCHANGED files
  /\ UNCHANGED <<now, Limiter, request, polled, temp, restarted>>

(* get_translation_status, for a call whose client was given its name.     *)
Poll(c) ==
  /\ loop = None
  /\ reply[c] = "accepted"
  /\ Admit
  /\ polled' = [polled EXCEPT ![c] = IF tasks[c] = None THEN "not_found" ELSE tasks[c]]
  /\ UNCHANGED <<now, Client, request, job, tasks, files, loop, temp, restarted>>

(* The process ends and is started again: the tracker, the coroutines, the *)
(* bucket and the counter are new, and the callers who waited have no      *)
(* answer.                                                                 *)
Restart ==
  /\ ~restarted
  /\ restarted' = TRUE
  /\ bucket' = [tokens |-> Burst, last_refill |-> now]
  /\ admitted' = [t \in 0 .. MaxTime |-> 0]
  /\ tasks' = [c \in Calls |-> None]
  /\ job' = [c \in Calls |-> IF job[c].pc = "idle" THEN Idle ELSE [job[c] EXCEPT !.pc = "ended"]]
  /\ reply' = [c \in Calls |->
       IF request[c] # None /\ reply[c] = "none" THEN "lost" ELSE reply[c]]
  /\ loop' = None
  /\ counted' = 0
  /\ UNCHANGED <<now, request, polled, files, temp>>

Works(c) == Starts(c) \/ Raises(c) \/ UnitTranslated(c) \/ Translated(c) \/ Polished(c)

Next ==
  \/ Tick
  \/ Restart
  \/ \E c \in Calls :
       \/ \E r \in Requests : Refused(c, r) \/ Accepted(c, r) \/ Waits(c, r)
       \/ Works(c) \/ Process(c) \/ Poll(c)

Spec == Init /\ [][Next]_vars

(* A request to the pool and a subprocess have a timeout, and the loop     *)
(* runs every coroutine that can go on.                                    *)
FairSpec == Spec /\ \A c \in Calls : WF_vars(Works(c)) /\ WF_vars(Process(c))
-----------------------------------------------------------------------------
(* What was let through before t, if a is what was up to each time; and    *)
(* that spare more would be within the budget of each span that ends at j: *)
(* a full bucket, and the refill of the span.                              *)
Before(a, t) == IF t = 0 THEN 0 ELSE a[t - 1]

Within(a, j, spare) ==
  \A i \in 0 .. MaxTime : i <= j => a[j] + spare <= Before(a, i) + Burst + (j - i) * Refill

(* However calls and polls are spread over time, and however long nobody   *)
(* called before, no span of time sees more of them let through than its   *)
(* budget.                                                                 *)
AdmittedWithinBudget == Refill > 0 => \A j \in 0 .. MaxTime : Within(admitted, j, 0)

(* A client that polls for a task it was given is told that the task does  *)
(* not exist only when the server was restarted in between.                *)
NotFoundOnlyAfterRestart ==
  \A c \in Calls : polled[c] = "not_found" => restarted

(* A call or task that reports success on a file has written the path it   *)
(* names, whatever other calls and restarts came in between, or another    *)
(* call has.  Of a document this takes orf at its word: its exit code 0 is *)
(* a file (translate_file.py does not look for it).                        *)
CompletedIsWritten ==
  \A c \in Calls :
    /\ reply[c] = "success" \/ tasks[c] = "completed"
    /\ request[c].tool # "md"
    => files[request[c].writes] # None

(* "quality_gates": "ran" in a successful answer means that the gates read *)
(* all of its text but the frontmatter, which is in front of it exactly    *)
(* when the caller asked for it.  The one exception is an XLIFF file that  *)
(* is polished, which is polished after them.                              *)
GatesSawWhatShips ==
  \A c \in Calls :
    /\ reply[c] = "success" \/ tasks[c] = "completed"
    /\ request[c].tool = "md" \/ (request[c].tool = "xliff" /\ ~request[c].polish)
    => /\ job[c].gates = "ran" => job[c].gated = job[c].text
       /\ job[c].gates = "skipped" <=> ~request[c].gates
       /\ job[c].frontmatter <=> request[c].add_frontmatter

(* A task that was accepted completes or fails, and a client who waits is  *)
(* answered, also when a document holds the event loop for a while: only a *)
(* restart of the server keeps an outcome from them.                       *)
EveryCallEnds ==
  \A c \in Calls :
    /\ tasks[c] = "pending" ~> tasks[c] \in Final \cup {None}
    /\ request[c] # None /\ reply[c] = "none" ~> reply[c] # "none"

-----------------------------------------------------------------------------
(* The inductive invariant.  What the bucket has now could still be let    *)
(* through within the budget;                                              *)
BucketOK ==
  /\ \A t \in 0 .. MaxTime : t >= now => admitted[t] = admitted[now]
  /\ Refill > 0 => Within(admitted, now, Refilled)

(* the counter is that of the good answers;                                *)
Answered == {c \in Calls : reply[c] \in {"accepted", "success"}}

(* where a coroutine is says what its call asked for and was told.         *)
CallOK(c) ==
  /\ request[c] = None => job[c].pc = "idle" /\ reply[c] = "none" /\ tasks[c] = None
  /\ job[c].pc \in {"opp", "ol", "orf"} <=> loop = c
  /\ job[c].pc = "scheduled" => request[c].async
  /\ job[c].pc \in {"scheduled", "translating", "polishing"} => request[c].tool # "file"
  /\ job[c].pc \in {"opp", "ol", "orf"} => request[c].tool = "file" /\ ~request[c].async
  /\ job[c].pc = "polishing" => request[c].polish
  /\ job[c].pc \notin {"idle", "ended"} /\ ~request[c].async => reply[c] = "none"
  /\ reply[c] = "success" \/ tasks[c] \in Final => job[c].pc = "ended"
  /\ reply[c] = "accepted" /\ ~restarted => tasks[c] # None

IInv ==
  /\ TypeOK
  /\ BucketOK /\ AdmittedWithinBudget
  /\ counted <= Cardinality(Answered)
  /\ \A c \in Calls : CallOK(c)
  /\ NotFoundOnlyAfterRestart /\ CompletedIsWritten /\ GatesSawWhatShips
=============================================================================
