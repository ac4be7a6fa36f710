--------------------------- MODULE McpServerProofs ---------------------------
(***************************************************************************)
(* Proofs about McpServer for any number of calls, any set of requests,    *)
(* any size and refill of the bucket and any length of time, with a        *)
(* restart of the server at any point.                                     *)
(***************************************************************************)
EXTENDS McpServer, FiniteSetTheorems, TLAPS

(* Arithmetic of the refill of a span.                                     *)
LEMMA Spans ==
  ASSUME NEW a \in Nat, NEW b \in Nat, NEW i \in Nat, a <= b, i <= a, NEW r \in Nat
  PROVE  /\ (a - i) * r \in Nat
         /\ (a - i) * r <= (b - i) * r
         /\ ((a + 1) - i) * r = (a - i) * r + r
<1>. DEFINE m == a - i
            k == b - a
<1>1. m \in Nat /\ k \in Nat /\ b - i = m + k /\ (a + 1) - i = m + 1
  OBVIOUS
<1>. HIDE DEF m, k
<1>2. m * r \in Nat /\ k * r \in Nat /\ (m + k) * r = m * r + k * r /\ (m + 1) * r = m * r + r
  BY <1>1
<1>3. m * r <= (m + k) * r
  BY <1>2
<1>. QED  BY <1>1, <1>2, <1>3 DEF m

LEMMA Constants ==
  /\ Burst \in Nat /\ Burst >= 1 /\ Refill \in Nat /\ MaxTime \in Nat
BY McpAssumption

(* What the bucket has now.                                                *)
LEMMA RefilledType ==
  ASSUME TypeOK
  PROVE  /\ now \in Nat /\ now <= MaxTime /\ bucket.tokens \in Nat /\ bucket.last_refill \in Nat
         /\ bucket.last_refill <= now /\ bucket.tokens <= Burst
         /\ Refilled \in Nat /\ Refilled <= Burst
         /\ admitted \in [0 .. MaxTime -> Nat]
<1>1. now \in Nat /\ now <= MaxTime /\ bucket.tokens \in Nat /\ bucket.last_refill \in Nat
      /\ bucket.last_refill <= now /\ bucket.tokens <= Burst /\ admitted \in [0 .. MaxTime -> Nat]
  BY Constants DEF TypeOK
<1>2. (now - bucket.last_refill) * Refill \in Nat
  BY <1>1, Constants, Spans
<1>. DEFINE more == bucket.tokens + (now - bucket.last_refill) * Refill
<1>3. more \in Nat
  BY <1>1, <1>2
<1>4. Refilled = IF more < Burst THEN more ELSE Burst
  BY DEF Refilled
<1>. HIDE DEF more
<1>. QED  BY <1>1, <1>3, <1>4, Constants

LEMMA BeforeType ==
  ASSUME NEW a \in [0 .. MaxTime -> Nat], NEW t \in 0 .. MaxTime
  PROVE  Before(a, t) \in Nat
<1>1. CASE t = 0
  BY <1>1 DEF Before
<1>2. CASE t # 0
  <2>1. t - 1 \in 0 .. MaxTime
    BY <1>2, Constants
  <2>. QED  BY <1>2, <2>1 DEF Before
<1>. QED  BY <1>1, <1>2

(* The budget of every span follows from that of the spans that end at n,  *)
(* after which nothing was let through, and that of the earlier ones.      *)
LEMMA SpansFromNow ==
  ASSUME NEW a \in [0 .. MaxTime -> Nat], NEW n \in 0 .. MaxTime, NEW spare \in Nat,
         \A t \in 0 .. MaxTime : t >= n => a[t] = a[n],
         Within(a, n, spare),
         \A j \in 0 .. MaxTime : j < n => Within(a, j, 0)
  PROVE  \A j \in 0 .. MaxTime : Within(a, j, 0)
<1>. SUFFICES ASSUME NEW i \in 0 .. MaxTime, NEW j \in 0 .. MaxTime, i <= j, j >= n
              PROVE  a[j] + 0 <= Before(a, i) + Burst + (j - i) * Refill
  BY Constants DEF Within
<1>. DEFINE span == (j - i) * Refill
            before == Before(a, i)
<1>1. /\ i \in Nat /\ j \in Nat /\ n \in Nat
      /\ before \in Nat /\ a[j] \in Nat /\ a[n] \in Nat /\ span \in Nat
  BY BeforeType, Constants, Spans
<1>2. a[j] = a[n]
  OBVIOUS
<1>3. CASE i <= n
  <2>. DEFINE shorter == (n - i) * Refill
  <2>1. a[n] + spare <= before + Burst + shorter
    BY <1>3 DEF Within
  <2>2. shorter \in Nat /\ shorter <= span
    BY <1>1, <1>3, Constants, Spans
  <2>. HIDE DEF shorter, span, before
  <2>3. a[j] + 0 <= before + Burst + span
    BY <1>1, <1>2, <2>1, <2>2, Constants
  <2>. QED  BY <2>3 DEF span, before
<1>4. CASE i > n
  <2>1. i - 1 \in 0 .. MaxTime /\ i - 1 >= n /\ i # 0
    BY <1>1, <1>4, Constants
  <2>2. before = a[n]
    BY <2>1 DEF Before
  <2>. HIDE DEF span, before
  <2>3. a[j] + 0 <= before + Burst + span
    BY <1>1, <1>2, <2>2, Constants
  <2>. QED  BY <2>3 DEF span, before
<1>. QED  BY <1>1, <1>3, <1>4

(* The bucket and what it has let through.                                 *)
Metered == BucketOK /\ AdmittedWithinBudget

(* The variables of the meter keep their types, and it stays in budget.    *)
MeterTyped ==
  /\ now \in 0 .. MaxTime
  /\ bucket \in [tokens : 0 .. Burst, last_refill : 0 .. now]
  /\ admitted \in [0 .. MaxTime -> Nat]

(* A bucket that was refilled a moment ago.                                *)
LEMMA JustRefilled ==
  ASSUME TypeOK, now' = now, NEW n \in 0 .. Burst,
         bucket' = [tokens |-> n, last_refill |-> now]
  PROVE  Refilled' = n /\ bucket' \in [tokens : 0 .. Burst, last_refill : 0 .. now']
<1>1. n \in Nat /\ n <= Burst /\ now \in Nat
  BY Constants, RefilledType
<1>2. (now - now) * Refill = 0
  BY <1>1, Constants
<1>3. n + (now' - bucket'.last_refill) * Refill = n
  BY <1>1, <1>2
<1>. DEFINE more == bucket'.tokens + (now' - bucket'.last_refill) * Refill
<1>4. more = n
  BY <1>3
<1>5. Refilled' = IF more < Burst THEN more ELSE Burst
  BY DEF Refilled
<1>. HIDE DEF more
<1>6. Refilled' = n
  BY <1>1, <1>4, <1>5, Constants
<1>7. bucket' \in [tokens : 0 .. Burst, last_refill : 0 .. now']
  BY <1>1
<1>. QED  BY <1>6, <1>7

LEMMA AdmitMetered ==
  ASSUME TypeOK, Metered, now' = now, Admit
  PROVE  MeterTyped' /\ Metered'
<1>1. admitted' = [t \in 0 .. MaxTime |-> admitted[t] + (IF t >= now THEN 1 ELSE 0)]
  BY DEF Admit
<1>2. /\ admitted' \in [0 .. MaxTime -> Nat]
      /\ now \in 0 .. MaxTime /\ now \in Nat /\ admitted[now] \in Nat
      /\ \A t \in 0 .. MaxTime : t >= now => admitted'[t] = admitted[t] + 1
      /\ \A t \in 0 .. MaxTime : t < now => admitted'[t] = admitted[t]
  <2>1. MaxTime \in Nat /\ now \in 0 .. MaxTime /\ now \in Nat
    BY RefilledType, Constants
  <2>2. admitted \in [0 .. MaxTime -> Nat]
    BY RefilledType
  <2>3. \A t \in 0 .. MaxTime : admitted[t] \in Nat /\ t \in Nat
    BY <2>1, <2>2
  <2>4. \A t \in 0 .. MaxTime : admitted'[t] = IF t >= now THEN admitted[t] + 1 ELSE admitted[t]
    BY <1>1, <2>3
  <2>5. admitted' \in [0 .. MaxTime -> Nat]
    BY <1>1, <2>3
  <2>6. \A t \in 0 .. MaxTime : t < now => ~ (t >= now)
    BY <2>1
  <2>. QED  BY <2>1, <2>3, <2>4, <2>5, <2>6, Zenon
<1>3. \A t \in 0 .. MaxTime : t >= now => admitted'[t] = admitted'[now]
  BY <1>2 DEF Metered, BucketOK, AdmittedWithinBudget
<1>4. \A i \in 0 .. MaxTime : i <= now => Before(admitted', i) = Before(admitted, i)
  <2>. SUFFICES ASSUME NEW i \in 0 .. MaxTime, i <= now, i # 0
                PROVE  admitted'[i - 1] = admitted[i - 1]
    BY DEF Before
  <2>1. i - 1 \in 0 .. MaxTime /\ i - 1 < now
    BY <1>2, Constants
  <2>. QED  BY <1>2, <2>1
<1>5. CASE Refill = 0 /\ UNCHANGED bucket
  BY <1>2, <1>3, <1>5 DEF TypeOK, MeterTyped, Metered, BucketOK, AdmittedWithinBudget
<1>6. CASE Refill > 0 /\ Refilled >= 1 /\ bucket' = [tokens |-> Refilled - 1, last_refill |-> now]
  <2>1. Refilled \in Nat /\ Refilled - 1 \in 0 .. Burst
    BY <1>6, RefilledType, Constants
  <2>2. Refilled' = Refilled - 1 /\ MeterTyped'
    BY <1>2, <1>6, <2>1, JustRefilled DEF MeterTyped
  <2>3. Within(admitted', now, Refilled - 1)
    <3>. SUFFICES ASSUME NEW i \in 0 .. MaxTime, i <= now
                  PROVE  admitted'[now] + (Refilled - 1)
                           <= Before(admitted', i) + Burst + (now - i) * Refill
      BY DEF Within
    <3>1. admitted[now] + Refilled <= Before(admitted, i) + Burst + (now - i) * Refill
      BY <1>6 DEF Metered, BucketOK, Within
    <3>2. Before(admitted', i) = Before(admitted, i)
          /\ admitted'[now] + (Refilled - 1) = admitted[now] + Refilled
      BY <1>2, <1>4, <2>1
    <3>. QED  BY <3>1, <3>2
  <2>4. ASSUME NEW j \in 0 .. MaxTime, j < now
        PROVE  Within(admitted', j, 0)
    <3>1. \A i \in 0 .. MaxTime : i <= j => i <= now
      BY <1>2, <2>4, Constants
    <3>2. Within(admitted, j, 0) /\ admitted'[j] = admitted[j]
      BY <1>2, <1>6, <2>4 DEF Metered, BucketOK, AdmittedWithinBudget
    <3>. QED  BY <1>4, <3>1, <3>2 DEF Within
  <2>5. \A j \in 0 .. MaxTime : Within(admitted', j, 0)
    <3>. DEFINE a == admitted'
                spare == Refilled - 1
    <3>1. /\ a \in [0 .. MaxTime -> Nat] /\ spare \in Nat
          /\ \A t \in 0 .. MaxTime : t >= now => a[t] = a[now]
      BY <1>2, <1>3, <2>1, Constants
    <3>2. Within(a, now, spare) /\ \A j \in 0 .. MaxTime : j < now => Within(a, j, 0)
      BY <2>3, <2>4
    <3>. HIDE DEF a, spare
    <3>3. \A j \in 0 .. MaxTime : Within(a, j, 0)
      BY <1>2, <3>1, <3>2, SpansFromNow
    <3>. QED  BY <3>3 DEF a
  <2>. QED  BY <1>3, <2>2, <2>3, <2>5 DEF Metered, BucketOK, AdmittedWithinBudget
<1>. QED  BY <1>5, <1>6 DEF Admit

(* A call that is turned away leaves the bucket refilled, and no more.     *)
LEMMA LimitedMetered ==
  ASSUME TypeOK, Metered, now' = now, RateLimited
  PROVE  MeterTyped' /\ Metered'
<1>1. Refilled \in 0 .. Burst /\ bucket' = [tokens |-> Refilled, last_refill |-> now] /\ admitted' = admitted
  BY RefilledType, Constants DEF RateLimited
<1>2. Refilled' = Refilled /\ MeterTyped'
  BY <1>1, JustRefilled DEF TypeOK, MeterTyped
<1>. QED  BY <1>1, <1>2 DEF Metered, BucketOK, AdmittedWithinBudget

LEMMA SameMeter ==
  ASSUME TypeOK, Metered, UNCHANGED <<now, bucket, admitted>>
  PROVE  MeterTyped' /\ Metered'
<1>1. Refilled' = Refilled
  BY DEF Refilled
<1>. QED  BY <1>1 DEF TypeOK, MeterTyped, Metered, BucketOK, AdmittedWithinBudget

(* One unit of time: the bucket gets no more than Refill, and no more than *)
(* it holds.                                                               *)
LEMMA TickMetered ==
  ASSUME TypeOK, Metered, Tick
  PROVE  MeterTyped' /\ Metered'
<1>1. now < MaxTime /\ now' = now + 1 /\ UNCHANGED <<bucket, admitted>>
  BY DEF Tick, Limiter
<1>2. /\ now \in Nat /\ now + 1 \in 0 .. MaxTime /\ admitted \in [0 .. MaxTime -> Nat]
      /\ bucket.tokens \in Nat /\ bucket.last_refill \in Nat /\ bucket.last_refill <= now
      /\ Refilled \in Nat
  BY <1>1, RefilledType, Constants
<1>3. MeterTyped'
  <2>1. 0 .. now \subseteq 0 .. (now + 1)
    BY <1>2
  <2>. QED  BY <1>1, <1>2, <2>1 DEF TypeOK, MeterTyped
<1>4. Refilled' \in Nat /\ Refilled' <= Refilled + Refill /\ Refilled' <= Burst
  <2>. DEFINE grown == (now - bucket.last_refill) * Refill
              later == ((now + 1) - bucket.last_refill) * Refill
  <2>1. grown \in Nat /\ later = grown + Refill
    <3>1. Refill \in Nat /\ now <= now
      BY <1>2, Constants
    <3>2. bucket.last_refill \in Nat /\ bucket.last_refill <= now /\ now \in Nat
      BY <1>2
    <3>. QED  BY <3>1, <3>2, Spans
  <2>2. Refilled = IF bucket.tokens + grown < Burst THEN bucket.tokens + grown ELSE Burst
    BY DEF Refilled
  <2>3. Refilled' = IF bucket.tokens + later < Burst THEN bucket.tokens + later ELSE Burst
    BY <1>1 DEF Refilled
  <2>4. later \in Nat
    BY <2>1, Constants
  <2>. HIDE DEF grown, later
  <2>5. Refilled' \in Nat /\ Refilled' <= Burst
    BY <1>2, <2>3, <2>4, Constants
  <2>6. Refilled' <= Refilled + Refill
    <3>1. CASE bucket.tokens + grown < Burst
      BY <1>2, <2>1, <2>2, <2>3, <2>4, <3>1, Constants
    <3>2. CASE ~(bucket.tokens + grown < Burst)
      BY <1>2, <2>2, <2>5, <3>2, Constants
    <3>. QED  BY <3>1, <3>2
  <2>. QED  BY <2>5, <2>6
<1>5. \A t \in 0 .. MaxTime : t >= now + 1 => admitted[t] = admitted[now + 1]
  BY <1>2, RefilledType DEF Metered, BucketOK, AdmittedWithinBudget
<1>6. ASSUME Refill > 0
      PROVE  Within(admitted, now + 1, Refilled')
  <2>. SUFFICES ASSUME NEW i \in 0 .. MaxTime, i <= now + 1
                PROVE  admitted[now + 1] + Refilled'
                         <= Before(admitted, i) + Burst + ((now + 1) - i) * Refill
    BY DEF Within
  <2>1. admitted[now + 1] = admitted[now] /\ admitted[now] \in Nat /\ now \in 0 .. MaxTime
    BY <1>2, RefilledType, Constants DEF Metered, BucketOK, AdmittedWithinBudget
  <2>2. CASE i <= now
    <3>. DEFINE span == (now - i) * Refill
                longer == ((now + 1) - i) * Refill
                before == Before(admitted, i)
    <3>1. admitted[now] + Refilled <= before + Burst + span
      BY <1>6, <2>2 DEF Metered, BucketOK, Within
    <3>2. span \in Nat /\ longer = span + Refill
      BY <1>2, <2>2, Constants, Spans
    <3>3. before \in Nat
      BY <1>2, BeforeType
    <3>. HIDE DEF span, longer, before
    <3>4. admitted[now + 1] + Refilled' <= before + Burst + longer
      BY <1>2, <1>4, <2>1, <3>1, <3>2, <3>3, Constants
    <3>. QED  BY <3>4 DEF longer, before
  <2>3. CASE i = now + 1
    <3>1. Before(admitted, i) = admitted[now]
      BY <1>2, <2>3 DEF Before
    <3>2. ((now + 1) - i) * Refill = 0
      BY <1>2, <2>3, Constants
    <3>3. admitted[now + 1] + Refilled' <= Before(admitted, i) + Burst + 0
      BY <1>4, <2>1, <3>1, Constants
    <3>. QED  BY <3>2, <3>3
  <2>4. i <= now \/ i = now + 1
    BY <1>2, Constants
  <2>. QED  BY <2>2, <2>3, <2>4
<1>. QED  BY <1>1, <1>3, <1>5, <1>6 DEF Metered, BucketOK, AdmittedWithinBudget

LEMMA RestartMetered ==
  ASSUME TypeOK, Restart
  PROVE  MeterTyped' /\ Metered'
<1>1. /\ now' = now /\ bucket' = [tokens |-> Burst, last_refill |-> now]
      /\ admitted' = [t \in 0 .. MaxTime |-> 0]
      /\ now \in 0 .. MaxTime /\ now \in Nat
  BY RefilledType, Constants DEF Restart
<1>2. Refilled' = Burst /\ MeterTyped'
  BY <1>1, Constants, JustRefilled DEF MeterTyped
<1>3. ASSUME NEW spare \in {0, Burst}, NEW j \in 0 .. MaxTime
      PROVE  Within(admitted', j, spare)
  <2>. SUFFICES ASSUME NEW i \in 0 .. MaxTime, i <= j
                PROVE  admitted'[j] + spare <= Before(admitted', i) + Burst + (j - i) * Refill
    BY DEF Within
  <2>. DEFINE span == (j - i) * Refill
  <2>1. Before(admitted', i) \in Nat /\ admitted'[j] = 0 /\ span \in Nat
    BY <1>1, <1>2, BeforeType, Constants, Spans DEF MeterTyped
  <2>. HIDE DEF span
  <2>2. admitted'[j] + spare <= Before(admitted', i) + Burst + span
    BY <2>1, Constants
  <2>. QED  BY <2>2 DEF span
<1>. QED  BY <1>1, <1>2, <1>3 DEF Metered, BucketOK, AdmittedWithinBudget

-----------------------------------------------------------------------------
(* The calls.  What the properties say of one call c.                      *)
Done(c) == reply[c] = "success" \/ tasks[c] = "completed"

Shipped(c) ==
  /\ polled[c] = "not_found" => restarted
  /\ Done(c) /\ request[c].tool # "md" => files[request[c].writes] # None
  /\ Done(c) /\ (request[c].tool = "md" \/ (request[c].tool = "xliff" /\ ~request[c].polish)) =>
       /\ job[c].gates = "ran" => job[c].gated = job[c].text
       /\ job[c].gates = "skipped" <=> ~request[c].gates
       /\ job[c].frontmatter <=> request[c].add_frontmatter

LEMMA ShippedIs ==
  (\A c \in Calls : Shipped(c)) <=> NotFoundOnlyAfterRestart /\ CompletedIsWritten /\ GatesSawWhatShips
BY DEF Shipped, Done, NotFoundOnlyAfterRestart, CompletedIsWritten, GatesSawWhatShips

(* The variables of the calls keep their types.                            *)
CallsTyped ==
  /\ request \in [Calls -> Requests \cup {None}]
  /\ job \in [Calls -> Jobs]
  /\ reply \in [Calls -> Replies]
  /\ tasks \in [Calls -> Live \cup Final \cup {None}]
  /\ polled \in [Calls -> Live \cup Final \cup {"not_found", None}]
  /\ files \in [Paths -> Calls \cup {None}]
  /\ loop \in Calls \cup {None}
  /\ temp \subseteq Calls
  /\ restarted \in BOOLEAN

(* The counter is within the good answers, which are within the calls.     *)
Counts == counted \in Nat /\ counted <= Cardinality(Answered)

Inv ==
  MeterTyped /\ Metered /\ CallsTyped /\ Counts /\ \A c \in Calls : CallOK(c) /\ Shipped(c)

LEMMA InvIs == Inv <=> IInv
<1>1. IsFiniteSet(Calls) /\ Answered \subseteq Calls
  BY McpAssumption DEF Answered
<1>2. Cardinality(Answered) \in Nat /\ Cardinality(Calls) \in Nat
      /\ Cardinality(Answered) <= Cardinality(Calls)
  BY <1>1, FS_Subset, FS_CardinalityType
<1>3. Counts <=> counted \in 0 .. Cardinality(Calls) /\ counted <= Cardinality(Answered)
  BY <1>2 DEF Counts
<1>. QED  BY <1>3, ShippedIs DEF Inv, IInv, TypeOK, MeterTyped, Metered, CallsTyped

LEMMA InvType ==
  ASSUME Inv
  PROVE  TypeOK /\ Metered /\ MeterTyped /\ CallsTyped /\ Counts
<1>1. TypeOK
  BY InvIs DEF IInv
<1>. QED  BY <1>1 DEF Inv

(* A step of one call, after which the others are as they were.            *)
Others(c) ==
  \A d \in Calls \ {c} :
    /\ request'[d] = request[d] /\ job'[d] = job[d] /\ reply'[d] = reply[d]
    /\ tasks'[d] = tasks[d] /\ polled'[d] = polled[d]
    /\ loop' = d <=> loop = d

FilesStay == \A p \in Paths : files[p] # None => files'[p] # None

LEMMA WritesPath ==
  ASSUME NEW r \in Requests
  PROVE  r.writes \in Paths /\ r # None
BY McpAssumption DEF Paths

LEMMA OneCall ==
  ASSUME Inv, NEW c \in Calls, Others(c), FilesStay, restarted' = restarted,
         MeterTyped', Metered', CallsTyped', Counts', CallOK(c)', Shipped(c)'
  PROVE  Inv'
<1>1. ASSUME NEW d \in Calls \ {c}
      PROVE  CallOK(d)' /\ Shipped(d)'
  <2>1. CallOK(d) /\ Shipped(d)
    BY DEF Inv
  <2>2. CallOK(d)'
    BY <2>1 DEF Others, CallOK
  <2>3. ASSUME request[d] # None
        PROVE  request[d].writes \in Paths
    BY <2>3, InvType, WritesPath DEF CallsTyped
  <2>4. Done(d)' <=> Done(d)
    BY DEF Done, Others
  <2>5. Done(d) => request[d] # None
    BY <2>1, McpAssumption DEF CallOK, Done
  <2>6. Shipped(d)'
    BY <2>1, <2>3, <2>4, <2>5 DEF Others, FilesStay, Shipped
  <2>. QED  BY <2>2, <2>6
<1>. QED  BY <1>1 DEF Inv

(* An answer is counted at most once.                                      *)
LEMMA AnswerCounts ==
  ASSUME Inv, NEW c \in Calls, NEW r, NEW told \in Replies, reply[c] = "none", Answer(c, r, told)
  PROVE  /\ Counts'
         /\ reply' \in [Calls -> Replies] /\ reply'[c] = told
         /\ \A d \in Calls \ {c} : reply'[d] = reply[d]
<1>1. reply \in [Calls -> Replies] /\ reply' = [reply EXCEPT ![c] = told]
  BY InvType DEF CallsTyped, Answer
<1>2. reply' \in [Calls -> Replies] /\ reply'[c] = told /\ \A d \in Calls \ {c} : reply'[d] = reply[d]
  BY <1>1
<1>3. IsFiniteSet(Answered) /\ c \notin Answered /\ Cardinality(Answered) \in Nat
  BY McpAssumption, FS_Subset, FS_CardinalityType DEF Answered
<1>4. counted \in Nat /\ counted <= Cardinality(Answered)
  BY InvType DEF Counts
<1>5. CASE told \in {"accepted", "success"}
  <2>1. Answered' = Answered \cup {c}
    BY <1>2, <1>5 DEF Answered
  <2>2. Cardinality(Answered \cup {c}) = Cardinality(Answered) + 1
    BY <1>3, FS_AddElement
  <2>3. counted' = counted + 1 \/ counted' = counted + 0
    BY DEF Answer
  <2>. QED  BY <1>2, <1>3, <1>4, <2>1, <2>2, <2>3 DEF Counts
<1>6. CASE told \notin {"accepted", "success"}
  <2>1. Answered' = Answered
    BY <1>2, <1>3, <1>6 DEF Answered
  <2>2. counted' = counted + 0
    BY <1>6 DEF Answer
  <2>. QED  BY <1>2, <1>3, <1>4, <2>1, <2>2 DEF Counts
<1>. QED  BY <1>2, <1>5, <1>6

LEMMA SameCounts ==
  ASSUME Inv, UNCHANGED <<reply, counted>>
  PROVE  Counts'
<1>1. Answered' = Answered
  BY DEF Answered
<1>. QED  BY <1>1, InvType DEF Counts

LEMMA RefusedStep ==
  ASSUME Inv, NEW c \in Calls, NEW r \in Requests, Refused(c, r)
  PROVE  Inv'
<1>1. /\ loop = None /\ request[c] = None /\ request' = [request EXCEPT ![c] = r]
      /\ UNCHANGED <<now, job, tasks, polled, files, loop, temp, restarted>>
  BY DEF Refused
<1>2. PICK told \in {"invalid", "rate_limited", "auth_failed", "error"} :
        /\ Answer(c, r, told)
        /\ UNCHANGED <<bucket, admitted>> \/ RateLimited \/ Admit
  BY DEF Refused, Limiter
<1>3. MeterTyped' /\ Metered'
  BY <1>1, <1>2, InvType, AdmitMetered, LimitedMetered, SameMeter
<1>4. CallOK(c) /\ Shipped(c) /\ reply[c] = "none" /\ job[c].pc = "idle" /\ tasks[c] = None
  BY <1>1 DEF Inv, CallOK
<1>5. told \in Replies
  BY DEF Replies
<1>6. Counts' /\ reply' \in [Calls -> Replies] /\ reply'[c] = told
      /\ \A d \in Calls \ {c} : reply'[d] = reply[d]
  BY <1>2, <1>4, <1>5, AnswerCounts
<1>7. CallsTyped' /\ request'[c] = r /\ \A d \in Calls \ {c} : request'[d] = request[d]
  BY <1>1, <1>6, InvType DEF CallsTyped
<1>8. Others(c) /\ FilesStay
  BY <1>1, <1>6, <1>7 DEF Others, FilesStay
<1>9. CallOK(c)' /\ Shipped(c)'
  BY <1>1, <1>4, <1>6, <1>7, WritesPath, McpAssumption DEF CallOK, Shipped, Done, Final
<1>. QED  BY <1>1, <1>3, <1>6, <1>7, <1>8, <1>9, OneCall

LEMMA AcceptedStep ==
  ASSUME Inv, NEW c \in Calls, NEW r \in Requests, Accepted(c, r)
  PROVE  Inv'
<1>1. /\ loop = None /\ request[c] = None /\ r.async /\ Admit /\ Answer(c, r, "accepted")
      /\ request' = [request EXCEPT ![c] = r] /\ tasks' = [tasks EXCEPT ![c] = "pending"]
      /\ job' = [job EXCEPT ![c].pc = "scheduled"]
      /\ UNCHANGED <<now, polled, files, loop, temp, restarted>>
  BY DEF Accepted
<1>2. MeterTyped' /\ Metered'
  BY <1>1, InvType, AdmitMetered
<1>3. CallOK(c) /\ Shipped(c) /\ reply[c] = "none" /\ CallsTyped
  BY <1>1, InvType DEF Inv, CallOK
<1>4. Counts' /\ reply' \in [Calls -> Replies] /\ reply'[c] = "accepted"
      /\ \A d \in Calls \ {c} : reply'[d] = reply[d]
  BY <1>1, <1>3, AnswerCounts DEF Replies
<1>5. job' \in [Calls -> Jobs] /\ job'[c].pc = "scheduled" /\ \A d \in Calls \ {c} : job'[d] = job[d]
  BY <1>1, <1>3 DEF CallsTyped, Jobs
<1>6. /\ CallsTyped' /\ request'[c] = r /\ tasks'[c] = "pending"
      /\ \A d \in Calls \ {c} : request'[d] = request[d] /\ tasks'[d] = tasks[d]
  BY <1>1, <1>3, <1>4, <1>5 DEF CallsTyped, Live
<1>7. Others(c) /\ FilesStay
  BY <1>1, <1>4, <1>5, <1>6 DEF Others, FilesStay
<1>8. r.tool # "file"
  BY <1>1, McpAssumption
<1>9. CallOK(c)' /\ Shipped(c)'
  BY <1>1, <1>3, <1>4, <1>5, <1>6, <1>8, WritesPath, McpAssumption DEF CallOK, Shipped, Done, Final
<1>. QED  BY <1>1, <1>2, <1>4, <1>6, <1>7, <1>9, OneCall

LEMMA WaitsStep ==
  ASSUME Inv, NEW c \in Calls, NEW r \in Requests, Waits(c, r)
  PROVE  Inv'
<1>. DEFINE pc == IF r.tool = "file" THEN "opp" ELSE "translating"
<1>1. /\ loop = None /\ request[c] = None /\ ~r.async /\ Admit
      /\ request' = [request EXCEPT ![c] = r] /\ job' = [job EXCEPT ![c].pc = pc]
      /\ loop' = (IF r.tool = "file" THEN c ELSE None) /\ temp' \subseteq temp \cup {c}
      /\ UNCHANGED <<now, reply, counted, tasks, polled, files, restarted>>
  BY DEF Waits, Client
<1>2. MeterTyped' /\ Metered'
  BY <1>1, InvType, AdmitMetered
<1>3. CallOK(c) /\ Shipped(c) /\ reply[c] = "none" /\ tasks[c] = None /\ CallsTyped
  BY <1>1, InvType DEF Inv, CallOK
<1>4. job' \in [Calls -> Jobs] /\ job'[c].pc = pc /\ \A d \in Calls \ {c} : job'[d] = job[d]
  BY <1>1, <1>3 DEF CallsTyped, Jobs
<1>5. CallsTyped' /\ request'[c] = r /\ \A d \in Calls \ {c} : request'[d] = request[d]
  BY <1>1, <1>3, <1>4 DEF CallsTyped
<1>6. Others(c) /\ FilesStay
  BY <1>1, <1>4, <1>5, McpAssumption DEF Others, FilesStay
<1>7. CallOK(c)' /\ Shipped(c)'
  BY <1>1, <1>3, <1>4, <1>5, WritesPath, McpAssumption DEF CallOK, Shipped, Done, Final
<1>. QED  BY <1>1, <1>2, <1>5, <1>6, <1>7, SameCounts, OneCall

-----------------------------------------------------------------------------
(* A coroutine that goes on: its call is not answered, its task has no     *)
(* outcome, and its job becomes j.                                         *)
LEMMA GoesOn ==
  ASSUME Inv, NEW c \in Calls, NEW j \in Jobs,
         job[c].pc \in {"scheduled", "translating", "opp", "ol"},
         job' = [job EXCEPT ![c] = j],
         tasks' = tasks \/ tasks' = TaskEnds(c, "running"),
         UNCHANGED <<now, bucket, admitted, request, reply, counted, polled, files, loop, temp, restarted>>,
         j.pc \in {"translating", "polishing", "ol", "orf"},
         j.pc \in {"ol", "orf"} <=> job[c].pc \in {"opp", "ol"},
         j.pc = "polishing" => request[c].polish
  PROVE  Inv'
<1>1. CallOK(c) /\ Shipped(c) /\ CallsTyped
  BY InvType DEF Inv
<1>2. job' \in [Calls -> Jobs] /\ job'[c] = j /\ \A d \in Calls \ {c} : job'[d] = job[d]
  BY <1>1 DEF CallsTyped
<1>3. /\ tasks' \in [Calls -> Live \cup Final \cup {None}]
      /\ tasks'[c] = tasks[c] \/ (tasks[c] # None /\ tasks'[c] = "running")
      /\ \A d \in Calls \ {c} : tasks'[d] = tasks[d]
  BY <1>1 DEF CallsTyped, TaskEnds, Live
<1>4. CallsTyped'
  BY <1>1, <1>2, <1>3 DEF CallsTyped
<1>5. Others(c) /\ FilesStay
  BY <1>2, <1>3 DEF Others, FilesStay
<1>6. /\ tasks[c] \notin Final /\ reply[c] # "success"
      /\ tasks'[c] \notin Final /\ (tasks[c] # None => tasks'[c] # None)
  BY <1>1, <1>3, McpAssumption DEF CallOK, Final
<1>7. CallOK(c)'
  BY <1>1, <1>2, <1>3, <1>6, McpAssumption DEF CallOK
<1>8. Shipped(c)'
  BY <1>1, <1>6 DEF Shipped, Done, Final
<1>9. MeterTyped' /\ Metered'
  BY InvType, SameMeter
<1>. QED  BY <1>4, <1>5, <1>7, <1>8, <1>9, SameCounts, OneCall

(* A coroutine that is over: what it did to the files before, and what the *)
(* gates saw of its text, if it ended well.                                *)
LEMMA EndsStep ==
  ASSUME Inv, NEW c \in Calls, NEW j \in Jobs, NEW ok \in BOOLEAN, Ends(c, j, ok),
         job[c].pc \notin {"idle", "ended"},
         UNCHANGED <<now, bucket, admitted, request, polled, temp, restarted>>,
         loop' \in Calls \cup {None}, loop' # c, \A d \in Calls \ {c} : loop' = d <=> loop = d,
         files' \in [Paths -> Calls \cup {None}], FilesStay,
         ok /\ request[c].tool # "md" => files'[request[c].writes] # None,
         ok /\ (request[c].tool = "md" \/ (request[c].tool = "xliff" /\ ~request[c].polish)) =>
           /\ j.gates = "ran" => j.gated = j.text
           /\ j.gates = "skipped" <=> ~request[c].gates
           /\ j.frontmatter <=> request[c].add_frontmatter
  PROVE  Inv'
<1>1. CallOK(c) /\ Shipped(c) /\ CallsTyped
  BY InvType DEF Inv
<1>2. /\ job' \in [Calls -> Jobs] /\ job'[c].pc = "ended"
      /\ job'[c].gates = j.gates /\ job'[c].gated = j.gated /\ job'[c].text = j.text
      /\ job'[c].frontmatter = j.frontmatter
      /\ \A d \in Calls \ {c} : job'[d] = job[d]
  BY <1>1 DEF Ends, CallsTyped, Jobs
<1>3. /\ tasks' \in [Calls -> Live \cup Final \cup {None}]
      /\ tasks[c] # None => tasks'[c] # None
      /\ tasks'[c] = "completed" => ok
      /\ \A d \in Calls \ {c} : tasks'[d] = tasks[d]
  <2>1. PICK status \in {"completed", "failed"} :
          tasks' = TaskEnds(c, status) /\ (status = "completed" => ok)
    BY DEF Ends
  <2>2. tasks[c] # "completed"
    BY <1>1 DEF CallOK, Final
  <2>3. tasks' = tasks \/ (tasks[c] # None /\ tasks' = [tasks EXCEPT ![c] = status])
    BY <2>1 DEF TaskEnds
  <2>4. CASE tasks' = tasks
    BY <1>1, <2>2, <2>4 DEF CallsTyped
  <2>5. CASE tasks[c] # None /\ tasks' = [tasks EXCEPT ![c] = status]
    BY <1>1, <2>1, <2>5, McpAssumption DEF CallsTyped, Final
  <2>. QED  BY <2>3, <2>4, <2>5
<1>4. /\ Counts' /\ reply' \in [Calls -> Replies]
      /\ reply'[c] = "success" => ok
      /\ reply'[c] = "accepted" => reply[c] = "accepted"
      /\ \A d \in Calls \ {c} : reply'[d] = reply[d]
  <2>1. CASE request[c].async
    <3>1. UNCHANGED <<reply, counted>> /\ reply[c] # "success"
      BY <1>1, <2>1 DEF Ends, Client, CallOK
    <3>. QED  BY <1>1, <3>1, SameCounts DEF CallsTyped
  <2>2. CASE ~request[c].async
    <3>1. PICK told \in {"success", "error"} :
            Answer(c, request[c], told) /\ (told = "success" => ok)
      BY <2>2 DEF Ends
    <3>2. reply[c] = "none" /\ told \in Replies
      BY <1>1, <2>2 DEF CallOK, Replies
    <3>. QED  BY <3>1, <3>2, AnswerCounts
  <2>. QED  BY <2>1, <2>2
<1>5. CallsTyped' /\ Others(c)
  BY <1>1, <1>2, <1>3, <1>4 DEF CallsTyped, Others
<1>6. CallOK(c)'
  BY <1>1, <1>2, <1>3, <1>4 DEF CallOK
<1>7. Done(c)' => ok
  BY <1>3, <1>4 DEF Done
<1>8. Shipped(c)'
  BY <1>1, <1>2, <1>7 DEF Shipped
<1>9. MeterTyped' /\ Metered'
  BY InvType, SameMeter
<1>. QED  BY <1>4, <1>5, <1>6, <1>8, <1>9, OneCall

(* A coroutine that ends well has written the path of its request first.   *)
LEMMA SucceedsStep ==
  ASSUME Inv, NEW c \in Calls, NEW j \in Jobs, Succeeds(c, j),
         job[c].pc \notin {"idle", "ended"},
         UNCHANGED <<now, bucket, admitted, request, polled, temp, restarted>>,
         loop' \in Calls \cup {None}, loop' # c, \A d \in Calls \ {c} : loop' = d <=> loop = d,
         request[c].tool = "md" \/ (request[c].tool = "xliff" /\ ~request[c].polish) =>
           /\ j.gates = "ran" => j.gated = j.text
           /\ j.gates = "skipped" <=> ~request[c].gates
  PROVE  Inv'
<1>1. CallOK(c) /\ CallsTyped
  BY InvType DEF Inv
<1>2. request[c] \in Requests /\ request[c].writes \in Paths
  BY <1>1, WritesPath DEF CallOK, CallsTyped
<1>3. /\ files' \in [Paths -> Calls \cup {None}] /\ FilesStay
      /\ request[c].tool # "md" => files'[request[c].writes] # None
  BY <1>1, <1>2, McpAssumption DEF Succeeds, CallsTyped, FilesStay
<1>. DEFINE answer == Headed(c, j)
<1>4. Ends(c, answer, TRUE)
  BY DEF Succeeds
<1>5. answer \in Jobs /\ answer.frontmatter = request[c].add_frontmatter
      /\ answer.text = j.text /\ answer.gates = j.gates /\ answer.gated = j.gated
  BY <1>2, McpAssumption DEF Headed, Jobs, Shape
<1>. HIDE DEF answer
<1>. QED  BY <1>3, <1>4, <1>5, EndsStep

LEMMA StartsStep ==
  ASSUME Inv, NEW c \in Calls, Starts(c)
  PROVE  Inv'
<1>. DEFINE j == [job[c] EXCEPT !.pc = "translating"]
<1>1. job[c] \in Jobs
  BY InvType DEF CallsTyped
<1>2. j \in Jobs /\ j.pc = "translating"
  BY <1>1 DEF Jobs
<1>3. /\ job[c].pc = "scheduled" /\ job' = [job EXCEPT ![c] = j] /\ tasks' = TaskEnds(c, "running")
      /\ UNCHANGED <<now, bucket, admitted, request, reply, counted, polled, files, loop, temp, restarted>>
  BY DEF Starts, Limiter, Client
<1>. HIDE DEF j
<1>. QED  BY <1>2, <1>3, GoesOn

LEMMA UnitTranslatedStep ==
  ASSUME Inv, NEW c \in Calls, UnitTranslated(c)
  PROVE  Inv'
<1>. DEFINE j == [job[c] EXCEPT !.done = @ + 1]
<1>1. job[c] \in Jobs /\ job[c].pc = "translating" /\ job[c].done + 1 < MaxUnits
  BY InvType DEF CallsTyped, UnitTranslated
<1>2. j \in Jobs /\ j.pc = "translating"
  BY <1>1, McpAssumption DEF Jobs
<1>3. /\ job' = [job EXCEPT ![c] = j]
      /\ UNCHANGED <<now, bucket, admitted, request, reply, counted, tasks, polled, files, loop, temp, restarted>>
  BY DEF UnitTranslated, Limiter, Client
<1>. HIDE DEF j
<1>. QED  BY <1>1, <1>2, <1>3, GoesOn

LEMMA RaisesStep ==
  ASSUME Inv, NEW c \in Calls, Raises(c)
  PROVE  Inv'
<1>1. job[c] \in Jobs /\ loop # c /\ loop \in Calls \cup {None} /\ files \in [Paths -> Calls \cup {None}]
  BY InvType, McpAssumption DEF CallsTyped, Raises
<1>2. /\ Ends(c, job[c], FALSE) /\ job[c].pc \notin {"idle", "ended"}
      /\ UNCHANGED <<now, bucket, admitted, request, polled, files, loop, temp, restarted>>
  BY DEF Raises, Limiter
<1>. QED  BY <1>1, <1>2, EndsStep DEF FilesStay

LEMMA GatedIs ==
  ASSUME NEW r, NEW text \in Texts, NEW g \in Gated(r, text)
  PROVE  /\ g.gates \in Gates /\ g.gated \in Texts
         /\ g.gates = "ran" => g.gated = text
         /\ g.gates = "skipped" <=> ~r.gates
BY DEF Gated, Gates, Texts

LEMMA TranslatedStep ==
  ASSUME Inv, NEW c \in Calls, Translated(c)
  PROVE  Inv'
<1>1. /\ job[c] \in Jobs /\ loop # c /\ loop \in Calls \cup {None} /\ job[c].pc = "translating"
      /\ UNCHANGED <<now, bucket, admitted, request, polled, loop, temp, restarted>>
  BY InvType, McpAssumption DEF CallsTyped, Translated, Limiter
<1>2. PICK g \in IF GatedBefore(request[c]) THEN Gated(request[c], "translated")
                  ELSE {[gates |-> "none", gated |-> "none"]} :
        LET j == [job[c] EXCEPT !.text = "translated", !.gates = g.gates, !.gated = g.gated]
        IN IF request[c].polish
           THEN job' = [job EXCEPT ![c] = [j EXCEPT !.pc = "polishing"]]
                /\ UNCHANGED <<Client, tasks, files>>
           ELSE Succeeds(c, j)
  BY DEF Translated
<1>. DEFINE j == [job[c] EXCEPT !.text = "translated", !.gates = g.gates, !.gated = g.gated]
            k == [j EXCEPT !.pc = "polishing"]
<1>3. g.gates \in Gates /\ g.gated \in Texts
  BY GatedIs DEF Gates, Texts
<1>4. j \in Jobs /\ j.text = "translated" /\ j.gates = g.gates /\ j.gated = g.gated
      /\ k \in Jobs /\ k.pc = "polishing"
  BY <1>1, <1>3 DEF Jobs, Texts
<1>5. CASE request[c].polish
  <2>1. job' = [job EXCEPT ![c] = k] /\ UNCHANGED <<reply, counted, tasks, files>>
    BY <1>2, <1>5 DEF Client
  <2>. HIDE DEF j, k
  <2>. QED  BY <1>1, <1>4, <1>5, <2>1, GoesOn
<1>6. CASE ~request[c].polish
  <2>1. g \in Gated(request[c], "translated") /\ Succeeds(c, j)
    BY <1>2, <1>6 DEF GatedBefore
  <2>2. (j.gates = "ran" => j.gated = j.text) /\ (j.gates = "skipped" <=> ~request[c].gates)
    BY <1>4, <2>1, GatedIs DEF Texts
  <2>. HIDE DEF j, k
  <2>. QED  BY <1>1, <1>4, <2>1, <2>2, SucceedsStep
<1>. QED  BY <1>5, <1>6

LEMMA PolishedStep ==
  ASSUME Inv, NEW c \in Calls, Polished(c)
  PROVE  Inv'
<1>1. /\ job[c] \in Jobs /\ loop # c /\ loop \in Calls \cup {None} /\ job[c].pc = "polishing"
      /\ UNCHANGED <<now, bucket, admitted, request, polled, loop, temp, restarted>>
  BY InvType, McpAssumption DEF CallsTyped, Polished, Limiter
<1>2. request[c].polish
  BY <1>1 DEF Inv, CallOK
<1>. PICK text \in {"translated", "polished"} :
       \E g \in IF GatedBefore(request[c]) THEN {[gates |-> job[c].gates, gated |-> job[c].gated]}
                ELSE Gated(request[c], text) :
         Succeeds(c, [job[c] EXCEPT !.text = text, !.gates = g.gates, !.gated = g.gated])
  BY DEF Polished
<1>3. PICK g \in IF GatedBefore(request[c]) THEN {[gates |-> job[c].gates, gated |-> job[c].gated]}
                 ELSE Gated(request[c], text) :
        Succeeds(c, [job[c] EXCEPT !.text = text, !.gates = g.gates, !.gated = g.gated])
  OBVIOUS
<1>. DEFINE j == [job[c] EXCEPT !.text = text, !.gates = g.gates, !.gated = g.gated]
<1>4. text \in Texts /\ g.gates \in Gates /\ g.gated \in Texts
  BY <1>1, GatedIs DEF Texts, Jobs
<1>5. j \in Jobs /\ j.text = text /\ j.gates = g.gates /\ j.gated = g.gated
  BY <1>1, <1>4 DEF Jobs
<1>6. request[c].tool = "md" => (j.gates = "ran" => j.gated = j.text) /\ (j.gates = "skipped" <=> ~request[c].gates)
  BY <1>2, <1>3, <1>4, <1>5, GatedIs DEF GatedBefore
<1>. HIDE DEF j
<1>7. Succeeds(c, j)
  BY <1>3 DEF j
<1>. QED  BY <1>1, <1>2, <1>5, <1>6, <1>7, SucceedsStep

LEMMA ProcessStep ==
  ASSUME Inv, NEW c \in Calls, Process(c)
  PROVE  Inv'
<1>1. /\ job[c] \in Jobs /\ loop = c /\ files \in [Paths -> Calls \cup {None}]
      /\ CallOK(c) /\ job[c].pc \in {"opp", "ol", "orf"} /\ request[c].tool = "file"
      /\ UNCHANGED <<now, bucket, admitted, request, polled, temp, restarted>>
  BY InvType DEF Inv, CallsTyped, CallOK, Process, Limiter
<1>2. CASE /\ job[c].pc \in {"opp", "ol"}
           /\ job' = [job EXCEPT ![c].pc = IF @ = "opp" THEN "ol" ELSE "orf"]
           /\ UNCHANGED <<loop, Client, tasks, files>>
  <2>. DEFINE j == [job[c] EXCEPT !.pc = IF @ = "opp" THEN "ol" ELSE "orf"]
  <2>1. j \in Jobs /\ j.pc \in {"ol", "orf"}
    BY <1>1 DEF Jobs
  <2>2. job' = [job EXCEPT ![c] = j] /\ UNCHANGED <<reply, counted, loop, tasks, files>>
    BY <1>2 DEF Client
  <2>. HIDE DEF j
  <2>. QED  BY <1>1, <1>2, <2>1, <2>2, GoesOn
<1>3. CASE Succeeds(c, [job[c] EXCEPT !.text = "translated"]) /\ loop' = None
  <2>. DEFINE j == [job[c] EXCEPT !.text = "translated"]
  <2>1. j \in Jobs
    BY <1>1 DEF Jobs, Texts
  <2>2. Succeeds(c, j)
    BY <1>3
  <2>. HIDE DEF j
  <2>. QED  BY <1>1, <1>3, <2>1, <2>2, SucceedsStep, McpAssumption
<1>4. CASE Ends(c, job[c], FALSE) /\ loop' = None /\ UNCHANGED files
  BY <1>1, <1>4, EndsStep, McpAssumption DEF FilesStay
<1>. QED  BY <1>2, <1>3, <1>4 DEF Process

LEMMA PollStep ==
  ASSUME Inv, NEW c \in Calls, Poll(c)
  PROVE  Inv'
<1>1. /\ reply[c] = "accepted" /\ Admit /\ CallOK(c) /\ Shipped(c) /\ CallsTyped
      /\ polled' = [polled EXCEPT ![c] = IF tasks[c] = None THEN "not_found" ELSE tasks[c]]
      /\ UNCHANGED <<now, reply, counted, request, job, tasks, files, loop, temp, restarted>>
  BY InvType DEF Inv, Poll, Client
<1>2. MeterTyped' /\ Metered'
  BY <1>1, InvType, AdmitMetered
<1>3. CallsTyped' /\ Others(c) /\ FilesStay
  BY <1>1 DEF CallsTyped, Others, FilesStay
<1>4. polled'[c] = "not_found" => restarted
  BY <1>1, McpAssumption DEF CallsTyped, CallOK, Live, Final
<1>5. CallOK(c)' /\ Shipped(c)'
  BY <1>1, <1>4 DEF CallOK, Shipped, Done
<1>. QED  BY <1>1, <1>2, <1>3, <1>5, SameCounts, OneCall

LEMMA RestartStep ==
  ASSUME Inv, Restart
  PROVE  Inv'
<1>1. /\ restarted' = TRUE /\ loop' = None /\ counted' = 0 /\ CallsTyped
      /\ UNCHANGED <<now, request, polled, files, temp>>
  BY InvType DEF Restart
<1>2. MeterTyped' /\ Metered'
  BY InvType, RestartMetered
<1>3. ASSUME NEW c \in Calls
      PROVE  /\ job'[c] \in Jobs /\ tasks'[c] = None /\ reply'[c] \in Replies
             /\ job'[c].pc = (IF job[c].pc = "idle" THEN "idle" ELSE "ended")
             /\ job[c].pc = "ended" => job'[c] = job[c]
             /\ reply'[c] = reply[c] \/ (request[c] # None /\ reply'[c] = "lost")
  <2>1. Idle \in Jobs /\ Idle.pc = "idle"
    BY McpAssumption DEF Idle, Jobs, Gates, Texts
  <2>. DEFINE ended == [job[c] EXCEPT !.pc = "ended"]
  <2>2. job[c] \in Jobs /\ ended \in Jobs /\ ended.pc = "ended" /\ (job[c].pc = "ended" => ended = job[c])
    BY <1>1 DEF CallsTyped, Jobs
  <2>3. job'[c] = IF job[c].pc = "idle" THEN Idle ELSE ended
    BY DEF Restart
  <2>. HIDE DEF ended
  <2>4. tasks'[c] = None /\ reply'[c] = IF request[c] # None /\ reply[c] = "none" THEN "lost" ELSE reply[c]
    BY DEF Restart
  <2>5. reply[c] \in Replies
    BY <1>1 DEF CallsTyped
  <2>. QED  BY <2>1, <2>2, <2>3, <2>4, <2>5 DEF Replies
<1>4. CallsTyped'
  <2>1. /\ job' = [c \in Calls |-> job'[c]] /\ tasks' = [c \in Calls |-> tasks'[c]]
        /\ reply' = [c \in Calls |-> reply'[c]]
    BY DEF Restart
  <2>. QED  BY <1>1, <1>3, <2>1 DEF CallsTyped
<1>5. Counts'
  <2>1. IsFiniteSet(Answered') /\ Cardinality(Answered') \in Nat
    BY McpAssumption, FS_Subset, FS_CardinalityType DEF Answered
  <2>. QED  BY <1>1, <2>1 DEF Counts
<1>6. ASSUME NEW c \in Calls
      PROVE  CallOK(c)' /\ Shipped(c)'
  <2>1. CallOK(c) /\ Shipped(c)
    BY DEF Inv
  <2>2. CallOK(c)'
    BY <1>1, <1>3, <2>1, McpAssumption DEF CallOK, Final
  <2>3. Done(c)' => reply[c] = "success" /\ job'[c] = job[c]
    BY <1>3, <2>1, McpAssumption DEF Done, CallOK
  <2>4. Shipped(c)'
    BY <1>1, <2>1, <2>3 DEF Shipped, Done
  <2>. QED  BY <2>2, <2>4
<1>. QED  BY <1>2, <1>4, <1>5, <1>6 DEF Inv

LEMMA SameCalls ==
  ASSUME Inv, UNCHANGED <<request, job, reply, tasks, polled, files, loop, temp, counted, restarted>>,
         MeterTyped', Metered'
  PROVE  Inv'
<1>1. CallsTyped' /\ Counts'
  BY InvType, SameCounts DEF CallsTyped
<1>2. ASSUME NEW c \in Calls PROVE CallOK(c)' /\ Shipped(c)'
  <2>1. CallOK(c) /\ Shipped(c)
    BY DEF Inv
  <2>. QED  BY <2>1 DEF CallOK, Shipped, Done
<1>. QED  BY <1>1, <1>2 DEF Inv

-----------------------------------------------------------------------------
LEMMA InitInv == Init => Inv
<1>. SUFFICES ASSUME Init PROVE Inv
  OBVIOUS
<1>1. /\ now = 0 /\ bucket = [tokens |-> Burst, last_refill |-> 0]
      /\ admitted = [t \in 0 .. MaxTime |-> 0]
  BY DEF Init
<1>2. MeterTyped
  BY <1>1, Constants DEF MeterTyped
<1>3. Refilled \in Nat /\ Refilled <= Burst
  <2>. DEFINE more == Burst + (0 - 0) * Refill
  <2>1. Refilled = IF more < Burst THEN more ELSE Burst
    BY <1>1 DEF Refilled
  <2>2. (0 - 0) * Refill = 0
    BY Constants
  <2>3. more = Burst
    BY <2>2, Constants
  <2>. HIDE DEF more
  <2>. QED  BY <2>1, <2>3, Constants
<1>4. ASSUME NEW j \in 0 .. MaxTime, NEW spare \in Nat, spare <= Burst
      PROVE  Within(admitted, j, spare)
  <2>. SUFFICES ASSUME NEW i \in 0 .. MaxTime, i <= j
                PROVE  admitted[j] + spare <= Before(admitted, i) + Burst + (j - i) * Refill
    BY DEF Within
  <2>. DEFINE span == (j - i) * Refill
  <2>1. Before(admitted, i) \in Nat /\ admitted[j] = 0 /\ span \in Nat
    BY <1>1, <1>2, BeforeType, Constants, Spans DEF MeterTyped
  <2>. HIDE DEF span
  <2>2. admitted[j] + spare <= Before(admitted, i) + Burst + span
    BY <1>4, <2>1, Constants
  <2>. QED  BY <2>2 DEF span
<1>5. Metered
  <2>1. now \in 0 .. MaxTime /\ 0 \in Nat /\ 0 <= Burst
    BY <1>1, Constants
  <2>2. Within(admitted, now, Refilled) /\ \A j \in 0 .. MaxTime : Within(admitted, j, 0)
    BY <1>3, <1>4, <2>1
  <2>3. \A t \in 0 .. MaxTime : admitted[t] = 0
    BY <1>1
  <2>. QED  BY <2>1, <2>2, <2>3 DEF Metered, BucketOK, AdmittedWithinBudget
<1>6. CallsTyped
  <2>1. Idle \in Jobs
    BY McpAssumption DEF Idle, Jobs, Gates, Texts
  <2>. QED  BY <2>1 DEF Init, CallsTyped, Replies
<1>7. Counts
  <2>1. Answered = {} /\ counted = 0
    BY DEF Init, Answered
  <2>. QED  BY <2>1, FS_EmptySet DEF Counts
<1>8. ASSUME NEW c \in Calls PROVE CallOK(c) /\ Shipped(c)
  BY McpAssumption DEF Init, CallOK, Shipped, Done, Idle, Final
<1>. QED  BY <1>2, <1>5, <1>6, <1>7, <1>8 DEF Inv

LEMMA NextInv == Inv /\ [Next]_vars => Inv'
<1>. SUFFICES ASSUME Inv, [Next]_vars PROVE Inv'
  OBVIOUS
<1>1. CASE Tick
  <2>1. MeterTyped' /\ Metered'
    BY <1>1, InvType, TickMetered
  <2>. QED  BY <1>1, <2>1, SameCalls DEF Tick, Client
<1>2. ASSUME NEW c \in Calls, NEW r \in Requests, Refused(c, r) \/ Accepted(c, r) \/ Waits(c, r)
      PROVE  Inv'
  BY <1>2, RefusedStep, AcceptedStep, WaitsStep
<1>3. ASSUME NEW c \in Calls, Works(c) \/ Process(c) \/ Poll(c)
      PROVE  Inv'
  BY <1>3, StartsStep, RaisesStep, UnitTranslatedStep, TranslatedStep, PolishedStep, ProcessStep, PollStep
     DEF Works
<1>4. CASE UNCHANGED vars
  <2>1. MeterTyped' /\ Metered'
    BY <1>4, InvType, SameMeter DEF vars
  <2>. QED  BY <1>4, <2>1, SameCalls DEF vars
<1>. QED  BY <1>1, <1>2, <1>3, <1>4, RestartStep DEF Next

(* The inductive invariant holds in every reachable state.                 *)
THEOREM Invariance == Spec => []IInv
<1>1. Inv => IInv
  BY InvIs
<1>. QED  BY <1>1, InitInv, NextInv, PTL DEF Spec

(* The state of the server keeps its types: the bucket never holds more    *)
(* than its burst or a negative number, and there are never more counted   *)
(* translations than calls.                                                *)
THEOREM TypeCorrect == Spec => []TypeOK
<1>1. IInv => TypeOK
  BY DEF IInv
<1>. QED  BY <1>1, Invariance, PTL

(* TokenBucket: over no span of time is more let through than a full       *)
(* bucket and the refill of the span, however the calls are spread.        *)
THEOREM WithinBudget == Spec => []AdmittedWithinBudget
<1>1. IInv => AdmittedWithinBudget
  BY DEF IInv
<1>. QED  BY <1>1, Invariance, PTL

(* A client is told that its task does not exist only after a restart.     *)
THEOREM TasksAreFound == Spec => []NotFoundOnlyAfterRestart
<1>1. IInv => NotFoundOnlyAfterRestart
  BY DEF IInv
<1>. QED  BY <1>1, Invariance, PTL

(* What reports success on a file has written it before.                   *)
THEOREM CompletedWritten == Spec => []CompletedIsWritten
<1>1. IInv => CompletedIsWritten
  BY DEF IInv
<1>. QED  BY <1>1, Invariance, PTL

(* Gates that are said to have run saw all of the answer that the tool did *)
(* not make itself: the text behind the frontmatter, which is there        *)
(* exactly when it was asked for.                                          *)
THEOREM GatesSaw == Spec => []GatesSawWhatShips
<1>1. IInv => GatesSawWhatShips
  BY DEF IInv
<1>. QED  BY <1>1, Invariance, PTL

=============================================================================
