-------------------------- MODULE TestRunnerProofs --------------------------
(***************************************************************************)
(* The test driver for any list of tests, any number of workers and any    *)
(* outcomes: no worker leaves while jobs wait, each job is in one place,   *)
(* and the verdict and the results file account for every job.             *)
(***************************************************************************)
EXTENDS TestRunner, FiniteSetTheorems, FunctionTheorems, TLAPS

\* Worker w has left, or has taken the break that will make it leave.
Leaving(w) == at[w] = "left" \/ (at[w] = "got" /\ job[w] = 0)

AllBreaks(q) == \A k \in DOMAIN q : q[k] = 0
NoBreaks(q)  == \A k \in DOMAIN q : q[k] # 0
BreaksLast(q) == \A k, l \in DOMAIN q : k <= l /\ q[k] = 0 => q[l] = 0

\* The breaks come last: none is queued, or was taken, before all jobs are, and
\* behind a break there are only breaks.
QueueOrdered ==
    /\ dispatched \in Nat
    /\ input_queue \in Seq(Nat)
    /\ at \in [Worker -> {"get", "got", "run", "left"}]
    /\ job \in [Worker -> Nat]
    /\ BreaksLast(input_queue)
    /\ dispatched <= Len(Work) =>
          NoBreaks(input_queue) /\ \A w \in Worker : ~Leaving(w)
    /\ \A w \in Worker : Leaving(w) => AllBreaks(input_queue)

LEMMA WorkLength == Len(Work) \in Nat
BY TestRunnerAssumption

LEMMA DispatchKeeps ==
    ASSUME QueueOrdered, Dispatch
    PROVE  QueueOrdered'
<1>1. /\ dispatched < Len(Work) /\ dispatched' = dispatched + 1
      /\ input_queue' = Append(input_queue, dispatched + 1)
      /\ UNCHANGED <<at, job>>
  BY DEF Dispatch, PutWork, workerVars
<1>2. NoBreaks(input_queue) /\ \A w \in Worker : ~Leaving(w)
  BY <1>1, WorkLength DEF QueueOrdered
<1>3. input_queue' \in Seq(Nat) /\ NoBreaks(input_queue')
  BY <1>1, <1>2 DEF QueueOrdered, NoBreaks
<1>4. \A w \in Worker : ~Leaving(w)'
  BY <1>1, <1>2 DEF Leaving
<1>5. BreaksLast(input_queue')
  BY <1>3 DEF NoBreaks, BreaksLast
<1>. QED BY <1>1, <1>3, <1>4, <1>5 DEF QueueOrdered

LEMMA DispatchBreakKeeps ==
    ASSUME QueueOrdered, DispatchBreak
    PROVE  QueueOrdered'
<1>1. /\ dispatched >= Len(Work) /\ dispatched' = dispatched + 1
      /\ input_queue' = Append(input_queue, 0)
      /\ UNCHANGED <<at, job>>
  BY DEF DispatchBreak, PutWork, workerVars
<1>2. dispatched \in Nat /\ input_queue \in Seq(Nat)
  BY DEF QueueOrdered
<1>3. input_queue' \in Seq(Nat) /\ ~(dispatched' <= Len(Work)) /\ dispatched' \in Nat
  BY <1>1, <1>2, WorkLength
<1>4. BreaksLast(input_queue')
  BY <1>1, <1>2 DEF QueueOrdered, BreaksLast
<1>5. AllBreaks(input_queue) => AllBreaks(input_queue')
  BY <1>1, <1>2 DEF AllBreaks
<1>6. \A w \in Worker : Leaving(w)' => AllBreaks(input_queue')
  BY <1>1, <1>5 DEF QueueOrdered, Leaving
<1>. QED BY <1>1, <1>3, <1>4, <1>6 DEF QueueOrdered

\* What holds of a queue holds of what is left of it.
LEMMA TailOfQueue ==
    ASSUME NEW q \in Seq(Nat), q # <<>>, BreaksLast(q)
    PROVE  /\ Tail(q) \in Seq(Nat) /\ Head(q) \in Nat
           /\ BreaksLast(Tail(q))
           /\ Head(q) = 0 => AllBreaks(Tail(q))
           /\ AllBreaks(q) => AllBreaks(Tail(q))
           /\ NoBreaks(q) => Head(q) # 0 /\ NoBreaks(Tail(q))
<1> DEFINE t == Tail(q)
           n == Len(q)
<1>1. /\ n \in Nat \ {0} /\ DOMAIN q = 1 .. n /\ Head(q) = q[1] /\ q[1] \in Nat
      /\ t \in Seq(Nat) /\ DOMAIN t = 1 .. n - 1
  OBVIOUS
<1>2. \A k \in 1 .. n - 1 : t[k] = q[k + 1]
  OBVIOUS
<1> HIDE DEF t, n
<1>3. \A k \in 1 .. n - 1 : k + 1 \in 1 .. n /\ 1 <= k + 1
  BY <1>1
<1>4. 1 \in 1 .. n
  BY <1>1
<1>5. ASSUME NEW k \in 1 .. n - 1, NEW l \in 1 .. n - 1, k <= l, t[k] = 0
      PROVE  t[l] = 0
  <2>1. k + 1 <= l + 1
    BY <1>1, <1>5
  <2>2. q[k + 1] = 0
    BY <1>2, <1>5
  <2>3. q[l + 1] = 0
    BY <1>1, <1>3, <2>1, <2>2 DEF BreaksLast
  <2>. QED BY <1>2, <2>3
<1>6. ASSUME q[1] = 0, NEW k \in 1 .. n - 1 PROVE t[k] = 0
  <2>1. q[k + 1] = 0
    BY <1>1, <1>3, <1>4, <1>6 DEF BreaksLast
  <2>. QED BY <1>2, <2>1
<1>7. BreaksLast(t) /\ (q[1] = 0 => AllBreaks(t))
  BY <1>1, <1>5, <1>6 DEF BreaksLast, AllBreaks
<1>8. AllBreaks(q) => q[1] = 0
  BY <1>1 DEF AllBreaks
<1>9. ASSUME NoBreaks(q) PROVE q[1] # 0 /\ NoBreaks(t)
  <2>1. \A k \in 1 .. n : q[k] # 0
    BY <1>1, <1>9 DEF NoBreaks
  <2>2. \A k \in 1 .. n - 1 : t[k] # 0
    BY <1>2, <1>3, <2>1
  <2>. QED BY <1>1, <1>4, <2>1, <2>2 DEF NoBreaks
<1>. QED BY <1>1, <1>7, <1>8, <1>9 DEF t

LEMMA GetKeeps ==
    ASSUME QueueOrdered, NEW w \in Worker, Get(w)
    PROVE  QueueOrdered'
<1> DEFINE q == input_queue
           h == Head(q)
           t == Tail(q)
<1>1. /\ q # <<>> /\ at[w] = "get"
      /\ job' = [job EXCEPT ![w] = h]
      /\ input_queue' = t
      /\ at' = [at EXCEPT ![w] = "got"]
      /\ dispatched' = dispatched
  BY DEF Get, mainVars
<1>2. /\ t \in Seq(Nat) /\ h \in Nat
      /\ BreaksLast(t)
      /\ h = 0 => AllBreaks(t)
      /\ AllBreaks(q) => AllBreaks(t)
      /\ NoBreaks(q) => h # 0 /\ NoBreaks(t)
  BY <1>1, TailOfQueue DEF QueueOrdered
<1> HIDE DEF h, t
<1>3. \A v \in Worker : Leaving(v)' <=> IF v = w THEN h = 0 ELSE Leaving(v)
  BY <1>1, <1>2 DEF QueueOrdered, Leaving
<1>4. \A v \in Worker : Leaving(v)' => AllBreaks(t)
  BY <1>2, <1>3 DEF QueueOrdered
<1>5. dispatched <= Len(Work) => NoBreaks(t) /\ \A v \in Worker : ~Leaving(v)'
  BY <1>2, <1>3 DEF QueueOrdered
<1>6. at' \in [Worker -> {"get", "got", "run", "left"}] /\ job' \in [Worker -> Nat]
  BY <1>1, <1>2 DEF QueueOrdered
<1>. QED BY <1>1, <1>2, <1>4, <1>5, <1>6 DEF QueueOrdered

\* What a worker does with a job in hand: it is back to get or to run, or it
\* leaves on a break it has taken.
LEMMA StepKeeps ==
    ASSUME QueueOrdered, NEW w \in Worker,
           Leave(w) \/ ThrowBack(w) \/ Skip(w) \/ Launch(w)
              \/ \E o \in Outcome : Report(w, o)
    PROVE  QueueOrdered'
<1>1. input_queue' = input_queue /\ dispatched' = dispatched
  BY DEF Leave, ThrowBack, Skip, Launch, Report, mainVars
<1>2. CASE Leave(w)
  <2>1. Leaving(w) /\ at' = [at EXCEPT ![w] = "left"] /\ job' = job
    BY <1>2 DEF Leave, Leaving
  <2>2. \A v \in Worker : Leaving(v)' => Leaving(v)
    BY <2>1 DEF Leaving, QueueOrdered
  <2>. QED BY <1>1, <2>1, <2>2 DEF QueueOrdered
<1>3. CASE Launch(w)
  <2>1. at' = [at EXCEPT ![w] = "run"] /\ job' = job
    BY <1>3 DEF Launch
  <2>2. \A v \in Worker : Leaving(v)' => Leaving(v)
    BY <2>1 DEF Leaving, QueueOrdered
  <2>. QED BY <1>1, <2>1, <2>2 DEF QueueOrdered
<1>4. CASE ThrowBack(w) \/ Skip(w) \/ \E o \in Outcome : Report(w, o)
  <2>1. at' = [at EXCEPT ![w] = "get"] /\ job' = [job EXCEPT ![w] = 0]
    BY <1>4 DEF ThrowBack, Skip, Report
  <2>2. \A v \in Worker : Leaving(v)' => Leaving(v)
    BY <2>1 DEF Leaving, QueueOrdered
  <2>. QED BY <1>1, <2>1, <2>2 DEF QueueOrdered
<1>. QED BY <1>2, <1>3, <1>4

\* Main thread and signal handler leave queue and workers alone otherwise.
LEMMA OtherKeeps ==
    ASSUME QueueOrdered, Collect \/ Finish \/ Sigint \/ Exited \/ UNCHANGED vars
    PROVE  QueueOrdered'
<1>1. UNCHANGED <<input_queue, dispatched, at, job>>
  BY DEF Collect, Finish, Sigint, Exited, vars, mainVars, workerVars
<1>2. \A w \in Worker : Leaving(w)' <=> Leaving(w)
  BY <1>1 DEF Leaving
<1>. QED BY <1>1, <1>2 DEF QueueOrdered

\* A worker of test.py leaves no job behind in the queue.
THEOREM LeavesNoWorkCorrect == Spec => []LeavesNoWork
<1>1. Init => QueueOrdered
  BY DEF Init, QueueOrdered, Leaving, NoBreaks, AllBreaks, BreaksLast
<1>2. QueueOrdered /\ [Next]_vars => QueueOrdered'
  BY DispatchKeeps, DispatchBreakKeeps, GetKeeps, StepKeeps, OtherKeeps
     DEF Next, Main, Step
<1>3. QueueOrdered => LeavesNoWork
  BY DEF QueueOrdered, LeavesNoWork, Leaving, AllBreaks
<1>. QED BY <1>1, <1>2, <1>3, PTL DEF Spec

-----------------------------------------------------------------------------
(* Counting the elements of a queue, and the workers that hold a job.        *)
Places(s, X) == {k \in DOMAIN s : s[k] \in X}
Among(s, X)  == Cardinality(Places(s, X))
Holders(hand, j) == {w \in Worker : hand[w] = j}
In(x, X) == IF x \in X THEN 1 ELSE 0

LEMMA AmongType ==
    ASSUME NEW T, NEW s \in Seq(T), NEW X
    PROVE  IsFiniteSet(Places(s, X)) /\ Among(s, X) \in Nat
<1>1. IsFiniteSet(1 .. Len(s)) /\ DOMAIN s = 1 .. Len(s)
  BY FS_Interval
<1>2. Places(s, X) \in SUBSET (1 .. Len(s))
  BY <1>1 DEF Places
<1>. QED BY <1>1, <1>2, FS_Subset, FS_CardinalityType DEF Among

\* An element that is added at the end counts once more.
LEMMA AmongAppend ==
    ASSUME NEW T, NEW s \in Seq(T), NEW x \in T, NEW X
    PROVE  Among(Append(s, x), X) = Among(s, X) + In(x, X)
<1> DEFINE n == Len(s) + 1
           t == Append(s, x)
<1>1. /\ n \in Nat /\ DOMAIN s = 1 .. n - 1 /\ DOMAIN t = 1 .. n
      /\ t[n] = x /\ \A k \in 1 .. n - 1 : t[k] = s[k]
  OBVIOUS
<1>2. IsFiniteSet(Places(s, X)) /\ Among(s, X) \in Nat
  BY AmongType
<1>3. n \notin Places(s, X)
  BY <1>1 DEF Places
<1>4. 1 .. n = (1 .. n - 1) \cup {n}
  BY <1>1
<1> HIDE DEF n, t
<1>5. CASE x \in X
  <2>1. Places(t, X) = Places(s, X) \cup {n}
    BY <1>1, <1>4, <1>5 DEF Places
  <2>2. Among(t, X) = Among(s, X) + 1
    BY <1>2, <1>3, <2>1, FS_AddElement DEF Among
  <2>. QED BY <1>5, <2>2 DEF In, t
<1>6. CASE x \notin X
  <2>1. Places(t, X) = Places(s, X)
    BY <1>1, <1>4, <1>6 DEF Places
  <2>. QED BY <1>2, <1>6, <2>1 DEF In, Among, t
<1>. QED BY <1>5, <1>6

\* One that is taken from the front counts once less.
LEMMA AmongTail ==
    ASSUME NEW T, NEW s \in Seq(T), s # <<>>, NEW X
    PROVE  Among(s, X) = Among(Tail(s), X) + In(Head(s), X)
<1> DEFINE n == Len(s)
           t == Tail(s)
           A == Places(t, X)
           B == Places(s, X) \ {1}
           f == [k \in A |-> k + 1]
<1>1. /\ n \in Nat \ {0} /\ DOMAIN s = 1 .. n /\ DOMAIN t = 1 .. n - 1
      /\ Head(s) = s[1] /\ t \in Seq(T) /\ \A k \in 1 .. n - 1 : t[k] = s[k + 1]
  OBVIOUS
<1>2. /\ IsFiniteSet(Places(s, X)) /\ Among(s, X) \in Nat
      /\ IsFiniteSet(A) /\ Among(t, X) \in Nat
  BY <1>1, AmongType
<1> HIDE DEF n, t
<1>3. \A k \in A : k \in 1 .. n - 1 /\ k + 1 \in B
  BY <1>1 DEF Places
<1>4. \A l \in B : l - 1 \in A /\ l \in Nat
  <2> SUFFICES ASSUME NEW l \in B PROVE l - 1 \in A /\ l \in Nat
    OBVIOUS
  <2>1. l \in 1 .. n /\ l # 1 /\ s[l] \in X
    BY <1>1 DEF Places
  <2>2. l - 1 \in 1 .. n - 1 /\ (l - 1) + 1 = l
    BY <1>1, <2>1
  <2>3. t[l - 1] = s[l]
    BY <1>1, <2>2
  <2>. QED BY <1>1, <2>1, <2>2, <2>3 DEF Places
<1> HIDE DEF A, B
<1>5. f \in [A -> B] /\ \A a, b \in A : f[a] = f[b] => a = b
  BY <1>3
<1>6. \A l \in B : \E k \in A : f[k] = l
  BY <1>4
<1> HIDE DEF f
<1>7. f \in Bijection(A, B)
  BY <1>5, <1>6, Fun_IsBij
<1>8. Cardinality(B) = Cardinality(A)
  BY <1>2, <1>7, FS_Bijection DEF ExistsBijection
<1>9. Cardinality(B) = Cardinality(Places(s, X)) - In(Head(s), X)
  <2>1. 1 \in Places(s, X) <=> Head(s) \in X
    BY <1>1 DEF Places
  <2>2. Cardinality(B) = IF 1 \in Places(s, X) THEN Cardinality(Places(s, X)) - 1
                         ELSE Cardinality(Places(s, X))
    BY <1>2, FS_RemoveElement DEF B
  <2>. QED BY <1>2, <2>1, <2>2 DEF Among, In
<1>10. In(Head(s), X) \in Nat
  BY DEF In
<1>. QED BY <1>2, <1>8, <1>9, <1>10 DEF Among, A, t

\* A worker that exchanges one job for another.
LEMMA JobExchange ==
    ASSUME NEW w \in Worker, NEW x, NEW j, x # job[w], job'[w] = x,
           \A v \in Worker : v # w => job'[v] = job[v]
    PROVE  /\ Cardinality(Holders(job', j)) \in Nat
           /\ Cardinality(Holders(job', j)) + In(job[w], {j})
                  = Cardinality(Holders(job, j)) + In(x, {j})
<1> DEFINE H == Holders(job, j)
<1>1. /\ IsFiniteSet(H) /\ Cardinality(H) \in Nat
      /\ Cardinality(Holders(job', j)) \in Nat
  <2>1. H \in SUBSET Worker /\ Holders(job', j) \in SUBSET Worker
    BY DEF Holders
  <2>. QED BY <2>1, TestRunnerAssumption, FS_Subset, FS_CardinalityType
<1>a. Cardinality(H) = Cardinality(Holders(job, j))
  OBVIOUS
<1>2. CASE job[w] = j
  <2>1. Holders(job', j) = H \ {w} /\ w \in H /\ x # j
    BY <1>2 DEF Holders
  <2>2. Cardinality(H \ {w}) = Cardinality(H) - 1
    BY <1>1, <2>1, FS_RemoveElement
  <2>3. In(job[w], {j}) = 1 /\ In(x, {j}) = 0
    BY <1>2, <2>1 DEF In
  <2>4. Cardinality(Holders(job', j)) = Cardinality(H) - 1
    BY <2>1, <2>2, Zenon
  <2> HIDE DEF H
  <2>. QED BY <1>1, <1>a, <2>3, <2>4
<1>3. CASE job[w] # j /\ x = j
  <2>1. Holders(job', j) = H \cup {w} /\ w \notin H
    BY <1>3 DEF Holders
  <2>2. Cardinality(H \cup {w}) = Cardinality(H) + 1
    BY <1>1, <2>1, FS_AddElement
  <2>3. In(job[w], {j}) = 0 /\ In(x, {j}) = 1
    BY <1>3, <2>1 DEF In
  <2>4. Cardinality(Holders(job', j)) = Cardinality(H) + 1
    BY <2>1, <2>2, Zenon
  <2> HIDE DEF H
  <2>. QED BY <1>1, <1>a, <2>3, <2>4
<1>4. CASE job[w] # j /\ x # j
  <2>1. Holders(job', j) = H
    BY <1>4 DEF Holders
  <2>. QED BY <1>1, <1>4, <2>1 DEF In
<1>. QED BY <1>2, <1>3, <1>4

-----------------------------------------------------------------------------
(* Types.  A worker that waits for a job has none, one that runs one has.    *)
InHand ==
    \A w \in Worker : /\ at[w] = "get" => job[w] = 0
                      /\ at[w] = "run" => job[w] # 0

Entry == [of : Jobs, says : Status]

LEMMA JobsInterval == Len(Work) \in Nat /\ Jobs = 1 .. Len(Work) /\ 0 \notin Jobs
BY TestRunnerAssumption DEF Jobs

LEMMA StatusType == ASSUME NEW j PROVE StatusOf(j) \in Status /\ SuiteXml(j) \in Status
BY DEF StatusOf, SuiteXml, Status

LEMMA ReportedType ==
    ASSUME NEW o \in Outcome
    PROVE  [o EXCEPT !.code = ReturnCode(o)] \in OutcomeType
<1>1. o \in OutcomeType
  BY TestRunnerAssumption
<1>2. ReturnCode(o) \in Nat
  BY <1>1 DEF ReturnCode, OutcomeType
<1>. QED BY <1>1, <1>2 DEF OutcomeType

\* Every entry of the results file is one of the job it is written for.
LEMMA OneEntry ==
    ASSUME NEW j \in Jobs
    PROVE  \E x \in Entry : x.of = j /\ XmlEntries(j) = <<x>>
<1> DEFINE x == [of |-> j, says |-> IF CopiesXml(j) THEN SuiteXml(j) ELSE StatusOf(j)]
<1>1. x \in Entry /\ x.of = j
  BY StatusType DEF Entry
<1>2. XmlEntries(j) = <<x>>
  BY DEF XmlEntries
<1>. QED BY <1>1, <1>2

\* The main thread takes job j from the queue of results.
Collects(j) ==
    /\ pc = "collect" /\ output_queue # <<>> /\ j = Head(output_queue) /\ j \in Jobs
    /\ Len(collected) < Len(Work)
    /\ output_queue' = Tail(output_queue) /\ output_queue' \in Seq(Jobs)
    /\ collected' = Append(collected, j)
    /\ UNCHANGED <<dispatched, exitcode, at, job, isBreak, result, input_queue,
                   thread_exit>>
    /\ pc' \in {"collect", "raised"}
    /\ \/ /\ j \in isBreak /\ UNCHANGED <<pc, count, results>>
       \/ /\ j \notin isBreak
          /\ count' = [count EXCEPT ![StatusOf(j)] = @ + 1]
          /\ \/ pc' = "raised" /\ results' = results
             \/ \E x \in Entry : x.of = j /\ results' = Append(results, x)

LEMMA CollectCollects ==
    ASSUME TypeOK, Collect
    PROVE  Collects(Head(output_queue))
<1> DEFINE j == Head(output_queue)
<1>1. j \in Jobs /\ Tail(output_queue) \in Seq(Jobs)
  BY DEF Collect, TypeOK
<1>2. PICK x \in Entry : x.of = j /\ XmlEntries(j) = <<x>>
  BY <1>1, OneEntry
<1>3. results \o <<x>> = Append(results, x)
  BY DEF TypeOK, Entry
<1>4. results \o XmlEntries(j) = Append(results, x)
  BY <1>2, <1>3, Zenon
<1>5. UNCHANGED <<dispatched, exitcode, at, job, isBreak, result, input_queue,
                  thread_exit>>
  BY DEF Collect, workerVars
<1>6. pc' \in {"collect", "raised"}
  BY DEF Collect
<1>7. \/ /\ j \in isBreak /\ UNCHANGED <<pc, count, results>>
      \/ /\ j \notin isBreak
         /\ count' = [count EXCEPT ![StatusOf(j)] = @ + 1]
         /\ \/ pc' = "raised" /\ results' = results
            \/ results' = results \o XmlEntries(j)
  <2> DEFINE raises == CopiesXml(j) /\ ~result[j].xml
  <2>1. IF j \in isBreak
        THEN UNCHANGED <<pc, count, results>>
        ELSE /\ count' = [count EXCEPT ![StatusOf(j)] = @ + 1]
             /\ pc' = IF raises THEN "raised" ELSE pc
             /\ results' = IF raises THEN results ELSE results \o XmlEntries(j)
    BY DEF Collect
  <2> HIDE DEF raises, j
  <2>. QED BY <2>1
<1>8. /\ pc = "collect" /\ output_queue # <<>> /\ Len(collected) < Len(Work)
      /\ output_queue' = Tail(output_queue) /\ collected' = Append(collected, j)
  BY DEF Collect
<1> HIDE DEF j
<1>9. j = Head(output_queue)
  BY DEF j
<1>. QED BY <1>1, <1>2, <1>4, <1>5, <1>6, <1>7, <1>8, <1>9, Zenon DEF Collects

\* What a worker with a job does with it: it gives it back.
GivesBack(w) ==
    /\ job[w] \in Jobs /\ at[w] \in {"got", "run"}
    /\ output_queue' = Append(output_queue, job[w])
    /\ at' = [at EXCEPT ![w] = "get"]
    /\ job' = [job EXCEPT ![w] = 0]
    /\ UNCHANGED <<mainVars, input_queue, thread_exit>>
    /\ isBreak' \in {isBreak, isBreak \cup {job[w]}}
    /\ result' = result \/ \E r \in OutcomeType : result' = [result EXCEPT ![job[w]] = r]

LEMMA WorkerGivesBack ==
    ASSUME TypeOK, InHand, NEW w \in Worker,
           ThrowBack(w) \/ Skip(w) \/ \E o \in Outcome : Report(w, o)
    PROVE  GivesBack(w)
<1>1. job[w] \in Jobs \cup {0}
  BY DEF TypeOK
<1>2. CASE ThrowBack(w) \/ Skip(w)
  BY <1>1, <1>2 DEF ThrowBack, Skip, GivesBack
<1>3. ASSUME NEW o \in Outcome, Report(w, o) PROVE GivesBack(w)
  <2>1. job[w] # 0
    BY <1>3 DEF Report, InHand
  <2>2. /\ output_queue' = Append(output_queue, job[w])
        /\ at[w] = "run" /\ at' = [at EXCEPT ![w] = "get"]
        /\ job' = [job EXCEPT ![w] = 0]
        /\ UNCHANGED <<mainVars, isBreak, input_queue, thread_exit>>
    BY <1>3 DEF Report
  <2>3. \E r \in OutcomeType : result' = [result EXCEPT ![job[w]] = r]
    BY <1>3, ReportedType DEF Report
  <2>. QED BY <1>1, <2>1, <2>2, <2>3, Zenon DEF GivesBack
<1>. QED BY <1>2, <1>3

LEMMA TypeNext == TypeOK /\ InHand /\ [Next]_vars => TypeOK' /\ InHand'
<1> SUFFICES ASSUME TypeOK, InHand, [Next]_vars PROVE TypeOK' /\ InHand'
  OBVIOUS
<1> USE JobsInterval
<1>1. CASE Dispatch
  <2>1. dispatched + 1 \in Jobs /\ dispatched' \in Nat
    BY <1>1 DEF Dispatch, TypeOK
  <2>2. input_queue' \in Seq(Jobs \cup {0})
    BY <1>1, <2>1 DEF Dispatch, PutWork, TypeOK
  <2>3. UNCHANGED <<pc, collected, count, results, exitcode, at, job, isBreak,
                    result, output_queue, thread_exit>>
    BY <1>1 DEF Dispatch, workerVars
  <2>. QED BY <2>1, <2>2, <2>3 DEF TypeOK, InHand
<1>2. CASE DispatchBreak
  <2>1. dispatched' \in Nat
    BY <1>2 DEF DispatchBreak, TypeOK
  <2>2. input_queue' \in Seq(Jobs \cup {0})
    BY <1>2 DEF DispatchBreak, PutWork, TypeOK
  <2>3. UNCHANGED <<collected, count, results, exitcode, at, job, isBreak,
                    result, output_queue, thread_exit>>
        /\ pc' \in {"collect", pc}
    BY <1>2 DEF DispatchBreak, workerVars
  <2>. QED BY <2>1, <2>2, <2>3 DEF TypeOK, InHand
<1>3. CASE Collect
  <2> DEFINE j == Head(output_queue)
  <2>1. Collects(j)
    BY <1>3, CollectCollects
  <2> HIDE DEF j
  <2>2. collected' \in Seq(Jobs)
    BY <2>1 DEF Collects, TypeOK
  <2>3. count' \in [Status -> Nat]
    <3>1. count' = count \/ count' = [count EXCEPT ![StatusOf(j)] = @ + 1]
      BY <2>1, Zenon DEF Collects
    <3>2. StatusOf(j) \in Status /\ count \in [Status -> Nat]
      BY StatusType DEF TypeOK
    <3>. QED BY <3>1, <3>2
  <2>4. results' \in Seq(Entry)
    <3>1. results' = results \/ \E x \in Entry : results' = Append(results, x)
      BY <2>1, Zenon DEF Collects
    <3>2. results \in Seq(Entry)
      BY DEF TypeOK, Entry
    <3>. QED BY <3>1, <3>2
  <2>. QED BY <2>1, <2>2, <2>3, <2>4 DEF Collects, TypeOK, InHand, Entry
<1>4. CASE Finish
  BY <1>4 DEF Finish, ExitCode, workerVars, TypeOK, InHand
<1>5. CASE Sigint
  BY <1>5 DEF Sigint, mainVars, workerVars, TypeOK, InHand
<1>6. ASSUME NEW w \in Worker, Get(w) PROVE TypeOK' /\ InHand'
  <2>1. Head(input_queue) \in Jobs \cup {0} /\ input_queue' \in Seq(Jobs \cup {0})
    BY <1>6 DEF Get, TypeOK
  <2>2. at' = [at EXCEPT ![w] = "got"] /\ job' = [job EXCEPT ![w] = Head(input_queue)]
        /\ UNCHANGED <<mainVars, isBreak, result, output_queue, thread_exit>>
    BY <1>6 DEF Get
  <2>. QED BY <2>1, <2>2 DEF mainVars, TypeOK, InHand
<1>7. ASSUME NEW w \in Worker, Leave(w) \/ Launch(w) PROVE TypeOK' /\ InHand'
  BY <1>7 DEF Leave, Launch, mainVars, TypeOK, InHand
<1>8. ASSUME NEW w \in Worker,
             ThrowBack(w) \/ Skip(w) \/ \E o \in Outcome : Report(w, o)
      PROVE  TypeOK' /\ InHand'
  <2>1. GivesBack(w)
    BY <1>8, WorkerGivesBack
  <2>2. output_queue' \in Seq(Jobs)
    BY <2>1 DEF GivesBack, TypeOK
  <2>3. result' \in [Jobs -> OutcomeType \cup {None}] /\ isBreak' \subseteq Jobs
    <3>1. /\ job[w] \in Jobs /\ isBreak' \in {isBreak, isBreak \cup {job[w]}}
          /\ \/ result' = result
             \/ \E r \in OutcomeType : result' = [result EXCEPT ![job[w]] = r]
      BY <2>1, Zenon DEF GivesBack
    <3>2. result \in [Jobs -> OutcomeType \cup {None}] /\ isBreak \subseteq Jobs
      BY DEF TypeOK
    <3>3. isBreak' \subseteq Jobs
      BY <3>1, <3>2
    <3>. QED BY <3>1, <3>2, <3>3
  <2>4. at' \in [Worker -> {"get", "got", "run", "left"}]
        /\ job' \in [Worker -> Jobs \cup {0}] /\ InHand'
    BY <2>1 DEF GivesBack, TypeOK, InHand
  <2>5. UNCHANGED <<mainVars, input_queue, thread_exit>>
    BY <2>1 DEF GivesBack
  <2>. QED BY <2>2, <2>3, <2>4, <2>5 DEF mainVars, TypeOK
<1>9. CASE Exited \/ UNCHANGED vars
  BY <1>9 DEF Exited, vars, mainVars, workerVars, TypeOK, InHand
<1>. QED BY <1>1, <1>2, <1>3, <1>4, <1>5, <1>6, <1>7, <1>8, <1>9 DEF Next, Main, Step

LEMMA TypeInit == Init => TypeOK /\ InHand
<1> SUFFICES ASSUME Init PROVE TypeOK /\ InHand
  OBVIOUS
<1>1. count \in [Status -> Nat] /\ result \in [Jobs -> OutcomeType \cup {None}]
  BY DEF Init
<1>2. /\ input_queue \in Seq(Jobs \cup {0}) /\ output_queue \in Seq(Jobs)
      /\ collected \in Seq(Jobs) /\ results \in Seq([of : Jobs, says : Status])
  BY DEF Init
<1>3. /\ at \in [Worker -> {"get", "got", "run", "left"}]
      /\ job \in [Worker -> Jobs \cup {0}] /\ InHand
  BY DEF Init, InHand
<1>. QED BY <1>1, <1>2, <1>3 DEF Init, TypeOK

\* Queues, workers, counts and results of the test driver keep their types;
\* only jobs are reported and collected, never a break.
THEOREM RunnerTypeCorrect == Spec => []TypeOK
BY TypeInit, TypeNext, PTL DEF Spec

-----------------------------------------------------------------------------
(* Each job is in one place: what one queue or worker loses another gains.   *)
Total(j) == Among(input_queue, {j}) + Among(output_queue, {j})
                + Among(collected, {j}) + Cardinality(Holders(job, j))

Once == \A j \in Jobs : Total(j) = IF j <= dispatched THEN 1 ELSE 0

LEMMA OnceIsEachJobOnce == EachJobOnce <=> Once
<1>1. \A s, j : Occurrences(s, j) = Among(s, {j})
  BY DEF Occurrences, Among, Places
<1>2. \A j : {w \in Worker : job[w] = j} = Holders(job, j)
  BY DEF Holders
<1>3. \A j : Total(j) = Occurrences(input_queue, j) + Occurrences(output_queue, j)
                 + Occurrences(collected, j) + Cardinality({w \in Worker : job[w] = j})
  BY <1>1, <1>2, Zenon DEF Total
<1>. QED BY <1>3, Zenon DEF EachJobOnce, Once

LEMMA TotalType ==
    ASSUME TypeOK, NEW j
    PROVE  /\ Among(input_queue, {j}) \in Nat /\ Among(output_queue, {j}) \in Nat
           /\ Among(collected, {j}) \in Nat
           /\ IsFiniteSet(Holders(job, j)) /\ Cardinality(Holders(job, j)) \in Nat
<1>1. Holders(job, j) \in SUBSET Worker
  BY DEF Holders
<1>2. IsFiniteSet(Holders(job, j)) /\ Cardinality(Holders(job, j)) \in Nat
  BY <1>1, TestRunnerAssumption, FS_Subset, FS_CardinalityType
<1>. QED BY <1>2, AmongType DEF TypeOK

LEMMA InType == ASSUME NEW x, NEW X PROVE In(x, X) \in {0, 1}
BY DEF In

LEMMA DispatchOnce ==
    ASSUME TypeOK, Once, Dispatch \/ DispatchBreak
    PROVE  Once'
<1>1. UNCHANGED <<output_queue, collected, job>> /\ dispatched' = dispatched + 1
  BY DEF Dispatch, DispatchBreak, workerVars
<1>2. PICK x \in Jobs \cup {0} :
        /\ input_queue' = Append(input_queue, x)
        /\ \A j \in Jobs : (x = j <=> j = dispatched + 1)
  <2>1. CASE Dispatch
    <3>1. dispatched + 1 \in Jobs
      BY <2>1, JobsInterval DEF Dispatch, TypeOK
    <3>. QED BY <2>1, <3>1 DEF Dispatch, PutWork
  <2>2. CASE DispatchBreak
    <3>1. \A j \in Jobs : j # 0 /\ j # dispatched + 1
      BY <2>2, JobsInterval DEF DispatchBreak, TypeOK
    <3>. QED BY <2>2, <3>1 DEF DispatchBreak, PutWork
  <2>. QED BY <2>1, <2>2
<1>3. ASSUME NEW j \in Jobs PROVE Total(j)' = IF j <= dispatched' THEN 1 ELSE 0
  <2> DEFINE a == Among(input_queue, {j})
             b == Among(output_queue, {j})
             c == Among(collected, {j})
             d == Cardinality(Holders(job, j))
  <2>1. Among(input_queue', {j}) = a + In(x, {j})
    BY <1>2, AmongAppend DEF TypeOK
  <2>2. Total(j)' = Among(input_queue', {j}) + b + c + d
    BY <1>1 DEF Total
  <2>3. a \in Nat /\ b \in Nat /\ c \in Nat /\ d \in Nat
    BY TotalType
  <2>4. a + b + c + d = IF j <= dispatched THEN 1 ELSE 0
    BY DEF Once, Total
  <2>5. In(x, {j}) = IF j = dispatched + 1 THEN 1 ELSE 0
    BY <1>2 DEF In
  <2>6. j \in Nat /\ dispatched \in Nat
    BY JobsInterval DEF TypeOK
  <2> HIDE DEF a, b, c, d
  <2>. QED BY <1>1, <2>1, <2>2, <2>3, <2>4, <2>5, <2>6
<1>. QED BY <1>3 DEF Once

LEMMA GetOnce ==
    ASSUME TypeOK, InHand, Once, NEW w \in Worker, Get(w)
    PROVE  Once'
<1> DEFINE x == Head(input_queue)
<1>1. /\ UNCHANGED <<output_queue, collected, dispatched>>
      /\ input_queue # <<>> /\ input_queue' = Tail(input_queue)
      /\ job' = [job EXCEPT ![w] = x]
  BY DEF Get, mainVars
<1>2. job[w] = 0 /\ x \in Jobs \cup {0}
  BY DEF Get, InHand, TypeOK
<1>3. ASSUME NEW j \in Jobs PROVE Total(j)' = Total(j)
  <2> DEFINE b == Among(output_queue, {j})
             c == Among(collected, {j})
  <2>1. Among(input_queue, {j}) = Among(input_queue', {j}) + In(x, {j})
    BY <1>1, AmongTail DEF TypeOK
  <2>2. Cardinality(Holders(job', j)) = Cardinality(Holders(job, j)) + In(x, {j})
    <3>1. CASE x = 0
      <4>1. job' = job
        BY <1>1, <1>2, <3>1 DEF TypeOK
      <4>2. In(x, {j}) = 0
        BY <3>1, JobsInterval DEF In
      <4>. QED BY <4>1, <4>2, TotalType
    <3>2. CASE x # 0
      <4>1. In(0, {j}) = 0
        BY JobsInterval DEF In
      <4>2. /\ Cardinality(Holders(job', j)) \in Nat
            /\ Cardinality(Holders(job', j)) + In(job[w], {j})
                  = Cardinality(Holders(job, j)) + In(x, {j})
        <5>1. job \in [Worker -> Jobs \cup {0}] /\ x # job[w]
          BY <1>2, <3>2 DEF TypeOK
        <5>2. job'[w] = x /\ \A v \in Worker : v # w => job'[v] = job[v]
          BY <1>1, <5>1
        <5> HIDE DEF x
        <5>. QED BY <5>1, <5>2, JobExchange
      <4>. QED BY <1>2, <4>1, <4>2
    <3>. QED BY <3>1, <3>2
  <2>3. Total(j)' = Among(input_queue', {j}) + b + c + Cardinality(Holders(job', j))
    BY <1>1 DEF Total
  <2>4. Total(j) = Among(input_queue, {j}) + b + c + Cardinality(Holders(job, j))
    BY DEF Total
  <2>5. /\ Among(input_queue', {j}) \in Nat /\ In(x, {j}) \in {0, 1}
        /\ b \in Nat /\ c \in Nat /\ Cardinality(Holders(job, j)) \in Nat
    <3>1. Tail(input_queue) \in Seq(Jobs \cup {0})
      BY <1>1 DEF TypeOK
    <3>. QED BY <1>1, <3>1, TotalType, AmongType, InType
  <2> HIDE DEF b, c, x
  <2>. QED BY <2>1, <2>2, <2>3, <2>4, <2>5
<1>. QED BY <1>1, <1>3 DEF Once

LEMMA GivesBackOnce ==
    ASSUME TypeOK, Once, NEW w \in Worker, GivesBack(w)
    PROVE  Once'
<1> DEFINE x == job[w]
<1>1. /\ UNCHANGED <<input_queue, collected, dispatched>> /\ x \in Jobs
      /\ output_queue' = Append(output_queue, x)
      /\ job' = [job EXCEPT ![w] = 0]
  BY DEF GivesBack, mainVars
<1>2. x # 0
  BY <1>1, JobsInterval
<1>3. ASSUME NEW j \in Jobs PROVE Total(j)' = Total(j)
  <2> DEFINE a == Among(input_queue, {j})
             b == Among(output_queue, {j})
             c == Among(collected, {j})
             d == Cardinality(Holders(job, j))
             i == In(x, {j})
  <2>1. Among(output_queue', {j}) = b + i
    BY <1>1, AmongAppend DEF TypeOK
  <2>2. In(0, {j}) = 0
    BY JobsInterval DEF In
  <2>3. /\ Cardinality(Holders(job', j)) \in Nat
        /\ Cardinality(Holders(job', j)) + i = d + In(0, {j})
    <3>1. job \in [Worker -> Jobs \cup {0}] /\ 0 # job[w]
      BY <1>2 DEF TypeOK
    <3>2. job'[w] = 0 /\ \A v \in Worker : v # w => job'[v] = job[v]
      BY <1>1, <3>1
    <3>. QED BY <3>1, <3>2, JobExchange
  <2>4. Total(j)' = a + Among(output_queue', {j}) + c + Cardinality(Holders(job', j))
    BY <1>1 DEF Total
  <2>5. Total(j) = a + b + c + d
    BY DEF Total
  <2>6. a \in Nat /\ b \in Nat /\ c \in Nat /\ d \in Nat /\ i \in {0, 1}
    BY TotalType, InType
  <2> HIDE DEF a, b, c, d, i
  <2>. QED BY <2>1, <2>2, <2>3, <2>4, <2>5, <2>6
<1>. QED BY <1>1, <1>3 DEF Once

LEMMA CollectOnce ==
    ASSUME TypeOK, Once, NEW x, Collects(x)
    PROVE  Once'
<1>1. /\ UNCHANGED <<input_queue, job, dispatched>> /\ x \in Jobs
      /\ output_queue # <<>> /\ x = Head(output_queue)
      /\ output_queue' = Tail(output_queue) /\ output_queue' \in Seq(Jobs)
      /\ collected' = Append(collected, x)
  BY DEF Collects
<1>2. ASSUME NEW j \in Jobs PROVE Total(j)' = Total(j)
  <2> DEFINE a == Among(input_queue, {j})
             b == Among(output_queue', {j})
             c == Among(collected, {j})
             d == Cardinality(Holders(job, j))
             i == In(x, {j})
  <2>1. Among(output_queue, {j}) = b + i
    BY <1>1, AmongTail DEF TypeOK
  <2>2. Among(collected', {j}) = c + i
    BY <1>1, AmongAppend DEF TypeOK
  <2>3. Total(j)' = a + b + Among(collected', {j}) + d
    BY <1>1 DEF Total
  <2>4. Total(j) = a + Among(output_queue, {j}) + c + d
    BY DEF Total
  <2>5. a \in Nat /\ b \in Nat /\ c \in Nat /\ d \in Nat /\ i \in {0, 1}
    BY <1>1, TotalType, InType, AmongType
  <2> HIDE DEF a, b, c, d, i
  <2>. QED BY <2>1, <2>2, <2>3, <2>4, <2>5
<1>. QED BY <1>1, <1>2 DEF Once

LEMMA OnceNext == TypeOK /\ InHand /\ Once /\ [Next]_vars => Once'
<1> SUFFICES ASSUME TypeOK, InHand, Once, [Next]_vars PROVE Once'
  OBVIOUS
<1>1. CASE Collect
  BY <1>1, CollectCollects, CollectOnce
<1>2. ASSUME UNCHANGED <<input_queue, output_queue, collected, job, dispatched>>
      PROVE  Once'
  BY <1>2 DEF Once, Total
<1>3. CASE Finish \/ Sigint \/ Exited \/ UNCHANGED vars
  BY <1>2, <1>3 DEF Finish, Sigint, Exited, vars, mainVars, workerVars
<1>4. ASSUME NEW w \in Worker, Leave(w) \/ Launch(w) PROVE Once'
  BY <1>2, <1>4 DEF Leave, Launch, mainVars
<1>5. ASSUME NEW w \in Worker,
             ThrowBack(w) \/ Skip(w) \/ \E o \in Outcome : Report(w, o)
      PROVE  Once'
  BY <1>5, WorkerGivesBack, GivesBackOnce
<1>. QED BY <1>1, <1>3, <1>4, <1>5, DispatchOnce, GetOnce DEF Next, Main, Step

LEMMA OnceInit == Init => Once
<1> SUFFICES ASSUME Init, NEW j \in Jobs PROVE Total(j) = IF j <= dispatched THEN 1 ELSE 0
  BY DEF Once
<1>1. Places(<<>>, {j}) = {} /\ Holders(job, j) = {}
  BY JobsInterval DEF Init, Places, Holders
<1>2. Cardinality({}) = 0
  BY FS_EmptySet
<1>3. Total(j) = 0
  <2>1. Among(<<>>, {j}) = 0 /\ Cardinality(Holders(job, j)) = 0
    BY <1>1, <1>2, Zenon DEF Among
  <2>2. input_queue = <<>> /\ output_queue = <<>> /\ collected = <<>>
    BY DEF Init
  <2>. QED BY <2>1, <2>2 DEF Total
<1>4. ~(j <= dispatched)
  BY JobsInterval DEF Init
<1>. QED BY <1>3, <1>4

\* A job that test.py has dispatched is in one place, for any tests, workers
\* and outcomes: Control-C neither loses one nor has one reported twice.
THEOREM EachJobOnceCorrect == Spec => []EachJobOnce
BY OnceInit, OnceNext, OnceIsEachJobOnce, TypeInit, TypeNext, PTL DEF Spec

-----------------------------------------------------------------------------
(* The verdict.  A job that was collected is in no worker's hands, so what   *)
(* the main thread has counted and written of it stays true.                 *)
LEMMA InPlace ==
    ASSUME NEW T, NEW s \in Seq(T), NEW k \in DOMAIN s
    PROVE  Among(s, {s[k]}) >= 1
<1>1. k \in Places(s, {s[k]})
  BY DEF Places
<1>2. IsFiniteSet(Places(s, {s[k]})) /\ Among(s, {s[k]}) \in Nat
  BY AmongType
<1>3. Among(s, {s[k]}) # 0
  BY <1>1, <1>2, FS_EmptySet DEF Among
<1>. QED BY <1>2, <1>3

LEMMA AtMostOnce ==
    ASSUME TypeOK, Once, NEW j \in Jobs
    PROVE  /\ Among(collected, {j}) <= 1
           /\ \A w \in Worker : job[w] = j => Among(collected, {j}) = 0
           /\ output_queue # <<>> /\ Head(output_queue) = j => Among(collected, {j}) = 0
<1> DEFINE a == Among(input_queue, {j})
           b == Among(output_queue, {j})
           c == Among(collected, {j})
           d == Cardinality(Holders(job, j))
<1>1. a \in Nat /\ b \in Nat /\ c \in Nat /\ d \in Nat /\ IsFiniteSet(Holders(job, j))
  BY TotalType
<1>2. a + b + c + d <= 1
  BY DEF Once, Total
<1>3. ASSUME NEW w \in Worker, job[w] = j PROVE d >= 1
  <2>1. Holders(job, j) # {}
    BY <1>3 DEF Holders
  <2>2. d # 0
    BY <1>1, <2>1, FS_EmptySet
  <2> HIDE DEF d
  <2>. QED BY <1>1, <2>2
<1>4. ASSUME output_queue # <<>>, Head(output_queue) = j PROVE b >= 1
  <2>1. 1 \in DOMAIN output_queue /\ output_queue[1] = j /\ output_queue \in Seq(Jobs)
    BY <1>4 DEF TypeOK
  <2>. QED BY <2>1, InPlace
<1> HIDE DEF a, b, c, d
<1>5. c <= 1 /\ (d >= 1 => c = 0) /\ (b >= 1 => c = 0)
  BY <1>1, <1>2
<1>. QED BY <1>3, <1>4, <1>5 DEF c

LEMMA CollectedFree ==
    ASSUME TypeOK, Once, NEW w \in Worker, NEW k \in DOMAIN collected
    PROVE  job[w] # collected[k]
<1>1. collected[k] \in Jobs /\ collected \in Seq(Jobs)
  BY DEF TypeOK
<1>2. Among(collected, {collected[k]}) >= 1 /\ Among(collected, {collected[k]}) \in Nat
  BY <1>1, InPlace, AmongType
<1>. QED BY <1>1, <1>2, AtMostOnce

\* When as many jobs were collected as there are, each one was.
LEMMA AllCollected ==
    ASSUME TypeOK, Once, Len(collected) = Len(Work), NEW j \in Jobs
    PROVE  Among(collected, {j}) = 1 /\ \E k \in DOMAIN collected : collected[k] = j
<1>1. collected \in [Jobs -> Jobs] /\ DOMAIN collected = Jobs /\ collected \in Seq(Jobs)
  BY JobsInterval DEF TypeOK
<1>2. IsFiniteSet(Jobs)
  BY JobsInterval, FS_Interval
<1>3. ASSUME NEW a \in Jobs, NEW b \in Jobs, collected[a] = collected[b] PROVE a = b
  <2> DEFINE P == Places(collected, {collected[a]})
  <2>1. a \in P /\ b \in P
    BY <1>1, <1>3 DEF Places
  <2>2. IsFiniteSet(P) /\ Cardinality(P) \in Nat /\ Cardinality(P) <= 1
    <3>1. collected[a] \in Jobs
      BY <1>1
    <3>. QED BY <1>1, <3>1, AmongType, AtMostOnce DEF Among
  <2>3. Cardinality(P) # 0
    BY <2>1, <2>2, FS_EmptySet
  <2> HIDE DEF P
  <2>4. Cardinality(P) = 1
    BY <2>2, <2>3
  <2>5. \E x : P = {x}
    BY <2>2, <2>4, FS_Singleton
  <2>. QED BY <2>1, <2>5
<1>4. collected \in Injection(Jobs, Jobs)
  BY <1>1, <1>3, Fun_IsInj
<1>5. collected \in Surjection(Jobs, Jobs)
  BY <1>2, <1>4, FS_Injection
<1>6. PICK k \in Jobs : collected[k] = j
  BY <1>5, Fun_SurjectionProperties
<1>7. Among(collected, {j}) >= 1 /\ Among(collected, {j}) \in Nat
  BY <1>1, <1>6, InPlace, AmongType
<1>8. Among(collected, {j}) <= 1
  BY AtMostOnce
<1>. QED BY <1>1, <1>6, <1>7, <1>8

\* The jobs run_tests has no complaint about.
Fine == {j \in Jobs : j \notin isBreak /\ (IsSkip(j) \/ result[j].code = 0)}

\* The entries of the results file about job j.
EntriesOf(j) == {r \in Entry : r.of = j}

FineCounted == count["PASS"] + count["SKIP"] = Among(collected, Fine)

EntriesCounted ==
    pc # "raised" =>
        \A j \in Jobs : Among(results, EntriesOf(j))
                            = IF j \in isBreak THEN 0 ELSE Among(collected, {j})

VerdictRight ==
    pc = "done" => /\ \A w \in Worker : at[w] = "left"
                   /\ Len(collected) = Len(Work)
                   /\ exitcode = 0 <=> Jobs \subseteq Fine

Verdict == FineCounted /\ EntriesCounted /\ VerdictRight

LEMMA FineStatus ==
    ASSUME NEW j \in Jobs, j \notin isBreak
    PROVE  StatusOf(j) \in {"PASS", "SKIP"} <=> j \in Fine
<1>1. CASE IsSkip(j)
  BY <1>1 DEF StatusOf, Fine
<1>2. CASE ~IsSkip(j)
  BY <1>2 DEF StatusOf, Fine
<1>. QED BY <1>1, <1>2

LEMMA VerdictCollect ==
    ASSUME TypeOK, Once, Verdict, NEW j, Collects(j)
    PROVE  Verdict'
<1>1. /\ j \in Jobs /\ collected \in Seq(Jobs) /\ results \in Seq(Entry)
      /\ count \in [Status -> Nat]
  BY DEF Collects, TypeOK, Entry
<1>2. collected' = Append(collected, j) /\ UNCHANGED <<isBreak, result>>
      /\ pc = "collect" /\ pc' \in {"collect", "raised"}
  BY DEF Collects
<1>3. Fine' = Fine
  BY <1>2 DEF Fine
<1>4. FineCounted'
  <2> DEFINE g == Among(collected, Fine)
  <2>1. Among(collected', Fine') = g + In(j, Fine)
    BY <1>1, <1>2, <1>3, AmongAppend
  <2>2. count["PASS"] + count["SKIP"] = g
    BY DEF Verdict, FineCounted
  <2>3. CASE j \in isBreak
    <3>1. count' = count /\ j \notin Fine
      BY <2>3, Zenon DEF Collects, Fine
    <3>2. In(j, Fine) = 0
      BY <3>1 DEF In
    <3>3. g \in Nat
      BY <1>1, AmongType
    <3> HIDE DEF g
    <3>. QED BY <2>1, <2>2, <3>1, <3>2, <3>3 DEF FineCounted
  <2>4. CASE j \notin isBreak
    <3> DEFINE s == StatusOf(j)
    <3>1. count' = [count EXCEPT ![s] = @ + 1]
      BY <2>4, Zenon DEF Collects
    <3>2. s \in Status
      BY StatusType
    <3>3. s \in {"PASS", "SKIP"} <=> j \in Fine
      BY <1>1, <2>4, FineStatus
    <3>4. In(j, Fine) = IF s \in {"PASS", "SKIP"} THEN 1 ELSE 0
      BY <3>3, Zenon DEF In
    <3> HIDE DEF g, s
    <3>5. count'["PASS"] + count'["SKIP"]
             = count["PASS"] + count["SKIP"] + IF s \in {"PASS", "SKIP"} THEN 1 ELSE 0
      BY <1>1, <3>1, <3>2 DEF Status
    <3>. QED BY <2>1, <2>2, <3>4, <3>5 DEF FineCounted
  <2>. QED BY <2>3, <2>4
<1>5. ASSUME pc' # "raised", NEW i \in Jobs
      PROVE  Among(results', EntriesOf(i))
                 = IF i \in isBreak' THEN 0 ELSE Among(collected', {i})
  <2> DEFINE c == Among(collected, {i})
             r == Among(results, EntriesOf(i))
  <2>1. Among(collected', {i}) = c + In(j, {i})
    BY <1>1, <1>2, AmongAppend
  <2>2. r = IF i \in isBreak THEN 0 ELSE c
    BY <1>2 DEF Verdict, EntriesCounted
  <2>3. c \in Nat
    BY <1>1, AmongType
  <2>4. CASE j \in isBreak
    <3>1. results' = results
      BY <2>4, Zenon DEF Collects
    <3>2. i \notin isBreak => In(j, {i}) = 0
      BY <2>4 DEF In
    <3> HIDE DEF c
    <3>. QED BY <1>2, <2>1, <2>2, <2>3, <3>1, <3>2
  <2>5. CASE j \notin isBreak
    <3>1. PICK x \in Entry : x.of = j /\ results' = Append(results, x)
      BY <1>5, <2>5, Zenon DEF Collects
    <3>2. Among(results', EntriesOf(i)) = r + In(x, EntriesOf(i))
      BY <1>1, <3>1, AmongAppend
    <3>3. In(x, EntriesOf(i)) = In(j, {i})
      BY <3>1 DEF In, EntriesOf
    <3>4. In(j, {i}) = IF i = j THEN 1 ELSE 0
      BY DEF In
    <3>5. i \in isBreak => In(j, {i}) = 0
      BY <2>5, <3>4
    <3> HIDE DEF c, r
    <3>. QED BY <1>2, <2>1, <2>2, <2>3, <3>2, <3>3, <3>5
  <2>. QED BY <2>4, <2>5
<1>6. EntriesCounted'
  BY <1>5 DEF EntriesCounted, EntriesOf
<1>7. VerdictRight'
  BY <1>2 DEF VerdictRight
<1>. QED BY <1>4, <1>6, <1>7 DEF Verdict

LEMMA VerdictGivesBack ==
    ASSUME TypeOK, Once, Verdict, NEW w \in Worker, GivesBack(w)
    PROVE  Verdict'
<1>1. UNCHANGED <<pc, collected, count, results>>
  BY DEF GivesBack, mainVars
<1>2. /\ job[w] \in Jobs /\ at[w] \in {"got", "run"}
      /\ isBreak' \in {isBreak, isBreak \cup {job[w]}}
      /\ \/ result' = result
         \/ \E r \in OutcomeType : result' = [result EXCEPT ![job[w]] = r]
  BY DEF GivesBack
<1>3. \A j \in Jobs : j # job[w] => (j \in Fine' <=> j \in Fine)
  <2>1. ASSUME NEW j \in Jobs, j # job[w]
        PROVE  result'[j] = result[j] /\ (j \in isBreak' <=> j \in isBreak)
    BY <1>2, <2>1 DEF TypeOK
  <2>2. \A j : IsSkip(j)' <=> IsSkip(j)
    BY DEF IsSkip
  <2>. QED BY <2>1, <2>2 DEF Fine
<1>4. Places(collected, Fine') = Places(collected, Fine)
  <2>1. \A k \in DOMAIN collected : collected[k] \in Jobs /\ collected[k] # job[w]
    BY CollectedFree DEF TypeOK
  <2>. QED BY <1>3, <2>1 DEF Places
<1>5. FineCounted'
  <2>1. Among(collected, Fine') = Among(collected, Fine)
    BY <1>4 DEF Among
  <2>. QED BY <1>1, <2>1 DEF Verdict, FineCounted
<1>6. ASSUME pc' # "raised", NEW i \in Jobs
      PROVE  Among(results, EntriesOf(i))
                 = IF i \in isBreak' THEN 0 ELSE Among(collected, {i})
  <2>1. Among(results, EntriesOf(i)) = IF i \in isBreak THEN 0 ELSE Among(collected, {i})
    BY <1>1, <1>6 DEF Verdict, EntriesCounted
  <2>2. CASE i = job[w]
    <3>1. Among(collected, {i}) = 0
      BY <2>2, AtMostOnce
    <3>. QED BY <2>1, <3>1
  <2>3. CASE i # job[w]
    BY <1>2, <2>1, <2>3
  <2>. QED BY <2>2, <2>3
<1>7. EntriesCounted'
  BY <1>1, <1>6 DEF EntriesCounted, EntriesOf
<1>8. VerdictRight'
  BY <1>1, <1>2 DEF Verdict, VerdictRight
<1>. QED BY <1>5, <1>7, <1>8 DEF Verdict

\* Once all is collected the two counts add up to the number of tests just
\* when there is no complaint about any.
LEMMA CountsDecide ==
    ASSUME TypeOK, Once, FineCounted, Len(collected) = Len(Work)
    PROVE  count["PASS"] + count["SKIP"] = Len(Work) <=> Jobs \subseteq Fine
<1>1. collected \in Seq(Jobs) /\ DOMAIN collected = 1 .. Len(Work) /\ Len(Work) \in Nat
  BY JobsInterval DEF TypeOK
<1>2. IsFiniteSet(1 .. Len(Work)) /\ Cardinality(1 .. Len(Work)) = Len(Work)
  <2> DEFINE n == Len(Work)
  <2>1. n \in Nat
    BY <1>1
  <2> HIDE DEF n
  <2>2. /\ IsFiniteSet(1 .. n)
        /\ Cardinality(1 .. n) = IF 1 > n THEN 0 ELSE n - 1 + 1
    BY <2>1, FS_Interval
  <2>4. Cardinality(1 .. n) = n
    <3>1. CASE n = 0
      BY <2>2, <3>1
    <3>2. CASE n # 0
      <4>1. ~(1 > n) /\ n - 1 + 1 = n
        BY <2>1, <3>2
      <4>. QED BY <2>2, <4>1
    <3>. QED BY <3>1, <3>2
  <2>. QED BY <2>2, <2>4 DEF n
<1>3. Places(collected, Fine) \in SUBSET (1 .. Len(Work))
  BY <1>1 DEF Places
<1>4. Cardinality(Places(collected, Fine)) = Len(Work)
         <=> Places(collected, Fine) = 1 .. Len(Work)
  BY <1>2, <1>3, FS_Subset
<1>5. Places(collected, Fine) = 1 .. Len(Work) <=> Jobs \subseteq Fine
  <2>1. ASSUME Places(collected, Fine) = 1 .. Len(Work), NEW j \in Jobs
        PROVE  j \in Fine
    BY <1>1, <2>1, AllCollected DEF Places
  <2>2. ASSUME Jobs \subseteq Fine PROVE Places(collected, Fine) = 1 .. Len(Work)
    BY <1>1, <2>2 DEF Places
  <2>. QED BY <2>1, <2>2
<1>. QED BY <1>4, <1>5 DEF FineCounted, Among

LEMMA VerdictFinish ==
    ASSUME TypeOK, Once, Verdict, Finish
    PROVE  Verdict'
<1>1. /\ UNCHANGED <<collected, count, results, isBreak, result, at>>
      /\ pc = "collect" /\ pc' \in {"raised", "done"}
      /\ pc' = "done" => exitcode' = ExitCode
      /\ Len(collected) = Len(Work) /\ \A w \in Worker : at[w] = "left"
  BY DEF Finish, workerVars
<1>2. Fine' = Fine
  BY <1>1 DEF Fine
<1>3. FineCounted' /\ EntriesCounted'
  BY <1>1, <1>2 DEF Verdict, FineCounted, EntriesCounted, EntriesOf
<1>4. ExitCode = 0 <=> Jobs \subseteq Fine
  BY <1>1, CountsDecide DEF ExitCode, Verdict
<1>5. VerdictRight'
  BY <1>1, <1>2, <1>4 DEF VerdictRight
<1>. QED BY <1>3, <1>5 DEF Verdict

LEMMA VerdictNext == TypeOK /\ InHand /\ Once /\ Verdict /\ [Next]_vars => Verdict'
<1> SUFFICES ASSUME TypeOK, InHand, Once, Verdict, [Next]_vars PROVE Verdict'
  OBVIOUS
<1>1. CASE Collect
  BY <1>1, CollectCollects, VerdictCollect
<1>2. ASSUME UNCHANGED <<collected, count, results, isBreak, result>>,
             pc' = pc \/ {pc, pc'} \subseteq {"dispatch", "collect"},
             pc = "done" => UNCHANGED <<at, exitcode>>
      PROVE  Verdict'
  <2>1. Fine' = Fine
    BY <1>2 DEF Fine
  <2>2. FineCounted' /\ EntriesCounted'
    BY <1>2, <2>1 DEF Verdict, FineCounted, EntriesCounted, EntriesOf
  <2>3. VerdictRight'
    BY <1>2, <2>1 DEF Verdict, VerdictRight
  <2>. QED BY <2>2, <2>3 DEF Verdict
<1>3. CASE Dispatch \/ DispatchBreak
  BY <1>2, <1>3 DEF Dispatch, DispatchBreak, workerVars
<1>4. CASE Sigint \/ Exited \/ UNCHANGED vars
  BY <1>2, <1>4 DEF Sigint, Exited, vars, mainVars, workerVars
<1>5. ASSUME NEW w \in Worker, Get(w) \/ Leave(w) \/ Launch(w) PROVE Verdict'
  <2>1. UNCHANGED <<mainVars, isBreak, result>> /\ at[w] \in {"get", "got"}
    BY <1>5 DEF Get, Leave, Launch
  <2>2. pc # "done"
    BY <2>1 DEF Verdict, VerdictRight
  <2>. QED BY <1>2, <2>1, <2>2 DEF mainVars
<1>6. ASSUME NEW w \in Worker,
             ThrowBack(w) \/ Skip(w) \/ \E o \in Outcome : Report(w, o)
      PROVE  Verdict'
  BY <1>6, WorkerGivesBack, VerdictGivesBack
<1>. QED BY <1>1, <1>3, <1>4, <1>5, <1>6, VerdictFinish DEF Next, Main, Step

LEMMA VerdictInit == Init => Verdict
<1> SUFFICES ASSUME Init PROVE Verdict
  OBVIOUS
<1>1. \A X : Places(<<>>, X) = {}
  BY DEF Places
<1>2. Cardinality({}) = 0
  BY FS_EmptySet
<1>3. \A X : Among(<<>>, X) = 0
  BY <1>1, <1>2 DEF Among
<1>4. collected = <<>> /\ results = <<>> /\ count["PASS"] = 0 /\ count["SKIP"] = 0
  BY DEF Init, Status
<1>5. FineCounted /\ EntriesCounted
  BY <1>3, <1>4 DEF FineCounted, EntriesCounted
<1>. QED BY <1>5 DEF Init, Verdict, VerdictRight

LEMMA VerdictCorrect == Spec => [](TypeOK /\ Once /\ Verdict)
BY TypeInit, TypeNext, OnceInit, OnceNext, VerdictInit, VerdictNext, PTL DEF Spec

\* run_tests answers success just when every test was run, or skipped, and
\* those that were run passed: an interrupted run is never a success.
THEOREM SuccessIsCompleteCorrect == Spec => []SuccessIsComplete
<1>1. Verdict => SuccessIsComplete
  BY DEF Verdict, VerdictRight, Fine, SuccessIsComplete
<1>. QED BY <1>1, VerdictCorrect, PTL

\* At the end the results file has an entry for every job that was run or skipped,
\* one only but perhaps for suites that fail valgrind, and none for those that
\* were interrupted.
THEOREM ResultsCompleteCorrect == Spec => []ResultsComplete
<1>1. TypeOK /\ Once /\ Verdict => ResultsComplete
  <2> SUFFICES ASSUME TypeOK, Once, Verdict, pc = "done", NEW j \in Jobs
               PROVE  Cardinality({k \in DOMAIN results : results[k].of = j})
                          \in EntryCounts(j)
    BY DEF ResultsComplete
  <2>1. Among(collected, {j}) = 1
    BY AllCollected DEF Verdict, VerdictRight
  <2>2. Among(results, EntriesOf(j)) = IF j \in isBreak THEN 0 ELSE 1
    BY <2>1 DEF Verdict, EntriesCounted
  <2>3. \A k \in DOMAIN results : results[k] \in Entry
    <3>1. results \in Seq(Entry)
      BY DEF TypeOK, Entry
    <3>. QED BY <3>1
  <2>4. {k \in DOMAIN results : results[k].of = j} = Places(results, EntriesOf(j))
    BY <2>3 DEF Places, EntriesOf
  <2>. QED BY <2>2, <2>4 DEF Among, EntryCounts
<1>. QED BY <1>1, VerdictCorrect, PTL
=============================================================================
