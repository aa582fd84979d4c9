----------------------------- MODULE TestRunner -----------------------------
(***************************************************************************)
(* The test driver test.py: the main thread of run_tests puts the jobs of  *)
(* Work into input_queue, worker threads run them and put them into        *)
(* output_queue, and the main thread collects as many as it has put in.    *)
(* Control-C only sets a flag that the workers look at.                    *)
(*                                                                         *)
(* A job is its place in Work; 0 is the special job that ends a worker.    *)
(* What a test program does is a choice of Outcome: its return code,       *)
(* whether valgrind reports a leak, whether it wrote its XML file.         *)
(***************************************************************************)
EXTENDS Integers, Sequences, FiniteSets

CONSTANTS
    Work,         \* the tests to run, in the order they are dispatched
    Worker,       \* the worker threads, one per processor
    Valgrind,     \* options.valgrind
    Translate,    \* options.text or options.html is given
    Outcome,      \* what a test program may do
    None

TestType ==
    [kind : {"TestSuite", "Example", "PyExample"},
     asked : BOOLEAN,        \* by --example or --pyexample, never skipped
     noValgrind : BOOLEAN,   \* marked as not to be run under valgrind
     disabled : BOOLEAN]     \* what it needs is not configured

OutcomeType == [code : Nat, leak : BOOLEAN, xml : BOOLEAN]

ASSUME TestRunnerAssumption ==
    /\ Work \in Seq(TestType)
    /\ IsFiniteSet(Worker) /\ Worker # {}
    /\ Valgrind \in BOOLEAN /\ Translate \in BOOLEAN
    /\ Outcome \subseteq OutcomeType
    /\ None \notin OutcomeType

Jobs == DOMAIN Work

VARIABLES
    pc,            \* where the main thread is
    dispatched,    \* how many jobs, then breaks, the main thread has put
    input_queue, output_queue,
    at,            \* where each worker is
    job,           \* the job each worker has in hand
    thread_exit,   \* set by sigint_hook
    isBreak,       \* the jobs a worker has turned into breaks
    result,        \* the outcome of each job that was run, as recorded
    collected,     \* the jobs the main thread has got back, oldest first
    count,         \* passed_tests, failed_tests, ...
    results,       \* the entries of the results file
    exitcode

mainVars   == <<pc, dispatched, collected, count, results, exitcode>>
workerVars == <<at, job, isBreak, result>>
vars == <<mainVars, workerVars, input_queue, output_queue, thread_exit>>

Status == {"PASS", "FAIL", "VALGR", "CRASH", "SKIP"}

Init ==
    /\ pc = "dispatch"
    /\ dispatched = 0
    /\ input_queue = <<>> /\ output_queue = <<>>
    /\ at = [w \in Worker |-> "get"]
    /\ job = [w \in Worker |-> 0]
    /\ thread_exit = FALSE
    /\ isBreak = {}
    /\ result = [j \in Jobs |-> None]
    /\ collected = <<>>
    /\ count = [s \in Status |-> 0]
    /\ results = <<>>
    /\ exitcode = None

-----------------------------------------------------------------------------
\* Slip: the breaks are queued before the jobs.
PutFirst(j) == input_queue' = <<j>> \o input_queue

\* Queue.put on the work queue.
PutWork(j) == input_queue' = Append(input_queue, j)

\* One round of the loops that dispatch suites, examples and Python examples.
Dispatch ==
    /\ pc = "dispatch"
    /\ dispatched < Len(Work)
    /\ PutWork(dispatched + 1)
    /\ dispatched' = dispatched + 1
    /\ UNCHANGED <<pc, collected, count, results, exitcode, workerVars,
                   output_queue, thread_exit>>

\* One break per worker follows the jobs, then the main thread collects.
DispatchBreak ==
    /\ pc = "dispatch"
    /\ dispatched >= Len(Work)
    /\ PutWork(0)
    /\ dispatched' = dispatched + 1
    /\ pc' = IF dispatched + 1 = Len(Work) + Cardinality(Worker)
             THEN "collect" ELSE pc
    /\ UNCHANGED <<collected, count, results, exitcode, workerVars,
                   output_queue, thread_exit>>

\* sigint_hook.
Sigint ==
    /\ pc \in {"dispatch", "collect"}
    /\ ~thread_exit
    /\ thread_exit' = TRUE
    /\ UNCHANGED <<mainVars, workerVars, input_queue, output_queue>>

-----------------------------------------------------------------------------
\* The tests that are dispatched only to be reported as skipped.
IsSkip(j) ==
    LET t == Work[j]
    IN  /\ ~t.asked
        /\ \/ t.disabled
           \/ Valgrind /\ (t.noValgrind \/ t.kind = "PyExample")

\* worker_thread.run takes the next job.
Get(w) ==
    /\ at[w] = "get"
    /\ input_queue # <<>>
    /\ job' = [job EXCEPT ![w] = Head(input_queue)]
    /\ input_queue' = Tail(input_queue)
    /\ at' = [at EXCEPT ![w] = "got"]
    /\ UNCHANGED <<mainVars, isBreak, result, output_queue, thread_exit>>

\* Slip: the worker reports the break as it reports a job.
LeaveReports(w) ==
    /\ at[w] = "got" /\ job[w] = 0
    /\ at' = [at EXCEPT ![w] = "left"]
    /\ output_queue' = Append(output_queue, 0)
    /\ UNCHANGED <<mainVars, job, isBreak, result, input_queue, thread_exit>>

\* Slip: the worker passes the break on and goes on itself.
LeaveNever(w) ==
    /\ at[w] = "got" /\ job[w] = 0
    /\ at' = [at EXCEPT ![w] = "get"]
    /\ PutWork(0)
    /\ UNCHANGED <<mainVars, job, isBreak, result, output_queue, thread_exit>>

\* The break ends the worker.
Leave(w) ==
    /\ at[w] = "got" /\ job[w] = 0
    /\ at' = [at EXCEPT ![w] = "left"]
    /\ UNCHANGED <<mainVars, job, isBreak, result, input_queue, output_queue,
                   thread_exit>>

\* Slip: no continue after the job has been thrown back.
ThrowBackGoesOn(w) ==
    /\ at[w] = "got" /\ job[w] # 0
    /\ thread_exit
    /\ isBreak' = isBreak \cup {job[w]}
    /\ output_queue' = Append(output_queue, job[w])
    /\ at' = [at EXCEPT ![w] = "run"]
    /\ UNCHANGED <<mainVars, job, result, input_queue, thread_exit>>

\* After Control-C the job goes back as a break.
ThrowBack(w) ==
    /\ at[w] = "got" /\ job[w] # 0
    /\ thread_exit
    /\ isBreak' = isBreak \cup {job[w]}
    /\ output_queue' = Append(output_queue, job[w])
    /\ at' = [at EXCEPT ![w] = "get"]
    /\ job' = [job EXCEPT ![w] = 0]
    /\ UNCHANGED <<mainVars, result, input_queue, thread_exit>>

Skip(w) ==
    /\ at[w] = "got" /\ job[w] # 0
    /\ ~thread_exit /\ IsSkip(job[w])
    /\ output_queue' = Append(output_queue, job[w])
    /\ at' = [at EXCEPT ![w] = "get"]
    /\ job' = [job EXCEPT ![w] = 0]
    /\ UNCHANGED <<mainVars, isBreak, result, input_queue, thread_exit>>

Launch(w) ==
    /\ at[w] = "got" /\ job[w] # 0
    /\ ~thread_exit /\ ~IsSkip(job[w])
    /\ at' = [at EXCEPT ![w] = "run"]
    /\ UNCHANGED <<mainVars, job, isBreak, result, input_queue, output_queue,
                   thread_exit>>

\* run_job_synchronously: a leak only shows in what valgrind prints.
ReturnCode(o) == IF Valgrind /\ o.code = 0 /\ o.leak THEN 2 ELSE o.code

\* The test program ends with outcome o and the job is reported.
Report(w, o) ==
    /\ at[w] = "run"
    /\ result' = [result EXCEPT ![job[w]] = [o EXCEPT !.code = ReturnCode(o)]]
    /\ output_queue' = Append(output_queue, job[w])
    /\ at' = [at EXCEPT ![w] = "get"]
    /\ job' = [job EXCEPT ![w] = 0]
    /\ UNCHANGED <<mainVars, isBreak, input_queue, thread_exit>>

-----------------------------------------------------------------------------
\* The status printed for job j.
StatusOf(j) ==
    IF IsSkip(j) THEN "SKIP"
    ELSE CASE result[j].code = 0 -> "PASS"
           [] result[j].code = 1 -> "FAIL"
           [] result[j].code = 2 -> "VALGR"
           [] OTHER -> "CRASH"

\* What the XML file of a suite says of it: the suite knows no valgrind.
SuiteXml(j) == IF result[j].code = 1 THEN "FAIL" ELSE "PASS"

\* The suite's own XML file is copied: it ran to its end, so it says so itself.
CopiesXml(j) ==
    /\ Work[j].kind = "TestSuite" /\ ~IsSkip(j)
    /\ result[j].code \in 0 .. 2

\* Slip: only a suite that passed is taken to have an XML file.
XmlEntriesPassedOnly(j) ==
    IF ~CopiesXml(j) THEN <<[of |-> j, says |-> StatusOf(j)]>>
    ELSE IF result[j].code = 0 THEN <<[of |-> j, says |-> SuiteXml(j)]>> ELSE <<>>

\* The entries written for job j: what the suite wrote, or a made-up one.  The
\* made-up entry for VALGR is under the branch of the codes beyond 0 to 2.
XmlEntries(j) ==
    IF CopiesXml(j) THEN <<[of |-> j, says |-> SuiteXml(j)]>>
    ELSE <<[of |-> j, says |-> StatusOf(j)]>>

\* The made-up entry of a crashed suite is closed with the wrong tag.
WellFormed ==
    \A k \in DOMAIN results :
        ~(results[k].says = "CRASH" /\ Work[results[k].of].kind = "TestSuite")

\* One round of the loop that collects: a break is not counted, and a suite
\* without its XML file ends run_tests with an exception.
Collect ==
    LET j      == Head(output_queue)
        raises == CopiesXml(j) /\ ~result[j].xml
    IN  /\ pc = "collect"
        /\ Len(collected) < Len(Work)
        /\ output_queue # <<>>
        /\ output_queue' = Tail(output_queue)
        /\ collected' = Append(collected, j)
        /\ IF j \in isBreak
           THEN UNCHANGED <<pc, count, results>>
           ELSE /\ count' = [count EXCEPT ![StatusOf(j)] = @ + 1]
                /\ pc' = IF raises THEN "raised" ELSE pc
                /\ results' = IF raises THEN results
                              ELSE results \o XmlEntries(j)
        /\ UNCHANGED <<dispatched, exitcode, workerVars, input_queue,
                       thread_exit>>

\* Slip: the jobs that were thrown back are not missed.
ExitCodeOfFailures ==
    IF count["FAIL"] + count["CRASH"] + count["VALGR"] = 0 THEN 0 ELSE 1

\* What run_tests returns.
ExitCode == IF count["PASS"] + count["SKIP"] = Len(Work) THEN 0 ELSE 1

\* The workers are joined, the results translated, the verdict returned.
Finish ==
    /\ pc = "collect"
    /\ Len(collected) = Len(Work)
    /\ \A w \in Worker : at[w] = "left"
    /\ IF Translate /\ ~WellFormed
       THEN pc' = "raised" /\ UNCHANGED exitcode
       ELSE pc' = "done" /\ exitcode' = ExitCode
    /\ UNCHANGED <<dispatched, collected, count, results, workerVars,
                   input_queue, output_queue, thread_exit>>

MainOver == pc \in {"done", "raised"}

\* The interpreter ends once the last worker has.
Exited ==
    /\ MainOver
    /\ \A w \in Worker : at[w] = "left"
    /\ UNCHANGED vars

Main == Dispatch \/ DispatchBreak \/ Collect \/ Finish

Step(w) ==
    \/ Get(w) \/ Leave(w) \/ ThrowBack(w) \/ Skip(w) \/ Launch(w)
    \/ \E o \in Outcome : Report(w, o)

Next == Main \/ Sigint \/ (\E w \in Worker : Step(w)) \/ Exited

Spec == Init /\ [][Next]_vars

\* Threads are scheduled, and every test program ends.
FairSpec == Spec /\ WF_vars(Main) /\ \A w \in Worker : WF_vars(Step(w))

-----------------------------------------------------------------------------
TypeOK ==
    /\ pc \in {"dispatch", "collect", "done", "raised"}
    /\ dispatched \in Nat
    /\ input_queue \in Seq(Jobs \cup {0}) /\ output_queue \in Seq(Jobs)
    /\ at \in [Worker -> {"get", "got", "run", "left"}]
    /\ job \in [Worker -> Jobs \cup {0}]
    /\ thread_exit \in BOOLEAN
    /\ isBreak \subseteq Jobs
    /\ result \in [Jobs -> OutcomeType \cup {None}]
    /\ collected \in Seq(Jobs)
    /\ count \in [Status -> Nat]
    /\ results \in Seq([of : Jobs, says : Status])
    /\ exitcode \in {None, 0, 1}

Occurrences(s, j) == Cardinality({k \in DOMAIN s : s[k] = j})

\* A job that was dispatched is in one place: it waits, is in the hands of one
\* worker, was reported or was collected; none is lost, none is reported twice,
\* whenever Control-C comes.
EachJobOnce ==
    \A j \in Jobs :
        Occurrences(input_queue, j) + Occurrences(output_queue, j)
            + Occurrences(collected, j)
            + Cardinality({w \in Worker : job[w] = j})
                = IF j <= dispatched THEN 1 ELSE 0

\* A worker that has left leaves no job behind in the queue.
LeavesNoWork ==
    (\E w \in Worker : at[w] = "left") =>
        \A k \in DOMAIN input_queue : input_queue[k] = 0

\* run_tests reports success just when every test was run, or skipped, and
\* those that were run passed: an interrupted run is never a success.
SuccessIsComplete ==
    pc = "done" =>
        (exitcode = 0 <=>
            \A j \in Jobs : /\ j \notin isBreak
                            /\ IsSkip(j) \/ result[j].code = 0)

\* How many entries a job may have at the end: none if it was interrupted, else
\* one, besides which a suite that fails valgrind may have one that says so.
EntryCounts(j) ==
    IF j \in isBreak THEN {0}
    ELSE IF Work[j].kind = "TestSuite" /\ StatusOf(j) = "VALGR" THEN {1, 2}
    ELSE {1}

\* At the end no job that was run or skipped is missing from the results file, and
\* none is in it twice (but for what the comment on valgrind says of suites) or
\* although it was interrupted.
ResultsComplete ==
    pc = "done" =>
        \A j \in Jobs :
            Cardinality({k \in DOMAIN results : results[k].of = j}) \in EntryCounts(j)

\* The driver comes to its end, threads and all, also when the main thread dies
\* of an exception while jobs are still queued.
Ends == <>(MainOver /\ \A w \in Worker : at[w] = "left")
=============================================================================
