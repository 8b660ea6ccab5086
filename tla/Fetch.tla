------------------------------- MODULE Fetch --------------------------------
(***************************************************************************)
(* How one run's extract task asks UN Comtrade for what is missing.        *)
(*                                                                         *)
(* A query names a job (a month and a product) and a group of reporters.   *)
(* A response that reaches the row limit of the API is not accepted: the   *)
(* group is halved.  A request that fails for a passing reason is repeated *)
(* by the client a few times, an execution that still fails exits with 75  *)
(* and is repeated by Airflow a few times, and every HTTP attempt counts   *)
(* against the request budget of its execution.  An execution that exhausts*)
(* it exits with 2, which Airflow does not repeat: the operator executes   *)
(* the task again, and it resumes from the groups completed before.        *)
(* With ExtractOnly the task is the command --extract-only, which has the  *)
(* sources of its local root instead of a record of what is completed.     *)
(* Extract models what becomes of an accepted response.                    *)
(***************************************************************************)
EXTENDS Naturals, Sequences, SequencesExt

CONSTANTS NumJobs,      \* the planned (month, product) pairs are 1..NumJobs
          Markets,      \* the reporters, in the order of --reporters
          Volumes,      \* what the API may have: rows for each job and reporter
          RecordLimit,  \* rows of a response from which it counts as truncated
          Wanted,       \* the <<job, reporter>> pairs plan_jobs plans for
          MaxRequests,  \* --max-requests
          MaxAttempts,  \* attempts of the client for one query
          Retries,      \* retries of the Airflow task
          ExtractOnly,  \* whether the command is --extract-only
          MaxFaults     \* bound on requests, writes and workers that fail

Jobs == 1..NumJobs

Reporters == {Markets[i] : i \in 1..Len(Markets)}

ASSUME FetchAssumption ==
  /\ NumJobs \in Nat
  /\ Markets \in Seq(Reporters)
  /\ \A i, k \in 1..Len(Markets) : Markets[i] = Markets[k] => i = k
  /\ Volumes \subseteq [Jobs -> [Reporters -> Nat]]
  /\ RecordLimit \in Nat \ {0}
  /\ Wanted \subseteq Jobs \X Reporters
  /\ MaxRequests \in Nat \ {0}
  /\ MaxAttempts \in Nat \ {0}
  /\ Retries \in Nat
  /\ ExtractOnly \in BOOLEAN
  /\ MaxFaults \in Nat

VARIABLES rows,      \* rows[j][r]: the rows the API has for job j and reporter r
          completed, \* the pairs of extract-progress.json, answered or unavailable,
                     \* or those with sources in the local root
          task,      \* the state of the Airflow task
          tries,     \* executions of the task since it was last cleared
          queue,     \* the queries still to ask, halves in place of their group
          attempts,  \* attempts of the first query that have failed
          requests,  \* RequestBudget.requests of the execution
          sent,      \* HTTP requests sent since the task was last cleared (history)
          faults     \* faults so far (bound)

vars == <<rows, completed, task, tries, queue, attempts, requests, sent, faults>>

Pairs(q) == {<<q.job, q.group[i]>> : i \in 1..Len(q.group)}

Queued == UNION {Pairs(queue[i]) : i \in 1..Len(queue)}

-----------------------------------------------------------------------------
(* Planning *)

\* The elements of a sequence that are in S, in their order (SelectSeq as a function).
KeptUpTo(s, S) ==
  LET kept[n \in 0..Len(s)] ==
        IF n = 0 THEN <<>>
        ELSE IF s[n] \in S THEN Append(kept[n - 1], s[n]) ELSE kept[n - 1]
  IN kept

Kept(s, S) == KeptUpTo(s, S)[Len(s)]

\* Mutant: a resumed execution plans what is wanted again.
GroupAgain(j) == Kept(Markets, {r \in Reporters : <<j, r>> \in Wanted})

\* The reporters of a job that this run has not completed.
Group(j) == Kept(Markets, {r \in Reporters : <<j, r>> \in Wanted \ completed})

Query(j) == [job |-> j, group |-> Group(j)]

Plan == Kept([j \in Jobs |-> Query(j)], {Query(j) : j \in {j \in Jobs : Group(j) # <<>>}})

\* Mutant: the second half starts one reporter too late.
HalvesApart(q) ==
  LET middle == Len(q.group) \div 2 IN
  <<[q EXCEPT !.group = SubSeq(@, 1, middle)],
    [q EXCEPT !.group = SubSeq(@, middle + 2, Len(@))]>>

Halves(q) ==
  LET middle == Len(q.group) \div 2 IN
  <<[q EXCEPT !.group = SubSeq(@, 1, middle)],
    [q EXCEPT !.group = SubSeq(@, middle + 1, Len(@))]>>

Truncated(q) ==
  FoldLeft(LAMBDA n, r : n + rows[q.job][r], 0, q.group) >= RecordLimit

-----------------------------------------------------------------------------
Init ==
  /\ rows \in Volumes
  /\ completed = {}
  /\ task = "none"
  /\ tries = 0
  /\ queue = <<>>
  /\ attempts = 0
  /\ requests = 0
  /\ sent = 0
  /\ faults = 0

\* Airflow repeats what exits with 75, as long as it has retries left.
EndTask(code) ==
  task' = IF code = 0 THEN "success"
          ELSE IF code = 75 /\ tries <= Retries THEN "up_for_retry" ELSE "failed"

\* The execution ends and forgets what it had planned and counted.
Exit(code) ==
  /\ EndTask(code)
  /\ queue' = <<>>
  /\ attempts' = 0
  /\ requests' = 0

\* Airflow starts the task, or the operator clears it to execute it again.
Start ==
  /\ task \in {"none", "up_for_retry", "failed"}
  /\ task' = "running"
  /\ tries' = IF task = "up_for_retry" THEN tries + 1 ELSE 1
  /\ sent' = IF task = "up_for_retry" THEN sent ELSE 0
  /\ queue' = Plan
  /\ UNCHANGED <<rows, completed, attempts, requests, faults>>

Asking == task = "running" /\ queue # <<>>

Fault == faults < MaxFaults /\ faults' = faults + 1

\* Every attempt passes through the budget, and then reaches the API.
Send ==
  /\ Asking
  /\ requests < MaxRequests
  /\ sent' = sent + 1

\* Mutant: only the first attempt of a query counts.
SpentOnce == requests' = IF attempts = 0 THEN requests + 1 ELSE requests

Spent == requests' = requests + 1

\* Mutant: progress is kept until the end of the execution.
AcceptUnrecorded ==
  /\ Send /\ Spent
  /\ ~Truncated(Head(queue))
  /\ queue' = Tail(queue)
  /\ attempts' = 0
  /\ UNCHANGED <<rows, completed, task, tries, faults>>

\* What a later execution knows of an answer: a local root has no trace of a reporter
\* without rows.
Remembered(q) == {p \in Pairs(q) : ExtractOnly => rows[p[1]][p[2]] > 0}

\* The response is complete; its sources and the progress are written before the next
\* query.
Accept ==
  /\ Send /\ Spent
  /\ ~Truncated(Head(queue))
  /\ completed' = completed \cup Remembered(Head(queue))
  /\ queue' = Tail(queue)
  /\ attempts' = 0
  /\ UNCHANGED <<rows, task, tries, faults>>

Split ==
  /\ Send /\ Spent
  /\ Truncated(Head(queue))
  /\ Len(Head(queue).group) > 1
  /\ queue' = Halves(Head(queue)) \o Tail(queue)
  /\ attempts' = 0
  /\ UNCHANGED <<rows, completed, task, tries, faults>>

\* One reporter alone has more rows than the API returns.
TooLarge ==
  /\ Send
  /\ Truncated(Head(queue))
  /\ Len(Head(queue).group) = 1
  /\ Exit(1)
  /\ UNCHANGED <<rows, completed, tries, faults>>

\* Mutant: one attempt too many.
RetryAgain ==
  /\ Send /\ Spent
  /\ Fault
  /\ attempts < MaxAttempts
  /\ attempts' = attempts + 1
  /\ UNCHANGED <<rows, completed, task, tries, queue>>

\* A time-out, a lost connection, a quota or a server error: the client tries again.
Retry ==
  /\ Send /\ Spent
  /\ Fault
  /\ attempts + 1 < MaxAttempts
  /\ attempts' = attempts + 1
  /\ UNCHANGED <<rows, completed, task, tries, queue>>

GiveUp ==
  /\ Send
  /\ Fault
  /\ attempts + 1 >= MaxAttempts
  /\ Exit(75)
  /\ UNCHANGED <<rows, completed, tries>>

\* exit_for_error: 75 for what is transient, 1 for everything else.
ErrorCode == {1, 75}

\* The request is refused or the response breaks the contract; or the response is
\* accepted and a write to S3 fails before its progress is recorded.
Refuse ==
  /\ Send
  /\ Fault
  /\ \E code \in ErrorCode : Exit(code)
  /\ UNCHANGED <<rows, completed, tries>>

\* BudgetExhausted, at whichever attempt.
Exhaust ==
  /\ Asking
  /\ requests >= MaxRequests
  /\ Exit(2)
  /\ UNCHANGED <<rows, completed, tries, sent, faults>>

\* extract.json is written.
Finish ==
  /\ task = "running"
  /\ queue = <<>>
  /\ Exit(0)
  /\ UNCHANGED <<rows, completed, tries, sent, faults>>

\* The process is killed, or Airflow loses the worker and counts it as a try.
Crash ==
  /\ task = "running"
  /\ Fault
  /\ \E code \in {1, 75} : Exit(code)
  /\ UNCHANGED <<rows, completed, tries, sent>>

Work == Accept \/ Split \/ TooLarge \/ Exhaust \/ Finish

Next == Start \/ Work \/ Retry \/ GiveUp \/ Refuse \/ Crash

\* A process goes on (a request has a time-out); Airflow and the operator start the
\* task again as the exit codes tell them to.
Spec == Init /\ [][Next]_vars /\ WF_vars(Start) /\ WF_vars(Work)

-----------------------------------------------------------------------------
\* Every query, counter and record has the shape the code gives it.
TypeOK ==
  /\ rows \in Volumes
  /\ completed \subseteq Wanted
  /\ task \in {"none", "running", "up_for_retry", "failed", "success"}
  /\ tries \in 0..(Retries + 1)
  /\ \A i \in 1..Len(queue) :
       queue[i].job \in Jobs /\ queue[i].group \in Seq(Reporters) \ {<<>>}
  /\ attempts \in 0..(MaxAttempts - 1)
  /\ requests \in 0..MaxRequests
  /\ sent \in Nat
  /\ faults \in 0..MaxFaults

\* Halving and resuming lose nothing: what is wanted is done or still to be asked
\* while the task executes, and done when it succeeds.
NothingSkipped ==
  /\ task = "running" => Wanted \subseteq completed \cup Queued
  /\ task = "success" => Wanted \subseteq completed

\* However requests are retried, split and repeated by Airflow, a task sends no more
\* than its budget for each of its executions; and without an operator it is only
\* executed again because of a fault, never because its budget is exhausted or a
\* response is too large.
RequestsBounded ==
  /\ sent <= tries * MaxRequests
  /\ tries <= faults + 1

\* Nothing that is completed is asked of the API again, in this or a later execution.
AskedOnce == [][sent' > sent => Pairs(Head(queue)) \cap completed = {}]_vars

\* When faults stop, the operator's resumptions complete the run, unless a reporter
\* alone reaches the row limit: every execution completes a group as long as the
\* budget exceeds the depth of the halving.
EveryReporterFits == \A p \in Wanted : rows[p[1]][p[2]] < RecordLimit

Completes == EveryReporterFits => <>[](task = "success")

\* An extraction that has stopped for its budget completes when it is executed again
\* often enough: src/README.md:30 says that sources which are there are skipped, and
\* that executing the command again continues.
ContinuesWhenRepeated == EveryReporterFits => <>(task = "success")

=============================================================================
