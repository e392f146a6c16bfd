------------------------------ MODULE Crontab ------------------------------
(***************************************************************************)
(* The job list of the crontab (src/libwzd-core/wzd_crontab.c) and the     *)
(* threads that use it: one thread per job that calls cronjob_add() or     *)
(* cronjob_add_once() for it, and the crontab thread that calls            *)
(* cronjob_run() once per second (_crontab_thread_fund).                   *)
(*                                                                         *)
(* Every section the code runs under SET_MUTEX_CRONTAB is one action.  The *)
(* steps the code takes without the lock are actions of their own, so the *)
(* model has the interleavings the code has:                               *)
(*   - cronjob_add computes next_run from time() before it takes the lock; *)
(*   - cronjob_run reads the head of the list and time() before it takes   *)
(*     the lock (lines 285-292), and frees the finished one-shot jobs in a *)
(*     second critical section after it has released the lock.            *)
(* The jobs' hooks run inside the first critical section of cronjob_run;   *)
(* their effect is recorded as lastRun, the time the run was made for.    *)
(*                                                                         *)
(* The server's main thread calls crontab_start once and crontab_stop once *)
(* (their callers are not in src/).  _crontab_running is set by the new    *)
(* thread when it begins, and tested by the loop after each cronjob_run;   *)
(* the test is folded into the step that ends the iteration, since the     *)
(* thread touches nothing between the two.                                 *)
(***************************************************************************)
EXTENDS Integers, Sequences, SequencesExt, FiniteSets

CONSTANTS
  Jobs,        \* the cron jobs (wzd_cronjob_t) of a run
  JobSpec,     \* JobSpec[j]: j's cron fields, a CronDate job specification
  OnceDate,    \* OnceDate[j]: the date cronjob_add_once is given for j
  MaxTime,     \* time() stops advancing here
  NoJob,       \* a NULL job pointer
  SecPerMin, MinPerHour, HourPerDay, MonthDays

\* The date arithmetic; the schedule check of CronDate is not used here.
Date == INSTANCE CronDate WITH Years <- 0, Specs <- {}, start <- 0, spec <- NoJob

ASSUME CrontabAssumption ==
  /\ MaxTime \in Nat /\ NoJob \notin Jobs
  /\ \A j \in Jobs : JobSpec[j].once => OnceDate[j] \in 1..MaxTime

VARIABLES
  now,       \* what time() returns
  crontab,   \* the list *crontab, head first
  nextRun,   \* nextRun[j]: j->next_run
  addPc,     \* where the thread adding j is: "idle", "computed", "added"
  cronPc,    \* where the crontab thread is: "sleep", "snapped", "free"
  snapJob,   \* cronjob_run's local job, read from *crontab without the lock
  snapNow,   \* cronjob_run's local now
  toFree,    \* cronjob_run's local jobs_to_free
  freed,     \* the jobs cronjob_free has freed
  lastRun,   \* lastRun[j]: the now of the latest cronjob_run that ran j's hook
  running,   \* _crontab_running
  cthread,   \* the crontab thread: "none", "created", "loop", "exited"
  mainPc     \* the main thread: "init", "started", "joining", "stopped"

lifeVars == <<running, cthread, mainPc>>
vars == <<now, crontab, nextRun, addPc, cronPc, snapJob, snapNow, toFree,
          freed, lastRun, lifeVars>>

\* cronjob_find_next_exec_date(t, j's fields) for every time of a run,
\* computed once.
NextExec == [j \in Jobs, t \in 0..MaxTime |-> Date!NextExecDate(t, JobSpec[j])]

-----------------------------------------------------------------------------
(* Seeded faults in the code the properties are about.                     *)

\* _crontab_insert_sorted without the head insertion of a smaller job.
InsertSortedNoHeadCase(job, list, nr) ==
  IF list = <<>> THEN <<job>>
  ELSE LET c == Min({k \in 1..Len(list) :
                       k = Len(list) \/ nr[job] <= nr[list[k+1]]})
       IN InsertAt(list, c + 1, job)

\* _crontab_insert_sorted linking current to job before job to current's
\* successor: the rest of the list is cut off.
InsertSortedLosesTail(job, list, nr) ==
  IF list = <<>> \/ nr[job] < nr[list[1]] THEN <<job>> \o list
  ELSE LET c == Min({k \in 1..Len(list) :
                       k = Len(list) \/ nr[job] <= nr[list[k+1]]})
       IN SubSeq(list, 1, c) \o <<job>>

-----------------------------------------------------------------------------
\* _crontab_insert_sorted (lines 51-81): at the head when the list is empty
\* or job is earlier than the head; otherwise after the last element
\* reached by walking while the next one is earlier than job.
InsertSorted(job, list, nr) ==
  IF list = <<>> \/ nr[job] < nr[list[1]] THEN <<job>> \o list
  ELSE LET c == Min({k \in 1..Len(list) :
                       k = Len(list) \/ nr[job] <= nr[list[k+1]]})
       IN InsertAt(list, c + 1, job)

\* cronjob_run's test "now >= job->next_run" (line 297).
IsDue(t, at) == at >= t

\* The second loop of cronjob_run (lines 316-334): while the head has
\* next_run 0, pop it, compute its next date from now, and insert it again
\* or put it on jobs_to_free.
RECURSIVE Requeue(_, _, _, _)
Requeue(list, nr, free, at) ==
  IF list = <<>> \/ nr[Head(list)] # 0 THEN [list |-> list, nr |-> nr, free |-> free]
  ELSE LET job == Head(list)
           nr2 == [nr EXCEPT ![job] = NextExec[job, at]]
       IN IF nr2[job] # 0
          THEN Requeue(InsertSorted(job, Tail(list), nr2), nr2, free, at)
          ELSE Requeue(Tail(list), nr2, free \cup {job}, at)

-----------------------------------------------------------------------------
Init ==
  /\ now = 0
  /\ crontab = <<>>
  /\ nextRun = [j \in Jobs |-> 0]
  /\ addPc = [j \in Jobs |-> "idle"]
  /\ cronPc = "sleep"
  /\ snapJob = NoJob
  /\ snapNow = 0
  /\ toFree = {}
  /\ freed = {}
  /\ lastRun = [j \in Jobs |-> -1]
  /\ running = FALSE /\ cthread = "none" /\ mainPc = "init"

\* The clock advances by one second.
Tick ==
  /\ now < MaxTime
  /\ now' = now + 1
  /\ UNCHANGED <<crontab, nextRun, addPc, cronPc, snapJob, snapNow, toFree,
                 freed, lastRun, lifeVars>>

\* cronjob_add, up to the lock: next_run from time() (lines 220-222).
CronjobAdd(j) ==
  /\ addPc[j] = "idle" /\ ~JobSpec[j].once
  /\ nextRun' = [nextRun EXCEPT ![j] = NextExec[j, now]]
  /\ addPc' = [addPc EXCEPT ![j] = "computed"]
  /\ UNCHANGED <<now, crontab, cronPc, snapJob, snapNow, toFree, freed, lastRun, lifeVars>>

\* cronjob_add_once, up to the lock: next_run = date (line 265).
CronjobAddOnce(j) ==
  /\ addPc[j] = "idle" /\ JobSpec[j].once
  /\ nextRun' = [nextRun EXCEPT ![j] = OnceDate[j]]
  /\ addPc' = [addPc EXCEPT ![j] = "computed"]
  /\ UNCHANGED <<now, crontab, cronPc, snapJob, snapNow, toFree, freed, lastRun, lifeVars>>

\* The locked insertion both end with (lines 230-232 and 276-278).
Insert(j) ==
  /\ addPc[j] = "computed"
  /\ crontab' = InsertSorted(j, crontab, nextRun)
  /\ addPc' = [addPc EXCEPT ![j] = "added"]
  /\ UNCHANGED <<now, nextRun, cronPc, snapJob, snapNow, toFree, freed, lastRun, lifeVars>>

\* cronjob_run's unlocked test "!job || now < job->next_run", negated
\* (lines 285-292).  When it is false cronjob_run returns at once: a
\* stuttering step, left to [Next]_vars.
HeadDue == crontab # <<>> /\ now >= nextRun[Head(crontab)]

\* cronjob_run before the lock, when the head is due: job and now are read.
CronSnapshot ==
  /\ cthread = "loop" /\ cronPc = "sleep"
  /\ HeadDue
  /\ snapJob' = Head(crontab) /\ snapNow' = now
  /\ cronPc' = "snapped"
  /\ UNCHANGED <<now, crontab, nextRun, addPc, toFree, freed, lastRun, lifeVars>>

\* cronjob_run's critical section (lines 294-336): from job on, run every
\* consecutive due job and set its next_run to 0; then requeue the heads
\* whose next_run is 0.
CronRunLocked ==
  LET p   == CHOOSE k \in 1..Len(crontab) : crontab[k] = snapJob
      ran == {crontab[k] : k \in {k \in p..Len(crontab) :
                \A m \in p..k : IsDue(nextRun[crontab[m]], snapNow)}}
      nr  == [j \in Jobs |-> IF j \in ran THEN 0 ELSE nextRun[j]]
      r   == Requeue(crontab, nr, {}, snapNow)
  IN /\ cthread = "loop" /\ cronPc = "snapped"
     /\ lastRun' = [j \in Jobs |-> IF j \in ran THEN snapNow ELSE lastRun[j]]
     /\ crontab' = r.list /\ nextRun' = r.nr /\ toFree' = r.free
     /\ cronPc' = "free"
     /\ UNCHANGED <<now, addPc, snapJob, snapNow, freed, lifeVars>>

\* The loop test "while (_crontab_running)" (line 414): the thread
\* returns when it reads 0.
LoopTest == IF running THEN cthread' = cthread ELSE cthread' = "exited"

\* cronjob_free(&jobs_to_free) (lines 339, 344-368), then the loop test.
CronFree ==
  /\ cthread = "loop" /\ cronPc = "free"
  /\ freed' = freed \cup toFree
  /\ toFree' = {}
  /\ cronPc' = "sleep"
  /\ LoopTest
  /\ UNCHANGED <<now, crontab, nextRun, addPc, snapJob, snapNow, lastRun,
                 running, mainPc>>

\* cronjob_run returning at once, the head not due, then the loop test
\* when it ends the thread (otherwise a stuttering step).
CronIdle ==
  /\ cthread = "loop" /\ cronPc = "sleep" /\ ~HeadDue /\ ~running
  /\ cthread' = "exited"
  /\ UNCHANGED <<now, crontab, nextRun, addPc, cronPc, snapJob, snapNow, toFree,
                 freed, lastRun, running, mainPc>>

CronThread == CronSnapshot \/ CronRunLocked \/ CronFree \/ CronIdle

\* _crontab_thread_fund begins (line 410): _crontab_running = 1.
ThreadBegin ==
  /\ cthread = "created"
  /\ running' = TRUE /\ cthread' = "loop"
  /\ UNCHANGED <<now, crontab, nextRun, addPc, cronPc, snapJob, snapNow, toFree,
                 freed, lastRun, mainPc>>

\* crontab_start (lines 370-382): nothing when _crontab_running is set,
\* else wzd_thread_create.
CrontabStart ==
  /\ mainPc = "init"
  /\ cthread' = IF running THEN cthread ELSE "created"
  /\ mainPc' = "started"
  /\ UNCHANGED <<now, crontab, nextRun, addPc, cronPc, snapJob, snapNow, toFree,
                 freed, lastRun, running>>

\* crontab_stop (lines 385-396) up to the join: it returns at once when
\* _crontab_running is 0, else clears it and waits.
CrontabStop ==
  /\ mainPc = "started"
  /\ IF running THEN mainPc' = "joining" ELSE mainPc' = "stopped"
  /\ running' = FALSE
  /\ UNCHANGED <<now, crontab, nextRun, addPc, cronPc, snapJob, snapNow, toFree,
                 freed, lastRun, cthread>>

\* wzd_thread_join returns when the crontab thread has returned.
CrontabJoin ==
  /\ mainPc = "joining" /\ cthread = "exited"
  /\ mainPc' = "stopped"
  /\ UNCHANGED <<now, crontab, nextRun, addPc, cronPc, snapJob, snapNow, toFree,
                 freed, lastRun, running, cthread>>

MainThread == CrontabStart \/ CrontabStop \/ CrontabJoin

Next ==
  \/ Tick
  \/ \E j \in Jobs : CronjobAdd(j) \/ CronjobAddOnce(j) \/ Insert(j)
  \/ CronThread \/ ThreadBegin
  \/ MainThread

\* The crontab thread loops until it reads _crontab_running 0, a created
\* thread is scheduled, and the adding threads block only on the mutex,
\* which every critical section releases: each is weakly fair.  When the
\* server starts and stops the crontab is its choice; only the join,
\* which returns once the thread has, is fair.
Spec == Init /\ [][Next]_vars
        /\ WF_vars(Tick) /\ WF_vars(CronThread) /\ WF_vars(ThreadBegin)
        /\ WF_vars(CrontabJoin)
        /\ \A j \in Jobs : WF_vars(CronjobAdd(j) \/ CronjobAddOnce(j) \/ Insert(j))

-----------------------------------------------------------------------------
Listed(j) == \E k \in 1..Len(crontab) : crontab[k] = j

\* The list stays in ascending next_run order apart from jobs marked 0 for
\* requeueing: cronjob_run only looks at the first entries because "list
\* is sorted" (line 296), so a later job earlier than one before it would
\* not be run when due.
NonZeroSorted ==
  IsSorted(SelectSeq(crontab, LAMBDA j : nextRun[j] # 0),
           LAMBDA a, b : nextRun[a] <= nextRun[b])

\* Every job that has been added is in exactly one place, once: in the
\* list, on cronjob_run's jobs_to_free, or freed; and only one-shot jobs
\* are ever freed, a recurring job is requeued for ever.
JobAccounting ==
  /\ \A j \in Jobs : addPc[j] = "added" =>
       Cardinality({k \in 1..Len(crontab) : crontab[k] = j})
         + (IF j \in toFree THEN 1 ELSE 0) + (IF j \in freed THEN 1 ELSE 0) = 1
  /\ \A j \in toFree \cup freed : JobSpec[j].once

\* §2 (Scheduled Job): a job with next-run 0 is due for rescheduling or
\* removal and is never left in the live list once cronjob_run has let the
\* lock go.
ZeroNeverLive ==
  \A k \in 1..Len(crontab) : nextRun[crontab[k]] # 0

\* A job in the list whose next_run has come is eventually run and given a
\* later date (or dropped), unless _crontab_running is 0: cronjob_run,
\* called every second while the crontab runs, reaches every due job, the
\* ones behind the head included.
Due(j) == Listed(j) /\ nextRun[j] <= now

StopEndsThread == mainPc = "stopped" => cthread \in {"none", "exited"}
-----------------------------------------------------------------------------
(* The values the runs give the constants: three jobs (Jobs is a set of    *)
(* three model values) on a calendar of one-second minutes, three-minute   *)
(* hours and two-hour days: "* * * * *" (every minute), "1 * * * *" (minute *)
(* 1 of every hour) and a one-shot job for second 2.                       *)

MCJob1 == CHOOSE j \in Jobs : TRUE
MCJob2 == CHOOSE j \in Jobs \ {MCJob1} : TRUE

MCJobSpec ==
  [j \in Jobs |-> [once |-> j \notin {MCJob1, MCJob2}, min |-> IF j = MCJob2 THEN 1 ELSE -1,
                   hour |-> -1, mday |-> -1, month |-> -1]]

MCOnceDate == [j \in Jobs |-> 2]

MCMonthDays == <<2, 2>>
=============================================================================
