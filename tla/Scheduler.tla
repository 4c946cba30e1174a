----------------------------- MODULE Scheduler -----------------------------
(***************************************************************************)
(* The background scheduler, workers/scheduler.py: one interval job per    *)
(* active source, a one-shot retry job while a source backs off, the DNS   *)
(* breaker that switches a dead host off, and the loop that re-reads the   *)
(* sources table.                                                          *)
(*                                                                         *)
(* The scheduler is one event loop: a step below is what happens between   *)
(* two awaits.  The awaits are the database calls, the sync itself and the *)
(* refresh loop's sleep.  APScheduler counts running instances per job id, *)
(* so an interval run and a retry run of one source exclude only their own *)
(* kind; a date job is removed from the store when it comes due, whether   *)
(* or not it could be started.  The environment is the admin who edits the *)
(* table, the database that comes and goes, the outlet's host, and a       *)
(* restart of the process.                                                 *)
(***************************************************************************)
EXTENDS Integers

CONSTANTS
    Source,        \* rows of the sources table
    Interval,      \* poll_interval_seconds of a source, in ticks
    Stagger,       \* _stagger of a source, in ticks
    MaxBackoff,    \* MAX_BACKOFF_SECONDS, in ticks
    RefreshEvery,  \* REFRESH_INTERVAL_SECONDS, in ticks
    DnsThreshold,  \* DNS_FAILURE_DISABLE_THRESHOLD
    MaxFails,      \* bound: the failure counter is not told apart above this
    MaxRestarts    \* bound: how often the process is restarted

ASSUME SchedulerAssumption ==
    /\ Interval \in [Source -> Nat \ {0}]
    /\ Stagger \in [Source -> Nat]
    /\ MaxBackoff \in Nat \ {0}
    /\ RefreshEvery \in Nat \ {0}
    /\ DnsThreshold \in Nat \ {0}
    /\ MaxFails \in Nat \ {0}
    /\ MaxRestarts \in Nat

\* The two jobs that run _sync_one: sync-<id> and backoff-<id>.
Kind == {"interval", "retry"}

\* Where a run of a job is: about to resume the interval job (retry runs only),
\* awaiting the row, awaiting run_source_sync, or awaiting the breaker's update.
Phase == {"idle", "resuming", "reading", "syncing", "disabling"}

VARIABLES
    active,      \* the row exists with enabled and allowed
    host,        \* how the outlet's host behaves: up, down or unresolvable
    dbUp,        \* the database answers
    job,         \* the interval job: none, waiting or paused
    jobDue,      \* ticks until it fires, 0 unless it waits
    retry,       \* a retry job is in the store
    retryDue,    \* ticks until it fires
    run,         \* source -> kind -> phase
    fails,       \* _consecutive_failures
    dns,         \* _consecutive_dns_failures
    streak,      \* ghost: DNS failures since the last success, at most DnsThreshold
    refresh,     \* the refresh loop: sleeping, reading or applying
    refreshDue,  \* ticks until it wakes
    snapshot,    \* the active sources the refresh read
    restarts     \* restarts so far

jobVars     == <<job, jobDue, retry, retryDue>>
countVars   == <<fails, dns, streak>>
refreshVars == <<refresh, refreshDue, snapshot>>
envVars     == <<active, host, dbUp, restarts>>
vars == <<envVars, jobVars, run, countVars, refreshVars>>

AtMost(n, most) == IF n \in 0..most THEN n ELSE most

\* How long a source may be left alone after a failure.
Delays == 0..MaxBackoff

\* A slip in Delay: the delay is not capped.
UncappedDelay(s, f) == Interval[s] * 2^f

\* min(interval * 2 ** failures, MAX_BACKOFF_SECONDS)
Delay(s, f) == AtMost(Interval[s] * 2^f, MaxBackoff)

\* The boot read is under way: start() awaits refresh_jobs() before it adds the
\* refresh job, whose first firing starts a loop that sleeps before it works.
BootRefresh == /\ refresh' = "reading"
               /\ refreshDue' = 2 * RefreshEvery
               /\ snapshot' = {}

Init ==
    /\ active \in [Source -> BOOLEAN]
    /\ host \in [Source -> {"up", "down", "unresolvable"}]
    /\ dbUp \in BOOLEAN
    /\ job = [s \in Source |-> "none"]
    /\ jobDue = [s \in Source |-> 0]
    /\ retry = [s \in Source |-> FALSE]
    /\ retryDue = [s \in Source |-> 0]
    /\ run = [s \in Source |-> [k \in Kind |-> "idle"]]
    /\ fails = [s \in Source |-> 0]
    /\ dns = [s \in Source |-> 0]
    /\ streak = [s \in Source |-> 0]
    /\ refresh = "reading"
    /\ refreshDue = 2 * RefreshEvery
    /\ snapshot = {}
    /\ restarts = 0

-----------------------------------------------------------------------------
(* What the steps share *)

Goto(s, k, phase) == run' = [run EXCEPT ![s][k] = phase]

\* Drop both jobs of the sources in S.
DropJobs(S) ==
    /\ job' = [s \in Source |-> IF s \in S THEN "none" ELSE job[s]]
    /\ jobDue' = [s \in Source |-> IF s \in S THEN 0 ELSE jobDue[s]]
    /\ retry' = [s \in Source |-> s \notin S /\ retry[s]]
    /\ retryDue' = [s \in Source |-> IF s \in S THEN 0 ELSE retryDue[s]]

\* Pause the interval job, if there is one, and put one retry after the delay.
ApplyBackoff(s, delay) ==
    /\ job' = [job EXCEPT ![s] = IF @ = "none" THEN "none" ELSE "paused"]
    /\ jobDue' = [jobDue EXCEPT ![s] = 0]
    /\ retry' = [retry EXCEPT ![s] = TRUE]
    /\ retryDue' = [retryDue EXCEPT ![s] = delay]

-----------------------------------------------------------------------------
(* The jobs *)

\* The interval job is due.  It starts, unless a run of it is still going, in
\* which case this firing is skipped; either way the next one is an interval off.
FireInterval(s) ==
    /\ job[s] = "waiting" /\ jobDue[s] = 0
    /\ jobDue' = [jobDue EXCEPT ![s] = Interval[s]]
    /\ IF run[s]["interval"] = "idle" THEN Goto(s, "interval", "reading") ELSE UNCHANGED run
    /\ UNCHANGED <<envVars, job, retry, retryDue, countVars, refreshVars>>

\* The retry job is due.  It leaves the store, and starts unless the previous
\* retry run is still going.
FireRetry(s) ==
    /\ retry[s] /\ retryDue[s] = 0
    /\ retry' = [retry EXCEPT ![s] = FALSE]
    /\ IF run[s]["retry"] = "idle" THEN Goto(s, "retry", "resuming") ELSE UNCHANGED run
    /\ UNCHANGED <<envVars, job, jobDue, retryDue, countVars, refreshVars>>

\* _resume_after_backoff: the interval job, if there still is one, goes on at the
\* next boundary of its trigger; then the source is polled.
Resume(s) ==
    /\ run[s]["retry"] = "resuming"
    /\ IF job[s] = "none"
         THEN UNCHANGED <<job, jobDue>>
         ELSE \E due \in 1..Interval[s] :
                /\ job' = [job EXCEPT ![s] = "waiting"]
                /\ jobDue' = [jobDue EXCEPT ![s] = due]
    /\ Goto(s, "retry", "reading")
    /\ UNCHANGED <<envVars, retry, retryDue, countVars, refreshVars>>

-----------------------------------------------------------------------------
(* _sync_one *)

\* The database cannot be reached: the run ends and counts against nobody.
ReadFails(s, k) ==
    /\ run[s][k] = "reading"
    /\ ~dbUp
    /\ Goto(s, k, "idle")
    /\ UNCHANGED <<envVars, jobVars, countVars, refreshVars>>

\* A slip in ReadInactive: the row is fetched but its flags are not looked at.
ReadInactiveAndSync(s, k) ==
    /\ run[s][k] = "reading"
    /\ dbUp /\ ~active[s]
    /\ Goto(s, k, "syncing")
    /\ UNCHANGED <<envVars, jobVars, countVars, refreshVars>>

\* The row is gone, or not enabled and allowed: _remove_jobs.
ReadInactive(s, k) ==
    /\ run[s][k] = "reading"
    /\ dbUp /\ ~active[s]
    /\ DropJobs({s})
    /\ fails' = [fails EXCEPT ![s] = 0]
    /\ Goto(s, k, "idle")
    /\ UNCHANGED <<envVars, dns, streak, refreshVars>>

ReadActive(s, k) ==
    /\ run[s][k] = "reading"
    /\ dbUp /\ active[s]
    /\ Goto(s, k, "syncing")
    /\ UNCHANGED <<envVars, jobVars, countVars, refreshVars>>

\* A slip in SyncOk: the breaker's counter survives a success.
SyncOkKeepingDns(s, k) ==
    /\ run[s][k] = "syncing"
    /\ host[s] = "up"
    /\ fails' = [fails EXCEPT ![s] = 0]
    /\ streak' = [streak EXCEPT ![s] = 0]
    /\ Goto(s, k, "idle")
    /\ UNCHANGED <<envVars, jobVars, dns, refreshVars>>

\* The sync comes back without an error.  The database may have gone meanwhile: the
\* entries it could not store are counted as rejected.
SyncOk(s, k) ==
    /\ run[s][k] = "syncing"
    /\ host[s] = "up"
    /\ fails' = [fails EXCEPT ![s] = 0]
    /\ dns' = [dns EXCEPT ![s] = 0]
    /\ streak' = [streak EXCEPT ![s] = 0]
    /\ Goto(s, k, "idle")
    /\ UNCHANGED <<envVars, jobVars, refreshVars>>

\* The sync failed and the breaker's count, which only a DNS failure raises, is
\* short of the threshold: back off.  A sync fails when the host is down and
\* also when the database goes away under it.
Failed(s, isDns) ==
    IF isDns THEN host[s] = "unresolvable" ELSE ~dbUp \/ host[s] = "down"

CountFailure(s, isDns) ==
    /\ dns' = [dns EXCEPT ![s] = IF isDns THEN @ + 1 ELSE @]
    /\ streak' = [streak EXCEPT ![s] = IF isDns THEN AtMost(@ + 1, DnsThreshold) ELSE @]

BackOff(s, k) ==
    /\ run[s][k] = "syncing"
    /\ \E isDns \in BOOLEAN : Failed(s, isDns) /\ CountFailure(s, isDns)
    /\ dns'[s] < DnsThreshold
    /\ fails' = [fails EXCEPT ![s] = AtMost(@ + 1, MaxFails)]
    /\ ApplyBackoff(s, Delay(s, fails[s] + 1))
    /\ Goto(s, k, "idle")
    /\ UNCHANGED <<envVars, refreshVars>>

\* The sync failed and the count reaches the threshold: _disable_source begins.
Break(s, k) ==
    /\ run[s][k] = "syncing"
    /\ \E isDns \in BOOLEAN : Failed(s, isDns) /\ CountFailure(s, isDns)
    /\ dns'[s] >= DnsThreshold
    /\ Goto(s, k, "disabling")
    /\ UNCHANGED <<envVars, jobVars, fails, refreshVars>>

\* A slip in Disable: the update never reaches the table (an unbound db_call
\* raised NameError here once) and the counters are dropped all the same.
DisableNothing(s, k) ==
    /\ run[s][k] = "disabling"
    /\ dns' = [dns EXCEPT ![s] = 0]
    /\ fails' = [fails EXCEPT ![s] = 0]
    /\ DropJobs({s})
    /\ Goto(s, k, "idle")
    /\ UNCHANGED <<envVars, streak, refreshVars>>

\* The update is answered, or failed: either way the counters and jobs go.
Disable(s, k) ==
    /\ run[s][k] = "disabling"
    /\ active' = [active EXCEPT ![s] = @ /\ ~dbUp]
    /\ dns' = [dns EXCEPT ![s] = 0]
    /\ fails' = [fails EXCEPT ![s] = 0]
    /\ DropJobs({s})
    /\ Goto(s, k, "idle")
    /\ UNCHANGED <<host, dbUp, restarts, streak, refreshVars>>

-----------------------------------------------------------------------------
(* refresh_jobs and the loop that calls it *)

\* The loop's sleep is over.
WakeRefresh ==
    /\ refresh = "sleeping" /\ refreshDue = 0
    /\ refresh' = "reading"
    /\ refreshDue' = RefreshEvery
    /\ UNCHANGED <<envVars, jobVars, run, countVars, snapshot>>

\* The query is answered; what it read is used after the await.
ReadSources ==
    /\ refresh = "reading" /\ dbUp
    /\ refresh' = "applying"
    /\ snapshot' = {s \in Source : active[s]}
    /\ UNCHANGED <<envVars, jobVars, run, countVars, refreshDue>>

\* The query fails: nothing is scheduled until the next refresh.
ReadSourcesFails ==
    /\ refresh = "reading" /\ ~dbUp
    /\ refresh' = "sleeping"
    /\ UNCHANGED <<envVars, jobVars, run, countVars, refreshDue, snapshot>>

EndRefresh == refresh' = "sleeping" /\ snapshot' = {} /\ UNCHANGED refreshDue

\* A slip in ApplyRefresh: a source that has its job already is left alone.
ApplyRefreshToNewcomers ==
    /\ refresh = "applying"
    /\ job' = [s \in Source |->
                  IF s \notin snapshot THEN "none" ELSE IF job[s] = "none" THEN "waiting" ELSE job[s]]
    /\ jobDue' = [s \in Source |->
                     IF s \notin snapshot THEN 0 ELSE IF job[s] = "none" THEN Stagger[s] ELSE jobDue[s]]
    /\ retry' = [s \in Source |-> s \in snapshot /\ retry[s]]
    /\ retryDue' = [s \in Source |-> IF s \in snapshot THEN retryDue[s] ELSE 0]
    /\ EndRefresh
    /\ UNCHANGED <<envVars, run, countVars>>

\* Remove the jobs of the sources that were not read; put the interval job of
\* every other, replacing the one it has, and forget its failures.
ApplyRefresh ==
    /\ refresh = "applying"
    /\ job' = [s \in Source |-> IF s \in snapshot THEN "waiting" ELSE "none"]
    /\ jobDue' = [s \in Source |-> IF s \in snapshot THEN Stagger[s] ELSE 0]
    /\ retry' = [s \in Source |-> s \in snapshot /\ retry[s]]
    /\ retryDue' = [s \in Source |-> IF s \in snapshot THEN retryDue[s] ELSE 0]
    /\ fails' = [s \in Source |-> IF s \in snapshot THEN 0 ELSE fails[s]]
    /\ EndRefresh
    /\ UNCHANGED <<envVars, run, dns, streak>>

-----------------------------------------------------------------------------
(* Time and the environment *)

\* A job that is due starts before time goes on; a database call or a sync may
\* take any time.
Tick ==
    /\ \A s \in Source : job[s] = "waiting" => jobDue[s] > 0
    /\ \A s \in Source : retry[s] => retryDue[s] > 0
    /\ refresh = "sleeping" => refreshDue > 0
    /\ jobDue' = [s \in Source |-> IF job[s] = "waiting" THEN jobDue[s] - 1 ELSE 0]
    /\ retryDue' = [s \in Source |-> IF retry[s] THEN retryDue[s] - 1 ELSE 0]
    /\ refreshDue' = IF refresh = "sleeping" THEN refreshDue - 1 ELSE refreshDue
    /\ UNCHANGED <<envVars, job, retry, run, countVars, refresh, snapshot>>

\* The admin switches a source on or off.
Edit(s) ==
    /\ active' = [active EXCEPT ![s] = ~@]
    /\ UNCHANGED <<host, dbUp, restarts, jobVars, run, countVars, refreshVars>>

HostChanges(s) ==
    /\ \E h \in {"up", "down", "unresolvable"} \ {host[s]} : host' = [host EXCEPT ![s] = h]
    /\ UNCHANGED <<active, dbUp, restarts, jobVars, run, countVars, refreshVars>>

DatabaseChanges ==
    /\ dbUp' = ~dbUp
    /\ UNCHANGED <<active, host, restarts, jobVars, run, countVars, refreshVars>>

\* The process dies with its runs, its jobs and its counters; the next one boots.
Restart ==
    /\ restarts < MaxRestarts
    /\ restarts' = restarts + 1
    /\ DropJobs(Source)
    /\ run' = [s \in Source |-> [k \in Kind |-> "idle"]]
    /\ fails' = [s \in Source |-> 0]
    /\ dns' = [s \in Source |-> 0]
    /\ BootRefresh
    /\ UNCHANGED <<active, host, dbUp, streak>>

\* The next step of a run that has been started.
RunStep(s, k) ==
    \/ ReadFails(s, k) \/ ReadInactive(s, k) \/ ReadActive(s, k)
    \/ SyncOk(s, k) \/ BackOff(s, k) \/ Break(s, k) \/ Disable(s, k)

RefreshStep == WakeRefresh \/ ReadSources \/ ReadSourcesFails \/ ApplyRefresh

Environment ==
    \/ DatabaseChanges
    \/ Restart
    \/ \E s \in Source : Edit(s) \/ HostChanges(s)

Next ==
    \/ Tick
    \/ RefreshStep
    \/ \E s \in Source : FireInterval(s) \/ FireRetry(s) \/ Resume(s)
    \/ \E s \in Source, k \in Kind : RunStep(s, k)
    \/ Environment

\* APScheduler fires due jobs, the event loop resumes what it awaits, every
\* database call is answered or fails and every sync ends: they all have
\* timeouts.  Nothing is assumed of the environment.
Fairness ==
    /\ WF_vars(Tick)
    /\ WF_vars(RefreshStep)
    /\ \A s \in Source :
         /\ WF_vars(FireInterval(s))
         /\ WF_vars(FireRetry(s))
         /\ WF_vars(Resume(s))
         /\ \A k \in Kind : WF_vars(RunStep(s, k))

Spec == Init /\ [][Next]_vars /\ Fairness

-----------------------------------------------------------------------------
\* Every variable has its type; a retry is never further off than MAX_BACKOFF_SECONDS.
TypeOK ==
    /\ active \in [Source -> BOOLEAN]
    /\ host \in [Source -> {"up", "down", "unresolvable"}]
    /\ dbUp \in BOOLEAN
    /\ job \in [Source -> {"none", "waiting", "paused"}]
    /\ jobDue \in [Source -> Nat]
    /\ retry \in [Source -> BOOLEAN]
    /\ retryDue \in [Source -> Delays]
    /\ run \in [Source -> [Kind -> Phase]]
    /\ fails \in [Source -> 0..MaxFails]
    /\ dns \in [Source -> Nat]
    /\ streak \in [Source -> 0..DnsThreshold]
    /\ refresh \in {"sleeping", "reading", "applying"}
    /\ refreshDue \in Nat
    /\ snapshot \subseteq Source
    /\ restarts \in Nat

\* The breaker is earned: its count never reaches the threshold unless that many
\* DNS failures have been seen with no success between them, whatever runs of
\* the source overlap and whatever the refresh and the admin do meanwhile.
BreakerEarned ==
    \A s \in Source : dns[s] >= DnsThreshold => streak[s] >= DnsThreshold

\* A source that stays active, with the database up, is polled for ever: no
\* order of backoffs, skipped firings, refreshes and restarts loses its job.
ActiveIsPolled ==
    \A s \in Source :
      <>[](active[s] /\ dbUp) => []<>(\E k \in Kind : run[s][k] = "syncing")

\* A source that stays switched off is let go: in the end it has no job, no
\* retry and no run, so its outlet is not fetched from any more.
InactiveIsLetGo ==
    \A s \in Source :
      <>[](~active[s] /\ dbUp)
        => <>[](job[s] = "none" /\ ~retry[s] /\ \A k \in Kind : run[s][k] = "idle")

\* A host that does not resolve any more gets its source switched off, again
\* and again if an admin insists.
DeadHostIsDisabled ==
    \A s \in Source : <>[](host[s] = "unresolvable" /\ dbUp) => []<>~active[s]

\* While a retry is pending the interval job does not poll the source.
BackoffHonoured ==
    [][\A s \in Source :
         retry[s] /\ retryDue[s] > 0 /\ run[s]["interval"] = "idle"
           => run'[s]["interval"] = "idle"]_vars

\* There are never two syncs of one source at once.
OneSyncPerSource ==
    \A s \in Source : ~ \A k \in Kind : run[s][k] = "syncing"
=============================================================================
