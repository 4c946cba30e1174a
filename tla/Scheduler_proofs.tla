-------------------------- MODULE Scheduler_proofs --------------------------
(***************************************************************************)
(* Proofs about Scheduler: its type invariant, and that the DNS breaker is *)
(* earned, for any set of sources, any intervals and any threshold.        *)
(***************************************************************************)
EXTENDS Scheduler, TLAPS

\* A backoff is never longer than MAX_BACKOFF_SECONDS.
LEMMA DelayIsCapped ==
    ASSUME NEW s \in Source, NEW f \in Nat
    PROVE  Delay(s, f) \in Delays
  BY SchedulerAssumption DEF Delay, AtMost, Delays

\* A delay counts down through delays to zero.
LEMMA DelaysCountDown ==
    /\ 0 \in Delays
    /\ \A d \in Delays : d \in Nat /\ (d # 0 => d - 1 \in Delays)
  BY SchedulerAssumption DEF Delays

\* One step up of a counter that saturates.
LEMMA SaturatingStep ==
    ASSUME NEW most \in Nat, NEW n \in 0..most
    PROVE  AtMost(n + 1, most) \in 0..most
  BY DEF AtMost

\* Moving one run of a source keeps the runs well-typed.
LEMMA GotoTypes ==
    ASSUME NEW r \in [Source -> [Kind -> Phase]],
           NEW s \in Source, NEW k \in Kind, NEW phase \in Phase
    PROVE  [r EXCEPT ![s][k] = phase] \in [Source -> [Kind -> Phase]]
<1>1. [r[s] EXCEPT ![k] = phase] \in [Kind -> Phase]
  OBVIOUS
<1> QED BY <1>1

\* Dropping jobs keeps the job table well-typed.
LEMMA DropJobsTypes ==
    ASSUME TypeOK, NEW S, DropJobs(S)
    PROVE  /\ job' \in [Source -> {"none", "waiting", "paused"}]
           /\ jobDue' \in [Source -> Nat]
           /\ retry' \in [Source -> BOOLEAN]
           /\ retryDue' \in [Source -> Delays]
  BY DelaysCountDown DEF DropJobs, TypeOK

\* Counting a failure keeps the counters well-typed.
LEMMA CountFailureTypes ==
    ASSUME TypeOK, NEW s \in Source, NEW isDns \in BOOLEAN, CountFailure(s, isDns)
    PROVE  dns' \in [Source -> Nat] /\ streak' \in [Source -> 0..DnsThreshold]
<1>1. AtMost(streak[s] + 1, DnsThreshold) \in 0..DnsThreshold
  BY SchedulerAssumption DEF TypeOK, AtMost
<1> QED BY <1>1 DEF CountFailure, TypeOK

-----------------------------------------------------------------------------
\* The job table, the runs and the counters keep their types, and every retry is due
\* within MAX_BACKOFF_SECONDS, for any intervals however large.
THEOREM TypeCorrect == Spec => []TypeOK
<1>1. Init => TypeOK
  BY SchedulerAssumption, DelaysCountDown DEF Init, TypeOK, Kind, Phase
<1>2. TypeOK /\ [Next]_vars => TypeOK'
  <2> SUFFICES ASSUME TypeOK, [Next]_vars PROVE TypeOK'
    OBVIOUS
  <2> USE SchedulerAssumption DEF TypeOK, envVars, jobVars, countVars, refreshVars, Goto
  <2>1. CASE Tick
    <3>1. retryDue' \in [Source -> Delays]
      <4>1. \A s \in Source : retry[s] => retryDue[s] - 1 \in Delays
        BY <2>1, DelaysCountDown DEF Tick
      <4> QED BY <2>1, <4>1, DelaysCountDown DEF Tick
    <3>2. jobDue' \in [Source -> Nat] /\ refreshDue' \in Nat
      BY <2>1 DEF Tick
    <3> QED BY <2>1, <3>1, <3>2 DEF Tick
  <2>2. CASE RefreshStep
    <3>1. CASE WakeRefresh
      BY <3>1 DEF WakeRefresh
    <3>2. CASE ReadSources
      BY <3>2 DEF ReadSources
    <3>3. CASE ReadSourcesFails
      BY <3>3 DEF ReadSourcesFails
    <3>4. CASE ApplyRefresh
      <4>1. /\ job' \in [Source -> {"none", "waiting", "paused"}]
            /\ jobDue' \in [Source -> Nat]
        BY <3>4 DEF ApplyRefresh
      <4>2. retry' \in [Source -> BOOLEAN] /\ retryDue' \in [Source -> Delays]
        BY <3>4, DelaysCountDown DEF ApplyRefresh
      <4> QED BY <3>4, <4>1, <4>2 DEF ApplyRefresh, EndRefresh
    <3> QED BY <2>2, <3>1, <3>2, <3>3, <3>4 DEF RefreshStep
  <2>3. ASSUME NEW s \in Source, FireInterval(s) PROVE TypeOK'
    <3>1. run' \in [Source -> [Kind -> Phase]]
      <4>1. "interval" \in Kind /\ "reading" \in Phase
        BY DEF Kind, Phase
      <4>2. run' = [run EXCEPT ![s]["interval"] = "reading"] \/ run' = run
        BY <2>3 DEF FireInterval
      <4>3. [run EXCEPT ![s]["interval"] = "reading"] \in [Source -> [Kind -> Phase]]
        BY <2>3, <4>1, GotoTypes, Zenon
      <4> QED BY <4>2, <4>3, Zenon
    <3>2. jobDue' \in [Source -> Nat]
      BY <2>3 DEF FireInterval
    <3> QED BY <2>3, <3>1, <3>2 DEF FireInterval
  <2>4. ASSUME NEW s \in Source, FireRetry(s) PROVE TypeOK'
    <3>1. run' \in [Source -> [Kind -> Phase]]
      <4>1. "retry" \in Kind /\ "resuming" \in Phase
        BY DEF Kind, Phase
      <4>2. run' = [run EXCEPT ![s]["retry"] = "resuming"] \/ run' = run
        BY <2>4 DEF FireRetry
      <4>3. [run EXCEPT ![s]["retry"] = "resuming"] \in [Source -> [Kind -> Phase]]
        BY <2>4, <4>1, GotoTypes, Zenon
      <4> QED BY <4>2, <4>3, Zenon
    <3>2. retry' \in [Source -> BOOLEAN]
      BY <2>4 DEF FireRetry
    <3> QED BY <2>4, <3>1, <3>2 DEF FireRetry
  <2>5. ASSUME NEW s \in Source, Resume(s) PROVE TypeOK'
    <3>1. run' \in [Source -> [Kind -> Phase]]
      BY <2>5 DEF Resume, Kind, Phase
    <3>2. CASE job[s] = "none"
      BY <2>5, <3>1, <3>2 DEF Resume
    <3>3. CASE job[s] # "none"
      <4>1. PICK due \in 1..Interval[s] :
              job' = [job EXCEPT ![s] = "waiting"] /\ jobDue' = [jobDue EXCEPT ![s] = due]
        BY <2>5, <3>3 DEF Resume
      <4>2. due \in Nat
        BY <4>1
      <4> QED BY <2>5, <3>1, <4>1, <4>2 DEF Resume
    <3> QED BY <3>2, <3>3
  <2>6. ASSUME NEW s \in Source, NEW k \in Kind, RunStep(s, k) PROVE TypeOK'
    <3>1. CASE ReadFails(s, k)
      BY <3>1 DEF ReadFails, Phase
    <3>2. CASE ReadInactive(s, k)
      BY <3>2, DropJobsTypes DEF ReadInactive, Phase
    <3>3. CASE ReadActive(s, k)
      BY <3>3 DEF ReadActive, Phase
    <3>4. CASE SyncOk(s, k)
      BY <3>4 DEF SyncOk, Phase
    <3>5. CASE BackOff(s, k)
      <4>1. PICK isDns \in BOOLEAN : CountFailure(s, isDns)
        BY <3>5 DEF BackOff
      <4>2. dns' \in [Source -> Nat] /\ streak' \in [Source -> 0..DnsThreshold]
        BY <4>1, CountFailureTypes
      <4>3. AtMost(fails[s] + 1, MaxFails) \in 0..MaxFails /\ Delay(s, fails[s] + 1) \in Delays
        BY SaturatingStep, DelayIsCapped
      <4>4. fails' \in [Source -> 0..MaxFails] /\ run' \in [Source -> [Kind -> Phase]]
        BY <3>5, <4>3 DEF BackOff, Phase
      <4>5. /\ job' \in [Source -> {"none", "waiting", "paused"}]
            /\ jobDue' \in [Source -> Nat]
            /\ retry' \in [Source -> BOOLEAN]
            /\ retryDue' \in [Source -> Delays]
        BY <3>5, <4>3 DEF BackOff, ApplyBackoff
      <4> QED BY <3>5, <4>2, <4>4, <4>5 DEF BackOff
    <3>6. CASE Break(s, k)
      <4>1. PICK isDns \in BOOLEAN : CountFailure(s, isDns)
        BY <3>6 DEF Break
      <4>2. dns' \in [Source -> Nat] /\ streak' \in [Source -> 0..DnsThreshold]
        BY <4>1, CountFailureTypes
      <4> QED BY <3>6, <4>2 DEF Break, Phase
    <3>7. CASE Disable(s, k)
      BY <3>7, DropJobsTypes DEF Disable, Phase
    <3> QED BY <2>6, <3>1, <3>2, <3>3, <3>4, <3>5, <3>6, <3>7 DEF RunStep
  <2>7. CASE DatabaseChanges
    BY <2>7 DEF DatabaseChanges
  <2>8. CASE Restart
    BY <2>8, DropJobsTypes DEF Restart, BootRefresh, Kind, Phase
  <2>9. ASSUME NEW s \in Source, Edit(s) PROVE TypeOK'
    BY <2>9 DEF Edit
  <2>10. ASSUME NEW s \in Source, HostChanges(s) PROVE TypeOK'
    BY <2>10 DEF HostChanges
  <2>11. CASE UNCHANGED vars
    BY <2>11 DEF vars
  <2> QED BY <2>1, <2>2, <2>3, <2>4, <2>5, <2>6, <2>7, <2>8, <2>9, <2>10, <2>11
          DEF Next, Environment
<1> QED BY <1>1, <1>2, PTL DEF Spec

-----------------------------------------------------------------------------
\* The count lags behind the real streak, until the streak is past caring.
DnsCountHonest ==
    \A s \in Source : dns[s] <= streak[s] \/ streak[s] >= DnsThreshold

\* Counting a failure keeps it so: the ghost moves whenever the count does.
LEMMA CountFailureHonest ==
    ASSUME TypeOK, DnsCountHonest,
           NEW s \in Source, NEW isDns \in BOOLEAN, CountFailure(s, isDns)
    PROVE  DnsCountHonest'
<1> SUFFICES ASSUME NEW t \in Source
             PROVE  dns'[t] <= streak'[t] \/ streak'[t] >= DnsThreshold
  BY DEF DnsCountHonest
<1>1. dns[t] <= streak[t] \/ streak[t] >= DnsThreshold
  BY DEF DnsCountHonest
<1>2. dns[t] \in Nat /\ streak[t] \in 0..DnsThreshold /\ DnsThreshold \in Nat \ {0}
  BY SchedulerAssumption DEF TypeOK
<1>3. CASE t # s \/ ~isDns
  BY <1>1, <1>3 DEF CountFailure, TypeOK
<1>4. CASE t = s /\ isDns
  <2>1. dns'[t] = dns[t] + 1 /\ streak'[t] = AtMost(streak[t] + 1, DnsThreshold)
    BY <1>4 DEF CountFailure, TypeOK
  <2> QED BY <1>1, <1>2, <2>1 DEF AtMost
<1> QED BY <1>3, <1>4

\* The breaker never opens on fewer DNS failures than its threshold.
THEOREM BreakerIsEarned == Spec => []BreakerEarned
<1>1. Init => DnsCountHonest
  <2> SUFFICES ASSUME Init, NEW s \in Source PROVE dns[s] <= streak[s]
    BY DEF DnsCountHonest
  <2>1. dns[s] = 0 /\ streak[s] = 0
    BY DEF Init
  <2> QED BY <2>1
<1>2. TypeOK /\ DnsCountHonest /\ [Next]_vars => DnsCountHonest'
  <2> SUFFICES ASSUME TypeOK, DnsCountHonest, [Next]_vars PROVE DnsCountHonest'
    OBVIOUS
  <2>1. CASE UNCHANGED <<dns, streak>>
    BY <2>1 DEF DnsCountHonest
  <2>2. ASSUME NEW s \in Source, NEW k \in Kind, RunStep(s, k) PROVE DnsCountHonest'
    <3>1. CASE SyncOk(s, k)
      BY <3>1 DEF SyncOk, DnsCountHonest, TypeOK
    <3>2. CASE BackOff(s, k) \/ Break(s, k)
      BY <3>2, CountFailureHonest DEF BackOff, Break
    <3>3. CASE Disable(s, k)
      BY <3>3 DEF Disable, DnsCountHonest, TypeOK
    <3>4. CASE ReadFails(s, k) \/ ReadInactive(s, k) \/ ReadActive(s, k)
      BY <2>1, <3>4 DEF ReadFails, ReadInactive, ReadActive, countVars
    <3> QED BY <2>2, <3>1, <3>2, <3>3, <3>4 DEF RunStep
  <2>3. CASE Restart
    BY <2>3 DEF Restart, DnsCountHonest, TypeOK
  <2>4. CASE Tick \/ RefreshStep \/ DatabaseChanges
    BY <2>1, <2>4 DEF Tick, RefreshStep, WakeRefresh, ReadSources, ReadSourcesFails,
                      ApplyRefresh, DatabaseChanges, countVars
  <2>5. ASSUME NEW s \in Source,
               FireInterval(s) \/ FireRetry(s) \/ Resume(s) \/ Edit(s) \/ HostChanges(s)
        PROVE  DnsCountHonest'
    BY <2>1, <2>5 DEF FireInterval, FireRetry, Resume, Edit, HostChanges, countVars
  <2>6. CASE UNCHANGED vars
    BY <2>1, <2>6 DEF vars, countVars
  <2> QED BY <2>2, <2>3, <2>4, <2>5, <2>6 DEF Next, Environment
<1>3. TypeOK /\ DnsCountHonest => BreakerEarned
  BY SchedulerAssumption DEF TypeOK, DnsCountHonest, BreakerEarned
<1> QED BY <1>1, <1>2, <1>3, TypeCorrect, PTL DEF Spec
=============================================================================
