---------------------------- MODULE ReleaseClock ----------------------------
(***************************************************************************)
(* When the two triggers of one exam's key release fire: the Cloud         *)
(* Scheduler job, whose cron expression has minutes and no year, and the   *)
(* backup timer, a setTimeout whose delay has 31 bits.  The job is one for *)
(* all replicas; a timer is in the memory of the replica that served the   *)
(* schedule, and only a request to that replica reaches it.  KeyRelease    *)
(* lets an armed trigger fire at any moment; this module is about the      *)
(* moment.                                                                 *)
(*                                                                         *)
(* Abstractions: a request of SchedulingService is one step, of whatever   *)
(* replica serves it; a call of releaseKeys is made or not, and all it     *)
(* does here is to drop the timer of its replica when it completes (the    *)
(* rest is KeyRelease's); the triggers are prompt, so that time only       *)
(* passes together with what is due.  Time is counted in steps of the      *)
(* clock, Minute of them in a minute and Year of them in a year.           *)
(***************************************************************************)
EXTENDS Integers

CONSTANTS
    Pods,       \* the replicas of the service
    Minute,     \* length of a minute
    Year,       \* length of a year
    MaxDelay,   \* the longest delay setTimeout keeps, 2^31 - 1 ms
    Horizon,    \* bound on the clock
    MaxChanges  \* bound on schedules and cancellations

ASSUME ClockAssumption ==
    /\ Minute \in Nat \ {0}
    /\ Year \in Nat \ {0}
    /\ MaxDelay \in Nat
    /\ Horizon \in Nat
    /\ MaxChanges \in Nat

VARIABLES
    now,      \* the clock
    release,  \* keySchedule/release: {} or {the schedule in force}
    cron,     \* the Cloud Scheduler job: {} or {the schedule it is for}
    backup,   \* the backup timer of each replica: {} or {it}
    fired,    \* the calls of releaseKeys so far, and whose timer made them
    served,   \* history: what the last change that a replica served asked for
    changes,  \* what MaxChanges counts
    failures  \* failed calls and lost timers

clock == <<now, release, cron, backup, fired, served, changes, failures>>

\* A schedule: its releaseTime and its scheduledAt.
Schedules == [time : Nat, at : Nat]

ClockInit ==
    /\ now = 0
    /\ release = {} /\ cron = {} /\ fired = {}
    /\ backup = [r \in Pods |-> {}] /\ served = [r \in Pods |-> {}]
    /\ changes = 0 /\ failures = 0

(***************************************************************************)
(* The two clocks.                                                         *)
(***************************************************************************)
\* dateToCron drops what is less than a minute.
MinuteStart(time) == time - (time % Minute)

\* Mutant of CronMatches: the job's time zone is ahead of the date's.
CronMatchesAhead(time, t) == (t + Minute - MinuteStart(time)) % Year = 0

\* Mutant of CronMatches: the job's time zone is behind the date's.
CronMatchesBehind(time, t) == (t - Minute - MinuteStart(time)) % Year = 0

\* The job runs at the start of every minute its expression matches.
CronMatches(time, t) == (t - MinuteStart(time)) % Year = 0

\* setTimeout takes a delay that does not fit in 31 bits for 1.
Delay(d) == IF d > MaxDelay THEN 1 ELSE d

(***************************************************************************)
(* SchedulingService.                                                      *)
(***************************************************************************)
Change ==
    /\ changes < MaxChanges
    /\ changes' = changes + 1

\* The calls to Cloud Scheduler: a job that could not be deleted makes
\* createJob fail, and every failure is swallowed.
ReplaceJob(new) ==
    \/ cron' = new /\ UNCHANGED failures
    \/ cron' \in {{}, cron} /\ failures' = failures + 1

\* A change of the schedule, of which replica r keeps the timer.
Put(r, new, timer) ==
    /\ Change
    /\ ReplaceJob(new)
    /\ backup' = [backup EXCEPT ![r] = timer]
    /\ release' = new
    /\ served' = [served EXCEPT ![r] = new]
    /\ UNCHANGED <<now, fired>>

ScheduleKeyRelease(r, time) ==
    LET s == [time |-> time, at |-> now] IN
    /\ time > now
    /\ Put(r, {s}, {[due |-> now + Delay(time - now), for |-> s]})

\* Mutant of CancelScheduledRelease: the backup timer is forgotten.
CancelKeepsTimer(r) == Put(r, {}, backup[r])

CancelScheduledRelease(r) == Put(r, {}, {})

\* The pod is replaced, and its timer with it.
Restart(r) ==
    /\ backup[r] # {}
    /\ backup' = [backup EXCEPT ![r] = {}]
    /\ failures' = failures + 1
    /\ UNCHANGED <<now, release, cron, fired, served, changes>>

\* The timers and the jobs due at t.
Rings(r, t) == {k \in backup[r] : k.due = t}
JobsDue(t)  == {s \in cron : CronMatches(s.time, t)}

\* The calls of releaseKeys at t: a replica's timer is its own trigger, the
\* job's call is nobody's.
CallsAt(t) == {[at |-> t, for |-> s, by |-> {}] : s \in JobsDue(t)}
              \union UNION {{[at |-> t, for |-> k.for, by |-> {r}] : k \in Rings(r, t)}
                              : r \in Pods}

\* The replicas that serve the calls at t, when the job's goes to r.
CalledAt(t, r) == {x \in Pods : Rings(x, t) # {} \/ (x = r /\ JobsDue(t) # {})}

\* The triggers fire when they are due; a call that completes drops the timer
\* of its replica.
Tick ==
    /\ now < Horizon
    /\ now' = now + 1
    /\ fired' = fired \union CallsAt(now')
    /\ \E r \in Pods : \E completed \in SUBSET CalledAt(now', r) :
          backup' = [x \in Pods |->
                       IF x \in completed THEN {} ELSE backup[x] \ Rings(x, now')]
    /\ UNCHANGED <<release, cron, served, changes, failures>>

\* No release is scheduled a year or more ahead.
ClockNext ==
    \/ \E r \in Pods, time \in 1..Horizon :
          time - now < Year /\ ScheduleKeyRelease(r, time)
    \/ \E r \in Pods : CancelScheduledRelease(r) \/ Restart(r)
    \/ Tick

ClockSpec == ClockInit /\ [][ClockNext]_clock

(***************************************************************************)
(* Properties.                                                             *)
(***************************************************************************)
\* The clock and the counts are numbers, schedules and triggers are dated.
ClockTypeOK ==
    /\ now \in Nat
    /\ release \subseteq Schedules
    /\ cron \subseteq Schedules
    /\ backup \in [Pods -> SUBSET [due : Nat, for : Schedules]]
    /\ fired \subseteq [at : Nat, for : Schedules, by : SUBSET Pods]
    /\ served \in [Pods -> SUBSET Schedules]
    /\ changes \in Nat /\ failures \in Nat

\* releaseKeys is never called before the minute of the release time its
\* trigger was armed for, provided that setTimeout could keep the delay: what
\* the cron expression leaves out costs less than a minute, and never a year.
NotBeforeItsMinute ==
    \A f \in fired :
        f.for.time - f.for.at <= MaxDelay => MinuteStart(f.for.time) <= f.at

\* As long as no call failed, a trigger that fires belongs to the release in
\* force: none is left over from a schedule that was replaced or cancelled.
\* Excepted is the timer of a replica other than the one that served the last
\* change: neither a reschedule (scheduling.service.ts:183) nor a cancellation
\* (:388) reaches it, and it fires for what its own replica was last asked for,
\* never for what that replica itself replaced or cancelled.
NoStaleTrigger ==
    [][failures = 0 =>
          \A f \in fired' \ fired :
              \/ f.for \in release
              \/ \E r \in f.by : served[r] # release /\ f.for \in served[r]]_clock

\* When the time of a release that was scheduled before its minute began is
\* past, releaseKeys has been called since it was scheduled, with any one
\* fault: a failed call to Cloud Scheduler or a lost timer, not both.
TriggeredInTime ==
    \A s \in release :
        (failures <= 1 /\ s.at < MinuteStart(s.time) /\ s.time <= now) =>
            \E f \in fired : s.at < f.at /\ f.at <= s.time

\* Whatever single call failed or timer was lost, a release that the clock can
\* keep is triggered within its minute: not before it begins, and not after
\* the release's time.
OpensAtItsMinute == NotBeforeItsMinute /\ TriggeredInTime
=============================================================================
