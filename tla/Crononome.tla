----------------------------- MODULE Crononome ------------------------------
(***************************************************************************)
(* The crononome source (src/source/crononome.rs): a queue of the entries  *)
(* of its configuration, ordered by the time each is due next.  A pull     *)
(* takes the first one if it is due and puts it back for its next time.    *)
(* The source is pulled when its manager gets to it: it sleeps in between, *)
(* and does not pull while the circuit breaker is triggered.               *)
(*                                                                         *)
(* The clock runs in fractions of a second; schedules are in seconds, and  *)
(* so is the comparison that decides whether an entry is due.              *)
(***************************************************************************)
EXTENDS Integers, FiniteSets, FiniteSetsExt

CONSTANTS
    Entries,        \* entries of the configuration
    Schedules,      \* sets of seconds an entry may be due at
    Second,         \* ticks of a second
    MaxTime         \* bound: seconds that pass

ASSUME CrononomeAssumption ==
    /\ Second \in Nat \ {0} /\ MaxTime \in Nat
    /\ \A s \in Schedules : s \subseteq Nat

VARIABLES
    sched,          \* the schedule of each entry
    time,           \* Utc::now() in ticks
    started,        \* second at which init ran
    cq,             \* the queue: entries with the second they are due at
    triggers        \* history: what was triggered, for when and when

cronVars == <<sched, time, started, cq, triggers>>

\* timestamp() of a time: its whole seconds.
Timestamp(t) == t \div Second

\* sched.upcoming(): the seconds after the present one.
UpcomingOrNow(e, now) == {s \in sched[e] : s >= Timestamp(now)}
Upcoming(e, now) == {s \in sched[e] : s > Timestamp(now)}

\* ChronomicQueue::enqueue: an entry that is never due again is not queued.
Enqueue(e, now) ==
    LET upcoming == Upcoming(e, now)
    IN  IF upcoming = {} THEN {} ELSE {[at |-> Min(upcoming), what |-> e]}

\* init, at any time
CronInit ==
    /\ sched \in [Entries -> Schedules] /\ time \in 0 .. Second
    /\ started = Timestamp(time)
    /\ cq = UNION {Enqueue(e, time) : e \in Entries}
    /\ triggers = {}

DueRounded(item) == item.at <= Timestamp(time + Second - 1)

\* TemporalPriorityQueue::pop: one of the earliest items, if it is due.
Due(item) ==
    /\ \A other \in cq : item.at <= other.at
    /\ item.at <= Timestamp(time)

\* ChronomicQueue::next reads the clock twice: to see whether the item is due
\* and to find its next time.
PullCron(item, later) ==
    /\ Due(item) /\ later <= MaxTime * Second
    /\ cq' = (cq \ {item}) \union Enqueue(item.what, later)
    /\ triggers' = triggers \union {[entry |-> item.what, at |-> item.at,
                                    popped |-> Timestamp(time), queued |-> Timestamp(later)]}
    /\ time' = later
    /\ UNCHANGED <<sched, started>>

Tick ==
    /\ time < MaxTime * Second /\ time' = time + 1
    /\ UNCHANGED <<sched, started, cq, triggers>>

CronNext == (\E item \in cq, later \in {time, time + 1} : PullCron(item, later)) \/ Tick

CronSpec == CronInit /\ [][CronNext]_cronVars

-----------------------------------------------------------------------------
(* Properties                                                              *)

CronTypeOK ==
    /\ \A item \in cq : item.at \in sched[item.what]
    /\ \A i, j \in cq : i.what = j.what => i = j

TriggersOf(e) == {t \in triggers : t.entry = e}

\* An entry is triggered only at a time of its schedule, never early, and once
\* for each; a time is passed over only if it had come by the time an earlier
\* one of the same entry was put back into the queue.
TriggersExact ==
    /\ CronTypeOK
    /\ \A t \in triggers : t.at \in sched[t.entry] /\ t.at > started /\ t.popped >= t.at
    /\ \A e \in Entries :
        /\ \A t, u \in TriggersOf(e) : t # u => t.queued < u.at \/ u.queued < t.at
        /\ \A item \in cq : item.what = e => \A t \in TriggersOf(e) : t.queued < item.at
        /\ \A s \in sched[e] : s > started =>
            \/ \E t \in TriggersOf(e) : t.at <= s /\ s <= t.queued
            \/ \E item \in cq : item.what = e /\ item.at <= s
=============================================================================
