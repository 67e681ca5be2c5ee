----------------------------- MODULE TimerQueue -----------------------------
(***************************************************************************)
(* The timer queue (apt_timer_queue.c) as the poller task runs it          *)
(* (apt_poller_task.c): the task waits for descriptors no longer than the  *)
(* first timer allows, handles what was signalled, which may set and kill  *)
(* timers, and then advances the queue by the time that has passed since   *)
(* it began to wait.                                                       *)
(*                                                                         *)
(* Time is kept relative to the queue in elapsed_time, a word of 32 bits   *)
(* that is brought back to zero, and the timers with it, when it reaches   *)
(* 0xFFFF.  now is the clock, and deadline when a timer ought to fire.     *)
(***************************************************************************)
EXTENDS Integers, Sequences, SequencesExt

CONSTANTS Timers,
          Timeouts,      \* the timeouts that timers are set to
          RescheduleAt,  \* 0xFFFF
          Word,          \* 2^32, the range of apr_uint32_t
          MaxDelay,      \* bound of the model: how late a wait may end
          MaxTime,       \* bound of the model: the clock stops here
          NULL

\* the times of the model fit the word, as those of the code do
ASSUME TimesFit ==
    /\ Timeouts \subseteq Nat \ {0}
    /\ RescheduleAt \in Nat \ {0} /\ {Word, MaxDelay, MaxTime} \subseteq Nat
    /\ \A t \in Timeouts : RescheduleAt + MaxDelay + 2 * t < Word
    /\ NULL \notin Nat \cup Timers

VARIABLES ring,           \* timers that are set, first to fire first
          scheduled_time,
          elapsed_time,
          pc,             \* "poll", "wait", "handle" or "fire"
          timeout,        \* of the wait, NULL for none
          time_last, now, \* when the wait began; the clock
          deadline,       \* of a timer: now plus its timeout when it was set
          fired,          \* the timer that has just fired, NULL for none
          caught          \* a timer was due when the times were rescheduled

queueVars == <<ring, scheduled_time, elapsed_time>>
timeVars == <<timeout, time_last, now>>
timerVars == <<queueVars, timeVars, pc, deadline, fired, caught>>

TimerInit ==
    /\ ring = <<>> /\ scheduled_time = [t \in Timers |-> 0] /\ elapsed_time = 0
    /\ pc = "poll" /\ timeout = NULL /\ time_last = 0 /\ now = 0
    /\ deadline = [t \in Timers |-> NULL] /\ fired = NULL /\ caught = FALSE
-----------------------------------------------------------------------------
(* apt_timer_insert: a timer goes behind the i timers up to the last one   *)
(* that is not scheduled later, which is searched for from the end.        *)
Goes(i, time) ==
    /\ i # 0 => scheduled_time[ring[i]] <= time
    /\ \A j \in i + 1 .. Len(ring) : scheduled_time[ring[j]] > time

(* apt_timer_set, of a timer that is not in the ring *)
Set(t) ==
    /\ t \notin Range(ring)
    /\ \E length \in Timeouts, i \in 0 .. Len(ring) :
          LET time == (elapsed_time + length) % Word
          IN  /\ Goes(i, time)
              /\ ring' = InsertAt(ring, i + 1, t)
              /\ scheduled_time' = [scheduled_time EXCEPT ![t] = time]
              /\ deadline' = [deadline EXCEPT ![t] = now + length]
    /\ fired' = NULL
    /\ UNCHANGED <<elapsed_time, timeVars, pc, caught>>

(* apt_timer_kill: a timer with no scheduled time is taken to be not set.  *)
(* Without timers, elapsed_time starts again.                              *)
Kill(t) ==
    /\ scheduled_time[t] # 0
    /\ \E i \in DOMAIN ring : ring[i] = t /\ ring' = RemoveAt(ring, i)
    /\ scheduled_time' = [scheduled_time EXCEPT ![t] = 0]
    /\ elapsed_time' = IF ring' = <<>> THEN 0 ELSE elapsed_time
    /\ deadline' = [deadline EXCEPT ![t] = NULL]
    /\ fired' = NULL
    /\ UNCHANGED <<timeVars, pc, caught>>

(* apt_timer_queue_timeout_get and the beginning of the wait: without      *)
(* timers the task waits for ever, and leaves time_last as it was.         *)
Poll ==
    /\ pc = "poll" /\ pc' = "wait"
    /\ timeout' = IF ring = <<>> THEN NULL
                  ELSE (scheduled_time[Head(ring)] - elapsed_time) % Word
    /\ time_last' = IF ring = <<>> THEN time_last ELSE now
    /\ fired' = NULL
    /\ UNCHANGED <<queueVars, now, deadline, caught>>

(* The wait ends with a descriptor, or when the time is up, and may end    *)
(* late.  What is then handled takes no time.                              *)
Wake ==
    /\ pc = "wait" /\ pc' = "handle"
    /\ \E time \in now .. MaxTime :
          /\ timeout # NULL => time <= time_last + timeout + MaxDelay
          /\ now' = time
    /\ UNCHANGED <<queueVars, timeout, time_last, deadline, fired, caught>>

(* The handlers of descriptors and messages use the timers. *)
Handle ==
    /\ pc = "handle"
    /\ \E t \in Timers : Set(t) \/ Kill(t)

(* A timer that is due at this time: rescheduling gives it the time 0, or  *)
(* one that has wrapped around.                                            *)
Caught(time) == \E t \in Range(ring) : scheduled_time[t] <= time

(* All timers but the first are brought back. *)
RescheduledRest(time) ==
    IF time >= RescheduleAt
    THEN [t \in Timers |-> IF t \in Range(Tail(ring)) THEN (scheduled_time[t] - time) % Word
                                                      ELSE scheduled_time[t]]
    ELSE scheduled_time

(* apt_timers_reschedule *)
Rescheduled(time) ==
    IF time >= RescheduleAt
    THEN [t \in Timers |-> IF t \in Range(ring) THEN (scheduled_time[t] - time) % Word
                                                ELSE scheduled_time[t]]
    ELSE scheduled_time

(* The time that passed is not added when the task waited without a timer, *)
(* nor when the timers are gone.                                           *)
Advance ==
    /\ pc = "handle"
    /\ IF timeout = NULL \/ now = time_last \/ ring = <<>>
       THEN pc' = "poll" /\ UNCHANGED <<queueVars, caught>>
       ELSE LET time == (elapsed_time + now - time_last) % Word
            IN  /\ pc' = "fire"
                /\ elapsed_time' = IF time >= RescheduleAt THEN 0 ELSE time
                /\ scheduled_time' = Rescheduled(time)
                /\ caught' = (caught \/ (time >= RescheduleAt /\ Caught(time)))
                /\ UNCHANGED ring
    /\ fired' = NULL
    /\ UNCHANGED <<timeVars, deadline>>

(* The loop of apt_timer_queue_advance, with the callback of a timer that  *)
(* is due, which may use the timers                                        *)
Due == ring # <<>> /\ scheduled_time[Head(ring)] <= elapsed_time

Fire ==
    /\ pc = "fire" /\ Due
    /\ fired' = Head(ring)
    /\ ring' = Tail(ring)
    /\ scheduled_time' = [scheduled_time EXCEPT ![Head(ring)] = 0]
    /\ UNCHANGED <<elapsed_time, timeVars, pc, deadline, caught>>

Callback ==
    /\ pc = "fire" /\ fired # NULL
    /\ \E t \in Timers : Set(t) \/ Kill(t)

Fired ==
    /\ pc = "fire" /\ ~Due /\ pc' = "poll"
    /\ fired' = NULL
    /\ UNCHANGED <<queueVars, timeVars, deadline, caught>>

TimerNext == Poll \/ Wake \/ Handle \/ Advance \/ Fire \/ Callback \/ Fired

TimerSpec == TimerInit /\ [][TimerNext]_timerVars
-----------------------------------------------------------------------------
(* The ring is sorted and holds a timer once: the loop that fires timers,  *)
(* and the length of the wait, look at the first one only.  This, and what *)
(* follows, is lost when a timer is due in the very advance that           *)
(* reschedules the times.                                                  *)
RingSorted ==
    ~caught => \A i, j \in DOMAIN ring :
        i < j => ring[i] # ring[j] /\ scheduled_time[ring[i]] <= scheduled_time[ring[j]]

(* When the task begins to wait no timer is overdue: every timer whose     *)
(* time had come has fired, before and after the times were rescheduled.   *)
NoneOverdue ==
    ~caught /\ pc = "wait" /\ now = time_last => \A t \in Range(ring) : deadline[t] > now

(* A timer that is killed does not fire, and one that fires fires once: a  *)
(* timer in the ring has a time scheduled, so that it can be killed.       *)
SetCanBeKilled == ~caught => \A t \in Timers : t \in Range(ring) <=> scheduled_time[t] # 0

(* RingSorted and SetCanBeKilled: what apt_timer_set, apt_timer_kill and   *)
(* apt_timer_queue_advance rely on when they search the ring               *)
RingConsistent == RingSorted /\ SetCanBeKilled

(* RingConsistent and NoneOverdue of apt_timer_queue_advance: the ring is  *)
(* sorted, a timer that is set can be killed, and the task does not begin  *)
(* to wait with a timer overdue.                                           *)
TimersFire == RingConsistent /\ NoneOverdue
=============================================================================
