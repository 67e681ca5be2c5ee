---------------------------- MODULE TimerProofs ----------------------------
(***************************************************************************)
(* The timer queue of apt_timer_queue.c, for any timers and time-outs: the *)
(* ring is sorted, a timer that is set can be killed, and the poller never *)
(* begins to wait with a timer overdue, as long as no timer is due in the  *)
(* very advance that reschedules the times.                                *)
(***************************************************************************)
EXTENDS TimerQueue, SequenceTheorems, TLAPS

Types ==
    /\ ring \in Seq(Timers) /\ scheduled_time \in [Timers -> Nat]
    /\ elapsed_time \in Nat /\ elapsed_time < RescheduleAt
    /\ pc \in {"poll", "wait", "handle", "fire"}
    /\ timeout \in Nat \cup {NULL} /\ time_last \in Nat /\ now \in Nat /\ time_last <= now
    /\ deadline \in [Timers -> Nat \cup {NULL}]

Sorted(r, time) ==
    \A i, j \in 1 .. Len(r) : i < j => r[i] # r[j] /\ time[r[i]] <= time[r[j]]

Waiting == pc \in {"wait", "handle"} /\ timeout # NULL

(* The moment that elapsed_time stands for *)
Base == IF Waiting THEN time_last ELSE now

(* A timer that is set is not late: it has at least the time left that the *)
(* queue believes, and its time fits the word however late a wait ends.    *)
InTime(t) ==
    /\ scheduled_time[t] + MaxDelay < Word
    /\ deadline[t] \in Nat /\ deadline[t] + elapsed_time >= scheduled_time[t] + Base
    /\ pc # "fire" => scheduled_time[t] > elapsed_time

(* The wait ends before elapsed_time exceeds the word. *)
WaitFits ==
    /\ Waiting => elapsed_time + timeout + MaxDelay < Word
    /\ Waiting /\ pc = "handle" => now <= time_last + timeout + MaxDelay
    /\ pc = "wait" /\ timeout = NULL => ring = <<>>

Good ==
    /\ Types /\ Sorted(ring, scheduled_time)
    /\ \A t \in Timers : (\E i \in 1 .. Len(ring) : ring[i] = t) <=> scheduled_time[t] # 0
    /\ \A t \in Timers : scheduled_time[t] # 0 => InTime(t)
    /\ WaitFits

TimerInv == caught \in BOOLEAN /\ (~caught => Good)
-----------------------------------------------------------------------------
(* InsertAt and RemoveAt, index by index *)
LongerBy(r, s, i, e) ==
    /\ Len(r) = Len(s) + 1
    /\ \A j \in 1 .. Len(r) : r[j] = IF j <= i THEN s[j] ELSE IF j = i + 1 THEN e ELSE s[j - 1]

ShorterBy(r, s, i) ==
    /\ Len(r) = Len(s) - 1
    /\ \A j \in 1 .. Len(r) : r[j] = IF j < i THEN s[j] ELSE s[j + 1]

(* What InsertAt makes of a ring *)
LEMMA Inserted ==
    ASSUME NEW S, NEW s \in Seq(S), NEW e \in S, NEW i \in 0 .. Len(s), NEW r, r = InsertAt(s, i + 1, e)
    PROVE  r \in Seq(S) /\ LongerBy(r, s, i, e)
  <1>. DEFINE a == SubSeq(s, 1, i)
              b == SubSeq(s, i + 1, Len(s))
  <1>1. Len(s) \in Nat /\ i \in Nat /\ i <= Len(s)
    OBVIOUS
  <1>2. /\ a \in Seq(S) /\ Len(a) = i
        /\ \A j \in 1 .. i : a[j] = s[j]
    BY <1>1
  <1>3. /\ b \in Seq(S) /\ Len(b) = Len(s) - i
        /\ \A j \in 1 .. Len(s) - i : b[j] = s[i + j]
    BY <1>1, SubSeqProperties
  <1>4. r = (a \o <<e>>) \o b
    <2>1. (i + 1) - 1 = i
      BY <1>1
    <2>. QED BY Zenon, <2>1 DEF InsertAt
  <1>5. /\ a \o <<e>> \in Seq(S) /\ Len(a \o <<e>>) = i + 1
        /\ \A j \in 1 .. i : (a \o <<e>>)[j] = s[j]
        /\ (a \o <<e>>)[i + 1] = e
    <2>. HIDE DEF a
    <2>. QED BY <1>1, <1>2
  <1>. QED
    <2>. HIDE DEF a, b
    <2>. DEFINE c == a \o <<e>>
    <2>1. c \in Seq(S) /\ Len(c) = i + 1 /\ (\A j \in 1 .. i : c[j] = s[j]) /\ c[i + 1] = e /\ r = c \o b
      BY Zenon, <1>4, <1>5
    <2>. HIDE DEF c
    <2>2. r \in Seq(S) /\ Len(r) = Len(s) + 1
      <3>1. r \in Seq(S) /\ Len(r) = Len(c) + Len(b)
        BY ZenonT(40), <1>3, <2>1, ConcatProperties
      <3>. QED BY <1>1, <1>3, <2>1, <3>1
    <2>3. ASSUME NEW j \in 1 .. Len(r), j <= i + 1 PROVE r[j] = c[j]
      BY <1>1, <1>3, <2>1, <2>2, <2>3
    <2>4. ASSUME NEW j \in 1 .. Len(r), j > i + 1 PROVE r[j] = s[j - 1]
      <3>1. r[j] = b[j - (i + 1)]
        BY <1>1, <1>3, <2>1, <2>2, <2>4
      <3>2. j - (i + 1) \in 1 .. Len(s) - i
        BY <1>1, <2>2, <2>4
      <3>3. b[j - (i + 1)] = s[i + (j - (i + 1))] /\ i + (j - (i + 1)) = j - 1
        BY SMTT(40), <1>1, <1>3, <3>2
      <3>. QED BY Zenon, <3>1, <3>3
    <2>. QED BY <1>1, <2>1, <2>2, <2>3, <2>4 DEF LongerBy

(* What RemoveAt makes of a ring *)
LEMMA Removed ==
    ASSUME NEW S, NEW s \in Seq(S), NEW i \in 1 .. Len(s), NEW r, r = RemoveAt(s, i)
    PROVE  r \in Seq(S) /\ ShorterBy(r, s, i)
  <1>. DEFINE a == SubSeq(s, 1, i - 1)
              b == SubSeq(s, i + 1, Len(s))
  <1>1. Len(s) \in Nat /\ i \in Nat /\ i <= Len(s) /\ 1 <= i
    OBVIOUS
  <1>2. /\ a \in Seq(S) /\ Len(a) = i - 1
        /\ \A j \in 1 .. i - 1 : a[j] = s[j]
    BY <1>1
  <1>3. /\ b \in Seq(S) /\ Len(b) = Len(s) - i
        /\ \A j \in 1 .. Len(s) - i : b[j] = s[i + j]
    BY <1>1, SubSeqProperties
  <1>4. r = a \o b
    BY Zenon DEF RemoveAt
  <1>. QED
    <2>. HIDE DEF a, b
    <2>2. r \in Seq(S) /\ Len(r) = Len(s) - 1
      BY <1>1, <1>2, <1>3, <1>4
    <2>3. ASSUME NEW j \in 1 .. Len(r), j < i PROVE r[j] = s[j]
      BY SMTT(40), <1>1, <1>2, <1>3, <1>4, <2>2, <2>3
    <2>4. ASSUME NEW j \in 1 .. Len(r), ~(j < i) PROVE r[j] = s[j + 1]
      <3>1. r[j] = b[j - (i - 1)]
        BY <1>1, <1>2, <1>3, <1>4, <2>2, <2>4
      <3>2. j - (i - 1) \in 1 .. Len(s) - i
        BY <1>1, <2>2, <2>4
      <3>3. b[j - (i - 1)] = s[i + (j - (i - 1))] /\ i + (j - (i - 1)) = j + 1
        BY <1>1, <1>3, <3>2
      <3>. QED BY Zenon, <3>1, <3>3
    <2>. QED BY Zenon, <1>1, <2>2, <2>3, <2>4 DEF ShorterBy

-----------------------------------------------------------------------------
(* The queue is empty to begin with. *)
LEMMA InitGood == TimerInit => TimerInv
  <1>. SUFFICES ASSUME TimerInit PROVE Good
    BY Zenon DEF TimerInv, TimerInit
  <1>1. Types
    BY TimesFit DEF TimerInit, Types
  <1>2. Sorted(ring, scheduled_time) /\ Len(ring) = 0 /\ 1 .. Len(ring) = {}
    BY DEF TimerInit, Sorted
  <1>3. WaitFits
    BY Zenon DEF TimerInit, WaitFits, Waiting
  <1>. QED BY Zenon, <1>1, <1>2, <1>3 DEF Good, TimerInit

(* The words of the code are wide enough: a sum that fits is not reduced. *)
LEMMA Fits == \A n \in Nat : n < Word => n % Word = n
  BY TimesFit

(* apt_timer_set *)
LEMMA KeepSet ==
    ASSUME Good, NEW t \in Timers, Set(t), pc \in {"handle", "fire"}
    PROVE  Good'
  <1>1. /\ Types /\ Sorted(ring, scheduled_time) /\ WaitFits
        /\ \A u \in Timers : (\E i \in 1 .. Len(ring) : ring[i] = u) <=> scheduled_time[u] # 0
        /\ \A u \in Timers : scheduled_time[u] # 0 => InTime(u)
    BY Zenon DEF Good
  <1>2. PICK length \in Timeouts, i \in 0 .. Len(ring) :
          /\ Goes(i, (elapsed_time + length) % Word)
          /\ ring' = InsertAt(ring, i + 1, t)
          /\ scheduled_time' = [scheduled_time EXCEPT ![t] = (elapsed_time + length) % Word]
          /\ deadline' = [deadline EXCEPT ![t] = now + length]
    BY Zenon DEF Set
  <1>3. /\ UNCHANGED <<elapsed_time, timeout, time_last, now, pc, caught>>
        /\ t \notin Range(ring)
    BY Zenon DEF Set, timeVars
  <1>. DEFINE time == elapsed_time + length
  <1>4. /\ elapsed_time \in Nat /\ elapsed_time < RescheduleAt /\ now \in Nat /\ time_last \in Nat
        /\ time_last <= now /\ length \in Nat /\ length # 0 /\ Len(ring) \in Nat /\ i \in Nat
        /\ i <= Len(ring) /\ RescheduleAt \in Nat /\ MaxDelay \in Nat /\ Word \in Nat
        /\ RescheduleAt + MaxDelay + 2 * length < Word
    BY <1>1, TimesFit DEF Types
  <1>5. time \in Nat /\ time + MaxDelay < Word /\ time < Word /\ time > elapsed_time /\ time # 0
    BY <1>4
  <1>6. (elapsed_time + length) % Word = time
    BY Zenon, <1>5, Fits
  <1>. HIDE DEF time
  <1>7. /\ Goes(i, time) /\ scheduled_time' = [scheduled_time EXCEPT ![t] = time]
        /\ scheduled_time \in [Timers -> Nat] /\ deadline \in [Timers -> Nat \cup {NULL}]
        /\ ring \in Seq(Timers)
    BY Zenon, <1>1, <1>2, <1>6 DEF Types
  <1>8. /\ scheduled_time'[t] = time /\ deadline'[t] = now + length
        /\ \A u \in Timers : u # t => scheduled_time'[u] = scheduled_time[u] /\ deadline'[u] = deadline[u]
    BY Zenon, <1>2, <1>7
  <1>9. /\ ring' \in Seq(Timers) /\ Len(ring') = Len(ring) + 1
        /\ \A j \in 1 .. Len(ring') :
              ring'[j] = IF j <= i THEN ring[j] ELSE IF j = i + 1 THEN t ELSE ring[j - 1]
    <2>1. ring' = InsertAt(ring, i + 1, t) /\ ring \in Seq(Timers)
      BY Zenon, <1>2, <1>7
    <2>2. ring' \in Seq(Timers) /\ LongerBy(ring', ring, i, t)
      BY Zenon, <2>1, Inserted
    <2>. QED BY Zenon, <2>2 DEF LongerBy
  <1>10. \A j \in 1 .. Len(ring) : ring[j] \in Timers /\ ring[j] # t
    <2>1. DOMAIN ring = 1 .. Len(ring) /\ \A j \in 1 .. Len(ring) : ring[j] \in Timers
      BY <1>7
    <2>. QED BY Zenon, <1>3, <2>1 DEF Range
  <1>11. Types'
    <2>1. now + length \in Nat
      BY <1>4
    <2>2. scheduled_time' \in [Timers -> Nat] /\ deadline' \in [Timers -> Nat \cup {NULL}]
      BY Zenon, <1>2, <1>5, <1>7, <2>1
    <2>. QED BY Zenon, <1>1, <1>3, <1>9, <2>2 DEF Types
  <1>12. Sorted(ring, scheduled_time)'
    <2>1. \A j, k \in 1 .. Len(ring) :
             j < k => /\ ring[j] # ring[k]
                      /\ scheduled_time'[ring[j]] <= scheduled_time'[ring[k]]
      BY Zenon, <1>1, <1>8, <1>10 DEF Sorted
    <2>2. \A j \in 1 .. Len(ring) :
             /\ scheduled_time'[ring[j]] \in Nat /\ ring[j] # t
             /\ j <= i => scheduled_time'[ring[j]] <= time
             /\ i < j => time <= scheduled_time'[ring[j]]
      <3>1. \A j \in 1 .. Len(ring) : scheduled_time'[ring[j]] = scheduled_time[ring[j]] /\ scheduled_time[ring[j]] \in Nat
        BY Zenon, <1>7, <1>8, <1>10
      <3>2. i # 0 => i \in 1 .. Len(ring) /\ scheduled_time[ring[i]] <= time
        BY <1>4, <1>7 DEF Goes
      <3>3. \A j \in 1 .. Len(ring) : i < j => scheduled_time[ring[j]] > time
        BY <1>4, <1>7 DEF Goes
      <3>4. \A j \in 1 .. Len(ring) : j < i => scheduled_time[ring[j]] <= scheduled_time[ring[i]]
        BY <1>1, <1>4 DEF Sorted
      <3>5. \A j \in 1 .. Len(ring) : scheduled_time[ring[j]] \in Nat
        BY Zenon, <3>1
      <3>6. \A j \in 1 .. Len(ring) : /\ j <= i => scheduled_time[ring[j]] <= time
                                      /\ i < j => time <= scheduled_time[ring[j]]
        <4>. SUFFICES ASSUME NEW j \in 1 .. Len(ring)
                      PROVE  /\ j <= i => scheduled_time[ring[j]] <= time
                             /\ i < j => time <= scheduled_time[ring[j]]
          OBVIOUS
        <4>1. CASE j < i
          <5>1. i \in 1 .. Len(ring) /\ i # 0
            BY <1>4, <4>1
          <5>. QED BY SMTT(40), <1>4, <1>5, <4>1, <5>1, <3>2, <3>4, <3>5
        <4>2. CASE j = i
          BY <1>4, <4>2, <3>2
        <4>3. CASE i < j
          BY SMTT(40), <1>4, <1>5, <4>3, <3>3, <3>5
        <4>. QED BY <1>4, <4>1, <4>2, <4>3
      <3>. QED BY Zenon, <1>10, <3>1, <3>6
    <2>. SUFFICES ASSUME NEW j \in 1 .. Len(ring'), NEW k \in 1 .. Len(ring'), j < k
                  PROVE  ring'[j] # ring'[k] /\ scheduled_time'[ring'[j]] <= scheduled_time'[ring'[k]]
      BY Zenon DEF Sorted
    <2>. DEFINE jj == IF j <= i THEN j ELSE j - 1
                kk == IF k <= i THEN k ELSE k - 1
    <2>3. /\ j # i + 1 => jj \in 1 .. Len(ring) /\ ring'[j] = ring[jj]
          /\ k # i + 1 => kk \in 1 .. Len(ring) /\ ring'[k] = ring[kk]
          /\ j = i + 1 => ring'[j] = t /\ i < kk
          /\ k = i + 1 => ring'[k] = t /\ jj <= i
          /\ j # i + 1 /\ k # i + 1 => jj < kk
      BY <1>4, <1>9
    <2>. HIDE DEF jj, kk
    <2>. QED BY <1>8, <2>1, <2>2, <2>3
  <1>13. \A u \in Timers : (\E j \in 1 .. Len(ring') : ring'[j] = u) <=> scheduled_time'[u] # 0
    <2>1. i + 1 \in 1 .. Len(ring') /\ ring'[i + 1] = t
      BY <1>4, <1>9
    <2>2. ASSUME NEW j \in 1 .. Len(ring) PROVE \E k \in 1 .. Len(ring') : ring'[k] = ring[j]
      <3>1. IF j <= i THEN j \in 1 .. Len(ring') /\ ring'[j] = ring[j]
                      ELSE j + 1 \in 1 .. Len(ring') /\ ring'[j + 1] = ring[j]
        BY <1>4, <1>9, <2>2
      <3>. QED BY Zenon, <3>1
    <2>3. ASSUME NEW k \in 1 .. Len(ring'), ring'[k] # t PROVE \E j \in 1 .. Len(ring) : ring'[k] = ring[j]
      <3>1. IF k <= i THEN k \in 1 .. Len(ring) /\ ring'[k] = ring[k]
                      ELSE k - 1 \in 1 .. Len(ring) /\ ring'[k] = ring[k - 1]
        BY <1>4, <1>9, <2>3
      <3>. QED BY Zenon, <3>1
    <2>4. scheduled_time'[t] # 0
      BY Zenon, <1>5, <1>8
    <2>5. \A u \in Timers : (\E j \in 1 .. Len(ring) : ring[j] = u) <=> scheduled_time[u] # 0
      BY Zenon, <1>1
    <2>6. ASSUME NEW u \in Timers, u # t
          PROVE  (\E j \in 1 .. Len(ring') : ring'[j] = u) <=> (\E j \in 1 .. Len(ring) : ring[j] = u)
      BY Zenon, <2>2, <2>3, <2>6
    <2>. QED BY Zenon, <1>8, <2>1, <2>4, <2>5, <2>6
  <1>14. Base' = Base /\ Base \in Nat /\ Base <= now /\ (Waiting' <=> Waiting)
    BY <1>3, <1>4 DEF Base, Waiting
  <1>15. InTime(t)'
    <2>1. deadline'[t] \in Nat /\ deadline'[t] + elapsed_time' >= time + Base'
      <3>1. deadline'[t] = now + length /\ Base' = Base /\ elapsed_time' = elapsed_time
        BY Zenon, <1>3, <1>8, <1>14
      <3>2. now + length \in Nat /\ now + length + elapsed_time >= elapsed_time + length + Base
        BY <1>4, <1>14
      <3>. QED BY Zenon, <3>1, <3>2 DEF time
    <2>. QED BY Zenon, <1>3, <1>5, <1>8, <2>1 DEF InTime
  <1>16. \A u \in Timers : scheduled_time'[u] # 0 => InTime(u)'
    <2>. SUFFICES ASSUME NEW u \in Timers, u # t, scheduled_time'[u] # 0 PROVE InTime(u)'
      BY Zenon, <1>15
    <2>. QED BY Zenon, <1>1, <1>3, <1>8, <1>14 DEF InTime
  <1>17. WaitFits'
    <2>1. pc' # "wait"
      BY Zenon, <1>3
    <2>. QED BY Zenon, <1>1, <1>3, <1>14, <2>1 DEF WaitFits
  <1>. QED BY Zenon, <1>11, <1>12, <1>13, <1>16, <1>17 DEF Good

(* What the invariant says of the ring, by the index of a timer *)
LEMMA InRing ==
    ASSUME Good, NEW i \in 1 .. Len(ring)
    PROVE  /\ ring[i] \in Timers /\ scheduled_time[ring[i]] # 0 /\ InTime(ring[i])
           /\ scheduled_time[ring[i]] \in Nat /\ Len(ring) \in Nat
  <1>1. /\ Types /\ \A u \in Timers : (\E j \in 1 .. Len(ring) : ring[j] = u) <=> scheduled_time[u] # 0
        /\ \A u \in Timers : scheduled_time[u] # 0 => InTime(u)
    BY Zenon DEF Good
  <1>2. ring \in Seq(Timers) /\ scheduled_time \in [Timers -> Nat]
    BY Zenon, <1>1 DEF Types
  <1>3. ring[i] \in Timers /\ Len(ring) \in Nat
    BY <1>2
  <1>. QED BY Zenon, <1>1, <1>2, <1>3

(* A ring that loses a timer stays sorted and holds the other timers. *)
LEMMA OneFewer ==
    ASSUME Good, NEW k \in 1 .. Len(ring), ring' \in Seq(Timers), ShorterBy(ring', ring, k),
           scheduled_time' = [scheduled_time EXCEPT ![ring[k]] = 0]
    PROVE  /\ Sorted(ring, scheduled_time)'
           /\ \A u \in Timers : (\E i \in 1 .. Len(ring') : ring'[i] = u) <=> scheduled_time'[u] # 0
           /\ scheduled_time' \in [Timers -> Nat]
  <1>1. /\ Types /\ Sorted(ring, scheduled_time)
        /\ \A u \in Timers : (\E i \in 1 .. Len(ring) : ring[i] = u) <=> scheduled_time[u] # 0
    BY Zenon DEF Good
  <1>2. /\ Len(ring) \in Nat /\ Len(ring') = Len(ring) - 1
        /\ \A j \in 1 .. Len(ring') : ring'[j] = IF j < k THEN ring[j] ELSE ring[j + 1]
    BY Zenon, InRing DEF ShorterBy
  <1>3. /\ scheduled_time \in [Timers -> Nat] /\ ring[k] \in Timers
        /\ \A i \in 1 .. Len(ring) : ring[i] \in Timers
    BY Zenon, <1>1, InRing DEF Types
  <1>4. /\ scheduled_time'[ring[k]] = 0
        /\ \A u \in Timers : u # ring[k] => scheduled_time'[u] = scheduled_time[u]
    BY Zenon, <1>3
  <1>5. \A i, j \in 1 .. Len(ring) :
           i < j => ring[i] # ring[j] /\ scheduled_time[ring[i]] <= scheduled_time[ring[j]]
    BY Zenon, <1>1 DEF Sorted
  <1>6. \A i \in 1 .. Len(ring) : i # k => ring[i] # ring[k]
    BY <1>2, <1>5
  <1>. DEFINE from(i) == IF i < k THEN i ELSE i + 1
  <1>7. \A i \in 1 .. Len(ring') : from(i) \in 1 .. Len(ring) /\ from(i) # k /\ ring'[i] = ring[from(i)]
    BY <1>2
  <1>8. \A i, j \in 1 .. Len(ring') : i < j => from(i) < from(j)
    BY <1>2
  <1>. HIDE DEF from
  <1>9. Sorted(ring, scheduled_time)'
    <2>1. \A i \in 1 .. Len(ring') : scheduled_time'[ring'[i]] = scheduled_time[ring[from(i)]]
      BY Zenon, <1>3, <1>4, <1>6, <1>7
    <2>. SUFFICES ASSUME NEW i \in 1 .. Len(ring'), NEW j \in 1 .. Len(ring'), i < j
                  PROVE  ring'[i] # ring'[j] /\ scheduled_time'[ring'[i]] <= scheduled_time'[ring'[j]]
      BY Zenon DEF Sorted
    <2>2. from(i) \in 1 .. Len(ring) /\ from(j) \in 1 .. Len(ring) /\ from(i) < from(j)
      BY Zenon, <1>7, <1>8
    <2>3. ring[from(i)] # ring[from(j)] /\ scheduled_time[ring[from(i)]] <= scheduled_time[ring[from(j)]]
      BY Zenon, <1>5, <2>2
    <2>. QED BY Zenon, <1>7, <2>1, <2>3
  <1>10. \A j \in 1 .. Len(ring) : j # k => \E i \in 1 .. Len(ring') : ring'[i] = ring[j]
    <2>. SUFFICES ASSUME NEW j \in 1 .. Len(ring), j # k PROVE \E i \in 1 .. Len(ring') : ring'[i] = ring[j]
      OBVIOUS
    <2>1. IF j < k THEN j \in 1 .. Len(ring') /\ ring'[j] = ring[j]
                   ELSE j - 1 \in 1 .. Len(ring') /\ ring'[j - 1] = ring[j]
      BY <1>2
    <2>. QED BY Zenon, <2>1
  <1>11. ASSUME NEW u \in Timers
         PROVE  (\E i \in 1 .. Len(ring') : ring'[i] = u) <=> scheduled_time'[u] # 0
    <2>1. CASE u = ring[k]
      BY Zenon, <2>1, <1>4, <1>6, <1>7
    <2>2. CASE u # ring[k]
      <3>1. scheduled_time'[u] # 0 <=> \E i \in 1 .. Len(ring) : ring[i] = u
        BY Zenon, <2>2, <1>1, <1>4
      <3>. QED BY Zenon, <2>2, <3>1, <1>7, <1>10
    <2>. QED BY Zenon, <2>1, <2>2
  <1>12. scheduled_time' \in [Timers -> Nat]
    BY Zenon, <1>3
  <1>. QED BY Zenon, <1>9, <1>11, <1>12

(* apt_timer_kill *)
LEMMA KeepKill ==
    ASSUME Good, NEW t \in Timers, Kill(t), pc \in {"handle", "fire"}
    PROVE  Good'
  <1>1. /\ Types /\ WaitFits /\ ring \in Seq(Timers)
        /\ \A u \in Timers : scheduled_time[u] # 0 => InTime(u)
        /\ scheduled_time \in [Timers -> Nat] /\ deadline \in [Timers -> Nat \cup {NULL}]
    BY Zenon DEF Good, Types
  <1>2. PICK k \in DOMAIN ring : ring[k] = t /\ ring' = RemoveAt(ring, k)
    BY Zenon DEF Kill
  <1>3. /\ UNCHANGED <<timeout, time_last, now, pc, caught>>
        /\ scheduled_time' = [scheduled_time EXCEPT ![t] = 0]
        /\ deadline' = [deadline EXCEPT ![t] = NULL]
        /\ elapsed_time' = IF ring' = <<>> THEN 0 ELSE elapsed_time
    BY Zenon DEF Kill, timeVars
  <1>4. k \in 1 .. Len(ring)
    BY <1>1
  <1>5. ring' \in Seq(Timers) /\ ShorterBy(ring', ring, k)
    BY Zenon, <1>1, <1>2, <1>4, Removed
  <1>6. /\ Sorted(ring, scheduled_time)'
        /\ \A u \in Timers : (\E i \in 1 .. Len(ring') : ring'[i] = u) <=> scheduled_time'[u] # 0
        /\ scheduled_time' \in [Timers -> Nat]
    BY Zenon, <1>2, <1>3, <1>4, <1>5, OneFewer
  <1>7. elapsed_time' \in Nat /\ elapsed_time' <= elapsed_time /\ elapsed_time' < RescheduleAt
        /\ elapsed_time \in Nat
    BY <1>1, <1>3, TimesFit DEF Types
  <1>8. Types'
    <2>1. deadline' \in [Timers -> Nat \cup {NULL}]
      BY Zenon, <1>1, <1>3
    <2>. QED BY Zenon, <1>1, <1>3, <1>5, <1>6, <1>7, <2>1 DEF Types
  <1>9. \A u \in Timers : scheduled_time'[u] # 0 => InTime(u)'
    <2>. SUFFICES ASSUME NEW u \in Timers, scheduled_time'[u] # 0 PROVE InTime(u)'
      OBVIOUS
    <2>1. u # t /\ scheduled_time'[u] = scheduled_time[u] /\ deadline'[u] = deadline[u]
      BY Zenon, <1>1, <1>3
    <2>2. ring' # <<>>
      <3>1. \E i \in 1 .. Len(ring') : ring'[i] = u
        BY Zenon, <1>6
      <3>. QED BY <3>1
    <2>3. elapsed_time' = elapsed_time /\ Base' = Base
      BY Zenon, <1>3, <2>2 DEF Base, Waiting
    <2>. QED BY Zenon, <1>1, <1>3, <2>1, <2>3 DEF InTime
  <1>10. WaitFits'
    <2>1. pc' # "wait" /\ (Waiting' <=> Waiting)
      BY Zenon, <1>3 DEF Waiting
    <2>2. Waiting => timeout \in Nat /\ MaxDelay \in Nat /\ Word \in Nat /\ elapsed_time + timeout + MaxDelay < Word
      BY Zenon, <1>1, TimesFit DEF Waiting, Types, WaitFits
    <2>3. Waiting => elapsed_time' + timeout + MaxDelay < Word
      BY <1>7, <2>2
    <2>. QED BY Zenon, <1>1, <1>3, <2>1, <2>3 DEF WaitFits
  <1>. QED BY Zenon, <1>6, <1>8, <1>9, <1>10 DEF Good

(* Nothing but the place in the loop, the clock and the wait change, and   *)
(* what has been promised still holds.                                     *)
LEMMA SameQueue ==
    ASSUME Good, UNCHANGED <<ring, scheduled_time, elapsed_time, deadline>>,
           pc' \in {"poll", "wait", "handle", "fire"}, timeout' \in Nat \cup {NULL},
           time_last' \in Nat, now' \in Nat, time_last' <= now', WaitFits',
           \A t \in Timers : scheduled_time[t] # 0 => InTime(t)'
    PROVE  Good'
  <1>1. Types' /\ Sorted(ring, scheduled_time)'
    BY Zenon DEF Good, Types, Sorted
  <1>. QED BY Zenon, <1>1 DEF Good

(* apt_timer_queue_timeout_get and the beginning of the wait *)
LEMMA KeepPoll ==
    ASSUME Good, Poll
    PROVE  Good'
  <1>1. /\ pc = "poll" /\ pc' = "wait" /\ UNCHANGED <<ring, scheduled_time, elapsed_time, now, deadline>>
        /\ timeout' = IF ring = <<>> THEN NULL ELSE (scheduled_time[Head(ring)] - elapsed_time) % Word
        /\ time_last' = IF ring = <<>> THEN time_last ELSE now
    BY Zenon DEF Poll, queueVars
  <1>2. /\ Types /\ \A t \in Timers : scheduled_time[t] # 0 => InTime(t)
        /\ \A u \in Timers : (\E i \in 1 .. Len(ring) : ring[i] = u) <=> scheduled_time[u] # 0
    BY Zenon DEF Good
  <1>3. /\ now \in Nat /\ time_last \in Nat /\ time_last <= now /\ elapsed_time \in Nat
        /\ MaxDelay \in Nat /\ Word \in Nat /\ ring \in Seq(Timers) /\ NULL \notin Nat
    BY Zenon, <1>2, TimesFit DEF Types
  <1>4. CASE ring = <<>>
    <2>1. timeout' = NULL /\ time_last' = time_last
      BY Zenon, <1>1, <1>4
    <2>2. ~Waiting'
      BY Zenon, <2>1 DEF Waiting
    <2>3. WaitFits'
      BY Zenon, <1>1, <1>4, <2>2 DEF WaitFits
    <2>4. 1 .. Len(ring) = {}
      BY <1>4
    <2>5. \A t \in Timers : scheduled_time[t] = 0
      BY Zenon, <1>2, <2>4
    <2>. QED BY Zenon, <1>1, <1>3, <2>1, <2>3, <2>5, SameQueue
  <1>5. CASE ring # <<>>
    <2>1. Head(ring) = ring[1] /\ 1 \in 1 .. Len(ring)
      BY <1>3, <1>5
    <2>2. scheduled_time[ring[1]] \in Nat /\ InTime(ring[1])
      BY Zenon, <2>1, InRing
    <2>. DEFINE time == scheduled_time[ring[1]]
    <2>3. time \in Nat /\ time + MaxDelay < Word /\ time > elapsed_time
      BY Zenon, <1>1, <2>2 DEF InTime
    <2>4. time - elapsed_time \in Nat /\ time - elapsed_time < Word /\ elapsed_time + (time - elapsed_time) + MaxDelay < Word
      <3>. HIDE DEF time
      <3>. QED BY <1>3, <2>3
    <2>5. timeout' = time - elapsed_time /\ time_last' = now
      BY Zenon, <1>1, <1>5, <2>1, <2>4, Fits
    <2>6. Waiting' /\ Base' = now' /\ Base = now
      <3>1. timeout' # NULL
        BY Zenon, <1>3, <2>4, <2>5
      <3>2. pc' \in {"wait", "handle"}
        BY Zenon, <1>1
      <3>. QED BY Zenon, <1>1, <2>5, <3>1, <3>2 DEF Waiting, Base
    <2>7. WaitFits'
      BY Zenon, <1>1, <2>4, <2>5, <2>6 DEF WaitFits, Waiting
    <2>8. \A t \in Timers : scheduled_time[t] # 0 => InTime(t)'
      BY Zenon, <1>1, <1>2, <2>6 DEF InTime
    <2>9. now <= now
      BY <1>3
    <2>. QED BY Zenon, <1>1, <1>3, <2>4, <2>5, <2>7, <2>8, <2>9, SameQueue
  <1>. QED BY Zenon, <1>4, <1>5

(* The end of the wait *)
LEMMA KeepWake ==
    ASSUME Good, Wake
    PROVE  Good'
  <1>1. PICK time \in now .. MaxTime :
           (timeout # NULL => time <= time_last + timeout + MaxDelay) /\ now' = time
    BY Zenon DEF Wake
  <1>2. /\ pc = "wait" /\ pc' = "handle"
        /\ UNCHANGED <<ring, scheduled_time, elapsed_time, timeout, time_last, deadline>>
    BY Zenon DEF Wake, queueVars
  <1>3. /\ Types /\ WaitFits /\ \A t \in Timers : scheduled_time[t] # 0 => InTime(t)
        /\ \A u \in Timers : (\E i \in 1 .. Len(ring) : ring[i] = u) <=> scheduled_time[u] # 0
    BY Zenon DEF Good
  <1>4. now' \in Nat /\ time_last <= now' /\ time_last \in Nat /\ timeout \in Nat \cup {NULL}
    BY <1>1, <1>3, TimesFit DEF Types
  <1>5. Waiting' <=> Waiting
    BY Zenon, <1>2 DEF Waiting
  <1>6. WaitFits'
    BY Zenon, <1>1, <1>2, <1>3, <1>5 DEF WaitFits, Waiting
  <1>7. \A t \in Timers : scheduled_time[t] # 0 => InTime(t)'
    <2>1. CASE Waiting
      <3>1. Base' = Base
        BY Zenon, <1>2, <1>5, <2>1 DEF Base
      <3>. QED BY Zenon, <1>2, <1>3, <3>1 DEF InTime
    <2>2. CASE ~Waiting
      <3>1. ring = <<>>
        BY Zenon, <1>2, <1>3, <2>2 DEF Waiting, WaitFits
      <3>2. 1 .. Len(ring) = {}
        BY <3>1
      <3>. QED BY Zenon, <1>3, <3>2
    <2>. QED BY Zenon, <2>1, <2>2
  <1>. QED BY Zenon, <1>2, <1>4, <1>6, <1>7, SameQueue

(* The end of the loop of apt_timer_queue_advance: the first timer is not  *)
(* due, and neither are the others.                                        *)
LEMMA KeepFired ==
    ASSUME Good, Fired
    PROVE  Good'
  <1>1. /\ pc = "fire" /\ pc' = "poll" /\ ~Due
        /\ UNCHANGED <<ring, scheduled_time, elapsed_time, timeout, time_last, now, deadline>>
    BY Zenon DEF Fired, queueVars, timeVars
  <1>2. /\ Types /\ Sorted(ring, scheduled_time) /\ \A t \in Timers : scheduled_time[t] # 0 => InTime(t)
        /\ \A u \in Timers : (\E i \in 1 .. Len(ring) : ring[i] = u) <=> scheduled_time[u] # 0
    BY Zenon DEF Good
  <1>3. ~Waiting' /\ ~Waiting /\ Base' = Base
    BY Zenon, <1>1 DEF Waiting, Base
  <1>4. WaitFits'
    BY Zenon, <1>1, <1>3 DEF WaitFits
  <1>5. \A t \in Timers : scheduled_time[t] # 0 => scheduled_time[t] > elapsed_time
    <2>. SUFFICES ASSUME NEW i \in 1 .. Len(ring) PROVE scheduled_time[ring[i]] > elapsed_time
      BY Zenon, <1>2
    <2>1. ring \in Seq(Timers) /\ elapsed_time \in Nat
      BY Zenon, <1>2 DEF Types
    <2>2. ring # <<>> /\ Head(ring) = ring[1] /\ 1 \in 1 .. Len(ring) /\ (i # 1 => 1 < i)
      BY <2>1
    <2>3. /\ scheduled_time[ring[1]] \in Nat /\ scheduled_time[ring[i]] \in Nat
          /\ i # 1 => scheduled_time[ring[1]] <= scheduled_time[ring[i]]
      BY Zenon, <1>2, <2>2, InRing DEF Sorted
    <2>4. ~(scheduled_time[ring[1]] <= elapsed_time)
      BY Zenon, <1>1, <2>2 DEF Due
    <2>. QED BY <2>1, <2>3, <2>4
  <1>6. \A t \in Timers : scheduled_time[t] # 0 => InTime(t)'
    BY Zenon, <1>1, <1>2, <1>3, <1>5 DEF InTime
  <1>7. timeout \in Nat \cup {NULL} /\ time_last \in Nat /\ now \in Nat /\ time_last <= now
    BY Zenon, <1>2 DEF Types
  <1>. QED BY Zenon, <1>1, <1>4, <1>6, <1>7, SameQueue

(* The first timer fires. *)
LEMMA KeepFire ==
    ASSUME Good, Fire
    PROVE  Good'
  <1>1. /\ pc = "fire" /\ Due /\ ring' = Tail(ring)
        /\ scheduled_time' = [scheduled_time EXCEPT ![Head(ring)] = 0]
        /\ UNCHANGED <<elapsed_time, timeout, time_last, now, pc, deadline>>
    BY Zenon DEF Fire, timeVars
  <1>2. Types /\ WaitFits /\ \A t \in Timers : scheduled_time[t] # 0 => InTime(t)
    BY Zenon DEF Good
  <1>3. ring \in Seq(Timers) /\ ring # <<>> /\ scheduled_time \in [Timers -> Nat]
    BY Zenon, <1>1, <1>2 DEF Types, Due
  <1>4. /\ Head(ring) = ring[1] /\ 1 \in 1 .. Len(ring) /\ Tail(ring) \in Seq(Timers)
        /\ Len(Tail(ring)) = Len(ring) - 1
        /\ \A j \in 1 .. Len(Tail(ring)) : Tail(ring)[j] = ring[j + 1]
        /\ \A j \in 1 .. Len(Tail(ring)) : ~(j < 1)
    BY <1>3
  <1>5. ring' \in Seq(Timers) /\ ShorterBy(ring', ring, 1)
    BY Zenon, <1>1, <1>4 DEF ShorterBy
  <1>6. /\ Sorted(ring, scheduled_time)'
        /\ \A u \in Timers : (\E i \in 1 .. Len(ring') : ring'[i] = u) <=> scheduled_time'[u] # 0
        /\ scheduled_time' \in [Timers -> Nat]
    BY Zenon, <1>1, <1>4, <1>5, OneFewer
  <1>7. Types'
    BY Zenon, <1>1, <1>2, <1>5, <1>6 DEF Types
  <1>8. WaitFits' /\ Base' = Base
    BY Zenon, <1>1 DEF WaitFits, Base, Waiting
  <1>9. \A t \in Timers : scheduled_time'[t] # 0 => InTime(t)'
    <2>. SUFFICES ASSUME NEW t \in Timers, scheduled_time'[t] # 0 PROVE InTime(t)'
      OBVIOUS
    <2>1. scheduled_time'[t] = scheduled_time[t]
      BY Zenon, <1>1, <1>3
    <2>. QED BY Zenon, <1>1, <1>2, <1>8, <2>1 DEF InTime
  <1>. QED BY Zenon, <1>6, <1>7, <1>8, <1>9 DEF Good

(* apt_timer_queue_advance up to its loop, with the rescheduling *)
LEMMA KeepAdvance ==
    ASSUME Good, ~caught, Advance, ~caught'
    PROVE  Good'
  <1>1. pc = "handle" /\ UNCHANGED <<timeout, time_last, now, deadline>>
    BY Zenon DEF Advance, timeVars
  <1>2. /\ Types /\ WaitFits /\ Sorted(ring, scheduled_time)
        /\ \A t \in Timers : scheduled_time[t] # 0 => InTime(t)
        /\ \A u \in Timers : (\E i \in 1 .. Len(ring) : ring[i] = u) <=> scheduled_time[u] # 0
    BY Zenon DEF Good
  <1>3. /\ elapsed_time \in Nat /\ elapsed_time < RescheduleAt /\ now \in Nat /\ time_last \in Nat
        /\ time_last <= now /\ timeout \in Nat \cup {NULL} /\ ring \in Seq(Timers)
        /\ scheduled_time \in [Timers -> Nat] /\ deadline \in [Timers -> Nat \cup {NULL}]
        /\ MaxDelay \in Nat /\ Word \in Nat /\ RescheduleAt \in Nat
    BY Zenon, <1>2, TimesFit DEF Types
  <1>4. CASE timeout = NULL \/ now = time_last \/ ring = <<>>
    <2>1. pc' = "poll" /\ UNCHANGED <<ring, scheduled_time, elapsed_time>>
      BY Zenon, <1>4 DEF Advance, queueVars
    <2>2. ~Waiting' /\ Base' = now
      BY Zenon, <1>1, <2>1 DEF Waiting, Base
    <2>3. WaitFits'
      BY Zenon, <2>1, <2>2 DEF WaitFits
    <2>4. \A t \in Timers : scheduled_time[t] # 0 => InTime(t)'
      <3>1. CASE timeout = NULL \/ now = time_last
        <4>1. Base = now
          BY Zenon, <3>1 DEF Base, Waiting
        <4>. QED BY Zenon, <1>1, <1>2, <2>1, <2>2, <4>1 DEF InTime
      <3>2. CASE ring = <<>>
        <4>1. 1 .. Len(ring) = {}
          BY <3>2
        <4>. QED BY Zenon, <1>2, <4>1
      <3>. QED BY Zenon, <1>4, <3>1, <3>2
    <2>. QED BY Zenon, <1>1, <1>3, <2>1, <2>3, <2>4, SameQueue
  <1>5. CASE ~(timeout = NULL \/ now = time_last \/ ring = <<>>)
    <2>. DEFINE time == elapsed_time + now - time_last
    <2>1. Waiting /\ Base = time_last /\ timeout \in Nat
      BY Zenon, <1>1, <1>3, <1>5 DEF Waiting, Base
    <2>2. elapsed_time + timeout + MaxDelay < Word /\ now <= time_last + timeout + MaxDelay
      BY Zenon, <1>1, <1>2, <2>1 DEF WaitFits
    <2>3. time \in Nat /\ time < Word /\ time + time_last = elapsed_time + now
      BY SMTT(40), <1>3, <2>1, <2>2
    <2>4. time % Word = time
      BY Zenon, <2>3, Fits
    <2>5. /\ pc' = "fire" /\ UNCHANGED ring
          /\ elapsed_time' = IF time % Word >= RescheduleAt THEN 0 ELSE time % Word
          /\ scheduled_time' = Rescheduled(time % Word)
          /\ caught' = (caught \/ (time % Word >= RescheduleAt /\ Caught(time % Word)))
      BY Zenon, <1>5 DEF Advance
    <2>. HIDE DEF time
    <2>6. /\ elapsed_time' = IF time >= RescheduleAt THEN 0 ELSE time
          /\ scheduled_time' = Rescheduled(time)
          /\ ~(time >= RescheduleAt /\ Caught(time))
      BY Zenon, <2>4, <2>5
    <2>7. ~Waiting' /\ Base' = now /\ WaitFits'
      BY Zenon, <1>1, <2>5 DEF Waiting, Base, WaitFits
    <2>8. Range(ring) = {u \in Timers : scheduled_time[u] # 0}
      <3>1. DOMAIN ring = 1 .. Len(ring) /\ \A i \in 1 .. Len(ring) : ring[i] \in Timers
        BY <1>3
      <3>. QED BY Zenon, <1>2, <3>1 DEF Range
    <2>9. CASE ~(time >= RescheduleAt)
      <3>1. elapsed_time' = time /\ scheduled_time' = scheduled_time
        BY Zenon, <2>6, <2>9 DEF Rescheduled
      <3>2. time < RescheduleAt
        BY <1>3, <2>3, <2>9
      <3>3. Types' /\ Sorted(ring, scheduled_time)'
        BY Zenon, <1>1, <1>2, <1>3, <2>3, <2>5, <3>1, <3>2 DEF Types, Sorted
      <3>4. ASSUME NEW t \in Timers, scheduled_time[t] # 0
            PROVE  InTime(t)'
        <4>1. /\ scheduled_time[t] + MaxDelay < Word /\ deadline[t] \in Nat
              /\ deadline[t] + elapsed_time >= scheduled_time[t] + time_last
          BY Zenon, <1>2, <2>1, <3>4 DEF InTime
        <4>2. scheduled_time[t] \in Nat
          BY Zenon, <1>3
        <4>3. deadline[t] + time >= scheduled_time[t] + now
          BY SMTT(40), <1>3, <2>3, <4>1, <4>2
        <4>. QED BY Zenon, <1>1, <2>5, <2>7, <3>1, <4>1, <4>3 DEF InTime
      <3>. QED BY Zenon, <1>2, <2>5, <2>7, <3>1, <3>3, <3>4 DEF Good
    <2>10. CASE time >= RescheduleAt
      <3>1. /\ elapsed_time' = 0
            /\ scheduled_time' = [t \in Timers |-> IF t \in Range(ring) THEN (scheduled_time[t] - time) % Word
                                                                    ELSE scheduled_time[t]]
        BY Zenon, <2>6, <2>10 DEF Rescheduled
      <3>2. ASSUME NEW t \in Timers, scheduled_time[t] # 0
            PROVE  /\ scheduled_time'[t] = scheduled_time[t] - time /\ scheduled_time'[t] \in Nat
                   /\ scheduled_time'[t] # 0 /\ scheduled_time[t] \in Nat /\ InTime(t)'
        <4>1. /\ scheduled_time[t] + MaxDelay < Word /\ deadline[t] \in Nat
              /\ deadline[t] + elapsed_time >= scheduled_time[t] + time_last
          BY Zenon, <1>2, <2>1, <3>2 DEF InTime
        <4>2. t \in Range(ring) /\ scheduled_time[t] \in Nat
          BY Zenon, <1>3, <2>8, <3>2
        <4>3. ~(scheduled_time[t] <= time)
          BY Zenon, <2>6, <2>10, <4>2 DEF Caught
        <4>. DEFINE left == scheduled_time[t] - time
        <4>4. left \in Nat /\ left < Word /\ left # 0 /\ left + MaxDelay < Word
              /\ deadline[t] + 0 >= left + now
          BY SMTT(40), <1>3, <2>3, <4>1, <4>2, <4>3
        <4>5. scheduled_time'[t] = left
          BY Zenon, <3>1, <4>2, <4>4, Fits
        <4>. HIDE DEF left
        <4>6. InTime(t)'
          BY Zenon, <1>1, <2>5, <2>7, <3>1, <4>1, <4>4, <4>5 DEF InTime
        <4>. QED BY Zenon, <4>2, <4>4, <4>5, <4>6 DEF left
      <3>3. ASSUME NEW t \in Timers, scheduled_time[t] = 0
            PROVE  scheduled_time'[t] = 0
        BY Zenon, <2>8, <3>1, <3>3
      <3>4. \A t \in Timers : scheduled_time'[t] \in Nat /\ (scheduled_time'[t] # 0 <=> scheduled_time[t] # 0)
        BY <3>2, <3>3
      <3>5. scheduled_time' \in [Timers -> Nat]
        <4>1. scheduled_time' = [t \in Timers |-> scheduled_time'[t]]
          BY Zenon, <3>1
        <4>. QED BY Zenon, <3>4, <4>1
      <3>6. Types'
        BY SMTT(40), TimesFit, <1>1, <1>3, <2>5, <3>1, <3>5 DEF Types
      <3>7. Sorted(ring, scheduled_time)'
        <4>. SUFFICES ASSUME NEW i \in 1 .. Len(ring), NEW j \in 1 .. Len(ring), i < j
                      PROVE  ring[i] # ring[j] /\ scheduled_time'[ring[i]] <= scheduled_time'[ring[j]]
          BY Zenon, <2>5 DEF Sorted
        <4>1. ring[i] # ring[j] /\ scheduled_time[ring[i]] <= scheduled_time[ring[j]]
          BY Zenon, <1>2 DEF Sorted
        <4>2. /\ ring[i] \in Timers /\ scheduled_time[ring[i]] # 0 /\ scheduled_time[ring[i]] \in Nat
              /\ ring[j] \in Timers /\ scheduled_time[ring[j]] # 0 /\ scheduled_time[ring[j]] \in Nat
          BY Zenon, InRing
        <4>3. /\ scheduled_time'[ring[i]] = scheduled_time[ring[i]] - time
              /\ scheduled_time'[ring[j]] = scheduled_time[ring[j]] - time
          BY Zenon, <3>2, <4>2
        <4>. QED BY <2>3, <4>1, <4>2, <4>3
      <3>8. \A u \in Timers : (\E i \in 1 .. Len(ring') : ring'[i] = u) <=> scheduled_time'[u] # 0
        BY Zenon, <1>2, <2>5, <3>4
      <3>9. \A t \in Timers : scheduled_time'[t] # 0 => InTime(t)'
        BY Zenon, <3>2, <3>4
      <3>. QED BY Zenon, <2>7, <3>6, <3>7, <3>8, <3>9 DEF Good
    <2>. QED BY Zenon, <2>9, <2>10
  <1>. QED BY Zenon, <1>4, <1>5

(* Every step of the poller keeps the invariant. *)
LEMMA NextGood == TimerInv /\ [TimerNext]_timerVars => TimerInv'
  <1>. SUFFICES ASSUME TimerInv, [TimerNext]_timerVars
                PROVE  TimerInv'
    OBVIOUS
  <1>1. caught' \in BOOLEAN /\ (caught => caught')
    BY Zenon DEF TimerInv, TimerNext, timerVars, Poll, Wake, Handle, Advance, Fire, Callback, Fired,
                 Set, Kill
  <1>2. ASSUME ~caught' PROVE Good'
    <2>1. ~caught /\ Good
      BY Zenon, <1>1, <1>2 DEF TimerInv
    <2>2. CASE Poll
      BY Zenon, <2>1, <2>2, KeepPoll
    <2>3. CASE Wake
      BY Zenon, <2>1, <2>3, KeepWake
    <2>4. CASE Handle \/ Callback
      BY Zenon, <2>1, <2>4, KeepSet, KeepKill DEF Handle, Callback
    <2>5. CASE Advance
      BY Zenon, <1>2, <2>1, <2>5, KeepAdvance
    <2>6. CASE Fire
      BY Zenon, <2>1, <2>6, KeepFire
    <2>7. CASE Fired
      BY Zenon, <2>1, <2>7, KeepFired
    <2>8. CASE UNCHANGED timerVars
      <3>1. UNCHANGED <<ring, scheduled_time, elapsed_time, timeout, time_last, now, pc, deadline>>
        BY Zenon, <2>8 DEF timerVars, queueVars, timeVars
      <3>2. Types' /\ WaitFits' /\ Base' = Base
        BY Zenon, <2>1, <3>1 DEF Good, Types, WaitFits, Base, Waiting
      <3>3. \A t \in Timers : scheduled_time[t] # 0 => InTime(t)'
        BY Zenon, <2>1, <3>1, <3>2 DEF Good, InTime
      <3>. QED BY Zenon, <2>1, <3>1, <3>2, <3>3, SameQueue DEF Types
    <2>. QED BY Zenon, <2>2, <2>3, <2>4, <2>5, <2>6, <2>7, <2>8 DEF TimerNext
  <1>. QED BY Zenon, <1>1, <1>2 DEF TimerInv

(* The invariant says what the handlers of timers rely on. *)
LEMMA FireByInv == TimerInv => TimersFire
  <1>. SUFFICES ASSUME ~caught, Good PROVE TimersFire
    BY Zenon DEF TimerInv, TimersFire, RingConsistent, RingSorted, SetCanBeKilled, NoneOverdue
  <1>1. /\ Types /\ WaitFits /\ Sorted(ring, scheduled_time)
        /\ \A t \in Timers : scheduled_time[t] # 0 => InTime(t)
        /\ \A u \in Timers : (\E i \in 1 .. Len(ring) : ring[i] = u) <=> scheduled_time[u] # 0
    BY Zenon DEF Good
  <1>2. DOMAIN ring = 1 .. Len(ring) /\ (ring = <<>> => 1 .. Len(ring) = {})
    BY <1>1 DEF Types
  <1>3. \A t \in Timers : t \in Range(ring) <=> scheduled_time[t] # 0
    BY Zenon, <1>1, <1>2 DEF Range
  <1>4. RingConsistent
    BY Zenon, <1>1, <1>2, <1>3 DEF RingConsistent, RingSorted, SetCanBeKilled, Sorted
  <1>5. ASSUME pc = "wait", now = time_last, NEW t \in Range(ring) PROVE deadline[t] > now
    <2>1. PICK i \in 1 .. Len(ring) : t = ring[i]
      BY Zenon, <1>2 DEF Range
    <2>2. t \in Timers /\ scheduled_time[t] \in Nat /\ InTime(t)
      BY Zenon, <2>1, InRing
    <2>3. Base = now
      BY Zenon, <1>5 DEF Base
    <2>4. /\ deadline[t] \in Nat /\ deadline[t] + elapsed_time >= scheduled_time[t] + now
          /\ scheduled_time[t] > elapsed_time
      BY Zenon, <1>5, <2>2, <2>3 DEF InTime
    <2>5. elapsed_time \in Nat /\ now \in Nat
      BY Zenon, <1>1 DEF Types
    <2>. QED BY <2>2, <2>4, <2>5
  <1>. QED BY Zenon, <1>4, <1>5 DEF TimersFire, NoneOverdue

(* TimersFire of apt_timer_queue.c, for any timers, time-outs, reschedule  *)
(* threshold and delay that fit the word: the ring is sorted, a timer that *)
(* is set can be killed, and no wait begins with a timer overdue.          *)
THEOREM TimersFireAlways == TimerSpec => []TimersFire
  <1>1. TimerInit => TimerInv
    BY Zenon, InitGood
  <1>2. TimerInv /\ [TimerNext]_timerVars => TimerInv'
    BY Zenon, NextGood
  <1>3. TimerInv => TimersFire
    BY Zenon, FireByInv
  <1>. QED BY <1>1, <1>2, <1>3, PTL DEF TimerSpec
=============================================================================
