----------------------------- MODULE TaskProofs -----------------------------
(***************************************************************************)
(* The tasks of apt_task.c, for every tree of tasks, any engines and any   *)
(* length of the message queues: every start is counted, and a task that   *)
(* has ended has no child and no engine still running, if the server is    *)
(* shut down only when it has started.                                     *)
(***************************************************************************)
EXTENDS AptTask, FiniteSetTheorems, TLAPS

(* The messages of a queue named sub, and their number *)
Indices(q, sub) == {i \in DOMAIN q : q[i].sub = sub}
Count(q, sub) == Cardinality(Indices(q, sub))

Threads == Tasks \cup {Main}
Places == {"none", "prerun", "start", "loop", "report", "terminate", "signal", "join", "started"}
EngineSubs == {"OPEN_ENGINE", "CLOSE_ENGINE"}
Subs == {"START_COMPLETE", "TERMINATE_REQUEST", "work"} \cup EngineSubs
Messages == [sub : Subs, engine : Engines \cup {""}, status : BOOLEAN]

(* Only the root gets messages of engines. *)
Addressed(t, m) == m.sub \in EngineSubs => t = Root /\ m.engine \in Engines

Queues ==
    /\ queue \in [Tasks -> Seq(Messages)]
    /\ \A t \in Tasks : /\ Len(queue[t]) <= Capacity
                        /\ \A i \in DOMAIN queue[t] : Addressed(t, queue[t][i])

(* The types. *)
TaskTypes ==
    /\ state \in [Tasks -> {"IDLE", "START_REQUESTED", "RUNNING", "TERMINATE_REQUESTED"}]
    /\ running \in [Tasks -> BOOLEAN] /\ raised \in [Tasks -> BOOLEAN]
    /\ pendingStart \in [Tasks -> Nat] /\ pendingTerm \in [Tasks -> Nat]
    /\ Queues
    /\ at \in [Threads -> [pc : Places, i : Nat]]
    /\ isOpen \in [Engines -> BOOLEAN] /\ asked \in [Engines -> {"", "open", "close"}]

Stopping == {"terminate", "signal", "join"}
Absent == {"none", "prerun"}

(* The children have been terminated and the engines told to close. *)
Over(t) == at[t].pc = "loop" /\ (~running[t] \/ pendingTerm[t] # 0)

(* What a task's place in its code says of its state, its flags and counts *)
Placed(t) ==
    /\ state[t] = "IDLE" <=> at[t].pc = "none"
    /\ state[t] = "START_REQUESTED" <=> at[t].pc = "prerun"
    /\ at[t].pc = "start" => state[t] = "RUNNING"
    /\ at[t].pc \in Stopping \/ Over(t) => state[t] = "TERMINATE_REQUESTED"
    /\ at[t].pc \in {"prerun", "start"} => ~raised[t]
    /\ state[t] = "TERMINATE_REQUESTED" => raised[t]
    /\ raised[t] \/ at[t].pc \in Absent => pendingStart[t] = 0
    /\ at[t].pc \in {"start", "report"} \cup Absent => pendingTerm[t] = 0
    /\ at[t].pc \in {"start", "report"} \cup Stopping => running[t]
    /\ at[t].pc = "loop" /\ ~running[t] => pendingTerm[t] = 0

Gone(t) == at[t].pc = "none"

(* Which children are gone *)
Family(t) ==
    /\ at[t].pc \in Absent \/ Over(t) => \A c \in Children(t) : Gone(c)
    /\ at[t].pc = "start" => at[t].i >= 1 /\ \A j \in DOMAIN Kids[t] : j >= at[t].i => Gone(Kids[t][j])
    /\ at[t].pc \in Stopping => at[t].i >= 1 /\ \A j \in DOMAIN Kids[t] : j < at[t].i => Gone(Kids[t][j])
    /\ at[t].pc \in {"signal", "join"} => at[t].i <= Len(Kids[t])

Requested(t) == Count(queue[t], "TERMINATE_REQUEST")

(* A termination that is under way *)
Ending(t) ==
    /\ Requested(t) <= 1
    /\ Requested(t) # 0 =>
          /\ state[t] = "TERMINATE_REQUESTED" /\ at[t].pc \in {"loop", "report"}
          /\ running[t] /\ pendingTerm[t] = 0
    /\ \A c \in Threads : Calls(c, t, "signal") =>
          /\ Requested(t) = 0 /\ state[t] \in {"IDLE", "TERMINATE_REQUESTED"}
          /\ at[t].pc \notin Stopping /\ pendingTerm[t] = 0 /\ (at[t].pc = "loop" => running[t])
    /\ state[t] = "TERMINATE_REQUESTED" =>
          \E c \in Threads : Calls(c, t, "signal") \/ Calls(c, t, "join")

OwedKids(t) == {c \in Children(t) : ~Gone(c) /\ ~raised[c]}
AskedTo(what) == {e \in Engines : asked[e] = what}

Owed(t) == Cardinality(OwedKids(t)) + Count(queue[t], "START_COMPLETE")
OwedEngines(t, what, sub) ==
    IF t = Root THEN Cardinality(AskedTo(what)) + Count(queue[t], sub) ELSE 0

Exact(t) ==
    /\ pendingStart[t] = Owed(t) + OwedEngines(t, "open", "OPEN_ENGINE")
    /\ pendingTerm[t] = OwedEngines(t, "close", "CLOSE_ENGINE")

Bounded(t) ==
    /\ pendingStart[t] <= Len(Kids[t]) + Cardinality(Engines)
    /\ at[t].pc = "start" => pendingStart[t] + 1 <= at[t].i + Cardinality(Engines)
    /\ pendingTerm[t] <= Cardinality(Engines)

EnginesClosed ==
    at[Root].pc \in Absent \cup Stopping \/ Over(Root) =>
        \A e \in Engines : ~isOpen[e] /\ asked[e] # "open"

MainWaits ==
    /\ at[Main].pc \in {"none", "started", "signal", "join"}
    /\ \A t \in Tasks : at[t].pc # "started"
    /\ at[Main].pc = "none" => Gone(Root)

Sound(t) == Placed(t) /\ Family(t) /\ Ending(t) /\ Exact(t) /\ Bounded(t)

TaskInv == TaskTypes /\ EnginesClosed /\ MainWaits /\ \A t \in Tasks : Sound(t)

-----------------------------------------------------------------------------
(* The fields of a place and of a message *)
LEMMA Fields ==
    /\ \A pc, i : At(pc, i).pc = pc /\ At(pc, i).i = i
    /\ \A pc \in Places, i \in Nat : At(pc, i) \in [pc : Places, i : Nat]
    /\ \A sub : Message(sub).sub = sub
    /\ \A sub \in Subs : Message(sub) \in Messages
  BY Zenon DEF At, Message, Messages, Places, Subs

(* The children of a task *)
LEMMA Tree ==
    ASSUME NEW t \in Tasks
    PROVE  /\ Kids[t] \in Seq(Tasks) /\ Len(Kids[t]) \in Nat
           /\ DOMAIN Kids[t] = 1 .. Len(Kids[t])
           /\ \A j \in 1 .. Len(Kids[t]) : Kids[t][j] \in Children(t)
           /\ \A c \in Children(t) : \E j \in 1 .. Len(Kids[t]) : c = Kids[t][j]
           /\ Children(t) \in SUBSET Tasks /\ IsFiniteSet(Children(t))
           /\ Root \notin Children(t)
  <1>1. Kids[t] \in Seq(Tasks) /\ Root \notin Children(t)
    BY Zenon, TaskTree DEF Parents
  <1>2. Len(Kids[t]) \in Nat /\ DOMAIN Kids[t] = 1 .. Len(Kids[t])
        /\ \A j \in 1 .. Len(Kids[t]) : Kids[t][j] \in Tasks
    BY <1>1
  <1>3. Children(t) \in SUBSET Tasks
    BY Zenon, <1>2 DEF Children
  <1>4. IsFiniteSet(Children(t))
    BY Zenon, <1>3, TaskTree, FS_Subset
  <1>. QED BY Zenon, <1>1, <1>2, <1>3, <1>4 DEF Children

(* No task is its own child: it would not be below the root. *)
LEMMA NotItsOwn ==
    ASSUME NEW t \in Tasks
    PROVE  t \notin Children(t)
  <1>. SUFFICES ASSUME t \in Children(t) PROVE FALSE
    OBVIOUS
  <1>1. Root \in Tasks \ {t}
    BY TaskTree, Tree
  <1>2. ASSUME NEW u \in Tasks \ {t} PROVE Children(u) \subseteq Tasks \ {t}
    BY TaskTree, Tree
  <1>3. Tasks \ {t} \in SUBSET Tasks /\ \A u \in Tasks \ {t} : Children(u) \subseteq Tasks \ {t}
    BY Zenon, <1>2
  <1>4. Tasks \ {t} = Tasks
    BY Zenon, <1>1, <1>3, TaskTree
  <1>. QED BY Zenon, <1>4

(* A task has one parent. *)
LEMMA OneParent ==
    ASSUME NEW t \in Tasks, NEW p \in Tasks, NEW q \in Tasks, t \in Children(p), t \in Children(q)
    PROVE  p = q
  BY Zenon, TaskTree
-----------------------------------------------------------------------------
(* A count of messages is a natural number, zero if there is none. *)
LEMMA CountNat ==
    ASSUME NEW q \in Seq(Messages), NEW sub
    PROVE  /\ Count(q, sub) \in Nat
           /\ Count(q, sub) = 0 <=> \A i \in DOMAIN q : q[i].sub # sub
           /\ IsFiniteSet(Indices(q, sub))
  <1>1. DOMAIN q = 1 .. Len(q) /\ Len(q) \in Nat
    OBVIOUS
  <1>2. IsFiniteSet(1 .. Len(q))
    BY <1>1, FS_Interval
  <1>3. Indices(q, sub) \in SUBSET (1 .. Len(q))
    BY Zenon, <1>1 DEF Indices
  <1>4. IsFiniteSet(Indices(q, sub))
    BY Zenon, <1>2, <1>3, FS_Subset
  <1>5. Count(q, sub) \in Nat /\ (Count(q, sub) = 0 <=> Indices(q, sub) = {})
    BY Zenon, <1>4, FS_CardinalityType, FS_EmptySet DEF Count
  <1>. QED BY Zenon, <1>4, <1>5 DEF Indices

(* A message added to a queue *)
LEMMA CountAppend ==
    ASSUME NEW q \in Seq(Messages), NEW m \in Messages, NEW sub
    PROVE  Count(Append(q, m), sub) = IF m.sub = sub THEN Count(q, sub) + 1 ELSE Count(q, sub)
  <1>1. /\ DOMAIN q = 1 .. Len(q) /\ Len(q) \in Nat /\ DOMAIN Append(q, m) = 1 .. Len(q) + 1
        /\ Append(q, m)[Len(q) + 1] = m /\ \A i \in 1 .. Len(q) : Append(q, m)[i] = q[i]
    OBVIOUS
  <1>2. Len(q) + 1 \notin Indices(q, sub)
    BY <1>1 DEF Indices
  <1>3. Indices(Append(q, m), sub) = IF m.sub = sub THEN Indices(q, sub) \cup {Len(q) + 1}
                                     ELSE Indices(q, sub)
    BY <1>1 DEF Indices
  <1>4. Cardinality(Indices(q, sub) \cup {Len(q) + 1}) = Cardinality(Indices(q, sub)) + 1
    BY Zenon, <1>2, CountNat, FS_AddElement
  <1>. QED BY Zenon, <1>3, <1>4 DEF Count

(* The first message taken from a queue *)
LEMMA CountTail ==
    ASSUME NEW q \in Seq(Messages), q # <<>>, NEW sub
    PROVE  Count(q, sub) = IF Head(q).sub = sub THEN Count(Tail(q), sub) + 1 ELSE Count(Tail(q), sub)
  <1>. DEFINE S == Indices(q, sub)
              T == Indices(Tail(q), sub)
              f == [i \in T |-> i + 1]
  <1>1. /\ DOMAIN q = 1 .. Len(q) /\ Len(q) \in Nat \ {0} /\ DOMAIN Tail(q) = 1 .. Len(q) - 1
        /\ q[1] = Head(q) /\ \A i \in 1 .. Len(q) - 1 : Tail(q)[i] = q[i + 1]
        /\ Tail(q) \in Seq(Messages)
    OBVIOUS
  <1>2. /\ \A i : i \in T <=> i \in 1 .. Len(q) - 1 /\ i + 1 \in S
        /\ \A i : i \in S => i \in 1 .. Len(q)
        /\ 1 \in S <=> Head(q).sub = sub
    BY <1>1 DEF Indices
  <1>3. IsFiniteSet(T) /\ IsFiniteSet(S) /\ Cardinality(S) \in Nat /\ Cardinality(T) \in Nat
    BY Zenon, <1>1, CountNat DEF Count
  <1>. HIDE DEF S, T
  <1>4. f \in Bijection(T, S \ {1})
    <2>1. f \in [T -> S \ {1}]
      BY <1>1, <1>2
    <2>2. \A i, j \in T : f[i] = f[j] => i = j
      BY <1>1, <1>2
    <2>3. \A j \in S \ {1} : \E i \in T : f[i] = j
      <3>. TAKE j \in S \ {1}
      <3>1. j - 1 \in T /\ f[j - 1] = j
        BY <1>1, <1>2
      <3>. QED BY Zenon, <3>1
    <2>. HIDE DEF f
    <2>. QED BY Zenon, <2>1, <2>2, <2>3 DEF Bijection, Injection, Surjection, IsInjective
  <1>5. Cardinality(S \ {1}) = Cardinality(T)
    BY Zenon, <1>3, <1>4, FS_Bijection DEF ExistsBijection
  <1>6. Cardinality(S \ {1}) = IF 1 \in S THEN Cardinality(S) - 1 ELSE Cardinality(S)
    BY Zenon, <1>3, FS_RemoveElement
  <1>. QED BY <1>2, <1>3, <1>5, <1>6 DEF Count, S, T
-----------------------------------------------------------------------------
(* The invariant, for one task *)
LEMMA Of ==
    ASSUME TaskInv, NEW t \in Tasks
    PROVE  /\ Placed(t) /\ Family(t) /\ Ending(t) /\ Exact(t) /\ Bounded(t)
           /\ state[t] \in {"IDLE", "START_REQUESTED", "RUNNING", "TERMINATE_REQUESTED"}
           /\ running[t] \in BOOLEAN /\ raised[t] \in BOOLEAN
           /\ pendingStart[t] \in Nat /\ pendingTerm[t] \in Nat
           /\ queue[t] \in Seq(Messages)
           /\ at[t] \in [pc : Places, i : Nat] /\ at[t].pc # "started"
           /\ t # Main
  <1>1. t # Main /\ t \in Threads
    BY Zenon, TaskTree DEF Threads
  <1>. QED BY Zenon, <1>1 DEF TaskInv, TaskTypes, Queues, MainWaits, Sound

(* A call of apt_task_terminate is the only one for its task, and comes    *)
(* from the parent or, for the root, from the application.                 *)
LEMMA Caller ==
    ASSUME TaskInv, NEW t \in Tasks, NEW c \in Threads,
           Calls(c, t, "signal") \/ Calls(c, t, "join")
    PROVE  /\ c = Main => t = Root
           /\ c # Main => c \in Tasks /\ t \in Children(c) /\ t # Root /\ t # c
  <1>1. c = Main => t = Root
    BY Zenon DEF Calls
  <1>2. ASSUME c # Main
        PROVE  c \in Tasks /\ t \in Children(c) /\ t # Root /\ t # c
    <2>1. c \in Tasks
      BY Zenon, <1>2 DEF Threads
    <2>2. at[c].pc \in {"signal", "join"} /\ t = Kids[c][at[c].i]
      BY Zenon, <1>2 DEF Calls
    <2>3. Family(c) /\ at[c].i \in Nat
      BY Zenon, <2>1, Of
    <2>4. at[c].i >= 1 /\ at[c].i <= Len(Kids[c])
      BY Zenon, <2>2, <2>3 DEF Family, Stopping
    <2>5. at[c].i \in 1 .. Len(Kids[c])
      BY <2>1, <2>3, <2>4, Tree
    <2>6. t \in Children(c) /\ Root \notin Children(c)
      BY Zenon, <2>1, <2>2, <2>5, Tree
    <2>. QED BY Zenon, <2>1, <2>6, NotItsOwn
  <1>. QED BY Zenon, <1>1, <1>2

(* Only the parent of a task, or Main for the root, terminates it. *)
LEMMA OneCaller ==
    ASSUME TaskInv, NEW t \in Tasks, NEW c \in Threads, NEW d \in Threads,
           Calls(c, t, "signal") \/ Calls(c, t, "join"),
           Calls(d, t, "signal") \/ Calls(d, t, "join")
    PROVE  c = d
  <1>1. /\ c = Main => t = Root
        /\ c # Main => c \in Tasks /\ t \in Children(c) /\ t # Root
        /\ d = Main => t = Root
        /\ d # Main => d \in Tasks /\ t \in Children(d) /\ t # Root
    BY Zenon, Caller
  <1>. QED BY Zenon, <1>1, OneParent

(* A step that neither enters nor leaves a call changes no call. *)
LEMMA SameCalls ==
    ASSUME \A c \in Threads : \/ at'[c] = at[c]
                              \/ at[c].pc \notin {"signal", "join"} /\ at'[c].pc \notin {"signal", "join"},
           NEW t \in Tasks, NEW c \in Threads
    PROVE  /\ Calls(c, t, "signal")' = Calls(c, t, "signal")
           /\ Calls(c, t, "join")' = Calls(c, t, "join")
  BY Zenon DEF Calls

(* A count is exact as long as nothing it counts changes. *)
LEMMA SameCounts ==
    ASSUME NEW t \in Tasks, Exact(t), OwedKids(t)' = OwedKids(t),
           \A sub \in {"START_COMPLETE", "OPEN_ENGINE", "CLOSE_ENGINE"} :
              Count(queue'[t], sub) = Count(queue[t], sub),
           pendingStart'[t] = pendingStart[t], pendingTerm'[t] = pendingTerm[t], UNCHANGED asked
    PROVE  Exact(t)'
  BY Zenon DEF Exact, Owed, OwedEngines, AskedTo

(* What is owed to a task is finite. *)
LEMMA OwedFinite ==
    ASSUME NEW t \in Tasks, NEW what, asked \in [Engines -> {"", "open", "close"}]
    PROVE  /\ IsFiniteSet(OwedKids(t)) /\ Cardinality(OwedKids(t)) \in Nat
           /\ Cardinality(OwedKids(t)) = 0 <=> OwedKids(t) = {}
           /\ IsFiniteSet(AskedTo(what)) /\ Cardinality(AskedTo(what)) \in Nat
           /\ Cardinality(AskedTo(what)) = 0 <=> AskedTo(what) = {}
  <1>1. OwedKids(t) \in SUBSET Children(t) /\ AskedTo(what) \in SUBSET Engines
    BY Zenon DEF OwedKids, AskedTo
  <1>2. IsFiniteSet(OwedKids(t)) /\ IsFiniteSet(AskedTo(what))
    BY Zenon, <1>1, Tree, TaskTree, FS_Subset
  <1>. QED BY Zenon, <1>2, FS_CardinalityType, FS_EmptySet

(* A task that has raised start-complete is owed nothing. *)
LEMMA NothingOwed ==
    ASSUME TaskInv, NEW t \in Tasks, pendingStart[t] = 0
    PROVE  /\ OwedKids(t) = {} /\ Count(queue[t], "START_COMPLETE") = 0
           /\ t = Root => AskedTo("open") = {} /\ Count(queue[t], "OPEN_ENGINE") = 0
  <1>. DEFINE k == Cardinality(OwedKids(t))
              s == Count(queue[t], "START_COMPLETE")
              o == Cardinality(AskedTo("open"))
              m == Count(queue[t], "OPEN_ENGINE")
  <1>1. asked \in [Engines -> {"", "open", "close"}] /\ queue[t] \in Seq(Messages) /\ Exact(t)
    BY Zenon, Of DEF TaskInv, TaskTypes
  <1>2. /\ s \in Nat /\ m \in Nat /\ k \in Nat /\ o \in Nat
        /\ (k = 0 <=> OwedKids(t) = {}) /\ (o = 0 <=> AskedTo("open") = {})
    BY Zenon, <1>1, CountNat, OwedFinite
  <1>3. k + s + (IF t = Root THEN o + m ELSE 0) = 0
    BY Zenon, <1>1 DEF Exact, Owed, OwedEngines
  <1>4. k = 0 /\ s = 0 /\ (t = Root => o = 0 /\ m = 0)
    <2>. HIDE DEF k, s, o, m
    <2>. QED BY <1>2, <1>3
  <1>. QED BY Zenon, <1>2, <1>4

(* Without a pending termination no engine is closing. *)
LEMMA NothingClosing ==
    ASSUME TaskInv, pendingTerm[Root] = 0
    PROVE  AskedTo("close") = {} /\ Count(queue[Root], "CLOSE_ENGINE") = 0
  <1>. DEFINE o == Cardinality(AskedTo("close"))
              m == Count(queue[Root], "CLOSE_ENGINE")
  <1>1. /\ asked \in [Engines -> {"", "open", "close"}] /\ queue[Root] \in Seq(Messages)
        /\ Exact(Root) /\ Root \in Tasks
    BY Zenon, TaskTree, Of DEF TaskInv, TaskTypes
  <1>2. m \in Nat /\ o \in Nat /\ (o = 0 <=> AskedTo("close") = {})
    BY Zenon, <1>1, CountNat, OwedFinite
  <1>3. o + m = 0
    BY Zenon, <1>1 DEF Exact, OwedEngines
  <1>4. o = 0 /\ m = 0
    <2>. HIDE DEF o, m
    <2>. QED BY <1>2, <1>3
  <1>. QED BY Zenon, <1>2, <1>4
-----------------------------------------------------------------------------
(* The queue of a task without its first message *)
LEMMA Taken ==
    ASSUME TaskInv, NEW t \in Tasks, queue[t] # <<>>
    PROVE  /\ Tail(queue[t]) \in Seq(Messages) /\ Len(Tail(queue[t])) <= Capacity
           /\ \A i \in DOMAIN Tail(queue[t]) : Addressed(t, Tail(queue[t])[i])
           /\ Head(queue[t]) \in Messages /\ Addressed(t, Head(queue[t]))
           /\ \A sub : Count(queue[t], sub) = IF Head(queue[t]).sub = sub
                         THEN Count(Tail(queue[t]), sub) + 1 ELSE Count(Tail(queue[t]), sub)
  <1>. DEFINE q == queue[t]
  <1>1. /\ q \in Seq(Messages) /\ q # <<>> /\ Len(q) <= Capacity /\ Capacity \in Nat
        /\ \A i \in DOMAIN q : Addressed(t, q[i])
    BY Zenon, Of, TaskTree DEF TaskInv, TaskTypes, Queues
  <1>2. \A sub : Count(q, sub) = IF Head(q).sub = sub THEN Count(Tail(q), sub) + 1
                                 ELSE Count(Tail(q), sub)
    BY Zenon, <1>1, CountTail
  <1>. HIDE DEF q
  <1>3. /\ Tail(q) \in Seq(Messages) /\ Len(Tail(q)) <= Capacity
        /\ \A i \in DOMAIN Tail(q) : i + 1 \in DOMAIN q /\ Tail(q)[i] = q[i + 1]
        /\ 1 \in DOMAIN q /\ Head(q) = q[1] /\ Head(q) \in Messages
    BY <1>1
  <1>. QED BY Zenon, <1>1, <1>2, <1>3 DEF q

(* The queue of a task with one more message *)
LEMMA Given ==
    ASSUME TaskInv, NEW t \in Tasks, NEW m \in Messages, Addressed(t, m), Len(queue[t]) < Capacity
    PROVE  /\ Append(queue[t], m) \in Seq(Messages) /\ Len(Append(queue[t], m)) <= Capacity
           /\ \A i \in DOMAIN Append(queue[t], m) : Addressed(t, Append(queue[t], m)[i])
           /\ \A sub : Count(Append(queue[t], m), sub) = IF m.sub = sub THEN Count(queue[t], sub) + 1
                                                         ELSE Count(queue[t], sub)
  <1>. DEFINE q == queue[t]
  <1>1. /\ q \in Seq(Messages) /\ Len(q) < Capacity /\ Capacity \in Nat
        /\ \A i \in DOMAIN q : Addressed(t, q[i])
    BY Zenon, Of, TaskTree DEF TaskInv, TaskTypes, Queues
  <1>2. \A sub : Count(Append(q, m), sub) = IF m.sub = sub THEN Count(q, sub) + 1 ELSE Count(q, sub)
    BY Zenon, <1>1, CountAppend
  <1>. HIDE DEF q
  <1>3. /\ Append(q, m) \in Seq(Messages) /\ Len(Append(q, m)) <= Capacity
        /\ \A i \in DOMAIN Append(q, m) :
               \/ i \in DOMAIN q /\ Append(q, m)[i] = q[i]
               \/ Append(q, m)[i] = m
    BY <1>1
  <1>. QED BY Zenon, <1>1, <1>2, <1>3 DEF q

(* A task to which nothing happens *)
LEMMA Elsewhere ==
    ASSUME TaskInv, NEW u \in Tasks, state'[u] = state[u], at'[u] = at[u], running'[u] = running[u],
           raised'[u] = raised[u], pendingStart'[u] = pendingStart[u], pendingTerm'[u] = pendingTerm[u]
    PROVE  /\ Placed(u)'
           /\ (\A k \in Children(u) : Gone(k) => Gone(k)') => Family(u)'
           /\ Bounded(u)'
           /\ /\ Count(queue'[u], "TERMINATE_REQUEST") = Count(queue[u], "TERMINATE_REQUEST")
              /\ \A c \in Threads : /\ Calls(c, u, "signal")' = Calls(c, u, "signal")
                                    /\ Calls(c, u, "join")' = Calls(c, u, "join")
              => Ending(u)'
  <1>1. Placed(u) /\ Family(u) /\ Bounded(u) /\ Ending(u)
    BY Zenon, Of
  <1>2. Placed(u)'
    BY Zenon, <1>1 DEF Placed, Over
  <1>3. (\A k \in Children(u) : Gone(k) => Gone(k)') => Family(u)'
    <2>1. \A j \in DOMAIN Kids[u] : Kids[u][j] \in Children(u)
      BY Zenon, Tree
    <2>. QED BY Zenon, <1>1, <2>1 DEF Family, Over
  <1>4. Bounded(u)'
    BY Zenon, <1>1 DEF Bounded
  <1>5. /\ Count(queue'[u], "TERMINATE_REQUEST") = Count(queue[u], "TERMINATE_REQUEST")
        /\ \A c \in Threads : /\ Calls(c, u, "signal")' = Calls(c, u, "signal")
                              /\ Calls(c, u, "join")' = Calls(c, u, "join")
        => Ending(u)'
    BY Zenon, <1>1 DEF Ending, Requested
  <1>. QED BY Zenon, <1>2, <1>3, <1>4, <1>5
-----------------------------------------------------------------------------
(* A message is taken from a queue. *)
LEMMA QueueTaken ==
    ASSUME TaskInv, NEW t \in Tasks, queue[t] # <<>>, queue' = [queue EXCEPT ![t] = Tail(@)]
    PROVE  /\ Queues'
           /\ \A u \in Tasks : \A sub : u # t \/ sub # Head(queue[t]).sub =>
                                           Count(queue'[u], sub) = Count(queue[u], sub)
           /\ Count(queue[t], Head(queue[t]).sub) = Count(queue'[t], Head(queue[t]).sub) + 1
           /\ Count(queue'[t], Head(queue[t]).sub) \in Nat
  <1>1. Queues
    BY Zenon DEF TaskInv, TaskTypes
  <1>2. queue'[t] = Tail(queue[t]) /\ \A u \in Tasks : u # t => queue'[u] = queue[u]
    BY Zenon, <1>1 DEF Queues
  <1>3. Queues'
    BY Zenon, <1>1, <1>2, Taken DEF Queues, Addressed
  <1>4. queue'[t] \in Seq(Messages)
    BY Zenon, <1>3 DEF Queues
  <1>5. \A sub : /\ Count(queue'[t], sub) \in Nat
                 /\ Count(queue[t], sub) = IF Head(queue[t]).sub = sub THEN Count(queue'[t], sub) + 1
                                           ELSE Count(queue'[t], sub)
    <2>1. \A sub : Count(queue'[t], sub) \in Nat
      BY Zenon, <1>4, CountNat
    <2>2. \A sub : Count(queue[t], sub) = IF Head(queue[t]).sub = sub
                      THEN Count(Tail(queue[t]), sub) + 1 ELSE Count(Tail(queue[t]), sub)
      BY Zenon, Taken
    <2>. QED BY Zenon, <1>2, <2>1, <2>2
  <1>. QED BY Zenon, <1>2, <1>3, <1>5

(* A message is added to a queue. *)
LEMMA QueueGiven ==
    ASSUME TaskInv, NEW t \in Tasks, NEW m \in Messages, Addressed(t, m), Signal(t, m)
    PROVE  /\ Queues'
           /\ \A u \in Tasks : \A sub : u # t \/ sub # m.sub =>
                                           Count(queue'[u], sub) = Count(queue[u], sub)
           /\ Count(queue'[t], m.sub) = Count(queue[t], m.sub) + 1
           /\ Count(queue[t], m.sub) \in Nat
  <1>1. Queues /\ Len(queue[t]) < Capacity
    BY Zenon DEF TaskInv, TaskTypes, Signal
  <1>2. queue'[t] = Append(queue[t], m) /\ \A u \in Tasks : u # t => queue'[u] = queue[u]
    BY Zenon, <1>1 DEF Queues, Signal
  <1>3. Queues'
    <2>1. queue' \in [Tasks -> Seq(Messages)]
      BY Zenon, <1>1, <1>2, Given DEF Queues, Signal
    <2>. QED BY Zenon, <1>1, <1>2, <2>1, Given DEF Queues, Addressed
  <1>4. queue[t] \in Seq(Messages)
    BY Zenon, <1>1 DEF Queues
  <1>5. \A sub : /\ Count(queue[t], sub) \in Nat
                 /\ Count(queue'[t], sub) = IF m.sub = sub THEN Count(queue[t], sub) + 1
                                            ELSE Count(queue[t], sub)
    <2>1. \A sub : Count(queue[t], sub) \in Nat
      BY Zenon, <1>4, CountNat
    <2>2. \A sub : Count(Append(queue[t], m), sub) =
                      IF m.sub = sub THEN Count(queue[t], sub) + 1 ELSE Count(queue[t], sub)
      BY Zenon, <1>1, Given
    <2>. QED BY Zenon, <1>2, <2>1, <2>2
  <1>. QED BY Zenon, <1>2, <1>3, <1>5

(* A thread moves on. *)
LEMMA Moved ==
    ASSUME TaskInv, NEW c \in Threads, NEW pc \in Places, NEW i \in Nat,
           at' = [at EXCEPT ![c] = At(pc, i)]
    PROVE  /\ at' \in [Threads -> [pc : Places, i : Nat]]
           /\ at'[c].pc = pc /\ at'[c].i = i
           /\ \A d \in Threads : d # c => at'[d] = at[d]
  BY Zenon, Fields DEF TaskInv, TaskTypes
-----------------------------------------------------------------------------
(* Any other message is handed to process_msg. *)
LEMMA KeepProcess ==
    ASSUME TaskInv, NEW t \in Tasks, Process(t)
    PROVE  TaskInv'
  <1>1. /\ queue[t] # <<>> /\ Head(queue[t]).sub = "work"
        /\ queue' = [queue EXCEPT ![t] = Tail(@)]
        /\ UNCHANGED <<state, running, pendingStart, pendingTerm, at, raised, isOpen, asked>>
    BY Zenon DEF Process, Next1, counts, engines
  <1>2. Queues' /\ \A u \in Tasks : \A sub : sub # "work" => Count(queue'[u], sub) = Count(queue[u], sub)
    BY Zenon, <1>1, QueueTaken
  <1>3. TaskTypes' /\ EnginesClosed' /\ MainWaits'
    BY Zenon, <1>1, <1>2 DEF TaskInv, TaskTypes, EnginesClosed, MainWaits, Gone, Over
  <1>4. ASSUME NEW u \in Tasks
        PROVE  Sound(u)'
    <2>1. Placed(u)' /\ Family(u)' /\ Ending(u)' /\ Bounded(u)'
      BY Zenon, <1>1, <1>2, Elsewhere DEF Gone, Calls
    <2>2. OwedKids(u)' = OwedKids(u)
      BY Zenon, <1>1 DEF OwedKids, Gone
    <2>3. Exact(u)'
      BY Zenon, <1>1, <1>2, <2>2, Of, SameCounts
    <2>. QED BY Zenon, <2>1, <2>3 DEF Sound
  <1>. QED BY Zenon, <1>3, <1>4 DEF TaskInv

(* A task begins to report to its parent. *)
LEMMA KeepReport ==
    ASSUME TaskInv, NEW t \in Tasks, Report(t)
    PROVE  TaskInv'
  <1>1. /\ at[t].pc = "loop" /\ running[t] /\ Parents(t) # {} /\ at' = [at EXCEPT ![t] = At("report", 0)]
        /\ UNCHANGED <<state, running, pendingStart, pendingTerm, queue, raised, isOpen, asked>>
    BY Zenon DEF Report, counts, engines
  <1>2. t # Root /\ t # Main /\ t \in Threads
    BY Zenon, <1>1, TaskTree DEF Threads
  <1>3. /\ at' \in [Threads -> [pc : Places, i : Nat]] /\ at'[t].pc = "report"
        /\ \A c \in Threads : c # t => at'[c] = at[c]
    BY Zenon, <1>1, <1>2, Moved DEF Places
  <1>4. \A c \in Tasks : Gone(c)' = Gone(c)
    BY Zenon, <1>1, <1>3 DEF Gone, Threads
  <1>5. TaskTypes' /\ EnginesClosed' /\ MainWaits'
    <2>1. Root \in Tasks /\ Main \in Threads
      BY Zenon, TaskTree DEF Threads
    <2>. QED BY Zenon, <1>1, <1>2, <1>3, <1>4, <2>1
             DEF TaskInv, TaskTypes, Queues, EnginesClosed, MainWaits, Over, Threads
  <1>6. ASSUME NEW u \in Tasks
        PROVE  Sound(u)'
    <2>1. \A c \in Threads : /\ Calls(c, u, "signal")' = Calls(c, u, "signal")
                             /\ Calls(c, u, "join")' = Calls(c, u, "join")
      BY Zenon, <1>1, <1>3, SameCalls
    <2>2. Exact(u)'
      <3>1. OwedKids(u)' = OwedKids(u)
        BY Zenon, <1>1, <1>4, Tree DEF OwedKids
      <3>. QED BY Zenon, <1>1, <3>1, Of, SameCounts
    <2>3. CASE u # t
      <3>1. Placed(u)' /\ Family(u)' /\ Ending(u)' /\ Bounded(u)'
        BY Zenon, <1>1, <1>3, <1>4, <2>1, <2>3, Elsewhere, Tree DEF Threads
      <3>. QED BY Zenon, <2>2, <3>1 DEF Sound
    <2>4. CASE u = t
      <3>1. Placed(t) /\ Ending(t) /\ Bounded(t) /\ Exact(t)
        BY Zenon, Of
      <3>2. pendingTerm[t] = 0
        BY Zenon, <1>2, <3>1 DEF Exact, OwedEngines
      <3>3. Placed(t)'
        BY Zenon, <1>1, <1>3, <3>1, <3>2 DEF Placed, Over, Stopping, Absent
      <3>4. Family(t)'
        BY Zenon, <1>3 DEF Family, Over, Stopping, Absent
      <3>5. Ending(t)'
        BY Zenon, <1>1, <1>3, <2>1, <2>4, <3>1 DEF Ending, Requested, Stopping
      <3>6. Bounded(t)'
        BY Zenon, <1>1, <1>3, <3>1 DEF Bounded
      <3>. QED BY Zenon, <2>2, <2>4, <3>3, <3>4, <3>5, <3>6 DEF Sound
    <2>. QED BY Zenon, <2>3, <2>4
  <1>. QED BY Zenon, <1>5, <1>6 DEF TaskInv

(* It has reported. *)
LEMMA KeepReported ==
    ASSUME TaskInv, NEW t \in Tasks, Reported(t)
    PROVE  TaskInv'
  <1>1. /\ at[t].pc = "report" /\ at' = [at EXCEPT ![t] = At("loop", 0)]
        /\ UNCHANGED <<state, running, pendingStart, pendingTerm, raised, isOpen, asked>>
        /\ t \in Threads /\ t # Main
    BY Zenon, TaskTree DEF Reported, counts, engines, Threads
  <1>2. PICK p \in Parents(t) : Signal(p, Message("work"))
    BY Zenon DEF Reported
  <1>3. Queues' /\ \A u \in Tasks : \A sub : sub # "work" => Count(queue'[u], sub) = Count(queue[u], sub)
    <2>1. Message("work") \in Messages /\ Message("work").sub = "work" /\ p \in Tasks
      BY Zenon, Fields DEF Subs, Parents
    <2>2. Addressed(p, Message("work"))
      BY Zenon, <2>1 DEF Addressed, EngineSubs
    <2>3. Queues' /\ \A u \in Tasks : \A sub : sub # Message("work").sub =>
                                        Count(queue'[u], sub) = Count(queue[u], sub)
      BY <1>2, <2>1, <2>2, QueueGiven
    <2>. QED BY Zenon, <2>1, <2>3
  <1>4. /\ at' \in [Threads -> [pc : Places, i : Nat]] /\ at'[t].pc = "loop"
        /\ \A c \in Threads : c # t => at'[c] = at[c]
    BY Zenon, <1>1, Moved DEF Places
  <1>5. \A c \in Tasks : Gone(c)' = Gone(c)
    BY Zenon, <1>1, <1>4 DEF Gone, Threads
  <1>6. Placed(t) /\ running[t] /\ pendingTerm[t] = 0 /\ ~Over(t)'
    BY Zenon, <1>1, <1>4, Of DEF Placed, Over
  <1>7. TaskTypes' /\ EnginesClosed' /\ MainWaits'
    <2>1. Root \in Tasks /\ Main \in Threads
      BY Zenon, TaskTree DEF Threads
    <2>. QED BY Zenon, <1>1, <1>3, <1>4, <1>5, <1>6, <2>1
             DEF TaskInv, TaskTypes, EnginesClosed, MainWaits, Over, Threads, Absent, Stopping
  <1>8. ASSUME NEW u \in Tasks
        PROVE  Sound(u)'
    <2>1. \A c \in Threads : /\ Calls(c, u, "signal")' = Calls(c, u, "signal")
                             /\ Calls(c, u, "join")' = Calls(c, u, "join")
      BY Zenon, <1>1, <1>4, SameCalls
    <2>2. Exact(u)'
      <3>1. OwedKids(u)' = OwedKids(u)
        BY Zenon, <1>1, <1>5, Tree DEF OwedKids
      <3>. QED BY Zenon, <1>1, <1>3, <3>1, Of, SameCounts
    <2>3. CASE u # t
      <3>1. Placed(u)' /\ Family(u)' /\ Ending(u)' /\ Bounded(u)'
        BY ZenonT(40), <1>1, <1>3, <1>4, <1>5, <2>1, <2>3, Elsewhere, Tree DEF Threads
      <3>. QED BY Zenon, <2>2, <3>1 DEF Sound
    <2>4. CASE u = t
      <3>1. Placed(t) /\ Ending(t) /\ Bounded(t)
        BY Zenon, Of
      <3>2. Placed(t)'
        BY Zenon, <1>1, <1>4, <1>6, <3>1 DEF Placed, Stopping, Absent
      <3>3. Family(t)'
        BY Zenon, <1>4, <1>6 DEF Family, Stopping, Absent
      <3>4. Ending(t)'
        BY Zenon, <1>1, <1>3, <1>4, <1>6, <2>1, <2>4, <3>1 DEF Ending, Requested, Stopping
      <3>5. Bounded(t)'
        BY Zenon, <1>1, <1>4, <3>1 DEF Bounded
      <3>. QED BY Zenon, <2>2, <2>4, <3>2, <3>3, <3>4, <3>5 DEF Sound
    <2>. QED BY Zenon, <2>3, <2>4
  <1>. QED BY Zenon, <1>7, <1>8 DEF TaskInv

(* The children of a task are terminated. *)
LEMMA KeepChildrenTerminated ==
    ASSUME TaskInv, NEW t \in Tasks, ChildrenTerminated(t)
    PROVE  TaskInv'
  <1>1. /\ at[t].pc = "terminate" /\ at[t].i > Len(Kids[t]) /\ at' = [at EXCEPT ![t] = At("loop", 0)]
        /\ running' = [running EXCEPT ![t] = running[t] /\ pendingTerm[t] # 0]
        /\ UNCHANGED <<state, pendingStart, pendingTerm, queue, raised, isOpen, asked>>
        /\ t \in Threads /\ t # Main
    BY Zenon, TaskTree DEF ChildrenTerminated, counts, engines, Threads
  <1>2. /\ at' \in [Threads -> [pc : Places, i : Nat]] /\ at'[t].pc = "loop"
        /\ \A c \in Threads : c # t => at'[c] = at[c]
    BY Zenon, <1>1, Moved DEF Places
  <1>3. \A c \in Tasks : Gone(c)' = Gone(c)
    BY Zenon, <1>1, <1>2 DEF Gone, Threads
  <1>4. /\ running' \in [Tasks -> BOOLEAN] /\ running'[t] = (pendingTerm[t] # 0)
        /\ \A u \in Tasks : u # t => running'[u] = running[u]
    <2>1. running[t] /\ running \in [Tasks -> BOOLEAN]
      BY Zenon, <1>1, Of DEF Placed, Stopping, TaskInv, TaskTypes
    <2>. QED BY Zenon, <1>1, <2>1
  <1>5. Over(t)'
    BY Zenon, <1>1, <1>2, <1>4 DEF Over
  <1>6. TaskTypes' /\ EnginesClosed' /\ MainWaits'
    <2>1. Root \in Tasks /\ Main \in Threads
      BY Zenon, TaskTree DEF Threads
    <2>2. EnginesClosed'
      BY Zenon, <1>1, <1>2, <1>4, <2>1 DEF TaskInv, EnginesClosed, Over, Threads, Absent, Stopping
    <2>. QED BY Zenon, <1>1, <1>2, <1>3, <1>4, <2>1, <2>2
             DEF TaskInv, TaskTypes, Queues, MainWaits, Threads
  <1>7. ASSUME NEW u \in Tasks
        PROVE  Sound(u)'
    <2>1. \A c \in Threads : /\ Calls(c, u, "signal")' = Calls(c, u, "signal")
                             /\ Calls(c, u, "join")' = Calls(c, u, "join")
      BY Zenon, <1>1, <1>2, SameCalls
    <2>2. Exact(u)'
      <3>1. OwedKids(u)' = OwedKids(u)
        BY Zenon, <1>1, <1>3, Tree DEF OwedKids
      <3>. QED BY Zenon, <1>1, <3>1, Of, SameCounts
    <2>3. CASE u # t
      <3>1. Placed(u)' /\ Family(u)' /\ Ending(u)' /\ Bounded(u)'
        BY Zenon, <1>1, <1>2, <1>3, <1>4, <2>1, <2>3, Elsewhere, Tree DEF Threads
      <3>. QED BY Zenon, <2>2, <3>1 DEF Sound
    <2>4. CASE u = t
      <3>1. Placed(t) /\ Family(t) /\ Ending(t) /\ Bounded(t)
        BY Zenon, Of
      <3>2. Placed(t)'
        BY Zenon, <1>1, <1>2, <1>4, <1>5, <3>1 DEF Placed, Stopping, Absent
      <3>3. Family(t)'
        <4>1. \A k \in Children(t) : \E j \in DOMAIN Kids[t] : k = Kids[t][j] /\ j < at[t].i
          BY SMTT(40), <1>1, Tree, Of
        <4>2. \A k \in Children(t) : Gone(k)'
          BY <1>1, <1>3, <3>1, <4>1, Tree DEF Family, Stopping
        <4>. QED BY Zenon, <1>2, <4>2 DEF Family, Stopping, Absent
      <3>4. Ending(t)'
        BY Zenon, <1>1, <1>2, <2>1, <2>4, <3>1 DEF Ending, Requested, Stopping
      <3>5. Bounded(t)'
        BY Zenon, <1>1, <1>2, <3>1 DEF Bounded
      <3>. QED BY Zenon, <2>2, <2>4, <3>2, <3>3, <3>4, <3>5 DEF Sound
    <2>. QED BY Zenon, <2>3, <2>4
  <1>. QED BY Zenon, <1>6, <1>7 DEF TaskInv

(* The thread of a task ends. *)
LEMMA KeepExit ==
    ASSUME TaskInv, NEW t \in Tasks, Exit(t)
    PROVE  TaskInv'
  <1>1. /\ at[t].pc = "loop" /\ ~running[t] /\ at' = [at EXCEPT ![t] = At("none", 0)]
        /\ state' = [state EXCEPT ![t] = "IDLE"]
        /\ UNCHANGED <<running, pendingStart, pendingTerm, queue, raised, isOpen, asked>>
        /\ t \in Threads /\ t # Main
    BY Zenon, TaskTree DEF Exit, counts, engines, Threads
  <1>2. /\ at' \in [Threads -> [pc : Places, i : Nat]] /\ at'[t].pc = "none"
        /\ \A c \in Threads : c # t => at'[c] = at[c]
    BY Zenon, <1>1, Moved DEF Places
  <1>3. \A c \in Tasks : Gone(c) => Gone(c)'
    BY Zenon, <1>1, <1>2 DEF Gone, Threads
  <1>4. /\ state' \in [Tasks -> {"IDLE", "START_REQUESTED", "RUNNING", "TERMINATE_REQUESTED"}]
        /\ state'[t] = "IDLE" /\ \A u \in Tasks : u # t => state'[u] = state[u]
    BY Zenon, <1>1 DEF TaskInv, TaskTypes
  <1>5. Over(t) /\ state[t] = "TERMINATE_REQUESTED" /\ raised[t] /\ pendingStart[t] = 0 /\ pendingTerm[t] = 0
    BY Zenon, <1>1, Of DEF Over, Placed
  <1>6. TaskTypes' /\ EnginesClosed' /\ MainWaits'
    <2>1. Root \in Tasks /\ Main \in Threads
      BY Zenon, TaskTree DEF Threads
    <2>2. EnginesClosed'
      BY Zenon, <1>1, <1>2, <1>5, <2>1 DEF TaskInv, EnginesClosed, Over, Threads, Absent, Stopping
    <2>. QED BY Zenon, <1>1, <1>2, <1>3, <1>4, <2>1, <2>2
             DEF TaskInv, TaskTypes, Queues, MainWaits, Threads
  <1>7. ASSUME NEW u \in Tasks
        PROVE  Sound(u)'
    <2>1. \A c \in Threads : /\ Calls(c, u, "signal")' = Calls(c, u, "signal")
                             /\ Calls(c, u, "join")' = Calls(c, u, "join")
      BY Zenon, <1>1, <1>2, SameCalls
    <2>2. Exact(u)'
      <3>1. OwedKids(u)' = OwedKids(u)
        BY <1>1, <1>2, <1>5, Tree DEF OwedKids, Gone, Threads
      <3>. QED BY Zenon, <1>1, <3>1, Of, SameCounts
    <2>3. CASE u # t
      <3>1. Placed(u)' /\ Family(u)' /\ Ending(u)' /\ Bounded(u)'
        BY Zenon, <1>1, <1>2, <1>3, <1>4, <2>1, <2>3, Elsewhere, Tree DEF Threads
      <3>. QED BY Zenon, <2>2, <3>1 DEF Sound
    <2>4. CASE u = t
      <3>1. Placed(t) /\ Family(t) /\ Ending(t) /\ Bounded(t)
        BY Zenon, Of
      <3>2. Placed(t)'
        BY Zenon, <1>1, <1>2, <1>4, <1>5, <3>1 DEF Placed, Over, Stopping, Absent
      <3>3. Family(t)'
        <4>1. \A k \in Children(t) : Gone(k)'
          BY Zenon, <1>3, <1>5, <3>1, Tree DEF Family
        <4>. QED BY Zenon, <1>2, <4>1 DEF Family, Stopping, Absent
      <3>4. Ending(t)'
        BY Zenon, <1>1, <1>2, <1>4, <2>1, <2>4, <3>1 DEF Ending, Requested, Stopping
      <3>5. Bounded(t)'
        BY Zenon, <1>1, <1>2, <3>1 DEF Bounded
      <3>. QED BY Zenon, <2>2, <2>4, <3>2, <3>3, <3>4, <3>5 DEF Sound
    <2>. QED BY Zenon, <2>3, <2>4
  <1>. QED BY Zenon, <1>6, <1>7 DEF TaskInv
-----------------------------------------------------------------------------
(* apt_task_terminate marks a task that has started, or is gone. *)
LEMMA KeepTerminateLock ==
    ASSUME TaskInv, WaitStarted, NEW c \in Threads, NEW t \in Tasks, TerminateLock(c, t)
    PROVE  TaskInv'
  <1>1. /\ state' = [state EXCEPT ![t] = IF @ \in {"START_REQUESTED", "RUNNING"}
                                         THEN "TERMINATE_REQUESTED" ELSE @]
        /\ at' = [at EXCEPT ![c].pc = "signal"]
        /\ UNCHANGED <<running, pendingStart, pendingTerm, queue, raised, isOpen, asked>>
    BY Zenon DEF TerminateLock, counts, engines
  <1>2. /\ at' \in [Threads -> [pc : Places, i : Nat]] /\ at'[c].pc = "signal" /\ at'[c].i = at[c].i
        /\ \A d \in Threads : d # c => at'[d] = at[d]
    BY Zenon, <1>1 DEF TaskInv, TaskTypes, Places
  <1>3. /\ c = Main => at[c].pc = "started" /\ t = Root /\ raised[t]
        /\ c # Main => /\ c \in Tasks /\ at[c].pc = "terminate" /\ at[c].i \in 1 .. Len(Kids[c])
                       /\ t = Kids[c][at[c].i] /\ t \in Children(c) /\ t # Root /\ t # c
    <2>1. c = Main => at[c].pc = "started" /\ t = Root /\ raised[t]
      BY Zenon DEF TerminateLock
    <2>2. ASSUME c # Main
          PROVE  /\ c \in Tasks /\ at[c].pc = "terminate" /\ at[c].i \in 1 .. Len(Kids[c])
                 /\ t = Kids[c][at[c].i]
      <3>1. c \in Tasks /\ at[c].pc = "terminate" /\ at[c].i <= Len(Kids[c]) /\ t = Kids[c][at[c].i]
        BY Zenon, <2>2 DEF TerminateLock, Threads
      <3>. QED BY <3>1, Of, Tree DEF Family, Stopping
    <2>3. ASSUME c # Main PROVE t \in Children(c) /\ Root \notin Children(c)
      <3>1. c \in Tasks /\ at[c].i \in 1 .. Len(Kids[c]) /\ t = Kids[c][at[c].i]
        BY Zenon, <2>2, <2>3
      <3>. QED BY Zenon, <3>1, Tree
    <2>. QED BY Zenon, <2>1, <2>2, <2>3, NotItsOwn
  <1>4. at[t].pc # "none" => raised[t]
    <2>1. CASE c # Main
      <3>1. raised[c] /\ pendingStart[c] = 0
        BY Zenon, <1>3, <2>1, Of DEF Placed, Stopping
      <3>2. OwedKids(c) = {}
        BY Zenon, <1>3, <2>1, <3>1, NothingOwed
      <3>. QED BY Zenon, <1>3, <2>1, <3>2 DEF OwedKids, Gone
    <2>. QED BY Zenon, <1>3, <2>1
  <1>5. \A d \in Threads : ~Calls(d, t, "signal") /\ ~Calls(d, t, "join")
    <2>. SUFFICES ASSUME NEW d \in Threads, Calls(d, t, "signal") \/ Calls(d, t, "join")
                  PROVE  FALSE
      BY Zenon
    <2>1. d = c
      BY Zenon, <1>3, Caller, OneParent
    <2>. QED BY Zenon, <1>3, <2>1 DEF Calls
  <1>6. state[t] \in {"IDLE", "RUNNING"} /\ (state[t] = "IDLE" <=> at[t].pc = "none") /\ at[t].pc # "start"
    BY Zenon, <1>4, <1>5, Of DEF Placed, Ending
  <1>7. /\ state' \in [Tasks -> {"IDLE", "START_REQUESTED", "RUNNING", "TERMINATE_REQUESTED"}]
        /\ state'[t] = (IF at[t].pc = "none" THEN "IDLE" ELSE "TERMINATE_REQUESTED")
        /\ \A u \in Tasks : u # t => state'[u] = state[u]
    BY Zenon, <1>1, <1>6 DEF TaskInv, TaskTypes
  <1>8. \A u \in Tasks : Gone(u)' = Gone(u)
    BY Zenon, <1>2, <1>3 DEF Gone, Threads
  <1>9. TaskTypes' /\ EnginesClosed' /\ MainWaits'
    <2>1. Root \in Tasks /\ Root \in Threads /\ Main \in Threads /\ Main \notin Tasks
      BY Zenon, TaskTree DEF Threads
    <2>2. EnginesClosed'
      BY <1>1, <1>2, <1>3, <2>1 DEF TaskInv, EnginesClosed, Over, Absent, Stopping
    <2>3. MainWaits'
      BY Zenon, <1>2, <1>3, <1>8, <2>1 DEF TaskInv, MainWaits, Threads
    <2>. QED BY Zenon, <1>1, <1>2, <1>7, <2>2, <2>3 DEF TaskInv, TaskTypes, Queues
  <1>10. ASSUME NEW u \in Tasks
         PROVE  Sound(u)'
    <2>1. Exact(u)'
      <3>1. OwedKids(u)' = OwedKids(u)
        BY Zenon, <1>1, <1>8, Tree DEF OwedKids
      <3>. QED BY Zenon, <1>1, <3>1, Of, SameCounts
    <2>2. Placed(u) /\ Family(u) /\ Ending(u) /\ Bounded(u) /\ u \in Threads /\ u # Main
      BY Zenon, Of, TaskTree DEF Threads
    <2>3. CASE u = t
      <3>1. at'[t] = at[t]
        BY Zenon, <1>2, <1>3, <2>2, <2>3
      <3>2. Placed(t)'
        BY Zenon, <1>1, <1>4, <1>6, <1>7, <2>2, <2>3, <3>1 DEF Placed, Over, Stopping, Absent
      <3>3. Family(t)'
        <4>1. \A j \in DOMAIN Kids[t] : Kids[t][j] \in Children(t)
          BY Zenon, Tree
        <4>. QED BY Zenon, <1>1, <1>8, <2>2, <2>3, <3>1, <4>1, Tree DEF Family, Over
      <3>4. Ending(t)'
        <4>1. Requested(t)' = 0
          BY Zenon, <1>1, <1>6, <2>2, <2>3 DEF Ending, Requested
        <4>2. at'[t].pc \notin Stopping /\ pendingTerm'[t] = 0 /\ (at'[t].pc = "loop" => running'[t])
          BY Zenon, <1>1, <1>6, <2>2, <2>3, <3>1, Of DEF Placed, Over, Stopping, Absent, Places
        <4>3. Calls(c, t, "signal")'
          BY Zenon, <1>2, <1>3 DEF Calls
        <4>4. \A d \in Threads : ~Calls(d, t, "join")'
          BY Zenon, <1>2, <1>5 DEF Calls
        <4>. QED BY <1>7, <4>1, <4>2, <4>3 DEF Ending
      <3>5. Bounded(t)'
        BY Zenon, <1>1, <2>2, <2>3, <3>1 DEF Bounded
      <3>. QED BY Zenon, <2>1, <2>3, <3>2, <3>3, <3>4, <3>5 DEF Sound
    <2>4. u # t => \A d \in Threads : /\ Calls(d, u, "signal")' = Calls(d, u, "signal")
                                      /\ Calls(d, u, "join")' = Calls(d, u, "join")
      BY <1>2, <1>3 DEF Calls
    <2>5. CASE u # t /\ u # c
      <3>1. Placed(u)' /\ Family(u)' /\ Ending(u)' /\ Bounded(u)'
        BY Zenon, <1>1, <1>2, <1>7, <1>8, <2>2, <2>4, <2>5, Elsewhere, Tree
      <3>. QED BY Zenon, <2>1, <3>1 DEF Sound
    <2>6. CASE u = c
      <3>1. u # t /\ at[u].pc = "terminate" /\ at'[u].pc = "signal" /\ at'[u].i = at[u].i /\ state'[u] = state[u]
        BY Zenon, <1>2, <1>3, <1>7, <2>2, <2>6
      <3>2. Placed(u)'
        BY Zenon, <1>1, <2>2, <3>1 DEF Placed, Over, Stopping, Absent
      <3>3. Family(u)'
        <4>1. \A j \in DOMAIN Kids[u] : Kids[u][j] \in Children(u)
          BY Zenon, Tree
        <4>2. at[u].i <= Len(Kids[u])
          BY <1>3, <2>2, <2>6
        <4>. QED BY Zenon, <1>8, <2>2, <3>1, <4>1, <4>2, Tree DEF Family, Over, Stopping, Absent
      <3>4. Ending(u)'
        BY Zenon, <1>1, <2>2, <2>4, <3>1 DEF Ending, Requested, Stopping
      <3>5. Bounded(u)'
        BY Zenon, <1>1, <2>2, <3>1 DEF Bounded
      <3>. QED BY Zenon, <2>1, <3>2, <3>3, <3>4, <3>5 DEF Sound
    <2>. QED BY Zenon, <2>3, <2>5, <2>6
  <1>. QED BY Zenon, <1>9, <1>10 DEF TaskInv

(* The call of apt_task_terminate returns: its task is gone. *)
LEMMA KeepReturn ==
    ASSUME TaskInv, NEW c \in Threads, NEW t \in Tasks, Calls(c, t, "signal") \/ Calls(c, t, "join"),
           at[t].pc = "none", at' = [at EXCEPT ![c] = Returned(c)],
           UNCHANGED <<state, running, pendingStart, pendingTerm, queue, raised, isOpen, asked>>
    PROVE  TaskInv'
  <1>1. /\ c = Main => t = Root
        /\ c # Main => c \in Tasks /\ t \in Children(c) /\ t # Root /\ t # c
    BY Zenon, Caller
  <1>2. at[c] \in [pc : Places, i : Nat] /\ at[c].pc \in {"signal", "join"}
    BY Zenon DEF TaskInv, TaskTypes, Calls
  <1>3. /\ at' \in [Threads -> [pc : Places, i : Nat]]
        /\ c = Main => at'[c].pc = "none"
        /\ c # Main => at'[c].pc = "terminate" /\ at'[c].i = at[c].i + 1
        /\ \A d \in Threads : d # c => at'[d] = at[d]
    <2>1. /\ Returned(c) \in [pc : Places, i : Nat]
          /\ c = Main => Returned(c).pc = "none"
          /\ c # Main => Returned(c).pc = "terminate" /\ Returned(c).i = at[c].i + 1
      <3>1. CASE c = Main
        BY Zenon, <3>1 DEF Returned, At, Places
      <3>2. CASE c # Main
        BY <1>2, <3>2 DEF Returned, At, Places
      <3>. QED BY Zenon, <3>1, <3>2
    <2>2. at \in [Threads -> [pc : Places, i : Nat]]
      BY Zenon DEF TaskInv, TaskTypes
    <2>. QED BY Zenon, <2>1, <2>2
  <1>4. \A u \in Tasks : Gone(u)' = Gone(u)
    BY <1>1, <1>2, <1>3, TaskTree DEF Gone, Threads
  <1>5. state[t] = "IDLE"
    BY Zenon, Of DEF Placed
  <1>6. TaskTypes' /\ EnginesClosed' /\ MainWaits'
    <2>1. Root \in Tasks /\ Root \in Threads /\ Main \in Threads /\ Main \notin Tasks
      BY Zenon, TaskTree DEF Threads
    <2>2. EnginesClosed'
      BY Zenon, <1>1, <1>2, <1>3, <2>1 DEF TaskInv, EnginesClosed, Over, Absent, Stopping
    <2>3. MainWaits'
      BY Zenon, <1>1, <1>3, <1>4, <2>1 DEF TaskInv, MainWaits, Gone, Threads
    <2>. QED BY Zenon, <1>3, <2>2, <2>3 DEF TaskInv, TaskTypes, Queues
  <1>7. ASSUME NEW u \in Tasks
        PROVE  Sound(u)'
    <2>1. Exact(u)'
      <3>1. OwedKids(u)' = OwedKids(u)
        BY Zenon, <1>4, Tree DEF OwedKids
      <3>. QED BY Zenon, <3>1, Of, SameCounts
    <2>2. Placed(u) /\ Family(u) /\ Ending(u) /\ Bounded(u) /\ u \in Threads /\ u # Main
      BY Zenon, Of, TaskTree DEF Threads
    <2>3. u # t => \A d \in Threads : /\ Calls(d, u, "signal")' = Calls(d, u, "signal")
                                      /\ Calls(d, u, "join")' = Calls(d, u, "join")
      BY Zenon, <1>2, <1>3 DEF Calls
    <2>4. \A d \in Threads : ~Calls(d, t, "signal")' /\ ~Calls(d, t, "join")'
      <3>. SUFFICES ASSUME NEW d \in Threads, Calls(d, t, "signal")' \/ Calls(d, t, "join")'
                    PROVE  FALSE
        BY Zenon
      <3>1. d # c
        BY Zenon, <1>2, <1>3 DEF Calls
      <3>2. Calls(d, t, "signal") \/ Calls(d, t, "join")
        BY Zenon, <1>3, <3>1 DEF Calls
      <3>. QED BY Zenon, <3>1, <3>2, OneCaller
    <2>5. Ending(u)'
      <3>1. CASE u = t
        BY Zenon, <1>5, <2>2, <2>4, <3>1 DEF Ending, Requested
      <3>2. CASE u # t /\ u # c
        BY Zenon, <1>3, <2>2, <2>3, <3>2, Elsewhere
      <3>3. CASE u # t /\ u = c
        BY Zenon, <1>2, <1>3, <2>2, <2>3, <3>3 DEF Ending, Requested, Stopping
      <3>. QED BY Zenon, <3>1, <3>2, <3>3
    <2>6. CASE u # c
      <3>1. Placed(u)' /\ Family(u)' /\ Bounded(u)'
        BY Zenon, <1>3, <1>4, <2>2, <2>6, Elsewhere, Tree
      <3>. QED BY Zenon, <2>1, <2>5, <3>1 DEF Sound
    <2>7. CASE u = c
      <3>1. at[u].pc \in {"signal", "join"} /\ at'[u].pc = "terminate" /\ at'[u].i = at[u].i + 1 /\ at[u].i \in Nat
        BY Zenon, <1>2, <1>3, <2>2, <2>7
      <3>2. Placed(u)'
        BY Zenon, <2>2, <3>1 DEF Placed, Over, Stopping, Absent
      <3>3. Family(u)'
        <4>1. /\ \A j \in DOMAIN Kids[u] : Kids[u][j] \in Children(u) /\ j \in Nat
              /\ t = Kids[u][at[u].i]
          BY <2>2, <2>7, Tree DEF Calls
        <4>2. at[u].i >= 1 /\ \A j \in DOMAIN Kids[u] : j < at[u].i => Gone(Kids[u][j])
          BY Zenon, <2>2, <3>1 DEF Family, Stopping
        <4>3. \A j \in DOMAIN Kids[u] : j < at'[u].i => Gone(Kids[u][j])
          BY <3>1, <4>1, <4>2 DEF Gone
        <4>4. \A j \in DOMAIN Kids[u] : j < at'[u].i => Gone(Kids[u][j])'
          BY Zenon, <1>4, <4>1, <4>3, Tree
        <4>. QED BY <3>1, <4>2, <4>4 DEF Family, Over, Stopping, Absent
      <3>4. Bounded(u)'
        BY Zenon, <2>2, <3>1 DEF Bounded
      <3>. QED BY Zenon, <2>1, <2>5, <3>2, <3>3, <3>4 DEF Sound
    <2>. QED BY Zenon, <2>6, <2>7
  <1>. QED BY Zenon, <1>6, <1>7 DEF TaskInv

(* apt_task_terminate sends its request once, to a task that reads it. *)
LEMMA KeepTerminateSignal ==
    ASSUME TaskInv, NEW c \in Threads, NEW t \in Tasks, TerminateSignal(c, t)
    PROVE  TaskInv'
  <1>1. /\ Calls(c, t, "signal")
        /\ UNCHANGED <<state, running, pendingStart, pendingTerm, raised, isOpen, asked>>
    BY Zenon DEF TerminateSignal, counts, engines
  <1>2. /\ Placed(t) /\ Ending(t) /\ at[t].pc \in Places /\ at[t].pc # "started"
        /\ state[t] \in {"IDLE", "TERMINATE_REQUESTED"}
    BY Zenon, <1>1, Of DEF Ending
  <1>3. CASE state[t] # "TERMINATE_REQUESTED"
    <2>1. at[t].pc = "none" /\ at' = [at EXCEPT ![c] = Returned(c)] /\ UNCHANGED queue
      BY Zenon, <1>2, <1>3 DEF TerminateSignal, Placed
    <2>. QED BY Zenon, <1>1, <2>1, KeepReturn
  <1>4. CASE state[t] = "TERMINATE_REQUESTED"
    <2>1. Signal(t, Message("TERMINATE_REQUEST")) /\ at' = [at EXCEPT ![c].pc = "join"]
      BY Zenon, <1>4 DEF TerminateSignal
    <2>2. /\ Queues' /\ Requested(t)' = Requested(t) + 1 /\ Requested(t) = 0
          /\ \A u \in Tasks : \A sub : u # t \/ sub # "TERMINATE_REQUEST" =>
                                          Count(queue'[u], sub) = Count(queue[u], sub)
      <3>. DEFINE m == Message("TERMINATE_REQUEST")
      <3>1. m \in Messages /\ m.sub = "TERMINATE_REQUEST"
        BY Zenon, Fields DEF Subs
      <3>. HIDE DEF m
      <3>2. Addressed(t, m)
        BY Zenon, <3>1 DEF Addressed, EngineSubs
      <3>3. Requested(t) = 0
        BY Zenon, <1>1, <1>2 DEF Ending
      <3>4. Signal(t, m)
        BY Zenon, <2>1 DEF m
      <3>5. /\ Queues' /\ Count(queue'[t], m.sub) = Count(queue[t], m.sub) + 1
            /\ \A u \in Tasks : \A sub : u # t \/ sub # m.sub =>
                                            Count(queue'[u], sub) = Count(queue[u], sub)
        BY Zenon, <3>1, <3>2, <3>4, QueueGiven
      <3>. QED BY Zenon, <3>1, <3>3, <3>5 DEF Requested
    <2>3. /\ at' \in [Threads -> [pc : Places, i : Nat]] /\ at'[c].pc = "join" /\ at'[c].i = at[c].i
          /\ at[c].pc = "signal" /\ \A d \in Threads : d # c => at'[d] = at[d]
      BY Zenon, <1>1, <2>1 DEF TaskInv, TaskTypes, Places, Calls
    <2>4. \A u \in Tasks : Gone(u)' = Gone(u)
      BY Zenon, <2>3 DEF Gone, Threads
    <2>5. /\ c = Main => t = Root
          /\ c # Main => c \in Tasks /\ t \in Children(c) /\ t # Root /\ t # c
      BY Zenon, <1>1, Caller
    <2>6. at[t].pc \in {"loop", "report"} /\ running[t] /\ pendingTerm[t] = 0
      BY Zenon, <1>1, <1>2, <1>4 DEF Placed, Ending, Places, Stopping, Absent
    <2>7. TaskTypes' /\ EnginesClosed' /\ MainWaits'
      <3>1. Root \in Tasks /\ Root \in Threads /\ Main \in Threads /\ Main \notin Tasks
        BY Zenon, TaskTree DEF Threads
      <3>2. EnginesClosed'
        BY Zenon, <1>1, <2>3, <3>1 DEF TaskInv, EnginesClosed, Over, Absent, Stopping
      <3>3. MainWaits'
        BY Zenon, <2>3, <2>4, <3>1 DEF TaskInv, MainWaits, Threads
      <3>. QED BY Zenon, <1>1, <2>2, <2>3, <3>2, <3>3 DEF TaskInv, TaskTypes
    <2>8. ASSUME NEW u \in Tasks
          PROVE  Sound(u)'
      <3>1. Exact(u)'
        <4>1. OwedKids(u)' = OwedKids(u)
          BY Zenon, <1>1, <2>4, Tree DEF OwedKids
        <4>. QED BY Zenon, <1>1, <2>2, <4>1, Of, SameCounts
      <3>2. Placed(u) /\ Family(u) /\ Ending(u) /\ Bounded(u) /\ u \in Threads /\ u # Main
        BY Zenon, Of, TaskTree DEF Threads
      <3>3. u # t => \A d \in Threads : /\ Calls(d, u, "signal")' = Calls(d, u, "signal")
                                        /\ Calls(d, u, "join")' = Calls(d, u, "join")
        BY <1>1, <2>3 DEF Calls
      <3>4. CASE u = t
        <4>1. at'[t] = at[t] /\ Calls(c, t, "join")'
          BY Zenon, <1>1, <2>3, <2>5, <3>2, <3>4 DEF Calls
        <4>2. \A d \in Threads : ~Calls(d, t, "signal")'
          <5>. SUFFICES ASSUME NEW d \in Threads, Calls(d, t, "signal")'
                        PROVE  FALSE
            BY Zenon
          <5>1. d # c
            BY Zenon, <2>3 DEF Calls
          <5>2. Calls(d, t, "signal")
            BY Zenon, <2>3, <5>1 DEF Calls
          <5>. QED BY Zenon, <1>1, <5>1, <5>2, OneCaller
        <4>3. Ending(t)'
          BY <1>1, <1>4, <2>2, <2>6, <4>1, <4>2 DEF Ending
        <4>4. Placed(t)' /\ Family(t)' /\ Bounded(t)'
          BY Zenon, <1>1, <2>4, <4>1, Elsewhere, Tree
        <4>. QED BY Zenon, <3>1, <3>4, <4>3, <4>4 DEF Sound
      <3>5. CASE u # t /\ u # c
        <4>1. Placed(u)' /\ Family(u)' /\ Ending(u)' /\ Bounded(u)'
          BY Zenon, <1>1, <2>2, <2>3, <2>4, <3>2, <3>3, <3>5, Elsewhere, Tree
        <4>. QED BY Zenon, <3>1, <4>1 DEF Sound
      <3>6. CASE u # t /\ u = c
        <4>1. at[u].pc = "signal" /\ at'[u].pc = "join" /\ at'[u].i = at[u].i
          BY Zenon, <2>3, <3>6
        <4>2. Placed(u)'
          BY Zenon, <1>1, <3>2, <4>1 DEF Placed, Over, Stopping, Absent
        <4>3. Family(u)'
          <5>1. \A j \in DOMAIN Kids[u] : Kids[u][j] \in Children(u)
            BY Zenon, Tree
          <5>. QED BY Zenon, <2>4, <3>2, <4>1, <5>1, Tree DEF Family, Over, Stopping, Absent
        <4>4. Ending(u)'
          BY Zenon, <1>1, <2>2, <3>2, <3>3, <3>6, <4>1 DEF Ending, Requested, Stopping
        <4>5. Bounded(u)'
          BY Zenon, <1>1, <3>2, <4>1 DEF Bounded
        <4>. QED BY Zenon, <3>1, <4>2, <4>3, <4>4, <4>5 DEF Sound
      <3>. QED BY Zenon, <3>4, <3>5, <3>6
    <2>. QED BY Zenon, <2>7, <2>8 DEF TaskInv
  <1>. QED BY Zenon, <1>3, <1>4

(* apt_task_wait_till_complete *)
LEMMA KeepJoin ==
    ASSUME TaskInv, NEW c \in Threads, NEW t \in Tasks, Join(c, t)
    PROVE  TaskInv'
  BY Zenon, KeepReturn DEF Join, counts, engines
-----------------------------------------------------------------------------
(* Nothing runs before the application starts the server. *)
LEMMA InitSound == TaskInit => TaskInv
  <1>. SUFFICES ASSUME TaskInit PROVE TaskInv
    BY Zenon
  <1>1. /\ Root \in Tasks /\ Main \in Threads /\ \A t \in Tasks : t \in Threads
        /\ Capacity \in Nat /\ IsFiniteSet(Engines)
    BY Zenon, TaskTree DEF Threads
  <1>2. /\ \A c \in Threads : at[c].pc = "none"
        /\ at \in [Threads -> [pc : Places, i : Nat]]
    <2>1. At("none", 0) \in [pc : Places, i : Nat] /\ At("none", 0).pc = "none"
      BY Zenon DEF At, Places
    <2>2. at = [c \in Threads |-> At("none", 0)]
      BY Zenon DEF TaskInit, Threads
    <2>. QED BY Zenon, <2>1, <2>2
  <1>3. TaskTypes
    <2>1. Queues
      <3>1. <<>> \in Seq(Messages) /\ Len(<<>>) = 0 /\ DOMAIN <<>> = {} /\ 0 <= Capacity
        BY <1>1
      <3>2. queue = [t \in Tasks |-> <<>>]
        BY Zenon DEF TaskInit
      <3>3. \A t \in Tasks : queue[t] = <<>>
        BY Zenon, <3>2
      <3>4. queue \in [Tasks -> Seq(Messages)]
        BY Zenon, <3>1, <3>2
      <3>. QED BY Zenon, <3>1, <3>3, <3>4 DEF Queues
    <2>. QED BY Zenon, <1>1, <1>2, <2>1 DEF TaskInit, TaskTypes
  <1>4. EnginesClosed /\ MainWaits
    BY Zenon, <1>1, <1>2 DEF TaskInit, EnginesClosed, MainWaits, Gone
  <1>5. ASSUME NEW t \in Tasks
        PROVE  Sound(t)
    <2>1. /\ queue[t] = <<>> /\ ~raised[t] /\ pendingStart[t] = 0 /\ pendingTerm[t] = 0
          /\ state[t] = "IDLE" /\ at[t].pc = "none"
      BY Zenon, <1>1, <1>2 DEF TaskInit
    <2>2. \A sub : Count(queue[t], sub) = 0
      <3>1. queue[t] \in Seq(Messages) /\ DOMAIN queue[t] = {}
        BY <2>1
      <3>. QED BY Zenon, <3>1, CountNat
    <2>3. OwedKids(t) = {} /\ AskedTo("open") = {} /\ AskedTo("close") = {}
      BY Zenon, <1>1, <1>2, Tree DEF TaskInit, OwedKids, AskedTo, Gone
    <2>4. Cardinality(OwedKids(t)) = 0 /\ Cardinality(AskedTo("open")) = 0 /\ Cardinality(AskedTo("close")) = 0
      BY Zenon, <2>3, FS_EmptySet
    <2>5. Exact(t)
      <3>1. 0 + 0 = 0
        OBVIOUS
      <3>. QED BY Zenon, <2>1, <2>2, <2>4, <3>1 DEF Exact, Owed, OwedEngines
    <2>6. Placed(t)
      BY Zenon, <2>1 DEF Placed, Over, Stopping, Absent
    <2>7. Family(t)
      BY Zenon, <1>1, <1>2, <2>1, Tree DEF Family, Gone, Stopping, Over, Absent
    <2>8. Ending(t)
      BY <1>2, <2>1, <2>2 DEF Ending, Requested, Calls, Stopping
    <2>9. Bounded(t)
      <3>1. Cardinality(Engines) \in Nat /\ Len(Kids[t]) \in Nat
        BY Zenon, <1>1, FS_CardinalityType, Tree
      <3>. QED BY <2>1, <3>1 DEF Bounded
    <2>. QED BY Zenon, <2>5, <2>6, <2>7, <2>8, <2>9 DEF Sound
  <1>. QED BY Zenon, <1>3, <1>4, <1>5 DEF TaskInv

(* apt_task_start of a task that is gone *)
LEMMA Begins ==
    ASSUME TaskInv, NEW t \in Tasks, NEW c \in Threads, NEW next \in [pc : Places, i : Nat],
           at[t].pc = "none", c # t, Start(c, t, next),
           at[c].pc \notin {"signal", "join"}, next.pc \notin {"signal", "join"},
           c \in Tasks => at[c].pc # "none" /\ next.pc # "none",
           \A p \in Tasks : t \in Children(p) => p = c, c # Main => t # Root,
           pendingStart'[t] = pendingStart[t],
           UNCHANGED <<running, pendingTerm, queue, isOpen, asked>>
    PROVE  /\ state' \in [Tasks -> {"IDLE", "START_REQUESTED", "RUNNING", "TERMINATE_REQUESTED"}]
           /\ raised' \in [Tasks -> BOOLEAN] /\ at' \in [Threads -> [pc : Places, i : Nat]]
           /\ \A u \in Tasks : u # t => state'[u] = state[u] /\ raised'[u] = raised[u]
           /\ at'[t].pc = "prerun" /\ at'[c] = next /\ ~raised'[t]
           /\ \A d \in Threads : d # t /\ d # c => at'[d] = at[d]
           /\ \A u \in Tasks : u # t => Gone(u)' = Gone(u)
           /\ \A u \in Tasks : u # c => OwedKids(u)' = OwedKids(u)
           /\ \A u \in Tasks, d \in Threads : /\ Calls(d, u, "signal")' = Calls(d, u, "signal")
                                              /\ Calls(d, u, "join")' = Calls(d, u, "join")
           /\ Sound(t)'
  <1>1. t \in Threads
    BY Zenon DEF Threads
  <1>2. /\ state' \in [Tasks -> {"IDLE", "START_REQUESTED", "RUNNING", "TERMINATE_REQUESTED"}]
        /\ raised' \in [Tasks -> BOOLEAN] /\ state'[t] = "START_REQUESTED" /\ ~raised'[t]
        /\ \A u \in Tasks : u # t => state'[u] = state[u] /\ raised'[u] = raised[u]
    BY Zenon DEF Start, TaskInv, TaskTypes
  <1>3. /\ at' \in [Threads -> [pc : Places, i : Nat]] /\ at'[t].pc = "prerun" /\ at'[c] = next
        /\ \A d \in Threads : d # t /\ d # c => at'[d] = at[d]
    <2>1. At("prerun", 0) \in [pc : Places, i : Nat] /\ At("prerun", 0).pc = "prerun"
      BY Zenon DEF At, Places
    <2>2. at \in [Threads -> [pc : Places, i : Nat]]
      BY Zenon DEF TaskInv, TaskTypes
    <2>3. at' = [at EXCEPT ![c] = next, ![t] = At("prerun", 0)]
      BY Zenon DEF Start
    <2>. HIDE DEF At
    <2>. QED BY Zenon, <1>1, <2>1, <2>2, <2>3
  <1>4. \A u \in Tasks : u # t => Gone(u)' = Gone(u)
    BY Zenon, <1>3 DEF Gone, Threads
  <1>5. \A u \in Tasks, d \in Threads : /\ Calls(d, u, "signal")' = Calls(d, u, "signal")
                                        /\ Calls(d, u, "join")' = Calls(d, u, "join")
    BY Zenon, <1>3, SameCalls
  <1>6. ASSUME NEW u \in Tasks, u # c
        PROVE  OwedKids(u)' = OwedKids(u)
    <2>1. t \notin Children(u)
      BY Zenon, <1>6
    <2>. QED BY Zenon, <1>2, <1>4, <2>1, Tree DEF OwedKids
  <1>7. Sound(t)'
    <2>1. Placed(t) /\ Family(t) /\ Ending(t) /\ Bounded(t) /\ Exact(t)
      BY Zenon, Of
    <2>2. Placed(t)'
      BY Zenon, <1>2, <1>3, <2>1 DEF Placed, Over, Stopping, Absent
    <2>3. Family(t)'
      <3>1. \A k \in Children(t) : Gone(k)'
        BY Zenon, <1>4, <2>1, Tree, NotItsOwn DEF Family, Absent
      <3>. QED BY Zenon, <1>3, <3>1 DEF Family, Over, Stopping, Absent
    <2>4. Ending(t)'
      <3>1. Requested(t) = 0
        BY Zenon, <2>1 DEF Ending
      <3>2. \A d \in Threads : ~Calls(d, t, "signal")
        <4>. SUFFICES ASSUME NEW d \in Threads, Calls(d, t, "signal")
                      PROVE  FALSE
          BY Zenon
        <4>1. d = c
          BY Zenon, Caller
        <4>. QED BY Zenon, <4>1 DEF Calls
      <3>. QED BY <1>2, <1>3, <1>5, <3>1, <3>2 DEF Ending, Requested
    <2>5. Exact(t)'
      BY Zenon, <1>6, <2>1, SameCounts
    <2>6. Bounded(t)'
      BY Zenon, <1>3, <2>1 DEF Bounded
    <2>. QED BY Zenon, <2>2, <2>3, <2>4, <2>5, <2>6 DEF Sound
  <1>. QED BY Zenon, <1>2, <1>3, <1>4, <1>5, <1>6, <1>7

(* A thread moves on where nothing but its own place is of interest: Main  *)
(* before its calls, or a task that starts its children.                   *)
LEMMA KeepMove ==
    ASSUME TaskInv, NEW c \in Threads, NEW i \in Nat, at' = [at EXCEPT ![c] = At(at[c].pc, i)],
           c \in Tasks => at[c].pc = "start" /\ i > at[c].i, c = Main => at[c].pc = "none",
           UNCHANGED <<state, running, pendingStart, pendingTerm, queue, raised, isOpen, asked>>
    PROVE  TaskInv'
  <1>1. /\ at' \in [Threads -> [pc : Places, i : Nat]] /\ at'[c].pc = at[c].pc /\ at'[c].i = i
        /\ \A d \in Threads : d # c => at'[d] = at[d]
        /\ at[c].pc \in Places /\ at[c].i \in Nat
    <2>1. at[c].pc \in Places /\ at[c].i \in Nat
      BY Zenon DEF TaskInv, TaskTypes
    <2>. QED BY Zenon, <2>1, Moved
  <1>2. \A d \in Threads : at'[d].pc = at[d].pc
    BY Zenon, <1>1
  <1>3. \A u \in Tasks : Gone(u)' = Gone(u)
    BY Zenon, <1>2 DEF Gone, Threads
  <1>4. TaskTypes' /\ EnginesClosed' /\ MainWaits'
    <2>1. Root \in Tasks /\ Root \in Threads /\ Main \in Threads
      BY Zenon, TaskTree DEF Threads
    <2>2. EnginesClosed'
      BY Zenon, <1>2, <2>1 DEF TaskInv, EnginesClosed, Over
    <2>3. MainWaits'
      BY Zenon, <1>2, <1>3, <2>1 DEF TaskInv, MainWaits, Threads
    <2>. QED BY Zenon, <1>1, <2>2, <2>3 DEF TaskInv, TaskTypes, Queues
  <1>5. ASSUME NEW u \in Tasks
        PROVE  Sound(u)'
    <2>1. Exact(u)'
      <3>1. OwedKids(u)' = OwedKids(u)
        BY Zenon, <1>3, Tree DEF OwedKids
      <3>. QED BY Zenon, <3>1, Of, SameCounts
    <2>2. Placed(u) /\ Family(u) /\ Ending(u) /\ Bounded(u) /\ u \in Threads /\ u # Main
      BY Zenon, Of, TaskTree DEF Threads
    <2>3. \A d \in Threads : /\ Calls(d, u, "signal")' = Calls(d, u, "signal")
                             /\ Calls(d, u, "join")' = Calls(d, u, "join")
      BY Zenon, <1>1, <1>2, SameCalls DEF Threads
    <2>4. CASE u # c
      <3>1. Placed(u)' /\ Family(u)' /\ Ending(u)' /\ Bounded(u)'
        BY Zenon, <1>1, <1>3, <2>2, <2>3, <2>4, Elsewhere, Tree
      <3>. QED BY Zenon, <2>1, <3>1 DEF Sound
    <2>5. CASE u = c
      <3>1. at[u].pc = "start" /\ at'[u].pc = "start" /\ at'[u].i = i /\ i > at[u].i /\ at[u].i \in Nat
        BY Zenon, <1>1, <2>5
      <3>2. Placed(u)'
        BY Zenon, <1>2, <2>2 DEF Placed, Over
      <3>3. Family(u)'
        <4>1. \A j \in DOMAIN Kids[u] : Kids[u][j] \in Children(u) /\ j \in Nat
          BY Tree
        <4>. QED BY SMTT(40), <1>3, <2>2, <3>1, <4>1, Tree DEF Family, Over, Stopping, Absent
      <3>4. Ending(u)'
        BY Zenon, <1>2, <2>2, <2>3 DEF Ending, Requested
      <3>5. Bounded(u)'
        <4>1. Cardinality(Engines) \in Nat /\ pendingStart[u] \in Nat
          BY Zenon, TaskTree, FS_CardinalityType, Of
        <4>. QED BY <2>2, <3>1, <4>1 DEF Bounded
      <3>. QED BY Zenon, <2>1, <3>2, <3>3, <3>4, <3>5 DEF Sound
    <2>. QED BY Zenon, <2>4, <2>5
  <1>. QED BY Zenon, <1>4, <1>5 DEF TaskInv

(* mrcp_server_start *)
LEMMA KeepMainStart ==
    ASSUME TaskInv, MainStart
    PROVE  TaskInv'
  <1>1. /\ at[Main].pc = "none" /\ UNCHANGED <<running, pendingStart, pendingTerm, queue, isOpen, asked>>
        /\ Root \in Tasks /\ Main \in Threads /\ Main \notin Tasks /\ Main # Root
        /\ Start(Main, Root, At("started", 0)) \/ StartFails(Main, At("none", 0))
    BY Zenon, TaskTree DEF MainStart, counts, engines, Threads
  <1>2. CASE StartFails(Main, At("none", 0))
    <2>1. at' = [at EXCEPT ![Main] = At(at[Main].pc, 0)] /\ UNCHANGED <<state, raised>> /\ 0 \in Nat
      BY Zenon, <1>1, <1>2 DEF StartFails
    <2>. QED BY Zenon, <1>1, <2>1, KeepMove
  <1>3. CASE Start(Main, Root, At("started", 0))
    <2>. DEFINE next == At("started", 0)
    <2>1. next \in [pc : Places, i : Nat] /\ next.pc = "started"
      BY Zenon DEF At, Places
    <2>2. at[Root].pc = "none" /\ \A p \in Tasks : Root \notin Children(p)
      BY Zenon, <1>1, Tree DEF TaskInv, MainWaits, Gone
    <2>3. Start(Main, Root, next)
      BY Zenon, <1>3
    <2>. HIDE DEF next
    <2>4. /\ state' \in [Tasks -> {"IDLE", "START_REQUESTED", "RUNNING", "TERMINATE_REQUESTED"}]
          /\ raised' \in [Tasks -> BOOLEAN] /\ at' \in [Threads -> [pc : Places, i : Nat]]
          /\ \A u \in Tasks : u # Root => state'[u] = state[u] /\ raised'[u] = raised[u]
          /\ at'[Root].pc = "prerun" /\ at'[Main] = next
          /\ \A d \in Threads : d # Root /\ d # Main => at'[d] = at[d]
          /\ \A u \in Tasks : u # Root => Gone(u)' = Gone(u)
          /\ \A u \in Tasks : u # Main => OwedKids(u)' = OwedKids(u)
          /\ \A u \in Tasks, d \in Threads : /\ Calls(d, u, "signal")' = Calls(d, u, "signal")
                                             /\ Calls(d, u, "join")' = Calls(d, u, "join")
          /\ Sound(Root)'
      <3>1. "none" \notin {"signal", "join"} /\ "started" \notin {"signal", "join"}
        OBVIOUS
      <3>2. pendingStart'[Root] = pendingStart[Root]
        BY Zenon, <1>1
      <3>. QED BY ZenonT(40), <1>1, <2>1, <2>2, <2>3, <3>1, <3>2, Begins
    <2>5. TaskTypes' /\ EnginesClosed' /\ MainWaits'
      <3>1. EnginesClosed'
        BY Zenon, <1>1, <2>2 DEF TaskInv, EnginesClosed, Absent
      <3>2. MainWaits'
        BY Zenon, <1>1, <2>1, <2>4 DEF TaskInv, MainWaits, Threads
      <3>. QED BY Zenon, <1>1, <2>4, <3>1, <3>2 DEF TaskInv, TaskTypes, Queues
    <2>6. ASSUME NEW u \in Tasks, u # Root
          PROVE  Sound(u)'
      <3>1. Exact(u)'
        BY Zenon, <1>1, <2>4, <2>6, Of, SameCounts
      <3>2. u \in Threads /\ u # Main
        BY Zenon, TaskTree DEF Threads
      <3>3. \A k \in Children(u) : k # Root /\ k \in Tasks
        BY Zenon, Tree
      <3>4. Placed(u)' /\ Family(u)' /\ Ending(u)' /\ Bounded(u)'
        BY Zenon, <1>1, <2>4, <2>6, <3>2, <3>3, Elsewhere
      <3>. QED BY Zenon, <3>1, <3>4 DEF Sound
    <2>. QED BY Zenon, <2>4, <2>5, <2>6 DEF TaskInv
  <1>. QED BY Zenon, <1>1, <1>2, <1>3

(* Sums as the counts of what is owed form them, for steps that have no other arithmetic:   *)
(* what is owed by children, by messages and by engines, and one more or one less of each. *)
LEMMA OneMoreIn1 == \A n, s, o \in Nat : \A p, q : p = n + s + o /\ q = p + 1 => q = n + 1 + s + o
  OBVIOUS

(* The sum of two counts is a count. *)
LEMMA SumNat == \A n, s \in Nat : n + s \in Nat
  OBVIOUS

(* q is one less than p, which is not zero. *)
Less(p, q) == p # 0 /\ p - 1 = q

(* One message less in the queue, and the count one less. *)
LEMMA OneLess ==
    /\ \A n, s, o \in Nat : Less(n + (s + 1) + o, n + s + o)
    /\ \A n, s, a, o \in Nat : Less(n + s + (a + (o + 1)), n + s + (a + o))
    /\ \A a, o \in Nat : Less(a + (o + 1), a + o)
  BY DEF Less

(* A count that falls to zero was one. *)
LEMMA OneFromZero == \A p \in Nat : p # 0 => (p # 1 <=> p - 1 # 0)
  OBVIOUS

(* One more is at most one only after none. *)
LEMMA AtMostOne == \A r \in Nat : r + 1 <= 1 => r = 0 /\ r + 1 # 0
  OBVIOUS

(* Nothing more. *)
LEMMA PlusZero == \A n \in Nat : n + 0 = n
  OBVIOUS

(* Nothing before. *)
LEMMA ZeroPlus == \A n \in Nat : 0 + n = n /\ 0 + 0 = 0
  OBVIOUS

(* What the engines owe is within their number. *)
LEMMA WithinEngines == \A n, e, l \in Nat : n <= e => n <= l + e /\ n + 1 <= 1 + e /\ 0 <= e
  OBVIOUS

(* A child that owes becomes a message. *)
LEMMA MovedOne == \A n, s \in Nat : n + 1 + s = n + (s + 1)
  OBVIOUS

(* A count of what is owed follows one more that is owed. *)
LEMMA OneMoreOwed ==
    ASSUME NEW t \in Tasks, Exact(t), NEW k, k \notin OwedKids(t), OwedKids(t)' = OwedKids(t) \cup {k},
           \A sub \in {"START_COMPLETE", "OPEN_ENGINE", "CLOSE_ENGINE"} :
              Count(queue'[t], sub) = Count(queue[t], sub),
           Count(queue[t], "START_COMPLETE") \in Nat,
           OwedEngines(t, "open", "OPEN_ENGINE") \in Nat,
           pendingStart'[t] = pendingStart[t] + 1, pendingTerm'[t] = pendingTerm[t],
           asked \in [Engines -> {"", "open", "close"}], UNCHANGED asked
    PROVE  Exact(t)'
  <1>. DEFINE n == Cardinality(OwedKids(t))
              s == Count(queue[t], "START_COMPLETE")
              o == OwedEngines(t, "open", "OPEN_ENGINE")
  <1>1. n \in Nat /\ Cardinality(OwedKids(t)') = n + 1 /\ s \in Nat /\ o \in Nat
    BY OwedFinite, FS_AddElement
  <1>2. /\ OwedEngines(t, "open", "OPEN_ENGINE")' = o
        /\ OwedEngines(t, "close", "CLOSE_ENGINE")' = OwedEngines(t, "close", "CLOSE_ENGINE")
    BY Zenon DEF OwedEngines, AskedTo
  <1>3. pendingStart[t] = n + s + o /\ pendingTerm[t] = OwedEngines(t, "close", "CLOSE_ENGINE")
    BY Zenon DEF Exact, Owed
  <1>4. Owed(t)' = n + 1 + s
    BY Zenon, <1>1 DEF Owed
  <1>5. pendingStart'[t] = n + 1 + s + o
    <2>. HIDE DEF n, s, o
    <2>1. \A p, q : p = n + s + o /\ q = p + 1 => q = n + 1 + s + o
      BY ZenonT(40), <1>1, OneMoreIn1
    <2>2. pendingStart[t] = n + s + o /\ pendingStart'[t] = pendingStart[t] + 1
      BY Zenon, <1>3
    <2>. QED BY Zenon, <2>1, <2>2
  <1>. QED BY Zenon, <1>2, <1>3, <1>4, <1>5 DEF Exact

(* The numbers in the counts of a task *)
LEMMA Numbers ==
    ASSUME TaskInv, NEW t \in Tasks
    PROVE  /\ \A sub : Count(queue[t], sub) \in Nat
           /\ \A what : Cardinality(AskedTo(what)) \in Nat
           /\ \A what, sub : OwedEngines(t, what, sub) \in Nat
           /\ asked \in [Engines -> {"", "open", "close"}]
           /\ Cardinality(Engines) \in Nat /\ Len(Kids[t]) \in Nat
  <1>1. queue[t] \in Seq(Messages) /\ asked \in [Engines -> {"", "open", "close"}]
    BY Zenon, Of DEF TaskInv, TaskTypes
  <1>2. \A sub : Count(queue[t], sub) \in Nat
    BY Zenon, <1>1, CountNat
  <1>3. \A what : Cardinality(AskedTo(what)) \in Nat
    BY Zenon, <1>1, OwedFinite
  <1>4. \A what, sub : OwedEngines(t, what, sub) \in Nat
    <2>1. \A what, sub : Cardinality(AskedTo(what)) + Count(queue[t], sub) \in Nat
      BY <1>2, <1>3
    <2>2. 0 \in Nat
      OBVIOUS
    <2>. QED BY Zenon, <2>1, <2>2 DEF OwedEngines
  <1>. QED BY Zenon, <1>1, <1>2, <1>3, <1>4, TaskTree, FS_CardinalityType, Tree

(* apt_task_child_start starts a child, which then owes a start-complete. *)
LEMMA KeepStartChild ==
    ASSUME TaskInv, NEW t \in Tasks, StartChild(t)
    PROVE  TaskInv'
  <1>0. PICK i \in Nat : i = at[t].i
    BY Zenon, Of
  <1>1. /\ at[t].pc = "start" /\ i <= Len(Kids[t]) /\ at[t].i = i /\ t \in Threads /\ t # Main
        /\ UNCHANGED <<running, pendingTerm, queue, isOpen, asked>>
    BY Zenon, <1>0, Of DEF StartChild, engines, Threads
  <1>2. Placed(t) /\ Family(t) /\ Ending(t) /\ Bounded(t) /\ Exact(t)
    BY Zenon, Of
  <1>3. i \in 1 .. Len(Kids[t]) /\ DOMAIN Kids[t] = 1 .. Len(Kids[t]) /\ Len(Kids[t]) \in Nat
    BY <1>1, <1>2, Tree DEF Family
  <1>. DEFINE next == At("start", i + 1)
  <1>4. PICK k \in Tasks : k = Kids[t][i]
    BY Zenon, <1>3, Tree
  <1>5. CASE StartFails(t, next) /\ UNCHANGED pendingStart
    <2>1. at' = [at EXCEPT ![t] = At(at[t].pc, i + 1)] /\ UNCHANGED <<state, raised>>
      BY Zenon, <1>1, <1>5 DEF StartFails
    <2>2. i + 1 \in Nat /\ i + 1 > at[t].i
      BY <1>1
    <2>. QED BY Zenon, <1>1, <1>5, <2>1, <2>2, KeepMove
  <1>6. CASE Start(t, k, next) /\ pendingStart' = [pendingStart EXCEPT ![t] = @ + 1]
    <2>1. k \in Tasks /\ k \in Children(t) /\ k # t /\ k # Root /\ \A p \in Tasks : k \in Children(p) => p = t
      <3>1. k \in Children(t) /\ Children(t) \in SUBSET Tasks /\ Root \notin Children(t)
        BY Zenon, <1>3, <1>4, Tree
      <3>. QED BY Zenon, <3>1, NotItsOwn, OneParent
    <2>2. at[k].pc = "none"
      BY <1>1, <1>2, <1>3, <1>4 DEF Family, Gone
    <2>3. next \in [pc : Places, i : Nat] /\ next.pc = "start" /\ next.i = i + 1
      BY <1>1 DEF At, Places
    <2>4. /\ pendingStart' \in [Tasks -> Nat] /\ pendingStart'[t] = pendingStart[t] + 1
          /\ \A u \in Tasks : u # t => pendingStart'[u] = pendingStart[u]
      <3>1. pendingStart \in [Tasks -> Nat] /\ pendingStart' = [pendingStart EXCEPT ![t] = @ + 1]
        BY Zenon, <1>6 DEF TaskInv, TaskTypes
      <3>. QED BY <3>1
    <2>. HIDE DEF next
    <2>5. /\ state' \in [Tasks -> {"IDLE", "START_REQUESTED", "RUNNING", "TERMINATE_REQUESTED"}]
          /\ raised' \in [Tasks -> BOOLEAN] /\ at' \in [Threads -> [pc : Places, i : Nat]]
          /\ \A u \in Tasks : u # k => state'[u] = state[u] /\ raised'[u] = raised[u]
          /\ at'[k].pc = "prerun" /\ at'[t] = next /\ ~raised'[k]
          /\ \A d \in Threads : d # k /\ d # t => at'[d] = at[d]
          /\ \A u \in Tasks : u # k => Gone(u)' = Gone(u)
          /\ \A u \in Tasks : u # t => OwedKids(u)' = OwedKids(u)
          /\ \A u \in Tasks, d \in Threads : /\ Calls(d, u, "signal")' = Calls(d, u, "signal")
                                             /\ Calls(d, u, "join")' = Calls(d, u, "join")
          /\ Sound(k)'
      <3>1. /\ at[t].pc \notin {"signal", "join"} /\ next.pc \notin {"signal", "join"}
            /\ at[t].pc # "none" /\ next.pc # "none"
        BY Zenon, <1>1, <2>3
      <3>2. pendingStart'[k] = pendingStart[k] /\ Start(t, k, next)
        BY Zenon, <1>6, <2>1, <2>4
      <3>. QED BY Zenon, <1>1, <2>1, <2>2, <2>3, <3>1, <3>2, Begins
    <2>6. TaskTypes' /\ EnginesClosed' /\ MainWaits'
      <3>1. Root \in Tasks /\ Main \in Threads /\ Main # k /\ Main # t /\ Root \in Threads
        BY Zenon, <1>1, <2>1, TaskTree DEF Threads
      <3>2. EnginesClosed'
        BY Zenon, <1>1, <2>1, <2>3, <2>5, <3>1 DEF TaskInv, EnginesClosed, Over, Absent, Stopping
      <3>3. MainWaits'
        BY Zenon, <1>1, <2>1, <2>3, <2>5, <3>1 DEF TaskInv, MainWaits, Threads
      <3>. QED BY Zenon, <1>1, <2>4, <2>5, <3>2, <3>3 DEF TaskInv, TaskTypes, Queues
    <2>7. Sound(t)'
      <3>1. Placed(t)'
        BY Zenon, <1>1, <1>2, <2>1, <2>3, <2>4, <2>5 DEF Placed, Over, Stopping, Absent
      <3>2. Family(t)'
        <4>1. \A j \in DOMAIN Kids[t] : Kids[t][j] = k => j = i
          BY Zenon, <1>3, <1>4, TaskTree
        <4>2. \A j \in DOMAIN Kids[t] : Kids[t][j] \in Tasks /\ j \in Nat
          BY <1>3, Tree
        <4>3. \A j \in DOMAIN Kids[t] : j >= i + 1 => Kids[t][j] # k /\ Gone(Kids[t][j])
          BY <1>1, <1>2, <4>1, <4>2 DEF Family
        <4>. QED BY <1>1, <2>3, <2>5, <4>2, <4>3 DEF Family, Over, Stopping, Absent
      <3>3. Ending(t)'
        BY Zenon, <1>1, <1>2, <2>1, <2>3, <2>5 DEF Ending, Requested, Placed, Stopping
      <3>4. Exact(t)'
        <4>1. k \notin OwedKids(t) /\ OwedKids(t)' = OwedKids(t) \cup {k}
          BY SMTT(40), <2>1, <2>2, <2>5, Tree DEF OwedKids, Gone
        <4>. QED BY Zenon, <1>1, <1>2, <2>4, <4>1, OneMoreOwed, Numbers
      <3>5. Bounded(t)'
        <4>1. pendingStart[t] \in Nat
          BY Zenon, Of
        <4>2. /\ pendingStart[t] + 1 <= i + Cardinality(Engines) /\ pendingTerm[t] <= Cardinality(Engines)
              /\ Cardinality(Engines) \in Nat
          BY Zenon, <1>1, <1>2, Numbers DEF Bounded
        <4>3. at'[t].pc = "start" /\ at'[t].i = i + 1
          BY Zenon, <2>3, <2>5
        <4>. QED BY SMTT(40), <1>1, <1>3, <2>4, <4>1, <4>2, <4>3 DEF Bounded
      <3>. QED BY Zenon, <3>1, <3>2, <3>3, <3>4, <3>5 DEF Sound
    <2>8. ASSUME NEW u \in Tasks, u # t, u # k
          PROVE  Sound(u)'
      <3>1. Exact(u)'
        BY Zenon, <1>1, <2>4, <2>5, <2>8, Of, SameCounts
      <3>2. u \in Threads
        BY Zenon DEF Threads
      <3>3. \A c \in Children(u) : c # k /\ c \in Tasks
        BY Zenon, <2>1, <2>8, Tree
      <3>4. Placed(u)' /\ Family(u)' /\ Ending(u)' /\ Bounded(u)'
        BY Zenon, <1>1, <2>4, <2>5, <2>8, <3>2, <3>3, Elsewhere
      <3>. QED BY Zenon, <3>1, <3>4 DEF Sound
    <2>9. \A u \in Tasks : Sound(u)'
      BY Zenon, <2>5, <2>7, <2>8
    <2>. QED BY Zenon, <2>6, <2>9 DEF TaskInv
  <1>. QED BY Zenon, <1>0, <1>4, <1>5, <1>6 DEF StartChild
-----------------------------------------------------------------------------
(* A step of the thread of a task, at work before and after it: what the   *)
(* other tasks see of it                                                   *)
LEMMA Frame ==
    ASSUME TaskInv, NEW t \in Tasks,
           at' \in [Threads -> [pc : Places, i : Nat]], \A d \in Threads : d # t => at'[d] = at[d],
           at[t].pc \notin {"none", "signal", "join"},
           at'[t].pc \notin {"none", "signal", "join", "started"},
           \A u \in Tasks : u # t =>
              /\ state'[u] = state[u] /\ running'[u] = running[u] /\ raised'[u] = raised[u]
              /\ pendingStart'[u] = pendingStart[u] /\ pendingTerm'[u] = pendingTerm[u]
              /\ Count(queue'[u], "TERMINATE_REQUEST") = Count(queue[u], "TERMINATE_REQUEST")
    PROVE  /\ MainWaits'
           /\ \A u \in Tasks : Gone(u)' = Gone(u)
           /\ \A u \in Tasks, d \in Threads : /\ Calls(d, u, "signal")' = Calls(d, u, "signal")
                                              /\ Calls(d, u, "join")' = Calls(d, u, "join")
           /\ \A u \in Tasks : u # t /\ Exact(u)' => Sound(u)'
           /\ t # Root => at'[Root] = at[Root]
  <1>1. t \in Threads /\ t # Main /\ Main \in Threads /\ Root \in Tasks /\ \A u \in Tasks : u \in Threads
    BY Zenon, TaskTree DEF Threads
  <1>2. \A u \in Tasks : Gone(u)' = Gone(u)
    BY Zenon, <1>1 DEF Gone
  <1>3. \A u \in Tasks, d \in Threads : /\ Calls(d, u, "signal")' = Calls(d, u, "signal")
                                        /\ Calls(d, u, "join")' = Calls(d, u, "join")
    BY Zenon, SameCalls
  <1>4. MainWaits'
    BY Zenon, <1>1, <1>2 DEF TaskInv, MainWaits
  <1>5. ASSUME NEW u \in Tasks, u # t, Exact(u)'
        PROVE  Sound(u)'
    <2>1. at'[u] = at[u] /\ \A k \in Children(u) : Gone(k)' = Gone(k)
      BY Zenon, <1>1, <1>2, <1>5, Tree
    <2>2. Placed(u)' /\ Family(u)' /\ Ending(u)' /\ Bounded(u)'
      BY Zenon, <1>3, <1>5, <2>1, Elsewhere
    <2>. QED BY Zenon, <1>5, <2>2 DEF Sound
  <1>. QED BY Zenon, <1>1, <1>2, <1>3, <1>4, <1>5

(* A child that was owed has answered. *)
LEMMA OwedArrives ==
    ASSUME NEW t \in Tasks, Exact(t), NEW k \in OwedKids(t), OwedKids(t)' = OwedKids(t) \ {k},
           Count(queue'[t], "START_COMPLETE") = Count(queue[t], "START_COMPLETE") + 1,
           \A sub \in {"OPEN_ENGINE", "CLOSE_ENGINE"} : Count(queue'[t], sub) = Count(queue[t], sub),
           Count(queue[t], "START_COMPLETE") \in Nat,
           pendingStart'[t] = pendingStart[t], pendingTerm'[t] = pendingTerm[t],
           asked \in [Engines -> {"", "open", "close"}], UNCHANGED asked
    PROVE  Exact(t)'
  <1>. DEFINE n == Cardinality(OwedKids(t)')
              s == Count(queue[t], "START_COMPLETE")
  <1>1. n \in Nat /\ Cardinality(OwedKids(t)) = n + 1 /\ s \in Nat
    <2>1. IsFiniteSet(OwedKids(t))
      BY Zenon, OwedFinite
    <2>2. IsFiniteSet(OwedKids(t)') /\ k \notin OwedKids(t)' /\ OwedKids(t)' \cup {k} = OwedKids(t)
      <3>1. OwedKids(t)' \in SUBSET OwedKids(t) /\ k \notin OwedKids(t)' /\ OwedKids(t)' \cup {k} = OwedKids(t)
        BY Zenon
      <3>. QED BY Zenon, <2>1, <3>1, FS_Subset
    <2>. QED BY Zenon, <2>2, FS_AddElement, FS_CardinalityType
  <1>2. /\ OwedEngines(t, "open", "OPEN_ENGINE")' = OwedEngines(t, "open", "OPEN_ENGINE")
        /\ OwedEngines(t, "close", "CLOSE_ENGINE")' = OwedEngines(t, "close", "CLOSE_ENGINE")
    BY Zenon DEF OwedEngines, AskedTo
  <1>3. Owed(t) = n + 1 + s /\ Owed(t)' = n + (s + 1)
    BY Zenon, <1>1 DEF Owed
  <1>4. Owed(t)' = Owed(t)
    <2>. HIDE DEF n, s
    <2>1. n + 1 + s = n + (s + 1)
      BY Zenon, <1>1, MovedOne
    <2>. QED BY Zenon, <1>3, <2>1
  <1>. QED BY Zenon, <1>2, <1>4 DEF Exact

(* apt_task_start_complete_raise: the parent gets one message, and is owed *)
(* one child less.                                                         *)
LEMMA Raising ==
    ASSUME TaskInv, NEW t \in Tasks, NEW rest \in Seq(Messages), Len(rest) <= Capacity,
           \A i \in DOMAIN rest : Addressed(t, rest[i]), RaiseStartComplete(t, rest),
           ~Gone(t), ~raised[t], \A u \in Tasks : Gone(u)' = Gone(u), UNCHANGED <<pendingTerm, asked>>
    PROVE  /\ raised' \in [Tasks -> BOOLEAN] /\ raised'[t]
           /\ \A u \in Tasks : u # t => raised'[u] = raised[u]
           /\ Queues' /\ queue'[t] = rest /\ OwedKids(t)' = OwedKids(t)
           /\ \A u \in Tasks : u # t =>
                 Count(queue'[u], "TERMINATE_REQUEST") = Count(queue[u], "TERMINATE_REQUEST")
           /\ \A u \in Tasks : u # t /\ pendingStart'[u] = pendingStart[u] => Exact(u)'
  <1>1. /\ raised' \in [Tasks -> BOOLEAN] /\ raised'[t]
        /\ \A u \in Tasks : u # t => raised'[u] = raised[u]
    BY Zenon DEF RaiseStartComplete, TaskInv, TaskTypes
  <1>2. Queues /\ queue \in [Tasks -> Seq(Messages)] /\ asked \in [Engines -> {"", "open", "close"}]
    BY Zenon DEF TaskInv, TaskTypes, Queues
  <1>3. \A u \in Tasks : t \notin Children(u) => OwedKids(u)' = OwedKids(u)
    BY Zenon, <1>1, Tree DEF OwedKids
  <1>4. \A u \in Tasks : t \in Children(u) => t \in OwedKids(u) /\ OwedKids(u)' = OwedKids(u) \ {t}
    BY Zenon, <1>1, Tree DEF OwedKids
  <1>5. OwedKids(t)' = OwedKids(t)
    BY Zenon, <1>3, NotItsOwn
  <1>6. CASE Parents(t) = {}
    <2>1. queue' = [queue EXCEPT ![t] = rest]
      BY Zenon, <1>6 DEF RaiseStartComplete
    <2>2. queue' \in [Tasks -> Seq(Messages)] /\ queue'[t] = rest /\ \A u \in Tasks : u # t => queue'[u] = queue[u]
      BY Zenon, <1>2, <2>1
    <2>3. Queues'
      BY Zenon, <1>2, <2>2 DEF Queues, Addressed
    <2>4. ASSUME NEW u \in Tasks, u # t, pendingStart'[u] = pendingStart[u]
          PROVE  Exact(u)'
      <3>1. OwedKids(u)' = OwedKids(u)
        BY Zenon, <1>3, <1>6 DEF Parents
      <3>. QED BY Zenon, <2>2, <2>4, <3>1, Of, SameCounts
    <2>. QED BY Zenon, <1>1, <1>5, <2>2, <2>3, <2>4
  <1>7. CASE Parents(t) # {}
    <2>. DEFINE m == Message("START_COMPLETE")
    <2>1. PICK p \in Parents(t) :
             Len(queue[p]) < Capacity /\ queue' = [queue EXCEPT ![t] = rest, ![p] = Append(@, m)]
      BY Zenon, <1>7 DEF RaiseStartComplete
    <2>2. p \in Tasks /\ t \in Children(p) /\ p # t
      BY Zenon, NotItsOwn DEF Parents
    <2>3. m \in Messages /\ m.sub = "START_COMPLETE"
      BY Zenon, Fields DEF Subs
    <2>. HIDE DEF m
    <2>4. Addressed(p, m)
      BY Zenon, <2>3 DEF Addressed, EngineSubs
    <2>5. /\ Append(queue[p], m) \in Seq(Messages) /\ Len(Append(queue[p], m)) <= Capacity
          /\ \A i \in DOMAIN Append(queue[p], m) : Addressed(p, Append(queue[p], m)[i])
          /\ \A sub : Count(Append(queue[p], m), sub) = IF m.sub = sub THEN Count(queue[p], sub) + 1
                                                         ELSE Count(queue[p], sub)
      BY Zenon, <2>1, <2>2, <2>3, <2>4, Given
    <2>6. /\ queue' \in [Tasks -> Seq(Messages)] /\ queue'[t] = rest /\ queue'[p] = Append(queue[p], m)
          /\ \A u \in Tasks : u # t /\ u # p => queue'[u] = queue[u]
      BY Zenon, <1>2, <2>1, <2>2, <2>5
    <2>7. Queues'
      BY Zenon, <1>2, <2>5, <2>6 DEF Queues, Addressed
    <2>8. /\ Count(queue'[p], "START_COMPLETE") = Count(queue[p], "START_COMPLETE") + 1
          /\ \A sub : sub # "START_COMPLETE" => Count(queue'[p], sub) = Count(queue[p], sub)
      BY Zenon, <2>3, <2>5, <2>6
    <2>9. ASSUME NEW u \in Tasks, u # t, pendingStart'[u] = pendingStart[u]
          PROVE  Exact(u)'
      <3>1. CASE u = p
        <4>1. Exact(p) /\ Count(queue[p], "START_COMPLETE") \in Nat
          BY Zenon, <2>2, Of, Numbers
        <4>2. /\ "OPEN_ENGINE" # "START_COMPLETE" /\ "CLOSE_ENGINE" # "START_COMPLETE"
              /\ t \in OwedKids(p) /\ OwedKids(p)' = OwedKids(p) \ {t}
              /\ UNCHANGED asked /\ pendingTerm'[p] = pendingTerm[p] /\ pendingStart'[p] = pendingStart[p]
          BY Zenon, <1>4, <2>2, <2>9, <3>1
        <4>3. Exact(p)'
          BY Zenon, <1>2, <2>2, <2>8, <4>1, <4>2, OwedArrives
        <4>. QED BY Zenon, <3>1, <4>3
      <3>2. CASE u # p
        <4>1. OwedKids(u)' = OwedKids(u)
          BY Zenon, <1>3, <2>2, <3>2, OneParent
        <4>. QED BY Zenon, <2>6, <2>9, <3>2, <4>1, Of, SameCounts
      <3>. QED BY Zenon, <3>1, <3>2
    <2>10. \A u \in Tasks : u # t =>
              Count(queue'[u], "TERMINATE_REQUEST") = Count(queue[u], "TERMINATE_REQUEST")
      <3>1. "TERMINATE_REQUEST" # "START_COMPLETE"
        OBVIOUS
      <3>. QED BY Zenon, <2>6, <2>8, <3>1
    <2>. QED BY Zenon, <1>1, <1>5, <2>6, <2>7, <2>9, <2>10
  <1>. QED BY Zenon, <1>6, <1>7

(* The end of apt_task_child_start *)
LEMMA KeepChildrenStarted ==
    ASSUME TaskInv, NEW t \in Tasks, ChildrenStarted(t)
    PROVE  TaskInv'
  <1>1. /\ at[t].pc = "start" /\ at' = [at EXCEPT ![t] = At("loop", 0)]
        /\ UNCHANGED <<state, running, pendingStart, pendingTerm, isOpen, asked>>
        /\ t \in Threads /\ t # Main
    BY Zenon, TaskTree DEF ChildrenStarted, counts, engines, Threads
  <1>2. /\ at' \in [Threads -> [pc : Places, i : Nat]] /\ at'[t].pc = "loop"
        /\ \A d \in Threads : d # t => at'[d] = at[d]
    BY Zenon, <1>1, Moved DEF Places
  <1>3. /\ Placed(t) /\ Ending(t) /\ Bounded(t) /\ Exact(t) /\ state[t] = "RUNNING" /\ ~raised[t]
        /\ running[t] /\ pendingTerm[t] = 0
    BY Zenon, <1>1, Of DEF Placed
  <1>4. \A u \in Tasks : Gone(u)' = Gone(u)
    BY Zenon, <1>1, <1>2 DEF Gone, Threads
  <1>5. /\ raised' \in [Tasks -> BOOLEAN] /\ \A u \in Tasks : u # t => raised'[u] = raised[u]
        /\ raised'[t] => pendingStart[t] = 0
        /\ Queues' /\ \A u \in Tasks : Exact(u)'
        /\ \A u \in Tasks : Count(queue'[u], "TERMINATE_REQUEST") = Count(queue[u], "TERMINATE_REQUEST")
    <2>1. CASE pendingStart[t] = 0
      <3>1. RaiseStartComplete(t, queue[t]) /\ ~Gone(t)
        BY Zenon, <1>1, <2>1 DEF ChildrenStarted, Gone
      <3>2. /\ queue[t] \in Seq(Messages) /\ Len(queue[t]) <= Capacity
            /\ \A i \in DOMAIN queue[t] : Addressed(t, queue[t][i])
        BY Zenon DEF TaskInv, TaskTypes, Queues
      <3>3. /\ raised' \in [Tasks -> BOOLEAN] /\ \A u \in Tasks : u # t => raised'[u] = raised[u]
            /\ Queues' /\ queue'[t] = queue[t] /\ OwedKids(t)' = OwedKids(t)
            /\ \A u \in Tasks : u # t =>
                 Count(queue'[u], "TERMINATE_REQUEST") = Count(queue[u], "TERMINATE_REQUEST")
            /\ \A u \in Tasks : u # t /\ pendingStart'[u] = pendingStart[u] => Exact(u)'
        BY Zenon, <1>1, <1>3, <1>4, <3>1, <3>2, Raising
      <3>4. Exact(t)'
        BY Zenon, <1>1, <1>3, <3>3, SameCounts
      <3>. QED BY Zenon, <1>1, <2>1, <3>3, <3>4
    <2>2. CASE pendingStart[t] # 0
      <3>1. UNCHANGED <<raised, queue>>
        BY Zenon, <2>2 DEF ChildrenStarted
      <3>2. ASSUME NEW u \in Tasks PROVE Exact(u)'
        <4>1. OwedKids(u)' = OwedKids(u)
          BY Zenon, <1>4, <3>1, Tree DEF OwedKids
        <4>. QED BY Zenon, <1>1, <3>1, <4>1, Of, SameCounts
      <3>. QED BY Zenon, <1>3, <3>1, <3>2 DEF TaskInv, TaskTypes, Queues, Addressed
    <2>. QED BY Zenon, <2>1, <2>2
  <1>6. /\ MainWaits' /\ \A u \in Tasks : u # t /\ Exact(u)' => Sound(u)'
        /\ \A u \in Tasks, d \in Threads : /\ Calls(d, u, "signal")' = Calls(d, u, "signal")
                                           /\ Calls(d, u, "join")' = Calls(d, u, "join")
        /\ t # Root => at'[Root] = at[Root]
    <2>1. "start" \notin {"none", "signal", "join"} /\ "loop" \notin {"none", "signal", "join", "started"}
      OBVIOUS
    <2>. QED BY Zenon, <1>1, <1>2, <1>5, <2>1, Frame
  <1>7. TaskTypes' /\ EnginesClosed'
    <2>1. EnginesClosed'
      BY Zenon, <1>1, <1>2, <1>3, <1>6 DEF TaskInv, EnginesClosed, Over, Absent, Stopping
    <2>. QED BY Zenon, <1>1, <1>2, <1>5, <2>1 DEF TaskInv, TaskTypes
  <1>8. Sound(t)'
    <2>1. Placed(t)'
      BY Zenon, <1>1, <1>2, <1>3, <1>5 DEF Placed, Over, Stopping, Absent
    <2>2. Family(t)'
      BY Zenon, <1>1, <1>2, <1>3 DEF Family, Over, Stopping, Absent
    <2>3. Ending(t)'
      BY Zenon, <1>1, <1>3, <1>5, <1>6 DEF Ending, Requested
    <2>4. Bounded(t)'
      BY Zenon, <1>1, <1>2, <1>3 DEF Bounded
    <2>. QED BY Zenon, <1>5, <2>1, <2>2, <2>3, <2>4 DEF Sound
  <1>. QED BY Zenon, <1>5, <1>6, <1>7, <1>8 DEF TaskInv

(* A message that was owed is taken: the count is one less. *)
LEMMA OneLessOwed ==
    ASSUME NEW t \in Tasks, Exact(t), OwedKids(t)' = OwedKids(t), NEW sub \in {"START_COMPLETE", "OPEN_ENGINE"},
           sub = "OPEN_ENGINE" => t = Root,
           Count(queue[t], sub) = Count(queue'[t], sub) + 1, Count(queue'[t], sub) \in Nat,
           \A other : other # sub => Count(queue'[t], other) = Count(queue[t], other),
           \A other : Count(queue[t], other) \in Nat,
           asked \in [Engines -> {"", "open", "close"}], UNCHANGED asked,
           pendingStart[t] \in Nat, pendingTerm'[t] = pendingTerm[t]
    PROVE  pendingStart[t] # 0 /\ (pendingStart'[t] = pendingStart[t] - 1 => Exact(t)')
  <1>. DEFINE n == Cardinality(OwedKids(t))
              s == Count(queue'[t], "START_COMPLETE")
              a == Cardinality(AskedTo("open"))
              o == Count(queue'[t], "OPEN_ENGINE")
  <1>1. n \in Nat /\ a \in Nat /\ Cardinality(OwedKids(t)') = n /\ AskedTo("open")' = AskedTo("open")
    BY Zenon, OwedFinite DEF AskedTo
  <1>2. OwedEngines(t, "close", "CLOSE_ENGINE")' = OwedEngines(t, "close", "CLOSE_ENGINE")
    <2>1. Count(queue'[t], "CLOSE_ENGINE") = Count(queue[t], "CLOSE_ENGINE")
      BY Zenon
    <2>. QED BY Zenon, <2>1 DEF OwedEngines, AskedTo
  <1>3. pendingTerm'[t] = OwedEngines(t, "close", "CLOSE_ENGINE")'
    BY Zenon, <1>2 DEF Exact
  <1>4. CASE sub = "START_COMPLETE"
    <2>. DEFINE e == OwedEngines(t, "open", "OPEN_ENGINE")
    <2>1. s \in Nat /\ Count(queue[t], "START_COMPLETE") = s + 1 /\ o = Count(queue[t], "OPEN_ENGINE") /\ o \in Nat
      BY Zenon, <1>4
    <2>2. e \in Nat
      <3>1. a + o \in Nat /\ 0 \in Nat
        BY Zenon, <1>1, <2>1, SumNat
      <3>. QED BY Zenon, <2>1, <3>1 DEF OwedEngines
    <2>3. pendingStart[t] = n + (s + 1) + e
      BY Zenon, <2>1 DEF Exact, Owed
    <2>4. e' = e
      BY Zenon, <1>1, <2>1 DEF OwedEngines
    <2>5. pendingStart[t] # 0 /\ pendingStart[t] - 1 = n + s + e
      <3>. HIDE DEF n, s, e
      <3>1. Less(n + (s + 1) + e, n + s + e)
        BY Zenon, <1>1, <2>1, <2>2, OneLess
      <3>. QED BY Zenon, <2>3, <3>1 DEF Less
    <2>6. pendingStart'[t] = pendingStart[t] - 1 => pendingStart'[t] = n + s + e
      BY Zenon, <2>5
    <2>. QED BY Zenon, <1>1, <1>3, <2>4, <2>5, <2>6 DEF Exact, Owed
  <1>5. CASE sub = "OPEN_ENGINE"
    <2>1. /\ o \in Nat /\ Count(queue[t], "OPEN_ENGINE") = o + 1 /\ s = Count(queue[t], "START_COMPLETE")
          /\ s \in Nat /\ t = Root
      BY Zenon, <1>5
    <2>2. pendingStart[t] = n + s + (a + (o + 1))
      BY Zenon, <2>1 DEF Exact, Owed, OwedEngines
    <2>3. pendingStart[t] # 0 /\ pendingStart[t] - 1 = n + s + (a + o)
      <3>. HIDE DEF n, s, a, o
      <3>1. Less(n + s + (a + (o + 1)), n + s + (a + o))
        BY Zenon, <1>1, <2>1, OneLess
      <3>. QED BY Zenon, <2>2, <3>1 DEF Less
    <2>4. pendingStart'[t] = pendingStart[t] - 1 => pendingStart'[t] = n + s + (a + o)
      BY Zenon, <2>3
    <2>. QED BY Zenon, <1>1, <1>3, <2>1, <2>3, <2>4 DEF Exact, Owed, OwedEngines
  <1>. QED BY Zenon, <1>4, <1>5

(* apt_task_start_request_remove *)
LEMMA KeepStartRequestRemove ==
    ASSUME TaskInv, NEW t \in Tasks, StartRequestRemove(t)
    PROVE  TaskInv'
  <1>. DEFINE msg == Head(queue[t])
              rest == Tail(queue[t])
  <1>1. /\ at[t].pc = "loop" /\ running[t] /\ queue[t] # <<>> /\ msg.sub \in {"START_COMPLETE", "OPEN_ENGINE"}
        /\ UNCHANGED <<state, running, pendingTerm, at, asked>>
        /\ \A d \in Threads : at'[d] = at[d]
    BY Zenon DEF StartRequestRemove, Next1
  <1>2. /\ Placed(t) /\ Ending(t) /\ Bounded(t) /\ Exact(t) /\ Family(t)
        /\ pendingStart[t] \in Nat /\ t \in Threads /\ at \in [Threads -> [pc : Places, i : Nat]]
        /\ asked \in [Engines -> {"", "open", "close"}] /\ pendingStart \in [Tasks -> Nat]
        /\ isOpen \in [Engines -> BOOLEAN] /\ queue \in [Tasks -> Seq(Messages)]
    BY Zenon, Of DEF TaskInv, TaskTypes, Queues, Threads
  <1>3. /\ rest \in Seq(Messages) /\ Len(rest) <= Capacity /\ \A i \in DOMAIN rest : Addressed(t, rest[i])
        /\ msg \in Messages /\ Addressed(t, msg)
        /\ \A sub : Count(queue[t], sub) = IF msg.sub = sub THEN Count(rest, sub) + 1 ELSE Count(rest, sub)
    BY Zenon, <1>1, Taken
  <1>4. \A sub : Count(rest, sub) \in Nat /\ Count(queue[t], sub) \in Nat
    BY Zenon, <1>2, <1>3, CountNat
  <1>5. msg.sub = "OPEN_ENGINE" => t = Root /\ msg.engine \in Engines
    BY Zenon, <1>3 DEF Addressed, EngineSubs
  <1>6. \A u \in Tasks : Gone(u)' = Gone(u)
    BY Zenon, <1>1 DEF Gone
  <1>. HIDE DEF msg, rest
  <1>7. /\ queue'[t] = rest /\ OwedKids(t)' = OwedKids(t) /\ Queues'
        /\ raised' \in [Tasks -> BOOLEAN] /\ \A u \in Tasks : u # t => raised'[u] = raised[u]
        /\ raised'[t] = raised[t] \/ pendingStart[t] = 1
        /\ \A u \in Tasks : u # t =>
              Count(queue'[u], "TERMINATE_REQUEST") = Count(queue[u], "TERMINATE_REQUEST")
        /\ \A u \in Tasks : u # t /\ pendingStart'[u] = pendingStart[u] => Exact(u)'
    <2>1. CASE pendingStart[t] = 1
      <3>1. RaiseStartComplete(t, rest)
        BY Zenon, <2>1 DEF StartRequestRemove, rest
      <3>2. ~Gone(t) /\ ~raised[t]
        <4>1. 1 # 0 /\ "loop" # "none"
          OBVIOUS
        <4>. QED BY Zenon, <1>1, <1>2, <2>1, <4>1 DEF Gone, Placed
      <3>. QED BY Zenon, <1>1, <1>3, <1>6, <2>1, <3>1, <3>2, Raising
    <2>2. CASE pendingStart[t] # 1
      <3>1. queue' = [queue EXCEPT ![t] = Tail(@)] /\ UNCHANGED raised
        BY Zenon, <2>2 DEF StartRequestRemove
      <3>2. Queues' /\ queue'[t] = rest /\ \A u \in Tasks : u # t => queue'[u] = queue[u]
        <4>1. Queues'
          BY Zenon, <1>1, <3>1, QueueTaken
        <4>. QED BY Zenon, <1>2, <3>1, <4>1 DEF rest
      <3>3. \A u \in Tasks : OwedKids(u)' = OwedKids(u)
        BY Zenon, <1>6, <3>1, Tree DEF OwedKids
      <3>4. ASSUME NEW u \in Tasks, u # t, pendingStart'[u] = pendingStart[u]
            PROVE  Exact(u)'
        BY Zenon, <1>1, <3>2, <3>3, <3>4, Of, SameCounts
      <3>5. raised \in [Tasks -> BOOLEAN]
        BY Zenon DEF TaskInv, TaskTypes
      <3>. QED BY Zenon, <3>1, <3>2, <3>3, <3>4, <3>5
    <2>. QED BY Zenon, <2>1, <2>2
  <1>8. pendingStart[t] # 0 /\ (pendingStart'[t] = pendingStart[t] - 1 => Exact(t)')
    <2>1. /\ Count(queue[t], msg.sub) = Count(queue'[t], msg.sub) + 1 /\ Count(queue'[t], msg.sub) \in Nat
          /\ \A other : other # msg.sub => Count(queue'[t], other) = Count(queue[t], other)
      BY Zenon, <1>3, <1>4, <1>7
    <2>. QED BY Zenon, <1>1, <1>2, <1>4, <1>5, <1>7, <2>1, OneLessOwed
  <1>9. /\ pendingStart' \in [Tasks -> Nat] /\ pendingStart'[t] = pendingStart[t] - 1
        /\ \A u \in Tasks : u # t => pendingStart'[u] = pendingStart[u]
    <2>1. pendingStart' = [pendingStart EXCEPT ![t] = IF @ = 0 THEN 0 ELSE @ - 1]
      BY Zenon DEF StartRequestRemove
    <2>2. pendingStart[t] \in Nat /\ pendingStart[t] # 0 /\ pendingStart \in [Tasks -> Nat]
      BY Zenon, <1>2, <1>8
    <2>3. pendingStart[t] - 1 \in Nat
      BY <2>2
    <2>. QED BY Zenon, <2>1, <2>2, <2>3
  <1>10. state[t] = "RUNNING" /\ ~raised[t] /\ pendingTerm[t] = 0
    BY Zenon, <1>1, <1>2, <1>8, Of DEF Placed, Over
  <1>11. /\ MainWaits' /\ \A u \in Tasks : u # t /\ Exact(u)' => Sound(u)'
         /\ \A u \in Tasks, d \in Threads : /\ Calls(d, u, "signal")' = Calls(d, u, "signal")
                                            /\ Calls(d, u, "join")' = Calls(d, u, "join")
    <2>1. "loop" \notin {"none", "signal", "join", "started"} /\ "loop" \notin {"none", "signal", "join"}
      OBVIOUS
    <2>. QED BY Zenon, <1>1, <1>2, <1>7, <1>9, <2>1, Frame
  <1>12. isOpen' \in [Engines -> BOOLEAN] /\ (t # Root => UNCHANGED isOpen)
    <2>1. /\ msg.sub = "OPEN_ENGINE" => isOpen' = [isOpen EXCEPT ![msg.engine] = msg.status]
          /\ msg.sub # "OPEN_ENGINE" => isOpen' = isOpen
      BY Zenon DEF StartRequestRemove, msg
    <2>2. msg.status \in BOOLEAN
      BY Zenon, <1>3 DEF Messages
    <2>. QED BY Zenon, <1>2, <1>5, <2>1, <2>2
  <1>13. TaskTypes' /\ EnginesClosed'
    <2>1. EnginesClosed'
      BY Zenon, <1>1, <1>10, <1>12 DEF TaskInv, EnginesClosed, Over, Absent, Stopping
    <2>. QED BY Zenon, <1>1, <1>7, <1>9, <1>12, <2>1 DEF TaskInv, TaskTypes
  <1>14. Sound(t)'
    <2>0. 1 - 1 = 0
      OBVIOUS
    <2>1. Placed(t)'
      <3>1. /\ at'[t].pc = "loop" /\ running'[t] /\ state'[t] = "RUNNING" /\ pendingTerm'[t] = 0
            /\ raised'[t] => pendingStart'[t] = 0
        BY Zenon, <1>1, <1>7, <1>9, <1>10, <2>0
      <3>. QED BY Zenon, <3>1 DEF Placed, Over, Stopping, Absent
    <2>2. Family(t)'
      BY Zenon, <1>1, <1>10 DEF Family, Over, Stopping, Absent
    <2>3. Ending(t)'
      <3>1. Requested(t)' = Requested(t)
        BY Zenon, <1>1, <1>3, <1>7 DEF Requested
      <3>. QED BY Zenon, <1>1, <1>2, <1>10, <1>11, <3>1 DEF Ending
    <2>4. Bounded(t)'
      <3>1. /\ at'[t].pc = "loop" /\ pendingTerm'[t] = pendingTerm[t] /\ Bounded(t)
            /\ pendingStart'[t] = pendingStart[t] - 1 /\ pendingStart[t] \in Nat
            /\ Cardinality(Engines) \in Nat /\ Len(Kids[t]) \in Nat
        BY Zenon, <1>1, <1>2, <1>9, Numbers
      <3>. QED BY <3>1 DEF Bounded
    <2>. QED BY Zenon, <1>8, <1>9, <2>1, <2>2, <2>3, <2>4 DEF Sound
  <1>15. \A u \in Tasks : u # t => Exact(u)'
    BY Zenon, <1>7, <1>9
  <1>. QED BY Zenon, <1>11, <1>13, <1>14, <1>15 DEF TaskInv
-----------------------------------------------------------------------------
(* Engines do not count for a task other than the server. *)
LEMMA NoEngines ==
    ASSUME NEW u \in Tasks, u # Root, Exact(u), OwedKids(u)' = OwedKids(u),
           Count(queue'[u], "START_COMPLETE") = Count(queue[u], "START_COMPLETE"),
           pendingStart'[u] = pendingStart[u], pendingTerm'[u] = pendingTerm[u]
    PROVE  Exact(u)'
  BY Zenon DEF Exact, Owed, OwedEngines

(* apt_task_terminate_request_remove: only the server gets here, and with  *)
(* nothing left to close it ends.                                          *)
LEMMA KeepTerminateRequestRemove ==
    ASSUME TaskInv, NEW t \in Tasks, TerminateRequestRemove(t)
    PROVE  TaskInv'
  <1>. DEFINE msg == Head(queue[t])
  <1>1. /\ at[t].pc = "loop" /\ running[t] /\ queue[t] # <<>> /\ msg.sub = "CLOSE_ENGINE"
        /\ queue' = [queue EXCEPT ![t] = Tail(@)] /\ UNCHANGED <<state, pendingStart, at, raised, asked>>
        /\ \A d \in Threads : at'[d] = at[d]
    BY Zenon DEF TerminateRequestRemove, Next1
  <1>2. /\ Placed(t) /\ Ending(t) /\ Bounded(t) /\ Exact(t) /\ Family(t)
        /\ pendingTerm[t] \in Nat /\ t \in Threads /\ at \in [Threads -> [pc : Places, i : Nat]]
        /\ asked \in [Engines -> {"", "open", "close"}] /\ pendingTerm \in [Tasks -> Nat]
        /\ isOpen \in [Engines -> BOOLEAN] /\ running \in [Tasks -> BOOLEAN]
    BY Zenon, Of DEF TaskInv, TaskTypes, Threads
  <1>3. /\ Queues' /\ \A u \in Tasks : \A sub : u # t \/ sub # "CLOSE_ENGINE" =>
                                        Count(queue'[u], sub) = Count(queue[u], sub)
        /\ Count(queue[t], "CLOSE_ENGINE") = Count(queue'[t], "CLOSE_ENGINE") + 1
        /\ Count(queue'[t], "CLOSE_ENGINE") \in Nat
    BY ZenonT(40), <1>1, QueueTaken
  <1>4. t = Root /\ msg.engine \in Engines
    <2>1. Addressed(t, msg)
      BY Zenon, <1>1, Taken
    <2>. QED BY Zenon, <1>1, <2>1 DEF Addressed, EngineSubs
  <1>. HIDE DEF msg
  <1>5. \A u \in Tasks : Gone(u)' = Gone(u) /\ OwedKids(u)' = OwedKids(u)
    BY Zenon, <1>1 DEF Gone, OwedKids
  <1>. DEFINE a == Cardinality(AskedTo("close"))
              o == Count(queue'[t], "CLOSE_ENGINE")
  <1>6. a \in Nat /\ o \in Nat /\ pendingTerm[t] = a + (o + 1) /\ AskedTo("close")' = AskedTo("close")
    BY Zenon, <1>1, <1>2, <1>3, <1>4, OwedFinite DEF Exact, OwedEngines, AskedTo
  <1>7. pendingTerm[t] # 0 /\ pendingTerm[t] - 1 = a + o
    <2>. HIDE DEF a, o
    <2>1. Less(a + (o + 1), a + o)
      BY Zenon, <1>6, OneLess
    <2>. QED BY Zenon, <1>6, <2>1 DEF Less
  <1>8. /\ pendingTerm' \in [Tasks -> Nat] /\ pendingTerm'[t] = pendingTerm[t] - 1
        /\ \A u \in Tasks : u # t => pendingTerm'[u] = pendingTerm[u]
    <2>1. pendingTerm' = [pendingTerm EXCEPT ![t] = IF @ = 0 THEN 0 ELSE @ - 1]
      BY Zenon DEF TerminateRequestRemove
    <2>2. pendingTerm[t] \in Nat /\ pendingTerm[t] # 0 /\ pendingTerm \in [Tasks -> Nat]
      BY Zenon, <1>2, <1>7
    <2>3. pendingTerm[t] - 1 \in Nat
      BY <2>2
    <2>. QED BY Zenon, <2>1, <2>2, <2>3
  <1>9. /\ running' \in [Tasks -> BOOLEAN] /\ running'[t] = (pendingTerm[t] # 1)
        /\ \A u \in Tasks : u # t => running'[u] = running[u]
    <2>1. running' = [running EXCEPT ![t] = pendingTerm[t] # 1] /\ running \in [Tasks -> BOOLEAN]
      BY Zenon, <1>2 DEF TerminateRequestRemove
    <2>. QED BY Zenon, <2>1
  <1>10. isOpen' \in [Engines -> BOOLEAN] /\ \A e \in Engines : isOpen'[e] => isOpen[e]
    <2>1. isOpen' = [isOpen EXCEPT ![msg.engine] = FALSE] /\ isOpen \in [Engines -> BOOLEAN]
      BY Zenon, <1>2 DEF TerminateRequestRemove, msg
    <2>. QED BY Zenon, <1>4, <2>1
  <1>11. Over(t) /\ state[t] = "TERMINATE_REQUESTED"
    BY Zenon, <1>1, <1>2, <1>7 DEF Over, Placed
  <1>12. running'[t] <=> pendingTerm'[t] # 0
    <2>1. \A p \in Nat : p # 0 => (p # 1 <=> p - 1 # 0)
      BY Zenon, OneFromZero
    <2>. QED BY Zenon, <1>2, <1>7, <1>8, <1>9, <2>1
  <1>13. Exact(t)' /\ \A u \in Tasks : u # t => Exact(u)'
    <2>1. Exact(t)'
      <3>1. pendingTerm'[t] = OwedEngines(t, "close", "CLOSE_ENGINE")'
        BY Zenon, <1>4, <1>6, <1>7, <1>8 DEF OwedEngines
      <3>2. pendingStart'[t] = Owed(t)' + OwedEngines(t, "open", "OPEN_ENGINE")'
        <4>1. /\ Count(queue'[t], "START_COMPLETE") = Count(queue[t], "START_COMPLETE")
              /\ Count(queue'[t], "OPEN_ENGINE") = Count(queue[t], "OPEN_ENGINE")
          BY Zenon, <1>3
        <4>. QED BY Zenon, <1>1, <1>2, <1>5, <4>1 DEF Exact, Owed, OwedEngines, AskedTo
      <3>. QED BY Zenon, <3>1, <3>2 DEF Exact
    <2>. QED BY Zenon, <1>1, <1>3, <1>4, <1>5, <1>8, <2>1, NoEngines, Of
  <1>14. /\ MainWaits' /\ \A u \in Tasks : u # t /\ Exact(u)' => Sound(u)'
         /\ \A u \in Tasks, d \in Threads : /\ Calls(d, u, "signal")' = Calls(d, u, "signal")
                                            /\ Calls(d, u, "join")' = Calls(d, u, "join")
    <2>1. "loop" \notin {"none", "signal", "join", "started"} /\ "loop" \notin {"none", "signal", "join"}
      OBVIOUS
    <2>2. \A u \in Tasks : u # t =>
            /\ state'[u] = state[u] /\ running'[u] = running[u] /\ raised'[u] = raised[u]
            /\ pendingStart'[u] = pendingStart[u] /\ pendingTerm'[u] = pendingTerm[u]
            /\ Count(queue'[u], "TERMINATE_REQUEST") = Count(queue[u], "TERMINATE_REQUEST")
      BY Zenon, <1>1, <1>3, <1>8, <1>9
    <2>3. /\ at' \in [Threads -> [pc : Places, i : Nat]] /\ \A d \in Threads : d # t => at'[d] = at[d]
          /\ at[t].pc = "loop" /\ at'[t].pc = "loop"
      BY Zenon, <1>1, <1>2
    <2>. QED BY Zenon, <2>1, <2>2, <2>3, Frame
  <1>15. TaskTypes' /\ EnginesClosed'
    <2>1. EnginesClosed'
      BY Zenon, <1>1, <1>4, <1>10, <1>11 DEF TaskInv, EnginesClosed
    <2>2. UNCHANGED <<state, pendingStart, at, raised, asked>>
      BY Zenon, <1>1
    <2>. QED BY <1>3, <1>8, <1>9, <1>10, <2>1, <2>2 DEF TaskInv, TaskTypes
  <1>16. Sound(t)'
    <2>0. /\ at'[t].pc = "loop" /\ state'[t] = "TERMINATE_REQUESTED" /\ raised'[t] = raised[t]
          /\ pendingStart'[t] = pendingStart[t] /\ at[t].pc = "loop"
      BY Zenon, <1>1, <1>11
    <2>1. Placed(t)'
      BY Zenon, <1>2, <1>11, <1>12, <2>0 DEF Placed, Over, Stopping, Absent
    <2>2. Family(t)'
      <3>1. \A c \in Children(t) : Gone(c)'
        BY Zenon, <1>2, <1>5, <1>11, Tree DEF Family
      <3>. QED BY Zenon, <2>0, <3>1 DEF Family, Stopping, Absent
    <2>3. Ending(t)'
      <3>1. Requested(t) = 0 /\ \A d \in Threads : ~Calls(d, t, "signal")
        BY Zenon, <1>2, <1>7 DEF Ending
      <3>2. Requested(t)' = 0
        BY Zenon, <1>3, <3>1 DEF Requested
      <3>. QED BY Zenon, <1>2, <1>11, <1>14, <2>0, <3>1, <3>2 DEF Ending
    <2>4. Bounded(t)'
      <3>1. pendingTerm'[t] = pendingTerm[t] - 1 /\ pendingTerm[t] \in Nat /\ Cardinality(Engines) \in Nat /\ Bounded(t)
        BY Zenon, <1>2, <1>8, Numbers
      <3>. QED BY <2>0, <3>1 DEF Bounded
    <2>. QED BY Zenon, <1>13, <2>1, <2>2, <2>3, <2>4 DEF Sound
  <1>. QED BY Zenon, <1>13, <1>14, <1>15, <1>16 DEF TaskInv

(* An engine answers: what the server is owed is now in its queue. *)
LEMMA KeepEngineAnswer ==
    ASSUME TaskInv, NEW e \in Engines, EngineAnswer(e)
    PROVE  TaskInv'
  <1>1. /\ asked[e] # "" /\ asked' = [asked EXCEPT ![e] = ""] /\ Root \in Tasks
        /\ UNCHANGED <<state, running, pendingStart, pendingTerm, at, raised, isOpen>>
        /\ asked \in [Engines -> {"", "open", "close"}] /\ queue \in [Tasks -> Seq(Messages)]
    BY Zenon, TaskTree DEF EngineAnswer, counts, TaskInv, TaskTypes, Queues
  <1>2. PICK what \in {"open", "close"} : what = asked[e]
    BY Zenon, <1>1
  <1>. DEFINE sub == IF what = "open" THEN "OPEN_ENGINE" ELSE "CLOSE_ENGINE"
  <1>3. PICK status \in BOOLEAN : Signal(Root, [sub |-> sub, engine |-> e, status |-> status])
    BY Zenon, <1>2 DEF EngineAnswer
  <1>. DEFINE m == [sub |-> sub, engine |-> e, status |-> status]
  <1>4. /\ Queues' /\ \A u \in Tasks : \A other : u # Root \/ other # sub =>
                                         Count(queue'[u], other) = Count(queue[u], other)
        /\ Count(queue'[Root], sub) = Count(queue[Root], sub) + 1 /\ Count(queue[Root], sub) \in Nat
    <2>1. m \in Messages /\ m.sub = sub /\ m.engine = e
      BY Zenon DEF Messages, Subs, EngineSubs
    <2>2. Addressed(Root, m)
      BY Zenon, <2>1 DEF Addressed
    <2>3. Signal(Root, m)
      BY Zenon, <1>3
    <2>. HIDE DEF m, sub
    <2>. QED BY ZenonT(40), <1>1, <2>1, <2>2, <2>3, QueueGiven
  <1>5. /\ asked' \in [Engines -> {"", "open", "close"}] /\ \A f \in Engines : asked'[f] \in {"", asked[f]}
        /\ AskedTo(what)' = AskedTo(what) \ {e} /\ e \in AskedTo(what)
        /\ \A other \in {"open", "close"} : other # what => AskedTo(other)' = AskedTo(other)
    BY Zenon, <1>1, <1>2 DEF AskedTo
  <1>6. \A u \in Tasks : Gone(u)' = Gone(u) /\ OwedKids(u)' = OwedKids(u)
    BY Zenon, <1>1 DEF Gone, OwedKids
  <1>7. Cardinality(AskedTo(what)') + Count(queue'[Root], sub) = Cardinality(AskedTo(what)) + Count(queue[Root], sub)
    <2>. DEFINE a == Cardinality(AskedTo(what)')
                o == Count(queue[Root], sub)
    <2>1. a \in Nat /\ Cardinality(AskedTo(what)) = a + 1
      <3>1. IsFiniteSet(AskedTo(what))
        BY Zenon, <1>1, OwedFinite
      <3>2. /\ AskedTo(what)' \in SUBSET AskedTo(what) /\ e \notin AskedTo(what)'
            /\ AskedTo(what)' \cup {e} = AskedTo(what)
        BY Zenon, <1>5
      <3>3. IsFiniteSet(AskedTo(what)')
        BY Zenon, <3>1, <3>2, FS_Subset
      <3>. QED BY Zenon, <3>2, <3>3, FS_AddElement, FS_CardinalityType
    <2>2. o \in Nat /\ Count(queue'[Root], sub) = o + 1
      BY Zenon, <1>4
    <2>. HIDE DEF a, o
    <2>3. a + 1 + o = a + (o + 1)
      BY Zenon, <2>1, <2>2, MovedOne
    <2>. QED BY Zenon, <2>1, <2>2, <2>3 DEF a, o
  <1>8. /\ OwedEngines(Root, "open", "OPEN_ENGINE")' = OwedEngines(Root, "open", "OPEN_ENGINE")
        /\ OwedEngines(Root, "close", "CLOSE_ENGINE")' = OwedEngines(Root, "close", "CLOSE_ENGINE")
    <2>1. CASE what = "open"
      <3>1. sub = "OPEN_ENGINE" /\ "CLOSE_ENGINE" # sub /\ "close" # what
        BY Zenon, <2>1
      <3>2. AskedTo("close")' = AskedTo("close") /\ Count(queue'[Root], "CLOSE_ENGINE") = Count(queue[Root], "CLOSE_ENGINE")
        BY Zenon, <1>1, <1>4, <1>5, <3>1
      <3>. QED BY Zenon, <1>7, <2>1, <3>1, <3>2 DEF OwedEngines
    <2>2. CASE what = "close"
      <3>1. sub = "CLOSE_ENGINE" /\ "OPEN_ENGINE" # sub /\ "open" # what
        BY Zenon, <2>2
      <3>2. AskedTo("open")' = AskedTo("open") /\ Count(queue'[Root], "OPEN_ENGINE") = Count(queue[Root], "OPEN_ENGINE")
        BY Zenon, <1>1, <1>4, <1>5, <3>1
      <3>. QED BY Zenon, <1>7, <2>2, <3>1, <3>2 DEF OwedEngines
    <2>. QED BY Zenon, <2>1, <2>2
  <1>9. \A u \in Tasks : /\ Count(queue'[u], "START_COMPLETE") = Count(queue[u], "START_COMPLETE")
                         /\ Count(queue'[u], "TERMINATE_REQUEST") = Count(queue[u], "TERMINATE_REQUEST")
    <2>1. "START_COMPLETE" # sub /\ "TERMINATE_REQUEST" # sub
      OBVIOUS
    <2>. HIDE DEF sub
    <2>. QED BY Zenon, <1>4, <2>1
  <1>10. ASSUME NEW u \in Tasks
         PROVE  Sound(u)'
    <2>1. Exact(u)'
      <3>1. CASE u = Root
        BY Zenon, <1>1, <1>6, <1>8, <1>9, <3>1, Of DEF Exact, Owed
      <3>2. CASE u # Root
        BY Zenon, <1>1, <1>6, <1>9, <3>2, Of, NoEngines
      <3>. QED BY Zenon, <3>1, <3>2
    <2>2. \A c \in Threads : /\ Calls(c, u, "signal")' = Calls(c, u, "signal")
                             /\ Calls(c, u, "join")' = Calls(c, u, "join")
      BY Zenon, <1>1 DEF Calls
    <2>3. Placed(u)' /\ Family(u)' /\ Ending(u)' /\ Bounded(u)'
      BY Zenon, <1>1, <1>6, <1>9, <2>2, Elsewhere, Tree
    <2>. QED BY Zenon, <2>1, <2>3 DEF Sound
  <1>11. TaskTypes' /\ EnginesClosed' /\ MainWaits'
    <2>1. EnginesClosed'
      BY Zenon, <1>1, <1>5 DEF TaskInv, EnginesClosed, Over
    <2>2. MainWaits'
      BY Zenon, <1>1, <1>6 DEF TaskInv, MainWaits
    <2>. QED BY Zenon, <1>1, <1>4, <1>5, <2>1, <2>2 DEF TaskInv, TaskTypes
  <1>. QED BY Zenon, <1>10, <1>11 DEF TaskInv

(* TERMINATE_REQUEST: the server closes its engines, which all answered    *)
(* when it was started.                                                    *)
LEMMA KeepTerminateRequest ==
    ASSUME TaskInv, NEW t \in Tasks, TerminateRequest(t)
    PROVE  TaskInv'
  <1>1. /\ at[t].pc = "loop" /\ running[t] /\ queue[t] # <<>> /\ Head(queue[t]).sub = "TERMINATE_REQUEST"
        /\ queue' = [queue EXCEPT ![t] = Tail(@)] /\ at' = [at EXCEPT ![t] = At("terminate", 1)]
        /\ UNCHANGED <<state, running, pendingStart, raised>>
    BY Zenon DEF TerminateRequest, Next1
  <1>2. /\ Placed(t) /\ Ending(t) /\ Bounded(t) /\ Exact(t) /\ t \in Threads
        /\ asked \in [Engines -> {"", "open", "close"}] /\ pendingTerm \in [Tasks -> Nat]
        /\ isOpen \in [Engines -> BOOLEAN] /\ IsFiniteSet(Engines)
    BY Zenon, Of, TaskTree DEF TaskInv, TaskTypes, Threads
  <1>3. /\ Queues' /\ \A u \in Tasks : \A sub : u # t \/ sub # "TERMINATE_REQUEST" =>
                                        Count(queue'[u], sub) = Count(queue[u], sub)
        /\ Requested(t) = Requested(t)' + 1 /\ Requested(t)' \in Nat
    BY ZenonT(40), <1>1, QueueTaken DEF Requested
  <1>4. Requested(t)' = 0 /\ Requested(t) # 0
    <2>1. Requested(t) <= 1
      BY Zenon, <1>2 DEF Ending
    <2>. DEFINE r == Requested(t)'
    <2>2. r \in Nat /\ r + 1 <= 1 /\ Requested(t) = r + 1
      BY Zenon, <1>3, <2>1
    <2>3. r = 0 /\ r + 1 # 0
      <3>. HIDE DEF r
      <3>. QED BY Zenon, <2>2, AtMostOne
    <2>. QED BY Zenon, <2>2, <2>3
  <1>5. state[t] = "TERMINATE_REQUESTED" /\ pendingTerm[t] = 0 /\ raised[t] /\ pendingStart[t] = 0
    BY Zenon, <1>2, <1>4 DEF Ending, Placed
  <1>6. \A d \in Threads : ~Calls(d, t, "signal")
    BY Zenon, <1>2, <1>4 DEF Ending
  <1>7. /\ at' \in [Threads -> [pc : Places, i : Nat]] /\ at'[t].pc = "terminate" /\ at'[t].i = 1
        /\ \A d \in Threads : d # t => at'[d] = at[d]
    <2>1. "terminate" \in Places /\ 1 \in Nat
      BY Zenon DEF Places
    <2>. QED BY Zenon, <1>1, <1>2, <2>1, Moved
  <1>8. /\ isOpen' \in [Engines -> BOOLEAN] /\ asked' \in [Engines -> {"", "open", "close"}]
        /\ \A e \in Engines : /\ isOpen'[e] = (isOpen[e] /\ e \notin Closing(t))
                              /\ asked'[e] = IF e \in Closing(t) THEN "close" ELSE asked[e]
    <2>1. /\ isOpen' = [e \in Engines |-> isOpen[e] /\ e \notin Closing(t)]
          /\ asked' = [e \in Engines |-> IF e \in Closing(t) THEN "close" ELSE asked[e]]
      BY Zenon DEF TerminateRequest
    <2>. QED BY Zenon, <1>2, <2>1
  <1>9. /\ Closing(t) \in SUBSET Engines /\ (t # Root => Closing(t) = {})
        /\ t = Root => Closing(t) = {e \in Engines : isOpen[e]}
    BY Zenon DEF Closing
  <1>10. /\ Cardinality(Closing(t)) \in Nat /\ Cardinality(Closing(t)) <= Cardinality(Engines)
         /\ (t # Root => Cardinality(Closing(t)) = 0)
    BY Zenon, <1>2, <1>9, FS_Subset, FS_CardinalityType, FS_EmptySet
  <1>11. /\ pendingTerm' \in [Tasks -> Nat] /\ pendingTerm'[t] = Cardinality(Closing(t))
         /\ \A u \in Tasks : u # t => pendingTerm'[u] = pendingTerm[u]
    <2>1. pendingTerm' = [pendingTerm EXCEPT ![t] = Cardinality(Closing(t))]
      BY Zenon DEF TerminateRequest
    <2>. QED BY Zenon, <1>2, <1>10, <2>1
  <1>12. t # Root => \A e \in Engines : isOpen'[e] = isOpen[e] /\ asked'[e] = asked[e]
    BY <1>2, <1>8, <1>9
  <1>13. t = Root => /\ AskedTo("open") = {} /\ AskedTo("open")' = {} /\ AskedTo("close")' = Closing(t)
                     /\ Count(queue[t], "CLOSE_ENGINE") = 0 /\ \A e \in Engines : ~isOpen'[e]
    <2>. SUFFICES ASSUME t = Root
                  PROVE  /\ AskedTo("open") = {} /\ AskedTo("open")' = {} /\ AskedTo("close")' = Closing(t)
                         /\ Count(queue[t], "CLOSE_ENGINE") = 0 /\ \A e \in Engines : ~isOpen'[e]
      BY Zenon
    <2>1. AskedTo("open") = {} /\ AskedTo("close") = {} /\ Count(queue[t], "CLOSE_ENGINE") = 0
      BY Zenon, <1>5, NothingOwed, NothingClosing
    <2>2. AskedTo("open")' = {}
      BY Zenon, <1>8, <2>1 DEF AskedTo
    <2>3. AskedTo("close")' = Closing(t)
      BY Zenon, <1>8, <1>9, <2>1 DEF AskedTo
    <2>. QED BY Zenon, <1>8, <1>9, <2>1, <2>2, <2>3
  <1>14. \A u \in Tasks : OwedKids(u)' = OwedKids(u)
    <2>1. \A u \in Tasks : Gone(u)' = Gone(u)
      BY Zenon, <1>1, <1>7 DEF Gone, Threads
    <2>. QED BY Zenon, <1>1, <2>1, Tree DEF OwedKids
  <1>15. \A u \in Tasks : /\ Count(queue'[u], "START_COMPLETE") = Count(queue[u], "START_COMPLETE")
                          /\ Count(queue'[u], "OPEN_ENGINE") = Count(queue[u], "OPEN_ENGINE")
                          /\ Count(queue'[u], "CLOSE_ENGINE") = Count(queue[u], "CLOSE_ENGINE")
    <2>1. /\ "START_COMPLETE" # "TERMINATE_REQUEST" /\ "OPEN_ENGINE" # "TERMINATE_REQUEST"
          /\ "CLOSE_ENGINE" # "TERMINATE_REQUEST"
      OBVIOUS
    <2>. QED BY Zenon, <1>3, <2>1
  <1>16. Exact(t)' /\ \A u \in Tasks : u # t => Exact(u)'
    <2>1. pendingStart'[t] = Owed(t)' + OwedEngines(t, "open", "OPEN_ENGINE")'
      <3>1. OwedEngines(t, "open", "OPEN_ENGINE")' = OwedEngines(t, "open", "OPEN_ENGINE")
        BY Zenon, <1>13, <1>15 DEF OwedEngines
      <3>2. Owed(t)' = Owed(t)
        BY Zenon, <1>14, <1>15 DEF Owed
      <3>. QED BY Zenon, <1>1, <1>2, <3>1, <3>2 DEF Exact
    <2>2. pendingTerm'[t] = OwedEngines(t, "close", "CLOSE_ENGINE")'
      <3>1. CASE t = Root
        <4>1. OwedEngines(t, "close", "CLOSE_ENGINE")' = Cardinality(Closing(t)) + 0
          BY Zenon, <1>13, <1>15, <3>1 DEF OwedEngines
        <4>2. \A n \in Nat : n + 0 = n
          BY Zenon, PlusZero
        <4>. QED BY Zenon, <1>10, <1>11, <4>1, <4>2
      <3>2. CASE t # Root
        BY Zenon, <1>10, <1>11, <3>2 DEF OwedEngines
      <3>. QED BY Zenon, <3>1, <3>2
    <2>3. ASSUME NEW u \in Tasks, u # t
          PROVE  Exact(u)'
      <3>1. Exact(u) /\ pendingStart'[u] = pendingStart[u] /\ pendingTerm'[u] = pendingTerm[u]
        BY Zenon, <1>1, <1>11, <2>3, Of
      <3>2. CASE u # Root
        BY Zenon, <1>14, <1>15, <3>1, <3>2, NoEngines
      <3>3. CASE u = Root
        <4>1. AskedTo("open")' = AskedTo("open") /\ AskedTo("close")' = AskedTo("close")
          BY Zenon, <1>12, <2>3, <3>3 DEF AskedTo
        <4>. QED BY Zenon, <1>14, <1>15, <3>1, <4>1 DEF Exact, Owed, OwedEngines
      <3>. QED BY Zenon, <3>2, <3>3
    <2>. QED BY Zenon, <2>1, <2>2, <2>3 DEF Exact
  <1>17. /\ MainWaits' /\ \A u \in Tasks : u # t /\ Exact(u)' => Sound(u)'
         /\ \A u \in Tasks, d \in Threads : /\ Calls(d, u, "signal")' = Calls(d, u, "signal")
                                            /\ Calls(d, u, "join")' = Calls(d, u, "join")
         /\ t # Root => at'[Root] = at[Root]
    <2>1. /\ "loop" \notin {"none", "signal", "join"} /\ "terminate" \notin {"none", "signal", "join", "started"}
      OBVIOUS
    <2>2. \A u \in Tasks : u # t =>
            /\ state'[u] = state[u] /\ running'[u] = running[u] /\ raised'[u] = raised[u]
            /\ pendingStart'[u] = pendingStart[u] /\ pendingTerm'[u] = pendingTerm[u]
            /\ Count(queue'[u], "TERMINATE_REQUEST") = Count(queue[u], "TERMINATE_REQUEST")
      BY Zenon, <1>1, <1>3, <1>11
    <2>3. at[t].pc = "loop"
      BY Zenon, <1>1
    <2>. QED BY Zenon, <1>7, <2>1, <2>2, <2>3, Frame
  <1>18. TaskTypes' /\ EnginesClosed'
    <2>1. EnginesClosed'
      <3>1. CASE t = Root
        <4>1. \A e \in Engines : asked'[e] # "open"
          BY Zenon, <1>13, <3>1 DEF AskedTo
        <4>. QED BY Zenon, <1>13, <3>1, <4>1 DEF EnginesClosed
      <3>2. CASE t # Root
        <4>1. Over(Root)' = Over(Root) /\ at'[Root] = at[Root]
          BY Zenon, <1>1, <1>11, <1>17, <3>2, TaskTree DEF Over
        <4>2. \A e \in Engines : isOpen'[e] = isOpen[e] /\ asked'[e] = asked[e]
          BY Zenon, <1>12, <3>2
        <4>. QED BY Zenon, <4>1, <4>2 DEF TaskInv, EnginesClosed
      <3>. QED BY Zenon, <3>1, <3>2
    <2>2. UNCHANGED <<state, running, pendingStart, raised>>
      BY Zenon, <1>1
    <2>. QED BY Zenon, <1>3, <1>7, <1>8, <1>11, <2>1, <2>2 DEF TaskInv, TaskTypes
  <1>19. Sound(t)'
    <2>1. /\ state'[t] = "TERMINATE_REQUESTED" /\ running'[t] /\ raised'[t] /\ pendingStart'[t] = 0
          /\ pendingStart[t] = 0
      BY Zenon, <1>1, <1>5
    <2>2. Placed(t)'
      BY Zenon, <1>7, <2>1 DEF Placed, Over, Stopping, Absent
    <2>3. Family(t)'
      <3>1. \A j \in DOMAIN Kids[t] : j \in Nat /\ ~(j < 1)
        BY SMTT(40), Tree
      <3>. QED BY <1>7, <3>1 DEF Family, Over, Stopping, Absent
    <2>4. Ending(t)'
      <3>1. \E c \in Threads : Calls(c, t, "signal")' \/ Calls(c, t, "join")'
        BY Zenon, <1>2, <1>5, <1>17 DEF Ending
      <3>. QED BY SMTT(40), <1>4, <1>6, <1>17, <3>1 DEF Ending
    <2>5. Bounded(t)'
      <3>1. /\ pendingTerm'[t] <= Cardinality(Engines) /\ pendingStart'[t] = pendingStart[t] /\ Bounded(t)
            /\ at'[t].pc = "terminate"
        BY Zenon, <1>2, <1>7, <1>10, <1>11, <2>1
      <3>. QED BY Zenon, <3>1 DEF Bounded
    <2>. QED BY Zenon, <1>16, <2>2, <2>3, <2>4, <2>5 DEF Sound
  <1>. QED BY Zenon, <1>16, <1>17, <1>18, <1>19 DEF TaskInv

(* A task runs: the server asks for the engines that are not open. *)
LEMMA KeepRun ==
    ASSUME TaskInv, NEW t \in Tasks, Run(t)
    PROVE  TaskInv'
  <1>1. /\ at[t].pc = "prerun" /\ at' = [at EXCEPT ![t] = At("start", 1)]
        /\ UNCHANGED <<pendingTerm, queue, raised, isOpen>> /\ Root \in Tasks
    BY Zenon, TaskTree DEF Run
  <1>2. /\ Placed(t) /\ Family(t) /\ Ending(t) /\ Bounded(t) /\ Exact(t) /\ t \in Threads
        /\ asked \in [Engines -> {"", "open", "close"}] /\ IsFiniteSet(Engines)
        /\ pendingStart \in [Tasks -> Nat] /\ running \in [Tasks -> BOOLEAN]
    BY Zenon, Of, TaskTree DEF TaskInv, TaskTypes, Threads
  <1>3. /\ state[t] = "START_REQUESTED" /\ ~raised[t] /\ pendingStart[t] = 0 /\ pendingTerm[t] = 0
        /\ \A k \in Children(t) : Gone(k)
    BY Zenon, <1>1, <1>2 DEF Placed, Family, Absent
  <1>4. /\ at' \in [Threads -> [pc : Places, i : Nat]] /\ at'[t].pc = "start" /\ at'[t].i = 1
        /\ \A d \in Threads : d # t => at'[d] = at[d]
    <2>1. "start" \in Places /\ 1 \in Nat
      BY Zenon DEF Places
    <2>. QED BY Zenon, <1>1, <1>2, <2>1, Moved
  <1>5. /\ state' \in [Tasks -> {"IDLE", "START_REQUESTED", "RUNNING", "TERMINATE_REQUESTED"}]
        /\ running' \in [Tasks -> BOOLEAN] /\ state'[t] = "RUNNING" /\ running'[t]
        /\ \A u \in Tasks : u # t => state'[u] = state[u] /\ running'[u] = running[u]
    <2>1. state' = [state EXCEPT ![t] = "RUNNING"] /\ running' = [running EXCEPT ![t] = TRUE]
      BY Zenon DEF Run
    <2>. QED BY Zenon, <2>1 DEF TaskInv, TaskTypes
  <1>6. /\ asked' \in [Engines -> {"", "open", "close"}]
        /\ \A e \in Engines : asked'[e] = IF e \in Opening(t) THEN "open" ELSE asked[e]
    <2>1. asked' = [e \in Engines |-> IF e \in Opening(t) THEN "open" ELSE asked[e]]
      BY Zenon DEF Run
    <2>. QED BY Zenon, <1>2, <2>1
  <1>7. /\ Opening(t) \in SUBSET Engines /\ (t # Root => Opening(t) = {})
        /\ t = Root => Opening(t) = {e \in Engines : ~isOpen[e] /\ asked[e] = ""}
    BY Zenon DEF Opening
  <1>8. /\ Cardinality(Opening(t)) \in Nat /\ Cardinality(Opening(t)) <= Cardinality(Engines)
        /\ (t # Root => Cardinality(Opening(t)) = 0) /\ Cardinality(Engines) \in Nat
    BY Zenon, <1>2, <1>7, FS_Subset, FS_CardinalityType, FS_EmptySet
  <1>9. /\ pendingStart' \in [Tasks -> Nat] /\ pendingStart'[t] = Cardinality(Opening(t))
        /\ \A u \in Tasks : u # t => pendingStart'[u] = pendingStart[u]
    <2>1. pendingStart' = [pendingStart EXCEPT ![t] = Cardinality(Opening(t))]
      BY Zenon DEF Run
    <2>. QED BY Zenon, <1>2, <1>8, <2>1
  <1>10. t # Root => \A e \in Engines : asked'[e] = asked[e]
    BY Zenon, <1>6, <1>7
  <1>11. OwedKids(t) = {} /\ Count(queue[t], "START_COMPLETE") = 0
         /\ (t = Root => /\ AskedTo("open") = {} /\ AskedTo("close") = {} /\ Count(queue[t], "OPEN_ENGINE") = 0)
    BY Zenon, <1>3, NothingOwed, NothingClosing
  <1>12. t = Root => AskedTo("open")' = Opening(t) /\ AskedTo("close")' = AskedTo("close")
    <2>. SUFFICES ASSUME t = Root
                  PROVE  AskedTo("open")' = Opening(t) /\ AskedTo("close")' = AskedTo("close")
      BY Zenon
    <2>1. AskedTo("open")' = Opening(t)
      BY Zenon, <1>6, <1>7, <1>11 DEF AskedTo
    <2>2. AskedTo("close")' = {}
      BY Zenon, <1>6, <1>7, <1>11 DEF AskedTo
    <2>. QED BY Zenon, <1>11, <2>1, <2>2
  <1>13. \A u \in Tasks : OwedKids(u)' = OwedKids(u)
    <2>1. \A u \in Tasks : Gone(u)' = Gone(u)
      BY SMTT(40), <1>1, <1>4 DEF Gone, Threads
    <2>. QED BY Zenon, <1>1, <2>1, Tree DEF OwedKids
  <1>14. Exact(t)' /\ \A u \in Tasks : u # t => Exact(u)'
    <2>1. pendingStart'[t] = Owed(t)' + OwedEngines(t, "open", "OPEN_ENGINE")'
      <3>. DEFINE n == Cardinality(Opening(t))
      <3>1. Owed(t)' = 0 + 0
        <4>1. Cardinality(OwedKids(t)') = 0
          BY Zenon, <1>11, <1>13, FS_EmptySet
        <4>2. Count(queue'[t], "START_COMPLETE") = 0
          BY Zenon, <1>1, <1>11
        <4>. QED BY Zenon, <4>1, <4>2 DEF Owed
      <3>2. t = Root => OwedEngines(t, "open", "OPEN_ENGINE")' = n + 0
        BY Zenon, <1>1, <1>11, <1>12 DEF OwedEngines
      <3>3. t # Root => OwedEngines(t, "open", "OPEN_ENGINE")' = 0 /\ n = 0
        BY Zenon, <1>8 DEF OwedEngines
      <3>4. n \in Nat /\ pendingStart'[t] = n
        BY Zenon, <1>8, <1>9
      <3>. HIDE DEF n
      <3>5. n + 0 = n /\ 0 + 0 = 0 /\ 0 + n = n
        BY Zenon, <3>4, PlusZero, ZeroPlus
      <3>. QED BY Zenon, <3>1, <3>2, <3>3, <3>4, <3>5
    <2>2. pendingTerm'[t] = OwedEngines(t, "close", "CLOSE_ENGINE")'
      <3>1. OwedEngines(t, "close", "CLOSE_ENGINE")' = OwedEngines(t, "close", "CLOSE_ENGINE")
        BY Zenon, <1>1, <1>12 DEF OwedEngines
      <3>. QED BY Zenon, <1>1, <1>2, <3>1 DEF Exact
    <2>3. ASSUME NEW u \in Tasks, u # t
          PROVE  Exact(u)'
      <3>1. /\ Exact(u) /\ pendingStart'[u] = pendingStart[u] /\ pendingTerm'[u] = pendingTerm[u]
            /\ \A sub : Count(queue'[u], sub) = Count(queue[u], sub)
        BY Zenon, <1>1, <1>9, <2>3, Of
      <3>2. CASE u # Root
        BY Zenon, <1>13, <3>1, <3>2, NoEngines
      <3>3. CASE u = Root
        <4>1. AskedTo("open")' = AskedTo("open") /\ AskedTo("close")' = AskedTo("close")
          BY Zenon, <1>10, <2>3, <3>3 DEF AskedTo
        <4>2. Owed(u)' = Owed(u)
          BY Zenon, <1>13, <3>1 DEF Owed
        <4>3. /\ OwedEngines(u, "open", "OPEN_ENGINE")' = OwedEngines(u, "open", "OPEN_ENGINE")
              /\ OwedEngines(u, "close", "CLOSE_ENGINE")' = OwedEngines(u, "close", "CLOSE_ENGINE")
          BY Zenon, <3>1, <4>1 DEF OwedEngines
        <4>. QED BY Zenon, <3>1, <4>2, <4>3 DEF Exact
      <3>. QED BY Zenon, <3>2, <3>3
    <2>. QED BY Zenon, <2>1, <2>2, <2>3 DEF Exact
  <1>15. /\ MainWaits' /\ \A u \in Tasks : u # t /\ Exact(u)' => Sound(u)'
         /\ \A u \in Tasks : Gone(u)' = Gone(u)
         /\ \A u \in Tasks, d \in Threads : /\ Calls(d, u, "signal")' = Calls(d, u, "signal")
                                            /\ Calls(d, u, "join")' = Calls(d, u, "join")
         /\ t # Root => at'[Root] = at[Root]
    <2>1. /\ "prerun" \notin {"none", "signal", "join"} /\ "start" \notin {"none", "signal", "join", "started"}
      OBVIOUS
    <2>2. \A u \in Tasks : u # t =>
            /\ state'[u] = state[u] /\ running'[u] = running[u] /\ raised'[u] = raised[u]
            /\ pendingStart'[u] = pendingStart[u] /\ pendingTerm'[u] = pendingTerm[u]
            /\ Count(queue'[u], "TERMINATE_REQUEST") = Count(queue[u], "TERMINATE_REQUEST")
      BY Zenon, <1>1, <1>5, <1>9
    <2>3. at[t].pc = "prerun"
      BY Zenon, <1>1
    <2>. QED BY Zenon, <1>4, <2>1, <2>2, <2>3, Frame
  <1>16. TaskTypes' /\ EnginesClosed'
    <2>1. EnginesClosed'
      <3>1. CASE t = Root
        <4>1. at'[Root].pc \notin Absent \cup Stopping /\ ~Over(Root)'
          BY Zenon, <1>4, <3>1 DEF Absent, Stopping, Over
        <4>. QED BY Zenon, <4>1 DEF EnginesClosed
      <3>2. CASE t # Root
        <4>1. Over(Root)' = Over(Root) /\ at'[Root] = at[Root]
          BY Zenon, <1>1, <1>5, <1>15, <3>2 DEF Over
        <4>2. \A e \in Engines : isOpen'[e] = isOpen[e] /\ asked'[e] = asked[e]
          BY Zenon, <1>1, <1>10, <3>2
        <4>. QED BY Zenon, <4>1, <4>2 DEF TaskInv, EnginesClosed
      <3>. QED BY Zenon, <3>1, <3>2
    <2>2. UNCHANGED <<pendingTerm, queue, raised, isOpen>>
      BY Zenon, <1>1
    <2>. QED BY Zenon, <1>4, <1>5, <1>6, <1>9, <2>1, <2>2 DEF TaskInv, TaskTypes, Queues, Addressed
  <1>17. Sound(t)'
    <2>1. ~raised'[t] /\ pendingTerm'[t] = 0 /\ Requested(t)' = Requested(t)
      BY Zenon, <1>1, <1>3 DEF Requested
    <2>2. Placed(t)'
      BY Zenon, <1>4, <1>5, <2>1 DEF Placed, Over, Stopping, Absent
    <2>3. Family(t)'
      <3>1. \A j \in DOMAIN Kids[t] : Gone(Kids[t][j])'
        BY Zenon, <1>3, <1>15, Tree
      <3>. QED BY <1>4, <3>1 DEF Family, Over, Stopping, Absent
    <2>4. Ending(t)'
      BY Zenon, <1>2, <1>3, <1>5, <1>15, <2>1 DEF Ending
    <2>5. Bounded(t)'
      <3>1. /\ pendingTerm'[t] = 0 /\ pendingStart'[t] = Cardinality(Opening(t)) /\ at'[t].i = 1
            /\ Cardinality(Opening(t)) \in Nat /\ Cardinality(Engines) \in Nat
            /\ Cardinality(Opening(t)) <= Cardinality(Engines) /\ Len(Kids[t]) \in Nat
        BY Zenon, <1>4, <1>8, <1>9, <2>1, Numbers
      <3>. DEFINE n == Cardinality(Opening(t))
                  e == Cardinality(Engines)
                  l == Len(Kids[t])
      <3>2. n <= l + e /\ n + 1 <= 1 + e /\ 0 <= e
        <4>1. n \in Nat /\ e \in Nat /\ n <= e /\ l \in Nat
          BY Zenon, <3>1
        <4>. HIDE DEF n, e, l
        <4>. QED BY Zenon, <4>1, WithinEngines
      <3>. QED BY Zenon, <3>1, <3>2 DEF Bounded
    <2>. QED BY Zenon, <1>14, <2>2, <2>3, <2>4, <2>5 DEF Sound
  <1>. QED BY Zenon, <1>14, <1>15, <1>16, <1>17 DEF TaskInv
-----------------------------------------------------------------------------
(* Every step keeps the invariant, if the application shuts down only a    *)
(* server that has started.                                                *)
LEMMA NextSound ==
    ASSUME TaskInv, WaitStarted, [TaskNext]_taskVars
    PROVE  TaskInv'
  <1>1. CASE MainStart
    BY Zenon, <1>1, KeepMainStart
  <1>2. ASSUME NEW t \in Tasks, Thread(t) \/ Report(t)
        PROVE  TaskInv'
    BY Zenon, <1>2, KeepRun, KeepStartChild, KeepChildrenStarted, KeepStartRequestRemove,
       KeepTerminateRequest, KeepTerminateRequestRemove, KeepProcess, KeepReported,
       KeepChildrenTerminated, KeepExit, KeepReport DEF Thread
  <1>3. ASSUME NEW c \in Threads, Terminate(c)
        PROVE  TaskInv'
    BY Zenon, <1>3, KeepTerminateLock, KeepTerminateSignal, KeepJoin DEF Terminate
  <1>4. ASSUME NEW e \in Engines, EngineAnswer(e)
        PROVE  TaskInv'
    BY Zenon, <1>4, KeepEngineAnswer
  <1>5. CASE UNCHANGED taskVars
    <2>1. UNCHANGED <<state, running, pendingStart, pendingTerm, queue, at, raised, isOpen, asked>>
      BY Zenon, <1>5 DEF taskVars
    <2>2. TaskTypes' /\ EnginesClosed' /\ MainWaits'
      BY Zenon, <2>1 DEF TaskInv, TaskTypes, Queues, EnginesClosed, MainWaits, Gone, Over
    <2>3. ASSUME NEW u \in Tasks PROVE Sound(u)'
      <3>1. OwedKids(u)' = OwedKids(u) /\ \A k \in Children(u) : Gone(k)' = Gone(k)
        BY Zenon, <2>1 DEF OwedKids, Gone
      <3>2. \A c \in Threads : /\ Calls(c, u, "signal")' = Calls(c, u, "signal")
                               /\ Calls(c, u, "join")' = Calls(c, u, "join")
        BY Zenon, <2>1 DEF Calls
      <3>3. Exact(u)'
        BY Zenon, <2>1, <3>1, Of, SameCounts
      <3>4. Placed(u)' /\ Family(u)' /\ Ending(u)' /\ Bounded(u)'
        BY Zenon, <2>1, <3>1, <3>2, Elsewhere
      <3>. QED BY Zenon, <3>3, <3>4 DEF Sound
    <2>. QED BY Zenon, <2>2, <2>3 DEF TaskInv
  <1>. QED BY Zenon, <1>1, <1>2, <1>3, <1>4, <1>5 DEF TaskNext, Threads

(* A task has no more children than there are tasks. *)
LEMMA FewKids ==
    ASSUME NEW t \in Tasks
    PROVE  Len(Kids[t]) <= Cardinality(Tasks)
  <1>1. /\ Kids[t] \in Seq(Tasks) /\ Len(Kids[t]) \in Nat /\ DOMAIN Kids[t] = 1 .. Len(Kids[t])
        /\ IsFiniteSet(Tasks) /\ \A i, j \in DOMAIN Kids[t] : Kids[t][i] = Kids[t][j] => i = j
    BY Zenon, Tree, TaskTree
  <1>2. Kids[t] \in Injection(1 .. Len(Kids[t]), Tasks)
    <2>1. Kids[t] \in [1 .. Len(Kids[t]) -> Tasks]
      BY <1>1
    <2>. QED BY Zenon, <1>1, <2>1 DEF Injection, IsInjective
  <1>3. IsFiniteSet(1 .. Len(Kids[t])) /\ Cardinality(1 .. Len(Kids[t])) = Len(Kids[t])
    <2>1. 1 \in Int /\ Len(Kids[t]) \in Int
      BY <1>1
    <2>2. Cardinality(1 .. Len(Kids[t])) = (IF 1 > Len(Kids[t]) THEN 0 ELSE Len(Kids[t]) - 1 + 1)
      BY Zenon, <2>1, FS_Interval
    <2>3. IsFiniteSet(1 .. Len(Kids[t]))
      BY Zenon, <2>1, FS_Interval
    <2>. QED BY <1>1, <2>2, <2>3
  <1>4. Cardinality(1 .. Len(Kids[t])) <= Cardinality(Tasks)
    BY Zenon, <1>1, <1>2, FS_Injection
  <1>. QED BY Zenon, <1>3, <1>4

(* What the invariant says of starting and of shutting down *)
LEMMA TogetherByInv ==
    ASSUME TaskInv
    PROVE  TasksTogether
  <1>1. TaskTypeOK
    <2>. DEFINE n == Cardinality(Tasks)
                e == Cardinality(Engines)
    <2>1. n \in Nat /\ e \in Nat
      BY Zenon, TaskTree, FS_CardinalityType
    <2>2. ASSUME NEW t \in Tasks
          PROVE  pendingStart[t] \in 0 .. (n + e) /\ pendingTerm[t] \in 0 .. e
      <3>1. /\ pendingStart[t] \in Nat /\ pendingTerm[t] \in Nat /\ Len(Kids[t]) \in Nat
            /\ pendingStart[t] <= Len(Kids[t]) + e /\ pendingTerm[t] <= e /\ Len(Kids[t]) <= n
        BY Zenon, Of, Tree, FewKids DEF Bounded
      <3>. HIDE DEF n, e
      <3>. QED BY <2>1, <3>1
    <2>3. pendingStart \in [Tasks -> 0 .. (n + e)] /\ pendingTerm \in [Tasks -> 0 .. e]
      <3>1. pendingStart \in [Tasks -> Nat] /\ pendingTerm \in [Tasks -> Nat]
        BY Zenon DEF TaskInv, TaskTypes
      <3>. HIDE DEF n, e
      <3>. QED BY Zenon, <2>2, <3>1
    <2>4. \A t \in Tasks : state[t] = "IDLE" <=> at[t].pc = "none"
      BY Zenon, Of DEF Placed
    <2>. QED BY Zenon, <2>3, <2>4 DEF TaskTypeOK, TaskInv, TaskTypes, Queues
  <1>2. PendingStartCounts
    <2>1. \A t \in Tasks, sub \in Subs : Queued(t, sub) = Count(queue[t], sub)
      BY Zenon DEF Queued, Count, Indices
    <2>2. \A t \in Tasks : {c \in Children(t) : at[c].pc # "none" /\ ~raised[c]} = OwedKids(t)
      BY Zenon DEF OwedKids, Gone
    <2>3. "START_COMPLETE" \in Subs /\ "OPEN_ENGINE" \in Subs
      BY Zenon DEF Subs, EngineSubs
    <2>. QED BY Zenon, <2>1, <2>2, <2>3, Of DEF PendingStartCounts, Exact, Owed, OwedEngines, AskedTo
  <1>3. StartedTogether
    <2>. SUFFICES ASSUME NEW t \in Tasks, raised[t]
                  PROVE  /\ \A c \in Children(t) : at[c].pc # "none" => raised[c]
                         /\ t = Root => \A e \in Engines : asked[e] # "open"
      BY Zenon DEF StartedTogether
    <2>1. pendingStart[t] = 0
      BY Zenon, Of DEF Placed
    <2>2. OwedKids(t) = {} /\ (t = Root => AskedTo("open") = {})
      BY Zenon, <2>1, NothingOwed
    <2>. QED BY Zenon, <2>2 DEF OwedKids, AskedTo, Gone
  <1>4. \A t \in Tasks : state[t] = "IDLE" => Gone(t) /\ \A c \in Children(t) : Gone(c)
    <2>1. \A t \in Tasks : state[t] = "IDLE" => at[t].pc = "none" /\ Family(t)
      BY Zenon, Of DEF Placed
    <2>2. "none" \in Absent
      BY Zenon DEF Absent
    <2>. QED BY Zenon, <2>1, <2>2 DEF Family, Gone
  <1>5. \A t \in Tasks : Gone(t) => state[t] = "IDLE"
    BY Zenon, Of DEF Placed, Gone
  <1>6. ChildrenGoneFirst
    <2>1. ASSUME state[Root] = "IDLE", NEW e \in Engines
          PROVE  ~isOpen[e] /\ asked[e] = ""
      <3>1. Root \in Tasks /\ at[Root].pc \in Absent
        BY Zenon, <1>4, <2>1, TaskTree DEF Gone, Absent
      <3>2. pendingTerm[Root] = 0
        BY Zenon, <3>1, Of DEF Placed
      <3>3. asked[e] # "close" /\ asked[e] \in {"", "open", "close"}
        BY Zenon, <3>2, NothingClosing DEF AskedTo, TaskInv, TaskTypes
      <3>4. ~isOpen[e] /\ asked[e] # "open"
        BY Zenon, <3>1 DEF TaskInv, EnginesClosed
      <3>. QED BY Zenon, <3>3, <3>4
    <2>. QED BY Zenon, <1>4, <1>5, <2>1, Tree DEF ChildrenGoneFirst
  <1>7. ShutdownIsComplete
    <2>. SUFFICES ASSUME at[Main].pc = "none"
                  PROVE  \A t \in Tasks : state[t] = "IDLE"
      BY Zenon DEF ShutdownIsComplete
    <2>. DEFINE below == {t \in Tasks : Gone(t)}
    <2>1. Root \in below
      BY Zenon, TaskTree DEF TaskInv, MainWaits
    <2>2. \A t \in below : Children(t) \subseteq below
      BY Zenon, <1>4, <1>5, Tree
    <2>3. below \in SUBSET Tasks
      OBVIOUS
    <2>4. below = Tasks
      <3>. HIDE DEF below
      <3>. QED BY Zenon, <2>1, <2>2, <2>3, TaskTree
    <2>. QED BY Zenon, <1>5, <2>4
  <1>. QED BY Zenon, <1>1, <1>2, <1>3, <1>6, <1>7
           DEF TasksTogether, StartsCounted, ShutdownOrderly

(* TasksTogether of apt_task.c, for every tree of tasks, any engines and   *)
(* any length of the queues: pending_start counts exactly the children and *)
(* engines that still have to answer, a task that has raised start-complete*)
(* is owed nothing, a task ends after its children and its engines, and    *)
(* apt_task_terminate returns when no task below runs, if the server is    *)
(* shut down only after its start-complete.                                *)
THEOREM Together ==
    ASSUME WaitStarted
    PROVE  TaskSpec => []TasksTogether
  <1>1. TaskInit => TaskInv
    BY Zenon, InitSound
  <1>2. TaskInv /\ [TaskNext]_taskVars => TaskInv'
    BY Zenon, NextSound
  <1>3. TaskInv => TasksTogether
    BY Zenon, TogetherByInv
  <1>. QED BY <1>1, <1>2, <1>3, PTL DEF TaskSpec
=============================================================================
