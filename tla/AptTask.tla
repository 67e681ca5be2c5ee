------------------------------ MODULE AptTask ------------------------------
(* Tasks (libs/apr-toolkit/src/apt_task.c, apt_consumer_task.c): threads    *)
(* with a message queue, arranged in a tree.  A task starts its child tasks *)
(* when it runs and has started once each of them has; it is terminated by  *)
(* a message, and terminates its children one after the other, joining the  *)
(* thread of each (the build without ENABLE_SIMULT_TASK_TERMINATION).  The  *)
(* root is the server task (mrcp_server.c), which also opens the engines    *)
(* when it starts and closes them when it terminates; Main is the thread    *)
(* that calls mrcp_server_start and mrcp_server_shutdown.                   *)
EXTENDS Integers, Sequences, FiniteSets

CONSTANTS Tasks,        \* the tasks
          Root,         \* the server task
          Kids,         \* Kids[t]: the sequence of t's child_tasks
          Main,         \* the thread of the application
          Engines,      \* the engines of the server
          Capacity,     \* the length of a message queue (1024 in the code)
          WaitStarted,  \* Main shuts down only a server that has started
          MaxStarts,    \* how often Main starts the server
          MaxWork       \* how many messages the children send to their parents

VARIABLES state, running, pendingStart, pendingTerm, queue,
          at,           \* at[c]: where thread c is, and the child or task it is at
          raised,       \* raised[t]: start-complete was raised since t's last start
          isOpen, asked,\* an engine's is_open, and what it has been asked for
          starts, work

taskVars == <<state, running, pendingStart, pendingTerm, queue, at, raised,
              isOpen, asked, starts, work>>
counts == <<pendingStart, pendingTerm>>
engines == <<isOpen, asked>>
bounds == <<starts, work>>

-----------------------------------------------------------------------------
At(pc, i) == [pc |-> pc, i |-> i]

Message(sub) == [sub |-> sub, engine |-> "", status |-> TRUE]

Children(t) == {Kids[t][i] : i \in DOMAIN Kids[t]}

Parents(t) == {p \in Tasks : t \in Children(p)}

\* apt_task_add: a task is added to one parent, once, and every task is below the root
ASSUME TaskTree ==
    /\ IsFiniteSet(Tasks) /\ IsFiniteSet(Engines) /\ Capacity \in Nat
    /\ Root \in Tasks /\ Main \notin Tasks /\ Parents(Root) = {}
    /\ Kids \in [Tasks -> Seq(Tasks)]
    /\ \A t \in Tasks : \A i, j \in DOMAIN Kids[t] : Kids[t][i] = Kids[t][j] => i = j
    /\ \A t, u \in Tasks : Children(t) \cap Children(u) # {} => t = u
    /\ \A below \in SUBSET Tasks :
          Root \in below /\ (\A t \in below : Children(t) \subseteq below) => below = Tasks

TaskInit ==
    /\ state = [t \in Tasks |-> "IDLE"]
    /\ running = [t \in Tasks |-> FALSE]
    /\ pendingStart = [t \in Tasks |-> 0]
    /\ pendingTerm = [t \in Tasks |-> 0]
    /\ queue = [t \in Tasks |-> <<>>]
    /\ at = [c \in Tasks \cup {Main} |-> At("none", 0)]
    /\ raised = [t \in Tasks |-> FALSE]
    /\ isOpen = [e \in Engines |-> FALSE]
    /\ asked = [e \in Engines |-> ""]
    /\ starts = 0
    /\ work = 0

\* apt_consumer_task_msg_signal: apr_queue_push waits while the queue is full
Signal(t, msg) ==
    /\ Len(queue[t]) < Capacity
    /\ queue' = [queue EXCEPT ![t] = Append(@, msg)]

-----------------------------------------------------------------------------
(* Starting.                                                                *)

\* apt_task_start of t by thread c, which goes on at `next`; apr_thread_create
\* may fail
Start(c, t, next) ==
    /\ state[t] = "IDLE"
    /\ state' = [state EXCEPT ![t] = "START_REQUESTED"]
    /\ at' = [at EXCEPT ![c] = next, ![t] = At("prerun", 0)]
    /\ raised' = [raised EXCEPT ![t] = FALSE]

StartFails(c, next) ==
    /\ at' = [at EXCEPT ![c] = next]
    /\ UNCHANGED <<state, raised>>

\* mrcp_server_start
MainStart ==
    /\ at[Main].pc = "none"
    /\ starts < MaxStarts
    /\ starts' = starts + 1
    /\ \/ Start(Main, Root, At("started", 0))
       \/ StartFails(Main, At("none", 0))
    /\ UNCHANGED <<running, counts, queue, engines, work>>

\* the engines mrcp_server_on_start_request opens, and counts as pending starts
Opening(t) == IF t = Root THEN {e \in Engines : ~isOpen[e] /\ asked[e] = ""} ELSE {}

\* apt_task_run up to the loop over the children in apt_task_child_start
Run(t) ==
    /\ at[t].pc = "prerun"
    /\ state' = [state EXCEPT ![t] = "RUNNING"]
    /\ running' = [running EXCEPT ![t] = TRUE]
    /\ asked' = [e \in Engines |-> IF e \in Opening(t) THEN "open" ELSE asked[e]]
    /\ pendingStart' = [pendingStart EXCEPT ![t] = Cardinality(Opening(t))]
    /\ at' = [at EXCEPT ![t] = At("start", 1)]
    /\ UNCHANGED <<pendingTerm, queue, raised, isOpen, bounds>>

\* apt_task_child_start: the next child of the list
StartChild(t) ==
    LET i == at[t].i IN
    /\ at[t].pc = "start"
    /\ i <= Len(Kids[t])
    /\ \/ /\ Start(t, Kids[t][i], At("start", i + 1))
          /\ pendingStart' = [pendingStart EXCEPT ![t] = @ + 1]
       \/ /\ StartFails(t, At("start", i + 1))
          /\ UNCHANGED pendingStart
    /\ UNCHANGED <<running, pendingTerm, queue, engines, bounds>>

\* apt_task_start_complete_raise, with the rest of t's own queue
RaiseStartComplete(t, rest) ==
    /\ raised' = [raised EXCEPT ![t] = TRUE]
    /\ \/ Parents(t) = {} /\ queue' = [queue EXCEPT ![t] = rest]
       \/ \E p \in Parents(t) :
            /\ Len(queue[p]) < Capacity
            /\ queue' = [queue EXCEPT ![t] = rest,
                             ![p] = Append(@, Message("START_COMPLETE"))]

\* the end of apt_task_child_start
ChildrenStarted(t) ==
    /\ at[t].pc = "start"
    /\ at[t].i > Len(Kids[t])
    /\ IF pendingStart[t] = 0 THEN RaiseStartComplete(t, queue[t])
                              ELSE UNCHANGED <<raised, queue>>
    /\ at' = [at EXCEPT ![t] = At("loop", 0)]
    /\ UNCHANGED <<state, running, counts, engines, bounds>>

-----------------------------------------------------------------------------
(* The loop of apt_consumer_task_run and apt_task_msg_process.              *)

\* the next message of t is one of those named
Next1(t, subs) ==
    /\ at[t].pc = "loop"
    /\ running[t]
    /\ queue[t] # <<>>
    /\ Head(queue[t]).sub \in subs

\* apt_task_start_request_remove: START_COMPLETE of a child, or the answer of an
\* engine, whose is_open is set first
StartRequestRemove(t) ==
    LET msg == Head(queue[t]) IN
    /\ Next1(t, {"START_COMPLETE", "OPEN_ENGINE"})
    /\ isOpen' = IF msg.sub = "OPEN_ENGINE" THEN [isOpen EXCEPT ![msg.engine] = msg.status]
                                            ELSE isOpen
    /\ pendingStart' = [pendingStart EXCEPT ![t] = IF @ = 0 THEN 0 ELSE @ - 1]
    /\ IF pendingStart[t] = 1 THEN RaiseStartComplete(t, Tail(queue[t]))
       ELSE queue' = [queue EXCEPT ![t] = Tail(@)] /\ UNCHANGED raised
    /\ UNCHANGED <<state, running, pendingTerm, at, asked, bounds>>

\* the engines mrcp_server_on_terminate_request closes
Closing(t) == IF t = Root THEN {e \in Engines : isOpen[e]} ELSE {}

\* TERMINATE_REQUEST, up to the loop over the children in apt_task_child_terminate
TerminateRequest(t) ==
    /\ Next1(t, {"TERMINATE_REQUEST"})
    /\ queue' = [queue EXCEPT ![t] = Tail(@)]
    /\ isOpen' = [e \in Engines |-> isOpen[e] /\ e \notin Closing(t)]
    /\ asked' = [e \in Engines |-> IF e \in Closing(t) THEN "close" ELSE asked[e]]
    /\ pendingTerm' = [pendingTerm EXCEPT ![t] = Cardinality(Closing(t))]
    /\ at' = [at EXCEPT ![t] = At("terminate", 1)]
    /\ UNCHANGED <<state, running, pendingStart, raised, bounds>>

TerminateRequestRemoveRuns(t) ==
    /\ Next1(t, {"CLOSE_ENGINE"})
    /\ queue' = [queue EXCEPT ![t] = Tail(@)]
    /\ pendingTerm' = [pendingTerm EXCEPT ![t] = IF @ = 0 THEN 0 ELSE @ - 1]
    /\ UNCHANGED <<state, running, pendingStart, at, raised, isOpen, asked, bounds>>

\* apt_task_terminate_request_remove: an engine has closed
TerminateRequestRemove(t) ==
    /\ Next1(t, {"CLOSE_ENGINE"})
    /\ queue' = [queue EXCEPT ![t] = Tail(@)]
    /\ isOpen' = [isOpen EXCEPT ![Head(queue[t]).engine] = FALSE]
    /\ pendingTerm' = [pendingTerm EXCEPT ![t] = IF @ = 0 THEN 0 ELSE @ - 1]
    /\ running' = [running EXCEPT ![t] = pendingTerm[t] # 1]
    /\ UNCHANGED <<state, pendingStart, at, raised, asked, bounds>>

\* any other message goes to the process_msg of the task
Process(t) ==
    /\ Next1(t, {"work"})
    /\ queue' = [queue EXCEPT ![t] = Tail(@)]
    /\ UNCHANGED <<state, running, counts, at, raised, engines, bounds>>

\* the thread of a child sends its parent a message (apt_task_msg_parent_signal)
Report(t) ==
    /\ at[t].pc = "loop"
    /\ running[t]
    /\ Parents(t) # {}
    /\ work < MaxWork
    /\ work' = work + 1
    /\ at' = [at EXCEPT ![t] = At("report", 0)]
    /\ UNCHANGED <<state, running, counts, queue, raised, engines, starts>>

Reported(t) ==
    /\ at[t].pc = "report"
    /\ \E p \in Parents(t) : Signal(p, Message("work"))
    /\ at' = [at EXCEPT ![t] = At("loop", 0)]
    /\ UNCHANGED <<state, running, counts, raised, engines, bounds>>

\* the end of TERMINATE_REQUEST in apt_core_task_msg_process
ChildrenTerminated(t) ==
    /\ at[t].pc = "terminate"
    /\ at[t].i > Len(Kids[t])
    /\ running' = [running EXCEPT ![t] = running[t] /\ pendingTerm[t] # 0]
    /\ at' = [at EXCEPT ![t] = At("loop", 0)]
    /\ UNCHANGED <<state, counts, queue, raised, engines, bounds>>

\* the end of apt_task_run
Exit(t) ==
    /\ at[t].pc = "loop"
    /\ ~running[t]
    /\ state' = [state EXCEPT ![t] = "IDLE"]
    /\ at' = [at EXCEPT ![t] = At("none", 0)]
    /\ UNCHANGED <<running, counts, queue, raised, engines, bounds>>

-----------------------------------------------------------------------------
(* apt_task_terminate(t, TRUE), called by Main for the root and by a task   *)
(* for each of its children.                                                *)

\* thread c is at `pc` of a call for task t
Calls(c, t, pc) ==
    /\ at[c].pc = pc
    /\ t = IF c = Main THEN Root ELSE Kids[c][at[c].i]

Returned(c) == IF c = Main THEN At("none", 0) ELSE At("terminate", at[c].i + 1)

\* the part under the lock
TerminateLock(c, t) ==
    /\ \/ c = Main /\ at[Main].pc = "started" /\ (WaitStarted => raised[Root]) /\ t = Root
       \/ /\ c # Main /\ at[c].pc = "terminate" /\ at[c].i <= Len(Kids[c])
          /\ t = Kids[c][at[c].i]
    /\ state' = [state EXCEPT ![t] = IF @ \in {"START_REQUESTED", "RUNNING"}
                                     THEN "TERMINATE_REQUESTED" ELSE @]
    /\ at' = [at EXCEPT ![c].pc = "signal"]
    /\ UNCHANGED <<running, counts, queue, raised, engines, bounds>>

TerminateSignalOnly(c, t) ==
    /\ Calls(c, t, "signal")
    /\ \/ state[t] = "TERMINATE_REQUESTED" /\ Signal(t, Message("TERMINATE_REQUEST"))
       \/ state[t] # "TERMINATE_REQUESTED" /\ UNCHANGED queue
    /\ at' = [at EXCEPT ![c] = Returned(c)]
    /\ UNCHANGED <<state, running, counts, raised, engines, bounds>>

\* the part after it, which reads the state again
TerminateSignal(c, t) ==
    /\ Calls(c, t, "signal")
    /\ \/ /\ state[t] = "TERMINATE_REQUESTED"
          /\ Signal(t, Message("TERMINATE_REQUEST"))
          /\ at' = [at EXCEPT ![c].pc = "join"]
       \/ /\ state[t] # "TERMINATE_REQUESTED"
          /\ at' = [at EXCEPT ![c] = Returned(c)]
          /\ UNCHANGED queue
    /\ UNCHANGED <<state, running, counts, raised, engines, bounds>>

\* apt_task_wait_till_complete
Join(c, t) ==
    /\ Calls(c, t, "join")
    /\ at[t].pc = "none"
    /\ at' = [at EXCEPT ![c] = Returned(c)]
    /\ UNCHANGED <<state, running, counts, queue, raised, engines, bounds>>

-----------------------------------------------------------------------------
(* The engines answer from threads of their own.                            *)

EngineAnswer(e) ==
    /\ asked[e] # ""
    /\ \E status \in BOOLEAN :
         /\ asked[e] = "close" => status
         /\ Signal(Root, [sub |-> IF asked[e] = "open" THEN "OPEN_ENGINE" ELSE "CLOSE_ENGINE",
                          engine |-> e, status |-> status])
    /\ asked' = [asked EXCEPT ![e] = ""]
    /\ UNCHANGED <<state, running, counts, at, raised, isOpen, bounds>>

-----------------------------------------------------------------------------
Thread(t) ==
    \/ Run(t) \/ StartChild(t) \/ ChildrenStarted(t) \/ StartRequestRemove(t)
    \/ TerminateRequest(t) \/ TerminateRequestRemove(t) \/ Process(t)
    \/ Reported(t) \/ ChildrenTerminated(t) \/ Exit(t)

Terminate(c) ==
    \E t \in Tasks : TerminateLock(c, t) \/ TerminateSignal(c, t) \/ Join(c, t)

TaskNext ==
    \/ MainStart
    \/ \E t \in Tasks : Thread(t) \/ Report(t)
    \/ \E c \in Tasks \cup {Main} : Terminate(c)
    \/ \E e \in Engines : EngineAnswer(e)

TaskSpec == TaskInit /\ [][TaskNext]_taskVars

\* threads run, engines answer, and Main ends the calls it has begun; it need not
\* begin one
FairTaskSpec ==
    /\ TaskSpec
    /\ \A t \in Tasks : WF_taskVars(Thread(t)) /\ WF_taskVars(Terminate(t))
    /\ \A t \in Tasks : WF_taskVars(TerminateSignal(Main, t) \/ Join(Main, t))
    /\ \A e \in Engines : WF_taskVars(EngineAnswer(e))

-----------------------------------------------------------------------------
\* the messages of the queue of t named sub
Queued(t, sub) == Cardinality({i \in DOMAIN queue[t] : queue[t][i].sub = sub})

\* the types of the state of a task, whose state is IDLE exactly when it has no thread
TaskTypeOK ==
    /\ state \in [Tasks -> {"IDLE", "START_REQUESTED", "RUNNING", "TERMINATE_REQUESTED"}]
    /\ \A t \in Tasks : Len(queue[t]) <= Capacity
    /\ pendingStart \in [Tasks -> 0..(Cardinality(Tasks) + Cardinality(Engines))]
    /\ pendingTerm \in [Tasks -> 0..Cardinality(Engines)]
    /\ \A t \in Tasks : state[t] = "IDLE" <=> at[t].pc = "none"

\* pending_start of a running task is the number of answers it is still owed: a child
\* that has not raised its start-complete or whose message waits in the queue, and an
\* engine that has not answered or whose answer waits
PendingStartCounts ==
    \A t \in Tasks : at[t].pc \in {"loop", "report"} /\ state[t] = "RUNNING" =>
        pendingStart[t] =
            Cardinality({c \in Children(t) : at[c].pc # "none" /\ ~raised[c]})
            + Queued(t, "START_COMPLETE")
            + (IF t = Root THEN Cardinality({e \in Engines : asked[e] = "open"})
                                + Queued(t, "OPEN_ENGINE") ELSE 0)

\* a task that has raised start-complete has no child and no engine still to start
StartedTogether ==
    \A t \in Tasks : raised[t] /\ state[t] = "RUNNING" =>
        /\ \A c \in Children(t) : at[c].pc # "none" => raised[c]
        /\ t = Root => \A e \in Engines : asked[e] # "open"

\* types, PendingStartCounts and StartedTogether: apt_task_child_start and
\* apt_core_task_msg_process count every start exactly
StartsCounted == TaskTypeOK /\ PendingStartCounts /\ StartedTogether

\* a task is idle only after its children are and, for the server, after every engine
\* has been closed and has answered
ChildrenGoneFirst ==
    \A t \in Tasks : state[t] = "IDLE" =>
        /\ \A c \in Children(t) : state[c] = "IDLE"
        /\ t = Root => \A e \in Engines : ~isOpen[e] /\ asked[e] = ""

\* apt_task_terminate(task,TRUE) waits for the task to complete: when Main is back from
\* it no task of the tree runs
ShutdownIsComplete ==
    at[Main].pc = "none" => \A t \in Tasks : state[t] = "IDLE"

\* ChildrenGoneFirst and ShutdownIsComplete: what apt_task_terminate promises its caller
ShutdownOrderly == ChildrenGoneFirst /\ ShutdownIsComplete

\* StartsCounted and ShutdownOrderly of apt_task.c: every start is counted, and a task that
\* has ended has no child and no engine still running
TasksTogether == StartsCounted /\ ShutdownOrderly

\* the server that mrcp_server_start started raises start-complete: every child and every
\* engine answers and is counted
ServerStarts == at[Main].pc = "started" ~> raised[Root] \/ at[Main].pc # "started"

\* mrcp_server_shutdown returns: no thread waits for one that waits for it
ShutdownReturns == at[Main].pc \in {"signal", "join"} ~> at[Main].pc = "none"

\* ServerStarts and ShutdownReturns: neither apt_task_start nor apt_task_terminate hangs
NoHang == ServerStarts /\ ShutdownReturns
=============================================================================
