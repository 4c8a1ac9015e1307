----------------------------- MODULE Trampoline -----------------------------
(***************************************************************************)
(* Task::Trampoline (task_decl.hpp, task_impl.hpp): several tasks of       *)
(* different priority on the threads of one executor.  A task that signals,*)
(* or creates, a more urgent one yields to it; one that ends, signals or   *)
(* yields may activate others on top of the stack of its thread.           *)
(*                                                                         *)
(* Module Task shows how the accesses to the state of one task interleave, *)
(* and that of all who find it ready one claims it.  Here handle_event and *)
(* schedule_to_run are one step, and the sleep timer's lock and the stack  *)
(* dumps are left to that module.                                          *)
(***************************************************************************)
EXTENDS Integers, Sequences, FiniteSets

CONSTANTS
  Workers,            \* the threads of the executor
  Tasks,
  NoTask,             \* nullptr
  Unborn,             \* the tasks that other tasks create
  Priority,           \* get_priority of each task
  kMaxNestingDepth,
  Words,              \* how many values a usize has
  MaxActs             \* bound on what the body of each task does

VARIABLES
  task,               \* [bits, place, armed, preempted, inDispatch, acts], see below
  posted,             \* the activations of each task in the executor's queue
  current,            \* current_task_ of each thread
  next,               \* next_to_run_ of each thread
  stack,              \* the calls of activate_task on each thread
  depth               \* nesting_depth of each thread

trampolineVars == <<task, posted, current, next, stack, depth>>

-----------------------------------------------------------------------------
\* bits of state_; where the body is; what will call its handler (<<"event">>, the
\* end of a task, or nothing); is_preempted_; whether it is inside a dispatch of
\* schedule_to_run; what it may still do.
NewTask(t) ==
  [bits |-> IF t \in Unborn THEN {"need"} ELSE {}, place |-> IF t \in Unborn THEN "unborn" ELSE "user",
   armed |-> <<>>, preempted |-> FALSE, inDispatch |-> FALSE, acts |-> MaxActs[t]]

\* The others were created on threads that do not run the executor.
TrampolineInit ==
  /\ task = [t \in Tasks |-> NewTask(t)]
  /\ posted = [t \in Tasks |-> IF t \in Unborn THEN 0 ELSE 1]
  /\ current = [w \in Workers |-> NoTask] /\ next = [w \in Workers |-> NoTask]
  /\ stack = [w \in Workers |-> <<>>] /\ depth = [w \in Workers |-> 0]

Ready(bits) == "susp" \in bits /\ "term" \notin bits /\ ("need" \in bits <=> "have" \in bits)
Terminal(bits) == {"susp", "term"} \subseteq bits

Unmade(t) == task[t].place = "unborn" /\ "need" \in task[t].bits

\* A call of activate_task, from the executor's queue or from a dispatch.
Frame(t, dispatched) == [task |-> t, pc |-> "loop", dispatched |-> dispatched]
Top(w) == stack[w][Len(stack[w])]
Calls(s, f) == Append(s, f)
TopAt(s, pc) == [s EXCEPT ![Len(s)].pc = pc]
AtTop(w, pc) == stack[w] # <<>> /\ Top(w).pc = pc

Plus(n) == (n + 1) % Words
Minus(n) == (n + Words - 1) % Words

-----------------------------------------------------------------------------
(* handle_event and schedule_to_run: on a thread that runs no task, and by *)
(* the task that a thread runs.                                            *)

\* What they do to the task itself, given the bits it has after the event.
Handled(t, bits) ==
  IF Ready(bits) THEN [task[t] EXCEPT !.bits = {}, !.preempted = FALSE, !.armed = <<>>]
  ELSE [task[t] EXCEPT !.bits = bits, !.armed = IF "have" \in bits THEN <<>> ELSE @]
Dispatches(w, t) == ~ task[t].preempted /\ depth[w] < kMaxNestingDepth
activate_via_post(t) == posted' = [posted EXCEPT ![t] = @ + 1]

\* Nothing runs on w: the dispatch calls activate_task at once, above s.
EventOnThread(w, t, bits, s) ==
  /\ task' = [task EXCEPT ![t] = Handled(t, bits)]
  /\ IF Ready(bits) /\ Dispatches(w, t)
     THEN /\ stack' = [stack EXCEPT ![w] = Calls(s, Frame(t, TRUE))]
          /\ depth' = [depth EXCEPT ![w] = Plus(@)]
          /\ UNCHANGED posted
     ELSE /\ stack' = [stack EXCEPT ![w] = s]
          /\ IF Ready(bits) THEN activate_via_post(t) ELSE UNCHANGED posted
          /\ UNCHANGED depth

\* c runs on w, and activate_task finds it there: it keeps running, or yields.
Preempts(t, c) == Priority[c] < Priority[t]
EventInTask(w, c, t, bits) ==
  LET acted == [task EXCEPT ![t] = Handled(t, bits), ![c].acts = @ - 1] IN
  IF Ready(bits) /\ Dispatches(w, t) /\ Preempts(t, c)
  THEN /\ task' = [acted EXCEPT ![c].preempted = TRUE, ![c].inDispatch = TRUE]
       /\ next' = [next EXCEPT ![w] = t]
       /\ stack' = [stack EXCEPT ![w] = TopAt(@, IF next[w] = NoTask THEN "exit" ELSE "panic")]
       /\ depth' = [depth EXCEPT ![w] = Plus(@)]
       /\ UNCHANGED posted
  ELSE /\ task' = acted
       /\ IF Ready(bits) THEN activate_via_post(t) ELSE UNCHANGED posted
       /\ UNCHANGED <<next, stack, depth>>

-----------------------------------------------------------------------------
(* activate_task: one round of its loop for each task.                     *)

\* The handler of a post.
Activate(w, t) ==
  /\ stack[w] = <<>> /\ posted[t] > 0
  /\ posted' = [posted EXCEPT ![t] = @ - 1]
  /\ stack' = [stack EXCEPT ![w] = Calls(@, Frame(t, FALSE))]
  /\ UNCHANGED <<task, current, next, depth>>

\* run: a task that yielded inside a dispatch leaves the scope of it here, on
\* whatever thread it has come to.
Leaves(w, t) == IF task[t].inDispatch THEN Minus(depth[w]) ELSE depth[w]
Run(w) ==
  LET t == Top(w).task IN
  /\ AtTop(w, "loop")
  /\ IF current[w] = NoTask
     THEN /\ stack' = [stack EXCEPT ![w] = TopAt(@, "run")]
          /\ current' = [current EXCEPT ![w] = t]
          /\ task' = [task EXCEPT ![t].place = "user", ![t].inDispatch = FALSE]
          /\ depth' = [depth EXCEPT ![w] = Leaves(w, t)]
     ELSE stack' = [stack EXCEPT ![w] = TopAt(@, "panic")] /\ UNCHANGED <<current, task, depth>>
  /\ UNCHANGED <<posted, next>>

\* on_scope_exit: the task has yielded or ended.
Exit(w) ==
  LET t == Top(w).task
      bits == task[t].bits \cup {"susp"} IN
  /\ AtTop(w, "exit")
  /\ current' = [current EXCEPT ![w] = NoTask]
  /\ EventOnThread(w, t, bits,
       TopAt(stack[w], IF current[w] # t THEN "panic" ELSE IF Terminal(bits) THEN "handlers" ELSE "next"))
  /\ UNCHANGED next

\* run_completion_handlers: the tasks that join this one.
Joins(u, t) == task[u].armed = <<"end", t>>
Complete(w) ==
  LET t == Top(w).task IN
  /\ AtTop(w, "handlers")
  /\ \/ /\ \A u \in Tasks : ~ Joins(u, t)
        /\ stack' = [stack EXCEPT ![w] = TopAt(@, "next")]
        /\ UNCHANGED <<task, posted, depth>>
     \/ \E u \in Tasks : Joins(u, t) /\ EventOnThread(w, u, task[u].bits \cup {"have"}, stack[w])
  /\ UNCHANGED <<current, next>>

\* The loop takes next_to_run_ and goes on, or the call returns.
TakenNext_Kept(w) == next
TakenNext(w) == [next EXCEPT ![w] = NoTask]
NextToRun(w) ==
  /\ AtTop(w, "next")
  /\ next' = TakenNext(w)
  /\ IF next[w] = NoTask
     THEN /\ stack' = [stack EXCEPT ![w] = SubSeq(@, 1, Len(@) - 1)]
          /\ depth' = IF Top(w).dispatched THEN [depth EXCEPT ![w] = Minus(@)] ELSE depth
     ELSE /\ stack' = [stack EXCEPT ![w] = TopAt([@ EXCEPT ![Len(@)].task = next[w]], "loop")]
          /\ UNCHANGED depth
  /\ UNCHANGED <<task, posted, current>>

-----------------------------------------------------------------------------
(* What happens to a task that awaits an event from outside, and what the  *)
(* body of the task on w does.                                             *)

Happen(w, t) ==
  /\ stack[w] = <<>> /\ task[t].armed = <<"event">>
  /\ EventOnThread(w, t, task[t].bits \cup {"have"}, <<>>)
  /\ UNCHANGED <<current, next>>

InBody(w) == AtTop(w, "run") /\ task[Top(w).task].place = "user"
Acts(w) == InBody(w) /\ task[Top(w).task].acts > 0

\* await of an event, and join of a task, whose handler is called at once when
\* that task is done.
Await(w) ==
  LET c == Top(w).task IN
  /\ Acts(w)
  /\ \E a \in {<<"event">>} \cup {<<"end", t>> : t \in {u \in Tasks \ {c} : ~ Unmade(u)}} :
       task' = [task EXCEPT ![c] = [@ EXCEPT !.place = "registered", !.acts = @ - 1,
                 !.armed = IF Len(a) = 2 /\ Terminal(task[a[2]].bits) THEN <<>> ELSE a,
                 !.bits = IF Len(a) = 2 /\ Terminal(task[a[2]].bits) THEN {"need", "have"} ELSE {"need"}]]
  /\ UNCHANGED <<posted, current, next, stack, depth>>
AwaitYield(w) ==
  LET c == Top(w).task IN
  /\ AtTop(w, "run") /\ task[c].place = "registered"
  /\ task' = [task EXCEPT ![c].place = "awaiting"]
  /\ stack' = [stack EXCEPT ![w] = TopAt(@, "exit")]
  /\ UNCHANGED <<posted, current, next, depth>>
yield(w) ==
  /\ Acts(w)
  /\ task' = [task EXCEPT ![Top(w).task].acts = @ - 1]
  /\ stack' = [stack EXCEPT ![w] = TopAt(@, "exit")]
  /\ UNCHANGED <<posted, current, next, depth>>

\* It makes an event happen, or creates a task.
Signal(w) ==
  /\ Acts(w)
  /\ \E t \in Tasks :
       /\ task[t].armed = <<"event">>
       /\ EventInTask(w, Top(w).task, t, task[t].bits \cup {"have"})
  /\ UNCHANGED current
Create(w) ==
  /\ Acts(w)
  /\ \E t \in Unborn :
       /\ Unmade(t)
       /\ EventInTask(w, Top(w).task, t, {"need", "have", "susp"})
  /\ UNCHANGED current
Return(w) ==
  /\ InBody(w)
  /\ task' = [task EXCEPT ![Top(w).task] = [@ EXCEPT !.bits = {"term"}, !.place = "over"]]
  /\ stack' = [stack EXCEPT ![w] = TopAt(@, "exit")]
  /\ UNCHANGED <<posted, current, next, depth>>

-----------------------------------------------------------------------------
WorkerGoesOn(w) ==
  \/ \E t \in Tasks : Activate(w, t)
  \/ Run(w) \/ Exit(w) \/ Complete(w) \/ NextToRun(w) \/ AwaitYield(w) \/ Return(w)
TrampolineStep ==
  \E w \in Workers :
    \/ WorkerGoesOn(w) \/ Await(w) \/ yield(w) \/ Signal(w) \/ Create(w)
    \/ \E t \in Tasks : Happen(w, t)

\* A thread goes on with what it does, and with the executor's queue, and the
\* body of a task comes to its end.
TrampolineFairness == \A w \in Workers : WF_trampolineVars(WorkerGoesOn(w))
TrampolineSpec == TrampolineInit /\ [][TrampolineStep]_trampolineVars /\ TrampolineFairness

-----------------------------------------------------------------------------
\* Where the activation of a task can be: the queue, a call of activate_task,
\* next_to_run_.
CallsOf(w, t) ==
  {i \in DOMAIN stack[w] : stack[w][i].task = t /\ stack[w][i].pc \in {"loop", "run", "exit"}}
Activations(t) ==
  posted[t] + Cardinality({w \in Workers : next[w] = t})
    + Cardinality({<<w, i>> \in Workers \X (1 .. 2 * Cardinality(Tasks) + 2 * kMaxNestingDepth) : i \in CallsOf(w, t)})

\* A task that has been claimed is in one of these places, once, and one that
\* has not is in none: preempted, preempting, joined and nested as they are, no
\* activation is lost and none is made twice.  Between a task that yields to a
\* more urgent one and that one nothing runs on the thread, and no BATT_CHECK of
\* activate_task fails.  nesting_depth "limits stack growth": a task may leave
\* the scope that counts it on another thread than it entered it on, and still
\* there are no more dispatches on a stack than kMaxNestingDepth.
ActivatedOnce ==
  /\ \A t \in Tasks :
       Activations(t) = IF "susp" \in task[t].bits \/ Unmade(t) THEN 0 ELSE 1
  /\ \A w \in Workers :
       /\ next[w] # NoTask => AtTop(w, "exit") \/ AtTop(w, "next")
       /\ \A i \in DOMAIN stack[w] :
            /\ stack[w][i].pc # "panic"
            /\ i < Len(stack[w]) => stack[w][i].pc \in {"next", "handlers"}
       /\ Cardinality({i \in DOMAIN stack[w] : stack[w][i].dispatched}) <= kMaxNestingDepth

\* A task that has been claimed runs, and one that joins a task which is done
\* goes on.
Claimed(t) == posted[t] > 0 \/ \E w \in Workers : next[w] = t
JoinsDone(t) == \E u \in Tasks : Joins(t, u) /\ Terminal(task[u].bits)
Activated(t) == ~ Claimed(t) /\ ~ JoinsDone(t)
=============================================================================
