------------------------------- MODULE MCTask -------------------------------
(***************************************************************************)
(* One task and all who touch it, or several tasks on the threads of one   *)
(* executor: two tasks, and a more urgent one that they create.  A         *)
(* behaviour is one of the two, chosen at the start.                       *)
(***************************************************************************)
EXTENDS Task, Sequences

VARIABLES several, s1, s2, s3, s4, s5, s6

tasksVars == <<s1, s2, s3, s4, s5, s6>>
allVars == <<several, vars, tasksVars>>

Tramp == INSTANCE Trampoline WITH
  Workers <- Workers, Tasks <- {1, 2, 3}, NoTask <- 0, Unborn <- {3}, Priority <- <<0, 0, 100>>,
  kMaxNestingDepth <- 1, Words <- 8, MaxActs <- <<1, 1, 1>>,
  task <- s1, posted <- s2, current <- s3, next <- s4, stack <- s5, depth <- s6

NoSingleTask ==
  /\ state = {} /\ self = FALSE /\ scheduler = FALSE /\ body = "" /\ sleeping = FALSE
  /\ armed = FALSE /\ result = FALSE /\ is_preempted = FALSE /\ posted = 0
  /\ handlers = {} /\ leaving = {} /\ invoked = [c \in Callers |-> 0] /\ destroyed = FALSE
  /\ pc = [t \in Threads |-> "idle"]

TasksInit ==
  \/ several = FALSE /\ Init /\ s1 = 0 /\ s2 = 0 /\ s3 = 0 /\ s4 = 0 /\ s5 = 0 /\ s6 = 0
  \/ several = TRUE /\ NoSingleTask /\ Tramp!TrampolineInit

Single == UNCHANGED <<several, tasksVars>>
Several == UNCHANGED <<several, vars>>

TasksNext ==
  \/ ~ several /\ Next /\ Single
  \/ several /\ Tramp!TrampolineStep /\ Several

TasksSpec ==
  /\ TasksInit /\ [][TasksNext]_allVars
  /\ \A w \in Workers :
       /\ WF_allVars((~ several /\ WorkerSteps(w) /\ Single) \/ (several /\ Tramp!WorkerGoesOn(w) /\ Several))
       /\ SF_allVars(~ several /\ RunLock(w) /\ Single)
  /\ \A c \in Callers : WF_allVars(~ several /\ CallerSteps(c) /\ Single) /\ SF_allVars(~ several /\ JoinLock(c) /\ Single)

-----------------------------------------------------------------------------
\* One task is activated and executed by one thread at a time, its handlers are
\* called once, and no check fails; of several, none is lost or activated twice
\* between the executor's queue, next_to_run_ and the calls of activate_task.
RunsAlone == IF several THEN Tramp!ActivatedOnce ELSE TaskRunsAlone

\* Nobody waits for a signal, a preemption or an end that has come, and a task
\* that has been scheduled, or that joins one which is done, runs.
GoesOn ==
  /\ TaskGoesOn
  /\ \A t \in 1 .. 3 : several /\ ~ Tramp!Activated(t) ~> several /\ Tramp!Activated(t)
=============================================================================
