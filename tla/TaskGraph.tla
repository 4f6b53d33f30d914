----------------------------- MODULE TaskGraph -----------------------------
(***************************************************************************)
(* Quantum::ThreadGroup: groups of tasks with dependencies between them,   *)
(* executed by worker threads.  One client thread creates the groups,      *)
(* adds tasks and dependencies, flushes (submits) and waits; the workers   *)
(* run tasks, and whoever settles the last dependency of a group moves its *)
(* tasks to the ready queue.                                               *)
(*                                                                         *)
(* Nothing but the ready queue, done and the counters is locked or atomic, *)
(* so every access of a thread to a group is a step of its own.  A thread  *)
(* has an agenda: the steps it still has to take, innermost call first,    *)
(* each an operation with its argument.                                    *)
(***************************************************************************)
EXTENDS Naturals, Sequences, FiniteSets

CONSTANTS
  Groups,         (* the groups the client creates                           *)
  Tasks,          (* ... and the tasks                                       *)
  GroupOf,        (* Tasks -> Groups                                         *)
  Edges,          (* <<dependee, dependency>>: dependencies it may add       *)
  Workers,
  Client,
  DependeesFirst, (* TRUE iff the client flushes dependees before what they  *)
                  (* depend on                                               *)
  MaxStarts       (* bound on the number of calls of start                   *)

Threads == Workers \cup {Client}

ASSUME GroupAssumption == GroupOf \in [Tasks -> Groups] /\ Edges \subseteq Groups \X Groups
ASSUME ThreadAssumption == Client \notin Workers /\ IsFiniteSet(Workers) /\ Workers # {}
ASSUME ClientAssumption == DependeesFirst \in BOOLEAN /\ MaxStarts \in Nat \ {0}

VARIABLES
  group,    (* the fields of TaskGroup and TaskDeps                          *)
  ready,    (* ready_tasks                                                   *)
  pool,     (* the counters and flags of ThreadGroup, and TaskSignal::counter *)
  agenda,   (* per thread, the steps it has still to take                    *)
  ran       (* per task, how often it ran                                    *)

vars == <<group, ready, pool, agenda, ran>>

Doing(p, op) == agenda[p] # <<>> /\ Head(agenda[p])[1] = op
Arg(p) == Head(agenda[p])[2]

(* p takes its next step, which turns into these.                          *)
Then(p, steps) == agenda' = [agenda EXCEPT ![p] = steps \o Tail(@)]

-----------------------------------------------------------------------------
(* TaskDeps, executed by any thread.                                       *)

(* That g is over is told to d: only d is an argument in the code, g is    *)
(* there for the properties.                                               *)
Satisfied(d, g) == <<"satisfy", <<d, g>>>>

(* Mutant: the dependees are not told.                                     *)
BugNotify(p) ==
  /\ Doing(p, "notify")
  /\ Then(p, <<<<"done", Arg(p)>>>>)
  /\ group' = [group EXCEPT ![Arg(p)].notified = @ + 1]
  /\ pool' = [pool EXCEPT !.signal = @ + 1]
  /\ UNCHANGED <<ready, ran>>
(* notify_dependees: the signal, one dependency_satisfied after the other, *)
(* and done.                                                               *)
Notify(p) ==
  /\ Doing(p, "notify")
  /\ LET g == Arg(p)
     IN /\ Then(p, [i \in DOMAIN group[g].pending |-> Satisfied(group[g].pending[i], g)]
                     \o <<<<"done", g>>>>)
        /\ group' = [group EXCEPT ![g].notified = @ + 1]
  /\ pool' = [pool EXCEPT !.signal = @ + 1]
  /\ UNCHANGED <<ready, ran>>

SetDone(p) ==
  /\ Doing(p, "done")
  /\ group' = [group EXCEPT ![Arg(p)].pending = <<>>, ![Arg(p)].done = TRUE]
  /\ Then(p, <<>>)
  /\ UNCHANGED <<ready, pool, ran>>

(* Mutant: the first dependency releases the group.                        *)
BugSatisfy(p) ==
  /\ Doing(p, "satisfy")
  /\ group' = [group EXCEPT ![Arg(p)[1]].dependencies = @ - 1]
  /\ Then(p, <<<<"release", Arg(p)[1]>>>>)
  /\ UNCHANGED <<ready, pool, ran>>
(* dependency_satisfied: the last dependency releases the group.           *)
Satisfy(p) ==
  /\ Doing(p, "satisfy")
  /\ LET g == Arg(p)[1]
     IN /\ group' = [group EXCEPT ![g].dependencies = @ - 1]
        /\ Then(p, IF group[g].dependencies = 1 THEN <<<<"release", g>>>> ELSE <<>>)
  /\ UNCHANGED <<ready, pool, ran>>

(* The end of dependency_satisfied and of flush: with nothing to do the    *)
(* group is over, else its tasks become ready.                             *)
Release(p) ==
  /\ Doing(p, "release")
  /\ LET g == Arg(p)
         tasks == group[g].tasks
     IN /\ Then(p, IF tasks = <<>> THEN <<<<"notify", g>>>> ELSE <<<<"clear", g>>>>)
        /\ ready' = ready \o tasks
        /\ pool' = [pool EXCEPT !.total = @ + Len(tasks)]
  /\ UNCHANGED <<group, ran>>

Clear(p) ==
  /\ Doing(p, "clear")
  /\ group' = [group EXCEPT ![Arg(p)].tasks = <<>>]
  /\ Then(p, <<>>)
  /\ UNCHANGED <<ready, pool, ran>>

-----------------------------------------------------------------------------
(* thread_looper.                                                          *)

Idle(w) == w \in pool.alive /\ agenda[w] = <<>>

(* Mutant: the task is not popped.                                         *)
BugTake(w) ==
  /\ Idle(w)
  /\ ready # <<>>
  /\ agenda' = [agenda EXCEPT ![w] =
       <<<<"run", Head(ready)>>, <<"complete", Head(ready)>>, <<"count", 0>>>>]
  /\ UNCHANGED <<group, ready, pool, ran>>
Take(w) ==
  /\ Idle(w)
  /\ ready # <<>>
  /\ ready' = Tail(ready)
  /\ agenda' = [agenda EXCEPT ![w] =
       <<<<"run", Head(ready)>>, <<"complete", Head(ready)>>, <<"count", 0>>>>]
  /\ UNCHANGED <<group, pool, ran>>

(* Mutant: a worker leaves as soon as the pool is dead.                    *)
BugExit(w) ==
  /\ Idle(w)
  /\ pool.dead
  /\ pool' = [pool EXCEPT !.alive = @ \ {w}]
  /\ UNCHANGED <<group, ready, agenda, ran>>
Exit(w) ==
  /\ Idle(w)
  /\ pool.dead /\ ready = <<>>
  /\ pool' = [pool EXCEPT !.alive = @ \ {w}]
  /\ UNCHANGED <<group, ready, agenda, ran>>

Run(w) ==
  /\ Doing(w, "run")
  /\ ran' = [ran EXCEPT ![Arg(w)] = @ + 1]
  /\ Then(w, <<>>)
  /\ UNCHANGED <<group, ready, pool>>

(* Mutant: every task ends its group.                                      *)
BugComplete(w) ==
  /\ Doing(w, "complete")
  /\ group' = [group EXCEPT ![GroupOf[Arg(w)]].count = @ - 1]
  /\ Then(w, <<<<"notify", GroupOf[Arg(w)]>>>>)
  /\ UNCHANGED <<ready, pool, ran>>
(* task_completed: the last task of a group ends it.                       *)
Complete(w) ==
  /\ Doing(w, "complete")
  /\ LET g == GroupOf[Arg(w)]
     IN /\ group' = [group EXCEPT ![g].count = @ - 1]
        /\ Then(w, IF group[g].count = 1 THEN <<<<"notify", g>>>> ELSE <<>>)
  /\ UNCHANGED <<ready, pool, ran>>

(* Mutant: fetch_add without adding one to what it returns.                *)
BugCount(w) ==
  /\ Doing(w, "count")
  /\ pool' = [pool EXCEPT !.completed = @ + 1]
  /\ Then(w, <<<<"compare", pool.completed>>>>)
  /\ UNCHANGED <<group, ready, ran>>
Count(w) ==
  /\ Doing(w, "count")
  /\ pool' = [pool EXCEPT !.completed = @ + 1]
  /\ Then(w, <<<<"compare", pool.completed + 1>>>>)
  /\ UNCHANGED <<group, ready, ran>>

Compare(w) ==
  /\ Doing(w, "compare")
  /\ Then(w, IF Arg(w) = pool.total THEN <<<<"wake", 0>>>> ELSE <<>>)
  /\ UNCHANGED <<group, ready, pool, ran>>

(* wait_cond is notified with wait_cond_lock held, which a client in the   *)
(* middle of its predicate holds.                                          *)
Wake(w) ==
  /\ Doing(w, "wake")
  /\ ~Doing(Client, "equals")
  /\ agenda' = [agenda EXCEPT
       ![w] = Tail(@),
       ![Client] = IF Doing(Client, "asleep") THEN <<<<"idle", 0>>>> \o Tail(@) ELSE @]
  /\ UNCHANGED <<group, ready, pool, ran>>

-----------------------------------------------------------------------------
(* The client.                                                             *)

Free == agenda[Client] = <<>>

Start ==
  /\ Free
  /\ ~pool.active /\ pool.starts < MaxStarts
  /\ pool' = [pool EXCEPT !.active = TRUE, !.dead = FALSE, !.alive = Workers, !.starts = @ + 1]
  /\ UNCHANGED <<group, ready, agenda, ran>>

(* Mutant: the task is not counted.                                        *)
BugEnqueue(t) ==
  /\ Free
  /\ ~group[GroupOf[t]].flushed /\ t \notin group[GroupOf[t]].all
  /\ group' = [group EXCEPT ![GroupOf[t]].tasks = Append(@, t), ![GroupOf[t]].all = @ \cup {t}]
  /\ UNCHANGED <<ready, pool, agenda, ran>>
Enqueue(t) ==
  /\ Free
  /\ ~group[GroupOf[t]].flushed /\ t \notin group[GroupOf[t]].all
  /\ group' = [group EXCEPT ![GroupOf[t]].tasks = Append(@, t), ![GroupOf[t]].count = @ + 1,
                            ![GroupOf[t]].all = @ \cup {t}]
  /\ UNCHANGED <<ready, pool, agenda, ran>>

AddDependency(dependee, dependency) ==
  /\ Free
  /\ ~group[dependency].flushed /\ ~group[dependee].flushed
  /\ dependency \notin group[dependee].after
  /\ group' = [group EXCEPT ![dependency].pending = Append(@, dependee),
                            ![dependee].dependencies = @ + 1,
                            ![dependee].after = @ \cup {dependency}]
  /\ UNCHANGED <<ready, pool, agenda, ran>>

(* flush, and then what the client does next.                              *)
Flush(g, next) ==
  /\ Free
  /\ ~group[g].flushed
  /\ DependeesFirst => \A d \in Groups : g \in group[d].after => group[d].flushed
  /\ group' = [group EXCEPT ![g].flushed = TRUE]
  /\ agenda' = [agenda EXCEPT
       ![Client] = (IF group[g].dependencies = 0 THEN <<<<"release", g>>>> ELSE <<>>) \o next]
  /\ UNCHANGED <<ready, pool, ran>>

Submit(g) == Flush(g, <<>>)

(* What must be over before g is, g included: the smallest set of groups   *)
(* with g in it that is closed under "depends on".                         *)
Closed(S) == \A h \in S : group[h].after \subseteq S
Needs(g) == {h \in Groups : \A S \in SUBSET Groups : g \in S /\ Closed(S) => h \in S}

(* A client that waits must have flushed what it waits for.                *)
Wait(g) ==
  /\ Free
  /\ pool.active
  /\ \A h \in Needs(g) \ {g} : group[h].flushed
  /\ IF group[g].flushed
     THEN /\ ~group[g].done
          /\ agenda' = [agenda EXCEPT ![Client] = <<<<"wait", g>>>>]
          /\ UNCHANGED <<group, ready, pool, ran>>
     ELSE Flush(g, <<<<"wait", g>>>>)

Waited ==
  /\ Doing(Client, "wait")
  /\ group[Arg(Client)].done
  /\ Then(Client, <<>>)
  /\ UNCHANGED <<group, ready, pool, ran>>

WaitIdle ==
  /\ Free
  /\ pool.active
  /\ agenda' = [agenda EXCEPT ![Client] = <<<<"idle", 0>>>>]
  /\ UNCHANGED <<group, ready, pool, ran>>

(* The operands of == may be loaded in either order.                       *)
Load ==
  /\ Doing(Client, "idle")
  /\ \E first \in {"total", "completed"} :
       Then(Client, <<<<"equals", <<first, pool[first]>>>>>>)
  /\ UNCHANGED <<group, ready, pool, ran>>

Equals ==
  /\ Doing(Client, "equals")
  /\ LET second == IF Arg(Client)[1] = "total" THEN "completed" ELSE "total"
     IN Then(Client, IF pool[second] = Arg(Client)[2] THEN <<>> ELSE <<<<"asleep", 0>>>>)
  /\ UNCHANGED <<group, ready, pool, ran>>

(* is_idle, whatever it answers.                                           *)
IsIdle == Free /\ UNCHANGED vars

Stop ==
  /\ Free
  /\ pool.active
  /\ agenda' = [agenda EXCEPT ![Client] = <<<<"idle", 0>>, <<"kill", 0>>, <<"join", 0>>>>]
  /\ UNCHANGED <<group, ready, pool, ran>>

Kill ==
  /\ Doing(Client, "kill")
  /\ pool' = [pool EXCEPT !.dead = TRUE]
  /\ Then(Client, <<>>)
  /\ UNCHANGED <<group, ready, ran>>

Join ==
  /\ Doing(Client, "join")
  /\ pool.alive = {}
  /\ pool' = [pool EXCEPT !.active = FALSE, !.dead = FALSE]
  /\ Then(Client, <<>>)
  /\ UNCHANGED <<group, ready, ran>>

-----------------------------------------------------------------------------
Init ==
  /\ group = [g \in Groups |->
       [flushed |-> FALSE, done |-> FALSE, dependencies |-> 0, count |-> 0, tasks |-> <<>>,
        pending |-> <<>>, all |-> {}, after |-> {}, notified |-> 0]]
  /\ ready = <<>>
  /\ pool = [total |-> 0, completed |-> 0, signal |-> 0, active |-> FALSE, dead |-> FALSE,
             alive |-> {}, starts |-> 0]
  /\ agenda = [p \in Threads |-> <<>>]
  /\ ran = [t \in Tasks |-> 0]

AnyThread(p) == Notify(p) \/ SetDone(p) \/ Satisfy(p) \/ Release(p) \/ Clear(p)

Worker(w) ==
  \/ Take(w) \/ Exit(w) \/ Run(w) \/ Complete(w) \/ Count(w) \/ Compare(w) \/ Wake(w)
  \/ AnyThread(w)

Call ==
  \/ Start \/ WaitIdle \/ IsIdle \/ Stop
  \/ \E t \in Tasks : Enqueue(t)
  \/ \E e \in Edges : AddDependency(e[1], e[2])
  \/ \E g \in Groups : Submit(g) \/ Wait(g)

InCall == Waited \/ Load \/ Equals \/ Kill \/ Join \/ AnyThread(Client)

Next == Call \/ InCall \/ \E w \in Workers : Worker(w)

Spec == Init /\ [][Next]_vars

(* Threads that can run do run; nothing makes the client call.             *)
FairSpec == Spec /\ WF_vars(InCall) /\ \A w \in Workers : WF_vars(Worker(w))

-----------------------------------------------------------------------------
(* Properties.                                                             *)

GroupType ==
  [flushed : BOOLEAN, done : BOOLEAN, dependencies : Nat, count : Nat, tasks : Seq(Tasks),
   pending : Seq(Groups), all : SUBSET Tasks, after : SUBSET Groups, notified : Nat]

PoolType ==
  [total : Nat, completed : Nat, signal : Nat, active : BOOLEAN, dead : BOOLEAN,
   alive : SUBSET Workers, starts : 0 .. MaxStarts]

Steps ==
  ({"notify", "done", "release", "clear", "wait"} \X Groups)
    \cup ({"satisfy"} \X (Groups \X Groups))
    \cup ({"run", "complete"} \X Tasks)
    \cup ({"count", "wake", "idle", "asleep", "kill", "join"} \X {0})
    \cup ({"compare"} \X Nat)
    \cup ({"equals"} \X ({"total", "completed"} \X Nat))

TypeOK ==
  /\ group \in [Groups -> GroupType]
  /\ ready \in Seq(Tasks)
  /\ pool \in PoolType
  /\ agenda \in [Threads -> Seq(Steps)]
  /\ ran \in [Tasks -> Nat]

Running(t) == {w \in Workers : Doing(w, "run") /\ Arg(w) = t}
Queued(t) == {i \in DOMAIN ready : ready[i] = t}

(* However the threads interleave, no task is queued or run twice.         *)
TaskOnce == \A t \in Tasks : ran[t] + Cardinality(Running(t)) + Cardinality(Queued(t)) <= 1

(* A group that something waits for (wait, a dependee, the TaskSignal) is  *)
(* reported once, and only when all its tasks have run and all groups it   *)
(* depends on have been reported.                                          *)
ReportedOnceOver ==
  \A g \in Groups : group[g].notified > 0 =>
    /\ group[g].notified = 1 /\ group[g].flushed
    /\ \A t \in group[g].all : ran[t] = 1
    /\ \A h \in group[g].after : group[h].notified = 1

(* No task becomes ready before the groups its group depends on are over.  *)
AfterDependencies ==
  \A g \in Groups : \A t \in group[g].all :
    ran[t] > 0 \/ Running(t) # {} \/ Queued(t) # {} =>
      group[g].flushed /\ \A h \in group[g].after : group[h].notified > 0

(* The assertions of thread_group.cpp:41 and :50.                          *)
AssertionsHold ==
  \A p \in Threads :
    /\ Doing(p, "complete") => group[GroupOf[Arg(p)]].count > 0
    /\ Doing(p, "satisfy") => group[Arg(p)[1]].dependencies > 0

(* stop joins the workers only when every group that could run has: no     *)
(* task is left in the queue though wait_idle, which reads the two         *)
(* counters one after the other, may return too early.                     *)
StopDrains ==
  [][pool.active /\ ~pool'.active =>
       /\ ready = <<>>
       /\ \A g \in Groups : (\A h \in Needs(g) : group[h].flushed) => group[g].done]_vars

(* A flushed group is done eventually once all it needs is flushed.        *)
GroupsFinish ==
  \A g \in Groups :
    pool.active /\ (\A h \in Needs(g) : group[h].flushed) ~> group[g].done

(* wait, wait_idle and stop return: no wake-up is lost.                    *)
CallsReturn == ~Free ~> Free

-----------------------------------------------------------------------------
(* The inductive invariant behind the safety properties, for a client that *)
(* flushes dependees first.  It speaks of the steps in agendas, and of     *)
(* those that must not be there twice.                                     *)

Has(a, s) == \E p \in Threads : \E i \in 1 .. Len(a[p]) : a[p][i] = s

Single == {"release", "notify", "satisfy", "run", "complete"}

OnlyOnce(a) ==
  \A p, q \in Threads : \A i \in 1 .. Len(a[p]), j \in 1 .. Len(a[q]) :
    a[p][i] = a[q][j] /\ a[p][i][1] \in Single => p = q /\ i = j

(* A worker runs a task and then completes it.                             *)
RunFirst(a) ==
  \A p \in Threads : \A i \in 1 .. Len(a[p]) :
    a[p][i][1] = "run" => i = 1 /\ Len(a[p]) >= 2 /\ a[p][2] = <<"complete", a[p][1][2]>>

(* The dependencies of g that have not told it yet that they are over, and *)
(* the tasks of g that have not been counted as completed.                 *)
Open(g) == {h \in group[g].after : group[h].notified = 0 \/ Has(agenda, Satisfied(g, h))}
Finished(t) == ran[t] > 0 /\ ~Has(agenda, <<"complete", t>>)
Unfinished(g) == {t \in group[g].all : ~Finished(t)}

(* The tasks of g have been moved to the ready queue.                      *)
Released(g) == group[g].flushed /\ group[g].dependencies = 0 /\ ~Has(agenda, <<"release", g>>)

(* The atomic counters count what they stand for.                          *)
Counts(g) ==
  /\ IsFiniteSet(group[g].after) /\ group[g].dependencies = Cardinality(Open(g))
  /\ IsFiniteSet(group[g].all) /\ group[g].count = Cardinality(Unfinished(g))
Counted == \A g \in Groups : Counts(g)

(* Until a group is over it lists its dependees, once each.                *)
DependeesListed ==
  \A h \in Groups : group[h].notified = 0 =>
    /\ \A i, j \in DOMAIN group[h].pending : group[h].pending[i] = group[h].pending[j] => i = j
    /\ \A d \in Groups : h \in group[d].after <=> \E i \in DOMAIN group[h].pending : group[h].pending[i] = d

(* Dependees are flushed first, so no flushed groups wait in a circle.     *)
FlushedInOrder ==
  /\ \A d \in Groups : \A h \in group[d].after : group[h].flushed => group[d].flushed
  /\ \A S \in SUBSET {g \in Groups : group[g].flushed} :
       S # {} => \E g \in S : group[g].after \cap S = {}

(* What the steps still to be taken say of groups and tasks.               *)
GroupSteps(g) ==
  /\ Has(agenda, <<"release", g>>) => group[g].flushed /\ group[g].dependencies = 0
  /\ Has(agenda, <<"clear", g>>) => Released(g)
  /\ Has(agenda, <<"notify", g>>) => Released(g) /\ group[g].notified = 0 /\ group[g].count = 0
  /\ Has(agenda, <<"done", g>>) => group[g].notified = 1
  /\ \A h \in Groups : Has(agenda, Satisfied(g, h)) => h \in group[g].after /\ group[h].notified = 1
TaskSteps(t) ==
  /\ Has(agenda, <<"complete", t>>) => t \in group[GroupOf[t]].all /\ Released(GroupOf[t])
  /\ Has(agenda, <<"run", t>>) => ran[t] = 0
StepsSound ==
  /\ OnlyOnce(agenda) /\ RunFirst(agenda)
  /\ \A g \in Groups : GroupSteps(g)
  /\ \A t \in Tasks : TaskSteps(t)

(* A group is reported when it is released and its tasks are finished.     *)
ReportedWhen(g) ==
  /\ group[g].notified \in {0, 1}
  /\ group[g].notified = 1 =>
       Released(g) /\ group[g].count = 0 /\ (group[g].done \/ Has(agenda, <<"done", g>>))
  /\ Released(g) /\ group[g].count = 0 => group[g].notified = 1 \/ Has(agenda, <<"notify", g>>)
Reported == \A g \in Groups : ReportedWhen(g)

(* A task waits with its group, is ready, is being run, or has run.        *)
IsQueued(t) == \E i \in DOMAIN ready : ready[i] = t
Here(t) == t \in group[GroupOf[t]].all /\ Released(GroupOf[t])
Waiting(g) ==
  /\ \A t \in group[g].all : GroupOf[t] = g
  /\ ~Released(g) =>
       /\ \A i, j \in DOMAIN group[g].tasks : group[g].tasks[i] = group[g].tasks[j] => i = j
       /\ \A t \in Tasks : t \in group[g].all <=> \E i \in DOMAIN group[g].tasks : group[g].tasks[i] = t
Place(t) ==
  /\ IsQueued(t) => Here(t) /\ ran[t] = 0 /\ ~Has(agenda, <<"complete", t>>)
  /\ ran[t] > 0 => Here(t) /\ ran[t] = 1
  /\ Here(t) => IsQueued(t) \/ ran[t] = 1 \/ Has(agenda, <<"complete", t>>)
  /\ Has(agenda, <<"complete", t>>) => ran[t] = 1 \/ Has(agenda, <<"run", t>>)
TaskPlaces ==
  /\ \A i, j \in DOMAIN ready : ready[i] = ready[j] => i = j
  /\ \A g \in Groups : Waiting(g)
  /\ \A t \in Tasks : Place(t)

(* stop kills the workers once, and joins them when the queue is empty.    *)
Stopping ==
  /\ \A p \in Threads : \A i \in 1 .. Len(agenda[p]) :
       /\ agenda[p][i][1] = "kill" =>
            Len(agenda[p]) = i + 1 /\ agenda[p][i + 1][1] = "join" /\ ~pool.dead
       /\ agenda[p][i][1] = "join" => p = Client /\ pool.active /\ Len(agenda[p]) = i
  /\ pool.dead => Doing(Client, "join")
  /\ pool.active /\ ~pool.dead => pool.alive = Workers
  /\ \A w \in Workers \ pool.alive : agenda[w] = <<>>
  /\ pool.dead /\ pool.alive = {} => ready = <<>>

(* The graph and the steps on it.                                          *)
GraphInv == Counted /\ DependeesListed /\ FlushedInOrder /\ StepsSound /\ Reported /\ TaskPlaces

(* All of it: what task_completed, dependency_satisfied, flush and stop    *)
(* rely on when each decides from one counter or flag what it alone has to *)
(* do next.                                                                *)
TaskInv == TypeOK /\ GraphInv /\ Stopping
=============================================================================
