-------------------------- MODULE TaskGraph_proofs --------------------------
(***************************************************************************)
(* The safety properties of TaskGraph, for every number of groups, tasks   *)
(* and workers, when the client flushes dependees first.                   *)
(***************************************************************************)
EXTENDS TaskGraph, TLAPS, FiniteSetTheorems

Among(s, steps) == \E i \in 1 .. Len(steps) : steps[i] = s

(* Thread p replaces the first n of its steps, none or one, by others.     *)
Turns(a, e, p, steps, n) ==
  /\ a \in [Threads -> Seq(Steps)] /\ e \in [Threads -> Seq(Steps)]
  /\ steps \in Seq(Steps) /\ n \in {0, 1} /\ n <= Len(a[p])
  /\ \A q \in Threads : q # p => e[q] = a[q]
  /\ Len(e[p]) = Len(steps) + Len(a[p]) - n
  /\ \A i \in 1 .. Len(steps) : e[p][i] = steps[i]
  /\ \A i \in 1 .. Len(e[p]) : i > Len(steps) => e[p][i] = a[p][i - Len(steps) + n]

LEMMA TailTurns ==
  ASSUME NEW a \in [Threads -> Seq(Steps)], NEW p \in Threads, a[p] # <<>>,
         NEW steps \in Seq(Steps), NEW e, e = [a EXCEPT ![p] = steps \o Tail(a[p])]
  PROVE  Turns(a, e, p, steps, 1) /\ a[p][1] = Head(a[p])
<1>1. PICK s \in Seq(Steps) : s = a[p] OBVIOUS
<1>2. s # <<>> BY <1>1
<1>3. PICK t \in Seq(Steps) : t = Tail(s)
  <2>1. Tail(s) \in Seq(Steps) BY <1>2
  <2> QED BY <2>1
<1>4. /\ Len(t) = Len(s) - 1 /\ Len(s) \in Nat /\ Len(s) >= 1 /\ s[1] = Head(s)
      /\ \A i \in 1 .. Len(s) - 1 : t[i] = s[i + 1]
  BY <1>2, <1>3
<1>5. PICK c : c = steps \o t OBVIOUS
<1>6. /\ c \in Seq(Steps) /\ Len(c) = Len(steps) + Len(t) /\ Len(steps) \in Nat
      /\ \A i \in 1 .. Len(steps) : c[i] = steps[i]
      /\ \A i \in 1 .. Len(c) : i > Len(steps) => c[i] = t[i - Len(steps)]
  BY <1>5
<1>7. /\ e \in [Threads -> Seq(Steps)] /\ e[p] = c
      /\ \A q \in Threads : q # p => e[q] = a[q]
  BY <1>1, <1>3, <1>5, <1>6
<1>8. ASSUME NEW i \in 1 .. Len(c), i > Len(steps) PROVE c[i] = s[i - Len(steps) + 1]
  <2>1. i - Len(steps) \in 1 .. Len(s) - 1 BY <1>4, <1>6, <1>8
  <2>2. t[i - Len(steps)] = s[i - Len(steps) + 1] BY <1>4, <2>1
  <2> QED BY <1>6, <1>8, <2>2
<1> QED BY <1>1, <1>4, <1>6, <1>7, <1>8 DEF Turns

LEMMA ThenTurns ==
  ASSUME agenda \in [Threads -> Seq(Steps)], NEW p \in Threads, agenda[p] # <<>>,
         NEW steps \in Seq(Steps), Then(p, steps)
  PROVE  Turns(agenda, agenda', p, steps, 1) /\ agenda[p][1] = Head(agenda[p])
<1>1. agenda' = [agenda EXCEPT ![p] = steps \o Tail(agenda[p])] BY DEF Then
<1> QED BY <1>1, TailTurns

LEMMA SetTurns ==
  ASSUME agenda \in [Threads -> Seq(Steps)], NEW p \in Threads, agenda[p] = <<>>,
         NEW steps \in Seq(Steps), agenda' = [agenda EXCEPT ![p] = steps]
  PROVE  Turns(agenda, agenda', p, steps, 0)
BY DEF Turns

(* What a turn adds to and takes from the steps in agendas.                *)
LEMMA TurnsHas ==
  ASSUME NEW a, NEW e, NEW p \in Threads, NEW steps, NEW n, Turns(a, e, p, steps, n)
  PROVE  \A s : /\ Has(e, s) => Has(a, s) \/ Among(s, steps)
                /\ Among(s, steps) => Has(e, s)
                /\ Has(a, s) => Has(e, s) \/ (n = 1 /\ s = a[p][1])
<1> TAKE s
<1>t. /\ Len(a[p]) \in Nat /\ Len(steps) \in Nat /\ n \in Nat /\ Len(e[p]) \in Nat
  BY DEF Turns
<1>1. ASSUME Has(e, s) PROVE Has(a, s) \/ Among(s, steps)
  <2>1. PICK q \in Threads : \E i \in 1 .. Len(e[q]) : e[q][i] = s BY <1>1 DEF Has
  <2>2. CASE q # p BY <2>1, <2>2 DEF Has, Turns
  <2>3. CASE q = p
    <3>1. PICK i \in 1 .. Len(e[p]) : e[p][i] = s BY <2>1, <2>3
    <3>2. CASE i <= Len(steps) BY <1>t, <3>1, <3>2 DEF Turns, Among
    <3>3. CASE i > Len(steps)
      <4>1. i - Len(steps) + n \in 1 .. Len(a[p]) BY <1>t, <3>3 DEF Turns
      <4>2. a[p][i - Len(steps) + n] = s BY <3>1, <3>3 DEF Turns
      <4> QED BY <4>1, <4>2 DEF Has
    <3> QED BY <1>t, <3>2, <3>3
  <2> QED BY <2>2, <2>3
<1>2. ASSUME Among(s, steps) PROVE Has(e, s)
  <2>1. PICK i \in 1 .. Len(steps) : steps[i] = s BY <1>2 DEF Among
  <2>2. i \in 1 .. Len(e[p]) /\ e[p][i] = s BY <1>t, <2>1 DEF Turns
  <2> QED BY <2>2 DEF Has
<1>3. ASSUME Has(a, s), ~(n = 1 /\ s = a[p][1]) PROVE Has(e, s)
  <2>1. PICK q \in Threads : \E i \in 1 .. Len(a[q]) : a[q][i] = s BY <1>3 DEF Has
  <2>2. CASE q # p BY <2>1, <2>2 DEF Has, Turns
  <2>3. CASE q = p
    <3>1. PICK i \in 1 .. Len(a[p]) : a[p][i] = s BY <2>1, <2>3
    <3>2. i > n BY <1>3, <3>1 DEF Turns
    <3> DEFINE j == i + Len(steps) - n
    <3>3. j \in 1 .. Len(e[p]) /\ j > Len(steps) /\ j - Len(steps) + n = i
      BY <1>t, <3>2 DEF Turns
    <3>4. e[p][j] = a[p][j - Len(steps) + n] BY <3>3 DEF Turns
    <3> QED BY <3>1, <3>3, <3>4 DEF Has
  <2> QED BY <2>2, <2>3
<1> QED BY <1>1, <1>2, <1>3

(* A step that can be there once is gone when it is taken.                 *)
LEMMA TurnsGone ==
  ASSUME NEW a, NEW e, NEW p \in Threads, NEW steps, Turns(a, e, p, steps, 1), OnlyOnce(a),
         a[p][1][1] \in Single, ~Among(a[p][1], steps)
  PROVE  ~Has(e, a[p][1])
<1>t. /\ Len(a[p]) \in Nat /\ Len(steps) \in Nat /\ Len(e[p]) \in Nat /\ 1 \in 1 .. Len(a[p])
  BY DEF Turns
<1> SUFFICES ASSUME NEW q \in Threads, NEW i \in 1 .. Len(e[q]), e[q][i] = a[p][1] PROVE FALSE
  BY DEF Has
<1>1. CASE q # p BY <1>t, <1>1 DEF Turns, OnlyOnce
<1>2. CASE q = p /\ i <= Len(steps) BY <1>t, <1>2 DEF Turns, Among
<1>3. CASE q = p /\ i > Len(steps)
  <2>1. i - Len(steps) + 1 \in 1 .. Len(a[p]) /\ i - Len(steps) + 1 # 1 BY <1>t, <1>3 DEF Turns
  <2>2. a[p][i - Len(steps) + 1] = a[p][1] BY <1>3 DEF Turns
  <2> QED BY <1>t, <2>1, <2>2 DEF OnlyOnce
<1> QED BY <1>t, <1>1, <1>2, <1>3

LEMMA TurnsOnce ==
  ASSUME NEW a, NEW e, NEW p \in Threads, NEW steps, NEW n, Turns(a, e, p, steps, n), OnlyOnce(a),
         \A i, j \in 1 .. Len(steps) : steps[i] = steps[j] /\ steps[i][1] \in Single => i = j,
         \A i \in 1 .. Len(steps) : steps[i][1] \in Single => ~Has(a, steps[i])
  PROVE  OnlyOnce(e)
<1>t. /\ Len(a[p]) \in Nat /\ Len(steps) \in Nat /\ Len(e[p]) \in Nat /\ n \in Nat
  BY DEF Turns
<1> DEFINE Old(q, i) == q # p \/ i > Len(steps)
           at(q, i) == IF q = p THEN i - Len(steps) + n ELSE i
<1>1. ASSUME NEW q \in Threads, NEW i \in 1 .. Len(e[q]), Old(q, i)
      PROVE  at(q, i) \in 1 .. Len(a[q]) /\ e[q][i] = a[q][at(q, i)]
  BY <1>t, <1>1 DEF Turns
<1>2. ASSUME NEW q \in Threads, NEW i \in 1 .. Len(e[q]), ~Old(q, i)
      PROVE  q = p /\ i \in 1 .. Len(steps) /\ e[q][i] = steps[i]
  BY <1>t, <1>2 DEF Turns
<1>3. ASSUME NEW q \in Threads, NEW i \in 1 .. Len(e[q]), Old(q, i) PROVE Has(a, e[q][i])
  BY <1>1, <1>3 DEF Has
<1> SUFFICES ASSUME NEW q \in Threads, NEW r \in Threads,
                    NEW i \in 1 .. Len(e[q]), NEW j \in 1 .. Len(e[r]),
                    e[q][i] = e[r][j], e[q][i][1] \in Single
             PROVE  q = r /\ i = j
  BY DEF OnlyOnce
<1>4. CASE Old(q, i) /\ Old(r, j)
  <2>1. /\ at(q, i) \in 1 .. Len(a[q]) /\ e[q][i] = a[q][at(q, i)]
        /\ at(r, j) \in 1 .. Len(a[r]) /\ e[r][j] = a[r][at(r, j)]
    BY <1>1, <1>4
  <2> HIDE DEF at
  <2> DEFINE k == at(q, i)
             l == at(r, j)
  <2>2. /\ k \in 1 .. Len(a[q]) /\ l \in 1 .. Len(a[r])
        /\ a[q][k] = a[r][l] /\ a[q][k][1] \in Single
    BY <2>1
  <2> HIDE DEF k, l
  <2>3. q = r /\ k = l BY <2>2, Zenon DEF OnlyOnce
  <2>4. q = r /\ at(q, i) = at(r, j) BY <2>3 DEF k, l
  <2> QED BY <1>t, <2>4 DEF at
<1>5. CASE ~Old(q, i) /\ ~Old(r, j) BY <1>2, <1>5
<1>6. CASE Old(q, i) # Old(r, j) BY <1>2, <1>3, <1>6
<1> QED BY <1>4, <1>5, <1>6

LEMMA TurnsRun ==
  ASSUME NEW a, NEW e, NEW p \in Threads, NEW steps, NEW n, Turns(a, e, p, steps, n), RunFirst(a),
         n = 1 \/ a[p] = <<>>,
         \A i \in 1 .. Len(steps) : steps[i][1] # "run"
  PROVE  RunFirst(e)
<1>t. /\ Len(a[p]) \in Nat /\ Len(steps) \in Nat /\ Len(e[p]) \in Nat /\ n \in Nat
  BY DEF Turns
<1> SUFFICES ASSUME NEW q \in Threads, NEW i \in 1 .. Len(e[q]), e[q][i][1] = "run"
             PROVE  i = 1 /\ Len(e[q]) >= 2 /\ e[q][2] = <<"complete", e[q][1][2]>>
  BY DEF RunFirst
<1>1. CASE q # p BY <1>1 DEF Turns, RunFirst
<1>2. CASE q = p /\ i <= Len(steps) BY <1>t, <1>2 DEF Turns
<1>3. CASE q = p /\ i > Len(steps)
  <2>1. i - Len(steps) + n \in 1 .. Len(a[p]) BY <1>t, <1>3 DEF Turns
  <2>2. a[p] # <<>> /\ n = 1 BY <2>1
  <2>3. a[p][i - Len(steps) + 1][1] = "run" BY <1>3, <2>2 DEF Turns
  <2>4. i - Len(steps) + 1 = 1 BY <2>1, <2>2, <2>3 DEF RunFirst
  <2> QED BY <1>3, <2>4, <1>t
<1> QED BY <1>t, <1>1, <1>2, <1>3

-----------------------------------------------------------------------------
(* The steps that the invariant speaks of.                                 *)
Graphic == Single \cup {"done", "clear"}

SameSteps(a, e) ==
  /\ OnlyOnce(e) /\ RunFirst(e)
  /\ \A s : s[1] \in Graphic => (Has(e, s) <=> Has(a, s))

LEMMA ControlSame ==
  ASSUME NEW a, NEW e, NEW p \in Threads, NEW steps, NEW n, Turns(a, e, p, steps, n),
         OnlyOnce(a), RunFirst(a), n = 1 \/ a[p] = <<>>,
         \A i \in 1 .. Len(steps) : steps[i][1] \notin Graphic,
         n = 1 => a[p][1][1] \notin Graphic
  PROVE  SameSteps(a, e)
<1>1. /\ \A i \in 1 .. Len(steps) : steps[i][1] \notin Single /\ steps[i][1] # "run"
      /\ \A s : s[1] \in Graphic => ~Among(s, steps)
  BY DEF Graphic, Single, Among
<1>2. OnlyOnce(e) BY <1>1, TurnsOnce
<1>3. RunFirst(e) BY <1>1, TurnsRun
<1>4. \A s : /\ Has(e, s) => Has(a, s) \/ Among(s, steps)
             /\ Has(a, s) => Has(e, s) \/ (n = 1 /\ s = a[p][1])
  BY TurnsHas
<1> QED BY <1>1, <1>2, <1>3, <1>4, Zenon DEF SameSteps

(* What a thread is about to do.                                           *)
LEMMA DoingHas ==
  ASSUME agenda \in [Threads -> Seq(Steps)], NEW p \in Threads, NEW op, Doing(p, op)
  PROVE  /\ agenda[p] # <<>> /\ agenda[p][1] = <<op, Arg(p)>> /\ Head(agenda[p]) = agenda[p][1]
         /\ Has(agenda, <<op, Arg(p)>>) /\ <<op, Arg(p)>> \in Steps /\ 1 \in 1 .. Len(agenda[p])
<1>1. agenda[p] \in Seq(Steps) /\ agenda[p] # <<>> BY DEF Doing
<1>2. /\ Head(agenda[p]) = agenda[p][1] /\ 1 \in 1 .. Len(agenda[p]) /\ agenda[p][1] \in Steps
  BY <1>1
<1>3. \A s \in Steps : s = <<s[1], s[2]>> BY DEF Steps
<1>4. agenda[p][1] = <<op, Arg(p)>> BY <1>2, <1>3 DEF Doing, Arg
<1> QED BY <1>1, <1>2, <1>4 DEF Has

LEMMA ArgType ==
  ASSUME agenda \in [Threads -> Seq(Steps)], NEW p \in Threads
  PROVE  /\ Doing(p, "notify") \/ Doing(p, "done") \/ Doing(p, "release") \/ Doing(p, "clear")
              \/ Doing(p, "wait") => Arg(p) \in Groups
         /\ Doing(p, "satisfy") => /\ Arg(p)[1] \in Groups /\ Arg(p)[2] \in Groups
                                   /\ Arg(p) = <<Arg(p)[1], Arg(p)[2]>>
         /\ Doing(p, "run") \/ Doing(p, "complete") => Arg(p) \in Tasks
         /\ Doing(p, "equals") => Arg(p)[2] \in Nat
<1>1. /\ \A x : <<"notify", x>> \in Steps \/ <<"done", x>> \in Steps \/ <<"release", x>> \in Steps
                  \/ <<"clear", x>> \in Steps \/ <<"wait", x>> \in Steps => x \in Groups
      /\ \A x : <<"satisfy", x>> \in Steps =>
                  x[1] \in Groups /\ x[2] \in Groups /\ x = <<x[1], x[2]>>
      /\ \A x : <<"run", x>> \in Steps \/ <<"complete", x>> \in Steps => x \in Tasks
      /\ \A x : <<"equals", x>> \in Steps => x[2] \in Nat
  BY DEF Steps
<1>2. \A op : Doing(p, op) => <<op, Arg(p)>> \in Steps BY DoingHas
<1> QED BY <1>1, <1>2

(* Steps that a thread may be given.                                       *)
LEMMA StepTypes ==
  /\ <<>> \in Seq(Steps)
  /\ \A s \in Steps : <<s>> \in Seq(Steps)
  /\ \A g \in Groups : {<<"notify", g>>, <<"done", g>>, <<"release", g>>, <<"clear", g>>,
                         <<"wait", g>>} \subseteq Steps
  /\ \A g, h \in Groups : Satisfied(g, h) \in Steps
  /\ \A t \in Tasks : {<<"run", t>>, <<"complete", t>>} \subseteq Steps
  /\ \A k \in Nat : <<"compare", k>> \in Steps
  /\ \A k \in Nat : \A x \in {"total", "completed"} : <<"equals", <<x, k>>>> \in Steps
  /\ {<<"count", 0>>, <<"wake", 0>>, <<"idle", 0>>, <<"asleep", 0>>, <<"kill", 0>>, <<"join", 0>>}
       \subseteq Steps
<1>1. /\ <<>> \in Seq(Steps)
      /\ \A s \in Steps : <<s>> \in Seq(Steps)
  OBVIOUS
<1> QED BY <1>1 DEF Steps, Satisfied

LEMMA GroupFields ==
  ASSUME NEW x \in GroupType
  PROVE  /\ x.flushed \in BOOLEAN /\ x.done \in BOOLEAN /\ x.dependencies \in Nat /\ x.count \in Nat
         /\ x.tasks \in Seq(Tasks) /\ x.pending \in Seq(Groups) /\ x.all \in SUBSET Tasks
         /\ x.after \in SUBSET Groups /\ x.notified \in Nat
BY DEF GroupType

(* Steps that do not touch the graph keep its invariant.                   *)
LEMMA SameGraph ==
  ASSUME SameSteps(agenda, agenda'), UNCHANGED <<group, ready, ran>>, GraphInv
  PROVE  GraphInv'
<1>1. /\ OnlyOnce(agenda)' /\ RunFirst(agenda)'
      /\ \A g : /\ Has(agenda', <<"release", g>>) <=> Has(agenda, <<"release", g>>)
                /\ Has(agenda', <<"clear", g>>) <=> Has(agenda, <<"clear", g>>)
                /\ Has(agenda', <<"notify", g>>) <=> Has(agenda, <<"notify", g>>)
                /\ Has(agenda', <<"done", g>>) <=> Has(agenda, <<"done", g>>)
                /\ Has(agenda', <<"complete", g>>) <=> Has(agenda, <<"complete", g>>)
                /\ Has(agenda', <<"run", g>>) <=> Has(agenda, <<"run", g>>)
                /\ \A h : Has(agenda', Satisfied(g, h)) <=> Has(agenda, Satisfied(g, h))
  BY DEF SameSteps, Graphic, Single, OnlyOnce, RunFirst, Satisfied
<1>2. \A g : Open(g)' = Open(g) BY <1>1 DEF Open
<1>3. \A g : Unfinished(g)' = Unfinished(g) BY <1>1 DEF Unfinished, Finished
<1>4. \A g : Released(g)' <=> Released(g) BY <1>1 DEF Released
<1>5. Counted' BY <1>2, <1>3 DEF Counted, Counts, GraphInv
<1>6. DependeesListed' BY DEF DependeesListed, GraphInv
<1>7. FlushedInOrder' BY DEF FlushedInOrder, GraphInv
<1>8. StepsSound' BY <1>1, <1>4 DEF StepsSound, GroupSteps, TaskSteps, GraphInv
<1>9. Reported' BY <1>1, <1>4 DEF Reported, ReportedWhen, GraphInv
<1>10. TaskPlaces'
  <2>1. \A g : Waiting(g)' <=> Waiting(g) BY <1>4 DEF Waiting
  <2>2. \A t : Place(t)' <=> Place(t)
    <3>1. \A t : (IsQueued(t)' <=> IsQueued(t)) /\ (Here(t)' <=> Here(t)) BY <1>4 DEF IsQueued, Here
    <3> QED BY <1>1, <3>1 DEF Place
  <2> QED BY <2>1, <2>2 DEF TaskPlaces, GraphInv
<1> QED BY <1>5, <1>6, <1>7, <1>8, <1>9, <1>10 DEF GraphInv

-----------------------------------------------------------------------------
(* What EXCEPT does to a group.                                            *)
Flow(x, y) == y.flushed = x.flushed /\ y.done = x.done /\ y.notified = x.notified
Links(x, y) == y.dependencies = x.dependencies /\ y.pending = x.pending /\ y.after = x.after
Content(x, y) == y.count = x.count /\ y.tasks = x.tasks /\ y.all = x.all

LEMMA SetNotified ==
  ASSUME NEW x \in GroupType, NEW v \in Nat, NEW y, y = [x EXCEPT !.notified = v]
  PROVE  /\ y \in GroupType /\ y.notified = v /\ y.flushed = x.flushed /\ y.done = x.done
         /\ Links(x, y) /\ Content(x, y)
BY DEF GroupType, Links, Content

LEMMA SetOver ==
  ASSUME NEW x \in GroupType, NEW y, y = [x EXCEPT !.pending = <<>>, !.done = TRUE]
  PROVE  /\ y \in GroupType /\ y.done = TRUE /\ y.flushed = x.flushed /\ y.notified = x.notified
         /\ y.dependencies = x.dependencies /\ y.after = x.after /\ Content(x, y)
<1>1. <<>> \in Seq(Groups) OBVIOUS
<1> QED BY <1>1 DEF GroupType, Content

LEMMA SetPending ==
  ASSUME NEW x \in GroupType, NEW pending \in Seq(Groups), NEW y, y = [x EXCEPT !.pending = pending]
  PROVE  /\ y \in GroupType /\ y.pending = pending /\ y.dependencies = x.dependencies
         /\ y.after = x.after /\ Flow(x, y) /\ Content(x, y)
BY DEF GroupType, Flow, Content

LEMMA SetDependencies ==
  ASSUME NEW x \in GroupType, NEW v \in Nat, NEW y, y = [x EXCEPT !.dependencies = v]
  PROVE  /\ y \in GroupType /\ y.dependencies = v /\ y.pending = x.pending /\ y.after = x.after
         /\ Flow(x, y) /\ Content(x, y)
BY DEF GroupType, Content, Flow

LEMMA SetCount ==
  ASSUME NEW x \in GroupType, NEW v \in Nat, NEW y, y = [x EXCEPT !.count = v]
  PROVE  /\ y \in GroupType /\ y.count = v /\ y.tasks = x.tasks /\ y.all = x.all
         /\ Flow(x, y) /\ Links(x, y)
BY DEF GroupType, Links, Flow

LEMMA SetTasks ==
  ASSUME NEW x \in GroupType, NEW y, y = [x EXCEPT !.tasks = <<>>]
  PROVE  /\ y \in GroupType /\ y.count = x.count /\ y.all = x.all /\ Flow(x, y) /\ Links(x, y)
<1>1. <<>> \in Seq(Tasks) OBVIOUS
<1> QED BY <1>1 DEF GroupType, Links, Flow

LEMMA SetFlushed ==
  ASSUME NEW x \in GroupType, NEW y, y = [x EXCEPT !.flushed = TRUE]
  PROVE  /\ y \in GroupType /\ y.flushed = TRUE /\ y.done = x.done /\ y.notified = x.notified
         /\ Links(x, y) /\ Content(x, y)
BY DEF GroupType, Links, Content

LEMMA SetGroup ==
  ASSUME group \in [Groups -> GroupType], NEW g \in Groups, NEW y \in GroupType,
         group' = [group EXCEPT ![g] = y]
  PROVE  /\ group' \in [Groups -> GroupType] /\ group'[g] = y
         /\ \A h \in Groups : h # g => group'[h] = group[h]
OBVIOUS

LEMMA PoolSet ==
  ASSUME pool \in PoolType
  PROVE  /\ [pool EXCEPT !.signal = @ + 1] \in PoolType
         /\ [pool EXCEPT !.completed = @ + 1] \in PoolType
         /\ \A k \in Nat : [pool EXCEPT !.total = @ + k] \in PoolType
BY DEF PoolType

LEMMA SameOrder ==
  ASSUME FlushedInOrder, \A g \in Groups : group[g].after \subseteq Groups,
         \A g \in Groups : group'[g].flushed = group[g].flushed /\ group'[g].after = group[g].after
  PROVE  FlushedInOrder'
<1>1. {g \in Groups : group'[g].flushed} = {g \in Groups : group[g].flushed} OBVIOUS
<1>2. ASSUME NEW S \in SUBSET {g \in Groups : group'[g].flushed}, S # {}
      PROVE  \E g \in S : group'[g].after \cap S = {}
  <2>1. \E g \in S : group[g].after \cap S = {} BY <1>1, <1>2 DEF FlushedInOrder
  <2> QED BY <2>1
<1>3. ASSUME NEW d \in Groups, NEW h \in group'[d].after, group'[h].flushed
      PROVE  group'[d].flushed
  BY <1>3 DEF FlushedInOrder
<1> QED BY <1>2, <1>3 DEF FlushedInOrder

LEMMA Parts ==
  ASSUME GraphInv
  PROVE  /\ \A g \in Groups : Counts(g) /\ GroupSteps(g) /\ ReportedWhen(g) /\ Waiting(g)
         /\ \A t \in Tasks : TaskSteps(t) /\ Place(t) /\ GroupOf[t] \in Groups
         /\ OnlyOnce(agenda) /\ RunFirst(agenda)
BY GroupAssumption DEF GraphInv, Counted, StepsSound, Reported, TaskPlaces

(* A thread replaces its first step by another one, or drops it.           *)
LEMMA OneStep ==
  ASSUME agenda \in [Threads -> Seq(Steps)], NEW p \in Threads, NEW op, Doing(p, op),
         OnlyOnce(agenda), RunFirst(agenda),
         NEW x \in Steps, NEW more \in BOOLEAN, Then(p, IF more THEN <<x>> ELSE <<>>),
         more => /\ x[1] # "run" /\ x # <<op, Arg(p)>>
                 /\ x[1] \in Single => ~Has(agenda, x)
  PROVE  /\ agenda' \in [Threads -> Seq(Steps)] /\ OnlyOnce(agenda)' /\ RunFirst(agenda)'
         /\ op \in Single => ~Has(agenda', <<op, Arg(p)>>)
         /\ \A s : Has(agenda', s) => Has(agenda, s) \/ (more /\ s = x)
         /\ \A s : Has(agenda, s) /\ s # <<op, Arg(p)>> => Has(agenda', s)
         /\ more => Has(agenda', x)
<1> DEFINE H == <<op, Arg(p)>>
<1>1. agenda[p] # <<>> /\ agenda[p][1] = H /\ H[1] = op BY DoingHas
<1>2. PICK steps : steps = IF more THEN <<x>> ELSE <<>> OBVIOUS
<1>3. /\ steps \in Seq(Steps)
      /\ \A i \in 1 .. Len(steps) : more /\ i = 1 /\ steps[i] = x
      /\ more => 1 \in 1 .. Len(steps) /\ steps[1] = x
  BY <1>2
<1>4. \A s : Among(s, steps) <=> more /\ s = x BY <1>3 DEF Among
<1> HIDE DEF H
<1>5. Turns(agenda, agenda', p, steps, 1) BY <1>1, <1>2, <1>3, ThenTurns
<1>6. agenda' \in [Threads -> Seq(Steps)] BY <1>5 DEF Turns
<1>7. OnlyOnce(agenda') BY <1>3, <1>5, TurnsOnce
<1>8. RunFirst(agenda') BY <1>3, <1>5, TurnsRun
<1>9. op \in Single => ~Has(agenda', H)
  <2>1. ~Among(H, steps) BY <1>4 DEF H
  <2> QED BY <1>1, <1>5, <2>1, TurnsGone
<1>10. \A s : /\ Has(agenda', s) => Has(agenda, s) \/ Among(s, steps)
              /\ Among(s, steps) => Has(agenda', s)
              /\ Has(agenda, s) => Has(agenda', s) \/ s = H
  BY <1>1, <1>5, TurnsHas
<1> QED BY <1>4, <1>6, <1>7, <1>8, <1>9, <1>10 DEF H, OnlyOnce, RunFirst

LEMMA Concat ==
  ASSUME NEW S, NEW s \in Seq(S), NEW t \in Seq(S)
  PROVE  /\ s \o t \in Seq(S) /\ Len(s \o t) = Len(s) + Len(t)
         /\ \A i \in 1 .. Len(s) : (s \o t)[i] = s[i]
         /\ \A i \in 1 .. Len(s \o t) : i > Len(s) => (s \o t)[i] = t[i - Len(s)]
OBVIOUS

-----------------------------------------------------------------------------
(* One lemma per action that changes the graph.                            *)

(* The steps that Notify turns into.                                       *)
LEMMA ToldSteps ==
  ASSUME NEW g \in Groups, NEW pending \in Seq(Groups), NEW steps,
         steps = [i \in DOMAIN pending |-> Satisfied(pending[i], g)] \o <<<<"done", g>>>>
  PROVE  /\ steps \in Seq(Steps) /\ Len(steps) = Len(pending) + 1
         /\ \A i \in 1 .. Len(pending) : steps[i] = Satisfied(pending[i], g)
         /\ steps[Len(pending) + 1] = <<"done", g>>
<1> DEFINE n == Len(pending)
           told == [i \in 1 .. n |-> Satisfied(pending[i], g)]
           last == <<"done", g>>
<1>1. n \in Nat /\ DOMAIN pending = 1 .. n /\ \A i \in 1 .. n : pending[i] \in Groups OBVIOUS
<1> HIDE DEF n
<1>2. \A i \in 1 .. n : Satisfied(pending[i], g) \in Steps BY <1>1, StepTypes
<1>3. told \in Seq(Steps) /\ Len(told) = n /\ \A i \in 1 .. n : told[i] = Satisfied(pending[i], g)
  BY <1>1, <1>2
<1>4. last \in Steps BY StepTypes
<1>5. steps = told \o <<last>> BY <1>1
<1> DEFINE tail == <<last>>
<1> HIDE DEF told, last
<1>t. tail \in Seq(Steps) /\ Len(tail) = 1 /\ tail[1] = last BY <1>4
<1> HIDE DEF tail
<1>u. steps = told \o tail BY <1>5 DEF tail
<1>6. /\ steps \in Seq(Steps) /\ Len(steps) = Len(told) + Len(tail)
      /\ \A i \in 1 .. Len(told) : steps[i] = told[i]
      /\ \A i \in 1 .. Len(steps) : i > Len(told) => steps[i] = tail[i - Len(told)]
  <2>1. /\ told \o tail \in Seq(Steps) /\ Len(told \o tail) = Len(told) + Len(tail)
        /\ \A i \in 1 .. Len(told) : (told \o tail)[i] = told[i]
        /\ \A i \in 1 .. Len(told \o tail) : i > Len(told) => (told \o tail)[i] = tail[i - Len(told)]
    BY <1>3, <1>t, Concat, Zenon
  <2> QED BY <1>u, <2>1
<1>7. steps[n + 1] = last
  <2>1. PICK k \in Nat : k = n + 1 BY <1>1
  <2>2. k \in 1 .. Len(steps) /\ k > Len(told) /\ k - Len(told) = 1
    BY <1>1, <1>3, <1>6, <1>t, <2>1
  <2>3. steps[k] = tail[k - Len(told)] BY <1>6, <2>2
  <2> QED BY <1>t, <2>1, <2>2, <2>3
<1> QED BY <1>3, <1>6, <1>7, <1>t DEF n, last

LEMMA NotifyKeeps ==
  ASSUME TypeOK, GraphInv, NEW p \in Threads, Notify(p)
  PROVE  TypeOK' /\ GraphInv'
<1>a. agenda \in [Threads -> Seq(Steps)] /\ group \in [Groups -> GroupType] BY DEF TypeOK
<1>b. Doing(p, "notify") BY DEF Notify
<1>c. PICK g \in Groups : g = Arg(p) BY <1>a, <1>b, ArgType
<1> DEFINE H == <<"notify", g>>
<1>1. agenda[p] # <<>> /\ agenda[p][1] = H /\ Has(agenda, H)
  BY <1>a, <1>b, <1>c, DoingHas
<1>d. PICK x \in GroupType : x = group[g] BY <1>a
<1>2. x.pending \in Seq(Groups) /\ x.notified \in Nat BY GroupFields
<1>e. PICK n \in Nat : n = Len(x.pending) BY <1>2
<1>3. PICK steps : steps = [i \in DOMAIN x.pending |-> Satisfied(x.pending[i], g)] \o <<<<"done", g>>>>
  OBVIOUS
<1>4. /\ steps \in Seq(Steps) /\ Len(steps) = n + 1
      /\ \A i \in 1 .. n : steps[i] = Satisfied(x.pending[i], g)
      /\ steps[n + 1] = <<"done", g>>
  <2>1. /\ steps \in Seq(Steps) /\ Len(steps) = Len(x.pending) + 1
        /\ \A i \in 1 .. Len(x.pending) : steps[i] = Satisfied(x.pending[i], g)
        /\ steps[Len(x.pending) + 1] = <<"done", g>>
    <3>1. PICK pending \in Seq(Groups) : pending = x.pending BY <1>2
    <3>2. steps = [i \in DOMAIN pending |-> Satisfied(pending[i], g)] \o <<<<"done", g>>>>
      BY <1>3, <3>1
    <3>3. /\ steps \in Seq(Steps) /\ Len(steps) = Len(pending) + 1
          /\ \A i \in 1 .. Len(pending) : steps[i] = Satisfied(pending[i], g)
          /\ steps[Len(pending) + 1] = <<"done", g>>
      BY <3>2, ToldSteps, Zenon
    <3> QED BY <3>1, <3>3
  <2> QED BY <1>e, <2>1
<1>5. Then(p, steps) BY <1>3, <1>c, <1>d DEF Notify
<1>6. Turns(agenda, agenda', p, steps, 1) BY <1>a, <1>1, <1>4, <1>5, ThenTurns
<1>7. \A i \in 1 .. Len(steps) : i \in 1 .. n \/ i = n + 1 BY <1>4
<1>8. \A s : Among(s, steps) <=> s = <<"done", g>> \/ \E i \in 1 .. n : s = Satisfied(x.pending[i], g)
  <2>1. n + 1 \in 1 .. Len(steps) /\ \A i \in 1 .. n : i \in 1 .. Len(steps) BY <1>4
  <2> QED BY <1>4, <1>7, <2>1 DEF Among
(* The group.                                                              *)
<1>9. PICK y : y = [x EXCEPT !.notified = x.notified + 1] OBVIOUS
<1>10. /\ y \in GroupType /\ y.notified = x.notified + 1 /\ y.flushed = x.flushed /\ y.done = x.done
       /\ Links(x, y) /\ Content(x, y)
  BY <1>2, <1>9, SetNotified
<1>11. group' = [group EXCEPT ![g] = y] BY <1>c, <1>d, <1>9 DEF Notify
<1>12. /\ group' \in [Groups -> GroupType] /\ group'[g] = y
       /\ \A h \in Groups : h # g => group'[h] = group[h]
  BY <1>a, <1>10, <1>11, SetGroup
<1>13. UNCHANGED <<ready, ran>> BY DEF Notify
<1>14. TypeOK'
  <2>1. pool' \in PoolType BY PoolSet DEF Notify, TypeOK
  <2>2. agenda' \in [Threads -> Seq(Steps)] BY <1>6 DEF Turns
  <2> QED BY <1>12, <1>13, <2>1, <2>2 DEF TypeOK
(* The steps.                                                              *)
<1>15. OnlyOnce(agenda) /\ RunFirst(agenda) /\ GroupSteps(g) BY <1>1 DEF GraphInv, StepsSound
<1>16. Released(g) /\ x.notified = 0 /\ x.count = 0 BY <1>1, <1>15, <1>d DEF GroupSteps
<1>17. \A d \in Groups : ~Has(agenda, Satisfied(d, g))
  <2>1. \A d \in Groups : GroupSteps(d) BY DEF GraphInv, StepsSound
  <2>2. group[g].notified # 1 BY <1>16, <1>d
  <2> QED BY <2>1, <2>2, Zenon DEF GroupSteps
<1>18. /\ \A i, j \in 1 .. n : x.pending[i] = x.pending[j] => i = j
       /\ \A d \in Groups : g \in group[d].after <=> \E i \in 1 .. n : x.pending[i] = d
       /\ \A i \in 1 .. n : x.pending[i] \in Groups
  <2>1. DOMAIN x.pending = 1 .. n BY <1>2, <1>e
  <2> QED BY <1>2, <1>16, <1>d, <2>1 DEF GraphInv, DependeesListed
<1>19. OnlyOnce(agenda')
  <2>1. \A i, j \in 1 .. Len(steps) : steps[i] = steps[j] /\ steps[i][1] \in Single => i = j
    BY <1>4, <1>7, <1>18 DEF Satisfied, Single
  <2>2. \A i \in 1 .. Len(steps) : steps[i][1] \in Single => ~Has(agenda, steps[i])
    BY <1>4, <1>7, <1>17, <1>18 DEF Single
  <2> QED BY <1>6, <1>15, <2>1, <2>2, TurnsOnce
<1>20. RunFirst(agenda')
  <2>1. \A i \in 1 .. Len(steps) : steps[i][1] # "run" BY <1>4, <1>7 DEF Satisfied
  <2> QED BY <1>6, <1>15, <2>1, TurnsRun
<1>21. ~Has(agenda', H)
  <2>1. ~Among(H, steps) BY <1>8 DEF Satisfied
  <2> QED BY <1>1, <1>6, <1>15, <2>1, TurnsGone DEF Single
<1>22. /\ \A s : Has(agenda, s) /\ s # H => Has(agenda', s)
       /\ \A s : Among(s, steps) => Has(agenda', s)
       /\ \A s : Has(agenda', s) => Has(agenda, s) \/ Among(s, steps)
  BY <1>1, <1>6, TurnsHas
<1>23. /\ \A h : Has(agenda', <<"release", h>>) <=> Has(agenda, <<"release", h>>)
       /\ \A h : Has(agenda', <<"clear", h>>) <=> Has(agenda, <<"clear", h>>)
       /\ \A h : Has(agenda', <<"notify", h>>) <=> Has(agenda, <<"notify", h>>) /\ h # g
       /\ \A h : Has(agenda', <<"done", h>>) <=> Has(agenda, <<"done", h>>) \/ h = g
       /\ \A t : Has(agenda', <<"complete", t>>) <=> Has(agenda, <<"complete", t>>)
       /\ \A t : Has(agenda', <<"run", t>>) <=> Has(agenda, <<"run", t>>)
  BY <1>8, <1>21, <1>22 DEF Satisfied
<1>24. \A d, h \in Groups : Has(agenda', Satisfied(d, h)) <=>
         Has(agenda, Satisfied(d, h)) \/ (h = g /\ g \in group[d].after)
  BY <1>8, <1>18, <1>22 DEF Satisfied
(* The parts of the invariant.                                             *)
<1>25. \A h \in Groups : /\ Flow(group[h], group'[h]) \/ h = g
                         /\ group'[h].flushed = group[h].flushed /\ group'[h].done = group[h].done
                         /\ Links(group[h], group'[h]) /\ Content(group[h], group'[h])
  BY <1>10, <1>12, <1>d DEF Flow, Links, Content
<1>26. \A h \in Groups : Released(h)' <=> Released(h)
  BY <1>23, <1>25 DEF Released, Links
<1>27. Counted'
  <2> SUFFICES ASSUME NEW d \in Groups PROVE Counts(d)' BY DEF Counted
  <2>1. group[d].after \subseteq Groups BY <1>a, GroupFields
  <2>2. Open(d)' = Open(d)
    BY <1>10, <1>12, <1>16, <1>24, <1>25, <1>d, <2>1 DEF Open, Flow, Links
  <2>3. Unfinished(d)' = Unfinished(d) BY <1>13, <1>23, <1>25 DEF Unfinished, Finished, Content
  <2>4. Counts(d) BY DEF GraphInv, Counted
  <2> QED BY <1>25, <2>2, <2>3, <2>4 DEF Counts, Links, Content
<1>28. DependeesListed'
  BY <1>2, <1>10, <1>12, <1>16, <1>25 DEF GraphInv, DependeesListed, Links
<1>29. FlushedInOrder'
  <2>1. \A h \in Groups : group[h].after \subseteq Groups BY <1>a, GroupFields
  <2> QED BY <1>25, <2>1, SameOrder DEF GraphInv, Links
<1>30. StepsSound'
  <2>1. ASSUME NEW h \in Groups PROVE GroupSteps(h)'
    <3>1. GroupSteps(h) BY DEF GraphInv, StepsSound
    <3> QED BY <1>10, <1>12, <1>16, <1>23, <1>24, <1>25, <1>26, <1>d, <3>1
            DEF GroupSteps, Flow, Links, Content
  <2>2. ASSUME NEW t \in Tasks PROVE TaskSteps(t)'
    <3>1. TaskSteps(t) /\ GroupOf[t] \in Groups BY GroupAssumption DEF GraphInv, StepsSound
    <3> QED BY <1>13, <1>23, <1>25, <1>26, <3>1 DEF TaskSteps, Content
  <2> QED BY <1>19, <1>20, <2>1, <2>2 DEF StepsSound
<1>31. Reported'
  <2> SUFFICES ASSUME NEW h \in Groups PROVE ReportedWhen(h)' BY DEF Reported
  <2>1. ReportedWhen(h) BY DEF GraphInv, Reported
  <2> QED BY <1>10, <1>12, <1>16, <1>23, <1>25, <1>26, <1>d, <2>1 DEF ReportedWhen, Flow, Links, Content
<1>32. TaskPlaces'
  <2>1. ASSUME NEW h \in Groups PROVE Waiting(h)'
    BY <1>25, <1>26 DEF Waiting, Content, GraphInv, TaskPlaces
  <2>2. ASSUME NEW t \in Tasks PROVE Place(t)'
    <3>1. GroupOf[t] \in Groups BY GroupAssumption
    <3>2. (IsQueued(t)' <=> IsQueued(t)) /\ (Here(t)' <=> Here(t))
      BY <1>13, <1>25, <1>26, <3>1 DEF IsQueued, Here, Content
    <3> QED BY <1>13, <1>23, <3>2 DEF Place, GraphInv, TaskPlaces
  <2> QED BY <1>13, <2>1, <2>2 DEF TaskPlaces, GraphInv
<1> QED BY <1>14, <1>27, <1>28, <1>29, <1>30, <1>31, <1>32 DEF GraphInv

LEMMA SetDoneKeeps ==
  ASSUME TypeOK, GraphInv, NEW p \in Threads, SetDone(p)
  PROVE  TypeOK' /\ GraphInv'
<1>a. agenda \in [Threads -> Seq(Steps)] /\ group \in [Groups -> GroupType] BY DEF TypeOK
<1>b. Doing(p, "done") BY DEF SetDone
<1>c. PICK g \in Groups : g = Arg(p) BY <1>a, <1>b, ArgType
<1>d. PICK x \in GroupType : x = group[g] BY <1>a
<1> DEFINE H == <<"done", g>>
<1>1. Has(agenda, H) BY <1>a, <1>b, <1>c, DoingHas
<1>2. /\ agenda' \in [Threads -> Seq(Steps)] /\ OnlyOnce(agenda)' /\ RunFirst(agenda)'
      /\ \A s : Has(agenda', s) => Has(agenda, s)
      /\ \A s : Has(agenda, s) /\ s # H => Has(agenda', s)
  <2>1. PICK s \in Steps : TRUE BY StepTypes
  <2>2. Then(p, IF FALSE THEN <<s>> ELSE <<>>) BY DEF SetDone
  <2> HIDE DEF H
  <2>3. H = <<"done", Arg(p)>> BY <1>c DEF H
  <2> QED BY <1>a, <1>b, <2>1, <2>2, <2>3, OneStep, Parts
<1>3. PICK y : y = [x EXCEPT !.pending = <<>>, !.done = TRUE] OBVIOUS
<1>4. /\ y \in GroupType /\ y.done = TRUE /\ y.flushed = x.flushed /\ y.notified = x.notified
      /\ y.dependencies = x.dependencies /\ y.after = x.after /\ Content(x, y)
  BY <1>3, SetOver
<1>5. group' = [group EXCEPT ![g] = y] BY <1>c, <1>d, <1>3 DEF SetDone
<1>6. /\ group' \in [Groups -> GroupType] /\ group'[g] = y
      /\ \A h \in Groups : h # g => group'[h] = group[h]
  BY <1>a, <1>4, <1>5, SetGroup
<1>7. UNCHANGED <<ready, pool, ran>> BY DEF SetDone
<1>8. TypeOK' BY <1>2, <1>6, <1>7 DEF TypeOK
<1>9. /\ \A h : Has(agenda', <<"release", h>>) <=> Has(agenda, <<"release", h>>)
      /\ \A h : Has(agenda', <<"clear", h>>) <=> Has(agenda, <<"clear", h>>)
      /\ \A h : Has(agenda', <<"notify", h>>) <=> Has(agenda, <<"notify", h>>)
      /\ \A h : Has(agenda', <<"done", h>>) => Has(agenda, <<"done", h>>)
      /\ \A h : Has(agenda, <<"done", h>>) => Has(agenda', <<"done", h>>) \/ h = g
      /\ \A t : Has(agenda', <<"complete", t>>) <=> Has(agenda, <<"complete", t>>)
      /\ \A t : Has(agenda', <<"run", t>>) <=> Has(agenda, <<"run", t>>)
      /\ \A d, h : Has(agenda', Satisfied(d, h)) <=> Has(agenda, Satisfied(d, h))
  BY <1>2 DEF Satisfied
<1>10. x.notified = 1 BY <1>1, <1>d, Parts DEF GroupSteps
<1>11. \A h \in Groups :
         /\ group'[h].flushed = group[h].flushed /\ group'[h].notified = group[h].notified
         /\ group'[h].dependencies = group[h].dependencies /\ group'[h].after = group[h].after
         /\ Content(group[h], group'[h])
         /\ group'[h].done = group[h].done \/ (h = g /\ group'[h].done)
  BY <1>4, <1>6, <1>d DEF Content
<1>12. \A h \in Groups : Released(h)' <=> Released(h) BY <1>9, <1>11 DEF Released
<1>13. \A h \in Groups : group[h].after \subseteq Groups BY <1>a, GroupFields
<1>14. Counted'
  <2> SUFFICES ASSUME NEW d \in Groups PROVE Counts(d)' BY DEF Counted
  <2>1. Open(d)' = Open(d) BY <1>9, <1>11, <1>13 DEF Open
  <2>2. Unfinished(d)' = Unfinished(d) BY <1>7, <1>9, <1>11 DEF Unfinished, Finished, Content
  <2> QED BY <1>11, <2>1, <2>2, Parts DEF Counts, Content
<1>15. DependeesListed'
  <2>1. \A h \in Groups : group'[h].notified = 0 => group'[h] = group[h]
    BY <1>4, <1>6, <1>10
  <2> QED BY <1>11, <2>1 DEF GraphInv, DependeesListed
<1>16. FlushedInOrder' BY <1>11, <1>13, SameOrder DEF GraphInv
<1>17. StepsSound'
  <2>1. ASSUME NEW h \in Groups PROVE GroupSteps(h)'
    <3>1. GroupSteps(h) BY Parts
    <3> QED BY <1>9, <1>11, <1>12, <3>1 DEF GroupSteps, Content
  <2>2. ASSUME NEW t \in Tasks PROVE TaskSteps(t)'
    <3>1. TaskSteps(t) /\ GroupOf[t] \in Groups BY Parts
    <3> QED BY <1>7, <1>9, <1>11, <1>12, <3>1 DEF TaskSteps, Content
  <2> QED BY <1>2, <2>1, <2>2 DEF StepsSound
<1>18. Reported'
  <2> SUFFICES ASSUME NEW h \in Groups PROVE ReportedWhen(h)' BY DEF Reported
  <2>1. ReportedWhen(h) BY Parts
  <2>2. group[h].done \/ Has(agenda, <<"done", h>>) => group'[h].done \/ Has(agenda', <<"done", h>>)
    BY <1>4, <1>6, <1>9, <1>11
  <2> QED BY <1>9, <1>11, <1>12, <2>1, <2>2 DEF ReportedWhen, Content
<1>19. TaskPlaces'
  <2>1. ASSUME NEW h \in Groups PROVE Waiting(h)'
    <3>1. Waiting(h) BY Parts
    <3> QED BY <1>11, <1>12, <3>1 DEF Waiting, Content
  <2>2. ASSUME NEW t \in Tasks PROVE Place(t)'
    <3>1. Place(t) /\ GroupOf[t] \in Groups BY Parts
    <3>2. (IsQueued(t)' <=> IsQueued(t)) /\ (Here(t)' <=> Here(t))
      BY <1>7, <1>11, <1>12, <3>1 DEF IsQueued, Here, Content
    <3> QED BY <1>7, <1>9, <3>1, <3>2 DEF Place
  <2> QED BY <1>7, <2>1, <2>2 DEF TaskPlaces, GraphInv
<1> QED BY <1>8, <1>14, <1>15, <1>16, <1>17, <1>18, <1>19 DEF GraphInv

LEMMA ClearKeeps ==
  ASSUME TypeOK, GraphInv, NEW p \in Threads, Clear(p)
  PROVE  TypeOK' /\ GraphInv'
<1>a. agenda \in [Threads -> Seq(Steps)] /\ group \in [Groups -> GroupType] BY DEF TypeOK
<1>b. Doing(p, "clear") BY DEF Clear
<1>c. PICK g \in Groups : g = Arg(p) BY <1>a, <1>b, ArgType
<1>d. PICK x \in GroupType : x = group[g] BY <1>a
<1> DEFINE H == <<"clear", g>>
<1>1. Has(agenda, H) BY <1>a, <1>b, <1>c, DoingHas
<1>2. /\ agenda' \in [Threads -> Seq(Steps)] /\ OnlyOnce(agenda)' /\ RunFirst(agenda)'
      /\ \A s : Has(agenda', s) => Has(agenda, s)
      /\ \A s : Has(agenda, s) /\ s # H => Has(agenda', s)
  <2>1. PICK s \in Steps : TRUE BY StepTypes
  <2>2. Then(p, IF FALSE THEN <<s>> ELSE <<>>) BY DEF Clear
  <2> HIDE DEF H
  <2>3. H = <<"clear", Arg(p)>> BY <1>c DEF H
  <2> QED BY <1>a, <1>b, <2>1, <2>2, <2>3, OneStep, Parts
<1>3. PICK y : y = [x EXCEPT !.tasks = <<>>] OBVIOUS
<1>4. /\ y \in GroupType /\ y.count = x.count /\ y.all = x.all /\ Flow(x, y) /\ Links(x, y)
  BY <1>3, SetTasks
<1>5. group' = [group EXCEPT ![g] = y] BY <1>c, <1>d, <1>3 DEF Clear
<1>6. /\ group' \in [Groups -> GroupType] /\ group'[g] = y
      /\ \A h \in Groups : h # g => group'[h] = group[h]
  BY <1>a, <1>4, <1>5, SetGroup
<1>7. UNCHANGED <<ready, pool, ran>> BY DEF Clear
<1>8. TypeOK' BY <1>2, <1>6, <1>7 DEF TypeOK
<1>9. /\ \A h : Has(agenda', <<"release", h>>) <=> Has(agenda, <<"release", h>>)
      /\ \A h : Has(agenda', <<"clear", h>>) => Has(agenda, <<"clear", h>>)
      /\ \A h : Has(agenda', <<"notify", h>>) <=> Has(agenda, <<"notify", h>>)
      /\ \A h : Has(agenda', <<"done", h>>) <=> Has(agenda, <<"done", h>>)
      /\ \A t : Has(agenda', <<"complete", t>>) <=> Has(agenda, <<"complete", t>>)
      /\ \A t : Has(agenda', <<"run", t>>) <=> Has(agenda, <<"run", t>>)
      /\ \A d, h : Has(agenda', Satisfied(d, h)) <=> Has(agenda, Satisfied(d, h))
  BY <1>2 DEF Satisfied
<1>10. Released(g) BY <1>1, Parts DEF GroupSteps
<1>11. \A h \in Groups :
         /\ Flow(group[h], group'[h]) /\ Links(group[h], group'[h])
         /\ group'[h].count = group[h].count /\ group'[h].all = group[h].all
         /\ h # g => group'[h] = group[h]
  BY <1>4, <1>6, <1>d DEF Flow, Links
<1>12. \A h \in Groups : Released(h)' <=> Released(h) BY <1>9, <1>11 DEF Released, Flow, Links
<1>13. \A h \in Groups : group[h].after \subseteq Groups BY <1>a, GroupFields
<1>14. Counted'
  <2> SUFFICES ASSUME NEW d \in Groups PROVE Counts(d)' BY DEF Counted
  <2>1. Open(d)' = Open(d) BY <1>9, <1>11, <1>13 DEF Open, Flow, Links
  <2>2. Unfinished(d)' = Unfinished(d) BY <1>7, <1>9, <1>11 DEF Unfinished, Finished
  <2> QED BY <1>11, <2>1, <2>2, Parts DEF Counts, Links
<1>15. DependeesListed' BY <1>11 DEF GraphInv, DependeesListed, Flow, Links
<1>16. FlushedInOrder' BY <1>11, <1>13, SameOrder DEF GraphInv, Flow, Links
<1>17. StepsSound'
  <2>1. ASSUME NEW h \in Groups PROVE GroupSteps(h)'
    <3>1. GroupSteps(h) BY Parts
    <3> QED BY <1>9, <1>11, <1>12, <3>1 DEF GroupSteps, Flow, Links
  <2>2. ASSUME NEW t \in Tasks PROVE TaskSteps(t)'
    <3>1. TaskSteps(t) /\ GroupOf[t] \in Groups BY Parts
    <3> QED BY <1>7, <1>9, <1>11, <1>12, <3>1 DEF TaskSteps
  <2> QED BY <1>2, <2>1, <2>2 DEF StepsSound
<1>18. Reported'
  <2> SUFFICES ASSUME NEW h \in Groups PROVE ReportedWhen(h)' BY DEF Reported
  <2>1. ReportedWhen(h) BY Parts
  <2> QED BY <1>9, <1>11, <1>12, <2>1 DEF ReportedWhen, Flow
<1>19. TaskPlaces'
  <2>1. ASSUME NEW h \in Groups PROVE Waiting(h)'
    <3>1. Waiting(h) BY Parts
    <3> QED BY <1>10, <1>11, <1>12, <3>1 DEF Waiting
  <2>2. ASSUME NEW t \in Tasks PROVE Place(t)'
    <3>1. Place(t) /\ GroupOf[t] \in Groups BY Parts
    <3>2. (IsQueued(t)' <=> IsQueued(t)) /\ (Here(t)' <=> Here(t))
      BY <1>7, <1>11, <1>12, <3>1 DEF IsQueued, Here
    <3> QED BY <1>7, <1>9, <3>1, <3>2 DEF Place
  <2> QED BY <1>7, <2>1, <2>2 DEF TaskPlaces, GraphInv
<1> QED BY <1>8, <1>14, <1>15, <1>16, <1>17, <1>18, <1>19 DEF GraphInv

(* A finite set that loses or gains an element.                            *)
LEMMA OneLess ==
  ASSUME NEW S, IsFiniteSet(S), NEW x \in S, NEW n \in Nat, n = Cardinality(S)
  PROVE  n > 0 /\ n - 1 \in Nat /\ n - 1 = Cardinality(S \ {x})
<1>1. Cardinality(S \ {x}) = Cardinality(S) - 1 BY FS_RemoveElement
<1>2. IsFiniteSet(S \ {x}) BY FS_RemoveElement
<1>3. Cardinality(S \ {x}) \in Nat BY <1>2, FS_CardinalityType
<1> QED BY <1>1, <1>3

LEMMA OneMore ==
  ASSUME NEW S, IsFiniteSet(S), NEW x, x \notin S
  PROVE  IsFiniteSet(S \cup {x}) /\ Cardinality(S \cup {x}) = Cardinality(S) + 1
BY FS_AddElement

LEMMA Countable ==
  ASSUME NEW g \in Groups, GraphInv
  PROVE  IsFiniteSet(Open(g)) /\ IsFiniteSet(Unfinished(g))
<1>1. Counts(g) BY Parts
<1>2. Open(g) \subseteq group[g].after /\ Unfinished(g) \subseteq group[g].all
  BY DEF Open, Unfinished
<1> QED BY <1>1, <1>2, FS_Subset DEF Counts

LEMMA SatisfyKeeps ==
  ASSUME TypeOK, GraphInv, NEW p \in Threads, Satisfy(p)
  PROVE  TypeOK' /\ GraphInv'
<1>a. agenda \in [Threads -> Seq(Steps)] /\ group \in [Groups -> GroupType] BY DEF TypeOK
<1>b. Doing(p, "satisfy") BY DEF Satisfy
<1>c. PICK g \in Groups, k \in Groups : Arg(p) = <<g, k>> BY <1>a, <1>b, ArgType
<1>d. PICK x \in GroupType : x = group[g] BY <1>a
<1>e. x.dependencies \in Nat BY GroupFields
<1>f. PICK n \in Nat : n = x.dependencies BY <1>e
<1> DEFINE H == Satisfied(g, k)
           more == n = 1
<1>1. Has(agenda, H) BY <1>a, <1>b, <1>c, DoingHas DEF Satisfied
<1>2. k \in x.after /\ group[k].notified = 1 BY <1>1, <1>d, Parts DEF GroupSteps
<1>3. k \in Open(g) BY <1>1, <1>2, <1>d DEF Open
<1>4. n > 0 /\ n - 1 \in Nat /\ n - 1 = Cardinality(Open(g) \ {k})
  <2>1. n = Cardinality(Open(g)) /\ IsFiniteSet(Open(g)) BY <1>d, <1>f, Parts, Countable DEF Counts
  <2> QED BY <1>3, <2>1, OneLess
<1>5. x.flushed
  <2>1. group[k].flushed BY <1>2, Parts DEF ReportedWhen, Released
  <2> QED BY <1>2, <1>d, <2>1 DEF GraphInv, FlushedInOrder
<1>6. ~Released(g) /\ ~Has(agenda, <<"release", g>>)
  <2>1. group[g].dependencies # 0 BY <1>4, <1>d, <1>f
  <2>2. GroupSteps(g) BY Parts
  <2> QED BY <2>1, <2>2 DEF Released, GroupSteps
<1>7. /\ agenda' \in [Threads -> Seq(Steps)] /\ OnlyOnce(agenda)' /\ RunFirst(agenda)'
      /\ ~Has(agenda', H)
      /\ \A s : Has(agenda', s) => Has(agenda, s) \/ (more /\ s = <<"release", g>>)
      /\ \A s : Has(agenda, s) /\ s # H => Has(agenda', s)
      /\ more => Has(agenda', <<"release", g>>)
  <2>1. PICK s \in Steps : s = <<"release", g>> BY StepTypes
  <2>2. Then(p, IF more THEN <<s>> ELSE <<>>) BY <1>c, <1>d, <1>f, <2>1 DEF Satisfy
  <2>3. H = <<"satisfy", Arg(p)>> BY <1>c DEF Satisfied
  <2>4. s[1] # "run" /\ s # H /\ ~Has(agenda, s) BY <1>6, <2>1 DEF Satisfied
  <2>5. "satisfy" \in Single BY DEF Single
  <2>6. PICK m \in BOOLEAN : m <=> more OBVIOUS
  <2> HIDE DEF H, more
  <2>7. Then(p, IF m THEN <<s>> ELSE <<>>) BY <2>2, <2>6
  <2> QED BY <1>a, <1>b, <2>1, <2>3, <2>4, <2>5, <2>6, <2>7, OneStep, Parts
<1>8. PICK y : y = [x EXCEPT !.dependencies = n - 1] OBVIOUS
<1>9. /\ y \in GroupType /\ y.dependencies = n - 1 /\ y.pending = x.pending /\ y.after = x.after
      /\ Flow(x, y) /\ Content(x, y)
  BY <1>4, <1>8, SetDependencies
<1>10. group' = [group EXCEPT ![g] = y] BY <1>c, <1>d, <1>f, <1>8 DEF Satisfy
<1>11. /\ group' \in [Groups -> GroupType] /\ group'[g] = y
       /\ \A h \in Groups : h # g => group'[h] = group[h]
  BY <1>a, <1>9, <1>10, SetGroup
<1>12. UNCHANGED <<ready, pool, ran>> BY DEF Satisfy
<1>13. TypeOK' BY <1>7, <1>11, <1>12 DEF TypeOK
<1>14. /\ \A h : h # g => (Has(agenda', <<"release", h>>) <=> Has(agenda, <<"release", h>>))
       /\ Has(agenda', <<"release", g>>) <=> more
       /\ \A h : Has(agenda', <<"clear", h>>) <=> Has(agenda, <<"clear", h>>)
       /\ \A h : Has(agenda', <<"notify", h>>) <=> Has(agenda, <<"notify", h>>)
       /\ \A h : Has(agenda', <<"done", h>>) <=> Has(agenda, <<"done", h>>)
       /\ \A t : Has(agenda', <<"complete", t>>) <=> Has(agenda, <<"complete", t>>)
       /\ \A t : Has(agenda', <<"run", t>>) <=> Has(agenda, <<"run", t>>)
       /\ \A d, h : Has(agenda', Satisfied(d, h)) <=> Has(agenda, Satisfied(d, h)) /\ ~(d = g /\ h = k)
  <2>1. \A h : /\ <<"release", h>> # H /\ <<"clear", h>> # H /\ <<"notify", h>> # H
                   /\ <<"done", h>> # H /\ <<"complete", h>> # H /\ <<"run", h>> # H
    BY DEF Satisfied
  <2> HIDE DEF H, more
  <2>3. \A d, h : Has(agenda', Satisfied(d, h)) <=> Has(agenda, Satisfied(d, h)) /\ ~(d = g /\ h = k)
    <3> TAKE d, h
    <3>1. PICK s : s = Satisfied(d, h) OBVIOUS
    <3>2. /\ Has(agenda', s) => Has(agenda, s) \/ (more /\ s = <<"release", g>>)
          /\ Has(agenda, s) /\ s # H => Has(agenda', s)
      BY <1>7
    <3>4. s # <<"release", g>> BY <3>1 DEF Satisfied
    <3>5. s = H <=> d = g /\ h = k BY <3>1 DEF H, Satisfied
    <3>3. ~Has(agenda', H) BY <1>7
    <3> QED BY <3>1, <3>2, <3>3, <3>4, <3>5
  <2> QED BY <1>6, <1>7, <2>1, <2>3
<1>15. \A h \in Groups :
         /\ Flow(group[h], group'[h]) /\ Content(group[h], group'[h])
         /\ group'[h].pending = group[h].pending /\ group'[h].after = group[h].after
         /\ h # g => group'[h] = group[h]
  BY <1>9, <1>11, <1>d DEF Flow, Content
<1>16. \A h \in Groups : Released(h)' <=> Released(h)
  <2>1. ~Released(g)' BY <1>9, <1>11, <1>14 DEF Released
  <2> QED BY <1>6, <1>11, <1>14, <2>1 DEF Released
<1>17. \A h \in Groups : group[h].after \subseteq Groups BY <1>a, GroupFields
<1>18. Counted'
  <2> SUFFICES ASSUME NEW d \in Groups PROVE Counts(d)' BY DEF Counted
  <2>1. d # g => Open(d)' = Open(d) BY <1>14, <1>15, <1>17 DEF Open, Flow
  <2>2. Open(g)' = Open(g) \ {k} BY <1>2, <1>14, <1>15, <1>17 DEF Open, Flow
  <2>3. Unfinished(d)' = Unfinished(d) BY <1>12, <1>14, <1>15 DEF Unfinished, Finished, Content
  <2> QED BY <1>4, <1>9, <1>11, <1>15, <2>1, <2>2, <2>3, Parts DEF Counts, Content
<1>19. DependeesListed' BY <1>15 DEF GraphInv, DependeesListed, Flow
<1>20. FlushedInOrder' BY <1>15, <1>17, SameOrder DEF GraphInv, Flow
<1>21. StepsSound'
  <2>1. ASSUME NEW h \in Groups PROVE GroupSteps(h)'
    <3>1. GroupSteps(h) BY Parts
    <3>2. Has(agenda', <<"release", h>>) => group'[h].flushed /\ group'[h].dependencies = 0
      BY <1>5, <1>9, <1>11, <1>14, <1>15, <1>d, <3>1 DEF GroupSteps, Flow
    <3> QED BY <1>14, <1>15, <1>16, <3>1, <3>2 DEF GroupSteps, Flow, Content
  <2>2. ASSUME NEW t \in Tasks PROVE TaskSteps(t)'
    <3>1. TaskSteps(t) /\ GroupOf[t] \in Groups BY Parts
    <3> QED BY <1>12, <1>14, <1>15, <1>16, <3>1 DEF TaskSteps, Content
  <2> QED BY <1>7, <2>1, <2>2 DEF StepsSound
<1>22. Reported'
  <2> SUFFICES ASSUME NEW h \in Groups PROVE ReportedWhen(h)' BY DEF Reported
  <2>1. ReportedWhen(h) BY Parts
  <2> QED BY <1>14, <1>15, <1>16, <2>1 DEF ReportedWhen, Flow, Content
<1>23. TaskPlaces'
  <2>1. ASSUME NEW h \in Groups PROVE Waiting(h)'
    <3>1. Waiting(h) BY Parts
    <3> QED BY <1>15, <1>16, <3>1 DEF Waiting, Content
  <2>2. ASSUME NEW t \in Tasks PROVE Place(t)'
    <3>1. Place(t) /\ GroupOf[t] \in Groups BY Parts
    <3>2. (IsQueued(t)' <=> IsQueued(t)) /\ (Here(t)' <=> Here(t))
      BY <1>12, <1>15, <1>16, <3>1 DEF IsQueued, Here, Content
    <3> QED BY <1>12, <1>14, <3>1, <3>2 DEF Place
  <2> QED BY <1>12, <2>1, <2>2 DEF TaskPlaces, GraphInv
<1> QED BY <1>13, <1>18, <1>19, <1>20, <1>21, <1>22, <1>23 DEF GraphInv

LEMMA ReleaseKeeps ==
  ASSUME TypeOK, GraphInv, NEW p \in Threads, Release(p)
  PROVE  TypeOK' /\ GraphInv'
<1>a. /\ agenda \in [Threads -> Seq(Steps)] /\ group \in [Groups -> GroupType]
      /\ ready \in Seq(Tasks) /\ ran \in [Tasks -> Nat] /\ pool \in PoolType
  BY DEF TypeOK
<1>b. Doing(p, "release") BY DEF Release
<1>c. PICK g \in Groups : g = Arg(p) BY <1>a, <1>b, ArgType
<1>d. PICK tasks \in Seq(Tasks) : tasks = group[g].tasks BY <1>a, GroupFields
<1>e. PICK n \in Nat : n = Len(tasks) OBVIOUS
<1> DEFINE H == <<"release", g>>
<1>1. Has(agenda, H) BY <1>a, <1>b, <1>c, DoingHas
<1>2. group[g].flushed /\ group[g].dependencies = 0 BY <1>1, Parts DEF GroupSteps
<1>3. ~Released(g) BY <1>1 DEF Released
<1>4. /\ group[g].notified = 0 /\ ~Has(agenda, <<"notify", g>>) /\ ~Has(agenda, <<"clear", g>>)
  BY <1>3, Parts DEF ReportedWhen, GroupSteps
<1>5. PICK s \in Steps : s = IF tasks = <<>> THEN <<"notify", g>> ELSE <<"clear", g>> BY StepTypes
<1>6. /\ agenda' \in [Threads -> Seq(Steps)] /\ OnlyOnce(agenda)' /\ RunFirst(agenda)'
      /\ ~Has(agenda', H) /\ Has(agenda', s)
      /\ \A r : Has(agenda', r) => Has(agenda, r) \/ r = s
      /\ \A r : Has(agenda, r) /\ r # H => Has(agenda', r)
  <2>1. Then(p, IF TRUE THEN <<s>> ELSE <<>>) BY <1>c, <1>d, <1>5 DEF Release
  <2>2. H = <<"release", Arg(p)>> BY <1>c
  <2>3. s[1] # "run" /\ s # H /\ ~Has(agenda, s) BY <1>4, <1>5
  <2>4. "release" \in Single BY DEF Single
  <2> HIDE DEF H
  <2> QED BY <1>a, <1>b, <2>1, <2>2, <2>3, <2>4, OneStep, Parts
<1>7. ready' = ready \o tasks /\ UNCHANGED <<group, ran>> BY <1>c, <1>d DEF Release
<1>8. /\ ready' \in Seq(Tasks) /\ Len(ready') = Len(ready) + n
      /\ \A i \in 1 .. Len(ready) : ready'[i] = ready[i]
      /\ \A i \in 1 .. Len(ready') : i > Len(ready) => ready'[i] = tasks[i - Len(ready)]
  <2>1. /\ ready \o tasks \in Seq(Tasks) /\ Len(ready \o tasks) = Len(ready) + Len(tasks)
        /\ \A i \in 1 .. Len(ready) : (ready \o tasks)[i] = ready[i]
        /\ \A i \in 1 .. Len(ready \o tasks) :
             i > Len(ready) => (ready \o tasks)[i] = tasks[i - Len(ready)]
    BY <1>a, Concat, Zenon
  <2> QED BY <1>e, <1>7, <2>1
<1>9. TypeOK'
  <2>1. pool' \in PoolType BY <1>a, <1>c, <1>d, <1>e, PoolSet DEF Release
  <2> QED BY <1>a, <1>6, <1>7, <1>8, <2>1 DEF TypeOK
<1>10. /\ \A h : h # g => (Has(agenda', <<"release", h>>) <=> Has(agenda, <<"release", h>>))
       /\ ~Has(agenda', <<"release", g>>)
       /\ \A h : Has(agenda', <<"clear", h>>) => Has(agenda, <<"clear", h>>) \/ h = g
       /\ \A h : Has(agenda, <<"notify", h>>) => Has(agenda', <<"notify", h>>)
       /\ \A h : Has(agenda', <<"notify", h>>) => Has(agenda, <<"notify", h>>) \/ (h = g /\ tasks = <<>>)
       /\ tasks = <<>> => Has(agenda', <<"notify", g>>)
       /\ \A h : Has(agenda', <<"done", h>>) <=> Has(agenda, <<"done", h>>)
       /\ \A t : Has(agenda', <<"complete", t>>) <=> Has(agenda, <<"complete", t>>)
       /\ \A t : Has(agenda', <<"run", t>>) <=> Has(agenda, <<"run", t>>)
       /\ \A d, h : Has(agenda', Satisfied(d, h)) <=> Has(agenda, Satisfied(d, h))
  BY <1>5, <1>6 DEF Satisfied
<1>11. \A h \in Groups : Released(h)' <=> Released(h) \/ h = g
  BY <1>2, <1>7, <1>10 DEF Released
(* What is released.                                                       *)
<1>12. DOMAIN tasks = 1 .. n /\ DOMAIN ready = 1 .. Len(ready) /\ DOMAIN ready' = 1 .. Len(ready')
       /\ Len(ready) \in Nat
  BY <1>a, <1>e, <1>8
<1>13. /\ \A i, j \in 1 .. n : tasks[i] = tasks[j] => i = j
       /\ \A t \in Tasks : t \in group[g].all <=> \E i \in 1 .. n : tasks[i] = t
       /\ \A t \in group[g].all : GroupOf[t] = g
       /\ \A i \in 1 .. n : tasks[i] \in Tasks /\ tasks[i] \in group[g].all
  <2>1. Waiting(g) BY Parts
  <2>2. \A i \in 1 .. n : tasks[i] \in Tasks BY <1>e
  <2> QED BY <1>3, <1>d, <1>12, <2>1, <2>2 DEF Waiting
<1>14. \A t \in group[g].all : t \in Tasks /\ ~IsQueued(t) /\ ran[t] = 0 /\ ~Has(agenda, <<"complete", t>>)
  <2> SUFFICES ASSUME NEW t \in group[g].all
               PROVE  t \in Tasks /\ ~IsQueued(t) /\ ran[t] = 0 /\ ~Has(agenda, <<"complete", t>>)
    OBVIOUS
  <2>1. t \in Tasks BY <1>a, GroupFields
  <2>2. ~Here(t) BY <1>3, <1>13 DEF Here
  <2>3. Place(t) /\ TaskSteps(t) BY <2>1, Parts
  <2>4. ran[t] \in Nat BY <1>a, <2>1
  <2> QED BY <2>1, <2>2, <2>3, <2>4 DEF Place, TaskSteps, Here
<1>15. \A t \in Tasks : IsQueued(t)' <=> IsQueued(t) \/ t \in group[g].all
  <2> SUFFICES ASSUME NEW t \in Tasks PROVE IsQueued(t)' <=> IsQueued(t) \/ t \in group[g].all
    OBVIOUS
  <2>1. ASSUME NEW i \in 1 .. Len(ready'), ready'[i] = t PROVE IsQueued(t) \/ t \in group[g].all
    <3>1. CASE i <= Len(ready) BY <1>8, <1>12, <2>1, <3>1 DEF IsQueued
    <3>2. CASE i > Len(ready)
      <4>1. i - Len(ready) \in 1 .. n BY <1>8, <1>12, <3>2
      <4> QED BY <1>8, <1>13, <2>1, <3>2, <4>1
    <3> QED BY <1>12, <3>1, <3>2
  <2>2. ASSUME IsQueued(t) PROVE \E i \in 1 .. Len(ready') : ready'[i] = t
    <3>1. PICK i \in 1 .. Len(ready) : ready[i] = t BY <1>12, <2>2 DEF IsQueued
    <3>2. i \in 1 .. Len(ready') BY <1>8, <1>12
    <3> QED BY <1>8, <3>1, <3>2
  <2>3. ASSUME t \in group[g].all PROVE \E i \in 1 .. Len(ready') : ready'[i] = t
    <3>1. PICK i \in 1 .. n : tasks[i] = t BY <1>13, <2>3
    <3>2. PICK j \in Nat : j = i + Len(ready) BY <1>12
    <3>3. j \in 1 .. Len(ready') /\ j > Len(ready) /\ j - Len(ready) = i BY <1>8, <1>12, <3>2
    <3> QED BY <1>8, <3>1, <3>3
  <2> QED BY <1>12, <2>1, <2>2, <2>3 DEF IsQueued
<1>16. \A i, j \in DOMAIN ready' : ready'[i] = ready'[j] => i = j
  <2> SUFFICES ASSUME NEW i \in 1 .. Len(ready'), NEW j \in 1 .. Len(ready'), ready'[i] = ready'[j]
               PROVE  i = j
    BY <1>12
  <2>1. \A k, l \in 1 .. Len(ready) : ready[k] = ready[l] => k = l BY <1>12 DEF GraphInv, TaskPlaces
  <2>2. \A k \in 1 .. Len(ready) : ready[k] \in Tasks /\ IsQueued(ready[k])
    <3>1. \A k \in 1 .. Len(ready) : ready[k] \in Tasks BY <1>a
    <3>2. \A k \in DOMAIN ready : IsQueued(ready[k]) BY Zenon DEF IsQueued
    <3> QED BY <1>12, <3>1, <3>2
  <2>3. \A k \in 1 .. Len(ready') : k <= Len(ready) => k \in 1 .. Len(ready) /\ ready'[k] = ready[k]
    BY <1>8, <1>12
  <2>4. ASSUME NEW k \in 1 .. Len(ready'), k > Len(ready)
        PROVE  k - Len(ready) \in 1 .. n /\ ready'[k] = tasks[k - Len(ready)]
    BY <1>8, <1>12, <2>4
  <2>5. CASE i <= Len(ready) /\ j <= Len(ready) BY <2>1, <2>3, <2>5
  <2>6. CASE i > Len(ready) /\ j > Len(ready)
    <3>1. i - Len(ready) = j - Len(ready) BY <1>13, <2>4, <2>6
    <3> QED BY <1>12, <3>1
  <2>7. CASE i <= Len(ready) /\ j > Len(ready)
    BY <1>13, <1>14, <2>2, <2>3, <2>4, <2>7
  <2>8. CASE i > Len(ready) /\ j <= Len(ready)
    BY <1>13, <1>14, <2>2, <2>3, <2>4, <2>8
  <2> QED BY <1>12, <2>5, <2>6, <2>7, <2>8
<1>17. tasks = <<>> <=> group[g].count = 0
  <2>1. group[g].count = Cardinality(Unfinished(g)) /\ IsFiniteSet(Unfinished(g))
    BY Parts, Countable DEF Counts
  <2>2. Unfinished(g) = group[g].all BY <1>14 DEF Unfinished, Finished
  <2>3. tasks = <<>> <=> group[g].all = {}
    <3>1. tasks = <<>> <=> n = 0 BY <1>e
    <3>2. group[g].all \subseteq Tasks BY <1>a, GroupFields
    <3>3. n = 0 => group[g].all = {} BY <1>13, <3>2
    <3>4. n # 0 => 1 \in 1 .. n OBVIOUS
    <3> QED BY <1>13, <3>1, <3>3, <3>4
  <2> QED BY <2>1, <2>2, <2>3, FS_EmptySet
(* The parts of the invariant.                                             *)
<1>18. Counted'
  <2> SUFFICES ASSUME NEW d \in Groups PROVE Counts(d)' BY DEF Counted
  <2>1. Open(d)' = Open(d) BY <1>7, <1>10 DEF Open
  <2>2. Unfinished(d)' = Unfinished(d) BY <1>7, <1>10 DEF Unfinished, Finished
  <2> QED BY <1>7, <2>1, <2>2, Parts DEF Counts
<1>19. DependeesListed' /\ FlushedInOrder' BY <1>7 DEF GraphInv, DependeesListed, FlushedInOrder
<1>20. StepsSound'
  <2>1. ASSUME NEW h \in Groups PROVE GroupSteps(h)'
    <3>1. GroupSteps(h) BY Parts
    <3> QED BY <1>4, <1>7, <1>10, <1>11, <1>17, <3>1 DEF GroupSteps
  <2>2. ASSUME NEW t \in Tasks PROVE TaskSteps(t)'
    <3>1. TaskSteps(t) /\ GroupOf[t] \in Groups BY Parts
    <3> QED BY <1>7, <1>10, <1>11, <3>1 DEF TaskSteps
  <2> QED BY <1>6, <2>1, <2>2 DEF StepsSound
<1>21. Reported'
  <2> SUFFICES ASSUME NEW h \in Groups PROVE ReportedWhen(h)' BY DEF Reported
  <2>1. ReportedWhen(h) BY Parts
  <2> QED BY <1>4, <1>7, <1>10, <1>11, <1>17, <2>1 DEF ReportedWhen
<1>22. TaskPlaces'
  <2>1. ASSUME NEW h \in Groups PROVE Waiting(h)'
    <3>1. Waiting(h) BY Parts
    <3> QED BY <1>7, <1>11, <3>1 DEF Waiting
  <2>2. ASSUME NEW t \in Tasks PROVE Place(t)'
    <3>1. Place(t) /\ GroupOf[t] \in Groups BY Parts
    <3>2. Here(t)' <=> Here(t) \/ t \in group[g].all
      BY <1>7, <1>11, <1>13, <3>1 DEF Here
    <3> QED BY <1>7, <1>10, <1>14, <1>15, <3>1, <3>2 DEF Place
  <2> QED BY <1>16, <2>1, <2>2 DEF TaskPlaces
<1> QED BY <1>9, <1>18, <1>19, <1>20, <1>21, <1>22 DEF GraphInv

(* The last step of a thread that runs a task completes it.                *)
LEMMA RunThenComplete ==
  ASSUME agenda \in [Threads -> Seq(Steps)], RunFirst(agenda), NEW t, NEW q \in Threads,
         NEW i \in 1 .. Len(agenda[q]), agenda[q][i] = <<"run", t>>
  PROVE  i = 1 /\ 2 \in 1 .. Len(agenda[q]) /\ agenda[q][2] = <<"complete", t>>
<1>1. /\ i = 1 /\ Len(agenda[q]) >= 2 /\ agenda[q][2] = <<"complete", agenda[q][1][2]>>
  BY DEF RunFirst
<1>2. Len(agenda[q]) \in Nat OBVIOUS
<1> QED BY <1>1, <1>2

LEMMA RunHasComplete ==
  ASSUME agenda \in [Threads -> Seq(Steps)], RunFirst(agenda), NEW t, Has(agenda, <<"run", t>>)
  PROVE  Has(agenda, <<"complete", t>>)
<1>1. PICK q \in Threads : \E i \in 1 .. Len(agenda[q]) : agenda[q][i] = <<"run", t>> BY DEF Has
<1>2. PICK i \in 1 .. Len(agenda[q]) : agenda[q][i] = <<"run", t>> BY <1>1
<1>3. 2 \in 1 .. Len(agenda[q]) /\ agenda[q][2] = <<"complete", t>> BY <1>2, RunThenComplete
<1> QED BY <1>3 DEF Has

LEMMA RunKeeps ==
  ASSUME TypeOK, GraphInv, NEW p \in Threads, Run(p)
  PROVE  TypeOK' /\ GraphInv'
<1>a. /\ agenda \in [Threads -> Seq(Steps)] /\ group \in [Groups -> GroupType] /\ ran \in [Tasks -> Nat]
  BY DEF TypeOK
<1>b. Doing(p, "run") BY DEF Run
<1>c. PICK u \in Tasks : u = Arg(p) BY <1>a, <1>b, ArgType
<1> DEFINE H == <<"run", u>>
<1>1. Has(agenda, H) BY <1>a, <1>b, <1>c, DoingHas
<1>2. Has(agenda, <<"complete", u>>) BY <1>1, <1>a, Parts, RunHasComplete
<1>3. ran[u] = 0 /\ Here(u) /\ ~IsQueued(u) BY <1>1, <1>2, Parts DEF TaskSteps, Place, Here
<1>4. /\ agenda' \in [Threads -> Seq(Steps)] /\ OnlyOnce(agenda)' /\ RunFirst(agenda)'
      /\ ~Has(agenda', H)
      /\ \A s : Has(agenda', s) => Has(agenda, s)
      /\ \A s : Has(agenda, s) /\ s # H => Has(agenda', s)
  <2>1. PICK s \in Steps : TRUE BY StepTypes
  <2>2. Then(p, IF FALSE THEN <<s>> ELSE <<>>) BY DEF Run
  <2>3. H = <<"run", Arg(p)>> BY <1>c
  <2>4. "run" \in Single BY DEF Single
  <2> HIDE DEF H
  <2> QED BY <1>a, <1>b, <2>1, <2>2, <2>3, <2>4, OneStep, Parts
<1>5. UNCHANGED <<group, ready, pool>> /\ ran' = [ran EXCEPT ![u] = @ + 1] BY <1>c DEF Run
<1>6. /\ ran' \in [Tasks -> Nat] /\ ran'[u] = 1
      /\ \A t \in Tasks : t # u => ran'[t] = ran[t]
  BY <1>a, <1>3, <1>5
<1>7. TypeOK' BY <1>4, <1>5, <1>6 DEF TypeOK
<1>8. /\ \A h : Has(agenda', <<"release", h>>) <=> Has(agenda, <<"release", h>>)
      /\ \A h : Has(agenda', <<"clear", h>>) <=> Has(agenda, <<"clear", h>>)
      /\ \A h : Has(agenda', <<"notify", h>>) <=> Has(agenda, <<"notify", h>>)
      /\ \A h : Has(agenda', <<"done", h>>) <=> Has(agenda, <<"done", h>>)
      /\ \A t : Has(agenda', <<"complete", t>>) <=> Has(agenda, <<"complete", t>>)
      /\ \A t : Has(agenda', <<"run", t>>) <=> Has(agenda, <<"run", t>>) /\ t # u
      /\ \A d, h : Has(agenda', Satisfied(d, h)) <=> Has(agenda, Satisfied(d, h))
  BY <1>4 DEF Satisfied
<1>9. \A h \in Groups : Released(h)' <=> Released(h) BY <1>5, <1>8 DEF Released
<1>10. Counted'
  <2> SUFFICES ASSUME NEW d \in Groups PROVE Counts(d)' BY DEF Counted
  <2>1. Open(d)' = Open(d) BY <1>5, <1>8 DEF Open
  <2>2. group[d].all \subseteq Tasks BY <1>a, GroupFields
  <2>3. Unfinished(d)' = Unfinished(d)
    BY <1>2, <1>5, <1>6, <1>8, <2>2 DEF Unfinished, Finished
  <2> QED BY <1>5, <2>1, <2>3, Parts DEF Counts
<1>11. DependeesListed' /\ FlushedInOrder' BY <1>5 DEF GraphInv, DependeesListed, FlushedInOrder
<1>12. StepsSound'
  <2>1. ASSUME NEW h \in Groups PROVE GroupSteps(h)'
    <3>1. GroupSteps(h) BY Parts
    <3> QED BY <1>5, <1>8, <1>9, <3>1 DEF GroupSteps
  <2>2. ASSUME NEW t \in Tasks PROVE TaskSteps(t)'
    <3>1. TaskSteps(t) /\ GroupOf[t] \in Groups BY Parts
    <3> QED BY <1>5, <1>6, <1>8, <1>9, <3>1 DEF TaskSteps
  <2> QED BY <1>4, <2>1, <2>2 DEF StepsSound
<1>13. Reported'
  <2> SUFFICES ASSUME NEW h \in Groups PROVE ReportedWhen(h)' BY DEF Reported
  <2>1. ReportedWhen(h) BY Parts
  <2> QED BY <1>5, <1>8, <1>9, <2>1 DEF ReportedWhen
<1>14. TaskPlaces'
  <2>1. ASSUME NEW h \in Groups PROVE Waiting(h)'
    <3>1. Waiting(h) BY Parts
    <3> QED BY <1>5, <1>9, <3>1 DEF Waiting
  <2>2. ASSUME NEW t \in Tasks PROVE Place(t)'
    <3>1. Place(t) /\ GroupOf[t] \in Groups BY Parts
    <3>2. (IsQueued(t)' <=> IsQueued(t)) /\ (Here(t)' <=> Here(t))
      BY <1>5, <1>9, <3>1 DEF IsQueued, Here
    <3> QED BY <1>3, <1>6, <1>8, <3>1, <3>2 DEF Place
  <2> QED BY <1>5, <2>1, <2>2 DEF TaskPlaces, GraphInv
<1> QED BY <1>7, <1>10, <1>11, <1>12, <1>13, <1>14 DEF GraphInv

LEMMA CompleteKeeps ==
  ASSUME TypeOK, GraphInv, NEW p \in Threads, Complete(p)
  PROVE  TypeOK' /\ GraphInv'
<1>a. /\ agenda \in [Threads -> Seq(Steps)] /\ group \in [Groups -> GroupType] /\ ran \in [Tasks -> Nat]
  BY DEF TypeOK
<1>b. Doing(p, "complete") BY DEF Complete
<1>c. PICK u \in Tasks : u = Arg(p) BY <1>a, <1>b, ArgType
<1>d. PICK g \in Groups : g = GroupOf[u] BY GroupAssumption
<1>e. PICK x \in GroupType : x = group[g] BY <1>a
<1>f. PICK n \in Nat : n = x.count BY GroupFields
<1> DEFINE H == <<"complete", u>>
           more == n = 1
<1>1. Has(agenda, H) /\ 1 \in 1 .. Len(agenda[p]) /\ agenda[p][1] = H BY <1>a, <1>b, <1>c, DoingHas
<1>2. u \in x.all /\ Released(g) BY <1>1, <1>d, <1>e, Parts DEF TaskSteps
<1>3. ~Has(agenda, <<"run", u>>)
  <2> SUFFICES ASSUME NEW q \in Threads, NEW i \in 1 .. Len(agenda[q]), agenda[q][i] = <<"run", u>>
               PROVE  FALSE
    BY DEF Has
  <2>1. 2 \in 1 .. Len(agenda[q]) /\ agenda[q][2] = H BY <1>a, Parts, RunThenComplete
  <2>2. H[1] \in Single BY DEF Single
  <2> HIDE DEF H
  <2> QED BY <1>1, <2>1, <2>2, Parts DEF OnlyOnce
<1>4. ran[u] = 1 BY <1>1, <1>3, Parts DEF Place
<1>5. u \in Unfinished(g) BY <1>1, <1>2, <1>e DEF Unfinished, Finished
<1>6. n > 0 /\ n - 1 \in Nat /\ n - 1 = Cardinality(Unfinished(g) \ {u})
  <2>1. n = Cardinality(Unfinished(g)) /\ IsFiniteSet(Unfinished(g))
    BY <1>e, <1>f, Parts, Countable DEF Counts
  <2> QED BY <1>5, <2>1, OneLess
<1>7. x.notified = 0 /\ ~Has(agenda, <<"notify", g>>)
  <2>1. group[g].count # 0 BY <1>6, <1>e, <1>f
  <2>2. GroupSteps(g) /\ ReportedWhen(g) BY Parts
  <2> QED BY <1>e, <2>1, <2>2 DEF GroupSteps, ReportedWhen
<1>8. /\ agenda' \in [Threads -> Seq(Steps)] /\ OnlyOnce(agenda)' /\ RunFirst(agenda)'
      /\ ~Has(agenda', H)
      /\ \A s : Has(agenda', s) => Has(agenda, s) \/ (more /\ s = <<"notify", g>>)
      /\ \A s : Has(agenda, s) /\ s # H => Has(agenda', s)
      /\ more => Has(agenda', <<"notify", g>>)
  <2>1. PICK s \in Steps : s = <<"notify", g>> BY StepTypes
  <2>2. Then(p, IF more THEN <<s>> ELSE <<>>) BY <1>c, <1>d, <1>e, <1>f, <2>1 DEF Complete
  <2>3. H = <<"complete", Arg(p)>> BY <1>c
  <2>4. s[1] # "run" /\ s # H /\ ~Has(agenda, s) BY <1>7, <2>1
  <2>5. "complete" \in Single BY DEF Single
  <2>6. PICK m \in BOOLEAN : m <=> more OBVIOUS
  <2> HIDE DEF H, more
  <2>7. Then(p, IF m THEN <<s>> ELSE <<>>) BY <2>2, <2>6
  <2> QED BY <1>a, <1>b, <2>1, <2>3, <2>4, <2>5, <2>6, <2>7, OneStep, Parts
<1>9. PICK y : y = [x EXCEPT !.count = n - 1] OBVIOUS
<1>10. /\ y \in GroupType /\ y.count = n - 1 /\ y.tasks = x.tasks /\ y.all = x.all
       /\ Flow(x, y) /\ Links(x, y)
  BY <1>6, <1>9, SetCount
<1>11. group' = [group EXCEPT ![g] = y] BY <1>c, <1>d, <1>e, <1>f, <1>9 DEF Complete
<1>12. /\ group' \in [Groups -> GroupType] /\ group'[g] = y
       /\ \A h \in Groups : h # g => group'[h] = group[h]
  BY <1>a, <1>10, <1>11, SetGroup
<1>13. UNCHANGED <<ready, pool, ran>> BY DEF Complete
<1>14. TypeOK' BY <1>8, <1>12, <1>13 DEF TypeOK
<1>15. /\ \A h : Has(agenda', <<"release", h>>) <=> Has(agenda, <<"release", h>>)
       /\ \A h : Has(agenda', <<"clear", h>>) <=> Has(agenda, <<"clear", h>>)
       /\ \A h : h # g => (Has(agenda', <<"notify", h>>) <=> Has(agenda, <<"notify", h>>))
       /\ Has(agenda', <<"notify", g>>) <=> more
       /\ \A h : Has(agenda', <<"done", h>>) <=> Has(agenda, <<"done", h>>)
       /\ \A t : Has(agenda', <<"complete", t>>) <=> Has(agenda, <<"complete", t>>) /\ t # u
       /\ \A t : Has(agenda', <<"run", t>>) <=> Has(agenda, <<"run", t>>)
       /\ \A d, h : Has(agenda', Satisfied(d, h)) <=> Has(agenda, Satisfied(d, h))
  <2>1. /\ \A s : s[1] \notin {"notify", "complete"} => (Has(agenda', s) <=> Has(agenda, s))
        /\ \A h : h # g => (Has(agenda', <<"notify", h>>) <=> Has(agenda, <<"notify", h>>))
        /\ \A t : t # u => (Has(agenda', <<"complete", t>>) <=> Has(agenda, <<"complete", t>>))
    BY <1>8
  <2>2. (Has(agenda', <<"notify", g>>) <=> more) /\ ~Has(agenda', <<"complete", u>>)
    BY <1>7, <1>8
  <2> HIDE DEF more
  <2> QED BY <2>1, <2>2 DEF Satisfied
<1>16. \A h \in Groups :
         /\ Flow(group[h], group'[h]) /\ Links(group[h], group'[h])
         /\ group'[h].tasks = group[h].tasks /\ group'[h].all = group[h].all
         /\ h # g => group'[h] = group[h]
  BY <1>10, <1>12, <1>e DEF Flow, Links
<1>17. \A h \in Groups : Released(h)' <=> Released(h) BY <1>15, <1>16 DEF Released, Flow, Links
<1>18. \A h \in Groups : group[h].after \subseteq Groups /\ group[h].all \subseteq Tasks
  BY <1>a, GroupFields
<1>19. Counted'
  <2> SUFFICES ASSUME NEW d \in Groups PROVE Counts(d)' BY DEF Counted
  <2>1. Open(d)' = Open(d) BY <1>15, <1>16, <1>18 DEF Open, Flow, Links
  <2>2. d # g => Unfinished(d)' = Unfinished(d)
    <3> SUFFICES ASSUME d # g PROVE Unfinished(d)' = Unfinished(d) OBVIOUS
    <3>1. u \notin group[d].all BY <1>d, Parts DEF Waiting
    <3> QED BY <1>13, <1>15, <1>16, <3>1 DEF Unfinished, Finished
  <2>3. Unfinished(g)' = Unfinished(g) \ {u}
    BY <1>4, <1>13, <1>15, <1>16 DEF Unfinished, Finished
  <2> QED BY <1>6, <1>10, <1>12, <1>16, <2>1, <2>2, <2>3, Parts DEF Counts, Links
<1>20. DependeesListed' BY <1>16 DEF GraphInv, DependeesListed, Flow, Links
<1>21. FlushedInOrder' BY <1>16, <1>18, SameOrder DEF GraphInv, Flow, Links
<1>22. StepsSound'
  <2>1. ASSUME NEW h \in Groups PROVE GroupSteps(h)'
    <3>1. GroupSteps(h) BY Parts
    <3>2. Has(agenda', <<"notify", h>>) =>
            Released(h)' /\ group'[h].notified = 0 /\ group'[h].count = 0
      BY <1>2, <1>7, <1>10, <1>12, <1>15, <1>16, <1>17, <1>e, <3>1 DEF GroupSteps, Flow
    <3> QED BY <1>15, <1>16, <1>17, <3>1, <3>2 DEF GroupSteps, Flow, Links
  <2>2. ASSUME NEW t \in Tasks PROVE TaskSteps(t)'
    <3>1. TaskSteps(t) /\ GroupOf[t] \in Groups BY Parts
    <3> QED BY <1>13, <1>15, <1>16, <1>17, <3>1 DEF TaskSteps
  <2> QED BY <1>8, <2>1, <2>2 DEF StepsSound
<1>23. Reported'
  <2> SUFFICES ASSUME NEW h \in Groups PROVE ReportedWhen(h)' BY DEF Reported
  <2>1. ReportedWhen(h) BY Parts
  <2>2. CASE h # g BY <1>15, <1>16, <1>17, <2>1, <2>2 DEF ReportedWhen
  <2>3. CASE h = g
    <3>1. group'[g].notified = 0 BY <1>7, <1>10, <1>12 DEF Flow
    <3>2. group'[g].count = 0 => Has(agenda', <<"notify", g>>) BY <1>10, <1>12, <1>15
    <3> QED BY <2>3, <3>1, <3>2 DEF ReportedWhen
  <2> QED BY <2>2, <2>3
<1>24. TaskPlaces'
  <2>1. ASSUME NEW h \in Groups PROVE Waiting(h)'
    <3>1. Waiting(h) BY Parts
    <3> QED BY <1>16, <1>17, <3>1 DEF Waiting
  <2>2. ASSUME NEW t \in Tasks PROVE Place(t)'
    <3>1. Place(t) /\ GroupOf[t] \in Groups BY Parts
    <3>2. (IsQueued(t)' <=> IsQueued(t)) /\ (Here(t)' <=> Here(t))
      BY <1>13, <1>16, <1>17, <3>1 DEF IsQueued, Here
    <3> QED BY <1>4, <1>13, <1>15, <3>1, <3>2 DEF Place
  <2> QED BY <1>13, <2>1, <2>2 DEF TaskPlaces, GraphInv
<1> QED BY <1>14, <1>19, <1>20, <1>21, <1>22, <1>23, <1>24 DEF GraphInv

LEMMA TakeKeeps ==
  ASSUME TypeOK, GraphInv, NEW p \in Threads, Take(p)
  PROVE  TypeOK' /\ GraphInv'
<1>a. /\ agenda \in [Threads -> Seq(Steps)] /\ group \in [Groups -> GroupType]
      /\ ready \in Seq(Tasks) /\ ran \in [Tasks -> Nat]
  BY DEF TypeOK
<1>b. agenda[p] = <<>> /\ ready # <<>> BY DEF Take, Idle
<1>c. PICK u \in Tasks : u = Head(ready) BY <1>a, <1>b
<1>d. PICK n \in Nat : n = Len(ready) BY <1>a
<1>1. /\ n > 0 /\ DOMAIN ready = 1 .. n /\ ready[1] = u
      /\ ready' \in Seq(Tasks) /\ DOMAIN ready' = 1 .. n - 1
      /\ \A i \in 1 .. n - 1 : ready'[i] = ready[i + 1]
  BY <1>a, <1>b, <1>c, <1>d DEF Take
<1>2. IsQueued(u) BY <1>1 DEF IsQueued
<1>3. Here(u) /\ ran[u] = 0 /\ ~Has(agenda, <<"complete", u>>) BY <1>2, Parts DEF Place
<1>4. ~Has(agenda, <<"run", u>>) BY <1>3, <1>a, Parts, RunHasComplete
<1>5. \A t \in Tasks : IsQueued(t)' <=> IsQueued(t) /\ t # u
  <2>1. \A i, j \in 1 .. n : ready[i] = ready[j] => i = j BY <1>1 DEF GraphInv, TaskPlaces
  <2>2. ASSUME NEW t \in Tasks, NEW i \in 1 .. n - 1, ready'[i] = t PROVE IsQueued(t) /\ t # u
    <3>1. i + 1 \in 1 .. n /\ i + 1 # 1 /\ 1 \in 1 .. n BY <1>1
    <3>2. ready[i + 1] = t BY <1>1, <2>2
    <3>3. t # u BY <1>1, <2>1, <3>1, <3>2
    <3>4. IsQueued(t) BY <1>1, <3>1, <3>2 DEF IsQueued
    <3> QED BY <3>3, <3>4
  <2>3. ASSUME NEW t \in Tasks, NEW i \in 1 .. n, ready[i] = t, t # u
        PROVE  \E j \in 1 .. n - 1 : ready'[j] = t
    <3>1. i # 1 BY <1>1, <2>3
    <3>2. PICK j \in 1 .. n - 1 : j + 1 = i BY <3>1
    <3> QED BY <1>1, <2>3, <3>2
  <2>4. \A t \in Tasks : IsQueued(t)' <=> \E i \in 1 .. n - 1 : ready'[i] = t BY <1>1 DEF IsQueued
  <2>5. \A t \in Tasks : IsQueued(t) <=> \E i \in 1 .. n : ready[i] = t BY <1>1 DEF IsQueued
  <2> QED BY <2>2, <2>3, <2>4, <2>5
<1>6. PICK steps : steps = <<<<"run", u>>, <<"complete", u>>, <<"count", 0>>>> OBVIOUS
<1>7. /\ steps \in Seq(Steps) /\ Len(steps) = 3
      /\ steps[1] = <<"run", u>> /\ steps[2] = <<"complete", u>> /\ steps[3] = <<"count", 0>>
  <2>1. <<"run", u>> \in Steps /\ <<"complete", u>> \in Steps /\ <<"count", 0>> \in Steps BY StepTypes
  <2> QED BY <1>6, <2>1
<1>8. Turns(agenda, agenda', p, steps, 0)
  <2>1. agenda' = [agenda EXCEPT ![p] = steps] BY <1>c, <1>6 DEF Take
  <2> QED BY <1>a, <1>b, <1>7, <2>1, SetTurns
<1>9. \A i \in 1 .. Len(steps) : i = 1 \/ i = 2 \/ i = 3 BY <1>7
<1>10. \A s : Among(s, steps) <=> s = <<"run", u>> \/ s = <<"complete", u>> \/ s = <<"count", 0>>
  <2>1. 1 \in 1 .. Len(steps) /\ 2 \in 1 .. Len(steps) /\ 3 \in 1 .. Len(steps) BY <1>7
  <2> QED BY <1>7, <1>9, <2>1 DEF Among
<1>11. OnlyOnce(agenda')
  <2>1. \A i, j \in 1 .. Len(steps) : steps[i] = steps[j] /\ steps[i][1] \in Single => i = j
    BY <1>7, <1>9
  <2>2. \A i \in 1 .. Len(steps) : steps[i][1] \in Single => ~Has(agenda, steps[i])
    BY <1>3, <1>4, <1>7, <1>9 DEF Single
  <2> QED BY <1>8, <2>1, <2>2, TurnsOnce, Parts
<1>12. RunFirst(agenda')
  <2> SUFFICES ASSUME NEW q \in Threads, NEW i \in 1 .. Len(agenda'[q]), agenda'[q][i][1] = "run"
               PROVE  i = 1 /\ Len(agenda'[q]) >= 2 /\ agenda'[q][2] = <<"complete", agenda'[q][1][2]>>
    BY DEF RunFirst
  <2>1. CASE q # p BY <1>8, <2>1, Parts DEF Turns, RunFirst
  <2>2. CASE q = p
    <3>1. agenda'[p] = steps BY <1>a, <1>c, <1>6 DEF Take
    <3>2. i \in 1 .. Len(steps) /\ steps[i][1] = "run" BY <2>2, <3>1
    <3>3. i = 1 BY <1>7, <1>9, <3>2
    <3>4. Len(steps) >= 2 /\ steps[2] = <<"complete", steps[1][2]>> BY <1>7
    <3> QED BY <2>2, <3>1, <3>3, <3>4
  <2> QED BY <2>1, <2>2
<1>13. /\ \A s : Has(agenda', s) <=> Has(agenda, s) \/ Among(s, steps)
  BY <1>8, TurnsHas
<1>14. /\ \A h : Has(agenda', <<"release", h>>) <=> Has(agenda, <<"release", h>>)
       /\ \A h : Has(agenda', <<"clear", h>>) <=> Has(agenda, <<"clear", h>>)
       /\ \A h : Has(agenda', <<"notify", h>>) <=> Has(agenda, <<"notify", h>>)
       /\ \A h : Has(agenda', <<"done", h>>) <=> Has(agenda, <<"done", h>>)
       /\ \A t : Has(agenda', <<"complete", t>>) <=> Has(agenda, <<"complete", t>>) \/ t = u
       /\ \A t : Has(agenda', <<"run", t>>) <=> Has(agenda, <<"run", t>>) \/ t = u
       /\ \A d, h : Has(agenda', Satisfied(d, h)) <=> Has(agenda, Satisfied(d, h))
  BY <1>10, <1>13 DEF Satisfied
<1>15. UNCHANGED <<group, pool, ran>> BY DEF Take
<1>16. TypeOK'
  <2>1. agenda' \in [Threads -> Seq(Steps)] BY <1>8 DEF Turns
  <2> QED BY <1>1, <1>15, <2>1 DEF TypeOK
<1>17. \A h \in Groups : Released(h)' <=> Released(h) BY <1>14, <1>15 DEF Released
<1>18. Counted'
  <2> SUFFICES ASSUME NEW d \in Groups PROVE Counts(d)' BY DEF Counted
  <2>1. Open(d)' = Open(d) BY <1>14, <1>15 DEF Open
  <2>2. Unfinished(d)' = Unfinished(d) BY <1>3, <1>14, <1>15 DEF Unfinished, Finished
  <2> QED BY <1>15, <2>1, <2>2, Parts DEF Counts
<1>19. DependeesListed' /\ FlushedInOrder' BY <1>15 DEF GraphInv, DependeesListed, FlushedInOrder
<1>20. StepsSound'
  <2>1. ASSUME NEW h \in Groups PROVE GroupSteps(h)'
    <3>1. GroupSteps(h) BY Parts
    <3> QED BY <1>14, <1>15, <1>17, <3>1 DEF GroupSteps
  <2>2. ASSUME NEW t \in Tasks PROVE TaskSteps(t)'
    <3>1. TaskSteps(t) /\ GroupOf[t] \in Groups BY Parts
    <3> QED BY <1>3, <1>14, <1>15, <1>17, <3>1 DEF TaskSteps, Here
  <2>3. OnlyOnce(agenda)' /\ RunFirst(agenda)' BY <1>11, <1>12 DEF OnlyOnce, RunFirst
  <2> QED BY <2>1, <2>2, <2>3 DEF StepsSound
<1>21. Reported'
  <2> SUFFICES ASSUME NEW h \in Groups PROVE ReportedWhen(h)' BY DEF Reported
  <2>1. ReportedWhen(h) BY Parts
  <2> QED BY <1>14, <1>15, <1>17, <2>1 DEF ReportedWhen
<1>22. TaskPlaces'
  <2>1. ASSUME NEW h \in Groups PROVE Waiting(h)'
    <3>1. Waiting(h) BY Parts
    <3> QED BY <1>15, <1>17, <3>1 DEF Waiting
  <2>2. ASSUME NEW t \in Tasks PROVE Place(t)'
    <3>1. Place(t) /\ GroupOf[t] \in Groups BY Parts
    <3>2. Here(t)' <=> Here(t) BY <1>15, <1>17, <3>1 DEF Here
    <3> QED BY <1>3, <1>5, <1>14, <1>15, <3>1, <3>2 DEF Place
  <2>3. ASSUME NEW i \in 1 .. n - 1, NEW j \in 1 .. n - 1, ready'[i] = ready'[j] PROVE i = j
    <3>1. i + 1 \in 1 .. n /\ j + 1 \in 1 .. n /\ ready[i + 1] = ready[j + 1] BY <1>1, <2>3
    <3>2. i + 1 = j + 1 BY <1>1, <3>1 DEF GraphInv, TaskPlaces
    <3> QED BY <3>2
  <2>4. \A i, j \in DOMAIN ready' : ready'[i] = ready'[j] => i = j BY <1>1, <2>3
  <2> QED BY <2>1, <2>2, <2>4 DEF TaskPlaces
<1> QED BY <1>16, <1>18, <1>19, <1>20, <1>21, <1>22 DEF GraphInv

LEMMA EnqueueKeeps ==
  ASSUME TypeOK, GraphInv, NEW u \in Tasks, Enqueue(u)
  PROVE  TypeOK' /\ GraphInv'
<1>a. /\ agenda \in [Threads -> Seq(Steps)] /\ group \in [Groups -> GroupType] /\ ran \in [Tasks -> Nat]
  BY DEF TypeOK
<1>b. PICK g \in Groups : g = GroupOf[u] BY GroupAssumption
<1>c. PICK x \in GroupType : x = group[g] BY <1>a
<1>d. x.tasks \in Seq(Tasks) /\ x.count \in Nat /\ x.all \in SUBSET Tasks BY GroupFields
<1>e. PICK n \in Nat : n = Len(x.tasks) BY <1>d
<1>f. PICK tasks : tasks = Append(x.tasks, u) OBVIOUS
<1>1. /\ tasks \in Seq(Tasks) /\ DOMAIN tasks = 1 .. n + 1 /\ DOMAIN x.tasks = 1 .. n
      /\ \A i \in 1 .. n : tasks[i] = x.tasks[i]
      /\ tasks[n + 1] = u
  <2>1. PICK s \in Seq(Tasks) : s = x.tasks BY <1>d
  <2>2. tasks = Append(s, u) /\ n = Len(s) BY <1>e, <1>f, <2>1
  <2> QED BY <2>1, <2>2
<1>2. ~x.flushed /\ u \notin x.all BY <1>b, <1>c DEF Enqueue
<1>3. ~Released(g) BY <1>2, <1>c DEF Released
<1>4. ran[u] = 0 /\ ~Has(agenda, <<"complete", u>>) /\ ~IsQueued(u)
  <2>1. ran[u] \in Nat BY <1>a
  <2>2. ~Released(GroupOf[u]) BY <1>3, <1>b
  <2>3. Place(u) /\ TaskSteps(u) BY Parts
  <2> QED BY <2>1, <2>2, <2>3 DEF Place, Here, TaskSteps
<1>5. PICK y : y = [x EXCEPT !.tasks = tasks, !.count = x.count + 1, !.all = x.all \cup {u}] OBVIOUS
<1>6. /\ y \in GroupType /\ y.tasks = tasks /\ y.count = x.count + 1 /\ y.all = x.all \cup {u}
      /\ Flow(x, y) /\ Links(x, y)
  <2>1. PICK k \in Nat : k = x.count + 1 BY <1>d
  <2>2. PICK A \in SUBSET Tasks : A = x.all \cup {u} BY <1>d
  <2>3. y = [x EXCEPT !.tasks = tasks, !.count = k, !.all = A] BY <1>5, <2>1, <2>2
  <2>4. /\ y \in GroupType /\ y.tasks = tasks /\ y.count = k /\ y.all = A
        /\ Flow(x, y) /\ Links(x, y)
    <3>1. tasks \in Seq(Tasks) BY <1>1
    <3> QED BY <2>3, <3>1 DEF GroupType, Links, Flow
  <2> QED BY <2>1, <2>2, <2>4
<1>7. group' = [group EXCEPT ![g] = y] BY <1>b, <1>c, <1>f, <1>5 DEF Enqueue
<1>8. /\ group' \in [Groups -> GroupType] /\ group'[g] = y
      /\ \A h \in Groups : h # g => group'[h] = group[h]
  BY <1>a, <1>6, <1>7, SetGroup
<1>9. UNCHANGED <<ready, pool, agenda, ran>> BY DEF Enqueue
<1>10. TypeOK' BY <1>8, <1>9 DEF TypeOK
<1>11. \A h \in Groups :
         /\ Flow(group[h], group'[h]) /\ Links(group[h], group'[h])
         /\ h # g => group'[h] = group[h]
  BY <1>6, <1>8, <1>c DEF Flow, Links
<1>12. \A h \in Groups : Released(h)' <=> Released(h) BY <1>9, <1>11 DEF Released, Flow, Links
<1>13. \A h \in Groups : group[h].after \subseteq Groups BY <1>a, GroupFields
<1>14. Counted'
  <2> SUFFICES ASSUME NEW d \in Groups PROVE Counts(d)' BY DEF Counted
  <2>1. Open(d)' = Open(d) BY <1>9, <1>11, <1>13 DEF Open, Flow, Links
  <2>2. CASE d # g
    <3>1. Unfinished(d)' = Unfinished(d) BY <1>8, <1>9, <2>2 DEF Unfinished, Finished
    <3> QED BY <1>8, <2>1, <2>2, <3>1, Parts DEF Counts
  <2>3. CASE d = g
    <3>1. Unfinished(g)' = Unfinished(g) \cup {u} /\ u \notin Unfinished(g)
      BY <1>2, <1>4, <1>6, <1>8, <1>9, <1>c DEF Unfinished, Finished
    <3>2. /\ Counts(g) /\ IsFiniteSet(x.all) /\ x.count = Cardinality(Unfinished(g))
          /\ IsFiniteSet(Unfinished(g))
      BY <1>c, Parts, Countable DEF Counts
    <3>3. y.count = Cardinality(Unfinished(g)') BY <1>6, <3>1, <3>2, OneMore
    <3>4. IsFiniteSet(y.all) BY <1>2, <1>6, <3>2, OneMore
    <3> QED BY <1>8, <1>11, <2>1, <2>3, <3>2, <3>3, <3>4 DEF Counts, Links
  <2> QED BY <2>2, <2>3
<1>15. DependeesListed' BY <1>11 DEF GraphInv, DependeesListed, Flow, Links
<1>16. FlushedInOrder' BY <1>11, <1>13, SameOrder DEF GraphInv, Flow, Links
<1>17. StepsSound'
  <2>1. ASSUME NEW h \in Groups PROVE GroupSteps(h)'
    <3>1. GroupSteps(h) BY Parts
    <3>2. Has(agenda', <<"notify", h>>) => h # g BY <1>3, <1>9, <3>1 DEF GroupSteps
    <3> QED BY <1>9, <1>11, <1>12, <3>1, <3>2 DEF GroupSteps, Flow, Links
  <2>2. ASSUME NEW t \in Tasks PROVE TaskSteps(t)'
    <3>1. TaskSteps(t) /\ GroupOf[t] \in Groups BY Parts
    <3>2. group[GroupOf[t]].all \subseteq group'[GroupOf[t]].all BY <1>6, <1>8, <1>c, <3>1
    <3> QED BY <1>9, <1>12, <3>1, <3>2 DEF TaskSteps
  <2> QED BY <1>9, <2>1, <2>2, Parts DEF StepsSound
<1>18. Reported'
  <2> SUFFICES ASSUME NEW h \in Groups PROVE ReportedWhen(h)' BY DEF Reported
  <2>1. ReportedWhen(h) BY Parts
  <2>2. CASE h # g BY <1>8, <1>9, <1>12, <2>1, <2>2 DEF ReportedWhen
  <2>3. CASE h = g BY <1>3, <1>9, <1>11, <1>12, <2>1, <2>3 DEF ReportedWhen, Flow
  <2> QED BY <2>2, <2>3
<1>19. TaskPlaces'
  <2>1. ASSUME NEW h \in Groups PROVE Waiting(h)'
    <3>1. Waiting(h) BY Parts
    <3>2. CASE h # g BY <1>8, <1>12, <3>1, <3>2 DEF Waiting
    <3>3. CASE h = g
      <4>1. /\ \A t \in x.all : GroupOf[t] = g
            /\ \A i, j \in 1 .. n : x.tasks[i] = x.tasks[j] => i = j
            /\ \A t \in Tasks : t \in x.all <=> \E i \in 1 .. n : x.tasks[i] = t
        BY <1>1, <1>3, <1>c, <3>1, <3>3 DEF Waiting
      <4>2. \A i \in 1 .. n + 1 : i \in 1 .. n \/ i = n + 1 OBVIOUS
      <4>3. \A i \in 1 .. n : i \in 1 .. n + 1 OBVIOUS
      <4>4. \A i \in 1 .. n : tasks[i] # u BY <1>1, <1>2, <4>1
      <4>5. \A i, j \in 1 .. n + 1 : tasks[i] = tasks[j] => i = j
        BY <1>1, <4>1, <4>2, <4>4
      <4>6. ASSUME NEW t \in Tasks PROVE t \in y.all <=> \E i \in 1 .. n + 1 : tasks[i] = t
        <5>1. t \in y.all <=> t \in x.all \/ t = u BY <1>6
        <5>2. n + 1 \in 1 .. n + 1 OBVIOUS
        <5> QED BY <1>1, <4>1, <4>2, <4>3, <5>1, <5>2
      <4>7. \A t \in y.all : GroupOf[t] = g BY <1>6, <1>b, <4>1
      <4>8. group'[h].tasks = tasks /\ group'[h].all = y.all BY <1>6, <1>8, <3>3
      <4> QED BY <1>1, <3>3, <4>5, <4>6, <4>7, <4>8 DEF Waiting
    <3> QED BY <3>2, <3>3
  <2>2. ASSUME NEW t \in Tasks PROVE Place(t)'
    <3>1. Place(t) /\ GroupOf[t] \in Groups BY Parts
    <3>2. Here(t)' <=> Here(t) BY <1>3, <1>8, <1>12, <3>1 DEF Here
    <3>3. IsQueued(t)' <=> IsQueued(t) BY <1>9 DEF IsQueued
    <3> QED BY <1>9, <3>1, <3>2, <3>3 DEF Place
  <2> QED BY <1>9, <2>1, <2>2 DEF TaskPlaces, GraphInv
<1> QED BY <1>10, <1>14, <1>15, <1>16, <1>17, <1>18, <1>19 DEF GraphInv

LEMMA AddDependencyKeeps ==
  ASSUME TypeOK, GraphInv, NEW d \in Groups, NEW h \in Groups, AddDependency(d, h)
  PROVE  TypeOK' /\ GraphInv'
<1>a. agenda \in [Threads -> Seq(Steps)] /\ group \in [Groups -> GroupType] BY DEF TypeOK
<1>b. \A g \in Groups : /\ group[g] \in GroupType /\ group[g].after \subseteq Groups
                        /\ group[g].pending \in Seq(Groups) /\ group[g].dependencies \in Nat
  BY <1>a, GroupFields
<1>c. PICK n \in Nat : n = Len(group[h].pending) BY <1>b
<1>d. PICK pending : pending = Append(group[h].pending, d) OBVIOUS
<1>1. /\ pending \in Seq(Groups) /\ DOMAIN pending = 1 .. n + 1 /\ DOMAIN group[h].pending = 1 .. n
      /\ \A i \in 1 .. n : pending[i] = group[h].pending[i]
      /\ pending[n + 1] = d
  <2>1. PICK s \in Seq(Groups) : s = group[h].pending BY <1>b
  <2>2. pending = Append(s, d) /\ n = Len(s) BY <1>c, <1>d, <2>1
  <2> QED BY <2>1, <2>2
<1>2. ~group[d].flushed /\ ~group[h].flushed /\ h \notin group[d].after BY DEF AddDependency
<1>3. UNCHANGED <<ready, pool, agenda, ran>> BY DEF AddDependency
<1>4. /\ group' \in [Groups -> GroupType]
      /\ \A g \in Groups :
           /\ Flow(group[g], group'[g]) /\ Content(group[g], group'[g])
           /\ group'[g].pending = IF g = h THEN pending ELSE group[g].pending
           /\ group'[g].dependencies = IF g = d THEN group[g].dependencies + 1 ELSE group[g].dependencies
           /\ group'[g].after = IF g = d THEN group[g].after \cup {h} ELSE group[g].after
  <2>1. PICK x \in GroupType : x = group[h] BY <1>b
  <2>2. PICK y : y = [x EXCEPT !.pending = pending] OBVIOUS
  <2>3. /\ y \in GroupType /\ y.pending = pending /\ y.dependencies = x.dependencies
        /\ y.after = x.after /\ Flow(x, y) /\ Content(x, y)
    BY <1>1, <2>2, SetPending
  <2>4. PICK G : G = [group EXCEPT ![h] = y] OBVIOUS
  <2>5. /\ G \in [Groups -> GroupType] /\ G[h] = y
        /\ \A g \in Groups : g # h => G[g] = group[g]
    BY <1>a, <2>3, <2>4
  <2>6. PICK u \in GroupType : u = G[d] BY <2>5
  <2>7. PICK v : v = [u EXCEPT !.dependencies = u.dependencies + 1, !.after = u.after \cup {h}] OBVIOUS
  <2>8. /\ v \in GroupType /\ v.dependencies = u.dependencies + 1 /\ v.after = u.after \cup {h}
        /\ v.pending = u.pending /\ Flow(u, v) /\ Content(u, v)
    <3>1. PICK k \in Nat : k = u.dependencies + 1 BY GroupFields
    <3>2. PICK A : A = u.after \cup {h} OBVIOUS
    <3>3. A \in SUBSET Groups BY <3>2, GroupFields
    <3>4. v = [u EXCEPT !.dependencies = k, !.after = A] BY <2>7, <3>1, <3>2
    <3>5. /\ v \in GroupType /\ v.dependencies = k /\ v.after = A
          /\ v.pending = u.pending /\ Flow(u, v) /\ Content(u, v)
      BY <3>3, <3>4 DEF GroupType, Flow, Content
    <3> QED BY <3>1, <3>2, <3>5
  <2>9. group' = [G EXCEPT ![d] = v]
    BY <1>a, <1>d, <2>1, <2>2, <2>4, <2>6, <2>7 DEF AddDependency
  <2>10. /\ group' \in [Groups -> GroupType] /\ group'[d] = v
         /\ \A g \in Groups : g # d => group'[g] = G[g]
    BY <2>5, <2>8, <2>9
  <2> SUFFICES ASSUME NEW g \in Groups
               PROVE  /\ Flow(group[g], group'[g]) /\ Content(group[g], group'[g])
                      /\ group'[g].pending = IF g = h THEN pending ELSE group[g].pending
                      /\ group'[g].dependencies =
                            IF g = d THEN group[g].dependencies + 1 ELSE group[g].dependencies
                      /\ group'[g].after = IF g = d THEN group[g].after \cup {h} ELSE group[g].after
    BY <2>10
  <2>11. CASE g = h /\ g = d BY <2>1, <2>3, <2>5, <2>6, <2>8, <2>10, <2>11 DEF Flow, Content
  <2>12. CASE g = h /\ g # d BY <2>1, <2>3, <2>5, <2>10, <2>12 DEF Flow, Content
  <2>13. CASE g # h /\ g = d BY <2>5, <2>6, <2>8, <2>10, <2>13 DEF Flow, Content
  <2>14. CASE g # h /\ g # d BY <2>5, <2>10, <2>14 DEF Flow, Content
  <2> QED BY <2>11, <2>12, <2>13, <2>14
<1>5. TypeOK' BY <1>3, <1>4 DEF TypeOK
<1>6. \A g \in Groups : Released(g)' <=> Released(g) BY <1>2, <1>3, <1>4 DEF Released, Flow
<1>7. group[h].notified = 0 BY <1>2, Parts DEF ReportedWhen, Released
<1>8. Counted'
  <2> SUFFICES ASSUME NEW g \in Groups PROVE Counts(g)' BY DEF Counted
  <2>1. Unfinished(g)' = Unfinished(g) BY <1>3, <1>4 DEF Unfinished, Finished, Content
  <2>2. CASE g # d
    <3>1. Open(g)' = Open(g) BY <1>b, <1>3, <1>4, <2>2 DEF Open, Flow
    <3> QED BY <1>4, <2>1, <2>2, <3>1, Parts DEF Counts, Content
  <2>3. CASE g = d
    <3>1. Open(d)' = Open(d) \cup {h} /\ h \notin Open(d)
      BY <1>b, <1>2, <1>3, <1>4, <1>7 DEF Open, Flow
    <3>2. Counts(d) /\ IsFiniteSet(group[d].after) /\ IsFiniteSet(Open(d))
          /\ group[d].dependencies = Cardinality(Open(d))
      BY Parts, Countable DEF Counts
    <3>a. PICK n1 : n1 = group[d].dependencies OBVIOUS
    <3>b. Cardinality(Open(d) \cup {h}) = n1 + 1 BY <3>1, <3>2, <3>a, OneMore
    <3>3. group'[d].dependencies = Cardinality(Open(d)') BY <1>4, <3>1, <3>a, <3>b
    <3>c. IsFiniteSet(group[d].after \cup {h}) BY <1>2, <3>2, OneMore
    <3>4. IsFiniteSet(group'[d].after) BY <1>4, <3>c
    <3> QED BY <1>4, <2>1, <2>3, <3>2, <3>3, <3>4 DEF Counts, Content
  <2> QED BY <2>2, <2>3
<1>9. DependeesListed'
  <2> SUFFICES ASSUME NEW k \in Groups, group'[k].notified = 0
               PROVE  /\ \A i, j \in DOMAIN group'[k].pending :
                           group'[k].pending[i] = group'[k].pending[j] => i = j
                      /\ \A e \in Groups : k \in group'[e].after <=>
                           \E i \in DOMAIN group'[k].pending : group'[k].pending[i] = e
    BY DEF DependeesListed
  <2>1. group[k].notified = 0 BY <1>4 DEF Flow
  <2>2. /\ \A i, j \in DOMAIN group[k].pending : group[k].pending[i] = group[k].pending[j] => i = j
        /\ \A e \in Groups : k \in group[e].after <=>
             \E i \in DOMAIN group[k].pending : group[k].pending[i] = e
    BY <2>1 DEF GraphInv, DependeesListed
  <2>3. CASE k # h
    <3>1. group'[k].pending = group[k].pending BY <1>4, <2>3
    <3>2. \A e \in Groups : k \in group'[e].after <=> k \in group[e].after BY <1>4, <2>3
    <3> QED BY <2>2, <3>1, <3>2
  <2>4. CASE k = h
    <3>1. group'[k].pending = pending BY <1>4, <2>4
    <3>2. \A i \in 1 .. n + 1 : i \in 1 .. n \/ i = n + 1 OBVIOUS
    <3>3. n + 1 \in 1 .. n + 1 /\ \A i \in 1 .. n : i \in 1 .. n + 1 OBVIOUS
    <3>4. \A i \in 1 .. n : pending[i] # d BY <1>1, <1>2, <2>2, <2>4
    <3>5. \A i, j \in 1 .. n + 1 : pending[i] = pending[j] => i = j
      BY <1>1, <2>2, <2>4, <3>2, <3>4
    <3>6. ASSUME NEW e \in Groups PROVE h \in group'[e].after <=> \E i \in 1 .. n + 1 : pending[i] = e
      <4>1. h \in group'[e].after <=> h \in group[e].after \/ e = d BY <1>4
      <4>2. h \in group[e].after <=> \E i \in 1 .. n : pending[i] = e BY <1>1, <2>2, <2>4
      <4> QED BY <1>1, <3>2, <3>3, <4>1, <4>2
    <3>7. /\ \A i, j \in DOMAIN pending : pending[i] = pending[j] => i = j
          /\ \A e \in Groups : h \in group'[e].after <=> \E i \in DOMAIN pending : pending[i] = e
      BY <1>1, <3>5, <3>6
    <3>8. \A i, j \in DOMAIN group'[k].pending :
            group'[k].pending[i] = group'[k].pending[j] => i = j
      BY <3>1, <3>7
    <3>9. ASSUME NEW e \in Groups
          PROVE  k \in group'[e].after <=> \E i \in DOMAIN group'[k].pending : group'[k].pending[i] = e
      BY <2>4, <3>1, <3>7
    <3> QED BY <3>8, <3>9
  <2> QED BY <2>3, <2>4
<1>10. FlushedInOrder'
  <2>1. ASSUME NEW e \in Groups, NEW k \in group'[e].after, group'[k].flushed PROVE group'[e].flushed
    <3>1. k \in group[e].after \/ (e = d /\ k = h) BY <1>4
    <3>2. ~(e = d /\ k = h) BY <1>2, <1>4, <2>1 DEF Flow
    <3>3. k \in Groups BY <1>b, <3>1
    <3> QED BY <1>4, <2>1, <3>1, <3>2, <3>3 DEF GraphInv, FlushedInOrder, Flow
  <2>2. ASSUME NEW S \in SUBSET {g \in Groups : group'[g].flushed}, S # {}
        PROVE  \E g \in S : group'[g].after \cap S = {}
    <3>1. S \in SUBSET {g \in Groups : group[g].flushed} BY <1>4 DEF Flow
    <3>2. PICK g \in S : group[g].after \cap S = {} BY <2>2, <3>1 DEF GraphInv, FlushedInOrder
    <3>3. group'[g].after = group[g].after BY <1>2, <1>4, <3>1
    <3> QED BY <3>2, <3>3
  <2> QED BY <2>1, <2>2 DEF FlushedInOrder
<1>11. StepsSound'
  <2>1. ASSUME NEW g \in Groups PROVE GroupSteps(g)'
    <3>1. GroupSteps(g) BY Parts
    <3>2. group[g].flushed => group'[g].dependencies = group[g].dependencies BY <1>2, <1>4
    <3>3. group[g].after \subseteq group'[g].after BY <1>4
    <3> QED BY <1>3, <1>4, <1>6, <3>1, <3>2, <3>3 DEF GroupSteps, Flow, Content
  <2>2. ASSUME NEW t \in Tasks PROVE TaskSteps(t)'
    <3>1. TaskSteps(t) /\ GroupOf[t] \in Groups BY Parts
    <3> QED BY <1>3, <1>4, <1>6, <3>1 DEF TaskSteps, Content
  <2> QED BY <1>3, <2>1, <2>2, Parts DEF StepsSound
<1>12. Reported'
  <2> SUFFICES ASSUME NEW g \in Groups PROVE ReportedWhen(g)' BY DEF Reported
  <2>1. ReportedWhen(g) BY Parts
  <2> QED BY <1>3, <1>4, <1>6, <2>1 DEF ReportedWhen, Flow, Content
<1>13. TaskPlaces'
  <2>1. ASSUME NEW g \in Groups PROVE Waiting(g)'
    <3>1. Waiting(g) BY Parts
    <3>2. Content(group[g], group'[g]) /\ (Released(g)' <=> Released(g)) BY <1>4, <1>6
    <3> QED BY <3>1, <3>2 DEF Waiting, Content
  <2>2. ASSUME NEW t \in Tasks PROVE Place(t)'
    <3>1. Place(t) /\ GroupOf[t] \in Groups BY Parts
    <3>2. (IsQueued(t)' <=> IsQueued(t)) /\ (Here(t)' <=> Here(t))
      BY <1>3, <1>4, <1>6, <3>1 DEF IsQueued, Here, Content
    <3> QED BY <1>3, <3>1, <3>2 DEF Place
  <2> QED BY <1>3, <2>1, <2>2 DEF TaskPlaces, GraphInv
<1> QED BY <1>5, <1>8, <1>9, <1>10, <1>11, <1>12, <1>13 DEF GraphInv

LEMMA FlushKeeps ==
  ASSUME TypeOK, GraphInv, DependeesFirst = TRUE,
         NEW g \in Groups, NEW next \in {<<>>, <<<<"wait", g>>>>}, Flush(g, next)
  PROVE  TypeOK' /\ GraphInv'
<1>a. agenda \in [Threads -> Seq(Steps)] /\ group \in [Groups -> GroupType] BY DEF TypeOK
<1>b. Client \in Threads /\ agenda[Client] = <<>> BY DEF Flush, Free, Threads
<1>c. PICK x \in GroupType : x = group[g] BY <1>a
<1>d. PICK n \in Nat : n = x.dependencies BY GroupFields
<1>1. ~x.flushed /\ \A d \in Groups : g \in group[d].after => group[d].flushed
  BY <1>c DEF Flush
<1>2. ~Released(g) /\ ~Has(agenda, <<"release", g>>)
  BY <1>1, <1>c, Parts DEF Released, GroupSteps
<1>3. PICK r \in Steps : r = <<"release", g>> BY StepTypes
<1>4. PICK w \in Steps : w = <<"wait", g>> BY StepTypes
<1>5. PICK first \in Seq(Steps) : first = IF n = 0 THEN <<r>> ELSE <<>>
  <2>1. <<r>> \in Seq(Steps) /\ <<>> \in Seq(Steps) BY StepTypes
  <2> QED BY <2>1
<1>e. next \in Seq(Steps) /\ \A i \in 1 .. Len(next) : next[i] = w
  <2>1. next = <<>> \/ next = <<w>> BY <1>4
  <2>2. CASE next = <<>> BY <2>2
  <2>3. CASE next = <<w>> BY <2>3
  <2> QED BY <2>1, <2>2, <2>3
<1>f. /\ \A i \in 1 .. Len(first) : i = 1 /\ n = 0 /\ first[i] = r
      /\ n = 0 => Len(first) = 1 /\ first[1] = r
      /\ Len(first) \in Nat /\ Len(next) \in Nat
  BY <1>5, <1>e
<1>6. PICK steps : steps = first \o next OBVIOUS
<1>7. /\ steps \in Seq(Steps)
      /\ \A i \in 1 .. Len(steps) : (i = 1 /\ n = 0 /\ steps[i] = r) \/ steps[i] = w
      /\ n = 0 => 1 \in 1 .. Len(steps) /\ steps[1] = r
  <2>1. /\ first \o next \in Seq(Steps) /\ Len(first \o next) = Len(first) + Len(next)
        /\ \A i \in 1 .. Len(first) : (first \o next)[i] = first[i]
        /\ \A i \in 1 .. Len(first \o next) :
             i > Len(first) => (first \o next)[i] = next[i - Len(first)]
    BY <1>e, Concat, Zenon
  <2>2. /\ steps \in Seq(Steps) /\ Len(steps) = Len(first) + Len(next)
        /\ \A i \in 1 .. Len(first) : steps[i] = first[i]
        /\ \A i \in 1 .. Len(steps) : i > Len(first) => steps[i] = next[i - Len(first)]
    BY <1>6, <2>1
  <2>3. ASSUME NEW i \in 1 .. Len(steps) PROVE (i = 1 /\ n = 0 /\ steps[i] = r) \/ steps[i] = w
    <3>1. CASE i <= Len(first)
      <4>1. i \in 1 .. Len(first) BY <1>f, <3>1
      <4> QED BY <1>f, <2>2, <4>1
    <3>2. CASE i > Len(first)
      <4>1. i - Len(first) \in 1 .. Len(next) BY <1>f, <2>2, <3>2
      <4> QED BY <1>e, <2>2, <3>2, <4>1
    <3> QED BY <1>f, <3>1, <3>2
  <2> QED BY <1>f, <2>2, <2>3
<1>8. agenda' = [agenda EXCEPT ![Client] = steps] BY <1>c, <1>d, <1>3, <1>5, <1>6 DEF Flush
<1>9. Turns(agenda, agenda', Client, steps, 0) BY <1>a, <1>b, <1>7, <1>8, SetTurns
<1>10. OnlyOnce(agenda')
  <2>1. r[1] \in Single /\ w[1] \notin Single BY <1>3, <1>4 DEF Single
  <2> QED BY <1>b, <1>2, <1>3, <1>7, <1>9, <2>1, TurnsOnce, Parts
<1>11. RunFirst(agenda')
  <2>1. r[1] # "run" /\ w[1] # "run" BY <1>3, <1>4
  <2> QED BY <1>b, <1>7, <1>9, <2>1, TurnsRun, Parts
<1>12. /\ \A s : s # w => (Has(agenda', s) <=> Has(agenda, s) \/ (n = 0 /\ s = r))
  <2>1. \A s : s # w => (Among(s, steps) <=> n = 0 /\ s = r) BY <1>3, <1>4, <1>7 DEF Among
  <2> QED BY <1>b, <1>9, <2>1, TurnsHas
<1>13. PICK y : y = [x EXCEPT !.flushed = TRUE] OBVIOUS
<1>14. /\ y \in GroupType /\ y.flushed = TRUE /\ y.done = x.done /\ y.notified = x.notified
       /\ Links(x, y) /\ Content(x, y)
  BY <1>13, SetFlushed
<1>15. group' = [group EXCEPT ![g] = y] BY <1>c, <1>13 DEF Flush
<1>16. /\ group' \in [Groups -> GroupType] /\ group'[g] = y
       /\ \A h \in Groups : h # g => group'[h] = group[h]
  BY <1>a, <1>14, <1>15, SetGroup
<1>17. UNCHANGED <<ready, pool, ran>> BY DEF Flush
<1>18. TypeOK'
  <2>1. agenda' \in [Threads -> Seq(Steps)] BY <1>9 DEF Turns
  <2> QED BY <1>16, <1>17, <2>1 DEF TypeOK
<1>19. /\ \A h : h # g => (Has(agenda', <<"release", h>>) <=> Has(agenda, <<"release", h>>))
       /\ Has(agenda', <<"release", g>>) <=> n = 0
       /\ \A h : Has(agenda', <<"clear", h>>) <=> Has(agenda, <<"clear", h>>)
       /\ \A h : Has(agenda', <<"notify", h>>) <=> Has(agenda, <<"notify", h>>)
       /\ \A h : Has(agenda', <<"done", h>>) <=> Has(agenda, <<"done", h>>)
       /\ \A t : Has(agenda', <<"complete", t>>) <=> Has(agenda, <<"complete", t>>)
       /\ \A t : Has(agenda', <<"run", t>>) <=> Has(agenda, <<"run", t>>)
       /\ \A d, h : Has(agenda', Satisfied(d, h)) <=> Has(agenda, Satisfied(d, h))
  <2>1. \A s : s[1] \notin {"release", "wait"} => (Has(agenda', s) <=> Has(agenda, s))
    BY <1>3, <1>4, <1>12
  <2>2. \A h : h # g => (Has(agenda', <<"release", h>>) <=> Has(agenda, <<"release", h>>))
    BY <1>3, <1>4, <1>12
  <2>3. Has(agenda', <<"release", g>>) <=> n = 0 BY <1>2, <1>3, <1>4, <1>12
  <2> QED BY <2>1, <2>2, <2>3 DEF Satisfied
<1>20. \A h \in Groups :
         /\ Links(group[h], group'[h]) /\ Content(group[h], group'[h])
         /\ group'[h].done = group[h].done /\ group'[h].notified = group[h].notified
         /\ h # g => group'[h] = group[h]
  BY <1>14, <1>16, <1>c DEF Links, Content
<1>21. \A h \in Groups : Released(h)' <=> Released(h)
  <2>1. group'[g].dependencies = n BY <1>d, <1>14, <1>16 DEF Links
  <2>2. ~Released(g)' BY <1>19, <2>1 DEF Released
  <2> QED BY <1>2, <1>16, <1>19, <2>2 DEF Released
<1>22. \A h \in Groups : group[h].after \subseteq Groups BY <1>a, GroupFields
<1>23. Counted'
  <2> SUFFICES ASSUME NEW d \in Groups PROVE Counts(d)' BY DEF Counted
  <2>1. Open(d)' = Open(d) BY <1>19, <1>20, <1>22 DEF Open, Links
  <2>2. Unfinished(d)' = Unfinished(d) BY <1>17, <1>19, <1>20 DEF Unfinished, Finished, Content
  <2> QED BY <1>20, <2>1, <2>2, Parts DEF Counts, Links, Content
<1>24. DependeesListed' BY <1>20 DEF GraphInv, DependeesListed, Links
<1>25. FlushedInOrder'
  <2>1. ASSUME NEW e \in Groups, NEW k \in group'[e].after, group'[k].flushed PROVE group'[e].flushed
    <3>1. k \in group[e].after /\ k \in Groups BY <1>20, <1>22 DEF Links
    <3>2. CASE k = g BY <1>1, <1>14, <1>16, <3>1, <3>2
    <3>3. CASE k # g
      <4>1. group[k].flushed BY <1>16, <2>1, <3>1, <3>3
      <4>2. group[e].flushed BY <3>1, <4>1 DEF GraphInv, FlushedInOrder
      <4> QED BY <1>14, <1>16, <4>2
    <3> QED BY <3>2, <3>3
  <2>2. ASSUME NEW S \in SUBSET {h \in Groups : group'[h].flushed}, S # {}
        PROVE  \E h \in S : group'[h].after \cap S = {}
    <3>1. CASE g \notin S
      <4>1. S \in SUBSET {h \in Groups : group[h].flushed} BY <1>16, <3>1
      <4>2. PICK h \in S : group[h].after \cap S = {} BY <2>2, <4>1 DEF GraphInv, FlushedInOrder
      <4> QED BY <1>20, <4>2 DEF Links
    <3>2. CASE g \in S
      <4> SUFFICES ASSUME NEW k \in group'[g].after, k \in S PROVE FALSE BY <3>2
      <4>1. k \in group[g].after /\ k \in Groups BY <1>20, <1>22 DEF Links
      <4>2. k # g BY <1>1, <1>c, <4>1
      <4>3. group[k].flushed BY <1>16, <4>1, <4>2
      <4>4. group[g].flushed BY <4>1, <4>3 DEF GraphInv, FlushedInOrder
      <4> QED BY <1>1, <1>c, <4>4
    <3> QED BY <3>1, <3>2
  <2> QED BY <2>1, <2>2 DEF FlushedInOrder
<1>26. StepsSound'
  <2>1. ASSUME NEW h \in Groups PROVE GroupSteps(h)'
    <3>1. GroupSteps(h) BY Parts
    <3>2. Has(agenda', <<"release", h>>) => group'[h].flushed /\ group'[h].dependencies = 0
      BY <1>d, <1>14, <1>16, <1>19, <3>1 DEF GroupSteps, Links
    <3> QED BY <1>19, <1>20, <1>21, <3>1, <3>2 DEF GroupSteps, Links, Content
  <2>2. ASSUME NEW t \in Tasks PROVE TaskSteps(t)'
    <3>1. TaskSteps(t) /\ GroupOf[t] \in Groups BY Parts
    <3> QED BY <1>17, <1>19, <1>20, <1>21, <3>1 DEF TaskSteps, Content
  <2>3. OnlyOnce(agenda)' /\ RunFirst(agenda)' BY <1>10, <1>11 DEF OnlyOnce, RunFirst
  <2> QED BY <2>1, <2>2, <2>3 DEF StepsSound
<1>27. Reported'
  <2> SUFFICES ASSUME NEW h \in Groups PROVE ReportedWhen(h)' BY DEF Reported
  <2>1. ReportedWhen(h) BY Parts
  <2> QED BY <1>19, <1>20, <1>21, <2>1 DEF ReportedWhen, Content
<1>28. TaskPlaces'
  <2>1. ASSUME NEW h \in Groups PROVE Waiting(h)'
    <3>1. Waiting(h) BY Parts
    <3> QED BY <1>20, <1>21, <3>1 DEF Waiting, Content
  <2>2. ASSUME NEW t \in Tasks PROVE Place(t)'
    <3>1. Place(t) /\ GroupOf[t] \in Groups BY Parts
    <3>2. (IsQueued(t)' <=> IsQueued(t)) /\ (Here(t)' <=> Here(t))
      BY <1>17, <1>20, <1>21, <3>1 DEF IsQueued, Here, Content
    <3> QED BY <1>17, <1>19, <3>1, <3>2 DEF Place
  <2> QED BY <1>17, <2>1, <2>2 DEF TaskPlaces, GraphInv
<1> QED BY <1>18, <1>23, <1>24, <1>25, <1>26, <1>27, <1>28 DEF GraphInv

-----------------------------------------------------------------------------
(* The other actions leave the graph and its steps alone.                  *)

LEMMA SameAgenda ==
  ASSUME TypeOK, GraphInv, UNCHANGED <<group, ready, agenda, ran>>, pool' \in PoolType
  PROVE  TypeOK' /\ GraphInv'
<1>1. SameSteps(agenda, agenda') BY Parts DEF SameSteps
<1> QED BY <1>1, SameGraph DEF TypeOK

LEMMA OtherStep ==
  ASSUME TypeOK, GraphInv, UNCHANGED <<group, ready, ran>>, pool' \in PoolType,
         NEW p \in Threads, NEW op, Doing(p, op), op \notin Graphic,
         NEW steps \in Seq(Steps), Then(p, steps),
         \A i \in 1 .. Len(steps) : steps[i][1] \notin Graphic
  PROVE  TypeOK' /\ GraphInv'
<1>a. agenda \in [Threads -> Seq(Steps)] BY DEF TypeOK
<1>1. agenda[p] # <<>> /\ agenda[p][1][1] = op
  <2>1. agenda[p] # <<>> /\ agenda[p][1] = <<op, Arg(p)>> BY <1>a, DoingHas
  <2> QED BY <2>1
<1>2. Turns(agenda, agenda', p, steps, 1) BY <1>a, <1>1, ThenTurns
<1>3. SameSteps(agenda, agenda') BY <1>1, <1>2, Parts, ControlSame
<1>4. agenda' \in [Threads -> Seq(Steps)] BY <1>2 DEF Turns
<1> QED BY <1>3, <1>4, SameGraph DEF TypeOK

LEMMA OtherCall ==
  ASSUME TypeOK, GraphInv, UNCHANGED <<group, ready, pool, ran>>, Free,
         NEW steps \in Seq(Steps), agenda' = [agenda EXCEPT ![Client] = steps],
         \A i \in 1 .. Len(steps) : steps[i][1] \notin Graphic
  PROVE  TypeOK' /\ GraphInv'
<1>a. agenda \in [Threads -> Seq(Steps)] BY DEF TypeOK
<1>1. Client \in Threads /\ agenda[Client] = <<>> BY DEF Free, Threads
<1>2. Turns(agenda, agenda', Client, steps, 0) BY <1>a, <1>1, SetTurns
<1>3. SameSteps(agenda, agenda')
  <2>1. OnlyOnce(agenda) /\ RunFirst(agenda) BY Parts
  <2>2. 0 = 1 \/ agenda[Client] = <<>> BY <1>1
  <2>3. 0 = 1 => agenda[Client][1][1] \notin Graphic OBVIOUS
  <2> QED BY <1>1, <1>2, <2>1, <2>2, <2>3, ControlSame, Zenon
<1>4. agenda' \in [Threads -> Seq(Steps)] BY <1>2 DEF Turns
<1> QED BY <1>3, <1>4, SameGraph DEF TypeOK

LEMMA WakeKeeps ==
  ASSUME TypeOK, GraphInv, NEW w \in Workers, Wake(w)
  PROVE  TypeOK' /\ GraphInv'
<1>a. agenda \in [Threads -> Seq(Steps)] BY DEF TypeOK
<1>b. w \in Threads /\ Client \in Threads /\ w # Client BY ThreadAssumption DEF Threads
<1>c. Doing(w, "wake") BY DEF Wake
<1>1. agenda[w] # <<>> /\ agenda[w][1][1] = "wake"
  <2>1. agenda[w] # <<>> /\ agenda[w][1] = <<"wake", Arg(w)>> BY <1>a, <1>b, <1>c, DoingHas
  <2> QED BY <2>1
<1>2. PICK none \in Seq(Steps) : none = <<>> BY StepTypes
<1>3. PICK a : a = [agenda EXCEPT ![w] = none \o Tail(agenda[w])] OBVIOUS
<1>4. Turns(agenda, a, w, none, 1) BY <1>a, <1>b, <1>1, <1>3, TailTurns
<1>5. \A i \in 1 .. Len(none) : none[i][1] \notin Graphic BY <1>2
<1>6. "wake" \notin Graphic /\ "asleep" \notin Graphic /\ "idle" \notin Graphic BY DEF Graphic, Single
<1>7. SameSteps(agenda, a) BY <1>b, <1>1, <1>4, <1>5, <1>6, Parts, ControlSame
<1>8. a \in [Threads -> Seq(Steps)] /\ a[Client] = agenda[Client] BY <1>b, <1>4 DEF Turns
<1>9. a = [agenda EXCEPT ![w] = Tail(@)]
  <2>a. PICK s \in Seq(Steps) : s = agenda[w] BY <1>a, <1>b
  <2>b. Tail(s) \in Seq(Steps) BY <1>1, <2>a
  <2>1. PICK t \in Seq(Steps) : t = Tail(agenda[w]) BY <2>a, <2>b
  <2>2. none \o t = t BY <1>2
  <2> QED BY <1>3, <2>1, <2>2
<1>10. CASE ~Doing(Client, "asleep")
  <2>1. agenda' = [a EXCEPT ![Client] = a[Client]] BY <1>10, <1>8, <1>9, <1>a, <1>b DEF Wake
  <2>2. agenda' = a BY <1>8, <2>1
  <2> QED BY <1>7, <1>8, <2>2, SameGraph DEF TypeOK, Wake
<1>11. CASE Doing(Client, "asleep")
  <2>1. agenda[Client] # <<>> /\ agenda[Client][1][1] = "asleep"
    <3>1. agenda[Client] # <<>> /\ agenda[Client][1] = <<"asleep", Arg(Client)>>
      BY <1>a, <1>b, <1>11, DoingHas
    <3> QED BY <3>1
  <2>2. PICK steps \in Seq(Steps) : steps = <<<<"idle", 0>>>>
    <3>1. <<"idle", 0>> \in Steps BY StepTypes
    <3>2. <<<<"idle", 0>>>> \in Seq(Steps) BY <3>1, StepTypes
    <3> QED BY <3>2
  <2>3. agenda' = [a EXCEPT ![Client] = steps \o Tail(a[Client])]
    BY <1>11, <1>8, <1>9, <1>a, <1>b, <2>2 DEF Wake
  <2>4. Turns(a, agenda', Client, steps, 1) BY <1>b, <1>8, <2>1, <2>3, TailTurns
  <2>5. \A i \in 1 .. Len(steps) : steps[i][1] \notin Graphic BY <1>6, <2>2
  <2>6. OnlyOnce(a) /\ RunFirst(a) BY <1>7 DEF SameSteps
  <2>7. SameSteps(a, agenda') BY <1>6, <1>8, <1>b, <2>1, <2>4, <2>5, <2>6, ControlSame
  <2>8. SameSteps(agenda, agenda') BY <1>7, <2>7 DEF SameSteps
  <2>9. agenda' \in [Threads -> Seq(Steps)] BY <2>4 DEF Turns
  <2> QED BY <2>8, <2>9, SameGraph DEF TypeOK, Wake
<1> QED BY <1>10, <1>11

(* The same with one step or none.                                         *)
LEMMA OtherStepOne ==
  ASSUME TypeOK, GraphInv, UNCHANGED <<group, ready, ran>>, pool' \in PoolType,
         NEW p \in Threads, NEW op, Doing(p, op), op \notin Graphic,
         NEW s \in Steps, s[1] \notin Graphic, Then(p, <<>>) \/ Then(p, <<s>>)
  PROVE  TypeOK' /\ GraphInv'
<1>1. CASE Then(p, <<>>)
  <2>1. PICK none \in Seq(Steps) : none = <<>> BY StepTypes
  <2>2. Then(p, none) /\ \A i \in 1 .. Len(none) : none[i][1] \notin Graphic BY <1>1, <2>1
  <2> QED BY <2>2, OtherStep
<1>2. CASE Then(p, <<s>>)
  <2>a. <<s>> \in Seq(Steps) BY StepTypes
  <2>1. PICK one \in Seq(Steps) : one = <<s>> BY <2>a
  <2>2. Then(p, one) /\ \A i \in 1 .. Len(one) : one[i][1] \notin Graphic BY <1>2, <2>1
  <2> QED BY <2>2, OtherStep
<1> QED BY <1>1, <1>2

LEMMA OtherCallOne ==
  ASSUME TypeOK, GraphInv, UNCHANGED <<group, ready, pool, ran>>, Free,
         NEW s \in Steps, s[1] \notin Graphic, agenda' = [agenda EXCEPT ![Client] = <<s>>]
  PROVE  TypeOK' /\ GraphInv'
<1>a. <<s>> \in Seq(Steps) BY StepTypes
<1>1. PICK one \in Seq(Steps) : one = <<s>> BY <1>a
<1>2. agenda' = [agenda EXCEPT ![Client] = one] /\ \A i \in 1 .. Len(one) : one[i][1] \notin Graphic
  BY <1>1
<1> QED BY <1>2, OtherCall

(* Every step keeps the invariant of the graph.                            *)
LEMMA NextKeepsGraph ==
  ASSUME DependeesFirst = TRUE, TypeOK, GraphInv, Next
  PROVE  TypeOK' /\ GraphInv'
<1>a. pool \in PoolType /\ agenda \in [Threads -> Seq(Steps)] BY DEF TypeOK
<1>b. Client \in Threads /\ \A w \in Workers : w \in Threads BY DEF Threads
<1>c. /\ "count" \notin Graphic /\ "compare" \notin Graphic /\ "wait" \notin Graphic
      /\ "idle" \notin Graphic /\ "equals" \notin Graphic /\ "kill" \notin Graphic
      /\ "join" \notin Graphic /\ "asleep" \notin Graphic /\ "wake" \notin Graphic
  BY DEF Graphic, Single
<1>d. PICK any \in Steps : any = <<"count", 0>> BY StepTypes
<1>e. any[1] = "count" BY <1>d
<1>1. ASSUME NEW p \in Threads, AnyThread(p) PROVE TypeOK' /\ GraphInv'
  BY <1>1, NotifyKeeps, SetDoneKeeps, SatisfyKeeps, ReleaseKeeps, ClearKeeps DEF AnyThread
<1>2. ASSUME NEW w \in Workers, Take(w) PROVE TypeOK' /\ GraphInv' BY <1>2, <1>b, TakeKeeps
<1>3. ASSUME NEW w \in Workers, Exit(w) PROVE TypeOK' /\ GraphInv'
  <2>1. pool' \in PoolType BY <1>3, <1>a DEF Exit, PoolType
  <2> QED BY <1>3, <2>1, SameAgenda DEF Exit
<1>4. ASSUME NEW w \in Workers, Run(w) PROVE TypeOK' /\ GraphInv' BY <1>4, <1>b, RunKeeps
<1>5. ASSUME NEW w \in Workers, Complete(w) PROVE TypeOK' /\ GraphInv' BY <1>5, <1>b, CompleteKeeps
<1>6. ASSUME NEW w \in Workers, Count(w) PROVE TypeOK' /\ GraphInv'
  <2>1. pool' \in PoolType BY <1>6, <1>a, PoolSet DEF Count
  <2>2. pool.completed + 1 \in Nat BY <1>a DEF PoolType
  <2>3. PICK s \in Steps : s = <<"compare", pool.completed + 1>> BY <2>2, StepTypes
  <2>4. s[1] = "compare" BY <2>3
  <2>5. Doing(w, "count") /\ Then(w, <<s>>) /\ UNCHANGED <<group, ready, ran>>
    BY <1>6, <2>3 DEF Count
  <2> QED BY <1>b, <1>c, <2>1, <2>4, <2>5, OtherStepOne
<1>7. ASSUME NEW w \in Workers, Compare(w) PROVE TypeOK' /\ GraphInv'
  <2>1. PICK s \in Steps : s = <<"wake", 0>> BY StepTypes
  <2>2. s[1] = "wake" BY <2>1
  <2>3. /\ Doing(w, "compare") /\ UNCHANGED <<group, ready, ran>> /\ pool' \in PoolType
        /\ Then(w, <<>>) \/ Then(w, <<s>>)
    BY <1>7, <1>a, <2>1 DEF Compare
  <2> QED BY <1>b, <1>c, <2>2, <2>3, OtherStepOne
<1>8. ASSUME NEW w \in Workers, Wake(w) PROVE TypeOK' /\ GraphInv' BY <1>8, WakeKeeps
<1>9. ASSUME Start PROVE TypeOK' /\ GraphInv'
  <2>a. pool.starts \in 0 .. MaxStarts BY <1>a DEF PoolType
  <2>b. pool.starts + 1 \in 0 .. MaxStarts BY <1>9, <2>a, ClientAssumption DEF Start
  <2>c. PICK k \in 0 .. MaxStarts : k = pool.starts + 1 BY <2>b
  <2>d. pool' = [pool EXCEPT !.active = TRUE, !.dead = FALSE, !.alive = Workers, !.starts = k]
    BY <1>9, <2>c DEF Start
  <2>1. pool' \in PoolType BY <1>a, <2>d DEF PoolType
  <2> QED BY <1>9, <2>1, SameAgenda DEF Start
<1>10. ASSUME WaitIdle PROVE TypeOK' /\ GraphInv'
  <2>1. PICK s \in Steps : s = <<"idle", 0>> BY StepTypes
  <2>2. s[1] = "idle" BY <2>1
  <2>3. /\ Free /\ UNCHANGED <<group, ready, pool, ran>>
        /\ agenda' = [agenda EXCEPT ![Client] = <<s>>]
    BY <1>10, <2>1 DEF WaitIdle
  <2> QED BY <1>c, <2>2, <2>3, OtherCallOne
<1>11. ASSUME IsIdle PROVE TypeOK' /\ GraphInv'
  BY <1>11, <1>a, SameAgenda DEF IsIdle, vars
<1>12. ASSUME Stop PROVE TypeOK' /\ GraphInv'
  <2>1. PICK r \in Steps : r = <<"idle", 0>> BY StepTypes
  <2>2. PICK s \in Steps : s = <<"kill", 0>> BY StepTypes
  <2>3. PICK t \in Steps : t = <<"join", 0>> BY StepTypes
  <2>a. <<r, s, t>> \in Seq(Steps) OBVIOUS
  <2>4. PICK steps \in Seq(Steps) : steps = <<r, s, t>> BY <2>a
  <2>5. \A i \in 1 .. Len(steps) : steps[i] = r \/ steps[i] = s \/ steps[i] = t BY <2>4
  <2>6. r[1] = "idle" /\ s[1] = "kill" /\ t[1] = "join" BY <2>1, <2>2, <2>3
  <2>7. \A i \in 1 .. Len(steps) : steps[i][1] \notin Graphic BY <1>c, <2>5, <2>6
  <2>8. /\ Free /\ UNCHANGED <<group, ready, pool, ran>>
        /\ agenda' = [agenda EXCEPT ![Client] = steps]
    BY <1>12, <2>1, <2>2, <2>3, <2>4 DEF Stop
  <2> QED BY <2>7, <2>8, OtherCall
<1>13. ASSUME NEW t \in Tasks, Enqueue(t) PROVE TypeOK' /\ GraphInv' BY <1>13, EnqueueKeeps
<1>14. ASSUME NEW e \in Edges, AddDependency(e[1], e[2]) PROVE TypeOK' /\ GraphInv'
  <2>1. e[1] \in Groups /\ e[2] \in Groups BY GroupAssumption
  <2> QED BY <1>14, <2>1, AddDependencyKeeps
<1>15. ASSUME NEW g \in Groups, Submit(g) PROVE TypeOK' /\ GraphInv'
  BY <1>15, FlushKeeps DEF Submit
<1>16. ASSUME NEW g \in Groups, Wait(g) PROVE TypeOK' /\ GraphInv'
  <2>1. CASE ~group[g].flushed
    <3>1. Flush(g, <<<<"wait", g>>>>) BY <1>16, <2>1 DEF Wait
    <3> QED BY <3>1, FlushKeeps
  <2>2. CASE group[g].flushed
    <3>1. PICK s \in Steps : s = <<"wait", g>> BY StepTypes
    <3>2. s[1] = "wait" BY <3>1
    <3>3. /\ Free /\ UNCHANGED <<group, ready, pool, ran>>
          /\ agenda' = [agenda EXCEPT ![Client] = <<s>>]
      BY <1>16, <2>2, <3>1 DEF Wait
    <3> QED BY <1>c, <3>2, <3>3, OtherCallOne
  <2> QED BY <2>1, <2>2
<1>17. ASSUME Waited PROVE TypeOK' /\ GraphInv'
  BY <1>17, <1>a, <1>b, <1>c, <1>e, OtherStepOne DEF Waited
<1>18. ASSUME Load PROVE TypeOK' /\ GraphInv'
  <2>1. PICK first \in {"total", "completed"} : Then(Client, <<<<"equals", <<first, pool[first]>>>>>>)
    BY <1>18 DEF Load
  <2>2. pool[first] \in Nat BY <1>a DEF PoolType
  <2>3. PICK s \in Steps : s = <<"equals", <<first, pool[first]>>>> BY <2>2, StepTypes
  <2>4. s[1] = "equals" BY <2>3
  <2>5. Doing(Client, "idle") /\ UNCHANGED <<group, ready, ran>> /\ pool' \in PoolType
    BY <1>18, <1>a DEF Load
  <2> QED BY <1>b, <1>c, <2>1, <2>3, <2>4, <2>5, OtherStepOne
<1>19. ASSUME Equals PROVE TypeOK' /\ GraphInv'
  <2>1. PICK s \in Steps : s = <<"asleep", 0>> BY StepTypes
  <2>2. s[1] = "asleep" BY <2>1
  <2>3. /\ Doing(Client, "equals") /\ UNCHANGED <<group, ready, ran>> /\ pool' \in PoolType
        /\ Then(Client, <<>>) \/ Then(Client, <<s>>)
    BY <1>19, <1>a, <2>1 DEF Equals
  <2> QED BY <1>b, <1>c, <2>2, <2>3, OtherStepOne
<1>20. ASSUME Kill PROVE TypeOK' /\ GraphInv'
  <2>1. pool' \in PoolType BY <1>20, <1>a DEF Kill, PoolType
  <2>2. Doing(Client, "kill") /\ UNCHANGED <<group, ready, ran>> /\ Then(Client, <<>>)
    BY <1>20 DEF Kill
  <2> QED BY <1>b, <1>c, <1>e, <2>1, <2>2, OtherStepOne
<1>21. ASSUME Join PROVE TypeOK' /\ GraphInv'
  <2>1. pool' \in PoolType BY <1>21, <1>a DEF Join, PoolType
  <2>2. Doing(Client, "join") /\ UNCHANGED <<group, ready, ran>> /\ Then(Client, <<>>)
    BY <1>21 DEF Join
  <2> QED BY <1>b, <1>c, <1>e, <2>1, <2>2, OtherStepOne
<1>22. CASE Call
  BY <1>9, <1>10, <1>11, <1>12, <1>13, <1>14, <1>15, <1>16, <1>22 DEF Call
<1>23. CASE InCall
  BY <1>1, <1>b, <1>17, <1>18, <1>19, <1>20, <1>21, <1>23 DEF InCall
<1>24. CASE \E w \in Workers : Worker(w)
  BY <1>1, <1>b, <1>2, <1>3, <1>4, <1>5, <1>6, <1>7, <1>8, <1>24 DEF Worker
<1> QED BY <1>22, <1>23, <1>24 DEF Next

-----------------------------------------------------------------------------
(* Every step keeps Stopping.                                              *)

SamePool == pool'.active = pool.active /\ pool'.dead = pool.dead /\ pool'.alive = pool.alive

LEMMA PoolSame ==
  ASSUME pool \in PoolType, NEW k \in Nat,
         \/ pool' = [pool EXCEPT !.signal = @ + 1] \/ pool' = [pool EXCEPT !.completed = @ + 1]
         \/ pool' = [pool EXCEPT !.total = @ + k] \/ pool' = pool
  PROVE  SamePool
BY DEF PoolType, SamePool

(* kill and join are the last steps of the client.                         *)
EndsWell(a, d, act) ==
  \A p \in Threads : \A i \in 1 .. Len(a[p]) :
    /\ a[p][i][1] = "kill" => Len(a[p]) = i + 1 /\ a[p][i + 1][1] = "join" /\ ~d
    /\ a[p][i][1] = "join" => p = Client /\ act /\ Len(a[p]) = i

LEMMA EndsTurn ==
  ASSUME NEW a, NEW e, NEW p \in Threads, NEW steps, NEW n, Turns(a, e, p, steps, n),
         \A i \in 1 .. Len(steps) : steps[i][1] \notin {"kill", "join"},
         NEW d, NEW act, EndsWell(a, d, act)
  PROVE  EndsWell(e, d, act)
<1>b. /\ Len(a[p]) \in Nat /\ Len(e[p]) \in Nat /\ Len(steps) \in Nat /\ n \in Nat
      /\ Len(e[p]) = Len(steps) + Len(a[p]) - n /\ n <= Len(a[p])
  BY DEF Turns
<1>4. ASSUME NEW i \in 1 .. Len(e[p]), e[p][i][1] \in {"kill", "join"}
      PROVE  /\ i - Len(steps) + n \in 1 .. Len(a[p])
             /\ e[p][i] = a[p][i - Len(steps) + n]
             /\ Len(a[p]) - (i - Len(steps) + n) = Len(e[p]) - i
  <2>1. i > Len(steps) BY <1>4, <1>b DEF Turns
  <2>2. e[p][i] = a[p][i - Len(steps) + n] BY <2>1 DEF Turns
  <2> QED BY <1>b, <2>1, <2>2
<1>5. ASSUME NEW q \in Threads, NEW i \in 1 .. Len(e[q])
      PROVE  /\ e[q][i][1] = "kill" =>
                  Len(e[q]) = i + 1 /\ e[q][i + 1][1] = "join" /\ ~d
             /\ e[q][i][1] = "join" => q = Client /\ act /\ Len(e[q]) = i
  <2>1. CASE q # p
    <3>1. e[q] = a[q] BY <2>1 DEF Turns
    <3> QED BY <3>1 DEF EndsWell
  <2>2. CASE q = p /\ e[p][i][1] = "kill"
    <3>1. PICK j \in 1 .. Len(a[p]) : j = i - Len(steps) + n BY <1>4, <2>2
    <3>a. a[p][j][1] = "kill" /\ Len(a[p]) - j = Len(e[p]) - i BY <1>4, <2>2, <3>1
    <3>b. ~(i \in 1 .. Len(steps))
      <4> SUFFICES ASSUME i \in 1 .. Len(steps) PROVE FALSE OBVIOUS
      <4>1. e[p][i] = steps[i] BY DEF Turns
      <4> QED BY <2>2, <4>1
    <3>2. /\ a[p][j][1] = "kill" /\ Len(a[p]) - j = Len(e[p]) - i
          /\ i > Len(steps)
      BY <3>a, <3>b, <1>b
    <3>3. Len(a[p]) = j + 1 /\ a[p][j + 1][1] = "join" /\ ~d
      BY <3>2 DEF EndsWell
    <3>4. Len(e[p]) = i + 1 BY <1>b, <3>2, <3>3, <2>2
    <3>5. PICK k \in 1 .. Len(e[p]) : k = i + 1 BY <1>b, <2>2, <3>4
    <3>6. k > Len(steps) /\ k - Len(steps) + n = j + 1 BY <1>b, <2>2, <3>1, <3>2, <3>5
    <3>7. e[p][k] = a[p][k - Len(steps) + n] BY <3>6 DEF Turns
    <3>8. e[p][i + 1][1] = "join" BY <3>3, <3>5, <3>6, <3>7
    <3> QED BY <2>2, <3>3, <3>4, <3>8
  <2>3. CASE q = p /\ e[p][i][1] = "join"
    <3>1. PICK j \in 1 .. Len(a[p]) : j = i - Len(steps) + n BY <1>4, <2>3
    <3>2. a[p][j][1] = "join" /\ Len(a[p]) - j = Len(e[p]) - i
      BY <1>4, <2>3, <3>1
    <3>3. p = Client /\ act /\ Len(a[p]) = j BY <3>2 DEF EndsWell
    <3>4. Len(e[p]) = i BY <1>b, <2>3, <3>2, <3>3
    <3> QED BY <2>3, <3>3, <3>4
  <2> QED BY <2>1, <2>2, <2>3
<1> QED BY <1>5, Zenon DEF EndsWell

(* While the pool is dead the client only joins, so it is a worker that    *)
(* takes a step, and the pool still has one.                               *)
LEMMA StopTurn ==
  ASSUME TypeOK, Stopping, SamePool, NEW p \in Threads, NEW steps, NEW n,
         Turns(agenda, agenda', p, steps, n),
         \/ n = 1 /\ agenda[p][1][1] \notin {"kill", "join"}
         \/ n = 0 /\ agenda[p] = <<>> /\ p \in pool.alive \cup {Client},
         \A i \in 1 .. Len(steps) : steps[i][1] \notin {"kill", "join"}
  PROVE  Stopping'
<1>a. agenda \in [Threads -> Seq(Steps)] BY DEF TypeOK
<1>b. /\ Len(agenda[p]) \in Nat /\ Len(agenda'[p]) \in Nat /\ Len(steps) \in Nat /\ n \in Nat
      /\ Len(agenda'[p]) = Len(steps) + Len(agenda[p]) - n /\ n <= Len(agenda[p])
      /\ n = 0 => Len(agenda[p]) = 0
  BY DEF Turns
<1>1. n = 1 => p = Client \/ p \in pool.alive
  <2> SUFFICES ASSUME n = 1, p # Client, p \notin pool.alive PROVE FALSE OBVIOUS
  <2>1. p \in Workers \ pool.alive BY DEF Threads
  <2>2. agenda[p] = <<>> BY <2>1 DEF Stopping
  <2>3. Len(agenda[p]) = 0 BY <2>2
  <2> QED BY <1>b, <2>3
<1>2. p = Client => ~pool.dead
  <2> SUFFICES ASSUME p = Client, pool.dead PROVE FALSE OBVIOUS
  <2>1. Doing(Client, "join") BY DEF Stopping
  <2>2. agenda[Client] # <<>> /\ agenda[Client][1] = <<"join", Arg(Client)>>
    BY <1>a, <2>1, DoingHas
  <2> QED BY <2>2
<1>3. p = Client \/ p \in pool.alive BY <1>1
<1>5. EndsWell(agenda', pool'.dead, pool'.active)
  <2>1. EndsWell(agenda, pool.dead, pool.active) BY DEF Stopping, EndsWell
  <2> QED BY <2>1, EndsTurn DEF SamePool
<1>6. pool'.dead => Doing(Client, "join")'
  <2> SUFFICES ASSUME pool.dead PROVE Doing(Client, "join")' BY DEF SamePool
  <2>1. agenda'[Client] = agenda[Client] BY <1>2 DEF Turns, Threads
  <2> QED BY <2>1 DEF Stopping, Doing
<1>7. pool'.active /\ ~pool'.dead => pool'.alive = Workers BY DEF Stopping, SamePool
<1>8. \A w \in Workers \ pool'.alive : agenda'[w] = <<>>
  <2> SUFFICES ASSUME NEW w \in Workers, w \notin pool.alive PROVE agenda'[w] = <<>>
    BY DEF SamePool
  <2>1. w # p BY <1>3, ThreadAssumption
  <2>2. agenda'[w] = agenda[w] BY <2>1 DEF Turns, Threads
  <2> QED BY <2>2 DEF Stopping
<1>9. ~(pool'.dead /\ pool'.alive = {}) BY <1>2, <1>3 DEF SamePool
<1> QED BY <1>5, <1>6, <1>7, <1>8, <1>9 DEF Stopping, EndsWell

LEMMA StopThen ==
  ASSUME TypeOK, Stopping, SamePool, NEW p \in Threads, NEW op, Doing(p, op),
         op \notin {"kill", "join"}, NEW steps \in Seq(Steps), Then(p, steps),
         \A i \in 1 .. Len(steps) : steps[i][1] \notin {"kill", "join"}
  PROVE  Stopping'
<1>a. agenda \in [Threads -> Seq(Steps)] BY DEF TypeOK
<1>1. agenda[p] # <<>> /\ agenda[p][1] = <<op, Arg(p)>> BY <1>a, DoingHas
<1>2. agenda[p][1][1] = op BY <1>1
<1>3. Turns(agenda, agenda', p, steps, 1) BY <1>a, <1>1, ThenTurns
<1>4. 1 = 1 /\ agenda[p][1][1] \notin {"kill", "join"} BY <1>2
<1> QED BY <1>3, <1>4, StopTurn

LEMMA StopThenOne ==
  ASSUME TypeOK, Stopping, SamePool, NEW p \in Threads, NEW op, Doing(p, op),
         op \notin {"kill", "join"}, NEW s \in Steps, Then(p, <<>>) \/ Then(p, <<s>>),
         s[1] \notin {"kill", "join"}
  PROVE  Stopping'
<1>1. CASE Then(p, <<>>)
  <2>1. PICK none \in Seq(Steps) : none = <<>> BY StepTypes
  <2>2. Then(p, none) /\ \A i \in 1 .. Len(none) : none[i][1] \notin {"kill", "join"} BY <1>1, <2>1
  <2> QED BY <2>2, StopThen
<1>2. CASE Then(p, <<s>>)
  <2>a. <<s>> \in Seq(Steps) BY StepTypes
  <2>1. PICK one \in Seq(Steps) : one = <<s>> BY <2>a
  <2>2. Then(p, one) /\ \A i \in 1 .. Len(one) : one[i][1] \notin {"kill", "join"} BY <1>2, <2>1
  <2> QED BY <2>2, StopThen
<1> QED BY <1>1, <1>2

LEMMA StopCall ==
  ASSUME TypeOK, Stopping, SamePool, Free, NEW steps \in Seq(Steps),
         agenda' = [agenda EXCEPT ![Client] = steps],
         \A i \in 1 .. Len(steps) : steps[i][1] \notin {"kill", "join"}
  PROVE  Stopping'
<1>a. agenda \in [Threads -> Seq(Steps)] BY DEF TypeOK
<1>1. Client \in Threads /\ agenda[Client] = <<>> BY DEF Free, Threads
<1>2. Turns(agenda, agenda', Client, steps, 0) BY <1>a, <1>1, SetTurns
<1>3. 0 = 0 /\ agenda[Client] = <<>> /\ Client \in pool.alive \cup {Client} BY <1>1
<1> QED BY <1>1, <1>2, <1>3, StopTurn

LEMMA StopCallOne ==
  ASSUME TypeOK, Stopping, SamePool, Free, NEW s \in Steps, s[1] \notin {"kill", "join"},
         agenda' = [agenda EXCEPT ![Client] = <<s>>]
  PROVE  Stopping'
<1>a. <<s>> \in Seq(Steps) BY StepTypes
<1>1. PICK one \in Seq(Steps) : one = <<s>> BY <1>a
<1>2. /\ agenda' = [agenda EXCEPT ![Client] = one]
      /\ \A i \in 1 .. Len(one) : one[i][1] \notin {"kill", "join"}
  BY <1>1
<1> QED BY <1>2, StopCall

(* kill and join are steps of the client, one after the other.             *)
LEMMA OnlyTheClientStops ==
  ASSUME TypeOK, Stopping, NEW p \in Threads, NEW i \in 1 .. Len(agenda[p]),
         agenda[p][i][1] \in {"kill", "join"}
  PROVE  p = Client /\ pool.active
<1>1. CASE agenda[p][i][1] = "join" BY <1>1 DEF Stopping
<1>2. CASE agenda[p][i][1] = "kill"
  <2>1. Len(agenda[p]) = i + 1 /\ agenda[p][i + 1][1] = "join" BY <1>2 DEF Stopping
  <2>2. PICK k \in 1 .. Len(agenda[p]) : k = i + 1 BY <2>1
  <2> QED BY <2>1, <2>2 DEF Stopping
<1> QED BY <1>1, <1>2

LEMMA StopSame ==
  ASSUME Stopping, UNCHANGED <<pool, ready, agenda>>
  PROVE  Stopping'
BY DEF Stopping, Doing

LEMMA StartStops ==
  ASSUME TypeOK, Stopping, Start
  PROVE  Stopping'
<1>a. agenda \in [Threads -> Seq(Steps)] /\ pool \in PoolType BY DEF TypeOK
<1>1. /\ pool'.active = TRUE /\ pool'.dead = FALSE /\ pool'.alive = Workers
      /\ UNCHANGED <<ready, agenda>> /\ agenda[Client] = <<>>
  BY <1>a DEF Start, PoolType, Free
<1>2. ASSUME NEW p \in Threads, NEW i \in 1 .. Len(agenda[p]) PROVE agenda[p][i][1] \notin {"kill", "join"}
  <2>1. SUFFICES ASSUME agenda[p][i][1] \in {"kill", "join"} PROVE FALSE OBVIOUS
  <2>2. agenda[Client] # <<>> BY <2>1, OnlyTheClientStops
  <2> QED BY <1>1, <2>2
<1> QED BY <1>1, <1>2 DEF Stopping

LEMMA ExitStops ==
  ASSUME TypeOK, Stopping, NEW w \in Workers, Exit(w)
  PROVE  Stopping'
<1>a. pool \in PoolType BY DEF TypeOK
<1>1. /\ pool'.active = pool.active /\ pool'.dead = pool.dead /\ pool'.alive = pool.alive \ {w}
      /\ UNCHANGED <<ready, agenda>> /\ agenda[w] = <<>> /\ pool.dead /\ ready = <<>>
  BY <1>a DEF Exit, PoolType, Idle
<1> QED BY <1>1 DEF Stopping, Doing

LEMMA StopStops ==
  ASSUME TypeOK, Stopping, Stop
  PROVE  Stopping'
<1>a. agenda \in [Threads -> Seq(Steps)] BY DEF TypeOK
<1>b. Client \in Threads BY DEF Threads
<1>1. PICK steps : steps = <<<<"idle", 0>>, <<"kill", 0>>, <<"join", 0>>>> OBVIOUS
<1>2. /\ Len(steps) = 3 /\ \A i \in 1 .. Len(steps) : i = 1 \/ i = 2 \/ i = 3
      /\ steps[1][1] = "idle" /\ steps[2][1] = "kill" /\ steps[3][1] = "join"
  BY <1>1
<1>3. /\ agenda'[Client] = steps /\ \A p \in Threads : p # Client => agenda'[p] = agenda[p]
      /\ UNCHANGED <<ready, pool>> /\ pool.active /\ agenda[Client] = <<>>
  BY <1>1, <1>a, <1>b DEF Stop, Free
<1>4. ~pool.dead BY <1>3 DEF Stopping, Doing
<1>5. ASSUME NEW p \in Threads, NEW i \in 1 .. Len(agenda'[p])
      PROVE  /\ agenda'[p][i][1] = "kill" =>
                  Len(agenda'[p]) = i + 1 /\ agenda'[p][i + 1][1] = "join" /\ ~pool'.dead
             /\ agenda'[p][i][1] = "join" => p = Client /\ pool'.active /\ Len(agenda'[p]) = i
  <2>1. CASE p # Client BY <1>3, <2>1 DEF Stopping
  <2>2. CASE p = Client
    <3>1. agenda'[p] = steps /\ (i = 1 \/ i = 2 \/ i = 3) BY <1>2, <1>3, <2>2
    <3>2. /\ steps[i][1] = "kill" => i = 2 /\ i + 1 = 3
          /\ steps[i][1] = "join" => i = 3
      BY <1>2, <3>1
    <3>3. steps[i][1] = "kill" => steps[i + 1][1] = "join" BY <1>2, <3>2
    <3> QED BY <1>2, <1>3, <1>4, <2>2, <3>1, <3>2, <3>3
  <2> QED BY <2>1, <2>2
<1>6. \A w \in Workers \ pool.alive : agenda'[w] = <<>>
  BY <1>3, ThreadAssumption DEF Stopping, Threads
<1> QED BY <1>3, <1>4, <1>5, <1>6 DEF Stopping

LEMMA KillStops ==
  ASSUME TypeOK, Stopping, Kill
  PROVE  Stopping'
<1>a. agenda \in [Threads -> Seq(Steps)] /\ pool \in PoolType BY DEF TypeOK
<1>b. Client \in Threads BY DEF Threads
<1>c. Doing(Client, "kill") BY DEF Kill
<1>1. agenda[Client] # <<>> /\ agenda[Client][1][1] = "kill" /\ 1 \in 1 .. Len(agenda[Client])
  <2>1. /\ agenda[Client] # <<>> /\ agenda[Client][1] = <<"kill", Arg(Client)>>
        /\ 1 \in 1 .. Len(agenda[Client])
    BY <1>a, <1>b, <1>c, DoingHas
  <2> QED BY <2>1
<1>2. Len(agenda[Client]) = 2 /\ agenda[Client][2][1] = "join" /\ ~pool.dead
  <2>1. /\ Len(agenda[Client]) = 1 + 1 /\ agenda[Client][1 + 1][1] = "join" /\ ~pool.dead
    BY <1>1, <1>b DEF Stopping
  <2>2. 1 + 1 = 2 OBVIOUS
  <2> QED BY <2>1, <2>2
<1>3. pool.active /\ pool.alive = Workers
  <2>1. 2 \in 1 .. Len(agenda[Client]) BY <1>2
  <2>2. pool.active BY <1>b, <1>2, <2>1 DEF Stopping
  <2> QED BY <1>2, <2>2 DEF Stopping
<1>4. /\ pool'.active = pool.active /\ pool'.dead = TRUE /\ pool'.alive = pool.alive
  BY <1>a DEF Kill, PoolType
<1>5. PICK none \in Seq(Steps) : none = <<>> BY StepTypes
<1>6. Turns(agenda, agenda', Client, none, 1) BY <1>a, <1>b, <1>1, <1>5, ThenTurns DEF Kill
<1>7. Len(agenda'[Client]) = 1 /\ agenda'[Client][1] = agenda[Client][2]
      /\ \A p \in Threads : p # Client => agenda'[p] = agenda[p]
  <2>1. Len(none) = 0 BY <1>5
  <2>2. Len(agenda'[Client]) = 1 BY <1>2, <1>6, <2>1 DEF Turns
  <2>3. 1 \in 1 .. Len(agenda'[Client]) /\ 1 > Len(none) /\ 1 - Len(none) + 1 = 2 BY <2>1, <2>2
  <2>4. agenda'[Client][1] = agenda[Client][1 - Len(none) + 1] BY <1>6, <2>3 DEF Turns
  <2> QED BY <1>6, <2>2, <2>3, <2>4 DEF Turns
<1>8. ASSUME NEW p \in Threads, NEW i \in 1 .. Len(agenda'[p])
      PROVE  /\ agenda'[p][i][1] # "kill"
             /\ agenda'[p][i][1] = "join" => p = Client /\ Len(agenda'[p]) = i
  <2>1. CASE p # Client
    <3>1. agenda'[p] = agenda[p] BY <1>7, <2>1
    <3>2. agenda[p][i][1] \notin {"kill", "join"} BY <2>1, <3>1, OnlyTheClientStops
    <3> QED BY <3>1, <3>2
  <2>2. CASE p = Client
    <3>a. Len(agenda'[p]) = 1 BY <1>7, <2>2
    <3>1. i = 1 BY <3>a
    <3>2. agenda'[p][i][1] = "join" BY <1>2, <1>7, <2>2, <3>1
    <3> QED BY <1>7, <2>2, <3>1, <3>2
  <2> QED BY <2>1, <2>2
<1>9. Doing(Client, "join")'
  <2>1. agenda' \in [Threads -> Seq(Steps)] BY <1>6 DEF Turns
  <2>2. PICK s \in Seq(Steps) : s = agenda'[Client] BY <1>b, <2>1
  <2>3. s # <<>> /\ Head(s) = s[1] BY <1>7, <2>2
  <2> QED BY <1>2, <1>7, <2>2, <2>3 DEF Doing
<1>10. Workers # {} BY ThreadAssumption
<1> QED BY <1>3, <1>4, <1>8, <1>9, <1>10 DEF Stopping

LEMMA JoinStops ==
  ASSUME TypeOK, Stopping, Join
  PROVE  Stopping' /\ pool.dead /\ pool.alive = {} /\ \A p \in Threads : agenda'[p] = <<>>
<1>a. agenda \in [Threads -> Seq(Steps)] /\ pool \in PoolType BY DEF TypeOK
<1>b. Client \in Threads BY DEF Threads
<1>c. Doing(Client, "join") BY DEF Join
<1>1. agenda[Client] # <<>> /\ agenda[Client][1][1] = "join" /\ 1 \in 1 .. Len(agenda[Client])
  <2>1. /\ agenda[Client] # <<>> /\ agenda[Client][1] = <<"join", Arg(Client)>>
        /\ 1 \in 1 .. Len(agenda[Client])
    BY <1>a, <1>b, <1>c, DoingHas
  <2> QED BY <2>1
<1>2. Len(agenda[Client]) = 1 /\ pool.active BY <1>1, <1>b DEF Stopping
<1>3. /\ pool'.active = FALSE /\ pool'.dead = FALSE /\ pool'.alive = pool.alive /\ pool.alive = {}
  BY <1>a DEF Join, PoolType
<1>4. pool.dead
  <2>1. Workers # {} BY ThreadAssumption
  <2> QED BY <1>2, <1>3, <2>1 DEF Stopping
<1>5. PICK none \in Seq(Steps) : none = <<>> BY StepTypes
<1>6. Turns(agenda, agenda', Client, none, 1) BY <1>a, <1>b, <1>1, <1>5, ThenTurns DEF Join
<1>7. \A p \in Threads : agenda'[p] = <<>>
  <2>1. Len(none) = 0 BY <1>5
  <2>2. Len(agenda'[Client]) = 0 BY <1>2, <1>6, <2>1 DEF Turns
  <2>3. agenda'[Client] \in Seq(Steps) BY <1>b, <1>6 DEF Turns
  <2>4. agenda'[Client] = <<>> BY <2>2, <2>3
  <2>5. ASSUME NEW w \in Workers PROVE agenda'[w] = <<>>
    <3>1. agenda[w] = <<>> BY <1>3 DEF Stopping
    <3> QED BY <1>6, <3>1, ThreadAssumption DEF Turns, Threads
  <2> QED BY <2>4, <2>5 DEF Threads
<1>8. Stopping'
  <2>1. \A p \in Threads : \A i \in 1 .. Len(agenda'[p]) : FALSE BY <1>7
  <2> QED BY <1>3, <1>7, <2>1 DEF Stopping, Threads
<1> QED BY <1>3, <1>4, <1>7, <1>8

LEMMA TakeStops ==
  ASSUME TypeOK, Stopping, NEW w \in Workers, Take(w)
  PROVE  Stopping'
<1>a. agenda \in [Threads -> Seq(Steps)] /\ ready \in Seq(Tasks) BY DEF TypeOK
<1>b. w \in Threads BY DEF Threads
<1>1. agenda[w] = <<>> /\ w \in pool.alive /\ SamePool /\ ready # <<>> BY DEF Take, Idle, SamePool
<1>2. PICK u \in Tasks : u = Head(ready) BY <1>1, <1>a
<1>3. PICK steps : steps = <<<<"run", u>>, <<"complete", u>>, <<"count", 0>>>> OBVIOUS
<1>4. steps \in Seq(Steps) /\ \A i \in 1 .. Len(steps) : steps[i][1] \notin {"kill", "join"}
  <2>1. <<"run", u>> \in Steps /\ <<"complete", u>> \in Steps /\ <<"count", 0>> \in Steps BY StepTypes
  <2> QED BY <1>3, <2>1
<1>5. agenda' = [agenda EXCEPT ![w] = steps] BY <1>2, <1>3 DEF Take
<1>6. Turns(agenda, agenda', w, steps, 0) BY <1>a, <1>b, <1>1, <1>4, <1>5, SetTurns
<1>7. 0 = 0 /\ agenda[w] = <<>> /\ w \in pool.alive \cup {Client} BY <1>1
<1> QED BY <1>b, <1>1, <1>4, <1>6, <1>7, StopTurn

LEMMA WakeStops ==
  ASSUME TypeOK, Stopping, NEW w \in Workers, Wake(w)
  PROVE  Stopping'
<1>a. agenda \in [Threads -> Seq(Steps)] BY DEF TypeOK
<1>b. w \in Threads /\ Client \in Threads /\ w # Client BY ThreadAssumption DEF Threads
<1>c. Doing(w, "wake") BY DEF Wake
<1>1. agenda[w] # <<>> BY <1>c DEF Doing
<1>2. PICK none \in Seq(Steps) : none = <<>> BY StepTypes
<1>3. PICK a : a = [agenda EXCEPT ![w] = none \o Tail(agenda[w])] OBVIOUS
<1>4. Turns(agenda, a, w, none, 1) BY <1>a, <1>b, <1>1, <1>3, TailTurns
<1>5. a \in [Threads -> Seq(Steps)] /\ \A q \in Threads : q # w => a[q] = agenda[q]
  BY <1>b, <1>4 DEF Turns
<1>6. EndsWell(a, pool.dead, pool.active)
  <2>1. EndsWell(agenda, pool.dead, pool.active) BY DEF Stopping, EndsWell
  <2>2. \A i \in 1 .. Len(none) : none[i][1] \notin {"kill", "join"} BY <1>2
  <2> QED BY <1>b, <1>4, <2>1, <2>2, EndsTurn
<1>7. a = [agenda EXCEPT ![w] = Tail(@)]
  <2>a. PICK s \in Seq(Steps) : s = agenda[w] BY <1>a, <1>b
  <2>b. Tail(s) \in Seq(Steps) BY <1>1, <2>a
  <2>1. PICK t \in Seq(Steps) : t = Tail(agenda[w]) BY <2>a, <2>b
  <2>2. none \o t = t BY <1>2
  <2> QED BY <1>3, <2>1, <2>2
<1>8. /\ EndsWell(agenda', pool.dead, pool.active)
      /\ \A q \in Threads : q # w /\ q # Client => agenda'[q] = agenda[q]
      /\ Doing(Client, "join") => agenda'[Client] = agenda[Client]
  <2>1. CASE ~Doing(Client, "asleep")
    <3>1. agenda' = [a EXCEPT ![Client] = a[Client]] BY <2>1, <1>5, <1>7, <1>a, <1>b DEF Wake
    <3>2. agenda' = a BY <1>5, <3>1
    <3> QED BY <1>5, <1>6, <1>b, <3>2
  <2>2. CASE Doing(Client, "asleep")
    <3>1. agenda[Client] # <<>> BY <2>2 DEF Doing
    <3>2. PICK steps \in Seq(Steps) : steps = <<<<"idle", 0>>>>
      <4>1. <<"idle", 0>> \in Steps BY StepTypes
      <4>2. <<<<"idle", 0>>>> \in Seq(Steps) BY <4>1, StepTypes
      <4> QED BY <4>2
    <3>3. agenda' = [a EXCEPT ![Client] = steps \o Tail(a[Client])]
      BY <2>2, <1>5, <1>7, <1>a, <1>b, <3>2 DEF Wake
    <3>4. Turns(a, agenda', Client, steps, 1) BY <1>b, <1>5, <3>1, <3>3, TailTurns
    <3>5. \A i \in 1 .. Len(steps) : steps[i][1] \notin {"kill", "join"} BY <3>2
    <3>6. EndsWell(agenda', pool.dead, pool.active) BY <1>6, <1>b, <3>4, <3>5, EndsTurn
    <3>7. ~Doing(Client, "join") BY <2>2 DEF Doing
    <3> QED BY <1>5, <3>4, <3>6, <3>7 DEF Turns
  <2> QED BY <2>1, <2>2
<1>9. w \in pool.alive BY <1>1 DEF Stopping
<1>10. UNCHANGED <<pool, ready>> BY DEF Wake
<1>11. pool.dead => Doing(Client, "join") /\ agenda'[Client] = agenda[Client]
  BY <1>8 DEF Stopping
<1>12. \A q \in Workers \ pool.alive : agenda'[q] = <<>>
  BY <1>8, <1>9, <1>b, ThreadAssumption DEF Stopping, Threads
<1> QED BY <1>8, <1>9, <1>10, <1>11, <1>12 DEF Stopping, EndsWell, Doing

LEMMA ZeroOrOne ==
  ASSUME NEW s \in Steps, NEW seq, seq = <<>> \/ seq = <<s>>
  PROVE  seq \in Seq(Steps) /\ \A i \in 1 .. Len(seq) : seq[i] = s
<1>1. CASE seq = <<>> BY <1>1
<1>2. CASE seq = <<s>>
  <2>1. seq \in Seq(Steps) BY <1>2
  <2>2. \A i \in 1 .. Len(seq) : seq[i] = s BY <1>2
  <2> QED BY <2>1, <2>2
<1> QED BY <1>1, <1>2

LEMMA NextKeepsStopping ==
  ASSUME TypeOK, Stopping, Next
  PROVE  Stopping'
<1>a. /\ pool \in PoolType /\ agenda \in [Threads -> Seq(Steps)] /\ group \in [Groups -> GroupType]
  BY DEF TypeOK
<1>b. Client \in Threads /\ \A w \in Workers : w \in Threads BY DEF Threads
<1>c. ASSUME UNCHANGED pool PROVE SamePool BY <1>c DEF SamePool
<1>d. PICK any \in Steps : any = <<"count", 0>> BY StepTypes
<1>e. any[1] = "count" BY <1>d
<1>f. PICK zero \in Nat : TRUE OBVIOUS
<1>1. ASSUME NEW p \in Threads, Notify(p) PROVE Stopping'
  <2>1. PICK g \in Groups : g = Arg(p) BY <1>1, <1>a, ArgType DEF Notify
  <2>2. PICK pending \in Seq(Groups) : pending = group[g].pending BY <1>a, GroupFields
  <2>3. PICK steps : steps = [i \in DOMAIN pending |-> Satisfied(pending[i], g)] \o <<<<"done", g>>>>
    OBVIOUS
  <2>4. /\ steps \in Seq(Steps) /\ Len(steps) = Len(pending) + 1
        /\ \A i \in 1 .. Len(pending) : steps[i] = Satisfied(pending[i], g)
        /\ steps[Len(pending) + 1] = <<"done", g>>
    BY <2>3, ToldSteps, Zenon
  <2>5. \A i \in 1 .. Len(steps) : steps[i][1] \notin {"kill", "join"}
    <3>1. Len(pending) \in Nat OBVIOUS
    <3>2. \A i \in 1 .. Len(steps) : i \in 1 .. Len(pending) \/ i = Len(pending) + 1 BY <2>4, <3>1
    <3> QED BY <2>4, <3>2 DEF Satisfied
  <2>6. Then(p, steps) BY <1>1, <2>1, <2>2, <2>3 DEF Notify
  <2>7. SamePool BY <1>1, <1>a, <1>f, PoolSame DEF Notify
  <2>8. Doing(p, "notify") BY <1>1 DEF Notify
  <2> QED BY <2>4, <2>5, <2>6, <2>7, <2>8, StopThen
<1>2. ASSUME NEW p \in Threads, SetDone(p) PROVE Stopping'
  BY <1>2, <1>c, <1>e, StopThenOne DEF SetDone
<1>3. ASSUME NEW p \in Threads, Satisfy(p) PROVE Stopping'
  <2>1. PICK g \in Groups : g = Arg(p)[1] BY <1>3, <1>a, ArgType DEF Satisfy
  <2>2. PICK s \in Steps : s = <<"release", g>> BY StepTypes
  <2>3. Then(p, <<>>) \/ Then(p, <<s>>) BY <1>3, <2>1, <2>2 DEF Satisfy
  <2>4. Doing(p, "satisfy") /\ UNCHANGED pool BY <1>3 DEF Satisfy
  <2>5. s[1] = "release" BY <2>2
  <2> QED BY <1>c, <2>3, <2>4, <2>5, StopThenOne
<1>4. ASSUME NEW p \in Threads, Release(p) PROVE Stopping'
  <2>1. PICK g \in Groups : g = Arg(p) BY <1>4, <1>a, ArgType DEF Release
  <2>2. PICK tasks \in Seq(Tasks) : tasks = group[g].tasks BY <1>a, GroupFields
  <2>3. PICK k \in Nat : k = Len(tasks) OBVIOUS
  <2>4. SamePool BY <1>4, <1>a, <2>1, <2>2, <2>3, PoolSame DEF Release
  <2>5. PICK s \in Steps : s = IF tasks = <<>> THEN <<"notify", g>> ELSE <<"clear", g>> BY StepTypes
  <2>6. Doing(p, "release") /\ Then(p, <<s>>) BY <1>4, <2>1, <2>2, <2>5 DEF Release
  <2>7. s[1] \notin {"kill", "join"} BY <2>5
  <2> QED BY <2>4, <2>6, <2>7, StopThenOne
<1>5. ASSUME NEW p \in Threads, Clear(p) PROVE Stopping'
  BY <1>5, <1>c, <1>e, StopThenOne DEF Clear
<1>6. ASSUME NEW p \in Threads, AnyThread(p) PROVE Stopping'
  BY <1>1, <1>2, <1>3, <1>4, <1>5, <1>6 DEF AnyThread
<1>7. ASSUME NEW w \in Workers, Run(w) PROVE Stopping'
  BY <1>7, <1>b, <1>c, <1>e, StopThenOne DEF Run
<1>8. ASSUME NEW w \in Workers, Complete(w) PROVE Stopping'
  <2>1. Arg(w) \in Tasks BY <1>8, <1>a, <1>b, ArgType DEF Complete
  <2>2. PICK g \in Groups : g = GroupOf[Arg(w)] BY <2>1, GroupAssumption
  <2>3. PICK s \in Steps : s = <<"notify", g>> BY StepTypes
  <2>4. Then(w, <<>>) \/ Then(w, <<s>>) BY <1>8, <2>2, <2>3 DEF Complete
  <2>5. Doing(w, "complete") /\ UNCHANGED pool BY <1>8 DEF Complete
  <2>6. s[1] = "notify" BY <2>3
  <2> QED BY <1>b, <1>c, <2>4, <2>5, <2>6, StopThenOne
<1>9. ASSUME NEW w \in Workers, Count(w) PROVE Stopping'
  <2>1. SamePool BY <1>9, <1>a, <1>f, PoolSame DEF Count
  <2>2. pool.completed + 1 \in Nat BY <1>a DEF PoolType
  <2>3. PICK s \in Steps : s = <<"compare", pool.completed + 1>> BY <2>2, StepTypes
  <2>4. s[1] = "compare" BY <2>3
  <2>5. Doing(w, "count") /\ Then(w, <<s>>) BY <1>9, <2>3 DEF Count
  <2> QED BY <1>b, <2>1, <2>4, <2>5, StopThenOne
<1>10. ASSUME NEW w \in Workers, Compare(w) PROVE Stopping'
  <2>1. PICK s \in Steps : s = <<"wake", 0>> BY StepTypes
  <2>2. s[1] = "wake" BY <2>1
  <2>3. Doing(w, "compare") /\ (Then(w, <<>>) \/ Then(w, <<s>>)) /\ UNCHANGED pool
    BY <1>10, <2>1 DEF Compare
  <2> QED BY <1>b, <1>c, <2>2, <2>3, StopThenOne
<1>11. ASSUME WaitIdle PROVE Stopping'
  <2>1. PICK s \in Steps : s = <<"idle", 0>> BY StepTypes
  <2>2. s[1] = "idle" BY <2>1
  <2>3. Free /\ UNCHANGED pool /\ agenda' = [agenda EXCEPT ![Client] = <<s>>]
    BY <1>11, <2>1 DEF WaitIdle
  <2> QED BY <1>c, <2>2, <2>3, StopCallOne
<1>12. ASSUME NEW g \in Groups, NEW next \in {<<>>, <<<<"wait", g>>>>}, Flush(g, next) PROVE Stopping'
  <2>1. PICK r \in Steps : r = <<"release", g>> BY StepTypes
  <2>2. PICK w \in Steps : w = <<"wait", g>> BY StepTypes
  <2>3. PICK first : first = IF group[g].dependencies = 0 THEN <<r>> ELSE <<>> OBVIOUS
  <2>4. PICK last : last = next OBVIOUS
  <2>a. first \in Seq(Steps) /\ \A i \in 1 .. Len(first) : first[i] = r
    BY <2>3, ZeroOrOne
  <2>b. last = <<>> \/ last = <<w>> BY <2>2, <2>4
  <2>c. last \in Seq(Steps) /\ \A i \in 1 .. Len(last) : last[i] = w
    BY <2>b, ZeroOrOne
  <2>5. /\ first \o last \in Seq(Steps) /\ Len(first \o last) = Len(first) + Len(last)
        /\ \A i \in 1 .. Len(first) : (first \o last)[i] = first[i]
        /\ \A i \in 1 .. Len(first \o last) :
             i > Len(first) => (first \o last)[i] = last[i - Len(first)]
    BY <2>a, <2>c, Concat, Zenon
  <2>6. PICK steps \in Seq(Steps) : steps = first \o last BY <2>5
  <2>7. \A i \in 1 .. Len(steps) : steps[i] = r \/ steps[i] = w
    <3> SUFFICES ASSUME NEW i \in 1 .. Len(steps) PROVE steps[i] = r \/ steps[i] = w OBVIOUS
    <3>1. Len(first) \in Nat /\ Len(last) \in Nat /\ Len(steps) = Len(first) + Len(last) BY <2>5, <2>6
    <3>2. CASE i <= Len(first)
      <4>1. i \in 1 .. Len(first) BY <3>1, <3>2
      <4> QED BY <2>a, <2>5, <2>6, <4>1
    <3>3. CASE i > Len(first)
      <4>1. i - Len(first) \in 1 .. Len(last) BY <3>1, <3>3
      <4> QED BY <2>c, <2>5, <2>6, <3>3, <4>1
    <3> QED BY <3>1, <3>2, <3>3
  <2>8. \A i \in 1 .. Len(steps) : steps[i][1] \notin {"kill", "join"} BY <2>1, <2>2, <2>7
  <2>9. Free /\ UNCHANGED pool /\ agenda' = [agenda EXCEPT ![Client] = steps]
    BY <1>12, <2>1, <2>3, <2>4, <2>6 DEF Flush
  <2> QED BY <1>c, <2>8, <2>9, StopCall
<1>13. ASSUME NEW g \in Groups, Wait(g) PROVE Stopping'
  <2>1. CASE ~group[g].flushed
    <3>1. Flush(g, <<<<"wait", g>>>>) BY <1>13, <2>1 DEF Wait
    <3> QED BY <1>12, <3>1
  <2>2. CASE group[g].flushed
    <3>1. PICK s \in Steps : s = <<"wait", g>> BY StepTypes
    <3>2. s[1] = "wait" BY <3>1
    <3>3. Free /\ UNCHANGED pool /\ agenda' = [agenda EXCEPT ![Client] = <<s>>]
      BY <1>13, <2>2, <3>1 DEF Wait
    <3> QED BY <1>c, <3>2, <3>3, StopCallOne
  <2> QED BY <2>1, <2>2
<1>14. ASSUME NEW g \in Groups, Submit(g) PROVE Stopping'
  BY <1>12, <1>14 DEF Submit
<1>15. ASSUME Waited PROVE Stopping'
  BY <1>15, <1>b, <1>c, <1>e, StopThenOne DEF Waited
<1>16. ASSUME Load PROVE Stopping'
  <2>1. PICK first \in {"total", "completed"} : Then(Client, <<<<"equals", <<first, pool[first]>>>>>>)
    BY <1>16 DEF Load
  <2>2. pool[first] \in Nat BY <1>a DEF PoolType
  <2>3. PICK s \in Steps : s = <<"equals", <<first, pool[first]>>>> BY <2>2, StepTypes
  <2>4. s[1] = "equals" BY <2>3
  <2>5. Doing(Client, "idle") /\ UNCHANGED pool BY <1>16 DEF Load
  <2> QED BY <1>b, <1>c, <2>1, <2>3, <2>4, <2>5, StopThenOne
<1>17. ASSUME Equals PROVE Stopping'
  <2>1. PICK s \in Steps : s = <<"asleep", 0>> BY StepTypes
  <2>2. s[1] = "asleep" BY <2>1
  <2>3. Doing(Client, "equals") /\ (Then(Client, <<>>) \/ Then(Client, <<s>>)) /\ UNCHANGED pool
    BY <1>17, <2>1 DEF Equals
  <2> QED BY <1>b, <1>c, <2>2, <2>3, StopThenOne
<1>18. ASSUME IsIdle PROVE Stopping' BY <1>18, StopSame DEF IsIdle, vars
<1>19. ASSUME NEW t \in Tasks, Enqueue(t) PROVE Stopping' BY <1>19, StopSame DEF Enqueue
<1>20. ASSUME NEW e \in Edges, AddDependency(e[1], e[2]) PROVE Stopping'
  BY <1>20, StopSame DEF AddDependency
<1>21. CASE Call
  BY <1>11, <1>13, <1>14, <1>18, <1>19, <1>20, <1>21, StartStops, StopStops DEF Call
<1>22. CASE InCall
  BY <1>6, <1>b, <1>15, <1>16, <1>17, <1>22, KillStops, JoinStops DEF InCall
<1>23. CASE \E w \in Workers : Worker(w)
  BY <1>6, <1>b, <1>7, <1>8, <1>9, <1>10, <1>23, TakeStops, ExitStops, WakeStops DEF Worker
<1> QED BY <1>21, <1>22, <1>23 DEF Next

-----------------------------------------------------------------------------
(* The inductive invariant holds.                                          *)

LEMMA InitHasIt ==
  ASSUME Init
  PROVE  TaskInv
<1>a. \A p \in Threads : agenda[p] = <<>> /\ Len(agenda[p]) = 0
  <2>1. \A p \in Threads : agenda[p] = <<>> BY DEF Init
  <2> QED BY <2>1
<1>b. \A g \in Groups :
        /\ group[g].flushed = FALSE /\ group[g].done = FALSE /\ group[g].dependencies = 0
        /\ group[g].count = 0 /\ group[g].tasks = <<>> /\ group[g].pending = <<>>
        /\ group[g].all = {} /\ group[g].after = {} /\ group[g].notified = 0
  BY DEF Init
<1>c. \A s : ~Has(agenda, s)
  <2> SUFFICES ASSUME NEW s, Has(agenda, s) PROVE FALSE OBVIOUS
  <2>1. PICK p \in Threads : \E i \in 1 .. Len(agenda[p]) : agenda[p][i] = s BY DEF Has
  <2>2. PICK i \in 1 .. Len(agenda[p]) : TRUE BY <2>1
  <2> QED BY <1>a, <2>2
<1>d. ready = <<>> /\ Len(ready) = 0 /\ DOMAIN ready = {} BY DEF Init
<1>e. \A t \in Tasks : ran[t] = 0 BY DEF Init
<1>1. TypeOK
  <2>1. group \in [Groups -> GroupType]
    <3>1. <<>> \in Seq(Tasks) /\ <<>> \in Seq(Groups) OBVIOUS
    <3> QED BY <3>1 DEF Init, GroupType
  <2>2. pool \in PoolType BY ClientAssumption DEF Init, PoolType
  <2>3. agenda \in [Threads -> Seq(Steps)] BY StepTypes DEF Init
  <2>4. ready \in Seq(Tasks) /\ ran \in [Tasks -> Nat] BY DEF Init
  <2> QED BY <2>1, <2>2, <2>3, <2>4 DEF TypeOK
<1>2. Counted
  <2> SUFFICES ASSUME NEW g \in Groups PROVE Counts(g) BY DEF Counted
  <2>1. Open(g) = {} /\ Unfinished(g) = {} BY <1>b DEF Open, Unfinished
  <2>2. Cardinality({}) = 0 /\ IsFiniteSet({}) BY FS_EmptySet
  <2> QED BY <1>b, <2>1, <2>2 DEF Counts
<1>3. DependeesListed BY <1>b DEF DependeesListed
<1>4. FlushedInOrder
  <2>1. {g \in Groups : group[g].flushed} = {} BY <1>b
  <2> QED BY <1>b, <2>1 DEF FlushedInOrder
<1>5. StepsSound
  <2>1. OnlyOnce(agenda) BY <1>a DEF OnlyOnce
  <2>2. RunFirst(agenda) BY <1>a DEF RunFirst
  <2>3. \A g \in Groups : GroupSteps(g) BY <1>c, Zenon DEF GroupSteps
  <2>4. \A t \in Tasks : TaskSteps(t) BY <1>c, Zenon DEF TaskSteps
  <2> QED BY <2>1, <2>2, <2>3, <2>4 DEF StepsSound
<1>6. Reported BY <1>b DEF Reported, ReportedWhen, Released
<1>7. TaskPlaces
  <2>1. \A g \in Groups : Waiting(g) BY <1>b DEF Waiting
  <2>2. \A t \in Tasks : ~IsQueued(t) /\ ~Here(t)
    BY <1>b, <1>d, GroupAssumption DEF IsQueued, Here
  <2>3. \A t \in Tasks : Place(t) BY <1>c, <1>e, <2>2 DEF Place
  <2> QED BY <1>d, <2>1, <2>3 DEF TaskPlaces
<1>8. Stopping
  <2>1. pool.dead = FALSE /\ pool.active = FALSE BY DEF Init
  <2>2. \A p \in Threads : \A i \in 1 .. Len(agenda[p]) : FALSE BY <1>a
  <2>3. \A w \in Workers : agenda[w] = <<>> BY <1>a DEF Threads
  <2> QED BY <2>1, <2>2, <2>3 DEF Stopping
<1> QED BY <1>1, <1>2, <1>3, <1>4, <1>5, <1>6, <1>7, <1>8 DEF TaskInv, GraphInv

(* With dependees flushed first, the invariant holds in every state:       *)
(* whoever brings a counter of a group to zero finds what it then does     *)
(* still to be done, and nobody else is doing it.                          *)
THEOREM TaskInvariant ==
  ASSUME DependeesFirst = TRUE
  PROVE  Spec => []TaskInv
<1>1. Init => TaskInv BY InitHasIt
<1>2. TaskInv /\ [Next]_vars => TaskInv'
  <2>1. CASE TaskInv /\ Next BY <2>1, NextKeepsGraph, NextKeepsStopping DEF TaskInv
  <2>2. CASE TaskInv /\ UNCHANGED vars
    <3>1. pool' \in PoolType BY <2>2 DEF TaskInv, TypeOK, vars
    <3> QED BY <2>2, <3>1, SameAgenda, StopSame DEF TaskInv, vars
  <2> QED BY <2>1, <2>2
<1> QED BY <1>1, <1>2, PTL DEF Spec

-----------------------------------------------------------------------------
(* What the invariant gives.                                               *)

(* A counter at zero leaves nobody.                                        *)
LEMMA ZeroCounts ==
  ASSUME TypeOK, GraphInv, NEW g \in Groups
  PROVE  /\ group[g].dependencies = 0 <=> Open(g) = {}
         /\ group[g].count = 0 <=> Unfinished(g) = {}
         /\ group[g].dependencies \in Nat /\ group[g].count \in Nat
         /\ group[g].all \subseteq Tasks /\ group[g].after \subseteq Groups
<1>1. /\ group[g].dependencies = Cardinality(Open(g)) /\ group[g].count = Cardinality(Unfinished(g))
      /\ IsFiniteSet(Open(g)) /\ IsFiniteSet(Unfinished(g))
  BY Parts, Countable DEF Counts
<1>2. group[g] \in GroupType BY DEF TypeOK
<1>3. /\ Cardinality(Open(g)) = 0 <=> Open(g) = {}
      /\ Cardinality(Unfinished(g)) = 0 <=> Unfinished(g) = {}
  BY <1>1, FS_EmptySet
<1> QED BY <1>1, <1>2, <1>3, GroupFields

LEMMA RunningHas ==
  ASSUME TypeOK, GraphInv, NEW t \in Tasks, NEW w \in Running(t)
  PROVE  /\ w \in Threads /\ 1 \in 1 .. Len(agenda[w]) /\ agenda[w][1] = <<"run", t>>
         /\ Has(agenda, <<"run", t>>) /\ Has(agenda, <<"complete", t>>)
<1>1. w \in Threads /\ Doing(w, "run") /\ Arg(w) = t BY DEF Running, Threads
<1>2. agenda \in [Threads -> Seq(Steps)] /\ RunFirst(agenda) BY Parts DEF TypeOK
<1>3. 1 \in 1 .. Len(agenda[w]) /\ agenda[w][1] = <<"run", t>> /\ Has(agenda, <<"run", t>>)
  BY <1>1, <1>2, DoingHas
<1> QED BY <1>1, <1>2, <1>3, RunHasComplete

(* A set with at most one member.                                          *)
LEMMA AtMostOne ==
  ASSUME NEW S, \A x, y \in S : x = y
  PROVE  Cardinality(S) \in {0, 1} /\ (Cardinality(S) = 1 => S # {})
<1>1. CASE S = {} BY <1>1, FS_EmptySet
<1>2. CASE S # {}
  <2>1. PICK x \in S : TRUE BY <1>2
  <2>2. S = {x} BY <2>1
  <2> QED BY <1>2, <2>2, FS_Singleton
<1> QED BY <1>1, <1>2

LEMMA Once ==
  ASSUME TaskInv
  PROVE  TaskOnce
<1>a. TypeOK /\ GraphInv BY DEF TaskInv
<1> SUFFICES ASSUME NEW t \in Tasks
             PROVE  ran[t] + Cardinality(Running(t)) + Cardinality(Queued(t)) <= 1
  BY DEF TaskOnce
<1>1. \A v, w \in Running(t) : v = w
  <2> SUFFICES ASSUME NEW v \in Running(t), NEW w \in Running(t) PROVE v = w OBVIOUS
  <2>1. /\ v \in Threads /\ 1 \in 1 .. Len(agenda[v]) /\ agenda[v][1] = <<"run", t>>
        /\ w \in Threads /\ 1 \in 1 .. Len(agenda[w]) /\ agenda[w][1] = <<"run", t>>
    BY <1>a, RunningHas
  <2>2. agenda[v][1] = agenda[w][1] /\ agenda[v][1][1] \in Single BY <2>1 DEF Single
  <2>3. OnlyOnce(agenda) BY <1>a, Parts
  <2> QED BY <2>1, <2>2, <2>3, Zenon DEF OnlyOnce
<1>2. \A i, j \in Queued(t) : i = j BY <1>a DEF GraphInv, TaskPlaces, Queued
<1>3. PICK m : m = Cardinality(Running(t)) OBVIOUS
<1>4. PICK n : n = Cardinality(Queued(t)) OBVIOUS
<1>5. /\ m \in {0, 1} /\ (m = 1 => Running(t) # {})
      /\ n \in {0, 1} /\ (n = 1 => Queued(t) # {})
  BY <1>1, <1>2, <1>3, <1>4, AtMostOne
<1>6. Place(t) /\ TaskSteps(t) /\ ran[t] \in Nat BY <1>a, Parts DEF TypeOK
<1>7. m = 1 => Has(agenda, <<"run", t>>) /\ Has(agenda, <<"complete", t>>)
  BY <1>5, <1>a, RunningHas
<1>8. n = 1 => IsQueued(t) BY <1>5 DEF Queued, IsQueued
<1>9. (n = 1 => ran[t] = 0 /\ m = 0) /\ (m = 1 => ran[t] = 0) /\ ran[t] \in {0, 1}
  BY <1>5, <1>6, <1>7, <1>8 DEF Place, TaskSteps
<1> QED BY <1>3, <1>4, <1>5, <1>9

LEMMA OverWhenReported ==
  ASSUME TaskInv
  PROVE  ReportedOnceOver
<1>a. TypeOK /\ GraphInv BY DEF TaskInv
<1> SUFFICES ASSUME NEW g \in Groups, group[g].notified > 0
             PROVE  /\ group[g].notified = 1 /\ group[g].flushed
                    /\ \A t \in group[g].all : ran[t] = 1
                    /\ \A h \in group[g].after : group[h].notified = 1
  BY DEF ReportedOnceOver
<1>b. ReportedWhen(g) BY <1>a, Parts
<1>1. group[g].notified = 1 /\ Released(g) /\ group[g].count = 0
  <2>1. group[g].notified = 1 BY <1>b DEF ReportedWhen
  <2> QED BY <1>b, <2>1, Zenon DEF ReportedWhen
<1>2. Open(g) = {} /\ Unfinished(g) = {} BY <1>a, <1>1, ZeroCounts DEF Released
<1>3. ASSUME NEW t \in group[g].all PROVE ran[t] = 1
  <2>1. t \in Tasks BY <1>a, ZeroCounts
  <2>2. ran[t] > 0 BY <1>2 DEF Unfinished, Finished
  <2> QED BY <1>a, <2>1, <2>2, Parts DEF Place
<1>4. ASSUME NEW h \in group[g].after PROVE group[h].notified = 1
  <2>1. h \in Groups BY <1>a, ZeroCounts
  <2>2. group[h].notified # 0 BY <1>2 DEF Open
  <2> QED BY <1>a, <2>1, <2>2, Parts DEF ReportedWhen
<1> QED BY <1>1, <1>3, <1>4 DEF Released

LEMMA ReadyAfterDependencies ==
  ASSUME TaskInv
  PROVE  AfterDependencies
<1>a. TypeOK /\ GraphInv BY DEF TaskInv
<1> SUFFICES ASSUME NEW g \in Groups, NEW t \in group[g].all,
                    ran[t] > 0 \/ Running(t) # {} \/ Queued(t) # {}
             PROVE  group[g].flushed /\ \A h \in group[g].after : group[h].notified > 0
  BY DEF AfterDependencies
<1>1. t \in Tasks /\ GroupOf[t] = g BY <1>a, ZeroCounts, Parts DEF Waiting
<1>2. Place(t) /\ TaskSteps(t) BY <1>a, <1>1, Parts
<1>3. Released(g)
  <2>1. CASE ran[t] > 0 BY <1>1, <1>2, <2>1 DEF Place, Here
  <2>2. CASE Running(t) # {}
    <3>1. Has(agenda, <<"complete", t>>) BY <1>a, <1>1, <2>2, RunningHas
    <3> QED BY <1>1, <1>2, <3>1 DEF TaskSteps
  <2>3. CASE Queued(t) # {}
    <3>1. IsQueued(t) BY <2>3 DEF Queued, IsQueued
    <3> QED BY <1>1, <1>2, <3>1 DEF Place, Here
  <2> QED BY <2>1, <2>2, <2>3
<1>4. Open(g) = {} BY <1>a, <1>3, ZeroCounts DEF Released
<1>5. ASSUME NEW h \in group[g].after PROVE group[h].notified > 0
  <2>1. h \in Groups BY <1>a, ZeroCounts
  <2>2. group[h].notified # 0 BY <1>4 DEF Open
  <2>3. group[h].notified \in {0, 1} BY <1>a, <2>1, Parts DEF ReportedWhen
  <2> QED BY <2>2, <2>3
<1> QED BY <1>3, <1>5 DEF Released

LEMMA NoUnderflow ==
  ASSUME TaskInv
  PROVE  AssertionsHold
<1>a. TypeOK /\ GraphInv BY DEF TaskInv
<1>b. agenda \in [Threads -> Seq(Steps)] BY <1>a DEF TypeOK
<1>1. ASSUME NEW p \in Threads, Doing(p, "complete") PROVE group[GroupOf[Arg(p)]].count > 0
  <2>1. PICK t \in Tasks : t = Arg(p) BY <1>b, <1>1, ArgType
  <2>2. Has(agenda, <<"complete", t>>) BY <1>b, <1>1, <2>1, DoingHas
  <2>3. PICK g \in Groups : g = GroupOf[t] BY GroupAssumption
  <2>4. TaskSteps(t) BY <1>a, Parts
  <2>5. t \in group[g].all BY <2>2, <2>3, <2>4 DEF TaskSteps
  <2>6. t \in Unfinished(g) BY <2>2, <2>5 DEF Unfinished, Finished
  <2>7. group[g].count # 0 /\ group[g].count \in Nat BY <1>a, <2>6, ZeroCounts
  <2> QED BY <2>1, <2>3, <2>7
<1>2. ASSUME NEW p \in Threads, Doing(p, "satisfy") PROVE group[Arg(p)[1]].dependencies > 0
  <2>1. PICK g \in Groups : g = Arg(p)[1] BY <1>b, <1>2, ArgType
  <2>2. PICK h \in Groups : h = Arg(p)[2] BY <1>b, <1>2, ArgType
  <2>3. Arg(p) = <<g, h>> BY <1>b, <1>2, <2>1, <2>2, ArgType
  <2>4. Has(agenda, Satisfied(g, h)) BY <1>b, <1>2, <2>3, DoingHas DEF Satisfied
  <2>5. GroupSteps(g) BY <1>a, Parts
  <2>6. h \in group[g].after BY <2>4, <2>5 DEF GroupSteps
  <2>7. h \in Open(g) BY <2>4, <2>6 DEF Open
  <2>8. group[g].dependencies # 0 /\ group[g].dependencies \in Nat BY <1>a, <2>7, ZeroCounts
  <2> QED BY <2>1, <2>8
<1> QED BY <1>1, <1>2 DEF AssertionsHold

(* Only the end of stop makes the pool inactive.                           *)
LEMMA OnlyJoin ==
  ASSUME TypeOK, [Next]_vars, pool.active, ~pool'.active
  PROVE  Join
<1>a. pool \in PoolType BY DEF TypeOK
<1>1. pool' # pool OBVIOUS
<1>2. Next /\ ~UNCHANGED pool BY <1>1 DEF vars
<1>3. ASSUME NEW p, AnyThread(p) PROVE FALSE
  <2>1. CASE Notify(p)
    <3>1. pool'.active = pool.active BY <1>a, <2>1 DEF Notify, PoolType
    <3> QED BY <3>1
  <2>2. CASE Release(p)
    <3>1. pool'.active = pool.active BY <1>a, <2>2 DEF Release, PoolType
    <3> QED BY <3>1
  <2> QED BY <1>2, <1>3, <2>1, <2>2 DEF AnyThread, SetDone, Satisfy, Clear
<1>4. ASSUME NEW w \in Workers, Worker(w) PROVE FALSE
  <2>1. CASE Exit(w)
    <3>1. pool'.active = pool.active BY <1>a, <2>1 DEF Exit, PoolType
    <3> QED BY <3>1
  <2>2. CASE Count(w)
    <3>1. pool'.active = pool.active BY <1>a, <2>2 DEF Count, PoolType
    <3> QED BY <3>1
  <2> QED BY <1>2, <1>3, <1>4, <2>1, <2>2 DEF Worker, Take, Run, Complete, Compare, Wake
<1>5. ASSUME Call PROVE FALSE
  <2>1. ~Start BY DEF Start
  <2> QED BY <1>2, <1>5, <2>1 DEF Call, WaitIdle, IsIdle, vars, Stop, Enqueue, AddDependency, Submit,
                                  Wait, Flush
<1>6. ~Kill
  <2> SUFFICES ASSUME Kill PROVE FALSE OBVIOUS
  <2>1. pool'.active = pool.active BY <1>a DEF Kill, PoolType
  <2> QED BY <2>1
<1> QED BY <1>2, <1>3, <1>4, <1>5, <1>6 DEF Next, InCall, Waited, Load, Equals

LEMMA NeedsClosed ==
  ASSUME NEW g \in Groups
  PROVE  /\ g \in Needs(g) /\ Needs(g) \subseteq Groups
         /\ \A h \in Needs(g) : \A k \in group[h].after \cap Groups : k \in Needs(g)
<1>1. ASSUME NEW h \in Needs(g), NEW k \in group[h].after, k \in Groups PROVE k \in Needs(g)
  <2> SUFFICES ASSUME NEW S \in SUBSET Groups, g \in S, Closed(S) PROVE k \in S
    BY <1>1 DEF Needs
  <2>1. h \in S BY DEF Needs
  <2> QED BY <2>1 DEF Closed
<1> QED BY <1>1 DEF Needs

(* With no step left to take and nothing in the queue, what can be over    *)
(* is: of the groups that are not, one would wait for none of the others.  *)
LEMMA NothingToDo ==
  ASSUME TaskInv, ready = <<>>, \A s : s[1] \in Graphic => ~Has(agenda, s),
         NEW g \in Groups, \A h \in Needs(g) : group[h].flushed
  PROVE  group[g].done
<1>a. TypeOK /\ GraphInv BY DEF TaskInv
<1>b. /\ \A h : ~Has(agenda, <<"release", h>>) /\ ~Has(agenda, <<"done", h>>)
                /\ ~Has(agenda, <<"notify", h>>) /\ ~Has(agenda, <<"complete", h>>)
      /\ \A h, k : ~Has(agenda, Satisfied(h, k))
  <2>1. {"release", "done", "notify", "complete", "satisfy"} \subseteq Graphic BY DEF Graphic, Single
  <2>2. \A op \in Graphic : \A x : ~Has(agenda, <<op, x>>)
    <3> SUFFICES ASSUME NEW op \in Graphic, NEW x PROVE ~Has(agenda, <<op, x>>) OBVIOUS
    <3>1. PICK s : s = <<op, x>> OBVIOUS
    <3>2. s[1] = op BY <3>1
    <3> QED BY <3>1, <3>2
  <2> QED BY <2>1, <2>2 DEF Satisfied
<1>1. PICK S : S = {h \in Needs(g) : group[h].notified = 0} OBVIOUS
<1>2. CASE S = {}
  <2>1. group[g].notified # 0 BY <1>1, <1>2, NeedsClosed
  <2> QED BY <1>a, <1>b, <2>1, Parts DEF ReportedWhen
<1>3. CASE S # {}
  <2>1. S \in SUBSET {h \in Groups : group[h].flushed} BY <1>1, NeedsClosed
  <2>2. PICK m \in S : group[m].after \cap S = {} BY <1>a, <1>3, <2>1 DEF GraphInv, FlushedInOrder
  <2>3. m \in Groups /\ m \in Needs(g) /\ group[m].flushed /\ group[m].notified = 0 BY <1>1, <2>1
  <2>4. ASSUME NEW h \in group[m].after PROVE group[h].notified # 0
    <3>1. h \in Groups BY <1>a, <2>3, ZeroCounts
    <3>2. h \in Needs(g) BY <2>3, <3>1, NeedsClosed
    <3> QED BY <1>1, <2>2, <3>2
  <2>5. Open(m) = {} BY <1>b, <2>4 DEF Open
  <2>6. Released(m) BY <1>a, <1>b, <2>3, <2>5, ZeroCounts DEF Released
  <2>7. ASSUME NEW t \in group[m].all PROVE Finished(t)
    <3>1. t \in Tasks /\ GroupOf[t] = m BY <1>a, <2>3, ZeroCounts, Parts DEF Waiting
    <3>2. Place(t) BY <1>a, <3>1, Parts
    <3>3. Here(t) BY <2>6, <3>1 DEF Here
    <3>4. ~IsQueued(t) BY DEF IsQueued
    <3>5. ran[t] = 1 BY <1>b, <3>2, <3>3, <3>4 DEF Place
    <3>6. ran[t] > 0 BY <3>5
    <3> QED BY <1>b, <3>6, Zenon DEF Finished
  <2>8. Unfinished(m) = {} BY <2>7 DEF Unfinished
  <2>9. group[m].count = 0 BY <1>a, <2>3, <2>8, ZeroCounts
  <2> QED BY <1>a, <1>b, <2>3, <2>6, <2>9, Parts DEF ReportedWhen
<1> QED BY <1>2, <1>3

LEMMA JoinDrains ==
  ASSUME TaskInv, Join
  PROVE  /\ ready = <<>>
         /\ \A g \in Groups : (\A h \in Needs(g) : group[h].flushed) => group[g].done
<1>a. TypeOK /\ Stopping BY DEF TaskInv
<1>b. agenda \in [Threads -> Seq(Steps)] /\ Client \in Threads BY <1>a DEF TypeOK, Threads
<1>1. pool.dead /\ pool.alive = {} BY <1>a, JoinStops
<1>2. ready = <<>> BY <1>a, <1>1 DEF Stopping
<1>3. /\ 1 \in 1 .. Len(agenda[Client]) /\ agenda[Client][1] = <<"join", Arg(Client)>>
  BY <1>b, DoingHas DEF Join
<1>4. agenda[Client][1][1] = "join" BY <1>3
<1>5. Len(agenda[Client]) = 1 BY <1>a, <1>b, <1>3, <1>4 DEF Stopping
<1>6. ASSUME NEW s, s[1] \in Graphic, Has(agenda, s) PROVE FALSE
  <2>1. PICK p \in Threads : \E i \in 1 .. Len(agenda[p]) : agenda[p][i] = s BY <1>6 DEF Has
  <2>2. PICK i \in 1 .. Len(agenda[p]) : agenda[p][i] = s BY <2>1
  <2>3. CASE p = Client
    <3>1. i = 1 BY <1>5, <2>2, <2>3
    <3>2. s[1] = "join" BY <1>4, <2>2, <2>3, <3>1
    <3> QED BY <1>6, <3>2 DEF Graphic, Single
  <2>4. CASE p # Client
    <3>1. agenda[p] = <<>> BY <1>a, <1>1, <2>4 DEF Stopping, Threads
    <3>2. Len(agenda[p]) = 0 BY <3>1
    <3> QED BY <2>2, <3>2
  <2> QED BY <2>3, <2>4
<1> QED BY <1>2, <1>6, NothingToDo

-----------------------------------------------------------------------------
(* The properties, for every number of groups, tasks and workers.          *)

(* Whatever the interleaving, no task is queued or run twice: the one who  *)
(* brings the dependencies of a group to zero moves its tasks, and nobody  *)
(* else does.                                                              *)
THEOREM TaskOnceHolds ==
  ASSUME DependeesFirst = TRUE
  PROVE  Spec => []TaskOnce
<1>1. TaskInv => TaskOnce BY Once
<1> QED BY <1>1, TaskInvariant, PTL

(* notify_dependees is reached once per group, when all its tasks have run *)
(* and all it depends on has been reported: what the TaskSignal counts and *)
(* wait returns on is final.                                               *)
THEOREM ReportedOnceOverHolds ==
  ASSUME DependeesFirst = TRUE
  PROVE  Spec => []ReportedOnceOver
<1>1. TaskInv => ReportedOnceOver BY OverWhenReported
<1> QED BY <1>1, TaskInvariant, PTL

(* A task that runs, or waits in the ready queue, finds every group its    *)
(* own depends on already reported.                                        *)
THEOREM AfterDependenciesHolds ==
  ASSUME DependeesFirst = TRUE
  PROVE  Spec => []AfterDependencies
<1>1. TaskInv => AfterDependencies BY ReadyAfterDependencies
<1> QED BY <1>1, TaskInvariant, PTL

(* The two counters are never decremented at zero: the assertions of       *)
(* task_completed and dependency_satisfied hold.                           *)
THEOREM NoCounterUnderflows ==
  ASSUME DependeesFirst = TRUE
  PROVE  Spec => []AssertionsHold
<1>1. TaskInv => AssertionsHold BY NoUnderflow
<1> QED BY <1>1, TaskInvariant, PTL

(* stop joins the workers only when the queue is empty and every group     *)
(* whose needs were flushed is done, though wait_idle may return early.    *)
THEOREM StopDrainsHolds ==
  ASSUME DependeesFirst = TRUE
  PROVE  Spec => StopDrains
<1>1. TaskInv /\ [Next]_vars =>
        [pool.active /\ ~pool'.active =>
           /\ ready = <<>>
           /\ \A g \in Groups : (\A h \in Needs(g) : group[h].flushed) => group[g].done]_vars
  <2> SUFFICES ASSUME TaskInv, [Next]_vars, pool.active, ~pool'.active
               PROVE  /\ ready = <<>>
                      /\ \A g \in Groups :
                           (\A h \in Needs(g) : group[h].flushed) => group[g].done
    OBVIOUS
  <2>1. Join BY OnlyJoin DEF TaskInv
  <2> QED BY <2>1, JoinDrains
<1> QED BY <1>1, TaskInvariant, PTL DEF Spec, StopDrains
=============================================================================
