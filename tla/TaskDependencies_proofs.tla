---------------------- MODULE TaskDependencies_proofs -----------------------
(***************************************************************************)
(* Proofs about TaskDependencies, for any tasks and rows.                  *)
(***************************************************************************)
EXTENDS TaskDependencies, Callers_proofs, FiniteSetTheorems

-----------------------------------------------------------------------------
(* Graphs *)

\* What is reached from S holds S, goes on along the rows, and is the least such set.
LEMMA ReachedIsLeast ==
  ASSUME NEW rows, NEW S \in SUBSET Tasks, \A r \in rows: r.on \in Tasks
  PROVE  /\ S \subseteq Reached(rows, S)
         /\ ClosedUnder(rows, Reached(rows, S))
         /\ \A C \in SUBSET Tasks: S \subseteq C /\ ClosedUnder(rows, C) => Reached(rows, S) \subseteq C
  BY DEF Reached, ClosedUnder

\* A graph all of whose edges another one has is acyclic when the other one is.
LEMMA FewerRowsNoCycle ==
  ASSUME NEW rows, NEW more, \A r \in rows: \E s \in more: s.task = r.task /\ s.on = r.on,
         ~HasCycle(more)
  PROVE  ~HasCycle(rows)
  <1> SUFFICES ASSUME NEW t \in Tasks, t \in Reached(rows, On(rows, t))
               PROVE  t \in Reached(more, On(more, t))
    BY DEF HasCycle
  <1>1. On(rows, t) \subseteq On(more, t)
    BY DEF On
  <1>2. \A C \in SUBSET Tasks: ClosedUnder(more, C) => ClosedUnder(rows, C)
    BY DEF ClosedUnder
  <1> QED
    BY <1>1, <1>2 DEF Reached

\* One row, or none, makes no cycle.
LEMMA OneRowNoCycle ==
  ASSUME NEW rows \in SUBSET Row, \A r, s \in rows: r = s, \A r \in rows: r.task # r.on
  PROVE  ~HasCycle(rows)
  <1> SUFFICES ASSUME NEW t \in Tasks, t \in Reached(rows, On(rows, t))
               PROVE  FALSE
    BY DEF HasCycle
  <1>1. On(rows, t) \in SUBSET Tasks
    BY DEF On, Row
  <1>2. ClosedUnder(rows, On(rows, t))
    BY DEF On, ClosedUnder
  <1>3. t \in On(rows, t)
    BY <1>1, <1>2 DEF Reached
  <1> QED
    BY <1>3 DEF On

\* In an acyclic graph any tasks hold one that depends on none of them: the one from which
\* the fewest tasks are reached.
LEMMA AcyclicHasFirst ==
  ASSUME NEW rows \in SUBSET Row, ~HasCycle(rows), NEW U \in SUBSET Tasks, U # {}
  PROVE  \E t \in U: \A r \in rows: r.task = t => r.on \notin U
  <1> DEFINE Beyond(t) == Reached(rows, On(rows, t))
             Sizes == {Cardinality(Beyond(t)): t \in U}
  <1>0. \A r \in rows: r.task \in Tasks /\ r.on \in Tasks
    BY DEF Row
  <1>1. \A t \in Tasks: On(rows, t) \in SUBSET Tasks
    BY <1>0 DEF On
  <1>2. \A t \in Tasks: /\ Beyond(t) \in SUBSET Tasks
                        /\ IsFiniteSet(Beyond(t))
                        /\ Cardinality(Beyond(t)) \in Nat
    <2>1. \A t \in Tasks: Beyond(t) \in SUBSET Tasks
      BY DEF Reached
    <2> QED
      BY <2>1, TasksAssumption, FS_Subset, FS_CardinalityType
  <1>3. PICK t \in U: \A s \in U: Cardinality(Beyond(t)) <= Cardinality(Beyond(s))
    <2> HIDE DEF Beyond
    <2>1. Sizes \in SUBSET Nat /\ Sizes # {}
      BY <1>2
    <2>2. \E n \in Sizes: \A k \in Sizes: n <= k
      BY <2>1, LeastNatural
    <2> QED
      BY <2>2
  <1>5. ASSUME NEW r \in rows, r.task = t, r.on \in U PROVE FALSE
    <2> DEFINE s == r.on
    <2>1. s \in On(rows, t) /\ s \in Tasks
      BY <1>0, <1>5 DEF On
    <2>2. s \in Beyond(t) /\ ClosedUnder(rows, Beyond(t))
      BY <1>0, <1>1, <2>1, ReachedIsLeast
    <2>3. On(rows, s) \subseteq Beyond(t)
      BY <2>2 DEF On, ClosedUnder
    <2>4. Beyond(s) \subseteq Beyond(t)
      BY <1>0, <1>1, <1>2, <2>1, <2>2, <2>3, ReachedIsLeast
    <2>5. s \notin Beyond(s)
      BY <2>1 DEF HasCycle
    <2> HIDE DEF Beyond
    <2>6. Beyond(s) \in SUBSET Beyond(t) /\ Beyond(s) # Beyond(t)
      BY <2>2, <2>4, <2>5
    <2>7. Cardinality(Beyond(s)) <= Cardinality(Beyond(t))
          /\ Cardinality(Beyond(t)) # Cardinality(Beyond(s))
      BY <1>2, <2>6, FS_Subset
    <2> QED
      BY <1>2, <1>3, <1>5, <2>1, <2>7
  <1> QED
    BY <1>5
-----------------------------------------------------------------------------
(* The invariant *)

\* The search for a cycle, whichever names of columns it reads, lets through only rows
\* that keep the graph acyclic: with the names of the columns, a single row.
Acyclic ==
  IF rawKeys = "column"
  THEN (\A r, s \in dependencies: r = s) /\ (\A r \in dependencies: r.task # r.on)
  ELSE ~HasCycle(dependencies)

\* A call that is to insert a row has seen the rows that are there now.
AddsHold ==
  \A c \in Clients:
    call[c].at = "add" =>
      /\ call[c].row \in Row
      /\ call[c].row.task # call[c].row.on
      /\ ~call[c].refused =>
           ~WouldCycle(dependencies, call[c].row.task, call[c].row.on)

DependencyInv ==
  /\ dependencies \subseteq Row
  /\ IsFiniteSet(dependencies)
  /\ rawKeys \in {"property", "column"}
  /\ OneCall
  /\ AddsHold
  /\ Acyclic

LEMMA AcyclicRows ==
  ASSUME DependencyInv
  PROVE  DependenciesAcyclic
  BY OneRowNoCycle DEF DependencyInv, Acyclic, DependenciesAcyclic

LEMMA DependencyInitially ==
  DependencyInit /\ call = [c \in Clients |-> Idle] => DependencyInv
  <1> SUFFICES ASSUME DependencyInit, call = [c \in Clients |-> Idle]
               PROVE  DependencyInv
    OBVIOUS
  <1>1. ~HasCycle({})
    BY OneRowNoCycle
  <1> QED
    BY <1>1, FS_EmptySet DEF DependencyInit, DependencyInv, OneCall, AddsHold, Acyclic, Idle

LEMMA AddKeeps ==
  ASSUME "dependencies" \notin Overlapping, DependencyInv, NEW c \in Clients, AddDependency(c)
  PROVE  DependencyInv'
  <1> DEFINE row == call[c].row
  <1>1. /\ call[c].at = "add" /\ call[c] # Idle
        /\ row \in Row /\ row.task # row.on
        /\ ~call[c].refused => ~WouldCycle(dependencies, row.task, row.on)
    BY DEF AddDependency, DependencyInv, AddsHold, Idle
  <1>2. /\ dependencies' = dependencies
           \/ (~call[c].refused /\ dependencies' = dependencies \cup {row})
        /\ UNCHANGED <<status, rawKeys>>
        /\ Goto(c, Idle)
    BY DEF AddDependency, Return
  <1>3. /\ OneCall'
        /\ \A d \in Clients: call'[d] = Idle
    BY <1>1, <1>2, AloneOrNone DEF DependencyInv
  <1>4. AddsHold'
    BY <1>3 DEF AddsHold, Idle
  <1>5. IsFiniteSet(dependencies')
    BY <1>2, FS_AddElement DEF DependencyInv
  <1>6. CASE dependencies' = dependencies
    BY <1>2, <1>3, <1>4, <1>6 DEF DependencyInv, Acyclic
  <1>7. CASE ~call[c].refused /\ dependencies' = dependencies \cup {row}
    <2>1. CASE rawKeys = "column"
      <3>1. dependencies = {}
        BY <1>1, <1>7, <2>1 DEF WouldCycle
      <3> QED
        BY <1>1, <1>2, <1>3, <1>4, <1>5, <1>7, <2>1, <3>1 DEF DependencyInv, Acyclic
    <2>2. CASE rawKeys # "column"
      <3> DEFINE edge == [task |-> row.task, on |-> row.on]
      <3>1. ~HasCycle(dependencies \cup {edge})
        BY <1>1, <1>7, <2>2 DEF WouldCycle
      <3>2. ~HasCycle(dependencies')
        <4>1. edge.task = row.task /\ edge.on = row.on
          OBVIOUS
        <4> HIDE DEF edge
        <4>2. \A r \in dependencies': \E s \in dependencies \cup {edge}:
                s.task = r.task /\ s.on = r.on
          BY <1>7, <4>1
        <4> QED
          BY <3>1, <4>2, FewerRowsNoCycle
      <3>3. dependencies' \subseteq Row
        BY <1>1, <1>7 DEF DependencyInv
      <3> QED
        BY <1>2, <1>3, <1>4, <1>5, <2>2, <3>2, <3>3 DEF DependencyInv, Acyclic
    <2> QED
      BY <2>1, <2>2
  <1> QED
    BY <1>2, <1>6, <1>7

LEMMA DependencyStepKeeps ==
  ASSUME "dependencies" \notin Overlapping, DependencyInv, DependencyNext
  PROVE  DependencyInv'
  <1>1. PICK c \in Clients:
          \/ \E row \in Row: BeginAddDependency(c, row)
          \/ AddDependency(c)
          \/ \E t, on \in Tasks, type \in DependencyTypes \cup {"any"}:
               RemoveDependency(c, t, on, type)
          \/ \E t \in Tasks, next \in TaskStatuses: BeginSetStatus(c, t, next)
          \/ SetStatus(c)
          \/ \E t \in Tasks: ValidateTask(c, t)
    BY DEF DependencyNext
  <1>2. ASSUME NEW row \in Row, BeginAddDependency(c, row)
        PROVE  DependencyInv'
    <2> DEFINE next == [at |-> "add", row |-> row,
                        refused |-> WouldCycle(dependencies, row.task, row.on)]
    <2>1. /\ Quiet /\ row.task # row.on
          /\ Goto(c, next)
          /\ UNCHANGED <<dependencies, rawKeys>>
      BY <1>2 DEF BeginAddDependency, MayStart, MayRun, depVars
    <2>2. /\ OneCall'
          /\ call'[c] = next
          /\ \A d \in Clients \ {c}: call'[d] = Idle
      BY <2>1, AloneOrNone DEF DependencyInv
    <2>3. next.row = row /\ next.refused = WouldCycle(dependencies, row.task, row.on)
      OBVIOUS
    <2>4. WouldCycle(dependencies, row.task, row.on)' = WouldCycle(dependencies, row.task, row.on)
      BY <2>1 DEF WouldCycle
    <2> HIDE DEF next
    <2>5. AddsHold'
      <3> SUFFICES ASSUME NEW d \in Clients, call'[d].at = "add"
                   PROVE  /\ call'[d].row \in Row
                          /\ call'[d].row.task # call'[d].row.on
                          /\ ~call'[d].refused =>
                               ~WouldCycle(dependencies, call[d].row.task, call[d].row.on)'
        BY DEF AddsHold
      <3>1. d = c
        BY <2>2 DEF Idle
      <3> QED
        BY <2>1, <2>2, <2>3, <2>4, <3>1 DEF WouldCycle
    <2> QED
      BY <2>1, <2>2, <2>5 DEF DependencyInv, Acyclic
  <1>3. CASE AddDependency(c)
    BY <1>3, AddKeeps
  <1>4. ASSUME NEW t \in Tasks, NEW on \in Tasks, NEW type \in DependencyTypes \cup {"any"},
               RemoveDependency(c, t, on, type)
        PROVE  DependencyInv'
    <2>1. /\ Quiet /\ UNCHANGED <<rawKeys, call>>
          /\ dependencies' \subseteq dependencies
      BY <1>4 DEF RemoveDependency, MayStart, MayRun
    <2>2. AddsHold'
      BY <2>1 DEF AddsHold, Quiet, Idle
    <2>3. Acyclic'
      <3>1. ~HasCycle(dependencies) => ~HasCycle(dependencies')
        BY <2>1, FewerRowsNoCycle
      <3> QED
        BY <2>1, <3>1 DEF Acyclic, DependencyInv
    <2>4. IsFiniteSet(dependencies')
      BY <2>1, FS_Subset DEF DependencyInv
    <2> QED
      BY <2>1, <2>2, <2>3, <2>4 DEF DependencyInv, OneCall
  <1>5. ASSUME NEW t \in Tasks, NEW next \in TaskStatuses, BeginSetStatus(c, t, next)
        PROVE  DependencyInv'
    <2> DEFINE setting == [at |-> "set_status", task |-> t, status |-> next]
    <2>1. Quiet /\ Goto(c, setting) /\ UNCHANGED <<dependencies, rawKeys>>
      BY <1>5 DEF BeginSetStatus, MayStart, MayRun, depVars
    <2>2. /\ OneCall'
          /\ call'[c] = setting
          /\ \A d \in Clients \ {c}: call'[d] = Idle
      BY <2>1, AloneOrNone DEF DependencyInv
    <2>3. AddsHold'
      BY <2>2 DEF AddsHold, Idle
    <2> QED
      BY <2>1, <2>2, <2>3 DEF DependencyInv, Acyclic
  <1>6. CASE SetStatus(c)
    <2>1. call[c] # Idle /\ Goto(c, Idle) /\ UNCHANGED <<dependencies, rawKeys>>
      BY <1>6 DEF SetStatus, Return, Idle
    <2>2. /\ OneCall'
          /\ \A d \in Clients: call'[d] = Idle
      BY <2>1, AloneOrNone DEF DependencyInv
    <2>3. AddsHold'
      BY <2>2 DEF AddsHold, Idle
    <2> QED
      BY <2>1, <2>2, <2>3 DEF DependencyInv, Acyclic
  <1>7. ASSUME NEW t \in Tasks, ValidateTask(c, t)
        PROVE  DependencyInv'
    <2>1. UNCHANGED <<dependencies, rawKeys, call>>
      BY <1>7 DEF ValidateTask
    <2> QED
      BY <2>1 DEF DependencyInv, OneCall, AddsHold, Acyclic, WouldCycle
  <1> QED
    BY <1>1, <1>2, <1>3, <1>4, <1>5, <1>6, <1>7

\* A dependency that keeps a task waiting is on a task that is not done.
LEMMA WaitsForUnfinished ==
  ASSUME NEW t \in Tasks, ~DependenciesSatisfied(t)
  PROVE  \E r \in dependencies: r.task = t /\ status[r.on] \notin Done
  <1>1. PICK r \in dependencies: r.task = t /\ ~SatisfiedRow(r)
    BY DEF DependenciesSatisfied
  <1>2. status[r.on] \notin Done
    BY <1>1 DEF SatisfiedRow, Done
  <1> QED
    BY <1>1, <1>2

LEMMA AcyclicLetsWork ==
  ASSUME DependencyInv
  PROVE  SomeTaskMayProceed
  <1> DEFINE U == {t \in Tasks: status[t] \notin Done}
  <1>1. DependenciesAcyclic
    BY AcyclicRows
  <1>2. ASSUME U # {}
        PROVE  \E t \in U: DependenciesSatisfied(t)
    <2>1. PICK t \in U: \A r \in dependencies: r.task = t => r.on \notin U
      BY <1>1, <1>2, AcyclicHasFirst DEF DependencyInv, DependenciesAcyclic
    <2>2. \A r \in dependencies: r.on \in Tasks
      BY DEF DependencyInv, Row
    <2> QED
      BY <2>1, <2>2, WaitsForUnfinished
  <1> QED
    BY <1>1, <1>2 DEF SomeTaskMayProceed

\* While the dependencies are added and removed one call at a time the rows of a project
\* never make a circle, however many tasks and rows there are and whatever the search for a
\* cycle calls its columns; so among the unfinished tasks one waits for none of them, in
\* whatever order tasks are started, reopened and validated.
THEOREM WorkNeverBlocks ==
  ASSUME "dependencies" \notin Overlapping
  PROVE  DependencySpec => []SomeTaskMayProceed
  <1>1. DependencyInit /\ call = [c \in Clients |-> Idle] => DependencyInv
    BY DependencyInitially
  <1>2. DependencyInv /\ [DependencyNext]_<<depVars, call>> => DependencyInv'
    <2>1. CASE UNCHANGED <<depVars, call>>
      BY <2>1 DEF depVars, DependencyInv, OneCall, AddsHold, Acyclic, WouldCycle
    <2> QED
      BY <2>1, DependencyStepKeeps
  <1>3. DependencyInv => SomeTaskMayProceed
    BY AcyclicLetsWork
  <1> QED
    BY <1>1, <1>2, <1>3, PTL DEF DependencySpec
-----------------------------------------------------------------------------
(* Greatest and least *)

LEMMA GreatestIs ==
  ASSUME NEW S \in SUBSET Int, IsFiniteSet(S), S # {}
  PROVE  Max(S) \in S /\ \A x \in S: x <= Max(S)
  <1> DEFINE Good == {T \in SUBSET S: T # {} => \E m \in T: \A x \in T: x <= m}
  <1>1. {} \in Good
    OBVIOUS
  <1>2. ASSUME NEW T \in SUBSET S, T # {}, T \ {Picked(T)} \in Good
        PROVE  T \in Good
    <2>1. Picked(T) \in T /\ T \in SUBSET Int
      BY <1>2 DEF Picked
    <2>2. CASE T \ {Picked(T)} = {}
      <3>1. \A x \in T: x <= Picked(T)
        BY <2>1, <2>2
      <3> QED
        BY <2>1, <3>1
    <2>3. CASE T \ {Picked(T)} # {}
      <3>1. PICK m \in T \ {Picked(T)}: \A x \in T \ {Picked(T)}: x <= m
        BY <1>2, <2>3
      <3>2. m \in Int /\ Picked(T) \in Int
        BY <2>1
      <3>3. CASE m <= Picked(T)
        <4>1. \A x \in T: x <= Picked(T)
          BY <2>1, <3>1, <3>2, <3>3
        <4> QED
          BY <2>1, <4>1
      <3>4. CASE ~(m <= Picked(T))
        <4>1. Picked(T) <= m
          BY <3>2, <3>4
        <4>2. \A x \in T: x <= m
          BY <3>1, <4>1
        <4> QED
          BY <4>2
      <3> QED
        BY <3>3, <3>4
    <2> QED
      BY <2>2, <2>3
  <1>3. S \in Good
    <2> HIDE DEF Good
    <2> QED
      BY <1>1, <1>2, OneByOne
  <1>4. \E m \in S: \A x \in S: m >= x
    BY <1>3
  <1> QED
    BY <1>4 DEF Max

LEMMA LeastIs ==
  ASSUME NEW S \in SUBSET Int, IsFiniteSet(S), S # {}
  PROVE  Min(S) \in S /\ \A x \in S: Min(S) <= x
  <1> DEFINE Good == {T \in SUBSET S: T # {} => \E m \in T: \A x \in T: m <= x}
  <1>1. {} \in Good
    OBVIOUS
  <1>2. ASSUME NEW T \in SUBSET S, T # {}, T \ {Picked(T)} \in Good
        PROVE  T \in Good
    <2>1. Picked(T) \in T /\ T \in SUBSET Int
      BY <1>2 DEF Picked
    <2>2. CASE T \ {Picked(T)} = {}
      <3>1. \A x \in T: Picked(T) <= x
        BY <2>1, <2>2
      <3> QED
        BY <2>1, <3>1
    <2>3. CASE T \ {Picked(T)} # {}
      <3>1. PICK m \in T \ {Picked(T)}: \A x \in T \ {Picked(T)}: m <= x
        BY <1>2, <2>3
      <3>2. m \in Int /\ Picked(T) \in Int
        BY <2>1
      <3>3. CASE Picked(T) <= m
        <4>1. \A x \in T: Picked(T) <= x
          BY <2>1, <3>1, <3>2, <3>3
        <4> QED
          BY <2>1, <4>1
      <3>4. CASE ~(Picked(T) <= m)
        <4>1. m <= Picked(T)
          BY <3>2, <3>4
        <4>2. \A x \in T: m <= x
          BY <3>1, <4>1
        <4> QED
          BY <4>2
      <3> QED
        BY <3>3, <3>4
    <2> QED
      BY <2>2, <2>3
  <1>3. S \in Good
    <2> HIDE DEF Good
    <2> QED
      BY <1>1, <1>2, OneByOne
  <1>4. \E k \in S: \A x \in S: k =< x
    BY <1>3
  <1> QED
    BY <1>4 DEF Min

LEMMA LargestIs ==
  ASSUME NEW Sets \in SUBSET SUBSET Tasks, Sets # {}
  PROVE  \E C \in Sets: \A E \in Sets: Cardinality(E) <= Cardinality(C)
  <1> DEFINE Sizes == {Cardinality(C): C \in Sets}
  <1>1. Cardinality(Tasks) \in Nat
    BY TasksAssumption, FS_CardinalityType
  <1>2. \A C \in Sets: Cardinality(C) \in 0..Cardinality(Tasks)
    <2>1. \A C \in Sets: Cardinality(C) \in Nat /\ Cardinality(C) <= Cardinality(Tasks)
      BY TasksAssumption, FS_Subset, FS_CardinalityType
    <2> QED
      BY <1>1, <2>1
  <1>3. Sizes \in SUBSET (0..Cardinality(Tasks)) /\ Sizes # {}
    BY <1>2
  <1> HIDE DEF Sizes
  <1>4. IsFiniteSet(0..Cardinality(Tasks))
    BY <1>1, FS_Interval
  <1>5. IsFiniteSet(Sizes)
    BY <1>3, <1>4, FS_Subset
  <1>6. Sizes \in SUBSET Int
    BY <1>1, <1>3
  <1>7. \E m \in Sizes: \A k \in Sizes: k <= m
    BY <1>3, <1>5, <1>6, GreatestIs
  <1> QED
    BY <1>7 DEF Sizes

LEMMA SmallestIs ==
  ASSUME NEW Sets \in SUBSET SUBSET Tasks, Sets # {}
  PROVE  \E C \in Sets: \A E \in Sets: Cardinality(C) <= Cardinality(E)
  <1> DEFINE Sizes == {Cardinality(C): C \in Sets}
  <1>1. \A C \in Sets: Cardinality(C) \in Nat
    BY TasksAssumption, FS_Subset, FS_CardinalityType
  <1>2. Sizes \in SUBSET Nat /\ Sizes # {}
    BY <1>1
  <1> HIDE DEF Sizes
  <1>3. \E m \in Sizes: \A k \in Sizes: m <= k
    BY <1>2, LeastNatural
  <1> QED
    BY <1>3 DEF Sizes

-----------------------------------------------------------------------------
(* Order without circles *)

\* Any tasks hold one that comes after none of them.
Grounded(Before) ==
  \A U \in SUBSET Tasks: U # {} => \E t \in U: \A s \in U: <<s, t>> \notin Before

Edges(rows) == {<<r.on, r.task>>: r \in rows}
EdgesBack(rows) == {<<r.task, r.on>>: r \in rows}

LEMMA AcyclicIsGrounded ==
  ASSUME NEW rows \in SUBSET Row, ~HasCycle(rows)
  PROVE  Grounded(Edges(rows))
  <1> SUFFICES ASSUME NEW U \in SUBSET Tasks, U # {}
               PROVE  \E t \in U: \A s \in U: <<s, t>> \notin Edges(rows)
    BY DEF Grounded
  <1>1. PICK t \in U: \A r \in rows: r.task = t => r.on \notin U
    BY AcyclicHasFirst
  <1> QED
    BY <1>1 DEF Edges

\* An order without circles has none backwards: of tasks that all come before another of
\* them one that comes after none of them may be left out, so that the fewest are none.
LEMMA GroundedBackwards ==
  ASSUME NEW rows \in SUBSET Row, Grounded(Edges(rows))
  PROVE  Grounded(EdgesBack(rows))
  <1> DEFINE GoOn == {U \in SUBSET Tasks:
                        U # {} /\ \A t \in U: \E s \in U: <<t, s>> \in Edges(rows)}
  <1>1. \A s, t: <<s, t>> \in EdgesBack(rows) <=> <<t, s>> \in Edges(rows)
    BY DEF Edges, EdgesBack
  <1>2. SUFFICES ASSUME GoOn # {}
                 PROVE  FALSE
    BY <1>1 DEF Grounded
  <1>3. \A U \in SUBSET Tasks: IsFiniteSet(U) /\ Cardinality(U) \in Nat
    BY TasksAssumption, FS_Subset, FS_CardinalityType
  <1>4. PICK U \in GoOn: \A W \in GoOn: Cardinality(U) <= Cardinality(W)
    <2>1. GoOn \in SUBSET SUBSET Tasks
      OBVIOUS
    <2> HIDE DEF GoOn
    <2> QED
      BY <1>2, <2>1, SmallestIs
  <1>5. U \in SUBSET Tasks /\ U # {} /\ \A t \in U: \E s \in U: <<t, s>> \in Edges(rows)
    OBVIOUS
  <1>6. PICK t \in U: \A s \in U: <<s, t>> \notin Edges(rows)
    BY <1>5 DEF Grounded
  <1>7. U \ {t} \in GoOn
    <2>1. \A s \in U: \E u \in U \ {t}: <<s, u>> \in Edges(rows)
      BY <1>5, <1>6
    <2> QED
      BY <1>5, <1>6, <2>1
  <1>8. Cardinality(U \ {t}) = Cardinality(U) - 1 /\ Cardinality(U) \in Nat
    BY <1>3, <1>5, <1>6, FS_RemoveElement
  <1>9. Cardinality(U) <= Cardinality(U \ {t})
    BY <1>4, <1>7
  <1> QED
    BY <1>8, <1>9

\* Along such an order a function may be defined from its values at what comes before.
LEMMA GroundedSolves ==
  ASSUME NEW Before \in SUBSET (Tasks \X Tasks), Grounded(Before),
         NEW Step \in [Tasks -> [[Tasks -> Int] -> Int]],
         \A t \in Tasks: \A f, g \in [Tasks -> Int]:
           (\A s \in Tasks: <<s, t>> \in Before => f[s] = g[s]) => Step[t][f] = Step[t][g]
  PROVE  \E f \in [Tasks -> Int]: \A t \in Tasks: f[t] = Step[t][f]
  <1> DEFINE Closed(C) == \A s \in Tasks, t \in C: <<s, t>> \in Before => s \in C
             Solves(f, C) == \A t \in C: f[t] = Step[t][f]
             Solved == {C \in SUBSET Tasks: Closed(C) /\ \E f \in [Tasks -> Int]: Solves(f, C)}
  <1>1. \A C \in SUBSET Tasks: IsFiniteSet(C) /\ Cardinality(C) \in Nat
    BY TasksAssumption, FS_Subset, FS_CardinalityType
  <1>2. PICK C \in Solved: \A E \in Solved: Cardinality(E) <= Cardinality(C)
    <2>1. {} \in Solved
      <3>1. [t \in Tasks |-> 0] \in [Tasks -> Int]
        OBVIOUS
      <3> QED
        BY <3>1
    <2>2. Solved \in SUBSET SUBSET Tasks
      OBVIOUS
    <2> HIDE DEF Solved
    <2> QED
      BY <2>1, <2>2, LargestIs
  <1>3. PICK f \in [Tasks -> Int]: \A t \in C: f[t] = Step[t][f]
    BY <1>2
  <1>4. ASSUME Tasks \ C # {}
        PROVE  FALSE
    <2>1. PICK t \in Tasks \ C: \A s \in Tasks \ C: <<s, t>> \notin Before
      BY <1>4 DEF Grounded
    <2> DEFINE g == [f EXCEPT ![t] = Step[t][f]]
               E == C \cup {t}
    <2>2. Closed(E)
      BY <1>2, <2>1
    <2>3. g \in [Tasks -> Int]
      <3>1. Step[t][f] \in Int
        BY <2>1
      <3> QED
        BY <3>1
    <2>4. g[t] = Step[t][f] /\ \A s \in C: g[s] = f[s]
      BY <1>2, <2>1
    <2>5. t \notin C /\ C \in SUBSET Tasks
      BY <1>2, <2>1
    <2>6. \A u \in E: \A s \in Tasks: <<s, u>> \in Before => s \in C
      BY <1>2, <2>1
    <2> HIDE DEF g
    <2>7. \A u \in E: Step[u][g] = Step[u][f]
      <3> SUFFICES ASSUME NEW u \in E
                   PROVE  Step[u][g] = Step[u][f]
        OBVIOUS
      <3>1. \A s \in Tasks: <<s, u>> \in Before => g[s] = f[s]
        BY <2>4, <2>6
      <3>2. u \in Tasks
        BY <2>5
      <3> QED
        BY <2>3, <3>1, <3>2
    <2>8. E \in Solved
      <3>1. \A u \in E: g[u] = Step[u][f]
        BY <1>3, <2>4
      <3>2. Solves(g, E)
        BY <2>7, <3>1
      <3>3. E \in SUBSET Tasks
        BY <2>5
      <3> QED
        BY <2>2, <2>3, <3>2, <3>3
    <2>9. Cardinality(E) = Cardinality(C) + 1
      BY <1>1, <2>5, FS_AddElement
    <2>10. Cardinality(E) <= Cardinality(C)
      BY <1>2, <2>8
    <2>11. Cardinality(C) \in Nat
      BY <1>1, <2>5
    <2> HIDE DEF E
    <2> QED
      BY <2>9, <2>10, <2>11
  <1> QED
    BY <1>2, <1>3, <1>4
-----------------------------------------------------------------------------
(* The two passes over the graph *)

\* days of the tasks that t waits for, and of those that wait for it
Ready(rows, f, t) == {f[r.on] + r.lag: r \in {d \in rows: d.task = t}}
Due(rows, f, t) == {f[r.task] - Duration[r.task] - r.lag: r \in {d \in rows: d.on = t}}

LEMMA Durations ==
  ASSUME NEW rows \in SUBSET Row
  PROVE  /\ \A t \in Tasks: Duration[t] \in Int /\ Duration[t] > 0
         /\ \A r \in rows: r.task \in Tasks /\ r.on \in Tasks /\ r.lag \in Int
  <1>1. \A r \in rows: r.task \in Tasks /\ r.on \in Tasks /\ r.lag \in Lags
    BY DEF Row
  <1>2. \A t \in Tasks: Duration[t] \in Nat \ {0}
    BY TasksAssumption
  <1>3. \A l \in Lags: l \in Int
    BY TasksAssumption
  <1> QED
    BY <1>1, <1>2, <1>3

LEMMA ReadyIsFinite ==
  ASSUME NEW rows \in SUBSET Row, IsFiniteSet(rows), NEW f \in [Tasks -> Int], NEW t \in Tasks
  PROVE  /\ Ready(rows, f, t) \in SUBSET Int
         /\ IsFiniteSet(Ready(rows, f, t))
  <1> DEFINE R == {d \in rows: d.task = t}
             g == [r \in R |-> f[r.on] + r.lag]
  <1>1. \A r \in R: f[r.on] + r.lag \in Int
    BY Durations
  <1>2. Ready(rows, f, t) = {g[r]: r \in R}
    BY DEF Ready
  <1>3. IsFiniteSet(R)
    BY FS_Subset
  <1>4. Ready(rows, f, t) \in SUBSET Int
    BY <1>1 DEF Ready
  <1>5. g \in Surjection(R, Ready(rows, f, t))
    BY <1>2 DEF Surjection
  <1> HIDE DEF g, R
  <1> QED
    BY <1>3, <1>4, <1>5, FS_Surjection

LEMMA DueIsFinite ==
  ASSUME NEW rows \in SUBSET Row, IsFiniteSet(rows), NEW f \in [Tasks -> Int], NEW t \in Tasks
  PROVE  /\ Due(rows, f, t) \in SUBSET Int
         /\ IsFiniteSet(Due(rows, f, t))
  <1> DEFINE R == {d \in rows: d.on = t}
             g == [r \in R |-> f[r.task] - Duration[r.task] - r.lag]
  <1>1. \A r \in R: f[r.task] - Duration[r.task] - r.lag \in Int
    BY Durations
  <1>2. Due(rows, f, t) = {g[r]: r \in R}
    BY DEF Due
  <1>3. IsFiniteSet(R)
    BY FS_Subset
  <1>4. Due(rows, f, t) \in SUBSET Int
    BY <1>1 DEF Due
  <1>5. g \in Surjection(R, Due(rows, f, t))
    BY <1>2 DEF Surjection
  <1> HIDE DEF g, R
  <1> QED
    BY <1>3, <1>4, <1>5, FS_Surjection

\* The pass forwards has a result, and it is one of whole days.
LEMMA EarlyFinishIs ==
  ASSUME NEW rows \in SUBSET Row, IsFiniteSet(rows), Grounded(Edges(rows))
  PROVE  /\ EarlyFinish(rows) \in [Tasks -> Int]
         /\ \A t \in Tasks:
              EarlyFinish(rows)[t] = MaxOr(0, Ready(rows, EarlyFinish(rows), t)) + Duration[t]
  <1> DEFINE E == EarlyFinish(rows)
             Days(f, t) == MaxOr(0, Ready(rows, f, t)) + Duration[t]
             Step == [t \in Tasks |-> [f \in [Tasks -> Int] |-> Days(f, t)]]
  <1>1. \A f \in [Tasks -> Int], t \in Tasks: Days(f, t) \in Int
    BY ReadyIsFinite, GreatestIs, Durations DEF MaxOr
  <1>2. Step \in [Tasks -> [[Tasks -> Int] -> Int]]
    BY <1>1
  <1>3. ASSUME NEW t \in Tasks, NEW f, NEW g,
               \A s \in Tasks: <<s, t>> \in Edges(rows) => f[s] = g[s]
        PROVE  Ready(rows, f, t) = Ready(rows, g, t)
    <2>1. \A r \in rows: r.task = t => f[r.on] = g[r.on]
      BY <1>3, Durations DEF Edges
    <2> QED
      BY <2>1 DEF Ready
  <1>4. PICK h \in [Tasks -> Int]: \A t \in Tasks: h[t] = Step[t][h]
    <2>1. \A t \in Tasks: \A f, g \in [Tasks -> Int]:
            (\A s \in Tasks: <<s, t>> \in Edges(rows) => f[s] = g[s]) => Step[t][f] = Step[t][g]
      BY <1>3
    <2>2. Edges(rows) \in SUBSET (Tasks \X Tasks)
      BY Durations DEF Edges
    <2> HIDE DEF Step
    <2> QED
      BY <1>2, <2>1, <2>2, GroundedSolves
  <1>5. h = [t \in Tasks |-> Days(h, t)]
    BY <1>4
  <1>6. E = [t \in Tasks |-> Days(E, t)]
    <2>1. E = CHOOSE f: f = [t \in Tasks |-> Days(f, t)]
      BY Zenon DEF EarlyFinish, Ready
    <2> HIDE DEF E, Days
    <2> QED
      BY <1>5, <2>1, Zenon
  <1> HIDE DEF E
  <1>7. \A t \in Tasks: E[t] = h[t]
    <2> DEFINE U == {t \in Tasks: E[t] # h[t]}
    <2>1. SUFFICES ASSUME U # {}
                   PROVE  FALSE
      OBVIOUS
    <2>2. PICK t \in U: \A s \in U: <<s, t>> \notin Edges(rows)
      BY <2>1 DEF Grounded
    <2>3. Ready(rows, E, t) = Ready(rows, h, t)
      BY <1>3, <2>2
    <2> QED
      BY <1>5, <1>6, <2>2, <2>3
  <1>8. E = h
    BY <1>6, <1>7
  <1> QED
    BY <1>6, <1>8 DEF E
\* A task starts when the last of those it waits for, and its lag, are over.
EarlyDays(rows, E) ==
  /\ E \in [Tasks -> Int]
  /\ \A t \in Tasks:
       \/ E[t] = Duration[t] /\ \A r \in rows: r.task # t
       \/ \E r \in rows: r.task = t /\ E[t] = E[r.on] + r.lag + Duration[t]
  /\ \A r \in rows: E[r.on] + r.lag + Duration[r.task] <= E[r.task]

LEMMA EarlyFinishDays ==
  ASSUME NEW rows \in SUBSET Row, IsFiniteSet(rows), Grounded(Edges(rows))
  PROVE  EarlyDays(rows, EarlyFinish(rows))
  <1> DEFINE E == EarlyFinish(rows)
  <1>1. /\ E \in [Tasks -> Int]
        /\ \A t \in Tasks: E[t] = MaxOr(0, Ready(rows, E, t)) + Duration[t]
    BY EarlyFinishIs
  <1> HIDE DEF E
  <1>2. ASSUME NEW t \in Tasks, \A r \in rows: r.task # t
        PROVE  E[t] = Duration[t]
    <2>1. Ready(rows, E, t) = {}
      BY <1>2 DEF Ready
    <2> QED
      BY <1>1, <2>1, Durations DEF MaxOr
  <1>3. ASSUME NEW t \in Tasks, NEW q \in rows, q.task = t
        PROVE  /\ \E r \in rows: r.task = t /\ E[t] = E[r.on] + r.lag + Duration[t]
               /\ E[q.on] + q.lag + Duration[t] <= E[t]
    <2> DEFINE S == Ready(rows, E, t)
    <2>1. S \in SUBSET Int /\ IsFiniteSet(S)
      BY <1>1, ReadyIsFinite
    <2>2. E[q.on] + q.lag \in S
      BY <1>3 DEF Ready
    <2>3. Max(S) \in S /\ E[q.on] + q.lag <= Max(S)
      <3> HIDE DEF S
      <3> QED
        BY <2>1, <2>2, GreatestIs
    <2>4. E[t] = Max(S) + Duration[t]
      BY <1>1, <2>2 DEF MaxOr
    <2>5. PICK r \in rows: r.task = t /\ Max(S) = E[r.on] + r.lag
      BY <2>3 DEF Ready
    <2>6. Max(S) \in Int /\ E[q.on] + q.lag \in Int /\ Duration[t] \in Int
      BY <2>1, <2>2, <2>3, Durations
    <2> HIDE DEF S
    <2>7. E[q.on] + q.lag + Duration[t] <= E[t]
      BY <2>3, <2>4, <2>6
    <2> QED
      BY <2>4, <2>5, <2>7
  <1>4. \A r \in rows: E[r.on] + r.lag + Duration[r.task] <= E[r.task]
    BY <1>3, Durations
  <1>5. \A t \in Tasks:
          \/ E[t] = Duration[t] /\ \A r \in rows: r.task # t
          \/ \E r \in rows: r.task = t /\ E[t] = E[r.on] + r.lag + Duration[t]
    BY <1>2, <1>3
  <1> QED
    BY <1>1, <1>4, <1>5 DEF EarlyDays, E

LEMMA ProjectEndIs ==
  ASSUME NEW rows \in SUBSET Row, IsFiniteSet(rows), Grounded(Edges(rows)), Tasks # {}
  PROVE  /\ ProjectEnd(rows) \in Int
         /\ \A t \in Tasks: EarlyFinish(rows)[t] <= ProjectEnd(rows)
         /\ \E t \in Tasks: EarlyFinish(rows)[t] = ProjectEnd(rows)
  <1> DEFINE E == EarlyFinish(rows)
             S == {E[t]: t \in Tasks}
  <1>1. E \in [Tasks -> Int]
    BY EarlyFinishIs
  <1> HIDE DEF E
  <1>2. S \in SUBSET Int /\ S # {} /\ E \in Surjection(Tasks, S)
    BY <1>1 DEF Surjection
  <1>3. IsFiniteSet(S)
    <2> HIDE DEF S
    <2> QED
      BY <1>2, TasksAssumption, FS_Surjection
  <1>4. Max(S) \in S /\ \A x \in S: x <= Max(S)
    <2> HIDE DEF S
    <2> QED
      BY <1>2, <1>3, GreatestIs
  <1>5. ProjectEnd(rows) = Max(S)
    BY DEF ProjectEnd, E
  <1>6. Max(S) \in Int /\ (\A t \in Tasks: E[t] <= Max(S)) /\ \E t \in Tasks: E[t] = Max(S)
    BY <1>2, <1>4
  <1> QED
    BY <1>5, <1>6 DEF E

\* The pass backwards has a result too.
LEMMA LateFinishIs ==
  ASSUME NEW rows \in SUBSET Row, IsFiniteSet(rows), Grounded(Edges(rows)), Tasks # {}
  PROVE  /\ LateFinish(rows) \in [Tasks -> Int]
         /\ \A t \in Tasks:
              LateFinish(rows)[t] = MinOr(ProjectEnd(rows), Due(rows, LateFinish(rows), t))
  <1> DEFINE L == LateFinish(rows)
             end == ProjectEnd(rows)
             Days(f, t) == MinOr(end, Due(rows, f, t))
             Step == [t \in Tasks |-> [f \in [Tasks -> Int] |-> Days(f, t)]]
  <1>0. end \in Int
    BY ProjectEndIs
  <1>1. \A f \in [Tasks -> Int], t \in Tasks: Days(f, t) \in Int
    BY <1>0, DueIsFinite, LeastIs DEF MinOr
  <1>2. Step \in [Tasks -> [[Tasks -> Int] -> Int]]
    BY <1>1
  <1>3. ASSUME NEW t \in Tasks, NEW f, NEW g,
               \A s \in Tasks: <<s, t>> \in EdgesBack(rows) => f[s] = g[s]
        PROVE  Due(rows, f, t) = Due(rows, g, t)
    <2>1. \A r \in rows: r.on = t => f[r.task] = g[r.task]
      BY <1>3, Durations DEF EdgesBack
    <2> QED
      BY <2>1 DEF Due
  <1>4. PICK h \in [Tasks -> Int]: \A t \in Tasks: h[t] = Step[t][h]
    <2>1. \A t \in Tasks: \A f, g \in [Tasks -> Int]:
            (\A s \in Tasks: <<s, t>> \in EdgesBack(rows) => f[s] = g[s]) => Step[t][f] = Step[t][g]
      BY <1>3
    <2>2. EdgesBack(rows) \in SUBSET (Tasks \X Tasks)
      BY Durations DEF EdgesBack
    <2>3. Grounded(EdgesBack(rows))
      BY GroundedBackwards
    <2> HIDE DEF Step
    <2> QED
      BY <1>2, <2>1, <2>2, <2>3, GroundedSolves
  <1>5. h = [t \in Tasks |-> Days(h, t)]
    BY <1>4
  <1>6. L = [t \in Tasks |-> Days(L, t)]
    <2>1. L = CHOOSE f: f = [t \in Tasks |-> Days(f, t)]
      BY Zenon DEF LateFinish, Due
    <2> HIDE DEF L, Days
    <2> QED
      BY <1>5, <2>1, Zenon
  <1> HIDE DEF L
  <1>7. \A t \in Tasks: L[t] = h[t]
    <2> DEFINE U == {t \in Tasks: L[t] # h[t]}
    <2>1. SUFFICES ASSUME U # {}
                   PROVE  FALSE
      OBVIOUS
    <2>2. PICK t \in U: \A s \in U: <<s, t>> \notin EdgesBack(rows)
      BY <2>1, GroundedBackwards DEF Grounded
    <2>3. Due(rows, L, t) = Due(rows, h, t)
      BY <1>3, <2>2
    <2> QED
      BY <1>5, <1>6, <2>2, <2>3
  <1>8. L = h
    BY <1>6, <1>7
  <1> QED
    BY <1>6, <1>8 DEF L

\* A task must be over when the first of those that wait for it, and its lag, must begin,
\* or at the end of the project.
LateDays(rows, end, L) ==
  /\ L \in [Tasks -> Int]
  /\ \A t \in Tasks:
       \/ L[t] = end /\ \A r \in rows: r.on # t
       \/ \E r \in rows: r.on = t /\ L[t] = L[r.task] - Duration[r.task] - r.lag
  /\ \A r \in rows: L[r.on] <= L[r.task] - Duration[r.task] - r.lag

LEMMA LateFinishDays ==
  ASSUME NEW rows \in SUBSET Row, IsFiniteSet(rows), Grounded(Edges(rows)), Tasks # {}
  PROVE  LateDays(rows, ProjectEnd(rows), LateFinish(rows))
  <1> DEFINE L == LateFinish(rows)
             end == ProjectEnd(rows)
  <1>1. /\ L \in [Tasks -> Int]
        /\ \A t \in Tasks: L[t] = MinOr(end, Due(rows, L, t))
    BY LateFinishIs
  <1> HIDE DEF L, end
  <1>2. ASSUME NEW t \in Tasks, \A r \in rows: r.on # t
        PROVE  L[t] = end
    <2>1. Due(rows, L, t) = {}
      BY <1>2 DEF Due
    <2> QED
      BY <1>1, <2>1 DEF MinOr
  <1>3. ASSUME NEW t \in Tasks, NEW q \in rows, q.on = t
        PROVE  /\ \E r \in rows: r.on = t /\ L[t] = L[r.task] - Duration[r.task] - r.lag
               /\ L[t] <= L[q.task] - Duration[q.task] - q.lag
    <2> DEFINE S == Due(rows, L, t)
    <2>1. S \in SUBSET Int /\ IsFiniteSet(S)
      BY <1>1, DueIsFinite
    <2>2. L[q.task] - Duration[q.task] - q.lag \in S
      BY <1>3 DEF Due
    <2>3. Min(S) \in S /\ Min(S) <= L[q.task] - Duration[q.task] - q.lag
      <3> HIDE DEF S
      <3> QED
        BY <2>1, <2>2, LeastIs
    <2>4. L[t] = Min(S)
      BY <1>1, <2>2 DEF MinOr
    <2>5. PICK r \in rows: r.on = t /\ Min(S) = L[r.task] - Duration[r.task] - r.lag
      BY <2>3 DEF Due
    <2> HIDE DEF S
    <2> QED
      BY <2>3, <2>4, <2>5
  <1>4. \A r \in rows: L[r.on] <= L[r.task] - Duration[r.task] - r.lag
    BY <1>3, Durations
  <1>5. \A t \in Tasks:
          \/ L[t] = end /\ \A r \in rows: r.on # t
          \/ \E r \in rows: r.on = t /\ L[t] = L[r.task] - Duration[r.task] - r.lag
    BY <1>2, <1>3
  <1> QED
    BY <1>1, <1>4, <1>5 DEF LateDays, L, end
-----------------------------------------------------------------------------
(* Chains of rows *)

IsChain(rows, n, k) ==
  /\ n \in Nat \ {0}
  /\ k \in [1..n -> rows]
  /\ \A i \in 1..(n - 1): k[i].task = k[i + 1].on

\* days of a row and of the task it leads to
DaysOf(k) == [i \in DOMAIN k |-> k[i].lag + Duration[k[i].task]]

LEMMA DaysAreIntegers ==
  ASSUME NEW rows \in SUBSET Row, NEW n \in Nat, NEW k \in [1..n -> rows]
  PROVE  DaysOf(k) \in [1..n -> Int] /\ SumFunction(DaysOf(k)) \in Int
  <1>1. \A i \in 1..n: k[i].lag + Duration[k[i].task] \in Int
    <2>1. \A i \in 1..n: k[i] \in rows
      OBVIOUS
    <2>2. \A r \in rows: r.lag \in Int /\ Duration[r.task] \in Int
      BY Durations
    <2> QED
      BY <2>1, <2>2
  <1>2. DaysOf(k) \in [1..n -> Int]
    BY <1>1 DEF DaysOf
  <1>3. IsFiniteSet(1..n)
    BY FS_Interval
  <1> QED
    BY <1>2, <1>3, SumIsInteger

LEMMA ChainOfOne ==
  ASSUME NEW rows \in SUBSET Row, NEW k, IsChain(rows, 1, k)
  PROVE  /\ k[1] \in rows
         /\ ChainDays(k) = Duration[k[1].on] + k[1].lag + Duration[k[1].task]
  <1> DEFINE f == DaysOf(k)
  <1>1. k \in [1..1 -> rows] /\ k[1] \in rows /\ 1 \in 1..1
    BY DEF IsChain
  <1>2. f \in [1..1 -> Int] /\ f[1] = k[1].lag + Duration[k[1].task]
    <2>1. f \in [1..1 -> Int]
      BY <1>1, DaysAreIntegers
    <2>2. f[1] = k[1].lag + Duration[k[1].task]
      BY <1>1 DEF DaysOf
    <2> QED
      BY <2>1, <2>2
  <1>3. IsFiniteSet(1..1)
    <2>1. 1..1 = {1}
      OBVIOUS
    <2> QED
      BY <2>1, FS_Singleton
  <1> HIDE DEF f
  <1>4. SumFunction(f) = SumFunction([i \in (1..1) \ {1} |-> f[i]]) + f[1]
    BY <1>1, <1>2, <1>3, SumWithout
  <1>5. SumFunction([i \in (1..1) \ {1} |-> f[i]]) = 0
    <2>1. (1..1) \ {1} = {}
      OBVIOUS
    <2>2. DOMAIN [i \in (1..1) \ {1} |-> f[i]] = {}
      BY <2>1
    <2> QED
      BY <2>2, SumOfNone
  <1>6. ChainDays(k) = Duration[k[1].on] + SumFunction(f)
    BY DEF ChainDays, f, DaysOf
  <1>7. f[1] \in Int /\ Duration[k[1].on] \in Int /\ k[1].lag \in Int /\ Duration[k[1].task] \in Int
    BY <1>1, <1>2, Durations
  <1> QED
    BY <1>1, <1>2, <1>4, <1>5, <1>6, <1>7

Shorter(k, n) == [i \in 1..n |-> k[i]]

LEMMA ChainOfMore ==
  ASSUME NEW rows \in SUBSET Row, NEW n \in Nat \ {0}, NEW k, IsChain(rows, n + 1, k)
  PROVE  /\ IsChain(rows, n, Shorter(k, n))
         /\ k[n].task = k[n + 1].on /\ k[n + 1] \in rows
         /\ ChainDays(Shorter(k, n)) \in Int
         /\ ChainDays(k) = ChainDays(Shorter(k, n)) + k[n + 1].lag + Duration[k[n + 1].task]
  <1> DEFINE f == DaysOf(k)
             b == Shorter(k, n)
  <1>1. k \in [1..(n + 1) -> rows] /\ k[n + 1] \in rows /\ n + 1 \in 1..(n + 1) /\ n + 1 \in Nat
    BY DEF IsChain
  <1>2. IsChain(rows, n, b) /\ k[n].task = k[n + 1].on
    BY DEF IsChain, Shorter
  <1>3. f \in [1..(n + 1) -> Int] /\ f[n + 1] = k[n + 1].lag + Duration[k[n + 1].task]
    <2>1. f \in [1..(n + 1) -> Int]
      BY <1>1, DaysAreIntegers
    <2>2. f[n + 1] = k[n + 1].lag + Duration[k[n + 1].task]
      BY <1>1 DEF DaysOf
    <2> QED
      BY <2>1, <2>2
  <1>4. (1..(n + 1)) \ {n + 1} = 1..n
    OBVIOUS
  <1>5. [i \in (1..(n + 1)) \ {n + 1} |-> f[i]] = DaysOf(b)
    <2>1. \A i \in 1..n: f[i] = b[i].lag + Duration[b[i].task]
      BY <1>1 DEF DaysOf, Shorter
    <2>2. DaysOf(b) = [i \in 1..n |-> b[i].lag + Duration[b[i].task]]
      BY DEF DaysOf, Shorter
    <2> HIDE DEF f, b
    <2> QED
      BY <1>4, <2>1, <2>2
  <1>6. SumFunction(f) = SumFunction(DaysOf(b)) + f[n + 1]
    <2>1. IsFiniteSet(1..(n + 1))
      BY FS_Interval
    <2> HIDE DEF f, b
    <2>2. SumFunction(f) = SumFunction([i \in (1..(n + 1)) \ {n + 1} |-> f[i]]) + f[n + 1]
      BY <1>1, <1>3, <2>1, SumWithout
    <2> QED
      BY <1>5, <2>2
  <1>7. ChainDays(k) = Duration[k[1].on] + SumFunction(f)
        /\ ChainDays(b) = Duration[k[1].on] + SumFunction(DaysOf(b))
    <2>1. b[1] = k[1]
      BY DEF Shorter
    <2> HIDE DEF b
    <2> QED
      BY <2>1 DEF ChainDays, DaysOf, f
  <1>8. /\ SumFunction(DaysOf(b)) \in Int
        /\ Duration[k[1].on] \in Int
        /\ k[n + 1].lag \in Int /\ Duration[k[n + 1].task] \in Int
    <2>1. b \in [1..n -> rows] /\ k[1] \in rows
      BY <1>1, <1>2 DEF IsChain
    <2> HIDE DEF b
    <2> QED
      BY <1>1, <2>1, DaysAreIntegers, Durations
  <1> HIDE DEF f, b
  <1>9. ChainDays(b) \in Int /\ ChainDays(k) = ChainDays(b) + k[n + 1].lag + Duration[k[n + 1].task]
    <2>1. f[n + 1] = k[n + 1].lag + Duration[k[n + 1].task]
      BY <1>3
    <2> QED
      BY <1>6, <1>7, <1>8, <2>1
  <1> QED
    BY <1>1, <1>2, <1>9 DEF b

\* A chain goes on along a row from the task it leads to.
Longer(k, n, r) == [i \in 1..(n + 1) |-> IF i = n + 1 THEN r ELSE k[i]]

LEMMA ChainGoesOn ==
  ASSUME NEW rows \in SUBSET Row, NEW n, NEW k, IsChain(rows, n, k),
         NEW r \in rows, k[n].task = r.on
  PROVE  /\ IsChain(rows, n + 1, Longer(k, n, r))
         /\ Longer(k, n, r)[n + 1] = r
         /\ \A i \in 1..n: Longer(k, n, r)[i] = k[i]
         /\ ChainDays(Longer(k, n, r)) = ChainDays(k) + r.lag + Duration[r.task]
  <1> DEFINE m == Longer(k, n, r)
  <1>1. n \in Nat \ {0} /\ k \in [1..n -> rows]
    BY DEF IsChain
  <1>2. m[n + 1] = r /\ \A i \in 1..n: m[i] = k[i]
    BY <1>1 DEF Longer
  <1>3. m \in [1..(n + 1) -> rows]
    BY <1>1 DEF Longer
  <1>4. \A i \in 1..n: m[i].task = m[i + 1].on
    <2> SUFFICES ASSUME NEW i \in 1..n
                 PROVE  m[i].task = m[i + 1].on
      OBVIOUS
    <2>1. CASE i = n
      BY <1>1, <1>2, <2>1
    <2>2. CASE i # n
      <3>1. i \in 1..(n - 1) /\ i + 1 \in 1..n
        BY <1>1, <2>2
      <3> QED
        BY <1>2, <3>1 DEF IsChain
    <2> QED
      BY <2>1, <2>2
  <1> HIDE DEF m
  <1>5. IsChain(rows, n + 1, m)
    <2>1. (n + 1) - 1 = n /\ n + 1 \in Nat \ {0}
      BY <1>1
    <2> QED
      BY <1>3, <1>4, <2>1 DEF IsChain
  <1>6. Shorter(m, n) = k
    BY <1>1, <1>2 DEF Shorter
  <1>7. ChainDays(m) = ChainDays(k) + r.lag + Duration[r.task]
    BY <1>1, <1>2, <1>5, <1>6, ChainOfMore
  <1> QED
    BY <1>2, <1>5, <1>7 DEF m
\* The tasks of a chain are different ones, so it has fewer rows than there are tasks.
LEMMA ChainIsShort ==
  ASSUME NEW rows \in SUBSET Row, Grounded(Edges(rows)), NEW n, NEW k, IsChain(rows, n, k)
  PROVE  n \in 1..(Cardinality(Tasks) - 1)
  <1> DEFINE node == [i \in 0..n |-> IF i = 0 THEN k[1].on ELSE k[i].task]
  <1>1. n \in Nat \ {0} /\ k \in [1..n -> rows] /\ \A i \in 1..n: k[i] \in rows
    BY DEF IsChain
  <1>2. node \in [0..n -> Tasks]
    <2>1. \A i \in 1..n: k[i].task \in Tasks /\ k[i].on \in Tasks
      BY <1>1, Durations
    <2> QED
      BY <1>1, <2>1
  <1>3. \A i \in 1..n: <<node[i - 1], node[i]>> \in Edges(rows)
    <2> SUFFICES ASSUME NEW i \in 1..n
                 PROVE  <<node[i - 1], node[i]>> \in Edges(rows)
      OBVIOUS
    <2>1. node[i] = k[i].task
      BY <1>1
    <2>2. node[i - 1] = k[i].on
      <3>1. CASE i = 1
        BY <1>1, <3>1
      <3>2. CASE i # 1
        <4>1. i - 1 \in 1..(n - 1) /\ (i - 1) + 1 = i /\ i - 1 \in 0..n /\ i - 1 # 0
          BY <1>1, <3>2
        <4>2. k[i - 1].task = k[i].on
          BY <4>1 DEF IsChain
        <4> QED
          BY <4>1, <4>2
      <3> QED
        BY <3>1, <3>2
    <2>3. k[i] \in rows
      BY <1>1
    <2> HIDE DEF node
    <2> QED
      BY <2>1, <2>2, <2>3 DEF Edges
  <1> HIDE DEF node
  <1>4. ASSUME NEW i \in 0..n, NEW j \in 0..n, i < j, node[i] = node[j]
        PROVE  FALSE
    <2> DEFINE U == {node[m]: m \in i..j}
    <2>1. U \in SUBSET Tasks /\ U # {}
      <3>1. \A m \in i..j: m \in 0..n
        BY <1>1
      <3>2. i \in i..j
        BY <1>1, <1>4
      <3> QED
        BY <1>2, <3>1, <3>2
    <2>2. PICK t \in U: \A s \in U: <<s, t>> \notin Edges(rows)
      <3> HIDE DEF U
      <3> QED
        BY <2>1 DEF Grounded
    <2>3. PICK m \in i..j: t = node[m]
      BY <2>2
    <2>4. CASE m # i
      <3>1. m - 1 \in i..j /\ m \in 1..n
        BY <1>1, <2>4
      <3>2. node[m - 1] \in U
        BY <3>1
      <3> QED
        BY <1>3, <2>2, <2>3, <3>1, <3>2
    <2>5. CASE m = i
      <3>1. j - 1 \in i..j /\ j \in 1..n
        BY <1>1, <1>4
      <3>2. node[j - 1] \in U
        BY <3>1
      <3> QED
        BY <1>3, <1>4, <2>2, <2>3, <2>5, <3>1, <3>2
    <2> QED
      BY <2>4, <2>5
  <1>5. \A i, j \in 0..n: node[i] = node[j] => i = j
    BY <1>1, <1>4
  <1>6. Cardinality(0..n) <= Cardinality(Tasks)
    BY <1>2, <1>5, TasksAssumption, OneToOne
  <1>7. Cardinality(0..n) = n + 1
    BY <1>1, FS_Interval
  <1>8. Cardinality(Tasks) \in Nat
    BY TasksAssumption, FS_CardinalityType
  <1> QED
    BY <1>1, <1>6, <1>7, <1>8

LEMMA ChainsAre ==
  ASSUME NEW rows \in SUBSET Row, Grounded(Edges(rows)), Tasks # {}
  PROVE  \A k: k \in Chains(rows) <=> \E n \in Nat \ {0}: IsChain(rows, n, k)
  <1> DEFINE most == Cardinality(Tasks) - 1
  <1>0. most \in Nat
    <2>1. Cardinality(Tasks) \in Nat /\ Cardinality(Tasks) # 0
      BY TasksAssumption, FS_CardinalityType, FS_EmptySet
    <2> QED
      BY <2>1
  <1>1. ASSUME NEW k \in Chains(rows)
        PROVE  \E n \in Nat \ {0}: IsChain(rows, n, k)
    <2>1. /\ k \in UNION {[1..m -> rows]: m \in 0..most} /\ k # <<>>
          /\ \A i \in 1..(Len(k) - 1): k[i].task = k[i + 1].on
      BY DEF Chains, SeqOf
    <2>2. PICK m \in 0..most: k \in [1..m -> rows]
      BY <2>1
    <2>3. m \in Nat
      BY <1>0
    <2>4. k \in Seq(rows) /\ Len(k) = m
      BY <2>2, <2>3
    <2>5. m # 0
      BY <2>1, <2>4
    <2> QED
      BY <2>1, <2>2, <2>3, <2>4, <2>5 DEF IsChain
  <1>2. ASSUME NEW k, NEW n \in Nat \ {0}, IsChain(rows, n, k)
        PROVE  k \in Chains(rows)
    <2>1. n \in 0..most
      BY <1>0, <1>2, ChainIsShort
    <2>2. k \in [1..n -> rows] /\ \A i \in 1..(n - 1): k[i].task = k[i + 1].on
      BY <1>2 DEF IsChain
    <2>3. k \in Seq(rows) /\ Len(k) = n
      BY <2>2
    <2>4. k # <<>>
      BY <2>3
    <2>5. k \in UNION {[1..m -> rows]: m \in 0..most}
      BY <2>1, <2>2
    <2> HIDE DEF most
    <2> QED
      BY <2>2, <2>3, <2>4, <2>5 DEF Chains, SeqOf, most
  <1> QED
    BY <1>1, <1>2
-----------------------------------------------------------------------------
(* The longest chains *)

\* A task is over no sooner than it alone takes.
LEMMA AtLeastItself ==
  ASSUME NEW rows \in SUBSET Row, NEW E, EarlyDays(rows, E), LeadsFit(rows),
         Grounded(Edges(rows))
  PROVE  \A t \in Tasks: Duration[t] <= E[t]
  <1> DEFINE U == {t \in Tasks: ~(Duration[t] <= E[t])}
  <1>1. SUFFICES ASSUME U # {}
                 PROVE  FALSE
    OBVIOUS
  <1>2. PICK t \in U: \A s \in U: <<s, t>> \notin Edges(rows)
    BY <1>1 DEF Grounded
  <1>3. E[t] # Duration[t]
    BY <1>2, Durations
  <1>4. PICK r \in rows: r.task = t /\ E[t] = E[r.on] + r.lag + Duration[t]
    BY <1>2, <1>3 DEF EarlyDays
  <1>5. r.on \notin U /\ r.on \in Tasks
    BY <1>2, <1>4, Durations DEF Edges
  <1>6. Duration[r.on] <= E[r.on] /\ Duration[r.on] + r.lag >= 0
    BY <1>5 DEF LeadsFit
  <1>7. E[r.on] \in Int /\ Duration[r.on] \in Int /\ Duration[t] \in Int /\ r.lag \in Int
    BY <1>2, <1>5, Durations DEF EarlyDays
  <1>8. Duration[t] <= E[t]
    BY <1>4, <1>6, <1>7
  <1> QED
    BY <1>2, <1>8

\* No chain takes longer than until the task it leads to is over at the earliest.
LEMMA ChainsFit ==
  ASSUME NEW rows \in SUBSET Row, NEW E, EarlyDays(rows, E), LeadsFit(rows),
         Grounded(Edges(rows))
  PROVE  \A n \in Nat \ {0}: \A k:
           IsChain(rows, n, k) => /\ k[n] \in rows
                                  /\ ChainDays(k) \in Int
                                  /\ ChainDays(k) <= E[k[n].task]
  <1> DEFINE Fits(n, k) == k[n] \in rows /\ ChainDays(k) \in Int /\ ChainDays(k) <= E[k[n].task]
             Bad == {n \in Nat \ {0}: \E k: IsChain(rows, n, k) /\ ~Fits(n, k)}
  <1>1. SUFFICES ASSUME Bad # {}
                 PROVE  FALSE
    OBVIOUS
  <1>2. PICK n \in Bad: \A i \in Bad: n <= i
    <2>1. Bad \in SUBSET Nat
      OBVIOUS
    <2> HIDE DEF Bad
    <2> QED
      BY <1>1, <2>1, LeastNatural
  <1>3. PICK k: IsChain(rows, n, k) /\ ~Fits(n, k)
    BY <1>2
  <1>4. \A r \in rows: /\ r.lag \in Int
                       /\ E[r.on] \in Int /\ Duration[r.on] \in Int
                       /\ E[r.task] \in Int /\ Duration[r.task] \in Int
                       /\ Duration[r.on] <= E[r.on]
                       /\ E[r.on] + r.lag + Duration[r.task] <= E[r.task]
    BY AtLeastItself, Durations DEF EarlyDays
  <1>5. CASE n = 1
    <2>1. /\ k[1] \in rows
          /\ ChainDays(k) = Duration[k[1].on] + k[1].lag + Duration[k[1].task]
      BY <1>3, <1>5, ChainOfOne
    <2> DEFINE r == k[1]
    <2>2. r \in rows /\ ChainDays(k) = Duration[r.on] + r.lag + Duration[r.task]
      BY <2>1
    <2> HIDE DEF r
    <2>3. ChainDays(k) \in Int /\ ChainDays(k) <= E[r.task]
      BY <1>4, <2>2
    <2> QED
      BY <1>3, <1>5, <2>2, <2>3 DEF r
  <1>6. CASE n # 1
    <2> DEFINE m == n - 1
               b == Shorter(k, m)
               r == k[m + 1]
    <2>1. m \in Nat \ {0} /\ m + 1 = n /\ ~(n <= m)
      BY <1>2, <1>6
    <2>2. IsChain(rows, m + 1, k)
      BY <1>3, <2>1
    <2> HIDE DEF m
    <2>3. /\ IsChain(rows, m, b)
          /\ k[m].task = r.on /\ r \in rows
          /\ ChainDays(b) \in Int
          /\ ChainDays(k) = ChainDays(b) + r.lag + Duration[r.task]
      BY <2>1, <2>2, ChainOfMore
    <2>4. m \notin Bad
      BY <1>2, <2>1
    <2>5. Fits(m, b)
      BY <2>1, <2>3, <2>4
    <2>6. b[m] = k[m]
      BY <2>1 DEF Shorter
    <2>7. ChainDays(b) <= E[r.on]
      BY <2>3, <2>5, <2>6
    <2> HIDE DEF b, r
    <2>8. ChainDays(k) \in Int /\ ChainDays(k) <= E[r.task]
      BY <1>4, <2>3, <2>7
    <2> QED
      BY <1>3, <2>1, <2>3, <2>8 DEF r
  <1> QED
    BY <1>5, <1>6

\* A task is over at the earliest when it alone, or some chain that leads to it, is.
LEMMA EarliestIsReached ==
  ASSUME NEW rows \in SUBSET Row, NEW E, EarlyDays(rows, E), Grounded(Edges(rows))
  PROVE  \A t \in Tasks:
           \/ E[t] = Duration[t]
           \/ \E n \in Nat \ {0}: \E k:
                IsChain(rows, n, k) /\ k[n].task = t /\ ChainDays(k) = E[t]
  <1> DEFINE Along(t) == \E n \in Nat \ {0}: \E k:
                           IsChain(rows, n, k) /\ k[n].task = t /\ ChainDays(k) = E[t]
             U == {t \in Tasks: E[t] # Duration[t] /\ ~Along(t)}
  <1>1. SUFFICES ASSUME U # {}
                 PROVE  FALSE
    OBVIOUS
  <1>2. PICK t \in U: \A s \in U: <<s, t>> \notin Edges(rows)
    BY <1>1 DEF Grounded
  <1>3. PICK r \in rows: r.task = t /\ E[t] = E[r.on] + r.lag + Duration[t]
    BY <1>2 DEF EarlyDays
  <1>4. r.on \notin U /\ r.on \in Tasks
    BY <1>2, <1>3, Durations DEF Edges
  <1>5. CASE E[r.on] = Duration[r.on]
    <2> DEFINE k == [i \in 1..1 |-> r]
    <2>1. IsChain(rows, 1, k) /\ k[1] = r
      BY DEF IsChain
    <2> HIDE DEF k
    <2>2. ChainDays(k) = E[t]
      BY <1>3, <1>5, <2>1, ChainOfOne
    <2>3. k[1].task = t /\ 1 \in Nat \ {0}
      BY <1>3, <2>1
    <2>4. Along(t)
      BY <2>1, <2>2, <2>3
    <2> QED
      BY <1>2, <2>4
  <1>6. CASE Along(r.on)
    <2>1. PICK n \in Nat \ {0}: \E k:
            IsChain(rows, n, k) /\ k[n].task = r.on /\ ChainDays(k) = E[r.on]
      BY <1>6
    <2>2. PICK k: IsChain(rows, n, k) /\ k[n].task = r.on /\ ChainDays(k) = E[r.on]
      BY <2>1
    <2> DEFINE l == Longer(k, n, r)
    <2>3. /\ IsChain(rows, n + 1, l) /\ l[n + 1] = r
          /\ ChainDays(l) = ChainDays(k) + r.lag + Duration[r.task]
      BY <2>2, ChainGoesOn
    <2> HIDE DEF l
    <2>4. ChainDays(l) = E[t] /\ l[n + 1].task = t /\ n + 1 \in Nat \ {0}
      BY <1>3, <2>2, <2>3
    <2>5. Along(t)
      BY <2>3, <2>4
    <2> QED
      BY <1>2, <2>5
  <1> QED
    BY <1>4, <1>5, <1>6
\* The two passes, of a project whose last task is over at the end.
TwoPasses(rows, end, E, L) ==
  /\ EarlyDays(rows, E)
  /\ LateDays(rows, end, L)
  /\ end \in Int
  /\ \A t \in Tasks: E[t] <= end

LEMMA LateIsLater ==
  ASSUME NEW rows \in SUBSET Row, NEW end, NEW E, NEW L, TwoPasses(rows, end, E, L),
         LeadsFit(rows), Grounded(Edges(rows))
  PROVE  \A t \in Tasks: E[t] <= L[t] /\ L[t] <= end
  <1> DEFINE U == {t \in Tasks: ~(E[t] <= L[t] /\ L[t] <= end)}
  <1>1. SUFFICES ASSUME U # {}
                 PROVE  FALSE
    OBVIOUS
  <1>2. PICK t \in U: \A s \in U: <<s, t>> \notin EdgesBack(rows)
    BY <1>1, GroundedBackwards DEF Grounded
  <1>3. L[t] # end
    BY <1>2 DEF TwoPasses
  <1>4. PICK r \in rows: r.on = t /\ L[t] = L[r.task] - Duration[r.task] - r.lag
    BY <1>2, <1>3 DEF TwoPasses, LateDays
  <1> DEFINE s == r.task
  <1>5. s \notin U /\ s \in Tasks
    BY <1>2, <1>4, Durations DEF EdgesBack
  <1>6. /\ E[s] <= L[s] /\ L[s] <= end /\ Duration[s] + r.lag >= 0
        /\ E[t] + r.lag + Duration[s] <= E[s]
    BY <1>4, <1>5 DEF LeadsFit, TwoPasses, EarlyDays
  <1>7. /\ E[s] \in Int /\ L[s] \in Int /\ E[t] \in Int
        /\ Duration[s] \in Int /\ r.lag \in Int /\ end \in Int
    BY <1>2, <1>5, Durations DEF TwoPasses, EarlyDays, LateDays
  <1> HIDE DEF s
  <1>8. E[t] <= L[t] /\ L[t] <= end
    <2>1. L[t] = L[s] - Duration[s] - r.lag
      BY <1>4 DEF s
    <2> QED
      BY <1>6, <1>7, <2>1
  <1> QED
    BY <1>2, <1>8

\* The tasks of a chain without a day to lose that ends at a task without float have none.
LEMMA NoFloatBefore ==
  ASSUME NEW rows \in SUBSET Row, NEW end, NEW E, NEW L, TwoPasses(rows, end, E, L),
         LeadsFit(rows), Grounded(Edges(rows))
  PROVE  \A n \in Nat \ {0}: \A k:
           IsChain(rows, n, k) /\ ChainDays(k) = E[k[n].task] /\ L[k[n].task] = E[k[n].task]
             => /\ L[k[1].on] = E[k[1].on]
                /\ \A i \in 1..n: L[k[i].task] = E[k[i].task]
  <1> DEFINE Tight(n, k) == /\ IsChain(rows, n, k)
                            /\ ChainDays(k) = E[k[n].task]
                            /\ L[k[n].task] = E[k[n].task]
             Critical1(n, k) == /\ L[k[1].on] = E[k[1].on]
                                /\ \A i \in 1..n: L[k[i].task] = E[k[i].task]
             Bad == {n \in Nat \ {0}: \E k: Tight(n, k) /\ ~Critical1(n, k)}
  <1>1. SUFFICES ASSUME Bad # {}
                 PROVE  FALSE
    OBVIOUS
  <1>2. PICK n \in Bad: \A i \in Bad: n <= i
    <2>1. Bad \in SUBSET Nat
      OBVIOUS
    <2> HIDE DEF Bad
    <2> QED
      BY <1>1, <2>1, LeastNatural
  <1>3. PICK k: Tight(n, k) /\ ~Critical1(n, k)
    BY <1>2
  <1>4. \A r \in rows: /\ r.lag \in Int /\ Duration[r.on] \in Int /\ Duration[r.task] \in Int
                       /\ E[r.on] \in Int /\ L[r.on] \in Int
                       /\ E[r.task] \in Int /\ L[r.task] \in Int
                       /\ Duration[r.on] <= E[r.on]
                       /\ E[r.on] <= L[r.on]
                       /\ E[r.on] + r.lag + Duration[r.task] <= E[r.task]
                       /\ L[r.on] <= L[r.task] - Duration[r.task] - r.lag
    BY AtLeastItself, LateIsLater, Durations DEF TwoPasses, EarlyDays, LateDays
  <1>5. CASE n = 1
    <2> DEFINE r == k[1]
    <2>1. /\ r \in rows
          /\ ChainDays(k) = Duration[r.on] + r.lag + Duration[r.task]
      BY <1>3, <1>5, ChainOfOne
    <2>2. ChainDays(k) = E[r.task] /\ L[r.task] = E[r.task]
      BY <1>3, <1>5
    <2> HIDE DEF r
    <2>3. L[r.on] = E[r.on]
      BY <1>4, <2>1, <2>2
    <2>4. Critical1(1, k)
      BY <2>2, <2>3 DEF r
    <2> QED
      BY <1>3, <1>5, <2>4
  <1>6. CASE n # 1
    <2> DEFINE m == n - 1
               b == Shorter(k, m)
               r == k[m + 1]
    <2>1. m \in Nat \ {0} /\ m + 1 = n /\ ~(n <= m)
      BY <1>2, <1>6
    <2>2. IsChain(rows, m + 1, k)
      BY <1>3, <2>1
    <2>3. ChainDays(k) = E[r.task] /\ L[r.task] = E[r.task]
      BY <1>3, <2>1
    <2> HIDE DEF m
    <2>4. /\ IsChain(rows, m, b)
          /\ k[m].task = r.on /\ r \in rows
          /\ ChainDays(b) \in Int
          /\ ChainDays(k) = ChainDays(b) + r.lag + Duration[r.task]
      BY <2>1, <2>2, ChainOfMore
    <2>5. \A i \in 1..m: b[i] = k[i]
      BY <2>1 DEF Shorter
    <2>6. ChainDays(b) <= E[r.on]
      <3>1. ChainDays(b) <= E[b[m].task]
        BY <2>1, <2>4, ChainsFit DEF TwoPasses
      <3> QED
        BY <2>1, <2>4, <2>5, <3>1
    <2> HIDE DEF b
    <2>7. ChainDays(b) = E[r.on] /\ L[r.on] = E[r.on]
      <3> HIDE DEF r
      <3> QED
        BY <1>4, <2>3, <2>4, <2>6
    <2>8. b[m].task = r.on
      BY <2>1, <2>4, <2>5
    <2>9. Tight(m, b)
      BY <2>4, <2>7, <2>8
    <2>10. m \notin Bad
      BY <1>2, <2>1
    <2>11. Critical1(m, b)
      BY <2>1, <2>9, <2>10
    <2>12. Critical1(n, k)
      <3>1. L[k[1].on] = E[k[1].on] /\ \A i \in 1..m: L[k[i].task] = E[k[i].task]
        BY <2>1, <2>5, <2>11
      <3>2. \A i \in 1..n: i \in 1..m \/ i = m + 1
        BY <2>1
      <3> QED
        BY <2>3, <3>1, <3>2
    <2> QED
      BY <1>3, <2>12
  <1> QED
    BY <1>5, <1>6

\* A chain without a day to lose that leads to a task without float goes on to the end of
\* the project without losing one.
LEMMA GoesOnToTheEnd ==
  ASSUME NEW rows \in SUBSET Row, NEW end, NEW E, NEW L, TwoPasses(rows, end, E, L),
         LeadsFit(rows), Grounded(Edges(rows))
  PROVE  \A t \in Tasks: \A n \in Nat \ {0}: \A k:
           IsChain(rows, n, k) /\ k[n].task = t /\ ChainDays(k) = E[t] /\ L[t] = E[t]
             => \E m \in Nat \ {0}: \E l:
                  /\ IsChain(rows, m, l) /\ ChainDays(l) = end
                  /\ n <= m /\ \A i \in 1..n: l[i] = k[i]
  <1> DEFINE Tight(t, n, k) == /\ IsChain(rows, n, k) /\ k[n].task = t
                               /\ ChainDays(k) = E[t] /\ L[t] = E[t]
             Ends(n, k) == \E m \in Nat \ {0}: \E l:
                             /\ IsChain(rows, m, l) /\ ChainDays(l) = end
                             /\ n <= m /\ \A i \in 1..n: l[i] = k[i]
             U == {t \in Tasks: \E n \in Nat \ {0}: \E k: Tight(t, n, k) /\ ~Ends(n, k)}
  <1>1. SUFFICES ASSUME U # {}
                 PROVE  FALSE
    OBVIOUS
  <1>2. PICK t \in U: \A s \in U: <<s, t>> \notin EdgesBack(rows)
    BY <1>1, GroundedBackwards DEF Grounded
  <1>3. PICK n \in Nat \ {0}: \E k: Tight(t, n, k) /\ ~Ends(n, k)
    BY <1>2
  <1>4. PICK k: Tight(t, n, k) /\ ~Ends(n, k)
    BY <1>3
  <1>5. CASE L[t] = end
    <2>1. Ends(n, k)
      BY <1>4, <1>5
    <2> QED
      BY <1>4, <2>1
  <1>6. ASSUME NEW r \in rows, r.on = t, L[t] = L[r.task] - Duration[r.task] - r.lag
        PROVE  FALSE
    <2> DEFINE s == r.task
               l == Longer(k, n, r)
    <2>1. s \notin U /\ s \in Tasks
      BY <1>2, <1>6, Durations DEF EdgesBack
    <2>2. /\ IsChain(rows, n + 1, l) /\ l[n + 1] = r /\ \A i \in 1..n: l[i] = k[i]
          /\ ChainDays(l) = ChainDays(k) + r.lag + Duration[s]
      BY <1>4, <1>6, ChainGoesOn
    <2> HIDE DEF l
    <2>3. ChainDays(l) = E[s] /\ L[s] = E[s]
      <3>1. E[s] <= L[s] /\ E[t] + r.lag + Duration[s] <= E[s] /\ L[t] = E[t]
            /\ L[t] = L[s] - Duration[s] - r.lag /\ ChainDays(k) = E[t]
        BY <1>4, <1>6, <2>1, LateIsLater DEF TwoPasses, EarlyDays
      <3>2. /\ E[s] \in Int /\ L[s] \in Int /\ E[t] \in Int
            /\ Duration[s] \in Int /\ r.lag \in Int
        BY <1>2, <2>1, Durations DEF TwoPasses, EarlyDays, LateDays
      <3> HIDE DEF s
      <3> QED
        BY <2>2, <3>1, <3>2
    <2>4. Tight(s, n + 1, l)
      BY <2>2, <2>3
    <2>5. n + 1 \in Nat \ {0}
      OBVIOUS
    <2>6. Ends(n + 1, l)
      BY <2>1, <2>4, <2>5
    <2>7. PICK m \in Nat \ {0}: \E h: /\ IsChain(rows, m, h) /\ ChainDays(h) = end
                                      /\ n + 1 <= m /\ \A i \in 1..(n + 1): h[i] = l[i]
      BY <2>6
    <2>8. PICK h: /\ IsChain(rows, m, h) /\ ChainDays(h) = end
                  /\ n + 1 <= m /\ \A i \in 1..(n + 1): h[i] = l[i]
      BY <2>7
    <2>9. n <= m /\ \A i \in 1..n: h[i] = k[i]
      BY <2>2, <2>8
    <2>10. Ends(n, k)
      BY <2>8, <2>9
    <2> QED
      BY <1>4, <2>10
  <1>7. t \in Tasks
    BY <1>2
  <1> QED
    BY <1>5, <1>6, <1>7 DEF TwoPasses, LateDays
\* what the rows and the tasks alone take, and the tasks of a chain
Lengths(rows) == {ChainDays(k): k \in Chains(rows)} \cup {Duration[t]: t \in Tasks}
OnChain(k) == {k[1].on} \cup {k[i].task: i \in DOMAIN k}

LEMMA LongestIsEnd ==
  ASSUME NEW rows \in SUBSET Row, NEW end, NEW E, NEW L, TwoPasses(rows, end, E, L),
         LeadsFit(rows), Grounded(Edges(rows)), NEW last \in Tasks, E[last] = end
  PROVE  Max(Lengths(rows)) = end
  <1>1. \A d \in Lengths(rows): d \in Int /\ d <= end
    <2>1. ASSUME NEW k \in Chains(rows)
          PROVE  ChainDays(k) \in Int /\ ChainDays(k) <= end
      <3>1. PICK n \in Nat \ {0}: IsChain(rows, n, k)
        BY ChainsAre
      <3>2. k[n] \in rows /\ ChainDays(k) \in Int /\ ChainDays(k) <= E[k[n].task]
        BY <3>1, ChainsFit DEF TwoPasses
      <3>3. E[k[n].task] \in Int /\ E[k[n].task] <= end /\ end \in Int
        BY <3>2, Durations DEF TwoPasses, EarlyDays
      <3> QED
        BY <3>2, <3>3
    <2>2. ASSUME NEW t \in Tasks
          PROVE  Duration[t] \in Int /\ Duration[t] <= end
      <3>1. Duration[t] \in Int /\ Duration[t] <= E[t] /\ E[t] \in Int /\ E[t] <= end /\ end \in Int
        BY AtLeastItself, Durations DEF TwoPasses, EarlyDays
      <3> QED
        BY <3>1
    <2> QED
      BY <2>1, <2>2 DEF Lengths
  <1>2. end \in Lengths(rows)
    <2>1. CASE E[last] = Duration[last]
      BY <2>1 DEF Lengths
    <2>2. CASE E[last] # Duration[last]
      <3>1. PICK n \in Nat \ {0}: \E k: IsChain(rows, n, k) /\ ChainDays(k) = E[last]
        BY <2>2, EarliestIsReached DEF TwoPasses
      <3>2. PICK k: IsChain(rows, n, k) /\ ChainDays(k) = E[last]
        BY <3>1
      <3>3. k \in Chains(rows)
        BY <3>2, ChainsAre
      <3> QED
        BY <3>2, <3>3 DEF Lengths
    <2> QED
      BY <2>1, <2>2
  <1> DEFINE m == Max(Lengths(rows))
  <1>3. m = CHOOSE x \in Lengths(rows): \A y \in Lengths(rows): x >= y
    BY DEF Max
  <1>4. \A y \in Lengths(rows): end >= y
    BY <1>1 DEF TwoPasses
  <1>5. m \in Lengths(rows) /\ \A y \in Lengths(rows): m >= y
    BY <1>2, <1>3, <1>4
  <1>6. m >= end /\ m <= end /\ m \in Int /\ end \in Int
    BY <1>1, <1>2, <1>5
  <1> HIDE DEF m
  <1>7. m = end
    BY <1>6
  <1> QED
    BY <1>7 DEF m

LEMMA NoFloatIsOnLongest ==
  ASSUME NEW rows \in SUBSET Row, NEW end, NEW E, NEW L, TwoPasses(rows, end, E, L),
         LeadsFit(rows), Grounded(Edges(rows)), NEW t \in Tasks, L[t] = E[t]
  PROVE  \/ Duration[t] = end
         \/ \E k \in Chains(rows): ChainDays(k) = end /\ t \in OnChain(k)
  <1>1. \A n \in Nat \ {0}: \A k: IsChain(rows, n, k) => k \in Chains(rows) /\ DOMAIN k = 1..n
    BY ChainsAre DEF IsChain
  <1>2. ASSUME NEW s \in Tasks, L[s] = E[s], NEW n \in Nat \ {0}, NEW k,
               IsChain(rows, n, k), k[n].task = s, ChainDays(k) = E[s], t \in OnChain(k)
        PROVE  \E l \in Chains(rows): ChainDays(l) = end /\ t \in OnChain(l)
    <2>1. PICK m \in Nat \ {0}: \E l: /\ IsChain(rows, m, l) /\ ChainDays(l) = end
                                      /\ n <= m /\ \A i \in 1..n: l[i] = k[i]
      BY <1>2, GoesOnToTheEnd
    <2>2. PICK l: /\ IsChain(rows, m, l) /\ ChainDays(l) = end
                  /\ n <= m /\ \A i \in 1..n: l[i] = k[i]
      BY <2>1
    <2>3. DOMAIN l = 1..m /\ DOMAIN k = 1..n /\ 1 \in 1..n /\ l \in Chains(rows)
      BY <1>1, <1>2, <2>2
    <2>4. \A i \in 1..n: i \in 1..m
      BY <2>2
    <2>5. OnChain(k) \subseteq OnChain(l)
      BY <2>2, <2>3, <2>4 DEF OnChain
    <2> QED
      BY <1>2, <2>2, <2>3, <2>5
  <1>3. CASE \E n \in Nat \ {0}: \E k: IsChain(rows, n, k) /\ k[n].task = t /\ ChainDays(k) = E[t]
    <2>1. PICK n \in Nat \ {0}: \E k: IsChain(rows, n, k) /\ k[n].task = t /\ ChainDays(k) = E[t]
      BY <1>3
    <2>2. PICK k: IsChain(rows, n, k) /\ k[n].task = t /\ ChainDays(k) = E[t]
      BY <2>1
    <2>3. t \in OnChain(k)
      BY <1>1, <2>2 DEF OnChain
    <2> QED
      BY <1>2, <2>2, <2>3
  <1>4. CASE E[t] = Duration[t] /\ L[t] = end
    BY <1>4
  <1>5. ASSUME E[t] = Duration[t], NEW r \in rows, r.on = t,
               L[t] = L[r.task] - Duration[r.task] - r.lag
        PROVE  \E k \in Chains(rows): ChainDays(k) = end /\ t \in OnChain(k)
    <2> DEFINE s == r.task
               k == [i \in 1..1 |-> r]
    <2>1. IsChain(rows, 1, k) /\ k[1] = r /\ DOMAIN k = 1..1
      BY DEF IsChain
    <2> HIDE DEF k
    <2>2. ChainDays(k) = Duration[t] + r.lag + Duration[s]
      BY <1>5, <2>1, ChainOfOne
    <2>3. s \in Tasks
      BY Durations
    <2>4. ChainDays(k) = E[s] /\ L[s] = E[s]
      <3>1. E[s] <= L[s] /\ E[t] + r.lag + Duration[s] <= E[s]
            /\ L[t] = L[s] - Duration[s] - r.lag
        BY <1>5, <2>3, LateIsLater DEF TwoPasses, EarlyDays
      <3>2. /\ E[s] \in Int /\ L[s] \in Int /\ E[t] \in Int
            /\ Duration[s] \in Int /\ r.lag \in Int
        BY <2>3, Durations DEF TwoPasses, EarlyDays, LateDays
      <3> HIDE DEF s
      <3> QED
        BY <1>5, <2>2, <3>1, <3>2
    <2>5. t \in OnChain(k)
      BY <1>5, <2>1 DEF OnChain
    <2>6. 1 \in Nat \ {0} /\ k[1].task = s
      BY <2>1
    <2> QED
      BY <1>2, <2>1, <2>3, <2>4, <2>5, <2>6
  <1> QED
    BY <1>3, <1>4, <1>5, EarliestIsReached DEF TwoPasses, LateDays

LEMMA LongestHasNoFloat ==
  ASSUME NEW rows \in SUBSET Row, NEW end, NEW E, NEW L, TwoPasses(rows, end, E, L),
         LeadsFit(rows), Grounded(Edges(rows)), Tasks # {}
  PROVE  /\ \A k \in Chains(rows): ChainDays(k) = end =>
              \A t \in OnChain(k): t \in Tasks /\ L[t] = E[t]
         /\ \A t \in Tasks: Duration[t] = end => L[t] = E[t]
  <1>1. \A t \in Tasks: E[t] = end => L[t] = E[t]
    <2> SUFFICES ASSUME NEW t \in Tasks, E[t] = end
                 PROVE  L[t] = E[t]
      OBVIOUS
    <2>1. E[t] <= L[t] /\ L[t] <= end
      BY LateIsLater
    <2>2. E[t] \in Int /\ L[t] \in Int /\ end \in Int
      BY DEF TwoPasses, EarlyDays, LateDays
    <2> QED
      BY <2>1, <2>2
  <1>2. ASSUME NEW k \in Chains(rows), ChainDays(k) = end
        PROVE  \A t \in OnChain(k): t \in Tasks /\ L[t] = E[t]
    <2>1. PICK n \in Nat \ {0}: IsChain(rows, n, k)
      BY ChainsAre
    <2>2. DOMAIN k = 1..n /\ 1 \in 1..n /\ \A i \in 1..n: k[i] \in rows
      BY <2>1 DEF IsChain
    <2> DEFINE s == k[n].task
    <2>3. s \in Tasks
      BY <2>2, Durations
    <2>4. E[s] = end
      <3>1. end <= E[s] /\ E[s] <= end
        BY <1>2, <2>1, <2>3, ChainsFit DEF TwoPasses
      <3>2. E[s] \in Int /\ end \in Int
        BY <2>3 DEF TwoPasses, EarlyDays
      <3> HIDE DEF s
      <3> QED
        BY <3>1, <3>2
    <2>5. /\ L[k[1].on] = E[k[1].on]
          /\ \A i \in 1..n: L[k[i].task] = E[k[i].task]
      BY <1>1, <1>2, <2>1, <2>3, <2>4, NoFloatBefore
    <2>6. k[1].on \in Tasks /\ \A i \in 1..n: k[i].task \in Tasks
      BY <2>2, Durations
    <2> QED
      BY <2>2, <2>5, <2>6 DEF OnChain
  <1>3. ASSUME NEW t \in Tasks, Duration[t] = end
        PROVE  E[t] = end
    <2>1. Duration[t] <= E[t] /\ E[t] <= end /\ E[t] \in Int /\ end \in Int
      BY AtLeastItself DEF TwoPasses, EarlyDays
    <2> QED
      BY <1>3, <2>1
  <1> QED
    BY <1>1, <1>2, <1>3

LEMMA PassesFindLongest ==
  ASSUME NEW rows \in SUBSET Row, IsFiniteSet(rows), ~HasCycle(rows), LeadsFit(rows)
  PROVE  /\ ProjectEnd(rows) = Max(Lengths(rows))
         /\ Critical(rows) =
              (UNION {OnChain(k): k \in {c \in Chains(rows): ChainDays(c) = Max(Lengths(rows))}})
              \cup {t \in Tasks: Duration[t] = Max(Lengths(rows))}
  <1> DEFINE E == EarlyFinish(rows)
             L == LateFinish(rows)
             end == ProjectEnd(rows)
  <1>1. CASE Tasks = {}
    <2>1. rows = {}
      BY <1>1, Durations
    <2>2. Chains(rows) = {}
      <3>1. Cardinality(Tasks) = 0
        BY <1>1, FS_EmptySet
      <3>2. 0..(Cardinality(Tasks) - 1) = {}
        BY <3>1
      <3> QED
        BY <3>2 DEF Chains, SeqOf
    <2>3. Lengths(rows) = {} /\ {E[t]: t \in Tasks} = {}
      BY <1>1, <2>2 DEF Lengths
    <2>4. ProjectEnd(rows) = Max(Lengths(rows))
      BY <2>3 DEF ProjectEnd
    <2>5. Critical(rows) = {}
      BY <1>1 DEF Critical
    <2> QED
      BY <1>1, <2>2, <2>4, <2>5
  <1>2. CASE Tasks # {}
    <2>1. Grounded(Edges(rows))
      BY AcyclicIsGrounded
    <2>2. EarlyDays(rows, E) /\ LateDays(rows, end, L)
      BY <1>2, <2>1, EarlyFinishDays, LateFinishDays
    <2>3. /\ end \in Int
          /\ \A t \in Tasks: E[t] <= end
          /\ \E t \in Tasks: E[t] = end
      BY <1>2, <2>1, ProjectEndIs
    <2>4. Critical(rows) = {t \in Tasks: L[t] = E[t]}
      BY DEF Critical
    <2> HIDE DEF E, L, end
    <2>5. TwoPasses(rows, end, E, L)
      BY <2>2, <2>3 DEF TwoPasses
    <2>6. Max(Lengths(rows)) = end
      BY <2>1, <2>3, <2>5, LongestIsEnd
    <2>7. ASSUME NEW t \in Tasks, L[t] = E[t]
          PROVE  \/ Duration[t] = end
                 \/ \E k \in Chains(rows): ChainDays(k) = end /\ t \in OnChain(k)
      BY <2>1, <2>5, <2>7, NoFloatIsOnLongest
    <2>8. /\ \A k \in Chains(rows): ChainDays(k) = end =>
               \A t \in OnChain(k): t \in Tasks /\ L[t] = E[t]
          /\ \A t \in Tasks: Duration[t] = end => L[t] = E[t]
      BY <1>2, <2>1, <2>5, LongestHasNoFloat
    <2>9. {t \in Tasks: L[t] = E[t]} =
            (UNION {OnChain(k): k \in {c \in Chains(rows): ChainDays(c) = end}})
            \cup {t \in Tasks: Duration[t] = end}
      BY <2>7, <2>8
    <2> QED
      BY <2>4, <2>6, <2>9 DEF end
  <1> QED
    BY <1>1, <1>2

\* While the dependencies are added and removed one call at a time, and as long as no lead
\* is longer than one of the tasks it is between, the two passes of the critical path find
\* the longest chains: the tasks with no float are those on one, and the project ends when
\* its longest chain does, for any number of tasks, rows, durations, lags and leads.
THEOREM CriticalIsLongest ==
  ASSUME "dependencies" \notin Overlapping
  PROVE  DependencySpec => []CriticalPathIsLongest
  <1>1. DependencyInit /\ call = [c \in Clients |-> Idle] => DependencyInv
    BY DependencyInitially
  <1>2. DependencyInv /\ [DependencyNext]_<<depVars, call>> => DependencyInv'
    <2>1. CASE UNCHANGED <<depVars, call>>
      BY <2>1 DEF depVars, DependencyInv, OneCall, AddsHold, Acyclic, WouldCycle
    <2> QED
      BY <2>1, DependencyStepKeeps
  <1>3. DependencyInv => CriticalPathIsLongest
    <2> SUFFICES ASSUME DependencyInv, LeadsFit(dependencies)
                 PROVE  CriticalPathIsLongest
      BY DEF CriticalPathIsLongest
    <2>1. /\ dependencies \in SUBSET Row /\ IsFiniteSet(dependencies)
          /\ ~HasCycle(dependencies)
      BY AcyclicRows DEF DependencyInv, DependenciesAcyclic
    <2>2. /\ ProjectEnd(dependencies) = Max(Lengths(dependencies))
          /\ Critical(dependencies) =
               (UNION {OnChain(k): k \in {c \in Chains(dependencies):
                                            ChainDays(c) = Max(Lengths(dependencies))}})
               \cup {t \in Tasks: Duration[t] = Max(Lengths(dependencies))}
      BY <2>1, PassesFindLongest
    <2> QED
      BY <2>2 DEF CriticalPathIsLongest, Lengths, OnChain
  <1> QED
    BY <1>1, <1>2, <1>3, PTL DEF DependencySpec
-----------------------------------------------------------------------------
(* Types *)

DependencyTyped ==
  /\ status \in [Tasks -> TaskStatuses \cup {"todo", "approved"}]
  /\ dependencies \subseteq Row
  /\ rawKeys \in {"property", "column"}
  /\ call \in [Clients -> DependencyCall]

LEMMA DependencyStepTyped ==
  ASSUME DependencyTyped, DependencyNext
  PROVE  DependencyTyped'
  <1>1. PICK c \in Clients:
          \/ \E row \in Row: BeginAddDependency(c, row)
          \/ AddDependency(c)
          \/ \E t, on \in Tasks, type \in DependencyTypes \cup {"any"}:
               RemoveDependency(c, t, on, type)
          \/ \E t \in Tasks, next \in TaskStatuses: BeginSetStatus(c, t, next)
          \/ SetStatus(c)
          \/ \E t \in Tasks: ValidateTask(c, t)
    BY DEF DependencyNext
  <1>2. ASSUME NEW next \in DependencyCall, Goto(c, next)
        PROVE  call' \in [Clients -> DependencyCall]
    BY <1>2 DEF Goto, DependencyTyped
  <1>3. Idle \in DependencyCall
    BY DEF DependencyCall
  <1>4. call[c] \in DependencyCall
    BY DEF DependencyTyped
  <1>5. ASSUME NEW row \in Row, BeginAddDependency(c, row)
        PROVE  DependencyTyped'
    <2>1. WouldCycle(dependencies, row.task, row.on) \in BOOLEAN
      BY DEF WouldCycle, HasCycle
    <2> DEFINE refused == WouldCycle(dependencies, row.task, row.on)
               next == [at |-> "add", row |-> row, refused |-> refused]
    <2>2. Goto(c, next) /\ UNCHANGED depVars
      BY <1>5 DEF BeginAddDependency
    <2>3. next \in DependencyCall
      <3> HIDE DEF refused
      <3> QED
        BY <2>1 DEF DependencyCall, refused
    <2> HIDE DEF next
    <2> QED
      BY <1>2, <2>2, <2>3 DEF DependencyTyped, depVars
  <1>6. CASE AddDependency(c)
    <2>1. call[c].row \in Row
      BY <1>4, <1>6 DEF AddDependency, DependencyCall, Idle
    <2>2. dependencies' \subseteq dependencies \cup {call[c].row}
      BY <1>6 DEF AddDependency
    <2>3. Goto(c, Idle) /\ UNCHANGED <<status, rawKeys>>
      BY <1>6 DEF AddDependency, Return
    <2> QED
      BY <1>2, <1>3, <2>1, <2>2, <2>3 DEF DependencyTyped
  <1>7. ASSUME NEW t \in Tasks, NEW on \in Tasks, NEW type, RemoveDependency(c, t, on, type)
        PROVE  DependencyTyped'
    BY <1>7 DEF RemoveDependency, DependencyTyped
  <1>8. ASSUME NEW t \in Tasks, NEW next \in TaskStatuses, BeginSetStatus(c, t, next)
        PROVE  DependencyTyped'
    <2> DEFINE setting == [at |-> "set_status", task |-> t, status |-> next]
    <2>1. setting \in DependencyCall
      BY DEF DependencyCall
    <2>2. Goto(c, setting) /\ UNCHANGED depVars
      BY <1>8 DEF BeginSetStatus
    <2> HIDE DEF setting
    <2> QED
      BY <1>2, <2>1, <2>2 DEF DependencyTyped, depVars
  <1>9. CASE SetStatus(c)
    <2>1. call[c].task \in Tasks /\ call[c].status \in TaskStatuses
      BY <1>4, <1>9 DEF SetStatus, DependencyCall, Idle
    <2>2. /\ status' = [status EXCEPT ![call[c].task] = call[c].status]
          /\ Goto(c, Idle) /\ UNCHANGED <<dependencies, rawKeys>>
      BY <1>9 DEF SetStatus, Return
    <2> QED
      BY <1>2, <1>3, <2>1, <2>2 DEF DependencyTyped
  <1>10. ASSUME NEW t \in Tasks, ValidateTask(c, t)
         PROVE  DependencyTyped'
    BY <1>10 DEF ValidateTask, DependencyTyped
  <1> QED
    BY <1>1, <1>5, <1>6, <1>7, <1>8, <1>9, <1>10

\* Whatever calls are in flight at the same time, the rows are rows of the project's tasks
\* and the statuses those a client sends, or that of a validation.
THEOREM DependenciesAreTyped == DependencySpec => []DependencyTypeOK
  <1>1. DependencyInit /\ call = [c \in Clients |-> Idle] => DependencyTyped
    BY DEF DependencyInit, DependencyTyped, DependencyCall
  <1>2. DependencyTyped /\ [DependencyNext]_<<depVars, call>> => DependencyTyped'
    <2>1. CASE UNCHANGED <<depVars, call>>
      BY <2>1 DEF depVars, DependencyTyped
    <2> QED
      BY <2>1, DependencyStepTyped
  <1>3. DependencyTyped => DependencyTypeOK
    BY DEF DependencyTyped, DependencyTypeOK
  <1> QED
    BY <1>1, <1>2, <1>3, PTL DEF DependencySpec
=============================================================================
