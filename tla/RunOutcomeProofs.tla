--------------------------- MODULE RunOutcomeProofs ---------------------------
(***************************************************************************)
(* What the status tells of a run, for every number of TaskRuns, every     *)
(* length of their messages and every list of results.                     *)
(*                                                                         *)
(* The loops of the code are folds, whose values no induction theorem of   *)
(* the library reaches here.  Each is compared with a closed form instead: *)
(* the closed form satisfies the equation of the fold, so the fold does;   *)
(* and of the sets at which the two differ there is no smallest one.       *)
(***************************************************************************)
EXTENDS RunOutcome, FiniteSetTheorems, TLAPS

Smaller(r, s) == r \subseteq s /\ r # s

(* A set of sets of indices that is not empty has a smallest one.          *)
LEMMA SmallestSet ==
    ASSUME NEW n \in Nat, NEW T, T \subseteq SUBSET (1..n), T # {}
    PROVE  \E s \in T : \A r \in T : ~Smaller(r, s)
<1> DEFINE S == 1..n
           R == StrictSubsetOrdering(S)
<1>1. IsFiniteSet(S)
  BY FS_Interval
<1>2. FiniteSubsetsOf(S) = SUBSET S
  BY <1>1, FS_FiniteSubsetsOfFinite
<1>3. IsWellFoundedOn(R, SUBSET S)
  BY <1>2, FS_StrictSubsetOrderingWellFounded
<1> HIDE DEF R
<1>4. PICK s \in T : \A r \in T : ~(<<r, s>> \in R)
  BY <1>3, WFMin
<1>5. \A r \in T : Smaller(r, s) => <<r, s>> \in R
  BY <1>4 DEF R, StrictSubsetOrdering, Smaller
<1> QED BY <1>4, <1>5

(* A set of indices that is not empty has a greatest one.                  *)
LEMMA MaxIndex ==
    ASSUME NEW n \in Nat, NEW s \in SUBSET (1..n), s # {}
    PROVE  Max(s) \in s /\ \A i \in s : i <= Max(s)
<1> DEFINE Bounds == {m \in 0..n : s \subseteq 1..m}
           T == {1..m : m \in Bounds}
<1>1. n \in Bounds
  OBVIOUS
<1>2. T \subseteq SUBSET (1..n) /\ T # {}
  BY <1>1
<1> HIDE DEF T
<1>3. PICK t \in T : \A r \in T : ~Smaller(r, t)
  BY <1>2, SmallestSet
<1>4. PICK m \in Bounds : t = 1..m
  BY <1>3 DEF T
<1>5. m \in s
  <2> SUFFICES ASSUME m \notin s PROVE FALSE
    OBVIOUS
  <2>1. \A i \in s : i \in 1..(m - 1)
    BY <1>4
  <2>2. m \in 1..n /\ m - 1 \in 0..n
    <3>1. PICK i : i \in s
      OBVIOUS
    <3>2. i \in 1..(m - 1) /\ m \in 0..n
      BY <2>1, <3>1
    <3> QED BY <3>2
  <2>3. m - 1 \in Bounds
    BY <2>1, <2>2
  <2>4. 1..(m - 1) \subseteq 1..m /\ m \in 1..m /\ m \notin 1..(m - 1)
    BY <2>2
  <2>5. 1..(m - 1) \in T /\ Smaller(1..(m - 1), t)
    BY <1>4, <2>3, <2>4 DEF T, Smaller
  <2> QED BY <1>3, <2>5
<1>6. m \in s /\ \A i \in s : m >= i
  BY <1>4, <1>5
<1>7. Max(s) \in s /\ \A i \in s : Max(s) >= i
  BY <1>6 DEF Max
<1> QED BY <1>7

-----------------------------------------------------------------------------
(* The results of a run.                                                   *)

Strings(list, s) == {i \in s : list[i].type = "string"}
Named(list, s, name) == {i \in Strings(list, s) : list[i].name = name}

(* The string results among those at s: of two with one name the last.     *)
ResultsAt(list, s) ==
    [name \in {list[i].name : i \in Strings(list, s)} |->
        list[Max(Named(list, s, name))].value]

(* One turn of the loop.                                                   *)
Collect(map, result) ==
    IF result.type = "string"
    THEN [n \in DOMAIN map \cup {result.name} |->
            IF n = result.name THEN result.value ELSE map[n]]
    ELSE map

IsCollected(list, f) ==
    f = [s \in SUBSET DOMAIN list |->
            IF s = {} THEN [n \in {} |-> ""]
            ELSE Collect(f[s \ {Max(s)}], list[Max(s)])]

LEMMA LoopOverResults ==
    ASSUME NEW list, NEW g, IsCollected(list, g)
    PROVE  \E f : IsCollected(list, f) /\ GetResultsFromPipelineRun(list) = f[DOMAIN list]
BY DEF GetResultsFromPipelineRun, FoldLeft, MapThenFoldSet, IsCollected, Collect

(* What the last index adds.                                               *)
LEMMA ResultsStep ==
    ASSUME NEW n \in Nat, NEW list, NEW s \in SUBSET (1..n), s # {}
    PROVE  ResultsAt(list, s) = Collect(ResultsAt(list, s \ {Max(s)}), list[Max(s)])
<1> DEFINE x == Max(s)
           rest == s \ {x}
           new == list[x].name
<1>1. x \in s /\ \A i \in s : i <= x
  BY MaxIndex
<1> HIDE DEF x
<1>2. CASE list[x].type # "string"
  <2>1. Strings(list, s) = Strings(list, rest)
    BY <1>2 DEF Strings
  <2>2. ResultsAt(list, s) = ResultsAt(list, rest)
    BY <2>1 DEF ResultsAt, Named
  <2> QED BY <1>2, <2>2 DEF Collect, x
<1>3. CASE list[x].type = "string"
  <2>1. Strings(list, s) = Strings(list, rest) \cup {x}
    BY <1>1, <1>3 DEF Strings
  <2>2. \A name : name # new => Named(list, s, name) = Named(list, rest, name)
    BY <2>1 DEF Named
  <2>3. Max(Named(list, s, new)) = x
    <3>1. Named(list, s, new) \in SUBSET (1..n) /\ x \in Named(list, s, new)
      BY <1>1, <1>3 DEF Named, Strings
    <3>2. /\ Max(Named(list, s, new)) \in Named(list, s, new)
          /\ x <= Max(Named(list, s, new))
      BY <3>1, MaxIndex
    <3>3. /\ x \in 1..n /\ Max(Named(list, s, new)) \in 1..n
          /\ Max(Named(list, s, new)) <= x
      BY <1>1, <3>2 DEF Named, Strings
    <3> QED BY <3>2, <3>3
  <2>4. DOMAIN ResultsAt(list, rest) \cup {new} = {list[i].name : i \in Strings(list, s)}
    BY <2>1 DEF ResultsAt
  <2>5. \A name \in DOMAIN ResultsAt(list, rest) :
          name # new => ResultsAt(list, rest)[name] = list[Max(Named(list, s, name))].value
    BY <2>2 DEF ResultsAt
  <2>6. Collect(ResultsAt(list, rest), list[x])
          = [name \in {list[i].name : i \in Strings(list, s)} |->
                IF name = new THEN list[x].value ELSE ResultsAt(list, rest)[name]]
    BY <1>3, <2>4 DEF Collect
  <2>7. Collect(ResultsAt(list, rest), list[x]) = ResultsAt(list, s)
    BY <2>3, <2>4, <2>5, <2>6 DEF ResultsAt
  <2> QED BY <2>7 DEF x
<1> QED BY <1>2, <1>3

LEMMA ResultsClosedForm ==
    ASSUME NEW list, list \in Seq(ToSet(list))
    PROVE  GetResultsFromPipelineRun(list) = ResultsAt(list, DOMAIN list)
<1> DEFINE n == Len(list)
           g == [s \in SUBSET (1..n) |-> ResultsAt(list, s)]
<1>1. n \in Nat /\ DOMAIN list = 1..n
  OBVIOUS
<1> HIDE DEF n
<1>2. ResultsAt(list, {}) = [name \in {} |-> ""]
  BY DEF ResultsAt, Strings
<1>3. \A s \in SUBSET (1..n) :
        ResultsAt(list, s) = IF s = {} THEN [name \in {} |-> ""]
                             ELSE Collect(g[s \ {Max(s)}], list[Max(s)])
  BY <1>1, <1>2, ResultsStep
<1>4. IsCollected(list, g)
  BY <1>1, <1>3 DEF IsCollected
<1>5. PICK f : IsCollected(list, f) /\ GetResultsFromPipelineRun(list) = f[DOMAIN list]
  BY <1>4, LoopOverResults
<1> HIDE DEF g
<1> DEFINE T == {s \in SUBSET (1..n) : f[s] # ResultsAt(list, s)}
<1>6. T = {}
  <2> SUFFICES ASSUME T # {} PROVE FALSE
    OBVIOUS
  <2>1. PICK s \in T : \A r \in T : ~Smaller(r, s)
    BY <1>1, SmallestSet
  <2>2. f[s] = IF s = {} THEN [name \in {} |-> ""]
               ELSE Collect(f[s \ {Max(s)}], list[Max(s)])
    BY <1>1, <1>5 DEF IsCollected
  <2>3. s # {}
    BY <1>2, <2>2
  <2>4. Max(s) \in s
    BY <1>1, <2>3, MaxIndex
  <2>5. Smaller(s \ {Max(s)}, s)
    BY <2>4 DEF Smaller
  <2>6. f[s \ {Max(s)}] = ResultsAt(list, s \ {Max(s)})
    BY <2>1, <2>5
  <2> QED BY <1>1, <2>2, <2>3, <2>6, ResultsStep
<1>7. f[1..n] = ResultsAt(list, 1..n)
  BY <1>6
<1> QED BY <1>1, <1>5, <1>7

-----------------------------------------------------------------------------
(* The length of a message: a sum of lengths counts cells, so many for     *)
(* each index.                                                             *)

Column(sizes, i) == {i} \X (1..sizes[i])
Cells(sizes, s) == UNION {Column(sizes, i) : i \in s}

LEMMA ColumnSize ==
    ASSUME NEW sizes, NEW i, sizes[i] \in Nat
    PROVE  IsFiniteSet(Column(sizes, i)) /\ Cardinality(Column(sizes, i)) = sizes[i]
<1> DEFINE k == sizes[i]
           f == [j \in 1..k |-> <<i, j>>]
<1>1. k \in Nat
  OBVIOUS
<1>2. Column(sizes, i) = {i} \X (1..k)
  BY DEF Column
<1> HIDE DEF k
<1>3. f \in Bijection(1..k, {i} \X (1..k))
  BY DEF Bijection, Injection, Surjection, IsInjective
<1>4. ExistsBijection(1..k, Column(sizes, i))
  BY <1>2, <1>3 DEF ExistsBijection
<1>5. Cardinality(Column(sizes, i)) = k
  BY <1>1, <1>4, FS_CountingElements
<1>6. IsFiniteSet(Column(sizes, i))
  BY <1>1, <1>4, FS_NatBijection
<1> QED BY <1>5, <1>6 DEF k

LEMMA CellsStep ==
    ASSUME NEW sizes, NEW s, NEW x \in s
    PROVE  /\ Cells(sizes, s) = Cells(sizes, s \ {x}) \cup Column(sizes, x)
           /\ Cells(sizes, s \ {x}) \cap Column(sizes, x) = {}
BY DEF Cells, Column

LEMMA DisjointUnion ==
    ASSUME NEW A, NEW B, IsFiniteSet(A), IsFiniteSet(B), A \cap B = {}
    PROVE  /\ IsFiniteSet(A \cup B)
           /\ Cardinality(A \cup B) = Cardinality(A) + Cardinality(B)
<1>1. Cardinality(A) \in Nat /\ Cardinality(B) \in Nat
  BY FS_CardinalityType
<1>2. Cardinality(A \cap B) = 0
  BY FS_EmptySet
<1>3. /\ IsFiniteSet(A \cup B)
      /\ Cardinality(A \cup B) = Cardinality(A) + Cardinality(B) - Cardinality(A \cap B)
  BY FS_Union
<1> QED BY <1>1, <1>2, <1>3

LEMMA CellsFinite ==
    ASSUME NEW n \in Nat, NEW sizes \in [1..n -> Nat], NEW s \in SUBSET (1..n)
    PROVE  IsFiniteSet(Cells(sizes, s))
<1> DEFINE T == {r \in SUBSET (1..n) : ~IsFiniteSet(Cells(sizes, r))}
<1> SUFFICES ASSUME T # {} PROVE FALSE
  OBVIOUS
<1>1. PICK r \in T : \A q \in T : ~Smaller(q, r)
  BY SmallestSet
<1>2. r # {}
  BY FS_EmptySet DEF Cells
<1>3. PICK x \in r : TRUE
  BY <1>2
<1>4. Smaller(r \ {x}, r)
  BY DEF Smaller
<1>5. IsFiniteSet(Cells(sizes, r \ {x}))
  BY <1>1, <1>4
<1>6. IsFiniteSet(Column(sizes, x))
  BY ColumnSize
<1>7. IsFiniteSet(Cells(sizes, r \ {x}) \cup Column(sizes, x))
  BY <1>5, <1>6, FS_Union
<1>8. Cells(sizes, r) = Cells(sizes, r \ {x}) \cup Column(sizes, x)
  BY CellsStep
<1> QED BY <1>7, <1>8

IsAdded(sizes, f) ==
    f = [s \in SUBSET DOMAIN sizes |->
            IF s = {} THEN 0 ELSE f[s \ {Max(s)}] + sizes[Max(s)]]

LEMMA LoopOverSizes ==
    ASSUME NEW sizes, NEW g, IsAdded(sizes, g)
    PROVE  \E f : IsAdded(sizes, f) /\ Sum(sizes) = f[DOMAIN sizes]
BY DEF Sum, FoldLeft, MapThenFoldSet, IsAdded

LEMMA SumType ==
    ASSUME NEW n \in Nat, NEW sizes \in [1..n -> Nat]
    PROVE  Sum(sizes) \in Nat /\ (n = 0 => Sum(sizes) = 0)
<1> DEFINE g == [s \in SUBSET (1..n) |-> Cardinality(Cells(sizes, s))]
<1>1. Cardinality(Cells(sizes, {})) = 0
  BY FS_EmptySet DEF Cells
<1>2. ASSUME NEW s \in SUBSET (1..n), s # {}
      PROVE  Cardinality(Cells(sizes, s)) = g[s \ {Max(s)}] + sizes[Max(s)]
  <2> DEFINE x == Max(s)
  <2>1. x \in s
    BY <1>2, MaxIndex
  <2> HIDE DEF x
  <2>2. /\ IsFiniteSet(Cells(sizes, s \ {x}))
        /\ Cardinality(Cells(sizes, s \ {x})) \in Nat
    BY CellsFinite, FS_CardinalityType
  <2>3. IsFiniteSet(Column(sizes, x)) /\ Cardinality(Column(sizes, x)) = sizes[x]
    BY <2>1, ColumnSize
  <2>4. /\ Cells(sizes, s) = Cells(sizes, s \ {x}) \cup Column(sizes, x)
        /\ Cells(sizes, s \ {x}) \cap Column(sizes, x) = {}
    BY <2>1, CellsStep
  <2>5. Cardinality(Cells(sizes, s))
          = Cardinality(Cells(sizes, s \ {x})) + Cardinality(Column(sizes, x))
    BY <2>2, <2>3, <2>4, DisjointUnion
  <2>6. g[s \ {x}] = Cardinality(Cells(sizes, s \ {x}))
    OBVIOUS
  <2>7. Cardinality(Cells(sizes, s)) = g[s \ {x}] + sizes[x]
    BY <2>3, <2>5, <2>6
  <2> QED BY <2>7 DEF x
<1>3. IsAdded(sizes, g)
  BY <1>1, <1>2 DEF IsAdded
<1> HIDE DEF g
<1>4. PICK f : IsAdded(sizes, f) /\ Sum(sizes) = f[DOMAIN sizes]
  BY <1>3, LoopOverSizes
<1>5. /\ f[{}] = 0
      /\ \A s \in SUBSET (1..n) : s # {} => f[s] = f[s \ {Max(s)}] + sizes[Max(s)]
  BY <1>4 DEF IsAdded
<1> DEFINE T == {s \in SUBSET (1..n) : f[s] \notin Nat}
<1>6. T = {}
  <2> SUFFICES ASSUME T # {} PROVE FALSE
    OBVIOUS
  <2>1. PICK s \in T : \A r \in T : ~Smaller(r, s)
    BY SmallestSet
  <2>2. s # {}
    <3>1. f[s] # 0
      OBVIOUS
    <3> QED BY <1>5, <3>1
  <2>3. Max(s) \in s
    BY <2>2, MaxIndex
  <2>4. Smaller(s \ {Max(s)}, s)
    BY <2>3 DEF Smaller
  <2>5. f[s \ {Max(s)}] \in Nat
    BY <2>1, <2>4
  <2>6. sizes[Max(s)] \in Nat
    BY <2>3
  <2>7. f[s] = f[s \ {Max(s)}] + sizes[Max(s)]
    BY <1>5, <2>2
  <2>8. f[s] \in Nat
    BY <2>5, <2>6, <2>7
  <2> QED BY <2>8
<1>7. f[1..n] \in Nat /\ f[{}] = 0
  BY <1>5, <1>6
<1>8. n = 0 => 1..n = {}
  OBVIOUS
<1> QED BY <1>4, <1>7, <1>8

-----------------------------------------------------------------------------
(* The messages.                                                           *)

TaskRun == [state : {"none", "running", "succeeded", "failed"}, size : Nat]

(* The list shows the failed TaskRuns of the cache, in some order.         *)
LEMMA ItemsOfList ==
    ASSUME cached \in [TaskRuns -> TaskRun], NEW items \in ItemOrders
    PROVE  /\ items \in Seq(FailedTaskRuns)
           /\ ToSet(items) \subseteq FailedTaskRuns
<1>1. IsFiniteSet(FailedTaskRuns)
  BY TaskRunsAssumption, FS_Subset DEF FailedTaskRuns
<1>2. Cardinality(FailedTaskRuns) \in Nat
  BY <1>1, FS_CardinalityType
<1>3. items \in [1..Cardinality(FailedTaskRuns) -> FailedTaskRuns]
  BY DEF ItemOrders, SetToSeqs
<1>4. items \in Seq(FailedTaskRuns)
  BY <1>2, <1>3
<1> QED BY <1>3, <1>4 DEF ToSet

LEMMA OffsetType ==
    ASSUME cached \in [TaskRuns -> TaskRun], NEW items \in Seq(FailedTaskRuns),
           NEW i \in 1..Len(items)
    PROVE  Offset(items, i) \in Nat /\ Offset(items, 1) = 0
<1> DEFINE Sizes(m) == [j \in 1..(m - 1) |-> cached[items[j]].size + 2]
<1>1. ASSUME NEW m \in 1..Len(items)
      PROVE  m - 1 \in Nat /\ Sizes(m) \in [1..(m - 1) -> Nat]
  <2>1. \A j \in 1..(m - 1) : items[j] \in TaskRuns
    BY DEF FailedTaskRuns
  <2>2. \A j \in 1..(m - 1) : cached[items[j]].size \in Nat
    BY <2>1 DEF TaskRun
  <2>3. \A j \in 1..(m - 1) : cached[items[j]].size + 2 \in Nat
    BY <2>2
  <2> QED BY <2>3
<1>2. \A m \in 1..Len(items) : Offset(items, m) = Sum(Sizes(m))
  BY DEF Offset
<1>3. 1 \in 1..Len(items) /\ 1 - 1 = 0
  OBVIOUS
<1> HIDE DEF Sizes
<1>4. \A m \in 1..Len(items) : Sum(Sizes(m)) \in Nat /\ (m - 1 = 0 => Sum(Sizes(m)) = 0)
  BY <1>1, SumType
<1> QED BY <1>2, <1>3, <1>4

LEMMA JoinedType ==
    ASSUME cached \in [TaskRuns -> TaskRun], NEW items \in Seq(FailedTaskRuns)
    PROVE  Joined(items) \in Nat
<1>1. CASE items = <<>>
  BY <1>1 DEF Joined
<1>2. CASE items # <<>>
  <2>1. Len(items) \in 1..Len(items) /\ items[Len(items)] \in TaskRuns
    BY <1>2 DEF FailedTaskRuns
  <2>2. cached[items[Len(items)]].size \in Nat
    BY <2>1 DEF TaskRun
  <2>3. Offset(items, Len(items)) \in Nat
    BY <2>1, OffsetType
  <2> QED BY <1>2, <2>2, <2>3 DEF Joined
<1> QED BY <1>1, <1>2

(* What a message that the worker computes is like.                        *)
IsMessage(message) ==
    /\ message.bytes \in Nat
    /\ message.bytes <= IF message.source = "TaskRuns" THEN 4096 + 6 ELSE MaxLength
    /\ message.source = "TaskRuns"
       => message.named # {} /\ message.named \subseteq FailedTaskRuns

LEMMA MessageFields ==
    ASSUME NEW source, NEW named, NEW bytes
    PROVE  /\ Message(source, named, bytes).source = source
           /\ Message(source, named, bytes).named = named
           /\ Message(source, named, bytes).bytes = bytes
BY DEF Message

LEMMA MessagesAreRight ==
    ASSUME cached \in [TaskRuns -> TaskRun],
           NEW items \in ItemOrders \cup {<<>>}, NEW message \in FailureMessages(items)
    PROVE  IsMessage(message)
<1>1. CASE items = <<>>
  <2>1. message = Message("PipelineRun", {}, GenericSize)
    BY <1>1 DEF FailureMessages
  <2>2. message.source = "PipelineRun" /\ message.bytes = GenericSize
    BY <2>1, MessageFields
  <2>3. message.bytes \in Nat /\ message.bytes <= MaxLength
    BY <2>2, GenericAssumption DEF MaxLength
  <2> QED BY <2>2, <2>3 DEF IsMessage
<1>2. CASE items # <<>>
  <2>1. items \in Seq(FailedTaskRuns) /\ ToSet(items) \subseteq FailedTaskRuns
    BY <1>2, ItemsOfList
  <2>2. message \in failedTaskRunMessage(items)
    BY <1>2 DEF FailureMessages
  <2>3. 1 \in DOMAIN items /\ items[1] \in ToSet(items)
    BY <1>2, <2>1 DEF ToSet
  <2>4. Joined(items) \in Nat
    BY <2>1, JoinedType
  <2>5. CASE Joined(items) <= 4096
    <3>1. message = Message("TaskRuns", ToSet(items), Joined(items))
      BY <2>2, <2>5 DEF failedTaskRunMessage
    <3>2. Joined(items) <= 4096 + 6 /\ ToSet(items) # {}
      BY <2>3, <2>4, <2>5
    <3> QED BY <2>1, <2>4, <3>1, <3>2, MessageFields DEF IsMessage
  <2>6. CASE ~(Joined(items) <= 4096)
    <3> DEFINE kept == {i \in DOMAIN items : Offset(items, i) < 4081}
               named == {items[i] : i \in kept}
    <3>1. PICK rest \in 0..3 :
            message = Message("TaskRuns", named, 4081 - rest + 3 * rest + 15)
      BY <2>2, <2>6 DEF failedTaskRunMessage
    <3>2. Offset(items, 1) = 0
      BY <2>1, <2>3, OffsetType
    <3>3. items[1] \in named
      BY <2>3, <3>2
    <3>4. named \subseteq FailedTaskRuns
      BY <2>1 DEF ToSet
    <3> HIDE DEF named
    <3>5. /\ 4081 - rest + 3 * rest + 15 \in Nat
          /\ 4081 - rest + 3 * rest + 15 <= 4096 + 6
      OBVIOUS
    <3> QED BY <3>1, <3>3, <3>4, <3>5, MessageFields DEF IsMessage
  <2> QED BY <2>5, <2>6
<1> QED BY <1>1, <1>2

-----------------------------------------------------------------------------
(* The worker's report.                                                    *)

(* A failed TaskRun stays failed, so that what the cache says of it is     *)
(* true however late it is; a run that is done changes no more, so that    *)
(* its results are still the ones that were reported.                      *)
NamesTaskRuns ==
    HasReport("failed") /\ report.message.source = "TaskRuns"
    => report.message.named \subseteq TaskRuns

OutcomeInv ==
    /\ taskRuns \in [TaskRuns -> TaskRun]
    /\ cached \in [TaskRuns -> TaskRun]
    /\ \A t \in TaskRuns : cached[t].state = "failed" => taskRuns[t].state = "failed"
    /\ run.phase = "succeeded" => run.results \in ResultLists
    /\ report # NoReport => run.phase # "active"
    /\ NamesTaskRuns
    /\ MessageFits
    /\ CauseIsTrue
    /\ ResultsAreReported

LEMMA ReportFields ==
    ASSUME NEW x
    PROVE  /\ Succeeded(x).outcome = "succeeded" /\ Succeeded(x).results = x
           /\ Failed(x).outcome = "failed" /\ Failed(x).message = x
BY DEF Succeeded, Failed

LEMMA ReportStep ==
    ASSUME OutcomeInv, registerInternalRequestPipelineRunStatus
    PROVE  OutcomeInv'
<1>1. /\ UNCHANGED <<run, taskRuns, cached>> /\ run.phase # "active" /\ report = NoReport
      /\ cached \in [TaskRuns -> TaskRun]
  BY DEF registerInternalRequestPipelineRunStatus, OutcomeInv
<1>2. PICK listFails, new : new \in Reports(listFails) /\ (report' = new \/ UNCHANGED report)
  BY DEF registerInternalRequestPipelineRunStatus
<1>3. CASE UNCHANGED report
  BY <1>1, <1>3 DEF OutcomeInv, NamesTaskRuns, MessageFits, CauseIsTrue, ResultsAreReported, HasReport
<1>4. CASE report' = new /\ run.phase = "succeeded"
  <2> DEFINE list == run.results
             results == GetResultsFromPipelineRun(list)
  <2>1. list \in Seq(ToSet(list))
    BY <1>4, ResultListsAssumption DEF OutcomeInv
  <2>2. report' = Succeeded(results)
    BY <1>2, <1>4 DEF Reports
  <2>3. results = ResultsAt(list, DOMAIN list)
    BY <2>1, ResultsClosedForm
  <2>4. report'.outcome = "succeeded" /\ report'.results = ResultsAt(list, DOMAIN list)
    BY <2>2, <2>3, ReportFields
  <2> HIDE DEF list, results
  <2>5. DOMAIN ResultsAt(list, DOMAIN list)
          = {list[i].name : i \in {j \in DOMAIN list : list[j].type = "string"}}
    BY DEF ResultsAt, Strings
  <2>6. ASSUME NEW n \in DOMAIN ResultsAt(list, DOMAIN list)
        PROVE  \E i \in {k \in DOMAIN list : list[k].name = n /\ list[k].type = "string"} :
                 /\ ResultsAt(list, DOMAIN list)[n] = list[i].value
                 /\ \A j \in {k \in DOMAIN list : list[k].name = n
                                                  /\ list[k].type = "string"} : j <= i
    <3> DEFINE I == Named(list, DOMAIN list, n)
               i == Max(I)
    <3>1. I = {k \in DOMAIN list : list[k].name = n /\ list[k].type = "string"}
      BY DEF Named, Strings
    <3>2. Len(list) \in Nat /\ I \in SUBSET (1..Len(list)) /\ I # {}
      BY <2>1, <2>5, <2>6, <3>1
    <3> HIDE DEF I
    <3>3. i \in I /\ \A j \in I : j <= i
      BY <3>2, MaxIndex
    <3>4. ResultsAt(list, DOMAIN list)[n] = list[i].value
      BY <2>6 DEF ResultsAt, I
    <3> HIDE DEF i
    <3> QED BY <3>1, <3>3, <3>4
  <2>7. ResultsAreReported'
    BY <1>1, <2>4, <2>5, <2>6 DEF ResultsAreReported, HasReport, list
  <2>8. NamesTaskRuns' /\ MessageFits' /\ CauseIsTrue'
    BY <2>4 DEF NamesTaskRuns, MessageFits, CauseIsTrue, HasReport
  <2> QED BY <1>1, <2>7, <2>8 DEF OutcomeInv
<1>5. CASE report' = new /\ run.phase # "succeeded"
  <2>1. PICK items \in ItemOrders \cup {<<>>} :
          \E m \in FailureMessages(items) : new = Failed(m)
    BY <1>2, <1>5 DEF Reports
  <2>2. PICK message \in FailureMessages(items) : new = Failed(message)
    BY <2>1
  <2>3. IsMessage(message)
    BY <1>1, MessagesAreRight
  <2>4. report'.outcome = "failed" /\ report'.message = message
    BY <1>5, <2>2, ReportFields
  <2>5. MessageFits'
    BY <2>3, <2>4 DEF MessageFits, IsMessage
  <2>6. \A t \in FailedTaskRuns : taskRuns[t].state = "failed"
    BY DEF FailedTaskRuns, HasFailed, OutcomeInv
  <2>7. NamesTaskRuns' /\ CauseIsTrue'
    BY <1>1, <2>3, <2>4, <2>6 DEF NamesTaskRuns, CauseIsTrue, IsMessage, FailedTaskRuns
  <2>8. ResultsAreReported'
    BY <2>4 DEF ResultsAreReported, HasReport
  <2> QED BY <1>1, <2>5, <2>7, <2>8 DEF OutcomeInv
<1> QED BY <1>2, <1>3, <1>4, <1>5

(* Tekton and the watch write no report, and change nothing that one says. *)
LEMMA SurroundingsStep ==
    ASSUME OutcomeInv, UNCHANGED report,
           EndRun \/ \E t \in TaskRuns : StartTaskRun(t) \/ EndTaskRun(t) \/ DeliverTaskRun(t)
    PROVE  OutcomeInv'
<1>1. taskRuns \in [TaskRuns -> TaskRun] /\ cached \in [TaskRuns -> TaskRun]
  BY DEF OutcomeInv
<1>2. CASE EndRun
  <2>1. report = NoReport
    BY <1>2 DEF EndRun, OutcomeInv
  <2>2. NamesTaskRuns' /\ MessageFits' /\ CauseIsTrue' /\ ResultsAreReported'
    BY <2>1 DEF NamesTaskRuns, MessageFits, CauseIsTrue, ResultsAreReported, HasReport
  <2>3. /\ UNCHANGED <<taskRuns, cached>>
        /\ run'.phase = "succeeded" => run'.results \in ResultLists
    BY <1>2 DEF EndRun
  <2> QED BY <1>1, <2>1, <2>2, <2>3 DEF OutcomeInv
<1>3. ASSUME NEW t \in TaskRuns, StartTaskRun(t) \/ EndTaskRun(t) \/ DeliverTaskRun(t)
      PROVE  OutcomeInv'
  <2>1. /\ UNCHANGED run
        /\ taskRuns' \in [TaskRuns -> TaskRun] /\ cached' \in [TaskRuns -> TaskRun]
    <3>1. CASE StartTaskRun(t)
      BY <1>1, <3>1 DEF StartTaskRun, TaskRun
    <3>2. CASE EndTaskRun(t)
      BY <1>1, <3>2, EntrySizesAssumption DEF EndTaskRun, TaskRun
    <3>3. CASE DeliverTaskRun(t)
      BY <1>1, <3>3 DEF DeliverTaskRun, TaskRun
    <3> QED BY <1>3, <3>1, <3>2, <3>3
  <2>2. \A u \in TaskRuns : taskRuns[u].state = "failed" => taskRuns'[u].state = "failed"
    BY <1>1, <1>3 DEF StartTaskRun, EndTaskRun, DeliverTaskRun, TaskRun
  <2>3. \A u \in TaskRuns : cached'[u] = cached[u] \/ cached'[u] = taskRuns[u]
    BY <1>1, <1>3 DEF StartTaskRun, EndTaskRun, DeliverTaskRun
  <2>4. \A u \in TaskRuns : cached'[u].state = "failed" => taskRuns'[u].state = "failed"
    BY <2>2, <2>3 DEF OutcomeInv
  <2>5. CauseIsTrue'
    BY <2>2 DEF OutcomeInv, NamesTaskRuns, CauseIsTrue, HasReport
  <2>6. NamesTaskRuns' /\ MessageFits' /\ ResultsAreReported'
    BY <2>1 DEF OutcomeInv, NamesTaskRuns, MessageFits, ResultsAreReported, HasReport
  <2> QED BY <2>1, <2>4, <2>5, <2>6 DEF OutcomeInv
<1> QED BY <1>2, <1>3

(* What the cache says of a failed TaskRun is true, a run that was         *)
(* reported changes no more, and the report is right.                      *)
THEOREM OutcomeCorrect == Spec => []OutcomeInv
<1>1. Init => OutcomeInv
  BY DEF Init, OutcomeInv, TaskRun, NamesTaskRuns, MessageFits, CauseIsTrue,
         ResultsAreReported, HasReport
<1>2. ASSUME OutcomeInv, [Next]_vars PROVE OutcomeInv'
  <2>1. CASE registerInternalRequestPipelineRunStatus
    BY <1>2, <2>1, ReportStep
  <2>2. CASE EndRun
    BY <1>2, <2>2, SurroundingsStep DEF EndRun
  <2>3. ASSUME NEW t \in TaskRuns, StartTaskRun(t) \/ EndTaskRun(t) \/ DeliverTaskRun(t)
        PROVE  OutcomeInv'
    BY <1>2, <2>3, SurroundingsStep DEF StartTaskRun, EndTaskRun, DeliverTaskRun
  <2>4. CASE UNCHANGED vars
    BY <1>2, <2>4
    DEF vars, OutcomeInv, NamesTaskRuns, MessageFits, CauseIsTrue, ResultsAreReported, HasReport
  <2> QED BY <1>2, <2>1, <2>2, <2>3, <2>4 DEF Next
<1> QED BY <1>1, <1>2, PTL DEF Spec

(* The stored message never exceeds what the API server accepts, however   *)
(* many TaskRuns failed and however much each has to say.                  *)
THEOREM MessagesFit == Spec => []MessageFits
<1>1. OutcomeInv => MessageFits
  BY DEF OutcomeInv
<1> QED BY <1>1, OutcomeCorrect, PTL

(* A message from TaskRuns names only TaskRuns that failed, and one at     *)
(* least, whatever the cache showed and wherever the message was cut.      *)
THEOREM CausesAreTrue == Spec => []CauseIsTrue
<1>1. OutcomeInv => CauseIsTrue
  BY DEF OutcomeInv
<1> QED BY <1>1, OutcomeCorrect, PTL

(* The loop over the results reports, for every list of them, the last of  *)
(* each name that is a string, and nothing else.                           *)
THEOREM ResultsAreTheRuns == Spec => []ResultsAreReported
<1>1. OutcomeInv => ResultsAreReported
  BY DEF OutcomeInv
<1> QED BY <1>1, OutcomeCorrect, PTL
=============================================================================
