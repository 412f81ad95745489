--------------------------- MODULE ThreadFsmProofs ---------------------------
(***************************************************************************)
(* Proofs about the state machine of a clocked thread, for every set of     *)
(* threads, any number of wait() calls and every order in which they are    *)
(* found: the generated module stays in step with the thread.               *)
(***************************************************************************)
EXTENDS ThreadFsm, FiniteSetTheorems, WellFoundedInduction, TLAPS

-----------------------------------------------------------------------------
(* The inductive invariant. *)

\* Constant propagation: each wait() found has one ID, and wherever a path
\* leads is found already or is still to be found.
StatesInv ==
    /\ prog \in Programs
    /\ statesVec \in Seq(Waits)
    /\ \A j, k \in 1 .. Len(statesVec) : statesVec[j] = statesVec[k] => j = k
    /\ statesVec # <<>> => statesVec[1] = prog.first
PathsInv ==
    /\ pending \subseteq {ResetPath} \cup (Found \X Inputs)
    /\ ResetPath \in pending <=> statesVec = <<>>
    /\ statesVec # <<>> => prog.first \in Found
    /\ \A w \in Found, input \in Inputs :
          prog.code[w][input].next \in Found \/ <<w, input>> \in pending
\* The members about wait(N) say what was found.
WaitNInv ==
    /\ maxWaitN \in 0 .. MaxNumber
    /\ \A w \in Found : prog.N[w] > 1 => prog.N[w] <= maxWaitN
    /\ waitNSet # {} <=> \E w \in Found : prog.N[w] > 1
    /\ firstWaitN <=> (statesVec # <<>> /\ prog.N[prog.first] > 1)
AnalysisInv == StatesInv /\ PathsInv /\ WaitNInv

\* Code generation: two states with one branch do the same, and a single state
\* does what each of them does, unless several were taken for it, and counts
\* with no counter of its own.
SameState(v, w) == prog.code[v] = prog.code[w] /\ (prog.int[v] <=> prog.int[w])
MergeInv(replaced, single) ==
    /\ replaced \in [IDs -> IDs] /\ replaced[0] = 0
    /\ \A id \in IDs : /\ replaced[replaced[id]] = replaced[id]
                       /\ SameState(Wait(replaced[id]), Wait(id))
    /\ OneSuccessor => single
    /\ single => /\ \A w \in Found : prog.N[w] = 1
                 /\ ~MistakenSingle => \A w \in Found : prog.code[w] = prog.code[Wait(0)]
                 /\ prog.int[prog.first] => CounterShared

\* Neither of the threads that the module is known not to follow.
Covered == ~WaitOneFirst /\ ~CountsShared /\ ~MistakenSingle

\* The two executions.
RunInv ==
    /\ pending = {} /\ ~CounterMissing
    /\ MergeInv(replacedStates, isSingleState)
    /\ at \in Found /\ left \in 1 .. prog.N[at]

IInv == /\ AnalysisInv
        /\ phase = "run" => RunInv
        /\ InStep

-----------------------------------------------------------------------------
(* Arithmetic and sets. *)

\* A value that fits a register is stored as it is.
LEMMA ModSmall ==
    ASSUME NEW x \in Nat, NEW v \in Nat, x < v
    PROVE  x % v = x
  OBVIOUS

\* A nonempty set of IDs has a least element.
LEMMA LeastID ==
    ASSUME NEW S, S \subseteq Nat, S # {}
    PROVE  \E i \in S : \A j \in S : i <= j
<1>1. PICK i \in S : \A j \in S : ~ (<<j, i>> \in OpToRel(<, Nat))
  BY NatLessThanWellFounded, WFMin, Zenon
<1>2. ASSUME NEW j \in S PROVE i <= j
  <2>1. ~ (<<j, i>> \in OpToRel(<, Nat))
    BY <1>1
  <2>2. i \in Nat /\ j \in Nat
    OBVIOUS
  <2>3. ~ (j < i)
    BY <2>1, <2>2 DEF OpToRel
  <2> QED BY <2>2, <2>3
<1> QED BY <1>2

\* Every value N and every number of states fits the width chosen for it.
LEMMA Fits ==
    ASSUME NEW n \in 0 .. MaxNumber, NEW x \in 0 .. n
    PROVE  /\ x % Values(n) = x
           /\ n > 0 => \A y \in 0 .. n - 1 : y % IndexValues(n) = y
<1>1. n \in Nat /\ x \in Nat /\ Values(n) \in Nat /\ x < Values(n)
  BY WidthAssumption, MaxNumberAssumption
<1>2. x % Values(n) = x
  BY <1>1, ModSmall
<1>3. ASSUME n > 0, NEW y \in 0 .. n - 1
      PROVE  y % IndexValues(n) = y
  <2>1. IndexValues(n) = Values(n - 1)
    BY <1>3, <1>1 DEF IndexValues
  <2>2. n - 1 \in 0 .. MaxNumber
    BY <1>3, MaxNumberAssumption
  <2>3. Values(n - 1) \in Nat /\ n - 1 < Values(n - 1)
    BY <2>2, WidthAssumption
  <2>4. y \in Nat /\ y < Values(n - 1)
    BY <2>2, <2>3, <1>1, <1>3
  <2> QED BY <2>1, <2>3, <2>4, ModSmall
<1> QED BY <1>2, <1>3

-----------------------------------------------------------------------------
(* Programs and states. *)

\* What is known of a thread.
LEMMA ProgramType ==
    ASSUME prog \in Programs
    PROVE  /\ prog.first \in Waits
           /\ \A w \in Waits : /\ prog.int[w] \in BOOLEAN
                               /\ prog.N[w] \in 1 .. MaxNumber
                               /\ ~prog.int[w] => prog.N[w] = 1
           /\ prog.code \in [Waits -> [Inputs -> [act : Acts, next : Waits]]]
           /\ prog.earlier \in 0 .. MaxNumber
  BY ProgramsAssumption DEF Program, WellFormed

\* getStateID finds the state of a wait() that has one.
LEMMA StateIDs ==
    ASSUME statesVec \in Seq(Waits)
    PROVE  /\ Found \subseteq Waits
           /\ \A id \in IDs : Wait(id) \in Found
           /\ \A w \in Found : getStateID(w) \in IDs /\ Wait(getStateID(w)) = w
<1>1. ASSUME NEW w \in Found
      PROVE  getStateID(w) \in IDs /\ Wait(getStateID(w)) = w
  <2>1. PICK k \in 1 .. Len(statesVec) : w = statesVec[k]
    BY <1>1 DEF Found
  <2>2. k - 1 \in IDs /\ Wait(k - 1) = w
    BY <2>1 DEF IDs, Wait
  <2> QED BY <2>2 DEF getStateID
<1>2. ASSUME NEW id \in IDs PROVE Wait(id) \in Found
  BY <1>2 DEF IDs, Wait, Found
<1> QED BY <1>1, <1>2 DEF Found

\* There are no more states than wait() calls.
LEMMA StatesBounded ==
    ASSUME StatesInv
    PROVE  Len(statesVec) \in 0 .. MaxNumber
<1> DEFINE S == 1 .. Len(statesVec)
<1>1. statesVec \in Injection(S, Waits)
  BY DEF StatesInv, Injection, IsInjective
<1>2. Cardinality(S) <= Cardinality(Waits)
  BY <1>1, FS_Injection, WaitsAssumption, Zenon
<1>3. Len(statesVec) \in Nat
  BY DEF StatesInv
<1>4. Cardinality(S) = Len(statesVec)
  BY <1>3, FS_Interval
<1>5. Cardinality(Waits) \in Nat
  BY WaitsAssumption, FS_CardinalityType
<1> QED BY <1>2, <1>3, <1>4, <1>5, WaitsAssumption, MaxNumberAssumption

-----------------------------------------------------------------------------
(* Constant propagation. *)

\* Where a pending path leads is a wait() of the thread; as long as nothing is
\* found, the path is the reset section.
LEMMA TargetType ==
    ASSUME AnalysisInv, NEW path \in pending
    PROVE  /\ Target(path) \in Waits
           /\ statesVec = <<>> => path = ResetPath
           /\ path = ResetPath => Target(path) = prog.first
<1>1. /\ prog.first \in Waits
      /\ prog.code \in [Waits -> [Inputs -> [act : Acts, next : Waits]]]
  BY ProgramType DEF AnalysisInv, StatesInv
<1>2. path = ResetPath \/ path \in Found \X Inputs
  BY DEF AnalysisInv, PathsInv
<1>3. Found \subseteq Waits
  BY StateIDs DEF AnalysisInv, StatesInv
<1>4. CASE path = ResetPath
  BY <1>1, <1>4 DEF Target
<1>5. CASE path \in Found \X Inputs
  <2>1. PICK w \in Found, input \in Inputs : path = <<w, input>>
    BY <1>5
  <2>2. path # ResetPath /\ path[1] = w /\ path[2] = input
    BY <2>1 DEF ResetPath
  <2>3. Target(path) = prog.code[w][input].next
    BY <2>2 DEF Target
  <2>4. Found # {}
    BY <2>1
  <2>5. statesVec # <<>>
    BY <2>4 DEF Found
  <2> QED BY <1>1, <1>3, <2>1, <2>2, <2>3, <2>5
<1> QED BY <1>2, <1>4, <1>5

\* Following a path to a wait() that has a state.
LEMMA AnalyseKnown ==
    ASSUME AnalysisInv, NEW path \in pending, Analyse(path), Target(path) \in Found
    PROVE  AnalysisInv'
<1>1. /\ UNCHANGED <<prog, statesVec, maxWaitN, waitNSet, firstWaitN>>
      /\ pending' = pending \ {path}
  BY DEF Analyse, getOrInsertStateID
<1>2. Found' = Found
  BY <1>1 DEF Found
<1>3. statesVec # <<>>
  BY DEF Found
<1>4. StatesInv'
  BY <1>1 DEF AnalysisInv, StatesInv
<1>5. ASSUME NEW w \in Found, NEW input \in Inputs, path = <<w, input>>
      PROVE  prog.code[w][input].next \in Found
  <2>1. path # ResetPath /\ path[1] = w /\ path[2] = input
    BY <1>5 DEF ResetPath
  <2> QED BY <2>1 DEF Target
<1>6. PathsInv'
  <2>1. pending' \subseteq {ResetPath} \cup (Found \X Inputs)
    BY <1>1 DEF AnalysisInv, PathsInv
  <2>2. ResetPath \notin pending' /\ prog.first \in Found
    BY <1>1, <1>3 DEF AnalysisInv, PathsInv
  <2>3. ASSUME NEW w \in Found, NEW input \in Inputs
        PROVE  prog.code[w][input].next \in Found \/ <<w, input>> \in pending'
    BY <1>1, <1>5 DEF AnalysisInv, PathsInv
  <2> QED BY <1>1, <1>2, <1>3, <2>1, <2>2, <2>3 DEF PathsInv, ResetPath
<1>7. WaitNInv'
  BY <1>1, <1>2 DEF AnalysisInv, WaitNInv
<1> QED BY <1>4, <1>6, <1>7 DEF AnalysisInv

\* Following a path to a wait() without a state, which gets the next ID.
LEMMA AnalyseNew ==
    ASSUME AnalysisInv, NEW path \in pending, Analyse(path), Target(path) \notin Found
    PROVE  AnalysisInv'
<1> DEFINE w == Target(path)
<1>1. /\ UNCHANGED prog
      /\ statesVec' = Append(statesVec, w)
      /\ pending' = (pending \ {path}) \cup {<<w, input>> : input \in Inputs}
      /\ firstWaitN' = (firstWaitN \/ (statesVec = <<>> /\ prog.N[w] > 1))
      /\ IF prog.N[w] > 1
         THEN /\ maxWaitN' = IF prog.N[w] > maxWaitN THEN prog.N[w] ELSE maxWaitN
              /\ waitNSet' = waitNSet \cup {Len(statesVec)}
         ELSE maxWaitN' = maxWaitN /\ waitNSet' = waitNSet
  BY DEF Analyse, getOrInsertStateID
<1>2. /\ w \in Waits
      /\ statesVec = <<>> => path = ResetPath
      /\ path = ResetPath => w = prog.first
  BY TargetType
<1>3. statesVec \in Seq(Waits) /\ prog \in Programs
  BY DEF AnalysisInv, StatesInv
<1>4. /\ Len(statesVec') = Len(statesVec) + 1 /\ statesVec' # <<>>
      /\ \A k \in 1 .. Len(statesVec) : statesVec'[k] = statesVec[k]
      /\ statesVec'[Len(statesVec) + 1] = w
      /\ statesVec' \in Seq(Waits)
  BY <1>1, <1>2, <1>3
<1>5. Found' = Found \cup {w}
  <2>1. Found' = {statesVec'[k] : k \in 1 .. Len(statesVec) + 1}
    BY <1>4 DEF Found
  <2>2. 1 .. Len(statesVec) + 1 = (1 .. Len(statesVec)) \cup {Len(statesVec) + 1}
    BY <1>3
  <2> QED BY <1>4, <2>1, <2>2 DEF Found
<1>6. StatesInv'
  <2>1. ASSUME NEW j \in 1 .. Len(statesVec'), NEW k \in 1 .. Len(statesVec'),
               statesVec'[j] = statesVec'[k]
        PROVE  j = k
    <3>1. \A i \in 1 .. Len(statesVec) : statesVec'[i] \in Found
      BY <1>4 DEF Found
    <3>2. CASE j = Len(statesVec) + 1 \/ k = Len(statesVec) + 1
      BY <1>3, <1>4, <2>1, <3>1, <3>2
    <3>3. CASE j \in 1 .. Len(statesVec) /\ k \in 1 .. Len(statesVec)
      BY <1>4, <2>1, <3>3 DEF AnalysisInv, StatesInv
    <3> QED BY <1>3, <1>4, <2>1, <3>2, <3>3
  <2>2. statesVec'[1] = prog.first
    <3>1. CASE statesVec = <<>>
      BY <1>2, <1>4, <3>1
    <3>2. CASE statesVec # <<>>
      BY <1>3, <1>4, <3>2 DEF AnalysisInv, StatesInv
    <3> QED BY <3>1, <3>2
  <2> QED BY <1>1, <1>3, <1>4, <2>1, <2>2 DEF StatesInv
<1>7. PathsInv'
  <2>1. pending' \subseteq {ResetPath} \cup (Found' \X Inputs)
    BY <1>1, <1>5 DEF AnalysisInv, PathsInv
  <2>2. ResetPath \notin pending'
    BY <1>1, <1>2 DEF AnalysisInv, PathsInv, ResetPath
  <2>3. prog.first \in Found'
    BY <1>2, <1>5 DEF AnalysisInv, PathsInv
  <2>4. ASSUME NEW v \in Found', NEW input \in Inputs
        PROVE  prog.code[v][input].next \in Found' \/ <<v, input>> \in pending'
    <3>1. CASE v = w
      BY <1>1, <3>1
    <3>2. CASE v \in Found /\ path = <<v, input>>
      <4>1. path # ResetPath /\ path[1] = v /\ path[2] = input
        BY <3>2 DEF ResetPath
      <4>2. prog.code[v][input].next = w
        BY <4>1 DEF Target
      <4> QED BY <4>2, <1>5
    <3>3. CASE v \in Found /\ path # <<v, input>>
      BY <1>1, <1>5, <3>3 DEF AnalysisInv, PathsInv
    <3> QED BY <1>5, <3>1, <3>2, <3>3
  <2> QED BY <1>1, <1>4, <2>1, <2>2, <2>3, <2>4 DEF PathsInv, ResetPath
<1>8. WaitNInv'
  <2>1. prog.N[w] \in 1 .. MaxNumber
    BY <1>2, <1>3, ProgramType
  <2>2. Found \subseteq Waits /\ \A v \in Waits : prog.N[v] \in 1 .. MaxNumber
    BY <1>3, ProgramType, StateIDs
  <2>3. maxWaitN' \in 0 .. MaxNumber
    BY <1>1, <2>1, MaxNumberAssumption DEF AnalysisInv, WaitNInv
  <2>4. \A v \in Found' : prog.N[v] > 1 => prog.N[v] <= maxWaitN'
    BY <1>1, <1>5, <2>1, <2>2, MaxNumberAssumption DEF AnalysisInv, WaitNInv
  <2>5. waitNSet' # {} <=> \E v \in Found' : prog.N[v] > 1
    BY <1>1, <1>5 DEF AnalysisInv, WaitNInv
  <2>6. firstWaitN' <=> prog.N[prog.first] > 1
    <3>1. CASE statesVec = <<>>
      BY <1>1, <1>2, <3>1 DEF AnalysisInv, WaitNInv
    <3>2. CASE statesVec # <<>>
      BY <1>1, <3>2 DEF AnalysisInv, WaitNInv
    <3> QED BY <3>1, <3>2
  <2> QED BY <1>1, <1>4, <2>3, <2>4, <2>5, <2>6 DEF WaitNInv
<1> QED BY <1>6, <1>7, <1>8 DEF AnalysisInv

-----------------------------------------------------------------------------
(* Code generation. *)

\* When every path has been followed, a thread stays within the waits found.
LEMMA Closed ==
    ASSUME AnalysisInv, pending = {}
    PROVE  /\ Found \subseteq Waits /\ prog.first \in Found
           /\ 0 \in IDs /\ Wait(0) = prog.first
           /\ \A w \in Found, input \in Inputs : prog.code[w][input].next \in Found
<1>1. statesVec # <<>> /\ statesVec \in Seq(Waits)
  BY DEF AnalysisInv, PathsInv, StatesInv
<1>2. 0 \in IDs /\ Wait(0) = prog.first
  BY <1>1 DEF IDs, Wait, AnalysisInv, StatesInv
<1> QED BY <1>1, <1>2, StateIDs DEF AnalysisInv, PathsInv

\* Two states with one text are the same state, or do the same; a wait(int)
\* state has its text for itself.
LEMMA SameText ==
    ASSUME AnalysisInv, pending = {},
           NEW i \in IDs, NEW j \in IDs, Text(i) = Text(j)
    PROVE  /\ SameState(Wait(i), Wait(j))
           /\ i # j => ~prog.int[Wait(i)] /\ ~prog.int[Wait(j)]
<1> DEFINE v == Wait(i)
           w == Wait(j)
<1>1. /\ v \in Found /\ w \in Found /\ Found \subseteq Waits
      /\ \A u \in Found : Wait(getStateID(u)) = u
  BY StateIDs DEF AnalysisInv, StatesInv
<1>2. /\ prog.code \in [Waits -> [Inputs -> [act : Acts, next : Waits]]]
      /\ prog.int[v] \in BOOLEAN /\ prog.int[w] \in BOOLEAN
  BY <1>1, ProgramType DEF AnalysisInv, StatesInv
<1>3. /\ Text(i).waits = Text(j).waits /\ Text(i).body = Text(j).body
  OBVIOUS
<1>4. (IF prog.int[v] THEN {i} ELSE {}) = (IF prog.int[w] THEN {j} ELSE {})
  BY <1>3 DEF Text
<1>5. ASSUME NEW input \in Inputs
      PROVE  prog.code[v][input] = prog.code[w][input]
  <2>1. /\ Text(i).body[input].act = Text(j).body[input].act
        /\ Text(i).body[input].next = Text(j).body[input].next
    BY <1>3
  <2>2. /\ prog.code[v][input].act = prog.code[w][input].act
        /\ getStateID(prog.code[v][input].next) = getStateID(prog.code[w][input].next)
    BY <2>1 DEF Text
  <2>3. prog.code[v][input].next \in Found /\ prog.code[w][input].next \in Found
    BY <1>1, Closed
  <2>4. prog.code[v][input].next = prog.code[w][input].next
    BY <1>1, <2>2, <2>3
  <2>5. /\ prog.code[v][input] \in [act : Acts, next : Waits]
        /\ prog.code[w][input] \in [act : Acts, next : Waits]
    BY <1>1, <1>2
  <2> QED BY <2>2, <2>4, <2>5
<1>6. prog.code[v] = prog.code[w]
  BY <1>1, <1>2, <1>5
<1> QED BY <1>2, <1>4, <1>6 DEF SameState

\* A state is replaced by the first one with its text.
LEMMA ReplacementFirst ==
    ASSUME AnalysisInv, NEW id \in IDs
    PROVE  /\ Replacement(id) \in IDs /\ Text(Replacement(id)) = Text(id)
           /\ \A j \in IDs : Text(j) = Text(id) => Replacement(id) <= j
<1> DEFINE S == {j \in IDs : Text(j) = Text(id)}
<1>1. S \subseteq Nat /\ S # {}
  BY DEF IDs
<1>2. \E i \in S : \A j \in S : i <= j
  BY <1>1, LeastID, Zenon
<1> QED BY <1>2 DEF Replacement

\* What ThreadBuilder replaces preserves what the states do, and a module
\* without PROC_STATE does in its only state what each of them does.
LEMMA Merged ==
    ASSUME AnalysisInv, pending = {}, ~CounterMissing, NEW replaced,
           replaced = [id \in IDs |-> IF OneSuccessor THEN id ELSE Replacement(id)]
    PROVE  MergeInv(replaced, OneSuccessor \/ (Len(statesVec) = 2
                                               /\ \E id \in IDs : replaced[id] # id))
<1>0. /\ 0 \in IDs /\ Found \subseteq Waits /\ IDs \subseteq Nat
      /\ prog.first \in Found /\ Wait(0) = prog.first
      /\ \A id \in IDs : Wait(id) \in Found
      /\ \A w \in Found : getStateID(w) \in IDs /\ Wait(getStateID(w)) = w
  BY Closed, StateIDs DEF AnalysisInv, StatesInv, IDs
<1>1. /\ \A w \in Found : /\ prog.N[w] \in 1 .. MaxNumber
                          /\ ~prog.int[w] => prog.N[w] = 1
      /\ prog.earlier \in 0 .. MaxNumber
  BY <1>0, ProgramType DEF AnalysisInv, StatesInv
<1>2. CASE OneSuccessor
  <2>1. replaced = [id \in IDs |-> id]
    BY <1>2
  <2>2. ~hasWaitNState
    BY <1>2 DEF OneSuccessor
  <2>3. \A w \in Found : prog.N[w] = 1
    BY <1>1, <2>2, MaxNumberAssumption DEF hasWaitNState, AnalysisInv, WaitNInv
  <2>4. ~MistakenSingle => \A w \in Found : prog.code[w] = prog.code[Wait(0)]
    BY <1>0, <1>2 DEF MistakenSingle
  <2>5. prog.int[prog.first] => CounterShared
    <3>1. SUFFICES ASSUME prog.int[prog.first] PROVE CounterShared
      OBVIOUS
    <3>2. prog.first \in Reached
      BY <1>2 DEF Reached
    <3>3. prog.earlier # 0
      BY <2>2, <3>1, <3>2 DEF CounterMissing
    <3> QED BY <1>0, <1>1, <2>2, <3>1, <3>3, MaxNumberAssumption DEF CounterShared
  <2> QED BY <1>0, <1>2, <2>1, <2>3, <2>4, <2>5 DEF MergeInv, SameState
<1>3. CASE ~OneSuccessor
  <2>1. replaced = [id \in IDs |-> Replacement(id)]
    BY <1>3
  <2>2. \A id \in IDs : replaced[id] = Replacement(id)
    BY <2>1
  <2>3. replaced \in [IDs -> IDs]
    BY <2>1, ReplacementFirst
  <2>4. replaced[0] = 0
    <3>1. replaced[0] \in IDs /\ replaced[0] <= 0
      BY <1>0, <2>2, ReplacementFirst
    <3>2. replaced[0] \in Nat
      BY <1>0, <3>1
    <3> QED BY <3>1, <3>2
  <2>5. ASSUME NEW id \in IDs
        PROVE  /\ replaced[replaced[id]] = replaced[id]
               /\ SameState(Wait(replaced[id]), Wait(id))
               /\ replaced[id] # id => ~prog.int[Wait(replaced[id])] /\ ~prog.int[Wait(id)]
    <3>1. replaced[id] \in IDs /\ Text(replaced[id]) = Text(id)
      BY <2>2, ReplacementFirst
    <3>2. /\ replaced[replaced[id]] \in IDs
          /\ Text(replaced[replaced[id]]) = Text(id)
          /\ replaced[replaced[id]] <= replaced[id]
      BY <2>2, <3>1, <1>0, ReplacementFirst
    <3>3. replaced[id] <= replaced[replaced[id]]
      BY <2>2, <3>2, ReplacementFirst
    <3>4. replaced[id] \in Nat /\ replaced[replaced[id]] \in Nat
      BY <1>0, <3>1, <3>2
    <3>5. replaced[replaced[id]] = replaced[id]
      BY <3>2, <3>3, <3>4
    <3> QED BY <3>1, <3>5, SameText
  <2>6. ASSUME Len(statesVec) = 2, NEW id \in IDs, replaced[id] # id, NEW w \in Found
        PROVE  ~prog.int[w] /\ prog.code[w] = prog.code[Wait(0)]
    <3>1. IDs = {0, 1}
      BY <2>6 DEF IDs
    <3>2. id = 1 /\ replaced[id] = 0
      BY <2>3, <2>4, <2>6, <3>1
    <3>3. w = Wait(0) \/ w = Wait(1)
      BY <1>0, <3>1
    <3> QED BY <2>5, <3>2, <3>3 DEF SameState
  <2>7. ASSUME Len(statesVec) = 2, NEW id \in IDs, replaced[id] # id
        PROVE  /\ \A w \in Found : prog.N[w] = 1 /\ prog.code[w] = prog.code[Wait(0)]
               /\ ~prog.int[prog.first]
    BY <1>0, <1>1, <2>6, <2>7
  <2> QED BY <1>3, <2>3, <2>4, <2>5, <2>7 DEF MergeInv
<1> QED BY <1>2, <1>3

-----------------------------------------------------------------------------
(* The two executions. *)

\* The reset branch and a restarted thread agree, unless the first wait is
\* wait(1) or another thread assigns the counter.
LEMMA ResetAgrees ==
    ASSUME AnalysisInv, pending = {}, NEW replaced, ResetBranch(replaced), RestartThread,
           UNCHANGED <<prog, pending, statesVec>>
    PROVE  /\ at' \in Found' /\ left' \in 1 .. prog.N[at']
           /\ out' = done' /\ PROC_STATE' = replaced[getStateID(at')]
           /\ left' = prog.N[at']
           /\ ~prog.int[at'] => left' = 1
           /\ ~WaitOneFirst /\ ~CounterShared /\ prog.int[at'] => WAIT_N_COUNTER' = left'
<1>1. /\ at' = prog.first /\ left' = prog.N[prog.first] /\ done' = ResetAct
      /\ out' = ResetAct /\ PROC_STATE' = replaced[getStateID(prog.first)]
  BY DEF ResetBranch, RestartThread
<1>2. prog.first \in Found /\ Found \subseteq Waits /\ Found' = Found
  BY Closed DEF Found
<1>3. /\ prog.N[prog.first] \in 1 .. MaxNumber
      /\ ~prog.int[prog.first] => prog.N[prog.first] = 1
  BY <1>2, ProgramType DEF AnalysisInv, StatesInv
<1>4. ASSUME ~WaitOneFirst, ~CounterShared, prog.int[prog.first]
      PROVE  WAIT_N_COUNTER' = left'
  <2>1. prog.N[prog.first] > 1
    BY <1>3, <1>4, MaxNumberAssumption DEF WaitOneFirst
  <2>2. firstWaitN
    BY <1>2, <2>1 DEF AnalysisInv, WaitNInv, Found
  <2> QED BY <1>1, <1>4, <2>2 DEF ResetBranch, SetCounter
<1> QED BY <1>1, <1>2, <1>3, <1>4, MaxNumberAssumption

\* The branch the module is in: the one that does what the thread's wait() does,
\* counting exactly while the thread waits.
LEMMA BranchAgrees ==
    ASSUME AnalysisInv, RunInv, InStep, phase = "run", Covered
    PROVE  /\ Current \in Branches /\ prog.code[Wait(Current)] = prog.code[at]
           /\ Counting(Current) <=> left > 1
<1>1. /\ getStateID(at) \in IDs /\ Wait(getStateID(at)) = at
      /\ at \in Waits /\ 0 \in IDs /\ at \in Found /\ Wait(0) = prog.first
  BY StateIDs, Closed DEF AnalysisInv, StatesInv, RunInv
<1>2. /\ replacedStates \in [IDs -> IDs] /\ replacedStates[0] = 0
      /\ \A id \in IDs : /\ replacedStates[replacedStates[id]] = replacedStates[id]
                         /\ SameState(Wait(replacedStates[id]), Wait(id))
  BY DEF RunInv, MergeInv
<1>3. left \in 1 .. prog.N[at] /\ prog.N[at] \in 1 .. MaxNumber
  BY <1>1, ProgramType DEF RunInv, AnalysisInv, StatesInv
<1>4. CASE isSingleState
  <2>1. Current = 0 /\ 0 \in Branches
    BY <1>1, <1>2, <1>4 DEF Current, Branches
  <2>2. prog.code[at] = prog.code[Wait(0)]
    BY <1>1, <1>4 DEF RunInv, MergeInv, Covered
  <2>3. ~prog.int[prog.first]
    BY <1>4 DEF RunInv, MergeInv, Covered, CountsShared
  <2>4. left = 1
    BY <1>4 DEF InStep, Covered
  <2> QED BY <1>1, <2>1, <2>2, <2>3, <2>4 DEF Counting
<1>5. CASE ~isSingleState
  <2>1. Current = replacedStates[getStateID(at)]
    BY <1>5 DEF Current, InStep, Covered
  <2>2. Current \in Branches /\ SameState(Wait(Current), at)
    BY <1>1, <1>2, <2>1 DEF Branches
  <2>3. IF prog.int[at] THEN WAIT_N_COUNTER = left ELSE left = 1
    BY <1>5 DEF InStep, Covered
  <2> QED BY <1>3, <2>2, <2>3, MaxNumberAssumption DEF Counting, SameState
<1> QED BY <1>4, <1>5

\* PROC_STATE is wide enough for each ID, and a counter that the module counts
\* with for each N.
LEMMA RegistersFit ==
    ASSUME AnalysisInv, RunInv, NEW w \in Found
    PROVE  /\ NextState(w) = replacedStates[getStateID(w)]
           /\ ~isSingleState /\ ~CounterShared /\ prog.int[w] =>
                 \A x \in 0 .. prog.N[w] : x % CounterValues = x
<1>1. /\ Found \subseteq Waits /\ 0 \in IDs /\ getStateID(w) \in IDs
      /\ prog.N[w] \in 1 .. MaxNumber /\ maxWaitN \in 0 .. MaxNumber
      /\ prog.earlier \in 0 .. MaxNumber
  BY StateIDs, Closed, ProgramType DEF AnalysisInv, StatesInv, WaitNInv, RunInv
<1>2. ASSUME ~isSingleState, ~CounterShared, prog.int[w]
      PROVE  CounterValues = Values(maxWaitN) /\ prog.N[w] <= maxWaitN
  <2>1. w \in Reached
    BY <1>2 DEF RunInv, MergeInv, Reached
  <2>2. hasWaitNState
    BY <1>1, <1>2, <2>1, MaxNumberAssumption DEF RunInv, CounterMissing, CounterShared
  <2>3. PICK v \in Found : prog.N[v] > 1 /\ prog.N[v] <= maxWaitN
    BY <2>2 DEF AnalysisInv, WaitNInv, hasWaitNState
  <2>4. prog.N[v] \in 1 .. MaxNumber
    BY <1>1, ProgramType DEF AnalysisInv, StatesInv
  <2>5. prog.N[w] > 1 => prog.N[w] <= maxWaitN
    BY DEF AnalysisInv, WaitNInv
  <2>6. CounterValues = Values(maxWaitN)
    BY <2>2 DEF CounterValues
  <2> QED BY <1>1, <2>3, <2>4, <2>5, <2>6, MaxNumberAssumption
<1>3. ASSUME ~isSingleState, ~CounterShared, prog.int[w], NEW x \in 0 .. prog.N[w]
      PROVE  x % CounterValues = x
  <2>1. x \in 0 .. maxWaitN /\ CounterValues = Values(maxWaitN)
    BY <1>1, <1>2, <1>3, MaxNumberAssumption
  <2> QED BY <1>1, <2>1, Fits
<1>4. NextState(w) = replacedStates[getStateID(w)]
  <2> DEFINE n == Len(statesVec)
             id == replacedStates[getStateID(w)]
  <2>1. n \in 0 .. MaxNumber /\ n \in Nat
    BY StatesBounded, MaxNumberAssumption DEF AnalysisInv
  <2>2. id \in 0 .. n - 1
    BY <1>1 DEF RunInv, MergeInv, IDs
  <2>3. n > 0 /\ 0 \in 0 .. n
    BY <2>1, <2>2
  <2> HIDE DEF n, id
  <2>4. id % IndexValues(n) = id
    BY <2>1, <2>2, <2>3, Fits
  <2> QED BY <2>4 DEF NextState, n, id
<1> QED BY <1>3, <1>4

\* At a clock edge the thread stays within the waits found.
LEMMA ThreadMoves ==
    ASSUME AnalysisInv, RunInv, NEW input \in Inputs, ThreadStep(input),
           UNCHANGED <<prog, statesVec>>
    PROVE  at' \in Found' /\ left' \in 1 .. prog.N[at']
<1>1. /\ at \in Found /\ left \in 1 .. prog.N[at] /\ Found' = Found /\ pending = {}
      /\ Found \subseteq Waits
      /\ prog.code[at][input].next \in Found
  BY Closed DEF RunInv, Found
<1>2. \A w \in Found : prog.N[w] \in 1 .. MaxNumber
  BY <1>1, ProgramType DEF AnalysisInv, StatesInv
<1>3. CASE left > 1
  BY <1>1, <1>2, <1>3, MaxNumberAssumption DEF ThreadStep
<1>4. CASE ~(left > 1)
  BY <1>1, <1>2, <1>4, MaxNumberAssumption DEF ThreadStep
<1> QED BY <1>3, <1>4

\* At a clock edge the module does what the thread does.
LEMMA StepAgrees ==
    ASSUME AnalysisInv, RunInv, InStep, phase = "run", Covered,
           NEW input \in Inputs, ModuleStep(input), ThreadStep(input),
           UNCHANGED <<prog, statesVec, replacedStates, isSingleState>>
    PROVE  /\ out' = done'
           /\ isSingleState \/ PROC_STATE' = replacedStates[getStateID(at')]
           /\ IF isSingleState \/ ~prog.int[at'] THEN left' = 1 ELSE WAIT_N_COUNTER' = left'
<1>1. /\ Current \in Branches /\ prog.code[Wait(Current)] = prog.code[at]
      /\ Counting(Current) <=> left > 1
  BY BranchAgrees
<1>2. /\ at \in Found /\ left \in 1 .. prog.N[at] /\ pending = {} /\ Found \subseteq Waits
      /\ prog.code[at][input].next \in Found
  BY Closed DEF RunInv
<1>3. \A w \in Found : /\ prog.N[w] \in 1 .. MaxNumber
                       /\ ~prog.int[w] => prog.N[w] = 1
                       /\ isSingleState => prog.N[w] = 1
  BY <1>2, ProgramType DEF AnalysisInv, StatesInv, RunInv, MergeInv
<1>4. isSingleState \/ ~CounterShared
  BY DEF Covered, CountsShared
<1>5. CASE left > 1
  <2>1. prog.int[at] /\ ~isSingleState /\ WAIT_N_COUNTER = left
    BY <1>2, <1>3, <1>5, MaxNumberAssumption DEF InStep, Covered
  <2>2. /\ WAIT_N_COUNTER' = (WAIT_N_COUNTER - 1) % CounterValues
        /\ PROC_STATE' = PROC_STATE /\ out' = Hold
        /\ left' = left - 1 /\ done' = Hold /\ at' = at
    BY <1>1, <1>4, <1>5, <2>1 DEF ModuleStep, ThreadStep, SetCounter
  <2>3. left - 1 \in 0 .. prog.N[at]
    BY <1>2, <1>3, MaxNumberAssumption
  <2>4. (left - 1) % CounterValues = left - 1
    BY <1>2, <1>4, <2>1, <2>3, RegistersFit
  <2>5. PROC_STATE = replacedStates[getStateID(at)]
    BY <2>1 DEF InStep, Covered
  <2> QED BY <2>1, <2>2, <2>4, <2>5
<1>6. CASE ~(left > 1)
  <2> DEFINE next == prog.code[at][input].next
  <2>1. /\ out' = prog.code[at][input].act /\ done' = prog.code[at][input].act
        /\ at' = next /\ left' = prog.N[next]
        /\ SetCounter(IF prog.int[next] THEN prog.N[next] % CounterValues
                      ELSE WAIT_N_COUNTER)
        /\ PROC_STATE' = IF isSingleState THEN PROC_STATE ELSE NextState(next)
    BY <1>1, <1>6 DEF ModuleStep, ThreadStep
  <2>2. next \in Found
    BY <1>2
  <2>3. prog.N[next] \in 0 .. prog.N[next]
    BY <1>3, <2>2, MaxNumberAssumption
  <2>4. NextState(next) = replacedStates[getStateID(next)]
    BY <2>2, RegistersFit
  <2>5. ASSUME ~isSingleState, prog.int[next] PROVE WAIT_N_COUNTER' = prog.N[next]
    <3>1. prog.N[next] % CounterValues = prog.N[next]
      BY <1>4, <2>2, <2>3, <2>5, RegistersFit
    <3> QED BY <1>4, <2>1, <2>5, <3>1 DEF SetCounter
  <2> QED BY <1>3, <2>1, <2>2, <2>4, <2>5
<1> QED BY <1>5, <1>6

-----------------------------------------------------------------------------
(* The theorem. *)

LEMMA InitInv == Init => IInv
<1> SUFFICES ASSUME Init PROVE IInv
  OBVIOUS
<1>1. statesVec = <<>> /\ Found = {}
  BY DEF Init, Found
<1>2. StatesInv
  BY <1>1 DEF Init, StatesInv
<1>3. PathsInv
  BY <1>1 DEF Init, PathsInv
<1>4. WaitNInv
  <2>1. prog.first \in Waits /\ prog.N[prog.first] \in 1 .. MaxNumber
    BY ProgramType DEF Init
  <2> QED BY <1>1, <2>1, MaxNumberAssumption DEF Init, WaitNInv
<1> QED BY <1>2, <1>3, <1>4 DEF Init, IInv, AnalysisInv, InStep

\* What constant propagation found stays true while nothing of it changes.
LEMMA AnalysisKept ==
    ASSUME AnalysisInv, UNCHANGED <<prog, translator>>
    PROVE  AnalysisInv'
<1>1. Found' = Found
  BY DEF Found, translator
<1>2. StatesInv'
  BY DEF AnalysisInv, StatesInv, translator
<1>3. PathsInv'
  BY <1>1 DEF AnalysisInv, PathsInv, translator, ResetPath
<1>4. WaitNInv'
  BY <1>1 DEF AnalysisInv, WaitNInv, translator
<1> QED BY <1>2, <1>3, <1>4 DEF AnalysisInv

\* What is decided about the thread stays decided.
LEMMA DecisionsKept ==
    ASSUME UNCHANGED <<prog, translator>>
    PROVE  /\ Found' = Found /\ IDs' = IDs /\ UNCHANGED <<prog, pending, statesVec>>
           /\ OneSuccessor' <=> OneSuccessor
           /\ CounterMissing' <=> CounterMissing
           /\ CounterShared' <=> CounterShared
           /\ MistakenSingle' <=> MistakenSingle
           /\ WaitOneFirst' <=> WaitOneFirst
           /\ \A w : getStateID(w)' = getStateID(w)
<1>1. /\ UNCHANGED <<prog, pending, statesVec, waitNSet, waitSuccsSet, waitMaxLoopLevel>>
      /\ Found' = Found /\ IDs' = IDs
  BY DEF Found, IDs, translator
<1>2. OneSuccessor' <=> OneSuccessor
  BY <1>1 DEF OneSuccessor, hasWaitNState
<1>3. Reached' = Reached
  BY <1>1, <1>2 DEF Reached, Wait
<1>4. CounterMissing' <=> CounterMissing
  BY <1>1, <1>3 DEF CounterMissing, hasWaitNState
<1>5. CounterShared' <=> CounterShared
  BY <1>1 DEF CounterShared, hasWaitNState
<1>6. MistakenSingle' <=> MistakenSingle
  BY <1>1, <1>2 DEF MistakenSingle
<1>7. \A w : getStateID(w)' = getStateID(w)
  BY <1>1 DEF getStateID, Wait
<1> QED BY <1>1, <1>2, <1>4, <1>5, <1>6, <1>7 DEF WaitOneFirst

LEMMA MergeKept ==
    ASSUME UNCHANGED <<prog, translator>>,
           MergeInv(replacedStates', isSingleState')
    PROVE  MergeInv(replacedStates, isSingleState)'
<1>1. /\ Found' = Found /\ IDs' = IDs /\ UNCHANGED <<prog, statesVec>>
      /\ OneSuccessor' <=> OneSuccessor
      /\ CounterShared' <=> CounterShared
      /\ MistakenSingle' <=> MistakenSingle
  BY DecisionsKept
<1> QED BY <1>1 DEF MergeInv, SameState, Wait

LEMMA NextInv == IInv /\ [Next]_vars => IInv'
<1> SUFFICES ASSUME IInv, [Next]_vars PROVE IInv'
  OBVIOUS
<1>0. AnalysisInv /\ (phase = "run" => RunInv) /\ InStep
  BY DEF IInv
<1>1. ASSUME NEW path \in pending, Analyse(path) PROVE IInv'
  <2>1. AnalysisInv'
    BY <1>0, <1>1, AnalyseKnown, AnalyseNew
  <2>2. phase' = "analyse"
    BY <1>1 DEF Analyse
  <2> QED BY <2>1, <2>2 DEF IInv, InStep
<1>2. CASE Generate
  <2> DEFINE replaced == [id \in IDs |-> IF OneSuccessor THEN id ELSE Replacement(id)]
             single == \/ OneSuccessor
                       \/ Len(statesVec) = 2 /\ \E id \in IDs : replaced[id] # id
  <2>1. /\ pending = {} /\ ~CounterMissing /\ phase' = "run"
        /\ replacedStates' = replaced /\ isSingleState' = single
        /\ ResetBranch(replaced) /\ RestartThread
        /\ UNCHANGED <<prog, translator>>
    BY <1>2 DEF Generate
  <2>2. AnalysisInv'
    BY <1>0, <2>1, AnalysisKept
  <2>3. MergeInv(replaced, single)
    BY <1>0, <2>1, Merged
  <2> HIDE DEF single, replaced
  <2>4. MergeInv(replacedStates', isSingleState')
    BY <2>1, <2>3
  <2>5. /\ Found' = Found /\ UNCHANGED <<prog, pending, statesVec>>
        /\ CounterMissing' <=> CounterMissing
        /\ CounterShared' <=> CounterShared
        /\ WaitOneFirst' <=> WaitOneFirst
    BY <2>1, DecisionsKept
  <2>6. getStateID(at)' = getStateID(at')
    BY <2>5 DEF getStateID, IDs, Wait
  <2>7. /\ at' \in Found' /\ left' \in 1 .. prog.N[at'] /\ left' = prog.N[at']
        /\ out' = done' /\ PROC_STATE' = replaced[getStateID(at')]
        /\ ~prog.int[at'] => left' = 1
        /\ ~WaitOneFirst /\ ~CounterShared /\ prog.int[at'] => WAIT_N_COUNTER' = left'
    BY <1>0, <2>1, <2>5, ResetAgrees
  <2>8. RunInv'
    BY <2>1, <2>4, <2>5, <2>7, MergeKept DEF RunInv
  <2>9. isSingleState' => left' = 1
    BY <2>4, <2>5, <2>7 DEF MergeInv
  <2>10. InStep'
    BY <2>1, <2>5, <2>6, <2>7, <2>9 DEF InStep, FollowsThread, CountsShared
  <2> QED BY <2>2, <2>8, <2>10 DEF IInv
<1>3. CASE Refuse
  <2>1. phase' = "refused" /\ UNCHANGED <<prog, translator>>
    BY <1>3 DEF Refuse
  <2>2. AnalysisInv'
    BY <1>0, <2>1, AnalysisKept
  <2> QED BY <2>1, <2>2 DEF IInv, InStep
<1>4. ASSUME NEW input \in Inputs, ClockEdge(input) PROVE IInv'
  <2>1. /\ phase = "run" /\ phase' = "run" /\ RunInv
        /\ ModuleStep(input) /\ ThreadStep(input)
        /\ UNCHANGED <<prog, translator, fsm>>
    BY <1>0, <1>4 DEF ClockEdge
  <2>2. /\ UNCHANGED <<prog, pending, statesVec, replacedStates, isSingleState>>
        /\ CounterMissing' <=> CounterMissing
        /\ CounterShared' <=> CounterShared
        /\ MistakenSingle' <=> MistakenSingle
        /\ WaitOneFirst' <=> WaitOneFirst
    BY <2>1, DecisionsKept DEF fsm
  <2>3. AnalysisInv'
    BY <1>0, <2>1, AnalysisKept
  <2>4. MergeInv(replacedStates, isSingleState)'
    BY <2>1, <2>2, MergeKept DEF RunInv
  <2>5. at' \in Found' /\ left' \in 1 .. prog'.N[at']
    BY <1>0, <2>1, <2>2, ThreadMoves
  <2>6. RunInv'
    BY <2>1, <2>2, <2>4, <2>5 DEF RunInv
  <2>7. ASSUME Covered
        PROVE  /\ out' = done'
               /\ isSingleState \/ PROC_STATE' = replacedStates[getStateID(at')]
               /\ IF isSingleState \/ ~prog.int[at'] THEN left' = 1
                  ELSE WAIT_N_COUNTER' = left'
    BY <1>0, <2>1, <2>2, <2>7, StepAgrees
  <2>8. getStateID(at)' = getStateID(at')
    BY <2>2 DEF getStateID, IDs, Wait
  <2>9. InStep'
    BY <2>2, <2>7, <2>8 DEF InStep, FollowsThread, CountsShared, Covered
  <2> QED BY <2>3, <2>6, <2>9 DEF IInv
<1>5. CASE Reset
  <2>1. /\ phase = "run" /\ phase' = "run" /\ RunInv /\ pending = {}
        /\ ResetBranch(replacedStates) /\ RestartThread
        /\ UNCHANGED <<prog, translator, fsm>>
    BY <1>0, <1>5 DEF Reset, RunInv
  <2>2. /\ UNCHANGED <<prog, pending, statesVec, replacedStates, isSingleState>>
        /\ Found' = Found
        /\ CounterMissing' <=> CounterMissing
        /\ CounterShared' <=> CounterShared
        /\ WaitOneFirst' <=> WaitOneFirst
    BY <2>1, DecisionsKept DEF fsm
  <2>3. AnalysisInv'
    BY <1>0, <2>1, AnalysisKept
  <2>4. MergeInv(replacedStates, isSingleState)'
    BY <2>1, <2>2, MergeKept DEF RunInv
  <2>5. /\ at' \in Found' /\ left' \in 1 .. prog.N[at'] /\ left' = prog.N[at']
        /\ out' = done' /\ PROC_STATE' = replacedStates[getStateID(at')]
        /\ ~prog.int[at'] => left' = 1
        /\ ~WaitOneFirst /\ ~CounterShared /\ prog.int[at'] => WAIT_N_COUNTER' = left'
    BY <1>0, <2>1, <2>2, ResetAgrees
  <2>6. getStateID(at)' = getStateID(at')
    BY <2>2 DEF getStateID, IDs, Wait
  <2>7. RunInv'
    BY <2>1, <2>2, <2>4, <2>5 DEF RunInv
  <2>8. isSingleState' => left' = 1
    BY <2>1, <2>2, <2>5 DEF RunInv, MergeInv
  <2>9. InStep'
    BY <2>2, <2>5, <2>6, <2>8 DEF InStep, FollowsThread, CountsShared
  <2> QED BY <2>3, <2>7, <2>9 DEF IInv
<1>6. CASE UNCHANGED vars
  <2>1. UNCHANGED <<prog, translator, fsm>> /\ UNCHANGED <<phase, regs, at, left, out, done>>
    BY <1>6 DEF vars
  <2>2. /\ UNCHANGED <<prog, pending, statesVec, replacedStates, isSingleState>>
        /\ Found' = Found
        /\ CounterMissing' <=> CounterMissing
        /\ CounterShared' <=> CounterShared
        /\ MistakenSingle' <=> MistakenSingle
        /\ WaitOneFirst' <=> WaitOneFirst
    BY <2>1, DecisionsKept DEF fsm
  <2>3. AnalysisInv'
    BY <1>0, <2>1, AnalysisKept
  <2>4. phase' = "run" => RunInv'
    BY <1>0, <2>1, <2>2, MergeKept DEF RunInv
  <2>5. InStep'
    BY <1>0, <2>1, <2>2 DEF InStep, FollowsThread, CountsShared, getStateID, IDs, Wait, regs
  <2> QED BY <2>3, <2>4, <2>5 DEF IInv
<1> QED BY <1>1, <1>2, <1>3, <1>4, <1>5, <1>6 DEF Next

\* In every cycle the module that ThreadBuilder generates is in the state that
\* stands for the wait() the thread is in, has as many cycles to count and does
\* the same, whichever states were merged and in whatever order they were found,
\* unless its first wait is wait(1), it counts with a counter that two threads
\* assign, or waits with different code after them were taken for one state.
THEOREM FsmInStep == Spec => []InStep
<1>1. Init => IInv
  BY InitInv
<1>2. IInv /\ [Next]_vars => IInv'
  BY NextInv
<1>3. IInv => InStep
  BY DEF IInv
<1> QED BY <1>1, <1>2, <1>3, PTL DEF Spec
=============================================================================
