------------------------------- MODULE ThreadFsm -------------------------------
(***************************************************************************)
(* How the translator turns a clocked thread with several wait() calls into *)
(* a state machine: ScTraverseConst numbers the wait() calls it reaches     *)
(* (ScCThreadStates), ThreadBuilder generates the code from each wait to    *)
(* the next ones, merges states with the same text and prints a case over   *)
(* PROC_STATE, with one down-counter WAIT_N_COUNTER for all wait(N).  The   *)
(* name of the counter is kept for the whole module: a thread without one   *)
(* takes that of the thread before it.                                      *)
(* Afterwards the thread as SystemC runs it and the generated module run    *)
(* side by side on the same inputs.                                         *)
(*                                                                          *)
(* What a thread computes between two waits is one value of Acts; all that  *)
(* the next wait depends on is one value of Inputs.                         *)
(***************************************************************************)
EXTENDS Integers, Sequences, FiniteSets

CONSTANTS
    Waits,          \* wait() calls of the thread, each with its call stack
    Inputs,         \* what the code after a wait() may branch on
    Acts,           \* what the code between two waits may do
    Stmts,          \* statements of the thread's functions
    Layouts,        \* what else tells two generated texts apart
    MaxNumber,      \* bound: N of wait(N), number of wait() calls, loop depth
    Programs        \* the threads explored

\* A thread: the wait() its reset section leads to, which calls are wait(int)
\* and with which N (a constant, parseWaitArg refuses others), the code after
\* each wait(), the statement the analysis meets after it (whatever called the
\* function it is in) and the loops around it in its function.
\* The module's other threads: the largest N of the last one before that has a
\* counter (0: there is none), and whether one after it takes the counter.
Program == [first : Waits, int : [Waits -> BOOLEAN], N : [Waits -> 1 .. MaxNumber],
            code : [Waits -> [Inputs -> [act : Acts, next : Waits]]],
            succ : [Waits -> Stmts], level : [Waits -> 0 .. MaxNumber],
            layout : [Waits -> Layouts], earlier : 0 .. MaxNumber, later : BOOLEAN]
WellFormed(p) == \A w \in Waits : ~p.int[w] => p.N[w] = 1

\* bitsInNumber, bitsForIndex, and the number of values of such a register.
bitsInNumber[n \in Nat] == IF n < 2 THEN 1 ELSE 1 + bitsInNumber[n \div 2]
Values(n) == 2 ^ bitsInNumber[n]
IndexValues(n) == Values(IF n = 0 THEN 0 ELSE n - 1)

ASSUME MaxNumberAssumption == MaxNumber \in Nat
ASSUME WidthAssumption ==
    \A n \in 0 .. MaxNumber : Values(n) \in Nat /\ n < Values(n)
ASSUME WaitsAssumption == IsFiniteSet(Waits) /\ Cardinality(Waits) <= MaxNumber
ASSUME ProgramsAssumption == \A p \in Programs : p \in Program /\ WellFormed(p)

Hold == "hold"          \* no code is run in this cycle
ResetAct == "reset"     \* the reset section
ASSUME ActsAssumption == Hold \notin Acts /\ ResetAct \notin Acts

VARIABLES
    prog,           \* the thread
    phase,          \* of the translator: "analyse", "run", "refused"
    pending,        \* paths ScTraverseConst has still to follow
    statesVec,      \* waits in the order of their IDs, 0 first
    maxWaitN, waitNSet, firstWaitN,     \* members of ScCThreadStates
    waitSuccsSet, waitMaxLoopLevel,     \* members of ScTraverseConst
    replacedStates, \* the ID generated instead of each ID
    isSingleState,  \* the module has no PROC_STATE
    PROC_STATE, WAIT_N_COUNTER,         \* registers of the module
    at, left,       \* the thread: the wait() it is in, clock edges to go
    out, done       \* what the module, the thread did at the last edge

translator == <<pending, statesVec, maxWaitN, waitNSet, firstWaitN,
                waitSuccsSet, waitMaxLoopLevel>>
fsm == <<replacedStates, isSingleState>>
regs == <<PROC_STATE, WAIT_N_COUNTER>>
vars == <<prog, phase, translator, fsm, regs, at, left, out, done>>

Found == {statesVec[k] : k \in 1 .. Len(statesVec)}
IDs == 0 .. Len(statesVec) - 1
Wait(id) == statesVec[id + 1]
getStateID(w) == CHOOSE id \in IDs : Wait(id) = w

ResetPath == <<>>
Target(path) == IF path = ResetPath THEN prog.first ELSE prog.code[path[1]][path[2]].next

Init ==
    /\ prog \in Programs
    /\ phase = "analyse" /\ pending = {ResetPath}
    /\ statesVec = <<>> /\ maxWaitN = 1 /\ waitNSet = {} /\ firstWaitN = FALSE
    /\ waitSuccsSet = {} /\ waitMaxLoopLevel = 1
    /\ replacedStates = <<>> /\ isSingleState = FALSE
    /\ PROC_STATE = 0 /\ WAIT_N_COUNTER = 0
    /\ at = prog.first /\ left = 1
    /\ out = Hold /\ done = Hold

-----------------------------------------------------------------------------
(* Constant propagation reaches a wait() along a path. *)

getOrInsertStateID(w, maxWaitCycles) ==
    IF w \in Found THEN UNCHANGED <<statesVec, maxWaitN, waitNSet, firstWaitN>>
    ELSE /\ statesVec' = Append(statesVec, w)
         /\ firstWaitN' = (firstWaitN \/ (statesVec = <<>> /\ maxWaitCycles > 1))
         /\ IF maxWaitCycles > 1
            THEN /\ maxWaitN' = IF maxWaitCycles > maxWaitN THEN maxWaitCycles ELSE maxWaitN
                 /\ waitNSet' = waitNSet \cup {Len(statesVec)}
            ELSE UNCHANGED <<maxWaitN, waitNSet>>

Analyse(path) ==
    LET w == Target(path) IN
    /\ phase = "analyse" /\ path \in pending
    /\ getOrInsertStateID(w, prog.N[w])
    /\ pending' = (pending \ {path})
                  \cup IF w \in Found THEN {} ELSE {<<w, input>> : input \in Inputs}
    /\ waitSuccsSet' = waitSuccsSet \cup {prog.succ[w]}
    /\ waitMaxLoopLevel' = IF prog.level[w] > waitMaxLoopLevel THEN prog.level[w]
                           ELSE waitMaxLoopLevel
    /\ UNCHANGED <<prog, phase, fsm, regs, at, left, out, done>>

-----------------------------------------------------------------------------
(* Code generation. *)

hasWaitNState == waitNSet # {}

\* isSingleState() of ScTraverseConst: the waits have one successor, a statement
\* without its call stack.
OneSuccessor == /\ ~hasWaitNState /\ waitMaxLoopLevel = 1
                /\ \E stmt \in Stmts : waitSuccsSet = {stmt}

TextNoWait(id) ==           \* mutant: the count down is left out of the comparison
    LET w == Wait(id) IN
    [layout |-> prog.layout[w], waits |-> {},
     body |-> [input \in Inputs |-> [act |-> prog.code[w][input].act,
                                     next |-> getStateID(prog.code[w][input].next)]]]
\* The text generated for a state in the first stage: it names the IDs of the
\* next states and, in a wait(int) state, its own.
Text(id) ==
    LET w == Wait(id) IN
    [layout |-> prog.layout[w],
     waits |-> IF prog.int[w] THEN {id} ELSE {},
     body |-> [input \in Inputs |-> [act |-> prog.code[w][input].act,
                                     next |-> getStateID(prog.code[w][input].next)]]]

\* States are compared in the order of their IDs, so each is replaced by the
\* first with its text.
Replacement(id) ==
    CHOOSE i \in IDs : /\ Text(i) = Text(id)
                       /\ \A j \in IDs : Text(j) = Text(id) => i <= j

\* The waits that generated code leads to: of one state, or of all.
Reached == IF OneSuccessor
           THEN {prog.first} \cup {prog.code[Wait(0)][input].next : input \in Inputs}
           ELSE Found

\* wait(int) needs the name of a counter; an N above one in this thread creates
\* it, and one in a thread before left it.
CounterMissing == ~hasWaitNState /\ prog.earlier = 0 /\ \E w \in Reached : prog.int[w]

\* Two threads assign the counter: this one without N above one that of a thread
\* before, or one after it this thread's.
CounterShared == IF hasWaitNState THEN prog.later
                 ELSE prog.earlier > 0 /\ \E w \in Found : prog.int[w]

CounterValues == Values(IF hasWaitNState THEN maxWaitN ELSE prog.earlier)

\* SystemVerilog lets one always_comb, one always_ff assign a variable: what a
\* counter with two of each takes is anything.
SetCounter(value) == IF CounterShared THEN WAIT_N_COUNTER' \in 0 .. CounterValues - 1
                     ELSE WAIT_N_COUNTER' = value

\* The reset branch of always_ff.  The counter set by a first wait(int) is
\* overwritten unless that is a wait(N) with N above one.
ResetBranch(replaced) ==
    /\ PROC_STATE' = replaced[getStateID(prog.first)]
    /\ SetCounter(IF hasWaitNState /\ ~firstWaitN THEN 0
                  ELSE IF prog.int[prog.first] THEN prog.N[prog.first]
                  ELSE WAIT_N_COUNTER)
    /\ out' = ResetAct

\* The thread restarts: its reset section ends in the first wait().
RestartThread == /\ at' = prog.first /\ left' = prog.N[prog.first]
                 /\ done' = ResetAct

\* ThreadBuilder::run after constant propagation; the module starts in reset.
Generate ==
    LET replaced == [id \in IDs |-> IF OneSuccessor THEN id ELSE Replacement(id)]
    IN /\ phase = "analyse" /\ pending = {} /\ ~CounterMissing
       /\ phase' = "run"
       /\ replacedStates' = replaced
       /\ isSingleState' = \/ OneSuccessor
                           \/ Len(statesVec) = 2 /\ \E id \in IDs : replaced[id] # id
       /\ ResetBranch(replaced)
       /\ RestartThread
       /\ UNCHANGED <<prog, translator>>

Refuse == /\ phase = "analyse" /\ pending = {} /\ CounterMissing
          /\ phase' = "refused"
          /\ UNCHANGED <<prog, translator, fsm, regs, at, left, out, done>>

-----------------------------------------------------------------------------
(* The generated module. *)

\* The branches of the case, and the one whose code a single-state module is.
Branches == {id \in IDs : replacedStates[id] = id}
Current == IF isSingleState THEN 0 ELSE PROC_STATE

\* Head of a wait(int) state: count down and stay.
Counting(id) == prog.int[Wait(id)] /\ WAIT_N_COUNTER # 1

NextStateUnreplaced(w) == getStateID(w)     \* mutant: first stage's state names
\* The value assigned to PROC_STATE_next where the code reaches wait w.
NextState(w) == replacedStates[getStateID(w)] % IndexValues(Len(statesVec))

\* always_comb (the assignments to _next) and always_ff without reset.
ModuleStep(input) ==
    IF Current \notin Branches
    THEN out' = Hold /\ SetCounter(WAIT_N_COUNTER) /\ UNCHANGED PROC_STATE
    ELSE IF Counting(Current)
    THEN /\ SetCounter((WAIT_N_COUNTER - 1) % CounterValues)
         /\ UNCHANGED PROC_STATE
         /\ out' = Hold
    ELSE LET path == prog.code[Wait(Current)][input] IN
         /\ out' = path.act
         /\ SetCounter(IF prog.int[path.next] THEN prog.N[path.next] % CounterValues
                       ELSE WAIT_N_COUNTER)
         /\ PROC_STATE' = IF isSingleState THEN PROC_STATE
                          ELSE NextState(path.next)

\* The thread, as the SystemC kernel runs it: wait(N) returns at the N-th edge.
ThreadStep(input) ==
    IF left > 1
    THEN left' = left - 1 /\ done' = Hold /\ UNCHANGED at
    ELSE LET path == prog.code[at][input] IN
         done' = path.act /\ at' = path.next /\ left' = prog.N[path.next]

ClockEdge(input) ==
    /\ phase = "run"
    /\ ModuleStep(input) /\ ThreadStep(input)
    /\ UNCHANGED <<prog, phase, translator, fsm>>

Reset ==
    /\ phase = "run"
    /\ ResetBranch(replacedStates) /\ RestartThread
    /\ UNCHANGED <<prog, phase, translator, fsm>>

Next == \/ \E path \in pending : Analyse(path)
        \/ Generate \/ Refuse
        \/ \E input \in Inputs : ClockEdge(input)
        \/ Reset

\* The translator goes on and the clock ticks.
Fairness == /\ WF_vars(\E path \in pending : Analyse(path)) /\ WF_vars(Generate)
            /\ WF_vars(\E input \in Inputs : ClockEdge(input))

Spec == Init /\ [][Next]_vars /\ Fairness

-----------------------------------------------------------------------------
(* Properties. *)

\* A thread whose reset section ends in wait(1) and that also has a wait(N).
WaitOneFirst == prog.int[prog.first] /\ prog.N[prog.first] = 1

\* A state of the module counts with a counter that another thread assigns too.
\* The only state of a module without PROC_STATE is that of the first wait().
CountsShared == CounterShared /\ (isSingleState => prog.int[prog.first])

\* The waits of a function called in several places have one successor and are
\* taken for one state, though not the same code follows them.
MistakenSingle == OneSuccessor /\ \E v, w \in Found : prog.code[v] # prog.code[w]

\* What the documentation says: "This counter is set at entry to wait(N) state
\* and decremented at wait(N) state until becomes one.  There is one counter per
\* thread process", and a thread of one state has "all the after-reset logic" in
\* always_comb, so that the module does in every cycle what the thread does.
FollowsThread == out = done

\* But for these three, the module is always in the state that stands for the
\* thread's wait(), with as many cycles to count as the thread has to wait,
\* whatever states were merged or found to be one, and it does in every cycle
\* what the thread does.
InStep ==
    phase = "run" /\ ~WaitOneFirst /\ ~CountsShared /\ ~MistakenSingle =>
        /\ FollowsThread
        /\ isSingleState \/ PROC_STATE = replacedStates[getStateID(at)]
        /\ IF isSingleState \/ ~prog.int[at] THEN left = 1 ELSE WAIT_N_COUNTER = left

\* Every wait() of the module ends: no counter of its own misses one, no
\* PROC_STATE is left without a branch.
NoEndlessWait == []<>(phase = "run" /\ ~CountsShared => out # Hold)
=============================================================================
