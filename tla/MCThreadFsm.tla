------------------------------ MODULE MCThreadFsm ------------------------------
(* Model-checking instances of ThreadFsm: every graph of up to three wait()  *)
(* calls with two branches each, with the kinds of wait below.  Which of the *)
(* two acts follows the first wait does not matter.                          *)
EXTENDS ThreadFsm

\* N per wait; 0 is a plain wait().
Kinds == {<<0, 0, 0>>, <<0, 3, 0>>, <<2, 1, 4>>, <<1, 0, 2>>}
Body(act) == {[input \in Inputs |-> [act |-> act, next |-> next[input]]] :
                next \in [Inputs -> Waits]}
Code == {<<b1, b2, b3>> : b1 \in Body("x"), b2 \in Body("x") \cup Body("y"),
                          b3 \in Body("x") \cup Body("y")}
Thread(kind, code) ==
    [first |-> 1, int |-> [w \in Waits |-> kind[w] > 0],
     N |-> [w \in Waits |-> IF kind[w] = 0 THEN 1 ELSE kind[w]],
     code |-> code, succ |-> [w \in Waits |-> w], level |-> [w \in Waits |-> 1],
     layout |-> [w \in Waits |-> "a"], earlier |-> 0, later |-> FALSE]

\* The waits have one successor, in the main loop or in a loop inside it.
SameSucc(kind, code, level) ==
    [Thread(kind, code) EXCEPT !.succ = [w \in Waits |-> 1],
                               !.level = [w \in Waits |-> level]]
\* The wait of a function called twice, and one of the main loop.
TwoOfThree(kind, code) == [Thread(kind, code) EXCEPT !.succ = <<1, 2, 2>>]
\* The largest N of a thread before it, and whether one after takes its counter.
Beside(thread, earlier, later) ==
    [thread EXCEPT !.earlier = earlier, !.later = later]

\* One thread whose three waits are followed by the same code.
Alike == {<<b, b, b>> : b \in Body("x")}

Threads ==
    {Thread(kind, code) : kind \in Kinds, code \in Code}
    \cup {[Thread(<<0, 0, 0>>, <<b1, b2, b2>>) EXCEPT !.layout[3] = "b"] :
             b1 \in Body("x"), b2 \in Body("y")}
    \cup {SameSucc(kind, code, level) : kind \in {<<0, 0, 0>>, <<0, 3, 0>>},
                                        code \in Alike, level \in 1 .. 2}
    \cup {TwoOfThree(<<0, 0, 0>>, <<b1, b2, b3>>) :
             b1 \in Body("x"), b2 \in Body("x"), b3 \in Body("y")}
    \* wait(1) only: refused, or with the counter of the thread before
    \cup {Beside(Thread(kind, code), earlier, FALSE) :
             kind \in {<<0, 1, 0>>, <<1, 0, 0>>}, code \in Alike, earlier \in {0, 3}}
    \cup {Beside(SameSucc(kind, code, 1), earlier, FALSE) :
             kind \in {<<0, 1, 1>>, <<1, 1, 1>>}, code \in Alike, earlier \in {0, 3}}
    \cup {Beside(Thread(<<0, 3, 0>>, code), 2, later) :
             code \in Alike, later \in BOOLEAN}

\* A thread that begins with wait(1) and goes on with wait(2).
WaitOneThread == {Thread(<<1, 0, 2>>, code) : code \in Alike}

\* A thread with a wait(1) after one with a wait(3).
SharedCounterThread == {Beside(Thread(<<0, 1, 0>>, code), 3, FALSE) : code \in Alike}

\* A function whose wait() is last but for one statement is called in several
\* places of the main loop.
CalledTwiceThread == {SameSucc(<<0, 0, 0>>, code, 1) : code \in Code}
=============================================================================
