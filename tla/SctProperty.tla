----------------------------- MODULE SctProperty -----------------------------
(***************************************************************************)
(* Temporal assertions of module scope: SCT_ASSERT(LHS, TIME, RHS, EVENT)   *)
(* and its STABLE, ROSE and FELL forms.  They exist twice:                  *)
(*   - in SystemC simulation a process spawned for the assertion runs       *)
(*     sct_property::check() at every event, with two rings of past values; *)
(*   - the translator writes an SVA property, whose meaning is that of the  *)
(*     SystemVerilog standard.                                              *)
(* One ClockEdge is one occurrence of EVENT.  A violation is printed; the   *)
(* sc_assert after it stops the simulation only where it is compiled in, so *)
(* the model goes on.                                                       *)
(***************************************************************************)
EXTENDS Integers

CONSTANTS
    Values,         \* the values of RHS in the STABLE, ROSE and FELL forms
    Configs         \* the assertions written

\* kind: the macro, that is StableType; time: the two arguments of SCT_TIME, in
\* any order, or the one argument twice.
Kind == {"none", "stable", "rose", "fell"}
Config == [kind : Kind, time : Nat \X Nat]

LoTime(c) == IF c.time[1] > c.time[2] THEN c.time[2] ELSE c.time[1]
HiTime(c) == IF c.time[1] > c.time[2] THEN c.time[1] ELSE c.time[2]

\* The assertions of init(), and those of parseSvaTime() in the translator.
Accepted(c) ==
    c.kind # "none" => /\ c.kind = "stable" \/ HiTime(c) = LoTime(c)
                       /\ LoTime(c) \in {0, 1}

Assertions == {c \in Configs : c \in Config /\ Accepted(c)}

\* The type of RHS: bool, except where RHS is compared with its own past.  The
\* rings begin with zeros.
RT(c) == IF c.kind = "none" THEN {0, 1} ELSE Values \cup {0}

VARIABLES
    cfg,            \* the assertion
    initalized,     \* init() was called
    prop,           \* the other members of sct_property
    reported,       \* check() reported a violation at the last edge
    hist            \* history: what LHS and RHS were k edges ago

vars == <<cfg, initalized, prop, reported, hist>>

-----------------------------------------------------------------------------
(* SystemC simulation. *)

\* Rings of n values.
Ring(n, v) == [i \in 0 .. n - 1 |-> v]
NextIndx(i, n) == (i + 1) % n

\* init(loTime, hiTime): the rings hold what LHS was up to hi cycles ago, and RHS
\* in the window before the present cycle, of one more cycle if changes matter.
init(c) ==
    LET timeInt == HiTime(c) - LoTime(c) IN
    [pastSize |-> HiTime(c), timeInt |-> timeInt,
     leftPast |-> Ring(HiTime(c), FALSE),
     rightPast |-> Ring(IF c.kind = "none" THEN timeInt ELSE timeInt + 1, 0),
     lindx |-> 0, rindx |-> 0]

\* lcond and rcond of the two check() functions, p the members.
LCond(p, lexpr) == IF p.pastSize > 0 THEN p.leftPast[p.lindx] ELSE lexpr
RCond(p, rexpr) ==
    LET past(i) == p.rightPast[i]
        window == 0 .. p.timeInt - 1
    IN CASE cfg.kind = "none"   -> rexpr = 1 \/ \E i \in window : past(i) = 1
         [] cfg.kind = "stable" -> /\ rexpr = past(0)
                                   /\ \A i \in window : rexpr = past(i + 1)
         [] cfg.kind = "rose"   -> rexpr > past(0)
         [] cfg.kind = "fell"   -> rexpr < past(0)

\* What they store for the edges to come.
Stored(p, lexpr, rexpr) ==
    LET n == IF cfg.kind = "none" THEN p.timeInt ELSE p.timeInt + 1 IN
    [p EXCEPT
       !.leftPast = IF p.pastSize > 0 THEN [@ EXCEPT ![p.lindx] = lexpr] ELSE @,
       !.lindx = IF p.pastSize > 0 THEN NextIndx(@, p.pastSize) ELSE @,
       !.rightPast = IF n > 0 THEN [@ EXCEPT ![p.rindx] = rexpr] ELSE @,
       !.rindx = IF p.timeInt > 0 THEN NextIndx(@, n) ELSE @]

-----------------------------------------------------------------------------
(* The generated SVA: after LHS, some delay in from .. to after which RHS, or *)
(* $stable, $rose, $fell of RHS, holds in "repeat" consecutive cycles.        *)

\* parseSvaTime() and putTemporalAssert().
Sva(c) ==
    [from |-> LoTime(c),
     to |-> IF c.kind = "none" THEN HiTime(c) ELSE LoTime(c),
     repeat |-> IF c.kind = "stable" THEN HiTime(c) - LoTime(c) + 1 ELSE 1]

\* RHS and the sampled value functions, age edges ago; $rose and $fell look at
\* the lowest bit of RHS alone.
Sampled(kind, age) ==
    LET now == hist[age].r
        before == hist[age + 1].r
    IN CASE kind = "none"   -> now # 0
         [] kind = "stable" -> now = before
         [] kind = "rose"   -> now % 2 = 1 /\ before % 2 = 0
         [] kind = "fell"   -> now % 2 = 0 /\ before % 2 = 1

\* Has the attempt that began "age" edges ago failed by now?
SvaFails(sva, kind, age) ==
    /\ hist[age].l
    /\ ~ \E delay \in sva.from .. sva.to :
            \A i \in 0 .. sva.repeat - 1 : Sampled(kind, age - delay - i)

-----------------------------------------------------------------------------

Sample(c) == [l : BOOLEAN, r : RT(c)]

Init ==
    /\ cfg \in Assertions
    /\ initalized = FALSE /\ prop = init(cfg)
    /\ reported = FALSE
    /\ hist = [k \in 0 .. HiTime(cfg) + 1 |-> [l |-> FALSE, r |-> 0]]

\* operator(): init() at the first edge, then check(lexpr(), rexpr()).
ClockEdge(s) ==
    LET p == IF initalized THEN prop ELSE init(cfg) IN
    /\ reported' = (LCond(p, s.l) /\ ~RCond(p, s.r))
    /\ prop' = Stored(p, s.l, s.r)
    /\ initalized' = TRUE
    /\ hist' = [k \in DOMAIN hist |-> IF k = 0 THEN s ELSE hist[k - 1]]
    /\ UNCHANGED cfg

Next == \E s \in Sample(cfg) : ClockEdge(s)

Spec == Init /\ [][Next]_vars

-----------------------------------------------------------------------------
(* Properties. *)

\* "These assertions ... have the same semantic in SystemC and SystemVerilog
\* simulation": check() reports a violation exactly at the edges that end the
\* window of an attempt at which the generated SVA fails.
SameVerdict == reported = SvaFails(Sva(cfg), cfg.kind, HiTime(cfg))

\* They do as long as what rises or falls is one bit wide.
SameVerdictOnBits ==
    (cfg.kind \in {"rose", "fell"} => hist[0].r \in {0, 1} /\ hist[1].r \in {0, 1})
        => SameVerdict
=============================================================================
