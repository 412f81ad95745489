-------------------------- MODULE SctPropertyProofs --------------------------
(***************************************************************************)
(* SameVerdictOnBits for every assertion accepted, of any time span.  The   *)
(* inductive invariant says where in the rings the past values are: walking *)
(* back from the index, cyclically, one meets the values of the last edges, *)
(* the newest first.                                                        *)
(***************************************************************************)
EXTENDS SctProperty, WellFoundedInduction, TLAPS

\* Entry i of a ring of n values with index x was stored Age edges ago.
Age(i, x, n) == IF i < x THEN x - 1 - i ELSE x - 1 - i + n

RightSize(c) == IF c.kind = "none" THEN HiTime(c) - LoTime(c)
                ELSE HiTime(c) - LoTime(c) + 1

LeftInv(p, h) ==
    \A i \in 0 .. HiTime(cfg) - 1 :
        p.leftPast[i] = h[Age(i, p.lindx, HiTime(cfg))].l
RightInv(p, h) ==
    \A i \in 0 .. RightSize(cfg) - 1 :
        p.rightPast[i] = h[Age(i, p.rindx, RightSize(cfg))].r

\* What init() establishes and check() preserves.
MemberType(c) ==
    [pastSize : {HiTime(c)}, timeInt : {HiTime(c) - LoTime(c)},
     leftPast : [0 .. HiTime(c) - 1 -> BOOLEAN],
     rightPast : [0 .. RightSize(c) - 1 -> RT(c)],
     lindx : Nat, rindx : Nat]
IndexInv(p) ==
    /\ p.lindx = 0 \/ p.lindx < HiTime(cfg)
    /\ p.rindx = 0 \/ p.rindx < RightSize(cfg)

Members(p, h) ==
    p \in MemberType(cfg) /\ IndexInv(p) /\ LeftInv(p, h) /\ RightInv(p, h)

Blank(c) == [k \in 0 .. HiTime(c) + 1 |-> [l |-> FALSE, r |-> 0]]
Shifted(h, s) == [k \in DOMAIN h |-> IF k = 0 THEN s ELSE h[k - 1]]

Inv ==
    /\ cfg \in Assertions
    /\ initalized \in BOOLEAN
    /\ hist \in [0 .. HiTime(cfg) + 1 -> Sample(cfg)]
    /\ IF initalized THEN Members(prop, hist) ELSE hist = Blank(cfg)

-----------------------------------------------------------------------------

(* The times of an assertion are natural numbers, in order. *)
LEMMA Times ==
    ASSUME NEW c \in Assertions
    PROVE  /\ c.kind \in Kind
           /\ LoTime(c) \in Nat /\ HiTime(c) \in Nat /\ LoTime(c) <= HiTime(c)
           /\ RightSize(c) \in Nat
           /\ RightSize(c) = IF c.kind = "none" THEN HiTime(c) - LoTime(c)
                             ELSE HiTime(c) - LoTime(c) + 1
           /\ c.kind \in {"rose", "fell"} => HiTime(c) = LoTime(c)
<1>1. c \in Config /\ Accepted(c)
  BY DEF Assertions
<1>2. c.kind \in Kind /\ c.time[1] \in Nat /\ c.time[2] \in Nat
  BY <1>1 DEF Config
<1>3. LoTime(c) \in Nat /\ HiTime(c) \in Nat /\ LoTime(c) <= HiTime(c)
  BY <1>2 DEF LoTime, HiTime
<1> QED
  BY <1>1, <1>2, <1>3 DEF RightSize, Accepted, Kind

(* The ring index moves to the next entry, and from the last to the first. *)
LEMMA NextIndxIs ==
    ASSUME NEW n \in Nat, NEW i \in Nat, i < n
    PROVE  NextIndx(i, n) = IF i + 1 = n THEN 0 ELSE i + 1
<1>1. CASE i + 1 = n
  <2>1. n % n = 0
    BY SMT
  <2> QED
    BY <1>1, <2>1 DEF NextIndx
<1>2. CASE i + 1 < n
  <2>1. (i + 1) % n = i + 1
    BY <1>2, SMT
  <2> QED
    BY <1>2, <2>1 DEF NextIndx
<1> QED
  BY <1>1, <1>2

(* When the index moves on, the entry just stored has age zero and the others *)
(* grow older by one.                                                         *)
LEMMA AgeStep ==
    ASSUME NEW n \in Nat, NEW i \in 0 .. n - 1, NEW x \in Nat, x < n,
           NEW y, y = IF x + 1 = n THEN 0 ELSE x + 1
    PROVE  /\ i = x => Age(i, y, n) = 0
           /\ i # x => Age(i, y, n) = Age(i, x, n) + 1
           /\ Age(i, x, n) \in 0 .. n - 1
BY DEF Age

(* The cycles of a window, counted from its other end. *)
LEMMA Reversed ==
    ASSUME NEW hi \in Nat, NEW lo \in Nat, lo <= hi, NEW a \in 0 .. hi - lo
    PROVE  /\ (hi - lo) - a \in 0 .. hi - lo
           /\ hi - lo - ((hi - lo) - a) = a
OBVIOUS

(* A value that is equal at every two edges that follow each other is the    *)
(* same at all of them.                                                      *)
LEMMA StableChain ==
    ASSUME NEW n \in Nat, NEW f,
           \A a \in 0 .. n : f[a] = f[a + 1]
    PROVE  \A a \in 0 .. n + 1 : f[a] = f[0]
<1> DEFINE T == {a \in 0 .. n + 1 : f[a] # f[0]}
<1>1. SUFFICES ASSUME T # {}
               PROVE  FALSE
  OBVIOUS
<1>2. T \subseteq Nat
  OBVIOUS
<1> HIDE DEF T
<1>3. \E x \in T : \A y \in T : ~ (<<y, x>> \in OpToRel(<, Nat))
  BY <1>1, <1>2, WFMin, NatLessThanWellFounded, Zenon
<1>4. PICK x \in T : \A y \in T : ~ (<<y, x>> \in OpToRel(<, Nat))
  BY <1>3
<1>5. \A y \in T : ~ (y < x)
  BY <1>2, <1>4 DEF OpToRel
<1>6. x \in 0 .. n + 1 /\ f[x] # f[0]
  BY DEF T
<1>7. x # 0 /\ x - 1 \in 0 .. n
  BY <1>6
<1>8. f[x - 1] = f[x]
  <2>1. f[x - 1] = f[(x - 1) + 1] /\ (x - 1) + 1 = x
    BY <1>6, <1>7
  <2> QED
    BY <2>1
<1>9. x - 1 \in T
  BY <1>6, <1>7, <1>8 DEF T
<1> QED
  BY <1>5, <1>6, <1>9

-----------------------------------------------------------------------------

(* init() sets up rings that say that nothing was seen yet. *)
LEMMA InitMembers ==
    ASSUME cfg \in Assertions
    PROVE  Members(init(cfg), Blank(cfg))
<1> DEFINE H == HiTime(cfg)
           n == RightSize(cfg)
           p == init(cfg)
<1>1. /\ LoTime(cfg) \in Nat /\ H \in Nat /\ LoTime(cfg) <= H /\ n \in Nat
  BY Times
<1>2. /\ p.pastSize = H /\ p.timeInt = H - LoTime(cfg)
      /\ p.leftPast = [i \in 0 .. H - 1 |-> FALSE]
      /\ p.rightPast = [i \in 0 .. n - 1 |-> 0]
      /\ p.lindx = 0 /\ p.rindx = 0
  BY DEF init, Ring, RightSize
<1>3. p = [pastSize |-> p.pastSize, timeInt |-> p.timeInt, leftPast |-> p.leftPast,
           rightPast |-> p.rightPast, lindx |-> p.lindx, rindx |-> p.rindx]
  BY DEF init
<1>4. 0 \in RT(cfg)
  BY DEF RT
<1> HIDE DEF p
<1>5. p \in MemberType(cfg)
  <2>1. /\ p.leftPast \in [0 .. H - 1 -> BOOLEAN]
        /\ p.rightPast \in [0 .. n - 1 -> RT(cfg)]
        /\ p.lindx \in Nat /\ p.rindx \in Nat
    BY <1>2, <1>4
  <2> QED
    BY <1>2, <1>3, <2>1 DEF MemberType
<1>6. IndexInv(p)
  BY <1>2 DEF IndexInv
<1>7. LeftInv(p, Blank(cfg))
  <2>1. SUFFICES ASSUME NEW i \in 0 .. H - 1
                 PROVE  p.leftPast[i] = Blank(cfg)[Age(i, p.lindx, H)].l
    BY DEF LeftInv
  <2>2. Age(i, p.lindx, H) \in 0 .. H + 1
    BY <1>1, <1>2 DEF Age
  <2>3. Blank(cfg)[Age(i, p.lindx, H)].l = FALSE
    BY <2>2 DEF Blank
  <2>4. p.leftPast[i] = FALSE
    BY <1>2
  <2> QED
    BY <2>3, <2>4, Zenon
<1>8. RightInv(p, Blank(cfg))
  BY <1>1, <1>2, Times DEF RightInv, Blank, Age
<1> QED
  BY <1>5, <1>6, <1>7, <1>8 DEF Members, p

(* What check() stores, entry by entry. *)
LEMMA StoredIs ==
    ASSUME cfg \in Assertions, NEW p \in MemberType(cfg), IndexInv(p),
           NEW l \in BOOLEAN, NEW r \in RT(cfg)
    PROVE  LET H == HiTime(cfg)
               n == RightSize(cfg)
               q == Stored(p, l, r)
           IN /\ q \in MemberType(cfg)
              /\ \A i \in 0 .. H - 1 :
                    q.leftPast[i] = IF i = p.lindx THEN l ELSE p.leftPast[i]
              /\ \A i \in 0 .. n - 1 :
                    q.rightPast[i] = IF i = p.rindx THEN r ELSE p.rightPast[i]
              /\ H > 0 => q.lindx = IF p.lindx + 1 = H THEN 0 ELSE p.lindx + 1
              /\ H = 0 => q.lindx = p.lindx
              /\ n > 0 => q.rindx = IF p.rindx + 1 = n THEN 0 ELSE p.rindx + 1
              /\ n = 0 => q.rindx = p.rindx
<1> DEFINE H == HiTime(cfg)
           n == RightSize(cfg)
           q == Stored(p, l, r)
<1>1. /\ LoTime(cfg) \in Nat /\ H \in Nat /\ LoTime(cfg) <= H /\ n \in Nat
      /\ n = IF cfg.kind = "none" THEN H - LoTime(cfg) ELSE H - LoTime(cfg) + 1
  BY Times
<1>2. /\ p.pastSize = H /\ p.timeInt = H - LoTime(cfg)
      /\ p.leftPast \in [0 .. H - 1 -> BOOLEAN]
      /\ p.rightPast \in [0 .. n - 1 -> RT(cfg)]
      /\ p.lindx \in Nat /\ p.rindx \in Nat
      /\ p.lindx = 0 \/ p.lindx < H
      /\ p.rindx = 0 \/ p.rindx < n
  BY DEF MemberType, IndexInv
<1>3. /\ q.pastSize = p.pastSize /\ q.timeInt = p.timeInt
      /\ q.leftPast = IF H > 0 THEN [p.leftPast EXCEPT ![p.lindx] = l] ELSE p.leftPast
      /\ q.lindx = IF H > 0 THEN NextIndx(p.lindx, H) ELSE p.lindx
      /\ q.rightPast = IF n > 0 THEN [p.rightPast EXCEPT ![p.rindx] = r] ELSE p.rightPast
      /\ q.rindx = IF p.timeInt > 0 THEN NextIndx(p.rindx, n) ELSE p.rindx
      /\ q = [pastSize |-> q.pastSize, timeInt |-> q.timeInt, leftPast |-> q.leftPast,
              rightPast |-> q.rightPast, lindx |-> q.lindx, rindx |-> q.rindx]
  <2> DEFINE left == IF H > 0 THEN [p.leftPast EXCEPT ![p.lindx] = l] ELSE p.leftPast
             lnext == IF H > 0 THEN NextIndx(p.lindx, H) ELSE p.lindx
             right == IF n > 0 THEN [p.rightPast EXCEPT ![p.rindx] = r] ELSE p.rightPast
             rnext == IF p.timeInt > 0 THEN NextIndx(p.rindx, n) ELSE p.rindx
  <2>1. n = IF cfg.kind = "none" THEN p.timeInt ELSE p.timeInt + 1
    BY <1>1, <1>2
  <2>2. q = [p EXCEPT !.leftPast = left, !.lindx = lnext,
                      !.rightPast = right, !.rindx = rnext]
    BY <1>2, <2>1, Zenon DEF Stored
  <2>3. p = [pastSize |-> p.pastSize, timeInt |-> p.timeInt, leftPast |-> p.leftPast,
             rightPast |-> p.rightPast, lindx |-> p.lindx, rindx |-> p.rindx]
    BY DEF MemberType
  <2> HIDE DEF left, lnext, right, rnext, q
  <2>4. q = [pastSize |-> p.pastSize, timeInt |-> p.timeInt, leftPast |-> left,
             rightPast |-> right, lindx |-> lnext, rindx |-> rnext]
    BY <2>2, <2>3
  <2> QED
    BY <2>4 DEF left, lnext, right, rnext
<1> HIDE DEF q, n, H
<1>4. H > 0 => q.lindx = IF p.lindx + 1 = H THEN 0 ELSE p.lindx + 1
  BY <1>1, <1>2, <1>3, NextIndxIs
<1>5. n > 0 => q.rindx = IF p.rindx + 1 = n THEN 0 ELSE p.rindx + 1
  <2>1. CASE p.timeInt > 0
    BY <1>1, <1>2, <1>3, <2>1, NextIndxIs
  <2>2. CASE p.timeInt = 0
    BY <1>1, <1>2, <1>3, <2>2
  <2> QED
    BY <1>1, <1>2, <2>1, <2>2
<1>6. n = 0 => q.rindx = p.rindx
  BY <1>1, <1>2, <1>3
<1>7. q.lindx \in Nat /\ q.rindx \in Nat
  BY <1>1, <1>2, <1>3, <1>4, <1>5, <1>6
<1>8. q.leftPast \in [0 .. H - 1 -> BOOLEAN] /\ q.rightPast \in [0 .. n - 1 -> RT(cfg)]
  BY <1>1, <1>2, <1>3
<1>9. q \in MemberType(cfg)
  BY <1>2, <1>3, <1>7, <1>8 DEF MemberType, H, n
<1>10. \A i \in 0 .. H - 1 : q.leftPast[i] = IF i = p.lindx THEN l ELSE p.leftPast[i]
  BY <1>1, <1>2, <1>3
<1>11. \A i \in 0 .. n - 1 : q.rightPast[i] = IF i = p.rindx THEN r ELSE p.rightPast[i]
  BY <1>1, <1>2, <1>3
<1> QED
  BY <1>1, <1>2, <1>3, <1>4, <1>5, <1>6, <1>9, <1>10, <1>11 DEF q, n, H

(* check() leaves rings that describe the edges up to the present one. *)
LEMMA StoredMembers ==
    ASSUME cfg \in Assertions, NEW h \in [0 .. HiTime(cfg) + 1 -> Sample(cfg)],
           NEW p, Members(p, h), NEW s \in Sample(cfg)
    PROVE  Members(Stored(p, s.l, s.r), Shifted(h, s))
<1> DEFINE H == HiTime(cfg)
           n == RightSize(cfg)
           q == Stored(p, s.l, s.r)
           g == Shifted(h, s)
<1>1. /\ LoTime(cfg) \in Nat /\ H \in Nat /\ LoTime(cfg) <= H
      /\ n \in Nat /\ n <= H + 1
  BY Times
<1>2. s.l \in BOOLEAN /\ s.r \in RT(cfg)
  BY DEF Sample
<1>3. p \in MemberType(cfg) /\ IndexInv(p) /\ LeftInv(p, h) /\ RightInv(p, h)
  BY DEF Members
<1>4. /\ p.lindx \in Nat /\ p.rindx \in Nat
      /\ p.lindx = 0 \/ p.lindx < H
      /\ p.rindx = 0 \/ p.rindx < n
  BY <1>3 DEF MemberType, IndexInv
<1>5. /\ q \in MemberType(cfg)
      /\ \A i \in 0 .. H - 1 : q.leftPast[i] = IF i = p.lindx THEN s.l ELSE p.leftPast[i]
      /\ \A i \in 0 .. n - 1 : q.rightPast[i] = IF i = p.rindx THEN s.r ELSE p.rightPast[i]
      /\ H > 0 => q.lindx = IF p.lindx + 1 = H THEN 0 ELSE p.lindx + 1
      /\ H = 0 => q.lindx = p.lindx
      /\ n > 0 => q.rindx = IF p.rindx + 1 = n THEN 0 ELSE p.rindx + 1
      /\ n = 0 => q.rindx = p.rindx
  BY <1>2, <1>3, StoredIs
<1>6. \A k \in 0 .. H + 1 : g[k] = IF k = 0 THEN s ELSE h[k - 1]
  BY DEF Shifted
<1>7. /\ \A i \in 0 .. H - 1 : p.leftPast[i] = h[Age(i, p.lindx, H)].l
      /\ \A i \in 0 .. n - 1 : p.rightPast[i] = h[Age(i, p.rindx, n)].r
  BY <1>3 DEF LeftInv, RightInv
<1> HIDE DEF q, n, H, g
<1>8. ASSUME NEW i \in 0 .. H - 1
      PROVE  q.leftPast[i] = g[Age(i, q.lindx, H)].l
  <2>1. p.lindx < H /\ q.lindx = IF p.lindx + 1 = H THEN 0 ELSE p.lindx + 1
    BY <1>1, <1>4, <1>5
  <2>2. /\ i = p.lindx => Age(i, q.lindx, H) = 0
        /\ i # p.lindx => Age(i, q.lindx, H) = Age(i, p.lindx, H) + 1
        /\ Age(i, p.lindx, H) \in 0 .. H - 1
    BY <1>1, <1>4, <2>1, AgeStep
  <2>3. q.leftPast[i] = IF i = p.lindx THEN s.l ELSE p.leftPast[i]
    BY <1>5
  <2>4. CASE i = p.lindx
    BY <1>1, <1>6, <2>2, <2>3, <2>4
  <2>5. CASE i # p.lindx
    <3> DEFINE a == Age(i, p.lindx, H)
    <3>1. p.leftPast[i] = h[a].l
      BY <1>7
    <3> HIDE DEF a
    <3>2. a \in 0 .. H - 1 /\ Age(i, q.lindx, H) = a + 1
      BY <2>2, <2>5 DEF a
    <3>3. g[a + 1] = h[a]
      BY <1>1, <1>6, <3>2
    <3> QED
      BY <2>3, <2>5, <3>1, <3>2, <3>3
  <2> QED
    BY <2>4, <2>5
<1>9. ASSUME NEW i \in 0 .. n - 1
      PROVE  q.rightPast[i] = g[Age(i, q.rindx, n)].r
  <2>1. p.rindx < n /\ q.rindx = IF p.rindx + 1 = n THEN 0 ELSE p.rindx + 1
    BY <1>1, <1>4, <1>5
  <2>2. /\ i = p.rindx => Age(i, q.rindx, n) = 0
        /\ i # p.rindx => Age(i, q.rindx, n) = Age(i, p.rindx, n) + 1
        /\ Age(i, p.rindx, n) \in 0 .. n - 1
    BY <1>1, <1>4, <2>1, AgeStep
  <2>3. q.rightPast[i] = IF i = p.rindx THEN s.r ELSE p.rightPast[i]
    BY <1>5
  <2>4. CASE i = p.rindx
    BY <1>1, <1>6, <2>2, <2>3, <2>4
  <2>5. CASE i # p.rindx
    <3> DEFINE a == Age(i, p.rindx, n)
    <3>1. p.rightPast[i] = h[a].r
      BY <1>7
    <3> HIDE DEF a
    <3>2. a \in 0 .. n - 1 /\ Age(i, q.rindx, n) = a + 1
      BY <2>2, <2>5 DEF a
    <3>3. g[a + 1] = h[a]
      BY <1>1, <1>6, <3>2
    <3> QED
      BY <2>3, <2>5, <3>1, <3>2, <3>3
  <2> QED
    BY <2>4, <2>5
<1>10. /\ q.lindx = 0 \/ q.lindx < H
       /\ q.rindx = 0 \/ q.rindx < n
  BY <1>1, <1>4, <1>5
<1> QED
  BY <1>5, <1>8, <1>9, <1>10 DEF Members, IndexInv, LeftInv, RightInv, n, H, q, g

(* Every age below the size of a ring belongs to one of its entries. *)
LEMMA AgeOnto ==
    ASSUME NEW n \in Nat, NEW a \in 0 .. n - 1, NEW x \in Nat, x < n
    PROVE  \E i \in 0 .. n - 1 : Age(i, x, n) = a
<1>1. CASE a < x
  <2>1. x - 1 - a \in 0 .. n - 1 /\ Age(x - 1 - a, x, n) = a
    BY <1>1 DEF Age
  <2> QED
    BY <2>1
<1>2. CASE ~(a < x)
  <2>1. x - 1 - a + n \in 0 .. n - 1 /\ Age(x - 1 - a + n, x, n) = a
    BY <1>2 DEF Age
  <2> QED
    BY <2>1
<1> QED
  BY <1>1, <1>2

-----------------------------------------------------------------------------

(* What check() reads from the rings, in terms of the edges: LHS of HiTime    *)
(* edges ago, and RHS at each of the edges of the window.                     *)
LEMMA RingsRead ==
    ASSUME cfg \in Assertions, NEW h \in [0 .. HiTime(cfg) + 1 -> Sample(cfg)],
           NEW p, Members(p, h), NEW s \in Sample(cfg)
    PROVE  LET g == Shifted(h, s)
               n == RightSize(cfg)
           IN /\ LCond(p, s.l) = g[HiTime(cfg)].l
              /\ g[0] = s
              /\ \A k \in 0 .. HiTime(cfg) + 1 : g[k] \in Sample(cfg)
              /\ \A i \in 0 .. n - 1 : \E a \in 1 .. n : p.rightPast[i] = g[a].r
              /\ \A a \in 1 .. n : \E i \in 0 .. n - 1 : p.rightPast[i] = g[a].r
<1> DEFINE H == HiTime(cfg)
           n == RightSize(cfg)
           g == Shifted(h, s)
<1>1. H \in Nat /\ n \in Nat /\ n <= H + 1
  BY Times
<1>2. /\ p.pastSize = H
      /\ p.lindx \in Nat /\ p.rindx \in Nat
      /\ p.lindx = 0 \/ p.lindx < H
      /\ p.rindx = 0 \/ p.rindx < n
  BY DEF Members, MemberType, IndexInv
<1>3. /\ \A i \in 0 .. H - 1 : p.leftPast[i] = h[Age(i, p.lindx, H)].l
      /\ \A i \in 0 .. n - 1 : p.rightPast[i] = h[Age(i, p.rindx, n)].r
  BY DEF Members, LeftInv, RightInv
<1>4. \A k \in 0 .. H + 1 : g[k] = IF k = 0 THEN s ELSE h[k - 1]
  BY DEF Shifted
<1> HIDE DEF H, n, g
<1>5. LCond(p, s.l) = g[H].l
  <2>1. CASE H = 0
    BY <1>1, <1>2, <1>4, <2>1 DEF LCond
  <2>2. CASE H > 0
    <3>1. p.lindx \in 0 .. H - 1 /\ Age(p.lindx, p.lindx, H) = H - 1
      BY <1>1, <1>2, <2>2 DEF Age
    <3>2. p.leftPast[p.lindx] = h[H - 1].l /\ g[H] = h[H - 1]
      BY <1>1, <1>3, <1>4, <2>2, <3>1
    <3> QED
      BY <1>2, <2>2, <3>2 DEF LCond
  <2> QED
    BY <1>1, <2>1, <2>2
<1>6. g[0] = s /\ \A k \in 0 .. H + 1 : g[k] \in Sample(cfg)
  BY <1>1, <1>4 DEF H
<1>7. \A a \in 0 .. n - 1 : g[a + 1] = h[a]
  BY <1>1, <1>4
<1>8. ASSUME NEW i \in 0 .. n - 1
      PROVE  \E a \in 1 .. n : p.rightPast[i] = g[a].r
  <2> DEFINE a == Age(i, p.rindx, n)
  <2>1. p.rightPast[i] = h[a].r
    BY <1>3
  <2>2. a \in 0 .. n - 1
    BY <1>1, <1>2 DEF Age
  <2> HIDE DEF a
  <2>3. a + 1 \in 1 .. n /\ p.rightPast[i] = g[a + 1].r
    BY <1>1, <1>7, <2>1, <2>2
  <2> QED
    BY <2>3
<1>9. ASSUME NEW a \in 1 .. n
      PROVE  \E i \in 0 .. n - 1 : p.rightPast[i] = g[a].r
  <2>1. a - 1 \in 0 .. n - 1 /\ p.rindx < n /\ (a - 1) + 1 = a
    BY <1>1, <1>2
  <2>2. PICK i \in 0 .. n - 1 : Age(i, p.rindx, n) = a - 1
    BY <1>1, <1>2, <2>1, AgeOnto
  <2>3. p.rightPast[i] = h[a - 1].r
    BY <1>3, <2>2
  <2>4. g[a] = h[a - 1]
    BY <1>7, <2>1
  <2> QED
    BY <2>3, <2>4
<1> QED
  BY <1>5, <1>6, <1>8, <1>9 DEF H, n, g

(* The verdict of check() is that of the attempt whose window ends here. *)
LEMMA VerdictIs ==
    ASSUME cfg \in Assertions, hist \in [0 .. HiTime(cfg) + 1 -> Sample(cfg)],
           NEW p, Members(p, hist), NEW s \in Sample(cfg),
           cfg' = cfg, hist' = Shifted(hist, s),
           cfg.kind \in {"rose", "fell"} => hist'[0].r \in {0, 1} /\ hist'[1].r \in {0, 1}
    PROVE  (LCond(p, s.l) /\ ~RCond(p, s.r)) = SvaFails(Sva(cfg), cfg.kind, HiTime(cfg))'
<1> DEFINE H == HiTime(cfg)
           L == LoTime(cfg)
           T == H - L
           n == RightSize(cfg)
           g == Shifted(hist, s)
           Seen(age) == Sampled(cfg.kind, age)'
           Holds == \E delay \in Sva(cfg).from .. Sva(cfg).to :
                        \A i \in 0 .. Sva(cfg).repeat - 1 : Seen(H - delay - i)
<1>1. /\ L \in Nat /\ H \in Nat /\ L <= H /\ n \in Nat /\ cfg.kind \in Kind
      /\ n = IF cfg.kind = "none" THEN T ELSE T + 1
      /\ cfg.kind \in {"rose", "fell"} => H = L
  BY Times
<1>2. /\ LCond(p, s.l) = g[H].l
      /\ g[0] = s
      /\ \A k \in 0 .. H + 1 : g[k] \in Sample(cfg)
      /\ \A i \in 0 .. n - 1 : \E a \in 1 .. n : p.rightPast[i] = g[a].r
      /\ \A a \in 1 .. n : \E i \in 0 .. n - 1 : p.rightPast[i] = g[a].r
  BY RingsRead
<1>3. SvaFails(Sva(cfg), cfg.kind, H)' = (g[H].l /\ ~Holds)
  BY Zenon DEF SvaFails, Sva, LoTime, HiTime
<1>4. p.timeInt = T
  BY DEF Members, MemberType
<1>5. /\ Sva(cfg).from = L
      /\ Sva(cfg).to = IF cfg.kind = "none" THEN H ELSE L
      /\ Sva(cfg).repeat = IF cfg.kind = "stable" THEN T + 1 ELSE 1
  BY DEF Sva
<1>6. ASSUME NEW age
      PROVE  /\ cfg.kind = "none" => Seen(age) = (g[age].r # 0)
             /\ cfg.kind = "stable" => Seen(age) = (g[age].r = g[age + 1].r)
             /\ cfg.kind = "rose" => Seen(age) = (g[age].r % 2 = 1 /\ g[age + 1].r % 2 = 0)
             /\ cfg.kind = "fell" => Seen(age) = (g[age].r % 2 = 0 /\ g[age + 1].r % 2 = 1)
  BY DEF Sampled
<1> HIDE DEF Seen
<1>7. RCond(p, s.r) = Holds
  <2>1. CASE cfg.kind = "none"
    <3>1. n = T /\ \A k \in 0 .. H + 1 : g[k].r \in {0, 1}
      BY <1>1, <1>2, <2>1 DEF Sample, RT
    <3>2. RCond(p, s.r) = (s.r = 1 \/ \E i \in 0 .. n - 1 : p.rightPast[i] = 1)
      BY <1>4, <2>1, <3>1 DEF RCond
    <3>3. Holds = \E delay \in L .. H : g[H - delay].r # 0
      <4>1. Sva(cfg).from = L /\ Sva(cfg).to = H /\ 0 .. Sva(cfg).repeat - 1 = {0}
        BY <1>5, <2>1
      <4>2. ASSUME NEW delay \in L .. H
            PROVE  (\A i \in {0} : Seen(H - delay - i)) = (g[H - delay].r # 0)
        <5>1. H - delay - 0 = H - delay
          BY <1>1
        <5>2. Seen(H - delay) = (g[H - delay].r # 0)
          BY <1>6, <2>1
        <5> QED
          BY <5>1, <5>2, Zenon
      <4> QED
        BY <4>1, <4>2, Zenon
    <3> HIDE DEF n, g, H, L, Holds
    <3>4. ASSUME RCond(p, s.r)
          PROVE  Holds
      <4>1. \E a \in 0 .. n : g[a].r = 1
        <5>1. CASE s.r = 1
          BY <1>1, <1>2, <5>1
        <5>2. ASSUME NEW i \in 0 .. n - 1, p.rightPast[i] = 1
              PROVE  \E a \in 0 .. n : g[a].r = 1
          <6>1. PICK a \in 1 .. n : p.rightPast[i] = g[a].r
            BY <1>2
          <6> QED
            BY <1>1, <5>2, <6>1
        <5> QED
          BY <3>2, <3>4, <5>1, <5>2
      <4>2. PICK a \in 0 .. n : g[a].r = 1
        BY <4>1
      <4>3. H - a \in L .. H /\ H - (H - a) = a
        BY <1>1, <3>1
      <4> QED
        BY <3>3, <4>2, <4>3
    <3>5. ASSUME Holds
          PROVE  RCond(p, s.r)
      <4>1. PICK delay \in L .. H : g[H - delay].r # 0
        BY <3>3, <3>5
      <4>2. H - delay \in 0 .. n
        BY <1>1, <3>1
      <4>3. g[H - delay].r = 1
        BY <1>1, <3>1, <4>1, <4>2
      <4>4. CASE H - delay = 0
        BY <1>2, <3>2, <4>3, <4>4
      <4>5. CASE H - delay # 0
        <5>1. H - delay \in 1 .. n
          BY <1>1, <4>2, <4>5
        <5> QED
          BY <1>2, <3>2, <4>3, <5>1
      <4> QED
        BY <4>4, <4>5
    <3>6. RCond(p, s.r) \in BOOLEAN /\ Holds \in BOOLEAN
      BY <3>2, <3>3
    <3> QED
      BY <3>4, <3>5, <3>6
  <2>2. CASE cfg.kind = "stable"
    <3>1. n = T + 1
      BY <1>1, <2>2
    <3>2. RCond(p, s.r) = \A i \in 0 .. n - 1 : s.r = p.rightPast[i]
      <4>1. RCond(p, s.r) = (/\ s.r = p.rightPast[0]
                             /\ \A i \in 0 .. T - 1 : s.r = p.rightPast[i + 1])
        BY <1>4, <2>2 DEF RCond
      <4>2. ASSUME \A i \in 0 .. T - 1 : s.r = p.rightPast[i + 1],
                   NEW i \in 0 .. n - 1, i # 0
            PROVE  s.r = p.rightPast[i]
        <5>1. i - 1 \in 0 .. T - 1 /\ (i - 1) + 1 = i
          BY <1>1, <3>1, <4>2
        <5> QED
          BY <4>2, <5>1
      <4>3. ASSUME \A i \in 0 .. n - 1 : s.r = p.rightPast[i]
            PROVE  /\ s.r = p.rightPast[0]
                   /\ \A i \in 0 .. T - 1 : s.r = p.rightPast[i + 1]
        BY <1>1, <3>1, <4>3
      <4> QED
        BY <4>1, <4>2, <4>3
    <3>3. RCond(p, s.r) = \A a \in 1 .. n : s.r = g[a].r
      BY <1>2, <3>2
    <3> DEFINE f == [a \in 0 .. H + 1 |-> g[a].r]
    <3>4. Holds = \A a \in 0 .. T : f[a] = f[a + 1]
      <4>1. Holds = \A i \in 0 .. T : Seen(H - L - i)
        <5>1. 0 .. (T + 1) - 1 = 0 .. T /\ L .. L = {L}
          BY <1>1
        <5> QED
          BY <1>5, <2>2, <5>1
      <4>2. \A a \in 0 .. T : Seen(a) = (f[a] = f[a + 1])
        BY <1>1, <1>6, <2>2
      <4>3. ASSUME NEW a \in 0 .. T
            PROVE  T - a \in 0 .. T /\ H - L - (T - a) = a /\ H - L - a = T - a
        <5> HIDE DEF H, L
        <5> QED
          BY <1>1, Reversed
      <4> HIDE DEF f, Holds, T
      <4>4. ASSUME Holds, NEW a \in 0 .. T
            PROVE  f[a] = f[a + 1]
        BY <4>1, <4>2, <4>3, <4>4
      <4>5. ASSUME \A a \in 0 .. T : f[a] = f[a + 1]
            PROVE  Holds
        BY <4>1, <4>2, <4>3, <4>5
      <4> QED
        BY <4>1, <4>4, <4>5
    <3>5. f[0] = s.r /\ T \in Nat /\ \A a \in 0 .. n : f[a] = g[a].r
      BY <1>1, <1>2, <3>1
    <3> HIDE DEF f, n, g, T, Holds
    <3>6. (\A a \in 0 .. T : f[a] = f[a + 1]) => \A a \in 0 .. T + 1 : f[a] = f[0]
      BY <3>5, StableChain
    <3>7. (\A a \in 0 .. T + 1 : f[a] = f[0]) => \A a \in 0 .. T : f[a] = f[a + 1]
      BY <3>5
    <3>8. (\A a \in 0 .. T + 1 : f[a] = f[0]) = \A a \in 1 .. n : s.r = g[a].r
      BY <3>1, <3>5
    <3> QED
      BY <3>3, <3>4, <3>6, <3>7, <3>8
  <2>3. CASE cfg.kind \in {"rose", "fell"}
    <3>1. H = L /\ T = 0 /\ n = 1
      BY <1>1, <2>3
    <3>2. p.rightPast[0] = g[1].r /\ g[0].r = s.r
      BY <1>2, <3>1
    <3>3. g[0].r \in {0, 1} /\ g[1].r \in {0, 1}
      BY <2>3
    <3>4. Holds = Seen(0)
      <4>1. Sva(cfg).from = L /\ Sva(cfg).to = L /\ Sva(cfg).repeat = 1
        BY <1>5, <2>3
      <4>2. Sva(cfg).from .. Sva(cfg).to = {L} /\ 0 .. Sva(cfg).repeat - 1 = {0}
        BY <1>1, <4>1
      <4>3. H - L - 0 = 0
        BY <1>1, <3>1
      <4>4. Holds = \E delay \in {L} : \A i \in {0} : Seen(H - delay - i)
        BY <4>2, Zenon
      <4>5. Seen(0) \in BOOLEAN
        BY <1>6, <2>3
      <4>6. (\A i \in {0} : Seen(H - L - i)) = Seen(0)
        BY <4>3, <4>5, Zenon
      <4> QED
        BY <4>4, <4>6, Zenon
    <3>5. RCond(p, s.r) = IF cfg.kind = "rose" THEN s.r > p.rightPast[0]
                          ELSE s.r < p.rightPast[0]
      BY <2>3 DEF RCond
    <3>6. Seen(0) = IF cfg.kind = "rose" THEN g[0].r % 2 = 1 /\ g[1].r % 2 = 0
                    ELSE g[0].r % 2 = 0 /\ g[1].r % 2 = 1
      BY <1>6, <2>3
    <3>7. RCond(p, s.r) = Seen(0)
      <4> HIDE DEF g
      <4> QED
        BY <3>2, <3>3, <3>5, <3>6
    <3> QED
      BY <3>4, <3>7, Zenon
  <2> QED
    BY <1>1, <2>1, <2>2, <2>3 DEF Kind
<1> QED
  BY <1>2, <1>3, <1>7

-----------------------------------------------------------------------------

(* In every run of any accepted assertion, the simulated process reports a    *)
(* violation exactly where the generated SVA fails, whatever the type of RHS, *)
(* but for a rise or fall of a value that is not one bit.                     *)
THEOREM VerdictsAgree == Spec => []SameVerdictOnBits
<1>1. Init => Inv /\ SameVerdictOnBits
  <2>1. SUFFICES ASSUME Init
                 PROVE  Inv /\ SameVerdictOnBits
    OBVIOUS
  <2>2. cfg \in Assertions /\ ~initalized /\ hist = Blank(cfg) /\ reported = FALSE
    BY <2>1 DEF Init, Blank
  <2>3. HiTime(cfg) \in Nat
    BY <2>2, Times
  <2>4. \A k \in 0 .. HiTime(cfg) + 1 : hist[k] = [l |-> FALSE, r |-> 0]
    BY <2>2 DEF Blank
  <2>5. [l |-> FALSE, r |-> 0] \in Sample(cfg)
    BY DEF Sample, RT
  <2>6. hist \in [0 .. HiTime(cfg) + 1 -> Sample(cfg)]
    BY <2>2, <2>5 DEF Blank
  <2>7. ~hist[HiTime(cfg)].l
    BY <2>3, <2>4
  <2>8. SameVerdictOnBits
    BY <2>2, <2>7, Zenon DEF SameVerdictOnBits, SameVerdict, SvaFails
  <2> QED
    BY <2>1, <2>2, <2>6, <2>8 DEF Inv, Init
<1>2. Inv /\ SameVerdictOnBits /\ [Next]_vars => (Inv /\ SameVerdictOnBits)'
  <2>1. SUFFICES ASSUME Inv, SameVerdictOnBits, [Next]_vars
                 PROVE  (Inv /\ SameVerdictOnBits)'
    OBVIOUS
  <2>2. CASE Next
    <3>1. PICK s \in Sample(cfg) : ClockEdge(s)
      BY <2>2 DEF Next
    <3> DEFINE p == IF initalized THEN prop ELSE init(cfg)
    <3>2. /\ reported' = (LCond(p, s.l) /\ ~RCond(p, s.r))
          /\ prop' = Stored(p, s.l, s.r)
          /\ initalized' = TRUE
          /\ hist' = Shifted(hist, s)
          /\ cfg' = cfg
      BY <3>1 DEF ClockEdge, Shifted
    <3>3. cfg \in Assertions /\ hist \in [0 .. HiTime(cfg) + 1 -> Sample(cfg)]
      BY <2>1 DEF Inv
    <3>4. Members(p, hist)
      BY <2>1, <3>3, InitMembers DEF Inv
    <3> HIDE DEF p
    <3>5. Members(prop', hist')
      BY <3>2, <3>3, <3>4, StoredMembers
    <3>6. Members(prop, hist)'
      BY <3>2, <3>5 DEF Members, MemberType, IndexInv, LeftInv, RightInv
    <3>7. hist' \in [0 .. HiTime(cfg) + 1 -> Sample(cfg)]
      <4>1. DOMAIN hist = 0 .. HiTime(cfg) + 1 /\ HiTime(cfg) \in Nat
        BY <3>3, Times
      <4> QED
        BY <3>2, <3>3, <4>1 DEF Shifted
    <3>8. Inv'
      BY <3>2, <3>3, <3>6, <3>7 DEF Inv
    <3>9. ASSUME cfg.kind \in {"rose", "fell"} =>
                     hist'[0].r \in {0, 1} /\ hist'[1].r \in {0, 1}
          PROVE  reported' = SvaFails(Sva(cfg), cfg.kind, HiTime(cfg))'
      BY <3>2, <3>3, <3>4, <3>9, VerdictIs
    <3>10. SameVerdictOnBits'
      BY <3>2, <3>9 DEF SameVerdictOnBits, SameVerdict
    <3> QED
      BY <3>8, <3>10
  <2>3. CASE UNCHANGED vars
    <3>1. UNCHANGED <<cfg, initalized, prop, reported, hist>>
      BY <2>3 DEF vars
    <3>2. Inv'
      BY <2>1, <3>1 DEF Inv, Members, MemberType, IndexInv, LeftInv, RightInv
    <3>3. SvaFails(Sva(cfg), cfg.kind, HiTime(cfg))'
            = SvaFails(Sva(cfg), cfg.kind, HiTime(cfg))
      BY <3>1 DEF SvaFails, Sampled, Sva, LoTime, HiTime
    <3>4. SameVerdictOnBits'
      BY <2>1, <3>1, <3>3 DEF SameVerdictOnBits, SameVerdict
    <3> QED
      BY <3>2, <3>4
  <2> QED
    BY <2>1, <2>2, <2>3
<1> QED
  BY <1>1, <1>2, PTL DEF Spec
=============================================================================
