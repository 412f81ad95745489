--------------------------- MODULE SctFifoRtlProofs ---------------------------
(***************************************************************************)
(* Proofs about the synthesized FIFO, for every LENGTH, every data type and *)
(* every configuration.                                                     *)
(***************************************************************************)
EXTENDS SctFifoRtl, SequenceTheorems, TLAPS

\* The inductive invariant: neither part is inductive alone, the bounds of the
\* counter follow from the guards and the indices only stay in step with it.
Inv == TypeOK /\ IndicesAgree

\* The ring index of syncProc stays inside the buffer.
LEMMA NextIndxType ==
    ASSUME NEW i \in Indx
    PROVE  /\ NextIndx(i) \in Indx
           /\ NextIndx(i) = i + 1 \/ (NextIndx(i) + LENGTH = i + 1 /\ NextIndx(i) = 0)
  BY RtlLengthAssumption DEF NextIndx, Indx

\* The power-up state of the registers is consistent.
LEMMA InitInv == Init => Inv
  BY RtlLengthAssumption, RtlDataAssumption
     DEF Init, Inv, TypeOK, IndicesAgree, Indx, NoOp, Results

\* One clock cycle keeps the registers consistent.
LEMMA CycleInv ==
    ASSUME Inv, NEW put \in Results, NEW get \in Results, Cycle(put, get)
    PROVE  Inv'
<1> USE RtlLengthAssumption
<1> DEFINE push == put.done
           pop == get.done
<1>1. push \in BOOLEAN /\ pop \in BOOLEAN /\ put.data \in Data
  BY DEF Results
<1>2. /\ push /\ ~pop => element_num_d # LENGTH
      /\ pop /\ ~push => element_num_d # 0
  BY DEF Cycle, ready_push, out_valid
<1>3. /\ pop_indx' = IF pop THEN NextIndx(pop_indx) ELSE pop_indx
      /\ push_indx' = IF push THEN NextIndx(push_indx) ELSE push_indx
      /\ pop /\ ~push => element_num_d' = element_num_d - 1
      /\ push /\ ~pop => element_num_d' = element_num_d + 1
      /\ (pop <=> push) => element_num_d' = element_num_d
  BY <1>1 DEF Cycle
<1>4. pop_indx \in Indx /\ push_indx \in Indx /\ element_num_d \in 0 .. LENGTH
  BY DEF Inv, TypeOK
<1>5. pop_indx' \in Indx /\ push_indx' \in Indx /\ element_num_d' \in 0 .. LENGTH
  BY <1>1, <1>2, <1>3, <1>4, NextIndxType DEF Indx
<1>6. buffer' \in [Indx -> Data]
  BY <1>1, <1>4 DEF Cycle, Inv, TypeOK
<1>7. TypeOK'
  BY <1>5, <1>6 DEF Cycle, Inv, TypeOK
<1>8. IndicesAgree'
  <2> DEFINE np == NextIndx(pop_indx)
             nq == NextIndx(push_indx)
  <2>1. /\ np \in Indx /\ nq \in Indx
        /\ np = pop_indx + 1 \/ np + LENGTH = pop_indx + 1
        /\ nq = push_indx + 1 \/ nq + LENGTH = push_indx + 1
    BY <1>4, NextIndxType
  <2> HIDE DEF np, nq
  <2>2. IndicesAgree
    BY DEF Inv
  <2>3. /\ pop_indx' = IF pop THEN np ELSE pop_indx
        /\ push_indx' = IF push THEN nq ELSE push_indx
    BY <1>3 DEF np, nq
  <2> HIDE DEF push, pop
  <2> QED
    BY <1>1, <1>2, <1>3, <1>4, <1>5, <2>1, <2>2, <2>3 DEF IndicesAgree, Indx
<1> QED
  BY <1>7, <1>8 DEF Inv

\* The reset section of syncProc leaves the registers consistent.
LEMMA ResetInv == ASSUME Inv, Reset PROVE Inv'
  BY RtlLengthAssumption, RtlDataAssumption
     DEF Inv, TypeOK, IndicesAgree, Reset, Indx, NoOp, Results

\* The index and counter registers of sct_fifo agree in every reachable state,
\* and the counter stays within 0..LENGTH.
THEOREM RtlInvariant == Spec => [](TypeOK /\ IndicesAgree)
<1>1. Inv /\ [Next]_rtlVars => Inv'
  <2> SUFFICES ASSUME Inv, [Next]_rtlVars PROVE Inv'
    OBVIOUS
  <2>1. CASE UNCHANGED rtlVars
    BY <2>1 DEF rtlVars, Inv, TypeOK, IndicesAgree
  <2>2. CASE Reset
    BY <2>2, ResetInv
  <2>3. CASE \E put, get \in Results : Cycle(put, get)
    BY <2>3, CycleInv
  <2> QED
    BY <2>1, <2>2, <2>3 DEF Next
<1> QED
  BY <1>1, InitInv, PTL DEF Spec, Inv

-----------------------------------------------------------------------------
(* The ring as a sequence.                                                   *)

\* Walking at most LENGTH slots from pop_indx stays inside the buffer.
LEMMA SlotType ==
    ASSUME NEW p \in Indx, NEW k \in 0 .. LENGTH - 1
    PROVE  Slot(p, k) \in Indx
  BY RtlLengthAssumption DEF Slot, Indx

\* The elements of the ring are a sequence of element_num_d data values.
LEMMA RingSeq ==
    ASSUME NEW b \in [Indx -> Data], NEW p \in Indx, NEW n \in 0 .. LENGTH
    PROVE  /\ Ring(b, p, n) \in Seq(Data)
           /\ Len(Ring(b, p, n)) = n
           /\ \A k \in 1 .. n : Ring(b, p, n)[k] = b[Slot(p, k - 1)]
<1>1. n \in Nat /\ LENGTH \in Nat
  BY RtlLengthAssumption
<1>2. \A k \in 1 .. n : b[Slot(p, k - 1)] \in Data
  BY <1>1, SlotType
<1>3. Ring(b, p, n) \in [1 .. n -> Data]
  BY <1>2 DEF Ring
<1>4. Ring(b, p, n) \in Seq(Data)
  BY <1>1, <1>3, SeqDef
<1>5. DOMAIN Ring(b, p, n) = 1 .. n
  BY DEF Ring
<1>6. Len(Ring(b, p, n)) = n
  BY <1>1, <1>4, <1>5, LenProperties
<1> QED
  BY <1>4, <1>6 DEF Ring

\* An empty ring is the empty sequence, whatever the slots hold.
LEMMA RingEmpty ==
    ASSUME NEW b \in [Indx -> Data], NEW p \in Indx
    PROVE  Ring(b, p, 0) = <<>>
<1>1. Ring(b, p, 0) \in Seq(Data) /\ Len(Ring(b, p, 0)) = 0
  BY RingSeq, RtlLengthAssumption
<1> QED
  BY <1>1, EmptySeq

\* Length and elements of a sequence one element longer.
LEMMA AppendProps ==
    ASSUME NEW s \in Seq(Data), NEW d \in Data
    PROVE  /\ Append(s, d) \in Seq(Data)
           /\ Len(Append(s, d)) = Len(s) + 1
           /\ \A k \in 1 .. Len(s) : Append(s, d)[k] = s[k]
           /\ Append(s, d)[Len(s) + 1] = d
           /\ Append(s, d) # <<>>
  BY DEF Append

\* A push stores behind the last element, and no other slot is touched.
LEMMA RingPush ==
    ASSUME NEW b \in [Indx -> Data], NEW p \in Indx, NEW n \in 0 .. LENGTH - 1,
           NEW i \in Indx, NEW d \in Data, i = p + n \/ i + LENGTH = p + n
    PROVE  Ring([b EXCEPT ![i] = d], p, n + 1) = Append(Ring(b, p, n), d)
<1> DEFINE c == [b EXCEPT ![i] = d]
           s == Ring(b, p, n)
           t == Ring(c, p, n + 1)
<1>1. /\ n \in 0 .. LENGTH /\ n + 1 \in 0 .. LENGTH
      /\ c \in [Indx -> Data]
      /\ c[i] = d /\ \A j \in Indx \ {i} : c[j] = b[j]
  BY RtlLengthAssumption
<1> HIDE DEF c
<1>2. /\ s \in Seq(Data) /\ Len(s) = n
      /\ \A k \in 1 .. n : s[k] = b[Slot(p, k - 1)]
  BY <1>1, RingSeq
<1>3. /\ t \in Seq(Data) /\ Len(t) = n + 1
      /\ \A k \in 1 .. n + 1 : t[k] = c[Slot(p, k - 1)]
  BY <1>1, RingSeq
<1>4. Slot(p, n) = i
  BY RtlLengthAssumption DEF Slot, Indx
<1>5. \A k \in 1 .. n : Slot(p, k - 1) # i /\ Slot(p, k - 1) \in Indx
  BY RtlLengthAssumption DEF Slot, Indx
<1>6. t[n + 1] = d
  BY <1>1, <1>3, <1>4, RtlLengthAssumption
<1>7. \A k \in 1 .. n : t[k] = s[k]
  BY <1>1, <1>2, <1>3, <1>5
<1> HIDE DEF s, t
<1>8. /\ Append(s, d) \in Seq(Data) /\ Len(Append(s, d)) = n + 1
      /\ \A k \in 1 .. n : Append(s, d)[k] = s[k]
      /\ Append(s, d)[n + 1] = d
  BY <1>2, AppendProps
<1>9. \A k \in 1 .. Len(t) : t[k] = Append(s, d)[k]
  BY <1>1, <1>3, <1>6, <1>7, <1>8
<1>10. t = Append(s, d)
  BY <1>3, <1>8, <1>9, SeqEqual
<1> QED
  BY <1>10 DEF s, t, c

\* A pop drops the oldest element, which is the one in the slot at pop_indx.
LEMMA RingPop ==
    ASSUME NEW b \in [Indx -> Data], NEW p \in Indx, NEW n \in 1 .. LENGTH
    PROVE  /\ Ring(b, p, n) # <<>>
           /\ Head(Ring(b, p, n)) = b[p]
           /\ Ring(b, NextIndx(p), n - 1) = Tail(Ring(b, p, n))
<1> DEFINE s == Ring(b, p, n)
           t == Ring(b, NextIndx(p), n - 1)
<1>1. /\ n \in 0 .. LENGTH /\ n - 1 \in 0 .. LENGTH
      /\ NextIndx(p) \in Indx
  BY RtlLengthAssumption, NextIndxType
<1>2. /\ s \in Seq(Data) /\ Len(s) = n
      /\ \A k \in 1 .. n : s[k] = b[Slot(p, k - 1)]
  BY <1>1, RingSeq
<1>3. /\ t \in Seq(Data) /\ Len(t) = n - 1
      /\ \A k \in 1 .. n - 1 : t[k] = b[Slot(NextIndx(p), k - 1)]
  BY <1>1, RingSeq
<1>4. \A k \in 1 .. n - 1 : Slot(NextIndx(p), k - 1) = Slot(p, (k + 1) - 1)
  BY RtlLengthAssumption DEF Slot, NextIndx, Indx
<1>5. Slot(p, 1 - 1) = p
  BY RtlLengthAssumption DEF Slot, Indx
<1>6. s # <<>> /\ s[1] = b[p]
  BY <1>1, <1>2, <1>5, EmptySeq, RtlLengthAssumption
<1>7. \A k \in 1 .. n - 1 : t[k] = s[k + 1]
  BY <1>1, <1>2, <1>3, <1>4
<1> HIDE DEF s, t
<1>8. Head(s) = s[1]
  BY <1>2, <1>6 DEF Head
<1>9. Tail(s) \in Seq(Data) /\ Len(Tail(s)) = n - 1
      /\ \A k \in 1 .. n - 1 : Tail(s)[k] = s[k + 1]
  BY <1>2, <1>6, HeadTailProperties
<1>10. \A k \in 1 .. Len(t) : t[k] = Tail(s)[k]
  BY <1>3, <1>7, <1>9
<1>11. t = Tail(s)
  BY <1>3, <1>9, <1>10, SeqEqual
<1> QED
  BY <1>6, <1>8, <1>11 DEF s, t

\* Push and pop in one cycle, also when the slot freed is the slot filled.
LEMMA RingPushPop ==
    ASSUME NEW b \in [Indx -> Data], NEW p \in Indx, NEW n \in 1 .. LENGTH,
           NEW i \in Indx, NEW d \in Data, i = p + n \/ i + LENGTH = p + n
    PROVE  Ring([b EXCEPT ![i] = d], NextIndx(p), n) = Tail(Append(Ring(b, p, n), d))
<1> DEFINE c == [b EXCEPT ![i] = d]
           r == Ring(b, NextIndx(p), n - 1)
           s == Ring(b, p, n)
<1>1. /\ n - 1 \in 0 .. LENGTH - 1 /\ (n - 1) + 1 = n
      /\ NextIndx(p) \in Indx
      /\ i = NextIndx(p) + (n - 1) \/ i + LENGTH = NextIndx(p) + (n - 1)
  <2>1. /\ NextIndx(p) \in Indx
        /\ NextIndx(p) = p + 1 \/ NextIndx(p) + LENGTH = p + 1
    BY NextIndxType
  <2> QED
    BY <2>1, RtlLengthAssumption DEF Indx, NextIndx
<1>2. Ring(c, NextIndx(p), n) = Append(r, d)
  <2>1. Ring(c, NextIndx(p), (n - 1) + 1) = Append(r, d)
    <3> DEFINE m == n - 1
               z == NextIndx(p)
    <3>1. m \in 0 .. LENGTH - 1 /\ z \in Indx /\ (i = z + m \/ i + LENGTH = z + m)
      BY <1>1
    <3> HIDE DEF m, z
    <3>2. Ring([b EXCEPT ![i] = d], z, m + 1) = Append(Ring(b, z, m), d)
      BY <3>1, RingPush
    <3> QED
      BY <3>2 DEF m, z
  <2> QED
    BY <1>1, <2>1
<1>3. s # <<>> /\ r = Tail(s)
  BY RingPop
<1>4. s \in Seq(Data) /\ Len(s) = n
  BY RingSeq, RtlLengthAssumption
<1> HIDE DEF s, r, c
<1>5. /\ r \in Seq(Data) /\ Len(r) = n - 1
      /\ \A k \in 1 .. n - 1 : r[k] = s[k + 1]
  BY <1>3, <1>4, HeadTailProperties
<1> DEFINE a == Append(s, d)
           x == Append(r, d)
<1>6. /\ a \in Seq(Data) /\ Len(a) = n + 1 /\ a # <<>> /\ a[n + 1] = d
      /\ \A k \in 1 .. n : a[k] = s[k]
  BY <1>4, AppendProps
<1>7. /\ x \in Seq(Data) /\ Len(x) = n /\ x[n] = d
      /\ \A k \in 1 .. n - 1 : x[k] = r[k]
  BY <1>1, <1>5, AppendProps, RtlLengthAssumption
<1> HIDE DEF a, x
<1>8. /\ Tail(a) \in Seq(Data) /\ Len(Tail(a)) = n
      /\ \A k \in 1 .. n : Tail(a)[k] = a[k + 1]
  BY <1>6, HeadTailProperties, RtlLengthAssumption
<1>9. \A k \in 1 .. Len(x) : x[k] = Tail(a)[k]
  BY <1>5, <1>6, <1>7, <1>8, RtlLengthAssumption
<1>10. x = Tail(a)
  BY <1>7, <1>8, <1>9, SeqEqual
<1> QED
  BY <1>2, <1>10 DEF a, x, s, r, c

-----------------------------------------------------------------------------
(* Refinement.                                                               *)

\* A clock cycle of the ring is a cycle of the queue.
LEMMA CycleRefines ==
    ASSUME Inv, NEW put \in Results, NEW get \in Results, Cycle(put, get)
    PROVE  Contract!Cycle(put, get)
<1> DEFINE push == put.done
           pop == get.done
           n == element_num_d
           offered == IF push THEN Append(Contents, put.data) ELSE Contents
<1>1. /\ push \in BOOLEAN /\ pop \in BOOLEAN /\ put.data \in Data
  BY DEF Results
<1>2. /\ pop_indx \in Indx /\ push_indx \in Indx /\ n \in 0 .. LENGTH
      /\ buffer \in [Indx -> Data]
      /\ push_indx = pop_indx + n \/ push_indx + LENGTH = pop_indx + n
  BY DEF Inv, TypeOK, IndicesAgree
<1>3. /\ pop_indx' = IF pop THEN NextIndx(pop_indx) ELSE pop_indx
      /\ buffer' = IF push THEN [buffer EXCEPT ![push_indx] = put.data] ELSE buffer
      /\ pop /\ ~push => element_num_d' = n - 1
      /\ push /\ ~pop => element_num_d' = n + 1
      /\ (pop <=> push) => element_num_d' = n
  BY <1>1 DEF Cycle
<1>4. /\ push => n # LENGTH \/ (pop /\ ~cfg.cthread_get /\ ~cfg.SYNC_READY)
      /\ pop => n # 0 \/ (push /\ ~cfg.cthread_put /\ ~cfg.SYNC_VALID)
      /\ pop => get.data = data_out(put.data)
  BY DEF Cycle, ready_push, out_valid
<1>5. Contents \in Seq(Data) /\ Len(Contents) = n
  BY <1>2, RingSeq DEF Contents
<1>6. n = 0 => Contents = <<>>
  BY <1>2, RingEmpty DEF Contents
<1>7. n # 0 => n \in 1 .. LENGTH
  BY <1>2, RtlLengthAssumption
<1>8. n # 0 => Contents # <<>> /\ Head(Contents) = buffer[pop_indx]
  BY <1>2, <1>7, RingPop DEF Contents
<1>9. Contents' = Ring(buffer', pop_indx', element_num_d')
  BY DEF Contents
<1>10. push /\ ~pop => Contents' = Append(Contents, put.data)
  <2> SUFFICES ASSUME push, ~pop PROVE Contents' = Append(Contents, put.data)
    OBVIOUS
  <2>1. n \in 0 .. LENGTH - 1
    BY <1>2, <1>4, RtlLengthAssumption
  <2>2. Ring([buffer EXCEPT ![push_indx] = put.data], pop_indx, n + 1)
          = Append(Ring(buffer, pop_indx, n), put.data)
    BY <1>1, <1>2, <2>1, RingPush
  <2>3. /\ buffer' = [buffer EXCEPT ![push_indx] = put.data]
        /\ pop_indx' = pop_indx /\ element_num_d' = n + 1
    BY <1>3
  <2> QED
    BY <1>9, <2>2, <2>3, Zenon DEF Contents
<1>11. pop /\ ~push => Contents' = Tail(Contents)
  BY <1>1, <1>2, <1>3, <1>4, <1>7, <1>9, RingPop DEF Contents
<1>12. push /\ pop /\ n # 0 => Contents' = Tail(Append(Contents, put.data))
  <2> SUFFICES ASSUME push, pop, n # 0
               PROVE  Contents' = Tail(Append(Contents, put.data))
    OBVIOUS
  <2>1. Ring([buffer EXCEPT ![push_indx] = put.data], NextIndx(pop_indx), n)
          = Tail(Append(Ring(buffer, pop_indx, n), put.data))
    BY <1>1, <1>2, <1>7, RingPushPop
  <2>2. /\ buffer' = [buffer EXCEPT ![push_indx] = put.data]
        /\ pop_indx' = NextIndx(pop_indx) /\ element_num_d' = n
    BY <1>3
  <2> QED
    BY <1>9, <2>1, <2>2, Zenon DEF Contents
<1>13. push /\ pop /\ n = 0 => Contents' = Tail(Append(Contents, put.data))
  <2> SUFFICES ASSUME push, pop, n = 0
               PROVE  Contents' = Tail(Append(Contents, put.data))
    OBVIOUS
  <2>1. buffer' \in [Indx -> Data] /\ pop_indx' \in Indx /\ element_num_d' = 0
    BY <1>1, <1>2, <1>3, NextIndxType
  <2>2. Contents' = <<>>
    BY <1>9, <2>1, RingEmpty
  <2>3. Contents = <<>>
    BY <1>6
  <2>4. /\ Append(<<>>, put.data) \in Seq(Data)
        /\ Len(Append(<<>>, put.data)) = 1 /\ Append(<<>>, put.data) # <<>>
    <3>1. <<>> \in Seq(Data) /\ Len(<<>>) = 0
      BY EmptySeq
    <3> QED
      BY <1>1, <3>1, AppendProps
  <2>5. /\ Tail(Append(<<>>, put.data)) \in Seq(Data)
        /\ Len(Tail(Append(<<>>, put.data))) = 0
    BY <2>4, HeadTailProperties
  <2>6. Tail(Append(<<>>, put.data)) = <<>>
    BY <2>5, EmptySeq
  <2> QED
    BY <2>2, <2>3, <2>6
<1>14. ~push /\ ~pop => Contents' = Contents
  BY <1>1, <1>3, <1>9 DEF Contents
<1>15. Contents' = IF pop THEN Tail(offered) ELSE offered
  BY <1>1, <1>10, <1>11, <1>12, <1>13, <1>14
<1>16. push => \/ Len(Contents) < LENGTH
               \/ pop /\ ~cfg.cthread_get /\ ~cfg.SYNC_READY
  BY <1>2, <1>4, <1>5, RtlLengthAssumption
<1>17. pop => \/ Contents # <<>>
              \/ push /\ ~cfg.cthread_put /\ ~cfg.SYNC_VALID
  BY <1>4, <1>8
<1>18. pop => get.data = Head(offered)
  <2> SUFFICES ASSUME pop PROVE get.data = Head(offered)
    OBVIOUS
  <2>1. CASE n # 0
    <3>1. get.data = Head(Contents) /\ Contents # <<>> /\ Len(Contents) # 0
      BY <1>4, <1>5, <1>8, <2>1 DEF data_out
    <3>2. Head(Append(Contents, put.data)) = Head(Contents)
      <4> DEFINE s == Contents
                 d == put.data
      <4>1. /\ s \in Seq(Data) /\ Len(s) \in Nat \ {0} /\ d \in Data
        BY <1>1, <1>5, <3>1, LenProperties
      <4> HIDE DEF s, d
      <4> QED
        BY <4>1 DEF s, d, Head, Append
    <3> QED
      BY <1>1, <3>1, <3>2
  <2>2. CASE n = 0
    <3>1. push /\ Contents = <<>> /\ get.data = put.data
      BY <1>4, <1>6, <2>2 DEF data_out
    <3>2. Head(Append(<<>>, put.data)) = put.data
      BY <1>1
    <3> QED
      BY <3>1, <3>2
  <2> QED
    BY <2>1, <2>2
<1>19. op' = [put |-> put, get |-> get] /\ UNCHANGED cfg
  BY DEF Cycle
<1> QED
  BY <1>15, <1>16, <1>17, <1>18, <1>19 DEF Contract!Cycle

\* A reset of the ring is a reset of the queue.
LEMMA ResetRefines == ASSUME Inv, Reset PROVE Contract!Reset
<1>1. pop_indx' \in Indx /\ buffer' \in [Indx -> Data] /\ element_num_d' = 0
  BY RtlLengthAssumption DEF Reset, Indx
<1>2. Contents' = Ring(buffer', pop_indx', element_num_d')
  BY DEF Contents
<1>3. Contents' = <<>>
  BY <1>1, <1>2, RingEmpty
<1> QED
  BY <1>3 DEF Reset, Contract!Reset, NoOp, Contract!NoOp

\* The synthesized ring buffer is the bounded queue that the interface promises,
\* for every LENGTH, data type and configuration.
THEOREM RtlImplementsContract == Spec => ImplementsContract
<1>1. Init => Contract!Init
  <2> SUFFICES ASSUME Init PROVE Contract!Init
    OBVIOUS
  <2>1. Contents = <<>>
    <3>1. pop_indx \in Indx /\ buffer \in [Indx -> Data] /\ element_num_d = 0
      BY RtlLengthAssumption, RtlDataAssumption DEF Init, Indx
    <3> QED
      BY <3>1, RingEmpty DEF Contents
  <2> QED
    BY <2>1 DEF Init, Contract!Init, NoOp, Contract!NoOp
<1>2. Inv /\ [Next]_rtlVars => [Contract!Next]_(Contract!contractVars)
  <2> SUFFICES ASSUME Inv, [Next]_rtlVars
               PROVE  [Contract!Next]_(Contract!contractVars)
    OBVIOUS
  <2>1. CASE UNCHANGED rtlVars
    BY <2>1 DEF rtlVars, Contract!contractVars, Contents, Ring, Slot
  <2>2. CASE Reset
    BY <2>2, ResetRefines DEF Contract!Next
  <2>3. CASE \E put, get \in Results : Cycle(put, get)
    <3>1. PICK put \in Results, get \in Results : Cycle(put, get)
      BY <2>3
    <3>2. Contract!Cycle(put, get)
      BY <3>1, CycleRefines
    <3> QED
      BY <3>2 DEF Contract!Next, Results, Contract!Results
  <2> QED
    BY <2>1, <2>2, <2>3 DEF Next
<1>3. Spec => []Inv
  BY RtlInvariant, PTL DEF Inv
<1> QED
  BY <1>1, <1>2, <1>3, PTL DEF Spec, ImplementsContract, Contract!Spec
=============================================================================
