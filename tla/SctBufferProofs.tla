---------------------------- MODULE SctBufferProofs ----------------------------
(***************************************************************************)
(* Proofs about sct_buffer and sct_prim_buffer, for every set of            *)
(* configurations (any size, mode and number of transfers per activation),  *)
(* every data set and any number of resets: neither an index nor a counter  *)
(* leaves its range, the channel is a bounded queue, and whoever was        *)
(* refused is woken when that changes.                                      *)
(***************************************************************************)
EXTENDS SctBuffer, SequenceTheorems, TLAPS

\* The slot k places after slot b.
At(b, k) == IF b + k < cfg.bufSize THEN b + k ELSE b + k - cfg.bufSize

\* The ring during a delta cycle that began with its oldest element in slot b: a
\* side with several transfers has moved its index past those it has made.
IndicesInv(b) ==
    /\ b \in Indx
    /\ ch.get_num <= ch.element_num /\ ch.element_num + ch.put_num <= cfg.bufSize
    /\ Len(q) = ch.element_num
    /\ Len(get_ok) = ch.get_num /\ Len(put_ok) = ch.put_num
    /\ cfg.MULTI_GET \/ ch.get_num <= 1
    /\ cfg.MULTI_PUT \/ ch.put_num <= 1
    /\ ch.pop_indx = IF cfg.MULTI_GET THEN At(b, ch.get_num) ELSE b
    /\ ch.push_indx = At(b, IF cfg.MULTI_PUT THEN ch.element_num + ch.put_num
                                             ELSE ch.element_num)
ContentsInv(b) ==
    /\ \A k \in 1 .. Len(q) : ch.buffer[At(b, k - 1)] = q[k]
    /\ \A k \in 1 .. Len(put_ok) : ch.buffer[At(b, Len(q) + k - 1)] = put_ok[k]
    /\ \A k \in 1 .. Len(get_ok) : get_ok[k] = q[k]
RingInv == ~rst => \E b \in Indx : IndicesInv(b) /\ ContentsInv(b)

\* During reset: each side has cleared what is its own once it has run, and the
\* queue is empty once an update has followed.
Empty == /\ ch.pop_indx = 0 /\ ch.push_indx = 0 /\ ch.element_num = 0
         /\ q = <<>>
ResetInv ==
    rst => /\ put_ok = <<>> /\ get_ok = <<>> /\ ch.put_num = 0 /\ ch.get_num = 0
           /\ "put" \notin runnable => ch.push_indx = 0 /\ ch.element_num = 0
           /\ "get" \notin runnable => ch.pop_indx = 0
           /\ ch.updating \/ runnable = Side \/ Empty

\* Nothing is pending without an update to come.
PendingInv == ~ch.updating => /\ put_ok = <<>> /\ get_ok = <<>>
                              /\ ch.put_num = 0 /\ ch.get_num = 0

Inv == TypeOK /\ RingInv /\ ResetInv /\ PendingInv

-----------------------------------------------------------------------------
(* The ring. *)

LEMMA ConfigType ==
    ASSUME cfg \in Configs
    PROVE  /\ cfg.bufSize \in Nat \ {0}
           /\ cfg.MULTI_PUT \in BOOLEAN /\ cfg.MULTI_GET \in BOOLEAN
  BY ConfigsAssumption DEF Config

\* Slots wrap as NextIndx does, and no two elements share one.
LEMMA Slots ==
    ASSUME cfg \in Configs, NEW b \in Indx
    PROVE  /\ \A k \in 0 .. cfg.bufSize : At(b, k) \in Indx
           /\ At(b, 0) = b
           /\ \A k \in 0 .. cfg.bufSize - 1 : NextIndx(At(b, k)) = At(b, k + 1)
           /\ \A j, k \in 0 .. cfg.bufSize - 1 : At(b, j) = At(b, k) => j = k
           /\ \A j, k \in 0 .. cfg.bufSize :
                 j + k <= cfg.bufSize => At(At(b, j), k) = At(b, j + k)
<1>1. cfg.bufSize \in Nat \ {0} /\ b \in 0 .. cfg.bufSize - 1
  BY ConfigType DEF Indx
<1> QED BY <1>1 DEF At, NextIndx, Indx

LEMMA AppendIs ==
    ASSUME NEW S, NEW s \in Seq(S), NEW x \in S
    PROVE  /\ Append(s, x) \in Seq(S) /\ Len(Append(s, x)) = Len(s) + 1
           /\ \A k \in 1 .. Len(s) : Append(s, x)[k] = s[k]
           /\ Append(s, x)[Len(s) + 1] = x
  OBVIOUS

\* What a delta cycle leaves of the queue.
LEMMA DeltaIs ==
    ASSUME NEW s \in Seq(Data), NEW t \in Seq(Data), NEW g \in 0 .. Len(s)
    PROVE  \A r : r = SubSeq(s, g + 1, Len(s)) \o t =>
           /\ r \in Seq(Data) /\ Len(r) = Len(s) - g + Len(t)
           /\ \A k \in 1 .. Len(s) - g : r[k] = s[g + k]
           /\ \A k \in 1 .. Len(t) : r[Len(s) - g + k] = t[k]
<1> DEFINE u == SubSeq(s, g + 1, Len(s))
<1>1. Len(s) \in Nat /\ Len(t) \in Nat
  OBVIOUS
<1>2. /\ u \in Seq(Data) /\ Len(u) = Len(s) - g
      /\ \A k \in 1 .. Len(s) - g : u[k] = s[g + k]
  BY <1>1, SubSeqProperties
<1> HIDE DEF u
<1>3. /\ u \o t \in Seq(Data) /\ Len(u \o t) = Len(u) + Len(t)
      /\ \A k \in 1 .. Len(u) + Len(t) :
            (u \o t)[k] = IF k <= Len(u) THEN u[k] ELSE t[k - Len(u)]
  BY <1>2, ConcatProperties
<1>4. ASSUME NEW k \in 1 .. Len(t) PROVE (u \o t)[Len(s) - g + k] = t[k]
  <2> DEFINE j == Len(s) - g + k
  <2>0. Len(u) = Len(s) - g
    BY <1>2
  <2>1. j \in 1 .. Len(u) + Len(t) /\ ~(j <= Len(u)) /\ j - Len(u) = k
    BY <1>1, <2>0
  <2>2. (u \o t)[j] = t[j - Len(u)]
    BY <1>3, <2>1
  <2> QED BY <2>1, <2>2
<1>5. ASSUME NEW k \in 1 .. Len(s) - g PROVE (u \o t)[k] = s[g + k]
  <2>1. k \in 1 .. Len(u) + Len(t) /\ k <= Len(u)
    BY <1>1, <1>2
  <2> QED BY <1>2, <1>3, <2>1
<1>6. /\ u \o t \in Seq(Data) /\ Len(u \o t) = Len(s) - g + Len(t)
      /\ \A k \in 1 .. Len(s) - g : (u \o t)[k] = s[g + k]
      /\ \A k \in 1 .. Len(t) : (u \o t)[Len(s) - g + k] = t[k]
  BY <1>2, <1>3, <1>4, <1>5
<1> QED BY <1>6 DEF u

-----------------------------------------------------------------------------
(* The calls. *)

\* put(), and the end of b_put().
LEMMA PutInv ==
    ASSUME Inv, NEW data \in Data, Put(data)
    PROVE  Inv'
<1> DEFINE p == Len(put_ok)
           n == Len(q)
<1>0. /\ cfg.bufSize \in Nat \ {0} /\ cfg \in Configs
      /\ cfg.MULTI_PUT \in BOOLEAN /\ cfg.MULTI_GET \in BOOLEAN
      /\ ch \in ChannelType /\ put_ok \in Seq(Data) /\ q \in Seq(Data)
      /\ p \in Nat /\ n \in Nat
  BY ConfigType DEF Inv, TypeOK
<1>1. PICK b \in Indx : IndicesInv(b) /\ ContentsInv(b)
  BY DEF Put, Inv, RingInv
<1>2. n + p < cfg.bufSize /\ (~cfg.MULTI_PUT => p = 0)
  BY <1>0, <1>1 DEF Put, ready, IndicesInv, ChannelType, Count
<1>3. ch.push_indx = At(b, n + p) /\ n + p \in 0 .. cfg.bufSize - 1
  BY <1>0, <1>1, <1>2 DEF IndicesInv
<1>4. /\ ch'.buffer = [ch.buffer EXCEPT ![At(b, n + p)] = data]
      /\ ch'.push_indx = IF cfg.MULTI_PUT THEN At(b, n + p + 1) ELSE At(b, n)
      /\ ch'.put_num = p + 1
      /\ ch'.pop_indx = ch.pop_indx /\ ch'.get_num = ch.get_num
      /\ ch'.element_num = ch.element_num /\ ch'.updating = TRUE
      /\ ch' \in ChannelType
  <2>1. NextIndx(At(b, n + p)) = At(b, n + p + 1)
    BY <1>0, <1>3, Slots
  <2>2. At(b, n + p + 1) \in Indx /\ At(b, n) \in Indx
    BY <1>0, <1>3, Slots
  <2>3. ch' = doPut(ch, data)
    BY DEF Put
  <2>4. p + 1 \in Count /\ ch.put_num = p
    BY <1>0, <1>1, <1>2 DEF Count, IndicesInv
  <2>5. PutNotifies(ch) \subseteq Side
    BY DEF PutNotifies, When, Side
  <2>6. /\ ch'.buffer = [ch.buffer EXCEPT ![At(b, n + p)] = data]
        /\ ch'.push_indx = IF cfg.MULTI_PUT THEN At(b, n + p + 1) ELSE At(b, n)
        /\ ch'.put_num = p + 1
    <3>1. /\ ch'.buffer = [ch.buffer EXCEPT ![ch.push_indx] = data]
          /\ ch'.push_indx = IF cfg.MULTI_PUT THEN NextIndx(ch.push_indx) ELSE ch.push_indx
          /\ ch'.put_num = IF cfg.MULTI_PUT THEN ch.put_num + 1 ELSE 1
      BY <1>0, <2>3 DEF doPut, ChannelType
    <3>2. ~cfg.MULTI_PUT => n + p = n
      BY <1>0, <1>2
    <3> QED BY <1>0, <1>2, <1>3, <2>1, <2>4, <3>1, <3>2
  <2>7. /\ ch'.pop_indx = ch.pop_indx /\ ch'.get_num = ch.get_num
        /\ ch'.element_num = ch.element_num /\ ch'.updating = TRUE
        /\ ch'.notified \subseteq Side
    BY <1>0, <2>3, <2>5 DEF doPut, ChannelType
  <2>8. ch'.push_indx \in Indx /\ ch'.put_num \in Count /\ ch'.buffer \in [Indx -> Data]
    BY <1>0, <1>3, <2>2, <2>4, <2>6, Slots DEF ChannelType
  <2>9. ch' = [pop_indx |-> ch'.pop_indx, get_num |-> ch'.get_num,
               push_indx |-> ch'.push_indx, put_num |-> ch'.put_num,
               element_num |-> ch'.element_num, buffer |-> ch'.buffer,
               updating |-> ch'.updating, notified |-> ch'.notified]
    BY <1>0, <2>3 DEF doPut, ChannelType
  <2> QED BY <1>0, <2>6, <2>7, <2>8, <2>9 DEF ChannelType
<1>5. /\ put_ok' = Append(put_ok, data) /\ put_ok' \in Seq(Data) /\ Len(put_ok') = p + 1
      /\ \A k \in 1 .. p : put_ok'[k] = put_ok[k]
      /\ put_ok'[p + 1] = data
  BY <1>0, AppendIs DEF Put
<1>6. UNCHANGED <<cfg, rst, get_ok, q, op, resets, runnable, refused>> /\ ~rst
      /\ running' = "put" /\ blocked' = blocked \ {"put"} /\ "put" \in runnable
  BY DEF Put, Continue, MayRun
<1>7. Indx' = Indx /\ Count' = Count /\ ChannelType' = ChannelType
      /\ \A k : At(b, k)' = At(b, k)
  BY <1>6 DEF Indx, Count, ChannelType, At
<1>8. TypeOK'
  BY <1>0, <1>4, <1>5, <1>6, <1>7 DEF Inv, TypeOK
<1>9. IndicesInv(b)'
  BY <1>0, <1>1, <1>2, <1>4, <1>5, <1>6, <1>7 DEF IndicesInv
<1>10. ContentsInv(b)'
  <2>1. \A k \in 0 .. n + p - 1 : ch'.buffer[At(b, k)] = ch.buffer[At(b, k)]
    <3>1. ASSUME NEW k \in 0 .. n + p - 1
          PROVE  At(b, k) \in Indx /\ At(b, k) # At(b, n + p)
      BY <1>0, <1>2, <1>3, Slots
    <3> QED BY <1>0, <1>4, <3>1 DEF ChannelType
  <2>2. ch'.buffer[At(b, n + p)] = data
    BY <1>0, <1>3, <1>4, Slots DEF ChannelType
  <2>3. ASSUME NEW k \in 1 .. n PROVE ch'.buffer[At(b, k - 1)] = q[k]
    <3>1. k - 1 \in 0 .. n + p - 1
      BY <1>0
    <3> QED BY <1>1, <2>1, <3>1 DEF ContentsInv
  <2>4. ASSUME NEW k \in 1 .. p + 1
        PROVE  ch'.buffer[At(b, n + k - 1)] = put_ok'[k]
    <3>1. CASE k = p + 1
      BY <1>0, <1>5, <2>2, <3>1
    <3>2. CASE k \in 1 .. p
      BY <1>0, <1>1, <1>5, <2>1, <3>2 DEF ContentsInv
    <3> QED BY <1>0, <3>1, <3>2
  <2> QED BY <1>1, <1>5, <1>6, <1>7, <2>3, <2>4 DEF ContentsInv
<1> QED BY <1>4, <1>6, <1>7, <1>8, <1>9, <1>10 DEF Inv, RingInv, ResetInv, PendingInv

\* get(), and the end of b_get(): it takes the oldest element not yet taken.
LEMMA GetInv ==
    ASSUME Inv, Get
    PROVE  Inv'
<1> DEFINE g == Len(get_ok)
           n == Len(q)
<1>0. /\ cfg.bufSize \in Nat \ {0} /\ cfg \in Configs
      /\ cfg.MULTI_PUT \in BOOLEAN /\ cfg.MULTI_GET \in BOOLEAN
      /\ ch \in ChannelType /\ get_ok \in Seq(Data) /\ q \in Seq(Data)
      /\ g \in Nat /\ n \in Nat
  BY ConfigType DEF Inv, TypeOK
<1>1. PICK b \in Indx : IndicesInv(b) /\ ContentsInv(b)
  BY DEF Get, Inv, RingInv
<1>2. g < n /\ n <= cfg.bufSize /\ (~cfg.MULTI_GET => g = 0)
  BY <1>0, <1>1 DEF Get, request, IndicesInv, ChannelType, Count
<1>3. ch.pop_indx = At(b, g) /\ g \in 0 .. cfg.bufSize - 1 /\ ch.get_num = g
  BY <1>0, <1>1, <1>2, Slots DEF IndicesInv
<1>4. peek(ch) = q[g + 1] /\ peek(ch) \in Data
  <2>1. g + 1 \in 1 .. n
    BY <1>0, <1>2
  <2>2. ch.buffer[At(b, g + 1 - 1)] = q[g + 1]
    BY <1>1, <2>1 DEF ContentsInv
  <2>3. g + 1 - 1 = g
    BY <1>0
  <2>4. q[g + 1] \in Data
    BY <1>0, <2>1
  <2> QED BY <1>3, <2>2, <2>3, <2>4 DEF peek
<1>5. /\ ch'.pop_indx = IF cfg.MULTI_GET THEN At(b, g + 1) ELSE b
      /\ ch'.get_num = g + 1
      /\ ch'.push_indx = ch.push_indx /\ ch'.put_num = ch.put_num
      /\ ch'.element_num = ch.element_num /\ ch'.updating = TRUE
      /\ ch'.buffer = ch.buffer
      /\ ch' \in ChannelType
  <2>1. NextIndx(At(b, g)) = At(b, g + 1) /\ At(b, g + 1) \in Indx /\ At(b, 0) = b
    BY <1>0, <1>3, Slots
  <2>2. ch' = doGet(ch)
    BY DEF Get
  <2>3. GetNotifies(ch) \subseteq Side
    BY DEF GetNotifies, When, Side
  <2>4. /\ ch'.pop_indx = IF cfg.MULTI_GET THEN NextIndx(ch.pop_indx) ELSE ch.pop_indx
        /\ ch'.get_num = IF cfg.MULTI_GET THEN ch.get_num + 1 ELSE 1
    BY <1>0, <2>2 DEF doGet, ChannelType
  <2>5. /\ ch'.pop_indx = IF cfg.MULTI_GET THEN At(b, g + 1) ELSE b
        /\ ch'.get_num = g + 1 /\ g + 1 \in Count
    BY <1>0, <1>2, <1>3, <2>1, <2>4 DEF Count
  <2>6. /\ ch'.push_indx = ch.push_indx /\ ch'.put_num = ch.put_num
        /\ ch'.element_num = ch.element_num /\ ch'.updating = TRUE
        /\ ch'.buffer = ch.buffer /\ ch'.notified \subseteq Side
    BY <1>0, <2>2, <2>3 DEF doGet, ChannelType
  <2>7. ch' = [pop_indx |-> ch'.pop_indx, get_num |-> ch'.get_num,
               push_indx |-> ch'.push_indx, put_num |-> ch'.put_num,
               element_num |-> ch'.element_num, buffer |-> ch'.buffer,
               updating |-> ch'.updating, notified |-> ch'.notified]
    BY <1>0, <2>2 DEF doGet, ChannelType
  <2> QED BY <1>0, <2>1, <2>5, <2>6, <2>7 DEF ChannelType
<1>6. /\ get_ok' = Append(get_ok, peek(ch)) /\ get_ok' \in Seq(Data) /\ Len(get_ok') = g + 1
      /\ \A k \in 1 .. g : get_ok'[k] = get_ok[k]
      /\ get_ok'[g + 1] = q[g + 1]
  BY <1>0, <1>4, AppendIs DEF Get
<1>7. UNCHANGED <<cfg, rst, put_ok, q, op, resets, runnable, refused>> /\ ~rst
      /\ running' = "get" /\ blocked' = blocked \ {"get"} /\ "get" \in runnable
  BY DEF Get, Continue, MayRun
<1>8. Indx' = Indx /\ Count' = Count /\ ChannelType' = ChannelType
      /\ \A k : At(b, k)' = At(b, k)
  BY <1>7 DEF Indx, Count, ChannelType, At
<1>9. TypeOK'
  BY <1>0, <1>5, <1>6, <1>7, <1>8 DEF Inv, TypeOK
<1>10. IndicesInv(b)'
  BY <1>0, <1>1, <1>2, <1>3, <1>5, <1>6, <1>7, <1>8 DEF IndicesInv
<1>11. ContentsInv(b)'
  <2>1. ASSUME NEW k \in 1 .. g + 1 PROVE get_ok'[k] = q[k]
    <3>1. CASE k = g + 1
      BY <1>6, <3>1
    <3>2. CASE k \in 1 .. g
      BY <1>1, <1>6, <3>2 DEF ContentsInv
    <3> QED BY <1>0, <3>1, <3>2
  <2> QED BY <1>1, <1>5, <1>6, <1>7, <1>8, <2>1 DEF ContentsInv
<1> QED BY <1>5, <1>7, <1>8, <1>9, <1>10, <1>11 DEF Inv, RingInv, ResetInv, PendingInv
\* A clear withdraws the one transfer of its side: its index has not moved.
LEMMA ClearInv ==
    ASSUME Inv, ClearPut \/ ClearGet
    PROVE  Inv'
<1>0. /\ cfg.bufSize \in Nat \ {0} /\ cfg \in Configs /\ ch \in ChannelType
      /\ put_ok \in Seq(Data) /\ get_ok \in Seq(Data) /\ <<>> \in Seq(Data)
      /\ Len(put_ok) \in Nat /\ Len(get_ok) \in Nat /\ Len(<<>>) = 0
      /\ \A x \in 1 .. 0 : FALSE
  BY ConfigType DEF Inv, TypeOK
<1>1. PICK b \in Indx : IndicesInv(b) /\ ContentsInv(b)
  BY DEF ClearPut, ClearGet, Clear, Inv, RingInv
<1>2. /\ UNCHANGED <<cfg, rst, q, op, resets>> /\ ~rst
      /\ \/ /\ running' \in runnable /\ UNCHANGED <<runnable, refused>>
            /\ \E side \in Side : blocked' = blocked \ {side}
         \/ \E side \in Side : /\ running' = "none" /\ UNCHANGED blocked /\ side \notin blocked
                               /\ runnable' = runnable \ {side} /\ refused' = refused \ {side}
  BY DEF ClearPut, ClearGet, Clear, MayRun, Continue, Sleep, Side
<1>3. Indx' = Indx /\ Count' = Count /\ ChannelType' = ChannelType
      /\ \A k : At(b, k)' = At(b, k)
  BY <1>2 DEF Indx, Count, ChannelType, At
<1>4. /\ ch'.pop_indx = ch.pop_indx /\ ch'.push_indx = ch.push_indx
      /\ ch'.element_num = ch.element_num /\ ch'.buffer = ch.buffer
      /\ ~ch'.updating => ~ch.updating
      /\ \/ ClearPut /\ ch'.put_num = 0 /\ ch'.get_num = ch.get_num
         \/ ClearGet /\ ch'.get_num = 0 /\ ch'.put_num = ch.put_num
      /\ ch' \in ChannelType
  <2>1. 0 \in Count /\ LT \in BOOLEAN /\ ch.updating \in BOOLEAN
    BY <1>0 DEF Count, ChannelType, LT
  <2>2. CASE ClearPut
    BY <1>0, <2>1, <2>2 DEF ClearPut, clear_put, ChannelType
  <2>3. CASE ClearGet
    BY <1>0, <2>1, <2>3 DEF ClearGet, clear_get, ChannelType
  <2> QED BY <2>2, <2>3
<1>5. /\ put_ok' \in Seq(Data) /\ get_ok' \in Seq(Data)
      /\ ClearPut => put_ok' = <<>> /\ get_ok' = get_ok /\ ~cfg.MULTI_PUT
      /\ ClearGet => get_ok' = <<>> /\ put_ok' = put_ok /\ ~cfg.MULTI_GET
  BY <1>0 DEF ClearPut, ClearGet, Clear
<1>6. TypeOK'
  BY <1>2, <1>3, <1>4, <1>5 DEF Inv, TypeOK
<1>7. IndicesInv(b)'
  <2>1. CASE ClearPut /\ ch'.put_num = 0 /\ ch'.get_num = ch.get_num
    BY <1>0, <1>1, <1>2, <1>3, <1>4, <1>5, <2>1 DEF IndicesInv, ChannelType, Count
  <2>2. CASE ClearGet /\ ch'.get_num = 0 /\ ch'.put_num = ch.put_num
    BY <1>0, <1>1, <1>2, <1>3, <1>4, <1>5, <2>2 DEF IndicesInv, ChannelType, Count
  <2> QED BY <1>4, <2>1, <2>2
<1>8. ContentsInv(b)'
  <2>1. CASE ClearPut
    BY <1>0, <1>1, <1>2, <1>3, <1>4, <1>5, <2>1 DEF ContentsInv
  <2>2. CASE ClearGet
    BY <1>0, <1>1, <1>2, <1>3, <1>4, <1>5, <2>2 DEF ContentsInv
  <2> QED BY <1>4, <2>1, <2>2
<1>9. PendingInv'
  BY <1>4, <1>5 DEF Inv, PendingInv
<1> QED BY <1>2, <1>3, <1>6, <1>7, <1>8, <1>9 DEF Inv, RingInv, ResetInv

\* Steps that leave the channel, the queue and the transfers alone.
LEMMA FrameInv ==
    ASSUME Inv, TypeOK', UNCHANGED <<cfg, put_ok, get_ok, q, rst>>,
           ch' = ch \/ ch' = [ch EXCEPT !.notified = {}],
           rst => runnable \subseteq runnable'
    PROVE  Inv'
<1>0. /\ ch'.pop_indx = ch.pop_indx /\ ch'.get_num = ch.get_num
      /\ ch'.push_indx = ch.push_indx /\ ch'.put_num = ch.put_num
      /\ ch'.element_num = ch.element_num /\ ch'.buffer = ch.buffer
      /\ ch'.updating = ch.updating
  BY DEF Inv, TypeOK, ChannelType
<1>1. RingInv'
  <2> SUFFICES ASSUME ~rst PROVE \E b \in Indx : IndicesInv(b)' /\ ContentsInv(b)'
    BY DEF RingInv, Indx
  <2>1. PICK b \in Indx : IndicesInv(b) /\ ContentsInv(b)
    BY DEF Inv, RingInv
  <2>2. IndicesInv(b)' /\ ContentsInv(b)'
    BY <1>0, <2>1 DEF IndicesInv, ContentsInv, At, Indx
  <2> QED BY <2>2
<1>2. ResetInv'
  BY <1>0 DEF Inv, ResetInv, Empty, TypeOK, Side
<1> QED BY <1>0, <1>1, <1>2 DEF Inv, PendingInv

LEMMA WaitInv ==
    ASSUME Inv, PutRefused \/ GetRefused \/ PutWait \/ GetWait
    PROVE  Inv'
<1>1. PICK side \in Side :
         /\ running' = "none" /\ runnable' = runnable \ {side} /\ ~rst
         /\ \/ /\ refused' = refused \cup {side}
               /\ blocked' \in {blocked, blocked \cup {side}}
            \/ refused' = refused \ {side} /\ side \notin blocked /\ blocked' = blocked
         /\ UNCHANGED <<cfg, ch, rst, put_ok, get_ok, q, op, resets>>
  BY DEF PutRefused, GetRefused, PutWait, GetWait, Refused, Wait, Sleep, MayRun, Side
<1>2. ChannelType' = ChannelType
  BY <1>1 DEF ChannelType, Indx, Count
<1>3. refused' \subseteq Side /\ blocked' \subseteq refused'
  BY <1>1 DEF Inv, TypeOK
<1>4. TypeOK'
  BY <1>1, <1>2, <1>3 DEF Inv, TypeOK
<1> QED BY <1>1, <1>4, FrameInv

\* Whoever runs its reset section clears what is its own.
LEMMA ResetSectionInv ==
    ASSUME Inv, NEW side \in Side, ResetSection(side)
    PROVE  Inv'
<1>0. cfg.bufSize \in Nat \ {0} /\ cfg \in Configs /\ ch \in ChannelType
  BY ConfigType DEF Inv, TypeOK
<1>1. /\ rst /\ running' = "none" /\ runnable' = runnable \ {side}
      /\ refused' = refused \ {side} /\ blocked' = blocked \ {side}
      /\ UNCHANGED <<cfg, rst, put_ok, get_ok, q, op, resets>>
  BY DEF ResetSection, Sleep
<1>2. Indx' = Indx /\ Count' = Count /\ ChannelType' = ChannelType
      /\ 0 \in Indx /\ 0 \in Count
  BY <1>0, <1>1 DEF Indx, Count, ChannelType
<1>3. /\ ch' \in ChannelType /\ ch'.updating = TRUE
      /\ side = "put" => /\ ch'.push_indx = 0 /\ ch'.element_num = 0 /\ ch'.put_num = 0
                         /\ ch'.pop_indx = ch.pop_indx /\ ch'.get_num = ch.get_num
      /\ side = "get" => /\ ch'.pop_indx = 0 /\ ch'.get_num = 0
                         /\ ch'.push_indx = ch.push_indx /\ ch'.put_num = ch.put_num
                         /\ ch'.element_num = ch.element_num
  <2>1. CASE side = "put"
    BY <1>0, <1>2, <2>1, DataAssumption DEF ResetSection, reset_put, ChannelType
  <2>2. CASE side = "get"
    BY <1>0, <1>2, <2>2 DEF ResetSection, reset_get, ChannelType
  <2> QED BY <2>1, <2>2 DEF Side
<1>4. TypeOK'
  BY <1>1, <1>2, <1>3 DEF Inv, TypeOK
<1>5. ResetInv'
  BY <1>1, <1>3 DEF Inv, ResetInv, Side
<1> QED BY <1>1, <1>3, <1>4, <1>5 DEF Inv, RingInv, PendingInv
-----------------------------------------------------------------------------
(* The kernel. *)

\* update() performs the transfers: the oldest element is now in slot At(b, g).
LEMMA UpdateInv ==
    ASSUME Inv, Update, ~rst
    PROVE  /\ Inv'
           /\ Len(q) + Len(put_ok) <= cfg.bufSize /\ Len(get_ok) <= Len(q)
           /\ \A k \in 1 .. Len(get_ok) : get_ok[k] = q[k]
<1> DEFINE n == Len(q)
           g == Len(get_ok)
           p == Len(put_ok)
<1>0. /\ cfg.bufSize \in Nat \ {0} /\ cfg \in Configs
      /\ cfg.MULTI_PUT \in BOOLEAN /\ cfg.MULTI_GET \in BOOLEAN
      /\ ch \in ChannelType /\ get_ok \in Seq(Data) /\ put_ok \in Seq(Data) /\ q \in Seq(Data)
      /\ g \in Nat /\ n \in Nat /\ p \in Nat /\ Len(<<>>) = 0 /\ <<>> \in Seq(Data)
      /\ \A x \in 1 .. 0 : FALSE
  BY ConfigType DEF Inv, TypeOK
<1>1. PICK b \in Indx : IndicesInv(b) /\ ContentsInv(b)
  BY DEF Inv, RingInv
<1>2. /\ g <= n /\ n + p <= cfg.bufSize
      /\ ch.element_num = n /\ ch.get_num = g /\ ch.put_num = p
      /\ ~cfg.MULTI_GET => g = 0 \/ g = 1
      /\ ~cfg.MULTI_PUT => p = 0 \/ p = 1
  BY <1>0, <1>1 DEF IndicesInv
<1>3. PICK c \in Indx : c = At(b, g)
  BY <1>0, <1>2, Slots
<1>4. /\ UNCHANGED <<cfg, runnable, running, rst, refused, blocked, resets>>
      /\ put_ok' = <<>> /\ get_ok' = <<>> /\ ch' = update(ch)
      /\ op' = [put |-> put_ok, get |-> get_ok]
      /\ q' = SubSeq(q, g + 1, n) \o put_ok
  BY DEF Update
<1>5. /\ q' \in Seq(Data) /\ Len(q') = n - g + p
      /\ \A k \in 1 .. n - g : q'[k] = q[g + k]
      /\ \A k \in 1 .. p : q'[n - g + k] = put_ok[k]
  <2>1. /\ q \in Seq(Data) /\ put_ok \in Seq(Data)
        /\ Len(get_ok) \in 0 .. Len(q)
    BY <1>0, <1>2
  <2>2. \A r : r = SubSeq(q, Len(get_ok) + 1, Len(q)) \o put_ok =>
           /\ r \in Seq(Data) /\ Len(r) = Len(q) - Len(get_ok) + Len(put_ok)
           /\ \A k \in 1 .. Len(q) - Len(get_ok) : r[k] = q[Len(get_ok) + k]
           /\ \A k \in 1 .. Len(put_ok) : r[Len(q) - Len(get_ok) + k] = put_ok[k]
    BY <2>1, DeltaIs, Zenon
  <2> QED BY <1>4, <2>2
<1>6. /\ ch'.pop_indx = c
      /\ ch'.push_indx = At(c, n - g + p)
      /\ ch'.element_num = n - g + p /\ ch'.get_num = 0 /\ ch'.put_num = 0
      /\ ch'.buffer = ch.buffer /\ ch'.updating = FALSE
      /\ ch' \in ChannelType
  <2>1. /\ ch'.pop_indx = IF ch.get_num > 0 /\ ~cfg.MULTI_GET THEN NextIndx(ch.pop_indx)
                                                               ELSE ch.pop_indx
        /\ ch'.push_indx = IF ch.put_num > 0 /\ ~cfg.MULTI_PUT THEN NextIndx(ch.push_indx)
                                                                ELSE ch.push_indx
        /\ ch'.element_num = n - g + p /\ ch'.get_num = 0 /\ ch'.put_num = 0
        /\ ch'.buffer = ch.buffer /\ ch'.updating = FALSE
        /\ ch'.notified \subseteq Side
    BY <1>0, <1>2, <1>4 DEF update, ChannelType
  <2>2. ch'.pop_indx = c
    <3>1. At(b, 0) = b /\ NextIndx(At(b, 0)) = At(b, 1)
      BY <1>0, Slots
    <3> QED BY <1>0, <1>1, <1>2, <1>3, <2>1, <3>1 DEF IndicesInv
  <2>3. ch'.push_indx = At(b, n + p)
    <3>1. n < cfg.bufSize => NextIndx(At(b, n)) = At(b, n + 1)
      BY <1>0, Slots
    <3>2. CASE cfg.MULTI_PUT \/ p = 0
      BY <1>0, <1>1, <1>2, <2>1, <3>2 DEF IndicesInv
    <3>3. CASE ~cfg.MULTI_PUT /\ p = 1
      BY <1>0, <1>1, <1>2, <2>1, <3>1, <3>3 DEF IndicesInv
    <3> QED BY <1>2, <3>2, <3>3
  <2>4. At(b, n + p) = At(c, n - g + p)
    <3>1. g \in 0 .. cfg.bufSize /\ n - g + p \in 0 .. cfg.bufSize
          /\ g + (n - g + p) = n + p
      BY <1>0, <1>2
    <3>2. At(At(b, g), n - g + p) = At(b, g + (n - g + p))
      BY <1>0, <1>2, <3>1, Slots
    <3> QED BY <1>3, <3>1, <3>2
  <2>5. /\ At(b, n + p) \in Indx /\ 0 \in Count /\ n - g + p \in Count
    BY <1>0, <1>2, Slots DEF Count
  <2>6. ch' = [pop_indx |-> ch'.pop_indx, get_num |-> ch'.get_num,
               push_indx |-> ch'.push_indx, put_num |-> ch'.put_num,
               element_num |-> ch'.element_num, buffer |-> ch'.buffer,
               updating |-> ch'.updating, notified |-> ch'.notified]
    BY <1>0, <1>4 DEF update, ChannelType
  <2>7. ch' \in ChannelType
    BY <1>0, <1>3, <2>1, <2>2, <2>3, <2>5, <2>6 DEF ChannelType
  <2> QED BY <2>1, <2>2, <2>3, <2>4, <2>7
<1>7. Indx' = Indx /\ Count' = Count /\ ChannelType' = ChannelType
      /\ \A k : At(c, k)' = At(c, k)
  BY <1>4 DEF Indx, Count, ChannelType, At
<1>8. TypeOK'
  BY <1>0, <1>4, <1>5, <1>6, <1>7 DEF Inv, TypeOK
<1>9. IndicesInv(c)'
  <2>1. At(c, 0) = c
    BY <1>0, Slots
  <2> QED BY <1>0, <1>2, <1>4, <1>5, <1>6, <1>7, <2>1 DEF IndicesInv
<1>10. ContentsInv(c)'
  <2>1. ASSUME NEW k \in 1 .. n - g + p PROVE ch.buffer[At(c, k - 1)] = q'[k]
    <3>1. g \in 0 .. cfg.bufSize /\ k - 1 \in 0 .. cfg.bufSize
          /\ g + (k - 1) = g + k - 1 /\ g + (k - 1) <= cfg.bufSize
      BY <1>0, <1>2
    <3>2. At(c, k - 1) = At(b, g + k - 1)
      <4>1. At(At(b, g), k - 1) = At(b, g + (k - 1))
        BY <1>0, <3>1, Slots
      <4> QED BY <1>3, <3>1, <4>1
    <3>3. CASE k \in 1 .. n - g
      <4>1. g + k \in 1 .. n
        BY <1>0, <1>2, <3>3
      <4> QED BY <1>1, <1>5, <3>2, <3>3, <4>1 DEF ContentsInv
    <3>4. CASE k \in n - g + 1 .. n - g + p
      <4>1. PICK m \in 1 .. p : k = n - g + m
        <5>1. k - (n - g) \in 1 .. p /\ k = n - g + (k - (n - g))
          BY <1>0, <1>2, <3>4
        <5> QED BY <5>1
      <4>2. g + k - 1 = n + m - 1
        BY <1>0, <1>2, <4>1
      <4> QED BY <1>1, <1>5, <3>2, <4>1, <4>2 DEF ContentsInv
    <3> QED BY <1>0, <1>2, <3>3, <3>4
  <2>2. ASSUME NEW k \in 1 .. Len(q') PROVE ch'.buffer[At(c, k - 1)] = q'[k]
    BY <1>5, <1>6, <2>1
  <2>3. 1 .. Len(put_ok') = {} /\ 1 .. Len(get_ok') = {}
    BY <1>0, <1>4
  <2> QED BY <1>7, <2>2, <2>3 DEF ContentsInv
<1>11. PendingInv'
  BY <1>4, <1>6 DEF PendingInv
<1>12. \A k \in 1 .. g : get_ok[k] = q[k]
  BY <1>1 DEF ContentsInv
<1> QED BY <1>2, <1>4, <1>7, <1>8, <1>9, <1>10, <1>11, <1>12 DEF Inv, RingInv, ResetInv

\* Both sides have run their reset sections: the update leaves the empty buffer.
LEMMA ResetUpdateInv ==
    ASSUME Inv, Update, rst
    PROVE  Inv' /\ put_ok = <<>> /\ get_ok = <<>>
<1>0. cfg.bufSize \in Nat \ {0} /\ cfg \in Configs /\ ch \in ChannelType /\ <<>> \in Seq(Data)
  BY ConfigType DEF Inv, TypeOK
<1>1. /\ put_ok = <<>> /\ get_ok = <<>> /\ ch.put_num = 0 /\ ch.get_num = 0
      /\ ch.push_indx = 0 /\ ch.element_num = 0 /\ ch.pop_indx = 0
  BY DEF Update, Inv, ResetInv
<1>2. /\ UNCHANGED <<cfg, runnable, running, rst, refused, blocked, resets>>
      /\ put_ok' = <<>> /\ get_ok' = <<>> /\ ch' = update(ch) /\ q' = <<>>
      /\ op' = [put |-> <<>>, get |-> <<>>]
  BY <1>1 DEF Update
<1>3. /\ ch' \in ChannelType /\ ch'.put_num = 0 /\ ch'.get_num = 0
      /\ ch'.push_indx = 0 /\ ch'.element_num = 0 /\ ch'.pop_indx = 0
  <2>1. ch.element_num - ch.get_num + ch.put_num = 0 /\ ~(ch.get_num > 0) /\ ~(ch.put_num > 0)
    BY <1>1
  <2>2. 0 \in Count
    BY <1>0 DEF Count
  <2> QED BY <1>0, <1>1, <1>2, <2>1, <2>2 DEF update, ChannelType
<1>4. ChannelType' = ChannelType
  BY <1>2 DEF ChannelType, Indx, Count
<1>5. TypeOK'
  BY <1>0, <1>2, <1>3, <1>4 DEF Inv, TypeOK
<1> QED BY <1>1, <1>2, <1>3, <1>5 DEF Inv, RingInv, ResetInv, PendingInv, Empty

LEMMA TimeInv ==
    ASSUME Inv, AdvanceTime
    PROVE  Inv'
<1>1. /\ UNCHANGED <<cfg, running, rst, put_ok, get_ok, refused, blocked, q, resets>>
      /\ ch' = [ch EXCEPT !.notified = {}] /\ runnable = {}
      /\ op' = [put |-> <<>>, get |-> <<>>]
  BY DEF AdvanceTime, Idle
<1>2. runnable' \subseteq Side
  BY DEF AdvanceTime, Inv, TypeOK, ChannelType
<1>3. ChannelType' = ChannelType
  BY <1>1 DEF ChannelType, Indx, Count
<1>4. ch' \in ChannelType
  BY <1>1 DEF Inv, TypeOK, ChannelType
<1>5. TypeOK'
  BY <1>1, <1>2, <1>3, <1>4 DEF Inv, TypeOK
<1> QED BY <1>1, <1>5, FrameInv

LEMMA ResetInputInv ==
    ASSUME Inv, AssertReset \/ ReleaseReset
    PROVE  Inv'
<1>0. cfg.bufSize \in Nat \ {0} /\ cfg \in Configs
  BY ConfigType DEF Inv, TypeOK
<1>1. /\ UNCHANGED <<cfg, ch, running, put_ok, get_ok, refused, blocked, q, op>>
      /\ runnable = {} /\ ~ch.updating /\ runnable' \subseteq Side /\ rst' \in BOOLEAN
      /\ put_ok = <<>> /\ get_ok = <<>> /\ ch.put_num = 0 /\ ch.get_num = 0
  BY DEF AssertReset, ReleaseReset, Idle, Inv, PendingInv
<1>2. ChannelType' = ChannelType
  BY <1>1 DEF ChannelType, Indx, Count
<1>3. resets' \in 0 .. MaxResets
  BY MaxResetsAssumption DEF AssertReset, ReleaseReset, Inv, TypeOK
<1>4. TypeOK'
  BY <1>1, <1>2, <1>3 DEF Inv, TypeOK
<1>5. CASE AssertReset
  <2>1. rst' /\ runnable' = Side
    BY <1>5 DEF AssertReset
  <2> QED BY <1>1, <1>4, <2>1 DEF Inv, RingInv, ResetInv, PendingInv, Side
<1>6. CASE ReleaseReset
  <2>1. ~rst' /\ Empty
    BY <1>1, <1>6 DEF ReleaseReset, Inv, ResetInv, Side
  <2>2. 0 \in Indx /\ At(0, 0) = 0 /\ At(0, 0)' = 0 /\ Indx' = Indx
        /\ Len(<<>>) = 0 /\ \A x \in 1 .. 0 : FALSE
    BY <1>0, <1>1 DEF Indx, At
  <2>3. IndicesInv(0)'
    BY <1>0, <1>1, <2>1, <2>2 DEF IndicesInv, Empty
  <2>4. ContentsInv(0)'
    BY <1>1, <2>1, <2>2 DEF ContentsInv, Empty
  <2> QED BY <1>1, <1>4, <2>1, <2>2, <2>3, <2>4 DEF Inv, RingInv, ResetInv, PendingInv
<1> QED BY <1>5, <1>6

-----------------------------------------------------------------------------
(* The theorems. *)

LEMMA InitInv ==
    ASSUME Init
    PROVE  Inv
<1>0. cfg.bufSize \in Nat \ {0} /\ cfg \in Configs
  BY ConfigType DEF Init
<1>1. ch \in ChannelType
  BY <1>0, DataAssumption DEF Init, ChannelType, Indx, Count
<1>2. TypeOK
  BY <1>0, <1>1, MaxResetsAssumption DEF Init, TypeOK
<1> QED BY <1>2 DEF Init, Inv, RingInv, ResetInv, PendingInv, Empty

LEMMA NextInv ==
    ASSUME Inv, [Next]_vars
    PROVE  Inv'
<1>1. CASE \E data \in Data : Put(data)
  BY <1>1, PutInv
<1>2. CASE Get
  BY <1>2, GetInv
<1>3. CASE PutRefused \/ GetRefused \/ PutWait \/ GetWait
  BY <1>3, WaitInv
<1>4. CASE ClearPut \/ ClearGet
  BY <1>4, ClearInv
<1>5. CASE \E side \in Side : ResetSection(side)
  BY <1>5, ResetSectionInv
<1>6. CASE Update
  BY <1>6, UpdateInv, ResetUpdateInv
<1>7. CASE AdvanceTime
  BY <1>7, TimeInv
<1>8. CASE AssertReset \/ ReleaseReset
  BY <1>8, ResetInputInv
<1>9. CASE UNCHANGED vars
  <2>1. TypeOK'
    BY <1>9 DEF vars, Inv, TypeOK, ChannelType, Indx, Count
  <2> QED BY <1>9, <2>1, FrameInv DEF vars
<1> QED BY <1>1, <1>2, <1>3, <1>4, <1>5, <1>6, <1>7, <1>8, <1>9 DEF Next, Evaluate

\* For every buffer size, mode and number of transfers per activation, no index
\* of the ring and no counter of update() ever leaves its range.
THEOREM BufferTypes == Spec => []TypeOK
<1>1. Init => Inv
  BY InitInv
<1>2. Inv /\ [Next]_vars => Inv'
  BY NextInv
<1>3. Inv => TypeOK
  BY DEF Inv
<1> QED BY <1>1, <1>2, <1>3, PTL DEF Spec

\* A transfer is one step of the contract.
LEMMA DeltaRefines ==
    ASSUME Inv, Update, ~rst
    PROVE  Contract!Next
<1>1. /\ Len(q) + Len(put_ok) <= cfg.bufSize /\ Len(get_ok) <= Len(q)
      /\ \A k \in 1 .. Len(get_ok) : get_ok[k] = q[k]
  BY UpdateInv
<1>2. /\ q \in Seq(Data) /\ get_ok \in Seq(Data) /\ put_ok \in Seq(Data)
      /\ cfg.bufSize \in Nat
      /\ Len(q) \in Nat /\ Len(get_ok) \in Nat /\ Len(put_ok) \in Nat
  BY ConfigType DEF Inv, TypeOK
<1>3. SubSeq(q, 1, Len(get_ok)) = get_ok
  <2> DEFINE s == SubSeq(q, 1, Len(get_ok))
  <2>1. /\ s \in Seq(Data) /\ Len(s) = Len(get_ok)
        /\ \A k \in 1 .. Len(get_ok) : s[k] = q[k]
    BY <1>1, <1>2
  <2> QED BY <1>1, <1>2, <2>1, SeqEqual
<1>4. put_ok \in Contract!Burst(cfg.bufSize)
  <2>1. Len(put_ok) \in 0 .. cfg.bufSize /\ put_ok \in [1 .. Len(put_ok) -> Data]
    BY <1>1, <1>2
  <2> QED BY <2>1 DEF Contract!Burst
<1>5. Len(get_ok) \in 0 .. Len(q)
  BY <1>1, <1>2
<1>6. Contract!Delta(put_ok, Len(get_ok))
  BY <1>1, <1>3 DEF Update, Contract!Delta
<1> QED BY <1>4, <1>5, <1>6 DEF Contract!Next

\* A clock period without transfer is the empty one.
LEMMA TimeRefines ==
    ASSUME Inv, AdvanceTime
    PROVE  Contract!Next
<1>1. q \in Seq(Data) /\ Len(q) \in Nat /\ cfg.bufSize \in Nat /\ Len(<<>>) = 0
  BY ConfigType DEF Inv, TypeOK
<1>2. Len(q) <= cfg.bufSize
  <2>1. CASE rst
    BY <1>1, <2>1 DEF Inv, ResetInv, AdvanceTime, Idle, Empty, Side
  <2>2. CASE ~rst
    BY <1>1, <2>2 DEF Inv, RingInv, IndicesInv, TypeOK, ChannelType, Count
  <2> QED BY <2>1, <2>2
<1>3. SubSeq(q, 0 + 1, Len(q)) \o <<>> = q /\ SubSeq(q, 1, 0) = <<>>
  BY <1>1
<1>4. <<>> \in Contract!Burst(cfg.bufSize)
  <2>1. 0 \in 0 .. cfg.bufSize /\ <<>> \in [1 .. 0 -> Data]
    BY <1>1
  <2> QED BY <2>1 DEF Contract!Burst
<1>5. Contract!Delta(<<>>, 0)
  BY <1>1, <1>2, <1>3 DEF AdvanceTime, Contract!Delta
<1>6. 0 \in 0 .. Len(q)
  BY <1>1
<1> QED BY <1>4, <1>5, <1>6 DEF Contract!Next

\* In every mode, for every size and number of transfers per activation, the
\* buffer is the bounded queue of BufferContract, resets included.
THEOREM BufferImplementsContract == Spec => ImplementsContract
<1>1. Init => Inv
  BY InitInv
<1>2. Inv /\ [Next]_vars => Inv'
  BY NextInv
<1>3. Init => Contract!Init
  BY DEF Init, Contract!Init, Contract!NoOp
<1>4. Inv /\ [Next]_vars => [Contract!Next]_(Contract!contractVars)
  <2> SUFFICES ASSUME Inv, [Next]_vars
               PROVE  Contract!Next \/ UNCHANGED Contract!contractVars
    OBVIOUS
  <2>1. CASE Update /\ ~rst
    BY <2>1, DeltaRefines
  <2>2. CASE Update /\ rst
    BY <2>2, ResetUpdateInv DEF Update, Contract!Next, Contract!Reset, Contract!NoOp
  <2>3. CASE AdvanceTime
    BY <2>3, TimeRefines
  <2>4. CASE Evaluate \/ AssertReset \/ ReleaseReset \/ UNCHANGED vars
    BY <2>4 DEF Evaluate, Put, Get, PutRefused, GetRefused, PutWait, GetWait, Refused, Wait,
                ClearPut, ClearGet, ResetSection, AssertReset, ReleaseReset, vars,
                Contract!contractVars
  <2> QED BY <2>1, <2>2, <2>3, <2>4 DEF Next
<1> QED BY <1>1, <1>2, <1>3, <1>4, PTL DEF Spec, ImplementsContract, Contract!Spec
-----------------------------------------------------------------------------
(* Sleeping threads are woken. *)

\* In "LT", during a delta cycle: after a get (a put) the other thread has its
\* event notified, unless the fill level is still beyond its threshold.
WakesInv ==
    ~rst /\ LT =>
      /\ ch.get_num > 0 /\ "put" \notin ch.notified =>
            IF cfg.MULTI_PUT THEN ch.element_num - ch.get_num > 1
                             ELSE ch.element_num < cfg.bufSize
      /\ ch.put_num > 0 /\ "get" \notin ch.notified =>
            IF cfg.MULTI_GET THEN ch.element_num + ch.put_num < cfg.bufSize - 1
                             ELSE ch.element_num > 0

\* What a refused thread that nobody has notified sleeps on, in terms of the
\* element_num that update() is going to leave; update() of "AT" notifies both.
Committed == (ch.element_num - ch.get_num) + ch.put_num
AsleepInv ==
    ~rst /\ cfg.mode # "CA" /\ (cfg.mode = "AT" => ~ch.updating) =>
      /\ "put" \in refused \ (ch.notified \cup runnable) =>
            IF cfg.MULTI_PUT THEN Committed > 1
                             ELSE ch.element_num = cfg.bufSize /\ ch.get_num = 0
      /\ "get" \in refused \ (ch.notified \cup runnable) =>
            IF cfg.MULTI_GET THEN Committed < cfg.bufSize - 1
                             ELSE ch.element_num = 0 /\ ch.put_num = 0

WakeInv == Inv /\ WakesInv /\ AsleepInv

\* The counters of a delta cycle outside reset.
LEMMA Counters ==
    ASSUME Inv
    PROVE  /\ cfg.bufSize \in Nat /\ cfg.bufSize > 0 /\ (LT => cfg.bufSize > 1)
           /\ cfg.MULTI_PUT \in BOOLEAN /\ cfg.MULTI_GET \in BOOLEAN
           /\ cfg.mode \in {"CA", "AT", "LT"}
           /\ ~LT => ~cfg.MULTI_PUT /\ ~cfg.MULTI_GET
           /\ ch.element_num \in Nat /\ ch.get_num \in Nat /\ ch.put_num \in Nat
           /\ ch.updating \in BOOLEAN /\ ch.notified \subseteq Side
           /\ ~rst => /\ ch.get_num <= ch.element_num
                      /\ ch.element_num + ch.put_num <= cfg.bufSize
                      /\ cfg.MULTI_GET \/ ch.get_num <= 1
                      /\ cfg.MULTI_PUT \/ ch.put_num <= 1
                      /\ Len(get_ok) = ch.get_num /\ Len(put_ok) = ch.put_num
<1>1. cfg \in Configs /\ ch \in ChannelType
  BY DEF Inv, TypeOK
<1>2. /\ cfg.bufSize \in Nat /\ cfg.bufSize > 0 /\ (LT => cfg.bufSize > 1)
      /\ cfg.MULTI_PUT \in BOOLEAN /\ cfg.MULTI_GET \in BOOLEAN
      /\ cfg.mode \in {"CA", "AT", "LT"}
      /\ ~LT => ~cfg.MULTI_PUT /\ ~cfg.MULTI_GET
  BY <1>1, ConfigsAssumption DEF Config, LT
<1>3. /\ ch.element_num \in Nat /\ ch.get_num \in Nat /\ ch.put_num \in Nat
      /\ ch.updating \in BOOLEAN /\ ch.notified \subseteq Side
  BY <1>1, <1>2 DEF ChannelType, Count
<1> QED BY <1>2, <1>3 DEF Inv, RingInv, IndicesInv

LEMMA PutWake ==
    ASSUME WakeInv, NEW data \in Data, Put(data)
    PROVE  WakesInv' /\ AsleepInv'
<1> DEFINE e == ch.element_num
           g == ch.get_num
           p == ch.put_num
           s == cfg.bufSize
<1>1. Inv /\ WakesInv /\ AsleepInv
  BY DEF WakeInv
<1>2. /\ s \in Nat /\ e \in Nat /\ g \in Nat /\ p \in Nat
      /\ cfg.MULTI_PUT \in BOOLEAN /\ cfg.MULTI_GET \in BOOLEAN
      /\ cfg.mode \in {"CA", "AT", "LT"} /\ (~LT => ~cfg.MULTI_PUT /\ ~cfg.MULTI_GET)
      /\ ~rst /\ "put" \in runnable /\ (cfg.MULTI_PUT \/ p = 0)
  BY <1>1, Counters DEF Put, MayRun
<1>3. /\ ch'.element_num = e /\ ch'.get_num = g /\ ch'.updating = TRUE
      /\ ch'.put_num = p + 1
      /\ ch'.notified = IF LT THEN ch.notified \cup PutNotifies(ch) ELSE ch.notified
  <2>1. ch \in ChannelType /\ ch' = doPut(ch, data)
    BY <1>1 DEF Put, Inv, TypeOK
  <2>2. /\ ch'.element_num = e /\ ch'.get_num = g /\ ch'.updating = TRUE
        /\ ch'.put_num = IF cfg.MULTI_PUT THEN p + 1 ELSE 1
        /\ ch'.notified = IF LT THEN ch.notified \cup PutNotifies(ch) ELSE ch.notified
    BY <2>1 DEF doPut, ChannelType
  <2> QED BY <1>2, <2>2
<1>4. UNCHANGED <<cfg, rst, runnable, refused>> /\ LT' = LT
  BY DEF Put, Continue, LT
<1>5. LT => /\ "put" \notin ch'.notified => "put" \notin ch.notified
            /\ "get" \notin ch'.notified =>
                  /\ "get" \notin ch.notified
                  /\ cfg.MULTI_GET => ~(e >= s - p - 2)
                  /\ ~cfg.MULTI_GET /\ p = 0 => e # 0
  BY <1>2, <1>3 DEF PutNotifies, When
<1> HIDE DEF e, g, p, s
<1>6. WakesInv'
  <2>1. LT /\ "get" \notin ch'.notified =>
           IF cfg.MULTI_GET THEN e + (p + 1) < s - 1 ELSE e > 0
    <3>1. LT /\ p > 0 /\ "get" \notin ch.notified =>
             IF cfg.MULTI_GET THEN e + p < s - 1 ELSE e > 0
      BY <1>1, <1>2 DEF WakesInv, e, p, s
    <3> QED BY <1>2, <1>5, <3>1
  <2>2. LT /\ g > 0 /\ "put" \notin ch'.notified =>
           IF cfg.MULTI_PUT THEN e - g > 1 ELSE e < s
    BY <1>1, <1>2, <1>5 DEF WakesInv, e, g, s
  <2> QED BY <1>3, <1>4, <2>1, <2>2 DEF WakesInv, s
<1>7. AsleepInv'
  <2>1. CASE cfg.mode # "LT"
    BY <1>2, <1>3, <1>4, <2>1 DEF AsleepInv
  <2>2. CASE LT
    <3>1. "put" \notin refused' \ (ch'.notified \cup runnable')
      BY <1>2, <1>4
    <3>2. ASSUME "get" \in refused' \ (ch'.notified \cup runnable')
          PROVE  IF cfg.MULTI_GET THEN (e - g) + (p + 1) < s - 1 ELSE FALSE
      <4>1. "get" \in refused \ (ch.notified \cup runnable) /\ "get" \notin ch'.notified
        BY <1>4, <1>5, <2>2, <3>2
      <4>2. cfg.mode # "CA" /\ cfg.mode # "AT"
        BY <2>2 DEF LT
      <4>3. IF cfg.MULTI_GET THEN (e - g) + p < s - 1 ELSE e = 0 /\ p = 0
        BY <1>1, <1>2, <4>1, <4>2 DEF AsleepInv, Committed, e, g, p, s
      <4> QED BY <1>2, <1>5, <2>2, <4>1, <4>3
    <3> QED BY <1>3, <1>4, <3>1, <3>2 DEF AsleepInv, Committed, s
  <2> QED BY <2>1, <2>2 DEF LT
<1> QED BY <1>6, <1>7

LEMMA GetWake ==
    ASSUME WakeInv, Get
    PROVE  WakesInv' /\ AsleepInv'
<1> DEFINE e == ch.element_num
           g == ch.get_num
           p == ch.put_num
           s == cfg.bufSize
<1>1. Inv /\ WakesInv /\ AsleepInv
  BY DEF WakeInv
<1>2. /\ s \in Nat /\ e \in Nat /\ g \in Nat /\ p \in Nat /\ e <= s
      /\ cfg.MULTI_PUT \in BOOLEAN /\ cfg.MULTI_GET \in BOOLEAN
      /\ cfg.mode \in {"CA", "AT", "LT"} /\ (~LT => ~cfg.MULTI_PUT /\ ~cfg.MULTI_GET)
      /\ ~rst /\ "get" \in runnable /\ (cfg.MULTI_GET \/ g = 0)
  BY <1>1, Counters DEF Get, MayRun
<1>3. /\ ch'.element_num = e /\ ch'.put_num = p /\ ch'.updating = TRUE
      /\ ch'.get_num = g + 1
      /\ ch'.notified = IF LT THEN ch.notified \cup GetNotifies(ch) ELSE ch.notified
  <2>1. ch \in ChannelType /\ ch' = doGet(ch)
    BY <1>1 DEF Get, Inv, TypeOK
  <2>2. /\ ch'.element_num = e /\ ch'.put_num = p /\ ch'.updating = TRUE
        /\ ch'.get_num = IF cfg.MULTI_GET THEN g + 1 ELSE 1
        /\ ch'.notified = IF LT THEN ch.notified \cup GetNotifies(ch) ELSE ch.notified
    BY <2>1 DEF doGet, ChannelType
  <2> QED BY <1>2, <2>2
<1>4. UNCHANGED <<cfg, rst, runnable, refused>> /\ LT' = LT
  BY DEF Get, Continue, LT
<1>5. LT => /\ "get" \notin ch'.notified => "get" \notin ch.notified
            /\ "put" \notin ch'.notified =>
                  /\ "put" \notin ch.notified
                  /\ cfg.MULTI_PUT => ~(e <= g + 2)
                  /\ ~cfg.MULTI_PUT /\ g = 0 => e # s
  BY <1>2, <1>3 DEF GetNotifies, When
<1> HIDE DEF e, g, p, s
<1>6. WakesInv'
  <2>1. LT /\ "put" \notin ch'.notified =>
           IF cfg.MULTI_PUT THEN e - (g + 1) > 1 ELSE e < s
    <3>1. LT /\ g > 0 /\ "put" \notin ch.notified =>
             IF cfg.MULTI_PUT THEN e - g > 1 ELSE e < s
      BY <1>1, <1>2 DEF WakesInv, e, g, s
    <3> QED BY <1>2, <1>5, <3>1
  <2>2. LT /\ p > 0 /\ "get" \notin ch'.notified =>
           IF cfg.MULTI_GET THEN e + p < s - 1 ELSE e > 0
    BY <1>1, <1>2, <1>5 DEF WakesInv, e, p, s
  <2> QED BY <1>3, <1>4, <2>1, <2>2 DEF WakesInv, s
<1>7. AsleepInv'
  <2>1. CASE cfg.mode # "LT"
    BY <1>2, <1>3, <1>4, <2>1 DEF AsleepInv
  <2>2. CASE LT
    <3>1. "get" \notin refused' \ (ch'.notified \cup runnable')
      BY <1>2, <1>4
    <3>2. ASSUME "put" \in refused' \ (ch'.notified \cup runnable')
          PROVE  IF cfg.MULTI_PUT THEN (e - (g + 1)) + p > 1 ELSE FALSE
      <4>1. "put" \in refused \ (ch.notified \cup runnable) /\ "put" \notin ch'.notified
        BY <1>4, <1>5, <2>2, <3>2
      <4>2. cfg.mode # "CA" /\ cfg.mode # "AT"
        BY <2>2 DEF LT
      <4>3. IF cfg.MULTI_PUT THEN (e - g) + p > 1 ELSE e = s /\ g = 0
        BY <1>1, <1>2, <4>1, <4>2 DEF AsleepInv, Committed, e, g, p, s
      <4> QED BY <1>2, <1>5, <2>2, <4>1, <4>3
    <3> QED BY <1>3, <1>4, <3>1, <3>2 DEF AsleepInv, Committed, s
  <2> QED BY <2>1, <2>2 DEF LT
<1> QED BY <1>6, <1>7

\* A thread that is refused now sleeps on the present fill level, and what was
\* transferred before in this delta cycle has notified it or left enough.
LEMMA RefusedWake ==
    ASSUME WakeInv, PutRefused \/ GetRefused
    PROVE  WakesInv' /\ AsleepInv'
<1> DEFINE e == ch.element_num
           g == ch.get_num
           p == ch.put_num
           s == cfg.bufSize
<1>1. Inv /\ WakesInv /\ AsleepInv
  BY DEF WakeInv
<1>2. /\ s \in Nat /\ e \in Nat /\ g \in Nat /\ p \in Nat
      /\ cfg.MULTI_PUT \in BOOLEAN /\ cfg.MULTI_GET \in BOOLEAN
      /\ cfg.mode \in {"CA", "AT", "LT"} /\ (~LT => ~cfg.MULTI_PUT /\ ~cfg.MULTI_GET)
      /\ ~rst /\ (LT => s > 1) /\ g <= e /\ e + p <= s
      /\ Len(get_ok) = g /\ Len(put_ok) = p /\ Len(<<>>) = 0 /\ ch.updating \in BOOLEAN
  BY <1>1, Counters DEF PutRefused, GetRefused, Refused
<1>3. UNCHANGED <<cfg, rst, ch>> /\ LT' = LT
  BY DEF PutRefused, GetRefused, Refused, LT
<1>4. WakesInv'
  BY <1>1, <1>3 DEF WakesInv
<1>5. ~ch.updating => g = 0 /\ p = 0
  BY <1>1 DEF Inv, PendingInv
<1>6. CASE PutRefused
  <2>1. /\ refused' = refused \cup {"put"} /\ runnable' = runnable \ {"put"}
        /\ IF cfg.MULTI_PUT THEN e + p >= s ELSE e = s /\ p = 0
    <3>1. ~ready(ch) /\ (cfg.MULTI_PUT \/ put_ok = <<>>)
      BY <1>6 DEF PutRefused, Refused
    <3> QED BY <1>2, <1>6, <3>1 DEF PutRefused, Refused, Sleep, ready
  <2>2. ASSUME cfg.mode # "CA", cfg.mode = "AT" => ~ch.updating, "put" \notin ch.notified
        PROVE  IF cfg.MULTI_PUT THEN Committed > 1 ELSE e = s /\ g = 0
    <3>1. LT /\ g > 0 => IF cfg.MULTI_PUT THEN e - g > 1 ELSE e < s
      BY <1>1, <1>2, <2>2 DEF WakesInv
    <3>2. CASE LT
      BY <1>2, <2>1, <3>1, <3>2 DEF Committed
    <3>3. CASE ~LT
      BY <1>2, <1>5, <2>1, <2>2, <3>3 DEF LT
    <3> QED BY <3>2, <3>3
  <2>3. "get" \in refused' \ (ch'.notified \cup runnable') =>
           "get" \in refused \ (ch.notified \cup runnable)
    BY <1>3, <2>1
  <2> QED BY <1>1, <1>3, <1>4, <2>2, <2>3 DEF AsleepInv, Committed
<1>7. CASE GetRefused
  <2>1. /\ refused' = refused \cup {"get"} /\ runnable' = runnable \ {"get"}
        /\ IF cfg.MULTI_GET THEN e = g ELSE e = 0 /\ g = 0
    <3>1. ~request(ch) /\ (cfg.MULTI_GET \/ get_ok = <<>>)
      BY <1>7 DEF GetRefused, Refused
    <3> QED BY <1>2, <1>7, <3>1 DEF GetRefused, Refused, Sleep, request
  <2>2. ASSUME cfg.mode # "CA", cfg.mode = "AT" => ~ch.updating, "get" \notin ch.notified
        PROVE  IF cfg.MULTI_GET THEN Committed < s - 1 ELSE e = 0 /\ p = 0
    <3>1. LT /\ p > 0 => IF cfg.MULTI_GET THEN e + p < s - 1 ELSE e > 0
      BY <1>1, <1>2, <2>2 DEF WakesInv
    <3>2. CASE LT
      BY <1>2, <2>1, <3>1, <3>2 DEF Committed
    <3>3. CASE ~LT
      BY <1>2, <1>5, <2>1, <2>2, <3>3 DEF LT
    <3> QED BY <3>2, <3>3
  <2>3. "put" \in refused' \ (ch'.notified \cup runnable') =>
           "put" \in refused \ (ch.notified \cup runnable)
    BY <1>3, <2>1
  <2> QED BY <1>1, <1>3, <1>4, <2>2, <2>3 DEF AsleepInv, Committed
<1> QED BY <1>6, <1>7

\* wait() of a thread that was not refused leaves the other one as it is.
LEMMA WaitWake ==
    ASSUME WakeInv, PutWait \/ GetWait
    PROVE  WakesInv' /\ AsleepInv'
<1>1. PICK side \in Side :
         /\ runnable' = runnable \ {side} /\ refused' = refused \ {side}
         /\ UNCHANGED <<cfg, ch, rst>>
  BY DEF PutWait, GetWait, Wait, Sleep, Side
<1>2. \A other \in Side : other \in refused' \ (ch'.notified \cup runnable') =>
                          other \in refused \ (ch.notified \cup runnable)
  BY <1>1
<1> QED BY <1>1, <1>2 DEF WakeInv, WakesInv, AsleepInv, Committed, LT, Side

\* A clear moves the fill level to come away from the other side's threshold.
LEMMA ClearWake ==
    ASSUME WakeInv, ClearPut \/ ClearGet
    PROVE  WakesInv' /\ AsleepInv'
<1> DEFINE e == ch.element_num
           g == ch.get_num
           p == ch.put_num
           s == cfg.bufSize
<1>1. Inv /\ WakesInv /\ AsleepInv
  BY DEF WakeInv
<1>2. /\ s \in Nat /\ e \in Nat /\ g \in Nat /\ p \in Nat
      /\ cfg.MULTI_PUT \in BOOLEAN /\ cfg.MULTI_GET \in BOOLEAN
      /\ cfg.mode \in {"CA", "AT", "LT"} /\ ch.updating \in BOOLEAN /\ ~rst
  BY <1>1, Counters DEF ClearPut, ClearGet, Clear
<1>3. UNCHANGED <<cfg, rst>> /\ LT' = LT
  BY DEF ClearPut, ClearGet, LT
<1>4. PICK side \in Side :
        /\ \/ side = "put" /\ ~cfg.MULTI_PUT /\ ch' = clear_put(ch)
           \/ side = "get" /\ ~cfg.MULTI_GET /\ ch' = clear_get(ch)
        /\ side \in runnable
        /\ \/ UNCHANGED <<runnable, refused>>
           \/ runnable' = runnable \ {side} /\ refused' = refused \ {side}
  BY DEF ClearPut, ClearGet, Clear, MayRun, Continue, Sleep, Side
<1>5. /\ ch'.element_num = e /\ ch'.notified = ch.notified
      /\ ch'.updating = (ch.updating \/ ~LT)
      /\ side = "put" => ch'.put_num = 0 /\ ch'.get_num = g
      /\ side = "get" => ch'.get_num = 0 /\ ch'.put_num = p
  <2>1. ch \in ChannelType
    BY <1>1 DEF Inv, TypeOK
  <2> QED BY <1>4, <2>1 DEF clear_put, clear_get, ChannelType
<1>6. /\ side \notin refused' \ (ch'.notified \cup runnable')
      /\ \A other \in Side : other \in refused' \ (ch'.notified \cup runnable') =>
                             other \in refused \ (ch.notified \cup runnable)
  BY <1>4, <1>5
<1>7. CASE ~LT
  BY <1>2, <1>3, <1>5, <1>7 DEF WakesInv, AsleepInv, LT
<1>8. CASE LT
  <2>1. cfg.mode = "LT" /\ cfg.mode # "CA" /\ cfg.mode # "AT"
    BY <1>8 DEF LT
  <2>2. CASE side = "put"
    <3>1. ASSUME "get" \in refused' \ (ch'.notified \cup runnable')
          PROVE  IF cfg.MULTI_GET THEN (e - g) + 0 < s - 1 ELSE e = 0
      <4>1. IF cfg.MULTI_GET THEN (e - g) + p < s - 1 ELSE e = 0 /\ p = 0
        BY <1>1, <1>2, <1>6, <2>1, <3>1 DEF AsleepInv, Committed, Side
      <4> QED BY <1>2, <4>1
    <3>2. WakesInv'
      BY <1>1, <1>2, <1>3, <1>5, <1>8, <2>2 DEF WakesInv
    <3> QED BY <1>3, <1>5, <1>6, <2>2, <3>1, <3>2 DEF AsleepInv, Committed
  <2>3. CASE side = "get"
    <3>1. ASSUME "put" \in refused' \ (ch'.notified \cup runnable')
          PROVE  IF cfg.MULTI_PUT THEN (e - 0) + p > 1 ELSE e = s
      <4>1. IF cfg.MULTI_PUT THEN (e - g) + p > 1 ELSE e = s /\ g = 0
        BY <1>1, <1>2, <1>6, <2>1, <3>1 DEF AsleepInv, Committed, Side
      <4> QED BY <1>2, <4>1
    <3>2. WakesInv'
      BY <1>1, <1>2, <1>3, <1>5, <1>8, <2>3 DEF WakesInv
    <3> QED BY <1>3, <1>5, <1>6, <2>3, <3>1, <3>2 DEF AsleepInv, Committed
  <2> QED BY <2>2, <2>3 DEF Side
<1> QED BY <1>7, <1>8

\* update() leaves the fill level the sleeping threads were judged by.
LEMMA UpdateWake ==
    ASSUME WakeInv, Update
    PROVE  WakesInv' /\ AsleepInv'
<1> DEFINE e == ch.element_num
           g == ch.get_num
           p == ch.put_num
           s == cfg.bufSize
<1>1. Inv /\ WakesInv /\ AsleepInv
  BY DEF WakeInv
<1>2. /\ s \in Nat /\ e \in Nat /\ g \in Nat /\ p \in Nat
      /\ cfg.MULTI_PUT \in BOOLEAN /\ cfg.MULTI_GET \in BOOLEAN
      /\ cfg.mode \in {"CA", "AT", "LT"} /\ (~rst => g <= e /\ e + p <= s)
  BY <1>1, Counters
<1>3. UNCHANGED <<cfg, rst, runnable, refused>> /\ LT' = LT /\ runnable = {}
  BY DEF Update, LT
<1>4. /\ ch'.element_num = (e - g) + p /\ ch'.get_num = 0 /\ ch'.put_num = 0
      /\ ch'.notified = IF cfg.mode = "AT" THEN Side ELSE ch.notified
  <2>1. ch \in ChannelType /\ ch' = update(ch)
    BY <1>1 DEF Inv, TypeOK, Update
  <2>2. (e - g) + p = e - g + p
    BY <1>2
  <2> QED BY <2>1, <2>2 DEF update, ChannelType
<1>5. WakesInv'
  BY <1>4 DEF WakesInv
<1>6. CASE cfg.mode = "AT"
  BY <1>3, <1>4, <1>5, <1>6 DEF AsleepInv, Side
<1>7. CASE cfg.mode # "AT" /\ cfg.mode # "CA" /\ ~rst
  <2>1. "put" \in refused' \ (ch'.notified \cup runnable') =>
           IF cfg.MULTI_PUT THEN (e - g) + p > 1 ELSE e = s /\ g = 0
    BY <1>1, <1>3, <1>4, <1>7 DEF AsleepInv, Committed
  <2>2. "get" \in refused' \ (ch'.notified \cup runnable') =>
           IF cfg.MULTI_GET THEN (e - g) + p < s - 1 ELSE e = 0 /\ p = 0
    BY <1>1, <1>3, <1>4, <1>7 DEF AsleepInv, Committed
  <2>3. "put" \in refused' \ (ch'.notified \cup runnable') =>
           IF cfg.MULTI_PUT THEN Committed' > 1
                            ELSE ch'.element_num = cfg'.bufSize /\ ch'.get_num = 0
    BY <1>2, <1>3, <1>4, <1>7, <2>1 DEF Committed
  <2>4. "get" \in refused' \ (ch'.notified \cup runnable') =>
           IF cfg.MULTI_GET THEN Committed' < cfg'.bufSize - 1
                            ELSE ch'.element_num = 0 /\ ch'.put_num = 0
    BY <1>2, <1>3, <1>4, <1>7, <2>2 DEF Committed
  <2> QED BY <1>3, <1>5, <2>3, <2>4 DEF AsleepInv
<1>8. CASE cfg.mode = "CA" \/ rst
  BY <1>3, <1>5, <1>8 DEF AsleepInv
<1> QED BY <1>6, <1>7, <1>8

\* The threads notified run; the others go on sleeping.
LEMMA TimeWake ==
    ASSUME WakeInv, AdvanceTime
    PROVE  WakesInv' /\ AsleepInv'
<1>1. Inv /\ WakesInv /\ AsleepInv
  BY DEF WakeInv
<1>2. UNCHANGED <<cfg, rst, refused>> /\ LT' = LT /\ runnable = {} /\ ~ch.updating
  BY DEF AdvanceTime, Idle, LT
<1>3. /\ ch'.element_num = ch.element_num /\ ch'.get_num = ch.get_num
      /\ ch'.put_num = ch.put_num /\ ch'.notified = {}
  BY <1>1 DEF AdvanceTime, Inv, TypeOK, ChannelType
<1>4. ch.get_num = 0 /\ ch.put_num = 0
  BY <1>1, <1>2 DEF Inv, PendingInv
<1>5. WakesInv'
  BY <1>3, <1>4 DEF WakesInv
<1>6. CASE cfg.mode = "CA"
  BY <1>2, <1>5, <1>6 DEF AsleepInv
<1>7. CASE cfg.mode # "CA"
  <2>1. ch.notified \subseteq runnable'
    BY <1>7 DEF AdvanceTime
  <2>2. \A side : side \in refused' \ (ch'.notified \cup runnable') =>
                  side \in refused \ (ch.notified \cup runnable)
    BY <1>2, <2>1
  <2> QED BY <1>1, <1>2, <1>3, <1>5, <2>2 DEF AsleepInv, Committed
<1> QED BY <1>6, <1>7

LEMMA WakeStep ==
    ASSUME WakeInv, [Next]_vars
    PROVE  WakeInv'
<1>0. Inv'
  BY NextInv DEF WakeInv
<1>1. CASE \E data \in Data : Put(data)
  BY <1>0, <1>1, PutWake DEF WakeInv
<1>2. CASE Get
  BY <1>0, <1>2, GetWake DEF WakeInv
<1>3. CASE PutRefused \/ GetRefused
  BY <1>0, <1>3, RefusedWake DEF WakeInv
<1>4. CASE PutWait \/ GetWait
  BY <1>0, <1>4, WaitWake DEF WakeInv
<1>5. CASE ClearPut \/ ClearGet
  BY <1>0, <1>5, ClearWake DEF WakeInv
<1>6. CASE (\E side \in Side : ResetSection(side)) \/ AssertReset
  <2>1. rst'
    BY <1>6 DEF ResetSection, AssertReset
  <2> QED BY <1>0, <2>1 DEF WakeInv, WakesInv, AsleepInv
<1>7. CASE Update
  BY <1>0, <1>7, UpdateWake DEF WakeInv
<1>8. CASE AdvanceTime
  BY <1>0, <1>8, TimeWake DEF WakeInv
<1>9. CASE ReleaseReset
  <2>1. /\ ch' = ch /\ cfg' = cfg /\ ch.get_num = 0 /\ ch.put_num = 0
        /\ cfg.mode # "CA" => runnable' = Side
    BY <1>9 DEF ReleaseReset, Idle, WakeInv, Inv, PendingInv
  <2>2. WakesInv'
    BY <2>1 DEF WakesInv
  <2>3. AsleepInv'
    BY <2>1 DEF AsleepInv, Side
  <2> QED BY <1>0, <2>2, <2>3 DEF WakeInv
<1>10. CASE UNCHANGED vars
  BY <1>0, <1>10 DEF WakeInv, WakesInv, AsleepInv, Committed, LT, vars
<1> QED BY <1>1, <1>2, <1>3, <1>4, <1>5, <1>6, <1>7, <1>8, <1>9, <1>10 DEF Next, Evaluate

\* For every buffer size and number of transfers per activation, a thread that
\* the buffer refused is notified as soon as it accepts again, at the thresholds
\* of put_event and get_event at the latest: no wake-up is lost in any order of
\* puts, gets, clears, updates and resets.
THEOREM SleepersAreWoken == Spec => []RefusedAreWoken
<1>1. Init => WakeInv
  BY InitInv DEF Init, WakeInv, WakesInv, AsleepInv
<1>2. WakeInv /\ [Next]_vars => WakeInv'
  BY WakeStep
<1>3. WakeInv => RefusedAreWoken
  <2> SUFFICES ASSUME WakeInv, Idle, ~rst, cfg.mode # "CA"
               PROVE  /\ "put" \in refused \ ch.notified =>
                         IF cfg.MULTI_PUT THEN ch.element_num > 1 ELSE ~ready(ch)
                      /\ "get" \in refused \ ch.notified =>
                         IF cfg.MULTI_GET THEN ch.element_num < cfg.bufSize - 1
                                          ELSE ~request(ch)
    BY DEF RefusedAreWoken
  <2>1. runnable = {} /\ ~ch.updating /\ ch.get_num = 0 /\ ch.put_num = 0
    BY DEF Idle, WakeInv, Inv, PendingInv
  <2>2. /\ ch.element_num \in Nat /\ cfg.bufSize \in Nat
        /\ cfg.MULTI_PUT \in BOOLEAN /\ cfg.MULTI_GET \in BOOLEAN
    BY Counters DEF WakeInv
  <2>3. Committed = ch.element_num
    BY <2>1, <2>2 DEF Committed
  <2> QED BY <2>1, <2>2, <2>3 DEF WakeInv, AsleepInv, ready, request
<1> QED BY <1>1, <1>2, <1>3, PTL DEF Spec
=============================================================================
