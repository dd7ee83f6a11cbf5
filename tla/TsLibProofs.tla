---------------------------- MODULE TsLibProofs ----------------------------
(***************************************************************************)
(* Proofs about tslib's containers: the ring buffer, for every capacity,   *)
(* size of an element, set of messages and set of readers' buffers, and    *)
(* the list, for every set of items and chunk sizes.                       *)
(***************************************************************************)
EXTENDS TsRingBuf, TsList, SequenceTheorems, TLAPS

-----------------------------------------------------------------------------
(* Positions in the ring: the one k - 1 behind r.                          *)
Pos(r, k) == (r + k - 1) % capacity

LEMMA PosIs ==
    ASSUME NEW r \in Index, NEW k \in 1 .. capacity + 1
    PROVE  /\ Pos(r, k) = IF r + k - 1 < capacity THEN r + k - 1
                          ELSE r + k - 1 - capacity
           /\ Pos(r, k) \in Index
<1>1. capacity \in Nat \ {0} /\ r \in 0 .. capacity - 1 /\ k \in 1 .. capacity + 1
  BY CapacityAssumption DEF Index
<1>2. CASE r + k - 1 < capacity
  <2>1. (r + k - 1) % capacity = r + k - 1
    BY <1>1, <1>2
  <2> QED
    BY <1>1, <1>2, <2>1 DEF Pos, Index
<1>3. CASE ~(r + k - 1 < capacity)
  <2>1. (r + k - 1) % capacity = r + k - 1 - capacity
    BY <1>1, <1>3
  <2> QED
    BY <1>1, <1>3, <2>1 DEF Pos, Index
<1> QED
  BY <1>2, <1>3

(* The positions of a full ring are all different.                         *)
LEMMA PosDiffer ==
    ASSUME NEW r \in Index, NEW j \in 1 .. capacity, NEW k \in 1 .. capacity,
           Pos(r, j) = Pos(r, k)
    PROVE  j = k
<1>1. capacity \in Nat \ {0} /\ r \in 0 .. capacity - 1
  BY CapacityAssumption DEF Index
<1>2. j \in 1 .. capacity + 1 /\ k \in 1 .. capacity + 1
  BY <1>1
<1> QED
  BY <1>1, <1>2, PosIs

LEMMA PosNext ==
    ASSUME NEW r \in Index, NEW k \in 1 .. capacity
    PROVE  /\ Next1(Pos(r, k)) = Pos(r, k + 1)
           /\ Pos(Next1(r), k) = Pos(r, k + 1)
           /\ Next1(r) \in Index /\ Pos(r, 1) = r
<1>1. capacity \in Nat \ {0} /\ r \in 0 .. capacity - 1 /\ 1 \in 1 .. capacity + 1
  BY CapacityAssumption DEF Index
<1>2. k \in 1 .. capacity + 1 /\ k + 1 \in 1 .. capacity + 1
  BY <1>1
<1>3. \A i \in Index : Next1(i) = IF i + 1 < capacity THEN i + 1 ELSE 0
  <2> SUFFICES ASSUME NEW i \in Index
               PROVE  Next1(i) = IF i + 1 < capacity THEN i + 1 ELSE 0
    OBVIOUS
  <2>1. i \in 0 .. capacity - 1 /\ 2 \in 1 .. capacity + 1
    BY <1>1 DEF Index
  <2>2. Next1(i) = Pos(i, 2)
    BY <2>1 DEF Next1, Pos
  <2> QED
    BY <1>1, <2>1, <2>2, PosIs
<1>4. Pos(r, 1) = r
  BY <1>1, PosIs
<1>5. Next1(r) \in Index
  BY <1>1, <1>3 DEF Index
<1>6. Next1(Pos(r, k)) = Pos(r, k + 1)
  BY <1>1, <1>2, <1>3, PosIs
<1>7. Pos(Next1(r), k) = Pos(r, k + 1)
  BY <1>1, <1>2, <1>3, <1>5, PosIs
<1> QED
  BY <1>4, <1>5, <1>6, <1>7
-----------------------------------------------------------------------------
(* What a heap block can hold.                                             *)
Bytes == {Junk} \cup UNION { { m[k] : k \in DOMAIN m } : m \in Message }
Element == [data : Seq(Bytes), len : Nat, valid : BOOLEAN]

RingInv ==
    /\ elements \in [Index -> Element]
    /\ read_idx \in Index /\ count \in 0 .. capacity
    /\ write_idx = Pos(read_idx, count + 1)
    /\ \A i \in Index :
          /\ elements[i].valid = (i \in Pending)
          /\ elements[i].valid = (elements[i].len # 0)
          /\ elements[i].len <= Len(elements[i].data)

LEMMA MessageIsSeq ==
    ASSUME NEW m \in Message PROVE m \in Seq(Bytes)
<1>1. m \in Seq(UNION { { mm[k] : k \in DOMAIN mm } : mm \in Message })
  BY MessageAssumption
<1>2. UNION { { mm[k] : k \in DOMAIN mm } : mm \in Message } \subseteq Bytes
  BY DEF Bytes
<1> HIDE DEF Bytes
<1> QED
  BY <1>1, <1>2, SeqMonotonic

(* A message pushed over a block of any length is the block's beginning.   *)
LEMMA PushedBlock ==
    ASSUME NEW block \in Seq(Bytes), NEW m \in Message
    PROVE  LET d == Overwrite(Grown(block, Len(m)), m)
           IN  /\ d \in Seq(Bytes) /\ Len(d) >= Len(m)
               /\ SubSeq(d, 1, Len(m)) = m
               /\ Len(d) \in {Len(block), Len(m)}
<1> DEFINE g == Grown(block, Len(m))
           d == Overwrite(g, m)
<1>1. m \in Seq(Bytes) /\ Len(m) \in Nat /\ Len(block) \in Nat /\ Junk \in Bytes
  BY MessageIsSeq DEF Bytes
<1> HIDE DEF Bytes
<1>2. g \in Seq(Bytes) /\ Len(g) >= Len(m) /\ Len(g) \in Nat
      /\ Len(g) \in {Len(block), Len(m)}
  BY <1>1 DEF Grown
<1> HIDE DEF g
<1>3. /\ d \in Seq(Bytes) /\ Len(d) = Len(g)
      /\ \A k \in 1 .. Len(m) : d[k] = m[k]
  BY <1>1, <1>2 DEF Overwrite
<1> HIDE DEF d
<1>4. /\ SubSeq(d, 1, Len(m)) \in Seq(Bytes) /\ Len(SubSeq(d, 1, Len(m))) = Len(m)
      /\ \A k \in 1 .. Len(m) : SubSeq(d, 1, Len(m))[k] = m[k]
  BY <1>1, <1>2, <1>3
<1>5. SubSeq(d, 1, Len(m)) = m
  BY <1>1, <1>4, SeqEqual
<1> QED
  BY <1>2, <1>3, <1>5 DEF d, g

(* The messages waiting, by their distance from the reader.                *)
LEMMA NthIsPos == \A k : Nth(k) = Pos(read_idx, k)
BY DEF Nth, Pos

LEMMA CountIsBounded ==
    RingInv => /\ capacity \in Nat \ {0} /\ count \in Nat /\ count <= capacity
               /\ count + 1 \in 1 .. capacity + 1
               /\ write_idx \in Index
<1> SUFFICES ASSUME RingInv PROVE /\ capacity \in Nat \ {0} /\ count \in Nat
                                  /\ count <= capacity
                                  /\ count + 1 \in 1 .. capacity + 1
                                  /\ write_idx \in Index
  OBVIOUS
<1>1. capacity \in Nat \ {0} /\ count \in 0 .. capacity /\ read_idx \in Index
  BY CapacityAssumption DEF RingInv
<1>2. count + 1 \in 1 .. capacity + 1
  BY <1>1
<1> QED
  BY <1>1, <1>2, PosIs DEF RingInv

LEMMA PushKeeps ==
    ASSUME RingInv, NEW m \in Message, tsringbuf_push(m)
    PROVE  /\ RingInv'
           /\ elements' = [elements EXCEPT ![write_idx] = elements'[write_idx]]
           /\ elements'[write_idx].len = Len(m)
           /\ SubSeq(elements'[write_idx].data, 1, Len(m)) = m
           /\ \A k \in 1 .. count : Nth(k) # write_idx
<1> DEFINE d == Overwrite(Grown(elements[write_idx].data, Len(m)), m)
           e == [data |-> d, len |-> Len(m), valid |-> TRUE]
<1>1. /\ capacity \in Nat \ {0} /\ count \in Nat /\ count < capacity
      /\ count + 1 \in 1 .. capacity /\ write_idx \in Index /\ read_idx \in Index
  BY CountIsBounded DEF RingInv, tsringbuf_push, Accepts, is_full
<1>2. /\ elements \in [Index -> Element] /\ Len(m) \in Nat /\ Len(m) # 0
      /\ elements[write_idx].data \in Seq(Bytes)
  BY <1>1, MessageIsSeq DEF RingInv, Element, tsringbuf_push, Accepts
<1>3. d \in Seq(Bytes) /\ Len(d) >= Len(m) /\ SubSeq(d, 1, Len(m)) = m
  BY <1>2, PushedBlock
<1>4. /\ elements' = [elements EXCEPT ![write_idx] = e]
      /\ write_idx' = Next1(write_idx) /\ count' = count + 1 /\ read_idx' = read_idx
  BY DEF tsringbuf_push
<1> HIDE DEF d
<1>5. e \in Element /\ e.valid = TRUE /\ e.len = Len(m) /\ e.data = d
  BY <1>2, <1>3 DEF Element
<1> HIDE DEF e, Element
<1>6. /\ elements' \in [Index -> Element] /\ elements'[write_idx] = e
      /\ \A i \in Index \ {write_idx} : elements'[i] = elements[i]
  BY <1>1, <1>2, <1>4, <1>5
<1>7. \A k \in 1 .. count : Nth(k) # write_idx
  <2> SUFFICES ASSUME NEW k \in 1 .. count, Nth(k) = write_idx PROVE FALSE
    OBVIOUS
  <2>1. Pos(read_idx, k) = Pos(read_idx, count + 1) /\ k \in 1 .. capacity
    BY <1>1, NthIsPos DEF RingInv
  <2>2. k = count + 1
    BY <1>1, <2>1, PosDiffer
  <2> QED
    BY <1>1, <2>2
<1>8. Pending' = Pending \cup {write_idx}
  <2>1. \A k : Nth(k)' = Nth(k)
    BY <1>4 DEF Nth
  <2>2. Nth(count + 1) = write_idx
    BY NthIsPos DEF RingInv
  <2>3. 1 .. count + 1 = (1 .. count) \cup {count + 1}
    BY <1>1
  <2> QED
    BY <1>4, <2>1, <2>2, <2>3 DEF Pending
<1>9. write_idx' = Pos(read_idx', count' + 1)
  BY <1>1, <1>4, PosNext DEF RingInv
<1>10. count' \in 0 .. capacity
  BY <1>1, <1>4
<1>11. \A i \in Index :
          /\ elements'[i].valid = (i \in Pending')
          /\ elements'[i].valid = (elements'[i].len # 0)
          /\ elements'[i].len <= Len(elements'[i].data)
  <2> SUFFICES ASSUME NEW i \in Index
               PROVE  /\ elements'[i].valid = (i \in Pending')
                      /\ elements'[i].valid = (elements'[i].len # 0)
                      /\ elements'[i].len <= Len(elements'[i].data)
    OBVIOUS
  <2>1. CASE i = write_idx
    <3>1. i \in Pending' /\ (Len(m) # 0) = TRUE /\ Len(m) <= Len(d)
      BY <1>2, <1>3, <1>8, <2>1
    <3> QED
      BY <1>5, <1>6, <2>1, <3>1
  <2>2. CASE i # write_idx
    <3>1. elements'[i] = elements[i] /\ (i \in Pending' <=> i \in Pending)
      BY <1>6, <1>8, <2>2
    <3> QED
      BY <3>1 DEF RingInv
  <2> QED
    BY <2>1, <2>2
<1>12. RingInv'
  BY <1>1, <1>4, <1>6, <1>9, <1>10, <1>11 DEF RingInv
<1> QED
  BY <1>3, <1>4, <1>5, <1>6, <1>7, <1>12

LEMMA PopKeeps ==
    ASSUME RingInv, NEW room \in Rooms, tsringbuf_pop(room)
    PROVE  /\ RingInv' /\ count >= 1 /\ count' = count - 1
           /\ Nth(1) = read_idx
           /\ \A k \in 1 .. count' : /\ Nth(k)' = Nth(k + 1)
                                     /\ elements'[Nth(k + 1)] = elements[Nth(k + 1)]
<1>1. /\ capacity \in Nat \ {0} /\ count \in Nat /\ count >= 1 /\ count <= capacity
      /\ read_idx \in Index /\ elements \in [Index -> Element]
      /\ write_idx \in Index
  BY CountIsBounded DEF RingInv, tsringbuf_pop, Readable, is_empty
<1>2. /\ read_idx' = Next1(read_idx) /\ count' = count - 1 /\ write_idx' = write_idx
      /\ elements' = [elements EXCEPT ![read_idx].valid = FALSE, ![read_idx].len = 0]
  BY DEF tsringbuf_pop
<1>3. /\ elements' \in [Index -> Element]
      /\ elements'[read_idx].valid = FALSE /\ elements'[read_idx].len = 0
      /\ elements'[read_idx].data = elements[read_idx].data
      /\ \A i \in Index \ {read_idx} : elements'[i] = elements[i]
  BY <1>1, <1>2 DEF Element
<1>4. /\ Nth(1) = read_idx /\ Next1(read_idx) \in Index
      /\ \A k \in 1 .. capacity : Nth(k)' = Nth(k + 1)
  BY <1>1, <1>2, NthIsPos, PosNext DEF Nth, Pos
<1>5. \A k \in 1 .. count' : Nth(k + 1) \in Index \ {read_idx}
  <2> SUFFICES ASSUME NEW k \in 1 .. count'
               PROVE  Nth(k + 1) \in Index \ {read_idx}
    OBVIOUS
  <2>1. k + 1 \in 1 .. capacity /\ k + 1 # 1 /\ 1 \in 1 .. capacity
    BY <1>1, <1>2
  <2>2. k + 1 \in 1 .. capacity + 1
    BY <1>1, <2>1
  <2> QED
    BY <1>1, <1>4, <2>1, <2>2, NthIsPos, PosIs, PosDiffer
<1>6. Pending' = Pending \ {read_idx}
  <2>1. Pending' = { Nth(k + 1) : k \in 1 .. count' }
    BY <1>1, <1>2, <1>4 DEF Pending
  <2>2. ASSUME NEW j \in 1 .. count, j # 1 PROVE j - 1 \in 1 .. count' /\ j = (j - 1) + 1
    BY <1>1, <1>2, <2>2
  <2>3. \A k \in 1 .. count' : k + 1 \in 1 .. count
    BY <1>1, <1>2
  <2>4. Pending' \subseteq Pending \ {read_idx}
    BY <1>5, <2>1, <2>3 DEF Pending
  <2>5. ASSUME NEW j \in 1 .. count, Nth(j) # read_idx PROVE Nth(j) \in Pending'
    <3>1. j - 1 \in 1 .. count' /\ j = (j - 1) + 1
      BY <1>4, <2>2, <2>5
    <3> QED
      BY <2>1, <3>1
  <2> QED
    BY <2>4, <2>5 DEF Pending
<1>7. write_idx' = Pos(read_idx', count' + 1)
  BY <1>1, <1>2, PosNext DEF RingInv
<1>8. count' \in 0 .. capacity
  BY <1>1, <1>2
<1>9. \A i \in Index :
          /\ elements'[i].valid = (i \in Pending')
          /\ elements'[i].valid = (elements'[i].len # 0)
          /\ elements'[i].len <= Len(elements'[i].data)
  <2>1. Len(elements[read_idx].data) \in Nat
    BY <1>1 DEF Element
  <2> SUFFICES ASSUME NEW i \in Index
               PROVE  /\ elements'[i].valid = (i \in Pending')
                      /\ elements'[i].valid = (elements'[i].len # 0)
                      /\ elements'[i].len <= Len(elements'[i].data)
    OBVIOUS
  <2>2. CASE i = read_idx
    <3>1. (i \in Pending') = FALSE
      BY <1>6, <2>2
    <3>2. elements'[i].valid = FALSE /\ elements'[i].len = 0
          /\ elements'[i].data = elements[read_idx].data
      BY <1>3, <2>2
    <3>3. elements'[i].len <= Len(elements'[i].data)
      BY <2>1, <3>2
    <3>4. (elements'[i].len # 0) = FALSE
      BY <3>2
    <3>5. elements'[i].valid = (i \in Pending')
      BY <3>1, <3>2
    <3>6. elements'[i].valid = (elements'[i].len # 0)
      BY <3>2, <3>4
    <3> QED
      BY <3>3, <3>5, <3>6
  <2>3. CASE i # read_idx
    <3>1. elements'[i] = elements[i] /\ (i \in Pending' <=> i \in Pending)
      BY <1>3, <1>6, <2>3
    <3> QED
      BY <3>1 DEF RingInv
  <2> QED
    BY <2>2, <2>3
<1>10. RingInv'
  BY <1>1, <1>2, <1>3, <1>4, <1>7, <1>8, <1>9 DEF RingInv
<1> QED
  BY <1>1, <1>2, <1>3, <1>4, <1>5, <1>10

LEMMA QuietKeeps ==
    ASSUME RingInv, UNCHANGED <<elements, write_idx, read_idx, count>>
    PROVE  RingInv'
BY DEF RingInv, Pending, Nth

LEMMA ClearKeeps == ASSUME RingInv, tsringbuf_init_buffer PROVE RingInv'
<1>1. /\ elements' = [i \in Index |-> [elements[i] EXCEPT !.valid = FALSE, !.len = 0]]
      /\ write_idx' = 0 /\ read_idx' = 0 /\ count' = 0
  BY DEF tsringbuf_init_buffer
<1>2. elements \in [Index -> Element]
  BY DEF RingInv
<1>3. /\ elements' \in [Index -> Element]
      /\ \A i \in Index : /\ elements'[i].valid = FALSE /\ elements'[i].len = 0
                          /\ 0 <= Len(elements'[i].data)
  <2>1. ASSUME NEW i \in Index
        PROVE  /\ [elements[i] EXCEPT !.valid = FALSE, !.len = 0] \in Element
               /\ [elements[i] EXCEPT !.valid = FALSE, !.len = 0].valid = FALSE
               /\ [elements[i] EXCEPT !.valid = FALSE, !.len = 0].len = 0
               /\ 0 <= Len([elements[i] EXCEPT !.valid = FALSE, !.len = 0].data)
    <3>1. elements[i] \in Element
      BY <1>2
    <3>2. Len(elements[i].data) \in Nat
      BY <3>1 DEF Element
    <3>3. /\ [elements[i] EXCEPT !.valid = FALSE, !.len = 0] \in Element
          /\ [elements[i] EXCEPT !.valid = FALSE, !.len = 0].valid = FALSE
          /\ [elements[i] EXCEPT !.valid = FALSE, !.len = 0].len = 0
          /\ [elements[i] EXCEPT !.valid = FALSE, !.len = 0].data = elements[i].data
      BY <3>1 DEF Element
    <3> QED
      BY <3>2, <3>3
  <2> HIDE DEF Element
  <2> QED
    BY <1>1, <2>1
<1>4. Pending' = {}
  <2>1. count' = 0
    BY <1>1
  <2>2. 1 .. count' = {}
    BY <2>1
  <2> QED
    BY <2>2 DEF Pending
<1>5. 0 \in Index /\ 1 \in 1 .. capacity /\ 0 \in 0 .. capacity
  BY CapacityAssumption DEF Index
<1>6. write_idx' = Pos(read_idx', count' + 1)
  <2>1. Pos(0, 1) = 0 /\ 0 + 1 = 1
    BY <1>5, PosNext
  <2> QED
    BY <1>1, <2>1
<1>7. ASSUME NEW i \in Index
      PROVE  /\ elements'[i].valid = (i \in Pending')
             /\ elements'[i].valid = (elements'[i].len # 0)
             /\ elements'[i].len <= Len(elements'[i].data)
  <2>1. (i \in Pending') = FALSE /\ (elements'[i].len # 0) = FALSE
    BY <1>3, <1>4
  <2> QED
    BY <1>3, <2>1
<1> QED
  BY <1>1, <1>3, <1>5, <1>6, <1>7 DEF RingInv

LEMMA InitKeeps == RingInit => RingInv
<1> SUFFICES ASSUME RingInit PROVE RingInv
  OBVIOUS
<1>1. 0 \in Index /\ 1 \in 1 .. capacity /\ 0 \in 0 .. capacity
  BY CapacityAssumption DEF Index
<1>2. Unused \in Element /\ Unused.valid = FALSE /\ Unused.len = 0
      /\ Len(Unused.data) = 0
  BY DEF Unused, Element
<1>3. Pending = {}
  BY DEF RingInit, Pending
<1>4. write_idx = Pos(read_idx, count + 1)
  BY <1>1, PosNext DEF RingInit
<1> QED
  BY <1>1, <1>2, <1>3, <1>4 DEF RingInit, RingInv

(* No block outgrows the largest element.                                  *)
BlocksFit == \A i \in Index : Len(elements[i].data) <= max_element_size

LEMMA BlocksKept == RingInv /\ BlocksFit /\ [RingNext]_ringVars => BlocksFit'
<1> SUFFICES ASSUME RingInv, BlocksFit, [RingNext]_ringVars PROVE BlocksFit'
  OBVIOUS
<1>1. elements \in [Index -> Element] /\ write_idx \in Index /\ read_idx \in Index
  BY CountIsBounded DEF RingInv
<1>2. ASSUME NEW m \in Message, tsringbuf_push(m)
      PROVE  BlocksFit'
  <2> DEFINE old == elements[write_idx].data
             d == Overwrite(Grown(old, Len(m)), m)
  <2>1. old \in Seq(Bytes) /\ Len(old) <= max_element_size
    BY <1>1 DEF Element, BlocksFit
  <2>2. Len(m) <= max_element_size
    BY <1>2 DEF tsringbuf_push, Accepts
  <2>3. Len(d) \in {Len(old), Len(m)}
    BY <2>1, PushedBlock
  <2>4. elements' = [elements EXCEPT ![write_idx] =
                        [data |-> d, len |-> Len(m), valid |-> TRUE]]
    BY <1>2 DEF tsringbuf_push
  <2>5. Len(d) <= max_element_size
    BY <2>1, <2>2, <2>3
  <2> HIDE DEF old, d, Element
  <2>6. /\ elements'[write_idx].data = d
        /\ \A i \in Index \ {write_idx} : elements'[i] = elements[i]
    BY <1>1, <2>4
  <2> QED
    BY <2>5, <2>6 DEF BlocksFit
<1>3. ASSUME NEW room \in Rooms, tsringbuf_pop(room)
      PROVE  BlocksFit'
  <2>1. elements' = [elements EXCEPT ![read_idx].valid = FALSE, ![read_idx].len = 0]
    BY <1>3 DEF tsringbuf_pop
  <2>2. \A i \in Index : elements'[i].data = elements[i].data
    BY <1>1, <2>1 DEF Element
  <2> QED
    BY <2>2 DEF BlocksFit
<1>4. CASE tsringbuf_init_buffer
  <2>1. \A i \in Index : elements'[i].data = elements[i].data
    BY <1>1, <1>4 DEF tsringbuf_init_buffer, Element
  <2> QED
    BY <2>1 DEF BlocksFit
<1>5. CASE UNCHANGED elements
  BY <1>5 DEF BlocksFit
<1> QED
  BY <1>2, <1>3, <1>4, <1>5 DEF RingNext, ringVars, PushFails, tsringbuf_peek,
     ReadFails

LEMMA RingInvariant == RingSpec => []RingInv
<1>1. RingInv /\ [RingNext]_ringVars => RingInv'
  BY PushKeeps, PopKeeps, QuietKeeps, ClearKeeps
     DEF RingNext, ringVars, PushFails, tsringbuf_peek, ReadFails
<1> QED
  BY <1>1, InitKeeps, PTL DEF RingSpec

(* The state keeps its types, and every block its bound.                   *)
THEOREM RingTypeCorrect == RingSpec => []RingTypeOK
<1>1. RingInit => BlocksFit
  BY SizeAssumption DEF RingInit, BlocksFit, Unused
<1>2. RingInv /\ BlocksFit => RingTypeOK
  <2> SUFFICES ASSUME RingInv, BlocksFit PROVE RingTypeOK
    OBVIOUS
  <2>1. write_idx \in Index /\ read_idx \in Index /\ count \in 0 .. capacity
    BY CountIsBounded DEF RingInv
  <2>2. ASSUME NEW i \in Index
        PROVE  /\ elements[i].valid \in BOOLEAN
               /\ elements[i].len \in 0 .. max_element_size
               /\ Len(elements[i].data) \in 0 .. max_element_size
    <3>1. elements[i] \in Element
      BY DEF RingInv
    <3>2. /\ elements[i].valid \in BOOLEAN /\ elements[i].len \in Nat
          /\ Len(elements[i].data) \in Nat
      BY <3>1 DEF Element
    <3>3. /\ elements[i].len <= Len(elements[i].data)
          /\ Len(elements[i].data) <= max_element_size
      BY DEF RingInv, BlocksFit
    <3> QED
      BY <3>2, <3>3, SizeAssumption
  <2> QED
    BY <2>1, <2>2 DEF RingTypeOK
<1> QED
  BY <1>1, <1>2, BlocksKept, RingInvariant, PTL DEF RingSpec

(* The indices, the valid flags and the lengths tell one story, for a ring *)
(* of any capacity (tsringbuf.c).                                          *)
THEOREM WindowStaysValid == RingSpec => []WindowIsValid
<1>1. RingInv => WindowIsValid
  <2> SUFFICES ASSUME RingInv PROVE WindowIsValid
    OBVIOUS
  <2>1. read_idx + count + 1 - 1 = read_idx + count
    BY CapacityAssumption DEF RingInv, Index
  <2> QED
    BY <2>1 DEF RingInv, WindowIsValid, Pos
<1> QED
  BY <1>1, RingInvariant, PTL
-----------------------------------------------------------------------------
(* The queue a ring stands for.                                            *)
Text(e) == SubSeq(e.data, 1, e.len)
QueueOf(els, r, c) == [k \in 1 .. c |-> Text(els[Pos(r, k)])]

LEMMA TextIs ==
    ASSUME NEW e \in Element, e.len <= Len(e.data)
    PROVE  /\ Text(e) \in Seq(Bytes) /\ Len(Text(e)) = e.len
           /\ \A k \in 1 .. e.len : Text(e)[k] = e.data[k]
<1>1. e.data \in Seq(Bytes) /\ e.len \in Nat
  BY DEF Element
<1> HIDE DEF Bytes, Element
<1> QED
  BY <1>1 DEF Text

LEMMA QueueOfIs ==
    ASSUME NEW els \in [Index -> Element], NEW r \in Index, NEW c \in 0 .. capacity,
           \A i \in Index : els[i].len <= Len(els[i].data)
    PROVE  /\ QueueOf(els, r, c) \in Seq(Seq(Bytes)) /\ Len(QueueOf(els, r, c)) = c
           /\ \A k \in 1 .. c : QueueOf(els, r, c)[k] = Text(els[Pos(r, k)])
<1>1. c \in Nat /\ 1 .. c \subseteq 1 .. capacity + 1
  BY CapacityAssumption
<1>2. \A k \in 1 .. c : Text(els[Pos(r, k)]) \in Seq(Bytes)
  BY <1>1, PosIs, TextIs
<1> HIDE DEF Bytes
<1> QED
  BY <1>1, <1>2 DEF QueueOf

LEMMA RingInvQueue ==
    RingInv =>
        LET q == QueueOf(elements, read_idx, count)
        IN  /\ q \in Seq(Seq(Bytes)) /\ Len(q) = count
            /\ \A k \in 1 .. count : q[k] = Text(elements[Nth(k)])
BY QueueOfIs, NthIsPos DEF RingInv

(* A reader gets of a message what fits, and its length.                   *)
LEMMA ContentsAreReport ==
    ASSUME NEW e \in Element, e.len <= Len(e.data), NEW room \in Nat
    PROVE  Contents(e, room) = Queue!Report(Text(e), room)
<1> DEFINE n == CopyLen(e, room)
<1>1. e.len \in Nat /\ e.data \in Seq(Bytes) /\ Len(e.data) \in Nat
  BY DEF Element
<1>2. n \in Nat /\ n <= e.len
  BY <1>1 DEF CopyLen
<1>3. /\ Text(e) \in Seq(Bytes) /\ Len(Text(e)) = e.len
      /\ \A k \in 1 .. e.len : Text(e)[k] = e.data[k]
  BY TextIs
<1>4. (IF room < Len(Text(e)) THEN room ELSE Len(Text(e))) = n
  BY <1>1, <1>3 DEF CopyLen
<1> HIDE DEF n, Bytes, Element
<1>5. /\ SubSeq(e.data, 1, n) \in Seq(Bytes) /\ Len(SubSeq(e.data, 1, n)) = n
      /\ \A k \in 1 .. n : SubSeq(e.data, 1, n)[k] = e.data[k]
  BY <1>1, <1>2
<1>6. /\ SubSeq(Text(e), 1, n) \in Seq(Bytes) /\ Len(SubSeq(Text(e), 1, n)) = n
      /\ \A k \in 1 .. n : SubSeq(Text(e), 1, n)[k] = e.data[k]
  BY <1>1, <1>2, <1>3
<1>7. SubSeq(e.data, 1, n) = SubSeq(Text(e), 1, n)
  BY <1>5, <1>6, SeqEqual
<1>8. Contents(e, room) = [data |-> SubSeq(e.data, 1, n), len |-> e.len]
  BY DEF Contents, n
<1>9. Queue!Report(Text(e), room) = [data |-> SubSeq(Text(e), 1, n), len |-> e.len]
  BY <1>3, <1>4 DEF Queue!Report, Queue!Prefix
<1> QED
  BY <1>7, <1>8, <1>9

LEMMA PushIsPut ==
    ASSUME RingInv, NEW m \in Message, tsringbuf_push(m)
    PROVE  QueueOf(elements', read_idx', count') =
               Append(QueueOf(elements, read_idx, count), m)
<1> DEFINE q == QueueOf(elements, read_idx, count)
           p == QueueOf(elements', read_idx', count')
<1>1. /\ q \in Seq(Seq(Bytes)) /\ Len(q) = count /\ count \in Nat
      /\ \A k \in 1 .. count : q[k] = Text(elements[Nth(k)])
  BY RingInvQueue, CountIsBounded
<1>2. /\ RingInv' /\ count' = count + 1 /\ read_idx' = read_idx
      /\ write_idx = Pos(read_idx, count + 1)
      /\ elements' = [elements EXCEPT ![write_idx] = elements'[write_idx]]
      /\ Text(elements'[write_idx]) = m
      /\ \A k \in 1 .. count : Nth(k) # write_idx
  BY PushKeeps DEF RingInv, tsringbuf_push, Text
<1>3. /\ elements' \in [Index -> Element] /\ read_idx' \in Index
      /\ count' \in 0 .. capacity
      /\ \A i \in Index : elements'[i].len <= Len(elements'[i].data)
  BY <1>2 DEF RingInv
<1>4. /\ p \in Seq(Seq(Bytes)) /\ Len(p) = count'
      /\ \A k \in 1 .. count' : p[k] = Text(elements'[Pos(read_idx', k)])
  BY <1>3, QueueOfIs
<1> HIDE DEF p, q, Bytes, Element, Text
<1>5. m \in Seq(Bytes)
  BY MessageIsSeq
<1>6. /\ Append(q, m) \in Seq(Seq(Bytes)) /\ Len(Append(q, m)) = count + 1
      /\ \A k \in 1 .. count : Append(q, m)[k] = q[k]
      /\ Append(q, m)[count + 1] = m
  BY <1>1, <1>5, AppendProperties
<1>7. ASSUME NEW k \in 1 .. count + 1 PROVE p[k] = Append(q, m)[k]
  <2>1. CASE k \in 1 .. count
    <3>1. Nth(k) # write_idx /\ Nth(k) \in Index
      <4>1. k \in 1 .. capacity + 1
        BY <2>1, CapacityAssumption DEF RingInv
      <4> QED
        BY <1>2, <2>1, <4>1, PosIs, NthIsPos DEF RingInv
    <3>2. elements'[Nth(k)] = elements[Nth(k)]
      <4>1. elements \in [Index -> Element]
        BY DEF RingInv
      <4> QED
        BY <1>2, <3>1, <4>1
    <3> QED
      BY <1>1, <1>2, <1>4, <1>6, <2>1, <3>2, NthIsPos
  <2>2. CASE k = count + 1
    BY <1>2, <1>4, <1>6, <2>2
  <2> QED
    BY <1>1, <2>1, <2>2
<1> QED
  BY <1>2, <1>4, <1>6, <1>7, SeqEqual DEF p, q

LEMMA PopIsGet ==
    ASSUME RingInv, NEW room \in Rooms, tsringbuf_pop(room)
    PROVE  QueueOf(elements', read_idx', count') =
               Tail(QueueOf(elements, read_idx, count))
<1> DEFINE q == QueueOf(elements, read_idx, count)
           p == QueueOf(elements', read_idx', count')
<1>1. /\ q \in Seq(Seq(Bytes)) /\ Len(q) = count /\ count \in Nat
      /\ \A k \in 1 .. count : q[k] = Text(elements[Nth(k)])
  BY RingInvQueue, CountIsBounded
<1>2. /\ RingInv' /\ count >= 1 /\ count' = count - 1
      /\ \A k \in 1 .. count' : /\ Nth(k)' = Nth(k + 1)
                                /\ elements'[Nth(k + 1)] = elements[Nth(k + 1)]
  BY PopKeeps
<1>3. /\ elements' \in [Index -> Element] /\ read_idx' \in Index
      /\ count' \in 0 .. capacity
      /\ \A i \in Index : elements'[i].len <= Len(elements'[i].data)
  BY <1>2 DEF RingInv
<1>4. /\ p \in Seq(Seq(Bytes)) /\ Len(p) = count'
      /\ \A k \in 1 .. count' : p[k] = Text(elements'[Pos(read_idx', k)])
  BY <1>3, QueueOfIs
<1>5. \A k \in 1 .. count' : Pos(read_idx', k) = Nth(k)'
  BY DEF Pos, Nth
<1> HIDE DEF p, q, Bytes, Element, Text
<1>6. q # <<>>
  BY <1>1, <1>2
<1>7. /\ Tail(q) \in Seq(Seq(Bytes)) /\ Len(Tail(q)) = count - 1
      /\ \A k \in 1 .. count - 1 : Tail(q)[k] = q[k + 1]
  BY <1>1, <1>6, HeadTailProperties
<1>8. ASSUME NEW k \in 1 .. count - 1 PROVE p[k] = Tail(q)[k]
  <2>1. k + 1 \in 1 .. count /\ k \in 1 .. count'
    BY <1>1, <1>2
  <2>2. p[k] = Text(elements'[Nth(k + 1)])
    BY <1>2, <1>4, <1>5, <2>1
  <2>3. Tail(q)[k] = Text(elements[Nth(k + 1)])
    BY <1>1, <1>7, <2>1
  <2> QED
    BY <1>2, <2>1, <2>2, <2>3
<1> QED
  BY <1>2, <1>4, <1>7, <1>8, SeqEqual DEF p, q

(* What a reader is given.                                                 *)
LEMMA ReadIsReport ==
    ASSUME RingInv, Readable, NEW room \in Rooms
    PROVE  LET q == QueueOf(elements, read_idx, count)
           IN  /\ q # <<>>
               /\ Contents(elements[read_idx], room) = Queue!Report(Head(q), room)
<1> DEFINE q == QueueOf(elements, read_idx, count)
<1>1. /\ q \in Seq(Seq(Bytes)) /\ Len(q) = count
      /\ \A k \in 1 .. count : q[k] = Text(elements[Nth(k)])
      /\ count \in Nat /\ count # 0
  BY RingInvQueue, CountIsBounded DEF Readable, is_empty
<1>2. /\ read_idx \in Index /\ elements[read_idx] \in Element
      /\ elements[read_idx].len <= Len(elements[read_idx].data)
  BY DEF RingInv
<1>3. Nth(1) = read_idx
  <2>1. 1 \in 1 .. capacity
    BY CapacityAssumption
  <2> QED
    BY <1>2, <2>1, PosNext, NthIsPos
<1>4. room \in Nat
  BY RoomAssumption
<1> HIDE DEF q, Bytes, Element, Text
<1>5. q # <<>> /\ Head(q) = q[1] /\ 1 \in 1 .. count
  BY <1>1
<1>6. Head(q) = Text(elements[read_idx])
  BY <1>1, <1>3, <1>5
<1> QED
  BY <1>2, <1>4, <1>5, <1>6, ContentsAreReport DEF q

(* The ring implements a queue of whole messages, for any capacity: no     *)
(* byte of an earlier occupant of a block reaches a reader (tsringbuf.c).  *)
THEOREM RingImplementsFifo == RingSpec => ImplementsFifo
<1> DEFINE q == [k \in 1 .. count |->
                    SubSeq(elements[Nth(k)].data, 1, elements[Nth(k)].len)]
<1>1. q = QueueOf(elements, read_idx, count)
      /\ q' = QueueOf(elements', read_idx', count')
  BY DEF QueueOf, Text, Pos, Nth
<1>2. RingInit => Queue!FifoInit
  <2>1. RingInit => q = <<>>
    BY DEF RingInit
  <2> QED
    BY <2>1 DEF Queue!FifoInit, RingInit
<1>3. RingInv /\ RingInv' /\ [RingNext]_ringVars => [Queue!FifoNext]_<<q, result>>
  <2> SUFFICES ASSUME RingInv, RingInv', [RingNext]_ringVars
               PROVE  [Queue!FifoNext]_<<q, result>>
    OBVIOUS
  <2>1. ASSUME NEW m \in Message, tsringbuf_push(m) PROVE Queue!Put(m)
    <3>1. Len(q) < capacity
      BY <1>1, <2>1, RingInvQueue, CountIsBounded DEF tsringbuf_push, Accepts, is_full
    <3>2. q' = Append(q, m)
      BY <1>1, <2>1, PushIsPut
    <3> QED
      BY <2>1, <3>1, <3>2 DEF Queue!Put, tsringbuf_push
  <2>2. ASSUME NEW room \in Rooms, tsringbuf_pop(room) PROVE Queue!Get(room)
    <3>1. q' = Tail(q)
      BY <1>1, <2>2, PopIsGet
    <3>2. q # <<>> /\ result' = Queue!Report(Head(q), room)
      BY <1>1, <2>2, ReadIsReport DEF tsringbuf_pop
    <3> QED
      BY <3>1, <3>2 DEF Queue!Get
  <2>3. ASSUME NEW room \in Rooms, tsringbuf_peek(room) PROVE Queue!Look(room)
    <3>1. q' = q
      BY <1>1, <2>3 DEF tsringbuf_peek
    <3>2. q # <<>> /\ result' = Queue!Report(Head(q), room)
      BY <1>1, <2>3, ReadIsReport DEF tsringbuf_peek
    <3> QED
      BY <3>1, <3>2 DEF Queue!Look
  <2>4. ASSUME ReadFails \/ \E m \in Message : PushFails(m) PROVE Queue!Refuse
    <3>1. q' = q
      BY <1>1, <2>4 DEF ReadFails, PushFails
    <3> QED
      BY <2>4, <3>1 DEF Queue!Refuse, ReadFails, PushFails
  <2>5. ASSUME tsringbuf_init_buffer PROVE Queue!Empty
    <3>1. count' = 0 /\ result' = NoResult
      BY <2>5 DEF tsringbuf_init_buffer
    <3>2. q' = <<>>
      BY <3>1
    <3> QED
      BY <3>1, <3>2 DEF Queue!Empty
  <2>6. CASE UNCHANGED ringVars
    BY <1>1, <2>6 DEF ringVars
  <2> HIDE DEF q
  <2> QED
    BY <2>1, <2>2, <2>3, <2>4, <2>5, <2>6 DEF RingNext, Queue!FifoNext
<1> QED
  BY <1>2, <1>3, RingInvariant, PTL
     DEF RingSpec, ImplementsFifo, Queue!FifoSpec, Queue!FifoVars
-----------------------------------------------------------------------------
(* The list.                                                               *)
Held == Item \cup {Stray}

ListInv ==
    /\ array \in Seq(Held) /\ size \in Nat /\ chunkSize \in Nat \ {0}
    /\ starved \in BOOLEAN /\ overrun \in BOOLEAN
    /\ ~starved => size <= Len(array) /\ ~overrun

(* Whole chunks, one more than are full, hold one item more.               *)
LEMMA ChunksSuffice ==
    ASSUME NEW n \in Nat, NEW c \in Nat \ {0}
    PROVE  ((n \div c) + 1) * c \in Nat /\ ((n \div c) + 1) * c >= n + 1
<1>1. n \div c \in Nat /\ n % c \in 0 .. c - 1 /\ n = (c * (n \div c)) + (n % c)
  OBVIOUS
<1>2. PICK q \in Nat, r \in 0 .. c - 1 : q = n \div c /\ n = c * q + r
  BY <1>1
<1>3. (q + 1) * c = c * q + c /\ c * q \in Nat
  BY <1>2
<1> QED
  BY <1>2, <1>3

LEMMA NewSizeIs ==
    ASSUME ListInv, NEW n \in 0 .. size + 1
    PROVE  NewSize(n) \in Nat /\ NewSize(n) >= n
<1>1. size \in Nat /\ chunkSize \in Nat \ {0} /\ n \in Nat /\ n <= size + 1
  BY DEF ListInv
<1>2. ((size \div chunkSize) + 1) * chunkSize \in Nat
      /\ ((size \div chunkSize) + 1) * chunkSize >= size + 1
  BY <1>1, ChunksSuffice
<1>3. PICK whole \in Nat : whole = ((size \div chunkSize) + 1) * chunkSize
                           /\ whole >= size + 1
  BY <1>2
<1>4. NewSize(n) = IF n > Len(array) THEN whole ELSE n
  BY <1>3 DEF NewSize
<1> QED
  BY <1>1, <1>3, <1>4

LEMMA ResizeIs ==
    ASSUME NEW d \in Seq(Held), NEW n \in Nat
    PROVE  /\ Resize(d, n) \in Seq(Held) /\ Len(Resize(d, n)) = n
           /\ \A k \in 1 .. n : k <= Len(d) => Resize(d, n)[k] = d[k]
<1>1. Stray \in Held /\ Len(d) \in Nat /\ \A k \in 1 .. Len(d) : d[k] \in Held
  BY DEF Held
<1> HIDE DEF Held
<1>2. \A k \in 1 .. n : (IF k <= Len(d) THEN d[k] ELSE Stray) \in Held
  BY <1>1
<1> QED
  BY <1>1, <1>2 DEF Resize

(* The block a call that needs room for n items works on.                  *)
LEMMA RoomIs ==
    ASSUME ListInv, NEW memory \in BOOLEAN, NEW n \in 0 .. size + 1,
           Starved(n, memory), NEW d, d = CheckResize(n, memory)
    PROVE  /\ d \in Seq(Held)
           /\ ~starved' => /\ ~starved /\ Len(d) >= n
                           /\ \A k \in 1 .. n : k <= Len(array) => d[k] = array[k]
           /\ starved' \in BOOLEAN
<1>1. array \in Seq(Held) /\ Len(array) \in Nat /\ n \in Nat
  BY DEF ListInv
<1>2. NewSize(n) \in Nat /\ NewSize(n) >= n
  BY NewSizeIs
<1>3. starved' = (starved \/ (~memory /\ n > Len(array)))
  BY DEF Starved
<1>4. starved' \in BOOLEAN /\ (~starved' => ~starved)
  BY <1>3 DEF ListInv
<1>5. CASE memory
  <2>1. d = Resize(array, NewSize(n))
    BY <1>5 DEF CheckResize
  <2>2. /\ d \in Seq(Held) /\ Len(d) = NewSize(n)
        /\ \A k \in 1 .. NewSize(n) : k <= Len(array) => d[k] = array[k]
    BY <1>1, <1>2, <2>1, ResizeIs
  <2>3. 1 .. n \subseteq 1 .. NewSize(n)
    BY <1>1, <1>2
  <2>4. Len(d) >= n /\ \A k \in 1 .. n : k <= Len(array) => d[k] = array[k]
    BY <1>2, <2>2, <2>3
  <2>5. d \in Seq(Held)
    BY <2>2
  <2> QED
    BY <1>4, <2>4, <2>5
<1>6. CASE ~memory
  <2>1. d = array
    BY <1>6 DEF CheckResize
  <2>2. ~starved' => ~(n > Len(array))
    BY <1>3, <1>6
  <2>3. ~starved' => Len(d) >= n
    BY <1>1, <2>1, <2>2
  <2> QED
    BY <1>1, <1>4, <2>1, <2>3
<1> QED
  BY <1>5, <1>6

LEMMA GetIs ==
    ASSUME NEW d \in Seq(Held), NEW i \in Nat
    PROVE  ArrayGet(d, i) \in Held /\ (i < Len(d) => ArrayGet(d, i) = d[i + 1])
<1>1. Stray \in Held /\ Len(d) \in Nat /\ \A k \in 1 .. Len(d) : d[k] \in Held
  BY DEF Held
<1>2. i < Len(d) => i + 1 \in 1 .. Len(d)
  BY <1>1
<1> QED
  BY <1>1, <1>2 DEF ArrayGet

LEMMA AddKeeps ==
    ASSUME ListInv, NEW item \in Item, tslist_add(item)
    PROVE  /\ ListInv'
           /\ ~starved' => /\ ~starved /\ size' = size + 1
                           /\ \A k \in 1 .. size : array'[k] = array[k]
                           /\ array'[size + 1] = item
<1>1. PICK memory \in BOOLEAN :
         LET d == CheckResize(size + 1, memory)
         IN  /\ array' = [k \in 1 .. Len(d) |-> IF k = size + 1 THEN item ELSE d[k]]
             /\ size' = size + 1
             /\ Starved(size + 1, memory) /\ Overrun(d, {size})
             /\ UNCHANGED chunkSize
  BY DEF tslist_add
<1>2. PICK d : d = CheckResize(size + 1, memory)
  OBVIOUS
<1>3. size \in Nat /\ size + 1 \in 0 .. size + 1 /\ Len(array) \in Nat
  BY DEF ListInv
<1>4. /\ d \in Seq(Held)
      /\ ~starved' => /\ ~starved /\ Len(d) >= size + 1
                      /\ \A k \in 1 .. size + 1 : k <= Len(array) => d[k] = array[k]
      /\ starved' \in BOOLEAN
  BY <1>1, <1>2, <1>3, RoomIs
<1>5. array' = [k \in 1 .. Len(d) |-> IF k = size + 1 THEN item ELSE d[k]]
      /\ overrun' = (overrun \/ Len(d) \in {size}) /\ size' = size + 1
      /\ chunkSize' = chunkSize
  BY <1>1, <1>2 DEF Overrun
<1>6. /\ Len(d) \in Nat
      /\ \A k \in 1 .. Len(d) : (IF k = size + 1 THEN item ELSE d[k]) \in Held
  BY <1>4 DEF Held
<1> HIDE DEF Held
<1>7. /\ array' \in Seq(Held) /\ Len(array') = Len(d)
      /\ \A k \in 1 .. Len(d) : array'[k] = IF k = size + 1 THEN item ELSE d[k]
  BY <1>5, <1>6
<1>8. ~starved' => size' <= Len(array') /\ ~overrun'
  BY <1>3, <1>4, <1>5, <1>6, <1>7 DEF ListInv
<1>9. overrun' \in BOOLEAN /\ size' \in Nat /\ chunkSize' \in Nat \ {0}
  BY <1>3, <1>5 DEF ListInv
<1>10. ListInv'
  BY <1>4, <1>7, <1>8, <1>9 DEF ListInv
<1>11. ASSUME ~starved' PROVE /\ \A k \in 1 .. size : array'[k] = array[k]
                              /\ array'[size + 1] = item
  <2>1. size <= Len(array) /\ Len(d) >= size + 1
    BY <1>4, <1>11 DEF ListInv
  <2> QED
    BY <1>3, <1>4, <1>6, <1>7, <1>11, <2>1
<1> QED
  BY <1>4, <1>5, <1>10, <1>11

LEMMA InsertKeeps ==
    ASSUME ListInv, NEW index \in Nat, NEW item \in Item, tslist_insertAt(index, item)
    PROVE  /\ ListInv'
           /\ ~starved' => /\ ~starved /\ size' = size + 1 /\ index < size
                           /\ \A k \in 1 .. size + 1 : array'[k] =
                                 IF k <= index THEN array[k]
                                 ELSE IF k = index + 1 THEN item ELSE array[k - 1]
<1>1. PICK memory \in BOOLEAN :
         LET d == CheckResize(size + 1, memory)
         IN  /\ index < size
             /\ array' = Inserted(d, index, item)
             /\ size' = size + 1
             /\ Starved(size + 1, memory) /\ Overrun(d, index .. size)
             /\ UNCHANGED chunkSize
  BY DEF tslist_insertAt
<1>2. PICK d : d = CheckResize(size + 1, memory)
  OBVIOUS
<1>3. size \in Nat /\ size + 1 \in 0 .. size + 1 /\ Len(array) \in Nat /\ index < size
  BY <1>1 DEF ListInv
<1>4. /\ d \in Seq(Held)
      /\ ~starved' => /\ ~starved /\ Len(d) >= size + 1
                      /\ \A k \in 1 .. size + 1 : k <= Len(array) => d[k] = array[k]
      /\ starved' \in BOOLEAN
  BY <1>1, <1>2, <1>3, RoomIs
<1>5. array' = Inserted(d, index, item) /\ chunkSize' = chunkSize
      /\ overrun' = (overrun \/ Len(d) \in index .. size) /\ size' = size + 1
  BY <1>1, <1>2 DEF Overrun
<1>6. Len(d) \in Nat /\ \A k \in 1 .. Len(d) : d[k] \in Held
  BY <1>4
<1>7. \A k \in 1 .. Len(d) :
         (IF k - 1 = index THEN item
          ELSE IF k - 1 \in index + 1 .. size THEN ArrayGet(d, k - 2) ELSE d[k]) \in Held
  <2> SUFFICES ASSUME NEW k \in 1 .. Len(d)
               PROVE  (IF k - 1 = index THEN item
                       ELSE IF k - 1 \in index + 1 .. size THEN ArrayGet(d, k - 2)
                       ELSE d[k]) \in Held
    OBVIOUS
  <2>1. item \in Held /\ d[k] \in Held
    BY <1>6 DEF Held
  <2>2. k - 1 \in index + 1 .. size => k - 2 \in Nat
    BY <1>3, <1>6
  <2>3. k - 1 \in index + 1 .. size => ArrayGet(d, k - 2) \in Held
    BY <1>4, <2>2, GetIs
  <2> QED
    BY <2>1, <2>3
<1> HIDE DEF Held
<1>8. /\ array' \in Seq(Held) /\ Len(array') = Len(d)
      /\ \A k \in 1 .. Len(d) : array'[k] =
            IF k - 1 = index THEN item
            ELSE IF k - 1 \in index + 1 .. size THEN ArrayGet(d, k - 2) ELSE d[k]
  BY <1>5, <1>6, <1>7 DEF Inserted
<1>9. ~starved' => size' <= Len(array') /\ ~overrun'
  BY <1>3, <1>4, <1>5, <1>6, <1>8 DEF ListInv
<1>10. overrun' \in BOOLEAN /\ size' \in Nat /\ chunkSize' \in Nat \ {0}
  BY <1>3, <1>5 DEF ListInv
<1>11. ListInv'
  BY <1>4, <1>8, <1>9, <1>10 DEF ListInv
<1>12. ASSUME ~starved', NEW k \in 1 .. size + 1
       PROVE  array'[k] = IF k <= index THEN array[k]
                          ELSE IF k = index + 1 THEN item ELSE array[k - 1]
  <2>1. size <= Len(array) /\ Len(d) >= size + 1
    BY <1>4, <1>12 DEF ListInv
  <2>2. k \in 1 .. Len(d) /\ k \in Nat
    BY <1>3, <1>6, <2>1
  <2>3. CASE k <= index
    <3>1. k - 1 # index /\ ~(k - 1 \in index + 1 .. size) /\ k <= Len(array)
      BY <1>3, <2>1, <2>2, <2>3
    <3> QED
      BY <1>4, <1>8, <1>12, <2>2, <2>3, <3>1
  <2>4. CASE k = index + 1
    BY <1>8, <2>2, <2>4
  <2>5. CASE k > index + 1
    <3>1. k - 1 # index /\ k - 1 \in index + 1 .. size /\ k - 2 \in Nat
          /\ k - 2 < Len(d) /\ k - 1 \in 1 .. size + 1 /\ k - 1 <= Len(array)
          /\ (k - 2) + 1 = k - 1
      BY <1>3, <1>6, <2>1, <2>2, <2>5
    <3>2. ArrayGet(d, k - 2) = d[k - 1]
      BY <1>4, <3>1, GetIs
    <3>3. d[k - 1] = array[k - 1]
      BY <1>4, <1>12, <3>1
    <3> QED
      BY <1>8, <2>2, <2>5, <3>1, <3>2, <3>3
  <2> QED
    BY <1>3, <2>2, <2>3, <2>4, <2>5
<1> QED
  BY <1>3, <1>4, <1>5, <1>11, <1>12

LEMMA RemoveKeeps ==
    ASSUME ListInv, NEW index \in Nat, tslist_removeAt(index)
    PROVE  /\ ListInv' /\ size > 0 /\ size' = size - 1 /\ starved' = starved
           /\ ~starved => \A k \in 1 .. size - 1 :
                 array'[k] = IF k <= index THEN array[k] ELSE array[k + 1]
<1>1. PICK n \in {Len(array), NewSize(size - 1)} :
         /\ size > 0
         /\ array' = Resize(Removed(index), n)
         /\ size' = size - 1
         /\ Overrun(array, index .. size - 2)
         /\ UNCHANGED <<chunkSize, starved>>
  BY DEF tslist_removeAt
<1>2. /\ size \in Nat /\ size - 1 \in Nat /\ size - 1 \in 0 .. size + 1
      /\ array \in Seq(Held) /\ Len(array) \in Nat
      /\ \A k \in 1 .. Len(array) : array[k] \in Held
  BY <1>1 DEF ListInv
<1>3. n \in Nat /\ (~starved => n >= size - 1)
  <2>1. NewSize(size - 1) \in Nat /\ NewSize(size - 1) >= size - 1
    BY <1>2, NewSizeIs
  <2> QED
    BY <1>1, <1>2, <2>1 DEF ListInv
<1> DEFINE r == Removed(index)
<1>4. /\ r \in Seq(Held) /\ Len(r) = Len(array)
      /\ \A k \in 1 .. Len(array) : r[k] =
            IF k - 1 \in index .. size - 2 THEN ArrayGet(array, k) ELSE array[k]
  <2>1. \A k \in 1 .. Len(array) : ArrayGet(array, k) \in Held
    BY <1>2, GetIs
  <2> HIDE DEF Held
  <2> QED
    BY <1>2, <2>1 DEF Removed
<1> HIDE DEF r
<1>5. /\ array' \in Seq(Held) /\ Len(array') = n
      /\ \A k \in 1 .. n : k <= Len(array) => array'[k] = r[k]
  BY <1>1, <1>3, <1>4, ResizeIs DEF r
<1>6. overrun' = (overrun \/ Len(array) \in index .. size - 2)
  BY <1>1 DEF Overrun
<1>7. ~starved => size' <= Len(array') /\ ~overrun'
  BY <1>1, <1>2, <1>3, <1>5, <1>6 DEF ListInv
<1>8. overrun' \in BOOLEAN
  BY <1>6 DEF ListInv
<1>9. ListInv'
  BY <1>1, <1>2, <1>5, <1>7, <1>8 DEF ListInv
<1>10. ASSUME ~starved, NEW k \in 1 .. size - 1
       PROVE  array'[k] = IF k <= index THEN array[k] ELSE array[k + 1]
  <2>1. /\ k \in 1 .. n /\ k \in 1 .. Len(array) /\ k \in Nat /\ k < Len(array)
        /\ k <= Len(array)
    BY <1>2, <1>3, <1>10 DEF ListInv
  <2>2. array'[k] = r[k]
    BY <1>5, <2>1
  <2>3. CASE k <= index
    <3>1. ~(k - 1 \in index .. size - 2)
      BY <1>2, <2>1, <2>3
    <3> QED
      BY <1>4, <2>1, <2>2, <2>3, <3>1
  <2>4. CASE ~(k <= index)
    <3>1. k - 1 \in index .. size - 2
      BY <1>2, <2>1, <2>4
    <3>2. ArrayGet(array, k) = array[k + 1]
      BY <1>2, <2>1, GetIs
    <3> QED
      BY <1>4, <2>1, <2>2, <2>4, <3>1, <3>2
  <2> QED
    BY <2>3, <2>4
<1> QED
  BY <1>1, <1>9, <1>10

LEMMA SetKeeps ==
    ASSUME ListInv, NEW index \in Nat, NEW item \in Item, tslist_set(index, item)
    PROVE  /\ ListInv' /\ size' = size /\ starved' = starved /\ index < size
           /\ ~starved => \A k \in 1 .. size :
                 array'[k] = IF k = index + 1 THEN item ELSE array[k]
<1>1. /\ index < size /\ UNCHANGED <<size, chunkSize, starved>>
      /\ array' = [k \in 1 .. Len(array) |-> IF k = index + 1 THEN item ELSE array[k]]
      /\ overrun' = (overrun \/ Len(array) \in {index})
  BY DEF tslist_set, Overrun
<1>2. /\ size \in Nat /\ array \in Seq(Held) /\ Len(array) \in Nat
      /\ item \in Held /\ \A k \in 1 .. Len(array) : array[k] \in Held
  BY DEF ListInv, Held
<1> HIDE DEF Held
<1>3. /\ array' \in Seq(Held) /\ Len(array') = Len(array)
      /\ \A k \in 1 .. Len(array) : array'[k] =
            IF k = index + 1 THEN item ELSE array[k]
  BY <1>1, <1>2
<1>4. ~starved => size' <= Len(array') /\ ~overrun'
  <2>1. ~starved => ~overrun /\ size <= Len(array)
    BY DEF ListInv
  <2>2. size <= Len(array) => ~(Len(array) \in {index})
    BY <1>1, <1>2
  <2>3. size' = size
    BY <1>1
  <2> QED
    BY <1>1, <1>3, <2>1, <2>2, <2>3
<1>5. overrun' \in BOOLEAN
  BY <1>1 DEF ListInv
<1>6. ListInv'
  BY <1>1, <1>3, <1>4, <1>5 DEF ListInv
<1>7. ~starved => 1 .. size \subseteq 1 .. Len(array)
  BY <1>2 DEF ListInv
<1> QED
  BY <1>1, <1>3, <1>6, <1>7

LEMMA ClearListKeeps ==
    ASSUME ListInv, tslist_clear
    PROVE  ListInv' /\ size' = 0 /\ starved' = starved
<1>1. PICK n \in {Len(array), chunkSize} :
         array' = Resize([k \in 1 .. Len(array) |-> Stray], n)
  BY DEF tslist_clear
<1>2. n \in Nat /\ Len(array) \in Nat
  BY DEF ListInv
<1>3. [k \in 1 .. Len(array) |-> Stray] \in Seq(Held)
  BY <1>2 DEF Held
<1>4. array' \in Seq(Held) /\ Len(array') = n
  BY <1>1, <1>2, <1>3, ResizeIs
<1>5. size' = 0 /\ UNCHANGED <<chunkSize, starved, overrun>>
  BY DEF tslist_clear
<1> QED
  BY <1>2, <1>4, <1>5 DEF ListInv

LEMMA ListInitKeeps == TsListInit => ListInv
<1> SUFFICES ASSUME TsListInit PROVE ListInv
  OBVIOUS
<1>1. chunkSize \in Nat \ {0} /\ size = 0 /\ starved = FALSE /\ overrun = FALSE
  BY ListAssumption DEF TsListInit
<1>2. <<>> \in Seq(Held)
  OBVIOUS
<1>3. Resize(<<>>, chunkSize) \in Seq(Held)
  BY <1>1, <1>2, ResizeIs
<1>4. array \in Seq(Held)
  BY <1>2, <1>3 DEF TsListInit
<1>5. size <= Len(array) /\ ~overrun
  BY <1>1, <1>4
<1> QED
  BY <1>1, <1>4, <1>5 DEF ListInv

LEMMA ListInvariant == TsListSpec => []ListInv
<1>1. ListInv /\ [TsListNext]_listVars => ListInv'
  <2> SUFFICES ASSUME ListInv, [TsListNext]_listVars PROVE ListInv'
    OBVIOUS
  <2>1. 0 .. MAX_ITEMS \subseteq Nat
    BY ListAssumption
  <2>2. CASE UNCHANGED listVars
    BY <2>2 DEF ListInv, listVars
  <2> QED
    BY <2>1, <2>2, AddKeeps, InsertKeeps, RemoveKeeps, SetKeeps, ClearListKeeps
       DEF TsListNext
<1> QED
  BY <1>1, ListInitKeeps, PTL DEF TsListSpec

(* As long as the block grew whenever it had to, every item has a place in *)
(* it and nothing is written past its end (tslist.c, tsarray.c).           *)
THEOREM ListStaysInBlock == TsListSpec => []InBlock
<1>1. ListInv => InBlock
  BY DEF ListInv, InBlock
<1> QED
  BY <1>1, ListInvariant, PTL
-----------------------------------------------------------------------------
(* The sequence a list stands for.                                         *)
LEMMA FrontIs ==
    ASSUME NEW a \in Seq(Held), NEW n \in Nat, n <= Len(a)
    PROVE  /\ SubSeq(a, 1, n) \in Seq(Held) /\ Len(SubSeq(a, 1, n)) = n
           /\ \A k \in 1 .. n : SubSeq(a, 1, n)[k] = a[k]
<1> HIDE DEF Held
<1> QED
  OBVIOUS

LEMMA InsertAtIs ==
    ASSUME NEW s \in Seq(Held), NEW e \in Held, NEW i \in 1 .. Len(s)
    PROVE  /\ Listed!InsertAt(s, i, e) \in Seq(Held)
           /\ Len(Listed!InsertAt(s, i, e)) = Len(s) + 1
           /\ \A k \in 1 .. Len(s) + 1 : Listed!InsertAt(s, i, e)[k] =
                 IF k < i THEN s[k] ELSE IF k = i THEN e ELSE s[k - 1]
<1> HIDE DEF Held
<1> DEFINE front == SubSeq(s, 1, i - 1)
           back == SubSeq(s, i, Len(s))
           t == front \o <<e>>
<1>1. Len(s) \in Nat /\ i \in Nat /\ i >= 1 /\ i <= Len(s)
  OBVIOUS
<1>2. /\ front \in Seq(Held) /\ Len(front) = i - 1
      /\ \A k \in 1 .. i - 1 : front[k] = s[k]
  BY <1>1
<1>3. /\ back \in Seq(Held) /\ Len(back) = Len(s) - i + 1
      /\ \A k \in 1 .. Len(s) - i + 1 : back[k] = s[i + k - 1]
  BY <1>1
<1>4. <<e>> \in Seq(Held) /\ Len(<<e>>) = 1 /\ <<e>>[1] = e
  OBVIOUS
<1> HIDE DEF front, back
<1>5. /\ t \in Seq(Held) /\ Len(t) = i
      /\ \A k \in 1 .. i : t[k] = IF k < i THEN s[k] ELSE e
  <2>1. /\ t \in Seq(Held) /\ Len(t) = (i - 1) + 1
        /\ \A k \in 1 .. (i - 1) + 1 : t[k] =
              IF k <= i - 1 THEN front[k] ELSE <<e>>[k - (i - 1)]
    BY <1>2, <1>4, ConcatProperties
  <2> QED
    BY <1>1, <1>2, <1>4, <2>1
<1> HIDE DEF t
<1>6. /\ t \o back \in Seq(Held) /\ Len(t \o back) = i + (Len(s) - i + 1)
      /\ \A k \in 1 .. i + (Len(s) - i + 1) : (t \o back)[k] =
            IF k <= i THEN t[k] ELSE back[k - i]
  <2>1. /\ t \o back \in Seq(Held) /\ Len(t \o back) = Len(t) + Len(back)
        /\ \A k \in 1 .. Len(t) + Len(back) : (t \o back)[k] =
              IF k <= Len(t) THEN t[k] ELSE back[k - Len(t)]
    BY <1>3, <1>5, ConcatProperties
  <2> QED
    BY <1>3, <1>5, <2>1
<1>7. Listed!InsertAt(s, i, e) = t \o back
  BY DEF Listed!InsertAt, t, front, back
<1>8. i + (Len(s) - i + 1) = Len(s) + 1
  BY <1>1
<1>9. ASSUME NEW k \in 1 .. Len(s) + 1
      PROVE  (t \o back)[k] = IF k < i THEN s[k] ELSE IF k = i THEN e ELSE s[k - 1]
  <2>1. CASE k <= i
    BY <1>1, <1>5, <1>6, <1>8, <2>1
  <2>2. CASE ~(k <= i)
    <3>1. k - i \in 1 .. Len(s) - i + 1 /\ i + (k - i) - 1 = k - 1 /\ ~(k < i) /\ k # i
      BY <1>1, <2>2
    <3> QED
      BY <1>3, <1>6, <1>8, <2>2, <3>1
  <2> QED
    BY <2>1, <2>2
<1> QED
  BY <1>6, <1>7, <1>8, <1>9

LEMMA RemoveAtIs ==
    ASSUME NEW s \in Seq(Held), NEW i \in 1 .. Len(s)
    PROVE  /\ Listed!RemoveAt(s, i) \in Seq(Held)
           /\ Len(Listed!RemoveAt(s, i)) = Len(s) - 1
           /\ \A k \in 1 .. Len(s) - 1 : Listed!RemoveAt(s, i)[k] =
                 IF k < i THEN s[k] ELSE s[k + 1]
<1> HIDE DEF Held
<1> DEFINE front == SubSeq(s, 1, i - 1)
           back == SubSeq(s, i + 1, Len(s))
<1>1. Len(s) \in Nat /\ i \in Nat /\ i >= 1 /\ i <= Len(s)
  OBVIOUS
<1>2. /\ front \in Seq(Held) /\ Len(front) = i - 1
      /\ \A k \in 1 .. i - 1 : front[k] = s[k]
  BY <1>1
<1>3. /\ back \in Seq(Held) /\ Len(back) = Len(s) - i
      /\ \A k \in 1 .. Len(s) - i : back[k] = s[i + k]
  BY <1>1
<1> HIDE DEF front, back
<1>4. /\ front \o back \in Seq(Held) /\ Len(front \o back) = (i - 1) + (Len(s) - i)
      /\ \A k \in 1 .. (i - 1) + (Len(s) - i) : (front \o back)[k] =
            IF k <= i - 1 THEN front[k] ELSE back[k - (i - 1)]
  <2>1. /\ front \o back \in Seq(Held)
        /\ Len(front \o back) = Len(front) + Len(back)
        /\ \A k \in 1 .. Len(front) + Len(back) : (front \o back)[k] =
              IF k <= Len(front) THEN front[k] ELSE back[k - Len(front)]
    BY <1>2, <1>3, ConcatProperties
  <2> QED
    BY <1>2, <1>3, <2>1
<1>5. Listed!RemoveAt(s, i) = front \o back
  BY DEF Listed!RemoveAt, front, back
<1>6. (i - 1) + (Len(s) - i) = Len(s) - 1
  BY <1>1
<1>7. ASSUME NEW k \in 1 .. Len(s) - 1
      PROVE  (front \o back)[k] = IF k < i THEN s[k] ELSE s[k + 1]
  <2>1. CASE k < i
    BY <1>1, <1>2, <1>4, <1>6, <2>1
  <2>2. CASE ~(k < i)
    <3>1. k - (i - 1) \in 1 .. Len(s) - i /\ i + (k - (i - 1)) = k + 1 /\ ~(k <= i - 1)
      BY <1>1, <2>2
    <3> QED
      BY <1>3, <1>4, <1>6, <2>2, <3>1
  <2> QED
    BY <2>1, <2>2
<1> QED
  BY <1>4, <1>5, <1>6, <1>7
-----------------------------------------------------------------------------
(* Each call, while the list can grow, is one step of the sequence.        *)
Front == SubSeq(array, 1, size)

LEMMA FrontOfList ==
    ListInv /\ ~starved =>
        /\ Front \in Seq(Held) /\ Len(Front) = size
        /\ \A k \in 1 .. size : Front[k] = array[k]
BY FrontIs DEF ListInv, Front

LEMMA NextFront ==
    ASSUME ListInv', ~starved'
    PROVE  /\ Front' \in Seq(Held) /\ Len(Front') = size'
           /\ \A k \in 1 .. size' : Front'[k] = array'[k]
BY FrontIs DEF ListInv, Front

LEMMA AddIsAdd ==
    ASSUME ListInv, NEW item \in Item, tslist_add(item), ~starved'
    PROVE  Front' = Append(Front, item)
<1>1. /\ ListInv' /\ ~starved /\ size' = size + 1 /\ size \in Nat
      /\ \A k \in 1 .. size : array'[k] = array[k]
      /\ array'[size + 1] = item
  BY AddKeeps DEF ListInv
<1>2. /\ Front \in Seq(Held) /\ Len(Front) = size
      /\ \A k \in 1 .. size : Front[k] = array[k]
  BY <1>1, FrontOfList
<1>3. /\ Front' \in Seq(Held) /\ Len(Front') = size + 1
      /\ \A k \in 1 .. size + 1 : Front'[k] = array'[k]
  BY <1>1, NextFront
<1>4. item \in Held
  BY DEF Held
<1>5. /\ Append(Front, item) \in Seq(Held) /\ Len(Append(Front, item)) = size + 1
      /\ \A k \in 1 .. size : Append(Front, item)[k] = Front[k]
      /\ Append(Front, item)[size + 1] = item
  BY <1>2, <1>4, AppendProperties
<1>6. \A k \in 1 .. size + 1 : Front'[k] = Append(Front, item)[k]
  BY <1>1, <1>2, <1>3, <1>5
<1> QED
  BY <1>3, <1>5, <1>6, SeqEqual

LEMMA InsertIsInsert ==
    ASSUME ListInv, NEW index \in Nat, NEW item \in Item,
           tslist_insertAt(index, item), ~starved'
    PROVE  /\ index + 1 \in 1 .. Len(Front)
           /\ Front' = Listed!InsertAt(Front, index + 1, item)
<1>1. /\ ListInv' /\ ~starved /\ size' = size + 1 /\ size \in Nat /\ index < size
      /\ \A k \in 1 .. size + 1 : array'[k] =
            IF k <= index THEN array[k]
            ELSE IF k = index + 1 THEN item ELSE array[k - 1]
  BY InsertKeeps DEF ListInv
<1>2. /\ Front \in Seq(Held) /\ Len(Front) = size
      /\ \A k \in 1 .. size : Front[k] = array[k]
  BY <1>1, FrontOfList
<1>3. /\ Front' \in Seq(Held) /\ Len(Front') = size + 1
      /\ \A k \in 1 .. size + 1 : Front'[k] = array'[k]
  BY <1>1, NextFront
<1>4. item \in Held /\ index + 1 \in 1 .. Len(Front)
  BY <1>1, <1>2 DEF Held
<1> DEFINE t == Listed!InsertAt(Front, index + 1, item)
<1>5. /\ t \in Seq(Held) /\ Len(t) = size + 1
      /\ \A k \in 1 .. size + 1 : t[k] =
            IF k < index + 1 THEN Front[k]
            ELSE IF k = index + 1 THEN item ELSE Front[k - 1]
  BY <1>2, <1>4, InsertAtIs
<1> HIDE DEF t
<1>6. ASSUME NEW k \in 1 .. size + 1 PROVE Front'[k] = t[k]
  <2>1. CASE k < index + 1
    <3>1. k <= index /\ k \in 1 .. size
      BY <1>1, <2>1
    <3> QED
      BY <1>1, <1>2, <1>3, <1>5, <2>1, <3>1
  <2>2. CASE k = index + 1
    <3>1. ~(k <= index) /\ ~(k < index + 1)
      BY <2>2
    <3> QED
      BY <1>1, <1>3, <1>5, <2>2, <3>1
  <2>3. CASE k > index + 1
    <3>1. ~(k <= index) /\ ~(k < index + 1) /\ k # index + 1 /\ k - 1 \in 1 .. size
      BY <1>1, <2>3
    <3> QED
      BY <1>1, <1>2, <1>3, <1>5, <3>1
  <2> QED
    BY <1>1, <2>1, <2>2, <2>3
<1>7. Front' = t
  BY <1>3, <1>5, <1>6, SeqEqual
<1> QED
  BY <1>4, <1>7 DEF t

LEMMA RemoveIsDrop ==
    ASSUME ListInv, NEW index \in Nat, tslist_removeAt(index), ~starved'
    PROVE  /\ Front # <<>>
           /\ \E k \in 1 .. Len(Front) + 1 :
                 Front' = Listed!RemoveAt(Front, IF k <= Len(Front) THEN k ELSE Len(Front))
<1>1. /\ ListInv' /\ ~starved /\ size > 0 /\ size' = size - 1 /\ size \in Nat
      /\ \A k \in 1 .. size - 1 :
            array'[k] = IF k <= index THEN array[k] ELSE array[k + 1]
  BY RemoveKeeps DEF ListInv
<1>2. /\ Front \in Seq(Held) /\ Len(Front) = size
      /\ \A k \in 1 .. size : Front[k] = array[k]
  BY <1>1, FrontOfList
<1>3. /\ Front' \in Seq(Held) /\ Len(Front') = size - 1
      /\ \A k \in 1 .. size - 1 : Front'[k] = array'[k]
  BY <1>1, NextFront
<1>4. Front # <<>>
  BY <1>1, <1>2
<1>5. PICK i \in 1 .. size : i = IF index < size THEN index + 1 ELSE size
  BY <1>1
<1> DEFINE t == Listed!RemoveAt(Front, i)
<1>6. /\ t \in Seq(Held) /\ Len(t) = size - 1
      /\ \A k \in 1 .. size - 1 : t[k] = IF k < i THEN Front[k] ELSE Front[k + 1]
  BY <1>2, RemoveAtIs
<1> HIDE DEF t
<1>7. ASSUME NEW k \in 1 .. size - 1 PROVE Front'[k] = t[k]
  <2>1. k \in 1 .. size /\ k + 1 \in 1 .. size /\ (k <= index <=> k < i)
    BY <1>1, <1>5
  <2> QED
    BY <1>1, <1>2, <1>3, <1>6, <2>1
<1>8. Front' = t
  BY <1>3, <1>6, <1>7, SeqEqual
<1>9. i \in 1 .. Len(Front) + 1 /\ i <= Len(Front)
  BY <1>1, <1>2
<1> QED
  BY <1>4, <1>8, <1>9 DEF t

LEMMA SetIsAssign ==
    ASSUME ListInv, NEW index \in Nat, NEW item \in Item,
           tslist_set(index, item), ~starved'
    PROVE  /\ index + 1 \in 1 .. Len(Front)
           /\ Front' = [Front EXCEPT ![index + 1] = item]
<1>1. /\ ListInv' /\ ~starved /\ size' = size /\ size \in Nat /\ index < size
      /\ \A k \in 1 .. size : array'[k] = IF k = index + 1 THEN item ELSE array[k]
  BY SetKeeps DEF ListInv
<1>2. /\ Front \in Seq(Held) /\ Len(Front) = size
      /\ \A k \in 1 .. size : Front[k] = array[k]
  BY <1>1, FrontOfList
<1>3. /\ Front' \in Seq(Held) /\ Len(Front') = size
      /\ \A k \in 1 .. size : Front'[k] = array'[k]
  BY <1>1, NextFront
<1>4. item \in Held /\ index + 1 \in 1 .. Len(Front)
  BY <1>1, <1>2 DEF Held
<1> DEFINE t == [Front EXCEPT ![index + 1] = item]
<1>5. /\ t \in Seq(Held) /\ Len(t) = size
      /\ \A k \in 1 .. size : t[k] = IF k = index + 1 THEN item ELSE Front[k]
  <2> HIDE DEF Held, Front
  <2> QED
    BY <1>1, <1>2, <1>4, ExceptSeq
<1> HIDE DEF t
<1>6. \A k \in 1 .. size : Front'[k] = t[k]
  BY <1>1, <1>2, <1>3, <1>5
<1>7. Front' = t
  BY <1>3, <1>5, <1>6, SeqEqual
<1> QED
  BY <1>4, <1>7 DEF t

(* The list is the sequence its calls describe, until it cannot grow: the  *)
(* array's growing, shrinking and clearing show nowhere (tslist.c).        *)
THEOREM ListImplementsSequence == TsListSpec => ImplementsList
<1> DEFINE items == IF starved THEN <<>> ELSE SubSeq(array, 1, size)
<1>1. TsListInit => Listed!ListInit
  <2> SUFFICES ASSUME TsListInit PROVE Listed!ListInit
    OBVIOUS
  <2>1. array \in Seq(Held) /\ size = 0 /\ starved = FALSE
    BY ListInitKeeps DEF TsListInit, ListInv
  <2>2. SubSeq(array, 1, 0) = <<>>
    BY SubSeqEmpty
  <2> QED
    BY <2>1, <2>2 DEF Listed!ListInit
<1>2. ListInv /\ [TsListNext]_listVars => [Listed!ListNext]_<<items, starved>>
  <2> SUFFICES ASSUME ListInv, TsListNext \/ UNCHANGED listVars
               PROVE  [Listed!ListNext]_<<items, starved>>
    OBVIOUS
  <2>1. CASE starved'
    BY <2>1 DEF Listed!ListNext
  <2>2. CASE UNCHANGED listVars
    BY <2>2 DEF listVars
  <2>3. CASE TsListNext /\ ~starved'
    <3>1. ASSUME NEW item \in Item, tslist_add(item) PROVE Listed!Add(item) /\ ~starved
      <4>1. ~starved /\ Front' = Append(Front, item)
        BY <2>3, <3>1, AddKeeps, AddIsAdd
      <4> QED
        BY <2>3, <4>1 DEF Listed!Add, Front
    <3>2. ASSUME NEW index \in Nat, NEW item \in Item, tslist_insertAt(index, item)
          PROVE  ~starved /\ \E k \in 1 .. Len(items) : Listed!Insert(k, item)
      <4>1. /\ ~starved /\ index + 1 \in 1 .. Len(Front)
            /\ Front' = Listed!InsertAt(Front, index + 1, item)
        BY <2>3, <3>2, InsertKeeps, InsertIsInsert
      <4> QED
        BY <2>3, <4>1 DEF Listed!Insert, Front
    <3>3. ASSUME NEW index \in Nat, tslist_removeAt(index)
          PROVE  items # <<>> /\ \E k \in 1 .. Len(items) + 1 : Listed!Drop(k)
      <4>1. ~starved
        BY <2>3, <3>3, RemoveKeeps
      <4> QED
        BY <2>3, <3>3, <4>1, RemoveIsDrop DEF Listed!Drop, Front
    <3>4. ASSUME NEW index \in Nat, NEW item \in Item, tslist_set(index, item)
          PROVE  \E k \in 1 .. Len(items) : Listed!Assign(k, item)
      <4>1. /\ ~starved /\ index + 1 \in 1 .. Len(Front)
            /\ Front' = [Front EXCEPT ![index + 1] = item]
        BY <2>3, <3>4, SetKeeps, SetIsAssign
      <4> QED
        BY <2>3, <4>1 DEF Listed!Assign, Front
    <3>5. ASSUME tslist_clear PROVE Listed!Empty
      <4>1. ListInv' /\ size' = 0
        BY <3>5, ClearListKeeps
      <4>2. SubSeq(array', 1, 0) = <<>>
        BY SubSeqEmpty
      <4> QED
        BY <2>3, <4>1, <4>2 DEF Listed!Empty
    <3>6. 0 .. MAX_ITEMS \subseteq Nat
      BY ListAssumption
    <3> HIDE DEF items
    <3>7. Listed!ListStep
      BY <2>3, <3>1, <3>2, <3>3, <3>4, <3>5, <3>6 DEF TsListNext, Listed!ListStep, items
    <3> QED
      BY <2>3, <3>7 DEF Listed!ListNext
  <2> QED
    BY <2>1, <2>2, <2>3
<1> QED
  BY <1>1, <1>2, ListInvariant, PTL
     DEF TsListSpec, ImplementsList, Listed!ListSpec, Listed!itemListVars
=============================================================================
