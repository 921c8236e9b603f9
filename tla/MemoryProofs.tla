---------------------------- MODULE MemoryProofs ----------------------------
(***************************************************************************)
(* Proofs about the allocator of Memory, for all pools that fit (PoolsFit: *)
(* no array smaller than a block is accepted), every set of request sizes  *)
(* and every sequence of calls.                                            *)
(***************************************************************************)
EXTENDS Memory, WellFoundedInduction, TLAPS

-----------------------------------------------------------------------------
(* Arithmetic.                                                             *)

(* A least element of a set of naturals: the list walks are reasoned about *)
(* by taking the first node a walk would miss.                             *)
LEMMA LeastElement ==
  ASSUME NEW S \in SUBSET Nat, S # {}
  PROVE  \E m \in S : \A k \in S : m <= k
<1> DEFINE R == {ss \in Nat \X Nat : ss[1] < ss[2]}
<1>1. IsWellFoundedOn(R, Nat)
  BY NatLessThanWellFounded DEF OpToRel
<1> HIDE DEF R
<1>2. PICK m \in S : \A k \in S : <<k, m>> \notin R
  BY <1>1, WFMin
<1>3. ASSUME NEW k \in S PROVE m <= k
  <2>1. <<k, m>> \in Nat \X Nat /\ <<k, m>>[1] = k /\ <<k, m>>[2] = m
    OBVIOUS
  <2>2. ~(k < m)
    BY <2>1, <1>2 DEF R
  <2> QED BY <2>2
<1> QED BY <1>3

(* A node takes at least its own block, also when the size computation     *)
(* wraps around.                                                           *)
LEMMA CountType ==
  ASSUME NEW b \in Nat
  PROVE  count_needed_blocks(b) \in Nat /\ count_needed_blocks(b) >= 1
<1> DEFINE x == (b + Chunk - 1) % SizeMod
<1>1. x \in Nat
  BY MemoryAssumption
<1> HIDE DEF x
<1>2. x \div Chunk \in Nat
  BY <1>1, MemoryAssumption
<1> QED BY <1>2 DEF x, count_needed_blocks, DIV_CEIL

(* A header without data takes one block.                                  *)
LEMMA SentinelCount == count_needed_blocks(0) = 1
<1> DEFINE x == 0 + Chunk - 1
           y == x % SizeMod
<1>0. Chunk \in Nat \ {0} /\ SizeMod \in Nat \ {0} /\ x \in Nat
  BY MemoryAssumption
<1>1. y \in Nat /\ y < Chunk
  <2>1. y \in 0 .. SizeMod - 1
    BY <1>0
  <2>2. CASE x < SizeMod
    <3>1. y = x
      BY <1>0, <2>2
    <3> QED BY <3>1, <1>0
  <2>3. CASE ~(x < SizeMod)
    <3> HIDE DEF y
    <3> QED BY <2>1, <2>3, <1>0
  <2> QED BY <2>2, <2>3
<1> HIDE DEF y
<1>2. y \div Chunk = 0
  BY <1>0, <1>1
<1> QED BY <1>2 DEF count_needed_blocks, DIV_CEIL, y

(* The cast of a pointer difference to size_t is exact inside a pool.      *)
LEMMA BetweenExact ==
  ASSUME NEW from \in Int, NEW to \in Int, from <= to, to - from < SizeMod
  PROVE  blocks_between(from, to) = to - from
<1>1. SizeMod \in Nat \ {0}
  BY MemoryAssumption
<1>2. to - from \in 0 .. SizeMod - 1
  BY <1>1
<1> QED BY <1>1, <1>2 DEF blocks_between

-----------------------------------------------------------------------------
(* The shape of the list.                                                  *)

(* node_next leads to the next higher header, behind the data of the node; *)
(* node_prev leads back; the data ends inside the pool.                    *)
NextOK(h, blocks, n) ==
  /\ h[n].node_next # NULL =>
       /\ h[n].node_next \in DOMAIN h
       /\ data_end(h, n) <= h[n].node_next
       /\ h[h[n].node_next].node_prev = n
  /\ data_end(h, n) <= blocks

PrevOK(h, n) ==
  n # 0 => /\ h[n].node_prev \in DOMAIN h
           /\ h[h[n].node_prev].node_next = n

(* No header lies between a node and its successor. *)
Adjacent(h, m, n) ==
  m < n => h[m].node_next # NULL /\ h[m].node_next <= n

HeadersTyped(h) ==
  \A n \in DOMAIN h :
    h[n] \in [node_next : Int \cup {NULL}, node_prev : Int \cup {NULL}, allocated_bytes : Nat]

WellFormed(h, blocks) ==
  /\ 0 \in DOMAIN h
  /\ DOMAIN h \subseteq Nat
  /\ h = [n \in DOMAIN h |-> h[n]]
  /\ HeadersTyped(h)
  /\ \A n \in DOMAIN h : NextOK(h, blocks, n)
  /\ \A n \in DOMAIN h : PrevOK(h, n)
  /\ \A m, n \in DOMAIN h : Adjacent(h, m, n)

(* Every node with its data ends inside the pool. *)
LEMMA EndInside ==
  ASSUME NEW h, NEW blocks \in Nat, WellFormed(h, blocks), NEW n \in DOMAIN h
  PROVE  /\ data_end(h, n) \in Nat /\ n < data_end(h, n)
         /\ h[n].node_next # NULL => h[n].node_next \in Nat /\ n < h[n].node_next
<1>1. h[n].allocated_bytes \in Nat /\ n \in Nat
  BY DEF WellFormed, HeadersTyped
<1>2. data_end(h, n) \in Nat /\ n < data_end(h, n)
  BY <1>1, CountType DEF data_end
<1>3. NextOK(h, blocks, n) /\ DOMAIN h \subseteq Nat
  BY DEF WellFormed
<1> QED BY <1>1, <1>2, <1>3 DEF NextOK

(* A walk from node n visits exactly the headers from n upwards.           *)
LEMMA WalkIsUpwards ==
  ASSUME NEW h, NEW blocks \in Nat, WellFormed(h, blocks), NEW n \in DOMAIN h
  PROVE  ListFrom(h, n) = {m \in DOMAIN h : n <= m}
<1> DEFINE Up == {m \in DOMAIN h : n <= m}
<1>0. DOMAIN h \subseteq Nat
  BY DEF WellFormed
<1>1. Closed(h, Up)
  <2> SUFFICES ASSUME NEW m \in Up, h[m].node_next # NULL
               PROVE  h[m].node_next \in Up
    BY DEF Closed
  <2>1. h[m].node_next \in DOMAIN h /\ h[m].node_next \in Nat /\ m < h[m].node_next
    BY EndInside DEF WellFormed, NextOK
  <2> QED BY <2>1, <1>0
<1>2. ListFrom(h, n) \subseteq Up
  <2>1. Up \in SUBSET DOMAIN h /\ n \in Up
    BY <1>0
  <2> QED BY <2>1, <1>1 DEF ListFrom
<1>3. Up \subseteq ListFrom(h, n)
  <2> SUFFICES ASSUME NEW m0 \in Up,
                      NEW S \in SUBSET DOMAIN h, n \in S, Closed(h, S),
                      m0 \notin S
               PROVE  FALSE
    BY DEF ListFrom
  <2> DEFINE T == {k \in Up : k \notin S}
  <2>1. T \in SUBSET Nat /\ T # {}
    BY <1>0
  <2>2. PICK m \in T : \A k \in T : m <= k
    BY <2>1, LeastElement
  <2>3. m \in DOMAIN h /\ m \in Nat /\ n \in Nat /\ n < m
    BY <2>2, <1>0
  <2> DEFINE k == h[m].node_prev
  <2>4. k \in DOMAIN h /\ k \in Nat /\ h[k].node_next = m
    BY <2>3, <1>0 DEF WellFormed, PrevOK
  <2>5. k < m
    <3>1. m # NULL
      BY <2>3, MemoryAssumption
    <3> QED BY <3>1, <2>4, EndInside
  <2>6. n <= k
    <3>1. Adjacent(h, k, n)
      BY <2>4 DEF WellFormed
    <3> QED BY <3>1, <2>3, <2>4 DEF Adjacent
  <2>7. k \in S
    BY <2>2, <2>3, <2>4, <2>5, <2>6
  <2>8. m \in S
    <3>1. m # NULL
      BY <2>3, MemoryAssumption
    <3> QED BY <3>1, <2>7, <2>4 DEF Closed
  <2> QED BY <2>8, <2>2
<1> QED BY <1>2, <1>3

(* The list behind the sentinel holds every other header.                  *)
LEMMA ListIsLive ==
  ASSUME NEW h, NEW blocks \in Nat, WellFormed(h, blocks)
  PROVE  NodeList(h) = DOMAIN h \ {0}
<1>1. 0 \in DOMAIN h /\ DOMAIN h \subseteq Nat
  BY DEF WellFormed
<1>2. CASE node_list_head(h) = NULL
  <2>1. \A n \in DOMAIN h : ~(0 < n)
    BY <1>1, <1>2 DEF WellFormed, Adjacent, node_list_head
  <2>2. DOMAIN h \ {0} = {}
    BY <2>1, <1>1
  <2> QED BY <2>2, <1>2 DEF NodeList
<1>3. CASE node_list_head(h) # NULL
  <2> DEFINE head == h[0].node_next
  <2>1. head \in DOMAIN h /\ head \in Nat /\ 0 < head
    BY <1>1, <1>3, EndInside DEF WellFormed, NextOK, node_list_head
  <2>2. \A n \in DOMAIN h : 0 < n => head <= n
    BY <1>1 DEF WellFormed, Adjacent
  <2>3. ListFrom(h, head) = {m \in DOMAIN h : head <= m}
    BY <2>1, WalkIsUpwards
  <2>4. \A n \in DOMAIN h : n # 0 <=> head <= n
    BY <2>1, <2>2, <1>1
  <2> QED BY <2>3, <2>4, <1>3 DEF NodeList, node_list_head
<1> QED BY <1>2, <1>3

-----------------------------------------------------------------------------
(* The two ways the list changes.                                          *)

(* _insert_node behind prev, in the free space between prev and its        *)
(* successor, keeps the list well formed.                                  *)
LEMMA InsertKeepsShape ==
  ASSUME NEW h, NEW blocks \in Nat, WellFormed(h, blocks),
         NEW prev \in DOMAIN h, NEW bytes \in Nat, NEW new \in Nat,
         data_end(h, prev) <= new,
         h[prev].node_next # NULL =>
           new + count_needed_blocks(bytes) <= h[prev].node_next,
         h[prev].node_next = NULL =>
           new + count_needed_blocks(bytes) <= blocks
  PROVE  WellFormed(insert_node(h, new, bytes, prev, h[prev].node_next), blocks)
<1> DEFINE next == h[prev].node_next
           g == insert_node(h, new, bytes, prev, next)
<1>0. /\ 0 \in DOMAIN h /\ DOMAIN h \subseteq Nat /\ NULL \notin Int
      /\ \A n \in DOMAIN h : h[n].allocated_bytes \in Nat
      /\ \A n \in DOMAIN h :
           h[n] = [node_next |-> h[n].node_next, node_prev |-> h[n].node_prev,
                   allocated_bytes |-> h[n].allocated_bytes]
  BY MemoryAssumption DEF WellFormed, HeadersTyped
<1>1. prev < new /\ count_needed_blocks(bytes) \in Nat /\ 1 <= count_needed_blocks(bytes)
  BY EndInside, CountType, <1>0
<1>2. next # NULL => next \in DOMAIN h /\ next \in Nat /\ new < next
  BY <1>0, <1>1, EndInside DEF WellFormed, NextOK
<1>3. new \notin DOMAIN h
  <2> SUFFICES ASSUME new \in DOMAIN h PROVE FALSE
    OBVIOUS
  <2>1. next # NULL /\ next <= new
    BY <1>1, <1>0 DEF WellFormed, Adjacent
  <2> QED BY <2>1, <1>2
<1>4. /\ DOMAIN g = DOMAIN h \cup {new}
      /\ g = [n \in DOMAIN g |-> g[n]]
      /\ g[new] = [node_next |-> next, node_prev |-> prev, allocated_bytes |-> bytes]
      /\ \A n \in DOMAIN h :
           /\ g[n].allocated_bytes = h[n].allocated_bytes
           /\ g[n].node_next = IF n = prev THEN new ELSE h[n].node_next
           /\ g[n].node_prev = IF n = next THEN new ELSE h[n].node_prev
           /\ g[n] = [node_next |-> g[n].node_next, node_prev |-> g[n].node_prev,
                      allocated_bytes |-> g[n].allocated_bytes]
  <2>1. DOMAIN g = DOMAIN h \cup {new} /\ g = [n \in DOMAIN g |-> g[n]]
    BY DEF insert_node
  <2>2. g[new] = [node_next |-> next, node_prev |-> prev, allocated_bytes |-> bytes]
    BY DEF insert_node
  <2>3. ASSUME NEW n \in DOMAIN h
        PROVE  g[n] = [node_next |-> IF n = prev THEN new ELSE h[n].node_next,
                       node_prev |-> IF n = next THEN new ELSE h[n].node_prev,
                       allocated_bytes |-> h[n].allocated_bytes]
    BY <1>3 DEF insert_node
  <2>4. ASSUME NEW n \in DOMAIN h
        PROVE  /\ g[n].allocated_bytes = h[n].allocated_bytes
               /\ g[n].node_next = IF n = prev THEN new ELSE h[n].node_next
               /\ g[n].node_prev = IF n = next THEN new ELSE h[n].node_prev
    <3>1. g[n].allocated_bytes = h[n].allocated_bytes
      BY <1>3 DEF insert_node
    <3>2. g[n].node_next = IF n = prev THEN new ELSE h[n].node_next
      BY <1>3 DEF insert_node
    <3>3. g[n].node_prev = IF n = next THEN new ELSE h[n].node_prev
      BY <1>3 DEF insert_node
    <3> QED BY <3>1, <3>2, <3>3
  <2> QED BY <2>1, <2>2, <2>3, <2>4
<1>5. /\ data_end(g, new) = new + count_needed_blocks(bytes)
      /\ \A n \in DOMAIN h : data_end(g, n) = data_end(h, n)
  <2>1. g[new].allocated_bytes = bytes
    BY <1>4
  <2>2. \A n \in DOMAIN h : g[n].allocated_bytes = h[n].allocated_bytes
    BY <1>4
  <2> HIDE DEF g
  <2> QED BY <2>1, <2>2 DEF data_end
<1> HIDE DEF g
<1>6. HeadersTyped(g)
  <2> SUFFICES ASSUME NEW n \in DOMAIN g
               PROVE  g[n] \in [node_next : Int \cup {NULL}, node_prev : Int \cup {NULL},
                                allocated_bytes : Nat]
    BY DEF HeadersTyped
  <2>1. CASE n = new
    BY <2>1, <1>4, <1>2, <1>0
  <2>2. CASE n \in DOMAIN h
    <3>1. h[n].node_next \in Int \cup {NULL} /\ h[n].node_prev \in Int \cup {NULL}
      BY <2>2 DEF WellFormed, HeadersTyped
    <3>2. g[n].node_next \in Int \cup {NULL} /\ g[n].node_prev \in Int \cup {NULL}
      BY <3>1, <2>2, <1>4
    <3> QED BY <3>2, <2>2, <1>4, <1>0
  <2> QED BY <2>1, <2>2, <1>4
<1>7. ASSUME NEW n \in DOMAIN g PROVE NextOK(g, blocks, n)
  <2>1. CASE n = new
    <3>1. next # NULL => g[next].node_prev = new
      BY <1>2, <1>4
    <3>2. next # NULL => new + count_needed_blocks(bytes) <= blocks
      <4>1. next # NULL => next < data_end(h, next) /\ data_end(h, next) \in Nat
                           /\ data_end(h, next) <= blocks
        BY <1>2, EndInside DEF WellFormed, NextOK
      <4> QED BY <4>1, <1>1, <1>2
    <3> QED BY <2>1, <3>1, <3>2, <1>1, <1>2, <1>4, <1>5 DEF NextOK
  <2>2. CASE n = prev
    <3>1. data_end(h, prev) <= blocks
      BY DEF WellFormed, NextOK
    <3> QED BY <2>2, <3>1, <1>3, <1>4, <1>5, <1>0 DEF NextOK
  <2>3. CASE n \in DOMAIN h /\ n # prev
    <3>1. NextOK(h, blocks, n)
      BY <2>3 DEF WellFormed
    <3>2. g[n].node_next = h[n].node_next /\ data_end(g, n) = data_end(h, n)
      BY <2>3, <1>4, <1>5
    <3>3. h[n].node_next # NULL => h[n].node_next # next
      <4>1. next # NULL => h[next].node_prev = prev
        BY DEF WellFormed, NextOK
      <4> QED BY <4>1, <3>1, <2>3 DEF NextOK
    <3>4. h[n].node_next # NULL => g[h[n].node_next].node_prev = n
      BY <3>1, <3>3, <1>4 DEF NextOK
    <3> QED BY <3>1, <3>2, <3>4, <1>4 DEF NextOK
  <2> QED BY <2>1, <2>2, <2>3, <1>4
<1>8. ASSUME NEW n \in DOMAIN g PROVE PrevOK(g, n)
  <2>1. CASE n = new
    BY <2>1, <1>4 DEF PrevOK
  <2>2. CASE n = next /\ next # NULL
    <3>1. n \in DOMAIN h /\ g[n].node_prev = new /\ g[new].node_next = n
      BY <2>2, <1>2, <1>4
    <3> QED BY <3>1, <1>4 DEF PrevOK
  <2>3. CASE n \in DOMAIN h /\ n # next /\ n # 0
    <3>1. h[n].node_prev \in DOMAIN h /\ h[h[n].node_prev].node_next = n
      BY <2>3 DEF WellFormed, PrevOK
    <3>2. h[n].node_prev # prev
      BY <3>1, <2>3
    <3> QED BY <3>1, <3>2, <2>3, <1>4 DEF PrevOK
  <2>4. CASE n = 0
    BY <2>4 DEF PrevOK
  <2> QED BY <2>1, <2>2, <2>3, <2>4, <1>4, <1>0
<1>9. ASSUME NEW m \in DOMAIN g, NEW n \in DOMAIN g PROVE Adjacent(g, m, n)
  <2> SUFFICES ASSUME m < n PROVE g[m].node_next # NULL /\ g[m].node_next <= n
    BY DEF Adjacent
  <2>0. new # NULL
    BY <1>0
  <2>1. CASE m = new
    <3>1. n \in DOMAIN h /\ prev < n
      BY <2>1, <1>4, <1>1, <1>0
    <3>2. next # NULL /\ next <= n
      BY <3>1 DEF WellFormed, Adjacent
    <3> QED BY <3>2, <2>1, <1>4
  <2>2. CASE m = prev
    <3>1. CASE n = new
      BY <3>1, <2>0, <2>2, <1>4
    <3>2. CASE n # new
      <4>1. n \in DOMAIN h
        BY <3>2, <1>4
      <4>2. next # NULL /\ next <= n
        BY <4>1, <2>2 DEF WellFormed, Adjacent
      <4> QED BY <4>1, <4>2, <2>0, <2>2, <1>0, <1>2, <1>4
    <3> QED BY <3>1, <3>2
  <2>3. CASE m \in DOMAIN h /\ m # prev
    <3>1. g[m].node_next = h[m].node_next
      BY <2>3, <1>4
    <3>2. CASE n \in DOMAIN h
      BY <3>1, <3>2, <2>3 DEF WellFormed, Adjacent
    <3>3. CASE n = new
      <4>1. m < prev
        <5> SUFFICES ASSUME prev < m PROVE FALSE
          BY <2>3, <1>0
        <5>1. next # NULL /\ next <= m
          BY <2>3 DEF WellFormed, Adjacent
        <5> QED BY <5>1, <3>3, <1>2, <1>0, <2>3
      <4>2. h[m].node_next # NULL /\ h[m].node_next <= prev /\ h[m].node_next \in Nat
        BY <4>1, <2>3, EndInside DEF WellFormed, Adjacent
      <4> QED BY <4>2, <3>1, <3>3, <1>1, <1>0
    <3> QED BY <3>2, <3>3, <1>4
  <2> QED BY <2>1, <2>2, <2>3, <1>4
<1> QED BY <1>0, <1>4, <1>6, <1>7, <1>8, <1>9 DEF WellFormed, g

(* Unlinking a node other than the sentinel keeps the list well formed.    *)
LEMMA UnlinkKeepsShape ==
  ASSUME NEW h, NEW blocks \in Nat, WellFormed(h, blocks),
         NEW old \in DOMAIN h, old # 0
  PROVE  WellFormed(unlink_node(h, old), blocks)
<1> DEFINE prev == h[old].node_prev
           next == h[old].node_next
           g == unlink_node(h, old)
<1>0. /\ 0 \in DOMAIN h /\ DOMAIN h \subseteq Nat /\ NULL \notin Int
      /\ \A n \in DOMAIN h : h[n].allocated_bytes \in Nat
      /\ \A n \in DOMAIN h :
           h[n] = [node_next |-> h[n].node_next, node_prev |-> h[n].node_prev,
                   allocated_bytes |-> h[n].allocated_bytes]
  BY MemoryAssumption DEF WellFormed, HeadersTyped
<1>1. prev \in DOMAIN h /\ prev < old /\ data_end(h, prev) <= old /\ h[prev].node_next = old
  <2>1. prev \in DOMAIN h /\ h[prev].node_next = old /\ old # NULL
    BY <1>0 DEF WellFormed, PrevOK
  <2> QED BY <2>1, EndInside DEF WellFormed, NextOK
<1>2. next # NULL => /\ next \in DOMAIN h /\ next \in Nat /\ old < next
                     /\ h[next].node_prev = old
  BY <1>0, EndInside DEF WellFormed, NextOK
<1>3. /\ DOMAIN g = DOMAIN h \ {old}
      /\ g = [n \in DOMAIN g |-> g[n]]
      /\ \A n \in DOMAIN h \ {old} :
           /\ g[n].allocated_bytes = h[n].allocated_bytes
           /\ g[n].node_next = IF n = prev THEN next ELSE h[n].node_next
           /\ g[n].node_prev = IF n = next THEN prev ELSE h[n].node_prev
           /\ g[n] = [node_next |-> g[n].node_next, node_prev |-> g[n].node_prev,
                      allocated_bytes |-> g[n].allocated_bytes]
           /\ data_end(g, n) = data_end(h, n)
  <2>1. DOMAIN g = DOMAIN h \ {old} /\ g = [n \in DOMAIN g |-> g[n]]
    BY DEF unlink_node
  <2>2. ASSUME NEW n \in DOMAIN h \ {old}
        PROVE  g[n] = [node_next |-> IF n = prev THEN next ELSE h[n].node_next,
                       node_prev |-> IF n = next THEN prev ELSE h[n].node_prev,
                       allocated_bytes |-> h[n].allocated_bytes]
    BY DEF unlink_node
  <2>3. ASSUME NEW n \in DOMAIN h \ {old}
        PROVE  /\ g[n].allocated_bytes = h[n].allocated_bytes
               /\ g[n].node_next = IF n = prev THEN next ELSE h[n].node_next
               /\ g[n].node_prev = IF n = next THEN prev ELSE h[n].node_prev
               /\ data_end(g, n) = data_end(h, n)
    <3>1. g[n].allocated_bytes = h[n].allocated_bytes
      BY DEF unlink_node
    <3>2. g[n].node_next = IF n = prev THEN next ELSE h[n].node_next
      BY DEF unlink_node
    <3>3. g[n].node_prev = IF n = next THEN prev ELSE h[n].node_prev
      BY DEF unlink_node
    <3> HIDE DEF g
    <3>4. data_end(g, n) = data_end(h, n)
      BY <3>1 DEF data_end
    <3> QED BY <3>1, <3>2, <3>3, <3>4
  <2> QED BY <2>1, <2>2, <2>3
<1> HIDE DEF g
<1>4. HeadersTyped(g)
  <2> SUFFICES ASSUME NEW n \in DOMAIN h \ {old}
               PROVE  g[n] \in [node_next : Int \cup {NULL}, node_prev : Int \cup {NULL},
                                allocated_bytes : Nat]
    BY <1>3 DEF HeadersTyped
  <2>1. /\ h[n].node_next \in Int \cup {NULL} /\ h[n].node_prev \in Int \cup {NULL}
        /\ prev \in Int \cup {NULL} /\ next \in Int \cup {NULL}
    BY DEF WellFormed, HeadersTyped
  <2>2. g[n].node_next \in Int \cup {NULL} /\ g[n].node_prev \in Int \cup {NULL}
    BY <2>1, <1>3
  <2> QED BY <2>2, <1>3, <1>0
<1>5. ASSUME NEW n \in DOMAIN g PROVE NextOK(g, blocks, n)
  <2>0. n \in DOMAIN h /\ n # old
    BY <1>3
  <2>1. CASE n = prev
    <3>1. next # NULL => data_end(h, prev) <= next /\ g[next].node_prev = prev
      BY <1>0, <1>1, <1>2, <1>3, EndInside
    <3>2. data_end(h, prev) <= blocks
      BY <1>1 DEF WellFormed, NextOK
    <3> QED BY <2>0, <2>1, <3>1, <3>2, <1>2, <1>3 DEF NextOK
  <2>2. CASE n # prev
    <3>1. NextOK(h, blocks, n)
      BY <2>0 DEF WellFormed
    <3>2. h[n].node_next # NULL => h[n].node_next # old /\ h[n].node_next # next
      BY <3>1, <2>0, <2>2, <1>1, <1>2 DEF NextOK
    <3> QED BY <2>0, <2>2, <3>1, <3>2, <1>3 DEF NextOK
  <2> QED BY <2>1, <2>2
<1>6. ASSUME NEW n \in DOMAIN g PROVE PrevOK(g, n)
  <2>0. n \in DOMAIN h /\ n # old
    BY <1>3
  <2>1. CASE n = next
    BY <2>0, <2>1, <1>0, <1>1, <1>2, <1>3 DEF PrevOK
  <2>2. CASE n # next /\ n # 0
    <3>1. h[n].node_prev \in DOMAIN h /\ h[h[n].node_prev].node_next = n
      BY <2>0, <2>2 DEF WellFormed, PrevOK
    <3>2. h[n].node_prev # old /\ h[n].node_prev # prev
      BY <3>1, <2>0, <2>2, <1>1
    <3> QED BY <2>0, <2>2, <3>1, <3>2, <1>3 DEF PrevOK
  <2> QED BY <2>1, <2>2 DEF PrevOK
<1>7. ASSUME NEW m \in DOMAIN g, NEW n \in DOMAIN g PROVE Adjacent(g, m, n)
  <2> SUFFICES ASSUME m < n PROVE g[m].node_next # NULL /\ g[m].node_next <= n
    BY DEF Adjacent
  <2>0. m \in DOMAIN h /\ m # old /\ n \in DOMAIN h /\ n # old
    BY <1>3
  <2>1. h[m].node_next # NULL /\ h[m].node_next <= n
    BY <2>0 DEF WellFormed, Adjacent
  <2>2. CASE m = prev
    <3>1. old < n
      BY <2>0, <2>1, <2>2, <1>0, <1>1
    <3>2. next # NULL /\ next <= n
      BY <3>1, <2>0 DEF WellFormed, Adjacent
    <3> QED BY <2>0, <2>2, <3>2, <1>3
  <2>3. CASE m # prev
    BY <2>0, <2>1, <2>3, <1>3
  <2> QED BY <2>2, <2>3
<1>8. 0 \in DOMAIN g /\ DOMAIN g \subseteq Nat
  BY <1>0, <1>3
<1> QED BY <1>3, <1>4, <1>5, <1>6, <1>7, <1>8 DEF WellFormed, g

-----------------------------------------------------------------------------
(* The inductive invariant.                                                *)

(* Every array given to init either holds a whole block or not even one    *)
(* alignment unit: the undefined pointer difference does not occur.        *)
PoolsFit == \A p \in Pools : aligned_extent(p) \notin 1 .. Chunk - 1

PoolOK ==
  /\ g_pool \in [blocks : Nat, tail : BOOLEAN]
  /\ g_pool.blocks < SizeMod
  /\ WellFormed(node, g_pool.blocks)
  /\ \A n \in DOMAIN node : node[n].allocated_bytes \in Sizes \cup {0}

IInv ==
  /\ g_pool = NULL => node = EmptyFn
  /\ g_pool # NULL => PoolOK

LEMMA ExtentType ==
  ASSUME NEW p \in Pools
  PROVE  aligned_extent(p) \in Int /\ aligned_extent(p) < SizeMod
<1> DEFINE x == p.addr + p.size
<1>0. Chunk \in Nat \ {0} /\ Align \in Nat \ {0} /\ SizeMod \in Nat
  BY MemoryAssumption
<1>1. x \in Nat /\ x < SizeMod /\ p.addr \in Nat
  BY MemoryAssumption
<1> HIDE DEF x
<1>2. (x \div Align) * Align <= x /\ (x \div Align) * Align \in Int
  BY <1>0, <1>1
<1>3. (p.addr \div Align + 1) * Align \in Nat
  <2>1. p.addr \div Align \in Nat
    BY <1>0, <1>1
  <2> QED BY <2>1, <1>0
<1> QED BY <1>0, <1>1, <1>2, <1>3 DEF aligned_extent, align_address_down, align_address_up, x

(* An array that init accepts has between one and SizeMod - 1 blocks.      *)
LEMMA AcceptedPool ==
  ASSUME PoolsFit, NEW p \in Pools, TRUE \in accepted(aligned_extent(p))
  PROVE  aligned_extent(p) \div Chunk \in 1 .. SizeMod - 1
<1> DEFINE e == aligned_extent(p)
<1>0. Chunk \in Nat \ {0} /\ SizeMod \in Nat
  BY MemoryAssumption
<1>4. e \in Int /\ e < SizeMod
  BY ExtentType
<1> HIDE DEF e
<1>5. e \notin 1 .. Chunk - 1
  BY DEF PoolsFit, e
<1>6. e > 0
  BY <1>5, <1>4, <1>0 DEF accepted, e
<1>7. e >= Chunk /\ e \in Nat
  BY <1>5, <1>6, <1>4, <1>0
<1>8. e \div Chunk \in Nat /\ e \div Chunk >= 1 /\ e \div Chunk <= e
  BY <1>7, <1>0
<1> QED BY <1>8, <1>4, <1>0 DEF e

(* A node malloc chooses has room behind it for the new node and its data. *)
LEMMA FirstFitHasRoom ==
  ASSUME PoolOK, NEW bytes \in Nat, NEW n \in first_fit(node, bytes)
  PROVE  /\ n \in DOMAIN node
         /\ data_end(node, n) \in Nat
         /\ node[n].node_next # NULL =>
              data_end(node, n) + count_needed_blocks(bytes) <= node[n].node_next
         /\ node[n].node_next = NULL =>
              data_end(node, n) + count_needed_blocks(bytes) <= g_pool.blocks
<1>0. /\ g_pool.blocks \in Nat /\ g_pool.blocks < SizeMod /\ SizeMod \in Nat
      /\ WellFormed(node, g_pool.blocks)
  BY MemoryAssumption DEF PoolOK
<1>1. n \in DOMAIN node /\ available_free_space_after_node(node, n, bytes)
  BY DEF first_fit, ListFrom
<1>2. /\ data_end(node, n) \in Nat /\ count_needed_blocks(bytes) \in Nat
      /\ node[n].node_next # NULL => node[n].node_next \in DOMAIN node /\ node[n].node_next \in Nat
  BY <1>0, <1>1, EndInside, CountType DEF WellFormed, NextOK
<1>3. /\ free_space_end(node, n) \in Nat
      /\ data_end(node, n) <= free_space_end(node, n)
      /\ free_space_end(node, n) <= g_pool.blocks
  <2>1. CASE node[n].node_next = NULL
    BY <2>1, <1>0, <1>1 DEF free_space_end, WellFormed, NextOK
  <2>2. CASE node[n].node_next # NULL
    <3> DEFINE m == node[n].node_next
    <3>1. m \in DOMAIN node /\ m \in Nat /\ data_end(node, n) <= m
      BY <2>2, <1>0, <1>1, <1>2 DEF WellFormed, NextOK
    <3>2. data_end(node, m) \in Nat /\ m < data_end(node, m) /\ data_end(node, m) <= g_pool.blocks
      BY <3>1, <1>0, EndInside DEF WellFormed, NextOK
    <3> QED BY <2>2, <3>1, <3>2, <1>0 DEF free_space_end
  <2> QED BY <2>1, <2>2
<1>4. count_needed_blocks(bytes) <= free_space_end(node, n) - data_end(node, n)
  BY <1>0, <1>1, <1>2, <1>3, BetweenExact DEF available_free_space_after_node
<1> QED BY <1>1, <1>2, <1>3, <1>4 DEF free_space_end

(* So placing a block keeps the list well formed.                          *)
LEMMA PlaceKeepsShape ==
  ASSUME PoolOK, NEW bytes \in Nat, NEW n \in first_fit(node, bytes)
  PROVE  WellFormed(place_after(node, n, bytes), g_pool.blocks)
<1>1. WellFormed(node, g_pool.blocks) /\ g_pool.blocks \in Nat
  BY DEF PoolOK
<1>2. n \in DOMAIN node /\ data_end(node, n) \in Nat
  BY FirstFitHasRoom
<1>3. data_end(node, n) <= data_end(node, n)
  BY <1>2
<1> QED BY <1>1, <1>2, <1>3, FirstFitHasRoom, InsertKeepsShape DEF place_after

(* The header table of realloc_in_place. *)
Slid(old, size) ==
  LET new == data_end(node, node[old].node_prev)
      h   == insert_node(node, new, size, node[old].node_prev, node[old].node_next)
  IN  [n \in (DOMAIN node \ {old}) \cup {new} |-> h[n]]

(* Sliding a block down and resizing it in place is unlinking it and       *)
(* inserting it again right behind its predecessor.                        *)
LEMMA SlideIsUnlinkInsert ==
  ASSUME PoolOK, NEW old \in DOMAIN node \ {0}, NEW size
  PROVE  LET g == unlink_node(node, old)
             prev == node[old].node_prev
         IN  /\ prev \in DOMAIN g
             /\ g[prev].node_next = node[old].node_next
             /\ data_end(g, prev) = data_end(node, prev)
             /\ Slid(old, size)
                  = insert_node(g, data_end(node, prev), size, prev, g[prev].node_next)
<1> DEFINE g == unlink_node(node, old)
           prev == node[old].node_prev
           next == node[old].node_next
           new == data_end(node, prev)
           h == insert_node(node, new, size, prev, next)
           f == insert_node(g, new, size, prev, next)
<1>0. WellFormed(node, g_pool.blocks) /\ g_pool.blocks \in Nat /\ NULL \notin Int
  BY MemoryAssumption DEF PoolOK
<1>1. /\ prev \in DOMAIN node /\ prev # old
      /\ DOMAIN node \subseteq Nat
  <2>1. prev \in DOMAIN node /\ node[prev].node_next = old /\ old # NULL
    BY <1>0 DEF WellFormed, PrevOK
  <2> QED BY <2>1, <1>0, EndInside DEF WellFormed
<1>2. DOMAIN g = DOMAIN node \ {old}
  BY DEF unlink_node
<1>3. g[prev].node_next = next
  BY <1>1 DEF unlink_node
<1>4. g[prev].allocated_bytes = node[prev].allocated_bytes
  BY <1>1 DEF unlink_node
<1>5. DOMAIN Slid(old, size) = DOMAIN f
  BY <1>2 DEF Slid, insert_node
<1>6. ASSUME NEW n \in DOMAIN f PROVE Slid(old, size)[n] = f[n]
  <2>1. n \in (DOMAIN node \ {old}) \cup {new}
    BY <1>2 DEF insert_node
  <2>2. Slid(old, size)[n] = h[n]
    BY <2>1 DEF Slid
  <2>3. CASE n = new
    BY <2>1, <2>2, <2>3 DEF insert_node
  <2>4. CASE n # new
    <3>1. n \in DOMAIN node \ {old}
      BY <2>1, <2>4
    <3>2. h[n] = [node_next |-> IF n = prev THEN new ELSE node[n].node_next,
                  node_prev |-> IF n = next THEN new ELSE node[n].node_prev,
                  allocated_bytes |-> node[n].allocated_bytes]
      BY <3>1, <2>4 DEF insert_node
    <3>3. f[n] = [node_next |-> IF n = prev THEN new ELSE g[n].node_next,
                  node_prev |-> IF n = next THEN new ELSE g[n].node_prev,
                  allocated_bytes |-> g[n].allocated_bytes]
      BY <3>1, <2>4, <1>2 DEF insert_node
    <3>4. g[n].node_next = IF n = prev THEN next ELSE node[n].node_next
      BY <3>1 DEF unlink_node
    <3>5. g[n].node_prev = IF n = next THEN prev ELSE node[n].node_prev
      BY <3>1 DEF unlink_node
    <3>6. g[n].allocated_bytes = node[n].allocated_bytes
      BY <3>1 DEF unlink_node
    <3> HIDE DEF g, h, f
    <3> QED BY <2>2, <3>2, <3>3, <3>4, <3>5, <3>6
  <2> QED BY <2>3, <2>4
<1>7. Slid(old, size) = [n \in DOMAIN Slid(old, size) |-> Slid(old, size)[n]]
  BY DEF Slid
<1>8. f = [n \in DOMAIN f |-> f[n]]
  BY DEF insert_node
<1> HIDE DEF f, g, h
<1>9. Slid(old, size) = f
  BY <1>5, <1>6, <1>7, <1>8
<1>10. data_end(g, prev) = data_end(node, prev)
  BY <1>4 DEF data_end
<1> QED BY <1>1, <1>2, <1>3, <1>9, <1>10 DEF f, g

LEMMA SlideKeepsShape ==
  ASSUME PoolOK, NEW old \in DOMAIN node \ {0}, NEW size \in Nat,
         fits_in_place(old, size)
  PROVE  WellFormed(Slid(old, size), g_pool.blocks)
<1> DEFINE g == unlink_node(node, old)
           prev == node[old].node_prev
           new == data_end(node, prev)
<1>0. /\ WellFormed(node, g_pool.blocks) /\ g_pool.blocks \in Nat /\ NULL \notin Int
      /\ g_pool.blocks < SizeMod /\ SizeMod \in Nat
  BY MemoryAssumption DEF PoolOK
<1>1. /\ prev \in DOMAIN g /\ g[prev].node_next = node[old].node_next
      /\ data_end(g, prev) = new
      /\ Slid(old, size) = insert_node(g, new, size, prev, g[prev].node_next)
  BY SlideIsUnlinkInsert
<1>2. WellFormed(g, g_pool.blocks)
  BY <1>0, UnlinkKeepsShape
<1>3. new \in Nat /\ new <= g_pool.blocks
  BY <1>0, <1>1, <1>2, EndInside DEF WellFormed, NextOK
<1>4. node[old].node_next # NULL =>
        /\ new <= node[old].node_next /\ node[old].node_next \in Nat
        /\ node[old].node_next < SizeMod
  <2> SUFFICES ASSUME node[old].node_next # NULL
               PROVE  /\ new <= node[old].node_next /\ node[old].node_next \in Nat
                      /\ node[old].node_next < SizeMod
    OBVIOUS
  <2> DEFINE m == node[old].node_next
  <2>1. m \in DOMAIN g /\ new <= m
    BY <1>1, <1>2 DEF WellFormed, NextOK
  <2>2. m \in Nat /\ m < data_end(g, m) /\ data_end(g, m) \in Nat /\ data_end(g, m) <= g_pool.blocks
    BY <2>1, <1>0, <1>2, EndInside DEF WellFormed, NextOK
  <2> QED BY <2>1, <2>2, <1>0
<1>5. count_needed_blocks(size) <= free_space_end(node, old) - new
  <2>1. free_space_end(node, old) \in Nat /\ new <= free_space_end(node, old)
        /\ free_space_end(node, old) < SizeMod
    BY <1>0, <1>3, <1>4 DEF free_space_end
  <2> QED BY <2>1, <1>0, <1>3, BetweenExact DEF fits_in_place
<1>6. count_needed_blocks(size) \in Nat
  BY CountType
<1>7. /\ g[prev].node_next # NULL => new + count_needed_blocks(size) <= g[prev].node_next
      /\ g[prev].node_next = NULL => new + count_needed_blocks(size) <= g_pool.blocks
  <2> HIDE DEF g, prev, new
  <2>1. CASE node[old].node_next = NULL
    BY <2>1, <1>0, <1>1, <1>3, <1>5, <1>6 DEF free_space_end
  <2>2. CASE node[old].node_next # NULL
    BY <2>2, <1>1, <1>3, <1>4, <1>5, <1>6 DEF free_space_end
  <2> QED BY <2>1, <2>2
<1>8. data_end(g, prev) <= new
  BY <1>1, <1>3
<1> QED
  <2> HIDE DEF g, prev, new
  <2> QED BY <1>0, <1>1, <1>2, <1>3, <1>7, <1>8, InsertKeepsShape

(* What the three list operations do to the recorded sizes.                *)
LEMMA RecordedBytes ==
  ASSUME NEW h, NEW S, \A n \in DOMAIN h : h[n].allocated_bytes \in S,
         NEW new, NEW bytes \in S, NEW prev, NEW next, NEW old \in DOMAIN h
  PROVE  /\ LET g == insert_node(h, new, bytes, prev, next)
            IN  \A n \in DOMAIN g : g[n].allocated_bytes \in S
         /\ LET g == unlink_node(h, old)
            IN  \A n \in DOMAIN g : g[n].allocated_bytes \in S
<1>1. ASSUME NEW n \in DOMAIN insert_node(h, new, bytes, prev, next)
      PROVE  insert_node(h, new, bytes, prev, next)[n].allocated_bytes \in S
  <2>1. CASE n = new
    BY <2>1 DEF insert_node
  <2>2. CASE n # new
    <3>1. n \in DOMAIN h
      BY <2>2, <1>1 DEF insert_node
    <3> QED BY <3>1, <2>2 DEF insert_node
  <2> QED BY <2>1, <2>2
<1>2. ASSUME NEW n \in DOMAIN unlink_node(h, old)
      PROVE  unlink_node(h, old)[n].allocated_bytes \in S
  BY <1>2 DEF unlink_node
<1> QED BY <1>1, <1>2

LEMMA SizesAreNat == Sizes \subseteq Nat
  BY MemoryAssumption

(* A free that succeeds is given the data of a listed node.                *)
LEMMA FreedIsListed ==
  ASSUME NEW h, NEW ptr, free_result(h, ptr) = OK
  PROVE  /\ g_pool # NULL /\ ptr # NULL
         /\ associated_node(ptr) \in NodeList(h)
         /\ ~below_list_head(h, ptr) /\ below_pool_end(ptr)
BY DEF free_result, OK, OK_NULLPTR, ERR_NOT_ALLOCATED, ERR_ADDRESS_OUTSIDE,
       ERR_UNINITIALIZED, is_existing_memory_node

LEMMA InitIInv == Init => IInv
  BY MemoryAssumption DEF Init, IInv

LEMMA InitPoolIInv ==
  ASSUME PoolsFit, IInv, NEW p \in Pools, init(p)
  PROVE  IInv'
<1>1. PICK ok \in accepted(aligned_extent(p)) :
        IF ok
        THEN /\ g_pool' = [blocks |-> aligned_extent(p) \div Chunk,
                           tail   |-> aligned_extent(p) % Chunk # 0]
             /\ node' = [n \in {0} |-> [node_next |-> NULL, node_prev |-> NULL,
                                        allocated_bytes |-> 0]]
        ELSE g_pool' = NULL /\ node' = EmptyFn
  BY DEF init
<1>2. ok \in BOOLEAN
  <2> DEFINE e == aligned_extent(p)
  <2>1. (e > 0) \in BOOLEAN
    BY ExtentType
  <2> QED BY <1>1, <2>1 DEF accepted
<1>3. CASE ~ok
  BY <1>1, <1>3 DEF IInv
<1>4. CASE ok
  <2> DEFINE b == aligned_extent(p) \div Chunk
  <2>1. b \in Nat /\ 1 <= b /\ b < SizeMod
    <3>1. TRUE \in accepted(aligned_extent(p))
      BY <1>1, <1>2, <1>4
    <3>2. b \in 1 .. SizeMod - 1
      BY <3>1, AcceptedPool
    <3> HIDE DEF b
    <3> QED BY <3>2, MemoryAssumption
  <2>2. g_pool' \in [blocks : Nat, tail : BOOLEAN] /\ g_pool'.blocks = b
    <3> DEFINE t == aligned_extent(p) % Chunk # 0
    <3>1. g_pool' = [blocks |-> b, tail |-> t] /\ t \in BOOLEAN
      BY <1>1, <1>4
    <3> HIDE DEF b, t
    <3> QED BY <3>1, <2>1
  <2>3. /\ DOMAIN node' = {0}
        /\ node' = [n \in DOMAIN node' |-> node'[n]]
        /\ node'[0] = [node_next |-> NULL, node_prev |-> NULL, allocated_bytes |-> 0]
    BY <1>1, <1>4
  <2>4. data_end(node', 0) = 1
    <3>1. count_needed_blocks(0) = 1
      BY SentinelCount
    <3> QED BY <3>1, <2>3 DEF data_end
  <2>5. WellFormed(node', b)
    BY <2>1, <2>3, <2>4, MemoryAssumption
       DEF WellFormed, HeadersTyped, NextOK, PrevOK, Adjacent
  <2>6. \A n \in DOMAIN node' : node'[n].allocated_bytes \in Sizes \cup {0}
    BY <2>3
  <2>7. g_pool' # NULL /\ node' # EmptyFn
    <3>1. g_pool' \in [blocks : Int, tail : BOOLEAN]
      BY <2>2
    <3>2. 0 \in DOMAIN node' /\ 0 \notin DOMAIN EmptyFn
      BY <2>3 DEF EmptyFn
    <3> QED BY <3>1, <3>2, MemoryAssumption
  <2> HIDE DEF b
  <2> QED BY <2>1, <2>2, <2>5, <2>6, <2>7 DEF IInv, PoolOK
<1> QED BY <1>2, <1>3, <1>4

(* Once a pool is set it stays; a step only has to keep the list well      *)
(* formed and record sizes that were requested.                            *)
LEMMA StepIInv ==
  ASSUME IInv, g_pool # NULL, UNCHANGED g_pool,
         WellFormed(node', g_pool.blocks),
         \A n \in DOMAIN node' : node'[n].allocated_bytes \in Sizes \cup {0}
  PROVE  IInv'
BY DEF IInv, PoolOK

LEMMA UnchangedIInv ==
  ASSUME IInv, UNCHANGED <<g_pool, node>>
  PROVE  IInv'
BY DEF IInv, PoolOK

LEMMA MallocIInv ==
  ASSUME IInv, NEW size \in Sizes, malloc(size)
  PROVE  IInv'
<1>1. CASE malloc_fails(size)
  BY <1>1, UnchangedIInv DEF malloc, malloc_fails
<1>2. CASE malloc_succeeds(size)
  <2>1. g_pool # NULL /\ PoolOK /\ UNCHANGED g_pool
    BY <1>2 DEF malloc, malloc_succeeds, IInv
  <2>2. PICK n \in first_fit(node, size) : node' = place_after(node, n, size)
    BY <1>2 DEF malloc_succeeds
  <2>3. size \in Nat
    BY SizesAreNat
  <2>4. WellFormed(node', g_pool.blocks)
    BY <2>1, <2>2, <2>3, PlaceKeepsShape
  <2>5. \A m \in DOMAIN node' : node'[m].allocated_bytes \in Sizes \cup {0}
    <3>1. 0 \in DOMAIN node /\ \A m \in DOMAIN node : node[m].allocated_bytes \in Sizes \cup {0}
      BY <2>1 DEF PoolOK, WellFormed
    <3> QED BY <3>1, <2>2, RecordedBytes DEF place_after
  <2> QED BY <2>1, <2>4, <2>5, StepIInv
<1> QED BY <1>1, <1>2 DEF malloc

LEMMA ReallocIInv ==
  ASSUME IInv, NEW ptr, NEW size \in Sizes, realloc(ptr, size)
  PROVE  IInv'
<1>0. size \in Nat
  BY SizesAreNat
<1>1. CASE ptr = NULL
  BY <1>1, MallocIInv DEF realloc
<1>2. CASE ptr # NULL /\ realloc_unknown(ptr, size)
  BY <1>2, UnchangedIInv DEF realloc, realloc_unknown
<1>3. CASE ptr # NULL /\ realloc_in_place(ptr, size)
  <2> DEFINE old == associated_node(ptr)
  <2>1. g_pool # NULL /\ PoolOK /\ UNCHANGED g_pool
    BY <1>3 DEF realloc, realloc_in_place, IInv
  <2>2. old \in DOMAIN node \ {0}
    BY <1>3, <2>1, ListIsLive DEF realloc_in_place, is_existing_memory_node, PoolOK
  <2>3. fits_in_place(old, size) /\ node' = Slid(old, size)
    BY <1>3 DEF realloc_in_place, Slid
  <2>4. WellFormed(node', g_pool.blocks)
    BY <2>1, <2>2, <2>3, <1>0, SlideKeepsShape
  <2>5. \A m \in DOMAIN node' : node'[m].allocated_bytes \in Sizes \cup {0}
    <3> DEFINE new == data_end(node, node[old].node_prev)
               h   == insert_node(node, new, size, node[old].node_prev, node[old].node_next)
    <3>1. 0 \in DOMAIN node /\ \A m \in DOMAIN node : node[m].allocated_bytes \in Sizes \cup {0}
      BY <2>1 DEF PoolOK, WellFormed
    <3>2. \A m \in DOMAIN h : h[m].allocated_bytes \in Sizes \cup {0}
      BY <3>1, RecordedBytes
    <3>3. DOMAIN node' \subseteq DOMAIN h /\ \A m \in DOMAIN node' : node'[m] = h[m]
      BY <2>3 DEF Slid, insert_node
    <3> HIDE DEF h
    <3> QED BY <3>2, <3>3
  <2> QED BY <2>1, <2>4, <2>5, StepIInv
<1>4. CASE ptr # NULL /\ realloc_moves(ptr, size)
  <2>1. g_pool # NULL /\ PoolOK /\ UNCHANGED g_pool
    BY <1>4 DEF realloc, realloc_moves, IInv
  <2>2. PICK n \in first_fit(node, size) :
          LET h == place_after(node, n, size)
          IN  IF free_result(h, ptr) = OK
              THEN node' = unlink_node(h, associated_node(ptr))
              ELSE node' = h
    BY <1>4 DEF realloc_moves
  <2> DEFINE h == place_after(node, n, size)
  <2>3. WellFormed(h, g_pool.blocks)
    BY <2>1, <1>0, PlaceKeepsShape
  <2>4. \A m \in DOMAIN h : h[m].allocated_bytes \in Sizes \cup {0}
    <3>1. 0 \in DOMAIN node /\ \A m \in DOMAIN node : node[m].allocated_bytes \in Sizes \cup {0}
      BY <2>1 DEF PoolOK, WellFormed
    <3> QED BY <3>1, RecordedBytes DEF place_after
  <2>5. g_pool.blocks \in Nat
    BY <2>1 DEF PoolOK
  <2> HIDE DEF h
  <2>6. CASE free_result(h, ptr) = OK
    <3>1. associated_node(ptr) \in DOMAIN h \ {0}
      BY <2>3, <2>5, <2>6, FreedIsListed, ListIsLive
    <3>2. node' = unlink_node(h, associated_node(ptr))
      BY <2>2, <2>6 DEF h
    <3>3. WellFormed(node', g_pool.blocks)
      BY <2>3, <2>5, <3>1, <3>2, UnlinkKeepsShape
    <3>4. \A m \in DOMAIN node' : node'[m].allocated_bytes \in Sizes \cup {0}
      BY <2>4, <3>1, <3>2, RecordedBytes
    <3> QED BY <2>1, <3>3, <3>4, StepIInv
  <2>7. CASE free_result(h, ptr) # OK
    <3>1. node' = h
      BY <2>2, <2>7 DEF h
    <3> QED BY <2>1, <2>3, <2>4, <3>1, StepIInv
  <2> QED BY <2>6, <2>7
<1>5. CASE ptr # NULL /\ realloc_fails(ptr, size)
  BY <1>5, UnchangedIInv DEF realloc, realloc_fails
<1> QED BY <1>1, <1>2, <1>3, <1>4, <1>5 DEF realloc

LEMMA FreeExtIInv ==
  ASSUME IInv, NEW ptr, free_ext(ptr)
  PROVE  IInv'
<1>1. CASE free_result(node, ptr) = OK
  <2>1. g_pool # NULL /\ PoolOK /\ UNCHANGED g_pool
    BY <1>1, FreedIsListed DEF free_ext, IInv
  <2>2. associated_node(ptr) \in DOMAIN node \ {0}
    BY <1>1, <2>1, FreedIsListed, ListIsLive DEF PoolOK
  <2>3. node' = unlink_node(node, associated_node(ptr))
    BY <1>1 DEF free_ext
  <2>4. WellFormed(node', g_pool.blocks)
    BY <2>1, <2>2, <2>3, UnlinkKeepsShape DEF PoolOK
  <2>5. \A m \in DOMAIN node' : node'[m].allocated_bytes \in Sizes \cup {0}
    <3>1. \A m \in DOMAIN node : node[m].allocated_bytes \in Sizes \cup {0}
      BY <2>1 DEF PoolOK
    <3> QED BY <3>1, <2>2, <2>3, RecordedBytes
  <2> QED BY <2>1, <2>4, <2>5, StepIInv
<1>2. CASE free_result(node, ptr) # OK
  BY <1>2, UnchangedIInv DEF free_ext
<1> QED BY <1>1, <1>2

LEMMA FreeIInv ==
  ASSUME IInv, NEW ptr, free(ptr)
  PROVE  IInv'
<1>1. CASE free_ext(ptr)
  BY <1>1, FreeExtIInv
<1>2. CASE ~free_ext(ptr)
  BY <1>2, UnchangedIInv DEF free
<1> QED BY <1>1, <1>2

LEMMA NextIInv ==
  ASSUME PoolsFit, IInv, [Next]_vars
  PROVE  IInv'
<1>1. ASSUME NEW p \in Pools, init(p) PROVE IInv'
  BY <1>1, InitPoolIInv
<1>2. ASSUME NEW size \in Sizes, malloc(size) PROVE IInv'
  BY <1>2, MallocIInv
<1>3. ASSUME NEW ptr, NEW size \in Sizes, realloc(ptr, size) PROVE IInv'
  BY <1>3, ReallocIInv
<1>4. ASSUME NEW ptr, free_ext(ptr) PROVE IInv'
  BY <1>4, FreeExtIInv
<1>5. ASSUME NEW ptr, free(ptr) PROVE IInv'
  BY <1>5, FreeIInv
<1>6. CASE UNCHANGED vars
  BY <1>6, UnchangedIInv DEF vars
<1> QED BY <1>1, <1>2, <1>3, <1>4, <1>5, <1>6 DEF Next

LEMMA Invariance ==
  ASSUME PoolsFit
  PROVE  Spec => []IInv
<1>1. Init => IInv
  BY InitIInv
<1>2. IInv /\ [Next]_vars => IInv'
  BY NextIInv
<1> QED BY <1>1, <1>2, PTL DEF Spec

-----------------------------------------------------------------------------
(* The theorems.                                                           *)

(* No sequence of malloc, realloc and free, whatever the requested sizes   *)
(* (zero and wrapping ones included), lets two live regions of the pool    *)
(* overlap or leave the pool.                                              *)
THEOREM RegionsNeverOverlap ==
  ASSUME PoolsFit
  PROVE  Spec => []RegionsDisjoint
<1>1. IInv => RegionsDisjoint
  <2> SUFFICES ASSUME IInv, g_pool # NULL, NEW n \in DOMAIN node
               PROVE  /\ 0 <= n /\ data_end(node, n) <= g_pool.blocks
                      /\ \A m \in DOMAIN node \ {n} : Span(m) \cap Span(n) = {}
    BY DEF RegionsDisjoint
  <2>1. WellFormed(node, g_pool.blocks) /\ g_pool.blocks \in Nat /\ DOMAIN node \subseteq Nat
    BY DEF IInv, PoolOK, WellFormed
  <2>2. 0 <= n /\ data_end(node, n) <= g_pool.blocks
    BY <2>1 DEF WellFormed, NextOK
  <2>3. \A a, b \in DOMAIN node : a < b => data_end(node, a) <= b
    <3> SUFFICES ASSUME NEW a \in DOMAIN node, NEW b \in DOMAIN node, a < b
                 PROVE  data_end(node, a) <= b
      OBVIOUS
    <3>1. node[a].node_next # NULL /\ node[a].node_next <= b
      BY <2>1 DEF WellFormed, Adjacent
    <3>2. data_end(node, a) <= node[a].node_next
      BY <3>1, <2>1 DEF WellFormed, NextOK
    <3>3. data_end(node, a) \in Nat /\ node[a].node_next \in Nat
      BY <3>1, <2>1, EndInside
    <3> QED BY <3>1, <3>2, <3>3, <2>1
  <2>4. ASSUME NEW m \in DOMAIN node \ {n} PROVE Span(m) \cap Span(n) = {}
    <3>1. data_end(node, m) \in Nat /\ data_end(node, n) \in Nat
      BY <2>1, EndInside
    <3>2. data_end(node, m) <= n \/ data_end(node, n) <= m
      BY <2>1, <2>3
    <3> QED BY <3>1, <3>2, <2>1 DEF Span
  <2> QED BY <2>2, <2>4
<1> QED BY <1>1, Invariance, PTL

(* Every walk over the list visits all live headers, upwards, and the      *)
(* links are mutually consistent: no header is lost or visited twice.      *)
THEOREM ListStaysComplete ==
  ASSUME PoolsFit
  PROVE  Spec => []ListIsComplete
<1>1. IInv => ListIsComplete
  <2> SUFFICES ASSUME IInv, g_pool # NULL
               PROVE  /\ NodeList(node) = Live
                      /\ \A n \in DOMAIN node : node[n].node_next # NULL => node[n].node_next > n
                      /\ \A n \in Live : node[node[n].node_prev].node_next = n
    BY DEF ListIsComplete
  <2>1. WellFormed(node, g_pool.blocks) /\ g_pool.blocks \in Nat /\ DOMAIN node \subseteq Nat
    BY DEF IInv, PoolOK, WellFormed
  <2>2. NodeList(node) = Live
    BY <2>1, ListIsLive DEF Live
  <2>3. \A n \in DOMAIN node : node[n].node_next # NULL => node[n].node_next > n
    BY <2>1, EndInside
  <2>4. \A n \in Live : node[node[n].node_prev].node_next = n
    BY <2>1 DEF Live, WellFormed, PrevOK
  <2> QED BY <2>2, <2>3, <2>4
<1> QED BY <1>1, Invariance, PTL

(* The part of TypeOK that is not about the list. *)
HeldTyped ==
  /\ DOMAIN held \subseteq Int
  /\ held \in [DOMAIN held -> Sizes]
  /\ inits \in 0 .. MaxInits

LEMMA HoldDropTyped ==
  ASSUME NEW h, DOMAIN h \subseteq Int, h \in [DOMAIN h -> Sizes]
  PROVE  /\ \A ptr \in Int, size \in Sizes :
              LET g == Hold(h, ptr, size)
              IN  DOMAIN g \subseteq Int /\ g \in [DOMAIN g -> Sizes]
         /\ \A ptr : LET g == Drop(h, ptr)
                     IN  DOMAIN g \subseteq Int /\ g \in [DOMAIN g -> Sizes]
<1>1. ASSUME NEW ptr \in Int, NEW size \in Sizes
      PROVE  /\ DOMAIN Hold(h, ptr, size) \subseteq Int
             /\ Hold(h, ptr, size) \in [DOMAIN Hold(h, ptr, size) -> Sizes]
  BY DEF Hold
<1>2. ASSUME NEW ptr
      PROVE  /\ DOMAIN Drop(h, ptr) \subseteq Int
             /\ Drop(h, ptr) \in [DOMAIN Drop(h, ptr) -> Sizes]
  BY DEF Drop
<1> QED BY <1>1, <1>2

LEMMA NextHeldTyped ==
  ASSUME IInv, HeldTyped, [Next]_vars
  PROVE  HeldTyped'
<1> USE DEF HeldTyped
<1>1. ASSUME NEW p \in Pools, init(p) PROVE HeldTyped'
  BY <1>1, MemoryAssumption DEF init
<1>2. ASSUME NEW size \in Sizes, malloc(size) PROVE HeldTyped'
  <2>1. CASE malloc_fails(size)
    BY <1>2, <2>1 DEF malloc, malloc_fails
  <2>2. CASE malloc_succeeds(size)
    <3>1. PICK n \in first_fit(node, size) :
            held' = Hold(held, data_begin(data_end(node, n)), size)
      BY <2>2 DEF malloc_succeeds
    <3>2. data_end(node, n) \in Nat
      BY <2>2, SizesAreNat, FirstFitHasRoom DEF malloc_succeeds, IInv
    <3>3. data_begin(data_end(node, n)) \in Int
      BY <3>2 DEF data_begin
    <3>4. inits' = inits
      BY <1>2 DEF malloc
    <3> QED BY <3>1, <3>3, <3>4, HoldDropTyped
  <2> QED BY <1>2, <2>1, <2>2 DEF malloc
<1>3. ASSUME NEW ptr, NEW size \in Sizes, realloc(ptr, size), ptr # NULL PROVE HeldTyped'
  <2>0. inits' = inits /\ size \in Nat
    BY <1>3, SizesAreNat DEF realloc
  <2>1. CASE held' = held
    BY <2>0, <2>1
  <2>2. CASE \E result \in Int : held' = Hold(Drop(held, ptr), result, size)
    <3>1. PICK result \in Int : held' = Hold(Drop(held, ptr), result, size)
      BY <2>2
    <3> DEFINE d == Drop(held, ptr)
    <3>2. DOMAIN d \subseteq Int /\ d \in [DOMAIN d -> Sizes]
      BY HoldDropTyped
    <3> HIDE DEF d
    <3>3. DOMAIN Hold(d, result, size) \subseteq Int
          /\ Hold(d, result, size) \in [DOMAIN Hold(d, result, size) -> Sizes]
      BY <3>2, HoldDropTyped
    <3> QED BY <2>0, <3>1, <3>3 DEF d
  <2>3. CASE realloc_in_place(ptr, size)
    <3> DEFINE old == associated_node(ptr)
               new == data_end(node, node[old].node_prev)
    <3>1. g_pool # NULL /\ PoolOK /\ WellFormed(node, g_pool.blocks) /\ g_pool.blocks \in Nat
      BY <2>3 DEF realloc_in_place, IInv, PoolOK
    <3>2. old \in DOMAIN node \ {0}
      BY <2>3, <3>1, ListIsLive DEF realloc_in_place, is_existing_memory_node
    <3>3. node[old].node_prev \in DOMAIN node
      BY <3>1, <3>2 DEF WellFormed, PrevOK
    <3>4. new \in Nat
      BY <3>1, <3>3, EndInside
    <3>5. data_begin(new) \in Int
      BY <3>4 DEF data_begin
    <3>6. held' = Hold(Drop(held, ptr), data_begin(new), size)
      BY <2>3 DEF realloc_in_place
    <3> QED BY <2>2, <3>5, <3>6
  <2>4. CASE realloc_moves(ptr, size)
    <3>1. PICK n \in first_fit(node, size) :
            held' = Hold(Drop(held, ptr), data_begin(data_end(node, n)), size)
      BY <2>4 DEF realloc_moves
    <3>2. data_end(node, n) \in Nat
      BY <2>0, <2>4, FirstFitHasRoom DEF realloc_moves, IInv
    <3>3. data_begin(data_end(node, n)) \in Int
      BY <3>2 DEF data_begin
    <3> QED BY <2>2, <3>1, <3>3
  <2> QED BY <1>3, <2>1, <2>3, <2>4 DEF realloc, realloc_unknown, realloc_fails
<1>4. ASSUME NEW ptr, free_ext(ptr) PROVE HeldTyped'
  BY <1>4, HoldDropTyped DEF free_ext
<1>5. ASSUME NEW ptr, free(ptr) PROVE HeldTyped'
  BY <1>4, <1>5 DEF free
<1>6. CASE UNCHANGED vars
  BY <1>6 DEF vars
<1>7. ASSUME NEW ptr, NEW size \in Sizes, realloc(ptr, size) PROVE HeldTyped'
  BY <1>2, <1>3, <1>7 DEF realloc
<1> QED BY <1>1, <1>2, <1>4, <1>5, <1>6, <1>7 DEF Next

(* Type correctness; in particular every recorded size was requested and   *)
(* every pointer handed out is a block address.                            *)
THEOREM TypeCorrect ==
  ASSUME PoolsFit
  PROVE  Spec => []TypeOK
<1>1. Init => HeldTyped
  BY MemoryAssumption DEF Init, HeldTyped, EmptyFn
<1>2. IInv /\ HeldTyped /\ [Next]_vars => HeldTyped'
  BY NextHeldTyped
<1>3. IInv /\ HeldTyped => TypeOK
  <2> SUFFICES ASSUME IInv, HeldTyped PROVE TypeOK
    OBVIOUS
  <2>1. CASE g_pool = NULL
    <3>1. node = EmptyFn
      BY <2>1 DEF IInv
    <3> QED BY <2>1, <3>1 DEF HeldTyped, TypeOK, EmptyFn
  <2>2. CASE g_pool # NULL
    <3>1. PoolOK
      BY <2>2 DEF IInv
    <3>2. DOMAIN node \subseteq Int /\ node = [n \in DOMAIN node |-> node[n]]
          /\ 0 \in DOMAIN node
      BY <3>1 DEF PoolOK, WellFormed
    <3>3. ASSUME NEW n \in DOMAIN node PROVE node[n] \in ChunkType
      <4>1. node[n] \in [node_next : Int \cup {NULL}, node_prev : Int \cup {NULL},
                         allocated_bytes : Nat]
        BY <3>1 DEF PoolOK, WellFormed, HeadersTyped
      <4>2. node[n].allocated_bytes \in Sizes \cup {0}
        BY <3>1 DEF PoolOK
      <4> QED BY <4>1, <4>2 DEF ChunkType
    <3>4. node \in [DOMAIN node -> ChunkType]
      BY <3>2, <3>3
    <3>5. g_pool \in [blocks : Int, tail : BOOLEAN]
      BY <3>1 DEF PoolOK
    <3>6. node # EmptyFn
      BY <3>2 DEF EmptyFn
    <3> QED BY <2>2, <3>2, <3>4, <3>5, <3>6 DEF HeldTyped, TypeOK
  <2> QED BY <2>1, <2>2
<1> QED BY <1>1, <1>2, <1>3, Invariance, PTL DEF Spec
=============================================================================
