--------------------------- MODULE ContentsProofs ---------------------------
(***************************************************************************)
(* Proof that the bytes of a block survive every call, the slides and      *)
(* moves of realloc included, for all pools that fit (PoolsFit) and all    *)
(* sizes that need a block of data and whose block counts do not wrap.     *)
(***************************************************************************)
EXTENDS MemoryContents, HeapProofs

-----------------------------------------------------------------------------
(* Bytes and blocks.                                                       *)

(* The block in which a byte lies.                                         *)
LEMMA BlockOfByte ==
  ASSUME NEW b \in Int
  PROVE  b \div Chunk \in Int /\ Chunk * (b \div Chunk) <= b
         /\ b < Chunk * (b \div Chunk) + Chunk
BY MemoryAssumption

(* The block of the byte with number i of the block at ptr.                *)
LEMMA ByteAbove ==
  ASSUME NEW ptr \in Int, NEW i \in Nat
  PROVE  Chunk * ptr + i \in Int /\ (Chunk * ptr + i) \div Chunk >= ptr
<1> DEFINE b == Chunk * ptr + i
           k == b \div Chunk
<1>1. Chunk \in Nat \ {0} /\ Chunk * ptr \in Int /\ b \in Int /\ b >= Chunk * ptr
  BY MemoryAssumption
<1>2. k \in Int /\ b < Chunk * k + Chunk /\ Chunk * k \in Int
  BY <1>1, BlockOfByte
<1> HIDE DEF k
<1>3. ASSUME k < ptr PROVE FALSE
  <2>1. Chunk * (k + 1) <= Chunk * ptr
    BY <1>2, <1>3, ScaledOrder
  <2>2. Chunk * (k + 1) = Chunk * k + Chunk
    BY <1>1, <1>2
  <2> HIDE DEF b
  <2> QED BY <1>1, <1>2, <2>1, <2>2
<1> QED BY <1>1, <1>2, <1>3 DEF k

(* No byte of a block is in the header of a block.                         *)
HeadersApart(hd) ==
  \A p, q \in DOMAIN hd : \A i \in 0 .. hd[q] - 1 :
    (Chunk * q + i) \div Chunk # associated_node(p)

(* The headers of a well-formed list are outside the data of all blocks.   *)
LEMMA ListedHeadersApart ==
  ASSUME SizesDoNotWrap, NEW blocks \in Nat, NEW h, WellFormed(h, blocks),
         NEW hd, Lists(h, hd)
  PROVE  HeadersApart(hd)
<1> SUFFICES ASSUME NEW p \in DOMAIN hd, NEW q \in DOMAIN hd, NEW i \in 0 .. hd[q] - 1,
                    (Chunk * q + i) \div Chunk = associated_node(p)
             PROVE  FALSE
  BY DEF HeadersApart
<1> DEFINE n == associated_node(p)
           m == associated_node(q)
           b == Chunk * q + i
<1>1. /\ p \in Int /\ q \in Int /\ n \in DOMAIN h /\ m \in DOMAIN h
      /\ n \in Nat /\ m \in Nat /\ n = p - 1 /\ m = q - 1
      /\ hd[q] \in Sizes /\ hd[q] = h[m].allocated_bytes
  BY DEF Lists, WellFormed, associated_node
<1>2. hd[q] \in Nat /\ hd[q] + Chunk - 1 < SizeMod /\ i \in Nat /\ i < hd[q]
  <2>1. hd[q] \in Nat
    BY <1>1, SizesAreNat
  <2>2. hd[q] + Chunk - 1 < SizeMod
    BY <1>1 DEF SizesDoNotWrap
  <2>3. i \in 0 .. hd[q] - 1
    OBVIOUS
  <2> HIDE DEF m, n, b
  <2> QED BY <2>1, <2>2, <2>3
<1>3. b \in Int /\ q <= n
  BY <1>1, <1>2, ByteAbove
<1>4. data_end(h, m) <= n /\ data_end(h, m) \in Nat
  <2>1. m < n
    BY <1>1, <1>3
  <2>2. h[m].node_next # NULL /\ h[m].node_next <= n
    BY <1>1, <2>1 DEF WellFormed, Adjacent
  <2>3. data_end(h, m) <= h[m].node_next /\ h[m].node_next \in Nat /\ data_end(h, m) \in Nat
    BY <1>1, <2>2, EndInside DEF WellFormed, NextOK
  <2> QED BY <1>1, <2>2, <2>3
<1>5. data_end(h, m) = q + (count_needed_blocks(hd[q]) - 1)
      /\ count_needed_blocks(hd[q]) \in Nat
  BY <1>1, <1>2, CountType DEF data_end
<1>6. b < Chunk * data_end(h, m) /\ Chunk * data_end(h, m) \in Int
  <2> DEFINE k == count_needed_blocks(hd[q]) - 1
  <2>1. k \in Int /\ hd[q] <= Chunk * k /\ data_end(h, m) = q + k
    BY <1>2, <1>5, RoundedUp
  <2> HIDE DEF k
  <2>2. Chunk * (q + k) = Chunk * q + Chunk * k /\ Chunk * q \in Int /\ Chunk * k \in Int
    BY <1>1, <2>1, MemoryAssumption
  <2> QED BY <1>2, <2>1, <2>2
<1>7. Chunk * n <= b /\ Chunk * n \in Int
  BY <1>1, <1>3, BlockOfByte, MemoryAssumption
<1>8. Chunk * data_end(h, m) <= Chunk * n
  BY <1>1, <1>4, ScaledOrder
<1> HIDE DEF b, n, m
<1> QED BY <1>3, <1>6, <1>7, <1>8

-----------------------------------------------------------------------------
(* What the changes of the bytes do to blocks that are kept.               *)

(* The bytes c hold what the program wrote into its blocks hd.             *)
Kept(c, hd) ==
  \A p \in DOMAIN hd : \A i \in 0 .. hd[p] - 1 : c[Chunk * p + i] = <<p, i>>

(* The blocks hd lie in the bytes c, apart from each other.                *)
Laid(c, hd) ==
  /\ DOMAIN hd \subseteq Int /\ \A p \in DOMAIN hd : hd[p] \in Nat
  /\ HeadersApart(hd)
  /\ \A p \in DOMAIN hd : \A i \in 0 .. hd[p] - 1 :
       /\ Chunk * p + i \in Int /\ Chunk * p + i \in DOMAIN c
       /\ \A q \in DOMAIN hd \ {p} : Chunk * p + i \notin bytes_of(q, 0, hd[q])

(* The blocks of a well-formed list lie apart in the bytes of the pool.    *)
LEMMA ListedAreLaid ==
  ASSUME SizesDoNotWrap, NEW blocks \in Nat, NEW h, WellFormed(h, blocks),
         NEW hd, Lists(h, hd), NEW c, DOMAIN c = 0 .. Chunk * blocks - 1
  PROVE  Laid(c, hd)
<1>1. Separate(hd, blocks) /\ HeadersApart(hd)
  BY ListedAreSeparate, ListedHeadersApart
<1>2. DOMAIN hd \subseteq Int /\ \A p \in DOMAIN hd : hd[p] \in Nat
  BY SizesAreNat DEF Lists
<1>3. Chunk * blocks \in Int
  BY MemoryAssumption
<1>4. ASSUME NEW p \in DOMAIN hd, NEW i \in 0 .. hd[p] - 1
      PROVE  /\ Chunk * p + i \in Int /\ Chunk * p + i \in DOMAIN c
             /\ \A q \in DOMAIN hd \ {p} : Chunk * p + i \notin bytes_of(q, 0, hd[q])
  <2>1. p \in Int /\ p >= 1 /\ hd[p] \in Nat /\ Chunk * p + hd[p] <= Chunk * blocks
    BY <1>1, <1>2 DEF Separate
  <2>2. Chunk * p \in Int /\ Chunk * p >= 0
    BY <2>1, MemoryAssumption
  <2>3. Chunk * p + i \in Int /\ Chunk * p + i \in DOMAIN c
    BY <1>3, <2>1, <2>2
  <2>4. Chunk * p + i \in Bytes(p, hd[p])
    BY <2>1, <2>2 DEF Bytes
  <2>5. ASSUME NEW q \in DOMAIN hd \ {p} PROVE Chunk * p + i \notin bytes_of(q, 0, hd[q])
    <3>1. Bytes(q, hd[q]) \cap Bytes(p, hd[p]) = {}
      BY <1>1 DEF Separate
    <3>2. q \in Int /\ Chunk * q \in Int
      BY <1>2, MemoryAssumption
    <3>3. bytes_of(q, 0, hd[q]) = Bytes(q, hd[q])
      BY <3>2 DEF bytes_of, Bytes
    <3> QED BY <2>4, <3>1, <3>3
  <2> QED BY <2>3, <2>5
<1> QED BY <1>1, <1>2, <1>4 DEF Laid

(* The byte with number i of the block at ptr, and its place.              *)
LEMMA ByteOf ==
  ASSUME NEW ptr \in Int, NEW from \in Int, NEW to \in Int, NEW i \in Int
  PROVE  /\ Chunk * ptr + i \in Int /\ (Chunk * ptr + i) - Chunk * ptr = i
         /\ Chunk * ptr + i \in bytes_of(ptr, from, to) <=> from <= i /\ i < to
<1> DEFINE x == Chunk * ptr
<1>1. x \in Int
  BY MemoryAssumption
<1>2. bytes_of(ptr, from, to) = x + from .. x + to - 1
  BY DEF bytes_of
<1> HIDE DEF x
<1>3. x + i \in bytes_of(ptr, from, to) <=> from <= i /\ i < to
  BY <1>1, <1>2
<1>4. x + i \in Int /\ (x + i) - x = i
  BY <1>1
<1> QED BY <1>3, <1>4 DEF x

(* A program fills a block it was given: that block holds what it wrote,   *)
(* and the new header and the new bytes are outside all others.            *)
LEMMA FilledAreKept ==
  ASSUME NEW c, NEW hd, Kept(c, hd), NEW ptr \in Int, NEW size \in Nat,
         Laid(c, Hold(hd, ptr, size))
  PROVE  Kept(fill(write_header(c, associated_node(ptr)), ptr, 0, size), Hold(hd, ptr, size))
<1> DEFINE gd == Hold(hd, ptr, size)
           c1 == write_header(c, associated_node(ptr))
           c2 == fill(c1, ptr, 0, size)
<1> SUFFICES ASSUME NEW p \in DOMAIN gd, NEW i \in 0 .. gd[p] - 1
             PROVE  c2[Chunk * p + i] = <<p, i>>
  BY DEF Kept
<1> DEFINE b == Chunk * p + i
<1>1. /\ DOMAIN gd = DOMAIN hd \cup {ptr} /\ gd[ptr] = size
      /\ \A q \in DOMAIN hd \ {ptr} : gd[q] = hd[q]
  BY DEF Hold
<1> HIDE DEF gd
<1>2. b \in Int /\ b \in DOMAIN c /\ p \in Int /\ gd[p] \in Nat
  BY DEF Laid, gd
<1>3. i \in Int /\ 0 <= i /\ i < gd[p]
  BY <1>2
<1>4. c1[b] = (IF b \div Chunk = associated_node(ptr) THEN Indeterminate ELSE c[b])
      /\ DOMAIN c1 = DOMAIN c
  BY <1>2 DEF write_header
<1>5. c2[b] = IF b \in bytes_of(ptr, 0, size) THEN <<ptr, b - Chunk * ptr>> ELSE c1[b]
  BY <1>2, <1>4 DEF fill
<1>6. CASE p = ptr
  <2>1. b \in bytes_of(ptr, 0, size)
    BY <1>1, <1>3, <1>6, ByteOf
  <2>2. b - Chunk * ptr = i
    BY <1>3, <1>6, ByteOf
  <2> HIDE DEF b, c2
  <2>3. c2[b] = <<p, i>>
    BY <1>5, <1>6, <2>1, <2>2
  <2> QED BY <2>3 DEF b
<1>7. CASE p # ptr
  <2>1. p \in DOMAIN hd /\ gd[p] = hd[p] /\ ptr \in DOMAIN gd
    BY <1>1, <1>7
  <2>2. b \notin bytes_of(ptr, 0, size)
    BY <1>1, <1>7, <2>1 DEF Laid, gd
  <2>3. b \div Chunk # associated_node(ptr)
    BY <2>1 DEF Laid, HeadersApart, gd
  <2>4. c[b] = <<p, i>>
    BY <2>1 DEF Kept
  <2> HIDE DEF b, c2, c1
  <2>5. c2[b] = <<p, i>>
    BY <1>4, <1>5, <2>2, <2>3, <2>4
  <2> QED BY <2>5 DEF b
<1> QED BY <1>6, <1>7

(* What is in held blocks stays when all other bytes are given up.         *)
LEMMA SettledAreKept ==
  ASSUME NEW c, NEW hd, Kept(c, hd), Laid(c, hd)
  PROVE  Kept(settle(c, hd), hd)
<1> SUFFICES ASSUME NEW p \in DOMAIN hd, NEW i \in 0 .. hd[p] - 1
             PROVE  settle(c, hd)[Chunk * p + i] = <<p, i>>
  BY DEF Kept
<1> DEFINE b == Chunk * p + i
<1>1. b \in Int /\ b \in DOMAIN c /\ p \in Int /\ hd[p] \in Nat
  BY DEF Laid
<1>2. b \in bytes_of(p, 0, hd[p])
  <2>1. i \in Int /\ 0 <= i /\ i < hd[p]
    BY <1>1
  <2> QED BY <1>1, <2>1, ByteOf
<1>3. settle(c, hd)[b] = c[b]
  BY <1>1, <1>2 DEF settle
<1> QED BY <1>3 DEF Kept

(* A block that is taken away takes no byte of another one with it.        *)
LEMMA DroppedAreKept ==
  ASSUME NEW c, NEW hd, Kept(c, hd), Laid(c, hd), NEW ptr
  PROVE  Kept(c, Drop(hd, ptr)) /\ Laid(c, Drop(hd, ptr))
<1> DEFINE gd == Drop(hd, ptr)
<1>1. DOMAIN gd \subseteq DOMAIN hd /\ \A p \in DOMAIN gd : gd[p] = hd[p]
  BY DEF Drop
<1> HIDE DEF gd
<1>2. Kept(c, gd)
  BY <1>1 DEF Kept
<1>3. HeadersApart(gd)
  BY <1>1 DEF Laid, HeadersApart
<1>4. Laid(c, gd)
  BY <1>1, <1>3 DEF Laid
<1> QED BY <1>2, <1>4 DEF gd

(* The header at new is written over no byte of the block at ptr.          *)
Spared(ptr, size, new) ==
  \A i \in 0 .. size - 1 : (Chunk * ptr + i) \div Chunk # associated_node(new)

(* realloc writes the header of the new place, carries the data over and   *)
(* the program fills the rest, when the old data are not where the new     *)
(* header goes.                                                            *)
LEMMA CarriedAreKept ==
  ASSUME NEW c, NEW hd, Kept(c, hd), NEW ptr \in DOMAIN hd, Laid(c, hd),
         NEW new \in Int, NEW size \in Nat, NEW count \in Nat,
         count <= size, count <= hd[ptr],
         Laid(c, Hold(Drop(hd, ptr), new, size)),
         Spared(ptr, hd[ptr], new)
  PROVE  Kept(fill(rename(memmove(write_header(c, associated_node(new)), new, ptr, count),
                          ptr, new),
                   new, count, size),
              Hold(Drop(hd, ptr), new, size))
<1> DEFINE gd == Hold(Drop(hd, ptr), new, size)
           c1 == write_header(c, associated_node(new))
           c2 == memmove(c1, new, ptr, count)
           c3 == rename(c2, ptr, new)
           c4 == fill(c3, new, count, size)
<1>0. \A i, from, to \in Int :
        /\ (Chunk * new + i) - Chunk * new = i
        /\ Chunk * new + i \in bytes_of(new, from, to) <=> from <= i /\ i < to
  BY ByteOf
<1> SUFFICES ASSUME NEW p \in DOMAIN gd, NEW i \in 0 .. gd[p] - 1
             PROVE  c4[Chunk * p + i] = <<p, i>>
  BY DEF Kept
<1> DEFINE b == Chunk * p + i
<1>1. /\ DOMAIN gd = (DOMAIN hd \ {ptr}) \cup {new} /\ gd[new] = size
      /\ \A q \in DOMAIN hd \ {ptr} : q # new => gd[q] = hd[q]
  BY DEF Hold, Drop
<1> HIDE DEF gd
<1>2. b \in Int /\ b \in DOMAIN c /\ p \in Int /\ gd[p] \in Nat /\ ptr \in Int /\ hd[ptr] \in Nat
  BY DEF Laid, gd
<1>3. i \in Int /\ 0 <= i /\ i < gd[p]
  BY <1>2
<1>4. /\ DOMAIN c1 = DOMAIN c /\ DOMAIN c2 = DOMAIN c /\ DOMAIN c3 = DOMAIN c
      /\ \A x \in DOMAIN c :
           c1[x] = IF x \div Chunk = associated_node(new) THEN Indeterminate ELSE c[x]
  BY DEF write_header, memmove, rename
<1>5. c2[b] = IF b \in bytes_of(new, 0, count) THEN c1[b + Chunk * (ptr - new)] ELSE c1[b]
  BY <1>2, <1>4 DEF memmove
<1>6. c3[b] = IF c2[b] # Indeterminate /\ c2[b][1] = ptr THEN <<new, c2[b][2]>> ELSE c2[b]
  BY <1>2, <1>4 DEF rename
<1>7. c4[b] = IF b \in bytes_of(new, count, size) THEN <<new, b - Chunk * new>> ELSE c3[b]
  BY <1>2, <1>4 DEF fill
<1> HIDE DEF c1, c2, c3, c4
<1>8. CASE p = new /\ count <= i
  <2>1. b \in bytes_of(new, count, size) /\ b - Chunk * new = i
    BY <1>0, <1>1, <1>3, <1>8
  <2> HIDE DEF b
  <2>2. c4[b] = <<p, i>>
    BY <1>7, <1>8, <2>1
  <2> QED BY <2>2 DEF b
<1>9. CASE p = new /\ i < count
  <2> DEFINE s == Chunk * ptr + i
  <2>1. b \in bytes_of(new, 0, count) /\ b \notin bytes_of(new, count, size)
    <3>1. 0 \in Int /\ count \in Int /\ ~(count <= i) /\ 0 <= i /\ i < count
      BY <1>3, <1>9
    <3> QED BY <1>0, <1>3, <1>9, <3>1
  <2>2. i \in 0 .. hd[ptr] - 1
    BY <1>2, <1>3, <1>9
  <2>3. s \in DOMAIN c /\ c[s] = <<ptr, i>> /\ s \div Chunk # associated_node(new)
    BY <2>2 DEF Laid, Kept, Spared
  <2>4. b + Chunk * (ptr - new) = s
    <3>1. /\ Chunk * (ptr - new) = Chunk * ptr - Chunk * new
          /\ Chunk * ptr \in Int /\ Chunk * new \in Int
      BY <1>2, MemoryAssumption
    <3> QED BY <1>3, <1>9, <3>1
  <2> HIDE DEF b, s
  <2>5. c2[b] = <<ptr, i>>
    BY <1>4, <1>5, <2>1, <2>3, <2>4
  <2>6. c2[b] # Indeterminate /\ c2[b][1] = ptr /\ c2[b][2] = i
    BY <1>2, <1>3, <2>5, ContentsAssumption
  <2>7. c4[b] = <<p, i>>
    BY <1>6, <1>7, <1>9, <2>1, <2>6
  <2> QED BY <2>7 DEF b
<1>10. CASE p # new
  <2>1. p \in DOMAIN hd /\ p # ptr /\ gd[p] = hd[p] /\ new \in DOMAIN gd
    BY <1>1, <1>10
  <2>2. b \notin bytes_of(new, 0, size)
    BY <1>1, <1>10, <2>1 DEF Laid, gd
  <2>3. b \notin bytes_of(new, 0, count) /\ b \notin bytes_of(new, count, size)
    <3> DEFINE x == Chunk * new
    <3>1. x \in Int
      BY MemoryAssumption
    <3>2. /\ bytes_of(new, 0, size) = x + 0 .. x + size - 1
          /\ bytes_of(new, 0, count) = x + 0 .. x + count - 1
          /\ bytes_of(new, count, size) = x + count .. x + size - 1
      BY DEF bytes_of
    <3> HIDE DEF x, b
    <3> QED BY <1>2, <2>2, <3>1, <3>2
  <2>4. b \div Chunk # associated_node(new)
    BY <2>1 DEF Laid, HeadersApart, gd
  <2>5. c[b] = <<p, i>>
    BY <2>1 DEF Kept
  <2> HIDE DEF b
  <2>6. c2[b] = <<p, i>>
    BY <1>2, <1>4, <1>5, <2>3, <2>4, <2>5
  <2>7. c4[b] = <<p, i>>
    BY <1>6, <1>7, <2>1, <2>3, <2>6
  <2> QED BY <2>7 DEF b
<1> QED BY <1>2, <1>3, <1>8, <1>9, <1>10

-----------------------------------------------------------------------------
(* The calls.                                                              *)

(* The bytes are those of the pool.                                        *)
CellOK == g_pool # NULL => DOMAIN cell = 0 .. Chunk * g_pool.blocks - 1

(* The blocks that are held before or after a call that leaves the pool    *)
(* where it is.                                                            *)
LEMMA HeldAreLaid ==
  ASSUME SizesDoNotWrap, CellOK, g_pool # NULL, UNCHANGED g_pool
  PROVE  /\ IInv /\ HeldLists => Laid(cell, held)
         /\ IInv' /\ HeldLists' => Laid(cell, held')
<1>1. DOMAIN cell = 0 .. Chunk * g_pool.blocks - 1
  BY DEF CellOK
<1>2. ASSUME IInv, HeldLists PROVE Laid(cell, held)
  BY <1>1, <1>2, ListedAreLaid DEF IInv, PoolOK, HeldLists
<1>3. ASSUME IInv', HeldLists' PROVE Laid(cell, held')
  <2>1. WellFormed(node', g_pool.blocks) /\ g_pool.blocks \in Nat /\ Lists(node', held')
    BY <1>3 DEF IInv, PoolOK, HeldLists
  <2> QED BY <1>1, <2>1, ListedAreLaid
<1> QED BY <1>2, <1>3

(* Without a pool nothing is held.                                         *)
LEMMA NothingHeld ==
  /\ IInv /\ HeldLists /\ g_pool = NULL => DOMAIN held = {}
  /\ IInv' /\ HeldLists' /\ g_pool' = NULL => DOMAIN held' = {}
<1>1. ASSUME IInv, HeldLists, g_pool = NULL PROVE DOMAIN held = {}
  BY <1>1 DEF IInv, HeldLists, Lists, EmptyFn
<1>2. ASSUME IInv', HeldLists', g_pool' = NULL PROVE DOMAIN held' = {}
  BY <1>2 DEF IInv, HeldLists, Lists, EmptyFn
<1> QED BY <1>1, <1>2

(* The functions on the bytes leave their places alone.                    *)
LEMMA PlacesStay ==
  \A c : /\ \A n : DOMAIN write_header(c, n) = DOMAIN c
         /\ \A dst, src, count : DOMAIN memmove(c, dst, src, count) = DOMAIN c
         /\ \A ptr, from, to : DOMAIN fill(c, ptr, from, to) = DOMAIN c
         /\ \A old, new : DOMAIN rename(c, old, new) = DOMAIN c
         /\ \A hd : DOMAIN settle(c, hd) = DOMAIN c
BY DEF write_header, memmove, fill, rename, settle

(* A call that changes no place of a byte leaves the bytes of the pool.    *)
LEMMA BytesStay ==
  ASSUME CellOK, UNCHANGED g_pool, DOMAIN cell' = DOMAIN cell
  PROVE  CellOK'
BY DEF CellOK

(* What the steps below assume of the states before and after a call.      *)
Around == SizesDoNotWrap /\ IInv /\ HeldLists /\ IInv' /\ HeldLists' /\ CellOK

(* malloc writes a header and the program fills the block.                 *)
LEMMA MallocKeeps ==
  ASSUME Around, Kept(cell, held), NEW size \in Sizes, malloc(size),
         cell' = obtained(last'.ret, size)
  PROVE  Kept(cell', held') /\ CellOK'
<1>1. UNCHANGED g_pool
  BY DEF malloc
<1>2. DOMAIN cell' = DOMAIN cell
  BY PlacesStay DEF obtained
<1>3. CellOK'
  BY <1>1, <1>2, BytesStay DEF Around
<1>4. CASE malloc_fails(size)
  <2>1. last'.ret = NULL /\ held' = held
    BY <1>4 DEF malloc_fails, Return
  <2>2. cell' = cell
    BY <2>1 DEF obtained
  <2> QED BY <1>3, <2>1, <2>2
<1>5. CASE malloc_succeeds(size)
  <2>1. PICK n \in first_fit(node, size) :
          /\ held' = Hold(held, data_begin(data_end(node, n)), size)
          /\ last'.ret = data_begin(data_end(node, n))
    BY <1>5 DEF malloc_succeeds, Return
  <2> DEFINE ptr == data_begin(data_end(node, n))
  <2>2. g_pool # NULL /\ PoolOK /\ size \in Nat
    BY <1>5, SizesAreNat DEF malloc_succeeds, Around, IInv
  <2>3. ptr \in Int
    BY <2>2, PlaceIsFresh DEF data_begin
  <2>4. ptr # NULL
    BY <2>3, MemoryAssumption
  <2> HIDE DEF ptr
  <2>5. held' = Hold(held, ptr, size) /\ last'.ret = ptr
    BY <2>1 DEF ptr
  <2>6. cell' = fill(write_header(cell, associated_node(ptr)), ptr, 0, size)
    BY <2>4, <2>5 DEF obtained
  <2>7. Laid(cell, Hold(held, ptr, size))
    BY <1>1, <2>2, <2>5, HeldAreLaid DEF Around
  <2>8. Kept(cell', held')
    BY <2>2, <2>3, <2>5, <2>6, <2>7, FilledAreKept
  <2> QED BY <1>3, <2>8
<1> QED BY <1>4, <1>5 DEF malloc

(* Where a slide or a move puts the new header, no byte of the old block   *)
(* is: a slide goes down, a move into a hole.                              *)
LEMMA SlideSpares ==
  ASSUME IInv, HeldLists, NEW ptr \in Int, NEW size \in Sizes, realloc_in_place(ptr, size)
  PROVE  \E new \in Int :
           /\ last'.ret = new /\ held' = Hold(Drop(held, ptr), new, size)
           /\ Spared(ptr, held[ptr], new)
<1> DEFINE old == associated_node(ptr)
           prev == node[old].node_prev
           n == data_end(node, prev)
           new == data_begin(n)
<1>1. WellFormed(node, g_pool.blocks) /\ g_pool.blocks \in Nat
  BY DEF realloc_in_place, IInv, PoolOK
<1>2. old \in DOMAIN node \ {0} /\ old = ptr - 1
  BY <1>1, ListIsLive DEF realloc_in_place, is_existing_memory_node, associated_node
<1>3. prev \in DOMAIN node /\ prev \in Nat /\ node[prev].node_next = old /\ old # NULL
  BY <1>1, <1>2, MemoryAssumption DEF WellFormed, PrevOK
<1>4. n \in Nat /\ n <= old
  BY <1>1, <1>3, EndInside DEF WellFormed, NextOK
<1>5. held' = Hold(Drop(held, ptr), new, size) /\ last'.ret = new
  BY DEF realloc_in_place, Return
<1> HIDE DEF n
<1>6. new \in Int /\ associated_node(new) < ptr /\ associated_node(new) \in Int
  BY <1>2, <1>4 DEF data_begin, associated_node
<1>7. ptr \in DOMAIN held
  BY <1>2 DEF HeldLists, Lists
<1>8. held[ptr] \in Nat
  BY <1>7, SizesAreNat DEF HeldLists, Lists
<1> HIDE DEF new
<1>9. ASSUME NEW i \in 0 .. held[ptr] - 1
      PROVE  (Chunk * ptr + i) \div Chunk # associated_node(new)
  <2> DEFINE b == Chunk * ptr + i
  <2>1. i \in Nat
    BY <1>8
  <2>2. b \in Int /\ b \div Chunk >= ptr
    BY <2>1, ByteAbove
  <2>3. b \div Chunk \in Int
    BY <2>2, BlockOfByte
  <2> HIDE DEF b
  <2>4. b \div Chunk # associated_node(new)
    BY <1>6, <2>2, <2>3
  <2> QED BY <2>4 DEF b
<1>10. Spared(ptr, held[ptr], new)
  BY <1>9 DEF Spared
<1> QED BY <1>5, <1>6, <1>10

(* The same for a move: the hole and the old block are apart.              *)
LEMMA MoveSpares ==
  ASSUME SizesDoNotWrap, IInv, HeldLists,
         NEW ptr \in Int, NEW size \in Sizes, realloc_moves(ptr, size)
  PROVE  \E new \in Int :
           /\ last'.ret = new /\ held' = Hold(Drop(held, ptr), new, size)
           /\ Spared(ptr, held[ptr], new)
<1> DEFINE old == associated_node(ptr)
<1>1. PoolOK /\ WellFormed(node, g_pool.blocks) /\ g_pool.blocks \in Nat /\ g_pool # NULL
      /\ size \in Nat
  BY SizesAreNat DEF realloc_moves, IInv, PoolOK
<1>2. old \in DOMAIN node \ {0}
  BY <1>1, ListIsLive DEF realloc_moves, is_existing_memory_node
<1>3. PICK m \in first_fit(node, size) :
        /\ held' = Hold(Drop(held, ptr), data_begin(data_end(node, m)), size)
        /\ last'.ret = data_begin(data_end(node, m))
  BY DEF realloc_moves, Return
<1> DEFINE new == data_begin(data_end(node, m))
           both == Hold(held, new, size)
<1>4. data_end(node, m) \in Nat \ DOMAIN node
  BY <1>1, PlaceIsFresh
<1>5. new \in Int /\ new \notin DOMAIN held
  BY <1>4 DEF HeldLists, Lists, data_begin, associated_node
<1>6. WellFormed(place_after(node, m, size), g_pool.blocks)
      /\ Lists(place_after(node, m, size), both)
  BY <1>1, PlaceKeepsShape, PlaceHeld DEF HeldLists
<1> HIDE DEF new
<1>7. HeadersApart(both)
  BY <1>1, <1>6, ListedHeadersApart
<1>8. ptr \in DOMAIN held
  BY <1>2 DEF HeldLists, Lists
<1>9. ptr \in DOMAIN both /\ new \in DOMAIN both /\ both[ptr] = held[ptr]
  BY <1>5, <1>8 DEF Hold
<1>10. Spared(ptr, held[ptr], new)
  BY <1>7, <1>9 DEF HeadersApart, Spared
<1>11. held' = Hold(Drop(held, ptr), new, size) /\ last'.ret = new
  BY <1>3 DEF new
<1> QED BY <1>5, <1>10, <1>11

(* realloc keeps the bytes of all blocks, those of the old one at their    *)
(* new place.                                                              *)
LEMMA ReallocKeeps ==
  ASSUME Around, Kept(cell, held), NEW ptr \in Int \cup {NULL}, NEW size \in Sizes,
         realloc(ptr, size),
         LET new == last'.ret
         IN  cell' = CASE ptr = NULL -> obtained(new, size)
                       [] ptr # NULL /\ new = NULL -> cell
                       [] ptr # NULL /\ new # NULL ->
                            settle(fill(rename(moved(ptr, size, new), ptr, new),
                                        new, bytes_to_copy(ptr, size), size), held')
  PROVE  Kept(cell', held') /\ CellOK'
<1>1. CASE ptr = NULL
  <2>1. malloc(size) /\ cell' = obtained(last'.ret, size)
    BY <1>1 DEF realloc
  <2> QED BY <2>1, MallocKeeps
<1>2. CASE ptr # NULL /\ (realloc_unknown(ptr, size) \/ realloc_fails(ptr, size))
  <2>1. last'.ret = NULL /\ held' = held /\ UNCHANGED g_pool
    BY <1>2 DEF realloc, realloc_unknown, realloc_fails, Return
  <2>2. cell' = cell
    BY <1>2, <2>1
  <2> QED BY <2>1, <2>2 DEF CellOK, Around
<1>3. CASE ptr # NULL /\ (realloc_in_place(ptr, size) \/ realloc_moves(ptr, size))
  <2> DEFINE count == bytes_to_copy(ptr, size)
  <2>1. ptr \in Int /\ UNCHANGED g_pool /\ g_pool # NULL
    BY <1>3 DEF realloc, realloc_in_place, realloc_moves
  <2>2. PICK new \in Int : /\ last'.ret = new /\ held' = Hold(Drop(held, ptr), new, size)
                           /\ Spared(ptr, held[ptr], new)
    BY <1>3, <2>1, SlideSpares, MoveSpares DEF Around
  <2>3. ptr \in DOMAIN held
    <3>1. WellFormed(node, g_pool.blocks) /\ g_pool.blocks \in Nat
      BY <2>1 DEF Around, IInv, PoolOK
    <3>2. associated_node(ptr) \in DOMAIN node \ {0}
      BY <1>3, <3>1, ListIsLive DEF realloc_in_place, realloc_moves, is_existing_memory_node
    <3> QED BY <2>1, <3>2 DEF Around, HeldLists, Lists
  <2>4. size \in Nat /\ held[ptr] \in Nat /\ held[ptr] = node[associated_node(ptr)].allocated_bytes
    BY <2>3, SizesAreNat DEF Around, HeldLists, Lists
  <2>5. count \in Nat /\ count <= size /\ count <= held[ptr]
    BY <2>4 DEF bytes_to_copy
  <2> HIDE DEF count
  <2> DEFINE c2 == memmove(write_header(cell, associated_node(new)), new, ptr, count)
             c4 == fill(rename(c2, ptr, new), new, count, size)
  <2>6. Laid(cell, held) /\ Laid(cell, held')
    BY <2>1, HeldAreLaid DEF Around
  <2>7. Kept(c4, held')
    BY <2>2, <2>3, <2>4, <2>5, <2>6, CarriedAreKept
  <2>8. new # NULL /\ cell' = settle(c4, held')
    <3>1. new # NULL
      BY MemoryAssumption
    <3>2. moved(ptr, size, new) = c2
      BY DEF moved, count
    <3> HIDE DEF c2
    <3> QED BY <1>3, <2>2, <3>1, <3>2 DEF count
  <2>9. DOMAIN c4 = DOMAIN cell
    BY PlacesStay
  <2> HIDE DEF c4
  <2>10. Laid(c4, held')
    BY <2>6, <2>9 DEF Laid
  <2>11. Kept(cell', held')
    BY <2>7, <2>8, <2>10, SettledAreKept
  <2>12. DOMAIN cell' = DOMAIN cell
    BY <2>8, <2>9, PlacesStay
  <2> QED BY <2>1, <2>11, <2>12, BytesStay DEF Around
<1> QED BY <1>1, <1>2, <1>3 DEF realloc

(* free gives up the bytes of one block, or of none.                       *)
LEMMA FreeKeeps ==
  ASSUME Around, Kept(cell, held), NEW ptr, free_ext(ptr) \/ free(ptr),
         cell' = settle(cell, held')
  PROVE  Kept(cell', held') /\ CellOK'
<1>1. UNCHANGED g_pool /\ (held' = held \/ held' = Drop(held, ptr))
  BY DEF free, free_ext
<1>2. DOMAIN cell' = DOMAIN cell
  BY PlacesStay
<1>3. CellOK'
  BY <1>1, <1>2, BytesStay DEF Around
<1>4. CASE g_pool = NULL
  BY <1>1, <1>3, <1>4, NothingHeld DEF Around, Kept
<1>5. CASE g_pool # NULL
  <2>1. Laid(cell, held) /\ Laid(cell, held')
    BY <1>1, <1>5, HeldAreLaid DEF Around
  <2>2. Kept(cell, held')
    BY <1>1, <2>1, DroppedAreKept
  <2>3. Kept(cell', held')
    BY <2>1, <2>2, SettledAreKept
  <2> QED BY <1>3, <2>3
<1> QED BY <1>4, <1>5

(* A new pool comes with its bytes and no block.                           *)
LEMMA PoolKeeps ==
  ASSUME NEW p \in Pools, CInitPool(p)
  PROVE  Kept(cell', held') /\ CellOK'
<1>1. DOMAIN held' = {}
  BY DEF CInitPool, init, EmptyFn
<1>2. CellOK'
  BY DEF CInitPool, CellOK
<1> QED BY <1>1, <1>2 DEF Kept

(* A call of the program with its bytes is a call of Memory.               *)
LEMMA CallsOfMemory == [CNext]_cvars => [Next]_vars
<1>1. ASSUME NEW p \in Pools, CInitPool(p) PROVE Next
  BY <1>1 DEF CInitPool, Next
<1>2. ASSUME NEW size \in Sizes, CMalloc(size) PROVE Next
  BY <1>2 DEF CMalloc, Next
<1>3. ASSUME NEW ptr \in Addresses \cup {NULL}, NEW size \in Sizes, CRealloc(ptr, size)
      PROVE  Next
  BY <1>3 DEF CRealloc, Next
<1>4. ASSUME NEW ptr \in Addresses \cup {NULL}, CFree(ptr) PROVE Next
  BY <1>4 DEF CFree, Next
<1>5. CASE UNCHANGED cvars
  BY <1>5 DEF cvars
<1> QED BY <1>1, <1>2, <1>3, <1>4, <1>5 DEF CNext

(* Every call keeps the bytes of the blocks that are held after it.        *)
LEMMA NextKeeps ==
  ASSUME Around, Kept(cell, held), [CNext]_cvars
  PROVE  Kept(cell', held') /\ CellOK'
<1>1. ASSUME NEW p \in Pools, CInitPool(p) PROVE Kept(cell', held') /\ CellOK'
  BY <1>1, PoolKeeps
<1>2. ASSUME NEW size \in Sizes, CMalloc(size) PROVE Kept(cell', held') /\ CellOK'
  BY <1>2, MallocKeeps DEF CMalloc
<1>3. ASSUME NEW ptr \in Addresses \cup {NULL}, NEW size \in Sizes, CRealloc(ptr, size)
      PROVE  Kept(cell', held') /\ CellOK'
  BY <1>3, ReallocKeeps, AddressesAreInt DEF CRealloc
<1>4. ASSUME NEW ptr \in Addresses \cup {NULL}, CFree(ptr)
      PROVE  Kept(cell', held') /\ CellOK'
  BY <1>4, FreeKeeps DEF CFree
<1>5. CASE UNCHANGED cvars
  BY <1>5 DEF cvars, vars, CellOK, Around
<1> QED BY <1>1, <1>2, <1>3, <1>4, <1>5 DEF CNext

-----------------------------------------------------------------------------
(* The theorem.                                                            *)

(* The bytes a program wrote into a block it holds are there until it      *)
(* gives the block back, up to the lesser of the sizes the block had: no   *)
(* header is written over them, no other block's data are copied onto      *)
(* them, and realloc, which writes the header of the new place before it   *)
(* copies, carries them along whole.                                       *)
THEOREM ContentsAreKept ==
  ASSUME PoolsFit, SizesTakeRoom, SizesDoNotWrap
  PROVE  CSpec => []ContentsKept
<1> DEFINE MemInv == IInv /\ HeldLists
           ByteInv == Kept(cell, held) /\ CellOK
<1>1. CSpec => Spec
  <2>1. CInit => Init
    BY DEF CInit
  <2> QED BY <2>1, CallsOfMemory, PTL DEF CSpec, Spec
<1>2. CInit => ByteInv
  BY DEF CInit, Init, EmptyFn, Kept, CellOK
<1>3. MemInv /\ MemInv' /\ ByteInv /\ [CNext]_cvars => ByteInv'
  BY NextKeeps DEF Around
<1>4. ByteInv => ContentsKept
  BY DEF Kept, ContentsKept
<1> HIDE DEF ByteInv
<1> QED BY <1>1, <1>2, <1>3, <1>4, HeldInvariance, PTL DEF CSpec
=============================================================================
