-------------------------- MODULE GuestMemoryProofs --------------------------
(***************************************************************************)
(* Proofs about GuestMemory, for every size of a page and of memory, every *)
(* access and every watchpoint: its types, that the trigger of a step is   *)
(* that of its first noticed access, and that pages of words implement the *)
(* flat array of bytes of FlatMemory.                                      *)
(***************************************************************************)
EXTENDS GuestMemory, BasicFacts

-----------------------------------------------------------------------------
(* An address is a place: a page, a word of it and a byte of the word.     *)
Place(p, w, lane) == p * PageBytes + 4 * w + lane

WordOf(a) == Offset(a) \div 4
LaneOf(a) == Offset(a) % 4

(* The sizes of a page in bytes and words.                                 *)
LEMMA PageFacts ==
  PageBytes \in Nat \ {0} /\ WordsPerPage \in Nat \ {0} /\ PageBytes = 4 * WordsPerPage
BY MemoryAssumption DEF PageBytes

(* Division by the size of a page.                                         *)
LEMMA PageDivision ==
  ASSUME NEW a \in Nat
  PROVE  /\ a \div PageBytes \in Nat /\ a % PageBytes \in 0 .. PageBytes - 1
         /\ a = PageBytes * (a \div PageBytes) + (a % PageBytes)
<1> DEFINE m == PageBytes
<1>1. m \in Nat \ {0}
  BY PageFacts
<1> HIDE DEF m
<1>2. a \div m \in Nat /\ a % m \in 0 .. m - 1 /\ a = m * (a \div m) + (a % m)
  BY <1>1
<1>3. QED BY <1>2 DEF m

(* Every address has its place.                                            *)
LEMMA PlaceFacts ==
  ASSUME NEW a \in Nat
  PROVE  /\ PageIdx(a) \in Nat /\ WordOf(a) \in 0 .. WordsPerPage - 1
         /\ LaneOf(a) \in 0 .. 3
         /\ a = Place(PageIdx(a), WordOf(a), LaneOf(a))
<1> DEFINE q == a \div PageBytes
           r == a % PageBytes
<1>1. r \in 0 .. PageBytes - 1 /\ a = PageBytes * q + r
  BY PageDivision
<1>2. q \in Nat
  BY PageDivision
<1> HIDE DEF q, r
<1>3. /\ r \div 4 \in 0 .. WordsPerPage - 1 /\ r % 4 \in 0 .. 3
      /\ r = 4 * (r \div 4) + (r % 4)
  BY <1>1, PageFacts
<1>4. PageBytes * q = q * PageBytes
  BY <1>2, PageFacts
<1>5. a = q * PageBytes + 4 * (r \div 4) + (r % 4)
  BY <1>1, <1>2, <1>3, <1>4, PageFacts
<1>6. QED BY <1>2, <1>3, <1>5 DEF PageIdx, WordOf, LaneOf, Offset, Place, q, r

(* Every place has its address.                                            *)
LEMMA AddressFacts ==
  ASSUME NEW p \in Nat, NEW w \in 0 .. WordsPerPage - 1, NEW lane \in 0 .. 3
  PROVE  /\ Place(p, w, lane) \in Nat
         /\ PageIdx(Place(p, w, lane)) = p
         /\ WordOf(Place(p, w, lane)) = w
         /\ LaneOf(Place(p, w, lane)) = lane
<1> DEFINE r == 4 * w + lane
           a == p * PageBytes + r
           q == a \div PageBytes
<1>1. /\ r \in 0 .. PageBytes - 1 /\ a \in Nat
      /\ r \div 4 = w /\ r % 4 = lane
  BY PageFacts
<1>2. Place(p, w, lane) = a
  BY PageFacts DEF Place
<1> HIDE DEF r
<1>3. a % PageBytes = r
  BY <1>1, PageFacts, ModUnique
<1>4. q = p
  <2>1. q \in Int /\ a = PageBytes * q + r
    BY <1>1, <1>3, PageDivision
  <2> HIDE DEF q
  <2>2. (q - p) * PageBytes = 0
    BY <1>1, <2>1, PageFacts
  <2>3. q - p \in Int
    BY <2>1
  <2>4. q - p = 0
    BY <2>2, <2>3, PageFacts, SmallMultiple
  <2>5. QED BY <2>1, <2>4
<1>5. QED BY <1>1, <1>2, <1>3, <1>4 DEF PageIdx, WordOf, LaneOf, Offset

(* The bytes of the word that holds an address.                            *)
LEMMA SameWord ==
  ASSUME NEW a \in Nat, NEW lane \in 0 .. 3
  PROVE  LET b == a - (a % 4) + lane
         IN  /\ b \in Nat /\ PageIdx(b) = PageIdx(a) /\ WordOf(b) = WordOf(a)
             /\ LaneOf(b) = lane /\ a % 4 = LaneOf(a)
             /\ b = Place(PageIdx(a), WordOf(a), lane)
<1> DEFINE p == PageIdx(a)
           w == WordOf(a)
           l == LaneOf(a)
           m == p * PageBytes
<1>1. p \in Nat /\ w \in 0 .. WordsPerPage - 1 /\ l \in 0 .. 3 /\ a = m + 4 * w + l
  BY PlaceFacts DEF Place
<1> HIDE DEF p, w, l
<1>2. m = 4 * (p * WordsPerPage) /\ p * WordsPerPage \in Nat
  BY <1>1, PageFacts
<1> HIDE DEF m
<1>3. a % 4 = l
  BY <1>1, <1>2
<1>4. a - (a % 4) + lane = m + 4 * w + lane
  BY <1>1, <1>2, <1>3
<1>5. a - (a % 4) + lane = Place(p, w, lane)
  BY <1>4 DEF Place, m
<1> DEFINE b == Place(p, w, lane)
<1>6. b \in Nat /\ PageIdx(b) = p /\ WordOf(b) = w /\ LaneOf(b) = lane
  BY <1>1, AddressFacts
<1>7. a % 4 = LaneOf(a)
  BY <1>3 DEF l
<1> HIDE DEF b
<1>8. a - (a % 4) + lane = b
  BY <1>5 DEF b
<1>9. QED BY <1>6, <1>7, <1>8 DEF p, w, b

(* A page is not before that of a smaller address.                         *)
LEMMA PagesInOrder ==
  ASSUME NEW a \in Nat, NEW b \in Nat, a <= b
  PROVE  PageIdx(a) <= PageIdx(b)
<1> DEFINE p == PageIdx(a)
           q == PageIdx(b)
           r == a % PageBytes
           s == b % PageBytes
<1>1. /\ p \in Int /\ q \in Int /\ a = PageBytes * p + r /\ b = PageBytes * q + s
      /\ r \in 0 .. PageBytes - 1 /\ s \in 0 .. PageBytes - 1
  BY PageDivision DEF PageIdx
<1> HIDE DEF p, q, r, s
<1>2. SUFFICES ASSUME p >= q + 1 PROVE FALSE
  BY <1>1 DEF p, q
<1>3. PageBytes * p >= PageBytes * (q + 1)
  BY <1>1, <1>2, PageFacts
<1>4. PageBytes * (q + 1) = PageBytes * q + PageBytes
  BY <1>1, PageFacts
<1>5. PageBytes * p \in Int /\ PageBytes * q \in Int
  BY <1>1, PageFacts
<1>6. QED BY <1>1, <1>3, <1>4, <1>5, PageFacts

-----------------------------------------------------------------------------
(* Pages as a flat array of bytes, which is what Flat sees of the map.     *)
FlatBytes(m) ==
  [a \in 0 .. GUEST_MAX_MEM + PageBytes |->
     IF PageIdx(a) \in DOMAIN m THEN m[PageIdx(a)][WordOf(a)][LaneOf(a)] ELSE 0]

Page == [0 .. WordsPerPage - 1 -> Word]

IsMap(m) == /\ DOMAIN m \subseteq PageIdx(GUEST_MIN_MEM) .. PageIdx(GUEST_MAX_MEM)
            /\ \A p \in DOMAIN m : m[p] \in Page

(* A word of a page is four bytes of the array.                            *)
LEMMA FlatWord ==
  ASSUME NEW m, NEW a \in Nat, InBounds(a), PageIdx(a) \in DOMAIN m, NEW lane \in 0 .. 3
  PROVE  /\ a - (a % 4) + lane \in 0 .. GUEST_MAX_MEM + PageBytes
         /\ FlatBytes(m)[a - (a % 4) + lane] = m[PageIdx(a)][WordOf(a)][lane]
<1> DEFINE b == a - (a % 4) + lane
<1>1. /\ b \in Nat /\ PageIdx(b) = PageIdx(a) /\ WordOf(b) = WordOf(a)
      /\ LaneOf(b) = lane
  BY SameWord
<1>2. b <= GUEST_MAX_MEM + PageBytes
  BY PageFacts, MemoryAssumption DEF InBounds
<1> HIDE DEF b
<1>3. b \in 0 .. GUEST_MAX_MEM + PageBytes
  BY <1>1, <1>2, PageFacts, MemoryAssumption
<1>4. FlatBytes(m)[b] = m[PageIdx(a)][WordOf(a)][lane]
  BY <1>1, <1>3 DEF FlatBytes
<1>5. QED BY <1>3, <1>4 DEF b

(* Where an access begins: the byte that is selected from the word.        *)
LEMMA FirstFacts ==
  ASSUME NEW a \in Nat, NEW size \in {1, 2, 4}, Aligned(a, size)
  PROVE  /\ Lane(a, size) \in 0 .. 3 /\ Lane(a, size) + size <= 4
         /\ Flat!First(a, size) = a - (a % 4) + Lane(a, size)
<1>1. a % 4 = LaneOf(a) /\ LaneOf(a) \in 0 .. 3
  BY SameWord, PlaceFacts
<1>2. size = 2 => LaneOf(a) \in {0, 2}
  <2>1. size = 2 => a % 2 = 0
    BY DEF Aligned
  <2>2. a % 2 = 0 => a % 4 \in {0, 2}
    OBVIOUS
  <2>3. QED BY <1>1, <2>1, <2>2
<1>3. Lane(a, size) = IF size = 1 THEN LaneOf(a)
                      ELSE IF size = 2 /\ LaneOf(a) = 2 THEN 2 ELSE 0
  BY DEF Lane, LaneOf
<1>4. Flat!First(a, size) = IF size = 4 THEN a - LaneOf(a) ELSE a
  BY <1>1 DEF Flat!First
<1>5. QED BY <1>1, <1>2, <1>3, <1>4

(* read_mem selects the bytes from there on.                               *)
Loads(m, a, size) ==
  ReadWord(m, a, size) = [i \in 0 .. size - 1 |-> FlatBytes(m)[Flat!First(a, size) + i]]

(* The shifts and masks of read_mem find the bytes of the access in the    *)
(* word that they are taken from.                                          *)
LEMMA LoadFacts ==
  ASSUME NEW m, NEW a \in Nat, InBounds(a), PageIdx(a) \in DOMAIN m,
         NEW size \in {1, 2, 4}, Aligned(a, size)
  PROVE  Loads(m, a, size)
<1> DEFINE l == Lane(a, size)
           first == Flat!First(a, size)
           base == a - (a % 4)
<1>1. l \in 0 .. 3 /\ l + size <= 4 /\ first = base + l /\ base \in Int
  BY FirstFacts
<1> HIDE DEF l, first
<1>2. ASSUME NEW i \in 0 .. size - 1
      PROVE  m[PageIdx(a)][WordOf(a)][l + i] = FlatBytes(m)[first + i]
  <2>1. l + i \in 0 .. 3
    BY <1>1
  <2>2. FlatBytes(m)[base + (l + i)] = m[PageIdx(a)][WordOf(a)][l + i]
    BY <2>1, FlatWord
  <2> HIDE DEF base
  <2>3. first + i = base + (l + i)
    BY <1>1
  <2>4. QED BY <2>2, <2>3
<1>3. QED BY <1>2 DEF Loads, ReadWord, WordOf, l, first

(* write_mem replaces them and no other.                                   *)
LEMMA StoreFacts ==
  ASSUME NEW m, IsMap(m), NEW a \in Nat, InBounds(a), PageIdx(a) \in DOMAIN m,
         m = [p \in DOMAIN m |-> m[p]],
         NEW size \in {1, 2, 4}, Aligned(a, size), NEW data \in Word
  PROVE  LET after == WriteWord(m, a, size, data)
             first == Flat!First(a, size)
         IN  /\ IsMap(after) /\ DOMAIN after = DOMAIN m
             /\ after = [p \in DOMAIN after |-> after[p]]
             /\ FlatBytes(after)
                  = [b \in 0 .. GUEST_MAX_MEM + PageBytes |->
                       IF b - first \in 0 .. size - 1 THEN data[b - first]
                                                       ELSE FlatBytes(m)[b]]
<1> DEFINE after == WriteWord(m, a, size, data)
           first == Flat!First(a, size)
           l == Lane(a, size)
           base == a - (a % 4)
           page == PageIdx(a)
           word == WordOf(a)
           new == [k \in 0 .. 3 |-> IF k - l \in 0 .. size - 1 THEN data[k - l]
                                                               ELSE m[page][word][k]]
<1>1. l \in 0 .. 3 /\ l + size <= 4 /\ first = base + l /\ base \in Int
  BY FirstFacts
<1>2. word \in 0 .. WordsPerPage - 1 /\ page \in DOMAIN m /\ m[page] \in Page
  BY PlaceFacts DEF IsMap
<1>3. after = [m EXCEPT ![page][word] = new]
  BY DEF WriteWord, WordOf
<1> HIDE DEF l, first, after, new
<1>4. new \in Word
  <2>1. m[page][word] \in Word
    BY <1>2 DEF Page
  <2>2. \A k \in 0 .. 3 : k - l \in 0 .. size - 1 => k - l \in 0 .. 3
    BY <1>1
  <2>3. QED BY <2>1, <2>2 DEF Word, new
<1>5. /\ DOMAIN after = DOMAIN m /\ after = [p \in DOMAIN after |-> after[p]]
      /\ \A p \in DOMAIN m : p # page => after[p] = m[p]
      /\ after[page] \in Page /\ after[page][word] = new
      /\ \A w \in 0 .. WordsPerPage - 1 : w # word => after[page][w] = m[page][w]
  BY <1>2, <1>3, <1>4 DEF Page
<1>6. IsMap(after)
  BY <1>5 DEF IsMap
<1>7. ASSUME NEW b \in 0 .. GUEST_MAX_MEM + PageBytes
      PROVE  FlatBytes(after)[b] = IF b - first \in 0 .. size - 1 THEN data[b - first]
                                                                  ELSE FlatBytes(m)[b]
  <2>1. b \in Nat
    BY PageFacts, MemoryAssumption
  <2> DEFINE k == LaneOf(b)
  <2>2. k \in 0 .. 3 /\ WordOf(b) \in 0 .. WordsPerPage - 1 /\ PageIdx(b) \in Nat
        /\ b = Place(PageIdx(b), WordOf(b), k)
    BY <2>1, PlaceFacts
  <2> HIDE DEF k
  <2>3. CASE PageIdx(b) = page /\ WordOf(b) = word
    <3>1. b = base + k
      BY <2>2, <2>3, SameWord
    <3>2. FlatBytes(after)[b] = new[k] /\ FlatBytes(m)[b] = m[page][word][k]
      BY <1>2, <1>5, <2>3 DEF FlatBytes, k
    <3>3. b - first = k - l
      BY <1>1, <2>2, <3>1
    <3>4. QED BY <2>2, <3>2, <3>3 DEF new
  <2>4. CASE ~(PageIdx(b) = page /\ WordOf(b) = word)
    <3>1. ~(b - first \in 0 .. size - 1)
      <4>1. SUFFICES ASSUME b - first \in 0 .. size - 1 PROVE FALSE
        OBVIOUS
      <4> DEFINE j == l + (b - first)
      <4>2. j \in 0 .. 3 /\ b = base + j
        <5> HIDE DEF base
        <5>1. size \in Nat
          OBVIOUS
        <5>2. b - first \in Nat /\ b - first < size
          BY <4>1, <5>1
        <5>3. QED BY <1>1, <2>1, <5>1, <5>2
      <4> HIDE DEF j
      <4>3. PageIdx(b) = page /\ WordOf(b) = word
        BY <4>2, SameWord
      <4>4. QED BY <2>4, <4>3
    <3>2. FlatBytes(after)[b] = FlatBytes(m)[b]
      BY <1>2, <1>5, <2>2, <2>4 DEF FlatBytes
    <3>3. QED BY <3>1, <3>2
  <2>5. QED BY <2>3, <2>4
<1>8. FlatBytes(after) = [b \in 0 .. GUEST_MAX_MEM + PageBytes |->
                            IF b - first \in 0 .. size - 1 THEN data[b - first]
                                                            ELSE FlatBytes(m)[b]]
  BY <1>7 DEF FlatBytes
<1>9. QED BY <1>5, <1>6, <1>8 DEF after, first

-----------------------------------------------------------------------------
(* The map of pages.                                                       *)
IsFunction(m) == m = [p \in DOMAIN m |-> m[p]]

(* The page of an address in bounds is one that a map may have.            *)
LEMMA PageInBounds ==
  ASSUME NEW a \in Nat, InBounds(a)
  PROVE  PageIdx(a) \in PageIdx(GUEST_MIN_MEM) .. PageIdx(GUEST_MAX_MEM)
<1>1. GUEST_MIN_MEM \in Nat /\ GUEST_MAX_MEM \in Nat
      /\ GUEST_MIN_MEM <= a /\ a <= GUEST_MAX_MEM
  BY MemoryAssumption DEF InBounds
<1>2. PageIdx(GUEST_MIN_MEM) <= PageIdx(a) /\ PageIdx(a) <= PageIdx(GUEST_MAX_MEM)
  BY <1>1, PagesInOrder
<1>3. PageIdx(a) \in Nat /\ PageIdx(GUEST_MIN_MEM) \in Nat /\ PageIdx(GUEST_MAX_MEM) \in Nat
  BY <1>1, PlaceFacts
<1>4. QED BY <1>2, <1>3

(* A page that appears is zeros, as the array is where there is no page.   *)
LEMMA PagesAppear ==
  ASSUME IsMap(map), NEW pages,
         pages \subseteq PageIdx(GUEST_MIN_MEM) .. PageIdx(GUEST_MAX_MEM)
  PROVE  /\ DOMAIN WithPages(pages) = DOMAIN map \cup pages
         /\ IsMap(WithPages(pages)) /\ IsFunction(WithPages(pages))
         /\ FlatBytes(WithPages(pages)) = FlatBytes(map)
<1> DEFINE after == WithPages(pages)
<1>1. ZeroPage \in Page
  BY MemoryAssumption DEF ZeroPage, Page, Word
<1>2. /\ DOMAIN after = DOMAIN map \cup pages /\ after = [p \in DOMAIN after |-> after[p]]
      /\ \A p \in DOMAIN after : after[p] = IF p \in DOMAIN map THEN map[p] ELSE ZeroPage
  BY DEF WithPages
<1> HIDE DEF after
<1>3. IsMap(after)
  BY <1>1, <1>2 DEF IsMap
<1>4. ASSUME NEW b \in 0 .. GUEST_MAX_MEM + PageBytes
      PROVE  FlatBytes(after)[b] = FlatBytes(map)[b]
  <2>1. b \in Nat
    BY PageFacts, MemoryAssumption
  <2>2. WordOf(b) \in 0 .. WordsPerPage - 1 /\ LaneOf(b) \in 0 .. 3
    BY <2>1, PlaceFacts
  <2>3. ZeroPage[WordOf(b)][LaneOf(b)] = 0
    BY <2>2 DEF ZeroPage
  <2>4. QED BY <1>2, <2>3 DEF FlatBytes
<1>5. FlatBytes(after) = FlatBytes(map)
  BY <1>4 DEF FlatBytes
<1>6. QED BY <1>2, <1>3, <1>5 DEF after, IsFunction

(* An access allocates the page it needs, and the page is there.           *)
LEMMA PageAppears ==
  ASSUME IsMap(map), NEW a \in Nat, InBounds(a)
  PROVE  LET m == WithPages({PageIdx(a)})
         IN  /\ IsMap(m) /\ IsFunction(m) /\ DOMAIN map \subseteq DOMAIN m
             /\ PageIdx(a) \in DOMAIN m /\ FlatBytes(m) = FlatBytes(map)
<1> DEFINE pages == {PageIdx(a)}
<1>1. pages \subseteq PageIdx(GUEST_MIN_MEM) .. PageIdx(GUEST_MAX_MEM)
  BY PageInBounds
<1>2. PageIdx(a) \in pages
  OBVIOUS
<1> HIDE DEF pages
<1>3. QED BY <1>1, <1>2, PagesAppear DEF pages

(* The debugger's write_addrs: what is written, byte by byte, up to the    *)
(* first address that is refused.                                          *)
Written(start, len) ==
  {a \in start .. start + len - 1 : \A b \in start .. a : InBounds(b)}

(* write_addrs changes the bytes up to the first that is refused, and      *)
(* nothing else.                                                           *)
LEMMA PokeFacts ==
  ASSUME IsMap(map), NEW start \in Nat, NEW len \in Nat, NEW data \in Word,
         WriteAddrs(start, len, data)
  PROVE  /\ IsMap(map') /\ IsFunction(map') /\ DOMAIN map \subseteq DOMAIN map'
         /\ FlatBytes(map') = [b \in 0 .. GUEST_MAX_MEM + PageBytes |->
                                 IF b \in Written(start, len) THEN data[(b - start) % 4]
                                 ELSE FlatBytes(map)[b]]
<1> DEFINE written == Written(start, len)
           touched == {PageIdx(a) : a \in written}
           pages == WithPages(touched)
<1>1. \A a \in written : a \in Nat /\ a >= start /\ InBounds(a)
  BY DEF Written
<1>2. map' = [p \in DOMAIN pages |->
                [w \in 0 .. WordsPerPage - 1 |-> [lane \in 0 .. 3 |->
                   IF Place(p, w, lane) \in written
                     THEN data[(Place(p, w, lane) - start) % 4]
                     ELSE pages[p][w][lane]]]]
  BY DEF WriteAddrs, Place, Written
<1> HIDE DEF written
<1>3. touched \subseteq PageIdx(GUEST_MIN_MEM) .. PageIdx(GUEST_MAX_MEM)
  BY <1>1, PageInBounds
<1>4. \A a \in written : PageIdx(a) \in touched
  OBVIOUS
<1> HIDE DEF touched
<1>5. /\ DOMAIN pages = DOMAIN map \cup touched
      /\ IsMap(pages) /\ FlatBytes(pages) = FlatBytes(map)
  BY <1>3, PagesAppear
<1> HIDE DEF pages
<1>6. ASSUME NEW p \in DOMAIN pages PROVE map'[p] \in Page
  <2>1. ASSUME NEW w \in 0 .. WordsPerPage - 1, NEW lane \in 0 .. 3
        PROVE  (IF Place(p, w, lane) \in written
                  THEN data[(Place(p, w, lane) - start) % 4]
                  ELSE pages[p][w][lane]) \in Value
    <3>1. ASSUME NEW a \in written PROVE data[(a - start) % 4] \in Value
      <4>1. (a - start) % 4 \in 0 .. 3
        BY <1>1
      <4>2. QED BY <4>1 DEF Word
    <3>2. pages[p][w][lane] \in Value
      <4>1. pages[p][w] \in Word
        BY <1>5 DEF IsMap, Page
      <4>2. QED BY <4>1 DEF Word
    <3>3. QED BY <3>1, <3>2
  <2>2. QED BY <1>2, <2>1 DEF Page, Word
<1>7. DOMAIN map' = DOMAIN pages /\ IsFunction(map')
  BY <1>2 DEF IsFunction
<1>8. IsMap(map')
  BY <1>5, <1>6, <1>7 DEF IsMap
<1>9. ASSUME NEW b \in 0 .. GUEST_MAX_MEM + PageBytes
      PROVE  FlatBytes(map')[b] = IF b \in written THEN data[(b - start) % 4]
                                  ELSE FlatBytes(map)[b]
  <2>1. b \in Nat
    BY PageFacts, MemoryAssumption
  <2> DEFINE p == PageIdx(b)
             w == WordOf(b)
             k == LaneOf(b)
  <2>2. w \in 0 .. WordsPerPage - 1 /\ k \in 0 .. 3 /\ b = Place(p, w, k)
    BY <2>1, PlaceFacts
  <2>3. FlatBytes(map')[b] = IF p \in DOMAIN pages THEN map'[p][w][k] ELSE 0
    BY <1>7 DEF FlatBytes
  <2>4. FlatBytes(pages)[b] = IF p \in DOMAIN pages THEN pages[p][w][k] ELSE 0
    BY DEF FlatBytes
  <2>5. b \in written => p \in DOMAIN pages
    BY <1>4, <1>5
  <2> HIDE DEF p, w, k
  <2>6. p \in DOMAIN pages =>
          map'[p][w][k] = IF b \in written THEN data[(b - start) % 4] ELSE pages[p][w][k]
    BY <1>2, <2>2
  <2>7. QED BY <1>5, <2>3, <2>4, <2>5, <2>6
<1>10. FlatBytes(map') = [b \in 0 .. GUEST_MAX_MEM + PageBytes |->
                            IF b \in written THEN data[(b - start) % 4]
                            ELSE FlatBytes(map)[b]]
  BY <1>9 DEF FlatBytes
<1>11. QED BY <1>5, <1>7, <1>8, <1>10 DEF written

-----------------------------------------------------------------------------
(* Watchpoints.                                                            *)
Access == [addr : GuestAddr, len : {1, 2, 4}, write : BOOLEAN]

Trigger == {NoTrigger} \cup [kind : WatchKind, addr : GuestAddr]

(* The watchpoints that notice an access.                                  *)
Noticed(watchpoints, access) ==
  {w \in DOMAIN watchpoints : /\ Listens(watchpoints[w], access)
                              /\ Meets(watchpoints[w], access)}

IsFirst(w, watchpoints, access) ==
  /\ w \in Noticed(watchpoints, access)
  /\ \A v \in Noticed(watchpoints, access) : w <= v

(* check_watchpoints sets the trigger by the first of them.                *)
LEMMA CheckFacts ==
  ASSUME NEW watchpoints \in Seq(WatchEntry), NEW access, NEW trigger
  PROVE  LET after == CheckWatchpoints(trigger, watchpoints, access)
         IN  /\ trigger # NoTrigger \/ Noticed(watchpoints, access) = {}
                => after = trigger
             /\ trigger = NoTrigger /\ Noticed(watchpoints, access) # {}
                => \E w : /\ IsFirst(w, watchpoints, access)
                          /\ after = [kind |-> watchpoints[w].kind, addr |-> access.addr]
<1> DEFINE noticed == Noticed(watchpoints, access)
           first == CHOOSE w \in noticed : \A v \in noticed : w <= v
           after == CheckWatchpoints(trigger, watchpoints, access)
<1>1. after = IF trigger # NoTrigger \/ noticed = {} THEN trigger
              ELSE [kind |-> watchpoints[first].kind, addr |-> access.addr]
  BY DEF CheckWatchpoints, Noticed
<1>2. ASSUME noticed # {} PROVE IsFirst(first, watchpoints, access)
  <2>1. noticed \in SUBSET Nat
    BY DEF Noticed
  <2> HIDE DEF noticed
  <2>2. \E w \in noticed : \A v \in noticed : w <= v
    BY <1>2, <2>1, LeastNumber
  <2>3. first \in noticed /\ \A v \in noticed : first <= v
    BY <2>2
  <2>4. QED BY <2>3 DEF IsFirst, noticed
<1> HIDE DEF first, after
<1>3. QED BY <1>1, <1>2 DEF after

(* What has a trigger: the first access with a watchpoint that notices it. *)
Hits(watchpoints, accesses_) ==
  {n \in (DOMAIN accesses_) \X (DOMAIN watchpoints) :
     n[2] \in Noticed(watchpoints, accesses_[n[1]])}

IsEarliest(f, watchpoints, accesses_) ==
  /\ f \in Hits(watchpoints, accesses_)
  /\ \A n \in Hits(watchpoints, accesses_) : f[1] < n[1] \/ (f[1] = n[1] /\ f[2] <= n[2])

(* WatchTrigger is of the first access that a watchpoint notices, and of   *)
(* the first watchpoint to notice it.                                      *)
LEMMA TriggerFacts ==
  ASSUME NEW watchpoints \in Seq(WatchEntry), NEW S, NEW accesses_ \in Seq(S)
  PROVE  /\ Hits(watchpoints, accesses_) = {}
            => WatchTrigger(watchpoints, accesses_) = NoTrigger
         /\ \A f : IsEarliest(f, watchpoints, accesses_) =>
              WatchTrigger(watchpoints, accesses_)
                = [kind |-> watchpoints[f[2]].kind, addr |-> accesses_[f[1]].addr]
         /\ Hits(watchpoints, accesses_) # {}
            => \E f : IsEarliest(f, watchpoints, accesses_)
<1> DEFINE hits == Hits(watchpoints, accesses_)
           Early(f) == \A n \in hits : f[1] < n[1] \/ (f[1] = n[1] /\ f[2] <= n[2])
           first == CHOOSE f \in hits : Early(f)
<1>1. hits = {n \in (DOMAIN accesses_) \X (DOMAIN watchpoints) :
                /\ Listens(watchpoints[n[2]], accesses_[n[1]])
                /\ Meets(watchpoints[n[2]], accesses_[n[1]])}
  BY DEF Hits, Noticed
<1>2. WatchTrigger(watchpoints, accesses_)
        = IF hits = {} THEN NoTrigger
          ELSE [kind |-> watchpoints[first[2]].kind, addr |-> accesses_[first[1]].addr]
  BY <1>1, Zenon DEF WatchTrigger
<1>3. hits \in SUBSET (Nat \X Nat) /\ \A n \in hits : n = <<n[1], n[2]>>
  BY DEF Hits
<1> HIDE DEF hits
<1>4. \A f \in hits, g \in hits : Early(f) /\ Early(g) => f = g
  <2> TAKE f \in hits, g \in hits
  <2>1. f[1] \in Nat /\ f[2] \in Nat /\ g[1] \in Nat /\ g[2] \in Nat
        /\ f = <<f[1], f[2]>> /\ g = <<g[1], g[2]>>
    BY <1>3
  <2>2. Early(f) => f[1] < g[1] \/ (f[1] = g[1] /\ f[2] <= g[2])
    OBVIOUS
  <2>3. Early(g) => g[1] < f[1] \/ (f[1] = g[1] /\ g[2] <= f[2])
    OBVIOUS
  <2> HIDE DEF Early
  <2>4. QED BY <2>1, <2>2, <2>3
<1>5. hits # {} => \E f \in hits : Early(f)
  BY <1>3, LeastPair
<1> HIDE DEF Early
<1>6. \A f \in hits : Early(f) => first = f
  <2>1. ASSUME NEW f \in hits, Early(f) PROVE first = f
    <3>1. first \in hits /\ Early(first)
      BY <2>1
    <3>2. QED BY <1>4, <2>1, <3>1
  <2>2. QED BY <2>1
<1> HIDE DEF first
<1>7. \A f : IsEarliest(f, watchpoints, accesses_) <=> f \in hits /\ Early(f)
  BY DEF IsEarliest, hits, Early
<1>8. QED BY <1>2, <1>5, <1>6, <1>7 DEF hits

(* One more access: checking it after the others gives the trigger of all. *)
LEMMA TriggerGrows ==
  ASSUME NEW watchpoints \in Seq(WatchEntry), NEW S, NEW acc \in Seq(S), NEW a \in S
  PROVE  WatchTrigger(watchpoints, Append(acc, a))
           = CheckWatchpoints(WatchTrigger(watchpoints, acc), watchpoints, a)
<1> DEFINE longer == Append(acc, a)
           last == Len(acc) + 1
           before == WatchTrigger(watchpoints, acc)
           after == WatchTrigger(watchpoints, longer)
           checked == CheckWatchpoints(before, watchpoints, a)
           old == Hits(watchpoints, acc)
           new == {last} \X Noticed(watchpoints, a)
<1>1. /\ longer \in Seq(S) /\ DOMAIN longer = DOMAIN acc \cup {last}
      /\ last \in Nat /\ longer[last] = a /\ \A i \in DOMAIN acc : longer[i] = acc[i]
      /\ \A i \in DOMAIN acc : i \in Nat /\ i < last
  OBVIOUS
<1> HIDE DEF longer, last
<1>2. Hits(watchpoints, longer) = old \cup new
  BY <1>1 DEF Hits, Noticed
<1>3. \A n \in old : n[1] \in DOMAIN acc /\ n[2] \in DOMAIN watchpoints
  BY DEF Hits
<1>4. \A n \in new : n[1] = last /\ n[2] \in Noticed(watchpoints, a)
                     /\ n = <<last, n[2]>>
  OBVIOUS
<1>5. Noticed(watchpoints, a) # {} <=> new # {}
  <2>1. \A w \in Noticed(watchpoints, a) : <<last, w>> \in new
    OBVIOUS
  <2> HIDE DEF new
  <2>2. QED BY <1>4, <2>1
<1> HIDE DEF old, new
<1>6. CASE old # {}
  <2>1. PICK f : IsEarliest(f, watchpoints, acc)
    BY <1>6, TriggerFacts DEF old
  <2>2. f \in old /\ \A n \in old : f[1] < n[1] \/ (f[1] = n[1] /\ f[2] <= n[2])
    BY <2>1 DEF IsEarliest, old
  <2>3. \A n \in new : f[1] < n[1]
    BY <1>1, <1>3, <1>4, <2>2
  <2>4. IsEarliest(f, watchpoints, longer)
    BY <1>2, <2>2, <2>3 DEF IsEarliest
  <2>5. /\ before = [kind |-> watchpoints[f[2]].kind, addr |-> acc[f[1]].addr]
        /\ after = [kind |-> watchpoints[f[2]].kind, addr |-> longer[f[1]].addr]
    BY <1>1, <2>1, <2>4, TriggerFacts
  <2>6. longer[f[1]] = acc[f[1]] /\ watchpoints[f[2]] \in WatchEntry
    BY <1>1, <1>3, <2>2
  <2>7. before # NoTrigger /\ after = before
    BY <2>5, <2>6 DEF WatchEntry, WatchKind, NoTrigger
  <2> HIDE DEF before, after
  <2>8. checked = before
    BY <2>7, CheckFacts
  <2>9. QED BY <2>7, <2>8 DEF before, after, checked, longer
<1>7. CASE old = {} /\ new = {}
  <2>1. before = NoTrigger /\ after = NoTrigger
    BY <1>1, <1>2, <1>7, TriggerFacts DEF old
  <2> HIDE DEF before, after
  <2>2. checked = before
    BY <1>5, <1>7, CheckFacts
  <2>3. QED BY <2>1, <2>2 DEF before, after, checked, longer
<1>8. CASE old = {} /\ new # {}
  <2>1. before = NoTrigger
    BY <1>8, TriggerFacts DEF old
  <2> HIDE DEF before
  <2>2. PICK w : /\ IsFirst(w, watchpoints, a)
                 /\ checked = [kind |-> watchpoints[w].kind, addr |-> a.addr]
    BY <1>5, <1>8, <2>1, CheckFacts
  <2> DEFINE f == <<last, w>>
  <2>3. f \in new /\ f[1] = last /\ f[2] = w
    BY <2>2 DEF new, IsFirst
  <2>4. \A n \in new : f[1] = n[1] /\ f[2] <= n[2]
    BY <1>4, <2>2, <2>3 DEF IsFirst
  <2> HIDE DEF f
  <2>5. IsEarliest(f, watchpoints, longer)
    BY <1>2, <1>8, <2>3, <2>4 DEF IsEarliest
  <2>6. after = [kind |-> watchpoints[f[2]].kind, addr |-> longer[f[1]].addr]
    BY <1>1, <2>5, TriggerFacts
  <2>7. QED BY <1>1, <2>2, <2>3, <2>6 DEF before, longer
<1>9. QED BY <1>6, <1>7, <1>8

(* A trigger is of an access that has been made, by a watchpoint.          *)
LEMMA CheckType ==
  ASSUME NEW watchpoints \in Seq(WatchEntry), NEW access \in Access,
         NEW trigger \in Trigger
  PROVE  CheckWatchpoints(trigger, watchpoints, access) \in Trigger
<1> DEFINE after == CheckWatchpoints(trigger, watchpoints, access)
<1>1. /\ trigger # NoTrigger \/ Noticed(watchpoints, access) = {}
           => after = trigger
      /\ trigger = NoTrigger /\ Noticed(watchpoints, access) # {}
           => \E w : /\ IsFirst(w, watchpoints, access)
                     /\ after = [kind |-> watchpoints[w].kind, addr |-> access.addr]
  BY CheckFacts
<1> HIDE DEF after
<1>2. \A w : IsFirst(w, watchpoints, access) => watchpoints[w] \in WatchEntry
  BY DEF IsFirst, Noticed
<1>3. after \in Trigger
  BY <1>1, <1>2 DEF Trigger, WatchEntry, Access
<1>4. QED BY <1>3 DEF after

-----------------------------------------------------------------------------
(* The invariant: the types of the parts, that the map is a function, that *)
(* the accesses are those of the guest, and TriggerIsFirst, which follows  *)
(* from it for one access after the other.                                 *)
Pages ==
  /\ IsMap(map) /\ IsFunction(map)
  /\ cur_step_read \subseteq DOMAIN map /\ cur_step_write \subseteq DOMAIN map

Watching ==
  /\ hw_watchpoints \in Seq(WatchArea)
  /\ watch_trigger \in Trigger
  /\ accesses \in Seq(Access)
  /\ TriggerIsFirst

MemoryInv == Pages /\ Watching /\ phase \in {"between", "step", "failed"}

(* The debugger's watchpoints are watchpoints.                             *)
LEMMA WatchpointFacts ==
  hw_watchpoints \in Seq(WatchArea) => hw_watchpoints \in Seq(WatchEntry)
BY MemoryAssumption

(* Memory starts without a page, and nothing has been accessed.            *)
LEMMA MemoryInit ==
  ASSUME Init PROVE MemoryInv
<1>1. Pages
  BY DEF Init, Pages, IsMap, IsFunction
<1>2. Watching
  BY DEF Init, Watching, Trigger, TriggerIsFirst
<1>3. QED BY <1>1, <1>2 DEF Init, MemoryInv

(* An access that is checked against the watchpoints.                      *)
LEMMA CheckStep ==
  ASSUME Watching, phase = "step", NEW a \in GuestAddr, NEW size \in {1, 2, 4},
         NEW write \in BOOLEAN, Check(a, size, write)
  PROVE  Watching'
<1> DEFINE access == [addr |-> a, len |-> size, write |-> write]
<1>1. access \in Access
  BY DEF Access
<1>2. /\ watch_trigger' = CheckWatchpoints(watch_trigger, hw_watchpoints, access)
      /\ accesses' = Append(accesses, access) /\ hw_watchpoints' = hw_watchpoints
  BY DEF Check
<1> HIDE DEF access
<1>3. /\ hw_watchpoints \in Seq(WatchEntry) /\ watch_trigger \in Trigger
      /\ accesses \in Seq(Access)
      /\ watch_trigger = WatchTrigger(hw_watchpoints, accesses)
  BY WatchpointFacts DEF Watching, TriggerIsFirst
<1>4. watch_trigger' \in Trigger
  BY <1>1, <1>2, <1>3, CheckType
<1>5. accesses' \in Seq(Access)
  BY <1>1, <1>2, <1>3
<1>6. watch_trigger' = WatchTrigger(hw_watchpoints, accesses')
  BY <1>1, <1>2, <1>3, TriggerGrows
<1>7. QED BY <1>2, <1>4, <1>5, <1>6 DEF Watching, TriggerIsFirst

(* Nothing of the watchpoints changes in other steps.                      *)
LEMMA WatchingStays ==
  ASSUME Watching, UNCHANGED watch, phase' = "step" => phase = "step"
  PROVE  Watching'
BY DEF Watching, TriggerIsFirst, watch

(* What a page map keeps, and what its growth does.                        *)
LEMMA PagesStay ==
  ASSUME Pages, IsMap(map'), IsFunction(map'), DOMAIN map \subseteq DOMAIN map',
         UNCHANGED <<cur_step_read, cur_step_write>>
  PROVE  Pages'
BY DEF Pages, IsMap, IsFunction

(* The fetch of an instruction, before which Simulator::step clears the    *)
(* trigger.                                                                *)
LEMMA FetchStep ==
  ASSUME MemoryInv, NEW pc \in GuestAddr, Fetch(pc)
  PROVE  MemoryInv'
<1> DEFINE m == WithPages({PageIdx(pc)})
<1>1. /\ InBounds(pc) /\ map' = m
      /\ cur_step_read' = cur_step_read \cup {PageIdx(pc)}
      /\ watch_trigger' = NoTrigger /\ accesses' = <<>> /\ phase' = "step"
      /\ UNCHANGED <<hw_watchpoints, cur_step_write>>
  BY DEF Fetch
<1>2. /\ IsMap(m) /\ IsFunction(m) /\ DOMAIN map \subseteq DOMAIN m
      /\ PageIdx(pc) \in DOMAIN m
  BY <1>1, PageAppears, MemoryAssumption DEF MemoryInv, Pages
<1> HIDE DEF m
<1>3. Pages'
  BY <1>1, <1>2 DEF MemoryInv, Pages, IsMap, IsFunction
<1>4. WatchTrigger(hw_watchpoints, <<>>) = NoTrigger
  <2>1. hw_watchpoints \in Seq(WatchEntry) /\ <<>> \in Seq(Access)
    BY WatchpointFacts DEF MemoryInv, Watching
  <2>2. Hits(hw_watchpoints, <<>>) = {}
    BY DEF Hits
  <2>3. QED BY <2>1, <2>2, TriggerFacts
<1>5. Watching'
  BY <1>1, <1>4 DEF MemoryInv, Watching, Trigger, TriggerIsFirst
<1>6. QED BY <1>1, <1>3, <1>5 DEF MemoryInv

(* read_mem, refused or not, keeps the trigger that of the first access    *)
(* noticed.                                                                *)
LEMMA ReadMemStep ==
  ASSUME MemoryInv, NEW a \in GuestAddr, NEW size \in {1, 2, 4}, ReadMem(a, size)
  PROVE  MemoryInv'
<1> DEFINE m == WithPages({PageIdx(a)})
<1>1. /\ InBounds(a) /\ map' = m /\ Check(a, size, FALSE)
      /\ cur_step_read' = cur_step_read \cup {PageIdx(a)}
      /\ phase = "step" /\ UNCHANGED <<cur_step_write, phase>>
  BY DEF ReadMem
<1>2. /\ IsMap(m) /\ IsFunction(m) /\ DOMAIN map \subseteq DOMAIN m
      /\ PageIdx(a) \in DOMAIN m
  BY <1>1, PageAppears, MemoryAssumption DEF MemoryInv, Pages
<1> HIDE DEF m
<1>3. Pages'
  BY <1>1, <1>2 DEF MemoryInv, Pages, IsMap, IsFunction
<1>4. Watching'
  BY <1>1, CheckStep DEF MemoryInv
<1>5. QED BY <1>1, <1>3, <1>4 DEF MemoryInv

(* write_mem, refused or not, keeps the trigger that of the first access   *)
(* noticed.                                                                *)
LEMMA WriteMemStep ==
  ASSUME MemoryInv, NEW a \in GuestAddr, NEW size \in {1, 2, 4}, NEW data \in StoreData,
         WriteMem(a, size, data)
  PROVE  MemoryInv'
<1> DEFINE m == WithPages({PageIdx(a)})
           after == WriteWord(m, a, size, data)
<1>1. /\ InBounds(a) /\ map' = after /\ Check(a, size, TRUE) /\ Aligned(a, size)
      /\ cur_step_write' = cur_step_write \cup {PageIdx(a)}
      /\ phase = "step" /\ UNCHANGED <<cur_step_read, phase>>
  BY DEF WriteMem
<1>2. a \in Nat /\ data \in Word
  BY MemoryAssumption DEF Word
<1>3. /\ IsMap(m) /\ IsFunction(m) /\ DOMAIN map \subseteq DOMAIN m
      /\ PageIdx(a) \in DOMAIN m
  BY <1>1, <1>2, PageAppears DEF MemoryInv, Pages
<1> HIDE DEF m
<1>4. IsMap(after) /\ DOMAIN after = DOMAIN m /\ IsFunction(after)
  BY <1>1, <1>2, <1>3, StoreFacts DEF IsFunction
<1> HIDE DEF after
<1>5. Pages'
  BY <1>1, <1>3, <1>4 DEF MemoryInv, Pages, IsMap, IsFunction
<1>6. Watching'
  BY <1>1, CheckStep DEF MemoryInv
<1>7. QED BY <1>1, <1>5, <1>6 DEF MemoryInv

(* The debugger's reads may add pages, and leave trigger and cycles alone. *)
LEMMA ReadAddrsStep ==
  ASSUME MemoryInv, NEW start \in Nat, NEW len \in Nat, ReadAddrs(start, len)
  PROVE  MemoryInv'
<1> DEFINE end == IF start + len < GUEST_MAX_MEM THEN start + len ELSE GUEST_MAX_MEM
           touched == {PageIdx(a) : a \in start .. end - 1}
<1>1. /\ phase = "between"
      /\ \/ start >= GUEST_MIN_MEM /\ map' = WithPages(touched)
         \/ map' = map
      /\ UNCHANGED watch /\ UNCHANGED <<cur_step_read, cur_step_write, phase>>
  BY MemoryAssumption DEF ReadAddrs
<1>2. CASE start >= GUEST_MIN_MEM /\ map' = WithPages(touched)
  <2>1. \A a \in start .. end - 1 : a \in Nat /\ InBounds(a)
    BY <1>2, MemoryAssumption DEF InBounds
  <2>2. touched \subseteq PageIdx(GUEST_MIN_MEM) .. PageIdx(GUEST_MAX_MEM)
    BY <2>1, PageInBounds
  <2> HIDE DEF touched
  <2>3. /\ DOMAIN map \subseteq DOMAIN map' /\ IsMap(map') /\ IsFunction(map')
    BY <1>2, <2>2, PagesAppear DEF MemoryInv, Pages
  <2>4. Pages' /\ Watching'
    BY <1>1, <2>3, PagesStay, WatchingStays DEF MemoryInv
  <2>5. QED BY <1>1, <2>4 DEF MemoryInv
<1>3. CASE map' = map
  <2>1. Watching'
    BY <1>1, WatchingStays DEF MemoryInv
  <2>2. QED BY <1>1, <1>3, <2>1 DEF MemoryInv, Pages, IsMap, IsFunction
<1>4. QED BY <1>1, <1>2, <1>3

(* The debugger's writes may add pages, and leave trigger and cycles       *)
(* alone.                                                                  *)
LEMMA WriteAddrsStep ==
  ASSUME MemoryInv, NEW start \in Nat, NEW len \in Nat, NEW data \in StoreData,
         WriteAddrs(start, len, data)
  PROVE  MemoryInv'
<1>1. UNCHANGED watch /\ UNCHANGED <<cur_step_read, cur_step_write, phase>>
  BY DEF WriteAddrs
<1>2. data \in Word
  BY MemoryAssumption DEF Word
<1>3. IsMap(map') /\ IsFunction(map') /\ DOMAIN map \subseteq DOMAIN map'
  BY <1>2, PokeFacts DEF MemoryInv, Pages
<1>4. Pages' /\ Watching'
  BY <1>1, <1>3, PagesStay, WatchingStays DEF MemoryInv
<1>5. QED BY <1>1, <1>4 DEF MemoryInv

(* Every step preserves the invariant.                                     *)
LEMMA MemoryNext ==
  ASSUME MemoryInv, [Next]_vars PROVE MemoryInv'
<1>1. CASE \E a \in GuestAddr : Fetch(a)
  BY <1>1, FetchStep
<1>2. CASE (\E a \in GuestAddr : FailedAccess(a)) \/ EndStep \/ UNCHANGED vars
  <2>1. /\ UNCHANGED map /\ UNCHANGED watch
        /\ phase' \in {"between", "step", "failed"} /\ (phase' = "step" => phase = "step")
        /\ \/ UNCHANGED <<cur_step_read, cur_step_write>>
           \/ cur_step_read' = {} /\ cur_step_write' = {}
    BY <1>2 DEF FailedAccess, EndStep, vars, MemoryInv
  <2>2. Watching'
    BY <2>1, WatchingStays DEF MemoryInv
  <2>3. Pages'
    BY <2>1 DEF MemoryInv, Pages, IsMap, IsFunction
  <2>4. QED BY <2>1, <2>2, <2>3 DEF MemoryInv
<1>3. CASE \E a \in GuestAddr, size \in {1, 2, 4} :
             \/ ReadMem(a, size)
             \/ \E store_data \in StoreData : WriteMem(a, size, store_data)
  BY <1>3, ReadMemStep, WriteMemStep
<1>4. CASE \E s \in Spans : \/ ReadAddrs(s[1], s[2])
                            \/ \E data \in StoreData : WriteAddrs(s[1], s[2], data)
  <2>1. \A s \in Spans : s[1] \in Nat /\ s[2] \in Nat
    BY MemoryAssumption
  <2>2. QED BY <1>4, <2>1, ReadAddrsStep, WriteAddrsStep
<1>5. CASE \E entry \in WatchArea : AddHwWatchpoint(entry) \/ RemoveHwWatchpoint(entry)
  <2>1. PICK entry \in WatchArea : AddHwWatchpoint(entry) \/ RemoveHwWatchpoint(entry)
    BY <1>5
  <2>2. /\ phase = "between" /\ accesses' = <<>>
        /\ hw_watchpoints' = Append(hw_watchpoints, entry)
             \/ hw_watchpoints' = RemoveFirst(hw_watchpoints, entry)
        /\ UNCHANGED <<map, watch_trigger, cur_step_read, cur_step_write, phase>>
    BY <2>1 DEF AddHwWatchpoint, RemoveHwWatchpoint
  <2>3. hw_watchpoints' \in Seq(WatchArea)
    <3>1. hw_watchpoints \in Seq(WatchArea)
      BY DEF MemoryInv, Watching
    <3>2. RemoveFirst(hw_watchpoints, entry) \in Seq(WatchArea)
      BY <3>1, RemoveFirstType
    <3>3. QED BY <2>2, <3>1, <3>2
  <2>4. Watching'
    BY <2>2, <2>3 DEF MemoryInv, Watching, TriggerIsFirst
  <2>5. Pages'
    BY <2>2 DEF MemoryInv, Pages, IsMap, IsFunction
  <2>6. QED BY <2>2, <2>4, <2>5 DEF MemoryInv
<1>6. QED
  BY <1>1, <1>2, <1>3, <1>4, <1>5 DEF Next, GuestStep, DebuggerStep

(* The invariant holds along every behaviour.                              *)
THEOREM MemoryInvariant == Spec => []MemoryInv
BY MemoryInit, MemoryNext, PTL DEF Spec

(* Memory's pages are those of the guest's range and hold words of bytes,  *)
(* whatever is read and written and by whom, and what a step reports as    *)
(* touched is among them.                                                  *)
THEOREM MemoryTypes == Spec => []TypeOK
<1>1. MemoryInv => TypeOK
  BY DEF MemoryInv, Pages, Watching, TypeOK, IsMap, Page, Trigger
<1>2. QED BY <1>1, MemoryInvariant, PTL

(* check_watchpoints, called for each access in turn and keeping a trigger *)
(* that is set, leaves that of the first access noticed, and of it the     *)
(* first watchpoint, for any number of accesses and watchpoints.           *)
THEOREM FirstTriggerStays == Spec => []TriggerIsFirst
<1>1. MemoryInv => TriggerIsFirst
  BY DEF MemoryInv, Watching
<1>2. QED BY <1>1, MemoryInvariant, PTL

-----------------------------------------------------------------------------
(* GuestMemory implements FlatMemory: each access to the pages is one to   *)
(* the array of bytes.                                                     *)
LEMMA FlatInit ==
  ASSUME Init PROVE Flat!Init
<1>1. FlatBytes(map) = [a \in 0 .. GUEST_MAX_MEM + PageBytes |-> 0]
  BY DEF Init, FlatBytes
<1>2. QED
  BY <1>1 DEF Init, Flat!Init, Flat!Addr, Flat!Stored, Flat!Data, Stored, FlatBytes,
              WordOf, LaneOf

(* What Load of the flat memory finds in the bytes of the pages.           *)
LEMMA FlatLoad ==
  ASSUME NEW a, NEW size
  PROVE  Flat!Load(a, size)
           = [i \in 0 .. size - 1 |-> FlatBytes(map)[Flat!First(a, size) + i]]
BY Zenon DEF Flat!Load, FlatBytes, WordOf, LaneOf

(* The array stays if the bytes of the pages do.                           *)
LEMMA FlatStays ==
  ASSUME FlatBytes(map') = FlatBytes(map)
  PROVE  [a \in 0 .. GUEST_MAX_MEM + PageBytes |->
            IF PageIdx(a) \in DOMAIN map
              THEN map[PageIdx(a)][Offset(a) \div 4][Offset(a) % 4] ELSE 0]'
         = [a \in 0 .. GUEST_MAX_MEM + PageBytes |->
              IF PageIdx(a) \in DOMAIN map
                THEN map[PageIdx(a)][Offset(a) \div 4][Offset(a) % 4] ELSE 0]
BY Zenon DEF FlatBytes, WordOf, LaneOf

(* A fetch reads the word of the flat memory, and is charged.              *)
LEMMA FlatFetch ==
  ASSUME MemoryInv, NEW pc \in GuestAddr, Fetch(pc) PROVE Flat!Fetch
<1> DEFINE m == WithPages({PageIdx(pc)})
<1>1. /\ phase = "between" /\ InBounds(pc) /\ map' = m
      /\ reply' = [ok |-> TRUE, data |-> ReadWord(m, pc, 4)]
      /\ cur_step_read' = cur_step_read \cup {PageIdx(pc)}
      /\ phase' = "step" /\ UNCHANGED cur_step_write
  BY DEF Fetch
<1>2. pc \in Nat
  BY MemoryAssumption
<1>3. PageIdx(pc) \in DOMAIN m /\ FlatBytes(m) = FlatBytes(map)
  BY <1>1, <1>2, PageAppears DEF MemoryInv, Pages
<1> HIDE DEF m
<1>4. ReadWord(m, pc, 4) = [i \in 0 .. 4 - 1 |-> FlatBytes(m)[Flat!First(pc, 4) + i]]
  BY <1>1, <1>2, <1>3, LoadFacts DEF Aligned, Loads
<1>5. QED
  <2>1. reply' = Flat!Data(Flat!Load(pc, 4))
    BY <1>1, <1>3, <1>4, FlatLoad DEF Flat!Data
  <2>2. Flat!Usable(pc)
    BY <1>1 DEF InBounds, Flat!Usable
  <2>3. cur_step_read' = cur_step_read \cup {pc \div PageBytes}
    BY <1>1 DEF PageIdx
  <2>4. FlatBytes(map') = FlatBytes(map)
    BY <1>1, <1>3
  <2>5. QED BY <1>1, <2>1, <2>2, <2>3, <2>4, FlatStays DEF Flat!Fetch

(* What Store of the flat memory makes of the bytes of the pages.          *)
LEMMA FlatStore ==
  ASSUME NEW a, NEW size, NEW data
  PROVE  Flat!Store(a, size, data)
           = [b \in 0 .. GUEST_MAX_MEM + PageBytes |->
                IF b - Flat!First(a, size) \in 0 .. size - 1
                  THEN data[b - Flat!First(a, size)] ELSE FlatBytes(map)[b]]
BY Zenon DEF Flat!Store, Flat!Addr, FlatBytes, WordOf, LaneOf

(* What Flat sees of the map after a step.                                 *)
LEMMA FlatAfter ==
  ASSUME NEW array, FlatBytes(map') = array
  PROVE  [a \in 0 .. GUEST_MAX_MEM + PageBytes |->
            IF PageIdx(a) \in DOMAIN map
              THEN map[PageIdx(a)][Offset(a) \div 4][Offset(a) % 4] ELSE 0]' = array
BY Zenon DEF FlatBytes, WordOf, LaneOf

(* read_mem for the guest is a read of the flat memory, and is charged.    *)
LEMMA FlatRead ==
  ASSUME MemoryInv, NEW a \in GuestAddr, NEW size \in {1, 2, 4}, ReadMem(a, size)
  PROVE  Flat!GuestRead
<1> DEFINE m == WithPages({PageIdx(a)})
<1>1. /\ phase = "step" /\ Aligned(a, size) /\ InBounds(a) /\ map' = m
      /\ reply' = [ok |-> TRUE, data |-> ReadWord(m, a, size)]
      /\ cur_step_read' = cur_step_read \cup {PageIdx(a)}
      /\ UNCHANGED <<cur_step_write, phase>>
  BY DEF ReadMem
<1>2. a \in Nat
  BY MemoryAssumption
<1>3. PageIdx(a) \in DOMAIN m /\ FlatBytes(m) = FlatBytes(map)
  BY <1>1, <1>2, PageAppears DEF MemoryInv, Pages
<1> HIDE DEF m
<1>4. ReadWord(m, a, size)
        = [i \in 0 .. size - 1 |-> FlatBytes(m)[Flat!First(a, size) + i]]
  <2>1. Loads(m, a, size)
    BY <1>1, <1>2, <1>3, LoadFacts
  <2>2. QED BY <2>1 DEF Loads
<1>5. reply' = Flat!Data(Flat!Load(a, size))
  BY <1>1, <1>3, <1>4, FlatLoad DEF Flat!Data
<1>6. Flat!Usable(a) /\ Flat!Aligned(a, size)
  BY <1>1 DEF InBounds, Aligned, Flat!Usable, Flat!Aligned
<1>7. cur_step_read' = cur_step_read \cup {a \div PageBytes}
  BY <1>1 DEF PageIdx
<1>8. FlatBytes(map') = FlatBytes(map)
  BY <1>1, <1>3
<1>9. QED BY <1>1, <1>5, <1>6, <1>7, <1>8, FlatStays DEF Flat!GuestRead

(* write_mem for the guest is a write of the flat memory, and is charged.  *)
LEMMA FlatWrite ==
  ASSUME MemoryInv, NEW a \in GuestAddr, NEW size \in {1, 2, 4}, NEW data \in StoreData,
         WriteMem(a, size, data)
  PROVE  Flat!GuestWrite
<1> DEFINE m == WithPages({PageIdx(a)})
<1>1. /\ phase = "step" /\ Aligned(a, size) /\ InBounds(a)
      /\ map' = WriteWord(m, a, size, data)
      /\ reply' = Stored
      /\ cur_step_write' = cur_step_write \cup {PageIdx(a)}
      /\ UNCHANGED <<cur_step_read, phase>>
  BY DEF WriteMem
<1>2. a \in Nat /\ data \in Word
  BY MemoryAssumption DEF Word
<1>3. /\ IsMap(m) /\ IsFunction(m)
      /\ PageIdx(a) \in DOMAIN m /\ FlatBytes(m) = FlatBytes(map)
  BY <1>1, <1>2, PageAppears DEF MemoryInv, Pages
<1> HIDE DEF m
<1>4. FlatBytes(map') = [b \in 0 .. GUEST_MAX_MEM + PageBytes |->
                           IF b - Flat!First(a, size) \in 0 .. size - 1
                             THEN data[b - Flat!First(a, size)] ELSE FlatBytes(m)[b]]
  BY <1>1, <1>2, <1>3, StoreFacts DEF IsFunction
<1>5. FlatBytes(map') = Flat!Store(a, size, data)
  BY <1>3, <1>4, FlatStore
<1>6. Flat!Usable(a) /\ Flat!Aligned(a, size)
  BY <1>1 DEF InBounds, Aligned, Flat!Usable, Flat!Aligned
<1>7. cur_step_write' = cur_step_write \cup {a \div PageBytes}
  BY <1>1 DEF PageIdx
<1>8. reply' = Flat!Stored
  BY <1>1 DEF Stored, Flat!Stored, Flat!Data
<1>9. QED BY <1>1, <1>5, <1>6, <1>7, <1>8, FlatAfter DEF Flat!GuestWrite

(* An access that is refused changes no byte, although it may have been    *)
(* charged.                                                                *)
LEMMA FlatFail ==
  ASSUME NEW a \in GuestAddr, FailedAccess(a)
  PROVE  Flat!Fail
<1>1. FlatBytes(map') = FlatBytes(map)
  BY DEF FailedAccess
<1>2. QED
  BY <1>1, FlatStays
  DEF FailedAccess, InBounds, Refused, Flat!Fail, Flat!Usable, Flat!Refused

(* The end of a step changes no byte.                                      *)
LEMMA FlatEnd ==
  ASSUME EndStep PROVE Flat!EndStep
<1>1. FlatBytes(map') = FlatBytes(map)
  BY DEF EndStep
<1>2. QED BY <1>1, FlatStays DEF EndStep, Flat!EndStep

(* read_addrs returns the bytes that lie below the end of memory.          *)
LEMMA FlatPeek ==
  ASSUME MemoryInv, NEW s \in Spans, ReadAddrs(s[1], s[2])
  PROVE  Flat!Peek
<1> DEFINE start == s[1]
           len == s[2]
           end == IF start + len < GUEST_MAX_MEM THEN start + len ELSE GUEST_MAX_MEM
           touched == {PageIdx(a) : a \in start .. end - 1}
           m == WithPages(touched)
<1>1. start \in Nat /\ len \in Nat
  BY MemoryAssumption
<1>2. /\ phase = "between" /\ UNCHANGED <<cur_step_read, cur_step_write, phase>>
      /\ IF start \in GUEST_MIN_MEM .. GUEST_MAX_MEM - 1
           THEN map' = m /\ reply' = [ok |-> TRUE,
                                      data |-> [i \in 0 .. end - start - 1 |->
                                                  ReadWord(m, start + i, 1)[0]]]
           ELSE reply' = Refused /\ UNCHANGED map
  BY DEF ReadAddrs
<1>3. CASE start \in GUEST_MIN_MEM .. GUEST_MAX_MEM - 1
  <2> DEFINE indices == {j \in 0 .. len - 1 : start + j < GUEST_MAX_MEM}
  <2>1. indices = 0 .. end - start - 1
    BY <1>1, <1>3, MemoryAssumption
  <2>2. \A a \in start .. end - 1 : a \in Nat /\ InBounds(a) /\ PageIdx(a) \in touched
    BY <1>1, <1>3, MemoryAssumption DEF InBounds
  <2>3. touched \subseteq PageIdx(GUEST_MIN_MEM) .. PageIdx(GUEST_MAX_MEM)
    BY <2>2, PageInBounds
  <2> HIDE DEF touched
  <2>4. /\ DOMAIN m = DOMAIN map \cup touched /\ FlatBytes(m) = FlatBytes(map)
    BY <2>3, PagesAppear DEF MemoryInv, Pages
  <2> HIDE DEF m
  <2>5. ASSUME NEW i \in indices
        PROVE  ReadWord(m, start + i, 1)[0] = FlatBytes(map)[start + i]
    <3> DEFINE a == start + i
    <3>1. a \in start .. end - 1
      BY <1>1, <1>3, MemoryAssumption
    <3>2. a \in Nat /\ InBounds(a) /\ PageIdx(a) \in DOMAIN m
      BY <2>2, <2>4, <3>1
    <3> HIDE DEF a
    <3>3. ReadWord(m, a, 1) = [k \in 0 .. 1 - 1 |-> FlatBytes(m)[Flat!First(a, 1) + k]]
      BY <3>2, LoadFacts DEF Aligned, Loads
    <3>4. Flat!First(a, 1) = a
      BY DEF Flat!First
    <3>5. ReadWord(m, a, 1)[0] = FlatBytes(m)[a]
      BY <3>2, <3>3, <3>4
    <3>6. QED BY <2>4, <3>5 DEF a
  <2> HIDE DEF end, indices
  <2>6. reply' = [ok |-> TRUE, data |-> [i \in indices |-> FlatBytes(map)[start + i]]]
    BY <1>2, <1>3, <2>1, <2>5
  <2>7. FlatBytes(map') = FlatBytes(map)
    BY <1>2, <1>3, <2>4
  <2>8. ~(start < GUEST_MIN_MEM \/ start >= GUEST_MAX_MEM)
    BY <1>1, <1>3, MemoryAssumption
  <2>9. reply' = Flat!Data([i \in {j \in 0 .. s[2] - 1 : s[1] + j < GUEST_MAX_MEM}
                              |-> FlatBytes(map)[s[1] + i]])
    BY <2>6 DEF indices, Flat!Data
  <2>10. QED
    BY <1>2, <2>7, <2>8, <2>9, FlatStays, Zenon DEF Flat!Peek, FlatBytes, WordOf, LaneOf
<1>4. CASE ~(start \in GUEST_MIN_MEM .. GUEST_MAX_MEM - 1)
  <2>1. start < GUEST_MIN_MEM \/ start >= GUEST_MAX_MEM
    BY <1>1, <1>4, MemoryAssumption
  <2>2. reply' = Flat!Refused
    BY <1>2, <1>4 DEF Refused, Flat!Refused
  <2>3. FlatBytes(map') = FlatBytes(map)
    BY <1>2, <1>4
  <2>4. QED BY <1>2, <2>1, <2>2, <2>3, FlatStays DEF Flat!Peek
<1>5. QED BY <1>3, <1>4

(* write_addrs writes up to the first address that is refused.             *)
LEMMA FlatPoke ==
  ASSUME MemoryInv, NEW s \in Spans, NEW data \in StoreData,
         WriteAddrs(s[1], s[2], data)
  PROVE  Flat!Poke
<1> DEFINE span == s[1] .. s[1] + s[2] - 1
           written == Written(s[1], s[2])
<1>1. s[1] \in Nat /\ s[2] \in Nat /\ data \in Word
  BY MemoryAssumption DEF Word
<1>2. FlatBytes(map') = [b \in 0 .. GUEST_MAX_MEM + PageBytes |->
                           IF b \in written THEN data[(b - s[1]) % 4]
                           ELSE FlatBytes(map)[b]]
  BY <1>1, PokeFacts DEF MemoryInv, Pages
<1>3. /\ phase = "between" /\ UNCHANGED <<cur_step_read, cur_step_write, phase>>
      /\ reply' = IF written = span THEN Stored ELSE Refused
  BY DEF WriteAddrs, Written
<1>4. written = span <=> \A c \in span : Flat!Usable(c)
  <2>1. ASSUME NEW c \in span, \A a \in span : Flat!Usable(a)
        PROVE  \A b \in s[1] .. c : InBounds(b)
    BY <1>1, <2>1 DEF Flat!Usable, InBounds
  <2>2. ASSUME NEW c \in span, c \in written PROVE Flat!Usable(c)
    BY <1>1, <2>2 DEF Written, Flat!Usable, InBounds
  <2>3. QED BY <2>1, <2>2 DEF Written
<1>5. \A b : b \in written <=> b \in span /\ \A c \in s[1] .. b : Flat!Usable(c)
  BY DEF Written, Flat!Usable, InBounds
<1>6. reply' = IF \A c \in span : Flat!Usable(c) THEN Flat!Stored ELSE Flat!Refused
  BY <1>3, <1>4 DEF Stored, Refused, Flat!Stored, Flat!Refused, Flat!Data
<1> HIDE DEF written
<1>7. FlatBytes(map') = [b \in 0 .. GUEST_MAX_MEM + PageBytes |->
                           IF b \in span /\ \A c \in s[1] .. b : Flat!Usable(c)
                             THEN data[(b - s[1]) % 4] ELSE FlatBytes(map)[b]]
  BY <1>2, <1>5
<1> DEFINE array == [b \in 0 .. GUEST_MAX_MEM + PageBytes |->
                       IF b \in span /\ \A c \in s[1] .. b : Flat!Usable(c)
                         THEN data[(b - s[1]) % 4] ELSE FlatBytes(map)[b]]
<1>8. [a \in 0 .. GUEST_MAX_MEM + PageBytes |->
         IF PageIdx(a) \in DOMAIN map
           THEN map[PageIdx(a)][Offset(a) \div 4][Offset(a) % 4] ELSE 0]' = array
  BY <1>7, FlatAfter
<1>9. QED
  BY <1>3, <1>6, <1>8, Zenon DEF Flat!Poke, Flat!Addr, FlatBytes, WordOf, LaneOf

(* Every step of the pages is one of the array or none.                    *)
LEMMA FlatNext ==
  ASSUME MemoryInv, [Next]_vars PROVE [Flat!Next]_Flat!memoryVars
<1>1. CASE \E a \in GuestAddr : Fetch(a) \/ FailedAccess(a)
  BY <1>1, FlatFetch, FlatFail DEF Flat!Next
<1>2. CASE \E a \in GuestAddr, size \in {1, 2, 4} :
             \/ ReadMem(a, size)
             \/ \E store_data \in StoreData : WriteMem(a, size, store_data)
  BY <1>2, FlatRead, FlatWrite DEF Flat!Next
<1>3. CASE EndStep
  BY <1>3, FlatEnd DEF Flat!Next
<1>4. CASE \E s \in Spans : \/ ReadAddrs(s[1], s[2])
                            \/ \E data \in StoreData : WriteAddrs(s[1], s[2], data)
  BY <1>4, FlatPeek, FlatPoke DEF Flat!Next
<1>5. CASE \/ \E entry \in WatchArea : AddHwWatchpoint(entry) \/ RemoveHwWatchpoint(entry)
           \/ UNCHANGED vars
  <2>1. UNCHANGED <<map, phase, cur_step_read, cur_step_write, reply>>
    BY <1>5 DEF AddHwWatchpoint, RemoveHwWatchpoint, vars
  <2>2. FlatBytes(map') = FlatBytes(map)
    BY <2>1
  <2>3. QED BY <2>1, <2>2, FlatStays DEF Flat!memoryVars
<1>6. QED
  BY <1>1, <1>2, <1>3, <1>4, <1>5 DEF Next, GuestStep, DebuggerStep

(* Pages of words that appear when touched are a flat array of bytes, for  *)
(* every size of a page and of memory, every mix of access sizes, page     *)
(* crossings and debugger accesses; the debugger's are not charged.        *)
THEOREM PagesAreFlat == Spec => ImplementsFlatMemory
<1>1. Init => Flat!Init
  BY FlatInit
<1>2. MemoryInv /\ [Next]_vars => [Flat!Next]_Flat!memoryVars
  BY FlatNext
<1>3. QED
  BY <1>1, <1>2, MemoryInvariant, PTL DEF Spec, ImplementsFlatMemory, Flat!Spec
=============================================================================
