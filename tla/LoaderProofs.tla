---------------------------- MODULE LoaderProofs ----------------------------
(***************************************************************************)
(* Proofs about Loader: whatever the file, a step of load_elf keeps memory *)
(* equal to what ELF says of the segments copied so far, and a file that   *)
(* is accepted has all that was copied.                                    *)
(***************************************************************************)
EXTENDS Loader, TLAPS

(* How far the loader has come.                                            *)
LoaderStructure ==
  /\ file \in File
  /\ load \in {"header", "segments", "Ok", "Err"}
  /\ segment \in Nat \ {0}
  /\ word \in Nat /\ word % 4 = 0

(* A segment of which the first size bytes have been read.                 *)
Covers(seg, size) ==
  /\ \A n \in 0 .. size - 1 : n < seg.filesz => InFile(file, seg.offset + n)
  /\ size > 0 => seg.vaddr + size <= GUEST_MAX_MEM

(* The current segment is aligned once a word of it has been copied, and   *)
(* words are copied as long as they begin inside it.                       *)
Begun(seg) ==
  word > 0 => seg.vaddr % 4 = 0 /\ word < seg.memsz + 4

Complete ==
  /\ load \in {"segments", "Ok"} =>
       \A n \in DOMAIN file.segments :
         n < segment /\ file.segments[n].load
           => Covers(file.segments[n], file.segments[n].memsz)
  /\ load = "segments" /\ segment \in DOMAIN file.segments =>
       /\ ~At.load => word = 0
       /\ Begun(At) /\ Covers(At, word)
  /\ load = "header" => segment = 1 /\ word = 0
  /\ load = "Ok" => segment > Len(file.segments)

(* The segments that have an address of those copied so far, and what the  *)
(* last of them has there.                                                 *)
Copied(n) ==
  LET seg == file.segments[n]
  IN  IF n < segment THEN Extent(seg) ELSE seg.vaddr .. seg.vaddr + word - 1

Holding(a) ==
  {n \in DOMAIN file.segments :
     file.segments[n].load /\ n <= segment /\ a \in Copied(n)}

ByteOf(seg, a) ==
  IF ~InBounds(a) \/ a - seg.vaddr >= seg.filesz THEN 0
  ELSE file.data[seg.offset + a - seg.vaddr + 1]

HasLast(a, b) ==
  \/ Holding(a) = {} /\ b = 0
  \/ \E n \in Holding(a) : /\ \A m \in Holding(a) : m <= n
                           /\ b = ByteOf(file.segments[n], a)

Imaged ==
  /\ bytes \in [Addr -> Byte]
  /\ load # "Err" => \A a \in Addr : HasLast(a, bytes[a])

LoaderInv == LoaderStructure /\ Complete /\ Imaged

-----------------------------------------------------------------------------
(* Guest memory begins and ends at a word.                                 *)
LEMMA AddrFacts ==
  /\ Addr \subseteq Int
  /\ GUEST_MAX_MEM \in Nat /\ GUEST_MIN_MEM \in Nat
  /\ GUEST_MAX_MEM % 4 = 0 /\ GUEST_MIN_MEM % 4 = 0
BY BoundsAssumption DEF Addr

(* The numbers of a program header are natural.                            *)
LEMMA SegmentFacts ==
  ASSUME LoaderStructure, NEW n \in DOMAIN file.segments
  PROVE  /\ n \in Nat \ {0} /\ n <= Len(file.segments)
         /\ Len(file.segments) \in Nat
         /\ file.segments[n] \in Segment
         /\ file.segments[n].vaddr \in Nat /\ file.segments[n].memsz \in Nat
         /\ file.segments[n].filesz \in Nat /\ file.segments[n].offset \in Nat
         /\ file.segments[n].load \in BOOLEAN
<1>1. file.segments \in Seq(Segment)
  BY DEF LoaderStructure, File
<1>2. file.segments[n] \in Segment /\ n \in Nat \ {0} /\ n <= Len(file.segments)
      /\ Len(file.segments) \in Nat
  BY <1>1
<1>3. QED BY <1>2 DEF Segment

(* The last word that fits begins four bytes below its end.                *)
LEMMA AlignedFits ==
  ASSUME NEW v \in Nat, NEW w \in Nat, v % 4 = 0, w % 4 = 0,
         v + w < GUEST_MAX_MEM
  PROVE  v + w + 4 <= GUEST_MAX_MEM
BY AddrFacts

(* The words of a segment, once all of them are copied.                    *)
LEMMA ExtentFacts ==
  ASSUME NEW seg, seg.memsz \in Nat, seg.vaddr \in Nat, NEW w \in Nat, w % 4 = 0,
         w >= seg.memsz, w > 0 => w < seg.memsz + 4
  PROVE  Extent(seg) = seg.vaddr .. seg.vaddr + w - 1
<1> DEFINE size == seg.memsz
<1>1. 4 * ((size + 3) \div 4) = w
  <2>1. size \in Nat /\ w >= size /\ (w > 0 => w < size + 4)
    OBVIOUS
  <2> HIDE DEF size
  <2>2. QED BY <2>1
<1>2. QED BY <1>1 DEF Extent

-----------------------------------------------------------------------------
(* The loader's position stays within the file and its segment.            *)
LEMMA StructureStep ==
  ASSUME LoaderStructure, LoaderStep
  PROVE  LoaderStructure'
<1>1. CASE CheckHeader
  BY <1>1 DEF LoaderStructure, CheckHeader
<1>2. CASE Skip
  BY <1>2 DEF LoaderStructure, Skip, InSegment
<1>3. CASE CopyWord
  <2>1. word' \in Nat /\ word' % 4 = 0
    BY <1>3 DEF LoaderStructure, CopyWord
  <2>2. UNCHANGED <<file, load, segment>>
    BY <1>3 DEF CopyWord
  <2>3. QED BY <2>1, <2>2 DEF LoaderStructure
<1>4. CASE RefuseFile
  BY <1>4 DEF LoaderStructure, RefuseFile
<1>5. CASE EndSegment
  BY <1>5 DEF LoaderStructure, EndSegment
<1>6. CASE Loaded
  BY <1>6 DEF LoaderStructure, Loaded
<1>7. QED BY <1>1, <1>2, <1>3, <1>4, <1>5, <1>6 DEF LoaderStep

(* A segment is aligned, and covered as far as it has been copied.         *)
LEMMA CopyWordCovers ==
  ASSUME LoaderStructure, Complete, CopyWord
  PROVE  /\ segment \in DOMAIN file.segments /\ At.load
         /\ At.vaddr \in Nat /\ At.memsz \in Nat /\ At.filesz \in Nat
         /\ At.offset \in Nat
         /\ At.vaddr % 4 = 0 /\ word < At.memsz
         /\ At.vaddr + word < GUEST_MAX_MEM
         /\ Covers(At, word + 4)
<1>1. /\ segment \in DOMAIN file.segments /\ At.load /\ load = "segments"
      /\ At.vaddr % 4 = 0 /\ word < At.memsz /\ WordOk(At, word)
  BY DEF CopyWord, InSegment, SegmentOk
<1>2. /\ At.vaddr \in Nat /\ At.memsz \in Nat /\ At.filesz \in Nat
      /\ At.offset \in Nat /\ word \in Nat /\ word % 4 = 0
  BY <1>1, SegmentFacts DEF At, LoaderStructure
<1>3. /\ At.vaddr + word < GUEST_MAX_MEM
      /\ \A j \in 0 .. 3 : word + j < At.filesz => InFile(file, At.offset + word + j)
  BY <1>1 DEF WordOk, FileBytes
<1>4. Covers(At, word)
  BY <1>1 DEF Complete
<1>5. ASSUME NEW n \in 0 .. (word + 4) - 1, n < At.filesz
      PROVE  InFile(file, At.offset + n)
  <2>1. CASE n < word
    BY <1>2, <1>4, <1>5, <2>1 DEF Covers
  <2>2. CASE n >= word
    <3>1. n - word \in 0 .. 3 /\ word + (n - word) = n
          /\ At.offset + word + (n - word) = At.offset + n
      BY <1>2, <2>2
    <3>2. QED BY <1>3, <1>5, <3>1
  <2>3. QED BY <1>2, <2>1, <2>2
<1>6. At.vaddr + (word + 4) <= GUEST_MAX_MEM
  BY <1>1, <1>2, <1>3, AlignedFits, AddrFacts
<1>7. QED BY <1>1, <1>2, <1>3, <1>5, <1>6 DEF Covers

(* A segment that ends is covered to its end.                              *)
LEMMA EndSegmentCovers ==
  ASSUME LoaderStructure, Complete, EndSegment
  PROVE  /\ segment \in DOMAIN file.segments /\ At.load /\ load = "segments"
         /\ Covers(At, At.memsz)
         /\ Extent(At) = At.vaddr .. At.vaddr + word - 1
<1>1. /\ segment \in DOMAIN file.segments /\ At.load /\ load = "segments"
      /\ word >= At.memsz
  BY DEF EndSegment, InSegment
<1>2. /\ At.vaddr \in Nat /\ At.memsz \in Nat /\ word \in Nat /\ word % 4 = 0
  BY <1>1, SegmentFacts DEF At, LoaderStructure
<1>3. Covers(At, word) /\ (word > 0 => word < At.memsz + 4)
  BY <1>1 DEF Complete, Begun
<1>4. Extent(At) = At.vaddr .. At.vaddr + word - 1
  BY <1>1, <1>2, <1>3, ExtentFacts
<1>5. Covers(At, At.memsz)
  BY <1>1, <1>2, <1>3, AddrFacts DEF Covers
<1>6. QED BY <1>1, <1>4, <1>5

(* The loader takes no segment for copied that is not covered.             *)
LEMMA CompleteStep ==
  ASSUME LoaderStructure, Complete, LoaderStep
  PROVE  Complete'
<1>1. segment \in Nat \ {0} /\ word \in Nat /\ Len(file.segments) \in Nat
      /\ DOMAIN file.segments = 1 .. Len(file.segments)
  BY DEF LoaderStructure, File
<1>2. file' = file
  BY DEF LoaderStep, CheckHeader, Skip, CopyWord, RefuseFile, EndSegment, Loaded
<1>3. CASE CheckHeader
  <2>1. segment' = 1 /\ word' = 0 /\ load' \in {"segments", "Err"}
    BY <1>3 DEF CheckHeader, Complete
  <2>2. QED BY <1>1, <1>2, <2>1 DEF Complete, Covers, Begun
<1>4. CASE Skip
  <2>1. /\ ~At.load /\ load = "segments" /\ load' = "segments"
        /\ segment' = segment + 1 /\ word' = word /\ word = 0
    BY <1>4 DEF Skip, InSegment, Complete
  <2>2. QED BY <1>1, <1>2, <2>1 DEF Complete, Covers, Begun, At, InFile
<1>5. CASE CopyWord
  <2>1. /\ segment \in DOMAIN file.segments /\ At.load /\ Covers(At, word + 4)
        /\ At.vaddr % 4 = 0 /\ word < At.memsz /\ At.memsz \in Nat
    BY <1>5, CopyWordCovers
  <2>2. load = "segments" /\ UNCHANGED <<load, segment>> /\ word' = word + 4
    BY <1>5 DEF CopyWord, InSegment
  <2>3. At' = At
    BY <1>2, <2>2 DEF At
  <2>4. Begun(At)'
    BY <1>1, <2>1, <2>2, <2>3 DEF Begun
  <2>5. Covers(At, word)'
    BY <1>2, <2>1, <2>2, <2>3 DEF Covers, InFile
  <2>6. QED BY <1>1, <1>2, <2>1, <2>2, <2>3, <2>4, <2>5 DEF Complete, Covers, InFile
<1>6. CASE RefuseFile
  <2>1. load' = "Err"
    BY <1>6 DEF RefuseFile
  <2>2. QED BY <2>1 DEF Complete
<1>7. CASE EndSegment
  <2>1. Covers(At, At.memsz) /\ load = "segments"
    BY <1>7, EndSegmentCovers
  <2>2. load' = load /\ segment' = segment + 1 /\ word' = 0
    BY <1>7 DEF EndSegment
  <2>3. QED BY <1>1, <1>2, <2>1, <2>2 DEF Complete, Covers, Begun, At, InFile
<1>8. CASE Loaded
  <2>1. /\ load = "segments" /\ load' = "Ok" /\ segment > Len(file.segments)
        /\ UNCHANGED <<segment, word>>
    BY <1>8 DEF Loaded
  <2>2. QED BY <1>1, <1>2, <2>1 DEF Complete, Covers, InFile
<1>9. QED BY <1>3, <1>4, <1>5, <1>6, <1>7, <1>8 DEF LoaderStep

-----------------------------------------------------------------------------
(* The image so far.                                                       *)

(* A step that keeps what is held at an address and the byte there.        *)
LEMMA HasLastStays ==
  ASSUME NEW a, NEW b, HasLast(a, b), Holding(a)' = Holding(a), file' = file
  PROVE  HasLast(a, b)'
BY DEF HasLast, ByteOf

(* Beginning the next segment adds nothing to what is held.                *)
LEMMA NextSegmentHolds ==
  ASSUME LoaderStructure, file' = file, segment' = segment + 1, word' = 0,
         NEW a,
         segment \in DOMAIN file.segments /\ file.segments[segment].load
           => Extent(file.segments[segment])
                = file.segments[segment].vaddr .. file.segments[segment].vaddr + word - 1
  PROVE  Holding(a)' = Holding(a)
<1> SUFFICES ASSUME NEW n \in DOMAIN file.segments, file.segments[n].load
             PROVE  (n <= segment /\ a \in Copied(n))
                      <=> (n <= segment' /\ a \in Copied(n)')
  BY DEF Holding
<1>1. n \in Nat /\ segment \in Nat /\ file.segments[n].vaddr \in Nat
  BY SegmentFacts DEF LoaderStructure
<1>2. CASE n < segment
  <2>1. Copied(n)' = Copied(n)
    BY <1>1, <1>2 DEF Copied, Extent
  <2>2. n <= segment /\ n <= segment'
    BY <1>1, <1>2
  <2>3. QED BY <2>1, <2>2, Zenon
<1>3. CASE n = segment
  <2>1. Copied(n) = file.segments[n].vaddr .. file.segments[n].vaddr + word - 1
    BY <1>1, <1>3 DEF Copied
  <2>2. Copied(n)' = Extent(file.segments[n])
    BY <1>1, <1>3 DEF Copied, Extent
  <2>3. Copied(n)' = Copied(n)
    BY <1>3, <2>1, <2>2, Zenon
  <2>4. n <= segment /\ n <= segment'
    BY <1>1, <1>3
  <2>5. QED BY <2>3, <2>4, Zenon
<1>4. CASE n = segment + 1
  <2>1. Copied(n)' = {}
    BY <1>1, <1>4 DEF Copied
  <2>2. QED BY <1>1, <1>4, <2>1
<1>5. CASE n > segment + 1
  BY <1>1, <1>5
<1>6. QED BY <1>1, <1>2, <1>3, <1>4, <1>5

(* Copying a word adds its four addresses to what is held.                 *)
LEMMA CopyWordHolds ==
  ASSUME LoaderStructure, CopyWord, NEW a \in Addr,
         segment \in DOMAIN file.segments, At.load, At.vaddr \in Nat
  PROVE  /\ a \notin At.vaddr + word .. At.vaddr + word + 3
              => Holding(a)' = Holding(a)
         /\ a \in At.vaddr + word .. At.vaddr + word + 3
              => segment \in Holding(a)' /\ \A m \in Holding(a)' : m <= segment
<1>1. UNCHANGED <<file, segment>> /\ word' = word + 4
  BY DEF CopyWord
<1>2. segment \in Nat /\ word \in Nat /\ a \in Int
  BY AddrFacts DEF LoaderStructure
<1>3. ASSUME NEW n \in DOMAIN file.segments, n <= segment,
             a \notin At.vaddr + word .. At.vaddr + word + 3
      PROVE  a \in Copied(n)' <=> a \in Copied(n)
  <2>1. n \in Nat
    BY SegmentFacts
  <2>2. CASE n < segment
    BY <1>1, <2>2 DEF Copied, Extent
  <2>3. CASE n = segment
    BY <1>1, <1>2, <1>3, <2>3 DEF Copied, At
  <2>4. QED BY <1>2, <1>3, <2>1, <2>2, <2>3
<1>4. a \notin At.vaddr + word .. At.vaddr + word + 3 => Holding(a)' = Holding(a)
  BY <1>1, <1>3 DEF Holding
<1>5. a \in At.vaddr + word .. At.vaddr + word + 3 => segment \in Holding(a)'
  BY <1>1, <1>2 DEF Holding, Copied, At
<1>6. \A m \in Holding(a)' : m <= segment
  BY <1>1 DEF Holding
<1>7. QED BY <1>4, <1>5, <1>6

(* The bounds of memory are those of words.                                *)
LEMMA WordInBounds ==
  ASSUME NEW v \in Nat, v % 4 = 0, v < GUEST_MAX_MEM, NEW a \in v .. v + 3
  PROVE  InBounds(a) <=> InBounds(v)
BY AddrFacts DEF InBounds

(* What CopyWord writes is what ELF says of the segment.                   *)
LEMMA CopyWordWrites ==
  ASSUME LoaderStructure, Complete, Imaged, CopyWord, NEW a \in Addr
  PROVE  /\ a \in At.vaddr + word .. At.vaddr + word + 3 => bytes'[a] = ByteOf(At, a)
         /\ a \notin At.vaddr + word .. At.vaddr + word + 3 => bytes'[a] = bytes[a]
<1> DEFINE addr == At.vaddr + word
           seg == At
<1>1. /\ segment \in DOMAIN file.segments /\ seg.load
      /\ seg.vaddr \in Nat /\ seg.filesz \in Nat /\ seg.offset \in Nat
      /\ seg.vaddr % 4 = 0 /\ addr < GUEST_MAX_MEM
      /\ Covers(seg, word + 4)
  BY CopyWordCovers
<1>2. word \in Nat /\ word % 4 = 0 /\ a \in Int /\ DOMAIN bytes = Addr
  BY AddrFacts DEF LoaderStructure, Imaged
<1>3. addr \in Nat /\ addr % 4 = 0
  BY <1>1, <1>2
<1>4. /\ ~InBounds(addr) => bytes' = bytes
      /\ InBounds(addr) /\ a \notin addr .. addr + 3 => bytes'[a] = bytes[a]
      /\ InBounds(addr) /\ a \in addr .. addr + 3 =>
           bytes'[a] = IF /\ (a - addr) \in FileBytes(seg, word)
                          /\ InFile(file, seg.offset + word + (a - addr))
                         THEN file.data[seg.offset + word + (a - addr) + 1] ELSE 0
  BY DEF CopyWord
<1> HIDE DEF seg
<1>5. ASSUME a \in addr .. addr + 3, InBounds(addr)
      PROVE  bytes'[a] = ByteOf(seg, a)
  <2> DEFINE j == a - addr
  <2>1. j \in 0 .. 3 /\ word + j = a - At.vaddr /\ At.vaddr \in Nat
    BY <1>1, <1>2, <1>3, <1>5 DEF seg
  <2>2. InBounds(a)
    BY <1>1, <1>3, <1>5, WordInBounds
  <2>3. CASE word + j < seg.filesz
    <3>1. j \in FileBytes(seg, word)
      BY <2>1, <2>3 DEF FileBytes
    <3>2. word + j \in 0 .. (word + 4) - 1
      BY <1>2, <2>1
    <3>3. InFile(file, seg.offset + (word + j))
      <4> DEFINE n == word + j
      <4>1. n \in 0 .. (word + 4) - 1 /\ n < seg.filesz
        BY <2>3, <3>2
      <4> HIDE DEF n
      <4>2. InFile(file, seg.offset + n)
        BY <1>1, <4>1 DEF Covers
      <4>3. QED BY <4>2 DEF n
    <3>4. /\ seg.offset + (word + j) = seg.offset + word + j
          /\ seg.offset + word + j + 1 = seg.offset + a - At.vaddr + 1
      BY <1>1, <1>2, <2>1
    <3>5. bytes'[a] = file.data[seg.offset + a - At.vaddr + 1]
      BY <1>4, <1>5, <3>1, <3>3, <3>4
    <3>6. ~(a - At.vaddr >= seg.filesz)
      BY <1>1, <2>1, <2>3, <1>2
    <3>7. QED BY <2>2, <3>5, <3>6 DEF ByteOf, seg
  <2>4. CASE ~(word + j < seg.filesz)
    <3>1. j \notin FileBytes(seg, word)
      BY <2>4 DEF FileBytes
    <3>2. a - At.vaddr >= seg.filesz
      BY <1>1, <1>2, <2>1, <2>4
    <3>3. QED BY <1>4, <1>5, <3>1, <3>2 DEF ByteOf, seg
  <2>5. QED BY <2>3, <2>4
<1>6. ASSUME a \in addr .. addr + 3, ~InBounds(addr)
      PROVE  bytes'[a] = ByteOf(seg, a)
  <2>1. ~InBounds(a)
    BY <1>1, <1>3, <1>6, WordInBounds
  <2>2. HasLast(a, bytes[a])
    BY DEF Imaged, CopyWord, InSegment
  <2>3. bytes[a] = 0
    BY <2>1, <2>2 DEF HasLast, ByteOf
  <2>4. QED BY <1>4, <1>6, <2>1, <2>3 DEF ByteOf
<1>7. a \notin addr .. addr + 3 => bytes'[a] = bytes[a]
  BY <1>4
<1>8. QED BY <1>5, <1>6, <1>7 DEF seg

(* What is loaded are bytes.                                               *)
LEMMA LoadsBytes ==
  ASSUME LoaderStructure, bytes \in [Addr -> Byte], LoaderStep
  PROVE  bytes' \in [Addr -> Byte]
<1>1. CASE CopyWord
  <2> DEFINE seg == At
             byte(j) == IF /\ j \in FileBytes(seg, word)
                           /\ InFile(file, seg.offset + word + j)
                          THEN file.data[seg.offset + word + j + 1] ELSE 0
             addr == seg.vaddr + word
  <2>1. bytes' = IF InBounds(addr)
                   THEN [a \in Addr |-> IF a \in addr .. addr + 3
                                          THEN byte(a - addr) ELSE bytes[a]]
                   ELSE bytes
    BY <1>1 DEF CopyWord
  <2>2. file.data \in Seq(Byte) /\ 0 \in Byte
    BY BoundsAssumption DEF LoaderStructure, File, Byte
  <2>3. ASSUME NEW j PROVE byte(j) \in Byte
    BY <2>2 DEF InFile
  <2> HIDE DEF byte, addr
  <2>4. QED BY <2>1, <2>3
<1>2. CASE ~CopyWord
  BY <1>2 DEF LoaderStep, CheckHeader, Skip, RefuseFile, EndSegment, Loaded
<1>3. QED BY <1>1, <1>2

(* load_elf writes each word where Image has it, zeros behind the file's   *)
(* part, over what earlier segments have left there.                       *)
LEMMA ImagedStep ==
  ASSUME LoaderStructure, Complete, Imaged, LoaderStep
  PROVE  Imaged'
<1>0. bytes' \in [Addr -> Byte]
  BY LoadsBytes DEF Imaged
<1>1. CASE load' = "Err"
  BY <1>0, <1>1 DEF Imaged
<1> SUFFICES ASSUME load' # "Err" PROVE Imaged'
  BY <1>1
<1>2. load # "Err" /\ file' = file
  BY DEF LoaderStep, CheckHeader, Skip, CopyWord, RefuseFile, EndSegment, Loaded,
         InSegment
<1>3. \A a \in Addr : HasLast(a, bytes[a])
  BY <1>2 DEF Imaged
<1>4. CASE UNCHANGED <<bytes, segment, word>>
  <2>1. \A a \in Addr : Holding(a)' = Holding(a)
    BY <1>2, <1>4 DEF Holding, Copied, Extent
  <2>2. ASSUME NEW a \in Addr PROVE HasLast(a, bytes[a])'
    <3>1. bytes'[a] = bytes[a]
      BY <1>4
    <3>2. QED BY <1>2, <1>3, <2>1, <3>1 DEF HasLast, ByteOf
  <2>3. QED BY <1>0, <2>2 DEF Imaged
<1>5. CASE Skip \/ EndSegment
  <2>1. /\ segment' = segment + 1 /\ word' = 0 /\ bytes' = bytes
        /\ segment \in DOMAIN file.segments /\ file.segments[segment].load
             => Extent(file.segments[segment])
                  = file.segments[segment].vaddr
                      .. file.segments[segment].vaddr + word - 1
    <3>1. CASE Skip
      <4>1. ~file.segments[segment].load /\ word = 0
        BY <3>1 DEF Skip, InSegment, Complete, At
      <4>2. QED BY <3>1, <4>1 DEF Skip
    <3>2. CASE EndSegment
      BY <3>2, EndSegmentCovers DEF EndSegment, At
    <3>3. QED BY <1>5, <3>1, <3>2
  <2>2. ASSUME NEW a \in Addr PROVE HasLast(a, bytes[a])'
    <3>1. Holding(a)' = Holding(a)
      BY <1>2, <2>1, NextSegmentHolds
    <3>2. bytes'[a] = bytes[a]
      BY <2>1
    <3>3. QED BY <1>2, <1>3, <3>1, <3>2 DEF HasLast, ByteOf
  <2>3. QED BY <1>0, <2>2 DEF Imaged
<1>6. CASE CopyWord
  <2>1. /\ segment \in DOMAIN file.segments /\ At.load /\ At.vaddr \in Nat
        /\ segment' = segment
    BY <1>6, CopyWordCovers DEF CopyWord
  <2>2. ASSUME NEW a \in Addr PROVE HasLast(a, bytes[a])'
    <3>1. CASE a \in At.vaddr + word .. At.vaddr + word + 3
      <4>1. segment \in Holding(a)' /\ \A m \in Holding(a)' : m <= segment
        BY <1>6, <2>1, <3>1, CopyWordHolds
      <4>2. bytes'[a] = ByteOf(At, a)
        BY <1>2, <1>6, <3>1, CopyWordWrites
      <4>3. ByteOf(file.segments[segment], a)' = ByteOf(At, a)
        BY <1>2, <2>1 DEF ByteOf, At
      <4>4. QED BY <1>2, <2>1, <4>1, <4>2, <4>3 DEF HasLast
    <3>2. CASE a \notin At.vaddr + word .. At.vaddr + word + 3
      <4>1. Holding(a)' = Holding(a)
        BY <1>6, <2>1, <3>2, CopyWordHolds
      <4>2. bytes'[a] = bytes[a]
        BY <1>2, <1>6, <3>2, CopyWordWrites
      <4>3. QED BY <1>2, <1>3, <4>1, <4>2 DEF HasLast, ByteOf
    <3>3. QED BY <3>1, <3>2
  <2>3. QED BY <1>0, <2>2 DEF Imaged
<1>7. CASE CheckHeader \/ RefuseFile \/ Loaded
  <2>1. UNCHANGED <<bytes, segment, word>>
    BY <1>7 DEF CheckHeader, RefuseFile, Loaded
  <2>2. QED BY <1>4, <2>1
<1>8. QED BY <1>5, <1>6, <1>7 DEF LoaderStep

(* Every step of load_elf preserves the invariant.                         *)
THEOREM LoaderStepInv ==
  ASSUME LoaderInv, LoaderStep
  PROVE  LoaderInv'
BY StructureStep, CompleteStep, ImagedStep DEF LoaderInv

(* The loader starts with empty memory and no segment loaded.              *)
THEOREM LoaderInitInv ==
  ASSUME LoaderInit, file \in File
  PROVE  LoaderInv
<1>1. LoaderStructure
  BY DEF LoaderInit, LoaderStructure
<1>2. Complete
  BY DEF LoaderInit, Complete
<1>3. ASSUME NEW a \in Addr PROVE HasLast(a, bytes[a])
  <2>1. bytes[a] = 0 /\ segment = 1 /\ word = 0
    BY DEF LoaderInit
  <2>2. ASSUME NEW n \in DOMAIN file.segments, n <= segment
        PROVE  a \notin Copied(n)
    <3>1. n = 1 /\ file.segments[n].vaddr \in Nat
      BY <1>1, <2>1, <2>2, SegmentFacts
    <3>2. Copied(n) = {}
      BY <2>1, <3>1 DEF Copied
    <3>3. QED BY <3>2
  <2>3. Holding(a) = {}
    BY <2>2 DEF Holding
  <2>4. QED BY <2>1, <2>3 DEF HasLast
<1>4. bytes \in [Addr -> Byte]
  BY BoundsAssumption DEF LoaderInit, Byte
<1>5. QED BY <1>1, <1>2, <1>3, <1>4 DEF LoaderInv, Imaged

(* A file that is accepted has all it says is to be loaded.                *)
THEOREM AcceptedIsComplete ==
  ASSUME LoaderStructure, Complete
  PROVE  OkMeansComplete
<1> SUFFICES ASSUME load = "Ok", NEW n \in DOMAIN file.segments,
                    file.segments[n].load
             PROVE  LET seg == file.segments[n]
                    IN  /\ \A k \in 0 .. seg.memsz - 1 :
                             k < seg.filesz => InFile(file, seg.offset + k)
                        /\ seg.memsz > 0 => seg.vaddr + seg.memsz <= GUEST_MAX_MEM
  BY DEF OkMeansComplete, LoadSegments
<1>1. segment > Len(file.segments)
  BY DEF Complete
<1>2. n < segment
  BY <1>1, SegmentFacts DEF LoaderStructure
<1>3. Covers(file.segments[n], file.segments[n].memsz)
  BY <1>2 DEF Complete
<1>4. QED BY <1>3 DEF Covers

(* The memory that is loaded is the image that ELF describes.              *)
THEOREM LoadedIsImage ==
  ASSUME LoaderInv, load = "Ok"
  PROVE  bytes = Image(file)
<1>1. LoaderStructure /\ segment > Len(file.segments) /\ Imaged
  BY DEF LoaderInv, Complete
<1>2. ASSUME NEW a \in Addr PROVE bytes[a] = Image(file)[a]
  <2> DEFINE holding == {n \in DOMAIN file.segments :
                file.segments[n].load /\ a \in Extent(file.segments[n])}
             top == CHOOSE n \in holding : \A m \in holding : m <= n
             last == file.segments[top]
  <2>1. Image(file)[a] =
          IF holding = {} \/ ~InBounds(a) \/ a - last.vaddr >= last.filesz
          THEN 0 ELSE file.data[last.offset + a - last.vaddr + 1]
    BY DEF Image, ImageAt
  <2>2. ASSUME NEW n \in DOMAIN file.segments
        PROVE  n <= segment /\ Copied(n) = Extent(file.segments[n])
    <3>1. n \in Nat /\ segment \in Nat /\ Len(file.segments) \in Nat
          /\ n <= Len(file.segments)
      BY <1>1, SegmentFacts DEF LoaderStructure
    <3>2. n < segment
      BY <1>1, <3>1
    <3>3. QED BY <3>1, <3>2 DEF Copied
  <2>3. Holding(a) = holding
    BY <2>2 DEF Holding
  <2>4. HasLast(a, bytes[a])
    BY <1>1 DEF Imaged
  <2> HIDE DEF holding
  <2>5. CASE holding = {}
    BY <2>1, <2>3, <2>4, <2>5 DEF HasLast
  <2>6. CASE holding # {}
    <3>1. PICK n \in holding : /\ \A m \in holding : m <= n
                               /\ bytes[a] = ByteOf(file.segments[n], a)
      BY <2>3, <2>4, <2>6 DEF HasLast
    <3>2. holding \subseteq Nat
      BY <1>1, SegmentFacts DEF holding
    <3>3. top \in holding /\ \A m \in holding : m <= top
      BY <3>1
    <3> HIDE DEF top
    <3>4. top \in Nat /\ n \in Nat /\ top <= n /\ n <= top
      BY <3>1, <3>2, <3>3
    <3>5. top = n
      BY <3>4
    <3>6. QED BY <2>1, <2>6, <3>1, <3>5 DEF ByteOf
  <2>7. QED BY <2>5, <2>6
<1>3. Image(file) = [a \in Addr |-> Image(file)[a]]
  BY DEF Image
<1>4. bytes = [a \in Addr |-> bytes[a]]
  BY <1>1 DEF Imaged
<1>5. QED BY <1>2, <1>3, <1>4

(* load_elf refuses no file that is well-formed: no word of such a file    *)
(* begins beyond the maximum address or comes from behind the file's end,  *)
(* also where the file's part of a segment ends in the middle of a word.   *)
THEOREM WellFormedGoesOn ==
  ASSUME LoaderStructure, WellFormed(file), load # "Err", LoaderStep
  PROVE  load' # "Err"
<1>1. HeaderOk(file)
  BY DEF WellFormed
<1>2. ~RefuseFile
  <2> SUFFICES ASSUME InSegment(TRUE),
                      ~SegmentOk(At) \/ (word < At.memsz /\ ~WordOk(At, word))
               PROVE  FALSE
    BY DEF RefuseFile
  <2> DEFINE seg == At
  <2>1. segment \in DOMAIN file.segments /\ seg \in LoadSegments(file)
    BY DEF InSegment, At, LoadSegments
  <2>2. /\ seg.vaddr \in Nat /\ seg.offset \in Nat /\ seg.filesz \in Nat /\ seg.memsz \in Nat
    BY <2>1, SegmentFacts DEF LoaderStructure, At
  <2>3. /\ seg.vaddr % 4 = 0 /\ seg.filesz <= seg.memsz /\ seg.memsz < GUEST_MAX_MEM
        /\ seg.vaddr + seg.memsz <= GUEST_MAX_MEM
        /\ seg.offset + seg.filesz <= Len(file.data)
    BY <2>1 DEF WellFormed
  <2>4. word \in Nat /\ GUEST_MAX_MEM \in Nat /\ file.data \in Seq(Byte)
    BY BoundsAssumption DEF LoaderStructure, File
  <2> HIDE DEF seg
  <2>5. SegmentOk(seg)
    BY <2>2, <2>3, <2>4 DEF SegmentOk
  <2>6. ASSUME word < seg.memsz PROVE WordOk(seg, word)
    <3>1. seg.vaddr + word < GUEST_MAX_MEM
      BY <2>2, <2>3, <2>4, <2>6
    <3>2. ASSUME NEW j \in FileBytes(seg, word)
          PROVE  InFile(file, seg.offset + word + j)
      <4>1. j \in 0 .. 3 /\ word + j < seg.filesz
        BY <3>2 DEF FileBytes
      <4>2. Len(file.data) \in Nat /\ j \in Nat
        BY <2>4, <4>1
      <4>3. seg.offset + word + j + 1 \in 1 .. Len(file.data)
        <5>1. seg.offset + (word + j) < seg.offset + seg.filesz
          BY <2>2, <2>4, <4>1, <4>2
        <5>2. QED BY <2>2, <2>3, <2>4, <4>2, <5>1
      <4>4. QED BY <2>4, <4>3 DEF InFile
    <3>3. QED BY <3>1, <3>2 DEF WordOk
  <2>7. QED BY <2>5, <2>6 DEF seg
<1>3. QED BY <1>1, <1>2 DEF LoaderStep, CheckHeader, Skip, CopyWord, EndSegment, Loaded
=============================================================================
