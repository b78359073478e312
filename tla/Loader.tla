------------------------------- MODULE Loader -------------------------------
(***************************************************************************)
(* load_elf of src/vm/loader.rs: the header of an ELF file is checked and  *)
(* its PT_LOAD segments are copied to the guest's memory word by word.     *)
(* What elf::ElfBytes finds in the file is a record; numbers are those of  *)
(* a 32-bit file, so the conversions to u32 do not fail.                   *)
(***************************************************************************)
EXTENDS ByteMemory

CONSTANT MaxSegments   (* 256 *)

ASSUME LoaderAssumption == MaxSegments \in Nat

VARIABLES
  file,
  load,            (* header, segments, Ok, Err                            *)
  segment, word    (* the word at this offset of this segment is next      *)

(* readable: main can open and read it; parsed: the header and the segment *)
(* table make sense.                                                       *)
Segment == [load : BOOLEAN, offset : Nat, vaddr : Nat, filesz : Nat, memsz : Nat]
File == [readable : BOOLEAN, parsed : BOOLEAN, class : {"ELF32", "ELF64"}, machine : {"RISCV", "other"},
         type : {"EXEC", "other"}, entry : Nat, segments : Seq(Segment),
         data : Seq(Byte)]

loaderVars == <<file, load, segment, word>>

LoaderInit ==
  /\ load = "header"
  /\ bytes = [a \in Addr |-> 0]
  /\ segment = 1 /\ word = 0

HeaderOk(f) ==
  /\ f.parsed /\ f.class = "ELF32" /\ f.machine = "RISCV" /\ f.type = "EXEC"
  /\ f.entry < GUEST_MAX_MEM /\ f.entry % 4 = 0
  /\ Len(f.segments) <= MaxSegments

CheckHeader ==
  /\ load = "header"
  /\ load' = IF HeaderOk(file) THEN "segments" ELSE "Err"
  /\ UNCHANGED <<file, bytes, segment, word>>

-----------------------------------------------------------------------------
At == file.segments[segment]

InSegment(loaded) ==
  load = "segments" /\ segment \in DOMAIN file.segments /\ At.load = loaded

Skip ==
  /\ InSegment(FALSE)
  /\ segment' = segment + 1
  /\ UNCHANGED <<file, load, bytes, word>>

SegmentOk(seg) ==
  seg.filesz < GUEST_MAX_MEM /\ seg.memsz < GUEST_MAX_MEM /\ seg.vaddr % 4 = 0

(* Fault: a word is read whole where the file's part of the segment ends.  *)
FileBytesWhole(seg, n) == IF n >= seg.filesz THEN {} ELSE 0 .. 3

(* The bytes of word n that come from the file.                            *)
FileBytes(seg, n) == {j \in 0 .. 3 : n + j < seg.filesz}

InFile(f, pos) == pos + 1 \in DOMAIN f.data

(* Fault: bytes that the file has not got are zeros.                       *)
WordOkAnyOffset(seg, n) == seg.vaddr + n < GUEST_MAX_MEM

WordOk(seg, n) ==
  /\ seg.vaddr + n < GUEST_MAX_MEM
  /\ \A j \in FileBytes(seg, n) : InFile(file, seg.offset + n + j)

(* write_mem refuses an address below GUEST_MIN_MEM, which is ignored.     *)
CopyWord ==
  /\ InSegment(TRUE)
  /\ LET seg == At
         addr == seg.vaddr + word
         byte(j) == IF j \in FileBytes(seg, word) /\ InFile(file, seg.offset + word + j)
                      THEN file.data[seg.offset + word + j + 1] ELSE 0
     IN  /\ SegmentOk(seg) /\ word < seg.memsz /\ WordOk(seg, word)
         /\ bytes' = IF InBounds(addr)
                       THEN [a \in Addr |-> IF a \in addr .. addr + 3
                                              THEN byte(a - addr) ELSE bytes[a]]
                       ELSE bytes
  /\ word' = word + 4
  /\ UNCHANGED <<file, load, segment>>

RefuseFile ==
  /\ InSegment(TRUE)
  /\ LET seg == At
     IN  ~SegmentOk(seg) \/ (word < seg.memsz /\ ~WordOk(seg, word))
  /\ load' = "Err"
  /\ UNCHANGED <<file, bytes, segment, word>>

(* Fault: the next segment is begun where this one ended.                  *)
EndSegmentKeepsOffset ==
  /\ InSegment(TRUE)
  /\ SegmentOk(At)
  /\ word >= At.memsz
  /\ segment' = segment + 1
  /\ UNCHANGED <<file, load, bytes, word>>

EndSegment ==
  /\ InSegment(TRUE)
  /\ SegmentOk(At)
  /\ word >= At.memsz
  /\ segment' = segment + 1 /\ word' = 0
  /\ UNCHANGED <<file, load, bytes>>

Loaded ==
  /\ load = "segments" /\ segment > Len(file.segments)
  /\ load' = "Ok"
  /\ UNCHANGED <<file, bytes, segment, word>>

LoaderStep ==
  CheckHeader \/ Skip \/ CopyWord \/ RefuseFile \/ EndSegment \/ Loaded

-----------------------------------------------------------------------------
(* Properties.                                                             *)

LoadSegments(f) == {f.segments[n] : n \in {m \in DOMAIN f.segments : f.segments[m].load}}

(* The words of a segment cover its bytes and up to three more.            *)
Extent(seg) == seg.vaddr .. seg.vaddr + 4 * ((seg.memsz + 3) \div 4) - 1

(* Each byte of memory is what ELF says of the last segment that has it:   *)
(* the file's byte, a zero past the file's part; and a zero where there is *)
(* no segment.  Below GUEST_MIN_MEM nothing is loaded.                     *)
ImageAt(f, a) ==
  LET holding == {n \in DOMAIN f.segments :
                    f.segments[n].load /\ a \in Extent(f.segments[n])}
      last == f.segments[CHOOSE n \in holding : \A m \in holding : m <= n]
  IN  IF holding = {} \/ ~InBounds(a) \/ a - last.vaddr >= last.filesz
        THEN 0 ELSE f.data[last.offset + a - last.vaddr + 1]

Image(f) == [a \in Addr |-> ImageAt(f, a)]

(* A file is accepted only if it has all it says is to be loaded, and that *)
(* fits below the end of memory.                                           *)
OkMeansComplete ==
  load = "Ok" => \A seg \in LoadSegments(file) :
    /\ \A n \in 0 .. seg.memsz - 1 : n < seg.filesz => InFile(file, seg.offset + n)
    /\ seg.memsz > 0 => seg.vaddr + seg.memsz <= GUEST_MAX_MEM

WellFormed(f) ==
  /\ f.readable /\ HeaderOk(f)
  /\ \A seg \in LoadSegments(f) :
       /\ seg.vaddr % 4 = 0 /\ seg.filesz <= seg.memsz /\ seg.memsz < GUEST_MAX_MEM
       /\ seg.vaddr + seg.memsz <= GUEST_MAX_MEM
       /\ seg.offset + seg.filesz <= Len(f.data)

(* A well-formed file is loaded, also one whose last segment ends with the *)
(* file in the middle of a word.                                           *)
LoadsWellFormed == WellFormed(file) ~> load = "Ok"
=============================================================================
