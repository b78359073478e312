------------------------------- MODULE HostIo -------------------------------
(***************************************************************************)
(* How GDB gets the program from the debugger: get_exec_file and the       *)
(* vFile requests of src/debug/host_io.rs, with copy_range_to_buf of       *)
(* src/debug/mod.rs.  GDB and gdbstub are external: GDB asks for chunks of *)
(* the lengths it likes until it gets nothing, first of the name, then of  *)
(* the file with that name; gdbstub's buffer bounds a chunk.               *)
(***************************************************************************)
EXTENDS Integers, Sequences

CONSTANTS
  ExecName,        (* "/r0code.elf", as a sequence                         *)
  ChunkLen,        (* the lengths GDB asks for                             *)
  BufLen           (* the length of gdbstub's buffer                       *)

ASSUME HostIoAssumption ==
  /\ ExecName \in Seq(Nat)
  /\ ChunkLen \subseteq Nat \ {0} /\ BufLen \in Nat \ {0}

VARIABLES
  elf,             (* the file, as the Debugger was given it               *)
  io,              (* unasked, name, open, fstat, pread, close, done,      *)
                   (* failed: GDB's next request                           *)
  name, size, content      (* what GDB has got                             *)

hostIoVars == <<elf, io, name, size, content>>

HostIoInit == name = <<>> /\ size = 0 /\ content = <<>>

CopyToBuf(data) == IF Len(data) <= BufLen THEN data ELSE SubSeq(data, 1, BufLen)

(* Fault: the end is the length asked for, wherever the range begins.      *)
CopyRangeOneEnd(data, offset, length) ==
  IF offset > Len(data) THEN <<>>
  ELSE CopyToBuf(SubSeq(data, offset + 1, IF length < Len(data) THEN length
                                                                ELSE Len(data)))

CopyRangeToBuf(data, offset, length) ==
  IF offset > Len(data) THEN <<>>
  ELSE CopyToBuf(SubSeq(data, offset + 1,
                        IF offset + length < Len(data) THEN offset + length
                                                       ELSE Len(data)))

GetExecFile ==
  /\ io = "name"
  /\ \E length \in ChunkLen :
       LET chunk == CopyRangeToBuf(ExecName, Len(name), length)
       IN  name' = name \o chunk /\ io' = IF chunk = <<>> THEN "open" ELSE io
  /\ UNCHANGED <<elf, size, content>>

Open ==
  /\ io = "open"
  /\ io' = IF name = ExecName THEN "fstat" ELSE "failed"
  /\ UNCHANGED <<elf, name, size, content>>

Fstat ==
  /\ io = "fstat"
  /\ size' = Len(elf)
  /\ io' = "pread"
  /\ UNCHANGED <<elf, name, content>>

Pread ==
  /\ io = "pread"
  /\ \E length \in ChunkLen :
       LET chunk == CopyRangeToBuf(elf, Len(content), length)
       IN  content' = content \o chunk /\ io' = IF chunk = <<>> THEN "close" ELSE io
  /\ UNCHANGED <<elf, name, size>>

Close ==
  /\ io = "close"
  /\ io' = "done"
  /\ UNCHANGED <<elf, name, size, content>>

HostIoStep == GetExecFile \/ Open \/ Fstat \/ Pread \/ Close

-----------------------------------------------------------------------------
(* The name that GDB is told opens, and the file arrives as it is, however *)
(* it is cut into chunks: no byte is lost, repeated or added.              *)
ElfTransferred ==
  /\ io # "failed"
  /\ io = "done" => content = elf /\ size = Len(content)
=============================================================================
