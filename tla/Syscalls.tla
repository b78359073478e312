------------------------------ MODULE Syscalls ------------------------------
(***************************************************************************)
(* The guest's requests to the host: the ecalls HALT, INPUT and SOFTWARE   *)
(* of src/vm/simulator.rs with the syscalls of src/vm/syscall.rs, and the  *)
(* host's ends of stdin, stdout, stderr and the journal.                   *)
(*                                                                         *)
(* A SOFTWARE ecall is a record of its registers: ptr and words (A0, A1)   *)
(* are the buffer to the guest, a3 to a5 the arguments; the syscall's name *)
(* stands for the string at A2, "unreadable" for one that leaves memory or *)
(* is not UTF-8.  A byte is ASCII below NotAscii and no UTF-8 from there   *)
(* on.  A1 is seen as its four bytes, lowest first.                        *)
(***************************************************************************)
EXTENDS ByteMemory

CONSTANTS
  NotAscii,
  Env, Args,    (* Env: name -> value; Args: sequence; all of bytes        *)
  Random,       (* bytes that getrandom yields                             *)
  HaltRegs,     (* values of A0 at the guest's HALT ecalls                 *)
  StepCycles,   (* cycles of a step but for the ecall's extra ones         *)
  U32,          (* 2^32 in the source                                      *)
  MaxCycle      (* bound of the model on the length of a run               *)

STDIN == 0
Output == 1 .. 3          (* STDOUT, STDERR, JOURNAL                       *)
STDOUT == 1

Register == 0 .. U32 - 1
Call == [name : STRING, ptr : Register, words : Register,
         a3 : Register, a4 : Register, a5 : Register]

(* A value whose length a register can tell.                              *)
Fits(s) == s \in Seq(Byte) /\ Len(s) < U32

ASSUME SyscallAssumption ==
  /\ Random \subseteq Byte
  /\ Args \in Seq(Seq(Byte)) /\ Len(Args) < U32
  /\ \A i \in DOMAIN Args : Fits(Args[i])
  /\ \A name \in DOMAIN Env : Fits(Env[name])
  /\ HaltRegs \subseteq Nat /\ StepCycles \subseteq Nat
  /\ U32 \in Nat \ {0} /\ MaxCycle \in Nat

VARIABLES
  guest,        (* the SOFTWARE ecalls that the guest may make             *)
  status,       (* setup, running, Halted, Paused, Err, panicked           *)
  a0, a1, exit_code,
  stdin, position,       (* Cursor: everything written, and how far read   *)
  channel, read_pos,     (* the same for each output                       *)
  cycle,        (* get_session_cycle                                       *)
  got,          (* history: the bytes of stdin in the guest's hands        *)
  promised,     (* history: what it may still read by READ_AVAIL's word    *)
  learned,      (* history: the value last asked for, and its length       *)
  counted,      (* history: the last cycle count told, and the true one    *)
  sent, taken   (* history: outputs of the guest, as received by the host  *)

ends == <<stdin, channel, read_pos, taken>>
seen == <<got, promised, learned, counted, sent>>
syscallVars == <<guest, status, a0, a1, exit_code, position, cycle, ends, seen>>

ZeroWord == <<0, 0, 0, 0>>

SyscallInit ==
  /\ status = "setup"
  /\ a0 = 0 /\ a1 = ZeroWord /\ exit_code = 0
  /\ stdin = <<>> /\ position = 0
  /\ channel = [fd \in Output |-> <<>>] /\ read_pos = [fd \in Output |-> 0]
  /\ cycle = 0
  /\ got = <<>> /\ promised = 0 /\ learned = <<>> /\ counted = <<>>
  /\ sent = [fd \in Output |-> <<>>] /\ taken = [fd \in Output |-> <<>>]

-----------------------------------------------------------------------------
(* The host's ends.                                                        *)

Start(input) ==
  /\ status = "setup"
  /\ stdin' = stdin \o input
  /\ status' = "running"
  /\ UNCHANGED <<bytes, guest, a0, a1, exit_code, position, cycle, channel,
                 read_pos, taken, seen>>

(* Simulator::read takes the length asked for or nothing, read_to_end all  *)
(* there is.                                                               *)
Read(fd, len) ==
  /\ len <= Len(channel[fd]) - read_pos[fd]
  /\ taken' = [taken EXCEPT ![fd] =
                 @ \o SubSeq(channel[fd], read_pos[fd] + 1, read_pos[fd] + len)]
  /\ read_pos' = [read_pos EXCEPT ![fd] = @ + len]
  /\ UNCHANGED <<bytes, guest, status, a0, a1, exit_code, position, cycle, stdin,
                 channel, seen>>

ReadToEnd(fd) == Read(fd, Len(channel[fd]) - read_pos[fd])

-----------------------------------------------------------------------------
(* ecall_software, around the syscall.                                     *)

BufferLen(c) == 4 * c.words
Least(m, n) == IF m < n THEN m ELSE n
Available == Len(stdin) - position

Utf8(s) == \A i \in DOMAIN s : s[i] < NotAscii

(* What ends the run with an error before the syscall takes effect.        *)
Refuses(c) ==
  \/ c.ptr # 0 /\ ~InBounds(c.ptr)
  \/ c.name \in {"unreadable", "SYS_PANIC"}
  \/ c.name \in {"SYS_GETENV", "SYS_LOG"} /\ ~Readable(c.a3, c.a4)
  \/ c.name = "SYS_GETENV" /\ ~Utf8(Bytes(bytes, c.a3, c.a4))
  \/ c.name = "SYS_WRITE" /\ ~(Readable(c.a4, c.a5) /\ c.a3 \in Output)
  \/ c.name = "SYS_READ" /\ c.a4 >= BufferLen(c) /\ c.a3 # STDIN
  \/ c.name = "SYS_READ_AVAIL" /\ c.a3 # STDIN
  \/ c.name = "SYS_ARGS" /\ c.a3 >= Len(Args)

(* The assertions of SYS_READ.                                             *)
Panics(c) ==
  /\ c.name = "SYS_READ" /\ ~Refuses(c)
  /\ \/ c.a4 < BufferLen(c)
     \/ Available < BufferLen(c)
     \/ c.a4 - BufferLen(c) > 4

(* The guest makes an ecall; only a run within the bound goes on.          *)
Running == status = "running"
Ecall == Running /\ cycle < MaxCycle

Called(c, name) == Ecall /\ c.name = name /\ ~Refuses(c) /\ ~Panics(c)

Refuse(c) ==
  /\ Ecall /\ Refuses(c)
  /\ status' = "Err"
  /\ UNCHANGED <<bytes, guest, a0, a1, exit_code, position, cycle, ends, seen>>

(* The debugger's process ends; stdin is read before the later assertions. *)
Panic(c) ==
  /\ Ecall /\ Panics(c)
  /\ status' = "panicked"
  /\ position' = IF c.a4 < BufferLen(c) THEN position
                 ELSE position + Least(BufferLen(c), Available)
  /\ UNCHANGED <<bytes, guest, a0, a1, exit_code, cycle, ends, seen>>

(* Words, rounded up to a multiple of four.                                *)
Chunks(words) == ((words + 3) \div 4) * 4

(* to_guest: zeros until the syscall writes to its beginning.              *)
Buffer(c, data) ==
  [i \in 1 .. BufferLen(c) |-> IF i \in DOMAIN data THEN data[i] ELSE 0]

(* The registers are set, and then the buffer is copied until an address   *)
(* is refused.                                                             *)
Return(c, data, r0, r1) ==
  /\ a0' = r0 /\ a1' = r1
  /\ bytes' = IF c.ptr = 0 THEN bytes ELSE WriteBytes(bytes, c.ptr, Buffer(c, data))
  /\ status' = IF c.ptr = 0 \/ Readable(c.ptr, BufferLen(c)) THEN "running" ELSE "Err"
  /\ IF status' = "Err" THEN UNCHANGED cycle
     ELSE \E n \in StepCycles : cycle' = cycle + n + 2 + Chunks(c.words)
  /\ UNCHANGED <<guest, exit_code, stdin, read_pos, taken>>

-----------------------------------------------------------------------------
(* The syscalls.                                                           *)

SysRandom(c) ==
  /\ Called(c, "SYS_RANDOM")
  /\ \E data \in [1 .. BufferLen(c) -> Random] : Return(c, data, 0, ZeroWord)
  /\ UNCHANGED <<position, channel, seen>>

(* Faults: the conversion saturates; there is none.                        *)
CycleCountSaturated == Least(cycle, U32 - 1)

CycleCountWide == cycle

CycleCount == cycle % U32

SysCycleCount(c) ==
  /\ Called(c, "SYS_CYCLE_COUNT")
  /\ Return(c, <<>>, CycleCount, ZeroWord)
  /\ counted' = [told |-> CycleCount, cycle |-> cycle]
  /\ UNCHANGED <<position, channel, got, promised, learned, sent>>

(* The value that GETENV and ARGS are asked for, and what identifies it.    *)
Key(c) == IF c.name = "SYS_ARGS" THEN <<"arg", <<c.a3>>>>
                                 ELSE <<"env", Bytes(bytes, c.a3, c.a4)>>
Value(c) == IF c.name = "SYS_ARGS" THEN Args[c.a3 + 1] ELSE Env[Key(c)[2]]

(* Fault: the length told is that of the part copied.                      *)
FetchTellsCopied(c) ==
  LET n == Least(BufferLen(c), Len(Value(c)))
  IN  /\ Return(c, SubSeq(Value(c), 1, n), n, ZeroWord)
      /\ learned' = [key |-> Key(c), len |-> a0']
      /\ UNCHANGED <<position, channel, got, promised, counted, sent>>

(* As much of a value as fits, and its whole length.                       *)
Fetch(c) ==
  /\ Return(c, SubSeq(Value(c), 1, Least(BufferLen(c), Len(Value(c)))),
            Len(Value(c)), ZeroWord)
  /\ learned' = [key |-> Key(c), len |-> a0']
  /\ UNCHANGED <<position, channel, got, promised, counted, sent>>

SysGetenv(c) ==
  /\ Called(c, "SYS_GETENV")
  /\ IF Key(c)[2] \in DOMAIN Env THEN Fetch(c)
     ELSE Return(c, <<>>, U32 - 1, ZeroWord)
            /\ UNCHANGED <<position, channel, seen>>

SysArgs(c) == Called(c, "SYS_ARGS") /\ Fetch(c)

SysArgc(c) ==
  /\ Called(c, "SYS_ARGC")
  /\ Return(c, <<>>, Len(Args), ZeroWord)
  /\ UNCHANGED <<position, channel, seen>>

(* Fault: the unaligned end is read where the main part was.               *)
EndBytesAgain(c) ==
  SubSeq(stdin, position + 1, Least(Len(stdin), position + c.a4 - BufferLen(c)))

(* The bytes behind the last whole word of a read, as far as stdin goes.   *)
EndBytes(c) ==
  SubSeq(stdin, position + BufferLen(c) + 1, Least(Len(stdin), position + c.a4))

(* got is what the guest then finds in its buffer and in A1.               *)
Discarded == -1

SysRead(c) ==
  /\ Called(c, "SYS_READ")
  /\ LET end == EndBytes(c)
         nread == BufferLen(c) + Len(end)
     IN  /\ Return(c, SubSeq(stdin, position + 1, position + BufferLen(c)), nread,
                   [i \in 1 .. 4 |-> IF i \in DOMAIN end THEN end[i] ELSE 0])
         /\ position' = position + nread
         /\ promised' = IF promised > nread THEN promised - nread ELSE 0
  /\ got' = IF status' = "Err" THEN got
            ELSE got \o [i \in 1 .. BufferLen(c) |-> IF c.ptr = 0 THEN Discarded
                                                     ELSE bytes'[c.ptr + i - 1]]
                     \o SubSeq(a1', 1, a0' - BufferLen(c))
  /\ UNCHANGED <<channel, learned, counted, sent>>

(* Fault: what has been read is counted as available.                      *)
NavailAll == Len(stdin) % U32

Navail == Available % U32

SysReadAvail(c) ==
  /\ Called(c, "SYS_READ_AVAIL")
  /\ Return(c, <<>>, Navail, ZeroWord)
  /\ promised' = a0'
  /\ UNCHANGED <<position, channel, got, learned, counted, sent>>

(* Fault: it is written at the position that the host reads from.          *)
AppendedAtPosition(fd, data) == SubSeq(channel[fd], 1, read_pos[fd]) \o data

Appended(fd, data) == channel[fd] \o data

(* The whole buffer is read before any of it is written.                   *)
Emit(c, fd, data) ==
  /\ channel' = [channel EXCEPT ![fd] = Appended(fd, data)]
  /\ sent' = [sent EXCEPT ![fd] = @ \o data]
  /\ Return(c, <<>>, 0, ZeroWord)
  /\ UNCHANGED <<position, got, promised, learned, counted>>

SysWrite(c) == Called(c, "SYS_WRITE") /\ Emit(c, c.a3, Bytes(bytes, c.a4, c.a5))

SysLog(c) == Called(c, "SYS_LOG") /\ Emit(c, STDOUT, Bytes(bytes, c.a3, c.a4))

(* Accepted without any check.                                             *)
SysVerify(c) ==
  /\ Called(c, "SYS_VERIFY") \/ Called(c, "SYS_VERIFY_INTEGRITY")
  /\ Return(c, <<>>, 0, ZeroWord)
  /\ UNCHANGED <<position, channel, seen>>

(* A name that handle_syscall does not know leaves the registers alone.    *)
SysOther(c) ==
  /\ Called(c, "other")
  /\ Return(c, <<>>, a0, a1)
  /\ UNCHANGED <<position, channel, seen>>

Software(c) == \/ Refuse(c) \/ Panic(c)
               \/ SysRandom(c) \/ SysCycleCount(c) \/ SysGetenv(c)
               \/ SysArgs(c) \/ SysArgc(c) \/ SysRead(c) \/ SysReadAvail(c)
               \/ SysWrite(c) \/ SysLog(c) \/ SysVerify(c) \/ SysOther(c)

-----------------------------------------------------------------------------
(* The other ecalls.                                                       *)

StepElapses == \E n \in StepCycles : cycle' = cycle + n

EcallHalt ==
  /\ Running
  /\ \E reg \in HaltRegs :
       /\ status' = CASE reg % 256 = 0 -> "Halted" [] reg % 256 = 1 -> "Paused"
                      [] OTHER -> "Err"
       /\ exit_code' = IF status' = "Err" THEN exit_code ELSE (reg \div 256) % 256
  /\ IF status' = "Err" THEN UNCHANGED cycle ELSE StepElapses
  /\ UNCHANGED <<bytes, guest, a0, a1, position, ends, seen>>

(* pc has not moved: a paused guest that GDB resumes makes the same ecall. *)
PauseAgain ==
  /\ status = "Paused" /\ cycle < MaxCycle
  /\ StepElapses
  /\ UNCHANGED <<bytes, guest, status, a0, a1, exit_code, position, ends, seen>>

EcallInput ==
  /\ Ecall
  /\ StepElapses
  /\ UNCHANGED <<bytes, guest, status, a0, a1, exit_code, position, ends, seen>>

UnknownEcall ==
  /\ Running
  /\ status' = "Err"
  /\ UNCHANGED <<bytes, guest, a0, a1, exit_code, position, cycle, ends, seen>>

SyscallStep == \/ \E c \in guest : Software(c)
               \/ EcallHalt \/ PauseAgain \/ EcallInput \/ UnknownEcall

-----------------------------------------------------------------------------
(* Properties.                                                             *)

SyscallTypeOK ==
  /\ guest \subseteq Call
  /\ status \in {"setup", "running", "Halted", "Paused", "Err", "panicked"}
  /\ bytes \in [Addr -> Byte]
  /\ a0 \in 0 .. U32 - 1 /\ a1 \in Seq(Byte) /\ Len(a1) = 4
  /\ exit_code \in 0 .. 255
  /\ stdin \in Seq(Byte) /\ position \in 0 .. Len(stdin)
  /\ channel \in [Output -> Seq(Byte)]
  /\ \A fd \in Output : read_pos[fd] \in 0 .. Len(channel[fd])
  /\ cycle \in Nat

(* Standard input reaches the guest once and in order, whatever lengths it *)
(* reads and however each read is split into words and an unaligned end: a *)
(* guest that still runs holds every byte that was consumed, except for    *)
(* those it gave no buffer for.                                            *)
StdinDelivered ==
  status \notin {"Err", "panicked"} =>
    /\ Len(got) = position
    /\ \A i \in 1 .. position : got[i] \in {stdin[i], Discarded}

(* A guest that reads no more than SYS_READ_AVAIL has told it, in words    *)
(* and up to four more bytes, is served in full: it does not meet the     *)
(* assertions that end the debugger.                                       *)
AvailKept ==
  [][\A c \in guest :
       (SysRead(c) \/ Panic(c)) /\ c.a4 <= promised /\ c.a4 - BufferLen(c) \in 0 .. 4
       => status' # "panicked" /\ a0' = c.a4]_syscallVars

(* A guest that asks for a value with a buffer as long as the length it    *)
(* was told before finds the whole value in it, zeros behind it, and       *)
(* nothing else of its memory changed.                                     *)
ValueFetched ==
  [][\A c \in guest :
       (/\ SysArgs(c) \/ (SysGetenv(c) /\ Key(c)[2] \in DOMAIN Env)
        /\ learned # <<>> /\ learned.key = Key(c)
        /\ c.ptr # 0 /\ BufferLen(c) >= learned.len /\ status' = "running")
       => /\ bytes' = WriteBytes(bytes, c.ptr, Buffer(c, Value(c)))
          /\ a0' = Len(Value(c)) /\ Len(Value(c)) <= BufferLen(c)]_syscallVars

(* The difference of two cycle counts, taken modulo 2^32 as the guest's    *)
(* arithmetic does, is the number of cycles between them, although the     *)
(* count itself is truncated.                                              *)
CyclesElapsed ==
  [][\A c \in guest :
       (SysCycleCount(c) /\ counted # <<>> /\ cycle - counted.cycle < U32)
       => (a0' - counted.told) % U32 = cycle - counted.cycle]_syscallVars
=============================================================================
