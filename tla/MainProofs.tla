----------------------------- MODULE MainProofs -----------------------------
(***************************************************************************)
(* Proofs about the whole program: the invariants of the loader, of the    *)
(* guest and its ecalls, and of the transfer of the program to GDB, along  *)
(* every behaviour of main.                                                *)
(***************************************************************************)
EXTENDS Main, EcallProofs, LoaderProofs, SerializerProofs

(* GDB has the part of the name, or of the file, that it has asked for.    *)
IsPart(t, s) ==
  /\ Len(t) <= Len(s)
  /\ \A i \in 1 .. Len(t) : t[i] = s[i]

TransferInv ==
  /\ elf \in Seq(Byte)
  /\ name \in Seq(Nat) /\ content \in Seq(Byte)
  /\ io \in {"unasked", "name", "open", "fstat", "pread", "close", "done"}
  /\ IsPart(name, ExecName) /\ IsPart(content, elf)
  /\ io \in {"open", "fstat", "pread", "close", "done"} => name = ExecName
  /\ io \in {"pread", "close", "done"} => size = Len(elf)
  /\ io \in {"close", "done"} => content = elf

-----------------------------------------------------------------------------
(* The transfer.                                                           *)

(* A range that is not empty is copied from where it begins.               *)
LEMMA CopyFacts ==
  ASSUME NEW S, NEW data \in Seq(S), NEW offset \in Nat, NEW length \in Nat \ {0},
         offset <= Len(data)
  PROVE  LET chunk == CopyRangeToBuf(data, offset, length)
         IN  /\ chunk \in Seq(S) /\ offset + Len(chunk) <= Len(data)
             /\ \A i \in 1 .. Len(chunk) : chunk[i] = data[offset + i]
             /\ chunk = <<>> => offset = Len(data)
<1> DEFINE last == IF offset + length < Len(data) THEN offset + length ELSE Len(data)
           range == SubSeq(data, offset + 1, last)
           chunk == CopyRangeToBuf(data, offset, length)
<1>1. /\ last \in Nat /\ offset <= last /\ last <= Len(data)
      /\ last = offset => offset = Len(data)
  OBVIOUS
<1>2. chunk = CopyToBuf(range)
  BY DEF CopyRangeToBuf
<1> HIDE DEF last
<1>3. range \in Seq(S) /\ Len(range) = last - offset
      /\ \A i \in 1 .. last - offset : range[i] = data[offset + i]
  BY <1>1
<1> HIDE DEF range, chunk
<1>4. BufLen \in Nat \ {0}
  BY HostIoAssumption
<1>5. CASE Len(range) <= BufLen
  <2>1. chunk = range
    BY <1>2, <1>5 DEF CopyToBuf
  <2>2. chunk = <<>> => last = offset
    BY <1>1, <1>3, <2>1
  <2>3. QED BY <1>1, <1>3, <2>1, <2>2 DEF chunk
<1>6. CASE Len(range) > BufLen
  <2>1. chunk = SubSeq(range, 1, BufLen)
    BY <1>1, <1>2, <1>3, <1>4, <1>6 DEF CopyToBuf
  <2>2. chunk \in Seq(S) /\ Len(chunk) = BufLen
        /\ \A i \in 1 .. BufLen : chunk[i] = range[i]
    BY <1>1, <1>3, <1>4, <1>6, <2>1
  <2>3. chunk # <<>>
    BY <1>4, <2>2
  <2>4. BufLen <= last - offset
    BY <1>1, <1>3, <1>4, <1>6
  <2>5. offset + Len(chunk) <= Len(data)
    BY <1>1, <1>4, <2>2, <2>4
  <2>6. \A i \in 1 .. Len(chunk) : chunk[i] = data[offset + i]
    BY <1>1, <1>3, <1>4, <2>2, <2>4
  <2>7. QED BY <2>2, <2>3, <2>5, <2>6 DEF chunk
<1>7. QED BY <1>1, <1>3, <1>4, <1>5, <1>6

(* A chunk behind a part makes a longer part, and an empty one ends it.    *)
LEMMA PartGrows ==
  ASSUME NEW S, NEW s \in Seq(S), NEW t \in Seq(S), IsPart(t, s),
         NEW length \in Nat \ {0}
  PROVE  LET chunk == CopyRangeToBuf(s, Len(t), length)
         IN  /\ t \o chunk \in Seq(S) /\ IsPart(t \o chunk, s)
             /\ chunk = <<>> => t \o chunk = s
<1> DEFINE chunk == CopyRangeToBuf(s, Len(t), length)
           n == Len(t)
<1>1. n \in Nat /\ n <= Len(s) /\ Len(s) \in Nat
      /\ \A i \in 1 .. n : t[i] = s[i]
  BY DEF IsPart
<1>2. /\ chunk \in Seq(S) /\ n + Len(chunk) <= Len(s)
      /\ \A i \in 1 .. Len(chunk) : chunk[i] = s[n + i]
      /\ chunk = <<>> => n = Len(s)
  BY <1>1, CopyFacts
<1> HIDE DEF chunk
<1>3. t \o chunk \in Seq(S) /\ InTwo(t \o chunk, t, chunk)
  BY <1>2, TwoParts, Zenon
<1> DEFINE all == t \o chunk
<1> HIDE DEF all
<1>4. /\ all \in Seq(S) /\ Len(all) = n + Len(chunk)
      /\ \A i \in 1 .. n : all[i] = t[i]
      /\ \A i \in 1 .. Len(chunk) : all[n + i] = chunk[i]
  BY <1>3 DEF all, InTwo
<1>5. Len(chunk) \in Nat
  BY <1>2
<1>6. ASSUME NEW i \in 1 .. Len(all) PROVE all[i] = s[i]
  <2>1. CASE i <= n
    BY <1>1, <1>4, <2>1
  <2>2. CASE i > n
    <3>1. i - n \in 1 .. Len(chunk) /\ n + (i - n) = i
      BY <1>1, <1>4, <1>5, <2>2
    <3>2. QED BY <1>2, <1>4, <3>1
  <2>3. QED BY <1>1, <2>1, <2>2
<1>7. IsPart(all, s)
  BY <1>2, <1>4, <1>6 DEF IsPart
<1>8. chunk = <<>> => all = s
  <2>1. chunk = <<>> => Len(all) = Len(s)
    BY <1>1, <1>2, <1>4, <1>5
  <2>2. QED BY <1>4, <1>6, <2>1
<1>9. QED BY <1>4, <1>7, <1>8 DEF all, chunk

(* get_exec_file and the vFile requests, in the order in which GDB asks    *)
(* them.                                                                   *)
LEMMA TransferStep ==
  ASSUME TransferInv, HostIoStep
  PROVE  TransferInv'
<1>1. ExecName \in Seq(Nat) /\ ChunkLen \subseteq Nat \ {0}
  BY HostIoAssumption
<1>2. CASE GetExecFile
  <2>1. PICK length \in ChunkLen :
          /\ name' = name \o CopyRangeToBuf(ExecName, Len(name), length)
          /\ io' = IF CopyRangeToBuf(ExecName, Len(name), length) = <<>>
                     THEN "open" ELSE io
    BY <1>2 DEF GetExecFile
  <2>2. /\ name' \in Seq(Nat) /\ IsPart(name', ExecName)
        /\ CopyRangeToBuf(ExecName, Len(name), length) = <<>> => name' = ExecName
    BY <1>1, <2>1, PartGrows DEF TransferInv
  <2>3. io = "name" /\ UNCHANGED <<elf, size, content>>
    BY <1>2 DEF GetExecFile
  <2>4. QED BY <2>1, <2>2, <2>3 DEF TransferInv, IsPart
<1>3. CASE Open \/ Fstat \/ Close
  BY <1>3 DEF Open, Fstat, Close, TransferInv, IsPart
<1>4. CASE Pread
  <2>1. PICK length \in ChunkLen :
          /\ content' = content \o CopyRangeToBuf(elf, Len(content), length)
          /\ io' = IF CopyRangeToBuf(elf, Len(content), length) = <<>>
                     THEN "close" ELSE io
    BY <1>4 DEF Pread
  <2>2. /\ content' \in Seq(Byte) /\ IsPart(content', elf)
        /\ CopyRangeToBuf(elf, Len(content), length) = <<>> => content' = elf
    BY <1>1, <2>1, PartGrows DEF TransferInv
  <2>3. io = "pread" /\ UNCHANGED <<elf, name, size>>
    BY <1>4 DEF Pread
  <2>4. QED BY <2>1, <2>2, <2>3 DEF TransferInv, IsPart
<1>5. QED BY <1>2, <1>3, <1>4 DEF HostIoStep

-----------------------------------------------------------------------------
(* The invariant of the program.  The loader's part of memory is the       *)
(* guest's from the takeover on.                                           *)
Phase ==
  /\ phase \in {"setup", "connect", "takeover", "read", "print", "finished"}
  /\ fd \in Output
  /\ phase = "setup" => Imaged /\ status \in {"setup", "panicked"}
  /\ status = "setup" => phase = "setup"

Given == \E s \in Scenarios : input = s.input

MainInv ==
  GuestInv /\ LoaderStructure /\ Complete /\ TransferInv /\ Phase /\ Given

(* The program starts with the loader before the first segment, no input   *)
(* given and nothing transferred.                                          *)
LEMMA InitInv ==
  ASSUME Init PROVE MainInv
<1>1. PICK s \in Scenarios :
        /\ file = s.file /\ elf = s.file.data /\ guest = s.calls
        /\ io = IF s.transfer THEN "name" ELSE "unasked"
  BY DEF Init
<1>2. file \in File /\ guest \subseteq Call
  BY <1>1, MainAssumption
<1>3. LoaderInv
  BY <1>2, LoaderInitInv DEF Init
<1>4. elf \in Seq(Byte)
  BY <1>1, <1>2 DEF File
<1>5. TransferInv
  BY <1>1, <1>4, HostIoAssumption DEF Init, HostIoInit, TransferInv, IsPart
<1>6. GuestInv
  <2>1. Structure
    BY <1>2, <1>3 DEF Init, SyscallInit, Structure, Status, LoaderInv, Imaged
  <2>2. Promise
    BY DEF Init, SyscallInit, Promise, Available
  <2>3. Hands
    BY DEF Init, SyscallInit, Hands
  <2>4. Learned /\ Counted
    BY DEF Init, SyscallInit, Learned, Counted
  <2>5. QED BY <2>1, <2>2, <2>3, <2>4 DEF GuestInv
<1>7. Phase
  BY <1>3 DEF Init, SyscallInit, Phase, LoaderInv, Output
<1>8. Given
  BY DEF Init, Given
<1>9. QED BY <1>3, <1>5, <1>6, <1>7, <1>8 DEF MainInv, LoaderInv

(* Words cast to bytes.                                                    *)
LEMMA AsBytesFacts ==
  ASSUME NEW words \in Seq(Word)
  PROVE  AsBytes(words) \in Seq(Byte)
<1>1. Len(words) \in Nat /\ 4 * Len(words) \in Nat
  OBVIOUS
<1>2. ASSUME NEW i \in 1 .. 4 * Len(words)
      PROVE  words[(i - 1) \div 4 + 1][((i - 1) % 4) + 1] \in Byte
  <2> DEFINE w == (i - 1) \div 4 + 1
             k == ((i - 1) % 4) + 1
  <2>1. w \in 1 .. Len(words) /\ k \in 1 .. 4
    BY <1>1
  <2> HIDE DEF w, k
  <2>2. words[w] \in [1 .. 4 -> Byte]
    BY <2>1 DEF Word
  <2>3. words[w][k] \in Byte
    BY <2>1, <2>2
  <2>4. QED BY <2>3 DEF w, k
<1>3. AsBytes(words) \in [1 .. 4 * Len(words) -> Byte]
  BY <1>2 DEF AsBytes
<1>4. QED BY <1>1, <1>3, FunctionIsSequence

(* An ecall does not bring the guest back before its start.                *)
LEMMA EcallStarted ==
  ASSUME EcallStep PROVE status # "setup" /\ status' # "setup"
<1>1. CASE \E c \in guest : Software(c)
  BY <1>1 DEF Software, Refuse, Panic, Ecall, Running, SysRandom, SysCycleCount,
              SysGetenv, SysArgs, SysArgc, SysRead, SysReadAvail, SysWrite, SysLog,
              SysVerify, SysOther, Called, Fetch, Emit, Return
<1>2. CASE EcallHalt
  BY <1>2 DEF EcallHalt, Running
<1>3. CASE PauseAgain \/ EcallInput \/ UnknownEcall
  BY <1>3 DEF PauseAgain, EcallInput, UnknownEcall, Ecall, Running
<1>4. CASE \E c \in ShaCalls : EcallSha(c)
  BY <1>4 DEF EcallSha, Ecall, Running, GoesOn, EndsAs
<1>5. CASE \E c \in BigintCalls : EcallBigint(c)
  BY <1>5 DEF EcallBigint, Ecall, Running, GoesOn, EndsAs
<1>6. QED BY <1>1, <1>2, <1>3, <1>4, <1>5 DEF EcallStep, SyscallStep

(* The guest's invariant depends on nothing of the rest of the program.    *)
LEMMA GuestStays ==
  ASSUME GuestInv, DOMAIN bytes' = Addr, status' = status \/ status' = "panicked",
         UNCHANGED <<guest, stdin, position, cycle, got, promised, learned, counted>>
  PROVE  GuestInv'
<1>1. Structure'
  BY DEF GuestInv, Structure, Status, Ended
<1>2. Promise' /\ Hands' /\ Learned' /\ Counted'
  BY DEF GuestInv, Promise, Available, Hands, Ended, Learned, Counted
<1>3. QED BY <1>1, <1>2 DEF GuestInv

(* What is known of the loader holds while it does nothing.                *)
LEMMA LoaderStays ==
  ASSUME LoaderStructure, Complete, UNCHANGED loaderVars
  PROVE  LoaderStructure' /\ Complete'
BY DEF LoaderStructure, Complete, Covers, Begun, At, InFile, loaderVars

(* What is known of the transfer holds while it does nothing.              *)
LEMMA TransferStays ==
  ASSUME TransferInv, UNCHANGED hostIoVars
  PROVE  TransferInv'
BY DEF TransferInv, IsPart, hostIoVars

(* What is loaded is there until the guest runs.                           *)
LEMMA ImagedStays ==
  ASSUME Imaged, UNCHANGED loaderVars, bytes' = bytes
  PROVE  Imaged'
BY DEF Imaged, HasLast, Holding, Copied, Extent, ByteOf, loaderVars

(* An input that is serialized is words.                                   *)
LEMMA InputFacts ==
  ASSUME Given
  PROVE  input \in Values /\ ToVec[input].words \in Seq(Word)
<1>1. input \in Values
  BY MainAssumption DEF Given
<1>2. QED BY <1>1, ToVecFacts DEF Result, Words

(* Every step of the program preserves the invariant.                      *)
LEMMA NextInv ==
  ASSUME MainInv, [Next]_mainVars PROVE MainInv'
<1>1. /\ GuestInv /\ LoaderStructure /\ Complete /\ TransferInv /\ Phase
      /\ DOMAIN bytes = Addr
  BY DEF MainInv, GuestInv, Structure
<1> Given'
  <2>1. input' = input
    BY DEF Next, MainStep, NoCode, Load, GiveInput, RefuseInput, ReadOutput, PrintOutput,
           Connect, NoConnection, Guest, Transfer, TakeoverReturns, Exit, mainVars
  <2>2. QED BY <2>1 DEF MainInv, Given
<1>2. CASE Load
  <2>1. /\ phase = "setup" /\ LoaderStep
        /\ UNCHANGED <<guest, stdin, position, cycle, got, promised, learned, counted>>
        /\ UNCHANGED hostIoVars /\ UNCHANGED <<status, phase, fd>>
    BY <1>2 DEF Load, syscallVars, ends, seen
  <2>2. LoaderInv'
    BY <1>1, <2>1, LoaderStepInv DEF LoaderInv, Phase
  <2>3. DOMAIN bytes' = Addr
    BY <2>2 DEF LoaderInv, Imaged
  <2>4. GuestInv' /\ TransferInv'
    BY <1>1, <2>1, <2>3, GuestStays, TransferStays
  <2>5. Phase'
    BY <1>1, <2>1, <2>2 DEF Phase, LoaderInv
  <2>6. QED BY <2>2, <2>4, <2>5 DEF MainInv, LoaderInv
<1>3. CASE GiveInput
  <2> DEFINE data == AsBytes(ToVec[input].words)
  <2>1. /\ Start(data) /\ phase = "setup" /\ phase' = "connect"
        /\ ToVec[input].outcome = "Ok"
        /\ UNCHANGED loaderVars /\ UNCHANGED hostIoVars /\ UNCHANGED fd
    BY <1>3 DEF GiveInput
  <2>2. data \in Seq(Byte)
    BY <2>1, InputFacts, AsBytesFacts DEF MainInv
  <2> HIDE DEF data
  <2>3. GuestInv'
    BY <1>1, <2>1, <2>2, StartInv
  <2>4. LoaderStructure' /\ Complete' /\ TransferInv'
    BY <1>1, <2>1, LoaderStays, TransferStays
  <2>5. Phase'
    BY <1>1, <2>1 DEF Phase, Start
  <2>6. QED BY <2>3, <2>4, <2>5 DEF MainInv
<1>4. CASE NoCode \/ RefuseInput \/ NoConnection \/ PrintOutput
  <2>1. /\ status' = status \/ status' = "panicked"
        /\ bytes' = bytes
        /\ UNCHANGED <<guest, stdin, position, cycle, got, promised, learned, counted>>
        /\ UNCHANGED loaderVars /\ UNCHANGED hostIoVars
    BY <1>4 DEF NoCode, RefuseInput, NoConnection, PrintOutput, ends, seen
  <2>2. GuestInv' /\ LoaderStructure' /\ Complete' /\ TransferInv'
    BY <1>1, <2>1, GuestStays, LoaderStays, TransferStays
  <2>3. Phase'
    <3>1. /\ phase' \in {"setup", "connect", "takeover", "read", "print", "finished"}
          /\ fd' \in Output
      BY <1>1, <1>4 DEF Phase, NoCode, RefuseInput, NoConnection, PrintOutput,
                        NextOutput, Output
    <3>2. phase' = "setup" => phase = "setup"
      BY <1>1, <1>4 DEF Phase, NoCode, RefuseInput, NoConnection, PrintOutput, NextOutput
    <3>3. phase = "setup" => phase' = "setup"
      BY <1>4 DEF NoCode, RefuseInput, NoConnection, PrintOutput
    <3>4. Imaged => Imaged'
      BY <2>1, ImagedStays
    <3>5. QED BY <1>1, <2>1, <3>1, <3>2, <3>3, <3>4 DEF Phase
  <2>4. QED BY <2>2, <2>3 DEF MainInv
<1>5. CASE ReadOutput
  <2>1. /\ Read(fd, Len(channel[fd]) - read_pos[fd])
        /\ phase = "read" /\ phase' \in {"read", "print"} /\ fd' \in Output
        /\ UNCHANGED loaderVars /\ UNCHANGED hostIoVars
    BY <1>1, <1>5 DEF ReadOutput, ReadToEnd, NextOutput, Phase, Output
  <2>2. GuestInv' /\ LoaderStructure' /\ Complete' /\ TransferInv'
    BY <1>1, <2>1, ReadInv, LoaderStays, TransferStays
  <2>3. Phase'
    BY <1>1, <2>1 DEF Phase, Read
  <2>4. QED BY <2>2, <2>3 DEF MainInv
<1>6. CASE Guest
  <2>1. /\ EcallStep /\ phase = "takeover"
        /\ UNCHANGED loaderVars /\ UNCHANGED hostIoVars /\ UNCHANGED <<phase, fd>>
    BY <1>6 DEF Guest
  <2>2. GuestInv' /\ LoaderStructure' /\ Complete' /\ TransferInv'
    BY <1>1, <2>1, EcallStepInv, LoaderStays, TransferStays
  <2>3. Phase'
    BY <1>1, <2>1, EcallStarted DEF Phase
  <2>4. QED BY <2>2, <2>3 DEF MainInv
<1>7. CASE Transfer
  <2>1. /\ HostIoStep /\ phase = "takeover"
        /\ UNCHANGED <<bytes, status, phase, fd>> /\ UNCHANGED loaderVars
        /\ UNCHANGED <<guest, stdin, position, cycle, got, promised, learned, counted>>
    BY <1>7 DEF Transfer, machine, syscallVars, ends, seen
  <2>2. GuestInv' /\ LoaderStructure' /\ Complete' /\ TransferInv'
    BY <1>1, <2>1, GuestStays, LoaderStays, TransferStep
  <2>3. Phase'
    BY <1>1, <2>1 DEF Phase
  <2>4. QED BY <2>2, <2>3 DEF MainInv
<1>8. CASE Connect \/ TakeoverReturns \/ Exit \/ UNCHANGED mainVars
  <2>1. /\ UNCHANGED <<bytes, status, fd>> /\ UNCHANGED loaderVars
        /\ UNCHANGED hostIoVars
        /\ UNCHANGED <<guest, stdin, position, cycle, got, promised, learned, counted>>
        /\ \/ phase' = phase
           \/ phase = "connect" /\ phase' = "takeover"
           \/ phase = "takeover" /\ phase' = "read"
    BY <1>8 DEF Connect, TakeoverReturns, Exit, mainVars, machine, syscallVars, ends, seen
  <2>2. GuestInv' /\ LoaderStructure' /\ Complete' /\ TransferInv'
    BY <1>1, <2>1, GuestStays, LoaderStays, TransferStays
  <2>3. Phase'
    <3>1. Imaged => Imaged'
      BY <2>1, ImagedStays
    <3>2. QED BY <1>1, <2>1, <3>1 DEF Phase
  <2>4. QED BY <2>2, <2>3 DEF MainInv
<1>9. QED
  BY <1>2, <1>3, <1>4, <1>5, <1>6, <1>7, <1>8 DEF Next, MainStep

(* The invariant of the program: that of the guest and its ecalls, of the  *)
(* loader, of the transfer, and of main's own order, which ties them       *)
(* together.                                                               *)
THEOREM MainInvariant == Spec => []MainInv
BY InitInv, NextInv, PTL DEF Spec

-----------------------------------------------------------------------------
(* What the invariant says.                                                *)

(* Standard input reaches the guest once and in order: whatever it reads,  *)
(* SYS_READ puts the next bytes of the Cursor in its buffer and A1.        *)
THEOREM StdinOnceInOrder == Spec => []StdinDelivered
<1>1. MainInv => StdinDelivered
  BY DEF MainInv, GuestInv, Hands, Ended, StdinDelivered
<1>2. QED BY <1>1, MainInvariant, PTL

(* load_elf accepts a file only if all of each PT_LOAD segment was there.  *)
THEOREM LoaderAccepts == Spec => []OkMeansComplete
<1>1. MainInv => OkMeansComplete
  BY AcceptedIsComplete DEF MainInv
<1>2. QED BY <1>1, MainInvariant, PTL

(* load_elf refuses no file that is well-formed: the safety half of        *)
(* LoadsWellFormed, for every file.                                        *)
THEOREM WellFormedIsNotRefused == Spec => [](WellFormed(file) => load # "Err")
<1> DEFINE Accepted == WellFormed(file) => load # "Err"
<1>1. Init => Accepted
  BY DEF Init, LoaderInit
<1>2. MainInv /\ Accepted /\ [Next]_mainVars => Accepted'
  <2> SUFFICES ASSUME MainInv, Accepted, [Next]_mainVars PROVE Accepted'
    OBVIOUS
  <2>1. CASE Load
    <3>1. LoaderStep /\ file' = file
      BY <2>1 DEF Load, LoaderStep, CheckHeader, Skip, CopyWord, RefuseFile, EndSegment, Loaded
    <3>2. WellFormed(file') <=> WellFormed(file)
      BY <3>1
    <3>3. WellFormed(file) => load' # "Err"
      BY <3>1, WellFormedGoesOn DEF MainInv
    <3>4. QED BY <3>2, <3>3
  <2>2. CASE ~Load
    <3>1. UNCHANGED <<file, load>>
      BY <2>2
      DEF Next, MainStep, NoCode, GiveInput, RefuseInput, ReadOutput, PrintOutput, Connect,
          NoConnection, Guest, Transfer, TakeoverReturns, Exit, mainVars, loaderVars
    <3>2. QED BY <3>1
  <2>3. QED BY <2>1, <2>2
<1>3. QED BY <1>1, <1>2, MainInvariant, PTL DEF Spec

(* The guest starts in the memory that the file describes: load_elf has    *)
(* written each byte of each segment, the last of those that overlap, and  *)
(* zeros behind the file's part.                                           *)
THEOREM LoaderLoads == Spec => []LoadsImage
<1>1. MainInv => LoadsImage
  <2> SUFFICES ASSUME MainInv, load = "Ok", status = "setup"
               PROVE  bytes = Image(file)
    BY DEF LoadsImage
  <2>1. LoaderStructure /\ Complete /\ Imaged
    BY DEF MainInv, Phase
  <2>2. QED BY <2>1, LoadedIsImage DEF LoaderInv
<1>2. QED BY <1>1, MainInvariant, PTL

(* The name that get_exec_file tells GDB opens, and the vFile requests     *)
(* deliver the file as it is, for every buffer and every lengths asked.    *)
THEOREM ElfArrives == Spec => []ElfTransferred
<1>1. MainInv => ElfTransferred
  BY DEF MainInv, TransferInv, ElfTransferred
<1>2. QED BY <1>1, MainInvariant, PTL

(* A guest that reads no more than SYS_READ_AVAIL told is served in full.  *)
THEOREM AvailIsKept == Spec => AvailKept
<1>1. MainInv /\ [Next]_mainVars =>
        [\A c \in guest :
           (SysRead(c) \/ Panic(c)) /\ c.a4 <= promised
             /\ c.a4 - BufferLen(c) \in 0 .. 4
           => status' # "panicked" /\ a0' = c.a4]_syscallVars
  BY ReadIsServed DEF MainInv
<1>2. QED BY <1>1, MainInvariant, PTL DEF Spec, AvailKept

(* Asking ARGS or GETENV a second time with a buffer of the length that    *)
(* was told fetches the whole value and writes nothing else.               *)
THEOREM ValuesAreFetched == Spec => ValueFetched
<1>1. MainInv /\ [Next]_mainVars =>
        [\A c \in guest :
           (/\ SysArgs(c) \/ (SysGetenv(c) /\ Key(c)[2] \in DOMAIN Env)
            /\ learned # <<>> /\ learned.key = Key(c)
            /\ c.ptr # 0 /\ BufferLen(c) >= learned.len /\ status' = "running")
           => /\ bytes' = WriteBytes(bytes, c.ptr, Buffer(c, Value(c)))
              /\ a0' = Len(Value(c)) /\ Len(Value(c)) <= BufferLen(c)]_syscallVars
  BY ValueIsFetched DEF MainInv
<1>2. QED BY <1>1, MainInvariant, PTL DEF Spec, ValueFetched

(* Cycle counts, truncated to the register, tell the cycles between them.  *)
THEOREM CyclesAreElapsed == Spec => CyclesElapsed
<1>1. MainInv /\ [Next]_mainVars =>
        [\A c \in guest :
           (SysCycleCount(c) /\ counted # <<>> /\ cycle - counted.cycle < U32)
           => (a0' - counted.told) % U32 = cycle - counted.cycle]_syscallVars
  BY CyclesAreCounted DEF MainInv
<1>2. QED BY <1>1, MainInvariant, PTL DEF Spec, CyclesElapsed

-----------------------------------------------------------------------------
(* The types, if sha2::compress256 makes words of bytes from words and     *)
(* blocks of bytes.                                                        *)
TypedMain == MainInv /\ Typed

(* The program starts with its registers cleared and nothing sent.         *)
LEMMA InitTyped ==
  ASSUME Init PROVE TypedMain
<1>1. MainInv
  BY InitInv
<1>2. bytes \in [Addr -> Byte]
  BY ZeroFacts DEF Init, LoaderInit
<1>3. Registers
  BY ZeroFacts DEF Init, SyscallInit, Registers
<1>4. Channels
  BY ZeroFacts DEF Init, SyscallInit, Channels
<1>5. QED BY <1>1, <1>2, <1>3, <1>4 DEF TypedMain, Typed

(* Every step of the program preserves the types.                          *)
LEMMA NextTyped ==
  ASSUME CompressType, TypedMain, [Next]_mainVars PROVE TypedMain'
<1>1. MainInv /\ Typed /\ MainInv'
  BY NextInv DEF TypedMain
<1>2. CASE Load
  <2>1. /\ LoaderStep /\ LoaderStructure /\ bytes \in [Addr -> Byte]
        /\ UNCHANGED <<a0, a1, exit_code, channel, read_pos>>
    BY <1>1, <1>2 DEF Load, syscallVars, ends, MainInv, Typed
  <2>2. bytes' \in [Addr -> Byte]
    BY <2>1, LoadsBytes
  <2>3. QED BY <1>1, <2>1, <2>2, ChannelsStay DEF TypedMain, Typed, Registers
<1>3. CASE Guest
  <2>1. EcallStep /\ GuestInv
    BY <1>1, <1>3 DEF Guest, MainInv
  <2>2. QED BY <1>1, <2>1, EcallTyped DEF TypedMain
<1>4. CASE ReadOutput
  <2>1. Read(fd, Len(channel[fd]) - read_pos[fd]) /\ fd \in Output
    BY <1>1, <1>4 DEF ReadOutput, ReadToEnd, MainInv, Phase
  <2>2. Len(channel[fd]) - read_pos[fd] \in Nat
    BY <1>1, <2>1 DEF Typed, Channels
  <2>3. QED BY <1>1, <2>1, <2>2, ReadTyped DEF TypedMain
<1>5. CASE \/ NoCode \/ GiveInput \/ RefuseInput \/ PrintOutput \/ Connect
           \/ NoConnection \/ Transfer \/ TakeoverReturns \/ Exit \/ UNCHANGED mainVars
  <2>1. UNCHANGED <<bytes, a0, a1, exit_code, channel, read_pos>>
    BY <1>5
    DEF NoCode, GiveInput, Start, RefuseInput, PrintOutput, Connect, NoConnection,
        Transfer, TakeoverReturns, Exit, mainVars, machine, syscallVars, ends
  <2>2. QED BY <1>1, <2>1, ChannelsStay DEF TypedMain, Typed, Registers
<1>6. QED BY <1>2, <1>3, <1>4, <1>5 DEF Next, MainStep

(* Every byte, register and position stays within its width and its        *)
(* channel, for every guest, every file and every input, whatever numbers  *)
(* of bytes the ecalls are given.                                          *)
THEOREM TypesHold == CompressType => (Spec => []SyscallTypeOK)
<1> SUFFICES ASSUME CompressType PROVE Spec => []SyscallTypeOK
  OBVIOUS
<1>1. Init => TypedMain
  BY InitTyped
<1>2. TypedMain /\ [Next]_mainVars => TypedMain'
  BY NextTyped
<1>3. TypedMain => SyscallTypeOK
  BY TypesSuffice DEF TypedMain, MainInv, GuestInv
<1>4. QED BY <1>1, <1>2, <1>3, PTL DEF Spec

(* SHA hashes the bytes of a message that lies in one piece in their       *)
(* order, although it reads words from two places at a time: those from    *)
(* the word that holds the message's first byte, at any alignment.         *)
THEOREM HashesMessages == Spec => []ShaHashesMessage
BY ShaHashes, PTL

(* A guest that hashes a message in two calls of SHA, the second going on  *)
(* from the state that the first has stored, gets what one call gives, in  *)
(* every memory that the program can be in.                                *)
THEOREM HashesChain == CompressType => (Spec => []ShaChains)
<1> SUFFICES ASSUME CompressType PROVE Spec => []ShaChains
  OBVIOUS
<1>1. Init => TypedMain
  BY InitTyped
<1>2. TypedMain /\ [Next]_mainVars => TypedMain'
  BY NextTyped
<1>3. TypedMain => ShaChains
  BY ShaCallsChain DEF TypedMain, Typed
<1>4. QED BY <1>1, <1>2, <1>3, PTL DEF Spec

-----------------------------------------------------------------------------
(* The outputs on their way from the guest's channels to the terminal.     *)
Unread == phase \in {"setup", "connect", "takeover"}
WasPrinted(f) == phase = "finished" \/ (phase = "print" /\ f < fd)

Outputs ==
  /\ channel = sent
  /\ taken \in [Output -> Seq(Byte)] /\ shown \in [Output -> Seq(Byte)]
  /\ Unread => fd = 1
  /\ \A f \in Output :
       /\ taken[f] = SubSeq(channel[f], 1, read_pos[f])
       /\ Unread => read_pos[f] = 0
       /\ \/ phase = "read" /\ f < fd
          \/ phase \in {"print", "finished"}
          => read_pos[f] = Len(channel[f])
       /\ shown[f] = IF WasPrinted(f) THEN sent[f] ELSE <<>>

OutputsInv == TypedMain /\ Outputs

(* The part read, and the next part, are a longer part.                    *)
LEMMA PartsMeet ==
  ASSUME NEW s \in Seq(Byte), NEW m \in Nat, NEW n \in Nat, m <= n, n <= Len(s)
  PROVE  SubSeq(s, 1, m) \o SubSeq(s, m + 1, n) = SubSeq(s, 1, n)
<1> DEFINE u == SubSeq(s, 1, m)
           v == SubSeq(s, m + 1, n)
           t == SubSeq(s, 1, n)
<1>1. /\ u \in Seq(Byte) /\ Len(u) = m /\ \A i \in 1 .. m : u[i] = s[i]
      /\ t \in Seq(Byte) /\ Len(t) = n /\ \A i \in 1 .. n : t[i] = s[i]
  BY SubSeqFacts
<1>2. v \in Seq(Byte) /\ Len(v) = n - m /\ \A i \in 1 .. n - m : v[i] = s[m + i]
  BY SubSeqFacts
<1> HIDE DEF u, v, t
<1> DEFINE all == u \o v
<1>3. all \in Seq(Byte) /\ InTwo(all, u, v)
  BY <1>1, <1>2, TwoParts
<1> HIDE DEF all
<1>4. Len(all) = n
  BY <1>1, <1>2, <1>3 DEF InTwo
<1>5. ASSUME NEW i \in 1 .. n PROVE all[i] = t[i]
  <2>1. CASE i <= m
    BY <1>1, <1>3, <2>1 DEF InTwo
  <2>2. CASE i > m
    <3>1. i - m \in 1 .. n - m /\ m + (i - m) = i
      BY <2>2
    <3>2. all[m + (i - m)] = v[i - m]
      BY <1>1, <1>2, <1>3, <3>1 DEF InTwo
    <3>3. QED BY <1>1, <1>2, <3>1, <3>2
  <2>3. QED BY <2>1, <2>2
<1>6. all = t
  BY <1>1, <1>3, <1>4, <1>5
<1>7. QED BY <1>6 DEF all, u, v, t

(* Nothing and all of a sequence of bytes.                                 *)
LEMMA PartFacts ==
  ASSUME NEW s \in Seq(Byte)
  PROVE  SubSeq(s, 1, 0) = <<>> /\ SubSeq(s, 1, Len(s)) = s
OBVIOUS

(* What the guest writes is sent as it is; no other ecall touches it.      *)
LEMMA EcallSends ==
  ASSUME EcallStep, channel = sent, channel \in [Output -> Seq(Byte)]
  PROVE  channel' = sent' /\ UNCHANGED <<read_pos, taken>>
<1>1. ASSUME NEW c, NEW f, NEW data, Emit(c, f, data)
      PROVE  channel' = sent' /\ UNCHANGED <<read_pos, taken>>
  BY <1>1 DEF Emit, Appended, Return
<1>2. CASE \E c \in guest : Software(c)
  <2>1. PICK c \in guest : Software(c)
    BY <1>2
  <2>2. CASE SysWrite(c) \/ SysLog(c)
    BY <1>1, <2>2 DEF SysWrite, SysLog
  <2>3. CASE ~(SysWrite(c) \/ SysLog(c))
    BY <2>1, <2>3
    DEF Software, Refuse, Panic, SysRandom, SysCycleCount, SysGetenv, SysArgs, SysArgc,
        SysRead, SysReadAvail, SysVerify, SysOther, Fetch, Return, ends, seen
  <2>4. QED BY <2>2, <2>3
<1>3. CASE EcallHalt \/ PauseAgain \/ EcallInput \/ UnknownEcall
  BY <1>3 DEF EcallHalt, PauseAgain, EcallInput, UnknownEcall, ends, seen
<1>4. CASE \E c \in ShaCalls : EcallSha(c)
  BY <1>4 DEF EcallSha, RestUnchanged, ends, seen
<1>5. CASE \E c \in BigintCalls : EcallBigint(c)
  BY <1>5 DEF EcallBigint, RestUnchanged, ends, seen
<1>6. QED BY <1>2, <1>3, <1>4, <1>5 DEF EcallStep, SyscallStep

(* Nothing is sent, read or printed at the start.                          *)
LEMMA InitOutputs ==
  ASSUME Init PROVE Outputs
<1>1. <<>> \in Seq(Byte)
  OBVIOUS
<1>2. SubSeq(<<>>, 1, 0) = <<>>
  BY <1>1, PartFacts
<1>3. QED
  BY <1>1, <1>2 DEF Init, SyscallInit, Outputs, Unread, WasPrinted

(* One output is read to its end.                                          *)
LEMMA ReadOutputs ==
  ASSUME OutputsInv, ReadOutput PROVE Outputs'
<1>1. /\ Outputs /\ Channels /\ fd \in 1 .. 3
  BY DEF OutputsInv, TypedMain, Typed, MainInv, Phase, Output
<1> DEFINE s == channel[fd]
           m == read_pos[fd]
           len == Len(s) - m
           part == SubSeq(s, m + 1, m + len)
<1>2. /\ phase = "read" /\ UNCHANGED <<channel, sent, shown>>
      /\ taken' = [taken EXCEPT ![fd] = taken[fd] \o part]
      /\ read_pos' = [read_pos EXCEPT ![fd] = m + len]
      /\ IF fd < 3 THEN fd' = fd + 1 /\ phase' = phase ELSE fd' = 1 /\ phase' = "print"
  BY DEF ReadOutput, ReadToEnd, Read, NextOutput, seen
<1>3. s \in Seq(Byte) /\ Len(s) \in Nat /\ m \in Nat /\ m <= Len(s)
  BY <1>1 DEF Channels, Output
<1>4. m + len = Len(s)
  BY <1>3
<1>5. taken[fd] \o part = s
  <2>1. taken[fd] = SubSeq(s, 1, m)
    BY <1>1 DEF Outputs, Output
  <2>2. SubSeq(s, 1, m) \o SubSeq(s, m + 1, Len(s)) = SubSeq(s, 1, Len(s))
    <3>1. Len(s) <= Len(s)
      BY <1>3
    <3> HIDE DEF s, m
    <3>2. QED BY <1>3, <3>1, PartsMeet, Zenon
  <2>3. QED BY <1>3, <1>4, <2>1, <2>2, PartFacts
<1> HIDE DEF part
<1>6. ASSUME NEW f \in Output
      PROVE  /\ taken'[f] = SubSeq(channel[f], 1, read_pos'[f])
             /\ f = fd => read_pos'[f] = Len(channel[f])
             /\ f # fd => read_pos'[f] = read_pos[f]
  <2>1. CASE f = fd
    <3>1. taken'[f] = s /\ read_pos'[f] = Len(s)
      BY <1>1, <1>2, <1>4, <1>5, <2>1 DEF Outputs, Channels, Output
    <3>2. QED BY <1>3, <2>1, <3>1, PartFacts
  <2>2. CASE f # fd
    BY <1>1, <1>2, <2>2 DEF Outputs, Channels
  <2>3. QED BY <2>1, <2>2
<1>7. taken' \in [Output -> Seq(Byte)]
  BY <1>1, <1>2, <1>3, <1>5 DEF Outputs
<1>8. ASSUME NEW f \in Output, f < fd PROVE read_pos[f] = Len(channel[f])
  BY <1>1, <1>2, <1>8 DEF Outputs
<1>9. ~Unread' /\ \A f \in Output : ~WasPrinted(f) /\ ~WasPrinted(f)'
  BY <1>1, <1>2 DEF Unread, WasPrinted, Output
<1>10. ASSUME NEW f \in Output,
              \/ phase' = "read" /\ f < fd'
              \/ phase' \in {"print", "finished"}
       PROVE  read_pos'[f] = Len(channel[f])
  <2>1. f = fd \/ f < fd
    BY <1>1, <1>2, <1>10 DEF Output
  <2>2. QED BY <1>1, <1>6, <1>8, <2>1 DEF Output
<1>11. QED
  BY <1>1, <1>2, <1>6, <1>7, <1>9, <1>10 DEF Outputs

(* One output is printed, or skipped because it is empty.                  *)
LEMMA PrintOutputs ==
  ASSUME OutputsInv, PrintOutput PROVE Outputs'
<1>1. /\ Outputs /\ Channels /\ fd \in 1 .. 3
  BY DEF OutputsInv, TypedMain, Typed, MainInv, Phase, Output
<1>2. phase = "print" /\ UNCHANGED <<channel, sent, taken, read_pos>>
  BY DEF PrintOutput, ends, seen
<1>3. CASE UNCHANGED <<phase, fd, shown>>
  BY <1>1, <1>2, <1>3 DEF Outputs, Unread, WasPrinted
<1>4. CASE /\ shown' = [shown EXCEPT ![fd] = IF channel[fd] # <<>> THEN taken[fd] ELSE @]
           /\ NextOutput("finished")
  <2>1. channel[fd] \in Seq(Byte) /\ read_pos[fd] = Len(channel[fd])
    BY <1>1, <1>2 DEF Outputs, Channels, Output
  <2>2. taken[fd] = channel[fd] /\ sent[fd] = channel[fd]
    BY <1>1, <2>1, PartFacts DEF Outputs, Output
  <2>3. shown[fd] = <<>>
    BY <1>1, <1>2 DEF Outputs, WasPrinted, Output
  <2>4. shown' = [shown EXCEPT ![fd] = sent[fd]]
    BY <1>1, <1>4, <2>2, <2>3 DEF Outputs
  <2>5. shown' \in [Output -> Seq(Byte)]
    BY <1>1, <2>1, <2>2, <2>4 DEF Outputs
  <2>6. IF fd < 3 THEN fd' = fd + 1 /\ phase' = "print" ELSE fd' = 1 /\ phase' = "finished"
    BY <1>2, <1>4 DEF NextOutput
  <2>7. ASSUME NEW f \in Output
        PROVE  shown'[f] = IF WasPrinted(f)' THEN sent[f] ELSE <<>>
    <3>1. WasPrinted(f)' <=> (WasPrinted(f) \/ f = fd)
      BY <1>1, <1>2, <2>6 DEF WasPrinted, Output
    <3>2. f # fd => shown'[f] = IF WasPrinted(f) THEN sent[f] ELSE <<>>
      BY <1>1, <2>4 DEF Outputs
    <3>3. f = fd => shown'[f] = sent[f]
      BY <1>1, <2>4 DEF Outputs, Output
    <3>4. QED BY <3>1, <3>2, <3>3
  <2>8. ~Unread' /\ \A f \in Output : read_pos[f] = Len(channel[f])
    BY <1>1, <1>2, <2>6 DEF Outputs, Unread
  <2>9. QED BY <1>1, <1>2, <2>5, <2>7, <2>8 DEF Outputs
<1>5. QED BY <1>3, <1>4 DEF PrintOutput

(* Every step of the program takes the outputs further.                    *)
LEMMA NextOutputs ==
  ASSUME CompressType, OutputsInv, [Next]_mainVars PROVE OutputsInv'
<1>1. Outputs /\ Channels /\ TypedMain' /\ Channels'
  BY NextTyped DEF OutputsInv, TypedMain, Typed
<1> SUFFICES Outputs'
  BY <1>1 DEF OutputsInv
<1>2. CASE \/ NoCode \/ Load \/ GiveInput \/ RefuseInput \/ Connect \/ NoConnection
           \/ Transfer \/ Exit \/ UNCHANGED mainVars
  <2>1. /\ UNCHANGED <<channel, sent, read_pos, taken, shown, fd>>
        /\ \/ phase' = phase
           \/ phase = "setup" /\ phase' = "connect"
           \/ phase = "connect" /\ phase' = "takeover"
    BY <1>2 DEF NoCode, Load, GiveInput, Start, RefuseInput, Connect, NoConnection,
                Transfer, Exit, mainVars, machine, syscallVars, ends, seen
  <2>2. (Unread' <=> Unread) /\ \A f \in Output : (WasPrinted(f)' <=> WasPrinted(f))
    BY <2>1 DEF Unread, WasPrinted
  <2>3. phase' \in {"read", "print", "finished"} => phase' = phase
    BY <2>1
  <2>4. QED BY <1>1, <2>1, <2>2, <2>3 DEF Outputs
<1>3. CASE TakeoverReturns
  <2>1. /\ UNCHANGED <<channel, sent, read_pos, taken, shown, fd>>
        /\ phase = "takeover" /\ phase' = "read"
    BY <1>3 DEF TakeoverReturns, machine, syscallVars, ends, seen
  <2>2. fd = 1 /\ Unread /\ ~Unread'
    BY <1>1, <2>1 DEF Outputs, Unread
  <2>3. \A f \in Output : ~WasPrinted(f)' /\ ~WasPrinted(f) /\ ~(f < fd)
    BY <2>1, <2>2 DEF WasPrinted, Output
  <2>4. QED BY <1>1, <2>1, <2>2, <2>3 DEF Outputs
<1>4. CASE Guest
  <2>1. /\ channel' = sent' /\ UNCHANGED <<read_pos, taken, shown, fd, phase>>
        /\ phase = "takeover"
    BY <1>1, <1>4, EcallSends DEF Guest, Outputs, Channels
  <2>2. Unread /\ Unread' /\ \A f \in Output : read_pos[f] = 0
    BY <1>1, <2>1 DEF Unread, Outputs
  <2>3. \A f \in Output : ~WasPrinted(f)' /\ ~WasPrinted(f)
    BY <2>1 DEF WasPrinted
  <2>4. ASSUME NEW f \in Output
        PROVE  taken[f] = SubSeq(channel'[f], 1, read_pos[f])
    <3>1. channel[f] \in Seq(Byte) /\ channel'[f] \in Seq(Byte)
      BY <1>1 DEF Channels
    <3>2. taken[f] = SubSeq(channel[f], 1, 0) /\ read_pos[f] = 0
      BY <1>1, <2>2 DEF Outputs
    <3>3. QED BY <3>1, <3>2, PartFacts
  <2>5. QED BY <1>1, <2>1, <2>2, <2>3, <2>4 DEF Outputs
<1>5. CASE ReadOutput
  BY <1>5, ReadOutputs
<1>6. CASE PrintOutput
  BY <1>6, PrintOutputs
<1>7. QED BY <1>2, <1>3, <1>4, <1>5, <1>6 DEF Next, MainStep

(* Which outputs main has found to be UTF-8, and which it has met that is  *)
(* not.                                                                    *)
Checked ==
  /\ phase = "read" => status # "panicked"
  /\ phase = "print" => /\ \A f \in Output : f < fd => Utf8(sent[f])
                        /\ status = "panicked" => ~Utf8(sent[fd])
  /\ phase = "finished" => \A f \in Output : Utf8(sent[f])

(* Printing goes on to the first output that is not UTF-8.                 *)
LEMMA NextChecked ==
  ASSUME OutputsInv, Checked, [Next]_mainVars
  PROVE  Checked'
<1>1. /\ Outputs /\ Channels /\ fd \in 1 .. 3
      /\ phase \in {"setup", "connect", "takeover", "read", "print", "finished"}
      /\ sent = channel
  BY DEF OutputsInv, Outputs, TypedMain, Typed, MainInv, Phase, Output
<1>2. CASE PrintOutput
  <2>1. phase = "print" /\ status # "panicked" /\ UNCHANGED <<channel, sent>>
    BY <1>2 DEF PrintOutput, ends, seen
  <2>2. taken[fd] = sent[fd]
    <3>1. channel[fd] \in Seq(Byte) /\ read_pos[fd] = Len(channel[fd])
      BY <1>1, <2>1 DEF Outputs, Channels, Output
    <3>2. taken[fd] = SubSeq(channel[fd], 1, Len(channel[fd]))
      BY <1>1, <3>1 DEF Outputs, Output
    <3>3. QED BY <1>1, <3>1, <3>2, PartFacts
  <2>3. CASE channel[fd] # <<>> /\ ~Utf8(taken[fd])
    <3>1. UNCHANGED <<phase, fd>>
      BY <1>2, <2>3 DEF PrintOutput
    <3>2. ~Utf8(sent[fd])
      BY <2>2, <2>3
    <3>3. QED BY <2>1, <3>1, <3>2 DEF Checked, Utf8
  <2>4. CASE ~(channel[fd] # <<>> /\ ~Utf8(taken[fd]))
    <3>1. NextOutput("finished") /\ UNCHANGED status
      BY <1>2, <2>4 DEF PrintOutput
    <3>2. Utf8(sent[fd])
      BY <1>1, <2>2, <2>4 DEF Utf8
    <3>3. IF fd < 3 THEN fd' = fd + 1 /\ phase' = "print" ELSE fd' = 1 /\ phase' = "finished"
      BY <2>1, <3>1 DEF NextOutput
    <3>4. \A f \in Output : f < fd => Utf8(sent[f])
      BY <2>1 DEF Checked
    <3>5. CASE fd < 3
      <4>1. \A f \in Output : f < fd' => f = fd \/ f < fd
        BY <1>1, <3>3, <3>5 DEF Output
      <4>2. QED BY <2>1, <3>1, <3>2, <3>3, <3>4, <3>5, <4>1 DEF Checked, Utf8
    <3>6. CASE ~(fd < 3)
      <4>1. \A f \in Output : f = fd \/ f < fd
        BY <1>1, <3>6 DEF Output
      <4>2. QED BY <2>1, <3>2, <3>3, <3>4, <3>6, <4>1 DEF Checked, Utf8
    <3>7. QED BY <3>5, <3>6
  <2>5. QED BY <2>3, <2>4
<1>3. CASE ReadOutput
  <2>1. /\ phase = "read" /\ UNCHANGED <<status, sent>>
        /\ \/ phase' = "read"
           \/ phase' = "print" /\ fd' = 1
    BY <1>3 DEF ReadOutput, ReadToEnd, Read, NextOutput, seen
  <2>2. QED BY <2>1 DEF Checked, Output
<1>4. CASE TakeoverReturns
  BY <1>4 DEF TakeoverReturns, machine, syscallVars, Checked
<1>5. CASE Guest
  BY <1>5 DEF Guest, Checked
<1>6. CASE Load \/ NoCode \/ GiveInput \/ RefuseInput \/ Connect \/ NoConnection
  <2>1. phase \in {"setup", "connect"} /\ phase' \in {"setup", "connect", "takeover"}
    BY <1>6 DEF Load, NoCode, GiveInput, RefuseInput, Connect, NoConnection
  <2>2. QED BY <2>1 DEF Checked
<1>7. CASE Transfer \/ Exit \/ UNCHANGED mainVars
  <2>1. UNCHANGED <<phase, fd, status, sent>>
    BY <1>7 DEF Transfer, Exit, mainVars, machine, syscallVars, ends, seen
  <2>2. QED BY <2>1 DEF Checked, Utf8
<1>8. QED BY <1>2, <1>3, <1>4, <1>5, <1>6, <1>7 DEF Next, MainStep

(* OutputsPrinted without its progress: where main has gone through the    *)
(* outputs or has ended at one, what it has printed is what the guest sent *)
(* to those before the first that is not UTF-8, whole and in order.        *)
PrintedAsSent ==
  /\ phase = "finished" => Printed
  /\ phase = "print" /\ status = "panicked" => Printed

(* Printing comes to that, however the guest ended and whatever the        *)
(* outputs hold: ReadToEnd of main leaves no rest, each output is printed  *)
(* once, and no output is printed behind one that is not UTF-8.            *)
THEOREM OutputsArePrinted == CompressType => (Spec => []PrintedAsSent)
<1> SUFFICES ASSUME CompressType PROVE Spec => []PrintedAsSent
  OBVIOUS
<1>1. Init => OutputsInv /\ Checked
  BY InitTyped, InitOutputs DEF OutputsInv, Init, Checked
<1>2. OutputsInv /\ Checked /\ [Next]_mainVars => (OutputsInv /\ Checked)'
  BY NextOutputs, NextChecked
<1>3. OutputsInv /\ Checked => PrintedAsSent
  <2> SUFFICES ASSUME OutputsInv, Checked,
                      phase = "finished" \/ (phase = "print" /\ status = "panicked")
               PROVE  Printed
    BY DEF PrintedAsSent
  <2>1. /\ shown \in [Output -> Seq(Byte)] /\ fd \in 1 .. 3
        /\ \A f \in Output : shown[f] = IF WasPrinted(f) THEN sent[f] ELSE <<>>
    BY DEF OutputsInv, TypedMain, MainInv, Phase, Outputs, Output
  <2>2. \A f \in Output : WasPrinted(f) <=> Printable(f)
    <3>1. CASE phase = "finished"
      BY <3>1 DEF Checked, WasPrinted, Printable, Output
    <3>2. CASE phase = "print" /\ status = "panicked"
      <4>1. ~Utf8(sent[fd]) /\ \A f \in Output : f < fd => Utf8(sent[f])
        BY <3>2 DEF Checked
      <4>2. \A f \in Output : WasPrinted(f) <=> f < fd
        BY <3>2 DEF WasPrinted
      <4>3. ASSUME NEW f \in Output, f < fd PROVE Printable(f)
        BY <2>1, <4>1, <4>3 DEF Printable, Output
      <4>4. ASSUME NEW f \in Output, ~(f < fd) PROVE ~Printable(f)
        <5>1. fd \in 1 .. f
          BY <2>1, <4>4 DEF Output
        <5>2. QED BY <4>1, <5>1 DEF Printable
      <4>5. QED BY <4>2, <4>3, <4>4
    <3>3. QED BY <3>1, <3>2
  <2>3. shown = [f \in Output |-> IF Printable(f) THEN sent[f] ELSE <<>>]
    BY <2>1, <2>2
  <2>4. phase = "finished" <=> Printable(3)
    <3>1. 3 \in Output
      BY DEF Output
    <3>2. WasPrinted(3) <=> phase = "finished"
      BY <2>1 DEF WasPrinted
    <3>3. QED BY <2>2, <3>1, <3>2
  <2>5. QED BY <2>3, <2>4 DEF Printed
<1>4. QED BY <1>1, <1>2, <1>3, PTL DEF Spec

-----------------------------------------------------------------------------
(* A text of the input in the hands of the guest.                          *)

(* Cast back to bytes, a text stands behind its length.                    *)
LEMMA TextFacts ==
  ASSUME NEW s \in Seq(Byte), NEW j \in 1 .. Len(s)
  PROVE  AsBytes(TextWords(s))[4 + j] = s[j]
<1> DEFINE head == Length(Len(s))
           body == PaddedBytes(s)
           words == TextWords(s)
           w == (j - 1) \div 4 + 1
           i == ((j - 1) % 4) + 1
           n == (Len(s) + 3) \div 4
<1>1. head \in Seq(Word) /\ Len(head) = 1
  <2>1. Len(s) \in Int
    OBVIOUS
  <2>2. QED BY <2>1, LengthFacts DEF Words
<1>2. /\ body \in Seq(Word) /\ Len(body) = n
      /\ w \in 1 .. n /\ body[w][i] = s[j]
  BY PaddedFacts, PaddedWords DEF Words
<1>3. words = head \o body
  BY DEF TextWords
<1>4. j \in Nat \ {0} /\ n \in Nat /\ Len(s) \in Nat /\ i \in 1 .. 4
  OBVIOUS
<1>5. (4 + j - 1) \div 4 + 1 = 1 + w /\ ((4 + j - 1) % 4) + 1 = i
  BY <1>4
<1> HIDE DEF head, body, words
<1>6. InTwo(words, head, body)
  BY <1>1, <1>2, <1>3, TwoParts
<1> HIDE DEF w, i
<1>7. Len(words) = 1 + n /\ words[1 + w] = body[w]
  BY <1>1, <1>2, <1>6 DEF InTwo
<1>8. 4 + j \in 1 .. 4 * Len(words)
  <2>1. j <= 4 * n
    BY <1>4
  <2> HIDE DEF n
  <2>2. QED BY <1>4, <1>7, <2>1
<1>9. AsBytes(words)[4 + j] = words[(4 + j - 1) \div 4 + 1][((4 + j - 1) % 4) + 1]
  BY <1>8 DEF AsBytes
<1>10. QED BY <1>2, <1>5, <1>7, <1>9 DEF words

(* Only Start writes to stdin: no ecall changes what the Cursor holds.     *)
LEMMA EcallKeepsStdin ==
  ASSUME EcallStep PROVE stdin' = stdin
<1>1. ASSUME NEW c \in guest, Software(c) PROVE stdin' = stdin
  BY <1>1
  DEF Software, Refuse, Panic, SysRandom, SysCycleCount, SysGetenv, SysArgs, SysArgc,
      SysRead, SysReadAvail, SysWrite, SysLog, SysVerify, SysOther, Fetch, Emit, Return,
      ends
<1>2. CASE EcallHalt \/ PauseAgain \/ EcallInput \/ UnknownEcall
  BY <1>2 DEF EcallHalt, PauseAgain, EcallInput, UnknownEcall, ends
<1>3. CASE \E c \in ShaCalls : EcallSha(c)
  BY <1>3 DEF EcallSha, RestUnchanged, ends
<1>4. CASE \E c \in BigintCalls : EcallBigint(c)
  BY <1>4 DEF EcallBigint, RestUnchanged, ends
<1>5. QED BY <1>1, <1>2, <1>3, <1>4 DEF EcallStep, SyscallStep

(* The Cursor holds the serialized input, whole and alone.                 *)
InputInv ==
  /\ phase = "setup" => stdin = <<>>
  /\ phase # "setup" =>
       /\ ToVec[input].outcome = "Ok"
       /\ stdin = AsBytes(ToVec[input].words)

(* Simulator::write puts the input behind nothing, once.                   *)
LEMMA NextInput ==
  ASSUME MainInv, InputInv, [Next]_mainVars PROVE InputInv'
<1>1. CASE GiveInput
  <2> DEFINE data == AsBytes(ToVec[input].words)
  <2>1. /\ Start(data) /\ ToVec[input].outcome = "Ok"
        /\ phase = "setup" /\ phase' = "connect" /\ input' = input
    BY <1>1 DEF GiveInput
  <2>2. data \in Seq(Byte)
    BY <2>1, InputFacts, AsBytesFacts DEF MainInv
  <2>3. stdin' = <<>> \o data
    BY <2>1 DEF Start, InputInv
  <2>4. stdin' = data
    <3> HIDE DEF data
    <3>1. QED BY <2>2, <2>3
  <2>5. QED BY <2>1, <2>4 DEF InputInv
<1>2. CASE ~GiveInput
  <2>1. UNCHANGED <<stdin, input>> /\ (phase' = "setup" <=> phase = "setup")
    <3>1. CASE Guest
      BY <3>1, EcallKeepsStdin DEF Guest
    <3>2. CASE PrintOutput \/ ReadOutput
      BY <3>2 DEF PrintOutput, ReadOutput, NextOutput, ReadToEnd, Read, ends
    <3>3. CASE ~(Guest \/ PrintOutput \/ ReadOutput)
      BY <1>2, <3>3
      DEF Next, MainStep, NoCode, Load, RefuseInput, Connect, NoConnection, Transfer,
          TakeoverReturns, Exit, mainVars, machine, syscallVars, ends
    <3>4. QED BY <3>1, <3>2, <3>3
  <2>2. QED BY <2>1 DEF InputInv
<1>3. QED BY <1>1, <1>2

(* The text of the input reaches a guest that reads stdin, byte by byte    *)
(* behind its length, although write_padded_bytes puts it into words, main *)
(* casts these to bytes and SYS_READ delivers words and unaligned ends.    *)
THEOREM TextIsRead == Spec => []TextArrives
<1>1. Init => MainInv /\ InputInv
  BY InitInv DEF Init, SyscallInit, InputInv
<1>2. MainInv /\ InputInv /\ [Next]_mainVars => (MainInv /\ InputInv)'
  BY NextInv, NextInput
<1>3. MainInv /\ InputInv => TextArrives
  <2> SUFFICES ASSUME MainInv, InputInv, input.kind = "text", status = "running",
                      NEW i \in DOMAIN got, i > 4, i <= 4 + Len(input.s)
               PROVE  got[i] \in {input.s[i - 4], Discarded}
    BY DEF TextArrives
  <2>1. input \in Values
    BY InputFacts DEF MainInv
  <2>2. input.s \in Seq(Byte) /\ ToVec[input].words = TextWords(input.s)
    <3>1. input.s \in Seq(Byte)
      BY <2>1, ValueKinds
    <3>2. Serialize(ToVec, input) = Written(TextWords(input.s))
      BY SerializeKinds
    <3>3. ToVec[input] = Written(TextWords(input.s))
      BY <2>1, <3>2, ToVecFacts
    <3>4. QED BY <3>1, <3>3 DEF Written
  <2>3. DOMAIN got = 1 .. position /\ position \in Nat
        /\ \A k \in 1 .. position : got[k] \in {stdin[k], Discarded}
    BY DEF MainInv, GuestInv, Structure, Hands, Ended
  <2>4. stdin = AsBytes(TextWords(input.s))
    <3>1. phase # "setup"
      BY DEF MainInv, Phase
    <3>2. QED BY <2>2, <3>1 DEF InputInv
  <2>5. i - 4 \in 1 .. Len(input.s) /\ 4 + (i - 4) = i
    BY <2>2, <2>3
  <2>6. AsBytes(TextWords(input.s))[4 + (i - 4)] = input.s[i - 4]
    BY <2>2, <2>5, TextFacts, Zenon
  <2>7. QED BY <2>3, <2>4, <2>5, <2>6
<1>4. QED BY <1>1, <1>2, <1>3, PTL DEF Spec

(* A guest that knows the type of its input reads back that value and no   *)
(* other, and knows where it ends: what serialize_u8 to serialize_u64, the *)
(* padded bytes, the lengths and the tags write of two values of a type is *)
(* never the same, nor is one the beginning of the other.                  *)
THEOREM InputIsTold == Spec => []InputUnambiguous
<1>1. Init => MainInv /\ InputInv
  BY InitInv DEF Init, SyscallInit, InputInv
<1>2. MainInv /\ InputInv /\ [Next]_mainVars => (MainInv /\ InputInv)'
  BY NextInv, NextInput
<1>3. MainInv /\ InputInv => InputUnambiguous
  <2> SUFFICES ASSUME InputInv, phase = "takeover", NEW type \in InputTypes, input \in type,
                      NEW v \in type \ {input}, ToVec[v].outcome = "Ok"
               PROVE  /\ ~IsPrefix(ToVec[input].words, ToVec[v].words)
                      /\ ~IsPrefix(ToVec[v].words, ToVec[input].words)
    BY DEF InputUnambiguous
  <2>1. OneType(input, v) /\ OneType(v, input)
    BY DEF OneType
  <2>2. input \in Values /\ v \in Values
    BY <2>1, OneTypeFacts
  <2>3. ToVec[input].outcome = "Ok"
    BY DEF InputInv
  <2>4. QED BY <2>1, <2>2, <2>3, WordsTellValues
<1>4. QED BY <1>1, <1>2, <1>3, PTL DEF Spec

-----------------------------------------------------------------------------
(* The bytes of words tell the words.                                      *)

(* Byte k of word i is where the cast has it.                              *)
LEMMA AsBytesAt ==
  ASSUME NEW x \in Seq(Word), NEW i \in 1 .. Len(x), NEW k \in 1 .. 4
  PROVE  /\ 4 * (i - 1) + k \in 1 .. 4 * Len(x)
         /\ AsBytes(x)[4 * (i - 1) + k] = x[i][k]
<1>1. Len(x) \in Nat /\ i \in Nat /\ k \in Nat
  OBVIOUS
<1> DEFINE at == 4 * (i - 1) + k
<1>2. at \in 1 .. 4 * Len(x) /\ (at - 1) \div 4 + 1 = i /\ ((at - 1) % 4) + 1 = k
  BY <1>1
<1> HIDE DEF at
<1>3. AsBytes(x)[at] = x[(at - 1) \div 4 + 1][((at - 1) % 4) + 1]
  BY <1>2 DEF AsBytes
<1>4. AsBytes(x)[at] = x[i][k]
  BY <1>2, <1>3
<1>5. QED BY <1>2, <1>4 DEF at

(* If bytes begin others, the words they come from do.                     *)
LEMMA AsBytesPrefix ==
  ASSUME NEW x \in Seq(Word), NEW y \in Seq(Word), IsPrefix(AsBytes(x), AsBytes(y))
  PROVE  IsPrefix(x, y)
<1>1. /\ Len(x) \in Nat /\ Len(y) \in Nat
      /\ 4 * Len(x) \in Nat /\ 4 * Len(y) \in Nat
  OBVIOUS
<1>2. /\ AsBytes(x) \in Seq(Byte) /\ Len(AsBytes(x)) = 4 * Len(x)
      /\ AsBytes(y) \in Seq(Byte) /\ Len(AsBytes(y)) = 4 * Len(y)
  <2>1. ASSUME NEW z \in Seq(Word), 4 * Len(z) \in Nat
        PROVE  AsBytes(z) \in Seq(Byte) /\ Len(AsBytes(z)) = 4 * Len(z)
    <3>1. AsBytes(z) \in Seq(Byte)
      BY AsBytesFacts
    <3>2. DOMAIN AsBytes(z) = 1 .. 4 * Len(z)
      BY DEF AsBytes
    <3>3. QED BY <2>1, <3>1, <3>2, LenProperties
  <2>2. QED BY <1>1, <2>1
<1>3. /\ Len(AsBytes(x)) <= Len(AsBytes(y))
      /\ SubSeq(AsBytes(x), 1, Len(AsBytes(x))) = SubSeq(AsBytes(y), 1, Len(AsBytes(x)))
  BY DEF IsPrefix
<1>4. Len(x) <= Len(y)
  BY <1>1, <1>2, <1>3
<1>5. ASSUME NEW j \in 1 .. 4 * Len(x) PROVE AsBytes(x)[j] = AsBytes(y)[j]
  <2> DEFINE a == AsBytes(x)
             b == AsBytes(y)
  <2> HIDE DEF a, b
  <2>1. /\ a \in Seq(Byte) /\ b \in Seq(Byte) /\ Len(a) \in Nat /\ j \in 1 .. Len(a)
        /\ Len(a) <= Len(b) /\ SubSeq(a, 1, Len(a)) = SubSeq(b, 1, Len(a))
    BY <1>2, <1>3, <1>5 DEF a, b
  <2>2. SubSeq(a, 1, Len(a))[j] = a[j] /\ SubSeq(b, 1, Len(a))[j] = b[j]
    BY <2>1
  <2>3. QED BY <2>1, <2>2 DEF a, b
<1>6. ASSUME NEW i \in 1 .. Len(x) PROVE x[i] = y[i]
  <2>1. i \in 1 .. Len(y)
    BY <1>1, <1>4
  <2>2. x[i] \in Word /\ y[i] \in Word
    BY <2>1
  <2>3. ASSUME NEW k \in 1 .. 4 PROVE x[i][k] = y[i][k]
    <3>1. /\ 4 * (i - 1) + k \in 1 .. 4 * Len(x)
          /\ AsBytes(x)[4 * (i - 1) + k] = x[i][k]
          /\ AsBytes(y)[4 * (i - 1) + k] = y[i][k]
      BY <2>1, AsBytesAt
    <3>2. QED BY <1>5, <3>1
  <2>4. QED BY <2>2, <2>3 DEF Word
<1>7. SubSeq(x, 1, Len(x)) = SubSeq(y, 1, Len(x))
  <2>1. /\ SubSeq(x, 1, Len(x)) \in Seq(Word) /\ Len(SubSeq(x, 1, Len(x))) = Len(x)
        /\ \A i \in 1 .. Len(x) : SubSeq(x, 1, Len(x))[i] = x[i]
    BY <1>1
  <2>2. /\ SubSeq(y, 1, Len(x)) \in Seq(Word) /\ Len(SubSeq(y, 1, Len(x))) = Len(x)
        /\ \A i \in 1 .. Len(x) : SubSeq(y, 1, Len(x))[i] = y[i]
    BY <1>1, <1>4
  <2>3. QED BY <1>6, <2>1, <2>2, SeqEqual
<1>8. QED BY <1>4, <1>7 DEF IsPrefix

(* InputUnambiguous of the bytes that the guest reads: what main casts the *)
(* words to and Simulator::write puts into stdin neither begins the bytes  *)
(* of another value of the input's type nor begins with them.              *)
THEOREM StdinTellsInput ==
  Spec => [](phase # "setup" =>
               \A v \in Values :
                 OneType(input, v) /\ v # input /\ ToVec[v].outcome = "Ok" =>
                   /\ ~IsPrefix(stdin, AsBytes(ToVec[v].words))
                   /\ ~IsPrefix(AsBytes(ToVec[v].words), stdin))
<1> DEFINE Tells ==
      phase # "setup" =>
        \A v \in Values :
          OneType(input, v) /\ v # input /\ ToVec[v].outcome = "Ok" =>
            /\ ~IsPrefix(stdin, AsBytes(ToVec[v].words))
            /\ ~IsPrefix(AsBytes(ToVec[v].words), stdin)
<1>1. Init => MainInv /\ InputInv
  BY InitInv DEF Init, SyscallInit, InputInv
<1>2. MainInv /\ InputInv /\ [Next]_mainVars => (MainInv /\ InputInv)'
  BY NextInv, NextInput
<1>3. MainInv /\ InputInv => Tells
  <2> SUFFICES ASSUME MainInv, InputInv, phase # "setup",
                      NEW v \in Values, OneType(input, v), v # input,
                      ToVec[v].outcome = "Ok"
               PROVE  /\ ~IsPrefix(stdin, AsBytes(ToVec[v].words))
                      /\ ~IsPrefix(AsBytes(ToVec[v].words), stdin)
    OBVIOUS
  <2>1. input \in Values /\ ToVec[input].words \in Seq(Word)
    BY InputFacts DEF MainInv
  <2>2. ToVec[v].words \in Seq(Word)
    BY ToVecFacts DEF Result, Words
  <2>3. ToVec[input].outcome = "Ok" /\ stdin = AsBytes(ToVec[input].words)
    BY DEF InputInv
  <2>4. ~IsPrefix(ToVec[input].words, ToVec[v].words)
    BY <2>1, <2>3, WordsTellValues
  <2>5. ~IsPrefix(ToVec[v].words, ToVec[input].words)
    <3>1. OneType(v, input)
      BY DEF OneType
    <3>2. QED BY <2>1, <2>3, <3>1, WordsTellValues
  <2>6. QED BY <2>1, <2>2, <2>3, <2>4, <2>5, AsBytesPrefix
<1>4. QED BY <1>1, <1>2, <1>3, PTL DEF Spec
=============================================================================
