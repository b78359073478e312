----------------------------- MODULE EcallProofs -----------------------------
(***************************************************************************)
(* Proofs about Syscalls and Ecalls: what one of their steps preserves,    *)
(* for every memory size, environment, guest and input.  MainProofs uses   *)
(* them for the whole program.                                             *)
(***************************************************************************)
EXTENDS Ecalls, BasicFacts

Ended == {"Err", "panicked"}
Status == {"setup", "running", "Halted", "Paused"} \cup Ended

-----------------------------------------------------------------------------
(* The invariant of a guest, but for the types of bytes and registers.     *)

Structure ==
  /\ guest \subseteq Call
  /\ DOMAIN bytes = Addr
  /\ status \in Status
  /\ stdin \in Seq(Byte) /\ position \in 0 .. Len(stdin)
  /\ cycle \in Nat

(* What the guest may still read by READ_AVAIL's word is there.            *)
Promise ==
  /\ promised \in Nat
  /\ status # "panicked" => promised <= Available

InHand == Byte \cup {Discarded}

Hands ==
  /\ got \in Seq(InHand)
  /\ status \notin Ended =>
       /\ Len(got) = position
       /\ \A i \in 1 .. position : got[i] \in {stdin[i], Discarded}

(* The length told of a value is the value's.                              *)
ArgKey(i) == <<"arg", <<i>>>>
EnvKey(s) == <<"env", s>>

Learned ==
  \/ learned = <<>>
  \/ \E i \in 0 .. Len(Args) - 1 : learned = [key |-> ArgKey(i), len |-> Len(Args[i + 1])]
  \/ \E s \in DOMAIN Env : learned = [key |-> EnvKey(s), len |-> Len(Env[s])]

Counted ==
  \/ counted = <<>>
  \/ \E n \in 0 .. cycle : counted = [told |-> n % U32, cycle |-> n]

GuestInv == Structure /\ Promise /\ Hands /\ Learned /\ Counted

-----------------------------------------------------------------------------
(* Facts about the operators.                                              *)

(* The numbers of a call are registers, and its buffer has a length.       *)
LEMMA CallFacts ==
  ASSUME NEW c \in Call
  PROVE  /\ c.ptr \in Nat /\ c.words \in Nat /\ c.a3 \in Nat /\ c.a4 \in Nat
         /\ c.a5 \in Nat
         /\ c.ptr < U32 /\ c.a4 < U32
         /\ BufferLen(c) \in Nat
         /\ Chunks(c.words) \in Nat
<1>1. c.words \in Nat
  BY SyscallAssumption DEF Call, Register
<1>2. ((c.words + 3) \div 4) * 4 \in Nat
  BY <1>1
<1>3. QED
  BY <1>1, <1>2, SyscallAssumption DEF Call, Register, BufferLen, Chunks

(* A word address in bounds, and the three behind it, are addresses.       *)
LEMMA InBoundsFacts ==
  /\ Addr \subseteq Nat
  /\ \A a \in Nat : InBounds(a) => a \in Addr
  /\ \A a \in Nat : InBounds(a) => a - (a % 4) .. a - (a % 4) + 3 \subseteq Addr
<1>1. GUEST_MAX_MEM \in Nat /\ GUEST_MIN_MEM \in Nat /\ GUEST_MAX_MEM % 4 = 0
  BY BoundsAssumption
<1>2. ASSUME NEW a \in Nat, InBounds(a)
      PROVE  a - (a % 4) .. a - (a % 4) + 3 \subseteq Addr
  <2>1. a - (a % 4) \in Nat /\ a - (a % 4) <= a
    OBVIOUS
  <2>2. a <= GUEST_MAX_MEM
    BY <1>2 DEF InBounds
  <2>3. QED BY <1>1, <2>1, <2>2 DEF Addr
<1>3. QED BY <1>1, <1>2 DEF Addr, InBounds

(* A buffer is as long as the guest says, the data at its beginning.       *)
LEMMA BufferFacts ==
  ASSUME NEW c \in Call, NEW data \in Seq(Byte)
  PROVE  /\ Buffer(c, data) \in Seq(Byte)
         /\ Len(Buffer(c, data)) = BufferLen(c)
         /\ \A i \in 1 .. BufferLen(c) :
              Buffer(c, data)[i] = IF i <= Len(data) THEN data[i] ELSE 0
<1>1. 0 \in Byte
  BY BoundsAssumption DEF Byte
<1>2. BufferLen(c) \in Nat
  BY CallFacts
<1>3. QED BY <1>1, <1>2 DEF Buffer

(* A range that can be written holds what is written to it.                *)
LEMMA WriteFacts ==
  ASSUME NEW mem, DOMAIN mem = Addr, NEW start \in Nat, NEW data, NEW n \in Nat,
         DOMAIN data = 1 .. n
  PROVE  /\ DOMAIN WriteBytes(mem, start, data) = Addr
         /\ Readable(start, n) =>
              \A i \in 1 .. n : WriteBytes(mem, start, data)[start + i - 1] = data[i]
         /\ mem \in [Addr -> Byte] /\ data \in [1 .. n -> Byte]
              => WriteBytes(mem, start, data) \in [Addr -> Byte]
<1>1. DOMAIN WriteBytes(mem, start, data) = Addr
  BY DEF WriteBytes
<1>2. ASSUME Readable(start, n), NEW i \in 1 .. n
      PROVE  WriteBytes(mem, start, data)[start + i - 1] = data[i]
  <2> DEFINE a == start + i - 1
  <2>1. a \in start .. start + n - 1 /\ a \in Nat /\ a - start + 1 = i
    OBVIOUS
  <2>2. InBounds(a)
    BY <1>2, <2>1 DEF Readable
  <2>3. a \in Addr
    BY <2>1, <2>2, InBoundsFacts
  <2>4. Readable(start, i)
    <3>1. start .. start + i - 1 \subseteq start .. start + n - 1
      OBVIOUS
    <3>2. QED BY <1>2, <3>1 DEF Readable
  <2> HIDE DEF a
  <2>5. QED BY <2>1, <2>3, <2>4 DEF WriteBytes
<1>3. ASSUME mem \in [Addr -> Byte], data \in [1 .. n -> Byte]
      PROVE  WriteBytes(mem, start, data) \in [Addr -> Byte]
  BY <1>3 DEF WriteBytes
<1>4. QED BY <1>1, <1>2, <1>3

(* What is left of standard input is a number.                             *)
LEMMA AvailableFacts ==
  ASSUME Structure
  PROVE  /\ Len(stdin) \in Nat /\ position \in Nat /\ Available \in Nat
         /\ Available = Len(stdin) - position
BY DEF Structure, Available

-----------------------------------------------------------------------------
(* Steps.                                                                  *)

(* How the copy to the guest's buffer ends.                                *)
LEMMA ReturnFacts ==
  ASSUME Structure, NEW c \in Call, NEW data \in Seq(Byte), NEW r0, NEW r1,
         Return(c, data, r0, r1)
  PROVE  /\ a0' = r0 /\ a1' = r1
         /\ DOMAIN bytes' = Addr
         /\ status' \in {"running", "Err"}
         /\ cycle' \in Nat /\ cycle <= cycle'
         /\ guest' = guest /\ stdin' = stdin
         /\ bytes \in [Addr -> Byte] => bytes' \in [Addr -> Byte]
         /\ status' # "Err" /\ c.ptr # 0 =>
              \A i \in 1 .. BufferLen(c) :
                bytes'[c.ptr + i - 1] = IF i <= Len(data) THEN data[i] ELSE 0
<1>1. /\ a0' = r0 /\ a1' = r1 /\ guest' = guest /\ stdin' = stdin
      /\ status' \in {"running", "Err"}
  BY DEF Return
<1>2. cycle' \in Nat /\ cycle <= cycle'
  <2>1. CASE status' = "Err"
    BY <2>1 DEF Return, Structure
  <2>2. CASE status' # "Err"
    <3>1. PICK n \in StepCycles : cycle' = cycle + n + 2 + Chunks(c.words)
      BY <2>2 DEF Return
    <3>2. n \in Nat
      BY SyscallAssumption
    <3>3. QED BY <3>1, <3>2, CallFacts DEF Structure
  <2>3. QED BY <2>1, <2>2
<1> DEFINE buffer == Buffer(c, data)
<1>3. /\ BufferLen(c) \in Nat /\ c.ptr \in Nat
      /\ buffer \in [1 .. BufferLen(c) -> Byte]
      /\ DOMAIN buffer = 1 .. BufferLen(c)
      /\ \A i \in 1 .. BufferLen(c) : buffer[i] = IF i <= Len(data) THEN data[i] ELSE 0
  BY CallFacts, BufferFacts
<1>4. bytes' = IF c.ptr = 0 THEN bytes ELSE WriteBytes(bytes, c.ptr, buffer)
  BY DEF Return
<1>5. status' # "Err" /\ c.ptr # 0 => Readable(c.ptr, BufferLen(c))
  BY DEF Return
<1> HIDE DEF buffer
<1>6. DOMAIN bytes = Addr
  BY DEF Structure
<1>7. CASE c.ptr = 0
  BY <1>1, <1>2, <1>4, <1>6, <1>7
<1>8. CASE c.ptr # 0
  <2>1. /\ DOMAIN WriteBytes(bytes, c.ptr, buffer) = Addr
        /\ Readable(c.ptr, BufferLen(c)) =>
             \A i \in 1 .. BufferLen(c) :
               WriteBytes(bytes, c.ptr, buffer)[c.ptr + i - 1] = buffer[i]
        /\ bytes \in [Addr -> Byte]
             => WriteBytes(bytes, c.ptr, buffer) \in [Addr -> Byte]
    BY <1>3, <1>6, WriteFacts
  <2>2. bytes' = WriteBytes(bytes, c.ptr, buffer)
    BY <1>4, <1>8
  <2>3. QED BY <1>1, <1>2, <1>3, <1>5, <2>1, <2>2
<1>9. QED BY <1>7, <1>8

(* A step that leaves the input and all that is known of it alone.         *)
Quiet ==
  /\ guest' = guest
  /\ DOMAIN bytes' = Addr
  /\ status' \in Status
  /\ status' \notin Ended => status \notin Ended
  /\ status' # "panicked" => status # "panicked"
  /\ cycle' \in Nat /\ cycle <= cycle'
  /\ UNCHANGED <<stdin, position>>

(* The parts of the invariant over a step that is quiet: one that leaves   *)
(* stdin and what the guest has of it.                                     *)
LEMMA QuietStructure ==
  ASSUME Structure, Quiet PROVE Structure'
BY DEF Structure, Quiet

(* A quiet step takes nothing of what SYS_READ_AVAIL told.                 *)
LEMMA QuietPromise ==
  ASSUME Structure, Promise, Quiet, promised' = promised PROVE Promise'
BY DEF Promise, Quiet, Available

(* A quiet step changes nothing that the guest has read.                   *)
LEMMA QuietHands ==
  ASSUME Hands, Quiet, got' = got PROVE Hands'
BY DEF Hands, Quiet

(* What the guest learned of a value stays true: args and the environment  *)
(* are constants.                                                          *)
LEMMA LearnedStays ==
  ASSUME Learned, learned' = learned PROVE Learned'
BY DEF Learned

(* Cycles only grow, so a count told before stays behind.                  *)
LEMMA QuietCounted ==
  ASSUME Structure, Counted, Quiet, counted' = counted PROVE Counted'
<1>1. CASE counted = <<>>
  BY <1>1 DEF Counted
<1>2. CASE counted # <<>>
  <2>1. PICK n \in 0 .. cycle : counted = [told |-> n % U32, cycle |-> n]
    BY <1>2 DEF Counted
  <2>2. n \in 0 .. cycle'
    BY DEF Quiet, Structure
  <2>3. QED BY <2>1, <2>2 DEF Counted
<1>3. QED BY <1>1, <1>2

(* Together: every ecall but SYS_READ and those that tell something is     *)
(* quiet and preserves the invariant.                                      *)
LEMMA QuietStep ==
  ASSUME GuestInv, Quiet, UNCHANGED <<got, promised, learned, counted>>
  PROVE  GuestInv'
BY QuietStructure, QuietPromise, QuietHands, LearnedStays, QuietCounted DEF GuestInv

(* A syscall that returns is quiet if it reads nothing.                    *)
LEMMA ReturnIsQuiet ==
  ASSUME Structure, NEW c \in Call, NEW data \in Seq(Byte), NEW r0, NEW r1,
         Ecall, Return(c, data, r0, r1), position' = position
  PROVE  Quiet
<1>1. status = "running"
  BY DEF Ecall, Running
<1>2. QED BY <1>1, ReturnFacts DEF Quiet, Status, Ended

(* A prefix of a value, or part of the input, is bytes.                    *)
LEMMA SubSeqFacts ==
  ASSUME NEW s \in Seq(Byte), NEW m \in Nat, NEW n \in Nat, m <= n, n <= Len(s)
  PROVE  /\ SubSeq(s, m + 1, n) \in Seq(Byte)
         /\ Len(SubSeq(s, m + 1, n)) = n - m
         /\ \A i \in 1 .. n - m : SubSeq(s, m + 1, n)[i] = s[m + i]
<1>1. SubSeq(s, m + 1, n) = [i \in 1 .. n - m |-> s[m + i]]
  OBVIOUS
<1>2. \A i \in 1 .. n - m : m + i \in 1 .. Len(s)
  OBVIOUS
<1>3. [i \in 1 .. n - m |-> s[m + i]] \in Seq(Byte)
  BY <1>2
<1>4. QED BY <1>1, <1>2, <1>3

(* What GETENV and ARGS are asked for is a value, and Key tells which.     *)
LEMMA ValueFacts ==
  ASSUME NEW c \in Call,
         \/ Called(c, "SYS_ARGS")
         \/ Called(c, "SYS_GETENV") /\ Key(c)[2] \in DOMAIN Env
  PROVE  /\ Value(c) \in Seq(Byte) /\ Len(Value(c)) \in Nat /\ Len(Value(c)) < U32
         /\ \/ \E i \in 0 .. Len(Args) - 1 : Key(c) = ArgKey(i) /\ Value(c) = Args[i + 1]
            \/ \E s \in DOMAIN Env : Key(c) = EnvKey(s) /\ Value(c) = Env[s]
<1>1. CASE Called(c, "SYS_ARGS")
  <2>1. c.name = "SYS_ARGS" /\ ~(c.a3 >= Len(Args))
    BY <1>1 DEF Called, Refuses
  <2>2. c.a3 \in Nat /\ Len(Args) \in Nat
    BY CallFacts, SyscallAssumption
  <2>3. c.a3 \in 0 .. Len(Args) - 1 /\ c.a3 + 1 \in DOMAIN Args
    BY <2>1, <2>2, SyscallAssumption
  <2>4. Fits(Args[c.a3 + 1])
    BY <2>3, SyscallAssumption
  <2>5. Key(c) = ArgKey(c.a3) /\ Value(c) = Args[c.a3 + 1]
    BY <2>1 DEF Key, Value, ArgKey
  <2>6. QED BY <2>3, <2>4, <2>5 DEF Fits
<1>2. CASE Called(c, "SYS_GETENV") /\ Key(c)[2] \in DOMAIN Env
  <2>1. c.name = "SYS_GETENV"
    BY <1>2 DEF Called
  <2> DEFINE s == Bytes(bytes, c.a3, c.a4)
  <2>2. Key(c) = EnvKey(s) /\ Key(c)[2] = s
    BY <2>1 DEF Key, EnvKey
  <2>3. Value(c) = Env[s]
    BY <2>1, <2>2 DEF Value
  <2>4. s \in DOMAIN Env
    BY <1>2, <2>2
  <2> HIDE DEF s
  <2>5. Fits(Env[s])
    BY <2>4, SyscallAssumption
  <2>6. QED BY <2>2, <2>3, <2>4, <2>5 DEF Fits
<1>3. QED BY <1>1, <1>2

(* The part of a value that fits into the guest's buffer.                  *)
FittingPart(c) == SubSeq(Value(c), 1, Least(BufferLen(c), Len(Value(c))))

(* copy_from_slice takes what fits in the buffer, the whole value if it    *)
(* does.                                                                   *)
LEMMA FittingFacts ==
  ASSUME NEW c \in Call, Value(c) \in Seq(Byte)
  PROVE  /\ FittingPart(c) \in Seq(Byte)
         /\ Len(Value(c)) <= BufferLen(c) => FittingPart(c) = Value(c)
<1> DEFINE n == Least(BufferLen(c), Len(Value(c)))
<1>1. n \in Nat /\ n <= Len(Value(c))
  BY CallFacts DEF Least
<1>2. FittingPart(c) \in Seq(Byte)
  BY <1>1, SubSeqFacts, 0 + 1 = 1 DEF FittingPart
<1>3. ASSUME Len(Value(c)) <= BufferLen(c)
      PROVE  FittingPart(c) = Value(c)
  <2>1. n = Len(Value(c))
    BY <1>3, CallFacts DEF Least
  <2>2. SubSeq(Value(c), 1, Len(Value(c))) = Value(c)
    OBVIOUS
  <2>3. QED BY <2>1, <2>2 DEF FittingPart
<1>4. QED BY <1>2, <1>3

(* GETENV and ARGS.                                                        *)
LEMMA FetchStep ==
  ASSUME GuestInv, NEW c \in Call, Fetch(c),
         \/ Called(c, "SYS_ARGS")
         \/ Called(c, "SYS_GETENV") /\ Key(c)[2] \in DOMAIN Env
  PROVE  /\ GuestInv'
         /\ a0' = Len(Value(c)) /\ a1' = ZeroWord
         /\ bytes \in [Addr -> Byte] => bytes' \in [Addr -> Byte]
<1>1. Structure /\ Ecall
  BY DEF GuestInv, Called
<1>2. Return(c, FittingPart(c), Len(Value(c)), ZeroWord)
  BY DEF Fetch, FittingPart
<1>3. FittingPart(c) \in Seq(Byte)
  BY ValueFacts, FittingFacts
<1>4. /\ UNCHANGED <<position, got, promised, counted>>
      /\ learned' = [key |-> Key(c), len |-> a0']
  BY DEF Fetch
<1>5. /\ a0' = Len(Value(c)) /\ a1' = ZeroWord
      /\ bytes \in [Addr -> Byte] => bytes' \in [Addr -> Byte]
  BY <1>1, <1>2, <1>3, ReturnFacts
<1>6. Quiet
  BY <1>1, <1>2, <1>3, <1>4, ReturnIsQuiet
<1>7. Learned'
  BY <1>4, <1>5, ValueFacts DEF Learned
<1>8. QED
  BY <1>4, <1>5, <1>6, <1>7, QuietStructure, QuietPromise, QuietHands, QuietCounted
  DEF GuestInv

(* What an accepted SYS_READ takes: whole words and up to four bytes.      *)
LEMMA ReadFacts ==
  ASSUME Structure, NEW c \in Call, Called(c, "SYS_READ")
  PROVE  /\ BufferLen(c) \in Nat /\ BufferLen(c) <= Available
         /\ BufferLen(c) <= c.a4 /\ c.a4 <= BufferLen(c) + 4
         /\ EndBytes(c) \in Seq(Byte)
         /\ Len(EndBytes(c)) = Least(c.a4, Available) - BufferLen(c)
         /\ Len(EndBytes(c)) \in 0 .. 4
         /\ \A i \in 1 .. Len(EndBytes(c)) :
              EndBytes(c)[i] = stdin[position + BufferLen(c) + i]
         /\ SubSeq(stdin, position + 1, position + BufferLen(c)) \in Seq(Byte)
         /\ Len(SubSeq(stdin, position + 1, position + BufferLen(c))) = BufferLen(c)
         /\ \A i \in 1 .. BufferLen(c) :
              SubSeq(stdin, position + 1, position + BufferLen(c))[i]
                = stdin[position + i]
<1> DEFINE words == BufferLen(c)
           last  == Least(Len(stdin), position + c.a4)
<1>1. /\ words \in Nat /\ c.a4 \in Nat
      /\ Len(stdin) \in Nat /\ position \in Nat /\ Available = Len(stdin) - position
      /\ stdin \in Seq(Byte)
  BY CallFacts, AvailableFacts DEF Structure
<1>2. words <= Available /\ words <= c.a4 /\ c.a4 <= words + 4
  BY <1>1 DEF Called, Panics
<1>3. last \in Nat /\ position + words <= last /\ last <= Len(stdin)
  BY <1>1, <1>2 DEF Least
<1>4. last = position + Least(c.a4, Available)
  BY <1>1 DEF Least
<1>5. EndBytes(c) = SubSeq(stdin, (position + words) + 1, last)
  BY DEF EndBytes
<1> HIDE DEF words, last
<1>6. /\ EndBytes(c) \in Seq(Byte)
      /\ Len(EndBytes(c)) = last - (position + words)
      /\ \A i \in 1 .. last - (position + words) :
           EndBytes(c)[i] = stdin[position + words + i]
  BY <1>1, <1>3, <1>5, SubSeqFacts
<1>7. /\ SubSeq(stdin, position + 1, position + words) \in Seq(Byte)
      /\ Len(SubSeq(stdin, position + 1, position + words)) = (position + words) - position
      /\ \A i \in 1 .. (position + words) - position :
           SubSeq(stdin, position + 1, position + words)[i] = stdin[position + i]
  <2>1. position + words \in Nat /\ position <= position + words
        /\ position + words <= Len(stdin)
    BY <1>1, <1>3
  <2>2. QED BY <1>1, <2>1, SubSeqFacts
<1>8. Least(c.a4, Available) \in Nat /\ Least(c.a4, Available) <= c.a4
      /\ words <= Least(c.a4, Available)
  BY <1>1, <1>2 DEF Least
<1>9. /\ Len(EndBytes(c)) = Least(c.a4, Available) - words
      /\ Len(EndBytes(c)) \in 0 .. 4
  <2> DEFINE most == Least(c.a4, Available)
  <2>1. /\ most \in Nat /\ most <= words + 4 /\ words <= most
        /\ last = position + most /\ Len(EndBytes(c)) = last - (position + words)
        /\ words \in Nat /\ position \in Nat
    BY <1>1, <1>2, <1>4, <1>6, <1>8
  <2> HIDE DEF most
  <2>2. Len(EndBytes(c)) = most - words /\ most - words \in 0 .. 4
    BY <2>1
  <2>3. QED BY <2>2 DEF most
<1>10. (position + words) - position = words
  BY <1>1
<1>11. QED BY <1>1, <1>2, <1>6, <1>7, <1>9, <1>10 DEF words

(* The state after an accepted SYS_READ.                                   *)
LEMMA SysReadFacts ==
  ASSUME GuestInv, NEW c \in Call, SysRead(c)
  PROVE  /\ a0' = Least(c.a4, Available) /\ a0' \in 0 .. U32 - 1
         /\ a1' \in [1 .. 4 -> Byte]
         /\ \A i \in 1 .. a0' - BufferLen(c) :
              a1'[i] = stdin[position + BufferLen(c) + i]
         /\ position' = position + a0'
         /\ promised' = IF promised > a0' THEN promised - a0' ELSE 0
         /\ DOMAIN bytes' = Addr
         /\ bytes \in [Addr -> Byte] => bytes' \in [Addr -> Byte]
         /\ status' \in {"running", "Err"} /\ status = "running"
         /\ cycle' \in Nat /\ cycle <= cycle'
         /\ guest' = guest /\ stdin' = stdin
         /\ UNCHANGED <<learned, counted>>
         /\ status' # "Err" /\ c.ptr # 0 =>
              \A i \in 1 .. BufferLen(c) : bytes'[c.ptr + i - 1] = stdin[position + i]
<1> DEFINE end == EndBytes(c)
           main == SubSeq(stdin, position + 1, position + BufferLen(c))
           nread == BufferLen(c) + Len(end)
           rest == [i \in 1 .. 4 |-> IF i \in DOMAIN end THEN end[i] ELSE 0]
<1>1. Structure /\ Called(c, "SYS_READ")
  BY DEF GuestInv, SysRead
<1>2. /\ Return(c, main, nread, rest)
      /\ position' = position + nread
      /\ promised' = IF promised > nread THEN promised - nread ELSE 0
      /\ UNCHANGED <<learned, counted>>
  BY DEF SysRead
<1>3. /\ BufferLen(c) \in Nat
      /\ end \in Seq(Byte) /\ Len(end) \in 0 .. 4
      /\ Len(end) = Least(c.a4, Available) - BufferLen(c)
      /\ \A i \in 1 .. Len(end) : end[i] = stdin[position + BufferLen(c) + i]
      /\ main \in Seq(Byte) /\ Len(main) = BufferLen(c)
      /\ \A i \in 1 .. BufferLen(c) : main[i] = stdin[position + i]
  BY <1>1, ReadFacts
<1>4. c.a4 \in Nat /\ c.a4 < U32 /\ Available \in Nat
  BY <1>1, CallFacts, AvailableFacts
<1>5. nread = Least(c.a4, Available) /\ nread \in 0 .. U32 - 1
      /\ nread - BufferLen(c) = Len(end)
  <2> DEFINE most == Least(c.a4, Available)
  <2>1. most \in Nat /\ most <= c.a4
    BY <1>4 DEF Least
  <2>2. Len(end) = most - BufferLen(c) /\ BufferLen(c) \in Nat
    BY <1>3
  <2> HIDE DEF most, end
  <2>3. nread = most /\ most \in 0 .. U32 - 1 /\ nread - BufferLen(c) = Len(end)
    BY <1>4, <2>1, <2>2, SyscallAssumption
  <2>4. QED BY <2>3 DEF most
<1>6. 0 \in Byte
  BY BoundsAssumption DEF Byte
<1>7. rest \in [1 .. 4 -> Byte] /\ \A i \in 1 .. Len(end) : rest[i] = end[i]
  BY <1>3, <1>6
<1> HIDE DEF end, main, nread, rest
<1>8. /\ a0' = nread /\ a1' = rest
      /\ DOMAIN bytes' = Addr
      /\ status' \in {"running", "Err"}
      /\ cycle' \in Nat /\ cycle <= cycle'
      /\ guest' = guest /\ stdin' = stdin
      /\ bytes \in [Addr -> Byte] => bytes' \in [Addr -> Byte]
      /\ status' # "Err" /\ c.ptr # 0 =>
           \A i \in 1 .. BufferLen(c) :
             bytes'[c.ptr + i - 1] = IF i <= Len(main) THEN main[i] ELSE 0
  BY <1>1, <1>2, <1>3, ReturnFacts
<1>9. status = "running"
  BY <1>1 DEF Called, Ecall, Running
<1>10. status' # "Err" /\ c.ptr # 0 =>
         \A i \in 1 .. BufferLen(c) : bytes'[c.ptr + i - 1] = stdin[position + i]
  BY <1>3, <1>8
<1>11. \A i \in 1 .. a0' - BufferLen(c) : a1'[i] = stdin[position + BufferLen(c) + i]
  BY <1>3, <1>5, <1>7, <1>8
<1>12. QED BY <1>2, <1>5, <1>7, <1>8, <1>9, <1>10, <1>11

(* Three sequences, one behind the other.                                  *)
InThree(t, u, v, w) ==
  /\ Len(t) = Len(u) + Len(v) + Len(w)
  /\ \A i \in 1 .. Len(u) : t[i] = u[i]
  /\ \A i \in 1 .. Len(v) : t[Len(u) + i] = v[i]
  /\ \A i \in 1 .. Len(w) : t[Len(u) + Len(v) + i] = w[i]

(* The same of three parts, as SYS_READ delivers: words, the bytes behind  *)
(* them, what it discards.                                                 *)
LEMMA ThreeParts ==
  ASSUME NEW S, NEW u \in Seq(S), NEW v \in Seq(S), NEW w \in Seq(S)
  PROVE  u \o v \o w \in Seq(S) /\ InThree(u \o v \o w, u, v, w)
<1> DEFINE uv == u \o v
           all == uv \o w
<1>1. uv \in Seq(S) /\ InTwo(uv, u, v)
  BY TwoParts
<1> HIDE DEF uv
<1>2. all \in Seq(S) /\ InTwo(all, uv, w)
  BY <1>1, TwoParts, Zenon
<1>3. Len(u) \in Nat /\ Len(v) \in Nat /\ Len(w) \in Nat
  OBVIOUS
<1> HIDE DEF all
<1>4. all \in Seq(S) /\ InThree(all, u, v, w)
  BY <1>1, <1>2, <1>3 DEF InTwo, InThree
<1>5. QED BY <1>4 DEF all, uv

(* Standard input, as far as it has been read, is in the guest's hands.    *)
LEMMA SysReadHands ==
  ASSUME GuestInv, NEW c \in Call, SysRead(c)
  PROVE  Hands'
<1> DEFINE words == [i \in 1 .. BufferLen(c) |-> IF c.ptr = 0 THEN Discarded
                                                 ELSE bytes'[c.ptr + i - 1]]
           rest == SubSeq(a1', 1, a0' - BufferLen(c))
           n == BufferLen(c)
           m == a0' - BufferLen(c)
<1>1. Structure /\ Hands /\ Called(c, "SYS_READ")
  BY DEF GuestInv, SysRead
<1>2. status' \in {"running", "Err"} /\ status = "running" /\ stdin' = stdin
      /\ position' = position + a0'
  BY SysReadFacts
<1>3. got' = IF status' = "Err" THEN got ELSE got \o words \o rest
  BY DEF SysRead
<1>4. CASE status' = "Err"
  BY <1>1, <1>3, <1>4 DEF Hands, Ended
<1>5. CASE status' # "Err"
  <2>1. /\ n \in Nat /\ m \in 0 .. 4 /\ a0' = n + m
        /\ position \in Nat /\ Len(stdin) \in Nat /\ position + n + m <= Len(stdin)
    <3>1. /\ Len(EndBytes(c)) \in 0 .. 4
          /\ Len(EndBytes(c)) = Least(c.a4, Available) - BufferLen(c)
          /\ BufferLen(c) \in Nat
      BY <1>1, ReadFacts
    <3>2. a0' = Least(c.a4, Available)
      BY SysReadFacts
    <3>3. /\ position \in Nat /\ Len(stdin) \in Nat /\ Available \in Nat
          /\ Available = Len(stdin) - position
      BY <1>1, AvailableFacts
    <3>4. a0' \in Nat /\ a0' <= Available
      BY <3>2, <3>3, CallFacts DEF Least
    <3>5. m = Len(EndBytes(c))
      BY <3>1, <3>2
    <3> HIDE DEF m
    <3>6. m \in 0 .. 4 /\ a0' = n + m
      <4>1. m = a0' - n
        BY DEF m
      <4>2. QED BY <3>1, <3>4, <3>5, <4>1
    <3>7. QED BY <3>1, <3>3, <3>4, <3>6
  <2>2. /\ \A i \in 1 .. Len(stdin) : stdin[i] \in Byte
        /\ \A i \in 1 .. m : a1'[i] = stdin[position + n + i]
        /\ a1' \in Seq(Byte) /\ Len(a1') = 4
        /\ c.ptr # 0 => \A i \in 1 .. n : bytes'[c.ptr + i - 1] = stdin[position + i]
    <3>1. a1' \in [1 .. 4 -> Byte]
      BY SysReadFacts
    <3>2. a1' \in Seq(Byte) /\ Len(a1') = 4
      BY <3>1, FunctionIsSequence
    <3>3. stdin \in Seq(Byte)
      BY <1>1 DEF Structure
    <3>4. QED BY <1>5, <3>2, <3>3, SysReadFacts
  <2>3. /\ words \in Seq(InHand) /\ Len(words) = n
        /\ \A i \in 1 .. n : words[i] \in {stdin[position + i], Discarded}
    <3>1. \A i \in 1 .. n : position + i \in 1 .. Len(stdin)
      BY <2>1
    <3>2. \A i \in 1 .. n : words[i] \in {stdin[position + i], Discarded}
                            /\ words[i] \in InHand
      BY <2>2, <3>1 DEF InHand
    <3>3. QED BY <2>1, <3>2
  <2>4. /\ rest \in Seq(InHand) /\ Len(rest) = m
        /\ \A i \in 1 .. m : rest[i] = stdin[position + n + i]
    <3>1. rest = SubSeq(a1', 0 + 1, m)
      OBVIOUS
    <3>2. m \in Nat /\ 0 <= m /\ m <= Len(a1') /\ m - 0 = m
      BY <2>1, <2>2
    <3>3. /\ rest \in Seq(Byte) /\ Len(rest) = m
          /\ \A i \in 1 .. m : rest[i] = a1'[0 + i]
      <4> DEFINE word == a1'
      <4>1. word \in Seq(Byte) /\ rest = SubSeq(word, 0 + 1, m) /\ m <= Len(word)
        BY <2>2, <3>1, <3>2
      <4> HIDE DEF word, rest, m
      <4>2. /\ SubSeq(word, 0 + 1, m) \in Seq(Byte)
            /\ Len(SubSeq(word, 0 + 1, m)) = m - 0
            /\ \A i \in 1 .. m - 0 : SubSeq(word, 0 + 1, m)[i] = word[0 + i]
        BY <3>2, <4>1, SubSeqFacts
      <4>3. /\ rest \in Seq(Byte) /\ Len(rest) = m
            /\ \A i \in 1 .. m : rest[i] = word[0 + i]
        BY <3>2, <4>1, <4>2
      <4>4. QED BY <4>3 DEF word
    <3>4. rest \in Seq(InHand)
      BY <3>3 DEF InHand
    <3>5. \A i \in 1 .. m : rest[i] = a1'[i]
      BY <3>3
    <3>6. QED BY <2>2, <3>3, <3>4, <3>5
  <2> HIDE DEF words, rest, m, n
  <2>5. /\ got \in Seq(InHand) /\ Len(got) = position
        /\ \A i \in 1 .. position : got[i] \in {stdin[i], Discarded}
    BY <1>1, <1>2 DEF Hands, Ended
  <2>6. /\ got' \in Seq(InHand) /\ Len(got') = position + n + m
        /\ \A i \in 1 .. position : got'[i] = got[i]
        /\ \A i \in 1 .. n : got'[position + i] = words[i]
        /\ \A i \in 1 .. m : got'[position + n + i] = rest[i]
    <3> DEFINE all == got \o words \o rest
    <3>1. got' = all
      BY <1>3, <1>5
    <3>2. all \in Seq(InHand) /\ InThree(all, got, words, rest)
      BY <2>3, <2>4, <2>5, ThreeParts, Zenon
    <3> HIDE DEF all
    <3>3. QED BY <2>3, <2>4, <2>5, <3>1, <3>2 DEF InThree
  <2>7. ASSUME NEW i \in 1 .. position + n + m
        PROVE  got'[i] \in {stdin[i], Discarded}
    <3>1. CASE i <= position
      BY <2>1, <2>5, <2>6, <3>1
    <3>2. CASE position < i /\ i <= position + n
      <4>1. i - position \in 1 .. n /\ position + (i - position) = i
        BY <2>1, <3>2
      <4>2. QED BY <2>3, <2>6, <4>1
    <3>3. CASE position + n < i
      <4>1. i - (position + n) \in 1 .. m /\ position + n + (i - (position + n)) = i
        BY <2>1, <3>3
      <4>2. QED BY <2>4, <2>6, <4>1
    <3>4. QED BY <2>1, <3>1, <3>2, <3>3
  <2>8. Len(got') = position'
    BY <1>2, <2>1, <2>6
  <2>9. QED BY <1>2, <2>1, <2>6, <2>7, <2>8 DEF Hands
<1>6. QED BY <1>4, <1>5

(* SYS_READ moves the Cursor by what it delivers, and puts these bytes     *)
(* behind those delivered before.                                          *)
LEMMA SysReadStep ==
  ASSUME GuestInv, NEW c \in Call, SysRead(c)
  PROVE  GuestInv'
<1>1. Structure /\ Promise /\ Learned /\ Counted
  BY DEF GuestInv
<1>2. /\ Len(stdin) \in Nat /\ position \in Nat /\ Available \in Nat
      /\ Available = Len(stdin) - position
  BY <1>1, AvailableFacts
<1>3. /\ a0' \in Nat /\ a0' <= Available
      /\ position' = position + a0' /\ stdin' = stdin
      /\ promised' = IF promised > a0' THEN promised - a0' ELSE 0
      /\ status = "running" /\ status' \in {"running", "Err"}
      /\ UNCHANGED <<guest, learned, counted>>
      /\ DOMAIN bytes' = Addr /\ cycle' \in Nat /\ cycle <= cycle'
  <2>1. Least(c.a4, Available) \in Nat /\ Least(c.a4, Available) <= Available
    BY <1>2, CallFacts DEF Least
  <2>2. QED BY <2>1, SysReadFacts
<1>4. Structure'
  BY <1>1, <1>2, <1>3 DEF Structure, Status, Ended
<1>5. Promise'
  <2>1. Available' = Available - a0'
    BY <1>2, <1>3 DEF Available
  <2>2. promised \in Nat /\ promised <= Available
    BY <1>1, <1>3 DEF Promise
  <2>3. promised' \in Nat /\ promised' <= Available - a0'
    <3> DEFINE n == a0'
               left == promised'
    <3>3. /\ n \in Nat /\ n <= Available
          /\ left = IF promised > n THEN promised - n ELSE 0
      BY <1>3
    <3> HIDE DEF n, left
    <3>1. left \in Nat /\ left <= Available - n
      BY <1>2, <2>2, <3>3
    <3>2. QED BY <3>1 DEF n, left
  <2>4. QED BY <2>1, <2>3 DEF Promise
<1>6. Counted'
  <2>1. CASE counted = <<>>
    BY <1>3, <2>1 DEF Counted
  <2>2. CASE counted # <<>>
    <3>1. PICK k \in 0 .. cycle : counted = [told |-> k % U32, cycle |-> k]
      BY <1>1, <2>2 DEF Counted
    <3>2. k \in 0 .. cycle'
      BY <1>1, <1>3 DEF Structure
    <3>3. QED BY <1>3, <3>1, <3>2 DEF Counted
  <2>3. QED BY <2>1, <2>2
<1>7. QED
  BY <1>1, <1>3, <1>4, <1>5, <1>6, SysReadHands, LearnedStays DEF GuestInv

-----------------------------------------------------------------------------
(* The other syscalls.                                                     *)

(* A syscall that returns and reads nothing, with what it leaves alone.    *)
LEMMA ReturnStep ==
  ASSUME GuestInv, NEW c \in Call, Ecall, NEW data \in Seq(Byte), NEW r0, NEW r1,
         Return(c, data, r0, r1),
         UNCHANGED <<position, got, promised, learned, counted>>
  PROVE  GuestInv'
<1>1. Quiet
  BY ReturnIsQuiet DEF GuestInv
<1>2. QED BY <1>1, QuietStep

(* READ_AVAIL tells no more than there is.                                 *)
LEMMA SysReadAvailStep ==
  ASSUME GuestInv, NEW c \in Call, SysReadAvail(c)
  PROVE  GuestInv'
<1>1. Structure /\ Ecall /\ Return(c, <<>>, Navail, ZeroWord)
      /\ UNCHANGED <<position, got, learned, counted>> /\ promised' = a0'
  BY DEF GuestInv, SysReadAvail, Called
<1>2. <<>> \in Seq(Byte)
  OBVIOUS
<1>3. Quiet
  BY <1>1, <1>2, ReturnIsQuiet
<1>4. promised' = Navail /\ stdin' = stdin
  BY <1>1, <1>2, ReturnFacts
<1>5. Available \in Nat
  BY <1>1, AvailableFacts
<1>6. Available % U32 \in Nat /\ Available % U32 <= Available
  BY <1>5, SyscallAssumption
<1>7. Promise'
  BY <1>1, <1>4, <1>5, <1>6 DEF Promise, Available, Navail
<1>8. QED
  BY <1>1, <1>3, <1>7, QuietStructure, QuietHands, LearnedStays, QuietCounted
  DEF GuestInv

(* SYS_CYCLE_COUNT truncates the count to the register.                    *)
LEMMA SysCycleCountStep ==
  ASSUME GuestInv, NEW c \in Call, SysCycleCount(c)
  PROVE  GuestInv'
<1>1. Structure /\ Ecall /\ Return(c, <<>>, CycleCount, ZeroWord)
      /\ UNCHANGED <<position, got, promised, learned>>
      /\ counted' = [told |-> cycle % U32, cycle |-> cycle]
  BY DEF GuestInv, SysCycleCount, Called, CycleCount
<1>2. <<>> \in Seq(Byte)
  OBVIOUS
<1>3. Quiet
  BY <1>1, <1>2, ReturnIsQuiet
<1>4. cycle \in 0 .. cycle'
  BY <1>1, <1>3 DEF Quiet, Structure
<1>5. Counted'
  BY <1>1, <1>4 DEF Counted
<1>6. QED
  BY <1>1, <1>3, <1>5, QuietStructure, QuietHands, LearnedStays, QuietPromise
  DEF GuestInv

(* What SYS_RANDOM fills a buffer with is bytes.                           *)
LEMMA RandomFacts ==
  ASSUME NEW c \in Call, NEW data \in [1 .. BufferLen(c) -> Random]
  PROVE  data \in Seq(Byte)
<1>1. BufferLen(c) \in Nat
  BY CallFacts
<1>2. data \in [1 .. BufferLen(c) -> Byte]
  BY SyscallAssumption
<1>3. QED BY <1>1, <1>2, FunctionIsSequence

(* ecall_software, whichever syscall it dispatches to.                     *)
LEMMA SoftwareStep ==
  ASSUME GuestInv, NEW c \in guest, Software(c)
  PROVE  GuestInv'
<1>1. c \in Call /\ <<>> \in Seq(Byte) /\ Structure
  BY DEF GuestInv, Structure
<1>2. CASE Refuse(c)
  <2>1. Quiet /\ UNCHANGED <<got, promised, learned, counted>>
    BY <1>1, <1>2
    DEF Refuse, Quiet, Structure, Status, Ended, Ecall, Running, ends, seen
  <2>2. QED BY <2>1, QuietStep
<1>3. CASE Panic(c)
  <2>1. /\ status' = "panicked" /\ guest' = guest /\ bytes' = bytes
        /\ UNCHANGED <<stdin, cycle, got, promised, learned, counted>>
        /\ position' = IF c.a4 < BufferLen(c) THEN position
                       ELSE position + Least(BufferLen(c), Available)
    BY <1>3 DEF Panic, ends, seen
  <2>2. /\ Len(stdin) \in Nat /\ position \in Nat /\ Available \in Nat
        /\ Available = Len(stdin) - position /\ BufferLen(c) \in Nat
    BY <1>1, AvailableFacts, CallFacts
  <2>3. position' \in 0 .. Len(stdin)
    BY <2>1, <2>2 DEF Least
  <2>4. Structure'
    BY <1>1, <2>1, <2>3 DEF Structure, Status, Ended
  <2>5. Promise' /\ Hands'
    BY <2>1 DEF GuestInv, Promise, Hands, Ended
  <2>6. Learned' /\ Counted'
    BY <2>1 DEF GuestInv, Learned, Counted
  <2>7. QED BY <2>4, <2>5, <2>6 DEF GuestInv
<1>4. CASE SysRandom(c)
  <2>1. PICK data \in [1 .. BufferLen(c) -> Random] : Return(c, data, 0, ZeroWord)
    BY <1>4 DEF SysRandom
  <2>2. data \in Seq(Byte) /\ Ecall
        /\ UNCHANGED <<position, got, promised, learned, counted>>
    BY <1>1, <1>4, RandomFacts DEF SysRandom, Called, seen
  <2>3. QED BY <1>1, <2>1, <2>2, ReturnStep
<1>5. CASE SysCycleCount(c)
  BY <1>1, <1>5, SysCycleCountStep
<1>6. CASE SysGetenv(c)
  <2>1. CASE Key(c)[2] \in DOMAIN Env
    BY <1>1, <1>6, <2>1, FetchStep DEF SysGetenv
  <2>2. CASE Key(c)[2] \notin DOMAIN Env
    <3>1. /\ Return(c, <<>>, U32 - 1, ZeroWord) /\ Ecall
          /\ UNCHANGED <<position, got, promised, learned, counted>>
      BY <1>6, <2>2 DEF SysGetenv, Called, seen
    <3>2. QED BY <1>1, <3>1, ReturnStep
  <2>3. QED BY <2>1, <2>2
<1>7. CASE SysArgs(c)
  BY <1>1, <1>7, FetchStep DEF SysArgs
<1>8. CASE SysArgc(c)
  <2>1. /\ Return(c, <<>>, Len(Args), ZeroWord) /\ Ecall
        /\ UNCHANGED <<position, got, promised, learned, counted>>
    BY <1>8 DEF SysArgc, Called, seen
  <2>2. QED BY <1>1, <2>1, ReturnStep
<1>9. CASE SysRead(c)
  BY <1>1, <1>9, SysReadStep
<1>10. CASE SysReadAvail(c)
  BY <1>1, <1>10, SysReadAvailStep
<1>11. CASE SysWrite(c) \/ SysLog(c)
  <2>1. /\ Return(c, <<>>, 0, ZeroWord) /\ Ecall
        /\ UNCHANGED <<position, got, promised, learned, counted>>
    BY <1>11 DEF SysWrite, SysLog, Emit, Called
  <2>2. QED BY <1>1, <2>1, ReturnStep
<1>12. CASE SysVerify(c)
  <2>1. /\ Return(c, <<>>, 0, ZeroWord) /\ Ecall
        /\ UNCHANGED <<position, got, promised, learned, counted>>
    BY <1>12 DEF SysVerify, Called, seen
  <2>2. QED BY <1>1, <2>1, ReturnStep
<1>13. CASE SysOther(c)
  <2>1. /\ Return(c, <<>>, a0, a1) /\ Ecall
        /\ UNCHANGED <<position, got, promised, learned, counted>>
    BY <1>13 DEF SysOther, Called, seen
  <2>2. QED BY <1>1, <2>1, ReturnStep
<1>14. QED
  BY <1>2, <1>3, <1>4, <1>5, <1>6, <1>7, <1>8, <1>9, <1>10, <1>11, <1>12, <1>13
  DEF Software

-----------------------------------------------------------------------------
(* The other ecalls, and the invariant.                                    *)

(* The steps of a cycle count.                                             *)
LEMMA ElapsesFacts ==
  ASSUME Structure, NEW extra \in Nat,
         \E n \in StepCycles : cycle' = cycle + n + extra
  PROVE  cycle' \in Nat /\ cycle <= cycle'
BY SyscallAssumption DEF Structure

(* What the instructions between two ecalls cost is not negative.          *)
LEMMA StepElapsesFacts ==
  ASSUME Structure, StepElapses
  PROVE  cycle' \in Nat /\ cycle <= cycle'
BY SyscallAssumption DEF Structure, StepElapses

(* ecall_sha touches memory, registers and the status only.                *)
LEMMA EcallShaQuiet ==
  ASSUME GuestInv, NEW c \in ShaCalls, EcallSha(c)
  PROVE  Quiet /\ UNCHANGED <<got, promised, learned, counted>>
<1>1. Structure /\ status = "running" /\ c.count \in Nat
  BY EcallAssumption DEF GuestInv, EcallSha, Ecall, Running
<1>2. DOMAIN bytes' = Addr
  BY <1>1 DEF EcallSha, ShaStore, WriteBytes, Structure
<1>3. /\ GoesOn(73 * c.count) \/ EndsAs("Err")
      /\ UNCHANGED <<guest, stdin, position, got, promised, learned, counted>>
  BY DEF EcallSha, RestUnchanged, ends, seen
<1>4. 73 * c.count \in Nat
  BY <1>1
<1>5. status' \in Status /\ cycle' \in Nat /\ cycle <= cycle'
  BY <1>1, <1>3, <1>4, ElapsesFacts DEF GoesOn, EndsAs, Status, Ended, Structure
<1>6. QED BY <1>1, <1>2, <1>3, <1>5 DEF Quiet, Ended

(* ecall_bigint touches memory, registers and the status only.             *)
LEMMA EcallBigintQuiet ==
  ASSUME GuestInv, NEW c \in BigintCalls, EcallBigint(c)
  PROVE  Quiet /\ UNCHANGED <<got, promised, learned, counted>>
<1>1. Structure /\ status = "running"
  BY DEF GuestInv, EcallBigint, Ecall, Running
<1>2. DOMAIN bytes' = Addr
  BY <1>1 DEF EcallBigint, StoreBig, Structure
<1>3. /\ GoesOn(9) \/ EndsAs("Err") \/ EndsAs("panicked")
      /\ UNCHANGED <<guest, stdin, position, got, promised, learned, counted>>
  BY DEF EcallBigint, RestUnchanged, ends, seen
<1>4. status' \in Status /\ cycle' \in Nat /\ cycle <= cycle'
  BY <1>1, <1>3, ElapsesFacts DEF GoesOn, EndsAs, Status, Ended, Structure
<1>5. QED BY <1>1, <1>2, <1>3, <1>4 DEF Quiet, Ended

(* Every ecall preserves the invariant.                                    *)
THEOREM EcallStepInv ==
  ASSUME GuestInv, EcallStep
  PROVE  GuestInv'
<1>1. Structure
  BY DEF GuestInv
<1>2. CASE \E c \in guest : Software(c)
  BY <1>2, SoftwareStep
<1>3. CASE EcallHalt
  <2>1. /\ status = "running" /\ bytes' = bytes
        /\ status' \in {"Halted", "Paused", "Err"}
        /\ UNCHANGED cycle \/ StepElapses
        /\ UNCHANGED <<guest, stdin, position, got, promised, learned, counted>>
    BY <1>3 DEF EcallHalt, Running, ends, seen
  <2>2. Quiet
    BY <1>1, <2>1, StepElapsesFacts DEF Quiet, Structure, Status, Ended
  <2>3. QED BY <2>1, <2>2, QuietStep
<1>4. CASE PauseAgain \/ EcallInput
  <2>1. /\ status' = status /\ bytes' = bytes /\ StepElapses
        /\ UNCHANGED <<guest, stdin, position, got, promised, learned, counted>>
    BY <1>4 DEF PauseAgain, EcallInput, ends, seen
  <2>2. Quiet
    BY <1>1, <2>1, StepElapsesFacts DEF Quiet, Structure
  <2>3. QED BY <2>1, <2>2, QuietStep
<1>5. CASE UnknownEcall
  <2>1. /\ status = "running" /\ status' = "Err" /\ bytes' = bytes /\ cycle' = cycle
        /\ UNCHANGED <<guest, stdin, position, got, promised, learned, counted>>
    BY <1>5 DEF UnknownEcall, Running, ends, seen
  <2>2. Quiet
    BY <1>1, <2>1 DEF Quiet, Structure, Status, Ended
  <2>3. QED BY <2>1, <2>2, QuietStep
<1>6. CASE \E c \in ShaCalls : EcallSha(c)
  BY <1>6, EcallShaQuiet, QuietStep
<1>7. CASE \E c \in BigintCalls : EcallBigint(c)
  BY <1>7, EcallBigintQuiet, QuietStep
<1>8. QED
  BY <1>2, <1>3, <1>4, <1>5, <1>6, <1>7 DEF EcallStep, SyscallStep

(* The host's ends: input arrives before the guest starts, and the outputs *)
(* are read.                                                               *)
LEMMA StartInv ==
  ASSUME GuestInv, NEW data \in Seq(Byte), Start(data)
  PROVE  GuestInv'
<1>1. /\ Structure /\ status = "setup" /\ status' = "running"
      /\ stdin' = stdin \o data
      /\ UNCHANGED <<bytes, guest, position, cycle, got, promised, learned, counted>>
  BY DEF GuestInv, Start, seen
<1>2. stdin \in Seq(Byte) /\ Len(stdin) \in Nat /\ Len(data) \in Nat
  BY <1>1 DEF Structure
<1>3. /\ stdin' \in Seq(Byte) /\ Len(stdin') = Len(stdin) + Len(data)
      /\ \A i \in 1 .. Len(stdin) : stdin'[i] = stdin[i]
  BY <1>1, <1>2, TwoParts DEF InTwo
<1>4. Structure'
  BY <1>1, <1>2, <1>3 DEF Structure, Status
<1>5. position \in Nat /\ Available \in Nat /\ Available = Len(stdin) - position
  BY <1>1, AvailableFacts
<1>6. Promise'
  <2>1. promised \in Nat /\ promised <= Available
    BY <1>1 DEF GuestInv, Promise
  <2>2. Available' = Available + Len(data)
    BY <1>1, <1>2, <1>3, <1>5 DEF Available
  <2>3. QED BY <1>1, <1>2, <1>5, <2>1, <2>2 DEF Promise
<1>7. Hands'
  <2>1. \A i \in 1 .. position : i \in 1 .. Len(stdin)
    BY <1>1, <1>2 DEF Structure
  <2>2. got \in Seq(InHand) /\ Len(got) = position
        /\ \A i \in 1 .. position : got[i] \in {stdin[i], Discarded}
    BY <1>1 DEF GuestInv, Hands, Ended
  <2>3. QED BY <1>1, <1>3, <2>1, <2>2 DEF Hands
<1>8. Learned' /\ Counted'
  BY <1>1 DEF GuestInv, Learned, Counted
<1>9. QED BY <1>4, <1>6, <1>7, <1>8 DEF GuestInv

(* The host's reading of an output does not concern the guest.             *)
LEMMA ReadInv ==
  ASSUME GuestInv, NEW f, NEW len, Read(f, len)
  PROVE  GuestInv'
BY DEF GuestInv, Read, seen, Structure, Promise, Available, Hands, Learned, Counted

-----------------------------------------------------------------------------
(* What no step may do.                                                    *)

(* A read within what READ_AVAIL has told is served in full.               *)
LEMMA ReadIsServed ==
  ASSUME GuestInv, NEW c \in guest, SysRead(c) \/ Panic(c),
         c.a4 <= promised, c.a4 - BufferLen(c) \in 0 .. 4
  PROVE  status' # "panicked" /\ a0' = c.a4
<1>1. c \in Call /\ Structure
  BY DEF GuestInv, Structure
<1>2. status = "running"
  BY DEF SysRead, Panic, Called, Ecall, Running
<1>3. promised \in Nat /\ promised <= Available
  BY <1>2 DEF GuestInv, Promise
<1>4. c.a4 \in Nat /\ BufferLen(c) \in Nat /\ Available \in Nat
  BY <1>1, CallFacts, AvailableFacts
<1>5. BufferLen(c) <= c.a4 /\ c.a4 <= Available /\ c.a4 - BufferLen(c) <= 4
  BY <1>3, <1>4
<1>6. ~Panic(c)
  BY <1>4, <1>5 DEF Panic, Panics
<1>7. a0' = Least(c.a4, Available) /\ status' \in {"running", "Err"}
  BY <1>1, <1>6, SysReadFacts
<1>8. QED BY <1>4, <1>5, <1>7 DEF Least

(* A length that was told for a key is that of the key's value.            *)
LEMMA LearnedFacts ==
  ASSUME Learned, NEW c \in Call,
         \/ Called(c, "SYS_ARGS")
         \/ Called(c, "SYS_GETENV") /\ Key(c)[2] \in DOMAIN Env,
         learned # <<>>, learned.key = Key(c)
  PROVE  learned.len = Len(Value(c))
<1>1. CASE \E i \in 0 .. Len(Args) - 1 : Key(c) = ArgKey(i) /\ Value(c) = Args[i + 1]
  <2>1. PICK i \in 0 .. Len(Args) - 1 : Key(c) = ArgKey(i) /\ Value(c) = Args[i + 1]
    BY <1>1
  <2>2. \A s \in DOMAIN Env : EnvKey(s) # ArgKey(i)
    BY DEF EnvKey, ArgKey
  <2>3. PICK j \in 0 .. Len(Args) - 1 :
          learned = [key |-> ArgKey(j), len |-> Len(Args[j + 1])]
    <3>1. CASE \E s \in DOMAIN Env : learned = [key |-> EnvKey(s), len |-> Len(Env[s])]
      BY <2>1, <2>2, <3>1
    <3>2. QED BY <3>1 DEF Learned
  <2>4. ArgKey(j) = ArgKey(i)
    BY <2>1, <2>3
  <2>5. i = j
    BY <2>4 DEF ArgKey
  <2>6. QED BY <2>1, <2>3, <2>5
<1>2. CASE \E s \in DOMAIN Env : Key(c) = EnvKey(s) /\ Value(c) = Env[s]
  <2>1. PICK s \in DOMAIN Env : Key(c) = EnvKey(s) /\ Value(c) = Env[s]
    BY <1>2
  <2>2. \A i \in 0 .. Len(Args) - 1 : EnvKey(s) # ArgKey(i)
    BY DEF EnvKey, ArgKey
  <2>3. PICK t \in DOMAIN Env : learned = [key |-> EnvKey(t), len |-> Len(Env[t])]
    <3>1. CASE \E i \in 0 .. Len(Args) - 1 :
                 learned = [key |-> ArgKey(i), len |-> Len(Args[i + 1])]
      BY <2>1, <2>2, <3>1
    <3>2. QED BY <3>1 DEF Learned
  <2>4. EnvKey(s) = EnvKey(t)
    BY <2>1, <2>3
  <2>5. s = t
    BY <2>4 DEF EnvKey
  <2>6. QED BY <2>1, <2>3, <2>5
<1>3. QED BY <1>1, <1>2, ValueFacts

(* A buffer of the length told before receives the whole value.            *)
LEMMA ValueIsFetched ==
  ASSUME GuestInv, NEW c \in guest,
         SysArgs(c) \/ (SysGetenv(c) /\ Key(c)[2] \in DOMAIN Env),
         learned # <<>>, learned.key = Key(c),
         c.ptr # 0, BufferLen(c) >= learned.len
  PROVE  /\ bytes' = WriteBytes(bytes, c.ptr, Buffer(c, Value(c)))
         /\ a0' = Len(Value(c)) /\ Len(Value(c)) <= BufferLen(c)
<1>1. c \in Call /\ Structure /\ Learned
  BY DEF GuestInv, Structure
<1>2. /\ \/ Called(c, "SYS_ARGS")
         \/ Called(c, "SYS_GETENV") /\ Key(c)[2] \in DOMAIN Env
      /\ Fetch(c)
  BY DEF SysArgs, SysGetenv
<1>3. learned.len = Len(Value(c))
  BY <1>1, <1>2, LearnedFacts
<1>4. Value(c) \in Seq(Byte) /\ Len(Value(c)) \in Nat /\ BufferLen(c) \in Nat
  BY <1>1, <1>2, ValueFacts, CallFacts
<1>5. Len(Value(c)) <= BufferLen(c)
  BY <1>3, <1>4
<1>6. FittingPart(c) = Value(c)
  BY <1>1, <1>4, <1>5, FittingFacts
<1>7. Return(c, Value(c), Len(Value(c)), ZeroWord)
  BY <1>2, <1>6 DEF Fetch, FittingPart
<1>8. QED BY <1>5, <1>7 DEF Return

(* Two cycle counts tell how many cycles have passed.                      *)
LEMMA CyclesAreCounted ==
  ASSUME GuestInv, NEW c \in guest, SysCycleCount(c),
         counted # <<>>, cycle - counted.cycle < U32
  PROVE  (a0' - counted.told) % U32 = cycle - counted.cycle
<1>1. PICK n \in 0 .. cycle : counted = [told |-> n % U32, cycle |-> n]
  BY DEF GuestInv, Counted
<1>2. a0' = cycle % U32
  BY DEF SysCycleCount, Return, CycleCount
<1>3. cycle \in Nat /\ U32 \in Nat \ {0}
  BY SyscallAssumption DEF GuestInv, Structure
<1>4. n \in Nat /\ n <= cycle /\ cycle - n < U32
  BY <1>1, <1>3
<1>5. ((cycle % U32) - (n % U32)) % U32 = cycle - n
  BY <1>3, <1>4, ModDifference
<1>6. QED BY <1>1, <1>2, <1>5

-----------------------------------------------------------------------------
(* The recursive functions.                                                *)

(* The weight of a byte is a number: there is a function as Weight is      *)
(* defined, by recursion, and its values are positive, by induction.       *)
LEMMA WeightFacts ==
  \A i \in 0 .. 4 * W : Weight[i] \in Nat \ {0}
<1> DEFINE N == 4 * W
           Body(f) == [i \in 0 .. N |-> IF i = 0 THEN 1 ELSE ByteBase * f[i - 1]]
           S == Nat \ {0}
           step == [i \in 1 .. N |-> [x \in S |-> ByteBase * x]]
<1>1. N \in Nat /\ ByteBase \in Nat \ {0}
  BY EcallAssumption, BoundsAssumption
<1>2. 1 \in S /\ step \in [1 .. N -> [S -> S]]
  BY <1>1
<1> HIDE DEF N
<1>3. \E f : f = Body(f)
  <2>1. PICK f \in [0 .. N -> S] : Recurs(f, 1, step, N)
    <3> HIDE DEF S, step
    <3>1. QED BY <1>1, <1>2, RecursionExists, Zenon
  <2>2. ASSUME NEW n \in 1 .. N PROVE f[n] = ByteBase * f[n - 1]
    <3>1. n - 1 \in 0 .. N /\ f[n - 1] \in S
      BY <1>1, <2>1
    <3>2. step[n][f[n - 1]] = ByteBase * f[n - 1]
      BY <3>1
    <3>3. QED BY <2>1, <3>2 DEF Recurs
  <2>3. f = Body(f)
    BY <1>1, <2>1, <2>2 DEF Recurs
  <2>4. QED BY <2>3
<1>4. Weight = CHOOSE f : f = Body(f)
  BY DEF Weight, N
<1>5. Weight = Body(Weight)
  <2> HIDE DEF Body
  <2>1. QED BY <1>3, <1>4
<1> DEFINE T == {n \in 0 .. N : Weight[n] \in S}
<1>6. 0 \in T
  BY <1>1, <1>5
<1>7. ASSUME NEW n \in 0 .. N - 1, n \in T PROVE n + 1 \in T
  <2>1. n + 1 \in 0 .. N /\ n + 1 # 0 /\ n + 1 - 1 = n
    BY <1>1
  <2>2. Body(Weight)[n + 1] = ByteBase * Weight[n + 1 - 1]
    BY <2>1
  <2> HIDE DEF Body
  <2>3. Weight[n + 1] = ByteBase * Weight[n]
    BY <1>5, <2>1, <2>2
  <2>4. QED BY <1>1, <1>7, <2>1, <2>3
<1>8. 0 .. N \subseteq T
  <2>1. T \in SUBSET Nat
    BY <1>1
  <2> HIDE DEF T
  <2>2. QED BY <1>1, <1>6, <1>7, <2>1, Induction
<1>9. QED BY <1>8 DEF N

(* A digit of a number that can be read is a byte.                         *)
LEMMA DigitFacts ==
  ASSUME NEW mem \in [Addr -> Byte], NEW addr \in Nat, BigReadable(addr),
         NEW i \in 0 .. 4 * W - 1
  PROVE  BigDigit(mem, addr, i) \in Byte
<1> DEFINE w == i \div 4
           k == (i % 4) + 1
           a == addr + 4 * w
           b == a - (a % 4)
<1>1. W \in Nat /\ w \in 0 .. W - 1 /\ k \in 1 .. 4 /\ a \in Nat
  BY EcallAssumption
<1>2. BigDigit(mem, addr, i) = WordAt(mem, a)[k]
  BY DEF BigDigit
<1>3. InBounds(a)
  BY <1>1 DEF BigReadable
<1> HIDE DEF w, k, a
<1>4. b \in Nat /\ b + k - 1 \in a - (a % 4) .. a - (a % 4) + 3
  BY <1>1
<1>5. b + k - 1 \in Addr
  BY <1>1, <1>3, <1>4, InBoundsFacts
<1>6. WordAt(mem, a)[k] = mem[b + k - 1]
  BY <1>1 DEF WordAt, Bytes
<1>7. QED BY <1>2, <1>5, <1>6

(* What BIGINT reads is a number.                                          *)
LEMMA BigFacts ==
  ASSUME NEW mem \in [Addr -> Byte], NEW addr \in Nat, BigReadable(addr)
  PROVE  Big(mem, addr) \in Nat
<1> DEFINE N == 4 * W
           Digit(n) == BigDigit(mem, addr, N - n)
           Body(f) == [n \in 0 .. N |-> IF n = 0 THEN 0
                                        ELSE Digit(n) + ByteBase * f[n - 1]]
           high == CHOOSE f : f = Body(f)
           step == [n \in 1 .. N |-> [x \in Nat |-> Digit(n) + ByteBase * x]]
<1>1. N \in Nat /\ ByteBase \in Nat
  BY EcallAssumption, BoundsAssumption
<1>2. Big(mem, addr) = high[N]
  BY DEF Big
<1>3. ASSUME NEW n \in 1 .. N PROVE Digit(n) \in Nat
  <2>1. N - n \in 0 .. N - 1
    BY <1>1
  <2>2. QED BY <2>1, DigitFacts, BoundsAssumption DEF Byte
<1> HIDE DEF N, Digit
<1>4. step \in [1 .. N -> [Nat -> Nat]]
  BY <1>1, <1>3
<1>5. \E f : f = Body(f)
  <2>1. PICK f \in [0 .. N -> Nat] : Recurs(f, 0, step, N)
    <3> HIDE DEF step
    <3>1. QED BY <1>1, <1>4, RecursionExists, Zenon
  <2>2. ASSUME NEW n \in 1 .. N PROVE f[n] = Digit(n) + ByteBase * f[n - 1]
    <3>1. n - 1 \in 0 .. N /\ f[n - 1] \in Nat
      BY <1>1, <2>1
    <3>2. step[n][f[n - 1]] = Digit(n) + ByteBase * f[n - 1]
      BY <3>1
    <3>3. QED BY <2>1, <3>2 DEF Recurs
  <2>3. f = Body(f)
    BY <1>1, <2>1, <2>2 DEF Recurs
  <2>4. QED BY <2>3
<1>6. high = Body(high)
  <2> HIDE DEF Body
  <2>1. QED BY <1>5
<1> HIDE DEF high
<1> DEFINE T == {n \in 0 .. N : high[n] \in Nat}
<1>7. 0 \in T
  BY <1>1, <1>6
<1>8. ASSUME NEW n \in 0 .. N - 1, n \in T PROVE n + 1 \in T
  <2>1. n + 1 \in 1 .. N /\ n + 1 # 0 /\ n + 1 - 1 = n
    BY <1>1
  <2>2. Body(high)[n + 1] = Digit(n + 1) + ByteBase * high[n + 1 - 1]
    BY <2>1
  <2> HIDE DEF Body
  <2>3. high[n + 1] = Digit(n + 1) + ByteBase * high[n]
    BY <1>6, <2>1, <2>2
  <2>4. QED BY <1>1, <1>3, <1>8, <2>1, <2>3
<1>9. 0 .. N \subseteq T
  <2>1. T \in SUBSET Nat
    BY <1>1
  <2> HIDE DEF T
  <2>2. QED BY <1>1, <1>7, <1>8, <2>1, Induction
<1>10. QED BY <1>1, <1>2, <1>9

(* BIGINT stores bytes.                                                    *)
LEMMA StoreBigFacts ==
  ASSUME NEW mem \in [Addr -> Byte], NEW addr \in Nat, NEW z \in Nat
  PROVE  StoreBig(mem, addr, z) \in [Addr -> Byte]
<1>1. ASSUME NEW w \in 0 .. W - 1 PROVE LowByte(z, w) \in Byte
  <2> DEFINE u == Weight[4 * w]
  <2>1. u \in Nat \ {0}
    BY EcallAssumption, WeightFacts
  <2> HIDE DEF u
  <2>2. z \div u \in Nat
    BY <2>1
  <2>3. (z \div u) % ByteBase \in Byte
    BY <2>2, BoundsAssumption DEF Byte
  <2>4. QED BY <2>3 DEF LowByte, u
<1>2. ASSUME NEW w \in 0 .. W - 1, NEW a \in Addr, a = addr + 4 * w
      PROVE  LowByte(z, (a - addr) \div 4) \in Byte
  <2>1. (a - addr) \div 4 = w
    BY <1>2, EcallAssumption
  <2>2. QED BY <1>1, <2>1
<1>3. QED BY <1>2 DEF StoreBig

(* What BIGINT stores is a number.                                         *)
LEMMA ProductFacts ==
  ASSUME NEW mem \in [Addr -> Byte], NEW c \in BigintCalls,
         \A p \in {c.x, c.y, c.n} : BigReadable(p)
  PROVE  Product(mem, c) \in Nat
<1> DEFINE x == Big(mem, c.x)
           y == Big(mem, c.y)
           n == Big(mem, c.n)
<1>1. c.x \in Nat /\ c.y \in Nat /\ c.n \in Nat
  BY EcallAssumption
<1>2. x \in Nat /\ y \in Nat /\ n \in Nat
  BY <1>1, BigFacts
<1> HIDE DEF x, y, n
<1>3. x * y \in Nat
  BY <1>2
<1>4. n # 0 => (x * y) % n \in Nat
  BY <1>2, <1>3
<1>5. QED BY <1>3, <1>4 DEF Product, x, y, n

-----------------------------------------------------------------------------
(* SHA.  sha2::compress256 is known only by its type: words of bytes from  *)
(* words and blocks of bytes.                                              *)
Hash == [1 .. W -> [1 .. 4 -> Byte]]
MessageBlock == [1 .. 8 * W -> Byte]

CompressType ==
  \A state \in Hash : \A block \in MessageBlock : Compress(state, block) \in Hash

ShaCall == [out : Nat, in : Nat, block1 : Nat, block2 : Nat, count : Nat]

(* The numbers of a call of ecall_sha are registers.                       *)
LEMMA ShaCallFacts ==
  ASSUME NEW c \in ShaCall
  PROVE  /\ c.out \in Nat /\ c.in \in Nat /\ c.block1 \in Nat /\ c.block2 \in Nat
         /\ c.count \in Nat
         /\ W \in Nat \ {0} /\ StateLen = 4 * W /\ BlockLen = 8 * W
BY EcallAssumption DEF ShaCall, StateLen, BlockLen

(* A readable range is bytes.                                              *)
LEMMA BytesFacts ==
  ASSUME NEW mem \in [Addr -> Byte], NEW start \in Nat, NEW len \in Nat,
         Readable(start, len)
  PROVE  /\ Bytes(mem, start, len) \in [1 .. len -> Byte]
         /\ Bytes(mem, start, len) \in Seq(Byte)
<1>1. ASSUME NEW i \in 1 .. len PROVE mem[start + i - 1] \in Byte
  <2>1. start + i - 1 \in start .. start + len - 1 /\ start + i - 1 \in Nat
    OBVIOUS
  <2>2. InBounds(start + i - 1)
    BY <2>1 DEF Readable
  <2>3. QED BY <2>1, <2>2, InBoundsFacts
<1>2. Bytes(mem, start, len) \in [1 .. len -> Byte]
  BY <1>1 DEF Bytes
<1>3. QED BY <1>2, FunctionIsSequence

(* The state that ecall_sha reads is words of bytes.                       *)
LEMMA LoadStateFacts ==
  ASSUME NEW mem \in [Addr -> Byte], NEW addr \in Nat, Readable(addr, StateLen)
  PROVE  LoadState(mem, addr) \in Hash
<1>1. ASSUME NEW w \in 1 .. W
      PROVE  ToBe(Bytes(mem, addr + 4 * (w - 1), 4)) \in [1 .. 4 -> Byte]
  <2> DEFINE a == addr + 4 * (w - 1)
  <2>1. a \in Nat /\ a .. a + 4 - 1 \subseteq addr .. addr + StateLen - 1
    BY EcallAssumption DEF StateLen
  <2>2. Readable(a, 4)
    BY <2>1 DEF Readable
  <2> HIDE DEF a
  <2>3. Bytes(mem, a, 4) \in [1 .. 4 -> Byte]
    BY <2>1, <2>2, BytesFacts
  <2>4. ToBe(Bytes(mem, a, 4)) \in [1 .. 4 -> Byte]
    BY <2>3 DEF ToBe
  <2>5. QED BY <2>4 DEF a
<1>2. QED BY <1>1 DEF LoadState, Hash

(* The state that it writes is as many bytes.                              *)
LEMMA StateBytesFacts ==
  ASSUME NEW state \in Hash
  PROVE  StateBytes(state) \in [1 .. StateLen -> Byte]
<1>1. ASSUME NEW i \in 1 .. StateLen
      PROVE  ToBe(state[(i - 1) \div 4 + 1])[((i - 1) % 4) + 1] \in Byte
  <2> DEFINE w == (i - 1) \div 4 + 1
             k == ((i - 1) % 4) + 1
  <2>1. w \in 1 .. W /\ k \in 1 .. 4
    BY EcallAssumption DEF StateLen
  <2> HIDE DEF w, k
  <2>2. state[w] \in [1 .. 4 -> Byte]
    BY <2>1 DEF Hash
  <2>3. ToBe(state[w])[k] \in Byte
    BY <2>1, <2>2 DEF ToBe
  <2>4. QED BY <2>3 DEF w, k
<1>2. QED BY <1>1 DEF StateBytes

(* The halves of a block.                                                  *)
LEMMA WordPtrFacts ==
  ASSUME NEW c \in ShaCall, NEW round \in Nat, NEW w \in 0 .. 2 * W - 1
  PROVE  /\ WordPtr(c, round, w) \in Nat
         /\ BlockLen * round \in Nat /\ (BlockLen * round) % 4 = 0
<1>1. W * round \in Nat /\ BlockLen * round = 8 * (W * round)
  BY ShaCallFacts
<1> DEFINE b == W * round
<1> HIDE DEF b
<1>2. b \in Nat /\ BlockLen * round = 8 * b
  BY <1>1 DEF b
<1>3. (8 * b) % 4 = 0 /\ 8 * b \in Nat
  BY <1>2
<1>4. WordPtr(c, round, w) \in Nat
  BY <1>2, <1>3, ShaCallFacts DEF WordPtr
<1>5. QED BY <1>2, <1>3, <1>4

(* The block of a round is a block of words, taken from where WordPtr      *)
(* points.                                                                 *)
LEMMA BlockFacts ==
  ASSUME NEW mem \in [Addr -> Byte], NEW c \in ShaCall, ShaReads(c),
         NEW round \in 0 .. c.count - 1
  PROVE  Block(mem, c, round) \in MessageBlock
<1>1. ASSUME NEW i \in 1 .. BlockLen
      PROVE  WordAt(mem, WordPtr(c, round, (i - 1) \div 4))[((i - 1) % 4) + 1] \in Byte
  <2> DEFINE w == (i - 1) \div 4
             k == ((i - 1) % 4) + 1
             a == WordPtr(c, round, w)
             b == a - (a % 4)
  <2>1. w \in 0 .. 2 * W - 1 /\ k \in 1 .. 4 /\ round \in Nat
    BY ShaCallFacts
  <2> HIDE DEF w, k
  <2>2. a \in Nat /\ InBounds(a)
    BY <2>1, WordPtrFacts DEF ShaReads
  <2> HIDE DEF a
  <2>3. b \in Nat /\ b + k - 1 \in a - (a % 4) .. a - (a % 4) + 3
    BY <2>1, <2>2
  <2>4. b + k - 1 \in Addr
    BY <2>2, <2>3, InBoundsFacts
  <2>5. WordAt(mem, a)[k] = mem[b + k - 1]
    BY <2>1 DEF WordAt, Bytes
  <2>6. WordAt(mem, a)[k] \in Byte
    BY <2>4, <2>5
  <2>7. QED BY <2>6 DEF a, w, k
<1>2. QED BY <1>1, ShaCallFacts DEF Block, MessageBlock

(* The states of a call, one for each block.                               *)
IsChain(state, mem, c, count) ==
  /\ state \in [0 .. count -> Hash]
  /\ state[0] = LoadState(mem, c.in)
  /\ \A n \in 1 .. count : state[n] = Compress(state[n - 1], Block(mem, c, n - 1))

(* The states between the rounds, each compressed from the one before with *)
(* its block.                                                              *)
LEMMA StateAfterFacts ==
  ASSUME CompressType, NEW mem \in [Addr -> Byte], NEW c \in ShaCall, ShaReads(c),
         NEW count \in 0 .. c.count
  PROVE  \E state : IsChain(state, mem, c, count)
                    /\ StateAfter(mem, c, count) = state[count]
<1> DEFINE first == LoadState(mem, c.in)
           block(n) == Block(mem, c, n - 1)
           Body(f) == [n \in 0 .. count |-> IF n = 0 THEN first
                                            ELSE Compress(f[n - 1], Block(mem, c, n - 1))]
           state == CHOOSE f : f = Body(f)
           step == [n \in 1 .. count |-> [x \in Hash |-> Compress(x, block(n))]]
<1>1. count \in Nat /\ StateAfter(mem, c, count) = state[count]
  BY ShaCallFacts DEF StateAfter
<1>2. first \in Hash
  BY ShaCallFacts, LoadStateFacts DEF ShaReads
<1>3. ASSUME NEW n \in 1 .. count PROVE block(n) \in MessageBlock
  <2>1. n - 1 \in 0 .. c.count - 1
    BY ShaCallFacts
  <2>2. QED BY <2>1, BlockFacts
<1> HIDE DEF first, block
<1>4. step \in [1 .. count -> [Hash -> Hash]]
  BY <1>3 DEF CompressType
<1>5. \E f : f = Body(f)
  <2>1. PICK f \in [0 .. count -> Hash] : Recurs(f, first, step, count)
    <3> HIDE DEF step
    <3>1. QED BY <1>1, <1>2, <1>4, RecursionExists, Zenon
  <2>2. ASSUME NEW n \in 1 .. count
        PROVE  f[n] = Compress(f[n - 1], Block(mem, c, n - 1))
    <3>1. n - 1 \in 0 .. count /\ f[n - 1] \in Hash
      BY <1>1, <2>1
    <3>2. step[n][f[n - 1]] = Compress(f[n - 1], block(n))
      BY <3>1
    <3>3. QED BY <2>1, <3>2 DEF Recurs, block
  <2>3. f = Body(f)
    BY <1>1, <2>1, <2>2 DEF Recurs
  <2>4. QED BY <2>3
<1>6. state = Body(state)
  <2> HIDE DEF Body
  <2>1. QED BY <1>5
<1> HIDE DEF state
<1>7. /\ DOMAIN state = 0 .. count /\ state[0] = first
      /\ \A n \in 1 .. count : state[n] = Compress(state[n - 1], Block(mem, c, n - 1))
  <2>1. state[0] = first
    BY <1>1, <1>6
  <2>2. ASSUME NEW n \in 1 .. count
        PROVE  state[n] = Compress(state[n - 1], Block(mem, c, n - 1))
    <3>1. Body(state)[n] = Compress(state[n - 1], Block(mem, c, n - 1))
      BY <1>1
    <3> HIDE DEF Body
    <3>2. QED BY <1>6, <3>1
  <2>3. DOMAIN state = 0 .. count
    BY <1>6
  <2>4. QED BY <2>1, <2>2, <2>3
<1> DEFINE T == {n \in 0 .. count : state[n] \in Hash}
<1>8. 0 \in T
  BY <1>1, <1>2, <1>7
<1>9. ASSUME NEW n \in 0 .. count - 1, n \in T PROVE n + 1 \in T
  <2>1. n + 1 \in 1 .. count /\ n + 1 - 1 = n
    BY <1>1
  <2>2. state[n + 1] = Compress(state[n], block(n + 1))
    BY <1>7, <2>1 DEF block
  <2>3. QED BY <1>1, <1>3, <1>9, <2>1, <2>2 DEF CompressType
<1>10. 0 .. count \subseteq T
  <2>1. T \in SUBSET Nat
    BY <1>1
  <2> HIDE DEF T
  <2>2. QED BY <1>1, <1>8, <1>9, <2>1, Induction
<1>11. state = [n \in 0 .. count |-> state[n]]
  <2>1. Body(state) = [n \in 0 .. count |-> Body(state)[n]]
    OBVIOUS
  <2> HIDE DEF Body
  <2>2. QED BY <1>6, <2>1
<1>12. state \in [0 .. count -> Hash]
  BY <1>10, <1>11
<1>13. QED BY <1>1, <1>7, <1>12 DEF IsChain, first

(* The two pointers of a message in one piece read it as it lies there,    *)
(* from the word that holds its first byte.                                *)
LEMMA MessageIsRead ==
  ASSUME NEW c \in ShaCall, Contiguous(c), NEW round \in Nat, NEW mem
  PROVE  Block(mem, c, round)
           = Bytes(mem, c.block1 - (c.block1 % 4) + BlockLen * round, BlockLen)
<1> DEFINE B == BlockLen * round
           r == c.block1 % 4
<1>1. B \in Nat /\ B % 4 = 0
  BY WordPtrFacts, ShaCallFacts, 0 \in 0 .. 2 * W - 1
<1>2. ASSUME NEW i \in 1 .. BlockLen
      PROVE  WordAt(mem, WordPtr(c, round, (i - 1) \div 4))[((i - 1) % 4) + 1]
               = mem[c.block1 - r + B + i - 1]
  <2> DEFINE w == (i - 1) \div 4
             k == ((i - 1) % 4) + 1
             a == WordPtr(c, round, w)
  <2>1. w \in 0 .. 2 * W - 1 /\ k \in 1 .. 4 /\ 4 * w + k = i
    BY ShaCallFacts
  <2>2. a = B + IF w < W THEN c.block1 + 4 * w ELSE c.block2 + 4 * (w - W)
    BY DEF WordPtr
  <2> HIDE DEF w, k, a, B, r
  <2>3. a = B + c.block1 + 4 * w
    BY <1>1, <2>1, <2>2, ShaCallFacts DEF Contiguous
  <2>4. a \in Nat /\ a % 4 = r
    <3>1. c.block1 \in Nat /\ w \in Nat
      BY <2>1, ShaCallFacts
    <3>2. QED BY <1>1, <2>3, <3>1 DEF r
  <2>5. a - (a % 4) + k - 1 = c.block1 - r + B + i - 1
    <3>1. w \in Nat /\ k \in Nat /\ c.block1 \in Nat /\ r \in Int
      BY <2>1, ShaCallFacts DEF r
    <3>2. a - r + k - 1 = c.block1 - r + B + i - 1
      BY <1>1, <2>1, <2>3, <3>1
    <3>3. QED BY <2>4, <3>2
  <2>6. WordAt(mem, a)[k] = mem[a - (a % 4) + k - 1]
    BY <2>1 DEF WordAt, Bytes
  <2>7. QED BY <2>5, <2>6 DEF a, w, k
<1>3. QED BY <1>2 DEF Block, Bytes

(* A hash that has been stored is loaded again as it was.                  *)
LEMMA StoredIsLoaded ==
  ASSUME NEW mem \in [Addr -> Byte], NEW out \in Nat, Readable(out, StateLen),
         NEW state \in Hash
  PROVE  LoadState(WriteBytes(mem, out, StateBytes(state)), out) = state
<1> DEFINE after == WriteBytes(mem, out, StateBytes(state))
<1>1. W \in Nat \ {0} /\ StateLen = 4 * W /\ StateLen \in Nat
  BY EcallAssumption DEF StateLen
<1>2. \A i \in 1 .. StateLen : after[out + i - 1] = StateBytes(state)[i]
  BY <1>1, StateBytesFacts, WriteFacts
<1> HIDE DEF after
<1>3. ASSUME NEW w \in 1 .. W, NEW k \in 1 .. 4
      PROVE  LoadState(after, out)[w][k] = state[w][k]
  <2> DEFINE i == 4 * (w - 1) + (5 - k)
             a == out + 4 * (w - 1)
  <2>1. /\ i \in 1 .. StateLen /\ (i - 1) \div 4 + 1 = w /\ ((i - 1) % 4) + 1 = 5 - k
        /\ a + (5 - k) - 1 = out + i - 1 /\ 5 - k \in 1 .. 4 /\ 5 - (5 - k) = k
    BY <1>1
  <2>2. LoadState(after, out)[w] = ToBe(Bytes(after, a, 4))
    BY DEF LoadState
  <2> HIDE DEF i, a
  <2>3. LoadState(after, out)[w][k] = after[a + (5 - k) - 1]
    BY <2>1, <2>2 DEF ToBe, Bytes
  <2>4. StateBytes(state)[i] = ToBe(state[w])[5 - k]
    BY <2>1 DEF StateBytes
  <2>5. ToBe(state[w])[5 - k] = state[w][k]
    BY <2>1 DEF ToBe
  <2>6. QED BY <1>2, <2>1, <2>3, <2>4, <2>5
<1>4. LoadState(after, out) = [w \in 1 .. W |-> [k \in 1 .. 4 |-> LoadState(after, out)[w][k]]]
  BY DEF LoadState, ToBe
<1>5. state = [w \in 1 .. W |-> [k \in 1 .. 4 |-> state[w][k]]]
  BY DEF Hash
<1>6. LoadState(after, out) = state
  BY <1>3, <1>4, <1>5
<1>7. QED BY <1>6 DEF after

(* The call that continues another: its blocks are the other's that follow *)
(* the first, and storing a hash apart from the message leaves them alone. *)
Following(c) == [c EXCEPT !.in = c.out, !.block1 = @ + BlockLen,
                          !.block2 = @ + BlockLen, !.count = c.count - 1]

Continued(c, in, b1, b2, n) ==
  [c EXCEPT !.in = in, !.block1 = b1, !.block2 = b2, !.count = n]

Continues(d, c, in, b1, b2, n) ==
  /\ d \in ShaCall
  /\ d.out = c.out /\ d.in = in /\ d.block1 = b1 /\ d.block2 = b2 /\ d.count = n

(* The call that goes on where another one has stopped, field by field.    *)
LEMMA ContinuedFacts ==
  ASSUME NEW c \in ShaCall, NEW in \in Nat, NEW b1 \in Nat, NEW b2 \in Nat, NEW n \in Nat
  PROVE  Continues(Continued(c, in, b1, b2, n), c, in, b1, b2, n)
BY DEF ShaCall, Continued, Continues

(* The call of the remaining rounds reads, in its round n, what the whole  *)
(* one reads in round n + 1.                                               *)
LEMMA FollowingFacts ==
  ASSUME NEW c \in ShaCall, c.count > 1
  PROVE  /\ Following(c) \in ShaCall
         /\ Following(c).in = c.out /\ Following(c).out = c.out
         /\ Following(c).count = c.count - 1
         /\ \A round \in Nat, w \in 0 .. 2 * W - 1 :
              WordPtr(Following(c), round, w) = WordPtr(c, round + 1, w)
<1>1. /\ Following(c) \in ShaCall
      /\ Following(c).in = c.out /\ Following(c).out = c.out
      /\ Following(c).count = c.count - 1
      /\ Following(c).block1 = c.block1 + BlockLen
      /\ Following(c).block2 = c.block2 + BlockLen
  <2> DEFINE b1 == c.block1 + BlockLen
             b2 == c.block2 + BlockLen
             count == c.count - 1
  <2>1. Following(c) = Continued(c, c.out, b1, b2, count)
    BY DEF Following, Continued
  <2>2. c.out \in Nat /\ b1 \in Nat /\ b2 \in Nat /\ count \in Nat
    BY ShaCallFacts
  <2> HIDE DEF b1, b2, count
  <2>3. Continues(Following(c), c, c.out, b1, b2, count)
    BY <2>1, <2>2, ContinuedFacts
  <2>4. QED BY <2>3 DEF b1, b2, count, Continues
<1>2. ASSUME NEW round \in Nat, NEW w \in 0 .. 2 * W - 1
      PROVE  WordPtr(Following(c), round, w) = WordPtr(c, round + 1, w)
  <2>1. /\ BlockLen * (round + 1) = BlockLen * round + BlockLen
        /\ BlockLen * round \in Nat /\ BlockLen \in Nat
    BY ShaCallFacts
  <2>2. QED BY <1>1, <2>1, ShaCallFacts DEF WordPtr
<1>3. QED BY <1>1, <1>2

(* Storing a hash apart from a message leaves its blocks alone.            *)
MessageApart(c) ==
  \A p \in {c.block1, c.block2} :
    Apart(c.out, StateLen, p - (p % 4), BlockLen * c.count)

(* Writing the state after the first round leaves the blocks of the others *)
(* as they are, if the message is apart from it.                           *)
LEMMA BlockStays ==
  ASSUME NEW mem \in [Addr -> Byte], NEW c \in ShaCall, c.count > 1, ShaReads(c),
         MessageApart(c),
         NEW state \in Hash, NEW round \in 0 .. c.count - 2
  PROVE  Block(WriteBytes(mem, c.out, StateBytes(state)), Following(c), round)
           = Block(mem, c, round + 1)
<1> DEFINE after == WriteBytes(mem, c.out, StateBytes(state))
           B == BlockLen * (round + 1)
           all == BlockLen * c.count
<1>1. /\ W \in Nat \ {0} /\ BlockLen = 8 * W /\ StateLen = 4 * W
      /\ c.count \in Nat /\ c.out \in Nat /\ c.block1 \in Nat /\ c.block2 \in Nat
      /\ round \in Nat /\ round + 1 \in 0 .. c.count - 1
  BY ShaCallFacts
<1>2. /\ B \in Nat /\ B % 4 = 0 /\ all \in Nat /\ B + BlockLen <= all
  <2>1. B \in Nat /\ B % 4 = 0
    BY <1>1, WordPtrFacts, 0 \in 0 .. 2 * W - 1
  <2>2. PICK k \in Nat : c.count = (round + 1) + 1 + k
    <3>1. c.count - ((round + 1) + 1) \in Nat
          /\ c.count = (round + 1) + 1 + (c.count - ((round + 1) + 1))
      BY <1>1
    <3>2. QED BY <3>1
  <2>3. all = B + BlockLen + BlockLen * k
    BY <1>1, <2>2
  <2>4. BlockLen * k \in Nat
    BY <1>1, <2>2
  <2>5. QED BY <1>1, <2>1, <2>3, <2>4
<1> HIDE DEF B, all
<1>3. \A a \in Addr : a \notin c.out .. c.out + StateLen - 1 => after[a] = mem[a]
  <2>1. DOMAIN StateBytes(state) = 1 .. StateLen
    BY DEF StateBytes
  <2>2. ASSUME NEW a \in Addr, a \notin c.out .. c.out + StateLen - 1
        PROVE  a - c.out + 1 \notin 1 .. StateLen
    BY <1>1, <2>2 DEF Addr
  <2>3. QED BY <2>1, <2>2 DEF WriteBytes
<1> HIDE DEF after
<1>4. ASSUME NEW i \in 1 .. BlockLen
      PROVE  WordAt(after, WordPtr(Following(c), round, (i - 1) \div 4))[((i - 1) % 4) + 1]
               = WordAt(mem, WordPtr(c, round + 1, (i - 1) \div 4))[((i - 1) % 4) + 1]
  <2> DEFINE w == (i - 1) \div 4
             k == ((i - 1) % 4) + 1
             ptr == WordPtr(c, round + 1, w)
             a == ptr - (ptr % 4) + (k - 1)
  <2>1. w \in 0 .. 2 * W - 1 /\ k \in 1 .. 4
    BY <1>1
  <2> HIDE DEF w, k
  <2>2. WordPtr(Following(c), round, w) = ptr
    BY <1>1, <2>1, FollowingFacts
  <2>3. ptr \in Nat /\ InBounds(ptr)
    BY <1>1, <2>1, WordPtrFacts DEF ShaReads
  <2>4. a \in Addr
    <3>1. a \in ptr - (ptr % 4) .. ptr - (ptr % 4) + 3
      <4> HIDE DEF ptr
      <4>1. QED BY <2>1, <2>3
    <3>2. QED BY <2>3, <3>1, InBoundsFacts
  <2>5. PICK p \in {c.block1, c.block2}, v \in 0 .. W - 1 : ptr = B + (p + 4 * v)
    <3>1. CASE w < W
      <4>1. ptr = B + (c.block1 + 4 * w) /\ w \in 0 .. W - 1
        BY <1>1, <2>1, <3>1 DEF WordPtr, B
      <4>2. QED BY <4>1
    <3>2. CASE w >= W
      <4>1. ptr = B + (c.block2 + 4 * (w - W)) /\ w - W \in 0 .. W - 1
        BY <1>1, <2>1, <3>2 DEF WordPtr, B
      <4>2. QED BY <4>1
    <3>3. QED BY <1>1, <2>1, <3>1, <3>2
  <2>6. p \in Nat /\ ptr % 4 = p % 4
    <3> HIDE DEF ptr
    <3>1. QED BY <1>1, <1>2, <2>5
  <2>7. a = B + (p - (p % 4)) + (4 * v + (k - 1))
    <3> HIDE DEF ptr
    <3>1. QED BY <1>2, <2>1, <2>5, <2>6
  <2> HIDE DEF a
  <2>8. a \notin c.out .. c.out + StateLen - 1
    <3> DEFINE base == p - (p % 4)
    <3>1. Apart(c.out, StateLen, base, all)
      BY <2>5 DEF all, MessageApart
    <3>2. base \in Nat
      BY <2>6
    <3> HIDE DEF base
    <3>3. a = B + base + (4 * v + (k - 1))
      BY <2>7 DEF base
    <3>4. base <= a /\ a < base + all
      BY <1>1, <1>2, <2>1, <2>5, <3>2, <3>3
    <3>5. QED BY <1>1, <1>2, <3>1, <3>2, <3>4 DEF Apart
  <2>9. after[a] = mem[a]
    BY <1>3, <2>4, <2>8
  <2>10. WordAt(after, ptr)[k] = after[a] /\ WordAt(mem, ptr)[k] = mem[a]
    <3>1. ptr - (ptr % 4) + k - 1 = a
      <4> HIDE DEF ptr
      <4>1. QED BY <2>1, <2>3 DEF a
    <3> HIDE DEF ptr
    <3>2. QED BY <2>1, <3>1 DEF WordAt, Bytes
  <2>11. QED BY <2>2, <2>9, <2>10 DEF w, k
<1>5. QED BY <1>4 DEF Block, after

(* The states of the following call are those of the whole, one later.     *)
LEMMA ChainsMeet ==
  ASSUME NEW mem, NEW after, NEW c \in ShaCall, c.count > 1,
         NEW s, IsChain(s, mem, c, c.count),
         NEW t, IsChain(t, after, Following(c), c.count - 1),
         LoadState(after, c.out) = s[1],
         \A round \in 0 .. c.count - 2 :
           Block(after, Following(c), round) = Block(mem, c, round + 1)
  PROVE  t[c.count - 1] = s[c.count]
<1> DEFINE N == c.count - 1
           T == {n \in 0 .. N : t[n] = s[n + 1]}
<1>1. N \in Nat /\ N + 1 = c.count /\ c.count - 2 = N - 1
  BY ShaCallFacts
<1> HIDE DEF N
<1>2. 0 \in T
  BY <1>1, FollowingFacts DEF IsChain
<1>3. ASSUME NEW n \in 0 .. N - 1, n \in T PROVE n + 1 \in T
  <2>1. n + 1 \in 1 .. N /\ n + 2 \in 1 .. c.count /\ n + 1 - 1 = n
        /\ n + 2 - 1 = n + 1 /\ n + 1 + 1 = n + 2
    BY <1>1
  <2>2. t[n + 1] = Compress(t[n], Block(after, Following(c), n))
    BY <1>1, <2>1 DEF IsChain, N
  <2>3. s[n + 2] = Compress(s[n + 1], Block(mem, c, n + 1))
    BY <2>1 DEF IsChain
  <2>4. Block(after, Following(c), n) = Block(mem, c, n + 1)
    BY <1>1
  <2>5. t[n + 1] = s[n + 2]
    BY <1>3, <2>2, <2>3, <2>4
  <2>6. QED BY <1>1, <2>1, <2>5
<1>4. 0 .. N \subseteq T
  <2>1. T \in SUBSET Nat
    BY <1>1
  <2> HIDE DEF T
  <2>2. QED BY <1>1, <1>2, <1>3, <2>1, Induction
<1>5. t[N] = s[N + 1]
  BY <1>1, <1>4
<1>6. QED BY <1>1, <1>5 DEF N

(* The first block of a call alone.                                        *)
LEMMA FirstState ==
  ASSUME CompressType, NEW mem \in [Addr -> Byte], NEW c \in ShaCall, c.count > 1,
         ShaReads(c), NEW s, IsChain(s, mem, c, c.count)
  PROVE  StateAfter(mem, [c EXCEPT !.count = 1], 1) = s[1]
<1> DEFINE one == [c EXCEPT !.count = 1]
<1>1. /\ one \in ShaCall /\ one.count = 1 /\ one.in = c.in
      /\ one.block1 = c.block1 /\ one.block2 = c.block2
  BY DEF ShaCall
<1> HIDE DEF one
<1>2. \A round, w : WordPtr(one, round, w) = WordPtr(c, round, w)
  BY <1>1 DEF WordPtr
<1>3. ShaReads(one)
  BY <1>1, <1>2, ShaCallFacts DEF ShaReads
<1>4. PICK t : IsChain(t, mem, one, 1) /\ StateAfter(mem, one, 1) = t[1]
  BY <1>1, <1>3, StateAfterFacts, 1 \in 0 .. 1
<1>5. Block(mem, one, 0) = Block(mem, c, 0)
  BY <1>2 DEF Block
<1>6. t[1] = Compress(t[0], Block(mem, one, 0)) /\ t[0] = LoadState(mem, c.in)
  BY <1>1, <1>4, 1 - 1 = 0 DEF IsChain
<1>7. s[1] = Compress(s[0], Block(mem, c, 0)) /\ s[0] = LoadState(mem, c.in)
  BY ShaCallFacts, 1 - 1 = 0 DEF IsChain
<1>8. QED BY <1>4, <1>5, <1>6, <1>7 DEF one

(* Two calls of ecall_sha, of the first block and of the rest, leave what  *)
(* one call of all blocks leaves: the byte order in which a state is       *)
(* written is that in which it is read.                                    *)
LEMMA ChainedCall ==
  ASSUME CompressType, NEW mem \in [Addr -> Byte], NEW c \in ShaCall, c.count > 1,
         ShaReads(c), Readable(c.out, StateLen), MessageApart(c)
  PROVE  ShaStore(ShaStore(mem, [c EXCEPT !.count = 1]), Following(c))
           = ShaStore(mem, c)
<1> DEFINE one == [c EXCEPT !.count = 1]
           next == Following(c)
<1>1. c.out \in Nat /\ c.count \in Nat /\ StateLen \in Nat
  BY ShaCallFacts
<1>2. one.out = c.out /\ one.count = 1
  BY DEF ShaCall
<1>3. /\ next \in ShaCall /\ next.in = c.out /\ next.out = c.out
      /\ next.count = c.count - 1
      /\ \A round \in Nat, w \in 0 .. 2 * W - 1 :
           WordPtr(next, round, w) = WordPtr(c, round + 1, w)
  BY FollowingFacts
<1>4. PICK s : IsChain(s, mem, c, c.count) /\ StateAfter(mem, c, c.count) = s[c.count]
  BY <1>1, StateAfterFacts, c.count \in 0 .. c.count
<1>5. s[1] \in Hash /\ s[c.count] \in Hash
  BY <1>1, <1>4 DEF IsChain
<1> DEFINE after == WriteBytes(mem, c.out, StateBytes(s[1]))
<1>6. ShaStore(mem, one) = after
  <2>1. StateAfter(mem, one, 1) = s[1]
    BY <1>4, FirstState
  <2>2. QED BY <1>2, <2>1 DEF ShaStore
<1>7. after \in [Addr -> Byte]
  BY <1>1, <1>5, StateBytesFacts, WriteFacts
<1>8. LoadState(after, c.out) = s[1]
  BY <1>1, <1>5, StoredIsLoaded
<1>9. \A round \in 0 .. c.count - 2 : Block(after, next, round) = Block(mem, c, round + 1)
  BY <1>5, BlockStays
<1> HIDE DEF after, next, one
<1>10. ShaReads(next)
  <2>1. ASSUME NEW round \in 0 .. next.count - 1, NEW w \in 0 .. 2 * W - 1
        PROVE  InBounds(WordPtr(next, round, w))
    <3>1. round \in Nat /\ round + 1 \in 0 .. c.count - 1
      BY <1>1, <1>3
    <3>2. WordPtr(next, round, w) = WordPtr(c, round + 1, w)
      BY <1>3, <3>1
    <3>3. QED BY <3>1, <3>2 DEF ShaReads
  <2>2. QED BY <1>3, <2>1 DEF ShaReads
<1>11. PICK t : IsChain(t, after, next, c.count - 1)
                /\ StateAfter(after, next, c.count - 1) = t[c.count - 1]
  <2>1. c.count - 1 \in 0 .. next.count
    BY <1>1, <1>3
  <2>2. QED BY <1>3, <1>7, <1>10, <2>1, StateAfterFacts
<1>12. t[c.count - 1] = s[c.count]
  BY <1>4, <1>8, <1>9, <1>11, ChainsMeet DEF next
<1> DEFINE data == StateBytes(s[c.count])
<1>13. ShaStore(after, next) = WriteBytes(after, c.out, data)
  BY <1>3, <1>11, <1>12 DEF ShaStore
<1>14. ShaStore(mem, c) = WriteBytes(mem, c.out, data)
  BY <1>4 DEF ShaStore
<1>15. DOMAIN data = 1 .. StateLen /\ DOMAIN StateBytes(s[1]) = 1 .. StateLen
  BY DEF StateBytes
<1> HIDE DEF data
<1>16. WriteBytes(after, c.out, data) = WriteBytes(mem, c.out, data)
  <2>1. ASSUME NEW a \in Addr, ~(a - c.out + 1 \in 1 .. StateLen
                                 /\ Readable(c.out, a - c.out + 1))
        PROVE  after[a] = mem[a]
    BY <1>15, <2>1 DEF after, WriteBytes
  <2>2. DOMAIN after = Addr /\ DOMAIN mem = Addr
    BY <1>7
  <2>3. QED BY <1>15, <2>1, <2>2 DEF WriteBytes
<1>17. QED BY <1>6, <1>13, <1>14, <1>16 DEF one, next

(* What the runs check of SHA.                                             *)
LEMMA ShaHashes == ShaHashesMessage
<1> SUFFICES ASSUME NEW c \in ShaCalls, Contiguous(c), NEW round \in 0 .. c.count - 1
             PROVE  Block(bytes, c, round)
                      = Bytes(bytes, c.block1 - (c.block1 % 4) + BlockLen * round,
                              BlockLen)
  BY DEF ShaHashesMessage
<1>1. c \in ShaCall /\ round \in Nat
  BY EcallAssumption DEF ShaCall
<1>2. QED BY <1>1, MessageIsRead

(* So it is for every call, count and place of message and state.          *)
LEMMA ShaCallsChain ==
  ASSUME CompressType, bytes \in [Addr -> Byte]
  PROVE  ShaChains
<1> SUFFICES ASSUME NEW c \in ShaCalls, c.count > 1, ShaReads(c),
                    Readable(c.out, StateLen), MessageApart(c)
             PROVE  ShaStore(ShaStore(bytes, [c EXCEPT !.count = 1]), Following(c))
                      = ShaStore(bytes, c)
  BY DEF ShaChains, Following, MessageApart
<1>1. c \in ShaCall
  BY EcallAssumption DEF ShaCall
<1>2. QED BY <1>1, ChainedCall

-----------------------------------------------------------------------------
(* The types of bytes, registers and channels.                             *)
Registers == a0 \in Register /\ a1 \in Word /\ exit_code \in 0 .. 255

Channels ==
  /\ channel \in [Output -> Seq(Byte)]
  /\ read_pos \in [Output -> Nat]
  /\ \A fd \in Output : read_pos[fd] <= Len(channel[fd])

Typed == bytes \in [Addr -> Byte] /\ Registers /\ Channels

(* The types kept along the proofs are those that the runs check.          *)
LEMMA TypesSuffice ==
  ASSUME Structure, Typed PROVE SyscallTypeOK
<1>1. a1 \in Seq(Byte) /\ Len(a1) = 4
  BY FunctionIsSequence DEF Typed, Registers, Word
<1>2. \A fd \in Output : read_pos[fd] \in 0 .. Len(channel[fd])
  BY DEF Typed, Channels
<1>3. QED
  BY <1>1, <1>2
  DEF Structure, Typed, Registers, Register, Channels, Status, Ended, SyscallTypeOK

(* What registers and memory start with, and what is cut to 32 bits, is of *)
(* their types.                                                            *)
LEMMA ZeroFacts ==
  /\ 0 \in Byte /\ <<>> \in Seq(Byte) /\ ZeroWord \in Word
  /\ 0 \in Register /\ U32 - 1 \in Register
  /\ \A n \in Nat : n % U32 \in Register
<1>1. 0 \in Byte
  BY BoundsAssumption DEF Byte
<1>2. ZeroWord \in Word
  BY <1>1 DEF ZeroWord, Word
<1>3. QED BY <1>1, <1>2, SyscallAssumption DEF Register

(* A syscall that returns data puts bytes in memory and words in A0 and    *)
(* A1.                                                                     *)
LEMMA ReturnTypes ==
  ASSUME Structure, Typed, NEW c \in Call, NEW data \in Seq(Byte),
         NEW r0 \in Register, NEW r1 \in Word, Return(c, data, r0, r1)
  PROVE  bytes' \in [Addr -> Byte] /\ Registers' /\ read_pos' = read_pos
<1>1. /\ a0' = r0 /\ a1' = r1
      /\ bytes \in [Addr -> Byte] => bytes' \in [Addr -> Byte]
  BY ReturnFacts
<1>2. exit_code' = exit_code /\ read_pos' = read_pos
  BY DEF Return
<1>3. QED BY <1>1, <1>2 DEF Typed, Registers

(* The outputs keep their type where nothing is written or read.           *)
LEMMA ChannelsStay ==
  ASSUME Channels, UNCHANGED <<channel, read_pos>> PROVE Channels'
BY DEF Channels

(* A syscall that returns and writes to no output preserves the types.     *)
LEMMA ReturnTyped ==
  ASSUME Structure, Typed, NEW c \in Call, NEW data \in Seq(Byte),
         NEW r0 \in Register, NEW r1 \in Word, Return(c, data, r0, r1),
         channel' = channel
  PROVE  Typed'
<1>1. bytes' \in [Addr -> Byte] /\ Registers' /\ read_pos' = read_pos
  BY ReturnTypes
<1>2. QED BY <1>1, ChannelsStay DEF Typed

(* What the guest writes is bytes, behind what is in the channel.          *)
LEMMA EmitTyped ==
  ASSUME Structure, Typed, NEW c \in Call, NEW fd \in Output, NEW data \in Seq(Byte),
         Emit(c, fd, data)
  PROVE  Typed'
<1>1. /\ Return(c, <<>>, 0, ZeroWord)
      /\ channel' = [channel EXCEPT ![fd] = channel[fd] \o data]
  BY DEF Emit, Appended
<1>2. bytes' \in [Addr -> Byte] /\ Registers' /\ read_pos' = read_pos
  BY <1>1, ReturnTypes, ZeroFacts
<1>3. channel[fd] \in Seq(Byte)
  BY DEF Typed, Channels
<1> DEFINE longer == channel[fd] \o data
<1>4. /\ longer \in Seq(Byte)
      /\ Len(longer) = Len(channel[fd]) + Len(data)
  BY <1>3, TwoParts DEF InTwo
<1>5. Len(channel[fd]) \in Nat /\ Len(data) \in Nat
  BY <1>3
<1> HIDE DEF longer
<1>6. channel' = [channel EXCEPT ![fd] = longer]
  BY <1>1 DEF longer
<1>7. Channels'
  <2>1. channel' \in [Output -> Seq(Byte)]
    BY <1>4, <1>6 DEF Typed, Channels
  <2>2. ASSUME NEW f \in Output PROVE read_pos'[f] <= Len(channel'[f])
    <3>1. read_pos[f] \in Nat /\ read_pos[f] <= Len(channel[f])
      BY DEF Typed, Channels
    <3>2. CASE f = fd
      <4>1. channel'[f] = longer
        BY <1>6, <3>2 DEF Typed, Channels
      <4>2. QED BY <1>2, <1>4, <1>5, <3>1, <3>2, <4>1
    <3>3. CASE f # fd
      <4>1. channel'[f] = channel[f]
        BY <1>6, <3>3 DEF Typed, Channels
      <4>2. QED BY <1>2, <3>1, <4>1
    <3>4. QED BY <3>2, <3>3
  <2>3. QED BY <1>2, <2>1, <2>2 DEF Typed, Channels
<1>8. QED BY <1>2, <1>7 DEF Typed

(* ecall_software preserves the types, whichever syscall it dispatches to. *)
LEMMA SoftwareTyped ==
  ASSUME GuestInv, Typed, NEW c \in guest, Software(c)
  PROVE  Typed'
<1>1. Structure /\ c \in Call
  BY DEF GuestInv, Structure
<1>2. CASE Refuse(c) \/ Panic(c)
  BY <1>2, ChannelsStay DEF Refuse, Panic, ends, Typed, Registers
<1>3. CASE SysRandom(c)
  <2>1. PICK data \in [1 .. BufferLen(c) -> Random] : Return(c, data, 0, ZeroWord)
    BY <1>3 DEF SysRandom
  <2>2. data \in Seq(Byte) /\ channel' = channel
    BY <1>1, <1>3, RandomFacts DEF SysRandom
  <2>3. QED BY <1>1, <2>1, <2>2, ReturnTyped, ZeroFacts
<1>4. CASE SysCycleCount(c)
  <2>1. Return(c, <<>>, CycleCount, ZeroWord) /\ channel' = channel
        /\ CycleCount \in Register
    BY <1>1, <1>4, ZeroFacts DEF SysCycleCount, CycleCount, Structure
  <2>2. QED BY <1>1, <2>1, ReturnTyped, ZeroFacts
<1>5. CASE Fetch(c) /\ (\/ Called(c, "SYS_ARGS")
                        \/ Called(c, "SYS_GETENV") /\ Key(c)[2] \in DOMAIN Env)
  <2>1. Return(c, FittingPart(c), Len(Value(c)), ZeroWord) /\ channel' = channel
    BY <1>5 DEF Fetch, FittingPart
  <2>2. Value(c) \in Seq(Byte) /\ Len(Value(c)) \in Nat /\ Len(Value(c)) < U32
    BY <1>1, <1>5, ValueFacts
  <2>3. FittingPart(c) \in Seq(Byte)
    BY <1>1, <2>2, FittingFacts
  <2>4. Len(Value(c)) \in Register
    BY <2>2, SyscallAssumption DEF Register
  <2>5. QED BY <1>1, <2>1, <2>3, <2>4, ReturnTyped, ZeroFacts
<1>6. CASE SysGetenv(c) /\ Key(c)[2] \notin DOMAIN Env
  <2>1. Return(c, <<>>, U32 - 1, ZeroWord) /\ channel' = channel
    BY <1>6 DEF SysGetenv
  <2>2. QED BY <1>1, <2>1, ReturnTyped, ZeroFacts
<1>7. CASE SysArgc(c)
  <2>1. Return(c, <<>>, Len(Args), ZeroWord) /\ channel' = channel
        /\ Len(Args) \in Register
    BY <1>7, SyscallAssumption DEF SysArgc, Register
  <2>2. QED BY <1>1, <2>1, ReturnTyped, ZeroFacts
<1>8. CASE SysRead(c)
  <2>1. /\ a0' \in Register /\ a1' \in Word
        /\ bytes' \in [Addr -> Byte]
    BY <1>1, <1>8, SysReadFacts DEF Register, Word, Typed
  <2>2. UNCHANGED <<exit_code, channel, read_pos>>
    BY <1>8 DEF SysRead, Return
  <2>3. QED BY <2>1, <2>2, ChannelsStay DEF Typed, Registers
<1>9. CASE SysReadAvail(c)
  <2>1. Return(c, <<>>, Navail, ZeroWord) /\ channel' = channel
        /\ Navail \in Register
    BY <1>1, <1>9, AvailableFacts, ZeroFacts DEF SysReadAvail, Navail
  <2>2. QED BY <1>1, <2>1, ReturnTyped, ZeroFacts
<1>10. CASE SysWrite(c)
  <2>1. Emit(c, c.a3, Bytes(bytes, c.a4, c.a5)) /\ c.a3 \in Output
        /\ Readable(c.a4, c.a5)
    BY <1>10 DEF SysWrite, Called, Refuses
  <2>2. Bytes(bytes, c.a4, c.a5) \in Seq(Byte)
    BY <1>1, <2>1, CallFacts, BytesFacts DEF Typed
  <2>3. QED BY <1>1, <2>1, <2>2, EmitTyped
<1>11. CASE SysLog(c)
  <2>1. Emit(c, STDOUT, Bytes(bytes, c.a3, c.a4)) /\ STDOUT \in Output
        /\ Readable(c.a3, c.a4)
    BY <1>11 DEF SysLog, Called, Refuses, STDOUT, Output
  <2>2. Bytes(bytes, c.a3, c.a4) \in Seq(Byte)
    BY <1>1, <2>1, CallFacts, BytesFacts DEF Typed
  <2>3. QED BY <1>1, <2>1, <2>2, EmitTyped
<1>12. CASE SysVerify(c)
  <2>1. Return(c, <<>>, 0, ZeroWord) /\ channel' = channel
    BY <1>12 DEF SysVerify
  <2>2. QED BY <1>1, <2>1, ReturnTyped, ZeroFacts
<1>13. CASE SysOther(c)
  <2>1. Return(c, <<>>, a0, a1) /\ channel' = channel
        /\ a0 \in Register /\ a1 \in Word
    BY <1>13 DEF SysOther, Typed, Registers
  <2>2. QED BY <1>1, <2>1, ReturnTyped, ZeroFacts
<1>14. QED
  BY <1>2, <1>3, <1>4, <1>5, <1>6, <1>7, <1>8, <1>9, <1>10, <1>11, <1>12, <1>13
  DEF Software, SysGetenv, SysArgs

(* What SHA stores, if it is reached, is bytes.                            *)
LEMMA ShaStoreTyped ==
  ASSUME CompressType, NEW mem \in [Addr -> Byte], NEW c \in ShaCall, ShaReads(c)
  PROVE  ShaStore(mem, c) \in [Addr -> Byte]
<1>1. PICK s : IsChain(s, mem, c, c.count) /\ StateAfter(mem, c, c.count) = s[c.count]
  BY ShaCallFacts, StateAfterFacts, c.count \in 0 .. c.count
<1>2. s[c.count] \in Hash
  BY <1>1, ShaCallFacts DEF IsChain
<1>3. StateBytes(s[c.count]) \in [1 .. StateLen -> Byte]
  BY <1>2, StateBytesFacts
<1>4. QED BY <1>1, <1>3, ShaCallFacts, WriteFacts DEF ShaStore

(* Every ecall preserves the types.                                        *)
LEMMA EcallTyped ==
  ASSUME CompressType, GuestInv, Typed, EcallStep
  PROVE  Typed'
<1>1. CASE \E c \in guest : Software(c)
  BY <1>1, SoftwareTyped
<1>2. CASE EcallHalt
  <2>1. UNCHANGED <<bytes, a0, a1, channel, read_pos>>
    BY <1>2 DEF EcallHalt, ends
  <2>2. PICK reg \in HaltRegs :
          exit_code' = IF status' = "Err" THEN exit_code ELSE (reg \div 256) % 256
    BY <1>2 DEF EcallHalt
  <2>3. (reg \div 256) % 256 \in 0 .. 255
    <3> DEFINE q == reg \div 256
    <3>1. q \in Nat
      BY SyscallAssumption
    <3> HIDE DEF q
    <3>2. q % 256 \in 0 .. 255
      BY <3>1
    <3>3. QED BY <3>2 DEF q
  <2>4. exit_code' \in 0 .. 255
    BY <2>2, <2>3 DEF Typed, Registers
  <2>5. QED BY <2>1, <2>4, ChannelsStay DEF Typed, Registers
<1>3. CASE PauseAgain \/ EcallInput \/ UnknownEcall
  BY <1>3, ChannelsStay
  DEF PauseAgain, EcallInput, UnknownEcall, ends, Typed, Registers
<1>4. CASE \E c \in ShaCalls : EcallSha(c)
  <2>1. PICK c \in ShaCalls : EcallSha(c)
    BY <1>4
  <2>2. /\ bytes' = IF ShaReads(c) THEN ShaStore(bytes, c) ELSE bytes
        /\ UNCHANGED <<a0, a1, exit_code, channel, read_pos>>
    BY <2>1 DEF EcallSha, RestUnchanged, ends
  <2>3. c \in ShaCall
    BY EcallAssumption DEF ShaCall
  <2>4. bytes' \in [Addr -> Byte]
    BY <2>2, <2>3, ShaStoreTyped DEF Typed
  <2>5. QED BY <2>2, <2>4, ChannelsStay DEF Typed, Registers
<1>5. CASE \E c \in BigintCalls : EcallBigint(c)
  <2>1. PICK c \in BigintCalls : EcallBigint(c)
    BY <1>5
  <2>2. UNCHANGED <<a0, a1, exit_code, channel, read_pos>>
    BY <2>1 DEF EcallBigint, RestUnchanged, ends
  <2>3. \/ bytes' = bytes
        \/ /\ \A p \in {c.x, c.y, c.n} : BigReadable(p)
           /\ bytes' = StoreBig(bytes, c.z, Product(bytes, c))
    BY <2>1 DEF EcallBigint
  <2>4. bytes' \in [Addr -> Byte]
    BY <2>3, ProductFacts, StoreBigFacts, EcallAssumption DEF Typed
  <2>5. QED BY <2>2, <2>4, ChannelsStay DEF Typed, Registers
<1>6. QED
  BY <1>1, <1>2, <1>3, <1>4, <1>5 DEF EcallStep, SyscallStep

(* The host reads what there is.                                           *)
LEMMA ReadTyped ==
  ASSUME Typed, NEW fd \in Output, NEW len \in Nat, Read(fd, len)
  PROVE  Typed'
<1>1. /\ len <= Len(channel[fd]) - read_pos[fd]
      /\ read_pos' = [read_pos EXCEPT ![fd] = read_pos[fd] + len]
      /\ UNCHANGED <<bytes, a0, a1, exit_code, channel>>
  BY DEF Read
<1>2. read_pos[fd] \in Nat /\ Len(channel[fd]) \in Nat
  BY DEF Typed, Channels
<1>3. Channels'
  BY <1>1, <1>2 DEF Typed, Channels
<1>4. QED BY <1>1, <1>3 DEF Typed, Registers
=============================================================================
