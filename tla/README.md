# gdb0: a verification project

gdb0 runs a RISC Zero guest program (an ELF for RISC-V RV32IM) in a small
simulator, counts the cycles a proof of the run would cost, and lets GDB drive
the run over TCP. This directory holds TLA+ models of it, translated from the
Rust sources (paths below are relative to the repository), the TLC
configurations that check them, and proofs checked by TLAPS.

## The system

| Component | State | Operations |
|---|---|---|
| Session cycle counter, `src/vm/session_cycle.rs` | segments sealed, cycles of the current segment, its loaded and its dirty pages, the pages the present instruction touched | `callback_read_mem`, `callback_write_mem`, `callback_step`, `get_session_cycle` |
| Guest memory and watchpoints, `src/vm/memory.rs` | a map from page index to 256 words, watchpoints, the trigger | read, write (byte, halfword, word; privileged or not), `check_watchpoints` |
| Simulator, `src/vm/simulator.rs` | registers, pc, stdin, stdout, stderr, journal | `step`, the ecalls HALT, INPUT, SOFTWARE, SHA, BIGINT |
| Syscalls, `src/vm/syscall.rs` | (the simulator's) | named requests of the SOFTWARE ecall |
| Loader, `src/vm/loader.rs` | (the memory's) | `load_elf` |
| Run loop, `src/debug/debugger.rs` | execution mode, breakpoints, polling counter | `wait_for_stop_reason`, `on_interrupt` |
| Requests, `src/debug/step.rs`, `breakpoints.rs`, `readwrite.rs` | (the above) | resume, step, range step; add and remove break- and watchpoints; registers and memory |
| Takeover, `src/debug/mod.rs` | the connection | `debugger_takeover`: the session and what follows its end |
| Host I/O, exec file, monitor, `src/debug/host_io.rs`, `monitor.rs` | none | transfers of the ELF; printing the cycle counts |
| Serializer, `src/serializer/` | none | words of the initial input |
| Main, `src/main.rs` | the outputs it has read | loads `code`, writes the input, calls `debugger_takeover`, reads and prints the outputs |
| Constants, `src/vm/mod.rs` | none | |

How they interact. One thread runs everything. `main` loads the ELF file into
memory, serializes an input and writes it to the simulator's stdin, and hands
simulator and file to `debugger_takeover`; when that returns, for whatever
reason, it reads what the guest has written and prints it. gdbstub reads packets and calls
the request handlers; after a resume it calls `wait_for_stop_reason`, which runs
`Simulator::step` until the guest stops or a byte has arrived. `step` fetches,
clears the watch trigger, executes (rrs_lib, or an ecall), has `callback_step`
price the instruction from the pages that `Memory` reported through the
callback, and returns the trigger, if one was set, as an `ExitCode`. The
debugger uses the same memory with privileges: no callback, no watchpoints.

What is hard here. The peer is concurrent: 0x03 (Ctrl-C) shares the connection
with the requests and may cross any stop, and the connection may end at any
time. A round of `callback_step` is repeated after a segment has been sealed in
the middle of it, over sets with no order, with walks that stop early. A stop
can have several causes at once, tested in some order. And a handful of numeric
edges: the segment limit, the ends of watched areas and of memory. The full list,
line by line, is `hazards` in `PROJECT.json`. Nothing is persisted and nothing
is restarted, so there is no crash recovery.

What makes each part correct:

- cycle counter: each page is paid once per segment, no segment is overfull, the
  result does not depend on the iteration order, the count never goes back, and
  the call returns;
- memory: it is an array of bytes, and the debugger leaves no trace in the
  accounting; the trigger is the first access noticed;
- run loop: no stop missed, the reason reported is what happened, one answer for
  each request, Ctrl-C answered within a polling period;
- takeover: after a detach the guest runs to its end;
- loader: memory is what the file says, and a file that is accepted is complete;
- ecalls and syscalls: stdin arrives once and in order, over reads of any shape;
  a value asked for twice arrives whole; a message is hashed as it lies in memory;
- main: what the guest has sent is printed once and in order;
- serializer: the words of a value tell which value it is and where it ends;
- host I/O: the file arrives at GDB as it is, however it is cut.

## The modules

`Pricing` is the page tree with its prices: constants, `Parent`, `Closure` (what
has to be loaded for some pages) and `Cost`.

`CycleMeter` is what the counter promises: an instruction is charged its own
cycles plus the price of the missing pages of its closure, at once (`Charge`), or
the segment is sealed first (`Seal`).

`SessionCycle` is `callback_step` as written, one action per iteration of its
inner loops: `CallbackStep` is the call, `TakePage` the head of a `for`, `Climb`
and `EndWalk` an iteration of the walk, `TurnToWrites` the end of the first
`for`, `NewSegment` and `Settle` the two results of
`update_cur_segment_total_cycle`. The two halves for reads and writes are the same
code on different sets, told apart by `phase`; the cycles of pages read and
written are one counter, as only their sum is used. `HashSet` iteration is a
choice. `op_spent` is a history variable: the cycles of instructions alone.

`Watchpoints` has the tests of `check_watchpoints`, the function itself, and
`WatchTrigger`, what a whole step's accesses lead to. `DebugSession` uses the
latter; `GuestMemory` makes the accesses one at a time and checks that both agree
(`TriggerIsFirst`).

`FlatMemory` is memory as an array of bytes, without watchpoints or trigger, which only
`TriggerIsFirst` judges; `GuestMemory` is the code: pages of
words appearing at the first touch, lanes selected by size and offset, the bounds
tests, the callback, and the debugger's `read_addrs` and `write_addrs`, which copy
byte by byte. A word is a function from 0..3 to bytes, lowest first, which is what
the masks and shifts by whole bytes do. Misaligned halfwords never arrive, since
rrs_lib refuses them; misaligned words do, from the ecalls. Those two debugger
requests are one action each: nothing runs between their bytes.

`DebugSession` is a session: the GDB client, the connection (`inbox`, `outbox`),
gdbstub (`stub`, `deferred`) and the handlers. `wait_for_stop_reason` is
`PollNothing`, `OnInterruptRunning` and `ReadFails` for a poll, then `RunOn` or
`StopGuest` for the rest of an iteration; `StopAt` is the order of its tests.
`cycles` is kept modulo the polling period. The guest is a table of instructions
with a choice of successors (`Code`), seen as `Simulator::step` sees it. The client
and gdbstub are external: they are modelled from the calls this code receives.
When GDB presses Ctrl-C while the guest is stopped, gdbstub calls `on_interrupt`
and keeps the stop reason it returns until the next resume (`OnInterruptIdle`,
`ReportDeferred`). `asked`, `ran`, `stepped`, `unanswered` and `overdue` are history
variables: the mode of the last resume, how many steps the guest has made since and
where the last one was made, the 0x03 bytes that no SIGINT has answered, and the steps
made while one waited. No guard but the bound on `unanswered` itself reads them.

`StopReasonTruthful` judges every reason by them. A "Watch" must name kind and address
of an access of the last step that a watchpoint listens to and that overlaps its area
or ends right before it. The latter is what `check_watchpoints` takes for a touch: it
is refuted as one by `WatchReportsTouch`, in the run `watch_edge`, and admitted here. A
"SIGINT" must be for a 0x03 byte of its own. The other reasons are judged by where the
guest stands.

`ByteMemory` is the memory as the following modules use it: bytes, words and the
bounds, without pages and watchpoints, which `GuestMemory` has. It declares the
variable `bytes`, which they share.

`Syscalls` is what a guest asks of the host, one action per syscall. A call is a
record of its registers, and `guest` the set of calls that the guest may make.
Every call first meets the tests of `ecall_software` and of its syscall (`Refuses`,
an error that ends the run; `Panics`, an assertion that ends the process) and ends
with `Return`: the registers are set before the buffer is copied, so that a buffer
that leaves memory leaves them changed. `position`, `channel` and `read_pos` are
the cursors. `got`, `promised`, `learned`, `counted` and `sent` are history
variables: what the guest holds and was told. A pause leaves pc at its ecall, so a
guest that GDB resumes after one pauses again (`PauseAgain`).

`Ecalls` adds SHA and BIGINT to them. The compression function is a parameter: what
the code around it has to get right is which bytes it is given, in which order,
and how the state travels between memory and call. Numbers have `W` words of four
bytes below `ByteBase`, 8 words and 256 in the source. What happens between two
ecalls, in `cycle`, is one of `StepCycles`.

`Loader` is `load_elf`, one action per word; a file is a record of what the elf
crate finds in it. `Padding` is how numbers, lengths and texts become words.
`Serializer` is `to_vec`, a recursive function on `Values`, the trees that serde hands
over: all of them in the proofs, some of each kind in the runs. `ValueAssumption` says
what a tree looks like, that its parts are `Values` less `Depth` than itself, and that no
text or list has 2^32 elements; `TypeAssumption` says of the sets in `InputTypes` what
makes values of one type, as Rust's types do: two variants of an enum with
the same index have fields of the same types, and so on. TLC evaluates both in the run
`program`. `HostIo` is a transfer of the file to GDB: its name, then its
contents, in chunks of lengths that GDB chooses.

`Main` composes them: `Load`, `GiveInput`, `Connect`, then the guest's ecalls and GDB's
transfer in any order, until `TakeoverReturns`, then `ReadOutput` and `PrintOutput`.
What ends the process on the way are actions of their own: `NoCode` (the file cannot be
opened or read), `RefuseInput`, and `NoConnection` (the port cannot be had). `Printed` is
what should be on the screen at the end: each output as the guest sent it, up to the
first that is not UTF-8, at which `main` panics with the rest unprinted.
The debugger's part in a run, when the guest may move and when the session ends, is
`DebugSession`; here it is a choice of when, and GDB writes neither memory nor
registers. `Scenarios` are the files, inputs (some of `Values`) and guests. The program itself
has one input, 64 zeros, of the kind `List`; the serializer is written for any, and so
is the model.

Operators named as a fault in their comment (`OverflowsLate`, ...) are the
mutants of `PROJECT.json`: plausible bugs that the properties are shown to catch.
They are used nowhere else.

## The runs

| Run | Checks | Instance |
|---|---|---|
| `cycles` | `PaidOnce`, `LoadedToTheRoot`, `ImplementsMeter` | the constants of the source; two neighbouring pages and the last page of guest memory, with all their ancestors; instructions of which two, or none, fit in a segment |
| `cycles_limit` | `TypeOK`, `SegmentFits`, `SessionCycleMonotone`, `CallbackStepReturns`, `CallbackStepNearsItsEnd` | a binary tree of seven pages; prices that meet the limit exactly and exceed it by one; three segments |
| `session` | seven properties of the debugger | a guest of six instructions that loops, pauses, halts and runs off its code; two breakpoints, two watchpoints, a range, one Ctrl-C |
| `interrupt` | `InterruptLatency`, `InterruptAnswered`, `LostConnectionEnds` | the same guest, polled every three steps, two Ctrl-C bytes, a connection that may be lost at any time |
| `memory` | `TypeOK`, `ImplementsFlatMemory` | pages of two words; addresses below, at both ends of and above memory, aligned and not; spans that cross both ends |
| `watch_order` | `TriggerIsFirst` | three overlapping watchpoints in any order, two accesses a step |
| `ecalls` | `SyscallTypeOK`, `ShaHashesMessage`, `ShaChains`, `ValueFetched`, `CyclesElapsed` | bytes of three values, hashes and numbers of two words; messages aligned and not, in one piece and not, overlapping the state, leaving memory; counts that wrap at 16; values longer than, shorter than and as long as the buffer |
| `program` | nine properties from the file to the outputs | every pair of 26 segments that overlap, begin below memory, end at its end, are cut short or end in the middle of a word; 105 inputs of twelve types; stdin read in every shape of call, fitting and not; transfers in chunks shorter and longer than the buffer |
| `pause`, `watch_edge`, `max_mem`, `bigint` | each one property that the code violates | the smallest that shows it |

Bounds. `MaxSegment` stops the model when that many segments are sealed; a redone
round needs one seal, and the counter keeps nothing else of a sealed segment, so
two would do. `MaxAccesses` bounds the accesses of a step; a single access already
meets every earlier state of memory, and two are needed for an order. `MaxCtrlC`
bounds the 0x03 bytes under way; the stub handles one at a time and two make one
arrive while another is deferred. `MaxUnanswered`, two more, bounds the count of those
unanswered: besides the bytes under way one may be kept by the stub and one be on its way
back as a SIGINT, so that bytes that are not counted (several kept are answered by one
SIGINT) are never needed to justify one (`UnansweredInv`). `Poll` is 2 or 3 for 1024: only being due or not
is told apart. `MaxCycle` ends the guest's
SOFTWARE, SHA and BIGINT ecalls; it admits three calls with a buffer in `ecalls` and two in
`program`, and more without; a call depends on
earlier ones only by the two cursors and what it was told by one of them. `U32` is
2^32 in the source; only `CyclesElapsed` needs the wrap, which `ecalls` reaches.
`CHECK_DEADLOCK FALSE` is set where a bound (`MaxSegment`) or a
failed access ends the run; sessions are checked for deadlock.

Fairness. `callback_step` is a loop that runs until it returns (`WF` of its
steps; none of the instruction's, as the guest may stop for good). In a session
one thread runs the stub, the loop and the guest, so that their disjunction is
weakly fair; weak fairness of `Receive` is that GDB reads its socket. Nothing is
assumed of what GDB asks. In `Main` the steps of `main` itself are weakly fair (one
thread, no waiting), those of the guest and GDB, `Connect` included, are not: the properties speak of
loading, which comes before them, and of printing, which comes after.

### Where the code and its documentation disagree

- `pause`: `ecall_halt` returns its own address for a pause, so a resumed guest
  pauses again at the same ecall (`src/vm/simulator.rs:184`), while `src/vm/mod.rs`
  says a paused session "can be resumed at a later time".
- `watch_edge`: an access that ends right before a watched area is reported as a
  hit (`src/vm/memory.rs:42`).
- `max_mem`: the address `GUEST_MAX_MEM` is accepted (`src/vm/memory.rs:58` and
  `:122`), one page beyond what the loader calls the maximum.
- `bigint`: `ecall_bigint` stores each word of its result with
  `MemAccessSize::Byte` (`src/vm/simulator.rs:375`), so that three bytes of each
  keep what was there.

Not shown by a run: `copy_range_to_buf` is documented to return 0 if
`offset >= buf.len()` (`src/debug/mod.rs:30`), but compares with the length of the
data, as it must; `ecall_software` reports a buffer that leaves memory as "cannot
write the final hash for SHA" (`src/vm/simulator.rs:255`).

## The proofs

`SessionCycleProofs` proves about `SessionCycle`, for every page tree, price and
limit that `PricingAssumption` admits (finitely many pages closed under `Parent`,
natural prices, a fixed cost within the limit):

- `TypeCorrect`, `SegmentsFit`, `ChargedOnce`, `WalksReachTheRoot` and
  `CountIsMonotone`: the safety properties of the runs `cycles` and
  `cycles_limit`;
- `WalkImplementsMeter`: the walk implements `CycleMeter`;
- `CallbackStepEnds`: for an instruction that an empty segment can hold, each iteration
  of `callback_step` lowers `CallLeft`, a number (`CallbackStepNearsItsEnd`), so the call
  ends whatever the order of the sets. That is `CallbackStepReturns` but for the fairness;
- `SourceTreeClimbs`: in the source's tree each page has a larger parent up to
  the root, within 32 bits.

The argument. None of the properties is inductive alone. `IInv` adds two parts.
`NewPages`: the vectors of an unfinished round are disjoint from the segment's
sets and `page_cycle` is exactly their price. `Loops`: while the walk stands at a
page, the union of set and vector is parent-closed but for that page, it holds
what the loop has taken, and it lies within the closure of what it has to take; so
when a loop ends, set and vector together are the closure of the pages touched and
the set (`RoundDoneFacts`). From that, `Settle` is a `Charge`, `NewSegment` is a
`Seal`, and every other step is invisible.

For `CallbackStepEnds`, a walk begins once for each page touched, loads each page at
most once, and ends (`RoundNearsItsEnd`, with the counts of `CountPages`). What it needs
beyond `IInv` is that a round is repeated once only: `SegmentUsed` says that a segment
without loaded pages has not been charged anything, so that the round after a seal fits
(`SealedOnce`). It is inductive because each instruction reads a page, its own.

`DebugSessionProofs` proves about `DebugSession`, for every
guest (`Code`), every set of breakpoints, watchpoints, ranges and pc values, any
number of Ctrl-C bytes and every polling period, from `SessionAssumption` (the
constants have their types, an instruction that goes on has a successor, the
period is not 0). gdbstub and the client behave as their actions say; that is a
model of theirs, not something proved.

- `TypeCorrect`. It rests on what `WatchTrigger`, `RemoveFirst` and a guest step
  return (`TriggerFacts`, `RemoveFirstType`, `StepFacts`).
- `StopsWhenItShould` (`NoStopMissed`), inductive as it stands: the loop is
  entered only by a resume, left alone by all but its own steps (`RunningFacts`),
  and goes on only where `StopAt` says so.
- `InterruptIsPrompt` (`InterruptLatency`). `LatencyInv` adds that guest steps are
  overdue only while a 0x03 waits, and that off a poll they are no more than the
  steps since the last one: a poll that finds nothing thus finds none overdue.
  `InterruptAnswered` and `LostConnectionEnds` stay with TLC.
- `CompletesAtTheEnd` (`CompletionRunsToTheEnd`).
- `RunsAsAsked` (`ModeIsAsked`), `AnswersOnce` (`OneAnswerEach`) and
  `StopReasonsAreTrue` (`StopReasonTruthful`). None is inductive: what the stub
  does depends on what the client may still ask. `DialogueInv` says where the
  request of a client that stays is: nowhere at the prompt; otherwise in exactly
  one of the inbox, alone among 0x03 bytes, the running guest (or the stub's fatal
  error) and the outbox, answered in its kind; and that a resume in the inbox
  carries the mode asked last. A guest that has run is then told of a stop in the
  mode asked, and `NoStopMissed` gives what a stop may claim of earlier steps. Two
  reasons need more. For "SIGINT", `UnansweredInv` says that the 0x03 bytes in the inbox,
  the one kept and the SIGINTs under way are together no more than those unanswered
  (`Unanswered`). For "Watch", a trigger comes from an access and a watchpoint that met
  (`TriggerFacts`), and what meets by the two tests of `check_watchpoints` reaches the
  area, also where its end wraps (`MeetsReaches`).

- `WatchesAreReported` (`NoWatchMissed`), under `AreasEnd`: what GDB watches ends
  below 2^32. The two tests of `check_watchpoints` then find every access that
  overlaps an area (`OverlapMeets`), so that the step has a trigger, and `StopAt`
  reports it before anything else. Without `AreasEnd` the property is false: the end
  of an area that reaches 2^32 wraps, and none of its own addresses is found. The
  hypothesis is about what GDB asks for, and the guest has no memory there.

`GuestMemoryProofs` proves about `GuestMemory`, for every size of memory and page
(a page is whole words, memory whole pages), every set of watched areas and
addresses, and any number of accesses in a step:

- `MemoryTypes` (`TypeOK`) and `FirstTriggerStays` (`TriggerIsFirst`), from
  `MemoryInvariant`: `Pages` (each page is there whole), `Watching` (the trigger is
  that of the accesses made since the fetch, which `CheckWatchpoints` extends by one)
  and the phase. `TriggerFacts` ties the function that is applied access by access
  to `WatchTrigger`, which looks at all of them;
- `PagesAreFlat` (`ImplementsFlatMemory`): with `FlatBytes(map)` for the array of
  bytes, every action is one of `FlatMemory` or invisible. The lemmas below it are
  about the arithmetic of pages, words and lanes: an address is determined by page,
  word and byte (`LoadFacts`), a store changes its own bytes and no other, and
  a new page of zeros changes none.

`EcallProofs`, `LoaderProofs` and `MainProofs` prove about `Main` with all that it
composes, for every file, input, guest, environment, buffer and number of words,
from the named assumptions of `ByteMemory`, `Syscalls`, `Ecalls`, `HostIo`,
`Serializer` and `Main`. `MainInvariant` is the inductive invariant, `MainInv`:

- `GuestInv` (`EcallProofs`): `Structure` (types of what the ecalls decide by),
  `Promise` (what `SYS_READ_AVAIL` told is still there: only `SYS_READ` takes bytes,
  and it lowers the promise), `Hands` (byte by byte, what the guest holds is stdin up
  to the Cursor, or was discarded), `Learned` and `Counted` (what was told of a value
  and of the cycles was true then). `EcallStepInv` proves it for every ecall; most
  are `Quiet`, and only `SYS_READ`, `SYS_READ_AVAIL`, the fetching of values and
  `SYS_CYCLE_COUNT` touch a part;
- `LoaderStructure`, `Complete` and `Imaged` (`LoaderProofs`): where `load_elf`
  stands; that it has passed a segment only if all of it was in the file; and that
  each address holds what the last segment copied there so far has for it
  (`HasLast`), so that with the last segment done memory is `Image`;
- `TransferInv`: what GDB has is the beginning of what it transfers (`IsPart`), and
  an empty chunk means that it is all;
- `Phase` and `Given`: main's own order, and that the input is one of a scenario.
  They tie the parts together: no ecall runs before the loader has ended, and no
  word is loaded once one has run.

From it follow `StdinOnceInOrder`, `LoaderAccepts`, `LoaderLoads`, `ElfArrives`, and,
as facts about a step from a state of the invariant, the action properties
`AvailIsKept`, `ValuesAreFetched` and `CyclesAreElapsed`. `TextIsRead`
(`TextArrives`) adds `InputInv`: stdin holds the serialized input and nothing else;
`TextFacts` finds byte `j` of a text at place `4 + j` after padding and casting back.

`WellFormedIsNotRefused` is the safety half of `LoadsWellFormed`: a file that is
well-formed passes every test of the header, and of each segment and word that the loader
comes to (`WellFormedGoesOn` in `LoaderProofs`).

`TypesHold` (`SyscallTypeOK`), `HashesMessages` (`ShaHashesMessage`) and `HashesChain`
(`ShaChains`) are about the memory that the ecalls leave. Those that need the type of
a hash assume `CompressType`: `compress256` of the sha2 crate, of which the code here
knows nothing else, makes words of bytes from words and a block of bytes. It is a
hypothesis of the theorems and not an `ASSUME`, since there are more blocks than TLC
could enumerate; the operators that the runs put there satisfy it. The heart of
`HashesChain` is that the state after each round is determined by the state before it
(`StateAfterFacts`, `ChainedCall`) and that storing a state does not disturb the
blocks that follow (`BlockStays`), which is why the property asks for a message
apart from the state.

`HashesMessages` holds at every alignment: at an address that is not one of a word the
code reads the words around the message, so what is hashed begins with the word that
holds the address, and ends that much earlier.

`OutputsArePrinted` proves the safety half of `OutputsPrinted`: once main has
finished, or ended while printing, what is shown is what was sent, up to the first output
that is not UTF-8. `Outputs` says, per output, how much is read and printed in each
phase, and `Checked` that all printed so far were UTF-8.

`SerializerProofs` proves `WordsTellValues`: of the words that `to_vec` writes for two
values of a type, those of one never begin those of the other, whatever the type and its
depth. The argument:

- `ToVec` is what its definition says (`ToVecIsSerialize`). For each depth there
  is a function that is `to_vec` for the values less deep (`SerializesExists`), and any
  two of them agree on the values that both are right for (`SerializesUnique`);
- a number within its type is determined by its bytes in two's complement, and these by
  the padded words (`NumberTells`); so is a text by its bytes, once its length is known;
- two sequences of words are `Separate` if neither begins the other, unless they are the
  same. What is written one behind the other is separate if its parts are (`SeparateJoin`,
  `InOrderTells`); the length in front of lists and texts, and the tag in front of
  options and variants, are what makes the parts correspond;
- `ValueTold` puts it together for each kind, for a value whose parts are told; a value
  of least depth that is not told would contradict it (`AllTold`).

In `MainProofs` it becomes `InputIsTold` (`InputUnambiguous`): the guest's words neither
begin those of another value of the type nor begin with them. `StdinTellsInput` says
both of the bytes in stdin: casting to bytes keeps beginnings apart (`AsBytesPrefix`).

`BasicFacts` has what several of them use: the least of a set of numbers or pairs,
`RemoveFirst`, division, concatenation, and recursion. The provers cannot instantiate a theorem of
induction, which takes an operator. What can be cited is that `<` on the numbers is
well-founded, in the form that a set of numbers that is not empty has a least member;
so a set of numbers that has 0 and with `n` also `n + 1` has all of them
(`Induction`), and a recursive function is what its definition says
(`RecursionExists`). That is how the recursive functions of the models, such as
`StateAfter`, are reached.

## What is only model-checked, and what is not modelled

Model-checked only:

- liveness, which the provers do not reach: `CallbackStepReturns`,
  `InterruptAnswered`, `LostConnectionEnds`, `LoadsWellFormed`, `OutputsPrinted`. What is
  proved of them, but for `LostConnectionEnds`, is
  their safety half: `CallbackStepEnds`, `InterruptIsPrompt`, `WellFormedIsNotRefused` and
  `OutputsArePrinted`. `CallbackStepReturns` is
  about instructions that fit into an empty segment; for any other one the loop of
  `callback_step` seals segments forever, which the model shows too;
- what a run refutes (`PausedSessionResumes`, `WatchReportsTouch`, `BelowMaximum`,
  `BigintStoresProduct`).

Not modelled: the general registers as GDB sees them (reading and writing copies
them; writing x0 changes what GDB reads back, never what an instruction reads);
`readlink`, `setfs` and requests for unknown descriptors in host I/O; parsing and
wording of the monitor commands; parsing of ELF, which is the elf crate; decoding
and execution of instructions, which is rrs_lib; the encoding of GDB's packets,
which is gdbstub; the opcode prices, which are a table (`StepCycles` stands for its
values). An assertion that a guest's request breaks ends the process in `Main`;
`DebugSession`, where GDB would lose its connection, has no such guest. The counter
`cycles` of the run loop is kept modulo the polling period: in a release build its
wrap does not show, as 2^32 is a multiple of 1024, and the panic of a debug build
takes 2^31 steps.

## Plan

1. Done: `Pricing`, `CycleMeter`, `SessionCycle`, with proofs.
2. Done: `Watchpoints`, `DebugSession`, with proofs.
3. Done: `FlatMemory`, `GuestMemory`, with proofs.
4. Done: `ByteMemory`, `Syscalls`, `Ecalls`, `Loader`, `Padding`, `Serializer`,
   `HostIo`, `Main`, with proofs. Every safety and action property of a passing run is
   a theorem.
