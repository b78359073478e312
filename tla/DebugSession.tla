---------------------------- MODULE DebugSession ----------------------------
(***************************************************************************)
(* A debugging session: the run loop of src/debug/debugger.rs, what GDB's  *)
(* commands do to it (step.rs, breakpoints.rs, readwrite.rs) and what      *)
(* debugger_takeover of mod.rs does when the session ends.                 *)
(*                                                                         *)
(* gdbstub, which turns packets into calls of these handlers, and the GDB  *)
(* client, with a reliable ordered connection each way, are external: they *)
(* are modelled from how this code uses them.  Ctrl-C is the byte 0x03; it *)
(* shares the connection with the commands and may arrive at any time.     *)
(* The guest is a table of instructions with a choice of successors.       *)
(***************************************************************************)
EXTENDS Watchpoints

CONSTANTS
  Code,          (* the guest: address -> instruction, see Instruction      *)
  Entry,         (* its entry point                                         *)
  Poll,          (* guest steps between two polls, 1024 in the source       *)
  BreakAddr,     (* addresses where GDB sets breakpoints                    *)
  WatchArea,     (* watchpoints that GDB sets                               *)
  StepRange,     (* <<start, end>> of its range steps                       *)
  PcValue,       (* values it writes to the pc                              *)
  MaxCtrlC       (* bound of the model on 0x03 bytes under way              *)

Access == [addr : Nat, len : {1, 2, 4}, write : BOOLEAN]

(* What an instruction does, as Simulator::step sees it: it may be an      *)
(* ecall, end in an ExitCode or an error, go on to some address, and touch *)
(* data.                                                                   *)
Instruction == [ecall : BOOLEAN, exit : {"none", "Paused", "Halted", "Err"},
                next : SUBSET Nat, touch : Seq(Access)]

ASSUME SessionAssumption ==
  /\ AddressSpace \in Nat /\ Entry \in Nat
  /\ DOMAIN Code \subseteq Nat
  /\ \A a \in DOMAIN Code : /\ Code[a] \in Instruction
                            /\ Code[a].exit = "none" => Code[a].next # {}
  /\ Poll \in Nat \ {0}
  /\ BreakAddr \subseteq Nat /\ WatchArea \subseteq WatchEntry
  /\ StepRange \subseteq Nat \X Nat /\ PcValue \subseteq Nat
  /\ MaxCtrlC \in Nat

(* ExecMode *)
Step == [kind |-> "Step"]
Continue == [kind |-> "Continue"]
RangeStep(start, end) == [kind |-> "RangeStep", start |-> start, end |-> end]
Interrupted == [kind |-> "Interrupted"]

ResumeMode == {Step, Continue} \cup {RangeStep(r[1], r[2]) : r \in StepRange}

(* What GDB sends.                                                         *)
Query == [op : {"add_sw_breakpoint", "remove_sw_breakpoint"}, addr : BreakAddr]
           \cup [op : {"add_hw_watchpoint", "remove_hw_watchpoint"},
                 watch : WatchArea]
           \cup [op : {"write_pc"}, val : PcValue]
Resume == [op : {"resume"}, mode : ResumeMode, signal : {FALSE}]
            \cup [op : {"resume"}, mode : {Step, Continue}, signal : {TRUE}]
Leave == [op : {"detach", "kill"}]
CtrlC == [op |-> "0x03"]
EndOfStream == [op |-> "closed"]

(* What it gets: OK, or why the guest stopped.                             *)
Ok == [why |-> "OK", trigger |-> NoTrigger]
Stop(why) == [why |-> why, trigger |-> NoTrigger]
WatchStop(trigger) == [why |-> "Watch", trigger |-> trigger]
StopReason == {"SwBreak", "DoneStep", "SIGINT", "Exited", "Terminated"}

VARIABLES
  pc,              (* hart_state.pc                                        *)
  exec_mode, breakpoints, hw_watchpoints,
  cycles,          (* of wait_for_stop_reason, modulo Poll                 *)
  polled,          (* it has just polled and found nothing                 *)
  stub,            (* gdbstub: Idle, Running; Completing: GDB detached;    *)
                   (* Over                                                 *)
  deferred,        (* gdbstub keeps an interrupt to report at a resume     *)
  outcome,         (* what debugger_takeover prints at the end             *)
  inbox, outbox,   (* bytes from and to GDB                                *)
  client,          (* GDB: prompt, waiting for OK, running, gone           *)
  asked,           (* history: the mode of its last resume                 *)
  ran,             (* history: 0, 1, or 2 for more guest steps since then  *)
  stepped,         (* history: where the last of them was made             *)
  unanswered,      (* history: 0x03 bytes sent less SIGINTs received       *)
  overdue          (* history: guest steps made while a 0x03 waited        *)

guest  == <<pc, ran, stepped>>
target == <<exec_mode, breakpoints, hw_watchpoints>>
loop   == <<cycles, polled, overdue>>
gdb    == <<client, asked, unanswered>>
vars   == <<guest, target, loop, stub, deferred, outcome, inbox, outbox, gdb>>

Init ==
  /\ pc = Entry /\ ran = 0 /\ stepped = Entry
  /\ exec_mode = Continue /\ breakpoints = {} /\ hw_watchpoints = <<>>
  /\ cycles = 0 /\ polled = FALSE /\ overdue = 0
  /\ stub = "Idle" /\ deferred = FALSE /\ outcome = "none"
  /\ inbox = <<>> /\ outbox = <<>>
  /\ client = "prompt" /\ asked = Continue /\ unanswered = 0

-----------------------------------------------------------------------------
(* The GDB client.                                                         *)

Send(message) == inbox' = Append(inbox, message)

ClientOnly == UNCHANGED <<guest, target, loop, stub, deferred, outcome, outbox>>

AskQuery ==
  /\ client = "prompt"
  /\ \E q \in Query : Send(q)
  /\ client' = "waiting"
  /\ UNCHANGED <<asked, unanswered>>
  /\ ClientOnly

AskResume ==
  /\ client = "prompt"
  /\ \E r \in Resume : Send(r) /\ asked' = r.mode
  /\ client' = "running"
  /\ UNCHANGED unanswered
  /\ ClientOnly

AskLeave ==
  /\ client = "prompt"
  /\ \E l \in Leave : Send(l)
  /\ client' = "gone"
  /\ UNCHANGED <<asked, unanswered>>
  /\ ClientOnly

(* Those beyond what can be under way are not counted, which bounds the    *)
(* model: each may be in the inbox, or one be kept and one be reported.    *)
MaxUnanswered == MaxCtrlC + 2

PressCtrlC ==
  /\ client = "running"
  /\ Cardinality({i \in DOMAIN inbox : inbox[i] = CtrlC}) < MaxCtrlC
  /\ Send(CtrlC)
  /\ unanswered' = IF unanswered < MaxUnanswered THEN unanswered + 1 ELSE unanswered
  /\ UNCHANGED <<client, asked>>
  /\ ClientOnly

(* The client's process ends, or its connection.                           *)
CloseConnection ==
  /\ client # "gone"
  /\ Send(EndOfStream)
  /\ client' = "gone"
  /\ UNCHANGED <<asked, unanswered>>
  /\ ClientOnly

Receive ==
  /\ client # "gone"
  /\ outbox # <<>>
  /\ outbox' = Tail(outbox)
  /\ client' = IF Head(outbox).why \in {"Exited", "Terminated"}
                 THEN "gone" ELSE "prompt"
  /\ unanswered' = IF Head(outbox).why = "SIGINT" /\ unanswered > 0
                     THEN unanswered - 1 ELSE unanswered
  /\ UNCHANGED <<guest, target, loop, stub, deferred, outcome, inbox, asked>>

(* The client has read everything and finds the connection closed.         *)
LoseConnection ==
  /\ client # "gone"
  /\ stub = "Over"
  /\ outbox = <<>>
  /\ client' = "gone"
  /\ UNCHANGED <<guest, target, loop, stub, deferred, outcome, inbox, outbox,
                 asked, unanswered>>

-----------------------------------------------------------------------------
(* gdbstub and the handlers it calls.                                      *)

(* It writes a packet and goes on; writing may fail once GDB has left.     *)
Tell(reply, next, end) ==
  \/ /\ outbox' = Append(outbox, reply)
     /\ stub' = next
     /\ outcome' = end
  \/ /\ client = "gone"
     /\ stub' = "Over"
     /\ outcome' = "connection error"
     /\ UNCHANGED outbox

Serve(op) ==
  /\ stub = "Idle"
  /\ inbox # <<>>
  /\ Head(inbox).op = op
  /\ inbox' = Tail(inbox)

Answer ==
  /\ Tell(Ok, "Idle", outcome)
  /\ UNCHANGED <<ran, stepped, exec_mode, loop, deferred, gdb>>

AddSwBreakpoint ==
  /\ Serve("add_sw_breakpoint")
  /\ breakpoints' = breakpoints \cup {Head(inbox).addr}
  /\ Answer
  /\ UNCHANGED <<pc, hw_watchpoints>>

RemoveSwBreakpoint ==
  /\ Serve("remove_sw_breakpoint")
  /\ breakpoints' = breakpoints \ {Head(inbox).addr}
  /\ Answer
  /\ UNCHANGED <<pc, hw_watchpoints>>

AddHwWatchpoint ==
  /\ Serve("add_hw_watchpoint")
  /\ hw_watchpoints' = IF Contains(hw_watchpoints, Head(inbox).watch)
                         THEN hw_watchpoints
                         ELSE Append(hw_watchpoints, Head(inbox).watch)
  /\ Answer
  /\ UNCHANGED <<pc, breakpoints>>

RemoveHwWatchpoint ==
  /\ Serve("remove_hw_watchpoint")
  /\ hw_watchpoints' = RemoveFirst(hw_watchpoints, Head(inbox).watch)
  /\ Answer
  /\ UNCHANGED <<pc, breakpoints>>

WritePc ==
  /\ Serve("write_pc")
  /\ pc' = Head(inbox).val
  /\ Answer
  /\ UNCHANGED <<breakpoints, hw_watchpoints>>

(* Fault: the stop is reported although GDB awaits none.                   *)
OnInterruptIdleReports ==
  /\ Serve("0x03")
  /\ exec_mode' = Interrupted
  /\ Tell(Stop("SIGINT"), "Idle", outcome)
  /\ UNCHANGED <<guest, breakpoints, hw_watchpoints, loop, deferred, gdb>>

(* on_interrupt while the guest is stopped: gdbstub keeps the stop reason. *)
OnInterruptIdle ==
  /\ Serve("0x03")
  /\ exec_mode' = Interrupted
  /\ deferred' = TRUE
  /\ UNCHANGED <<guest, breakpoints, hw_watchpoints, loop, stub, outcome,
                 outbox, gdb>>

(* resume and step refuse a signal, with an error fatal to gdbstub.        *)
RefuseSignal ==
  /\ Serve("resume")
  /\ Head(inbox).signal
  /\ stub' = "Over"
  /\ outcome' = "target error"
  /\ UNCHANGED <<guest, target, loop, deferred, outbox, gdb>>

(* Fault: a range step runs like a continue.                               *)
SetExecModeNoRange ==
  /\ Serve("resume")
  /\ ~Head(inbox).signal
  /\ exec_mode' = IF Head(inbox).mode = Step THEN Step ELSE Continue
  /\ ran' = 0
  /\ UNCHANGED <<pc, stepped, breakpoints, hw_watchpoints, gdb>>

(* resume, step and resume_range_step; wait_for_stop_reason comes next.    *)
SetExecMode ==
  /\ Serve("resume")
  /\ ~Head(inbox).signal
  /\ exec_mode' = Head(inbox).mode
  /\ ran' = 0
  /\ UNCHANGED <<pc, stepped, breakpoints, hw_watchpoints, gdb>>

ResumeGuest ==
  /\ SetExecMode
  /\ ~deferred
  /\ stub' = "Running"
  /\ cycles' = 0 /\ polled' = FALSE /\ overdue' = 0
  /\ UNCHANGED <<deferred, outcome, outbox>>

(* Fault: the stop reason is kept after it has been reported.              *)
ReportDeferredAgain ==
  /\ SetExecMode
  /\ deferred
  /\ Tell(Stop("SIGINT"), "Idle", outcome)
  /\ UNCHANGED <<deferred, loop>>

(* The kept stop reason is reported before the guest moves.                *)
ReportDeferred ==
  /\ SetExecMode
  /\ deferred
  /\ deferred' = FALSE
  /\ Tell(Stop("SIGINT"), "Idle", outcome)
  /\ UNCHANGED loop

Detach ==
  /\ Serve("detach")
  /\ Tell(Ok, "Completing", outcome)
  /\ UNCHANGED <<guest, target, loop, deferred, gdb>>

Kill ==
  /\ Serve("kill")
  /\ stub' = "Over"
  /\ outcome' = "killed"
  /\ UNCHANGED <<guest, target, loop, deferred, outbox, gdb>>

(* Fault: only single steps poll.                                          *)
PollDueStepping == cycles = 0 /\ ~polled /\ exec_mode = Step

PollDue == cycles = 0 /\ ~polled

(* Reading fails, in any state of the stub.                                *)
ReadFails ==
  /\ stub = "Idle" \/ (stub = "Running" /\ PollDue)
  /\ inbox # <<>>
  /\ Head(inbox) = EndOfStream
  /\ inbox' = Tail(inbox)
  /\ stub' = "Over"
  /\ outcome' = "connection error"
  /\ UNCHANGED <<guest, target, loop, deferred, outbox, gdb>>

-----------------------------------------------------------------------------
(* Simulator::step.                                                        *)

(* Memory sees the fetch of an executing instruction, then its data; of an *)
(* ecall only the data, the fetch before the trigger is cleared not        *)
(* counting.                                                               *)
AccessesAt(a) == LET fetch == [addr |-> a, len |-> 4, write |-> FALSE]
                 IN  IF Code[a].ecall THEN Code[a].touch
                                      ELSE <<fetch>> \o Code[a].touch

Accesses == AccessesAt(pc)

(* Fault: the address told is that of a watchpoint.                        *)
TriggerOfArea ==
  LET trigger == WatchTrigger(hw_watchpoints, Accesses)
  IN  IF trigger = NoTrigger THEN trigger
      ELSE [trigger EXCEPT !.addr = hw_watchpoints[1].addr]

Trigger == WatchTrigger(hw_watchpoints, Accesses)

(* Fault: a watchpoint is reported when nothing triggered one.             *)
StepExitUntriggered ==
  IF pc \notin DOMAIN Code THEN "Err"
  ELSE IF Code[pc].exit = "none" /\ hw_watchpoints # <<>>
         THEN "HwWatchPoint" ELSE Code[pc].exit

StepExit == IF pc \notin DOMAIN Code THEN "Err"
            ELSE IF Code[pc].exit = "none" /\ Trigger # NoTrigger
                   THEN "HwWatchPoint" ELSE Code[pc].exit

(* A halt, a pause and an error leave the pc where it is.                  *)
StepPc == IF StepExit \in {"none", "HwWatchPoint"} THEN Code[pc].next ELSE {pc}

-----------------------------------------------------------------------------
(* wait_for_stop_reason.                                                   *)

LeaveLoop == cycles' = 0 /\ polled' = FALSE /\ overdue' = 0

(* Fault: on_interrupt gives no stop reason, so gdbstub runs on.           *)
OnInterruptRunningIgnored ==
  /\ stub = "Running"
  /\ PollDue
  /\ inbox # <<>>
  /\ Head(inbox) = CtrlC
  /\ inbox' = Tail(inbox)
  /\ LeaveLoop
  /\ UNCHANGED <<guest, target, stub, deferred, outcome, outbox, gdb>>

(* A 0x03 byte that a poll finds goes through gdbstub to on_interrupt.     *)
OnInterruptRunning ==
  /\ stub = "Running"
  /\ PollDue
  /\ inbox # <<>>
  /\ Head(inbox) = CtrlC
  /\ inbox' = Tail(inbox)
  /\ exec_mode' = Interrupted
  /\ Tell(Stop("SIGINT"), "Idle", outcome)
  /\ LeaveLoop
  /\ UNCHANGED <<guest, breakpoints, hw_watchpoints, deferred, gdb>>

(* Fault: a peek that fails counts as no data.                             *)
PollNothingOrError ==
  /\ stub = "Running"
  /\ PollDue
  /\ inbox # <<>> => Head(inbox) = EndOfStream
  /\ polled' = TRUE
  /\ UNCHANGED <<guest, target, cycles, overdue, stub, deferred, outcome, inbox,
                 outbox, gdb>>

PollNothing ==
  /\ stub = "Running"
  /\ PollDue
  /\ inbox = <<>>
  /\ polled' = TRUE
  /\ UNCHANGED <<guest, target, cycles, overdue, stub, deferred, outcome, inbox,
                 outbox, gdb>>

StopOfExit == [Err |-> "Terminated", Halted |-> "Exited", Paused |-> "SwBreak",
               HwWatchPoint |-> "Watch"]

(* Faults: a range step overlooks breakpoints; the range excludes its      *)
(* start.                                                                  *)
StopAtRangeOnly(next) ==
  IF exec_mode = Interrupted THEN "SIGINT"
  ELSE IF StepExit # "none" THEN StopOfExit[StepExit]
  ELSE IF exec_mode.kind = "RangeStep"
    THEN IF next \in exec_mode.start .. exec_mode.end - 1 THEN "none"
                                                        ELSE "DoneStep"
  ELSE IF next \in breakpoints THEN "SwBreak"
  ELSE IF exec_mode = Step THEN "DoneStep" ELSE "none"
StopAtOpenRange(next) ==
  IF exec_mode = Interrupted THEN "SIGINT"
  ELSE IF StepExit # "none" THEN StopOfExit[StepExit]
  ELSE IF /\ exec_mode.kind = "RangeStep"
          /\ next \notin exec_mode.start + 1 .. exec_mode.end - 1 THEN "DoneStep"
  ELSE IF next \in breakpoints THEN "SwBreak"
  ELSE IF exec_mode = Step THEN "DoneStep" ELSE "none"

(* The checks after a step, in their order: the step's outcome, the end of *)
(* the range, the breakpoints; a single step stops in any case.            *)
StopAt(next) ==
  IF exec_mode = Interrupted THEN "SIGINT"
  ELSE IF StepExit # "none" THEN StopOfExit[StepExit]
  ELSE IF /\ exec_mode.kind = "RangeStep"
          /\ next \notin exec_mode.start .. exec_mode.end - 1 THEN "DoneStep"
  ELSE IF next \in breakpoints THEN "SwBreak"
  ELSE IF exec_mode = Step THEN "DoneStep" ELSE "none"

(* The rest of an iteration: the guest moves, unless a mode Interrupted is *)
(* waited for.                                                             *)
Advance ==
  /\ stub = "Running"
  /\ ~PollDue
  /\ pc' \in IF exec_mode = Interrupted THEN {pc} ELSE StepPc
  /\ ran' = IF ran < 2 THEN ran + 1 ELSE ran
  /\ stepped' = pc
  /\ UNCHANGED <<target, deferred, inbox, gdb>>

RunOn ==
  /\ Advance
  /\ StopAt(pc') = "none"
  /\ cycles' = (cycles + 1) % Poll
  /\ polled' = FALSE
  /\ overdue' = IF \E i \in DOMAIN inbox : inbox[i] = CtrlC
                  THEN overdue + 1 ELSE 0
  /\ UNCHANGED <<stub, outcome, outbox>>

StopGuest ==
  /\ Advance
  /\ LET why == StopAt(pc')
     IN  /\ why # "none"
         /\ Tell(IF why = "Watch" THEN WatchStop(Trigger) ELSE Stop(why),
                 IF why \in {"Exited", "Terminated"} THEN "Over" ELSE "Idle",
                 IF why \in {"Exited", "Terminated"} THEN why ELSE outcome)
  /\ LeaveLoop

(* Fault: any exit code ends the run.                                      *)
RunToAnyExit ==
  /\ stub = "Completing"
  /\ pc' \in StepPc
  /\ IF StepExit # "none"
       THEN stub' = "Over" /\ outcome' = "completed"
       ELSE UNCHANGED <<stub, outcome>>
  /\ UNCHANGED <<ran, stepped, target, loop, deferred, inbox, outbox, gdb>>

(* debugger_takeover after a detach: nothing but the guest's end counts.   *)
RunToCompletion ==
  /\ stub = "Completing"
  /\ pc' \in StepPc
  /\ IF StepExit \in {"Err", "Paused", "Halted"}
       THEN stub' = "Over" /\ outcome' = "completed"
       ELSE UNCHANGED <<stub, outcome>>
  /\ UNCHANGED <<ran, stepped, target, loop, deferred, inbox, outbox, gdb>>

-----------------------------------------------------------------------------
ClientStep == \/ AskQuery \/ AskResume \/ AskLeave \/ PressCtrlC
              \/ CloseConnection \/ Receive \/ LoseConnection

StubStep == \/ AddSwBreakpoint \/ RemoveSwBreakpoint
            \/ AddHwWatchpoint \/ RemoveHwWatchpoint \/ WritePc
            \/ OnInterruptIdle \/ RefuseSignal \/ ResumeGuest \/ ReportDeferred
            \/ Detach \/ Kill \/ ReadFails

LoopStep == OnInterruptRunning \/ PollNothing \/ RunOn \/ StopGuest

(* The program has ended.                                                  *)
Finished == stub = "Over" /\ client = "gone" /\ UNCHANGED vars

Next == ClientStep \/ StubStep \/ LoopStep \/ RunToCompletion \/ Finished

(* One thread runs the stub, the loop and the guest; the client reads what *)
(* it is sent.                                                             *)
Fairness == /\ WF_vars(StubStep \/ LoopStep \/ RunToCompletion)
            /\ WF_vars(Receive \/ LoseConnection)

Spec == Init /\ [][Next]_vars
FairSpec == Spec /\ Fairness

-----------------------------------------------------------------------------
(* Properties.                                                             *)

TypeOK ==
  /\ pc \in Nat /\ ran \in 0 .. 2 /\ stepped \in Nat
  /\ exec_mode \in ResumeMode \cup {Interrupted}
  /\ breakpoints \subseteq BreakAddr
  /\ hw_watchpoints \in Seq(WatchArea)
  /\ cycles \in 0 .. Poll - 1 /\ polled \in BOOLEAN /\ overdue \in Nat
  /\ stub \in {"Idle", "Running", "Completing", "Over"}
  /\ deferred \in BOOLEAN
  /\ outcome \in {"none", "killed", "target error", "connection error",
                  "Exited", "Terminated", "completed"}
  /\ inbox \in Seq(Query \cup Resume \cup Leave \cup {CtrlC, EndOfStream})
  /\ outbox \in Seq({Ok} \cup {Stop(why) : why \in StopReason}
                      \cup [why : {"Watch"}, trigger : [kind : WatchKind, addr : Nat]])
  /\ client \in {"prompt", "waiting", "running", "gone"}
  /\ asked \in ResumeMode /\ unanswered \in 0 .. MaxUnanswered

(* wait_for_stop_reason always runs in the mode that GDB asked for last: a *)
(* Ctrl-C that met a stopped guest has overwritten exec_mode with          *)
(* Interrupted, but the next resume is answered before that mode is used,  *)
(* so its branch in wait_for_stop_reason is never taken.                   *)
ModeIsAsked == stub = "Running" => exec_mode = asked

(* GDB gets exactly one answer to each request, of the right kind, however *)
(* Ctrl-C crosses a stop: a client that expects nothing is sent nothing,   *)
(* and no request but Ctrl-C reaches a running guest.                      *)
OneAnswerEach ==
  client # "gone" =>
    /\ Cardinality({i \in DOMAIN inbox : inbox[i].op \notin {"0x03", "closed"}})
         + Len(outbox)
         + (IF stub = "Running" \/ outcome = "target error" THEN 1 ELSE 0)
           = IF client = "prompt" THEN 0 ELSE 1
    /\ \A i \in DOMAIN outbox : outbox[i] = Ok <=> client = "waiting"

(* The guest does not run on when it should have stopped: it goes over no  *)
(* breakpoint but the one it was resumed at, does not leave its range and  *)
(* makes one single step.                                                  *)
NoStopMissed ==
  stub = "Running" /\ ran > 0 =>
    /\ pc \notin breakpoints
    /\ exec_mode # Step
    /\ exec_mode.kind = "RangeStep" =>
         pc \in exec_mode.start .. exec_mode.end - 1

EndsAt(exit) == exit = IF pc \in DOMAIN Code THEN Code[pc].exit ELSE "Err"

(* An access of the last step overlaps the area, or ends right before it,  *)
(* which check_watchpoints takes for touching it (see WatchReportsTouch);  *)
(* an area of no bytes is reached where it begins.                         *)
Reaches(entry, access) ==
  \/ Overlaps(entry, access)
  \/ entry.addr \in access.addr + 1 .. access.addr + access.len

WatchIsTrue(trigger) ==
  /\ pc \in Code[stepped].next
  /\ \E i \in DOMAIN AccessesAt(stepped), j \in DOMAIN hw_watchpoints :
       LET access == AccessesAt(stepped)[i]
       IN  /\ Listens(hw_watchpoints[j], access) /\ Reaches(hw_watchpoints[j], access)
           /\ trigger = [kind |-> hw_watchpoints[j].kind, addr |-> access.addr]

(* The stop that GDB is told of is what happened to the guest since GDB    *)
(* resumed it in the mode asked: a watchpoint by what the last step        *)
(* accessed, with the address and the kind told, an interrupt by a 0x03 of *)
(* its own, the others by where the guest stands.                          *)
StopIsTrue(stop) ==
  /\ ran = 0 => stop.why = "SIGINT"
  /\ asked = Step => ran <= 1
  /\ stop.why = "SIGINT" => unanswered > 0 /\ (asked # Step \/ ran = 0)
  /\ stop.why = "Watch" => WatchIsTrue(stop.trigger)
  /\ stop.why = "SwBreak" => pc \in breakpoints \/ EndsAt("Paused")
  /\ stop.why = "DoneStep" =>
       \/ asked = Step /\ pc \notin breakpoints
       \/ asked.kind = "RangeStep" /\ pc \notin asked.start .. asked.end - 1
  /\ stop.why = "Exited" => EndsAt("Halted")
  /\ stop.why = "Terminated" => EndsAt("Err")

StopReasonTruthful ==
  client = "running" => \A i \in DOMAIN outbox : StopIsTrue(outbox[i])

(* A step of the running guest that goes through and touches watched       *)
(* memory in the way the watchpoint listens to is reported as that, even   *)
(* where it also ends a step or a range or meets a breakpoint.             *)
Noticed == \E i \in DOMAIN Accesses, j \in DOMAIN hw_watchpoints :
             /\ Listens(hw_watchpoints[j], Accesses[i])
             /\ Overlaps(hw_watchpoints[j], Accesses[i])

NoWatchMissed ==
  [][Advance /\ pc' # pc /\ Noticed =>
       /\ stub' # "Running"
       /\ outbox' # outbox => Last(outbox').why = "Watch"]_vars

(* A 0x03 byte waits for at most the guest steps between two polls.        *)
InterruptLatency == overdue <= Poll

(* Ctrl-C stops a guest that would run forever.                            *)
InterruptAnswered ==
  (client = "running" /\ \E i \in DOMAIN inbox : inbox[i] = CtrlC)
    ~> (client # "running")

(* A connection that is closed ends the session: also a guest that would   *)
(* run forever is stopped by the poll that meets the error, and no run to  *)
(* completion follows.                                                     *)
LostConnectionEnds ==
  (\E i \in DOMAIN inbox : inbox[i] = EndOfStream)
    ~> (stub = "Over" /\ outcome # "completed")

(* After a detach the guest runs to its end: watchpoints and breakpoints   *)
(* that GDB has left behind do not stop it.                                *)
CompletionRunsToTheEnd ==
  outcome = "completed" => \E e \in {"Halted", "Paused", "Err"} : EndsAt(e)

(* Not so.  src/vm/mod.rs says of ExitCode::Paused that the session "can   *)
(* be resumed at a later time", but ecall_halt leaves the pc at the ecall, *)
(* and the resumed guest pauses there again.                               *)
PausedSessionResumes == [][Advance /\ StepExit = "Paused" => pc' # pc]_vars

(* Not so.  README.md has GDB alarmed "when certain memory area is being   *)
(* read or written", but an access that ends right before the area also    *)
(* alarms it.                                                              *)
WatchReportsTouch ==
  [][Advance /\ outbox' # outbox /\ Last(outbox').why = "Watch" => Noticed]_vars
=============================================================================
