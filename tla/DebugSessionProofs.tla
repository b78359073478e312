------------------------- MODULE DebugSessionProofs -------------------------
(***************************************************************************)
(* Proofs about DebugSession, for every guest, every set of breakpoints,   *)
(* watchpoints and ranges, and every polling period.                       *)
(***************************************************************************)
EXTENDS DebugSession, BasicFacts, FiniteSetTheorems

-----------------------------------------------------------------------------
(* The trigger that a step reports, if any, is of a watchpoint that is set *)
(* and meets an access of the step, at whose address it is.                *)
LEMMA TriggerFacts ==
  ASSUME NEW watchpoints \in Seq(WatchEntry), NEW accesses \in Seq(Access),
         WatchTrigger(watchpoints, accesses) # NoTrigger
  PROVE  /\ WatchTrigger(watchpoints, accesses) \in [kind : WatchKind, addr : Nat]
         /\ \E i \in DOMAIN accesses, j \in DOMAIN watchpoints :
              /\ Listens(watchpoints[j], accesses[i])
              /\ Meets(watchpoints[j], accesses[i])
              /\ WatchTrigger(watchpoints, accesses)
                   = [kind |-> watchpoints[j].kind, addr |-> accesses[i].addr]
<1> DEFINE noticed ==
      {n \in (DOMAIN accesses) \X (DOMAIN watchpoints) :
         /\ Listens(watchpoints[n[2]], accesses[n[1]])
         /\ Meets(watchpoints[n[2]], accesses[n[1]])}
    first == CHOOSE f \in noticed :
               \A n \in noticed : \/ f[1] < n[1]
                                  \/ f[1] = n[1] /\ f[2] <= n[2]
<1>1. /\ noticed # {}
      /\ WatchTrigger(watchpoints, accesses)
           = [kind |-> watchpoints[first[2]].kind, addr |-> accesses[first[1]].addr]
  BY DEF WatchTrigger
<1>2. \A n \in noticed : /\ n[1] \in DOMAIN accesses /\ n[2] \in DOMAIN watchpoints
                         /\ n = <<n[1], n[2]>>
                         /\ Listens(watchpoints[n[2]], accesses[n[1]])
                         /\ Meets(watchpoints[n[2]], accesses[n[1]])
  OBVIOUS
<1>3. DOMAIN accesses = 1 .. Len(accesses) /\ DOMAIN watchpoints = 1 .. Len(watchpoints)
  OBVIOUS
<1> HIDE DEF noticed
<1>4. noticed \in SUBSET (Nat \X Nat)
  BY <1>2, <1>3
<1>5. PICK f \in noticed : \A n \in noticed : f[1] < n[1] \/ (f[1] = n[1] /\ f[2] <= n[2])
  BY <1>1, <1>4, LeastPair
<1>6. first \in noticed
  BY <1>5
<1> HIDE DEF first
<1>7. watchpoints[first[2]] \in WatchEntry /\ accesses[first[1]] \in Access
  BY <1>2, <1>3, <1>6
<1>8. WatchTrigger(watchpoints, accesses) \in [kind : WatchKind, addr : Nat]
  BY <1>1, <1>7 DEF WatchEntry, Access
<1>9. QED BY <1>1, <1>2, <1>6, <1>8

-----------------------------------------------------------------------------
(* Types.                                                                  *)

Message == Query \cup Resume \cup Leave \cup {CtrlC, EndOfStream}
Reply == {Ok} \cup {Stop(why) : why \in StopReason}
           \cup [why : {"Watch"}, trigger : [kind : WatchKind, addr : Nat]]

(* What a packet asks for can be told from its op.                         *)
LEMMA MessageFacts ==
  ASSUME NEW m \in Message
  PROVE  /\ m.op = "resume" => m \in Resume /\ m.mode \in ResumeMode
         /\ m.op \in {"add_sw_breakpoint", "remove_sw_breakpoint"}
              => m.addr \in BreakAddr
         /\ m.op \in {"add_hw_watchpoint", "remove_hw_watchpoint"}
              => m.watch \in WatchArea
         /\ m.op = "write_pc" => m.val \in PcValue
         /\ m.op = "0x03" <=> m = CtrlC
         /\ m.op = "closed" <=> m = EndOfStream
<1>1. CASE m \in Query
  BY <1>1 DEF Query, CtrlC, EndOfStream
<1>2. CASE m \in Resume
  <2>1. {Step, Continue} \subseteq ResumeMode
    BY DEF ResumeMode
  <2>2. m.op = "resume" /\ m.mode \in ResumeMode
    BY <1>2, <2>1 DEF Resume
  <2>3. QED BY <1>2, <2>2 DEF CtrlC, EndOfStream
<1>3. CASE m \in Leave
  BY <1>3 DEF Leave, CtrlC, EndOfStream
<1>4. CASE m \in {CtrlC, EndOfStream}
  BY <1>4 DEF CtrlC, EndOfStream
<1>5. QED BY <1>1, <1>2, <1>3, <1>4 DEF Message

(* A step of the guest leads to an address, and its trigger can be told to *)
(* GDB.                                                                    *)
LEMMA StepFacts ==
  ASSUME pc \in Nat, hw_watchpoints \in Seq(WatchArea)
  PROVE  /\ StepPc \subseteq Nat
         /\ StepExit \in {"none", "HwWatchPoint", "Err", "Halted", "Paused"}
         /\ StepExit = "HwWatchPoint"
              => Trigger \in [kind : WatchKind, addr : Nat]
         /\ StepExit = "HwWatchPoint" => pc \in DOMAIN Code
         /\ StepExit \in {"Err", "Halted", "Paused"} =>
              EndsAt(StepExit) /\ StepPc = {pc}
<1>1. CASE pc \notin DOMAIN Code
  BY <1>1 DEF StepExit, StepPc, EndsAt
<1>2. CASE pc \in DOMAIN Code
  <2>1. /\ Code[pc].ecall \in BOOLEAN /\ Code[pc].next \in SUBSET Nat
        /\ Code[pc].exit \in {"none", "Paused", "Halted", "Err"}
        /\ Code[pc].touch \in Seq(Access)
    BY <1>2, SessionAssumption DEF Instruction
  <2>2. /\ StepPc \subseteq Nat
        /\ StepExit \in {"none", "HwWatchPoint", "Err", "Halted", "Paused"}
        /\ StepExit = "HwWatchPoint" => Trigger # NoTrigger
        /\ StepExit \in {"Err", "Halted", "Paused"} =>
             EndsAt(StepExit) /\ StepPc = {pc}
    BY <1>2, <2>1 DEF StepExit, StepPc, EndsAt
  <2>3. Accesses \in Seq(Access)
    <3>1. [addr |-> pc, len |-> 4, write |-> FALSE] \in Access
      BY DEF Access
    <3>2. QED BY <2>1, <3>1 DEF Accesses, AccessesAt
  <2>4. hw_watchpoints \in Seq(WatchEntry)
    BY SessionAssumption
  <2>5. Trigger # NoTrigger => Trigger \in [kind : WatchKind, addr : Nat]
    BY <2>3, <2>4, TriggerFacts DEF Trigger
  <2>6. QED BY <1>2, <2>2, <2>5
<1>3. QED BY <1>1, <1>2

StubState == {"Idle", "Running", "Completing", "Over"}
Outcome == {"none", "killed", "target error", "connection error", "Exited",
            "Terminated", "completed"}

(* A handler called by gdbstub sees a packet of the kind it serves.        *)
LEMMA ServeFacts ==
  ASSUME TypeOK, NEW op, Serve(op)
  PROVE  /\ stub = "Idle" /\ inbox # <<>>
         /\ Head(inbox) \in Message /\ Head(inbox).op = op
         /\ inbox' = Tail(inbox) /\ inbox' \in Seq(Message)
<1>1. inbox \in Seq(Message) /\ inbox # <<>>
  BY DEF TypeOK, Message, Serve
<1>2. QED BY <1>1 DEF Serve

(* A packet to GDB is a reply, whether it arrives or not.                  *)
LEMMA TellFacts ==
  ASSUME TypeOK, NEW reply \in Reply, NEW next \in StubState,
         NEW end \in Outcome, Tell(reply, next, end)
  PROVE  outbox' \in Seq(Reply) /\ stub' \in StubState /\ outcome' \in Outcome
<1>1. outbox \in Seq(Reply)
  BY DEF TypeOK, Reply
<1>2. Append(outbox, reply) \in Seq(Reply)
  BY <1>1
<1>3. "Over" \in StubState /\ "connection error" \in Outcome
  BY DEF StubState, Outcome
<1>4. QED BY <1>1, <1>2, <1>3 DEF Tell

(* The replies of the handlers.                                            *)
LEMMA ReplyFacts ==
  /\ Ok \in Reply
  /\ \A why \in StopReason : Stop(why) \in Reply
  /\ \A t \in [kind : WatchKind, addr : Nat] : WatchStop(t) \in Reply
BY DEF Reply, WatchStop

(* The session starts well-typed: stopped at the entry point.              *)
LEMMA InitType == Init => TypeOK
<1> SUFFICES ASSUME Init PROVE TypeOK
  OBVIOUS
<1>1. Poll \in Nat \ {0} /\ Entry \in Nat
  BY SessionAssumption
<1>2. Continue \in ResumeMode
  BY DEF ResumeMode
<1>3. /\ pc \in Nat /\ ran \in 0 .. 2 /\ cycles \in 0 .. Poll - 1 /\ overdue \in Nat
      /\ stepped \in Nat /\ unanswered \in 0 .. MaxUnanswered
      /\ inbox \in Seq(Message) /\ outbox \in Seq(Reply)
      /\ hw_watchpoints \in Seq(WatchArea)
  BY <1>1, SessionAssumption DEF Init, MaxUnanswered
<1>4. polled \in BOOLEAN /\ deferred \in BOOLEAN
  BY DEF Init
<1>5. QED BY <1>2, <1>3, <1>4 DEF Init, TypeOK, Message, Reply

(* What GDB does touches the connection and its own state.                 *)
LEMMA ClientType ==
  ASSUME TypeOK, ClientStep
  PROVE  TypeOK'
<1>1. /\ inbox \in Seq(Message) /\ outbox \in Seq(Reply)
      /\ client \in {"prompt", "waiting", "running", "gone"} /\ asked \in ResumeMode
      /\ unanswered \in 0 .. MaxUnanswered
  BY DEF TypeOK, Message, Reply
<1>0. MaxUnanswered \in Nat
  BY SessionAssumption DEF MaxUnanswered
<1>2. /\ inbox' \in Seq(Message) /\ outbox' \in Seq(Reply)
      /\ client' \in {"prompt", "waiting", "running", "gone"}
      /\ asked' \in ResumeMode /\ unanswered' \in 0 .. MaxUnanswered
      /\ UNCHANGED <<guest, target, loop, stub, deferred, outcome>>
  <2>1. CASE AskQuery
    BY <1>1, <2>1 DEF AskQuery, Send, ClientOnly, Message
  <2>2. CASE AskResume
    <3>1. PICK r \in Resume : Send(r) /\ asked' = r.mode
      BY <2>2 DEF AskResume
    <3>2. r \in Message /\ r.op = "resume"
      BY DEF Message, Resume
    <3>3. r.mode \in ResumeMode
      BY <3>2, MessageFacts
    <3>4. QED BY <1>1, <2>2, <3>1, <3>2, <3>3 DEF AskResume, Send, ClientOnly
  <2>3. CASE AskLeave
    BY <1>1, <2>3 DEF AskLeave, Send, ClientOnly, Message
  <2>4. CASE PressCtrlC
    BY <1>0, <1>1, <2>4 DEF PressCtrlC, Send, ClientOnly, Message, gdb
  <2>5. CASE CloseConnection
    BY <1>1, <2>5 DEF CloseConnection, Send, ClientOnly, Message
  <2>6. CASE Receive
    BY <1>0, <1>1, <2>6 DEF Receive
  <2>7. CASE LoseConnection
    BY <1>1, <2>7 DEF LoseConnection
  <2>8. QED BY <2>1, <2>2, <2>3, <2>4, <2>5, <2>6, <2>7 DEF ClientStep
<1>3. QED BY <1>2 DEF TypeOK, guest, target, loop, Message, Reply

(* A request that is answered OK leaves all but what it sets.              *)
LEMMA AnswerType ==
  ASSUME TypeOK, NEW op, Serve(op), Answer,
         pc' \in Nat, breakpoints' \subseteq BreakAddr,
         hw_watchpoints' \in Seq(WatchArea)
  PROVE  TypeOK'
<1>1. inbox' \in Seq(Message)
  BY ServeFacts
<1>2. outbox' \in Seq(Reply) /\ stub' \in StubState /\ outcome' \in Outcome
  <2>1. Ok \in Reply /\ "Idle" \in StubState /\ outcome \in Outcome
    BY ReplyFacts DEF TypeOK, StubState, Outcome
  <2>2. Tell(Ok, "Idle", outcome)
    BY DEF Answer
  <2>3. QED BY <2>1, <2>2, TellFacts
<1>3. QED BY <1>1, <1>2 DEF Answer, TypeOK, Message, Reply, StubState, Outcome,
                            loop, gdb

(* The handlers that gdbstub calls while the guest is stopped.             *)
LEMMA QueryType ==
  ASSUME TypeOK,
         \/ AddSwBreakpoint \/ RemoveSwBreakpoint \/ AddHwWatchpoint
         \/ RemoveHwWatchpoint \/ WritePc
  PROVE  TypeOK'
<1>0. /\ pc \in Nat /\ breakpoints \subseteq BreakAddr
      /\ hw_watchpoints \in Seq(WatchArea)
  BY DEF TypeOK
<1>1. CASE AddSwBreakpoint
  <2>1. Serve("add_sw_breakpoint") /\ Answer
    BY <1>1 DEF AddSwBreakpoint
  <2>2. Head(inbox).addr \in BreakAddr
    BY <2>1, ServeFacts, MessageFacts
  <2>3. QED BY <1>0, <1>1, <2>1, <2>2, AnswerType DEF AddSwBreakpoint
<1>2. CASE RemoveSwBreakpoint
  BY <1>0, <1>2, AnswerType DEF RemoveSwBreakpoint
<1>3. CASE AddHwWatchpoint
  <2>1. Serve("add_hw_watchpoint") /\ Answer
    BY <1>3 DEF AddHwWatchpoint
  <2>2. Head(inbox).watch \in WatchArea
    BY <2>1, ServeFacts, MessageFacts
  <2>3. hw_watchpoints' \in Seq(WatchArea)
    BY <1>0, <1>3, <2>2 DEF AddHwWatchpoint
  <2>4. QED BY <1>0, <1>3, <2>1, <2>3, AnswerType DEF AddHwWatchpoint
<1>4. CASE RemoveHwWatchpoint
  <2>1. hw_watchpoints' \in Seq(WatchArea)
    BY <1>0, <1>4, RemoveFirstType DEF RemoveHwWatchpoint
  <2>2. QED BY <1>0, <1>4, <2>1, AnswerType DEF RemoveHwWatchpoint
<1>5. CASE WritePc
  <2>1. Serve("write_pc") /\ Answer
    BY <1>5 DEF WritePc
  <2>2. Head(inbox).val \in Nat
    BY <2>1, ServeFacts, MessageFacts, SessionAssumption
  <2>3. QED BY <1>0, <1>5, <2>1, <2>2, AnswerType DEF WritePc
<1>6. QED BY <1>1, <1>2, <1>3, <1>4, <1>5

(* A Ctrl-C, a resume or the end of the session met by a stopped guest.    *)
LEMMA RequestType ==
  ASSUME TypeOK,
         \/ OnInterruptIdle \/ RefuseSignal \/ ResumeGuest \/ ReportDeferred
         \/ Detach \/ Kill \/ ReadFails
  PROVE  TypeOK'
<1> USE DEF Message, Reply, StubState, Outcome, guest, target, loop, gdb
<1>1. CASE OnInterruptIdle
  <2>1. inbox' \in Seq(Message)
    BY <1>1, ServeFacts DEF OnInterruptIdle
  <2>2. deferred' \in BOOLEAN
    BY <1>1 DEF OnInterruptIdle
  <2>3. QED BY <1>1, <2>1, <2>2 DEF OnInterruptIdle, TypeOK
<1>2. CASE RefuseSignal
  <2>1. inbox' \in Seq(Message)
    BY <1>2, ServeFacts DEF RefuseSignal
  <2>2. QED BY <1>2, <2>1 DEF RefuseSignal, TypeOK
<1>3. ASSUME SetExecMode
      PROVE  /\ inbox' \in Seq(Message) /\ exec_mode' \in ResumeMode
             /\ ran' \in 0 .. 2
             /\ UNCHANGED <<pc, stepped, breakpoints, hw_watchpoints, gdb>>
  BY <1>3, ServeFacts, MessageFacts DEF SetExecMode
<1>4. CASE ResumeGuest
  <2>1. cycles' \in 0 .. Poll - 1 /\ overdue' \in Nat
    BY <1>4, SessionAssumption DEF ResumeGuest
  <2>2. polled' \in BOOLEAN
    BY <1>4 DEF ResumeGuest
  <2>3. QED BY <1>3, <1>4, <2>1, <2>2 DEF ResumeGuest, TypeOK
<1>5. CASE ReportDeferred
  <2>1. outbox' \in Seq(Reply) /\ stub' \in StubState /\ outcome' \in Outcome
    <3>1. Stop("SIGINT") \in Reply /\ "Idle" \in StubState /\ outcome \in Outcome
      BY ReplyFacts DEF TypeOK, StopReason
    <3>2. Tell(Stop("SIGINT"), "Idle", outcome)
      BY <1>5 DEF ReportDeferred
    <3>3. QED BY <3>1, <3>2, TellFacts
  <2>2. deferred' \in BOOLEAN
    BY <1>5 DEF ReportDeferred
  <2>3. QED BY <1>3, <1>5, <2>1, <2>2 DEF ReportDeferred, TypeOK
<1>6. CASE Detach
  <2>1. inbox' \in Seq(Message)
    BY <1>6, ServeFacts DEF Detach
  <2>2. outbox' \in Seq(Reply) /\ stub' \in StubState /\ outcome' \in Outcome
    <3>1. Ok \in Reply /\ "Completing" \in StubState /\ outcome \in Outcome
      BY ReplyFacts DEF TypeOK
    <3>2. Tell(Ok, "Completing", outcome)
      BY <1>6 DEF Detach
    <3>3. QED BY <3>1, <3>2, TellFacts
  <2>3. QED BY <1>6, <2>1, <2>2 DEF Detach, TypeOK
<1>7. CASE Kill
  <2>1. inbox' \in Seq(Message)
    BY <1>7, ServeFacts DEF Kill
  <2>2. QED BY <1>7, <2>1 DEF Kill, TypeOK
<1>8. CASE ReadFails
  <2>1. inbox' \in Seq(Message)
    <3>1. inbox \in Seq(Message) /\ inbox # <<>> /\ inbox' = Tail(inbox)
      BY <1>8 DEF ReadFails, TypeOK
    <3> HIDE DEF Message
    <3>2. QED BY <3>1
  <2>2. QED BY <1>8, <2>1 DEF ReadFails, TypeOK
<1>9. QED BY <1>1, <1>2, <1>4, <1>5, <1>6, <1>7, <1>8

(* Why the loop stops, if it does; a watchpoint is told with a trigger.    *)
LEMMA StopAtFacts ==
  ASSUME TypeOK, NEW next, StopAt(next) # "none"
  PROVE  \/ StopAt(next) \in StopReason
         \/ StopAt(next) = "Watch" /\ StepExit = "HwWatchPoint"
<1>1. StepExit \in {"none", "HwWatchPoint", "Err", "Halted", "Paused"}
  BY StepFacts DEF TypeOK
<1>2. CASE StepExit = "HwWatchPoint"
  BY <1>2 DEF StopAt, StopOfExit, StopReason
<1>3. CASE StepExit \in {"Err", "Halted", "Paused"}
  BY <1>3 DEF StopAt, StopOfExit, StopReason
<1>4. CASE StepExit = "none"
  BY <1>4 DEF StopAt, StopReason
<1>5. QED BY <1>1, <1>2, <1>3, <1>4

(* The loop of wait_for_stop_reason.                                       *)
LEMMA LoopType ==
  ASSUME TypeOK, LoopStep
  PROVE  TypeOK'
<1> USE DEF guest, target, loop, gdb
<1>1. Poll \in Nat \ {0} /\ Poll - 1 \in Nat
  BY SessionAssumption
<1>2. ASSUME LeaveLoop PROVE cycles' \in 0 .. Poll - 1 /\ overdue' \in Nat
  BY <1>1, <1>2 DEF LeaveLoop
<1>3. ASSUME LeaveLoop PROVE polled' \in BOOLEAN
  BY <1>3 DEF LeaveLoop
<1>4. CASE OnInterruptRunning
  <2>1. inbox' \in Seq(Message)
    <3>1. inbox \in Seq(Message) /\ inbox # <<>> /\ inbox' = Tail(inbox)
      BY <1>4 DEF OnInterruptRunning, TypeOK, Message
    <3>2. QED BY <3>1
  <2>2. outbox' \in Seq(Reply) /\ stub' \in StubState /\ outcome' \in Outcome
    <3>1. Stop("SIGINT") \in Reply /\ "Idle" \in StubState /\ outcome \in Outcome
      BY ReplyFacts DEF TypeOK, StopReason, StubState, Outcome
    <3>2. Tell(Stop("SIGINT"), "Idle", outcome)
      BY <1>4 DEF OnInterruptRunning
    <3>3. QED BY <3>1, <3>2, TellFacts
  <2>3. exec_mode' = Interrupted /\ LeaveLoop
    BY <1>4 DEF OnInterruptRunning
  <2>4. QED BY <1>2, <1>3, <1>4, <2>1, <2>2, <2>3
            DEF OnInterruptRunning, TypeOK, Message, Reply, StubState, Outcome
<1>5. CASE PollNothing
  <2>1. polled' \in BOOLEAN
    BY <1>5 DEF PollNothing
  <2>2. QED BY <1>5, <2>1 DEF PollNothing, TypeOK
<1>6. ASSUME Advance
      PROVE  pc' \in Nat /\ ran' \in 0 .. 2
    <2>1. pc \in Nat /\ StepPc \subseteq Nat
      BY StepFacts DEF TypeOK
    <2>2. ran' \in 0 .. 2
      <3>1. ran \in 0 .. 2
        BY DEF TypeOK
      <3>2. ran' = IF ran < 2 THEN ran + 1 ELSE ran
        BY <1>6 DEF Advance
      <3>3. QED BY <3>1, <3>2
    <2>3. QED BY <1>6, <2>1, <2>2 DEF Advance
<1>7. CASE RunOn
  <2>1. Advance /\ pc' \in Nat /\ ran' \in 0 .. 2
    BY <1>6, <1>7 DEF RunOn
  <2>2. cycles' \in 0 .. Poll - 1
    <3>1. cycles \in 0 .. Poll - 1
      BY DEF TypeOK
    <3>2. cycles' = (cycles + 1) % Poll
      BY <1>7 DEF RunOn
    <3>3. QED BY <1>1, <3>1, <3>2
  <2>3. overdue' \in Nat
    <3>1. overdue \in Nat
      BY DEF TypeOK
    <3>2. overdue' \in {overdue + 1, 0}
      BY <1>7 DEF RunOn
    <3>3. QED BY <3>1, <3>2
  <2>4. polled' \in BOOLEAN
    BY <1>7 DEF RunOn
  <2>5. QED BY <1>7, <2>1, <2>2, <2>3, <2>4 DEF RunOn, Advance, TypeOK
<1>8. CASE StopGuest
  <2>1. Advance /\ LeaveLoop
    BY <1>8 DEF StopGuest
  <2> DEFINE why == StopAt(pc')
             reply == IF why = "Watch" THEN WatchStop(Trigger) ELSE Stop(why)
             next == IF why \in {"Exited", "Terminated"} THEN "Over" ELSE "Idle"
             end == IF why \in {"Exited", "Terminated"} THEN why ELSE outcome
  <2>2. why # "none" /\ Tell(reply, next, end)
    BY <1>8 DEF StopGuest
  <2>3. why \in StopReason \/ (why = "Watch" /\ StepExit = "HwWatchPoint")
    BY <2>2, StopAtFacts
  <2>4. reply \in Reply
    <3>1. StepExit = "HwWatchPoint" => Trigger \in [kind : WatchKind, addr : Nat]
      BY StepFacts DEF TypeOK
    <3>2. "Watch" \notin StopReason
      BY DEF StopReason
    <3>3. QED BY <2>3, <3>1, <3>2, ReplyFacts
  <2>5. next \in StubState /\ end \in Outcome
    BY DEF StubState, Outcome, TypeOK
  <2> HIDE DEF why, reply, next, end
  <2>6. outbox' \in Seq(Reply) /\ stub' \in StubState /\ outcome' \in Outcome
    BY <2>2, <2>4, <2>5, TellFacts
  <2>7. QED BY <1>2, <1>3, <1>6, <2>1, <2>6
            DEF Advance, TypeOK, Message, Reply, StubState, Outcome
<1>9. QED BY <1>4, <1>5, <1>7, <1>8 DEF LoopStep

(* Every step keeps the types.                                             *)
LEMMA TypeStep == TypeOK /\ [Next]_vars => TypeOK'
<1> SUFFICES ASSUME TypeOK, [Next]_vars PROVE TypeOK'
  OBVIOUS
<1>1. CASE StubStep
  BY <1>1, QueryType, RequestType DEF StubStep
<1>2. CASE RunToCompletion
  <2>1. pc' \in Nat
    BY <1>2, StepFacts DEF RunToCompletion, TypeOK
  <2>2. stub' \in StubState /\ outcome' \in Outcome
    BY <1>2 DEF RunToCompletion, TypeOK, StubState, Outcome
  <2>3. QED BY <1>2, <2>1, <2>2
            DEF RunToCompletion, TypeOK, StubState, Outcome, target, loop, gdb
<1>3. CASE UNCHANGED vars
  BY <1>3 DEF vars, guest, target, loop, gdb, TypeOK
<1>4. QED BY <1>1, <1>2, <1>3, ClientType, LoopType DEF Next, Finished

(* pc, modes, queues and states of the session keep their types.           *)
THEOREM TypeCorrect == Spec => []TypeOK
BY InitType, TypeStep, PTL DEF Spec

-----------------------------------------------------------------------------
(* The run loop.                                                           *)

(* Which steps run the guest under the loop: what else happens while it    *)
(* runs leaves it, the modes and the breakpoints alone; the loop is        *)
(* entered by a resume.                                                    *)
LEMMA RunningFacts ==
  ASSUME [Next]_vars, stub' = "Running"
  PROVE  \/ ResumeGuest
         \/ RunOn /\ stub = "Running"
         \/ PollNothing /\ stub = "Running"
         \/ /\ stub = "Running"
            /\ UNCHANGED <<guest, target, loop>>
            /\ inbox' = inbox \/ \E m : Send(m)
<1>1. CASE ClientStep
  BY <1>1 DEF ClientStep, AskQuery, AskResume, AskLeave, PressCtrlC,
              CloseConnection, Receive, LoseConnection, ClientOnly
<1>2. CASE StubStep
  BY <1>2 DEF StubStep, AddSwBreakpoint, RemoveSwBreakpoint, AddHwWatchpoint,
              RemoveHwWatchpoint, WritePc, OnInterruptIdle, RefuseSignal,
              ReportDeferred, Detach, Kill, ReadFails, Serve, Answer, Tell
<1>3. CASE LoopStep
  <2>1. ~ OnInterruptRunning
    BY DEF OnInterruptRunning, Tell
  <2>2. ~ StopGuest
    BY DEF StopGuest, Tell
  <2>3. QED BY <1>3, <2>1, <2>2 DEF LoopStep, PollNothing, RunOn, Advance
<1>4. CASE RunToCompletion
  BY <1>4 DEF RunToCompletion
<1>5. CASE UNCHANGED vars
  BY <1>5 DEF vars
<1>6. QED BY <1>1, <1>2, <1>3, <1>4, <1>5 DEF Next, Finished

(* Whatever the guest and wherever the breakpoints are, the loop goes over *)
(* no breakpoint, out of no range and on after no single step.             *)
THEOREM StopsWhenItShould == Spec => []NoStopMissed
<1>1. Init => NoStopMissed
  BY DEF Init, NoStopMissed
<1>2. TypeOK /\ NoStopMissed /\ [Next]_vars => NoStopMissed'
  <2> SUFFICES ASSUME TypeOK, NoStopMissed, [Next]_vars, stub' = "Running", ran' > 0
               PROVE  /\ pc' \notin breakpoints'
                      /\ exec_mode' # Step
                      /\ exec_mode'.kind = "RangeStep" =>
                           pc' \in exec_mode'.start .. exec_mode'.end - 1
    BY DEF NoStopMissed
  <2>1. CASE RunOn
    <3>1. StopAt(pc') = "none" /\ UNCHANGED target
      BY <2>1 DEF RunOn, Advance
    <3>2. StepExit \in {"none", "HwWatchPoint", "Err", "Halted", "Paused"}
      BY StepFacts DEF TypeOK
    <3>3. StepExit = "none"
      BY <3>1, <3>2 DEF StopAt, StopOfExit
    <3>4. QED BY <3>1, <3>3 DEF StopAt, target
  <2>2. CASE ~RunOn
    <3>1. ~ResumeGuest
      BY DEF ResumeGuest, SetExecMode
    <3>2. stub = "Running" /\ UNCHANGED <<guest, target>>
      BY <2>2, <3>1, RunningFacts DEF PollNothing
    <3>3. QED BY <3>2 DEF NoStopMissed, guest, target
  <2>3. QED BY <2>1, <2>2
<1>3. QED BY <1>1, <1>2, TypeCorrect, PTL DEF Spec

-----------------------------------------------------------------------------
(* Polling.                                                                *)

CtrlCWaits == \E i \in DOMAIN inbox : inbox[i] = CtrlC

(* While the guest runs, a 0x03 that has been overtaken by guest steps     *)
(* still waits, and the steps are those made since the last poll.          *)
LatencyInv ==
  /\ overdue <= Poll
  /\ stub = "Running" =>
       /\ overdue > 0 => CtrlCWaits
       /\ ~PollDue => overdue <= cycles

(* A step of the loop keeps LatencyInv.                                    *)
LEMMA RunOnLatency ==
  ASSUME TypeOK, LatencyInv, RunOn
  PROVE  LatencyInv'
<1>1. stub = "Running" /\ ~PollDue /\ ~polled' /\ UNCHANGED inbox
  BY DEF RunOn, Advance
<1>2. overdue <= cycles
  BY <1>1 DEF LatencyInv
<1>3. overdue \in Nat /\ cycles \in 0 .. Poll - 1 /\ Poll \in Nat \ {0}
  BY SessionAssumption DEF TypeOK
<1>4. /\ (overdue' = overdue + 1 /\ CtrlCWaits') \/ overdue' = 0
      /\ cycles' = (cycles + 1) % Poll
  BY <1>1 DEF RunOn, CtrlCWaits
<1>5. overdue' <= Poll /\ (overdue' > 0 => CtrlCWaits')
  <2>1. overdue' <= Poll
    BY <1>2, <1>3, <1>4
  <2>2. overdue' > 0 => CtrlCWaits'
    BY <1>3, <1>4
  <2>3. QED BY <2>1, <2>2
<1>6. cycles' # 0 => cycles' = cycles + 1
  BY <1>3, <1>4
<1>7. cycles' # 0 => overdue' <= cycles'
  BY <1>2, <1>3, <1>4, <1>6
<1>8. PollDue' <=> cycles' = 0
  BY <1>1 DEF PollDue
<1>9. QED BY <1>5, <1>7, <1>8 DEF LatencyInv

(* Whatever the period, a 0x03 waits for at most a period of guest steps.  *)
THEOREM InterruptIsPrompt == Spec => []InterruptLatency
<1>1. Init => LatencyInv
  BY SessionAssumption DEF Init, LatencyInv
<1>2. TypeOK /\ LatencyInv /\ [Next]_vars => LatencyInv'
  <2> SUFFICES ASSUME TypeOK, LatencyInv, [Next]_vars PROVE LatencyInv'
    OBVIOUS
  <2>0. overdue \in Nat /\ Poll \in Nat \ {0} /\ overdue <= Poll
    BY SessionAssumption DEF TypeOK, LatencyInv
  <2>1. CASE stub' = "Running"
    <3>1. CASE ResumeGuest
      <4>1. overdue' = 0 /\ cycles' = 0 /\ ~polled'
        BY <3>1 DEF ResumeGuest
      <4>2. PollDue'
        BY <4>1 DEF PollDue
      <4>3. QED BY <2>0, <4>1, <4>2 DEF LatencyInv
    <3>2. CASE PollNothing /\ stub = "Running"
      <4>1. ~CtrlCWaits /\ UNCHANGED <<overdue, cycles>>
        BY <3>2 DEF PollNothing, CtrlCWaits
      <4>2. overdue = 0
        BY <2>0, <3>2, <4>1 DEF LatencyInv
      <4>3. cycles \in Nat
        <5>1. cycles \in 0 .. Poll - 1
          BY DEF TypeOK
        <5>2. QED BY <2>0, <5>1
      <4>4. QED BY <2>0, <4>1, <4>2, <4>3 DEF LatencyInv
    <3>3. CASE /\ stub = "Running"
               /\ UNCHANGED <<guest, target, loop>>
               /\ inbox' = inbox \/ \E m : Send(m)
      <4>1. inbox \in Seq(Message)
        BY DEF TypeOK, Message
      <4>2. CtrlCWaits => CtrlCWaits'
        BY <3>3, <4>1 DEF Send, CtrlCWaits
      <4>3. QED BY <3>3, <4>2 DEF LatencyInv, loop, PollDue
    <3>4. QED BY <2>1, <3>1, <3>2, <3>3, RunOnLatency, RunningFacts
  <2>2. CASE stub' # "Running"
    <3>1. overdue' \in {overdue, 0}
      <4>1. CASE ClientStep
        BY <4>1 DEF ClientStep, AskQuery, AskResume, AskLeave, PressCtrlC,
                    CloseConnection, Receive, LoseConnection, ClientOnly, loop
      <4>2. CASE StubStep
        BY <4>2 DEF StubStep, AddSwBreakpoint, RemoveSwBreakpoint,
                    AddHwWatchpoint, RemoveHwWatchpoint, WritePc,
                    OnInterruptIdle, RefuseSignal, ResumeGuest, ReportDeferred,
                    Detach, Kill, ReadFails, Answer, loop
      <4>3. CASE LoopStep
        <5>1. ~RunOn
          BY <2>2 DEF RunOn, Advance
        <5>2. QED BY <4>3, <5>1 DEF LoopStep, OnInterruptRunning, PollNothing,
                                    StopGuest, LeaveLoop
      <4>4. CASE RunToCompletion
        BY <4>4 DEF RunToCompletion, loop
      <4>5. CASE UNCHANGED vars
        BY <4>5 DEF vars, loop
      <4>6. QED BY <4>1, <4>2, <4>3, <4>4, <4>5 DEF Next, Finished
    <3>2. QED BY <2>0, <2>2, <3>1 DEF LatencyInv
  <2>3. QED BY <2>1, <2>2
<1>3. LatencyInv => InterruptLatency
  BY DEF LatencyInv, InterruptLatency
<1>4. QED BY <1>1, <1>2, <1>3, TypeCorrect, PTL DEF Spec

-----------------------------------------------------------------------------
(* The end of the session.                                                 *)

(* A session that has been completed is over.                              *)
CompletionInv == CompletionRunsToTheEnd /\ (outcome = "completed" => stub = "Over")

(* After a detach nothing but the end of the guest ends its run.           *)
THEOREM CompletesAtTheEnd == Spec => []CompletionRunsToTheEnd
<1>1. Init => CompletionInv
  BY DEF Init, CompletionInv, CompletionRunsToTheEnd
<1>2. TypeOK /\ CompletionInv /\ [Next]_vars => CompletionInv'
  <2> SUFFICES ASSUME TypeOK, CompletionInv, [Next]_vars, outcome' = "completed"
               PROVE  /\ \E e \in {"Halted", "Paused", "Err"} : EndsAt(e)'
                      /\ stub' = "Over"
    BY DEF CompletionInv, CompletionRunsToTheEnd
  <2>1. CASE outcome = "completed" /\ stub = "Over"
    <3>1. UNCHANGED <<pc, stub>>
      <4>1. CASE ClientStep
        BY <4>1 DEF ClientStep, AskQuery, AskResume, AskLeave, PressCtrlC,
                    CloseConnection, Receive, LoseConnection, ClientOnly, guest
      <4>2. ~StubStep
        BY <2>1 DEF StubStep, AddSwBreakpoint, RemoveSwBreakpoint,
                    AddHwWatchpoint, RemoveHwWatchpoint, WritePc,
                    OnInterruptIdle, RefuseSignal, ResumeGuest, ReportDeferred,
                    SetExecMode, Detach, Kill, ReadFails, Serve
      <4>3. ~LoopStep /\ ~RunToCompletion
        BY <2>1 DEF LoopStep, OnInterruptRunning, PollNothing, RunOn, StopGuest,
                    Advance, RunToCompletion
      <4>4. CASE UNCHANGED vars
        BY <4>4 DEF vars, guest
      <4>5. QED BY <4>1, <4>2, <4>3, <4>4 DEF Next, Finished
    <3>2. PICK e \in {"Halted", "Paused", "Err"} : EndsAt(e)
      BY <2>1 DEF CompletionInv, CompletionRunsToTheEnd
    <3>3. EndsAt(e)'
      BY <3>1, <3>2 DEF EndsAt
    <3>4. QED BY <2>1, <3>1, <3>3
  <2>2. CASE outcome # "completed"
    <3>1. ~ClientStep /\ ~UNCHANGED vars
      BY <2>2 DEF ClientStep, AskQuery, AskResume, AskLeave, PressCtrlC, vars,
                  CloseConnection, Receive, LoseConnection, ClientOnly
    <3>2. ~StubStep
      BY <2>2 DEF StubStep, AddSwBreakpoint, RemoveSwBreakpoint,
                  AddHwWatchpoint, RemoveHwWatchpoint, WritePc,
                  OnInterruptIdle, RefuseSignal, ResumeGuest, ReportDeferred,
                  Detach, Kill, ReadFails, Answer, Tell
    <3>3. ~LoopStep
      <4>1. ~StopGuest
        BY <2>2 DEF StopGuest, Tell
      <4>2. QED BY <2>2, <4>1 DEF LoopStep, OnInterruptRunning, PollNothing,
                                  RunOn, Tell
    <3>4. RunToCompletion
      BY <3>1, <3>2, <3>3 DEF Next, Finished
    <3>5. /\ StepExit \in {"Err", "Paused", "Halted"} /\ stub' = "Over"
          /\ pc' \in StepPc
      BY <2>2, <3>4 DEF RunToCompletion
    <3>6. EndsAt(StepExit) /\ pc' = pc
      BY <3>5, StepFacts DEF TypeOK
    <3> DEFINE e == StepExit
    <3>7. EndsAt(e) /\ e \in {"Halted", "Paused", "Err"}
      BY <3>5, <3>6
    <3> HIDE DEF e
    <3>8. e = IF pc' \in DOMAIN Code THEN Code[pc'].exit ELSE "Err"
      BY <3>6, <3>7 DEF EndsAt
    <3>9. QED BY <3>5, <3>7, <3>8 DEF EndsAt
  <2>3. QED BY <2>1, <2>2 DEF CompletionInv
<1>3. CompletionInv => CompletionRunsToTheEnd
  BY DEF CompletionInv
<1>4. QED BY <1>1, <1>2, <1>3, TypeCorrect, PTL DEF Spec

-----------------------------------------------------------------------------
(* Watchpoints.                                                            *)

(* watch_start + len does not wrap for what GDB watches.                   *)
AreasEnd == \A w \in WatchArea : w.addr + w.len < AddressSpace

(* The two tests of check_watchpoints find every access that overlaps an   *)
(* area which does not wrap.                                               *)
LEMMA OverlapMeets ==
  ASSUME NEW w \in WatchEntry, NEW a \in Access, Overlaps(w, a),
         w.addr + w.len < AddressSpace
  PROVE  Meets(w, a)
<1>1. /\ w.addr \in Nat /\ w.len \in Nat /\ a.addr \in Nat /\ a.len \in Nat
      /\ AddressSpace \in Nat
  BY SessionAssumption DEF WatchEntry, Access
<1> DEFINE end == w.addr + w.len
<1>2. end \in Nat /\ end < AddressSpace
  BY <1>1
<1>3. end % AddressSpace = end
  <2> HIDE DEF end
  <2>1. QED BY <1>1, <1>2
<1>4. QED BY <1>1, <1>3 DEF Meets, Overlaps

(* A step that touches watched memory in the way listened to has a trigger.*)
LEMMA NoticedTriggers ==
  ASSUME AreasEnd, pc \in Nat, hw_watchpoints \in Seq(WatchArea), pc \in DOMAIN Code,
         Noticed
  PROVE  Trigger # NoTrigger
<1>1. hw_watchpoints \in Seq(WatchEntry)
  BY SessionAssumption
<1>2. Accesses \in Seq(Access)
  <2>1. Code[pc].touch \in Seq(Access)
    BY SessionAssumption DEF Instruction
  <2>2. [addr |-> pc, len |-> 4, write |-> FALSE] \in Access
    BY DEF Access
  <2>3. QED BY <2>1, <2>2 DEF Accesses, AccessesAt
<1> DEFINE accesses == Accesses
           noticed ==
      {n \in (DOMAIN accesses) \X (DOMAIN hw_watchpoints) :
         /\ Listens(hw_watchpoints[n[2]], accesses[n[1]])
         /\ Meets(hw_watchpoints[n[2]], accesses[n[1]])}
    first == CHOOSE f \in noticed :
               \A n \in noticed : \/ f[1] < n[1]
                                  \/ f[1] = n[1] /\ f[2] <= n[2]
<1>3. PICK i \in DOMAIN accesses, j \in DOMAIN hw_watchpoints :
        Listens(hw_watchpoints[j], accesses[i]) /\ Overlaps(hw_watchpoints[j], accesses[i])
  BY DEF Noticed
<1> HIDE DEF accesses
<1>4. accesses \in Seq(Access)
  BY <1>2 DEF accesses
<1>5. Meets(hw_watchpoints[j], accesses[i])
  <2>1. hw_watchpoints[j] \in WatchArea /\ accesses[i] \in Access
    BY <1>3, <1>4
  <2>2. hw_watchpoints[j] \in WatchEntry
    BY <2>1, SessionAssumption
  <2>3. QED BY <1>3, <2>1, <2>2, OverlapMeets DEF AreasEnd
<1>6. <<i, j>> \in noticed
  BY <1>3, <1>5
<1>7. Trigger = [kind |-> hw_watchpoints[first[2]].kind, addr |-> accesses[first[1]].addr]
  BY <1>6 DEF Trigger, WatchTrigger, accesses
<1>8. \A n \in noticed : n[1] \in DOMAIN accesses /\ n[2] \in DOMAIN hw_watchpoints
  OBVIOUS
<1>9. DOMAIN accesses \subseteq Nat /\ DOMAIN hw_watchpoints \subseteq Nat
  BY <1>1, <1>4
<1>10. noticed \in SUBSET (Nat \X Nat)
  BY <1>9
<1> HIDE DEF noticed
<1>11. PICK f \in noticed : \A n \in noticed : f[1] < n[1] \/ (f[1] = n[1] /\ f[2] <= n[2])
  BY <1>6, <1>10, LeastPair
<1>12. first \in noticed
  BY <1>11
<1> HIDE DEF first
<1>13. hw_watchpoints[first[2]].kind \in WatchKind
  <2> DEFINE n == first[2]
  <2>1. n \in DOMAIN hw_watchpoints
    BY <1>8, <1>12
  <2> HIDE DEF n
  <2>2. hw_watchpoints[n] \in WatchEntry
    BY <1>1, <2>1
  <2>3. QED BY <2>2 DEF n, WatchEntry
<1>14. QED BY <1>7, <1>13 DEF WatchKind, NoTrigger

(* A step of the guest that goes through and touches watched memory is     *)
(* reported as that, whatever else stops there: wait_for_stop_reason looks *)
(* at HwWatchPoint before the range, the breakpoints and the single step.  *)
(* For an area that wraps it is not so: check_watchpoints finds none of    *)
(* it.                                                                     *)
THEOREM WatchesAreReported == AreasEnd => (Spec => NoWatchMissed)
<1> SUFFICES ASSUME AreasEnd PROVE Spec => NoWatchMissed
  OBVIOUS
<1>1. TypeOK /\ [Next]_vars =>
        [Advance /\ pc' # pc /\ Noticed =>
           /\ stub' # "Running"
           /\ outbox' # outbox => Last(outbox').why = "Watch"]_vars
  <2> SUFFICES ASSUME TypeOK, Next, Advance, pc' # pc, Noticed
               PROVE  /\ stub' # "Running"
                      /\ outbox' # outbox => Last(outbox').why = "Watch"
    BY DEF vars, guest
  <2>1. exec_mode # Interrupted /\ pc' \in StepPc /\ stub = "Running"
    BY DEF Advance
  <2>2. StepExit \in {"none", "HwWatchPoint"}
    BY <2>1, StepFacts DEF TypeOK
  <2>3. pc \in DOMAIN Code
    BY <2>2 DEF StepExit
  <2>4. StepExit = "HwWatchPoint"
    BY <2>2, <2>3, NoticedTriggers DEF StepExit, TypeOK
  <2>5. StopAt(pc') = "Watch"
    BY <2>1, <2>4 DEF StopAt, StopOfExit
  <2>6. StopGuest
    <3>1. ~ClientStep
      BY DEF ClientStep, AskQuery, AskResume, AskLeave, PressCtrlC, CloseConnection,
             Receive, LoseConnection, ClientOnly, guest
    <3>2. ~StubStep
      <4>1. \A op : ~Serve(op)
        BY <2>1 DEF Serve
      <4>2. ~ReadFails
        BY DEF ReadFails, guest
      <4>3. QED
        BY <4>1, <4>2
        DEF StubStep, AddSwBreakpoint, RemoveSwBreakpoint, AddHwWatchpoint,
            RemoveHwWatchpoint, WritePc, OnInterruptIdle, RefuseSignal, ResumeGuest,
            ReportDeferred, SetExecMode, Detach, Kill
    <3>3. ~RunToCompletion /\ ~Finished
      BY <2>1 DEF RunToCompletion, Finished
    <3>4. ~OnInterruptRunning /\ ~PollNothing /\ ~RunOn
      BY <2>5 DEF OnInterruptRunning, PollNothing, RunOn, guest
    <3>5. QED BY <3>1, <3>2, <3>3, <3>4 DEF Next, LoopStep
  <2>7. Tell(WatchStop(Trigger), "Idle", outcome)
    BY <2>5, <2>6 DEF StopGuest
  <2>8. outbox' # outbox => outbox' = Append(outbox, WatchStop(Trigger))
    BY <2>7 DEF Tell
  <2>9. outbox \in Seq(Reply)
    BY DEF TypeOK, Reply
  <2>10. Last(Append(outbox, WatchStop(Trigger))) = WatchStop(Trigger)
    <3> DEFINE reply == WatchStop(Trigger)
    <3> HIDE DEF reply
    <3>1. Last(Append(outbox, reply)) = reply
      BY <2>9 DEF Last
    <3>2. QED BY <3>1 DEF reply
  <2>11. stub' # "Running"
    BY <2>7 DEF Tell
  <2>12. WatchStop(Trigger).why = "Watch"
    BY DEF WatchStop
  <2>13. outbox' # outbox => Last(outbox') = WatchStop(Trigger)
    BY <2>8, <2>10, Zenon
  <2>14. QED BY <2>11, <2>12, <2>13
<1>2. QED BY <1>1, TypeCorrect, PTL DEF Spec, NoWatchMissed
-----------------------------------------------------------------------------
(* The dialogue of client and stub: what is asked and answered, and in     *)
(* which mode the guest runs.  What follows rests on one invariant,        *)
(* DialogueInv, which says where the request of the client is: in the      *)
(* inbox, being served, or answered in the outbox.                         *)

(* Requests among 0x03 bytes.                                              *)

AllCtrlC(s) == \A i \in DOMAIN s : s[i] = CtrlC

Only(s, m) == \E i \in DOMAIN s : s[i] = m /\ \A j \in DOMAIN s \ {i} : s[j] = CtrlC

(* Sending adds to the end of the inbox.                                   *)
LEMMA AppendFacts ==
  ASSUME NEW s \in Seq(Message), NEW m \in Message
  PROVE  /\ AllCtrlC(s) => AllCtrlC(Append(s, CtrlC)) /\ Only(Append(s, m), m)
         /\ Only(s, m) => Only(Append(s, CtrlC), m)
<1>1. /\ CtrlC \in Message
      /\ \A x \in Message : /\ DOMAIN Append(s, x) = 1 .. Len(s) + 1
                            /\ Append(s, x)[Len(s) + 1] = x
                            /\ \A i \in 1 .. Len(s) : Append(s, x)[i] = s[i]
  BY DEF Message
<1>2. DOMAIN s = 1 .. Len(s) /\ Len(s) \in Nat
  OBVIOUS
<1>3. ASSUME AllCtrlC(s) PROVE AllCtrlC(Append(s, CtrlC)) /\ Only(Append(s, m), m)
  BY <1>1, <1>2, <1>3 DEF AllCtrlC, Only
<1>4. ASSUME Only(s, m) PROVE Only(Append(s, CtrlC), m)
  BY <1>1, <1>2, <1>4 DEF Only
<1>5. QED BY <1>3, <1>4

(* Serving takes from its front.                                           *)
LEMMA TailFacts ==
  ASSUME NEW s \in Seq(Message), s # <<>>, NEW m \in Message \ {CtrlC}
  PROVE  /\ AllCtrlC(s) => Head(s) = CtrlC /\ AllCtrlC(Tail(s))
         /\ Only(s, m) /\ Head(s) = CtrlC => Only(Tail(s), m)
         /\ Only(s, m) /\ Head(s) # CtrlC => Head(s) = m /\ AllCtrlC(Tail(s))
<1>1. /\ DOMAIN Tail(s) = 1 .. Len(s) - 1 /\ DOMAIN s = 1 .. Len(s)
      /\ Len(s) \in Nat \ {0}
      /\ \A i \in 1 .. Len(s) - 1 : Tail(s)[i] = s[i + 1]
      /\ Head(s) = s[1]
  OBVIOUS
<1>2. ASSUME AllCtrlC(s) PROVE Head(s) = CtrlC /\ AllCtrlC(Tail(s))
  BY <1>1, <1>2 DEF AllCtrlC
<1>3. ASSUME Only(s, m), Head(s) = CtrlC PROVE Only(Tail(s), m)
  <2>1. PICK i \in DOMAIN s : s[i] = m /\ \A j \in DOMAIN s \ {i} : s[j] = CtrlC
    BY <1>3 DEF Only
  <2>2. i \in 2 .. Len(s) /\ i - 1 \in DOMAIN Tail(s) /\ Tail(s)[i - 1] = m
    BY <1>1, <1>3, <2>1
  <2>3. \A j \in DOMAIN Tail(s) \ {i - 1} : Tail(s)[j] = CtrlC
    BY <1>1, <2>1, <2>2
  <2>4. QED BY <2>2, <2>3 DEF Only
<1>4. ASSUME Only(s, m), Head(s) # CtrlC PROVE Head(s) = m /\ AllCtrlC(Tail(s))
  <2>1. PICK i \in DOMAIN s : s[i] = m /\ \A j \in DOMAIN s \ {i} : s[j] = CtrlC
    BY <1>4 DEF Only
  <2>2. i = 1
    BY <1>1, <1>4, <2>1
  <2>3. QED BY <1>1, <2>1, <2>2 DEF AllCtrlC
<1>5. QED BY <1>2, <1>3, <1>4

(* The end of the stream is not a 0x03 byte.                               *)
LEMMA EndIsMessage == EndOfStream \in Message \ {CtrlC}
BY DEF Message, EndOfStream, CtrlC

(* What a request is.                                                      *)
LEMMA RequestFacts ==
  /\ \A m \in Query : /\ m \in Message \ {CtrlC}
                      /\ m.op \notin {"resume", "0x03", "closed", "detach", "kill"}
  /\ \A m \in Resume : m \in Message \ {CtrlC} /\ m.op = "resume"
  /\ CtrlC \in Message /\ CtrlC.op = "0x03"
<1>1. \A m \in Query : m.op \notin {"resume", "0x03", "closed", "detach", "kill"}
  BY DEF Query
<1>2. \A m \in Resume : m.op = "resume"
  BY DEF Resume
<1>3. CtrlC \in Message /\ CtrlC.op = "0x03"
  BY DEF Message, CtrlC
<1>4. \A m \in Query \cup Resume : m \in Message
  BY DEF Message
<1>5. QED BY <1>1, <1>2, <1>3, <1>4

-----------------------------------------------------------------------------
(* Where the client's request is.                                          *)

Busy == stub = "Running" \/ outcome = "target error"

Nothing == AllCtrlC(inbox) /\ outbox = <<>> /\ ~Busy
Sent(m) == Only(inbox, m) /\ outbox = <<>> /\ ~Busy
Served == AllCtrlC(inbox) /\ outbox = <<>> /\ Busy
Told(r) == AllCtrlC(inbox) /\ Len(outbox) = 1 /\ outbox[1] = r /\ ~Busy

PromptInv == client = "prompt" => Nothing
WaitingInv == client = "waiting" => (\E m \in Query : Sent(m)) \/ Told(Ok)
RunningInv ==
  client = "running" =>
    \/ \E m \in Resume : Sent(m)
    \/ Served
    \/ \E r \in Reply : r # Ok /\ Told(r)
StubInv == /\ client # "gone" => stub # "Completing"
           /\ outcome = "target error" => stub = "Over"
ModeInv == \A i \in DOMAIN inbox : inbox[i].op = "resume" => inbox[i].mode = asked

DialogueInv == PromptInv /\ WaitingInv /\ RunningInv /\ StubInv /\ ModeInv /\ ModeIsAsked

(* What the client does.                                                   *)
LEMMA ClientDialogue ==
  ASSUME TypeOK, DialogueInv, ClientStep
  PROVE  DialogueInv'
<1>0. inbox \in Seq(Message) /\ outbox \in Seq(Reply)
  BY DEF TypeOK, Message, Reply
<1>1. UNCHANGED <<Busy, stub, outcome, exec_mode>>
  BY DEF ClientStep, AskQuery, AskResume, AskLeave, PressCtrlC, CloseConnection,
         Receive, LoseConnection, ClientOnly, Busy, target
<1>2. CASE AskQuery
  <2>1. PICK q \in Query : Send(q)
    BY <1>2 DEF AskQuery
  <2>2. Nothing /\ client' = "waiting" /\ UNCHANGED <<asked, outbox>>
    BY <1>2 DEF AskQuery, ClientOnly, DialogueInv, PromptInv
  <2>3. Sent(q)'
    BY <1>0, <1>1, <2>1, <2>2, AppendFacts, RequestFacts DEF Send, Nothing, Sent
  <2>4. ModeInv'
    BY <1>0, <2>1, <2>2, RequestFacts DEF Send, DialogueInv, ModeInv
  <2>5. QED BY <1>1, <1>2, <2>1, <2>2, <2>3, <2>4
            DEF AskQuery, DialogueInv, PromptInv, WaitingInv, RunningInv, StubInv,
                ModeIsAsked
<1>3. CASE AskResume
  <2>1. PICK r \in Resume : Send(r) /\ asked' = r.mode
    BY <1>3 DEF AskResume
  <2>2. Nothing /\ client' = "running" /\ UNCHANGED outbox
    BY <1>3 DEF AskResume, ClientOnly, DialogueInv, PromptInv
  <2>3. Sent(r)'
    BY <1>0, <1>1, <2>1, <2>2, AppendFacts, RequestFacts DEF Send, Nothing, Sent
  <2>4. ModeInv'
    <3>1. \A i \in DOMAIN inbox : inbox[i].op # "resume"
      BY <2>2, RequestFacts DEF Nothing, AllCtrlC
    <3>2. QED BY <1>0, <2>1, <3>1, RequestFacts DEF Send, ModeInv
  <2>5. stub' # "Running"
    BY <1>1, <2>2 DEF Nothing, Busy
  <2>6. QED BY <1>1, <1>3, <2>1, <2>2, <2>3, <2>4, <2>5
            DEF AskResume, DialogueInv, PromptInv, WaitingInv, RunningInv, StubInv,
                ModeIsAsked
<1>4. CASE PressCtrlC
  <2>1. client = "running" /\ Send(CtrlC) /\ UNCHANGED <<client, asked, outbox>>
    BY <1>4 DEF PressCtrlC, ClientOnly, gdb
  <2>2. \A m \in Resume : Sent(m) => Sent(m)'
    BY <1>0, <1>1, <2>1, AppendFacts, RequestFacts DEF Send, Sent
  <2>3. Served => Served'
    BY <1>0, <1>1, <2>1, AppendFacts, RequestFacts DEF Send, Served
  <2>4. \A r \in Reply : Told(r) => Told(r)'
    BY <1>0, <1>1, <2>1, AppendFacts, RequestFacts DEF Send, Told
  <2>5. ModeInv'
    BY <1>0, <2>1, RequestFacts DEF Send, DialogueInv, ModeInv
  <2>6. RunningInv'
    BY <2>1, <2>2, <2>3, <2>4 DEF DialogueInv, RunningInv
  <2>7. QED BY <1>1, <2>1, <2>5, <2>6
            DEF DialogueInv, PromptInv, WaitingInv, StubInv, ModeIsAsked
<1>5. CASE Receive
  <2>1. outbox # <<>> /\ outbox' = Tail(outbox) /\ client # "gone"
        /\ client' \in {"prompt", "gone"} /\ UNCHANGED <<inbox, asked>>
    BY <1>5 DEF Receive
  <2>2. \E r \in Reply : Told(r)
    BY <2>1, ReplyFacts DEF DialogueInv, PromptInv, WaitingInv, RunningInv,
                Nothing, Sent, Served, TypeOK
  <2>3. Nothing'
    <3>1. Tail(outbox) = <<>>
      <4>1. Tail(outbox) \in Seq(Reply) /\ Len(Tail(outbox)) = 0
        BY <1>0, <2>2 DEF Told
      <4>2. QED BY <4>1, EmptySeq
    <3>2. QED BY <1>1, <2>1, <2>2, <3>1 DEF Told, Nothing, AllCtrlC
  <2>4. QED BY <1>1, <2>1, <2>3 DEF DialogueInv, PromptInv, WaitingInv,
                RunningInv, StubInv, ModeInv, ModeIsAsked
<1>6. CASE AskLeave \/ CloseConnection \/ LoseConnection
  <2>1. client' = "gone" /\ UNCHANGED asked
    BY <1>6 DEF AskLeave, CloseConnection, LoseConnection
  <2>2. inbox' = inbox \/ \E m \in Leave \cup {EndOfStream} : Send(m)
    BY <1>6 DEF AskLeave, CloseConnection, LoseConnection
  <2>3. \A m \in Leave \cup {EndOfStream} : m.op # "resume"
    BY DEF Leave, EndOfStream
  <2>4. ModeInv'
    BY <1>0, <2>1, <2>2, <2>3 DEF Send, DialogueInv, ModeInv
  <2>5. QED BY <1>1, <2>1, <2>4 DEF DialogueInv, PromptInv, WaitingInv,
                RunningInv, StubInv, ModeIsAsked
<1>7. QED BY <1>2, <1>3, <1>4, <1>5, <1>6 DEF ClientStep

(* What remains in the inbox was sent in the same mode.                    *)
LEMMA TailMode ==
  ASSUME TypeOK, ModeInv, inbox # <<>>, inbox' = Tail(inbox), UNCHANGED asked
  PROVE  ModeInv'
<1>1. inbox \in Seq(Message)
  BY DEF TypeOK, Message
<1>2. \A i \in DOMAIN Tail(inbox) : i + 1 \in DOMAIN inbox /\ Tail(inbox)[i] = inbox[i + 1]
  BY <1>1
<1>3. QED BY <1>2 DEF ModeInv

(* The stub serves the one request of a client that waits for it.          *)
LEMMA ServeDialogue ==
  ASSUME TypeOK, DialogueInv, NEW op, Serve(op), op # "0x03", client # "gone"
  PROVE  /\ AllCtrlC(inbox') /\ outbox = <<>> /\ ~Busy
         /\ \/ client = "waiting" /\ Head(inbox) \in Query
            \/ client = "running" /\ Head(inbox) \in Resume
<1>1. /\ inbox \in Seq(Message) /\ inbox # <<>> /\ inbox' = Tail(inbox)
      /\ Head(inbox).op = op /\ Head(inbox) # CtrlC
  BY ServeFacts, RequestFacts DEF TypeOK, Message
<1>2. ~AllCtrlC(inbox)
  BY <1>1, TailFacts, RequestFacts DEF AllCtrlC
<1>3. \/ client = "waiting" /\ \E m \in Query : Sent(m)
      \/ client = "running" /\ \E m \in Resume : Sent(m)
  BY <1>2 DEF DialogueInv, PromptInv, WaitingInv, RunningInv, Nothing, Served, Told,
              TypeOK
<1>4. PICK m \in Query \cup Resume :
        /\ Sent(m)
        /\ \/ client = "waiting" /\ m \in Query
           \/ client = "running" /\ m \in Resume
  BY <1>3
<1>5. Head(inbox) = m /\ AllCtrlC(inbox')
  BY <1>1, <1>4, TailFacts, RequestFacts DEF Sent
<1>6. QED BY <1>4, <1>5 DEF Sent

(* The first reply in an empty outbox.                                     *)
LEMMA FirstReply ==
  ASSUME NEW s \in Seq(Reply), Len(s) = 0, NEW r \in Reply
  PROVE  Len(Append(s, r)) = 1 /\ Append(s, r)[1] = r
OBVIOUS

(* An answer reaches a client that has not gone.                           *)
LEMMA ToldFacts ==
  ASSUME NEW r \in Reply, NEW next, NEW end, Tell(r, next, end),
         client # "gone", outbox = <<>>, AllCtrlC(inbox'),
         next # "Running", end # "target error"
  PROVE  Told(r)' /\ stub' = next /\ outcome' = end
<1>1. outbox' = Append(outbox, r) /\ stub' = next /\ outcome' = end
  BY DEF Tell
<1>2. Len(outbox') = 1 /\ outbox'[1] = r
  <2>1. outbox \in Seq(Reply) /\ Len(outbox) = 0
    BY EmptySeq, Zenon
  <2>2. QED BY <1>1, <2>1, FirstReply, Zenon
<1>3. AllCtrlC(inbox)' /\ ~Busy'
  BY <1>1 DEF AllCtrlC, Busy
<1>4. QED BY <1>1, <1>2, <1>3 DEF Told

(* A query is answered OK.                                                 *)
LEMMA AnswerDialogue ==
  ASSUME TypeOK, DialogueInv, NEW op, Serve(op), Answer,
         op \in {"add_sw_breakpoint", "remove_sw_breakpoint", "add_hw_watchpoint",
                 "remove_hw_watchpoint", "write_pc"}
  PROVE  DialogueInv'
<1>1. ModeInv'
  BY TailMode, ServeFacts DEF Answer, gdb, DialogueInv
<1>2. Tell(Ok, "Idle", outcome) /\ UNCHANGED <<client, asked, exec_mode>>
  BY DEF Answer, gdb
<1>3. stub' # "Running"
  BY <1>2 DEF Tell
<1>4. CASE client = "gone"
  <2>1. outcome' = "target error" => stub' = "Over"
    BY <1>2, ServeFacts DEF Tell, DialogueInv, StubInv
  <2>2. QED BY <1>1, <1>2, <1>3, <1>4, <2>1
            DEF DialogueInv, PromptInv, WaitingInv, RunningInv, StubInv, ModeIsAsked
<1>5. CASE client # "gone"
  <2>1. AllCtrlC(inbox') /\ outbox = <<>> /\ ~Busy /\ client = "waiting"
    BY <1>5, ServeDialogue, ServeFacts, RequestFacts
  <2>2. Told(Ok)' /\ stub' = "Idle" /\ outcome' = outcome
    BY <1>2, <1>5, <2>1, ToldFacts, ReplyFacts DEF Busy
  <2>3. outcome' # "target error"
    BY <2>1, <2>2 DEF Busy
  <2>4. QED BY <1>1, <1>2, <2>1, <2>2, <2>3
            DEF DialogueInv, PromptInv, WaitingInv, RunningInv, StubInv, ModeIsAsked
<1>6. QED BY <1>4, <1>5

(* A Ctrl-C met by a stopped guest changes the mode, not the dialogue.     *)
LEMMA InterruptDialogue ==
  ASSUME TypeOK, DialogueInv, OnInterruptIdle
  PROVE  DialogueInv'
<1>1. /\ inbox # <<>> /\ inbox' = Tail(inbox) /\ Head(inbox) \in Message
      /\ Head(inbox).op = "0x03" /\ stub = "Idle" /\ inbox \in Seq(Message)
  BY ServeFacts DEF OnInterruptIdle, TypeOK, Message
<1>2. Head(inbox) = CtrlC
  BY <1>1, MessageFacts
<1>3. UNCHANGED <<stub, outcome, outbox, client, asked>>
  BY DEF OnInterruptIdle, gdb
<1>4. UNCHANGED Busy
  BY <1>3 DEF Busy
<1>5. AllCtrlC(inbox) => AllCtrlC(inbox')
  BY <1>1, TailFacts, RequestFacts DEF AllCtrlC
<1>6. \A m \in Query \cup Resume : Sent(m) => Sent(m)'
  BY <1>1, <1>2, <1>3, <1>4, TailFacts, RequestFacts DEF Sent
<1>7. (Nothing => Nothing') /\ (Served => Served') /\ \A r \in Reply : Told(r) => Told(r)'
  BY <1>3, <1>4, <1>5 DEF Nothing, Served, Told
<1>8. ModeInv'
  BY <1>1, <1>3, TailMode DEF DialogueInv
<1>9. PromptInv' /\ WaitingInv' /\ RunningInv' /\ StubInv' /\ ModeIsAsked'
  <2>1. PromptInv' /\ StubInv' /\ ModeIsAsked'
    BY <1>1, <1>3, <1>7 DEF DialogueInv, PromptInv, StubInv, ModeIsAsked
  <2>2. WaitingInv'
    BY <1>3, <1>6, <1>7, ReplyFacts DEF DialogueInv, WaitingInv
  <2>3. RunningInv'
    BY <1>3, <1>6, <1>7 DEF DialogueInv, RunningInv
  <2>4. QED BY <2>1, <2>2, <2>3
<1>10. QED BY <1>8, <1>9 DEF DialogueInv

(* A resume, with or without a signal, is served in the mode asked.        *)
LEMMA ResumeDialogue ==
  ASSUME TypeOK, DialogueInv, RefuseSignal \/ ResumeGuest \/ ReportDeferred
  PROVE  DialogueInv'
<1>1. Serve("resume") /\ UNCHANGED <<client, asked>>
  BY DEF RefuseSignal, ResumeGuest, ReportDeferred, SetExecMode, gdb
<1>2. /\ stub = "Idle" /\ inbox # <<>> /\ inbox' = Tail(inbox)
      /\ Head(inbox) \in Message /\ Head(inbox).op = "resume"
  BY <1>1, ServeFacts
<1>3. ModeInv'
  BY <1>1, <1>2, TailMode DEF DialogueInv
<1>4. Head(inbox).mode = asked
  <2>1. inbox \in Seq(Message)
    BY DEF TypeOK, Message
  <2>2. 1 \in DOMAIN inbox /\ Head(inbox) = inbox[1]
    BY <1>2, <2>1
  <2>3. QED BY <1>2, <2>2 DEF DialogueInv, ModeInv
<1>5. client # "gone" => /\ AllCtrlC(inbox') /\ outbox = <<>> /\ ~Busy
                         /\ client = "running"
  BY <1>1, <1>2, ServeDialogue, RequestFacts
<1>6. outcome # "target error"
  BY <1>2 DEF DialogueInv, StubInv
<1>7. CASE RefuseSignal
  <2>1. stub' = "Over" /\ outcome' = "target error" /\ UNCHANGED outbox
    BY <1>7 DEF RefuseSignal
  <2>2. client # "gone" => Served'
    BY <1>5, <2>1 DEF Served, AllCtrlC, Busy
  <2>3. QED BY <1>1, <1>3, <1>5, <2>1, <2>2
            DEF DialogueInv, PromptInv, WaitingInv, RunningInv, StubInv, ModeIsAsked
<1>8. CASE ResumeGuest
  <2>1. /\ stub' = "Running" /\ UNCHANGED <<outcome, outbox>>
        /\ exec_mode' = Head(inbox).mode
    BY <1>8 DEF ResumeGuest, SetExecMode
  <2>2. client # "gone" => Served'
    BY <1>5, <2>1 DEF Served, AllCtrlC, Busy
  <2>3. QED BY <1>1, <1>3, <1>4, <1>5, <1>6, <2>1, <2>2
            DEF DialogueInv, PromptInv, WaitingInv, RunningInv, StubInv, ModeIsAsked
<1>9. CASE ReportDeferred
  <2>1. Tell(Stop("SIGINT"), "Idle", outcome)
    BY <1>9 DEF ReportDeferred
  <2>2. Stop("SIGINT") \in Reply /\ Stop("SIGINT") # Ok
    BY ReplyFacts DEF StopReason, Stop, Ok
  <2>3. client # "gone" => Told(Stop("SIGINT"))' /\ stub' = "Idle"
    BY <1>5, <1>6, <2>1, <2>2, ToldFacts
  <2>4. stub' \in {"Idle", "Over"} /\ outcome' # "target error"
    BY <1>6, <2>1 DEF Tell
  <2>5. QED BY <1>1, <1>3, <1>5, <2>2, <2>3, <2>4
            DEF DialogueInv, PromptInv, WaitingInv, RunningInv, StubInv, ModeIsAsked
<1>10. QED BY <1>7, <1>8, <1>9

(* Only a client that has gone detaches, kills or is no longer heard.      *)
LEMMA LeaveDialogue ==
  ASSUME TypeOK, DialogueInv, Detach \/ Kill \/ ReadFails
  PROVE  DialogueInv'
<1>1. inbox \in Seq(Message)
  BY DEF TypeOK, Message
<1>2. /\ inbox # <<>> /\ inbox' = Tail(inbox) /\ UNCHANGED <<client, asked>>
      /\ Head(inbox).op \in {"detach", "kill", "closed"}
  <2>1. CASE Detach \/ Kill
    BY <2>1 DEF Detach, Kill, Serve, gdb
  <2>2. CASE ReadFails
    <3>1. inbox # <<>> /\ inbox' = Tail(inbox) /\ UNCHANGED gdb
      BY <2>2 DEF ReadFails
    <3>2. Head(inbox).op = "closed"
      <4>1. Head(inbox) = EndOfStream
        BY <2>2 DEF ReadFails
      <4>2. QED BY <4>1 DEF EndOfStream
    <3>3. QED BY <3>1, <3>2 DEF gdb
  <2>3. QED BY <2>1, <2>2
<1>3. client = "gone"
  <2>1. \A m \in Query \cup Resume : Head(inbox) # m
    BY <1>2, RequestFacts
  <2>2. Head(inbox) # CtrlC
    BY <1>2, RequestFacts
  <2>3. ~AllCtrlC(inbox) /\ \A m \in Query \cup Resume : ~Sent(m)
    BY <1>1, <1>2, <2>1, <2>2, TailFacts, RequestFacts DEF Sent
  <2>4. QED BY <2>3 DEF DialogueInv, PromptInv, WaitingInv, RunningInv, Nothing,
                        Served, Told, TypeOK
<1>4. ModeInv'
  BY <1>1, <1>2, TailMode DEF DialogueInv
<1>5. stub' # "Running" /\ (outcome' = "target error" => stub' = "Over")
  BY DEF Detach, Kill, ReadFails, Tell, Serve, DialogueInv, StubInv
<1>6. QED BY <1>2, <1>3, <1>4, <1>5
          DEF DialogueInv, PromptInv, WaitingInv, RunningInv, StubInv, ModeIsAsked

(* How the loop ends: with a reason and, where it stops at a watchpoint,   *)
(* the trigger.                                                            *)
LEMMA StopFacts ==
  ASSUME TypeOK, StopGuest
  PROVE  \E why \in StopReason \cup {"Watch"}, r \in Reply :
           /\ why = StopAt(pc') /\ r.why = why /\ r # Ok
           /\ why = "Watch" => r.trigger = Trigger
           /\ Tell(r, IF why \in {"Exited", "Terminated"} THEN "Over" ELSE "Idle",
                      IF why \in {"Exited", "Terminated"} THEN why ELSE outcome)
<1> DEFINE why == StopAt(pc')
           reply == IF why = "Watch" THEN WatchStop(Trigger) ELSE Stop(why)
<1>1. /\ why # "none"
      /\ Tell(reply, IF why \in {"Exited", "Terminated"} THEN "Over" ELSE "Idle",
                     IF why \in {"Exited", "Terminated"} THEN why ELSE outcome)
  BY DEF StopGuest
<1>2. why \in StopReason \/ (why = "Watch" /\ StepExit = "HwWatchPoint")
  BY <1>1, StopAtFacts
<1>3. reply \in Reply
  <2>1. StepExit = "HwWatchPoint" => Trigger \in [kind : WatchKind, addr : Nat]
    BY StepFacts DEF TypeOK
  <2>2. "Watch" \notin StopReason
    BY DEF StopReason
  <2>3. QED BY <1>2, <2>1, <2>2, ReplyFacts
<1>4. reply.why = why /\ (why = "Watch" => reply.trigger = Trigger)
  BY DEF WatchStop, Stop
<1>5. "OK" \notin StopReason \cup {"Watch"} /\ Ok.why = "OK"
  BY DEF StopReason, Ok
<1> HIDE DEF why, reply
<1>6. why \in StopReason \cup {"Watch"} /\ reply # Ok
  BY <1>2, <1>4, <1>5
<1>7. why = StopAt(pc')
  BY DEF why
<1>8. QED BY <1>1, <1>3, <1>4, <1>6, <1>7

(* What wait_for_stop_reason does, for a client whose resume it serves.    *)
LEMMA LoopDialogue ==
  ASSUME TypeOK, DialogueInv, LoopStep
  PROVE  DialogueInv'
<1>1. stub = "Running" /\ UNCHANGED <<client, asked>> /\ exec_mode = asked
  <2>1. stub = "Running" /\ UNCHANGED <<client, asked>>
    BY DEF LoopStep, OnInterruptRunning, PollNothing, RunOn, StopGuest, Advance, gdb
  <2>2. QED BY <2>1 DEF DialogueInv, ModeIsAsked
<1>2. client # "gone" => client = "running" /\ Served
  <2>1. client \in {"prompt", "waiting", "running", "gone"}
    BY DEF TypeOK
  <2>2. QED BY <1>1, <2>1 DEF DialogueInv, PromptInv, WaitingInv, RunningInv, Nothing,
                              Sent, Told, Busy
<1>3. outcome # "target error"
  BY <1>1 DEF DialogueInv, StubInv
<1>4. CASE PollNothing \/ RunOn
  <2>1. UNCHANGED <<inbox, outbox, stub, outcome, exec_mode>>
    BY <1>4 DEF PollNothing, RunOn, Advance, target
  <2>2. Served => Served'
    BY <2>1 DEF Served, AllCtrlC, Busy
  <2>3. ModeInv'
    BY <1>1, <2>1 DEF DialogueInv, ModeInv
  <2>4. QED BY <1>1, <1>2, <1>3, <2>1, <2>2, <2>3
            DEF DialogueInv, PromptInv, WaitingInv, RunningInv, StubInv, ModeIsAsked
<1>5. ASSUME NEW r \in Reply, r # Ok, NEW next \in {"Idle", "Over"}, NEW end,
             end # "target error", Tell(r, next, end), ModeInv',
             client # "gone" => AllCtrlC(inbox')
      PROVE  DialogueInv'
  <2>1. client # "gone" => Told(r)' /\ stub' = next
    BY <1>2, <1>5, ToldFacts DEF Served
  <2>2. stub' \in {"Idle", "Over"} /\ outcome' # "target error"
    BY <1>5 DEF Tell
  <2>3. QED BY <1>1, <1>2, <1>5, <2>1, <2>2
            DEF DialogueInv, PromptInv, WaitingInv, RunningInv, StubInv, ModeIsAsked
<1>6. CASE OnInterruptRunning
  <2>1. Tell(Stop("SIGINT"), "Idle", outcome) /\ inbox # <<>> /\ inbox' = Tail(inbox)
    BY <1>6 DEF OnInterruptRunning
  <2>2. Stop("SIGINT") \in Reply /\ Stop("SIGINT") # Ok
    BY ReplyFacts DEF StopReason, Stop, Ok
  <2>3. client # "gone" => AllCtrlC(inbox')
    <3>1. inbox \in Seq(Message)
      BY DEF TypeOK, Message
    <3>2. AllCtrlC(inbox) => AllCtrlC(inbox')
      BY <2>1, <3>1, TailFacts, RequestFacts DEF AllCtrlC
    <3>3. QED BY <1>2, <3>2 DEF Served
  <2>4. ModeInv'
    BY <1>1, <2>1, TailMode DEF DialogueInv
  <2>5. QED BY <1>3, <1>5, <2>1, <2>2, <2>3, <2>4
<1>7. CASE StopGuest
  <2>1. PICK why \in StopReason \cup {"Watch"}, r \in Reply :
          /\ r # Ok
          /\ Tell(r, IF why \in {"Exited", "Terminated"} THEN "Over" ELSE "Idle",
                     IF why \in {"Exited", "Terminated"} THEN why ELSE outcome)
    BY <1>7, StopFacts
  <2>2. UNCHANGED inbox
    BY <1>7 DEF StopGuest, Advance
  <2>3. ModeInv' /\ (client # "gone" => AllCtrlC(inbox'))
    BY <1>1, <1>2, <2>2 DEF DialogueInv, ModeInv, Served, AllCtrlC
  <2>4. QED BY <1>3, <1>5, <2>1, <2>3
<1>8. QED BY <1>4, <1>6, <1>7 DEF LoopStep

-----------------------------------------------------------------------------
(* The theorems.                                                           *)

(* A client in the session starts with no request.                         *)
LEMMA InitDialogue == Init => DialogueInv
<1> SUFFICES ASSUME Init PROVE DialogueInv
  OBVIOUS
<1>1. inbox = <<>> /\ outbox = <<>> /\ client = "prompt" /\ stub = "Idle"
      /\ outcome = "none"
  BY DEF Init
<1>2. Nothing
  BY <1>1 DEF Nothing, AllCtrlC, Busy
<1>3. ModeInv
  BY <1>1 DEF ModeInv
<1>4. QED BY <1>1, <1>2, <1>3 DEF DialogueInv, PromptInv, WaitingInv, RunningInv,
             StubInv, ModeIsAsked

(* Every step keeps track of the client's request.                         *)
LEMMA DialogueStep == TypeOK /\ DialogueInv /\ [Next]_vars => DialogueInv'
<1> SUFFICES ASSUME TypeOK, DialogueInv, [Next]_vars PROVE DialogueInv'
  OBVIOUS
<1>1. CASE StubStep
  <2>1. CASE \/ AddSwBreakpoint \/ RemoveSwBreakpoint \/ AddHwWatchpoint
             \/ RemoveHwWatchpoint \/ WritePc
    BY <2>1, AnswerDialogue DEF AddSwBreakpoint, RemoveSwBreakpoint,
       AddHwWatchpoint, RemoveHwWatchpoint, WritePc
  <2>2. QED BY <1>1, <2>1, InterruptDialogue, ResumeDialogue, LeaveDialogue
            DEF StubStep
<1>2. CASE RunToCompletion
  <2>1. stub = "Completing" /\ UNCHANGED <<inbox, client, asked>>
    BY <1>2 DEF RunToCompletion, gdb
  <2>2. client = "gone" /\ outcome # "target error"
    BY <2>1 DEF DialogueInv, StubInv
  <2>3. stub' # "Running" /\ outcome' # "target error"
    BY <1>2, <2>1, <2>2 DEF RunToCompletion
  <2>4. ModeInv'
    BY <2>1 DEF DialogueInv, ModeInv
  <2>5. QED BY <2>1, <2>2, <2>3, <2>4
            DEF DialogueInv, PromptInv, WaitingInv, RunningInv, StubInv, ModeIsAsked
<1>3. CASE UNCHANGED vars
  BY <1>3 DEF vars, gdb, target, DialogueInv, PromptInv, WaitingInv, RunningInv,
              StubInv, ModeInv, ModeIsAsked, Nothing, Sent, Served, Told, Busy
<1>4. QED BY <1>1, <1>2, <1>3, ClientDialogue, LoopDialogue DEF Next, Finished

(* The request of the client is where DialogueInv says.                    *)
LEMMA Dialogue == Spec => []DialogueInv
BY InitDialogue, DialogueStep, TypeCorrect, PTL DEF Spec

(* The guest runs in the mode that GDB asked for last, so that the mode    *)
(* Interrupted that on_interrupt leaves behind is never run in.            *)
THEOREM RunsAsAsked == Spec => []ModeIsAsked
<1>1. DialogueInv => ModeIsAsked
  BY DEF DialogueInv
<1>2. QED BY <1>1, Dialogue, PTL

(* The requests in the inbox, as OneAnswerEach counts them.                *)
LEMMA RequestCount ==
  ASSUME NEW s \in Seq(Message)
  PROVE  LET n == Cardinality({i \in DOMAIN s : s[i].op \notin {"0x03", "closed"}})
         IN  /\ AllCtrlC(s) => n = 0
             /\ \A m \in Query \cup Resume : Only(s, m) => n = 1
<1> DEFINE R == {i \in DOMAIN s : s[i].op \notin {"0x03", "closed"}}
<1>1. ASSUME AllCtrlC(s) PROVE Cardinality(R) = 0
  <2>1. R = {}
    BY <1>1, RequestFacts DEF AllCtrlC
  <2> HIDE DEF R
  <2>2. QED BY <2>1, FS_EmptySet
<1>2. ASSUME NEW m \in Query \cup Resume, Only(s, m) PROVE Cardinality(R) = 1
  <2>1. PICK i \in DOMAIN s : s[i] = m /\ \A j \in DOMAIN s \ {i} : s[j] = CtrlC
    BY <1>2 DEF Only
  <2>2. R = {i}
    BY <2>1, RequestFacts
  <2> HIDE DEF R
  <2>3. QED BY <2>2, FS_Singleton
<1>3. QED BY <1>1, <1>2

(* Each request of a client that stays gets one answer, of its kind, in    *)
(* whatever order Ctrl-C, stops and requests cross.                        *)
THEOREM AnswersOnce == Spec => []OneAnswerEach
<1>1. TypeOK /\ DialogueInv => OneAnswerEach
  <2> SUFFICES ASSUME TypeOK, DialogueInv, client # "gone"
               PROVE  /\ Cardinality({i \in DOMAIN inbox :
                                        inbox[i].op \notin {"0x03", "closed"}})
                           + Len(outbox)
                           + (IF stub = "Running" \/ outcome = "target error"
                                THEN 1 ELSE 0)
                             = IF client = "prompt" THEN 0 ELSE 1
                      /\ \A i \in DOMAIN outbox : outbox[i] = Ok <=> client = "waiting"
    BY DEF OneAnswerEach
  <2> DEFINE n == Cardinality({i \in DOMAIN inbox :
                                 inbox[i].op \notin {"0x03", "closed"}})
             b == IF stub = "Running" \/ outcome = "target error" THEN 1 ELSE 0
  <2>1. inbox \in Seq(Message) /\ outbox \in Seq(Reply)
    BY DEF TypeOK, Message, Reply
  <2>2. /\ AllCtrlC(inbox) => n = 0
        /\ \A m \in Query \cup Resume : Only(inbox, m) => n = 1
    BY <2>1, RequestCount
  <2>3. (Busy => b = 1) /\ (~Busy => b = 0)
    BY DEF Busy
  <2> HIDE DEF n, b
  <2>4. client \in {"prompt", "waiting", "running"}
    BY DEF TypeOK
  <2>5. outbox = <<>> => Len(outbox) = 0 /\ DOMAIN outbox = {}
    BY <2>1
  <2>6. Len(outbox) = 1 => DOMAIN outbox = {1}
    BY <2>1
  <2>7. n + Len(outbox) + b = IF client = "prompt" THEN 0 ELSE 1
    <3>1. Nothing => n + Len(outbox) + b = 0
      BY <2>2, <2>3, <2>5 DEF Nothing
    <3>2. \A m \in Query \cup Resume : Sent(m) => n + Len(outbox) + b = 1
      BY <2>2, <2>3, <2>5 DEF Sent
    <3>3. Served => n + Len(outbox) + b = 1
      BY <2>2, <2>3, <2>5 DEF Served
    <3>4. \A r \in Reply : Told(r) => n + Len(outbox) + b = 1
      BY <2>2, <2>3 DEF Told
    <3>5. QED BY <2>4, <3>1, <3>2, <3>3, <3>4, ReplyFacts
              DEF DialogueInv, PromptInv, WaitingInv, RunningInv
  <2>8. \A i \in DOMAIN outbox : outbox[i] = Ok <=> client = "waiting"
    BY <2>4, <2>5, <2>6 DEF DialogueInv, PromptInv, WaitingInv, RunningInv, Nothing,
                            Sent, Served, Told
  <2>9. QED BY <2>7, <2>8 DEF n, b
<1>2. QED BY <1>1, Dialogue, TypeCorrect, PTL

(* A 0x03 byte that GDB has sent is in the inbox, is kept by gdbstub as    *)
(* the one to report at the next resume, is reported, or has been dropped  *)
(* because one is kept already; so the bytes that are somewhere are no     *)
(* more than those sent without a SIGINT received for them.                *)
CtrlCsIn(s) == Cardinality({i \in DOMAIN s : s[i] = CtrlC})
Kept == IF deferred THEN 1 ELSE 0
Reported == IF outbox # <<>> /\ outbox[1].why = "SIGINT" THEN 1 ELSE 0

UnansweredInv == client # "gone" => CtrlCsIn(inbox) + Kept + Reported <= unanswered

(* The number of 0x03 bytes in an inbox, as far as the dialogue tells what *)
(* else is there.                                                          *)
LEMMA CtrlCCount ==
  ASSUME NEW s \in Seq(Message)
  PROVE  /\ AllCtrlC(s) => CtrlCsIn(s) = Len(s)
         /\ \A m \in Message \ {CtrlC} : Only(s, m) => CtrlCsIn(s) = Len(s) - 1
<1> DEFINE C == {i \in DOMAIN s : s[i] = CtrlC}
<1>1. DOMAIN s = 1 .. Len(s) /\ Len(s) \in Nat
  OBVIOUS
<1>2. IsFiniteSet(1 .. Len(s)) /\ Cardinality(1 .. Len(s)) = Len(s)
  <2>1. Cardinality(1 .. Len(s)) = IF 1 > Len(s) THEN 0 ELSE Len(s) - 1 + 1
    BY <1>1, FS_Interval
  <2>2. QED BY <1>1, <2>1, FS_Interval
<1>3. ASSUME AllCtrlC(s) PROVE Cardinality(C) = Len(s)
  <2>1. C = 1 .. Len(s)
    BY <1>1, <1>3 DEF AllCtrlC
  <2> HIDE DEF C
  <2>2. QED BY <1>2, <2>1
<1>4. ASSUME NEW m \in Message \ {CtrlC}, Only(s, m) PROVE Cardinality(C) = Len(s) - 1
  <2>1. PICK i \in DOMAIN s : s[i] = m /\ \A j \in DOMAIN s \ {i} : s[j] = CtrlC
    BY <1>4 DEF Only
  <2> DEFINE D == 1 .. Len(s)
  <2>2. C = D \ {i} /\ i \in D
    BY <1>1, <1>4, <2>1
  <2>3. IsFiniteSet(D) /\ Cardinality(D) = Len(s)
    BY <1>2
  <2> HIDE DEF C, D
  <2>4. Cardinality(D \ {i}) = IF i \in D THEN Cardinality(D) - 1 ELSE Cardinality(D)
    BY <2>3, FS_RemoveElement
  <2>5. QED BY <2>2, <2>3, <2>4
<1>5. QED BY <1>3, <1>4 DEF CtrlCsIn

(* How it changes with what is sent and served.                            *)
LEMMA CtrlCSent ==
  ASSUME NEW s \in Seq(Message), NEW m \in Message \ {CtrlC}
  PROVE  /\ AllCtrlC(s) => /\ CtrlCsIn(Append(s, CtrlC)) = CtrlCsIn(s) + 1
                           /\ CtrlCsIn(Append(s, m)) = CtrlCsIn(s)
         /\ Only(s, m) => CtrlCsIn(Append(s, CtrlC)) = CtrlCsIn(s) + 1
<1>1. /\ Append(s, m) \in Seq(Message) /\ Append(s, CtrlC) \in Seq(Message)
      /\ Len(Append(s, m)) = Len(s) + 1 /\ Len(Append(s, CtrlC)) = Len(s) + 1
      /\ Len(s) \in Nat
  BY RequestFacts
<1>2. ASSUME AllCtrlC(s)
      PROVE  /\ CtrlCsIn(Append(s, CtrlC)) = CtrlCsIn(s) + 1
             /\ CtrlCsIn(Append(s, m)) = CtrlCsIn(s)
  <2>1. AllCtrlC(Append(s, CtrlC)) /\ Only(Append(s, m), m)
    BY <1>2, AppendFacts
  <2>2. /\ CtrlCsIn(s) = Len(s) /\ CtrlCsIn(Append(s, CtrlC)) = Len(Append(s, CtrlC))
        /\ CtrlCsIn(Append(s, m)) = Len(Append(s, m)) - 1
    BY <1>1, <1>2, <2>1, CtrlCCount, Zenon
  <2>3. QED BY <1>1, <2>2
<1>3. ASSUME Only(s, m) PROVE CtrlCsIn(Append(s, CtrlC)) = CtrlCsIn(s) + 1
  <2>1. Only(Append(s, CtrlC), m)
    BY <1>3, AppendFacts
  <2>2. /\ CtrlCsIn(s) = Len(s) - 1
        /\ CtrlCsIn(Append(s, CtrlC)) = Len(Append(s, CtrlC)) - 1
    BY <1>1, <1>3, <2>1, CtrlCCount, Zenon
  <2>3. QED BY <1>1, <2>2
<1>4. QED BY <1>2, <1>3

(* How it changes with what is served.                                     *)
LEMMA CtrlCServed ==
  ASSUME NEW s \in Seq(Message), s # <<>>, NEW m \in Message \ {CtrlC}
  PROVE  /\ AllCtrlC(s) => CtrlCsIn(Tail(s)) = CtrlCsIn(s) - 1
         /\ Only(s, m) /\ Head(s) = CtrlC => CtrlCsIn(Tail(s)) = CtrlCsIn(s) - 1
         /\ Only(s, m) /\ Head(s) # CtrlC => CtrlCsIn(Tail(s)) = CtrlCsIn(s)
<1>1. Tail(s) \in Seq(Message) /\ Len(Tail(s)) = Len(s) - 1 /\ Len(s) \in Nat
  OBVIOUS
<1>2. QED BY <1>1, TailFacts, CtrlCCount

(* Where the request of a client that stays is, in a word.                 *)
LEMMA InboxFacts ==
  ASSUME TypeOK, DialogueInv, client # "gone"
  PROVE  AllCtrlC(inbox) \/ \E m \in Message \ {CtrlC} : Only(inbox, m)
<1>1. client \in {"prompt", "waiting", "running"}
  BY DEF TypeOK
<1>2. QED BY <1>1, RequestFacts DEF DialogueInv, PromptInv, WaitingInv, RunningInv,
                                    Nothing, Sent, Served, Told

(* The same of the numbers.                                                *)
LEMMA CountFacts ==
  ASSUME TypeOK, DialogueInv, client # "gone"
  PROVE  CtrlCsIn(inbox) \in Nat /\ unanswered \in Nat
<1>1. inbox \in Seq(Message)
  BY DEF TypeOK, Message
<1>2. \A m \in Message \ {CtrlC} : Only(inbox, m) => Len(inbox) # 0
  BY <1>1 DEF Only
<1>3. Len(inbox) \in Nat
  BY <1>1
<1>4. CtrlCsIn(inbox) \in Nat
  BY <1>1, <1>2, <1>3, InboxFacts, CtrlCCount
<1>5. unanswered \in 0 .. MaxUnanswered
  BY DEF TypeOK
<1>6. QED BY <1>4, <1>5

(* What the client does.                                                   *)
LEMMA ClientUnanswered ==
  ASSUME TypeOK, DialogueInv, UnansweredInv, ClientStep
  PROVE  UnansweredInv'
<1> SUFFICES ASSUME client' # "gone"
             PROVE  (CtrlCsIn(inbox) + Kept + Reported <= unanswered)'
  BY DEF UnansweredInv
<1>0. inbox \in Seq(Message) /\ outbox \in Seq(Reply) /\ MaxCtrlC \in Nat
  BY SessionAssumption DEF TypeOK, Message, Reply
<1>1. client # "gone" /\ UNCHANGED deferred
  BY DEF ClientStep, AskQuery, AskResume, AskLeave, PressCtrlC, CloseConnection,
         Receive, LoseConnection, ClientOnly
<1>2. /\ CtrlCsIn(inbox) + Kept + Reported <= unanswered /\ unanswered \in Nat
      /\ CtrlCsIn(inbox) \in Nat /\ Kept \in {0, 1} /\ Reported \in {0, 1}
      /\ unanswered \in 0 .. MaxCtrlC + 2 /\ Kept' = Kept
  <2>1. unanswered \in 0 .. MaxCtrlC + 2
    BY DEF TypeOK, MaxUnanswered
  <2>2. CtrlCsIn(inbox) + Kept + Reported <= unanswered /\ CtrlCsIn(inbox) \in Nat
    BY <1>1, CountFacts DEF UnansweredInv
  <2>3. Kept \in {0, 1} /\ Reported \in {0, 1} /\ Kept' = Kept
    BY <1>1 DEF Kept, Reported
  <2>4. QED BY <1>0, <2>1, <2>2, <2>3
<1>3. CASE AskQuery \/ AskResume
  <2>1. PICK m \in Query \cup Resume : Send(m)
    BY <1>3 DEF AskQuery, AskResume
  <2>2. AllCtrlC(inbox) /\ UNCHANGED <<outbox, unanswered>>
    BY <1>3 DEF AskQuery, AskResume, ClientOnly, DialogueInv, PromptInv, Nothing
  <2>3. CtrlCsIn(inbox') = CtrlCsIn(inbox)
    BY <1>0, <2>1, <2>2, CtrlCSent, RequestFacts DEF Send
  <2>4. UNCHANGED Reported
    BY <2>2 DEF Reported
  <2>5. QED BY <1>2, <2>2, <2>3, <2>4
<1>4. CASE PressCtrlC
  <2>1. /\ Send(CtrlC) /\ UNCHANGED outbox /\ CtrlCsIn(inbox) < MaxCtrlC
        /\ unanswered' = (IF unanswered < MaxCtrlC + 2 THEN unanswered + 1 ELSE unanswered)
    BY <1>4 DEF PressCtrlC, ClientOnly, CtrlCsIn, MaxUnanswered
  <2>2. CtrlCsIn(inbox') = CtrlCsIn(inbox) + 1
    BY <1>0, <1>1, <2>1, InboxFacts, CtrlCSent, EndIsMessage DEF Send
  <2>3. UNCHANGED Reported
    BY <2>1 DEF Reported
  <2> DEFINE n == CtrlCsIn(inbox)
  <2>4. n + Kept + Reported <= unanswered /\ n \in Nat /\ n < MaxCtrlC
    BY <1>2, <2>1
  <2> HIDE DEF n
  <2>5. n + 1 + Kept + Reported <= unanswered'
    BY <1>0, <1>2, <2>1, <2>4
  <2>6. QED BY <1>2, <2>2, <2>3, <2>5 DEF n
<1>5. CASE Receive
  <2>1. /\ outbox # <<>> /\ outbox' = Tail(outbox) /\ UNCHANGED inbox
        /\ unanswered' = IF Head(outbox).why = "SIGINT" /\ unanswered > 0
                           THEN unanswered - 1 ELSE unanswered
    BY <1>5 DEF Receive
  <2>2. \E r \in Reply : Told(r)
    BY <1>1, <2>1, ReplyFacts DEF DialogueInv, PromptInv, WaitingInv, RunningInv,
                Nothing, Sent, Served, TypeOK
  <2>3. Len(outbox) = 1 /\ Head(outbox) = outbox[1] /\ Len(Tail(outbox)) = 0
        /\ Tail(outbox) \in Seq(Reply)
    BY <1>0, <2>1, <2>2 DEF Told
  <2>4. Reported' = 0
    BY <2>1, <2>3, EmptySeq DEF Reported
  <2>5. unanswered' = IF Reported = 1 /\ unanswered > 0 THEN unanswered - 1
                                                        ELSE unanswered
    BY <2>1, <2>3 DEF Reported
  <2>6. QED BY <1>2, <2>1, <2>4, <2>5
<1>6. CASE AskLeave \/ CloseConnection \/ LoseConnection
  BY <1>6 DEF AskLeave, CloseConnection, LoseConnection
<1>7. QED BY <1>3, <1>4, <1>5, <1>6 DEF ClientStep

(* A Ctrl-C that the stub meets.                                           *)
LEMMA InterruptUnanswered ==
  ASSUME TypeOK, DialogueInv, UnansweredInv, OnInterruptIdle \/ OnInterruptRunning
  PROVE  UnansweredInv'
<1> SUFFICES ASSUME client' # "gone"
             PROVE  (CtrlCsIn(inbox) + Kept + Reported <= unanswered)'
  BY DEF UnansweredInv
<1>1. /\ inbox \in Seq(Message) /\ inbox # <<>> /\ inbox' = Tail(inbox)
      /\ Head(inbox) = CtrlC /\ UNCHANGED <<client, unanswered>>
  <2>1. CASE OnInterruptIdle
    BY <2>1, ServeFacts, MessageFacts DEF OnInterruptIdle, TypeOK, Message, gdb
  <2>2. CASE OnInterruptRunning
    BY <2>2 DEF OnInterruptRunning, TypeOK, Message, gdb
  <2>3. QED BY <2>1, <2>2
<1>2. /\ CtrlCsIn(inbox) + Kept + Reported <= unanswered /\ unanswered \in Nat
      /\ CtrlCsIn(inbox) \in Nat /\ Kept \in {0, 1} /\ Reported \in {0, 1}
      /\ Kept' \in {0, 1} /\ Reported' \in {0, 1}
  <2>1. unanswered \in Nat
    BY <1>1, CountFacts
  <2>2. CtrlCsIn(inbox) + Kept + Reported <= unanswered /\ CtrlCsIn(inbox) \in Nat
    BY <1>1, CountFacts DEF UnansweredInv
  <2>3. Kept \in {0, 1} /\ Reported \in {0, 1} /\ Kept' \in {0, 1} /\ Reported' \in {0, 1}
    BY DEF Kept, Reported
  <2>4. QED BY <2>1, <2>2, <2>3
<1>3. CtrlCsIn(inbox') = CtrlCsIn(inbox) - 1
  BY <1>1, InboxFacts, CtrlCServed, EndIsMessage
<1>4. CASE OnInterruptIdle
  <2>1. UNCHANGED Reported
    BY <1>4 DEF OnInterruptIdle, Reported
  <2>2. QED BY <1>1, <1>2, <1>3, <2>1
<1>5. CASE OnInterruptRunning
  <2>1. UNCHANGED Kept /\ stub = "Running" /\ client # "gone"
    BY <1>1, <1>5 DEF OnInterruptRunning, Kept
  <2>2. outbox = <<>>
    BY <2>1 DEF DialogueInv, PromptInv, WaitingInv, RunningInv, Nothing, Sent, Served,
                Told, Busy, TypeOK
  <2>3. Reported = 0
    BY <2>2 DEF Reported
  <2>4. QED BY <1>1, <1>2, <1>3, <2>1, <2>3
<1>6. QED BY <1>4, <1>5

(* A request served leaves the 0x03 bytes in the inbox.                    *)
LEMMA ServedCount ==
  ASSUME TypeOK, DialogueInv, client # "gone", inbox # <<>>, Head(inbox) # CtrlC
  PROVE  CtrlCsIn(Tail(inbox)) = CtrlCsIn(inbox)
<1>1. inbox \in Seq(Message)
  BY DEF TypeOK, Message
<1>2. ~AllCtrlC(inbox)
  BY <1>1, TailFacts, EndIsMessage
<1>3. QED BY <1>1, <1>2, InboxFacts, CtrlCServed

(* The requests that the stub serves.                                      *)
LEMMA StubUnanswered ==
  ASSUME TypeOK, DialogueInv, UnansweredInv, StubStep, ~OnInterruptIdle
  PROVE  UnansweredInv'
<1> SUFFICES ASSUME client' # "gone"
             PROVE  (CtrlCsIn(inbox) + Kept + Reported <= unanswered)'
  BY DEF UnansweredInv
<1>1. UNCHANGED <<client, unanswered>>
  BY DEF StubStep, AddSwBreakpoint, RemoveSwBreakpoint, AddHwWatchpoint,
         RemoveHwWatchpoint, WritePc, OnInterruptIdle, RefuseSignal, ResumeGuest,
         ReportDeferred, SetExecMode, Answer, Detach, Kill, ReadFails, gdb
<1>2. /\ CtrlCsIn(inbox) + Kept + Reported <= unanswered /\ unanswered \in Nat
      /\ CtrlCsIn(inbox) \in Nat /\ Kept \in {0, 1} /\ Reported \in {0, 1}
      /\ Kept' \in {0, 1} /\ Reported' \in {0, 1}
  <2>1. unanswered \in Nat
    BY <1>1, CountFacts
  <2>2. CtrlCsIn(inbox) + Kept + Reported <= unanswered /\ CtrlCsIn(inbox) \in Nat
    BY <1>1, CountFacts DEF UnansweredInv
  <2>3. Kept \in {0, 1} /\ Reported \in {0, 1} /\ Kept' \in {0, 1} /\ Reported' \in {0, 1}
    BY DEF Kept, Reported
  <2>4. QED BY <2>1, <2>2, <2>3
<1>3. ASSUME NEW op, Serve(op), op # "0x03"
      PROVE  /\ CtrlCsIn(inbox') = CtrlCsIn(inbox)
             /\ outbox = <<>> /\ Reported = 0
  <2>1. outbox = <<>>
    BY <1>1, <1>3, ServeDialogue
  <2>2. inbox # <<>> /\ inbox' = Tail(inbox) /\ Head(inbox) # CtrlC
    BY <1>3, ServeFacts, RequestFacts
  <2>3. QED BY <1>1, <2>1, <2>2, ServedCount DEF Reported
<1>4. ASSUME NEW op, Serve(op), op # "0x03", NEW next, NEW end, Tell(Ok, next, end),
             UNCHANGED deferred
      PROVE  (CtrlCsIn(inbox) + Kept + Reported <= unanswered)'
  <2>1. outbox' = Append(outbox, Ok)
    BY <1>1, <1>4 DEF Tell
  <2>2. outbox \in Seq(Reply) /\ Len(outbox) = 0
    BY <1>3, <1>4, EmptySeq, Zenon
  <2>3. outbox'[1] = Ok
    BY <2>1, <2>2, FirstReply, ReplyFacts, Zenon
  <2>4. Reported' = 0 /\ UNCHANGED Kept
    BY <1>4, <2>3 DEF Reported, Kept, Ok
  <2>5. QED BY <1>1, <1>2, <1>3, <1>4, <2>4
<1>5. CASE \/ AddSwBreakpoint \/ RemoveSwBreakpoint \/ AddHwWatchpoint
           \/ RemoveHwWatchpoint \/ WritePc \/ Detach
  BY <1>4, <1>5 DEF AddSwBreakpoint, RemoveSwBreakpoint, AddHwWatchpoint,
                    RemoveHwWatchpoint, WritePc, Detach, Answer
<1>6. CASE RefuseSignal \/ ResumeGuest \/ Kill \/ ReadFails
  <2>1. UNCHANGED <<Kept, Reported>>
    <3>1. UNCHANGED <<deferred, outbox>>
      BY <1>6 DEF RefuseSignal, ResumeGuest, Kill, ReadFails
    <3>2. QED BY <3>1 DEF Kept, Reported
  <2>2. CtrlCsIn(inbox') = CtrlCsIn(inbox)
    <3>1. CASE RefuseSignal \/ ResumeGuest \/ Kill
      BY <1>3, <3>1 DEF RefuseSignal, ResumeGuest, SetExecMode, Kill
    <3>2. CASE ReadFails
      <4>1. inbox # <<>> /\ inbox' = Tail(inbox) /\ Head(inbox) # CtrlC
        BY <3>2, EndIsMessage DEF ReadFails
      <4>2. QED BY <1>1, <4>1, ServedCount
    <3>3. QED BY <1>6, <3>1, <3>2
  <2>3. QED BY <1>1, <1>2, <2>1, <2>2
<1>7. CASE ReportDeferred
  <2>1. Serve("resume") /\ Kept = 1 /\ Kept' = 0
    BY <1>7 DEF ReportDeferred, SetExecMode, Kept
  <2>2. CtrlCsIn(inbox') = CtrlCsIn(inbox) /\ Reported = 0
    BY <1>3, <2>1
  <2>3. QED BY <1>1, <1>2, <2>1, <2>2
<1>8. QED BY <1>5, <1>6, <1>7 DEF StubStep

(* The loop says SIGINT of no step of the guest: it runs in the mode asked.*)
LEMMA StopIsNoInterrupt ==
  ASSUME TypeOK, DialogueInv, stub = "Running", NEW next
  PROVE  exec_mode # Interrupted /\ StopAt(next) # "SIGINT"
<1>1. exec_mode = asked /\ asked \in ResumeMode
  BY DEF DialogueInv, ModeIsAsked, TypeOK
<1>2. exec_mode.kind \in {"Step", "Continue", "RangeStep"}
  BY <1>1 DEF ResumeMode, Step, Continue, RangeStep
<1>3. exec_mode # Interrupted
  BY <1>2 DEF Interrupted
<1>4. StepExit \in {"none", "HwWatchPoint", "Err", "Halted", "Paused"}
  BY StepFacts DEF TypeOK
<1>5. CASE StepExit = "none"
  BY <1>3, <1>5 DEF StopAt
<1>6. CASE StepExit # "none"
  <2>1. StopAt(next) = StopOfExit[StepExit]
    BY <1>3, <1>6 DEF StopAt
  <2>2. StopOfExit[StepExit] # "SIGINT"
    BY <1>4, <1>6 DEF StopOfExit
  <2>3. QED BY <1>3, <2>1, <2>2
<1>7. QED BY <1>3, <1>5, <1>6

(* The loop, where it does not meet a Ctrl-C, and what follows a detach.   *)
LEMMA LoopUnanswered ==
  ASSUME TypeOK, DialogueInv, UnansweredInv,
         PollNothing \/ RunOn \/ StopGuest \/ RunToCompletion
  PROVE  UnansweredInv'
<1> SUFFICES ASSUME client' # "gone"
             PROVE  (CtrlCsIn(inbox) + Kept + Reported <= unanswered)'
  BY DEF UnansweredInv
<1>1. UNCHANGED <<client, unanswered, inbox, deferred>>
  BY DEF PollNothing, RunOn, StopGuest, Advance, RunToCompletion, gdb
<1>2. UNCHANGED <<CtrlCsIn(inbox), Kept>>
  BY <1>1 DEF CtrlCsIn, Kept
<1>3. CASE UNCHANGED outbox
  BY <1>1, <1>2, <1>3 DEF UnansweredInv, Reported
<1>4. CASE StopGuest
  <2>1. PICK why \in StopReason \cup {"Watch"}, r \in Reply :
          /\ why = StopAt(pc') /\ r.why = why
          /\ Tell(r, IF why \in {"Exited", "Terminated"} THEN "Over" ELSE "Idle",
                     IF why \in {"Exited", "Terminated"} THEN why ELSE outcome)
    BY <1>4, StopFacts
  <2>2. outbox' = Append(outbox, r)
    BY <1>1, <2>1 DEF Tell
  <2>3. stub = "Running"
    BY <1>4 DEF StopGuest, Advance
  <2>4. why # "SIGINT"
    BY <2>1, <2>3, StopIsNoInterrupt
  <2>5. outbox = <<>>
    BY <1>1, <2>3 DEF DialogueInv, PromptInv, WaitingInv, RunningInv, Nothing, Sent,
                      Served, Told, Busy, TypeOK
  <2>6. outbox \in Seq(Reply) /\ Len(outbox) = 0
    BY <2>5, EmptySeq, Zenon
  <2>7. outbox'[1] = r
    BY <2>2, <2>6, FirstReply, Zenon
  <2>8. Reported' = 0 /\ Reported = 0
    BY <2>1, <2>4, <2>5, <2>7 DEF Reported
  <2>9. QED BY <1>1, <1>2, <2>8 DEF UnansweredInv
<1>5. QED BY <1>3, <1>4 DEF PollNothing, RunOn, RunToCompletion

(* No step of anyone finds a 0x03 byte that was not sent.                  *)
LEMMA Unanswered == Spec => []UnansweredInv
<1>1. Init => UnansweredInv
  <2> SUFFICES ASSUME Init PROVE UnansweredInv
    OBVIOUS
  <2>1. inbox = <<>> /\ outbox = <<>> /\ ~deferred /\ unanswered = 0
    BY DEF Init
  <2>2. inbox \in Seq(Message) /\ AllCtrlC(inbox) /\ Len(inbox) = 0
    BY <2>1 DEF AllCtrlC
  <2>3. CtrlCsIn(inbox) = 0
    BY <2>2, CtrlCCount
  <2>4. QED BY <2>1, <2>3 DEF UnansweredInv, Kept, Reported
<1>2. TypeOK /\ DialogueInv /\ UnansweredInv /\ [Next]_vars => UnansweredInv'
  <2> SUFFICES ASSUME TypeOK, DialogueInv, UnansweredInv, [Next]_vars
               PROVE  UnansweredInv'
    OBVIOUS
  <2>1. CASE UNCHANGED vars
    <3>1. UNCHANGED <<client, inbox, deferred, outbox, unanswered>>
      BY <2>1 DEF vars, gdb
    <3>2. QED BY <3>1 DEF UnansweredInv, CtrlCsIn, Kept, Reported
  <2>2. QED BY <2>1, ClientUnanswered, InterruptUnanswered, StubUnanswered,
               LoopUnanswered DEF Next, Finished, LoopStep
<1>3. QED BY <1>1, <1>2, Dialogue, TypeCorrect, PTL DEF Spec

(* What check_watchpoints takes for touching an area reaches it.           *)
LEMMA MeetsReaches ==
  ASSUME NEW w \in WatchEntry, NEW a \in Access, Meets(w, a)
  PROVE  Reaches(w, a)
<1>1. /\ w.addr \in Nat /\ w.len \in Nat /\ w.addr < AddressSpace
      /\ a.addr \in Nat /\ a.len \in Nat \ {0} /\ AddressSpace \in Nat \ {0}
  BY SessionAssumption DEF WatchEntry, Access
<1> DEFINE end == w.addr + w.len
<1>2. end % AddressSpace <= end
  <2>1. end \in Nat
    BY <1>1
  <2> HIDE DEF end
  <2>2. end % AddressSpace \in 0 .. AddressSpace - 1
    BY <1>1, <2>1, ModDiv
  <2>3. CASE end < AddressSpace
    BY <1>1, <2>1, <2>3
  <2>4. CASE end >= AddressSpace
    BY <1>1, <2>1, <2>2, <2>4
  <2>5. QED BY <1>1, <2>1, <2>3, <2>4
<1>3. end % AddressSpace \in Int
  <2>1. end \in Nat
    BY <1>1
  <2> HIDE DEF end
  <2>2. QED BY <1>1, <2>1, ModDiv
<1>4. CASE a.addr < w.addr /\ a.addr + a.len >= w.addr
  BY <1>1, <1>4 DEF Reaches
<1>5. CASE a.addr >= w.addr /\ a.addr < end % AddressSpace
  <2>1. a.addr < end
    BY <1>1, <1>2, <1>3, <1>5
  <2>2. QED BY <1>1, <1>5, <2>1 DEF Reaches, Overlaps
<1>6. QED BY <1>4, <1>5 DEF Meets

(* The trigger told of a step is of an access that the step makes.         *)
LEMMA TriggerTrue ==
  ASSUME TypeOK, Advance, exec_mode # Interrupted, StepExit = "HwWatchPoint",
         NEW trigger, trigger = Trigger
  PROVE  WatchIsTrue(trigger)'
<1>1. /\ pc \in Nat /\ hw_watchpoints \in Seq(WatchEntry) /\ pc \in DOMAIN Code
      /\ Trigger # NoTrigger
  <2>1. pc \in Nat /\ hw_watchpoints \in Seq(WatchArea)
    BY DEF TypeOK
  <2>2. pc \in DOMAIN Code /\ Trigger # NoTrigger
    BY SessionAssumption DEF StepExit, Instruction
  <2>3. QED BY <2>1, <2>2, SessionAssumption
<1>2. Accesses \in Seq(Access)
  <2>1. Code[pc].touch \in Seq(Access)
    BY <1>1, SessionAssumption DEF Instruction
  <2>2. [addr |-> pc, len |-> 4, write |-> FALSE] \in Access
    BY <1>1 DEF Access
  <2>3. QED BY <2>1, <2>2 DEF Accesses, AccessesAt
<1>3. PICK i \in DOMAIN Accesses, j \in DOMAIN hw_watchpoints :
        /\ Listens(hw_watchpoints[j], Accesses[i]) /\ Meets(hw_watchpoints[j], Accesses[i])
        /\ Trigger = [kind |-> hw_watchpoints[j].kind, addr |-> Accesses[i].addr]
  BY <1>1, <1>2, TriggerFacts DEF Trigger
<1>4. Reaches(hw_watchpoints[j], Accesses[i])
  BY <1>1, <1>2, <1>3, MeetsReaches
<1>5. pc' \in Code[pc].next /\ stepped' = pc /\ UNCHANGED hw_watchpoints
  BY DEF Advance, StepPc, target
<1>6. AccessesAt(stepped') = Accesses
  BY <1>5 DEF Accesses
<1>7. QED BY <1>3, <1>4, <1>5, <1>6 DEF WatchIsTrue

(* What a step of the loop that stops tells of the guest is so.            *)
LEMMA StopAtTrue ==
  ASSUME TypeOK, DialogueInv, NoStopMissed, Advance,
         NEW why, why = StopAt(pc'), why # "none",
         NEW r, r.why = why, why = "Watch" => r.trigger = Trigger
  PROVE  StopIsTrue(r)'
<1>1. /\ stub = "Running" /\ exec_mode = asked /\ exec_mode # Interrupted
      /\ ran \in 0 .. 2 /\ ran' = (IF ran < 2 THEN ran + 1 ELSE ran)
      /\ UNCHANGED <<asked, breakpoints>> /\ pc' \in StepPc
  <2>1. stub = "Running" /\ exec_mode = asked
    BY DEF Advance, DialogueInv, ModeIsAsked
  <2>2. asked \in ResumeMode /\ ran \in 0 .. 2
    BY DEF TypeOK
  <2>3. exec_mode # Interrupted
    <3>1. exec_mode.kind \in {"Step", "Continue", "RangeStep"}
      BY <2>1, <2>2 DEF ResumeMode, Step, Continue, RangeStep
    <3>2. QED BY <3>1 DEF Interrupted
  <2>4. QED BY <2>1, <2>2, <2>3 DEF Advance, gdb, target
<1>2. ran' # 0 /\ (asked' = Step => ran' <= 1)
  <2>1. asked = Step => ~(ran > 0)
    BY <1>1 DEF NoStopMissed
  <2>2. QED BY <1>1, <2>1
<1>3. /\ StepExit \in {"none", "HwWatchPoint", "Err", "Halted", "Paused"}
      /\ StepExit \in {"Err", "Halted", "Paused"} => EndsAt(StepExit) /\ StepPc = {pc}
  BY StepFacts DEF TypeOK
<1>4. CASE StepExit = "HwWatchPoint"
  <2>1. why = "Watch"
    BY <1>1, <1>4 DEF StopAt, StopOfExit
  <2>2. WatchIsTrue(r.trigger)'
    <3> DEFINE trigger == r.trigger
    <3>1. trigger = Trigger
      BY <2>1
    <3> HIDE DEF trigger
    <3>2. WatchIsTrue(trigger)'
      BY <1>1, <1>4, <3>1, TriggerTrue
    <3>3. QED BY <3>2 DEF trigger
  <2>3. QED BY <1>2, <2>1, <2>2 DEF StopIsTrue
<1>5. CASE StepExit \in {"Err", "Halted", "Paused"}
  <2>1. why = StopOfExit[StepExit]
    BY <1>1, <1>5 DEF StopAt
  <2>2. /\ why = "Terminated" => StepExit = "Err"
        /\ why = "Exited" => StepExit = "Halted"
        /\ why = "SwBreak" => StepExit = "Paused"
        /\ why \in {"Terminated", "Exited", "SwBreak"}
    BY <1>5, <2>1 DEF StopOfExit
  <2>3. \A e \in {"Err", "Halted", "Paused"} : StepExit = e => EndsAt(e)'
    BY <1>1, <1>3, <1>5 DEF EndsAt
  <2>4. QED BY <1>2, <2>2, <2>3 DEF StopIsTrue
<1>6. CASE StepExit = "none"
  <2>1. \/ /\ why = "DoneStep" /\ exec_mode.kind = "RangeStep"
           /\ pc' \notin exec_mode.start .. exec_mode.end - 1
        \/ why = "SwBreak" /\ pc' \in breakpoints
        \/ why = "DoneStep" /\ exec_mode = Step /\ pc' \notin breakpoints
    BY <1>1, <1>6 DEF StopAt
  <2>2. QED BY <1>1, <1>2, <2>1 DEF StopIsTrue
<1>7. QED BY <1>3, <1>4, <1>5, <1>6

(* A true reason in an empty outbox.                                       *)
LEMMA TruthTold ==
  ASSUME NEW r \in Reply, NEW next, NEW end, Tell(r, next, end),
         client # "gone", outbox = <<>>, StopIsTrue(r)'
  PROVE  StopReasonTruthful'
<1>1. outbox' = Append(outbox, r)
  BY DEF Tell
<1>2. outbox \in Seq(Reply) /\ Len(outbox) = 0
  BY EmptySeq, Zenon
<1>3. outbox' \in Seq(Reply) /\ Len(outbox') = 1 /\ outbox'[1] = r
  BY <1>1, <1>2, FirstReply, AppendProperties, Zenon
<1>4. DOMAIN outbox' = {1}
  BY <1>3
<1>5. \A i \in DOMAIN outbox' : outbox'[i] = r
  BY <1>3, <1>4
<1>6. QED BY <1>5 DEF StopReasonTruthful, StopIsTrue, WatchIsTrue, EndsAt

(* Nothing that concerns the stop changes before GDB reads of it, but that *)
(* it may send more 0x03 bytes.                                            *)
LEMMA TruthKept ==
  ASSUME StopReasonTruthful,
         UNCHANGED <<pc, ran, stepped, breakpoints, hw_watchpoints, asked, outbox, client>>,
         unanswered > 0 => unanswered' > 0
  PROVE  StopReasonTruthful'
BY DEF StopReasonTruthful, StopIsTrue, WatchIsTrue, EndsAt

(* A 0x03 byte that is somewhere has been sent and is unanswered.          *)
LEMMA MoreThanNone ==
  ASSUME TypeOK, DialogueInv, UnansweredInv, client # "gone",
         CtrlCsIn(inbox) >= 1 \/ Kept = 1
  PROVE  unanswered > 0
<1>1. CtrlCsIn(inbox) \in Nat /\ unanswered \in Nat
  BY CountFacts
<1>2. Kept \in {0, 1} /\ Reported \in {0, 1}
  BY DEF Kept, Reported
<1>3. CtrlCsIn(inbox) + Kept + Reported <= unanswered
  BY DEF UnansweredInv
<1> DEFINE n == CtrlCsIn(inbox)
<1>4. n \in Nat /\ n + Kept + Reported <= unanswered /\ (n >= 1 \/ Kept = 1)
  BY <1>1, <1>3
<1> HIDE DEF n
<1>5. QED BY ONLY <1>1, <1>2, <1>4

(* Whatever stops the guest, GDB is told what happened: of a watchpoint    *)
(* the address and the kind that the last step accessed, of an interrupt   *)
(* one for a 0x03 byte that it has sent.                                   *)
THEOREM StopReasonsAreTrue == Spec => []StopReasonTruthful
<1>1. Init => StopReasonTruthful
  BY DEF Init, StopReasonTruthful
<1>2. /\ TypeOK /\ DialogueInv /\ NoStopMissed /\ StopReasonTruthful
      /\ UnansweredInv /\ [Next]_vars
      => StopReasonTruthful'
  <2> SUFFICES ASSUME TypeOK, DialogueInv, NoStopMissed, StopReasonTruthful,
                      UnansweredInv, [Next]_vars, client' = "running"
               PROVE  StopReasonTruthful'
    BY DEF StopReasonTruthful
  <2>1. CASE AskResume
    <3>1. outbox' = <<>>
      BY <2>1 DEF AskResume, ClientOnly, DialogueInv, PromptInv, Nothing
    <3>2. QED BY <3>1 DEF StopReasonTruthful
  <2>2. CASE ClientStep /\ ~AskResume
    <3>1. PressCtrlC
      BY <2>2 DEF ClientStep, AskQuery, AskLeave, CloseConnection, Receive,
                  LoseConnection
    <3>2. unanswered' \in {unanswered, unanswered + 1} /\ unanswered \in Nat
      <4>1. client # "gone"
        BY <3>1 DEF PressCtrlC
      <4>2. QED BY <3>1, <4>1, CountFacts DEF PressCtrlC
    <3>3. UNCHANGED <<pc, ran, stepped, breakpoints, hw_watchpoints, asked, outbox, client>>
      BY <3>1 DEF PressCtrlC, ClientOnly, guest, target, gdb
    <3>4. QED BY <3>2, <3>3, TruthKept
  <2>3. CASE StubStep \/ LoopStep \/ RunToCompletion
    <3>1. client = "running" /\ UNCHANGED <<client, asked, unanswered>>
      BY <2>3 DEF StubStep, AddSwBreakpoint, RemoveSwBreakpoint, AddHwWatchpoint,
                  RemoveHwWatchpoint, WritePc, OnInterruptIdle, RefuseSignal,
                  ResumeGuest, ReportDeferred, SetExecMode, Answer, Detach, Kill,
                  ReadFails, LoopStep, OnInterruptRunning, PollNothing, RunOn,
                  StopGuest, Advance, RunToCompletion, gdb
    <3>2. ASSUME NEW op, op # "0x03", Serve(op)
          PROVE  outbox = <<>> /\ op = "resume"
      BY <3>1, <3>2, ServeDialogue, ServeFacts, RequestFacts
    <3>3. CASE OnInterruptIdle
      BY <3>1, <3>3, TruthKept DEF OnInterruptIdle, guest
    <3>4. CASE RefuseSignal \/ ResumeGuest
      <4>1. outbox' = <<>>
        BY <3>2, <3>4 DEF RefuseSignal, ResumeGuest, SetExecMode
      <4>2. QED BY <4>1 DEF StopReasonTruthful
    <3>5. CASE ReportDeferred
      <4>1. /\ Tell(Stop("SIGINT"), "Idle", outcome) /\ ran' = 0
            /\ Serve("resume")
        BY <3>5 DEF ReportDeferred, SetExecMode
      <4>2. unanswered > 0
        <5>1. Kept = 1
          BY <3>5 DEF ReportDeferred, Kept
        <5>2. QED BY <3>1, <5>1, MoreThanNone
      <4>3. Stop("SIGINT").why = "SIGINT" /\ Stop("SIGINT") \in Reply
        BY ReplyFacts DEF Stop, StopReason
      <4>4. StopIsTrue(Stop("SIGINT"))'
        BY <3>1, <4>1, <4>2, <4>3 DEF StopIsTrue
      <4>5. outbox = <<>>
        BY <3>2, <4>1
      <4>6. QED BY <3>1, <4>1, <4>3, <4>4, <4>5, TruthTold
    <3>6. CASE \/ AddSwBreakpoint \/ RemoveSwBreakpoint \/ AddHwWatchpoint
               \/ RemoveHwWatchpoint \/ WritePc \/ Detach \/ Kill
      BY <3>2, <3>6 DEF AddSwBreakpoint, RemoveSwBreakpoint, AddHwWatchpoint,
                        RemoveHwWatchpoint, WritePc, Detach, Kill
    <3>7. CASE ReadFails
      BY <3>1, <3>7, TruthKept DEF ReadFails, guest, target
    <3>8. CASE LoopStep
      <4>1. stub = "Running" /\ outbox = <<>> /\ exec_mode = asked
        <5>1. stub = "Running"
          BY <3>8 DEF LoopStep, OnInterruptRunning, PollNothing, RunOn, StopGuest,
                      Advance
        <5>2. QED BY <3>1, <5>1 DEF DialogueInv, RunningInv, ModeIsAsked, Sent,
                                    Served, Told, Busy
      <4>2. CASE PollNothing \/ RunOn
        <5>1. outbox' = <<>>
          BY <4>1, <4>2 DEF PollNothing, RunOn
        <5>2. QED BY <5>1 DEF StopReasonTruthful
      <4>3. CASE OnInterruptRunning
        <5>1. Tell(Stop("SIGINT"), "Idle", outcome) /\ UNCHANGED <<ran, asked>>
          BY <4>3 DEF OnInterruptRunning, guest, gdb
        <5>2. ran \in 0 .. 2
          BY DEF TypeOK
        <5>3. asked = Step => ran = 0
          BY <4>1, <5>2 DEF NoStopMissed
        <5>4. unanswered > 0
          <6>1. inbox \in Seq(Message) /\ inbox # <<>> /\ Head(inbox) = CtrlC
            BY <4>3 DEF OnInterruptRunning, TypeOK, Message
          <6>2. AllCtrlC(inbox)
            BY <3>1, <4>1 DEF DialogueInv, RunningInv, Sent, Served, Told, Busy
          <6>3. CtrlCsIn(inbox) >= 1
            BY <6>1, <6>2, CtrlCCount
          <6>4. QED BY <3>1, <6>3, MoreThanNone
        <5>5. Stop("SIGINT").why = "SIGINT" /\ Stop("SIGINT") \in Reply
          BY ReplyFacts DEF Stop, StopReason
        <5>6. StopIsTrue(Stop("SIGINT"))'
          BY <3>1, <5>1, <5>2, <5>3, <5>4, <5>5 DEF StopIsTrue
        <5>7. QED BY <3>1, <4>1, <5>1, <5>5, <5>6, TruthTold
      <4>4. CASE StopGuest
        <5>1. PICK why \in StopReason \cup {"Watch"}, r \in Reply :
                /\ why = StopAt(pc') /\ r.why = why
                /\ why = "Watch" => r.trigger = Trigger
                /\ Tell(r, IF why \in {"Exited", "Terminated"} THEN "Over" ELSE "Idle",
                           IF why \in {"Exited", "Terminated"} THEN why ELSE outcome)
          BY <4>4, StopFacts
        <5>2. Advance /\ why # "none"
          BY <4>4 DEF StopGuest, StopReason
        <5>3. StopIsTrue(r)'
          BY <5>1, <5>2, StopAtTrue
        <5>4. QED BY <3>1, <4>1, <5>1, <5>3, TruthTold
      <4>5. QED BY <3>8, <4>2, <4>3, <4>4 DEF LoopStep
    <3>9. CASE RunToCompletion
      BY <3>1, <3>9 DEF RunToCompletion, DialogueInv, StubInv
    <3>10. QED BY <2>3, <3>3, <3>4, <3>5, <3>6, <3>7, <3>8, <3>9 DEF StubStep
  <2>4. CASE UNCHANGED vars
    BY <2>4, TruthKept DEF vars, guest, target, gdb
  <2>5. QED BY <2>1, <2>2, <2>3, <2>4 DEF Next, Finished
<1>3. QED BY <1>1, <1>2, Dialogue, TypeCorrect, StopsWhenItShould, Unanswered,
             PTL DEF Spec
=============================================================================
