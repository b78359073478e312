-------------------------------- MODULE Main --------------------------------
(***************************************************************************)
(* main of src/main.rs: the program is loaded, the serialized input        *)
(* written to stdin, the debugger takes over and the guest runs, and the   *)
(* outputs are read and printed.                                           *)
(*                                                                         *)
(* A run of the debugger is what it lets the guest do, in the order that   *)
(* DebugSession gives: ecalls, GDB's transfer of the program, and the end  *)
(* of the session at any time, when GDB kills it or is lost.               *)
(***************************************************************************)
EXTENDS Ecalls, Loader, HostIo, Serializer

CONSTANT
  Scenarios        (* what may happen: the file, the input, the guest's    *)
                   (* SOFTWARE ecalls, whether GDB asks for the file       *)

ASSUME MainAssumption ==
  \A s \in Scenarios : s.file \in File /\ s.calls \subseteq Call /\ s.input \in Values

VARIABLES
  input,           (* the value to be serialized                           *)
  phase,           (* setup, connect, takeover, read, print, finished      *)
  fd,              (* the next output to be read or printed                *)
  shown            (* what has been printed                                *)

mainVars == <<machine, loaderVars, hostIoVars, input, phase, fd, shown>>

Init ==
  /\ SyscallInit /\ LoaderInit /\ HostIoInit
  /\ \E s \in Scenarios :
       /\ file = s.file /\ elf = s.file.data
       /\ input = s.input
       /\ guest = s.calls
       /\ io = IF s.transfer THEN "name" ELSE "unasked"
  /\ phase = "setup" /\ fd = 1
  /\ shown = [f \in Output |-> <<>>]

-----------------------------------------------------------------------------
(* The file `code` cannot be opened or read.                               *)
NoCode ==
  /\ phase = "setup" /\ load = "header" /\ status = "setup" /\ ~file.readable
  /\ status' = "panicked"
  /\ UNCHANGED <<bytes, guest, a0, a1, exit_code, position, cycle, ends, seen,
                 loaderVars, hostIoVars, input, phase, fd, shown>>

(* An error ends the process: its result is unwrapped.                     *)
Load ==
  /\ phase = "setup" /\ file.readable
  /\ LoaderStep
  /\ UNCHANGED <<syscallVars, hostIoVars, input, phase, fd, shown>>

(* bytemuck::cast_slice of words, which are four bytes each.               *)
AsBytes(words) ==
  [i \in 1 .. 4 * Len(words) |-> words[(i - 1) \div 4 + 1][((i - 1) % 4) + 1]]

(* Simulator::write; debugger_takeover comes next.                         *)
GiveInput ==
  /\ phase = "setup" /\ load = "Ok"
  /\ ToVec[input].outcome = "Ok"
  /\ Start(AsBytes(ToVec[input].words))
  /\ phase' = "connect"
  /\ UNCHANGED <<loaderVars, hostIoVars, input, fd, shown>>

RefuseInput ==
  /\ phase = "setup" /\ load = "Ok" /\ status = "setup"
  /\ ToVec[input].outcome # "Ok"
  /\ status' = "panicked"
  /\ UNCHANGED <<bytes, guest, a0, a1, exit_code, position, cycle, ends, seen,
                 loaderVars, hostIoVars, input, phase, fd, shown>>

(* wait_for_tcp: GDB connects, or the port cannot be had, which is an Err  *)
(* of debugger_takeover that main unwraps.                                 *)
Connect ==
  /\ phase = "connect" /\ status = "running"
  /\ phase' = "takeover"
  /\ UNCHANGED <<machine, loaderVars, hostIoVars, input, fd, shown>>

NoConnection ==
  /\ phase = "connect" /\ status = "running"
  /\ status' = "panicked"
  /\ UNCHANGED <<bytes, guest, a0, a1, exit_code, position, cycle, ends, seen,
                 loaderVars, hostIoVars, input, phase, fd, shown>>

Guest ==
  /\ phase = "takeover"
  /\ EcallStep
  /\ UNCHANGED <<loaderVars, hostIoVars, input, phase, fd, shown>>

Transfer ==
  /\ phase = "takeover" /\ status # "panicked"
  /\ HostIoStep
  /\ UNCHANGED <<machine, loaderVars, input, phase, fd, shown>>

TakeoverReturns ==
  /\ phase = "takeover" /\ status # "panicked"
  /\ phase' = "read"
  /\ UNCHANGED <<machine, loaderVars, hostIoVars, input, fd, shown>>

(* The three outputs in order: all are read, then all are printed.         *)
NextOutput(next) ==
  IF fd < 3 THEN fd' = fd + 1 /\ UNCHANGED phase
            ELSE fd' = 1 /\ phase' = next

ReadOutput ==
  /\ phase = "read"
  /\ ReadToEnd(fd)
  /\ NextOutput("print")
  /\ UNCHANGED <<loaderVars, hostIoVars, input, shown>>

(* An output that is not UTF-8 ends the process; an empty one is skipped.  *)
PrintOutput ==
  /\ phase = "print" /\ status # "panicked"
  /\ IF channel[fd] # <<>> /\ ~Utf8(taken[fd])
       THEN status' = "panicked" /\ UNCHANGED <<phase, fd, shown>>
       ELSE /\ shown' = [shown EXCEPT ![fd] = IF channel[fd] # <<>> THEN taken[fd] ELSE @]
            /\ NextOutput("finished")
            /\ UNCHANGED status
  /\ UNCHANGED <<bytes, guest, a0, a1, exit_code, position, cycle, ends, seen,
                 loaderVars, hostIoVars, input>>

(* The process has ended.                                                  *)
Exit ==
  /\ load = "Err" \/ status = "panicked" \/ phase = "finished"
  /\ UNCHANGED mainVars

MainStep == NoCode \/ Load \/ GiveInput \/ RefuseInput \/ ReadOutput \/ PrintOutput

Next == \/ MainStep \/ Connect \/ NoConnection
        \/ Guest \/ Transfer \/ TakeoverReturns \/ Exit

(* One thread goes from call to call; GDB need not connect, and the guest  *)
(* and GDB need not end.                                                   *)
Spec == Init /\ [][Next]_mainVars /\ WF_mainVars(MainStep)

-----------------------------------------------------------------------------
(* Properties.                                                             *)

(* The guest starts in the memory that the file describes.                 *)
LoadsImage == load = "Ok" /\ status = "setup" => bytes = Image(file)

(* The guest can tell its inputs apart and where each ends: of two values  *)
(* of a type, the words of one do not begin the words of the other.        *)
InputUnambiguous ==
  phase = "takeover" =>
    \A type \in InputTypes : input \in type =>
      \A v \in type \ {input} :
        ToVec[v].outcome = "Ok" =>
          /\ ~IsPrefix(ToVec[input].words, ToVec[v].words)
          /\ ~IsPrefix(ToVec[v].words, ToVec[input].words)

(* The text of the input reaches a guest that reads stdin byte by byte in  *)
(* its order, behind its length, although it is put into words, cast back  *)
(* to bytes and delivered in words and unaligned ends.                     *)
TextArrives ==
  input.kind = "text" /\ status = "running" =>
    \A i \in DOMAIN got : i > 4 /\ i <= 4 + Len(input.s) =>
                            got[i] \in {input.s[i - 4], Discarded}

(* What has been printed when main is done: all that the guest has sent to *)
(* the outputs before the first that is not UTF-8, and nothing of the      *)
(* outputs behind it, which were read but are lost with the process.       *)
Printable(f) == \A g \in 1 .. f : Utf8(sent[g])
Printed ==
  /\ shown = [f \in Output |-> IF Printable(f) THEN sent[f] ELSE <<>>]
  /\ phase = "finished" <=> Printable(3)

(* It comes to that: each output is printed once and in order, also if GDB *)
(* killed the guest or it failed.                                          *)
OutputsPrinted ==
  (phase = "read") ~> ((phase = "finished" \/ status = "panicked") /\ Printed)
=============================================================================
