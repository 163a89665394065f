-------------------------------- MODULE Vcpu --------------------------------
(***************************************************************************)
(* The thread that runs a 32-bit guest (loader/vcpu.rs), the callbacks and *)
(* exception handlers it enters on the guest's behalf (loader/seh.rs), and *)
(* the debugger attached to it (loader/gdb_stub.rs).                       *)
(*                                                                         *)
(* The guest's stack pointer is the number of words on its stack.  Its     *)
(* code is three one-byte instructions at 0, 1 and 2, run round and round; *)
(* the one at 0 calls the loader, returns or faults, the other two can     *)
(* carry a breakpoint.  A guest procedure leaves the stack pointer where   *)
(* it found it, and an exception handler leaves the CONTEXTRECORD alone.   *)
(*                                                                         *)
(* When an INT 3 runs, KVM reports the address of the INT 3 itself: the    *)
(* dispatch of API calls takes the ordinal from it.                        *)
(***************************************************************************)
EXTENDS Integers, Sequences, FiniteSets, SequencesExt

CONSTANTS MaxWords,     \* bound on the words on the guest's stack
          MaxFrames,    \* bound on the callbacks the guest is inside
          MaxHandlers   \* bound on the exception handlers registered

ASSUME VcpuAssumption == {MaxWords, MaxFrames, MaxHandlers} \subseteq Nat

VARIABLES vcpu,            \* where run_vcpu is: head, guest, paused, gone
          reason,          \* why it was last paused
          single_step,
          rip, rsp,
          callback_stack,  \* CallbackFrames, outermost first
          exchain,         \* TIB.pexchain: the handlers registered
          records,         \* history: exception records allocated and not freed
          callers,         \* history: the stack pointers of suspended procedures
          exit_requested, exit_code,
          gdb,             \* the GDB thread: idle, waiting, gone
          stopped,         \* the stop not yet taken, or "none"
          resume_cmd,      \* the command not yet taken, or "none"
          stop_requested,
          sw_breakpoints,  \* address to saved byte: 1 for an INT 3, 0 for the program's
          int3             \* addresses whose byte is 0xCC

guestVars == <<rip, rsp, callback_stack, exchain, records, callers>>
exitVars  == <<exit_requested, exit_code>>
runVars   == <<vcpu, reason, single_step>>
mailVars  == <<stopped, resume_cmd, stop_requested>>
bpVars    == <<sw_breakpoints, int3>>
vcpuVars  == <<guestVars, exitVars, runVars, mailVars, bpVars, gdb>>

Places  == {1, 2}
Reasons == {"Initial", "SwBreakpoint", "SingleStep", "Interrupt"}
Cmds    == {"Continue", "Step", "Kill"}

VcpuInit ==
  /\ vcpu = "paused" /\ reason = "Initial" /\ single_step = FALSE
  /\ rip = 0 /\ rsp = 1
  /\ callback_stack = <<>> /\ exchain = 0 /\ records = 0 /\ callers = <<>>
  /\ exit_requested = FALSE /\ exit_code = 0
  /\ gdb = "idle" /\ stopped = "Initial" /\ resume_cmd = "none"
  /\ stop_requested = FALSE
  /\ sw_breakpoints = <<>> /\ int3 = {}

----------------------------------------------------------------------------
(* The debugger's side of GdbState.                                        *)

\* Mutant: the command is announced but not stored.
send_nothing(cmd) == UNCHANGED resume_cmd

send_resume(cmd) == resume_cmd' = cmd

\* 'c' and 'si': GDB believes the guest stopped, and waits after resuming it.
resume ==
  /\ gdb = "idle" /\ gdb' = "waiting"
  /\ send_resume("Continue")
  /\ UNCHANGED <<guestVars, exitVars, runVars, stopped, stop_requested, bpVars>>

step ==
  /\ gdb = "idle" /\ gdb' = "waiting"
  /\ send_resume("Step")
  /\ UNCHANGED <<guestVars, exitVars, runVars, stopped, stop_requested, bpVars>>

wait_for_stop_reason ==
  /\ gdb = "waiting" /\ stopped /= "none"
  /\ gdb' = "idle" /\ stopped' = "none"
  /\ UNCHANGED <<guestVars, exitVars, runVars, resume_cmd, stop_requested, bpVars>>

\* Ctrl-C; whether the stop comes within 2 s or later, GDB goes on waiting.
on_interrupt ==
  /\ gdb = "waiting" /\ stop_requested' = TRUE
  /\ UNCHANGED <<guestVars, exitVars, runVars, stopped, resume_cmd, bpVars, gdb>>

Restored(a) == IF sw_breakpoints[a] = 0 THEN int3 \ {a} ELSE int3 \cup {a}

add_sw_breakpoint(a) ==
  /\ gdb = "idle" /\ a \notin DOMAIN sw_breakpoints
  /\ sw_breakpoints' = sw_breakpoints @@ (a :> IF a \in int3 THEN 1 ELSE 0)
  /\ int3' = int3 \cup {a}
  /\ UNCHANGED <<guestVars, exitVars, runVars, mailVars, gdb>>

remove_sw_breakpoint(a) ==
  /\ gdb = "idle" /\ a \in DOMAIN sw_breakpoints
  /\ sw_breakpoints' = Restrict(sw_breakpoints, DOMAIN sw_breakpoints \ {a})
  /\ int3' = Restored(a)
  /\ UNCHANGED <<guestVars, exitVars, runVars, mailVars, gdb>>

\* launch_gdb_stub: the session ends.
Killed ==
  /\ gdb = "idle" /\ gdb' = "gone"
  /\ send_resume("Kill")
  /\ UNCHANGED <<guestVars, exitVars, runVars, stopped, stop_requested, bpVars>>

Disconnected ==
  /\ gdb \in {"idle", "waiting"} /\ gdb' = "gone"
  /\ UNCHANGED <<guestVars, exitVars, runVars, mailVars, bpVars>>

----------------------------------------------------------------------------
(* The vCPU's side: stops, and the head of its loop.                       *)

notify_stopped(why) == /\ vcpu' = "paused" /\ reason' = why
                       /\ stopped' = why

\* The INT 3 a breakpoint stop puts back before it steps over it.
Reinstalled(cmd) ==
  IF reason = "SwBreakpoint" /\ cmd = "Continue" THEN {rip} ELSE {}

\* Every other stop leaves single-stepping off, or turns it off on Continue.
SteppingAfter(cmd) == cmd = "Step" \/ reason = "SwBreakpoint"

wait_for_resume ==
  /\ vcpu = "paused" /\ resume_cmd /= "none" /\ resume_cmd' = "none"
  /\ vcpu' = IF resume_cmd = "Kill" THEN "gone" ELSE "head"
  /\ single_step' = IF resume_cmd = "Kill" THEN single_step ELSE SteppingAfter(resume_cmd)
  /\ int3' = int3 \cup Reinstalled(resume_cmd)
  /\ UNCHANGED <<guestVars, exitVars, reason, stopped, stop_requested, sw_breakpoints, gdb>>

LeaveOnExit ==
  /\ vcpu = "head" /\ exit_requested
  /\ vcpu' = "gone"
  /\ UNCHANGED <<guestVars, exitVars, reason, single_step, mailVars, bpVars, gdb>>

StopOnRequest ==
  /\ vcpu = "head" /\ ~exit_requested
  /\ stop_requested /\ stop_requested' = FALSE
  /\ notify_stopped("Interrupt")
  /\ UNCHANGED <<guestVars, exitVars, single_step, resume_cmd, bpVars, gdb>>

EnterGuest ==
  /\ vcpu = "head" /\ ~exit_requested /\ ~stop_requested
  /\ vcpu' = "guest"
  /\ UNCHANGED <<guestVars, exitVars, reason, single_step, mailVars, bpVars, gdb>>

\* Another guest thread ends the process.
DosExit ==
  /\ ~exit_requested /\ exit_requested' = TRUE
  /\ UNCHANGED <<guestVars, exit_code, runVars, mailVars, bpVars, gdb>>

----------------------------------------------------------------------------
(* VmExit::Debug outside the loader's own ranges.                          *)

SwBreakpointStop(at) ==
  /\ at - 1 \in DOMAIN sw_breakpoints
  /\ rip' = at - 1 /\ int3' = Restored(at - 1)
  /\ single_step' = FALSE
  /\ notify_stopped("SwBreakpoint")

SingleStepStop(at) ==
  /\ at - 1 \notin DOMAIN sw_breakpoints
  /\ rip' = at /\ single_step' = FALSE
  /\ notify_stopped("SingleStep")
  /\ UNCHANGED int3

DebugExit(at) == SwBreakpointStop(at) \/ SingleStepStop(at)

Untouched == <<rsp, callback_stack, exchain, records, callers, exitVars,
               resume_cmd, stop_requested, sw_breakpoints, gdb>>

\* The guest runs the instruction at rip, one past the entry.
RunInt3 ==
  /\ vcpu = "guest" /\ rip \in int3
  /\ DebugExit(rip)
  /\ UNCHANGED Untouched

Instruction ==
  /\ vcpu = "guest" /\ rip \notin int3
  /\ IF single_step
     THEN DebugExit((rip + 1) % 3)
     ELSE /\ rip' = (rip + 1) % 3
          /\ UNCHANGED <<runVars, stopped, int3>>
  /\ UNCHANGED Untouched

----------------------------------------------------------------------------
(* Calls into the loader that come back: ApiResult and FrameKind.          *)

Frame(kind, saved_rsp, next, allocs) ==
  [kind |-> kind, saved_rsp |-> saved_rsp, next |-> next, allocs |-> allocs]

\* The instruction at 0 traps; the loader's work ends at the head of the loop.
Trap == /\ vcpu = "guest" /\ rip = 0 /\ vcpu' = "head"
        /\ UNCHANGED <<rip, reason, single_step, mailVars, bpVars, gdb>>

Fits(words) == rsp + words <= MaxWords /\ Len(callback_stack) < MaxFrames

\* Mutant: the frame keeps the return address on the stack.
EnteredOnTop(frame, pushed) ==
  /\ callback_stack' = Append(callback_stack, [frame EXCEPT !.saved_rsp = @ + 1])
  /\ rsp' = rsp + pushed
  /\ callers' = Append(callers, rsp)

\* A procedure of the guest is entered: its frame, what is pushed to call it,
\* and the caller left behind.
Entered(frame, pushed) ==
  /\ callback_stack' = Append(callback_stack, frame)
  /\ rsp' = rsp + pushed
  /\ callers' = Append(callers, rsp)

\* The CALL pushes a word; the loader takes it as the saved return address and
\* pushes the trap's address and four arguments, or two for _DLL_InitTerm.
Callback ==
  /\ Trap /\ Fits(6) /\ Entered(Frame("PmCallback", rsp, 0, 0), 6)
  /\ UNCHANGED <<exchain, records, exitVars>>

WmCreateCallback ==
  /\ Trap /\ Fits(6) /\ Entered(Frame("WmCreate", rsp, 0, 0), 6)
  /\ UNCHANGED <<exchain, records, exitVars>>

DlgRunLoop ==
  /\ Trap /\ Fits(6) /\ Entered(Frame("DlgRunLoop", rsp, 0, 0), 6)
  /\ UNCHANGED <<exchain, records, exitVars>>

CallGuest ==
  /\ Trap /\ Fits(4)
  /\ \E kind \in {"InitTerm", "InitTermUnload"} : Entered(Frame(kind, rsp, 0, 0), 4)
  /\ UNCHANGED <<exchain, records, exitVars>>

\* A call that returns at once, or a Far16 thunk whose frame is found and undone.
Normal ==
  /\ Trap
  /\ UNCHANGED <<rsp, callback_stack, callers, exchain, records, exitVars>>

----------------------------------------------------------------------------
(* Exceptions.                                                             *)

dos_set_exception_handler ==
  /\ Trap /\ exchain < MaxHandlers /\ exchain' = exchain + 1
  /\ UNCHANGED <<rsp, callback_stack, callers, records, exitVars>>

\* Unset takes one record off, DosUnwindException all above its target.
dos_unset_exception_handler ==
  /\ Trap /\ exchain > 0 /\ exchain' = exchain - 1
  /\ UNCHANGED <<rsp, callback_stack, callers, records, exitVars>>

dos_unwind_exception ==
  /\ Trap /\ \E target \in 0 .. exchain : exchain' = target
  /\ UNCHANGED <<rsp, callback_stack, callers, records, exitVars>>

setup_exception_dispatch(next, allocs, pushed) ==
  Entered(Frame("ExceptionHandler", rsp, next, allocs), pushed)

\* The stub and the CPU pushed five words below the fault's stack pointer.
HardwareFault ==
  /\ Trap /\ exchain > 0 /\ Fits(10)
  /\ setup_exception_dispatch(exchain - 1, 2, 10)
  /\ records' = records + 2
  /\ UNCHANGED <<exchain, exitVars>>

\* A crash report, and the process ends with code 1.
Crash ==
  /\ exit_code' = 1 /\ exit_requested' = TRUE /\ vcpu' = "gone"
  /\ UNCHANGED <<reason, single_step, mailVars, bpVars, gdb>>

UnhandledFault ==
  /\ vcpu = "guest" /\ rip = 0 /\ exchain = 0
  /\ Crash
  /\ UNCHANGED guestVars

\* A stray INT 3 of the program, HLT and the exit trap end the process with
\* the code it has; a triple fault, an unknown exit and a failed run with 1.
GuestEnds ==
  /\ vcpu = "guest" /\ rip = 0
  /\ vcpu' = "gone" /\ exit_requested' = TRUE
  /\ exit_code' \in {exit_code, 1}
  /\ UNCHANGED <<guestVars, reason, single_step, mailVars, bpVars, gdb>>

dos_raise_exception ==
  /\ Trap /\ exchain > 0 /\ Fits(6)
  /\ setup_exception_dispatch(exchain - 1, 1, 6)
  /\ records' = records + 1
  /\ UNCHANGED <<exchain, exitVars>>

----------------------------------------------------------------------------
(* CALLBACK_RET_TRAP: a procedure returns to the loader.                   *)

Top == Last(callback_stack)

\* The RET pops a word, and the frame's caller goes on.
ReturnsTo(saved_rsp) ==
  /\ callback_stack' = Front(callback_stack)
  /\ rsp' = saved_rsp
  /\ callers' = Front(callers)

CallbackReturns ==
  /\ Trap /\ callback_stack /= <<>> /\ Top.kind /= "ExceptionHandler"
  /\ ReturnsTo(Top.saved_rsp)
  /\ UNCHANGED <<exchain, records, exitVars>>

\* The dialog is still up: the next message goes out from where the last
\* procedure ended, in a frame with the same way back.
NextDialogMessage ==
  /\ Trap /\ callback_stack /= <<>> /\ Top.kind = "DlgRunLoop"
  /\ rsp + 4 <= MaxWords /\ rsp' = rsp - 1 + 5
  /\ UNCHANGED <<callback_stack, callers, exchain, records, exitVars>>

\* Mutant: the records stay allocated.
FreeNothing(n) == UNCHANGED records

free_exception_records(n) == records' = records - n

ContinueExecution ==
  /\ Trap /\ callback_stack /= <<>> /\ Top.kind = "ExceptionHandler"
  /\ ReturnsTo(Top.saved_rsp)
  /\ free_exception_records(Top.allocs)
  /\ UNCHANGED <<exchain, exitVars>>

ContinueSearch ==
  /\ Trap /\ callback_stack /= <<>> /\ Top.kind = "ExceptionHandler"
  /\ Top.next > 0 /\ rsp + 4 <= MaxWords
  /\ rsp' = rsp - 1 + 5
  /\ callback_stack' = Append(Front(callback_stack), [Top EXCEPT !.next = @ - 1])
  /\ UNCHANGED <<callers, exchain, records, exitVars>>

ChainExhausted ==
  /\ vcpu = "guest" /\ rip = 0
  /\ callback_stack /= <<>> /\ Top.kind = "ExceptionHandler" /\ Top.next = 0
  /\ Crash
  /\ callback_stack' = Front(callback_stack)
  /\ free_exception_records(Top.allocs)
  /\ UNCHANGED <<rip, rsp, callers, exchain>>

----------------------------------------------------------------------------

GdbNext == \/ resume \/ step \/ wait_for_stop_reason \/ on_interrupt
           \/ \E a \in Places : add_sw_breakpoint(a) \/ remove_sw_breakpoint(a)
           \/ Killed \/ Disconnected

StopNext == \/ wait_for_resume \/ LeaveOnExit \/ StopOnRequest \/ EnterGuest
            \/ RunInt3 \/ Instruction

TrapNext == \/ Callback \/ WmCreateCallback \/ DlgRunLoop \/ CallGuest \/ Normal
            \/ dos_set_exception_handler \/ dos_unset_exception_handler
            \/ dos_unwind_exception
            \/ HardwareFault \/ UnhandledFault \/ GuestEnds \/ dos_raise_exception
            \/ CallbackReturns \/ NextDialogMessage \/ ContinueExecution
            \/ ContinueSearch \/ ChainExhausted

VcpuNext == GdbNext \/ StopNext \/ TrapNext \/ DosExit

VcpuSpec == VcpuInit /\ [][VcpuNext]_vcpuVars

----------------------------------------------------------------------------
(* Properties.                                                             *)

Frames == [kind : {"PmCallback", "WmCreate", "DlgRunLoop", "InitTerm",
                   "InitTermUnload", "ExceptionHandler"},
           saved_rsp : 1 .. MaxWords, next : 0 .. MaxHandlers, allocs : 0 .. 2]

\* Type invariant: the registers, the frames and the two mailboxes stay within
\* their domains, and a stopped vCPU is not single-stepping after a breakpoint
\* (set_single_step(false) precedes both kinds of debug stop).
VcpuTypeOK ==
  /\ vcpu \in {"head", "guest", "paused", "gone"} /\ reason \in Reasons
  /\ rip \in 0 .. 2 /\ rsp \in 1 .. MaxWords
  /\ callback_stack \in Seq(Frames) /\ callers \in Seq(1 .. MaxWords)
  /\ exchain \in 0 .. MaxHandlers /\ records \in Nat
  /\ exit_requested \in BOOLEAN /\ exit_code \in {0, 1}
  /\ gdb \in {"idle", "waiting", "gone"}
  /\ stopped \in Reasons \cup {"none"} /\ resume_cmd \in Cmds \cup {"none"}
  /\ stop_requested \in BOOLEAN
  /\ sw_breakpoints \in UNION {[S -> {0, 1}] : S \in SUBSET Places} /\ int3 \subseteq 0 .. 2
  /\ single_step \in BOOLEAN
  /\ vcpu = "paused" /\ reason \in {"SwBreakpoint", "SingleStep"} => ~single_step

\* When a guest procedure that called the loader, or faulted, goes on, its stack
\* pointer is what it was, however many messages or handlers ran in between
\* (saved_rsp in the frames of vcpu.rs).
ReturnsToCaller ==
  [][Len(callers') < Len(callers) => rsp' = Last(callers)]_vcpuVars

\* A frame's records, numbered, for all frames.
RecordsOf(s) == UNION {{i} \X (1 .. s[i].allocs) : i \in DOMAIN s}

\* The exception records in guest memory are those of the handlers being run:
\* each is freed once, whether a handler continues, the search goes on or the
\* chain is exhausted (guest_allocs of vcpu.rs, free_exception_records).
RecordsFreed == records = Cardinality(RecordsOf(callback_stack))

\* The debugger and the vCPU never wait for each other: while GDB waits for a
\* stop and the vCPU for a command, one of the two is in its mailbox
\* (notify_stopped and send_resume store before they wake).
NoMutualWait ==
  gdb = "waiting" /\ vcpu = "paused" => stopped /= "none" \/ resume_cmd /= "none"

=============================================================================
