---------------------------- MODULE Guest_proofs ----------------------------
(***************************************************************************)
(* Proofs about the code a guest runs: that the vCPU returns every         *)
(* procedure to the stack pointer it was suspended at and never waits for  *)
(* a debugger that waits for it (module Vcpu), that the DLLs a program     *)
(* holds stay registered and mapped and are not entered again while they   *)
(* load (module Dlls), that flat and 16:16 addresses name the same bytes   *)
(* (module Descriptors), and that the calls of a 16-bit program return     *)
(* with its stack and its results (module NeImages), for any stacks,       *)
(* handlers, threads, modules, import graphs, segments and calls.          *)
(***************************************************************************)
EXTENDS Vcpu, Loading, SequenceTheorems, FiniteSetTheorems, NaturalsInduction,
        WellFoundedInduction, TLAPS

\* A frame; only those of exception handlers have records.
FrameRecord ==
  {f \in [kind : {"PmCallback", "WmCreate", "DlgRunLoop", "InitTerm", "InitTermUnload",
                  "ExceptionHandler"},
          saved_rsp : Int, next : Int, allocs : Nat] :
     f.kind # "ExceptionHandler" => f.allocs = 0}

VcpuTypes ==
  /\ callback_stack \in Seq(FrameRecord) /\ callers \in Seq(Int)
  /\ rsp \in Int /\ exchain \in Int

\* While the vCPU runs, the frames hold the stack pointers of the procedures
\* that are suspended, in the same order.
FramesMatch ==
  vcpu # "gone" =>
    /\ Len(callers) = Len(callback_stack)
    /\ \A i \in 1 .. Len(callers) : callers[i] = callback_stack[i].saved_rsp

VcpuInv == VcpuTypes /\ FramesMatch

----------------------------------------------------------------------------

\* Nothing is suspended when the guest starts.
LEMMA VcpuInitInv == VcpuInit => VcpuInv /\ NoMutualWait
<1> SUFFICES ASSUME VcpuInit PROVE VcpuInv /\ NoMutualWait
  OBVIOUS
<1>1. <<>> \in Seq(FrameRecord) /\ <<>> \in Seq(Int)
  BY EmptySeq
<1>2. VcpuTypes
  BY <1>1 DEF VcpuInit, VcpuTypes
<1>3. FramesMatch /\ NoMutualWait
  BY EmptySeq DEF VcpuInit, FramesMatch, NoMutualWait
<1>4. QED
  BY <1>2, <1>3 DEF VcpuInv

\* What Append, Front and Last do to a sequence.
LEMMA EndsOfSeq ==
  ASSUME NEW S, NEW s \in Seq(S), s # <<>>
  PROVE  /\ Len(s) \in Nat \ {0} /\ Last(s) = s[Len(s)] /\ Last(s) \in S
         /\ Front(s) \in Seq(S) /\ Len(Front(s)) = Len(s) - 1
         /\ \A i \in 1 .. Len(s) - 1 : Front(s)[i] = s[i]
<1>1. Len(s) \in Nat /\ Len(s) # 0
  BY EmptySeq, LenProperties
<1>2. Len(s) \in 1 .. Len(s) /\ s[Len(s)] \in S
  BY <1>1, ElementOfSeq
<1>3. \A i \in 1 .. Len(s) - 1 : s[i] \in S
  BY <1>1, ElementOfSeq
<1>4. Len(s) - 1 \in Int
  BY <1>1
<1>5. /\ Front(s) \in Seq(S) /\ Len(Front(s)) = IF 1 <= Len(s) - 1 THEN Len(s) - 1 - 1 + 1 ELSE 0
      /\ \A i \in 1 .. Len(s) - 1 - 1 + 1 : Front(s)[i] = s[1 + i - 1]
  BY <1>3, <1>4, SubSeqProperties DEF Front
<1>6. ASSUME NEW i \in 1 .. Len(s) - 1 PROVE Front(s)[i] = s[i]
  <2>1. i \in 1 .. Len(s) - 1 - 1 + 1 /\ 1 + i - 1 = i
    BY <1>1
  <2>2. QED
    BY <2>1, <1>5
<1>7. Len(Front(s)) = Len(s) - 1
  <2>1. PICK n \in Nat \ {0} : n = Len(s)
    BY <1>1
  <2>2. Len(Front(s)) = IF 1 <= n - 1 THEN n - 1 - 1 + 1 ELSE 0
    BY <2>1, <1>5
  <2>3. Len(Front(s)) = n - 1
    BY <2>2
  <2>4. QED
    BY <2>1, <2>3
<1>8. QED
  BY <1>1, <1>2, <1>5, <1>6, <1>7 DEF Last

\* A procedure is entered in a frame that keeps the caller's stack pointer.
LEMMA EnteredMatches ==
  ASSUME VcpuInv, vcpu # "gone", NEW f \in FrameRecord, f.saved_rsp = rsp,
         NEW n \in Int, Entered(f, n), exchain' \in Int
  PROVE  VcpuInv' /\ ~(Len(callers') < Len(callers))
<1>1. /\ callback_stack \in Seq(FrameRecord) /\ callers \in Seq(Int) /\ rsp \in Int
      /\ Len(callers) = Len(callback_stack) /\ Len(callers) \in Nat
      /\ \A i \in 1 .. Len(callers) : callers[i] = callback_stack[i].saved_rsp
  BY LenProperties DEF VcpuInv, VcpuTypes, FramesMatch
<1>2. /\ callback_stack' \in Seq(FrameRecord) /\ Len(callback_stack') = Len(callback_stack) + 1
      /\ \A i \in 1 .. Len(callback_stack) : callback_stack'[i] = callback_stack[i]
      /\ callback_stack'[Len(callback_stack) + 1] = f
  BY <1>1, AppendProperties DEF Entered
<1>3. /\ callers' \in Seq(Int) /\ Len(callers') = Len(callers) + 1
      /\ \A i \in 1 .. Len(callers) : callers'[i] = callers[i]
      /\ callers'[Len(callers) + 1] = rsp
  BY <1>1, AppendProperties DEF Entered
<1>4. rsp' \in Int
  BY <1>1 DEF Entered
<1>5. ASSUME NEW i \in 1 .. Len(callers')
      PROVE  callers'[i] = callback_stack'[i].saved_rsp
  <2>1. CASE i = Len(callers) + 1
    BY <2>1, <1>1, <1>2, <1>3
  <2>2. CASE i \in 1 .. Len(callers)
    BY <2>2, <1>1, <1>2, <1>3
  <2>3. QED
    BY <2>1, <2>2, <1>1, <1>3
<1>6. QED
  BY <1>1, <1>2, <1>3, <1>4, <1>5 DEF VcpuInv, VcpuTypes, FramesMatch

\* A procedure returns to the caller its frame names.
LEMMA ReturnMatches ==
  ASSUME VcpuInv, vcpu # "gone", callback_stack # <<>>, ReturnsTo(Top.saved_rsp), exchain' \in Int
  PROVE  VcpuInv' /\ rsp' = Last(callers)
<1>1. /\ callback_stack \in Seq(FrameRecord) /\ callers \in Seq(Int) /\ rsp \in Int
      /\ Len(callers) = Len(callback_stack)
      /\ \A i \in 1 .. Len(callers) : callers[i] = callback_stack[i].saved_rsp
  BY DEF VcpuInv, VcpuTypes, FramesMatch
<1>2. /\ Len(callback_stack) \in Nat \ {0} /\ Last(callback_stack) = callback_stack[Len(callback_stack)]
      /\ Last(callback_stack) \in FrameRecord
      /\ Front(callback_stack) \in Seq(FrameRecord)
      /\ Len(Front(callback_stack)) = Len(callback_stack) - 1
      /\ \A i \in 1 .. Len(callback_stack) - 1 : Front(callback_stack)[i] = callback_stack[i]
  BY <1>1, EndsOfSeq
<1>3. callers # <<>>
  BY <1>1, <1>2, EmptySeq
<1>4. /\ Last(callers) = callers[Len(callers)] /\ Front(callers) \in Seq(Int)
      /\ Len(Front(callers)) = Len(callers) - 1
      /\ \A i \in 1 .. Len(callers) - 1 : Front(callers)[i] = callers[i]
  BY <1>1, <1>3, EndsOfSeq
<1>5. /\ callback_stack' = Front(callback_stack) /\ callers' = Front(callers)
      /\ rsp' = Last(callback_stack).saved_rsp
  BY DEF ReturnsTo, Top
<1>6. rsp' \in Int
  BY <1>2, <1>5 DEF FrameRecord
<1>7. Last(callback_stack).saved_rsp = Last(callers)
  BY <1>1, <1>2, <1>4
<1>8. ASSUME NEW i \in 1 .. Len(callers') PROVE callers'[i] = callback_stack'[i].saved_rsp
  <2>1. i \in 1 .. Len(callers) - 1 /\ i \in 1 .. Len(callers) /\ i \in 1 .. Len(callback_stack) - 1
    <3>1. Len(callers') = Len(callers) - 1 /\ Len(callback_stack) = Len(callers)
      BY <1>1, <1>4, <1>5
    <3>2. Len(callers) \in Nat
      BY <1>1, LenProperties
    <3>3. i \in 1 .. Len(callers) - 1
      BY <1>8, <3>1
    <3>4. i \in 1 .. Len(callers)
      BY <3>2, <3>3
    <3>5. QED
      BY <3>1, <3>3, <3>4
  <2>2. callers'[i] = callers[i] /\ callback_stack'[i] = callback_stack[i]
    BY <2>1, <1>2, <1>4, <1>5
  <2>3. QED
    BY <2>1, <2>2, <1>1
<1>9. QED
  BY <1>1, <1>2, <1>4, <1>5, <1>6, <1>7, <1>8 DEF VcpuInv, VcpuTypes, FramesMatch

\* The search for a handler goes on in the same frame.
LEMMA SearchMatches ==
  ASSUME VcpuInv, vcpu # "gone", ContinueSearch
  PROVE  VcpuInv' /\ callers' = callers
<1>1. /\ callback_stack \in Seq(FrameRecord) /\ callers \in Seq(Int) /\ rsp \in Int /\ exchain \in Int
      /\ Len(callers) = Len(callback_stack)
      /\ \A i \in 1 .. Len(callers) : callers[i] = callback_stack[i].saved_rsp
  BY DEF VcpuInv, VcpuTypes, FramesMatch
<1>2. /\ callback_stack # <<>> /\ rsp' = rsp - 1 + 5 /\ callers' = callers /\ exchain' = exchain
      /\ callback_stack' = Append(Front(callback_stack), [Top EXCEPT !.next = @ - 1])
  BY DEF ContinueSearch
<1> DEFINE f == Front(callback_stack)
           g == [Top EXCEPT !.next = @ - 1]
<1>3. /\ Len(callback_stack) \in Nat \ {0} /\ Top = callback_stack[Len(callback_stack)]
      /\ Top \in FrameRecord
      /\ f \in Seq(FrameRecord)
      /\ Len(f) = Len(callback_stack) - 1
      /\ \A i \in 1 .. Len(callback_stack) - 1 : f[i] = callback_stack[i]
  BY <1>1, <1>2, EndsOfSeq DEF Top
<1>4. g \in FrameRecord /\ g.saved_rsp = Top.saved_rsp
  <2>1. PICK top \in FrameRecord : top = Top
    BY <1>3
  <2>2. /\ [top EXCEPT !.next = @ - 1] \in FrameRecord
        /\ [top EXCEPT !.next = @ - 1].saved_rsp = top.saved_rsp
    BY DEF FrameRecord
  <2>3. QED
    BY <2>1, <2>2
<1>5. callback_stack' = Append(f, g)
  BY <1>2
<1> HIDE DEF f, g
<1>6. /\ callback_stack' \in Seq(FrameRecord) /\ Len(callback_stack') = Len(callback_stack)
      /\ \A i \in 1 .. Len(callback_stack) - 1 : callback_stack'[i] = callback_stack[i]
      /\ callback_stack'[Len(callback_stack)] = g
  <2>1. /\ Append(f, g) \in Seq(FrameRecord) /\ Len(Append(f, g)) = Len(f) + 1
        /\ \A i \in 1 .. Len(f) : Append(f, g)[i] = f[i] /\ Append(f, g)[Len(f) + 1] = g
    BY <1>3, <1>4, AppendProperties
  <2>2. Len(f) + 1 = Len(callback_stack) /\ Append(f, g)[Len(f) + 1] = g
    BY <1>3, <1>4, AppendProperties
  <2>3. QED
    BY <2>1, <2>2, <1>3, <1>5
<1>7. ASSUME NEW i \in 1 .. Len(callers) PROVE callers[i] = callback_stack'[i].saved_rsp
  <2>1. CASE i = Len(callers)
    BY <2>1, <1>1, <1>3, <1>4, <1>6
  <2>2. CASE i \in 1 .. Len(callers) - 1
    BY <2>2, <1>1, <1>3, <1>6
  <2>3. QED
    BY <2>1, <2>2, <1>1, <1>3
<1>8. QED
  BY <1>1, <1>2, <1>6, <1>7 DEF VcpuInv, VcpuTypes, FramesMatch

\* A step that enters, leaves and changes no procedure.
LEMMA StackKept ==
  ASSUME VcpuInv, callback_stack' = callback_stack, callers' = callers,
         rsp' \in Int, exchain' \in Int, vcpu' # "gone" => vcpu # "gone"
  PROVE  VcpuInv' /\ ~(Len(callers') < Len(callers))
<1>1. callers \in Seq(Int) /\ Len(callers) \in Nat
  BY LenProperties DEF VcpuInv, VcpuTypes
<1>2. QED
  BY <1>1 DEF VcpuInv, VcpuTypes, FramesMatch

\* Every step keeps the frames and the suspended procedures together, and one
\* that ends a procedure restores its caller's stack pointer.
LEMMA VcpuStep ==
  ASSUME VcpuInv, VcpuNext
  PROVE  VcpuInv' /\ (Len(callers') < Len(callers) => rsp' = Last(callers))
<1>1. rsp \in Int /\ exchain \in Int
  BY DEF VcpuInv, VcpuTypes
<1>2. CASE GdbNext \/ DosExit
  <2>1. /\ callback_stack' = callback_stack /\ callers' = callers /\ rsp' = rsp
        /\ exchain' = exchain /\ vcpu' = vcpu
    BY <1>2 DEF GdbNext, DosExit, resume, step, wait_for_stop_reason, on_interrupt,
       add_sw_breakpoint, remove_sw_breakpoint, Killed, Disconnected, guestVars, runVars
  <2>2. QED
    BY <1>1, <2>1, StackKept
<1>3. CASE StopNext
  <2>1. /\ callback_stack' = callback_stack /\ callers' = callers /\ rsp' = rsp
        /\ exchain' = exchain /\ vcpu # "gone"
    BY <1>3 DEF StopNext, wait_for_resume, LeaveOnExit, StopOnRequest, EnterGuest,
       RunInt3, Instruction, Untouched, guestVars
  <2>2. QED
    BY <1>1, <2>1, StackKept
<1>4. CASE TrapNext
  <2>1. vcpu # "gone"
    BY <1>4 DEF TrapNext, Callback, WmCreateCallback, DlgRunLoop, CallGuest, Normal,
       dos_set_exception_handler, dos_unset_exception_handler, dos_unwind_exception,
       HardwareFault, UnhandledFault, GuestEnds, dos_raise_exception, CallbackReturns,
       NextDialogMessage, ContinueExecution, ContinueSearch, ChainExhausted, Trap
  <2>2. CASE Callback \/ WmCreateCallback \/ DlgRunLoop
    <3>1. PICK k \in {"PmCallback", "WmCreate", "DlgRunLoop"} :
            Entered(Frame(k, rsp, 0, 0), 6) /\ exchain' = exchain
      BY <2>2 DEF Callback, WmCreateCallback, DlgRunLoop
    <3>2. Frame(k, rsp, 0, 0) \in FrameRecord /\ Frame(k, rsp, 0, 0).saved_rsp = rsp
      BY <1>1 DEF Frame, FrameRecord
    <3>3. QED
      BY <3>1, <3>2, <1>1, <2>1, EnteredMatches
  <2>3. CASE CallGuest
    <3>1. PICK k \in {"InitTerm", "InitTermUnload"} :
            Entered(Frame(k, rsp, 0, 0), 4) /\ exchain' = exchain
      BY <2>3 DEF CallGuest
    <3>2. Frame(k, rsp, 0, 0) \in FrameRecord /\ Frame(k, rsp, 0, 0).saved_rsp = rsp
      BY <1>1 DEF Frame, FrameRecord
    <3>3. QED
      BY <3>1, <3>2, <1>1, <2>1, EnteredMatches
  <2>4. CASE HardwareFault \/ dos_raise_exception
    <3>1. PICK n \in {1, 2}, p \in {6, 10} :
            /\ Entered(Frame("ExceptionHandler", rsp, exchain - 1, n), p)
            /\ exchain' = exchain
      BY <2>4 DEF HardwareFault, dos_raise_exception, setup_exception_dispatch
    <3>2. /\ Frame("ExceptionHandler", rsp, exchain - 1, n) \in FrameRecord
          /\ Frame("ExceptionHandler", rsp, exchain - 1, n).saved_rsp = rsp
      BY <1>1 DEF Frame, FrameRecord
    <3>3. QED
      BY <3>1, <3>2, <1>1, <2>1, EnteredMatches
  <2>5. CASE Normal \/ UnhandledFault \/ GuestEnds
    BY <2>5, <1>1, <2>1, StackKept DEF Normal, UnhandledFault, GuestEnds, guestVars
  <2>6. CASE dos_set_exception_handler \/ dos_unset_exception_handler \/ dos_unwind_exception
    <3>1. /\ callback_stack' = callback_stack /\ callers' = callers /\ rsp' = rsp
          /\ exchain' \in Int
      BY <2>6, <1>1 DEF dos_set_exception_handler, dos_unset_exception_handler, dos_unwind_exception
    <3>2. QED
      BY <1>1, <2>1, <3>1, StackKept
  <2>7. CASE NextDialogMessage
    BY <2>7, <1>1, <2>1, StackKept DEF NextDialogMessage
  <2>8. CASE CallbackReturns \/ ContinueExecution
    BY <2>8, <1>1, <2>1, ReturnMatches DEF CallbackReturns, ContinueExecution
  <2>9. CASE ContinueSearch
    <3>1. VcpuInv' /\ callers' = callers /\ Len(callers) \in Nat
      BY <2>9, <2>1, SearchMatches, LenProperties DEF VcpuInv, VcpuTypes
    <3>2. QED
      BY <3>1
  <2>10. CASE ChainExhausted
    <3>1. /\ callback_stack # <<>> /\ callback_stack' = Front(callback_stack)
          /\ callers' = callers /\ rsp' = rsp /\ exchain' = exchain /\ vcpu' = "gone"
      BY <2>10 DEF ChainExhausted, Crash
    <3>2. /\ callback_stack \in Seq(FrameRecord) /\ callers \in Seq(Int) /\ Len(callers) \in Nat
      BY LenProperties DEF VcpuInv, VcpuTypes
    <3>3. Front(callback_stack) \in Seq(FrameRecord)
      BY <3>1, <3>2, EndsOfSeq
    <3>4. QED
      BY <3>1, <3>2, <3>3, <1>1 DEF VcpuInv, VcpuTypes, FramesMatch
  <2>11. QED
    BY <1>4, <2>2, <2>3, <2>4, <2>5, <2>6, <2>7, <2>8, <2>9, <2>10 DEF TrapNext
<1>5. QED
  BY <1>2, <1>3, <1>4 DEF VcpuNext

\* A procedure that called the loader or faulted goes on with the stack pointer
\* it had, whatever ran in between (saved_rsp of CallbackFrame in vcpu.rs).
THEOREM ReturnsSafe == VcpuSpec => ReturnsToCaller
<1>1. VcpuInv /\ UNCHANGED vcpuVars => VcpuInv'
  BY DEF VcpuInv, VcpuTypes, FramesMatch, vcpuVars, guestVars, runVars
<1>2. VcpuInv /\ [VcpuNext]_vcpuVars => VcpuInv'
  BY <1>1, VcpuStep
<1>3. VcpuInv /\ [VcpuNext]_vcpuVars
        => [Len(callers') < Len(callers) => rsp' = Last(callers)]_vcpuVars
  BY VcpuStep
<1>4. QED
  BY VcpuInitInv, <1>2, <1>3, PTL DEF VcpuSpec, ReturnsToCaller

-----------------------------------------------------------------------------

\* The records of a stack of frames with one more on top.
LEMMA RecordsPushed ==
  ASSUME NEW s \in Seq(FrameRecord), NEW f \in FrameRecord, IsFiniteSet(RecordsOf(s))
  PROVE  /\ IsFiniteSet(RecordsOf(Append(s, f)))
         /\ Cardinality(RecordsOf(Append(s, f))) = Cardinality(RecordsOf(s)) + f.allocs
<1> DEFINE n   == Len(s) + 1
           new == {n} \X (1 .. f.allocs)
<1>1. /\ Len(s) \in Nat /\ f.allocs \in Nat /\ DOMAIN s = 1 .. Len(s)
      /\ DOMAIN Append(s, f) = 1 .. Len(s) + 1
      /\ \A i \in 1 .. Len(s) : Append(s, f)[i] = s[i]
      /\ Append(s, f)[n] = f
  BY LenProperties, AppendProperties DEF FrameRecord
<1>2. RecordsOf(Append(s, f)) = RecordsOf(s) \cup new
  <2>1. ASSUME NEW x
        PROVE  x \in RecordsOf(Append(s, f)) <=> x \in RecordsOf(s) \cup new
    <3>1. x \in RecordsOf(Append(s, f))
            <=> \E i \in 1 .. Len(s) + 1 : x \in {i} \X (1 .. Append(s, f)[i].allocs)
      BY <1>1 DEF RecordsOf
    <3>2. x \in RecordsOf(s) <=> \E i \in 1 .. Len(s) : x \in {i} \X (1 .. s[i].allocs)
      BY <1>1 DEF RecordsOf
    <3>3. \A i \in 1 .. Len(s) + 1 : i \in 1 .. Len(s) \/ i = n
      BY <1>1
    <3>4. \A i \in 1 .. Len(s) : i \in 1 .. Len(s) + 1
      BY <1>1
    <3>5. n \in 1 .. Len(s) + 1
      BY <1>1
    <3>6. QED
      BY <1>1, <3>1, <3>2, <3>3, <3>4, <3>5
  <2>2. QED
    BY <2>1
<1>3. RecordsOf(s) \cap new = {}
  <2>1. ASSUME NEW x \in RecordsOf(s), x \in new PROVE FALSE
    <3>1. PICK i \in 1 .. Len(s) : x \in {i} \X (1 .. s[i].allocs)
      BY <1>1 DEF RecordsOf
    <3>2. x[1] = i /\ x[1] = n
      BY <2>1, <3>1
    <3>3. QED
      BY <1>1, <3>2
  <2>2. QED
    BY <2>1
<1>4. IsFiniteSet(new) /\ Cardinality(new) = f.allocs
  <2>1. IsFiniteSet({n}) /\ Cardinality({n}) = 1
    BY FS_Singleton
  <2>2. IsFiniteSet(1 .. f.allocs) /\ Cardinality(1 .. f.allocs) = f.allocs
    <3>1. PICK a \in Nat : a = f.allocs
      BY <1>1
    <3>2. IsFiniteSet(1 .. a) /\ Cardinality(1 .. a) = IF 1 > a THEN 0 ELSE a - 1 + 1
      BY FS_Interval
    <3>3. Cardinality(1 .. a) = a
      BY <3>2
    <3>4. QED
      BY <3>1, <3>2, <3>3
  <2>3. IsFiniteSet(new) /\ Cardinality(new) = Cardinality({n}) * Cardinality(1 .. f.allocs)
    BY <2>1, <2>2, FS_Product
  <2>4. QED
    BY <1>1, <2>1, <2>2, <2>3
<1> HIDE DEF new
<1>5. Cardinality(RecordsOf(s)) \in Nat /\ Cardinality({}) = 0
  BY FS_CardinalityType, FS_EmptySet
<1>6. /\ IsFiniteSet(RecordsOf(s) \cup new)
      /\ Cardinality(RecordsOf(s) \cup new)
           = Cardinality(RecordsOf(s)) + Cardinality(new) - Cardinality(RecordsOf(s) \cap new)
  BY <1>4, FS_Union
<1>7. PICK a \in Nat, c \in Nat : a = f.allocs /\ c = Cardinality(RecordsOf(s))
  BY <1>1, <1>5
<1>8. Cardinality(RecordsOf(s) \cup new) = c + a - 0
  BY <1>3, <1>4, <1>5, <1>6, <1>7
<1>9. Cardinality(RecordsOf(s) \cup new) = c + a
  BY <1>8
<1>10. QED
  BY <1>2, <1>6, <1>7, <1>9

\* The records counted so far are those of the frames.
RecordInv == IsFiniteSet(RecordsOf(callback_stack)) /\ RecordsFreed

\* A frame and its records come together.
LEMMA RecordsEntered ==
  ASSUME VcpuInv, RecordInv, NEW f \in FrameRecord, NEW n, Entered(f, n), records' = records + f.allocs
  PROVE  RecordInv'
<1>1. callback_stack \in Seq(FrameRecord) /\ callback_stack' = Append(callback_stack, f)
  BY DEF VcpuInv, VcpuTypes, Entered
<1>2. QED
  BY <1>1, RecordsPushed DEF RecordInv, RecordsFreed

\* The innermost frame and its records go together.
LEMMA RecordsLeft ==
  ASSUME VcpuInv, RecordInv, callback_stack # <<>>, callback_stack' = Front(callback_stack),
         records' = records - Top.allocs
  PROVE  RecordInv'
<1> DEFINE s == Front(callback_stack)
<1>1. /\ callback_stack \in Seq(FrameRecord) /\ s \in Seq(FrameRecord) /\ Top \in FrameRecord
      /\ Top.allocs \in Nat
  <2>1. callback_stack \in Seq(FrameRecord)
    BY DEF VcpuInv, VcpuTypes
  <2>2. s \in Seq(FrameRecord) /\ Top \in FrameRecord
    BY <2>1, EndsOfSeq DEF Top
  <2>3. QED
    BY <2>1, <2>2 DEF FrameRecord
<1>2. callback_stack = Append(s, Top)
  <2>1. /\ Len(callback_stack) \in Nat \ {0} /\ Len(s) = Len(callback_stack) - 1
        /\ Top = callback_stack[Len(callback_stack)]
        /\ \A i \in 1 .. Len(callback_stack) - 1 : s[i] = callback_stack[i]
    BY <1>1, EndsOfSeq DEF Top
  <2>2. /\ Append(s, Top) \in Seq(FrameRecord) /\ Len(Append(s, Top)) = Len(callback_stack)
        /\ \A i \in 1 .. Len(callback_stack) - 1 : Append(s, Top)[i] = callback_stack[i]
        /\ Append(s, Top)[Len(callback_stack)] = Top
    BY <1>1, <2>1, AppendProperties
  <2>3. \A i \in 1 .. Len(callback_stack) : i \in 1 .. Len(callback_stack) - 1 \/ i = Len(callback_stack)
    BY <2>1
  <2>4. \A i \in 1 .. Len(callback_stack) : Append(s, Top)[i] = callback_stack[i]
    BY <2>1, <2>2, <2>3
  <2>5. QED
    BY <1>1, <2>2, <2>4, SeqEqual
<1>3. IsFiniteSet(RecordsOf(s))
  <2>1. RecordsOf(s) \subseteq RecordsOf(callback_stack)
    <3>1. /\ Len(callback_stack) \in Nat \ {0} /\ DOMAIN s = 1 .. Len(callback_stack) - 1
          /\ DOMAIN callback_stack = 1 .. Len(callback_stack)
          /\ \A i \in 1 .. Len(callback_stack) - 1 : s[i] = callback_stack[i]
      BY <1>1, EndsOfSeq, LenProperties
    <3>2. DOMAIN s \subseteq DOMAIN callback_stack
      BY <3>1
    <3>3. QED
      BY <3>1, <3>2 DEF RecordsOf
  <2>2. QED
    BY <2>1, FS_Subset DEF RecordInv
<1> HIDE DEF s
<1>4. Cardinality(RecordsOf(callback_stack)) = Cardinality(RecordsOf(s)) + Top.allocs
  BY <1>1, <1>2, <1>3, RecordsPushed
<1>5. Cardinality(RecordsOf(s)) \in Nat
  BY <1>3, FS_CardinalityType
<1>6. records' = Cardinality(RecordsOf(s)) /\ callback_stack' = s
  BY <1>1, <1>4, <1>5 DEF RecordInv, RecordsFreed, s
<1>7. QED
  BY <1>3, <1>6 DEF RecordInv, RecordsFreed

\* The frame of a handler that passes the exception on keeps its records.
LEMMA RecordsKept ==
  ASSUME VcpuInv, RecordInv, ContinueSearch
  PROVE  RecordInv'
<1> DEFINE s == Front(callback_stack)
           g == [Top EXCEPT !.next = @ - 1]
<1>1. /\ callback_stack # <<>> /\ callback_stack' = Append(s, g) /\ records' = records
  BY DEF ContinueSearch
<1>2. /\ callback_stack \in Seq(FrameRecord) /\ s \in Seq(FrameRecord) /\ Top \in FrameRecord
      /\ Len(s) \in Nat /\ Len(callback_stack) = Len(s) + 1 /\ Top = callback_stack[Len(s) + 1]
      /\ \A i \in 1 .. Len(s) : s[i] = callback_stack[i]
  <2>1. callback_stack \in Seq(FrameRecord)
    BY DEF VcpuInv, VcpuTypes
  <2>2. /\ Len(callback_stack) \in Nat \ {0} /\ Top = callback_stack[Len(callback_stack)]
        /\ Top \in FrameRecord /\ s \in Seq(FrameRecord) /\ Len(s) = Len(callback_stack) - 1
        /\ \A i \in 1 .. Len(callback_stack) - 1 : s[i] = callback_stack[i]
    BY <1>1, <2>1, EndsOfSeq DEF Top
  <2> HIDE DEF s
  <2>3. Len(s) \in Nat /\ Len(callback_stack) = Len(s) + 1
    BY <2>2
  <2>4. QED
    BY <2>1, <2>2, <2>3
<1>3. g.allocs = Top.allocs
  <2>1. PICK top \in FrameRecord : top = Top
    BY <1>2
  <2>2. [top EXCEPT !.next = @ - 1].allocs = top.allocs
    BY DEF FrameRecord
  <2>3. QED
    BY <2>1, <2>2
<1> HIDE DEF s, g
<1>4. /\ DOMAIN callback_stack' = DOMAIN callback_stack
      /\ \A i \in DOMAIN callback_stack : callback_stack'[i].allocs = callback_stack[i].allocs
  <2>1. s \in Seq(FrameRecord \cup {g})
    BY <1>2
  <2>2. /\ Len(callback_stack') = Len(s) + 1 /\ DOMAIN callback_stack' = 1 .. Len(s) + 1
        /\ \A i \in 1 .. Len(s) : callback_stack'[i] = s[i]
        /\ callback_stack'[Len(s) + 1] = g
    BY <2>1, <1>1, AppendProperties, LenProperties
  <2>3. DOMAIN callback_stack = 1 .. Len(s) + 1
    BY <1>2, LenProperties
  <2>4. \A i \in 1 .. Len(s) + 1 : i \in 1 .. Len(s) \/ i = Len(s) + 1
    BY <1>2
  <2>5. QED
    BY <2>2, <2>3, <2>4, <1>2, <1>3
<1>5. RecordsOf(callback_stack') = RecordsOf(callback_stack)
  BY <1>4 DEF RecordsOf
<1>6. QED
  BY <1>1, <1>5 DEF RecordInv, RecordsFreed

\* Every step keeps the count.
LEMMA RecordsStep ==
  ASSUME VcpuInv, RecordInv, [VcpuNext]_vcpuVars
  PROVE  RecordInv'
<1>1. callback_stack \in Seq(FrameRecord) /\ rsp \in Int /\ exchain \in Int /\ records \in Nat
  BY FS_CardinalityType DEF VcpuInv, VcpuTypes, RecordInv, RecordsFreed
<1>2. CASE UNCHANGED <<callback_stack, records>>
  BY <1>2 DEF RecordInv, RecordsFreed
<1>3. CASE GdbNext \/ DosExit \/ UNCHANGED vcpuVars
  <2>1. UNCHANGED <<callback_stack, records>>
    BY <1>3 DEF GdbNext, DosExit, resume, step, wait_for_stop_reason, on_interrupt,
       add_sw_breakpoint, remove_sw_breakpoint, Killed, Disconnected, guestVars, vcpuVars
  <2>2. QED
    BY <1>2, <2>1
<1>4. CASE StopNext
  <2>1. UNCHANGED <<callback_stack, records>>
    BY <1>4 DEF StopNext, wait_for_resume, LeaveOnExit, StopOnRequest, EnterGuest,
       RunInt3, Instruction, Untouched, guestVars
  <2>2. QED
    BY <1>2, <2>1
<1>5. CASE TrapNext
  <2>1. CASE Callback \/ WmCreateCallback \/ DlgRunLoop \/ CallGuest
    <3>1. PICK k \in {"PmCallback", "WmCreate", "DlgRunLoop", "InitTerm", "InitTermUnload"}, n \in {4, 6} :
            Entered(Frame(k, rsp, 0, 0), n) /\ records' = records
      BY <2>1 DEF Callback, WmCreateCallback, DlgRunLoop, CallGuest
    <3>2. Frame(k, rsp, 0, 0) \in FrameRecord /\ Frame(k, rsp, 0, 0).allocs = 0
      BY <1>1 DEF Frame, FrameRecord
    <3>3. records' = records + Frame(k, rsp, 0, 0).allocs
      BY <1>1, <3>1, <3>2
    <3>4. QED
      BY <3>1, <3>2, <3>3, RecordsEntered
  <2>2. CASE HardwareFault \/ dos_raise_exception
    <3>1. PICK n \in {1, 2}, p \in {6, 10} :
            /\ Entered(Frame("ExceptionHandler", rsp, exchain - 1, n), p)
            /\ records' = records + n
      BY <2>2 DEF HardwareFault, dos_raise_exception, setup_exception_dispatch
    <3>2. /\ Frame("ExceptionHandler", rsp, exchain - 1, n) \in FrameRecord
          /\ Frame("ExceptionHandler", rsp, exchain - 1, n).allocs = n
      BY <1>1 DEF Frame, FrameRecord
    <3>3. QED
      BY <3>1, <3>2, RecordsEntered
  <2>3. CASE CallbackReturns
    <3>1. /\ callback_stack # <<>> /\ callback_stack' = Front(callback_stack)
          /\ records' = records /\ Top.kind # "ExceptionHandler"
      BY <2>3 DEF CallbackReturns, ReturnsTo
    <3>2. Top \in FrameRecord
      BY <1>1, <3>1, EndsOfSeq DEF Top
    <3>3. records' = records - Top.allocs
      BY <1>1, <3>1, <3>2 DEF FrameRecord
    <3>4. QED
      BY <3>1, <3>3, RecordsLeft
  <2>4. CASE ContinueExecution \/ ChainExhausted
    BY <2>4, RecordsLeft DEF ContinueExecution, ChainExhausted, ReturnsTo, free_exception_records
  <2>5. CASE Normal \/ UnhandledFault \/ GuestEnds \/ NextDialogMessage
              \/ dos_set_exception_handler \/ dos_unset_exception_handler \/ dos_unwind_exception
    BY <1>2, <2>5 DEF Normal, UnhandledFault, GuestEnds, guestVars, NextDialogMessage,
       dos_set_exception_handler, dos_unset_exception_handler, dos_unwind_exception
  <2>6. QED
    BY <1>5, <2>1, <2>2, <2>3, <2>4, <2>5, RecordsKept DEF TrapNext
<1>6. QED
  BY <1>3, <1>4, <1>5 DEF VcpuNext

\* The exception records in guest memory are those of the handlers being run,
\* however callbacks and exceptions are nested and whichever way a handler ends
\* (guest_allocs of vcpu.rs): none leaks and none is freed twice.
THEOREM RecordsSafe == VcpuSpec => []RecordsFreed
<1>1. VcpuInit => RecordInv
  <2> SUFFICES ASSUME VcpuInit PROVE RecordInv
    OBVIOUS
  <2>1. RecordsOf(callback_stack) = {}
    BY DEF VcpuInit, RecordsOf
  <2>2. QED
    BY <2>1, FS_EmptySet DEF VcpuInit, RecordInv, RecordsFreed
<1>2. VcpuInv /\ UNCHANGED vcpuVars => VcpuInv'
  BY DEF VcpuInv, VcpuTypes, FramesMatch, vcpuVars, guestVars, runVars
<1>3. VcpuInv /\ [VcpuNext]_vcpuVars => VcpuInv'
  BY <1>2, VcpuStep
<1>4. VcpuInv /\ RecordInv /\ [VcpuNext]_vcpuVars => RecordInv'
  BY RecordsStep
<1>5. RecordInv => RecordsFreed
  BY DEF RecordInv
<1>6. QED
  BY VcpuInitInv, <1>1, <1>3, <1>4, <1>5, PTL DEF VcpuSpec

-----------------------------------------------------------------------------

\* Neither mailbox is emptied by the side that then waits on the other.
LEMMA MailboxStep == NoMutualWait /\ [VcpuNext]_vcpuVars => NoMutualWait'
<1> SUFFICES ASSUME NoMutualWait, [VcpuNext]_vcpuVars PROVE NoMutualWait'
  OBVIOUS
<1> USE DEF NoMutualWait
<1>1. CASE GdbNext
  BY <1>1 DEF GdbNext, resume, step, wait_for_stop_reason, on_interrupt, add_sw_breakpoint,
     remove_sw_breakpoint, Killed, Disconnected, send_resume, runVars, mailVars
<1>2. CASE wait_for_resume \/ LeaveOnExit \/ StopOnRequest \/ EnterGuest
  BY <1>2 DEF wait_for_resume, LeaveOnExit, StopOnRequest, EnterGuest, notify_stopped, mailVars
<1>3. CASE RunInt3 \/ Instruction
  <2>1. CASE stopped' \in {"SwBreakpoint", "SingleStep"}
    BY <2>1
  <2>2. CASE UNCHANGED <<runVars, stopped>> /\ UNCHANGED Untouched
    BY <2>2, <1>3 DEF RunInt3, Instruction, runVars, Untouched
  <2>3. QED
    BY <1>3, <2>1, <2>2 DEF RunInt3, Instruction, DebugExit, SwBreakpointStop,
       SingleStepStop, notify_stopped
<1>4. CASE TrapNext
  <2>1. vcpu' # "paused"
    BY <1>4 DEF TrapNext, Callback, WmCreateCallback, DlgRunLoop, CallGuest, Normal,
       dos_set_exception_handler, dos_unset_exception_handler, dos_unwind_exception,
       HardwareFault, UnhandledFault, GuestEnds, dos_raise_exception, CallbackReturns,
       NextDialogMessage, ContinueExecution, ContinueSearch, ChainExhausted, Trap, Crash
  <2>2. QED
    BY <2>1
<1>5. CASE DosExit \/ UNCHANGED vcpuVars
  BY <1>5 DEF DosExit, vcpuVars, runVars, mailVars
<1>6. QED
  BY <1>1, <1>2, <1>3, <1>4, <1>5 DEF VcpuNext, StopNext

\* GDB and the vCPU never wait for each other with both mailboxes empty
\* (notify_stopped and send_resume of gdb_stub.rs).
THEOREM DebuggerSafe == VcpuSpec => []NoMutualWait
<1>1. QED
  BY VcpuInitInv, MailboxStep, PTL DEF VcpuSpec

----------------------------------------------------------------------------
(* DLL loading.                                                            *)

DllRecord == [name : Modules \cup Builtins, hmod : Nat \ {0}, refs : Nat \ {0}]

LoadPlaces == {"run", "enter", "mapped", "deps", "register", "loaded", "init", "term"}

DllTypes ==
  /\ dlls \in Seq(DllRecord) /\ made \in Nat /\ pages \subseteq Nat /\ synthetic \subseteq Nat
  /\ owned \in [Images -> Nat]
  /\ pc \in [Threads -> LoadPlaces] /\ stack \in [Threads -> Seq(LoadFrame)]
  /\ loading \in [Threads -> SUBSET Modules] /\ want \in [Threads -> Modules \cup {"none"}]
  /\ hmod \in [Threads -> Nat]

\* A thread has frames exactly while it loads; the names of its frames, except
\* for an innermost one whose pages are not read yet, are in its loading set,
\* and none is entered again.
Nested(t) ==
  /\ pc[t] = "enter" => want[t] \in Modules
  /\ pc[t] \in {"mapped", "deps", "register"} => stack[t] # <<>>
  /\ pc[t] \in {"run", "loaded", "init", "term"} => stack[t] = <<>>
  /\ \A i \in 1 .. Len(stack[t]) :
       pc[t] # "mapped" \/ i # Len(stack[t]) => stack[t][i].name \in loading[t]
  /\ \A i, j \in 1 .. Len(stack[t]) : stack[t][i].name = stack[t][j].name => i = j
  /\ pc[t] = "enter" => \A i \in 1 .. Len(stack[t]) : stack[t][i].name # want[t]

LoadInv == DllTypes /\ \A t \in Threads : Nested(t)

\* Every image is in one frame, or registered once, or neither; the images in
\* frames are new, the guest's and mapped.
ImagesApart ==
  /\ \A j, k \in 1 .. Len(dlls) : dlls[j].hmod = dlls[k].hmod => j = k
  /\ \A t, u \in Threads : \A i \in 1 .. Len(stack[t]) : \A j \in 1 .. Len(stack[u]) :
       stack[t][i].image = stack[u][j].image => t = u /\ i = j
  /\ \A t \in Threads : \A i \in 1 .. Len(stack[t]) :
       /\ stack[t][i].image \in pages \ synthetic /\ stack[t][i].image <= made
       /\ \A k \in 1 .. Len(dlls) : dlls[k].hmod # stack[t][i].image

\* Handles are never more than the images made, and those of builtins are the
\* synthetic ones.
HandlesMade ==
  /\ \A k \in 1 .. Len(dlls) :
       /\ dlls[k].hmod <= made
       /\ dlls[k].name \in Builtins <=> dlls[k].hmod \in synthetic
       /\ dlls[k].name \in Modules => dlls[k].hmod \in Images \cap pages
  /\ \A h \in synthetic : h <= made

\* A module that is running its INITTERM for the last time is in no table.
TermGone ==
  \A t \in Threads : pc[t] = "term" =>
    /\ hmod[t] <= made
    /\ \A k \in 1 .. Len(dlls) : dlls[k].hmod # hmod[t]
    /\ \A u \in Threads : \A i \in 1 .. Len(stack[u]) : stack[u][i].image # hmod[t]

\* What the guest holds, or is about to be given, of a module.
Claims(h) == owned[h] + Cardinality(Holders(h))

\* The count of a DLL covers the claims to it, and what is claimed is registered.
Counted ==
  /\ \A h \in Images : \A k \in 1 .. Len(dlls) :
       dlls[k].hmod = h /\ dlls[k].name \in Modules => dlls[k].refs >= Claims(h)
  /\ \A h \in Images \ synthetic :
       Claims(h) > 0 => \E k \in 1 .. Len(dlls) : dlls[k].hmod = h

HandleInv == ImagesApart /\ HandlesMade /\ TermGone /\ Counted

\* A set of natural numbers has a least element.
LEMMA LeastNat ==
  ASSUME NEW S, S \subseteq Nat, S # {}
  PROVE  \E m \in S : \A n \in S : m <= n
<1>1. PICK m \in S : \A n \in S : ~(<<n, m>> \in OpToRel(<, Nat))
  BY WFMin, NatLessThanWellFounded, Zenon
<1>2. \A n \in S : ~(n < m)
  <2> SUFFICES ASSUME NEW n \in S, n < m PROVE FALSE
    OBVIOUS
  <2>1. n \in Nat /\ m \in Nat
    OBVIOUS
  <2>2. <<n, m>> \in OpToRel(<, Nat)
    BY <2>1 DEF OpToRel
  <2>3. QED
    BY <1>1, <2>2
<1>3. QED
  BY <1>2

\* What Vec::remove leaves of DllManager.dlls.
LEMMA RemoveAtFacts ==
  ASSUME NEW S, NEW s \in Seq(S), NEW k \in 1 .. Len(s)
  PROVE  /\ RemoveAt(s, k) \in Seq(S)
         /\ Len(RemoveAt(s, k)) = Len(s) - 1
         /\ \A i \in 1 .. k - 1 : RemoveAt(s, k)[i] = s[i]
         /\ \A i \in k .. Len(s) - 1 : RemoveAt(s, k)[i] = s[i + 1]
<1> DEFINE a == SubSeq(s, 1, k - 1)
           b == SubSeq(s, k + 1, Len(s))
<1>1. Len(s) \in Nat /\ k \in Nat /\ \A i \in 1 .. Len(s) : s[i] \in S
  OBVIOUS
<1>2. a \in Seq(S) /\ Len(a) = k - 1 /\ \A i \in 1 .. k - 1 : a[i] = s[i]
  BY <1>1, SubSeqProperties
<1>3. b \in Seq(S) /\ Len(b) = Len(s) - k /\ \A i \in 1 .. Len(s) - k : b[i] = s[k + i]
  BY <1>1, SubSeqProperties
<1> HIDE DEF a, b
<1>4. /\ a \o b \in Seq(S) /\ Len(a \o b) = Len(a) + Len(b)
      /\ \A i \in 1 .. Len(a) + Len(b) : (a \o b)[i] = IF i <= Len(a) THEN a[i] ELSE b[i - Len(a)]
  BY <1>2, <1>3, ConcatProperties
<1>5. RemoveAt(s, k) = a \o b
  BY DEF RemoveAt, a, b
<1>6. Len(a) + Len(b) = Len(s) - 1
  BY <1>1, <1>2, <1>3
<1>7. \A i \in 1 .. k - 1 : (a \o b)[i] = s[i]
  BY <1>1, <1>2, <1>4, <1>6
<1>8. ASSUME NEW i \in k .. Len(s) - 1
      PROVE  (a \o b)[i] = s[i + 1]
  <2>1. (a \o b)[i] = b[i - (k - 1)] /\ i - (k - 1) \in 1 .. Len(s) - k
    BY <1>1, <1>2, <1>4, <1>6
  <2>2. b[i - (k - 1)] = s[k + (i - (k - 1))] /\ k + (i - (k - 1)) = i + 1
    BY <1>1, <1>3, <2>1
  <2>3. QED
    BY <2>1, <2>2
<1>9. QED
  BY <1>4, <1>5, <1>6, <1>7, <1>8

\* find_by_name finds an entry of that name.
LEMMA FirstFacts ==
  ASSUME DllTypes, NEW n, Loaded(n)
  PROVE  First(n) \in 1 .. Len(dlls) /\ dlls[First(n)].name = n
<1>1. DOMAIN dlls = 1 .. Len(dlls)
  BY LenProperties DEF DllTypes
<1>2. At(n) \subseteq Nat /\ At(n) # {}
  BY <1>1 DEF At, Loaded
<1>3. \E m \in At(n) : \A k \in At(n) : m <= k
  BY <1>2, LeastNat
<1>4. First(n) \in At(n)
  BY <1>3 DEF First, Min
<1>5. QED
  BY <1>1, <1>4 DEF At

\* Only the thread t moves.
Others(t) ==
  \A u \in Threads \ {t} : /\ pc'[u] = pc[u] /\ stack'[u] = stack[u] /\ loading'[u] = loading[u]
                            /\ want'[u] = want[u] /\ hmod'[u] = hmod[u]

\* The other threads stay where they are.
LEMMA NestedStep ==
  ASSUME LoadInv, NEW t \in Threads, Others(t), DllTypes', Nested(t)'
  PROVE  LoadInv'
<1>1. ASSUME NEW u \in Threads, u # t PROVE Nested(u)'
  <2>1. Nested(u)
    BY DEF LoadInv
  <2>2. pc'[u] = pc[u] /\ stack'[u] = stack[u] /\ loading'[u] = loading[u] /\ want'[u] = want[u]
    BY <1>1 DEF Others
  <2>3. QED
    BY <2>1, <2>2 DEF Nested
<1>2. QED
  BY <1>1 DEF LoadInv

Outside == {"run", "loaded", "init", "term"}

\* A handler outside load_dll_impl has no frames and leaves none.
LEMMA OutsideStep ==
  ASSUME LoadInv, NEW t \in Threads, DllTypes', UNCHANGED <<stack, loading, want>>,
         pc[t] \in Outside, pc'[t] \in Outside,
         \A u \in Threads \ {t} : pc'[u] = pc[u] /\ hmod'[u] = hmod[u]
  PROVE  LoadInv' /\ Others(t)
<1>1. Nested(t)
  BY DEF LoadInv
<1>2. Others(t)
  BY DEF Others
<1>3. stack[t] = <<>> /\ Len(stack[t]) = 0
  BY <1>1, EmptySeq DEF Nested, Outside
<1>4. Nested(t)'
  BY <1>3 DEF Nested, Outside
<1>5. QED
  BY <1>2, <1>4, NestedStep

\* Granting a load counts it.
LEMMA GrantType ==
  ASSUME owned \in [Images -> Nat], NEW h, Grant(h)
  PROVE  owned' \in [Images -> Nat] /\ \A x \in Images : owned'[x] = IF x = h THEN owned[x] + 1 ELSE owned[x]
<1>1. CASE h \in Images
  BY <1>1 DEF Grant
<1>2. CASE h \notin Images
  BY <1>2 DEF Grant
<1>3. QED
  BY <1>1, <1>2

\* DosLoadModule of a builtin.
LEMMA BuiltinLoads ==
  ASSUME LoadInv, NEW t \in Threads, NEW b \in Builtins, LoadBuiltin(t, b)
  PROVE  LoadInv' /\ Others(t)
<1>1. /\ UNCHANGED <<pages, pc, stack, loading, want, hmod>> /\ pc[t] = "run" /\ DllTypes
  BY DEF LoadBuiltin, Calls, LoadInv
<1>2. DllTypes'
  <2>1. CASE Loaded(b) /\ Grant(dlls[First(b)].hmod) /\ UNCHANGED <<dlls, made, synthetic>>
    <3>1. owned' \in [Images -> Nat]
      BY <2>1, <1>1, GrantType DEF DllTypes
    <3>2. QED
      BY <2>1, <3>1, <1>1 DEF DllTypes
  <2>2. CASE /\ made' = made + 1
             /\ dlls' = Append(dlls, [name |-> b, hmod |-> made + 1, refs |-> 1])
             /\ Grant(made + 1) /\ synthetic' = synthetic \cup {made + 1}
    <3>1. owned' \in [Images -> Nat]
      BY <2>2, <1>1, GrantType DEF DllTypes
    <3>2. made \in Nat /\ made' \in Nat /\ synthetic' \subseteq Nat
      BY <2>2, <1>1 DEF DllTypes
    <3>3. [name |-> b, hmod |-> made + 1, refs |-> 1] \in DllRecord
      BY <3>2 DEF DllRecord
    <3>4. dlls' \in Seq(DllRecord)
      BY <2>2, <3>3, <1>1, AppendProperties DEF DllTypes
    <3>5. QED
      BY <3>1, <3>2, <3>4, <1>1 DEF DllTypes
  <2>3. QED
    BY <2>1, <2>2 DEF LoadBuiltin
<1>3. QED
  BY <1>1, <1>2, OutsideStep DEF Outside

\* The end of DosLoadModule, and of the last INITTERM.
LEMMA LoadEnds ==
  ASSUME LoadInv, NEW t \in Threads,
         LoadReturns(t) \/ InitSucceeds(t) \/ InitFails(t) \/ TermReturns(t)
  PROVE  LoadInv' /\ Others(t)
<1>1. /\ DllTypes /\ UNCHANGED <<dlls, made, stack, loading, want, synthetic>>
      /\ pc[t] \in {"loaded", "init", "term"} /\ pages' \subseteq pages
  BY DEF LoadInv, LoadReturns, InitSucceeds, InitFails, TermReturns
<1>2. owned' \in [Images -> Nat]
  <2>1. owned' = owned \/ Grant(hmod[t])
    BY DEF LoadReturns, InitSucceeds, InitFails, TermReturns
  <2>2. QED
    BY <2>1, <1>1, GrantType DEF DllTypes
<1>3. (pc' = [pc EXCEPT ![t] = "init"] /\ hmod' = hmod) \/ Return(t)
  BY DEF LoadReturns, InitSucceeds, InitFails, TermReturns
<1>4. /\ pc \in [Threads -> LoadPlaces] /\ hmod \in [Threads -> Nat]
  BY <1>1 DEF DllTypes
<1>5. /\ pc' \in [Threads -> LoadPlaces] /\ hmod' \in [Threads -> Nat] /\ pc'[t] \in {"run", "init"}
      /\ \A u \in Threads \ {t} : pc'[u] = pc[u] /\ hmod'[u] = hmod[u]
  BY <1>3, <1>4 DEF Return, LoadPlaces
<1>6. DllTypes'
  BY <1>1, <1>2, <1>5 DEF DllTypes
<1>7. QED
  BY <1>1, <1>5, <1>6, OutsideStep DEF Outside

\* An entry of dlls with another count.
LEMMA Recounted ==
  ASSUME DllTypes, NEW k \in 1 .. Len(dlls), NEW n \in Nat \ {0},
         dlls' = [dlls EXCEPT ![k].refs = n]
  PROVE  /\ dlls' \in Seq(DllRecord) /\ Len(dlls') = Len(dlls) /\ dlls'[k].refs = n
         /\ \A j \in 1 .. Len(dlls) :
              /\ dlls'[j].name = dlls[j].name /\ dlls'[j].hmod = dlls[j].hmod
              /\ j # k => dlls'[j] = dlls[j]
<1>1. dlls \in Seq(DllRecord) /\ dlls \in [1 .. Len(dlls) -> DllRecord] /\ Len(dlls) \in Nat
  BY LenProperties DEF DllTypes
<1>2. PICK e \in DllRecord : e = dlls[k]
  BY <1>1
<1>3. PICK f : f = [e EXCEPT !.refs = n]
  OBVIOUS
<1>4. f \in DllRecord /\ f.name = e.name /\ f.hmod = e.hmod /\ f.refs = n
  BY <1>3 DEF DllRecord
<1>5. dlls' = [dlls EXCEPT ![k] = f]
  BY <1>2, <1>3
<1>6. /\ dlls' \in Seq(DllRecord) /\ Len(dlls') = Len(dlls)
      /\ \A j \in 1 .. Len(dlls) : dlls'[j] = IF j = k THEN f ELSE dlls[j]
  BY <1>1, <1>4, <1>5, ExceptSeq
<1>7. QED
  BY <1>2, <1>4, <1>6

\* DosFreeModule.
LEMMA ModuleFrees ==
  ASSUME LoadInv, NEW t \in Threads, NEW h \in Images, FreeModule(t, h)
  PROVE  LoadInv' /\ Others(t)
<1>1. /\ DllTypes /\ UNCHANGED <<made, stack, loading, want, synthetic>> /\ pc[t] = "run"
      /\ pages \subseteq Nat /\ dlls \in Seq(DllRecord) /\ Len(dlls) \in Nat
      /\ DOMAIN dlls = 1 .. Len(dlls)
  BY LenProperties DEF LoadInv, FreeModule, DllTypes
<1>2. owned' \in [Images -> Nat]
  BY <1>1 DEF FreeModule, DllTypes
<1>3. h \in Nat
  BY DEF Images
<1>4. pc \in [Threads -> LoadPlaces] /\ hmod \in [Threads -> Nat]
  BY <1>1 DEF DllTypes
<1>5. /\ UNCHANGED <<pc, hmod>> \/ (pc' = [pc EXCEPT ![t] = "term"] /\ hmod' = [hmod EXCEPT ![t] = h])
      /\ pages' \subseteq pages
  BY DEF FreeModule
<1>6. /\ pc' \in [Threads -> LoadPlaces] /\ hmod' \in [Threads -> Nat] /\ pc'[t] \in {"run", "term"}
      /\ \A u \in Threads \ {t} : pc'[u] = pc[u] /\ hmod'[u] = hmod[u]
  BY <1>1, <1>3, <1>4, <1>5 DEF LoadPlaces
<1>7. dlls' \in Seq(DllRecord)
  <2>1. CASE dlls' = dlls
    BY <2>1, <1>1
  <2>2. ASSUME NEW k \in Place(h), ~LastRef(k), dlls' = [dlls EXCEPT ![k].refs = @ - 1]
        PROVE  dlls' \in Seq(DllRecord)
    <3>1. k \in 1 .. Len(dlls) /\ dlls[k] \in DllRecord
      BY <1>1, ElementOfSeq DEF Place
    <3>2. PICK n : n = dlls[k].refs - 1
      OBVIOUS
    <3>3. n \in Nat \ {0} /\ dlls' = [dlls EXCEPT ![k].refs = n]
      BY <2>2, <3>1, <3>2 DEF LastRef, DllRecord
    <3>4. QED
      BY <3>1, <3>3, <1>1, Recounted
  <2>3. ASSUME NEW k \in Place(h), dlls' = RemoveAt(dlls, k)
        PROVE  dlls' \in Seq(DllRecord)
    BY <2>3, <1>1, RemoveAtFacts DEF Place
  <2>4. QED
    BY <2>1, <2>2, <2>3 DEF FreeModule
<1>8. DllTypes'
  BY <1>1, <1>2, <1>5, <1>6, <1>7 DEF DllTypes
<1>9. QED
  BY <1>1, <1>6, <1>8, OutsideStep DEF Outside

\* Every frame was there before, with the same image.
FramesOld ==
  \A u \in Threads : \A i \in 1 .. Len(stack'[u]) :
    i \in 1 .. Len(stack[u]) /\ stack'[u][i].image = stack[u][i].image

\* load_dll_impl is called by DosLoadModule.
LEMMA UserLoads ==
  ASSUME LoadInv, NEW t \in Threads, NEW m \in Modules, LoadUser(t, m)
  PROVE  LoadInv' /\ Others(t) /\ FramesOld /\ pc[t] = "run" /\ pc'[t] = "enter"
<1>1. /\ DllTypes /\ Nested(t) /\ UNCHANGED <<dlls, made, pages, stack, hmod, owned, synthetic>>
      /\ pc[t] = "run" /\ pc' = [pc EXCEPT ![t] = "enter"] /\ want' = [want EXCEPT ![t] = m]
      /\ loading' = [loading EXCEPT ![t] = {}]
  BY DEF LoadInv, LoadUser, Calls
<1>2. DllTypes' /\ Others(t) /\ pc'[t] = "enter" /\ want'[t] = m
  BY <1>1 DEF DllTypes, Others, LoadPlaces
<1>3. stack'[t] = <<>> /\ Len(stack'[t]) = 0
  BY <1>1, EmptySeq DEF Nested
<1>4. Nested(t)'
  BY <1>2, <1>3 DEF Nested
<1>5. QED
  BY <1>1, <1>2, <1>4, NestedStep DEF FramesOld

\* Where Leaves takes a thread.
LEMMA LeavesTo ==
  ASSUME DllTypes, NEW t \in Threads, NEW rest, NEW h \in Nat, Leaves(t, rest, h)
  PROVE  /\ pc' \in [Threads -> LoadPlaces] /\ hmod' \in [Threads -> Nat]
         /\ \A u \in Threads \ {t} : pc'[u] = pc[u] /\ hmod'[u] = hmod[u]
         /\ (rest = <<>> /\ pc'[t] = "loaded" /\ hmod'[t] = h) \/ (rest # <<>> /\ pc'[t] = "deps")
BY DEF DllTypes, Leaves, LoadPlaces

\* The fast path of load_dll_impl.
LEMMA FoundLoads ==
  ASSUME LoadInv, NEW t \in Threads, FastPath(t)
  PROVE  /\ LoadInv' /\ Others(t) /\ pc[t] = "enter" /\ want[t] \in Modules
         /\ First(want[t]) \in 1 .. Len(dlls) /\ dlls[First(want[t])].name = want[t]
<1> DEFINE k == First(want[t])
<1>1. /\ DllTypes /\ Nested(t) /\ UNCHANGED <<made, pages, stack, loading, owned, synthetic>>
      /\ pc[t] = "enter" /\ Loaded(want[t]) /\ want' = [want EXCEPT ![t] = "none"]
      /\ dlls' = [dlls EXCEPT ![k].refs = @ + 1] /\ Leaves(t, stack[t], dlls[k].hmod)
  BY DEF LoadInv, FastPath
<1>2. k \in 1 .. Len(dlls) /\ dlls[k].name = want[t] /\ want[t] \in Modules
  BY <1>1, FirstFacts DEF Nested
<1> HIDE DEF k
<1>3. dlls[k] \in DllRecord
  BY <1>1, <1>2, ElementOfSeq DEF DllTypes
<1>4. PICK n : n = dlls[k].refs + 1
  OBVIOUS
<1>5. n \in Nat \ {0} /\ dlls[k].hmod \in Nat
  BY <1>3, <1>4 DEF DllRecord
<1>6. dlls' \in Seq(DllRecord)
  BY <1>1, <1>2, <1>4, <1>5, Recounted
<1>7. /\ pc' \in [Threads -> LoadPlaces] /\ hmod' \in [Threads -> Nat]
      /\ \A u \in Threads \ {t} : pc'[u] = pc[u] /\ hmod'[u] = hmod[u]
      /\ (stack[t] = <<>> /\ pc'[t] = "loaded") \/ (stack[t] # <<>> /\ pc'[t] = "deps")
  BY <1>1, <1>5, LeavesTo
<1>8. DllTypes' /\ Others(t)
  BY <1>1, <1>6, <1>7 DEF DllTypes, Others
<1>9. Nested(t)'
  BY <1>1, <1>7, EmptySeq DEF Nested
<1>10. QED
  BY <1>1, <1>2, <1>8, <1>9, NestedStep DEF k

\* A frame on top of those a thread has.
LEMMA Mapped ==
  ASSUME LoadInv, NEW t \in Threads, Maps(t)
  PROVE  /\ LoadInv' /\ Others(t) /\ pc[t] = "enter" /\ pc'[t] = "mapped"
         /\ Len(stack[t]) \in Nat /\ Len(stack'[t]) = Len(stack[t]) + 1
         /\ \A i \in 1 .. Len(stack[t]) : stack'[t][i] = stack[t][i]
         /\ stack'[t][Len(stack[t]) + 1].image = made + 1 /\ made + 1 \in Images
<1> DEFINE f == [name |-> want[t], image |-> made + 1, todo |-> Imports[want[t]]]
<1>1. /\ DllTypes /\ Nested(t) /\ UNCHANGED <<dlls, loading, hmod, owned, synthetic>>
      /\ pc[t] = "enter" /\ want' = [want EXCEPT ![t] = "none"] /\ made' = made + 1
      /\ pages' = pages \cup {made + 1} /\ stack' = [stack EXCEPT ![t] = Append(stack[t], f)]
      /\ pc' = [pc EXCEPT ![t] = "mapped"] /\ made + 1 \in Images
  BY DEF LoadInv, Maps, MapImage
<1>2. want[t] \in Modules
  BY <1>1 DEF Nested
<1>3. f \in LoadFrame
  BY <1>1, <1>2, DllAssumption DEF LoadFrame
<1>4. f.name = want[t] /\ f.image = made + 1
  OBVIOUS
<1> HIDE DEF f
<1>5. stack \in [Threads -> Seq(LoadFrame)] /\ stack[t] \in Seq(LoadFrame) /\ Len(stack[t]) \in Nat
  BY <1>1, LenProperties DEF DllTypes
<1>6. /\ Append(stack[t], f) \in Seq(LoadFrame) /\ Len(Append(stack[t], f)) = Len(stack[t]) + 1
      /\ \A i \in 1 .. Len(stack[t]) : Append(stack[t], f)[i] = stack[t][i]
      /\ Append(stack[t], f)[Len(stack[t]) + 1] = f
  BY <1>3, <1>5, AppendProperties
<1>7. /\ stack' \in [Threads -> Seq(LoadFrame)] /\ stack'[t] = Append(stack[t], f)
      /\ \A u \in Threads \ {t} : stack'[u] = stack[u]
  BY <1>1, <1>5, <1>6
<1>8. DllTypes' /\ Others(t) /\ pc'[t] = "mapped"
  BY <1>1, <1>7 DEF DllTypes, Others, LoadPlaces
<1>9. Nested(t)'
  <2>1. stack'[t] # <<>>
    BY <1>5, <1>6, <1>7, EmptySeq
  <2>2. ASSUME NEW i \in 1 .. Len(stack'[t]), i # Len(stack'[t])
        PROVE  stack'[t][i].name \in loading'[t]
    <3>1. i \in 1 .. Len(stack[t]) /\ stack'[t][i] = stack[t][i]
      BY <2>2, <1>5, <1>6, <1>7
    <3>2. QED
      BY <3>1, <1>1 DEF Nested
  <2>3. ASSUME NEW i \in 1 .. Len(stack'[t]), NEW j \in 1 .. Len(stack'[t]),
               stack'[t][i].name = stack'[t][j].name
        PROVE  i = j
    <3>1. /\ \A n \in 1 .. Len(stack[t]) : stack'[t][n].name = stack[t][n].name /\ stack[t][n].name # want[t]
          /\ stack'[t][Len(stack[t]) + 1].name = want[t]
      BY <1>1, <1>4, <1>6, <1>7 DEF Nested
    <3>2. /\ i \in 1 .. Len(stack[t]) \/ i = Len(stack[t]) + 1
          /\ j \in 1 .. Len(stack[t]) \/ j = Len(stack[t]) + 1
      BY <1>5, <1>6, <1>7
    <3>3. CASE i \in 1 .. Len(stack[t]) /\ j \in 1 .. Len(stack[t])
      BY <3>1, <3>3, <2>3, <1>1 DEF Nested
    <3>4. QED
      BY <2>3, <3>1, <3>2, <3>3
  <2>4. QED
    BY <1>8, <2>1, <2>2, <2>3 DEF Nested
<1>10. QED
  BY <1>1, <1>4, <1>5, <1>6, <1>7, <1>8, <1>9, NestedStep

\* A thread's innermost frame.
LEMMA InnermostFacts ==
  ASSUME LoadInv, NEW t \in Threads, stack[t] # <<>>
  PROVE  /\ Len(stack[t]) \in Nat \ {0} /\ Innermost(t) = stack[t][Len(stack[t])]
         /\ Innermost(t) \in LoadFrame
         /\ Front(stack[t]) \in Seq(LoadFrame) /\ Len(Front(stack[t])) = Len(stack[t]) - 1
         /\ \A i \in 1 .. Len(stack[t]) - 1 : Front(stack[t])[i] = stack[t][i]
<1>1. stack[t] \in Seq(LoadFrame)
  BY DEF LoadInv, DllTypes
<1>2. QED
  BY <1>1, EndsOfSeq DEF Innermost

\* The pages of an image are read, and its fixups applied.
LEMMA PagesFixed ==
  ASSUME LoadInv, NEW t \in Threads, PagesRead(t) \/ Fixups(t)
  PROVE  LoadInv' /\ Others(t) /\ FramesOld /\ pc[t] \in {"mapped", "deps"}
         /\ pc'[t] \in {"deps", "register"}
<1>1. /\ DllTypes /\ Nested(t) /\ UNCHANGED <<dlls, made, pages, stack, want, hmod, owned, synthetic>>
      /\ \/ /\ pc[t] = "mapped" /\ pc' = [pc EXCEPT ![t] = "deps"]
            /\ loading' = [loading EXCEPT ![t] = @ \cup {Innermost(t).name}]
         \/ pc[t] = "deps" /\ pc' = [pc EXCEPT ![t] = "register"] /\ loading' = loading
  BY DEF LoadInv, PagesRead, Fixups
<1>2. stack[t] # <<>>
  BY <1>1 DEF Nested
<1>3. Innermost(t) = stack[t][Len(stack[t])] /\ Innermost(t).name \in Modules
  BY <1>2, InnermostFacts DEF LoadFrame
<1>4. /\ loading' \in [Threads -> SUBSET Modules] /\ \A u \in Threads \ {t} : loading'[u] = loading[u]
      /\ loading[t] \subseteq loading'[t]
      /\ pc[t] = "mapped" => Innermost(t).name \in loading'[t]
  <2>1. loading \in [Threads -> SUBSET Modules]
    BY <1>1 DEF DllTypes
  <2>2. CASE loading' = loading /\ pc[t] = "deps"
    BY <2>1, <2>2
  <2>3. CASE loading' = [loading EXCEPT ![t] = @ \cup {Innermost(t).name}]
    <3>1. loading'[t] = loading[t] \cup {Innermost(t).name} /\ loading[t] \subseteq Modules
      BY <2>1, <2>3
    <3>2. QED
      BY <2>1, <2>3, <3>1, <1>3
  <2>4. QED
    BY <1>1, <2>2, <2>3
<1>5. DllTypes' /\ Others(t) /\ pc'[t] \in {"deps", "register"}
  BY <1>1, <1>4 DEF DllTypes, Others, LoadPlaces
<1>6. Nested(t)'
  <2>1. ASSUME NEW i \in 1 .. Len(stack[t]) PROVE stack[t][i].name \in loading'[t]
    <3>1. CASE pc[t] = "mapped" /\ i = Len(stack[t])
      BY <3>1, <1>3, <1>4
    <3>2. CASE pc[t] # "mapped" \/ i # Len(stack[t])
      BY <3>2, <1>1, <1>4 DEF Nested
    <3>3. QED
      BY <3>1, <3>2
  <2>2. QED
    BY <1>1, <1>2, <1>5, <2>1 DEF Nested
<1>7. QED
  BY <1>1, <1>5, <1>6, NestedStep DEF FramesOld

\* The next import of the innermost frame.
LEMMA ImportTaken ==
  ASSUME LoadInv, NEW t \in Threads, NextImport(t)
  PROVE  LoadInv' /\ Others(t) /\ FramesOld /\ pc[t] = "deps" /\ pc'[t] \in {"deps", "enter"}
<1> DEFINE n == Len(stack[t])
           e == Innermost(t)
           g == [e EXCEPT !.todo = Tail(@)]
           d == Head(e.todo)
<1>1. /\ DllTypes /\ Nested(t) /\ UNCHANGED <<dlls, made, pages, loading, hmod, owned, synthetic>>
      /\ pc[t] = "deps" /\ e.todo # <<>>
      /\ stack' = [stack EXCEPT ![t][n].todo = Tail(@)]
      /\ \/ UNCHANGED <<pc, want>>
         \/ /\ ~Skipped(t, d)
            /\ pc' = [pc EXCEPT ![t] = "enter"] /\ want' = [want EXCEPT ![t] = d]
  BY DEF LoadInv, NextImport
<1>2. stack[t] # <<>>
  BY <1>1 DEF Nested
<1>3. n \in 1 .. Len(stack[t]) /\ e = stack[t][n] /\ e \in LoadFrame /\ n \in Nat
  BY <1>2, InnermostFacts
<1>4. e.todo \in Seq(Modules \cup Builtins)
  BY <1>3 DEF LoadFrame
<1>5. d \in Modules \cup Builtins /\ Tail(e.todo) \in Seq(Modules \cup Builtins)
  BY <1>1, <1>4, HeadTailProperties
<1>6. g \in LoadFrame /\ g.name = e.name /\ g.image = e.image
  BY <1>3, <1>5 DEF LoadFrame
<1>7. stack \in [Threads -> Seq(LoadFrame)] /\ stack[t] \in Seq(LoadFrame)
  BY <1>1 DEF DllTypes
<1>8. stack' = [stack EXCEPT ![t] = [stack[t] EXCEPT ![n] = g]]
  BY <1>1, <1>3
<1>9. ~Skipped(t, d) => d \in Modules /\ d \notin loading[t]
  BY <1>5 DEF Skipped
<1> HIDE DEF e, g, d, n
<1>10. /\ [stack[t] EXCEPT ![n] = g] \in Seq(LoadFrame)
       /\ Len([stack[t] EXCEPT ![n] = g]) = Len(stack[t])
       /\ \A j \in 1 .. Len(stack[t]) : [stack[t] EXCEPT ![n] = g][j] = IF j = n THEN g ELSE stack[t][j]
  BY <1>3, <1>6, <1>7, ExceptSeq
<1>11. /\ stack' \in [Threads -> Seq(LoadFrame)] /\ Len(stack'[t]) = Len(stack[t])
       /\ \A u \in Threads \ {t} : stack'[u] = stack[u]
       /\ \A j \in 1 .. Len(stack[t]) : /\ stack'[t][j].name = stack[t][j].name
                                        /\ stack'[t][j].image = stack[t][j].image
  BY <1>3, <1>6, <1>7, <1>8, <1>10
<1>12. /\ pc' \in [Threads -> LoadPlaces] /\ want' \in [Threads -> Modules \cup {"none"}]
       /\ \A u \in Threads \ {t} : pc'[u] = pc[u] /\ want'[u] = want[u]
       /\ pc'[t] = "deps" \/ (pc'[t] = "enter" /\ want'[t] \in Modules /\ want'[t] \notin loading[t])
  BY <1>1, <1>9 DEF DllTypes, LoadPlaces
<1>13. DllTypes' /\ Others(t)
  BY <1>1, <1>11, <1>12 DEF DllTypes, Others
<1>14. Nested(t)'
  <2>1. ASSUME NEW i \in 1 .. Len(stack[t]) PROVE stack[t][i].name \in loading[t]
    BY <1>1 DEF Nested
  <2>2. stack'[t] # <<>>
    BY <1>2, <1>3, <1>7, <1>11, EmptySeq
  <2>3. \A i, j \in 1 .. Len(stack'[t]) : stack'[t][i].name = stack'[t][j].name => i = j
    BY <1>1, <1>11 DEF Nested
  <2>4. QED
    BY <1>1, <1>11, <1>12, <2>1, <2>2, <2>3 DEF Nested
<1>15. FramesOld
  BY <1>11 DEF FramesOld
<1>16. QED
  BY <1>1, <1>12, <1>13, <1>14, <1>15, NestedStep

\* The frames below the innermost one.
LEMMA FrontNested ==
  ASSUME LoadInv, NEW t \in Threads, stack[t] # <<>>, NEW i \in 1 .. Len(Front(stack[t]))
  PROVE  /\ i \in 1 .. Len(stack[t]) /\ i # Len(stack[t]) /\ Front(stack[t])[i] = stack[t][i]
         /\ stack[t][i].name \in loading[t] /\ stack[t][i].name # Innermost(t).name
<1>1. /\ Len(stack[t]) \in Nat \ {0} /\ Innermost(t) = stack[t][Len(stack[t])]
      /\ Len(Front(stack[t])) = Len(stack[t]) - 1
      /\ \A j \in 1 .. Len(stack[t]) - 1 : Front(stack[t])[j] = stack[t][j]
  BY InnermostFacts
<1>2. /\ i \in 1 .. Len(stack[t]) /\ i # Len(stack[t]) /\ i \in 1 .. Len(stack[t]) - 1
      /\ Len(stack[t]) \in 1 .. Len(stack[t])
  BY <1>1
<1>3. Nested(t)
  BY DEF LoadInv
<1>4. QED
  BY <1>1, <1>2, <1>3 DEF Nested

\* The image is registered, and its frame left.
LEMMA ImageRegistered ==
  ASSUME LoadInv, NEW t \in Threads, Registers(t)
  PROVE  LoadInv' /\ Others(t) /\ FramesOld /\ pc[t] = "register" /\ stack[t] # <<>>
         /\ Len(stack'[t]) = Len(stack[t]) - 1
<1> DEFINE rest == Front(stack[t])
           d == [name |-> Innermost(t).name, hmod |-> Innermost(t).image, refs |-> 1]
<1>1. /\ DllTypes /\ Nested(t) /\ UNCHANGED <<made, pages, want, owned, synthetic>>
      /\ pc[t] = "register" /\ dlls' = Append(dlls, d) /\ stack' = [stack EXCEPT ![t] = rest]
      /\ loading' = [loading EXCEPT ![t] = @ \ {Innermost(t).name}]
      /\ Leaves(t, rest, Innermost(t).image)
  BY DEF LoadInv, Registers
<1>2. stack[t] # <<>>
  BY <1>1 DEF Nested
<1>3. /\ Innermost(t) \in LoadFrame /\ rest \in Seq(LoadFrame) /\ Len(rest) = Len(stack[t]) - 1
      /\ Len(stack[t]) \in Nat \ {0}
  BY <1>2, InnermostFacts
<1>4. Innermost(t).name \in Modules /\ Innermost(t).image \in Nat \ {0}
  BY <1>3 DEF LoadFrame, Images
<1>5. d \in DllRecord
  BY <1>4 DEF DllRecord
<1>6. \A i \in 1 .. Len(rest) :
        /\ i \in 1 .. Len(stack[t]) /\ rest[i] = stack[t][i]
        /\ stack[t][i].name \in loading[t] /\ stack[t][i].name # Innermost(t).name
  BY <1>2, FrontNested
<1> HIDE DEF rest, d
<1>7. dlls' \in Seq(DllRecord)
  BY <1>1, <1>5, AppendProperties DEF DllTypes
<1>8. /\ stack' \in [Threads -> Seq(LoadFrame)] /\ stack'[t] = rest
      /\ \A u \in Threads \ {t} : stack'[u] = stack[u]
  BY <1>1, <1>3 DEF DllTypes
<1>9. /\ loading' \in [Threads -> SUBSET Modules] /\ loading'[t] = loading[t] \ {Innermost(t).name}
      /\ \A u \in Threads \ {t} : loading'[u] = loading[u]
  BY <1>1 DEF DllTypes
<1>10. /\ pc' \in [Threads -> LoadPlaces] /\ hmod' \in [Threads -> Nat]
       /\ \A u \in Threads \ {t} : pc'[u] = pc[u] /\ hmod'[u] = hmod[u]
       /\ (rest = <<>> /\ pc'[t] = "loaded") \/ (rest # <<>> /\ pc'[t] = "deps")
  BY <1>1, <1>4, LeavesTo
<1>11. DllTypes' /\ Others(t)
  BY <1>1, <1>7, <1>8, <1>9, <1>10 DEF DllTypes, Others
<1>12. Nested(t)'
  <2>1. \A i \in 1 .. Len(stack'[t]) : stack'[t][i].name \in loading'[t]
    BY <1>6, <1>8, <1>9
  <2>2. \A i, j \in 1 .. Len(stack'[t]) : stack'[t][i].name = stack'[t][j].name => i = j
    BY <1>1, <1>6, <1>8 DEF Nested
  <2>3. QED
    BY <1>8, <1>10, <2>1, <2>2 DEF Nested
<1>13. FramesOld
  BY <1>6, <1>8 DEF FramesOld
<1>14. QED
  BY <1>1, <1>2, <1>3, <1>8, <1>11, <1>12, <1>13, NestedStep

\* load_dll_impl fails, and the importer goes on.
LEMMA LoadFailed ==
  ASSUME LoadInv, NEW t \in Threads, OpenFails(t) \/ LoadFails(t)
  PROVE  LoadInv' /\ Others(t) /\ FramesOld /\ pc[t] \in {"enter", "mapped", "deps"}
         /\ pc'[t] \in {"run", "deps"}
<1>1. PICK rest : /\ Fails(t, rest) /\ pc[t] \in {"enter", "mapped", "deps"}
                  /\ (pc[t] = "enter" /\ rest = stack[t]) \/ (pc[t] # "enter" /\ rest = Front(stack[t]))
  BY DEF OpenFails, LoadFails
<1>2. /\ DllTypes /\ Nested(t) /\ UNCHANGED <<dlls, made, pages, loading, hmod, owned, synthetic>>
      /\ stack' = [stack EXCEPT ![t] = rest] /\ want' = [want EXCEPT ![t] = "none"]
      /\ pc' = [pc EXCEPT ![t] = IF rest = <<>> THEN "run" ELSE "deps"]
  BY <1>1 DEF LoadInv, Fails
<1>3. /\ rest \in Seq(LoadFrame)
      /\ \A i \in 1 .. Len(rest) : /\ i \in 1 .. Len(stack[t]) /\ rest[i] = stack[t][i]
                                   /\ stack[t][i].name \in loading[t]
  <2>1. CASE pc[t] = "enter"
    BY <2>1, <1>1, <1>2 DEF Nested, DllTypes
  <2>2. CASE pc[t] # "enter"
    <3>1. stack[t] # <<>>
      BY <2>2, <1>1, <1>2 DEF Nested
    <3>2. QED
      BY <2>2, <3>1, <1>1, InnermostFacts, FrontNested
  <2>3. QED
    BY <2>1, <2>2
<1>4. /\ stack' \in [Threads -> Seq(LoadFrame)] /\ stack'[t] = rest
      /\ \A u \in Threads \ {t} : stack'[u] = stack[u]
  BY <1>2, <1>3 DEF DllTypes
<1>5. /\ pc' \in [Threads -> LoadPlaces] /\ want' \in [Threads -> Modules \cup {"none"}]
      /\ \A u \in Threads \ {t} : pc'[u] = pc[u] /\ want'[u] = want[u]
      /\ (rest = <<>> /\ pc'[t] = "run") \/ (rest # <<>> /\ pc'[t] = "deps")
  BY <1>2 DEF DllTypes, LoadPlaces
<1>6. DllTypes' /\ Others(t)
  BY <1>2, <1>4, <1>5 DEF DllTypes, Others
<1>7. Nested(t)'
  <2>1. \A i \in 1 .. Len(stack'[t]) : stack'[t][i].name \in loading'[t]
    BY <1>2, <1>3, <1>4
  <2>2. \A i, j \in 1 .. Len(stack'[t]) : stack'[t][i].name = stack'[t][j].name => i = j
    BY <1>2, <1>3, <1>4 DEF Nested
  <2>3. QED
    BY <1>4, <1>5, <2>1, <2>2 DEF Nested
<1>8. FramesOld
  BY <1>3, <1>4 DEF FramesOld
<1>9. QED
  BY <1>1, <1>5, <1>6, <1>7, <1>8, NestedStep

\* Initially nothing is loaded.
LEMMA DllInitInv == DllInit => LoadInv /\ HandleInv
<1> SUFFICES ASSUME DllInit PROVE LoadInv /\ HandleInv
  OBVIOUS
<1>1. <<>> \in Seq(DllRecord) /\ <<>> \in Seq(LoadFrame) /\ Len(<<>>) = 0
  BY EmptySeq
<1>2. DllTypes
  BY <1>1 DEF DllInit, DllTypes, LoadPlaces
<1>3. \A t \in Threads : Nested(t)
  BY <1>1 DEF DllInit, Nested
<1>4. ImagesApart /\ HandlesMade /\ TermGone
  BY <1>1 DEF DllInit, ImagesApart, HandlesMade, TermGone
<1>5. \A h \in Images : Holders(h) = {} /\ owned[h] = 0
  BY DEF DllInit, Holders
<1>6. \A h \in Images : Claims(h) = 0
  BY <1>5, FS_EmptySet DEF Claims
<1>7. Counted
  BY <1>1, <1>6 DEF DllInit, Counted
<1>8. QED
  BY <1>2, <1>3, <1>4, <1>7 DEF LoadInv, HandleInv

\* Every step keeps the frames of every thread in order.
LEMMA LoadStepInv == LoadInv /\ [DllNext]_dllVars => LoadInv'
<1>1. ASSUME LoadInv, NEW t \in Threads,
             \/ LoadStep(t) \/ \E b \in Builtins : LoadBuiltin(t, b)
             \/ (\E m \in Modules : LoadUser(t, m)) \/ \E h \in Images : FreeModule(t, h)
      PROVE  LoadInv'
  BY <1>1, FoundLoads, Mapped, LoadFailed, PagesFixed, ImportTaken, ImageRegistered,
     LoadEnds, BuiltinLoads, UserLoads, ModuleFrees DEF LoadStep
<1>2. ASSUME LoadInv, UNCHANGED dllVars PROVE LoadInv'
  BY <1>2 DEF LoadInv, DllTypes, Nested, dllVars
<1>3. QED
  BY <1>1, <1>2 DEF DllNext

\* load_dll_impl never enters a module that is being loaded further up its call
\* stack, whatever the import graph: the recursion over a cycle ends.
THEOREM RecursionEnds == DllSpec => []NoReentry
<1>1. LoadInv => NoReentry
  <2>1. ASSUME LoadInv, NEW t \in Threads PROVE DOMAIN stack[t] = 1 .. Len(stack[t]) /\ Nested(t)
    BY <2>1, LenProperties DEF LoadInv, DllTypes
  <2>2. QED
    BY <2>1 DEF NoReentry, Nested, IsInjective
<1>2. QED
  BY <1>1, DllInitInv, LoadStepInv, PTL DEF DllSpec

----------------------------------------------------------------------------
(* Handles stay valid.                                                     *)

\* Who holds a module after a step of one thread.
LEMMA HoldersStep ==
  ASSUME LoadInv, LoadInv', NEW t \in Threads, Others(t), NEW h
  PROVE  /\ IsFiniteSet(Holders(h)) /\ Cardinality(Holders(h)) \in Nat
         /\ IsFiniteSet(Holders(h)') /\ Cardinality(Holders(h)') \in Nat
         /\ (t \in Holders(h) <=> t \in Holders(h)') => Holders(h)' = Holders(h)
         /\ t \in Holders(h) /\ t \notin Holders(h)' =>
              Cardinality(Holders(h)') = Cardinality(Holders(h)) - 1
         /\ t \notin Holders(h) /\ t \in Holders(h)' =>
              Cardinality(Holders(h)') = Cardinality(Holders(h)) + 1
<1>1. IsFiniteSet(Threads) /\ Holders(h) \in SUBSET Threads /\ Holders(h)' \in SUBSET Threads
  BY DllAssumption DEF Holders
<1>2. /\ IsFiniteSet(Holders(h)) /\ IsFiniteSet(Holders(h)')
  BY <1>1, FS_Subset
<1>3. Cardinality(Holders(h)) \in Nat /\ Cardinality(Holders(h)') \in Nat
  BY <1>2, FS_CardinalityType
<1>4. \A u \in Threads \ {t} : u \in Holders(h)' <=> u \in Holders(h)
  BY DEF Others, Holders
<1>5. (t \in Holders(h) <=> t \in Holders(h)') => Holders(h)' = Holders(h)
  BY <1>1, <1>4
<1>6. ASSUME t \in Holders(h), t \notin Holders(h)'
      PROVE  Cardinality(Holders(h)') = Cardinality(Holders(h)) - 1
  <2>1. Holders(h)' = Holders(h) \ {t}
    BY <1>1, <1>4, <1>6
  <2>2. QED
    BY <2>1, <1>2, <1>6, FS_RemoveElement
<1>7. ASSUME t \notin Holders(h), t \in Holders(h)'
      PROVE  Cardinality(Holders(h)') = Cardinality(Holders(h)) + 1
  <2>1. Holders(h)' = Holders(h) \cup {t}
    BY <1>1, <1>4, <1>7
  <2>2. QED
    BY <2>1, <1>2, <1>7, FS_AddElement
<1>8. QED
  BY <1>2, <1>3, <1>5, <1>6, <1>7

\* Claims are numbers.
LEMMA ClaimsNat ==
  ASSUME LoadInv, NEW h \in Images
  PROVE  owned[h] \in Nat /\ Cardinality(Holders(h)) \in Nat /\ Claims(h) \in Nat
         /\ (Holders(h) # {} => Cardinality(Holders(h)) > 0)
<1>1. IsFiniteSet(Threads) /\ Holders(h) \in SUBSET Threads
  BY DllAssumption DEF Holders
<1>2. IsFiniteSet(Holders(h))
  BY <1>1, FS_Subset
<1>3. Cardinality(Holders(h)) \in Nat /\ (Cardinality(Holders(h)) = 0 <=> Holders(h) = {})
  BY <1>2, FS_CardinalityType, FS_EmptySet
<1>4. owned[h] \in Nat
  BY DEF LoadInv, DllTypes
<1>5. QED
  BY <1>3, <1>4 DEF Claims

\* They are after a step.
LEMMA ClaimsNatNext ==
  ASSUME LoadInv', NEW h \in Images
  PROVE  owned'[h] \in Nat /\ Cardinality(Holders(h)') \in Nat /\ Claims(h)' \in Nat
         /\ Claims(h)' = owned'[h] + Cardinality(Holders(h)')
<1>1. IsFiniteSet(Threads) /\ Holders(h)' \in SUBSET Threads
  BY DllAssumption DEF Holders
<1>2. IsFiniteSet(Holders(h)')
  BY <1>1, FS_Subset
<1>3. Cardinality(Holders(h)') \in Nat
  BY <1>2, FS_CardinalityType
<1>4. owned'[h] \in Nat
  BY DEF LoadInv, DllTypes
<1>5. QED
  BY <1>3, <1>4 DEF Claims

\* The invariant is what HandlesValid says.
LEMMA HandlesAreValid == LoadInv /\ HandleInv => HandlesValid
<1> SUFFICES ASSUME LoadInv, HandleInv PROVE HandlesValid
  OBVIOUS
<1>1. DOMAIN dlls = 1 .. Len(dlls) /\ dlls \in Seq(DllRecord)
  BY LenProperties DEF LoadInv, DllTypes
<1>2. HandleStaysValid
  BY <1>1 DEF HandleInv, HandlesMade, Counted, Claims, HandleStaysValid
<1>3. ASSUME NEW h \in Images \ synthetic, owned[h] > 0 \/ Holders(h) # {}
      PROVE  Registered(h) /\ h \in pages
  <2>1. Claims(h) > 0
    BY <1>3, ClaimsNat DEF Claims
  <2>2. PICK k \in 1 .. Len(dlls) : dlls[k].hmod = h
    BY <2>1 DEF HandleInv, Counted
  <2>3. dlls[k].name \in Modules \cup Builtins
    <3>1. dlls[k] \in DllRecord
      BY <1>1, ElementOfSeq
    <3>2. QED
      BY <3>1 DEF DllRecord
  <2>4. h \in pages
    BY <2>2, <2>3, <1>3 DEF HandleInv, HandlesMade
  <2>5. QED
    BY <1>1, <2>2, <2>4 DEF Registered, Place
<1>4. QED
  BY <1>2, <1>3 DEF HandlesValid, OwnedIsRegistered

\* Every entry was there before, perhaps with another count, and is there once.
EntriesOld ==
  /\ \A k \in 1 .. Len(dlls') : \E j \in 1 .. Len(dlls) :
       dlls'[k].name = dlls[j].name /\ dlls'[k].hmod = dlls[j].hmod
  /\ \A j, k \in 1 .. Len(dlls') : dlls'[j].hmod = dlls'[k].hmod => j = k

\* An image that no entry and no frame has any more.
Left(x) ==
  /\ \A k \in 1 .. Len(dlls') : dlls'[k].hmod # x
  /\ \A u \in Threads : \A i \in 1 .. Len(stack'[u]) : stack'[u][i].image # x

\* A step that adds no entry and no frame.
LEMMA ApartKept ==
  ASSUME HandleInv, FramesOld, EntriesOld, made' = made, synthetic' = synthetic,
         pages' \subseteq pages, \A x \in pages \ pages' : Left(x),
         \A u \in Threads : pc'[u] = "term" =>
            (pc[u] = "term" /\ hmod'[u] = hmod[u]) \/ (hmod'[u] <= made /\ Left(hmod'[u]))
  PROVE  ImagesApart' /\ HandlesMade' /\ TermGone'
<1>1. ImagesApart'
  <2>1. \A t, u \in Threads : \A i \in 1 .. Len(stack'[t]) : \A j \in 1 .. Len(stack'[u]) :
          stack'[t][i].image = stack'[u][j].image => t = u /\ i = j
    BY DEF HandleInv, ImagesApart, FramesOld
  <2>2. ASSUME NEW t \in Threads, NEW i \in 1 .. Len(stack'[t])
        PROVE  /\ stack'[t][i].image \in pages' \ synthetic' /\ stack'[t][i].image <= made'
               /\ \A k \in 1 .. Len(dlls') : dlls'[k].hmod # stack'[t][i].image
    <3>1. i \in 1 .. Len(stack[t]) /\ stack'[t][i].image = stack[t][i].image
      BY DEF FramesOld
    <3>2. /\ stack[t][i].image \in pages \ synthetic /\ stack[t][i].image <= made
          /\ \A k \in 1 .. Len(dlls) : dlls[k].hmod # stack[t][i].image
      BY <3>1 DEF HandleInv, ImagesApart
    <3>3. stack'[t][i].image \in pages'
      BY <3>1, <3>2 DEF Left
    <3>4. QED
      BY <3>1, <3>2, <3>3 DEF EntriesOld
  <2>3. QED
    BY <2>1, <2>2 DEF ImagesApart, EntriesOld
<1>2. HandlesMade'
  <2>1. ASSUME NEW k \in 1 .. Len(dlls')
        PROVE  /\ dlls'[k].hmod <= made'
               /\ dlls'[k].name \in Builtins <=> dlls'[k].hmod \in synthetic'
               /\ dlls'[k].name \in Modules => dlls'[k].hmod \in Images \cap pages'
    <3>1. PICK j \in 1 .. Len(dlls) : dlls'[k].name = dlls[j].name /\ dlls'[k].hmod = dlls[j].hmod
      BY DEF EntriesOld
    <3>2. QED
      BY <3>1 DEF HandleInv, HandlesMade, Left
  <2>2. QED
    BY <2>1 DEF HandleInv, HandlesMade
<1>3. TermGone'
  <2>1. ASSUME NEW t \in Threads, pc'[t] = "term" PROVE hmod'[t] <= made' /\ Left(hmod'[t])
    <3>1. CASE pc[t] = "term" /\ hmod'[t] = hmod[t]
      BY <3>1 DEF HandleInv, TermGone, Left, EntriesOld, FramesOld
    <3>2. QED
      BY <2>1, <3>1
  <2>2. QED
    BY <2>1 DEF TermGone, Left
<1>4. QED
  BY <1>1, <1>2, <1>3

\* A step that adds no claim and changes no count.
LEMMA ClaimsKept ==
  ASSUME LoadInv, LoadInv', HandleInv, dlls' = dlls, synthetic \subseteq synthetic',
         \A h \in Images \ synthetic : Claims(h)' <= Claims(h)
  PROVE  Counted'
<1>1. ASSUME NEW h \in Images, NEW k \in 1 .. Len(dlls'), dlls'[k].hmod = h, dlls'[k].name \in Modules
      PROVE  dlls'[k].refs >= Claims(h)'
  <2>1. dlls[k].hmod = h /\ dlls[k].name \in Modules /\ k \in 1 .. Len(dlls) /\ dlls[k] \in DllRecord
    BY <1>1, ElementOfSeq DEF LoadInv, DllTypes
  <2>2. h \notin synthetic
    BY <2>1, DllAssumption DEF HandleInv, HandlesMade
  <2>3. dlls[k].refs >= Claims(h) /\ Claims(h)' <= Claims(h)
    BY <2>1, <2>2 DEF HandleInv, Counted
  <2>4. Claims(h) \in Nat /\ Claims(h)' \in Nat
    BY ClaimsNat, ClaimsNatNext
  <2>5. dlls[k].refs \in Nat
    BY <2>1 DEF DllRecord
  <2>6. QED
    BY <2>3, <2>4, <2>5
<1>2. ASSUME NEW h \in Images \ synthetic', Claims(h)' > 0
      PROVE  \E k \in 1 .. Len(dlls') : dlls'[k].hmod = h
  <2>1. h \in Images \ synthetic /\ Claims(h)' <= Claims(h)
    OBVIOUS
  <2>2. Claims(h) \in Nat /\ Claims(h)' \in Nat
    BY ClaimsNat, ClaimsNatNext
  <2>3. Claims(h) > 0
    BY <1>2, <2>1, <2>2
  <2>4. QED
    BY <2>1, <2>3 DEF HandleInv, Counted
<1>3. QED
  BY <1>1, <1>2 DEF Counted

\* A step inside load_dll_impl that touches no table.
LEMMA QuietLoad ==
  ASSUME LoadInv, LoadInv', HandleInv, NEW t \in Threads, Others(t), FramesOld,
         UNCHANGED <<dlls, made, pages, owned, synthetic, hmod>>,
         pc[t] \notin {"loaded", "init", "term"}, pc'[t] \notin {"loaded", "init", "term"}
  PROVE  HandleInv'
<1>1. EntriesOld
  BY DEF EntriesOld, HandleInv, ImagesApart
<1>2. \A u \in Threads : pc'[u] = "term" => pc[u] = "term" /\ hmod'[u] = hmod[u]
  BY DEF Others
<1>3. ImagesApart' /\ HandlesMade' /\ TermGone'
  BY <1>1, <1>2, ApartKept
<1>4. ASSUME NEW h \in Images PROVE Claims(h)' <= Claims(h)
  <2>1. t \notin Holders(h) /\ t \notin Holders(h)'
    BY DEF Holders
  <2>2. Holders(h)' = Holders(h) /\ owned'[h] = owned[h]
    BY <2>1, HoldersStep
  <2>3. Claims(h)' = Claims(h) /\ Claims(h) \in Nat
    BY <2>2, ClaimsNat DEF Claims
  <2>4. QED
    BY <2>3
<1>5. Counted'
  BY <1>4, ClaimsKept
<1>6. QED
  BY <1>3, <1>5 DEF HandleInv

\* The steps that do.
LEMMA QuietSteps ==
  ASSUME LoadInv, HandleInv, NEW t \in Threads,
         \/ \E m \in Modules : LoadUser(t, m)
         \/ PagesRead(t) \/ Fixups(t) \/ NextImport(t) \/ OpenFails(t) \/ LoadFails(t)
  PROVE  HandleInv'
<1>1. /\ UNCHANGED <<dlls, made, pages, owned, synthetic, hmod>>
  BY DEF LoadUser, PagesRead, Fixups, NextImport, OpenFails, LoadFails, Fails
<1>2. /\ LoadInv' /\ Others(t) /\ FramesOld
      /\ pc[t] \notin {"loaded", "init", "term"} /\ pc'[t] \notin {"loaded", "init", "term"}
  BY UserLoads, PagesFixed, ImportTaken, LoadFailed
<1>3. QED
  BY <1>1, <1>2, QuietLoad

\* DosLoadModule ends, or the last INITTERM returns.
LEMMA LoadEndsHandles ==
  ASSUME LoadInv, HandleInv, NEW t \in Threads,
         LoadReturns(t) \/ InitSucceeds(t) \/ InitFails(t) \/ TermReturns(t)
  PROVE  HandleInv'
<1>1. LoadInv' /\ Others(t)
  BY LoadEnds
<1>2. /\ UNCHANGED <<dlls, made, stack, synthetic>> /\ pages' \subseteq pages
      /\ \A x \in pages \ pages' : pc[t] = "term" /\ x = hmod[t]
      /\ pc[t] \in {"loaded", "init", "term"} /\ pc'[t] \in {"init", "run"}
      /\ \/ pc'[t] = "init" /\ pc[t] # "term" /\ hmod'[t] = hmod[t] /\ owned' = owned
         \/ pc'[t] = "run" /\ owned' = owned
         \/ pc'[t] = "run" /\ pc[t] # "term" /\ Grant(hmod[t])
  BY DEF LoadInv, DllTypes, LoadReturns, InitSucceeds, InitFails, TermReturns, Return
<1>3. EntriesOld /\ FramesOld
  BY <1>2 DEF EntriesOld, FramesOld, HandleInv, ImagesApart
<1>4. \A x \in pages \ pages' : Left(x)
  BY <1>2 DEF Left, HandleInv, TermGone
<1>5. \A u \in Threads : pc'[u] = "term" => pc[u] = "term" /\ hmod'[u] = hmod[u]
  BY <1>1, <1>2 DEF Others
<1>6. ImagesApart' /\ HandlesMade' /\ TermGone'
  BY <1>2, <1>3, <1>4, <1>5, ApartKept
<1>7. ASSUME NEW h \in Images PROVE Claims(h)' <= Claims(h)
  <2>1. /\ owned[h] \in Nat /\ Cardinality(Holders(h)) \in Nat /\ Claims(h) \in Nat
        /\ Claims(h) = owned[h] + Cardinality(Holders(h))
        /\ Claims(h)' = owned'[h] + Cardinality(Holders(h)')
        /\ Cardinality(Holders(h)') \in Nat
    BY ClaimsNat, <1>1, HoldersStep DEF Claims
  <2>2. CASE pc'[t] = "init" /\ pc[t] # "term" /\ hmod'[t] = hmod[t] /\ owned' = owned
    <3>1. t \in Holders(h) <=> t \in Holders(h)'
      BY <2>2, <1>2 DEF Holders
    <3>2. QED
      BY <2>1, <2>2, <3>1, <1>1, HoldersStep
  <2>3. CASE pc'[t] = "run" /\ owned' = owned
    <3>1. t \notin Holders(h)'
      BY <2>3 DEF Holders
    <3>2. Cardinality(Holders(h)') <= Cardinality(Holders(h))
      BY <3>1, <2>1, <1>1, HoldersStep
    <3>3. QED
      BY <2>1, <2>3, <3>2
  <2>4. CASE pc'[t] = "run" /\ pc[t] # "term" /\ Grant(hmod[t])
    <3>1. owned'[h] = IF h = hmod[t] THEN owned[h] + 1 ELSE owned[h]
      BY <2>4, GrantType DEF LoadInv, DllTypes
    <3>2. t \notin Holders(h)' /\ (t \in Holders(h) <=> h = hmod[t])
      BY <2>4, <1>2 DEF Holders
    <3>3. CASE h = hmod[t]
      <4>1. Cardinality(Holders(h)') = Cardinality(Holders(h)) - 1
        BY <3>2, <3>3, <1>1, HoldersStep
      <4>2. QED
        BY <2>1, <3>1, <3>3, <4>1
    <3>4. CASE h # hmod[t]
      <4>1. Holders(h)' = Holders(h)
        BY <3>2, <3>4, <1>1, HoldersStep
      <4>2. QED
        BY <2>1, <3>1, <3>4, <4>1
    <3>5. QED
      BY <3>3, <3>4
  <2>5. QED
    BY <1>2, <2>2, <2>3, <2>4
<1>8. Counted'
  BY <1>1, <1>2, <1>7, ClaimsKept
<1>9. QED
  BY <1>6, <1>8 DEF HandleInv

\* A new image is mapped.
LEMMA MappedHandles ==
  ASSUME LoadInv, HandleInv, NEW t \in Threads, Maps(t)
  PROVE  HandleInv'
<1>1. /\ LoadInv' /\ Others(t) /\ pc[t] = "enter" /\ pc'[t] = "mapped"
      /\ Len(stack[t]) \in Nat /\ Len(stack'[t]) = Len(stack[t]) + 1
      /\ \A i \in 1 .. Len(stack[t]) : stack'[t][i] = stack[t][i]
      /\ stack'[t][Len(stack[t]) + 1].image = made + 1 /\ made + 1 \in Images
  BY Mapped
<1>2. /\ UNCHANGED <<dlls, hmod, owned, synthetic>> /\ made' = made + 1
      /\ pages' = pages \cup {made + 1} /\ made \in Nat
      /\ dlls \in Seq(DllRecord) /\ Len(dlls) \in Nat
  BY LenProperties DEF Maps, MapImage, LoadInv, DllTypes
<1>3. \A h \in synthetic : h \in Nat /\ h <= made
  BY DEF LoadInv, DllTypes, HandleInv, HandlesMade
<1>4. \A k \in 1 .. Len(dlls) : dlls[k].hmod \in Nat /\ dlls[k].hmod <= made
  <2>1. \A k \in 1 .. Len(dlls) : dlls[k] \in DllRecord
    BY <1>2, ElementOfSeq
  <2>2. QED
    BY <2>1 DEF DllRecord, HandleInv, HandlesMade
\* a frame was there before, or is the new one
<1>5. ASSUME NEW u \in Threads, NEW i \in 1 .. Len(stack'[u])
      PROVE  \/ i \in 1 .. Len(stack[u]) /\ stack'[u][i].image = stack[u][i].image
             \/ u = t /\ i = Len(stack[t]) + 1 /\ stack'[u][i].image = made + 1
  <2>1. CASE u = t
    <3>1. i \in 1 .. Len(stack[t]) \/ i = Len(stack[t]) + 1
      BY <1>1, <2>1
    <3>2. QED
      BY <1>1, <2>1, <3>1
  <2>2. CASE u # t
    BY <1>1, <2>2 DEF Others
  <2>3. QED
    BY <2>1, <2>2
<1>6. ASSUME NEW u \in Threads, NEW i \in 1 .. Len(stack[u])
      PROVE  /\ stack[u][i].image \in Nat /\ stack[u][i].image <= made
             /\ stack[u][i].image \in pages \ synthetic
             /\ \A k \in 1 .. Len(dlls) : dlls[k].hmod # stack[u][i].image
  BY DEF HandleInv, ImagesApart, LoadInv, DllTypes
<1>7. ImagesApart'
  <2>1. ASSUME NEW u \in Threads, NEW v \in Threads,
               NEW i \in 1 .. Len(stack'[u]), NEW j \in 1 .. Len(stack'[v]),
               stack'[u][i].image = stack'[v][j].image
        PROVE  u = v /\ i = j
    <3>1. CASE stack'[u][i].image = made + 1
      <4>1. ASSUME NEW x \in Threads, NEW a \in 1 .. Len(stack[x]) PROVE stack[x][a].image # made + 1
        BY <1>2, <1>6
      <4>2. stack'[v][j].image = made + 1
        BY <2>1, <3>1
      <4>3. u = t /\ i = Len(stack[t]) + 1
        BY <3>1, <4>1, <1>5
      <4>4. v = t /\ j = Len(stack[t]) + 1
        BY <4>2, <4>1, <1>5
      <4>5. QED
        BY <4>3, <4>4
    <3>2. CASE stack'[u][i].image # made + 1
      <4>1. stack'[v][j].image # made + 1
        BY <2>1, <3>2
      <4>2. i \in 1 .. Len(stack[u]) /\ stack'[u][i].image = stack[u][i].image
        BY <3>2, <1>5
      <4>3. j \in 1 .. Len(stack[v]) /\ stack'[v][j].image = stack[v][j].image
        BY <4>1, <1>5
      <4>4. stack[u][i].image = stack[v][j].image
        BY <2>1, <4>2, <4>3
      <4>5. \A x, y \in Threads : \A a \in 1 .. Len(stack[x]) : \A c \in 1 .. Len(stack[y]) :
              stack[x][a].image = stack[y][c].image => x = y /\ a = c
        BY DEF HandleInv, ImagesApart
      <4>6. QED
        BY <4>2, <4>3, <4>4, <4>5
    <3>3. QED
      BY <3>1, <3>2
  <2>2. ASSUME NEW u \in Threads, NEW i \in 1 .. Len(stack'[u])
        PROVE  /\ stack'[u][i].image \in pages' \ synthetic' /\ stack'[u][i].image <= made'
               /\ \A k \in 1 .. Len(dlls') : dlls'[k].hmod # stack'[u][i].image
    <3>1. CASE stack'[u][i].image = made + 1
      BY <3>1, <1>2, <1>3, <1>4
    <3>2. CASE i \in 1 .. Len(stack[u]) /\ stack'[u][i].image = stack[u][i].image
      BY <3>2, <1>2, <1>6
    <3>3. QED
      BY <3>1, <3>2, <1>5
  <2>3. \A j, k \in 1 .. Len(dlls') : dlls'[j].hmod = dlls'[k].hmod => j = k
    BY <1>2 DEF HandleInv, ImagesApart
  <2>4. QED
    BY <2>1, <2>2, <2>3 DEF ImagesApart
<1>8. HandlesMade'
  BY <1>2, <1>3, <1>4 DEF HandleInv, HandlesMade
<1>9. TermGone'
  <2>1. ASSUME NEW u \in Threads, pc'[u] = "term"
        PROVE  /\ hmod'[u] <= made'
               /\ \A k \in 1 .. Len(dlls') : dlls'[k].hmod # hmod'[u]
               /\ \A v \in Threads : \A i \in 1 .. Len(stack'[v]) : stack'[v][i].image # hmod'[u]
    <3>1. pc[u] = "term" /\ hmod'[u] = hmod[u] /\ hmod[u] \in Nat /\ hmod[u] <= made
      BY <2>1, <1>1, <1>2 DEF Others, HandleInv, TermGone, LoadInv, DllTypes
    <3>2. hmod[u] # made + 1 /\ hmod[u] <= made'
      BY <3>1, <1>2
    <3>3. QED
      BY <3>1, <3>2, <1>2, <1>5 DEF HandleInv, TermGone
  <2>2. QED
    BY <2>1 DEF TermGone
<1>10. ASSUME NEW h \in Images PROVE Claims(h)' <= Claims(h)
  <2>1. t \notin Holders(h) /\ t \notin Holders(h)'
    BY <1>1 DEF Holders
  <2>2. Holders(h)' = Holders(h) /\ owned'[h] = owned[h]
    BY <2>1, <1>1, <1>2, HoldersStep
  <2>3. Claims(h)' = Claims(h) /\ Claims(h) \in Nat
    BY <2>2, ClaimsNat DEF Claims
  <2>4. QED
    BY <2>3
<1>11. Counted'
  BY <1>1, <1>2, <1>10, ClaimsKept
<1>12. QED
  BY <1>7, <1>8, <1>9, <1>11 DEF HandleInv

\* An entry at the end of dlls.
LEMMA EntryAppended ==
  ASSUME DllTypes, NEW e \in DllRecord, dlls' = Append(dlls, e)
  PROVE  /\ Len(dlls) \in Nat /\ Len(dlls') = Len(dlls) + 1 /\ dlls'[Len(dlls) + 1] = e
         /\ \A k \in 1 .. Len(dlls) : dlls'[k] = dlls[k] /\ dlls[k] \in DllRecord
         /\ \A k \in 1 .. Len(dlls') : k \in 1 .. Len(dlls) \/ k = Len(dlls) + 1
<1>1. dlls \in Seq(DllRecord) /\ Len(dlls) \in Nat
  BY LenProperties DEF DllTypes
<1>2. /\ Len(dlls') = Len(dlls) + 1 /\ dlls'[Len(dlls) + 1] = e
      /\ \A k \in 1 .. Len(dlls) : dlls'[k] = dlls[k]
  BY <1>1, AppendProperties
<1>3. \A k \in 1 .. Len(dlls) : dlls[k] \in DllRecord
  BY <1>1, ElementOfSeq
<1>4. QED
  BY <1>1, <1>2, <1>3

\* A builtin is loaded: neither its entry nor its claims are a user DLL's.
LEMMA BuiltinHandles ==
  ASSUME LoadInv, HandleInv, NEW t \in Threads, NEW b \in Builtins, LoadBuiltin(t, b)
  PROVE  HandleInv'
<1>1. LoadInv' /\ Others(t)
  BY BuiltinLoads
<1>2. UNCHANGED <<pages, pc, stack, hmod>> /\ DllTypes
  BY DEF LoadBuiltin, LoadInv
<1>3. ASSUME NEW h \in Images PROVE Holders(h)' = Holders(h)
  BY <1>2 DEF Holders
<1>4. CASE Loaded(b) /\ Grant(dlls[First(b)].hmod) /\ UNCHANGED <<dlls, made, synthetic>>
  <2>1. PICK s : s = dlls[First(b)].hmod
    OBVIOUS
  <2>2. s \in synthetic
    BY <2>1, <1>2, <1>4, FirstFacts DEF HandleInv, HandlesMade
  <2>3. EntriesOld /\ FramesOld
    BY <1>2, <1>4 DEF EntriesOld, FramesOld, HandleInv, ImagesApart
  <2>4. ImagesApart' /\ HandlesMade' /\ TermGone'
    BY <1>2, <1>4, <2>3, ApartKept
  <2>5. ASSUME NEW h \in Images \ synthetic PROVE Claims(h)' <= Claims(h)
    <3>1. owned'[h] = owned[h]
      BY <2>1, <2>2, <1>2, <1>4, GrantType DEF DllTypes
    <3>2. Claims(h)' = Claims(h) /\ Claims(h) \in Nat
      BY <3>1, <1>3, ClaimsNat DEF Claims
    <3>3. QED
      BY <3>2
  <2>6. Counted'
    BY <1>1, <1>4, <2>5, ClaimsKept
  <2>7. QED
    BY <2>4, <2>6 DEF HandleInv
<1>5. CASE /\ made' = made + 1
           /\ dlls' = Append(dlls, [name |-> b, hmod |-> made + 1, refs |-> 1])
           /\ Grant(made + 1) /\ synthetic' = synthetic \cup {made + 1}
  <2>1. PICK e : e = [name |-> b, hmod |-> made + 1, refs |-> 1]
    OBVIOUS
  <2>2. made \in Nat
    BY <1>2 DEF DllTypes
  <2>3. e \in DllRecord /\ e.name = b /\ e.hmod = made + 1
    BY <2>1, <2>2 DEF DllRecord
  <2>4. dlls' = Append(dlls, e)
    BY <2>1, <1>5
  <2>5. /\ Len(dlls) \in Nat /\ Len(dlls') = Len(dlls) + 1 /\ dlls'[Len(dlls) + 1] = e
        /\ \A k \in 1 .. Len(dlls) : dlls'[k] = dlls[k] /\ dlls[k] \in DllRecord
        /\ \A k \in 1 .. Len(dlls') : k \in 1 .. Len(dlls) \/ k = Len(dlls) + 1
    BY <2>3, <2>4, <1>2, EntryAppended
  <2>6. \A k \in 1 .. Len(dlls) : dlls[k].hmod \in Nat /\ dlls[k].hmod <= made /\ dlls[k].hmod # made + 1
    BY <2>2, <2>5 DEF DllRecord, HandleInv, HandlesMade
  <2>7. ASSUME NEW u \in Threads, NEW i \in 1 .. Len(stack[u])
        PROVE  /\ stack[u][i].image \in Nat /\ stack[u][i].image <= made
               /\ stack[u][i].image # made + 1 /\ stack[u][i].image <= made + 1
    <3>1. stack[u][i].image \in Nat /\ stack[u][i].image <= made
      BY DEF HandleInv, ImagesApart, LoadInv, DllTypes
    <3>2. QED
      BY <3>1, <2>2
  <2>8. ImagesApart'
    <3>1. \A j, k \in 1 .. Len(dlls') : dlls'[j].hmod = dlls'[k].hmod => j = k
      BY <2>3, <2>5, <2>6 DEF HandleInv, ImagesApart
    <3>2. ASSUME NEW u \in Threads, NEW i \in 1 .. Len(stack[u])
          PROVE  /\ stack[u][i].image \in pages \ synthetic'
                 /\ \A k \in 1 .. Len(dlls') : dlls'[k].hmod # stack[u][i].image
      BY <1>5, <2>3, <2>5, <2>7 DEF HandleInv, ImagesApart
    <3>3. \A u \in Threads : \A i \in 1 .. Len(stack[u]) :
            stack[u][i].image <= made' /\ stack[u][i].image \in pages' \ synthetic'
      BY <1>2, <1>5, <2>7, <3>2
    <3>4. \A u, v \in Threads : \A i \in 1 .. Len(stack[u]) : \A j \in 1 .. Len(stack[v]) :
            stack[u][i].image = stack[v][j].image => u = v /\ i = j
      BY DEF HandleInv, ImagesApart
    <3>5. stack' = stack
      BY <1>2
    <3>6. \A u, v \in Threads : \A i \in 1 .. Len(stack'[u]) : \A j \in 1 .. Len(stack'[v]) :
            stack'[u][i].image = stack'[v][j].image => u = v /\ i = j
      BY <3>4, <3>5
    <3>7. \A u \in Threads : \A i \in 1 .. Len(stack'[u]) :
            /\ stack'[u][i].image \in pages' \ synthetic' /\ stack'[u][i].image <= made'
            /\ \A k \in 1 .. Len(dlls') : dlls'[k].hmod # stack'[u][i].image
      BY <3>2, <3>3, <3>5
    <3>8. QED
      BY <3>1, <3>6, <3>7 DEF ImagesApart
  <2>9. HandlesMade'
    <3>1. ASSUME NEW k \in 1 .. Len(dlls')
          PROVE  /\ dlls'[k].hmod <= made'
                 /\ dlls'[k].name \in Builtins <=> dlls'[k].hmod \in synthetic'
                 /\ dlls'[k].name \in Modules => dlls'[k].hmod \in Images \cap pages'
      <4>1. CASE k = Len(dlls) + 1
        BY <4>1, <1>5, <2>2, <2>3, <2>5, DllAssumption
      <4>2. CASE k \in 1 .. Len(dlls)
        <5>1. dlls'[k] = dlls[k] /\ dlls[k].hmod <= made'
          BY <4>2, <2>2, <2>5, <2>6, <1>5
        <5>2. QED
          BY <4>2, <5>1, <1>2, <1>5, <2>6 DEF HandleInv, HandlesMade
      <4>3. QED
        BY <4>1, <4>2, <2>5
    <3>2. ASSUME NEW h \in synthetic' PROVE h <= made'
      <4>1. h \in synthetic => h \in Nat /\ h <= made
        BY <1>2 DEF DllTypes, HandleInv, HandlesMade
      <4>2. QED
        BY <4>1, <1>5, <2>2
    <3>3. QED
      BY <3>1, <3>2 DEF HandlesMade
  <2>10. TermGone'
    <3>1. ASSUME NEW u \in Threads, pc[u] = "term"
          PROVE  hmod[u] <= made' /\ hmod[u] # made + 1
      <4>1. hmod[u] \in Nat /\ hmod[u] <= made
        BY <3>1, <1>2 DEF DllTypes, HandleInv, TermGone
      <4>2. QED
        BY <4>1, <1>5, <2>2
    <3>2. QED
      BY <3>1, <1>2, <2>3, <2>5 DEF HandleInv, TermGone
  <2>11. ASSUME NEW h \in Images \ {made + 1} PROVE Claims(h)' = Claims(h) /\ Claims(h) \in Nat
    <3>1. owned'[h] = owned[h]
      BY <1>2, <1>5, GrantType DEF DllTypes
    <3>2. QED
      BY <3>1, <1>3, ClaimsNat DEF Claims
  <2>12. Counted'
    <3>1. ASSUME NEW h \in Images, NEW k \in 1 .. Len(dlls'), dlls'[k].hmod = h,
                 dlls'[k].name \in Modules
          PROVE  dlls'[k].refs >= Claims(h)'
      <4>1. k # Len(dlls) + 1
        BY <3>1, <2>3, <2>5, DllAssumption
      <4>2. k \in 1 .. Len(dlls) /\ dlls'[k] = dlls[k] /\ h # made + 1
        BY <3>1, <4>1, <2>5, <2>6
      <4>3. QED
        BY <3>1, <4>2, <2>11 DEF HandleInv, Counted
    <3>2. ASSUME NEW h \in Images \ synthetic', Claims(h)' > 0
          PROVE  \E k \in 1 .. Len(dlls') : dlls'[k].hmod = h
      <4>1. h \in Images \ synthetic /\ Claims(h) > 0
        BY <3>2, <1>5, <2>11
      <4>2. PICK k \in 1 .. Len(dlls) : dlls[k].hmod = h
        BY <4>1 DEF HandleInv, Counted
      <4>3. k \in 1 .. Len(dlls') /\ dlls'[k].hmod = h
        BY <4>2, <2>5
      <4>4. QED
        BY <4>3
    <3>3. QED
      BY <3>1, <3>2 DEF Counted
  <2>13. QED
    BY <2>8, <2>9, <2>10, <2>12 DEF HandleInv
<1>6. QED
  BY <1>4, <1>5 DEF LoadBuiltin

\* The fast path: one more reference, and one more claim at most.
LEMMA FoundHandles ==
  ASSUME LoadInv, HandleInv, NEW t \in Threads, FastPath(t)
  PROVE  HandleInv'
<1>1. PICK k \in 1 .. Len(dlls) : k = First(want[t]) /\ dlls[k].name = want[t] /\ want[t] \in Modules
  BY FoundLoads
<1>2. LoadInv' /\ Others(t) /\ pc[t] = "enter"
  BY FoundLoads
<1>3. /\ UNCHANGED <<made, pages, stack, owned, synthetic>>
      /\ dlls' = [dlls EXCEPT ![k].refs = @ + 1] /\ Leaves(t, stack[t], dlls[k].hmod)
  BY <1>1 DEF FastPath
<1>4. DllTypes /\ dlls \in Seq(DllRecord) /\ \A j \in 1 .. Len(dlls) : dlls[j] \in DllRecord
  BY ElementOfSeq DEF LoadInv, DllTypes
<1>5. PICK n : n = dlls[k].refs + 1
  OBVIOUS
<1>6. n \in Nat \ {0} /\ dlls[k].hmod \in Nat /\ dlls[k].refs \in Nat
  BY <1>1, <1>4, <1>5 DEF DllRecord
<1>7. /\ Len(dlls') = Len(dlls) /\ dlls'[k].refs = n
      /\ \A j \in 1 .. Len(dlls) :
           /\ dlls'[j].name = dlls[j].name /\ dlls'[j].hmod = dlls[j].hmod
           /\ j # k => dlls'[j] = dlls[j]
  BY <1>1, <1>3, <1>4, <1>5, <1>6, Recounted
<1>8. pc'[t] = "deps" \/ (pc'[t] = "loaded" /\ hmod'[t] = dlls[k].hmod)
  BY <1>3, <1>4, <1>6, LeavesTo
<1>9. EntriesOld /\ FramesOld
  BY <1>3, <1>7 DEF EntriesOld, FramesOld, HandleInv, ImagesApart
<1>10. \A u \in Threads : pc'[u] = "term" => pc[u] = "term" /\ hmod'[u] = hmod[u]
  BY <1>2, <1>8 DEF Others
<1>11. ImagesApart' /\ HandlesMade' /\ TermGone'
  BY <1>3, <1>9, <1>10, ApartKept
<1>12. ASSUME NEW h \in Images
       PROVE  /\ Claims(h) \in Nat /\ Claims(h)' \in Nat
              /\ h = dlls[k].hmod => Claims(h)' <= Claims(h) + 1
              /\ h # dlls[k].hmod => Claims(h)' = Claims(h)
  <2>1. /\ owned[h] \in Nat /\ Cardinality(Holders(h)) \in Nat /\ Claims(h) \in Nat
        /\ Claims(h) = owned[h] + Cardinality(Holders(h))
    BY ClaimsNat DEF Claims
  <2>2. /\ Claims(h)' \in Nat /\ Claims(h)' = owned[h] + Cardinality(Holders(h)')
        /\ Cardinality(Holders(h)') \in Nat
    BY <1>2, <1>3, ClaimsNatNext
  <2>3. t \notin Holders(h) /\ (t \in Holders(h)' => h = dlls[k].hmod)
    BY <1>2, <1>8 DEF Holders
  <2>4. CASE t \in Holders(h)'
    <3>1. Cardinality(Holders(h)') = Cardinality(Holders(h)) + 1
      BY <2>3, <2>4, <1>2, HoldersStep
    <3>2. QED
      BY <2>1, <2>2, <2>3, <2>4, <3>1
  <2>5. CASE t \notin Holders(h)'
    <3>1. Holders(h)' = Holders(h)
      BY <2>3, <2>5, <1>2, HoldersStep
    <3>2. QED
      BY <2>1, <2>2, <3>1
  <2>6. QED
    BY <2>4, <2>5
<1>13. Counted'
  <2>1. ASSUME NEW h \in Images, NEW j \in 1 .. Len(dlls'), dlls'[j].hmod = h,
               dlls'[j].name \in Modules
        PROVE  dlls'[j].refs >= Claims(h)'
    <3>1. /\ j \in 1 .. Len(dlls) /\ dlls[j].hmod = h /\ dlls[j].name \in Modules
          /\ dlls[j].refs >= Claims(h) /\ dlls[j].refs \in Nat
      BY <2>1, <1>4, <1>7 DEF HandleInv, Counted, DllRecord
    <3>2. CASE j = k
      BY <3>1, <3>2, <1>5, <1>7, <1>12
    <3>3. CASE j # k
      <4>1. h # dlls[k].hmod /\ dlls'[j] = dlls[j]
        BY <3>1, <3>3, <1>7 DEF HandleInv, ImagesApart
      <4>2. QED
        BY <3>1, <4>1, <1>12
    <3>4. QED
      BY <3>2, <3>3
  <2>2. ASSUME NEW h \in Images \ synthetic', Claims(h)' > 0
        PROVE  \E j \in 1 .. Len(dlls') : dlls'[j].hmod = h
    <3>1. CASE h = dlls[k].hmod
      BY <3>1, <1>7
    <3>2. CASE h # dlls[k].hmod
      <4>1. Claims(h) > 0 /\ h \notin synthetic
        BY <2>2, <3>2, <1>3, <1>12
      <4>2. PICK j \in 1 .. Len(dlls) : dlls[j].hmod = h
        BY <4>1 DEF HandleInv, Counted
      <4>3. QED
        BY <4>2, <1>7
    <3>3. QED
      BY <3>1, <3>2
  <2>3. QED
    BY <2>1, <2>2 DEF Counted
<1>14. QED
  BY <1>11, <1>13 DEF HandleInv

\* The image of a frame is registered: nobody has a claim to it yet but the
\* call that loads it.
LEMMA RegisteredHandles ==
  ASSUME LoadInv, HandleInv, NEW t \in Threads, Registers(t)
  PROVE  HandleInv'
<1>1. /\ LoadInv' /\ Others(t) /\ FramesOld /\ pc[t] = "register" /\ stack[t] # <<>>
      /\ Len(stack'[t]) = Len(stack[t]) - 1
  BY ImageRegistered
<1>2. /\ Len(stack[t]) \in Nat \ {0} /\ Innermost(t) = stack[t][Len(stack[t])]
      /\ Innermost(t) \in LoadFrame
  BY <1>1, InnermostFacts
<1>3. PICK x : x = Innermost(t).image
  OBVIOUS
<1>4. /\ x \in Images /\ x \in Nat \ {0} /\ Innermost(t).name \in Modules
      /\ x \in pages \ synthetic /\ x <= made /\ \A k \in 1 .. Len(dlls) : dlls[k].hmod # x
  <2>1. x \in Images /\ Innermost(t).name \in Modules
    BY <1>2, <1>3 DEF LoadFrame
  <2>2. Len(stack[t]) \in 1 .. Len(stack[t])
    BY <1>2
  <2>3. QED
    BY <2>1, <2>2, <1>2, <1>3 DEF Images, HandleInv, ImagesApart
<1>5. PICK e : e = [name |-> Innermost(t).name, hmod |-> x, refs |-> 1]
  OBVIOUS
<1>6. e \in DllRecord /\ e.name \in Modules /\ e.hmod = x /\ e.refs = 1
  BY <1>4, <1>5 DEF DllRecord
<1>7. /\ UNCHANGED <<made, pages, owned, synthetic>> /\ dlls' = Append(dlls, e)
      /\ Leaves(t, Front(stack[t]), x) /\ DllTypes
  BY <1>3, <1>5 DEF Registers, LoadInv
<1>8. /\ Len(dlls) \in Nat /\ Len(dlls') = Len(dlls) + 1 /\ dlls'[Len(dlls) + 1] = e
      /\ \A k \in 1 .. Len(dlls) : dlls'[k] = dlls[k] /\ dlls[k] \in DllRecord
      /\ \A k \in 1 .. Len(dlls') : k \in 1 .. Len(dlls) \/ k = Len(dlls) + 1
  BY <1>6, <1>7, EntryAppended
<1>9. pc'[t] = "deps" \/ (pc'[t] = "loaded" /\ hmod'[t] = x)
  BY <1>4, <1>7, LeavesTo
\* no other frame has this image
<1>10. ASSUME NEW u \in Threads, NEW i \in 1 .. Len(stack'[u])
       PROVE  /\ i \in 1 .. Len(stack[u]) /\ stack'[u][i].image = stack[u][i].image
              /\ stack'[u][i].image # x
  <2>1. i \in 1 .. Len(stack[u]) /\ stack'[u][i].image = stack[u][i].image
    BY <1>1 DEF FramesOld
  <2>2. Len(stack[t]) \in 1 .. Len(stack[t]) /\ (u = t => i # Len(stack[t]))
    BY <1>1, <1>2
  <2>3. QED
    BY <2>1, <2>2, <1>2, <1>3 DEF HandleInv, ImagesApart
<1>11. ImagesApart'
  <2>1. \A j, k \in 1 .. Len(dlls') : dlls'[j].hmod = dlls'[k].hmod => j = k
    BY <1>4, <1>6, <1>8 DEF HandleInv, ImagesApart
  <2>2. \A u, v \in Threads : \A i \in 1 .. Len(stack'[u]) : \A j \in 1 .. Len(stack'[v]) :
          stack'[u][i].image = stack'[v][j].image => u = v /\ i = j
    BY <1>10 DEF HandleInv, ImagesApart
  <2>3. ASSUME NEW u \in Threads, NEW i \in 1 .. Len(stack'[u])
        PROVE  /\ stack'[u][i].image \in pages' \ synthetic' /\ stack'[u][i].image <= made'
               /\ \A k \in 1 .. Len(dlls') : dlls'[k].hmod # stack'[u][i].image
    <3>1. /\ stack'[u][i].image \in pages \ synthetic /\ stack'[u][i].image <= made
          /\ \A k \in 1 .. Len(dlls) : dlls[k].hmod # stack'[u][i].image
      BY <1>10 DEF HandleInv, ImagesApart
    <3>2. QED
      BY <3>1, <1>6, <1>7, <1>8, <1>10
  <2>4. QED
    BY <2>1, <2>2, <2>3 DEF ImagesApart
<1>12. HandlesMade'
  <2>1. ASSUME NEW k \in 1 .. Len(dlls')
        PROVE  /\ dlls'[k].hmod <= made
               /\ dlls'[k].name \in Builtins <=> dlls'[k].hmod \in synthetic
               /\ dlls'[k].name \in Modules => dlls'[k].hmod \in Images \cap pages
    <3>1. CASE k = Len(dlls) + 1
      BY <3>1, <1>4, <1>6, <1>8, DllAssumption
    <3>2. CASE k \in 1 .. Len(dlls)
      BY <3>2, <1>8 DEF HandleInv, HandlesMade
    <3>3. QED
      BY <3>1, <3>2, <1>8
  <2>2. QED
    BY <2>1, <1>7 DEF HandleInv, HandlesMade
<1>13. TermGone'
  <2>1. ASSUME NEW u \in Threads, pc'[u] = "term"
        PROVE  /\ hmod'[u] <= made
               /\ \A k \in 1 .. Len(dlls') : dlls'[k].hmod # hmod'[u]
               /\ \A v \in Threads : \A i \in 1 .. Len(stack'[v]) : stack'[v][i].image # hmod'[u]
    <3>1. pc[u] = "term" /\ hmod'[u] = hmod[u]
      BY <2>1, <1>1, <1>9 DEF Others
    <3>2. x # hmod[u]
      <4>1. Len(stack[t]) \in 1 .. Len(stack[t])
        BY <1>2
      <4>2. QED
        BY <4>1, <3>1, <1>2, <1>3 DEF HandleInv, TermGone
    <3>3. QED
      BY <3>1, <3>2, <1>6, <1>8, <1>10 DEF HandleInv, TermGone
  <2>2. QED
    BY <2>1, <1>7 DEF TermGone
<1>14. ASSUME NEW h \in Images
       PROVE  /\ Claims(h) \in Nat /\ Claims(h)' \in Nat
              /\ h = x => Claims(h)' <= 1
              /\ h # x => Claims(h)' = Claims(h)
  <2>1. /\ owned[h] \in Nat /\ Cardinality(Holders(h)) \in Nat /\ Claims(h) \in Nat
        /\ Claims(h) = owned[h] + Cardinality(Holders(h))
    BY ClaimsNat DEF Claims
  <2>2. /\ Claims(h)' \in Nat /\ Claims(h)' = owned[h] + Cardinality(Holders(h)')
        /\ Cardinality(Holders(h)') \in Nat
    BY <1>1, <1>7, ClaimsNatNext
  <2>3. t \notin Holders(h) /\ (t \in Holders(h)' => h = x)
    BY <1>1, <1>9 DEF Holders
  <2>4. h = x => ~(Claims(h) > 0)
    BY <1>4 DEF HandleInv, Counted
  <2>5. CASE t \in Holders(h)'
    <3>1. Cardinality(Holders(h)') = Cardinality(Holders(h)) + 1
      BY <2>3, <2>5, <1>1, HoldersStep
    <3>2. QED
      BY <2>1, <2>2, <2>3, <2>4, <2>5, <3>1
  <2>6. CASE t \notin Holders(h)'
    <3>1. Holders(h)' = Holders(h)
      BY <2>3, <2>6, <1>1, HoldersStep
    <3>2. Claims(h)' = Claims(h)
      BY <2>1, <2>2, <3>1
    <3>3. QED
      BY <2>1, <2>2, <2>4, <3>2
  <2>7. QED
    BY <2>5, <2>6
<1>15. Counted'
  <2>1. ASSUME NEW h \in Images, NEW k \in 1 .. Len(dlls'), dlls'[k].hmod = h,
               dlls'[k].name \in Modules
        PROVE  dlls'[k].refs >= Claims(h)'
    <3>1. CASE k = Len(dlls) + 1
      BY <2>1, <3>1, <1>6, <1>8, <1>14
    <3>2. CASE k \in 1 .. Len(dlls)
      BY <2>1, <3>2, <1>4, <1>8, <1>14 DEF HandleInv, Counted
    <3>3. QED
      BY <3>1, <3>2, <1>8
  <2>2. ASSUME NEW h \in Images \ synthetic', Claims(h)' > 0
        PROVE  \E k \in 1 .. Len(dlls') : dlls'[k].hmod = h
    <3>1. CASE h = x
      <4>1. Len(dlls) + 1 \in 1 .. Len(dlls') /\ dlls'[Len(dlls) + 1].hmod = h
        BY <3>1, <1>6, <1>8
      <4>2. QED
        BY <4>1
    <3>2. CASE h # x
      <4>1. Claims(h) > 0 /\ h \notin synthetic
        BY <2>2, <3>2, <1>7, <1>14
      <4>2. PICK k \in 1 .. Len(dlls) : dlls[k].hmod = h
        BY <4>1 DEF HandleInv, Counted
      <4>3. k \in 1 .. Len(dlls') /\ dlls'[k].hmod = h
        BY <4>2, <1>8
      <4>4. QED
        BY <4>3
    <3>3. QED
      BY <3>1, <3>2
  <2>3. QED
    BY <2>1, <2>2 DEF Counted
<1>16. QED
  BY <1>11, <1>12, <1>13, <1>15 DEF HandleInv

\* The entries that stay when one is removed.
LEMMA EntryRemoved ==
  ASSUME LoadInv, HandleInv, NEW k \in 1 .. Len(dlls), dlls' = RemoveAt(dlls, k)
  PROVE  /\ EntriesOld
         /\ \A i \in 1 .. Len(dlls') : \E j \in 1 .. Len(dlls) : j # k /\ dlls'[i] = dlls[j]
         /\ \A j \in 1 .. Len(dlls) : j # k => \E i \in 1 .. Len(dlls') : dlls'[i] = dlls[j]
<1>1. dlls \in Seq(DllRecord) /\ Len(dlls) \in Nat
  BY LenProperties DEF LoadInv, DllTypes
<1>2. /\ Len(dlls') = Len(dlls) - 1
      /\ \A i \in 1 .. k - 1 : dlls'[i] = dlls[i]
      /\ \A i \in k .. Len(dlls) - 1 : dlls'[i] = dlls[i + 1]
  BY <1>1, RemoveAtFacts
<1>3. ASSUME NEW i \in 1 .. Len(dlls')
      PROVE  \/ i < k /\ i \in 1 .. Len(dlls) /\ dlls'[i] = dlls[i]
             \/ ~(i < k) /\ i + 1 \in 1 .. Len(dlls) /\ i + 1 # k /\ dlls'[i] = dlls[i + 1]
  <2>1. CASE i < k
    <3>1. i \in 1 .. k - 1 /\ i \in 1 .. Len(dlls)
      BY <2>1, <1>1, <1>2
    <3>2. QED
      BY <2>1, <3>1, <1>2
  <2>2. CASE ~(i < k)
    <3>1. i \in k .. Len(dlls) - 1 /\ i + 1 \in 1 .. Len(dlls) /\ i + 1 # k
      BY <2>2, <1>1, <1>2
    <3>2. QED
      BY <2>2, <3>1, <1>2
  <2>3. QED
    BY <2>1, <2>2
<1>4. \A i \in 1 .. Len(dlls') : \E j \in 1 .. Len(dlls) : j # k /\ dlls'[i] = dlls[j]
  BY <1>3
<1>5. ASSUME NEW j \in 1 .. Len(dlls), j # k
      PROVE  \E i \in 1 .. Len(dlls') : dlls'[i] = dlls[j]
  <2>1. CASE j < k
    <3>1. j \in 1 .. k - 1 /\ j \in 1 .. Len(dlls')
      BY <2>1, <1>1, <1>2
    <3>2. QED
      BY <3>1, <1>2
  <2>2. CASE ~(j < k)
    <3>1. j - 1 \in k .. Len(dlls) - 1 /\ j - 1 \in 1 .. Len(dlls') /\ (j - 1) + 1 = j
      BY <2>2, <1>1, <1>2, <1>5
    <3>2. dlls'[j - 1] = dlls[j]
      BY <3>1, <1>2
    <3>3. QED
      BY <3>1, <3>2
  <2>3. QED
    BY <2>1, <2>2
<1>6. ASSUME NEW i \in 1 .. Len(dlls'), NEW j \in 1 .. Len(dlls'), dlls'[i].hmod = dlls'[j].hmod
      PROVE  i = j
  <2>1. \A a, c \in 1 .. Len(dlls) : dlls[a].hmod = dlls[c].hmod => a = c
    BY DEF HandleInv, ImagesApart
  <2>2. CASE i < k /\ j < k
    BY <2>1, <2>2, <1>3, <1>6
  <2>3. CASE ~(i < k) /\ ~(j < k)
    <3>1. i + 1 = j + 1
      BY <2>1, <2>3, <1>3, <1>6
    <3>2. QED
      BY <3>1, <1>2, <1>1
  <2>4. CASE i < k /\ ~(j < k)
    <3>1. i = j + 1
      BY <2>1, <2>4, <1>3, <1>6
    <3>2. QED
      BY <3>1, <2>4, <1>1, <1>2
  <2>5. CASE ~(i < k) /\ j < k
    <3>1. i + 1 = j
      BY <2>1, <2>5, <1>3, <1>6
    <3>2. QED
      BY <3>1, <2>5, <1>1, <1>2
  <2>6. QED
    BY <2>2, <2>3, <2>4, <2>5
<1>7. EntriesOld
  BY <1>4, <1>6 DEF EntriesOld
<1>8. QED
  BY <1>4, <1>5, <1>7

\* DosFreeModule: one claim less, and one reference; the last one leaves no
\* claim behind, and the module goes.
LEMMA FreedHandles ==
  ASSUME LoadInv, HandleInv, NEW t \in Threads, NEW h \in Images, FreeModule(t, h)
  PROVE  HandleInv'
<1>1. LoadInv' /\ Others(t)
  BY ModuleFrees
<1>2. /\ UNCHANGED <<made, stack, synthetic>> /\ pc[t] = "run" /\ owned[h] > 0
      /\ owned' = [owned EXCEPT ![h] = @ - 1] /\ owned \in [Images -> Nat]
      /\ pc \in [Threads -> LoadPlaces] /\ hmod \in [Threads -> Nat]
      /\ DllTypes /\ dlls \in Seq(DllRecord) /\ Len(dlls) \in Nat /\ DOMAIN dlls = 1 .. Len(dlls)
  BY LenProperties DEF FreeModule, LoadInv, DllTypes
<1>3. \A j \in 1 .. Len(dlls) : /\ dlls[j] \in DllRecord /\ dlls[j].refs \in Nat \ {0}
                                /\ dlls[j].name \in Modules \cup Builtins
  <2>1. \A j \in 1 .. Len(dlls) : dlls[j] \in DllRecord
    BY <1>2, ElementOfSeq
  <2>2. QED
    BY <2>1 DEF DllRecord
<1>4. pc'[t] \in {"run", "term"}
  BY <1>2 DEF FreeModule
<1>5. ASSUME NEW x \in Images
      PROVE  /\ Claims(x) \in Nat /\ Claims(x)' \in Nat
             /\ x = h => Claims(x)' = Claims(x) - 1
             /\ x # h => Claims(x)' = Claims(x)
  <2>1. t \notin Holders(x) /\ t \notin Holders(x)'
    BY <1>2, <1>4 DEF Holders
  <2>2. Holders(x)' = Holders(x)
    BY <2>1, <1>1, HoldersStep
  <2>3. /\ owned[x] \in Nat /\ Cardinality(Holders(x)) \in Nat /\ Claims(x) \in Nat
        /\ Claims(x) = owned[x] + Cardinality(Holders(x))
    BY ClaimsNat DEF Claims
  <2>4. Claims(x)' \in Nat /\ Claims(x)' = owned'[x] + Cardinality(Holders(x))
    BY <2>2, <1>1, ClaimsNatNext
  <2>5. owned'[x] = IF x = h THEN owned[x] - 1 ELSE owned[x]
    BY <1>2
  <2>6. QED
    BY <2>3, <2>4, <2>5
<1>6. FramesOld
  BY <1>2 DEF FramesOld
<1>7. CASE Place(h) = {} /\ UNCHANGED <<dlls, pages, pc, hmod>>
  <2>1. EntriesOld
    BY <1>7 DEF EntriesOld, HandleInv, ImagesApart
  <2>2. ImagesApart' /\ HandlesMade' /\ TermGone'
    BY <2>1, <1>2, <1>6, <1>7, ApartKept
  <2>3. \A x \in Images : Claims(x)' <= Claims(x)
    BY <1>5
  <2>4. Counted'
    BY <2>3, <1>1, <1>2, <1>7, ClaimsKept
  <2>5. QED
    BY <2>2, <2>4 DEF HandleInv
<1>8. ASSUME NEW k \in Place(h), ~LastRef(k), dlls' = [dlls EXCEPT ![k].refs = @ - 1],
             UNCHANGED <<pages, pc, hmod>>
      PROVE  HandleInv'
  <2>1. k \in 1 .. Len(dlls) /\ dlls[k].hmod = h
    BY <1>2 DEF Place
  <2>2. PICK n : n = dlls[k].refs - 1
    OBVIOUS
  <2>3. n \in Nat \ {0}
    BY <1>3, <1>8, <2>1, <2>2 DEF LastRef
  <2>4. /\ Len(dlls') = Len(dlls) /\ dlls'[k].refs = n
        /\ \A j \in 1 .. Len(dlls) :
             /\ dlls'[j].name = dlls[j].name /\ dlls'[j].hmod = dlls[j].hmod
             /\ j # k => dlls'[j] = dlls[j]
    BY <2>1, <2>2, <2>3, <1>2, <1>8, Recounted
  <2>5. EntriesOld
    BY <2>4 DEF EntriesOld, HandleInv, ImagesApart
  <2>6. ImagesApart' /\ HandlesMade' /\ TermGone'
    BY <2>5, <1>2, <1>6, <1>8, ApartKept
  <2>7. ASSUME NEW x \in Images, NEW j \in 1 .. Len(dlls'), dlls'[j].hmod = x,
               dlls'[j].name \in Modules
        PROVE  dlls'[j].refs >= Claims(x)'
    <3>1. /\ j \in 1 .. Len(dlls) /\ dlls[j].hmod = x /\ dlls[j].refs >= Claims(x)
          /\ dlls[j].refs \in Nat
      BY <2>7, <2>4, <1>3 DEF HandleInv, Counted
    <3>2. CASE j = k
      BY <3>1, <3>2, <2>1, <2>2, <2>4, <1>5
    <3>3. CASE j # k
      <4>1. x # h /\ dlls'[j] = dlls[j]
        BY <3>1, <3>3, <2>1, <2>4 DEF HandleInv, ImagesApart
      <4>2. QED
        BY <3>1, <4>1, <1>5
    <3>4. QED
      BY <3>2, <3>3
  <2>8. ASSUME NEW x \in Images \ synthetic', Claims(x)' > 0
        PROVE  \E j \in 1 .. Len(dlls') : dlls'[j].hmod = x
    <3>1. Claims(x) > 0 /\ x \notin synthetic
      BY <2>8, <1>2, <1>5
    <3>2. PICK j \in 1 .. Len(dlls) : dlls[j].hmod = x
      BY <3>1 DEF HandleInv, Counted
    <3>3. QED
      BY <3>2, <2>4
  <2>9. QED
    BY <2>6, <2>7, <2>8 DEF HandleInv, Counted
<1>9. ASSUME NEW k \in Place(h), LastRef(k), dlls' = RemoveAt(dlls, k),
             \/ /\ pc' = [pc EXCEPT ![t] = "term"] /\ hmod' = [hmod EXCEPT ![t] = h] /\ pages' = pages
             \/ pages' = pages \ {h} /\ UNCHANGED <<pc, hmod>>
      PROVE  HandleInv'
  <2>1. k \in 1 .. Len(dlls) /\ dlls[k].hmod = h
    BY <1>2 DEF Place
  <2>2. /\ EntriesOld
        /\ \A i \in 1 .. Len(dlls') : \E j \in 1 .. Len(dlls) : j # k /\ dlls'[i] = dlls[j]
        /\ \A j \in 1 .. Len(dlls) : j # k => \E i \in 1 .. Len(dlls') : dlls'[i] = dlls[j]
    BY <2>1, <1>9, EntryRemoved
  <2>3. Left(h)
    <3>1. ASSUME NEW i \in 1 .. Len(dlls') PROVE dlls'[i].hmod # h
      <4>1. PICK j \in 1 .. Len(dlls) : j # k /\ dlls'[i] = dlls[j]
        BY <2>2
      <4>2. QED
        BY <4>1, <2>1 DEF HandleInv, ImagesApart
    <3>2. \A u \in Threads : \A i \in 1 .. Len(stack'[u]) : stack'[u][i].image # h
      BY <2>1, <1>2 DEF HandleInv, ImagesApart
    <3>3. QED
      BY <3>1, <3>2 DEF Left
  <2>4. h <= made
    BY <2>1 DEF HandleInv, HandlesMade
  <2>5. /\ pages' \subseteq pages /\ \A x \in pages \ pages' : Left(x)
    BY <2>3, <1>9
  <2>6. \A u \in Threads : pc'[u] = "term" =>
          (pc[u] = "term" /\ hmod'[u] = hmod[u]) \/ (hmod'[u] <= made /\ Left(hmod'[u]))
    <3>1. ASSUME NEW u \in Threads, pc'[u] = "term"
          PROVE  (pc[u] = "term" /\ hmod'[u] = hmod[u]) \/ hmod'[u] = h
      BY <3>1, <1>2, <1>9
    <3>2. QED
      BY <3>1, <2>3, <2>4
  <2>7. ImagesApart' /\ HandlesMade' /\ TermGone'
    BY <2>2, <2>5, <2>6, <1>2, <1>6, ApartKept
  <2>8. ASSUME NEW x \in Images, NEW i \in 1 .. Len(dlls'), dlls'[i].hmod = x,
               dlls'[i].name \in Modules
        PROVE  dlls'[i].refs >= Claims(x)'
    <3>1. PICK j \in 1 .. Len(dlls) : j # k /\ dlls'[i] = dlls[j]
      BY <2>2
    <3>2. x # h
      BY <2>8, <2>3 DEF Left
    <3>3. QED
      BY <2>8, <3>1, <3>2, <1>5 DEF HandleInv, Counted
  <2>9. ASSUME NEW x \in Images \ synthetic', Claims(x)' > 0
        PROVE  \E i \in 1 .. Len(dlls') : dlls'[i].hmod = x
    <3>1. CASE x = h
      <4>1. h \notin synthetic
        BY <2>9, <3>1, <1>2
      <4>2. dlls[k].name \in Modules
        BY <4>1, <2>1, <1>3 DEF HandleInv, HandlesMade
      <4>3. dlls[k].refs >= Claims(h) /\ dlls[k].refs = 1
        BY <4>2, <2>1, <1>9 DEF HandleInv, Counted, LastRef
      <4>4. QED
        BY <2>9, <3>1, <4>3, <1>5
    <3>2. CASE x # h
      <4>1. Claims(x) > 0 /\ x \notin synthetic
        BY <2>9, <3>2, <1>2, <1>5
      <4>2. PICK j \in 1 .. Len(dlls) : dlls[j].hmod = x
        BY <4>1 DEF HandleInv, Counted
      <4>3. j # k
        BY <4>2, <3>2, <2>1
      <4>4. QED
        BY <4>2, <4>3, <2>2
    <3>3. QED
      BY <3>1, <3>2
  <2>10. QED
    BY <2>7, <2>8, <2>9 DEF HandleInv, Counted
<1>10. QED
  BY <1>7, <1>8, <1>9 DEF FreeModule

\* Every step keeps the counts and the images in order.
LEMMA HandleStep == LoadInv /\ HandleInv /\ [DllNext]_dllVars => HandleInv'
<1>1. ASSUME LoadInv, HandleInv, NEW t \in Threads,
             \/ LoadStep(t) \/ \E b \in Builtins : LoadBuiltin(t, b)
             \/ (\E m \in Modules : LoadUser(t, m)) \/ \E h \in Images : FreeModule(t, h)
      PROVE  HandleInv'
  <2>1. CASE \/ \E m \in Modules : LoadUser(t, m)
             \/ PagesRead(t) \/ Fixups(t) \/ NextImport(t) \/ OpenFails(t) \/ LoadFails(t)
    BY <1>1, <2>1, QuietSteps
  <2>2. CASE LoadReturns(t) \/ InitSucceeds(t) \/ InitFails(t) \/ TermReturns(t)
    BY <1>1, <2>2, LoadEndsHandles
  <2>3. CASE \E b \in Builtins : LoadBuiltin(t, b)
    BY <1>1, <2>3, BuiltinHandles
  <2>4. CASE \E h \in Images : FreeModule(t, h)
    BY <1>1, <2>4, FreedHandles
  <2>5. CASE FastPath(t)
    BY <1>1, <2>5, FoundHandles
  <2>6. CASE Maps(t)
    BY <1>1, <2>6, MappedHandles
  <2>7. CASE Registers(t)
    BY <1>1, <2>7, RegisteredHandles
  <2>8. QED
    BY <1>1, <2>1, <2>2, <2>3, <2>4, <2>5, <2>6, <2>7 DEF LoadStep
<1>2. ASSUME HandleInv, UNCHANGED dllVars PROVE HandleInv'
  <2>1. /\ UNCHANGED <<dlls, made, pages, stack, synthetic, owned, pc, hmod>>
    BY <1>2 DEF dllVars
  <2>2. \A h : Claims(h)' = Claims(h)
    BY <2>1 DEF Claims, Holders
  <2>3. QED
    BY <1>2, <2>1, <2>2 DEF HandleInv, ImagesApart, HandlesMade, TermGone, Counted
<1>3. QED
  BY <1>1, <1>2 DEF DllNext

\* A user DLL that the guest holds, or that a load is about to hand to it, stays
\* registered and mapped, with a count that covers every such claim, however the
\* threads interleave their loads and frees (load_dll_impl, DosFreeModule).
THEOREM DllHandlesSafe == DllSpec => []HandlesValid
<1>1. QED
  BY DllInitInv, LoadStepInv, HandleStep, HandlesAreValid, PTL DEF DllSpec

----------------------------------------------------------------------------
(* Descriptors.                                                            *)

\* What \div and % of positive numbers give.
LEMMA Division ==
  ASSUME NEW v \in Nat, NEW c \in Nat \ {0}
  PROVE  v \div c \in Nat /\ v % c \in 0 .. c - 1 /\ v = c * (v \div c) + (v % c)
BY SMT

\* A number below a sum of a multiple and a rest is split in one way.
LEMMA SameQuotient ==
  ASSUME NEW u \in Nat, NEW z \in Nat, z < 65536, NEW x \in Nat, NEW y \in Nat, y < 65536,
         65536 * u + z = 65536 * x + y
  PROVE  u = x /\ z = y
<1>1. CASE u < x
  <2>1. 65536 * (u + 1) <= 65536 * x
    BY <1>1, SMT
  <2>2. QED
    BY <2>1, SMT
<1>2. CASE x < u
  <2>1. 65536 * (x + 1) <= 65536 * u
    BY <1>2, SMT
  <2>2. QED
    BY <2>1, SMT
<1>3. QED
  BY <1>1, <1>2, SMT

\* A byte is its own remainder.
LEMMA ByteMod == \A v \in 0 .. 255 : v % 256 = v
BY SMT

\* A word is its two bytes, and so are three bytes.
LEMMA TwoBytes ==
  ASSUME NEW b, Len(b) = 2, b[1] \in Nat, b[2] \in Nat
  PROVE  FromLE(b) = b[1] + 256 * b[2]
<1> DEFINE Rec(f) == f = [i \in 1 .. Len(b) + 1 |-> IF i > Len(b) THEN 0 ELSE b[i] + 256 * f[i + 1]]
           g == [i \in 1 .. Len(b) + 1 |-> IF i > 2 THEN 0 ELSE IF i = 2 THEN b[2] ELSE b[1] + 256 * b[2]]
           from == CHOOSE f : Rec(f)
<1>1. Rec(g)
  <2>1. 1 .. Len(b) + 1 = {1, 2, 3}
    BY SMT
  <2>2. g[2] = b[2] /\ g[3] = 0
    BY <2>1, SMT
  <2>3. \A i \in 1 .. Len(b) + 1 : g[i] = IF i > Len(b) THEN 0 ELSE b[i] + 256 * g[i + 1]
    BY <2>1, <2>2, SMT
  <2>4. QED
    BY <2>3, SMT
<1>2. Rec(from)
  <2> HIDE DEF Rec, g
  <2>1. QED BY <1>1, Zenon
<1>3. FromLE(b) = from[1]
  BY Zenon DEF FromLE
<1> HIDE DEF from
<1>4. from[3] = 0 /\ from[2] = b[2] + 256 * from[3] /\ from[1] = b[1] + 256 * from[2]
  BY <1>2, SMT
<1>5. QED
  BY <1>3, <1>4, SMT

\* from_le_bytes of the three low bytes of a base.
LEMMA ThreeBytes ==
  ASSUME NEW b, Len(b) = 3, b[1] \in Nat, b[2] \in Nat, b[3] \in Nat
  PROVE  FromLE(b) = b[1] + 256 * b[2] + 65536 * b[3]
<1> DEFINE Rec(f) == f = [i \in 1 .. Len(b) + 1 |-> IF i > Len(b) THEN 0 ELSE b[i] + 256 * f[i + 1]]
           g == [i \in 1 .. Len(b) + 1 |-> IF i > 3 THEN 0 ELSE IF i = 3 THEN b[3] ELSE IF i = 2 THEN b[2] + 256 * b[3]
                                           ELSE b[1] + 256 * b[2] + 65536 * b[3]]
           from == CHOOSE f : Rec(f)
<1>1. Rec(g)
  <2>1. 1 .. Len(b) + 1 = {1, 2, 3, 4}
    BY SMT
  <2>2. g[2] = b[2] + 256 * b[3] /\ g[3] = b[3] /\ g[4] = 0
    BY <2>1, SMT
  <2>3. \A i \in 1 .. Len(b) + 1 : g[i] = IF i > Len(b) THEN 0 ELSE b[i] + 256 * g[i + 1]
    BY <2>1, <2>2, SMT
  <2>4. QED
    BY <2>3, SMT
<1>2. Rec(from)
  <2> HIDE DEF Rec, g
  <2>1. QED BY <1>1, Zenon
<1>3. FromLE(b) = from[1]
  BY Zenon DEF FromLE
<1> HIDE DEF from
<1>4. from[4] = 0 /\ from[3] = b[3] + 256 * from[4] /\ from[2] = b[2] + 256 * from[3] /\ from[1] = b[1] + 256 * from[2]
  BY <1>2, SMT
<1>5. QED
  BY <1>3, <1>4, SMT

\* A number of 16 bits is read as it was written, and so is one of 24 bits.
LEMMA WordBytes ==
  ASSUME NEW v \in Nat, v < 65536
  PROVE  /\ Len(LE(v, 2)) = 2 /\ FromLE(LE(v, 2)) = v
         /\ LE(v, 2) \in Seq(Nat)
         /\ LE(v, 2)[1] \in Nat /\ LE(v, 2)[2] \in Nat /\ LE(v, 2)[1] + 256 * LE(v, 2)[2] = v
<1> DEFINE q == v \div 256
           r == v % 256
<1>1. Len(LE(v, 2)) = 2 /\ LE(v, 2) = [i \in 1 .. 2 |-> LE(v, 2)[i]]
  BY SMT DEF LE
<1>2. LE(v, 2)[1] = (v \div 256 ^ 0) % 256 /\ LE(v, 2)[2] = (v \div 256 ^ 1) % 256
  BY SMT DEF LE
<1>3. 256 ^ 0 = 1 /\ 256 ^ 1 = 256 /\ v \div 1 = v
  BY SMT
<1>4. q \in Nat /\ r \in 0 .. 255 /\ v = 256 * q + r
  BY <1>3, Division, SMT
<1>5. LE(v, 2)[1] = r /\ LE(v, 2)[2] = q % 256
  BY <1>2, <1>3, SMT
<1> HIDE DEF q, r
<1>6. q \in 0 .. 255
  BY <1>4, SMT
<1>7. LE(v, 2)[2] = q
  BY <1>5, <1>6, ByteMod, SMT
<1>8. FromLE(LE(v, 2)) = LE(v, 2)[1] + 256 * LE(v, 2)[2]
  <2>1. LE(v, 2)[1] \in Nat /\ LE(v, 2)[2] \in Nat
    BY <1>4, <1>5, <1>7, SMT
  <2>2. QED
    BY <2>1, <1>1, TwoBytes, SMT
<1>9. LE(v, 2)[1] \in Nat /\ LE(v, 2)[2] \in Nat
  BY <1>4, <1>5, <1>7, SMT
<1>10. LE(v, 2)[1] + 256 * LE(v, 2)[2] = v
  BY <1>4, <1>5, <1>7, SMT
<1>11. LE(v, 2) \in Seq(Nat)
  <2>1. \A i \in 1 .. 2 : LE(v, 2)[i] \in Nat
    BY <1>9, SMT
  <2>2. QED
    BY <2>1, <1>1, SMT
<1>12. QED
  BY <1>1, <1>8, <1>9, <1>10, <1>11, SMT

\* to_le_bytes of the low 24 bits of a base.
LEMMA LongBytes ==
  ASSUME NEW v \in Nat, v < 16777216
  PROVE  /\ Len(LE(v, 3)) = 3 /\ LE(v, 3) \in Seq(Nat)
         /\ LE(v, 3)[1] \in Nat /\ LE(v, 3)[2] \in Nat /\ LE(v, 3)[3] \in Nat
         /\ LE(v, 3)[1] + 256 * LE(v, 3)[2] + 65536 * LE(v, 3)[3] = v
<1> DEFINE w == v \div 256
           r == v % 256
           x == w \div 256
           s == w % 256
           u == v \div 65536
           z == v % 65536
<1>1. Len(LE(v, 3)) = 3 /\ LE(v, 3) = [i \in 1 .. 3 |-> LE(v, 3)[i]]
  BY SMT DEF LE
<1>2. LE(v, 3)[1] = (v \div 256 ^ 0) % 256 /\ LE(v, 3)[2] = (v \div 256 ^ 1) % 256 /\ LE(v, 3)[3] = (v \div 256 ^ 2) % 256
  BY SMT DEF LE
<1>3. 256 ^ 0 = 1 /\ 256 ^ 1 = 256 /\ 256 ^ 2 = 65536 /\ v \div 1 = v
  BY SMT
<1>4. LE(v, 3)[1] = r /\ LE(v, 3)[2] = s /\ LE(v, 3)[3] = u % 256
  BY <1>2, <1>3, SMT
<1>5. w \in Nat /\ r \in 0 .. 255 /\ v = 256 * w + r
  BY Division, SMT
<1>6. x \in Nat /\ s \in 0 .. 255 /\ w = 256 * x + s
  BY <1>5, Division, SMT
<1>7. u \in Nat /\ z \in Nat /\ z < 65536 /\ v = 65536 * u + z
  BY Division, SMT
<1> HIDE DEF w, r, x, s, u, z
<1>8. v = 65536 * x + (256 * s + r) /\ 256 * s + r \in Nat /\ 256 * s + r < 65536
  BY <1>5, <1>6, SMT
<1>9. u = x /\ u \in 0 .. 255
  <2>1. u = x
    BY <1>7, <1>8, <1>6, SameQuotient, SMT
  <2>2. u < 256
    BY <1>7, SMT
  <2>3. QED
    BY <2>1, <2>2, <1>7, SMT
<1>10. LE(v, 3)[3] = u
  BY <1>4, <1>9, ByteMod, SMT
<1>11. r \in Nat /\ s \in Nat /\ u \in Nat /\ r + 256 * s + 65536 * u = v
  BY <1>5, <1>6, <1>8, <1>9, SMT
<1>12. LE(v, 3)[1] \in Nat /\ LE(v, 3)[2] \in Nat /\ LE(v, 3)[3] \in Nat
  BY <1>4, <1>10, <1>11, SMT
<1>13. LE(v, 3)[1] + 256 * LE(v, 3)[2] + 65536 * LE(v, 3)[3] = v
  BY <1>4, <1>10, <1>11, SMT
<1>14. LE(v, 3) \in Seq(Nat)
  BY <1>1, <1>12, SMT
<1>15. QED
  BY <1>1, <1>12, <1>13, <1>14, SMT

\* The bytes of a descriptor.
LEMMA EntryBytes ==
  ASSUME NEW base, NEW limit, NEW access, NEW flags,
         NEW e, e = make_gdt_entry(base, limit, access, flags)
  PROVE  /\ e[1] = LE(limit % 65536, 2)[1] /\ e[2] = LE(limit % 65536, 2)[2]
         /\ e[3] = LE(base % 2 ^ 24, 3)[1] /\ e[4] = LE(base % 2 ^ 24, 3)[2]
         /\ e[5] = LE(base % 2 ^ 24, 3)[3]
         /\ e[6] = access /\ e[7] = ((limit \div 65536) % 16) + 16 * (flags \div 16)
         /\ e[8] = base \div 2 ^ 24
<1>2. \A v : LE(v, 2) = <<LE(v, 2)[1], LE(v, 2)[2]>>
  BY SMT DEF LE
<1>3. \A v : LE(v, 3) = <<LE(v, 3)[1], LE(v, 3)[2], LE(v, 3)[3]>>
  BY SMT DEF LE
<1> DEFINE x == LE(limit % 65536, 2)
           y == LE(base % 2 ^ 24, 3)
           k == base \div 2 ^ 24
           j == ((limit \div 65536) % 16) + 16 * (flags \div 16)
<1>4. make_gdt_entry(base, limit, access, flags)
        = <<x[1], x[2]>> \o <<y[1], y[2], y[3]>> \o <<access, j, k>>
  <2>1. x = <<x[1], x[2]>> /\ y = <<y[1], y[2], y[3]>>
    BY <1>2, <1>3, SMT
  <2>2. make_gdt_entry(base, limit, access, flags) = x \o y \o <<access, j, k>>
    BY SMT DEF make_gdt_entry
  <2> HIDE DEF x, y, j, k
  <2>3. QED
    BY <2>1, <2>2, Zenon
<1> HIDE DEF x, y, j, k
<1>5. /\ e[1] = x[1] /\ e[2] = x[2] /\ e[3] = y[1] /\ e[4] = y[2] /\ e[5] = y[3]
      /\ e[6] = access /\ e[7] = j /\ e[8] = k
  BY <1>4, SMT
<1>6. QED
  BY <1>5, SMT DEF x, y, j, k

\* gdt_entry_base and gdt_entry_limit take from an entry what make_gdt_entry put in.
LEMMA EntryDecodes ==
  ASSUME NEW base \in Nat, NEW limit \in Nat, limit < 1048576, NEW access, NEW flags \in Nat,
         NEW e, e = make_gdt_entry(base, limit, access, flags)
  PROVE  /\ FromLE(SubSeq(e, 3, 5)) + e[8] * 2 ^ 24 = base
         /\ FromLE(SubSeq(e, 1, 2)) + (e[7] % 16) * 65536 = limit
<1> DEFINE b == base % 2 ^ 24
           k == base \div 2 ^ 24
           l == limit % 65536
           h == limit \div 65536
           f == flags \div 16
<1>1. /\ e[1] = LE(l, 2)[1] /\ e[2] = LE(l, 2)[2]
      /\ e[3] = LE(b, 3)[1] /\ e[4] = LE(b, 3)[2] /\ e[5] = LE(b, 3)[3]
      /\ e[7] = (h % 16) + 16 * f /\ e[8] = k
  BY EntryBytes, SMT
<1>2. 2 ^ 24 = 16777216
  BY SMT
<1>3. b \in Nat /\ b < 16777216 /\ k \in Nat /\ base = 16777216 * k + b
  BY <1>2, Division, SMT
<1>4. l \in Nat /\ l < 65536 /\ h \in Nat /\ limit = 65536 * h + l /\ f \in Nat
  BY Division, SMT
<1>5. \A s : /\ SubSeq(s, 3, 5)[1] = s[3] /\ SubSeq(s, 3, 5)[2] = s[4] /\ SubSeq(s, 3, 5)[3] = s[5]
              /\ Len(SubSeq(s, 3, 5)) = 3
              /\ SubSeq(s, 1, 2)[1] = s[1] /\ SubSeq(s, 1, 2)[2] = s[2] /\ Len(SubSeq(s, 1, 2)) = 2
  BY SMT
<1> HIDE DEF b, k, l, h, f
<1>6. FromLE(SubSeq(e, 3, 5)) = b
  <2>1. e[3] \in Nat /\ e[4] \in Nat /\ e[5] \in Nat /\ e[3] + 256 * e[4] + 65536 * e[5] = b
    BY <1>1, <1>3, LongBytes, SMT
  <2> DEFINE s == SubSeq(e, 3, 5)
  <2>2. s[1] = e[3] /\ s[2] = e[4] /\ s[3] = e[5] /\ Len(s) = 3
    BY <1>5, SMT
  <2> HIDE DEF s
  <2>3. s[1] \in Nat /\ s[2] \in Nat /\ s[3] \in Nat
    BY <2>1, <2>2, SMT
  <2>4. FromLE(s) = s[1] + 256 * s[2] + 65536 * s[3]
    BY <2>2, <2>3, ThreeBytes, SMT
  <2>5. QED
    BY <2>1, <2>2, <2>4, SMT DEF s
<1>7. FromLE(SubSeq(e, 1, 2)) = l
  <2>1. e[1] \in Nat /\ e[2] \in Nat /\ e[1] + 256 * e[2] = l
    BY <1>1, <1>4, WordBytes, SMT
  <2> DEFINE s == SubSeq(e, 1, 2)
  <2>2. s[1] = e[1] /\ s[2] = e[2] /\ Len(s) = 2
    BY <1>5, SMT
  <2> HIDE DEF s
  <2>3. s[1] \in Nat /\ s[2] \in Nat
    BY <2>1, <2>2, SMT
  <2>4. FromLE(s) = s[1] + 256 * s[2]
    BY <2>2, <2>3, TwoBytes, SMT
  <2>5. QED
    BY <2>1, <2>2, <2>4, SMT DEF s
<1>8. e[7] % 16 = h
  <2>1. h \in Nat /\ h < 16
    BY <1>4, SMT
  <2>2. h % 16 = h
    BY <2>1, SMT
  <2>3. e[7] = h + 16 * f
    BY <1>1, <2>2, SMT
  <2>4. QED
    BY <2>1, <2>3, <1>4, SMT
<1>9. FromLE(SubSeq(e, 3, 5)) + e[8] * 2 ^ 24 = base
  BY <1>1, <1>2, <1>3, <1>6, SMT
<1>10. FromLE(SubSeq(e, 1, 2)) + (e[7] % 16) * 65536 = limit
  BY <1>4, <1>7, <1>8, SMT
<1>11. QED
  BY <1>9, <1>10, SMT

\* The data and the code descriptor of a tile, as setup_idt writes them.
LEMMA TileEntries ==
  ASSUME NEW t \in Nat
  PROVE  /\ t < 4096 => setup_idt(6 + t) = make_gdt_entry(t * 65536, 65535, 211, 0)
         /\ t < 2048 => setup_idt(4102 + t) = make_gdt_entry(t * 65536, 65535, 155, 0)
<1>1. ASSUME t < 4096 PROVE setup_idt(6 + t) = make_gdt_entry(t * 65536, 65535, 211, 0)
  <2> DEFINE i == 6 + t
  <2>1. i \in 6 .. 4101 /\ i \notin 4102 .. 6149 /\ i \notin {0, 1, 2, 3, 4, 5} /\ i - 6 = t
    <3>1. i \in Nat /\ i >= 6 /\ i <= 4101 /\ i - 6 = t
      BY <1>1, SMT
    <3> HIDE DEF i
    <3>2. i \in 6 .. 4101
      BY <3>1, SMT
    <3>3. i \notin 4102 .. 6149
      BY <3>1, SMT
    <3>4. i \notin {0, 1, 2, 3, 4, 5}
      BY <3>1, SMT
    <3>5. QED
      BY <3>1, <3>2, <3>3, <3>4, SMT
  <2>2. TILED_SEL_START_INDEX = 6 /\ TILED_CODE_START_INDEX = 4102 /\ GDT_ENTRY_COUNT = 6150
        /\ 4102 - 1 = 4101 /\ 6150 - 1 = 6149 /\ TILE_SIZE = 65536
    BY SMT DEF TILED_SEL_START_INDEX, TILED_CODE_START_INDEX, GDT_ENTRY_COUNT, NUM_TILES, NUM_CODE_TILES, TILE_SIZE
  <2> HIDE DEF i
  <2>3. setup_idt(i) = make_gdt_entry((i - 6) * 65536, 65535, 211, 0)
    BY <2>1, <2>2, SMT DEF setup_idt
  <2>4. QED
    BY <2>1, <2>3, SMT DEF i
<1>2. ASSUME t < 2048 PROVE setup_idt(4102 + t) = make_gdt_entry(t * 65536, 65535, 155, 0)
  <2> DEFINE i == 4102 + t
  <2>1. i \in 4102 .. 6149 /\ i \notin 6 .. 4101 /\ i \notin {0, 1, 2, 3, 4, 5} /\ i - 4102 = t
    <3>1. i \in Nat /\ i >= 4102 /\ i <= 6149 /\ i - 4102 = t
      BY <1>2, SMT
    <3> HIDE DEF i
    <3>2. i \in 4102 .. 6149
      BY <3>1, SMT
    <3>3. i \notin 6 .. 4101
      <4>1. ASSUME i \in 6 .. 4101 PROVE FALSE
        BY <3>1, <4>1, SMT
      <4>2. QED
        BY <4>1, SMT
    <3>4. i \notin {0, 1, 2, 3, 4, 5}
      BY <3>1, SMT
    <3>5. QED
      BY <3>1, <3>2, <3>3, <3>4, SMT
  <2>2. TILED_SEL_START_INDEX = 6 /\ TILED_CODE_START_INDEX = 4102 /\ GDT_ENTRY_COUNT = 6150
        /\ 4102 - 1 = 4101 /\ 6150 - 1 = 6149 /\ TILE_SIZE = 65536
    BY SMT DEF TILED_SEL_START_INDEX, TILED_CODE_START_INDEX, GDT_ENTRY_COUNT, NUM_TILES, NUM_CODE_TILES, TILE_SIZE
  <2> HIDE DEF i
  <2>3. setup_idt(i) = make_gdt_entry((i - 4102) * 65536, 65535, 155, 0)
    BY <2>1, <2>2, SMT DEF setup_idt
  <2>4. QED
    BY <2>1, <2>3, SMT DEF i
<1>3. QED
  BY <1>1, <1>2, SMT

\* Where the descriptors of a tile lead while nobody has replaced them.
LEMMA TileBases ==
  ASSUME NEW t \in Nat, NEW g
  PROVE  /\ t < 4096 /\ 6 + t \notin DOMAIN g =>
              gdt_entry_base(g, TileSelector(t)) = t * 65536 /\ gdt_entry_limit(g, TileSelector(t)) = 65535
         /\ t < 2048 /\ 4102 + t \notin DOMAIN g =>
              gdt_entry_base(g, (4102 + t) * 8) = t * 65536
<1>1. \A i \in Nat : (i * 8) \div 8 = i
  BY SMT
<1>2. t * 65536 \in Nat
  BY SMT
<1>3. ASSUME t < 4096, 6 + t \notin DOMAIN g
      PROVE  gdt_entry_base(g, TileSelector(t)) = t * 65536 /\ gdt_entry_limit(g, TileSelector(t)) = 65535
  <2> DEFINE s == TileSelector(t)
             e == Entry(g, s)
  <2>1. s \div 8 = 6 + t
    BY <1>1, SMT DEF TileSelector, TILED_SEL_START_INDEX
  <2>2. e = setup_idt(6 + t)
    BY <2>1, <1>3, SMT DEF Entry
  <2>3. e = make_gdt_entry(t * 65536, 65535, 211, 0)
    BY <2>2, <1>3, TileEntries, SMT
  <2> HIDE DEF e
  <2>4. FromLE(SubSeq(e, 3, 5)) + e[8] * 2 ^ 24 = t * 65536 /\ FromLE(SubSeq(e, 1, 2)) + (e[7] % 16) * 65536 = 65535
    BY <2>3, <1>2, EntryDecodes, SMT
  <2>5. QED
    BY <2>4, SMT DEF e, gdt_entry_base, gdt_entry_limit
<1>4. ASSUME t < 2048, 4102 + t \notin DOMAIN g
      PROVE  gdt_entry_base(g, (4102 + t) * 8) = t * 65536
  <2> DEFINE s == (4102 + t) * 8
             e == Entry(g, s)
  <2>1. s \div 8 = 4102 + t
    BY <1>1, SMT
  <2>2. e = setup_idt(4102 + t)
    BY <2>1, <1>4, SMT DEF Entry
  <2>3. e = make_gdt_entry(t * 65536, 65535, 155, 0)
    BY <2>2, <1>4, TileEntries, SMT
  <2> HIDE DEF e
  <2>4. FromLE(SubSeq(e, 3, 5)) + e[8] * 2 ^ 24 = t * 65536
    BY <2>3, <1>2, EntryDecodes, SMT
  <2>5. QED
    BY <2>4, SMT DEF e, gdt_entry_base
<1>5. QED
  BY <1>3, <1>4, SMT

\* Every address that the tiles cover has a 16:16 form: DosFlatToSel and
\* DosSelToFlat are inverse there, and the descriptor of the selector, as
\* setup_idt writes it, leads the offset to the same byte and within its limit.
THEOREM FlatAddressesTile ==
  ASSUME NEW a \in Nat, a < NUM_TILES * TILE_SIZE
  PROVE  LET p == dos_flat_to_sel(a)
         IN  /\ dos_sel_to_flat(p[1], p[2]) = a
             /\ gdt_entry_base(<<>>, p[1]) + p[2] = a
             /\ p[2] <= gdt_entry_limit(<<>>, p[1])
<1> DEFINE t == a \div 65536
           o == a % 65536
           s == TileSelector(t)
<1>1. t \in Nat /\ o \in Nat /\ o < 65536 /\ a = 65536 * t + o /\ t < 4096
  <2>1. t \in Nat /\ o \in Nat /\ o < 65536 /\ a = 65536 * t + o
    BY Division, SMT
  <2>2. a < 268435456
    BY SMT DEF NUM_TILES, TILE_SIZE
  <2> HIDE DEF t, o
  <2>3. t < 4096
    BY <2>1, <2>2, SMT
  <2>4. QED
    BY <2>1, <2>3, SMT
<1>2. dos_flat_to_sel(a) = <<s, o>>
  BY SMT DEF dos_flat_to_sel, TILE_SIZE
<1> HIDE DEF t, o
<1>3. gdt_entry_base(<<>>, s) = t * 65536 /\ gdt_entry_limit(<<>>, s) = 65535
  <2>1. 6 + t \notin DOMAIN <<>>
    BY <1>1, SMT
  <2>2. QED
    BY <1>1, <2>1, TileBases, SMT
<1>4. dos_sel_to_flat(s, o) = a
  <2>1. s \div 8 = 6 + t
    BY <1>1, SMT DEF TileSelector, TILED_SEL_START_INDEX
  <2>2. TILED_SEL_START_INDEX = 6 /\ TILED_CODE_START_INDEX = 4102 /\ TILE_SIZE = 65536 /\ 4102 - 1 = 4101
    BY SMT DEF TILED_SEL_START_INDEX, TILED_CODE_START_INDEX, NUM_TILES, TILE_SIZE
  <2>3. 6 + t \in 6 .. 4101 /\ ~(6 + t >= 4102) /\ (6 + t) - 6 = t /\ t * 65536 + o = a
    BY <1>1, SMT
  <2>4. QED
    BY <2>1, <2>2, <2>3, SMT DEF dos_sel_to_flat
<1>5. t * 65536 + o = a /\ o <= 65535
  BY <1>1, SMT
<1> HIDE DEF s
<1>6. QED
  BY <1>2, <1>3, <1>4, <1>5, SMT

----------------------------------------------------------------------------
(* API calls of 16-bit programs (module NeImages).                         *)

\* A byte of guest memory.
Byte(m, a) == IF a \in DOMAIN m THEN m[a] ELSE 0

\* What guest_read takes from memory.
LEMMA Peeked ==
  ASSUME NEW m, NEW a \in Int
  PROVE  Peek(m, a, 2) = <<Byte(m, a), Byte(m, a + 1)>>
<1>1. a + 1 - 1 = a /\ a + 2 - 1 = a + 1
  BY SMT
<1>2. /\ Peek(m, a, 2) = [i \in 1 .. 2 |-> Peek(m, a, 2)[i]]
      /\ Peek(m, a, 2)[1] = Byte(m, a + 1 - 1) /\ Peek(m, a, 2)[2] = Byte(m, a + 2 - 1)
  BY SMT DEF Peek, Byte
<1>3. QED
  BY <1>1, <1>2, SMT

\* What guest_write of a word changes.
LEMMA Poked ==
  ASSUME NEW m, NEW a \in Int, NEW w \in Nat, w < 65536, NEW x \in Int
  PROVE  Byte(Poke(m, a, LE(w, 2)), x) =
           IF x = a THEN LE(w, 2)[1] ELSE IF x = a + 1 THEN LE(w, 2)[2] ELSE Byte(m, x)
<1> DEFINE b == LE(w, 2)
           p == Poke(m, a, b)
<1>1. Len(b) = 2
  BY WordBytes, SMT
<1> HIDE DEF b
<1> DEFINE D == a .. a + Len(b) - 1
<1>2. D = {a, a + 1} /\ a - a + 1 = 1 /\ (a + 1) - a + 1 = 2
  BY <1>1, SMT
<1>3. p = [i \in D \cup DOMAIN m |-> IF i \in D THEN b[i - a + 1] ELSE m[i]]
  BY SMT DEF Poke
<1> HIDE DEF p, D
<1>4. CASE x = a
  BY <1>2, <1>3, <1>4, SMT DEF Byte, p, b
<1>5. CASE x = a + 1
  BY <1>2, <1>3, <1>5, SMT DEF Byte, p, b
<1>6. CASE x # a /\ x # a + 1
  BY <1>2, <1>3, <1>6, SMT DEF Byte, p, b
<1>7. QED
  BY <1>4, <1>5, <1>6, SMT

\* Pushing goes down from the top of the stack, SP 0 being the end of the segment.
LEMMA PushAddress ==
  ASSUME NEW base \in Int, NEW sp \in Nat, sp < 65536, sp = 0 \/ sp >= 16, NEW k \in 1 .. 8
  PROVE  base + ((sp - 2 * k) % 65536) = base + (IF sp = 0 THEN 65536 ELSE sp) - 2 * k
<1>1. CASE sp = 0
  <2>1. (0 - 2 * k) % 65536 = 65536 - 2 * k
    BY SMT
  <2>2. QED
    BY <1>1, <2>1, SMT
<1>2. CASE sp >= 16
  <2>1. sp - 2 * k \in Nat /\ sp - 2 * k < 65536
    BY <1>2, SMT
  <2>2. (sp - 2 * k) % 65536 = sp - 2 * k
    BY <2>1, SMT
  <2>3. QED
    BY <1>2, <2>2, SMT
<1>3. QED
  BY <1>1, <1>2, SMT

\* f[n] is the memory after n pushes.
Pushing(f, m, top, sp, words, k) ==
  f = [n \in 0 .. k |-> IF n = 0 THEN m ELSE PushWord(f[n - 1], top, sp, n, words[n])]

\* There are such memories.
LEMMA PushingExists ==
  ASSUME NEW m, NEW top, NEW sp, NEW words, NEW k \in Nat
  PROVE  \E f : Pushing(f, m, top, sp, words, k)
<1> DEFINE Bad == {c \in Nat : ~\E f : Pushing(f, m, top, sp, words, c)}
<1> SUFFICES ASSUME Bad # {} PROVE FALSE
  OBVIOUS
<1>1. PICK c \in Bad : \A n \in Bad : c <= n
  <2> Bad \subseteq Nat
    OBVIOUS
  <2> HIDE DEF Bad
  <2> QED
    BY LeastNat
<1>2. CASE c = 0
  <2> DEFINE f == [n \in 0 .. 0 |-> m]
  <2>1. f = [n \in 0 .. 0 |-> IF n = 0 THEN m ELSE PushWord(f[n - 1], top, sp, n, words[n])]
    OBVIOUS
  <2>2. Pushing(f, m, top, sp, words, 0)
    BY <2>1 DEF Pushing
  <2> QED
    BY <1>2, <2>2
<1>3. CASE c # 0
  <2>1. c - 1 \in Nat /\ c - 1 \notin Bad
    BY <1>1, <1>3
  <2>2. PICK g : Pushing(g, m, top, sp, words, c - 1)
    BY <2>1
  <2> DEFINE f == [n \in 0 .. c |-> IF n = c THEN PushWord(g[c - 1], top, sp, c, words[c]) ELSE g[n]]
             Next(n) == IF n = 0 THEN m ELSE PushWord(f[n - 1], top, sp, n, words[n])
  <2>3. ASSUME NEW n \in 0 .. c PROVE f[n] = Next(n)
    <3>0. \A i \in 0 .. c - 1 : g[i] = IF i = 0 THEN m ELSE PushWord(g[i - 1], top, sp, i, words[i])
      BY <2>2, <2>1 DEF Pushing
    <3>1. CASE n = c
      <4>1. f[n] = PushWord(g[c - 1], top, sp, c, words[c])
        BY <3>1
      <4>2. f[c - 1] = g[c - 1]
        BY <2>1, <1>3
      <4>3. QED
        BY <4>1, <4>2, <3>1, <1>3
    <3>2. CASE n # c
      <4>1. f[n] = g[n] /\ n \in 0 .. c - 1
        BY <3>2
      <4>2. n # 0 => f[n - 1] = g[n - 1]
        BY <4>1
      <4>3. QED
        BY <4>1, <4>2, <3>0
    <3>3. QED
      BY <3>1, <3>2
  <2>4. Pushing(f, m, top, sp, words, c)
    <3>1. f = [n \in 0 .. c |-> f[n]]
      OBVIOUS
    <3>2. QED
      BY <2>3, <3>1, Zenon DEF Pushing
  <2>5. QED
    BY <2>4
<1>4. QED
  BY <1>2, <1>3

\* Pushed is the last of them.
LEMMA PushedIsLast ==
  ASSUME NEW m, NEW top, NEW sp, NEW words, NEW N \in Nat, Len(words) = N
  PROVE  \E f : Pushing(f, m, top, sp, words, N) /\ Pushed(m, top, sp, words) = f[N]
<1> DEFINE after == CHOOSE f : f = [k \in 0 .. Len(words) |->
                                     IF k = 0 THEN m ELSE PushWord(f[k - 1], top, sp, k, words[k])]
<1>1. \E f : f = [k \in 0 .. Len(words) |-> IF k = 0 THEN m ELSE PushWord(f[k - 1], top, sp, k, words[k])]
  <2>1. \E f : Pushing(f, m, top, sp, words, Len(words))
    BY PushingExists
  <2>2. QED
    BY <2>1, Zenon DEF Pushing
<1>2. after = [k \in 0 .. Len(words) |-> IF k = 0 THEN m ELSE PushWord(after[k - 1], top, sp, k, words[k])]
  BY <1>1, Zenon
<1>3. Pushing(after, m, top, sp, words, Len(words))
  BY <1>2, Zenon DEF Pushing
<1>4. Pushed(m, top, sp, words) = after[Len(words)]
  BY Zenon DEF Pushed
<1>5. QED
  BY <1>3, <1>4, Zenon

\* The 16-bit values.
LEMMA Words16 ==
  /\ \A v \in Word16 : v \in Nat /\ v < 65536
  /\ \A v \in Nat : v < 65536 => v \in Word16
<1>1. ASSUME NEW v \in Word16 PROVE v \in Nat /\ v < 65536
  <2>1. v \in 0 .. 2 ^ 16 - 1
    BY SMT DEF Word16
  <2>2. 2 ^ 16 - 1 = 65535
    BY SMT
  <2>3. QED
    BY <2>1, <2>2, SMT
<1>2. ASSUME NEW v \in Nat, v < 65536 PROVE v \in Word16
  <2>1. v \in 0 .. 2 ^ 16 - 1
    BY <1>2, SMT
  <2>2. QED
    BY <2>1, SMT DEF Word16
<1>3. QED
  BY <1>1, <1>2, SMT

\* n words of 16 bits.
WordSeq(words, n) == \A i \in 1 .. n : words[i] \in Word16

\* The word w is in memory at a.
Lies(m, a, w) == Byte(m, a) = LE(w, 2)[1] /\ Byte(m, a + 1) = LE(w, 2)[2]

\* f[n] is memory after n words were written, going down from the top.
Below(f, words, top, n) == \A i \in 1 .. n : f[i] = Poke(f[i - 1], top - 2 * i, LE(words[i], 2))

\* Writes of words going down do not disturb each other.
LEMMA WordsBelow ==
  ASSUME NEW N \in Nat, NEW words, WordSeq(words, N), NEW top \in Int, NEW f, Below(f, words, top, N),
         NEW k \in 1 .. N
  PROVE  Lies(f[N], top - 2 * k, words[k])
<1> DEFINE a(i) == top - 2 * i
           Holds(x) == Byte(x, a(k)) = LE(words[k], 2)[1] /\ Byte(x, a(k) + 1) = LE(words[k], 2)[2]
           Bad == {n \in Nat : n >= k /\ n <= N /\ ~Holds(f[n])}
<1>1. ASSUME Bad # {} PROVE FALSE
  <2>1. PICK n \in Bad : \A i \in Bad : n <= i
    <3>1. Bad \subseteq Nat
      OBVIOUS
    <3> HIDE DEF Bad
    <3>2. QED
      BY <3>1, <1>1, LeastNat, Zenon
  <2>2. n \in Nat /\ n >= k /\ n <= N /\ ~Holds(f[n]) /\ n \in 1 .. N
    OBVIOUS
  <2>3. words[n] \in Nat /\ words[n] < 65536 /\ a(n) \in Int /\ a(k) \in Int /\ a(k) + 1 \in Int
    BY <2>2, Words16, SMT DEF WordSeq
  <2>4. f[n] = Poke(f[n - 1], a(n), LE(words[n], 2))
    BY <2>2, SMT DEF Below
  <2>5. \A x \in Int : Byte(f[n], x) = IF x = a(n) THEN LE(words[n], 2)[1]
                                       ELSE IF x = a(n) + 1 THEN LE(words[n], 2)[2] ELSE Byte(f[n - 1], x)
    BY <2>3, <2>4, Poked, SMT
  <2>6. CASE n = k
    <3>1. a(k) + 1 # a(k)
      BY <2>3, SMT
    <3> HIDE DEF a
    <3>2. QED
      BY <2>2, <2>3, <2>5, <2>6, <3>1, SMT
  <2>7. CASE n # k
    <3>1. n - 1 \in Nat /\ n - 1 >= k /\ n - 1 <= N /\ ~(n <= n - 1)
      BY <2>2, <2>7, SMT
    <3>2. Holds(f[n - 1])
      BY <3>1, <2>1, SMT
    <3>3. a(k) # a(n) /\ a(k) # a(n) + 1 /\ a(k) + 1 # a(n) /\ a(k) + 1 # a(n) + 1
      BY <2>2, <2>7, SMT
    <3> HIDE DEF a
    <3>4. QED
      BY <2>2, <2>3, <2>5, <3>2, <3>3, SMT
  <2>8. QED
    BY <2>6, <2>7, SMT
<1>2. QED
  BY <1>1, SMT DEF Lies

\* The words of a call are on the stack after they were pushed, the first on top.
LEMMA PushedWords ==
  ASSUME NEW m, NEW base \in Int, NEW sp \in Nat, sp < 65536, sp = 0 \/ sp >= 16,
         NEW words, NEW N \in Nat, N <= 8, Len(words) = N, WordSeq(words, N),
         NEW top \in Int, top = base + IF sp = 0 THEN 65536 ELSE sp,
         NEW k \in 1 .. N
  PROVE  Lies(Pushed(m, base, sp, words), top - 2 * k, words[k])
<1>1. PICK f : Pushing(f, m, base, sp, words, N) /\ Pushed(m, base, sp, words) = f[N]
  BY PushedIsLast, SMT
<1>2. Below(f, words, top, N)
  <2> SUFFICES ASSUME NEW i \in 1 .. N PROVE f[i] = Poke(f[i - 1], top - 2 * i, LE(words[i], 2))
    BY SMT DEF Below
  <2>1. i \in 1 .. 8 /\ i \in 0 .. N /\ i # 0
    BY SMT
  <2>2. f[i] = PushWord(f[i - 1], base, sp, i, words[i])
    BY <1>1, <2>1, SMT DEF Pushing
  <2>3. base + ((sp - 2 * i) % 65536) = base + (IF sp = 0 THEN 65536 ELSE sp) - 2 * i
    BY <2>1, PushAddress, SMT
  <2>4. base + ((sp - 2 * i) % 65536) = top - 2 * i
    BY <2>3, SMT
  <2>5. QED
    BY <2>2, <2>4, SMT DEF PushWord
<1>3. Lies(f[N], top - 2 * k, words[k])
  BY <1>2, WordsBelow, SMT
<1>4. QED
  BY <1>1, <1>3, SMT

\* The steps before a program runs.
NeBefore == {"parse", "entries", "relocations", "load", "fixups", "failed"}

\* What the parser keeps of the segment table while the other tables are read.
NeHeader ==
  neAt \notin {"parse", "failed"} =>
    /\ Len(neProgram.segments) <= 255
    /\ ne = [segments |-> ne.segments, modules |-> ne.modules, entries |-> ne.entries,
             relocations |-> ne.relocations]
    /\ DOMAIN ne.segments = DOMAIN neProgram.segments
    /\ \A k \in DOMAIN neProgram.segments :
         /\ ne.segments[k].min_alloc = neProgram.segments[k].alloc % 65536
         /\ ne.segments[k].code = neProgram.segments[k].code

\* Where the descriptors that a call goes through lead.
NeGdt ==
  /\ \A n \in Nat : n >= 1 /\ n <= 255 => gdt_entry_base(gdt, seg_selector(n)) = seg_base(n)
  /\ gdt_entry_base(gdt, 0) = 0
  /\ gdt_entry_base(gdt, NE_THUNK_CODE_SELECTOR) = NE_THUNK_BASE

\* The registers a program has between its calls.
StartRegs(r, p) ==
  /\ r = [cs |-> r.cs, ip |-> r.ip, ss |-> r.ss, sp |-> r.sp, ds |-> r.ds]
  /\ r.cs \in Word16 /\ r.ip \in Word16
  /\ r.ss = seg_selector(p.ss) /\ r.sp = StartSp(p)

\* What is pushed for a call, the return address last.
CallWords(call, r) == FlattenSeq([k \in DOMAIN call.args |-> Words(call.args[k])]) \o <<r.cs, r.ip>>

\* The words lie below the top of the stack of the program.
OnStack(m, p, words) == \A k \in 1 .. Len(words) : Lies(m, StackTop(p) - 2 * k, words[k])

\* During a call its words lie on the stack, and SP is at the last of them.
NeInCall ==
  LET words == CallWords(neCall.call, neCall.regs)
  IN  /\ neCall.call \in NeArguments /\ StartRegs(neCall.regs, neProgram)
      /\ regs = [neCall.regs EXCEPT !.sp = (@ - 2 * Len(words)) % 65536,
                              !.cs = NE_THUNK_CODE_SELECTOR, !.ip = neCall.call.ordinal]
      /\ OnStack(neMem, neProgram, words)

\* What makes NeCallsReturn inductive.
NeInv ==
  /\ neProgram \in NePrograms
  /\ neAt \in NeBefore \cup {"runs", "called", "ended"}
  /\ NeHeader
  /\ neAt \in NeBefore => neCall = <<>>
  /\ neAt \notin NeBefore => NeGdt
  /\ neAt = "runs" => StartRegs(regs, neProgram)
  /\ neAt = "called" => NeInCall
  /\ NeCallsReturn

\* FlattenSeq of a few sequences, from its recursive function.
LEMMA FlattenTwo == ASSUME NEW s, Len(s) = 2 PROVE FlattenSeq(s) = s[1] \o s[2]
<1> DEFINE Rec(f) == f = [i \in 1 .. Len(s) |-> IF i = 1 THEN s[i] ELSE f[i - 1] \o s[i]]
           g == [i \in 1 .. Len(s) |-> IF i = 1 THEN s[1] ELSE s[1] \o s[2]]
           flatten == CHOOSE f : Rec(f)
<1>1. 1 .. Len(s) = {1, 2} /\ Len(s) # 0 /\ 2 - 1 = 1
  BY SMT
<1>2. Rec(g)
  <2>1. g[1] = s[1] /\ g[2] = s[1] \o s[2]
    BY <1>1, SMT
  <2>2. \A i \in 1 .. Len(s) : g[i] = IF i = 1 THEN s[i] ELSE g[i - 1] \o s[i]
    BY <1>1, <2>1, SMT
  <2>3. QED
    BY <2>2, SMT
<1>3. Rec(flatten)
  <2> HIDE DEF Rec, g
  <2>1. QED
    BY <1>2, Zenon
<1>4. FlattenSeq(s) = flatten[Len(s)]
  BY <1>1, Zenon DEF FlattenSeq
<1> HIDE DEF flatten
<1>5. \A i \in 1 .. Len(s) : flatten[i] = IF i = 1 THEN s[i] ELSE flatten[i - 1] \o s[i]
  BY <1>3, Zenon
<1>6. 1 \in 1 .. Len(s) /\ 2 \in 1 .. Len(s) /\ 2 # 1
  BY <1>1, SMT
<1>7. flatten[1] = s[1]
  BY <1>5, <1>6, Zenon
<1>8. flatten[2] = flatten[1] \o s[2]
  BY <1>1, <1>5, <1>6, Zenon
<1>9. QED
  BY <1>4, <1>7, <1>8, Zenon

LEMMA FlattenThree == ASSUME NEW s, Len(s) = 3 PROVE FlattenSeq(s) = s[1] \o s[2] \o s[3]
<1> DEFINE Rec(f) == f = [i \in 1 .. Len(s) |-> IF i = 1 THEN s[i] ELSE f[i - 1] \o s[i]]
           g == [i \in 1 .. Len(s) |-> IF i = 1 THEN s[1] ELSE IF i = 2 THEN s[1] \o s[2]
                                       ELSE s[1] \o s[2] \o s[3]]
           flatten == CHOOSE f : Rec(f)
<1>1. 1 .. Len(s) = {1, 2, 3} /\ Len(s) # 0 /\ 2 - 1 = 1 /\ 3 - 1 = 2
  BY SMT
<1>2. Rec(g)
  <2>1. g[1] = s[1] /\ g[2] = s[1] \o s[2] /\ g[3] = s[1] \o s[2] \o s[3]
    BY <1>1, SMT
  <2>2. \A i \in 1 .. Len(s) : g[i] = IF i = 1 THEN s[i] ELSE g[i - 1] \o s[i]
    BY <1>1, <2>1, SMT
  <2>3. QED
    BY <2>2, SMT
<1>3. Rec(flatten)
  <2> HIDE DEF Rec, g
  <2>1. QED
    BY <1>2, Zenon
<1>4. FlattenSeq(s) = flatten[Len(s)]
  BY <1>1, Zenon DEF FlattenSeq
<1> HIDE DEF flatten
<1>5. \A i \in 1 .. Len(s) : flatten[i] = IF i = 1 THEN s[i] ELSE flatten[i - 1] \o s[i]
  BY <1>3, Zenon
<1>6. 1 \in 1 .. Len(s) /\ 2 \in 1 .. Len(s) /\ 3 \in 1 .. Len(s) /\ 2 # 1 /\ 3 # 1
  BY <1>1, SMT
<1>7. flatten[1] = s[1]
  BY <1>5, <1>6, Zenon
<1>8. flatten[2] = flatten[1] \o s[2]
  BY <1>1, <1>5, <1>6, Zenon
<1>9. flatten[3] = flatten[2] \o s[3]
  BY <1>1, <1>5, <1>6, Zenon
<1>10. QED
  BY <1>4, <1>7, <1>8, <1>9, Zenon

LEMMA FlattenFour == ASSUME NEW s, Len(s) = 4 PROVE FlattenSeq(s) = s[1] \o s[2] \o s[3] \o s[4]
<1> DEFINE Rec(f) == f = [i \in 1 .. Len(s) |-> IF i = 1 THEN s[i] ELSE f[i - 1] \o s[i]]
           g == [i \in 1 .. Len(s) |-> IF i = 1 THEN s[1] ELSE IF i = 2 THEN s[1] \o s[2]
                                       ELSE IF i = 3 THEN s[1] \o s[2] \o s[3] ELSE s[1] \o s[2] \o s[3] \o s[4]]
           flatten == CHOOSE f : Rec(f)
<1>1. 1 .. Len(s) = {1, 2, 3, 4} /\ Len(s) # 0 /\ 2 - 1 = 1 /\ 3 - 1 = 2 /\ 4 - 1 = 3
  BY SMT
<1>2. Rec(g)
  <2>1. g[1] = s[1] /\ g[2] = s[1] \o s[2] /\ g[3] = s[1] \o s[2] \o s[3] /\ g[4] = s[1] \o s[2] \o s[3] \o s[4]
    BY <1>1, SMT
  <2>2. \A i \in 1 .. Len(s) : g[i] = IF i = 1 THEN s[i] ELSE g[i - 1] \o s[i]
    BY <1>1, <2>1, SMT
  <2>3. QED
    BY <2>2, SMT
<1>3. Rec(flatten)
  <2> HIDE DEF Rec, g
  <2>1. QED
    BY <1>2, Zenon
<1>4. FlattenSeq(s) = flatten[Len(s)]
  BY <1>1, Zenon DEF FlattenSeq
<1> HIDE DEF flatten
<1>5. \A i \in 1 .. Len(s) : flatten[i] = IF i = 1 THEN s[i] ELSE flatten[i - 1] \o s[i]
  BY <1>3, Zenon
<1>6. 1 \in 1 .. Len(s) /\ 2 \in 1 .. Len(s) /\ 3 \in 1 .. Len(s) /\ 4 \in 1 .. Len(s) /\ 2 # 1 /\ 3 # 1 /\ 4 # 1
  BY <1>1, SMT
<1>7. flatten[1] = s[1]
  BY <1>5, <1>6, Zenon
<1>8. flatten[2] = flatten[1] \o s[2]
  BY <1>1, <1>5, <1>6, Zenon
<1>9. flatten[3] = flatten[2] \o s[3]
  BY <1>1, <1>5, <1>6, Zenon
<1>10. flatten[4] = flatten[3] \o s[4]
  BY <1>1, <1>5, <1>6, Zenon
<1>11. QED
  BY <1>4, <1>7, <1>8, <1>9, <1>10, Zenon

\* The arguments of each call.
LEMMA CallArguments ==
  ASSUME NEW c \in NeArguments
  PROVE  /\ c.ordinal \in {5, 94, 138, 5139}
         /\ c.ordinal = 5 =>
              /\ DOMAIN c.args = 1 .. 2
              /\ IsArgument(c.args[1], "word") /\ IsArgument(c.args[2], "word")
         /\ c.ordinal = 94 =>
              /\ DOMAIN c.args = 1 .. 2
              /\ IsArgument(c.args[1], "far") /\ IsArgument(c.args[2], "far")
         /\ c.ordinal = 138 =>
              /\ DOMAIN c.args = 1 .. 4
              /\ IsArgument(c.args[1], "word") /\ IsArgument(c.args[2], "far")
              /\ IsArgument(c.args[3], "word") /\ IsArgument(c.args[4], "far")
         /\ c.ordinal = 5139 =>
              /\ DOMAIN c.args = 1 .. 3
              /\ IsArgument(c.args[1], "far") /\ IsArgument(c.args[2], "word")
              /\ IsArgument(c.args[3], "word")
<1>1. 5120 + 19 = 5139
  BY SMT
<1>2. /\ DOMAIN Parameters = {5, 94, 138, 5139}
      /\ Parameters[5] = <<"word", "word">> /\ Parameters[94] = <<"far", "far">>
      /\ Parameters[138] = <<"word", "far", "word", "far">>
      /\ Parameters[5139] = <<"far", "word", "word">>
  BY <1>1, SMT DEF Parameters
<1>3. /\ c.ordinal \in DOMAIN Parameters /\ DOMAIN c.args = DOMAIN Parameters[c.ordinal]
      /\ \A k \in DOMAIN c.args : IsArgument(c.args[k], Parameters[c.ordinal][k])
  BY NeAssumption, SMTT(30)
<1> HIDE DEF Parameters
<1>4. CASE c.ordinal = 5
  <2>1. DOMAIN c.args = 1 .. 2 /\ Parameters[c.ordinal] = <<"word", "word">>
    BY <1>2, <1>3, <1>4, SMT
  <2>2. QED
    BY <1>3, <1>4, <2>1, SMT
<1>5. CASE c.ordinal = 94
  <2>1. DOMAIN c.args = 1 .. 2 /\ Parameters[c.ordinal] = <<"far", "far">>
    BY <1>2, <1>3, <1>5, SMT
  <2>2. QED
    BY <1>3, <1>5, <2>1, SMT
<1>6. CASE c.ordinal = 138
  <2>1. DOMAIN c.args = 1 .. 4 /\ Parameters[c.ordinal] = <<"word", "far", "word", "far">>
    BY <1>2, <1>3, <1>6, SMT
  <2>2. QED
    BY <1>3, <1>6, <2>1, SMT
<1>7. CASE c.ordinal = 5139
  <2>1. DOMAIN c.args = 1 .. 3 /\ Parameters[c.ordinal] = <<"far", "word", "word">>
    BY <1>2, <1>3, <1>7, SMT
  <2>2. QED
    BY <1>3, <1>7, <2>1, SMT
<1>8. QED
  BY <1>2, <1>3, <1>4, <1>5, <1>6, <1>7, SMT

\* The selector of a far pointer.
Selector(arg) == IF arg[2] = 0 THEN 0 ELSE seg_selector(arg[2])

LEMMA SegmentSelector ==
  ASSUME NEW n \in Nat, n >= 1, n <= 255
  PROVE  /\ seg_selector(n) = TileSelector(15 + n) /\ seg_selector(n) = (21 + n) * 8
         /\ seg_selector(n) \in Word16 /\ seg_selector(n) \div 8 = 21 + n
         /\ seg_base(n) = (15 + n) * 65536 /\ seg_base(n) \in Nat
<1>1. NE_SEGMENT_BASE \div TILE_SIZE = 16 /\ NE_SEGMENT_BASE = 1048576
  BY SMT DEF NE_SEGMENT_BASE, TILE_SIZE
<1>2. 16 + n - 1 = 15 + n /\ (6 + (15 + n)) * 8 = (21 + n) * 8
  BY SMT
<1>3. seg_selector(n) = TileSelector(15 + n) /\ seg_selector(n) = (21 + n) * 8
  BY <1>1, <1>2, SMT DEF seg_selector, TileSelector, TILED_SEL_START_INDEX
<1>4. (21 + n) * 8 \in Word16 /\ ((21 + n) * 8) \div 8 = 21 + n
  BY Words16, SMT
<1>5. 1048576 + (n - 1) * 65536 = (15 + n) * 65536 /\ (15 + n) * 65536 \in Nat
  BY SMT
<1>6. seg_base(n) = (15 + n) * 65536
  BY <1>1, <1>5, SMT DEF seg_base, TILE_SIZE
<1>7. QED
  BY <1>3, <1>4, <1>5, <1>6, SMT

\* The words an argument is pushed as.
LEMMA ArgumentWords ==
  ASSUME NEW arg
  PROVE  /\ IsArgument(arg, "word") => Words(arg) = <<arg[2]>> /\ arg[2] \in Word16
         /\ IsArgument(arg, "far") => /\ Words(arg) = <<Selector(arg), arg[3]>>
                                      /\ Selector(arg) \in Word16 /\ arg[3] \in Word16
<1>1. ASSUME IsArgument(arg, "word") PROVE Words(arg) = <<arg[2]>> /\ arg[2] \in Word16
  BY <1>1, SMT DEF IsArgument, Words
<1>2. ASSUME IsArgument(arg, "far")
      PROVE  Words(arg) = <<Selector(arg), arg[3]>> /\ Selector(arg) \in Word16 /\ arg[3] \in Word16
  <2>1. arg[2] \in 0 .. 255 /\ arg[3] \in Word16 /\ arg[1] = "far"
    BY <1>2, SMT DEF IsArgument
  <2>2. arg[2] # 0 => arg[2] \in Nat /\ arg[2] >= 1 /\ arg[2] <= 255
    BY <2>1, SMT
  <2>3. Selector(arg) \in Word16
    <3>1. 0 \in Word16
      BY Words16, SMT
    <3>2. QED
      BY <3>1, <2>2, SegmentSelector, SMT DEF Selector
  <2>4. QED
    BY <2>1, <2>3, SMT DEF Words, Selector
<1>3. QED
  BY <1>1, <1>2, SMT

\* What is pushed for the arguments of a call.
LEMMA PushedArguments ==
  ASSUME NEW c, NEW r, NEW f, f = c.args
  PROVE  /\ DOMAIN f = 1 .. 2 => CallWords(c, r) = Words(f[1]) \o Words(f[2]) \o <<r.cs, r.ip>>
         /\ DOMAIN f = 1 .. 3 =>
              CallWords(c, r) = Words(f[1]) \o Words(f[2]) \o Words(f[3]) \o <<r.cs, r.ip>>
         /\ DOMAIN f = 1 .. 4 =>
              CallWords(c, r) = Words(f[1]) \o Words(f[2]) \o Words(f[3]) \o Words(f[4]) \o <<r.cs, r.ip>>
<1> DEFINE s == [k \in DOMAIN c.args |-> Words(c.args[k])]
<1>1. CallWords(c, r) = FlattenSeq(s) \o <<r.cs, r.ip>>
  BY Zenon DEF CallWords
<1>2. s = [k \in DOMAIN f |-> Words(f[k])]
  BY Zenon
<1> HIDE DEF s
<1>3. ASSUME DOMAIN f = 1 .. 2 PROVE FlattenSeq(s) = Words(f[1]) \o Words(f[2])
  <2>1. Len(s) = 2 /\ s[1] = Words(f[1]) /\ s[2] = Words(f[2])
    BY <1>2, <1>3, SMT
  <2>2. FlattenSeq(s) = s[1] \o s[2]
    BY <2>1, FlattenTwo, Zenon
  <2>3. QED
    BY <2>1, <2>2, Zenon
<1>4. ASSUME DOMAIN f = 1 .. 3 PROVE FlattenSeq(s) = Words(f[1]) \o Words(f[2]) \o Words(f[3])
  <2>1. Len(s) = 3 /\ s[1] = Words(f[1]) /\ s[2] = Words(f[2]) /\ s[3] = Words(f[3])
    BY <1>2, <1>4, SMT
  <2>2. FlattenSeq(s) = s[1] \o s[2] \o s[3]
    BY <2>1, FlattenThree, Zenon
  <2>3. QED
    BY <2>1, <2>2, Zenon
<1>5. ASSUME DOMAIN f = 1 .. 4 PROVE FlattenSeq(s) = Words(f[1]) \o Words(f[2]) \o Words(f[3]) \o Words(f[4])
  <2>1. Len(s) = 4 /\ s[1] = Words(f[1]) /\ s[2] = Words(f[2]) /\ s[3] = Words(f[3]) /\ s[4] = Words(f[4])
    BY <1>2, <1>5, SMT
  <2>2. FlattenSeq(s) = s[1] \o s[2] \o s[3] \o s[4]
    BY <2>1, FlattenFour, Zenon
  <2>3. QED
    BY <2>1, <2>2, Zenon
<1>6. QED
  BY <1>1, <1>3, <1>4, <1>5, Zenon

\* DosExit(fTerminate, usExitCode).
LEMMA ExitWords ==
  ASSUME NEW c, DOMAIN c.args = 1 .. 2,
         IsArgument(c.args[1], "word"), IsArgument(c.args[2], "word"),
         NEW r, r.cs \in Word16, r.ip \in Word16,
         NEW w, w = CallWords(c, r)
  PROVE  /\ Len(w) = 4 /\ WordSeq(w, 4) /\ w[1] = c.args[1][2] /\ w[2] = c.args[2][2]
         /\ w[3] = r.cs /\ w[4] = r.ip
<1> DEFINE x == c.args[1][2]
           y == c.args[2][2]
<1>1. w = <<x>> \o <<y>> \o <<r.cs, r.ip>> /\ x \in Word16 /\ y \in Word16
  <2>1. w = Words(c.args[1]) \o Words(c.args[2]) \o <<r.cs, r.ip>>
    BY PushedArguments, Zenon
  <2>2. Words(c.args[1]) = <<x>> /\ x \in Word16
    BY ArgumentWords, Zenon
  <2>3. Words(c.args[2]) = <<y>> /\ y \in Word16
    BY ArgumentWords, Zenon
  <2> HIDE DEF x, y
  <2>4. QED
    BY <2>1, <2>2, <2>3, Zenon
<1> HIDE DEF x, y
<1>2. Len(w) = 4 /\ w[1] = x /\ w[2] = y /\ w[3] = r.cs /\ w[4] = r.ip
  BY <1>1, SMT
<1>3. WordSeq(w, 4)
  BY <1>1, <1>2, SMT DEF WordSeq
<1>4. QED
  BY <1>2, <1>3, SMT DEF x, y

\* DosGetEnv(pEnvSel, pCmdOffset).
LEMMA EnvWords ==
  ASSUME NEW c, DOMAIN c.args = 1 .. 2,
         IsArgument(c.args[1], "far"), IsArgument(c.args[2], "far"),
         NEW r, r.cs \in Word16, r.ip \in Word16,
         NEW w, w = CallWords(c, r)
  PROVE  /\ Len(w) = 6 /\ WordSeq(w, 6)
         /\ w[1] = Selector(c.args[1]) /\ w[2] = c.args[1][3]
         /\ w[3] = Selector(c.args[2]) /\ w[4] = c.args[2][3] /\ w[5] = r.cs /\ w[6] = r.ip
<1> DEFINE a == Selector(c.args[1])
           b == c.args[1][3]
           x == Selector(c.args[2])
           y == c.args[2][3]
<1>1. /\ w = <<a, b>> \o <<x, y>> \o <<r.cs, r.ip>>
      /\ a \in Word16 /\ b \in Word16 /\ x \in Word16 /\ y \in Word16
  <2>1. w = Words(c.args[1]) \o Words(c.args[2]) \o <<r.cs, r.ip>>
    BY PushedArguments, Zenon
  <2>2. Words(c.args[1]) = <<a, b>> /\ a \in Word16 /\ b \in Word16
    BY ArgumentWords, Zenon
  <2>3. Words(c.args[2]) = <<x, y>> /\ x \in Word16 /\ y \in Word16
    BY ArgumentWords, Zenon
  <2> HIDE DEF a, b, x, y
  <2>4. QED
    BY <2>1, <2>2, <2>3, Zenon
<1> HIDE DEF a, b, x, y
<1>2. Len(w) = 6 /\ w[1] = a /\ w[2] = b /\ w[3] = x /\ w[4] = y /\ w[5] = r.cs /\ w[6] = r.ip
  BY <1>1, SMT
<1>3. WordSeq(w, 6)
  BY <1>1, <1>2, SMT DEF WordSeq
<1>4. QED
  BY <1>2, <1>3, SMT DEF a, b, x, y

\* DosWrite(hf, pBuf, cbBuf, pcbWritten).
LEMMA WriteWords ==
  ASSUME NEW c, DOMAIN c.args = 1 .. 4,
         IsArgument(c.args[1], "word"), IsArgument(c.args[2], "far"), IsArgument(c.args[3], "word"), IsArgument(c.args[4], "far"),
         NEW r, r.cs \in Word16, r.ip \in Word16,
         NEW w, w = CallWords(c, r)
  PROVE  /\ Len(w) = 8 /\ WordSeq(w, 8)
         /\ w[1] = c.args[1][2] /\ w[2] = Selector(c.args[2]) /\ w[3] = c.args[2][3]
         /\ w[4] = c.args[3][2] /\ w[5] = Selector(c.args[4]) /\ w[6] = c.args[4][3]
         /\ w[7] = r.cs /\ w[8] = r.ip
<1> DEFINE h == c.args[1][2]
           a == Selector(c.args[2])
           b == c.args[2][3]
           n == c.args[3][2]
           x == Selector(c.args[4])
           y == c.args[4][3]
<1>1. /\ w = <<h>> \o <<a, b>> \o <<n>> \o <<x, y>> \o <<r.cs, r.ip>>
      /\ h \in Word16 /\ a \in Word16 /\ b \in Word16 /\ n \in Word16 /\ x \in Word16 /\ y \in Word16
  <2>1. w = Words(c.args[1]) \o Words(c.args[2]) \o Words(c.args[3]) \o Words(c.args[4]) \o <<r.cs, r.ip>>
    BY PushedArguments, Zenon
  <2>2. Words(c.args[1]) = <<h>> /\ h \in Word16
    BY ArgumentWords, Zenon
  <2>3. Words(c.args[2]) = <<a, b>> /\ a \in Word16 /\ b \in Word16
    BY ArgumentWords, Zenon
  <2>4. Words(c.args[3]) = <<n>> /\ n \in Word16
    BY ArgumentWords, Zenon
  <2>5. Words(c.args[4]) = <<x, y>> /\ x \in Word16 /\ y \in Word16
    BY ArgumentWords, Zenon
  <2> HIDE DEF h, a, b, n, x, y
  <2>6. QED
    BY <2>1, <2>2, <2>3, <2>4, <2>5, Zenon
<1> HIDE DEF h, a, b, n, x, y
<1>2. /\ Len(w) = 8 /\ w[1] = h /\ w[2] = a /\ w[3] = b /\ w[4] = n /\ w[5] = x /\ w[6] = y
      /\ w[7] = r.cs /\ w[8] = r.ip
  BY <1>1, SMT
<1>3. WordSeq(w, 8)
  BY <1>1, <1>2, SMT DEF WordSeq
<1>4. QED
  BY <1>2, <1>3, SMT DEF h, a, b, n, x, y

\* VioWrtTTY(pszStr, cbStr, hvio).
LEMMA TtyWords ==
  ASSUME NEW c, DOMAIN c.args = 1 .. 3,
         IsArgument(c.args[1], "far"), IsArgument(c.args[2], "word"), IsArgument(c.args[3], "word"),
         NEW r, r.cs \in Word16, r.ip \in Word16,
         NEW w, w = CallWords(c, r)
  PROVE  /\ Len(w) = 6 /\ WordSeq(w, 6)
         /\ w[1] = Selector(c.args[1]) /\ w[2] = c.args[1][3]
         /\ w[3] = c.args[2][2] /\ w[4] = c.args[3][2] /\ w[5] = r.cs /\ w[6] = r.ip
<1> DEFINE a == Selector(c.args[1])
           b == c.args[1][3]
           x == c.args[2][2]
           y == c.args[3][2]
<1>1. /\ w = <<a, b>> \o <<x>> \o <<y>> \o <<r.cs, r.ip>>
      /\ a \in Word16 /\ b \in Word16 /\ x \in Word16 /\ y \in Word16
  <2>1. w = Words(c.args[1]) \o Words(c.args[2]) \o Words(c.args[3]) \o <<r.cs, r.ip>>
    BY PushedArguments, Zenon
  <2>2. Words(c.args[1]) = <<a, b>> /\ a \in Word16 /\ b \in Word16
    BY ArgumentWords, Zenon
  <2>3. Words(c.args[2]) = <<x>> /\ x \in Word16
    BY ArgumentWords, Zenon
  <2>4. Words(c.args[3]) = <<y>> /\ y \in Word16
    BY ArgumentWords, Zenon
  <2> HIDE DEF a, b, x, y
  <2>5. QED
    BY <2>1, <2>2, <2>3, <2>4, Zenon
<1> HIDE DEF a, b, x, y
<1>2. Len(w) = 6 /\ w[1] = a /\ w[2] = b /\ w[3] = x /\ w[4] = y /\ w[5] = r.cs /\ w[6] = r.ip
  BY <1>1, SMT
<1>3. WordSeq(w, 6)
  BY <1>1, <1>2, SMT DEF WordSeq
<1>4. QED
  BY <1>2, <1>3, SMT DEF a, b, x, y

\* A word that lies in memory is read as it is.
LEMMA WordRead ==
  ASSUME NEW m, NEW a \in Int, NEW w \in Word16, Lies(m, a, w)
  PROVE  FromLE(Peek(m, a, 2)) = w
<1>1. w \in Nat /\ w < 65536
  BY Words16, SMT
<1>2. Peek(m, a, 2) = <<LE(w, 2)[1], LE(w, 2)[2]>>
  BY Peeked, SMT DEF Lies
<1>3. LE(w, 2)[1] \in Nat /\ LE(w, 2)[2] \in Nat /\ LE(w, 2)[1] + 256 * LE(w, 2)[2] = w
  BY <1>1, WordBytes, SMT
<1> DEFINE b == <<LE(w, 2)[1], LE(w, 2)[2]>>
<1>4. Len(b) = 2 /\ b[1] = LE(w, 2)[1] /\ b[2] = LE(w, 2)[2]
  BY SMT
<1> HIDE DEF b
<1>5. FromLE(b) = b[1] + 256 * b[2]
  BY <1>3, <1>4, TwoBytes, SMT
<1>6. QED
  BY <1>2, <1>3, <1>4, <1>5, SMT DEF b

\* The return address that run_vcpu reads, IP first.
LEMMA ReturnRead ==
  ASSUME NEW m, NEW a \in Int, NEW ip \in Word16, NEW cs \in Word16, Lies(m, a, ip), Lies(m, a + 2, cs)
  PROVE  /\ FromLE(SubSeq(Peek(m, a, 4), 1, 2)) = ip
         /\ FromLE(SubSeq(Peek(m, a, 4), 3, 4)) = cs
<1> DEFINE p == Peek(m, a, 4)
           s == SubSeq(p, 1, 2)
           t == SubSeq(p, 3, 4)
<1>1. a + 1 - 1 = a /\ a + 2 - 1 = a + 1 /\ a + 3 - 1 = a + 2 /\ a + 4 - 1 = a + 3 /\ a + 2 + 1 = a + 3
  BY SMT
<1>2. /\ p[1] = Byte(m, a + 1 - 1) /\ p[2] = Byte(m, a + 2 - 1)
      /\ p[3] = Byte(m, a + 3 - 1) /\ p[4] = Byte(m, a + 4 - 1)
  BY SMT DEF Peek, Byte
<1>3. /\ p[1] = LE(ip, 2)[1] /\ p[2] = LE(ip, 2)[2] /\ p[3] = LE(cs, 2)[1] /\ p[4] = LE(cs, 2)[2]
  BY <1>1, <1>2, SMT DEF Lies
<1> HIDE DEF p
<1>4. s[1] = p[1] /\ s[2] = p[2] /\ Len(s) = 2 /\ t[1] = p[3] /\ t[2] = p[4] /\ Len(t) = 2
  BY SMT
<1> HIDE DEF s, t
<1>5. /\ LE(ip, 2)[1] \in Nat /\ LE(ip, 2)[2] \in Nat /\ LE(ip, 2)[1] + 256 * LE(ip, 2)[2] = ip
      /\ LE(cs, 2)[1] \in Nat /\ LE(cs, 2)[2] \in Nat /\ LE(cs, 2)[1] + 256 * LE(cs, 2)[2] = cs
  <2>1. ip \in Nat /\ ip < 65536 /\ cs \in Nat /\ cs < 65536
    BY Words16, SMT
  <2>2. LE(ip, 2)[1] \in Nat /\ LE(ip, 2)[2] \in Nat /\ LE(ip, 2)[1] + 256 * LE(ip, 2)[2] = ip
    BY <2>1, WordBytes, SMT
  <2>3. LE(cs, 2)[1] \in Nat /\ LE(cs, 2)[2] \in Nat /\ LE(cs, 2)[1] + 256 * LE(cs, 2)[2] = cs
    BY <2>1, WordBytes, SMT
  <2>4. QED
    BY <2>2, <2>3, SMT
<1>6. FromLE(s) = s[1] + 256 * s[2]
  BY <1>3, <1>4, <1>5, TwoBytes, SMT
<1>7. FromLE(t) = t[1] + 256 * t[2]
  BY <1>3, <1>4, <1>5, TwoBytes, SMT
<1>8. FromLE(s) = ip /\ FromLE(t) = cs
  BY <1>3, <1>4, <1>5, <1>6, <1>7, SMT
<1>9. QED
  BY <1>8, SMT DEF p, s, t

\* Memories with the same bytes are read alike.
LEMMA SameRead ==
  ASSUME NEW m, NEW k, NEW a \in Int, NEW n \in Nat,
         \A x \in a .. a + n - 1 : Byte(m, x) = Byte(k, x)
  PROVE  Peek(m, a, n) = Peek(k, a, n)
<1>1. \A i \in 1 .. n : a + i - 1 \in a .. a + n - 1
  BY SMT
<1>2. \A i \in 1 .. n : Byte(m, a + i - 1) = Byte(k, a + i - 1)
  BY <1>1, SMT
<1>3. QED
  BY <1>2, SMT DEF Peek, Byte

\* The address of a far pointer.
FarAddress(arg) == (IF arg[2] = 0 THEN 0 ELSE seg_base(arg[2])) + arg[3]

LEMMA FarAddresses ==
  ASSUME NEW arg, IsArgument(arg, "far")
  PROVE  /\ FarAddress(arg) \in Nat /\ arg[2] \in 0 .. 255 /\ arg[3] \in Nat
         /\ arg[2] = 0 => FarAddress(arg) < 65536
         /\ arg[2] # 0 => /\ FarAddress(arg) >= 1048576 /\ FarAddress(arg) = seg_base(arg[2]) + arg[3]
                          /\ BufferBytes(arg, 2) = {FarAddress(arg), FarAddress(arg) + 1}
<1>1. arg[2] \in 0 .. 255 /\ arg[3] \in Nat /\ arg[3] < 65536
  BY Words16, SMT DEF IsArgument
<1>2. CASE arg[2] = 0
  BY <1>1, <1>2, SMT DEF FarAddress
<1>3. CASE arg[2] # 0
  <2>1. arg[2] \in Nat /\ arg[2] >= 1 /\ arg[2] <= 255
    BY <1>1, <1>3, SMT
  <2>2. seg_base(arg[2]) = (15 + arg[2]) * 65536
    BY <2>1, SegmentSelector, SMT
  <2>3. seg_base(arg[2]) \in Nat /\ seg_base(arg[2]) >= 1048576
    BY <2>1, <2>2, SMT
  <2>4. FarAddress(arg) = seg_base(arg[2]) + arg[3]
    BY <1>3, SMT DEF FarAddress
  <2> DEFINE f == FarAddress(arg)
  <2>5. f \in Nat /\ f >= 1048576
    BY <1>1, <2>3, <2>4, SMT
  <2>6. BufferBytes(arg, 2) = f .. f + 2 - 1
    BY <1>3, <2>4, SMT DEF BufferBytes
  <2> HIDE DEF f
  <2>7. f .. f + 2 - 1 = {f, f + 1}
    BY <2>5, SMT
  <2>8. QED
    BY <1>1, <1>3, <2>4, <2>5, <2>6, <2>7, SMT DEF f
<1>4. QED
  BY <1>2, <1>3, SMT

\* A word stored through a far pointer changes no byte of a segment outside its buffer.
LEMMA StoreElsewhere ==
  ASSUME NEW m, NEW arg, IsArgument(arg, "far"), NEW v \in Word16,
         NEW x \in Int, x >= 1048576, x \notin BufferBytes(arg, 2)
  PROVE  Byte(Store(m, FarAddress(arg), v), x) = Byte(m, x)
<1> DEFINE f == FarAddress(arg)
<1>1. f \in Nat /\ x # f /\ x # f + 1
  <2>1. CASE arg[2] = 0
    BY <2>1, FarAddresses, SMT
  <2>2. CASE arg[2] # 0
    BY <2>2, FarAddresses, SMT
  <2>3. QED
    BY <2>1, <2>2, SMT
<1>2. v \in Nat /\ v < 65536
  BY Words16, SMT
<1> HIDE DEF f
<1>3. Byte(Poke(m, f, LE(v, 2)), x) = Byte(m, x)
  BY <1>1, <1>2, Poked, SMT
<1>4. QED
  BY <1>3, SMT DEF Store, f

\* A word stored through a far pointer into a segment lies there.
LEMMA StoredLies ==
  ASSUME NEW m, NEW arg, IsArgument(arg, "far"), arg[2] # 0, NEW v \in Word16
  PROVE  Lies(Store(m, FarAddress(arg), v), FarAddress(arg), v)
<1> DEFINE f == FarAddress(arg)
<1>1. f \in Nat /\ f # 0 /\ f + 1 # f /\ f \in Int /\ f + 1 \in Int
  BY FarAddresses, SMT
<1>2. v \in Nat /\ v < 65536
  BY Words16, SMT
<1>3. Store(m, f, v) = Poke(m, f, LE(v, 2))
  BY <1>1, SMT DEF Store
<1> HIDE DEF f
<1>4. Byte(Poke(m, f, LE(v, 2)), f) = LE(v, 2)[1] /\ Byte(Poke(m, f, LE(v, 2)), f + 1) = LE(v, 2)[2]
  BY <1>1, <1>2, Poked, SMT
<1>5. QED
  BY <1>3, <1>4, SMT DEF Lies, f

\* What the assumptions say of a program's stack.
LEMMA ProgramStack ==
  ASSUME NEW p \in NePrograms, Len(p.segments) <= 255
  PROVE  /\ DOMAIN p.segments = 1 .. Len(p.segments) /\ Len(p.segments) \in Nat
         /\ p.ss \in Nat /\ p.ss >= 1 /\ p.ss <= 255 /\ p.ss \in DOMAIN p.segments
         /\ p.cs \in Nat /\ p.cs >= 1 /\ p.cs <= 255 /\ p.cs \in DOMAIN p.segments /\ p.ip \in Word16
         /\ StartSp(p) \in Nat /\ StartSp(p) < 65536 /\ (StartSp(p) = 0 \/ StartSp(p) >= 16)
         /\ \A k \in DOMAIN p.segments : /\ p.segments[k].alloc \in Nat /\ p.segments[k].alloc >= 1
                                           /\ p.segments[k].alloc <= 65536
         /\ StackTop(p) = seg_base(p.ss) + (IF StartSp(p) = 0 THEN 65536 ELSE StartSp(p))
         /\ StackTop(p) \in Nat /\ StackTop(p) - 16 >= 1048576
<1>0. /\ p.segments \in Seq(Range(p.segments)) /\ \A k \in DOMAIN p.segments : p.segments[k].alloc \in 1 .. TILE_SIZE
      /\ p.ss \in DOMAIN p.segments /\ p.cs \in DOMAIN p.segments
      /\ p.ip \in Word16 /\ p.sp \in Word16 /\ StartSp(p) \notin 1 .. 15
  <2>1. p.segments \in Seq(Range(p.segments))
    BY NeAssumption, SMTT(30)
  <2>2. \A k \in DOMAIN p.segments : p.segments[k].alloc \in 1 .. TILE_SIZE
    BY NeAssumption, SMTT(30)
  <2>3. p.ss \in DOMAIN p.segments /\ p.cs \in DOMAIN p.segments
    BY NeAssumption, SMTT(30)
  <2>4. p.ip \in Word16 /\ p.sp \in Word16 /\ StartSp(p) \notin 1 .. 15
    BY NeAssumption, SMTT(30)
  <2>5. QED
    BY <2>1, <2>2, <2>3, <2>4
<1>1. /\ p.segments \in Seq(Range(p.segments))
      /\ \A k \in DOMAIN p.segments : /\ p.segments[k].alloc \in Nat /\ p.segments[k].alloc >= 1
                                        /\ p.segments[k].alloc <= 65536
      /\ p.ss \in DOMAIN p.segments /\ p.cs \in DOMAIN p.segments
      /\ p.ip \in Word16 /\ p.sp \in Word16 /\ StartSp(p) \notin 1 .. 15
  <2>1. \A v \in 1 .. TILE_SIZE : v \in Nat /\ v >= 1 /\ v <= 65536
    BY SMT DEF TILE_SIZE
  <2>2. ASSUME NEW k \in DOMAIN p.segments
        PROVE  p.segments[k].alloc \in Nat /\ p.segments[k].alloc >= 1 /\ p.segments[k].alloc <= 65536
    <3>1. p.segments[k].alloc \in 1 .. TILE_SIZE
      BY <1>0, SMT
    <3>2. QED
      BY <2>1, <3>1, SMT
  <2>3. QED
    BY <1>0, <2>2, SMT
<1> DEFINE N == Len(p.segments)
<1>2. DOMAIN p.segments = 1 .. N /\ N \in Nat /\ N <= 255
  BY <1>1, SMT
<1> HIDE DEF N
<1>3. p.ss \in Nat /\ p.ss >= 1 /\ p.ss <= 255 /\ p.cs \in Nat /\ p.cs >= 1 /\ p.cs <= 255
  <2>1. p.ss \in 1 .. N /\ p.cs \in 1 .. N
    BY <1>1, <1>2, SMT DEF N
  <2>2. QED
    BY <2>1, <1>2, SMT
<1> DEFINE a == p.segments[p.ss].alloc
           s == StartSp(p)
<1>4. s \in Nat /\ s < 65536
  <2>1. a \in Nat
    BY <1>1, SMT
  <2>2. s = IF p.sp = 0 THEN a % 65536 ELSE p.sp
    BY SMT DEF StartSp
  <2> HIDE DEF a, s
  <2>3. a % 65536 \in Nat /\ a % 65536 < 65536
    BY <2>1, Division, SMT
  <2>4. p.sp \in Word16
    BY <1>1, SMT
  <2>5. p.sp \in Nat /\ p.sp < 65536
    BY <2>4, Words16, SMT
  <2>6. QED
    BY <2>2, <2>3, <2>5, SMT
<1> HIDE DEF s
<1>5. s = 0 \/ s >= 16
  <2>1. s \notin 1 .. 15
    BY <1>1, SMT DEF s
  <2>2. ASSUME s >= 1, s < 16 PROVE FALSE
    <3>1. s \in 1 .. 15
      BY <1>4, <2>2, SMT
    <3>2. QED
      BY <2>1, <3>1, SMT
  <2>3. QED
    BY <1>4, <2>2, SMT
<1> DEFINE b == seg_base(p.ss)
<1>6. b \in Nat /\ b >= 1048576
  <2> DEFINE n == p.ss
  <2>1. n \in Nat /\ n >= 1 /\ n <= 255
    BY <1>3, SMT
  <2> HIDE DEF n
  <2>2. seg_base(n) = (15 + n) * 65536
    BY <2>1, SegmentSelector, SMT
  <2>3. seg_base(n) \in Nat /\ seg_base(n) >= 1048576
    BY <2>1, <2>2, SMT
  <2>4. QED
    BY <2>3, SMT DEF n
<1>7. StackTop(p) = b + (IF s = 0 THEN 65536 ELSE s)
  BY SMT DEF StackTop, s
<1> HIDE DEF b
<1>8. StackTop(p) \in Nat /\ StackTop(p) - 16 >= 1048576
  BY <1>4, <1>5, <1>6, <1>7, SMT
<1>9. QED
  BY <1>1, <1>2, <1>3, <1>4, <1>5, <1>7, <1>8, SMT DEF s, b, N

\* What is pushed for any call.
LEMMA CallLengths ==
  ASSUME NEW c \in NeArguments, NEW r, r.cs \in Word16, r.ip \in Word16, NEW w, w = CallWords(c, r)
  PROVE  \E n \in Nat : n <= 8 /\ n >= 2 /\ Len(w) = n /\ WordSeq(w, n) /\ w[n - 1] = r.cs /\ w[n] = r.ip
<1>1. CASE c.ordinal = 5
  <2>1. Len(w) = 4 /\ WordSeq(w, 4) /\ w[3] = r.cs /\ w[4] = r.ip
    BY <1>1, CallArguments, ExitWords, SMT
  <2>2. QED
    BY <2>1, SMT
<1>2. CASE c.ordinal = 94
  <2>1. Len(w) = 6 /\ WordSeq(w, 6) /\ w[5] = r.cs /\ w[6] = r.ip
    BY <1>2, CallArguments, EnvWords, SMT
  <2>2. QED
    BY <2>1, SMT
<1>3. CASE c.ordinal = 138
  <2>1. Len(w) = 8 /\ WordSeq(w, 8) /\ w[7] = r.cs /\ w[8] = r.ip
    BY <1>3, CallArguments, WriteWords, SMT
  <2>2. QED
    BY <2>1, SMT
<1>4. CASE c.ordinal = 5139
  <2>1. Len(w) = 6 /\ WordSeq(w, 6) /\ w[5] = r.cs /\ w[6] = r.ip
    BY <1>4, CallArguments, TtyWords, SMT
  <2>2. QED
    BY <2>1, SMT
<1>5. QED
  BY <1>1, <1>2, <1>3, <1>4, CallArguments, SMT

\* A call starts with its words on the stack.
LEMMA CallStarts ==
  ASSUME NeInv, NEW c \in NeArguments, NeCalls(c)
  PROVE  NeInv'
<1> DEFINE p == neProgram
           w == CallWords(c, regs)
<1>1. /\ neAt = "runs" /\ p \in NePrograms /\ NeHeader /\ NeGdt /\ StartRegs(regs, p)
      /\ neAt' = "called" /\ neCall' = [call |-> c, regs |-> regs]
      /\ neMem' = Pushed(neMem, gdt_entry_base(gdt, regs.ss), regs.sp, w)
      /\ regs' = [regs EXCEPT !.sp = (@ - 2 * Len(w)) % 65536, !.cs = NE_THUNK_CODE_SELECTOR, !.ip = c.ordinal]
      /\ UNCHANGED <<neProgram, ne, gdt>>
  BY SMT DEF NeInv, NeCalls, CallWords, NeBefore
<1>2. Len(p.segments) <= 255
  BY <1>1, SMT DEF NeHeader
<1>3. regs.cs \in Word16 /\ regs.ip \in Word16 /\ regs.ss = seg_selector(p.ss) /\ regs.sp = StartSp(p)
  BY <1>1, SMT DEF StartRegs
<1>4. gdt_entry_base(gdt, regs.ss) = seg_base(p.ss) /\ seg_base(p.ss) \in Int
  <2> DEFINE n == p.ss
  <2>1. n \in Nat /\ n >= 1 /\ n <= 255
    BY <1>1, <1>2, ProgramStack, SMT
  <2> HIDE DEF n
  <2>2. gdt_entry_base(gdt, seg_selector(n)) = seg_base(n)
    BY <1>1, <2>1, SMT DEF NeGdt
  <2>3. seg_base(n) \in Nat
    BY <2>1, SegmentSelector, SMT
  <2>4. QED
    BY <1>3, <2>2, <2>3, SMT DEF n
<1> HIDE DEF w
<1>5. PICK n \in Nat : n <= 8 /\ n >= 2 /\ Len(w) = n /\ WordSeq(w, n) /\ w[n - 1] = regs.cs /\ w[n] = regs.ip
  BY <1>3, CallLengths, SMT DEF w
<1>6. ASSUME NEW k \in 1 .. n PROVE Lies(neMem', StackTop(p) - 2 * k, w[k])
  <2> DEFINE b == seg_base(p.ss)
             s == StartSp(p)
             t == StackTop(p)
  <2>1. b \in Int /\ s \in Nat /\ s < 65536 /\ (s = 0 \/ s >= 16) /\ t \in Int
        /\ t = b + (IF s = 0 THEN 65536 ELSE s)
    BY <1>1, <1>2, <1>4, ProgramStack, SMT
  <2> HIDE DEF b, s, t
  <2>2. Lies(Pushed(neMem, b, s, w), t - 2 * k, w[k])
    BY <1>5, <2>1, PushedWords, SMT
  <2>3. neMem' = Pushed(neMem, b, s, w)
    BY <1>1, <1>3, <1>4, SMT DEF b, s
  <2>4. QED
    BY <2>2, <2>3, SMT DEF t
<1>7. OnStack(neMem', p, w)
  BY <1>5, <1>6, SMT DEF OnStack
<1>8. NeInCall'
  BY <1>1, <1>7, SMT DEF NeInCall, w
<1>9. NeCallsReturn'
  BY <1>1, SMT DEF NeCallsReturn
<1>10. NeHeader' /\ NeGdt'
  BY <1>1, SMT DEF NeHeader, NeGdt
<1>11. QED
  BY <1>1, <1>8, <1>9, <1>10, SMT DEF NeInv, NeBefore

\* read_arg16 finds the words of a call that was made with n of them.
ReadsWords(w, n) == \A k \in 1 .. n - 2 : \A off \in Int : off = 2 * (n - 2 - k) => read_arg16(off) = w[k]

\* What a call finds on its stack: run_vcpu the ordinal, and the handler its arguments.
LEMMA CallReads ==
  ASSUME NeInv, neAt = "called", NEW w, w = CallWords(neCall.call, neCall.regs),
         NEW n \in Nat, n <= 8, n >= 2, Len(w) = n, WordSeq(w, n)
  PROVE  /\ gdt_entry_base(gdt, regs.ss) + regs.sp = StackTop(neProgram) - 2 * n
         /\ gdt_entry_base(gdt, regs.cs) + regs.ip - NE_THUNK_BASE = neCall.call.ordinal
         /\ \A k \in 1 .. n : Lies(neMem, StackTop(neProgram) - 2 * k, w[k])
         /\ ReadsWords(w, n)
<1> DEFINE p == neProgram
           t == StackTop(p)
           sp0 == neCall.regs.sp
<1>1. /\ p \in NePrograms /\ NeHeader /\ NeGdt /\ neCall.call \in NeArguments /\ StartRegs(neCall.regs, p)
      /\ regs = [neCall.regs EXCEPT !.sp = (@ - 2 * Len(w)) % 65536,
                                    !.cs = NE_THUNK_CODE_SELECTOR, !.ip = neCall.call.ordinal]
      /\ OnStack(neMem, p, w)
  BY SMT DEF NeInv, NeInCall, NeBefore
<1>2. /\ regs.ss = seg_selector(p.ss) /\ regs.sp = (StartSp(p) - 2 * n) % 65536
      /\ regs.cs = NE_THUNK_CODE_SELECTOR /\ regs.ip = neCall.call.ordinal
  BY <1>1, SMT DEF StartRegs
<1>3. Len(p.segments) <= 255
  BY <1>1, SMT DEF NeHeader
<1>4. /\ t \in Nat /\ t = seg_base(p.ss) + (IF StartSp(p) = 0 THEN 65536 ELSE StartSp(p))
      /\ p.ss \in Nat /\ p.ss >= 1 /\ p.ss <= 255
      /\ StartSp(p) \in Nat /\ StartSp(p) < 65536 /\ (StartSp(p) = 0 \/ StartSp(p) >= 16)
  BY <1>1, <1>3, ProgramStack, SMT
<1>5. gdt_entry_base(gdt, regs.ss) = seg_base(p.ss) /\ seg_base(p.ss) \in Int
  BY <1>1, <1>2, <1>4, SegmentSelector, SMT DEF NeGdt
<1>6. gdt_entry_base(gdt, regs.ss) + regs.sp = t - 2 * n
  <2> DEFINE b == seg_base(p.ss)
             s == StartSp(p)
  <2>1. b \in Int /\ s \in Nat /\ s < 65536 /\ (s = 0 \/ s >= 16) /\ n \in 1 .. 8
    BY <1>4, <1>5, SMT
  <2>2. t = b + (IF s = 0 THEN 65536 ELSE s) /\ regs.sp = (s - 2 * n) % 65536
    BY <1>2, <1>4, SMT
  <2> HIDE DEF b, s, t
  <2>3. b + ((s - 2 * n) % 65536) = b + (IF s = 0 THEN 65536 ELSE s) - 2 * n
    BY <2>1, PushAddress, SMT
  <2>4. b + ((s - 2 * n) % 65536) = t - 2 * n
    BY <2>1, <2>2, <2>3, SMT
  <2>5. QED
    BY <1>5, <2>2, <2>4, SMT DEF b
<1>7. gdt_entry_base(gdt, regs.cs) + regs.ip - NE_THUNK_BASE = neCall.call.ordinal
  <2>1. gdt_entry_base(gdt, regs.cs) = NE_THUNK_BASE /\ NE_THUNK_BASE \in Int
    BY <1>1, <1>2, SMT DEF NeGdt, NE_THUNK_BASE, TILE_SIZE
  <2>2. neCall.call.ordinal \in Int
    BY <1>1, CallArguments, SMT
  <2>3. QED
    BY <1>2, <2>1, <2>2, SMT
<1>8. \A k \in 1 .. n : Lies(neMem, t - 2 * k, w[k])
  BY <1>1, SMT DEF OnStack
<1>9. ASSUME NEW k \in 1 .. n - 2, NEW off \in Int, off = 2 * (n - 2 - k) PROVE read_arg16(off) = w[k]
  <2> HIDE DEF t
  <2>1. k \in 1 .. n /\ t \in Int /\ t - 2 * k \in Int
    BY <1>4, SMT
  <2>2. t - 2 * n + 4 + off = t - 2 * k
    BY <1>4, <1>9, SMT
  <2>3. arg_base + off = t - 2 * k
    <3>1. arg_base = gdt_entry_base(gdt, regs.ss) + regs.sp + 4
      BY Zenon DEF arg_base
    <3>2. QED
      BY <3>1, <1>6, <2>2, SMT
  <2>4. w[k] \in Word16
    BY <2>1, SMT DEF WordSeq
  <2>5. Lies(neMem, t - 2 * k, w[k])
    BY <1>8, <2>1, SMT
  <2>6. FromLE(Peek(neMem, t - 2 * k, 2)) = w[k]
    BY <2>1, <2>4, <2>5, WordRead, SMT
  <2>7. QED
    BY <2>3, <2>6, SMT DEF read_arg16
<1>10. ReadsWords(w, n)
  BY <1>9, SMT DEF ReadsWords
<1>11. QED
  BY <1>6, <1>7, <1>8, <1>10, SMT

\* A far pointer among the arguments is the address it names.
LEMMA FarReads ==
  ASSUME NeGdt, NEW arg, IsArgument(arg, "far"), NEW off \in Int,
         read_arg16(off + 2) = Selector(arg), read_arg16(off) = arg[3]
  PROVE  read_far_ptr(off) = FarAddress(arg)
<1> DEFINE n == arg[2]
<1>1. n \in 0 .. 255
  BY SMT DEF IsArgument
<1>2. gdt_entry_base(gdt, Selector(arg)) = IF n = 0 THEN 0 ELSE seg_base(n)
  <2>1. CASE n = 0
    BY <2>1, SMT DEF NeGdt, Selector
  <2>2. CASE n # 0
    <3>1. n \in Nat /\ n >= 1 /\ n <= 255
      BY <1>1, <2>2, SMT
    <3> HIDE DEF n
    <3>2. gdt_entry_base(gdt, seg_selector(n)) = seg_base(n)
      BY <3>1, SMT DEF NeGdt
    <3>3. QED
      BY <2>2, <3>2, SMT DEF Selector, n
  <2>3. QED
    BY <2>1, <2>2, SMT
<1>3. QED
  BY <1>2, SMT DEF read_far_ptr, FarAddress

\* Registers that were changed and set back.
LEMMA RegistersBack ==
  ASSUME NEW c, NEW i, NEW s, NEW p, NEW d, NEW x, NEW y, NEW u, NEW r, NEW q, NEW z,
         r = [cs |-> c, ip |-> i, ss |-> s, sp |-> p, ds |-> d],
         q = [r EXCEPT !.sp = x, !.cs = y, !.ip = u],
         z = [q EXCEPT !.ip = i, !.cs = c, !.sp = p]
  PROVE  z = r
<1>1. q = [cs |-> y, ip |-> u, ss |-> s, sp |-> x, ds |-> d]
  BY Zenon
<1>2. z = [cs |-> c, ip |-> i, ss |-> s, sp |-> p, ds |-> d]
  BY <1>1, Zenon
<1>3. QED
  BY <1>2, Zenon

\* The return pops what was pushed, if the handler left the stack alone.
LEMMA CallPops ==
  ASSUME NeInv, neAt = "called", NeReturns, NEW w, w = CallWords(neCall.call, neCall.regs),
         NEW n \in Nat, n <= 8, n >= 2, Len(w) = n, WordSeq(w, n),
         w[n - 1] = neCall.regs.cs, w[n] = neCall.regs.ip,
         ne_api_arg_bytes(neCall.call.ordinal) = 2 * (n - 2),
         \A x \in CallFrame(neProgram) : Byte(neMem', x) = Byte(neMem, x)
  PROVE  regs' = neCall.regs
<1> DEFINE p == neProgram
           t == StackTop(p)
           a == t - 2 * n
           r == neCall.regs
           o == neCall.call.ordinal
<1>1. /\ p \in NePrograms /\ NeHeader /\ StartRegs(r, p)
      /\ regs = [r EXCEPT !.sp = (@ - 2 * Len(w)) % 65536, !.cs = NE_THUNK_CODE_SELECTOR, !.ip = o]
  BY SMT DEF NeInv, NeInCall
<1>2. /\ gdt_entry_base(gdt, regs.ss) + regs.sp = a
      /\ gdt_entry_base(gdt, regs.cs) + regs.ip - NE_THUNK_BASE = o
      /\ \A k \in 1 .. n : Lies(neMem, t - 2 * k, w[k])
  BY CallReads, SMT
<1>3. regs' = [regs EXCEPT !.ip = FromLE(SubSeq(Peek(neMem', a, 4), 1, 2)),
                           !.cs = FromLE(SubSeq(Peek(neMem', a, 4), 3, 4)),
                           !.sp = (@ + 4 + ne_api_arg_bytes(o)) % 65536]
  <2> DEFINE oo == gdt_entry_base(gdt, regs.cs) + regs.ip - NE_THUNK_BASE
             aa == gdt_entry_base(gdt, regs.ss) + regs.sp
             m == handle_ne_api_call(oo).mem
  <2>1. /\ neMem' = m
        /\ regs' = [regs EXCEPT !.ip = FromLE(SubSeq(Peek(m, aa, 4), 1, 2)),
                                !.cs = FromLE(SubSeq(Peek(m, aa, 4), 3, 4)),
                                !.sp = (@ + 4 + ne_api_arg_bytes(oo)) % 65536]
    BY SMT DEF NeReturns
  <2>2. aa = a /\ oo = o
    BY <1>2, SMT
  <2> HIDE DEF a, o, oo, aa, m
  <2>3. QED
    BY <2>1, <2>2, SMT
<1>4. Len(p.segments) <= 255
  BY <1>1, SMT DEF NeHeader
<1>5. /\ t \in Nat /\ StartSp(p) \in Nat /\ StartSp(p) < 65536 /\ r.sp = StartSp(p)
      /\ r.cs \in Word16 /\ r.ip \in Word16
  BY <1>1, <1>4, ProgramStack, SMT DEF StartRegs
<1>6. Lies(neMem', a, r.ip) /\ Lies(neMem', a + 2, r.cs)
  <2> HIDE DEF t, r
  <2>1. n \in 1 .. n /\ n - 1 \in 1 .. n /\ t - 2 * (n - 1) = a + 2
    <3>1. n \in 1 .. n /\ n - 1 \in 1 .. n
      BY SMT
    <3>2. t \in Int
      BY <1>5, SMT
    <3>3. QED
      BY <3>1, <3>2, SMT
  <2>2. Lies(neMem, a, r.ip) /\ Lies(neMem, a + 2, r.cs)
    <3>1. Lies(neMem, t - 2 * n, w[n]) /\ Lies(neMem, t - 2 * (n - 1), w[n - 1])
      BY <1>2, <2>1, SMT
    <3>2. QED
      BY <2>1, <3>1, SMT DEF r
  <2>3. {a, a + 1, a + 2, a + 2 + 1} \subseteq CallFrame(p)
    <3>1. CallFrame(p) = t - 16 .. t - 1
      BY SMT DEF CallFrame, t
    <3>2. a \in t - 16 .. t - 1 /\ a + 1 \in t - 16 .. t - 1
      BY <1>5, SMT
    <3>3. a + 2 \in t - 16 .. t - 1 /\ a + 2 + 1 \in t - 16 .. t - 1
      BY <1>5, SMT
    <3>4. QED
      BY <3>1, <3>2, <3>3, SMT
  <2> HIDE DEF a
  <2>4. QED
    BY <2>2, <2>3, SMT DEF Lies
<1>7. a \in Int
  BY <1>5, SMT
<1> HIDE DEF a, r, o
<1>8. FromLE(SubSeq(Peek(neMem', a, 4), 1, 2)) = r.ip /\ FromLE(SubSeq(Peek(neMem', a, 4), 3, 4)) = r.cs
  BY <1>5, <1>6, <1>7, ReturnRead, SMT
<1>9. (((StartSp(p) - 2 * n) % 65536) + 4 + 2 * (n - 2)) % 65536 = StartSp(p)
  <2> DEFINE s == StartSp(p)
  <2>1. s \in Nat /\ s < 65536 /\ (s = 0 \/ s >= 16)
    BY <1>1, <1>4, ProgramStack, SMT
  <2>6. n \in 1 .. 8
    BY SMT
  <2> HIDE DEF s
  <2>2. 0 + ((s - 2 * n) % 65536) = 0 + (IF s = 0 THEN 65536 ELSE s) - 2 * n
    BY <2>1, <2>6, PushAddress, SMT
  <2>3. ((s - 2 * n) % 65536) + 4 + 2 * (n - 2) = IF s = 0 THEN 65536 ELSE s
    BY <2>1, <2>2, SMT
  <2>4. 65536 % 65536 = 0 /\ s % 65536 = s
    BY <2>1, SMT
  <2>5. QED
    BY <2>3, <2>4, SMT DEF s
<1>10. regs.sp = (StartSp(p) - 2 * n) % 65536
  BY <1>1, <1>5, SMT DEF StartRegs, r
<1>11. (regs.sp + 4 + ne_api_arg_bytes(o)) % 65536 = r.sp
  BY <1>5, <1>9, <1>10, SMT DEF o
<1>12. regs' = [regs EXCEPT !.ip = r.ip, !.cs = r.cs, !.sp = r.sp]
  <2> DEFINE i == FromLE(SubSeq(Peek(neMem', a, 4), 1, 2))
             c == FromLE(SubSeq(Peek(neMem', a, 4), 3, 4))
             s == (regs.sp + 4 + ne_api_arg_bytes(o)) % 65536
  <2>1. regs' = [regs EXCEPT !.ip = i, !.cs = c, !.sp = s]
    BY <1>3, SMT
  <2>2. i = r.ip /\ c = r.cs /\ s = r.sp
    BY <1>8, <1>11, SMT
  <2> HIDE DEF i, c, s
  <2>3. QED
    BY <2>1, <2>2, Zenon
<1>13. r = [cs |-> r.cs, ip |-> r.ip, ss |-> r.ss, sp |-> r.sp, ds |-> r.ds]
  BY <1>1, SMT DEF StartRegs
<1>14. [regs EXCEPT !.ip = r.ip, !.cs = r.cs, !.sp = r.sp] = r
  <2> DEFINE x == (r.sp - 2 * Len(w)) % 65536
             y == NE_THUNK_CODE_SELECTOR
  <2>1. regs = [r EXCEPT !.sp = x, !.cs = y, !.ip = o]
    BY <1>1, SMT DEF r, o
  <2> HIDE DEF x, y
  <2>2. QED
    BY <1>13, <2>1, RegistersBack, Zenon
<1>15. QED
  BY <1>12, <1>14, SMT DEF r

\* What handle_ne_api_call does for each call, and what it pops.
LEMMA Handled ==
  /\ /\ handle_ne_api_call(5).mem = neMem /\ handle_ne_api_call(5).out = <<"exit", read_arg16(0)>>
     /\ ne_api_arg_bytes(5) = 4
  /\ /\ handle_ne_api_call(94).mem = Store(Store(neMem, read_far_ptr(4), 0), read_far_ptr(0), 0)
     /\ handle_ne_api_call(94).out = <<"env">> /\ ne_api_arg_bytes(94) = 8
  /\ /\ handle_ne_api_call(138) =
          IF read_arg16(10) \in {1, 2}
          THEN [mem |-> Store(neMem, read_far_ptr(0), read_arg16(4)),
                out |-> <<"text", Peek(neMem, read_far_ptr(6), read_arg16(4))>>]
          ELSE [mem |-> neMem, out |-> <<"error">>]
     /\ ne_api_arg_bytes(138) = 12
  /\ /\ handle_ne_api_call(5139).mem = neMem
     /\ handle_ne_api_call(5139).out = <<"text", Peek(neMem, read_far_ptr(4), read_arg16(2))>>
     /\ ne_api_arg_bytes(5139) = 8
<1>1. 5120 + 19 = 5139
  BY SMT
<1>2. ne_api_arg_bytes(5) = 4 /\ ne_api_arg_bytes(94) = 8 /\ ne_api_arg_bytes(138) = 12 /\ ne_api_arg_bytes(5139) = 8
  BY <1>1, SMT DEF ne_api_arg_bytes
<1>3. handle_ne_api_call(5).mem = neMem /\ handle_ne_api_call(5).out = <<"exit", read_arg16(0)>>
  BY SMT DEF handle_ne_api_call
<1>4. /\ handle_ne_api_call(94).mem = Store(Store(neMem, read_far_ptr(4), 0), read_far_ptr(0), 0)
      /\ handle_ne_api_call(94).out = <<"env">>
  BY SMT DEF handle_ne_api_call
<1>5. handle_ne_api_call(138) =
        IF read_arg16(10) \in {1, 2}
        THEN [mem |-> Store(neMem, read_far_ptr(0), read_arg16(4)),
              out |-> <<"text", Peek(neMem, read_far_ptr(6), read_arg16(4))>>]
        ELSE [mem |-> neMem, out |-> <<"error">>]
  BY SMT DEF handle_ne_api_call
<1>6. /\ handle_ne_api_call(5139).mem = neMem
      /\ handle_ne_api_call(5139).out = <<"text", Peek(neMem, read_far_ptr(4), read_arg16(2))>>
  BY <1>1, SMT DEF handle_ne_api_call
<1>7. QED
  BY <1>2, <1>3, <1>4, <1>5, <1>6, SMT

\* The caller, its arguments and what was pushed for them.
LEMMA InCall ==
  ASSUME NeInv, neAt = "called", NEW o, o = neCall.call.ordinal
  PROVE  /\ neCall.call \in NeArguments /\ neProgram \in NePrograms /\ NeGdt
         /\ neCall.regs.cs \in Word16 /\ neCall.regs.ip \in Word16
         /\ NeReturns =>
              /\ neMem' = handle_ne_api_call(o).mem /\ neOut' = handle_ne_api_call(o).out
              /\ neAt' = IF neOut'[1] = "exit" THEN "ended" ELSE "runs"
              /\ UNCHANGED <<neProgram, ne, gdt, neCall>>
         /\ \A x \in CallFrame(neProgram) : x \in Int /\ x >= 1048576
<1>1. /\ neProgram \in NePrograms /\ NeHeader /\ NeGdt /\ neCall.call \in NeArguments
      /\ StartRegs(neCall.regs, neProgram)
  BY SMT DEF NeInv, NeInCall, NeBefore
<1>2. neCall.regs.cs \in Word16 /\ neCall.regs.ip \in Word16
  BY <1>1, SMT DEF StartRegs
<1>3. ASSUME NeReturns
      PROVE  /\ neMem' = handle_ne_api_call(o).mem /\ neOut' = handle_ne_api_call(o).out
             /\ neAt' = IF neOut'[1] = "exit" THEN "ended" ELSE "runs"
             /\ UNCHANGED <<neProgram, ne, gdt, neCall>>
  <2> DEFINE w == CallWords(neCall.call, neCall.regs)
             oo == gdt_entry_base(gdt, regs.cs) + regs.ip - NE_THUNK_BASE
  <2>1. \E n \in Nat : n <= 8 /\ n >= 2 /\ Len(w) = n /\ WordSeq(w, n)
    BY <1>1, <1>2, CallLengths, SMT
  <2> HIDE DEF w
  <2>2. PICK n \in Nat : n <= 8 /\ n >= 2 /\ Len(w) = n /\ WordSeq(w, n)
    BY <2>1, SMT
  <2>3. oo = o
    BY <2>2, CallReads, SMT DEF w
  <2>4. /\ neMem' = handle_ne_api_call(oo).mem /\ neOut' = handle_ne_api_call(oo).out
        /\ neAt' = IF handle_ne_api_call(oo).out[1] = "exit" THEN "ended" ELSE "runs"
        /\ UNCHANGED <<neProgram, ne, gdt, neCall>>
    BY <1>3, SMT DEF NeReturns
  <2> HIDE DEF oo
  <2>5. QED
    BY <2>3, <2>4, SMT
<1>4. ASSUME NEW x \in CallFrame(neProgram) PROVE x \in Int /\ x >= 1048576
  <2> DEFINE t == StackTop(neProgram)
  <2>1. Len(neProgram.segments) <= 255
    BY <1>1, SMT DEF NeHeader
  <2>2. t \in Nat /\ t - 16 >= 1048576
    BY <1>1, <2>1, ProgramStack, SMT
  <2>3. x \in t - 16 .. t - 1
    BY <1>4, SMT DEF CallFrame
  <2> HIDE DEF t
  <2>4. QED
    BY <2>2, <2>3, SMT
<1>5. QED
  BY <1>1, <1>2, <1>3, <1>4, SMT

\* DosExit.
LEMMA ExitReturns ==
  ASSUME NeInv, neAt = "called", NeReturns, neCall.call.ordinal = 5
  PROVE  /\ regs' = neCall.regs /\ neOut' = <<"exit", neCall.call.args[2][2]>> /\ neAt' = "ended"
<1> DEFINE c == neCall.call
           r == neCall.regs
           w == CallWords(c, r)
<1>1. /\ c \in NeArguments /\ r.cs \in Word16 /\ r.ip \in Word16
      /\ neMem' = handle_ne_api_call(5).mem /\ neOut' = handle_ne_api_call(5).out
      /\ neAt' = IF neOut'[1] = "exit" THEN "ended" ELSE "runs"
  BY InCall, SMT
<1>2. /\ DOMAIN c.args = 1 .. 2
      /\ IsArgument(c.args[1], "word") /\ IsArgument(c.args[2], "word")
  BY <1>1, CallArguments, SMT
<1>3. Len(w) = 4 /\ WordSeq(w, 4) /\ w[2] = c.args[2][2] /\ w[3] = r.cs /\ w[4] = r.ip
  BY <1>1, <1>2, ExitWords, SMT
<1>4. PICK n \in Nat : n = 4
  BY SMT
<1> HIDE DEF w
<1>5. /\ n <= 8 /\ n >= 2 /\ Len(w) = n /\ WordSeq(w, n) /\ w[n - 1] = r.cs /\ w[n] = r.ip
      /\ w = CallWords(c, r) /\ ne_api_arg_bytes(c.ordinal) = 2 * (n - 2)
  BY <1>3, <1>4, Handled, SMT DEF w
<1>6. read_arg16(0) = w[2]
  <2>1. ReadsWords(w, n)
    BY <1>5, CallReads, SMT
  <2>2. 2 \in 1 .. n - 2 /\ 0 \in Int /\ 0 = 2 * (n - 2 - 2)
    BY <1>4, SMT
  <2>3. QED
    BY <2>1, <2>2, SMT DEF ReadsWords
<1>7. neMem' = neMem
  BY <1>1, Handled, SMT
<1>8. regs' = r
  <2>1. \A x \in CallFrame(neProgram) : Byte(neMem', x) = Byte(neMem, x)
    BY <1>7, SMT
  <2>2. QED
    BY <1>5, <2>1, CallPops, SMT
<1>9. neOut' = <<"exit", c.args[2][2]>>
  BY <1>1, <1>3, <1>6, Handled, SMT
<1>10. QED
  BY <1>1, <1>8, <1>9, SMT

\* Results are stored neither on the stack nor in the text that is written.
LEMMA ResultsApart ==
  ASSUME NEW c \in NeArguments
  PROVE  /\ \A k \in Results(c) : \A p \in NePrograms : BufferBytes(c.args[k], 2) \cap CallFrame(p) = {}
         /\ c.ordinal = 138 => /\ c.args[2][2] # 0
                               /\ BufferBytes(c.args[4], 2) \cap BufferBytes(c.args[2], c.args[3][2]) = {}
         /\ c.ordinal = 5139 => c.args[1][2] # 0
<1>1. 5120 + 19 = 5139
  BY SMT
<1>2. /\ c.ordinal = 138 => /\ c.args[2][2] # 0
                            /\ BufferBytes(c.args[4], 2) \cap BufferBytes(c.args[2], c.args[3][2]) = {}
      /\ c.ordinal = 5120 + 19 => c.args[1][2] # 0
  BY NeAssumption, SMTT(30)
<1>3. \A k \in Results(c) : \A p \in NePrograms : BufferBytes(c.args[k], 2) \cap CallFrame(p) = {}
  BY NeAssumption, SMTT(30)
<1>4. QED
  BY <1>1, <1>2, <1>3, SMT

\* A result does not change what a call pushed.
LEMMA FrameKept ==
  ASSUME NEW m, NEW arg, IsArgument(arg, "far"), NEW v \in Word16, NEW p,
         \A x \in CallFrame(p) : x \in Int /\ x >= 1048576, BufferBytes(arg, 2) \cap CallFrame(p) = {},
         NEW x \in CallFrame(p)
  PROVE  Byte(Store(m, FarAddress(arg), v), x) = Byte(m, x)
<1>1. x \in Int /\ x >= 1048576 /\ x \notin BufferBytes(arg, 2)
  BY SMT
<1>2. QED
  BY <1>1, StoreElsewhere, SMT

\* The word 0.
LEMMA ZeroWord ==
  /\ 0 \in Word16 /\ 0 \in Nat /\ 0 < 65536
  /\ LE(0, 2)[1] = 0 /\ LE(0, 2)[2] = 0
<1>1. 0 \in Word16
  BY Words16, SMT
<1>2. /\ LE(0, 2)[1] \in Nat /\ LE(0, 2)[2] \in Nat /\ LE(0, 2)[1] + 256 * LE(0, 2)[2] = 0
  BY WordBytes, SMT
<1>3. QED
  BY <1>1, <1>2, SMT

\* A null stored over a null, or elsewhere.
LEMMA ZeroStays ==
  ASSUME NEW m, NEW f \in Nat, NEW x \in Int, Byte(m, x) = 0
  PROVE  Byte(Store(m, f, 0), x) = 0
<1>1. Byte(Poke(m, f, LE(0, 2)), x) = 0
  BY ZeroWord, Poked, SMT
<1>2. QED
  BY <1>1, SMT DEF Store

\* DosGetEnv leaves a null in a buffer that was given.
LEMMA ZeroStored ==
  ASSUME NEW m, NEW arg, IsArgument(arg, "far"), arg[2] # 0, NEW f, f = FarAddress(arg)
  PROVE  f \in Nat /\ Byte(Store(m, f, 0), f) = 0 /\ Byte(Store(m, f, 0), f + 1) = 0
<1>1. f \in Nat
  BY FarAddresses, SMT
<1>2. Lies(Store(m, f, 0), f, 0)
  BY ZeroWord, StoredLies, SMT
<1>3. QED
  BY <1>1, <1>2, ZeroWord, SMT DEF Lies

\* DosGetEnv.
LEMMA EnvReturns ==
  ASSUME NeInv, neAt = "called", NeReturns, neCall.call.ordinal = 94
  PROVE  /\ regs' = neCall.regs /\ neOut' = <<"env">> /\ neAt' = "runs"
         /\ \A k \in 1 .. 2 : neCall.call.args[k][2] # 0 =>
              Peek(neMem', seg_base(neCall.call.args[k][2]) + neCall.call.args[k][3], 2) = <<0, 0>>
<1> DEFINE c == neCall.call
           r == neCall.regs
           w == CallWords(c, r)
           a == c.args[1]
           b == c.args[2]
           p == neProgram
<1>1. /\ c \in NeArguments /\ r.cs \in Word16 /\ r.ip \in Word16 /\ p \in NePrograms /\ NeGdt
      /\ neMem' = handle_ne_api_call(94).mem /\ neOut' = handle_ne_api_call(94).out
      /\ neAt' = IF neOut'[1] = "exit" THEN "ended" ELSE "runs"
  BY InCall, SMT
<1>2. DOMAIN c.args = 1 .. 2 /\ IsArgument(a, "far") /\ IsArgument(b, "far")
  BY <1>1, CallArguments, SMT
<1>3. /\ Len(w) = 6 /\ WordSeq(w, 6) /\ w[1] = Selector(a) /\ w[2] = a[3] /\ w[3] = Selector(b) /\ w[4] = b[3]
      /\ w[5] = r.cs /\ w[6] = r.ip
  BY <1>1, <1>2, EnvWords, SMT
<1>4. PICK n \in Nat : n = 6
  BY SMT
<1> HIDE DEF w
<1>5. /\ n <= 8 /\ n >= 2 /\ Len(w) = n /\ WordSeq(w, n) /\ w[n - 1] = r.cs /\ w[n] = r.ip
      /\ w = CallWords(c, r) /\ ne_api_arg_bytes(c.ordinal) = 2 * (n - 2)
  BY <1>3, <1>4, Handled, SMT DEF w
<1>6. /\ read_arg16(4 + 2) = Selector(a) /\ read_arg16(4) = a[3]
      /\ read_arg16(0 + 2) = Selector(b) /\ read_arg16(0) = b[3]
  <2>1. ReadsWords(w, n)
    BY <1>5, CallReads, SMT
  <2>2. /\ 1 \in 1 .. n - 2 /\ 4 + 2 \in Int /\ 4 + 2 = 2 * (n - 2 - 1)
        /\ 2 \in 1 .. n - 2 /\ 4 \in Int /\ 4 = 2 * (n - 2 - 2)
        /\ 3 \in 1 .. n - 2 /\ 0 + 2 \in Int /\ 0 + 2 = 2 * (n - 2 - 3)
        /\ 4 \in 1 .. n - 2 /\ 0 \in Int /\ 0 = 2 * (n - 2 - 4)
    BY <1>4, SMT
  <2>3. read_arg16(4 + 2) = w[1] /\ read_arg16(4) = w[2] /\ read_arg16(0 + 2) = w[3] /\ read_arg16(0) = w[4]
    BY <2>1, <2>2, SMT DEF ReadsWords
  <2>4. QED
    BY <1>3, <2>3, SMT
<1>7. read_far_ptr(4) = FarAddress(a) /\ read_far_ptr(0) = FarAddress(b)
  <2>1. 4 \in Int /\ 0 \in Int
    BY SMT
  <2> HIDE DEF a, b
  <2>2. read_far_ptr(4) = FarAddress(a)
    BY <1>1, <1>2, <1>6, <2>1, FarReads, SMT
  <2>3. read_far_ptr(0) = FarAddress(b)
    BY <1>1, <1>2, <1>6, <2>1, FarReads, SMT
  <2>4. QED
    BY <2>2, <2>3, SMT
<1> DEFINE m == Store(neMem, FarAddress(a), 0)
<1>8. neMem' = Store(m, FarAddress(b), 0)
  BY <1>1, <1>7, Handled, SMT
<1>9. regs' = r
  <2>1. Results(c) = {1, 2}
    BY SMT DEF Results
  <2>2. BufferBytes(a, 2) \cap CallFrame(p) = {} /\ BufferBytes(b, 2) \cap CallFrame(p) = {}
    BY <1>1, <2>1, ResultsApart, SMT
  <2>3. \A x \in CallFrame(p) : x \in Int /\ x >= 1048576
    BY InCall, SMT
  <2> HIDE DEF a, b, m
  <2>4. \A x \in CallFrame(p) : Byte(m, x) = Byte(neMem, x)
    BY <1>2, <2>2, <2>3, ZeroWord, FrameKept, SMT DEF m
  <2>5. \A x \in CallFrame(p) : Byte(Store(m, FarAddress(b), 0), x) = Byte(m, x)
    BY <1>2, <2>2, <2>3, ZeroWord, FrameKept, SMT
  <2>6. \A x \in CallFrame(neProgram) : Byte(neMem', x) = Byte(neMem, x)
    BY <1>8, <2>4, <2>5, SMT
  <2>7. QED
    BY <1>5, <2>6, CallPops, SMT
<1>10. neOut' = <<"env">> /\ neAt' = "runs"
  BY <1>1, Handled, SMT
<1>11. ASSUME b[2] # 0 PROVE Peek(neMem', seg_base(b[2]) + b[3], 2) = <<0, 0>>
  <2> HIDE DEF b, m
  <2>1. FarAddress(b) = seg_base(b[2]) + b[3]
    BY <1>11, SMT DEF FarAddress
  <2> DEFINE f == FarAddress(b)
  <2> HIDE DEF f
  <2>2. f \in Nat /\ Byte(Store(m, f, 0), f) = 0 /\ Byte(Store(m, f, 0), f + 1) = 0
    BY <1>2, <1>11, ZeroStored, SMT DEF f
  <2>3. Peek(neMem', f, 2) = <<Byte(neMem', f), Byte(neMem', f + 1)>>
    BY <2>2, Peeked, SMT
  <2>4. Peek(neMem', f, 2) = <<0, 0>>
    BY <1>8, <2>2, <2>3, SMT DEF f
  <2>5. QED
    BY <2>1, <2>4, SMT DEF f
<1>12. ASSUME a[2] # 0 PROVE Peek(neMem', seg_base(a[2]) + a[3], 2) = <<0, 0>>
  <2> HIDE DEF a, b
  <2>1. FarAddress(a) = seg_base(a[2]) + a[3]
    BY <1>12, SMT DEF FarAddress
  <2> DEFINE f == FarAddress(a)
             g == FarAddress(b)
  <2>2. f \in Nat /\ Byte(m, f) = 0 /\ Byte(m, f + 1) = 0
    BY <1>2, <1>12, ZeroStored, SMT
  <2>3. g \in Nat
    BY <1>2, FarAddresses, SMT
  <2>4. neMem' = Store(m, g, 0)
    BY <1>8, SMT
  <2> HIDE DEF f, g, m
  <2>5. Byte(Store(m, g, 0), f) = 0 /\ Byte(Store(m, g, 0), f + 1) = 0
    <3>1. f \in Int /\ f + 1 \in Int
      BY <2>2, SMT
    <3>2. QED
      BY <2>2, <2>3, <3>1, ZeroStays, SMT
  <2>6. Peek(neMem', f, 2) = <<Byte(neMem', f), Byte(neMem', f + 1)>>
    BY <2>2, Peeked, SMT
  <2>7. Peek(neMem', f, 2) = <<0, 0>>
    BY <2>4, <2>5, <2>6, SMT
  <2>8. QED
    BY <2>1, <2>7, SMT DEF f
<1>13. ASSUME NEW k \in 1 .. 2, c.args[k][2] # 0
       PROVE  Peek(neMem', seg_base(c.args[k][2]) + c.args[k][3], 2) = <<0, 0>>
  <2>1. CASE k = 1
    BY <1>12, <1>13, <2>1, SMT
  <2>2. CASE k = 2
    BY <1>11, <1>13, <2>2, SMT
  <2>3. QED
    BY <2>1, <2>2, SMT
<1>14. QED
  BY <1>9, <1>10, <1>13, SMT

\* VioWrtTTY.
LEMMA TtyReturns ==
  ASSUME NeInv, neAt = "called", NeReturns, neCall.call.ordinal = 5139
  PROVE  /\ regs' = neCall.regs /\ neAt' = "runs"
         /\ neOut' = <<"text", Peek(neMem', seg_base(neCall.call.args[1][2]) + neCall.call.args[1][3],
                                    neCall.call.args[2][2])>>
<1> DEFINE c == neCall.call
           r == neCall.regs
           w == CallWords(c, r)
           a == c.args[1]
           len == c.args[2][2]
<1>1. /\ c \in NeArguments /\ r.cs \in Word16 /\ r.ip \in Word16 /\ NeGdt
      /\ neMem' = handle_ne_api_call(5139).mem /\ neOut' = handle_ne_api_call(5139).out
      /\ neAt' = IF neOut'[1] = "exit" THEN "ended" ELSE "runs"
  BY InCall, SMT
<1>2. /\ DOMAIN c.args = 1 .. 3 /\ IsArgument(a, "far")
      /\ IsArgument(c.args[2], "word") /\ IsArgument(c.args[3], "word")
  BY <1>1, CallArguments, SMT
<1>3. /\ Len(w) = 6 /\ WordSeq(w, 6) /\ w[1] = Selector(a) /\ w[2] = a[3] /\ w[3] = len
      /\ w[5] = r.cs /\ w[6] = r.ip
  BY <1>1, <1>2, TtyWords, SMT
<1>4. PICK n \in Nat : n = 6
  BY SMT
<1> HIDE DEF w
<1>5. /\ n <= 8 /\ n >= 2 /\ Len(w) = n /\ WordSeq(w, n) /\ w[n - 1] = r.cs /\ w[n] = r.ip
      /\ w = CallWords(c, r) /\ ne_api_arg_bytes(c.ordinal) = 2 * (n - 2)
  BY <1>3, <1>4, Handled, SMT DEF w
<1>6. read_arg16(4 + 2) = Selector(a) /\ read_arg16(4) = a[3] /\ read_arg16(2) = len
  <2>1. ReadsWords(w, n)
    BY <1>5, CallReads, SMT
  <2>2. /\ 1 \in 1 .. n - 2 /\ 4 + 2 \in Int /\ 4 + 2 = 2 * (n - 2 - 1)
        /\ 2 \in 1 .. n - 2 /\ 4 \in Int /\ 4 = 2 * (n - 2 - 2)
        /\ 3 \in 1 .. n - 2 /\ 2 \in Int /\ 2 = 2 * (n - 2 - 3)
    BY <1>4, SMT
  <2>3. read_arg16(4 + 2) = w[1] /\ read_arg16(4) = w[2] /\ read_arg16(2) = w[3]
    <3>1. read_arg16(4 + 2) = w[1]
      BY <2>1, <2>2, SMT DEF ReadsWords
    <3>2. read_arg16(4) = w[2]
      BY <2>1, <2>2, SMT DEF ReadsWords
    <3>3. read_arg16(2) = w[3]
      BY <2>1, <2>2, SMT DEF ReadsWords
    <3>4. QED
      BY <3>1, <3>2, <3>3, SMT
  <2>4. QED
    BY <1>3, <2>3, SMT
<1>7. read_far_ptr(4) = FarAddress(a)
  <2>1. 4 \in Int
    BY SMT
  <2> HIDE DEF a
  <2>2. QED
    BY <1>1, <1>2, <1>6, <2>1, FarReads, SMT
<1>8. FarAddress(a) = seg_base(a[2]) + a[3]
  BY <1>1, ResultsApart, SMT DEF FarAddress
<1>9. neMem' = neMem /\ neOut' = <<"text", Peek(neMem, FarAddress(a), len)>>
  BY <1>1, <1>6, <1>7, Handled, SMT
<1>10. regs' = r
  <2>1. \A x \in CallFrame(neProgram) : Byte(neMem', x) = Byte(neMem, x)
    BY <1>9, SMT
  <2>2. QED
    BY <1>5, <2>1, CallPops, SMT
<1>11. neAt' = "runs"
  BY <1>1, <1>9, SMT
<1>12. QED
  BY <1>8, <1>9, <1>10, <1>11, SMT

\* DosWrite to the screen or to another handle.
LEMMA WriteReturns ==
  ASSUME NeInv, neAt = "called", NeReturns, neCall.call.ordinal = 138,
         NEW args, args = neCall.call.args
  PROVE  /\ regs' = neCall.regs /\ neAt' = "runs"
         /\ IF args[1][2] \in {1, 2}
            THEN /\ neOut' = <<"text", Peek(neMem', seg_base(args[2][2]) + args[2][3], args[3][2])>>
                 /\ args[4][2] # 0 =>
                      FromLE(Peek(neMem', seg_base(args[4][2]) + args[4][3], 2)) = args[3][2]
            ELSE neOut' = <<"error">>
<1> DEFINE c == neCall.call
           r == neCall.regs
           w == CallWords(c, r)
           a == args[2]
           b == args[4]
           len == args[3][2]
           p == neProgram
<1>1. /\ c \in NeArguments /\ r.cs \in Word16 /\ r.ip \in Word16 /\ p \in NePrograms /\ NeGdt
      /\ neMem' = handle_ne_api_call(138).mem /\ neOut' = handle_ne_api_call(138).out
      /\ neAt' = IF neOut'[1] = "exit" THEN "ended" ELSE "runs"
  BY InCall, SMT
<1>2. /\ DOMAIN c.args = 1 .. 4 /\ IsArgument(c.args[1], "word") /\ IsArgument(c.args[2], "far")
      /\ IsArgument(c.args[3], "word") /\ IsArgument(c.args[4], "far")
  BY <1>1, CallArguments, SMT
<1>3. /\ Len(w) = 8 /\ WordSeq(w, 8) /\ w[1] = args[1][2] /\ w[2] = Selector(a) /\ w[3] = a[3]
      /\ w[4] = len /\ w[5] = Selector(b) /\ w[6] = b[3] /\ w[7] = r.cs /\ w[8] = r.ip
  BY <1>1, <1>2, WriteWords, SMT
<1>4. PICK n \in Nat : n = 8
  BY SMT
<1> HIDE DEF w
<1>5. /\ n <= 8 /\ n >= 2 /\ Len(w) = n /\ WordSeq(w, n) /\ w[n - 1] = r.cs /\ w[n] = r.ip
      /\ w = CallWords(c, r) /\ ne_api_arg_bytes(c.ordinal) = 2 * (n - 2)
  BY <1>3, <1>4, Handled, SMT DEF w
<1>6. /\ read_arg16(10) = args[1][2]
      /\ read_arg16(6 + 2) = Selector(a) /\ read_arg16(6) = a[3] /\ read_arg16(4) = len
      /\ read_arg16(0 + 2) = Selector(b) /\ read_arg16(0) = b[3]
  <2>1. ReadsWords(w, n)
    BY <1>5, CallReads, SMT
  <2>2. /\ 1 \in 1 .. n - 2 /\ 10 \in Int /\ 10 = 2 * (n - 2 - 1)
        /\ 2 \in 1 .. n - 2 /\ 6 + 2 \in Int /\ 6 + 2 = 2 * (n - 2 - 2)
        /\ 3 \in 1 .. n - 2 /\ 6 \in Int /\ 6 = 2 * (n - 2 - 3)
        /\ 4 \in 1 .. n - 2 /\ 4 \in Int /\ 4 = 2 * (n - 2 - 4)
    BY <1>4, SMT
  <2>3. /\ 5 \in 1 .. n - 2 /\ 0 + 2 \in Int /\ 0 + 2 = 2 * (n - 2 - 5)
        /\ 6 \in 1 .. n - 2 /\ 0 \in Int /\ 0 = 2 * (n - 2 - 6)
    BY <1>4, SMT
  <2>4. read_arg16(10) = w[1] /\ read_arg16(6 + 2) = w[2] /\ read_arg16(6) = w[3] /\ read_arg16(4) = w[4]
    BY <2>1, <2>2, SMT DEF ReadsWords
  <2>5. read_arg16(0 + 2) = w[5] /\ read_arg16(0) = w[6]
    BY <2>1, <2>3, SMT DEF ReadsWords
  <2>6. QED
    BY <1>3, <2>4, <2>5, SMT
<1>7. IsArgument(a, "far") /\ IsArgument(b, "far") /\ len \in Word16
  BY <1>2, SMT DEF IsArgument
<1> HIDE DEF a, b, len
<1>8. read_far_ptr(6) = FarAddress(a) /\ read_far_ptr(0) = FarAddress(b)
  <2>1. 6 \in Int /\ 0 \in Int
    BY SMT
  <2>2. read_far_ptr(6) = FarAddress(a)
    BY <1>1, <1>6, <1>7, <2>1, FarReads, SMT
  <2>3. read_far_ptr(0) = FarAddress(b)
    BY <1>1, <1>6, <1>7, <2>1, FarReads, SMT
  <2>4. QED
    BY <2>2, <2>3, SMT
<1>9. CASE args[1][2] \notin {1, 2}
  <2>1. neMem' = neMem /\ neOut' = <<"error">>
    BY <1>1, <1>6, <1>9, Handled, SMT
  <2>2. \A x \in CallFrame(neProgram) : Byte(neMem', x) = Byte(neMem, x)
    BY <2>1, SMT
  <2>3. regs' = r
    BY <1>5, <2>2, CallPops, SMT
  <2>4. QED
    BY <1>1, <1>9, <2>1, <2>3, SMT
<1>10. CASE args[1][2] \in {1, 2}
  <2>1. neMem' = Store(neMem, FarAddress(b), len) /\ neOut' = <<"text", Peek(neMem, FarAddress(a), len)>>
    BY <1>1, <1>6, <1>8, <1>10, Handled, SMT
  <2>2. Results(c) = {4}
    BY SMT DEF Results
  <2>3. /\ BufferBytes(b, 2) \cap CallFrame(p) = {}
        /\ a[2] # 0 /\ BufferBytes(b, 2) \cap BufferBytes(a, len) = {}
    BY <1>1, <2>2, ResultsApart, SMT DEF a, b, len
  <2>4. \A x \in CallFrame(p) : x \in Int /\ x >= 1048576
    BY InCall, SMT
  <2>5. \A x \in CallFrame(p) : Byte(Store(neMem, FarAddress(b), len), x) = Byte(neMem, x)
    BY <1>7, <2>3, <2>4, FrameKept, SMT
  <2>6. \A x \in CallFrame(neProgram) : Byte(neMem', x) = Byte(neMem, x)
    BY <2>1, <2>5, SMT
  <2>7. regs' = r
    BY <1>5, <2>6, CallPops, SMT
  <2> DEFINE f == FarAddress(a)
  <2>8. f \in Nat /\ f >= 1048576 /\ f = seg_base(a[2]) + a[3] /\ BufferBytes(a, len) = f .. f + len - 1
    <3>1. f \in Nat /\ f >= 1048576 /\ f = seg_base(a[2]) + a[3]
      BY <1>7, <2>3, FarAddresses, SMT
    <3>2. QED
      BY <2>3, <3>1, SMT DEF BufferBytes
  <2>9. len \in Nat
    BY <1>7, Words16, SMT
  <2> HIDE DEF f
  <2>10. ASSUME NEW x \in f .. f + len - 1 PROVE Byte(neMem', x) = Byte(neMem, x)
    <3>1. x \in Int /\ x >= 1048576
      BY <2>8, <2>9, SMT
    <3>2. x \notin BufferBytes(b, 2)
      BY <2>3, <2>8, <2>10, SMT
    <3>3. QED
      BY <1>7, <2>1, <3>1, <3>2, StoreElsewhere, SMT
  <2>11. Peek(neMem', f, len) = Peek(neMem, f, len)
    BY <2>8, <2>9, <2>10, SameRead, SMT
  <2>12. neOut' = <<"text", Peek(neMem', seg_base(a[2]) + a[3], len)>>
    BY <2>1, <2>8, <2>11, SMT DEF f
  <2>13. ASSUME b[2] # 0 PROVE FromLE(Peek(neMem', seg_base(b[2]) + b[3], 2)) = len
    <3>1. Lies(neMem', FarAddress(b), len)
      BY <1>7, <2>1, <2>13, StoredLies, SMT
    <3>2. FarAddress(b) \in Int /\ FarAddress(b) = seg_base(b[2]) + b[3]
      BY <1>7, <2>13, FarAddresses, SMT
    <3>3. FromLE(Peek(neMem', FarAddress(b), 2)) = len
      BY <1>7, <3>1, <3>2, WordRead, SMT
    <3>4. QED
      BY <3>2, <3>3, SMT
  <2>14. neAt' = "runs"
    BY <1>1, <2>12, SMT
  <2>15. QED
    BY <1>10, <2>7, <2>12, <2>13, <2>14, SMT DEF a, b, len
<1>11. QED
  BY <1>9, <1>10, SMT

\* A call that ends keeps what holds between the steps.
LEMMA CallEnds ==
  ASSUME NeInv, NeReturns
  PROVE  NeInv' /\ regs' = neCall.regs
<1> DEFINE c == neCall.call
           p == neProgram
<1>1. neAt = "called" /\ NeHeader /\ NeGdt /\ p \in NePrograms /\ c \in NeArguments /\ StartRegs(neCall.regs, p)
  <2>1. neAt = "called"
    BY SMT DEF NeReturns
  <2>2. QED
    BY <2>1, SMT DEF NeInv, NeInCall, NeBefore
<1>2. UNCHANGED <<neProgram, ne, gdt, neCall>>
  BY SMT DEF NeReturns
<1>3. c.ordinal \in {5, 94, 138, 5139}
  BY <1>1, CallArguments, SMT
<1>4. 5120 + 19 = 5139
  BY SMT
<1>5. regs' = neCall.regs /\ neAt' \in {"runs", "ended"} /\ NeCallsReturn'
  <2>1. CASE c.ordinal = 5
    BY <1>1, <1>2, <1>4, <2>1, ExitReturns, SMT DEF NeCallsReturn, Buffer
  <2>2. CASE c.ordinal = 94
    BY <1>1, <1>2, <1>4, <2>2, EnvReturns, SMT DEF NeCallsReturn, Buffer
  <2>3. CASE c.ordinal = 138
    BY <1>1, <1>2, <1>4, <2>3, WriteReturns, SMT DEF NeCallsReturn, Buffer
  <2>4. CASE c.ordinal = 5139
    BY <1>1, <1>2, <1>4, <2>4, TtyReturns, SMT DEF NeCallsReturn, Buffer
  <2>5. QED
    BY <1>3, <2>1, <2>2, <2>3, <2>4, SMT
<1>6. NeHeader' /\ NeGdt' /\ StartRegs(regs', p)
  <2>1. NeHeader' /\ NeGdt'
    BY <1>1, <1>2, <1>5, SMT DEF NeHeader, NeGdt
  <2>2. QED
    BY <1>1, <1>5, <2>1, SMT
<1>7. QED
  BY <1>1, <1>2, <1>5, <1>6, SMT DEF NeInv, NeBefore

\* Before the program runs there is no call.
LEMMA Unstarted ==
  ASSUME NeInv, neAt \in NeBefore, neAt' \in NeBefore, NeHeader', UNCHANGED <<neProgram, neCall>>
  PROVE  NeInv'
<1>1. neCall' = <<>> /\ neProgram' \in NePrograms
  BY SMT DEF NeInv
<1>2. NeCallsReturn'
  BY <1>1, SMT DEF NeCallsReturn
<1>3. neAt' \notin {"runs", "called", "ended"}
  BY SMT DEF NeBefore
<1>4. QED
  BY <1>1, <1>2, <1>3, SMT DEF NeInv

\* The parser keeps the segment table, or refuses the file.
LEMMA ParseStarts ==
  ASSUME NeInv, NeParse
  PROVE  NeInv' /\ neAt' \in NeBefore
<1> DEFINE p == neProgram
           S == [k \in DOMAIN p.segments |-> segment_entry(k)]
<1>1. neAt = "parse" /\ UNCHANGED <<neProgram, neCall>>
  BY SMT DEF NeParse
<1>2. CASE Len(p.segments) > 255
  <2>1. neAt' = "failed"
    BY <1>2, SMT DEF NeParse
  <2>2. NeHeader'
    BY <2>1, SMT DEF NeHeader
  <2>3. QED
    BY <1>1, <2>1, <2>2, Unstarted, SMT DEF NeBefore
<1>3. CASE ~(Len(p.segments) > 255)
  <2>1. /\ ne' = [segments |-> S, modules |-> p.modules, entries |-> <<>>, relocations |-> <<>>]
        /\ neAt' = "entries"
    BY <1>3, SMT DEF NeParse
  <2>2. /\ DOMAIN S = DOMAIN p.segments
        /\ \A k \in DOMAIN p.segments : /\ S[k].min_alloc = p.segments[k].alloc % 65536
                                         /\ S[k].code = p.segments[k].code
    <3>1. \A k : segment_entry(k).min_alloc = p.segments[k].alloc % 65536 /\ segment_entry(k).code = p.segments[k].code
      BY SMT DEF segment_entry
    <3>2. DOMAIN S = DOMAIN p.segments /\ \A k \in DOMAIN p.segments : S[k] = segment_entry(k)
      BY Zenon
    <3> HIDE DEF S
    <3>3. QED
      BY <3>1, <3>2, SMT
  <2>3. Len(p.segments) <= 255
    <3>1. p \in NePrograms
      BY SMT DEF NeInv
    <3>2. p.segments \in Seq(Range(p.segments))
      BY <3>1, NeAssumption, SMT
    <3>3. Len(p.segments) \in Nat
      BY <3>2, SMT
    <3>4. QED
      BY <1>3, <3>3, SMT
  <2> HIDE DEF S
  <2>4. ne' = [segments |-> ne'.segments, modules |-> ne'.modules, entries |-> ne'.entries,
               relocations |-> ne'.relocations] /\ ne'.segments = S
    BY <2>1, SMT
  <2>5. NeHeader'
    BY <1>1, <2>2, <2>3, <2>4, SMT DEF NeHeader
  <2>6. QED
    BY <1>1, <2>1, <2>5, Unstarted, SMT DEF NeBefore
<1>4. QED
  BY <1>2, <1>3, SMT

\* The reader of the entry table and of the relocations change only those fields.
LEMMA FieldsKept ==
  ASSUME NEW n, NEW m, NEW x,
         n = [segments |-> n.segments, modules |-> n.modules, entries |-> n.entries, relocations |-> n.relocations],
         m = [n EXCEPT !.entries = x] \/ m = [n EXCEPT !.relocations = x] \/ m = n
  PROVE  /\ m.segments = n.segments
         /\ m = [segments |-> m.segments, modules |-> m.modules, entries |-> m.entries, relocations |-> m.relocations]
<1>1. CASE m = [n EXCEPT !.entries = x]
  <2>1. m = [segments |-> n.segments, modules |-> n.modules, entries |-> x, relocations |-> n.relocations]
    BY <1>1, Zenon
  <2>2. QED
    BY <2>1, SMT
<1>2. CASE m = [n EXCEPT !.relocations = x]
  <2>1. m = [segments |-> n.segments, modules |-> n.modules, entries |-> n.entries, relocations |-> x]
    BY <1>2, Zenon
  <2>2. QED
    BY <2>1, SMT
<1>3. CASE m = n
  BY <1>3, SMT
<1>4. QED
  BY <1>1, <1>2, <1>3, SMT

\* The other steps of the parser and the loader.
LEMMA Quiet ==
  ASSUME NeInv,
         NeReadBundle \/ NeReadRelocations \/ NeLoadSegment \/ SkipOsFixup \/ PatchPlace \/ NextSegment
  PROVE  NeInv' /\ neAt' \in NeBefore
<1>1. /\ neAt \in {"entries", "relocations", "load", "fixups"}
      /\ neAt' \in {"entries", "relocations", "load", "fixups"}
      /\ UNCHANGED <<neProgram, neCall>>
  <2>1. CASE NeReadBundle
    BY <2>1, Zenon DEF NeReadBundle
  <2>2. CASE NeReadRelocations
    BY <2>2, Zenon DEF NeReadRelocations
  <2>3. CASE NeLoadSegment
    BY <2>3, SMT DEF NeLoadSegment
  <2>4. CASE SkipOsFixup
    BY <2>4, SMT DEF SkipOsFixup, AtRelocation
  <2>5. CASE PatchPlace
    BY <2>5, SMT DEF PatchPlace, AtRelocation
  <2>6. CASE NextSegment
    BY <2>6, SMT DEF NextSegment
  <2>7. QED
    BY <2>1, <2>2, <2>3, <2>4, <2>5, <2>6
<1>2. \E x : ne' = [ne EXCEPT !.entries = x] \/ ne' = [ne EXCEPT !.relocations = x] \/ ne' = ne
  <2>1. CASE NeReadBundle
    BY <2>1, Zenon DEF NeReadBundle
  <2>2. CASE NeReadRelocations
    BY <2>2, Zenon DEF NeReadRelocations
  <2>3. CASE NeLoadSegment \/ SkipOsFixup \/ PatchPlace \/ NextSegment
    BY <2>3, SMT DEF NeLoadSegment, SkipOsFixup, PatchPlace, NextSegment
  <2>7. QED
    BY <2>1, <2>2, <2>3
<1>3. NeHeader'
  <2>1. PICK x : ne' = [ne EXCEPT !.entries = x] \/ ne' = [ne EXCEPT !.relocations = x] \/ ne' = ne
    BY <1>2, Zenon
  <2>2. /\ Len(neProgram.segments) <= 255
        /\ ne = [segments |-> ne.segments, modules |-> ne.modules, entries |-> ne.entries,
                 relocations |-> ne.relocations]
        /\ DOMAIN ne.segments = DOMAIN neProgram.segments
        /\ \A k \in DOMAIN neProgram.segments :
             /\ ne.segments[k].min_alloc = neProgram.segments[k].alloc % 65536
             /\ ne.segments[k].code = neProgram.segments[k].code
    BY <1>1, SMT DEF NeInv, NeHeader
  <2>3. /\ ne'.segments = ne.segments
        /\ ne' = [segments |-> ne'.segments, modules |-> ne'.modules, entries |-> ne'.entries,
                  relocations |-> ne'.relocations]
    BY <2>1, <2>2, FieldsKept, SMT
  <2>4. QED
    BY <1>1, <2>2, <2>3, SMT DEF NeHeader
<1>4. QED
  BY <1>1, <1>3, Unstarted, SMT DEF NeBefore

\* setup_guest_ne writes the entries of the segments and no others.
LEMMA EntryWritten ==
  ASSUME NeInv, SetupGuestNe, NEW N \in Nat, N <= 255, DOMAIN neProgram.segments = 1 .. N
  PROVE  /\ \A i \in DOMAIN gdt' : i \in Nat /\ i >= 22 /\ i <= 21 + N
         /\ \A n \in 1 .. N :
              /\ 21 + n \in DOMAIN gdt'
              /\ gdt'[21 + n] = make_gdt_entry(seg_base(n), neProgram.segments[n].alloc - 1,
                                               IF neProgram.segments[n].code THEN 155 ELSE 211, 0)
<1> DEFINE p == neProgram
           D == {seg_selector(k) \div 8 : k \in DOMAIN ne.segments}
           Which(i) == CHOOSE k \in DOMAIN ne.segments : seg_selector(k) \div 8 = i
           Limit(k) == actual_min_alloc(ne.segments[k]) - 1
           Access(k) == IF ne.segments[k].code THEN 155 ELSE 211
<1>1. gdt' = [i \in D |-> make_gdt_entry(seg_base(Which(i)), Limit(Which(i)), Access(Which(i)), 0)]
  BY SMT DEF SetupGuestNe
<1>2. /\ p \in NePrograms /\ Len(p.segments) <= 255 /\ DOMAIN ne.segments = DOMAIN p.segments
      /\ \A k \in DOMAIN p.segments : /\ ne.segments[k].min_alloc = p.segments[k].alloc % 65536
                                        /\ ne.segments[k].code = p.segments[k].code
  <2>1. neAt = "fixups"
    BY SMT DEF SetupGuestNe
  <2>2. QED
    BY <2>1, SMT DEF NeInv, NeHeader
<1>3. N <= 255 /\ DOMAIN ne.segments = 1 .. N
  BY <1>2, SMT
<1>4. \A k \in 1 .. N : k \in Nat /\ k >= 1 /\ k <= 255 /\ seg_selector(k) \div 8 = 21 + k
  <2>1. \A k \in 1 .. N : k \in Nat /\ k >= 1 /\ k <= 255
    BY <1>3, SMT
  <2>2. QED
    BY <2>1, SegmentSelector, SMT
<1>5. ASSUME NEW k \in 1 .. N
      PROVE  Limit(k) = p.segments[k].alloc - 1 /\ Access(k) = IF p.segments[k].code THEN 155 ELSE 211
  <2> DEFINE a == p.segments[k].alloc
             m == ne.segments[k].min_alloc
  <2>1. a \in Nat /\ a >= 1 /\ a <= 65536 /\ m = a % 65536 /\ ne.segments[k].code = p.segments[k].code
    <3>1. k \in DOMAIN p.segments
      BY <1>2, <1>3, <1>5, SMT
    <3>2. \A j \in DOMAIN p.segments : /\ p.segments[j].alloc \in Nat /\ p.segments[j].alloc >= 1
                                        /\ p.segments[j].alloc <= 65536
      BY <1>2, ProgramStack, SMT
    <3>3. QED
      BY <1>2, <3>1, <3>2, SMT
  <2>2. Limit(k) = (IF m = 0 THEN 65536 ELSE m) - 1
    BY SMT DEF actual_min_alloc
  <2>3. Access(k) = IF p.segments[k].code THEN 155 ELSE 211
    BY <2>1, SMT
  <2> HIDE DEF Limit, Access, a, m
  <2>4. (IF m = 0 THEN 65536 ELSE m) = a
    <3>1. CASE a = 65536
      BY <2>1, <3>1, SMT
    <3>2. CASE a < 65536
      BY <2>1, <3>2, SMT
    <3>3. QED
      BY <2>1, <3>1, <3>2, SMT
  <2>5. QED
    BY <2>2, <2>3, <2>4, SMT DEF a
<1> HIDE DEF Limit, Access
<1>6. ASSUME NEW i \in DOMAIN gdt' PROVE i \in Nat /\ i >= 22 /\ i <= 21 + N
  <2>1. i \in D
    BY <1>1, <1>6, Zenon
  <2>2. PICK k \in 1 .. N : seg_selector(k) \div 8 = i
    BY <1>3, <2>1, SMT
  <2>3. k \in Nat /\ k >= 1 /\ k <= N /\ i = 21 + k
    BY <1>4, <2>2, SMT
  <2>4. QED
    BY <2>3, SMT
<1>7. ASSUME NEW n \in 1 .. N
      PROVE  /\ 21 + n \in DOMAIN gdt'
             /\ gdt'[21 + n] = make_gdt_entry(seg_base(n), p.segments[n].alloc - 1,
                                              IF p.segments[n].code THEN 155 ELSE 211, 0)
  <2>1. 21 + n \in D
    BY <1>3, <1>4, <1>7, SMT
  <2>2. Which(21 + n) = n
    <3>1. \E k \in DOMAIN ne.segments : seg_selector(k) \div 8 = 21 + n
      BY <1>3, <1>4, <1>7, SMT
    <3>2. Which(21 + n) \in DOMAIN ne.segments /\ seg_selector(Which(21 + n)) \div 8 = 21 + n
      BY <3>1, Zenon
    <3> HIDE DEF Which
    <3>3. Which(21 + n) \in 1 .. N
      BY <1>3, <3>2, SMT
    <3>4. 21 + Which(21 + n) = 21 + n /\ Which(21 + n) \in Nat
      BY <1>4, <3>2, <3>3, SMT
    <3>5. QED
      BY <1>7, <3>4, SMT
  <2> HIDE DEF D, Which
  <2>3. gdt'[21 + n] = make_gdt_entry(seg_base(n), Limit(n), Access(n), 0) /\ 21 + n \in DOMAIN gdt'
    BY <1>1, <2>1, <2>2, SMT
  <2>4. QED
    BY <1>5, <2>3, SMT
<1>8. QED
  BY <1>6, <1>7, SMT

\* The segments of a program that was read.
LEMMA SegmentCount ==
  ASSUME NeInv, SetupGuestNe
  PROVE  /\ neProgram \in NePrograms /\ Len(neProgram.segments) <= 255
         /\ \E N \in Nat : N <= 255 /\ DOMAIN neProgram.segments = 1 .. N
<1>1. neAt = "fixups"
  BY SMT DEF SetupGuestNe
<1>2. neProgram \in NePrograms /\ Len(neProgram.segments) <= 255
  BY <1>1, SMT DEF NeInv, NeHeader
<1>3. DOMAIN neProgram.segments = 1 .. Len(neProgram.segments) /\ Len(neProgram.segments) \in Nat
  BY <1>2, ProgramStack, SMT
<1>4. QED
  BY <1>2, <1>3, SMT

\* What the descriptor of a segment says.
LEMMA SegmentDescribed ==
  ASSUME NeInv, SetupGuestNe, NEW n \in DOMAIN neProgram.segments
  PROVE  /\ gdt_entry_base(gdt', seg_selector(n)) = seg_base(n)
         /\ gdt_entry_limit(gdt', seg_selector(n)) = neProgram.segments[n].alloc - 1
         /\ Executable(gdt', seg_selector(n)) = neProgram.segments[n].code
<1> DEFINE seg == neProgram.segments[n]
           access == IF seg.code THEN 155 ELSE 211
           e == gdt'[21 + n]
<1>1. PICK N \in Nat : N <= 255 /\ DOMAIN neProgram.segments = 1 .. N
  BY SegmentCount, SMT
<1>2. n \in Nat /\ n >= 1 /\ n <= 255
  BY <1>1, SMT
<1>3. 21 + n \in DOMAIN gdt' /\ e = make_gdt_entry(seg_base(n), seg.alloc - 1, access, 0)
  BY <1>1, EntryWritten, SMT
<1>4. seg_selector(n) \div 8 = 21 + n /\ seg_base(n) \in Nat
  BY <1>2, SegmentSelector, SMT
<1>5. seg.alloc - 1 \in Nat /\ seg.alloc - 1 < 1048576 /\ seg.code \in BOOLEAN
  <2>1. neProgram \in NePrograms /\ Len(neProgram.segments) <= 255
    BY SegmentCount, SMT
  <2>2. seg.alloc \in Nat /\ seg.alloc >= 1 /\ seg.alloc <= 65536
    BY <2>1, ProgramStack, SMT
  <2>3. seg.code \in BOOLEAN
    BY <2>1, NeAssumption, SMT
  <2> HIDE DEF seg
  <2>4. QED
    BY <2>2, <2>3, SMT
<1> HIDE DEF seg, access
<1>6. Entry(gdt', seg_selector(n)) = e
  BY <1>3, <1>4, SMT DEF Entry
<1> HIDE DEF e
<1>7. /\ FromLE(SubSeq(e, 3, 5)) + e[8] * 2 ^ 24 = seg_base(n)
      /\ FromLE(SubSeq(e, 1, 2)) + (e[7] % 16) * 65536 = seg.alloc - 1
  BY <1>3, <1>4, <1>5, EntryDecodes, SMT
<1>8. e[6] = access
  BY <1>3, EntryBytes, SMT
<1>9. Executable(gdt', seg_selector(n)) = seg.code
  <2>1. (155 \div 8) % 2 = 1 /\ (211 \div 8) % 2 = 0
    BY SMT
  <2>2. CASE seg.code = TRUE
    <3>1. access = 155
      BY <2>2, Zenon DEF access
    <3>2. Executable(gdt', seg_selector(n)) = TRUE
      BY <1>6, <1>8, <2>1, <3>1, SMT DEF Executable, Bit
    <3>3. QED
      BY <2>2, <3>2, Zenon
  <2>3. CASE seg.code = FALSE
    <3>1. access = 211
      BY <2>3, Zenon DEF access
    <3>2. Executable(gdt', seg_selector(n)) = FALSE
      BY <1>6, <1>8, <2>1, <3>1, SMT DEF Executable, Bit
    <3>3. QED
      BY <2>3, <3>2, Zenon
  <2>4. seg.code \in BOOLEAN
    BY <1>5, SMT
  <2>5. QED
    BY <2>2, <2>3, <2>4, Zenon
<1>10. gdt_entry_base(gdt', seg_selector(n)) = seg_base(n) /\ gdt_entry_limit(gdt', seg_selector(n)) = seg.alloc - 1
  BY <1>6, <1>7, SMT DEF gdt_entry_base, gdt_entry_limit
<1>11. QED
  BY <1>9, <1>10, SMT DEF seg

\* Selectors name the segments they are of, null names address 0, and the thunk
\* tile can be executed.
LEMMA GdtSet ==
  ASSUME NeInv, SetupGuestNe
  PROVE  NeGdt'
<1>0. PICK N \in Nat : N <= 255 /\ DOMAIN neProgram.segments = 1 .. N
  BY SegmentCount, SMT
<1>1. N <= 255 /\ \A i \in DOMAIN gdt' : i \in Nat /\ i >= 22 /\ i <= 21 + N
  BY <1>0, EntryWritten, SMT
<1>2. ASSUME NEW n \in Nat, n >= 1, n <= 255 PROVE gdt_entry_base(gdt', seg_selector(n)) = seg_base(n)
  <2>1. seg_base(n) = (15 + n) * 65536 /\ seg_selector(n) = TileSelector(15 + n)
    BY <1>2, SegmentSelector, SMT
  <2>2. CASE n \in 1 .. N
    BY <1>0, <2>2, SegmentDescribed, SMT
  <2>3. CASE n \notin 1 .. N
    <3> DEFINE t == 15 + n
    <3>1. 21 + n \notin DOMAIN gdt'
      <4>1. ASSUME 21 + n \in DOMAIN gdt' PROVE FALSE
        <5>1. 21 + n >= 22 /\ 21 + n <= 21 + N
          BY <1>1, <4>1, SMT
        <5>2. n \in 1 .. N
          BY <5>1, SMT
        <5>3. QED
          BY <2>3, <5>2, SMT
      <4>2. QED
        BY <4>1, SMT
    <3>2. t \in Nat /\ t < 4096 /\ 6 + t = 21 + n
      BY <1>2, SMT
    <3> HIDE DEF t
    <3>3. 6 + t \notin DOMAIN gdt'
      BY <3>1, <3>2, SMT
    <3>4. gdt_entry_base(gdt', TileSelector(t)) = t * 65536
      BY <3>2, <3>3, TileBases, SMT
    <3>5. QED
      BY <2>1, <3>4, SMT DEF t
  <2>4. QED
    BY <2>2, <2>3, SMT
<1>3. gdt_entry_base(gdt', 0) = 0
  <2>1. 0 \notin DOMAIN gdt'
    BY <1>1, SMT
  <2>2. 0 \notin DOMAIN gdt' /\ 0 \div 8 = 0
    BY <2>1, SMT
  <2>3. setup_idt(0) = Zeros(8)
    <3> DEFINE i == 0
    <3>1. TILED_SEL_START_INDEX = 6 /\ TILED_CODE_START_INDEX = 4102 /\ GDT_ENTRY_COUNT = 6150
          /\ 4102 - 1 = 4101 /\ 6150 - 1 = 6149
      BY SMT DEF TILED_SEL_START_INDEX, TILED_CODE_START_INDEX, GDT_ENTRY_COUNT, NUM_TILES, NUM_CODE_TILES
    <3>2. i = 0 /\ i \notin {1, 2, 3, 4, 5} /\ i \notin 6 .. 4101 /\ i \notin 4102 .. 6149
      <4>1. i \notin 6 .. 4101
        BY SMT
      <4>2. i \notin 4102 .. 6149
        BY SMT
      <4>3. QED
        BY <4>1, <4>2, SMT
    <3> HIDE DEF i
    <3>3. setup_idt(i) = Zeros(8)
      BY <3>1, <3>2, SMT DEF setup_idt
    <3>4. QED
      BY <3>2, <3>3, SMT
  <2> DEFINE e == Zeros(8)
             s == SubSeq(e, 3, 5)
  <2>4. Entry(gdt', 0) = e
    BY <2>2, <2>3, SMT DEF Entry
  <2>5. e[8] = 0 /\ Len(s) = 3 /\ s[1] = 0 /\ s[2] = 0 /\ s[3] = 0
    BY SMT DEF Zeros
  <2> HIDE DEF s, e
  <2>6. FromLE(s) = 0
    BY <2>5, ThreeBytes, SMT
  <2>7. QED
    BY <2>4, <2>5, <2>6, SMT DEF gdt_entry_base, s
<1>4. gdt_entry_base(gdt', NE_THUNK_CODE_SELECTOR) = NE_THUNK_BASE
  <2> DEFINE t == 240
  <2>1. 4102 + t \notin DOMAIN gdt'
    <3>1. ASSUME 4102 + t \in DOMAIN gdt' PROVE FALSE
      <4>1. 4102 + t <= 21 + N
        BY <1>1, <3>1, SMT
      <4>2. QED
        BY <1>1, <4>1, SMT
    <3>2. QED
      BY <3>1, SMT
  <2>2. /\ t \in Nat /\ t < 2048 /\ NE_THUNK_BASE = t * 65536 /\ NE_THUNK_CODE_SELECTOR = (4102 + t) * 8
    BY SMT DEF NE_THUNK_BASE, TILE_SIZE, NE_THUNK_CODE_SELECTOR, TILED_CODE_START_INDEX,
               TILED_SEL_START_INDEX, NUM_TILES
  <2> HIDE DEF t
  <2>3. gdt_entry_base(gdt', (4102 + t) * 8) = t * 65536
    BY <2>1, <2>2, TileBases, SMT
  <2>4. QED
    BY <2>2, <2>3, SMT
<1>5. QED
  BY <1>2, <1>3, <1>4, SMT DEF NeGdt

\* setup_and_run_ne_cli: the registers a program starts with.
LEMMA RegistersSet ==
  ASSUME NeInv, SetupGuestNe
  PROVE  StartRegs(regs', neProgram)
<1> DEFINE p == neProgram
<1>1. /\ p \in NePrograms /\ Len(p.segments) <= 255
      /\ \A k \in DOMAIN p.segments : ne.segments[k].min_alloc = p.segments[k].alloc % 65536
  <2>1. neAt = "fixups"
    BY SMT DEF SetupGuestNe
  <2>2. QED
    BY <2>1, SMT DEF NeInv, NeHeader
<1>2. /\ p.ss \in Nat /\ p.ss >= 1 /\ p.ss <= 255 /\ p.ss \in DOMAIN p.segments
      /\ p.cs \in Nat /\ p.cs <= 255 /\ p.ip \in Word16
      /\ \A k \in DOMAIN p.segments : p.segments[k].alloc \in Nat
  BY <1>1, ProgramStack, SMT
<1> DEFINE ss == IF p.ss > 0 THEN seg_selector(p.ss) ELSE 16
           cs == IF p.cs > 0 THEN seg_selector(p.cs) ELSE 8
           sp == IF p.sp = 0 THEN actual_min_alloc(ne.segments[p.ss]) % 65536 ELSE p.sp
           ds == IF p.auto \in DOMAIN ne.segments THEN seg_selector(p.auto) ELSE ss
<1>3. regs' = [cs |-> cs, ip |-> p.ip, ss |-> ss, sp |-> sp, ds |-> ds]
  BY SMT DEF SetupGuestNe
<1>4. ss = seg_selector(p.ss)
  BY <1>2, SMT
<1>5. cs \in Word16
  <2>1. 8 \in Word16
    BY Words16, SMT
  <2>2. p.cs > 0 => seg_selector(p.cs) \in Word16
    BY <1>2, SegmentSelector, SMT
  <2>3. QED
    BY <2>1, <2>2, SMT
<1>6. sp = StartSp(p)
  <2> DEFINE a == p.segments[p.ss].alloc
             m == ne.segments[p.ss].min_alloc
  <2>1. a \in Nat /\ m = a % 65536
    BY <1>1, <1>2, SMT
  <2>2. m \in Nat /\ m < 65536
    <3> HIDE DEF a, m
    <3>1. QED
      BY <2>1, Division, SMT
  <2>3. actual_min_alloc(ne.segments[p.ss]) = IF m = 0 THEN 65536 ELSE m
    BY SMT DEF actual_min_alloc
  <2>4. StartSp(p) = IF p.sp = 0 THEN a % 65536 ELSE p.sp
    BY SMT DEF StartSp
  <2> HIDE DEF a, m
  <2>5. (IF m = 0 THEN 65536 ELSE m) % 65536 = m
    BY <2>2, SMT
  <2>6. QED
    BY <2>1, <2>3, <2>4, <2>5, SMT
<1> HIDE DEF ss, cs, sp, ds
<1>7. /\ regs' = [cs |-> regs'.cs, ip |-> regs'.ip, ss |-> regs'.ss, sp |-> regs'.sp, ds |-> regs'.ds]
      /\ regs'.cs = cs /\ regs'.ip = p.ip /\ regs'.ss = ss /\ regs'.sp = sp
  BY <1>3, SMT
<1>8. QED
  BY <1>2, <1>4, <1>5, <1>6, <1>7, SMT DEF StartRegs

\* The program starts with its registers and descriptors set.
LEMMA SetupStarts ==
  ASSUME NeInv, SetupGuestNe
  PROVE  NeInv'
<1>1. neAt = "fixups" /\ neAt' = "runs" /\ UNCHANGED <<neProgram, ne, neCall>>
  BY SMT DEF SetupGuestNe
<1>2. NeGdt' /\ StartRegs(regs', neProgram)
  BY GdtSet, RegistersSet, SMT
<1>3. neCall = <<>> /\ neProgram \in NePrograms /\ NeHeader
  BY <1>1, SMT DEF NeInv, NeBefore
<1>4. NeHeader'
  BY <1>1, <1>3, SMT DEF NeHeader
<1>5. NeCallsReturn'
  BY <1>1, <1>3, SMT DEF NeCallsReturn
<1>6. QED
  BY <1>1, <1>2, <1>3, <1>4, <1>5, SMT DEF NeInv, NeBefore

\* Steps of the other parts.
LEMMA NeStutter ==
  ASSUME NeInv, UNCHANGED neVars
  PROVE  NeInv'
<1>1. UNCHANGED <<neProgram, neAt, ne, neMem, gdt, regs, neCall, neOut>>
  BY SMT DEF neVars
<1>2. NeHeader' <=> NeHeader
  BY <1>1, SMT DEF NeHeader
<1>3. NeGdt' <=> NeGdt
  BY <1>1, SMT DEF NeGdt
<1>4. NeInCall' <=> NeInCall
  BY <1>1, SMT DEF NeInCall
<1>5. NeCallsReturn' <=> NeCallsReturn
  BY <1>1, SMT DEF NeCallsReturn, Buffer
<1>6. QED
  BY <1>1, <1>2, <1>3, <1>4, <1>5, SMT DEF NeInv

LEMMA NeStarts == LoadingInit => NeInv
<1> SUFFICES ASSUME NeInit PROVE NeInv
  BY DEF LoadingInit
<1>1. neProgram \in NePrograms /\ neAt = "parse" /\ neCall = <<>>
  BY DEF NeInit
<1>2. NeHeader /\ NeCallsReturn
  BY <1>1, SMT DEF NeHeader, NeCallsReturn
<1>3. QED
  BY <1>1, <1>2, SMT DEF NeInv, NeBefore

LEMMA NeStep == NeInv /\ [LoadingNext]_loadingVars => NeInv'
<1> SUFFICES ASSUME NeInv, [LoadingNext]_loadingVars PROVE NeInv'
  OBVIOUS
<1>1. CASE NeParse
  BY <1>1, ParseStarts
<1>2. CASE NeReadBundle \/ NeReadRelocations \/ NeLoadSegment \/ SkipOsFixup \/ PatchPlace \/ NextSegment
  BY <1>2, Quiet
<1>3. CASE SetupGuestNe
  BY <1>3, SetupStarts
<1>4. CASE \E c \in NeArguments : NeCalls(c)
  BY <1>4, CallStarts
<1>5. CASE NeReturns
  BY <1>5, CallEnds
<1>6. CASE UNCHANGED neVars
  BY <1>6, NeStutter
<1>7. QED
  BY <1>1, <1>2, <1>3, <1>4, <1>5, <1>6 DEF LoadingNext, loadingVars, NeNext

\* Every API call of a 16-bit program comes back to the caller with the stack it
\* had before the arguments were pushed, and did to the caller's buffers what was
\* asked: for any programs and calls that keep to NeAssumption, any segments and
\* any stack pointer, the wrap of a full stack segment included (run_vcpu,
\* handle_ne_api_call, ne_api_arg_bytes, setup_guest_ne).
THEOREM NeCallsSafe == LoadingSpec => []NeCallsReturn
<1>1. NeInv => NeCallsReturn
  BY DEF NeInv
<1>2. QED
  BY <1>1, NeStarts, NeStep, PTL DEF LoadingSpec

----------------------------------------------------------------------------
(* How a 16-bit program starts, and is between its calls.                  *)

\* The descriptors of the segments.
NeDescribed ==
  \A n \in DOMAIN neProgram.segments :
    /\ gdt_entry_base(gdt, seg_selector(n)) = seg_base(n)
    /\ gdt_entry_limit(gdt, seg_selector(n)) = neProgram.segments[n].alloc - 1
    /\ Executable(gdt, seg_selector(n)) = neProgram.segments[n].code

\* The registers hold the selectors of the segments that the header names.
LinkedRegs(r, p) ==
  /\ r.cs = seg_selector(p.cs) /\ r.ip = p.ip /\ r.ss = seg_selector(p.ss)
  /\ p.auto # 0 => r.ds = seg_selector(p.auto)

NeLinked ==
  /\ neAt \notin NeBefore => NeDescribed
  /\ neAt = "runs" => LinkedRegs(regs, neProgram)
  /\ neAt = "called" => LinkedRegs(neCall.regs, neProgram)

\* setup_guest_ne and setup_and_run_ne_cli.
LEMMA SetupLinks ==
  ASSUME NeInv, SetupGuestNe
  PROVE  NeLinked'
<1> DEFINE p == neProgram
           ss == IF p.ss > 0 THEN seg_selector(p.ss) ELSE 16
           cs == IF p.cs > 0 THEN seg_selector(p.cs) ELSE 8
           sp == IF p.sp = 0 THEN actual_min_alloc(ne.segments[p.ss]) % 65536 ELSE p.sp
           ds == IF p.auto \in DOMAIN ne.segments THEN seg_selector(p.auto) ELSE ss
<1>1. /\ neAt' = "runs" /\ neProgram' = neProgram
      /\ regs' = [cs |-> cs, ip |-> p.ip, ss |-> ss, sp |-> sp, ds |-> ds]
  BY SMT DEF SetupGuestNe
<1>2. p \in NePrograms /\ Len(p.segments) <= 255
  BY SegmentCount, SMT
<1>3. DOMAIN ne.segments = DOMAIN p.segments
  <2>1. neAt = "fixups"
    BY SMT DEF SetupGuestNe
  <2>2. QED
    BY <2>1, SMT DEF NeInv, NeHeader
<1>4. cs = seg_selector(p.cs) /\ ss = seg_selector(p.ss)
  BY <1>2, ProgramStack, SMT
<1>5. p.auto # 0 => ds = seg_selector(p.auto)
  <2>1. p.auto \in 0 .. Len(p.segments)
    BY <1>2, NeAssumption, SMT
  <2>2. DOMAIN p.segments = 1 .. Len(p.segments) /\ Len(p.segments) \in Nat
    BY <1>2, ProgramStack, SMT
  <2>3. ASSUME p.auto # 0 PROVE p.auto \in 1 .. Len(p.segments)
    BY <2>1, <2>2, <2>3, SMT
  <2>4. QED
    BY <1>3, <2>2, <2>3, SMT
<1> HIDE DEF ss, cs, sp, ds
<1>6. regs'.cs = cs /\ regs'.ip = p.ip /\ regs'.ss = ss /\ regs'.ds = ds
  BY <1>1, SMT
<1>7. LinkedRegs(regs', p)
  BY <1>4, <1>5, <1>6, SMT DEF LinkedRegs
<1>8. NeDescribed'
  BY <1>1, SegmentDescribed, SMT DEF NeDescribed
<1>9. QED
  BY <1>1, <1>7, <1>8, SMT DEF NeLinked

\* Calls and their returns leave the descriptors alone, and the registers as they were.
LEMMA LinkedStep ==
  ASSUME NeInv, NeLinked, [LoadingNext]_loadingVars
  PROVE  NeLinked'
<1>1. CASE NeParse
  <2>1. neAt' \in NeBefore
    BY <1>1, ParseStarts
  <2>2. QED
    BY <2>1, SMT DEF NeLinked, NeBefore
<1>2. CASE NeReadBundle \/ NeReadRelocations \/ NeLoadSegment \/ SkipOsFixup \/ PatchPlace \/ NextSegment
  <2>1. neAt' \in NeBefore
    BY <1>2, Quiet
  <2>2. QED
    BY <2>1, SMT DEF NeLinked, NeBefore
<1>3. CASE SetupGuestNe
  BY <1>3, SetupLinks
<1>4. CASE \E c \in NeArguments : NeCalls(c)
  <2>1. PICK c \in NeArguments : NeCalls(c)
    BY <1>4
  <2>2. /\ neAt = "runs" /\ neAt' = "called" /\ neCall' = [call |-> c, regs |-> regs]
        /\ gdt' = gdt /\ neProgram' = neProgram
    BY <2>1, SMT DEF NeCalls
  <2>3. neCall'.regs = regs /\ LinkedRegs(regs, neProgram) /\ NeDescribed
    BY <2>2, SMT DEF NeLinked, NeBefore
  <2>4. NeDescribed'
    BY <2>2, <2>3, SMT DEF NeDescribed
  <2>5. QED
    BY <2>2, <2>3, <2>4, SMT DEF NeLinked
<1>5. CASE NeReturns
  <2>1. regs' = neCall.regs
    BY <1>5, CallEnds
  <2>2. neAt = "called" /\ gdt' = gdt /\ neProgram' = neProgram
    BY <1>5, SMT DEF NeReturns
  <2>3. neAt' \in {"runs", "ended"}
    BY <1>5, SMT DEF NeReturns
  <2>4. LinkedRegs(neCall.regs, neProgram) /\ NeDescribed
    BY <2>2, SMT DEF NeLinked, NeBefore
  <2>5. NeDescribed'
    BY <2>2, <2>4, SMT DEF NeDescribed
  <2>6. QED
    BY <2>1, <2>2, <2>3, <2>4, <2>5, SMT DEF NeLinked
<1>6. CASE UNCHANGED neVars
  <2>1. neAt' = neAt /\ gdt' = gdt /\ regs' = regs /\ neCall' = neCall /\ neProgram' = neProgram
    BY <1>6, SMT DEF neVars
  <2>2. NeDescribed' <=> NeDescribed
    BY <2>1, SMT DEF NeDescribed
  <2>3. QED
    BY <2>1, <2>2, SMT DEF NeLinked
<1>7. QED
  BY <1>1, <1>2, <1>3, <1>4, <1>5, <1>6 DEF LoadingNext, loadingVars, NeNext

\* The part of NeLoadedAsLinked about the registers: a 16-bit program starts, and
\* is after each of its calls, at the entry point and with the stack and data
\* segments of its header, through descriptors that have the base, the limit
\* and the kind of the segments, also of one of 64 KB (setup_guest_ne,
\* setup_and_run_ne_cli).
THEOREM NeStartsSafe == LoadingSpec => [](neAt = "runs" => StartsAsLinked)
<1>1. LoadingInit => NeLinked
  <2> SUFFICES ASSUME NeInit PROVE NeLinked
    BY DEF LoadingInit
  <2>1. neAt = "parse"
    BY DEF NeInit
  <2>2. QED
    BY <2>1, SMT DEF NeLinked, NeBefore
<1>2. NeInv /\ NeLinked /\ [LoadingNext]_loadingVars => NeLinked'
  BY LinkedStep
<1>3. NeInv /\ NeLinked => (neAt = "runs" => StartsAsLinked)
  <2> SUFFICES ASSUME NeInv, NeLinked, neAt = "runs" PROVE StartsAsLinked
    OBVIOUS
  <2> DEFINE p == neProgram
  <2>1. NeDescribed /\ LinkedRegs(regs, p) /\ p \in NePrograms /\ Len(p.segments) <= 255
    BY SMT DEF NeInv, NeHeader, NeLinked, NeBefore
  <2>2. p.cs \in DOMAIN p.segments /\ p.ss \in DOMAIN p.segments
    BY <2>1, ProgramStack, SMT
  <2>3. Names(regs.cs, regs.ip, p.cs, p.ip)
    BY <2>1, <2>2, SMT DEF Names, NeDescribed, LinkedRegs
  <2>4. gdt_entry_base(gdt, regs.ss) = seg_base(p.ss)
    BY <2>1, <2>2, SMT DEF NeDescribed, LinkedRegs
  <2>5. ASSUME p.auto # 0 PROVE gdt_entry_base(gdt, regs.ds) = seg_base(p.auto)
    <3>1. p.auto \in 0 .. Len(p.segments)
      BY <2>1, NeAssumption, SMT
    <3>2. DOMAIN p.segments = 1 .. Len(p.segments) /\ Len(p.segments) \in Nat
      BY <2>1, ProgramStack, SMT
    <3>3. p.auto \in 1 .. Len(p.segments)
      BY <2>5, <3>1, <3>2, SMT
    <3>4. p.auto \in DOMAIN p.segments
      BY <3>2, <3>3, SMT
    <3>5. QED
      BY <2>1, <2>5, <3>4, SMT DEF NeDescribed, LinkedRegs
  <2>6. QED
    BY <2>3, <2>4, <2>5, SMT DEF StartsAsLinked
<1>4. LoadingInit => NeInv
  BY NeStarts
<1>5. NeInv /\ [LoadingNext]_loadingVars => NeInv'
  BY NeStep
<1>6. QED
  BY <1>1, <1>2, <1>3, <1>4, <1>5, PTL DEF LoadingSpec

=============================================================================
