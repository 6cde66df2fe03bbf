------------------------- MODULE ContainerRunProofs -------------------------
(***************************************************************************)
(* Proofs about ContainerRun, for every combination of its commands and    *)
(* any number of signals.                                                  *)
(*                                                                         *)
(* SuccessMeansEnded is about what Run has received; the invariant adds    *)
(* what is on the way: a goroutine about to send to "done", and a full     *)
(* buffer, both mean that the main process is reaped.  The type invariant  *)
(* needs that the signal handler has a process to send to and an error to  *)
(* report where its code uses them.                                        *)
(***************************************************************************)
EXTENDS ContainerRun, SequenceTheorems, TLAPS

\* A result on its way to Run stands for a main process that is reaped, and
\* there is none before the goroutines are started.
EndOnItsWay ==
    /\ waiter = "send" \/ done \/ run = "ok" => proc["main"] = "reaped"
    /\ run = "start" => waiter = "off" /\ ~done

\* The handler sends to a registered process and reports errors it has.
HandlerReady ==
    /\ handler.pc = "kill" => handler.todo # <<>>
    /\ handler.pc = "errors" /\ run # "failed" => handler.errs > 0

RunInv == TypeOK /\ EndOnItsWay /\ HandlerReady

LEMMA InitRunInv == Init => RunInv
<1> SUFFICES ASSUME Init PROVE RunInv
    OBVIOUS
<1>1. ProcessTypeOK
    BY ConstantsAssumption DEF Init, ProcessTypeOK
<1>2. GoroutineTypeOK
    BY DEF Init, GoroutineTypeOK
<1>3. SharedTypeOK
    <2>1. lock \in BOOLEAN /\ done \in BOOLEAN /\ expired \in BOOLEAN
        BY Zenon DEF Init
    <2>2. registry \in Seq(Processes) /\ sigs \in Seq({"TERM", "CHLD"}) /\ Len(sigs) <= 1
        BY DEF Init
    <2> QED BY <2>1, <2>2 DEF SharedTypeOK
<1> QED BY <1>1, <1>2, <1>3 DEF Init, RunInv, TypeOK, EndOnItsWay, HandlerReady

LEMMA RunStepInv == RunInv /\ RunStep => RunInv'
<1> SUFFICES ASSUME RunInv, RunStep PROVE RunInv'
    OBVIOUS
<1> USE DEF RunInv, TypeOK
<1>1. CASE RunStart
    <2>1. ProcessTypeOK' /\ GoroutineTypeOK'
        BY <1>1 DEF RunStart, ProcessTypeOK, GoroutineTypeOK
    <2>2. SharedTypeOK'
        BY <1>1 DEF RunStart, SharedTypeOK
    <2>3. EndOnItsWay' /\ HandlerReady'
        BY <1>1 DEF RunStart, EndOnItsWay, HandlerReady
    <2> QED BY <2>1, <2>2, <2>3
<1>2. CASE RunGo
    <2>1. ProcessTypeOK' /\ GoroutineTypeOK'
        BY <1>2 DEF RunGo, ProcessTypeOK, GoroutineTypeOK
    <2>2. SharedTypeOK'
        BY <1>2 DEF RunGo, SharedTypeOK, Processes
    <2>3. EndOnItsWay' /\ HandlerReady'
        BY <1>2 DEF RunGo, EndOnItsWay, HandlerReady
    <2> QED BY <2>1, <2>2, <2>3
<1>3. CASE RunDone
    <2>1. ProcessTypeOK' /\ GoroutineTypeOK'
        BY <1>3 DEF RunDone, ProcessTypeOK, GoroutineTypeOK
    <2>2. SharedTypeOK'
        BY <1>3 DEF RunDone, SharedTypeOK
    <2>3. EndOnItsWay' /\ HandlerReady'
        BY <1>3 DEF RunDone, EndOnItsWay, HandlerReady
    <2> QED BY <2>1, <2>2, <2>3
<1>4. CASE RunError
    <2>1. ProcessTypeOK' /\ GoroutineTypeOK'
        BY <1>4 DEF RunError, ProcessTypeOK, GoroutineTypeOK, HandlerReady
    <2>2. SharedTypeOK'
        BY <1>4 DEF RunError, SharedTypeOK
    <2>3. EndOnItsWay' /\ HandlerReady'
        BY <1>4 DEF RunError, EndOnItsWay, HandlerReady, GoroutineTypeOK
    <2> QED BY <2>1, <2>2, <2>3
<1> QED BY <1>1, <1>2, <1>3, <1>4 DEF RunStep

LEMMA WaiterStepInv == RunInv /\ WaiterStep => RunInv'
<1> SUFFICES ASSUME RunInv, WaiterStep PROVE RunInv'
    OBVIOUS
<1> USE DEF RunInv, TypeOK
<1>1. CASE MainWait
    <2>1. ProcessTypeOK' /\ GoroutineTypeOK'
        BY <1>1 DEF MainWait, ProcessTypeOK, GoroutineTypeOK
    <2>2. SharedTypeOK'
        BY <1>1 DEF MainWait, SharedTypeOK
    <2>3. EndOnItsWay' /\ HandlerReady'
        BY <1>1 DEF MainWait, EndOnItsWay, HandlerReady, ProcessTypeOK, Processes
    <2> QED BY <2>1, <2>2, <2>3
<1>2. CASE MainDone
    <2>1. ProcessTypeOK' /\ GoroutineTypeOK'
        BY <1>2 DEF MainDone, ProcessTypeOK, GoroutineTypeOK
    <2>2. SharedTypeOK'
        BY <1>2 DEF MainDone, SharedTypeOK
    <2>3. EndOnItsWay' /\ HandlerReady'
        BY <1>2 DEF MainDone, EndOnItsWay, HandlerReady
    <2> QED BY <2>1, <2>2, <2>3
<1> QED BY <1>1, <1>2 DEF WaiterStep

LEMMA PostStepInv == RunInv /\ PostStep => RunInv'
<1> SUFFICES ASSUME RunInv, PostStep PROVE RunInv'
    OBVIOUS
<1> USE DEF RunInv, TypeOK
<1>1. CASE ConditionStart
    <2>1. ProcessTypeOK' /\ GoroutineTypeOK'
        BY <1>1 DEF ConditionStart, ProcessTypeOK, GoroutineTypeOK
    <2>2. SharedTypeOK'
        BY <1>1 DEF ConditionStart, SharedTypeOK
    <2>3. EndOnItsWay' /\ HandlerReady'
        BY <1>1 DEF ConditionStart, EndOnItsWay, HandlerReady
    <2> QED BY <2>1, <2>2, <2>3
<1>2. CASE ConditionReturns
    <2>1. ProcessTypeOK' /\ GoroutineTypeOK'
        BY <1>2 DEF ConditionReturns, ProcessTypeOK, GoroutineTypeOK
    <2>2. SharedTypeOK'
        BY <1>2 DEF ConditionReturns, SharedTypeOK
    <2>3. EndOnItsWay' /\ HandlerReady'
        BY <1>2 DEF ConditionReturns, EndOnItsWay, HandlerReady
    <2> QED BY <2>1, <2>2, <2>3
<1>3. CASE PostStart
    <2>1. ProcessTypeOK' /\ GoroutineTypeOK'
        BY <1>3 DEF PostStart, ProcessTypeOK, GoroutineTypeOK
    <2>2. SharedTypeOK'
        BY <1>3 DEF PostStart, SharedTypeOK
    <2>3. EndOnItsWay' /\ HandlerReady'
        BY <1>3 DEF PostStart, EndOnItsWay, HandlerReady, ProcessTypeOK, Processes
    <2> QED BY <2>1, <2>2, <2>3
<1>4. CASE PostRegister
    <2>1. ProcessTypeOK' /\ GoroutineTypeOK'
        BY <1>4 DEF PostRegister, ProcessTypeOK, GoroutineTypeOK
    <2>2. SharedTypeOK'
        BY <1>4 DEF PostRegister, SharedTypeOK, Processes
    <2>3. EndOnItsWay' /\ HandlerReady'
        BY <1>4 DEF PostRegister, EndOnItsWay, HandlerReady
    <2> QED BY <2>1, <2>2, <2>3
<1>5. CASE PostWait
    <2>1. ProcessTypeOK' /\ GoroutineTypeOK'
        BY <1>5 DEF PostWait, ProcessTypeOK, GoroutineTypeOK
    <2>2. SharedTypeOK'
        BY <1>5 DEF PostWait, SharedTypeOK
    <2>3. EndOnItsWay' /\ HandlerReady'
        BY <1>5 DEF PostWait, EndOnItsWay, HandlerReady, ProcessTypeOK, Processes
    <2> QED BY <2>1, <2>2, <2>3
<1> QED BY <1>1, <1>2, <1>3, <1>4, <1>5 DEF PostStep

LEMMA HandlerStepInv == RunInv /\ HandlerStep => RunInv'
<1> SUFFICES ASSUME RunInv, HandlerStep PROVE RunInv'
    OBVIOUS
<1> USE DEF RunInv, TypeOK
<1>1. CASE HandleReceive
    <2>1. ProcessTypeOK' /\ GoroutineTypeOK'
        <3>1. Head(sigs) \in {"TERM", "CHLD"}
            BY <1>1, HeadTailProperties DEF HandleReceive, SharedTypeOK
        <3>2. ProcessTypeOK'
            BY <1>1 DEF HandleReceive, ProcessTypeOK
        <3>3. GoroutineTypeOK'
            BY <1>1, <3>1 DEF HandleReceive, GoroutineTypeOK
        <3> QED BY <3>2, <3>3
    <2>2. SharedTypeOK'
        BY <1>1 DEF HandleReceive, SharedTypeOK
    <2>3. EndOnItsWay' /\ HandlerReady'
        BY <1>1 DEF HandleReceive, EndOnItsWay, HandlerReady
    <2> QED BY <2>1, <2>2, <2>3
<1>2. CASE SignalAllLock
    <2>1. ProcessTypeOK' /\ GoroutineTypeOK'
        <3>1. ProcessTypeOK'
            BY <1>2 DEF SignalAllLock, ProcessTypeOK
        <3>2. GoroutineTypeOK'
            BY <1>2 DEF SignalAllLock, GoroutineTypeOK, SharedTypeOK
        <3> QED BY <3>1, <3>2
    <2>2. SharedTypeOK'
        BY <1>2 DEF SignalAllLock, SharedTypeOK
    <2>3. EndOnItsWay' /\ HandlerReady'
        BY <1>2 DEF SignalAllLock, EndOnItsWay, HandlerReady
    <2> QED BY <2>1, <2>2, <2>3
<1>3. CASE SignalProbe
    <2>1. ProcessTypeOK' /\ GoroutineTypeOK'
        <3>1. Tail(handler.todo) \in Seq(Processes)
            BY <1>3, HeadTailProperties DEF SignalProbe, GoroutineTypeOK
        <3>2. ProcessTypeOK'
            BY <1>3 DEF SignalProbe, ProcessTypeOK
        <3>3. GoroutineTypeOK'
            BY <1>3, <3>1 DEF SignalProbe, GoroutineTypeOK
        <3> QED BY <3>2, <3>3
    <2>2. SharedTypeOK'
        BY <1>3 DEF SignalProbe, SharedTypeOK
    <2>3. EndOnItsWay' /\ HandlerReady'
        BY <1>3 DEF SignalProbe, EndOnItsWay, HandlerReady
    <2> QED BY <2>1, <2>2, <2>3
<1>4. CASE SignalKill
    <2>1. ProcessTypeOK' /\ GoroutineTypeOK'
        <3>1. Head(handler.todo) \in Processes /\ Tail(handler.todo) \in Seq(Processes)
            BY <1>4, HeadTailProperties DEF SignalKill, GoroutineTypeOK, HandlerReady
        <3>2. ProcessTypeOK'
            BY <1>4, <3>1 DEF SignalKill, ProcessTypeOK
        <3>3. GoroutineTypeOK'
            <4>1. PICK e \in {handler.errs, handler.errs + 1} :
                     handler' = [handler EXCEPT !.pc = "probe", !.todo = Tail(@), !.errs = e]
                BY <1>4 DEF SignalKill
            <4>2. e \in Nat
                BY <4>1 DEF GoroutineTypeOK
            <4> QED BY <1>4, <3>1, <4>1, <4>2 DEF SignalKill, GoroutineTypeOK
        <3> QED BY <3>2, <3>3
    <2>2. SharedTypeOK'
        BY <1>4 DEF SignalKill, SharedTypeOK
    <2>3. EndOnItsWay' /\ HandlerReady'
        BY <1>4 DEF SignalKill, EndOnItsWay, HandlerReady
    <2> QED BY <2>1, <2>2, <2>3
<1>5. CASE SignalAllUnlock
    <2>1. ProcessTypeOK' /\ GoroutineTypeOK'
        BY <1>5 DEF SignalAllUnlock, ProcessTypeOK, GoroutineTypeOK
    <2>2. SharedTypeOK'
        BY <1>5 DEF SignalAllUnlock, SharedTypeOK
    <2>3. EndOnItsWay' /\ HandlerReady'
        BY <1>5 DEF SignalAllUnlock, EndOnItsWay, HandlerReady, GoroutineTypeOK
    <2> QED BY <2>1, <2>2, <2>3
<1> QED BY <1>1, <1>2, <1>3, <1>4, <1>5 DEF HandlerStep

\* Whatever the buffer holds, a signal that arrives leaves one at most.
LEMMA ArriveFits ==
    ASSUME SharedTypeOK, NEW sig \in {"TERM", "CHLD"}, Arrive(sig)
    PROVE  sigs' \in Seq({"TERM", "CHLD"}) /\ Len(sigs') <= 1
<1>1. <<sig>> \in Seq({"TERM", "CHLD"}) /\ Len(<<sig>>) = 1
    OBVIOUS
<1>2. CASE sigs = <<>>
    <2>1. sigs' = <<sig>>
        BY <1>2 DEF Arrive
    <2> QED BY <1>1, <2>1
<1>3. CASE sigs # <<>>
    <2>1. sigs' = sigs
        BY <1>3 DEF Arrive
    <2> QED BY <2>1 DEF SharedTypeOK
<1> QED BY <1>2, <1>3

LEMMA SystemStepInv == RunInv /\ SystemStep => RunInv'
<1> SUFFICES ASSUME RunInv, SystemStep PROVE RunInv'
    OBVIOUS
<1> USE DEF RunInv, TypeOK
<1>1. CASE Terminate
    <2>1. ProcessTypeOK' /\ GoroutineTypeOK'
        BY <1>1, ConstantsAssumption DEF Terminate, ProcessTypeOK, GoroutineTypeOK
    <2>2. SharedTypeOK'
        BY <1>1, ArriveFits DEF Terminate, SharedTypeOK
    <2>3. EndOnItsWay' /\ HandlerReady'
        BY <1>1 DEF Terminate, EndOnItsWay, HandlerReady
    <2> QED BY <2>1, <2>2, <2>3
<1>2. CASE ConditionExits
    <2>1. ProcessTypeOK' /\ GoroutineTypeOK'
        BY <1>2 DEF ConditionExits, ProcessTypeOK, GoroutineTypeOK
    <2>2. SharedTypeOK'
        BY <1>2, ArriveFits DEF ConditionExits, SharedTypeOK
    <2>3. EndOnItsWay' /\ HandlerReady'
        BY <1>2 DEF ConditionExits, EndOnItsWay, HandlerReady
    <2> QED BY <2>1, <2>2, <2>3
<1>3. CASE Deadline
    <2>1. ProcessTypeOK' /\ GoroutineTypeOK'
        BY <1>3 DEF Deadline, ProcessTypeOK, GoroutineTypeOK
    <2>2. SharedTypeOK'
        BY <1>3 DEF Deadline, SharedTypeOK
    <2>3. EndOnItsWay' /\ HandlerReady'
        BY <1>3 DEF Deadline, EndOnItsWay, HandlerReady
    <2> QED BY <2>1, <2>2, <2>3
<1>4. ASSUME NEW p \in Processes, ProcessExits(p) PROVE RunInv'
    <2>1. ProcessTypeOK' /\ GoroutineTypeOK'
        BY <1>4 DEF ProcessExits, ProcessTypeOK, GoroutineTypeOK
    <2>2. SharedTypeOK'
        BY <1>4, ArriveFits DEF ProcessExits, SharedTypeOK
    <2>3. EndOnItsWay' /\ HandlerReady'
        BY <1>4 DEF ProcessExits, EndOnItsWay, HandlerReady
    <2> QED BY <2>1, <2>2, <2>3
<1> QED BY <1>1, <1>2, <1>3, <1>4 DEF SystemStep

LEMMA NextRunInv == RunInv /\ [Next]_vars => RunInv'
<1>1. RunInv /\ UNCHANGED vars => RunInv'
    BY DEF vars, RunInv, TypeOK, ProcessTypeOK, GoroutineTypeOK, SharedTypeOK,
           EndOnItsWay, HandlerReady
<1> QED BY <1>1, RunStepInv, WaiterStepInv, PostStepInv, HandlerStepInv, SystemStepInv DEF Next

\* The types of channels, goroutines and processes are kept, whatever commands
\* there are and however many signals arrive.
THEOREM RunTypeCorrect == Spec => []TypeOK
<1>1. RunInv => TypeOK
    BY DEF RunInv
<1> QED BY <1>1, InitRunInv, NextRunInv, PTL DEF Spec

\* container-run reports success only for a main process that has ended, in
\* every interleaving of its goroutines with processes and signals.
THEOREM SuccessIsMainsEnd == Spec => []SuccessMeansEnded
<1>1. RunInv => SuccessMeansEnded
    BY DEF RunInv, EndOnItsWay, SuccessMeansEnded
<1> QED BY <1>1, InitRunInv, NextRunInv, PTL DEF Spec
=============================================================================
