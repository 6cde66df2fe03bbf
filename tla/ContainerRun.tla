---------------------------- MODULE ContainerRun ----------------------------
(***************************************************************************)
(* container-run (container-run/pkg/containerrun): the first process of a  *)
(* BPM container.  Run starts the main process and, when there is one, the *)
(* post-start command; a goroutine waits for the main process, a second    *)
(* one waits for the post-start condition, runs the command and waits for  *)
(* it, a third forwards signals to the registered processes, and Run takes *)
(* the first result from the channels "done" and "errors".                 *)
(*                                                                         *)
(* "errors" has no buffer: a send is a step together with Run's receive,   *)
(* and a goroutine that nobody listens to stays at it.  "done" and "sigs"  *)
(* have room for one.  The operating system is external: a process that    *)
(* exits is a zombie until it is waited for, a signal to a zombie succeeds *)
(* and one to a reaped process fails, and the exit of any child raises     *)
(* SIGCHLD, which signal.Notify relays as every other signal.  When Run    *)
(* returns, container-run exits and its goroutines end with it.            *)
(***************************************************************************)
EXTENDS Naturals, Sequences

CONSTANTS
    HasPostStart,  \* a post-start command is given and commandChecker finds it
    HasCondition,  \* a post-start condition is given
    MayFail,       \* may starting or waiting for a process fail
    MaxTerms       \* bound: SIGTERMs the container runtime sends

ASSUME ConstantsAssumption ==
    /\ HasPostStart \in BOOLEAN /\ HasCondition \in BOOLEAN /\ MayFail \in BOOLEAN
    /\ MaxTerms \in Nat

VARIABLES
    run,      \* Run, after signal.Notify: "start", "register", "select", "ok", "failed"
    cause,    \* the error Run returned
    proc,     \* process -> "none", "running", "exited" (zombie), "reaped"
    cond,     \* the condition command: "none", "running", "ok", "failed"
    registry, \* processRegistry.processes
    lock,     \* the registry's mutex is held by SignalAll
    waiter,   \* goroutine of the main process: "off", "wait", "send", "error", "end"
    post,     \* goroutine of the post-start command
    handler,  \* goroutine of HandleSignals
    sigs,     \* buffer of the channel sigs
    done,     \* buffer of the channel done is full
    expired,  \* the post-start context's deadline has passed
    terms,    \* SIGTERMs sent
    got       \* history: the processes that were sent SIGTERM

vars == <<run, cause, proc, cond, registry, lock, waiter, post, handler, sigs, done,
          expired, terms, got>>

Processes == {"main", "post"}

Returned == run \in {"ok", "failed"}

(***************************************************************************)
(* Run.                                                                    *)
(***************************************************************************)
RunStart ==
    /\ run = "start"
    /\ \/ /\ run' = "register"
          /\ proc' = [proc EXCEPT !.main = "running"]
          /\ UNCHANGED cause
       \/ /\ MayFail
          /\ run' = "failed" /\ cause' = "start"
          /\ UNCHANGED proc
    /\ UNCHANGED <<cond, registry, lock, waiter, post, handler, sigs, done, expired, terms, got>>

\* Registers the main process and starts the goroutines.
RunGo ==
    /\ run = "register"
    /\ registry' = Append(registry, "main")
    /\ waiter' = "wait"
    /\ post' = IF ~HasPostStart THEN "off" ELSE IF HasCondition THEN "condition" ELSE "start"
    /\ handler' = [handler EXCEPT !.pc = "receive"]
    /\ run' = "select"
    /\ UNCHANGED <<cause, proc, cond, lock, sigs, done, expired, terms, got>>

RunDone ==
    /\ run = "select" /\ done
    /\ run' = "ok"
    /\ done' = FALSE
    /\ UNCHANGED <<cause, proc, cond, registry, lock, waiter, post, handler, sigs, expired,
                   terms, got>>

\* Run receives what a goroutine sends to "errors".
RunError ==
    /\ run = "select"
    /\ \/ waiter = "error" /\ cause' = "main" /\ waiter' = "end" /\ UNCHANGED <<post, handler>>
       \/ post = "error" /\ cause' = "post" /\ post' = "end" /\ UNCHANGED <<waiter, handler>>
       \/ /\ handler.pc = "errors" /\ cause' = "signal"
          /\ handler' = [handler EXCEPT !.errs = @ - 1]
          /\ UNCHANGED <<waiter, post>>
    /\ run' = "failed"
    /\ UNCHANGED <<proc, cond, registry, lock, sigs, done, expired, terms, got>>

(***************************************************************************)
(* The goroutine of the main process.                                      *)
(***************************************************************************)

\* process.Wait.  The exit status of the process is not looked at.
MainWait ==
    /\ ~Returned
    /\ waiter = "wait" /\ proc["main"] = "exited"
    /\ \/ /\ waiter' = "send"
          /\ proc' = [proc EXCEPT !["main"] = "reaped"]
       \/ /\ MayFail
          /\ waiter' = "error"
          /\ UNCHANGED proc
    /\ UNCHANGED <<run, cause, cond, registry, lock, post, handler, sigs, done, expired, terms, got>>

\* Faulty variant: nothing is sent when the process ends well.
MainForgotten ==
    /\ ~Returned
    /\ waiter = "send"
    /\ waiter' = "end"
    /\ UNCHANGED <<run, cause, proc, cond, registry, lock, post, handler, sigs, done, expired,
                   terms, got>>

MainDone ==
    /\ ~Returned
    /\ waiter = "send" /\ ~done
    /\ done' = TRUE
    /\ waiter' = "end"
    /\ UNCHANGED <<run, cause, proc, cond, registry, lock, post, handler, sigs, expired, terms, got>>

(***************************************************************************)
(* The goroutine of the post-start command.                                *)
(***************************************************************************)

\* ConditionRunner.RunContext, head of the loop: sleep and run the command,
\* which does not start when the deadline has passed.
ConditionStart ==
    /\ ~Returned
    /\ post = "condition" /\ cond = "none"
    /\ cond' \in IF expired THEN {"failed"} ELSE IF MayFail THEN {"running", "failed"} ELSE {"running"}
    /\ UNCHANGED <<run, cause, proc, registry, lock, waiter, post, handler, sigs, done, expired,
                   terms, got>>

\* Faulty variant: the loop does not look at the deadline.
ConditionForever ==
    /\ ~Returned
    /\ post = "condition" /\ cond \in {"ok", "failed"}
    /\ cond' = "none"
    /\ post' = IF cond = "ok" THEN "start" ELSE "condition"
    /\ UNCHANGED <<run, cause, proc, registry, lock, waiter, handler, sigs, done, expired, terms, got>>

\* cmd.Run returns: go on, give up or try again.
ConditionReturns ==
    /\ ~Returned
    /\ post = "condition" /\ cond \in {"ok", "failed"}
    /\ cond' = "none"
    /\ post' = IF cond = "ok" THEN "start" ELSE IF expired THEN "error" ELSE "condition"
    /\ UNCHANGED <<run, cause, proc, registry, lock, waiter, handler, sigs, done, expired, terms, got>>

\* runner.RunContext: fails after the deadline.
PostStart ==
    /\ ~Returned
    /\ post = "start"
    /\ \/ /\ ~expired
          /\ post' = "register"
          /\ proc' = [proc EXCEPT !.post = "running"]
       \/ /\ expired \/ MayFail
          /\ post' = "error"
          /\ UNCHANGED proc
    /\ UNCHANGED <<run, cause, cond, registry, lock, waiter, handler, sigs, done, expired, terms, got>>

\* Register waits for the mutex.
PostRegister ==
    /\ ~Returned
    /\ post = "register" /\ ~lock
    /\ registry' = Append(registry, "post")
    /\ post' = "wait"
    /\ UNCHANGED <<run, cause, proc, cond, lock, waiter, handler, sigs, done, expired, terms, got>>

\* Faulty variant: the end of the post-start command is reported as the main
\* process's.
PostWaitDone ==
    /\ ~Returned
    /\ post = "wait" /\ proc["post"] = "exited"
    /\ post' = "end"
    /\ proc' = [proc EXCEPT !.post = "reaped"]
    /\ done' = TRUE
    /\ UNCHANGED <<run, cause, cond, registry, lock, waiter, handler, sigs, expired, terms, got>>

PostWait ==
    /\ ~Returned
    /\ post = "wait" /\ proc["post"] = "exited"
    /\ \/ /\ post' = "end"
          /\ proc' = [proc EXCEPT !.post = "reaped"]
       \/ /\ MayFail
          /\ post' = "error"
          /\ UNCHANGED proc
    /\ UNCHANGED <<run, cause, cond, registry, lock, waiter, handler, sigs, done, expired, terms, got>>

(***************************************************************************)
(* HandleSignals: one signal, sent to every registered process.            *)
(***************************************************************************)
HandleReceive ==
    /\ ~Returned
    /\ handler.pc = "receive" /\ sigs # <<>>
    /\ handler' = [handler EXCEPT !.pc = "lock", !.sig = Head(sigs)]
    /\ sigs' = Tail(sigs)
    /\ UNCHANGED <<run, cause, proc, cond, registry, lock, waiter, post, done, expired, terms, got>>

\* SignalAll takes the mutex and goes through the processes.
SignalAllLock ==
    /\ ~Returned
    /\ handler.pc = "lock" /\ ~lock
    /\ lock' = TRUE
    /\ handler' = [handler EXCEPT !.pc = "probe", !.todo = registry]
    /\ UNCHANGED <<run, cause, proc, cond, registry, waiter, post, sigs, done, expired, terms, got>>

\* ContainerProcess.Signal, first call: signal 0 finds out whether it runs.
SignalProbe ==
    /\ ~Returned
    /\ handler.pc = "probe" /\ handler.todo # <<>>
    /\ handler' = IF proc[Head(handler.todo)] = "reaped"
                  THEN [handler EXCEPT !.todo = Tail(@)]
                  ELSE [handler EXCEPT !.pc = "kill"]
    /\ UNCHANGED <<run, cause, proc, cond, registry, lock, waiter, post, sigs, done, expired,
                   terms, got>>

\* Second call: the signal itself.
SignalKill ==
    /\ ~Returned
    /\ handler.pc = "kill"
    /\ LET p == Head(handler.todo)
           fails == proc[p] = "reaped"
       IN  /\ handler' = [handler EXCEPT !.pc = "probe", !.todo = Tail(@),
                                         !.errs = IF fails THEN @ + 1 ELSE @]
           /\ got' = IF ~fails /\ handler.sig = "TERM" THEN got \cup {p} ELSE got
    /\ UNCHANGED <<run, cause, proc, cond, registry, lock, waiter, post, sigs, done, expired, terms>>

\* The mutex is released and the errors, if any, are sent to Run.
SignalAllUnlock ==
    /\ ~Returned
    /\ handler.pc = "probe" /\ handler.todo = <<>>
    /\ lock' = FALSE
    /\ handler' = [handler EXCEPT !.pc = IF handler.errs = 0 THEN "end" ELSE "errors"]
    /\ UNCHANGED <<run, cause, proc, cond, registry, waiter, post, sigs, done, expired, terms, got>>

(***************************************************************************)
(* The operating system.                                                   *)
(***************************************************************************)

\* Faulty variant: the channel has room for every signal.
ArriveAll(sig) == sigs' = Append(sigs, sig)

\* signal.Notify does not wait: a signal that finds the buffer full is lost.
Arrive(sig) == sigs' = IF sigs = <<>> THEN <<sig>> ELSE sigs

Terminate ==
    /\ ~Returned
    /\ terms < MaxTerms
    /\ terms' = terms + 1
    /\ Arrive("TERM")
    /\ UNCHANGED <<run, cause, proc, cond, registry, lock, waiter, post, handler, done, expired, got>>

ProcessExits(p) ==
    /\ ~Returned
    /\ proc[p] = "running"
    /\ proc' = [proc EXCEPT ![p] = "exited"]
    /\ Arrive("CHLD")
    /\ UNCHANGED <<run, cause, cond, registry, lock, waiter, post, handler, done, expired, terms, got>>

ConditionExits ==
    /\ ~Returned
    /\ cond = "running"
    /\ cond' \in {"ok", "failed"}
    /\ Arrive("CHLD")
    /\ UNCHANGED <<run, cause, proc, registry, lock, waiter, post, handler, done, expired, terms, got>>

\* The deadline of the context that the post-start goroutine made.
Deadline ==
    /\ ~Returned
    /\ post \in {"condition", "start", "register", "wait"} /\ ~expired
    /\ expired' = TRUE
    /\ UNCHANGED <<run, cause, proc, cond, registry, lock, waiter, post, handler, sigs, done,
                   terms, got>>

-----------------------------------------------------------------------------

Init ==
    /\ run = "start" /\ cause = "none"
    /\ proc = [p \in Processes |-> "none"]
    /\ cond = "none"
    /\ registry = <<>> /\ lock = FALSE
    /\ waiter = "off" /\ post = "off"
    /\ handler = [pc |-> "off", sig |-> "none", todo |-> <<>>, errs |-> 0]
    /\ sigs = <<>> /\ done = FALSE
    /\ expired = FALSE /\ terms = 0 /\ got = {}

RunStep == RunStart \/ RunGo \/ RunDone \/ RunError
WaiterStep == MainWait \/ MainDone
PostStep == ConditionStart \/ ConditionReturns \/ PostStart \/ PostRegister \/ PostWait
HandlerStep == HandleReceive \/ SignalAllLock \/ SignalProbe \/ SignalKill \/ SignalAllUnlock
SystemStep ==
    Terminate \/ ConditionExits \/ Deadline \/ \E p \in Processes : ProcessExits(p)

Next == RunStep \/ WaiterStep \/ PostStep \/ HandlerStep \/ SystemStep

Spec == Init /\ [][Next]_vars

\* Every goroutine that can go on does.  The main process may run for good; a
\* deadline passes, and exec kills a command of the context that is past it.
Fairness ==
    /\ WF_vars(RunStep) /\ WF_vars(WaiterStep) /\ WF_vars(PostStep) /\ WF_vars(HandlerStep)
    /\ WF_vars(Deadline)
    /\ WF_vars(expired /\ ConditionExits) /\ WF_vars(expired /\ ProcessExits("post"))

FairSpec == Spec /\ Fairness

-----------------------------------------------------------------------------

ProcessTypeOK ==
    /\ proc \in [Processes -> {"none", "running", "exited", "reaped"}]
    /\ cond \in {"none", "running", "ok", "failed"}
    /\ terms \in 0..MaxTerms /\ got \subseteq Processes

GoroutineTypeOK ==
    /\ run \in {"start", "register", "select", "ok", "failed"}
    /\ cause \in {"none", "start", "main", "post", "signal"}
    /\ waiter \in {"off", "wait", "send", "error", "end"}
    /\ post \in {"off", "condition", "start", "register", "wait", "error", "end"}
    /\ handler \in [pc : {"off", "receive", "lock", "probe", "kill", "errors", "end"},
                    sig : {"none", "TERM", "CHLD"}, todo : Seq(Processes), errs : Nat]

SharedTypeOK ==
    /\ registry \in Seq(Processes)
    /\ sigs \in Seq({"TERM", "CHLD"}) /\ Len(sigs) <= 1
    /\ lock \in BOOLEAN /\ done \in BOOLEAN /\ expired \in BOOLEAN

TypeOK == ProcessTypeOK /\ GoroutineTypeOK /\ SharedTypeOK

\* Run reports success only when the main process has ended and was waited
\* for, whatever the post-start command and the signals did meanwhile.
SuccessMeansEnded == run = "ok" => proc["main"] = "reaped"

\* Run returns after the main process has exited: no goroutine that blocks on a
\* channel, on the mutex or in a wait keeps the container alive.
RunEnds == proc["main"] = "exited" ~> Returned

\* The post-start goroutine comes to its end, by its deadline at the latest,
\* however often the condition fails and whatever holds the mutex.
PostStartEnds == post # "off" ~> post = "end" \/ Returned

\* A SIGTERM reaches the main process unless that has exited (comment on
\* HandleSignals: "handles the signals channel and forwards them to the
\* registered processes").
TermForwarded == terms > 0 ~> "main" \in got \/ proc["main"] \in {"exited", "reaped"} \/ Returned
=============================================================================
