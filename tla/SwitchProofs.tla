---------------------------- MODULE SwitchProofs ---------------------------
(***************************************************************************)
(* Proof of the action property SwitchesRight of Sched, from the inductive *)
(* invariant of SchedProofs.                                               *)
(***************************************************************************)
EXTENDS SchedProofs

(* The action of SwitchesRight. *)
SwitchStep ==
  /\ cur' # cur =>
       \A s \in Slots : state'[s] = "READY" =>
         cur' # Idle /\ priority'[cur'] <= priority'[s]
  /\ \A s \in Slots : state[s] = "DONE" /\ cur' = s => cur = s
  /\ \A s \in Slots : state[s] = "DONE" /\ state'[s] # "DONE" =>
       stack'[s] > stacks
  /\ cpu'.at # "dead"

(* Inside sched_exit. *)
Exit == {"exiting", "exited", "dead"}

(* The task inside sched_exit is DONE and has not come to the hlt loop,    *)
(* and no context that may run again is inside sched_exit.                 *)
ExitIsFinal ==
  /\ cpu.at # "dead"
  /\ cpu.at \in Exit => cur # Idle /\ state[cur] = "DONE"
  /\ \A s \in Slots : state[s] = "READY" => rsp[s].at \notin Exit
  /\ rsp[Idle].at \notin Exit

(* What the handlers hand to sched_irq_end, as far as a switch depends on  *)
(* it: only a DONE task saves a frame inside sched_exit, and the last one  *)
(* asks for a switch.                                                      *)
Handed(st, want, frame) ==
  /\ st \in [Tasks -> States]
  /\ \A s \in Tasks \ {cur} : st[s] = state[s]
  /\ cur # Idle => st[cur] \in {"RUNNING", "DONE"}
  /\ state[cur] = "DONE" => st[cur] = "DONE"
  /\ frame.at \in Exit => cur # Idle /\ st[cur] = "DONE"
  /\ frame.at = "dead" => want /\ scheduler_active

(* The scan of the run queues takes a most urgent READY task. *)
LEMMA PickNextTop ==
  ASSUME NEW q, NEW st \in [Tasks -> States], NEW frame,
         priority \in [Tasks -> Levels], QueueOK(q, st, priority),
         PickNext(q, st, frame)
  PROVE  \E next \in Tasks :
           /\ Switched(next, st, frame)
           /\ next # Idle => st[next] = "READY"
           /\ \A s \in Slots \ {next} : st[s] = "READY" =>
                next # Idle /\ priority[next] <= priority[s]
<1>0. /\ Idle \in Tasks /\ Idle \notin Slots /\ Slots \subseteq Tasks
      /\ \A p \in Levels : p \in Nat
  BY SchedConstants DEF Tasks, Slots, Idle, Levels
<1>1. \A s \in Slots : st[s] = "READY" => q[priority[s]] # <<>>
  <2> SUFFICES ASSUME NEW s \in Slots, st[s] = "READY", q[priority[s]] = <<>>
               PROVE  FALSE
    OBVIOUS
  <2>1. PICK i \in 1 .. Len(q[priority[s]]) : q[priority[s]][i] = s
    BY DEF QueueOK, Queued
  <2> QED
    BY <2>1
<1>2. ASSUME NEW p \in Levels, TopLevel(q, p), Dispatch(Head(q[p]), st, frame)
      PROVE  /\ Head(q[p]) \in Slots
             /\ Switched(Head(q[p]), st, frame)
             /\ st[Head(q[p])] = "READY"
             /\ \A s \in Slots : st[s] = "READY" => priority[Head(q[p])] <= priority[s]
  <2>1. q[p] # <<>> /\ \A r \in 0 .. p - 1 : q[r] = <<>>
    BY <1>2 DEF TopLevel
  <2>2. Head(q[p]) \in Slots /\ priority[Head(q[p])] = p /\ st[Head(q[p])] = "READY"
    <3>1. q[p] \in Seq(Slots) /\ Head(q[p]) = q[p][1] /\ 1 \in 1 .. Len(q[p])
      BY <2>1 DEF QueueOK
    <3>2. Head(q[p]) \in Slots /\ priority[Head(q[p])] = p
      BY <3>1 DEF QueueOK, AtLevel
    <3> QED
      BY <3>1, <3>2 DEF QueueOK, Queued
  <2>3. Switched(Head(q[p]), st, frame)
    BY <1>2 DEF Dispatch, Resume, SwitchTo, Switched
  <2>4. ASSUME NEW s \in Slots, st[s] = "READY" PROVE p <= priority[s]
    <3>1. priority[s] \in Nat /\ p \in Nat
      BY <1>0
    <3>2. priority[s] \notin 0 .. p - 1
      BY <1>1, <2>1, <2>4
    <3> QED
      BY <3>1, <3>2
  <2> QED
    BY <2>2, <2>3, <2>4
<1>3. ASSUME \A p \in Levels : q[p] = <<>>, Dispatch(Idle, st, frame)
      PROVE  /\ Switched(Idle, st, frame)
             /\ \A s \in Slots : st[s] # "READY"
  <2>1. \A s \in Slots : priority[s] \in Levels
    BY <1>0
  <2> QED
    BY <1>1, <1>3, <2>1 DEF Dispatch, Resume, SwitchTo, Switched
<1>4. CASE \E p \in Levels : TopLevel(q, p) /\ Dispatch(Head(q[p]), st, frame)
  BY <1>0, <1>2, <1>4
<1>5. CASE (\A p \in Levels : q[p] = <<>>) /\ Dispatch(Idle, st, frame)
  BY <1>0, <1>3, <1>5
<1> QED
  BY <1>4, <1>5 DEF PickNext

(* A switch, from the states w and the queues q after the requeue. *)
LEMMA PickedStep ==
  ASSUME IInv, ExitIsFinal, UNCHANGED irqFixed,
         NEW w \in [Tasks -> States], NEW q, NEW frame,
         QueueOK(q, w, priority), PickNext(q, w, frame),
         rsp' = [rsp EXCEPT ![cur] = frame],
         \A s \in Tasks \ {cur} : w[s] = state[s],
         cur # Idle => w[cur] \in {"READY", "DONE"},
         state[cur] = "DONE" => w[cur] = "DONE",
         frame.at \in Exit => cur # Idle /\ w[cur] = "DONE"
  PROVE  SwitchStep /\ ExitIsFinal'
<1>0. /\ Idle \in Tasks /\ Idle \notin Slots /\ Slots \subseteq Tasks
      /\ Tasks = Slots \cup {Idle}
  BY DEF Tasks, Slots, Idle
<1>1. /\ cur \in Tasks /\ priority \in [Tasks -> Levels] /\ rsp \in [Tasks -> Context]
      /\ priority' = priority
  BY DEF IInv, TypeOK, irqFixed
<1>2. PICK next \in Tasks :
        /\ Switched(next, w, frame)
        /\ next # Idle => w[next] = "READY"
        /\ \A s \in Slots \ {next} : w[s] = "READY" =>
             next # Idle /\ priority[next] <= priority[s]
  BY <1>1, PickNextTop
<1>3. cur' = next /\ state' = [w EXCEPT ![next] = "RUNNING"]
  BY <1>2 DEF Switched
<1>4. /\ state'[next] = "RUNNING"
      /\ \A s \in Tasks \ {next} : state'[s] = w[s]
  BY <1>3
<1>5. \A s \in Slots : state[s] = "DONE" => s # next /\ state'[s] = "DONE"
  BY <1>0, <1>1, <1>2, <1>4
<1>6. \A s \in Slots : state'[s] = "READY" => s # next /\ w[s] = "READY"
  BY <1>0, <1>4
<1>7. cpu'.at \notin Exit
  <2>1. CASE next = cur
    BY <1>2, <2>1 DEF Switched
  <2>2. CASE next # cur
    <3>1. cpu' = rsp[next] /\ (next # Idle => next \in Slots /\ state[next] = "READY")
      BY <1>0, <1>2, <2>2, ZenonT(60) DEF Switched
    <3> QED
      BY <3>1 DEF ExitIsFinal
  <2> QED
    BY <2>1, <2>2
<1>8. /\ rsp'[cur] = frame
      /\ \A s \in Tasks \ {cur} : rsp'[s] = rsp[s]
  BY <1>1
<1>9. ExitIsFinal'
  <2>1. ASSUME NEW s \in Slots, state'[s] = "READY" PROVE rsp'[s].at \notin Exit
    <3>1. CASE s = cur
      BY <1>6, <1>8, <2>1, <3>1
    <3>2. CASE s # cur
      BY <1>0, <1>6, <1>8, <2>1, <3>2 DEF ExitIsFinal
    <3> QED
      BY <3>1, <3>2
  <2>2. rsp'[Idle].at \notin Exit
    BY <1>0, <1>8 DEF ExitIsFinal
  <2> QED
    BY <1>7, <2>1, <2>2 DEF ExitIsFinal, Exit
<1>10. SwitchStep
  <2>1. \A s \in Slots : state'[s] = "READY" => cur' # Idle /\ priority'[cur'] <= priority'[s]
    BY <1>1, <1>2, <1>3, <1>6
  <2> QED
    BY <1>3, <1>5, <1>7, <2>1 DEF SwitchStep, Exit
<1> QED
  BY <1>9, <1>10

(* sched_irq_end after any handler. *)
LEMMA IrqEndStep ==
  ASSUME IInv, ExitIsFinal, UNCHANGED irqFixed, NEW st, NEW ts, NEW want, NEW frame,
         Handed(st, want, frame), sched_irq_end(st, ts, want, frame)
  PROVE  SwitchStep /\ ExitIsFinal'
<1>0. /\ Idle \in Tasks /\ Idle \notin Slots /\ Slots \subseteq Tasks
      /\ Tasks = Slots \cup {Idle}
  BY DEF Tasks, Slots, Idle
<1>1. /\ state \in [Tasks -> States] /\ cur \in Tasks
      /\ priority \in [Tasks -> Levels] /\ rsp \in [Tasks -> Context]
  BY DEF IInv, TypeOK
<1>2. cur # Idle => state[cur] \in {"RUNNING", "DONE"}
  BY <1>1, ZenonT(60) DEF IInv, TaskPlacement
<1>3. QueueOK(rq, st, priority)
  <2>1. QueueOK(rq, state, priority)
    BY DEF IInv, TypeOK, TaskPlacement, QueueOK, Unique, Queued, AtLevel
  <2>2. \A s \in Slots : st[s] = "READY" <=> state[s] = "READY"
    BY <1>0, <1>1, <1>2 DEF Handed
  <2> QED
    BY <2>1, <2>2 DEF QueueOK, Queued
(* No switch: the interrupted context goes on. *)
<1>4. ASSUME state' = st, cur' = cur, cpu' = frame, frame.at # "dead",
             rsp' = rsp \/ rsp' = [rsp EXCEPT ![cur] = frame]
      PROVE  SwitchStep /\ ExitIsFinal'
  <2>1. \A s \in Slots : state[s] = "DONE" => state'[s] = "DONE"
    BY <1>0, <1>4 DEF Handed
  <2>2. \A s \in Slots : state'[s] = "READY" => s # cur /\ state[s] = "READY"
    BY <1>0, <1>1, <1>4 DEF Handed
  <2>3. \A s \in Tasks \ {cur} : rsp'[s] = rsp[s]
    BY <1>1, <1>4
  <2>4. rsp'[Idle].at \notin Exit
    BY <1>0, <1>1, <1>4 DEF ExitIsFinal, Handed
  <2>5. ExitIsFinal'
    BY <1>0, <1>4, <2>2, <2>3, <2>4 DEF ExitIsFinal, Handed
  <2> QED
    BY <1>4, <2>1, <2>5 DEF SwitchStep
<1>5. CASE NoSwitch(st, ts, want, frame)
  <2>1. frame.at # "dead"
    BY <1>5 DEF NoSwitch, Handed
  <2> QED
    BY <1>4, <1>5, <2>1 DEF NoSwitch
<1>6. ASSUME rsp' = [rsp EXCEPT ![cur] = frame], QuantumLeft(st, ts, frame)
      PROVE  SwitchStep /\ ExitIsFinal'
  <2>1. frame.at # "dead"
    BY <1>6 DEF QuantumLeft, Handed, Exit
  <2> QED
    BY <1>4, <1>6, <2>1 DEF QuantumLeft
<1>7. ASSUME rsp' = [rsp EXCEPT ![cur] = frame], QuantumExpired(st, ts, frame)
      PROVE  SwitchStep /\ ExitIsFinal'
  <2> DEFINE w == [st EXCEPT ![cur] = "READY"]
             q == rq_push(rq, priority[cur], cur)
  <2>1. cur \in Slots /\ cur # Idle /\ st[cur] = "RUNNING"
    BY <1>0, <1>1, <1>7 DEF QuantumExpired
  <2>2. st \in [Tasks -> States] /\ w \in [Tasks -> States] /\ w[cur] = "READY"
        /\ \A s \in Tasks \ {cur} : w[s] = state[s]
    BY <1>1 DEF Handed, States
  <2>3. QueueOK(q, w, priority)
    BY <1>1, <1>3, <2>1, <2>2, PushOK, ZenonT(60)
  <2>4. PickNext(q, w, frame)
    BY <1>7 DEF QuantumExpired
  <2>5. state[cur] # "DONE" /\ frame.at \notin Exit
    BY <2>1 DEF Handed
  <2> HIDE DEF w, q
  <2> QED
    BY <1>7, <2>2, <2>3, <2>4, <2>5, PickedStep, ZenonT(60)
<1>8. ASSUME rsp' = [rsp EXCEPT ![cur] = frame], NotRequeued(st, ts, frame)
      PROVE  SwitchStep /\ ExitIsFinal'
  <2>1. cur # Idle => st[cur] = "DONE"
    BY <1>8 DEF NotRequeued, Handed
  <2>2. /\ st \in [Tasks -> States] /\ PickNext(rq, st, frame)
        /\ \A s \in Tasks \ {cur} : st[s] = state[s]
        /\ state[cur] = "DONE" => st[cur] = "DONE"
        /\ frame.at \in Exit => cur # Idle /\ st[cur] = "DONE"
    BY <1>8, ZenonT(60) DEF NotRequeued, Handed
  <2> QED
    BY <1>3, <1>8, <2>1, <2>2, PickedStep, ZenonT(60)
<1> QED
  BY <1>5, <1>6, <1>7, <1>8, ZenonT(60) DEF sched_irq_end

(* A handler that leaves the tasks as they are, and returns to where it    *)
(* came from or out of the kernel.                                         *)
LEMMA PlainHanded ==
  ASSUME IInv, ExitIsFinal, NEW want, NEW frame, frame.at = cpu.at \/ frame.at \notin Exit
  PROVE  Handed(state, want, frame)
<1>1. frame.at # "dead"
  BY DEF ExitIsFinal, Exit
<1>2. frame.at \in Exit => cur # Idle /\ state[cur] = "DONE"
  BY DEF ExitIsFinal
<1> QED
  BY <1>1, <1>2 DEF Handed, IInv, TypeOK, TaskPlacement

(* The interrupts, the exceptions and the system calls. *)
LEMMA GateStep ==
  ASSUME IInv, ExitIsFinal,
         \/ TimerIrq \/ DeviceIrq \/ UserFault \/ SysExit \/ SysYield
         \/ SysEventPollEnd \/ YieldInt \/ ExitInt
  PROVE  SwitchStep /\ ExitIsFinal'
<1>1. UNCHANGED irqFixed
  BY DEF TimerIrq, DeviceIrq, UserFault, SysExit, SysYield, SysEventPollEnd, YieldInt, ExitInt
<1>2. TrapFrame.at = cpu.at /\ cpu \in Context
  BY TrapFrameOK
<1>3. ASSUME NEW ts, NEW want, NEW frame, frame.at = cpu.at \/ frame.at \notin Exit,
             sched_irq_end(state, ts, want, frame)
      PROVE  SwitchStep /\ ExitIsFinal'
  BY <1>1, <1>3, PlainHanded, IrqEndStep
<1>4. CASE TimerIrq \/ DeviceIrq \/ SysYield
  BY <1>2, <1>3, <1>4 DEF TimerIrq, DeviceIrq, SysYield
<1>5. CASE SysEventPollEnd
  <2>1. [cpu EXCEPT !.at = "user"].at \notin Exit
    BY <1>2 DEF Context, Exit
  <2> QED
    BY <1>3, <1>5, <2>1 DEF SysEventPollEnd
<1>6. CASE YieldInt
  <2>1. [cpu EXCEPT !.at = "kernel"].at \notin Exit
    BY <1>2 DEF Context, Exit
  <2> QED
    BY <1>3, <1>6, <2>1 DEF YieldInt
<1>7. CASE UserFault \/ SysExit
  <2> DEFINE w == IF cur = Idle THEN state ELSE [state EXCEPT ![cur] = "DONE"]
             want == want_schedule \/ cur # Idle
  <2>1. sched_irq_end(w, timeslice, want, TrapFrame) /\ TrapFrame.at = "user"
    BY <1>2, <1>7 DEF UserFault, SysExit, sched_kill_current
  <2>2. /\ w \in [Tasks -> States]
        /\ \A s \in Tasks \ {cur} : w[s] = state[s]
        /\ cur # Idle => w[cur] = "DONE"
        /\ state[cur] = "DONE" => w[cur] = "DONE"
    BY DEF IInv, TypeOK, States
  <2> HIDE DEF w, want
  <2>3. Handed(w, want, TrapFrame)
    BY <2>1, <2>2 DEF Handed, Exit
  <2> QED
    BY <1>1, <2>1, <2>3, IrqEndStep
<1>8. CASE ExitInt
  <2> DEFINE frame == [cpu EXCEPT !.at = "dead"]
             want == want_schedule \/ scheduler_active
  <2>1. sched_irq_end(state, timeslice, want, frame) /\ cpu.at = "exited"
    BY <1>8 DEF ExitInt
  <2>2. cur # Idle /\ state[cur] = "DONE"
    BY <2>1 DEF ExitIsFinal, Exit
  <2>3. want /\ scheduler_active
    BY <2>2 DEF IInv, ActiveFirst
  <2> HIDE DEF frame, want
  <2>4. Handed(state, want, frame)
    BY <2>2, <2>3 DEF Handed, IInv, TypeOK
  <2> QED
    BY <1>1, <2>1, <2>4, IrqEndStep
<1> QED
  BY <1>4, <1>5, <1>6, <1>7, <1>8

(* Ring0 steps that switch to no other task. *)
LEMMA KernelSwitchStep ==
  ASSUME IInv, ExitIsFinal,
         SysEventPoll \/ YieldRequest \/ ExitDone \/ ExitWant \/ sched_run
  PROVE  SwitchStep /\ ExitIsFinal'
<1>0. cpu \in Context /\ cur \in Tasks /\ state \in [Tasks -> States]
  BY DEF IInv, TypeOK
<1>1. rsp' = rsp /\ cur' = cur /\ stack' = stack
  BY DEF SysEventPoll, YieldRequest, ExitDone, ExitWant, sched_run, taskVars
<1>2. CASE SysEventPoll \/ YieldRequest \/ ExitWant \/ sched_run
  <2>1. state' = state
    BY <1>2 DEF SysEventPoll, YieldRequest, ExitWant, sched_run, taskVars
  <2>2. cpu'.at # "dead" /\ (cpu'.at \in Exit => cpu.at \in Exit)
    BY <1>0, <1>2 DEF SysEventPoll, YieldRequest, ExitWant, sched_run, Context, ExitIsFinal, Exit
  <2> QED
    BY <1>1, <2>1, <2>2 DEF SwitchStep, ExitIsFinal
<1>3. CASE ExitDone
  <2>1. cur # Idle /\ state' = [state EXCEPT ![cur] = "DONE"]
        /\ cpu' = [cpu EXCEPT !.at = "exiting"]
    BY <1>3 DEF ExitDone
  <2>2. cpu'.at = "exiting" /\ state'[cur] = "DONE"
        /\ \A s \in Tasks \ {cur} : state'[s] = state[s]
    BY <1>0, <2>1 DEF Context
  <2>3. \A s \in Slots : s \in Tasks
    BY DEF Tasks
  <2> QED
    BY <1>1, <2>1, <2>2, <2>3 DEF SwitchStep, ExitIsFinal
<1> QED
  BY <1>2, <1>3

(* A submission gives the slot it takes a new stack and a new context. *)
LEMMA SubmitStep ==
  ASSUME IInv, ExitIsFinal, NEW s \in Slots, NEW p, NEW user \in BOOLEAN, NEW c,
         InstallTask(s, p, user, c), UNCHANGED submitFixed, InShell
  PROVE  SwitchStep /\ ExitIsFinal'
<1>0. /\ s \in Tasks /\ Slots \subseteq Tasks /\ Idle \in Tasks /\ s # Idle
      /\ state \in [Tasks -> States] /\ stack \in [Tasks -> 0 .. MaxStacks]
      /\ rsp \in [Tasks -> Context] /\ stacks \in Nat
  BY SchedConstants DEF IInv, TypeOK, Tasks, Slots, Idle
<1>1. cur' = cur /\ cpu' = cpu /\ cur = Idle /\ cpu.at = "kernel"
  BY DEF submitFixed, InShell
<1>2. /\ \A r \in Tasks \ {s} : state'[r] = state[r] /\ rsp'[r] = rsp[r]
      /\ stack'[s] = stacks + 1
      /\ rsp'[s].at \in {"user", "kernel"}
  BY <1>0 DEF InstallTask
<1>3. ExitIsFinal'
  BY <1>0, <1>1, <1>2 DEF ExitIsFinal, Exit
<1>4. SwitchStep
  <2>1. \A r \in Slots : state[r] = "DONE" /\ state'[r] # "DONE" => stack'[r] > stacks
    BY <1>0, <1>2
  <2> QED
    BY <1>1, <2>1 DEF SwitchStep
<1> QED
  BY <1>3, <1>4

(* Every step of the scheduler. *)
LEMMA SwitchNextOK ==
  ASSUME IInv, ExitIsFinal, [Next]_vars
  PROVE  [SwitchStep]_vars /\ ExitIsFinal'
<1>1. CASE \/ TimerIrq \/ DeviceIrq \/ UserFault \/ SysExit \/ SysYield
           \/ SysEventPollEnd \/ YieldInt \/ ExitInt
  BY <1>1, GateStep
<1>2. CASE SysEventPoll \/ YieldRequest \/ ExitDone \/ ExitWant \/ sched_run
  BY <1>2, KernelSwitchStep
<1>3. ASSUME NEW s \in Slots, NEW p \in SubmitPrios, sched_submit_prio(s, p)
      PROVE  SwitchStep /\ ExitIsFinal'
  BY <1>3, SubmitStep DEF sched_submit_prio
<1>4. ASSUME NEW s \in Slots, sched_submit_user(s)
      PROVE  SwitchStep /\ ExitIsFinal'
  BY <1>4, SubmitStep DEF sched_submit_user
<1>5. ASSUME NEW s \in Slots, NEW c \in CR3s, sched_submit_user_as(s, c)
      PROVE  SwitchStep /\ ExitIsFinal'
  BY <1>5, SubmitStep DEF sched_submit_user_as
<1>6. ASSUME NEW s \in Slots, SubmitNoStack(s)
      PROVE  SwitchStep /\ ExitIsFinal'
  <2>1. state' = state /\ rsp' = rsp /\ cur' = cur /\ cpu' = cpu
    BY <1>6 DEF SubmitNoStack, taskVars, submitFixed
  <2> QED
    BY <2>1 DEF SwitchStep, ExitIsFinal
<1>7. CASE UNCHANGED vars
  <2>1. state' = state /\ rsp' = rsp /\ cur' = cur /\ cpu' = cpu
    BY <1>7 DEF vars, taskVars
  <2> QED
    BY <1>7, <2>1 DEF ExitIsFinal
<1> QED
  BY <1>1, <1>2, <1>3, <1>4, <1>5, <1>6, <1>7 DEF Next

(* A switch of cpu/sched.c never leaves a more urgent task waiting, never  *)
(* goes back to a finished one, and sched_exit never returns: the slot of  *)
(* a finished task comes back only with a stack no task has had.           *)
THEOREM SwitchesAreRight == Spec => SwitchesRight
<1>1. Init => ExitIsFinal
  <2>1. Idle \in Tasks /\ Slots \subseteq Tasks /\ Idle \notin Slots
    BY DEF Tasks, Slots, Idle
  <2>2. ASSUME Init
        PROVE  /\ cpu.at = "kernel" /\ rsp[Idle].at = "kernel"
               /\ \A s \in Slots : state[s] = "FREE"
    BY <2>1, <2>2 DEF Init
  <2> QED
    BY <2>2 DEF ExitIsFinal, Exit
<1>2. IInv /\ ExitIsFinal /\ [Next]_vars => [SwitchStep]_vars /\ ExitIsFinal'
  BY SwitchNextOK
<1>3. Spec => [][SwitchStep]_vars
  BY <1>1, <1>2, Invariance, PTL DEF Spec
<1> QED
  BY <1>3, PTL DEF SwitchesRight, SwitchStep
=============================================================================
