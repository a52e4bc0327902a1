------------------------------- MODULE Sched -------------------------------
(***************************************************************************)
(* The preemptive scheduler of cpu/sched.c on its single CPU, with the     *)
(* three trap stubs of cpu/interrupt.asm that end in sched_irq_end, the    *)
(* timer (cpu/timer.c), the ring3 fault path (cpu/isr.c) and the system    *)
(* calls that touch it (cpu/syscall.c).                                    *)
(*                                                                         *)
(* An action is one stretch of code no interrupt can split: a handler      *)
(* behind an interrupt gate, a cli section, or one store of kernel code    *)
(* that runs with interrupts enabled.                                      *)
(***************************************************************************)
EXTENDS Integers, Sequences

CONSTANTS
  MAX_TASKS,        \* slots of task_pool
  MAX_USER_TASKS,   \* stacks of user_stack_pool
  PRIO_LEVELS,      \* run queues, 0 is the most urgent
  PRIO_NORMAL,      \* level of ring3 tasks and of sched_submit
  SubmitPrios,      \* levels the callers of sched_submit_prio pass
  Quantum,          \* prio_quantum: ticks per level
  CR3s,             \* PML4 addresses of private address spaces
  MASTER_CR3,       \* PML4 address of the shared address space
  MaxStacks         \* bound: kernel stacks the heap has room for

Slots  == 0 .. MAX_TASKS - 1
Idle   == -1                       \* &idle_task; its id is -1
Tasks  == Slots \cup {Idle}
Levels == 0 .. PRIO_LEVELS - 1
States == {"FREE", "READY", "RUNNING", "DONE"}

(* Where a context resumes.  "user": ring3.  "kernel": ring0 code of the    *)
(* task.  "yield": inside sched_yield, before int $0x20.  "exiting" and     *)
(* "exited": inside sched_exit, after its first and its second store.       *)
(* "dead": its final hlt loop.  "poll": inside SYS_EVENT_POLL, after the    *)
(* sti that ends event_poll.                                                *)
Points == {"user", "kernel", "yield", "exiting", "exited", "dead", "poll"}

BootStack == 0
NoCr3     == 0                     \* task_t.cr3 of a task in the shared space

ASSUME SchedConstants ==
  /\ MAX_TASKS \in Nat \ {0}
  /\ MAX_USER_TASKS \in Nat
  /\ PRIO_LEVELS \in Nat \ {0}
  /\ PRIO_NORMAL \in Levels
  /\ SubmitPrios \subseteq Levels
  /\ Quantum \in [Levels -> Nat \ {0}]
  /\ NoCr3 \notin CR3s
  /\ MASTER_CR3 \notin CR3s
  /\ MaxStacks \in Nat

VARIABLES
  state, priority, timeslice, is_user, cr3, stack, rsp,  \* fields of task_t
  task_count, rq, cur, want_schedule, scheduler_active,
  loaded_cr3, user_stack_next,
  tss_rsp0,         \* TSS.RSP0
  stacks,           \* kernel stacks allocated so far; they are never freed
  cpu               \* the running context: its kernel stack and its point

taskVars == <<state, priority, timeslice, is_user, cr3, stack, rsp>>
vars == <<taskVars, task_count, rq, cur, want_schedule, scheduler_active,
          loaded_cr3, user_stack_next, tss_rsp0, stacks, cpu>>

Context == [stack : 0 .. MaxStacks, at : Points]

Init ==
  /\ state = [t \in Tasks |-> IF t = Idle THEN "RUNNING" ELSE "FREE"]
  /\ priority = [t \in Tasks |-> IF t = Idle THEN PRIO_LEVELS - 1 ELSE 0]
  /\ timeslice = [t \in Tasks |-> 0]
  /\ is_user = [t \in Tasks |-> FALSE]
  /\ cr3 = [t \in Tasks |-> NoCr3]
  /\ stack = [t \in Tasks |-> BootStack]
  /\ rsp = [t \in Tasks |-> [stack |-> BootStack, at |-> "kernel"]]
  /\ task_count = 0
  /\ rq = [p \in Levels |-> <<>>]
  /\ cur = Idle
  /\ want_schedule = FALSE
  /\ scheduler_active = FALSE
  /\ loaded_cr3 = MASTER_CR3
  /\ user_stack_next = 0
  /\ tss_rsp0 = BootStack
  /\ stacks = 0
  /\ cpu = [stack |-> BootStack, at |-> "kernel"]

(***************************************************************************)
(* Run queues                                                              *)
(***************************************************************************)
(* Mutant: the newest task first. *)
rq_push_front(q, p, t) ==
  IF Len(q[p]) >= MAX_TASKS THEN q ELSE [q EXCEPT ![p] = <<t>> \o @]

rq_push(q, p, t) ==
  IF Len(q[p]) >= MAX_TASKS THEN q ELSE [q EXCEPT ![p] = Append(@, t)]

rq_pop(q, p) == [q EXCEPT ![p] = Tail(@)]

(* Mutant: any level that has a task. *)
AnyLevel(q, p) == q[p] # <<>>

(* p is the level the scan of sched_irq_end stops at. *)
TopLevel(q, p) == q[p] # <<>> /\ \A r \in 0 .. p - 1 : q[r] = <<>>

(***************************************************************************)
(* sched_irq_end.  st, ts and want are task_t.state, task_t.timeslice and  *)
(* want_schedule as the handler left them; frame is the interrupted        *)
(* context the stub saved.                                                 *)
(***************************************************************************)
(* Mutant: the task goes on but stays READY, the bug of sched.c:421-426. *)
ResumeReady(st, frame) ==
  /\ state' = st
  /\ cpu' = frame
  /\ UNCHANGED <<cur, tss_rsp0, loaded_cr3>>

Resume(st, frame) ==
  /\ state' = [st EXCEPT ![cur] = "RUNNING"]
  /\ cpu' = frame
  /\ UNCHANGED <<cur, tss_rsp0, loaded_cr3>>

WantCr3(t) == IF cr3[t] = NoCr3 THEN MASTER_CR3 ELSE cr3[t]

(* Mutant: TSS.RSP0 keeps the previous ring3 task's stack. *)
SwitchStaleRsp0(next, st) ==
  /\ loaded_cr3' = WantCr3(next)
  /\ cur' = next
  /\ state' = [st EXCEPT ![next] = "RUNNING"]
  /\ cpu' = rsp[next]
  /\ UNCHANGED tss_rsp0

SwitchTo(next, st) ==
  /\ tss_rsp0' = IF is_user[next] THEN stack[next] ELSE tss_rsp0
  /\ loaded_cr3' = WantCr3(next)
  /\ cur' = next
  /\ state' = [st EXCEPT ![next] = "RUNNING"]
  /\ cpu' = rsp[next]

Dispatch(next, st, frame) ==
  \/ next = cur /\ Resume(st, frame)
  \/ next # cur /\ SwitchTo(next, st)

PickNext(q, st, frame) ==
  \/ \E p \in Levels : /\ TopLevel(q, p)
                       /\ rq' = rq_pop(q, p)
                       /\ Dispatch(Head(q[p]), st, frame)
  \/ /\ \A p \in Levels : q[p] = <<>>
     /\ rq' = q
     /\ Dispatch(Idle, st, frame)

NoSwitch(st, ts, want, frame) ==
  /\ ~(scheduler_active /\ want)
  /\ state' = st
  /\ timeslice' = ts
  /\ want_schedule' = want
  /\ cpu' = frame
  /\ UNCHANGED <<rq, cur, rsp, tss_rsp0, loaded_cr3>>

QuantumLeft(st, ts, frame) ==
  /\ cur # Idle /\ st[cur] = "RUNNING" /\ ts[cur] # 1
  /\ state' = st
  /\ timeslice' = [ts EXCEPT ![cur] = @ - 1]
  /\ cpu' = frame
  /\ UNCHANGED <<rq, cur, tss_rsp0, loaded_cr3>>

(* Mutant: the expired slice is not reloaded. *)
QuantumNotReloaded(st, ts, frame) ==
  /\ cur # Idle /\ st[cur] = "RUNNING" /\ ts[cur] = 1
  /\ timeslice' = [ts EXCEPT ![cur] = 0]
  /\ PickNext(rq_push(rq, priority[cur], cur), [st EXCEPT ![cur] = "READY"], frame)

QuantumExpired(st, ts, frame) ==
  /\ cur # Idle /\ st[cur] = "RUNNING" /\ ts[cur] = 1
  /\ timeslice' = [ts EXCEPT ![cur] = Quantum[priority[cur]]]
  /\ PickNext(rq_push(rq, priority[cur], cur), [st EXCEPT ![cur] = "READY"], frame)

NotRequeued(st, ts, frame) ==
  /\ cur = Idle \/ st[cur] # "RUNNING"
  /\ timeslice' = ts
  /\ PickNext(rq, st, frame)

sched_irq_end(st, ts, want, frame) ==
  \/ NoSwitch(st, ts, want, frame)
  \/ /\ scheduler_active /\ want
     /\ want_schedule' = FALSE
     /\ rsp' = [rsp EXCEPT ![cur] = frame]
     /\ \/ QuantumLeft(st, ts, frame)
        \/ QuantumExpired(st, ts, frame)
        \/ NotRequeued(st, ts, frame)

(* What sched_irq_end never writes. *)
irqFixed == <<priority, is_user, cr3, stack, task_count, scheduler_active,
              user_stack_next, stacks>>

(* The frame a trap saves: a trap from ring3 moves to TSS.RSP0, a trap     *)
(* from ring0 stays on the stack in use.                                   *)
TrapFrame ==
  IF cpu.at = "user" THEN [stack |-> tss_rsp0, at |-> "user"] ELSE cpu

(***************************************************************************)
(* Interrupts                                                              *)
(***************************************************************************)
(* IRQ0: timer_callback, sched_tick, then the stub's sched_irq_end. *)
TimerIrq ==
  /\ sched_irq_end(state, timeslice, want_schedule \/ scheduler_active, TrapFrame)
  /\ UNCHANGED irqFixed

(* Any other IRQ reaches the same stub. *)
DeviceIrq ==
  /\ sched_irq_end(state, timeslice, want_schedule, TrapFrame)
  /\ UNCHANGED irqFixed

sched_kill_current ==
  sched_irq_end(IF cur = Idle THEN state ELSE [state EXCEPT ![cur] = "DONE"],
                timeslice, want_schedule \/ cur # Idle, TrapFrame)

(* A CPU exception raised in ring3. *)
UserFault ==
  /\ cpu.at = "user"
  /\ sched_kill_current
  /\ UNCHANGED irqFixed

(***************************************************************************)
(* System calls of ring3 tasks                                             *)
(***************************************************************************)
SysExit ==
  /\ cpu.at = "user"
  /\ sched_kill_current
  /\ UNCHANGED irqFixed

(* The timeslices sched_want_reschedule leaves. *)
ExpiredSlice ==
  IF cur # Idle /\ state[cur] = "RUNNING" THEN [timeslice EXCEPT ![cur] = 1]
                                          ELSE timeslice

SysYield ==
  /\ cpu.at = "user"
  /\ sched_irq_end(state, ExpiredSlice, TRUE, TrapFrame)
  /\ UNCHANGED irqFixed

(* Mutant: a poll that also asks for a reschedule, before its sti. *)
PollWantsSwitch ==
  /\ cpu.at = "user"
  /\ cpu' = [stack |-> tss_rsp0, at |-> "poll"]
  /\ want_schedule' = TRUE
  /\ UNCHANGED <<taskVars, task_count, rq, cur, scheduler_active,
                 loaded_cr3, user_stack_next, tss_rsp0, stacks>>

(* event_poll ends in an unconditional sti, so the rest of the system call *)
(* runs with interrupts enabled, on the task's ring0 stack.                *)
SysEventPoll ==
  /\ cpu.at = "user"
  /\ cpu' = [stack |-> tss_rsp0, at |-> "poll"]
  /\ UNCHANGED <<taskVars, task_count, rq, cur, want_schedule, scheduler_active,
                 loaded_cr3, user_stack_next, tss_rsp0, stacks>>

SysEventPollEnd ==
  /\ cpu.at = "poll"
  /\ sched_irq_end(state, timeslice, want_schedule, [cpu EXCEPT !.at = "user"])
  /\ UNCHANGED irqFixed

(***************************************************************************)
(* Ring0 code, with interrupts enabled between two actions                 *)
(***************************************************************************)
(* sched_yield, called by the shell (the idle task) while it waits. *)
YieldRequest ==
  /\ cur = Idle /\ cpu.at = "kernel" /\ scheduler_active
  /\ timeslice' = ExpiredSlice
  /\ want_schedule' = TRUE
  /\ cpu' = [cpu EXCEPT !.at = "yield"]
  /\ UNCHANGED <<state, priority, is_user, cr3, stack, rsp, task_count, rq, cur,
                 scheduler_active, loaded_cr3, user_stack_next, tss_rsp0, stacks>>

(* int $0x20 runs the IRQ0 handler. *)
YieldInt ==
  /\ cpu.at = "yield"
  /\ sched_irq_end(state, timeslice, want_schedule \/ scheduler_active,
                   [cpu EXCEPT !.at = "kernel"])
  /\ UNCHANGED irqFixed

(* sched_exit, called by task_trampoline when a ring0 task returns. *)
ExitDone ==
  /\ cur # Idle /\ cpu.at = "kernel"
  /\ state' = [state EXCEPT ![cur] = "DONE"]
  /\ cpu' = [cpu EXCEPT !.at = "exiting"]
  /\ UNCHANGED <<priority, timeslice, is_user, cr3, stack, rsp, task_count, rq, cur,
                 want_schedule, scheduler_active, loaded_cr3, user_stack_next,
                 tss_rsp0, stacks>>

ExitWant ==
  /\ cpu.at = "exiting"
  /\ want_schedule' = TRUE
  /\ cpu' = [cpu EXCEPT !.at = "exited"]
  /\ UNCHANGED <<taskVars, task_count, rq, cur, scheduler_active, loaded_cr3,
                 user_stack_next, tss_rsp0, stacks>>

ExitInt ==
  /\ cpu.at = "exited"
  /\ sched_irq_end(state, timeslice, want_schedule \/ scheduler_active,
                   [cpu EXCEPT !.at = "dead"])
  /\ UNCHANGED irqFixed

sched_run ==
  /\ ~scheduler_active
  /\ scheduler_active' = TRUE
  /\ UNCHANGED <<taskVars, task_count, rq, cur, want_schedule, loaded_cr3,
                 user_stack_next, tss_rsp0, stacks, cpu>>

(***************************************************************************)
(* Submission, by the shell.  The three functions run under cli.           *)
(***************************************************************************)
Reusable(s) == state[s] \in {"FREE", "DONE"}

find_free_slot(s) ==
  \/ s < task_count /\ Reusable(s) /\ \A r \in 0 .. s - 1 : ~Reusable(r)
  \/ s = task_count /\ \A r \in 0 .. s - 1 : ~Reusable(r)

CountWith(s) == IF s = task_count THEN task_count + 1 ELSE task_count

InstallTask(s, p, user, c) ==
  /\ stacks < MaxStacks
  /\ stacks' = stacks + 1
  /\ state' = [state EXCEPT ![s] = "READY"]
  /\ priority' = [priority EXCEPT ![s] = p]
  /\ timeslice' = [timeslice EXCEPT ![s] = Quantum[p]]
  /\ is_user' = [is_user EXCEPT ![s] = user]
  /\ cr3' = [cr3 EXCEPT ![s] = c]
  /\ stack' = [stack EXCEPT ![s] = stacks']
  /\ rsp' = [rsp EXCEPT ![s] = [stack |-> stacks',
                                at |-> IF user THEN "user" ELSE "kernel"]]
  /\ rq' = rq_push(rq, p, s)

InShell == cur = Idle /\ cpu.at = "kernel" /\ scheduler_active

submitFixed == <<cur, want_schedule, scheduler_active, loaded_cr3, tss_rsp0, cpu>>

sched_submit_prio(s, p) ==
  /\ InShell
  /\ find_free_slot(s)
  /\ task_count' = CountWith(s)
  /\ InstallTask(s, p, FALSE, NoCr3)
  /\ UNCHANGED <<user_stack_next, submitFixed>>

sched_submit_user(s) ==
  /\ InShell
  /\ user_stack_next < MAX_USER_TASKS
  /\ find_free_slot(s)
  /\ task_count' = CountWith(s)
  /\ InstallTask(s, PRIO_NORMAL, TRUE, NoCr3)
  /\ user_stack_next' = user_stack_next + 1
  /\ UNCHANGED submitFixed

sched_submit_user_as(s, c) ==
  /\ InShell
  /\ find_free_slot(s)
  /\ task_count' = CountWith(s)
  /\ InstallTask(s, PRIO_NORMAL, TRUE, c)
  /\ UNCHANGED <<user_stack_next, submitFixed>>

(* kmalloc returns no stack: the slot count has already grown. *)
SubmitNoStack(s) ==
  /\ InShell
  /\ find_free_slot(s)
  /\ task_count' = CountWith(s)
  /\ UNCHANGED <<taskVars, rq, user_stack_next, stacks, submitFixed>>

Next ==
  \/ sched_run
  \/ TimerIrq \/ DeviceIrq \/ UserFault
  \/ SysExit \/ SysYield \/ SysEventPoll \/ SysEventPollEnd
  \/ YieldRequest \/ YieldInt
  \/ ExitDone \/ ExitWant \/ ExitInt
  \/ \E s \in Slots : \/ \E p \in SubmitPrios : sched_submit_prio(s, p)
                      \/ sched_submit_user(s)
                      \/ \E c \in CR3s : sched_submit_user_as(s, c)
                      \/ SubmitNoStack(s)

Spec == Init /\ [][Next]_vars

(* The timer keeps interrupting: interrupts are never left disabled for    *)
(* good, because every action above returns to a context that has IF=1.    *)
FairSpec == Spec /\ WF_vars(TimerIrq)

(***************************************************************************)
(* Properties                                                              *)
(***************************************************************************)
(* Every field of task_pool, the run queues, the CPU and the counters stay *)
(* in range: no slot, stack or level outside the arrays that hold them.    *)
TypeOK ==
  /\ state \in [Tasks -> States]
  /\ priority \in [Tasks -> Levels]
  /\ timeslice \in [Tasks -> Nat]
  /\ is_user \in [Tasks -> BOOLEAN]
  /\ cr3 \in [Tasks -> CR3s \cup {NoCr3}]
  /\ stack \in [Tasks -> 0 .. MaxStacks]
  /\ rsp \in [Tasks -> Context]
  /\ task_count \in 0 .. MAX_TASKS
  /\ rq \in [Levels -> Seq(Slots)]
  /\ cur \in Tasks
  /\ want_schedule \in BOOLEAN
  /\ scheduler_active \in BOOLEAN
  /\ loaded_cr3 \in CR3s \cup {MASTER_CR3}
  /\ user_stack_next \in 0 .. MAX_USER_TASKS
  /\ tss_rsp0 \in 0 .. MaxStacks
  /\ stacks \in 0 .. MaxStacks
  /\ cpu \in Context

Live(s) == state[s] \in {"READY", "RUNNING"}

(* No task is lost and none is duplicated: a slot is READY exactly when it *)
(* stands in a run queue, it stands there once and at its own level, and a *)
(* RUNNING slot is the one on the CPU.  The comment in sched_irq_end       *)
(* (sched.c:421-426) describes the task that "silently falls out of every  *)
(* run queue"; rq_push drops its task without a word when a queue is full. *)
TaskPlacement ==
  /\ \A p, r \in Levels : \A i \in 1 .. Len(rq[p]), j \in 1 .. Len(rq[r]) :
       rq[p][i] = rq[r][j] => p = r /\ i = j
  /\ \A s \in Slots : state[s] = "READY" <=>
       \E i \in 1 .. Len(rq[priority[s]]) : rq[priority[s]][i] = s
  /\ \A p \in Levels : \A i \in 1 .. Len(rq[p]) : priority[rq[p][i]] = p
  /\ \A s \in Slots : state[s] = "RUNNING" => s = cur
  /\ cur # Idle => \/ state[cur] = "RUNNING"
                   \/ state[cur] = "DONE" /\ cpu.at \in {"exiting", "exited"}

(* The CPU runs the context of cur_task: on cur_task's own kernel stack,   *)
(* in its address space, with TSS.RSP0 set for its next trap if it is a    *)
(* ring3 task; a waiting context lies on its own task's stack, and no two  *)
(* live tasks share one.  Every read of cur_task by code that runs with    *)
(* interrupts enabled (task_trampoline, sched_exit, vfs.c's fdt()) relies  *)
(* on it.                                                                  *)
ContextIsCurrent ==
  /\ cpu.stack = stack[cur]
  /\ is_user[cur] => tss_rsp0 = stack[cur]
  /\ loaded_cr3 = WantCr3(cur)
  /\ \A s \in Slots : state[s] = "READY" => rsp[s].stack = stack[s]
  /\ rsp[Idle].stack = BootStack
  /\ \A s, r \in Tasks : Live(s) /\ Live(r) /\ stack[s] = stack[r] => s = r

(* want_schedule is pending only inside sched_yield and sched_exit.  So    *)
(* the sched_irq_end that ends SYS_EVENT_POLL, which runs with interrupts  *)
(* enabled because event_poll executed sti (event.c:34), never gets past   *)
(* its first test, and a nested interrupt cannot corrupt a switch halfway. *)
PendingSwitchWindow == want_schedule => cpu.at \in {"yield", "exited"}

(* A live task has between one tick and its quantum left, so               *)
(* `--timeslice > 0` (sched.c:405), on an unsigned counter, never wraps.   *)
TimesliceLive ==
  \A s \in Slots : Live(s) => timeslice[s] \in 1 .. Quantum[priority[s]]

(* A switch never leaves a more urgent task waiting, and the idle task     *)
(* gets the CPU only when no task is ready.  A finished task is never      *)
(* switched to again, and sched_exit never returns into its hlt loop: the  *)
(* slot comes back only through a submission, which gives it a stack no    *)
(* task had before.                                                        *)
SwitchesRight ==
  [][/\ cur' # cur =>
          \A s \in Slots : state'[s] = "READY" =>
            cur' # Idle /\ priority'[cur'] <= priority'[s]
     /\ \A s \in Slots : state[s] = "DONE" /\ cur' = s => cur = s
     /\ \A s \in Slots : state[s] = "DONE" /\ state'[s] # "DONE" =>
          stack'[s] > stacks
     /\ cpu'.at # "dead"]_vars

(* Round robin by timer ticks: a ready task is eventually given the CPU,   *)
(* unless there is a more urgent one, which may starve it.                 *)
ReadyRuns ==
  \A s \in Slots :
    state[s] = "READY" ~> \/ cur = s
                         \/ \E r \in Slots : Live(r) /\ priority[r] < priority[s]
=============================================================================
