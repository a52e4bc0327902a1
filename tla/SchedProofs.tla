---------------------------- MODULE SchedProofs ----------------------------
(***************************************************************************)
(* Proofs about Sched, for every number of slots and levels, every quantum *)
(* and every set of address spaces.                                        *)
(***************************************************************************)
EXTENDS Sched, FiniteSetTheorems, TLAPS

(***************************************************************************)
(* The inductive invariant                                                 *)
(***************************************************************************)
(* The run-queue part of TaskPlacement, for queues q, states st and        *)
(* priorities pr: sched_irq_end goes through intermediate ones.            *)
Unique(q) ==
  \A p, r \in Levels : \A i \in 1 .. Len(q[p]), j \in 1 .. Len(q[r]) :
    q[p][i] = q[r][j] => p = r /\ i = j

Queued(q, st, pr) ==
  \A s \in Slots : st[s] = "READY" <=> \E i \in 1 .. Len(q[pr[s]]) : q[pr[s]][i] = s

AtLevel(q, pr) == \A p \in Levels : \A i \in 1 .. Len(q[p]) : pr[q[p][i]] = p

QueueOK(q, st, pr) ==
  /\ q \in [Levels -> Seq(Slots)]
  /\ Unique(q)
  /\ Queued(q, st, pr)
  /\ AtLevel(q, pr)

(* Before sched_run only the idle task runs and nothing asks for a switch. *)
ActiveFirst == ~scheduler_active => cur = Idle /\ ~want_schedule /\ cpu.at = "kernel"

(* A context in ring3, or in the system call of one, is a ring3 task's. *)
RingOK ==
  /\ cpu.at \in {"user", "poll"} => is_user[cur]
  /\ \A s \in Slots : state[s] = "READY" /\ rsp[s].at \in {"user", "poll"} => is_user[s]
  /\ rsp[Idle].at \notin {"user", "poll"}
  /\ ~is_user[Idle]

(* Stacks are numbered in the order they are allocated. *)
StackOrder ==
  /\ stack[Idle] = BootStack
  /\ \A s \in Slots : stack[s] <= stacks /\ (Live(s) => stack[s] > BootStack)

(* Slots above task_count have never been used. *)
FreshSlots == \A s \in Slots : s >= task_count => state[s] = "FREE"

IInv ==
  /\ TypeOK
  /\ TaskPlacement
  /\ TimesliceLive
  /\ PendingSwitchWindow
  /\ ContextIsCurrent
  /\ ActiveFirst
  /\ RingOK
  /\ StackOrder
  /\ FreshSlots

(***************************************************************************)
(* Sequences and run queues                                                *)
(***************************************************************************)
(* A queue without repetitions that misses a slot is not full: rq_push     *)
(* never drops a task.                                                     *)
LEMMA QueueHasRoom ==
  ASSUME NEW q \in Seq(Slots), NEW t \in Slots,
         \A i, j \in 1 .. Len(q) : q[i] = q[j] => i = j,
         \A i \in 1 .. Len(q) : q[i] # t
  PROVE  Len(q) < MAX_TASKS
<1>1. MAX_TASKS \in Nat /\ Len(q) \in Nat
  BY SchedConstants
<1>2. IsFiniteSet(Slots) /\ Cardinality(Slots) = MAX_TASKS
  <2>1. 0 \in Int /\ MAX_TASKS - 1 \in Int /\ MAX_TASKS >= 1
    BY SchedConstants
  <2>2. /\ IsFiniteSet(0 .. MAX_TASKS - 1)
        /\ Cardinality(0 .. MAX_TASKS - 1) =
             IF 0 > MAX_TASKS - 1 THEN 0 ELSE MAX_TASKS - 1 - 0 + 1
    BY <2>1, FS_Interval
  <2> QED
    BY <1>1, <2>1, <2>2 DEF Slots
<1>3. IsFiniteSet(Slots \ {t}) /\ Cardinality(Slots \ {t}) = MAX_TASKS - 1
  BY <1>2, FS_RemoveElement
<1>4. q \in [1 .. Len(q) -> Slots \ {t}]
  OBVIOUS
<1>5. q \in Injection(1 .. Len(q), Slots \ {t})
  BY <1>4 DEF Injection, IsInjective
<1>6. Cardinality(1 .. Len(q)) <= Cardinality(Slots \ {t})
  BY <1>3, <1>5, FS_Injection
<1>7. Cardinality(1 .. Len(q)) = Len(q)
  <2>1. 1 \in Int /\ Len(q) \in Int
    BY <1>1
  <2>2. Cardinality(1 .. Len(q)) = IF 1 > Len(q) THEN 0 ELSE Len(q) - 1 + 1
    BY <2>1, FS_Interval
  <2> QED
    BY <1>1, <2>2
<1> QED
  BY <1>1, <1>3, <1>6, <1>7

(* Pushing a task that is in no queue, and marking it READY. *)
LEMMA PushOK ==
  ASSUME NEW q, NEW st \in [Tasks -> States], NEW pr \in [Tasks -> Levels],
         NEW t \in Slots, QueueOK(q, st, pr), st[t] # "READY"
  PROVE  QueueOK(rq_push(q, pr[t], t), [st EXCEPT ![t] = "READY"], pr)
<1> DEFINE p == pr[t]
           n == Len(q[p])
           u == [q EXCEPT ![p] = Append(q[p], t)]
<1>0. t \in Tasks /\ p \in Levels /\ q \in [Levels -> Seq(Slots)] /\ n \in Nat
  BY DEF Tasks, QueueOK
<1>1. \A o \in Levels : \A i \in 1 .. Len(q[o]) : q[o][i] # t
  BY <1>0 DEF QueueOK, Queued, AtLevel
<1>2. n < MAX_TASKS
  BY <1>0, <1>1, QueueHasRoom DEF QueueOK, Unique
<1>3. rq_push(q, p, t) = u
  BY <1>0, <1>2, SchedConstants DEF rq_push
<1>4. /\ u \in [Levels -> Seq(Slots)]
      /\ Len(u[p]) = n + 1 /\ u[p][n + 1] = t
      /\ \A i \in 1 .. n : u[p][i] = q[p][i]
      /\ \A o \in Levels \ {p} : u[o] = q[o]
  BY <1>0
<1>5. Unique(u)
  BY <1>0, <1>1, <1>4 DEF QueueOK, Unique
<1>6. AtLevel(u, pr)
  BY <1>0, <1>4 DEF QueueOK, AtLevel
<1>7. Queued(u, [st EXCEPT ![t] = "READY"], pr)
  <2> SUFFICES ASSUME NEW s \in Slots
               PROVE  [st EXCEPT ![t] = "READY"][s] = "READY" <=>
                        \E i \in 1 .. Len(u[pr[s]]) : u[pr[s]][i] = s
    BY DEF Queued
  <2>0. s \in Tasks /\ pr[s] \in Levels
    BY DEF Tasks
  <2>1. CASE s = t
    BY <1>0, <1>4, <2>0, <2>1
  <2>2. CASE s # t
    <3>1. st[s] = "READY" <=> \E i \in 1 .. Len(q[pr[s]]) : q[pr[s]][i] = s
      BY DEF QueueOK, Queued
    <3> QED
      BY <1>0, <1>4, <2>0, <2>2, <3>1
  <2> QED
    BY <2>1, <2>2
<1> QED
  BY <1>3, <1>4, <1>5, <1>6, <1>7 DEF QueueOK

(* Popping the head of a queue, and marking it RUNNING. *)
LEMMA PopOK ==
  ASSUME NEW q, NEW st \in [Tasks -> States], NEW pr \in [Tasks -> Levels],
         NEW p \in Levels, QueueOK(q, st, pr), q[p] # <<>>
  PROVE  /\ Head(q[p]) \in Slots
         /\ pr[Head(q[p])] = p
         /\ st[Head(q[p])] = "READY"
         /\ QueueOK(rq_pop(q, p), [st EXCEPT ![Head(q[p])] = "RUNNING"], pr)
<1> DEFINE t == Head(q[p])
           n == Len(q[p])
           u == [q EXCEPT ![p] = Tail(q[p])]
           w == [st EXCEPT ![t] = "RUNNING"]
<1>0. q \in [Levels -> Seq(Slots)] /\ n \in Nat /\ n >= 1 /\ t = q[p][1]
  BY DEF QueueOK
<1>1. t \in Slots /\ t \in Tasks
  BY <1>0 DEF Tasks
<1>2. pr[t] = p
  BY <1>0 DEF QueueOK, AtLevel
<1>3. st[t] = "READY"
  BY <1>0, <1>1, <1>2 DEF QueueOK, Queued
<1>4. /\ u \in [Levels -> Seq(Slots)]
      /\ Len(u[p]) = n - 1
      /\ \A i \in 1 .. n - 1 : u[p][i] = q[p][i + 1]
      /\ \A o \in Levels \ {p} : u[o] = q[o]
  BY <1>0
<1>5. Unique(u)
  <2> SUFFICES ASSUME NEW o \in Levels, NEW r \in Levels,
                      NEW i \in 1 .. Len(u[o]), NEW j \in 1 .. Len(u[r]),
                      u[o][i] = u[r][j]
               PROVE  o = r /\ i = j
    BY DEF Unique
  <2>1. \A a, b \in Levels : \A k \in 1 .. Len(q[a]), l \in 1 .. Len(q[b]) :
          q[a][k] = q[b][l] => a = b /\ k = l
    BY DEF QueueOK, Unique
  <2>2. CASE o = p /\ r = p
    BY <1>0, <1>4, <2>1, <2>2
  <2>3. CASE o = p /\ r # p
    BY <1>0, <1>4, <2>1, <2>3
  <2>4. CASE o # p /\ r = p
    BY <1>0, <1>4, <2>1, <2>4
  <2>5. CASE o # p /\ r # p
    BY <1>0, <1>4, <2>1, <2>5
  <2> QED
    BY <2>2, <2>3, <2>4, <2>5
<1>6. AtLevel(u, pr)
  <2> SUFFICES ASSUME NEW o \in Levels, NEW i \in 1 .. Len(u[o])
               PROVE  pr[u[o][i]] = o
    BY DEF AtLevel
  <2>1. \A k \in 1 .. Len(q[o]) : pr[q[o][k]] = o
    BY DEF QueueOK, AtLevel
  <2>2. CASE o = p
    BY <1>0, <1>4, <2>1, <2>2
  <2>3. CASE o # p
    BY <1>4, <2>1, <2>3
  <2> QED
    BY <2>2, <2>3
<1>7. Queued(u, w, pr)
  <2> SUFFICES ASSUME NEW s \in Slots
               PROVE  w[s] = "READY" <=> \E i \in 1 .. Len(u[pr[s]]) : u[pr[s]][i] = s
    BY DEF Queued
  <2>0. s \in Tasks /\ pr[s] \in Levels
    BY DEF Tasks
  <2>1. CASE s = t
    <3>1. \A i \in 2 .. n : q[p][i] # t
      BY <1>0 DEF QueueOK, Unique
    <3> QED
      BY <1>0, <1>1, <1>2, <1>4, <2>1, <3>1
  <2>2. CASE s # t
    <3>1. st[s] = "READY" <=> \E i \in 1 .. Len(q[pr[s]]) : q[pr[s]][i] = s
      BY DEF QueueOK, Queued
    <3>2. w[s] = st[s]
      BY <2>0, <2>2
    <3>3. CASE pr[s] = p
      <4>1. ASSUME NEW i \in 1 .. n, q[p][i] = s
            PROVE  i - 1 \in 1 .. n - 1 /\ u[p][i - 1] = s
        BY <1>0, <1>4, <2>2, <4>1
      <4>2. ASSUME NEW i \in 1 .. n - 1, u[p][i] = s
            PROVE  i + 1 \in 1 .. n /\ q[p][i + 1] = s
        BY <1>0, <1>4, <4>2
      <4>3. (\E i \in 1 .. n : q[p][i] = s) <=> (\E i \in 1 .. n - 1 : u[p][i] = s)
        BY <4>1, <4>2
      <4> QED
        BY <1>4, <3>1, <3>2, <3>3, <4>3
    <3>4. CASE pr[s] # p
      BY <1>4, <2>0, <3>1, <3>2, <3>4
    <3> QED
      BY <3>3, <3>4
  <2> QED
    BY <2>1, <2>2
<1> QED
  BY <1>1, <1>2, <1>3, <1>4, <1>5, <1>6, <1>7 DEF QueueOK, rq_pop

(***************************************************************************)
(* sched_irq_end                                                           *)
(***************************************************************************)
(* What a switch to next, or a return to it, leaves. *)
Switched(next, st, frame) ==
  /\ cur' = next
  /\ state' = [st EXCEPT ![next] = "RUNNING"]
  /\ IF next = cur
     THEN cpu' = frame /\ tss_rsp0' = tss_rsp0 /\ loaded_cr3' = loaded_cr3
     ELSE /\ cpu' = rsp[next]
          /\ tss_rsp0' = IF is_user[next] THEN stack[next] ELSE tss_rsp0
          /\ loaded_cr3' = WantCr3(next)

(* The scan of the run queues ends in a switch to a READY task, or to idle. *)
LEMMA PickNextOK ==
  ASSUME NEW q, NEW st \in [Tasks -> States], NEW frame,
         priority \in [Tasks -> Levels], QueueOK(q, st, priority),
         PickNext(q, st, frame)
  PROVE  \E next \in Tasks : /\ Switched(next, st, frame)
                             /\ next # Idle => st[next] = "READY"
                             /\ QueueOK(rq', state', priority)
<1>0. Idle \in Tasks /\ Idle \notin Slots
  BY DEF Tasks, Slots, Idle
<1>1. ASSUME NEW p \in Levels, TopLevel(q, p), rq' = rq_pop(q, p),
             Dispatch(Head(q[p]), st, frame)
      PROVE  \E next \in Tasks : /\ Switched(next, st, frame)
                                 /\ next # Idle => st[next] = "READY"
                                 /\ QueueOK(rq', state', priority)
  <2> DEFINE t == Head(q[p])
  <2>1. q[p] # <<>>
    BY <1>1 DEF TopLevel
  <2>2. /\ t \in Slots /\ st[t] = "READY"
        /\ QueueOK(rq_pop(q, p), [st EXCEPT ![t] = "RUNNING"], priority)
    <3>1. Head(q[p]) \in Slots
      BY <2>1, PopOK, ZenonT(60)
    <3>2. st[Head(q[p])] = "READY"
      BY <2>1, PopOK, ZenonT(60)
    <3>3. QueueOK(rq_pop(q, p), [st EXCEPT ![Head(q[p])] = "RUNNING"], priority)
      BY <2>1, PopOK, ZenonT(60)
    <3> QED
      BY <3>1, <3>2, <3>3
  <2>3. Switched(t, st, frame)
    BY <1>1 DEF Dispatch, Resume, SwitchTo, Switched
  <2>4. state' = [st EXCEPT ![t] = "RUNNING"]
    BY <2>3 DEF Switched
  <2>5. t \in Tasks
    BY <2>2 DEF Tasks
  <2> QED
    BY <1>1, <2>2, <2>3, <2>4, <2>5
<1>2. ASSUME rq' = q, Dispatch(Idle, st, frame)
      PROVE  \E next \in Tasks : /\ Switched(next, st, frame)
                                 /\ next # Idle => st[next] = "READY"
                                 /\ QueueOK(rq', state', priority)
  <2>1. Switched(Idle, st, frame)
    BY <1>2 DEF Dispatch, Resume, SwitchTo, Switched
  <2>2. \A s \in Slots : state'[s] = st[s]
    BY <1>0, <2>1 DEF Switched, Tasks
  <2>3. QueueOK(rq', state', priority)
    BY <1>2, <2>2 DEF QueueOK, Queued
  <2> QED
    BY <1>0, <2>1, <2>3
<1> QED
  BY <1>1, <1>2 DEF PickNext

(* The invariant survives a switch away from, or back to, the interrupted  *)
(* context: w and q are the states and the queues after the requeue.       *)
LEMMA SwitchOK ==
  ASSUME IInv, scheduler_active, UNCHANGED irqFixed,
         NEW w \in [Tasks -> States], NEW q, NEW frame \in Context,
         QueueOK(q, w, priority),
         \A s \in Tasks \ {cur} : w[s] = state[s],
         cur # Idle => \/ w[cur] = "READY" /\ state[cur] = "RUNNING"
                       \/ w[cur] = "DONE",
         frame.stack = stack[cur],
         frame.at \in {"user", "poll"} => is_user[cur],
         PickNext(q, w, frame),
         rsp' = [rsp EXCEPT ![cur] = frame],
         want_schedule' = FALSE,
         timeslice' \in [Tasks -> Nat],
         \A s \in Slots : w[s] = "READY" => timeslice'[s] \in 1 .. Quantum[priority[s]]
  PROVE  IInv'
<1> USE DEF IInv
<1>0. /\ Idle \in Tasks /\ Idle \notin Slots /\ Slots \subseteq Tasks
      /\ Tasks = Slots \cup {Idle}
  BY DEF Tasks, Slots, Idle
<1>1. /\ state \in [Tasks -> States] /\ cur \in Tasks
      /\ priority \in [Tasks -> Levels] /\ priority' = priority
      /\ is_user' = is_user /\ cr3' = cr3 /\ stack' = stack
      /\ stacks' = stacks /\ scheduler_active' = scheduler_active
      /\ task_count' = task_count /\ user_stack_next' = user_stack_next
  BY DEF TypeOK, irqFixed
<1>2. PICK next \in Tasks : /\ Switched(next, w, frame)
                            /\ next # Idle => w[next] = "READY"
                            /\ QueueOK(rq', state', priority)
  BY <1>1, PickNextOK
<1>3. cur' = next /\ state' \in [Tasks -> States]
      /\ state' = [w EXCEPT ![next] = "RUNNING"]
  BY <1>2 DEF Switched, States
<1>4. \A s \in Slots : w[s] # "RUNNING" /\ (w[s] = "READY" => Live(s))
  BY <1>0, <1>1 DEF TaskPlacement, Live
<1>5. \A s \in Slots : /\ state'[s] = "RUNNING" <=> s = next
                       /\ state'[s] = "READY" => w[s] = "READY" /\ s # next
  BY <1>0, <1>3, <1>4
<1>6. \A s \in Slots : Live(s)' => w[s] = "READY" /\ Live(s)
  BY <1>2, <1>3, <1>4, <1>5, <1>0, SMT DEF Live
<1>7. TypeOK'
  <2>1. cpu' \in Context /\ rsp' \in [Tasks -> Context]
    BY <1>1, <1>2 DEF Switched, TypeOK
  <2>2. tss_rsp0' \in 0 .. MaxStacks /\ loaded_cr3' \in CR3s \cup {MASTER_CR3}
    BY <1>1, <1>2, ZenonT(60) DEF Switched, TypeOK, WantCr3
  <2>3. rq' \in [Levels -> Seq(Slots)]
    BY <1>2 DEF QueueOK
  <2> QED
    BY <1>1, <1>3, <2>1, <2>2, <2>3, ZenonT(60) DEF TypeOK
<1>8. TaskPlacement'
  <2>1. QueueOK(rq', state', priority')
    BY <1>1, <1>2
  <2>2. cur' # Idle => state'[cur'] = "RUNNING"
    BY <1>3
  <2> QED
    BY <1>3, <1>5, <2>1, <2>2, SMT DEF TaskPlacement, QueueOK, Unique, Queued, AtLevel
<1>9. TimesliceLive'
  BY <1>1, <1>6 DEF TimesliceLive
<1>10. PendingSwitchWindow' /\ ActiveFirst'
  BY <1>1 DEF PendingSwitchWindow, ActiveFirst
<1>11. StackOrder'
  BY <1>1, <1>6 DEF StackOrder
<1>12. RingOK'
  <2>1. \A s \in Slots : state'[s] = "READY" /\ rsp'[s].at \in {"user", "poll"} => is_user[s]
    BY <1>0, <1>1, <1>5, SMT DEF RingOK, TypeOK
  <2>2. rsp'[Idle].at \notin {"user", "poll"}
    BY <1>0, <1>1, ZenonT(60) DEF RingOK, TypeOK
  <2>3. CASE next = cur
    BY <1>1, <1>2, <1>3, <2>1, <2>2, <2>3, ZenonT(60) DEF RingOK, Switched
  <2>4. CASE next # cur
    <3>1. cpu' = rsp[next] /\ (next # Idle => state[next] = "READY")
      BY <1>2, <2>4, ZenonT(60) DEF Switched
    <3> QED
      BY <1>0, <1>1, <1>3, <2>1, <2>2, <3>1 DEF RingOK
  <2> QED
    BY <2>3, <2>4, SMT
<1>13. ContextIsCurrent'
  <2>1. \A s \in Slots : state'[s] = "READY" => rsp'[s].stack = stack[s]
    BY <1>0, <1>1, <1>5, ZenonT(60) DEF ContextIsCurrent, TypeOK
  <2>2. rsp'[Idle].stack = BootStack
    BY <1>0, <1>1, ZenonT(60) DEF ContextIsCurrent, StackOrder, TypeOK
  <2>3. \A s, r \in Tasks : Live(s)' /\ Live(r)' /\ stack[s] = stack[r] => s = r
    <3>1. \A s, r \in Slots : Live(s)' /\ Live(r)' /\ stack[s] = stack[r] => s = r
      BY <1>0, <1>6, ZenonT(60) DEF ContextIsCurrent
    <3>2. \A s \in Slots : Live(s)' => stack[s] > BootStack
      BY <1>6, ZenonT(60) DEF StackOrder
    <3>3. \A s \in Slots : Live(s)' => stack[s] # stack[Idle]
      <4>1. stack[Idle] = BootStack
        BY ZenonT(60) DEF StackOrder
      <4> QED
        BY <3>2, <4>1 DEF BootStack
    <3> QED
      BY <1>0, <3>1, <3>3, ZenonT(60)
  <2>4. /\ cpu'.stack = stack[next]
        /\ is_user[next] => tss_rsp0' = stack[next]
        /\ loaded_cr3' = WantCr3(next)
    <3>1. CASE next = cur
      BY <1>2, <3>1 DEF Switched, ContextIsCurrent
    <3>2. CASE next # cur
      <4>1. rsp[next].stack = stack[next]
        BY <1>0, <1>2, <3>2 DEF ContextIsCurrent, StackOrder
      <4> QED
        BY <1>2, <3>2, <4>1, ZenonT(60) DEF Switched
    <3> QED
      BY <3>1, <3>2, ZenonT(60)
  <2>5. WantCr3(next) = WantCr3(cur)'
    BY <1>1, <1>3 DEF WantCr3
  <2> QED
    BY <1>1, <1>3, <2>1, <2>2, <2>3, <2>4, <2>5, SMT DEF ContextIsCurrent
<1>14. FreshSlots'
  <2>1. \A s \in Slots : state[s] = "FREE" => s # cur /\ w[s] = "FREE" /\ s # next
    BY <1>0, <1>1, <1>2 DEF TaskPlacement
  <2> QED
    BY <1>0, <1>1, <1>3, <2>1, ZenonT(60) DEF FreshSlots
<1> QED
  BY <1>7, <1>8, <1>9, <1>10, <1>11, <1>12, <1>13, <1>14

(* What a handler hands to sched_irq_end. *)
HandlerOK(st, ts, want, frame) ==
  /\ st \in [Tasks -> States]
  /\ ts \in [Tasks -> Nat]
  /\ want \in BOOLEAN
  /\ frame \in Context
  /\ \A s \in Tasks \ {cur} : st[s] = state[s] /\ ts[s] = timeslice[s]
  /\ st[cur] = state[cur] \/ (cur # Idle /\ st[cur] = "DONE")
  /\ cur # Idle /\ st[cur] = "RUNNING" => ts[cur] \in 1 .. Quantum[priority[cur]]
  /\ cur # Idle /\ st[cur] = "DONE" => \/ want /\ scheduler_active
                                       \/ frame.at \in {"exiting", "exited"}
  /\ frame.stack = stack[cur]
  /\ frame.at \in {"user", "poll"} => is_user[cur]
  /\ ~scheduler_active => ~want /\ frame.at = "kernel"

(* sched_irq_end preserves the invariant after any handler. *)
LEMMA IrqEndOK ==
  ASSUME IInv, NEW st, NEW ts, NEW want, NEW frame,
         HandlerOK(st, ts, want, frame),
         sched_irq_end(st, ts, want, frame), UNCHANGED irqFixed
  PROVE  IInv'
<1>0. /\ Idle \in Tasks /\ Idle \notin Slots /\ Slots \subseteq Tasks
      /\ Tasks = Slots \cup {Idle}
  BY DEF Tasks, Slots, Idle
<1>1. /\ state \in [Tasks -> States] /\ cur \in Tasks
      /\ priority \in [Tasks -> Levels] /\ priority' = priority
      /\ is_user' = is_user /\ cr3' = cr3 /\ stack' = stack
      /\ stacks' = stacks /\ scheduler_active' = scheduler_active
      /\ task_count' = task_count /\ user_stack_next' = user_stack_next
  BY DEF IInv, TypeOK, irqFixed
<1>2. cur # Idle => state[cur] \in {"RUNNING", "DONE"} /\ st[cur] \in {"RUNNING", "DONE"}
  BY <1>1, ZenonT(60) DEF IInv, TaskPlacement, HandlerOK
<1>3. QueueOK(rq, st, priority)
  <2>1. QueueOK(rq, state, priority)
    BY DEF IInv, TypeOK, TaskPlacement, QueueOK, Unique, Queued, AtLevel
  <2>2. \A s \in Slots : st[s] = "READY" <=> state[s] = "READY"
    BY <1>0, <1>1, <1>2 DEF HandlerOK
  <2> QED
    BY <2>1, <2>2 DEF QueueOK, Queued
<1>4. \A s \in Slots : st[s] = "READY" =>
        s # cur /\ state[s] = "READY" /\ ts[s] \in 1 .. Quantum[priority[s]]
  BY <1>0, <1>1, <1>2 DEF HandlerOK, IInv, TimesliceLive, Live
<1>5. ASSUME state' = st, cur' = cur, cpu' = frame, rq' = rq,
             tss_rsp0' = tss_rsp0, loaded_cr3' = loaded_cr3,
             rsp' = rsp \/ rsp' = [rsp EXCEPT ![cur] = frame],
             timeslice' \in [Tasks -> Nat],
             \A s \in Slots \ {cur} : timeslice'[s] = ts[s],
             cur # Idle /\ st[cur] = "RUNNING" =>
               timeslice'[cur] \in 1 .. Quantum[priority[cur]],
             cur # Idle /\ st[cur] = "DONE" => frame.at \in {"exiting", "exited"},
             want_schedule' = FALSE
      PROVE  IInv'
  <2>1. \A s \in Slots : Live(s)' => Live(s)
    BY <1>0, <1>1, <1>2, <1>5, SMT DEF Live, HandlerOK
  <2>2. TypeOK'
    BY <1>1, <1>5, ZenonT(60) DEF IInv, TypeOK, HandlerOK
  <2>3. TaskPlacement'
    <3>1. QueueOK(rq', state', priority')
      BY <1>1, <1>3, <1>5
    <3>2. \A s \in Slots : state'[s] = "RUNNING" => s = cur'
      <4>1. \A s \in Slots : state[s] = "RUNNING" => s = cur
        BY DEF IInv, TaskPlacement
      <4>2. \A s \in Slots \ {cur} : state'[s] = state[s]
        BY <1>0, <1>5, ZenonT(60) DEF HandlerOK
      <4> QED
        BY <1>5, <4>1, <4>2, ZenonT(60)
    <3>3. cur' # Idle => \/ state'[cur'] = "RUNNING"
                         \/ state'[cur'] = "DONE" /\ cpu'.at \in {"exiting", "exited"}
      BY <1>2, <1>5, SMT
    <3> QED
      BY <3>1, <3>2, <3>3, ZenonT(60) DEF TaskPlacement, QueueOK, Unique, Queued, AtLevel
  <2>4. TimesliceLive'
    <3>1. ASSUME NEW s \in Slots, Live(s)'
          PROVE  timeslice'[s] \in 1 .. Quantum[priority[s]]
      <4>1. CASE s = cur
        <5>1. cur # Idle /\ st[cur] = "RUNNING"
          BY <1>0, <1>2, <1>5, <3>1, <4>1 DEF Live
        <5> QED
          BY <1>5, <4>1, <5>1
      <4>2. CASE s # cur
        <5>1. state[s] = st[s] /\ timeslice'[s] = timeslice[s]
          BY <1>0, <1>5, <4>2 DEF HandlerOK
        <5>2. Live(s)
          BY <2>1, <3>1, ZenonT(60)
        <5> QED
          BY <5>1, <5>2 DEF IInv, TimesliceLive
      <4> QED
        BY <4>1, <4>2
    <3> QED
      BY <1>1, <3>1 DEF TimesliceLive
  <2>5. PendingSwitchWindow' /\ ActiveFirst'
    BY <1>1, <1>5 DEF IInv, PendingSwitchWindow, ActiveFirst, HandlerOK
  <2>6. StackOrder'
    BY <1>1, <2>1, ZenonT(60) DEF IInv, StackOrder
  <2>7. \A s \in Slots : state'[s] = "READY" => s # cur /\ state[s] = "READY" /\ rsp'[s] = rsp[s]
    BY <1>0, <1>1, <1>4, <1>5, ZenonT(60) DEF IInv, TypeOK
  <2>8. rsp'[Idle].stack = BootStack /\ rsp'[Idle].at \notin {"user", "poll"}
    BY <1>0, <1>1, <1>5, ZenonT(60) DEF IInv, TypeOK, RingOK, ContextIsCurrent, StackOrder, HandlerOK
  <2>9. RingOK'
    BY <1>1, <1>5, <2>7, <2>8, ZenonT(60) DEF IInv, RingOK, HandlerOK
  <2>10. ContextIsCurrent'
    <3>1. \A s, r \in Tasks : Live(s)' /\ Live(r)' /\ stack[s] = stack[r] => s = r
      <4>1. state'[Idle] = state[Idle]
        BY <1>0, <1>5 DEF HandlerOK
      <4>2. Live(Idle)' => Live(Idle)
        BY <4>1, ZenonT(60) DEF Live
      <4>3. \A s \in Tasks : Live(s)' => Live(s)
        BY <1>0, <2>1, <4>2, ZenonT(60)
      <4> QED
        BY <4>3, ZenonT(60) DEF IInv, ContextIsCurrent
    <3>2. WantCr3(cur)' = WantCr3(cur)
      BY <1>1, <1>5 DEF WantCr3
    <3>3. cpu'.stack = stack'[cur'] /\ (is_user'[cur'] => tss_rsp0' = stack'[cur'])
      BY <1>1, <1>5, ZenonT(60) DEF IInv, ContextIsCurrent, HandlerOK
    <3>4. loaded_cr3' = WantCr3(cur)'
      BY <1>5, <3>2, ZenonT(60) DEF IInv, ContextIsCurrent
    <3>5. \A s \in Slots : state'[s] = "READY" => rsp'[s].stack = stack'[s]
      BY <1>1, <2>7, ZenonT(60) DEF IInv, ContextIsCurrent
    <3>6. \A s, r \in Tasks : Live(s)' /\ Live(r)' /\ stack'[s] = stack'[r] => s = r
      BY <1>1, <3>1, ZenonT(60)
    <3> QED
      BY <2>8, <3>3, <3>4, <3>5, <3>6, ZenonT(60) DEF ContextIsCurrent
  <2>11. FreshSlots'
    BY <1>0, <1>1, <1>2, <1>5, ZenonT(60) DEF IInv, FreshSlots, HandlerOK
  <2> QED
    BY <2>2, <2>3, <2>4, <2>5, <2>6, <2>9, <2>10, <2>11, ZenonT(60) DEF IInv
<1>6. CASE NoSwitch(st, ts, want, frame)
  <2>1. want = FALSE
    BY <1>6 DEF NoSwitch, HandlerOK
  <2> QED
    BY <1>0, <1>5, <1>6, <2>1, ZenonT(60) DEF NoSwitch, HandlerOK
<1>7. ASSUME scheduler_active, want_schedule' = FALSE,
             rsp' = [rsp EXCEPT ![cur] = frame], QuantumLeft(st, ts, frame)
      PROVE  IInv'
  <2>1. ts[cur] \in 1 .. Quantum[priority[cur]] /\ ts[cur] # 1
    BY <1>7 DEF QuantumLeft, HandlerOK
  <2>2. Quantum[priority[cur]] \in Nat
    BY <1>1, SchedConstants
  <2>3. ts[cur] \in Nat /\ ts[cur] - 1 \in 1 .. Quantum[priority[cur]]
    BY <2>1, <2>2
  <2>4. timeslice' = [ts EXCEPT ![cur] = ts[cur] - 1]
    BY <1>7 DEF QuantumLeft
  <2>5. timeslice' \in [Tasks -> Nat] /\ timeslice'[cur] = ts[cur] - 1
        /\ \A s \in Slots \ {cur} : timeslice'[s] = ts[s]
    BY <1>0, <1>1, <2>3, <2>4 DEF HandlerOK
  <2> QED
    BY <1>5, <1>7, <2>3, <2>5, ZenonT(60) DEF QuantumLeft
<1>8. ASSUME scheduler_active, want_schedule' = FALSE,
             rsp' = [rsp EXCEPT ![cur] = frame], QuantumExpired(st, ts, frame)
      PROVE  IInv'
  <2> DEFINE w == [st EXCEPT ![cur] = "READY"]
             q == rq_push(rq, priority[cur], cur)
  <2>1. cur \in Slots /\ st[cur] = "RUNNING"
    BY <1>0, <1>1, <1>8 DEF QuantumExpired
  <2>2. st \in [Tasks -> States] /\ w \in [Tasks -> States] /\ w[cur] = "READY"
        /\ \A s \in Tasks \ {cur} : w[s] = state[s]
    BY <1>1 DEF HandlerOK, States
  <2>3. QueueOK(q, w, priority)
    BY <1>1, <1>3, <2>1, <2>2, PushOK, ZenonT(60)
  <2>4. Quantum[priority[cur]] \in Nat \ {0}
    BY <1>1, SchedConstants
  <2>5. timeslice' = [ts EXCEPT ![cur] = Quantum[priority[cur]]]
    BY <1>8, ZenonT(60) DEF QuantumExpired
  <2>6. /\ timeslice' \in [Tasks -> Nat]
        /\ \A s \in Slots : w[s] = "READY" => timeslice'[s] \in 1 .. Quantum[priority[s]]
    <3>1. ts \in [Tasks -> Nat] /\ timeslice' \in [Tasks -> Nat]
      BY <2>4, <2>5, ZenonT(60) DEF HandlerOK
    <3>2. timeslice'[cur] \in 1 .. Quantum[priority[cur]]
      BY <1>1, <2>4, <2>5, <3>1
    <3>3. ASSUME NEW s \in Slots, s # cur, w[s] = "READY"
          PROVE  timeslice'[s] \in 1 .. Quantum[priority[s]]
      <4>1. timeslice'[s] = ts[s] /\ st[s] = "READY"
        BY <1>0, <2>2, <2>5, <3>1, <3>3
      <4> QED
        BY <1>4, <4>1, ZenonT(60)
    <3> QED
      BY <3>1, <3>2, <3>3, ZenonT(60)
  <2>7. PickNext(q, w, frame)
    BY <1>8 DEF QuantumExpired
  <2>8. state[cur] = "RUNNING" /\ frame \in Context /\ frame.stack = stack[cur]
        /\ (frame.at \in {"user", "poll"} => is_user[cur])
    BY <2>1, SMT DEF HandlerOK
  <2> HIDE DEF w, q
  <2> QED
    BY <1>8, <2>2, <2>3, <2>6, <2>7, <2>8, SwitchOK, ZenonT(60)
<1>9. ASSUME scheduler_active, want_schedule' = FALSE,
             rsp' = [rsp EXCEPT ![cur] = frame], NotRequeued(st, ts, frame)
      PROVE  IInv'
  <2>1. cur # Idle => st[cur] = "DONE"
    BY <1>2, <1>9 DEF NotRequeued
  <2>2. /\ st \in [Tasks -> States] /\ frame \in Context /\ frame.stack = stack[cur]
        /\ frame.at \in {"user", "poll"} => is_user[cur]
        /\ \A s \in Tasks \ {cur} : st[s] = state[s]
    BY SMT DEF HandlerOK
  <2>3. timeslice' \in [Tasks -> Nat] /\ PickNext(rq, st, frame)
        /\ \A s \in Slots : st[s] = "READY" => timeslice'[s] \in 1 .. Quantum[priority[s]]
    BY <1>4, <1>9 DEF NotRequeued, HandlerOK
  <2> QED
    BY <1>3, <1>9, <2>1, <2>2, <2>3, SwitchOK, ZenonT(60)
<1> QED
  BY <1>6, <1>7, <1>8, <1>9, ZenonT(60) DEF sched_irq_end

(***************************************************************************)
(* The actions                                                             *)
(***************************************************************************)
(* The frame the stubs save lies on the interrupted task's own stack. *)
LEMMA TrapFrameOK ==
  ASSUME IInv
  PROVE  /\ TrapFrame \in Context /\ TrapFrame.stack = stack[cur]
         /\ TrapFrame.at = cpu.at
         /\ cpu \in Context
         /\ cpu.at \in {"user", "poll"} => is_user[cur] /\ cur # Idle
<1>1. cpu.at \in {"user", "poll"} => is_user[cur] /\ cur # Idle
  BY DEF IInv, RingOK
<1> QED
  BY <1>1 DEF IInv, TypeOK, ContextIsCurrent, TrapFrame, Context, Points

(* Handlers that touch neither the state nor the slice of the task. *)
LEMMA PlainHandlerOK ==
  ASSUME IInv, NEW want \in BOOLEAN, NEW frame \in Context,
         frame.stack = stack[cur],
         frame.at \in {"user", "poll"} => is_user[cur],
         ~scheduler_active => ~want /\ frame.at = "kernel",
         cur # Idle /\ state[cur] = "DONE" => \/ want /\ scheduler_active
                                              \/ frame.at \in {"exiting", "exited"}
  PROVE  HandlerOK(state, timeslice, want, frame)
<1>1. cur # Idle => cur \in Slots
  BY DEF IInv, TypeOK, Tasks
<1> QED
  BY <1>1 DEF HandlerOK, IInv, TypeOK, TimesliceLive, Live

(* irq0: the tick, the slice and the switch at its end keep the invariant. *)
LEMMA TimerIrqOK == IInv /\ TimerIrq => IInv'
<1> SUFFICES ASSUME IInv, TimerIrq PROVE IInv'
  OBVIOUS
<1>1. (want_schedule \/ scheduler_active) \in BOOLEAN
      /\ (~scheduler_active => ~(want_schedule \/ scheduler_active) /\ TrapFrame.at = "kernel")
  BY TrapFrameOK DEF IInv, TypeOK, ActiveFirst
<1>2. cur # Idle => scheduler_active
  BY DEF IInv, ActiveFirst
<1>3. HandlerOK(state, timeslice, want_schedule \/ scheduler_active, TrapFrame)
  BY <1>1, <1>2, TrapFrameOK, PlainHandlerOK, ZenonT(60)
<1> QED
  BY <1>3, IrqEndOK DEF TimerIrq

(* Any other irq: the handler leaves the tasks alone, and the stub may      *)
(* still switch.                                                           *)
LEMMA DeviceIrqOK == IInv /\ DeviceIrq => IInv'
<1> SUFFICES ASSUME IInv, DeviceIrq PROVE IInv'
  OBVIOUS
<1>1. want_schedule \in BOOLEAN
      /\ (~scheduler_active => ~want_schedule /\ TrapFrame.at = "kernel")
  BY TrapFrameOK DEF IInv, TypeOK, ActiveFirst
<1>2. cur # Idle /\ state[cur] = "DONE" => TrapFrame.at \in {"exiting", "exited"}
  BY TrapFrameOK DEF IInv, TaskPlacement
<1>3. HandlerOK(state, timeslice, want_schedule, TrapFrame)
  BY <1>1, <1>2, TrapFrameOK, PlainHandlerOK
<1> QED
  BY <1>3, IrqEndOK DEF DeviceIrq

(* SYS_EXIT and a ring3 fault: the current task is DONE before the stub     *)
(* switches away from it.                                                  *)
LEMMA KillOK ==
  ASSUME IInv, cpu.at = "user", sched_kill_current, UNCHANGED irqFixed
  PROVE  IInv'
<1> DEFINE w == [state EXCEPT ![cur] = "DONE"]
<1>1. cur # Idle /\ cur \in Slots /\ scheduler_active /\ cur \in Tasks
  BY TrapFrameOK DEF IInv, TypeOK, Tasks, ActiveFirst
<1>2. w \in [Tasks -> States] /\ w[cur] = "DONE"
      /\ \A s \in Tasks \ {cur} : w[s] = state[s]
  BY <1>1 DEF IInv, TypeOK, States
<1>3. timeslice \in [Tasks -> Nat]
  BY DEF IInv, TypeOK
<1>4. sched_irq_end(w, timeslice, want_schedule \/ cur # Idle, TrapFrame)
  BY <1>1 DEF sched_kill_current
<1>5. (want_schedule \/ cur # Idle) = TRUE
  BY <1>1
<1>6. sched_irq_end(w, timeslice, TRUE, TrapFrame)
  BY <1>4, <1>5, ZenonT(60)
<1>7. HandlerOK(w, timeslice, TRUE, TrapFrame)
  BY <1>1, <1>2, <1>3, TrapFrameOK DEF HandlerOK
<1> HIDE DEF w
<1> QED
  BY <1>6, <1>7, IrqEndOK, ZenonT(60)

(* SYS_YIELD: want_schedule is set and consumed inside one gate.           *)
LEMMA SysYieldOK == IInv /\ SysYield => IInv'
<1> SUFFICES ASSUME IInv, SysYield PROVE IInv'
  OBVIOUS
<1>1. cur # Idle /\ cur \in Slots /\ scheduler_active /\ cur \in Tasks /\ cpu.at = "user"
  BY TrapFrameOK DEF IInv, TypeOK, Tasks, ActiveFirst, SysYield
<1>2. state[cur] = "RUNNING"
  BY <1>1 DEF IInv, TaskPlacement
<1>3. ExpiredSlice = [timeslice EXCEPT ![cur] = 1]
  BY <1>1, <1>2 DEF ExpiredSlice
<1>4. ExpiredSlice \in [Tasks -> Nat] /\ ExpiredSlice[cur] = 1
      /\ \A s \in Tasks \ {cur} : ExpiredSlice[s] = timeslice[s]
  BY <1>1, <1>3 DEF IInv, TypeOK
<1>5. 1 \in 1 .. Quantum[priority[cur]]
  BY <1>1, SchedConstants DEF IInv, TypeOK
<1>6. HandlerOK(state, ExpiredSlice, TRUE, TrapFrame)
  BY <1>1, <1>2, <1>4, <1>5, TrapFrameOK, ZenonT(60) DEF HandlerOK, IInv, TypeOK
<1> QED
  BY <1>6, IrqEndOK, ZenonT(60) DEF SysYield

(* The end of SYS_EVENT_POLL, which ran with interrupts enabled.           *)
LEMMA PollEndOK == IInv /\ SysEventPollEnd => IInv'
<1> SUFFICES ASSUME IInv, SysEventPollEnd PROVE IInv'
  OBVIOUS
<1> DEFINE frame == [cpu EXCEPT !.at = "user"]
<1>1. cpu.at = "poll" /\ cpu \in Context /\ cpu.stack = stack[cur] /\ is_user[cur]
  BY TrapFrameOK DEF IInv, ContextIsCurrent, SysEventPollEnd
<1>2. frame \in Context /\ frame.stack = stack[cur] /\ frame.at = "user"
  <2>1. "user" \in Points
    BY DEF Points
  <2> QED
    BY <1>1, <2>1, SMT DEF Context
<1>3. ~(cur # Idle /\ state[cur] = "DONE")
  BY <1>1 DEF IInv, TaskPlacement
<1>4. want_schedule \in BOOLEAN /\ scheduler_active
  BY <1>1 DEF IInv, TypeOK, ActiveFirst
<1>5. sched_irq_end(state, timeslice, want_schedule, frame) /\ UNCHANGED irqFixed
  BY DEF SysEventPollEnd
<1> HIDE DEF frame
<1>6. HandlerOK(state, timeslice, want_schedule, frame)
  BY <1>1, <1>2, <1>3, <1>4, PlainHandlerOK
<1> QED
  BY <1>5, <1>6, IrqEndOK

(* int $0x20 from sched_yield and from sched_exit. *)
LEMMA SoftIntOK ==
  ASSUME IInv, NEW at \in {"kernel", "dead"},
         scheduler_active,
         sched_irq_end(state, timeslice, want_schedule \/ scheduler_active,
                       [cpu EXCEPT !.at = at]),
         UNCHANGED irqFixed
  PROVE  IInv'
<1> DEFINE frame == [cpu EXCEPT !.at = at]
           want == want_schedule \/ scheduler_active
<1>1. frame \in Context /\ frame.stack = stack[cur] /\ frame.at = at
  BY ZenonT(60) DEF IInv, TypeOK, ContextIsCurrent, Context, Points
<1>2. want \in BOOLEAN /\ want
  BY DEF IInv, TypeOK
<1>3. sched_irq_end(state, timeslice, want, frame)
  OBVIOUS
<1> HIDE DEF frame, want
<1>4. HandlerOK(state, timeslice, want, frame)
  BY <1>1, <1>2, PlainHandlerOK, ZenonT(60)
<1> QED
  BY <1>3, <1>4, IrqEndOK

(* Ring0 steps that leave the tasks and the queues alone. *)
LEMMA KernelStepOK ==
  ASSUME IInv,
         SysEventPoll \/ YieldRequest \/ ExitWant \/ sched_run
  PROVE  IInv'
<1>0. Idle \in Tasks /\ Idle \notin Slots /\ (cur # Idle => cur \in Slots)
  BY DEF IInv, TypeOK, Tasks, Slots, Idle
<1>1. /\ state' = state /\ priority' = priority /\ is_user' = is_user /\ cr3' = cr3
      /\ stack' = stack /\ rsp' = rsp /\ rq' = rq /\ cur' = cur /\ stacks' = stacks
      /\ task_count' = task_count /\ loaded_cr3' = loaded_cr3
      /\ user_stack_next' = user_stack_next /\ tss_rsp0' = tss_rsp0
  BY DEF SysEventPoll, YieldRequest, ExitWant, sched_run, taskVars
<1>2. timeslice' = timeslice
  BY DEF SysEventPoll, YieldRequest, ExitWant, sched_run, taskVars, ExpiredSlice
<1>3. cpu' \in Context /\ cpu'.stack = stack[cur]
      /\ (cpu'.at \in {"user", "poll"} => is_user[cur])
  <2>1. cpu \in Context /\ cpu.stack = stack[cur] /\ tss_rsp0 \in 0 .. MaxStacks
    BY DEF IInv, TypeOK, ContextIsCurrent
  <2>2. CASE SysEventPoll
    <3>1. is_user[cur] /\ tss_rsp0 = stack[cur]
      BY <2>2 DEF SysEventPoll, IInv, RingOK, ContextIsCurrent
    <3>2. "poll" \in Points
      BY DEF Points
    <3> QED
      BY <2>1, <2>2, <3>1, <3>2, SMT DEF SysEventPoll, Context
  <2>3. CASE YieldRequest
    BY <2>1, <2>3 DEF YieldRequest, Context, Points
  <2>4. CASE ExitWant
    BY <2>1, <2>4, ZenonT(60) DEF ExitWant, Context, Points
  <2>5. CASE sched_run
    BY <2>1, <2>5 DEF sched_run, IInv, RingOK
  <2> QED
    BY <2>2, <2>3, <2>4, <2>5
<1>4. want_schedule' \in BOOLEAN /\ scheduler_active' \in BOOLEAN
  BY ZenonT(60) DEF IInv, TypeOK, SysEventPoll, YieldRequest, ExitWant, sched_run
<1>5. cur # Idle => \/ state[cur] = "RUNNING"
                    \/ state[cur] = "DONE" /\ cpu'.at \in {"exiting", "exited"}
  BY DEF IInv, TypeOK, TaskPlacement, Context, SysEventPoll, YieldRequest, ExitWant, sched_run
<1>6. PendingSwitchWindow'
  BY TrapFrameOK, ZenonT(60) DEF IInv, TypeOK, PendingSwitchWindow, Context,
     SysEventPoll, YieldRequest, ExitWant, sched_run
<1>7. \A s \in Tasks : Live(s)' <=> Live(s)
  BY <1>1 DEF Live
<1>8. TypeOK'
  BY <1>1, <1>2, <1>3, <1>4, ZenonT(60) DEF IInv, TypeOK
<1>9. TaskPlacement'
  BY <1>1, <1>5, SMT DEF IInv, TaskPlacement
<1>10. ContextIsCurrent'
  BY <1>1, <1>3, <1>7, ZenonT(60) DEF IInv, ContextIsCurrent, WantCr3
<1>11. RingOK'
  BY <1>1, <1>3, ZenonT(60) DEF IInv, RingOK
<1>12. ActiveFirst'
  <2>1. CASE SysEventPoll
    BY <2>1 DEF SysEventPoll, IInv, ActiveFirst
  <2>2. CASE YieldRequest
    BY <2>2 DEF YieldRequest, ActiveFirst
  <2>3. CASE ExitWant
    BY <2>3 DEF ExitWant, IInv, ActiveFirst
  <2>4. CASE sched_run
    BY <2>4 DEF sched_run, ActiveFirst
  <2> QED
    BY <2>1, <2>2, <2>3, <2>4
<1> QED
  BY <1>1, <1>2, <1>6, <1>7, <1>8, <1>9, <1>10, <1>11, <1>12
     DEF IInv, TimesliceLive, StackOrder, FreshSlots, Live

(* sched_exit marks its task DONE while that task still runs.              *)
LEMMA ExitDoneOK == IInv /\ ExitDone => IInv'
<1> SUFFICES ASSUME IInv, ExitDone PROVE IInv'
  OBVIOUS
<1>0. cur \in Slots /\ cur \in Tasks /\ cpu.at = "kernel" /\ scheduler_active
  BY DEF ExitDone, IInv, TypeOK, Tasks, ActiveFirst
<1>1. /\ state' = [state EXCEPT ![cur] = "DONE"] /\ cpu' = [cpu EXCEPT !.at = "exiting"]
      /\ priority' = priority /\ is_user' = is_user /\ cr3' = cr3 /\ timeslice' = timeslice
      /\ stack' = stack /\ rsp' = rsp /\ rq' = rq /\ cur' = cur /\ stacks' = stacks
      /\ task_count' = task_count /\ loaded_cr3' = loaded_cr3
      /\ user_stack_next' = user_stack_next /\ tss_rsp0' = tss_rsp0
      /\ want_schedule' = want_schedule /\ scheduler_active' = scheduler_active
  BY DEF ExitDone
<1>2. cpu' \in Context /\ cpu'.stack = cpu.stack /\ cpu'.at = "exiting"
  BY <1>1, ZenonT(60) DEF IInv, TypeOK, Context, Points
<1>3. state[cur] = "RUNNING" /\ ~want_schedule
  BY <1>0 DEF IInv, TaskPlacement, PendingSwitchWindow, ExitDone
<1>4. /\ state' \in [Tasks -> States] /\ state'[cur] = "DONE"
      /\ \A s \in Tasks \ {cur} : state'[s] = state[s]
  BY <1>0, <1>1 DEF IInv, TypeOK, States
<1>5. \A s \in Tasks : Live(s)' => Live(s) /\ s # cur
  BY <1>4 DEF Live
<1>6. TypeOK'
  BY <1>1, <1>2, <1>4 DEF IInv, TypeOK
<1>7. TaskPlacement'
  <2>1. \A s \in Slots : state'[s] = "READY" <=> state[s] = "READY"
    BY <1>3, <1>4 DEF Tasks
  <2>2. \A s \in Slots : state'[s] = "RUNNING" => state[s] = "RUNNING"
    BY <1>3, <1>4 DEF Tasks
  <2> QED
    BY <1>1, <1>2, <1>4, <2>1, <2>2 DEF IInv, TaskPlacement
<1>8. ContextIsCurrent'
  <2>1. WantCr3(cur)' = WantCr3(cur)
    BY <1>1 DEF WantCr3
  <2>2. \A s \in Slots : state'[s] = "READY" => state[s] = "READY"
    BY <1>3, <1>4 DEF Tasks
  <2> QED
    BY <1>1, <1>2, <1>5, <2>1, <2>2 DEF IInv, ContextIsCurrent
<1>9. RingOK'
  <2>1. \A s \in Slots : state'[s] = "READY" => state[s] = "READY"
    BY <1>3, <1>4 DEF Tasks
  <2> QED
    BY <1>1, <1>2, <2>1 DEF IInv, RingOK
<1>10. TimesliceLive' /\ StackOrder'
  BY <1>1, <1>5 DEF IInv, TimesliceLive, StackOrder, Tasks
<1>11. PendingSwitchWindow' /\ ActiveFirst'
  BY <1>0, <1>1, <1>3 DEF PendingSwitchWindow, ActiveFirst
<1>12. FreshSlots'
  BY <1>0, <1>1, <1>3, <1>4 DEF IInv, FreshSlots, Tasks
<1> QED
  BY <1>6, <1>7, <1>8, <1>9, <1>10, <1>11, <1>12 DEF IInv

(* A submission reuses a slot no queue holds and gives it a fresh stack. *)
LEMMA SubmitOK ==
  ASSUME IInv, InShell, NEW s \in Slots, NEW p \in Levels, NEW user \in BOOLEAN,
         NEW c \in CR3s \cup {NoCr3},
         find_free_slot(s), task_count' = CountWith(s), InstallTask(s, p, user, c),
         user_stack_next' \in 0 .. MAX_USER_TASKS, UNCHANGED submitFixed
  PROVE  IInv'
<1>0. /\ Idle \in Tasks /\ Idle \notin Slots /\ s \in Tasks /\ Slots \subseteq Tasks
      /\ Tasks = Slots \cup {Idle} /\ s # Idle
  BY DEF Tasks, Slots, Idle
<1>1. /\ cur' = cur /\ cur = Idle /\ want_schedule' = want_schedule
      /\ scheduler_active' = scheduler_active /\ scheduler_active
      /\ loaded_cr3' = loaded_cr3 /\ tss_rsp0' = tss_rsp0 /\ cpu' = cpu /\ cpu.at = "kernel"
  BY DEF InShell, submitFixed
<1>2. /\ state \in [Tasks -> States] /\ priority \in [Tasks -> Levels]
      /\ timeslice \in [Tasks -> Nat] /\ is_user \in [Tasks -> BOOLEAN]
      /\ cr3 \in [Tasks -> CR3s \cup {NoCr3}] /\ stack \in [Tasks -> 0 .. MaxStacks]
      /\ rsp \in [Tasks -> Context] /\ rq \in [Levels -> Seq(Slots)]
      /\ stacks \in 0 .. MaxStacks /\ task_count \in 0 .. MAX_TASKS
  BY DEF IInv, TypeOK
<1>3. state[s] # "READY" /\ state[s] # "RUNNING"
  <2>1. CASE Reusable(s)
    BY <2>1 DEF Reusable
  <2>2. CASE s = task_count
    BY <1>2, <2>2 DEF IInv, FreshSlots
  <2> QED
    BY <2>1, <2>2 DEF find_free_slot
<1>4. stacks' = stacks + 1 /\ stacks' \in 1 .. MaxStacks /\ stacks' \in 0 .. MaxStacks
  BY <1>2, SchedConstants DEF InstallTask
<1>5. /\ state' = [state EXCEPT ![s] = "READY"]
      /\ priority' = [priority EXCEPT ![s] = p]
      /\ timeslice' = [timeslice EXCEPT ![s] = Quantum[p]]
      /\ is_user' = [is_user EXCEPT ![s] = user]
      /\ cr3' = [cr3 EXCEPT ![s] = c]
      /\ stack' = [stack EXCEPT ![s] = stacks']
      /\ rsp' = [rsp EXCEPT ![s] = [stack |-> stacks',
                                    at |-> IF user THEN "user" ELSE "kernel"]]
      /\ rq' = rq_push(rq, p, s)
  BY DEF InstallTask
<1>6. Quantum[p] \in Nat \ {0}
  BY SchedConstants
<1>7. task_count' \in 0 .. MAX_TASKS /\ task_count' >= task_count /\ s < task_count'
  <2>1. s \in 0 .. MAX_TASKS - 1 /\ MAX_TASKS \in Nat
    BY SchedConstants, SMT DEF Slots
  <2> QED
    BY <1>2, <2>1 DEF find_free_slot, CountWith
<1>8. \A t \in Tasks \ {s} : /\ state'[t] = state[t] /\ priority'[t] = priority[t]
                             /\ timeslice'[t] = timeslice[t] /\ is_user'[t] = is_user[t]
                             /\ cr3'[t] = cr3[t] /\ stack'[t] = stack[t] /\ rsp'[t] = rsp[t]
  BY <1>2, <1>5, SMT
<1>9. /\ state'[s] = "READY" /\ priority'[s] = p /\ timeslice'[s] = Quantum[p]
      /\ is_user'[s] = user /\ cr3'[s] = c /\ stack'[s] = stacks'
      /\ rsp'[s].stack = stacks' /\ (rsp'[s].at \in {"user", "poll"} => user)
  BY <1>0, <1>2, <1>5, SMT
<1>10. QueueOK(rq', state', priority')
  <2>1. QueueOK(rq, state, priority)
    BY ZenonT(60) DEF IInv, TypeOK, TaskPlacement, QueueOK, Unique, Queued, AtLevel
  <2>2. \A o \in Levels : \A i \in 1 .. Len(rq[o]) : rq[o][i] \in Slots /\ rq[o][i] # s
    BY <1>2, <1>3, <2>1, SMT DEF QueueOK, Queued, AtLevel
  <2>3. priority' \in [Tasks -> Levels]
    BY <1>2, <1>5, ZenonT(60)
  <2>4. AtLevel(rq, priority')
    BY <1>0, <1>8, <2>1, <2>2, ZenonT(60) DEF QueueOK, AtLevel
  <2>5. Queued(rq, state, priority')
    <3> SUFFICES ASSUME NEW t \in Slots
                 PROVE  state[t] = "READY" <=>
                          \E i \in 1 .. Len(rq[priority'[t]]) : rq[priority'[t]][i] = t
      BY ZenonT(60) DEF Queued
    <3>1. CASE t = s
      BY <1>3, <1>9, <2>2, <3>1, ZenonT(60)
    <3>2. CASE t # s
      <4>1. t \in Tasks \ {s} /\ priority'[t] = priority[t]
        BY <1>0, <1>8, <3>2, ZenonT(60)
      <4>2. state[t] = "READY" <=> \E i \in 1 .. Len(rq[priority[t]]) : rq[priority[t]][i] = t
        BY <2>1, ZenonT(60) DEF QueueOK, Queued
      <4> QED
        BY <4>1, <4>2, ZenonT(60)
    <3> QED
      BY <3>1, <3>2, ZenonT(60)
  <2>6. QueueOK(rq, state, priority')
    BY <2>1, <2>4, <2>5 DEF QueueOK
  <2>7. QueueOK(rq_push(rq, priority'[s], s), [state EXCEPT ![s] = "READY"], priority')
    BY <1>2, <1>3, <2>3, <2>6, PushOK, ZenonT(60)
  <2> QED
    BY <1>5, <1>9, <2>7, SMT
<1>11. \A t \in Tasks \ {s} : Live(t)' <=> Live(t)
  BY <1>8, ZenonT(60) DEF Live
<1>12. TypeOK'
  <2>1. rsp' \in [Tasks -> Context]
    <3>1. [stack |-> stacks', at |-> IF user THEN "user" ELSE "kernel"] \in Context
      BY <1>4 DEF Context, Points
    <3> QED
      BY <1>2, <1>5, <3>1, ZenonT(60)
  <2>2. /\ state' \in [Tasks -> States] /\ priority' \in [Tasks -> Levels]
        /\ timeslice' \in [Tasks -> Nat] /\ is_user' \in [Tasks -> BOOLEAN]
        /\ cr3' \in [Tasks -> CR3s \cup {NoCr3}]
    BY <1>2, <1>5, <1>6, ZenonT(60) DEF States
  <2>3. stack' \in [Tasks -> 0 .. MaxStacks] /\ stacks' \in 0 .. MaxStacks
    BY <1>2, <1>4, <1>5, ZenonT(60)
  <2> QED
    BY <1>1, <1>7, <1>10, <2>1, <2>2, <2>3, ZenonT(60) DEF IInv, TypeOK, QueueOK
<1>13. TaskPlacement'
  <2>1. \A t \in Slots : state'[t] = "RUNNING" => t = cur'
    <3> SUFFICES ASSUME NEW t \in Slots, state'[t] = "RUNNING" PROVE t = cur'
      BY ZenonT(60)
    <3>1. t # s
      BY <1>9, SMT
    <3>2. state[t] = "RUNNING"
      BY <1>0, <1>8, <3>1, ZenonT(60)
    <3> QED
      BY <1>1, <3>2, ZenonT(60) DEF IInv, TaskPlacement
  <2> QED
    BY <1>1, <1>10, <2>1, ZenonT(60) DEF TaskPlacement, QueueOK, Unique, Queued, AtLevel
<1>14. TimesliceLive'
  <2> SUFFICES ASSUME NEW t \in Slots, Live(t)'
               PROVE  timeslice'[t] \in 1 .. Quantum[priority'[t]]
    BY ZenonT(60) DEF TimesliceLive
  <2>1. CASE t = s
    <3>1. timeslice'[t] = Quantum[p] /\ priority'[t] = p
      BY <1>9, <2>1, ZenonT(60)
    <3>2. Quantum[p] \in 1 .. Quantum[p]
      BY <1>6, SMT
    <3> QED
      BY <3>1, <3>2, ZenonT(60)
  <2>2. CASE t # s
    BY <1>0, <1>8, <1>11, <2>2, ZenonT(60) DEF IInv, TimesliceLive
  <2> QED
    BY <2>1, <2>2, SMT
<1>15. PendingSwitchWindow' /\ ActiveFirst'
  BY <1>1, SMT DEF IInv, PendingSwitchWindow, ActiveFirst
<1>16. RingOK'
  BY <1>0, <1>1, <1>8, <1>9, ZenonT(60) DEF IInv, RingOK
<1>17. StackOrder'
  <2>1. stack'[Idle] = BootStack
    BY <1>0, <1>8, ZenonT(60) DEF IInv, StackOrder
  <2>2. \A t \in Slots : stack'[t] <= stacks' /\ (Live(t)' => stack'[t] > BootStack)
    <3> SUFFICES ASSUME NEW t \in Slots
                 PROVE  stack'[t] <= stacks' /\ (Live(t)' => stack'[t] > BootStack)
      BY ZenonT(60)
    <3>1. CASE t = s
      BY <1>4, <1>9, <3>1, SMT DEF BootStack
    <3>2. CASE t # s
      <4>0. t \in Tasks \ {s}
        BY <1>0, <3>2, SMT
      <4>1. stack'[t] = stack[t] /\ (Live(t)' <=> Live(t))
        BY <1>8, <1>11, <4>0, ZenonT(60)
      <4>4. stack[t] \in Int
        BY <1>2, <4>0
      <4>2. stack[t] <= stacks /\ (Live(t) => stack[t] > BootStack)
        BY DEF IInv, StackOrder
      <4>3. stacks \in Int /\ stacks' = stacks + 1
        BY <1>2, <1>4, SMT
      <4> QED
        BY <4>1, <4>2, <4>3, <4>4
    <3> QED
      BY <3>1, <3>2
  <2> QED
    BY <2>1, <2>2 DEF StackOrder
<1>18. ContextIsCurrent'
  <2>1. \A t \in Slots : state'[t] = "READY" => rsp'[t].stack = stack'[t]
    BY <1>0, <1>8, <1>9, ZenonT(60) DEF IInv, ContextIsCurrent
  <2>2. \A t \in Tasks \ {s} : stack[t] # stacks'
    BY <1>0, <1>2, <1>4 DEF IInv, StackOrder, BootStack
  <2>3. \A t, r \in Tasks : Live(t)' /\ Live(r)' /\ stack'[t] = stack'[r] => t = r
    <3> SUFFICES ASSUME NEW t \in Tasks, NEW r \in Tasks, Live(t)', Live(r)',
                        stack'[t] = stack'[r]
                 PROVE  t = r
      OBVIOUS
    <3>1. CASE t = s \/ r = s
      <4>1. \A v \in Tasks \ {s} : stack'[v] # stack'[s]
        BY <1>8, <1>9, <2>2, ZenonT(60)
      <4> QED
        BY <3>1, <4>1, ZenonT(60)
    <3>2. CASE t # s /\ r # s
      BY <1>8, <1>11, <3>2, ZenonT(60) DEF IInv, ContextIsCurrent
    <3> QED
      BY <3>1, <3>2
  <2>4. WantCr3(cur)' = WantCr3(cur)
    BY <1>0, <1>1, <1>8, ZenonT(60) DEF WantCr3
  <2> QED
    BY <1>0, <1>1, <1>8, <2>1, <2>3, <2>4, ZenonT(60) DEF IInv, ContextIsCurrent
<1>19. FreshSlots'
  <2> SUFFICES ASSUME NEW t \in Slots, t >= task_count' PROVE state'[t] = "FREE"
    BY DEF FreshSlots
  <2>1. t \in Int /\ s \in Int /\ task_count \in Int /\ task_count' \in Int
    BY <1>2, <1>7 DEF Slots
  <2>2. t # s /\ t >= task_count
    BY <1>7, <2>1
  <2> QED
    BY <1>0, <1>8, <2>2, ZenonT(60) DEF IInv, FreshSlots
<1> QED
  BY <1>12, <1>13, <1>14, <1>15, <1>16, <1>17, <1>18, <1>19 DEF IInv

(* The conjuncts that do not read task_count. *)
LEMMA TasksUnchangedOK ==
  ASSUME IInv, UNCHANGED <<taskVars, rq, user_stack_next, stacks, submitFixed>>
  PROVE  /\ TaskPlacement' /\ TimesliceLive' /\ PendingSwitchWindow'
         /\ ContextIsCurrent' /\ ActiveFirst' /\ RingOK' /\ StackOrder'
<1>1. /\ state' = state /\ priority' = priority /\ is_user' = is_user /\ cr3' = cr3
      /\ stack' = stack /\ rsp' = rsp /\ rq' = rq /\ cur' = cur /\ stacks' = stacks
      /\ timeslice' = timeslice /\ loaded_cr3' = loaded_cr3 /\ tss_rsp0' = tss_rsp0
      /\ want_schedule' = want_schedule /\ scheduler_active' = scheduler_active
      /\ cpu' = cpu
  BY ZenonT(60) DEF taskVars, submitFixed
<1>2. TaskPlacement'
  BY <1>1 DEF IInv, TaskPlacement
<1>3. \A t \in Tasks : Live(t)' <=> Live(t)
  BY <1>1, SMT DEF Live
<1>4. TimesliceLive' /\ StackOrder'
  BY <1>1, <1>3, ZenonT(60) DEF IInv, TimesliceLive, StackOrder, Tasks
<1>5. ContextIsCurrent'
  BY <1>1, <1>3, ZenonT(60) DEF IInv, ContextIsCurrent, WantCr3
<1>6. PendingSwitchWindow' /\ ActiveFirst' /\ RingOK'
  BY <1>1 DEF IInv, PendingSwitchWindow, ActiveFirst, RingOK
<1> QED
  BY <1>2, <1>4, <1>5, <1>6

(* A submission that gets no stack only raises task_count.                 *)
LEMMA NoStackOK ==
  ASSUME IInv, NEW s \in Slots, SubmitNoStack(s)
  PROVE  IInv'
<1>1. task_count' \in 0 .. MAX_TASKS /\ task_count' >= task_count
  BY SchedConstants DEF IInv, TypeOK, SubmitNoStack, find_free_slot, CountWith, Slots
<1>2. UNCHANGED <<taskVars, rq, user_stack_next, stacks, submitFixed>>
  BY SMT DEF SubmitNoStack
<1>3. TypeOK' /\ FreshSlots'
  BY <1>1, <1>2 DEF IInv, TypeOK, FreshSlots, taskVars, submitFixed, Slots
<1> QED
  BY <1>2, <1>3, TasksUnchangedOK, SMT DEF IInv

(***************************************************************************)
(* Theorems                                                                *)
(***************************************************************************)
(* The start of sched_init's state satisfies the invariant. *)
LEMMA InitOK == Init => IInv
<1> SUFFICES ASSUME Init PROVE IInv
  OBVIOUS
<1>0. Idle \in Tasks /\ Idle \notin Slots /\ Slots \subseteq Tasks
  BY DEF Tasks, Slots, Idle
<1>1. TypeOK
  <2>1. PRIO_LEVELS - 1 \in Levels /\ 0 \in Levels /\ BootStack \in 0 .. MaxStacks
    BY SchedConstants DEF Levels, BootStack
  <2>2. [stack |-> BootStack, at |-> "kernel"] \in Context
    BY <2>1 DEF Context, Points
  <2>3. /\ state \in [Tasks -> States] /\ priority \in [Tasks -> Levels]
        /\ timeslice \in [Tasks -> Nat] /\ is_user \in [Tasks -> BOOLEAN]
        /\ cr3 \in [Tasks -> CR3s \cup {NoCr3}] /\ stack \in [Tasks -> 0 .. MaxStacks]
    BY <2>1 DEF Init, States
  <2>4. rsp \in [Tasks -> Context] /\ cpu \in Context
    BY <2>2 DEF Init
  <2>5. rq \in [Levels -> Seq(Slots)] /\ cur \in Tasks
    BY <1>0 DEF Init
  <2>6. /\ task_count \in 0 .. MAX_TASKS /\ user_stack_next \in 0 .. MAX_USER_TASKS
        /\ tss_rsp0 \in 0 .. MaxStacks /\ stacks \in 0 .. MaxStacks
    BY <2>1, SchedConstants DEF Init
  <2>7. /\ want_schedule \in BOOLEAN /\ scheduler_active \in BOOLEAN
        /\ loaded_cr3 \in CR3s \cup {MASTER_CR3}
    BY ZenonT(60) DEF Init
  <2> QED
    BY <2>3, <2>4, <2>5, <2>6, <2>7 DEF TypeOK
<1>2. TaskPlacement
  <2>1. \A p \in Levels : \A i \in 1 .. Len(rq[p]) : FALSE
    BY DEF Init
  <2>2. \A s \in Slots : state[s] = "FREE" /\ priority[s] \in Levels
    BY <1>0, <1>1 DEF Init, TypeOK
  <2>3. cur = Idle
    BY DEF Init
  <2> QED
    BY <2>1, <2>2, <2>3 DEF TaskPlacement
<1>3. \A s \in Slots : ~Live(s) /\ state[s] = "FREE"
  BY <1>0 DEF Init, Live
<1>4. TimesliceLive /\ PendingSwitchWindow /\ ActiveFirst /\ FreshSlots
  BY <1>3, ZenonT(60) DEF Init, TimesliceLive, PendingSwitchWindow, ActiveFirst, FreshSlots
<1>5. RingOK
  BY <1>0 DEF Init, RingOK
<1>6. StackOrder
  <2>1. \A t \in Tasks : stack[t] = 0
    BY DEF Init, BootStack
  <2>2. stacks = 0
    BY DEF Init
  <2> QED
    BY <1>0, <1>3, <2>1, <2>2 DEF StackOrder, BootStack
<1>7. ContextIsCurrent
  BY <1>0, <1>3 DEF Init, ContextIsCurrent, WantCr3, Tasks
<1> QED
  BY <1>1, <1>2, <1>4, <1>5, <1>6, <1>7 DEF IInv

(* Every step of the scheduler preserves the invariant. *)
LEMMA NextOK == IInv /\ [Next]_vars => IInv'
<1> SUFFICES ASSUME IInv, [Next]_vars PROVE IInv'
  OBVIOUS
<1>1. CASE TimerIrq
  BY <1>1, TimerIrqOK
<1>2. CASE DeviceIrq
  BY <1>2, DeviceIrqOK
<1>3. CASE UserFault
  BY <1>3, KillOK DEF UserFault
<1>4. CASE SysExit
  BY <1>4, KillOK DEF SysExit
<1>5. CASE SysYield
  BY <1>5, SysYieldOK
<1>6. CASE SysEventPollEnd
  BY <1>6, PollEndOK
<1>7. CASE SysEventPoll \/ YieldRequest \/ ExitWant \/ sched_run
  BY <1>7, KernelStepOK
<1>8. CASE YieldInt
  <2>1. scheduler_active
    BY <1>8 DEF YieldInt, IInv, ActiveFirst
  <2> QED
    BY <1>8, <2>1, SoftIntOK DEF YieldInt
<1>9. CASE ExitInt
  <2>1. scheduler_active
    BY <1>9 DEF ExitInt, IInv, ActiveFirst
  <2> QED
    BY <1>9, <2>1, SoftIntOK DEF ExitInt
<1>10. CASE ExitDone
  BY <1>10, ExitDoneOK
<1>11. ASSUME NEW s \in Slots, NEW p \in SubmitPrios, sched_submit_prio(s, p)
       PROVE  IInv'
  <2>1. p \in Levels /\ user_stack_next' \in 0 .. MAX_USER_TASKS
        /\ UNCHANGED submitFixed /\ FALSE \in BOOLEAN /\ NoCr3 \in CR3s \cup {NoCr3}
    BY <1>11, SchedConstants DEF sched_submit_prio, IInv, TypeOK
  <2> QED
    BY <1>11, <2>1, SubmitOK, ZenonT(60) DEF sched_submit_prio
<1>12. ASSUME NEW s \in Slots, sched_submit_user(s)
       PROVE  IInv'
  <2>1. PRIO_NORMAL \in Levels /\ user_stack_next' \in 0 .. MAX_USER_TASKS
        /\ UNCHANGED submitFixed /\ TRUE \in BOOLEAN /\ NoCr3 \in CR3s \cup {NoCr3}
    BY <1>12, SchedConstants DEF sched_submit_user, IInv, TypeOK
  <2> QED
    BY <1>12, <2>1, SubmitOK, ZenonT(60) DEF sched_submit_user
<1>13. ASSUME NEW s \in Slots, NEW c \in CR3s, sched_submit_user_as(s, c)
       PROVE  IInv'
  <2>1. PRIO_NORMAL \in Levels /\ user_stack_next' \in 0 .. MAX_USER_TASKS
        /\ UNCHANGED submitFixed /\ TRUE \in BOOLEAN /\ c \in CR3s \cup {NoCr3}
    BY <1>13, SchedConstants DEF sched_submit_user_as, IInv, TypeOK
  <2> QED
    BY <1>13, <2>1, SubmitOK, ZenonT(60) DEF sched_submit_user_as
<1>14. ASSUME NEW s \in Slots, SubmitNoStack(s) PROVE IInv'
  BY <1>14, NoStackOK
<1>15. CASE UNCHANGED vars
  <2>1. UNCHANGED <<taskVars, rq, user_stack_next, stacks, submitFixed>>
        /\ task_count' = task_count
    BY <1>15, ZenonT(60) DEF vars, submitFixed
  <2>2. TypeOK' /\ FreshSlots'
    BY <2>1 DEF IInv, TypeOK, FreshSlots, taskVars, submitFixed
  <2> QED
    BY <2>1, <2>2, TasksUnchangedOK DEF IInv
<1> QED
  BY <1>1, <1>2, <1>3, <1>4, <1>5, <1>6, <1>7, <1>8, <1>9, <1>10, <1>11, <1>12,
     <1>13, <1>14, <1>15 DEF Next

(* The inductive invariant holds in every reachable state of the scheduler *)
(* of cpu/sched.c.                                                         *)
THEOREM Invariance == Spec => []IInv
<1>1. Init => IInv
  BY InitOK
<1>2. IInv /\ [Next]_vars => IInv'
  BY NextOK
<1> QED
  BY <1>1, <1>2, PTL DEF Spec

(* Every table, queue and counter of cpu/sched.c stays in range.           *)
THEOREM TypeCorrect == Spec => []TypeOK
<1>1. IInv => TypeOK
  BY DEF IInv
<1> QED
  BY <1>1, Invariance, PTL

(* No task is lost or duplicated: rq_push never meets a full queue, and    *)
(* READY is the same as being in the queue of one's level.                 *)
THEOREM NoTaskLost == Spec => []TaskPlacement
<1>1. IInv => TaskPlacement
  BY DEF IInv
<1> QED
  BY <1>1, Invariance, PTL

(* The CPU always runs cur_task's context, on its stack, in its space.     *)
THEOREM CurrentContext == Spec => []ContextIsCurrent
<1>1. IInv => ContextIsCurrent
  BY DEF IInv
<1> QED
  BY <1>1, Invariance, PTL

(* want_schedule is pending only inside sched_yield and sched_exit.        *)
THEOREM PendingOnlyInYield == Spec => []PendingSwitchWindow
<1>1. IInv => PendingSwitchWindow
  BY DEF IInv
<1> QED
  BY <1>1, Invariance, PTL

(* The unsigned timeslice of a live task never reaches zero.               *)
THEOREM SliceNeverWraps == Spec => []TimesliceLive
<1>1. IInv => TimesliceLive
  BY DEF IInv
<1> QED
  BY <1>1, Invariance, PTL
=============================================================================
