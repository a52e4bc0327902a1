------------------------------ MODULE Process ------------------------------
(***************************************************************************)
(* The life of a process: the shell's exec, vmmtest, wm, ring3test and     *)
(* smptest commands (kernel/kernel.c), the ELF loader (kernel/elf.c), its  *)
(* private address space (cpu/vmm.c) and its heap (SYS_SBRK), over the     *)
(* scheduler of module Sched.  The shell is the idle task: it runs with    *)
(* interrupts enabled, so the tasks it has submitted may run between any   *)
(* two of its steps.                                                       *)
(***************************************************************************)
EXTENDS Sched

CONSTANTS
  VMM_MAX_PAGES,    \* pages one address space may own
  WindowPages,      \* pages of the private window
  PtSpan,           \* pages one page table maps
  ELF_STACK_PAGES,
  PageSize,         \* bytes per page
  SegPages,         \* the page counts a program's segments may need
  Increments        \* bytes a program passes to SYS_SBRK

Pages == 0 .. WindowPages - 1

StackTop == WindowPages - 1                       \* the top page is a guard
ArgvPage == StackTop - ELF_STACK_PAGES - 1
StackPages == ArgvPage + 1 .. StackTop - 1

PD == -1                                          \* the page directory, as a table

ASSUME ProcessConstants ==
  /\ VMM_MAX_PAGES \in Nat /\ WindowPages \in Nat /\ PtSpan \in Nat \ {0}
  /\ ELF_STACK_PAGES \in Nat \ {0} /\ PageSize \in Nat \ {0}
  /\ ArgvPage >= 1
  /\ SegPages \subseteq 0 .. WindowPages
  /\ Increments \subseteq Int

VARIABLES
  spaces,                           \* vmm_as_t, by PML4 address
  tas, heap_start, heap_brk, heap_end,   \* task_t.as and task_t.heap_*
  shell,                            \* the shell: command, step, slot, page
  exec_fd                           \* elf_exec's descriptor is open

heapVars == <<tas, heap_start, heap_brk, heap_end>>
procVars == <<spaces, heapVars, shell, exec_fd>>
allVars  == <<vars, procVars>>

NoSpace == [live |-> FALSE, owned |-> 0, tables |-> {},
            map |-> [v \in Pages |-> 0]]

Prompt == [cmd |-> "none", pc |-> "prompt", slot |-> Idle, space |-> NoCr3,
           va |-> 0, seg |-> 0]

ProcInit ==
  /\ Init
  /\ spaces = [c \in CR3s |-> NoSpace]
  /\ tas = [s \in Slots |-> NoCr3]
  /\ heap_start = [s \in Slots |-> 0]
  /\ heap_brk = [s \in Slots |-> 0]
  /\ heap_end = [s \in Slots |-> 0]
  /\ shell = Prompt
  /\ exec_fd = FALSE

(***************************************************************************)
(* cpu/vmm.c.  map[v] is the owned page mapped at v, 0 when v is absent.   *)
(***************************************************************************)
PtOf(v) == v \div PtSpan

(* vmm_alloc_page then vmm_map_page, when every allocation succeeds. *)
MapPage(a, v) ==
  LET missing == {PD, PtOf(v)} \ a.tables IN
  [a EXCEPT !.owned  = @ + 1 + (IF PD \in missing THEN 1 ELSE 0)
                             + (IF PtOf(v) \in missing THEN 1 ELSE 0),
            !.tables = @ \cup missing,
            !.map[v] = a.owned + 1]

Fits(a) == a.owned <= VMM_MAX_PAGES

(* What a failed allocation leaves: none was made, or the data page and    *)
(* perhaps the directory were, and stay owned until teardown.              *)
PartialMap(a, v) ==
  {b \in {a} \cup
         (IF {PD, PtOf(v)} \subseteq a.tables THEN {}
          ELSE {[a EXCEPT !.owned = @ + 1]}) \cup
         (IF PD \in a.tables THEN {}
          ELSE {[a EXCEPT !.owned = @ + 2, !.tables = @ \cup {PD}]}) : Fits(b)}

(* Mutant: the last page is left out. *)
MapRunShort(a, lo, n) ==
  LET run[k \in 0 .. n] == IF k = 0 THEN a ELSE MapPage(run[k - 1], lo + k - 1)
  IN run[IF n = 0 THEN 0 ELSE n - 1]

(* The pages lo .. lo + n - 1, mapped in order. *)
MapRun(a, lo, n) ==
  LET run[k \in 0 .. n] == IF k = 0 THEN a ELSE MapPage(run[k - 1], lo + k - 1)
  IN run[n]

vmm_create_address_space(c) ==
  /\ ~spaces[c].live
  /\ spaces' = [spaces EXCEPT ![c] = [NoSpace EXCEPT !.live = TRUE, !.owned = 2]]

vmm_destroy_address_space(c) ==
  spaces' = [spaces EXCEPT ![c] = NoSpace]

(***************************************************************************)
(* The shell                                                               *)
(***************************************************************************)
At(cmds, pc) == InShell /\ shell.cmd \in cmds /\ shell.pc = pc

Goto(pc) == shell' = [shell EXCEPT !.pc = pc]

(* smptest and ring3test submit and return to the prompt. *)
ResetHeap(s) ==
  /\ tas' = [tas EXCEPT ![s] = NoCr3]
  /\ heap_start' = [heap_start EXCEPT ![s] = 0]
  /\ heap_brk' = [heap_brk EXCEPT ![s] = 0]
  /\ heap_end' = [heap_end EXCEPT ![s] = 0]

CmdSmptest(s) ==
  /\ shell.pc = "prompt"
  /\ sched_submit_prio(s, PRIO_NORMAL)
  /\ ResetHeap(s)
  /\ UNCHANGED <<spaces, shell, exec_fd>>

CmdRing3test(s) ==
  /\ shell.pc = "prompt"
  /\ sched_submit_user(s)
  /\ ResetHeap(s)
  /\ UNCHANGED <<spaces, shell, exec_fd>>

(* wm submits and then waits for the task. *)
CmdWm(s) ==
  /\ shell.pc = "prompt"
  /\ sched_submit_user(s)
  /\ ResetHeap(s)
  /\ shell' = [Prompt EXCEPT !.cmd = "wm", !.pc = "wait", !.slot = s]
  /\ UNCHANGED <<spaces, exec_fd>>

CmdNoStack(s) ==
  /\ shell.pc = "prompt"
  /\ SubmitNoStack(s)
  /\ UNCHANGED procVars

(* vmmtest_run: a code page and a stack page, no heap. *)
CmdVmmtest(c) ==
  /\ At({"none"}, "prompt")
  /\ vmm_create_address_space(c)
  /\ shell' = [Prompt EXCEPT !.cmd = "vmmtest", !.pc = "load", !.space = c]
  /\ UNCHANGED <<vars, heapVars, exec_fd>>

(* elf_exec: vfs_open. *)
CmdExec ==
  /\ At({"none"}, "prompt")
  /\ exec_fd' = TRUE
  /\ shell' = [Prompt EXCEPT !.cmd = "exec", !.pc = "header"]
  /\ UNCHANGED <<vars, spaces, heapVars>>

(* The headers are refused, or no address space can be made. *)
ExecRefused ==
  /\ At({"exec"}, "header")
  /\ exec_fd' = FALSE
  /\ shell' = Prompt
  /\ UNCHANGED <<vars, spaces, heapVars>>

ExecCreate(c, seg) ==
  /\ At({"exec"}, "header")
  /\ vmm_create_address_space(c)
  /\ shell' = [shell EXCEPT !.pc = "load", !.space = c, !.seg = seg]
  /\ UNCHANGED <<vars, heapVars, exec_fd>>

(* The code page and the stack page, at fixed addresses. *)
VmmtestMap ==
  LET a == MapPage(MapPage(spaces[shell.space], 1), 2) IN
  /\ At({"vmmtest"}, "load")
  /\ Fits(a)
  /\ spaces' = [spaces EXCEPT ![shell.space] = a]
  /\ Goto("submit")
  /\ UNCHANGED <<vars, heapVars, exec_fd>>

(* load_segment: one page of the program. *)
LoadPage ==
  LET a == MapPage(spaces[shell.space], shell.va) IN
  /\ At({"exec"}, "load")
  /\ shell.va < shell.seg
  /\ Fits(a)
  /\ spaces' = [spaces EXCEPT ![shell.space] = a]
  /\ shell' = [shell EXCEPT !.va = @ + 1]
  /\ UNCHANGED <<vars, heapVars, exec_fd>>

LoadDone ==
  /\ At({"exec"}, "load")
  /\ shell.va = shell.seg
  /\ shell' = [shell EXCEPT !.pc = "stack", !.va = StackTop - 1]
  /\ UNCHANGED <<vars, spaces, heapVars, exec_fd>>

(* Top down, below the guard page; the file is closed after the last one. *)
StackPage ==
  LET a == MapPage(spaces[shell.space], shell.va) IN
  /\ At({"exec"}, "stack")
  /\ Fits(a)
  /\ spaces' = [spaces EXCEPT ![shell.space] = a]
  /\ shell' = [shell EXCEPT !.va = @ - 1,
                            !.pc = IF shell.va - 1 = ArgvPage THEN "argv" ELSE @]
  /\ exec_fd' = (shell.va - 1 # ArgvPage)
  /\ UNCHANGED <<vars, heapVars>>

ArgvMap ==
  LET a == MapPage(spaces[shell.space], ArgvPage) IN
  /\ At({"exec"}, "argv")
  /\ Fits(a)
  /\ spaces' = [spaces EXCEPT ![shell.space] = a]
  /\ Goto("submit")
  /\ UNCHANGED <<vars, heapVars, exec_fd>>

(* Mutant: vfs_close forgotten. *)
LoadFailsOpen ==
  /\ \E pc \in {"load", "stack", "argv"} : At({"exec", "vmmtest"}, pc)
  /\ vmm_destroy_address_space(shell.space)
  /\ shell' = Prompt
  /\ UNCHANGED <<vars, heapVars, exec_fd>>

(* An error path: tear the space down, close the file if it is open. *)
LoadFails ==
  /\ \E pc \in {"load", "stack", "argv"} : At({"exec", "vmmtest"}, pc)
  /\ vmm_destroy_address_space(shell.space)
  /\ exec_fd' = IF shell.pc \in {"load", "stack"} THEN FALSE ELSE exec_fd
  /\ shell' = Prompt
  /\ UNCHANGED <<vars, heapVars>>

SubmitProcess(s) ==
  /\ At({"exec", "vmmtest"}, "submit")
  /\ sched_submit_user_as(s, shell.space)
  /\ ResetHeap(s)
  /\ shell' = [shell EXCEPT !.slot = s,
                            !.pc = IF shell.cmd = "exec" THEN "set_as" ELSE "wait"]
  /\ UNCHANGED <<spaces, exec_fd>>

(* No slot, or no stack for it. *)
SubmitFails ==
  /\ At({"exec", "vmmtest"}, "submit")
  /\ \/ /\ task_count = MAX_TASKS /\ \A s \in Slots : ~Reusable(s)
        /\ UNCHANGED vars
     \/ \E s \in Slots : SubmitNoStack(s)
  /\ vmm_destroy_address_space(shell.space)
  /\ shell' = Prompt
  /\ UNCHANGED <<heapVars, exec_fd>>

(* The four stores of elf_exec after the task is already in a run queue. *)
SetAs ==
  /\ At({"exec"}, "set_as")
  /\ tas' = [tas EXCEPT ![shell.slot] = shell.space]
  /\ Goto("set_start")
  /\ UNCHANGED <<vars, spaces, heap_start, heap_brk, heap_end, exec_fd>>

SetHeapStart ==
  /\ At({"exec"}, "set_start")
  /\ heap_start' = [heap_start EXCEPT ![shell.slot] = shell.seg * PageSize]
  /\ Goto("set_brk")
  /\ UNCHANGED <<vars, spaces, tas, heap_brk, heap_end, exec_fd>>

SetHeapBrk ==
  /\ At({"exec"}, "set_brk")
  /\ heap_brk' = [heap_brk EXCEPT ![shell.slot] = shell.seg * PageSize]
  /\ Goto("set_end")
  /\ UNCHANGED <<vars, spaces, tas, heap_start, heap_end, exec_fd>>

SetHeapEnd ==
  /\ At({"exec"}, "set_end")
  /\ heap_end' = [heap_end EXCEPT ![shell.slot] = ArgvPage * PageSize]
  /\ Goto("wait")
  /\ UNCHANGED <<vars, spaces, tas, heap_start, heap_brk, exec_fd>>

(* while (t->state != TASK_DONE) sched_yield(); *)
WaitYield ==
  /\ At({"exec", "vmmtest", "wm"}, "wait")
  /\ state[shell.slot] # "DONE"
  /\ YieldRequest
  /\ UNCHANGED procVars

(* Mutants: the address space is freed without waiting; the wait is for a  *)
(* state the scheduler never sets again.                                   *)
WaitSkipped ==
  /\ At({"exec", "vmmtest", "wm"}, "wait")
  /\ IF shell.cmd = "wm" THEN UNCHANGED spaces
                         ELSE vmm_destroy_address_space(shell.space)
  /\ shell' = Prompt
  /\ UNCHANGED <<vars, heapVars, exec_fd>>

WaitForFree ==
  /\ shell.slot # Idle /\ state[shell.slot] = "FREE"
  /\ WaitSkipped

WaitOver ==
  /\ At({"exec", "vmmtest", "wm"}, "wait")
  /\ state[shell.slot] = "DONE"
  /\ IF shell.cmd = "wm" THEN UNCHANGED spaces
                         ELSE vmm_destroy_address_space(shell.space)
  /\ shell' = Prompt
  /\ UNCHANGED <<vars, heapVars, exec_fd>>

(***************************************************************************)
(* SYS_SBRK, an interrupt-gate system call of the running ring3 task       *)
(***************************************************************************)
RoundUp(n) == ((n + PageSize - 1) \div PageSize) * PageSize

(* Mutant: rounded down. *)
PageEndDown(s, brk) == brk \div PageSize

PageEnd(s, brk) == (heap_start[s] + RoundUp(brk - heap_start[s])) \div PageSize

sbrkFixed == <<tas, heap_start, heap_end, shell, exec_fd>>

InSbrk == cur # Idle /\ cpu.at = "user" /\ DeviceIrq

HasHeap(s) == tas[s] # NoCr3 /\ heap_end[s] # 0

(* No heap, a query, a shrink, or a request past heap_end. *)
SbrkUnchanged ==
  /\ InSbrk
  /\ \/ ~HasHeap(cur)
     \/ \E n \in Increments : n <= 0 \/ heap_brk[cur] + n > heap_end[cur]
  /\ UNCHANGED procVars

SbrkGrows(n) ==
  LET lo == PageEnd(cur, heap_brk[cur])
      a  == MapRun(spaces[tas[cur]], lo, PageEnd(cur, heap_brk[cur] + n) - lo)
  IN
  /\ InSbrk
  /\ HasHeap(cur)
  /\ n > 0 /\ heap_brk[cur] + n <= heap_end[cur]
  /\ Fits(a)
  /\ spaces' = [spaces EXCEPT ![tas[cur]] = a]
  /\ heap_brk' = [heap_brk EXCEPT ![cur] = @ + n]
  /\ UNCHANGED sbrkFixed

(* The allocation for the page after the first k fails. *)
SbrkNoMemory(n) ==
  LET lo == PageEnd(cur, heap_brk[cur]) IN
  /\ InSbrk
  /\ HasHeap(cur)
  /\ n > 0 /\ heap_brk[cur] + n <= heap_end[cur]
  /\ \E k \in 0 .. PageEnd(cur, heap_brk[cur] + n) - lo - 1 :
       LET a == MapRun(spaces[tas[cur]], lo, k) IN
       /\ Fits(a)
       /\ \E b \in PartialMap(a, lo + k) : spaces' = [spaces EXCEPT ![tas[cur]] = b]
  /\ UNCHANGED <<heap_brk, sbrkFixed>>

SchedStep ==
  /\ \/ sched_run \/ TimerIrq \/ DeviceIrq \/ UserFault
     \/ SysExit \/ SysYield \/ SysEventPoll \/ SysEventPollEnd
     \/ YieldInt \/ ExitDone \/ ExitWant \/ ExitInt
  /\ UNCHANGED procVars

ShellStep ==
  \/ CmdExec \/ ExecRefused
  \/ \E c \in CR3s : CmdVmmtest(c) \/ \E seg \in SegPages : ExecCreate(c, seg)
  \/ VmmtestMap \/ LoadPage \/ LoadDone \/ StackPage \/ ArgvMap \/ LoadFails
  \/ SubmitFails
  \/ \E s \in Slots : \/ CmdSmptest(s) \/ CmdRing3test(s) \/ CmdWm(s)
                      \/ CmdNoStack(s) \/ SubmitProcess(s)
  \/ SetAs \/ SetHeapStart \/ SetHeapBrk \/ SetHeapEnd
  \/ WaitYield \/ WaitOver

Sbrk == SbrkUnchanged \/ \E n \in Increments : SbrkGrows(n) \/ SbrkNoMemory(n)

ProcNext == SchedStep \/ ShellStep \/ Sbrk

ProcSpec == ProcInit /\ [][ProcNext]_allVars

(* A task s finishes: its program calls SYS_EXIT, or its entry returns. *)
TaskEnds(s) == cur = s /\ (SysExit \/ ExitDone) /\ UNCHANGED procVars

(* The timer keeps interrupting, a context that is given the CPU again and *)
(* again gets on with its code, and every program ends.                    *)
ProcFairSpec ==
  /\ ProcSpec
  /\ WF_allVars(TimerIrq /\ UNCHANGED procVars)
  /\ SF_allVars(shell.pc # "prompt" /\ ShellStep)
  /\ SF_allVars((YieldInt \/ ExitWant \/ ExitInt \/ SysEventPollEnd) /\ UNCHANGED procVars)
  /\ \A s \in Slots : SF_allVars(TaskEnds(s))

(***************************************************************************)
(* Properties                                                              *)
(***************************************************************************)
(* An address space outlives its process: the tables in CR3 and those of   *)
(* every task that may still be switched to are not freed, though the      *)
(* shell frees them in another context (vmm.h: "Caller must ensure this    *)
(* CR3 isn't loaded"), and no two live tasks share private tables.  The    *)
(* heap of a process up to the break (task_t.heap_brk), rounded up to a    *)
(* page, is mapped and stays below heap_end, whatever allocations failed.  *)
(* And a page that is mapped is owned, so that teardown frees it, and      *)
(* owned_pages[] never overruns (vmm.c:12).                                *)
MemorySound ==
  /\ loaded_cr3 \in CR3s => spaces[loaded_cr3].live
  /\ \A s \in Slots : Live(s) /\ cr3[s] # NoCr3 => spaces[cr3[s]].live
  /\ \A s, r \in Slots : Live(s) /\ Live(r) /\ cr3[s] = cr3[r] /\ cr3[s] # NoCr3 => s = r
  /\ \A s \in Slots : Live(s) /\ HasHeap(s) /\ heap_start[s] <= heap_end[s] =>
       /\ heap_brk[s] \in heap_start[s] .. heap_end[s]
       /\ \A v \in Pages : v * PageSize \in heap_start[s] .. heap_brk[s] - 1 =>
            spaces[cr3[s]].map[v] # 0
  /\ \A c \in CR3s : /\ spaces[c].owned <= VMM_MAX_PAGES
                     /\ \A v \in Pages : spaces[c].map[v] <= spaces[c].owned

(* While a process with its own address space can run, the shell is past   *)
(* its last allocation and file access and does nothing but wait: that,    *)
(* and no lock, keeps a preempted kmalloc or file operation of the shell   *)
(* from meeting one of the process (kernel.c: they "must never run at      *)
(* once").                                                                 *)
ShellWaits ==
  \A s \in Slots : Live(s) /\ cr3[s] # NoCr3 =>
    /\ shell.slot = s
    /\ shell.pc \in {"set_as", "set_start", "set_brk", "set_end", "wait"}

(* What a process has been given: all that is mapped, but for the pages a  *)
(* failed SYS_SBRK may have left above the break.                          *)
HandedOut(s) ==
  {v \in Pages : /\ spaces[cr3[s]].map[v] # 0
                 /\ v * PageSize \notin heap_brk[s] .. heap_end[s] - 1}

(* Memory a process has been given keeps its physical page as long as the  *)
(* process lives: no SYS_SBRK, retried or not, maps a fresh zeroed page    *)
(* over the program, the stack, the arguments or the heap below the break. *)
KeepsItsPages ==
  [][\A s \in Slots : Live(s) /\ Live(s)' /\ cr3[s] # NoCr3 /\ cr3'[s] = cr3[s] =>
       \A v \in HandedOut(s) : spaces'[cr3[s]].map[v] = spaces[cr3[s]].map[v]]_allVars

(* Back at the prompt, whichever of elf_exec's error paths was taken, no   *)
(* address space is left allocated and no descriptor is left open.         *)
PromptHoldsNothing ==
  shell.pc = "prompt" => ~exec_fd /\ \A c \in CR3s : ~spaces[c].live

(* A shell waiting for the process it started gets the prompt back.        *)
ShellReturns == shell.pc = "wait" ~> shell.pc = "prompt"

(* task_t.heap_start, 0 "= no heap (not an exec'd process)": an exec'd     *)
(* process in ring3 has its heap, so SYS_SBRK refuses it only for the      *)
(* reasons cpu/syscall.h lists.                                            *)
ExecdHasHeap ==
  shell.cmd = "exec" /\ cur # Idle /\ cur = shell.slot /\ cpu.at = "user" => HasHeap(cur)
=============================================================================
