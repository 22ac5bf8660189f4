------------------------------ MODULE Process ------------------------------
(***************************************************************************)
(* The process manager: the control blocks of process.c, the page          *)
(* directories of paging.c, the boot sequence of kernel.c and the timer    *)
(* interrupt, which is all that is left of the scheduler once boot has     *)
(* switched to the shell. Interrupts are off in system calls and during    *)
(* boot, so a call and a tick are each one step. Frame i is always mapped  *)
(* at page 0x300 + i, so a table entry is described by who may use it.     *)
(***************************************************************************)
EXTENDS Integers, FiniteSets, FiniteSetsExt

CONSTANTS
    PROCESS_COUNT_MAX,
    PAGING_DIRECTORY_TABLE_MAX_COUNT,
    PROCESS_PAGE_FRAME_COUNT_MAX,
    PAGE_FRAME_MAX_COUNT,
    PAGE_FRAME_SIZE,
    WordSize,          \* 2^32: buffer sizes are added as uint32_t
    ShellSize,         \* buffer_size of the request that loads the shell
    BufferSizes        \* buffer sizes of the requests made later

ASSUME ProcessAssumption ==
    /\ PROCESS_COUNT_MAX \in Nat \ {0}
    /\ PAGING_DIRECTORY_TABLE_MAX_COUNT \in Nat
    /\ PROCESS_COUNT_MAX <= PAGING_DIRECTORY_TABLE_MAX_COUNT
    /\ PROCESS_PAGE_FRAME_COUNT_MAX \in Nat \ {0}
    /\ PAGE_FRAME_MAX_COUNT \in Nat \ {0}
    /\ PAGE_FRAME_SIZE \in Nat \ {0}
    /\ WordSize \in Nat \ {0}
    /\ ShellSize \in Nat /\ BufferSizes \subseteq Nat

VARIABLES
    process_list,                    \* _process_list
    active_process_count,
    pid_counter,
    current_running_process_index,
    cr3,                             \* the directory the MMU uses
    page_directory_used,
    table,                           \* the directories' entries
    page_frame_map,
    free_page_frame_count,
    pc,        \* how far kernel_setup has come, "user" once it has switched
    history,   \* which of two ill-fated calls have been made
    fault      \* what ended the run, or "none"

lists == <<process_list, active_process_count, pid_counter>>
paging == <<page_directory_used, table>>
frames == <<page_frame_map, free_page_frame_count>>
cpu == <<current_running_process_index, cr3>>
pvars == <<lists, paging, frames, cpu, pc, history, fault>>
-----------------------------------------------------------------------------
Slots == 0 .. PROCESS_COUNT_MAX - 1
Dirs == 0 .. PAGING_DIRECTORY_TABLE_MAX_COUNT - 1
NULL == -1
KERNEL == -2           \* _paging_kernel_page_directory

\* The entries of a directory that are ever set: table[0], and table[0x300]
\* and up, counted from 0x300.
LOW == -768
Pages == {LOW} \cup 0 .. PROCESS_PAGE_FRAME_COUNT_MAX - 1
NoEntries == [p \in Pages |-> "absent"]
KernelEntries == [NoEntries EXCEPT ![LOW] = "kernel", ![0] = "kernel"]

\* A saved context: whose registers it holds, whether ss and cs are
\* selectors, and the page directory.
Context == [regs : Nat, selectors : BOOLEAN, dir : Dirs \cup {NULL}]
PCB == [pid : Nat, state : {"new", "ready", "terminated"},
        page_frame_used_count : Nat, context : Context]

ZeroPCB == [pid |-> 0, state |-> "new", page_frame_used_count |-> 0,
            context |-> [regs |-> 0, selectors |-> FALSE, dir |-> NULL]]

Init ==
    /\ process_list = [i \in Slots |-> ZeroPCB]
    /\ active_process_count = 0
    /\ pid_counter = 1
    /\ current_running_process_index = -1
    /\ cr3 = KERNEL
    /\ page_directory_used = [d \in Dirs |-> FALSE]
    /\ table = [d \in Dirs \cup {KERNEL} |->
                   IF d = KERNEL THEN KernelEntries ELSE NoEntries]
    /\ page_frame_map = [f \in 0 .. PAGE_FRAME_MAX_COUNT - 1 |-> f = 0]
    /\ free_page_frame_count = PAGE_FRAME_MAX_COUNT
    /\ pc = "paging"
    /\ history = {}
    /\ fault = "none"
-----------------------------------------------------------------------------
Live == {i \in Slots : process_list[i].pid # 0}
DirOf(i) == process_list[i].context.dir

\* Mutant: the pid is not looked at.
InactiveAny == Slots

Inactive == Slots \ Live
process_list_get_inactive_index == IF Inactive = {} THEN -1 ELSE Min(Inactive)

WithPid(pid) == {i \in Slots : process_list[i].pid = pid}

\* The slot behind process_get_current_running_pcb_pointer.
process_get_current_running_pcb_pointer ==
    IF active_process_count > 0 THEN active_process_count - 1 ELSE NULL

ceil_div(a, b) == (a \div b) + (IF a % b # 0 THEN 1 ELSE 0)
FramesNeeded(size) ==
    ceil_div((size + PAGE_FRAME_SIZE) % WordSize, PAGE_FRAME_SIZE)
paging_allocate_check(amount) == amount <= free_page_frame_count

\* Mutant: page_directory_used is not looked at.
UnusedAny == Dirs

Unused == {d \in Dirs : ~page_directory_used[d]}
NewDir == IF Unused = {} THEN NULL ELSE Min(Unused)

\* What paging_create_new_page_directory leaves in the directory it takes.
NewTable == [table[NewDir] EXCEPT ![LOW] = table[KERNEL][LOW],
                                  ![0] = table[KERNEL][0]]
\* Mutant: one page too many.
WithUserPagesThrough(t, k) == [p \in Pages |-> IF p \in 0 .. k THEN "user" ELSE t[p]]

\* update_page_directory_entry for the frames of a process.
WithUserPages(t, k) == [p \in Pages |-> IF p \in 0 .. k - 1 THEN "user" ELSE t[p]]
-----------------------------------------------------------------------------
(* process_create_user_process. A request is its buffer's half of the      *)
(* address space, its size, and whether the file system can serve it.      *)

\* Mutant: > for >= in the test of active_process_count.
CreateCodeLateTest(high, size, readable) ==
    IF active_process_count > PROCESS_COUNT_MAX THEN 1
    ELSE IF high THEN 2
    ELSE IF \/ ~paging_allocate_check(FramesNeeded(size))
            \/ FramesNeeded(size) > PROCESS_PAGE_FRAME_COUNT_MAX THEN 3
    ELSE IF NewDir = NULL THEN 3
    ELSE IF ~readable THEN 4
    ELSE 0

CreateCode(high, size, readable) ==
    IF active_process_count >= PROCESS_COUNT_MAX THEN 1
    ELSE IF high THEN 2
    ELSE IF \/ ~paging_allocate_check(FramesNeeded(size))
            \/ FramesNeeded(size) > PROCESS_PAGE_FRAME_COUNT_MAX THEN 3
    ELSE IF NewDir = NULL THEN 3
    ELSE IF ~readable THEN 4
    ELSE 0

CreateRefused(high, size, readable) ==
    /\ CreateCode(high, size, readable) \in {1, 2, 3}
    /\ UNCHANGED <<lists, paging, history, fault>>

\* The directory taken for the process is not given back.
CreateUnreadable(high, size, readable) ==
    /\ CreateCode(high, size, readable) = 4
    /\ page_directory_used' = [page_directory_used EXCEPT ![NewDir] = TRUE]
    /\ table' = [table EXCEPT ![NewDir] = NewTable]
    /\ history' = history \cup {"unreadable"}
    /\ UNCHANGED <<lists, fault>>

\* A slot outside the list is not checked for.
CreateProcess(high, size, readable) ==
    LET i == process_list_get_inactive_index
        k == FramesNeeded(size)
        pcb == [pid |-> pid_counter, state |-> "ready",
                page_frame_used_count |-> k,
                context |-> [regs |-> pid_counter, selectors |-> TRUE, dir |-> NewDir]]
    IN  /\ CreateCode(high, size, readable) = 0
        /\ page_directory_used' = [page_directory_used EXCEPT ![NewDir] = TRUE]
        /\ table' = [table EXCEPT ![NewDir] = WithUserPages(NewTable, k)]
        /\ process_list' = [process_list EXCEPT ![i] = pcb]
        /\ pid_counter' = pid_counter + 1
        /\ active_process_count' = active_process_count + 1
        /\ fault' = IF i = -1 THEN "list overrun" ELSE "none"
        /\ UNCHANGED history

process_create_user_process(high, size, readable) ==
    \/ CreateRefused(high, size, readable)
    \/ CreateUnreadable(high, size, readable)
    \/ CreateProcess(high, size, readable)
-----------------------------------------------------------------------------
(* kernel_setup, from the first page frame on.                             *)

BootPaging ==
    /\ pc = "paging" /\ pc' = "create"
    /\ table' = [table EXCEPT ![KERNEL][LOW] = "user"]
    /\ page_frame_map' = [page_frame_map EXCEPT
                             ![PAGE_FRAME_MAX_COUNT - free_page_frame_count] = TRUE]
    /\ free_page_frame_count' = free_page_frame_count - 1
    /\ UNCHANGED <<lists, page_directory_used, cpu, history, fault>>

\* The return code is ignored.
BootCreate ==
    /\ pc = "create" /\ pc' = "switch"
    /\ \E readable \in BOOLEAN : process_create_user_process(FALSE, ShellSize, readable)
    /\ UNCHANGED <<frames, cpu>>

\* scheduler_init and the only call of scheduler_switch_to_next_process.
BootSwitch ==
    /\ pc = "switch" /\ pc' = "user"
    /\ active_process_count' = 1
    /\ LET next == (current_running_process_index + 1) % active_process_count'
       IN  /\ current_running_process_index' = next
           /\ cr3' = DirOf(next)
           /\ fault' = IF DirOf(next) = NULL THEN "no directory" ELSE "none"
    /\ UNCHANGED <<process_list, pid_counter, paging, frames, history>>
-----------------------------------------------------------------------------
(* System calls 14 and 15 and the timer interrupt.                         *)

Exec ==
    /\ pc = "user"
    /\ \E high, readable \in BOOLEAN, size \in BufferSizes :
           process_create_user_process(high, size, readable)
    /\ UNCHANGED <<frames, cpu, pc>>

\* Mutant: active_process_count goes down, also for pid 0.
process_destroy_counted(pid) ==
    LET i == Min(WithPid(pid))
        d == DirOf(i)
    IN  /\ WithPid(pid) # {}
        /\ page_directory_used' = [e \in Dirs |-> page_directory_used[e] /\ e # d]
        /\ table' = [e \in DOMAIN table |-> IF e = d THEN NoEntries ELSE table[e]]
        /\ process_list' = [process_list EXCEPT ![i].pid = 0, ![i].state = "terminated"]
        /\ history' = IF pid = 0 THEN history \cup {"kill 0"} ELSE history
        /\ fault' = IF d = cr3 THEN "running directory freed" ELSE "none"
        /\ active_process_count' = active_process_count - 1
        /\ UNCHANGED pid_counter

\* Pid 0 finds the first inactive slot and frees the directory its last
\* process had. active_process_count stays.
process_destroy(pid) ==
    LET i == Min(WithPid(pid))
        d == DirOf(i)
    IN  /\ WithPid(pid) # {}
        /\ page_directory_used' = [e \in Dirs |-> page_directory_used[e] /\ e # d]
        /\ table' = [e \in DOMAIN table |-> IF e = d THEN NoEntries ELSE table[e]]
        /\ process_list' = [process_list EXCEPT ![i].pid = 0, ![i].state = "terminated"]
        /\ history' = IF pid = 0 THEN history \cup {"kill 0"} ELSE history
        /\ fault' = IF d = cr3 THEN "running directory freed" ELSE "none"
        /\ UNCHANGED <<active_process_count, pid_counter>>

\* Pids a caller may name: those of processes, 0, and one no process has.
Kill ==
    /\ pc = "user"
    /\ \E pid \in 0 .. PROCESS_COUNT_MAX + 1 :
           \/ process_destroy(pid)
           \/ WithPid(pid) = {} /\ UNCHANGED <<lists, paging, history, fault>>
    /\ UNCHANGED <<frames, cpu, pc>>

\* The timer interrupt saves the interrupted context, whose ss and cs
\* create_context_from_interrupt_frame leaves as it found them on the stack.
Timer ==
    /\ pc = "user"
    /\ LET i == process_get_current_running_pcb_pointer
           running == process_list[current_running_process_index].pid
       IN  /\ i # NULL
           /\ \E s \in BOOLEAN :
                  process_list' = [process_list EXCEPT ![i].context =
                      [regs |-> running, selectors |-> s, dir |-> DirOf(i)]]
    /\ UNCHANGED <<active_process_count, pid_counter, paging, frames, cpu, pc,
                   history, fault>>

Stopped == fault # "none" /\ UNCHANGED pvars

Next == \/ /\ fault = "none"
           /\ BootPaging \/ BootCreate \/ BootSwitch \/ Exec \/ Kill \/ Timer
        \/ Stopped

Spec == Init /\ [][Next]_pvars
-----------------------------------------------------------------------------
(* Properties.                                                             *)

\* The variables have their types; the frame pool of paging.c is never
\* overdrawn.
TypeOK ==
    /\ process_list \in [Slots -> PCB]
    /\ active_process_count \in Nat /\ pid_counter \in Nat \ {0}
    /\ current_running_process_index \in Slots \cup {-1}
    /\ cr3 \in Dirs \cup {NULL, KERNEL}
    /\ page_directory_used \in [Dirs -> BOOLEAN]
    /\ table \in [Dirs \cup {KERNEL} -> [Pages -> {"absent", "kernel", "user"}]]
    /\ page_frame_map \in [0 .. PAGE_FRAME_MAX_COUNT - 1 -> BOOLEAN]
    /\ free_page_frame_count \in Nat
    /\ pc \in {"paging", "create", "switch", "user"}
    /\ history \subseteq {"unreadable", "kill 0"}
    /\ fault \in {"none", "list overrun", "no directory", "running directory freed"}

\* process_create_user_process does not look at the -1 of
\* process_list_get_inactive_index. It never has to: processes are created
\* in the first inactive slot and active_process_count never goes down, so a
\* count below the maximum leaves a slot free, through any creations and
\* kills.
ListNeverOverrun == fault # "list overrun"

Owned ==
    /\ \A i \in Live : DirOf(i) \in Dirs /\ page_directory_used[DirOf(i)]
    /\ \A i, j \in Live : DirOf(i) = DirOf(j) => i = j

\* Every process has a page directory of its own, marked as used. Either of
\* two calls is harmless alone, and only both together break it: a creation
\* that fails in the file system and keeps its directory, and kill 0, which
\* frees the directory that an inactive slot still remembers.
DirsOwned ==
    fault = "none" /\ history # {"unreadable", "kill 0"} => Owned

Mapped ==
    \A i \in Live, p \in Pages :
        table[DirOf(i)][p] # "absent" <=>
            p \in {LOW, 0} \cup 0 .. process_list[i].page_frame_used_count - 1

\* A process's directory maps the kernel, the low page and the process's own
\* frames and nothing that an earlier owner of the directory mapped.
NoStaleMappings ==
    fault = "none" /\ history # {"unreadable", "kill 0"} => Mapped

\* The MMU's directory is the running process's and is marked as used: no
\* creation or kill takes it away, short of a kill of the running process.
RunningMapped ==
    fault = "none" /\ pc = "user" =>
        /\ current_running_process_index \in Live
        /\ cr3 = DirOf(current_running_process_index)
        /\ cr3 \in Dirs /\ page_directory_used[cr3]

\* active_process_count counts creations and not processes: at most
\* PROCESS_COUNT_MAX processes are created between two boots, however many
\* are killed, and pid_counter does not wrap.
LifetimeLimit == pid_counter - 1 <= PROCESS_COUNT_MAX

\* scheduler_save_context_to_current_running_pcb: a control block's context
\* is that of its own process.
SavedContextIsOwn ==
    \A i \in Live : process_list[i].context.regs = process_list[i].pid
=============================================================================
