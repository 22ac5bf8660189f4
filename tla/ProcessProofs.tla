--------------------------- MODULE ProcessProofs ---------------------------
(***************************************************************************)
(* Proofs about Process, for every number of control blocks, directories   *)
(* and frames and every set of requests.                                   *)
(***************************************************************************)
EXTENDS Process, WellFoundedInduction, TLAPS

\* A non-empty set of naturals has a minimum, and Min is it: the searches for
\* a free slot, an unused directory or a pid return an element of what they
\* search.
LEMMA MinLemma ==
    ASSUME NEW S \in SUBSET Nat, S # {}
    PROVE  Min(S) \in S /\ \A y \in S : Min(S) <= y
<1> DEFINE R == {ss \in Nat \X Nat : ss[1] < ss[2]}
<1>1. R = OpToRel(<, Nat)
    BY Zenon DEF OpToRel
<1>2. IsWellFoundedOn(R, Nat)
    BY <1>1, NatLessThanWellFounded
<1> HIDE DEF R
<1>3. PICK x \in S : \A y \in S : ~(<<y, x>> \in R)
    BY <1>2, WFMin
<1>4. ASSUME NEW y \in S PROVE x <= y
  <2>1. x \in Nat /\ y \in Nat
    OBVIOUS
  <2>2. y < x => <<y, x>> \in R
    BY <2>1 DEF R
  <2>3. ~(y < x)
    BY <1>3, <2>2
  <2> QED BY <2>1, <2>3
<1> QED BY <1>4, Zenon DEF Min

-----------------------------------------------------------------------------
(* What the searches return.                                               *)

\* process_list_get_inactive_index is the first inactive slot, if there is
\* one.
LEMMA InactiveIndexFirst ==
    ASSUME Inactive # {}
    PROVE  /\ process_list_get_inactive_index \in Inactive
           /\ process_list_get_inactive_index # -1
           /\ \A j \in Inactive : process_list_get_inactive_index <= j
<1>1. Inactive \in SUBSET Nat
    BY ProcessAssumption DEF Inactive, Slots
<1>2. Min(Inactive) \in Inactive /\ \A j \in Inactive : Min(Inactive) <= j
    BY <1>1, MinLemma
<1>3. process_list_get_inactive_index = Min(Inactive)
    BY Zenon DEF process_list_get_inactive_index
<1>4. Min(Inactive) # -1
    BY <1>1, <1>2
<1> QED BY <1>2, <1>3, <1>4, Zenon

\* paging_create_new_page_directory takes the first directory not in use.
LEMMA NewDirFirst ==
    ASSUME NewDir # NULL
    PROVE  NewDir \in Unused /\ NewDir \in Dirs /\ \A d \in Unused : NewDir <= d
<1>1. Unused \in SUBSET Nat /\ Unused # {}
    BY ProcessAssumption DEF Unused, Dirs, NewDir
<1>2. Min(Unused) \in Unused /\ \A d \in Unused : Min(Unused) <= d
    BY <1>1, MinLemma
<1> QED BY <1>1, <1>2 DEF NewDir, Unused

\* process_list_get_pcb_by_pid finds a slot with the pid it looks for.
LEMMA WithPidFirst ==
    ASSUME NEW pid, WithPid(pid) # {}
    PROVE  Min(WithPid(pid)) \in Slots /\ process_list[Min(WithPid(pid))].pid = pid
<1>1. WithPid(pid) \in SUBSET Nat
    BY ProcessAssumption DEF WithPid, Slots
<1>2. Min(WithPid(pid)) \in WithPid(pid)
    BY <1>1, MinLemma
<1> QED BY <1>2 DEF WithPid

\* A process needs a natural number of frames.
LEMMA FramesNeededType ==
    ASSUME NEW size \in Nat
    PROVE  FramesNeeded(size) \in Nat
<1> DEFINE a == (size + PAGE_FRAME_SIZE) % WordSize
<1>1. a \in Nat
    BY ProcessAssumption
<1> HIDE DEF a
<1>2. a \div PAGE_FRAME_SIZE \in Nat
    BY <1>1, ProcessAssumption
<1> QED BY <1>2 DEF FramesNeeded, ceil_div, a

\* The conditions under which the last two outcomes of a creation are
\* reached.
LEMMA CreateCodeLate ==
    ASSUME NEW high \in BOOLEAN, NEW size \in Nat, NEW readable \in BOOLEAN,
           CreateCode(high, size, readable) \in {0, 4}
    PROVE  /\ ~(active_process_count >= PROCESS_COUNT_MAX)
           /\ ~(FramesNeeded(size) > PROCESS_PAGE_FRAME_COUNT_MAX)
           /\ NewDir # NULL
<1>1. CreateCode(high, size, readable) \notin {1, 2, 3}
    OBVIOUS
<1> QED BY <1>1 DEF CreateCode

-----------------------------------------------------------------------------
(* The inductive invariant.                                                *)

\* Processes fill the list from the front, and creations are counted.
Counted ==
    /\ Live \subseteq 0 .. active_process_count - 1
    /\ active_process_count <= PROCESS_COUNT_MAX
    /\ pid_counter - 1 <= active_process_count

\* As long as no creation kept a directory, slot i has or remembers
\* directory i: slots and directories are both taken from the front.
Aligned ==
    /\ \A i \in Slots : DirOf(i) \in {NULL, i}
    /\ \A i \in Live : DirOf(i) = i
    /\ \A d \in Dirs : page_directory_used[d] <=> d \in Live

\* A directory not in use has no entries, and the kernel's has the two that
\* are copied to the others.
Cleared ==
    /\ \A d \in Dirs : ~page_directory_used[d] => table[d] = NoEntries
    /\ table[KERNEL][0] # "absent" /\ table[KERNEL][LOW] # "absent"

Core ==
    /\ TypeOK /\ ListNeverOverrun /\ Counted /\ Cleared
    /\ "unreadable" \notin history => Aligned
    /\ history # {"unreadable", "kill 0"} => Owned /\ Mapped

\* What is known while kernel_setup runs.
Stages ==
    /\ pc \in {"paging", "create"} =>
           /\ process_list = [i \in Slots |-> ZeroPCB]
           /\ active_process_count = 0
    /\ pc = "paging" => free_page_frame_count = PAGE_FRAME_MAX_COUNT
    /\ pc = "switch" => /\ active_process_count <= 1
                        /\ DirOf(0) # NULL => 0 \in Live /\ page_directory_used[DirOf(0)]
    /\ pc # "user" => current_running_process_index = -1

PInv == Core /\ Stages /\ RunningMapped
-----------------------------------------------------------------------------
\* What a creation changes, in terms of the slot, the directory and the
\* number of frames it uses.
Created(i, d, k) ==
    /\ i \in Slots /\ i \notin Live /\ i <= active_process_count
    /\ \A j \in Slots : j \notin Live => i <= j
    /\ d \in Dirs /\ ~page_directory_used[d]
    /\ \A e \in Dirs : ~page_directory_used[e] => d <= e
    /\ k \in Nat /\ k <= PROCESS_PAGE_FRAME_COUNT_MAX
    /\ page_directory_used' = [page_directory_used EXCEPT ![d] = TRUE]
    /\ process_list' = [process_list EXCEPT ![i] =
           [pid |-> pid_counter, state |-> "ready", page_frame_used_count |-> k,
            context |-> [regs |-> pid_counter, selectors |-> TRUE, dir |-> d]]]

\* A creation that succeeds finds an inactive slot and an unused directory.
LEMMA CreateProcessFacts ==
    ASSUME Core, NEW high \in BOOLEAN, NEW size \in Nat, NEW readable \in BOOLEAN,
           CreateProcess(high, size, readable)
    PROVE  \E i, d, k :
               /\ Created(i, d, k)
               /\ table' = [table EXCEPT ![d] = WithUserPages(
                       [table[d] EXCEPT ![LOW] = table[KERNEL][LOW],
                                        ![0] = table[KERNEL][0]], k)]
               /\ active_process_count < PROCESS_COUNT_MAX
               /\ active_process_count' = active_process_count + 1
               /\ pid_counter' = pid_counter + 1
               /\ fault' = "none" /\ history' = history
<1> DEFINE i == process_list_get_inactive_index
           d == NewDir
           k == FramesNeeded(size)
<1>1. CreateCode(high, size, readable) = 0
    BY DEF CreateProcess
<1>2. /\ ~(active_process_count >= PROCESS_COUNT_MAX)
      /\ ~(k > PROCESS_PAGE_FRAME_COUNT_MAX)
      /\ d # NULL
    BY <1>1, CreateCodeLate
<1>0. /\ active_process_count \in Nat
      /\ Live \subseteq 0 .. active_process_count - 1
      /\ PROCESS_COUNT_MAX \in Nat
    BY ProcessAssumption, Zenon DEF Core, TypeOK, Counted
<1>3. active_process_count \in Nat /\ active_process_count < PROCESS_COUNT_MAX
    BY <1>0, <1>2
<1>4. active_process_count \in Inactive
    BY <1>0, <1>3 DEF Inactive, Slots
<1>5. /\ i \in Inactive /\ i # -1
      /\ \A j \in Inactive : i <= j
    BY <1>4, InactiveIndexFirst
<1>6. /\ i \in Slots /\ i \notin Live /\ i <= active_process_count
      /\ \A j \in Slots : j \notin Live => i <= j
    BY <1>4, <1>5 DEF Inactive
<1>7. d \in Unused /\ d \in Dirs /\ \A e \in Unused : d <= e
    BY <1>2, NewDirFirst
<1>8. d \in Dirs /\ ~page_directory_used[d] /\ \A e \in Dirs : ~page_directory_used[e] => d <= e
    BY <1>7 DEF Unused
<1>9. k \in Nat /\ k <= PROCESS_PAGE_FRAME_COUNT_MAX
    BY <1>2, FramesNeededType, ProcessAssumption
<1>10. /\ page_directory_used' = [page_directory_used EXCEPT ![d] = TRUE]
       /\ process_list' = [process_list EXCEPT ![i] =
              [pid |-> pid_counter, state |-> "ready", page_frame_used_count |-> k,
               context |-> [regs |-> pid_counter, selectors |-> TRUE, dir |-> d]]]
       /\ table' = [table EXCEPT ![d] = WithUserPages(
              [table[d] EXCEPT ![LOW] = table[KERNEL][LOW],
                               ![0] = table[KERNEL][0]], k)]
       /\ active_process_count' = active_process_count + 1
       /\ pid_counter' = pid_counter + 1
       /\ history' = history
    BY Zenon DEF CreateProcess, NewTable
<1>11. fault' = "none"
    BY <1>5, Zenon DEF CreateProcess
<1> HIDE DEF i, d, k
<1>12. Created(i, d, k)
    BY <1>6, <1>8, <1>9, <1>10 DEF Created
<1> QED BY <1>3, <1>10, <1>11, <1>12

\* The processes after a creation.
LEMMA CreatedLive ==
    ASSUME TypeOK, NEW i, NEW d, NEW k, Created(i, d, k)
    PROVE  /\ Live' = Live \cup {i}
           /\ \A j \in Slots : DirOf(j)' = IF j = i THEN d ELSE DirOf(j)
           /\ \A j \in Slots : j # i => process_list'[j] = process_list[j]
           /\ process_list'[i].page_frame_used_count = k
           /\ process_list' \in [Slots -> PCB]
           /\ page_directory_used' \in [Dirs -> BOOLEAN]
           /\ \A e \in Dirs : page_directory_used'[e] <=> e = d \/ page_directory_used[e]
<1> DEFINE pcb == [pid |-> pid_counter, state |-> "ready", page_frame_used_count |-> k,
            context |-> [regs |-> pid_counter, selectors |-> TRUE, dir |-> d]]
<1>1. /\ process_list \in [Slots -> PCB] /\ pid_counter \in Nat \ {0}
      /\ page_directory_used \in [Dirs -> BOOLEAN]
    BY Zenon DEF TypeOK
<1>2. i \in Slots /\ d \in Dirs /\ k \in Nat
    BY DEF Created
<1>3. process_list' = [process_list EXCEPT ![i] = pcb]
    BY Zenon DEF Created
<1>4. page_directory_used' = [page_directory_used EXCEPT ![d] = TRUE]
    BY Zenon DEF Created
<1>5. pcb \in PCB
    BY <1>1, <1>2 DEF PCB, Context
<1>6. pcb.pid # 0 /\ pcb.context.dir = d /\ pcb.page_frame_used_count = k
    BY <1>1
<1> HIDE DEF pcb
<1>7. \A j \in Slots : process_list'[j] = IF j = i THEN pcb ELSE process_list[j]
    BY <1>1, <1>2, <1>3
<1>8. process_list' \in [Slots -> PCB]
    BY <1>1, <1>2, <1>3, <1>5
<1>9. Live' = Live \cup {i}
    BY <1>2, <1>6, <1>7 DEF Live
<1>10. \A j \in Slots : DirOf(j)' = IF j = i THEN d ELSE DirOf(j)
    BY <1>6, <1>7 DEF DirOf
<1>11. /\ page_directory_used' \in [Dirs -> BOOLEAN]
       /\ \A e \in Dirs : page_directory_used'[e] <=> e = d \/ page_directory_used[e]
    BY <1>1, <1>2, <1>4
<1> QED BY <1>2, <1>6, <1>7, <1>8, <1>9, <1>10, <1>11

\* The entries of the directory a creation takes: the low page, the kernel's
\* page and the pages of the process.
LEMMA CreatedTable ==
    ASSUME TypeOK, Cleared, NEW d \in Dirs, ~page_directory_used[d],
           NEW k \in Nat, k <= PROCESS_PAGE_FRAME_COUNT_MAX
    PROVE  LET t == [table[d] EXCEPT ![LOW] = table[KERNEL][LOW], ![0] = table[KERNEL][0]]
               u == WithUserPages(t, k)
           IN  /\ t \in [Pages -> {"absent", "kernel", "user"}]
               /\ u \in [Pages -> {"absent", "kernel", "user"}]
               /\ \A p \in Pages : u[p] # "absent" <=> p \in {LOW, 0} \cup 0 .. k - 1
<1> DEFINE t == [table[d] EXCEPT ![LOW] = table[KERNEL][LOW], ![0] = table[KERNEL][0]]
           u == WithUserPages(t, k)
<1>1. table \in [Dirs \cup {KERNEL} -> [Pages -> {"absent", "kernel", "user"}]]
    BY Zenon DEF TypeOK
<1>2. table[d] = [p \in Pages |-> "absent"]
    BY DEF Cleared, NoEntries
<1>3. 0 \in Pages /\ LOW \in Pages
    BY ProcessAssumption DEF Pages, LOW
<1>4. PICK x, y : x = table[KERNEL][LOW] /\ y = table[KERNEL][0]
    OBVIOUS
<1>5. x \in {"kernel", "user"} /\ y \in {"kernel", "user"}
    BY <1>1, <1>3, <1>4 DEF Cleared
<1>6. t = [p \in Pages |-> IF p = 0 THEN y ELSE IF p = LOW THEN x ELSE "absent"]
    BY <1>2, <1>3, <1>4 DEF LOW
<1>7. t \in [Pages -> {"absent", "kernel", "user"}]
    BY <1>5, <1>6
<1>8. \A p \in Pages : t[p] # "absent" <=> p \in {LOW, 0}
    BY <1>5, <1>6
<1> HIDE DEF t
<1>9. u = [p \in Pages |-> IF p \in 0 .. k - 1 THEN "user" ELSE t[p]]
    BY DEF WithUserPages
<1>10. u \in [Pages -> {"absent", "kernel", "user"}]
    BY <1>7, <1>9
<1>11. \A p \in Pages : u[p] # "absent" <=> p \in {LOW, 0} \cup 0 .. k - 1
    BY <1>8, <1>9
<1> QED BY <1>7, <1>10, <1>11 DEF t

PcValues == {"paging", "create", "switch", "user"}

\* A creation that succeeds keeps the core of the invariant.
LEMMA CreateProcessCore ==
    ASSUME Core, NEW high \in BOOLEAN, NEW size \in Nat, NEW readable \in BOOLEAN,
           CreateProcess(high, size, readable), UNCHANGED <<frames, cpu>>,
           pc' \in PcValues
    PROVE  Core'
<1>1. PICK i, d, k :
          /\ Created(i, d, k)
          /\ table' = [table EXCEPT ![d] = WithUserPages(
                  [table[d] EXCEPT ![LOW] = table[KERNEL][LOW],
                                   ![0] = table[KERNEL][0]], k)]
          /\ active_process_count < PROCESS_COUNT_MAX
          /\ active_process_count' = active_process_count + 1
          /\ pid_counter' = pid_counter + 1
          /\ fault' = "none" /\ history' = history
    BY CreateProcessFacts
<1>2. TypeOK /\ Counted /\ Cleared
    BY DEF Core
<1>3. /\ Live' = Live \cup {i}
      /\ \A j \in Slots : DirOf(j)' = IF j = i THEN d ELSE DirOf(j)
      /\ \A j \in Slots : j # i => process_list'[j] = process_list[j]
      /\ process_list'[i].page_frame_used_count = k
      /\ process_list' \in [Slots -> PCB]
      /\ page_directory_used' \in [Dirs -> BOOLEAN]
      /\ \A e \in Dirs : page_directory_used'[e] <=> e = d \/ page_directory_used[e]
    BY <1>1, <1>2, CreatedLive
<1>4. /\ i \in Slots /\ i \notin Live /\ i <= active_process_count
      /\ \A j \in Slots : j \notin Live => i <= j
      /\ d \in Dirs /\ ~page_directory_used[d]
      /\ \A e \in Dirs : ~page_directory_used[e] => d <= e
      /\ k \in Nat /\ k <= PROCESS_PAGE_FRAME_COUNT_MAX
    BY <1>1 DEF Created
<1>5. PICK u : u = WithUserPages([table[d] EXCEPT ![LOW] = table[KERNEL][LOW],
                                                  ![0] = table[KERNEL][0]], k)
    OBVIOUS
<1>6. /\ u \in [Pages -> {"absent", "kernel", "user"}]
      /\ \A p \in Pages : u[p] # "absent" <=> p \in {LOW, 0} \cup 0 .. k - 1
    BY <1>2, <1>4, <1>5, CreatedTable
<1>7. table' = [table EXCEPT ![d] = u]
    BY <1>1, <1>5
<1>8. table \in [Dirs \cup {KERNEL} -> [Pages -> {"absent", "kernel", "user"}]]
    BY <1>2, Zenon DEF TypeOK
<1>9. /\ table' \in [Dirs \cup {KERNEL} -> [Pages -> {"absent", "kernel", "user"}]]
      /\ \A e \in Dirs \cup {KERNEL} : table'[e] = IF e = d THEN u ELSE table[e]
    BY <1>4, <1>6, <1>7, <1>8
<1>10. d # KERNEL /\ KERNEL \in Dirs \cup {KERNEL} /\ Live \subseteq Slots
    BY <1>4, ProcessAssumption DEF Dirs, KERNEL, Live
<1>11. active_process_count \in Nat /\ pid_counter \in Nat \ {0}
    BY <1>2, Zenon DEF TypeOK
<1>12. TypeOK'
  <2>1. active_process_count' \in Nat /\ pid_counter' \in Nat \ {0}
    BY <1>1, <1>11
  <2> QED BY <1>1, <1>2, <1>3, <1>9, <2>1, Zenon DEF TypeOK, PcValues, frames, cpu
<1>13. ListNeverOverrun'
    BY <1>1 DEF ListNeverOverrun
<1>14. Counted'
  <2>0. i \in 0 .. active_process_count /\ Live \subseteq 0 .. active_process_count - 1
    BY <1>2, <1>4, <1>11, ProcessAssumption DEF Counted, Slots
  <2>1. Live' \subseteq 0 .. active_process_count' - 1
    BY <1>1, <1>3, <1>11, <2>0
  <2>2. active_process_count' <= PROCESS_COUNT_MAX /\ pid_counter' - 1 <= active_process_count'
    BY <1>1, <1>2, <1>11, ProcessAssumption DEF Counted
  <2> QED BY <2>1, <2>2 DEF Counted
<1>15. Cleared'
  <2>1. \A e \in Dirs : ~page_directory_used'[e] => table'[e] = NoEntries
    BY <1>2, <1>3, <1>9 DEF Cleared
  <2>2. table'[KERNEL] = table[KERNEL]
    BY <1>9, <1>10
  <2> QED BY <1>2, <2>1, <2>2 DEF Cleared
<1>16. ASSUME "unreadable" \notin history PROVE Aligned'
  <2>1. Aligned
    BY <1>16 DEF Core
  <2>2. Slots \subseteq Dirs
    BY ProcessAssumption DEF Slots, Dirs
  <2>3. i <= d
    <3>1. CASE d \in Slots
      BY <1>4, <2>1, <3>1 DEF Aligned
    <3>2. CASE d \notin Slots
      BY <1>4, <3>2, ProcessAssumption DEF Slots, Dirs
    <3> QED BY <3>1, <3>2
  <2>4. d <= i
    BY <1>4, <2>1, <2>2 DEF Aligned
  <2>5. d = i
    BY <1>4, <2>3, <2>4, ProcessAssumption DEF Slots, Dirs
  <2>6. \A j \in Slots : DirOf(j)' \in {NULL, j}
    BY <1>3, <2>1, <2>5 DEF Aligned
  <2>7. \A j \in Live' : DirOf(j)' = j
    BY <1>3, <1>4, <1>10, <2>1, <2>5 DEF Aligned
  <2>8. \A e \in Dirs : page_directory_used'[e] <=> e \in Live'
    BY <1>3, <2>1, <2>5 DEF Aligned
  <2> QED BY <2>6, <2>7, <2>8 DEF Aligned
<1>17. ASSUME history # {"unreadable", "kill 0"} PROVE Owned' /\ Mapped'
  <2>1. Owned /\ Mapped
    BY <1>17 DEF Core
  <2>2. \A j \in Live : j \in Slots /\ j # i /\ DirOf(j) \in Dirs /\ DirOf(j) # d
    BY <1>4, <1>10, <2>1 DEF Owned
  <2>3. Owned'
    <3>1. \A j \in Live' : DirOf(j)' \in Dirs /\ page_directory_used'[DirOf(j)']
      BY <1>3, <1>4, <2>1, <2>2 DEF Owned
    <3>2. \A j, l \in Live' : DirOf(j)' = DirOf(l)' => j = l
      BY <1>3, <1>4, <2>1, <2>2 DEF Owned
    <3> QED BY <3>1, <3>2 DEF Owned
  <2>4. Mapped'
    <3>1. ASSUME NEW j \in Live', NEW p \in Pages
          PROVE  table'[DirOf(j)'][p] # "absent" <=>
                     p \in {LOW, 0} \cup 0 .. process_list'[j].page_frame_used_count - 1
      <4>1. CASE j = i
        BY <1>3, <1>4, <1>6, <1>9, <4>1
      <4>2. CASE j # i
        <5>1. j \in Live /\ DirOf(j)' = DirOf(j)
          BY <1>3, <1>10, <4>2
        <5>2. process_list'[j] = process_list[j] /\ table'[DirOf(j)] = table[DirOf(j)]
          BY <1>3, <1>9, <2>2, <4>2, <5>1
        <5> QED BY <2>1, <5>1, <5>2 DEF Mapped
      <4> QED BY <4>1, <4>2
    <3> QED BY <3>1 DEF Mapped
  <2> QED BY <2>3, <2>4
<1> QED BY <1>1, <1>12, <1>13, <1>14, <1>15, <1>16, <1>17 DEF Core

\* A creation that fails in the file system keeps a directory but no slot.
LEMMA CreateUnreadableCore ==
    ASSUME Core, NEW high \in BOOLEAN, NEW size \in Nat, NEW readable \in BOOLEAN,
           CreateUnreadable(high, size, readable), UNCHANGED <<frames, cpu>>,
           pc' \in PcValues
    PROVE  Core'
<1>1. PICK d : d = NewDir
    OBVIOUS
<1>2. d # NULL
    BY <1>1, CreateCodeLate DEF CreateUnreadable
<1>3. d \in Dirs /\ ~page_directory_used[d]
    BY <1>1, <1>2, NewDirFirst DEF Unused
<1>4. PICK t : t = [table[d] EXCEPT ![LOW] = table[KERNEL][LOW], ![0] = table[KERNEL][0]]
    OBVIOUS
<1>5. TypeOK /\ Counted /\ Cleared
    BY DEF Core
<1>6. t \in [Pages -> {"absent", "kernel", "user"}]
  <2>1. 0 \in Nat /\ 0 <= PROCESS_PAGE_FRAME_COUNT_MAX
    BY ProcessAssumption
  <2>2. [table[d] EXCEPT ![LOW] = table[KERNEL][LOW], ![0] = table[KERNEL][0]]
            \in [Pages -> {"absent", "kernel", "user"}]
    BY <1>3, <1>5, <2>1, CreatedTable
  <2> QED BY <1>4, <2>2
<1>7. /\ page_directory_used' = [page_directory_used EXCEPT ![d] = TRUE]
      /\ table' = [table EXCEPT ![d] = t]
      /\ history' = history \cup {"unreadable"}
      /\ UNCHANGED <<lists, fault>>
    BY <1>1, <1>4, Zenon DEF CreateUnreadable, NewTable
<1>8. /\ table \in [Dirs \cup {KERNEL} -> [Pages -> {"absent", "kernel", "user"}]]
      /\ page_directory_used \in [Dirs -> BOOLEAN]
    BY <1>5, Zenon DEF TypeOK
<1>9. /\ table' \in [Dirs \cup {KERNEL} -> [Pages -> {"absent", "kernel", "user"}]]
      /\ \A e \in Dirs \cup {KERNEL} : e # d => table'[e] = table[e]
      /\ page_directory_used' \in [Dirs -> BOOLEAN]
      /\ \A e \in Dirs : page_directory_used'[e] <=> e = d \/ page_directory_used[e]
    BY <1>3, <1>6, <1>7, <1>8
<1>10. d # KERNEL /\ KERNEL \in Dirs \cup {KERNEL}
    BY <1>3, ProcessAssumption DEF Dirs, KERNEL
<1>11. Live' = Live /\ \A j : DirOf(j)' = DirOf(j)
    BY <1>7 DEF Live, DirOf, lists
<1>12. TypeOK'
  <2>1. history' \subseteq {"unreadable", "kill 0"}
    BY <1>5, <1>7 DEF TypeOK
  <2> QED BY <1>5, <1>7, <1>9, <2>1, Zenon DEF TypeOK, PcValues, lists, frames, cpu
<1>13. ListNeverOverrun' /\ Counted'
    BY <1>5, <1>7, <1>11 DEF Core, ListNeverOverrun, Counted, lists
<1>14. Cleared'
  <2>1. \A e \in Dirs : ~page_directory_used'[e] => table'[e] = NoEntries
    BY <1>5, <1>9 DEF Cleared
  <2>2. table'[KERNEL] = table[KERNEL]
    BY <1>9, <1>10
  <2> QED BY <1>5, <2>1, <2>2 DEF Cleared
<1>15. ASSUME history' # {"unreadable", "kill 0"} PROVE Owned' /\ Mapped'
  <2>1. Owned /\ Mapped
    BY <1>7, <1>15 DEF Core
  <2>2. \A j \in Live : DirOf(j) \in Dirs /\ DirOf(j) # d
    BY <1>3, <2>1 DEF Owned
  <2>3. Owned'
    BY <1>9, <1>11, <2>1 DEF Owned
  <2>4. \A j \in Live : table'[DirOf(j)] = table[DirOf(j)]
    BY <1>9, <2>2
  <2>5. process_list' = process_list
    BY <1>7 DEF lists
  <2>6. Mapped'
    BY <1>11, <2>1, <2>4, <2>5 DEF Mapped
  <2> QED BY <2>3, <2>6
<1> QED BY <1>7, <1>12, <1>13, <1>14, <1>15 DEF Core

\* A refused creation, a kill that finds nothing and a stopped system change
\* nothing the core speaks of but pc.
LEMMA UnchangedCore ==
    ASSUME Core, UNCHANGED <<lists, paging, frames, cpu, history, fault>>, pc' \in PcValues
    PROVE  Core'
<1>1. /\ UNCHANGED <<process_list, active_process_count, pid_counter, table>>
      /\ UNCHANGED <<page_directory_used, page_frame_map, free_page_frame_count>>
      /\ UNCHANGED <<current_running_process_index, cr3, history, fault>>
    BY DEF lists, paging, frames, cpu
<1>2. Live' = Live /\ \A j : DirOf(j)' = DirOf(j)
    BY <1>1 DEF Live, DirOf
<1>3. TypeOK' /\ ListNeverOverrun'
    BY <1>1, Zenon DEF Core, TypeOK, PcValues, ListNeverOverrun
<1>4. Counted' /\ Cleared'
    BY <1>1, <1>2 DEF Core, Counted, Cleared
<1>5. (Owned <=> Owned') /\ (Mapped <=> Mapped') /\ (Aligned <=> Aligned')
    BY <1>1, <1>2 DEF Owned, Mapped, Aligned
<1> QED BY <1>1, <1>3, <1>4, <1>5 DEF Core

\* Whatever becomes of a creation, the core is kept.
LEMMA CreateCore ==
    ASSUME Core, NEW high \in BOOLEAN, NEW size \in Nat, NEW readable \in BOOLEAN,
           process_create_user_process(high, size, readable), UNCHANGED <<frames, cpu>>,
           pc' \in PcValues
    PROVE  Core'
<1>1. CASE CreateRefused(high, size, readable)
    BY <1>1, UnchangedCore DEF CreateRefused
<1>2. CASE CreateUnreadable(high, size, readable)
    BY <1>2, CreateUnreadableCore
<1>3. CASE CreateProcess(high, size, readable)
    BY <1>3, CreateProcessCore
<1> QED BY <1>1, <1>2, <1>3 DEF process_create_user_process

\* A kill frees a slot and the directory that slot has or remembers. Of two
\* processes' directories it frees at most its target's.
LEMMA KillCore ==
    ASSUME Core, NEW pid \in Nat, process_destroy(pid), UNCHANGED <<frames, cpu, pc>>
    PROVE  Core'
<1>1. PICK i : i = Min(WithPid(pid))
    OBVIOUS
<1>2. PICK d : d = DirOf(i)
    OBVIOUS
<1>3. i \in Slots /\ process_list[i].pid = pid
    BY <1>1, WithPidFirst DEF process_destroy
<1>4. /\ page_directory_used' = [e \in Dirs |-> page_directory_used[e] /\ e # d]
      /\ table' = [e \in DOMAIN table |-> IF e = d THEN NoEntries ELSE table[e]]
      /\ process_list' = [process_list EXCEPT ![i].pid = 0, ![i].state = "terminated"]
      /\ history' = IF pid = 0 THEN history \cup {"kill 0"} ELSE history
      /\ fault' \in {"running directory freed", "none"}
      /\ UNCHANGED <<active_process_count, pid_counter>>
    BY <1>1, <1>2, Zenon DEF process_destroy
<1>5. TypeOK /\ Counted /\ Cleared
    BY DEF Core
<1>6. /\ table \in [Dirs \cup {KERNEL} -> [Pages -> {"absent", "kernel", "user"}]]
      /\ page_directory_used \in [Dirs -> BOOLEAN]
      /\ process_list \in [Slots -> PCB]
    BY <1>5, Zenon DEF TypeOK
<1>7. d \in Dirs \cup {NULL} /\ d # KERNEL
  <2>1. process_list[i] \in PCB
    BY <1>3, <1>6
  <2>2. d \in Dirs \cup {NULL}
    BY <1>2, <2>1 DEF DirOf, PCB, Context
  <2> QED BY <2>2, ProcessAssumption DEF Dirs, NULL, KERNEL
<1>8. NoEntries \in [Pages -> {"absent", "kernel", "user"}]
    BY DEF NoEntries
<1>9. /\ table' \in [Dirs \cup {KERNEL} -> [Pages -> {"absent", "kernel", "user"}]]
      /\ \A e \in Dirs \cup {KERNEL} : table'[e] = IF e = d THEN NoEntries ELSE table[e]
    BY <1>4, <1>6, <1>8
<1>10. /\ page_directory_used' \in [Dirs -> BOOLEAN]
       /\ \A e \in Dirs : page_directory_used'[e] <=> page_directory_used[e] /\ e # d
    BY <1>4, Zenon
<1>11. /\ process_list' \in [Slots -> PCB]
       /\ \A j \in Slots : j # i => process_list'[j] = process_list[j]
       /\ process_list'[i].pid = 0
       /\ process_list'[i].context = process_list[i].context
    BY <1>3, <1>4, <1>6 DEF PCB
<1>12. Live' = Live \ {i} /\ \A j \in Slots : DirOf(j)' = DirOf(j)
    BY <1>3, <1>11 DEF Live, DirOf
<1>13. Live \subseteq Slots
    BY DEF Live
<1>14. TypeOK'
  <2>1. history' \subseteq {"unreadable", "kill 0"}
    BY <1>4, <1>5 DEF TypeOK
  <2> QED BY <1>4, <1>5, <1>9, <1>10, <1>11, <2>1, Zenon DEF TypeOK, frames, cpu
<1>15. ListNeverOverrun' /\ Counted'
    BY <1>4, <1>5, <1>12 DEF ListNeverOverrun, Counted
<1>16. Cleared'
  <2>1. \A e \in Dirs : ~page_directory_used'[e] => table'[e] = NoEntries
    BY <1>5, <1>9, <1>10 DEF Cleared
  <2>2. table'[KERNEL] = table[KERNEL]
    BY <1>7, <1>9
  <2> QED BY <1>5, <2>1, <2>2 DEF Cleared
<1>17. ASSUME Aligned PROVE Aligned'
  <2>1. \A j \in Slots : DirOf(j)' \in {NULL, j}
    BY <1>12, <1>17 DEF Aligned
  <2>2. \A j \in Live' : DirOf(j)' = j
    BY <1>12, <1>13, <1>17 DEF Aligned
  <2>3. i \in Live => d = i
    BY <1>2, <1>17 DEF Aligned
  <2>4. d \in {NULL, i} /\ NULL \notin Dirs
    BY <1>2, <1>3, <1>17, ProcessAssumption DEF Aligned, Dirs, NULL
  <2>5. \A e \in Dirs : page_directory_used'[e] <=> e \in Live'
    BY <1>10, <1>12, <1>17, <2>3, <2>4 DEF Aligned
  <2> QED BY <2>1, <2>2, <2>5 DEF Aligned
<1>18. ASSUME history' # {"unreadable", "kill 0"} PROVE Owned' /\ Mapped'
  <2>1. history # {"unreadable", "kill 0"}
    BY <1>4, <1>18
  <2>2. Owned /\ Mapped
    BY <2>1 DEF Core
  <2>3. \A j \in Live : j # i => DirOf(j) # d
    <3>1. CASE i \in Live
      BY <1>2, <2>2, <3>1 DEF Owned
    <3>2. CASE i \notin Live
      <4>1. pid = 0
        BY <1>3, <3>2 DEF Live
      <4>2. "unreadable" \notin history
        BY <1>4, <1>5, <1>18, <4>1 DEF TypeOK
      <4>3. Aligned
        BY <4>2 DEF Core
      <4>4. d \in {NULL, i} /\ NULL \notin Slots
        BY <1>2, <1>3, <4>3, ProcessAssumption DEF Aligned, Slots, NULL
      <4> QED BY <1>13, <4>3, <4>4 DEF Aligned
    <3> QED BY <3>1, <3>2
  <2>4. \A j \in Live' : j \in Live /\ j # i /\ DirOf(j)' = DirOf(j) /\ DirOf(j) # d
    BY <1>12, <1>13, <2>3
  <2>5. Owned'
    BY <1>10, <2>2, <2>4 DEF Owned
  <2>6. \A j \in Live' : /\ DirOf(j) \in Dirs
                         /\ table'[DirOf(j)] = table[DirOf(j)]
                         /\ process_list'[j] = process_list[j]
    BY <1>9, <1>11, <1>13, <2>2, <2>4 DEF Owned
  <2>7. Mapped'
    BY <2>2, <2>4, <2>6 DEF Mapped
  <2> QED BY <2>5, <2>7
<1>19. "unreadable" \notin history' => Aligned'
    BY <1>4, <1>17 DEF Core
<1> QED BY <1>14, <1>15, <1>16, <1>18, <1>19 DEF Core

\* A tick overwrites the registers of one context and nothing else.
LEMMA TimerCore ==
    ASSUME Core, RunningMapped, fault = "none", Timer
    PROVE  /\ Core' /\ Live' = Live
           /\ \A j \in Slots : DirOf(j)' = DirOf(j)
<1>1. PICK i, r, s : /\ s \in BOOLEAN /\ i = active_process_count - 1
                    /\ r = process_list[current_running_process_index].pid
                    /\ process_list' = [process_list EXCEPT ![i].context =
                          [regs |-> r, selectors |-> s, dir |-> DirOf(i)]]
                    /\ active_process_count > 0
  <2>1. active_process_count > 0
    BY DEF Timer, process_get_current_running_pcb_pointer, NULL
  <2>2. process_get_current_running_pcb_pointer = active_process_count - 1
    BY <2>1 DEF process_get_current_running_pcb_pointer
  <2> QED BY <2>1, <2>2, Zenon DEF Timer
<1>2. TypeOK /\ Counted /\ Cleared
    BY DEF Core
<1>3. /\ process_list \in [Slots -> PCB] /\ active_process_count \in Nat
      /\ current_running_process_index \in Slots \cup {-1}
    BY <1>2, Zenon DEF TypeOK
<1>4. UNCHANGED <<active_process_count, pid_counter, paging, frames, cpu, pc, history, fault>>
    BY Zenon DEF Timer
<1>5. i \in Slots
    BY <1>1, <1>2, <1>3, ProcessAssumption DEF Counted, Slots
<1>6. r \in Nat
  <2>1. current_running_process_index \in Slots
    BY DEF Timer, RunningMapped, Live
  <2> QED BY <1>1, <1>3, <2>1 DEF PCB
<1>7. PICK x : x = [regs |-> r, selectors |-> s, dir |-> DirOf(i)]
    OBVIOUS
<1>8. process_list' = [process_list EXCEPT ![i].context = x] /\ x.dir = DirOf(i)
    BY <1>1, <1>7
<1>9. /\ \A j \in Slots : j # i => process_list'[j] = process_list[j]
      /\ process_list'[i].pid = process_list[i].pid
      /\ process_list'[i].page_frame_used_count = process_list[i].page_frame_used_count
      /\ process_list'[i].context = x
    BY <1>3, <1>5, <1>8 DEF PCB
<1>10. \A j \in Slots : DirOf(j)' = DirOf(j)
    BY <1>5, <1>8, <1>9 DEF DirOf
<1>11. Live' = Live /\ Live \subseteq Slots
    BY <1>5, <1>9 DEF Live
<1>12. \A j \in Slots : process_list'[j].page_frame_used_count
                           = process_list[j].page_frame_used_count
    BY <1>5, <1>9
<1>13. process_list' \in [Slots -> PCB]
  <2>1. process_list[i] \in PCB /\ DirOf(i) \in Dirs \cup {NULL}
    BY <1>3, <1>5 DEF DirOf, PCB, Context
  <2>2. x \in Context
    BY <1>1, <1>6, <1>7, <2>1 DEF Context
  <2> QED BY <1>3, <1>5, <1>8, <2>1, <2>2 DEF PCB
<1>14. TypeOK' /\ ListNeverOverrun'
    BY <1>2, <1>4, <1>13, Zenon DEF Core, TypeOK, ListNeverOverrun, paging, frames, cpu
<1>15. Counted' /\ Cleared'
    BY <1>2, <1>4, <1>11 DEF Counted, Cleared, paging
<1>16. Aligned => Aligned'
    BY <1>4, <1>10, <1>11 DEF Aligned, paging
<1>17. Owned => Owned'
    BY <1>4, <1>10, <1>11 DEF Owned, paging
<1>18. Mapped => Mapped'
    BY <1>4, <1>10, <1>11, <1>12 DEF Mapped, paging
<1> QED BY <1>4, <1>10, <1>11, <1>14, <1>15, <1>16, <1>17, <1>18 DEF Core

\* The first step of boot gives the low page to users.
LEMMA BootPagingCore ==
    ASSUME Core, Stages, BootPaging
    PROVE  Core'
<1>1. TypeOK /\ Counted /\ Cleared
    BY DEF Core
<1>2. /\ pc = "paging" /\ pc' = "create"
      /\ table' = [table EXCEPT ![KERNEL][LOW] = "user"]
      /\ page_frame_map' = [page_frame_map EXCEPT
                               ![PAGE_FRAME_MAX_COUNT - free_page_frame_count] = TRUE]
      /\ free_page_frame_count' = free_page_frame_count - 1
      /\ UNCHANGED <<lists, page_directory_used, cpu, history, fault>>
    BY Zenon DEF BootPaging
<1>3. /\ table \in [Dirs \cup {KERNEL} -> [Pages -> {"absent", "kernel", "user"}]]
      /\ page_frame_map \in [0 .. PAGE_FRAME_MAX_COUNT - 1 -> BOOLEAN]
    BY <1>1, Zenon DEF TypeOK
<1>4. free_page_frame_count' \in Nat
    BY <1>2, ProcessAssumption DEF Stages
<1>5. LOW \in Pages /\ 0 \in Pages /\ LOW # 0 /\ KERNEL \notin Dirs
    BY ProcessAssumption DEF LOW, Pages, KERNEL, Dirs
<1>6. /\ table' \in [Dirs \cup {KERNEL} -> [Pages -> {"absent", "kernel", "user"}]]
      /\ \A e \in Dirs : table'[e] = table[e]
      /\ table'[KERNEL][0] = table[KERNEL][0] /\ table'[KERNEL][LOW] = "user"
    BY <1>2, <1>3, <1>5
<1>7. page_frame_map' \in [0 .. PAGE_FRAME_MAX_COUNT - 1 -> BOOLEAN]
    BY <1>2, <1>3
<1>8. Live' = Live /\ \A j : DirOf(j)' = DirOf(j)
    BY <1>2 DEF Live, DirOf, lists
<1>9. TypeOK' /\ ListNeverOverrun'
    BY <1>1, <1>2, <1>4, <1>6, <1>7, Zenon DEF Core, TypeOK, ListNeverOverrun, lists, cpu
<1>10. Counted' /\ Cleared'
    BY <1>1, <1>2, <1>6, <1>8 DEF Counted, Cleared, lists
<1>11. (Aligned => Aligned') /\ (Owned => Owned')
    BY <1>2, <1>8 DEF Aligned, Owned
<1>12. Owned /\ Mapped => Mapped'
    BY <1>2, <1>6, <1>8 DEF Owned, Mapped, lists
<1> QED BY <1>2, <1>9, <1>10, <1>11, <1>12 DEF Core

\* scheduler_init may forget the count of the init process, and it is 1.
LEMMA BootSwitchCore ==
    ASSUME Core, Stages, BootSwitch
    PROVE  /\ Core' /\ RunningMapped' /\ Stages'
<1>1. TypeOK /\ Counted /\ Cleared
    BY DEF Core
<1>2. /\ pc = "switch" /\ pc' = "user" /\ active_process_count' = 1
      /\ UNCHANGED <<process_list, pid_counter, paging, frames, history>>
    BY DEF BootSwitch
<1>3. current_running_process_index = -1 /\ active_process_count <= 1
    BY <1>2 DEF Stages
<1>4. (current_running_process_index + 1) % active_process_count' = 0
    BY <1>2, <1>3
<1>5. /\ current_running_process_index' = 0 /\ cr3' = DirOf(0)
      /\ fault' = IF DirOf(0) = NULL THEN "no directory" ELSE "none"
    BY <1>4, Zenon DEF BootSwitch
<1>6. 0 \in Slots
    BY ProcessAssumption DEF Slots
<1>7. Live' = Live /\ \A j : DirOf(j)' = DirOf(j)
    BY <1>2 DEF Live, DirOf
<1>8. DirOf(0) \in Dirs \cup {NULL}
  <2>1. process_list[0] \in PCB
    BY <1>1, <1>6 DEF TypeOK
  <2> QED BY <2>1 DEF DirOf, PCB, Context
<1>9. TypeOK' /\ ListNeverOverrun'
  <2>1. active_process_count' \in Nat
    BY <1>2
  <2>2. current_running_process_index' \in Slots \cup {-1}
    BY <1>5, <1>6
  <2>3. cr3' \in Dirs \cup {NULL, KERNEL}
    BY <1>5, <1>8
  <2>4. fault' \in {"none", "no directory"}
    BY <1>5
  <2>5. ListNeverOverrun'
    BY <2>4 DEF ListNeverOverrun
  <2> QED BY <1>1, <1>2, <2>1, <2>2, <2>3, <2>4, <2>5, Zenon DEF TypeOK, paging, frames
<1>10. Counted'
  <2>1. active_process_count \in Nat /\ pid_counter \in Nat
    BY <1>1, Zenon DEF TypeOK
  <2>2. Live \subseteq 0 .. 0
    BY <1>1, <1>3, <2>1 DEF Counted
  <2>3. Live' \subseteq 0 .. active_process_count' - 1
    BY <1>2, <1>7, <2>2
  <2>4. pid_counter' - 1 <= active_process_count'
    BY <1>1, <1>2, <1>3, <2>1 DEF Counted
  <2>5. active_process_count' <= PROCESS_COUNT_MAX
    BY <1>2, ProcessAssumption
  <2> QED BY <2>3, <2>4, <2>5 DEF Counted
<1>11. Cleared'
    BY <1>1, <1>2 DEF Cleared, paging
<1>12. (Aligned => Aligned') /\ (Owned => Owned') /\ (Mapped => Mapped')
    BY <1>2, <1>7 DEF Aligned, Owned, Mapped, paging
<1>13. Core'
    BY <1>2, <1>9, <1>10, <1>11, <1>12 DEF Core
<1>14. RunningMapped'
  <2>1. DirOf(0) # NULL => 0 \in Live /\ page_directory_used[DirOf(0)]
    BY <1>2 DEF Stages
  <2>2. page_directory_used' = page_directory_used
    BY <1>2 DEF paging
  <2>3. fault' = "none" => DirOf(0) # NULL
    BY <1>5
  <2> QED BY <1>5, <1>7, <1>8, <2>1, <2>2, <2>3 DEF RunningMapped
<1>15. Stages'
    BY <1>2 DEF Stages
<1> QED BY <1>13, <1>14, <1>15

\* The init process, if it could be created, is in slot 0.
LEMMA BootCreateStages ==
    ASSUME Core, Stages, BootCreate
    PROVE  Core' /\ Stages'
<1>1. PICK readable \in BOOLEAN : process_create_user_process(FALSE, ShellSize, readable)
    BY DEF BootCreate
<1>2. pc = "create" /\ pc' = "switch" /\ UNCHANGED <<frames, cpu>>
    BY DEF BootCreate
<1>3. ShellSize \in Nat /\ FALSE \in BOOLEAN /\ pc' \in PcValues
    BY <1>2, ProcessAssumption DEF PcValues
<1>4. Core'
    BY <1>1, <1>2, <1>3, CreateCore
<1>5. process_list = [i \in Slots |-> ZeroPCB] /\ active_process_count = 0
    BY <1>2 DEF Stages
<1>6. current_running_process_index' = -1
    BY <1>2 DEF Stages, cpu
<1>7. 0 \in Slots
    BY ProcessAssumption DEF Slots
<1>8. CASE UNCHANGED lists
  <2>1. DirOf(0)' = NULL /\ active_process_count' = 0
    BY <1>5, <1>7, <1>8 DEF lists, DirOf, ZeroPCB
  <2> QED BY <1>2, <1>4, <1>6, <2>1 DEF Stages
<1>9. CASE CreateProcess(FALSE, ShellSize, readable)
  <2>1. PICK i, d, k : /\ Created(i, d, k)
                      /\ active_process_count' = active_process_count + 1
    BY <1>3, <1>9, CreateProcessFacts
  <2>2. /\ Live' = Live \cup {i}
        /\ DirOf(0)' = IF 0 = i THEN d ELSE DirOf(0)
        /\ \A e \in Dirs : page_directory_used'[e] <=> e = d \/ page_directory_used[e]
    BY <1>7, <2>1, CreatedLive DEF Core
  <2>3. i \in Slots /\ i <= 0 /\ d \in Dirs
    BY <1>5, <2>1 DEF Created
  <2>4. i = 0
    BY <2>3, ProcessAssumption DEF Slots
  <2> QED BY <1>2, <1>4, <1>5, <1>6, <2>1, <2>2, <2>3, <2>4 DEF Stages
<1> QED BY <1>1, <1>8, <1>9 DEF process_create_user_process, CreateRefused, CreateUnreadable

\* A creation leaves the running process and its directory alone.
LEMMA ExecRunning ==
    ASSUME Core, RunningMapped, fault = "none", pc = "user",
           NEW high \in BOOLEAN, NEW size \in Nat, NEW readable \in BOOLEAN,
           process_create_user_process(high, size, readable), UNCHANGED <<frames, cpu, pc>>
    PROVE  RunningMapped'
<1> DEFINE c == current_running_process_index
<1>1. /\ c \in Live /\ c \in Slots /\ cr3 = DirOf(c)
      /\ cr3 \in Dirs /\ page_directory_used[cr3]
      /\ c' = c /\ cr3' = cr3
    BY DEF RunningMapped, Live, cpu
<1>2. CASE CreateRefused(high, size, readable)
  <2>1. Live' = Live /\ DirOf(c)' = DirOf(c) /\ page_directory_used' = page_directory_used
    BY <1>1, <1>2 DEF CreateRefused, lists, paging, Live, DirOf
  <2> QED BY <1>1, <2>1 DEF RunningMapped
<1>3. CASE CreateUnreadable(high, size, readable)
  <2>1. Live' = Live /\ DirOf(c)' = DirOf(c)
    BY <1>1, <1>3 DEF CreateUnreadable, lists, Live, DirOf
  <2>2. PICK d : page_directory_used' = [page_directory_used EXCEPT ![d] = TRUE]
    BY <1>3 DEF CreateUnreadable
  <2>3. page_directory_used'[cr3]
    BY <1>1, <2>2 DEF Core, TypeOK
  <2> QED BY <1>1, <2>1, <2>3 DEF RunningMapped
<1>4. CASE CreateProcess(high, size, readable)
  <2>1. PICK i, d, k : Created(i, d, k)
    BY <1>4, CreateProcessFacts
  <2>2. /\ Live' = Live \cup {i}
        /\ \A j \in Slots : DirOf(j)' = IF j = i THEN d ELSE DirOf(j)
        /\ \A e \in Dirs : page_directory_used'[e] <=> e = d \/ page_directory_used[e]
    BY <2>1, CreatedLive DEF Core
  <2>3. i \notin Live
    BY <2>1 DEF Created
  <2>4. DirOf(c)' = DirOf(c)
    BY <1>1, <2>2, <2>3 DEF DirOf
  <2>5. page_directory_used'[cr3] /\ c \in Live'
    BY <1>1, <2>2
  <2> QED BY <1>1, <2>4, <2>5 DEF RunningMapped
<1> QED BY <1>2, <1>3, <1>4 DEF process_create_user_process

\* A kill frees the running process's directory only with the fault that
\* stops the system.
LEMMA KillRunning ==
    ASSUME Core, RunningMapped, fault = "none", pc = "user",
           NEW pid \in Nat, process_destroy(pid), UNCHANGED <<frames, cpu, pc>>
    PROVE  RunningMapped'
<1> SUFFICES ASSUME fault' = "none"
             PROVE  RunningMapped'
    BY DEF RunningMapped
<1> DEFINE c == current_running_process_index
<1>1. /\ c \in Live /\ c \in Slots /\ cr3 = DirOf(c)
      /\ cr3 \in Dirs /\ page_directory_used[cr3]
      /\ c' = c /\ cr3' = cr3
    BY DEF RunningMapped, Live, cpu
<1>2. PICK i : i = Min(WithPid(pid))
    OBVIOUS
<1>3. PICK d : d = DirOf(i)
    OBVIOUS
<1>4. /\ page_directory_used' = [e \in Dirs |-> page_directory_used[e] /\ e # d]
      /\ process_list' = [process_list EXCEPT ![i].pid = 0, ![i].state = "terminated"]
      /\ fault' = IF d = cr3 THEN "running directory freed" ELSE "none"
    BY <1>2, <1>3, Zenon DEF process_destroy
<1>5. d # cr3
    BY <1>4
<1>6. c # i
    BY <1>1, <1>3, <1>5
<1>7. process_list \in [Slots -> PCB]
    BY Zenon DEF Core, TypeOK
<1>8. process_list'[c] = process_list[c]
    BY <1>1, <1>4, <1>6, <1>7
<1>9. c \in Live' /\ DirOf(c)' = DirOf(c)
    BY <1>1, <1>8 DEF Live, DirOf
<1>10. page_directory_used'[cr3]
    BY <1>1, <1>4, <1>5
<1> QED BY <1>1, <1>9, <1>10 DEF RunningMapped
-----------------------------------------------------------------------------
\* The state at power-on.
LEMMA InitPInv == Init => PInv
<1> SUFFICES ASSUME Init
             PROVE  PInv
    OBVIOUS
<1> USE ProcessAssumption
<1>1. Live = {} /\ \A i \in Slots : DirOf(i) = NULL
    BY DEF Init, Live, DirOf, ZeroPCB
<1>2. ZeroPCB \in PCB
    BY DEF ZeroPCB, PCB, Context
<1>3. LOW \in Pages /\ 0 \in Pages /\ LOW # 0 /\ KERNEL \notin Dirs
    BY DEF LOW, Pages, KERNEL, Dirs
<1>4. /\ NoEntries \in [Pages -> {"absent", "kernel", "user"}]
      /\ KernelEntries \in [Pages -> {"absent", "kernel", "user"}]
      /\ KernelEntries[0] = "kernel" /\ KernelEntries[LOW] = "kernel"
    BY <1>3 DEF NoEntries, KernelEntries
<1>5. /\ table \in [Dirs \cup {KERNEL} -> [Pages -> {"absent", "kernel", "user"}]]
      /\ table[KERNEL] = KernelEntries /\ \A d \in Dirs : table[d] = NoEntries
    BY <1>3, <1>4 DEF Init
<1>6. process_list \in [Slots -> PCB]
    BY <1>2 DEF Init
<1>7. TypeOK
    BY <1>5, <1>6 DEF Init, TypeOK
<1>8. Counted /\ Cleared /\ Aligned /\ Owned /\ Mapped
    BY <1>1, <1>4, <1>5 DEF Init, Counted, Cleared, Aligned, Owned, Mapped
<1>9. Stages /\ RunningMapped /\ ListNeverOverrun
    BY DEF Init, Stages, RunningMapped, ListNeverOverrun
<1> QED BY <1>7, <1>8, <1>9 DEF PInv, Core

\* Every step keeps the invariant.
LEMMA NextPInv == PInv /\ [Next]_pvars => PInv'
<1> SUFFICES ASSUME PInv, [Next]_pvars
             PROVE  PInv'
    OBVIOUS
<1>1. Core /\ Stages /\ RunningMapped /\ pc \in PcValues
    BY DEF PInv, Core, TypeOK, PcValues
<1>2. CASE BootPaging
  <2>1. Core'
    BY <1>1, <1>2, BootPagingCore
  <2>2. Stages' /\ RunningMapped'
    BY <1>1, <1>2 DEF BootPaging, Stages, RunningMapped, lists, cpu
  <2> QED BY <2>1, <2>2 DEF PInv
<1>3. CASE BootCreate
    BY <1>1, <1>3, BootCreateStages DEF PInv, BootCreate, RunningMapped
<1>4. CASE BootSwitch
    BY <1>1, <1>4, BootSwitchCore DEF PInv
<1>5. CASE fault = "none" /\ Exec
  <2>1. pc = "user" /\ pc' = "user" /\ UNCHANGED <<frames, cpu, pc>>
    BY <1>5 DEF Exec
  <2>2. PICK high \in BOOLEAN, readable \in BOOLEAN, size \in BufferSizes :
            process_create_user_process(high, size, readable)
    BY <1>5 DEF Exec
  <2>3. size \in Nat
    BY ProcessAssumption
  <2>4. Core'
    BY <1>1, <2>1, <2>2, <2>3, CreateCore
  <2>5. RunningMapped'
    BY <1>1, <1>5, <2>1, <2>2, <2>3, ExecRunning
  <2> QED BY <2>1, <2>4, <2>5 DEF PInv, Stages
<1>6. CASE fault = "none" /\ Kill
  <2>1. pc = "user" /\ pc' = "user" /\ UNCHANGED <<frames, cpu, pc>>
    BY <1>6 DEF Kill
  <2>2. PICK pid \in 0 .. PROCESS_COUNT_MAX + 1 :
            process_destroy(pid) \/ UNCHANGED <<lists, paging, history, fault>>
    BY <1>6 DEF Kill
  <2>3. pid \in Nat
    BY ProcessAssumption
  <2>4. CASE process_destroy(pid)
    <3>1. Core'
      BY <1>1, <2>1, <2>3, <2>4, KillCore
    <3>2. RunningMapped'
      BY <1>1, <1>6, <2>1, <2>3, <2>4, KillRunning
    <3> QED BY <2>1, <3>1, <3>2 DEF PInv, Stages
  <2>5. CASE UNCHANGED <<lists, paging, history, fault>>
    <3>1. Core'
      BY <1>1, <2>1, <2>5, UnchangedCore
    <3>2. RunningMapped'
      BY <1>1, <2>1, <2>5 DEF RunningMapped, Live, DirOf, lists, paging, cpu
    <3> QED BY <2>1, <3>1, <3>2 DEF PInv, Stages
  <2> QED BY <2>2, <2>4, <2>5
<1>7. CASE fault = "none" /\ Timer
  <2>1. Core' /\ Live' = Live /\ \A j \in Slots : DirOf(j)' = DirOf(j)
    BY <1>1, <1>7, TimerCore
  <2>2. pc' = "user" /\ UNCHANGED <<paging, cpu, pc, fault>>
    BY <1>7 DEF Timer
  <2>3. RunningMapped'
    BY <1>1, <2>1, <2>2 DEF RunningMapped, Live, paging, cpu
  <2> QED BY <2>1, <2>2, <2>3 DEF PInv, Stages
<1>8. CASE UNCHANGED pvars
  <2>1. UNCHANGED <<lists, paging, frames, cpu, pc, history, fault>>
    BY <1>8 DEF pvars
  <2>2. Core'
    BY <1>1, <2>1, UnchangedCore
  <2>3. Stages' /\ RunningMapped'
    BY <1>1, <2>1 DEF Stages, RunningMapped, Live, DirOf, lists, paging, cpu, frames
  <2> QED BY <2>2, <2>3 DEF PInv
<1> QED BY <1>2, <1>3, <1>4, <1>5, <1>6, <1>7, <1>8 DEF Next, Stopped

\* The process manager's state keeps its type.
THEOREM ProcessTypeCorrect == Spec => []TypeOK
<1>1. PInv => TypeOK
    BY DEF PInv, Core
<1> QED BY <1>1, InitPInv, NextPInv, PTL DEF Spec

\* process_create_user_process never writes a control block outside the
\* list, though it does not check the index it is given.
THEOREM CreateStaysInList == Spec => []ListNeverOverrun
<1>1. PInv => ListNeverOverrun
    BY DEF PInv, Core
<1> QED BY <1>1, InitPInv, NextPInv, PTL DEF Spec

\* No two processes share a page directory, and none loses its own, unless
\* both a creation failed in the file system and pid 0 was killed.
THEOREM DirectoriesOwned == Spec => []DirsOwned
<1>1. PInv => DirsOwned
    BY DEF PInv, Core, DirsOwned
<1> QED BY <1>1, InitPInv, NextPInv, PTL DEF Spec

\* No process inherits a mapping from the directory's previous owner.
THEOREM DirectoriesClean == Spec => []NoStaleMappings
<1>1. PInv => NoStaleMappings
    BY DEF PInv, Core, NoStaleMappings
<1> QED BY <1>1, InitPInv, NextPInv, PTL DEF Spec

\* The running process keeps its slot and its directory, and the MMU uses
\* that directory.
THEOREM RunningStaysMapped == Spec => []RunningMapped
<1>1. PInv => RunningMapped
    BY DEF PInv
<1> QED BY <1>1, InitPInv, NextPInv, PTL DEF Spec

\* No more than PROCESS_COUNT_MAX processes are created between two boots.
THEOREM CreationsBounded == Spec => []LifetimeLimit
<1>1. PInv => LifetimeLimit
  <2>1. ASSUME PInv PROVE LifetimeLimit
    <3>1. /\ active_process_count \in Nat /\ pid_counter \in Nat \ {0}
          /\ active_process_count <= PROCESS_COUNT_MAX
          /\ pid_counter - 1 <= active_process_count
      BY <2>1, Zenon DEF PInv, Core, TypeOK, Counted
    <3> QED BY <3>1, ProcessAssumption DEF LifetimeLimit
  <2> QED BY <2>1
<1> QED BY <1>1, InitPInv, NextPInv, PTL DEF Spec
=============================================================================
