--------------------------- MODULE MemWalStepProofs ----------------------------
(***************************************************************************)
(* Every step of MemWalTable keeps its inductive invariant, given what the *)
(* model takes from the theory of finite sets (NumberFacts).               *)
(* MemWalTableProofs proves those facts and states the theorems.           *)
(***************************************************************************)
EXTENDS MemWalTable, TLAPS

-----------------------------------------------------------------------------
(* Numbers and memtables                                                   *)

\* What the model takes from the theory of finite sets: the least and the
\* greatest generation of a set, and how many rows a set has.
NumberFacts ==
    /\ \A S \in SUBSET Nat : S # {} => Min(S) \in S /\ \A x \in S : Min(S) <= x
    /\ \A S \in SUBSET Nat : \A n \in Nat : S # {} /\ (\A x \in S : x <= n) =>
          Max(S) \in S /\ \A x \in S : x <= Max(S)
    /\ \A S \in SUBSET Row : Cardinality(S) \in Nat
    /\ \A S \in SUBSET Row : \A U \in SUBSET S : Cardinality(U) <= Cardinality(S)
    /\ \A S \in SUBSET Row : \A x \in Row \ S : Cardinality(S \cup {x}) = Cardinality(S) + 1

LEMMA InRows ==
  ASSUME NEW mem, NEW x
  PROVE  x \in RowsOf(mem) <=> \E i \in DOMAIN mem : x \in mem[i].rows
  BY Zenon DEF RowsOf, Range

LEMMA RowsInRow ==
  ASSUME NEW mem \in Seq(Memtable)
  PROVE  RowsOf(mem) \in SUBSET Row
  <1>1. \A i \in DOMAIN mem : mem[i] \in Memtable
    BY SMTT(30)
  <1> QED BY <1>1, InRows, Zenon DEF Memtable

\* A writer without memtables, and one that was just opened.
LEMMA FewMemtables ==
  /\ RowsOf(<< >>) = {} /\ Disjoint(<< >>)
  /\ \A m \in Memtable : RowsOf(<<m>>) = m.rows /\ Disjoint(<<m>>)
  <1>1. RowsOf(<< >>) = {} /\ Disjoint(<< >>)
    BY InRows, SMTT(30) DEF Disjoint
  <1>2. ASSUME NEW m \in Memtable PROVE RowsOf(<<m>>) = m.rows /\ Disjoint(<<m>>)
    <2>1. DOMAIN <<m>> = {1} /\ <<m>>[1] = m
      BY SMTT(30)
    <2> HIDE DEF Disjoint
    <2>2. \A x : x \in RowsOf(<<m>>) <=> x \in m.rows
      BY <2>1, InRows, Zenon
    <2> QED BY <2>1, <2>2, Zenon DEF Disjoint
  <1> QED BY <1>1, <1>2, Zenon

\* A memtable is added behind the others.
LEMMA AppendMemtable ==
  ASSUME NEW mem \in Seq(Memtable), NEW m \in Memtable
  PROVE  /\ Append(mem, m) \in Seq(Memtable) /\ Append(mem, m) # << >>
         /\ RowsOf(Append(mem, m)) = RowsOf(mem) \cup m.rows
         /\ Disjoint(mem) /\ m.rows \cap RowsOf(mem) = {} => Disjoint(Append(mem, m))
  <1> DEFINE new == Append(mem, m)
  <1>1. /\ DOMAIN new = 1 .. (Len(mem) + 1) /\ DOMAIN mem = 1 .. Len(mem)
        /\ new \in Seq(Memtable) /\ new # << >> /\ Len(mem) \in Nat
    BY SMTT(30)
  <1>2. \A i \in 1 .. Len(mem) : new[i] = mem[i]
    BY SMTT(30)
  <1>3. new[Len(mem) + 1] = m
    BY SMTT(30)
  <1> HIDE DEF new
  <1>4. \A i \in DOMAIN new : i \in DOMAIN mem \/ i = Len(mem) + 1
    BY <1>1, SMTT(30)
  <1>5. Len(mem) + 1 \in DOMAIN new /\ \A i \in DOMAIN mem : i \in DOMAIN new
    BY <1>1, SMTT(30)
  <1>6. RowsOf(new) = RowsOf(mem) \cup m.rows
    <2>1. \A x : x \in RowsOf(new) <=> x \in RowsOf(mem) \/ x \in m.rows
      BY <1>1, <1>2, <1>3, <1>4, <1>5, InRows, Zenon
    <2> QED BY <2>1, Zenon
  <1>7. ASSUME Disjoint(mem), m.rows \cap RowsOf(mem) = {} PROVE Disjoint(new)
    <2>1. \A i \in DOMAIN mem : mem[i].rows \cap m.rows = {}
      BY <1>7, InRows, Zenon
    <2> QED BY <1>1, <1>2, <1>3, <1>4, <1>7, <2>1, Zenon DEF Disjoint
  <1> QED BY <1>1, <1>6, <1>7, Zenon DEF new

\* The active memtable is the last one, the frozen ones are in front of it.
LEMMA FrozenAndActive ==
  ASSUME NEW mem \in Seq(Memtable), mem # << >>
  PROVE  /\ Frozen(mem) \in Seq(Memtable) /\ Active(mem) \in Memtable
         /\ RowsOf(mem) = RowsOf(Frozen(mem)) \cup Active(mem).rows
         /\ Disjoint(mem) => Disjoint(Frozen(mem)) /\ Active(mem).rows \cap RowsOf(Frozen(mem)) = {}
  <1> DEFINE new == Frozen(mem)
  <1>1. Len(mem) \in Nat \ {0} /\ DOMAIN mem = 1 .. Len(mem)
    BY SMTT(30)
  <1>2. \A i \in DOMAIN mem : mem[i] \in Memtable
    BY SMTT(30)
  <1>3. /\ new \in Seq(Memtable) /\ Len(new) = Len(mem) - 1
        /\ \A i \in 1 .. Len(mem) - 1 : new[i] = mem[i]
    BY <1>1, <1>2, SMTT(30) DEF Frozen
  <1>4. DOMAIN new = 1 .. Len(mem) - 1
    BY <1>3, SMTT(30)
  <1>5. Active(mem) = mem[Len(mem)]
    BY Zenon DEF Active
  <1> HIDE DEF new
  <1>6. \A i \in DOMAIN mem : i \in DOMAIN new \/ i = Len(mem)
    BY <1>1, <1>4, SMTT(30)
  <1>7. /\ Len(mem) \in DOMAIN mem
        /\ \A i \in DOMAIN new : i \in DOMAIN mem /\ i # Len(mem) /\ new[i] = mem[i]
    BY <1>1, <1>3, <1>4, SMTT(30)
  <1>8. RowsOf(mem) = RowsOf(new) \cup Active(mem).rows
    <2>1. \A x : x \in RowsOf(mem) <=> x \in RowsOf(new) \/ x \in Active(mem).rows
      BY <1>5, <1>6, <1>7, InRows, Zenon
    <2> QED BY <2>1, Zenon
  <1>9. ASSUME Disjoint(mem) PROVE Disjoint(new) /\ Active(mem).rows \cap RowsOf(new) = {}
    <2>1. Disjoint(new)
      BY <1>7, <1>9, Zenon DEF Disjoint
    <2>2. \A i \in DOMAIN new : new[i].rows \cap Active(mem).rows = {}
      BY <1>5, <1>7, <1>9, Zenon DEF Disjoint
    <2> QED BY <2>1, <2>2, InRows, Zenon
  <1> QED BY <1>1, <1>2, <1>3, <1>5, <1>7, <1>8, <1>9, Zenon DEF new

\* The oldest memtable is the first one.
LEMMA HeadAndTail ==
  ASSUME NEW mem \in Seq(Memtable), mem # << >>
  PROVE  /\ Tail(mem) \in Seq(Memtable) /\ Head(mem) \in Memtable
         /\ Len(mem) > 1 => Tail(mem) # << >>
         /\ RowsOf(mem) = RowsOf(Tail(mem)) \cup Head(mem).rows
         /\ Disjoint(mem) => Disjoint(Tail(mem)) /\ Head(mem).rows \cap RowsOf(Tail(mem)) = {}
  <1> DEFINE new == Tail(mem)
  <1>1. Len(mem) \in Nat \ {0} /\ DOMAIN mem = 1 .. Len(mem)
    BY SMTT(30)
  <1>2. \A i \in DOMAIN mem : mem[i] \in Memtable
    BY SMTT(30)
  <1>3. /\ new \in Seq(Memtable) /\ Len(new) = Len(mem) - 1
        /\ \A i \in 1 .. Len(new) : new[i] = mem[i + 1]
    BY SMTT(30)
  <1>4. DOMAIN new = 1 .. Len(mem) - 1
    BY <1>3, SMTT(30)
  <1>5. Head(mem) = mem[1]
    BY SMTT(30)
  <1> HIDE DEF new
  <1>10. ASSUME Len(mem) > 1 PROVE new # << >>
    <2>1. Len(<< >>) = 0
      BY Zenon
    <2>2. Len(new) # 0
      BY <1>1, <1>3, <1>10, SMTT(30)
    <2> QED BY <2>1, <2>2, Zenon
  <1>6. \A i \in DOMAIN mem : i = 1 \/ (i - 1 \in DOMAIN new /\ new[i - 1] = mem[i])
    BY <1>1, <1>3, <1>4, SMTT(30)
  <1>7. 1 \in DOMAIN mem
    BY <1>1, SMTT(30)
  <1>11. \A i \in DOMAIN new : i + 1 \in DOMAIN mem /\ i + 1 # 1 /\ new[i] = mem[i + 1]
    BY <1>1, <1>3, <1>4, SMTT(30)
  <1>12. \A i, j \in DOMAIN new : i # j => i + 1 # j + 1
    BY <1>4, SMTT(30)
  <1>8. RowsOf(mem) = RowsOf(new) \cup Head(mem).rows
    <2>1. ASSUME NEW x \in RowsOf(mem) PROVE x \in RowsOf(new) \/ x \in Head(mem).rows
      <3>1. PICK i \in DOMAIN mem : x \in mem[i].rows
        BY <2>1, InRows, Zenon
      <3>2. i = 1 \/ (i - 1 \in DOMAIN new /\ x \in new[i - 1].rows)
        BY <1>6, <3>1, Zenon
      <3> QED BY <1>5, <3>1, <3>2, InRows, Zenon
    <2>2. ASSUME NEW x, x \in RowsOf(new) \/ x \in Head(mem).rows PROVE x \in RowsOf(mem)
      <3>1. CASE x \in Head(mem).rows
        BY <1>5, <1>7, <3>1, InRows, Zenon
      <3>2. CASE x \in RowsOf(new)
        <4>1. PICK i \in DOMAIN new : x \in new[i].rows
          BY <3>2, InRows, Zenon
        <4>2. i + 1 \in DOMAIN mem /\ x \in mem[i + 1].rows
          BY <1>11, <4>1, Zenon
        <4> QED BY <4>2, InRows, Zenon
      <3> QED BY <2>2, <3>1, <3>2, Zenon
    <2> QED BY <2>1, <2>2, Zenon
  <1>9. ASSUME Disjoint(mem) PROVE Disjoint(new) /\ Head(mem).rows \cap RowsOf(new) = {}
    <2>1. Disjoint(new)
      BY <1>11, <1>12, <1>9, Zenon DEF Disjoint
    <2>2. \A i \in DOMAIN new : new[i].rows \cap Head(mem).rows = {}
      BY <1>5, <1>7, <1>11, <1>9, Zenon DEF Disjoint
    <2> QED BY <2>1, <2>2, InRows, Zenon
  <1> QED BY <1>1, <1>2, <1>3, <1>5, <1>7, <1>8, <1>9, <1>10, Zenon DEF new

-----------------------------------------------------------------------------
(* Writers                                                                 *)

\* Appending a row to the active memtable.
LEMMA AppendedWriter ==
  ASSUME NEW w \in Writer, w.mem # << >>, NEW r \in Row
  PROVE  /\ Appended(w, r) \in Writer
         /\ Appended(w, r) = [w EXCEPT !.mem = Appended(w, r).mem]
         /\ Appended(w, r).mem # << >>
         /\ RowsOf(Appended(w, r).mem) = RowsOf(w.mem) \cup {r}
         /\ Disjoint(w.mem) /\ r \notin RowsOf(w.mem) => Disjoint(Appended(w, r).mem)
  <1> DEFINE front == Frozen(w.mem)
             last == [Active(w.mem) EXCEPT !.rows = @ \cup {r}]
  <1>1. w.mem \in Seq(Memtable)
    BY Zenon DEF Writer
  <1>2. /\ front \in Seq(Memtable) /\ Active(w.mem) \in Memtable
        /\ RowsOf(w.mem) = RowsOf(front) \cup Active(w.mem).rows
        /\ Disjoint(w.mem) => Disjoint(front) /\ Active(w.mem).rows \cap RowsOf(front) = {}
    BY <1>1, FrozenAndActive, Zenon
  <1>3. last \in Memtable /\ last.rows = Active(w.mem).rows \cup {r}
    BY <1>2, Zenon DEF Memtable
  <1>4. Appended(w, r) = [w EXCEPT !.mem = Append(front, last)]
    BY Zenon DEF Appended
  <1> HIDE DEF front, last
  <1>5. /\ Append(front, last) \in Seq(Memtable) /\ Append(front, last) # << >>
        /\ RowsOf(Append(front, last)) = RowsOf(front) \cup last.rows
        /\ Disjoint(front) /\ last.rows \cap RowsOf(front) = {} => Disjoint(Append(front, last))
    BY <1>2, <1>3, AppendMemtable, Zenon
  <1>6. Appended(w, r) \in Writer /\ Appended(w, r).mem = Append(front, last)
    BY <1>4, <1>5, Zenon DEF Writer
  <1>7. Disjoint(w.mem) /\ r \notin RowsOf(w.mem) => last.rows \cap RowsOf(front) = {}
    BY <1>2, <1>3, Zenon
  <1>8. RowsOf(Append(front, last)) = RowsOf(w.mem) \cup {r}
    BY <1>2, <1>3, <1>5, Zenon
  <1> QED BY <1>2, <1>4, <1>5, <1>6, <1>7, <1>8, Zenon

\* A new configuration keeps the rows.
LEMMA ReconfiguredWriter ==
  ASSUME NEW w \in Writer, w.mem # << >>, NEW c \in BOOLEAN
  PROVE  /\ Reconfigured(w, c) \in Writer
         /\ Reconfigured(w, c) = [w EXCEPT !.carries = c, !.mem = Reconfigured(w, c).mem]
         /\ Reconfigured(w, c).mem # << >>
         /\ RowsOf(Reconfigured(w, c).mem) = RowsOf(w.mem)
         /\ Disjoint(w.mem) => Disjoint(Reconfigured(w, c).mem)
  <1> DEFINE new == [rows |-> {}, carries |-> c]
             old == IF Active(w.mem).rows = {} THEN Frozen(w.mem) ELSE w.mem
  <1>1. w.mem \in Seq(Memtable)
    BY Zenon DEF Writer
  <1>2. /\ old \in Seq(Memtable) /\ RowsOf(old) = RowsOf(w.mem)
        /\ Disjoint(w.mem) => Disjoint(old)
    <2>1. CASE Active(w.mem).rows = {}
      <3>1. /\ Frozen(w.mem) \in Seq(Memtable)
            /\ RowsOf(w.mem) = RowsOf(Frozen(w.mem)) \cup Active(w.mem).rows
            /\ Disjoint(w.mem) => Disjoint(Frozen(w.mem))
        BY <1>1, FrozenAndActive, Zenon
      <3>2. old = Frozen(w.mem)
        BY <2>1, Zenon
      <3> HIDE DEF old
      <3> QED BY <2>1, <3>1, <3>2, Zenon
    <2>2. CASE Active(w.mem).rows # {}
      BY <1>1, <2>2, Zenon
    <2> QED BY <2>1, <2>2, Zenon
  <1>3. new \in Memtable /\ new.rows = {}
    BY Zenon DEF Memtable
  <1>4. Reconfigured(w, c) = [w EXCEPT !.carries = c, !.mem = Append(old, new)]
    BY Zenon DEF Reconfigured
  <1> HIDE DEF old, new
  <1>5. /\ Append(old, new) \in Seq(Memtable) /\ Append(old, new) # << >>
        /\ RowsOf(Append(old, new)) = RowsOf(old) \cup new.rows
        /\ Disjoint(old) /\ new.rows \cap RowsOf(old) = {} => Disjoint(Append(old, new))
    BY <1>2, <1>3, AppendMemtable, Zenon
  <1>6. Reconfigured(w, c) \in Writer /\ Reconfigured(w, c).mem = Append(old, new)
    BY <1>4, <1>5, Zenon DEF Writer
  <1> QED BY <1>2, <1>3, <1>4, <1>5, <1>6, Zenon

-----------------------------------------------------------------------------
(* The invariant and its parts                                             *)

LEMMA Parts ==
  ASSUME WalInv
  PROVE  /\ TypeOK /\ WriterInv /\ SlotInv /\ GenInv /\ Sound(latest) /\ Sound(handle)
         /\ \A t \in Task : TaskInv(task[t])
         /\ TasksApart /\ AckedKept /\ WritersOwned
  BY Zenon DEF WalInv

LEMMA Whole ==
  ASSUME TypeOK', WriterInv', SlotInv', GenInv', Sound(latest)', Sound(handle)',
         \A t \in Task : TaskInv(task[t])', TasksApart', AckedKept', WritersOwned'
  PROVE  WalInv'
  BY Zenon DEF WalInv

\* What the local variables of a task are, by what it runs.
LEMMA TaskShapes ==
  ASSUME NEW v \in TaskState
  PROVE  /\ v.pc = "idle" => v = Idle
         /\ v.pc \in {"cached", "lock", "opening"} => v \in UpsertState
         /\ v.pc = "put" => v \in PutState
         /\ v.pc \in Closing => v \in CloseState
         /\ v.pc \in {"drain", "drop"} => v \in DisableState
         /\ v.pc \in {"refresh", "update"} => v \in IndexState
         /\ v.pc \in {"configure", "fence"} => v \in FenceState
         /\ v.pc \in Reading => v \in ReadState
         /\ v.pc = "answered" => v \in AnswerState
  BY SMTT(30) DEF TaskState, Idle, UpsertState, PutState, CloseState, DisableState, IndexState,
         FenceState, ReadState, AnswerState, Closing, Reading

-----------------------------------------------------------------------------
(* Steps that leave the writers, the slot and the generations alone        *)

LEMMA SoundStays ==
  ASSUME gen' = gen, latest.version \in Nat, latest'.version \in Nat,
         latest.version <= latest'.version, NEW d \in Version, Sound(d)
  PROVE  Sound(d)'
  <1>1. \A s \in Shard : Published(s)' = Published(s)
    BY Zenon DEF Published
  <1>2. d.version <= latest'.version
    BY SMTT(30) DEF Sound, Version
  <1> QED BY <1>1, <1>2, Zenon DEF Sound

\* What holds of a task still holds when none of the shared state moves.
LEMMA CalmTask ==
  ASSUME UNCHANGED <<gen, writer, slot>>, latest.version \in Nat, latest'.version \in Nat,
         latest.version <= latest'.version, NEW v \in TaskState, TaskInv(v)
  PROVE  TaskInv(v)'
  <1>1. CloserInv(v)' /\ UpsertInv(v)'
    BY Zenon DEF TaskInv, CloserInv, UpsertInv
  <1>2. VersionInv(v)'
    <2> SUFFICES ASSUME v.pc \in HoldsVersion PROVE Sound(v.ds)'
      BY Zenon DEF VersionInv
    <2>1. v.ds \in Version
      BY TaskShapes, Zenon DEF HoldsVersion, UpsertState, IndexState, FenceState, ReadState
    <2>2. Sound(v.ds)
      BY Zenon DEF TaskInv, VersionInv
    <2> QED BY <2>1, <2>2, SoundStays, Zenon
  <1>3. ReaderInv(v)'
    <2>1. \A x : OldFound(v, x) => OldFound(v, x)'
      BY Zenon DEF OldFound
    <2>2. \A x : ResidentFound(v, x) => ResidentFound(v, x)'
      BY Zenon DEF ResidentFound
    <2> QED BY <2>1, <2>2, Zenon DEF TaskInv, ReaderInv
  <1> QED BY <1>1, <1>2, <1>3, Zenon DEF TaskInv

\* What a task may become, next to the others.
Apart(t, v) ==
    /\ v.pc = "opening" <=> slotLock' = t
    /\ \A u \in Task \ {t} : slotLock' = u <=> slotLock = u
    /\ v.pc \in Closing =>
         \A u \in Task \ {t} : task[u].pc \in Closing => task[u].entry # v.entry
    /\ v.pc \in UpsertPcs =>
         \A u \in Task \ {t} : task[u].pc \in UpsertPcs => task[u].row # v.row

LEMMA StepApart ==
  ASSUME TasksApart, task \in [Task -> TaskState], NEW t \in Task, NEW v \in TaskState,
         Goto(t, v), Apart(t, v)
  PROVE  TasksApart' /\ task' \in [Task -> TaskState]
  <1>1. task' \in [Task -> TaskState] /\ \A u \in Task : task'[u] = IF u = t THEN v ELSE task[u]
    BY Zenon DEF Goto
  <1>2. \A u \in Task : task'[u].pc = "opening" <=> slotLock' = u
    BY <1>1, SMTT(30) DEF TasksApart, Apart
  <1>3. ASSUME NEW a \in Task, NEW b \in Task, a # b
        PROVE  /\ task'[a].pc \in Closing /\ task'[b].pc \in Closing
                     => task'[a].entry # task'[b].entry
               /\ task'[a].pc \in UpsertPcs /\ task'[b].pc \in UpsertPcs
                     => task'[a].row # task'[b].row
    BY <1>1, <1>3, ZenonT(40) DEF TasksApart, Apart
  <1> QED BY <1>1, <1>2, <1>3, Zenon DEF TasksApart

\* Committing, refreshing the handle: no task moves.
LEMMA CommitStep ==
  ASSUME WalInv, UNCHANGED <<gen, writer, slot, slotLock, task, acked>>,
         ops' \in 0 .. MaxOps, latest' \in Version, handle' \in Version,
         latest.version <= latest'.version, Sound(latest)', Sound(handle)'
  PROVE  WalInv'
  <1>1. TypeOK'
    BY Parts, Zenon DEF TypeOK, Sound
  <1>2. WriterInv' /\ SlotInv' /\ GenInv' /\ TasksApart' /\ AckedKept' /\ WritersOwned'
    <2>1. \A s : Published(s)' = Published(s)
      BY Zenon DEF Published
    <2>2. \A e \in Entry : Live(e)' = Live(e) /\ Unpublished(e)' = Unpublished(e)
      BY Zenon DEF Live, Unpublished
    <2>3. WriterInv'
      BY <2>1, <2>2, Parts, Zenon DEF WriterInv
    <2>4. SlotInv'
      BY <2>2, Parts, Zenon DEF SlotInv, TypeOK, Live
    <2>5. GenInv'
      BY <2>1, Parts, Zenon DEF GenInv
    <2>6. TasksApart' /\ WritersOwned'
      BY Parts, SMTT(30) DEF TasksApart, WritersOwned
    <2>7. AckedKept'
      BY <2>2, Parts, Zenon DEF AckedKept
    <2> QED BY <2>3, <2>4, <2>5, <2>6, <2>7, Zenon
  <1>3. \A u \in Task : TaskInv(task[u])'
    <2> TAKE u \in Task
    <2>1. task[u] \in TaskState /\ TaskInv(task[u])
      BY Parts, Zenon DEF TypeOK
    <2>2. latest.version \in Nat /\ latest'.version \in Nat
      BY Parts, Zenon DEF TypeOK, Version
    <2>3. \A v \in TaskState : TaskInv(v) => TaskInv(v)'
      BY <2>2, CalmTask, Zenon
    <2> QED BY <2>1, <2>3, Zenon
  <1> QED BY <1>1, <1>2, <1>3, Whole, Zenon

\* A step of one task.
LEMMA CalmStep ==
  ASSUME WalInv, NEW t \in Task, NEW v \in TaskState, Goto(t, v), Apart(t, v),
         UNCHANGED <<gen, writer, slot, acked>>,
         ops' \in 0 .. MaxOps, latest' \in Version, handle' \in Version,
         slotLock' \in Task \cup {Free}, slotLock' # Free => slot = NoEntry,
         latest.version <= latest'.version, Sound(latest)', Sound(handle)',
         task[t].pc # "take", TaskInv(v)'
  PROVE  WalInv'
  <1>1. TasksApart' /\ task' \in [Task -> TaskState]
    BY StepApart, Parts, Zenon DEF TypeOK
  <1>2. TypeOK'
    BY <1>1, Parts, Zenon DEF TypeOK, Sound
  <1>3. \A u \in Task : task'[u] = IF u = t THEN v ELSE task[u]
    BY Parts, Zenon DEF Goto, TypeOK
  <1>4. WriterInv' /\ SlotInv' /\ GenInv' /\ AckedKept' /\ WritersOwned'
    <2>1. \A s : Published(s)' = Published(s)
      BY Zenon DEF Published
    <2>2. \A e \in Entry : Live(e)' = Live(e) /\ Unpublished(e)' = Unpublished(e)
      BY Zenon DEF Live, Unpublished
    <2>3. WriterInv'
      BY <2>1, <2>2, Parts, Zenon DEF WriterInv
    <2>4. SlotInv'
      BY <2>2, Parts, Zenon DEF SlotInv, TypeOK, Live
    <2>5. GenInv'
      BY <2>1, Parts, Zenon DEF GenInv
    <2>6. WritersOwned'
      BY <1>3, Parts, SMTT(30) DEF WritersOwned
    <2>7. AckedKept'
      BY <2>2, Parts, Zenon DEF AckedKept
    <2> QED BY <2>3, <2>4, <2>5, <2>6, <2>7, Zenon
  <1>5. \A u \in Task : TaskInv(task[u])'
    <2> TAKE u \in Task
    <2>1. task[u] \in TaskState /\ TaskInv(task[u])
      BY Parts, Zenon DEF TypeOK
    <2>2. latest.version \in Nat /\ latest'.version \in Nat
      BY Parts, Zenon DEF TypeOK, Version
    <2>3. \A x \in TaskState : TaskInv(x) => TaskInv(x)'
      BY <2>2, CalmTask, Zenon
    <2>4. CASE u = t
      BY <1>3, <2>4, Zenon
    <2>5. CASE u # t
      <3>1. task'[u] = task[u]
        BY <1>3, <2>5, Zenon
      <3> QED BY <2>1, <2>3, <3>1, Zenon
    <2> QED BY <2>4, <2>5, Zenon
  <1> QED BY <1>1, <1>2, <1>4, <1>5, Whole, Zenon

\* A step of one task that leaves the table and the lock alone too.
LEMMA QuietStep ==
  ASSUME WalInv, NEW t \in Task, NEW v \in TaskState, Goto(t, v), TaskInv(v),
         UNCHANGED <<latest, handle, gen, writer, slot, slotLock, acked>>,
         ops' \in 0 .. MaxOps, task[t].pc # "take",
         v.pc = "opening" <=> task[t].pc = "opening", v.pc \notin Closing,
         v.pc \in UpsertPcs =>
            \A u \in Task \ {t} : task[u].pc \in UpsertPcs => task[u].row # v.row
  PROVE  WalInv'
  <1>1. Apart(t, v)
    BY Parts, Zenon DEF Apart, TasksApart
  <1>2. latest \in Version /\ handle \in Version /\ latest.version \in Nat
    BY Parts, Zenon DEF TypeOK, Version
  <1>3. Sound(latest)' /\ Sound(handle)'
    <2>1. \A d \in Version : Sound(d) => Sound(d)'
      BY <1>2, SoundStays, SMTT(30)
    <2> QED BY <1>2, <2>1, Parts, Zenon
  <1>4. TaskInv(v)'
    BY <1>2, CalmTask, SMTT(30)
  <1>5. slotLock' \in Task \cup {Free} /\ (slotLock' # Free => slot = NoEntry)
    BY Parts, Zenon DEF TypeOK, SlotInv
  <1>6. latest.version <= latest'.version
    BY <1>2, SMTT(30)
  <1> QED BY <1>1, <1>2, <1>3, <1>4, <1>5, <1>6, CalmStep, Zenon

-----------------------------------------------------------------------------
(* enable_memwal, create_index, drop_index and the commits of Lance         *)

\* A version with new watermarks of nothing.
LEMMA FreshVersion ==
  ASSUME NEW d \in Version, Sound(d), NEW sp \in {"off", "maintained", "unmaintained"},
         latest \in Version, latest' = [d EXCEPT !.spec = sp, !.compacted = [s \in Shard |-> 0],
                         !.caughtUp = [s \in Shard |-> NoCatchUp],
                         !.version = latest.version + 1]
  PROVE  latest' \in Version /\ Sound(latest)' /\ latest.version <= latest'.version
  <1> DEFINE c == [s \in Shard |-> 0]
             k == [s \in Shard |-> NoCatchUp]
  <1>1. c \in [Shard -> Nat] /\ k \in [Shard -> Nat \cup {NoCatchUp}]
    BY Zenon
  <1>2. (\A s \in Shard : c[s] = 0) /\ (\A s \in Shard : k[s] = NoCatchUp)
    BY Zenon
  <1>3. latest' = [d EXCEPT !.spec = sp, !.compacted = c, !.caughtUp = k,
                            !.version = latest.version + 1]
    BY Zenon
  <1> HIDE DEF c, k
  <1>4. latest.version \in Nat /\ latest.version + 1 \in Nat
    BY SMTT(30) DEF Version
  <1>5. latest' \in Version
    BY <1>1, <1>3, <1>4, Zenon DEF Version
  <1>6. latest'.version = latest.version + 1 /\ latest'.compacted = c /\ latest'.caughtUp = k
    BY <1>3, Zenon DEF Version
  <1>7. \A r \in Row : latest'.compacted[ShardOf[r]] = 0
    BY <1>2, <1>6, MemWalAssumption, Zenon
  <1>8. \A r \in Row : ~(gen'[r] \in 1 .. latest'.compacted[ShardOf[r]])
    BY <1>7, SMTT(30)
  <1>9. latest.version <= latest'.version /\ latest'.version <= latest'.version
    BY <1>4, <1>6, SMTT(30)
  <1>10. \A s \in Shard : latest'.caughtUp[s] <= latest'.compacted[s]
    BY <1>2, <1>6, SMTT(30) DEF NoCatchUp
  <1> QED BY <1>2, <1>5, <1>6, <1>8, <1>9, <1>10, Zenon DEF Sound

LEMMA OpsBound ==
  ASSUME WalInv, NEW t \in Task
  PROVE  /\ Start(t) => ops' \in 0 .. MaxOps /\ task[t].pc = "idle"
         /\ \A pc : At(t, pc) => ops' \in 0 .. MaxOps /\ task[t].pc = pc
         /\ UNCHANGED ops => ops' \in 0 .. MaxOps
  <1>1. ops \in 0 .. MaxOps /\ MaxOps \in Nat
    BY MemWalAssumption, Parts, Zenon DEF TypeOK
  <1> QED BY <1>1, SMTT(30) DEF Start, At, Idle

LEMMA EnableStep ==
  ASSUME WalInv, NEW t \in Task, NEW spec \in {"maintained", "unmaintained"},
         enable_memwal(t, spec)
  PROVE  WalInv'
  <1>1. /\ UNCHANGED <<gen, writer, slot, slotLock, task, acked>> /\ handle' = latest'
        /\ ops' \in 0 .. MaxOps
    BY OpsBound, Zenon DEF enable_memwal
  <1>2. latest' \in Version /\ Sound(latest)' /\ latest.version <= latest'.version
    <2>1. latest' = [latest EXCEPT !.spec = spec, !.compacted = [s \in Shard |-> 0],
                         !.caughtUp = [s \in Shard |-> NoCatchUp],
                         !.version = latest.version + 1]
      BY Zenon DEF enable_memwal, Commit
    <2>2. latest \in Version /\ Sound(latest)
      BY Parts, Zenon DEF TypeOK
    <2> QED BY <2>1, <2>2, FreshVersion, Zenon
  <1>3. Sound(handle)'
    BY <1>1, <1>2, Zenon DEF Sound
  <1> QED BY <1>1, <1>2, <1>3, CommitStep, Zenon

LEMMA BuildStep ==
  ASSUME WalInv, NEW t \in Task, build_index(t)
  PROVE  WalInv'
  <1>1. /\ UNCHANGED <<handle, gen, writer, slot, slotLock, acked>>
        /\ ops' \in 0 .. MaxOps /\ task[t].pc = "idle"
    BY OpsBound, Zenon DEF build_index
  <1>2. /\ latest \in Version /\ handle \in Version /\ latest.version \in Nat
        /\ handle.base \in SUBSET Row
    BY Parts, Zenon DEF TypeOK, Version
  <1>3. latest' = [latest EXCEPT !.index = TRUE, !.indexed = handle.base,
                                 !.version = latest.version + 1]
    BY Zenon DEF build_index, Commit
  <1>4. /\ latest' \in Version /\ latest'.version = latest.version + 1
        /\ latest'.compacted = latest.compacted /\ latest'.caughtUp = latest.caughtUp
        /\ latest'.base = latest.base /\ latest'.index
    <2>1. latest.version + 1 \in Nat
      BY <1>2, SMTT(30)
    <2>2. latest' \in Version
      BY <1>2, <1>3, <2>1, Zenon DEF Version
    <2>3. latest'.index
      BY <1>2, <1>3, Zenon DEF Version
    <2> QED BY <1>2, <1>3, <2>2, <2>3, Zenon DEF Version
  <1>5. latest.version <= latest'.version
    BY <1>2, <1>4, SMTT(30)
  <1>6. Sound(latest)'
    <2>1. \A s \in Shard : Published(s)' = Published(s)
      BY <1>1, Zenon DEF Published
    <2>2. \A s \in Shard : latest.caughtUp[s] = NoCatchUp
      BY Parts, Zenon DEF build_index, Sound
    <2>3. \A r \in Row : ShardOf[r] \in Shard
      BY MemWalAssumption, Zenon
    <2>4. \A r \in Row : ~(/\ gen[r] \in 1 .. latest.compacted[ShardOf[r]]
                           /\ gen[r] <= latest.caughtUp[ShardOf[r]])
      BY <2>2, <2>3, SMTT(30) DEF NoCatchUp
    <2>5. latest'.version <= latest'.version
      BY <1>2, <1>4, SMTT(30)
    <2> QED BY <1>1, <1>4, <2>1, <2>4, <2>5, Parts, SMTT(30) DEF Sound
  <1>7. Sound(handle)'
    <2>1. \A d \in Version : Sound(d) => Sound(d)'
      BY <1>1, <1>2, <1>4, <1>5, SoundStays, Zenon DEF Version
    <2> QED BY <1>1, <1>2, <2>1, Parts, Zenon
  <1>8. PICK v : v = [pc |-> "refresh", ds |-> latest']
    BY Zenon
  <1>9. Goto(t, v)
    BY <1>8, Zenon DEF build_index, Goto
  <1>10. v \in TaskState /\ v.pc = "refresh" /\ v.ds = latest'
    BY <1>4, <1>8, Zenon DEF TaskState, IndexState
  <1>11. TaskInv(v)'
    <2>1. Sound(v.ds)'
      BY <1>6, <1>10, Zenon DEF Sound
    <2> QED BY <1>10, <2>1, Zenon DEF TaskInv, CloserInv, UpsertInv, VersionInv, ReaderInv,
                               UpsertPcs, Reading
  <1>12. Apart(t, v)
    BY <1>1, <1>10, Parts, Zenon DEF Apart, TasksApart, Closing, UpsertPcs
  <1>13. slotLock' \in Task \cup {Free} /\ (slotLock' # Free => slot = NoEntry)
    BY <1>1, Parts, Zenon DEF TypeOK, SlotInv
  <1>14. handle' \in Version
    BY <1>1, <1>2, Zenon
  <1> QED BY <1>1, <1>4, <1>5, <1>6, <1>7, <1>9, <1>10, <1>11, <1>12, <1>13, <1>14, CalmStep, Zenon

LEMMA CompactStep ==
  ASSUME NumberFacts, WalInv, NEW s \in Shard, Compact(s)
  PROVE  WalInv'
  <1> DEFINE left == {r \in Published(s) : gen[r] > latest.compacted[s]}
             g == Min({gen[r] : r \in left})
             pass == {r \in left : gen[r] = g}
  <1>1. /\ UNCHANGED <<handle, gen, writer, slot, slotLock, task, acked, ops>>
        /\ left # {}
        /\ latest' = [latest EXCEPT !.base = @ \cup pass, !.compacted[s] = g,
                                    !.version = latest.version + 1]
    BY Zenon DEF Compact, Commit
  <1>2. /\ latest \in Version /\ handle \in Version /\ latest.version \in Nat
        /\ latest.compacted \in [Shard -> Nat]
        /\ latest.caughtUp \in [Shard -> Nat \cup {NoCatchUp}]
    BY Parts, Zenon DEF TypeOK, Version
  <1>3. \A r \in Row : gen[r] \in Nat
    BY Parts, SMTT(30) DEF TypeOK
  <1>4. left \subseteq Row /\ \A r \in left : ShardOf[r] = s /\ gen[r] > latest.compacted[s]
    BY Zenon DEF Published
  <1>5. \A r \in Row : ShardOf[r] = s /\ gen[r] > latest.compacted[s] => r \in left
    BY <1>2, <1>3, SMTT(30) DEF Published
  <1>6. g \in Nat /\ (\E r \in left : gen[r] = g) /\ \A r \in left : g <= gen[r]
    <2> DEFINE S == {gen[r] : r \in left}
    <2>1. S \in SUBSET Nat /\ S # {}
      BY <1>1, <1>3, <1>4, Zenon
    <2>2. Min(S) \in S /\ \A x \in S : Min(S) <= x
      <3> HIDE DEF S
      <3> QED BY <2>1, Zenon DEF NumberFacts
    <2>3. g = Min(S)
      BY Zenon
    <2> QED BY <2>1, <2>2, <2>3, Zenon
  <1>7. pass \subseteq Row /\ pass \subseteq left /\ \A r \in left : gen[r] = g => r \in pass
    BY <1>4, Zenon
  <1> HIDE DEF left, g, pass
  <1>8. /\ latest' \in Version /\ latest'.version = latest.version + 1
        /\ latest'.compacted = [latest.compacted EXCEPT ![s] = g]
        /\ latest'.caughtUp = latest.caughtUp /\ latest'.indexed = latest.indexed
        /\ latest'.base = latest.base \cup pass /\ latest'.index = latest.index
    <2> DEFINE c == [latest.compacted EXCEPT ![s] = g]
               b == latest.base \cup pass
    <2>1. latest.version + 1 \in Nat /\ c \in [Shard -> Nat] /\ b \in SUBSET Row
      BY <1>2, <1>6, <1>7, SMTT(30) DEF Version
    <2>2. latest' = [latest EXCEPT !.base = b, !.compacted = c, !.version = latest.version + 1]
      BY <1>1, Zenon
    <2> HIDE DEF c, b
    <2>3. latest' \in Version
      BY <1>2, <2>1, <2>2, Zenon DEF Version
    <2>4. latest'.index = latest.index
      BY <1>2, <2>2, Zenon DEF Version
    <2>5. /\ latest'.version = latest.version + 1 /\ latest'.compacted = c
          /\ latest'.caughtUp = latest.caughtUp /\ latest'.indexed = latest.indexed
          /\ latest'.base = b
      BY <1>2, <2>2, Zenon DEF Version
    <2> QED BY <2>3, <2>4, <2>5, Zenon DEF c, b
  <1>9. latest.version <= latest'.version /\ latest'.version <= latest'.version
    BY <1>2, <1>8, SMTT(30)
  <1>10. g > latest.compacted[s]
    BY <1>2, <1>4, <1>6, Zenon
  <1>11. \A x \in Shard : latest'.compacted[x] = IF x = s THEN g ELSE latest.compacted[x]
    BY <1>2, <1>8, Zenon
  <1>12. Sound(latest)'
    <2>1. \A x \in Shard : Published(x)' = Published(x)
      BY <1>1, Zenon DEF Published
    <2>2. Sound(latest)
      BY Parts, Zenon
    <2>3. \A x \in Shard : latest'.compacted[x] = 0
                           \/ \E r \in Published(x) : gen[r] >= latest'.compacted[x]
      <3>1. \E r \in Published(s) : gen[r] >= g
        <4>1. PICK r \in left : gen[r] = g
          BY <1>6, Zenon
        <4> QED BY <1>6, <4>1, Zenon DEF left
      <3> QED BY <1>11, <2>2, <3>1, Zenon DEF Sound
    <2>4. \A x \in Shard : latest'.caughtUp[x] <= latest'.compacted[x]
      <3>1. latest.caughtUp[s] <= g
        BY <1>2, <1>6, <1>10, <2>2, SMTT(30) DEF Sound, NoCatchUp
      <3> QED BY <1>8, <1>11, <2>2, <3>1, Zenon DEF Sound
    <2>5. \A r \in Row : gen[r] \in 1 .. latest'.compacted[ShardOf[r]] => r \in latest'.base
      <3> TAKE r \in Row
      <3> HAVE gen[r] \in 1 .. latest'.compacted[ShardOf[r]]
      <3>0. ShardOf[r] \in Shard /\ gen[r] \in Nat
        BY <1>3, MemWalAssumption, Zenon
      <3>1. CASE ShardOf[r] # s
        BY <1>8, <1>11, <2>2, <3>0, <3>1, Zenon DEF Sound
      <3>2. CASE ShardOf[r] = s /\ gen[r] <= latest.compacted[s]
        <4>1. gen[r] \in 1 .. latest.compacted[ShardOf[r]]
          BY <1>2, <3>0, <3>2, SMTT(30)
        <4> QED BY <1>8, <2>2, <4>1, Zenon DEF Sound
      <3>3. CASE ShardOf[r] = s /\ gen[r] > latest.compacted[s]
        <4>1. r \in left /\ gen[r] <= g
          BY <1>5, <1>11, <3>3, SMTT(30)
        <4>2. gen[r] = g
          BY <1>6, <3>0, <4>1, SMTT(30)
        <4> QED BY <1>7, <1>8, <4>1, <4>2, Zenon
      <3> QED BY <1>2, <3>0, <3>1, <3>2, <3>3, SMTT(30)
    <2>6. \A r \in Row : /\ gen[r] \in 1 .. latest'.compacted[ShardOf[r]]
                         /\ gen[r] <= latest'.caughtUp[ShardOf[r]]
                         => r \in latest'.indexed
      <3> TAKE r \in Row
      <3> HAVE /\ gen[r] \in 1 .. latest'.compacted[ShardOf[r]]
               /\ gen[r] <= latest'.caughtUp[ShardOf[r]]
      <3>1. ShardOf[r] \in Shard /\ gen[r] \in Nat
        BY <1>3, MemWalAssumption, Zenon
      <3>2. /\ gen[r] <= latest.caughtUp[ShardOf[r]]
            /\ latest.caughtUp[ShardOf[r]] <= latest.compacted[ShardOf[r]]
        BY <1>8, <2>2, <3>1, Zenon DEF Sound
      <3>3. gen[r] \in 1 .. latest.compacted[ShardOf[r]]
        BY <1>2, <3>1, <3>2, SMTT(30) DEF NoCatchUp
      <3> QED BY <1>8, <2>2, <3>2, <3>3, Zenon DEF Sound
    <2> QED BY <1>1, <1>8, <1>9, <2>1, <2>2, <2>3, <2>4, <2>5, <2>6, Zenon DEF Sound
  <1>13. Sound(handle)'
    <2>1. \A d \in Version : Sound(d) => Sound(d)'
      BY <1>1, <1>2, <1>8, <1>9, SoundStays, Zenon DEF Version
    <2> QED BY <1>1, <1>2, <2>1, Parts, Zenon
  <1>14. ops' \in 0 .. MaxOps /\ handle' \in Version
    BY <1>1, <1>2, Parts, Zenon DEF TypeOK
  <1> QED BY <1>1, <1>8, <1>9, <1>12, <1>13, <1>14, CommitStep, Zenon

LEMMA CatchUpStep ==
  ASSUME WalInv, CatchUp
  PROVE  WalInv'
  <1> DEFINE b == latest.indexed \cup latest.base
  <1>1. /\ UNCHANGED <<handle, gen, writer, slot, slotLock, task, acked, ops>>
        /\ latest' = [latest EXCEPT !.indexed = b, !.caughtUp = latest.compacted,
                                    !.version = latest.version + 1]
        /\ latest.index
    BY Zenon DEF CatchUp, Commit, Maintained
  <1>2. /\ latest \in Version /\ handle \in Version /\ latest.version \in Nat
        /\ latest.version + 1 \in Nat /\ b \in SUBSET Row
        /\ latest.compacted \in [Shard -> Nat]
    BY Parts, SMTT(30) DEF TypeOK, Version
  <1>3. latest.compacted \in [Shard -> Nat \cup {NoCatchUp}]
    BY <1>2, Zenon
  <1>4. latest.base \subseteq b
    BY Zenon
  <1> HIDE DEF b
  <1>5. latest' \in Version
    BY <1>1, <1>2, <1>3, Zenon DEF Version
  <1>6. latest'.index
    BY <1>1, <1>2, Zenon DEF Version
  <1>7. /\ latest'.version = latest.version + 1 /\ latest'.compacted = latest.compacted
        /\ latest'.caughtUp = latest.compacted /\ latest'.indexed = b
        /\ latest'.base = latest.base
    BY <1>1, <1>2, Zenon DEF Version
  <1>8. latest.version <= latest'.version /\ latest'.version <= latest'.version
    BY <1>2, <1>7, SMTT(30)
  <1>9. Sound(latest)'
    <2>1. \A s \in Shard : Published(s)' = Published(s)
      BY <1>1, Zenon DEF Published
    <2>2. \A s \in Shard : latest'.caughtUp[s] <= latest'.compacted[s]
      BY <1>2, <1>7, SMTT(30)
    <2>3. Sound(latest)
      BY Parts, Zenon
    <2> QED BY <1>1, <1>4, <1>6, <1>7, <1>8, <2>1, <2>2, <2>3, Zenon DEF Sound
  <1>10. Sound(handle)'
    <2>1. \A d \in Version : Sound(d) => Sound(d)'
      BY <1>1, <1>2, <1>7, <1>8, SoundStays, Zenon
    <2> QED BY <1>1, <1>2, <2>1, Parts, Zenon
  <1>11. ops' \in 0 .. MaxOps /\ handle' \in Version
    BY <1>1, <1>2, Parts, Zenon DEF TypeOK
  <1> QED BY <1>1, <1>5, <1>8, <1>9, <1>10, <1>11, CommitStep, Zenon

LEMMA RefreshStep ==
  ASSUME WalInv, Refresh
  PROVE  WalInv'
  <1>1. /\ UNCHANGED <<latest, gen, writer, slot, slotLock, task, acked, ops>>
        /\ handle' = latest
    BY Zenon DEF Refresh
  <1>2. latest \in Version /\ latest.version \in Nat
    BY Parts, Zenon DEF TypeOK, Version
  <1>3. Sound(latest)'
    <2>1. \A d \in Version : Sound(d) => Sound(d)'
      BY <1>1, <1>2, SoundStays, SMTT(30)
    <2> QED BY <1>1, <1>2, <2>1, Parts, Zenon
  <1>4. Sound(handle)'
    BY <1>1, <1>3, Zenon DEF Sound
  <1>5. ops' \in 0 .. MaxOps /\ handle' \in Version /\ latest' \in Version
        /\ latest.version <= latest'.version
    BY <1>1, <1>2, Parts, SMTT(30) DEF TypeOK
  <1> QED BY <1>1, <1>3, <1>4, <1>5, CommitStep, Zenon

LEMMA IdleTask == Idle \in TaskState /\ Idle.pc = "idle" /\ TaskInv(Idle) /\ TaskInv(Idle)'
  BY Zenon DEF Idle, TaskState, TaskInv, CloserInv, UpsertInv, VersionInv, ReaderInv,
         UpsertPcs, HoldsVersion, Reading

LEMMA DropStep ==
  ASSUME WalInv, NEW t \in Task, DropIndex(t)
  PROVE  WalInv'
  <1>1. /\ UNCHANGED <<gen, writer, slot, slotLock, acked>> /\ Goto(t, Idle)
        /\ ops' \in 0 .. MaxOps /\ task[t].pc = "drop"
    BY OpsBound, Zenon DEF DropIndex, End
  <1>2. latest \in Version /\ handle \in Version /\ latest.version \in Nat
        /\ Sound(latest) /\ Sound(handle)
    BY Parts, Zenon DEF TypeOK, Version
  <1>3. /\ latest' \in Version /\ Sound(latest)' /\ latest.version <= latest'.version
        /\ handle' = handle \/ handle' = latest'
    <2>1. CASE UNCHANGED <<latest, handle>>
      <3>1. \A d \in Version : Sound(d) => Sound(d)'
        BY <1>1, <1>2, <2>1, SoundStays, SMTT(30)
      <3> QED BY <1>2, <2>1, <3>1, SMTT(30)
    <2>2. CASE ~UNCHANGED <<latest, handle>>
      <3>1. /\ latest' = [latest EXCEPT !.spec = "off", !.compacted = [s \in Shard |-> 0],
                         !.caughtUp = [s \in Shard |-> NoCatchUp],
                         !.version = latest.version + 1]
            /\ handle' = latest'
        BY <2>2, Zenon DEF DropIndex, Commit
      <3> QED BY <1>2, <3>1, FreshVersion, Zenon
    <2> QED BY <2>1, <2>2, Zenon
  <1>4. handle' \in Version /\ Sound(handle)'
    <2>1. CASE handle' = latest'
      BY <1>3, <2>1, Zenon DEF Sound
    <2>2. CASE handle' = handle
      <3>1. latest'.version \in Nat
        BY <1>3, Zenon DEF Version
      <3>2. \A d \in Version : Sound(d) => Sound(d)'
        BY <1>1, <1>2, <1>3, <3>1, SoundStays, Zenon
      <3> QED BY <1>2, <2>2, <3>2, Zenon
    <2> QED BY <1>3, <2>1, <2>2, Zenon
  <1>5. Apart(t, Idle)
    BY <1>1, IdleTask, Parts, Zenon DEF Apart, TasksApart, Closing, UpsertPcs
  <1>6. slotLock' \in Task \cup {Free} /\ (slotLock' # Free => slot = NoEntry)
    BY <1>1, Parts, Zenon DEF TypeOK, SlotInv
  <1> QED BY <1>1, <1>3, <1>4, <1>5, <1>6, IdleTask, CalmStep, Zenon

LEMMA UpdateStep ==
  ASSUME WalInv, NEW t \in Task, IndexUpdate(t)
  PROVE  WalInv'
  <1>1. /\ UNCHANGED <<latest, gen, writer, slot, slotLock, acked>> /\ Goto(t, Idle)
        /\ ops' \in 0 .. MaxOps /\ task[t].pc = "update"
        /\ handle' = task[t].ds \/ handle' = handle
    BY OpsBound, Zenon DEF IndexUpdate, End, Adopt
  <1>2. latest \in Version /\ handle \in Version /\ latest.version \in Nat
        /\ Sound(latest) /\ Sound(handle)
    BY Parts, Zenon DEF TypeOK, Version
  <1>3. task[t].ds \in Version /\ Sound(task[t].ds)
    <2>1. task[t] \in TaskState /\ TaskInv(task[t])
      BY Parts, Zenon DEF TypeOK
    <2>2. task[t] \in IndexState
      BY <1>1, <2>1, TaskShapes, Zenon
    <2> QED BY <1>1, <2>1, <2>2, Zenon DEF TaskInv, VersionInv, HoldsVersion, IndexState
  <1>4. /\ latest' \in Version /\ handle' \in Version /\ latest.version <= latest'.version
        /\ Sound(latest)' /\ Sound(handle)'
    <2>1. \A d \in Version : Sound(d) => Sound(d)'
      BY <1>1, <1>2, SoundStays, SMTT(30)
    <2> QED BY <1>1, <1>2, <1>3, <2>1, SMTT(30)
  <1>5. Apart(t, Idle)
    BY <1>1, IdleTask, Parts, Zenon DEF Apart, TasksApart, Closing, UpsertPcs
  <1>6. slotLock' \in Task \cup {Free} /\ (slotLock' # Free => slot = NoEntry)
    BY <1>1, Parts, Zenon DEF TypeOK, SlotInv
  <1> QED BY <1>1, <1>4, <1>5, <1>6, IdleTask, CalmStep, Zenon

\* The steps of create_index that only move the task.
LEMMA RefreshSlotStep ==
  ASSUME WalInv, NEW t \in Task, RefreshSlot(t) \/ FenceWait(t)
  PROVE  WalInv'
  <1>1. /\ UNCHANGED <<latest, handle, gen, writer, slot, slotLock, acked>>
        /\ ops' \in 0 .. MaxOps /\ task[t].pc \in {"refresh", "fence"}
    BY OpsBound, Zenon DEF RefreshSlot, FenceWait
  <1>2. task[t] \in TaskState /\ TaskInv(task[t])
    BY Parts, Zenon DEF TypeOK
  <1>3. task[t].ds \in Version /\ Sound(task[t].ds)
    BY <1>1, <1>2, TaskShapes, Zenon DEF TaskInv, VersionInv, HoldsVersion, IndexState, FenceState
  <1>4. PICK v \in TaskState : Goto(t, v) /\ v.pc \in {"update", "configure"} /\ v.ds = task[t].ds
    <2>1. CASE FenceWait(t)
      BY <1>3, <2>1, SMTT(30) DEF FenceWait, TaskState, IndexState
    <2>2. CASE RefreshSlot(t) /\ slot # NoEntry
      <3>1. slot \in Entry
        BY <2>2, Parts, Zenon DEF TypeOK
      <3> QED BY <1>3, <2>2, <3>1, SMTT(30) DEF RefreshSlot, TaskState, FenceState
    <2>3. CASE RefreshSlot(t) /\ slot = NoEntry
      <3>1. task[t] \in IndexState /\ task[t].pc = "refresh"
        BY <1>2, <2>3, TaskShapes, Zenon DEF RefreshSlot, At
      <3>2. [task[t] EXCEPT !.pc = "update"] \in IndexState
        BY <3>1, Zenon DEF IndexState
      <3>3. Goto(t, [task[t] EXCEPT !.pc = "update"])
        BY <2>3, Zenon DEF RefreshSlot, Move, Goto
      <3>4. /\ [task[t] EXCEPT !.pc = "update"].pc = "update"
            /\ [task[t] EXCEPT !.pc = "update"].ds = task[t].ds
        BY <3>1, Zenon DEF IndexState
      <3> QED BY <3>2, <3>3, <3>4, Zenon DEF TaskState
    <2> QED BY <2>1, <2>2, <2>3, Zenon
  <1>5. TaskInv(v)
    BY <1>3, <1>4, Zenon DEF TaskInv, CloserInv, UpsertInv, VersionInv, ReaderInv, UpsertPcs, Reading
  <1> QED BY <1>1, <1>4, <1>5, QuietStep, Zenon DEF Closing, UpsertPcs

-----------------------------------------------------------------------------
(* merge_insert up to the put                                              *)

LEMMA MergeStep ==
  ASSUME WalInv, NEW t \in Task, NEW r \in Row, merge_insert(t, r)
  PROVE  WalInv'
  <1> DEFINE v == [pc |-> "cached", row |-> r, ds |-> handle]
  <1>1. /\ UNCHANGED <<latest, handle, gen, writer, slot, slotLock, acked>>
        /\ ops' \in 0 .. MaxOps /\ task[t].pc = "idle" /\ Goto(t, v)
    BY OpsBound, Zenon DEF merge_insert
  <1>2. handle \in Version /\ Sound(handle)
    BY Parts, Zenon DEF TypeOK
  <1>3. v \in TaskState /\ v.pc = "cached" /\ v.row = r /\ v.ds = handle
    BY <1>2, Zenon DEF TaskState, UpsertState
  <1> HIDE DEF v
  <1>4. TaskInv(v)
    BY <1>2, <1>3, Zenon DEF merge_insert, TaskInv, CloserInv, UpsertInv, VersionInv, ReaderInv, Reading
  <1>5. \A u \in Task : task[u].pc \in UpsertPcs => task[u].row # r
    BY Zenon DEF merge_insert
  <1> QED BY <1>1, <1>3, <1>4, <1>5, QuietStep, Zenon DEF Closing

\* What an upsert under way carries.
LEMMA UpsertTask ==
  ASSUME WalInv, NEW t \in Task, task[t].pc \in UpsertPcs
  PROVE  /\ task[t].row \in Row /\ gen[task[t].row] = 0
         /\ \A e \in Entry : task[t].row \notin RowsOf(writer[e].mem)
         /\ \A u \in Task \ {t} : task[u].pc \in UpsertPcs => task[u].row # task[t].row
         /\ task[t].pc # "put" => /\ task[t] \in UpsertState /\ task[t].ds \in Version
                                 /\ Sound(task[t].ds)
         /\ task[t].pc = "put" => /\ task[t].entry \in Entry
                                 /\ writer[task[t].entry].state # "unused"
                                 /\ writer[task[t].entry].shard = ShardOf[task[t].row]
  <1>1. task[t] \in TaskState /\ TaskInv(task[t])
    BY Parts, Zenon DEF TypeOK
  <1>2. task[t].pc # "put" => task[t] \in UpsertState
    BY <1>1, TaskShapes, Zenon DEF UpsertPcs
  <1>3. task[t].pc = "put" => task[t] \in PutState
    BY <1>1, TaskShapes, Zenon
  <1>4. task[t].row \in Row
    BY <1>2, <1>3, Zenon DEF UpsertState, PutState
  <1>5. task[t].pc = "put" => task[t].entry \in Entry
    BY <1>3, Zenon DEF PutState
  <1>6. task[t].pc # "put" => task[t].ds \in Version /\ Sound(task[t].ds)
    BY <1>1, <1>2, Zenon DEF UpsertState, UpsertPcs, TaskInv, VersionInv, HoldsVersion
  <1>7. \A u \in Task \ {t} : task[u].pc \in UpsertPcs => task[u].row # task[t].row
    BY Parts, Zenon DEF TasksApart
  <1> QED BY <1>1, <1>2, <1>4, <1>5, <1>6, <1>7, Zenon DEF TaskInv, UpsertInv

\* An upsert that ends before it writes, the lock free afterwards if it held it.
LEMMA UpsertEnds ==
  ASSUME WalInv, NEW t \in Task, Goto(t, Idle), task[t].pc # "take",
         UNCHANGED <<latest, handle, gen, writer, slot, acked>>, ops' \in 0 .. MaxOps,
         slotLock' = IF slotLock = t THEN Free ELSE slotLock
  PROVE  WalInv'
  <1>1. latest \in Version /\ handle \in Version /\ latest.version \in Nat
        /\ Sound(latest) /\ Sound(handle)
    BY Parts, Zenon DEF TypeOK, Version
  <1>2. /\ latest' \in Version /\ handle' \in Version /\ latest.version <= latest'.version
        /\ Sound(latest)' /\ Sound(handle)'
    <2>1. \A d \in Version : Sound(d) => Sound(d)'
      BY <1>1, SoundStays, SMTT(30)
    <2> QED BY <1>1, <2>1, SMTT(30)
  <1>3. t # Free /\ \A u \in Task : u # Free
    BY MemWalAssumption, Zenon DEF Free
  <1>4. Apart(t, Idle)
    BY <1>3, IdleTask, Parts, Zenon DEF Apart, TasksApart, Closing, UpsertPcs
  <1>5. slotLock' \in Task \cup {Free} /\ (slotLock' # Free => slot = NoEntry)
    BY Parts, Zenon DEF TypeOK, SlotInv
  <1> QED BY <1>2, <1>4, <1>5, IdleTask, CalmStep, Zenon

LEMMA UseCachedStep ==
  ASSUME WalInv, NEW t \in Task, UseCached(t), task[t].pc \in {"cached", "lock"},
         slot # NoEntry, UNCHANGED <<latest, handle, gen, writer, slot, slotLock, acked>>,
         ops' \in 0 .. MaxOps
  PROVE  WalInv'
  <1>1. task[t].pc \in UpsertPcs
    BY Zenon DEF UpsertPcs
  <1>2. CASE writer[slot].shard # ShardOf[task[t].row]
    <2>1. Goto(t, Idle)
      BY <1>2, Zenon DEF UseCached, End
    <2>2. slotLock # t
      BY Parts, Zenon DEF TasksApart
    <2> QED BY <2>1, <2>2, UpsertEnds, Zenon
  <1>3. CASE writer[slot].shard = ShardOf[task[t].row]
    <2> DEFINE v == [pc |-> "put", row |-> task[t].row, entry |-> slot]
    <2>1. Goto(t, v)
      BY <1>3, Zenon DEF UseCached
    <2>2. slot \in Entry /\ writer[slot].state = "open"
      BY Parts, Zenon DEF TypeOK, SlotInv
    <2>3. v \in TaskState /\ v.pc = "put" /\ v.row = task[t].row /\ v.entry = slot
      BY <1>1, <2>2, UpsertTask, Zenon DEF TaskState, PutState
    <2> HIDE DEF v
    <2>4. TaskInv(v)
      BY <1>1, <1>3, <2>2, <2>3, UpsertTask, Zenon DEF TaskInv, CloserInv, UpsertInv, VersionInv,
         ReaderInv, HoldsVersion, Reading
    <2> QED BY <1>1, <2>1, <2>3, <2>4, UpsertTask, QuietStep, Zenon DEF Closing
  <1> QED BY <1>2, <1>3, Zenon

\* writer_for_shard
LEMMA WriterCachedStep ==
  ASSUME WalInv, NEW t \in Task, WriterCached(t) \/ WriterLock(t)
  PROVE  WalInv'
  <1>1. /\ UNCHANGED <<latest, handle, gen, writer, slot, acked>> /\ slotLock = Free
        /\ ops' \in 0 .. MaxOps /\ task[t].pc \in {"cached", "lock"}
    BY OpsBound, Zenon DEF WriterCached, WriterLock
  <1>2. CASE slot # NoEntry
    BY <1>1, <1>2, UseCachedStep, Zenon DEF WriterCached, WriterLock
  <1>3. CASE slot = NoEntry
    <2>1. PICK p \in {"lock", "opening"} :
             Move(t, p) /\ slotLock' = IF p = "opening" THEN t ELSE Free
      <3>1. CASE WriterCached(t)
        BY <1>1, <1>3, <3>1, Zenon DEF WriterCached
      <3>2. CASE WriterLock(t)
        BY <1>1, <1>3, <3>2, Zenon DEF WriterLock
      <3> QED BY <3>1, <3>2, Zenon
    <2>2. /\ task[t].pc \in UpsertPcs /\ task[t] \in UpsertState /\ Sound(task[t].ds)
          /\ latest \in Version /\ handle \in Version /\ latest.version \in Nat
          /\ Sound(latest) /\ Sound(handle)
      BY <1>1, UpsertTask, Parts, Zenon DEF UpsertPcs, TypeOK, Version
    <2> DEFINE v == [task[t] EXCEPT !.pc = p]
    <2>3. v \in UpsertState /\ v.pc = p /\ v.row = task[t].row /\ v.ds = task[t].ds
      BY <2>2, Zenon DEF UpsertState
    <2>4. Goto(t, v)
      BY <2>1, Zenon DEF Move, Goto
    <2>5. PICK x \in TaskState : x = v
      BY <2>3, Zenon DEF TaskState
    <2> HIDE DEF v
    <2>6. TaskInv(x)
      BY <2>2, <2>3, <2>5, UpsertTask, Zenon DEF TaskInv, CloserInv, UpsertInv, VersionInv, ReaderInv,
         Reading
    <2>7. /\ latest' \in Version /\ handle' \in Version /\ latest.version <= latest'.version
          /\ Sound(latest)' /\ Sound(handle)' /\ TaskInv(x)'
      <3>1. \A d \in Version : Sound(d) => Sound(d)'
        BY <1>1, <2>2, SoundStays, SMTT(30)
      <3>2. TaskInv(x)'
        BY <1>1, <2>2, <2>6, CalmTask, SMTT(30)
      <3> QED BY <1>1, <2>2, <3>1, <3>2, SMTT(30)
    <2>8. \A u \in Task : u # Free
      BY MemWalAssumption, Zenon DEF Free
    <2>9. Apart(t, x)
      BY <1>1, <2>1, <2>2, <2>3, <2>5, <2>8, UpsertTask, SMTT(30) DEF Apart, Closing
    <2>10. /\ slotLock' \in Task \cup {Free} /\ (slotLock' # Free => slot = NoEntry)
           /\ Goto(t, x) /\ task[t].pc # "take"
      BY <1>1, <1>3, <2>1, <2>4, <2>5, Zenon
    <2> QED BY <1>1, <2>7, <2>9, <2>10, CalmStep, Zenon
  <1> QED BY <1>2, <1>3, Zenon

\* disable_memwal begins.
LEMMA DisableStep ==
  ASSUME WalInv, NEW t \in Task, disable_memwal(t)
  PROVE  WalInv'
  <1> DEFINE v == [pc |-> "drain"]
  <1>1. /\ UNCHANGED <<latest, handle, gen, writer, slot, slotLock, acked>>
        /\ ops' \in 0 .. MaxOps /\ task[t].pc = "idle" /\ Goto(t, v)
    BY OpsBound, Zenon DEF disable_memwal
  <1>2. v \in TaskState /\ v.pc = "drain"
    BY Zenon DEF TaskState, DisableState
  <1> HIDE DEF v
  <1>3. TaskInv(v)
    BY <1>2, Zenon DEF TaskInv, CloserInv, UpsertInv, VersionInv, ReaderInv, UpsertPcs,
                HoldsVersion, Reading
  <1> QED BY <1>1, <1>2, <1>3, QuietStep, Zenon DEF Closing, UpsertPcs

-----------------------------------------------------------------------------
(* Steps that add to the memtables of a live writer                        *)

\* The writers are what they were, with the same rows or more.
Grown ==
    \A o \in Entry :
        /\ writer'[o].state = writer[o].state /\ writer'[o].shard = writer[o].shard
        /\ writer'[o].fenced = writer[o].fenced /\ writer'[o].manifest = writer[o].manifest
        /\ RowsOf(writer[o].mem) \subseteq RowsOf(writer'[o].mem)

LEMMA GrownTask ==
  ASSUME Grown, UNCHANGED <<gen, slot, latest>>, latest.version \in Nat,
         slot \in Entry \cup {NoEntry}, NEW v \in TaskState, TaskInv(v),
         v.pc \in UpsertPcs => \A o \in Entry : v.row \notin RowsOf(writer'[o].mem)
  PROVE  TaskInv(v)'
  <1>1. CloserInv(v)'
    <2>1. v.pc \in Closing => v.entry \in Entry
      BY TaskShapes, Zenon DEF CloseState
    <2> QED BY <2>1, Zenon DEF TaskInv, CloserInv, Grown, Closing
  <1>2. UpsertInv(v)'
    <2>1. v.pc = "put" => v.entry \in Entry
      BY TaskShapes, Zenon DEF PutState
    <2> QED BY <2>1, Zenon DEF TaskInv, UpsertInv, Grown
  <1>3. VersionInv(v)'
    <2> SUFFICES ASSUME v.pc \in HoldsVersion PROVE Sound(v.ds)'
      BY Zenon DEF VersionInv
    <2>1. v.ds \in Version
      BY TaskShapes, Zenon DEF HoldsVersion, UpsertState, IndexState, FenceState, ReadState
    <2>2. Sound(v.ds)
      BY Zenon DEF TaskInv, VersionInv
    <2> QED BY <2>1, <2>2, SoundStays, SMTT(30)
  <1>4. ReaderInv(v)'
    <2> SUFFICES ASSUME v.pc \in Reading PROVE ReaderInv(v)'
      BY Zenon DEF ReaderInv
    <2>1. v.entry \in Entry \cup {NoEntry}
      BY TaskShapes, Zenon DEF ReadState
    <2>2. ReaderInv(v)
      BY Zenon DEF TaskInv
    <2>3. v.pc \in {"memtables", "manifest"} => v.entry \in Entry
      BY <2>1, <2>2, Zenon DEF ReaderInv
    <2>4. \A x : OldFound(v, x) => OldFound(v, x)'
      BY <2>3, Zenon DEF OldFound, Grown
    <2>5. \A x : ResidentFound(v, x) => ResidentFound(v, x)'
      BY Zenon DEF ResidentFound, Grown
    <2>6. v.pc \in {"memtables", "manifest"} => writer'[v.entry].state = writer[v.entry].state
      BY <2>3, Zenon DEF Grown
    <2> QED BY <2>2, <2>4, <2>5, <2>6, Zenon DEF ReaderInv
  <1> QED BY <1>1, <1>2, <1>3, <1>4, Zenon DEF TaskInv

\* A live, open writer e becomes w, which holds the rows R besides its own.
Adds(e, w, R) ==
    /\ writer[e].state = "open" /\ ~writer[e].fenced
    /\ writer' = [writer EXCEPT ![e] = w]
    /\ w \in Writer /\ w.mem # << >>
    /\ w.state = writer[e].state /\ w.shard = writer[e].shard
    /\ w.fenced = writer[e].fenced /\ w.manifest = writer[e].manifest
    /\ RowsOf(w.mem) = RowsOf(writer[e].mem) \cup R
    /\ Disjoint(w.mem)
    /\ \A r \in R : gen[r] = 0 /\ ShardOf[r] = writer[e].shard

LEMMA AddsWorld ==
  ASSUME WalInv, NEW e \in Entry, NEW w, NEW R \in SUBSET Row, Adds(e, w, R),
         UNCHANGED <<latest, handle, gen, slot>>,
         acked \subseteq acked', acked' \subseteq acked \cup R
  PROVE  /\ Grown /\ writer' \in [Entry -> Writer]
         /\ WriterInv' /\ GenInv' /\ AckedKept' /\ Sound(latest)' /\ Sound(handle)'
         /\ \A o \in Entry : RowsOf(writer'[o].mem) \subseteq RowsOf(writer[o].mem) \cup R
  <1>1. writer \in [Entry -> Writer] /\ latest \in Version /\ handle \in Version
        /\ latest.version \in Nat
    BY Parts, Zenon DEF TypeOK, Version
  <1>2. /\ writer' \in [Entry -> Writer]
        /\ \A o \in Entry : writer'[o] = IF o = e THEN w ELSE writer[o]
    BY <1>1, Zenon DEF Adds
  <1>3. Grown /\ \A o \in Entry : RowsOf(writer'[o].mem) \subseteq RowsOf(writer[o].mem) \cup R
    BY <1>2, Zenon DEF Adds, Grown
  <1>4. \A s : Published(s)' = Published(s)
    BY Zenon DEF Published
  <1>5. \A o \in Entry : Live(o)' = Live(o)
    BY <1>3, Zenon DEF Live, Grown
  <1>6. WriterInv'
    <2> SUFFICES ASSUME NEW o \in Entry
                 PROVE  /\ writer'[o].state = "open" => writer'[o].mem # << >>
                        /\ \A r \in RowsOf(writer'[o].mem) : ShardOf[r] = writer'[o].shard
                        /\ Live(o)' =>
                             /\ writer'[o].manifest = Published(writer[o].shard)'
                             /\ \A r \in RowsOf(writer'[o].mem) : gen'[r] = 0
                             /\ Disjoint(writer'[o].mem)
                             /\ \A x \in Entry \ {o} : Live(x)' => writer'[x].shard # writer'[o].shard
      BY Zenon DEF WriterInv
    <2>1. Live(e)
      BY Zenon DEF Adds, Live
    <2>2. Live(o) => writer[o].manifest = Published(writer[o].shard)
      BY Parts, Zenon DEF WriterInv
    <2>3. Live(o)' => writer'[o].manifest = Published(writer[o].shard)'
      BY <1>3, <1>5, <2>2, SMTT(30) DEF Grown, Published
    <2>4. Live(o)' => \A x \in Entry \ {o} : Live(x)' => writer'[x].shard # writer'[o].shard
      BY <1>3, <1>5, Parts, SMTT(30) DEF Grown, WriterInv
    <2>5. CASE o = e
      BY <1>2, <2>1, <2>3, <2>4, <2>5, Parts, SMTT(30) DEF Adds, WriterInv
    <2>6. CASE o # e
      BY <1>2, <1>5, <2>3, <2>4, <2>6, Parts, SMTT(30) DEF WriterInv
    <2> QED BY <2>5, <2>6, Zenon
  <1>7. GenInv'
    BY <1>4, Parts, Zenon DEF GenInv
  <1>8. Sound(latest)' /\ Sound(handle)'
    <2>1. \A d \in Version : Sound(d) => Sound(d)'
      BY <1>1, SoundStays, SMTT(30)
    <2> QED BY <1>1, <2>1, Parts, Zenon
  <1>9. AckedKept'
    <2> SUFFICES ASSUME NEW r \in acked'
                 PROVE  gen'[r] > 0 \/ \E o \in Entry : r \in Unpublished(o)'
      BY Zenon DEF AckedKept
    <2>1. \A o \in Entry : Unpublished(o) \subseteq Unpublished(o)'
      BY <1>3, Zenon DEF Unpublished, Grown
    <2>2. CASE r \in acked
      BY <2>1, <2>2, Parts, Zenon DEF AckedKept
    <2>3. CASE r \in R
      <3>1. r \in Unpublished(e)'
        BY <1>2, <2>3, Zenon DEF Unpublished, Adds
      <3> QED BY <3>1, Zenon
    <2> QED BY <2>2, <2>3, Zenon
  <1> QED BY <1>2, <1>3, <1>6, <1>7, <1>8, <1>9, Zenon


\* A task reconfigures the cached writer, or puts a row.
LEMMA AddsStep ==
  ASSUME WalInv, NEW t \in Task, NEW v \in TaskState, Goto(t, v), TaskInv(v)', Apart(t, v),
         NEW e \in Entry, NEW w, NEW R \in SUBSET Row, Adds(e, w, R),
         UNCHANGED <<latest, handle, gen, slot>>, ops' \in 0 .. MaxOps,
         acked \subseteq acked', acked' \subseteq acked \cup R,
         slotLock' \in Task \cup {Free}, slotLock' # Free => slot = NoEntry,
         task[t].pc # "take",
         \A u \in Task \ {t} : task[u].pc \in UpsertPcs => task[u].row \notin R
  PROVE  WalInv'
  <1>1. /\ Grown /\ writer' \in [Entry -> Writer]
        /\ WriterInv' /\ GenInv' /\ AckedKept' /\ Sound(latest)' /\ Sound(handle)'
        /\ \A o \in Entry : RowsOf(writer'[o].mem) \subseteq RowsOf(writer[o].mem) \cup R
    BY AddsWorld, Zenon
  <1>2. TasksApart' /\ task' \in [Task -> TaskState]
    BY StepApart, Parts, Zenon DEF TypeOK
  <1>3. TypeOK'
    BY <1>1, <1>2, Parts, Zenon DEF TypeOK
  <1>4. \A u \in Task : task'[u] = IF u = t THEN v ELSE task[u]
    BY Parts, Zenon DEF Goto, TypeOK
  <1>5. SlotInv'
    BY <1>1, Parts, Zenon DEF SlotInv, Grown, TypeOK, Live
  <1>6. WritersOwned'
    <2>1. \A o \in Entry : \A r \in RowsOf(writer'[o].mem) : ShardOf[r] = writer'[o].shard
      BY <1>1, Zenon DEF WriterInv
    <2>2. \A o \in Entry : writer'[o].state = "open" =>
             slot = o \/ \E u \in Task : task'[u].pc = "take" /\ task'[u].entry = o
      BY <1>1, <1>4, Parts, SMTT(30) DEF Grown, WritersOwned
    <2> QED BY <2>1, <2>2, Zenon DEF WritersOwned
  <1>7. \A u \in Task : TaskInv(task[u])'
    <2> TAKE u \in Task
    <2>1. /\ task[u] \in TaskState /\ TaskInv(task[u])
          /\ latest.version \in Nat /\ slot \in Entry \cup {NoEntry}
      BY Parts, Zenon DEF TypeOK, Version
    <2>2. CASE u = t
      BY <1>4, <2>2, Zenon
    <2>3. CASE u # t
      <3>1. task[u].pc \in UpsertPcs => \A o \in Entry : task[u].row \notin RowsOf(writer'[o].mem)
        BY <1>1, <2>1, <2>3, Zenon DEF TaskInv, UpsertInv
      <3>2. PICK x \in TaskState : x = task[u]
        BY <2>1, Zenon
      <3>3. TaskInv(x)'
        BY <1>1, <2>1, <3>1, <3>2, GrownTask, Zenon
      <3>4. task'[u] = x
        BY <1>4, <2>3, <3>2, Zenon
      <3> QED BY <3>3, <3>4, Zenon
    <2> QED BY <2>2, <2>3, Zenon
  <1> QED BY <1>1, <1>2, <1>3, <1>5, <1>6, <1>7, Whole, Zenon

LEMMA FreezeStep ==
  ASSUME WalInv, NEW e \in Entry, Freeze(e)
  PROVE  WalInv'
  <1> DEFINE new == [rows |-> {}, carries |-> writer[e].carries]
             w == [writer[e] EXCEPT !.mem = Append(writer[e].mem, new)]
  <1>1. /\ UNCHANGED <<latest, handle, gen, slot, slotLock, task, acked, ops>>
        /\ writer' = [writer EXCEPT ![e] = w]
        /\ writer[e].state = "open" /\ ~writer[e].fenced
    BY Zenon DEF Freeze
  <1>2. writer[e] \in Writer /\ new \in Memtable /\ new.rows = {}
    BY Parts, Zenon DEF TypeOK, Writer, Memtable
  <1>3. Live(e) /\ Disjoint(writer[e].mem)
    BY <1>1, Parts, Zenon DEF Live, WriterInv
  <1>4. writer[e].mem \in Seq(Memtable)
    BY <1>2, Zenon DEF Writer
  <1> HIDE DEF new
  <1>5. /\ Append(writer[e].mem, new) \in Seq(Memtable) /\ Append(writer[e].mem, new) # << >>
        /\ RowsOf(Append(writer[e].mem, new)) = RowsOf(writer[e].mem)
        /\ Disjoint(Append(writer[e].mem, new))
    BY <1>2, <1>3, <1>4, AppendMemtable, Zenon
  <1>6. /\ w \in Writer /\ w.mem = Append(writer[e].mem, new)
        /\ w.state = writer[e].state /\ w.shard = writer[e].shard
        /\ w.manifest = writer[e].manifest
    BY <1>2, <1>5, Zenon DEF Writer
  <1>7. w.fenced = writer[e].fenced
    BY <1>2, Zenon DEF Writer
  <1> HIDE DEF w
  <1>8. Adds(e, w, {})
    BY <1>1, <1>5, <1>6, <1>7, Zenon DEF Adds
  <1>9. /\ Grown /\ writer' \in [Entry -> Writer]
        /\ WriterInv' /\ GenInv' /\ AckedKept' /\ Sound(latest)' /\ Sound(handle)'
        /\ \A o \in Entry : RowsOf(writer'[o].mem) \subseteq RowsOf(writer[o].mem) \cup {}
    BY <1>1, <1>8, AddsWorld, Zenon
  <1>10. TypeOK' /\ TasksApart'
    BY <1>1, <1>9, Parts, Zenon DEF TypeOK, TasksApart
  <1>11. SlotInv'
    BY <1>1, <1>9, Parts, Zenon DEF SlotInv, Grown, TypeOK, Live
  <1>12. WritersOwned'
    <2>1. \A o \in Entry : \A r \in RowsOf(writer'[o].mem) : ShardOf[r] = writer'[o].shard
      BY <1>9, Zenon DEF WriterInv
    <2> QED BY <1>1, <1>9, <2>1, Parts, SMTT(30) DEF WritersOwned, Grown
  <1>13. \A u \in Task : TaskInv(task[u])'
    <2> TAKE u \in Task
    <2>1. /\ task[u] \in TaskState /\ TaskInv(task[u])
          /\ latest.version \in Nat /\ slot \in Entry \cup {NoEntry}
      BY Parts, Zenon DEF TypeOK, Version
    <2>2. task[u].pc \in UpsertPcs => \A o \in Entry : task[u].row \notin RowsOf(writer'[o].mem)
      BY <1>9, <2>1, Zenon DEF TaskInv, UpsertInv
    <2>3. PICK x \in TaskState : x = task[u]
      BY <2>1, Zenon
    <2>4. TaskInv(x)'
      BY <1>1, <1>9, <2>1, <2>2, <2>3, GrownTask, Zenon
    <2> QED BY <1>1, <2>3, <2>4, Zenon
  <1> QED BY <1>9, <1>10, <1>11, <1>12, <1>13, Whole, Zenon

LEMMA ReconfigureStep ==
  ASSUME WalInv, NEW t \in Task, refresh_maintained_indexes(t)
  PROVE  WalInv'
  <1> DEFINE e == task[t].entry
  <1>1. /\ UNCHANGED <<latest, handle, gen, slot, slotLock, acked>>
        /\ ops' \in 0 .. MaxOps /\ task[t].pc = "configure"
    BY OpsBound, Zenon DEF refresh_maintained_indexes
  <1>2. task[t] \in TaskState /\ TaskInv(task[t])
    BY Parts, Zenon DEF TypeOK
  <1>3. task[t] \in FenceState /\ Sound(task[t].ds)
    BY <1>1, <1>2, TaskShapes, Zenon DEF TaskInv, VersionInv, HoldsVersion
  <1>4. task[t].ds \in Version /\ e \in Entry
    BY <1>3, Zenon DEF FenceState
  <1>5. CASE ~(writer[e].state = "open" /\ ~writer[e].fenced)
    <2> DEFINE v == [pc |-> "update", ds |-> task[t].ds]
    <2>1. UNCHANGED writer /\ Goto(t, v)
      BY <1>5, Zenon DEF refresh_maintained_indexes
    <2>2. v \in TaskState /\ v.pc = "update" /\ v.ds = task[t].ds
      BY <1>4, Zenon DEF TaskState, IndexState
    <2> HIDE DEF v
    <2>3. TaskInv(v)
      BY <1>3, <2>2, Zenon DEF TaskInv, CloserInv, UpsertInv, VersionInv, ReaderInv, UpsertPcs, Reading
    <2> QED BY <1>1, <2>1, <2>2, <2>3, QuietStep, Zenon DEF Closing, UpsertPcs
  <1>6. CASE writer[e].state = "open" /\ ~writer[e].fenced
    <2> DEFINE c == Maintained(task[t].ds)
               w == Reconfigured(writer[e], c)
               v == [task[t] EXCEPT !.pc = "fence"]
    <2>1. writer' = [writer EXCEPT ![e] = w] /\ Goto(t, v)
      BY <1>6, Zenon DEF refresh_maintained_indexes, Move, Goto
    <2>2. c \in BOOLEAN
      BY Zenon DEF Maintained
    <2>3. writer[e] \in Writer /\ writer[e].mem # << >> /\ Disjoint(writer[e].mem)
      BY <1>4, <1>6, Parts, Zenon DEF TypeOK, WriterInv, Live
    <2>4. v \in FenceState /\ v.pc = "fence" /\ v.ds = task[t].ds
      BY <1>3, Zenon DEF FenceState
    <2>5. v \in TaskState
      BY <2>4, Zenon DEF TaskState
    <2> HIDE DEF v, c
    <2>6. /\ w \in Writer /\ w.mem # << >> /\ RowsOf(w.mem) = RowsOf(writer[e].mem)
          /\ Disjoint(w.mem) /\ w = [writer[e] EXCEPT !.carries = c, !.mem = w.mem]
      BY <2>2, <2>3, ReconfiguredWriter, Zenon
    <2> HIDE DEF w
    <2>7. w.state = writer[e].state /\ w.shard = writer[e].shard /\ w.manifest = writer[e].manifest
      BY <2>3, <2>6, Zenon DEF Writer
    <2>8. w.fenced = writer[e].fenced
      BY <2>3, <2>6, Zenon DEF Writer
    <2>9. Adds(e, w, {})
      BY <1>6, <2>1, <2>6, <2>7, <2>8, Zenon DEF Adds
    <2>10. Apart(t, v)
      BY <1>1, <2>4, Parts, Zenon DEF Apart, Closing, UpsertPcs, TasksApart
    <2>11. PICK x \in TaskState : x = v
      BY <2>5, Zenon
    <2>12. Sound(x.ds)'
      <3>1. latest.version \in Nat
        BY Parts, Zenon DEF TypeOK, Version
      <3> QED BY <1>1, <1>3, <1>4, <2>4, <2>11, <3>1, SoundStays, SMTT(30)
    <2>13. TaskInv(x)'
      BY <2>4, <2>11, <2>12, Zenon DEF TaskInv, CloserInv, UpsertInv, VersionInv, ReaderInv,
         UpsertPcs, Reading
    <2>14. slotLock' \in Task \cup {Free} /\ (slotLock' # Free => slot = NoEntry)
      BY <1>1, Parts, Zenon DEF TypeOK, SlotInv
    <2> HIDE DEF e
    <2> QED BY <1>1, <1>4, <2>1, <2>9, <2>10, <2>11, <2>13, <2>14, AddsStep, Zenon
  <1> QED BY <1>5, <1>6, Zenon

\* The batch is written, acknowledged or not.
LEMMA WrittenStep ==
  ASSUME WalInv, NEW t \in Task, task[t].pc = "put", Goto(t, Idle),
         writer[task[t].entry].state = "open", ~writer[task[t].entry].fenced,
         writer' = [writer EXCEPT ![task[t].entry] = Appended(@, task[t].row)],
         UNCHANGED <<latest, handle, gen, slot, slotLock>>, ops' \in 0 .. MaxOps,
         acked' = acked \/ acked' = acked \cup {task[t].row}
  PROVE  WalInv'
  <1> DEFINE e == task[t].entry
             r == task[t].row
             w == Appended(writer[e], r)
  <1>1. /\ e \in Entry /\ r \in Row /\ gen[r] = 0 /\ writer[e].shard = ShardOf[r]
        /\ \A o \in Entry : r \notin RowsOf(writer[o].mem)
        /\ \A u \in Task \ {t} : task[u].pc \in UpsertPcs => task[u].row # r
    BY UpsertTask, Zenon DEF UpsertPcs
  <1>2. /\ writer[e] \in Writer /\ writer[e].mem # << >> /\ Disjoint(writer[e].mem)
    BY <1>1, Parts, Zenon DEF TypeOK, WriterInv, Live
  <1>3. writer' = [writer EXCEPT ![e] = w]
    BY Zenon
  <1> HIDE DEF e, r
  <1>4. /\ w \in Writer /\ w.mem # << >> /\ RowsOf(w.mem) = RowsOf(writer[e].mem) \cup {r}
        /\ Disjoint(w.mem) /\ w = [writer[e] EXCEPT !.mem = w.mem]
    BY <1>1, <1>2, AppendedWriter, Zenon
  <1> HIDE DEF w
  <1>5. w.state = writer[e].state /\ w.shard = writer[e].shard /\ w.manifest = writer[e].manifest
    BY <1>2, <1>4, Zenon DEF Writer
  <1>6. w.fenced = writer[e].fenced
    BY <1>2, <1>4, Zenon DEF Writer
  <1>7. Adds(e, w, {r})
    BY <1>1, <1>3, <1>4, <1>5, <1>6, Zenon DEF Adds, e
  <1>8. Apart(t, Idle)
    BY IdleTask, Parts, Zenon DEF Apart, Closing, UpsertPcs, TasksApart
  <1>9. /\ slotLock' \in Task \cup {Free} /\ (slotLock' # Free => slot = NoEntry)
        /\ acked \subseteq acked' /\ acked' \subseteq acked \cup {r} /\ {r} \in SUBSET Row
        /\ \A u \in Task \ {t} : task[u].pc \in UpsertPcs => task[u].row \notin {r}
    BY <1>1, Parts, Zenon DEF TypeOK, SlotInv, r
  <1> QED BY <1>1, <1>7, <1>8, <1>9, IdleTask, AddsStep, Zenon

LEMMA PutStep ==
  ASSUME WalInv, NEW t \in Task, put(t)
  PROVE  WalInv'
  <1> DEFINE e == task[t].entry
             open == writer[e].state = "open" /\ ~writer[e].fenced
  <1>1. /\ UNCHANGED <<latest, handle, gen, slot, slotLock>> /\ Goto(t, Idle)
        /\ ops' \in 0 .. MaxOps /\ task[t].pc = "put"
    BY OpsBound, Zenon DEF put, End
  <1>2. CASE open
    <2>1. /\ writer' = [writer EXCEPT ![e] = Appended(@, task[t].row)]
          /\ acked' = acked \cup {task[t].row}
      BY <1>2, Zenon DEF put
    <2> QED BY <1>1, <1>2, <2>1, WrittenStep, Zenon
  <1>3. CASE ~open
    <2>1. UNCHANGED <<writer, acked>>
      BY <1>3, Zenon DEF put
    <2>2. slotLock # t
      BY <1>1, Parts, Zenon DEF TasksApart
    <2> QED BY <1>1, <2>1, <2>2, UpsertEnds, Zenon
  <1> QED BY <1>2, <1>3, Zenon

LEMMA TimeoutStep ==
  ASSUME WalInv, NEW t \in Task, MergeTimeout(t)
  PROVE  WalInv'
  <1>1. /\ UNCHANGED <<latest, handle, gen, slot, acked>> /\ Goto(t, Idle)
        /\ ops' \in 0 .. MaxOps /\ task[t].pc \in UpsertPcs
        /\ slotLock' = IF slotLock = t THEN Free ELSE slotLock
    BY OpsBound, Zenon DEF MergeTimeout, End
  <1>2. CASE UNCHANGED writer
    BY <1>1, <1>2, UpsertEnds, Zenon DEF UpsertPcs
  <1>3. CASE ~UNCHANGED writer
    <2>1. /\ task[t].pc = "put"
          /\ writer[task[t].entry].state = "open" /\ ~writer[task[t].entry].fenced
          /\ writer' = [writer EXCEPT ![task[t].entry] = Appended(@, task[t].row)]
      BY <1>3, Zenon DEF MergeTimeout
    <2>2. UNCHANGED slotLock
      BY <1>1, <2>1, Parts, Zenon DEF TasksApart
    <2> QED BY <1>1, <2>1, <2>2, WrittenStep, Zenon
  <1> QED BY <1>2, <1>3, Zenon

-----------------------------------------------------------------------------
(* Opening a writer                                                        *)

\* mem_wal_writer opens e for the shard s: the rows of the others move to e.
LEMMA OpenedWriters ==
  ASSUME WalInv, NEW e \in Entry, writer[e].state = "unused", NEW s \in Shard,
         NEW d \in Version, mem_wal_writer(e, s, d)
  PROVE  /\ writer' \in [Entry -> Writer]
         /\ writer'[e].state = "open" /\ ~writer'[e].fenced /\ writer'[e].shard = s
         /\ writer'[e].mem # << >> /\ Disjoint(writer'[e].mem)
         /\ writer'[e].manifest = Published(s)
         /\ RowsOf(writer'[e].mem) = UNION {Unpublished(o) : o \in {x \in Entry :
                writer[x].state # "unused" /\ writer[x].shard = s}}
         /\ \A o \in Entry \ {e} :
              /\ writer'[o].state = writer[o].state /\ writer'[o].shard = writer[o].shard
              /\ writer'[o].mem = writer[o].mem /\ writer'[o].manifest = writer[o].manifest
              /\ writer'[o].fenced <=>
                   writer[o].fenced \/ (writer[o].state # "unused" /\ writer[o].shard = s)
  <1> DEFINE others == {o \in Entry : writer[o].state # "unused" /\ writer[o].shard = s}
             replay == UNION {Unpublished(o) : o \in others}
             c == Maintained(d)
             m == [rows |-> replay, carries |-> c]
             w == [state |-> "open", fenced |-> FALSE, shard |-> s, carries |-> c,
                   mem |-> <<m>>, manifest |-> Published(s)]
  <1>1. writer \in [Entry -> Writer] /\ Published(s) \in SUBSET Row
    BY Parts, Zenon DEF TypeOK, Published
  <1>2. writer' = [o \in Entry |-> IF o = e THEN w
                                   ELSE IF o \in others THEN [writer[o] EXCEPT !.fenced = TRUE]
                                   ELSE writer[o]]
    BY Zenon DEF mem_wal_writer
  <1>3. c \in BOOLEAN
    BY Zenon DEF Maintained
  <1>4. replay \in SUBSET Row
    <2>1. \A o \in Entry : Unpublished(o) \in SUBSET Row
      BY <1>1, RowsInRow, Zenon DEF Unpublished, Writer
    <2> QED BY <2>1, Zenon
  <1> HIDE DEF c, replay
  <1>5. m \in Memtable /\ m.rows = replay
    BY <1>3, <1>4, Zenon DEF Memtable
  <1> HIDE DEF m
  <1>6. <<m>> \in Seq(Memtable) /\ <<m>> # << >> /\ Disjoint(<<m>>) /\ RowsOf(<<m>>) = replay
    BY <1>5, FewMemtables, SMTT(30)
  <1>7. w \in Writer
    BY <1>1, <1>3, <1>6, Zenon DEF Writer
  <1>8. /\ w.state = "open" /\ ~w.fenced /\ w.shard = s /\ w.mem = <<m>>
        /\ w.manifest = Published(s)
    BY Zenon
  <1> HIDE DEF w
  <1>9. ASSUME NEW o \in Entry \ {e}
        PROVE  /\ writer'[o] \in Writer
               /\ writer'[o].state = writer[o].state /\ writer'[o].shard = writer[o].shard
               /\ writer'[o].mem = writer[o].mem /\ writer'[o].manifest = writer[o].manifest
               /\ writer'[o].fenced <=>
                    writer[o].fenced \/ (writer[o].state # "unused" /\ writer[o].shard = s)
    <2>1. writer[o] \in Writer
      BY <1>1, Zenon
    <2>2. CASE o \in others
      <3>1. writer'[o] = [writer[o] EXCEPT !.fenced = TRUE]
        BY <1>2, <2>2, Zenon
      <3>2. writer'[o].fenced
        BY <2>1, <3>1, Zenon DEF Writer
      <3>3. /\ writer'[o] \in Writer
            /\ writer'[o].state = writer[o].state /\ writer'[o].shard = writer[o].shard
            /\ writer'[o].mem = writer[o].mem /\ writer'[o].manifest = writer[o].manifest
        BY <2>1, <3>1, Zenon DEF Writer
      <3> QED BY <2>2, <3>2, <3>3, Zenon
    <2>3. CASE o \notin others
      <3>1. writer'[o] = writer[o]
        BY <1>2, <2>3, Zenon
      <3> QED BY <2>1, <2>3, <3>1, Zenon
    <2> QED BY <2>2, <2>3, Zenon
  <1>10. writer'[e] = w
    BY <1>2, Zenon
  <1>11. writer' \in [Entry -> Writer]
    <2>1. \A o \in Entry : writer'[o] \in Writer
      BY <1>7, <1>9, <1>10, Zenon
    <2>2. writer' = [o \in Entry |-> writer'[o]]
      BY <1>2, Zenon
    <2> QED BY <2>1, <2>2, Zenon
  <1>12. RowsOf(writer'[e].mem) = UNION {Unpublished(o) : o \in others}
    BY <1>6, <1>8, <1>10, Zenon DEF replay
  <1> QED BY <1>6, <1>8, <1>9, <1>10, <1>11, <1>12, Zenon

LEMMA OpenStep ==
  ASSUME WalInv, NEW t \in Task, task[t].pc = "opening", slotLock' = Free, NEW e \in Entry,
         writer[e].state = "unused", mem_wal_writer(e, ShardOf[task[t].row], task[t].ds),
         slot' = e, Goto(t, [pc |-> "put", row |-> task[t].row, entry |-> e]),
         UNCHANGED <<latest, handle, gen, acked>>, ops' \in 0 .. MaxOps
  PROVE  WalInv'
  <1> DEFINE s == ShardOf[task[t].row]
             v == [pc |-> "put", row |-> task[t].row, entry |-> e]
             others == {x \in Entry : writer[x].state # "unused" /\ writer[x].shard = s}
  <1>1. /\ task[t].row \in Row /\ gen[task[t].row] = 0 /\ task[t].ds \in Version
        /\ \A o \in Entry : task[t].row \notin RowsOf(writer[o].mem)
        /\ \A u \in Task \ {t} : task[u].pc \in UpsertPcs => task[u].row # task[t].row
    BY UpsertTask, Zenon DEF UpsertPcs
  <1>2. s \in Shard
    BY <1>1, MemWalAssumption, Zenon
  <1>3. /\ latest \in Version /\ handle \in Version /\ latest.version \in Nat
        /\ slotLock = t /\ slot = NoEntry /\ e # NoEntry /\ \A u \in Task : u # Free
    BY MemWalAssumption, Parts, Zenon DEF TypeOK, Version, TasksApart, SlotInv, Free, NoEntry
  <1>4. Goto(t, v)
    BY Zenon
  <1>5. v \in TaskState /\ v.pc = "put" /\ v.row = task[t].row /\ v.entry = e
    BY <1>1, Zenon DEF TaskState, PutState
  <1> HIDE DEF s, v
  <1>6. /\ writer' \in [Entry -> Writer]
        /\ writer'[e].state = "open" /\ ~writer'[e].fenced /\ writer'[e].shard = s
        /\ writer'[e].mem # << >> /\ Disjoint(writer'[e].mem)
        /\ writer'[e].manifest = Published(s)
        /\ RowsOf(writer'[e].mem) = UNION {Unpublished(o) : o \in others}
        /\ \A o \in Entry \ {e} :
              /\ writer'[o].state = writer[o].state /\ writer'[o].shard = writer[o].shard
              /\ writer'[o].mem = writer[o].mem /\ writer'[o].manifest = writer[o].manifest
              /\ writer'[o].fenced <=>
                   writer[o].fenced \/ (writer[o].state # "unused" /\ writer[o].shard = s)
    <2>1. mem_wal_writer(e, s, task[t].ds)
      BY Zenon DEF s
    <2> QED BY <1>1, <1>2, <2>1, OpenedWriters, Zenon
  <1>7. \A r \in RowsOf(writer'[e].mem) :
            \E o \in others : r \in RowsOf(writer[o].mem) /\ Live(o)
    BY <1>6, Zenon DEF Unpublished, Live
  <1>8. \A r \in RowsOf(writer'[e].mem) : ShardOf[r] = s /\ gen[r] = 0
    BY <1>7, Parts, Zenon DEF WriterInv
  <1>9. \A x : Published(x)' = Published(x)
    BY Zenon DEF Published
  <1>10. Live(e)' /\ \A o \in Entry \ {e} : Live(o)' <=> Live(o) /\ writer[o].shard # s
    BY <1>6, Zenon DEF Live
  <1>11. WriterInv'
    <2> SUFFICES ASSUME NEW o \in Entry
                 PROVE  /\ writer'[o].state = "open" => writer'[o].mem # << >>
                        /\ \A r \in RowsOf(writer'[o].mem) : ShardOf[r] = writer'[o].shard
                        /\ Live(o)' =>
                             /\ writer'[o].manifest = Published(writer[o].shard)'
                             /\ \A r \in RowsOf(writer'[o].mem) : gen'[r] = 0
                             /\ Disjoint(writer'[o].mem)
                             /\ \A x \in Entry \ {o} : Live(x)' => writer'[x].shard # writer'[o].shard
      BY Zenon DEF WriterInv
    <2>1. CASE o = e
      <3>1. Published(writer[o].shard)' = Published(s)
        BY <1>6, <2>1, Zenon DEF Published
      <3> QED BY <1>6, <1>8, <1>10, <2>1, <3>1, ZenonT(40)
    <2>2. CASE o # e
      <3>1. Published(writer[o].shard)' = Published(writer[o].shard)
        BY <1>6, <2>2, ZenonT(40) DEF Published
      <3>2. Live(o)' => \A x \in Entry \ {o} : Live(x)' => writer'[x].shard # writer'[o].shard
        BY <1>6, <1>10, <2>2, Parts, SMTT(30) DEF WriterInv
      <3> QED BY <1>6, <1>10, <2>2, <3>1, <3>2, Parts, SMTT(30) DEF WriterInv
    <2> QED BY <2>1, <2>2, Zenon
  <1>12. SlotInv'
    BY <1>6, <1>10, Zenon DEF SlotInv, Live
  <1>13. GenInv'
    BY <1>9, Parts, Zenon DEF GenInv
  <1>14. Sound(latest)' /\ Sound(handle)'
    <2>1. \A d \in Version : Sound(d) => Sound(d)'
      BY <1>3, SoundStays, SMTT(30)
    <2> QED BY <1>3, <2>1, Parts, ZenonT(40)
  <1>15. AckedKept'
    <2> SUFFICES ASSUME NEW r \in acked
                 PROVE  gen'[r] > 0 \/ \E o \in Entry : r \in Unpublished(o)'
      BY Zenon DEF AckedKept
    <2>1. CASE gen[r] > 0
      BY <2>1, Zenon
    <2>2. CASE ~(gen[r] > 0)
      <3>1. PICK o \in Entry : r \in Unpublished(o)
        BY <2>2, Parts, Zenon DEF AckedKept
      <3>2. o # e /\ writer[o].state # "unused"
        BY <3>1, Zenon DEF Unpublished
      <3>3. CASE writer[o].shard = s
        <4>1. r \in RowsOf(writer'[e].mem)
          BY <1>6, <3>1, <3>2, <3>3, Zenon
        <4>2. r \in Unpublished(e)'
          BY <1>6, <4>1, Zenon DEF Unpublished
        <4> QED BY <4>2, Zenon
      <3>4. CASE writer[o].shard # s
        <4>1. r \in Unpublished(o)'
          BY <1>6, <3>1, <3>2, <3>4, Zenon DEF Unpublished
        <4> QED BY <4>1, Zenon
      <3> QED BY <3>3, <3>4, Zenon
    <2> QED BY <2>1, <2>2, Zenon
  <1>16. \A u \in Task : task'[u] = IF u = t THEN v ELSE task[u]
    BY <1>4, Parts, Zenon DEF Goto, TypeOK
  <1>17. WritersOwned'
    <2>1. \A o \in Entry : \A r \in RowsOf(writer'[o].mem) : ShardOf[r] = writer'[o].shard
      BY <1>11, Zenon DEF WriterInv
    <2>2. \A o \in Entry : writer'[o].state = "open" =>
             slot' = o \/ \E u \in Task : task'[u].pc = "take" /\ task'[u].entry = o
      <3> SUFFICES ASSUME NEW o \in Entry, writer'[o].state = "open", o # e
                   PROVE  \E u \in Task : task'[u].pc = "take" /\ task'[u].entry = o
        BY Zenon
      <3>1. writer[o].state = "open" /\ slot # o
        BY <1>3, <1>6, MemWalAssumption, Zenon DEF NoEntry
      <3>2. PICK u \in Task : task[u].pc = "take" /\ task[u].entry = o
        BY <3>1, Parts, Zenon DEF WritersOwned
      <3>3. task'[u] = task[u]
        BY <1>16, <3>2, Zenon
      <3> QED BY <3>2, <3>3, Zenon
    <2> QED BY <2>1, <2>2, Zenon DEF WritersOwned
  <1>18. Apart(t, v)
    BY <1>1, <1>3, <1>5, Zenon DEF Apart, Closing
  <1>19. TasksApart' /\ task' \in [Task -> TaskState]
    BY <1>4, <1>5, <1>18, StepApart, Parts, Zenon DEF TypeOK
  <1>20. TypeOK'
    BY <1>6, <1>19, Parts, Zenon DEF TypeOK
  <1>21. \A u \in Task : TaskInv(task[u])'
    <2> TAKE u \in Task
    <2>1. PICK x \in TaskState : x = task'[u]
      BY <1>19, Zenon
    <2>2. \A r \in Row : (\A o \in Entry : r \notin RowsOf(writer[o].mem))
                          => \A o \in Entry : r \notin RowsOf(writer'[o].mem)
      BY <1>6, <1>7, Zenon
    <2>3. CASE u = t
      <3>1. x = v
        BY <1>16, <2>1, <2>3, Zenon
      <3>2. UpsertInv(x)'
        BY <1>1, <1>5, <1>6, <2>2, <3>1, Zenon DEF UpsertInv, s
      <3>3. TaskInv(x)'
        BY <1>5, <3>1, <3>2, Zenon DEF TaskInv, CloserInv, VersionInv, ReaderInv, HoldsVersion, Reading
      <3> QED BY <2>1, <3>3, Zenon
    <2>4. CASE u # t
      <3>1. x = task[u] /\ TaskInv(x)
        BY <1>16, <2>1, <2>4, Parts, Zenon
      <3>2. CloserInv(x)'
        <4>1. x.pc \in Closing => x.entry \in Entry
          BY TaskShapes, Zenon DEF CloseState
        <4> QED BY <1>6, <3>1, <4>1, Zenon DEF TaskInv, CloserInv, Closing
      <3>3. UpsertInv(x)'
        <4>1. /\ x.pc = "put" => x.entry \in Entry
              /\ x.pc \in UpsertPcs => x.row \in Row
          BY TaskShapes, ZenonT(40) DEF PutState, UpsertState, UpsertPcs
        <4> QED BY <1>6, <2>2, <3>1, <4>1, Zenon DEF TaskInv, UpsertInv
      <3>4. VersionInv(x)'
        <4> SUFFICES ASSUME x.pc \in HoldsVersion PROVE Sound(x.ds)'
          BY Zenon DEF VersionInv
        <4>1. x.ds \in Version
          BY TaskShapes, Zenon DEF HoldsVersion, UpsertState, IndexState, FenceState, ReadState
        <4> QED BY <1>3, <3>1, <4>1, SoundStays, SMTT(30) DEF TaskInv, VersionInv
      <3>5. ReaderInv(x)'
        <4> SUFFICES ASSUME x.pc \in Reading PROVE ReaderInv(x)'
          BY Zenon DEF ReaderInv
        <4>1. x.entry \in Entry \cup {NoEntry} /\ ReaderInv(x)
          BY <3>1, TaskShapes, Zenon DEF ReadState, TaskInv
        <4>2. x.pc \in {"memtables", "manifest"} =>
                 x.entry \in Entry \ {e} /\ x.drained
          BY <1>3, <4>1, Zenon DEF ReaderInv
        <4>3. ~x.drained => x.start \cap x.resident = {}
          BY <1>3, <4>1, Zenon DEF ReaderInv, ResidentFound
        <4>4. \A y : OldFound(x, y) => OldFound(x, y)'
          BY <1>6, <4>2, Zenon DEF OldFound
        <4> QED BY <1>6, <4>1, <4>2, <4>3, <4>4, Zenon DEF ReaderInv
      <3>6. TaskInv(x)'
        BY <3>1, <3>2, <3>3, <3>4, <3>5, Zenon DEF TaskInv
      <3> QED BY <2>1, <3>6, Zenon
    <2> QED BY <2>3, <2>4, Zenon
  <1> QED BY <1>11, <1>12, <1>13, <1>14, <1>15, <1>17, <1>19, <1>20, <1>21, Whole, Zenon

LEMMA WriterOpenStep ==
  ASSUME WalInv, NEW t \in Task, WriterOpen(t)
  PROVE  WalInv'
  <1>1. /\ UNCHANGED <<latest, handle, gen, acked>> /\ slotLock' = Free
        /\ ops' \in 0 .. MaxOps /\ task[t].pc = "opening"
    BY OpsBound, Zenon DEF WriterOpen
  <1>2. CASE End(t) /\ UNCHANGED <<writer, slot>>
    <2>1. slotLock = t
      BY <1>1, Parts, Zenon DEF TasksApart
    <2> QED BY <1>1, <1>2, <2>1, UpsertEnds, Zenon DEF End
  <1>3. CASE \E e \in Entry :
            /\ writer[e].state = "unused"
            /\ mem_wal_writer(e, ShardOf[task[t].row], task[t].ds)
            /\ slot' = e
            /\ Goto(t, [pc |-> "put", row |-> task[t].row, entry |-> e])
    BY <1>1, <1>3, OpenStep, Zenon
  <1> QED BY <1>2, <1>3, Zenon DEF WriterOpen

-----------------------------------------------------------------------------
(* Closing                                                                 *)

\* The writer e moves on towards closed.
Shuts(e) ==
    /\ slot # e
    /\ \A o \in Entry :
         /\ writer'[o].shard = writer[o].shard /\ writer'[o].fenced = writer[o].fenced
         /\ writer'[o].manifest = writer[o].manifest
         /\ RowsOf(writer'[o].mem) \subseteq RowsOf(writer[o].mem)
         /\ o # e => writer'[o] = writer[o]
         /\ writer[o].state # "unused" => writer'[o].state # "unused"

LEMMA ShutTask ==
  ASSUME NEW e \in Entry, Shuts(e), UNCHANGED <<latest, gen, slot>>,
         slot \in Entry \cup {NoEntry}, latest.version \in Nat,
         NEW v \in TaskState, TaskInv(v), v.pc \in Closing => v.entry # e
  PROVE  TaskInv(v)'
  <1>1. CloserInv(v)'
    <2>1. v.pc \in Closing => v.entry \in Entry
      BY TaskShapes, Zenon DEF CloseState
    <2> QED BY <2>1, Zenon DEF TaskInv, CloserInv, Shuts, Closing
  <1>2. UpsertInv(v)'
    <2>1. v.pc = "put" => v.entry \in Entry
      BY TaskShapes, Zenon DEF PutState
    <2> QED BY <2>1, Zenon DEF TaskInv, UpsertInv, Shuts
  <1>3. VersionInv(v)'
    <2> SUFFICES ASSUME v.pc \in HoldsVersion PROVE Sound(v.ds)'
      BY Zenon DEF VersionInv
    <2>1. v.ds \in Version
      BY TaskShapes, Zenon DEF HoldsVersion, UpsertState, IndexState, FenceState, ReadState
    <2>2. Sound(v.ds)
      BY Zenon DEF TaskInv, VersionInv
    <2> QED BY <2>1, <2>2, SoundStays, SMTT(30)
  <1>4. ReaderInv(v)'
    <2> SUFFICES ASSUME v.pc \in Reading PROVE ReaderInv(v)'
      BY Zenon DEF ReaderInv
    <2>1. v.entry \in Entry \cup {NoEntry} /\ ReaderInv(v)
      BY TaskShapes, Zenon DEF ReadState, TaskInv
    <2>2. v.pc \in {"memtables", "manifest"} => v.entry \in Entry
      BY <2>1, Zenon DEF ReaderInv
    <2>3. \A x : OldFound(v, x) => OldFound(v, x)'
      BY <2>2, Zenon DEF OldFound, Shuts
    <2>4. \A x : ResidentFound(v, x) => ResidentFound(v, x)'
      BY Zenon DEF ResidentFound, Shuts
    <2>5. v.pc \in {"memtables", "manifest"} => writer'[v.entry].state # "unused"
      BY <2>1, <2>2, Zenon DEF ReaderInv, Shuts
    <2> QED BY <2>1, <2>3, <2>4, <2>5, Zenon DEF ReaderInv
  <1> QED BY <1>1, <1>2, <1>3, <1>4, Zenon DEF TaskInv

LEMMA ShutStep ==
  ASSUME WalInv, NEW t \in Task, NEW v \in TaskState, Goto(t, v), TaskInv(v)', Apart(t, v),
         NEW e \in Entry, Shuts(e), writer' \in [Entry -> Writer],
         task[t].pc \in Closing, task[t].entry = e,
         UNCHANGED <<latest, handle, gen, slot, slotLock, acked>>, ops' \in 0 .. MaxOps,
         writer'[e].state # "open", Live(e)' => Live(e) /\ writer'[e].mem = writer[e].mem,
         Unpublished(e) \subseteq Unpublished(e)'
  PROVE  WalInv'
  <1>1. /\ latest \in Version /\ handle \in Version /\ latest.version \in Nat
        /\ slot \in Entry \cup {NoEntry} /\ writer \in [Entry -> Writer]
    BY Parts, Zenon DEF TypeOK, Version
  <1>2. TasksApart' /\ task' \in [Task -> TaskState]
    BY StepApart, Parts, Zenon DEF TypeOK
  <1>3. TypeOK'
    BY <1>2, Parts, Zenon DEF TypeOK
  <1>4. \A u \in Task : task'[u] = IF u = t THEN v ELSE task[u]
    BY Parts, Zenon DEF Goto, TypeOK
  <1>5. \A x : Published(x)' = Published(x)
    BY Zenon DEF Published
  <1>6. \A o \in Entry \ {e} : writer'[o] = writer[o] /\ (Live(o)' <=> Live(o))
    BY Zenon DEF Shuts, Live
  <1>7. WriterInv'
    <2> SUFFICES ASSUME NEW o \in Entry
                 PROVE  /\ writer'[o].state = "open" => writer'[o].mem # << >>
                        /\ \A r \in RowsOf(writer'[o].mem) : ShardOf[r] = writer'[o].shard
                        /\ Live(o)' =>
                             /\ writer'[o].manifest = Published(writer[o].shard)'
                             /\ \A r \in RowsOf(writer'[o].mem) : gen'[r] = 0
                             /\ Disjoint(writer'[o].mem)
                             /\ \A x \in Entry \ {o} : Live(x)' => writer'[x].shard # writer'[o].shard
      BY Zenon DEF WriterInv
    <2>1. Published(writer[o].shard)' = Published(writer[o].shard)
      BY Zenon DEF Published, Shuts
    <2>2. Live(o)' => Live(o)
      BY <1>6, Zenon
    <2>3. Live(o)' => writer'[o].mem = writer[o].mem
      BY <1>6, Zenon
    <2>4. Live(o)' => \A x \in Entry \ {o} : Live(x)' => writer'[x].shard # writer'[o].shard
      BY <1>6, <2>2, Parts, SMTT(30) DEF Shuts, WriterInv
    <2>5. writer'[o].state = "open" => writer'[o].mem # << >>
      BY <1>6, Parts, Zenon DEF WriterInv
    <2>6. \A r \in RowsOf(writer'[o].mem) : ShardOf[r] = writer'[o].shard
      BY Parts, SMTT(30) DEF Shuts, WriterInv
    <2>7. Live(o)' => writer'[o].manifest = Published(writer[o].shard)'
      BY <2>1, <2>2, Parts, Zenon DEF Shuts, WriterInv
    <2>8. Live(o)' => (\A r \in RowsOf(writer'[o].mem) : gen'[r] = 0) /\ Disjoint(writer'[o].mem)
      BY <2>2, <2>3, Parts, Zenon DEF WriterInv
    <2> QED BY <2>4, <2>5, <2>6, <2>7, <2>8, Zenon
  <1>8. SlotInv'
    BY <1>1, <1>6, Parts, Zenon DEF SlotInv, Shuts, Live
  <1>9. GenInv'
    BY <1>5, Parts, Zenon DEF GenInv
  <1>10. Sound(latest)' /\ Sound(handle)'
    <2>1. \A d \in Version : Sound(d) => Sound(d)'
      BY <1>1, SoundStays, SMTT(30)
    <2> QED BY <1>1, <2>1, Parts, Zenon
  <1>11. AckedKept'
    <2>1. \A o \in Entry : Unpublished(o) \subseteq Unpublished(o)'
      BY <1>6, Zenon DEF Unpublished
    <2> QED BY <2>1, Parts, Zenon DEF AckedKept
  <1>12. WritersOwned'
    <2>1. \A o \in Entry : \A r \in RowsOf(writer'[o].mem) : ShardOf[r] = writer'[o].shard
      BY <1>7, Zenon DEF WriterInv
    <2>2. ASSUME NEW o \in Entry, writer'[o].state = "open"
          PROVE  slot = o \/ \E u \in Task : task'[u].pc = "take" /\ task'[u].entry = o
      <3>1. o # e /\ writer[o].state = "open"
        BY <1>6, <2>2, Zenon
      <3>2. CASE slot # o
        <4>1. PICK u \in Task : task[u].pc = "take" /\ task[u].entry = o
          BY <3>1, <3>2, Parts, Zenon DEF WritersOwned
        <4>2. task'[u] = task[u]
          BY <1>4, <3>1, <4>1, Zenon
        <4> QED BY <4>1, <4>2, Zenon
      <3> QED BY <3>2, Zenon
    <2> QED BY <2>1, <2>2, Zenon DEF WritersOwned
  <1>13. \A u \in Task : TaskInv(task[u])'
    <2> TAKE u \in Task
    <2>1. PICK x \in TaskState : x = task'[u]
      BY <1>2, Zenon
    <2>2. CASE u = t
      BY <1>4, <2>2, Zenon
    <2>3. CASE u # t
      <3>1. x = task[u] /\ TaskInv(x)
        BY <1>4, <2>1, <2>3, Parts, Zenon
      <3>2. x.pc \in Closing => x.entry # e
        BY <2>3, <3>1, Parts, Zenon DEF TasksApart
      <3>3. TaskInv(x)'
        BY <1>1, <3>1, <3>2, ShutTask, Zenon
      <3> QED BY <2>1, <3>3, Zenon
    <2> QED BY <2>2, <2>3, Zenon
  <1> QED BY <1>2, <1>3, <1>7, <1>8, <1>9, <1>10, <1>11, <1>12, <1>13, Whole, Zenon

LEMMA CloseTakeStep ==
  ASSUME WalInv, NEW t \in Task, CloseTake(t)
  PROVE  WalInv'
  <1>1. /\ UNCHANGED <<latest, handle, gen, slot, slotLock, acked>>
        /\ ops' \in 0 .. MaxOps /\ task[t].pc = "take" /\ task[t].pc \in Closing
    BY OpsBound, Zenon DEF CloseTake, Closing
  <1>2. task[t] \in TaskState /\ TaskInv(task[t])
    BY Parts, Zenon DEF TypeOK
  <1>3. task[t] \in CloseState
    BY <1>1, <1>2, TaskShapes, Zenon
  <1>4. PICK e \in Entry : e = task[t].entry
    BY <1>3, Zenon DEF CloseState
  <1> DEFINE v == [task[t] EXCEPT !.pc = "closing"]
             w == [writer[e] EXCEPT !.state = "taken"]
  <1>5. writer[e].state = "open" /\ slot # e /\ writer \in [Entry -> Writer]
    BY <1>1, <1>2, <1>4, Parts, Zenon DEF TaskInv, CloserInv, TypeOK
  <1>6. Goto(t, v) /\ writer' = [writer EXCEPT ![e] = w]
    BY <1>4, Zenon DEF CloseTake, Move, Goto
  <1>7. v \in CloseState /\ v.pc = "closing" /\ v.entry = e
    BY <1>3, <1>4, Zenon DEF CloseState
  <1>8. PICK x \in TaskState : x = v
    BY <1>7, Zenon DEF TaskState
  <1> HIDE DEF v
  <1>9. writer[e] \in Writer
    BY <1>5, Zenon
  <1>10. /\ w \in Writer /\ w.state = "taken" /\ w.shard = writer[e].shard
         /\ w.manifest = writer[e].manifest /\ w.mem = writer[e].mem
    BY <1>9, Zenon DEF Writer
  <1>11. w.fenced = writer[e].fenced
    BY <1>9, Zenon DEF Writer
  <1> HIDE DEF w
  <1>12. /\ writer' \in [Entry -> Writer]
         /\ \A o \in Entry : writer'[o] = IF o = e THEN w ELSE writer[o]
    BY <1>5, <1>6, <1>10, Zenon
  <1>13. Shuts(e)
    BY <1>5, <1>10, <1>11, <1>12, Zenon DEF Shuts
  <1>14. /\ Live(e)' => Live(e) /\ writer'[e].mem = writer[e].mem
         /\ Unpublished(e) \subseteq Unpublished(e)' /\ writer'[e].state = "taken"
    BY <1>5, <1>10, <1>11, <1>12, Zenon DEF Live, Unpublished
  <1>15. Apart(t, x)
    BY <1>1, <1>4, <1>7, <1>8, Parts, Zenon DEF Apart, TasksApart, Closing, UpsertPcs
  <1>16. TaskInv(x)'
    BY <1>7, <1>8, <1>14, Zenon DEF TaskInv, CloserInv, UpsertInv, VersionInv, ReaderInv,
       UpsertPcs, HoldsVersion, Reading
  <1>17. Goto(t, x) /\ writer'[e].state # "open"
    BY <1>6, <1>8, <1>14, Zenon
  <1> QED BY <1>1, <1>4, <1>12, <1>13, <1>14, <1>15, <1>16, <1>17, ShutStep, Zenon

LEMMA CloseEndStep ==
  ASSUME WalInv, NEW t \in Task, CloseEnd(t)
  PROVE  WalInv'
  <1>1. /\ UNCHANGED <<latest, handle, gen, slot, slotLock, acked>>
        /\ ops' \in 0 .. MaxOps /\ task[t].pc = "closing" /\ task[t].pc \in Closing
    BY OpsBound, Zenon DEF CloseEnd, Closing
  <1>2. task[t] \in TaskState /\ TaskInv(task[t])
    BY Parts, Zenon DEF TypeOK
  <1>3. task[t] \in CloseState
    BY <1>1, <1>2, TaskShapes, Zenon
  <1>4. PICK e \in Entry : e = task[t].entry
    BY <1>3, Zenon DEF CloseState
  <1> DEFINE v == IF task[t].disable /\ ~writer[e].fenced THEN [pc |-> "drop"] ELSE Idle
             w == [writer[e] EXCEPT !.state = "closed", !.mem = << >>]
  <1>5. writer[e].state = "taken" /\ writer \in [Entry -> Writer]
    BY <1>1, <1>2, <1>4, Parts, Zenon DEF TaskInv, CloserInv, TypeOK
  <1>6. slot # e
    BY <1>5, MemWalAssumption, Parts, Zenon DEF SlotInv, NoEntry
  <1>7. /\ Goto(t, v) /\ writer' = [writer EXCEPT ![e] = w]
        /\ writer[e].fenced \/ writer[e].mem = << >>
    BY <1>4, Zenon DEF CloseEnd
  <1>8. v \in TaskState /\ v.pc \in {"drop", "idle"}
    BY Zenon DEF TaskState, DisableState, Idle
  <1>9. PICK x \in TaskState : x = v
    BY <1>8, Zenon
  <1> HIDE DEF v
  <1>10. writer[e] \in Writer /\ << >> \in Seq(Memtable)
    BY <1>5, SMTT(30)
  <1>11. /\ w \in Writer /\ w.state = "closed" /\ w.shard = writer[e].shard
         /\ w.manifest = writer[e].manifest /\ w.mem = << >>
    BY <1>10, Zenon DEF Writer
  <1>12. w.fenced = writer[e].fenced
    BY <1>10, Zenon DEF Writer
  <1> HIDE DEF w
  <1>13. /\ writer' \in [Entry -> Writer]
         /\ \A o \in Entry : writer'[o] = IF o = e THEN w ELSE writer[o]
    BY <1>5, <1>7, <1>11, Zenon
  <1>14. Shuts(e)
    BY <1>6, <1>11, <1>12, <1>13, FewMemtables, Zenon DEF Shuts
  <1>15. /\ ~Live(e)' /\ Unpublished(e) = {} /\ writer'[e].state # "open"
    BY <1>5, <1>7, <1>11, <1>13, FewMemtables, Zenon DEF Live, Unpublished
  <1>16. Apart(t, x)
    BY <1>1, <1>8, <1>9, Parts, Zenon DEF Apart, TasksApart, Closing, UpsertPcs
  <1>17. TaskInv(x)'
    BY <1>8, <1>9, Zenon DEF TaskInv, CloserInv, UpsertInv, VersionInv, ReaderInv,
       UpsertPcs, HoldsVersion, Reading
  <1>18. Goto(t, x) /\ Unpublished(e) \subseteq Unpublished(e)'
    BY <1>7, <1>9, <1>15, Zenon
  <1> QED BY <1>1, <1>4, <1>13, <1>14, <1>15, <1>16, <1>17, <1>18, ShutStep, Zenon

\* drain_and_close empties the slot, or finds it empty.
LEMMA DrainStep ==
  ASSUME WalInv, NEW t \in Task, NEW disable \in BOOLEAN, DrainSlot(t, disable),
         task[t].pc \in {"idle", "drain"}, ops' \in 0 .. MaxOps
  PROVE  WalInv'
  <1>1. /\ UNCHANGED <<latest, handle, gen, writer, slotLock, acked>>
        /\ slotLock = Free /\ slot' = NoEntry
    BY Zenon DEF DrainSlot
  <1>2. CASE slot = NoEntry
    <2> DEFINE v == IF disable THEN [pc |-> "drop"] ELSE Idle
    <2>1. Goto(t, v) /\ UNCHANGED slot
      BY <1>1, <1>2, Zenon DEF DrainSlot
    <2>2. v \in TaskState /\ v.pc \in {"drop", "idle"}
      BY Zenon DEF TaskState, DisableState, Idle
    <2> HIDE DEF v
    <2>3. TaskInv(v)
      BY <2>2, Zenon DEF TaskInv, CloserInv, UpsertInv, VersionInv, ReaderInv,
         UpsertPcs, HoldsVersion, Reading
    <2> QED BY <1>1, <2>1, <2>2, <2>3, QuietStep, Zenon DEF Closing, UpsertPcs
  <1>3. CASE slot # NoEntry
    <2> DEFINE v == [pc |-> "take", entry |-> slot, disable |-> disable]
    <2>1. task' = [u \in Task |-> IF u = t THEN v
                                  ELSE IF task[u].pc \in Reading
                                  THEN [task[u] EXCEPT !.drained = TRUE] ELSE task[u]]
      BY <1>3, Zenon DEF DrainSlot
    <2>2. /\ slot \in Entry /\ writer[slot].state = "open" /\ task \in [Task -> TaskState]
          /\ latest \in Version /\ handle \in Version /\ latest.version \in Nat
      BY <1>3, Parts, Zenon DEF TypeOK, SlotInv, Version
    <2>3. v \in TaskState /\ v.pc = "take" /\ v.entry = slot
      BY <2>2, Zenon DEF TaskState, CloseState
    <2> HIDE DEF v
    <2>4. ASSUME NEW u \in Task \ {t}
          PROVE  /\ task'[u] \in TaskState /\ task'[u].pc = task[u].pc
                 /\ task[u].pc \notin Reading => task'[u] = task[u]
                 /\ task[u].pc \in Reading => task'[u] = [task[u] EXCEPT !.drained = TRUE]
      <3>1. task[u] \in TaskState
        BY <2>2, Zenon
      <3>2. CASE task[u].pc \notin Reading
        BY <2>1, <3>1, <3>2, Zenon
      <3>3. CASE task[u].pc \in Reading
        <4>1. task[u] \in ReadState /\ task'[u] = [task[u] EXCEPT !.drained = TRUE]
          BY <2>1, <3>1, <3>3, TaskShapes, Zenon
        <4>2. task'[u] \in ReadState /\ task'[u].pc = task[u].pc
          BY <4>1, Zenon DEF ReadState
        <4> QED BY <3>3, <4>1, <4>2, Zenon DEF TaskState
      <3> QED BY <3>2, <3>3, Zenon
    <2>5. task'[t] = v
      BY <2>1, Zenon
    <2>6. task' \in [Task -> TaskState]
      <3>1. \A u \in Task : task'[u] \in TaskState
        BY <2>3, <2>4, <2>5, Zenon
      <3>2. task' = [u \in Task |-> task'[u]]
        BY <2>1, Zenon
      <3> QED BY <3>1, <3>2, Zenon
    <2>7. TypeOK'
      BY <1>1, <2>6, Parts, Zenon DEF TypeOK
    <2>8. \A u \in Task \ {t} : task[u].pc \in Closing \cup UpsertPcs => task'[u] = task[u]
      BY <2>4, Zenon DEF Closing, UpsertPcs, Reading
    <2>9. TasksApart'
      <3>1. \A u \in Task : task'[u].pc = "opening" <=> slotLock' = u
        <4>1. v.pc # "opening" /\ t # Free /\ \A u \in Task \ {t} : task'[u].pc = task[u].pc
          BY <2>3, <2>4, MemWalAssumption, Zenon DEF Free
        <4>2. \A u \in Task : task[u].pc = "opening" <=> slotLock = u
          BY Parts, Zenon DEF TasksApart
        <4> QED BY <1>1, <2>5, <4>1, <4>2, Zenon
      <3>2. \A u \in Task \ {t} : task[u].pc \in Closing => task[u].entry # slot
        BY <1>3, <2>2, Parts, Zenon DEF TaskInv, CloserInv, Closing
      <3>3. ASSUME NEW a \in Task, NEW b \in Task, a # b
            PROVE  /\ task'[a].pc \in Closing /\ task'[b].pc \in Closing
                         => task'[a].entry # task'[b].entry
                   /\ task'[a].pc \in UpsertPcs /\ task'[b].pc \in UpsertPcs
                         => task'[a].row # task'[b].row
        <4>1. v.pc \notin UpsertPcs
          BY <2>3, Zenon DEF UpsertPcs
        <4>2. \A u \in Task \ {t} : /\ task'[u].pc \in Closing => task'[u].entry # slot
                                    /\ task'[u].pc \in Closing \cup UpsertPcs => task'[u] = task[u]
          BY <2>4, <2>8, <3>2, Zenon
        <4>3. CASE a = t
          BY <2>3, <2>5, <3>3, <4>1, <4>2, <4>3, Zenon
        <4>4. CASE b = t
          BY <2>3, <2>5, <3>3, <4>1, <4>2, <4>4, Zenon
        <4>5. CASE a # t /\ b # t
          <5>1. TasksApart /\ a \in Task \ {t} /\ b \in Task \ {t}
            BY <4>5, Parts, Zenon
          <5>2. /\ task[a].pc \in Closing /\ task[b].pc \in Closing
                      => task[a].entry # task[b].entry
                /\ task[a].pc \in UpsertPcs /\ task[b].pc \in UpsertPcs
                      => task[a].row # task[b].row
            BY <3>3, <5>1, Zenon DEF TasksApart
          <5>3. task'[a].pc \in Closing \cup UpsertPcs => task'[a] = task[a]
            BY <4>2, <5>1, Zenon
          <5>4. task'[b].pc \in Closing \cup UpsertPcs => task'[b] = task[b]
            BY <4>2, <5>1, Zenon
          <5> QED BY <5>2, <5>3, <5>4, Zenon
        <4> QED BY <4>3, <4>4, <4>5, Zenon
      <3> QED BY <3>1, <3>3, Zenon DEF TasksApart
    <2>10. WritersOwned'
      <3>1. ASSUME NEW o \in Entry, writer[o].state = "open"
            PROVE  \E u \in Task : task'[u].pc = "take" /\ task'[u].entry = o
        <4>1. CASE slot = o
          BY <2>3, <2>5, <4>1, Zenon
        <4>2. CASE slot # o
          <5>1. PICK u \in Task : task[u].pc = "take" /\ task[u].entry = o
            BY <3>1, <4>2, Parts, Zenon DEF WritersOwned
          <5>2. task'[u] = task[u]
            BY <2>8, <5>1, Zenon DEF Closing
          <5> QED BY <5>1, <5>2, Zenon
        <4> QED BY <4>1, <4>2, Zenon
      <3> QED BY <1>1, <3>1, Parts, SMTT(30) DEF WritersOwned
    <2>11. WriterInv' /\ GenInv' /\ AckedKept' /\ SlotInv'
      <3>1. \A x : Published(x)' = Published(x)
        BY <1>1, Zenon DEF Published
      <3>2. \A o \in Entry : Live(o)' = Live(o) /\ Unpublished(o)' = Unpublished(o)
        BY <1>1, Zenon DEF Live, Unpublished
      <3>3. WriterInv'
        BY <1>1, <3>1, <3>2, Parts, Zenon DEF WriterInv
      <3>4. GenInv' /\ AckedKept'
        BY <1>1, <3>1, <3>2, Parts, Zenon DEF GenInv, AckedKept
      <3> QED BY <1>1, <3>3, <3>4, Zenon DEF SlotInv
    <2>12. Sound(latest)' /\ Sound(handle)'
      <3>1. \A d \in Version : Sound(d) => Sound(d)'
        BY <1>1, <2>2, SoundStays, SMTT(30)
      <3> QED BY <1>1, <2>2, <3>1, Parts, Zenon
    <2>13. \A u \in Task : TaskInv(task[u])'
      <3> TAKE u \in Task
      <3>1. PICK x \in TaskState : x = task'[u]
        BY <2>6, Zenon
      <3>2. CASE u = t
        <4>1. x.pc = "take" /\ x.entry = slot
          BY <2>3, <2>5, <3>1, <3>2, Zenon
        <4>2. CloserInv(x)'
          BY <1>1, <1>3, <2>2, <4>1, Zenon DEF CloserInv
        <4>3. TaskInv(x)'
          BY <4>1, <4>2, Zenon DEF TaskInv, UpsertInv, VersionInv, ReaderInv, UpsertPcs,
             HoldsVersion, Reading
        <4> QED BY <3>1, <4>3, Zenon
      <3>3. CASE u # t
        <4>1. PICK y \in TaskState : y = task[u]
          BY <2>2, Zenon
        <4>2. TaskInv(y) /\ x.pc = y.pc
          BY <2>4, <3>1, <3>3, <4>1, Parts, Zenon
        <4>3. CloserInv(x)'
          <5>1. x.pc \in Closing => x = y /\ x.entry \in Entry
            BY <2>8, <3>1, <3>3, <4>1, <4>2, TaskShapes, Zenon DEF CloseState
          <5> QED BY <1>1, <4>2, <5>1, MemWalAssumption, Zenon DEF TaskInv, CloserInv, Closing, NoEntry
        <4>4. UpsertInv(x)'
          <5>1. x.pc \in UpsertPcs => x = y
            BY <2>8, <3>1, <3>3, <4>1, <4>2, Zenon
          <5> QED BY <1>1, <4>2, <5>1, Zenon DEF TaskInv, UpsertInv
        <4>5. CASE y.pc \notin Reading
          <5>1. x = y
            BY <2>4, <3>1, <3>3, <4>1, <4>5, ZenonT(40)
          <5>2. VersionInv(x)'
            <6> SUFFICES ASSUME x.pc \in HoldsVersion PROVE Sound(x.ds)'
              BY Zenon DEF VersionInv
            <6>1. x.ds \in Version
              BY TaskShapes, Zenon DEF HoldsVersion, UpsertState, IndexState, FenceState, ReadState
            <6> QED BY <1>1, <2>2, <4>2, <5>1, <6>1, SoundStays, SMTT(30) DEF TaskInv, VersionInv
          <5>3. TaskInv(x)'
            BY <4>2, <4>3, <4>4, <4>5, <5>1, <5>2, ZenonT(40) DEF TaskInv, ReaderInv
          <5> QED BY <3>1, <5>3, Zenon
        <4>6. CASE y.pc \in Reading
          <5>1. y \in ReadState /\ x = [y EXCEPT !.drained = TRUE]
            BY <2>4, <3>1, <3>3, <4>1, <4>6, TaskShapes, Zenon
          <5>2. x.drained
            BY <5>1, Zenon DEF ReadState
          <5>3. /\ x.ds = y.ds /\ x.todo = y.todo /\ x.view = y.view /\ x.kind = y.kind
                /\ x.entry = y.entry /\ x.mem = y.mem /\ x.start = y.start
                /\ x.resident = y.resident /\ x.pc = y.pc /\ y.ds \in Version
            BY <5>1, Zenon DEF ReadState
          <5>4. Sound(y.ds) /\ ReaderInv(y)
            BY <4>2, <4>6, Zenon DEF TaskInv, VersionInv, HoldsVersion
          <5>5. VersionInv(x)'
            BY <1>1, <2>2, <5>3, <5>4, SoundStays, SMTT(30) DEF VersionInv
          <5>6. \A z : OldFound(y, z) => OldFound(x, z)'
            BY <1>1, <5>3, Zenon DEF OldFound
          <5>7. ReaderInv(x)'
            BY <1>1, <4>6, <5>2, <5>3, <5>4, <5>6, Zenon DEF ReaderInv
          <5>8. TaskInv(x)'
            BY <4>3, <4>4, <4>6, <5>3, <5>5, <5>7, Zenon DEF TaskInv, Reading
          <5> QED BY <3>1, <5>8, Zenon
        <4> QED BY <4>5, <4>6, Zenon
      <3> QED BY <3>2, <3>3, Zenon
    <2> QED BY <2>7, <2>9, <2>10, <2>11, <2>12, <2>13, Whole, Zenon
  <1> QED BY <1>2, <1>3, Zenon

-----------------------------------------------------------------------------
(* Flush                                                                   *)

\* The rows of a memtable of the shard s get the next generation of the shard.
Publishes(rows, s, next) ==
    /\ rows \in SUBSET Row /\ s \in Shard /\ next \in Nat \ {0}
    /\ \A r \in rows : gen[r] = 0 /\ ShardOf[r] = s
    /\ \A r \in Published(s) : gen[r] < next
    /\ next <= 1 + Cardinality(Published(s))
    /\ gen' = [r \in Row |-> IF r \in rows THEN next ELSE gen[r]]

LEMMA NextGeneration ==
  ASSUME NumberFacts, gen \in [Row -> 0 .. Cardinality(Row)], GenInv, NEW s \in Shard
  PROVE  LET next == 1 + Max({0} \cup {gen[r] : r \in Published(s)})
         IN  /\ next \in Nat \ {0} /\ next <= 1 + Cardinality(Published(s))
             /\ \A r \in Published(s) : gen[r] < next
  <1> DEFINE S == {0} \cup {gen[r] : r \in Published(s)}
             n == Cardinality(Published(s))
  <1>1. Published(s) \in SUBSET Row
    BY Zenon DEF Published
  <1>2. n \in Nat
    BY <1>1, Zenon DEF NumberFacts
  <1>3. \A r \in Published(s) : gen[r] \in Nat /\ gen[r] <= n
    BY <1>1, SMTT(30) DEF GenInv
  <1>4. S \in SUBSET Nat /\ S # {} /\ \A x \in S : x <= n
    BY <1>2, <1>3, SMTT(30)
  <1>5. \A r \in Published(s) : gen[r] \in S
    BY Zenon
  <1> HIDE DEF S, n
  <1>6. Max(S) \in S /\ \A x \in S : x <= Max(S)
    BY <1>2, <1>4, Zenon DEF NumberFacts
  <1>7. Max(S) \in Nat /\ Max(S) <= n
    BY <1>4, <1>6, Zenon
  <1>8. \A r \in Published(s) : gen[r] < 1 + Max(S)
    BY <1>3, <1>5, <1>6, <1>7, SMTT(30)
  <1>9. 1 + Max(S) \in Nat \ {0} /\ 1 + Max(S) <= 1 + n
    BY <1>2, <1>7, SMTT(30)
  <1> QED BY <1>8, <1>9, Zenon DEF S, n

LEMMA PublishedSets ==
  ASSUME gen \in [Row -> 0 .. Cardinality(Row)], NEW rows, NEW s, NEW next,
         Publishes(rows, s, next)
  PROVE  /\ Published(s)' = Published(s) \cup rows
         /\ \A x \in Shard : x # s => Published(x)' = Published(x)
         /\ \A r \in Row : gen[r] > 0 => gen'[r] = gen[r] /\ r \notin rows
         /\ \A r \in Row : r \notin rows => gen'[r] = gen[r]
         /\ \A r \in rows : gen'[r] = next /\ gen'[r] > 0
  <1>1. \A r \in Row : gen[r] \in Nat
    BY SMTT(30)
  <1>2. /\ \A r \in Row : r \notin rows => gen'[r] = gen[r]
        /\ \A r \in rows : r \in Row /\ gen'[r] = next /\ gen'[r] > 0 /\ gen[r] = 0
    BY SMTT(30) DEF Publishes
  <1>3. \A r \in Row : gen[r] > 0 => gen'[r] = gen[r] /\ r \notin rows
    BY <1>1, <1>2, SMTT(30)
  <1>4. Published(s)' = Published(s) \cup rows
    BY <1>2, <1>3, Zenon DEF Publishes, Published
  <1>5. \A x \in Shard : x # s => Published(x)' = Published(x)
    BY <1>2, <1>3, Zenon DEF Publishes, Published
  <1> QED BY <1>2, <1>3, <1>4, <1>5, Zenon

\* A shard never has more generations than rows.
LEMMA PublishedBound ==
  ASSUME NumberFacts, gen \in [Row -> 0 .. Cardinality(Row)], GenInv,
         NEW rows, NEW s, NEW next, Publishes(rows, s, next)
  PROVE  gen' \in [Row -> 0 .. Cardinality(Row)] /\ GenInv'
  <1> DEFINE Count(x) == Cardinality(Published(x))
             CountNext(x) == Cardinality(Published(x)')
  <1>1. /\ s \in Shard /\ rows \in SUBSET Row /\ next \in Nat /\ next <= 1 + Count(s)
        /\ \A r \in rows : gen[r] = 0
    BY Zenon DEF Publishes
  <1>2. /\ Published(s)' = Published(s) \cup rows
        /\ \A x \in Shard : x # s => Published(x)' = Published(x)
        /\ \A r \in Row : gen[r] > 0 => gen'[r] = gen[r] /\ r \notin rows
        /\ \A r \in Row : r \notin rows => gen'[r] = gen[r]
        /\ \A r \in rows : gen'[r] = next
    BY PublishedSets, Zenon
  <1>3. \A x : Published(x) \in SUBSET Row /\ Published(x)' \in SUBSET Row
    BY Zenon DEF Published
  <1>4. \A x : Count(x) \in Nat /\ CountNext(x) \in Nat /\ CountNext(x) <= Cardinality(Row)
    BY <1>3, Zenon DEF NumberFacts
  <1>5. Cardinality(Row) \in Nat
    BY Zenon DEF NumberFacts
  <1>6. Count(s) <= CountNext(s)
    BY <1>2, <1>3, Zenon DEF NumberFacts
  <1>7. ASSUME NEW r \in rows PROVE CountNext(s) >= 1 + Count(s)
    <2>1. r \in Row \ Published(s)
      BY <1>1, SMTT(30) DEF Published
    <2>2. Cardinality(Published(s) \cup {r}) = Count(s) + 1
      BY <1>3, <2>1, Zenon DEF NumberFacts
    <2>3. Published(s) \cup {r} \in SUBSET Published(s)'
      BY <1>2, Zenon
    <2>4. Cardinality(Published(s) \cup {r}) <= CountNext(s)
      BY <1>3, <2>3, Zenon DEF NumberFacts
    <2> QED BY <1>4, <2>2, <2>4, SMTT(30)
  <1>8. GenInv'
    <2> SUFFICES ASSUME NEW x \in Shard, NEW r \in Published(x)'
                 PROVE  gen'[r] <= CountNext(x)
      BY Zenon DEF GenInv
    <2> HIDE DEF Count, CountNext
    <2>1. CASE x = s /\ r \in rows
      BY <1>1, <1>2, <1>4, <1>7, <2>1, SMTT(30)
    <2>2. CASE ~(x = s /\ r \in rows)
      <3>1. r \in Published(x) /\ gen'[r] = gen[r]
        BY <1>2, <1>3, <2>2, Zenon DEF Published
      <3>2. gen[r] <= Count(x) /\ gen[r] \in Nat
        BY <1>3, <3>1, SMTT(30) DEF GenInv, Count
      <3>3. Count(x) <= CountNext(x)
        BY <1>2, <1>4, <1>6, SMTT(30) DEF Count, CountNext
      <3>4. Count(x) \in Nat /\ CountNext(x) \in Nat
        BY <1>4, Zenon
      <3> QED BY <3>1, <3>2, <3>3, <3>4, SMTT(30)
    <2> QED BY <2>1, <2>2, Zenon
  <1>9. \A r \in Row : gen'[r] \in 0 .. Cardinality(Row)
    <2> SUFFICES ASSUME NEW r \in Row PROVE gen'[r] \in 0 .. Cardinality(Row)
      BY Zenon
    <2>1. CASE r \in rows
      <3>1. CountNext(s) \in Nat /\ Count(s) \in Nat /\ CountNext(s) <= Cardinality(Row)
        BY <1>4, Zenon
      <3>2. CountNext(s) >= 1 + Count(s)
        BY <1>7, <2>1, Zenon
      <3>3. gen'[r] = next /\ next \in Nat /\ next <= 1 + Count(s)
        BY <1>1, <1>2, <2>1, Zenon
      <3> HIDE DEF Count, CountNext
      <3> QED BY <1>5, <3>1, <3>2, <3>3, SMTT(30)
    <2>2. CASE r \notin rows
      BY <1>2, <2>2, Zenon
    <2> QED BY <2>1, <2>2, Zenon
  <1> QED BY <1>8, <1>9, Zenon DEF Publishes

\* A new generation is above what any version has compacted.
LEMMA PublishSound ==
  ASSUME gen \in [Row -> 0 .. Cardinality(Row)], NEW rows, NEW s, NEW next,
         Publishes(rows, s, next), NEW d \in Version, Sound(d), latest' = latest
  PROVE  Sound(d)' /\ next > d.compacted[s]
  <1>1. /\ Published(s)' = Published(s) \cup rows
        /\ \A x \in Shard : x # s => Published(x)' = Published(x)
        /\ \A r \in Row : gen[r] > 0 => gen'[r] = gen[r] /\ r \notin rows
        /\ \A r \in Row : r \notin rows => gen'[r] = gen[r]
        /\ \A r \in rows : gen'[r] = next /\ gen'[r] > 0
    BY PublishedSets, Zenon
  <1>2. \A r \in Row : gen[r] \in Nat
    BY SMTT(30)
  <1>3. d.compacted \in [Shard -> Nat] /\ s \in Shard /\ next \in Nat \ {0}
    BY Zenon DEF Version, Publishes
  <1>4. next > d.compacted[s]
    <2>1. CASE d.compacted[s] = 0
      BY <1>3, <2>1, SMTT(30)
    <2>2. CASE d.compacted[s] # 0
      <3>1. PICK r \in Published(s) : gen[r] >= d.compacted[s]
        BY <1>3, <2>2, Zenon DEF Sound
      <3>2. gen[r] < next /\ r \in Row
        BY <3>1, Zenon DEF Publishes, Published
      <3> QED BY <1>2, <1>3, <3>1, <3>2, SMTT(30)
    <2> QED BY <2>1, <2>2, Zenon
  <1>5. \A x \in Shard : d.compacted[x] = 0 \/ \E r \in Published(x)' : gen'[r] >= d.compacted[x]
    <2> TAKE x \in Shard
    <2>1. CASE d.compacted[x] # 0
      <3>1. PICK r \in Published(x) : gen[r] >= d.compacted[x]
        BY <2>1, Zenon DEF Sound
      <3>2. gen'[r] = gen[r] /\ r \in Published(x)'
        BY <1>1, <3>1, Zenon DEF Published
      <3> QED BY <3>1, <3>2, Zenon
    <2> QED BY <2>1, Zenon
  <1>6. \A r \in rows : ~(gen'[r] \in 1 .. d.compacted[ShardOf[r]])
    BY <1>1, <1>3, <1>4, SMTT(30) DEF Publishes
  <1>7. \A r \in Row : gen'[r] \in 1 .. d.compacted[ShardOf[r]] => gen'[r] = gen[r]
    BY <1>1, <1>6, Zenon
  <1> QED BY <1>4, <1>5, <1>7, Zenon DEF Sound

\* What a task relies on survives a flush of the live writer e.
LEMMA FlushedTask ==
  ASSUME gen \in [Row -> 0 .. Cardinality(Row)], GenInv, WriterInv, slot \in Entry \cup {NoEntry},
         NEW rows, NEW s, NEW next, Publishes(rows, s, next), latest' = latest, slot' = slot,
         NEW e \in Entry, rows \subseteq RowsOf(writer[e].mem),
         \A o \in Entry :
            /\ writer'[o].state = writer[o].state /\ writer'[o].shard = writer[o].shard
            /\ RowsOf(writer'[o].mem) \subseteq RowsOf(writer[o].mem)
            /\ RowsOf(writer[o].mem) \cup writer[o].manifest
                  \subseteq RowsOf(writer'[o].mem) \cup writer'[o].manifest
            /\ writer[o].manifest \subseteq writer'[o].manifest,
         NEW v \in TaskState, TaskInv(v)
  PROVE  TaskInv(v)'
  <1>1. /\ \A r \in Row : gen[r] > 0 => gen'[r] = gen[r] /\ r \notin rows
        /\ \A r \in Row : r \notin rows => gen'[r] = gen[r]
        /\ \A r \in rows : gen'[r] = next
    BY PublishedSets, SMTT(30)
  <1>2. CloserInv(v)'
    <2>1. v.pc \in Closing => v.entry \in Entry
      BY TaskShapes, Zenon DEF CloseState
    <2> QED BY <2>1, Zenon DEF TaskInv, CloserInv, Closing
  <1>3. UpsertInv(v)'
    <2>1. v.pc = "put" => v.entry \in Entry
      BY TaskShapes, Zenon DEF PutState
    <2>2. v.pc \in UpsertPcs => v.row \in Row
      BY TaskShapes, Zenon DEF PutState, UpsertState, UpsertPcs
    <2>3. v.pc \in UpsertPcs => v.row \notin rows
      BY Zenon DEF TaskInv, UpsertInv
    <2> QED BY <1>1, <2>1, <2>2, <2>3, Zenon DEF TaskInv, UpsertInv
  <1>4. VersionInv(v)'
    <2> SUFFICES ASSUME v.pc \in HoldsVersion PROVE Sound(v.ds)'
      BY Zenon DEF VersionInv
    <2>1. v.ds \in Version
      BY TaskShapes, Zenon DEF HoldsVersion, UpsertState, IndexState, FenceState, ReadState
    <2>2. Sound(v.ds)
      BY Zenon DEF TaskInv, VersionInv
    <2> QED BY <2>1, <2>2, PublishSound, Zenon
  <1>5. ReaderInv(v)'
    <2> SUFFICES ASSUME v.pc \in Reading PROVE ReaderInv(v)'
      BY Zenon DEF ReaderInv
    <2>1. /\ v \in ReadState /\ ReaderInv(v) /\ Sound(v.ds)
      BY TaskShapes, Zenon DEF TaskInv, VersionInv, HoldsVersion
    <2>2. /\ v.ds \in Version /\ v.entry \in Entry \cup {NoEntry} /\ v.start \in SUBSET Row
          /\ v.resident \in SUBSET Row
      BY <2>1, Zenon DEF ReadState
    <2>3. v.pc \in {"memtables", "manifest"} => v.entry \in Entry
      BY <2>1, <2>2, Zenon DEF ReaderInv
    <2>4. \A x \in Row : OldFound(v, x) => OldFound(v, x)'
      BY <1>1, <2>3, Zenon DEF OldFound
    <2>5. \A x \in Row : ResidentFound(v, x) => ResidentFound(v, x)'
      <3> SUFFICES ASSUME NEW x \in Row, ResidentFound(v, x) PROVE ResidentFound(v, x)'
        BY Zenon
      <3>1. slot \in Entry
        BY Zenon DEF ResidentFound
      <3> QED BY <3>1, Zenon DEF ResidentFound
    <2>6. \A x \in v.resident : gen'[x] = 0 \/ gen'[x] > v.ds.compacted[ShardOf[x]]
      <3> TAKE x \in v.resident
      <3>1. CASE x \in rows
        BY <1>1, <2>1, <2>2, <3>1, PublishSound, ZenonT(40) DEF Publishes
      <3>2. CASE x \notin rows
        BY <1>1, <2>1, <2>2, <3>2, Zenon DEF ReaderInv
      <3> QED BY <3>1, <3>2, Zenon
    <2>7. v.pc \in {"memtables", "manifest"} =>
             /\ v.entry # NoEntry /\ writer'[v.entry].state # "unused"
             /\ ~v.drained => v.entry = slot'
      BY <2>1, <2>3, Zenon DEF ReaderInv
    <2>8. \A x \in v.start \ v.resident : OldFound(v, x)'
      BY <2>1, <2>2, <2>4, Zenon DEF ReaderInv
    <2>9. ~v.drained => \A x \in v.start \cap v.resident : ResidentFound(v, x)'
      BY <2>1, <2>2, <2>5, Zenon DEF ReaderInv
    <2> QED BY <2>1, <2>6, <2>7, <2>8, <2>9, Zenon DEF ReaderInv
  <1> QED BY <1>2, <1>3, <1>4, <1>5, Zenon DEF TaskInv

LEMMA FlushStep ==
  ASSUME NumberFacts, WalInv, NEW e \in Entry, Flush(e)
  PROVE  WalInv'
  <1>1. PICK s, rows, next :
          /\ s = writer[e].shard /\ rows = Head(writer[e].mem).rows
          /\ next = 1 + Max({0} \cup {gen[r] : r \in Published(s)})
    BY Zenon
  <1>2. /\ UNCHANGED <<latest, handle, slot, slotLock, task, acked, ops>>
        /\ ~writer[e].fenced /\ writer[e].mem # << >>
        /\ writer[e].state = "taken" \/ (writer[e].state = "open" /\ Len(writer[e].mem) > 1)
        /\ gen' = [r \in Row |-> IF r \in rows THEN next ELSE gen[r]]
        /\ writer' = [writer EXCEPT ![e].mem = Tail(@), ![e].manifest = @ \cup rows]
    BY <1>1, Zenon DEF Flush
  <1>3. /\ gen \in [Row -> 0 .. Cardinality(Row)] /\ GenInv /\ WriterInv
        /\ writer \in [Entry -> Writer] /\ writer[e] \in Writer
        /\ slot \in Entry \cup {NoEntry}
        /\ latest \in Version /\ handle \in Version
    BY Parts, Zenon DEF TypeOK
  <1>4. Live(e)
    BY <1>2, Zenon DEF Live
  <1>5. /\ writer[e].mem \in Seq(Memtable) /\ s \in Shard /\ writer[e].manifest \in SUBSET Row
    BY <1>1, <1>3, Zenon DEF Writer
  <1>6. /\ Tail(writer[e].mem) \in Seq(Memtable) /\ rows \in SUBSET Row
        /\ Len(writer[e].mem) > 1 => Tail(writer[e].mem) # << >>
        /\ RowsOf(writer[e].mem) = RowsOf(Tail(writer[e].mem)) \cup rows
        /\ Disjoint(Tail(writer[e].mem)) /\ rows \cap RowsOf(Tail(writer[e].mem)) = {}
    <2>1. Disjoint(writer[e].mem)
      BY <1>3, <1>4, Zenon DEF WriterInv
    <2> QED BY <1>1, <1>2, <1>5, <2>1, HeadAndTail, Zenon DEF Memtable
  <1>7. Publishes(rows, s, next)
    <2>1. \A r \in rows : gen[r] = 0 /\ ShardOf[r] = s
      BY <1>1, <1>3, <1>4, <1>6, Zenon DEF WriterInv
    <2>2. /\ next \in Nat \ {0} /\ next <= 1 + Cardinality(Published(s))
          /\ \A r \in Published(s) : gen[r] < next
      BY <1>1, <1>3, <1>5, NextGeneration, Zenon
    <2> QED BY <1>2, <1>5, <1>6, <2>1, <2>2, Zenon DEF Publishes
  <1>8. /\ Published(s)' = Published(s) \cup rows
        /\ \A x \in Shard : x # s => Published(x)' = Published(x)
        /\ \A r \in Row : gen[r] > 0 => gen'[r] = gen[r] /\ r \notin rows
        /\ \A r \in Row : r \notin rows => gen'[r] = gen[r]
        /\ \A r \in rows : gen'[r] = next /\ gen'[r] > 0
        /\ gen' \in [Row -> 0 .. Cardinality(Row)] /\ GenInv'
    BY <1>3, <1>7, PublishedSets, PublishedBound, Zenon
  <1> DEFINE w == [writer[e] EXCEPT !.mem = Tail(writer[e].mem),
                                    !.manifest = writer[e].manifest \cup rows]
  <1>9. writer' = [writer EXCEPT ![e] = w]
    BY <1>2, <1>3, Zenon
  <1>10. /\ w \in Writer /\ w.state = writer[e].state /\ w.shard = s
         /\ w.mem = Tail(writer[e].mem) /\ w.manifest = writer[e].manifest \cup rows
    BY <1>1, <1>3, <1>5, <1>6, Zenon DEF Writer
  <1>11. w.fenced = writer[e].fenced
    BY <1>3, Zenon DEF Writer
  <1> HIDE DEF w
  <1>12. /\ writer' \in [Entry -> Writer]
         /\ \A o \in Entry : writer'[o] = IF o = e THEN w ELSE writer[o]
    BY <1>3, <1>9, <1>10, Zenon
  <1>13. \A o \in Entry :
            /\ writer'[o].state = writer[o].state /\ writer'[o].shard = writer[o].shard
            /\ writer'[o].fenced = writer[o].fenced
            /\ RowsOf(writer'[o].mem) \subseteq RowsOf(writer[o].mem)
            /\ RowsOf(writer[o].mem) \cup writer[o].manifest
                  \subseteq RowsOf(writer'[o].mem) \cup writer'[o].manifest
            /\ writer[o].manifest \subseteq writer'[o].manifest
    BY <1>1, <1>6, <1>10, <1>11, <1>12, Zenon
  <1>14. \A o \in Entry : Live(o)' <=> Live(o)
    BY <1>13, Zenon DEF Live
  <1>15. WriterInv'
    <2> SUFFICES ASSUME NEW o \in Entry
                 PROVE  /\ writer'[o].state = "open" => writer'[o].mem # << >>
                        /\ \A r \in RowsOf(writer'[o].mem) : ShardOf[r] = writer'[o].shard
                        /\ Live(o)' =>
                             /\ writer'[o].manifest = Published(writer[o].shard)'
                             /\ \A r \in RowsOf(writer'[o].mem) : gen'[r] = 0
                             /\ Disjoint(writer'[o].mem)
                             /\ \A x \in Entry \ {o} : Live(x)' => writer'[x].shard # writer'[o].shard
      BY Zenon DEF WriterInv
    <2>1. \A r \in RowsOf(writer'[o].mem) : ShardOf[r] = writer'[o].shard
      BY <1>3, <1>13, ZenonT(40) DEF WriterInv
    <2>2. Live(o)' => \A x \in Entry \ {o} : Live(x)' => writer'[x].shard # writer'[o].shard
      BY <1>3, <1>13, <1>14, SMTT(30) DEF WriterInv
    <2>3. PICK z : z = writer[o].shard
      BY Zenon
    <2>4. Published(writer[o].shard)' = Published(z)'
      BY <1>13, <2>3, Zenon DEF Published
    <2>5. RowsOf(writer'[o].mem) \in SUBSET Row /\ z \in Shard
      <3>1. writer'[o] \in Writer
        BY <1>12, Zenon
      <3> QED BY <1>3, <2>3, <3>1, RowsInRow, Zenon DEF Writer
    <2>6. CASE o = e
      <3>1. writer'[o].manifest = Published(z)'
        BY <1>1, <1>3, <1>4, <1>8, <1>10, <1>12, <2>3, <2>6, ZenonT(40) DEF WriterInv
      <3>2. \A r \in RowsOf(writer'[o].mem) : gen'[r] = 0
        BY <1>3, <1>4, <1>6, <1>8, <1>10, <1>12, <2>5, <2>6, Zenon DEF WriterInv
      <3>3. writer'[o].state = "open" => writer'[o].mem # << >>
        BY <1>2, <1>6, <1>10, <1>12, <2>6, Zenon
      <3>4. Disjoint(writer'[o].mem)
        BY <1>6, <1>10, <1>12, <2>6, Zenon
      <3> QED BY <2>1, <2>2, <2>4, <3>1, <3>2, <3>3, <3>4, Zenon
    <2>7. CASE o # e
      <3>1. writer'[o] = writer[o]
        BY <1>12, <2>7, Zenon
      <3>2. Live(o) => z # s
        BY <1>1, <1>3, <1>4, <2>3, <2>7, Zenon DEF WriterInv
      <3>3. Live(o) => writer'[o].manifest = Published(z)'
        BY <1>3, <1>8, <2>3, <2>5, <3>1, <3>2, Zenon DEF WriterInv
      <3>4. Live(o) => \A r \in RowsOf(writer'[o].mem) : r \notin rows
        BY <1>7, <2>1, <2>3, <3>1, <3>2, Zenon DEF Publishes
      <3>5. Live(o) => \A r \in RowsOf(writer'[o].mem) : gen'[r] = 0
        BY <1>3, <1>8, <2>5, <3>1, <3>4, Zenon DEF WriterInv
      <3> QED BY <1>3, <1>14, <2>1, <2>2, <2>4, <3>1, <3>3, <3>5, ZenonT(40) DEF WriterInv
    <2> QED BY <2>6, <2>7, Zenon
  <1>16. SlotInv'
    BY <1>2, <1>3, <1>13, <1>14, Parts, Zenon DEF SlotInv, Live
  <1>17. Sound(latest)' /\ Sound(handle)'
    <2>1. \A d \in Version : Sound(d) => Sound(d)'
      BY <1>2, <1>3, <1>7, PublishSound, Zenon
    <2> QED BY <1>2, <1>3, <2>1, Parts, Zenon
  <1>18. AckedKept'
    <2> SUFFICES ASSUME NEW r \in acked
                 PROVE  gen'[r] > 0 \/ \E o \in Entry : r \in Unpublished(o)'
      BY <1>2, Zenon DEF AckedKept
    <2>1. r \in Row
      BY Parts, Zenon DEF TypeOK
    <2>2. CASE gen[r] > 0
      BY <1>8, <2>1, <2>2, Zenon
    <2>3. CASE r \in rows
      BY <1>8, <2>3, Zenon
    <2>4. CASE ~(gen[r] > 0) /\ r \notin rows
      <3>1. PICK o \in Entry : r \in Unpublished(o)
        BY <2>4, Parts, Zenon DEF AckedKept
      <3>2. r \in RowsOf(writer'[o].mem)
        BY <1>6, <1>10, <1>12, <2>4, <3>1, Zenon DEF Unpublished
      <3>3. r \in Unpublished(o)'
        BY <1>13, <3>1, <3>2, Zenon DEF Unpublished
      <3> QED BY <3>3, Zenon
    <2> QED BY <2>2, <2>3, <2>4, Zenon
  <1>19. WritersOwned'
    <2>1. \A o \in Entry : \A r \in RowsOf(writer'[o].mem) : ShardOf[r] = writer'[o].shard
      BY <1>15, Zenon DEF WriterInv
    <2>2. \A o \in Entry : writer'[o].state = "open" =>
             slot' = o \/ \E u \in Task : task'[u].pc = "take" /\ task'[u].entry = o
      <3> SUFFICES ASSUME NEW o \in Entry, writer'[o].state = "open"
                   PROVE  \/ slot' = o
                          \/ \E u \in Task : task'[u].pc = "take" /\ task'[u].entry = o
        BY Zenon
      <3>1. slot = o \/ \E u \in Task : task[u].pc = "take" /\ task[u].entry = o
        BY <1>13, Parts, Zenon DEF WritersOwned
      <3> QED BY <1>2, <3>1, Zenon
    <2> QED BY <2>1, <2>2, Zenon DEF WritersOwned
  <1>20. TypeOK' /\ TasksApart'
    BY <1>2, <1>8, <1>12, Parts, Zenon DEF TypeOK, TasksApart
  <1>21. \A u \in Task : TaskInv(task[u])'
    <2> TAKE u \in Task
    <2>1. PICK x \in TaskState : x = task[u] /\ TaskInv(x)
      BY Parts, Zenon DEF TypeOK
    <2>2. rows \subseteq RowsOf(writer[e].mem) /\ latest' = latest /\ slot' = slot
      BY <1>2, <1>6, Zenon
    <2>3. TaskInv(x)'
      BY <1>3, <1>7, <1>13, <2>1, <2>2, FlushedTask, Zenon
    <2>4. x = task'[u]
      BY <1>2, <2>1, Zenon
    <2> QED BY <2>3, <2>4, Zenon
  <1> QED BY <1>8, <1>15, <1>16, <1>17, <1>18, <1>19, <1>20, <1>21, Whole, Zenon

-----------------------------------------------------------------------------
(* Reads                                                                   *)

\* exclusion_watermarks leaves to the base table no more than was compacted,
\* and to the index no more than it caught up with.
LEMMA WatermarkFacts ==
  ASSUME NEW d \in Version, NEW kind, NEW s \in Shard
  PROVE  /\ Watermark(d, kind, s) \in Nat /\ Watermark(d, kind, s) <= d.compacted[s]
         /\ kind # "plain" /\ Maintained(d) =>
              Watermark(d, kind, s) = 0 \/ Watermark(d, kind, s) <= d.caughtUp[s]
  <1> DEFINE a == d.compacted[s]
             b == d.caughtUp[s]
  <1>1. a \in Nat /\ b \in Nat \cup {NoCatchUp}
    BY Zenon DEF Version
  <1>2. CASE kind # "plain" /\ Maintained(d) /\ b # NoCatchUp
    <2>1. a \in Nat /\ b \in Nat
      BY <1>1, <1>2, Zenon
    <2>2. Min({a, b}) \in {a, b} /\ Min({a, b}) <= a /\ Min({a, b}) <= b
      <3>1. \E x \in {a, b} : \A y \in {a, b} : x <= y
        BY <2>1, SMTT(30)
      <3> QED BY <2>1, <3>1, Zenon DEF Min
    <2>3. Watermark(d, kind, s) = Min({a, b})
      BY <1>2, Zenon DEF Watermark
    <2> QED BY <2>1, <2>2, <2>3, Zenon
  <1>3. CASE kind # "plain" /\ Maintained(d) /\ b = NoCatchUp
    BY <1>1, <1>3, SMTT(30) DEF Watermark
  <1>4. CASE ~(kind # "plain" /\ Maintained(d))
    BY <1>1, <1>4, SMTT(30) DEF Watermark
  <1> QED BY <1>2, <1>3, <1>4, Zenon

\* A step of a read.
LEMMA ReadingStep ==
  ASSUME WalInv, NEW t \in Task, NEW v \in TaskState, Goto(t, v), VersionInv(v), ReaderInv(v),
         v.pc = "answered" => v.missed = {},
         UNCHANGED <<latest, handle, gen, writer, slot, slotLock, acked>>,
         ops' \in 0 .. MaxOps, task[t].pc \in Reading \cup {"idle", "answered"},
         v.pc \in Reading \cup {"idle", "answered"}
  PROVE  WalInv'
  <1>1. TaskInv(v)
    BY Zenon DEF TaskInv, CloserInv, UpsertInv, UpsertPcs, Reading
  <1> QED BY <1>1, QuietStep, Zenon DEF Closing, UpsertPcs, Reading

LEMMA ReadBegins ==
  ASSUME WalInv, NEW t \in Task, NEW kind \in Kinds, read(t, kind)
  PROVE  WalInv'
  <1> DEFINE res == UNION {Unpublished(e) : e \in Entry}
             dr == \E e \in Entry \ {slot} : Unpublished(e) # {}
             v == [pc |-> "manifests", kind |-> kind, ds |-> handle, todo |-> Shard,
                   view |-> [s \in Shard |-> {}], entry |-> NoEntry, mem |-> << >>,
                   start |-> acked, resident |-> res, drained |-> dr]
  <1>1. /\ UNCHANGED <<latest, handle, gen, writer, slot, slotLock, acked>>
        /\ ops' \in 0 .. MaxOps /\ task[t].pc = "idle" /\ Goto(t, v)
    BY OpsBound, Zenon DEF read
  <1>2. /\ handle \in Version /\ Sound(handle) /\ acked \in SUBSET Row
        /\ writer \in [Entry -> Writer] /\ slot \in Entry \cup {NoEntry}
    BY Parts, Zenon DEF TypeOK
  <1>3. res \in SUBSET Row
    <2>1. \A e \in Entry : Unpublished(e) \in SUBSET Row
      BY <1>2, RowsInRow, Zenon DEF Unpublished, Writer
    <2> QED BY <2>1, Zenon
  <1>4. dr \in BOOLEAN
    BY Zenon
  <1>5. ~dr => \A x \in res : slot \in Entry /\ x \in Unpublished(slot)
    BY Zenon
  <1>6. \A x \in res : \E e \in Entry : x \in Unpublished(e)
    BY Zenon
  <1>7. \A x \in acked \ res : \A e \in Entry : x \notin Unpublished(e)
    BY Zenon
  <1> HIDE DEF res, dr
  <1>8. [s \in Shard |-> {}] \in [Shard -> SUBSET Row] /\ << >> \in Seq(Memtable)
    BY SMTT(30)
  <1>9. v \in ReadState
    BY <1>2, <1>3, <1>4, <1>8, Zenon DEF ReadState
  <1>10. v.drained <=> dr
    BY Zenon
  <1>11. /\ v.pc = "manifests" /\ v.kind = kind /\ v.ds = handle /\ v.todo = Shard
         /\ v.start = acked /\ v.resident = res
    BY Zenon
  <1> HIDE DEF v
  <1>12. \A x \in res : gen[x] = 0
    BY <1>6, Parts, Zenon DEF Unpublished, WriterInv, Live
  <1>13. \A x \in acked \ res : OldFound(v, x)
    <2> TAKE x \in acked \ res
    <2>1. gen[x] > 0
      BY <1>7, Parts, Zenon DEF AckedKept
    <2>2. ShardOf[x] \in Shard
      BY <1>2, MemWalAssumption, Zenon
    <2> QED BY <1>11, <2>1, <2>2, Zenon DEF OldFound
  <1>14. ASSUME ~dr, NEW x \in res PROVE ResidentFound(v, x)
    <2>1. slot \in Entry /\ x \in Unpublished(slot)
      BY <1>5, <1>14, Zenon
    <2>2. x \in RowsOf(writer[slot].mem)
      BY <2>1, Zenon DEF Unpublished
    <2>3. writer[slot].shard = ShardOf[x]
      BY <2>1, <2>2, Parts, Zenon DEF WriterInv
    <2>4. slot # NoEntry
      BY <2>1, MemWalAssumption, Zenon DEF NoEntry
    <2> QED BY <1>11, <2>2, <2>3, <2>4, Zenon DEF ResidentFound
  <1>15. ReaderInv(v)
    BY <1>10, <1>11, <1>12, <1>13, <1>14, Zenon DEF ReaderInv
  <1>16. VersionInv(v) /\ v \in TaskState
    BY <1>2, <1>9, <1>11, Zenon DEF VersionInv, TaskState
  <1> QED BY <1>1, <1>11, <1>15, <1>16, ReadingStep, Zenon DEF Reading

\* What a read under way carries.
LEMMA ReadTask ==
  ASSUME WalInv, NEW t \in Task, task[t].pc \in Reading
  PROVE  /\ task[t] \in ReadState /\ ReaderInv(task[t]) /\ Sound(task[t].ds)
         /\ task[t].ds \in Version /\ task[t].start \in SUBSET Row
         /\ task[t].resident \in SUBSET Row /\ task[t].view \in [Shard -> SUBSET Row]
         /\ task[t].entry \in Entry \cup {NoEntry} /\ task[t].mem \in Seq(Memtable)
         /\ task[t].kind \in Kinds /\ task[t].todo \in SUBSET Shard
  <1>1. task[t] \in TaskState /\ TaskInv(task[t])
    BY Parts, Zenon DEF TypeOK
  <1>2. task[t] \in ReadState
    BY <1>1, TaskShapes, Zenon
  <1>3. ReaderInv(task[t]) /\ Sound(task[t].ds)
    BY <1>1, Zenon DEF TaskInv, VersionInv, HoldsVersion
  <1> QED BY <1>2, <1>3, Zenon DEF ReadState

LEMMA ManifestsStep ==
  ASSUME WalInv, NEW t \in Task, ReadManifests(t)
  PROVE  WalInv'
  <1>1. /\ UNCHANGED <<latest, handle, gen, writer, slot, slotLock, acked>>
        /\ ops' \in 0 .. MaxOps /\ task[t].pc = "manifests" /\ task[t].pc \in Reading
    BY OpsBound, Zenon DEF ReadManifests, Reading
  <1> DEFINE r == task[t]
  <1>2. /\ r \in ReadState /\ ReaderInv(r) /\ Sound(r.ds) /\ r.ds \in Version
        /\ r.start \in SUBSET Row /\ r.resident \in SUBSET Row
        /\ r.view \in [Shard -> SUBSET Row] /\ r.todo \in SUBSET Shard
    BY <1>1, ReadTask, Zenon
  <1>3. CASE r.todo = {}
    <2> DEFINE v == [r EXCEPT !.pc = "slot"]
    <2>1. Goto(t, v)
      BY <1>3, Zenon DEF ReadManifests, Move, Goto
    <2>2. v \in ReadState /\ v.pc = "slot" /\ v.ds = r.ds /\ v.todo = r.todo /\ v.view = r.view
          /\ v.kind = r.kind /\ v.start = r.start /\ v.resident = r.resident
      BY <1>2, Zenon DEF ReadState
    <2>3. v.drained = r.drained
      BY <1>2, Zenon DEF ReadState
    <2> HIDE DEF v, r
    <2>4. \A x : OldFound(r, x) => OldFound(v, x)
      BY <2>2, Zenon DEF OldFound
    <2>5. \A x : ResidentFound(r, x) => ResidentFound(v, x)
      BY <2>2, Zenon DEF ResidentFound
    <2>6. r.pc \in Reading
      BY <1>1, Zenon DEF r
    <2>7. ReaderInv(v)
      BY <1>2, <1>3, <2>2, <2>3, <2>4, <2>5, <2>6, Zenon DEF ReaderInv
    <2>8. VersionInv(v) /\ v \in TaskState
      BY <1>2, <2>2, Zenon DEF VersionInv, TaskState
    <2> QED BY <1>1, <2>1, <2>2, <2>7, <2>8, ReadingStep, Zenon DEF Reading
  <1>4. CASE r.todo # {}
    <2>1. PICK s \in r.todo :
             Goto(t, [r EXCEPT !.todo = @ \ {s},
                               !.view[s] = Snapshot(s, Published(s), r.ds, r.kind)])
      BY <1>4, Zenon DEF ReadManifests
    <2> DEFINE snap == Snapshot(s, Published(s), r.ds, r.kind)
               view == [r.view EXCEPT ![s] = snap]
               v == [r EXCEPT !.todo = r.todo \ {s}, !.view = view]
    <2>2. Goto(t, v) /\ s \in Shard
      BY <1>2, <2>1, Zenon
    <2>3. snap \in SUBSET Row /\ \A x \in Published(s) :
             gen[x] <= Watermark(r.ds, r.kind, s) \/ x \in snap
      <3>1. Watermark(r.ds, r.kind, s) \in Nat
        BY <1>2, <2>2, WatermarkFacts, Zenon
      <3>2. \A x \in Published(s) : x \in Row /\ gen[x] \in Nat
        BY Parts, SMTT(30) DEF Published, TypeOK
      <3> QED BY <3>1, <3>2, SMTT(30) DEF Snapshot
    <2> HIDE DEF snap
    <2>4. view \in [Shard -> SUBSET Row] /\ view[s] = snap /\ \A x \in Shard \ {s} : view[x] = r.view[x]
      BY <1>2, <2>2, <2>3, Zenon
    <2> HIDE DEF view
    <2>5. v \in ReadState /\ v.pc = r.pc /\ v.ds = r.ds /\ v.todo = r.todo \ {s} /\ v.view = view
          /\ v.kind = r.kind /\ v.start = r.start /\ v.resident = r.resident
      BY <1>2, <2>4, Zenon DEF ReadState
    <2>6. v.drained = r.drained
      BY <1>2, Zenon DEF ReadState
    <2>7. r.pc = "manifests" /\ r.pc \in Reading
      BY <1>1, Zenon
    <2> HIDE DEF v, r
    <2>8. \A x \in Row : OldFound(r, x) => OldFound(v, x)
      <3> SUFFICES ASSUME NEW x \in Row, OldFound(r, x) PROVE OldFound(v, x)
        BY Zenon
      <3>1. ShardOf[x] \in Shard /\ gen[x] > 0
        BY MemWalAssumption, Zenon DEF OldFound
      <3>2. CASE ShardOf[x] = s
        <4>1. x \in Published(s)
          BY <3>1, <3>2, Zenon DEF Published
        <4> QED BY <2>3, <2>4, <2>5, <2>7, <3>1, <3>2, <4>1, Zenon DEF OldFound
      <3>3. CASE ShardOf[x] # s
        BY <2>4, <2>5, <2>7, <3>1, <3>3, Zenon DEF OldFound
      <3> QED BY <3>2, <3>3, Zenon
    <2>9. \A x : ResidentFound(r, x) => ResidentFound(v, x)
      BY <2>5, <2>7, Zenon DEF ResidentFound
    <2>10. ReaderInv(v)
      BY <1>2, <2>5, <2>6, <2>7, <2>8, <2>9, Zenon DEF ReaderInv
    <2>11. VersionInv(v) /\ v \in TaskState
      BY <1>2, <2>5, Zenon DEF VersionInv, TaskState
    <2> QED BY <1>1, <2>2, <2>5, <2>7, <2>10, <2>11, ReadingStep, Zenon DEF Reading
  <1> QED BY <1>3, <1>4, Zenon

LEMMA ReadSlotStep ==
  ASSUME WalInv, NEW t \in Task, ReadSlot(t)
  PROVE  WalInv'
  <1>1. /\ UNCHANGED <<latest, handle, gen, writer, slot, slotLock, acked>>
        /\ ops' \in 0 .. MaxOps /\ task[t].pc = "slot" /\ task[t].pc \in Reading
    BY OpsBound, Zenon DEF ReadSlot, Reading
  <1> DEFINE r == task[t]
             p == IF slot = NoEntry THEN "plan" ELSE "memtables"
             v == [r EXCEPT !.entry = slot, !.pc = p]
  <1>2. /\ r \in ReadState /\ ReaderInv(r) /\ Sound(r.ds) /\ r.ds \in Version
        /\ r.start \in SUBSET Row /\ r.resident \in SUBSET Row
    BY <1>1, ReadTask, Zenon
  <1>3. Goto(t, v)
    BY Zenon DEF ReadSlot
  <1>4. /\ p \in {"plan", "memtables"} /\ (p = "plan" <=> slot = NoEntry)
        /\ slot \in Entry \cup {NoEntry}
    BY Parts, Zenon DEF TypeOK
  <1> HIDE DEF p
  <1>5. v \in ReadState /\ v.pc = p /\ v.ds = r.ds /\ v.todo = r.todo /\ v.view = r.view
          /\ v.kind = r.kind /\ v.start = r.start /\ v.resident = r.resident /\ v.entry = slot
    BY <1>2, <1>4, Zenon DEF ReadState
  <1>6. v.drained = r.drained
    BY <1>2, Zenon DEF ReadState
  <1>7. r.pc = "slot" /\ r.pc \in Reading
    BY <1>1, Zenon
  <1> HIDE DEF v, r
  <1>8. slot # NoEntry => /\ writer[slot].state = "open" /\ slot \in Entry
                          /\ writer[slot].manifest = Published(writer[slot].shard)
    BY <1>4, Parts, Zenon DEF SlotInv, WriterInv
  <1>9. \A x \in Row : OldFound(r, x) => OldFound(v, x)
    <2> SUFFICES ASSUME NEW x \in Row, OldFound(r, x) PROVE OldFound(v, x)
      BY Zenon
    <2>1. v.pc \in {"memtables", "manifest"} /\ writer[v.entry].shard = ShardOf[x]
             => x \in writer[v.entry].manifest
      BY <1>4, <1>5, <1>8, Zenon DEF Published, OldFound
    <2> QED BY <1>5, <2>1, Zenon DEF OldFound
  <1>10. \A x : ResidentFound(r, x) => ResidentFound(v, x)
    BY <1>4, <1>5, <1>7, Zenon DEF ResidentFound
  <1>11. ReaderInv(v)
    BY <1>2, <1>4, <1>5, <1>6, <1>7, <1>8, <1>9, <1>10, Zenon DEF ReaderInv
  <1>12. VersionInv(v) /\ v \in TaskState
    BY <1>2, <1>5, Zenon DEF VersionInv, TaskState
  <1> QED BY <1>1, <1>3, <1>4, <1>5, <1>11, <1>12, ReadingStep, Zenon DEF Reading

\* Generations are natural numbers.
LEMMA GenNat ==
  ASSUME WalInv
  PROVE  gen \in [Row -> Nat]
  <1>1. gen \in [Row -> 0 .. Cardinality(Row)]
    BY Parts, Zenon DEF TypeOK
  <1> QED BY <1>1, SMTT(30)

\* The captured memtables are the writer's, unless it was taken.
LEMMA CaptureStep ==
  ASSUME WalInv, NEW t \in Task, At(t, "memtables"),
         Goto(t, [CaptureMemtables(task[t]) EXCEPT !.pc = "manifest"]),
         UNCHANGED <<latest, handle, gen, writer, slot, slotLock, acked>>
  PROVE  WalInv'
  <1>1. ops' \in 0 .. MaxOps /\ task[t].pc = "memtables" /\ task[t].pc \in Reading
    BY OpsBound, Zenon DEF Reading
  <1> DEFINE r == task[t]
             mem == MemtableRefs(writer[r.entry])
             v == [r EXCEPT !.mem = mem, !.pc = "manifest"]
  <1>2. /\ r \in ReadState /\ ReaderInv(r) /\ Sound(r.ds) /\ r.ds \in Version
        /\ r.start \in SUBSET Row /\ r.resident \in SUBSET Row
        /\ r.entry \in Entry \cup {NoEntry}
    BY <1>1, ReadTask, Zenon
  <1>3. Goto(t, v)
    BY Zenon DEF CaptureMemtables, Goto
  <1>4. r.entry # NoEntry /\ r.entry \in Entry
    BY <1>1, <1>2, Zenon DEF ReaderInv
  <1>5. /\ mem \in Seq(Memtable)
        /\ writer[r.entry].state = "open" => mem = writer[r.entry].mem
    BY <1>4, Parts, SMTT(30) DEF MemtableRefs, TypeOK, Writer
  <1> HIDE DEF mem
  <1>6. v \in ReadState /\ v.pc = "manifest" /\ v.ds = r.ds /\ v.todo = r.todo /\ v.view = r.view
          /\ v.kind = r.kind /\ v.start = r.start /\ v.resident = r.resident
          /\ v.entry = r.entry /\ v.mem = mem
    BY <1>2, <1>5, Zenon DEF ReadState
  <1>7. v.drained = r.drained
    BY <1>2, Zenon DEF ReadState
  <1>8. r.pc = "memtables" /\ r.pc \in Reading
    BY <1>1, Zenon
  <1> HIDE DEF v, r
  <1>9. slot # NoEntry => writer[slot].state = "open"
    BY Parts, Zenon DEF SlotInv
  <1>10. \A x : OldFound(r, x) => OldFound(v, x)
    BY <1>6, <1>8, Zenon DEF OldFound
  <1>11. ASSUME r.entry = slot, NEW x, ResidentFound(r, x) PROVE ResidentFound(v, x)
    BY <1>5, <1>6, <1>9, <1>11, Zenon DEF ResidentFound
  <1>12. ReaderInv(v)
    BY <1>2, <1>6, <1>7, <1>8, <1>10, <1>11, Zenon DEF ReaderInv
  <1>13. VersionInv(v) /\ v \in TaskState
    BY <1>2, <1>6, Zenon DEF VersionInv, TaskState
  <1> QED BY <1>1, <1>3, <1>6, <1>12, <1>13, ReadingStep, Zenon DEF Reading

\* The writer's manifest replaces what was read from the disk for its shard.
LEMMA OverrideStep ==
  ASSUME WalInv, NEW t \in Task, At(t, "manifest"),
         Goto(t, [CaptureManifest(task[t]) EXCEPT !.pc = "plan"]),
         UNCHANGED <<latest, handle, gen, writer, slot, slotLock, acked>>
  PROVE  WalInv'
  <1>1. ops' \in 0 .. MaxOps /\ task[t].pc = "manifest" /\ task[t].pc \in Reading
    BY OpsBound, Zenon DEF Reading
  <1> DEFINE r == task[t]
             w == writer[r.entry]
             view == Overridden(r)
             v == [r EXCEPT !.view = view, !.pc = "plan"]
  <1>2. /\ r \in ReadState /\ ReaderInv(r) /\ Sound(r.ds) /\ r.ds \in Version
        /\ r.start \in SUBSET Row /\ r.resident \in SUBSET Row /\ r.kind \in Kinds
        /\ r.view \in [Shard -> SUBSET Row] /\ r.entry \in Entry \cup {NoEntry}
    BY <1>1, ReadTask, Zenon
  <1>3. Goto(t, v)
    BY Zenon DEF CaptureManifest, Goto
  <1>4. r.entry # NoEntry /\ r.entry \in Entry
    BY <1>1, <1>2, Zenon DEF ReaderInv
  <1>5. w \in Writer /\ w.shard \in Shard /\ w.manifest \in SUBSET Row
    BY <1>4, Parts, Zenon DEF TypeOK, Writer
  <1>6. gen \in [Row -> Nat]
    BY GenNat, Zenon
  <1>7. /\ view \in [Shard -> SUBSET Row]
        /\ \A s \in Shard : s # w.shard => view[s] = r.view[s]
        /\ w.state # "open" => view = r.view
        /\ w.state = "open" => \A x \in w.manifest :
              gen[x] <= Watermark(r.ds, r.kind, w.shard) \/ x \in view[w.shard]
    <2> DEFINE snap == Snapshot(w.shard, w.manifest, r.ds, r.kind)
    <2>1. Watermark(r.ds, r.kind, w.shard) \in Nat
      BY <1>2, <1>5, WatermarkFacts, Zenon
    <2>2. snap \in SUBSET Row /\ \A x \in w.manifest :
              gen[x] <= Watermark(r.ds, r.kind, w.shard) \/ x \in snap
      BY <1>5, <1>6, <2>1, SMTT(30) DEF Snapshot
    <2> HIDE DEF snap
    <2>3. w.state = "open" => view = [r.view EXCEPT ![w.shard] = snap]
      BY Zenon DEF Overridden, snap
    <2>4. w.state # "open" => view = r.view
      BY Zenon DEF Overridden
    <2> HIDE DEF view, w
    <2> QED BY <1>2, <1>5, <2>2, <2>3, <2>4, Zenon
  <1> HIDE DEF view
  <1>8. v \in ReadState /\ v.pc = "plan" /\ v.ds = r.ds /\ v.todo = r.todo /\ v.view = view
          /\ v.kind = r.kind /\ v.start = r.start /\ v.resident = r.resident
          /\ v.entry = r.entry /\ v.mem = r.mem
    BY <1>2, <1>7, Zenon DEF ReadState
  <1>9. v.drained = r.drained
    BY <1>2, Zenon DEF ReadState
  <1>10. r.pc = "manifest" /\ r.pc \in Reading
    BY <1>1, Zenon
  <1> HIDE DEF v, r
  <1>11. slot # NoEntry => /\ writer[slot].state = "open" /\ slot \in Entry
                           /\ writer[slot].manifest = Published(writer[slot].shard)
    BY Parts, Zenon DEF TypeOK, SlotInv, WriterInv
  <1>12. \A x \in Row : OldFound(r, x) => OldFound(v, x)
    <2> SUFFICES ASSUME NEW x \in Row, OldFound(r, x) PROVE OldFound(v, x)
      BY Zenon
    <2>1. ShardOf[x] \in Shard
      BY MemWalAssumption, Zenon
    <2> QED BY <1>7, <1>8, <1>10, <2>1, Zenon DEF OldFound
  <1>13. ASSUME r.entry = slot, NEW x \in r.resident, ResidentFound(r, x)
         PROVE  ResidentFound(v, x)
    <2>1. /\ w = writer[slot] /\ slot # NoEntry /\ w.shard = ShardOf[x]
          /\ x \in RowsOf(r.mem) \cup w.manifest
      BY <1>10, <1>13, Zenon DEF ResidentFound
    <2>2. x \in Row /\ w.state = "open" /\ w.manifest = Published(w.shard)
      BY <1>2, <1>11, <2>1, Zenon
    <2>3. CASE x \in w.manifest
      <3>1. gen[x] > 0 /\ gen[x] \in Nat
        BY <1>6, <2>2, <2>3, Zenon DEF Published
      <3>2. gen[x] > r.ds.compacted[w.shard]
        BY <1>2, <1>10, <2>1, <3>1, SMTT(30) DEF ReaderInv
      <3>3. /\ Watermark(r.ds, r.kind, w.shard) \in Nat
            /\ Watermark(r.ds, r.kind, w.shard) <= r.ds.compacted[w.shard]
            /\ r.ds.compacted[w.shard] \in Nat
        BY <1>2, <1>5, WatermarkFacts, ZenonT(40) DEF Version
      <3>4. x \in view[w.shard]
        BY <1>7, <2>2, <2>3, <3>1, <3>2, <3>3, SMTT(30)
      <3> QED BY <1>8, <1>13, <2>1, <3>4, Zenon DEF ResidentFound
    <2>4. CASE x \in RowsOf(r.mem)
      BY <1>8, <1>13, <2>4, Zenon DEF ResidentFound
    <2> QED BY <2>1, <2>3, <2>4, Zenon
  <1>14. ReaderInv(v)
    BY <1>2, <1>8, <1>9, <1>10, <1>12, <1>13, Zenon DEF ReaderInv
  <1>15. VersionInv(v) /\ v \in TaskState
    BY <1>2, <1>8, Zenon DEF VersionInv, TaskState
  <1> QED BY <1>1, <1>3, <1>8, <1>14, <1>15, ReadingStep, Zenon DEF Reading

LEMMA SnapshotStep ==
  ASSUME WalInv, NEW t \in Task, read_snapshot(t)
  PROVE  WalInv'
  BY CaptureStep, OverrideStep, Zenon DEF read_snapshot

\* A plan that is not refused scans every row the read owes.
LEMMA PlanStep ==
  ASSUME WalInv, NEW t \in Task, ReadPlan(t)
  PROVE  WalInv'
  <1>1. /\ UNCHANGED <<latest, handle, gen, writer, slot, slotLock, acked>>
        /\ ops' \in 0 .. MaxOps /\ task[t].pc = "plan" /\ task[t].pc \in Reading
    BY OpsBound, Zenon DEF ReadPlan, Reading
  <1> DEFINE r == task[t]
  <1>2. /\ r \in ReadState /\ ReaderInv(r) /\ Sound(r.ds) /\ r.ds \in Version
        /\ r.start \in SUBSET Row /\ r.resident \in SUBSET Row /\ r.kind \in Kinds
        /\ r.view \in [Shard -> SUBSET Row] /\ r.mem \in Seq(Memtable)
    BY <1>1, ReadTask, Zenon
  <1>3. CASE Refused(r)
    <2>1. Goto(t, Idle)
      BY <1>3, Zenon DEF ReadPlan, End
    <2>2. VersionInv(Idle) /\ ReaderInv(Idle)
      BY Zenon DEF Idle, VersionInv, ReaderInv, HoldsVersion, Reading
    <2> QED BY <1>1, <2>1, <2>2, IdleTask, ReadingStep, Zenon
  <1>4. CASE ~Refused(r)
    <2> DEFINE owed == IF r.drained THEN r.start \ r.resident ELSE r.start
               v == [pc |-> "answered", missed |-> owed \ Scan(r)]
    <2>1. Goto(t, v)
      BY <1>4, Zenon DEF ReadPlan
    <2>2. r.todo = {} /\ r.pc = "plan" /\ r.pc \in Reading
      BY <1>1, <1>2, Zenon DEF ReaderInv
    <2>3. gen \in [Row -> Nat] /\ ShardOf \in [Row -> Shard]
      BY GenNat, MemWalAssumption, Zenon
    <2>4. owed \in SUBSET Row
      BY <1>2, Zenon
    <2>5. ASSUME NEW x \in owed PROVE x \in r.start /\ (x \in r.resident => ~r.drained)
      BY <2>5, Zenon
    <2> HIDE DEF r, owed
    <2>6. ASSUME NEW x \in owed, x \notin r.resident PROVE x \in Scan(r)
      <3> DEFINE s == ShardOf[x]
                 m == Watermark(r.ds, r.kind, s)
      <3>1. OldFound(r, x) /\ x \in Row /\ s \in Shard /\ gen[x] \in Nat
        BY <1>2, <2>2, <2>3, <2>4, <2>5, <2>6, Zenon DEF ReaderInv
      <3>2. gen[x] > 0 /\ (gen[x] <= m \/ x \in r.view[s])
        BY <2>2, <3>1, Zenon DEF OldFound
      <3>3. /\ m \in Nat /\ m <= r.ds.compacted[s] /\ r.ds.compacted[s] \in Nat
            /\ r.ds.caughtUp[s] \in Nat \cup {NoCatchUp}
            /\ r.kind # "plain" /\ Maintained(r.ds) => m = 0 \/ m <= r.ds.caughtUp[s]
        BY <1>2, <3>1, WatermarkFacts, Zenon DEF Version
      <3>4. CASE x \in r.view[s]
        BY <3>1, <3>4, Zenon DEF Scan
      <3>5. CASE gen[x] <= m
        <4> HIDE DEF m
        <4>1. gen[x] \in 1 .. r.ds.compacted[s]
          BY <3>1, <3>2, <3>3, <3>5, SMTT(30)
        <4>2. CASE r.kind = "plain"
          <5>1. x \in r.ds.base
            BY <1>2, <3>1, <4>1, Zenon DEF Sound
          <5> QED BY <4>2, <5>1, Zenon DEF Scan
        <4>3. CASE r.kind # "plain"
          <5>1. Maintained(r.ds)
            BY <1>4, <4>3, Zenon DEF Refused
          <5>2. gen[x] <= r.ds.caughtUp[s]
            BY <3>1, <3>2, <3>3, <3>5, <4>3, <5>1, SMTT(30) DEF NoCatchUp
          <5>3. x \in r.ds.indexed
            BY <1>2, <3>1, <4>1, <5>2, Zenon DEF Sound
          <5> QED BY <4>3, <5>3, Zenon DEF Scan
        <4> QED BY <4>2, <4>3, Zenon
      <3> QED BY <3>2, <3>4, <3>5, Zenon
    <2>7. ASSUME NEW x \in owed, x \in r.resident PROVE x \in Scan(r)
      <3>1. ResidentFound(r, x)
        BY <1>2, <2>2, <2>5, <2>7, Zenon DEF ReaderInv
      <3>2. x \in RowsOf(r.mem) \cup r.view[ShardOf[x]] /\ ShardOf[x] \in Shard
        BY <2>2, <2>3, <2>4, <3>1, Zenon DEF ResidentFound
      <3>3. CASE x \in r.view[ShardOf[x]]
        BY <3>2, <3>3, Zenon DEF Scan
      <3>4. CASE x \in RowsOf(r.mem)
        <4>1. PICK m \in Range(r.mem) : x \in m.rows
          BY <3>4, Zenon DEF RowsOf
        <4>2. r.kind = "fts" => m.carries
          BY <1>4, Zenon DEF Refused
        <4> DEFINE seen == {n \in Range(r.mem) : r.kind = "fts" => n.carries}
                   memory == UNION {n.rows : n \in seen}
        <4>3. m \in seen
          BY <4>2, Zenon
        <4>4. memory \subseteq Scan(r)
          BY Zenon DEF Scan
        <4> HIDE DEF seen
        <4>5. x \in memory
          BY <4>1, <4>3, Zenon
        <4> HIDE DEF memory
        <4> QED BY <4>4, <4>5, Zenon
      <3> QED BY <3>2, <3>3, <3>4, Zenon
    <2>8. v.missed = {} /\ v.pc = "answered"
      BY <2>6, <2>7, Zenon
    <2>9. v \in AnswerState
      BY <2>8, Zenon DEF AnswerState
    <2> HIDE DEF v
    <2>10. VersionInv(v) /\ ReaderInv(v) /\ v \in TaskState
      BY <2>8, <2>9, Zenon DEF VersionInv, ReaderInv, HoldsVersion, Reading, TaskState
    <2>11. task[t].pc \in Reading \cup {"idle", "answered"}
      BY <1>1, Zenon
    <2> QED BY <1>1, <2>1, <2>8, <2>10, <2>11, ReadingStep, Zenon
  <1> QED BY <1>3, <1>4, Zenon

LEMMA ReturnStep ==
  ASSUME WalInv, NEW t \in Task, ReadReturn(t)
  PROVE  WalInv'
  <1>1. /\ UNCHANGED <<latest, handle, gen, writer, slot, slotLock, acked>>
        /\ ops' \in 0 .. MaxOps /\ task[t].pc = "answered" /\ Goto(t, Idle)
    BY OpsBound, Zenon DEF ReadReturn, End
  <1>2. VersionInv(Idle) /\ ReaderInv(Idle)
    BY Zenon DEF Idle, VersionInv, ReaderInv, HoldsVersion, Reading
  <1> QED BY <1>1, <1>2, IdleTask, ReadingStep, Zenon

-----------------------------------------------------------------------------
(* The invariant holds                                                     *)

LEMMA InitWalInv ==
  ASSUME NumberFacts, Init
  PROVE  WalInv
  <1> DEFINE s0 == CHOOSE s \in Shard : TRUE
             w0 == [state |-> "unused", fenced |-> FALSE, shard |-> s0,
                    carries |-> FALSE, mem |-> << >>, manifest |-> {}]
  <1>1. w0 \in Writer /\ w0.state = "unused" /\ w0.mem = << >>
    <2>1. s0 \in Shard
      BY MemWalAssumption, Zenon
    <2>2. << >> \in Seq(Memtable)
      BY SMTT(30)
    <2> HIDE DEF s0
    <2> QED BY <2>1, <2>2, Zenon DEF Writer
  <1>2. \A e \in Entry : writer[e] = w0
    BY Zenon DEF Init
  <1>3. writer \in [Entry -> Writer]
    <2>1. writer \in [Entry -> {w0}]
      BY Zenon DEF Init
    <2> HIDE DEF w0
    <2> QED BY <1>1, <2>1, Zenon
  <1> HIDE DEF w0
  <1>4. \A e \in Entry : writer[e].state = "unused" /\ RowsOf(writer[e].mem) = {}
    BY <1>1, <1>2, SMTT(30) DEF RowsOf, Range
  <1>5. /\ latest \in Version /\ handle = latest /\ latest.version \in Nat
        /\ \A s \in Shard : latest.compacted[s] = 0 /\ latest.caughtUp[s] = NoCatchUp
    <2> DEFINE I == [version : {1}, spec : {"off", "maintained", "unmaintained"},
                     index : BOOLEAN, base : {{}}, indexed : {{}},
                     compacted : [Shard -> {0}], caughtUp : [Shard -> {NoCatchUp}]]
    <2>1. latest \in I /\ handle = latest
      BY Zenon DEF Init
    <2>2. {1} \subseteq Nat /\ {{}} \subseteq SUBSET Row /\ [Shard -> {0}] \subseteq [Shard -> Nat]
          /\ [Shard -> {NoCatchUp}] \subseteq [Shard -> Nat \cup {NoCatchUp}]
      BY SMTT(30)
    <2>3. I \subseteq Version
      BY <2>2, Zenon DEF Version
    <2> QED BY <2>1, <2>3, SMTT(30)
  <1>6. \A r \in Row : gen[r] = 0
    BY Zenon DEF Init
  <1>7. \A t \in Task : task[t] = Idle
    BY Zenon DEF Init
  <1>8. Cardinality(Row) \in Nat
    BY Zenon DEF NumberFacts
  <1>9. TypeOK
    <2>1. gen \in [Row -> 0 .. Cardinality(Row)]
      BY <1>8, SMTT(30) DEF Init
    <2>2. task \in [Task -> TaskState]
      BY IdleTask, Zenon DEF Init
    <2>3. handle \in Version /\ handle.version <= latest.version
      BY <1>5, SMTT(30)
    <2>4. /\ slot \in Entry \cup {NoEntry} /\ slotLock \in Task \cup {Free}
          /\ acked \in SUBSET Row
      <3>1. slot = NoEntry /\ slotLock = Free /\ acked = {}
        BY Zenon DEF Init
      <3> QED BY <3>1, Zenon
    <2>5. ops \in 0 .. MaxOps
      <3>1. ops = 0
        BY Zenon DEF Init
      <3>2. MaxOps \in Nat
        BY MemWalAssumption, Zenon
      <3> QED BY <3>1, <3>2, SMTT(30)
    <2> QED BY <1>3, <1>5, <2>1, <2>2, <2>3, <2>4, <2>5, ZenonT(40) DEF TypeOK
  <1>10. WriterInv /\ WritersOwned
    BY <1>4, Zenon DEF WriterInv, WritersOwned, Live
  <1>11. SlotInv
    BY Zenon DEF SlotInv, Init
  <1>12. GenInv
    BY <1>6, SMTT(30) DEF GenInv, Published
  <1>13. Sound(latest) /\ Sound(handle)
    <2>1. \A s \in Shard : latest.caughtUp[s] <= latest.compacted[s]
      BY <1>5, SMTT(30) DEF NoCatchUp
    <2>2. \A r \in Row : ~(gen[r] \in 1 .. latest.compacted[ShardOf[r]])
      <3>1. ~(0 \in 1 .. 0)
        BY SMTT(30)
      <3>2. \A r \in Row : gen[r] = 0 /\ latest.compacted[ShardOf[r]] = 0
        BY <1>5, <1>6, MemWalAssumption, Zenon
      <3> QED BY <3>1, <3>2, Zenon
    <2>3. latest.version <= latest.version
      BY <1>5, SMTT(30)
    <2>4. Sound(latest)
      BY <1>5, <2>1, <2>2, <2>3, Zenon DEF Sound
    <2> QED BY <1>5, <2>4, Zenon
  <1>14. \A t \in Task : TaskInv(task[t])
    BY <1>7, IdleTask, Zenon
  <1>15. TasksApart
    <2>1. slotLock \notin Task
      BY MemWalAssumption, Zenon DEF Init, Free
    <2> QED BY <1>7, <2>1, SMTT(30) DEF TasksApart, Idle, Closing, UpsertPcs
  <1>16. AckedKept
    BY Zenon DEF AckedKept, Init
  <1> QED BY <1>9, <1>10, <1>11, <1>12, <1>13, <1>14, <1>15, <1>16, ZenonT(40) DEF WalInv

LEMMA StutterStep ==
  ASSUME WalInv, UNCHANGED vars
  PROVE  WalInv'
  <1>1. /\ UNCHANGED <<latest, handle, gen, writer, slot, slotLock, task, acked, ops>>
    BY Zenon DEF vars
  <1>2. /\ latest \in Version /\ handle \in Version /\ Sound(latest) /\ Sound(handle)
        /\ latest.version \in Nat /\ ops \in 0 .. MaxOps
    BY Parts, Zenon DEF TypeOK, Version
  <1>3. \A d \in Version : Sound(d) => Sound(d)'
    BY <1>1, <1>2, SoundStays, SMTT(30)
  <1>4. Sound(latest)' /\ Sound(handle)'
    BY <1>1, <1>2, <1>3, Zenon
  <1> QED BY <1>1, <1>2, <1>4, CommitStep, SMTT(30)

LEMMA NextWalInv ==
  ASSUME NumberFacts, WalInv, [Next]_vars
  PROVE  WalInv'
  <1>1. ASSUME NEW t \in Task, NEW spec \in {"maintained", "unmaintained"},
               enable_memwal(t, spec)
        PROVE  WalInv'
    BY <1>1, EnableStep, Zenon
  <1>2. ASSUME NEW t \in Task,
               \/ build_index(t) \/ RefreshSlot(t) \/ refresh_maintained_indexes(t)
               \/ FenceWait(t) \/ IndexUpdate(t)
        PROVE  WalInv'
    BY <1>2, BuildStep, RefreshSlotStep, ReconfigureStep, UpdateStep, Zenon
  <1>3. ASSUME NEW t \in Task, NEW r \in Row, merge_insert(t, r)
        PROVE  WalInv'
    BY <1>3, MergeStep, Zenon
  <1>4. ASSUME NEW t \in Task,
               WriterCached(t) \/ WriterLock(t) \/ WriterOpen(t) \/ put(t) \/ MergeTimeout(t)
        PROVE  WalInv'
    BY <1>4, WriterCachedStep, WriterOpenStep, PutStep, TimeoutStep, Zenon
  <1>5. ASSUME NEW t \in Task, close_memwal_writers(t)
        PROVE  WalInv'
    BY <1>5, OpsBound, DrainStep, Zenon DEF close_memwal_writers
  <1>6. ASSUME NEW t \in Task, DisableDrain(t)
        PROVE  WalInv'
    BY <1>6, OpsBound, DrainStep, Zenon DEF DisableDrain
  <1>7. ASSUME NEW t \in Task, disable_memwal(t) \/ CloseTake(t) \/ CloseEnd(t) \/ DropIndex(t)
        PROVE  WalInv'
    BY <1>7, DisableStep, CloseTakeStep, CloseEndStep, DropStep, Zenon
  <1>8. ASSUME NEW t \in Task, NEW kind \in Kinds, read(t, kind)
        PROVE  WalInv'
    BY <1>8, ReadBegins, Zenon
  <1>9. ASSUME NEW t \in Task,
               \/ ReadManifests(t) \/ ReadSlot(t) \/ read_snapshot(t)
               \/ ReadPlan(t) \/ ReadReturn(t)
        PROVE  WalInv'
    BY <1>9, ManifestsStep, ReadSlotStep, SnapshotStep, PlanStep, ReturnStep, Zenon
  <1>10. ASSUME NEW e \in Entry, Freeze(e) \/ Flush(e)
         PROVE  WalInv'
    BY <1>10, FreezeStep, FlushStep, Zenon
  <1>11. ASSUME NEW s \in Shard, Compact(s)
         PROVE  WalInv'
    BY <1>11, CompactStep, Zenon
  <1>12. CASE CatchUp \/ Refresh
    BY <1>12, CatchUpStep, RefreshStep, Zenon
  <1>13. CASE UNCHANGED vars
    BY <1>13, StutterStep, Zenon
  <1> QED BY <1>1, <1>2, <1>3, <1>4, <1>5, <1>6, <1>7, <1>8, <1>9, <1>10, <1>11, <1>12, <1>13,
             ZenonT(40) DEF Next
================================================================================
