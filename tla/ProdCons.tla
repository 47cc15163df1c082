------------------------------ MODULE ProdCons ------------------------------
(***************************************************************************)
(* The producer/consumer program of src/project2/prodcons.c.  main maps   *)
(* three semaphores (empty, full, mutex) and one int array shared_memory: *)
(* shared_memory[0] is curr_produced ("in"), shared_memory[1] is          *)
(* curr_consumed ("out") and buffer_ptr = shared_memory + 2 is the ring   *)
(* buffer.  It forks the producers and the consumers, which loop forever. *)
(*                                                                         *)
(* down and up are the cs1550_down/cs1550_up system calls: down           *)
(* decrements the value and, if it is negative, puts the caller at the    *)
(* tail of the semaphore's queue and puts it to sleep; up increments the  *)
(* value and, if it is not positive, wakes the process at the head of the *)
(* queue, which then returns from its down.                                *)
(*                                                                         *)
(* The counters are C ints of IntWidth bits: += 1 wraps (two's            *)
(* complement, as the build does for this undefined overflow) and C's %   *)
(* keeps the sign of the dividend, so a negative counter indexes before   *)
(* buffer_ptr, i.e. into the counters themselves.                         *)
(***************************************************************************)
EXTENDS Integers, Sequences, FiniteSets, Functions

CONSTANTS
  Producers,    \* forked producer processes
  Consumers,    \* forked consumer processes
  BufSize,      \* size_of_buffer (argv[3])
  IntWidth      \* bits of an int

ASSUME
  /\ Producers # {} /\ Consumers # {} /\ Producers \cap Consumers = {}
  \* every index counter % BufSize lands inside shared_memory
  /\ BufSize \in 1 .. 3
  /\ IntWidth \in 2 .. 16

Procs == Producers \cup Consumers
Sems == {"empty", "full", "mutex"}

\* C int arithmetic: wrap to IntWidth bits, and % truncating toward zero.
IntMin == -(2 ^ (IntWidth - 1))
Ints == IntMin .. -IntMin - 1
Wrap(x) == ((x - IntMin) % (2 ^ IntWidth)) + IntMin
CMod(x, n) == IF x >= 0 THEN x % n ELSE -((-x) % n)

\* shared_memory[k]; buffer_ptr[i] is shared_memory[2 + i]
curr_produced == 0
curr_consumed == 1
Slot(x) == 2 + CMod(x, BufSize)

VARIABLES
  sem,    \* sem[s]: [value, queue] of the cs1550_sem s
  shm,    \* shared_memory[0 .. BufSize + 1]
  pc,     \* the statement each process executes next
  item    \* each process's local item

vars == <<sem, shm, pc, item>>

\* A process is runnable unless it sleeps in a semaphore queue.
Runnable(p) == \A s \in Sems : p \notin Range(sem[s].queue)

-----------------------------------------------------------------------------
(* The semaphore system calls.                                            *)

DownSem(s, p) ==
  LET v == sem[s].value - 1
  IN [sem EXCEPT ![s] = [value |-> v,
                         queue |-> IF v < 0 THEN Append(sem[s].queue, p)
                                            ELSE sem[s].queue]]

\* mutant: up wakes the most recent sleeper instead of the oldest
UpSemLifo(s) ==
  LET v == sem[s].value + 1
  IN [sem EXCEPT ![s] = [value |-> v,
                         queue |-> IF v <= 0 THEN SubSeq(sem[s].queue, 1, Len(sem[s].queue) - 1)
                                             ELSE sem[s].queue]]
UpSem(s) ==
  LET v == sem[s].value + 1
  IN [sem EXCEPT ![s] = [value |-> v,
                         queue |-> IF v <= 0 THEN Tail(sem[s].queue)
                                             ELSE sem[s].queue]]

\* Process p at statement from calls down(s) / up(s) and goes on to to.
Down(p, s, from, to) ==
  /\ pc[p] = from /\ Runnable(p)
  /\ sem' = DownSem(s, p)
  /\ pc' = [pc EXCEPT ![p] = to]
  /\ UNCHANGED <<shm, item>>

Up(p, s, from, to) ==
  /\ pc[p] = from /\ Runnable(p)
  /\ sem' = UpSem(s)
  /\ pc' = [pc EXCEPT ![p] = to]
  /\ UNCHANGED <<shm, item>>

-----------------------------------------------------------------------------
(* The critical sections.                                                  *)

\* item = *curr_produced; buffer_ptr[*curr_produced % size] = item;
\* *curr_produced += 1
\* mutant: the item is stored after the counter is incremented
ProduceLate(p) ==
  /\ pc[p] = "produce" /\ Runnable(p)
  /\ item' = [item EXCEPT ![p] = shm[curr_produced]]
  /\ LET s1 == [shm EXCEPT ![curr_produced] = Wrap(shm[curr_produced] + 1)]
     IN shm' = [s1 EXCEPT ![Slot(s1[curr_produced])] = shm[curr_produced]]
  /\ pc' = [pc EXCEPT ![p] = "up_mutex"]
  /\ UNCHANGED sem
Produce(p) ==
  /\ pc[p] = "produce" /\ Runnable(p)
  /\ item' = [item EXCEPT ![p] = shm[curr_produced]]
  /\ LET s1 == [shm EXCEPT ![Slot(shm[curr_produced])] = shm[curr_produced]]
     IN shm' = [s1 EXCEPT ![curr_produced] = Wrap(s1[curr_produced] + 1)]
  /\ pc' = [pc EXCEPT ![p] = "up_mutex"]
  /\ UNCHANGED sem

\* item = buffer_ptr[*curr_consumed % size]; *curr_consumed += 1
\* mutant: the counter is incremented before the slot is read
ConsumeLate(c) ==
  /\ pc[c] = "consume" /\ Runnable(c)
  /\ item' = [item EXCEPT ![c] = shm[Slot(Wrap(shm[curr_consumed] + 1))]]
  /\ shm' = [shm EXCEPT ![curr_consumed] = Wrap(shm[curr_consumed] + 1)]
  /\ pc' = [pc EXCEPT ![c] = "up_mutex"]
  /\ UNCHANGED sem
Consume(c) ==
  /\ pc[c] = "consume" /\ Runnable(c)
  /\ item' = [item EXCEPT ![c] = shm[Slot(shm[curr_consumed])]]
  /\ shm' = [shm EXCEPT ![curr_consumed] = Wrap(shm[curr_consumed] + 1)]
  /\ pc' = [pc EXCEPT ![c] = "up_mutex"]
  /\ UNCHANGED sem

\* One iteration of the producer loop, lines 107-116.
\* mutant: the producer does not take the mutex
ProducerNoMutex(p) ==
  \/ Down(p, "empty", "down_empty", "produce")
  \/ Produce(p)
  \/ Up(p, "mutex", "up_mutex", "up_full")
  \/ Up(p, "full", "up_full", "down_empty")
Producer(p) ==
  \/ Down(p, "empty", "down_empty", "down_mutex")
  \/ Down(p, "mutex", "down_mutex", "produce")
  \/ Produce(p)
  \/ Up(p, "mutex", "up_mutex", "up_full")
  \/ Up(p, "full", "up_full", "down_empty")

\* One iteration of the consumer loop, lines 123-131.
Consumer(c) ==
  \/ Down(c, "full", "down_full", "down_mutex")
  \/ Down(c, "mutex", "down_mutex", "consume")
  \/ Consume(c)
  \/ Up(c, "mutex", "up_mutex", "up_empty")
  \/ Up(c, "empty", "up_empty", "down_full")

\* mutant: empty starts one above size_of_buffer
InitEmptyOffByOne ==
  /\ sem = [s \in Sems |-> [value |-> CASE s = "empty" -> BufSize + 1
                                        [] s = "full"  -> 0
                                        [] s = "mutex" -> 1,
                            queue |-> <<>>]]
  /\ shm = [k \in 0 .. BufSize + 1 |-> 0]
  /\ pc = [p \in Procs |-> IF p \in Producers THEN "down_empty" ELSE "down_full"]
  /\ item = [p \in Procs |-> 0]
\* main: the semaphores and counters set up, every child forked.  mmap
\* zero-fills the buffer and empty's queue pointers, which main never sets.
Init ==
  /\ sem = [s \in Sems |-> [value |-> CASE s = "empty" -> BufSize
                                        [] s = "full"  -> 0
                                        [] s = "mutex" -> 1,
                            queue |-> <<>>]]
  /\ shm = [k \in 0 .. BufSize + 1 |-> 0]
  /\ pc = [p \in Procs |-> IF p \in Producers THEN "down_empty" ELSE "down_full"]
  /\ item = [p \in Procs |-> 0]

Next ==
  \/ \E p \in Producers : Producer(p)
  \/ \E c \in Consumers : Consumer(c)

\* The kernel's scheduler eventually runs every runnable process.
Fairness ==
  /\ \A p \in Producers : WF_vars(Producer(p))
  /\ \A c \in Consumers : WF_vars(Consumer(c))

Spec == Init /\ [][Next]_vars /\ Fairness

-----------------------------------------------------------------------------
(* Properties                                                              *)

TypeOK ==
  /\ \A s \in Sems : /\ sem[s].value \in -Cardinality(Procs) .. BufSize
                     /\ sem[s].queue \in Seq(Procs)
  /\ shm \in [0 .. BufSize + 1 -> Ints]
  /\ pc \in [Procs -> {"down_empty", "down_full", "down_mutex", "produce",
                       "consume", "up_mutex", "up_full", "up_empty"}]
  /\ item \in [Procs -> Ints]

InCritical == {p \in Procs : Runnable(p) /\ pc[p] \in {"produce", "consume", "up_mutex"}}

(* down(mutex)/up(mutex) keep the read-modify-write of the counters and   *)
(* the buffer to one process at a time.                                   *)
MutualExclusion == Cardinality(InCritical) <= 1

(* The buffer is consistent with the counters: out <= in <= out + size,   *)
(* and every slot between them holds the item the producer stored there,  *)
(* so no producer overwrites an item not yet consumed.                     *)
BufferConsistent ==
  /\ shm[curr_consumed] <= shm[curr_produced] /\ shm[curr_produced] <= shm[curr_consumed] + BufSize
  /\ \A x \in shm[curr_consumed] .. shm[curr_produced] - 1 : shm[Slot(x)] = x

(* Every consumer takes items in the order they were produced: the item   *)
(* it reads is the value curr_consumed had, i.e. the curr_consumed-th      *)
(* item produced, never a stale or a skipped one.                          *)
FifoDelivery ==
  [][\A c \in Consumers :
       pc[c] = "consume" /\ pc'[c] = "up_mutex" => item'[c] = shm[curr_consumed]]_vars

(* Starvation freedom: every producer and every consumer completes its    *)
(* loop infinitely often.  down queues sleepers FIFO and up wakes the     *)
(* oldest, so no process is overtaken forever.                             *)
EveryoneProgresses ==
  /\ \A p \in Producers : []<>(pc[p] = "up_full")
  /\ \A c \in Consumers : []<>(pc[c] = "up_empty")

=============================================================================
