---------------------------- MODULE MC_ProdCons ----------------------------
(* Instantiation of ProdCons for TLC: two producers and two consumers on  *)
(* a buffer of two slots, so that both semaphore queues fill up and a     *)
(* producer can lap a slot a consumer has not emptied.                     *)
EXTENDS ProdCons, TLC

\* ints wide enough that no counter overflows below MC_MaxItems
MC_WideInt == 8
\* ints narrow enough that the counters wrap within a few laps of the buffer
MC_NarrowInt == 2
\* items produced explored before the counters are cut off
MC_MaxItems == 6
MC_BelowOverflow == shm[curr_produced] <= MC_MaxItems
\* processes of one kind are interchangeable
MC_Symmetry == Permutations(Producers) \cup Permutations(Consumers)
=============================================================================
