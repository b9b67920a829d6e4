-------------------------------- MODULE Fifo --------------------------------
(***************************************************************************)
(* What core/e_queue.h promises: first-in first-out queues of pointers.    *)
(* A queue initialised with const_data 0 owns what is pushed on it: the    *)
(* caller gives a datum away with e_queue_push, gets it back from          *)
(* e_queue_pop, and e_queue_clear and e_queue_destroy free the rest.  Data *)
(* on a queue initialised with const_data 1 stay the caller's.             *)
(***************************************************************************)
EXTENDS Sequences, Functions

CONSTANTS Queue, Data, NULL

VARIABLES
  contents,     \* the data each queue holds, oldest first
  open,         \* initialised queues
  const_data,   \* queues whose data stay the caller's
  held,         \* data the caller owns
  freed,        \* data that have been freed
  ret           \* the result of the last pop

vars == <<contents, open, const_data, held, freed, ret>>

Init ==
  /\ contents = [q \in Queue |-> <<>>]
  /\ open = {} /\ const_data = {}
  /\ held = Data /\ freed = {}
  /\ ret = NULL

(* What is given up when queue q drops everything it holds.                *)
Dropped(q) == IF q \in const_data THEN {} ELSE Range(contents[q])

Open(q, const) ==
  /\ q \notin open
  /\ open' = open \cup {q}
  /\ const_data' = IF const THEN const_data \cup {q} ELSE const_data \ {q}
  /\ contents' = [contents EXCEPT ![q] = <<>>]
  /\ UNCHANGED <<held, freed, ret>>

Push(q, d) ==
  /\ q \in open /\ d \in held
  /\ contents' = [contents EXCEPT ![q] = Append(@, d)]
  /\ held' = IF q \in const_data THEN held ELSE held \ {d}
  /\ UNCHANGED <<open, const_data, freed, ret>>

Pop(q) ==
  /\ q \in open /\ contents[q] # <<>>
  /\ ret' = Head(contents[q])
  /\ held' = IF q \in const_data THEN held ELSE held \cup {Head(contents[q])}
  /\ contents' = [contents EXCEPT ![q] = Tail(@)]
  /\ UNCHANGED <<open, const_data, freed>>

PopNothing(q) ==
  /\ q \in open => contents[q] = <<>>
  /\ ret' = NULL
  /\ UNCHANGED <<contents, open, const_data, held, freed>>

Merge(dq, sq) ==
  /\ dq \in open /\ sq \in open
  /\ contents' = [contents EXCEPT ![dq] = @ \o contents[sq], ![sq] = <<>>]
  /\ UNCHANGED <<open, const_data, held, freed, ret>>

Clear(q) ==
  /\ q \in open
  /\ contents' = [contents EXCEPT ![q] = <<>>]
  /\ freed' = freed \cup Dropped(q)
  /\ UNCHANGED <<open, const_data, held, ret>>

Close(q) ==
  /\ q \in open
  /\ contents' = [contents EXCEPT ![q] = <<>>]
  /\ freed' = freed \cup Dropped(q)
  /\ open' = open \ {q}
  /\ UNCHANGED <<const_data, held, ret>>

Next ==
  \E q \in Queue :
    \/ \E const \in BOOLEAN : Open(q, const)
    \/ \E d \in Data : Push(q, d)
    \/ Pop(q) \/ PopNothing(q) \/ Clear(q) \/ Close(q)
    \/ \E sq \in Queue \ {q} : Merge(q, sq)

Spec == Init /\ [][Next]_vars
=============================================================================
