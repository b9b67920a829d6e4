------------------------------- MODULE EQueue -------------------------------
(***************************************************************************)
(* core/e_queue.c: the linked list behind every queue of the library, at   *)
(* the level of its nodes and pointers.  The list of queue q starts at the *)
(* node top[q], which carries no datum, and ends at rear[q].               *)
(*                                                                         *)
(* The queue has no lock: an operation runs alone, and push, pop and init  *)
(* are one step each.  clear, destroy and merge are loops over pop: `op'   *)
(* says which one is under way, on queues `dst' and `src', and each        *)
(* iteration is a step.  malloc is assumed to succeed, as the code does.   *)
(*                                                                         *)
(* `chain' is a history variable: the nodes of each queue in order.  No    *)
(* action reads it; it is what ListShape compares the pointers with, and   *)
(* what the refinement mapping to Fifo is made of.                         *)
(***************************************************************************)
EXTENDS Integers, Sequences, Functions

CONSTANTS Queue, Data, Node, NULL

ASSUME EQueueAssumption == NULL \notin Node /\ NULL \notin Data

VARIABLES
  top, rear, size,   \* the fields of each e_queue_t ...
  const_data,        \* ... and the queues whose const_data is set
  next, data,        \* the fields of each e_qnode_t
  alloc,             \* allocated nodes
  held,              \* data the caller owns
  freed,             \* data that have been freed
  ret,               \* the result of the last e_queue_pop
  op, dst, src,      \* the loop under way and the queues it works on
  chain

ptrVars  == <<top, rear, size, next, data, alloc, chain>>
callVars == <<op, dst, src>>
vars == <<ptrVars, const_data, held, freed, ret, callVars>>

(* The type invariant.                                                     *)
TypeOK ==
  /\ top \in [Queue -> Node \cup {NULL}]
  /\ rear \in [Queue -> Node \cup {NULL}]
  /\ size \in [Queue -> Nat]
  /\ const_data \subseteq Queue
  /\ next \in [Node -> Node \cup {NULL}]
  /\ data \in [Node -> Data \cup {NULL}]
  /\ alloc \subseteq Node
  /\ held \subseteq Data /\ freed \subseteq Data
  /\ ret \in Data \cup {NULL}
  /\ op \in {"idle", "clear", "destroy", "merge"}
  /\ dst \in Queue /\ src \in Queue
  /\ chain \in [Queue -> Seq(Node)]

Init ==
  /\ top = [q \in Queue |-> NULL] /\ rear = top
  /\ size = [q \in Queue |-> 0]
  /\ const_data = {}
  /\ next = [n \in Node |-> NULL] /\ data = next
  /\ alloc = {}
  /\ held = Data /\ freed = {}
  /\ ret = NULL
  /\ op = "idle" /\ dst \in Queue /\ src = dst
  /\ chain = [q \in Queue |-> <<>>]

-----------------------------------------------------------------------------
e_queue_empty(q) == next[top[q]] = NULL

(* The test with which push and pop begin.                                 *)
Initialised(q) == top[q] # NULL /\ rear[q] # NULL

(* The pointer part of e_queue_push(q, d), with n the node malloc returns. *)
Link(q, d, n) ==
  /\ next' = [next EXCEPT ![rear[q]] = n, ![n] = NULL]
  /\ data' = [data EXCEPT ![n] = d]
  /\ rear' = [rear EXCEPT ![q] = n]
  /\ size' = [size EXCEPT ![q] = @ + 1]
  /\ alloc' = alloc \cup {n}
  /\ chain' = [chain EXCEPT ![q] = Append(@, n)]
  /\ UNCHANGED top

(* Mutant: rear is not reset when the last node goes.                      *)
Unlink_rear_kept(q) ==
  LET node == next[top[q]]
  IN  /\ next' = [next EXCEPT ![top[q]] = next[node]]
      /\ size' = [size EXCEPT ![q] = @ - 1]
      /\ alloc' = alloc \ {node}
      /\ chain' = [chain EXCEPT ![q] = Tail(@)]
      /\ UNCHANGED <<top, rear, data>>

(* The pointer part of e_queue_pop(q) on a queue that is not empty.        *)
Unlink(q) ==
  LET node == next[top[q]]
  IN  /\ next' = [next EXCEPT ![top[q]] = next[node]]
      /\ rear' = [rear EXCEPT ![q] = IF @ = node THEN top[q] ELSE @]
      /\ size' = [size EXCEPT ![q] = @ - 1]
      /\ alloc' = alloc \ {node}
      /\ chain' = [chain EXCEPT ![q] = Tail(@)]
      /\ UNCHANGED <<top, data>>

First(q) == data[next[top[q]]]

e_queue_init(q, const) ==
  /\ op = "idle" /\ top[q] = NULL
  /\ \E n \in Node \ alloc :
       /\ top' = [top EXCEPT ![q] = n]
       /\ rear' = [rear EXCEPT ![q] = n]
       /\ next' = [next EXCEPT ![n] = NULL]
       /\ alloc' = alloc \cup {n}
  /\ size' = [size EXCEPT ![q] = 0]
  /\ const_data' = IF const THEN const_data \cup {q} ELSE const_data \ {q}
  /\ UNCHANGED <<data, chain, held, freed, ret, callVars>>

(* A push on a destroyed queue does nothing.                               *)
e_queue_push(q, d) ==
  /\ op = "idle" /\ Initialised(q)
  /\ d \in held
  /\ \E n \in Node \ alloc : Link(q, d, n)
  /\ held' = IF q \in const_data THEN held ELSE held \ {d}
  /\ UNCHANGED <<const_data, freed, ret, callVars>>

e_queue_pop(q) ==
  /\ op = "idle" /\ Initialised(q) /\ ~ e_queue_empty(q)
  /\ ret' = First(q)
  /\ held' = IF q \in const_data THEN held ELSE held \cup {First(q)}
  /\ Unlink(q)
  /\ UNCHANGED <<const_data, freed, callVars>>

(* Mutant: the size is counted down before the test.                       *)
e_queue_pop_null_counted(q) ==
  /\ op = "idle"
  /\ Initialised(q) => e_queue_empty(q)
  /\ ret' = NULL
  /\ size' = [size EXCEPT ![q] = @ - 1]
  /\ UNCHANGED <<top, rear, next, data, alloc, chain, const_data, held, freed,
                 callVars>>

(* pop returns NULL on a queue that is empty, or destroyed.                *)
e_queue_pop_null(q) ==
  /\ op = "idle"
  /\ Initialised(q) => e_queue_empty(q)
  /\ ret' = NULL
  /\ UNCHANGED <<ptrVars, const_data, held, freed, callVars>>

(* clear, destroy and merge begin.  Called on an initialised queue, which  *)
(* none of them checks; merge on two, of one kind, or it would not end.    *)
e_queue_call(name, dq, sq) ==
  /\ op = "idle" /\ top[dq] # NULL /\ top[sq] # NULL
  /\ IF name = "merge" THEN dq # sq /\ (dq \in const_data <=> sq \in const_data)
                       ELSE dq = sq
  /\ op' = name /\ dst' = dq /\ src' = sq
  /\ UNCHANGED <<ptrVars, const_data, held, freed, ret>>

(* Mutant: const_data is not looked at.                                    *)
drop_first_always_freed ==
  /\ op \in {"clear", "destroy"} /\ ~ e_queue_empty(dst)
  /\ freed' = freed \cup {First(dst)}
  /\ Unlink(dst)
  /\ UNCHANGED <<const_data, held, ret, callVars>>

(* An iteration of the loop of clear or destroy: pop, then free.           *)
drop_first ==
  /\ op \in {"clear", "destroy"} /\ ~ e_queue_empty(dst)
  /\ freed' = IF dst \in const_data THEN freed ELSE freed \cup {First(dst)}
  /\ Unlink(dst)
  /\ UNCHANGED <<const_data, held, ret, callVars>>

clear_return ==
  /\ op = "clear" /\ e_queue_empty(dst)
  /\ size' = [size EXCEPT ![dst] = 0]
  /\ op' = "idle"
  /\ UNCHANGED <<top, rear, next, data, alloc, chain, const_data, held, freed,
                 ret, dst, src>>

(* Mutant: the node without a datum is not freed.                          *)
destroy_return_leaky ==
  /\ op = "destroy" /\ e_queue_empty(dst)
  /\ top' = [top EXCEPT ![dst] = NULL]
  /\ rear' = [rear EXCEPT ![dst] = NULL]
  /\ size' = [size EXCEPT ![dst] = 0]
  /\ op' = "idle"
  /\ UNCHANGED <<next, data, alloc, chain, const_data, held, freed, ret, dst, src>>

destroy_return ==
  /\ op = "destroy" /\ e_queue_empty(dst)
  /\ alloc' = alloc \ {top[dst]}
  /\ top' = [top EXCEPT ![dst] = NULL]
  /\ rear' = [rear EXCEPT ![dst] = NULL]
  /\ size' = [size EXCEPT ![dst] = 0]
  /\ op' = "idle"
  /\ UNCHANGED <<next, data, chain, const_data, held, freed, ret, dst, src>>

(* An iteration of merge: the node popped from src is freed, and malloc    *)
(* may return it again for the push on dst.                                *)
merge_first ==
  /\ op = "merge" /\ ~ e_queue_empty(src)
  /\ LET node == next[top[src]]
     IN  \E n \in (Node \ alloc) \cup {node} :
           /\ next' = [next EXCEPT ![top[src]] = next[node],
                                   ![rear[dst]] = n, ![n] = NULL]
           /\ data' = [data EXCEPT ![n] = data[node]]
           /\ rear' = [rear EXCEPT ![src] = IF @ = node THEN top[src] ELSE @,
                                   ![dst] = n]
           /\ size' = [size EXCEPT ![src] = @ - 1, ![dst] = @ + 1]
           /\ alloc' = (alloc \ {node}) \cup {n}
           /\ chain' = [chain EXCEPT ![src] = Tail(@), ![dst] = Append(@, n)]
  /\ UNCHANGED <<top, const_data, held, freed, ret, callVars>>

(* Mutant: `if' for `while'.                                               *)
merge_return_early ==
  /\ op = "merge"
  /\ op' = "idle"
  /\ UNCHANGED <<ptrVars, const_data, held, freed, ret, dst, src>>

merge_return ==
  /\ op = "merge" /\ e_queue_empty(src)
  /\ op' = "idle"
  /\ UNCHANGED <<ptrVars, const_data, held, freed, ret, dst, src>>

Next ==
  \/ \E q \in Queue :
       \/ \E const \in BOOLEAN : e_queue_init(q, const)
       \/ \E d \in Data : e_queue_push(q, d)
       \/ e_queue_pop(q) \/ e_queue_pop_null(q)
  \/ \E name \in {"clear", "destroy", "merge"}, dq, sq \in Queue :
       e_queue_call(name, dq, sq)
  \/ drop_first \/ clear_return \/ destroy_return
  \/ merge_first \/ merge_return

Spec == Init /\ [][Next]_vars

-----------------------------------------------------------------------------
(* Each list is well formed, between any two operations and in the middle  *)
(* of the loops: following next from top visits the queue's nodes in order *)
(* and ends with NULL, rear is the last of them (top itself once the last  *)
(* datum was popped), and size counts them.                                *)
ListShape ==
  \A q \in Queue :
    IF top[q] = NULL
      THEN rear[q] = NULL /\ chain[q] = <<>> /\ size[q] = 0
      ELSE LET n == Len(chain[q])
           IN  /\ next[top[q]] = IF n = 0 THEN NULL ELSE chain[q][1]
               /\ \A i \in 1 .. n :
                    next[chain[q][i]] = IF i = n THEN NULL ELSE chain[q][i + 1]
               /\ rear[q] = IF n = 0 THEN top[q] ELSE chain[q][n]
               /\ size[q] = n

(* No node is leaked, shared by two queues, met twice or used after it was *)
(* freed: the nodes of the lists are all different and exactly the         *)
(* allocated ones.                                                         *)
NodesOwned ==
  /\ alloc = (Range(top) \ {NULL}) \cup UNION {Range(chain[q]) : q \in Queue}
  /\ \A q, r \in Queue :
       /\ \A i \in 1 .. Len(chain[q]), j \in 1 .. Len(chain[r]) :
            chain[q][i] = chain[r][j] => q = r /\ i = j
       /\ top[q] # NULL => top[q] \notin Range(chain[r])
       /\ top[q] = top[r] => q = r \/ top[q] = NULL

(* What a queue holds, oldest first.                                       *)
List(q) == [i \in 1 .. Len(chain[q]) |-> data[chain[q][i]]]

(* No datum is freed twice, lost, or freed while someone still has it:     *)
(* each is the caller's, or freed, or at one place on one of the queues    *)
(* that own their data.                                                    *)
DataOwned ==
  LET owning == Queue \ const_data
  IN  /\ \A q \in Queue : List(q) \in Seq(Data)
      /\ held \cap freed = {}
      /\ \A q, r \in owning :
           \A i \in 1 .. Len(chain[q]), j \in 1 .. Len(chain[r]) :
             List(q)[i] = List(r)[j] => q = r /\ i = j
      /\ \A q \in owning : Range(List(q)) \cap (held \cup freed) = {}
      /\ Data = held \cup freed \cup UNION {Range(List(q)) : q \in owning}

-----------------------------------------------------------------------------
(* The loops take effect, for the caller, when they begin.                 *)
Dropping(q) == op \in {"clear", "destroy"} /\ q = dst

AbstractContents ==
  [q \in Queue |->
     IF Dropping(q) \/ (op = "merge" /\ q = src) THEN <<>>
     ELSE IF op = "merge" /\ q = dst THEN List(dst) \o List(src)
     ELSE List(q)]

AbstractOpen == {q \in Queue : top[q] # NULL /\ ~ (op = "destroy" /\ q = dst)}

AbstractFreed ==
  freed \cup UNION {Range(List(q)) : q \in {r \in Queue \ const_data : Dropping(r)}}

F == INSTANCE Fifo WITH contents <- AbstractContents, open <- AbstractOpen,
                        freed <- AbstractFreed

(* The linked lists implement first-in first-out queues: every operation,  *)
(* with its loops, has the effect of one step of Fifo.                     *)
IsFifo == F!Spec
=============================================================================
