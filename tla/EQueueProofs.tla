----------------------------- MODULE EQueueProofs -----------------------------
(***************************************************************************)
(* The linked lists of core/e_queue.c are well formed and implement        *)
(* first-in first-out queues, for any number of queues, data and nodes.    *)
(*                                                                         *)
(* The two pointer operations are proved once, about values t, r, s, x, c  *)
(* and a of top, rear, size, next, chain and alloc: an iteration of merge  *)
(* is one after the other.                                                 *)
(***************************************************************************)
EXTENDS EQueue, SequenceTheorems, TLAPS

(* An assignment, and what Unlink assigns to rear[q], named so that the    *)
(* lemmas on them can be instantiated.                                     *)
Put(f, y, v) == [f EXCEPT ![y] = v]
RearLeft(r, t, x, q) == IF r[q] = x[t[q]] THEN t[q] ELSE r[q]

(* The types of the pointers.                                              *)
Typed(t, r, s, x, c, a) ==
  /\ t \in [Queue -> Node \cup {NULL}]
  /\ r \in [Queue -> Node \cup {NULL}]
  /\ s \in [Queue -> Nat]
  /\ x \in [Node -> Node \cup {NULL}]
  /\ c \in [Queue -> Seq(Node)]
  /\ a \subseteq Node

(* ListShape of one queue.                                                 *)
Shaped(t, r, s, x, c, q) ==
  IF t[q] = NULL
    THEN r[q] = NULL /\ c[q] = <<>> /\ s[q] = 0
    ELSE /\ x[t[q]] = IF Len(c[q]) = 0 THEN NULL ELSE c[q][1]
         /\ \A i \in 1 .. Len(c[q]) :
              x[c[q][i]] = IF i = Len(c[q]) THEN NULL ELSE c[q][i + 1]
         /\ r[q] = IF Len(c[q]) = 0 THEN t[q] ELSE c[q][Len(c[q])]
         /\ s[q] = Len(c[q])

(* NodesOwned.                                                             *)
Allocated(t, c, a) ==
  /\ \A n \in a : (\E q \in Queue : t[q] = n) \/ (\E q \in Queue : \E i \in 1 .. Len(c[q]) : c[q][i] = n)
  /\ \A q \in Queue : /\ t[q] # NULL => t[q] \in a
                      /\ \A i \in 1 .. Len(c[q]) : c[q][i] \in a

Distinct(t, c) ==
  \A q, p \in Queue :
    /\ \A i \in 1 .. Len(c[q]), j \in 1 .. Len(c[p]) :
         c[q][i] = c[p][j] => q = p /\ i = j
    /\ \A j \in 1 .. Len(c[p]) : t[q] # c[p][j]
    /\ t[q] = t[p] => q = p \/ t[q] = NULL

WellFormed(t, r, s, x, c, a) ==
  /\ Typed(t, r, s, x, c, a)
  /\ \A q \in Queue : Shaped(t, r, s, x, c, q)
  /\ Allocated(t, c, a)
  /\ Distinct(t, c)

(* A new node behind the last one.                                         *)
LEMMA LinkKeeps ==
  ASSUME NEW t, NEW r, NEW s, NEW x, NEW c, NEW a, WellFormed(t, r, s, x, c, a),
         NEW q \in Queue, t[q] # NULL, NEW n \in Node \ a
  PROVE  WellFormed(t, Put(r, q, n), Put(s, q, s[q] + 1),
                    Put(Put(x, r[q], n), n, NULL),
                    Put(c, q, Append(c[q], n)), a \cup {n})
  <1> DEFINE r1 == [r EXCEPT ![q] = n]
             s1 == [s EXCEPT ![q] = @ + 1]
             x1 == [x EXCEPT ![r[q]] = n, ![n] = NULL]
             c1 == [c EXCEPT ![q] = Append(@, n)]
             a1 == a \cup {n}
  <1> USE EQueueAssumption
  <1>1. Typed(t, r, s, x, c, a) /\ Allocated(t, c, a) /\ Distinct(t, c)
    BY DEF WellFormed
  <1>2. \A p \in Queue : c[p] \in Seq(Node) /\ Len(c[p]) \in Nat /\ s[p] \in Nat
    BY <1>1 DEF Typed
  <1>3. Shaped(t, r, s, x, c, q)
    BY DEF WellFormed
  <1>4. r[q] \in a
    BY <1>1, <1>2, <1>3 DEF Shaped, Allocated
  <1>5. c1 \in [Queue -> Seq(Node)]
    BY <1>1, <1>2 DEF Typed
  <1>6. Typed(t, r1, s1, x1, c1, a1)
    <2>1. r1 \in [Queue -> Node \cup {NULL}] /\ s1 \in [Queue -> Nat]
      BY <1>1, <1>2 DEF Typed
    <2>2. x1 \in [Node -> Node \cup {NULL}]
      BY <1>1 DEF Typed
    <2>3. a1 \subseteq Node
      BY <1>1 DEF Typed
    <2>4. QED
      BY <1>1, <1>5, <2>1, <2>2, <2>3 DEF Typed
  <1>7. /\ \A p \in Queue \ {q} : c1[p] = c[p]
        /\ c1[q] = Append(c[q], n) /\ Len(c1[q]) = Len(c[q]) + 1
        /\ \A i \in 1 .. Len(c[q]) : c1[q][i] = c[q][i]
        /\ c1[q][Len(c[q]) + 1] = n
    <2>1. c[q] \in Seq(Node) /\ c1[q] = Append(c[q], n)
      BY <1>1, <1>2 DEF Typed
    <2>2. QED
      BY <1>1, <2>1 DEF Typed
  <1>8. /\ \A m \in Node \ {n, r[q]} : x1[m] = x[m]
        /\ x1[n] = NULL /\ x1[r[q]] = n
    BY <1>1, <1>4 DEF Typed
  <1> HIDE DEF r1, s1, x1, c1, a1
  <1>9. Shaped(t, r1, s1, x1, c1, q)
    <2>1. r1[q] = n /\ s1[q] = s[q] + 1
      BY <1>1 DEF Typed, r1, s1
    <2>2. CASE Len(c[q]) = 0
      BY <1>2, <1>3, <1>7, <1>8, <2>1, <2>2 DEF Shaped
    <2>3. CASE Len(c[q]) # 0
      <3>1. c[q][Len(c[q])] = r[q] /\ Len(c[q]) \in 1 .. Len(c[q])
        BY <1>2, <1>3, <2>3 DEF Shaped
      <3>2. t[q] \in a /\ t[q] # r[q] /\ t[q] \in Node
        BY <1>1, <3>1 DEF Allocated, Distinct, Typed
      <3>3. x1[t[q]] = c1[q][1] /\ Len(c1[q]) # 0
        BY <1>2, <1>3, <1>7, <1>8, <2>3, <3>2 DEF Shaped
      <3>4. ASSUME NEW i \in 1 .. Len(c1[q])
            PROVE  x1[c1[q][i]] = IF i = Len(c1[q]) THEN NULL ELSE c1[q][i + 1]
        <4>1. CASE i = Len(c[q]) + 1
          BY <1>2, <1>7, <1>8, <4>1
        <4>2. CASE i = Len(c[q])
          BY <1>2, <1>7, <1>8, <3>1, <4>2
        <4>3. CASE i \in 1 .. Len(c[q]) - 1
          <5>1. c[q][i] \in a /\ c[q][i] \in Node /\ c[q][i] # r[q]
            BY <1>1, <1>2, <3>1, <4>3 DEF Allocated, Distinct, Typed
          <5>2. x1[c[q][i]] = c[q][i + 1]
            BY <1>2, <1>3, <1>8, <4>3, <5>1 DEF Shaped
          <5>3. QED
            BY <1>2, <1>7, <4>3, <5>2
        <4>4. QED
          BY <1>2, <1>7, <4>1, <4>2, <4>3
      <3>5. QED
        BY <1>2, <1>3, <1>7, <2>1, <3>3, <3>4 DEF Shaped
    <2>4. QED
      BY <2>2, <2>3
  <1>10. ASSUME NEW p \in Queue \ {q}
         PROVE  Shaped(t, r1, s1, x1, c1, p)
    <2>1. c1[p] = c[p] /\ r1[p] = r[p] /\ s1[p] = s[p] /\ Shaped(t, r, s, x, c, p)
      BY <1>1, <1>7 DEF Typed, r1, s1, WellFormed
    <2>2. t[p] # NULL => t[p] \in Node \ {n, r[q]}
      BY <1>1, <1>2, <1>3 DEF Typed, Allocated, Distinct, Shaped
    <2>3. \A i \in 1 .. Len(c[p]) : c[p][i] \in Node \ {n, r[q]}
      BY <1>1, <1>2, <1>3 DEF Typed, Allocated, Distinct, Shaped
    <2>4. QED
      BY <1>8, <2>1, <2>2, <2>3 DEF Shaped
  <1>11. Allocated(t, c1, a1)
    <2>1. ASSUME NEW m \in a1
          PROVE  \/ \E p \in Queue : t[p] = m
                 \/ \E p \in Queue : \E i \in 1 .. Len(c1[p]) : c1[p][i] = m
      <3>1. CASE m = n
        BY <1>2, <1>7, <3>1
      <3>2. ASSUME NEW p \in Queue, NEW i \in 1 .. Len(c[p]), c[p][i] = m
            PROVE  i \in 1 .. Len(c1[p]) /\ c1[p][i] = m
        <4>1. CASE p = q
          BY <1>2, <1>7, <3>2, <4>1
        <4>2. CASE p # q
          BY <1>7, <3>2, <4>2
        <4>3. QED
          BY <4>1, <4>2
      <3>3. QED
        BY <1>1, <3>1, <3>2 DEF Allocated, a1
    <2>2. ASSUME NEW p \in Queue, NEW i \in 1 .. Len(c1[p])
          PROVE  c1[p][i] \in a1
      <3>1. CASE p = q
        <4>1. i \in 1 .. Len(c[q]) \/ i = Len(c[q]) + 1
          BY <1>2, <1>7, <3>1
        <4>2. QED
          BY <1>1, <1>7, <3>1, <4>1 DEF Allocated, a1
      <3>2. CASE p # q
        BY <1>1, <1>7, <3>2 DEF Allocated, a1
      <3>3. QED
        BY <3>1, <3>2
    <2>3. QED
      BY <1>1, <2>1, <2>2 DEF Allocated, a1
  <1>12. Distinct(t, c1)
    <2>1. ASSUME NEW p \in Queue, NEW i \in 1 .. Len(c1[p])
          PROVE  \/ i \in 1 .. Len(c[p]) /\ c1[p][i] = c[p][i] /\ c[p][i] \in a
                 \/ p = q /\ i = Len(c[q]) + 1 /\ c1[p][i] = n
      <3>1. CASE p = q
        <4>1. i \in 1 .. Len(c[q]) \/ i = Len(c[q]) + 1
          BY <1>2, <1>7, <3>1
        <4>2. QED
          BY <1>1, <1>7, <3>1, <4>1 DEF Allocated
      <3>2. CASE p # q
        BY <1>1, <1>7, <3>2 DEF Allocated
      <3>3. QED
        BY <3>1, <3>2
    <2>2. \A p \in Queue : t[p] # n
      BY <1>1 DEF Allocated
    <2>3. ASSUME NEW p \in Queue, NEW m \in Queue,
                 NEW i \in 1 .. Len(c1[p]), NEW j \in 1 .. Len(c1[m]), c1[p][i] = c1[m][j]
          PROVE  p = m /\ i = j
      <3>1. CASE i \in 1 .. Len(c[p]) /\ c1[p][i] = c[p][i] /\ c[p][i] \in a
        <4>1. j \in 1 .. Len(c[m]) /\ c1[m][j] = c[m][j]
          BY <2>1, <2>3, <3>1
        <4>2. c[p][i] = c[m][j]
          BY <2>3, <3>1, <4>1
        <4>3. QED
          BY <1>1, <3>1, <4>1, <4>2 DEF Distinct
      <3>2. CASE p = q /\ i = Len(c[q]) + 1 /\ c1[p][i] = n
        <4>1. m = q /\ j = Len(c[q]) + 1
          BY <2>1, <2>3, <3>2
        <4>2. QED
          BY <3>2, <4>1
      <3>3. QED
        BY <2>1, <3>1, <3>2
    <2>4. ASSUME NEW p \in Queue, NEW m \in Queue, NEW j \in 1 .. Len(c1[m])
          PROVE  t[p] # c1[m][j]
      BY <1>1, <2>1, <2>2 DEF Distinct
    <2>5. \A p, m \in Queue : t[m] = t[p] => m = p \/ t[m] = NULL
      BY <1>1 DEF Distinct
    <2>6. QED
      BY <2>3, <2>4, <2>5 DEF Distinct
  <1>13. QED
    BY <1>6, <1>9, <1>10, <1>11, <1>12 DEF WellFormed, r1, s1, x1, c1, a1, Put

(* The first node with a datum goes.                                       *)
LEMMA UnlinkKeeps ==
  ASSUME NEW t, NEW r, NEW s, NEW x, NEW c, NEW a, WellFormed(t, r, s, x, c, a),
         NEW q \in Queue, t[q] # NULL, x[t[q]] # NULL
  PROVE  /\ x[t[q]] = c[q][1] /\ Len(c[q]) > 0
         /\ WellFormed(t, Put(r, q, RearLeft(r, t, x, q)),
                       Put(s, q, s[q] - 1), Put(x, t[q], x[x[t[q]]]),
                       Put(c, q, Tail(c[q])), a \ {x[t[q]]})
  <1> DEFINE node == x[t[q]]
             r1 == [r EXCEPT ![q] = IF @ = node THEN t[q] ELSE @]
             s1 == [s EXCEPT ![q] = @ - 1]
             x1 == [x EXCEPT ![t[q]] = x[node]]
             c1 == [c EXCEPT ![q] = Tail(@)]
             a1 == a \ {node}
  <1> USE EQueueAssumption
  <1>1. Typed(t, r, s, x, c, a) /\ Allocated(t, c, a) /\ Distinct(t, c)
    BY DEF WellFormed
  <1>2. \A p \in Queue : c[p] \in Seq(Node) /\ Len(c[p]) \in Nat /\ s[p] \in Nat
    BY <1>1 DEF Typed
  <1>3. Shaped(t, r, s, x, c, q)
    BY DEF WellFormed
  <1>4. node = c[q][1] /\ Len(c[q]) > 0 /\ node \in Node /\ t[q] \in Node
    BY <1>1, <1>2, <1>3 DEF Shaped, Typed
  <1>5. c[q] # <<>> /\ Tail(c[q]) \in Seq(Node) /\ Len(Tail(c[q])) = Len(c[q]) - 1
        /\ \A i \in 1 .. Len(c[q]) - 1 : Tail(c[q])[i] = c[q][i + 1]
    BY <1>2, <1>4
  <1>6. Typed(t, r1, s1, x1, c1, a1)
    <2>1. s[q] - 1 \in Nat
      BY <1>2, <1>3, <1>4 DEF Shaped
    <2>2. x[node] \in Node \cup {NULL}
      BY <1>1, <1>4 DEF Typed
    <2>3. QED
      BY <1>1, <1>4, <1>5, <2>1, <2>2 DEF Typed
  <1>7. /\ \A p \in Queue \ {q} : c1[p] = c[p]
        /\ Len(c1[q]) = Len(c[q]) - 1
        /\ \A i \in 1 .. Len(c[q]) - 1 : c1[q][i] = c[q][i + 1]
    BY <1>1, <1>5 DEF Typed
  <1>8. (\A m \in Node \ {t[q]} : x1[m] = x[m]) /\ x1[t[q]] = x[node]
    BY <1>1, <1>4 DEF Typed
  <1>9. r1[q] = (IF r[q] = node THEN t[q] ELSE r[q]) /\ s1[q] = s[q] - 1
    BY <1>1 DEF Typed
  <1> HIDE DEF node, r1, s1, x1, c1, a1
  <1>10. Shaped(t, r1, s1, x1, c1, q)
    <2>1. x1[t[q]] = IF Len(c1[q]) = 0 THEN NULL ELSE c1[q][1]
      <3>1. x[node] = IF 1 = Len(c[q]) THEN NULL ELSE c[q][2]
        <4>1. 1 \in 1 .. Len(c[q])
          BY <1>2, <1>4
        <4>2. x[c[q][1]] = IF 1 = Len(c[q]) THEN NULL ELSE c[q][1 + 1]
          BY <1>3, <1>4, <4>1 DEF Shaped
        <4>3. QED
          BY <1>4, <4>2
      <3>2. Len(c[q]) # 1 => c1[q][1] = c[q][2]
        <4>1. Len(c[q]) # 1 => 1 \in 1 .. Len(c[q]) - 1
          <5> DEFINE k == Len(c[q])
          <5>1. k \in Nat /\ k > 0
            BY <1>2, <1>4
          <5> HIDE DEF k
          <5>2. k # 1 => 1 \in 1 .. k - 1
            BY <5>1
          <5>3. QED
            BY <5>2 DEF k
        <4>2. Len(c[q]) # 1 => c1[q][1] = c[q][1 + 1]
          BY <1>7, <4>1
        <4>3. QED
          BY <4>2
      <3>3. QED
        BY <1>2, <1>7, <1>8, <3>1, <3>2
    <2>2. ASSUME NEW i \in 1 .. Len(c1[q])
          PROVE  x1[c1[q][i]] = IF i = Len(c1[q]) THEN NULL ELSE c1[q][i + 1]
      <3>1. i + 1 \in 1 .. Len(c[q]) /\ c1[q][i] = c[q][i + 1]
        BY <1>2, <1>4, <1>7
      <3>2. c[q][i + 1] \in Node \ {t[q]}
        BY <1>1, <1>2, <3>1 DEF Distinct, Typed
      <3>3. x1[c1[q][i]] = IF i + 1 = Len(c[q]) THEN NULL ELSE c[q][i + 1 + 1]
        BY <1>3, <1>8, <3>1, <3>2 DEF Shaped
      <3>4. QED
        BY <1>2, <1>7, <3>1, <3>3
    <2>3. r1[q] = IF Len(c1[q]) = 0 THEN t[q] ELSE c1[q][Len(c1[q])]
      <3>1. r[q] = c[q][Len(c[q])] /\ Len(c[q]) \in 1 .. Len(c[q])
        BY <1>2, <1>3, <1>4 DEF Shaped
      <3>2. r[q] = node <=> Len(c[q]) = 1
        <4>1. 1 \in 1 .. Len(c[q])
          BY <1>2, <1>4
        <4>2. c[q][Len(c[q])] = c[q][1] => Len(c[q]) = 1
          BY <1>1, <3>1, <4>1 DEF Distinct
        <4>3. QED
          BY <1>4, <3>1, <4>2
      <3>3. CASE Len(c[q]) = 1
        BY <1>7, <1>9, <3>2, <3>3
      <3>4. CASE Len(c[q]) # 1
        <4> DEFINE k == Len(c[q])
        <4>1. k \in Nat /\ k > 0 /\ k # 1 /\ Len(c1[q]) = k - 1
          BY <1>2, <1>4, <1>7, <3>4
        <4> HIDE DEF k
        <4>2. Len(c1[q]) \in 1 .. k - 1 /\ Len(c1[q]) + 1 = k
          BY <4>1
        <4>3. c1[q][Len(c1[q])] = c[q][Len(c[q])]
          BY <1>7, <4>2 DEF k
        <4>4. QED
          BY <1>9, <3>1, <3>2, <3>4, <4>2, <4>3
      <3>5. QED
        BY <3>3, <3>4
    <2>4. s1[q] = Len(c1[q])
      BY <1>2, <1>3, <1>4, <1>7, <1>9 DEF Shaped
    <2>5. QED
      BY <2>1, <2>2, <2>3, <2>4 DEF Shaped
  <1>11. ASSUME NEW p \in Queue \ {q}
         PROVE  Shaped(t, r1, s1, x1, c1, p)
    <2>1. c1[p] = c[p] /\ r1[p] = r[p] /\ s1[p] = s[p] /\ Shaped(t, r, s, x, c, p)
      BY <1>1, <1>7 DEF Typed, r1, s1, WellFormed
    <2>2. t[p] # NULL => t[p] \in Node \ {t[q]}
      BY <1>1 DEF Typed, Distinct
    <2>3. \A i \in 1 .. Len(c[p]) : c[p][i] \in Node \ {t[q]}
      BY <1>1, <1>2 DEF Typed, Distinct
    <2>4. QED
      BY <1>8, <2>1, <2>2, <2>3 DEF Shaped
  <1>12. Allocated(t, c1, a1)
    <2>1. ASSUME NEW m \in a1
          PROVE  \/ \E p \in Queue : t[p] = m
                 \/ \E p \in Queue : \E i \in 1 .. Len(c1[p]) : c1[p][i] = m
      <3>1. ASSUME NEW p \in Queue, NEW i \in 1 .. Len(c[p]), c[p][i] = m
            PROVE  \E j \in 1 .. Len(c1[p]) : c1[p][j] = m
        <4>1. CASE p = q
          <5>1. i - 1 \in 1 .. Len(c1[q]) /\ c1[q][i - 1] = m
            BY <1>2, <1>4, <1>7, <3>1, <4>1 DEF a1
          <5>2. QED
            BY <4>1, <5>1
        <4>2. CASE p # q
          BY <1>7, <3>1, <4>2
        <4>3. QED
          BY <4>1, <4>2
      <3>2. QED
        BY <1>1, <3>1 DEF Allocated, a1
    <2>2. ASSUME NEW p \in Queue, NEW i \in 1 .. Len(c1[p])
          PROVE  c1[p][i] \in a1
      <3>1. CASE p = q
        <4>1. i + 1 \in 1 .. Len(c[q]) /\ c1[q][i] = c[q][i + 1] /\ i + 1 # 1 /\ 1 \in 1 .. Len(c[q])
          BY <1>2, <1>4, <1>7, <3>1
        <4>2. QED
          BY <1>1, <1>4, <3>1, <4>1 DEF Allocated, Distinct, a1
      <3>2. CASE p # q
        BY <1>1, <1>2, <1>4, <1>7, <3>2 DEF Allocated, Distinct, a1
      <3>3. QED
        BY <3>1, <3>2
    <2>3. ASSUME NEW p \in Queue, t[p] # NULL
          PROVE  t[p] \in a1
      BY <1>1, <1>2, <1>4, <2>3 DEF Allocated, Distinct, a1
    <2>4. QED
      BY <2>1, <2>2, <2>3 DEF Allocated
  <1>13. Distinct(t, c1)
    <2> DEFINE was(p, i) == IF p = q THEN i + 1 ELSE i
    <2>1. ASSUME NEW p \in Queue, NEW i \in 1 .. Len(c1[p])
          PROVE  was(p, i) \in 1 .. Len(c[p]) /\ c1[p][i] = c[p][was(p, i)]
      BY <1>2, <1>4, <1>7
    <2>2. ASSUME NEW p \in Queue, NEW u \in Queue,
                 NEW i \in 1 .. Len(c1[p]), NEW j \in 1 .. Len(c1[u]), c1[p][i] = c1[u][j]
          PROVE  p = u /\ i = j
      <3> DEFINE k == was(p, i)
                 l == was(u, j)
      <3>. c[p][k] = c[u][l] /\ k \in 1 .. Len(c[p]) /\ l \in 1 .. Len(c[u])
        BY <2>1, <2>2
      <3>1. p = u /\ k = l
        <4> HIDE DEF k, l
        <4>1. QED
          BY <1>1 DEF Distinct
      <3>2. i \in Int /\ j \in Int
        OBVIOUS
      <3>3. QED
        BY <3>1, <3>2
    <2>3. \A p, u \in Queue : \A j \in 1 .. Len(c1[u]) : t[p] # c1[u][j]
      BY <1>1, <2>1 DEF Distinct
    <2>4. QED
      BY <1>1, <2>2, <2>3 DEF Distinct
  <1>14. QED
    BY <1>4, <1>6, <1>10, <1>11, <1>12, <1>13 DEF WellFormed, node, r1, s1, x1, c1, a1, Put, RearLeft

(* A node without a datum begins a list ...                                *)
LEMMA OpenKeeps ==
  ASSUME NEW t, NEW r, NEW s, NEW x, NEW c, NEW a, WellFormed(t, r, s, x, c, a),
         NEW q \in Queue, t[q] = NULL, NEW n \in Node, n \notin a
  PROVE  WellFormed(Put(t, q, n), Put(r, q, n), Put(s, q, 0), Put(x, n, NULL), c, a \cup {n})
  <1> DEFINE t1 == Put(t, q, n)
             r1 == Put(r, q, n)
             s1 == Put(s, q, 0)
             x1 == Put(x, n, NULL)
             a1 == a \cup {n}
  <1> USE EQueueAssumption
  <1>1. Typed(t, r, s, x, c, a) /\ Allocated(t, c, a) /\ Distinct(t, c)
    BY DEF WellFormed
  <1>2. \A p \in Queue : c[p] \in Seq(Node) /\ Len(c[p]) \in Nat
    BY <1>1 DEF Typed
  <1>3. c[q] = <<>> /\ Len(c[q]) = 0
    BY DEF WellFormed, Shaped
  <1>4. n \in Node /\ n \notin a /\ n # NULL
    OBVIOUS
  <1>5. Typed(t1, r1, s1, x1, c, a1)
    BY <1>1 DEF Typed, Put
  <1>6. /\ \A p \in Queue \ {q} : t1[p] = t[p] /\ r1[p] = r[p] /\ s1[p] = s[p]
        /\ t1[q] = n /\ r1[q] = n /\ s1[q] = 0
        /\ \A m \in Node \ {n} : x1[m] = x[m]
        /\ x1[n] = NULL
    BY <1>1 DEF Typed, Put
  <1> HIDE DEF t1, r1, s1, x1
  <1>7. ASSUME NEW p \in Queue
        PROVE  Shaped(t1, r1, s1, x1, c, p)
    <2>1. CASE p = q
      BY <1>3, <1>4, <1>6, <2>1 DEF Shaped
    <2>2. CASE p # q
      <3>1. Shaped(t, r, s, x, c, p)
        BY DEF WellFormed
      <3>2. t[p] # NULL => t[p] \in Node \ {n}
        BY <1>1 DEF Typed, Allocated
      <3>3. \A i \in 1 .. Len(c[p]) : c[p][i] \in Node \ {n}
        BY <1>1, <1>2 DEF Allocated
      <3>4. QED
        BY <1>6, <2>2, <3>1, <3>2, <3>3 DEF Shaped
    <2>3. QED
      BY <2>1, <2>2
  <1>8. Allocated(t1, c, a1)
    <2>1. ASSUME NEW m \in a1
          PROVE  \/ \E p \in Queue : t1[p] = m
                 \/ \E p \in Queue : \E i \in 1 .. Len(c[p]) : c[p][i] = m
      <3>1. CASE m = n
        BY <1>6, <3>1
      <3>2. CASE m \in a /\ \E p \in Queue : t[p] = m
        BY <1>1, <1>4, <1>6, <3>2 DEF Typed
      <3>3. QED
        BY <1>1, <3>1, <3>2 DEF Allocated
    <2>2. QED
      BY <1>1, <1>6, <2>1 DEF Allocated
  <1>9. Distinct(t1, c)
    <2>1. \A p \in Queue : t[p] # n /\ \A i \in 1 .. Len(c[p]) : c[p][i] # n
      BY <1>1, <1>4 DEF Allocated
    <2>2. QED
      BY <1>1, <1>6, <2>1 DEF Distinct
  <1>10. QED
    BY <1>5, <1>7, <1>8, <1>9 DEF WellFormed, t1, r1, s1, x1

(* ... and is the last to go.                                              *)
LEMMA CloseKeeps ==
  ASSUME NEW t, NEW r, NEW s, NEW x, NEW c, NEW a, WellFormed(t, r, s, x, c, a),
         NEW q \in Queue, t[q] # NULL, c[q] = <<>>
  PROVE  WellFormed(Put(t, q, NULL), Put(r, q, NULL), Put(s, q, 0), x, c, a \ {t[q]})
  <1> DEFINE t1 == Put(t, q, NULL)
             r1 == Put(r, q, NULL)
             s1 == Put(s, q, 0)
             a1 == a \ {t[q]}
  <1> USE EQueueAssumption
  <1>1. Typed(t, r, s, x, c, a) /\ Allocated(t, c, a) /\ Distinct(t, c)
    BY DEF WellFormed
  <1>2. Len(c[q]) = 0
    OBVIOUS
  <1>3. Typed(t1, r1, s1, x, c, a1)
    BY <1>1 DEF Typed, Put
  <1>4. /\ \A p \in Queue \ {q} : t1[p] = t[p] /\ r1[p] = r[p] /\ s1[p] = s[p]
        /\ t1[q] = NULL /\ r1[q] = NULL /\ s1[q] = 0
    BY <1>1 DEF Typed, Put
  <1> HIDE DEF t1, r1, s1
  <1>5. ASSUME NEW p \in Queue
        PROVE  Shaped(t1, r1, s1, x, c, p)
    BY <1>2, <1>4 DEF WellFormed, Shaped
  <1>6. Allocated(t1, c, a1)
    <2>1. ASSUME NEW m \in a1
          PROVE  \/ \E p \in Queue : t1[p] = m
                 \/ \E p \in Queue : \E i \in 1 .. Len(c[p]) : c[p][i] = m
      BY <1>1, <1>4 DEF Allocated
    <2>2. \A p \in Queue : t1[p] # NULL => t1[p] \in a1
      BY <1>1, <1>4 DEF Allocated, Distinct
    <2>3. \A p \in Queue : \A i \in 1 .. Len(c[p]) : c[p][i] \in a1
      BY <1>1 DEF Allocated, Distinct
    <2>4. QED
      BY <2>1, <2>2, <2>3 DEF Allocated
  <1>7. Distinct(t1, c)
    <2>1. \A p \in Queue : \A i \in 1 .. Len(c[p]) : c[p][i] \in Node
      BY <1>1 DEF Typed, Allocated
    <2>2. QED
      BY <1>1, <1>4, <2>1 DEF Distinct
  <1>8. QED
    BY <1>3, <1>5, <1>6, <1>7 DEF WellFormed, t1, r1, s1

-----------------------------------------------------------------------------
(* What the queues hold.                                                   *)

Lists(c, d) == [q \in Queue |-> [i \in 1 .. Len(c[q]) |-> d[c[q][i]]]]

LEMMA ListsTyped ==
  ASSUME NEW c \in [Queue -> Seq(Node)], NEW d \in [Node -> Data \cup {NULL}], NEW q \in Queue
  PROVE  /\ Lists(c, d)[q] \in Seq(Data \cup {NULL})
         /\ Len(Lists(c, d)[q]) = Len(c[q]) /\ Len(c[q]) \in Nat
         /\ \A i \in 1 .. Len(c[q]) : Lists(c, d)[q][i] = d[c[q][i]] /\ c[q][i] \in Node
  <1> DEFINE l == Lists(c, d)[q]
  <1>1. c[q] \in Seq(Node) /\ Len(c[q]) \in Nat
    OBVIOUS
  <1>2. l = [i \in 1 .. Len(c[q]) |-> d[c[q][i]]]
    BY DEF Lists
  <1>3. \A i \in 1 .. Len(c[q]) : c[q][i] \in Node /\ d[c[q][i]] \in Data \cup {NULL}
    BY <1>1
  <1>4. l \in Seq(Data \cup {NULL}) /\ Len(l) = Len(c[q])
    <2> HIDE DEF l
    <2>1. l \in [1 .. Len(c[q]) -> Data \cup {NULL}]
      BY <1>2, <1>3
    <2>2. QED
      BY <1>1, <2>1
  <1>5. QED
    BY <1>1, <1>2, <1>3, <1>4

(* A new node is in no list: only the list it is appended to changes.      *)
LEMMA LinkLists ==
  ASSUME NEW c \in [Queue -> Seq(Node)], NEW d \in [Node -> Data \cup {NULL}],
         NEW q \in Queue, NEW n \in Node, NEW v \in Data,
         \A p \in Queue : \A i \in 1 .. Len(c[p]) : c[p][i] # n
  PROVE  Lists(Put(c, q, Append(c[q], n)), Put(d, n, v))
           = Put(Lists(c, d), q, Append(Lists(c, d)[q], v))
  <1> DEFINE c1 == [c EXCEPT ![q] = Append(@, n)]
             d1 == [d EXCEPT ![n] = v]
             L  == Lists(c, d)
             L1 == Lists(c1, d1)
  <1>1. c[q] \in Seq(Node) /\ Append(c[q], n) \in Seq(Node)
    OBVIOUS
  <1>2. c1 \in [Queue -> Seq(Node)] /\ c1[q] = Append(c[q], n)
        /\ \A p \in Queue \ {q} : c1[p] = c[p]
    BY <1>1
  <1>3. d1 \in [Node -> Data \cup {NULL}] /\ d1[n] = v /\ \A m \in Node \ {n} : d1[m] = d[m]
    OBVIOUS
  <1> HIDE DEF c1, d1
  <1>a. ASSUME NEW p \in Queue
        PROVE  /\ L[p] \in Seq(Data \cup {NULL}) /\ Len(L[p]) = Len(c[p])
               /\ \A i \in 1 .. Len(c[p]) : L[p][i] = d[c[p][i]] /\ c[p][i] \in Node
    BY ListsTyped
  <1>b. /\ L1[q] \in Seq(Data \cup {NULL}) /\ Len(L1[q]) = Len(c1[q])
        /\ \A i \in 1 .. Len(c1[q]) : L1[q][i] = d1[c1[q][i]]
    BY <1>2, <1>3, ListsTyped
  <1>4. L1[q] = Append(L[q], v)
    <2> HIDE DEF L, L1
    <2>1. L1[q] \in Seq(Data \cup {NULL}) /\ L[q] \in Seq(Data \cup {NULL})
      BY <1>a, <1>b
    <2>2. Append(L[q], v) \in Seq(Data \cup {NULL})
      BY <2>1
    <2>3. Len(L1[q]) = Len(c[q]) + 1 /\ Len(Append(L[q], v)) = Len(c[q]) + 1
      BY <1>1, <1>2, <1>a, <1>b, <2>1
    <2>4. ASSUME NEW i \in 1 .. Len(L1[q])
          PROVE  L1[q][i] = Append(L[q], v)[i]
      <3>1. i \in 1 .. Len(c1[q]) /\ L1[q][i] = d1[c1[q][i]]
        BY <1>b
      <3>2. CASE i = Len(c[q]) + 1
        <4>1. c1[q][i] = n
          BY <1>1, <1>2, <3>2
        <4>2. Append(L[q], v)[i] = v
          BY <1>a, <2>1, <3>2
        <4>3. QED
          BY <1>3, <3>1, <4>1, <4>2
      <3>3. CASE i # Len(c[q]) + 1
        <4>1. i \in 1 .. Len(c[q])
          BY <1>1, <2>3, <3>3
        <4>2. c1[q][i] = c[q][i] /\ c[q][i] \in Node \ {n}
          BY <1>1, <1>2, <4>1
        <4>3. Append(L[q], v)[i] = L[q][i]
          BY <1>a, <2>1, <4>1
        <4>4. L[q][i] = d[c[q][i]]
          BY <1>a, <4>1
        <4>5. QED
          BY <1>3, <3>1, <4>2, <4>3, <4>4
      <3>4. QED
        BY <3>2, <3>3
    <2>5. QED
      BY <2>1, <2>2, <2>3, <2>4, SeqEqual
  <1>5. ASSUME NEW p \in Queue \ {q}
        PROVE  L1[p] = L[p]
    <2>1. \A i \in 1 .. Len(c[p]) : c[p][i] \in Node \ {n}
      BY <1>a
    <2>2. \A i \in 1 .. Len(c[p]) : d1[c[p][i]] = d[c[p][i]]
      BY <1>3, <2>1
    <2>3. L1[p] = [i \in 1 .. Len(c[p]) |-> d1[c[p][i]]]
      BY <1>2 DEF Lists
    <2>4. L[p] = [i \in 1 .. Len(c[p]) |-> d[c[p][i]]]
      BY DEF Lists
    <2>5. QED
      BY <2>2, <2>3, <2>4
  <1>6. L1 = [p \in Queue |-> L1[p]] /\ L = [p \in Queue |-> L[p]]
    BY DEF Lists
  <1>7. L1 = [L EXCEPT ![q] = Append(L[q], v)]
    <2> HIDE DEF L1, L
    <2>1. QED
      BY <1>4, <1>5, <1>6
  <1>8. QED
    BY <1>7 DEF c1, d1, Put

(* Without its first node a list has lost its first datum.                 *)
LEMMA UnlinkLists ==
  ASSUME NEW c \in [Queue -> Seq(Node)], NEW d \in [Node -> Data \cup {NULL}],
         NEW q \in Queue, Len(c[q]) > 0
  PROVE  /\ Lists(Put(c, q, Tail(c[q])), d) = Put(Lists(c, d), q, Tail(Lists(c, d)[q]))
         /\ Head(Lists(c, d)[q]) = d[c[q][1]] /\ Lists(c, d)[q] # <<>>
  <1> DEFINE c1 == [c EXCEPT ![q] = Tail(@)]
             L  == Lists(c, d)
             L1 == Lists(c1, d)
  <1>1. c[q] \in Seq(Node) /\ c[q] # <<>> /\ Len(c[q]) \in Nat
    OBVIOUS
  <1>2. Tail(c[q]) \in Seq(Node) /\ Len(Tail(c[q])) = Len(c[q]) - 1
        /\ \A i \in 1 .. Len(Tail(c[q])) : Tail(c[q])[i] = c[q][i + 1]
    BY <1>1, HeadTailProperties
  <1>3. c1 \in [Queue -> Seq(Node)] /\ c1[q] = Tail(c[q]) /\ \A p \in Queue \ {q} : c1[p] = c[p]
    BY <1>2
  <1> HIDE DEF c1
  <1>a. /\ L[q] \in Seq(Data \cup {NULL}) /\ Len(L[q]) = Len(c[q])
        /\ \A i \in 1 .. Len(c[q]) : L[q][i] = d[c[q][i]]
    BY ListsTyped
  <1>b. /\ L1[q] \in Seq(Data \cup {NULL}) /\ Len(L1[q]) = Len(c1[q])
        /\ \A i \in 1 .. Len(c1[q]) : L1[q][i] = d[c1[q][i]]
    BY <1>3, ListsTyped
  <1>4. L[q] \in Seq(Data \cup {NULL}) /\ Len(L[q]) = Len(c[q]) /\ L[q] # <<>>
    <2> HIDE DEF L
    <2>1. QED
      BY <1>1, <1>a
  <1>5. Tail(L[q]) \in Seq(Data \cup {NULL}) /\ Len(Tail(L[q])) = Len(c[q]) - 1
        /\ \A i \in 1 .. Len(Tail(L[q])) : Tail(L[q])[i] = L[q][i + 1]
    BY <1>4, HeadTailProperties
  <1>6. L1[q] = Tail(L[q])
    <2> HIDE DEF L, L1
    <2>1. L1[q] \in Seq(Data \cup {NULL}) /\ Len(L1[q]) = Len(c[q]) - 1
      BY <1>2, <1>3, <1>b
    <2>2. ASSUME NEW i \in 1 .. Len(L1[q])
          PROVE  L1[q][i] = Tail(L[q])[i]
      <3>1. i + 1 \in 1 .. Len(c[q])
        BY <1>1, <2>1
      <3>2. i \in 1 .. Len(c1[q]) /\ L1[q][i] = d[c1[q][i]]
        BY <1>b
      <3>3. c1[q][i] = c[q][i + 1]
        BY <1>2, <1>3, <3>2
      <3>4. L[q][i + 1] = d[c[q][i + 1]]
        BY <1>a, <3>1
      <3>5. Tail(L[q])[i] = L[q][i + 1]
        BY <1>5, <2>1
      <3>6. QED
        BY <3>2, <3>3, <3>4, <3>5
    <2> DEFINE u == L1[q]
               w == Tail(L[q])
    <2>3. /\ u \in Seq(Data \cup {NULL}) /\ w \in Seq(Data \cup {NULL}) /\ Len(u) = Len(w)
          /\ \A i \in 1 .. Len(u) : u[i] = w[i]
      BY <1>5, <2>1, <2>2
    <2> HIDE DEF u, w
    <2>4. u = w
      BY <2>3, SeqEqual
    <2>5. QED
      BY <2>4 DEF u, w
  <1>7. \A p \in Queue \ {q} : L1[p] = L[p]
    BY <1>3 DEF Lists
  <1>8. L1 = [p \in Queue |-> L1[p]] /\ L = [p \in Queue |-> L[p]]
    BY DEF Lists
  <1>9. L1 = [L EXCEPT ![q] = Tail(L[q])]
    <2> HIDE DEF L1, L
    <2>1. QED
      BY <1>6, <1>7, <1>8
  <1>10. Head(L[q]) = d[c[q][1]]
    <2>1. 1 \in 1 .. Len(c[q])
      BY <1>1
    <2>2. Head(L[q]) = L[q][1]
      BY <1>4
    <2>3. QED
      BY <1>a, <2>1, <2>2
  <1>11. QED
    BY <1>4, <1>9, <1>10 DEF c1, Put

-----------------------------------------------------------------------------
(* Who has each datum: L, k, h and f are what the queues hold, const_data, *)
(* held and freed.                                                         *)
Owned(L, k, h, f) ==
  /\ L \in [Queue -> Seq(Data)]
  /\ h \subseteq Data /\ f \subseteq Data /\ h \cap f = {}
  /\ \A q, p \in Queue \ k : \A i \in 1 .. Len(L[q]), j \in 1 .. Len(L[p]) :
       L[q][i] = L[p][j] => q = p /\ i = j
  /\ \A q \in Queue \ k : \A i \in 1 .. Len(L[q]) : L[q][i] \notin h \cup f
  /\ \A v \in Data \ (h \cup f) : \E q \in Queue \ k : \E i \in 1 .. Len(L[q]) : L[q][i] = v

(* What is the caller's after a push and after a pop.                      *)
Given(h, k, q, v) == IF q \in k THEN h ELSE h \ {v}
Taken(h, k, q, v) == IF q \in k THEN h ELSE h \cup {v}

(* A datum is given to a queue.                                            *)
LEMMA AppendOwned ==
  ASSUME NEW L, NEW k, NEW h, NEW f, Owned(L, k, h, f), NEW q \in Queue, NEW v \in Data,
         q \notin k => v \in h
  PROVE  Owned(Put(L, q, Append(L[q], v)), k, Given(h, k, q, v), f)
  <1> DEFINE L1 == [L EXCEPT ![q] = Append(@, v)]
             h1 == IF q \in k THEN h ELSE h \ {v}
             l == Len(L[q])
  <1>1. L \in [Queue -> Seq(Data)] /\ h \subseteq Data /\ f \subseteq Data /\ h \cap f = {}
    BY DEF Owned
  <1>2. L[q] \in Seq(Data) /\ v \in Data /\ l \in Nat
    BY <1>1
  <1>3. Append(L[q], v) \in Seq(Data) /\ Len(Append(L[q], v)) = l + 1
        /\ (\A i \in 1 .. l : Append(L[q], v)[i] = L[q][i]) /\ Append(L[q], v)[l + 1] = v
    BY <1>2, AppendProperties
  <1>4. L1 \in [Queue -> Seq(Data)] /\ L1[q] = Append(L[q], v)
        /\ \A p \in Queue \ {q} : L1[p] = L[p]
    BY <1>1, <1>3
  <1> HIDE DEF L1, l
  <1>5. ASSUME NEW p \in Queue, NEW i \in 1 .. Len(L1[p])
        PROVE  \/ i \in 1 .. Len(L[p]) /\ L1[p][i] = L[p][i]
               \/ p = q /\ i = l + 1 /\ L1[p][i] = v
    <2>1. CASE p = q
      <3>1. i \in 1 .. l \/ i = l + 1
        BY <1>2, <1>3, <1>4, <2>1
      <3>2. QED
        BY <1>3, <1>4, <2>1, <3>1 DEF l
    <2>2. CASE p # q
      BY <1>4, <2>2
    <2>3. QED
      BY <2>1, <2>2
  <1>6. ASSUME NEW p \in Queue, NEW i \in 1 .. Len(L[p])
        PROVE  i \in 1 .. Len(L1[p]) /\ L1[p][i] = L[p][i]
    <2>1. CASE p = q
      <3>1. i \in 1 .. l
        BY <2>1 DEF l
      <3>2. i \in 1 .. l + 1 /\ Append(L[q], v)[i] = L[q][i]
        BY <1>2, <1>3, <3>1
      <3>3. QED
        BY <1>3, <1>4, <2>1, <3>2
    <2>2. CASE p # q
      BY <1>4, <2>2
    <2>3. QED
      BY <2>1, <2>2
  <1>7. l + 1 \in 1 .. Len(L1[q]) /\ L1[q][l + 1] = v
    BY <1>2, <1>3, <1>4
  <1>8. h1 \subseteq Data /\ h1 \cap f = {}
    BY <1>1
  <1>9. ASSUME NEW p \in Queue \ k, NEW u \in Queue \ k,
               NEW i \in 1 .. Len(L1[p]), NEW j \in 1 .. Len(L1[u]), L1[p][i] = L1[u][j]
        PROVE  p = u /\ i = j
    <2>1. q \notin k => \A w \in Queue \ k : \A m \in 1 .. Len(L[w]) : L[w][m] # v
      BY DEF Owned
    <2>2. CASE i \in 1 .. Len(L[p]) /\ L1[p][i] = L[p][i]
      <3>1. ~ (u = q /\ L1[u][j] = v)
        BY <1>9, <2>1, <2>2
      <3>2. j \in 1 .. Len(L[u]) /\ L1[u][j] = L[u][j]
        BY <1>5, <3>1
      <3>3. L[p][i] = L[u][j]
        BY <1>9, <2>2, <3>2
      <3>4. \A x, y \in Queue \ k : \A m \in 1 .. Len(L[x]), n \in 1 .. Len(L[y]) :
              L[x][m] = L[y][n] => x = y /\ m = n
        BY DEF Owned
      <3>5. QED
        BY <2>2, <3>2, <3>3, <3>4
    <2>3. CASE p = q /\ i = l + 1 /\ L1[p][i] = v
      <3>1. ~ (j \in 1 .. Len(L[u]) /\ L1[u][j] = L[u][j])
        BY <1>9, <2>1, <2>3
      <3>2. QED
        BY <1>5, <2>3, <3>1
    <2>4. QED
      BY <1>5, <2>2, <2>3
  <1>10. ASSUME NEW p \in Queue \ k, NEW i \in 1 .. Len(L1[p])
         PROVE  L1[p][i] \notin h1 \cup f
    <2>1. CASE i \in 1 .. Len(L[p]) /\ L1[p][i] = L[p][i]
      <3>1. L[p][i] \notin h \cup f
        BY <2>1 DEF Owned
      <3>2. QED
        BY <2>1, <3>1
    <2>2. CASE p = q /\ i = l + 1 /\ L1[p][i] = v
      BY <1>1, <2>2
    <2>3. QED
      BY <1>5, <2>1, <2>2
  <1>11. \A w \in Data \ (h1 \cup f) :
           \E p \in Queue \ k : \E i \in 1 .. Len(L1[p]) : L1[p][i] = w
    <2> SUFFICES ASSUME NEW w \in Data \ (h1 \cup f)
                 PROVE  \E p \in Queue \ k : \E i \in 1 .. Len(L1[p]) : L1[p][i] = w
      OBVIOUS
    <2>1. CASE w \in h
      BY <1>7, <2>1
    <2>2. CASE w \notin h
      <3>1. PICK p \in Queue \ k : \E i \in 1 .. Len(L[p]) : L[p][i] = w
        <4>1. w \in Data \ (h \cup f)
          BY <2>2
        <4>2. QED
          BY <4>1 DEF Owned
      <3>2. QED
        BY <1>6, <3>1
    <2>3. QED
      BY <2>1, <2>2
  <1>12. QED
    BY <1>1, <1>4, <1>8, <1>9, <1>10, <1>11 DEF Owned, L1, Put, Given

(* ... and comes back.                                                     *)
LEMMA TailOwned ==
  ASSUME NEW L, NEW k, NEW h, NEW f, Owned(L, k, h, f), NEW q \in Queue, L[q] # <<>>
  PROVE  /\ Head(L[q]) \in Data
         /\ q \notin k => Head(L[q]) \notin h \cup f
         /\ Owned(Put(L, q, Tail(L[q])), k, Taken(h, k, q, Head(L[q])), f)
  <1> DEFINE v  == Head(L[q])
             L1 == [L EXCEPT ![q] = Tail(@)]
             h1 == IF q \in k THEN h ELSE h \cup {v}
             was(p, i) == IF p = q THEN i + 1 ELSE i
  <1>1. L \in [Queue -> Seq(Data)] /\ h \subseteq Data /\ f \subseteq Data /\ h \cap f = {}
    BY DEF Owned
  <1>2. L[q] \in Seq(Data) /\ Len(L[q]) \in Nat /\ 1 \in 1 .. Len(L[q]) /\ v = L[q][1] /\ v \in Data
    BY <1>1
  <1>3. Tail(L[q]) \in Seq(Data) /\ Len(Tail(L[q])) = Len(L[q]) - 1
        /\ \A i \in 1 .. Len(Tail(L[q])) : Tail(L[q])[i] = L[q][i + 1]
    BY <1>2, HeadTailProperties
  <1>4. L1 \in [Queue -> Seq(Data)] /\ L1[q] = Tail(L[q])
        /\ \A p \in Queue \ {q} : L1[p] = L[p]
    BY <1>1, <1>3
  <1>5. q \notin k => v \notin h \cup f
    BY <1>2 DEF Owned
  <1> HIDE DEF L1, v
  <1>6. ASSUME NEW p \in Queue, NEW i \in 1 .. Len(L1[p])
        PROVE  was(p, i) \in 1 .. Len(L[p]) /\ L1[p][i] = L[p][was(p, i)]
    <2>1. CASE p = q
      <3>1. i \in 1 .. Len(Tail(L[q]))
        BY <1>4, <2>1
      <3>2. i + 1 \in 1 .. Len(L[q]) /\ Tail(L[q])[i] = L[q][i + 1]
        BY <1>2, <1>3, <3>1
      <3>3. QED
        BY <1>4, <2>1, <3>2
    <2>2. CASE p # q
      BY <1>4, <2>2
    <2>3. QED
      BY <2>1, <2>2
  <1>7. ASSUME NEW p \in Queue, NEW i \in 1 .. Len(L[p])
        PROVE  \/ p = q /\ i = 1 /\ L[p][i] = v
               \/ \E j \in 1 .. Len(L1[p]) : L1[p][j] = L[p][i]
    <2>1. CASE p = q /\ i # 1
      <3>1. i - 1 \in 1 .. Len(L1[q]) /\ L1[q][i - 1] = L[q][i]
        BY <1>2, <1>3, <1>4, <2>1
      <3>2. QED
        BY <2>1, <3>1
    <2>2. CASE p # q
      BY <1>4, <2>2
    <2>3. QED
      BY <1>2, <2>1, <2>2
  <1>8. h1 \subseteq Data /\ h1 \cap f = {}
    BY <1>1, <1>2, <1>5
  <1>9. ASSUME NEW p \in Queue \ k, NEW u \in Queue \ k,
               NEW i \in 1 .. Len(L1[p]), NEW j \in 1 .. Len(L1[u]), L1[p][i] = L1[u][j]
        PROVE  p = u /\ i = j
    <2> DEFINE m == was(p, i)
               n == was(u, j)
    <2>1. m \in 1 .. Len(L[p]) /\ n \in 1 .. Len(L[u]) /\ L[p][m] = L[u][n]
      BY <1>6, <1>9
    <2>2. p = u /\ m = n
      <3> HIDE DEF m, n
      <3>1. QED
        BY <2>1 DEF Owned
    <2>3. i \in Int /\ j \in Int
      OBVIOUS
    <2>4. QED
      BY <2>2, <2>3
  <1>10. ASSUME NEW p \in Queue \ k, NEW i \in 1 .. Len(L1[p])
         PROVE  L1[p][i] \notin h1 \cup f
    <2> DEFINE m == was(p, i)
    <2>1. m \in 1 .. Len(L[p]) /\ L1[p][i] = L[p][m]
      BY <1>6
    <2>2. p = q => m # 1
      BY <1>10
    <2> HIDE DEF m
    <2>3. L[p][m] \notin h \cup f
      BY <2>1 DEF Owned
    <2>4. q \notin k => L[p][m] # v
      BY <1>2, <2>1, <2>2 DEF Owned
    <2>5. QED
      BY <2>1, <2>3, <2>4
  <1>11. \A w \in Data \ (h1 \cup f) :
           \E p \in Queue \ k : \E i \in 1 .. Len(L1[p]) : L1[p][i] = w
    <2> SUFFICES ASSUME NEW w \in Data \ (h1 \cup f)
                 PROVE  \E p \in Queue \ k : \E i \in 1 .. Len(L1[p]) : L1[p][i] = w
      OBVIOUS
    <2>1. PICK p \in Queue \ k : \E i \in 1 .. Len(L[p]) : L[p][i] = w
      BY DEF Owned
    <2>2. PICK i \in 1 .. Len(L[p]) : L[p][i] = w
      BY <2>1
    <2>3. w # v \/ p # q
      BY <2>1
    <2>4. QED
      BY <1>7, <2>2, <2>3
  <1>12. QED
    BY <1>1, <1>2, <1>4, <1>5, <1>8, <1>9, <1>10, <1>11 DEF Owned, L1, v, Put, Taken

LEMMA OwnedSymmetric ==
  ASSUME NEW L, NEW k, NEW h, NEW f, Owned(L, k, h, f)
  PROVE  Owned(L, k, f, h)
  BY DEF Owned

(* The kind of a queue that holds nothing may change.                      *)
LEMMA KindOwned ==
  ASSUME NEW L, NEW k, NEW k1, NEW h, NEW f, Owned(L, k, h, f), NEW q \in Queue, L[q] = <<>>,
         k1 \in {k \cup {q}, k \ {q}}
  PROVE  Owned(L, k1, h, f)
  <1>1. Len(L[q]) = 0 /\ \A p \in Queue \ {q} : p \in k <=> p \in k1
    OBVIOUS
  <1>2. \A p \in Queue : \A i \in 1 .. Len(L[p]) : p \in Queue \ k <=> p \in Queue \ k1
    BY <1>1
  <1>3. /\ L \in [Queue -> Seq(Data)] /\ h \subseteq Data /\ f \subseteq Data
        /\ h \cap f = {}
    BY DEF Owned
  <1>4. \A p, u \in Queue \ k1 : \A i \in 1 .. Len(L[p]), j \in 1 .. Len(L[u]) :
          L[p][i] = L[u][j] => p = u /\ i = j
    BY <1>2 DEF Owned
  <1>5. \A p \in Queue \ k1 : \A i \in 1 .. Len(L[p]) : L[p][i] \notin h \cup f
    BY <1>2 DEF Owned
  <1>6. \A v \in Data \ (h \cup f) :
          \E p \in Queue \ k1 : \E i \in 1 .. Len(L[p]) : L[p][i] = v
    BY <1>2 DEF Owned
  <1>7. QED
    BY <1>3, <1>4, <1>5, <1>6 DEF Owned

-----------------------------------------------------------------------------
(* The inductive invariant.                                                *)

Well == WellFormed(top, rear, size, next, chain, alloc)

Contents == Lists(chain, data)

(* The loops work on initialised queues, merge on two of one kind.         *)
LoopsOK ==
  /\ op # "idle" => top[dst] # NULL /\ top[src] # NULL
  /\ op = "merge" => dst # src /\ (dst \in const_data <=> src \in const_data)

IInv == TypeOK /\ Well /\ Owned(Contents, const_data, held, freed) /\ LoopsOK

LEMMA WellTyped ==
  ASSUME TypeOK
  PROVE  Typed(top, rear, size, next, chain, alloc)
  BY DEF TypeOK, Typed

(* The test of e_queue_empty is right.                                     *)
LEMMA EmptyIsEmpty ==
  ASSUME Well, data \in [Node -> Data \cup {NULL}], NEW q \in Queue, top[q] # NULL
  PROVE  /\ e_queue_empty(q) <=> Contents[q] = <<>>
         /\ e_queue_empty(q) <=> chain[q] = <<>>
         /\ e_queue_empty(q) <=> Len(chain[q]) = 0
         /\ Initialised(q)
  <1>1. chain \in [Queue -> Seq(Node)] /\ chain[q] \in Seq(Node) /\ rear[q] \in Node \cup {NULL}
    BY DEF Well, WellFormed, Typed
  <1>2. Shaped(top, rear, size, next, chain, q)
    BY DEF Well, WellFormed
  <1>3. Len(chain[q]) \in Nat /\ (Len(chain[q]) = 0 <=> chain[q] = <<>>)
    BY <1>1
  <1>4. \A i \in 1 .. Len(chain[q]) : chain[q][i] \in Node
    BY <1>1
  <1>5. e_queue_empty(q) <=> Len(chain[q]) = 0
    <2>1. Len(chain[q]) # 0 => chain[q][1] \in Node
      BY <1>3, <1>4
    <2>2. QED
      BY <1>2, <2>1, EQueueAssumption DEF Shaped, e_queue_empty
  <1>6. Contents[q] \in Seq(Data \cup {NULL}) /\ Len(Contents[q]) = Len(chain[q])
    BY <1>1, ListsTyped DEF Contents
  <1>7. Initialised(q)
    <2>1. Len(chain[q]) # 0 => chain[q][Len(chain[q])] \in Node
      BY <1>3, <1>4
    <2>2. QED
      BY <1>2, <2>1, EQueueAssumption DEF Shaped, Initialised
  <1>8. Contents[q] = <<>> <=> Len(chain[q]) = 0
    <2> HIDE DEF Contents
    <2>1. QED
      BY <1>6
  <1>9. QED
    BY <1>3, <1>5, <1>7, <1>8

(* What e_queue_push does to the lists.                                    *)
LEMMA LinkEffect ==
  ASSUME Well, data \in [Node -> Data \cup {NULL}], NEW q \in Queue, top[q] # NULL,
         NEW v \in Data, NEW n \in Node \ alloc, Link(q, v, n)
  PROVE  /\ Well' /\ data' \in [Node -> Data \cup {NULL}]
         /\ Contents' = Put(Contents, q, Append(Contents[q], v))
  <1>1. Typed(top, rear, size, next, chain, alloc) /\ Allocated(top, chain, alloc)
    BY DEF Well, WellFormed
  <1>2. /\ top' = top /\ rear' = Put(rear, q, n) /\ size' = Put(size, q, size[q] + 1)
        /\ next' = Put(Put(next, rear[q], n), n, NULL) /\ data' = Put(data, n, v)
        /\ chain' = Put(chain, q, Append(chain[q], n)) /\ alloc' = alloc \cup {n}
    BY DEF Link, Put
  <1>3. Well'
    BY <1>2, LinkKeeps DEF Well
  <1>4. data' \in [Node -> Data \cup {NULL}]
    BY DEF Link
  <1>5. \A p \in Queue : \A i \in 1 .. Len(chain[p]) : chain[p][i] # n
    BY <1>1 DEF Allocated
  <1>6. Contents' = Put(Contents, q, Append(Contents[q], v))
    <2>1. chain \in [Queue -> Seq(Node)] /\ n \in Node
      BY <1>1 DEF Typed
    <2>2. Lists(Put(chain, q, Append(chain[q], n)), Put(data, n, v))
            = Put(Lists(chain, data), q, Append(Lists(chain, data)[q], v))
      BY <1>5, <2>1, LinkLists, SMTT(30)
    <2>3. chain' = Put(chain, q, Append(chain[q], n)) /\ data' = Put(data, n, v)
      BY <1>2
    <2>4. Lists(chain', data') = Put(Lists(chain, data), q, Append(Lists(chain, data)[q], v))
      BY <2>2, <2>3
    <2>5. QED
      BY <2>4 DEF Contents
  <1>7. QED
    BY <1>3, <1>4, <1>6

(* What e_queue_pop does to the lists, on a queue that is not empty.       *)
LEMMA UnlinkEffect ==
  ASSUME Well, data \in [Node -> Data \cup {NULL}], NEW q \in Queue, top[q] # NULL,
         ~ e_queue_empty(q), Unlink(q)
  PROVE  /\ Well' /\ data' \in [Node -> Data \cup {NULL}]
         /\ Contents' = Put(Contents, q, Tail(Contents[q]))
         /\ Head(Contents[q]) = First(q) /\ Contents[q] # <<>>
  <1>1. Typed(top, rear, size, next, chain, alloc)
    BY DEF Well, WellFormed
  <1>2. next[top[q]] # NULL
    BY DEF e_queue_empty
  <1>3. /\ top' = top /\ rear' = Put(rear, q, RearLeft(rear, top, next, q))
        /\ size' = Put(size, q, size[q] - 1)
        /\ next' = Put(next, top[q], next[next[top[q]]]) /\ data' = data
        /\ chain' = Put(chain, q, Tail(chain[q])) /\ alloc' = alloc \ {next[top[q]]}
    BY DEF Unlink, Put, RearLeft
  <1>4. next[top[q]] = chain[q][1] /\ Len(chain[q]) > 0 /\ Well'
    <2>1. WellFormed(top, rear, size, next, chain, alloc)
      BY DEF Well
    <2>2. /\ next[top[q]] = chain[q][1] /\ Len(chain[q]) > 0
          /\ WellFormed(top', rear', size', next', chain', alloc')
      <3>1. /\ next[top[q]] = chain[q][1] /\ Len(chain[q]) > 0
           /\ WellFormed(top, Put(rear, q, RearLeft(rear, top, next, q)),
                       Put(size, q, size[q] - 1), Put(next, top[q], next[next[top[q]]]),
                       Put(chain, q, Tail(chain[q])), alloc \ {next[top[q]]})
        BY <1>2, <2>1, UnlinkKeeps, Zenon
      <3>2. QED
        BY <1>3, <3>1
    <2>3. QED
      BY <2>2 DEF Well
  <1>5. /\ Lists(chain', data) = Put(Lists(chain, data), q, Tail(Lists(chain, data)[q]))
        /\ Head(Lists(chain, data)[q]) = data[chain[q][1]] /\ Lists(chain, data)[q] # <<>>
    <2>1. chain \in [Queue -> Seq(Node)]
      BY <1>1 DEF Typed
    <2>2. QED
      BY <1>3, <1>4, <2>1, UnlinkLists
  <1>6. QED
    BY <1>3, <1>4, <1>5 DEF Contents, First

(* What an iteration of e_queue_merge does: a pop and a push.              *)
LEMMA MergeEffect ==
  ASSUME IInv, merge_first
  PROVE  /\ Well' /\ data' \in [Node -> Data \cup {NULL}]
         /\ Contents' = Put(Put(Contents, src, Tail(Contents[src])), dst,
                            Append(Contents[dst], Head(Contents[src])))
         /\ Contents[src] # <<>> /\ dst # src /\ Head(Contents[src]) \in Data
         /\ top' = top
  <1> DEFINE node == next[top[src]]
             r == Put(rear, src, RearLeft(rear, top, next, src))
             s == Put(size, src, size[src] - 1)
             x == Put(next, top[src], next[node])
             c == Put(chain, src, Tail(chain[src]))
             a == alloc \ {node}
  <1>1. /\ Typed(top, rear, size, next, chain, alloc) /\ data \in [Node -> Data \cup {NULL}]
        /\ dst \in Queue /\ src \in Queue /\ op = "merge" /\ ~ e_queue_empty(src)
        /\ top[dst] # NULL /\ top[src] # NULL /\ dst # src
    BY DEF IInv, TypeOK, Typed, LoopsOK, merge_first
  <1>2. /\ node # NULL /\ node = chain[src][1] /\ Len(chain[src]) > 0
        /\ WellFormed(top, r, s, x, c, a)
    <2>1. node # NULL
      BY <1>1 DEF e_queue_empty
    <2>2. WellFormed(top, rear, size, next, chain, alloc)
      BY DEF IInv, Well
    <2>3. /\ next[top[src]] = chain[src][1] /\ Len(chain[src]) > 0
          /\ WellFormed(top, Put(rear, src, RearLeft(rear, top, next, src)),
                        Put(size, src, size[src] - 1),
                        Put(next, top[src], next[next[top[src]]]),
                        Put(chain, src, Tail(chain[src])), alloc \ {next[top[src]]})
      BY <1>1, <2>1, <2>2, UnlinkKeeps, Zenon
    <2>4. QED
      BY <2>1, <2>3
  <1>3. node \in Node
    BY <1>1, <1>2 DEF Typed
  <1>4. /\ Lists(c, data) = Put(Contents, src, Tail(Contents[src]))
        /\ Contents[src] # <<>> /\ Head(Contents[src]) = data[node]
    <2>1. chain \in [Queue -> Seq(Node)]
      BY <1>1 DEF Typed
    <2>2. /\ Lists(Put(chain, src, Tail(chain[src])), data)
               = Put(Lists(chain, data), src, Tail(Lists(chain, data)[src]))
          /\ Head(Lists(chain, data)[src]) = data[chain[src][1]]
          /\ Lists(chain, data)[src] # <<>>
      BY <1>1, <1>2, <2>1, UnlinkLists
    <2>3. QED
      BY <1>2, <2>2 DEF Contents
  <1>5. data[node] \in Data
    <2>1. Owned(Contents, const_data, held, freed)
      BY DEF IInv
    <2>2. Head(Contents[src]) \in Data
      BY <1>1, <1>4, <2>1, TailOwned
    <2>3. QED
      BY <1>4, <2>2
  <1>6. PICK n \in (Node \ alloc) \cup {node} :
          /\ next' = [next EXCEPT ![top[src]] = next[node], ![rear[dst]] = n, ![n] = NULL]
          /\ data' = [data EXCEPT ![n] = data[node]]
          /\ rear' = [rear EXCEPT ![src] = IF @ = node THEN top[src] ELSE @, ![dst] = n]
          /\ size' = [size EXCEPT ![src] = @ - 1, ![dst] = @ + 1]
          /\ alloc' = (alloc \ {node}) \cup {n}
          /\ chain' = [chain EXCEPT ![src] = Tail(@), ![dst] = Append(@, n)]
    BY DEF merge_first
  <1>7. n \in Node \ a /\ top' = top
    BY <1>3, <1>6 DEF merge_first
  <1>8. r[dst] = rear[dst] /\ Put(Contents, src, Tail(Contents[src]))[dst] = Contents[dst]
    BY <1>1 DEF Typed, Put, Contents, Lists
  <1>9. /\ rear' = Put(r, dst, n) /\ size' = Put(s, dst, s[dst] + 1)
        /\ next' = Put(Put(x, rear[dst], n), n, NULL)
        /\ chain' = Put(c, dst, Append(c[dst], n)) /\ alloc' = a \cup {n}
        /\ data' = Put(data, n, data[node])
    <2>1. rear' = Put(r, dst, n)
      BY <1>6 DEF Put, RearLeft
    <2>2. size' = Put(s, dst, s[dst] + 1)
      <3>1. size' = [p \in Queue |-> IF p = dst THEN size[dst] + 1
                                      ELSE IF p = src THEN size[src] - 1 ELSE size[p]]
        BY <1>1, <1>6 DEF Typed
      <3>2. s = [p \in Queue |-> IF p = src THEN size[src] - 1 ELSE size[p]]
        BY <1>1 DEF Typed, Put
      <3> HIDE DEF s
      <3>3. s[dst] = size[dst]
        BY <1>1, <3>2
      <3>4. Put(s, dst, s[dst] + 1) = [p \in Queue |-> IF p = dst THEN s[dst] + 1 ELSE s[p]]
        BY <3>2 DEF Put
      <3>5. QED
        BY <3>1, <3>2, <3>3, <3>4
    <2>3. next' = Put(Put(x, rear[dst], n), n, NULL)
      BY <1>6 DEF Put
    <2>4. chain' = Put(c, dst, Append(c[dst], n))
      <3>1. chain' = [p \in Queue |-> IF p = dst THEN Append(chain[dst], n)
                                       ELSE IF p = src THEN Tail(chain[src]) ELSE chain[p]]
        BY <1>1, <1>6 DEF Typed
      <3>2. c = [p \in Queue |-> IF p = src THEN Tail(chain[src]) ELSE chain[p]]
        BY <1>1 DEF Typed, Put
      <3> HIDE DEF c
      <3>3. c[dst] = chain[dst]
        BY <1>1, <3>2
      <3>4. Put(c, dst, Append(c[dst], n)) = [p \in Queue |-> IF p = dst THEN Append(c[dst], n) ELSE c[p]]
        BY <3>2 DEF Put
      <3>5. QED
        BY <3>1, <3>2, <3>3, <3>4
    <2>5. alloc' = a \cup {n} /\ data' = Put(data, n, data[node])
      BY <1>6 DEF Put
    <2>6. QED
      BY <2>1, <2>2, <2>3, <2>4, <2>5
  <1> HIDE DEF node, r, s, x, c, a
  <1>10. Well'
    BY <1>1, <1>2, <1>7, <1>8, <1>9, LinkKeeps DEF Well
  <1>11. c \in [Queue -> Seq(Node)] /\ \A p \in Queue : \A i \in 1 .. Len(c[p]) : c[p][i] # n
    BY <1>2, <1>7 DEF WellFormed, Typed, Allocated
  <1>12. Contents' = Put(Lists(c, data), dst, Append(Lists(c, data)[dst], data[node]))
    <2>1. Lists(chain', data') = Put(Lists(c, data), dst, Append(Lists(c, data)[dst], data[node]))
      <3>1. Lists(Put(c, dst, Append(c[dst], n)), Put(data, n, data[node]))
              = Put(Lists(c, data), dst, Append(Lists(c, data)[dst], data[node]))
        <4>1. n \in Node
          BY <1>7
        <4>2. QED
          BY <1>1, <1>5, <1>11, <4>1, LinkLists, Zenon
      <3>2. QED
        BY <1>9, <3>1
    <2>2. QED
      BY <2>1 DEF Contents
  <1>13. data' \in [Node -> Data \cup {NULL}]
    BY <1>1, <1>5, <1>6
  <1>14. QED
    BY <1>1, <1>4, <1>5, <1>7, <1>8, <1>10, <1>12, <1>13

-----------------------------------------------------------------------------
(* The invariant is inductive.                                             *)

LEMMA Assembled ==
  ASSUME Well', data' \in [Node -> Data \cup {NULL}],
         Owned(Contents, const_data, held, freed)', const_data' \subseteq Queue,
         ret' \in Data \cup {NULL}, op' \in {"idle", "clear", "destroy", "merge"},
         dst' \in Queue, src' \in Queue, LoopsOK'
  PROVE  IInv'
  <1>1. held' \subseteq Data /\ freed' \subseteq Data
    BY DEF Owned
  <1>2. Typed(top, rear, size, next, chain, alloc)'
    BY DEF Well, WellFormed
  <1>3. TypeOK'
    BY <1>1, <1>2 DEF TypeOK, Typed
  <1>4. QED
    BY <1>3 DEF IInv

LEMMA InitIInv == Init => IInv
  <1> SUFFICES ASSUME Init PROVE IInv
    OBVIOUS
  <1>1. TypeOK
    BY DEF Init, TypeOK
  <1>2. \A q \in Queue : top[q] = NULL /\ rear[q] = NULL /\ size[q] = 0
                         /\ chain[q] = <<>> /\ Len(chain[q]) = 0
    BY DEF Init
  <1>3. Well
    <2>1. Typed(top, rear, size, next, chain, alloc)
      BY <1>1, WellTyped
    <2>2. \A q \in Queue : Shaped(top, rear, size, next, chain, q)
      BY <1>2 DEF Shaped
    <2>3. Allocated(top, chain, alloc)
      BY <1>2 DEF Allocated, Init
    <2>4. Distinct(top, chain)
      <3>1. \A q \in Queue : \A i \in 1 .. Len(chain[q]) : FALSE
        BY <1>2
      <3>2. QED
        BY <1>2, <3>1 DEF Distinct
    <2>5. QED
      BY <2>1, <2>2, <2>3, <2>4 DEF Well, WellFormed
  <1>4. Owned(Contents, const_data, held, freed)
    <2>1. \A q \in Queue : Contents[q] \in Seq(Data \cup {NULL}) /\ Len(Contents[q]) = 0
      BY <1>1, <1>2, ListsTyped DEF TypeOK, Contents
    <2>2. Contents = [q \in Queue |-> Contents[q]]
      BY DEF Contents, Lists
    <2> HIDE DEF Contents
    <2>3. \A q \in Queue : Contents[q] = <<>>
      BY <2>1
    <2>4. Contents = [q \in Queue |-> <<>>]
      BY <2>2, <2>3
    <2>5. \A q \in Queue : \A i \in 1 .. Len(Contents[q]) : FALSE
      BY <2>1
    <2>6. Contents \in [Queue -> Seq(Data)]
      BY <2>4
    <2>7. QED
      BY <2>5, <2>6 DEF Owned, Init
  <1>5. LoopsOK
    BY DEF Init, LoopsOK
  <1>6. QED
    BY <1>1, <1>3, <1>4, <1>5 DEF IInv

(* What the invariant says, in the form the steps use.                     *)
LEMMA Facts ==
  ASSUME IInv
  PROVE  /\ Well /\ Owned(Contents, const_data, held, freed)
         /\ WellFormed(top, rear, size, next, chain, alloc)
         /\ data \in [Node -> Data \cup {NULL}] /\ const_data \subseteq Queue
         /\ ret \in Data \cup {NULL} /\ op \in {"idle", "clear", "destroy", "merge"}
         /\ dst \in Queue /\ src \in Queue /\ LoopsOK
         /\ Contents \in [Queue -> Seq(Data)]
  BY DEF IInv, TypeOK, Well, Owned

LEMMA OpenStep ==
  ASSUME IInv, NEW q \in Queue, NEW const \in BOOLEAN, e_queue_init(q, const)
  PROVE  IInv' /\ Contents' = Contents /\ Contents[q] = <<>>
  <1> USE Facts
  <1>1. PICK n \in Node \ alloc :
          /\ top' = [top EXCEPT ![q] = n] /\ rear' = [rear EXCEPT ![q] = n]
          /\ next' = [next EXCEPT ![n] = NULL] /\ alloc' = alloc \cup {n}
    BY DEF e_queue_init
  <1>2. /\ top' = Put(top, q, n) /\ rear' = Put(rear, q, n) /\ size' = Put(size, q, 0)
        /\ next' = Put(next, n, NULL) /\ alloc' = alloc \cup {n} /\ chain' = chain
        /\ top[q] = NULL /\ data' = data
    BY <1>1 DEF e_queue_init, Put
  <1>3. WellFormed(Put(top, q, n), Put(rear, q, n), Put(size, q, 0), Put(next, n, NULL),
                   chain, alloc \cup {n})
        /\ chain[q] = <<>>
    <2>1. WellFormed(top, rear, size, next, chain, alloc) /\ n \in Node /\ n \notin alloc
          /\ top[q] = NULL
      BY <1>1, <1>2
    <2>2. chain[q] = <<>>
      BY <2>1 DEF WellFormed, Shaped
    <2>3. WellFormed(Put(top, q, n), Put(rear, q, n), Put(size, q, 0), Put(next, n, NULL),
                     chain, alloc \cup {n})
      BY <2>1, OpenKeeps, Zenon
    <2>4. QED
      BY <2>2, <2>3
  <1>4. Well'
    BY <1>2, <1>3 DEF Well
  <1>5. Contents' = Contents
    BY <1>2 DEF Contents
  <1>6. Contents[q] = <<>>
    <2>1. chain \in [Queue -> Seq(Node)] /\ Len(chain[q]) = 0
      BY <1>3 DEF WellFormed, Typed
    <2>2. Contents[q] \in Seq(Data \cup {NULL}) /\ Len(Contents[q]) = 0
      BY <2>1, ListsTyped DEF Contents
    <2>3. QED
      BY <2>2
  <1>7. const_data' \in {const_data \cup {q}, const_data \ {q}} /\ const_data' \subseteq Queue
    BY DEF e_queue_init
  <1>8. held' = held /\ freed' = freed /\ ret' = ret /\ op' = op /\ dst' = dst /\ src' = src
        /\ op = "idle"
    BY DEF e_queue_init, callVars
  <1>9. Owned(Contents, const_data, held, freed)'
    <2>1. Owned(Contents, const_data', held, freed)
      BY <1>6, <1>7, KindOwned
    <2>2. QED
      BY <1>5, <1>8, <2>1
  <1>10. LoopsOK'
    BY <1>8 DEF LoopsOK
  <1>11. QED
    BY <1>2, <1>4, <1>5, <1>6, <1>7, <1>8, <1>9, <1>10, Assembled

LEMMA PushStep ==
  ASSUME IInv, NEW q \in Queue, NEW d \in Data, e_queue_push(q, d)
  PROVE  IInv' /\ Contents' = Put(Contents, q, Append(Contents[q], d))
  <1> USE Facts
  <1>1. PICK n \in Node \ alloc : Link(q, d, n)
    BY DEF e_queue_push
  <1>2. /\ held' = Given(held, const_data, q, d) /\ const_data' = const_data
        /\ freed' = freed /\ ret' = ret /\ op' = op /\ dst' = dst /\ src' = src
        /\ op = "idle" /\ top[q] # NULL /\ d \in held
    BY DEF e_queue_push, Given, callVars, Initialised
  <1>3. /\ Well' /\ data' \in [Node -> Data \cup {NULL}]
        /\ Contents' = Put(Contents, q, Append(Contents[q], d))
    BY <1>1, <1>2, LinkEffect
  <1>4. Owned(Contents, const_data, held, freed)'
    <2>1. Owned(Put(Contents, q, Append(Contents[q], d)), const_data,
                Given(held, const_data, q, d), freed)
      BY <1>2, AppendOwned
    <2>2. QED
      BY <1>2, <1>3, <2>1
  <1>5. LoopsOK'
    BY <1>2 DEF LoopsOK
  <1>6. QED
    BY <1>2, <1>3, <1>4, <1>5, Assembled

LEMMA PopStep ==
  ASSUME IInv, NEW q \in Queue, e_queue_pop(q)
  PROVE  /\ IInv' /\ Contents' = Put(Contents, q, Tail(Contents[q]))
         /\ Contents[q] # <<>> /\ First(q) = Head(Contents[q])
  <1> USE Facts
  <1>1. /\ held' = Taken(held, const_data, q, First(q)) /\ const_data' = const_data
        /\ freed' = freed /\ ret' = First(q) /\ op' = op /\ dst' = dst /\ src' = src
        /\ op = "idle" /\ top[q] # NULL /\ ~ e_queue_empty(q) /\ Unlink(q)
    BY DEF e_queue_pop, Taken, callVars, Initialised
  <1>2. /\ Well' /\ data' \in [Node -> Data \cup {NULL}]
        /\ Contents' = Put(Contents, q, Tail(Contents[q]))
        /\ Head(Contents[q]) = First(q) /\ Contents[q] # <<>>
    BY <1>1, UnlinkEffect
  <1>3. /\ Head(Contents[q]) \in Data
        /\ Owned(Put(Contents, q, Tail(Contents[q])), const_data,
                 Taken(held, const_data, q, Head(Contents[q])), freed)
    BY <1>2, TailOwned
  <1>4. Owned(Contents, const_data, held, freed)'
    BY <1>1, <1>2, <1>3
  <1>5. LoopsOK'
    BY <1>1 DEF LoopsOK
  <1>6. QED
    BY <1>1, <1>2, <1>3, <1>4, <1>5, Assembled

LEMMA DropStep ==
  ASSUME IInv, drop_first
  PROVE  /\ IInv' /\ Contents' = Put(Contents, dst, Tail(Contents[dst]))
         /\ Contents[dst] # <<>> /\ First(dst) = Head(Contents[dst])
  <1> USE Facts
  <1>1. /\ freed' = Taken(freed, const_data, dst, First(dst)) /\ const_data' = const_data
        /\ held' = held /\ ret' = ret /\ op' = op /\ dst' = dst /\ src' = src /\ top' = top
        /\ op # "idle" /\ op # "merge" /\ ~ e_queue_empty(dst) /\ Unlink(dst)
    BY DEF drop_first, Taken, callVars, Unlink
  <1>2. top[dst] # NULL
    BY <1>1 DEF LoopsOK
  <1>3. /\ Well' /\ data' \in [Node -> Data \cup {NULL}]
        /\ Contents' = Put(Contents, dst, Tail(Contents[dst]))
        /\ Head(Contents[dst]) = First(dst) /\ Contents[dst] # <<>>
    BY <1>1, <1>2, UnlinkEffect
  <1>4. Owned(Contents, const_data, freed, held)
    BY OwnedSymmetric
  <1>5. Owned(Put(Contents, dst, Tail(Contents[dst])), const_data,
              Taken(freed, const_data, dst, Head(Contents[dst])), held)
    BY <1>3, <1>4, TailOwned
  <1>6. Owned(Contents, const_data, held, freed)'
    <2>1. Owned(Contents', const_data', freed', held')
      BY <1>1, <1>3, <1>5
    <2>2. QED
      BY <2>1, OwnedSymmetric
  <1>7. LoopsOK'
    BY <1>1 DEF LoopsOK
  <1>8. QED
    BY <1>1, <1>3, <1>6, <1>7, Assembled

(* A call of clear, destroy or merge, and the return of clear and merge,   *)
(* do nothing to the lists.                                                *)
LEMMA CallStep ==
  ASSUME IInv, NEW name \in {"clear", "destroy", "merge"}, NEW dq \in Queue, NEW sq \in Queue,
         e_queue_call(name, dq, sq)
  PROVE  IInv' /\ Contents' = Contents
  <1> USE Facts
  <1>1. /\ UNCHANGED <<top, rear, size, next, data, alloc, chain, const_data, held, freed, ret>>
        /\ op' = name /\ dst' = dq /\ src' = sq /\ op' # "idle"
    BY DEF e_queue_call, ptrVars
  <1>2. Well' /\ Contents' = Contents
    BY <1>1 DEF Well, Contents
  <1>3. LoopsOK'
    BY <1>1 DEF LoopsOK, e_queue_call
  <1>4. Owned(Contents, const_data, held, freed)'
    BY <1>1, <1>2
  <1>5. QED
    BY <1>1, <1>2, <1>3, <1>4, Assembled

LEMMA ClearReturnStep ==
  ASSUME IInv, clear_return
  PROVE  IInv' /\ Contents' = Contents /\ Contents[dst] = <<>> /\ UNCHANGED ptrVars
  <1> USE Facts
  <1>1. /\ UNCHANGED <<top, rear, next, data, alloc, chain, const_data, held, freed, ret, dst, src>>
        /\ size' = [size EXCEPT ![dst] = 0] /\ op' = "idle" /\ op = "clear" /\ e_queue_empty(dst)
    BY DEF clear_return
  <1>2. top[dst] # NULL
    BY <1>1 DEF LoopsOK
  <1>3. Contents[dst] = <<>> /\ Len(chain[dst]) = 0
    BY <1>1, <1>2, EmptyIsEmpty
  <1>4. size' = size
    <2>1. size \in [Queue -> Nat] /\ Shaped(top, rear, size, next, chain, dst)
      BY DEF WellFormed, Typed
    <2>2. size[dst] = 0
      BY <1>2, <1>3, <2>1 DEF Shaped
    <2>3. QED
      BY <1>1, <2>1, <2>2
  <1>5. Well' /\ Contents' = Contents
    BY <1>1, <1>4 DEF Well, Contents
  <1>6. LoopsOK'
    BY <1>1 DEF LoopsOK
  <1>7. Owned(Contents, const_data, held, freed)'
    BY <1>1, <1>5
  <1>8. QED
    BY <1>1, <1>3, <1>4, <1>5, <1>6, <1>7, Assembled DEF ptrVars

LEMMA DestroyReturnStep ==
  ASSUME IInv, destroy_return
  PROVE  IInv' /\ Contents' = Contents /\ Contents[dst] = <<>>
  <1> USE Facts
  <1>1. /\ UNCHANGED <<next, data, chain, const_data, held, freed, ret, dst, src>>
        /\ top' = Put(top, dst, NULL) /\ rear' = Put(rear, dst, NULL) /\ size' = Put(size, dst, 0)
        /\ alloc' = alloc \ {top[dst]} /\ op' = "idle" /\ op = "destroy" /\ e_queue_empty(dst)
    BY DEF destroy_return, Put
  <1>2. top[dst] # NULL
    BY <1>1 DEF LoopsOK
  <1>3. Contents[dst] = <<>> /\ chain[dst] = <<>>
    BY <1>1, <1>2, EmptyIsEmpty
  <1>4. WellFormed(Put(top, dst, NULL), Put(rear, dst, NULL), Put(size, dst, 0), next, chain,
                   alloc \ {top[dst]})
    <2>1. WellFormed(top, rear, size, next, chain, alloc) /\ dst \in Queue
      OBVIOUS
    <2>2. QED
      BY <1>2, <1>3, <2>1, CloseKeeps, Zenon
  <1>5. Well' /\ Contents' = Contents
    BY <1>1, <1>4 DEF Well, Contents
  <1>6. LoopsOK'
    BY <1>1 DEF LoopsOK
  <1>7. Owned(Contents, const_data, held, freed)'
    BY <1>1, <1>5
  <1>8. QED
    BY <1>1, <1>3, <1>5, <1>6, <1>7, Assembled

LEMMA MergeStep ==
  ASSUME IInv, merge_first
  PROVE  IInv'
  <1> USE Facts
  <1> DEFINE v == Head(Contents[src])
             L == Put(Contents, src, Tail(Contents[src]))
             h == Taken(held, const_data, src, v)
  <1>1. /\ Well' /\ data' \in [Node -> Data \cup {NULL}]
        /\ Contents' = Put(L, dst, Append(Contents[dst], v))
        /\ Contents[src] # <<>> /\ dst # src /\ v \in Data /\ top' = top
    BY MergeEffect
  <1>2. /\ UNCHANGED <<const_data, held, freed, ret, op, dst, src>> /\ op = "merge"
    BY DEF merge_first, callVars
  <1>3. dst \in const_data <=> src \in const_data
    BY <1>2 DEF LoopsOK
  <1>4. Owned(L, const_data, h, freed) /\ (src \notin const_data => v \notin held \cup freed)
    BY <1>1, TailOwned
  <1>5. L[dst] = Contents[dst]
    BY <1>1 DEF Put
  <1>6. (dst \notin const_data => v \in h) /\ Given(h, const_data, dst, v) = held
    BY <1>3, <1>4 DEF Taken, Given
  <1> HIDE DEF v, L, h
  <1>7. Owned(Put(L, dst, Append(L[dst], v)), const_data, Given(h, const_data, dst, v), freed)
    BY <1>1, <1>4, <1>6, AppendOwned
  <1>8. Owned(Contents, const_data, held, freed)'
    BY <1>1, <1>2, <1>5, <1>6, <1>7
  <1>9. LoopsOK'
    BY <1>1, <1>2 DEF LoopsOK
  <1>10. QED
    BY <1>1, <1>2, <1>8, <1>9, Assembled

LEMMA UnchangedStep ==
  ASSUME IInv, UNCHANGED ptrVars, const_data' = const_data, held' = held, freed' = freed,
         ret' \in Data \cup {NULL}, op' \in {op, "idle"}, dst' = dst, src' = src
  PROVE  IInv'
  <1> USE Facts
  <1>1. Well' /\ Contents' = Contents /\ Owned(Contents, const_data, held, freed)'
    BY DEF Well, Contents, ptrVars
  <1>2. LoopsOK'
    BY DEF LoopsOK, ptrVars
  <1>3. QED
    BY <1>1, <1>2, Assembled DEF ptrVars

LEMMA NextIInv == IInv /\ [Next]_vars => IInv'
  <1> SUFFICES ASSUME IInv, [Next]_vars PROVE IInv'
    OBVIOUS
  <1>1. ASSUME NEW q \in Queue, NEW const \in BOOLEAN, e_queue_init(q, const) PROVE IInv'
    BY <1>1, OpenStep
  <1>2. ASSUME NEW q \in Queue, NEW d \in Data, e_queue_push(q, d) PROVE IInv'
    BY <1>2, PushStep
  <1>3. ASSUME NEW q \in Queue, e_queue_pop(q) PROVE IInv'
    BY <1>3, PopStep
  <1>4. ASSUME NEW q \in Queue, e_queue_pop_null(q) PROVE IInv'
    BY <1>4, UnchangedStep DEF e_queue_pop_null, callVars, ptrVars
  <1>5. ASSUME NEW name \in {"clear", "destroy", "merge"}, NEW dq \in Queue, NEW sq \in Queue,
               e_queue_call(name, dq, sq)
        PROVE  IInv'
    BY <1>5, CallStep
  <1>6. CASE drop_first
    BY <1>6, DropStep
  <1>7. CASE clear_return
    BY <1>7, ClearReturnStep
  <1>8. CASE destroy_return
    BY <1>8, DestroyReturnStep
  <1>9. CASE merge_first
    BY <1>9, MergeStep
  <1>10. CASE merge_return
    BY <1>10, UnchangedStep, Facts DEF merge_return, ptrVars
  <1>11. CASE UNCHANGED vars
    BY <1>11, UnchangedStep, Facts DEF vars, callVars, ptrVars
  <1>12. QED
    BY <1>1, <1>2, <1>3, <1>4, <1>5, <1>6, <1>7, <1>8, <1>9, <1>10, <1>11 DEF Next

LEMMA Inductive == Spec => []IInv
  <1>1. Init => IInv
    BY InitIInv
  <1>2. IInv /\ [Next]_vars => IInv'
    BY NextIInv
  <1>3. QED
    BY <1>1, <1>2, PTL DEF Spec

-----------------------------------------------------------------------------
(* The safety properties.                                                  *)

LEMMA ListIs ==
  ASSUME NEW q \in Queue
  PROVE  List(q) = Contents[q] /\ List(q)' = Contents'[q]
  BY DEF List, Contents, Lists

LEMMA ShapeHolds == IInv => ListShape
  <1> SUFFICES ASSUME IInv, NEW q \in Queue
               PROVE  IF top[q] = NULL
                        THEN rear[q] = NULL /\ chain[q] = <<>> /\ size[q] = 0
                        ELSE LET n == Len(chain[q])
                             IN  /\ next[top[q]] = IF n = 0 THEN NULL ELSE chain[q][1]
                                 /\ \A i \in 1 .. n : next[chain[q][i]] =
                                                        IF i = n THEN NULL ELSE chain[q][i + 1]
                                 /\ rear[q] = IF n = 0 THEN top[q] ELSE chain[q][n]
                                 /\ size[q] = n
    BY DEF ListShape
  <1>1. Shaped(top, rear, size, next, chain, q)
    BY DEF IInv, Well, WellFormed
  <1>2. QED
    BY <1>1 DEF Shaped

LEMMA NodesHold == IInv => NodesOwned
  <1> SUFFICES ASSUME IInv PROVE NodesOwned
    OBVIOUS
  <1>1. /\ Typed(top, rear, size, next, chain, alloc)
        /\ Allocated(top, chain, alloc) /\ Distinct(top, chain)
    BY DEF IInv, Well, WellFormed
  <1>2. ASSUME NEW q \in Queue
        PROVE  Range(chain[q]) = {chain[q][i] : i \in 1 .. Len(chain[q])}
    BY <1>1, RangeEquality DEF Typed
  <1>3. Range(top) = {top[q] : q \in Queue}
    BY <1>1 DEF Typed, Range
  <1>4. alloc = (Range(top) \ {NULL}) \cup UNION {Range(chain[q]) : q \in Queue}
    <2>1. ASSUME NEW n \in alloc
          PROVE  n \in (Range(top) \ {NULL}) \cup UNION {Range(chain[q]) : q \in Queue}
      <3>1. n # NULL
        BY <1>1, EQueueAssumption DEF Typed
      <3>2. CASE \E q \in Queue : top[q] = n
        BY <1>3, <3>1, <3>2
      <3>3. CASE \E q \in Queue : \E i \in 1 .. Len(chain[q]) : chain[q][i] = n
        <4>1. PICK q \in Queue : n \in Range(chain[q])
          BY <1>2, <3>3
        <4>2. QED
          BY <4>1
      <3>4. QED
        BY <1>1, <3>2, <3>3 DEF Allocated
    <2>2. ASSUME NEW n \in Range(top) \ {NULL}
          PROVE  n \in alloc
      BY <1>1, <1>3 DEF Allocated
    <2>3. ASSUME NEW q \in Queue, NEW n \in Range(chain[q])
          PROVE  n \in alloc
      BY <1>1, <1>2 DEF Allocated
    <2>4. QED
      BY <2>1, <2>2, <2>3
  <1>5. ASSUME NEW q \in Queue, NEW p \in Queue
        PROVE  /\ \A i \in 1 .. Len(chain[q]), j \in 1 .. Len(chain[p]) :
                    chain[q][i] = chain[p][j] => q = p /\ i = j
               /\ top[q] # NULL => top[q] \notin Range(chain[p])
               /\ top[q] = top[p] => q = p \/ top[q] = NULL
    <2>1. \A i \in 1 .. Len(chain[q]), j \in 1 .. Len(chain[p]) :
            chain[q][i] = chain[p][j] => q = p /\ i = j
      BY <1>1 DEF Distinct
    <2>2. \A j \in 1 .. Len(chain[p]) : top[q] # chain[p][j]
      BY <1>1 DEF Distinct
    <2>3. top[q] = top[p] => q = p \/ top[q] = NULL
      BY <1>1 DEF Distinct
    <2>4. QED
      BY <1>2, <2>1, <2>2, <2>3
  <1>6. QED
    BY <1>4, <1>5 DEF NodesOwned

LEMMA DataHold == IInv => DataOwned
  <1> SUFFICES ASSUME IInv PROVE DataOwned
    OBVIOUS
  <1>1. /\ Owned(Contents, const_data, held, freed) /\ chain \in [Queue -> Seq(Node)]
        /\ data \in [Node -> Data \cup {NULL}]
    BY DEF IInv, TypeOK
  <1>2. ASSUME NEW q \in Queue
        PROVE  /\ List(q) = Contents[q] /\ Len(Contents[q]) = Len(chain[q])
               /\ List(q) \in Seq(Data)
               /\ Range(List(q)) = {Contents[q][i] : i \in 1 .. Len(chain[q])}
    <2>1. List(q) = Contents[q] /\ Len(Contents[q]) = Len(chain[q])
      BY <1>1, ListsTyped, ListIs DEF Contents
    <2>2. Contents[q] \in Seq(Data)
      BY <1>1 DEF Owned
    <2> HIDE DEF Contents
    <2>3. Range(Contents[q]) = {Contents[q][i] : i \in 1 .. Len(Contents[q])}
      BY <2>2, RangeEquality
    <2>4. QED
      BY <2>1, <2>2, <2>3
  <1> HIDE DEF Contents
  <1>3. held \cap freed = {} /\ held \subseteq Data /\ freed \subseteq Data
    BY <1>1 DEF Owned
  <1>4. ASSUME NEW q \in Queue \ const_data, NEW p \in Queue \ const_data,
               NEW i \in 1 .. Len(chain[q]), NEW j \in 1 .. Len(chain[p]),
               List(q)[i] = List(p)[j]
        PROVE  q = p /\ i = j
    BY <1>1, <1>2, <1>4 DEF Owned
  <1>5. \A q \in Queue \ const_data : Range(List(q)) \cap (held \cup freed) = {}
    <2> SUFFICES ASSUME NEW q \in Queue \ const_data, NEW v \in Range(List(q))
                 PROVE  v \notin held \cup freed
      OBVIOUS
    <2>1. PICK i \in 1 .. Len(Contents[q]) : v = Contents[q][i]
      BY <1>2
    <2>2. QED
      BY <1>1, <2>1 DEF Owned
  <1>6. Data = held \cup freed \cup UNION {Range(List(q)) : q \in Queue \ const_data}
    <2>1. ASSUME NEW v \in Data, v \notin held \cup freed
          PROVE  v \in UNION {Range(List(q)) : q \in Queue \ const_data}
      <3>1. PICK q \in Queue \ const_data : \E i \in 1 .. Len(Contents[q]) : Contents[q][i] = v
        BY <1>1, <2>1 DEF Owned
      <3>2. v \in Range(List(q))
        BY <1>2, <3>1
      <3>3. QED
        BY <3>2
    <2>2. ASSUME NEW q \in Queue \ const_data, NEW v \in Range(List(q))
          PROVE  v \in Data
      <3>1. PICK i \in 1 .. Len(Contents[q]) : v = Contents[q][i]
        BY <1>2
      <3>2. Contents[q] \in Seq(Data)
        BY <1>2
      <3>3. QED
        BY <3>1, <3>2
    <2>3. QED
      BY <1>3, <2>1, <2>2
  <1>7. QED
    BY <1>2, <1>3, <1>4, <1>5, <1>6 DEF DataOwned

(* Every field of every queue and node keeps its type; in particular a     *)
(* size is never decremented below zero.                                   *)
THEOREM TypeCorrect == Spec => []TypeOK
  <1>1. IInv => TypeOK
    BY DEF IInv
  <1>2. QED
    BY <1>1, Inductive, PTL

(* Push, pop and the loops of clear, destroy and merge leave every list    *)
(* well formed: next, rear and size agree with the nodes of the queue.     *)
THEOREM ListsWellFormed == Spec => []ListShape
  BY ShapeHolds, Inductive, PTL

(* No node is leaked, on two lists, met twice, or reachable once freed.    *)
THEOREM NodesAccounted == Spec => []NodesOwned
  BY NodesHold, Inductive, PTL

(* No datum is lost, freed twice, or freed while the caller or a queue     *)
(* still has it.                                                           *)
THEOREM DataAccounted == Spec => []DataOwned
  BY DataHold, Inductive, PTL

-----------------------------------------------------------------------------
(* Lemmas on sequences for the refinement.                                 *)

LEMMA FirstGoes ==
  ASSUME NEW S, NEW u \in Seq(S), u # <<>>
  PROVE  Range(u) = {Head(u)} \cup Range(Tail(u)) /\ u = <<Head(u)>> \o Tail(u)
  <1>1. Head(u) \in S /\ Tail(u) \in Seq(S) /\ Len(Tail(u)) = Len(u) - 1 /\ Head(u) = u[1]
        /\ \A i \in 1 .. Len(Tail(u)) : Tail(u)[i] = u[i + 1]
    BY HeadTailProperties
  <1>2. <<Head(u)>> \in Seq(S) /\ Len(<<Head(u)>>) = 1 /\ <<Head(u)>>[1] = Head(u)
    BY <1>1
  <1>3. u = <<Head(u)>> \o Tail(u)
    <2> DEFINE w == <<Head(u)>> \o Tail(u)
    <2>1. w \in Seq(S) /\ Len(w) = Len(u)
          /\ \A i \in 1 .. Len(u) : w[i] = IF i <= 1 THEN <<Head(u)>>[i] ELSE Tail(u)[i - 1]
      BY <1>1, <1>2, ConcatProperties
    <2> HIDE DEF w
    <2>2. ASSUME NEW i \in 1 .. Len(u)
          PROVE  u[i] = w[i]
      <3>1. CASE i = 1
        BY <1>1, <1>2, <2>1, <3>1
      <3>2. CASE i # 1
        <4>1. i - 1 \in 1 .. Len(Tail(u)) /\ ~ (i <= 1) /\ i - 1 + 1 = i
          BY <1>1, <3>2
        <4>2. QED
          BY <1>1, <2>1, <4>1
      <3>3. QED
        BY <3>1, <3>2
    <2>3. u = w
      BY <2>1, <2>2, SeqEqual
    <2>4. QED
      BY <2>3 DEF w
  <1>4. Range(<<Head(u)>>) = {Head(u)}
    <2>1. Range(<<Head(u)>>) = {<<Head(u)>>[i] : i \in 1 .. Len(<<Head(u)>>)}
      BY <1>2, RangeEquality
    <2>2. QED
      BY <1>2, <2>1
  <1>5. Range(<<Head(u)>> \o Tail(u)) = Range(<<Head(u)>>) \cup Range(Tail(u))
    <2> DEFINE a == <<Head(u)>>
               b == Tail(u)
    <2>1. a \in Seq(S) /\ b \in Seq(S)
      BY <1>1, <1>2
    <2> HIDE DEF a, b
    <2>2. Range(a \o b) = Range(a) \cup Range(b)
      BY <2>1, RangeConcatenation
    <2>3. QED
      BY <2>2 DEF a, b
  <1>6. QED
    BY <1>3, <1>4, <1>5

LEMMA FirstMoves ==
  ASSUME NEW S, NEW u \in Seq(S), NEW w \in Seq(S), u # <<>>
  PROVE  Append(w, Head(u)) \o Tail(u) = w \o u
  <1>1. Head(u) \in S /\ Tail(u) \in Seq(S) /\ <<Head(u)>> \in Seq(S)
    OBVIOUS
  <1>2. Append(w, Head(u)) = w \o <<Head(u)>>
    BY <1>1, AppendIsConcat
  <1>3. (w \o <<Head(u)>>) \o Tail(u) = w \o (<<Head(u)>> \o Tail(u))
    BY <1>1, ConcatAssociative
  <1>4. <<Head(u)>> \o Tail(u) = u
    BY FirstGoes
  <1>5. QED
    BY <1>2, <1>3, <1>4

-----------------------------------------------------------------------------
(* The refinement mapping, as operators on values, to follow it through a  *)
(* step: L, o, d, s, k, f and t are values of Contents, op, dst, src,      *)
(* const_data, freed and top.                                              *)

Loops(o) == o \in {"clear", "destroy"}

AbsContents(L, o, d, s) ==
  [q \in Queue |->
     IF (Loops(o) /\ q = d) \/ (o = "merge" /\ q = s) THEN <<>>
     ELSE IF o = "merge" /\ q = d THEN L[d] \o L[s]
     ELSE L[q]]

AbsOpen(t, o, d) == {q \in Queue : t[q] # NULL /\ ~ (o = "destroy" /\ q = d)}

AbsFreed(L, k, f, o, d) == f \cup IF Loops(o) /\ d \notin k THEN Range(L[d]) ELSE {}

LEMMA Mapped ==
  ASSUME IInv, IInv'
  PROVE  /\ AbstractContents = AbsContents(Contents, op, dst, src)
         /\ AbstractContents' = AbsContents(Contents', op', dst', src')
         /\ AbstractOpen = AbsOpen(top, op, dst)
         /\ AbstractOpen' = AbsOpen(top', op', dst')
         /\ AbstractFreed = AbsFreed(Contents, const_data, freed, op, dst)
         /\ AbstractFreed' = AbsFreed(Contents', const_data', freed', op', dst')
  <1>1. dst \in Queue /\ src \in Queue /\ dst' \in Queue /\ src' \in Queue
    BY Facts DEF IInv, TypeOK
  <1>2. \A q \in Queue : List(q) = Contents[q] /\ List(q)' = Contents'[q]
    BY ListIs
  <1>3. List(dst) = Contents[dst] /\ List(src) = Contents[src]
    BY <1>1, ListIs
  <1>4. List(dst)' = Contents'[dst'] /\ List(src)' = Contents'[src']
    BY <1>1 DEF List, Contents, Lists
  <1>5. AbstractContents = AbsContents(Contents, op, dst, src)
    BY <1>2, <1>3 DEF AbstractContents, AbsContents, Dropping, Loops
  <1>6. AbstractContents' = AbsContents(Contents', op', dst', src')
    BY <1>2, <1>4 DEF AbstractContents, AbsContents, Dropping, Loops
  <1>7. /\ AbstractOpen = AbsOpen(top, op, dst)
        /\ AbstractOpen' = AbsOpen(top', op', dst')
    BY DEF AbstractOpen, AbsOpen
  <1>8. AbstractFreed = AbsFreed(Contents, const_data, freed, op, dst)
    <2>1. UNION {Range(List(q)) : q \in {r \in Queue \ const_data : Dropping(r)}}
            = IF Loops(op) /\ dst \notin const_data THEN Range(Contents[dst]) ELSE {}
      BY <1>1, <1>2 DEF Dropping, Loops
    <2>2. QED
      BY <2>1 DEF AbstractFreed, AbsFreed
  <1>9. AbstractFreed' = AbsFreed(Contents', const_data', freed', op', dst')
    <2>1. (UNION {Range(List(q)) : q \in {r \in Queue \ const_data : Dropping(r)}})'
            = IF Loops(op') /\ dst' \notin const_data' THEN Range(Contents'[dst']) ELSE {}
      BY <1>1, <1>2 DEF Dropping, Loops
    <2>2. QED
      BY <2>1 DEF AbstractFreed, AbsFreed
  <1>10. QED
    BY <1>5, <1>6, <1>7, <1>8, <1>9

LEMMA MappedIdle ==
  ASSUME NEW L \in [Queue -> Seq(Data)], NEW t, NEW k, NEW f, NEW d, NEW s
  PROVE  /\ AbsContents(L, "idle", d, s) = L
         /\ AbsOpen(t, "idle", d) = {q \in Queue : t[q] # NULL}
         /\ AbsFreed(L, k, f, "idle", d) = f
  BY DEF AbsContents, AbsOpen, AbsFreed, Loops

LEMMA MappedNow ==
  ASSUME IInv, IInv', op = "idle"
  PROVE  /\ AbstractContents = Contents /\ AbstractFreed = freed
         /\ AbstractOpen = {q \in Queue : top[q] # NULL}
  BY Facts, Mapped, MappedIdle

LEMMA MappedNext ==
  ASSUME IInv, IInv', op' = "idle"
  PROVE  /\ AbstractContents' = Contents' /\ AbstractFreed' = freed'
         /\ AbstractOpen' = {q \in Queue : top'[q] # NULL}
  <1>1. Contents' \in [Queue -> Seq(Data)]
    BY DEF IInv, Owned
  <1>2. QED
    BY <1>1, Mapped, MappedIdle

LEMMA InitMaps == Init => F!Init
  <1> SUFFICES ASSUME Init PROVE F!Init
    OBVIOUS
  <1>1. IInv
    BY InitIInv
  <1>2. \A q \in Queue : chain[q] = <<>> /\ Len(chain[q]) = 0 /\ top[q] = NULL
    BY DEF Init
  <1>3. \A q \in Queue : Contents[q] = <<>>
    <2>1. \A q \in Queue : Contents[q] \in Seq(Data \cup {NULL}) /\ Len(Contents[q]) = 0
      BY <1>1, <1>2, ListsTyped DEF IInv, TypeOK, Contents
    <2> HIDE DEF Contents
    <2>2. QED
      BY <2>1
  <1>4. AbstractContents = [q \in Queue |-> <<>>]
    <2>1. \A q \in Queue : List(q) = <<>>
      BY <1>3, ListIs
    <2>2. QED
      BY <2>1 DEF AbstractContents, Dropping, Init
  <1>5. AbstractOpen = {} /\ AbstractFreed = {}
    BY <1>2 DEF AbstractOpen, AbstractFreed, Dropping, Init
  <1>6. QED
    BY <1>4, <1>5 DEF F!Init, Init

(* The operations that run alone.                                          *)
LEMMA OpenMaps ==
  ASSUME IInv, NEW q \in Queue, NEW const \in BOOLEAN, e_queue_init(q, const)
  PROVE  F!Open(q, const)
  <1> USE Facts
  <1>1. IInv' /\ Contents' = Contents /\ Contents[q] = <<>>
    BY OpenStep
  <1>2. /\ op = "idle" /\ op' = "idle" /\ top[q] = NULL /\ held' = held /\ freed' = freed
        /\ ret' = ret /\ dst' = dst /\ src' = src
        /\ const_data' = IF const THEN const_data \cup {q} ELSE const_data \ {q}
    BY DEF e_queue_init, callVars
  <1>3. \E n \in Node : top' = [top EXCEPT ![q] = n] /\ n # NULL
    BY EQueueAssumption DEF e_queue_init
  <1>4. {p \in Queue : top'[p] # NULL} = {p \in Queue : top[p] # NULL} \cup {q}
    BY <1>3 DEF WellFormed, Typed
  <1>5. /\ AbstractContents = Contents /\ AbstractContents' = Contents
        /\ AbstractOpen = {p \in Queue : top[p] # NULL}
        /\ AbstractOpen' = {p \in Queue : top[p] # NULL} \cup {q}
        /\ AbstractFreed = freed /\ AbstractFreed' = freed
    BY <1>1, <1>2, <1>4, MappedNow, MappedNext
  <1>6. [Contents EXCEPT ![q] = <<>>] = Contents
    BY <1>1
  <1>7. QED
    BY <1>2, <1>5, <1>6 DEF F!Open

LEMMA PushMaps ==
  ASSUME IInv, NEW q \in Queue, NEW d \in Data, e_queue_push(q, d)
  PROVE  F!Push(q, d)
  <1> USE Facts
  <1>1. IInv' /\ Contents' = Put(Contents, q, Append(Contents[q], d))
    BY PushStep
  <1>2. /\ op = "idle" /\ op' = "idle" /\ top[q] # NULL /\ top' = top /\ freed' = freed
        /\ d \in held /\ held' = IF q \in const_data THEN held ELSE held \ {d}
        /\ ret' = ret /\ const_data' = const_data
    BY DEF e_queue_push, callVars, Initialised, Link
  <1>3. /\ AbstractContents = Contents /\ AbstractContents' = Contents'
        /\ AbstractOpen = {p \in Queue : top[p] # NULL} /\ AbstractOpen' = AbstractOpen
        /\ AbstractFreed = freed /\ AbstractFreed' = freed
    BY <1>1, <1>2, MappedNow, MappedNext
  <1>4. QED
    BY <1>1, <1>2, <1>3 DEF F!Push, Put

LEMMA PopMaps ==
  ASSUME IInv, NEW q \in Queue, e_queue_pop(q)
  PROVE  F!Pop(q)
  <1> USE Facts
  <1>1. /\ IInv' /\ Contents' = Put(Contents, q, Tail(Contents[q]))
        /\ Contents[q] # <<>> /\ First(q) = Head(Contents[q])
    BY PopStep
  <1>2. /\ op = "idle" /\ op' = "idle" /\ top[q] # NULL /\ top' = top /\ freed' = freed
        /\ held' = IF q \in const_data THEN held ELSE held \cup {First(q)}
        /\ ret' = First(q) /\ const_data' = const_data
    BY DEF e_queue_pop, callVars, Initialised, Unlink
  <1>3. /\ AbstractContents = Contents /\ AbstractContents' = Contents'
        /\ AbstractOpen = {p \in Queue : top[p] # NULL} /\ AbstractOpen' = AbstractOpen
        /\ AbstractFreed = freed /\ AbstractFreed' = freed
    BY <1>1, <1>2, MappedNow, MappedNext
  <1>4. QED
    BY <1>1, <1>2, <1>3 DEF F!Pop, Put

(* A step that leaves what the mapping reads as it was.                    *)
LEMMA SameMaps ==
  ASSUME IInv, IInv', UNCHANGED <<ptrVars, const_data, freed>>, UNCHANGED callVars
  PROVE  UNCHANGED <<AbstractContents, AbstractOpen, AbstractFreed>>
  <1>1. /\ Contents' = Contents /\ top' = top /\ const_data' = const_data /\ freed' = freed
        /\ op' = op /\ dst' = dst /\ src' = src
    BY DEF ptrVars, callVars, Contents
  <1>2. QED
    BY <1>1, Mapped

LEMMA PopNothingMaps ==
  ASSUME IInv, NEW q \in Queue, e_queue_pop_null(q)
  PROVE  F!PopNothing(q)
  <1> USE Facts
  <1>1. /\ UNCHANGED <<ptrVars, const_data, held, freed, callVars>> /\ ret' = NULL /\ op = "idle"
        /\ Initialised(q) => e_queue_empty(q)
    BY DEF e_queue_pop_null
  <1>2. IInv'
    BY <1>1, UnchangedStep DEF callVars, ptrVars
  <1>3. UNCHANGED <<AbstractContents, AbstractOpen, AbstractFreed>>
    BY <1>1, <1>2, SameMaps
  <1>4. AbstractContents = Contents /\ AbstractOpen = {p \in Queue : top[p] # NULL}
    BY <1>1, <1>2, MappedNow
  <1>5. top[q] # NULL => Contents[q] = <<>>
    BY <1>1, EmptyIsEmpty
  <1>6. QED
    BY <1>1, <1>3, <1>4, <1>5 DEF F!PopNothing

(* The loops: they take effect when they begin ...                         *)
LEMMA CallMaps ==
  ASSUME IInv, NEW name \in {"clear", "destroy", "merge"}, NEW dq \in Queue, NEW sq \in Queue,
         e_queue_call(name, dq, sq)
  PROVE  F!Clear(dq) \/ F!Close(dq) \/ (F!Merge(dq, sq) /\ sq # dq)
  <1> USE Facts
  <1>1. IInv' /\ Contents' = Contents
    BY CallStep
  <1>2. /\ op = "idle" /\ op' = name /\ dst' = dq /\ src' = sq
        /\ top[dq] # NULL /\ top[sq] # NULL
        /\ top' = top /\ const_data' = const_data /\ held' = held /\ freed' = freed /\ ret' = ret
        /\ IF name = "merge" THEN dq # sq ELSE dq = sq
    BY DEF e_queue_call, ptrVars
  <1>3. /\ AbstractContents = Contents
        /\ AbstractContents' = AbsContents(Contents, name, dq, sq)
        /\ AbstractOpen = {p \in Queue : top[p] # NULL}
        /\ AbstractOpen' = AbsOpen(top, name, dq)
        /\ AbstractFreed = freed
        /\ AbstractFreed' = AbsFreed(Contents, const_data, freed, name, dq)
    <2>1. AbstractContents = Contents /\ AbstractFreed = freed
          /\ AbstractOpen = {p \in Queue : top[p] # NULL}
      BY <1>1, <1>2, MappedNow
    <2>2. /\ AbstractContents' = AbsContents(Contents', op', dst', src')
          /\ AbstractOpen' = AbsOpen(top', op', dst')
          /\ AbstractFreed' = AbsFreed(Contents', const_data', freed', op', dst')
      BY <1>1, Mapped
    <2>3. QED
      BY <1>1, <1>2, <2>1, <2>2
  <1>4. dq \in AbstractOpen /\ sq \in AbstractOpen
    BY <1>2, <1>3
  <1>5. CASE name = "merge"
    <2>1. AbstractContents' = [Contents EXCEPT ![dq] = Contents[dq] \o Contents[sq], ![sq] = <<>>]
      BY <1>2, <1>3, <1>5 DEF AbsContents, Loops
    <2>2. AbstractOpen' = AbstractOpen /\ AbstractFreed' = AbstractFreed
      BY <1>3, <1>5 DEF AbsOpen, AbsFreed, Loops
    <2>3. QED
      BY <1>2, <1>3, <1>4, <1>5, <2>1, <2>2 DEF F!Merge
  <1>6. CASE name # "merge"
    <2>1. AbstractContents' = [Contents EXCEPT ![dq] = <<>>]
      BY <1>2, <1>3, <1>6 DEF AbsContents, Loops
    <2>2. AbstractFreed' = freed \cup IF dq \in const_data THEN {} ELSE Range(Contents[dq])
      BY <1>3, <1>6 DEF AbsFreed, Loops
    <2>3. AbstractFreed' = AbstractFreed \cup F!Dropped(dq)
      BY <1>3, <2>2 DEF F!Dropped, Range, F!Range
    <2>4. CASE name = "clear"
      <3>1. AbstractOpen' = AbstractOpen
        BY <1>3, <2>4 DEF AbsOpen
      <3>2. QED
        BY <1>2, <1>3, <1>4, <2>1, <2>3, <3>1 DEF F!Clear
    <2>5. CASE name = "destroy"
      <3>1. AbstractOpen' = AbstractOpen \ {dq}
        BY <1>3, <2>5 DEF AbsOpen
      <3>2. QED
        BY <1>2, <1>3, <1>4, <2>1, <2>3, <3>1 DEF F!Close
    <2>6. QED
      BY <1>6, <2>4, <2>5
  <1>7. QED
    BY <1>5, <1>6

(* ... and nothing more happens until they have returned.                  *)
LEMMA DropMaps ==
  ASSUME IInv, drop_first
  PROVE  UNCHANGED F!vars
  <1> USE Facts
  <1>1. /\ IInv' /\ Contents' = Put(Contents, dst, Tail(Contents[dst]))
        /\ Contents[dst] # <<>> /\ First(dst) = Head(Contents[dst])
    BY DropStep
  <1>2. /\ Loops(op) /\ op' = op /\ dst' = dst /\ src' = src /\ top' = top /\ held' = held
        /\ const_data' = const_data /\ ret' = ret
        /\ freed' = IF dst \in const_data THEN freed ELSE freed \cup {First(dst)}
    BY DEF drop_first, callVars, Unlink, Loops
  <1>3. Contents'[dst] = Tail(Contents[dst]) /\ \A p \in Queue \ {dst} : Contents'[p] = Contents[p]
    BY <1>1 DEF Put
  <1>4. AbsContents(Contents', op, dst, src) = AbsContents(Contents, op, dst, src)
    BY <1>2, <1>3 DEF AbsContents, Loops
  <1>5. AbsFreed(Contents', const_data, freed', op, dst)
          = AbsFreed(Contents, const_data, freed, op, dst)
    <2>1. Range(Contents[dst]) = {Head(Contents[dst])} \cup Range(Tail(Contents[dst]))
      BY <1>1, FirstGoes
    <2>2. QED
      BY <1>1, <1>2, <1>3, <2>1 DEF AbsFreed
  <1>6. UNCHANGED <<AbstractContents, AbstractOpen, AbstractFreed>>
    <2>1. AbstractContents' = AbstractContents
      BY <1>1, <1>2, <1>4, Mapped
    <2>2. AbstractOpen' = AbstractOpen
      BY <1>1, <1>2, Mapped
    <2>3. AbstractFreed' = AbstractFreed
      BY <1>1, <1>2, <1>5, Mapped
    <2>4. QED
      BY <2>1, <2>2, <2>3
  <1>7. QED
    BY <1>2, <1>6 DEF F!vars

LEMMA LastMaps ==
  ASSUME IInv, clear_return \/ destroy_return
  PROVE  UNCHANGED F!vars
  <1> USE Facts
  <1>1. IInv' /\ Contents' = Contents /\ Contents[dst] = <<>>
    BY ClearReturnStep, DestroyReturnStep
  <1>2. /\ Loops(op) /\ op' = "idle" /\ freed' = freed /\ held' = held
        /\ const_data' = const_data /\ ret' = ret
        /\ top' = IF op = "destroy" THEN [top EXCEPT ![dst] = NULL] ELSE top
    BY DEF clear_return, destroy_return, Loops
  <1>3. AbsContents(Contents, op, dst, src) = Contents
    BY <1>1, <1>2 DEF AbsContents, Loops
  <1>4. AbsOpen(top, op, dst) = {p \in Queue : top'[p] # NULL}
    BY <1>2 DEF AbsOpen, WellFormed, Typed
  <1>5. AbsFreed(Contents, const_data, freed, op, dst) = freed
    <2>1. Range(Contents[dst]) = {}
      <3>1. Contents[dst] \in Seq(Data) /\ Len(Contents[dst]) = 0
        BY <1>1
      <3>2. Range(Contents[dst]) = {Contents[dst][i] : i \in 1 .. Len(Contents[dst])}
        BY <3>1, RangeEquality
      <3>3. QED
        BY <3>1, <3>2
    <2>2. QED
      BY <2>1 DEF AbsFreed
  <1>6. UNCHANGED <<AbstractContents, AbstractOpen, AbstractFreed>>
    <2>1. AbstractContents' = AbstractContents
      BY <1>1, <1>2, <1>3, Mapped, MappedNext
    <2>2. AbstractOpen' = AbstractOpen
      BY <1>1, <1>2, <1>4, Mapped, MappedNext
    <2>3. AbstractFreed' = AbstractFreed
      BY <1>1, <1>2, <1>5, Mapped, MappedNext
    <2>4. QED
      BY <2>1, <2>2, <2>3
  <1>7. QED
    BY <1>2, <1>6 DEF F!vars

LEMMA MergeFirstMaps ==
  ASSUME IInv, merge_first
  PROVE  UNCHANGED F!vars
  <1> USE Facts
  <1>1. /\ IInv' /\ Contents[src] # <<>> /\ dst # src /\ top' = top
        /\ Contents' = Put(Put(Contents, src, Tail(Contents[src])), dst,
                           Append(Contents[dst], Head(Contents[src])))
    BY MergeStep, MergeEffect
  <1>2. /\ op = "merge" /\ UNCHANGED <<const_data, held, freed, ret, op, dst, src>>
    BY DEF merge_first, callVars
  <1>3. /\ Contents'[src] = Tail(Contents[src])
        /\ Contents'[dst] = Append(Contents[dst], Head(Contents[src]))
        /\ \A p \in Queue \ {src, dst} : Contents'[p] = Contents[p]
    BY <1>1 DEF Put
  <1>4. Contents'[dst] \o Contents'[src] = Contents[dst] \o Contents[src]
    <2>1. Contents[dst] \in Seq(Data) /\ Contents[src] \in Seq(Data)
      OBVIOUS
    <2>2. Append(Contents[dst], Head(Contents[src])) \o Tail(Contents[src])
            = Contents[dst] \o Contents[src]
      BY <1>1, <2>1, FirstMoves
    <2>3. QED
      BY <1>3, <2>2
  <1>5. AbsContents(Contents', op, dst, src) = AbsContents(Contents, op, dst, src)
    BY <1>2, <1>3, <1>4 DEF AbsContents, Loops
  <1>6. AbsFreed(Contents', const_data, freed, op, dst)
          = AbsFreed(Contents, const_data, freed, op, dst)
    BY <1>2 DEF AbsFreed, Loops
  <1>7. UNCHANGED <<AbstractContents, AbstractOpen, AbstractFreed>>
    <2>1. AbstractContents' = AbstractContents
      BY <1>1, <1>2, <1>5, Mapped
    <2>2. AbstractOpen' = AbstractOpen
      BY <1>1, <1>2, Mapped
    <2>3. AbstractFreed' = AbstractFreed
      BY <1>1, <1>2, <1>6, Mapped
    <2>4. QED
      BY <2>1, <2>2, <2>3
  <1>8. QED
    BY <1>2, <1>7 DEF F!vars

LEMMA MergeReturnMaps ==
  ASSUME IInv, merge_return
  PROVE  UNCHANGED F!vars
  <1> USE Facts
  <1>1. /\ op = "merge" /\ op' = "idle" /\ e_queue_empty(src)
        /\ UNCHANGED <<ptrVars, const_data, held, freed, ret, dst, src>>
    BY DEF merge_return
  <1>2. Contents' = Contents /\ top' = top
    BY <1>1 DEF ptrVars, Contents
  <1>3. IInv'
    BY <1>1, UnchangedStep DEF ptrVars
  <1>4. Contents[src] = <<>> /\ Contents[dst] \o Contents[src] = Contents[dst]
    <2>1. Contents[src] = <<>>
      BY <1>1, EmptyIsEmpty DEF LoopsOK
    <2>2. QED
      BY <2>1, ConcatEmptySeq
  <1>5. AbsContents(Contents, op, dst, src) = Contents
    BY <1>1, <1>4 DEF AbsContents, Loops
  <1>6. /\ AbsFreed(Contents, const_data, freed, op, dst) = freed
        /\ AbsOpen(top, op, dst) = {p \in Queue : top[p] # NULL}
    BY <1>1 DEF AbsFreed, AbsOpen, Loops
  <1>7. UNCHANGED <<AbstractContents, AbstractOpen, AbstractFreed>>
    <2>1. AbstractContents' = AbstractContents
      BY <1>1, <1>2, <1>3, <1>5, Mapped, MappedNext
    <2>2. AbstractOpen' = AbstractOpen
      BY <1>1, <1>2, <1>3, <1>6, Mapped, MappedNext
    <2>3. AbstractFreed' = AbstractFreed
      BY <1>1, <1>2, <1>3, <1>6, Mapped, MappedNext
    <2>4. QED
      BY <2>1, <2>2, <2>3
  <1>8. QED
    BY <1>1, <1>7 DEF F!vars

LEMMA StepMaps == IInv /\ [Next]_vars => [F!Next]_(F!vars)
  <1> SUFFICES ASSUME IInv, [Next]_vars PROVE F!Next \/ UNCHANGED F!vars
    OBVIOUS
  <1>1. ASSUME NEW q \in Queue, NEW const \in BOOLEAN, e_queue_init(q, const) PROVE F!Next
    BY <1>1, OpenMaps DEF F!Next
  <1>2. ASSUME NEW q \in Queue, NEW d \in Data, e_queue_push(q, d) PROVE F!Next
    BY <1>2, PushMaps DEF F!Next
  <1>3. ASSUME NEW q \in Queue, e_queue_pop(q) PROVE F!Next
    BY <1>3, PopMaps DEF F!Next
  <1>4. ASSUME NEW q \in Queue, e_queue_pop_null(q) PROVE F!Next
    BY <1>4, PopNothingMaps DEF F!Next
  <1>5. ASSUME NEW name \in {"clear", "destroy", "merge"}, NEW dq \in Queue, NEW sq \in Queue,
               e_queue_call(name, dq, sq)
        PROVE  F!Next
    BY <1>5, CallMaps DEF F!Next
  <1>6. CASE drop_first
    BY <1>6, DropMaps
  <1>7. CASE clear_return \/ destroy_return
    BY <1>7, LastMaps
  <1>8. CASE merge_first
    BY <1>8, MergeFirstMaps
  <1>9. CASE merge_return
    BY <1>9, MergeReturnMaps
  <1>10. CASE UNCHANGED vars
    <2>1. IInv'
      BY NextIInv
    <2>2. QED
      BY <1>10, <2>1, SameMaps DEF vars, F!vars
  <1>11. QED
    BY <1>1, <1>2, <1>3, <1>4, <1>5, <1>6, <1>7, <1>8, <1>9, <1>10 DEF Next

(* core/e_queue.c implements the first-in first-out queues e_queue.h       *)
(* promises: under the mapping that lets the loops of clear, destroy and   *)
(* merge take effect when they begin, every step is a step of Fifo or      *)
(* changes nothing.                                                        *)
THEOREM Implements == Spec => IsFifo
  <1>1. Init => F!Init
    BY InitMaps
  <1>2. IInv /\ [Next]_vars => [F!Next]_(F!vars)
    BY StepMaps
  <1>3. QED
    BY <1>1, <1>2, Inductive, PTL DEF Spec, IsFifo, F!Spec
=============================================================================
