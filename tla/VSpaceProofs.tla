----------------------------- MODULE VSpaceProofs -----------------------------
(***************************************************************************)
(* Proofs about module VSpace for every page size, image, set of zones and *)
(* request sizes: zones stay in order and apart, the answers are within    *)
(* the contract, and the list implements AddressSpace.                     *)
(***************************************************************************)
EXTENDS VSpace, SequenceTheorems, TLAPS

Ids == Zones \cup {"root", "beta"}
Node == [id : Ids, begin : Int, middle : Int]

(* Each struct mem_vspace is in the list at most once, beta_zone is. *)
IdsOnce ==
  \A j \in Nodes, k \in Nodes : j # k => zones[j].id # zones[k].id

(* The inductive invariant. *)
IInv == TypeOK /\ ZonesInOrder /\ IdsOnce /\ ImageKept

-------------------------------------------------------------------------------
(* What InsertAt and RemoveAt do to the elements of a sequence. *)
LEMMA InsertAtElements ==
  ASSUME NEW S, NEW s \in Seq(S), NEW e \in S, NEW k \in 1 .. Len(s) + 1
  PROVE  /\ InsertAt(s, k, e) \in Seq(S)
         /\ Len(InsertAt(s, k, e)) = Len(s) + 1
         /\ \A i \in 1 .. Len(s) + 1 :
              InsertAt(s, k, e)[i] = IF i < k THEN s[i] ELSE
                                     IF i = k THEN e ELSE s[i - 1]
<1> DEFINE a == SubSeq(s, 1, k - 1)
           b == SubSeq(s, k, Len(s))
           c == a \o <<e>>
<1>0. Len(s) \in Nat
  OBVIOUS
<1>1. a \in Seq(S) /\ Len(a) = k - 1 /\ \A i \in 1 .. k - 1 : a[i] = s[i]
  BY <1>0
<1>2. /\ b \in Seq(S) /\ Len(b) = Len(s) - k + 1
      /\ \A i \in 1 .. Len(s) - k + 1 : b[i] = s[k + i - 1]
  BY <1>0
<1>3. InsertAt(s, k, e) = c \o b
  BY DEF InsertAt
<1>4. <<e>> \in Seq(S) /\ Len(<<e>>) = 1 /\ <<e>>[1] = e
  OBVIOUS
<1> HIDE DEF a, b
<1>5. c \in Seq(S) /\ Len(c) = k /\ \A i \in 1 .. k : c[i] = IF i < k THEN a[i] ELSE e
  BY <1>0, <1>1, <1>4
<1> HIDE DEF c
<1>6. /\ c \o b \in Seq(S) /\ Len(c \o b) = Len(s) + 1
      /\ \A i \in 1 .. Len(s) + 1 :
           (c \o b)[i] = IF i <= k THEN c[i] ELSE b[i - k]
  <2>1. c \o b \in Seq(S) /\ Len(c \o b) = Len(c) + Len(b)
    BY <1>2, <1>5, ConcatProperties
  <2>2. \A i \in 1 .. Len(c) + Len(b) :
          (c \o b)[i] = IF i <= Len(c) THEN c[i] ELSE b[i - Len(c)]
    BY <1>2, <1>5, ConcatProperties
  <2> QED BY <1>0, <1>2, <1>5, <2>1, <2>2
<1>7. ASSUME NEW i \in 1 .. Len(s) + 1
      PROVE  (c \o b)[i] = IF i < k THEN s[i] ELSE IF i = k THEN e ELSE s[i - 1]
  <2>0. i \in Int /\ k \in Int /\ i >= 1 /\ i <= Len(s) + 1
    BY <1>0
  <2>1. CASE i <= k
    <3>1. i \in 1 .. k /\ (c \o b)[i] = c[i]
      BY <2>0, <1>6, <2>1
    <3>2. c[i] = IF i < k THEN a[i] ELSE e
      BY <1>5, <3>1
    <3>3. i < k => a[i] = s[i]
      BY <1>1, <3>1
    <3> QED BY <2>0, <2>1, <3>1, <3>2, <3>3
  <2>2. CASE i > k
    <3>1. i - k \in 1 .. Len(s) - k + 1 /\ k + (i - k) - 1 = i - 1
      BY <1>0, <2>2
    <3> QED BY <1>2, <1>6, <2>2, <3>1
  <2>3. i <= k \/ i > k
    BY <2>0
  <2> QED BY <2>1, <2>2, <2>3, Zenon
<1> QED BY <1>3, <1>6, <1>7

(* RemoveAt drops the k-th element and moves the later ones down. *)
LEMMA RemoveAtElements ==
  ASSUME NEW S, NEW s \in Seq(S), NEW k \in 1 .. Len(s)
  PROVE  /\ RemoveAt(s, k) \in Seq(S)
         /\ Len(RemoveAt(s, k)) = Len(s) - 1
         /\ \A i \in 1 .. Len(s) - 1 :
              RemoveAt(s, k)[i] = IF i < k THEN s[i] ELSE s[i + 1]
<1> DEFINE a == SubSeq(s, 1, k - 1)
           b == SubSeq(s, k + 1, Len(s))
<1>0. Len(s) \in Nat
  OBVIOUS
<1>1. a \in Seq(S) /\ Len(a) = k - 1 /\ \A i \in 1 .. k - 1 : a[i] = s[i]
  BY <1>0
<1>2. /\ b \in Seq(S) /\ Len(b) = Len(s) - k
      /\ \A i \in 1 .. Len(s) - k : b[i] = s[k + i]
  BY <1>0
<1>3. RemoveAt(s, k) = a \o b
  BY DEF RemoveAt
<1> HIDE DEF a, b
<1>4. a \o b \in Seq(S) /\ Len(a \o b) = Len(a) + Len(b)
  BY <1>1, <1>2, ConcatProperties
<1>5. \A i \in 1 .. Len(a) + Len(b) :
        (a \o b)[i] = IF i <= Len(a) THEN a[i] ELSE b[i - Len(a)]
  BY <1>1, <1>2, ConcatProperties
<1>6. ASSUME NEW i \in 1 .. Len(s) - 1
      PROVE  (a \o b)[i] = IF i < k THEN s[i] ELSE s[i + 1]
  <2>0. i \in Int /\ k \in Int /\ i >= 1 /\ i <= Len(s) - 1 /\ k >= 1 /\ k <= Len(s)
    BY <1>0
  <2>1. CASE i < k
    <3>1. (a \o b)[i] = a[i]
      BY <1>0, <2>0, <1>1, <1>2, <1>5, <2>1
    <3> QED BY <2>0, <1>1, <2>1, <3>1
  <2>2. CASE i >= k
    <3>1. i - (k - 1) \in 1 .. Len(s) - k /\ k + (i - (k - 1)) = i + 1
      BY <1>0, <2>0, <2>2
    <3>2. (a \o b)[i] = b[i - (k - 1)]
      BY <1>0, <2>0, <1>1, <1>2, <1>5, <2>2
    <3>3. b[i - (k - 1)] = s[i + 1]
      BY <1>2, <3>1
    <3> QED BY <2>0, <2>2, <3>2, <3>3
  <2>3. i < k \/ i >= k
    BY <2>0
  <2> QED BY <2>1, <2>2, <2>3, Zenon
<1> QED BY <1>0, <1>1, <1>2, <1>3, <1>4, <1>6

(* Rounding up to a multiple never makes a size smaller. *)
LEMMA RoundUpBounds ==
  ASSUME NEW size \in Nat
  PROVE  RoundUp(size, PAGE_SIZE) \in Nat /\ RoundUp(size, PAGE_SIZE) >= size
<1>1. (size + PAGE_SIZE - 1) % PAGE_SIZE \in 0 .. PAGE_SIZE - 1
  BY SizesAssumption
<1> QED BY <1>1, SizesAssumption DEF RoundUp, RoundDown

-------------------------------------------------------------------------------
(* Inserting a zone after a node, within the free region of that node.     *)

Inserted(k, zone, m) ==
  /\ k \in 1 .. Len(zones) - 1
  /\ m \in Int
  /\ zones[k].middle < m
  /\ m <= zones[k + 1].begin
  /\ zones' = InsertAt(zones, k + 1,
                [id |-> zone, begin |-> zones[k].middle, middle |-> m])

(* Cutting a zone leaves the nodes before it and moves the later ones up. *)
LEMMA InsertElements ==
  ASSUME IInv, NEW zone \in Zones, NEW k, NEW m, Inserted(k, zone, m)
  PROVE  /\ k \in 1 .. Len(zones) - 1 /\ Len(zones) \in Nat
         /\ zones \in Seq(Node) /\ zones' \in Seq(Node)
         /\ Len(zones') = Len(zones) + 1
         /\ \A i \in 1 .. k : zones'[i] = zones[i]
         /\ zones'[k + 1] = [id |-> zone, begin |-> zones[k].middle, middle |-> m]
         /\ \A i \in k + 2 .. Len(zones) + 1 : zones'[i] = zones[i - 1]
<1> DEFINE new == [id |-> zone, begin |-> zones[k].middle, middle |-> m]
<1>1. zones \in Seq(Node) /\ Len(zones) \in Nat
  BY DEF IInv, TypeOK, Node, Ids
<1>2. k \in 1 .. Len(zones) - 1 /\ k + 1 \in 1 .. Len(zones) + 1
  BY <1>1 DEF Inserted
<1>3. new \in Node
  <2>1. zones[k] \in Node
    BY <1>1, <1>2
  <2> QED BY <2>1 DEF Inserted, Node, Ids
<1>4. zones' = InsertAt(zones, k + 1, new)
  BY DEF Inserted
<1> HIDE DEF new
<1>5. /\ zones' \in Seq(Node)
      /\ Len(zones') = Len(zones) + 1
      /\ \A i \in 1 .. Len(zones) + 1 :
           zones'[i] = IF i < k + 1 THEN zones[i] ELSE
                       IF i = k + 1 THEN new ELSE zones[i - 1]
  <2>1. PICK p \in 1 .. Len(zones) + 1 : p = k + 1
    BY <1>2
  <2>2. /\ InsertAt(zones, p, new) \in Seq(Node)
        /\ Len(InsertAt(zones, p, new)) = Len(zones) + 1
        /\ \A i \in 1 .. Len(zones) + 1 :
             InsertAt(zones, p, new)[i] = IF i < p THEN zones[i] ELSE
                                          IF i = p THEN new ELSE zones[i - 1]
    BY <1>1, <1>3, InsertAtElements
  <2> QED BY <1>4, <2>1, <2>2
<1>6. \A i \in 1 .. k : zones'[i] = zones[i]
  BY <1>1, <1>2, <1>5
<1>7. zones'[k + 1] = new
  BY <1>1, <1>2, <1>5
<1>8. \A i \in k + 2 .. Len(zones) + 1 : zones'[i] = zones[i - 1]
  BY <1>1, <1>2, <1>5
<1> QED BY <1>1, <1>2, <1>5, <1>6, <1>7, <1>8 DEF new

(* Nodes have addresses, and the order holds between any two of them. *)
LEMMA Order ==
  ASSUME IInv
  PROVE  /\ Len(zones) \in Nat
         /\ \A i \in 1 .. Len(zones) :
              /\ zones[i].id \in Ids /\ zones[i].begin \in Int /\ zones[i].middle \in Int
              /\ VSPACE_BEGIN_PTR <= zones[i].begin
              /\ zones[i].begin <= zones[i].middle
              /\ zones[i].middle <= VSPACE_END_PTR
         /\ \A i \in 1 .. Len(zones), j \in 1 .. Len(zones) :
              i < j => zones[i].middle <= zones[j].begin
<1>1. zones \in Seq(Node) /\ Len(zones) \in Nat
  BY DEF IInv, TypeOK, Node, Ids
<1>2. \A i \in 1 .. Len(zones) : zones[i] \in Node
  BY <1>1
<1> QED BY <1>1, <1>2 DEF IInv, ZonesInOrder, Nodes, Node

(* Cutting a zone from a free region (lines 44-70) keeps the invariant. *)
LEMMA InsertKeeps ==
  ASSUME IInv, NEW zone \in Zones, ~InUse(zone),
         NEW k, NEW m, Inserted(k, zone, m),
         phase' \in {"up", "size", "assertion", "null_dereference"},
         asked' \in Nat, least' \in Nat, got' \in Nat
  PROVE  IInv'
<1>0. VSPACE_BEGIN_PTR \in Int /\ VSPACE_END_PTR \in Int
  BY SizesAssumption DEF VSPACE_BEGIN_PTR
<1>1. /\ k \in 1 .. Len(zones) - 1 /\ Len(zones) \in Nat
      /\ zones' \in Seq(Node) /\ Len(zones') = Len(zones) + 1
      /\ \A i \in 1 .. k : zones'[i] = zones[i]
      /\ \A i \in k + 2 .. Len(zones) + 1 : zones'[i] = zones[i - 1]
  BY InsertElements
<1>2. /\ zones'[k + 1].id = zone
      /\ zones'[k + 1].begin = zones[k].middle /\ zones'[k + 1].middle = m
  <2>1. zones'[k + 1] = [id |-> zone, begin |-> zones[k].middle, middle |-> m]
    BY InsertElements
  <2> QED BY <2>1
<1>3. m \in Int /\ zones[k].middle < m /\ m <= zones[k + 1].begin
  BY DEF Inserted
<1>4. \A i \in Nodes' :
        \/ i \in 1 .. k /\ i \in Nodes
        \/ i = k + 1
        \/ i \in k + 2 .. Len(zones) + 1 /\ i - 1 \in Nodes /\ i - 1 >= k + 1
  BY <1>1 DEF Nodes
<1>5. TypeOK'
  <2>1. zones'[1] = zones[1] /\ Len(zones') >= 1
    BY <1>1
  <2> QED BY <1>1, <2>1 DEF IInv, TypeOK, Node, Ids
<1>6. ZonesInOrder'
  <2>1. ASSUME NEW i \in Nodes'
        PROVE  /\ VSPACE_BEGIN_PTR <= zones'[i].begin
               /\ zones'[i].begin <= zones'[i].middle
               /\ zones'[i].middle <= VSPACE_END_PTR
    <3>1. CASE i \in 1 .. k /\ i \in Nodes
      BY <1>1, <3>1, Order DEF Nodes
    <3>2. CASE i = k + 1
      <4>1. /\ k \in 1 .. Len(zones) /\ k + 1 \in 1 .. Len(zones)
        BY <1>1
      <4>2. /\ VSPACE_BEGIN_PTR <= zones[k].begin /\ zones[k].begin <= zones[k].middle
            /\ zones[k].begin \in Int /\ zones[k].middle \in Int
        BY <4>1, Order
      <4>3. /\ zones[k + 1].begin <= zones[k + 1].middle
            /\ zones[k + 1].middle <= VSPACE_END_PTR
            /\ zones[k + 1].begin \in Int /\ zones[k + 1].middle \in Int
        BY <4>1, Order
      <4> QED BY <1>0, <1>2, <1>3, <3>2, <4>2, <4>3
    <3>3. CASE i \in k + 2 .. Len(zones) + 1 /\ i - 1 \in Nodes
      BY <1>1, <3>3, Order DEF Nodes
    <3> QED BY <1>4, <3>1, <3>2, <3>3
  <2>2. ASSUME NEW i \in Nodes', NEW j \in Nodes', i < j
        PROVE  zones'[i].middle <= zones'[j].begin
    <3>0. i \in Int /\ j \in Int /\ k \in Int
      BY <1>1 DEF Nodes
    <3>1. CASE i \in 1 .. k /\ i \in Nodes
      <4>1. CASE j \in 1 .. k /\ j \in Nodes
        BY <1>1, <2>2, <3>1, <4>1, Order DEF Nodes
      <4>2. CASE j = k + 1
        <5>1. CASE i = k
          <6>1. k \in 1 .. Len(zones)
            BY <1>1
          <6>2. zones[k].middle \in Int
            BY <6>1, Order
          <6>3. zones'[i] = zones[k] /\ zones'[j].begin = zones[k].middle
            BY <1>1, <1>2, <3>1, <4>2, <5>1
          <6> QED BY <6>2, <6>3
        <5>2. CASE i # k
          <6>1. /\ zones[i].middle <= zones[k].begin
                /\ zones[k].begin <= zones[k].middle
                /\ zones[i].middle \in Int /\ zones[k].begin \in Int
                /\ zones[k].middle \in Int
            <7>1. i \in 1 .. Len(zones) /\ k \in 1 .. Len(zones) /\ i < k
              BY <1>1, <3>0, <3>1, <5>2
            <7> QED BY <7>1, Order
          <6>2. zones'[i] = zones[i] /\ zones'[j].begin = zones[k].middle
            BY <1>1, <1>2, <3>1, <4>2
          <6> QED BY <6>1, <6>2
        <5> QED BY <5>1, <5>2
      <4>3. CASE j \in k + 2 .. Len(zones) + 1 /\ j - 1 \in Nodes /\ j - 1 >= k + 1
        <5>1. i \in 1 .. Len(zones) /\ j - 1 \in 1 .. Len(zones) /\ i < j - 1
          BY <1>1, <3>0, <3>1, <4>3 DEF Nodes
        <5>2. zones'[i] = zones[i] /\ zones'[j] = zones[j - 1]
          BY <1>1, <3>1, <4>3
        <5>3. zones[i].middle <= zones[j - 1].begin
          BY <5>1, Order
        <5> QED BY <5>2, <5>3
      <4> QED BY <1>4, <4>1, <4>2, <4>3
    <3>2. CASE i = k + 1
      <4>1. j \in k + 2 .. Len(zones) + 1 /\ j - 1 \in Nodes /\ j - 1 >= k + 1
        BY <1>4, <2>2, <3>0, <3>2
      <4>2. zones'[i].middle = m /\ zones'[j] = zones[j - 1]
        BY <1>1, <1>2, <3>2, <4>1
      <4>3. zones[k + 1].begin <= zones[j - 1].begin
        <5>1. CASE j - 1 = k + 1
          BY <1>1, <4>1, <5>1, Order DEF Nodes
        <5>2. CASE j - 1 # k + 1
          <6>1. /\ zones[k + 1].begin <= zones[k + 1].middle
                /\ zones[k + 1].middle <= zones[j - 1].begin
                /\ zones[k + 1].begin \in Int /\ zones[k + 1].middle \in Int
                /\ zones[j - 1].begin \in Int
            BY <1>1, <3>0, <4>1, <5>2, Order DEF Nodes
          <6> QED BY <6>1
        <5> QED BY <5>1, <5>2
      <4>4. zones[k + 1].begin \in Int /\ zones[j - 1].begin \in Int
        BY <1>1, <4>1, Order DEF Nodes
      <4> QED BY <1>3, <4>2, <4>3, <4>4
    <3>3. CASE i \in k + 2 .. Len(zones) + 1 /\ i - 1 \in Nodes /\ i - 1 >= k + 1
      <4>1. j \in k + 2 .. Len(zones) + 1 /\ j - 1 \in Nodes
        BY <1>4, <2>2, <3>0, <3>3
      <4>2. zones'[i] = zones[i - 1] /\ zones'[j] = zones[j - 1]
        BY <1>1, <3>3, <4>1
      <4>3. i - 1 < j - 1 /\ i - 1 \in 1 .. Len(zones) /\ j - 1 \in 1 .. Len(zones)
        BY <2>2, <3>0, <3>3, <4>1 DEF Nodes
      <4>4. zones[i - 1].middle <= zones[j - 1].begin
        BY <4>3, Order
      <4> QED BY <4>2, <4>4
    <3> QED BY <1>4, <3>1, <3>2, <3>3
  <2> QED BY <2>1, <2>2 DEF ZonesInOrder, VSPACE_BEGIN_PTR
<1>7. IdsOnce'
  <2>1. \A i \in Nodes : zones[i].id # zone
    BY DEF InUse
  <2>2. \A i \in Nodes, j \in Nodes : i # j => zones[i].id # zones[j].id
    BY DEF IInv, IdsOnce
  <2> SUFFICES ASSUME NEW i \in Nodes', NEW j \in Nodes', i < j
               PROVE  zones'[i].id # zones'[j].id
    BY <1>1 DEF IdsOnce, Nodes
  <2>3. i \in Int /\ j \in Int /\ k \in Int
    BY <1>1 DEF Nodes
  <2>4. CASE i = k + 1
    <3>1. j \in k + 2 .. Len(zones) + 1 /\ j - 1 \in Nodes
      BY <1>4, <2>3, <2>4
    <3> QED BY <1>1, <1>2, <2>1, <2>4, <3>1
  <2>5. CASE j = k + 1
    BY <1>1, <1>2, <1>4, <2>1, <2>3, <2>5
  <2>6. CASE i # k + 1 /\ j # k + 1
    <3> DEFINE old(n) == IF n <= k THEN n ELSE n - 1
    <3>1. /\ old(i) \in Nodes /\ zones'[i] = zones[old(i)]
          /\ old(j) \in Nodes /\ zones'[j] = zones[old(j)]
          /\ old(i) # old(j)
      BY <1>1, <1>4, <2>3, <2>6
    <3> QED BY <2>2, <3>1
  <2> QED BY <2>4, <2>5, <2>6
<1>8. ImageKept'
  <2>1. PICK b \in Nodes :
          zones[b] = [id |-> "beta", begin |-> ImageBegin, middle |-> ImageEnd]
    BY DEF IInv, ImageKept
  <2>2. CASE b <= k
    BY <1>1, <2>1, <2>2 DEF ImageKept, Nodes
  <2>3. CASE b > k
    <3>1. b + 1 \in k + 2 .. Len(zones) + 1 /\ (b + 1) - 1 = b
      BY <1>1, <2>3 DEF Nodes
    <3>2. zones'[b + 1] = zones[(b + 1) - 1]
      BY <1>1, <3>1
    <3>3. b + 1 \in Nodes' /\ zones'[b + 1] = zones[b]
      BY <1>1, <3>1, <3>2 DEF Nodes
    <3> QED BY <2>1, <3>3 DEF ImageKept, ImageBegin, ImageEnd
  <2> QED BY <1>1, <2>2, <2>3 DEF Nodes
<1> QED BY <1>5, <1>6, <1>7, <1>8 DEF IInv

(* Removing a node gives its space to the node before it. *)
LEMMA RemoveKeeps ==
  ASSUME IInv, NEW k \in Nodes, zones[k].id \in Zones,
         zones' = RemoveAt(zones, k),
         phase' \in {"up", "size", "assertion", "null_dereference"},
         asked' \in Nat, least' \in Nat, got' \in Nat
  PROVE  IInv'
<1> DEFINE old(n) == IF n < k THEN n ELSE n + 1
<1>0. /\ zones \in Seq(Node) /\ Len(zones) \in Nat /\ k \in 1 .. Len(zones)
      /\ zones[1].id = "root" /\ k # 1
  BY ZonesAssumption DEF IInv, TypeOK, Node, Ids, Nodes
<1>1. /\ zones' \in Seq(Node) /\ Len(zones') = Len(zones) - 1
      /\ \A i \in 1 .. Len(zones) - 1 :
           zones'[i] = IF i < k THEN zones[i] ELSE zones[i + 1]
  BY <1>0, RemoveAtElements
<1>2. \A i \in Nodes' : i \in Int /\ old(i) \in Nodes /\ zones'[i] = zones[old(i)]
  BY <1>0, <1>1 DEF Nodes
<1>3. \A i \in Nodes', j \in Nodes' : i < j => old(i) < old(j)
  BY <1>0, <1>2
<1> HIDE DEF old
<1>4. TypeOK'
  <2>1. zones'[1] = zones[1] /\ Len(zones') >= 1
    BY <1>0, <1>1
  <2> QED BY <1>0, <1>1, <2>1 DEF IInv, TypeOK, Node, Ids
<1>5. ZonesInOrder'
  BY <1>2, <1>3 DEF IInv, ZonesInOrder, VSPACE_BEGIN_PTR
<1>6. IdsOnce'
  <2>1. \A i \in Nodes', j \in Nodes' : i # j => old(i) # old(j)
    BY <1>0, <1>2 DEF old
  <2> QED BY <1>2, <2>1 DEF IInv, IdsOnce
<1>7. ImageKept'
  <2>1. PICK b \in Nodes :
          zones[b] = [id |-> "beta", begin |-> ImageBegin, middle |-> ImageEnd]
    BY DEF IInv, ImageKept
  <2>2. b # k
    <3>1. zones[b].id = "beta"
      BY <2>1
    <3>2. zones[k].id # "beta"
      BY ZonesAssumption
    <3> QED BY <3>1, <3>2
  <2>3. CASE b < k
    BY <1>0, <1>1, <2>1, <2>3 DEF ImageKept, Nodes, ImageBegin, ImageEnd
  <2>4. CASE b > k
    <3>1. b - 1 \in Nodes' /\ zones'[b - 1] = zones[b]
      BY <1>0, <1>1, <2>4 DEF Nodes
    <3> QED BY <2>1, <3>1 DEF ImageKept, ImageBegin, ImageEnd
  <2> QED BY <1>0, <2>2, <2>3, <2>4 DEF Nodes
<1> QED BY <1>4, <1>5, <1>6, <1>7 DEF IInv

-------------------------------------------------------------------------------
(* Every step inserts a zone, removes one, or leaves the list alone. *)

(* What a slice does once the scan has found a node with enough space: it  *)
(* never fails an assertion.                                               *)
LEMMA SliceSteps ==
  ASSUME IInv, NEW zone \in Zones, NEW k \in Nodes, NEW m, NEW assertion \in BOOLEAN,
         phase = "up",
         k # Len(zones) => /\ assertion
                           /\ m \in Int
                           /\ zones[k].middle < m /\ m <= zones[k + 1].begin,
         SliceEndingAt(k, zone, m, assertion)
  PROVE  /\ phase' \in {"up", "null_dereference"} /\ got' \in Nat
         /\ zones' = zones \/ \E j, n : Inserted(j, zone, n)
<1>0. k \in 1 .. Len(zones) /\ Len(zones) \in Nat /\ zones[k].middle \in Int
  BY Order DEF Nodes
<1>1. CASE k = Len(zones)
  BY <1>1 DEF SliceEndingAt, Stop
<1>2. CASE k # Len(zones)
  <2>1. Inserted(k, zone, m) /\ got' = m - zones[k].middle /\ phase' = phase
    BY <1>0, <1>2 DEF SliceEndingAt, Inserted
  <2> QED BY <1>0, <1>2, <2>1
<1> QED BY <1>1, <1>2

(* A scan (lines 80-114) cuts one zone after some node, or nothing. *)
LEMMA CarveSteps ==
  ASSUME IInv, NEW zone \in Zones, phase = "up",
         NEW size \in Nat, NEW min \in Nat \ {0}, NEW max \in Nat, NEW goal \in Nat \ {0},
         goal <= max, Carve(zone, size, min, max, goal)
  PROVE  /\ phase' \in {"up", "null_dereference"}
         /\ asked' \in Nat /\ least' \in Nat /\ got' \in Nat
         /\ zones' = zones \/ \E j, n : Inserted(j, zone, n)
<1>1. asked' \in Nat /\ least' \in Nat
  BY DEF Carve
<1>2. CASE \E k \in Nodes : FirstFit(k, min, max) /\ slice_entire_node(k, zone)
  <2>1. PICK k \in Nodes : FirstFit(k, min, max) /\ slice_entire_node(k, zone)
    BY <1>2
  <2>2. /\ k \in 1 .. Len(zones) /\ Len(zones) \in Nat
        /\ zones[k].begin \in Int /\ zones[k].middle \in Int
        /\ zones[k].begin <= zones[k].middle
    BY Order DEF Nodes
  <2>3. /\ get_end_ptr(k) \in Int
        /\ k # Len(zones) => get_end_ptr(k) = zones[k + 1].begin
    BY <2>2, Order, SizesAssumption DEF get_end_ptr
  <2>4. zones[k].middle < get_end_ptr(k)
    BY <2>1, <2>2, <2>3 DEF FirstFit, Fits, get_free_size
  <2> DEFINE m == get_end_ptr(k)
             assertion == zones[k].begin <= zones[k].middle /\ zones[k].middle < m
  <2>5. SliceEndingAt(k, zone, m, assertion) /\ assertion = TRUE
    BY <2>1, <2>2, <2>4 DEF slice_entire_node
  <2> HIDE DEF assertion, m
  <2>6. m = get_end_ptr(k)
    BY DEF m
  <2>7. k # Len(zones) => /\ assertion
                          /\ m \in Int
                          /\ zones[k].middle < m /\ m <= zones[k + 1].begin
    BY <2>2, <2>3, <2>4, <2>5, <2>6
  <2>8. assertion \in BOOLEAN
    BY <2>5
  <2> QED BY <1>1, <2>5, <2>7, <2>8, SliceSteps
<1>3. CASE \E k \in Nodes : SmallestTooBig(k, max) /\ slice_partial_node(k, goal, zone)
  <2>1. PICK k \in Nodes : SmallestTooBig(k, max) /\ slice_partial_node(k, goal, zone)
    BY <1>3
  <2>2. /\ k \in 1 .. Len(zones) /\ Len(zones) \in Nat
        /\ zones[k].begin \in Int /\ zones[k].middle \in Int
        /\ zones[k].begin <= zones[k].middle
    BY Order DEF Nodes
  <2>3. /\ get_end_ptr(k) \in Int
        /\ k # Len(zones) => get_end_ptr(k) = zones[k + 1].begin
    BY <2>2, Order, SizesAssumption DEF get_end_ptr
  <2>4. zones[k].middle < get_end_ptr(k) /\ zones[k].middle + goal < get_end_ptr(k)
    BY <2>1, <2>2, <2>3 DEF SmallestTooBig, TooBig, get_free_size
  <2> DEFINE m == zones[k].middle + goal
             assertion == /\ zones[k].begin <= zones[k].middle
                          /\ zones[k].middle < get_end_ptr(k)
                          /\ m < get_end_ptr(k)
  <2>5. SliceEndingAt(k, zone, m, assertion) /\ assertion = TRUE
    BY <2>1, <2>2, <2>4 DEF slice_partial_node
  <2> HIDE DEF assertion, m
  <2>6. m = zones[k].middle + goal
    BY DEF m
  <2>7. k # Len(zones) => /\ assertion
                          /\ m \in Int
                          /\ zones[k].middle < m /\ m <= zones[k + 1].begin
    BY <2>2, <2>3, <2>4, <2>5, <2>6
  <2>8. assertion \in BOOLEAN
    BY <2>5
  <2> QED BY <1>1, <2>5, <2>7, <2>8, SliceSteps
<1>4. CASE got' = 0 /\ UNCHANGED <<zones, phase>>
  BY <1>1, <1>4
<1> QED BY <1>2, <1>3, <1>4 DEF Carve

(* Every call changes the list by one insertion or one removal, or not at  *)
(* all.                                                                    *)
LEMMA Steps ==
  ASSUME IInv, Next
  PROVE  /\ phase' \in {"up", "size", "null_dereference"}
         /\ asked' \in Nat /\ least' \in Nat /\ got' \in Nat
         /\ \/ zones' = zones
            \/ \E zone \in Zones : \E k, m : ~InUse(zone) /\ Inserted(k, zone, m)
            \/ \E k \in Nodes : zones[k].id \in Zones /\ zones' = RemoveAt(zones, k)
<1>0. asked \in Nat /\ least \in Nat /\ got \in Nat
  BY DEF IInv, TypeOK
<1>1. ASSUME NEW zone \in Zones, NEW size \in ApproximateSizes,
             mem_vspace_alloc_slice(zone, size)
      PROVE  /\ phase' \in {"up", "size", "null_dereference"}
             /\ asked' \in Nat /\ least' \in Nat /\ got' \in Nat
             /\ \/ zones' = zones
                \/ \E k, m : ~InUse(zone) /\ Inserted(k, zone, m)
  <2>0. size \in Nat /\ phase = "up" /\ ~InUse(zone)
    BY <1>1, SizesAssumption DEF mem_vspace_alloc_slice
  <2> DEFINE min == MinRounded(size)
             max == MaxRounded(size)
             goal == GoalRounded(size)
  <2>1. CASE min <= goal /\ goal <= max
    <3>1. Carve(zone, size, min, max, goal)
      BY <1>1, <2>1 DEF mem_vspace_alloc_slice
    <3>2. min \in Nat \ {0}
      <4>1. size \div 2 + 1 \in Nat /\ size \div 2 + 1 >= 1
        BY <2>0
      <4> QED BY <4>1, RoundUpBounds DEF MinRounded
    <3>3. goal \in Nat
      BY <2>0, RoundUpBounds DEF GoalRounded
    <3>4. max \in Int
      <4>1. (size * 2) % Word \in Int
        BY <2>0, SizesAssumption
      <4> DEFINE double == (size * 2) % Word
      <4> HIDE DEF double
      <4>2. double - (double % PAGE_SIZE) \in Int
        BY <4>1, SizesAssumption DEF double
      <4> QED BY <4>2 DEF MaxRounded, RoundDown, double
    <3> HIDE DEF min, max, goal
    <3>5. max \in Nat /\ goal \in Nat \ {0} /\ goal <= max
      BY <2>1, <3>2, <3>3, <3>4
    <3> QED BY <2>0, <3>1, <3>2, <3>5, CarveSteps
  <2>2. CASE ~(min <= goal /\ goal <= max)
    BY <1>0, <1>1, <2>2 DEF mem_vspace_alloc_slice, Stop
  <2> QED BY <2>1, <2>2
<1>2. ASSUME NEW zone \in Zones, NEW size \in PreciseSizes,
             mem_vspace_alloc_slice_spec(zone, size)
      PROVE  /\ phase' \in {"up", "size", "null_dereference"}
             /\ asked' \in Nat /\ least' \in Nat /\ got' \in Nat
             /\ \/ zones' = zones
                \/ \E k, m : ~InUse(zone) /\ Inserted(k, zone, m)
  <2>1. /\ size \in Nat \ {0} /\ size \in Nat /\ size <= size
        /\ phase = "up" /\ ~InUse(zone)
        /\ Carve(zone, size, size, size, size)
    BY <1>2, SizesAssumption DEF mem_vspace_alloc_slice_spec
  <2> QED BY <2>1, CarveSteps
<1>3. ASSUME NEW k \in Nodes, mem_vspace_dealloc_slice(k)
      PROVE  /\ phase' = "up" /\ asked' \in Nat /\ least' \in Nat /\ got' \in Nat
             /\ zones[k].id \in Zones /\ zones' = RemoveAt(zones, k)
  BY <1>3 DEF mem_vspace_dealloc_slice, Unlink
<1> QED BY <1>1, <1>2, <1>3 DEF Next

-------------------------------------------------------------------------------
(* The list that mem_vspace_setup leaves satisfies the invariant. *)
LEMMA InitIInv == Init => IInv
<1> SUFFICES ASSUME Init PROVE IInv
  OBVIOUS
<1>0. VSPACE_BEGIN_PTR \in Int /\ VSPACE_END_PTR \in Int /\ ImageBegin \in Int /\ ImageEnd \in Int
  BY SizesAssumption DEF VSPACE_BEGIN_PTR
<1> DEFINE root == [id |-> "root", begin |-> VSPACE_BEGIN_PTR, middle |-> VSPACE_BEGIN_PTR]
           beta == [id |-> "beta", begin |-> ImageBegin, middle |-> ImageEnd]
<1>1. zones = <<root, beta>> /\ Len(zones) = 2 /\ zones[1] = root /\ zones[2] = beta
  BY DEF Init
<1>2. root \in Node /\ beta \in Node
  BY <1>0 DEF Node, Ids
<1>3. /\ root.id = "root" /\ root.begin = VSPACE_BEGIN_PTR /\ root.middle = VSPACE_BEGIN_PTR
      /\ beta.id = "beta" /\ beta.begin = ImageBegin /\ beta.middle = ImageEnd
  OBVIOUS
<1> HIDE DEF root, beta
<1>4. TypeOK
  BY <1>1, <1>2, <1>3 DEF TypeOK, Init, Node, Ids
<1>5. Nodes = {1, 2}
  BY <1>1 DEF Nodes
<1>6. ZonesInOrder
  BY <1>0, <1>1, <1>3, <1>5, ImageAssumption DEF ZonesInOrder
<1>7. IdsOnce
  BY <1>1, <1>3, <1>5 DEF IdsOnce
<1>8. ImageKept
  BY <1>1, <1>5 DEF ImageKept, beta
<1> QED BY <1>4, <1>6, <1>7, <1>8 DEF IInv

(* Every call of mem_vspace.c keeps the invariant. *)
LEMMA NextIInv == IInv /\ [Next]_vars => IInv'
<1> SUFFICES ASSUME IInv, [Next]_vars PROVE IInv'
  OBVIOUS
<1>1. CASE UNCHANGED vars
  BY <1>1 DEF IInv, TypeOK, ZonesInOrder, IdsOnce, ImageKept, vars, Nodes,
              ImageBegin, ImageEnd, VSPACE_BEGIN_PTR
<1>2. CASE Next
  <2>1. /\ phase' \in {"up", "size", "assertion", "null_dereference"}
        /\ asked' \in Nat /\ least' \in Nat /\ got' \in Nat
    BY <1>2, Steps
  <2>2. CASE zones' = zones
    BY <2>1, <2>2 DEF IInv, TypeOK, ZonesInOrder, IdsOnce, ImageKept, Nodes,
                      ImageBegin, ImageEnd, VSPACE_BEGIN_PTR
  <2>3. CASE \E zone \in Zones : \E k, m : ~InUse(zone) /\ Inserted(k, zone, m)
    BY <2>1, <2>3, InsertKeeps
  <2>4. CASE \E k \in Nodes : zones[k].id \in Zones /\ zones' = RemoveAt(zones, k)
    BY <2>1, <2>4, RemoveKeeps
  <2> QED BY <1>2, <2>2, <2>3, <2>4, Steps
<1> QED BY <1>1, <1>2

(* The invariant holds after any history of allocations and frees: the     *)
(* nodes are well formed, in order, each once, around the image.           *)
THEOREM IInvHolds == Spec => []IInv
  BY InitIInv, NextIInv, PTL DEF Spec

(* The list is well formed after any history of calls. *)
THEOREM TypeCorrect == Spec => []TypeOK
<1>1. IInv => TypeOK
  BY DEF IInv
<1> QED BY <1>1, IInvHolds, PTL

(* No two live zones overlap, and none overlaps the image: whatever sizes  *)
(* are asked for and in whatever order zones are given back.               *)
THEOREM OrderCorrect == Spec => []ZonesInOrder
<1>1. IInv => ZonesInOrder
  BY DEF IInv
<1> QED BY <1>1, IInvHolds, PTL

(* No call takes the program's image out of the list. *)
THEOREM ImageCorrect == Spec => []ImageKept
<1>1. IInv => ImageKept
  BY DEF IInv
<1> QED BY <1>1, IInvHolds, PTL

(* The assertions of slice_entire_node and slice_partial_node on the       *)
(* region they are given never fire.                                       *)
THEOREM SliceAssertionsCorrect == Spec => []SliceAssertionsHold
<1>1. Init => SliceAssertionsHold
  BY DEF Init, SliceAssertionsHold
<1>2. IInv /\ SliceAssertionsHold /\ [Next]_vars => SliceAssertionsHold'
  BY Steps DEF SliceAssertionsHold, vars
<1> QED BY <1>1, <1>2, IInvHolds, PTL DEF Spec

-------------------------------------------------------------------------------
(* What an allocation answers. *)

(* Free regions have a size. *)
LEMMA FreeSizes ==
  ASSUME IInv, NEW k \in Nodes
  PROVE  get_free_size(k) \in Int
<1>1. /\ Len(zones) \in Nat /\ k \in 1 .. Len(zones) /\ zones[k].middle \in Int
      /\ k # Len(zones) => zones[k + 1].begin \in Int
  BY Order DEF Nodes
<1> QED BY <1>1, SizesAssumption DEF get_free_size, get_end_ptr

(* Rounding down to a multiple never makes a size larger. *)
LEMMA RoundDownBounds ==
  ASSUME NEW size \in Nat
  PROVE  RoundDown(size, PAGE_SIZE) \in Int /\ RoundDown(size, PAGE_SIZE) <= size
<1>1. size % PAGE_SIZE \in 0 .. PAGE_SIZE - 1
  BY SizesAssumption
<1> QED BY <1>1, SizesAssumption DEF RoundDown

(* Whatever the scan (lines 81-110) finds, what is given is within the     *)
(* bounds, and nothing is given only when no region is large enough.       *)
LEMMA CarveAnswers ==
  ASSUME IInv, phase = "up",
         NEW zone, NEW size \in Nat,
         NEW min \in Nat \ {0}, NEW max \in Nat, NEW goal \in Nat,
         min <= goal, goal <= max, size <= 2 * min, max <= 2 * size,
         Carve(zone, size, min, max, goal)
  PROVE  AnswersRight'
<1>1. asked' = size /\ least' = min
  BY DEF Carve
<1>2. ASSUME NEW n \in min .. max, got' = n
      PROVE  AnswersRight'
  BY <1>1, <1>2 DEF AnswersRight, SizeContract, ExhaustedMeansNoGap
<1>3. ASSUME got' = 0, phase' # "up"
      PROVE  AnswersRight'
  BY <1>3 DEF AnswersRight, SizeContract, ExhaustedMeansNoGap
<1>4. CASE \E k \in Nodes : FirstFit(k, min, max) /\ slice_entire_node(k, zone)
  <2>1. PICK k \in Nodes : FirstFit(k, min, max) /\ slice_entire_node(k, zone)
    BY <1>4
  <2>2. get_free_size(k) \in min .. max
    BY <2>1 DEF FirstFit, Fits
  <2>3. \/ got' = 0 /\ phase' # "up"
        \/ got' = get_free_size(k)
    BY <2>1 DEF slice_entire_node, SliceEndingAt, Stop, get_free_size
  <2> QED BY <1>2, <1>3, <2>2, <2>3
<1>5. CASE \E k \in Nodes : SmallestTooBig(k, max) /\ slice_partial_node(k, goal, zone)
  <2>1. PICK k \in Nodes : SmallestTooBig(k, max) /\ slice_partial_node(k, goal, zone)
    BY <1>5
  <2>2. zones[k].middle \in Int
    BY Order DEF Nodes
  <2>3. \/ got' = 0 /\ phase' # "up"
        \/ got' = (zones[k].middle + goal) - zones[k].middle
    BY <2>1 DEF slice_partial_node, SliceEndingAt, Stop
  <2> QED BY <1>2, <1>3, <2>2, <2>3
<1>6. CASE /\ \A k \in Nodes : ~Fits(k, min, max) /\ ~TooBig(k, max)
           /\ got' = 0 /\ zones' = zones
  <2>1. Nodes' = Nodes
    BY <1>6 DEF Nodes
  <2>2. ASSUME NEW k \in Nodes
        PROVE  get_free_size(k)' < min
    <3>1. get_free_size(k)' = get_free_size(k)
      BY <1>6 DEF get_free_size, get_end_ptr
    <3>2. ~(get_free_size(k) \in min .. max) /\ ~(get_free_size(k) > max)
      BY <1>6 DEF Fits, TooBig
    <3> QED BY <3>1, <3>2, FreeSizes
  <2> QED BY <1>1, <1>6, <2>1, <2>2 DEF AnswersRight, SizeContract, ExhaustedMeansNoGap
<1> QED BY <1>4, <1>5, <1>6 DEF Carve

(* Every call answers the request it was given: an allocation that returns *)
(* a zone returns between half and twice the size asked for, and one that  *)
(* returns nothing met only regions smaller than the least it may return.  *)
THEOREM AnswersCorrect == Spec => []AnswersRight
<1>1. Init => AnswersRight
  BY DEF Init, AnswersRight, SizeContract, ExhaustedMeansNoGap
<1>2. IInv /\ AnswersRight /\ [Next]_vars => AnswersRight'
  <2> SUFFICES ASSUME IInv, AnswersRight, [Next]_vars PROVE AnswersRight'
    OBVIOUS
  <2>1. CASE UNCHANGED vars
    BY <2>1 DEF vars, AnswersRight, SizeContract, ExhaustedMeansNoGap, Nodes,
                get_free_size, get_end_ptr
  <2>2. ASSUME NEW zone \in Zones, NEW size \in ApproximateSizes,
               mem_vspace_alloc_slice(zone, size)
        PROVE  AnswersRight'
    <3>0. size \in Nat /\ phase = "up"
      BY <2>2, SizesAssumption DEF mem_vspace_alloc_slice
    <3> DEFINE min == MinRounded(size)
               max == MaxRounded(size)
               goal == GoalRounded(size)
    <3>1. CASE min <= goal /\ goal <= max
      <4>1. Carve(zone, size, min, max, goal)
        BY <2>2, <3>1 DEF mem_vspace_alloc_slice
      <4>2. min \in Nat \ {0} /\ size <= 2 * min
        <5>1. size \div 2 + 1 \in Nat /\ size \div 2 + 1 >= 1 /\ size <= 2 * (size \div 2 + 1)
          BY <3>0
        <5>2. min \in Nat /\ min >= size \div 2 + 1
          BY <5>1, RoundUpBounds DEF MinRounded
        <5> QED BY <3>0, <5>1, <5>2
      <4>3. goal \in Nat
        BY <3>0, RoundUpBounds DEF GoalRounded
      <4>4. max \in Int /\ max <= 2 * size
        <5>1. size * 2 \in Nat /\ size * 2 = 2 * size
          BY <3>0
        <5> DEFINE double == size * 2
        <5> HIDE DEF double
        <5>2. double \in Nat /\ double % Word \in Nat /\ double % Word <= double
          BY <5>1, SizesAssumption DEF double
        <5>3. max \in Int /\ max <= double % Word
          BY <5>2, RoundDownBounds DEF MaxRounded, double
        <5> HIDE DEF max
        <5> QED BY <5>1, <5>2, <5>3 DEF double
      <4> HIDE DEF min, max, goal
      <4>5. max \in Nat
        BY <3>1, <4>2, <4>3, <4>4
      <4> QED BY <3>0, <3>1, <4>1, <4>2, <4>3, <4>4, <4>5, CarveAnswers
    <3>2. CASE ~(min <= goal /\ goal <= max)
      <4>1. got' = 0 /\ phase' = "size"
        BY <2>2, <3>2 DEF mem_vspace_alloc_slice, Stop
      <4> QED BY <4>1 DEF AnswersRight, SizeContract, ExhaustedMeansNoGap
    <3> QED BY <3>1, <3>2
  <2>3. ASSUME NEW zone \in Zones, NEW size \in PreciseSizes,
               mem_vspace_alloc_slice_spec(zone, size)
        PROVE  AnswersRight'
    <3>1. /\ size \in Nat \ {0} /\ phase = "up" /\ size <= 2 * size
          /\ size \in Nat /\ size <= size
          /\ Carve(zone, size, size, size, size)
      BY <2>3, SizesAssumption DEF mem_vspace_alloc_slice_spec
    <3> QED BY <3>1, CarveAnswers
  <2>4. ASSUME NEW k \in Nodes, mem_vspace_dealloc_slice(k)
        PROVE  AnswersRight'
    BY <2>4 DEF mem_vspace_dealloc_slice, AnswersRight, SizeContract, ExhaustedMeansNoGap
  <2> QED BY <2>1, <2>2, <2>3, <2>4 DEF Next
<1> QED BY <1>1, <1>2, IInvHolds, PTL DEF Spec

-------------------------------------------------------------------------------
(* The list implements a set of zones that do not overlap. *)

(* Cutting a zone takes an unused zone of the abstract address space. *)
LEMMA InsertTakes ==
  ASSUME IInv, NEW zone \in Zones, ~InUse(zone), NEW k, NEW m, Inserted(k, zone, m)
  PROVE  Space!Take
<1> DEFINE new == [id |-> zone, begin |-> zones[k].middle, middle |-> m]
           before == {zones[i] : i \in 2 .. Len(zones)}
           after == {zones'[i] : i \in 2 .. Len(zones')}
<1>0. VSPACE_BEGIN_PTR \in Int /\ VSPACE_END_PTR \in Int
  BY SizesAssumption DEF VSPACE_BEGIN_PTR
<1>1. /\ k \in 1 .. Len(zones) - 1 /\ Len(zones) \in Nat
      /\ Len(zones') = Len(zones) + 1
      /\ \A i \in 1 .. k : zones'[i] = zones[i]
      /\ zones'[k + 1] = new
      /\ \A i \in k + 2 .. Len(zones) + 1 : zones'[i] = zones[i - 1]
  BY InsertElements
<1>2. m \in Int /\ zones[k].middle < m /\ m <= zones[k + 1].begin
  BY DEF Inserted
<1>3. /\ k \in 1 .. Len(zones) /\ k + 1 \in 1 .. Len(zones)
  BY <1>1
<1>4. /\ VSPACE_BEGIN_PTR <= zones[k].begin /\ zones[k].begin <= zones[k].middle
      /\ zones[k].begin \in Int /\ zones[k].middle \in Int
      /\ zones[k + 1].begin <= zones[k + 1].middle
      /\ zones[k + 1].middle <= VSPACE_END_PTR
      /\ zones[k + 1].begin \in Int /\ zones[k + 1].middle \in Int
  BY <1>3, Order
<1>5. new.id = zone /\ new.begin = zones[k].middle /\ new.middle = m
  OBVIOUS
<1>6. new \in Space!Zone
  BY <1>0, <1>2, <1>4 DEF Space!Zone
<1> HIDE DEF new
<1>7. new.begin < new.middle
  BY <1>2, <1>5
<1>8. ASSUME NEW i \in 2 .. Len(zones)
      PROVE  Space!Apart(new, zones[i]) /\ new.id # zones[i].id
  <2>0. /\ i \in 1 .. Len(zones) /\ i \in Int /\ k \in Int
    BY <1>1
  <2>1. /\ zones[i].begin \in Int /\ zones[i].middle \in Int
        /\ zones[i].begin <= zones[i].middle
    BY <2>0, Order
  <2>2. new.id # zones[i].id
    BY <1>5, <2>0 DEF InUse, Nodes
  <2>3. CASE i = k
    BY <1>5, <2>3, <2>2, <2>1 DEF Space!Apart
  <2>4. CASE i < k
    <3>1. zones[i].middle <= zones[k].begin
      BY <1>3, <2>0, <2>4, Order
    <3> QED BY <1>4, <1>5, <2>1, <2>2, <3>1 DEF Space!Apart
  <2>5. CASE i = k + 1
    BY <1>2, <1>5, <2>5, <2>2, <2>1 DEF Space!Apart
  <2>6. CASE i > k + 1
    <3>1. zones[k + 1].middle <= zones[i].begin
      BY <1>3, <2>0, <2>6, Order
    <3> QED BY <1>2, <1>4, <1>5, <2>1, <2>2, <3>1 DEF Space!Apart
  <2>7. i = k \/ i < k \/ i = k + 1 \/ i > k + 1
    BY <2>0
  <2> QED BY <2>3, <2>4, <2>5, <2>6, <2>7, Zenon
<1>9. after = before \cup {new}
  <2>1. ASSUME NEW i \in 2 .. Len(zones')
        PROVE  zones'[i] \in before \cup {new}
    <3>1. CASE i <= k
      <4>1. i \in 2 .. Len(zones) /\ zones'[i] = zones[i]
        BY <1>1, <3>1
      <4> QED BY <4>1
    <3>2. CASE i = k + 1
      BY <1>1, <3>2
    <3>3. CASE i > k + 1
      <4>1. i - 1 \in 2 .. Len(zones) /\ zones'[i] = zones[i - 1]
        BY <1>1, <3>3
      <4> QED BY <4>1
    <3>4. i <= k \/ i = k + 1 \/ i > k + 1
      BY <1>1
    <3> QED BY <3>1, <3>2, <3>3, <3>4, Zenon
  <2>2. ASSUME NEW i \in 2 .. Len(zones)
        PROVE  zones[i] \in after
    <3>1. CASE i <= k
      <4>1. i \in 2 .. Len(zones') /\ zones'[i] = zones[i]
        BY <1>1, <3>1
      <4> QED BY <4>1
    <3>2. CASE i > k
      <4>1. i + 1 \in 2 .. Len(zones') /\ i + 1 \in k + 2 .. Len(zones) + 1
            /\ (i + 1) - 1 = i
        BY <1>1, <3>2
      <4>2. zones'[i + 1] = zones[i]
        BY <1>1, <4>1
      <4> QED BY <4>1, <4>2
    <3>3. i <= k \/ i > k
      BY <1>1
    <3> QED BY <3>1, <3>2, <3>3, Zenon
  <2>3. new \in after
    <3>1. k + 1 \in 2 .. Len(zones') /\ zones'[k + 1] = new
      BY <1>1
    <3> QED BY <3>1
  <2> QED BY <2>1, <2>2, <2>3
<1>10. new \notin before
  BY <1>8
<1>11. \A other \in before : Space!Apart(new, other) /\ new.id # other.id
  BY <1>8
<1> HIDE DEF before, after
<1>12. new \in after \ before
  BY <1>9, <1>10
<1> QED BY <1>6, <1>7, <1>9, <1>11, <1>12 DEF Space!Take, before, after

(* Unlinking a node gives its zone back to the abstract address space. *)
LEMMA RemoveGivesBack ==
  ASSUME IInv, NEW k \in Nodes, zones[k].id \in Zones, zones' = RemoveAt(zones, k)
  PROVE  Space!GiveBack
<1> DEFINE before == {zones[i] : i \in 2 .. Len(zones)}
           after == {zones'[i] : i \in 2 .. Len(zones')}
<1>0. /\ zones \in Seq(Node) /\ Len(zones) \in Nat /\ k \in 1 .. Len(zones)
      /\ zones[1].id = "root" /\ k # 1
  BY ZonesAssumption DEF IInv, TypeOK, Node, Ids, Nodes
<1>1. /\ Len(zones') = Len(zones) - 1
      /\ \A i \in 1 .. Len(zones) - 1 :
           zones'[i] = IF i < k THEN zones[i] ELSE zones[i + 1]
  BY <1>0, RemoveAtElements
<1>2. zones[k] \in before /\ zones[k].id # "beta"
  BY <1>0, ZonesAssumption
<1>3. ASSUME NEW i \in 2 .. Len(zones')
      PROVE  zones'[i] \in before \ {zones[k]}
  <2> DEFINE j == IF i < k THEN i ELSE i + 1
  <2>1. j \in 2 .. Len(zones) /\ zones'[i] = zones[j] /\ j # k
    BY <1>0, <1>1
  <2> HIDE DEF j
  <2>2. zones[j].id # zones[k].id
    BY <1>0, <2>1 DEF IInv, IdsOnce, Nodes
  <2>3. zones[j] \in before /\ zones[j] # zones[k]
    BY <2>1, <2>2
  <2> QED BY <2>1, <2>3
<1>4. ASSUME NEW i \in 2 .. Len(zones), i # k
      PROVE  zones[i] \in after
  <2> DEFINE j == IF i < k THEN i ELSE i - 1
  <2>1. j \in 2 .. Len(zones') /\ zones'[j] = zones[i]
    BY <1>0, <1>1, <1>4
  <2> HIDE DEF j
  <2> QED BY <2>1
<1>5. after = before \ {zones[k]}
  BY <1>3, <1>4
<1> HIDE DEF before, after
<1> QED BY <1>2, <1>5 DEF Space!GiveBack, before, after

(* Each call hands out one zone apart from all the others, takes one back, *)
(* or changes nothing: every caller keeps what it was given.               *)
THEOREM SpaceImplemented == Spec => ImplementsSpace
<1>1. Init => Space!Init
  <2> SUFFICES ASSUME Init PROVE Space!Init
    OBVIOUS
  <2>1. Len(zones) = 2 /\ zones[2] = [id |-> "beta", begin |-> ImageBegin, middle |-> ImageEnd]
    BY DEF Init
  <2>2. \A i \in 2 .. Len(zones) : i = 2
    BY <2>1
  <2>3. 2 \in 2 .. Len(zones)
    BY <2>1
  <2> QED BY <2>1, <2>2, <2>3 DEF Space!Init
<1>2. IInv /\ [Next]_vars => [Space!Next]_{zones[k] : k \in 2 .. Len(zones)}
  <2> SUFFICES ASSUME IInv, [Next]_vars
               PROVE  [Space!Next]_{zones[k] : k \in 2 .. Len(zones)}
    OBVIOUS
  <2>1. CASE zones' = zones
    BY <2>1
  <2>2. CASE \E zone \in Zones : \E k, m : ~InUse(zone) /\ Inserted(k, zone, m)
    BY <2>2, InsertTakes DEF Space!Next
  <2>3. CASE \E k \in Nodes : zones[k].id \in Zones /\ zones' = RemoveAt(zones, k)
    BY <2>3, RemoveGivesBack DEF Space!Next
  <2> QED BY <2>1, <2>2, <2>3, Steps DEF vars
<1> QED BY <1>1, <1>2, IInvHolds, PTL DEF Spec, ImplementsSpace, Space!Spec
===============================================================================
