--------------------------- MODULE MPSCQueueProofs ---------------------------
(***************************************************************************)
(* Theorems about MPSCQueue, for any producers and any packets.            *)
(*                                                                         *)
(* The argument: the nodes from _tail to _head form the list of the        *)
(* history, and each link leads to the next node of it or is still Null.   *)
(* A Null link before the last node is a cut, and each cut is the          *)
(* predecessor of exactly one thread between its exchange and its store.   *)
(***************************************************************************)
EXTENDS MPSCQueue, TLAPS

-----------------------------------------------------------------------------
(* The inductive invariant *)

Listed(n) == \E k \in 1 .. Len(list) : list[k] = n

\* The list runs from _tail to _head, no node is in it twice, and links
\* follow it.
Chain ==
    /\ Len(list) >= 1
    /\ tail = list[1]
    /\ head = list[Len(list)]
    /\ \A k, l \in 1 .. Len(list) : list[k] = list[l] => k = l
    /\ \A k \in 1 .. Len(list) - 1 : link[list[k]] \in {list[k + 1], Null}
    /\ link[list[Len(list)]] = Null

\* A producer has the packet it allocated to itself until the exchange.
Senders ==
    /\ \A p \in Producers : sender[p] # "idle" => input[p] \in Items \ free
    /\ \A p \in Producers : sender[p] = "exchange" =>
          link[input[p]] = Null /\ input[p] # result /\ ~Listed(input[p])
    /\ \A p, q \in Producers :
          sender[p] # "idle" /\ sender[q] # "idle" /\ input[p] = input[q] => p = q

\* A thread that is about to store knows two neighbours of the list that
\* are not linked.
Stores ==
    /\ \A p \in Producers : sender[p] = "store" =>
          \E k \in 1 .. Len(list) - 1 :
              list[k] = prevHead[p] /\ list[k + 1] = input[p] /\ link[list[k]] = Null
    /\ reader = "store" =>
          \E k \in 1 .. Len(list) - 1 :
              list[k] = cut /\ list[k + 1] = Dummy /\ link[list[k]] = Null

\* Nothing else cuts the list.
Cuts ==
    \A k \in 1 .. Len(list) - 1 : link[list[k]] = Null =>
        \/ \E p \in Producers : sender[p] = "store" /\ prevHead[p] = list[k]
        \/ reader = "store" /\ cut = list[k]

\* What the consumer knows at each place of Dequeue.
Reader ==
    /\ reader = "skip" => tail = Dummy /\ next = link[Dummy] /\ next # Null
    /\ reader \in {"second", "head", "reset", "exchange", "store", "last"} =>
          cursor = tail /\ cursor \in Items
    /\ reader \in {"reset", "exchange"} => ~Listed(Dummy)
    /\ reader = "exchange" => link[Dummy] = Null
    /\ reader \in {"store", "last"} => Len(list) >= 2
    /\ reader = "head" => Len(list) = 1 \/ disturbed
    /\ reader = "delete" => result \in Items \ free /\ ~Listed(result)
    /\ reader # "delete" => result = Null

\* An Enqueue in progress has been noted.
Noted == reader \notin {"idle", "delete"} /\ (\E p \in Producers : sender[p] = "store")
            => disturbed

\* order is the list without the dummy, which is at place d if it is there.
OrderAt(d) ==
    /\ d = 0 => ~Listed(Dummy)
    /\ d > 0 => list[d] = Dummy
    /\ Len(order) = IF d = 0 THEN Len(list) ELSE Len(list) - 1
    /\ \A j \in 1 .. Len(order) : order[j] = IF d = 0 \/ j < d THEN list[j] ELSE list[j + 1]

Order == \E d \in 0 .. Len(list) : OrderAt(d)

\* Each address is free or in somebody's hands.
Owned ==
    /\ \A k \in 1 .. Len(list) : list[k] \notin free
    /\ \A i \in Items : \/ i \in free \/ Listed(i) \/ i = result
                        \/ \E p \in Producers : sender[p] = "exchange" /\ input[p] = i

IInv == TypeOK /\ Chain /\ Senders /\ Stores /\ Cuts /\ Reader /\ Noted /\ Order /\ Owned

-----------------------------------------------------------------------------
(* Sequences *)

LEMMA EmptySequence ==
    ASSUME NEW S, NEW s \in Seq(S)
    PROVE  Len(s) \in Nat /\ (s = <<>> <=> Len(s) = 0)
OBVIOUS

LEMMA AppendFacts ==
    ASSUME NEW S, NEW s \in Seq(S), NEW x \in S
    PROVE  /\ Append(s, x) \in Seq(S)
           /\ Len(s) \in Nat
           /\ Len(Append(s, x)) = Len(s) + 1
           /\ \A k \in 1 .. Len(s) : Append(s, x)[k] = s[k]
           /\ Append(s, x)[Len(s) + 1] = x
OBVIOUS

LEMMA BeheadFacts ==
    ASSUME NEW S, NEW s \in Seq(S), Len(s) >= 1
    PROVE  /\ Behead(s) \in Seq(S)
           /\ Len(s) \in Nat
           /\ Len(Behead(s)) = Len(s) - 1
           /\ \A k \in 1 .. Len(s) - 1 : Behead(s)[k] = s[k + 1]
BY EmptySequence DEF Behead

-----------------------------------------------------------------------------
LEMMA InitInvariant == Init => IInv
<1> SUFFICES ASSUME Init PROVE IInv
  OBVIOUS
<1> USE NodesAssumption
<1>1. TypeOK
  <2>1. list \in Seq(Nodes) /\ order \in Seq(Items)
    BY DEF Init, Nodes
  <2> QED
    BY <2>1 DEF Init, TypeOK, Nodes
<1>2. Chain /\ Senders /\ Stores /\ Cuts /\ Reader /\ Noted /\ Owned
  BY DEF Init, Chain, Senders, Stores, Cuts, Reader, Noted, Owned, Listed, Nodes
<1>3. OrderAt(1)
  BY DEF Init, OrderAt, Listed
<1>4. Order
  BY <1>3 DEF Init, Order
<1> QED
  BY <1>1, <1>2, <1>4 DEF IInv

\* The exchange appends the packet to the list and leaves a cut before it.
LEMMA ExchangeKeeps ==
    ASSUME IInv, NEW p \in Producers, Exchange(p)
    PROVE  IInv'
<1> USE NodesAssumption
<1> DEFINE N == Len(list)
           x == input[p]
<1>1. /\ x \in Items /\ x \notin free /\ x # result /\ link[x] = Null
      /\ \A k \in 1 .. N : list[k] # x
      /\ \A q \in Producers : q # p /\ sender[q] # "idle" => input[q] # x
  BY DEF IInv, Senders, Exchange, Listed
<1>2. /\ list' = Append(list, x) /\ order' = Append(order, x) /\ head' = x
      /\ sender' = [sender EXCEPT ![p] = "store"]
      /\ prevHead' = [prevHead EXCEPT ![p] = head]
      /\ sender[p] = "exchange" /\ disturbed' = TRUE
      /\ UNCHANGED <<tail, link, free, input, reader, cursor, next, cut, result>>
  BY DEF Exchange, readerVars
<1>3. /\ list' \in Seq(Nodes) /\ N \in Nat /\ N >= 1 /\ Len(list') = N + 1
      /\ \A k \in 1 .. N : list'[k] = list[k]
      /\ list'[N + 1] = x
  BY <1>1, <1>2, AppendFacts DEF IInv, TypeOK, Nodes, Chain
<1>4. /\ order' \in Seq(Items) /\ Len(order) \in Nat /\ Len(order') = Len(order) + 1
      /\ \A k \in 1 .. Len(order) : order'[k] = order[k]
      /\ order'[Len(order) + 1] = x
  BY <1>1, <1>2, AppendFacts DEF IInv, TypeOK
<1>5. TypeOK'
  BY <1>1, <1>2, <1>3, <1>4 DEF IInv, TypeOK, Nodes
<1>6. Chain'
  BY <1>1, <1>2, <1>3 DEF IInv, Chain
<1>7. Senders'
  <2>1. ASSUME NEW q \in Producers, sender'[q] = "exchange" PROVE ~Listed(input[q])'
    BY <1>1, <1>2, <1>3, <2>1 DEF IInv, Senders, Listed, TypeOK
  <2> QED
    BY <1>2, <2>1 DEF IInv, Senders, TypeOK
<1>8. Stores'
  <2>1. ASSUME NEW q \in Producers, sender'[q] = "store"
        PROVE  \E k \in 1 .. Len(list') - 1 :
                  list'[k] = prevHead'[q] /\ list'[k + 1] = input'[q] /\ link'[list'[k]] = Null
    <3>1. CASE q = p
      BY <1>2, <1>3, <3>1 DEF IInv, Chain, TypeOK
    <3>2. CASE q # p
      BY <1>2, <1>3, <2>1, <3>2 DEF IInv, Stores, TypeOK
    <3> QED BY <3>1, <3>2
  <2>2. ASSUME reader' = "store"
        PROVE  \E k \in 1 .. Len(list') - 1 :
                  list'[k] = cut' /\ list'[k + 1] = Dummy /\ link'[list'[k]] = Null
    BY <1>2, <1>3, <2>2 DEF IInv, Stores
  <2> QED
    BY <2>1, <2>2 DEF Stores
<1>9. Cuts'
  <2> SUFFICES ASSUME NEW k \in 1 .. Len(list') - 1, link'[list'[k]] = Null
               PROVE  \/ \E q \in Producers : sender'[q] = "store" /\ prevHead'[q] = list'[k]
                      \/ reader' = "store" /\ cut' = list'[k]
    BY DEF Cuts
  <2>1. CASE k = N
    BY <1>2, <1>3, <2>1 DEF IInv, Chain, TypeOK
  <2>2. CASE k # N
    <3>1. k \in 1 .. N - 1 /\ list'[k] = list[k]
      BY <1>3, <2>2
    <3>2. \/ \E q \in Producers : sender[q] = "store" /\ prevHead[q] = list[k]
          \/ reader = "store" /\ cut = list[k]
      BY <1>2, <3>1 DEF IInv, Cuts
    <3> QED
      BY <1>2, <3>1, <3>2 DEF IInv, TypeOK
  <2> QED BY <2>1, <2>2
<1>10. Reader'
  BY <1>1, <1>2, <1>3 DEF IInv, Reader, Listed
<1>11. Noted'
  BY <1>2 DEF Noted
<1>12. Order'
  <2>1. PICK d \in 0 .. N : OrderAt(d)
    BY DEF IInv, Order
  <2>2. OrderAt(d)'
    BY <1>1, <1>2, <1>3, <1>4, <2>1 DEF OrderAt, Listed
  <2> QED
    BY <1>3, <2>2 DEF Order
<1>13. Owned'
  <2>1. \A k \in 1 .. Len(list') : list'[k] \notin free'
    BY <1>1, <1>2, <1>3 DEF IInv, Owned
  <2>2. ASSUME NEW i \in Items
        PROVE  \/ i \in free' \/ Listed(i)' \/ i = result'
               \/ \E q \in Producers : sender'[q] = "exchange" /\ input'[q] = i
    <3>1. CASE i = x
      BY <1>3, <3>1 DEF Listed
    <3>2. CASE i # x /\ Listed(i)
      BY <1>3, <3>2 DEF Listed
    <3>3. CASE i # x /\ ~Listed(i)
      BY <1>2, <3>3 DEF IInv, Owned, TypeOK
    <3> QED BY <3>1, <3>2, <3>3
  <2> QED
    BY <2>1, <2>2 DEF Owned
<1> QED
  BY <1>5, <1>6, <1>7, <1>8, <1>9, <1>10, <1>11, <1>12, <1>13 DEF IInv

-----------------------------------------------------------------------------
(* The producers' other steps *)

\* A free address is nowhere in the queue.
LEMMA AllocateKeeps ==
    ASSUME IInv, NEW p \in Producers, NEW i \in Items, Allocate(p, i)
    PROVE  IInv'
<1> USE NodesAssumption
<1>1. /\ sender[p] = "idle" /\ i \in free
      /\ free' = free \ {i} /\ link' = [link EXCEPT ![i] = Null]
      /\ input' = [input EXCEPT ![p] = i]
      /\ sender' = [sender EXCEPT ![p] = "exchange"]
      /\ UNCHANGED <<head, tail, prevHead, reader, cursor, next, cut, result, list, order, disturbed>>
  BY DEF Allocate, readerVars, history
<1>2. /\ list \in Seq(Nodes) /\ Len(list) \in Nat
      /\ \A k \in 1 .. Len(list) : list[k] \in Nodes /\ list[k] # i
  BY <1>1, EmptySequence DEF IInv, TypeOK, Owned
<1>3. \A k \in 1 .. Len(list) : link'[list[k]] = link[list[k]]
  BY <1>1, <1>2 DEF IInv, TypeOK
<1>4. i # result
  BY <1>1 DEF IInv, Reader
<1>5. TypeOK'
  BY <1>1 DEF IInv, TypeOK, Nodes
<1>6. Chain'
  BY <1>1, <1>2, <1>3 DEF IInv, Chain
<1>7. Senders'
  BY <1>1, <1>2, <1>4 DEF IInv, Senders, Listed, TypeOK, Nodes
<1>8. Stores'
  <2>1. ASSUME NEW q \in Producers, sender'[q] = "store"
        PROVE  \E k \in 1 .. Len(list') - 1 :
                  list'[k] = prevHead'[q] /\ list'[k + 1] = input'[q] /\ link'[list'[k]] = Null
    <3>1. sender[q] = "store" /\ input'[q] = input[q]
      BY <1>1, <2>1 DEF IInv, TypeOK
    <3>2. PICK k \in 1 .. Len(list) - 1 :
              list[k] = prevHead[q] /\ list[k + 1] = input[q] /\ link[list[k]] = Null
      BY <3>1 DEF IInv, Stores
    <3> QED
      BY <1>1, <1>2, <1>3, <3>1, <3>2
  <2>2. ASSUME reader' = "store"
        PROVE  \E k \in 1 .. Len(list') - 1 :
                  list'[k] = cut' /\ list'[k + 1] = Dummy /\ link'[list'[k]] = Null
    BY <1>1, <1>2, <1>3, <2>2 DEF IInv, Stores
  <2> QED
    BY <2>1, <2>2 DEF Stores
<1>9. Cuts'
  <2> SUFFICES ASSUME NEW k \in 1 .. Len(list) - 1, link'[list[k]] = Null
               PROVE  \/ \E q \in Producers : sender'[q] = "store" /\ prevHead'[q] = list[k]
                      \/ reader = "store" /\ cut = list[k]
    BY <1>1 DEF Cuts
  <2>1. link[list[k]] = Null
    BY <1>2, <1>3
  <2>2. \A q \in Producers : sender[q] = "store" => sender'[q] = "store" /\ prevHead'[q] = prevHead[q]
    BY <1>1 DEF IInv, TypeOK
  <2> QED
    BY <2>1, <2>2 DEF IInv, Cuts
<1>10. Reader'
  BY <1>1, <1>2, <1>4 DEF IInv, Reader, Listed, TypeOK, Nodes
<1>11. Noted'
  BY <1>1 DEF IInv, Noted, TypeOK
<1>12. Order'
  BY <1>1 DEF IInv, Order, OrderAt, Listed
<1>13. Owned'
  <2>1. ASSUME NEW j \in Items
        PROVE  \/ j \in free' \/ Listed(j)' \/ j = result'
               \/ \E q \in Producers : sender'[q] = "exchange" /\ input'[q] = j
    <3>1. CASE j = i
      BY <1>1, <3>1 DEF IInv, TypeOK
    <3>2. CASE j # i
      BY <1>1, <3>2 DEF IInv, Owned, TypeOK, Listed
    <3> QED BY <3>1, <3>2
  <2> QED
    BY <1>1, <2>1 DEF IInv, Owned
<1> QED
  BY <1>5, <1>6, <1>7, <1>8, <1>9, <1>10, <1>11, <1>12, <1>13 DEF IInv

\* The store closes the one cut its producer answers for.
LEMMA StoreLinkKeeps ==
    ASSUME IInv, NEW p \in Producers, StoreLink(p)
    PROVE  IInv'
<1> USE NodesAssumption
<1> DEFINE N == Len(list)
<1>1. /\ sender[p] = "store"
      /\ link' = [link EXCEPT ![prevHead[p]] = input[p]]
      /\ sender' = [sender EXCEPT ![p] = "idle"]
      /\ input' = [input EXCEPT ![p] = Null]
      /\ prevHead' = [prevHead EXCEPT ![p] = Null]
      /\ UNCHANGED <<head, tail, free, reader, cursor, next, cut, result, list, order, disturbed>>
  BY DEF StoreLink, readerVars, history
<1>2. PICK c \in 1 .. N - 1 :
          list[c] = prevHead[p] /\ list[c + 1] = input[p] /\ link[list[c]] = Null
  BY <1>1 DEF IInv, Stores
<1>3. /\ N \in Nat /\ c \in 1 .. N /\ c # N /\ c + 1 \in 1 .. N
      /\ \A k \in 1 .. N : list[k] \in Nodes
      /\ \A k, l \in 1 .. N : list[k] = list[l] => k = l
  BY EmptySequence DEF IInv, TypeOK, Chain
<1>4. /\ link'[list[c]] = list[c + 1]
      /\ \A k \in 1 .. N : k # c => link'[list[k]] = link[list[k]]
      /\ \A n \in Nodes : ~Listed(n) => link'[n] = link[n]
      /\ \A n \in Nodes : link[n] # Null => link'[n] = link[n]
      /\ input[p] \in Items
  <2>1. /\ prevHead[p] \in Nodes /\ link \in [Nodes -> Nodes \cup {Null}]
        /\ link' = [link EXCEPT ![prevHead[p]] = input[p]]
        /\ \A n \in Nodes : n # prevHead[p] => link'[n] = link[n]
        /\ link'[prevHead[p]] = input[p]
    BY <1>1, <1>2, <1>3 DEF IInv, TypeOK
  <2>2. input[p] \in Items
    BY <1>1 DEF IInv, Senders
  <2>3. \A n \in Nodes : ~Listed(n) => link'[n] = link[n]
    BY <1>2, <1>3, <2>1 DEF Listed
  <2> QED
    BY <1>2, <1>3, <2>1, <2>2, <2>3
<1>5. TypeOK'
  <2>1. link' \in [Nodes -> Nodes \cup {Null}]
    BY <1>1, <1>4 DEF IInv, TypeOK, Nodes
  <2> QED
    BY <1>1, <2>1 DEF IInv, TypeOK
<1>6. Chain'
  BY <1>1, <1>2, <1>3, <1>4 DEF IInv, Chain
<1>7. Senders'
  <2>1. \A q \in Producers : sender'[q] # "idle" =>
            q # p /\ sender'[q] = sender[q] /\ input'[q] = input[q]
    BY <1>1 DEF IInv, TypeOK
  <2>2. \A q \in Producers : sender[q] # "idle" => input[q] \in Nodes
    BY DEF IInv, Senders, Nodes
  <2>3. \A n : Listed(n)' <=> Listed(n)
    BY <1>1 DEF Listed
  <2> QED
    BY <1>1, <1>4, <2>1, <2>2, <2>3 DEF IInv, Senders
<1>8. Stores'
  <2>1. ASSUME NEW q \in Producers, sender'[q] = "store"
        PROVE  \E k \in 1 .. Len(list') - 1 :
                  list'[k] = prevHead'[q] /\ list'[k + 1] = input'[q] /\ link'[list'[k]] = Null
    <3>1. q # p /\ sender[q] = "store" /\ input[q] # input[p]
      BY <1>1, <2>1 DEF IInv, TypeOK, Senders
    <3>2. PICK k \in 1 .. N - 1 :
              list[k] = prevHead[q] /\ list[k + 1] = input[q] /\ link[list[k]] = Null
      BY <3>1 DEF IInv, Stores
    <3> QED
      BY <1>1, <1>2, <1>3, <1>4, <3>1, <3>2 DEF IInv, TypeOK
  <2>2. ASSUME reader' = "store"
        PROVE  \E k \in 1 .. Len(list') - 1 :
                  list'[k] = cut' /\ list'[k + 1] = Dummy /\ link'[list'[k]] = Null
    <3>1. PICK k \in 1 .. N - 1 :
              list[k] = cut /\ list[k + 1] = Dummy /\ link[list[k]] = Null
      BY <1>1, <2>2 DEF IInv, Stores
    <3> QED
      BY <1>1, <1>2, <1>3, <1>4, <3>1
  <2> QED
    BY <2>1, <2>2 DEF Stores
<1>9. Cuts'
  <2> SUFFICES ASSUME NEW k \in 1 .. N - 1, link'[list[k]] = Null
               PROVE  \/ \E q \in Producers : sender'[q] = "store" /\ prevHead'[q] = list[k]
                      \/ reader = "store" /\ cut = list[k]
    BY <1>1 DEF Cuts
  <2>1. k # c /\ link[list[k]] = Null /\ list[k] # prevHead[p]
    BY <1>2, <1>3, <1>4
  <2>2. \/ \E q \in Producers : sender[q] = "store" /\ prevHead[q] = list[k]
        \/ reader = "store" /\ cut = list[k]
    BY <2>1 DEF IInv, Cuts
  <2> QED
    BY <1>1, <2>1, <2>2 DEF IInv, TypeOK
<1>10. Reader'
  BY <1>1, <1>4 DEF IInv, Reader, Listed, Nodes
<1>11. Noted'
  BY <1>1 DEF IInv, Noted, TypeOK
<1>12. Order'
  BY <1>1 DEF IInv, Order, OrderAt, Listed
<1>13. Owned'
  BY <1>1 DEF IInv, Owned, TypeOK, Listed
<1> QED
  BY <1>5, <1>6, <1>7, <1>8, <1>9, <1>10, <1>11, <1>12, <1>13 DEF IInv

-----------------------------------------------------------------------------
(* The consumer *)

\* A step that changes only where the consumer is and what it knows.
LEMMA ControlKeeps ==
    ASSUME IInv, TypeOK', Reader', Noted', reader # "store", reader' # "store",
           UNCHANGED <<sharedVars, senderVars, result, list, order>>
    PROVE  IInv'
<1>1. UNCHANGED <<head, tail, link, free, sender, input, prevHead, result, list, order>>
  BY DEF sharedVars, senderVars
<1>2. Chain' /\ Senders' /\ Order' /\ Owned'
  BY <1>1 DEF IInv, Chain, Senders, Order, OrderAt, Owned, Listed
<1>3. Stores' /\ Cuts'
  BY <1>1 DEF IInv, Stores, Cuts
<1> QED
  BY <1>2, <1>3 DEF IInv

\* The first node leaves the list: the dummy, or a packet that is returned.
LEMMA BeheadKeeps ==
    ASSUME IInv, reader \notin {"store", "delete"}, reader' # "store",
           link[tail] # Null, tail' = link[tail], list' = Behead(list),
           UNCHANGED <<head, link, free, senderVars>>,
           \/ tail = Dummy /\ order' = order /\ result' = result
           \/ tail # Dummy /\ order' = Behead(order) /\ result' = tail
    PROVE  /\ Len(list) >= 2 /\ list' \in Seq(Nodes) /\ order' \in Seq(Items)
           /\ tail \in Nodes \ free /\ tail' \in Nodes
           /\ \A n : n = tail => ~Listed(n)'
           /\ Chain' /\ Senders' /\ Stores' /\ Cuts' /\ Order' /\ Owned'
<1> USE NodesAssumption
<1> DEFINE N == Len(list)
<1>1. /\ list \in Seq(Nodes) /\ N \in Nat /\ N >= 1 /\ tail = list[1]
      /\ \A k \in 1 .. N : list[k] \in Nodes
      /\ \A k, l \in 1 .. N : list[k] = list[l] => k = l
      /\ head = list[N]
      /\ \A k \in 1 .. N - 1 : link[list[k]] \in {list[k + 1], Null}
      /\ link[list[N]] = Null
      /\ result = Null
  BY EmptySequence DEF IInv, TypeOK, Chain, Reader
<1>2. N >= 2 /\ tail' = list[2]
  BY <1>1
<1>3. /\ list' \in Seq(Nodes) /\ Len(list') = N - 1
      /\ \A k \in 1 .. N - 1 : list'[k] = list[k + 1]
  BY <1>1, BeheadFacts
<1>4. UNCHANGED <<head, link, free, sender, input, prevHead>>
  BY DEF senderVars
<1>5. /\ tail \in Nodes \ free /\ tail' \in Nodes
      /\ \A n : n = tail => ~Listed(n)'
      /\ \A n : n # tail => (Listed(n)' <=> Listed(n))
  <2>1. tail \in Nodes \ free /\ tail' \in Nodes
    BY <1>1, <1>2 DEF IInv, Owned
  <2>2. ~(\E k \in 1 .. Len(list') : list'[k] = tail)
    BY <1>1, <1>2, <1>3
  <2>3. \A n : n = tail => ~Listed(n)'
    BY <2>2 DEF Listed
  <2>4. ASSUME NEW n, n # tail PROVE Listed(n)' <=> Listed(n)
    <3>1. ASSUME Listed(n) PROVE Listed(n)'
      <4>1. PICK k \in 1 .. N : list[k] = n
        BY <3>1 DEF Listed
      <4>2. k - 1 \in 1 .. Len(list') /\ list'[k - 1] = n
        BY <1>1, <1>2, <1>3, <2>4, <4>1
      <4> QED BY <4>2 DEF Listed
    <3>2. ASSUME Listed(n)' PROVE Listed(n)
      BY <1>1, <1>3, <3>2 DEF Listed
    <3> QED BY <3>1, <3>2
  <2> QED BY <2>1, <2>3, <2>4
<1>6. Chain'
  BY SMTT(30), <1>1, <1>2, <1>3, <1>4 DEF Chain
<1>7. Senders'
  <2>1. \A p \in Producers : sender[p] = "exchange" => input[p] # tail /\ input[p] # result'
    BY <1>1 DEF IInv, Senders, Listed
  <2> QED
    BY <1>4, <1>5, <2>1 DEF IInv, Senders
<1>8. Stores'
  <2>1. ASSUME NEW q \in Producers, sender'[q] = "store"
        PROVE  \E k \in 1 .. Len(list') - 1 :
                  list'[k] = prevHead'[q] /\ list'[k + 1] = input'[q] /\ link'[list'[k]] = Null
    <3>1. PICK k \in 1 .. N - 1 :
              list[k] = prevHead[q] /\ list[k + 1] = input[q] /\ link[list[k]] = Null
      BY <1>4, <2>1 DEF IInv, Stores
    <3>2. k # 1
      BY <1>1, <3>1
    <3>3. /\ k - 1 \in 1 .. Len(list') - 1
          /\ list'[k - 1] = list[k] /\ list'[(k - 1) + 1] = list[k + 1]
      BY <1>1, <1>2, <1>3, <3>2
    <3> QED
      BY <1>4, <3>1, <3>3
  <2> QED
    BY <2>1 DEF Stores
<1>9. Cuts'
  <2> SUFFICES ASSUME NEW k \in 1 .. Len(list') - 1, link'[list'[k]] = Null
               PROVE  \E q \in Producers : sender'[q] = "store" /\ prevHead'[q] = list'[k]
    BY DEF Cuts
  <2>1. k + 1 \in 1 .. N - 1 /\ list'[k] = list[k + 1]
    BY <1>1, <1>3
  <2> QED
    BY <1>4, <2>1 DEF IInv, Cuts
<1>10. Order' /\ order' \in Seq(Items)
  <2>1. PICK d \in 0 .. N : OrderAt(d)
    BY DEF IInv, Order
  <2>2. CASE tail = Dummy
    <3>1. d = 1
      <4>1. d # 0
        <5>1. Listed(Dummy)
          <6>1. 1 \in 1 .. Len(list) /\ list[1] = Dummy
            BY <1>1, <2>2
          <6> QED BY <6>1 DEF Listed
        <5> QED BY <2>1, <5>1 DEF OrderAt
      <4>2. list[d] = list[1] /\ d \in 1 .. N
        BY <1>1, <2>1, <2>2, <4>1 DEF OrderAt
      <4> QED BY <1>1, <4>2
    <3>2. OrderAt(0)'
      <4>1. ~Listed(Dummy)'
        BY <1>5, <2>2
      <4>2. /\ order' = order /\ Len(order) = N - 1
            /\ \A j \in 1 .. N - 1 : order[j] = list[j + 1]
        BY <1>1, <2>1, <2>2, <3>1, tail \notin Items DEF OrderAt
      <4> QED
        BY <1>1, <1>2, <1>3, <4>1, <4>2 DEF OrderAt
    <3> QED
      BY <1>1, <1>3, <2>2, <3>2 DEF IInv, TypeOK, Order
  <2>3. CASE tail # Dummy
    <3>1. d # 1 /\ Len(order) \in Nat /\ Len(order) >= 1 /\ order \in Seq(Items)
      BY <1>1, <1>2, <2>1, <2>3, EmptySequence DEF OrderAt, IInv, TypeOK
    <3>2. /\ order' \in Seq(Items) /\ Len(order') = Len(order) - 1
          /\ \A j \in 1 .. Len(order) - 1 : order'[j] = order[j + 1]
      BY <2>3, <3>1, BeheadFacts
    <3>3. CASE d = 0
      <4>1. ~Listed(Dummy)'
        BY <1>5, <2>1, <2>3, <3>3 DEF OrderAt
      <4>2. OrderAt(0)'
        BY <1>1, <1>2, <1>3, <2>1, <3>2, <3>3, <4>1 DEF OrderAt
      <4> QED BY <1>3, <1>1, <3>2, <4>2 DEF Order
    <3>4. CASE d > 1
      <4>1. d - 1 \in 1 .. Len(list') /\ list'[d - 1] = Dummy
        BY <1>1, <1>2, <1>3, <2>1, <3>4 DEF OrderAt
      <4>2. \A j \in 1 .. Len(order') : order'[j] = IF j < d - 1 THEN list'[j] ELSE list'[j + 1]
        BY <1>1, <1>2, <1>3, <2>1, <3>1, <3>2, <3>4 DEF OrderAt
      <4>3. OrderAt(d - 1)'
        BY <1>1, <1>2, <1>3, <2>1, <3>1, <3>2, <3>4, <4>1, <4>2 DEF OrderAt
      <4> QED BY <1>3, <1>1, <3>2, <4>1, <4>3 DEF Order
    <3> QED BY <1>1, <2>1, <3>1, <3>3, <3>4
  <2> QED BY <2>2, <2>3
<1>11. Owned'
  <2>1. \A k \in 1 .. Len(list') : list'[k] \notin free'
    BY <1>1, <1>3, <1>4 DEF IInv, Owned
  <2>2. ASSUME NEW i \in Items
        PROVE  \/ i \in free' \/ Listed(i)' \/ i = result'
               \/ \E q \in Producers : sender'[q] = "exchange" /\ input'[q] = i
    <3>1. i # Null
      OBVIOUS
    <3> QED
      BY <1>1, <1>4, <1>5, <3>1 DEF IInv, Owned
  <2> QED
    BY <2>1, <2>2 DEF Owned
<1> QED
  BY <1>2, <1>3, <1>5, <1>6, <1>7, <1>8, <1>9, <1>10, <1>11

\* A list that is cut behind its first node is being linked by a producer.
LEMMA CutIsNoted ==
    ASSUME IInv, reader \notin {"idle", "delete", "store"}, link[tail] = Null
    PROVE  Len(list) = 1 \/ disturbed
<1>1. Len(list) \in Nat /\ Len(list) >= 1 /\ tail = list[1]
  BY EmptySequence DEF IInv, TypeOK, Chain
<1>2. CASE Len(list) > 1
  <2>1. 1 \in 1 .. Len(list) - 1 /\ link[list[1]] = Null
    BY <1>1, <1>2
  <2>2. \E p \in Producers : sender[p] = "store"
    BY <2>1 DEF IInv, Cuts
  <2>3. reader \notin {"idle", "delete"}
    OBVIOUS
  <2>4. disturbed
    BY <2>2, <2>3 DEF IInv, Noted
  <2> QED
    BY <2>4
<1>3. Len(list) = 1 \/ Len(list) > 1
  BY <1>1
<1> QED
  BY <1>2, <1>3

\* What follows from Dequeue returning a packet.
LEMMA ReturnTrueKeeps ==
    ASSUME IInv, reader \notin {"store", "delete"}, tail \in Items, link[tail] # Null,
           ReturnTrue(tail, link[tail]), UNCHANGED <<head, link, free, senderVars, disturbed>>
    PROVE  IInv'
<1> USE NodesAssumption
<1>1. /\ tail' = link[tail] /\ result' = tail /\ reader' = "delete"
      /\ cursor' = Null /\ next' = Null /\ cut' = Null
      /\ list' = Behead(list) /\ order' = Behead(order)
      /\ tail # Dummy
  BY DEF ReturnTrue, EndCall
<1>2. /\ tail \in Nodes \ free /\ tail' \in Nodes
      /\ list' \in Seq(Nodes) /\ order' \in Seq(Items)
      /\ \A n : n = tail => ~Listed(n)'
      /\ Chain' /\ Senders' /\ Stores' /\ Cuts' /\ Order' /\ Owned'
  BY <1>1, BeheadKeeps
<1>3. TypeOK'
  BY <1>1, <1>2 DEF IInv, TypeOK, senderVars
<1>4. ~Listed(result)'
  BY <1>1, <1>2 DEF Listed
<1>5. Reader'
  BY <1>1, <1>2, <1>4 DEF Reader
<1>6. Noted'
  BY <1>1 DEF Noted
<1> QED
  BY <1>2, <1>3, <1>5, <1>6 DEF IInv

LEMMA CallKeeps == ASSUME IInv, Call PROVE IInv'
<1>1. /\ reader = "idle" /\ reader' = "first"
      /\ disturbed' = (\E p \in Producers : sender[p] = "store")
      /\ UNCHANGED <<head, tail, link, free, sender, input, prevHead, cursor, next, cut, result, list, order>>
  BY DEF Call, sharedVars, senderVars
<1>2. TypeOK'
  BY <1>1 DEF IInv, TypeOK
<1>3. Reader' /\ Noted'
  BY <1>1 DEF IInv, Reader, Noted
<1> QED
  BY <1>1, <1>2, <1>3, ControlKeeps DEF sharedVars, senderVars

LEMMA LoadFirstKeeps == ASSUME IInv, LoadFirst PROVE IInv'
<1> USE NodesAssumption
<1>1. /\ reader = "first" /\ tail \in Nodes
      /\ UNCHANGED <<head, link, free, sender, input, prevHead, disturbed>>
  BY DEF IInv, TypeOK, LoadFirst, senderVars
<1>2. CASE tail = Dummy /\ link[tail] = Null
  <2>1. reader' = "idle" /\ cursor' = Null /\ next' = Null /\ cut' = Null
        /\ UNCHANGED <<tail, result, list, order>>
    BY <1>2 DEF LoadFirst, ReturnFalse, EndCall
  <2>2. TypeOK' /\ Reader' /\ Noted'
    BY <1>1, <2>1 DEF IInv, TypeOK, Reader, Noted
  <2> QED
    BY <1>1, <2>1, <2>2, ControlKeeps DEF sharedVars, senderVars
<1>3. CASE tail = Dummy /\ link[tail] # Null
  <2>1. reader' = "skip" /\ cursor' = tail /\ next' = link[tail]
        /\ UNCHANGED <<tail, cut, result, list, order>>
    BY <1>3 DEF LoadFirst, Continue
  <2>2. TypeOK' /\ Reader' /\ Noted'
    BY <1>1, <1>3, <2>1 DEF IInv, TypeOK, Reader, Noted
  <2> QED
    BY <1>1, <2>1, <2>2, ControlKeeps DEF sharedVars, senderVars
<1>4. CASE tail # Dummy /\ link[tail] # Null
  BY <1>1, <1>4, ReturnTrueKeeps DEF LoadFirst, Nodes
<1>5. CASE tail # Dummy /\ link[tail] = Null
  <2>1. reader' = "head" /\ cursor' = tail /\ next' = Null
        /\ UNCHANGED <<tail, cut, result, list, order>>
    BY <1>5 DEF LoadFirst, Continue
  <2>2. Len(list) = 1 \/ disturbed
    BY <1>1, <1>5, CutIsNoted
  <2>3. TypeOK' /\ Reader' /\ Noted'
    BY <1>1, <1>5, <2>1, <2>2 DEF IInv, TypeOK, Reader, Noted, Nodes
  <2> QED
    BY <1>1, <2>1, <2>3, ControlKeeps DEF sharedVars, senderVars
<1> QED
  BY <1>2, <1>3, <1>4, <1>5

LEMMA SkipDummyKeeps == ASSUME IInv, SkipDummy PROVE IInv'
<1> USE NodesAssumption
<1>1. /\ reader = "skip" /\ reader' = "second" /\ tail = Dummy
      /\ tail' = link[tail] /\ link[tail] # Null /\ cursor' = tail' /\ next' = Null
      /\ list' = Behead(list)
      /\ UNCHANGED <<head, link, free, sender, input, prevHead, cut, result, order, disturbed>>
  BY DEF IInv, Reader, SkipDummy, senderVars
<1>2. /\ tail \in Nodes \ free /\ tail' \in Nodes
      /\ list' \in Seq(Nodes) /\ order' \in Seq(Items)
      /\ \A n : n = tail => ~Listed(n)'
      /\ Chain' /\ Senders' /\ Stores' /\ Cuts' /\ Order' /\ Owned'
  BY <1>1, BeheadKeeps DEF senderVars
<1>3. TypeOK'
  BY <1>1, <1>2 DEF IInv, TypeOK
<1>4. cursor' \in Items
  <2>1. ~Listed(Dummy)'
    BY <1>1, <1>2
  <2>2. Len(list') \in Nat /\ Len(list') >= 1 /\ tail' = list'[1]
    BY <1>2, EmptySequence DEF Chain
  <2>3. tail' # Dummy
    BY <2>1, <2>2 DEF Listed
  <2> QED BY <1>1, <1>2, <2>3 DEF Nodes
<1>5. Reader' /\ Noted'
  BY <1>1, <1>4 DEF IInv, Reader, Noted
<1> QED
  BY <1>2, <1>3, <1>5 DEF IInv

LEMMA LoadSecondKeeps == ASSUME IInv, LoadSecond PROVE IInv'
<1>1. /\ reader = "second" /\ cursor = tail /\ tail \in Items
      /\ UNCHANGED <<head, link, free, sender, input, prevHead, disturbed>>
  BY DEF IInv, Reader, LoadSecond, senderVars
<1>2. CASE link[cursor] # Null
  BY <1>1, <1>2, ReturnTrueKeeps DEF LoadSecond
<1>3. CASE link[cursor] = Null
  <2>1. reader' = "head" /\ UNCHANGED <<tail, cursor, next, cut, result, list, order>>
    BY <1>3 DEF LoadSecond, Continue
  <2>2. Len(list) = 1 \/ disturbed
    BY <1>1, <1>3, CutIsNoted
  <2>3. TypeOK' /\ Reader' /\ Noted'
    BY <1>1, <2>1, <2>2 DEF IInv, TypeOK, Reader, Noted
  <2> QED
    BY <1>1, <2>1, <2>3, ControlKeeps DEF sharedVars, senderVars
<1> QED
  BY <1>2, <1>3

LEMMA LoadHeadKeeps == ASSUME IInv, LoadHead PROVE IInv'
<1> USE NodesAssumption
<1>1. /\ reader = "head" /\ cursor = tail /\ tail \in Items
      /\ UNCHANGED <<head, link, free, sender, input, prevHead, disturbed>>
  BY DEF IInv, Reader, LoadHead, senderVars
<1>2. CASE head # cursor
  <2>1. reader' = "idle" /\ cursor' = Null /\ next' = Null /\ cut' = Null
        /\ UNCHANGED <<tail, result, list, order>>
    BY <1>2 DEF LoadHead, ReturnFalse, EndCall
  <2>2. TypeOK' /\ Reader' /\ Noted'
    BY <1>1, <2>1 DEF IInv, TypeOK, Reader, Noted
  <2> QED
    BY <1>1, <2>1, <2>2, ControlKeeps DEF sharedVars, senderVars
<1>3. CASE head = cursor
  <2>1. reader' = "reset" /\ UNCHANGED <<tail, cursor, next, cut, result, list, order>>
    BY <1>3 DEF LoadHead, Continue
  <2>2. Len(list) = 1 /\ list[1] = tail
    <3>1. /\ Len(list) \in Nat /\ 1 \in 1 .. Len(list) /\ Len(list) \in 1 .. Len(list)
          /\ list[1] = tail /\ list[Len(list)] = tail
      BY <1>1, <1>3, EmptySequence DEF IInv, TypeOK, Chain
    <3> QED BY <3>1 DEF IInv, Chain
  <2>3. ~Listed(Dummy)'
    BY <1>1, <2>1, <2>2 DEF Listed
  <2>4. TypeOK' /\ Reader' /\ Noted'
    BY <1>1, <2>1, <2>3 DEF IInv, TypeOK, Reader, Noted
  <2> QED
    BY <1>1, <2>1, <2>4, ControlKeeps DEF sharedVars, senderVars
<1> QED
  BY <1>2, <1>3

\* The dummy is not in the list when its link is reset.
LEMMA ResetDummyKeeps == ASSUME IInv, ResetDummy PROVE IInv'
<1> USE NodesAssumption
<1>1. /\ reader = "reset" /\ reader' = "exchange" /\ ~Listed(Dummy)
      /\ link' = [link EXCEPT ![Dummy] = Null]
      /\ UNCHANGED <<head, tail, free, sender, input, prevHead, cursor, next, cut, result, list, order, disturbed>>
  BY DEF IInv, Reader, ResetDummy, senderVars, history
<1>2. /\ Len(list) \in Nat
      /\ \A k \in 1 .. Len(list) : list[k] \in Nodes /\ link'[list[k]] = link[list[k]]
  BY <1>1, EmptySequence DEF IInv, TypeOK, Listed
<1>3. TypeOK'
  BY <1>1 DEF IInv, TypeOK, Nodes
<1>4. Chain'
  BY <1>1, <1>2 DEF IInv, Chain
<1>5. Senders'
  BY <1>1 DEF IInv, Senders, Listed, TypeOK, Nodes
<1>6. Stores'
  BY <1>1, <1>2 DEF IInv, Stores
<1>7. Cuts'
  BY <1>1, <1>2 DEF IInv, Cuts
<1>8. Reader'
  BY <1>1 DEF IInv, Reader, Listed, TypeOK, Nodes
<1>9. Noted' /\ Order' /\ Owned'
  BY <1>1 DEF IInv, Noted, Order, OrderAt, Owned, Listed
<1> QED
  BY <1>3, <1>4, <1>5, <1>6, <1>7, <1>8, <1>9 DEF IInv

\* The dummy becomes the last node, behind the packet it found there.
LEMMA ExchangeDummyKeeps == ASSUME IInv, ExchangeDummy PROVE IInv'
<1> USE NodesAssumption
<1> DEFINE N == Len(list)
<1>1. /\ reader = "exchange" /\ reader' = "store" /\ cut' = head /\ head' = Dummy
      /\ list' = Append(list, Dummy)
      /\ UNCHANGED <<tail, link, free, sender, input, prevHead, cursor, next, result, order, disturbed>>
  BY DEF ExchangeDummy, senderVars
<1>2. ~Listed(Dummy) /\ link[Dummy] = Null /\ Dummy \notin free
  BY <1>1 DEF IInv, Reader, TypeOK
<1>3. /\ list' \in Seq(Nodes) /\ N \in Nat /\ N >= 1 /\ Len(list') = N + 1
      /\ \A k \in 1 .. N : list'[k] = list[k] /\ list[k] # Dummy
      /\ list'[N + 1] = Dummy /\ head = list[N] /\ tail = list[1] /\ link[list[N]] = Null
  BY <1>1, <1>2, AppendFacts DEF IInv, TypeOK, Nodes, Chain, Listed
<1>4. TypeOK'
  BY <1>1, <1>3 DEF IInv, TypeOK, Nodes
<1>5. Chain'
  BY <1>1, <1>2, <1>3 DEF IInv, Chain
<1>6. Senders'
  <2>1. \A n : n # Dummy => (Listed(n)' <=> Listed(n))
    BY <1>3 DEF Listed
  <2> QED
    BY <1>1, <2>1 DEF IInv, Senders
<1>7. Stores'
  <2>1. ASSUME NEW q \in Producers, sender'[q] = "store"
        PROVE  \E k \in 1 .. Len(list') - 1 :
                  list'[k] = prevHead'[q] /\ list'[k + 1] = input'[q] /\ link'[list'[k]] = Null
    BY <1>1, <1>3, <2>1 DEF IInv, Stores
  <2>2. /\ N \in 1 .. Len(list') - 1
        /\ list'[N] = cut' /\ list'[N + 1] = Dummy /\ link'[list'[N]] = Null
    BY <1>1, <1>3
  <2> QED
    BY <2>1, <2>2 DEF Stores
<1>8. Cuts'
  <2> SUFFICES ASSUME NEW k \in 1 .. Len(list') - 1, link'[list'[k]] = Null
               PROVE  \/ \E q \in Producers : sender'[q] = "store" /\ prevHead'[q] = list'[k]
                      \/ reader' = "store" /\ cut' = list'[k]
    BY DEF Cuts
  <2>1. CASE k = N
    BY <1>1, <1>3, <2>1
  <2>2. CASE k # N
    BY <1>1, <1>3, <2>2 DEF IInv, Cuts
  <2> QED BY <2>1, <2>2
<1>9. Reader'
  BY <1>1, <1>3 DEF IInv, Reader
<1>10. Noted'
  BY <1>1 DEF IInv, Noted
<1>11. Order'
  <2>1. PICK d \in 0 .. N : OrderAt(d)
    BY DEF IInv, Order
  <2>2. d = 0
    BY <1>3, <2>1 DEF OrderAt
  <2>3. Len(order) = N /\ \A j \in 1 .. N : order[j] = list[j]
    BY <2>1, <2>2 DEF OrderAt
  <2>4. OrderAt(Len(list))'
    BY <1>1, <1>3, <2>3 DEF OrderAt
  <2>5. Len(list') \in 0 .. Len(list')
    BY <1>3
  <2> QED
    BY <2>4, <2>5 DEF Order
<1>12. Owned'
  <2>1. \A k \in 1 .. Len(list') : list'[k] \notin free'
    BY <1>1, <1>2, <1>3 DEF IInv, Owned
  <2>2. \A i \in Items : Listed(i) => Listed(i)'
    BY <1>3 DEF Listed
  <2> QED
    BY <1>1, <2>1, <2>2 DEF IInv, Owned
<1> QED
  BY <1>4, <1>5, <1>6, <1>7, <1>8, <1>9, <1>10, <1>11, <1>12 DEF IInv

LEMMA StoreDummyKeeps == ASSUME IInv, StoreDummy PROVE IInv'
<1> USE NodesAssumption
<1> DEFINE N == Len(list)
<1>1. /\ reader = "store" /\ reader' = "last"
      /\ link' = [link EXCEPT ![cut] = Dummy]
      /\ UNCHANGED <<head, tail, free, sender, input, prevHead, cursor, next, cut, result, list, order, disturbed>>
  BY DEF StoreDummy, senderVars, history
<1>2. PICK c \in 1 .. N - 1 : list[c] = cut /\ list[c + 1] = Dummy /\ link[list[c]] = Null
  BY <1>1 DEF IInv, Stores
<1>3. /\ N \in Nat /\ c \in 1 .. N /\ c # N /\ c + 1 \in 1 .. N
      /\ \A k \in 1 .. N : list[k] \in Nodes
      /\ \A k, l \in 1 .. N : list[k] = list[l] => k = l
  BY EmptySequence DEF IInv, TypeOK, Chain
<1>4. /\ link'[list[c]] = list[c + 1]
      /\ \A n \in Nodes : n # cut => link'[n] = link[n]
      /\ \A k \in 1 .. N : k # c => link'[list[k]] = link[list[k]]
      /\ \A n \in Nodes : ~Listed(n) => link'[n] = link[n]
  <2>1. /\ link'[cut] = Dummy
        /\ \A n \in Nodes : n # cut => link'[n] = link[n]
    BY <1>1, <1>2, <1>3 DEF IInv, TypeOK
  <2>2. \A n \in Nodes : ~Listed(n) => link'[n] = link[n]
    BY <1>2, <1>3, <2>1 DEF Listed
  <2> QED
    BY <1>2, <1>3, <2>1, <2>2
<1>5. TypeOK'
  BY <1>1 DEF IInv, TypeOK, Nodes
<1>6. Chain'
  BY <1>1, <1>2, <1>3, <1>4 DEF IInv, Chain
<1>7. Senders'
  <2>1. \A n : Listed(n)' <=> Listed(n)
    BY <1>1 DEF Listed
  <2>2. \A q \in Producers : sender[q] # "idle" => input[q] \in Nodes
    BY DEF IInv, Senders, Nodes
  <2> QED
    BY <1>1, <1>4, <2>1, <2>2 DEF IInv, Senders
<1>8. Stores'
  <2>1. ASSUME NEW q \in Producers, sender'[q] = "store"
        PROVE  \E k \in 1 .. Len(list') - 1 :
                  list'[k] = prevHead'[q] /\ list'[k + 1] = input'[q] /\ link'[list'[k]] = Null
    <3>1. input[q] # Dummy
      BY <1>1, <2>1 DEF IInv, Senders
    <3>2. PICK k \in 1 .. N - 1 :
              list[k] = prevHead[q] /\ list[k + 1] = input[q] /\ link[list[k]] = Null
      BY <1>1, <2>1 DEF IInv, Stores
    <3> QED
      BY <1>1, <1>2, <1>3, <1>4, <3>1, <3>2
  <2> QED
    BY <1>1, <2>1 DEF Stores
<1>9. Cuts'
  <2> SUFFICES ASSUME NEW k \in 1 .. N - 1, link'[list[k]] = Null
               PROVE  \E q \in Producers : sender'[q] = "store" /\ prevHead'[q] = list[k]
    BY <1>1 DEF Cuts
  <2>1. k # c /\ link[list[k]] = Null /\ list[k] # cut
    BY <1>2, <1>3, <1>4
  <2> QED
    BY <1>1, <2>1 DEF IInv, Cuts
<1>10. Reader' /\ Noted'
  BY <1>1 DEF IInv, Reader, Noted
<1>11. Order' /\ Owned'
  BY <1>1 DEF IInv, Order, OrderAt, Owned, Listed
<1> QED
  BY <1>5, <1>6, <1>7, <1>8, <1>9, <1>10, <1>11 DEF IInv

LEMMA LoadLastKeeps == ASSUME IInv, LoadLast PROVE IInv'
<1>1. /\ reader = "last" /\ cursor = tail /\ tail \in Items
      /\ UNCHANGED <<head, link, free, sender, input, prevHead, disturbed>>
  BY DEF IInv, Reader, LoadLast, senderVars
<1>2. CASE link[cursor] # Null
  BY <1>1, <1>2, ReturnTrueKeeps DEF LoadLast
<1>3. CASE link[cursor] = Null
  <2>1. reader' = "idle" /\ cursor' = Null /\ next' = Null /\ cut' = Null
        /\ UNCHANGED <<tail, result, list, order>>
    BY <1>3 DEF LoadLast, ReturnFalse, EndCall
  <2>2. TypeOK' /\ Reader' /\ Noted'
    BY <1>1, <2>1 DEF IInv, TypeOK, Reader, Noted
  <2> QED
    BY <1>1, <2>1, <2>2, ControlKeeps DEF sharedVars, senderVars
<1> QED
  BY <1>2, <1>3

\* Nobody but the consumer knows the packet it returned.
LEMMA DeleteKeeps == ASSUME IInv, Delete PROVE IInv'
<1> USE NodesAssumption
<1>1. /\ reader = "delete" /\ reader' = "idle"
      /\ free' = free \cup {result} /\ result' = Null
      /\ UNCHANGED <<head, tail, link, sender, input, prevHead, cursor, next, cut, list, order, disturbed>>
  BY DEF Delete, senderVars, history
<1>2. result \in Items /\ ~Listed(result)
  BY <1>1 DEF IInv, Reader
<1>3. TypeOK'
  BY <1>1, <1>2 DEF IInv, TypeOK
<1>4. \A p \in Producers : sender[p] # "idle" => input[p] # result
  <2> SUFFICES ASSUME NEW p \in Producers, sender[p] # "idle" PROVE input[p] # result
    OBVIOUS
  <2>1. CASE sender[p] = "exchange"
    BY <2>1 DEF IInv, Senders
  <2>2. CASE sender[p] = "store"
    <3>1. PICK k \in 1 .. Len(list) - 1 : list[k + 1] = input[p]
      BY <2>2 DEF IInv, Stores
    <3>2. Len(list) \in Nat /\ k + 1 \in 1 .. Len(list)
      BY EmptySequence DEF IInv, TypeOK
    <3> QED BY <1>2, <3>1, <3>2 DEF Listed
  <2> QED BY <2>1, <2>2 DEF IInv, TypeOK
<1>5. Chain' /\ Stores' /\ Cuts' /\ Order'
  BY <1>1 DEF IInv, Chain, Stores, Cuts, Order, OrderAt, Listed
<1>6. Senders'
  BY <1>1, <1>4 DEF IInv, Senders, Listed
<1>7. Reader' /\ Noted'
  BY <1>1 DEF IInv, Reader, Noted
<1>8. Owned'
  BY <1>1, <1>2 DEF IInv, Owned, Listed
<1> QED
  BY <1>3, <1>5, <1>6, <1>7, <1>8 DEF IInv

-----------------------------------------------------------------------------
LEMMA StutterKeeps == ASSUME IInv, UNCHANGED vars PROVE IInv'
<1>1. UNCHANGED <<head, tail, link, free, sender, input, prevHead, reader, cursor, next,
                  cut, result, list, order, disturbed>>
  BY DEF vars, sharedVars, senderVars, readerVars, history
<1>2. TypeOK' /\ Chain' /\ Senders' /\ Stores' /\ Cuts'
  BY <1>1 DEF IInv, TypeOK, Chain, Senders, Stores, Cuts, Listed
<1>3. Reader' /\ Noted' /\ Order' /\ Owned'
  BY <1>1 DEF IInv, Reader, Noted, Order, OrderAt, Owned, Listed
<1> QED
  BY <1>2, <1>3 DEF IInv

LEMMA NextKeeps == ASSUME IInv, [Next]_vars PROVE IInv'
BY AllocateKeeps, ExchangeKeeps, StoreLinkKeeps, CallKeeps, LoadFirstKeeps, SkipDummyKeeps,
   LoadSecondKeeps, LoadHeadKeeps, ResetDummyKeeps, ExchangeDummyKeeps, StoreDummyKeeps,
   LoadLastKeeps, DeleteKeeps, StutterKeeps DEF Next, Enqueue, Dequeue

LEMMA Invariance == Spec => []IInv
<1>1. Init => IInv
  BY InitInvariant
<1>2. IInv /\ [Next]_vars => IInv'
  BY NextKeeps
<1> QED
  BY <1>1, <1>2, PTL DEF Spec

-----------------------------------------------------------------------------
(* The properties *)

\* Every variable has its type; Dequeue never returns the dummy.
THEOREM TypeCorrect == Spec => []TypeOK
<1>1. IInv => TypeOK
  BY DEF IInv
<1> QED
  BY <1>1, Invariance, PTL

\* No thread touches the link of a deleted packet.
THEOREM LinksStayValid == Spec => []NoUseAfterDelete
<1>1. ASSUME IInv PROVE NoUseAfterDelete
  <2>1. /\ Len(list) \in Nat /\ 1 \in 1 .. Len(list) /\ list[1] = tail
        /\ \A k \in 1 .. Len(list) : list[k] \notin free
    BY <1>1, EmptySequence DEF IInv, TypeOK, Chain, Owned
  <2>2. tail \notin free
    BY <2>1
  <2>3. ASSUME NEW p \in Producers, sender[p] = "store" PROVE prevHead[p] \notin free
    BY <1>1, <2>1, <2>3 DEF IInv, Stores
  <2>4. ASSUME reader = "store" PROVE cut \notin free
    BY <1>1, <2>1, <2>4 DEF IInv, Stores
  <2>5. reader \in {"second", "last"} => cursor = tail
    BY <1>1 DEF IInv, Reader
  <2> QED
    BY <2>2, <2>3, <2>4, <2>5 DEF NoUseAfterDelete
<1> QED
  BY <1>1, Invariance, PTL

\* The queued packets are the listed nodes other than the dummy, each once.
LEMMA QueuedIsListed ==
    ASSUME IInv
    PROVE  /\ Len(order) \in Nat /\ DOMAIN order = 1 .. Len(order)
           /\ \A i \in Items : i \in Queued <=> Listed(i)
           /\ \A j, l \in 1 .. Len(order) : order[j] = order[l] => j = l
           /\ Queued \subseteq Items
<1> USE NodesAssumption
<1> DEFINE N == Len(list)
<1>1. /\ N \in Nat /\ Len(order) \in Nat /\ DOMAIN order = 1 .. Len(order)
      /\ \A j \in 1 .. Len(order) : order[j] \in Items
      /\ \A k, l \in 1 .. N : list[k] = list[l] => k = l
  BY EmptySequence DEF IInv, TypeOK, Chain
<1>2. PICK d \in 0 .. N : OrderAt(d)
  BY DEF IInv, Order
<1>3. \A j \in 1 .. Len(order) :
          \E k \in 1 .. N : order[j] = list[k] /\ k = IF d = 0 \/ j < d THEN j ELSE j + 1
  BY <1>1, <1>2 DEF OrderAt
<1>4. ASSUME NEW k \in 1 .. N, list[k] \in Items
      PROVE  \E j \in 1 .. Len(order) : order[j] = list[k]
  <2>1. k # d
    BY <1>2, <1>4 DEF OrderAt
  <2>2. CASE d = 0 \/ k < d
    <3>1. k \in 1 .. Len(order) /\ order[k] = list[k]
      BY <1>1, <1>2, <2>2 DEF OrderAt
    <3> QED BY <3>1
  <2>3. CASE d > 0 /\ k > d
    <3>1. k - 1 \in 1 .. Len(order) /\ order[k - 1] = list[k]
      BY <1>1, <1>2, <2>3 DEF OrderAt
    <3> QED BY <3>1
  <2> QED BY <1>1, <2>1, <2>2, <2>3
<1>5. ASSUME NEW i \in Items PROVE i \in Queued <=> Listed(i)
  <2>1. ASSUME i \in Queued PROVE Listed(i)
    BY <1>1, <1>3, <2>1 DEF Queued, Listed
  <2>2. ASSUME Listed(i) PROVE i \in Queued
    BY <1>1, <1>4, <2>2 DEF Queued, Listed
  <2> QED BY <2>1, <2>2
<1>6. \A j, l \in 1 .. Len(order) : order[j] = order[l] => j = l
  BY <1>1, <1>3
<1>7. Queued \subseteq Items
  BY <1>1 DEF Queued
<1> QED
  BY <1>1, <1>5, <1>6, <1>7

\* An allocated packet has exactly one owner.
THEOREM Ownership == Spec => []EveryPacketHasOneOwner
<1> USE NodesAssumption
<1>1. ASSUME IInv PROVE EveryPacketHasOneOwner
  <2>1. /\ DOMAIN order = 1 .. Len(order)
        /\ \A i \in Items : i \in Queued <=> Listed(i)
        /\ \A j, l \in 1 .. Len(order) : order[j] = order[l] => j = l
        /\ Queued \subseteq Items
    BY <1>1, QueuedIsListed
  <2>2. \A p, q \in Producers :
          sender[p] = "exchange" /\ sender[q] = "exchange" /\ input[p] = input[q] => p = q
    BY <1>1 DEF IInv, Senders
  <2>3. /\ Carried \subseteq Items \ free
        /\ \A i \in Carried : ~Listed(i) /\ i # result
    BY <1>1 DEF IInv, Senders, Carried
  <2>4. /\ Returned \subseteq Items \ free
        /\ \A i \in Returned : ~Listed(i)
    BY <1>1 DEF IInv, Reader, TypeOK, Returned
  <2>5. \A i \in Items : Listed(i) => i \notin free
    BY <1>1 DEF IInv, Owned, Listed
  <2>6. \A i \in Items : i \in free \/ i \in Queued \/ i \in Carried \/ i \in Returned
    BY <1>1, <2>1 DEF IInv, Owned, Carried, Returned
  <2>7. free \subseteq Items
    BY <1>1 DEF IInv, TypeOK
  <2>8. Items = free \cup Queued \cup Carried \cup Returned
    BY <2>1, <2>3, <2>4, <2>6, <2>7
  <2>9. free \cap (Queued \cup Carried \cup Returned) = {}
    BY <2>1, <2>3, <2>4, <2>5
  <2>10. Queued \cap (Carried \cup Returned) = {}
    BY <2>1, <2>3, <2>4
  <2>11. Carried \cap Returned = {}
    BY <2>3 DEF Returned
  <2> QED
    BY <2>1, <2>2, <2>8, <2>9, <2>10, <2>11 DEF EveryPacketHasOneOwner
<1> QED
  BY <1>1, Invariance, PTL

\* A packet that Dequeue returns was the oldest one.
LEMMA ReturnsOldest ==
    ASSUME IInv, tail \in Items, link[tail] # Null
    PROVE  order # <<>> /\ tail = Head(order)
<1> USE NodesAssumption
<1>1. /\ Len(list) \in Nat /\ 1 \in 1 .. Len(list) /\ tail = list[1]
      /\ Len(order) \in Nat /\ order \in Seq(Items) /\ Len(list) # 1
  BY EmptySequence DEF IInv, TypeOK, Chain
<1>2. PICK d \in 0 .. Len(list) : OrderAt(d)
  BY DEF IInv, Order
<1>3. d # 1
  BY <1>1, <1>2 DEF OrderAt
<1>4. 1 \in 1 .. Len(order) /\ order[1] = list[1]
  BY <1>1, <1>2, <1>3 DEF OrderAt
<1> QED
  BY <1>1, <1>4

\* Without a packet in the list the queue is empty.
LEMMA OnlyDummy ==
    ASSUME IInv, Len(list) = 1, tail = Dummy
    PROVE  order = <<>>
<1>1. /\ list[1] = Dummy /\ Len(list) \in Nat
      /\ Len(order) \in Nat /\ (order = <<>> <=> Len(order) = 0)
  BY EmptySequence DEF IInv, TypeOK, Chain
<1>2. PICK d \in 0 .. Len(list) : OrderAt(d)
  BY DEF IInv, Order
<1>3. Listed(Dummy)
  BY <1>1 DEF Listed
<1>4. d # 0
  BY <1>2, <1>3 DEF OrderAt
<1>5. Len(order) = 0
  BY <1>1, <1>2, <1>4 DEF OrderAt
<1> QED
  BY <1>1, <1>5

LEMMA AbstractInit == Init => fifo!Init
BY DEF Init, fifo!Init

\* A Dequeue that returns a packet is a Take, from wherever it does so.
LEMMA ReturnTrueTakes ==
    ASSUME IInv, reader \notin {"idle", "delete"}, tail \in Items, link[tail] # Null,
           ReturnTrue(tail, link[tail]), UNCHANGED <<senderVars, disturbed>>
    PROVE  fifo!Take(tail)
<1>1. order # <<>> /\ tail = Head(order)
  BY ReturnsOldest
<1>2. order' = Tail(order) /\ reader' = "delete" /\ sender' = sender /\ disturbed' = disturbed
  BY <1>1 DEF ReturnTrue, Behead, senderVars
<1> QED
  BY <1>1, <1>2 DEF fifo!Take

\* One that returns false is a FindNothing.
LEMMA ReturnFalseFindsNothing ==
    ASSUME reader \notin {"idle", "delete"}, order = <<>> \/ disturbed,
           ReturnFalse, UNCHANGED <<senderVars, disturbed>>
    PROVE  fifo!FindNothing
BY DEF fifo!FindNothing, ReturnFalse, senderVars

LEMMA AbstractStep ==
    ASSUME IInv, [Next]_vars
    PROVE  [fifo!Next]_(fifo!vars)
<1> USE NodesAssumption
<1>1. CASE UNCHANGED vars
  BY <1>1 DEF vars, senderVars, readerVars, history, fifo!vars
<1>2. ASSUME NEW p \in Producers, NEW i \in Items, Allocate(p, i) PROVE UNCHANGED fifo!vars
  <2>1. {q \in Producers : sender'[q] = "store"} = {q \in Producers : sender[q] = "store"}
    BY <1>2 DEF Allocate, IInv, TypeOK
  <2> QED
    BY <1>2, <2>1 DEF Allocate, readerVars, history, fifo!vars
<1>3. ASSUME NEW p \in Producers, Exchange(p) PROVE fifo!Next
  <2>1. input[p] \in Items /\ ~Listed(input[p]) /\ sender[p] = "exchange"
    BY <1>3 DEF IInv, Senders, Exchange
  <2>2. input[p] \notin Queued
    BY <2>1, QueuedIsListed
  <2>3. {q \in Producers : sender'[q] = "store"} = {q \in Producers : sender[q] = "store"} \cup {p}
    BY <1>3 DEF Exchange, IInv, TypeOK
  <2>4. PICK i \in Items : i = input[p]
    BY <2>1
  <2>5. fifo!Put(p, i)
    BY <1>3, <2>1, <2>2, <2>3, <2>4 DEF Exchange, readerVars, fifo!Put, fifo!Queued, Queued
  <2> QED
    BY <2>5 DEF fifo!Next
<1>4. ASSUME NEW p \in Producers, StoreLink(p) PROVE fifo!Next
  <2>1. {q \in Producers : sender'[q] = "store"} = {q \in Producers : sender[q] = "store"} \ {p}
    BY <1>4 DEF StoreLink, IInv, TypeOK
  <2>2. fifo!EndPut(p)
    BY <1>4, <2>1 DEF StoreLink, readerVars, history, fifo!EndPut
  <2> QED
    BY <2>2 DEF fifo!Next
<1>5. ASSUME Call PROVE fifo!Next
  <2>1. /\ reader = "idle" /\ reader' = "first" /\ UNCHANGED <<order, sender>>
        /\ disturbed' = (\E p \in Producers : sender[p] = "store")
    BY <1>5 DEF Call, senderVars
  <2>2. (\E p \in Producers : sender[p] = "store")
            <=> {p \in Producers : sender[p] = "store"} # {}
    OBVIOUS
  <2>3. fifo!BeginTake
    BY <2>1, <2>2 DEF fifo!BeginTake
  <2> QED BY <2>3 DEF fifo!Next
<1>6. ASSUME LoadFirst PROVE [fifo!Next]_(fifo!vars)
  <2>1. reader = "first" /\ tail \in Nodes /\ UNCHANGED <<senderVars, disturbed>>
    BY <1>6 DEF LoadFirst, IInv, TypeOK
  <2>2. CASE tail = Dummy /\ link[tail] = Null
    <3>1. Len(list) = 1 \/ disturbed
      BY <2>1, <2>2, CutIsNoted
    <3>2. order = <<>> \/ disturbed
      BY <2>2, <3>1, OnlyDummy
    <3>3. ReturnFalse
      BY <1>6, <2>2 DEF LoadFirst
    <3> QED
      BY <2>1, <3>2, <3>3, ReturnFalseFindsNothing DEF fifo!Next
  <2>3. CASE tail \in Items /\ link[tail] # Null
    <3>1. ReturnTrue(tail, link[tail])
      BY <1>6, <2>3 DEF LoadFirst
    <3> QED
      BY <2>1, <2>3, <3>1, ReturnTrueTakes DEF fifo!Next
  <2>4. CASE \/ tail = Dummy /\ link[tail] # Null
             \/ tail \in Items /\ link[tail] = Null
    <3>1. UNCHANGED <<order, sender, disturbed>> /\ reader' \in {"skip", "head"}
      BY <1>6, <2>4 DEF LoadFirst, Continue, senderVars
    <3> QED
      BY <2>1, <3>1 DEF fifo!vars
  <2> QED
    BY <2>1, <2>2, <2>3, <2>4 DEF Nodes
<1>7. ASSUME SkipDummy PROVE UNCHANGED fifo!vars
  BY <1>7 DEF SkipDummy, senderVars, fifo!vars
<1>8. ASSUME LoadSecond PROVE [fifo!Next]_(fifo!vars)
  <2>1. reader = "second" /\ cursor = tail /\ tail \in Items /\ UNCHANGED <<senderVars, disturbed>>
    BY <1>8 DEF LoadSecond, IInv, Reader
  <2>2. CASE link[cursor] # Null
    BY <1>8, <2>1, <2>2, ReturnTrueTakes DEF LoadSecond, fifo!Next
  <2>3. CASE link[cursor] = Null
    BY <1>8, <2>1, <2>3 DEF LoadSecond, Continue, senderVars, fifo!vars
  <2> QED BY <2>2, <2>3
<1>9. ASSUME LoadHead PROVE [fifo!Next]_(fifo!vars)
  <2>1. reader = "head" /\ UNCHANGED <<senderVars, disturbed>>
    BY <1>9 DEF LoadHead
  <2>2. CASE head # cursor
    <3>1. Len(list) # 1
      BY <2>1, <2>2 DEF IInv, Chain, Reader
    <3>2. disturbed
      BY <2>1, <3>1 DEF IInv, Reader
    <3>3. ReturnFalse
      BY <1>9, <2>2 DEF LoadHead
    <3> QED
      BY <2>1, <3>2, <3>3, ReturnFalseFindsNothing DEF fifo!Next
  <2>3. CASE head = cursor
    BY <1>9, <2>1, <2>3 DEF LoadHead, Continue, senderVars, fifo!vars
  <2> QED BY <2>2, <2>3
<1>10. ASSUME ResetDummy \/ ExchangeDummy \/ StoreDummy PROVE UNCHANGED fifo!vars
  BY <1>10 DEF ResetDummy, ExchangeDummy, StoreDummy, senderVars, history, fifo!vars
<1>11. ASSUME LoadLast PROVE [fifo!Next]_(fifo!vars)
  <2>1. reader = "last" /\ cursor = tail /\ tail \in Items /\ UNCHANGED <<senderVars, disturbed>>
    BY <1>11 DEF LoadLast, IInv, Reader
  <2>2. CASE link[cursor] # Null
    BY <1>11, <2>1, <2>2, ReturnTrueTakes DEF LoadLast, fifo!Next
  <2>3. CASE link[cursor] = Null
    <3>1. Len(list) # 1
      <4>1. Len(list) \in Nat /\ Len(list) >= 2
        BY <2>1, EmptySequence DEF IInv, Reader, TypeOK
      <4>2. \A n \in Nat : n >= 2 => n # 1
        OBVIOUS
      <4> QED BY <4>1, <4>2
    <3>2. disturbed
      BY <2>1, <2>3, <3>1, CutIsNoted
    <3>3. ReturnFalse
      BY <1>11, <2>3 DEF LoadLast
    <3> QED
      BY <2>1, <3>2, <3>3, ReturnFalseFindsNothing DEF fifo!Next
  <2> QED BY <2>2, <2>3
<1>12. ASSUME Delete PROVE UNCHANGED fifo!vars
  BY <1>12 DEF Delete, senderVars, history, fifo!vars
<1> QED
  BY <1>1, <1>2, <1>3, <1>4, <1>5, <1>6, <1>7, <1>8, <1>9, <1>10, <1>11, <1>12
     DEF Next, Enqueue, Dequeue

\* The queue implements PacketFifo.
THEOREM Refinement == Spec => ImplementsPacketFifo
<1>1. Init => fifo!Init
  BY AbstractInit
<1>2. IInv /\ [Next]_vars => [fifo!Next]_(fifo!vars)
  BY AbstractStep
<1> QED
  BY <1>1, <1>2, Invariance, PTL DEF Spec, ImplementsPacketFifo, fifo!Spec

=============================================================================
