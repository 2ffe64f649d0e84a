---------------------------- MODULE TradeProofs ----------------------------
(***************************************************************************)
(* Proofs about Trade, for any players, items, slots and amounts: the two  *)
(* windows open and close together, no acceptance outlives a change of the *)
(* offers, no item is ever in two places, and an exchange is whole.        *)
(***************************************************************************)
EXTENDS Trade, TLAPS, FiniteSetTheorems

Typed ==
    /\ world \in SUBSET Players
    /\ trader \in [Players -> Players \cup {NoPlayer}]
    /\ accepted \in [Players -> BOOLEAN]
    /\ offer = [p \in Players |-> offer[p]]

IInv == Typed /\ TradesAreMutual

\* What is known of a trade that is open.
LEMMA Partner ==
    ASSUME IInv, NEW p \in Players, trader[p] # NoPlayer
    PROVE  /\ trader[p] \in Players /\ trader[p] # p /\ trader[trader[p]] = p
           /\ p \in world /\ trader[p] \in world
  BY DEF IInv, Typed, TradesAreMutual

LEMMA InitIInv == Init => IInv
  BY NullAssumption DEF Init, IInv, Typed, TradesAreMutual

\* A step that changes neither the partners nor who is in the world.
LEMMA SameTraders ==
    ASSUME IInv, UNCHANGED <<world, trader>>,
           accepted' \in [Players -> BOOLEAN],
           offer' = [p \in Players |-> offer'[p]]
    PROVE  IInv'
  BY DEF IInv, Typed, TradesAreMutual

\* Both sides are deleted; whoever leaves at the same time is one of the two.
LEMMA DeletedTogether ==
    ASSUME IInv, NEW p \in Players, trader[p] # NoPlayer, DeleteBoth(p),
           world' = world \/ world' = world \ {p}
    PROVE  IInv'
<1> DEFINE q == trader[p]
<1>1. q \in Players /\ q # p /\ trader[q] = p
  BY Partner
<1>2. Typed'
  BY <1>1 DEF IInv, Typed, DeleteBoth
<1>3. ASSUME NEW r \in Players, trader'[r] # NoPlayer
      PROVE  r \in world' /\ trader'[r] \in world' \ {r} /\ trader'[trader'[r]] = r
  <2>1. r # p /\ r # q /\ trader'[r] = trader[r]
    BY <1>1, <1>3, NullAssumption DEF IInv, Typed, DeleteBoth
  <2>2. /\ trader[r] \in Players /\ trader[r] # r /\ trader[trader[r]] = r
        /\ r \in world /\ trader[r] \in world
    BY <1>3, <2>1, Partner
  <2>3. trader[r] # p /\ trader[r] # q
    BY <1>1, <2>1, <2>2
  <2>4. trader'[trader[r]] = trader[trader[r]]
    BY <2>2, <2>3 DEF IInv, Typed, DeleteBoth
  <2> QED
    BY <2>1, <2>2, <2>3, <2>4
<1> QED
  BY <1>2, <1>3 DEF IInv, TradesAreMutual

LEMMA InitiateKeepsIInv ==
    ASSUME IInv, NEW p \in Players, HandleInitiateTrade(p)
    PROVE  IInv'
<1>1. PICK q \in world \ {p} :
        /\ trader[q] = NoPlayer
        /\ trader' = [trader EXCEPT ![p] = q, ![q] = p]
        /\ accepted' = [accepted EXCEPT ![p] = FALSE, ![q] = FALSE]
        /\ offer' = [offer EXCEPT ![p] = NoOffer, ![q] = NoOffer]
  BY DEF HandleInitiateTrade
<1>2. p \in world /\ trader[p] = NoPlayer /\ world' = world /\ q \in Players
  BY DEF HandleInitiateTrade, IInv, Typed
<1>3. Typed'
  BY <1>1, <1>2 DEF IInv, Typed
<1>4. trader'[p] = q /\ trader'[q] = p
  BY <1>1, <1>2 DEF IInv, Typed
<1>5. ASSUME NEW r \in Players, trader'[r] # NoPlayer
      PROVE  r \in world' /\ trader'[r] \in world' \ {r} /\ trader'[trader'[r]] = r
  <2>1. CASE r \in {p, q}
    BY <2>1, <1>1, <1>2, <1>4
  <2>2. CASE r \notin {p, q}
    <3>1. trader'[r] = trader[r] /\ trader[r] # NoPlayer
      BY <1>1, <1>2, <1>5, <2>2 DEF IInv, Typed
    <3>2. /\ trader[r] \in Players /\ trader[r] # r /\ trader[trader[r]] = r
          /\ r \in world /\ trader[r] \in world
      BY <3>1, Partner
    <3>3. trader[r] \notin {p, q}
      BY <1>1, <1>2, <3>2, NullAssumption
    <3>4. trader'[trader[r]] = trader[trader[r]]
      BY <1>1, <1>2, <3>2, <3>3 DEF IInv, Typed
    <3> QED
      BY <1>2, <3>1, <3>2, <3>4
  <2> QED
    BY <2>1, <2>2
<1> QED
  BY <1>3, <1>5 DEF IInv, TradesAreMutual

LEMMA EnterKeepsIInv ==
    ASSUME IInv, NEW p \in Players, Enter(p)
    PROVE  IInv'
  BY DEF IInv, Typed, TradesAreMutual, Enter

\* The handlers that edit the two offers and withdraw the two acceptances.
Edits(p) ==
    \/ HandleSetTradeItem(p) \/ HandleClearTradeItem(p) \/ HandleSetTradeGold(p)
    \/ Cast(p) \/ AcceptSpellFails(p)

\* The steps that leave the offers alone.
Keeps(p) ==
    \/ AcceptWrongMoney(p) \/ AcceptUntradable(p) \/ AcceptFirst(p) \/ AcceptCannotStore(p)
    \/ HandleUnacceptTrade(p) \/ ItemGone(p) \/ Wear(p) \/ MoneyChanges(p)

\* An edit touches the offers of two partners only, and withdraws both
\* acceptances.
LEMMA EditsWithdraw ==
    ASSUME IInv, NEW p \in Players, Edits(p)
    PROVE  /\ trader[p] # NoPlayer
           /\ Withdraw(p)
           /\ UNCHANGED <<world, trader>>
           /\ offer' = [r \in Players |-> offer'[r]]
           /\ \A r \in Players \ {p, trader[p]} : offer'[r] = offer[r]
<1>1. CASE HandleSetTradeItem(p)
  BY <1>1 DEF HandleSetTradeItem, SetItem
<1>2. CASE HandleClearTradeItem(p)
  BY <1>2 DEF HandleClearTradeItem, SetItem
<1>3. CASE HandleSetTradeGold(p)
  BY <1>3 DEF HandleSetTradeGold, IInv, Typed
<1>4. CASE Cast(p)
  BY <1>4 DEF Cast, IInv, Typed
<1>5. CASE AcceptSpellFails(p)
  BY <1>5 DEF AcceptSpellFails, BothAccept, IInv, Typed
<1> QED
  BY <1>1, <1>2, <1>3, <1>4, <1>5 DEF Edits

LEMMA KeepsOffers ==
    ASSUME IInv, NEW p \in Players, Keeps(p)
    PROVE  UNCHANGED <<world, trader, offer>> /\ accepted' \in [Players -> BOOLEAN]
<1>1. CASE AcceptWrongMoney(p)
  BY <1>1 DEF AcceptWrongMoney, IInv, Typed
<1>2. CASE AcceptUntradable(p) \/ AcceptFirst(p)
  BY <1>2 DEF AcceptUntradable, AcceptFirst, IInv, Typed
<1>3. CASE AcceptCannotStore(p)
  BY <1>3 DEF AcceptCannotStore, Withdraw, IInv, Typed
<1>4. CASE HandleUnacceptTrade(p)
  BY <1>4 DEF HandleUnacceptTrade, IInv, Typed
<1>5. CASE ItemGone(p) \/ Wear(p) \/ MoneyChanges(p)
  BY <1>5 DEF ItemGone, Wear, MoneyChanges, IInv, Typed
<1> QED
  BY <1>1, <1>2, <1>3, <1>4, <1>5 DEF Keeps

\* A step of a player, sorted by what it does to the trades.
LEMMA Steps ==
    ASSUME Next
    PROVE  \E p \in Players :
              \/ HandleInitiateTrade(p) \/ Cancel(p) \/ Leave(p) \/ Enter(p)
              \/ Edits(p) \/ Keeps(p) \/ AcceptCompletes(p)
  BY DEF Next, Accept, Edits, Keeps

LEMMA NextKeepsIInv == IInv /\ [Next]_vars => IInv'
<1> SUFFICES ASSUME IInv, [Next]_vars PROVE IInv'
  OBVIOUS
<1>1. CASE UNCHANGED vars
  BY <1>1 DEF vars, IInv, Typed, TradesAreMutual
<1>2. CASE Next
  <2>1. PICK p \in Players :
              \/ HandleInitiateTrade(p) \/ Cancel(p) \/ Leave(p) \/ Enter(p)
              \/ Edits(p) \/ Keeps(p) \/ AcceptCompletes(p)
    BY <1>2, Steps
  <2>2. CASE HandleInitiateTrade(p)
    BY <2>2, InitiateKeepsIInv
  <2>3. CASE Cancel(p)
    <3>1. trader[p] # NoPlayer /\ DeleteBoth(p) /\ world' = world
      BY <2>3 DEF Cancel, TradeCancel
    <3> QED
      BY <3>1, DeletedTogether
  <2>4. CASE Leave(p)
    <3>1. CASE trader[p] # NoPlayer
      <4>1. DeleteBoth(p) /\ world' = world \ {p}
        BY <2>4, <3>1 DEF Leave, TradeCancel
      <4> QED
        BY <3>1, <4>1, DeletedTogether
    <3>2. CASE trader[p] = NoPlayer
      BY <2>4, <3>2, NullAssumption
      DEF Leave, TradeCancel, IInv, Typed, TradesAreMutual
    <3> QED
      BY <3>1, <3>2
  <2>5. CASE Enter(p)
    BY <2>5, EnterKeepsIInv
  <2>6. CASE Edits(p)
    <3>1. /\ UNCHANGED <<world, trader>> /\ Withdraw(p)
          /\ offer' = [r \in Players |-> offer'[r]]
      BY <2>6, EditsWithdraw
    <3>2. accepted' \in [Players -> BOOLEAN]
      BY <3>1 DEF Withdraw, IInv, Typed
    <3> QED
      BY <3>1, <3>2, SameTraders
  <2>7. CASE Keeps(p)
    <3>1. UNCHANGED <<world, trader, offer>> /\ accepted' \in [Players -> BOOLEAN]
      BY <2>7, KeepsOffers
    <3>2. offer' = [r \in Players |-> offer'[r]]
      BY <3>1 DEF IInv, Typed
    <3> QED
      BY <3>1, <3>2, SameTraders
  <2>8. CASE AcceptCompletes(p)
    <3>1. trader[p] # NoPlayer /\ DeleteBoth(p) /\ world' = world
      BY <2>8 DEF AcceptCompletes, BothAccept
    <3> QED
      BY <3>1, DeletedTogether
  <2> QED
    BY <2>1, <2>2, <2>3, <2>4, <2>5, <2>6, <2>7, <2>8
<1> QED
  BY <1>1, <1>2

LEMMA InvariantHolds == Spec => []IInv
<1>1. Init => IInv
  BY InitIInv
<1>2. IInv /\ [Next]_vars => IInv'
  BY NextKeepsIInv
<1> QED
  BY <1>1, <1>2, PTL DEF Spec

\* Trade windows open and close in pairs: the partner pointer of an open trade
\* refers to a player in the world whose own trade refers back (TradeCancel,
\* HandleInitiateTradeOpcode, CleanupsBeforeDelete).
THEOREM WindowsOpenAndCloseTogether == Spec => []TradesAreMutual
<1>1. IInv => TradesAreMutual
  BY DEF IInv
<1> QED
  BY <1>1, InvariantHolds, PTL

\* The step that AcceptanceStandsForOffers speaks of.
Stands ==
    \A p \in Players :
        trader[p] # NoPlayer /\ trader'[p] = trader[p] /\ accepted[p] /\ accepted'[p]
        => offer'[p] = offer[p] /\ offer'[trader[p]] = offer[trader[p]]

\* A trade between two players leaves the trades of the others alone.
LEMMA OthersKeepOffers ==
    ASSUME IInv, NEW p \in Players, trader[p] # NoPlayer,
           NEW r \in Players \ {p, trader[p]}, trader[r] # NoPlayer,
           \A s \in Players \ {p, trader[p]} : offer'[s] = offer[s]
    PROVE  offer'[r] = offer[r] /\ offer'[trader[r]] = offer[trader[r]]
<1>1. trader[r] \in Players /\ trader[trader[r]] = r
  BY Partner
<1>2. trader[trader[p]] = p
  BY Partner
<1>3. trader[r] \notin {p, trader[p]}
  BY <1>1, <1>2
<1> QED
  BY <1>1, <1>3

LEMMA DeleteStands ==
    ASSUME IInv, NEW p \in Players, trader[p] # NoPlayer, DeleteBoth(p)
    PROVE  Stands
<1>1. \A s \in Players \ {p, trader[p]} : offer'[s] = offer[s]
  BY DEF DeleteBoth, IInv, Typed
<1>2. trader[p] \in Players
  BY Partner
<1>3. ~accepted'[p] /\ ~accepted'[trader[p]]
  BY <1>2 DEF DeleteBoth, IInv, Typed
<1>4. ASSUME NEW r \in Players, trader[r] # NoPlayer, accepted'[r]
      PROVE  offer'[r] = offer[r] /\ offer'[trader[r]] = offer[trader[r]]
  <2>1. r \in Players \ {p, trader[p]}
    BY <1>3, <1>4
  <2> QED
    BY <1>1, <1>4, <2>1, OthersKeepOffers
<1> QED
  BY <1>4 DEF Stands

LEMMA EditStands ==
    ASSUME IInv, NEW p \in Players, Edits(p)
    PROVE  Stands
<1>1. /\ trader[p] # NoPlayer
      /\ Withdraw(p)
      /\ \A s \in Players \ {p, trader[p]} : offer'[s] = offer[s]
  BY EditsWithdraw
<1>2. trader[p] \in Players
  BY <1>1, Partner
<1>3. ~accepted'[p] /\ ~accepted'[trader[p]]
  BY <1>1, <1>2 DEF Withdraw, IInv, Typed
<1>4. ASSUME NEW r \in Players, trader[r] # NoPlayer, accepted'[r]
      PROVE  offer'[r] = offer[r] /\ offer'[trader[r]] = offer[trader[r]]
  <2>1. r \in Players \ {p, trader[p]}
    BY <1>3, <1>4
  <2> QED
    BY <1>1, <1>4, <2>1, OthersKeepOffers
<1> QED
  BY <1>4 DEF Stands

\* Neither of two players without a trade is anybody's partner.
LEMMA InitiateStands ==
    ASSUME IInv, NEW p \in Players, HandleInitiateTrade(p)
    PROVE  Stands
<1>1. PICK q \in world \ {p} :
        /\ trader[p] = NoPlayer /\ trader[q] = NoPlayer
        /\ offer' = [offer EXCEPT ![p] = NoOffer, ![q] = NoOffer]
  BY DEF HandleInitiateTrade
<1>2. ASSUME NEW r \in Players, trader[r] # NoPlayer
      PROVE  offer'[r] = offer[r] /\ offer'[trader[r]] = offer[trader[r]]
  <2>1. trader[r] \in Players /\ trader[trader[r]] = r
    BY <1>2, Partner
  <2>2. r \notin {p, q} /\ trader[r] \notin {p, q}
    BY <1>1, <1>2, <2>1, NullAssumption
  <2> QED
    BY <1>1, <2>1, <2>2 DEF IInv, Typed
<1> QED
  BY <1>2 DEF Stands

LEMMA NextStands == IInv /\ [Next]_vars => Stands
<1> SUFFICES ASSUME IInv, [Next]_vars PROVE Stands
  OBVIOUS
<1>1. CASE UNCHANGED offer
  BY <1>1 DEF Stands
<1>2. CASE Next
  <2>1. PICK p \in Players :
              \/ HandleInitiateTrade(p) \/ Cancel(p) \/ Leave(p) \/ Enter(p)
              \/ Edits(p) \/ Keeps(p) \/ AcceptCompletes(p)
    BY <1>2, Steps
  <2>2. CASE HandleInitiateTrade(p)
    BY <2>2, InitiateStands
  <2>3. CASE Cancel(p) \/ AcceptCompletes(p)
    <3>1. trader[p] # NoPlayer /\ DeleteBoth(p)
      BY <2>3 DEF Cancel, TradeCancel, AcceptCompletes, BothAccept
    <3> QED
      BY <3>1, DeleteStands
  <2>4. CASE Leave(p)
    <3>1. CASE trader[p] # NoPlayer
      <4>1. DeleteBoth(p)
        BY <2>4, <3>1 DEF Leave, TradeCancel
      <4> QED
        BY <3>1, <4>1, DeleteStands
    <3>2. CASE trader[p] = NoPlayer
      BY <1>1, <2>4, <3>2 DEF Leave, TradeCancel
    <3> QED
      BY <3>1, <3>2
  <2>5. CASE Enter(p)
    BY <1>1, <2>5 DEF Enter
  <2>6. CASE Edits(p)
    BY <2>6, EditStands
  <2>7. CASE Keeps(p)
    BY <1>1, <2>7, KeepsOffers
  <2> QED
    BY <2>1, <2>2, <2>3, <2>4, <2>5, <2>6, <2>7
<1> QED
  BY <1>1, <1>2 DEF vars

\* An acceptance is withdrawn by every handler that changes one of the offers
\* it was given for (TradeData::SetItem, SetMoney, SetSpell).
THEOREM AcceptancesAreWithdrawn == Spec => AcceptanceStandsForOffers
<1>1. IInv /\ [Next]_vars => [Stands]_vars
  BY NextStands
<1>2. Spec => [][Stands]_vars
  BY <1>1, InvariantHolds, PTL DEF Spec
<1> QED
  BY <1>2 DEF AcceptanceStandsForOffers, Stands

-----------------------------------------------------------------------------
(* Counting: induction by the least counterexample *)

\* A set with 0 and with the successor of each of its members below n has every
\* number up to n.
LEMMA CountUp ==
    ASSUME NEW N \in Nat, NEW S, 0 \in S, \A n \in 0 .. N - 1 : n \in S => n + 1 \in S
    PROVE  0 .. N \subseteq S
<1> DEFINE T == {n \in 0 .. N : n \notin S}
<1> SUFFICES ASSUME T # {} PROVE FALSE
  OBVIOUS
<1>1. PICK x \in T : \A y \in T : <<y, x>> \notin OpToRel(<, Nat)
  <2>1. T \subseteq Nat
    OBVIOUS
  <2> HIDE DEF T
  <2> QED BY Zenon, <2>1, NatLessThanWellFounded, WFMin
<1>2. x # 0 /\ x - 1 \in 0 .. N - 1 /\ (x - 1) + 1 = x
  OBVIOUS
<1>3. x - 1 \notin T
  <2>1. x - 1 \in Nat /\ x \in Nat /\ x - 1 < x
    BY <1>2
  <2>2. <<x - 1, x>> \in OpToRel(<, Nat)
    BY Zenon, <2>1 DEF OpToRel
  <2> HIDE DEF T
  <2> QED BY <1>1, <2>2
<1> QED BY <1>2, <1>3

\* The recursion of moveItems.
Obeys(p, q, b, f) ==
    f = [n \in 0 .. TRADE_SLOT_TRADED_COUNT |->
            IF n = 0 THEN b ELSE MoveSlot(p, q, n - 1, f[n - 1])]

\* What moveItems computes is any function that obeys its recursion.
LEMMA MoveItemsIs ==
    ASSUME NEW p, NEW q, NEW b, NEW f, Obeys(p, q, b, f)
    PROVE  moveItems(p, q, b) = f[TRADE_SLOT_TRADED_COUNT]
<1> DEFINE N == TRADE_SLOT_TRADED_COUNT
           moved == CHOOSE g : g = [n \in 0 .. N |->
                                      IF n = 0 THEN b ELSE MoveSlot(p, q, n - 1, g[n - 1])]
           S == {n \in 0 .. N : moved[n] = f[n]}
<1>1. N \in Nat
  BY CountAssumption
<1>2. Obeys(p, q, b, moved)
  BY DEF Obeys
<1>3. moveItems(p, q, b) = moved[N]
  BY DEF moveItems
<1> HIDE DEF moved
<1>4. 0 \in S
  BY <1>1, <1>2 DEF Obeys
<1>5. ASSUME NEW n \in 0 .. N - 1, n \in S
      PROVE  n + 1 \in S
  <2>1. n + 1 \in 0 .. N /\ n + 1 # 0 /\ (n + 1) - 1 = n
    BY <1>1
  <2>2. moved[n + 1] = MoveSlot(p, q, (n + 1) - 1, moved[(n + 1) - 1])
    BY <1>2, <2>1 DEF Obeys
  <2>3. f[n + 1] = MoveSlot(p, q, (n + 1) - 1, f[(n + 1) - 1])
    BY <2>1 DEF Obeys
  <2>4. moved[n] = f[n]
    BY <1>5
  <2> QED BY <2>1, <2>2, <2>3, <2>4
<1>6. 0 .. N \subseteq S
  <2> HIDE DEF S
  <2> QED BY <1>1, <1>4, <1>5, CountUp
<1> QED BY <1>1, <1>3, <1>6

\* The recursion has a solution: a longer one for each that stops before.
LEMMA TheLoopEnds ==
    ASSUME NEW p, NEW q, NEW b
    PROVE  \E f : Obeys(p, q, b, f)
<1> DEFINE N == TRADE_SLOT_TRADED_COUNT
           Upto(m, f) == f = [n \in 0 .. m |->
                                 IF n = 0 THEN b ELSE MoveSlot(p, q, n - 1, f[n - 1])]
           S == {m \in 0 .. N : \E f : Upto(m, f)}
<1>1. N \in Nat
  BY CountAssumption
<1>2. 0 \in S
  <2> DEFINE f == [n \in 0 .. 0 |-> b]
  <2>1. f = [n \in 0 .. 0 |-> IF n = 0 THEN b ELSE MoveSlot(p, q, n - 1, f[n - 1])]
    OBVIOUS
  <2> HIDE DEF f
  <2>2. Upto(0, f)
    BY <2>1
  <2>3. 0 \in 0 .. N
    BY <1>1
  <2> QED BY <2>2, <2>3
<1>3. ASSUME NEW m \in 0 .. N - 1, m \in S
      PROVE  m + 1 \in S
  <2>1. PICK f : Upto(m, f)
    BY <1>3
  <2> DEFINE g == [n \in 0 .. m + 1 |-> IF n = m + 1 THEN MoveSlot(p, q, m, f[m]) ELSE f[n]]
  <2>2. m + 1 \in 0 .. N /\ m \in Nat
    BY <1>1
  <2>3. \A n \in 0 .. m : f[n] = IF n = 0 THEN b ELSE MoveSlot(p, q, n - 1, f[n - 1])
    BY <2>1
  <2>4. /\ g[m + 1] = MoveSlot(p, q, m, f[m])
        /\ \A n \in 0 .. m : g[n] = f[n]
        /\ g = [n \in 0 .. m + 1 |-> g[n]]
    BY <2>2
  <2> HIDE DEF g
  <2>5. ASSUME NEW n \in 0 .. m + 1
        PROVE  g[n] = IF n = 0 THEN b ELSE MoveSlot(p, q, n - 1, g[n - 1])
    <3>1. CASE n = m + 1
      <4>1. n # 0 /\ n - 1 = m /\ m \in 0 .. m
        BY <2>2, <3>1
      <4>2. g[n - 1] = f[m]
        BY <2>4, <4>1
      <4> QED BY <2>4, <3>1, <4>1, <4>2
    <3>2. CASE n # m + 1 /\ n # 0
      <4>1. n \in 0 .. m /\ n - 1 \in 0 .. m
        BY <2>2, <3>2
      <4>2. g[n] = f[n] /\ g[n - 1] = f[n - 1]
        BY <2>4, <4>1
      <4> QED BY <2>3, <3>2, <4>1, <4>2
    <3>3. CASE n = 0
      <4>1. n \in 0 .. m
        BY <2>2, <3>3
      <4> QED BY <2>3, <2>4, <3>3, <4>1
    <3> QED BY <3>1, <3>2, <3>3
  <2>6. Upto(m + 1, g)
    BY <2>4, <2>5
  <2> HIDE DEF Upto
  <2> QED BY <2>2, <2>6
<1>4. N \in S
  <2>1. N \in 0 .. N
    BY <1>1
  <2> HIDE DEF S
  <2> QED BY <1>1, <1>2, <1>3, <2>1, CountUp
<1>5. PICK f : Upto(N, f)
  BY <1>4
<1> QED BY <1>5 DEF Obeys

-----------------------------------------------------------------------------
(* Possessions and offers *)

Owned ==
    /\ gold \in [Players -> 0 .. MAX_MONEY_AMOUNT - 1]
    /\ bags \in [Players -> SUBSET Items]
    /\ worn \in [Players -> SUBSET Items]
    /\ NothingDuplicated

OfferRec == [items : [Slots -> Items \cup {NoItem}], money : Nat, spell : BOOLEAN]

\* An item is offered in one slot only.
OfferedOnce(o) ==
    \A r, s \in Slots : o.items[r] = o.items[s] => r = s \/ o.items[r] = NoItem

Offered ==
    /\ offer \in [Players -> OfferRec]
    /\ \A p \in Players : OfferedOnce(offer[p])

BInv == IInv /\ Owned /\ Offered

\* The item of a slot is one of its owner's, or none.
LEMMA ItemOfSlot ==
    ASSUME BInv, NEW p \in Players, NEW s \in Slots
    PROVE  /\ GetItem(p, s) \in Has(p) \cup {NoItem}
           /\ GetItem(p, s) # NoItem => GetItem(p, s) = offer[p].items[s]
           /\ s \in TradedSlots /\ GetItem(p, s) # NoItem => GetItem(p, s) \in InTrade(p)
  BY DEF GetItem, InTrade

LEMMA InTradeIsOwned ==
    ASSUME BInv, NEW p \in Players
    PROVE  /\ InTrade(p) \subseteq Has(p)
           /\ Has(p) \subseteq Items /\ bags[p] \subseteq Items /\ worn[p] \subseteq Items
           /\ NoItem \notin Has(p)
  BY NullAssumption DEF InTrade, GetItem, BInv, Owned, Has

\* What p gives in the slots before n.
Given(p, n) == {GetItem(p, s) : s \in 0 .. n - 1} \ {NoItem}

LEMMA GivenGrows ==
    ASSUME BInv, NEW p \in Players, NEW n \in TradedSlots
    PROVE  /\ Given(p, 0) = {}
           /\ Given(p, TRADE_SLOT_TRADED_COUNT) = InTrade(p)
           /\ Given(p, n + 1) = IF GetItem(p, n) = NoItem THEN Given(p, n)
                                ELSE Given(p, n) \cup {GetItem(p, n)}
           /\ GetItem(p, n) \notin Given(p, n)
           /\ Given(p, n) \subseteq InTrade(p)
<1>0. /\ n \in Nat /\ n \in 0 .. TRADE_SLOT_TRADED_COUNT - 1
      /\ TRADE_SLOT_TRADED_COUNT \in Nat
      /\ TradedSlots \subseteq Slots
  BY CountAssumption DEF TradedSlots, Slots
<1>1. Given(p, 0) = {}
  BY DEF Given
<1>2. Given(p, TRADE_SLOT_TRADED_COUNT) = InTrade(p)
  BY DEF Given, InTrade, TradedSlots
<1>3. 0 .. (n + 1) - 1 = (0 .. n - 1) \cup {n}
  BY <1>0
<1>4. Given(p, n + 1) = IF GetItem(p, n) = NoItem THEN Given(p, n)
                        ELSE Given(p, n) \cup {GetItem(p, n)}
  BY <1>3 DEF Given
<1>5. 0 .. n - 1 \subseteq TradedSlots /\ n \notin 0 .. n - 1
  BY <1>0 DEF TradedSlots
<1>6. GetItem(p, n) \notin Given(p, n)
  <2> SUFFICES ASSUME NEW s \in 0 .. n - 1, GetItem(p, s) = GetItem(p, n), GetItem(p, n) # NoItem
               PROVE  FALSE
    BY DEF Given
  <2>1. s \in Slots /\ n \in Slots /\ s # n
    BY <1>0, <1>5
  <2>2. offer[p].items[s] = offer[p].items[n] /\ offer[p].items[s] # NoItem
    BY <2>1, ItemOfSlot
  <2> QED BY <2>1, <2>2 DEF BInv, Offered, OfferedOnce
<1>7. Given(p, n) \subseteq InTrade(p)
  BY <1>5 DEF Given, InTrade
<1> QED BY <1>1, <1>2, <1>4, <1>6, <1>7

-----------------------------------------------------------------------------
(* The exchange *)

\* There is a place for each item of p in the bags of q, while those before it
\* have been stored.
LEMMA RoomForEach ==
    ASSUME BInv, NEW p \in Players, NEW q \in Players, p # q,
           Cardinality(bags[q] \ InTrade(q)) + Cardinality(InTrade(p)) <= Room,
           NEW n \in TradedSlots, GetItem(p, n) # NoItem
    PROVE  Cardinality((bags[q] \ InTrade(q)) \cup Given(p, n)) < Room
<1> DEFINE Q == bags[q] \ InTrade(q)
           X == Q \cup Given(p, n)
           i == GetItem(p, n)
<1>1. Given(p, n) \subseteq InTrade(p) /\ i \notin Given(p, n)
  BY GivenGrows
<1>2. n \in Slots
  BY DEF Slots
<1>3. i \in InTrade(p) /\ i \in Has(p)
  BY <1>2, ItemOfSlot, InTradeIsOwned
<1>4. i \notin Q
  BY <1>3 DEF BInv, Owned, NothingDuplicated, Has
<1>5. IsFiniteSet(Q) /\ IsFiniteSet(InTrade(p)) /\ IsFiniteSet(X)
  <2>1. Q \subseteq Items /\ InTrade(p) \subseteq Items /\ X \subseteq Items
    BY <1>1, InTradeIsOwned
  <2> HIDE DEF Q, X
  <2> QED BY <2>1, ItemsAssumption, FS_Subset
<1>6. /\ Cardinality(Q) \in Nat /\ Cardinality(InTrade(p)) \in Nat /\ Cardinality(X) \in Nat
      /\ IsFiniteSet(X \cup {i}) /\ Cardinality(X \cup {i}) = Cardinality(X) + 1
  <2>1. i \notin X
    BY <1>1, <1>4
  <2> HIDE DEF X, i, Q
  <2> QED BY <1>5, <2>1, FS_CardinalityType, FS_AddElement
<1>7. /\ IsFiniteSet(Q \cup InTrade(p))
      /\ Cardinality(Q \cup InTrade(p)) <= Cardinality(Q) + Cardinality(InTrade(p))
      /\ Cardinality(Q \cup InTrade(p)) \in Nat
  <2> HIDE DEF Q
  <2>1. /\ IsFiniteSet(Q \cup InTrade(p))
        /\ Cardinality(Q \cup InTrade(p)) =
              Cardinality(Q) + Cardinality(InTrade(p)) - Cardinality(Q \cap InTrade(p))
    BY <1>5, FS_Union
  <2>2. Cardinality(Q \cap InTrade(p)) \in Nat
    BY <1>5, FS_Intersection, FS_CardinalityType
  <2> QED BY <1>6, <2>1, <2>2, FS_CardinalityType
<1>8. Cardinality(X \cup {i}) <= Cardinality(Q \cup InTrade(p))
  <2>1. X \cup {i} \subseteq Q \cup InTrade(p)
    BY <1>1, <1>3
  <2> HIDE DEF X, i, Q
  <2> QED BY <1>7, <2>1, FS_Subset
<1>9. Room \in Nat
  BY CountAssumption
<1> HIDE DEF X, i, Q
<1>10. Cardinality(X) < Room
  <2>1. Cardinality(Q) + Cardinality(InTrade(p)) <= Room
    BY DEF Q
  <2> QED BY <1>6, <1>7, <1>8, <1>9, <2>1
<1> QED BY <1>10 DEF X, Q

Fits(p, q) ==
    /\ Cardinality(bags[p] \ InTrade(p)) + Cardinality(InTrade(q)) <= Room
    /\ Cardinality(bags[q] \ InTrade(q)) + Cardinality(InTrade(p)) <= Room

\* What p keeps of its bags, and of what it wears or has in the bank.
Free(p) == bags[p] \ InTrade(p)
Kept(p) == worn[p] \ InTrade(p)

\* If the limit allows all together, it allows each item of p when q has stored
\* those before it.
LEMMA LimitForEach ==
    ASSUME BInv, NEW p \in Players, NEW q \in Players, p # q, LimitAllows(q, p),
           NEW n \in TradedSlots, GetItem(p, n) \in Limited
    PROVE  Cardinality((Free(q) \cup Given(p, n) \cup Kept(q)) \cap Limited) < MaxCount
<1> DEFINE X == (Free(q) \cup Given(p, n) \cup Kept(q)) \cap Limited
           Y == ((Has(q) \ InTrade(q)) \cup InTrade(p)) \cap Limited
           i == GetItem(p, n)
<1>1. Given(p, n) \subseteq InTrade(p) /\ i \notin Given(p, n)
  BY GivenGrows
<1>2. i # NoItem /\ n \in Slots
  BY ItemsAssumption, NullAssumption DEF Slots
<1>3. i \in InTrade(p) /\ i \in Has(p)
  BY <1>2, ItemOfSlot, InTradeIsOwned
<1>4. i \notin Free(q) /\ i \notin Kept(q)
  BY <1>3 DEF BInv, Owned, NothingDuplicated, Has, Free, Kept
<1>5. i \notin X /\ X \cup {i} \subseteq Y
  BY <1>1, <1>3, <1>4 DEF Free, Kept, Has
<1>6. Cardinality(Y) <= MaxCount
  BY DEF LimitAllows
<1>7. IsFiniteSet(Y)
  <2>1. Y \subseteq Items
    BY ItemsAssumption
  <2> HIDE DEF Y
  <2> QED BY <2>1, ItemsAssumption, FS_Subset
<1> HIDE DEF X, Y, i
<1>8. IsFiniteSet(X) /\ Cardinality(X \cup {i}) = Cardinality(X) + 1
  <2>1. IsFiniteSet(X)
    BY <1>5, <1>7, FS_Subset
  <2> QED BY <1>5, <2>1, FS_AddElement
<1>9. IsFiniteSet(X \cup {i}) /\ Cardinality(X \cup {i}) <= Cardinality(Y)
  BY <1>5, <1>7, FS_Subset
<1>10. /\ Cardinality(X) \in Nat /\ Cardinality(X \cup {i}) \in Nat /\ Cardinality(Y) \in Nat
       /\ MaxCount \in Nat
  BY <1>7, <1>8, <1>9, FS_CardinalityType, CountAssumption
<1>11. Cardinality(X) < MaxCount
  BY <1>6, <1>8, <1>9, <1>10
<1> QED BY <1>11 DEF X

\* An item that CanStore lets in exceeds neither the places nor the limit.
LEMMA StoredFits ==
    ASSUME NEW S, NEW K, NEW i \in Items, S \subseteq Items, K \subseteq Items,
           Cardinality(S) < Room,
           i \in Limited => Cardinality((S \cup K) \cap Limited) < MaxCount,
           Cardinality((S \cup K) \cap Limited) <= MaxCount
    PROVE  /\ Cardinality(S \cup {i}) <= Room
           /\ Cardinality(((S \cup {i}) \cup K) \cap Limited) <= MaxCount
<1> DEFINE L == (S \cup K) \cap Limited
<1>1. IsFiniteSet(S) /\ IsFiniteSet(L)
  BY ItemsAssumption, FS_Subset
<1>2. Cardinality(S) \in Nat /\ Room \in Nat /\ MaxCount \in Nat /\ Cardinality(L) \in Nat
  BY <1>1, FS_CardinalityType, CountAssumption
<1>3. Cardinality(S \cup {i}) <= Cardinality(S) + 1
  <2>1. CASE i \in S
    <3>1. S \cup {i} = S
      BY <2>1
    <3> QED BY <1>2, <3>1
  <2>2. CASE i \notin S
    <3>1. Cardinality(S \cup {i}) = Cardinality(S) + 1
      BY <1>1, <2>2, FS_AddElement
    <3> QED BY <1>2, <3>1
  <2> QED BY <2>1, <2>2
<1>4. Cardinality(S \cup {i}) \in Nat
  <2>1. IsFiniteSet(S \cup {i})
    BY <1>1, FS_AddElement
  <2> QED BY <2>1, FS_CardinalityType
<1>5. Cardinality(S \cup {i}) <= Room
  BY <1>2, <1>3, <1>4
<1>6. CASE i \notin Limited \/ i \in L
  <2>1. ((S \cup {i}) \cup K) \cap Limited = L
    BY <1>6
  <2> QED BY <1>5, <2>1
<1>7. CASE i \in Limited /\ i \notin L
  <2>1. ((S \cup {i}) \cup K) \cap Limited = L \cup {i}
    BY <1>7
  <2>2. Cardinality(L) < MaxCount
    BY <1>7
  <2> HIDE DEF L
  <2>3. Cardinality(L \cup {i}) = Cardinality(L) + 1
    BY <1>1, <1>7, FS_AddElement
  <2>4. Cardinality(L \cup {i}) <= MaxCount
    BY <1>2, <2>2, <2>3
  <2> QED BY <1>5, <2>1, <2>4
<1> QED BY <1>6, <1>7

\* Bags that fill up go on refusing.
LEMMA StillRefuses ==
    ASSUME NEW p, NEW b, NEW c, NEW i, b[p] \subseteq c[p], c[p] \subseteq Items,
           Kept(p) \subseteq Items, ~CanStore(b, p, i)
    PROVE  ~CanStore(c, p, i)
<1> DEFINE X == (b[p] \cup Kept(p)) \cap Limited
           Y == (c[p] \cup Kept(p)) \cap Limited
<1>1. IsFiniteSet(c[p]) /\ IsFiniteSet(Y) /\ X \subseteq Y
  BY ItemsAssumption, FS_Subset
<1>2. /\ IsFiniteSet(b[p]) /\ Cardinality(b[p]) <= Cardinality(c[p])
      /\ IsFiniteSet(X) /\ Cardinality(X) <= Cardinality(Y)
  <2> HIDE DEF X, Y
  <2> QED BY <1>1, FS_Subset
<1>3. /\ Cardinality(b[p]) \in Nat /\ Cardinality(c[p]) \in Nat
      /\ Cardinality(X) \in Nat /\ Cardinality(Y) \in Nat
      /\ Room \in Nat /\ MaxCount \in Nat
  BY <1>1, <1>2, FS_CardinalityType, CountAssumption
<1>4. i # NoItem /\ (Cardinality(b[p]) < Room => i \in Limited /\ ~(Cardinality(X) < MaxCount))
  BY DEF CanStore, Kept
<1> HIDE DEF X, Y
<1>5. Cardinality(c[p]) < Room => i \in Limited /\ ~(Cardinality(Y) < MaxCount)
  BY <1>2, <1>3, <1>4
<1> QED BY <1>4, <1>5 DEF CanStore, Kept, Y

\* A slot whose turn is over: see Swapped and Returned.
Back(p, q, b, s) ==
    /\ GetItem(p, s) \notin b[q]
    /\ GetItem(p, s) \in b[p] \/ ~CanStore(b, p, GetItem(p, s)) \/ GetItem(p, s) = NoItem

Done(p, q, b, s) ==
    \/ GetItem(p, s) \in b[q] \cup {NoItem} /\ GetItem(q, s) \in b[p] \cup {NoItem}
    \/ Back(p, q, b, s) /\ Back(q, p, b, s)

\* One player's bags when the slots before n have had their turn.
Side(p, q, b, n) ==
    /\ Free(p) \subseteq b[p]
    /\ b[p] \subseteq Free(p) \cup Given(p, n) \cup Given(q, n)
    /\ Cardinality(b[p]) <= Room
    /\ Cardinality((b[p] \cup Kept(p)) \cap Limited) <= MaxCount

\* The invariant of the loop.
Moving(p, q, b, n) ==
    /\ b \in [Players -> SUBSET Items]
    /\ \A r \in Players \ {p, q} : b[r] = bags[r]
    /\ Side(p, q, b, n) /\ Side(q, p, b, n)
    /\ b[p] \cap b[q] = {}
    /\ \A s \in 0 .. n - 1 : Done(p, q, b, s)
    /\ LimitAllows(p, q) /\ LimitAllows(q, p) =>
          b[p] = Free(p) \cup Given(q, n) /\ b[q] = Free(q) \cup Given(p, n)

Of(i) == {i} \ {NoItem}

\* Store, when it is known what fits.
LEMMA StoreIs ==
    ASSUME NEW b \in [Players -> SUBSET Items], NEW p \in Players,
           NEW i \in Items \cup {NoItem}
    PROVE  /\ Store(b, p, i) \in [Players -> SUBSET Items]
           /\ \A r \in Players \ {p} : Store(b, p, i)[r] = b[r]
           /\ Store(b, p, i)[p] = IF CanStore(b, p, i) THEN b[p] \cup Of(i) ELSE b[p]
  BY DEF Store, Of

\* The items of a slot change hands, or go back as far as there is room.
Turned(p, q, b, c, mine, his) ==
    \/ /\ CanStore(b, q, mine) /\ CanStore(b, p, his)
       /\ c[q] = b[q] \cup Of(mine) /\ c[p] = b[p] \cup Of(his)
    \/ /\ ~(CanStore(b, q, mine) /\ CanStore(b, p, his))
       /\ c[p] = IF CanStore(b, p, mine) THEN b[p] \cup Of(mine) ELSE b[p]
       /\ c[q] = IF CanStore(b, q, his) THEN b[q] \cup Of(his) ELSE b[q]

\* One turn of moveItems does so.
LEMMA OneTurn ==
    ASSUME NEW p \in Players, NEW q \in Players, p # q, NEW s,
           NEW b \in [Players -> SUBSET Items],
           GetItem(p, s) \in Items \cup {NoItem}, GetItem(q, s) \in Items \cup {NoItem},
           NEW c, c = MoveSlot(p, q, s, b)
    PROVE  /\ c \in [Players -> SUBSET Items]
           /\ \A r \in Players \ {p, q} : c[r] = b[r]
           /\ Turned(p, q, b, c, GetItem(p, s), GetItem(q, s))
<1> DEFINE mine == GetItem(p, s)
           his == GetItem(q, s)
<1>0. mine \in Items \cup {NoItem} /\ his \in Items \cup {NoItem}
  OBVIOUS
<1>1. CASE CanStore(b, q, mine) /\ CanStore(b, p, his)
  <2> DEFINE d == Store(b, q, mine)
  <2>1. c = Store(d, p, his)
    BY <1>1 DEF MoveSlot
  <2>2. /\ d \in [Players -> SUBSET Items] /\ d[q] = b[q] \cup Of(mine)
        /\ \A r \in Players \ {q} : d[r] = b[r]
    <3>1. /\ d \in [Players -> SUBSET Items]
          /\ d[q] = IF CanStore(b, q, mine) THEN b[q] \cup Of(mine) ELSE b[q]
          /\ \A r \in Players \ {q} : d[r] = b[r]
      BY ZenonT(60), <1>0, StoreIs
    <3>2. d[q] = b[q] \cup Of(mine)
      BY Zenon, <1>1, <3>1
    <3> QED BY Zenon, <3>1, <3>2
  <2> HIDE DEF d, mine, his
  <2>3. CanStore(d, p, his)
    BY <1>1, <2>2 DEF CanStore
  <2>4. /\ c \in [Players -> SUBSET Items] /\ c[p] = d[p] \cup Of(his)
        /\ \A r \in Players \ {p} : c[r] = d[r]
    <3>0. d \in [Players -> SUBSET Items] /\ his \in Items \cup {NoItem}
      BY <1>0, <2>2
    <3>1. /\ Store(d, p, his) \in [Players -> SUBSET Items]
          /\ Store(d, p, his)[p] = IF CanStore(d, p, his) THEN d[p] \cup Of(his) ELSE d[p]
          /\ \A r \in Players \ {p} : Store(d, p, his)[r] = d[r]
      BY ZenonT(60), <3>0, StoreIs
    <3>2. Store(d, p, his)[p] = d[p] \cup Of(his)
      BY Zenon, <2>3, <3>1
    <3> QED BY Zenon, <2>1, <3>1, <3>2
  <2>5. /\ c[q] = b[q] \cup Of(mine) /\ c[p] = b[p] \cup Of(his)
        /\ \A r \in Players \ {p, q} : c[r] = b[r]
    BY <2>2, <2>4
  <2>6. Turned(p, q, b, c, mine, his)
    BY <1>1, <2>5 DEF Turned
  <2> QED BY <2>4, <2>5, <2>6 DEF mine, his
<1>2. CASE ~(CanStore(b, q, mine) /\ CanStore(b, p, his))
  <2> DEFINE d == Store(b, p, mine)
  <2>1. c = Store(d, q, his)
    BY <1>2 DEF MoveSlot
  <2>2. /\ d \in [Players -> SUBSET Items]
        /\ d[p] = IF CanStore(b, p, mine) THEN b[p] \cup Of(mine) ELSE b[p]
        /\ \A r \in Players \ {p} : d[r] = b[r]
    BY ZenonT(60), <1>0, StoreIs
  <2> HIDE DEF d, mine, his
  <2>3. CanStore(d, q, his) <=> CanStore(b, q, his)
    BY <2>2 DEF CanStore
  <2>4. /\ c \in [Players -> SUBSET Items]
        /\ c[q] = IF CanStore(d, q, his) THEN d[q] \cup Of(his) ELSE d[q]
        /\ \A r \in Players \ {q} : c[r] = d[r]
    <3>0. d \in [Players -> SUBSET Items] /\ his \in Items \cup {NoItem}
      BY <1>0, <2>2
    <3>1. /\ Store(d, q, his) \in [Players -> SUBSET Items]
          /\ Store(d, q, his)[q] = IF CanStore(d, q, his) THEN d[q] \cup Of(his) ELSE d[q]
          /\ \A r \in Players \ {q} : Store(d, q, his)[r] = d[r]
      BY ZenonT(60), <3>0, StoreIs
    <3> QED BY Zenon, <2>1, <3>1
  <2>5. /\ c[p] = IF CanStore(b, p, mine) THEN b[p] \cup Of(mine) ELSE b[p]
        /\ c[q] = IF CanStore(b, q, his) THEN b[q] \cup Of(his) ELSE b[q]
        /\ \A r \in Players \ {p, q} : c[r] = b[r]
    BY <2>2, <2>3, <2>4
  <2>6. Turned(p, q, b, c, mine, his)
    BY Zenon, <1>2, <2>5 DEF Turned
  <2> QED BY <2>4, <2>5, <2>6 DEF mine, his
<1> QED BY <1>1, <1>2

\* The item of a slot is new to the loop.
LEMMA NewItem ==
    ASSUME BInv, NEW p \in Players, NEW q \in Players, p # q, NEW n \in TradedSlots
    PROVE  /\ GetItem(p, n) \in Items \cup {NoItem}
           /\ Given(p, n + 1) = Given(p, n) \cup Of(GetItem(p, n))
           /\ GetItem(p, n) # NoItem =>
                 /\ GetItem(p, n) \in Has(p)
                 /\ GetItem(p, n) \notin Free(p) \cup Given(p, n) \cup Free(q) \cup Given(q, n)
                 /\ GetItem(p, n) # GetItem(q, n)
           /\ \A s \in 0 .. n - 1 : GetItem(p, s) = NoItem \/ GetItem(p, s) \in Given(p, n)
<1>1. n \in Slots
  BY DEF Slots
<1>2. /\ Given(p, n + 1) = IF GetItem(p, n) = NoItem THEN Given(p, n)
                           ELSE Given(p, n) \cup {GetItem(p, n)}
      /\ GetItem(p, n) \notin Given(p, n)
      /\ Given(q, n) \subseteq InTrade(q)
  BY GivenGrows
<1>3. Given(p, n + 1) = Given(p, n) \cup Of(GetItem(p, n))
  BY <1>2 DEF Of
<1>4. /\ InTrade(q) \subseteq Has(q) /\ Has(p) \subseteq Items
      /\ GetItem(q, n) \in Has(q) \cup {NoItem}
  BY <1>1, ItemOfSlot, InTradeIsOwned
<1>5. GetItem(p, n) # NoItem => GetItem(p, n) \in Has(p) /\ GetItem(p, n) \in InTrade(p)
  BY <1>1, ItemOfSlot
<1>6. Has(p) \cap Has(q) = {} /\ Free(q) \subseteq Has(q) /\ Free(p) \cap InTrade(p) = {}
  BY DEF BInv, Owned, NothingDuplicated, Has, Free
<1>7. \A s \in 0 .. n - 1 : GetItem(p, s) = NoItem \/ GetItem(p, s) \in Given(p, n)
  BY DEF Given
<1> QED BY <1>2, <1>3, <1>4, <1>5, <1>6, <1>7

\* What one side stores in a turn.
LEMMA SideKeeps ==
    ASSUME BInv, NEW p \in Players, NEW q \in Players, p # q, NEW n,
           NEW b, NEW c, Side(p, q, b, n), b[p] \subseteq Items,
           NEW i \in Items \cup {NoItem}, i = NoItem \/ i \in Given(p, n + 1) \cup Given(q, n + 1),
           Given(p, n) \subseteq Given(p, n + 1), Given(q, n) \subseteq Given(q, n + 1),
           c[p] = b[p] \/ (CanStore(b, p, i) /\ c[p] = b[p] \cup Of(i))
    PROVE  Side(p, q, c, n + 1)
<1>1. Kept(p) \subseteq Items
  BY InTradeIsOwned DEF Kept
<1>2. CASE c[p] = b[p]
  BY <1>2 DEF Side
<1>3. CASE i # NoItem /\ CanStore(b, p, i) /\ c[p] = b[p] \cup {i}
  <2>1. /\ Cardinality(b[p]) < Room
        /\ i \in Limited => Cardinality((b[p] \cup Kept(p)) \cap Limited) < MaxCount
    BY <1>3 DEF CanStore, Kept
  <2>2. Cardinality((b[p] \cup Kept(p)) \cap Limited) <= MaxCount
    BY DEF Side
  <2>3. i \in Items
    BY <1>3
  <2>4. /\ Cardinality(b[p] \cup {i}) <= Room
        /\ Cardinality(((b[p] \cup {i}) \cup Kept(p)) \cap Limited) <= MaxCount
    BY <1>1, <2>1, <2>2, <2>3, StoredFits
  <2>5. /\ Free(p) \subseteq c[p]
        /\ c[p] \subseteq Free(p) \cup Given(p, n + 1) \cup Given(q, n + 1)
    BY <1>3 DEF Side
  <2> QED BY <1>3, <2>4, <2>5 DEF Side
<1>4. c[p] = b[p] \/ (i # NoItem /\ CanStore(b, p, i) /\ c[p] = b[p] \cup {i})
  BY DEF Of
<1> QED BY <1>2, <1>3, <1>4

\* A slot that has had its turn stays as it is.
LEMMA BackStays ==
    ASSUME NEW p, NEW q, NEW b, NEW c, NEW s, Back(p, q, b, s),
           b[p] \subseteq c[p], c[p] \subseteq Items, Kept(p) \subseteq Items,
           GetItem(p, s) \notin c[q] \ b[q]
    PROVE  Back(p, q, c, s)
  BY StillRefuses DEF Back

\* A turn of the loop keeps its invariant: what the two sides have,
LEMMA TurnMoves ==
    ASSUME BInv, NEW p \in Players, NEW q \in Players, p # q, NEW n \in TradedSlots,
           NEW b, Moving(p, q, b, n), NEW c, c = MoveSlot(p, q, n, b)
    PROVE  /\ c \in [Players -> SUBSET Items]
           /\ \A r \in Players \ {p, q} : c[r] = bags[r]
           /\ Side(p, q, c, n + 1) /\ Side(q, p, c, n + 1)
           /\ c[p] \cap c[q] = {}
<1> DEFINE mine == GetItem(p, n)
           his == GetItem(q, n)
<1>1. /\ b \in [Players -> SUBSET Items] /\ b[p] \subseteq Items /\ b[q] \subseteq Items
      /\ \A r \in Players \ {p, q} : b[r] = bags[r]
      /\ Side(p, q, b, n) /\ Side(q, p, b, n) /\ b[p] \cap b[q] = {}
  BY DEF Moving
<1>2. /\ mine \in Items \cup {NoItem} /\ his \in Items \cup {NoItem}
      /\ Given(p, n + 1) = Given(p, n) \cup Of(mine)
      /\ Given(q, n + 1) = Given(q, n) \cup Of(his)
  BY NewItem
<1>3. /\ mine # NoItem => mine \notin b[p] \cup b[q] /\ mine # his
      /\ his # NoItem => his \notin b[p] \cup b[q]
  <2>1. /\ mine # NoItem => /\ mine # his
                            /\ mine \notin Free(p) \cup Given(p, n) \cup Free(q) \cup Given(q, n)
        /\ his # NoItem => his \notin Free(p) \cup Given(p, n) \cup Free(q) \cup Given(q, n)
    BY NewItem
  <2> HIDE DEF mine, his
  <2> QED BY <1>1, <2>1 DEF Side
<1>4. /\ c \in [Players -> SUBSET Items]
      /\ \A r \in Players \ {p, q} : c[r] = b[r]
      /\ Turned(p, q, b, c, mine, his)
  <2>1. /\ b \in [Players -> SUBSET Items]
        /\ mine \in Items \cup {NoItem} /\ his \in Items \cup {NoItem}
    BY <1>1, <1>2
  <2> HIDE DEF mine, his
  <2>2. \A r \in Players \ {p, q} : c[r] = b[r]
    BY <2>1, OneTurn DEF mine, his
  <2>3. c \in [Players -> SUBSET Items] /\ Turned(p, q, b, c, mine, his)
    BY Zenon, <2>1, OneTurn DEF mine, his
  <2> QED BY <2>2, <2>3
<1> HIDE DEF mine, his
<1>5. c[p] \cap c[q] = {}
  BY <1>1, <1>3, <1>4 DEF Of, Turned
<1>6. PICK i \in {mine, his} : c[p] = b[p] \/ (CanStore(b, p, i) /\ c[p] = b[p] \cup Of(i))
  BY <1>4 DEF Turned
<1>7. PICK j \in {mine, his} : c[q] = b[q] \/ (CanStore(b, q, j) /\ c[q] = b[q] \cup Of(j))
  BY <1>4 DEF Turned
<1>8. /\ Given(p, n) \subseteq Given(p, n + 1) /\ Given(q, n) \subseteq Given(q, n + 1)
      /\ {mine, his} \subseteq Items \cup {NoItem}
      /\ {mine, his} \subseteq Given(p, n + 1) \cup Given(q, n + 1) \cup {NoItem}
  BY <1>2 DEF Of
<1>9. Side(p, q, c, n + 1)
  <2>1. /\ i \in Items \cup {NoItem}
        /\ i = NoItem \/ i \in Given(p, n + 1) \cup Given(q, n + 1)
    BY <1>6, <1>8
  <2> QED BY Zenon, <1>1, <1>6, <1>8, <2>1, SideKeeps
<1>10. Side(q, p, c, n + 1)
  <2>1. /\ j \in Items \cup {NoItem}
        /\ j = NoItem \/ j \in Given(q, n + 1) \cup Given(p, n + 1)
    BY <1>7, <1>8
  <2> QED BY Zenon, <1>1, <1>7, <1>8, <2>1, SideKeeps
<1> QED BY <1>1, <1>4, <1>5, <1>9, <1>10

\* which slots are done,
LEMMA TurnIsDone ==
    ASSUME BInv, NEW p \in Players, NEW q \in Players, p # q, NEW n \in TradedSlots,
           NEW b, Moving(p, q, b, n), NEW c, c = MoveSlot(p, q, n, b)
    PROVE  \A s \in 0 .. n : Done(p, q, c, s)
<1> DEFINE mine == GetItem(p, n)
           his == GetItem(q, n)
<1>1. /\ b \in [Players -> SUBSET Items] /\ b[p] \subseteq Items /\ b[q] \subseteq Items
      /\ Side(p, q, b, n) /\ Side(q, p, b, n)
      /\ \A s \in 0 .. n - 1 : Done(p, q, b, s)
  BY DEF Moving
<1>2. /\ mine \in Items \cup {NoItem} /\ his \in Items \cup {NoItem}
      /\ \A s \in 0 .. n - 1 : GetItem(p, s) = NoItem \/ GetItem(p, s) \in Given(p, n)
      /\ \A s \in 0 .. n - 1 : GetItem(q, s) = NoItem \/ GetItem(q, s) \in Given(q, n)
      /\ mine # NoItem => /\ mine # his
                          /\ mine \notin Free(p) \cup Given(p, n) \cup Free(q) \cup Given(q, n)
      /\ his # NoItem => his \notin Free(p) \cup Given(p, n) \cup Free(q) \cup Given(q, n)
  BY NewItem
<1>3. /\ c \in [Players -> SUBSET Items]
      /\ Turned(p, q, b, c, mine, his)
  BY Zenon, <1>1, <1>2, OneTurn
<1>4. Kept(p) \subseteq Items /\ Kept(q) \subseteq Items
  BY InTradeIsOwned DEF Kept
<1>5. /\ b[p] \subseteq c[p] /\ c[p] \subseteq b[p] \cup Of(mine) \cup Of(his)
      /\ b[q] \subseteq c[q] /\ c[q] \subseteq b[q] \cup Of(mine) \cup Of(his)
      /\ c[p] \subseteq Items /\ c[q] \subseteq Items
  <2> HIDE DEF mine, his
  <2> QED BY <1>3 DEF Turned
<1>6. ASSUME NEW s \in 0 .. n - 1
      PROVE  Done(p, q, c, s)
  <2>1. GetItem(p, s) \notin Of(mine) \cup Of(his) /\ GetItem(q, s) \notin Of(mine) \cup Of(his)
    <3> HIDE DEF mine, his
    <3> QED BY <1>2, <1>6 DEF Of
  <2>2. GetItem(p, s) \notin c[q] \ b[q] /\ GetItem(q, s) \notin c[p] \ b[p]
    BY <1>5, <2>1
  <2>3. Back(p, q, b, s) => Back(p, q, c, s)
    BY <1>4, <1>5, <2>2, BackStays
  <2>4. Back(q, p, b, s) => Back(q, p, c, s)
    BY <1>4, <1>5, <2>2, BackStays
  <2>5. Done(p, q, b, s)
    BY <1>1, <1>6
  <2> QED BY <1>5, <2>3, <2>4, <2>5 DEF Done
<1>7. Done(p, q, c, n)
  <2>1. mine # NoItem => mine \notin b[q]
    BY <1>1, <1>2 DEF Side
  <2>2. his # NoItem => his \notin b[p]
    BY <1>1, <1>2 DEF Side
  <2>3. NoItem \notin c[p] /\ NoItem \notin c[q]
    BY <1>5, NullAssumption
  <2>4. mine # his \/ mine = NoItem
    BY <1>2
  <2>5. CASE c[q] = b[q] \cup Of(mine) /\ c[p] = b[p] \cup Of(his)
    BY <2>5 DEF Of, Done
  <2>6. CASE /\ c[p] = IF CanStore(b, p, mine) THEN b[p] \cup Of(mine) ELSE b[p]
             /\ c[q] = IF CanStore(b, q, his) THEN b[q] \cup Of(his) ELSE b[q]
    <3>1. mine \notin c[q] /\ his \notin c[p]
      <4> HIDE DEF mine, his
      <4> QED BY <2>1, <2>2, <2>3, <2>4, <2>6 DEF Of
    <3>2. mine \in c[p] \/ ~CanStore(c, p, mine) \/ mine = NoItem
      <4>1. ~CanStore(b, p, mine) => ~CanStore(c, p, mine)
        BY <2>6 DEF CanStore
      <4> HIDE DEF mine
      <4> QED BY <2>6, <4>1 DEF Of
    <3>3. his \in c[q] \/ ~CanStore(c, q, his) \/ his = NoItem
      <4>1. ~CanStore(b, q, his) => ~CanStore(c, q, his)
        BY <2>6 DEF CanStore
      <4> HIDE DEF his
      <4> QED BY <2>6, <4>1 DEF Of
    <3> QED BY <3>1, <3>2, <3>3 DEF Done, Back
  <2> QED BY <1>3, <2>5, <2>6 DEF Turned
<1>8. \A s \in 0 .. n : s = n \/ s \in 0 .. n - 1
  BY CountAssumption DEF TradedSlots
<1> QED BY <1>6, <1>7, <1>8

\* and that the limit, if it allows them together, refuses none of the items.
LEMMA TurnSwaps ==
    ASSUME BInv, NEW p \in Players, NEW q \in Players, p # q, Fits(p, q), NEW n \in TradedSlots,
           NEW b, Moving(p, q, b, n), NEW c, c = MoveSlot(p, q, n, b),
           LimitAllows(p, q), LimitAllows(q, p)
    PROVE  c[p] = Free(p) \cup Given(q, n + 1) /\ c[q] = Free(q) \cup Given(p, n + 1)
<1> DEFINE mine == GetItem(p, n)
           his == GetItem(q, n)
<1>1. /\ b \in [Players -> SUBSET Items]
      /\ b[p] = Free(p) \cup Given(q, n) /\ b[q] = Free(q) \cup Given(p, n)
  BY DEF Moving
<1>2. /\ mine \in Items \cup {NoItem} /\ his \in Items \cup {NoItem}
      /\ Given(p, n + 1) = Given(p, n) \cup Of(mine)
      /\ Given(q, n + 1) = Given(q, n) \cup Of(his)
  BY NewItem
<1>3. CanStore(b, q, mine)
  <2>1. mine # NoItem => Cardinality(b[q]) < Room
    BY <1>1, RoomForEach DEF Fits, Free
  <2>2. mine \in Limited => Cardinality((b[q] \cup Kept(q)) \cap Limited) < MaxCount
    BY <1>1, LimitForEach
  <2> QED BY <2>1, <2>2 DEF CanStore, Kept
<1>4. CanStore(b, p, his)
  <2>1. his # NoItem => Cardinality(b[p]) < Room
    BY <1>1, RoomForEach DEF Fits, Free
  <2>2. his \in Limited => Cardinality((b[p] \cup Kept(p)) \cap Limited) < MaxCount
    BY <1>1, LimitForEach
  <2> QED BY <2>1, <2>2 DEF CanStore, Kept
<1>5. c[q] = b[q] \cup Of(mine) /\ c[p] = b[p] \cup Of(his)
  <2>1. Turned(p, q, b, c, mine, his)
    BY Zenon, <1>1, <1>2, OneTurn
  <2> QED BY <1>3, <1>4, <2>1 DEF Turned
<1> HIDE DEF mine, his
<1> QED BY <1>1, <1>2, <1>5

LEMMA TurnKeeps ==
    ASSUME BInv, NEW p \in Players, NEW q \in Players, p # q, Fits(p, q), NEW n \in TradedSlots,
           NEW b, Moving(p, q, b, n)
    PROVE  Moving(p, q, MoveSlot(p, q, n, b), n + 1)
<1>1. PICK c : c = MoveSlot(p, q, n, b)
  OBVIOUS
<1>2. 0 .. (n + 1) - 1 = 0 .. n
  BY CountAssumption DEF TradedSlots
<1>3. \A s \in 0 .. (n + 1) - 1 : Done(p, q, c, s)
  BY <1>1, <1>2, TurnIsDone
<1>4. LimitAllows(p, q) /\ LimitAllows(q, p) =>
         c[p] = Free(p) \cup Given(q, n + 1) /\ c[q] = Free(q) \cup Given(p, n + 1)
  BY <1>1, TurnSwaps
<1>5. /\ c \in [Players -> SUBSET Items]
      /\ \A r \in Players \ {p, q} : c[r] = bags[r]
      /\ Side(p, q, c, n + 1) /\ Side(q, p, c, n + 1)
      /\ c[p] \cap c[q] = {}
  BY <1>1, TurnMoves
<1> QED BY <1>1, <1>3, <1>4, <1>5 DEF Moving

LEMMA Smaller ==
    ASSUME NEW S, NEW T, NEW k \in Nat, IsFiniteSet(T), S \subseteq T, Cardinality(T) <= k
    PROVE  Cardinality(S) <= k
<1>1. IsFiniteSet(S) /\ Cardinality(S) <= Cardinality(T)
  BY FS_Subset
<1>2. Cardinality(S) \in Nat /\ Cardinality(T) \in Nat
  BY <1>1, FS_CardinalityType
<1> QED BY <1>1, <1>2

\* Before the first turn, with the items in trade taken out.
LEMMA TurnsBegin ==
    ASSUME BInv, NEW p \in Players, NEW q \in Players, p # q
    PROVE  Moving(p, q, [bags EXCEPT ![p] = @ \ InTrade(p), ![q] = @ \ InTrade(q)], 0)
<1> DEFINE b == [bags EXCEPT ![p] = @ \ InTrade(p), ![q] = @ \ InTrade(q)]
<1>1. /\ b \in [Players -> SUBSET Items] /\ b[p] = Free(p) /\ b[q] = Free(q)
      /\ \A r \in Players \ {p, q} : b[r] = bags[r]
  BY DEF BInv, Owned, Free
<1>2. Given(p, 0) = {} /\ Given(q, 0) = {} /\ 0 .. 0 - 1 = {}
  BY DEF Given
<1>3. ASSUME NEW r \in Players
      PROVE  /\ Cardinality(Free(r)) <= Room
             /\ Cardinality((Free(r) \cup Kept(r)) \cap Limited) <= MaxCount
  <2>1. /\ bags[r] \subseteq Items /\ Has(r) \subseteq Items
        /\ Cardinality(bags[r]) <= Room /\ Cardinality(Has(r) \cap Limited) <= MaxCount
    BY InTradeIsOwned DEF BInv, Owned, NothingDuplicated
  <2>2. /\ IsFiniteSet(bags[r]) /\ IsFiniteSet(Has(r) \cap Limited)
        /\ Free(r) \subseteq bags[r]
        /\ (Free(r) \cup Kept(r)) \cap Limited \subseteq Has(r) \cap Limited
    BY <2>1, ItemsAssumption, FS_Subset DEF Free, Kept, Has
  <2>3. Room \in Nat /\ MaxCount \in Nat
    BY CountAssumption
  <2> QED BY <2>1, <2>2, <2>3, Smaller
<1>4. Free(p) \cap Free(q) = {}
  BY DEF BInv, Owned, NothingDuplicated, Free, Has
<1> HIDE DEF b
<1>5. Side(p, q, b, 0) /\ Side(q, p, b, 0)
  BY <1>1, <1>3 DEF Side
<1>6. \A s \in 0 .. 0 - 1 : Done(p, q, b, s)
  BY <1>2
<1>7. Moving(p, q, b, 0)
  BY <1>1, <1>2, <1>4, <1>5, <1>6 DEF Moving
<1> QED BY <1>7 DEF b

\* So the invariant holds when the loop has ended.
LEMMA AllMoved ==
    ASSUME BInv, NEW p \in Players, NEW q \in Players, p # q, Fits(p, q)
    PROVE  Moving(p, q,
                  moveItems(p, q, [bags EXCEPT ![p] = @ \ InTrade(p), ![q] = @ \ InTrade(q)]),
                  TRADE_SLOT_TRADED_COUNT)
<1> DEFINE N == TRADE_SLOT_TRADED_COUNT
           b == [bags EXCEPT ![p] = @ \ InTrade(p), ![q] = @ \ InTrade(q)]
<1>1. N \in Nat
  BY CountAssumption
<1>2. PICK f : Obeys(p, q, b, f)
  BY TheLoopEnds
<1>3. Moving(p, q, b, 0)
  BY TurnsBegin
<1>4. moveItems(p, q, b) = f[N]
  BY <1>2, MoveItemsIs
<1> HIDE DEF b
<1> DEFINE S == {n \in 0 .. N : Moving(p, q, f[n], n)}
<1>5. 0 \in S
  <2>1. 0 \in 0 .. N
    BY <1>1
  <2>2. f[0] = b
    BY <1>2, <2>1 DEF Obeys
  <2> QED BY <1>3, <2>1, <2>2
<1>6. ASSUME NEW n \in 0 .. N - 1, n \in S
      PROVE  n + 1 \in S
  <2>1. n + 1 \in 0 .. N /\ n + 1 # 0 /\ (n + 1) - 1 = n /\ n \in TradedSlots
    BY <1>1 DEF TradedSlots
  <2>2. f[n + 1] = MoveSlot(p, q, n, f[n])
    BY <1>2, <2>1 DEF Obeys
  <2>3. Moving(p, q, f[n], n)
    BY <1>6
  <2>4. Moving(p, q, f[n + 1], n + 1)
    BY <2>1, <2>2, <2>3, TurnKeeps
  <2> QED BY <2>1, <2>4
<1>7. N \in S
  <2>1. N \in 0 .. N
    BY <1>1
  <2> HIDE DEF S
  <2> QED BY <1>1, <1>5, <1>6, <2>1, CountUp
<1> QED BY <1>4, <1>7 DEF b

-----------------------------------------------------------------------------
(* The steps that leave the exchange aside *)

LEMMA InitBInv == Init => BInv
<1> SUFFICES ASSUME Init PROVE BInv
  OBVIOUS
<1>1. NoOffer \in OfferRec /\ OfferedOnce(NoOffer)
  BY DEF NoOffer, OfferRec, OfferedOnce
<1>2. Offered
  BY <1>1 DEF Init, Offered
<1>3. Owned
  BY DEF Init, Owned, NothingDuplicated
<1> QED BY <1>2, <1>3, InitIInv DEF BInv

LEMMA OfferWithoutSpell ==
    ASSUME NEW o \in OfferRec
    PROVE  [o EXCEPT !.spell = FALSE] = [items |-> o.items, money |-> o.money, spell |-> FALSE]
<1> DEFINE a == [o EXCEPT !.spell = FALSE]
<1>1. a \in OfferRec
  BY DEF OfferRec
<1>2. a.items = o.items /\ a.money = o.money /\ a.spell = FALSE
  BY DEF OfferRec
<1> HIDE DEF a
<1>3. a = [items |-> a.items, money |-> a.money, spell |-> a.spell]
  BY <1>1 DEF OfferRec
<1> QED BY <1>2, <1>3 DEF a

LEMMA OfferWithItem ==
    ASSUME NEW o \in OfferRec, NEW s \in Slots, NEW i \in Items \cup {NoItem}
    PROVE  [o EXCEPT !.items[s] = i, !.spell = FALSE]
              = [items |-> [o.items EXCEPT ![s] = i], money |-> o.money, spell |-> FALSE]
<1> DEFINE a == [o EXCEPT !.items[s] = i]
<1>1. /\ a = [items |-> [o.items EXCEPT ![s] = i], money |-> o.money, spell |-> o.spell]
      /\ a \in OfferRec
  BY DEF OfferRec
<1> HIDE DEF a
<1>2. [a EXCEPT !.spell = FALSE]
         = [items |-> [o.items EXCEPT ![s] = i], money |-> o.money, spell |-> FALSE]
  BY <1>1, OfferWithoutSpell
<1> QED BY <1>2, Zenon DEF a

\* A slot set to an item that no slot holds, or to none.
LEMMA SetItemOffers ==
    ASSUME BInv, NEW p \in Players, NEW s \in Slots, NEW i \in Items \cup {NoItem},
           i = NoItem \/ \A r \in Slots : offer[p].items[r] # i,
           SetItem(p, s, i)
    PROVE  Offered'
<1> DEFINE o == [offer[p] EXCEPT !.items[s] = i, !.spell = FALSE]
<1>1. offer[p] \in OfferRec /\ OfferedOnce(offer[p])
  BY DEF BInv, Offered
<1>2. /\ o.items = [offer[p].items EXCEPT ![s] = i]
      /\ o = [items |-> [offer[p].items EXCEPT ![s] = i], money |-> offer[p].money, spell |-> FALSE]
  <2>1. o = [items |-> [offer[p].items EXCEPT ![s] = i], money |-> offer[p].money, spell |-> FALSE]
    BY Zenon, <1>1, OfferWithItem
  <2> HIDE DEF o
  <2> QED BY <2>1
<1>3. o \in OfferRec
  BY <1>1, <1>2 DEF OfferRec
<1>4. OfferedOnce(o)
  <2> SUFFICES ASSUME NEW r \in Slots, NEW t \in Slots, o.items[r] = o.items[t],
                      r # t, o.items[r] # NoItem
               PROVE  FALSE
    BY DEF OfferedOnce
  <2>1. \A u \in Slots : o.items[u] = IF u = s THEN i ELSE offer[p].items[u]
    BY <1>1, <1>2 DEF OfferRec
  <2> HIDE DEF o
  <2> QED BY <1>1, <2>1 DEF OfferedOnce
<1>5. \A q \in Players : [offer[q] EXCEPT !.spell = FALSE] \in OfferRec
                         /\ OfferedOnce([offer[q] EXCEPT !.spell = FALSE])
  BY DEF BInv, Offered, OfferRec, OfferedOnce
<1>6. offer' = [q \in Players |->
                    IF q = p THEN o
                    ELSE IF q = trader[p] /\ s = TRADE_SLOT_NONTRADED
                         THEN [offer[q] EXCEPT !.spell = FALSE]
                         ELSE offer[q]]
  BY DEF SetItem
<1> HIDE DEF o
<1> QED BY <1>3, <1>4, <1>5, <1>6 DEF Offered, BInv

LEMMA EditsOffers ==
    ASSUME BInv, NEW p \in Players, Edits(p)
    PROVE  Offered' /\ UNCHANGED owned
<1>1. CASE HandleSetTradeItem(p)
  <2>1. PICK s \in Slots, i \in Has(p) :
          (\A r \in Slots : offer[p].items[r] # i) /\ SetItem(p, s, i)
    BY <1>1 DEF HandleSetTradeItem
  <2>2. i \in Items
    BY <2>1, InTradeIsOwned
  <2> QED BY <2>1, <2>2, SetItemOffers DEF SetItem
<1>2. CASE HandleClearTradeItem(p)
  <2>1. PICK s \in Slots : SetItem(p, s, NoItem)
    BY <1>2 DEF HandleClearTradeItem
  <2> QED BY <2>1, SetItemOffers DEF SetItem
<1>3. CASE HandleSetTradeGold(p)
  <2>1. PICK n \in 0 .. gold[p] : offer' = [offer EXCEPT ![p].money = n]
    BY <1>3 DEF HandleSetTradeGold
  <2>2. n \in Nat
    BY <2>1
  <2>3. /\ [offer[p] EXCEPT !.money = n] \in OfferRec
        /\ OfferedOnce([offer[p] EXCEPT !.money = n])
    BY <2>2 DEF BInv, Offered, OfferRec, OfferedOnce
  <2>4. UNCHANGED owned
    BY <1>3 DEF HandleSetTradeGold
  <2> QED BY <2>1, <2>3, <2>4 DEF Offered, BInv
<1>4. CASE Cast(p) \/ AcceptSpellFails(p)
  <2>1. UNCHANGED owned
    BY <1>4 DEF Cast, AcceptSpellFails
  <2>2. PICK q \in Players, v \in BOOLEAN : offer' = [offer EXCEPT ![q].spell = v]
    <3>1. CASE Cast(p)
      BY <3>1 DEF Cast
    <3>2. CASE AcceptSpellFails(p)
      <4>1. trader[p] # NoPlayer
        BY <3>2 DEF AcceptSpellFails, BothAccept
      <4>2. trader[p] \in Players
        BY <4>1, Partner DEF BInv
      <4> QED BY <3>2, <4>2 DEF AcceptSpellFails
    <3> QED BY <1>4, <3>1, <3>2
  <2>3. /\ [offer[q] EXCEPT !.spell = v] \in OfferRec
        /\ OfferedOnce([offer[q] EXCEPT !.spell = v])
    BY <2>2 DEF BInv, Offered, OfferRec, OfferedOnce
  <2> QED BY <2>1, <2>2, <2>3 DEF Offered, BInv
<1> QED BY <1>1, <1>2, <1>3, <1>4 DEF Edits

\* Windows that open or close leave empty offers.
LEMMA EmptyOffers ==
    ASSUME BInv, NEW p \in Players, NEW q,
           offer' = [offer EXCEPT ![p] = NoOffer, ![q] = NoOffer]
    PROVE  Offered'
<1>1. NoOffer \in OfferRec /\ OfferedOnce(NoOffer)
  BY DEF NoOffer, OfferRec, OfferedOnce
<1> QED BY <1>1 DEF Offered, BInv

LEMMA FiniteBags ==
    ASSUME BInv, NEW p \in Players
    PROVE  /\ IsFiniteSet(bags[p]) /\ Cardinality(bags[p]) \in Nat
           /\ Cardinality(bags[p]) <= Room
           /\ bags[p] \subseteq Items /\ worn[p] \subseteq Items
           /\ bags[p] \cap worn[p] = {}
           /\ IsFiniteSet(Has(p) \cap Limited) /\ Cardinality(Has(p) \cap Limited) <= MaxCount
           /\ Room \in Nat /\ MaxCount \in Nat
<1>1. bags[p] \subseteq Items /\ worn[p] \subseteq Items /\ Has(p) \cap Limited \subseteq Items
  BY ItemsAssumption DEF BInv, Owned
<1>2. IsFiniteSet(bags[p]) /\ IsFiniteSet(Has(p) \cap Limited)
  BY <1>1, ItemsAssumption, FS_Subset
<1> QED BY <1>1, <1>2, FS_CardinalityType, CountAssumption DEF BInv, Owned, NothingDuplicated

LEMMA ItemGoneKeepsOwned ==
    ASSUME BInv, NEW p \in Players, ItemGone(p)
    PROVE  Owned'
<1>1. PICK i : /\ bags' = [bags EXCEPT ![p] = @ \ {i}]
               /\ worn' = [worn EXCEPT ![p] = @ \ {i}]
  BY DEF ItemGone
<1>2. gold' = gold
  BY DEF ItemGone
<1>3. /\ bags' \in [Players -> SUBSET Items] /\ worn' \in [Players -> SUBSET Items]
      /\ \A r \in Players : bags'[r] \subseteq bags[r] /\ worn'[r] \subseteq worn[r]
  BY <1>1 DEF BInv, Owned
<1>4. \A r \in Players : Cardinality(bags'[r]) <= Room
  BY <1>3, FiniteBags, Smaller
<1>5. \A r \in Players : Cardinality(Has(r)' \cap Limited) <= MaxCount
  <2> TAKE r \in Players
  <2>1. Has(r)' \cap Limited \subseteq Has(r) \cap Limited
    BY <1>3 DEF Has
  <2> QED BY <2>1, FiniteBags, Smaller
<1>6. \A r, s \in Players : r # s => Has(r)' \cap Has(s)' = {}
  <2>1. \A r, s \in Players : r # s => Has(r) \cap Has(s) = {}
    BY DEF BInv, Owned, NothingDuplicated
  <2>2. \A r \in Players : Has(r)' \subseteq Has(r)
    BY <1>3 DEF Has
  <2> QED BY <2>1, <2>2
<1>7. \A r, s \in Players : bags'[r] \cap worn'[s] = {}
  <2>1. \A r, s \in Players : bags[r] \cap worn[s] = {}
    BY DEF BInv, Owned, NothingDuplicated
  <2> QED BY <1>3, <2>1
<1>8. /\ gold \in [Players -> 0 .. MAX_MONEY_AMOUNT - 1]
      /\ \A r \in Players : gold'[r] \in 0 .. MAX_MONEY_AMOUNT - 1
  BY <1>2 DEF BInv, Owned
<1> QED BY <1>2, <1>3, <1>4, <1>5, <1>6, <1>7, <1>8 DEF Owned, NothingDuplicated

LEMMA WearKeepsOwned ==
    ASSUME BInv, NEW p \in Players, Wear(p)
    PROVE  Owned'
<1>1. gold' = gold
  BY DEF Wear
<1>2. PICK i \in Has(p) :
        \/ /\ i \in bags[p]
           /\ bags' = [bags EXCEPT ![p] = @ \ {i}]
           /\ worn' = [worn EXCEPT ![p] = @ \cup {i}]
        \/ /\ i \in worn[p] /\ Cardinality(bags[p]) < Room
           /\ bags' = [bags EXCEPT ![p] = @ \cup {i}]
           /\ worn' = [worn EXCEPT ![p] = @ \ {i}]
  BY DEF Wear, Has
<1>3. i \in Items
  BY <1>2, InTradeIsOwned
<1>4. /\ bags' \in [Players -> SUBSET Items] /\ worn' \in [Players -> SUBSET Items]
      /\ \A r \in Players \ {p} : bags'[r] = bags[r] /\ worn'[r] = worn[r]
      /\ bags'[p] \cup worn'[p] = Has(p)
      /\ bags'[p] \cap worn'[p] = {}
  <2>1. /\ bags \in [Players -> SUBSET Items] /\ worn \in [Players -> SUBSET Items]
        /\ bags[p] \cap worn[p] = {}
    BY FiniteBags DEF BInv, Owned
  <2>2. CASE /\ i \in bags[p]
             /\ bags' = [bags EXCEPT ![p] = @ \ {i}]
             /\ worn' = [worn EXCEPT ![p] = @ \cup {i}]
    BY <1>3, <2>1, <2>2 DEF Has
  <2>3. CASE /\ i \in worn[p]
             /\ bags' = [bags EXCEPT ![p] = @ \cup {i}]
             /\ worn' = [worn EXCEPT ![p] = @ \ {i}]
    BY <1>3, <2>1, <2>3 DEF Has
  <2> QED BY <1>2, <2>2, <2>3
<1>5. \A r \in Players : bags'[r] \cup worn'[r] = Has(r)
  BY <1>4 DEF Has
<1>6. Cardinality(bags'[p]) <= Room
  <2>1. CASE i \in bags[p] /\ bags' = [bags EXCEPT ![p] = @ \ {i}]
    <3>1. bags'[p] \subseteq bags[p]
      BY <2>1 DEF BInv, Owned
    <3> QED BY <3>1, FiniteBags, Smaller
  <2>2. CASE /\ i \in worn[p] /\ Cardinality(bags[p]) < Room
             /\ bags' = [bags EXCEPT ![p] = @ \cup {i}]
    <3>1. bags'[p] = bags[p] \cup {i} /\ i \notin bags[p]
      BY <2>2, FiniteBags DEF BInv, Owned
    <3>2. Cardinality(bags'[p]) = Cardinality(bags[p]) + 1
      BY <3>1, FiniteBags, FS_AddElement
    <3>3. Room \in Nat /\ Cardinality(bags[p]) \in Nat
      BY FiniteBags
    <3> QED BY <2>2, <3>2, <3>3
  <2> QED BY <1>2, <2>1, <2>2
<1>7. \A r, s \in Players : r # s => Has(r) \cap Has(s) = {}
  BY DEF BInv, Owned, NothingDuplicated
<1>8. \A r, s \in Players : bags'[r] \cap worn'[s] = {}
  <2>1. \A r \in Players : bags'[r] \cap worn'[r] = {}
    BY <1>4, FiniteBags
  <2> QED BY <2>1, <1>5, <1>7
<1>9. \A r \in Players : Cardinality(bags'[r]) <= Room
  BY <1>4, <1>6, FiniteBags
<1>10. \A r, s \in Players : r # s => Has(r)' \cap Has(s)' = {}
  BY <1>5, <1>7 DEF Has
<1>11. \A r \in Players : Cardinality(Has(r)' \cap Limited) <= MaxCount
  <2> TAKE r \in Players
  <2>1. Has(r)' = Has(r)
    BY <1>5 DEF Has
  <2> QED BY <2>1, FiniteBags
<1> QED BY <1>1, <1>4, <1>8, <1>9, <1>10, <1>11 DEF BInv, Owned, NothingDuplicated

LEMMA MoneyChangesKeepsOwned ==
    ASSUME BInv, NEW p \in Players, MoneyChanges(p)
    PROVE  Owned'
<1>1. PICK n \in 0 .. MAX_MONEY_AMOUNT - 1 : gold' = [gold EXCEPT ![p] = n]
  BY DEF MoneyChanges
<1>2. bags' = bags /\ worn' = worn
  BY DEF MoneyChanges
<1> QED BY <1>1, <1>2 DEF BInv, Owned, NothingDuplicated, Has

-----------------------------------------------------------------------------
(* The exchange as one step *)

\* What is paid and received is all of what was offered.
LEMMA MoneyMoves ==
    ASSUME NEW n \in 0 .. MAX_MONEY_AMOUNT - 1, NEW mine \in Nat, NEW his \in Nat,
           ~(n < mine), ~(n >= MAX_MONEY_AMOUNT - his)
    PROVE  /\ ModifyMoney(ModifyMoney(n, -mine), his) = n - mine + his
           /\ n - mine + his \in 0 .. MAX_MONEY_AMOUNT - 1
<1>1. MAX_MONEY_AMOUNT \in Nat
  BY CountAssumption
<1>2. ModifyMoney(n, -mine) = n - mine
  BY <1>1 DEF ModifyMoney
<1>3. ModifyMoney(n - mine, his) = n - mine + his
  BY <1>1 DEF ModifyMoney
<1> QED BY <1>1, <1>2, <1>3

\* A completed acceptance, item by item and coin by coin.
LEMMA Completed ==
    ASSUME BInv, NEW p \in Players, AcceptCompletes(p)
    PROVE  /\ trader[p] \in Players /\ trader[p] # p /\ trader[trader[p]] = p
           /\ trader[p] # NoPlayer /\ accepted[trader[p]]
           /\ Moving(p, trader[p], bags', TRADE_SLOT_TRADED_COUNT)
           /\ worn' = [worn EXCEPT ![p] = @ \ InTrade(p),
                                   ![trader[p]] = @ \ InTrade(trader[p])]
           /\ gold' = [gold EXCEPT ![p] = @ - offer[p].money + offer[trader[p]].money,
                                   ![trader[p]] = @ - offer[trader[p]].money + offer[p].money]
           /\ gold' \in [Players -> 0 .. MAX_MONEY_AMOUNT - 1]
           /\ DeleteBoth(p)
<1> DEFINE q == trader[p]
<1>1. /\ q \in Players /\ q # p /\ trader[q] = p /\ q # NoPlayer /\ accepted[q]
      /\ MoneyFits(p)
  BY Partner DEF AcceptCompletes, BothAccept, BInv
<1>2. Fits(p, q)
  BY <1>1 DEF AcceptCompletes, CanStoreItems, Fits
<1>3. Moving(p, q, bags', TRADE_SLOT_TRADED_COUNT)
  BY <1>1, <1>2, AllMoved DEF AcceptCompletes
<1>4. worn' = [worn EXCEPT ![p] = @ \ InTrade(p), ![q] = @ \ InTrade(q)]
  BY DEF AcceptCompletes
<1>5. /\ offer[p].money \in Nat /\ offer[q].money \in Nat
      /\ gold \in [Players -> 0 .. MAX_MONEY_AMOUNT - 1]
  BY <1>1 DEF BInv, Offered, OfferRec, Owned
<1>6. /\ ModifyMoney(ModifyMoney(gold[p], -offer[p].money), offer[q].money)
            = gold[p] - offer[p].money + offer[q].money
      /\ gold[p] - offer[p].money + offer[q].money \in 0 .. MAX_MONEY_AMOUNT - 1
  BY <1>1, <1>5, MoneyMoves DEF MoneyFits, NotEnough, TooMuch
<1>7. /\ ModifyMoney(ModifyMoney(gold[q], -offer[q].money), offer[p].money)
            = gold[q] - offer[q].money + offer[p].money
      /\ gold[q] - offer[q].money + offer[p].money \in 0 .. MAX_MONEY_AMOUNT - 1
  BY <1>1, <1>5, MoneyMoves DEF MoneyFits, NotEnough, TooMuch
<1>8. gold' = [gold EXCEPT
                   ![p] = ModifyMoney(ModifyMoney(@, -offer[p].money), offer[q].money),
                   ![q] = ModifyMoney(ModifyMoney(@, -offer[q].money), offer[p].money)]
  BY DEF AcceptCompletes
<1>9. /\ gold' = [gold EXCEPT ![p] = @ - offer[p].money + offer[q].money,
                              ![q] = @ - offer[q].money + offer[p].money]
      /\ gold' \in [Players -> 0 .. MAX_MONEY_AMOUNT - 1]
  BY <1>1, <1>5, <1>6, <1>7, <1>8
<1>10. DeleteBoth(p)
  BY DEF AcceptCompletes
<1> QED BY <1>1, <1>3, <1>4, <1>9, <1>10

\* What each side has afterwards.
LEMMA AfterExchange ==
    ASSUME BInv, NEW p \in Players, AcceptCompletes(p), NEW q \in Players, q = trader[p]
    PROVE  /\ q # p /\ bags' \in [Players -> SUBSET Items]
           /\ Side(p, q, bags', TRADE_SLOT_TRADED_COUNT)
           /\ Side(q, p, bags', TRADE_SLOT_TRADED_COUNT)
           /\ bags'[p] \cap bags'[q] = {}
           /\ worn'[p] = Kept(p) /\ worn'[q] = Kept(q)
           /\ gold'[p] = gold[p] - offer[p].money + offer[q].money
           /\ gold'[q] = gold[q] - offer[q].money + offer[p].money
           /\ Has(p)' = bags'[p] \cup Kept(p) /\ Has(q)' = bags'[q] \cup Kept(q)
           /\ \A r \in Players \ {p, q} : /\ bags'[r] = bags[r] /\ worn'[r] = worn[r]
                                         /\ Has(r)' = Has(r) /\ gold'[r] = gold[r]
<1>1. /\ q # p /\ Moving(p, q, bags', TRADE_SLOT_TRADED_COUNT)
      /\ worn' = [worn EXCEPT ![p] = @ \ InTrade(p), ![q] = @ \ InTrade(q)]
      /\ gold' = [gold EXCEPT ![p] = @ - offer[p].money + offer[q].money,
                              ![q] = @ - offer[q].money + offer[p].money]
  BY Completed
<1>2. /\ worn \in [Players -> SUBSET Items]
      /\ gold \in [Players -> 0 .. MAX_MONEY_AMOUNT - 1]
  BY DEF BInv, Owned
<1>3. /\ worn'[p] = Kept(p) /\ worn'[q] = Kept(q)
      /\ \A r \in Players \ {p, q} : worn'[r] = worn[r]
  BY <1>1, <1>2 DEF Kept
<1>4. /\ gold'[p] = gold[p] - offer[p].money + offer[q].money
      /\ gold'[q] = gold[q] - offer[q].money + offer[p].money
      /\ \A r \in Players \ {p, q} : gold'[r] = gold[r]
  BY <1>1, <1>2
<1>5. /\ bags' \in [Players -> SUBSET Items]
      /\ \A r \in Players \ {p, q} : bags'[r] = bags[r]
      /\ Side(p, q, bags', TRADE_SLOT_TRADED_COUNT)
      /\ Side(q, p, bags', TRADE_SLOT_TRADED_COUNT)
      /\ bags'[p] \cap bags'[q] = {}
  BY <1>1 DEF Moving
<1>6. \A r \in Players : Has(r)' = bags'[r] \cup worn'[r]
  BY DEF Has
<1>7. \A r \in Players \ {p, q} : Has(r)' = Has(r)
  BY <1>3, <1>5, <1>6 DEF Has
<1> QED BY <1>1, <1>3, <1>4, <1>5, <1>6, <1>7

\* Each side has what was not in trade, and only items of the two.
LEMMA SideAfter ==
    ASSUME BInv, NEW p \in Players, NEW q \in Players, p # q, NEW b,
           Side(p, q, b, TRADE_SLOT_TRADED_COUNT)
    PROVE  /\ Has(p) \ InTrade(p) \subseteq b[p] \cup Kept(p)
           /\ b[p] \subseteq Free(p) \cup InTrade(p) \cup InTrade(q)
           /\ b[p] \cup Kept(p) \subseteq Has(p) \cup InTrade(q)
<1>1. /\ Given(p, TRADE_SLOT_TRADED_COUNT) = InTrade(p)
      /\ Given(q, TRADE_SLOT_TRADED_COUNT) = InTrade(q)
  BY DEF Given, InTrade, TradedSlots
<1>2. InTrade(p) \subseteq Has(p)
  BY InTradeIsOwned
<1> QED BY <1>1, <1>2 DEF Side, Free, Kept, Has

LEMMA CompletesKeepsOwned ==
    ASSUME BInv, NEW p \in Players, AcceptCompletes(p)
    PROVE  Owned'
<1>1. PICK q \in Players : q = trader[p]
  BY Completed
<1>2. /\ q # p /\ bags' \in [Players -> SUBSET Items]
      /\ Side(p, q, bags', TRADE_SLOT_TRADED_COUNT)
      /\ Side(q, p, bags', TRADE_SLOT_TRADED_COUNT)
      /\ bags'[p] \cap bags'[q] = {}
      /\ worn'[p] = Kept(p) /\ worn'[q] = Kept(q)
      /\ Has(p)' = bags'[p] \cup Kept(p) /\ Has(q)' = bags'[q] \cup Kept(q)
      /\ \A r \in Players \ {p, q} : /\ bags'[r] = bags[r] /\ worn'[r] = worn[r]
                                    /\ Has(r)' = Has(r)
  BY <1>1, AfterExchange
<1>3. /\ worn' \in [Players -> SUBSET Items]
      /\ gold' \in [Players -> 0 .. MAX_MONEY_AMOUNT - 1]
  BY Completed DEF BInv, Owned
<1>4. /\ bags'[p] \subseteq Free(p) \cup InTrade(p) \cup InTrade(q)
      /\ bags'[q] \subseteq Free(q) \cup InTrade(p) \cup InTrade(q)
      /\ Has(p)' \subseteq Has(p) \cup InTrade(q) /\ Has(q)' \subseteq Has(q) \cup InTrade(p)
  <2>1. /\ bags'[p] \subseteq Free(p) \cup InTrade(p) \cup InTrade(q)
        /\ bags'[p] \cup Kept(p) \subseteq Has(p) \cup InTrade(q)
    BY <1>2, SideAfter
  <2>2. /\ bags'[q] \subseteq Free(q) \cup InTrade(q) \cup InTrade(p)
        /\ bags'[q] \cup Kept(q) \subseteq Has(q) \cup InTrade(p)
    BY <1>2, SideAfter
  <2> QED BY <1>2, <2>1, <2>2
<1>5. /\ InTrade(p) \subseteq Has(p) /\ InTrade(q) \subseteq Has(q)
      /\ Free(p) \subseteq bags[p] /\ Free(q) \subseteq bags[q]
      /\ Kept(p) = worn[p] \ InTrade(p) /\ Kept(q) = worn[q] \ InTrade(q)
  BY InTradeIsOwned DEF Free, Kept
<1>6. \A r, t \in Players : r # t => Has(r) \cap Has(t) = {}
  BY DEF BInv, Owned, NothingDuplicated
<1>7. \A r \in Players : bags[r] \cap worn[r] = {} /\ Has(r) = bags[r] \cup worn[r]
  BY FiniteBags DEF Has
<1>8. \A r, t \in Players : bags'[r] \cap worn'[t] = {}
  <2>1. /\ bags'[p] \cap Kept(p) = {} /\ bags'[p] \cap Kept(q) = {}
        /\ bags'[q] \cap Kept(p) = {} /\ bags'[q] \cap Kept(q) = {}
    BY <1>2, <1>4, <1>5, <1>6, <1>7
  <2>2. ASSUME NEW r \in Players \ {p, q}
        PROVE  /\ Has(r) \cap (Has(p) \cup Has(q)) = {}
               /\ bags'[r] \subseteq Has(r) /\ worn'[r] \subseteq Has(r)
    BY <1>2, <1>6, <1>7
  <2>3. ASSUME NEW r \in Players \ {p, q}
        PROVE  /\ bags'[r] \cap Kept(p) = {} /\ bags'[r] \cap Kept(q) = {}
               /\ worn'[r] \cap bags'[p] = {} /\ worn'[r] \cap bags'[q] = {}
    BY <1>4, <1>5, <1>7, <2>2
  <2>4. \A r, t \in Players \ {p, q} : bags'[r] \cap worn'[t] = {}
    BY <1>2, <1>6, <1>7
  <2> QED BY <1>2, <2>1, <2>3, <2>4
<1>9. \A r, t \in Players : r # t => Has(r)' \cap Has(t)' = {}
  <2>1. Has(p)' \cap Has(q)' = {}
    <3>1. bags'[p] \cap Kept(q) = {} /\ bags'[q] \cap Kept(p) = {}
      BY <1>2, <1>8
    <3>2. Kept(p) \cap Kept(q) = {}
      BY <1>2, <1>5, <1>6, <1>7
    <3> QED BY <1>2, <3>1, <3>2
  <2>2. \A r \in Players \ {p, q} : Has(p)' \cap Has(r)' = {} /\ Has(q)' \cap Has(r)' = {}
    BY <1>2, <1>4, <1>5, <1>6
  <2>3. \A r, t \in Players \ {p, q} : r # t => Has(r)' \cap Has(t)' = {}
    BY <1>2, <1>6
  <2> QED BY <2>1, <2>2, <2>3
<1>10. \A r \in Players : /\ Cardinality(bags'[r]) <= Room
                          /\ Cardinality(Has(r)' \cap Limited) <= MaxCount
  <2>1. /\ Cardinality(bags'[p]) <= Room /\ Cardinality(bags'[q]) <= Room
        /\ Cardinality(Has(p)' \cap Limited) <= MaxCount
        /\ Cardinality(Has(q)' \cap Limited) <= MaxCount
    BY <1>2 DEF Side
  <2>2. \A r \in Players \ {p, q} : /\ Cardinality(bags'[r]) <= Room
                                   /\ Cardinality(Has(r)' \cap Limited) <= MaxCount
    BY <1>2, FiniteBags
  <2> QED BY <2>1, <2>2
<1> QED BY <1>2, <1>3, <1>8, <1>9, <1>10 DEF Owned, NothingDuplicated

-----------------------------------------------------------------------------
(* Every step, and the two theorems *)

\* What happens outside the trades gives nobody an item of another player.
LEMMA KeepsOwned ==
    ASSUME BInv, NEW p \in Players, Keeps(p)
    PROVE  Owned' /\ \A q \in Players : Has(q)' \subseteq Has(q)
<1>1. CASE UNCHANGED owned
  BY <1>1 DEF owned, BInv, Owned, NothingDuplicated, Has
<1>2. CASE ItemGone(p)
  <2>1. \A q \in Players : bags'[q] \subseteq bags[q] /\ worn'[q] \subseteq worn[q]
    BY <1>2 DEF ItemGone, BInv, Owned
  <2> QED BY <1>2, <2>1, ItemGoneKeepsOwned DEF Has
<1>3. CASE Wear(p)
  <2>1. \A q \in Players : bags'[q] \cup worn'[q] = bags[q] \cup worn[q]
    BY <1>3 DEF Wear, BInv, Owned
  <2> QED BY <1>3, <2>1, WearKeepsOwned DEF Has
<1>4. CASE MoneyChanges(p)
  <2>1. bags' = bags /\ worn' = worn
    BY <1>4 DEF MoneyChanges
  <2> QED BY <1>4, <2>1, MoneyChangesKeepsOwned DEF Has
<1>5. \/ UNCHANGED owned
      \/ ItemGone(p) \/ Wear(p) \/ MoneyChanges(p)
  BY DEF Keeps, AcceptWrongMoney, AcceptUntradable, AcceptFirst, AcceptCannotStore,
         HandleUnacceptTrade
<1> QED BY <1>1, <1>2, <1>3, <1>4, <1>5

LEMMA SameOwned ==
    ASSUME BInv, UNCHANGED owned
    PROVE  Owned' /\ \A q \in Players : Has(q)' = Has(q) /\ gold'[q] = gold[q]
  BY DEF owned, BInv, Owned, NothingDuplicated, Has

LEMMA DeletedOffers ==
    ASSUME BInv, NEW p \in Players, DeleteBoth(p)
    PROVE  Offered'
<1>1. offer' = [offer EXCEPT ![p] = NoOffer, ![trader[p]] = NoOffer]
  BY DEF DeleteBoth
<1> QED BY <1>1, EmptyOffers

LEMMA NextKeepsBInv == BInv /\ [Next]_vars => BInv'
<1> SUFFICES ASSUME BInv, [Next]_vars PROVE BInv'
  OBVIOUS
<1>0. IInv'
  BY NextKeepsIInv DEF BInv
<1> SUFFICES Owned' /\ Offered'
  BY <1>0 DEF BInv
<1>1. CASE UNCHANGED vars
  BY <1>1, SameOwned DEF vars, BInv, Offered
<1>2. CASE Next
  <2>1. PICK p \in Players :
              \/ HandleInitiateTrade(p) \/ Cancel(p) \/ Leave(p) \/ Enter(p)
              \/ Edits(p) \/ Keeps(p) \/ AcceptCompletes(p)
    BY <1>2, Steps
  <2>2. CASE HandleInitiateTrade(p)
    <3>1. UNCHANGED owned
      BY <2>2 DEF HandleInitiateTrade
    <3>2. PICK q : offer' = [offer EXCEPT ![p] = NoOffer, ![q] = NoOffer]
      BY <2>2 DEF HandleInitiateTrade
    <3> QED BY <3>1, <3>2, SameOwned, EmptyOffers
  <2>3. CASE Cancel(p) \/ Leave(p)
    <3>1. UNCHANGED owned
      BY <2>3 DEF Cancel, Leave
    <3>2. DeleteBoth(p) \/ UNCHANGED offer
      BY <2>3 DEF Cancel, Leave, TradeCancel
    <3>3. Offered'
      BY <3>2, DeletedOffers DEF Offered, BInv
    <3> QED BY <3>1, <3>3, SameOwned
  <2>4. CASE Enter(p)
    <3>1. UNCHANGED owned /\ UNCHANGED offer
      BY <2>4 DEF Enter
    <3> QED BY <3>1, SameOwned DEF Offered, BInv
  <2>5. CASE Edits(p)
    BY <2>5, EditsOffers, SameOwned
  <2>6. CASE Keeps(p)
    <3>1. UNCHANGED offer
      BY <2>6, KeepsOffers DEF BInv
    <3> QED BY <2>6, <3>1, KeepsOwned DEF Offered, BInv
  <2>7. CASE AcceptCompletes(p)
    <3>1. DeleteBoth(p)
      BY <2>7 DEF AcceptCompletes
    <3> QED BY <2>7, <3>1, DeletedOffers, CompletesKeepsOwned
  <2> QED
    BY <2>1, <2>2, <2>3, <2>4, <2>5, <2>6, <2>7
<1> QED
  BY <1>1, <1>2

LEMMA OwnershipHolds == Spec => []BInv
<1>1. Init => BInv
  BY InitBInv
<1>2. BInv /\ [Next]_vars => BInv'
  BY NextKeepsBInv
<1> QED
  BY <1>1, <1>2, PTL DEF Spec

\* No sequence of offers, losses, movements between bags and equipment, and
\* exchanges puts an item in two places, overfills the bags or takes money out
\* of its range (TradeHandler's moveItems and setAcceptTradeMode, CanStoreItems,
\* ModifyMoney).
THEOREM ItemsAreNeverDuplicated == Spec => []NothingDuplicated
<1>1. BInv => NothingDuplicated
  BY DEF BInv, Owned
<1> QED
  BY <1>1, OwnershipHolds, PTL

\* The step that ExchangeIsWhole speaks of.
Whole ==
    \A p, q \in Players :
        p # q /\ Exchanges(p, q) =>
            /\ trader[p] = q /\ (accepted[p] \/ accepted[q])
            /\ Settled(p, q) /\ Settled(q, p)
            /\ \A s \in TradedSlots :
                  Swapped(p, q, s) \/ (Returned(p, q, s) /\ Returned(q, p, s))
            /\ LimitAllows(p, q) /\ LimitAllows(q, p) =>
                  \A s \in TradedSlots : Swapped(p, q, s)

\* A step that hands out nothing, and that leaves alone the trades or else what
\* everybody has.
LEMMA NothingExchanged ==
    ASSUME BInv, \A q \in Players : Has(q)' \subseteq Has(q),
           UNCHANGED trader \/ UNCHANGED owned
    PROVE  Whole
<1>1. ASSUME NEW p \in Players, NEW q \in Players, p # q
      PROVE  ~Exchanges(p, q)
  <2>1. Has(p) \cap Has(q)' = {}
    BY <1>1 DEF BInv, Owned, NothingDuplicated
  <2>2. UNCHANGED trader \/ <<gold[p], Has(p)>>' = <<gold[p], Has(p)>>
    BY DEF owned, Has
  <2> QED BY <2>1, <2>2 DEF Exchanges
<1> QED BY <1>1 DEF Whole

\* An exchange is between the two partners who accepted.
LEMMA PartnersExchange ==
    ASSUME BInv, NEW r \in Players, AcceptCompletes(r), NEW s \in Players, s = trader[r],
           NEW p \in Players, NEW q \in Players, p # q, Exchanges(p, q)
    PROVE  (p = r /\ q = s) \/ (p = s /\ q = r)
<1>1. /\ r # s /\ trader[s] = r
      /\ trader' = [trader EXCEPT ![r] = NoPlayer, ![s] = NoPlayer]
  BY Completed DEF DeleteBoth
<1>2. InTrade(r) \subseteq Has(r) /\ InTrade(s) \subseteq Has(s)
  BY InTradeIsOwned
<1>3. \A u, v \in Players : u # v => Has(u) \cap Has(v) = {}
  BY DEF BInv, Owned, NothingDuplicated
<1>4. /\ Has(r)' \subseteq Has(r) \cup InTrade(s) /\ Has(s)' \subseteq Has(s) \cup InTrade(r)
      /\ \A u \in Players \ {r, s} : Has(u)' = Has(u) /\ gold'[u] = gold[u]
  <2>1. /\ Side(r, s, bags', TRADE_SLOT_TRADED_COUNT)
        /\ Side(s, r, bags', TRADE_SLOT_TRADED_COUNT)
        /\ Has(r)' = bags'[r] \cup Kept(r) /\ Has(s)' = bags'[s] \cup Kept(s)
        /\ \A u \in Players \ {r, s} : Has(u)' = Has(u) /\ gold'[u] = gold[u]
    BY AfterExchange
  <2>2. Has(r)' \subseteq Has(r) \cup InTrade(s)
    BY <1>1, <2>1, SideAfter
  <2>3. Has(s)' \subseteq Has(s) \cup InTrade(r)
    BY <1>1, <2>1, SideAfter
  <2> QED BY <2>1, <2>2, <2>3
<1>5. CASE Has(p) \cap Has(q)' # {}
  <2>1. q \in {r, s}
    BY <1>3, <1>4, <1>5
  <2>2. CASE q = r
    <3>1. Has(q)' \subseteq Has(r) \cup Has(s)
      BY <1>2, <1>4, <2>2
    <3>2. p \in {r, s}
      BY <1>3, <1>5, <3>1
    <3> QED BY <2>2, <3>2
  <2>3. CASE q = s
    <3>1. Has(q)' \subseteq Has(r) \cup Has(s)
      BY <1>2, <1>4, <2>3
    <3>2. p \in {r, s}
      BY <1>3, <1>5, <3>1
    <3> QED BY <2>3, <3>2
  <2> QED BY <2>1, <2>2, <2>3
<1>6. CASE trader[p] = q /\ trader'[p] # q
  <2>1. p \in {r, s}
    BY <1>1, <1>6 DEF BInv, IInv, Typed
  <2> QED BY <1>1, <1>6, <2>1
<1> QED BY <1>5, <1>6 DEF Exchanges

\* Where the item of a slot is after the exchange, seen from its owner.
LEMMA SlotAfter ==
    ASSUME BInv, NEW p \in Players, NEW q \in Players, p # q, NEW s \in TradedSlots,
           Has(p)' = bags'[p] \cup Kept(p), Has(q)' = bags'[q] \cup Kept(q),
           worn'[p] = Kept(p), InTrade(p)' = {}
    PROVE  /\ GetItem(p, s) \in bags'[q] \cup {NoItem} => GetItem(p, s) \in Has(q)' \cup {NoItem}
           /\ Back(p, q, bags', s) => Returned(p, q, s)
<1>1. s \in Slots
  BY DEF Slots
<1>2. GetItem(p, s) \in Has(p) \cup {NoItem}
  BY <1>1, ItemOfSlot
<1>3. Kept(q) \subseteq Has(q) /\ Has(p) \cap Has(q) = {} /\ NoItem \notin Has(q)
  BY InTradeIsOwned DEF Kept, Has, BInv, Owned, NothingDuplicated
<1>4. GetItem(p, s) \notin Kept(q)
  BY <1>2, <1>3
<1>5. ASSUME Back(p, q, bags', s)
      PROVE  Returned(p, q, s)
  <2>1. GetItem(p, s) \notin Has(q)'
    BY <1>4, <1>5 DEF Back
  <2>2. GetItem(p, s) \in Has(p)' \/ ~CanStore(bags', p, GetItem(p, s)) \/ GetItem(p, s) = NoItem
    BY <1>5 DEF Back
  <2> QED BY <2>1, <2>2 DEF Returned
<1> QED BY <1>5

LEMMA CompletesIsWhole ==
    ASSUME BInv, NEW r \in Players, AcceptCompletes(r)
    PROVE  Whole
<1> DEFINE N == TRADE_SLOT_TRADED_COUNT
<1>1. PICK s \in Players : s = trader[r] /\ trader[s] = r /\ accepted[s] /\ s # r
  BY Completed
<1>2. /\ Side(r, s, bags', N) /\ Side(s, r, bags', N)
      /\ gold'[r] = gold[r] - offer[r].money + offer[s].money
      /\ gold'[s] = gold[s] - offer[s].money + offer[r].money
      /\ worn'[r] = Kept(r) /\ worn'[s] = Kept(s)
      /\ Has(r)' = bags'[r] \cup Kept(r) /\ Has(s)' = bags'[s] \cup Kept(s)
  BY <1>1, AfterExchange
<1>3. Settled(r, s) /\ Settled(s, r)
  <2>1. /\ Has(r) \ InTrade(r) \subseteq bags'[r] \cup Kept(r)
        /\ bags'[r] \cup Kept(r) \subseteq Has(r) \cup InTrade(s)
    BY <1>1, <1>2, SideAfter
  <2>2. /\ Has(s) \ InTrade(s) \subseteq bags'[s] \cup Kept(s)
        /\ bags'[s] \cup Kept(s) \subseteq Has(s) \cup InTrade(r)
    BY <1>1, <1>2, SideAfter
  <2> QED BY <1>2, <2>1, <2>2 DEF Settled
<1>4. /\ Moving(r, s, bags', N)
      /\ offer' = [offer EXCEPT ![r] = NoOffer, ![s] = NoOffer]
  BY <1>1, Completed DEF DeleteBoth
<1>5. InTrade(r)' = {} /\ InTrade(s)' = {}
  <2>1. offer'[r] = NoOffer /\ offer'[s] = NoOffer
    BY <1>4 DEF BInv, Offered
  <2>2. \A t \in TradedSlots : NoOffer.items[t] = NoItem
    BY DEF NoOffer, Slots
  <2> QED BY <2>1, <2>2 DEF InTrade, GetItem
<1>6. \A t \in TradedSlots :
         /\ GetItem(r, t) \in bags'[s] \cup {NoItem} => GetItem(r, t) \in Has(s)' \cup {NoItem}
         /\ GetItem(s, t) \in bags'[r] \cup {NoItem} => GetItem(s, t) \in Has(r)' \cup {NoItem}
         /\ Back(r, s, bags', t) => Returned(r, s, t)
         /\ Back(s, r, bags', t) => Returned(s, r, t)
  BY <1>1, <1>2, <1>5, SlotAfter
<1>7. \A t \in TradedSlots : Swapped(r, s, t) \/ (Returned(r, s, t) /\ Returned(s, r, t))
  <2>1. \A t \in TradedSlots : Done(r, s, bags', t)
    BY <1>4 DEF Moving, TradedSlots
  <2> QED BY <1>6, <2>1 DEF Done, Swapped
<1>8. ASSUME LimitAllows(r, s), LimitAllows(s, r), NEW t \in TradedSlots
      PROVE  Swapped(r, s, t)
  <2>1. bags'[r] = Free(r) \cup Given(s, N) /\ bags'[s] = Free(s) \cup Given(r, N)
    BY <1>4, <1>8 DEF Moving
  <2>2. t \in 0 .. N - 1
    BY <1>8 DEF TradedSlots
  <2>3. /\ GetItem(r, t) \in Given(r, N) \cup {NoItem}
        /\ GetItem(s, t) \in Given(s, N) \cup {NoItem}
    BY <2>2 DEF Given
  <2> QED BY <1>6, <2>1, <2>3 DEF Swapped
<1>9. ASSUME NEW p \in Players, NEW q \in Players, p # q, Exchanges(p, q)
      PROVE  (p = r /\ q = s) \/ (p = s /\ q = r)
  BY <1>1, <1>9, PartnersExchange
<1>10. \A t \in TradedSlots : Swapped(r, s, t) <=> Swapped(s, r, t)
  BY DEF Swapped
<1>11. ASSUME NEW p \in Players, NEW q \in Players, p # q, Exchanges(p, q)
      PROVE  /\ trader[p] = q /\ (accepted[p] \/ accepted[q])
             /\ Settled(p, q) /\ Settled(q, p)
             /\ \A t \in TradedSlots :
                   Swapped(p, q, t) \/ (Returned(p, q, t) /\ Returned(q, p, t))
             /\ LimitAllows(p, q) /\ LimitAllows(q, p) =>
                   \A t \in TradedSlots : Swapped(p, q, t)
  <2>1. CASE p = r /\ q = s
    BY <1>1, <1>3, <1>7, <1>8, <2>1
  <2>2. CASE p = s /\ q = r
    BY <1>1, <1>3, <1>7, <1>8, <1>10, <2>2
  <2> QED BY <1>9, <1>11, <2>1, <2>2
<1> QED BY <1>11 DEF Whole

LEMMA NextIsWhole == BInv /\ [Next]_vars => Whole
<1> SUFFICES ASSUME BInv, [Next]_vars PROVE Whole
  OBVIOUS
<1>1. CASE UNCHANGED owned
  BY <1>1, SameOwned, NothingExchanged
<1>2. CASE Next
  <2>1. PICK p \in Players :
              \/ HandleInitiateTrade(p) \/ Cancel(p) \/ Leave(p) \/ Enter(p)
              \/ Edits(p) \/ Keeps(p) \/ AcceptCompletes(p)
    BY <1>2, Steps
  <2>2. CASE HandleInitiateTrade(p) \/ Cancel(p) \/ Leave(p) \/ Enter(p) \/ Edits(p)
    <3>1. UNCHANGED owned
      BY <2>2, EditsOffers DEF HandleInitiateTrade, Cancel, Leave, Enter
    <3> QED BY <3>1, <1>1
  <2>3. CASE Keeps(p)
    <3>1. UNCHANGED trader
      BY <2>3, KeepsOffers DEF BInv
    <3> QED BY <2>3, <3>1, KeepsOwned, NothingExchanged
  <2>4. CASE AcceptCompletes(p)
    BY <2>4, CompletesIsWhole
  <2> QED BY <2>1, <2>2, <2>3, <2>4
<1> QED BY <1>1, <1>2 DEF vars

\* An exchange is between partners of whom one has accepted before, and nothing
\* of a player ever becomes another's in any other step.  It moves all the money
\* and the items slot by slot: both of a slot or neither; one that does not move
\* is returned unless its owner can store it no more; and none goes back when the
\* limit allows all of them together: what CanStoreItems has counted is enough
\* for every turn of the loop (HandleAcceptTradeOpcode, moveItems, CanStoreItems).
THEOREM ExchangesAreWhole == Spec => ExchangeIsWhole
<1>1. BInv /\ [Next]_vars => [Whole]_vars
  BY NextIsWhole
<1>2. Spec => [][Whole]_vars
  BY <1>1, OwnershipHolds, PTL DEF Spec
<1> QED
  BY <1>2 DEF ExchangeIsWhole, Whole

=============================================================================
