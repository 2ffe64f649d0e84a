------------------------------- MODULE Trade -------------------------------
(***************************************************************************)
(* Trade windows: TradeHandler, TradeData, Player::TradeCancel.            *)
(*                                                                         *)
(* Two players edit their offers, accept them one after the other, and the *)
(* second acceptance exchanges what is offered.  Meanwhile their items and *)
(* their money change by other ways, and either may cancel, lose the       *)
(* connection or leave.  The handlers run one at a time, in the world      *)
(* thread.                                                                 *)
(***************************************************************************)
EXTENDS Integers, FiniteSets

CONSTANTS
    Players,
    Items,
    NoPlayer,
    NoItem,
    TRADE_SLOT_TRADED_COUNT,
    MAX_MONEY_AMOUNT,
    Room,           \* places in the bags of a player; an item takes one
    Limited,        \* the items of a kind that a player may have
    MaxCount        \* only so many of (MaxCount, ItemLimitCategory)

ASSUME NullAssumption == NoPlayer \notin Players /\ NoItem \notin Items
ASSUME CountAssumption ==
    {TRADE_SLOT_TRADED_COUNT, MAX_MONEY_AMOUNT, Room, MaxCount} \subseteq Nat \ {0}
ASSUME ItemsAssumption == IsFiniteSet(Items) /\ Limited \subseteq Items

\* The slots whose items change hands, and the last one, whose item stays with
\* its owner and may have the partner's spell cast on it.
TradedSlots == 0 .. TRADE_SLOT_TRADED_COUNT - 1
TRADE_SLOT_NONTRADED == TRADE_SLOT_TRADED_COUNT
Slots == TradedSlots \cup {TRADE_SLOT_NONTRADED}

VARIABLES
    world,          \* the players in the world
    trader,         \* m_trade->m_trader; NoPlayer when m_trade is null
    accepted,       \* m_trade->m_accepted
    offer,          \* m_trade's m_items, m_money, m_spell # 0
    gold,
    bags,           \* the items a player has in its bags
    worn            \* and those it wears or has in the bank

owned == <<gold, bags, worn>>
vars == <<world, trader, accepted, offer, owned>>

Has(p) == bags[p] \cup worn[p]

\* GetItem: the owner may have lost the item since.
GetItem(p, s) == IF offer[p].items[s] \in Has(p) THEN offer[p].items[s] ELSE NoItem

\* What setAcceptTradeMode marks as in trade.
InTrade(p) == {GetItem(p, s) : s \in TradedSlots} \ {NoItem}

NoOffer == [items |-> [s \in Slots |-> NoItem], money |-> 0, spell |-> FALSE]

-----------------------------------------------------------------------------
(* Opening and closing *)

\* Mutant: the other player may already be trading.
InitiateTradeWithAnybody(p) ==
    /\ p \in world /\ trader[p] = NoPlayer
    /\ \E q \in world \ {p} :
        /\ trader' = [trader EXCEPT ![p] = q, ![q] = p]
        /\ accepted' = [accepted EXCEPT ![p] = FALSE, ![q] = FALSE]
        /\ offer' = [offer EXCEPT ![p] = NoOffer, ![q] = NoOffer]
    /\ UNCHANGED <<world, owned>>

\* The tests of life, distance, faction and the like may refuse.
HandleInitiateTrade(p) ==
    /\ p \in world /\ trader[p] = NoPlayer
    /\ \E q \in world \ {p} :
        /\ trader[q] = NoPlayer
        /\ trader' = [trader EXCEPT ![p] = q, ![q] = p]
        /\ accepted' = [accepted EXCEPT ![p] = FALSE, ![q] = FALSE]
        /\ offer' = [offer EXCEPT ![p] = NoOffer, ![q] = NoOffer]
    /\ UNCHANGED <<world, owned>>

\* delete m_trade and trader->m_trade.
DeleteBoth(p) ==
    /\ trader' = [trader EXCEPT ![p] = NoPlayer, ![trader[p]] = NoPlayer]
    /\ accepted' = [accepted EXCEPT ![p] = FALSE, ![trader[p]] = FALSE]
    /\ offer' = [offer EXCEPT ![p] = NoOffer, ![trader[p]] = NoOffer]

TradeCancel(p) ==
    IF trader[p] # NoPlayer THEN DeleteBoth(p) ELSE UNCHANGED <<trader, accepted, offer>>

\* The client cancels, the player takes a taxi, or the connection is lost.
Cancel(p) ==
    /\ trader[p] # NoPlayer
    /\ TradeCancel(p)
    /\ UNCHANGED <<world, owned>>

\* LogoutPlayer: CleanupsBeforeDelete, and the player is deleted.
Leave(p) ==
    /\ p \in world
    /\ TradeCancel(p)
    /\ world' = world \ {p}
    /\ UNCHANGED owned

Enter(p) ==
    /\ p \notin world
    /\ world' = world \cup {p}
    /\ UNCHANGED <<trader, accepted, offer, owned>>

-----------------------------------------------------------------------------
(* The offers *)

\* SetAccepted(false) for both sides.
Withdraw(p) == accepted' = [accepted EXCEPT ![p] = FALSE, ![trader[p]] = FALSE]

\* SetItem, for an item or for none: it removes the player's own spell, and
\* with slot TRADE_SLOT_NONTRADED the spell the partner has put on it.
SetItem(p, s, i) ==
    /\ offer[p].items[s] # i
    /\ offer' = [q \in Players |->
                    IF q = p THEN [offer[p] EXCEPT !.items[s] = i, !.spell = FALSE]
                    ELSE IF q = trader[p] /\ s = TRADE_SLOT_NONTRADED
                         THEN [offer[q] EXCEPT !.spell = FALSE]
                         ELSE offer[q]]
    /\ Withdraw(p)
    /\ UNCHANGED <<world, trader, owned>>

\* CanBeTraded may refuse an item of the traded slots.
HandleSetTradeItem(p) ==
    /\ trader[p] # NoPlayer
    /\ \E s \in Slots, i \in Has(p) :
        /\ \A r \in Slots : offer[p].items[r] # i
        /\ SetItem(p, s, i)

HandleClearTradeItem(p) ==
    /\ trader[p] # NoPlayer
    /\ \E s \in Slots : SetItem(p, s, NoItem)

\* Mutant: an offer of money withdraws the partner's acceptance only.
SetTradeGoldWithdrawsOne(p) ==
    /\ trader[p] # NoPlayer
    /\ \E n \in 0 .. gold[p] :
        /\ n # offer[p].money
        /\ offer' = [offer EXCEPT ![p].money = n]
    /\ accepted' = [accepted EXCEPT ![trader[p]] = FALSE]
    /\ UNCHANGED <<world, trader, owned>>

HandleSetTradeGold(p) ==
    /\ trader[p] # NoPlayer
    /\ \E n \in 0 .. gold[p] :
        /\ n # offer[p].money
        /\ offer' = [offer EXCEPT ![p].money = n]
    /\ Withdraw(p)
    /\ UNCHANGED <<world, trader, owned>>

\* Spell::cast on the item of the partner's slot TRADE_SLOT_NONTRADED: the
\* trade remembers one spell.
Cast(p) ==
    /\ trader[p] # NoPlayer
    /\ ~offer[p].spell
    /\ GetItem(trader[p], TRADE_SLOT_NONTRADED) # NoItem
    /\ offer' = [offer EXCEPT ![p].spell = TRUE]
    /\ Withdraw(p)
    /\ UNCHANGED <<world, trader, owned>>

-----------------------------------------------------------------------------
(* Accepting *)

HandleUnacceptTrade(p) ==
    /\ trader[p] # NoPlayer
    /\ accepted' = [accepted EXCEPT ![p] = FALSE]
    /\ UNCHANGED <<world, trader, offer, owned>>

NotEnough(p) == gold[p] < offer[p].money
TooMuch(p) == gold[p] >= MAX_MONEY_AMOUNT - offer[trader[p]].money

MoneyFits(p) == \A q \in {p, trader[p]} : ~NotEnough(q) /\ ~TooMuch(q)

\* The first of the four tests that fails withdraws the acceptance of the
\* player whose money it is about.
AcceptWrongMoney(p) ==
    /\ trader[p] # NoPlayer
    /\ ~MoneyFits(p)
    /\ accepted' = IF NotEnough(p) \/ (~NotEnough(trader[p]) /\ TooMuch(p))
                   THEN [accepted EXCEPT ![p] = FALSE]
                   ELSE [accepted EXCEPT ![p] = TRUE, ![trader[p]] = FALSE]
    /\ UNCHANGED <<world, trader, offer, owned>>

\* CanBeTraded or IsBindedNotWith refuses an item: the acceptance stays.
AcceptUntradable(p) ==
    /\ trader[p] # NoPlayer
    /\ MoneyFits(p)
    /\ InTrade(p) \cup InTrade(trader[p]) # {}
    /\ accepted' = [accepted EXCEPT ![p] = TRUE]
    /\ UNCHANGED <<world, trader, offer, owned>>

AcceptFirst(p) ==
    /\ trader[p] # NoPlayer
    /\ MoneyFits(p)
    /\ ~accepted[trader[p]]
    /\ accepted' = [accepted EXCEPT ![p] = TRUE]
    /\ UNCHANGED <<world, trader, offer, owned>>

BothAccept(p) == trader[p] # NoPlayer /\ MoneyFits(p) /\ accepted[trader[p]]

SpellHasTarget(p) ==
    offer[p].spell => GetItem(trader[p], TRADE_SLOT_NONTRADED) # NoItem

\* The spell of one of the two, tested in this order, cannot be cast any more:
\* SetSpell(0).
AcceptSpellFails(p) ==
    /\ BothAccept(p)
    /\ \E q \in {p, trader[p]} :
        /\ offer[q].spell
        /\ q # p => SpellHasTarget(p)
        /\ offer' = [offer EXCEPT ![q].spell = FALSE]
    /\ Withdraw(p)
    /\ UNCHANGED <<world, trader, owned>>

\* CanStoreItems: the places of the player's own items in trade count as free.
\* The limit is tested for each item without the others: what the player has of
\* the kind counts, in trade or not, and the items that come before do not.
CanStoreItems(p) ==
    /\ Cardinality(bags[p] \ InTrade(p)) + Cardinality(InTrade(trader[p])) <= Room
    /\ \A i \in InTrade(trader[p]) \cap Limited :
          Cardinality(Has(p) \cap Limited) + 1 <= MaxCount

\* The items do not fit, or another rule forbids their new owner to have them.
AcceptCannotStore(p) ==
    /\ BothAccept(p)
    /\ SpellHasTarget(p) /\ SpellHasTarget(trader[p])
    /\ InTrade(p) \cup InTrade(trader[p]) # {}
    /\ Withdraw(p)
    /\ UNCHANGED <<world, trader, offer, owned>>

\* CanStoreItem and MoveItemToInventory, into the bags b; NoItem is no item.
CanStore(b, p, i) ==
    \/ i = NoItem
    \/ /\ Cardinality(b[p]) < Room
       /\ i \in Limited =>
             Cardinality((b[p] \cup (worn[p] \ InTrade(p))) \cap Limited) < MaxCount

Store(b, p, i) ==
    IF i # NoItem /\ CanStore(b, p, i) THEN [b EXCEPT ![p] = @ \cup {i}] ELSE b

\* Mutant: what has been moved is given back, too.
MoveSlotAndBack(p, q, s, b) ==
    LET mine == GetItem(p, s)
        his  == GetItem(q, s)
        moved == IF CanStore(b, q, mine) /\ CanStore(b, p, his)
                 THEN Store(Store(b, q, mine), p, his) ELSE b
    IN  Store(Store(moved, p, mine), q, his)

\* Mutant: what cannot be moved is not given back.
MoveSlotOrLose(p, q, s, b) ==
    IF CanStore(b, q, GetItem(p, s)) /\ CanStore(b, p, GetItem(q, s))
    THEN Store(Store(b, q, GetItem(p, s)), p, GetItem(q, s)) ELSE b

\* One turn of moveItems: both items of a slot change hands, or both go back,
\* each if its owner can store it; if not, the item is lost.
MoveSlot(p, q, s, b) ==
    LET mine == GetItem(p, s)
        his  == GetItem(q, s)
    IN  IF CanStore(b, q, mine) /\ CanStore(b, p, his)
        THEN Store(Store(b, q, mine), p, his)
        ELSE Store(Store(b, p, mine), q, his)

moveItems(p, q, b) ==
    LET moved[n \in 0 .. TRADE_SLOT_TRADED_COUNT] ==
            IF n = 0 THEN b ELSE MoveSlot(p, q, n - 1, moved[n - 1])
    IN  moved[TRADE_SLOT_TRADED_COUNT]

ModifyMoney(n, amount) ==
    IF amount < 0 THEN IF n > -amount THEN n + amount ELSE 0
    ELSE IF n < MAX_MONEY_AMOUNT - amount THEN n + amount ELSE n

\* Remove the items, store them slot by slot, exchange the money, delete both
\* trades.  The spells are cast on items that stay where they are.
AcceptCompletes(p) ==
    LET q == trader[p] IN
    /\ BothAccept(p)
    /\ SpellHasTarget(p) /\ SpellHasTarget(trader[p])
    /\ CanStoreItems(p) /\ CanStoreItems(q)
    /\ bags' = moveItems(p, q, [bags EXCEPT ![p] = @ \ InTrade(p), ![q] = @ \ InTrade(q)])
    /\ worn' = [worn EXCEPT ![p] = @ \ InTrade(p), ![q] = @ \ InTrade(q)]
    /\ gold' = [gold EXCEPT
                   ![p] = ModifyMoney(ModifyMoney(@, -offer[p].money), offer[q].money),
                   ![q] = ModifyMoney(ModifyMoney(@, -offer[q].money), offer[p].money)]
    /\ DeleteBoth(p)
    /\ UNCHANGED world

-----------------------------------------------------------------------------
(* What else happens to items and money: external to the trade *)

ItemGone(p) ==
    /\ p \in world
    /\ \E i \in Has(p) :
        /\ bags' = [bags EXCEPT ![p] = @ \ {i}]
        /\ worn' = [worn EXCEPT ![p] = @ \ {i}]
    /\ UNCHANGED <<world, trader, accepted, offer, gold>>

\* An item is put on or taken off.
Wear(p) ==
    /\ p \in world
    /\ \/ \E i \in bags[p] : /\ bags' = [bags EXCEPT ![p] = @ \ {i}]
                             /\ worn' = [worn EXCEPT ![p] = @ \cup {i}]
       \/ \E i \in worn[p] : /\ Cardinality(bags[p]) < Room
                             /\ bags' = [bags EXCEPT ![p] = @ \cup {i}]
                             /\ worn' = [worn EXCEPT ![p] = @ \ {i}]
    /\ UNCHANGED <<world, trader, accepted, offer, gold>>

MoneyChanges(p) ==
    /\ p \in world
    /\ \E n \in 0 .. MAX_MONEY_AMOUNT - 1 : n # gold[p] /\ gold' = [gold EXCEPT ![p] = n]
    /\ UNCHANGED <<world, trader, accepted, offer, bags, worn>>

-----------------------------------------------------------------------------

Init ==
    /\ world = Players
    /\ trader = [p \in Players |-> NoPlayer]
    /\ accepted = [p \in Players |-> FALSE]
    /\ offer = [p \in Players |-> NoOffer]
    /\ gold \in [Players -> 0 .. MAX_MONEY_AMOUNT - 1]
    /\ bags \in [Players -> {b \in SUBSET Items : Cardinality(b) <= Room}]
    /\ worn \in [Players -> SUBSET Items]
    /\ \A p, q \in Players : /\ bags[p] \cap worn[q] = {}
                             /\ p # q => Has(p) \cap Has(q) = {}
    /\ \A p \in Players : Cardinality(Has(p) \cap Limited) <= MaxCount

Accept(p) ==
    \/ AcceptWrongMoney(p) \/ AcceptUntradable(p) \/ AcceptFirst(p)
    \/ AcceptSpellFails(p) \/ AcceptCannotStore(p) \/ AcceptCompletes(p)

Next ==
    \E p \in Players :
        \/ HandleInitiateTrade(p) \/ Cancel(p) \/ Leave(p) \/ Enter(p)
        \/ HandleSetTradeItem(p) \/ HandleClearTradeItem(p)
        \/ HandleSetTradeGold(p) \/ Cast(p)
        \/ Accept(p) \/ HandleUnacceptTrade(p)
        \/ ItemGone(p) \/ Wear(p) \/ MoneyChanges(p)

Spec == Init /\ [][Next]_vars

-----------------------------------------------------------------------------

\* The handlers follow m_trade->m_trader->m_trade without a test, and delete
\* the partner's trade with their own: whoever is in a trade has a partner in
\* the world whose trade is with it, and nobody else's trade refers to it.
TradesAreMutual ==
    \A p \in Players :
        trader[p] # NoPlayer =>
            /\ p \in world
            /\ trader[p] \in world \ {p}
            /\ trader[trader[p]] = p

\* "set before checks for propertly undo at problems" and the SetAccepted(false)
\* calls of TradeData: no acceptance, the player's own or the partner's, and not
\* one that an early return has left standing either, outlives a change of one
\* of the two lists it was given for.
AcceptanceStandsForOffers ==
    [][\A p \in Players :
          trader[p] # NoPlayer /\ trader'[p] = trader[p] /\ accepted[p] /\ accepted'[p]
          => offer'[p] = offer[p] /\ offer'[trader[p]] = offer[trader[p]]]_vars

\* An item is in one place of one player, the bags hold no more than they have
\* places, nobody has more of the limited kind than is allowed, or too much
\* money: no order of offers, losses and acceptances makes an exchange duplicate
\* an item, also one that goes back halfway, or exceed what CanStoreItems has
\* measured with the items of the trade taken out, or not measured at all.
NothingDuplicated ==
    \A p, q \in Players :
        /\ bags[p] \cap worn[q] = {}
        /\ p # q => Has(p) \cap Has(q) = {}
        /\ Cardinality(bags[p]) <= Room
        /\ Cardinality(Has(p) \cap Limited) <= MaxCount
        /\ gold[p] \in 0 .. MAX_MONEY_AMOUNT - 1

\* A step that takes an item or money of p to q, or that ends their trade with
\* the possessions of one of them changed.
Exchanges(p, q) ==
    /\ owned' # owned
    /\ \/ Has(p) \cap Has(q)' # {}
       \/ trader[p] = q /\ trader'[p] # q /\ <<gold[p], Has(p)>>' # <<gold[p], Has(p)>>

\* What p and q have in slot s has changed hands,
Swapped(p, q, s) ==
    /\ GetItem(p, s) \in Has(q)' \cup {NoItem}
    /\ GetItem(q, s) \in Has(p)' \cup {NoItem}

\* or what p has in it has not; it is with p unless p cannot store it any more.
Returned(p, q, s) ==
    /\ GetItem(p, s) \notin Has(q)'
    /\ GetItem(p, s) \in Has(p)' \/ ~CanStore(bags', p, GetItem(p, s))
                                 \/ GetItem(p, s) = NoItem

\* After the exchange p has all that was not in trade, nothing but its own items
\* and the partner's in trade, and the money of both offers.
Settled(p, q) ==
    /\ Has(p) \ InTrade(p) \subseteq Has(p)'
    /\ Has(p)' \subseteq Has(p) \cup InTrade(q)
    /\ gold'[p] = gold[p] - offer[p].money + offer[q].money

\* The limit leaves room for all that p is to receive, taken together.
LimitAllows(p, q) ==
    Cardinality(((Has(p) \ InTrade(p)) \cup InTrade(q)) \cap Limited) <= MaxCount

\* "If we trade in both directions we had to check" and "return the already
\* removed items to the original owner" (moveItems): an exchange takes place
\* between partners who accepted it and moves all the money; the two items of a
\* slot change hands together or not at all, and an item that does not is lost
\* only if its owner's bags have filled up meanwhile; and when the limit allows
\* all of them together, CanStoreItems has foreseen every turn of the loop and
\* no item goes back.
ExchangeIsWhole ==
    [][\A p, q \in Players :
          p # q /\ Exchanges(p, q) =>
              /\ trader[p] = q /\ (accepted[p] \/ accepted[q])
              /\ Settled(p, q) /\ Settled(q, p)
              /\ \A s \in TradedSlots :
                    Swapped(p, q, s) \/ (Returned(p, q, s) /\ Returned(q, p, s))
              /\ LimitAllows(p, q) /\ LimitAllows(q, p) =>
                    \A s \in TradedSlots : Swapped(p, q, s)]_vars

\* "test if item will fit in each inventory" (HandleAcceptTradeOpcode), and "if
\* the trade will work before we actually do it" (moveItems): what both have
\* accepted changes hands in every slot.  It does not: the limit is tested for
\* one item at a time.
EverySlotIsSwapped ==
    [][\A p, q \in Players :
          p # q /\ Exchanges(p, q) => \A s \in TradedSlots : Swapped(p, q, s)]_vars

=============================================================================
