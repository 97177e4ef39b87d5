------------------------------- MODULE Trades -------------------------------
(***************************************************************************)
(* Two players trade with each other while the auction house and the       *)
(* mailbox take items and money from them.  Each has a TradeData that      *)
(* names the other and what he offers: an item, by its guid, and money.    *)
(* An offer has one place; the place for an item that is only enchanted,   *)
(* and items that may not be traded, are left out.                         *)
(***************************************************************************)
EXTENDS AuctionHouse

CONSTANT TradeGold      \* the money a client puts into an offer

ASSUME TradeConstants == TradeGold \subseteq Nat

TradeData == [with : Player, item : Item \cup {None}, money : Nat,
              seen : [item : Item \cup {None}, money : Nat] \cup {None}]

\* A Player object.
PlayerRecord == [inWorld : BOOLEAN, trade : TradeData \cup {None}, gold : 0 .. MaxGold,
                 bag : SUBSET Item, mails : PlayerMails]

ASSUME NoneIsNothing ==
    None \notin TradeData /\ None \notin PlayerRecord /\ None \notin MailRow /\ None \notin AuctionRow

TradeOf(p) == IF pl[p] = None THEN None ELSE pl[p].trade

\* What the client of the other shows, since the last change.
Shown(p) == [item |-> pl[p].trade.item, money |-> pl[p].trade.money]

\* What GetItem and GetMoney find: an item that has left the bag is not offered.
Offer(p) == [Shown(p) EXCEPT !.item = IF @ \in pl[p].bag THEN @ ELSE None]

ItemOf(offer) == {offer.item} \ {None}

-----------------------------------------------------------------------------

\* m_accepted, with the offer of the other that is accepted.
SetAccepted(s, p, seen) == [s EXCEPT !.pl[p].trade.seen = seen]

Unaccepted(s, p) == SetAccepted(s, p, None)

\* Mutant: the other still accepts what he saw before.
Mutant_BothUnaccepted(s, p) == Unaccepted(s, p)

BothUnaccepted(s, p) == Unaccepted(Unaccepted(s, p), s.pl[p].trade.with)

HandleInitiateTrade(p, q) ==
    LET Began(a, b) == [with |-> b, item |-> None, money |-> 0, seen |-> None] IN
    /\ Here(p) /\ Here(q) /\ p # q /\ TradeOf(p) = None /\ TradeOf(q) = None
    /\ Outcome([World EXCEPT !.pl[p].trade = Began(p, q), !.pl[q].trade = Began(q, p)])

\* SetItem and ClearItem: an offer that is changed is no longer accepted by anybody.
HandleSetTradeItem(p, i) ==
    /\ i # pl[p].trade.item
    /\ Outcome(BothUnaccepted([World EXCEPT !.pl[p].trade.item = i], p))

HandleSetTradeGold(p, gold) ==
    /\ gold # pl[p].trade.money /\ gold <= pl[p].gold
    /\ Outcome(BothUnaccepted([World EXCEPT !.pl[p].trade.money = gold], p))

HandleUnacceptTrade(p) == Outcome(Unaccepted(World, p))

HandleCancelTrade(p) == Outcome(TradeCancel(World, p))

-----------------------------------------------------------------------------
(* The end of a trade *)

\* Both items are taken out first; the item of one place goes over only if the item the
\* other has in that place does too.
moveItems(s, p, q, mine, his) ==
    LET bagP == s.pl[p].bag \ ItemOf(mine)
        bagQ == s.pl[q].bag \ ItemOf(his)
    IN IF CanStoreItem(bagP, ItemOf(his)) /\ CanStoreItem(bagQ, ItemOf(mine))
       THEN [s EXCEPT !.pl[p].bag = bagP \cup ItemOf(his), !.pl[q].bag = bagQ \cup ItemOf(mine)]
       ELSE s

Exchanged(s, p, q, mine, his) ==
    LET paid == ModifyMoney(ModifyMoney(s, p, -mine.money), p, his.money)
        both == ModifyMoney(ModifyMoney(paid, q, -his.money), q, mine.money)
    IN Commit(SaveInventoryAndGoldToDB(SaveInventoryAndGoldToDB(TradeCancel(both, p), p), q), {})

\* The items of the offers do not count against the room for what comes for them.
CanStoreItems(p, q, mine, his) ==
    /\ CanStoreItem(pl[p].bag \ ItemOf(mine), ItemOf(his))
    /\ CanStoreItem(pl[q].bag \ ItemOf(his), ItemOf(mine))

\* p presses the button.  Who has not the money he offers, or would have too much, does not
\* accept; when the other accepted before, the trade is carried out.
HandleAcceptTrade(p) ==
    LET q == pl[p].trade.with
        mine == Offer(p)
        his == Offer(q)
        s == SetAccepted(World, p, Shown(q))
    IN Outcome(IF mine.money > pl[p].gold THEN Unaccepted(s, p)
               ELSE IF his.money > pl[q].gold THEN Unaccepted(s, q)
               ELSE IF pl[p].gold >= MaxGold - his.money THEN Unaccepted(s, p)
               ELSE IF pl[q].gold >= MaxGold - mine.money THEN Unaccepted(s, q)
               ELSE IF pl[q].trade.seen = None THEN s
               ELSE IF ~CanStoreItems(p, q, mine, his) THEN BothUnaccepted(s, p)
               ELSE Exchanged(moveItems(s, p, q, mine, his), p, q, mine, his))

\* They are too far from each other.
HandleAcceptTooFar(p) == Outcome(Unaccepted(World, p))

-----------------------------------------------------------------------------

Trader(p) ==
    \/ \E q \in start.trader : HandleInitiateTrade(p, q)
    \/ /\ TradeOf(p) # None
       /\ \/ \E i \in pl[p].bag \cup {None} : HandleSetTradeItem(p, i)
          \/ \E gold \in TradeGold : HandleSetTradeGold(p, gold)
          \/ HandleAcceptTrade(p)
          \/ HandleAcceptTooFar(p)
          \/ HandleUnacceptTrade(p)
          \/ HandleCancelTrade(p)

TradeNext ==
    \/ Next
    \/ Regular /\ (\E p \in start.trader : Trader(p)) /\ UNCHANGED <<start, strayed>>

TradeSpec == Init /\ [][TradeNext]_vars

-----------------------------------------------------------------------------
(* Properties *)

\* Who trades has a partner in the world who trades with him: no TradeData keeps the pointer
\* of a Player that has left (TradeData::GetTraderData follows it without a test).
TradesPaired ==
    \A p \in {q \in Player : TradeOf(q) # None} :
        LET q == TradeOf(p).with IN
        /\ TradeOf(p) \in TradeData
        /\ Here(p) /\ q # p /\ Here(q) /\ TradeOf(q) # None /\ TradeOf(q).with = p

\* A trade that is carried out gives each player what the other offered when he accepted it,
\* and takes from him what he offers: neither can change his offer behind the other's
\* acceptance, nor can a full bag or a purse change it.  Only an item that has left the bag of
\* its owner since, by an auction or a mail, is missing.
DealAsAccepted ==
    [][\A p \in {x \in Player : TradeOf(x) # None /\ pl'[x] # None} :
        LET q == TradeOf(p).with
            seen == IF TradeOf(p).seen # None THEN TradeOf(p).seen ELSE Shown(q)
            got == pl'[p].bag \ pl[p].bag
            lost == pl[p].bag \ pl'[p].bag
        IN pl'[p].trade = None /\ <<pl'[p].gold, pl'[p].bag>> # <<pl[p].gold, pl[p].bag>> =>
            /\ TradeOf(p).seen # None \/ TradeOf(q).seen # None
            /\ pl'[p].gold - pl[p].gold = seen.money - TradeOf(p).money
            /\ got = ItemOf(seen) \cap pl[q].bag /\ lost = ItemOf(Offer(p))
      ]_vars

=============================================================================
