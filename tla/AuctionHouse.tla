----------------------------- MODULE AuctionHouse -----------------------------
(***************************************************************************)
(* The auction house and the mailbox on the world thread, with the         *)
(* character database behind them and a process that may die at any time.  *)
(* The handlers and the update of the auction house run one at a time;     *)
(* what a dying process leaves in the database is what the transactions of *)
(* the past handlers and some of those of the last one stored.  Clocks are *)
(* left out: what waits for a time may happen at any step.                 *)
(***************************************************************************)
EXTENDS Mails, SequencesExt

CONSTANTS
    Auction,        \* identifiers of auctions, as Mail
    Start,          \* bound: the situations a behaviour starts from, elements of Situation
    Deposit,        \* of an auction
    CutPercent,     \* of the house
    StartBid, Buyout, Price,    \* what clients send: minimal bids, buyouts, bids
    Postage,        \* 30 copper for a mail or an item in it
    Sum,            \* the money and the cash on delivery a client puts into a mail
    MaxPlayers      \* bound: Player objects at a time

\* The money of the characters, who has which item, who logs in, and who of them sell, bid,
\* write mails and trade.
Situation == [gold : [Player -> 0 .. MaxGold], inventory : [Item -> Player \cup {None}],
              client : SUBSET Player, seller : SUBSET Player, bidder : SUBSET Player,
              writer : SUBSET Player, trader : SUBSET Player]

ASSUME AuctionConstants ==
    /\ IsFiniteSet(Auction) /\ Auction = 1 .. Cardinality(Auction)
    /\ Start \subseteq Situation
    /\ \A w \in Start : w.seller \cup w.bidder \cup w.writer \cup w.trader \subseteq w.client
    /\ Deposit \in Nat /\ CutPercent \in 0 .. 100 /\ Postage \in Nat
    /\ StartBid \cup Price \cup Sum \subseteq Nat \ {0} /\ Buyout \subseteq Nat
    /\ MaxPlayers \in Nat

VARIABLES
    start,      \* the situation at the start
    db,         \* the tables: characters, character_inventory, item_instance, auction, mail,
                \* mail_items (attached)
    pl,         \* the Player objects, those that are being loaded included
    house,      \* AuctionHouseObject::AuctionsMap
    aitems,     \* AuctionHouseMgr::mAitems
    past,       \* history: the money that is spent or deleted, who won which auction, which
                \* auctions had a bid after they were sold
    cut,        \* history: what a crash left stored by half
    strayed     \* history: items that were taken through a mail that does not hold them

vars == <<start, db, pl, house, aitems, past, cut, strayed>>

AuctionRow == [item : Item \cup {None}, owner : Player, startbid : StartBid, bid : Nat,
               buyout : Buyout, bidder : Player \cup {None}, sold : BOOLEAN]

Init ==
    /\ start \in Start
    /\ db = [gold |-> start.gold, inventory |-> start.inventory,
             instance |-> {i \in Item : start.inventory[i] # None}, attached |-> {},
             auction |-> [a \in Auction |-> None], mail |-> [m \in Mail |-> None]]
    /\ pl = [p \in Player |-> None]
    /\ house = [a \in Auction |-> None]
    /\ aitems = {}
    /\ past = [money |-> 0, won |-> [a \in Auction |-> None], late |-> {}]
    /\ cut = {}
    /\ strayed = {}

World == [db |-> db, txs |-> <<>>, pl |-> pl, house |-> house, aitems |-> aitems, past |-> past,
          cut |-> cut]

-----------------------------------------------------------------------------
(* The end of a handler, or of the process *)

\* The money in the auctions.
Deposits(rows) == [a \in Auction |-> IF rows[a] = None THEN 0 ELSE Deposit + rows[a].bid]

\* LoadAuctionItems and LoadAuctions: an auction that is not sold is deleted without its
\* item.
Restarted(d, h) ==
    LET Empty == {a \in Auction : /\ d.auction[a] # None /\ ~d.auction[a].sold
                                  /\ d.auction[a].item \notin d.instance}
        rows == [a \in Auction |-> IF a \in Empty THEN None ELSE d.auction[a]]
    IN /\ db' = [d EXCEPT !.auction = rows]
       /\ house' = rows
       /\ aitems' = {i \in Item : \E a \in Auction : rows[a] # None /\ rows[a].item = i}
       /\ pl' = [p \in Player |-> None]
       /\ past' = [h EXCEPT !.money = @ + SumOver(Deposits(d.auction), Empty)]

\* The mails that the auctions h will send when they end.
Owed(h) == Cardinality({a \in Auction : h[a] # None})
           + Cardinality({a \in Auction : h[a] # None /\ ~h[a].sold})

\* The handler ends as s and everything it wrote is stored; or the process dies after some
\* of its transactions and is started again.  Bounds: one crash leaves things stored by half,
\* and numbers are left for the mails the auctions will send.
Outcome(s) ==
    \/ /\ db' = s.db /\ pl' = s.pl /\ house' = s.house /\ aitems' = s.aitems /\ past' = s.past
       /\ cut' = s.cut
    \/ \E k \in 1 .. Len(s.txs) - 1 :
        /\ cut = {} \/ s.txs[k].open = {}
        /\ Cardinality({m \in Mail : s.txs[k].db.mail[m] = None}) >= Owed(s.txs[k].db.auction)
        /\ Restarted(s.txs[k].db, s.txs[k].past)
        /\ cut' = s.cut \cup s.txs[k].open

\* The process dies between two handlers, and is started again.
Crash == Restarted(db, past) /\ UNCHANGED cut

\* Bound: a client's request is taken up if there are enough numbers for mails.
Handled(s) == Cardinality(FreeMails(s)) >= Owed(s.house) /\ Outcome(s)
HasNumbers(n) == Cardinality(FreeMails(World)) >= n

-----------------------------------------------------------------------------
(* AuctionEntry *)

GetAuctionCut(e) == (CutPercent * e.bid) \div 100
GetAuctionOutBid(e) == Max({1, (e.bid \div 100) * 5})

DeleteFromDB(s, a) ==
    Commit([s EXCEPT !.db.auction[a] = None, !.past.won[a] = None, !.past.late = @ \ {a}], {})

SendAuctionWonMail(s, a) ==
    LET e == s.house[a] IN
    IF e.item \notin s.aitems THEN s
    ELSE SendMailTo([s EXCEPT !.aitems = @ \ {e.item}, !.house[a].item = None,
                              !.past.won[a] = e.bidder],
                    e.bidder, None, "auction", 0, 0, {e.item}, {})

\* Mutant: the row keeps the bidder and the bid it had.
Mutant_AuctionBidWinning(s, a, newbidder) ==
    LET sold == [s EXCEPT !.house[a].sold = TRUE,
                          !.db.auction[a].item = None, !.db.auction[a].sold = TRUE]
        saved == IF newbidder = None THEN sold ELSE SaveInventoryAndGoldToDB(sold, newbidder)
    IN SendAuctionWonMail(Commit(saved, {s.house[a].item} \ {None}), a)

\* newbidder is None when the time of the auction is over.
AuctionBidWinning(s, a, newbidder) ==
    LET sold == [s EXCEPT !.house[a].sold = TRUE,
                          !.db.auction[a].item = None, !.db.auction[a].sold = TRUE,
                          !.db.auction[a].bidder = s.house[a].bidder,
                          !.db.auction[a].bid = s.house[a].bid]
        saved == IF newbidder = None THEN sold ELSE SaveInventoryAndGoldToDB(sold, newbidder)
    IN SendAuctionWonMail(Commit(saved, {s.house[a].item} \ {None}), a)

SendAuctionOutbiddedMail(s, a) ==
    SendMailTo(s, s.house[a].bidder, None, "auction", s.house[a].bid, 0, {}, {"money"})

\* Mutant: nobody sends the old bidder his money.
Mutant_Charged(s, a, newbid, p) ==
    LET e == s.house[a] IN
    ModifyMoney(s, p, IF e.bidder = p THEN e.bid - newbid ELSE -newbid)

\* Takes the money of the new bidder, or what a bidder adds to his own bid.
Charged(s, a, newbid, p) ==
    LET e == s.house[a] IN
    IF e.bidder = p THEN ModifyMoney(s, p, -(newbid - e.bid))
    ELSE IF e.bidder = None THEN ModifyMoney(s, p, -newbid)
    ELSE SendAuctionOutbiddedMail(ModifyMoney(s, p, -newbid), a)

UpdateBid(s, a, price, p) ==
    LET buyout == s.house[a].buyout
        newbid == IF buyout # 0 THEN Min({price, buyout}) ELSE price
        t == [Charged(s, a, newbid, p) EXCEPT !.house[a].bidder = p, !.house[a].bid = newbid]
    IN IF newbid < buyout \/ buyout = 0
       THEN Commit(SaveInventoryAndGoldToDB([t EXCEPT !.db.auction[a].bidder = p,
                                                      !.db.auction[a].bid = newbid], p), {})
       ELSE AuctionBidWinning(t, a, p)

-----------------------------------------------------------------------------
(* The update of the auction house, once a minute *)

SendAuctionSuccessfulMail(s, a) ==
    LET e == s.house[a] IN
    SendMailTo(Spent(s, GetAuctionCut(e)), e.owner, None, "auction",
               e.bid + Deposit - GetAuctionCut(e), 0, {}, {"money"})

SendAuctionExpiredMail(s, a) ==
    LET e == s.house[a] IN
    IF e.item \notin s.aitems THEN s
    ELSE SendMailTo([s EXCEPT !.aitems = @ \ {e.item}, !.house[a].item = None],
                    e.owner, None, "auction", 0, 0, {e.item}, {e.item})

Erased(s, a) == [s EXCEPT !.house[a] = None]

\* The walk over the auctions, at one whose time, or the time its money is on the way, is
\* over if it is due.
Ended(s, a, due) ==
    IF a \notin due THEN s
    ELSE IF s.house[a].sold
    THEN Erased(DeleteFromDB(SendAuctionSuccessfulMail(s, a), a), a)
    ELSE IF s.house[a].bid # 0
    THEN AuctionBidWinning(s, a, None)
    ELSE Erased(DeleteFromDB(Spent(SendAuctionExpiredMail(s, a), Deposit), a), a)

InHouse == {a \in Auction : house[a] # None}

UpdateAuctions(due) ==
    due # {} /\ Outcome(FoldLeft(LAMBDA s, a : Ended(s, a, due), World, [a \in Auction |-> a]))

-----------------------------------------------------------------------------
(* The requests of a client at the auctioneer *)

Here(p) == InWorld(World, p)

HandleAuctionSellItem(p, i, bid, buyout) ==
    /\ Here(p) /\ i \in pl[p].bag \ aitems /\ pl[p].gold >= Deposit
    /\ InHouse # Auction
    /\ LET a == Min(Auction \ InHouse)
           e == [item |-> i, owner |-> p, startbid |-> bid, bid |-> 0, buyout |-> buyout,
                 bidder |-> None, sold |-> FALSE]
           s == [ModifyMoney(World, p, -Deposit) EXCEPT !.pl[p].bag = @ \ {i},
                    !.house[a] = e, !.db.auction[a] = e, !.aitems = @ \cup {i}]
       IN Handled(Commit(SaveInventoryAndGoldToDB(s, p), {}))

\* Nothing here asks whether the auction is sold.
HandleAuctionPlaceBid(p, a, price) ==
    LET e == house[a] IN
    /\ Here(p) /\ e # None /\ e.owner # p
    /\ price > e.bid /\ price <= pl[p].gold /\ price >= e.startbid
    /\ (price < e.buyout \/ e.buyout = 0) => price >= e.bid + GetAuctionOutBid(e)
    /\ HasNumbers(2)
    /\ Handled(UpdateBid([World EXCEPT !.past.late = IF e.sold THEN @ \cup {a} ELSE @],
                         a, price, p))

SendAuctionCancelledToBidderMail(s, a) ==
    SendMailTo(s, s.house[a].bidder, None, "auction", s.house[a].bid, 0, {}, {"money"})

\* The bidder has his money back, and the owner pays the house for it.
BidReturned(s, a, p) ==
    LET e == s.house[a]
        t == IF e.bidder # None THEN SendAuctionCancelledToBidderMail(s, a) ELSE s
    IN IF e.bid = 0 THEN s
       ELSE Spent(ModifyMoney(t, p, -GetAuctionCut(e)), GetAuctionCut(e))

HandleAuctionRemoveItem(p, a) ==
    LET e == house[a] IN
    /\ Here(p) /\ e # None /\ e.owner = p /\ e.item \in aitems
    /\ e.bid # 0 => pl[p].gold >= GetAuctionCut(e)
    /\ HasNumbers(2)
    /\ LET open == {e.item} \cup (IF e.bid = 0 THEN {} ELSE {"money"})
           s == SendMailTo(BidReturned(World, a, p), p, None, "auction", 0, 0, {e.item}, open)
           t == Commit(SaveInventoryAndGoldToDB(
                          [Spent(s, Deposit) EXCEPT !.db.auction[a] = None], p), {})
       IN Handled(Erased([t EXCEPT !.aitems = @ \ {e.item}], a))

-----------------------------------------------------------------------------
(* The requests of a client at the mailbox *)

Closed(p, m, e) == [World EXCEPT !.pl[p].mails[m] = e]

\* Items leave the inventory one by one, each in a transaction; the gold is saved last.
HandleSendMail(p, r, items, money, cod) ==
    LET cost == Postage * Max({1, Cardinality(items)})
        Sent(s, i) == Commit([s EXCEPT !.pl[p].bag = @ \ {i}, !.db.inventory[i] = None],
                             (items \ s.pl[p].bag) \cup {i})
        taken == FoldLeft(Sent, ModifyMoney(World, p, -(cost + money)),
                          SetToSeq(items))
        sent == SendMailTo(taken, r, p, "normal", money, cod, items, {"money"})
    IN /\ Here(p) /\ p # r /\ items \subseteq pl[p].bag /\ pl[p].gold >= cost + money
       /\ HasNumbers(1)
       /\ Handled(Commit(SaveInventoryAndGoldToDB(Spent(sent, cost), p), {}))

\* The mail is gone before the one that returns what it held is stored.  A mail that no
\* player sent is dropped; its items stay in item_instance, and nobody has them.
HandleMailReturnToSender(p, m) ==
    LET e == pl[p].mails[m]
        gone == Commit([World EXCEPT !.db.mail[m] = None,
                                     !.db.attached = {x \in @ : x[1] # m},
                                     !.pl[p].mails = [x \in DOMAIN @ \ {m} |-> @[x]]],
                       e.items \cup {"money"})
    IN /\ e.state # "deleted"
       /\ FreeMails(gone) # {}
       /\ Handled(IF e.sender # None
                  THEN SendMailTo(gone, e.sender, p, "returned", e.money, 0, e.items, {})
                  ELSE [Spent(gone, e.money) EXCEPT !.cut = @ \cup e.items])

\* Player::mMitems, the items of all mails of a player.  Those of a mail that he deleted stay
\* in it till he logs out; here they leave it when the mail is saved.
MItems(p) == UNION {pl[p].mails[m].items : m \in DOMAIN pl[p].mails}

\* The sender has the cash on delivery before the one who pays is saved.  Nothing here asks
\* whether the item is in that mail.
HandleMailTakeItem(p, m, i) ==
    LET e == pl[p].mails[m]
        s == Closed(p, m, [e EXCEPT !.items = @ \ {i}, !.removed = @ \cup {i}, !.cod = 0,
                                    !.state = "changed"])
        paid == IF e.cod = 0 THEN s
                ELSE ModifyMoney(SendMailTo(s, e.sender, p, "payment", e.cod, 0, {}, {"money"}),
                                 p, -e.cod)
        stored == [paid EXCEPT !.pl[p].bag = @ \cup {i}]
    IN /\ e.state # "deleted" /\ i \in MItems(p) /\ pl[p].gold >= e.cod
       /\ CanStoreItem(pl[p].bag, {i})
       /\ strayed' = strayed \cup ({i} \ e.items)
       /\ HasNumbers(1)
       /\ Handled(Commit(_SaveMail(SaveInventoryAndGoldToDB(stored, p), p), {}))

\* Mutant: saves the gold and not the mail.
Mutant_HandleMailTakeMoney(p, m) ==
    LET e == pl[p].mails[m]
        s == ModifyMoney(Closed(p, m, [e EXCEPT !.money = 0, !.state = "changed"]), p, e.money)
    IN /\ e.state # "deleted"
       /\ Outcome(Commit([s EXCEPT !.db.gold[p] = s.pl[p].gold], {}))

HandleMailTakeMoney(p, m) ==
    LET e == pl[p].mails[m]
        s == ModifyMoney(Closed(p, m, [e EXCEPT !.money = 0, !.state = "changed"]), p, e.money)
    IN /\ e.state # "deleted"
       /\ Outcome(Commit(_SaveMail([s EXCEPT !.db.gold[p] = s.pl[p].gold], p), {}))

HandleMailDelete(p, m) ==
    LET e == pl[p].mails[m] IN
    /\ e.cod = 0
    /\ Outcome(Closed(p, m, [e EXCEPT !.state = "deleted"]))

-----------------------------------------------------------------------------
(* Once a day the mails are returned or deleted whose time is over *)

\* Each statement is stored by itself.
Returned(s, m) ==
    LET row == s.db.mail[m]
        t == Commit([s EXCEPT !.db.mail[m] = [@ EXCEPT !.receiver = row.sender,
                                  !.sender = row.receiver, !.kind = "returned", !.cod = 0]],
                    Attached(s.db, m, row.receiver))
        Moved(u, i) == Commit([u EXCEPT !.db.attached =
                                  (@ \ {<<m, i, row.receiver>>}) \cup {<<m, i, row.sender>>}],
                              Attached(u.db, m, row.receiver) \ {i})
    IN FoldLeft(Moved, t, SetToSeq(Attached(s.db, m, row.receiver)))

\* The rows of mail_items stay in the code, under the number of a mail that is gone; here,
\* where a number may be used again, they go.
Deleted(s, m) ==
    LET Gone(u, i) == Commit([u EXCEPT !.db.instance = @ \ {i},
                                       !.db.attached = {x \in @ : x[2] # i}], {})
        t == FoldLeft(Gone, s, SetToSeq(Attached(s.db, m, s.db.mail[m].receiver)))
    IN Commit([Spent(t, s.db.mail[m].money) EXCEPT !.db.mail[m] = None], {})

\* What a mail holds.
Held(e) == e.items \cup (IF e.money + e.cod = 0 THEN {} ELSE {"money"})

\* A receiver who is being loaded may have found the mail already.
Expired(s, m, expired) ==
    LET row == s.db.mail[m]
        p == row.receiver
        t == IF s.pl[p] # None /\ m \in DOMAIN s.pl[p].mails
             THEN [s EXCEPT !.cut = @ \cup Held(s.pl[p].mails[m])] ELSE s
    IN IF m \notin expired THEN s
       ELSE IF row.kind = "normal" /\ Attached(s.db, m, p) # {}
       THEN Returned(t, m) ELSE Deleted(t, m)

\* Spares the mails of the players in the world, not those of a player who is being loaded.
ReturnOrDeleteOldMails ==
    \E expired \in SUBSET {m \in Mail : db.mail[m] # None /\ ~InWorld(World, db.mail[m].receiver)} :
        /\ expired # {}
        /\ Outcome(FoldLeft(LAMBDA s, m : Expired(s, m, expired), World, [m \in Mail |-> m]))

-----------------------------------------------------------------------------
(* A character enters and leaves the world *)

\* The queries of a login are executed; the mails that come now are not in their results.
LoginQueries(p) ==
    /\ p \in start.client /\ pl[p] = None
    /\ Cardinality({q \in Player : pl[q] # None}) < MaxPlayers
    /\ Outcome([World EXCEPT !.pl[p] = Loaded(db, p)])

HandlePlayerLogin(p) ==
    /\ pl[p] # None /\ ~pl[p].inWorld
    /\ Outcome([World EXCEPT !.pl[p].inWorld = TRUE])

Saved(p) == Commit(_SaveMail(SaveInventoryAndGoldToDB(World, p), p), {})

SaveToDB(p) == Here(p) /\ Outcome(Saved(p))

LogoutPlayer(p) == Here(p) /\ Outcome([TradeCancel(Saved(p), p) EXCEPT !.pl[p] = None])

-----------------------------------------------------------------------------

Auctioneer(p) ==
    \/ /\ p \in start.seller
       /\ \E i \in Item, bid \in StartBid, buyout \in Buyout :
            HandleAuctionSellItem(p, i, bid, buyout)
    \/ p \in start.bidder /\ \E a \in Auction, price \in Price : HandleAuctionPlaceBid(p, a, price)
    \/ \E a \in Auction : HandleAuctionRemoveItem(p, a)

Mailbox(p) ==
    \/ /\ p \in start.writer
       /\ \E r \in Player :
            \/ \E money \in Sum : HandleSendMail(p, r, {}, money, 0)
            \/ \E i \in Item, cod \in Sum \cup {0} : HandleSendMail(p, r, {i}, 0, cod)
    \/ /\ Here(p)
       /\ \E m \in DOMAIN pl[p].mails :
            \/ HandleMailReturnToSender(p, m)
            \/ HandleMailTakeMoney(p, m)
            \/ HandleMailDelete(p, m)

TakeItem(p) ==
    Here(p) /\ \E m \in DOMAIN pl[p].mails, i \in Item : HandleMailTakeItem(p, m, i)

Character(p) == LoginQueries(p) \/ HandlePlayerLogin(p) \/ SaveToDB(p) \/ LogoutPlayer(p)

\* Bound: after a crash that left things stored by half, and after an item that was taken
\* through another mail, there are no more clients.
Regular == cut = {} /\ strayed = {}

Next ==
    /\ \/ /\ \/ \E due \in SUBSET InHouse : UpdateAuctions(due)
             \/ ReturnOrDeleteOldMails
             \/ Crash
             \/ Regular /\ \E p \in Player : Auctioneer(p) \/ Mailbox(p) \/ Character(p)
          /\ UNCHANGED strayed
       \/ Regular /\ \E p \in Player : TakeItem(p)
    /\ UNCHANGED start

Spec == Init /\ [][Next]_vars

-----------------------------------------------------------------------------
(* Properties *)

Places(i) ==
    {p \in Player : db.inventory[i] = p}
    \cup {a \in Auction : db.auction[a] # None /\ db.auction[a].item = i}
    \cup {<<m, i>> : m \in {x \in Mail : /\ db.mail[x] # None
                                        /\ i \in Attached(db, x, db.mail[x].receiver)}}

\* The money in the mails.
Letters(rows) == [m \in Mail |-> IF rows[m] = None THEN 0 ELSE rows[m].money]

Money ==
    past.money
    + SumOver(db.gold, Player) + SumOver(Deposits(db.auction), Auction)
    + SumOver(Letters(db.mail), Mail)

\* After every handler and after every crash the database has each item in one place, an
\* inventory, an auction or a mail, or has deleted it, and the money of the characters, the
\* mails and the auctions is what there was at the start less what was paid to the house and
\* to the post or deleted.  Only what the dying process had in hand, half of it stored, may
\* be lost or doubled (AuctionBidWinning, Update, HandleSendMail, HandleMailTakeItem); and an
\* item that its receiver took through another of his mails, since the mail it was in still
\* has it when it is deleted (HandleMailTakeItem, _SaveMail).
NothingLostOrDoubled ==
    /\ \A i \in Item \ (cut \cup strayed) : Cardinality(Places(i)) = IF i \in db.instance THEN 1 ELSE 0
    /\ "money" \notin cut => Money = SumOver(start.gold, Player)

\* Between two handlers the tables agree with the memory: every auction with its row, the
\* gold and the bag of a player with what his next login would find, and each of his mails
\* with its row, unless he deleted it or a mail was returned to its sender while its receiver
\* was being loaded.  An item taken through another mail is excepted, and the mail that still
\* lists it.  (AuctionEntry::UpdateBid: "after this update we should save player's money".)
MemoryStored ==
    /\ db.mail \in [Mail -> MailRow \cup {None}]
    /\ house = db.auction /\ house \in [Auction -> AuctionRow \cup {None}]
    /\ \A p \in {q \in Player : pl[q] # None} :
        LET found == Loaded(db, p) IN
        /\ pl[p].gold = found.gold /\ pl[p].bag \ strayed = found.bag \ strayed
        /\ \A m \in DOMAIN pl[p].mails :
            \/ pl[p].mails[m].state = "deleted"
            \/ Held(pl[p].mails[m]) \subseteq cut
            \/ pl[p].mails[m].items \cap strayed # {}
            \/ m \in DOMAIN found.mails /\ pl[p].mails[m] = found.mails[m]

\* The item of an auction that is sold went to the bidder whose money the owner will get, over
\* any restart in between, unless somebody bid after it was sold (HandleAuctionPlaceBid does
\* not ask).
WinnerPays ==
    \A a \in Auction : house[a] # None /\ past.won[a] # None
                        => past.won[a] = house[a].bidder \/ a \in past.late

=============================================================================
