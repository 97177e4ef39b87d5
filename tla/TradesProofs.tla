----------------------------- MODULE TradesProofs -----------------------------
(***************************************************************************)
(* Proofs about Trades, and with it about AuctionHouse and Mails, for      *)
(* every finite set of players, items, mails and auctions, every purse,    *)
(* price and fee, and crashes between any two transactions.  LedgerProofs  *)
(* has the invariant; here every handler keeps it, which gives that        *)
(* nothing is lost or doubled, that memory is what is stored, that a       *)
(* winner pays and that trades are paired, as long as nobody takes an item *)
(* through a mail that does not hold it.                                   *)
(***************************************************************************)
EXTENDS LedgerProofs

-----------------------------------------------------------------------------
(* The auctioneer: an auction begins *)

LEMMA FreeAuctionIs ==
  ASSUME InHouse # Auction
  PROVE  Min(Auction \ InHouse) \in Auction /\ house[Min(Auction \ InHouse)] = None
<1>1. PICK S : S = Auction \ InHouse
  OBVIOUS
<1>2. S # {} /\ S \subseteq Auction /\ \A a \in S : house[a] = None
  BY <1>1 DEF InHouse
<1>3. S \subseteq Nat
  BY <1>2, AuctionConstants, FS_CardinalityType
<1>4. PICK m \in S : \A n \in S : m <= n
  BY <1>2, <1>3, LeastNatural
<1>5. Min(S) \in S
  BY <1>4 DEF Min
<1> QED BY <1>1, <1>2, <1>5

\* The item i of the bag of p, who has paid the deposit, is in the new auction a.
Offered(s, p, i, a, row) ==
    [s EXCEPT !.pl[p].bag = @ \ {i}, !.house[a] = row, !.db.auction[a] = row,
              !.aitems = @ \cup {i}]

Offering(s, p, i, a, row, total) ==
    /\ Hand(s, {}, 0, {p}, {}, total) /\ s.cut = {} /\ p \in InMemory(s)
    /\ s.house = s.db.auction /\ s.aitems = Goods(s.db)
    /\ i \in s.pl[p].bag /\ BagInv(s.db, s.pl[p], p)
    /\ s.pl[p].gold = s.db.gold[p] - Deposit
    /\ a \in Auction /\ s.db.auction[a] = None
    /\ row \in AuctionRow /\ RowInv(row) /\ row.bid = 0 /\ row.item = i

LEMMA OfferingKeeps ==
  ASSUME NEW s, NEW p, NEW i, NEW a, NEW row, NEW total, Offering(s, p, i, a, row, total)
  PROVE  Kept(Commit(SaveInventoryAndGoldToDB(Offered(s, p, i, a, row), p), {}), total)
<1>1. PICK u : u = Offered(s, p, i, a, row)
  OBVIOUS
<1>2. PICK t : t = SaveInventoryAndGoldToDB(u, p)
  OBVIOUS
<1>0. /\ Hand(s, {}, 0, {p}, {}, total) /\ s.cut = {} /\ p \in InMemory(s)
      /\ s.house = s.db.auction /\ s.aitems = Goods(s.db)
      /\ i \in s.pl[p].bag /\ BagInv(s.db, s.pl[p], p)
      /\ s.pl[p].gold = s.db.gold[p] - Deposit
      /\ a \in Auction /\ s.db.auction[a] = None
      /\ row \in AuctionRow /\ RowInv(row) /\ row.bid = 0 /\ row.item = i
  BY DEF Offering
<1>3. /\ s \in States /\ s.db \in Database /\ p \in Player /\ p # None /\ s.pl[p] \in PlayerRecord
      /\ s.pl \in [Player -> PlayerRecord \cup {None}] /\ i \in Item /\ i # None /\ row # None
      /\ s.db.inventory \in [Item -> Player \cup {None}] /\ s.aitems \subseteq Item
      /\ s.db.auction \in [Auction -> AuctionRow \cup {None}] /\ s.db.instance \subseteq Item
  BY <1>0, StateFields, DatabaseFields, RecordOf, MailConstants, NoneIsNothing DEF Hand, Ledger
<1>4. PICK r : r = [s.pl[p] EXCEPT !.bag = @ \ {i}]
  OBVIOUS
<1>5. /\ r \in PlayerRecord /\ r.inWorld = s.pl[p].inWorld /\ r.trade = s.pl[p].trade
      /\ r.gold = s.pl[p].gold /\ r.mails = s.pl[p].mails /\ r.bag = s.pl[p].bag \ {i}
  BY <1>3, <1>4 DEF PlayerRecord
<1>6. PICK players : players = [s.pl EXCEPT ![p] = r]
  OBVIOUS
<1>7. players \in [Player -> PlayerRecord \cup {None}] /\ players[p] = r
      /\ \A q \in Player \ {p} : players[q] = s.pl[q]
  BY <1>3, <1>5, <1>6
<1>8. PICK v : v = [s EXCEPT !.pl = players]
  OBVIOUS
<1>9. /\ v \in States /\ v.pl = players /\ v.db = s.db /\ v.cut = s.cut /\ v.house = s.house
      /\ v.aitems = s.aitems /\ v.txs = s.txs /\ v.past = s.past
  BY <1>3, <1>7, <1>8 DEF States
<1>10. PICK d : d = PutDb(s.db, a, row)
  OBVIOUS
<1>11. /\ d \in Database /\ d.gold = s.db.gold /\ d.inventory = s.db.inventory
       /\ d.instance = s.db.instance /\ d.attached = s.db.attached /\ d.mail = s.db.mail
       /\ d.auction = [s.db.auction EXCEPT ![a] = row]
       /\ \A j \in Item : (Sells(s.db, a, j) <=> (row # None /\ row.item = j)) => SameItem(s.db, d, j)
  BY <1>0, <1>3, <1>10, PutDbIs
<1>12. d.auction[a] = row /\ \A b \in Auction : b # a => d.auction[b] = s.db.auction[b]
  BY <1>0, <1>3, <1>11
<1>13. /\ u \in States /\ u.db = d /\ u.pl = players /\ u.cut = {} /\ u.txs = s.txs
       /\ u.past = s.past /\ u.house = d.auction /\ u.aitems = s.aitems \cup {i}
  <2>1. u = [s EXCEPT !.pl = players, !.house = [s.house EXCEPT ![a] = row], !.db = d,
                      !.aitems = s.aitems \cup {i}]
    BY <1>1, <1>3, <1>4, <1>6, <1>10 DEF Offered, PutDb, States, Database
  <2>2. [s.house EXCEPT ![a] = row] = d.auction /\ d.auction \in [Auction -> AuctionRow \cup {None}]
    BY <1>0, <1>11, DatabaseFields
  <2>3. u = [s EXCEPT !.pl = players, !.house = d.auction, !.db = d, !.aitems = s.aitems \cup {i}]
    BY <2>1, <2>2, Zenon
  <2> QED BY <1>0, <1>3, <1>7, <1>11, <2>2, <2>3 DEF States
<1>14. \A j \in Item : Clean(s.db, j) /\ Exact(s.db, j)
  BY <1>0 DEF Hand, Tracked, Ledger
<1>15. /\ i \in s.db.instance /\ s.db.inventory[i] = p
       /\ \A b \in Auction : ~Sells(s.db, b, i)
       /\ \A m \in Mail, q \in Player : ~Posted(s.db, m, i, q)
  BY <1>0, <1>3, <1>14 DEF BagInv, Clean
<1>16. WonInv(d, s.past)
  <2>1. WonInv(s.db, s.past)
    BY <1>0 DEF Hand, Ledger
  <2> QED BY <1>0, <1>12, <2>1 DEF WonInv
<1>17. Ledger(u, {i}, 0 - Deposit, total)
  <2>1. PICK K : K = {i}
    OBVIOUS
  <2>2. Ledger(s, {}, 0, total) /\ (row # None => RowInv(row)) /\ row \in AuctionRow \cup {None}
    BY <1>0 DEF Hand
  <2>3. \A j \in Item \ K : j \notin {} /\ (Sells(s.db, a, j) <=> row # None /\ row.item = j)
    BY <1>0, <2>1 DEF Sells
  <2>4. \A b \in Auction, j \in Item : b # a /\ Sells(s.db, b, j) => ~(row # None /\ row.item = j)
    BY <1>0, <1>15
  <2>5. u.db = PutDb(s.db, a, row) /\ u.past = s.past /\ u.txs = s.txs /\ u.cut = s.cut
        /\ WonInv(u.db, u.past) /\ u \in States
    BY <1>0, <1>10, <1>13, <1>16
  <2>6. Ledger(u, K, 0 + (AuctionWorth(s.db.auction[a]) - AuctionWorth(row)), total)
    BY <1>0, <2>2, <2>3, <2>4, <2>5, LedgerPut
  <2>7. 0 + (AuctionWorth(s.db.auction[a]) - AuctionWorth(row)) = 0 - Deposit
    BY <1>0, <1>3, AuctionConstants DEF AuctionWorth
  <2> QED BY <2>1, <2>6, <2>7
<1>18. Memory(u, {p}, {}) /\ FreeMails(u) = FreeMails(s) /\ InMemory(u) = InMemory(s)
  <2>1. PICK G, M : G = {p} /\ M = {}
    OBVIOUS
  <2>2. Memory(s, G, M) /\ p \in G /\ v.pl = [s.pl EXCEPT ![p] = r] /\ v.db = s.db /\ v.cut = s.cut
        /\ DOMAIN r.mails = DOMAIN s.pl[p].mails
        /\ \A n \in DOMAIN r.mails \ M : r.mails[n] = s.pl[p].mails[n]
    BY <1>0, <1>5, <1>6, <1>9, <2>1 DEF Hand
  <2>3. Memory(v, G, M) /\ FreeMails(v) = FreeMails(s) /\ InMemory(v) = InMemory(s)
    <3>1. s \in States /\ p \in InMemory(s) /\ r \in PlayerRecord
          /\ r.inWorld = s.pl[p].inWorld /\ r.trade = s.pl[p].trade
      BY <1>0, <1>3, <1>5
    <3> QED BY <2>2, <3>1, MemoryRecord, SMTT(60)
  <2>4. u.pl = v.pl /\ v.cut \subseteq u.cut /\ SameTables(v.db, u.db, G)
    BY <1>0, <1>9, <1>11, <1>13 DEF SameTables
  <2>5. Memory(u, G, M) /\ FreeMails(u) = FreeMails(v) /\ InMemory(u) = InMemory(v)
    BY <2>3, <2>4, MemorySame
  <2> QED BY <2>1, <2>3, <2>5, Zenon
<1>19. Saving(u, p, {i}, {i}, 0 - Deposit, total)
  <2>1. (0 - Deposit) + u.db.gold[p] = u.pl[p].gold
    <3>1. s.db.gold[p] \in 0 .. MaxGold /\ MaxGold \in Nat /\ Deposit \in Nat
      BY <1>3, DatabaseFields, MailConstants, AuctionConstants
    <3> QED BY <1>0, <1>5, <1>7, <1>11, <1>13, <3>1
  <2>2. u.pl[p].bag \subseteq u.db.instance
    BY <1>0, <1>5, <1>7, <1>11, <1>13 DEF BagInv
  <2>3. ASSUME NEW q \in InMemory(u) \ {p} PROVE u.pl[q].bag \cap u.pl[p].bag = {}
    <3>1. BagInv(s.db, s.pl[q], q) /\ q \in Player /\ q # p
      BY <1>0, <1>18, <2>3 DEF Hand, Memory, InMemory
    <3> QED BY <1>0, <1>5, <1>7, <1>13, <3>1 DEF BagInv
  <2>4. \A j \in Item \ {i} : BagHas(u.db, p, u.pl[p], j)
    BY <1>0, <1>3, <1>5, <1>7, <1>11, <1>13, <1>14 DEF BagInv, BagHas, Clean
  <2> QED BY <1>0, <1>17, <1>18, <2>1, <2>2, <2>3, <2>4 DEF Saving
<1>20. PICK H : H = {i}
  OBVIOUS
<1>21. Ledger(t, H \cup H, 0, total) /\ Memory(t, {}, {}) /\ SavedAs(u, t, p)
  BY <1>2, <1>19, <1>20, SavingIs
<1>22. Exact(t.db, i)
  <2>1. i \notin u.pl[p].bag
    BY <1>5, <1>7, <1>13
  <2>2. t.db.inventory[i] = None
    BY <1>3, <1>11, <1>13, <1>15, <1>21, <2>1 DEF SavedAs
  <2>3. \A m \in Mail, q \in Player : ~Posted(t.db, m, i, q)
    <3>1. t.db.attached = s.db.attached
      BY <1>11, <1>13, <1>21 DEF SavedAs
    <3>2. \A m \in Mail, q \in Player : ~Posted(s.db, m, i, q)
      BY <1>15
    <3> QED BY <3>1, <3>2, Zenon DEF Posted
  <2>4. i \in t.db.instance /\ Sells(t.db, a, i)
    BY <1>0, <1>3, <1>11, <1>12, <1>13, <1>15, <1>21 DEF SavedAs, Sells
  <2> QED BY <1>0, <2>2, <2>3, <2>4 DEF Exact, Clean, Somewhere
<1>23. Ledger(t, {}, 0, total)
  <2>1. \A j \in (Item \cap (H \cup H)) \ {} : Exact(t.db, j)
    BY <1>20, <1>22
  <2> QED BY <1>21, <2>1, LedgerLess
<1>24. t.cut = {} /\ t.house = t.db.auction
  BY <1>13, <1>21 DEF SavedAs, DbStep
<1>25. t.aitems = Goods(t.db)
  <2>1. \A j \in Item : (\E b \in Auction : Sells(t.db, b, j))
                          <=> j = i \/ \E b \in Auction : Sells(s.db, b, j)
    BY <1>0, <1>3, <1>12, <1>13, <1>21 DEF SavedAs, Sells
  <2>2. t.aitems = Goods(s.db) \cup {i}
    BY <1>0, <1>13, <1>21 DEF SavedAs, DbStep
  <2> QED BY <1>3, <2>1, <2>2 DEF Goods
<1>26. Kept(Commit(t, {}), total)
  BY <1>21, <1>23, <1>24, <1>25, KeptCommit
<1> QED BY <1>1, <1>2, <1>26

LEMMA SellItemKeeps ==
  ASSUME NEW total, Kept(World, total), Enough(World), cut = {}, NEW p \in Player, NEW i \in Item,
         NEW bid \in StartBid, NEW buyout \in Buyout, HandleAuctionSellItem(p, i, bid, buyout)
  PROVE  Kept(World, total)' /\ Enough(World)'
<1>1. PICK s : s = World
  OBVIOUS
<1>2. PICK a, row : a = Min(Auction \ InHouse) /\
          row = [item |-> i, owner |-> p, startbid |-> bid, bid |-> 0, buyout |-> buyout,
                 bidder |-> None, sold |-> FALSE]
  OBVIOUS
<1>3. PICK d, w : d = -Deposit /\ w = ModifyMoney(s, p, d)
  OBVIOUS
<1>4. PICK t : t = Commit(SaveInventoryAndGoldToDB(Offered(w, p, i, a, row), p), {})
  OBVIOUS
<1>5. /\ Here(p) /\ i \in pl[p].bag /\ pl[p].gold >= Deposit /\ InHouse # Auction
      /\ Handled(t)
  <2> DEFINE R == [item |-> i, owner |-> p, startbid |-> bid, bid |-> 0, buyout |-> buyout,
                   bidder |-> None, sold |-> FALSE]
             T(x, e) == Commit(SaveInventoryAndGoldToDB(
                          [ModifyMoney(World, p, -Deposit) EXCEPT !.pl[p].bag = @ \ {i},
                              !.house[x] = e, !.db.auction[x] = e, !.aitems = @ \cup {i}], p), {})
  <2>1. /\ Here(p) /\ i \in pl[p].bag \ aitems /\ pl[p].gold >= Deposit /\ InHouse # Auction
        /\ Handled(T(Min(Auction \ InHouse), R))
    BY Zenon DEF HandleAuctionSellItem
  <2>2. t = T(a, row)
    BY <1>1, <1>3, <1>4, Zenon DEF Offered
  <2>3. R = row
    BY <1>2, Zenon
  <2> HIDE DEF R, T
  <2> QED BY <1>2, <2>1, <2>2, <2>3, Zenon
<1>6. /\ s.pl = pl /\ s \in States /\ p \in InMemory(s) /\ s.cut = {} /\ s.db \in Database
      /\ s.house = s.db.auction /\ s.aitems = Goods(s.db) /\ Kept(s, total) /\ s.house = house
      /\ s.pl[p].gold = s.db.gold[p] /\ BagInv(s.db, s.pl[p], p) /\ s.pl[p].gold \in 0 .. MaxGold
  <2>1. s.pl = pl /\ s \in States /\ p \in InMemory(s) /\ s.cut = {} /\ s.db \in Database
        /\ Kept(s, total) /\ s.house = house
    BY <1>1, <1>5, WorldIs, KeptStates DEF Here, InWorld, InMemory
  <2>2. s.house = s.db.auction /\ s.aitems = Goods(s.db) /\ PlayerInv(s.db, s.cut, s.pl[p], p)
    BY <2>1 DEF Kept
  <2>3. s.pl[p].gold \in 0 .. MaxGold
    BY <2>1, RecordOf
  <2> QED BY <2>1, <2>2, <2>3 DEF PlayerInv, PurseInv
<1>7. d \in Int /\ d = 0 - Deposit /\ s.pl[p].gold + d \in 0 .. MaxGold
      /\ s.pl[p].gold + d = s.pl[p].gold - Deposit
  BY <1>3, <1>5, <1>6, MailConstants, AuctionConstants
<1>8. Hand(s, {}, 0, {p}, {}, total)
  BY <1>6, HandOf
<1>9. Hand(w, {}, 0, {p}, {}, total) /\ Charging(s, w, p) /\ w.pl[p].gold = s.pl[p].gold + d
  <2>1. w = ModifyMoney(s, p, d) /\ p \in InMemory(s) /\ d \in Int /\ s.pl[p].gold + d \in 0 .. MaxGold
    BY <1>3, <1>6, <1>7
  <2> QED BY <1>8, <2>1, HandCharge
<1>10. /\ w.db = s.db /\ w.house = s.house /\ w.aitems = s.aitems /\ w.cut = {} /\ p \in InMemory(w)
       /\ w.pl[p].bag = s.pl[p].bag /\ BagInv(w.db, w.pl[p], p)
  BY <1>6, <1>9 DEF Charging, BagInv
<1>11. a \in Auction /\ house[a] = None
  BY <1>2, <1>5, FreeAuctionIs
<1>12. row \in AuctionRow /\ RowInv(row) /\ row.bid = 0 /\ row.item = i
  <2>1. i # None
    BY MailConstants
  <2> QED BY <1>2, <2>1 DEF AuctionRow, RowInv
<1>13. Offering(w, p, i, a, row, total)
  BY <1>5, <1>6, <1>7, <1>9, <1>10, <1>11, <1>12 DEF Offering
<1>14. Kept(t, total)
  BY <1>4, <1>13, OfferingKeeps
<1> QED BY <1>5, <1>14, HandledKeeps

-----------------------------------------------------------------------------
(* An auction is won *)

\* t is s, but for the transactions.
Copied(s, t) ==
    /\ t.db = s.db /\ t.pl = s.pl /\ t.house = s.house /\ t.aitems = s.aitems
    /\ t.past = s.past /\ t.cut = s.cut
    /\ FreeMails(t) = FreeMails(s) /\ InMemory(t) = InMemory(s)

LEMMA HandCommit ==
  ASSUME NEW s, NEW H, NEW D, NEW G, NEW M, NEW total, Hand(s, H, D, G, M, total),
         NEW open \in SUBSET Thing, H \subseteq open \cup s.cut,
         D = 0 \/ "money" \in open \cup s.cut,
         NEW t, t = Commit(s, open)
  PROVE  Hand(t, H, D, G, M, total) /\ Copied(s, t)
<1>1. /\ s \in States /\ Ledger(s, H, D, total) /\ Memory(s, G, M)
      /\ \A i \in Item : Tracked(s, i) => Clean(s.db, i)
  BY DEF Hand, Ledger
<1>2. /\ t.db = s.db /\ t.pl = s.pl /\ t.house = s.house /\ t.aitems = s.aitems
      /\ t.past = s.past /\ t.cut = s.cut
  BY <1>1, CommitIs
<1>3. Ledger(t, H, D, total)
  BY <1>1, LedgerCommit
<1>4. SameTables(s.db, t.db, G) /\ s.cut \subseteq t.cut
  BY <1>2 DEF SameTables
<1>5. Memory(t, G, M) /\ FreeMails(t) = FreeMails(s) /\ InMemory(t) = InMemory(s)
  BY <1>1, <1>2, <1>4, MemorySame
<1>6. \A i \in Item : Tracked(t, i) => Clean(t.db, i)
  BY <1>1, <1>2, <1>5 DEF Tracked
<1> QED BY <1>2, <1>3, <1>5, <1>6 DEF Hand, Copied

\* Nothing else happened to the auctions and to who is in memory; a number was taken at most.
Aside(s, t, a) ==
    /\ t.cut = s.cut /\ InMemory(t) = InMemory(s)
    /\ \A b \in Auction : b # a => t.house[b] = s.house[b]
    /\ FreeMails(t) = FreeMails(s) \/ \E m \in FreeMails(s) : FreeMails(t) = FreeMails(s) \ {m}

\* The auction a is sold, as e; its item, if it still has it, is on the way to the winner.
Awarding(s, a, e, I, total) ==
    /\ Hand(s, I, 0, {}, {}, total) /\ a \in Auction /\ e \in AuctionRow /\ I = {e.item} \ {None}
    /\ e.sold /\ e.bidder \in Player /\ s.house[a] = e
    /\ \A b \in Auction : b # a => s.house[b] = s.db.auction[b]
    /\ s.db.auction[a] = [e EXCEPT !.item = None]
    /\ I \subseteq s.aitems /\ Goods(s.db) = s.aitems \ I
    /\ \A i \in I : Tracked(s, i) => i \in s.db.instance /\ Nowhere(s.db, i)
    /\ FreeMails(s) # {}

LEMMA AwardedIs ==
  ASSUME NEW s, NEW a, NEW e, NEW I, NEW total, Awarding(s, a, e, I, total),
         NEW t, t = SendAuctionWonMail(s, a)
  PROVE  Kept(t, total) /\ Aside(s, t, a) /\ t.house[a] # None /\ t.house[a].sold
<1>0. /\ Hand(s, I, 0, {}, {}, total) /\ a \in Auction /\ e \in AuctionRow /\ I = {e.item} \ {None}
      /\ e.sold /\ e.bidder \in Player /\ s.house[a] = e
      /\ \A b \in Auction : b # a => s.house[b] = s.db.auction[b]
      /\ s.db.auction[a] = [e EXCEPT !.item = None]
      /\ I \subseteq s.aitems /\ Goods(s.db) = s.aitems \ I
      /\ \A i \in I : Tracked(s, i) => i \in s.db.instance /\ Nowhere(s.db, i)
      /\ FreeMails(s) # {}
  BY DEF Awarding
<1>1. /\ s \in States /\ s.db \in Database /\ s.past \in Past /\ s.aitems \subseteq Item
      /\ s.house \in [Auction -> AuctionRow \cup {None}] /\ e # None /\ None \notin Item
      /\ s.db.auction \in [Auction -> AuctionRow \cup {None}] /\ Ledger(s, I, 0, total)
      /\ Memory(s, {}, {}) /\ \A i \in Item : Tracked(s, i) => Clean(s.db, i)
  BY <1>0, StateFields, DatabaseFields, MailConstants, NoneIsNothing DEF Hand, Ledger
<1>2. PICK f : f = [e EXCEPT !.item = None]
  OBVIOUS
<1>3. f \in AuctionRow /\ f # None /\ f.sold /\ f.item = None /\ f.bidder = e.bidder
  BY <1>0, <1>1, <1>2, NoneIsNothing DEF AuctionRow
<1>4. s.db.auction[a] = f
  BY <1>0, <1>2
<1>5. CASE e.item \notin s.aitems
  <2>1. I = {} /\ e.item = None
    BY <1>0, <1>5
  <2>2. t = s
    BY <1>0, <1>5 DEF SendAuctionWonMail
  <2>3. f = e
    BY <1>0, <1>2, <2>1 DEF AuctionRow
  <2>4. s.house = s.db.auction
    BY <1>0, <1>1, <1>4, <2>3
  <2>5. s.aitems = Goods(s.db)
    BY <1>0, <2>1
  <2>6. Hand(s, {}, 0, {}, {}, total)
    BY <1>0, <2>1
  <2>7. Kept(s, total)
    BY <2>4, <2>5, <2>6, KeptHand
  <2> QED BY <1>0, <1>1, <2>2, <2>7 DEF Aside
<1>6. CASE e.item \in s.aitems
  <2>1. PICK i : i = e.item
    OBVIOUS
  <2>2. i \in Item /\ I = {i}
    BY <1>0, <1>1, <1>6, <2>1
  <2>3. PICK h : h = [s.past EXCEPT !.won[a] = e.bidder]
    OBVIOUS
  <2>4. /\ h \in Past /\ h.money = s.past.money /\ h.late = s.past.late /\ h.won[a] = e.bidder
        /\ \A b \in Auction : b # a => h.won[b] = s.past.won[b]
    BY <1>0, <1>1, <2>3 DEF Past
  <2>5. PICK rows : rows = [s.house EXCEPT ![a] = f]
    OBVIOUS
  <2>6. rows = s.db.auction
    BY <1>0, <1>1, <1>4, <2>5
  <2>7. PICK u : u = [s EXCEPT !.aitems = s.aitems \ {i}, !.house = rows, !.past = h]
    OBVIOUS
  <2>8. /\ u \in States /\ u.aitems = s.aitems \ {i} /\ u.house = s.db.auction /\ u.past = h
        /\ u.db = s.db /\ u.pl = s.pl /\ u.cut = s.cut /\ u.txs = s.txs
    BY <1>1, <2>4, <2>6, <2>7 DEF States
  <2>9. t = SendMailTo(u, e.bidder, None, "auction", 0, 0, {i}, {})
    <3>1. t = SendMailTo([s EXCEPT !.aitems = @ \ {e.item}, !.house[a].item = None,
                              !.past.won[a] = e.bidder],
                         e.bidder, None, "auction", 0, 0, {e.item}, {})
      <4> DEFINE T(x) == IF x.item \notin s.aitems THEN s
                         ELSE SendMailTo([s EXCEPT !.aitems = @ \ {x.item}, !.house[a].item = None,
                                                   !.past.won[a] = x.bidder],
                                         x.bidder, None, "auction", 0, 0, {x.item}, {})
      <4>1. t = T(s.house[a])
        BY Zenon DEF SendAuctionWonMail
      <4>2. T(s.house[a]) = T(e)
        <5> HIDE DEF T
        <5> QED BY <1>0
      <4> QED BY <1>6, <4>1, <4>2
    <3>2. [s EXCEPT !.aitems = @ \ {i}, !.house[a].item = None, !.past.won[a] = e.bidder] = u
      BY <1>0, <1>1, <1>2, <2>3, <2>5, <2>7 DEF States
    <3> QED BY <2>1, <3>1, <3>2
  <2>10. Hand(u, I, 0, {}, {}, total) /\ FreeMails(u) = FreeMails(s) /\ InMemory(u) = InMemory(s)
    <3>1. WonInv(u.db, u.past)
      <4>1. WonInv(s.db, s.past)
        BY <1>1 DEF Ledger
      <4> QED BY <1>3, <1>4, <2>4, <2>8, <4>1 DEF WonInv
    <3>2. Ledger(u, I, 0, total)
      BY <1>1, <2>4, <2>8, <3>1, LedgerSame
    <3>3. PICK G : G = {}
      OBVIOUS
    <3>4. SameTables(s.db, u.db, G) /\ Memory(s, G, G) /\ u.pl = s.pl /\ s.cut \subseteq u.cut
      BY <1>1, <2>8, <3>3 DEF SameTables
    <3>5. Memory(u, G, G) /\ FreeMails(u) = FreeMails(s) /\ InMemory(u) = InMemory(s)
      BY <3>4, MemorySame
    <3>6. \A j \in Item : Tracked(u, j) => Clean(u.db, j)
      BY <1>1, <2>8, <3>5 DEF Tracked
    <3> QED BY <3>2, <3>3, <3>5, <3>6 DEF Hand
  <2>11. Posting(u, I, 0, {}, e.bidder, None, "auction", 0, 0, I, {})
    <3>1. \A j \in I : Tracked(u, j) => j \in u.db.instance /\ Nowhere(u.db, j)
      BY <1>0, <2>8, <2>10 DEF Tracked
    <3> QED BY <1>0, <2>2, <2>10, <3>1 DEF Posting, Thing
  <2>12. t = SendMailTo(u, e.bidder, None, "auction", 0, 0, I, {})
    BY <2>2, <2>9
  <2>13. Hand(t, {}, 0 - 0, {}, {}, total) /\ Delivered(u, t, I)
         /\ \E m \in FreeMails(u) : FreeMails(t) = FreeMails(u) \ {m}
    BY <2>10, <2>11, <2>12, HandSend
  <2>14. t.house = t.db.auction
    BY <2>8, <2>13 DEF Delivered
  <2>15. t.aitems = Goods(t.db)
    <3>1. Goods(t.db) = Goods(s.db)
      BY <2>8, <2>13 DEF Delivered, Goods, Sells
    <3> QED BY <1>0, <2>2, <2>8, <2>13, <3>1 DEF Delivered
  <2>16. Hand(t, {}, 0, {}, {}, total)
    BY <2>13
  <2>17. Kept(t, total)
    BY <2>14, <2>15, <2>16, KeptHand
  <2>18. t.house[a] = f /\ \A b \in Auction : b # a => t.house[b] = s.house[b]
    BY <1>0, <1>4, <2>8, <2>13 DEF Delivered
  <2>19. Aside(s, t, a)
    BY <2>8, <2>10, <2>13, <2>18 DEF Aside, Delivered
  <2> QED BY <1>3, <2>17, <2>18, <2>19
<1> QED BY <1>5, <1>6

\* The auction a has the row h in memory, and the table does not have its bid yet.
Bid(s, G, a, h, D, total) ==
    /\ Hand(s, {}, D, G, {}, total) /\ a \in Auction /\ s.db.auction[a] # None
    /\ h \in AuctionRow /\ h.bid # 0 /\ h.bidder \in Player
    /\ s.house[a] = h /\ \A b \in Auction : b # a => s.house[b] = s.db.auction[b]
    /\ s.aitems = Goods(s.db)
    /\ h.item = s.db.auction[a].item /\ h.sold = s.db.auction[a].sold
    /\ h.owner = s.db.auction[a].owner /\ h.startbid = s.db.auction[a].startbid
    /\ h.buyout = s.db.auction[a].buyout
    /\ h.sold => a \in s.past.late

BidCost(s, a, h) == AuctionWorth(s.db.auction[a]) - AuctionWorth(h)

\* t is s, and the auction a is sold.
Sold(s, a) ==
    [s EXCEPT !.house[a].sold = TRUE,
              !.db.auction[a].item = None, !.db.auction[a].sold = TRUE,
              !.db.auction[a].bidder = s.house[a].bidder, !.db.auction[a].bid = s.house[a].bid]

SoldAs(s, t, a, e) ==
    /\ t \in States /\ t.house[a] = e /\ t.db.auction[a] = [e EXCEPT !.item = None]
    /\ \A b \in Auction : b # a => t.house[b] = s.house[b] /\ t.db.auction[b] = s.db.auction[b]
    /\ t.pl = s.pl /\ t.cut = s.cut /\ t.aitems = s.aitems
    /\ FreeMails(t) = FreeMails(s) /\ InMemory(t) = InMemory(s)
    /\ t.db.gold = s.db.gold /\ t.db.instance = s.db.instance /\ t.db.inventory = s.db.inventory
    /\ Goods(t.db) = Goods(s.db) \ {e.item}
    /\ \A i \in {e.item} \ {None} : Tracked(t, i) => i \in t.db.instance /\ Nowhere(t.db, i)

\* s with the row c of the auction a.
Rowed(s, rows, a, c) ==
    [s EXCEPT !.house = rows, !.db = [s.db EXCEPT !.auction = [s.db.auction EXCEPT ![a] = c]]]

SetSold(w, a, x) == [w EXCEPT !.db.auction[a].sold = x]
SetBidder(w, a, x) == [w EXCEPT !.db.auction[a].bidder = x]
SetBid(w, a, x) == [w EXCEPT !.db.auction[a].bid = x]
RowSold(c, x) == [c EXCEPT !.sold = x]
RowBidder(c, x) == [c EXCEPT !.bidder = x]
RowBid(c, x) == [c EXCEPT !.bid = x]

LEMMA RowedIs ==
  ASSUME NEW s \in States, NEW rows, NEW a \in Auction, NEW c, NEW x,
         NEW w, w = Rowed(s, rows, a, c)
  PROVE  /\ SetSold(w, a, x) = Rowed(s, rows, a, RowSold(c, x))
         /\ SetBidder(w, a, x) = Rowed(s, rows, a, RowBidder(c, x))
         /\ SetBid(w, a, x) = Rowed(s, rows, a, RowBid(c, x))
<1>1. PICK g : g = [s.db.auction EXCEPT ![a] = c]
  OBVIOUS
<1>2. PICK d : d = [s.db EXCEPT !.auction = g]
  OBVIOUS
<1>3. w = [s EXCEPT !.house = rows, !.db = d]
  BY <1>1, <1>2, Zenon DEF Rowed
<1>4. s.db \in Database /\ s.db.auction \in [Auction -> AuctionRow \cup {None}]
  BY StateFields, DatabaseFields
<1>5. w.db = d /\ d.auction = g /\ g[a] = c
  BY <1>1, <1>2, <1>3, <1>4 DEF States, Database
<1>6. ASSUME NEW k
      PROVE  [w EXCEPT !.db = [d EXCEPT !.auction = [g EXCEPT ![a] = k]]] = Rowed(s, rows, a, k)
  <2>1. PICK f : f = [g EXCEPT ![a] = k]
    OBVIOUS
  <2>2. f = [s.db.auction EXCEPT ![a] = k]
    BY <1>1, <1>4, <2>1
  <2>3. PICK e : e = [d EXCEPT !.auction = f]
    OBVIOUS
  <2>4. e = [s.db EXCEPT !.auction = f]
    BY <1>2, <1>4, <2>3 DEF Database
  <2>5. [w EXCEPT !.db = e] = [s EXCEPT !.house = rows, !.db = e]
    BY <1>3 DEF States
  <2> QED BY <2>1, <2>2, <2>3, <2>4, <2>5, Zenon DEF Rowed
<1>7. [w EXCEPT !.db.auction[a].sold = x]
        = [w EXCEPT !.db = [d EXCEPT !.auction = [g EXCEPT ![a] = [c EXCEPT !.sold = x]]]]
  BY <1>5
<1>8. [w EXCEPT !.db.auction[a].bidder = x]
        = [w EXCEPT !.db = [d EXCEPT !.auction = [g EXCEPT ![a] = [c EXCEPT !.bidder = x]]]]
  BY <1>5
<1>9. [w EXCEPT !.db.auction[a].bid = x]
        = [w EXCEPT !.db = [d EXCEPT !.auction = [g EXCEPT ![a] = [c EXCEPT !.bid = x]]]]
  BY <1>5
<1>10. SetSold(w, a, x) = Rowed(s, rows, a, RowSold(c, x))
  BY <1>6, <1>7, Zenon DEF SetSold, RowSold
<1>11. SetBidder(w, a, x) = Rowed(s, rows, a, RowBidder(c, x))
  BY <1>6, <1>8, Zenon DEF SetBidder, RowBidder
<1>12. SetBid(w, a, x) = Rowed(s, rows, a, RowBid(c, x))
  BY <1>6, <1>9, Zenon DEF SetBid, RowBid
<1> QED BY <1>10, <1>11, <1>12

LEMMA SoldIs ==
  ASSUME NEW s, NEW G, NEW a, NEW h, NEW D, NEW total, Bid(s, G, a, h, D, total),
         NEW e, e = [h EXCEPT !.sold = TRUE], NEW t, t = Sold(s, a), NEW I, I = {h.item} \ {None}
  PROVE  Hand(t, I, D + BidCost(s, a, h), G, {}, total) /\ SoldAs(s, t, a, e)
<1>0. /\ Hand(s, {}, D, G, {}, total) /\ a \in Auction /\ s.db.auction[a] # None
      /\ h \in AuctionRow /\ h.bid # 0 /\ h.bidder \in Player
      /\ s.house[a] = h /\ \A b \in Auction : b # a => s.house[b] = s.db.auction[b]
      /\ s.aitems = Goods(s.db)
      /\ h.item = s.db.auction[a].item /\ h.sold = s.db.auction[a].sold
      /\ h.owner = s.db.auction[a].owner /\ h.startbid = s.db.auction[a].startbid
      /\ h.buyout = s.db.auction[a].buyout
      /\ h.sold => a \in s.past.late
  BY DEF Bid
<1>1. /\ s \in States /\ s.db \in Database /\ s.past \in Past /\ s.aitems \subseteq Item
      /\ s.house \in [Auction -> AuctionRow \cup {None}] /\ None \notin Item
      /\ s.db.auction \in [Auction -> AuctionRow \cup {None}] /\ Ledger(s, {}, D, total)
      /\ Memory(s, G, {}) /\ (\A i \in Item : Tracked(s, i) => Clean(s.db, i))
      /\ s.db.auction[a] \in AuctionRow
  BY <1>0, StateFields, DatabaseFields, MailConstants DEF Hand, Ledger
<1>2. PICK row : row = [e EXCEPT !.item = None]
  OBVIOUS
<1>3. /\ e \in AuctionRow /\ row \in AuctionRow /\ row # None /\ e # None
      /\ e.sold /\ row.sold /\ row.item = None /\ row.bid = h.bid /\ row.bidder = h.bidder
      /\ e.item = h.item /\ RowInv(row)
  <2>1. e \in AuctionRow /\ e.sold /\ e.bid = h.bid /\ e.bidder = h.bidder /\ e.item = h.item
    BY <1>0 DEF AuctionRow
  <2>2. row \in AuctionRow /\ row.sold /\ row.bid = h.bid /\ row.bidder = h.bidder /\ row.item = None
    BY <1>2, <2>1 DEF AuctionRow
  <2>3. h.bidder # None
    BY <1>0, MailConstants
  <2> QED BY <1>0, <2>1, <2>2, <2>3, NoneIsNothing DEF RowInv
<1>4. PICK d : d = PutDb(s.db, a, row)
  OBVIOUS
<1>5. /\ d \in Database /\ d.gold = s.db.gold /\ d.inventory = s.db.inventory
      /\ d.instance = s.db.instance /\ d.attached = s.db.attached /\ d.mail = s.db.mail
      /\ d.auction = [s.db.auction EXCEPT ![a] = row]
      /\ \A j \in Item : (Sells(s.db, a, j) <=> (row # None /\ row.item = j)) => SameItem(s.db, d, j)
  BY <1>0, <1>1, <1>3, <1>4, PutDbIs
<1>6. d.auction[a] = row /\ \A b \in Auction : b # a => d.auction[b] = s.db.auction[b]
  BY <1>0, <1>1, <1>5
<1>7. PICK rows : rows = [s.house EXCEPT ![a] = e]
  OBVIOUS
<1>8. /\ rows \in [Auction -> AuctionRow \cup {None}] /\ rows[a] = e
      /\ \A b \in Auction : b # a => rows[b] = s.house[b]
  BY <1>0, <1>1, <1>3, <1>7
<1>9. t = [s EXCEPT !.house = rows, !.db = d]
  <2>1. row = [s.db.auction[a] EXCEPT !.item = None, !.sold = TRUE, !.bidder = h.bidder,
                                      !.bid = h.bid]
    <3>1. PICK c : c = s.db.auction[a]
      OBVIOUS
    <3>2. row = [h EXCEPT !.sold = TRUE, !.item = None]
      BY <1>0, <1>2 DEF AuctionRow
    <3>3. c \in AuctionRow /\ h.owner = c.owner /\ h.startbid = c.startbid /\ h.buyout = c.buyout
      BY <1>0, <1>1, <3>1
    <3>4. [h EXCEPT !.sold = TRUE, !.item = None]
            = [c EXCEPT !.item = None, !.sold = TRUE, !.bidder = h.bidder, !.bid = h.bid]
      BY <1>0, <3>3, Zenon DEF AuctionRow
    <3> QED BY <3>1, <3>2, <3>4
  <2>2. t = [s EXCEPT !.house[a].sold = TRUE,
              !.db.auction[a].item = None, !.db.auction[a].sold = TRUE,
              !.db.auction[a].bidder = h.bidder, !.db.auction[a].bid = h.bid]
    BY <1>0, Zenon DEF Sold
  <2>3. PICK c, x, y, z : c = s.db.auction[a] /\ x = h.bidder /\ y = h.bid /\ z = TRUE
    OBVIOUS
  <2>4. t = [s EXCEPT !.house[a].sold = TRUE,
              !.db.auction[a].item = None, !.db.auction[a].sold = z,
              !.db.auction[a].bidder = x, !.db.auction[a].bid = y]
    BY <2>2, <2>3, Zenon
  <2>5. row = [c EXCEPT !.item = None, !.sold = z, !.bidder = x, !.bid = y]
    BY <2>1, <2>3, Zenon
  <2>6. PICK table : table = [s.db.auction EXCEPT ![a] = row]
    OBVIOUS
  <2>7. PICK s1 : s1 = [s EXCEPT !.house[a].sold = TRUE]
    OBVIOUS
  <2>8. PICK s2 : s2 = [s1 EXCEPT !.db.auction[a].item = None]
    OBVIOUS
  <2>9. PICK s3 : s3 = [s2 EXCEPT !.db.auction[a].sold = z]
    OBVIOUS
  <2>10. PICK s4 : s4 = [s3 EXCEPT !.db.auction[a].bidder = x]
    OBVIOUS
  <2>11. PICK s5 : s5 = [s4 EXCEPT !.db.auction[a].bid = y]
    BY Zenon
  <2>12. t = s5
    BY <2>4, <2>7, <2>8, <2>9, <2>10, <2>11, Zenon
  <2>13. s1 = [s EXCEPT !.house = rows]
    BY <1>0, <1>1, <1>7, <2>7 DEF States
  <2>14. PICK c1, c2, c3, c4 : /\ c1 = [c EXCEPT !.item = None] /\ c2 = [c1 EXCEPT !.sold = z]
                               /\ c3 = [c2 EXCEPT !.bidder = x] /\ c4 = [c3 EXCEPT !.bid = y]
    OBVIOUS
  <2>15. s2 = Rowed(s, rows, a, c1)
    BY <1>0, <1>1, <2>3, <2>8, <2>13, <2>14 DEF States, Database, Rowed
  <2>16. s3 = Rowed(s, rows, a, c2)
    <3>1. SetSold(s2, a, z) = Rowed(s, rows, a, RowSold(c1, z))
      BY <1>0, <1>1, <2>15, RowedIs
    <3> QED BY <2>9, <2>14, <3>1, Zenon DEF SetSold, RowSold
  <2>17. s4 = Rowed(s, rows, a, c3)
    <3>1. SetBidder(s3, a, x) = Rowed(s, rows, a, RowBidder(c2, x))
      BY <1>0, <1>1, <2>16, RowedIs
    <3> QED BY <2>10, <2>14, <3>1, Zenon DEF SetBidder, RowBidder
  <2>18. s5 = Rowed(s, rows, a, c4)
    <3>1. SetBid(s4, a, y) = Rowed(s, rows, a, RowBid(c3, y))
      BY <1>0, <1>1, <2>17, RowedIs
    <3> QED BY <2>11, <2>14, <3>1, Zenon DEF SetBid, RowBid
  <2>19. c4 = row
    BY <1>0, <1>1, <2>3, <2>5, <2>14 DEF AuctionRow
  <2> QED BY <1>4, <2>12, <2>18, <2>19, Zenon DEF PutDb, Rowed
<1>10. /\ t \in States /\ t.db = d /\ t.house = rows /\ t.pl = s.pl /\ t.txs = s.txs
       /\ t.aitems = s.aitems /\ t.past = s.past /\ t.cut = s.cut
  BY <1>1, <1>5, <1>8, <1>9 DEF States
<1>11. h.bid \in Nat /\ s.db.auction[a].bid \in Nat /\ D \in Int /\ AuctionWorth(row) = AuctionWorth(h)
  BY <1>0, <1>1, <1>3, NoneIsNothing DEF AuctionRow, AuctionWorth, Ledger
<1>12. \A j \in Item : Sells(s.db, a, j) <=> j = h.item
  BY <1>0 DEF Sells
<1>13. Ledger(t, I, D + BidCost(s, a, h), total)
  <2>1. \A j \in Item \ I : j \notin {} /\ (Sells(s.db, a, j) <=> row # None /\ row.item = j)
    BY <1>1, <1>3, <1>12
  <2>2. \A b \in Auction, j \in Item : b # a /\ Sells(s.db, b, j) => ~(row # None /\ row.item = j)
    BY <1>1, <1>3
  <2>3. WonInv(t.db, t.past)
    <3>1. WonInv(s.db, s.past)
      BY <1>1 DEF Ledger
    <3> QED BY <1>0, <1>3, <1>6, <1>10, <3>1 DEF WonInv
  <2>4. row \in AuctionRow \cup {None} /\ (row # None => RowInv(row)) /\ t.db = PutDb(s.db, a, row)
        /\ t.past = s.past /\ t.txs = s.txs /\ t.cut = s.cut /\ t \in States
    BY <1>3, <1>4, <1>10
  <2>5. Ledger(t, I, D + (AuctionWorth(s.db.auction[a]) - AuctionWorth(row)), total)
    BY <1>0, <1>1, <2>1, <2>2, <2>3, <2>4, LedgerPut
  <2> QED BY <1>11, <2>5 DEF BidCost
<1>14. Memory(t, G, {}) /\ FreeMails(t) = FreeMails(s) /\ InMemory(t) = InMemory(s)
  <2>1. PICK M : M = {}
    OBVIOUS
  <2>2. SameTables(s.db, t.db, G) /\ Memory(s, G, M) /\ t.pl = s.pl /\ s.cut \subseteq t.cut
    BY <1>1, <1>5, <1>10, <2>1 DEF SameTables
  <2>3. Memory(t, G, M) /\ FreeMails(t) = FreeMails(s) /\ InMemory(t) = InMemory(s)
    BY <2>2, MemorySame
  <2> QED BY <2>1, <2>3, Zenon
<1>15. ASSUME NEW i \in I, Tracked(t, i) PROVE i \in t.db.instance /\ Nowhere(t.db, i)
  <2>1. i \in Item /\ i = h.item /\ Sells(s.db, a, i)
    BY <1>0, <1>12 DEF AuctionRow
  <2>2. Clean(s.db, i)
    BY <1>1, <1>10, <1>14, <1>15, <2>1 DEF Tracked
  <2>3. i \in s.db.instance /\ s.db.inventory[i] = None
        /\ \A m \in Mail, r \in Player : ~Posted(s.db, m, i, r)
    BY <1>0, <2>1, <2>2 DEF Clean
  <2>4. \A b \in Auction : ~Sells(d, b, i)
    <3>1. \A b \in Auction : Sells(s.db, b, i) => b = a
      BY <1>0, <1>1, <2>1 DEF Ledger, DbInv
    <3> QED BY <1>1, <1>3, <1>6, <2>1, <3>1 DEF Sells
  <2> QED BY <1>5, <1>10, <2>3, <2>4 DEF Nowhere, Posted
<1>16. \A j \in Item : Tracked(t, j) => Clean(t.db, j)
  <2> SUFFICES ASSUME NEW j \in Item, Tracked(t, j) PROVE Clean(t.db, j)
    OBVIOUS
  <2>1. CASE j \in I
    BY <1>15, <2>1 DEF Clean, Nowhere
  <2>2. CASE j \notin I
    <3>1. SameItem(s.db, d, j)
      BY <1>1, <1>3, <1>5, <1>12, <2>2
    <3>2. Clean(s.db, j)
      BY <1>1, <1>10, <1>14 DEF Tracked
    <3> QED BY <1>10, <3>1, <3>2, SameItemKept
  <2> QED BY <2>1, <2>2
<1>17. Goods(t.db) = Goods(s.db) \ {e.item}
  <2>1. ASSUME NEW j \in Item
        PROVE  (\E b \in Auction : Sells(d, b, j))
                  <=> j # h.item /\ \E b \in Auction : Sells(s.db, b, j)
    <3>1. \A b \in Auction : b # a => (Sells(d, b, j) <=> Sells(s.db, b, j))
      BY <1>6 DEF Sells
    <3>2. ~Sells(d, a, j)
      BY <1>1, <1>3, <1>6 DEF Sells
    <3>3. Sells(s.db, a, j) => \A b \in Auction : Sells(s.db, b, j) => b = a
      BY <1>0, <1>1 DEF Ledger, DbInv
    <3> QED BY <1>0, <1>12, <3>1, <3>2, <3>3
  <2> QED BY <1>3, <1>10, <2>1 DEF Goods
<1>18. Hand(t, I, D + BidCost(s, a, h), G, {}, total)
  BY <1>13, <1>14, <1>16 DEF Hand
<1>19. SoldAs(s, t, a, e)
  <2>1. t.house[a] = e /\ t.db.auction[a] = [e EXCEPT !.item = None]
    BY <1>2, <1>6, <1>8, <1>10
  <2>2. I = {e.item} \ {None}
    BY <1>3
  <2> QED BY <1>5, <1>6, <1>8, <1>10, <1>14, <1>15, <1>17, <2>1, <2>2 DEF SoldAs
<1> QED BY <1>18, <1>19

\* The auction a of t is sold as e; w is what is stored of t.
Going(s, t, w, a, e, I, total) ==
    /\ SoldAs(s, t, a, e) /\ e.sold /\ e \in AuctionRow /\ e.bidder \in Player
    /\ I = {e.item} \ {None}
    /\ a \in Auction /\ \A b \in Auction : b # a => s.house[b] = s.db.auction[b]
    /\ s.aitems = Goods(s.db) /\ I \subseteq s.aitems /\ FreeMails(s) # {}
    /\ Hand(w, I, 0, {}, {}, total)
    /\ w.house = t.house /\ w.db.auction = t.db.auction /\ w.aitems = t.aitems /\ w.cut = t.cut
    /\ InMemory(w) = InMemory(t) /\ FreeMails(w) = FreeMails(t)
    /\ \A i \in I : Tracked(w, i) => i \in w.db.instance /\ Nowhere(w.db, i)

LEMMA GoingIs ==
  ASSUME NEW s, NEW t, NEW w, NEW a, NEW e, NEW I, NEW total, Going(s, t, w, a, e, I, total),
         NEW u, u = SendAuctionWonMail(Commit(w, I), a)
  PROVE  Kept(u, total) /\ Aside(s, u, a) /\ u.house[a] # None /\ u.house[a].sold
<1>0. /\ SoldAs(s, t, a, e) /\ e.sold /\ e \in AuctionRow /\ e.bidder \in Player
      /\ I = {e.item} \ {None}
      /\ a \in Auction /\ \A b \in Auction : b # a => s.house[b] = s.db.auction[b]
      /\ s.aitems = Goods(s.db) /\ I \subseteq s.aitems /\ FreeMails(s) # {}
      /\ Hand(w, I, 0, {}, {}, total)
      /\ w.house = t.house /\ w.db.auction = t.db.auction /\ w.aitems = t.aitems /\ w.cut = t.cut
      /\ InMemory(w) = InMemory(t) /\ FreeMails(w) = FreeMails(t)
      /\ \A i \in I : Tracked(w, i) => i \in w.db.instance /\ Nowhere(w.db, i)
  BY DEF Going
<1>1. /\ t.house[a] = e /\ t.db.auction[a] = [e EXCEPT !.item = None]
      /\ \A b \in Auction : b # a => t.house[b] = s.house[b] /\ t.db.auction[b] = s.db.auction[b]
      /\ t.cut = s.cut /\ t.aitems = s.aitems
      /\ FreeMails(t) = FreeMails(s) /\ InMemory(t) = InMemory(s)
      /\ Goods(t.db) = Goods(s.db) \ {e.item}
  BY <1>0 DEF SoldAs
<1>2. PICK v : v = Commit(w, I)
  OBVIOUS
<1>3. I \subseteq Item /\ I \in SUBSET Thing /\ I \subseteq I \cup w.cut /\ None \notin Item
  BY <1>0, MailConstants DEF AuctionRow, Thing
<1>4. Hand(v, I, 0, {}, {}, total) /\ Copied(w, v)
  BY <1>0, <1>2, <1>3, HandCommit
<1>5. /\ v.db = w.db /\ v.house = t.house /\ v.aitems = s.aitems /\ v.cut = s.cut
      /\ FreeMails(v) = FreeMails(s) /\ InMemory(v) = InMemory(s)
      /\ InMemory(v) = InMemory(w) /\ v.cut = w.cut
  BY <1>0, <1>1, <1>4 DEF Copied
<1>6. Goods(v.db) = v.aitems \ I
  <2>1. Goods(v.db) = Goods(t.db)
    BY <1>0, <1>5 DEF Goods, Sells
  <2>2. None \notin s.aitems
    BY <1>0, <1>3 DEF Goods
  <2> QED BY <1>0, <1>1, <1>5, <2>1, <2>2
<1>7. \A b \in Auction : b # a => v.house[b] = v.db.auction[b]
  BY <1>0, <1>1, <1>5
<1>8. v.house[a] = e /\ v.db.auction[a] = [e EXCEPT !.item = None]
  BY <1>0, <1>1, <1>5
<1>9. \A i \in I : Tracked(v, i) => i \in v.db.instance /\ Nowhere(v.db, i)
  BY <1>0, <1>5 DEF Tracked
<1>10. Awarding(v, a, e, I, total)
  BY <1>0, <1>4, <1>5, <1>6, <1>7, <1>8, <1>9 DEF Awarding
<1>11. Kept(u, total) /\ Aside(v, u, a) /\ u.house[a] # None /\ u.house[a].sold
  BY <1>2, <1>10, AwardedIs
<1>12. Aside(s, u, a)
  <2>1. /\ u.cut = v.cut /\ InMemory(u) = InMemory(v)
        /\ \A b \in Auction : b # a => u.house[b] = v.house[b]
        /\ FreeMails(u) = FreeMails(v) \/ \E m \in FreeMails(v) : FreeMails(u) = FreeMails(v) \ {m}
    BY <1>11 DEF Aside
  <2>2. u.cut = s.cut /\ InMemory(u) = InMemory(s)
        /\ (\A b \in Auction : b # a => u.house[b] = s.house[b])
    BY <1>1, <1>5, <2>1
  <2>3. FreeMails(u) = FreeMails(s) \/ \E m \in FreeMails(s) : FreeMails(u) = FreeMails(s) \ {m}
    BY <1>5, <2>1, Zenon
  <2> QED BY <2>2, <2>3 DEF Aside
<1> QED BY <1>11, <1>12

\* The time of the auction a is over.
LEMMA WonIs ==
  ASSUME NEW s, NEW a, NEW h, NEW D, NEW total, Bid(s, {}, a, h, D, total),
         D + BidCost(s, a, h) = 0, FreeMails(s) # {},
         NEW t, t = AuctionBidWinning(s, a, None)
  PROVE  Kept(t, total) /\ Aside(s, t, a) /\ t.house[a] # None /\ t.house[a].sold
<1>0. PICK e, I, w : e = [h EXCEPT !.sold = TRUE] /\ I = {h.item} \ {None} /\ w = Sold(s, a)
  OBVIOUS
<1>1. Hand(w, I, D + BidCost(s, a, h), {}, {}, total) /\ SoldAs(s, w, a, e)
  BY <1>0, SoldIs
<1>2. Hand(w, I, 0, {}, {}, total)
  BY <1>1
<1>3. /\ a \in Auction /\ h \in AuctionRow /\ h.bidder \in Player /\ s.house[a] = h
      /\ \A b \in Auction : b # a => s.house[b] = s.db.auction[b]
      /\ s.aitems = Goods(s.db) /\ h.item = s.db.auction[a].item /\ s.db.auction[a] # None
  BY DEF Bid
<1>4. e \in AuctionRow /\ e.sold /\ e.bidder \in Player /\ e.item = h.item
  BY <1>0, <1>3 DEF AuctionRow
<1>5. I = {e.item} \ {None} /\ I \subseteq s.aitems
  BY <1>0, <1>3, <1>4 DEF Goods, Sells, AuctionRow
<1>6. \A i \in I : Tracked(w, i) => i \in w.db.instance /\ Nowhere(w.db, i)
  BY <1>1, <1>5 DEF SoldAs
<1>7. Going(s, w, w, a, e, I, total)
  BY <1>1, <1>2, <1>3, <1>4, <1>5, <1>6 DEF Going
<1>8. t = SendAuctionWonMail(Commit(w, I), a)
  BY <1>0, <1>3, Zenon DEF AuctionBidWinning, Sold
<1> QED BY <1>7, <1>8, GoingIs

\* p bids what the seller asks for; what he has too much is the money in hand.
Buying(s, a, h, p, D, total) ==
    /\ Bid(s, {p}, a, h, D, total) /\ s.cut = {} /\ p \in InMemory(s)
    /\ BagInv(s.db, s.pl[p], p) /\ D + BidCost(s, a, h) + s.db.gold[p] = s.pl[p].gold
    /\ FreeMails(s) # {}

LEMMA BoughtIs ==
  ASSUME NEW s, NEW a, NEW h, NEW p, NEW D, NEW total, Buying(s, a, h, p, D, total),
         NEW t, t = AuctionBidWinning(s, a, p)
  PROVE  Kept(t, total) /\ Aside(s, t, a) /\ t.house[a] # None /\ t.house[a].sold
<1>0. /\ Bid(s, {p}, a, h, D, total) /\ s.cut = {} /\ p \in InMemory(s)
      /\ BagInv(s.db, s.pl[p], p) /\ D + BidCost(s, a, h) + s.db.gold[p] = s.pl[p].gold
      /\ FreeMails(s) # {}
  BY DEF Buying
<1>1. PICK e, I, v, w, E : /\ e = [h EXCEPT !.sold = TRUE] /\ I = {h.item} \ {None} /\ v = Sold(s, a)
                           /\ w = SaveInventoryAndGoldToDB(v, p) /\ E = D + BidCost(s, a, h)
  OBVIOUS
<1>2. PICK G : G = {p}
  OBVIOUS
<1>3. Bid(s, G, a, h, D, total)
  BY <1>0, <1>2, Zenon
<1>4. Hand(v, I, D + BidCost(s, a, h), G, {}, total) /\ SoldAs(s, v, a, e)
  BY <1>1, <1>3, SoldIs
<1>5. Hand(v, I, E, {p}, {}, total)
  BY <1>1, <1>2, <1>4, Zenon
<1>6. /\ a \in Auction /\ h \in AuctionRow /\ h.bidder \in Player /\ s.house[a] = h
      /\ \A b \in Auction : b # a => s.house[b] = s.db.auction[b]
      /\ s.aitems = Goods(s.db) /\ h.item = s.db.auction[a].item /\ s.db.auction[a] # None
  BY <1>3 DEF Bid
<1>7. e \in AuctionRow /\ e.sold /\ e.bidder \in Player /\ e.item = h.item
  BY <1>1, <1>6 DEF AuctionRow
<1>8. I = {e.item} \ {None} /\ I \subseteq s.aitems /\ I \subseteq Item
  BY <1>1, <1>6, <1>7 DEF Goods, Sells, AuctionRow
<1>9. /\ v \in States /\ v.pl = s.pl /\ v.cut = s.cut
      /\ FreeMails(v) = FreeMails(s) /\ InMemory(v) = InMemory(s)
      /\ v.db.gold = s.db.gold /\ v.db.instance = s.db.instance /\ v.db.inventory = s.db.inventory
      /\ \A i \in I : Tracked(v, i) => i \in v.db.instance /\ Nowhere(v.db, i)
  BY <1>4, <1>8 DEF SoldAs
<1>10. BagInv(v.db, v.pl[p], p)
  BY <1>0, <1>9 DEF BagInv
<1>11. Ready(v, p, I, E, total)
  BY <1>0, <1>1, <1>5, <1>9, <1>10 DEF Ready
<1>12. Hand(w, I, 0, {}, {}, total) /\ SavedAs(v, w, p)
  BY <1>1, <1>11, SaveHand
<1>13. /\ w.house = v.house /\ w.db.auction = v.db.auction /\ w.aitems = v.aitems /\ w.cut = v.cut
       /\ InMemory(w) = InMemory(v) /\ FreeMails(w) = FreeMails(v)
       /\ w.db.instance = v.db.instance /\ w.db.attached = v.db.attached
       /\ \A i \in Item : w.db.inventory[i] = IF i \in v.pl[p].bag THEN p
                                              ELSE IF v.db.inventory[i] = p THEN None
                                              ELSE v.db.inventory[i]
  BY <1>12 DEF SavedAs, DbStep
<1>14. ASSUME NEW i \in I, Tracked(w, i) PROVE i \in w.db.instance /\ Nowhere(w.db, i)
  <2>1. i \in v.db.instance /\ Nowhere(v.db, i)
    BY <1>9, <1>13, <1>14 DEF Tracked
  <2>2. p \in Player /\ p # None
    BY <1>0, MailConstants DEF InMemory
  <2>3. i \notin v.pl[p].bag
    BY <1>10, <2>1, <2>2 DEF BagInv, Nowhere
  <2>4. w.db.inventory[i] = None
    BY <1>8, <1>13, <2>1, <2>3 DEF Nowhere
  <2> QED BY <1>13, <2>1, <2>4 DEF Nowhere, Sells, Posted
<1>15. Going(s, v, w, a, e, I, total)
  BY <1>0, <1>4, <1>6, <1>7, <1>8, <1>12, <1>13, <1>14 DEF Going
<1>16. p # None
  BY <1>0, MailConstants DEF InMemory
<1>17. t = SendAuctionWonMail(Commit(w, I), a)
  <2>1. AuctionBidWinning(s, a, p)
          = SendAuctionWonMail(Commit(SaveInventoryAndGoldToDB(Sold(s, a), p),
                                      {s.house[a].item} \ {None}), a)
    BY <1>16, Zenon DEF AuctionBidWinning, Sold
  <2> QED BY <1>1, <1>6, <2>1, Zenon
<1> QED BY <1>15, <1>17, GoingIs

-----------------------------------------------------------------------------
(* The auctioneer: a bid *)

\* What is in hand does not depend on the auctions in memory, nor on who bid too late.
LEMMA HandAside ==
  ASSUME NEW s, NEW H, NEW D, NEW G, NEW M, NEW total, Hand(s, H, D, G, M, total),
         NEW t \in States, t.db = s.db, t.txs = s.txs, t.pl = s.pl, t.cut = s.cut,
         t.past.money = s.past.money, WonInv(t.db, t.past)
  PROVE  Hand(t, H, D, G, M, total) /\ FreeMails(t) = FreeMails(s) /\ InMemory(t) = InMemory(s)
<1>1. /\ s \in States /\ Ledger(s, H, D, total) /\ Memory(s, G, M)
      /\ \A i \in Item : Tracked(s, i) => Clean(s.db, i)
  BY DEF Hand, Ledger
<1>2. Ledger(t, H, D, total)
  BY <1>1, LedgerSame
<1>3. SameTables(s.db, t.db, G) /\ s.cut \subseteq t.cut
  BY DEF SameTables
<1>4. Memory(t, G, M) /\ FreeMails(t) = FreeMails(s) /\ InMemory(t) = InMemory(s)
  BY <1>1, <1>3, MemorySame
<1>5. \A i \in Item : Tracked(t, i) => Clean(t.db, i)
  BY <1>1, <1>4 DEF Tracked
<1> QED BY <1>2, <1>4, <1>5 DEF Hand

\* p may bid nb for the auction a.
Paying(s, a, p, nb, total) ==
    /\ Hand(s, {}, 0, {p}, {}, total) /\ s.cut = {} /\ p \in InMemory(s)
    /\ s.house = s.db.auction /\ s.aitems = Goods(s.db)
    /\ BagInv(s.db, s.pl[p], p) /\ s.db.gold[p] = s.pl[p].gold
    /\ a \in Auction /\ s.house[a] # None /\ (s.house[a].sold => a \in s.past.late)
    /\ nb \in Nat \ {0} /\ nb <= s.pl[p].gold
    /\ FreeMails(s) # {} /\ \A m : FreeMails(s) \ {m} # {}

\* c is s, p has paid x less than nothing, and what is too much in the purses is D.
ChargedAs(s, c, p, x, D, total) ==
    /\ Hand(c, {}, D, {p}, {}, total) /\ D + x + s.pl[p].gold = c.pl[p].gold
    /\ c.house = s.house /\ c.aitems = s.aitems /\ c.cut = s.cut /\ c.past.late = s.past.late
    /\ InMemory(c) = InMemory(s) /\ c.pl[p].bag = s.pl[p].bag
    /\ c.db.gold = s.db.gold /\ c.db.inventory = s.db.inventory
    /\ c.db.instance = s.db.instance /\ c.db.auction = s.db.auction
    /\ FreeMails(c) # {}

LEMMA ChargedIs ==
  ASSUME NEW s, NEW a, NEW p, NEW nb, NEW total, Paying(s, a, p, nb, total),
         NEW e, e = s.house[a], NEW c, c = Charged(s, a, nb, p)
  PROVE  \E D \in Int : ChargedAs(s, c, p, e.bid - nb, D, total)
<1>0. /\ Hand(s, {}, 0, {p}, {}, total) /\ s.cut = {} /\ p \in InMemory(s)
      /\ s.house = s.db.auction
      /\ a \in Auction /\ s.house[a] # None
      /\ nb \in Nat \ {0} /\ nb <= s.pl[p].gold
      /\ FreeMails(s) # {} /\ \A m : FreeMails(s) \ {m} # {}
  BY DEF Paying
<1>1. PICK G, N : G = {p} /\ N = {}
  OBVIOUS
<1>2. Hand(s, N, 0, G, N, total) /\ p \in G
  BY <1>0, <1>1, Zenon
<1>3. /\ s \in States /\ e \in AuctionRow /\ e.bid \in Nat /\ RowInv(e) /\ DbInv(s.db)
      /\ e.bidder \in Player \cup {None} /\ s.pl[p].gold \in Nat
  <2>1. s \in States /\ DbInv(s.db)
    BY <1>0 DEF Hand, Ledger
  <2>2. e \in AuctionRow /\ RowInv(e)
    BY <1>0, <2>1, StateFields DEF DbInv
  <2>3. s.pl[p].gold \in 0 .. MaxGold
    BY <1>0, <2>1, RecordOf
  <2> QED BY <2>1, <2>2, <2>3, MailConstants DEF AuctionRow
<1>4. ASSUME NEW d \in Int, s.pl[p].gold + d >= 0, NEW u, u = ModifyMoney(s, p, d)
      PROVE  \E over \in Nat : /\ Hand(u, {}, 0 - over, {p}, {}, total) /\ Charging(s, u, p)
                               /\ u.pl[p].gold + over = s.pl[p].gold + d
  <2>1. \E over \in Nat :
            /\ Hand(u, N, 0 - over, G, N, total) /\ Charging(s, u, p)
            /\ s.pl[p].gold + d >= 0 => u.pl[p].gold + over = s.pl[p].gold + d
            /\ s.pl[p].gold + d <= MaxGold => over = 0
    BY ONLY <1>0, <1>2, <1>4, HandPay
  <2>2. PICK over \in Nat : /\ Hand(u, N, 0 - over, G, N, total) /\ Charging(s, u, p)
                            /\ u.pl[p].gold + over = s.pl[p].gold + d
    BY <1>4, <2>1
  <2>3. Hand(u, {}, 0 - over, {p}, {}, total)
    BY ONLY <1>1, <2>2
  <2> QED BY <2>2, <2>3
<1>5. ASSUME NEW u, Charging(s, u, p)
      PROVE  /\ u.house = s.house /\ u.aitems = s.aitems /\ u.cut = s.cut
             /\ u.past.late = s.past.late
             /\ InMemory(u) = InMemory(s) /\ u.pl[p].bag = s.pl[p].bag /\ u.db = s.db
             /\ FreeMails(u) = FreeMails(s)
  BY <1>5 DEF Charging
<1>6. CASE e.bidder = p
  <2>1. PICK d : d = -(nb - e.bid)
    OBVIOUS
  <2>2. d \in Int /\ d = e.bid - nb /\ s.pl[p].gold + d >= 0
    BY <1>0, <1>3, <2>1
  <2>3. c = ModifyMoney(s, p, d)
    BY <1>6, <2>1, Zenon DEF Charged
  <2>4. PICK over \in Nat : /\ Hand(c, {}, 0 - over, {p}, {}, total) /\ Charging(s, c, p)
                            /\ c.pl[p].gold + over = s.pl[p].gold + d
    BY <1>4, <2>2, <2>3
  <2>5. PICK D \in Int : D = 0 - over
    OBVIOUS
  <2>6. c.pl[p].gold \in Int
    <3>1. c \in States
      BY <2>4 DEF Hand, Ledger
    <3> QED BY <1>0, <1>5, <2>4, <3>1, RecordOf
  <2>7. D + (e.bid - nb) + s.pl[p].gold = c.pl[p].gold
    BY <1>0, <1>3, <2>2, <2>4, <2>5, <2>6
  <2>8. Hand(c, {}, D, {p}, {}, total)
    BY <2>4, <2>5, Zenon
  <2>9. ChargedAs(s, c, p, e.bid - nb, D, total)
    BY <1>0, <1>5, <2>4, <2>7, <2>8 DEF ChargedAs
  <2> QED BY <2>9
<1>7. CASE e.bidder # p
  <2>1. PICK d, u : d = -nb /\ u = ModifyMoney(s, p, d)
    OBVIOUS
  <2>2. d \in Int /\ d = 0 - nb /\ s.pl[p].gold + d >= 0
    BY <1>0, <1>3, <2>1
  <2>3. PICK over \in Nat : /\ Hand(u, {}, 0 - over, {p}, {}, total) /\ Charging(s, u, p)
                            /\ u.pl[p].gold + over = s.pl[p].gold + d
    BY <1>4, <2>1, <2>2
  <2>4. u.pl[p].gold \in Int
    <3>1. u \in States
      BY <2>3 DEF Hand, Ledger
    <3> QED BY <1>0, <1>5, <2>3, <3>1, RecordOf
  <2>5. u.pl[p].gold = s.pl[p].gold - nb - over
    BY <1>0, <1>3, <2>2, <2>3, <2>4
  <2>6. CASE e.bidder = None
    <3>1. c = u
      BY <1>7, <2>1, <2>6, Zenon DEF Charged
    <3>2. e.bid = 0
      BY <1>3, <2>6 DEF RowInv
    <3>3. PICK D \in Int : D = 0 - over
      OBVIOUS
    <3>4. D + (e.bid - nb) + s.pl[p].gold = c.pl[p].gold
      BY <1>0, <1>3, <2>5, <3>1, <3>2, <3>3
    <3>5. Hand(c, {}, D, {p}, {}, total)
      BY <2>3, <3>1, <3>3, Zenon
    <3>6. ChargedAs(s, c, p, e.bid - nb, D, total)
      BY <1>0, <1>5, <2>3, <3>1, <3>4, <3>5 DEF ChargedAs
    <3> QED BY <3>6
  <2>7. CASE e.bidder # None
    <3>1. c = SendAuctionOutbiddedMail(u, a)
      BY <1>7, <2>1, <2>7, Zenon DEF Charged
    <3>2. u.house[a] = e /\ FreeMails(u) = FreeMails(s) /\ u.db = s.db
      BY <1>5, <2>3
    <3>3. c = SendMailTo(u, e.bidder, None, "auction", e.bid, 0, {}, {"money"})
      BY <3>1, <3>2, Zenon DEF SendAuctionOutbiddedMail
    <3>4. PICK D \in Int : D = 0 - over
      OBVIOUS
    <3>5. Hand(u, N, D, G, N, total)
      BY <1>1, <2>3, <3>4, Zenon
    <3>6. Posting(u, N, D, N, e.bidder, None, "auction", e.bid, 0, N, {"money"})
      BY <1>0, <1>1, <1>3, <2>7, <3>2 DEF Posting, Thing
    <3>7. c = SendMailTo(u, e.bidder, None, "auction", e.bid, 0, N, {"money"})
      BY <1>1, <3>3, Zenon
    <3>8. /\ Hand(c, N, D - e.bid, G, N, total) /\ Delivered(u, c, N)
          /\ \E m \in FreeMails(u) : FreeMails(c) = FreeMails(u) \ {m}
      BY <3>5, <3>6, <3>7, HandSend
    <3>9. PICK E \in Int : E = D - e.bid
      BY <1>3
    <3>10. Hand(c, {}, E, {p}, {}, total)
      BY <1>1, <3>8, <3>9, Zenon
    <3>11. /\ c.house = u.house /\ c.aitems = u.aitems /\ c.past = u.past /\ c.cut = u.cut
           /\ c.db.gold = u.db.gold /\ c.db.inventory = u.db.inventory
           /\ c.db.instance = u.db.instance /\ c.db.auction = u.db.auction
           /\ InMemory(c) = InMemory(u)
           /\ \A q \in InMemory(u) : c.pl[q].gold = u.pl[q].gold /\ c.pl[q].bag = u.pl[q].bag
      BY <3>8 DEF Delivered
    <3>12. /\ u.house = s.house /\ u.aitems = s.aitems /\ u.cut = s.cut
           /\ u.past.late = s.past.late
           /\ InMemory(u) = InMemory(s) /\ u.pl[p].bag = s.pl[p].bag
      BY <1>5, <2>3
    <3>13. c.pl[p].gold = u.pl[p].gold /\ c.pl[p].bag = s.pl[p].bag
      BY <1>0, <3>11, <3>12
    <3>14. E + (e.bid - nb) + s.pl[p].gold = c.pl[p].gold
      BY <1>0, <1>3, <2>5, <3>4, <3>9, <3>13
    <3>15. FreeMails(c) # {}
      BY <1>0, <3>2, <3>8
    <3>16. ChargedAs(s, c, p, e.bid - nb, E, total)
      BY <3>2, <3>10, <3>11, <3>12, <3>13, <3>14, <3>15 DEF ChargedAs
    <3> QED BY <3>16
  <2> QED BY <2>6, <2>7
<1> QED BY <1>6, <1>7

\* p has the auction a for nb, in memory and in the table.
BidRow(e, p, nb) == [e EXCEPT !.bidder = p, !.bid = nb]
BidPlaced(c, a, p, nb) == [c EXCEPT !.house[a].bidder = p, !.house[a].bid = nb]
BidStored(t, a, p, nb) == [t EXCEPT !.db.auction[a].bidder = p, !.db.auction[a].bid = nb]

LEMMA BidPlacedIs ==
  ASSUME NEW c \in States, NEW a \in Auction, NEW e, e = c.house[a], e # None,
         NEW p \in Player, NEW nb \in Nat,
         NEW h, h = BidRow(e, p, nb),
         NEW t, t = BidPlaced(c, a, p, nb)
  PROVE  /\ t \in States /\ t.db = c.db /\ t.txs = c.txs /\ t.pl = c.pl /\ t.cut = c.cut
         /\ t.past = c.past /\ t.aitems = c.aitems
         /\ h \in AuctionRow /\ t.house[a] = h
         /\ \A b \in Auction : b # a => t.house[b] = c.house[b]
<1>1. e \in AuctionRow /\ c.house \in [Auction -> AuctionRow \cup {None}]
  BY StateFields
<1>2. h \in AuctionRow
  BY <1>1 DEF AuctionRow, BidRow
<1>3. PICK f : f = [e EXCEPT !.bidder = p]
  OBVIOUS
<1>4. h = [f EXCEPT !.bid = nb]
  BY <1>1, <1>3 DEF AuctionRow, BidRow
<1>5. PICK rows, table : rows = [c.house EXCEPT ![a] = f] /\ table = [c.house EXCEPT ![a] = h]
  OBVIOUS
<1>6. PICK u : u = [c EXCEPT !.house[a].bidder = p]
  OBVIOUS
<1>7. u = [c EXCEPT !.house = rows]
  BY <1>1, <1>3, <1>5, <1>6
<1>8. t = [u EXCEPT !.house[a].bid = nb]
  BY <1>6 DEF BidPlaced
<1>9. u.house = rows /\ rows[a] = f
  BY <1>1, <1>5, <1>7 DEF States
<1>10. [rows EXCEPT ![a] = h] = table
  BY <1>1, <1>5
<1>11. t = [u EXCEPT !.house = table]
  BY <1>4, <1>8, <1>9, <1>10
<1>12. t = [c EXCEPT !.house = table]
  BY <1>7, <1>11 DEF States
<1>13. table \in [Auction -> AuctionRow \cup {None}] /\ table[a] = h
       /\ \A b \in Auction : b # a => table[b] = c.house[b]
  BY <1>1, <1>2, <1>5
<1> QED BY <1>2, <1>12, <1>13 DEF States

LEMMA BidStoredIs ==
  ASSUME NEW t \in States, NEW a \in Auction, NEW c, c = t.db.auction[a], c # None,
         NEW p \in Player, NEW nb \in Nat,
         NEW h, h = BidRow(c, p, nb),
         NEW w, w = BidStored(t, a, p, nb)
  PROVE  DbStep(t, w) /\ w.db = PutDb(t.db, a, h)
<1>1. /\ t.db \in Database /\ c \in AuctionRow /\ t.house \in [Auction -> AuctionRow \cup {None}]
      /\ t.db.auction \in [Auction -> AuctionRow \cup {None}]
  BY StateFields, DatabaseFields
<1>2. h \in AuctionRow
  BY <1>1 DEF AuctionRow, BidRow
<1>3. PICK rows, d, x, y : rows = t.house /\ d = t.db /\ x = p /\ y = nb
  OBVIOUS
<1>4. [d.auction EXCEPT ![a] = c] = d.auction
  BY <1>1, <1>3
<1>5. [d EXCEPT !.auction = d.auction] = d
  BY <1>1, <1>3 DEF Database
<1>6. t = [t EXCEPT !.house = rows, !.db = d]
  BY <1>3 DEF States
<1>7. t = Rowed(t, rows, a, c)
  BY <1>3, <1>4, <1>5, <1>6, Zenon DEF Rowed
<1>8. PICK f, u : f = RowBidder(c, x) /\ u = SetBidder(t, a, x)
  OBVIOUS
<1>9. u = Rowed(t, rows, a, f)
  BY <1>7, <1>8, RowedIs
<1>10. SetBid(u, a, y) = Rowed(t, rows, a, RowBid(f, y))
  BY <1>9, RowedIs
<1>11. w = SetBid(u, a, y)
  <2>1. w = [t EXCEPT !.db.auction[a].bidder = x, !.db.auction[a].bid = y]
    BY <1>3 DEF BidStored
  <2>2. w = [u EXCEPT !.db.auction[a].bid = y]
    BY <1>8, <2>1 DEF SetBidder
  <2> QED BY <2>2 DEF SetBid
<1>12. RowBid(f, y) = h
  BY <1>1, <1>3, <1>8 DEF RowBid, RowBidder, BidRow, AuctionRow
<1>13. PICK k : k = PutDb(t.db, a, h)
  OBVIOUS
<1>14. k \in Database
  BY <1>1, <1>2, <1>13, PutDbIs
<1>15. w = [t EXCEPT !.house = rows, !.db = k]
  BY <1>3, <1>10, <1>11, <1>12, <1>13, Zenon DEF Rowed, PutDb
<1> QED BY <1>1, <1>3, <1>13, <1>14, <1>15 DEF States, DbStep

NewBid(buyout, price) == IF buyout # 0 THEN Min({price, buyout}) ELSE price

LEMMA NewBidIs ==
  ASSUME NEW buyout \in Nat, NEW price \in Nat \ {0}
  PROVE  NewBid(buyout, price) \in Nat \ {0} /\ NewBid(buyout, price) <= price
<1>1. PICK m : m = Min({price, buyout})
  OBVIOUS
<1>2. m \in {price, buyout} /\ m <= price
  <2>1. \E x \in {price, buyout} : \A y \in {price, buyout} : x <= y
    <3>1. CASE price <= buyout
      BY <3>1
    <3>2. CASE ~(price <= buyout)
      BY <3>2
    <3> QED BY <3>1, <3>2
  <2>2. m = CHOOSE x \in {price, buyout} : \A y \in {price, buyout} : x <= y
    BY <1>1 DEF Min
  <2> QED BY <2>1, <2>2
<1> QED BY <1>1, <1>2 DEF NewBid

LEMMA UpdateBidIs ==
  ASSUME NEW s, NEW a, NEW price, NEW p, NEW buyout, buyout = s.house[a].buyout,
         NEW nb, nb = NewBid(buyout, price),
         NEW t, t = BidPlaced(Charged(s, a, nb, p), a, p, nb)
  PROVE  UpdateBid(s, a, price, p)
           = IF nb < buyout \/ buyout = 0
             THEN Commit(SaveInventoryAndGoldToDB(BidStored(t, a, p, nb), p), {})
             ELSE AuctionBidWinning(t, a, p)
<1>1. UpdateBid(s, a, price, p)
        = IF NewBid(s.house[a].buyout, price) < s.house[a].buyout \/ s.house[a].buyout = 0
          THEN Commit(SaveInventoryAndGoldToDB(
                 BidStored(BidPlaced(Charged(s, a, NewBid(s.house[a].buyout, price), p), a, p,
                                     NewBid(s.house[a].buyout, price)), a, p,
                           NewBid(s.house[a].buyout, price)), p), {})
          ELSE AuctionBidWinning(
                 BidPlaced(Charged(s, a, NewBid(s.house[a].buyout, price), p), a, p,
                           NewBid(s.house[a].buyout, price)), a, p)
  BY Zenon DEF UpdateBid, NewBid, BidPlaced, BidStored
<1> QED BY <1>1, Zenon

LEMMA UpdateBidKeeps ==
  ASSUME NEW s, NEW a, NEW p, NEW nb, NEW total, Paying(s, a, p, nb, total),
         NEW t, t = BidPlaced(Charged(s, a, nb, p), a, p, nb)
  PROVE  /\ Kept(Commit(SaveInventoryAndGoldToDB(BidStored(t, a, p, nb), p), {}), total)
         /\ Kept(AuctionBidWinning(t, a, p), total)
<1>0. /\ s.cut = {} /\ p \in InMemory(s)
      /\ s.house = s.db.auction /\ s.aitems = Goods(s.db)
      /\ BagInv(s.db, s.pl[p], p) /\ s.db.gold[p] = s.pl[p].gold
      /\ a \in Auction /\ s.house[a] # None /\ (s.house[a].sold => a \in s.past.late)
      /\ nb \in Nat \ {0} /\ s \in States /\ DbInv(s.db)
  BY DEF Paying, Hand, Ledger
<1>1. PICK e, c : e = s.house[a] /\ c = Charged(s, a, nb, p)
  OBVIOUS
<1>2. PICK D \in Int : ChargedAs(s, c, p, e.bid - nb, D, total)
  BY <1>1, ChargedIs
<1>3. /\ Hand(c, {}, D, {p}, {}, total) /\ D + (e.bid - nb) + s.pl[p].gold = c.pl[p].gold
      /\ c.house = s.house /\ c.aitems = s.aitems /\ c.cut = s.cut /\ c.past.late = s.past.late
      /\ InMemory(c) = InMemory(s) /\ c.pl[p].bag = s.pl[p].bag
      /\ c.db.gold = s.db.gold /\ c.db.inventory = s.db.inventory
      /\ c.db.instance = s.db.instance /\ c.db.auction = s.db.auction
      /\ FreeMails(c) # {}
  BY <1>2 DEF ChargedAs
<1>4. c \in States /\ WonInv(c.db, c.past) /\ p \in Player /\ p # None /\ c.db \in Database
  BY <1>0, <1>3, MailConstants, StateFields DEF Hand, Ledger, InMemory
<1>5. PICK h : h = BidRow(e, p, nb)
  OBVIOUS
<1>6. /\ t \in States /\ t.db = c.db /\ t.txs = c.txs /\ t.pl = c.pl /\ t.cut = c.cut
      /\ t.past = c.past /\ t.aitems = c.aitems
      /\ h \in AuctionRow /\ t.house[a] = h
      /\ \A b \in Auction : b # a => t.house[b] = c.house[b]
  BY <1>0, <1>1, <1>3, <1>4, <1>5, BidPlacedIs
<1>7. PICK G : G = {p}
  OBVIOUS
<1>8. Hand(c, {}, D, G, {}, total)
  BY <1>3, <1>7, Zenon
<1>9. Hand(t, {}, D, G, {}, total) /\ FreeMails(t) = FreeMails(c) /\ InMemory(t) = InMemory(c)
  BY <1>4, <1>6, <1>8, HandAside
<1>10. Hand(t, {}, D, {p}, {}, total)
  BY <1>7, <1>9, Zenon
<1>11. /\ e \in AuctionRow /\ e.bid \in Nat /\ RowInv(e) /\ e = t.db.auction[a]
       /\ h.bid = nb /\ h.bidder = p /\ h.item = e.item /\ h.sold = e.sold /\ h.owner = e.owner
       /\ h.startbid = e.startbid /\ h.buyout = e.buyout /\ e # None /\ h # None
       /\ RowInv(h)
  <2>1. e \in AuctionRow /\ RowInv(e)
    BY <1>0, <1>1, StateFields DEF DbInv
  <2>2. /\ h.bid = nb /\ h.bidder = p /\ h.item = e.item /\ h.sold = e.sold /\ h.owner = e.owner
        /\ h.startbid = e.startbid /\ h.buyout = e.buyout
    BY <1>5, <2>1 DEF AuctionRow, BidRow
  <2>3. e.bid \in Nat
    BY <2>1 DEF AuctionRow
  <2>4. RowInv(h)
    BY <1>0, <1>4, <2>1, <2>2 DEF RowInv
  <2> QED BY <1>0, <1>1, <1>3, <1>6, <2>1, <2>2, <2>3, <2>4, NoneIsNothing
<1>12. BidCost(t, a, h) = e.bid - nb
  BY <1>0, <1>11, NoneIsNothing, AuctionConstants DEF BidCost, AuctionWorth
<1>13. BagInv(t.db, t.pl[p], p)
  BY <1>0, <1>3, <1>6 DEF BagInv
<1>14. D + BidCost(t, a, h) + t.db.gold[p] = t.pl[p].gold
  BY <1>0, <1>3, <1>6, <1>12
<1>15. \A b \in Auction : b # a => t.house[b] = t.db.auction[b]
  BY <1>0, <1>3, <1>6
<1>16. t.aitems = Goods(t.db)
  BY <1>0, <1>3, <1>6 DEF Goods, Sells
<1>17. h.sold => a \in t.past.late
  BY <1>0, <1>1, <1>3, <1>6, <1>11
<1>18. Kept(AuctionBidWinning(t, a, p), total)
  <2>1. Bid(t, {p}, a, h, D, total)
    BY <1>0, <1>4, <1>6, <1>10, <1>11, <1>15, <1>16, <1>17 DEF Bid
  <2>2. Buying(t, a, h, p, D, total)
    BY <1>0, <1>3, <1>6, <1>9, <1>13, <1>14, <2>1 DEF Buying
  <2> QED BY <2>2, BoughtIs
<1>19. Kept(Commit(SaveInventoryAndGoldToDB(BidStored(t, a, p, nb), p), {}), total)
  <2>1. PICK w, v : w = BidStored(t, a, p, nb) /\ v = SaveInventoryAndGoldToDB(w, p)
    OBVIOUS
  <2>2. DbStep(t, w) /\ w.db = PutDb(t.db, a, h)
    BY <1>0, <1>4, <1>5, <1>6, <1>11, <2>1, BidStoredIs
  <2>3. /\ w \in States /\ w.txs = t.txs /\ w.pl = t.pl /\ w.house = t.house
        /\ w.aitems = t.aitems /\ w.past = t.past /\ w.cut = t.cut
    BY <2>2 DEF DbStep
  <2>4. /\ w.db \in Database /\ w.db.gold = t.db.gold /\ w.db.inventory = t.db.inventory
        /\ w.db.instance = t.db.instance
        /\ w.db.attached = t.db.attached /\ w.db.mail = t.db.mail
        /\ w.db.auction = [t.db.auction EXCEPT ![a] = h]
        /\ \A i \in Item : (Sells(t.db, a, i) <=> (h # None /\ h.item = i)) => SameItem(t.db, w.db, i)
    BY <1>0, <1>4, <1>6, <2>2, PutDbIs
  <2>5. w.db.auction[a] = h /\ \A b \in Auction : b # a => w.db.auction[b] = t.db.auction[b]
    BY <1>0, <1>4, <1>6, <2>4, DatabaseFields
  <2>6. \A i \in Item : Sells(t.db, a, i) <=> (h # None /\ h.item = i)
    BY <1>11 DEF Sells
  <2>7. \A i \in Item : SameItem(t.db, w.db, i)
    BY <2>4, <2>6
  <2>8. WonInv(w.db, w.past)
    <3>1. WonInv(t.db, t.past)
      BY <1>4, <1>6
    <3> QED BY <1>11, <1>17, <2>3, <2>5, <3>1 DEF WonInv
  <2>9. Ledger(w, {}, D + BidCost(t, a, h), total)
    <3>1. Ledger(t, {}, D, total)
      BY <1>10 DEF Hand
    <3>2. \A i \in Item \ {} : i \notin {} /\ (Sells(t.db, a, i) <=> h # None /\ h.item = i)
      BY <2>6
    <3>3. \A b \in Auction, i \in Item : b # a /\ Sells(t.db, b, i) => ~(h # None /\ h.item = i)
      <4>1. DbInv(t.db)
        BY <3>1 DEF Ledger
      <4> QED BY <1>0, <2>6, <4>1 DEF DbInv
    <3>4. h \in AuctionRow \cup {None} /\ (h # None => RowInv(h))
      BY <1>6, <1>11
    <3>5. Ledger(w, {}, D + (AuctionWorth(t.db.auction[a]) - AuctionWorth(h)), total)
      BY <1>0, <2>2, <2>3, <2>8, <3>1, <3>2, <3>3, <3>4, LedgerPut
    <3> QED BY <3>5 DEF BidCost
  <2>10. Memory(w, {p}, {}) /\ FreeMails(w) = FreeMails(t) /\ InMemory(w) = InMemory(t)
    <3>1. PICK M : M = {}
      OBVIOUS
    <3>2. SameTables(t.db, w.db, G) /\ Memory(t, G, M) /\ t.cut \subseteq w.cut
      BY <1>9, <2>3, <2>4, <3>1 DEF Hand, SameTables
    <3>3. Memory(w, G, M) /\ FreeMails(w) = FreeMails(t) /\ InMemory(w) = InMemory(t)
      BY <2>3, <3>2, MemorySame
    <3> QED BY <1>7, <3>1, <3>3, Zenon
  <2>11. \A i \in Item : Tracked(w, i) => Clean(w.db, i)
    <3>1. \A i \in Item : Tracked(t, i) => Clean(t.db, i)
      BY <1>10 DEF Hand
    <3> QED BY <2>3, <2>7, <2>10, <3>1, SameItemKept DEF Tracked
  <2>12. PICK E : E = D + BidCost(t, a, h)
    OBVIOUS
  <2>13. Hand(w, {}, E, {p}, {}, total)
    BY <2>9, <2>10, <2>11, <2>12 DEF Hand
  <2>14. Ready(w, p, {}, E, total)
    <3>1. BagInv(w.db, w.pl[p], p)
      BY <1>13, <2>3, <2>4 DEF BagInv
    <3> QED BY <1>0, <1>3, <1>6, <1>9, <1>14, <2>3, <2>4, <2>10, <2>12, <2>13, <3>1 DEF Ready
  <2>15. Hand(v, {}, 0, {}, {}, total) /\ SavedAs(w, v, p)
    BY <2>1, <2>14, SaveHand
  <2>16. /\ v \in States /\ v.house = w.house /\ v.aitems = w.aitems /\ v.cut = w.cut
         /\ v.db.auction = w.db.auction
    BY <2>15 DEF SavedAs, DbStep
  <2>17. v.house = v.db.auction
    <3>1. /\ v.house \in [Auction -> AuctionRow \cup {None}]
          /\ v.db.auction \in [Auction -> AuctionRow \cup {None}]
      BY <2>16, StateFields, DatabaseFields
    <3>2. \A b \in Auction : v.house[b] = v.db.auction[b]
      BY <1>6, <1>15, <2>3, <2>5, <2>16
    <3> QED BY <3>1, <3>2
  <2>18. v.aitems = Goods(v.db)
    <3>1. \A i \in Item, b \in Auction : Sells(v.db, b, i) <=> Sells(t.db, b, i)
      BY <2>5, <2>6, <2>16 DEF Sells
    <3> QED BY <1>16, <2>3, <2>16, <3>1 DEF Goods
  <2>19. Ledger(v, {}, 0, total) /\ Memory(v, {}, {})
    BY <2>15 DEF Hand
  <2>20. v.cut = {}
    BY <1>0, <1>3, <1>6, <2>3, <2>16
  <2> QED BY <2>1, <2>17, <2>18, <2>19, <2>20, KeptCommit
<1> QED BY <1>18, <1>19

LEMMA PlaceBidKeeps ==
  ASSUME NEW total, Kept(World, total), Enough(World), cut = {}, NEW p \in Player,
         NEW a \in Auction, NEW price \in Price, HandleAuctionPlaceBid(p, a, price)
  PROVE  Kept(World, total)' /\ Enough(World)'
<1>1. PICK late : late = IF house[a].sold THEN past.late \cup {a} ELSE past.late
  OBVIOUS
<1>2. PICK s : s = [World EXCEPT !.past.late = late]
  OBVIOUS
<1>3. /\ Here(p) /\ house[a] # None /\ price <= pl[p].gold /\ HasNumbers(2)
      /\ Handled(UpdateBid(s, a, price, p))
  BY <1>1, <1>2, Zenon DEF HandleAuctionPlaceBid, World
<1>4. /\ World \in States /\ World.house = World.db.auction /\ World.aitems = Goods(World.db)
      /\ \A q \in InMemory(World) : PlayerInv(World.db, World.cut, World.pl[q], q)
      /\ WonInv(db, past) /\ past \in Past
  BY WorldIs, StateFields DEF Kept, Ledger
<1>5. p \in InMemory(World)
  BY <1>3, WorldIs DEF Here, InWorld, InMemory
<1>6. PICK k : k = [past EXCEPT !.late = late]
  OBVIOUS
<1>7. k \in Past /\ k.money = past.money /\ k.won = past.won /\ k.late = late
      /\ past.late \subseteq late
  BY <1>1, <1>4, <1>6 DEF Past
<1>8. s = [World EXCEPT !.past = k]
  BY <1>2, <1>4, <1>6, WorldIs
<1>9. /\ s \in States /\ s.db = World.db /\ s.txs = World.txs /\ s.pl = World.pl
      /\ s.house = World.house /\ s.aitems = World.aitems /\ s.cut = World.cut /\ s.past = k
  BY <1>4, <1>7, <1>8 DEF States
<1>10. WonInv(s.db, s.past)
  BY <1>4, <1>7, <1>9, WorldIs DEF WonInv
<1>11. PICK G, N : G = {p} /\ N = {}
  OBVIOUS
<1>12. Hand(World, N, 0, G, N, total)
  <2>1. Hand(World, {}, 0, G, N, total)
    BY HandOf
  <2> QED BY <1>11, <2>1, Zenon
<1>13. Hand(s, N, 0, G, N, total) /\ FreeMails(s) = FreeMails(World) /\ InMemory(s) = InMemory(World)
  BY <1>7, <1>9, <1>10, <1>12, WorldIs, HandAside
<1>14. Hand(s, {}, 0, {p}, {}, total)
  BY <1>11, <1>13, Zenon
<1>15. PICK buyout, nb : buyout = s.house[a].buyout /\ nb = NewBid(buyout, price)
  OBVIOUS
<1>16. nb \in Nat \ {0} /\ nb <= pl[p].gold
  <2>1. buyout \in Nat
    BY <1>3, <1>9, <1>15, WorldIs, StateFields, AuctionConstants DEF AuctionRow
  <2>2. price \in Nat \ {0}
    BY AuctionConstants
  <2>3. pl[p].gold \in 0 .. MaxGold
    BY <1>4, <1>5, WorldIs, RecordOf
  <2>4. nb \in Nat \ {0} /\ nb <= price
    BY <1>15, <2>1, <2>2, NewBidIs
  <2>5. price <= pl[p].gold
    BY <1>3
  <2> QED BY <2>2, <2>3, <2>4, <2>5, MailConstants
<1>17. Paying(s, a, p, nb, total)
  <2>1. BagInv(s.db, s.pl[p], p) /\ s.db.gold[p] = s.pl[p].gold
    BY <1>4, <1>5, <1>9 DEF PlayerInv, PurseInv
  <2>2. s.house[a] # None /\ (s.house[a].sold => a \in s.past.late)
    BY <1>1, <1>3, <1>7, <1>9, WorldIs
  <2>3. FreeMails(World) # {} /\ \A m : FreeMails(World) \ {m} # {}
    BY <1>3, NumbersIs
  <2>4. s.cut = {} /\ s.house = s.db.auction /\ s.aitems = Goods(s.db) /\ s.pl = pl
    BY <1>4, <1>9, WorldIs
  <2> QED BY <1>5, <1>13, <1>14, <1>16, <2>1, <2>2, <2>3, <2>4 DEF Paying
<1>18. PICK t : t = BidPlaced(Charged(s, a, nb, p), a, p, nb)
  OBVIOUS
<1>19. Kept(UpdateBid(s, a, price, p), total)
  <2>1. /\ Kept(Commit(SaveInventoryAndGoldToDB(BidStored(t, a, p, nb), p), {}), total)
        /\ Kept(AuctionBidWinning(t, a, p), total)
    BY <1>17, <1>18, UpdateBidKeeps
  <2>2. UpdateBid(s, a, price, p)
           = IF nb < buyout \/ buyout = 0
             THEN Commit(SaveInventoryAndGoldToDB(BidStored(t, a, p, nb), p), {})
             ELSE AuctionBidWinning(t, a, p)
    BY <1>15, <1>18, UpdateBidIs
  <2> QED BY <2>1, <2>2, Zenon
<1> QED BY <1>3, <1>19, HandledKeeps

-----------------------------------------------------------------------------
(* The auctioneer: an auction is cancelled *)

LEMMA CutIs ==
  ASSUME NEW e \in AuctionRow
  PROVE  GetAuctionCut(e) \in Nat
<1>1. PICK k, b : k = CutPercent /\ b = e.bid
  OBVIOUS
<1>2. k \in Nat /\ b \in Nat
  <2>1. CutPercent \in 0 .. 100
    BY AuctionConstants
  <2>2. e.bid \in Nat
    BY DEF AuctionRow
  <2> QED BY <1>1, <2>1, <2>2
<1>3. PICK x : x = k * b
  OBVIOUS
<1>4. x \in Nat
  <2>1. k * b \in Nat
    BY <1>2
  <2> QED BY <1>3, <2>1
<1>5. x \div 100 \in Nat
  BY <1>4
<1> QED BY <1>1, <1>3, <1>5, Zenon DEF GetAuctionCut

\* p, the seller, may cancel the auction e.
Withdrawing(s, a, p, e, total) ==
    /\ Hand(s, {}, 0, {p}, {}, total) /\ s.cut = {} /\ p \in InMemory(s)
    /\ a \in Auction /\ s.house[a] = e /\ e \in AuctionRow /\ RowInv(e)
    /\ (e.bid # 0 => s.pl[p].gold >= GetAuctionCut(e))
    /\ FreeMails(s) # {} /\ \A m : FreeMails(s) \ {m} # {}

\* c is s, p has paid x, and the money D has left the auctions or not come to them yet.
ReturnedAs(s, c, p, x, D, total) ==
    /\ Hand(c, {}, D, {p}, {}, total) /\ c.pl[p].gold = s.pl[p].gold - x /\ s.pl[p].gold \in Nat
    /\ c.house = s.house /\ c.aitems = s.aitems /\ c.cut = s.cut /\ c.past.won = s.past.won
    /\ InMemory(c) = InMemory(s) /\ c.pl[p].bag = s.pl[p].bag
    /\ c.db.gold = s.db.gold /\ c.db.inventory = s.db.inventory
    /\ c.db.instance = s.db.instance /\ c.db.auction = s.db.auction
    /\ FreeMails(c) # {}

LEMMA BidReturnedIs ==
  ASSUME NEW s, NEW a, NEW p, NEW e, NEW total, Withdrawing(s, a, p, e, total),
         NEW c, c = BidReturned(s, a, p)
  PROVE  \E x \in Nat : /\ ReturnedAs(s, c, p, x, 0 - (e.bid + x), total)
                        /\ e.bid = 0 => x = 0
<1>0. /\ Hand(s, {}, 0, {p}, {}, total) /\ s.cut = {} /\ p \in InMemory(s)
      /\ a \in Auction /\ s.house[a] = e /\ e \in AuctionRow /\ RowInv(e)
      /\ (e.bid # 0 => s.pl[p].gold >= GetAuctionCut(e))
      /\ FreeMails(s) # {} /\ (\A m : FreeMails(s) \ {m} # {})
  BY DEF Withdrawing
<1>1. /\ s \in States /\ s.pl[p].gold \in 0 .. MaxGold /\ e.bid \in Nat /\ MaxGold \in Nat
      /\ e.bidder \in Player \cup {None}
  <2>1. s \in States
    BY <1>0 DEF Hand, Ledger
  <2> QED BY <1>0, <2>1, RecordOf, MailConstants DEF AuctionRow
<1>2. CASE e.bid = 0
  <2>1. c = s
    BY <1>0, <1>2, Zenon DEF BidReturned
  <2>2. PICK D : D = 0 - (e.bid + 0)
    OBVIOUS
  <2>3. D = 0
    BY <1>2, <2>2
  <2>4. Hand(c, {}, D, {p}, {}, total)
    BY <1>0, <2>1, <2>3, Zenon
  <2>5. ReturnedAs(s, c, p, 0, D, total)
    BY <1>0, <1>1, <2>1, <2>4 DEF ReturnedAs
  <2> QED BY <1>2, <2>2, <2>5
<1>3. CASE e.bid # 0
  <2>1. PICK x, b, u : /\ x = GetAuctionCut(e) /\ b = SendAuctionCancelledToBidderMail(s, a)
                       /\ u = ModifyMoney(b, p, -x)
    OBVIOUS
  <2>2. x \in Nat /\ e.bidder # None /\ e.bidder \in Player
    BY <1>0, <1>1, <1>3, <2>1, CutIs DEF RowInv
  <2>3. c = Spent(u, x)
    BY <1>0, <1>3, <2>1, <2>2, Zenon DEF BidReturned
  <2>4. PICK G, N : G = {p} /\ N = {}
    OBVIOUS
  <2>5. Hand(s, N, 0, G, N, total)
    BY <1>0, <2>4, Zenon
  <2>6. Posting(s, N, 0, N, e.bidder, None, "auction", e.bid, 0, N, {"money"})
    BY <1>0, <1>1, <2>2, <2>4 DEF Posting, Thing
  <2>7. b = SendMailTo(s, e.bidder, None, "auction", e.bid, 0, N, {"money"})
    BY <1>0, <2>1, <2>4, Zenon DEF SendAuctionCancelledToBidderMail
  <2>8. /\ Hand(b, N, 0 - e.bid, G, N, total) /\ Delivered(s, b, N)
        /\ \E m \in FreeMails(s) : FreeMails(b) = FreeMails(s) \ {m}
    BY <2>5, <2>6, <2>7, HandSend
  <2>9. /\ b.house = s.house /\ b.aitems = s.aitems /\ b.past = s.past /\ b.cut = s.cut
        /\ b.db.gold = s.db.gold /\ b.db.inventory = s.db.inventory
        /\ b.db.instance = s.db.instance /\ b.db.auction = s.db.auction
        /\ InMemory(b) = InMemory(s)
        /\ \A q \in InMemory(s) : b.pl[q].gold = s.pl[q].gold /\ b.pl[q].bag = s.pl[q].bag
    BY <2>8 DEF Delivered
  <2>10. b.pl[p].gold = s.pl[p].gold /\ b.pl[p].bag = s.pl[p].bag /\ p \in InMemory(b)
    BY <1>0, <2>9
  <2>11. PICK d \in Int : d = -x
    BY <2>2
  <2>12. b.pl[p].gold + d \in 0 .. MaxGold /\ b.pl[p].gold + d = s.pl[p].gold - x
    BY <1>0, <1>1, <1>3, <2>1, <2>2, <2>10, <2>11
  <2>13. u = ModifyMoney(b, p, d)
    BY <2>1, <2>11, Zenon
  <2>14. PICK E \in Int : E = 0 - e.bid
    BY <1>1
  <2>15. Hand(b, {}, E, {p}, {}, total)
    BY <2>4, <2>8, <2>14, Zenon
  <2>16. Hand(u, {}, E, {p}, {}, total) /\ Charging(b, u, p) /\ u.pl[p].gold = b.pl[p].gold + d
    <3>1. Hand(b, N, E, {p}, N, total)
      BY <2>4, <2>15, Zenon
    <3>2. b.pl[p].gold + d \in 0 .. MaxGold /\ p \in InMemory(b)
      BY <2>10, <2>12
    <3>3. Hand(u, N, E, {p}, N, total) /\ Charging(b, u, p) /\ u.pl[p].gold = b.pl[p].gold + d
      BY <2>13, <3>1, <3>2, HandCharge
    <3> QED BY <2>4, <3>3, Zenon
  <2>17. /\ u.house = b.house /\ u.aitems = b.aitems /\ u.cut = b.cut /\ u.db = b.db
         /\ u.past.won = b.past.won /\ u.past.late = b.past.late
         /\ InMemory(u) = InMemory(b) /\ FreeMails(u) = FreeMails(b) /\ u.pl[p].bag = b.pl[p].bag
    BY <2>16 DEF Charging
  <2>18. u \in States /\ Ledger(u, {}, E, total) /\ Memory(u, {p}, {})
         /\ (\A i \in Item : Tracked(u, i) => Clean(u.db, i))
    BY <2>16 DEF Hand, Ledger
  <2>19. Ledger(c, {}, E - x, total)
    BY <2>2, <2>3, <2>18, LedgerSpent
  <2>20. /\ c \in States /\ c.db = u.db /\ c.pl = u.pl /\ c.house = u.house
         /\ c.aitems = u.aitems /\ c.cut = u.cut /\ c.past = [u.past EXCEPT !.money = @ + x]
    BY <2>2, <2>3, <2>18, SpentIs
  <2>21. c.past.won = u.past.won
    BY <2>18, <2>20, StateFields DEF Past
  <2>22. Memory(c, {p}, {}) /\ FreeMails(c) = FreeMails(u) /\ InMemory(c) = InMemory(u)
    <3>1. SameTables(u.db, c.db, G) /\ Memory(u, G, N) /\ u.cut \subseteq c.cut
      BY <2>4, <2>18, <2>20, Zenon DEF SameTables
    <3>2. Memory(c, G, N) /\ FreeMails(c) = FreeMails(u) /\ InMemory(c) = InMemory(u)
      BY <2>20, <3>1, MemorySame
    <3> QED BY <2>4, <3>2, Zenon
  <2>23. \A i \in Item : Tracked(c, i) => Clean(c.db, i)
    BY <2>18, <2>20, <2>22 DEF Tracked
  <2>24. Hand(c, {}, E - x, {p}, {}, total)
    BY <2>19, <2>22, <2>23 DEF Hand
  <2>25. E - x = 0 - (e.bid + x)
    BY <1>1, <2>2, <2>14
  <2>26. Hand(c, {}, 0 - (e.bid + x), {p}, {}, total)
    BY <2>24, <2>25, Zenon
  <2>27. FreeMails(c) # {}
    BY <1>0, <2>8, <2>17, <2>22
  <2>28. c.pl[p].gold = s.pl[p].gold - x /\ s.pl[p].gold \in Nat
    BY <1>1, <2>12, <2>16, <2>20
  <2>29. ReturnedAs(s, c, p, x, 0 - (e.bid + x), total)
    BY <2>9, <2>10, <2>17, <2>20, <2>21, <2>22, <2>26, <2>27, <2>28 DEF ReturnedAs
  <2> QED BY <1>3, <2>2, <2>29
<1> QED BY <1>2, <1>3

\* The item i of the auction a goes back to its seller p, who has paid x.
Leaving(r, a, p, i, x, e, D, total) ==
    /\ Hand(r, {}, D, {p}, {}, total) /\ D = 0 - (e.bid + x) /\ r.cut = {} /\ p \in InMemory(r)
    /\ r.house = r.db.auction /\ r.aitems = Goods(r.db)
    /\ BagInv(r.db, r.pl[p], p) /\ r.pl[p].gold = r.db.gold[p] - x
    /\ a \in Auction /\ e = r.db.auction[a] /\ e # None /\ i = e.item /\ i \in Item
    /\ x \in Nat /\ (e.bid = 0 => x = 0) /\ FreeMails(r) # {}

Halves(i, e) == {i} \cup (IF e.bid = 0 THEN {} ELSE {"money"})

GivenBack(r, p, i, e) == SendMailTo(r, p, None, "auction", 0, 0, {i}, Halves(i, e))

\* The mail with i is stored, and the auction still is.
LEMMA LeavingSent ==
  ASSUME NEW r, NEW a, NEW p, NEW i, NEW x, NEW e, NEW D, NEW total,
         Leaving(r, a, p, i, x, e, D, total),
         NEW u, u = GivenBack(r, p, i, e)
  PROVE  /\ Ledger(u, {i}, D, total) /\ Memory(u, {p}, {}) /\ Delivered(r, u, {i})
         /\ \E m \in Mail : /\ u.db.mail[m] # None /\ u.db.mail[m].receiver = p
                            /\ \A n \in Mail, q \in Player :
                                  Posted(u.db, n, i, q) <=> Posted(r.db, n, i, q) \/ (n = m /\ q = p)
<1>0. /\ Hand(r, {}, D, {p}, {}, total) /\ r.cut = {} /\ p \in InMemory(r)
      /\ a \in Auction /\ e = r.db.auction[a] /\ e # None /\ i = e.item /\ i \in Item
      /\ x \in Nat /\ (e.bid = 0 => x = 0) /\ FreeMails(r) # {}
  BY DEF Leaving
<1>99. D = 0 - (e.bid + x)
  BY DEF Leaving
<1>1. PICK N, I, G, open : N = {} /\ I = {i} /\ G = {p} /\ open = Halves(i, e)
  OBVIOUS
<1>2. Ledger(r, N, D, total) /\ Memory(r, G, N) /\ r \in States
      /\ (\A j \in Item : Tracked(r, j) => Clean(r.db, j))
  <2>1. Hand(r, N, D, G, N, total)
    BY <1>0, <1>1, Zenon
  <2> QED BY <2>1 DEF Hand, Ledger
<1>3. e \in AuctionRow /\ e.bid \in Nat /\ p \in Player /\ D \in Int
  <2>1. e \in AuctionRow
    BY <1>0, <1>2, StateFields, DatabaseFields
  <2> QED BY <1>0, <1>2, <2>1 DEF AuctionRow, InMemory, Ledger
<1>4. I \in SUBSET Item /\ open \in SUBSET Thing /\ I \subseteq open /\ i \in I
      /\ (D = 0 \/ "money" \in open)
  <2>1. D = 0 \/ "money" \in open
    BY <1>0, <1>1, <1>3, <1>99 DEF Halves
  <2> QED BY <1>0, <1>1, <2>1 DEF Thing, Halves
<1>5. PICK row : row = Row(p, None, "auction", 0, 0)
  OBVIOUS
<1>6. PICK m \in FreeMails(r) : row \in MailRow /\ Sent(r, u, m, row, I, open)
  <2>1. u = SendMailTo(r, p, None, "auction", 0, 0, I, open)
    BY <1>1, Zenon DEF GivenBack
  <2>2. /\ r \in States /\ FreeMails(r) # {} /\ p \in Player /\ None \in Player \cup {None}
        /\ "auction" \in {"auction", "normal", "payment", "returned"} /\ 0 \in Nat
        /\ I \in SUBSET Item /\ open \in SUBSET Thing
    BY <1>0, <1>2, <1>3, <1>4
  <2> QED BY <1>5, <2>1, <2>2, SendMailIs
<1>7. row.receiver = p /\ row.money = 0 /\ MailRowInv(row) /\ row # None
  BY <1>5, <1>6, NoneIsNothing DEF Row, MailRowInv
<1>8. Ledger(r, I, D, total)
  BY <1>1, <1>2, LedgerLess
<1>9. Ledger(u, I, D - row.money, total)
  <2>1. \A j \in (Item \cap I) \ (I \cup r.cut) : Exact(u.db, j)
    OBVIOUS
  <2>2. I \subseteq open \cup r.cut /\ (D = row.money \/ "money" \in open \cup r.cut) /\ I \subseteq I
    BY <1>4, <1>7
  <2> QED BY <1>4, <1>6, <1>7, <1>8, <2>1, <2>2, LedgerSent
<1>10. D - row.money = D
  BY <1>3, <1>7
<1>11. Ledger(u, {i}, D, total)
  BY <1>1, <1>9, <1>10, Zenon
<1>12. Sells(r.db, a, i) /\ Tracked(r, i) /\ Clean(r.db, i)
  BY <1>0, <1>2 DEF Sells, Tracked
<1>13. I \in SUBSET r.db.instance
  BY <1>0, <1>1, <1>12 DEF Clean
<1>14. \A j \in Item \ I : Clean(r.db, j)
  BY <1>0, <1>2 DEF Tracked
<1>15. Memory(u, G, N)
  BY <1>2, <1>6, <1>13, <1>14, SentMemory
<1>16. Memory(u, {p}, {})
  BY <1>1, <1>15, Zenon
<1>17. Delivered(r, u, {i})
  <2>1. Delivered(r, u, I)
    BY <1>2, <1>4, <1>6, DeliveredIs
  <2> QED BY <1>1, <2>1, Zenon
<1>18. /\ m \in Mail /\ u.db.mail[m] = row
       /\ \A n \in Mail, q \in Player :
             Posted(u.db, n, i, q) <=> Posted(r.db, n, i, q) \/ (n = m /\ q = p)
  <2>1. r.db \in Database /\ m \in Mail /\ r.db.mail[m] = None
    BY <1>2, StateFields DEF FreeMails
  <2>2. u.db = PostedDb(r.db, m, row, I)
    BY <1>6 DEF Sent
  <2>3. u.db.mail = [r.db.mail EXCEPT ![m] = row]
        /\ u.db.attached = r.db.attached \cup {<<m, j, row.receiver>> : j \in I}
    BY <1>4, <1>6, <2>1, <2>2, PostedDbIs
  <2> QED BY <1>1, <1>7, <2>1, <2>3, DatabaseFields DEF Posted
<1> QED BY <1>7, <1>11, <1>16, <1>17, <1>18

Withdrawn(u, a, p) ==
    Commit(SaveInventoryAndGoldToDB([Spent(u, Deposit) EXCEPT !.db.auction[a] = None], p), {})

LEMMA WithdrawnKeeps ==
  ASSUME NEW r, NEW a, NEW p, NEW i, NEW x, NEW e, NEW D, NEW total,
         Leaving(r, a, p, i, x, e, D, total),
         NEW u, u = GivenBack(r, p, i, e),
         NEW t, t = Withdrawn(u, a, p)
  PROVE  Kept(Erased([t EXCEPT !.aitems = @ \ {i}], a), total)
<1>0. /\ r.cut = {} /\ p \in InMemory(r)
      /\ r.house = r.db.auction /\ r.aitems = Goods(r.db)
      /\ BagInv(r.db, r.pl[p], p) /\ r.pl[p].gold = r.db.gold[p] - x
      /\ a \in Auction /\ e = r.db.auction[a] /\ e # None /\ i = e.item /\ i \in Item
      /\ x \in Nat
  BY DEF Leaving
<1>99. D = 0 - (e.bid + x)
  BY DEF Leaving
<1>1. PICK G, N, I : G = {p} /\ N = {} /\ I = {i}
  OBVIOUS
<1>2. PICK m \in Mail :
        /\ Ledger(u, I, D, total) /\ Memory(u, G, N) /\ Delivered(r, u, I)
        /\ u.db.mail[m] # None /\ u.db.mail[m].receiver = p
        /\ \A n \in Mail, q \in Player :
              Posted(u.db, n, i, q) <=> Posted(r.db, n, i, q) \/ (n = m /\ q = p)
  <2>1. /\ Ledger(u, {i}, D, total) /\ Memory(u, {p}, {}) /\ Delivered(r, u, {i})
        /\ \E m \in Mail : /\ u.db.mail[m] # None /\ u.db.mail[m].receiver = p
                           /\ \A n \in Mail, q \in Player :
                                 Posted(u.db, n, i, q) <=> Posted(r.db, n, i, q) \/ (n = m /\ q = p)
    BY LeavingSent
  <2> QED BY <1>1, <2>1, Zenon
<1>3. /\ u.house = r.house /\ u.aitems = r.aitems /\ u.cut = r.cut
      /\ u.db.gold = r.db.gold /\ u.db.inventory = r.db.inventory
      /\ u.db.instance = r.db.instance /\ u.db.auction = r.db.auction
      /\ InMemory(u) = InMemory(r)
      /\ u.pl[p].gold = r.pl[p].gold /\ u.pl[p].bag = r.pl[p].bag
  BY <1>0, <1>2, Zenon DEF Delivered
<1>4. /\ r \in States /\ u \in States /\ e \in AuctionRow /\ e.bid \in Nat /\ p \in Player /\ D \in Int
      /\ u.db \in Database /\ u.past \in Past /\ Deposit \in Nat /\ p # None
      /\ DbInv(r.db) /\ \A j \in Item : Clean(r.db, j)
  <2>0. Hand(r, {}, D, {p}, {}, total)
    BY DEF Leaving
  <2>1. r \in States /\ u \in States /\ DbInv(r.db) /\ \A j \in Item : Clean(r.db, j)
    BY <1>0, <1>2, <2>0, Zenon DEF Hand, Ledger, Tracked
  <2>2. e \in AuctionRow
    BY <1>0, <2>1, StateFields, DatabaseFields
  <2> QED BY <1>0, <1>2, <2>1, <2>2, StateFields, AuctionConstants, MailConstants, Zenon
          DEF AuctionRow, InMemory, Ledger
<1>5. PICK v : v = Spent(u, Deposit)
  OBVIOUS
<1>6. /\ v \in States /\ v.db = u.db /\ v.pl = u.pl /\ v.house = u.house /\ v.txs = u.txs
      /\ v.aitems = u.aitems /\ v.cut = u.cut
  BY <1>4, <1>5, SpentIs
<1>7. Ledger(v, I, D - Deposit, total)
  BY <1>2, <1>4, <1>5, LedgerSpent
<1>8. PICK w : w = [v EXCEPT !.db.auction[a] = None]
  OBVIOUS
<1>9. PICK d : d = PutDb(u.db, a, None)
  OBVIOUS
<1>10. /\ d \in Database /\ d.gold = u.db.gold /\ d.inventory = u.db.inventory
       /\ d.instance = u.db.instance /\ d.attached = u.db.attached /\ d.mail = u.db.mail
       /\ d.auction = [u.db.auction EXCEPT ![a] = None]
  <2>1. a \in Auction /\ u.db \in Database
    BY <1>0, <1>4
  <2> QED BY <1>9, <2>1, PutDbIs
<1>11. d.auction[a] = None /\ \A b \in Auction : b # a => d.auction[b] = u.db.auction[b]
  <2>1. a \in Auction /\ u.db.auction \in [Auction -> AuctionRow \cup {None}]
    BY <1>0, <1>4, DatabaseFields
  <2> QED BY <1>10, <2>1
<1>12. w = [v EXCEPT !.db = d]
  BY <1>6, <1>8, <1>9, Zenon DEF PutDb
<1>13. /\ w \in States /\ w.db = d /\ w.pl = u.pl /\ w.house = u.house /\ w.txs = v.txs
       /\ w.aitems = u.aitems /\ w.cut = u.cut /\ w.past = v.past
  BY <1>6, <1>10, <1>12, Zenon DEF States
<1>14. \A j \in Item : Sells(u.db, a, j) <=> j = i
  BY <1>0, <1>3, Zenon DEF Sells
<1>15. \A b \in Auction : Sells(u.db, b, i) => b = a
  <2>1. a \in Auction /\ i \in Item /\ Sells(r.db, a, i)
    BY <1>0 DEF Sells
  <2>2. \A b \in Auction : Sells(u.db, b, i) <=> Sells(r.db, b, i)
    BY <1>3 DEF Sells
  <2>3. \A b \in Auction : Sells(r.db, b, i) => b = a
    BY <1>4, <2>1 DEF DbInv
  <2> QED BY <2>2, <2>3
<1>16. Ledger(w, I, 0 - x, total)
  <2>1. WonInv(w.db, w.past)
    <3>1. WonInv(v.db, v.past)
      BY <1>7 DEF Ledger
    <3>2. ~u.db.auction[a].sold
      <4>1. RowInv(e) /\ e.item # None
        BY <1>0, <1>4, MailConstants DEF DbInv
      <4> QED BY <1>0, <1>3, <4>1, Zenon DEF RowInv
    <3> QED BY <1>6, <1>11, <1>13, <3>1, <3>2 DEF WonInv
  <2>2. \A j \in Item \ I : j \notin I /\ (Sells(v.db, a, j) <=> None # None /\ None.item = j)
    BY <1>1, <1>6, <1>14
  <2>3. \A b \in Auction, j \in Item : b # a /\ Sells(v.db, b, j) => ~(None # None /\ None.item = j)
    OBVIOUS
  <2>4. None \in AuctionRow \cup {None} /\ (None # None => RowInv(None))
        /\ w.db = PutDb(v.db, a, None)
    BY <1>6, <1>9, <1>13
  <2>5. Ledger(w, I, (D - Deposit) + (AuctionWorth(v.db.auction[a]) - AuctionWorth(None)), total)
    <3>1. a \in Auction /\ w \in States /\ w.txs = v.txs /\ w.cut = v.cut /\ w.past = v.past
      BY <1>0, <1>6, <1>13
    <3> QED BY <1>7, <2>1, <2>2, <2>3, <2>4, <3>1, LedgerPut
  <2>6. AuctionWorth(v.db.auction[a]) = Deposit + e.bid /\ AuctionWorth(None) = 0
    BY <1>0, <1>3, <1>6, Zenon DEF AuctionWorth
  <2>7. (D - Deposit) + (AuctionWorth(v.db.auction[a]) - AuctionWorth(None)) = 0 - x
    BY <1>0, <1>4, <1>99, <2>6
  <2> QED BY <2>5, <2>7, Zenon
<1>17. Exact(w.db, i)
  <2>1. Clean(r.db, i) /\ Sells(r.db, a, i)
    BY <1>0, <1>3, <1>4, <1>14, Zenon DEF Sells
  <2>2. i \in r.db.instance /\ r.db.inventory[i] = None
        /\ \A n \in Mail, q \in Player : ~Posted(r.db, n, i, q)
    BY <1>0, <2>1 DEF Clean
  <2>3. i \in d.instance /\ d.inventory[i] = None /\ d.mail[m] # None /\ d.mail[m].receiver = p
    BY <1>2, <1>3, <1>10, <2>2
  <2>4. \A n \in Mail, q \in Player : Posted(d, n, i, q) <=> (n = m /\ q = p)
    BY <1>2, <1>10, <2>2 DEF Posted
  <2>5. \A b \in Auction : ~Sells(d, b, i)
    BY <1>11, <1>15 DEF Sells
  <2> QED BY <1>4, <1>13, <2>3, <2>4, <2>5 DEF Exact, Clean, Somewhere
<1>18. Ledger(w, N, 0 - x, total)
  BY <1>1, <1>16, <1>17, LedgerLess
<1>19. Memory(w, G, N) /\ InMemory(w) = InMemory(u)
  <2>1. SameTables(u.db, w.db, G) /\ u.cut \subseteq w.cut
    BY <1>10, <1>13 DEF SameTables
  <2> QED BY <1>2, <1>13, <2>1, MemorySame
<1>20. \A j \in Item : Tracked(w, j) => Clean(w.db, j)
  BY <1>0, <1>1, <1>3, <1>13, <1>18, Zenon DEF Ledger, Exact
<1>21. PICK E : E = 0 - x
  OBVIOUS
<1>22. Hand(w, {}, E, {p}, {}, total)
  <2>1. Hand(w, N, E, G, N, total)
    BY <1>18, <1>19, <1>20, <1>21 DEF Hand
  <2> QED BY <1>1, <2>1, Zenon
<1>23. Ready(w, p, {}, E, total)
  <2>1. BagInv(w.db, w.pl[p], p)
    <3>1. w.pl[p].bag = r.pl[p].bag /\ w.db.inventory = r.db.inventory /\ w.db.instance = r.db.instance
      BY <1>3, <1>10, <1>13
    <3>2. BagInv(r.db, r.pl[p], p)
      BY <1>0
    <3> QED BY <3>1, <3>2 DEF BagInv
  <2>2. E + w.db.gold[p] = w.pl[p].gold
    <3>1. r.db.gold[p] \in Int
      BY <1>4, StateFields, DatabaseFields, MailConstants
    <3>2. w.db.gold[p] = r.db.gold[p] /\ w.pl[p].gold = r.pl[p].gold
      BY <1>3, <1>10, <1>13
    <3>3. r.pl[p].gold = r.db.gold[p] - x /\ x \in Nat
      BY <1>0
    <3> QED BY <1>21, <3>1, <3>2, <3>3
  <2> QED BY <1>0, <1>3, <1>13, <1>19, <1>22, <2>1, <2>2, Zenon DEF Ready
<1>24. PICK z : z = SaveInventoryAndGoldToDB(w, p)
  OBVIOUS
<1>25. Hand(z, {}, 0, {}, {}, total) /\ SavedAs(w, z, p)
  BY <1>23, <1>24, SaveHand
<1>26. Hand(z, N, 0, N, N, total)
  BY <1>1, <1>25, Zenon
<1>27. t = Commit(z, N)
  BY <1>1, <1>5, <1>8, <1>24, Zenon DEF Withdrawn
<1>28. Hand(t, N, 0, N, N, total) /\ Copied(z, t)
  <2>1. N \in SUBSET Thing /\ N \subseteq N \cup z.cut
    BY <1>1
  <2> QED BY <1>26, <1>27, <2>1, HandCommit
<1>29. /\ t.house = u.house /\ t.aitems = u.aitems /\ t.db.auction = d.auction /\ t \in States
  BY <1>13, <1>25, <1>28 DEF SavedAs, DbStep, Copied, Hand, Ledger
<1>30. PICK rows, f : rows = [t.house EXCEPT ![a] = None] /\ f = Erased([t EXCEPT !.aitems = @ \ {i}], a)
  OBVIOUS
<1>31. PICK g : g = [t EXCEPT !.aitems = @ \ {i}]
  OBVIOUS
<1>32. g \in States /\ g.house = t.house
  BY <1>29, <1>31 DEF States
<1>33. f = [g EXCEPT !.house = rows]
  BY <1>30, <1>31, <1>32, Zenon DEF Erased
<1>34. /\ rows \in [Auction -> AuctionRow \cup {None}] /\ rows[a] = None
       /\ \A b \in Auction : b # a => rows[b] = t.house[b]
  BY <1>0, <1>29, <1>30, StateFields, Zenon
<1>35. /\ f \in States /\ f.db = t.db /\ f.txs = t.txs /\ f.pl = t.pl /\ f.cut = t.cut
       /\ f.past = t.past /\ f.house = rows /\ f.aitems = t.aitems \ {i}
  BY <1>29, <1>31, <1>32, <1>33, <1>34, Zenon DEF States
<1>36. Hand(f, N, 0, N, N, total)
  <2>1. WonInv(f.db, f.past)
    BY <1>28, <1>35 DEF Hand, Ledger
  <2> QED BY <1>28, <1>35, <2>1, HandAside
<1>37. f.house = f.db.auction
  <2>1. f.db.auction \in [Auction -> AuctionRow \cup {None}]
    BY <1>35, StateFields, DatabaseFields
  <2>2. \A b \in Auction : rows[b] = f.db.auction[b]
    <3>1. r.house = r.db.auction
      BY <1>0
    <3> QED BY <1>3, <1>11, <1>29, <1>34, <1>35, <3>1
  <2> QED BY <1>34, <1>35, <2>1, <2>2
<1>38. f.aitems = Goods(f.db)
  <2>1. \A j \in Item : (\E b \in Auction : Sells(f.db, b, j))
                           <=> j # i /\ \E b \in Auction : Sells(r.db, b, j)
    <3>1. f.db.auction = d.auction
      BY <1>29, <1>35
    <3>2. ASSUME NEW j \in Item
          PROVE  \A b \in Auction : Sells(f.db, b, j) <=> b # a /\ Sells(u.db, b, j)
      BY <1>11, <3>1 DEF Sells
    <3>3. \A j \in Item, b \in Auction : Sells(u.db, b, j) <=> Sells(r.db, b, j)
      BY <1>3 DEF Sells
    <3>4. ASSUME NEW j \in Item, j # i, NEW b \in Auction, Sells(u.db, b, j) PROVE b # a
      BY <1>14, <3>4
    <3>5. \A b \in Auction : Sells(u.db, b, i) => b = a
      BY <1>15
    <3> QED BY <3>2, <3>3, <3>4, <3>5
  <2>2. f.aitems = Goods(r.db) \ {i}
    BY <1>0, <1>3, <1>29, <1>35, Zenon
  <2> QED BY <2>1, <2>2 DEF Goods
<1>39. Hand(f, {}, 0, {}, {}, total)
  BY <1>1, <1>36, Zenon
<1>40. Kept(f, total)
  BY <1>37, <1>38, <1>39, KeptHand
<1> QED BY <1>30, <1>40

LEMMA RemoveItemKeeps ==
  ASSUME NEW total, Kept(World, total), Enough(World), cut = {}, NEW p \in Player,
         NEW a \in Auction, HandleAuctionRemoveItem(p, a)
  PROVE  Kept(World, total)' /\ Enough(World)'
<1>1. PICK e, i, r, u, t :
        /\ e = house[a] /\ i = e.item
        /\ r = BidReturned(World, a, p)
        /\ u = GivenBack(r, p, i, e)
        /\ t = Withdrawn(u, a, p)
  OBVIOUS
<1>2. /\ Here(p) /\ house[a] # None /\ i \in aitems /\ HasNumbers(2)
      /\ (e.bid # 0 => pl[p].gold >= GetAuctionCut(e))
      /\ Handled(Erased([t EXCEPT !.aitems = @ \ {i}], a))
  <2> DEFINE F(y) == [y EXCEPT !.aitems = @ \ {i}]
             U(y) == SendMailTo(y, p, None, "auction", 0, 0, {i},
                                {i} \cup (IF e.bid = 0 THEN {} ELSE {"money"}))
             W(y) == Commit(SaveInventoryAndGoldToDB(
                               [Spent(y, Deposit) EXCEPT !.db.auction[a] = None], p), {})
  <2>1. /\ Here(p) /\ house[a] # None /\ house[a].item \in aitems /\ HasNumbers(2)
        /\ (house[a].bid # 0 => pl[p].gold >= GetAuctionCut(house[a]))
    BY Zenon DEF HandleAuctionRemoveItem
  <2>2. Handled(Erased(F(W(U(BidReturned(World, a, p)))), a))
    BY <1>1, ZenonT(60) DEF HandleAuctionRemoveItem
  <2>3. u = U(r)
    BY <1>1, Zenon DEF GivenBack, Halves
  <2>4. t = W(u)
    BY <1>1, Zenon DEF Withdrawn
  <2> HIDE DEF F, U, W
  <2>5. Handled(Erased(F(t), a))
    BY ONLY <1>1, <2>2, <2>3, <2>4
  <2> QED BY <1>1, <2>1, <2>5 DEF F
<1>3. /\ World \in States /\ World.house = World.db.auction /\ World.aitems = Goods(World.db)
      /\ (\A q \in InMemory(World) : PlayerInv(World.db, World.cut, World.pl[q], q))
      /\ DbInv(db)
  BY WorldIs DEF Kept, Ledger
<1>4. p \in InMemory(World)
  BY <1>2, WorldIs DEF Here, InWorld, InMemory
<1>5. e \in AuctionRow /\ RowInv(e) /\ e = db.auction[a] /\ i \in Item
  BY <1>1, <1>2, <1>3, WorldIs, StateFields DEF DbInv
<1>6. PICK G, N : G = {p} /\ N = {}
  OBVIOUS
<1>7. Hand(World, {}, 0, {p}, {}, total)
  <2>1. Hand(World, {}, 0, G, N, total)
    BY HandOf
  <2> QED BY <1>6, <2>1, Zenon
<1>8. Withdrawing(World, a, p, e, total)
  <2>1. FreeMails(World) # {} /\ \A m : FreeMails(World) \ {m} # {}
    BY <1>2, NumbersIs
  <2> QED BY <1>1, <1>2, <1>4, <1>5, <1>7, <2>1, WorldIs DEF Withdrawing
<1>9. PICK x \in Nat : ReturnedAs(World, r, p, x, 0 - (e.bid + x), total) /\ (e.bid = 0 => x = 0)
  BY <1>1, <1>8, BidReturnedIs
<1>99. PICK D : D = 0 - (e.bid + x)
  OBVIOUS
<1>10. /\ Hand(r, {}, D, {p}, {}, total) /\ r.pl[p].gold = World.pl[p].gold - x
       /\ r.house = World.house /\ r.aitems = World.aitems /\ r.cut = World.cut
       /\ InMemory(r) = InMemory(World) /\ r.pl[p].bag = World.pl[p].bag
       /\ r.db.gold = World.db.gold /\ r.db.inventory = World.db.inventory
       /\ r.db.instance = World.db.instance /\ r.db.auction = World.db.auction
       /\ FreeMails(r) # {}
  BY <1>9, <1>99 DEF ReturnedAs
<1>11. Leaving(r, a, p, i, x, e, D, total)
  <2>1. BagInv(r.db, r.pl[p], p) /\ r.pl[p].gold = r.db.gold[p] - x
    BY <1>3, <1>4, <1>10 DEF PlayerInv, PurseInv, BagInv
  <2>2. r.aitems = Goods(r.db)
    BY <1>3, <1>10 DEF Goods, Sells
  <2>3. r.house = r.db.auction /\ r.cut = {} /\ p \in InMemory(r) /\ e = r.db.auction[a]
    BY <1>3, <1>4, <1>5, <1>10, WorldIs
  <2>4. e # None
    BY <1>1, <1>2
  <2> QED BY <1>1, <1>5, <1>9, <1>10, <1>99, <2>1, <2>2, <2>3, <2>4 DEF Leaving
<1>12. Kept(Erased([t EXCEPT !.aitems = @ \ {i}], a), total)
  BY <1>1, <1>11, WithdrawnKeeps
<1> QED BY <1>2, <1>12, HandledKeeps

-----------------------------------------------------------------------------
(* The end of a trade *)

\* t is s but for the purses, the bags and the trades of G.
Shuffled(s, t, G) ==
    /\ PlayersStep(s, t)
    /\ \A x \in Player :
          /\ s.pl[x] = None <=> t.pl[x] = None
          /\ s.pl[x] # None => t.pl[x].mails = s.pl[x].mails
          /\ s.pl[x] # None /\ x \notin G => t.pl[x].gold = s.pl[x].gold /\ t.pl[x].bag = s.pl[x].bag

LEMMA HandShuffled ==
  ASSUME NEW s, NEW H, NEW D, NEW G, NEW M, NEW total, Hand(s, H, D, G, M, total),
         NEW t, Shuffled(s, t, G), Paired(t.pl)
  PROVE  Hand(t, H, D, G, M, total) /\ InMemory(t) = InMemory(s) /\ FreeMails(t) = FreeMails(s)
<1>0. /\ t \in States
      /\ t.db = s.db /\ t.txs = s.txs /\ t.house = s.house /\ t.aitems = s.aitems
      /\ t.past = s.past /\ t.cut = s.cut
      /\ \A x \in Player :
          /\ s.pl[x] = None <=> t.pl[x] = None
          /\ s.pl[x] # None => t.pl[x].mails = s.pl[x].mails
          /\ s.pl[x] # None /\ x \notin G => t.pl[x].gold = s.pl[x].gold /\ t.pl[x].bag = s.pl[x].bag
  BY DEF Shuffled, PlayersStep
<1>1. /\ Ledger(s, H, D, total) /\ Memory(s, G, M) /\ WonInv(s.db, s.past)
      /\ \A i \in Item : Tracked(s, i) => Clean(s.db, i)
  BY DEF Hand, Ledger
<1>2. Ledger(t, H, D, total)
  BY <1>0, <1>1, LedgerSame
<1>3. InMemory(t) = InMemory(s)
  BY <1>0 DEF InMemory
<1>4. Memory(t, G, M)
  <2>1. ASSUME NEW x \in InMemory(t) \ G PROVE PurseInv(t.db, t.pl[x], x) /\ BagInv(t.db, t.pl[x], x)
    <3>1. x \in Player /\ s.pl[x] # None /\ PurseInv(s.db, s.pl[x], x) /\ BagInv(s.db, s.pl[x], x)
      BY <1>1, <1>3 DEF Memory, InMemory
    <3> QED BY <1>0, <3>1 DEF PurseInv, BagInv
  <2>2. ASSUME NEW x \in InMemory(t), NEW m \in Mail, m \in DOMAIN t.pl[x].mails, ~(x \in G /\ m \in M)
        PROVE  MailInv(t.db, t.cut, t.pl[x].mails[m], m, x)
    <3>1. x \in Player /\ s.pl[x] # None /\ t.pl[x].mails = s.pl[x].mails /\ x \in InMemory(s)
      BY <1>0, <1>3 DEF InMemory
    <3>2. MailInv(s.db, s.cut, s.pl[x].mails[m], m, x)
      BY <1>1, <2>2, <3>1 DEF Memory
    <3> QED BY <1>0, <3>1, <3>2
  <2> QED BY <2>1, <2>2 DEF Memory
<1>5. FreeMails(t) = FreeMails(s)
  BY <1>0 DEF FreeMails
<1>6. \A i \in Item : Tracked(t, i) => Clean(t.db, i)
  BY <1>0, <1>1, <1>3 DEF Tracked
<1> QED BY <1>2, <1>3, <1>4, <1>5, <1>6 DEF Hand

\* p and q have together what the tables say they have.
Dealing(v, p, q, total) ==
    /\ Hand(v, {}, 0, {p, q}, {}, total) /\ v.cut = {} /\ p \in InMemory(v) /\ q \in InMemory(v)
    /\ p # q /\ v.house = v.db.auction /\ v.aitems = Goods(v.db)
    /\ v.pl[p].gold + v.pl[q].gold = v.db.gold[p] + v.db.gold[q]
    /\ v.pl[p].bag \cup v.pl[q].bag = {i \in v.db.instance : v.db.inventory[i] \in {p, q}}
    /\ v.pl[p].bag \cap v.pl[q].bag = {}

LEMMA DealKeeps ==
  ASSUME NEW v, NEW p, NEW q, NEW total, Dealing(v, p, q, total)
  PROVE  LET t == Commit(SaveInventoryAndGoldToDB(SaveInventoryAndGoldToDB(v, p), q), {}) IN
         Kept(t, total) /\ FreeMails(t) = FreeMails(v) /\ t.house = v.house
<1>1. PICK G, N : G = {p, q} /\ N = {}
  OBVIOUS
<1>2. Hand(v, N, 0, G, N, total)
  <2>1. Hand(v, {}, 0, {p, q}, {}, total)
    BY DEF Dealing
  <2> QED BY <1>1, <2>1, Zenon
<1>3. /\ v.cut = {} /\ p \in InMemory(v) /\ q \in InMemory(v)
      /\ p # q /\ v.house = v.db.auction /\ v.aitems = Goods(v.db)
      /\ v.pl[p].gold + v.pl[q].gold = v.db.gold[p] + v.db.gold[q]
      /\ v.pl[p].bag \cup v.pl[q].bag = {i \in v.db.instance : v.db.inventory[i] \in {p, q}}
      /\ v.pl[p].bag \cap v.pl[q].bag = {}
  BY DEF Dealing
<1>4. /\ v \in States /\ v.db \in Database /\ Ledger(v, N, 0, total) /\ Memory(v, G, N)
      /\ \A i \in Item : Tracked(v, i) => Clean(v.db, i)
  BY <1>2, StateFields DEF Hand, Ledger
<1>5. \A i \in Item : Clean(v.db, i)
  BY <1>3, <1>4 DEF Tracked
<1>6. /\ p \in Player /\ q \in Player /\ v.pl[p] # None /\ v.pl[q] # None /\ p # None /\ q # None
      /\ v.pl[p] \in PlayerRecord /\ v.pl[q] \in PlayerRecord
      /\ v.pl[p].gold \in 0 .. MaxGold /\ v.pl[q].gold \in 0 .. MaxGold
      /\ v.db.gold[p] \in 0 .. MaxGold /\ v.db.gold[q] \in 0 .. MaxGold
      /\ v.db.gold \in [Player -> 0 .. MaxGold]
  BY <1>3, <1>4, RecordOf, DatabaseFields, MailConstants
<1>7. PICK X : X = v.pl[p].bag \cup v.pl[q].bag
  OBVIOUS
<1>8. /\ X \subseteq Item /\ X \subseteq v.db.instance
      /\ \A i \in X : v.db.inventory[i] \in {p, q}
      /\ \A i \in Item \ X : v.db.inventory[i] # p /\ v.db.inventory[i] # q
  <2>1. X \subseteq v.db.instance /\ v.db.instance \subseteq Item /\ \A i \in X : v.db.inventory[i] \in {p, q}
    BY <1>3, <1>4, <1>7, DatabaseFields
  <2>2. ASSUME NEW i \in Item \ X PROVE v.db.inventory[i] # p /\ v.db.inventory[i] # q
    <3>1. i \in v.db.instance \/ v.db.inventory[i] = None
      BY <1>5 DEF Clean
    <3> QED BY <1>3, <1>6, <1>7, <3>1
  <2> QED BY <2>1, <2>2
<1>9. PICK w : w = SaveInventoryAndGoldToDB(v, p)
  OBVIOUS
<1>10. PICK z : z = SaveInventoryAndGoldToDB(w, q)
  OBVIOUS
<1>11. /\ w \in States /\ w.txs = v.txs /\ w.pl = v.pl /\ w.house = v.house /\ w.aitems = v.aitems
       /\ w.past = v.past /\ w.cut = v.cut /\ w.db = Stored(v.db, p, v.pl[p])
  BY <1>4, <1>6, <1>9, SaveIs DEF DbStep
<1>12. \A x \in InMemory(v) \ G : v.pl[x].bag \cap X = {}
  <2>1. \A x \in InMemory(v) \ G : BagInv(v.db, v.pl[x], x)
    BY <1>4 DEF Memory
  <2> QED BY <1>1, <1>8, <2>1 DEF BagInv
<1>13. /\ Memory(w, G, N) /\ FreeMails(w) = FreeMails(v) /\ InMemory(w) = InMemory(v)
       /\ PurseInv(w.db, w.pl[p], p) /\ BagInv(w.db, w.pl[p], p)
       /\ w.db.instance = v.db.instance /\ w.db.mail = v.db.mail
       /\ w.db.attached = v.db.attached /\ w.db.auction = v.db.auction
       /\ \A i \in Item : w.db.inventory[i] = IF i \in v.pl[p].bag THEN p
                                              ELSE IF v.db.inventory[i] = p THEN None
                                              ELSE v.db.inventory[i]
  <2>1. v.pl[p].bag \subseteq v.db.instance
    BY <1>7, <1>8
  <2>2. \A x \in InMemory(v) \ G : x # p => v.pl[x].bag \cap v.pl[p].bag = {}
    BY <1>7, <1>12
  <2> QED BY <1>3, <1>4, <1>9, <2>1, <2>2, SaveMemory
<1>14. w.db.gold = [v.db.gold EXCEPT ![p] = v.pl[p].gold]
  BY <1>4, <1>6, <1>11, StoredIs DEF StoredAs
<1>15. PICK c, d \in Int : c = v.db.gold[p] - v.pl[p].gold /\ d = w.db.gold[q] - w.pl[q].gold
  BY <1>3, <1>6, <1>11, <1>14
<1>16. c + d = 0
  BY <1>3, <1>6, <1>11, <1>14, <1>15
<1>17. Ledger(w, X, c, total)
  <2>1. \A i \in Item \ (X \cup v.cut) : BagHas(v.db, p, v.pl[p], i)
    BY <1>7, <1>8 DEF BagHas
  <2>2. Ledger(w, N \cup X, 0 + (v.db.gold[p] - v.pl[p].gold), total)
    BY <1>4, <1>6, <1>9, <2>1, LedgerSave
  <2>3. N \cup X = X /\ 0 + (v.db.gold[p] - v.pl[p].gold) = c
    BY <1>1, <1>15
  <2> QED BY <2>2, <2>3, Zenon
<1>18. Ledger(z, X, 0, total)
  <2>1. \A i \in Item \ (X \cup w.cut) : BagHas(w.db, q, w.pl[q], i)
    <3> SUFFICES ASSUME NEW i \in Item \ X PROVE BagHas(w.db, q, w.pl[q], i)
      OBVIOUS
    <3>1. i \notin v.pl[p].bag /\ i \notin v.pl[q].bag
      BY <1>7
    <3>2. w.db.inventory[i] = v.db.inventory[i]
      BY <1>8, <1>13, <3>1
    <3> QED BY <1>8, <1>11, <3>1, <3>2 DEF BagHas
  <2>2. Ledger(z, X \cup X, c + (w.db.gold[q] - w.pl[q].gold), total)
    <3>1. w.pl[q] # None
      BY <1>6, <1>11
    <3> QED BY <1>6, <1>10, <1>17, <2>1, <3>1, LedgerSave
  <2>3. X \cup X = X /\ c + (w.db.gold[q] - w.pl[q].gold) = 0
    BY <1>15, <1>16
  <2> QED BY <2>2, <2>3, Zenon
<1>19. /\ z \in States /\ z.pl = v.pl /\ z.house = v.house /\ z.aitems = v.aitems
       /\ z.cut = v.cut /\ z.db = Stored(w.db, q, w.pl[q])
  <2>1. w.pl[q] # None
    BY <1>6, <1>11
  <2> QED BY <1>6, <1>10, <1>11, <2>1, SaveIs DEF DbStep
<1>20. /\ Memory(z, G, N) /\ InMemory(z) = InMemory(v) /\ FreeMails(z) = FreeMails(v)
       /\ PurseInv(z.db, z.pl[q], q) /\ BagInv(z.db, z.pl[q], q)
       /\ z.db.instance = v.db.instance /\ z.db.mail = v.db.mail
       /\ z.db.attached = v.db.attached /\ z.db.auction = v.db.auction
       /\ \A i \in Item : z.db.inventory[i] = IF i \in v.pl[q].bag THEN q
                                              ELSE IF w.db.inventory[i] = q THEN None
                                              ELSE w.db.inventory[i]
  <2>1. w.pl[q].bag \subseteq w.db.instance /\ q \in InMemory(w)
    BY <1>3, <1>7, <1>8, <1>11, <1>13
  <2>2. \A x \in InMemory(w) \ G : x # q => w.pl[x].bag \cap w.pl[q].bag = {}
    BY <1>7, <1>11, <1>12, <1>13
  <2>3. /\ Memory(z, G, N) /\ InMemory(z) = InMemory(w) /\ FreeMails(z) = FreeMails(w)
        /\ PurseInv(z.db, z.pl[q], q) /\ BagInv(z.db, z.pl[q], q)
        /\ z.db.instance = w.db.instance /\ z.db.mail = w.db.mail
        /\ z.db.attached = w.db.attached /\ z.db.auction = w.db.auction
        /\ \A i \in Item : z.db.inventory[i] = IF i \in w.pl[q].bag THEN q
                                               ELSE IF w.db.inventory[i] = q THEN None
                                               ELSE w.db.inventory[i]
    BY <1>10, <1>11, <1>13, <2>1, <2>2, SaveMemory
  <2> QED BY <1>11, <1>13, <2>3
<1>21. z.db.gold = [w.db.gold EXCEPT ![q] = w.pl[q].gold]
  <2>1. w.db \in Database /\ w.pl[q] \in PlayerRecord
    BY <1>6, <1>11, StateFields
  <2> QED BY <1>6, <1>19, <2>1, StoredIs DEF StoredAs
<1>22. \A i \in Item : /\ i \in v.pl[p].bag => z.db.inventory[i] = p
                       /\ i \in v.pl[q].bag => z.db.inventory[i] = q
                       /\ i \notin X => z.db.inventory[i] = v.db.inventory[i]
  <2> SUFFICES ASSUME NEW i \in Item
               PROVE  /\ i \in v.pl[p].bag => z.db.inventory[i] = p
                      /\ i \in v.pl[q].bag => z.db.inventory[i] = q
                      /\ i \notin X => z.db.inventory[i] = v.db.inventory[i]
    OBVIOUS
  <2>1. i \in v.pl[p].bag => i \notin v.pl[q].bag
    BY <1>3
  <2>2. i \notin X => /\ v.db.inventory[i] # p /\ v.db.inventory[i] # q
                      /\ i \notin v.pl[p].bag /\ i \notin v.pl[q].bag
    BY <1>7, <1>8
  <2> QED BY <1>3, <1>13, <1>20, <2>1, <2>2
<1>23. PurseInv(z.db, z.pl[p], p) /\ BagInv(z.db, z.pl[p], p)
  <2>1. z.db.gold[p] = v.pl[p].gold
    BY <1>3, <1>6, <1>14, <1>21
  <2>2. \A i \in Item : i \in v.pl[p].bag <=> i \in v.db.instance /\ z.db.inventory[i] = p
    BY <1>3, <1>7, <1>8, <1>22
  <2>3. v.db.instance \subseteq Item /\ v.pl[p].bag \subseteq Item
    BY <1>4, <1>7, <1>8, DatabaseFields
  <2> QED BY <1>19, <1>20, <2>1, <2>2, <2>3 DEF PurseInv, BagInv
<1>24. ASSUME NEW i \in X PROVE Exact(z.db, i)
  <2>1. Clean(v.db, i) /\ v.db.inventory[i] # None /\ i \in Item /\ i \in v.db.instance
    BY <1>5, <1>6, <1>8
  <2>2. /\ \A b \in Auction : ~Sells(v.db, b, i)
        /\ \A m \in Mail, r \in Player : ~Posted(v.db, m, i, r)
    BY <2>1 DEF Clean
  <2>3. z.db.inventory[i] # None
    BY <1>6, <1>7, <1>22, <2>1
  <2>4. /\ \A b \in Auction : ~Sells(z.db, b, i)
        /\ \A m \in Mail, r \in Player : ~Posted(z.db, m, i, r)
    BY <1>20, <2>2 DEF Sells, Posted
  <2> QED BY <1>20, <2>1, <2>3, <2>4 DEF Exact, Clean, Somewhere
<1>25. Ledger(z, {}, 0, total)
  BY <1>18, <1>24, LedgerLess
<1>26. Memory(z, {}, {})
  <2>1. Memory(z, N, N)
    <3>1. \A x \in InMemory(z) \ N : PurseInv(z.db, z.pl[x], x) /\ BagInv(z.db, z.pl[x], x)
      BY <1>1, <1>20, <1>23 DEF Memory
    <3> QED BY <1>1, <1>20, <3>1 DEF Memory
  <2> QED BY <1>1, <2>1, Zenon
<1>27. z.cut = {} /\ z.house = z.db.auction /\ z.aitems = Goods(z.db)
  BY <1>3, <1>19, <1>20 DEF Goods, Sells
<1>28. Kept(Commit(z, {}), total)
  BY <1>25, <1>26, <1>27, KeptCommit
<1>29. FreeMails(Commit(z, {})) = FreeMails(v) /\ Commit(z, {}).house = v.house
  <2>1. PICK y : y = Commit(z, {})
    OBVIOUS
  <2>2. y.db = z.db /\ y.pl = z.pl /\ y.house = z.house
    BY <1>19, <2>1, CommitIs
  <2>3. FreeMails(y) = FreeMails(z)
    BY <2>2 DEF FreeMails
  <2> QED BY <1>19, <1>20, <2>1, <2>2, <2>3
<1> QED BY <1>9, <1>10, <1>28, <1>29, Zenon

\* p has the bag A, and q the bag B.
Swapped(s, p, q, A, B) == [s EXCEPT !.pl[p].bag = A, !.pl[q].bag = B]
SwappedAs(s, u, p, q, A, B) ==
    /\ Shuffled(s, u, {p, q}) /\ Sides(s.pl, u.pl)
    /\ u.pl[p].bag = A /\ u.pl[q].bag = B
    /\ u.pl[p].gold = s.pl[p].gold /\ u.pl[q].gold = s.pl[q].gold
    /\ u.pl[p].trade = s.pl[p].trade

LEMMA SwappedIs ==
  ASSUME NEW s \in States, NEW p \in Player, NEW q \in Player, p # q, s.pl[p] # None, s.pl[q] # None,
         NEW A \in SUBSET Item, NEW B \in SUBSET Item, NEW u, u = Swapped(s, p, q, A, B)
  PROVE  SwappedAs(s, u, p, q, A, B)
<1>1. /\ s.pl \in [Player -> PlayerRecord \cup {None}]
      /\ s.pl[p] \in PlayerRecord /\ s.pl[q] \in PlayerRecord
  BY StateFields
<1>2. PICK f, g : f = [s.pl[p] EXCEPT !.bag = A] /\ g = [s.pl[q] EXCEPT !.bag = B]
  OBVIOUS
<1>3. /\ f \in PlayerRecord /\ f.bag = A /\ f.gold = s.pl[p].gold /\ f.trade = s.pl[p].trade
      /\ f.mails = s.pl[p].mails /\ f.inWorld = s.pl[p].inWorld /\ f # None
  BY <1>1, <1>2, NoneIsNothing DEF PlayerRecord
<1>4. /\ g \in PlayerRecord /\ g.bag = B /\ g.gold = s.pl[q].gold /\ g.trade = s.pl[q].trade
      /\ g.mails = s.pl[q].mails /\ g.inWorld = s.pl[q].inWorld /\ g # None
  BY <1>1, <1>2, NoneIsNothing DEF PlayerRecord
<1>5. PICK h, k : h = [s.pl EXCEPT ![p] = f] /\ k = [h EXCEPT ![q] = g]
  OBVIOUS
<1>6. /\ k \in [Player -> PlayerRecord \cup {None}] /\ k[p] = f /\ k[q] = g
      /\ \A x \in Player : x # p /\ x # q => k[x] = s.pl[x]
      /\ h[q] = s.pl[q]
  BY <1>1, <1>3, <1>4, <1>5
<1>7. PICK w : w = [s EXCEPT !.pl[p].bag = A]
  OBVIOUS
<1>8. w = [s EXCEPT !.pl = h]
  BY <1>1, <1>2, <1>5, <1>7
<1>9. w.pl = h
  BY <1>8 DEF States
<1>10. u = [w EXCEPT !.pl[q].bag = B]
  BY <1>7 DEF Swapped
<1>11. u = [w EXCEPT !.pl = k]
  BY <1>2, <1>5, <1>6, <1>9, <1>10
<1>12. u = [s EXCEPT !.pl = k]
  BY <1>8, <1>11 DEF States
<1>13. /\ u \in States /\ u.pl = k /\ u.db = s.db /\ u.txs = s.txs /\ u.house = s.house
       /\ u.aitems = s.aitems /\ u.past = s.past /\ u.cut = s.cut
  BY <1>6, <1>12 DEF States
<1>14. Shuffled(s, u, {p, q})
  BY <1>3, <1>4, <1>6, <1>13 DEF Shuffled, PlayersStep
<1>15. Sides(s.pl, u.pl)
  BY <1>3, <1>4, <1>6, <1>13 DEF Sides
<1> QED BY <1>3, <1>4, <1>6, <1>13, <1>14, <1>15 DEF SwappedAs

\* p of G has money enough for d, and his purse holds it.
LEMMA HandCharges ==
  ASSUME NEW s, NEW H, NEW G, NEW M, NEW total, Hand(s, H, 0, G, M, total),
         NEW p \in G, p \in InMemory(s), NEW d \in Int, s.pl[p].gold + d \in 0 .. MaxGold,
         NEW t, t = ModifyMoney(s, p, d)
  PROVE  Hand(t, H, 0, G, M, total) /\ Charging(s, t, p) /\ t.pl[p].gold = s.pl[p].gold + d
<1>1. PICK over \in Nat :
         /\ Hand(t, H, 0 - over, G, M, total) /\ Charging(s, t, p)
         /\ s.pl[p].gold + d >= 0 => t.pl[p].gold + over = s.pl[p].gold + d
         /\ s.pl[p].gold + d <= MaxGold => over = 0
  BY HandPay
<1>2. over = 0 /\ 0 - over = 0
  BY <1>1, MailConstants
<1>3. Hand(t, H, 0, G, M, total)
  BY <1>1, <1>2, Zenon
<1>4. t.pl[p].gold \in Int
  <2>1. t \in States /\ InMemory(t) = InMemory(s)
    BY <1>1, <1>3 DEF Hand, Ledger, Charging
  <2> QED BY <2>1, RecordOf
<1> QED BY <1>1, <1>2, <1>3, <1>4

\* p pays x to q, and q pays y to p.
Settled(s, p, q, x, y) ==
    ModifyMoney(ModifyMoney(ModifyMoney(ModifyMoney(s, p, -x), p, y), q, -y), q, x)
SettledAs(s, t, p, q, x, y, G, total) ==
    /\ Hand(t, {}, 0, G, {}, total) /\ InMemory(t) = InMemory(s) /\ FreeMails(t) = FreeMails(s)
    /\ t.house = s.house /\ t.aitems = s.aitems /\ t.cut = s.cut /\ t.db = s.db
    /\ t.pl[p].gold = s.pl[p].gold - x + y /\ t.pl[q].gold = s.pl[q].gold - y + x
    /\ t.pl[p].bag = s.pl[p].bag /\ t.pl[q].bag = s.pl[q].bag
    /\ t.pl[p].trade = s.pl[p].trade

LEMMA SettledIs ==
  ASSUME NEW s, NEW G, NEW total, Hand(s, {}, 0, G, {}, total), NEW p \in G, NEW q \in G, p # q,
         p \in InMemory(s), q \in InMemory(s), NEW x \in Nat, NEW y \in Nat,
         x <= s.pl[p].gold, y <= s.pl[q].gold,
         s.pl[p].gold + y <= MaxGold, s.pl[q].gold + x <= MaxGold,
         NEW t, t = Settled(s, p, q, x, y)
  PROVE  SettledAs(s, t, p, q, x, y, G, total)
<1>1. PICK N : N = {}
  OBVIOUS
<1>2. Hand(s, N, 0, G, N, total)
  BY <1>1, Zenon
<1>3. PICK c, d : c = -x /\ d = -y
  OBVIOUS
<1>4. PICK u, v, w : /\ u = ModifyMoney(s, p, c) /\ v = ModifyMoney(u, p, y)
                     /\ w = ModifyMoney(v, q, d)
  OBVIOUS
<1>5. t = ModifyMoney(w, q, x)
  BY <1>3, <1>4, Zenon DEF Settled
<1>6. /\ c \in Int /\ d \in Int /\ c = 0 - x /\ d = 0 - y /\ MaxGold \in Nat
      /\ s.pl[p].gold \in Nat /\ s.pl[q].gold \in Nat /\ p \in Player /\ q \in Player
  <2>1. s \in States
    BY DEF Hand, Ledger
  <2> QED BY <1>3, <2>1, RecordOf, MailConstants
<1>7. Hand(u, N, 0, G, N, total) /\ Charging(s, u, p) /\ u.pl[p].gold = s.pl[p].gold - x
  <2>1. s.pl[p].gold + c \in 0 .. MaxGold /\ s.pl[p].gold + c = s.pl[p].gold - x
    BY <1>6
  <2>2. Hand(u, N, 0, G, N, total) /\ Charging(s, u, p) /\ u.pl[p].gold = s.pl[p].gold + c
    BY <1>2, <1>4, <1>6, <2>1, HandCharges
  <2> QED BY <2>1, <2>2
<1>8. /\ u.house = s.house /\ u.aitems = s.aitems /\ u.cut = s.cut /\ u.db = s.db
      /\ InMemory(u) = InMemory(s) /\ FreeMails(u) = FreeMails(s)
      /\ u.pl[p].trade = s.pl[p].trade /\ u.pl[p].bag = s.pl[p].bag
      /\ u.pl[q] = s.pl[q]
  BY <1>6, <1>7 DEF Charging
<1>9. Hand(v, N, 0, G, N, total) /\ Charging(u, v, p) /\ v.pl[p].gold = s.pl[p].gold - x + y
  <2>1. u.pl[p].gold + y \in 0 .. MaxGold /\ u.pl[p].gold + y = s.pl[p].gold - x + y /\ y \in Int
    BY <1>6, <1>7
  <2>2. Hand(v, N, 0, G, N, total) /\ Charging(u, v, p) /\ v.pl[p].gold = u.pl[p].gold + y
    BY <1>4, <1>7, <1>8, <2>1, HandCharges
  <2> QED BY <2>1, <2>2
<1>10. /\ v.house = s.house /\ v.aitems = s.aitems /\ v.cut = s.cut /\ v.db = s.db
       /\ InMemory(v) = InMemory(s) /\ FreeMails(v) = FreeMails(s)
       /\ v.pl[p].trade = s.pl[p].trade /\ v.pl[p].bag = s.pl[p].bag
       /\ v.pl[q] = s.pl[q]
  BY <1>6, <1>8, <1>9 DEF Charging
<1>11. Hand(w, N, 0, G, N, total) /\ Charging(v, w, q) /\ w.pl[q].gold = s.pl[q].gold - y
  <2>1. v.pl[q].gold + d \in 0 .. MaxGold /\ v.pl[q].gold + d = s.pl[q].gold - y
    BY <1>6, <1>10
  <2>2. Hand(w, N, 0, G, N, total) /\ Charging(v, w, q) /\ w.pl[q].gold = v.pl[q].gold + d
    BY <1>4, <1>6, <1>9, <1>10, <2>1, HandCharges
  <2> QED BY <2>1, <2>2
<1>12. /\ w.house = s.house /\ w.aitems = s.aitems /\ w.cut = s.cut /\ w.db = s.db
       /\ InMemory(w) = InMemory(s) /\ FreeMails(w) = FreeMails(s)
       /\ w.pl[q].bag = s.pl[q].bag /\ w.pl[p] = v.pl[p]
  BY <1>6, <1>10, <1>11 DEF Charging
<1>13. Hand(t, N, 0, G, N, total) /\ Charging(w, t, q) /\ t.pl[q].gold = s.pl[q].gold - y + x
  <2>1. w.pl[q].gold + x \in 0 .. MaxGold /\ w.pl[q].gold + x = s.pl[q].gold - y + x /\ x \in Int
    BY <1>6, <1>11
  <2>2. Hand(t, N, 0, G, N, total) /\ Charging(w, t, q) /\ t.pl[q].gold = w.pl[q].gold + x
    BY <1>5, <1>11, <1>12, <2>1, HandCharges
  <2> QED BY <2>1, <2>2
<1>14. /\ t.house = s.house /\ t.aitems = s.aitems /\ t.cut = s.cut /\ t.db = s.db
       /\ InMemory(t) = InMemory(s) /\ FreeMails(t) = FreeMails(s)
       /\ t.pl[q].bag = s.pl[q].bag /\ t.pl[p] = v.pl[p]
  BY <1>6, <1>12, <1>13 DEF Charging
<1>15. Hand(t, {}, 0, G, {}, total)
  BY <1>1, <1>13, Zenon
<1> QED BY <1>9, <1>10, <1>13, <1>14, <1>15 DEF SettledAs

\* What p and q offer goes over, as s.
Trading(s, p, q, mine, his, total) ==
    /\ Kept(s, total) /\ s.cut = {} /\ p \in InMemory(s) /\ s.pl[p].trade # None
    /\ q = s.pl[p].trade.with
    /\ ItemOf(mine) \subseteq s.pl[p].bag /\ ItemOf(his) \subseteq s.pl[q].bag
    /\ mine.money \in Nat /\ his.money \in Nat
    /\ mine.money <= s.pl[p].gold /\ his.money <= s.pl[q].gold
    /\ s.pl[p].gold + his.money <= MaxGold /\ s.pl[q].gold + mine.money <= MaxGold
    /\ CanStoreItem(s.pl[p].bag \ ItemOf(mine), ItemOf(his))
    /\ CanStoreItem(s.pl[q].bag \ ItemOf(his), ItemOf(mine))

LEMMA ExchangeKeeps ==
  ASSUME NEW s, NEW p, NEW q, NEW mine, NEW his, NEW total, Trading(s, p, q, mine, his, total)
  PROVE  LET t == Exchanged(moveItems(s, p, q, mine, his), p, q, mine, his) IN
         Kept(t, total) /\ FreeMails(t) = FreeMails(s) /\ t.house = s.house
<1>0. /\ Kept(s, total) /\ s.cut = {} /\ p \in InMemory(s) /\ s.pl[p].trade # None
      /\ q = s.pl[p].trade.with
      /\ ItemOf(mine) \subseteq s.pl[p].bag /\ ItemOf(his) \subseteq s.pl[q].bag
      /\ mine.money \in Nat /\ his.money \in Nat
      /\ mine.money <= s.pl[p].gold /\ his.money <= s.pl[q].gold
      /\ s.pl[p].gold + his.money <= MaxGold /\ s.pl[q].gold + mine.money <= MaxGold
      /\ CanStoreItem(s.pl[p].bag \ ItemOf(mine), ItemOf(his))
      /\ CanStoreItem(s.pl[q].bag \ ItemOf(his), ItemOf(mine))
  BY Zenon DEF Trading
<1>1. PICK M, H, x, y, A, B :
         /\ M = ItemOf(mine) /\ H = ItemOf(his) /\ x = mine.money /\ y = his.money
         /\ A = (s.pl[p].bag \ M) \cup H /\ B = (s.pl[q].bag \ H) \cup M
  OBVIOUS
<1>2. /\ s \in States /\ Paired(s.pl) /\ s.house = s.db.auction /\ s.aitems = Goods(s.db)
      /\ s.db \in Database
  BY <1>0, StateFields DEF Kept, Ledger
<1>3. p \in Player /\ s.pl[p] # None /\ q # p /\ q \in Player /\ s.pl[q] # None /\ q \in InMemory(s)
  <2>1. p \in Player /\ s.pl[p] \in PlayerRecord /\ s.pl[p] # None
    BY <1>0, <1>2, RecordOf
  <2>2. s.pl[p].trade \in TradeData
    BY <1>0, <2>1 DEF PlayerRecord
  <2>3. q \in Player
    BY <1>0, <2>2 DEF TradeData
  <2> QED BY <1>0, <1>2, <2>1, <2>3, Zenon DEF Paired, InMemory
<1>4. /\ s.pl[p].gold \in Nat /\ s.pl[q].gold \in Nat /\ MaxGold \in Nat
      /\ s.pl[p].bag \subseteq s.db.instance /\ s.pl[q].bag \subseteq s.db.instance
      /\ \A i \in Item : i \in s.pl[p].bag <=> s.db.inventory[i] = p
      /\ \A i \in Item : i \in s.pl[q].bag <=> s.db.inventory[i] = q
      /\ s.db.gold[p] = s.pl[p].gold /\ s.db.gold[q] = s.pl[q].gold
      /\ s.pl[q].bag \cap s.pl[p].bag = {}
      /\ s.pl[p].bag \subseteq Item /\ s.pl[q].bag \subseteq Item
  <2>1. s.pl[p].gold \in 0 .. MaxGold /\ s.pl[q].gold \in 0 .. MaxGold
        /\ s.pl[p].bag \subseteq Item /\ s.pl[q].bag \subseteq Item
    BY <1>0, <1>2, <1>3, RecordOf, Zenon
  <2>2. /\ \A i \in Item : BagHas(s.db, p, s.pl[p], i)
        /\ s.pl[p].bag \subseteq s.db.instance /\ s.db.gold[p] = s.pl[p].gold
        /\ s.pl[q].bag \cap s.pl[p].bag = {}
    BY <1>0, <1>3, KeptBag, Zenon
  <2>3. /\ \A i \in Item : BagHas(s.db, q, s.pl[q], i)
        /\ s.pl[q].bag \subseteq s.db.instance /\ s.db.gold[q] = s.pl[q].gold
    BY <1>0, <1>3, KeptBag, Zenon
  <2> QED BY <2>1, <2>2, <2>3, MailConstants DEF BagHas
<1>5. PICK G, N : G = {p, q} /\ N = {}
  OBVIOUS
<1>6. Hand(s, N, 0, G, N, total)
  <2>1. Hand(s, {}, 0, G, N, total)
    BY <1>0, HandOf
  <2> QED BY <1>5, <2>1, Zenon
<1>7. PICK u, t, v : /\ u = Swapped(s, p, q, A, B) /\ t = Settled(u, p, q, x, y)
                     /\ v = TradeCancel(t, p)
  OBVIOUS
<1>8. moveItems(s, p, q, mine, his) = u
  BY <1>0, <1>1, <1>7, Zenon DEF moveItems, Swapped
<1>9. Exchanged(u, p, q, mine, his)
        = Commit(SaveInventoryAndGoldToDB(SaveInventoryAndGoldToDB(v, p), q), {})
  BY <1>1, <1>7, Zenon DEF Exchanged, Settled
<1>10. A \in SUBSET Item /\ B \in SUBSET Item /\ A \cap B = {} /\ A \cup B = s.pl[p].bag \cup s.pl[q].bag
  BY <1>0, <1>1, <1>4, Zenon
<1>11. SwappedAs(s, u, p, q, A, B)
  BY <1>2, <1>3, <1>7, <1>10, SwappedIs
<1>12. /\ Shuffled(s, u, G) /\ Sides(s.pl, u.pl)
       /\ u.pl[p].bag = A /\ u.pl[q].bag = B
       /\ u.pl[p].gold = s.pl[p].gold /\ u.pl[q].gold = s.pl[q].gold
       /\ u.pl[p].trade = s.pl[p].trade
  <2>1. /\ Shuffled(s, u, {p, q}) /\ Sides(s.pl, u.pl)
        /\ u.pl[p].bag = A /\ u.pl[q].bag = B
        /\ u.pl[p].gold = s.pl[p].gold /\ u.pl[q].gold = s.pl[q].gold
        /\ u.pl[p].trade = s.pl[p].trade
    BY <1>11 DEF SwappedAs
  <2> QED BY <1>5, <2>1, Zenon
<1>13. Paired(u.pl)
  <2>1. s.pl \in [Player -> PlayerRecord \cup {None}]
    BY <1>2, StateFields
  <2> QED BY <1>2, <1>12, <2>1, PairedSame
<1>14. Hand(u, N, 0, G, N, total) /\ InMemory(u) = InMemory(s) /\ FreeMails(u) = FreeMails(s)
  BY <1>6, <1>12, <1>13, HandShuffled
<1>15. u.db = s.db /\ u.house = s.house /\ u.aitems = s.aitems /\ u.cut = s.cut
  BY <1>12 DEF Shuffled, PlayersStep
<1>16. SettledAs(u, t, p, q, x, y, G, total)
  <2>1. Hand(u, {}, 0, G, {}, total)
    BY <1>5, <1>14, Zenon
  <2>2. /\ p \in G /\ q \in G /\ p \in InMemory(u) /\ q \in InMemory(u) /\ p # q
        /\ x \in Nat /\ y \in Nat
        /\ x <= u.pl[p].gold /\ y <= u.pl[q].gold
        /\ u.pl[p].gold + y <= MaxGold /\ u.pl[q].gold + x <= MaxGold
    BY <1>0, <1>1, <1>3, <1>5, <1>12, <1>14, Zenon
  <2> QED BY <1>7, <2>1, <2>2, SettledIs
<1>17. /\ Hand(t, N, 0, G, N, total) /\ InMemory(t) = InMemory(u) /\ FreeMails(t) = FreeMails(u)
       /\ t.house = u.house /\ t.aitems = u.aitems /\ t.cut = u.cut /\ t.db = u.db
       /\ t.pl[p].gold = u.pl[p].gold - x + y /\ t.pl[q].gold = u.pl[q].gold - y + x
       /\ t.pl[p].bag = u.pl[p].bag /\ t.pl[q].bag = u.pl[q].bag
       /\ t.pl[p].trade = u.pl[p].trade
  <2>1. /\ Hand(t, {}, 0, G, {}, total) /\ InMemory(t) = InMemory(u) /\ FreeMails(t) = FreeMails(u)
        /\ t.house = u.house /\ t.aitems = u.aitems /\ t.cut = u.cut /\ t.db = u.db
        /\ t.pl[p].gold = u.pl[p].gold - x + y /\ t.pl[q].gold = u.pl[q].gold - y + x
        /\ t.pl[p].bag = u.pl[p].bag /\ t.pl[q].bag = u.pl[q].bag
        /\ t.pl[p].trade = u.pl[p].trade
    BY <1>16 DEF SettledAs
  <2> QED BY <1>5, <2>1, Zenon
<1>18. t \in States /\ Paired(t.pl) /\ t.pl[p] # None /\ t.pl[p].trade # None
       /\ q = t.pl[p].trade.with
  <2>1. t \in States /\ Paired(t.pl)
    BY <1>17 DEF Hand, Ledger, Memory
  <2>2. p \in InMemory(t)
    BY <1>0, <1>14, <1>17, Zenon
  <2> QED BY <1>0, <1>12, <1>17, <2>1, <2>2, Zenon DEF InMemory
<1>19. /\ v \in States
       /\ v.db = t.db /\ v.txs = t.txs /\ v.house = t.house /\ v.aitems = t.aitems
       /\ v.past = t.past /\ v.cut = t.cut
       /\ v.pl = Untraded(t.pl, p, q)
  <2>1. p \in Player /\ v = TradeCancel(t, p)
    BY <1>3, <1>7
  <2>2. /\ v \in States
        /\ v.db = t.db /\ v.txs = t.txs /\ v.house = t.house /\ v.aitems = t.aitems
        /\ v.past = t.past /\ v.cut = t.cut
        /\ t.pl[p].trade = None => v.pl = t.pl
        /\ t.pl[p].trade # None => v.pl = Untraded(t.pl, p, t.pl[p].trade.with)
    BY <1>18, <2>1, TradeCancelIs
  <2> QED BY <1>18, <2>2
<1>20. /\ \A z \in Player :
             /\ t.pl[z] = None => v.pl[z] = None
             /\ t.pl[z] # None => /\ v.pl[z] # None
                                  /\ v.pl[z].gold = t.pl[z].gold /\ v.pl[z].bag = t.pl[z].bag
                                  /\ v.pl[z].mails = t.pl[z].mails
       /\ Paired(v.pl)
  <2>1. t.pl \in [Player -> PlayerRecord \cup {None}]
    BY <1>18, StateFields
  <2> QED BY <1>3, <1>18, <1>19, <2>1, UntradedIs
<1>21. Shuffled(t, v, G)
  BY <1>19, <1>20 DEF Shuffled, PlayersStep
<1>22. Hand(v, N, 0, G, N, total) /\ InMemory(v) = InMemory(t) /\ FreeMails(v) = FreeMails(t)
  BY <1>17, <1>20, <1>21, HandShuffled
<1>23. Dealing(v, p, q, total)
  <2>1. Hand(v, {}, 0, {p, q}, {}, total)
    BY <1>5, <1>22, Zenon
  <2>2. v.cut = {} /\ p \in InMemory(v) /\ q \in InMemory(v) /\ p # q
        /\ v.house = v.db.auction /\ v.aitems = Goods(v.db) /\ v.db = s.db
    BY <1>0, <1>2, <1>3, <1>14, <1>15, <1>17, <1>19, <1>22, Zenon
  <2>3. t.pl[q] # None
    BY <1>3, <1>14, <1>17 DEF InMemory
  <2>4. /\ v.pl[p].gold = s.pl[p].gold - x + y /\ v.pl[q].gold = s.pl[q].gold - y + x
        /\ v.pl[p].bag = A /\ v.pl[q].bag = B
    BY <1>3, <1>12, <1>17, <1>18, <1>20, <2>3
  <2>5. v.pl[p].gold + v.pl[q].gold = v.db.gold[p] + v.db.gold[q]
    <3>1. v.db.gold[p] = s.pl[p].gold /\ v.db.gold[q] = s.pl[q].gold
      BY <1>4, <2>2
    <3>2. PICK k, l : k = s.pl[p].gold /\ l = s.pl[q].gold
      BY Zenon
    <3>3. k \in Nat /\ l \in Nat /\ x \in Nat /\ y \in Nat
      BY <1>0, <1>1, <1>4, <3>2, Zenon
    <3>4. (k - x + y) + (l - y + x) = k + l
      BY <3>3
    <3> QED BY <2>4, <3>1, <3>2, <3>4, Zenon
  <2>6. A \cup B = {i \in s.db.instance : s.db.inventory[i] \in {p, q}}
    <3>1. s.db.instance \subseteq Item
      BY <1>2, DatabaseFields
    <3> QED BY <1>4, <1>10, <3>1
  <2> QED BY <1>10, <2>1, <2>2, <2>4, <2>5, <2>6 DEF Dealing
<1>24. FreeMails(v) = FreeMails(s) /\ v.house = s.house
  BY <1>14, <1>15, <1>17, <1>19, <1>22
<1>25. PICK z : z = Commit(SaveInventoryAndGoldToDB(SaveInventoryAndGoldToDB(v, p), q), {})
  OBVIOUS
<1>26. Kept(z, total) /\ FreeMails(z) = FreeMails(v) /\ z.house = v.house
  BY <1>23, <1>25, DealKeeps
<1> QED BY <1>8, <1>9, <1>24, <1>25, <1>26, Zenon

LEMMA OfferIsOf ==
  ASSUME NEW p, pl[p] # None, pl[p] \in PlayerRecord, pl[p].trade # None
  PROVE  /\ ItemOf(Offer(p)) \subseteq pl[p].bag
         /\ Offer(p).money \in Nat
         /\ Shown(p) \in [item : Item \cup {None}, money : Nat]
<1>1. pl[p].trade \in TradeData
  BY DEF PlayerRecord
<1>2. pl[p].trade.item \in Item \cup {None} /\ pl[p].trade.money \in Nat
  BY <1>1 DEF TradeData
<1>3. Shown(p) \in [item : Item \cup {None}, money : Nat] /\ Shown(p).item = pl[p].trade.item
      /\ Shown(p).money = pl[p].trade.money
  BY <1>2 DEF Shown
<1>4. PICK o : o = Shown(p)
  OBVIOUS
<1>5. PICK i : i = IF o.item \in pl[p].bag THEN o.item ELSE None
  OBVIOUS
<1>6. Offer(p) = [o EXCEPT !.item = i]
  BY <1>4, <1>5, Zenon DEF Offer
<1>7. Offer(p).item = i /\ Offer(p).money = o.money
  BY <1>3, <1>4, <1>6
<1>8. ItemOf(Offer(p)) \subseteq pl[p].bag
  BY <1>5, <1>7 DEF ItemOf
<1> QED BY <1>2, <1>3, <1>4, <1>7, <1>8

\* The button is pressed: of two who trade, p has accepted what the other shows.
LEMMA AcceptTradeKeeps ==
  ASSUME NEW total, Kept(World, total), Enough(World), cut = {}, NEW p \in Player,
         TradeOf(p) # None, HandleAcceptTrade(p)
  PROVE  Kept(World, total)' /\ Enough(World)'
<1>1. PICK w : w = World
  OBVIOUS
<1>2. PICK q, mine, his, s :
         /\ q = pl[p].trade.with /\ mine = Offer(p) /\ his = Offer(q)
         /\ s = SetAccepted(w, p, Shown(q))
  OBVIOUS
<1>3. PICK u, v, b, t :
         /\ u = Unaccepted(s, p) /\ v = Unaccepted(s, q) /\ b = BothUnaccepted(s, p)
         /\ t = Exchanged(moveItems(s, p, q, mine, his), p, q, mine, his)
  OBVIOUS
<1>4. Outcome(IF mine.money > pl[p].gold THEN u
              ELSE IF his.money > pl[q].gold THEN v
              ELSE IF pl[p].gold >= MaxGold - his.money THEN u
              ELSE IF pl[q].gold >= MaxGold - mine.money THEN v
              ELSE IF pl[q].trade.seen = None THEN s
              ELSE IF ~CanStoreItems(p, q, mine, his) THEN b
              ELSE t)
  BY <1>1, <1>2, <1>3, Zenon DEF HandleAcceptTrade
<1>5. /\ Kept(w, total) /\ Enough(w) /\ w \in States /\ Paired(w.pl) /\ w.pl = pl /\ w.cut = {}
  BY <1>1, WorldIs, KeptStates DEF Kept
<1>6. /\ p \in InMemory(w) /\ pl[p] # None /\ pl[p] \in PlayerRecord /\ pl[p].trade # None
      /\ q \in Player /\ q # p /\ q \in InMemory(w) /\ pl[q] # None /\ pl[q] \in PlayerRecord
      /\ pl[q].trade # None
  <2>1. pl[p] # None /\ pl[p].trade # None
    BY DEF TradeOf
  <2>2. p \in InMemory(w)
    BY <1>5, <2>1 DEF InMemory
  <2>3. pl[p] \in PlayerRecord
    BY <1>5, <2>2, RecordOf
  <2>4. pl[p].trade \in TradeData
    BY <2>1, <2>3 DEF PlayerRecord
  <2>5. q \in Player
    BY <1>2, <2>4 DEF TradeData
  <2>6. q # p /\ pl[q] # None /\ pl[q].trade # None
    BY <1>2, <1>5, <2>1 DEF Paired
  <2>7. q \in InMemory(w)
    BY <1>5, <2>5, <2>6 DEF InMemory
  <2>8. pl[q] \in PlayerRecord
    BY <1>5, <2>7, RecordOf
  <2> QED BY <2>1, <2>2, <2>3, <2>5, <2>6, <2>7, <2>8
<1>7. /\ ItemOf(mine) \subseteq pl[p].bag /\ mine.money \in Nat
      /\ ItemOf(his) \subseteq pl[q].bag /\ his.money \in Nat
      /\ Shown(q) \in [item : Item \cup {None}, money : Nat] \cup {None}
  <2>1. /\ ItemOf(Offer(p)) \subseteq pl[p].bag /\ Offer(p).money \in Nat
    BY <1>6, OfferIsOf
  <2>2. /\ ItemOf(Offer(q)) \subseteq pl[q].bag /\ Offer(q).money \in Nat
        /\ Shown(q) \in [item : Item \cup {None}, money : Nat]
    BY <1>6, OfferIsOf
  <2> QED BY <1>2, <2>1, <2>2
<1>8. TradeStep(w, s) /\ Sides(w.pl, s.pl)
  BY <1>2, <1>5, <1>6, <1>7, SetAcceptedIs
<1>9. Kept(s, total) /\ Enough(s) /\ s \in States /\ Paired(s.pl) /\ s.cut = {}
  <2>1. Kept(s, total) /\ Enough(s)
    BY <1>5, <1>8, SidesKept
  <2>2. s.cut = w.cut
    BY <1>8 DEF TradeStep, PlayersStep
  <2> QED BY <1>5, <2>1, <2>2, KeptStates DEF Kept
<1>10. /\ s.pl[p] # None /\ s.pl[p].trade # None /\ s.pl[p].trade.with = q
       /\ s.pl[q] # None /\ s.pl[q].trade # None /\ p \in InMemory(s)
  BY <1>2, <1>5, <1>6, <1>8, TradeStepPlayers DEF InMemory
<1>11. /\ s.pl[p].gold = pl[p].gold /\ s.pl[p].bag = pl[p].bag
       /\ s.pl[q].gold = pl[q].gold /\ s.pl[q].bag = pl[q].bag
       /\ pl[p].gold \in Nat /\ pl[q].gold \in Nat
  <2>1. pl[p].gold \in 0 .. MaxGold /\ pl[q].gold \in 0 .. MaxGold
    BY <1>6 DEF PlayerRecord
  <2> QED BY <1>5, <1>6, <1>8, <2>1, MailConstants DEF TradeStep
<1>12. Kept(u, total) /\ Enough(u)
  <2>1. u = SetAccepted(s, p, None)
    BY <1>3 DEF Unaccepted
  <2>2. TradeStep(s, u) /\ Sides(s.pl, u.pl)
    BY <1>9, <1>10, <2>1, SetAcceptedIs
  <2> QED BY <1>9, <2>2, SidesKept
<1>13. Kept(v, total) /\ Enough(v)
  <2>1. v = SetAccepted(s, q, None)
    BY <1>3 DEF Unaccepted
  <2>2. TradeStep(s, v) /\ Sides(s.pl, v.pl)
    BY <1>6, <1>9, <1>10, <2>1, SetAcceptedIs
  <2> QED BY <1>9, <2>2, SidesKept
<1>14. Kept(b, total) /\ Enough(b)
  <2>1. TradeStep(s, b) /\ Sides(s.pl, b.pl)
    BY <1>3, <1>9, <1>10, BothUnacceptedIs
  <2> QED BY <1>9, <2>1, SidesKept
<1>15. ASSUME ~(mine.money > pl[p].gold), ~(his.money > pl[q].gold),
              ~(pl[p].gold >= MaxGold - his.money), ~(pl[q].gold >= MaxGold - mine.money),
              CanStoreItems(p, q, mine, his)
       PROVE  Kept(t, total) /\ Enough(t)
  <2>1. /\ mine.money <= s.pl[p].gold /\ his.money <= s.pl[q].gold
        /\ s.pl[p].gold + his.money <= MaxGold /\ s.pl[q].gold + mine.money <= MaxGold
    BY <1>7, <1>11, <1>15, MailConstants
  <2>2. /\ CanStoreItem(s.pl[p].bag \ ItemOf(mine), ItemOf(his))
        /\ CanStoreItem(s.pl[q].bag \ ItemOf(his), ItemOf(mine))
    BY <1>11, <1>15, Zenon DEF CanStoreItems
  <2>3. Trading(s, p, q, mine, his, total)
    BY <1>7, <1>9, <1>10, <1>11, <2>1, <2>2 DEF Trading
  <2>4. Kept(t, total) /\ FreeMails(t) = FreeMails(s) /\ t.house = s.house
    BY <1>3, <2>3, ExchangeKeeps
  <2>5. Enough(t)
    <3>1. Owed(t.house) <= Owed(s.house)
      BY <2>4, OwedIs
    <3> QED BY <1>9, <2>4, <3>1, EnoughSame
  <2> QED BY <2>4, <2>5
<1>16. \E x : Outcome(x) /\ Kept(x, total) /\ Enough(x)
  <2>1. CASE mine.money > pl[p].gold
    BY <1>4, <1>12, <2>1
  <2>2. CASE ~(mine.money > pl[p].gold) /\ his.money > pl[q].gold
    BY <1>4, <1>13, <2>2
  <2>3. CASE ~(mine.money > pl[p].gold) /\ ~(his.money > pl[q].gold)
             /\ pl[p].gold >= MaxGold - his.money
    BY <1>4, <1>12, <2>3
  <2>4. CASE ~(mine.money > pl[p].gold) /\ ~(his.money > pl[q].gold)
             /\ ~(pl[p].gold >= MaxGold - his.money) /\ pl[q].gold >= MaxGold - mine.money
    BY <1>4, <1>13, <2>4
  <2>5. CASE ~(mine.money > pl[p].gold) /\ ~(his.money > pl[q].gold)
             /\ ~(pl[p].gold >= MaxGold - his.money) /\ ~(pl[q].gold >= MaxGold - mine.money)
    <3>1. CASE pl[q].trade.seen = None
      BY <1>4, <1>9, <2>5, <3>1
    <3>2. CASE pl[q].trade.seen # None /\ ~CanStoreItems(p, q, mine, his)
      BY <1>4, <1>14, <2>5, <3>2
    <3>3. CASE pl[q].trade.seen # None /\ CanStoreItems(p, q, mine, his)
      BY <1>4, <1>15, <2>5, <3>3
    <3> QED BY <3>1, <3>2, <3>3
  <2> QED BY <2>1, <2>2, <2>3, <2>4, <2>5
<1> QED BY <1>16, OutcomeKeeps

-----------------------------------------------------------------------------
(* The update of the auction house *)

\* What F makes of b, in every order of the numbers up to n, is where ST has it.
LEMMA FoldFits ==
  ASSUME NEW n \in Nat, NEW F, NEW ST, NEW b \in ST[{}],
         \A S \in SUBSET (1 .. n), k \in 1 .. n : (\A y \in S : y < k) =>
             \A x \in ST[S] : F[<<k, x>>] \in ST[S \cup {k}]
  PROVE  \E h : Folds2(h, F, b, n) /\ \A S \in SUBSET (1 .. n) : h[S] \in ST[S]
<1> DEFINE Q(h, m) == Folds2(h, F, b, m) /\ \A S \in SUBSET (1 .. m) : h[S] \in ST[S]
           T == {m \in Nat : m <= n /\ ~\E h : Q(h, m)}
<1> SUFFICES ASSUME T # {} PROVE FALSE
  <2>1. n \notin T => \E h : Q(h, n)
    <3> HIDE DEF Q
    <3> QED OBVIOUS
  <2> QED BY <2>1
<1>1. PICK m \in T : \A y \in T : m <= y
  <2> HIDE DEF Q
  <2> QED BY LeastNatural
<1>2. m \in Nat /\ m <= n /\ ~\E h : Q(h, m)
  <2> HIDE DEF Q
  <2> QED OBVIOUS
<1>3. CASE m = 0
  <2> DEFINE h == [S \in SUBSET (1 .. m) |-> b]
  <2>1. \A S \in SUBSET (1 .. m) : S = {} /\ h[S] = b
    BY <1>3
  <2>2. Folds2(h, F, b, m)
    BY <2>1 DEF Folds2
  <2>3. \A S \in SUBSET (1 .. m) : h[S] \in ST[S]
    <3> HIDE DEF h
    <3> QED BY <2>1
  <2> HIDE DEF h
  <2> QED BY <1>2, <2>2, <2>3
<1>4. CASE m # 0
  <2>1. m - 1 \in Nat /\ m - 1 <= n /\ ~(m <= m - 1) /\ m \in 1 .. n
    BY <1>2, <1>4
  <2>2. m - 1 \notin T
    BY <1>1, <2>1
  <2>3. PICK h : Q(h, m - 1)
    <3> HIDE DEF Q
    <3> QED BY <2>1, <2>2
  <2> DEFINE g == [S \in SUBSET (1 .. m) |->
                     IF m \in S THEN F[<<m, h[S \ {m}]>>] ELSE h[S]]
  <2>4. \A S \in SUBSET (1 .. m) : S \ {m} \in SUBSET (1 .. m - 1)
    BY <1>2
  <2>5. ASSUME NEW S \in SUBSET (1 .. m) PROVE g[S] \in ST[S]
    <3>1. CASE m \in S
      <4>1. h[S \ {m}] \in ST[S \ {m}] /\ S \ {m} \in SUBSET (1 .. n) /\ \A y \in S \ {m} : y < m
        BY <2>1, <2>3, <2>4
      <4>2. F[<<m, h[S \ {m}]>>] \in ST[(S \ {m}) \cup {m}]
        BY <2>1, <4>1
      <4>3. (S \ {m}) \cup {m} = S /\ g[S] = F[<<m, h[S \ {m}]>>]
        BY <3>1
      <4> HIDE DEF g
      <4> QED BY <4>2, <4>3
    <3>2. CASE m \notin S
      <4>1. S \in SUBSET (1 .. m - 1)
        BY <2>4, <3>2
      <4> QED BY <2>3, <3>2, <4>1
    <3> QED BY <3>1, <3>2
  <2>6. ASSUME NEW S \in SUBSET (1 .. m)
        PROVE  g[S] = IF S = {} THEN b ELSE F[<<Max(S), g[S \ {Max(S)}]>>]
    <3>1. CASE m \in S
      <4>1. Max(S) = m
        <5>1. S \subseteq 1 .. m
          OBVIOUS
        <5>2. S \subseteq Int /\ \A y \in S : y <= m
          BY <1>2, <5>1
        <5> QED BY <3>1, <5>2, MaxIs
      <4>2. S \ {m} \in SUBSET (1 .. m) /\ S # {} /\ m \notin S \ {m}
        BY <3>1
      <4>3. g[S \ {m}] = h[S \ {m}]
        BY <4>2
      <4>4. g[S] = F[<<m, h[S \ {m}]>>]
        BY <3>1
      <4> HIDE DEF g
      <4> QED BY <4>1, <4>2, <4>3, <4>4
    <3>2. CASE m \notin S
      <4>1. S \in SUBSET (1 .. m - 1) /\ g[S] = h[S]
        BY <2>4, <3>2
      <4>2. h[S] = IF S = {} THEN b ELSE F[<<Max(S), h[S \ {Max(S)}]>>]
        BY <2>3, <4>1 DEF Folds2
      <4>3. S # {} => Max(S) \in S /\ S \ {Max(S)} \in SUBSET (1 .. m)
        BY <2>1, <4>1, MaxOfPart
      <4>4. S # {} => g[S \ {Max(S)}] = h[S \ {Max(S)}]
        BY <3>2, <4>3
      <4> HIDE DEF g
      <4> QED BY <4>1, <4>2, <4>4
    <3> QED BY <3>1, <3>2
  <2>7. Q(g, m)
    <3> HIDE DEF g
    <3> QED BY <2>5, <2>6 DEF Folds2
  <2> HIDE DEF Q
  <2> QED BY <1>2, <2>7
<1> QED BY <1>3, <1>4

\* A money that is in hand is spent.
LEMMA HandSpent ==
  ASSUME NEW s, NEW H, NEW D, NEW G, NEW M, NEW total, Hand(s, H, D, G, M, total), NEW x \in Nat,
         NEW t, t = Spent(s, x)
  PROVE  /\ Hand(t, H, D - x, G, M, total)
         /\ t.db = s.db /\ t.house = s.house /\ t.aitems = s.aitems /\ t.cut = s.cut
         /\ t.pl = s.pl /\ FreeMails(t) = FreeMails(s) /\ InMemory(t) = InMemory(s)
<1>1. /\ Ledger(s, H, D, total) /\ Memory(s, G, M) /\ s \in States
      /\ \A i \in Item : Tracked(s, i) => Clean(s.db, i)
  BY DEF Hand, Ledger
<1>2. t.db = s.db /\ t.house = s.house /\ t.aitems = s.aitems /\ t.cut = s.cut /\ t.pl = s.pl
  BY <1>1, SpentIs
<1>3. Ledger(t, H, D - x, total)
  BY <1>1, LedgerSpent
<1>4. Memory(t, G, M) /\ FreeMails(t) = FreeMails(s) /\ InMemory(t) = InMemory(s)
  <2>1. SameTables(s.db, t.db, G) /\ s.cut \subseteq t.cut
    BY <1>2 DEF SameTables
  <2> QED BY <1>1, <1>2, <2>1, MemorySame
<1> QED BY <1>1, <1>2, <1>3, <1>4 DEF Hand, Tracked

LEMMA EnoughMails ==
  ASSUME NEW s, Enough(s), NEW a \in Auction, s.house[a] # None
  PROVE  FreeMails(s) # {}
<1>1. a \in Existing(s.house)
  BY DEF Existing
<1>2. Cardinality(Existing(s.house)) >= 1
  BY <1>1, OwedIs, FS_EmptySet
<1>3. Cardinality(FreeMails(s)) >= 1
  BY <1>2, OwedIs, FreeMailsIs DEF Enough
<1> QED BY <1>3, FS_EmptySet

\* An auction that ends sends one mail, and will send one less.
LEMMA EnoughEnds ==
  ASSUME NEW s, NEW t, NEW a \in Auction, Enough(s), Aside(s, t, a), s.house[a] # None,
         t.house[a] = None \/ (t.house[a] # None /\ ~s.house[a].sold /\ t.house[a].sold)
  PROVE  Enough(t)
<1>1. PICK E, F, U, V : /\ E = Existing(s.house) /\ F = Existing(t.house)
                        /\ U = Unsold(s.house) /\ V = Unsold(t.house)
  OBVIOUS
<1>2. /\ IsFiniteSet(E) /\ IsFiniteSet(F) /\ IsFiniteSet(U) /\ IsFiniteSet(V)
      /\ Cardinality(E) \in Nat /\ Cardinality(F) \in Nat
      /\ Cardinality(U) \in Nat /\ Cardinality(V) \in Nat
      /\ Owed(s.house) = Cardinality(E) + Cardinality(U)
      /\ Owed(t.house) = Cardinality(F) + Cardinality(V)
  BY <1>1, OwedIs
<1>3. \A b \in Auction : b # a => t.house[b] = s.house[b]
  BY DEF Aside
<1>4. F \subseteq E /\ V \subseteq U /\ (a \in E \ F \/ a \in U \ V)
  BY <1>1, <1>3 DEF Existing, Unsold
<1>5. Cardinality(F) <= Cardinality(E) /\ Cardinality(V) <= Cardinality(U)
  BY <1>2, <1>4, FS_Subset
<1>6. Cardinality(F) < Cardinality(E) \/ Cardinality(V) < Cardinality(U)
  <2>1. CASE F # E
    <3>1. Cardinality(F) # Cardinality(E)
      BY <1>2, <1>4, <2>1, FS_Subset
    <3> QED BY <1>2, <1>5, <3>1
  <2>2. CASE V # U
    <3>1. Cardinality(V) # Cardinality(U)
      BY <1>2, <1>4, <2>2, FS_Subset
    <3> QED BY <1>2, <1>5, <3>1
  <2> QED BY <1>4, <2>1, <2>2
<1>7. Owed(t.house) + 1 <= Owed(s.house)
  BY <1>2, <1>5, <1>6
<1>8. Cardinality(FreeMails(t)) + 1 >= Cardinality(FreeMails(s))
  <2>1. CASE FreeMails(t) = FreeMails(s)
    BY <2>1, FreeMailsIs
  <2>2. CASE \E m \in FreeMails(s) : FreeMails(t) = FreeMails(s) \ {m}
    <3>1. PICK m \in FreeMails(s) : FreeMails(t) = FreeMails(s) \ {m}
      BY <2>2
    <3>2. Cardinality(FreeMails(t)) = Cardinality(FreeMails(s)) - 1
      BY <3>1, FreeMailsIs, FS_RemoveElement
    <3> QED BY <3>2, FreeMailsIs
  <2> QED BY <2>1, <2>2 DEF Aside
<1>9. Cardinality(FreeMails(s)) >= Owed(s.house)
  BY DEF Enough
<1>10. Cardinality(FreeMails(t)) >= Owed(t.house)
  BY <1>2, <1>7, <1>8, <1>9, FreeMailsIs
<1> QED BY <1>10 DEF Enough

\* The auction a, with which the money D in hand and the items H go, is deleted.
Erasing(s, a, H, D, total) ==
    /\ Ledger(s, H, D, total) /\ Memory(s, {}, {}) /\ a \in Auction
    /\ \A i \in Item \ s.cut : Exact(PutDb(s.db, a, None), i)
    /\ \A i \in Item : Tracked(s, i) => Clean(PutDb(s.db, a, None), i)
    /\ D + AuctionWorth(s.db.auction[a]) = 0
    /\ \A b \in Auction : b # a => s.house[b] = s.db.auction[b]
    /\ s.aitems = Goods(PutDb(s.db, a, None))

LEMMA ErasingKeeps ==
  ASSUME NEW s, NEW a, NEW H, NEW D, NEW total, Erasing(s, a, H, D, total),
         NEW t, t = Erased(DeleteFromDB(s, a), a)
  PROVE  /\ Kept(t, total) /\ FreeMails(t) = FreeMails(s) /\ InMemory(t) = InMemory(s)
         /\ t.cut = s.cut /\ t.house[a] = None
         /\ \A b \in Auction : b # a => t.house[b] = s.house[b]
<1>0. /\ Ledger(s, H, D, total) /\ Memory(s, {}, {}) /\ a \in Auction
      /\ \A i \in Item \ s.cut : Exact(PutDb(s.db, a, None), i)
      /\ \A i \in Item : Tracked(s, i) => Clean(PutDb(s.db, a, None), i)
      /\ D + AuctionWorth(s.db.auction[a]) = 0
      /\ \A b \in Auction : b # a => s.house[b] = s.db.auction[b]
      /\ s.aitems = Goods(PutDb(s.db, a, None))
  BY DEF Erasing
<1>1. s \in States /\ s.db \in Database
  BY <1>0, StateFields DEF Ledger
<1>2. PICK N, d : N = {} /\ d = PutDb(s.db, a, None)
  OBVIOUS
<1>3. PICK w : w = DeleteFromDB(s, a)
  OBVIOUS
<1>4. /\ w \in States /\ w.db = d /\ w.pl = s.pl /\ w.house = s.house /\ w.aitems = s.aitems
      /\ w.cut = s.cut
  BY <1>0, <1>1, <1>2, <1>3, DeleteFromDBIs, Zenon DEF PutDb
<1>5. /\ d \in Database /\ d.gold = s.db.gold /\ d.inventory = s.db.inventory
      /\ d.instance = s.db.instance /\ d.attached = s.db.attached /\ d.mail = s.db.mail
      /\ d.auction = [s.db.auction EXCEPT ![a] = None]
  BY <1>0, <1>1, <1>2, PutDbIs
<1>6. Ledger(w, N, 0, total)
  <2>1. Ledger(w, {}, 0, total)
    BY <1>0, <1>3, LedgerDelete
  <2> QED BY <1>2, <2>1, Zenon
<1>7. Memory(w, N, N) /\ FreeMails(w) = FreeMails(s) /\ InMemory(w) = InMemory(s)
  <2>1. Memory(s, N, N)
    BY <1>0, <1>2, Zenon
  <2>2. SameTables(s.db, w.db, N) /\ s.cut \subseteq w.cut
    BY <1>4, <1>5 DEF SameTables
  <2> QED BY <1>4, <2>1, <2>2, MemorySame
<1>8. Hand(w, N, 0, N, N, total)
  <2>1. \A i \in Item : Tracked(w, i) => Clean(w.db, i)
    BY <1>0, <1>2, <1>4, <1>7 DEF Tracked
  <2> QED BY <1>6, <1>7, <2>1 DEF Hand
<1>9. PICK rows : rows = [w.house EXCEPT ![a] = None]
  OBVIOUS
<1>10. t = [w EXCEPT !.house = rows]
  BY <1>3, <1>9, Zenon DEF Erased
<1>11. /\ rows \in [Auction -> AuctionRow \cup {None}] /\ rows[a] = None
       /\ \A b \in Auction : b # a => rows[b] = s.house[b]
  BY <1>0, <1>1, <1>4, <1>9, StateFields
<1>12. /\ t \in States /\ t.db = w.db /\ t.txs = w.txs /\ t.pl = w.pl /\ t.cut = w.cut
       /\ t.past = w.past /\ t.house = rows /\ t.aitems = w.aitems
  BY <1>4, <1>10, <1>11 DEF States
<1>13. Hand(t, N, 0, N, N, total) /\ FreeMails(t) = FreeMails(w) /\ InMemory(t) = InMemory(w)
  <2>1. WonInv(t.db, t.past)
    BY <1>6, <1>12 DEF Ledger
  <2> QED BY <1>8, <1>12, <2>1, HandAside
<1>14. t.house = t.db.auction
  <2>1. d.auction \in [Auction -> AuctionRow \cup {None}]
    BY <1>5, DatabaseFields
  <2>2. \A b \in Auction : rows[b] = d.auction[b]
    <3>1. s.db.auction \in [Auction -> AuctionRow \cup {None}]
      BY <1>1, DatabaseFields
    <3> QED BY <1>0, <1>5, <1>11, <3>1
  <2> QED BY <1>4, <1>11, <1>12, <2>1, <2>2
<1>15. t.aitems = Goods(t.db)
  BY <1>0, <1>2, <1>4, <1>12
<1>16. Hand(t, {}, 0, {}, {}, total)
  BY <1>2, <1>13, Zenon
<1>17. Kept(t, total)
  BY <1>14, <1>15, <1>16, KeptHand
<1> QED BY <1>4, <1>7, <1>11, <1>12, <1>13, <1>17

LEMMA CutFits ==
  ASSUME NEW e \in AuctionRow
  PROVE  GetAuctionCut(e) \in Nat /\ GetAuctionCut(e) <= e.bid
<1>1. PICK k, b : k = CutPercent /\ b = e.bid
  OBVIOUS
<1>2. k \in Nat /\ k <= 100 /\ b \in Nat
  <2>1. CutPercent \in 0 .. 100
    BY AuctionConstants
  <2>2. e.bid \in Nat
    BY DEF AuctionRow
  <2> QED BY <1>1, <2>1, <2>2
<1>3. PICK x : x = k * b
  OBVIOUS
<1>4. x \in Nat /\ x <= 100 * b
  <2>1. k * b \in Nat /\ k * b <= 100 * b
    BY <1>2
  <2> QED BY <1>3, <2>1
<1>5. x \div 100 <= b
  BY <1>2, <1>4
<1>6. GetAuctionCut(e) <= e.bid
  BY <1>1, <1>3, <1>5, Zenon DEF GetAuctionCut
<1> QED BY <1>6, CutIs

\* The time of the auction a is over.
Ending(s, a, e, total) ==
    /\ Kept(s, total) /\ a \in Auction /\ e = s.house[a] /\ e # None /\ FreeMails(s) # {}

LEMMA EndingIs ==
  ASSUME NEW s, NEW a, NEW e, NEW total, Ending(s, a, e, total)
  PROVE  /\ Kept(s, total) /\ a \in Auction /\ e = s.house[a] /\ e # None /\ FreeMails(s) # {}
         /\ s \in States /\ s.db \in Database /\ s.house = s.db.auction /\ s.aitems = Goods(s.db)
         /\ e = s.db.auction[a] /\ e \in AuctionRow /\ RowInv(e) /\ e.bid \in Nat /\ e.owner \in Player
         /\ e.bidder \in Player \cup {None} /\ e.item \in Item \cup {None}
         /\ None \notin Item /\ None \notin Player /\ Deposit \in Nat
<1>1. Kept(s, total) /\ a \in Auction /\ e = s.house[a] /\ e # None /\ FreeMails(s) # {}
  BY DEF Ending
<1>2. /\ s \in States /\ s.db \in Database /\ s.house = s.db.auction /\ s.aitems = Goods(s.db)
      /\ DbInv(s.db)
  BY <1>1, KeptStates DEF Kept, Ledger
<1>3. e \in AuctionRow /\ RowInv(e)
  <2>1. s.db.auction \in [Auction -> AuctionRow \cup {None}]
    BY <1>2, DatabaseFields
  <2> QED BY <1>1, <1>2, <2>1 DEF DbInv
<1> QED BY <1>1, <1>2, <1>3, MailConstants, AuctionConstants DEF AuctionRow

\* The money of a sold auction goes to the seller.
LEMMA SuccessKeeps ==
  ASSUME NEW s, NEW a, NEW e, NEW total, Ending(s, a, e, total), e.sold,
         NEW t, t = Erased(DeleteFromDB(SendAuctionSuccessfulMail(s, a), a), a)
  PROVE  Kept(t, total) /\ Aside(s, t, a) /\ t.house[a] = None
<1>0. /\ Kept(s, total) /\ a \in Auction /\ e = s.house[a] /\ e # None /\ FreeMails(s) # {}
      /\ s \in States /\ s.db \in Database /\ s.house = s.db.auction /\ s.aitems = Goods(s.db)
      /\ e = s.db.auction[a] /\ e \in AuctionRow /\ RowInv(e) /\ e.bid \in Nat /\ e.owner \in Player
      /\ None \notin Item /\ Deposit \in Nat
  BY EndingIs
<1>1. PICK N, open : N = {} /\ open = {"money"}
  OBVIOUS
<1>2. PICK c, x : c = GetAuctionCut(e) /\ x = e.bid + Deposit - c
  OBVIOUS
<1>3. c \in Nat /\ x \in Nat /\ x + c = e.bid + Deposit
  <2>1. c \in Nat /\ c <= e.bid
    BY <1>0, <1>2, CutFits
  <2> QED BY <1>0, <1>2, <2>1
<1>4. PICK v, u : v = Spent(s, c) /\ u = SendMailTo(v, e.owner, None, "auction", x, 0, N, open)
  OBVIOUS
<1>5. SendAuctionSuccessfulMail(s, a) = u
  BY <1>0, <1>1, <1>2, <1>4, Zenon DEF SendAuctionSuccessfulMail
<1>6. Hand(s, N, 0, N, N, total)
  <2>1. Hand(s, {}, 0, N, N, total)
    BY <1>0, HandOf
  <2> QED BY <1>1, <2>1, Zenon
<1>7. /\ Hand(v, N, 0 - c, N, N, total)
      /\ v.db = s.db /\ v.house = s.house /\ v.aitems = s.aitems /\ v.cut = s.cut
      /\ v.pl = s.pl /\ FreeMails(v) = FreeMails(s) /\ InMemory(v) = InMemory(s)
  BY <1>3, <1>4, <1>6, HandSpent
<1>8. Posting(v, N, 0 - c, N, e.owner, None, "auction", x, 0, N, open)
  BY <1>0, <1>1, <1>3, <1>7 DEF Posting, Thing
<1>9. /\ Hand(u, N, (0 - c) - x, N, N, total) /\ Delivered(v, u, N)
      /\ \E m \in FreeMails(v) : FreeMails(u) = FreeMails(v) \ {m}
  BY <1>4, <1>7, <1>8, HandSend
<1>10. /\ u.house = s.house /\ u.aitems = s.aitems /\ u.cut = s.cut /\ InMemory(u) = InMemory(s)
       /\ u.db.auction = s.db.auction
  BY <1>7, <1>9 DEF Delivered
<1>11. /\ Ledger(u, N, (0 - c) - x, total) /\ Memory(u, N, N) /\ u.db \in Database
       /\ \A i \in Item : Tracked(u, i) => Clean(u.db, i)
       /\ \A i \in Item \ u.cut : Exact(u.db, i)
  <2>1. /\ Ledger(u, N, (0 - c) - x, total) /\ Memory(u, N, N)
        /\ \A i \in Item : Tracked(u, i) => Clean(u.db, i)
    BY <1>9 DEF Hand
  <2> QED BY <1>1, <2>1, StateFields DEF Ledger
<1>12. e.item = None
  BY <1>0 DEF RowInv
<1>13. PICK d : d = PutDb(u.db, a, None)
  OBVIOUS
<1>14. /\ \A i \in Item : SameItem(u.db, d, i)
       /\ d.auction = [u.db.auction EXCEPT ![a] = None]
  <2>1. \A i \in Item : ~Sells(u.db, a, i)
    BY <1>0, <1>10, <1>12 DEF Sells
  <2>2. PICK row : row = None
    OBVIOUS
  <2>3. a \in Auction /\ u.db \in Database /\ row \in AuctionRow \cup {None} /\ d = PutDb(u.db, a, row)
    BY <1>0, <1>11, <1>13, <2>2
  <2>4. /\ \A i \in Item : (Sells(u.db, a, i) <=> (row # None /\ row.item = i)) => SameItem(u.db, d, i)
        /\ d.auction = [u.db.auction EXCEPT ![a] = row]
    BY <2>3, PutDbIs
  <2> QED BY <2>1, <2>2, <2>4
<1>15. Erasing(u, a, N, (0 - c) - x, total)
  <2>1. /\ \A i \in Item \ u.cut : Exact(d, i)
        /\ \A i \in Item : Tracked(u, i) => Clean(d, i)
    BY <1>11, <1>14, SameItemKept
  <2>2. ((0 - c) - x) + AuctionWorth(u.db.auction[a]) = 0
    <3>1. AuctionWorth(u.db.auction[a]) = Deposit + e.bid
      BY <1>0, <1>10 DEF AuctionWorth
    <3> QED BY <1>0, <1>3, <3>1
  <2>3. u.aitems = Goods(d)
    <3>1. \A i \in Item, b \in Auction : Sells(d, b, i) <=> Sells(s.db, b, i)
      <4>1. \A i \in Item, b \in Auction : Sells(d, b, i) <=> Sells(u.db, b, i)
        BY <1>14 DEF SameItem
      <4> QED BY <1>10, <4>1 DEF Sells
    <3> QED BY <1>0, <1>10, <3>1 DEF Goods
  <2>4. Memory(u, {}, {})
    BY <1>1, <1>11, Zenon
  <2> QED BY <1>0, <1>10, <1>11, <1>13, <2>1, <2>2, <2>3, <2>4 DEF Erasing
<1>16. /\ Kept(t, total) /\ FreeMails(t) = FreeMails(u) /\ InMemory(t) = InMemory(u)
       /\ t.cut = u.cut /\ t.house[a] = None
       /\ \A b \in Auction : b # a => t.house[b] = u.house[b]
  BY <1>5, <1>15, ErasingKeeps
<1> QED BY <1>7, <1>9, <1>10, <1>16 DEF Aside

\* Who is in memory can rely on the items, and on all others.
Reliable(s, items) ==
    InMemory(s) # {} => items \subseteq s.db.instance /\ \A i \in Item \ items : Clean(s.db, i)

\* What is in memory while a mail is posted, whether anybody is in memory or not.
LEMMA SentMemories ==
  ASSUME NEW s \in States, NEW G, NEW M, Memory(s, G, M),
         NEW m \in FreeMails(s), NEW row \in MailRow, NEW items \in SUBSET Item, NEW open,
         NEW t, Sent(s, t, m, row, items, open),
         Reliable(s, items)
  PROVE  Memory(t, G, M) /\ FreeMails(t) = FreeMails(s) \ {m}
<1>1. s.db \in Database /\ m \in Mail /\ s.db.mail[m] = None /\ row # None
  BY StateFields, NoneIsNothing DEF FreeMails
<1>2. CASE InMemory(s) # {}
  <2>1. items \in SUBSET s.db.instance
    BY <1>2 DEF Reliable
  <2>3. InMemory(s) # {} => \A i \in Item \ items : Clean(s.db, i)
    BY DEF Reliable
  <2>2. /\ Memory(t, G, M) /\ FreeMails(t) = FreeMails(s) \ {m} /\ InMemory(t) = InMemory(s)
        /\ t.db.gold = s.db.gold /\ t.db.inventory = s.db.inventory
        /\ t.db.instance = s.db.instance /\ t.db.auction = s.db.auction
    BY <2>1, <2>3, SentMemory, SMTT(60)
  <2> QED BY <2>2
<1>3. CASE InMemory(s) = {}
  <2>1. Delivered(s, t, items)
    BY DeliveredIs
  <2>2. InMemory(t) = {}
    BY <1>3, <2>1 DEF Delivered
  <2>3. Memory(t, G, M)
    BY <2>2 DEF Memory, InMemory, Paired
  <2>4. t.db.mail = [s.db.mail EXCEPT ![m] = row] /\ s.db.mail \in [Mail -> MailRow \cup {None}]
    <3>1. PICK d, e : d = s.db /\ e = t.db
      OBVIOUS
    <3>2. d \in Database /\ e = PostedDb(d, m, row, items)
      BY <1>1, <3>1 DEF Sent
    <3>3. e.mail = [d.mail EXCEPT ![m] = row]
      BY <1>1, <3>2, PostedDbIs
    <3> QED BY <1>1, <3>1, <3>3, DatabaseFields
  <2>5. \A q \in Player : t.pl[q] = None /\ s.pl[q] = None
    BY <1>3, <2>2 DEF InMemory
  <2>6. \A n \in Mail : t.db.mail[n] = None <=> s.db.mail[n] = None /\ n # m
    BY <1>1, <2>4
  <2> QED BY <2>3, <2>5, <2>6 DEF FreeMails
<1> QED BY <1>2, <1>3

\* The item i of the auction a is on the way to its seller p, as the mail m of u.
Expiring(s, v, u, a, e, i, m, row, total) ==
    /\ Ending(s, a, e, total) /\ ~e.sold /\ e.bid = 0 /\ i = e.item
    /\ v \in States /\ v.db = s.db /\ v.txs = s.txs /\ v.pl = s.pl /\ v.cut = s.cut
    /\ v.past = s.past /\ v.aitems = s.aitems \ {i}
    /\ \A b \in Auction : b # a => v.house[b] = s.house[b]
    /\ m \in FreeMails(v) /\ row \in MailRow /\ row = Row(e.owner, None, "auction", 0, 0)
    /\ Sent(v, u, m, row, {i}, {i})

LEMMA ExpiredMailIs ==
  ASSUME NEW s, NEW a, NEW e, NEW total, Ending(s, a, e, total), ~e.sold, e.bid = 0
  PROVE  \E v, m, row : Expiring(s, v, SendAuctionExpiredMail(s, a), a, e, e.item, m, row, total)
<1>0. /\ Kept(s, total) /\ a \in Auction /\ e = s.house[a] /\ e # None /\ FreeMails(s) # {}
      /\ s \in States /\ s.db \in Database /\ s.house = s.db.auction /\ s.aitems = Goods(s.db)
      /\ e = s.db.auction[a] /\ e \in AuctionRow /\ RowInv(e) /\ e.owner \in Player
      /\ e.item \in Item \cup {None} /\ None \notin Item
  BY EndingIs
<1>1. PICK i, u, I : i = e.item /\ u = SendAuctionExpiredMail(s, a) /\ I = {i}
  OBVIOUS
<1>2. i \in Item /\ i \in s.aitems
  <2>1. i # None
    BY <1>0, <1>1 DEF RowInv
  <2> QED BY <1>0, <1>1, <2>1 DEF Goods, Sells
<1>3. PICK f, rows : f = [e EXCEPT !.item = None] /\ rows = [s.house EXCEPT ![a] = f]
  OBVIOUS
<1>4. /\ s.house \in [Auction -> AuctionRow \cup {None}] /\ s.aitems \in SUBSET Item
      /\ f \in AuctionRow
  BY <1>0, <1>3, StateFields DEF AuctionRow
<1>5. PICK v : v = [s EXCEPT !.aitems = s.aitems \ {i}, !.house = rows]
  OBVIOUS
<1>6. /\ v \in States /\ v.db = s.db /\ v.txs = s.txs /\ v.pl = s.pl /\ v.cut = s.cut
      /\ v.past = s.past /\ v.aitems = s.aitems \ {i} /\ v.house = rows
  BY <1>0, <1>3, <1>4, <1>5 DEF States
<1>7. \A b \in Auction : b # a => v.house[b] = s.house[b]
  BY <1>0, <1>3, <1>4, <1>6
<1>8. u = SendMailTo(v, e.owner, None, "auction", 0, 0, I, I)
  <2> DEFINE T(x) == IF x.item \notin s.aitems THEN s
                     ELSE SendMailTo([s EXCEPT !.aitems = @ \ {x.item}, !.house[a].item = None],
                                     x.owner, None, "auction", 0, 0, {x.item}, {x.item})
  <2>1. u = T(s.house[a])
    BY <1>1, Zenon DEF SendAuctionExpiredMail
  <2>2. T(s.house[a]) = T(e)
    <3> HIDE DEF T
    <3> QED BY <1>0
  <2>3. [s EXCEPT !.aitems = @ \ {i}, !.house[a].item = None] = v
    BY <1>0, <1>3, <1>4, <1>5 DEF States
  <2> QED BY <1>1, <1>2, <2>1, <2>2, <2>3
<1>9. FreeMails(v) = FreeMails(s)
  BY <1>6 DEF FreeMails
<1>10. PICK row : row = Row(e.owner, None, "auction", 0, 0)
  OBVIOUS
<1>11. PICK m \in FreeMails(v) : row \in MailRow /\ Sent(v, u, m, row, I, I)
  <2>1. /\ v \in States /\ FreeMails(v) # {} /\ e.owner \in Player /\ None \in Player \cup {None}
        /\ "auction" \in {"auction", "normal", "payment", "returned"} /\ 0 \in Nat
        /\ I \in SUBSET Item /\ I \in SUBSET Thing
    BY <1>0, <1>1, <1>2, <1>6, <1>9 DEF Thing
  <2> QED BY <1>8, <1>10, <2>1, SendMailIs
<1>12. Sent(v, u, m, row, {i}, {i})
  BY <1>1, <1>11, Zenon
<1>13. Expiring(s, v, u, a, e, i, m, row, total)
  BY <1>1, <1>6, <1>7, <1>10, <1>11, <1>12 DEF Expiring
<1> QED BY <1>1, <1>13, Zenon

\* v and u as in Expiring: the item is in the mail m, and the auction still names it.
ExpirySent(s, v, u, e, i, m, total) ==
    /\ Ledger(u, {i}, 0 - 0, total) /\ Memory(u, {}, {}) /\ Delivered(v, u, {i})
    /\ FreeMails(u) = FreeMails(s) \ {m} /\ m \in FreeMails(s) /\ InMemory(v) = InMemory(s)
    /\ \A j \in Item \ {i} : SameItem(s.db, u.db, j)
    /\ m \in Mail /\ u.db.mail[m] # None /\ u.db.mail[m].receiver = e.owner
    /\ \A n \in Mail, q \in Player :
          Posted(u.db, n, i, q) <=> Posted(s.db, n, i, q) \/ (n = m /\ q = e.owner)

\* The mail is stored, and the auction still is.
LEMMA ExpiringSent ==
  ASSUME NEW s, NEW v, NEW u, NEW a, NEW e, NEW i, NEW m, NEW row, NEW total,
         Expiring(s, v, u, a, e, i, m, row, total)
  PROVE  ExpirySent(s, v, u, e, i, m, total)
<1>0. /\ Ending(s, a, e, total) /\ ~e.sold /\ e.bid = 0 /\ i = e.item
      /\ v \in States /\ v.db = s.db /\ v.txs = s.txs /\ v.pl = s.pl /\ v.cut = s.cut
      /\ v.past = s.past /\ v.aitems = s.aitems \ {i}
      /\ m \in FreeMails(v) /\ row \in MailRow /\ row = Row(e.owner, None, "auction", 0, 0)
      /\ Sent(v, u, m, row, {i}, {i})
  BY DEF Expiring
<1>1. /\ Kept(s, total) /\ a \in Auction
      /\ s \in States /\ s.db \in Database /\ s.house = s.db.auction /\ s.aitems = Goods(s.db)
      /\ e = s.db.auction[a] /\ e # None /\ e \in AuctionRow /\ RowInv(e) /\ e.owner \in Player
      /\ e.item \in Item \cup {None} /\ None \notin Item
  BY <1>0, EndingIs
<1>2. PICK I, N : I = {i} /\ N = {}
  OBVIOUS
<1>3. i \in Item
  <2>1. i # None
    BY <1>0, <1>1 DEF RowInv
  <2> QED BY <1>0, <1>1, <2>1
<1>4. I \in SUBSET Item /\ I \in SUBSET Thing /\ Sent(v, u, m, row, I, I)
  <2>1. Sent(v, u, m, row, I, I)
    BY <1>0, <1>2, Zenon
  <2> QED BY <1>2, <1>3, <2>1 DEF Thing
<1>5. Hand(s, N, 0, N, N, total)
  <2>1. Hand(s, {}, 0, N, N, total)
    BY <1>1, HandOf
  <2> QED BY <1>2, <2>1, Zenon
<1>6. Hand(v, N, 0, N, N, total) /\ FreeMails(v) = FreeMails(s) /\ InMemory(v) = InMemory(s)
  <2>1. WonInv(v.db, v.past)
    BY <1>0, <1>5 DEF Hand, Ledger
  <2>2. v.past.money = s.past.money
    BY <1>0
  <2> QED BY <1>0, <1>5, <2>1, <2>2, HandAside
<1>7. row.receiver = e.owner /\ row.money = 0 /\ MailRowInv(row) /\ row # None
  BY <1>0, NoneIsNothing DEF Row, MailRowInv
<1>8. Ledger(v, I, 0, total)
  <2>1. Ledger(v, N, 0, total)
    BY <1>6 DEF Hand
  <2> QED BY <1>2, <2>1, LedgerLess
<1>9. Ledger(u, I, 0 - row.money, total)
  <2>1. \A j \in (Item \cap I) \ (I \cup v.cut) : Exact(u.db, j)
    OBVIOUS
  <2>2. I \subseteq I \cup v.cut /\ (0 = row.money \/ "money" \in I \cup v.cut) /\ I \subseteq I
    BY <1>7
  <2> QED BY <1>0, <1>4, <1>7, <1>8, <2>1, <2>2, LedgerSent
<1>10. Ledger(u, {i}, 0 - 0, total)
  BY <1>2, <1>7, <1>9, Zenon
<1>11. Sells(s.db, a, i)
  BY <1>0, <1>1 DEF Sells
<1>12. \A j \in Item : InMemory(s) # {} => Clean(s.db, j)
  BY <1>1 DEF Kept, AllClean
<1>13. Memory(u, N, N) /\ FreeMails(u) = FreeMails(v) \ {m}
  <2>1. Memory(v, N, N)
    BY <1>6 DEF Hand
  <2>2. Reliable(v, I)
    BY <1>0, <1>1, <1>2, <1>3, <1>6, <1>11, <1>12 DEF Clean, Reliable
  <2> QED BY <1>0, <1>4, <2>1, <2>2, SentMemories
<1>14. Memory(u, {}, {})
  BY <1>2, <1>13, Zenon
<1>15. Delivered(v, u, {i})
  <2>1. Delivered(v, u, I)
    BY <1>0, <1>4, DeliveredIs
  <2> QED BY <1>2, <2>1, Zenon
<1>16. v.db \in Database /\ m \in Mail /\ v.db.mail[m] = None /\ u.db = PostedDb(v.db, m, row, I)
  BY <1>0, <1>1, <1>4, Zenon DEF FreeMails, Sent
<1>17. \A j \in Item \ {i} : SameItem(s.db, u.db, j)
  <2>1. \A j \in Item \ I : SameItem(v.db, u.db, j)
    BY <1>0, <1>4, <1>16, PostedItems
  <2> QED BY <1>0, <1>2, <2>1
<1>18. /\ u.db.mail[m] = row
       /\ \A n \in Mail, q \in Player :
             Posted(u.db, n, i, q) <=> Posted(s.db, n, i, q) \/ (n = m /\ q = e.owner)
  <2>1. u.db.mail = [v.db.mail EXCEPT ![m] = row]
        /\ u.db.attached = v.db.attached \cup {<<m, j, row.receiver>> : j \in I}
    <3>1. PICK d, f : d = v.db /\ f = u.db
      OBVIOUS
    <3>2. d \in Database /\ f = PostedDb(d, m, row, I)
      BY <1>16, <3>1
    <3>3. f.mail = [d.mail EXCEPT ![m] = row]
          /\ f.attached = d.attached \cup {<<m, j, row.receiver>> : j \in I}
      BY <1>0, <1>4, <1>16, <3>2, PostedDbIs
    <3> QED BY <3>1, <3>3
  <2> QED BY <1>0, <1>2, <1>7, <1>16, <2>1, DatabaseFields, Zenon DEF Posted
<1> QED BY <1>0, <1>6, <1>7, <1>10, <1>13, <1>14, <1>15, <1>16, <1>17, <1>18 DEF ExpirySent

\* The item of an auction without a bid goes back to its seller.
LEMMA ExpiryKeeps ==
  ASSUME NEW s, NEW a, NEW e, NEW total, Ending(s, a, e, total), ~e.sold, e.bid = 0,
         NEW t, t = Erased(DeleteFromDB(Spent(SendAuctionExpiredMail(s, a), Deposit), a), a)
  PROVE  Kept(t, total) /\ Aside(s, t, a) /\ t.house[a] = None
<1>1. PICK i, u : i = e.item /\ u = SendAuctionExpiredMail(s, a)
  OBVIOUS
<1>2. PICK v, m, row : Expiring(s, v, u, a, e, i, m, row, total)
  BY <1>1, ExpiredMailIs
<1>3. /\ Kept(s, total) /\ a \in Auction
      /\ s \in States /\ s.db \in Database /\ s.house = s.db.auction /\ s.aitems = Goods(s.db)
      /\ e = s.db.auction[a] /\ e # None /\ e \in AuctionRow /\ RowInv(e) /\ e.owner \in Player
      /\ e.item \in Item \cup {None} /\ None \notin Item /\ None \notin Player /\ Deposit \in Nat
  BY EndingIs
<1>4. /\ Ledger(u, {i}, 0 - 0, total) /\ Memory(u, {}, {}) /\ Delivered(v, u, {i})
      /\ FreeMails(u) = FreeMails(s) \ {m} /\ m \in FreeMails(s) /\ InMemory(v) = InMemory(s)
      /\ \A j \in Item \ {i} : SameItem(s.db, u.db, j)
      /\ m \in Mail /\ u.db.mail[m] # None /\ u.db.mail[m].receiver = e.owner
      /\ \A n \in Mail, q \in Player :
            Posted(u.db, n, i, q) <=> Posted(s.db, n, i, q) \/ (n = m /\ q = e.owner)
  <2>1. ExpirySent(s, v, u, e, i, m, total)
    BY ONLY <1>2, ExpiringSent
  <2> QED BY <2>1 DEF ExpirySent
<1>5. PICK I, N : I = {i} /\ N = {}
  OBVIOUS
<1>6. /\ Ledger(u, I, 0 - 0, total) /\ Memory(u, N, N) /\ Delivered(v, u, I)
  BY <1>4, <1>5, Zenon
<1>7. /\ v.db = s.db /\ v.cut = s.cut /\ v.aitems = s.aitems \ {i}
      /\ \A b \in Auction : b # a => v.house[b] = s.house[b]
  BY <1>2 DEF Expiring
<1>8. /\ u.cut = s.cut /\ u.db.auction = s.db.auction /\ u.db.instance = s.db.instance
      /\ u.db.inventory = s.db.inventory /\ u.aitems = s.aitems \ {i}
      /\ InMemory(u) = InMemory(s)
      /\ \A b \in Auction : b # a => u.house[b] = s.house[b]
  BY <1>4, <1>6, <1>7 DEF Delivered
<1>9. PICK w : w = Spent(u, Deposit)
  OBVIOUS
<1>10. u \in States /\ u.db \in Database
  BY <1>6, StateFields DEF Ledger
<1>11. /\ w.db = u.db /\ w.pl = u.pl /\ w.house = u.house /\ w.aitems = u.aitems /\ w.cut = u.cut
  BY <1>3, <1>9, <1>10, SpentIs
<1>12. PICK D : D = (0 - 0) - Deposit
  OBVIOUS
<1>13. Ledger(w, I, D, total)
  <2>1. Ledger(w, I, (0 - 0) - Deposit, total)
    BY <1>3, <1>6, <1>9, LedgerSpent
  <2> QED BY <1>12, <2>1
<1>14. Memory(w, N, N) /\ FreeMails(w) = FreeMails(u) /\ InMemory(w) = InMemory(u)
  <2>1. SameTables(u.db, w.db, N) /\ u.cut \subseteq w.cut
    BY <1>11 DEF SameTables
  <2> QED BY <1>6, <1>11, <2>1, MemorySame
<1>15. PICK none, d : none = None /\ d = PutDb(w.db, a, none)
  OBVIOUS
<1>16. /\ d \in Database /\ d.inventory = s.db.inventory
       /\ d.instance = s.db.instance /\ d.attached = u.db.attached /\ d.mail = u.db.mail
       /\ d.auction = [u.db.auction EXCEPT ![a] = none]
       /\ \A j \in Item : (Sells(u.db, a, j) <=> (none # None /\ none.item = j)) => SameItem(u.db, d, j)
  <2>1. none \in AuctionRow \cup {None} /\ d = PutDb(u.db, a, none)
    BY <1>11, <1>15
  <2> QED BY <1>3, <1>8, <1>10, <2>1, PutDbIs
<1>17. i \in Item /\ Sells(s.db, a, i) /\ \A j \in Item : Sells(u.db, a, j) <=> j = i
  <2>1. i # None
    BY <1>1, <1>3 DEF RowInv
  <2> QED BY <1>1, <1>3, <1>8, <2>1 DEF Sells
<1>18. \A b \in Auction : Sells(s.db, b, i) => b = a
  BY <1>3, <1>17 DEF Kept, Ledger, DbInv
<1>19. d.auction[a] = None /\ \A b \in Auction : b # a => d.auction[b] = s.db.auction[b]
  <2>1. u.db.auction \in [Auction -> AuctionRow \cup {None}]
    BY <1>10, DatabaseFields
  <2> QED BY <1>3, <1>8, <1>15, <1>16, <2>1
<1>20. \A j \in Item : j # i => SameItem(u.db, d, j)
  BY <1>15, <1>16, <1>17
<1>21. \A j \in Item : j # i => (Clean(s.db, j) => Clean(d, j)) /\ (Exact(s.db, j) => Exact(d, j))
  <2>1. \A j \in Item : j # i => SameItem(s.db, u.db, j)
    BY <1>4
  <2> QED BY <1>20, <2>1, SameItemKept
<1>22. Clean(s.db, i) => Exact(d, i)
  <2> SUFFICES ASSUME Clean(s.db, i) PROVE Exact(d, i)
    OBVIOUS
  <2>1. /\ i \in s.db.instance /\ s.db.inventory[i] = None
        /\ \A n \in Mail, q \in Player : ~Posted(s.db, n, i, q)
    <3>1. i \in s.db.instance /\ \A n \in Mail, q \in Player : ~Posted(s.db, n, i, q)
      BY <1>3, <1>17 DEF Clean
    <3>2. s.db.inventory[i] = None
      BY <1>3, <1>17 DEF Clean
    <3> QED BY <3>1, <3>2
  <2>2. i \in d.instance /\ d.inventory[i] = None /\ d.mail[m] # None /\ d.mail[m].receiver = e.owner
    BY <1>4, <1>16, <2>1
  <2>3. \A n \in Mail, q \in Player : Posted(d, n, i, q) <=> (n = m /\ q = e.owner)
    BY <1>4, <1>16, <2>1 DEF Posted
  <2>4. \A b \in Auction : ~Sells(d, b, i)
    BY <1>18, <1>19 DEF Sells
  <2> QED BY <1>3, <1>4, <2>2, <2>3, <2>4 DEF Exact, Clean, Somewhere
<1>23. /\ \A j \in Item \ w.cut : Exact(d, j)
       /\ \A j \in Item : Tracked(w, j) => Clean(d, j)
  <2>1. /\ \A j \in Item \ s.cut : Exact(s.db, j)
        /\ \A j \in Item : Tracked(s, j) => Clean(s.db, j)
    <3>1. Hand(s, N, 0, N, N, total)
      <4>1. Hand(s, {}, 0, N, N, total)
        BY <1>3, HandOf
      <4> QED BY <1>5, <4>1, Zenon
    <3> QED BY <1>5, <3>1 DEF Hand, Ledger
  <2>2. \A j \in Item : Tracked(w, j) => Tracked(s, j)
    BY <1>8, <1>11, <1>14 DEF Tracked
  <2>3. \A j \in Item \ w.cut : Clean(s.db, j) /\ Exact(s.db, j)
    BY <1>8, <1>11, <2>1 DEF Exact
  <2>4. \A j \in Item : Exact(d, j) => Clean(d, j)
    BY DEF Exact
  <2> QED BY <1>21, <1>22, <2>1, <2>2, <2>3, <2>4
<1>24. Erasing(w, a, I, D, total)
  <2>1. D + AuctionWorth(w.db.auction[a]) = 0
    <3>1. w.db.auction[a] = e
      BY <1>3, <1>8, <1>11
    <3>2. AuctionWorth(e) = Deposit
      BY <1>3 DEF AuctionWorth
    <3> QED BY <1>3, <1>12, <3>1, <3>2
  <2>2. w.aitems = Goods(d)
    <3>1. \A j \in Item : (\E b \in Auction : Sells(d, b, j))
                             <=> j # i /\ \E b \in Auction : Sells(s.db, b, j)
      <4>1. \A j \in Item, b \in Auction : Sells(d, b, j) <=> b # a /\ Sells(s.db, b, j)
        BY <1>3, <1>19 DEF Sells
      <4>2. \A j \in Item : Sells(s.db, a, j) <=> j = i
        BY <1>8, <1>17 DEF Sells
      <4> QED BY <1>18, <4>1, <4>2
    <3> QED BY <1>3, <1>8, <1>11, <3>1 DEF Goods
  <2>3. \A b \in Auction : b # a => w.house[b] = w.db.auction[b]
    BY <1>3, <1>8, <1>11
  <2>4. Memory(w, {}, {})
    BY <1>5, <1>14, Zenon
  <2>5. d = PutDb(w.db, a, None)
    BY <1>15
  <2> QED BY <1>3, <1>13, <1>23, <2>1, <2>2, <2>3, <2>4, <2>5 DEF Erasing
<1>25. /\ Kept(t, total) /\ FreeMails(t) = FreeMails(w) /\ InMemory(t) = InMemory(w)
       /\ t.cut = w.cut /\ t.house[a] = None
       /\ \A b \in Auction : b # a => t.house[b] = w.house[b]
  <2>1. t = Erased(DeleteFromDB(w, a), a)
    BY <1>1, <1>9
  <2> QED BY <1>24, <2>1, ErasingKeeps
<1> QED BY <1>4, <1>8, <1>11, <1>14, <1>25 DEF Aside

\* The walk over the auctions at the auction a.
LEMMA EndedKeeps ==
  ASSUME NEW s, NEW total, Kept(s, total), Enough(s), NEW a \in Auction, NEW due,
         a \in due => s.house[a] # None,
         NEW t, t = Ended(s, a, due)
  PROVE  /\ Kept(t, total) /\ Enough(t)
         /\ \A b \in Auction : b # a => t.house[b] = s.house[b]
<1>1. CASE a \notin due
  <2>1. t = s
    BY <1>1 DEF Ended
  <2> QED BY <2>1
<1>2. CASE a \in due
  <2>1. PICK e : e = s.house[a]
    OBVIOUS
  <2>2. Ending(s, a, e, total)
    BY <1>2, <2>1, EnoughMails DEF Ending
  <2>3. /\ s.house = s.db.auction /\ s.aitems = Goods(s.db) /\ e = s.db.auction[a] /\ e # None
        /\ e \in AuctionRow /\ RowInv(e) /\ e.bid \in Nat /\ FreeMails(s) # {}
        /\ e.bidder \in Player \cup {None} /\ Deposit \in Nat
    BY <2>2, EndingIs
  <2>4. e.sold \in BOOLEAN
    BY <2>3 DEF AuctionRow
  <2>5. CASE e.sold
    <3>1. t = Erased(DeleteFromDB(SendAuctionSuccessfulMail(s, a), a), a)
      BY <1>2, <2>1, <2>5, Zenon DEF Ended
    <3>2. Kept(t, total) /\ Aside(s, t, a) /\ t.house[a] = None
      BY <2>2, <2>5, <3>1, SuccessKeeps
    <3>3. Enough(t)
      BY <2>1, <2>3, <3>2, EnoughEnds
    <3> QED BY <3>2, <3>3 DEF Aside
  <2>6. CASE ~e.sold /\ e.bid # 0
    <3>1. t = AuctionBidWinning(s, a, None)
      BY <1>2, <2>1, <2>6, Zenon DEF Ended
    <3>2. PICK N : N = {}
      OBVIOUS
    <3>3. Hand(s, {}, 0, N, N, total)
      BY HandOf
    <3>4. Hand(s, {}, 0, {}, {}, total)
      BY <3>2, <3>3, Zenon
    <3>5. Bid(s, {}, a, e, 0, total)
      <4>1. e.bidder \in Player
        BY <2>3, <2>6 DEF RowInv
      <4> QED BY <2>1, <2>3, <2>6, <3>4, <4>1 DEF Bid
    <3>6. 0 + BidCost(s, a, e) = 0
      <4>1. AuctionWorth(e) \in Int
        BY <2>3 DEF AuctionWorth
      <4> QED BY <2>3, <4>1 DEF BidCost
    <3>7. Kept(t, total) /\ Aside(s, t, a) /\ t.house[a] # None /\ t.house[a].sold
      BY <2>3, <3>1, <3>5, <3>6, WonIs
    <3>8. Enough(t)
      BY <2>1, <2>3, <2>6, <3>7, EnoughEnds
    <3> QED BY <3>7, <3>8 DEF Aside
  <2>7. CASE ~e.sold /\ e.bid = 0
    <3>1. t = Erased(DeleteFromDB(Spent(SendAuctionExpiredMail(s, a), Deposit), a), a)
      BY <1>2, <2>1, <2>7, Zenon DEF Ended
    <3>2. Kept(t, total) /\ Aside(s, t, a) /\ t.house[a] = None
      BY <2>2, <2>7, <3>1, ExpiryKeeps
    <3>3. Enough(t)
      BY <2>1, <2>3, <3>2, EnoughEnds
    <3> QED BY <3>2, <3>3 DEF Aside
  <2> QED BY <2>4, <2>5, <2>6, <2>7
<1> QED BY <1>1, <1>2

\* The first k numbers.
LEMMA PrefixFacts ==
  ASSUME NEW n \in Nat, NEW k \in 1 .. n
  PROVE  /\ 1 .. k \in SUBSET (1 .. n) /\ 1 .. k # {} /\ 1 .. k - 1 \in SUBSET (1 .. n)
         /\ (1 .. k - 1) \cup {k} = 1 .. k /\ \A y \in 1 .. k - 1 : y < k
OBVIOUS

\* The update of the auction house, of which S is done.
Updated(S, total) ==
    {x \in States : Kept(x, total) /\ Enough(x) /\ \A b \in Auction \ S : x.house[b] = house[b]}

LEMMA UpdateAuctionsKeeps ==
  ASSUME NEW total, Kept(World, total), Enough(World), NEW due \in SUBSET InHouse,
         UpdateAuctions(due)
  PROVE  Kept(World, total)' /\ Enough(World)'
<1> DEFINE n == Cardinality(Auction)
           q == [a \in Auction |-> a]
           Step(s, a) == Ended(s, a, due)
           E(f) == f = [S \in SUBSET (1 .. n) |-> IF S = {} THEN World
                                                  ELSE Step(f[S \ {Max(S)}], q[Max(S)])]
           it == CHOOSE f : E(f)
           F == [z \in (1 .. n) \X States |-> Step(z[2], z[1])]
           ST == [S \in SUBSET (1 .. n) |-> Updated(S, total)]
           SK == [k \in 0 .. n |-> Updated(1 .. k, total)]
<1>1. n \in Nat /\ Auction = 1 .. n /\ DOMAIN q = 1 .. n /\ \A k \in 1 .. n : q[k] = k
  BY AuctionConstants, FS_CardinalityType
<1>2. PICK c : c = FoldLeft(LAMBDA s, a : Ended(s, a, due), World, [a \in Auction |-> a])
  BY Zenon
<1>3. Outcome(c)
  BY <1>2, Zenon DEF UpdateAuctions
<1>4. c = it[1 .. n]
  BY <1>1, <1>2 DEF FoldLeft, MapThenFoldSet
<1> HIDE DEF n
<1>5. ASSUME NEW S \in SUBSET (1 .. n), NEW x \in Updated(S, total), NEW k \in 1 .. n, k \notin S
      PROVE  Step(x, k) \in Updated(S \cup {k}, total)
  <2>1. /\ x \in States /\ Kept(x, total) /\ Enough(x)
        /\ \A b \in Auction \ S : x.house[b] = house[b]
    BY DEF Updated
  <2>2. PICK y : y = Ended(x, k, due)
    OBVIOUS
  <2>3. k \in Auction /\ (k \in due => x.house[k] # None)
    BY <1>1, <1>5, <2>1 DEF InHouse
  <2>4. Kept(y, total) /\ Enough(y) /\ \A b \in Auction : b # k => y.house[b] = x.house[b]
    BY <2>1, <2>2, <2>3, EndedKeeps
  <2>5. y \in States
    BY <2>4, KeptStates
  <2>6. y \in Updated(S \cup {k}, total)
    BY <2>1, <2>4, <2>5 DEF Updated
  <2> QED BY <2>2, <2>6
<1>6. World \in Updated({}, total)
  <2>1. World \in States
    BY KeptStates
  <2> QED BY <2>1, WorldIs DEF Updated
<1>7. \A S \in SUBSET (1 .. n) : ST[S] = Updated(S, total) /\ ST[S] \subseteq States
  BY DEF Updated
<1>8. ASSUME NEW k \in 1 .. n, NEW x \in States PROVE F[<<k, x>>] = Step(x, q[k])
  <2>1. F[<<k, x>>] = Step(x, k)
    <3> HIDE DEF Step
    <3> QED OBVIOUS
  <2> HIDE DEF F, Step, q
  <2> QED BY <1>1, <2>1
<1>9. PICK h : Folds2(h, F, World, n) /\ \A S \in SUBSET (1 .. n) : h[S] \in ST[S]
  <2>1. World \in ST[{}]
    BY <1>6
  <2>2. ASSUME NEW S \in SUBSET (1 .. n), NEW k \in 1 .. n, \A y \in S : y < k, NEW x \in ST[S]
        PROVE  F[<<k, x>>] \in ST[S \cup {k}]
    <3>1. k \notin S /\ S \cup {k} \in SUBSET (1 .. n)
      BY <1>1, <2>2
    <3>2. x \in Updated(S, total) /\ x \in States
      <4> HIDE DEF ST
      <4> QED BY <1>7
    <3>3. Step(x, k) \in Updated(S \cup {k}, total)
      <4> HIDE DEF Step
      <4> QED BY <1>5, <3>1, <3>2
    <3>4. F[<<k, x>>] = Step(x, k)
      <4> HIDE DEF Step, F, q
      <4> QED BY <1>1, <1>8, <3>2
    <3> HIDE DEF F, Step, ST
    <3> QED BY <1>7, <3>1, <3>3, <3>4
  <2> HIDE DEF F, ST
  <2> QED BY <1>1, <2>1, <2>2, FoldFits
<1> DEFINE g == [S \in SUBSET (1 .. n) |-> h[S]]
<1>10. E(g)
  <2> SUFFICES ASSUME NEW S \in SUBSET (1 .. n)
               PROVE  h[S] = IF S = {} THEN World ELSE Step(h[S \ {Max(S)}], q[Max(S)])
    <3>1. ASSUME NEW S \in SUBSET (1 .. n), S # {} PROVE g[S \ {Max(S)}] = h[S \ {Max(S)}]
      OBVIOUS
    <3> HIDE DEF Step, q
    <3> QED BY <3>1
  <2>1. h[S] = IF S = {} THEN World ELSE F[<<Max(S), h[S \ {Max(S)}]>>]
    BY <1>9 DEF Folds2
  <2>2. S # {} => Max(S) \in 1 .. n /\ h[S \ {Max(S)}] \in States
    <3>1. S # {} => Max(S) \in S /\ S \ {Max(S)} \in SUBSET (1 .. n)
      BY <1>1, MaxOfPart
    <3> HIDE DEF ST
    <3> QED BY <1>7, <1>9, <3>1
  <2> HIDE DEF F, Step, q
  <2> QED BY <1>8, <2>1, <2>2
<1>11. E(it)
  <2> HIDE DEF E
  <2> QED BY <1>10
<1>12. \A S \in SUBSET (1 .. n) : it[S] = IF S = {} THEN World ELSE Step(it[S \ {Max(S)}], q[Max(S)])
  <2> HIDE DEF it, Step, q
  <2> QED BY <1>11
<1> HIDE DEF it
<1>13. it[{}] \in SK[0]
  <2>1. it[{}] = World /\ 1 .. 0 = {} /\ 0 \in 0 .. n
    <3>1. {} \in SUBSET (1 .. n)
      OBVIOUS
    <3>2. it[{}] = World
      <4> HIDE DEF Step, q
      <4> QED BY <1>12, <3>1
    <3> QED BY <1>1, <3>2
  <2> QED BY <1>6, <2>1
<1>14. ASSUME NEW k \in 1 .. n, Max(1 .. k) = k, (1 .. k) \ {k} = 1 .. k - 1, it[1 .. k - 1] \in SK[k - 1]
       PROVE  it[1 .. k] \in SK[k]
  <2>1. /\ 1 .. k \in SUBSET (1 .. n) /\ 1 .. k # {} /\ 1 .. k - 1 \in SUBSET (1 .. n)
        /\ (1 .. k - 1) \cup {k} = 1 .. k /\ \A y \in 1 .. k - 1 : y < k
    BY <1>1, PrefixFacts
  <2>2. k - 1 \in 0 .. n /\ k \in 0 .. n /\ k \notin 1 .. k - 1
    BY <1>1
  <2>3. it[1 .. k] = Step(it[1 .. k - 1], k)
    <3>1. it[1 .. k] = Step(it[1 .. k - 1], q[k])
      <4> HIDE DEF Step, q
      <4> QED BY <1>12, <1>14, <2>1
    <3> HIDE DEF Step, q
    <3> QED BY <1>1, <3>1
  <2>4. it[1 .. k - 1] \in Updated(1 .. k - 1, total)
    BY <1>14, <2>2
  <2>5. it[1 .. k] \in Updated((1 .. k - 1) \cup {k}, total)
    <3> HIDE DEF Step
    <3> QED BY <1>5, <2>1, <2>2, <2>3, <2>4
  <2> QED BY <2>1, <2>2, <2>5
<1>15. it[1 .. n] \in SK[n]
  <2> HIDE DEF SK
  <2> QED BY <1>1, <1>13, <1>14, FoldHolds
<1>16. c \in Updated(1 .. n, total)
  BY <1>1, <1>4, <1>15
<1>17. Kept(c, total) /\ Enough(c)
  BY <1>16 DEF Updated
<1> QED BY <1>3, <1>17, OutcomeKeeps

-----------------------------------------------------------------------------
(* The mails whose time is over *)

LEMMA SeqIsAll ==
  ASSUME NEW S \in SUBSET Item, NEW n, n = Cardinality(S), NEW q, q = SetToSeq(S)
  PROVE  /\ n \in Nat /\ q \in [1 .. n -> S] /\ DOMAIN q = 1 .. n
         /\ \A i \in S : \E k \in 1 .. n : q[k] = i
<1>1. IsFiniteSet(S)
  BY MailConstants, FS_Subset
<1>2. n \in Nat /\ q \in [1 .. n -> S] /\ IsInjective(q)
  BY <1>1, SeqOfSet
<1>3. q \in Injection(1 .. n, S)
  BY <1>2 DEF Injection
<1>4. Cardinality(1 .. n) = n
  BY <1>2, FS_Interval
<1>5. q \in Surjection(1 .. n, S)
  BY <1>1, <1>3, <1>4, FS_Injection
<1> QED BY <1>2, <1>5 DEF Surjection

\* More may be left by half.
LEMMA KeptCut ==
  ASSUME NEW s, NEW total, Kept(s, total), Enough(s), NEW c \in SUBSET Thing, s.cut \subseteq c,
         NEW t, t = [s EXCEPT !.cut = c]
  PROVE  /\ Kept(t, total) /\ Enough(t) /\ t.cut = c /\ t.db = s.db /\ t.pl = s.pl
         /\ t.house = s.house
<1>1. /\ Ledger(s, {}, 0, total)
      /\ s.house = s.db.auction /\ s.aitems = Goods(s.db)
      /\ (InMemory(s) # {} => AllClean(s.db))
  BY DEF Kept
<1>2. s \in States
  BY <1>1 DEF Ledger
<1>3. /\ t \in States /\ t.cut = c /\ t.db = s.db /\ t.txs = s.txs /\ t.pl = s.pl
      /\ t.house = s.house /\ t.aitems = s.aitems /\ t.past = s.past
  BY <1>2 DEF States
<1>4. Ledger(t, {}, 0, total)
  <2>1. Logged(t, total)
    <3> SUFFICES ASSUME NEW k \in 1 .. Len(t.txs) PROVE TxInv(t.txs[k], t.cut, total)
      BY DEF Logged
    <3>1. TxInv(s.txs[k], s.cut, total)
      BY <1>1, <1>3 DEF Ledger, Logged
    <3> QED BY <1>3, <3>1 DEF TxInv
  <2>2. \A i \in Item \ (t.cut \cup {}) : Exact(t.db, i)
    BY <1>1, <1>3 DEF Ledger
  <2>3. "money" \notin t.cut => MoneyIn(t.db, t.past) + 0 = total
    BY <1>1, <1>3 DEF Ledger
  <2> QED BY <1>1, <1>3, <2>1, <2>2, <2>3 DEF Ledger
<1>5. PICK N : N = {}
  OBVIOUS
<1>6. Memory(t, N, N) /\ FreeMails(t) = FreeMails(s) /\ InMemory(t) = InMemory(s)
  <2>1. Memory(s, N, N)
    BY MemoryOf
  <2>2. SameTables(s.db, t.db, N)
    BY <1>3 DEF SameTables
  <2> QED BY <1>3, <2>1, <2>2, MemorySame
<1>7. Memory(t, {}, N)
  BY <1>5, <1>6, Zenon
<1>8. Kept(t, total)
  BY <1>1, <1>3, <1>4, <1>6, <1>7, KeptFrom
<1>9. Enough(t)
  BY <1>3, <1>6 DEF Enough
<1> QED BY <1>3, <1>8, <1>9

\* t is s, but the mail m has another row, or none, and what it had is elsewhere; who has it
\* in memory lost it.
MailStep(s, t, m) ==
    /\ t \in States /\ t.pl = s.pl /\ t.house = s.house /\ t.aitems = s.aitems /\ t.cut = s.cut
    /\ t.db.gold = s.db.gold /\ t.db.inventory = s.db.inventory /\ t.db.auction = s.db.auction
    /\ \A n \in Mail : n # m => t.db.mail[n] = s.db.mail[n]
    /\ InMemory(s) # {} =>
          /\ \A n \in Mail, q \in Player : n # m => Attached(t.db, n, q) = Attached(s.db, n, q)
          /\ \A i \in Item : s.db.inventory[i] # None => (i \in t.db.instance <=> i \in s.db.instance)
          /\ AllClean(t.db)
    /\ \A q \in InMemory(s) :
          m \in DOMAIN s.pl[q].mails => Stale(t.db, s.pl[q].mails[m], m, s.cut)

LEMMA MailStepKeeps ==
  ASSUME NEW s, NEW total, Kept(s, total), NEW t, NEW m \in Mail, MailStep(s, t, m),
         Ledger(t, {}, 0, total)
  PROVE  Kept(t, total)
<1>1. /\ s \in States /\ s.db \in Database /\ s.house = s.db.auction /\ s.aitems = Goods(s.db)
      /\ \A p \in InMemory(s) : PlayerInv(s.db, s.cut, s.pl[p], p)
      /\ Paired(s.pl)
  BY KeptStates DEF Kept
<1>2. /\ t \in States /\ t.pl = s.pl /\ t.house = s.house /\ t.aitems = s.aitems /\ t.cut = s.cut
      /\ t.db.gold = s.db.gold /\ t.db.inventory = s.db.inventory /\ t.db.auction = s.db.auction
      /\ \A n \in Mail : n # m => t.db.mail[n] = s.db.mail[n]
      /\ \A q \in InMemory(s) :
            m \in DOMAIN s.pl[q].mails => Stale(t.db, s.pl[q].mails[m], m, s.cut)
  BY DEF MailStep
<1>3. InMemory(t) = InMemory(s)
  BY <1>2 DEF InMemory
<1>4. InMemory(t) # {} => AllClean(t.db)
  BY <1>3 DEF MailStep
<1>5. t.aitems = Goods(t.db)
  BY <1>1, <1>2 DEF Goods, Sells
<1>6. ASSUME NEW p \in InMemory(t) PROVE PlayerInv(t.db, t.cut, t.pl[p], p)
  <2>1. /\ p \in Player /\ p # None /\ PurseInv(s.db, s.pl[p], p) /\ BagInv(s.db, s.pl[p], p)
        /\ BoxInv(s.db, s.cut, s.pl[p], p) /\ DOMAIN s.pl[p].mails \subseteq Mail
    <3>1. DOMAIN s.pl[p].mails \subseteq Mail
      BY <1>1, <1>3, RecordOf
    <3> QED BY <1>1, <1>3, <3>1, MailConstants DEF PlayerInv, InMemory
  <2>2. PurseInv(t.db, t.pl[p], p)
    BY <1>2, <2>1 DEF PurseInv
  <2>3. BagInv(t.db, t.pl[p], p)
    <3>1. \A i \in Item : s.db.inventory[i] # None => (i \in t.db.instance <=> i \in s.db.instance)
      BY <1>3 DEF MailStep
    <3>2. s.db.instance \subseteq Item /\ t.db.instance \subseteq Item
      BY <1>1, <1>2, StateFields, DatabaseFields
    <3> QED BY <1>2, <2>1, <3>1, <3>2 DEF BagInv
  <2>4. ASSUME NEW n \in DOMAIN s.pl[p].mails
        PROVE  MailInv(t.db, t.cut, s.pl[p].mails[n], n, p)
    <3>1. MailInv(s.db, s.cut, s.pl[p].mails[n], n, p)
      BY <2>1 DEF BoxInv
    <3>2. CASE n = m
      <4>1. Stale(t.db, s.pl[p].mails[n], n, t.cut)
        BY <1>2, <1>3, <3>2
      <4> QED BY <3>1, <4>1 DEF MailInv
    <3>3. CASE n # m
      <4>1. t.db.mail[n] = s.db.mail[n] /\ Attached(t.db, n, p) = Attached(s.db, n, p)
            /\ s.cut \subseteq t.cut
        <5>1. \A k \in Mail, q \in Player : k # m => Attached(t.db, k, q) = Attached(s.db, k, q)
          BY <1>3 DEF MailStep
        <5> QED BY <1>2, <2>1, <3>3, <5>1
      <4> QED BY <3>1, <4>1, MailInvSame
    <3> QED BY <3>2, <3>3
  <2> QED BY <1>2, <2>2, <2>3, <2>4 DEF PlayerInv, BoxInv
<1> QED BY <1>1, <1>2, <1>4, <1>5, <1>6 DEF Kept

\* The row of a mail that goes back, and the tables when the mail m goes back, of whose items
\* those of D did.
BackRow(row) ==
    [row EXCEPT !.receiver = row.sender, !.sender = row.receiver, !.kind = "returned", !.cod = 0]
Swap(att, m, p, q, D) == (att \ {<<m, i, p>> : i \in D}) \cup {<<m, i, q>> : i \in D}
BackDb(d, m, D) ==
    [d EXCEPT !.mail = [d.mail EXCEPT ![m] = BackRow(d.mail[m])],
              !.attached = Swap(d.attached, m, d.mail[m].receiver, d.mail[m].sender, D)]
Back(d, m, row, A, D, e) ==
    /\ d \in Database /\ m \in Mail /\ row = d.mail[m] /\ row # None /\ row.sender # None
    /\ A = Attached(d, m, row.receiver) /\ D \in SUBSET A /\ e = BackDb(d, m, D)
BackAs(d, m, row, A, D, e) ==
    /\ e \in Database /\ e.gold = d.gold /\ e.inventory = d.inventory /\ e.instance = d.instance
    /\ e.auction = d.auction /\ e.mail[m] = BackRow(row)
    /\ \A n \in Mail : n # m => e.mail[n] = d.mail[n]
    /\ row \in MailRow /\ row.receiver \in Player /\ row.sender \in Player
    /\ BackRow(row) \in MailRow /\ BackRow(row) # None /\ BackRow(row).money = row.money
    /\ BackRow(row).receiver = row.sender /\ MailRowInv(BackRow(row))
    /\ \A n \in Mail, i \in Item, r \in Player :
          Posted(e, n, i, r) <=> \/ Posted(d, n, i, r) /\ ~(n = m /\ r = row.receiver /\ i \in D)
                                 \/ n = m /\ r = row.sender /\ i \in D
    /\ A \subseteq d.instance /\ D \subseteq A /\ A \subseteq Item
    /\ \A i \in A : Posted(d, m, i, row.receiver)

LEMMA BackIs ==
  ASSUME NEW d, NEW m, NEW row, NEW A, NEW D, NEW e, Back(d, m, row, A, D, e)
  PROVE  BackAs(d, m, row, A, D, e)
<1>0. /\ d \in Database /\ m \in Mail /\ row = d.mail[m] /\ row # None /\ row.sender # None
      /\ A = Attached(d, m, row.receiver) /\ D \in SUBSET A
  BY DEF Back
<1>1. PICK p, q, new : p = row.receiver /\ q = row.sender /\ new = BackRow(row)
  OBVIOUS
<1>2. /\ row \in MailRow /\ p \in Player /\ q \in Player
      /\ d.mail \in [Mail -> MailRow \cup {None}] /\ d.attached \in SUBSET (Mail \X Item \X Player)
      /\ d.instance \in SUBSET Item
  <2>1. d.mail \in [Mail -> MailRow \cup {None}] /\ d.attached \in SUBSET (Mail \X Item \X Player)
        /\ d.instance \in SUBSET Item
    BY <1>0, DatabaseFields
  <2> QED BY <1>0, <1>1, <2>1 DEF MailRow
<1>3. /\ new \in MailRow /\ new # None /\ new.money = row.money /\ new.receiver = q
      /\ MailRowInv(new)
  <2>1. new \in MailRow /\ new.money = row.money /\ new.receiver = q
    BY <1>1, <1>2 DEF MailRow, BackRow
  <2>2. MailRowInv(new)
    BY <1>1, <1>2 DEF MailRow, BackRow, MailRowInv
  <2> QED BY <2>1, <2>2, NoneIsNothing
<1>4. PICK f, att : f = [d.mail EXCEPT ![m] = new] /\ att = Swap(d.attached, m, p, q, D)
  OBVIOUS
<1>5. e = [d EXCEPT !.mail = f, !.attached = att]
  BY <1>0, <1>1, <1>4, Zenon DEF Back, BackDb
<1>6. A \subseteq d.instance /\ D \subseteq A /\ A \subseteq Item /\ \A i \in A : Posted(d, m, i, p)
  BY <1>0, <1>1, <1>2 DEF Attached, Posted
<1>7. att \in SUBSET (Mail \X Item \X Player)
  BY <1>0, <1>2, <1>4, <1>6 DEF Swap
<1>8. f \in [Mail -> MailRow \cup {None}] /\ f[m] = new /\ \A n \in Mail : n # m => f[n] = d.mail[n]
  BY <1>0, <1>2, <1>3, <1>4
<1>9. /\ e \in Database /\ e.gold = d.gold /\ e.inventory = d.inventory /\ e.instance = d.instance
      /\ e.auction = d.auction /\ e.mail = f /\ e.attached = att
  BY <1>0, <1>5, <1>7, <1>8 DEF Database
<1>10. ASSUME NEW n \in Mail, NEW i \in Item, NEW r \in Player
       PROVE  Posted(e, n, i, r) <=> \/ Posted(d, n, i, r) /\ ~(n = m /\ r = p /\ i \in D)
                                     \/ n = m /\ r = q /\ i \in D
  BY <1>4, <1>9 DEF Posted, Swap
<1> QED BY <1>1, <1>2, <1>3, <1>6, <1>8, <1>9, <1>10 DEF BackAs

LEMMA BackItems ==
  ASSUME NEW d, NEW m, NEW row, NEW A, NEW D, NEW e, Back(d, m, row, A, D, e),
         NEW i \in Item, Clean(d, i)
  PROVE  /\ i \notin A => SameItem(d, e, i)
         /\ i \in D => Exact(e, i)
<1>0. /\ d \in Database /\ m \in Mail /\ row = d.mail[m] /\ row # None
      /\ A = Attached(d, m, row.receiver)
  BY DEF Back
<1>1. BackAs(d, m, row, A, D, e)
  BY BackIs
<1>2. PICK p, q : p = row.receiver /\ q = row.sender
  OBVIOUS
<1>3. \A n \in Mail, r \in Player : Posted(d, n, i, r) => d.mail[n] # None /\ d.mail[n].receiver = r
                                                         /\ i \in d.instance
  BY DEF Clean
<1>4. ASSUME i \notin A PROVE SameItem(d, e, i)
  <2>1. i \notin D /\ \A r \in Player : ~Posted(d, m, i, r)
    BY <1>0, <1>1, <1>3, <1>4 DEF BackAs, Attached, Posted
  <2>2. \A n \in Mail, r \in Player : Posted(e, n, i, r) <=> Posted(d, n, i, r)
    BY <1>1, <2>1 DEF BackAs
  <2>3. \A n \in Mail, r \in Player : Posted(d, n, i, r) => n # m
    BY <2>1
  <2> QED BY <1>1, <1>3, <1>4, <2>1, <2>2, <2>3 DEF BackAs, SameItem, Sells
<1>5. ASSUME i \in D PROVE Exact(e, i)
  <2>1. Posted(d, m, i, p) /\ i \in d.instance /\ p \in Player /\ q \in Player
    BY <1>1, <1>2, <1>5 DEF BackAs
  <2>2. /\ d.inventory[i] = None
        /\ \A a \in Auction : ~Sells(d, a, i)
        /\ \A n \in Mail, r \in Player : Posted(d, n, i, r) => n = m /\ r = p
    <3>1. \A n \in Mail, r \in Player : Posted(d, n, i, r) => n = m
      BY <1>0, <2>1 DEF Clean
    <3> QED BY <1>0, <1>2, <1>3, <2>1, <3>1 DEF Clean
  <2>3. \A n \in Mail, r \in Player : Posted(e, n, i, r) <=> n = m /\ r = q
    BY <1>1, <1>2, <1>5, <2>2 DEF BackAs
  <2>4. /\ i \in e.instance /\ e.inventory[i] = None /\ \A a \in Auction : ~Sells(e, a, i)
        /\ e.mail[m] # None /\ e.mail[m].receiver = q
    BY <1>1, <1>2, <2>1, <2>2 DEF BackAs, Sells
  <2> QED BY <1>0, <2>1, <2>3, <2>4 DEF Exact, Clean, Somewhere
<1> QED BY <1>4, <1>5

\* What is stored while a mail goes back.
LEMMA BackTx ==
  ASSUME NEW s, NEW total, Kept(s, total), NEW m, NEW row, NEW A, NEW D, NEW e,
         Back(s.db, m, row, A, D, e), NEW open \in SUBSET Thing, A \ D \subseteq open
  PROVE  LET x == [db |-> e, past |-> s.past, open |-> open] IN
         x \in Transaction /\ TxInv(x, s.cut, total)
<1>1. /\ s \in States /\ s.db \in Database /\ s.past \in Past
      /\ DbInv(s.db) /\ WonInv(s.db, s.past)
      /\ \A i \in Item \ s.cut : Exact(s.db, i)
      /\ "money" \notin s.cut => MoneyIn(s.db, s.past) + 0 = total
  <2>1. Ledger(s, {}, 0, total)
    BY DEF Kept
  <2> QED BY <2>1, StateFields DEF Ledger
<1>2. BackAs(s.db, m, row, A, D, e) /\ m \in Mail /\ row = s.db.mail[m] /\ row # None
  BY BackIs DEF Back
<1>3. DbInv(e)
  <2>1. \A a \in Auction, i \in Item : Sells(e, a, i) <=> Sells(s.db, a, i)
    BY <1>2 DEF BackAs, Sells
  <2>2. \A n \in Mail : e.mail[n] # None => MailRowInv(e.mail[n])
    BY <1>1, <1>2 DEF BackAs, DbInv
  <2> QED BY <1>1, <1>2, <2>1, <2>2 DEF BackAs, DbInv
<1>4. WonInv(e, s.past)
  BY <1>1, <1>2 DEF BackAs, WonInv
<1>5. ASSUME NEW i \in Item \ (s.cut \cup open) PROVE Exact(e, i)
  <2>1. Exact(s.db, i) /\ Clean(s.db, i)
    BY <1>1 DEF Exact
  <2>2. i \notin A => SameItem(s.db, e, i)
    BY <2>1, BackItems
  <2>3. i \in D => Exact(e, i)
    BY <2>1, BackItems
  <2>4. i \in A => i \in D
    BY <1>5
  <2> QED BY <2>1, <2>2, <2>3, <2>4, SameItemKept
<1>6. MoneyIn(e, s.past) = MoneyIn(s.db, s.past) /\ MoneyIn(e, s.past) \in Nat
  <2>1. e \in Database /\ e.gold = s.db.gold /\ e.auction = s.db.auction
        /\ \A n \in Mail : n # m => e.mail[n] = s.db.mail[n]
    BY <1>2 DEF BackAs
  <2>2. LetterOf(e) = LetterOf(s.db) - LetterWorth(s.db.mail[m]) + LetterWorth(e.mail[m])
    BY <1>1, <1>2, <2>1, LetterChanged
  <2>3. LetterWorth(e.mail[m]) = LetterWorth(s.db.mail[m]) /\ LetterWorth(s.db.mail[m]) \in Nat
    BY <1>1, <1>2, WorthIs DEF BackAs, LetterWorth
  <2>4. GoldOf(e) = GoldOf(s.db) /\ DepositOf(e) = DepositOf(s.db)
    BY <2>1, SameMoney
  <2>5. /\ MoneyIn(e, s.past) = s.past.money + GoldOf(e) + DepositOf(e) + LetterOf(e)
        /\ MoneyIn(s.db, s.past) = s.past.money + GoldOf(s.db) + DepositOf(s.db) + LetterOf(s.db)
        /\ GoldOf(e) \in Nat /\ DepositOf(e) \in Nat /\ LetterOf(e) \in Nat /\ s.past.money \in Nat
        /\ LetterOf(s.db) \in Nat
    BY <1>1, <2>1, MoneyIs
  <2> QED BY <2>2, <2>3, <2>4, <2>5
<1>7. "money" \notin s.cut => MoneyIn(e, s.past) = total
  BY <1>1, <1>6
<1>8. PICK x : x = [db |-> e, past |-> s.past, open |-> open]
  OBVIOUS
<1>9. x \in Transaction /\ x.db = e /\ x.past = s.past /\ x.open = open
  BY <1>1, <1>2, <1>8 DEF Transaction, BackAs
<1>10. TxInv(x, s.cut, total)
  BY <1>3, <1>4, <1>5, <1>7, <1>9 DEF TxInv
<1> QED BY <1>8, <1>9, <1>10

\* What is free for a mail stays free.
LEMMA MailStepEnough ==
  ASSUME NEW s \in States, NEW t, NEW m \in Mail, MailStep(s, t, m), Enough(s), s.db.mail[m] # None
  PROVE  Enough(t)
<1>1. /\ t.pl = s.pl /\ t.house = s.house /\ \A n \in Mail : n # m => t.db.mail[n] = s.db.mail[n]
  BY DEF MailStep
<1>2. FreeMails(s) \subseteq FreeMails(t)
  BY <1>1 DEF FreeMails
<1>3. Owed(t.house) <= Owed(s.house)
  <2>1. Owed(s.house) \in Nat
    BY OwedIs
  <2> QED BY <1>1, <2>1
<1> QED BY <1>2, <1>3, EnoughSame

-----------------------------------------------------------------------------
(* A mail goes back *)

\* The mail m with the items A is to go back.
Moving(s, m, row, A, total) ==
    /\ Kept(s, total) /\ m \in Mail /\ row = s.db.mail[m] /\ row # None /\ row.sender # None
    /\ A = Attached(s.db, m, row.receiver)

\* Of its items those of D went back.
Backed(s, x, m, row, A, D, total) ==
    /\ D \in SUBSET A /\ x \in States /\ x.db = BackDb(s.db, m, D) /\ Logged(x, total)
    /\ x.pl = s.pl /\ x.house = s.house /\ x.aitems = s.aitems /\ x.past = s.past /\ x.cut = s.cut

LEMMA MovingBack ==
  ASSUME NEW s, NEW m, NEW row, NEW A, NEW total, Moving(s, m, row, A, total), NEW D \in SUBSET A
  PROVE  /\ Back(s.db, m, row, A, D, BackDb(s.db, m, D)) /\ s \in States /\ A \subseteq Item
<1>1. s \in States /\ s.db \in Database
  BY KeptStates DEF Moving
<1>2. A \subseteq Item
  BY <1>1, DatabaseFields DEF Attached, Moving
<1> QED BY <1>1, <1>2 DEF Moving, Back

LEMMA BackedCommit ==
  ASSUME NEW s, NEW m, NEW row, NEW A, NEW total, Moving(s, m, row, A, total), NEW D, NEW v,
         Backed(s, v, m, row, A, D, total), NEW open \in SUBSET Thing, A \ D \subseteq open,
         NEW t, t = Commit(v, open)
  PROVE  Backed(s, t, m, row, A, D, total)
<1>1. /\ D \in SUBSET A /\ v \in States /\ v.db = BackDb(s.db, m, D) /\ Logged(v, total)
      /\ v.pl = s.pl /\ v.house = s.house /\ v.aitems = s.aitems /\ v.past = s.past /\ v.cut = s.cut
  BY DEF Backed
<1>2. Back(s.db, m, row, A, D, v.db) /\ Kept(s, total)
  <2>1. Back(s.db, m, row, A, D, BackDb(s.db, m, D))
    BY <1>1, MovingBack
  <2> QED BY <1>1, <2>1 DEF Moving
<1>3. PICK e, x : e = v.db /\ x = [db |-> e, past |-> s.past, open |-> open]
  OBVIOUS
<1>4. x \in Transaction /\ TxInv(x, v.cut, total)
  <2>1. Back(s.db, m, row, A, D, e) /\ Kept(s, total) /\ A \ D \subseteq open
    BY <1>2, <1>3
  <2>2. LET y == [db |-> e, past |-> s.past, open |-> open] IN
        y \in Transaction /\ TxInv(y, s.cut, total)
    BY ONLY <2>1, BackTx
  <2> QED BY <1>1, <1>3, <2>2
<1>5. /\ t \in States /\ t.db = v.db /\ t.pl = v.pl /\ t.house = v.house /\ t.aitems = v.aitems
      /\ t.past = v.past /\ t.cut = v.cut /\ t.txs = Append(v.txs, x)
  BY <1>1, <1>3, CommitIs
<1>6. Logged(t, total)
  BY <1>1, <1>4, <1>5, LoggedMore
<1> QED BY <1>1, <1>5, <1>6 DEF Backed

\* The statements of Returned.
ReturnFirst(s, m, row) ==
    Commit([s EXCEPT !.db.mail[m] = [@ EXCEPT !.receiver = row.sender,
                         !.sender = row.receiver, !.kind = "returned", !.cod = 0]],
           Attached(s.db, m, row.receiver))
ReturnItem(u, i, m, row) ==
    Commit([u EXCEPT !.db.attached =
                         (@ \ {<<m, i, row.receiver>>}) \cup {<<m, i, row.sender>>}],
           Attached(u.db, m, row.receiver) \ {i})

LEMMA ReturnFirstIs ==
  ASSUME NEW s, NEW m, NEW row, NEW A, NEW total, Moving(s, m, row, A, total)
  PROVE  Backed(s, ReturnFirst(s, m, row), m, row, A, {}, total)
<1>1. /\ s \in States /\ s.db \in Database /\ m \in Mail /\ row = s.db.mail[m] /\ Logged(s, total)
      /\ A = Attached(s.db, m, row.receiver)
  BY KeptStates DEF Moving, Kept, Ledger
<1>2. Back(s.db, m, row, A, {}, BackDb(s.db, m, {})) /\ A \subseteq Item
  BY MovingBack
<1>3. PICK d : d = [s.db EXCEPT !.mail = [s.db.mail EXCEPT ![m] = BackRow(row)]]
  OBVIOUS
<1>4. Swap(s.db.attached, m, row.receiver, row.sender, {}) = s.db.attached
  BY DEF Swap
<1>5. d = BackDb(s.db, m, {})
  <2>1. s.db = [s.db EXCEPT !.attached = s.db.attached]
    BY <1>1 DEF Database
  <2>2. BackDb(s.db, m, {}) = [s.db EXCEPT !.mail = [s.db.mail EXCEPT ![m] = BackRow(row)],
                                          !.attached = s.db.attached]
    BY <1>1, <1>4, Zenon DEF BackDb
  <2> QED BY <1>1, <1>3, <2>2 DEF Database
<1>6. d \in Database
  BY <1>2, <1>5, BackIs DEF BackAs
<1>7. PICK v : v = [s EXCEPT !.db = d]
  OBVIOUS
<1>8. /\ v \in States /\ v.db = d /\ v.txs = s.txs /\ v.pl = s.pl /\ v.house = s.house
      /\ v.aitems = s.aitems /\ v.past = s.past /\ v.cut = s.cut
  BY <1>1, <1>6, <1>7 DEF States
<1>9. Backed(s, v, m, row, A, {}, total)
  <2>1. Logged(v, total)
    BY <1>1, <1>8, LoggedSame
  <2> QED BY <1>5, <1>8, <2>1 DEF Backed
<1>10. ReturnFirst(s, m, row) = Commit(v, A)
  BY <1>1, <1>3, <1>7 DEF ReturnFirst, BackRow
<1>11. PICK N : N = {}
  OBVIOUS
<1>12. A \in SUBSET Thing /\ A \ N \subseteq A /\ Backed(s, v, m, row, A, N, total)
  BY <1>2, <1>9, <1>11 DEF Thing
<1>13. Backed(s, ReturnFirst(s, m, row), m, row, A, N, total)
  BY <1>10, <1>12, BackedCommit
<1> QED BY <1>11, <1>13

SwapItem(att, m, p, q, i) == (att \ {<<m, i, p>>}) \cup {<<m, i, q>>}

LEMMA SwapOne ==
  ASSUME NEW att, NEW m, NEW p, NEW q, NEW D, NEW i, NEW K, K = D \cup {i}
  PROVE  SwapItem(Swap(att, m, p, q, D), m, p, q, i) = Swap(att, m, p, q, K)
<1> SUFFICES ASSUME NEW x
             PROVE  x \in (Swap(att, m, p, q, D) \ {<<m, i, p>>}) \cup {<<m, i, q>>}
                    <=> x \in Swap(att, m, p, q, D \cup {i})
  BY Zenon DEF SwapItem
<1>1. x \in Swap(att, m, p, q, D) <=> \/ x \in att /\ \A j \in D : x # <<m, j, p>>
                                      \/ \E j \in D : x = <<m, j, q>>
  BY DEF Swap
<1>2. x \in Swap(att, m, p, q, D \cup {i})
      <=> \/ x \in att /\ x # <<m, i, p>> /\ \A j \in D : x # <<m, j, p>>
          \/ x = <<m, i, q>>
          \/ \E j \in D : x = <<m, j, q>>
  BY DEF Swap
<1>3. \A j \in D : x = <<m, j, q>> /\ x = <<m, i, p>> => x = <<m, i, q>>
  OBVIOUS
<1> QED BY <1>1, <1>2, <1>3

LEMMA ReturnItemIs ==
  ASSUME NEW s, NEW m, NEW row, NEW A, NEW total, Moving(s, m, row, A, total), NEW D, NEW u,
         Backed(s, u, m, row, A, D, total), NEW i \in A
  PROVE  Backed(s, ReturnItem(u, i, m, row), m, row, A, D \cup {i}, total)
<1>1. /\ D \in SUBSET A /\ u \in States /\ u.db = BackDb(s.db, m, D) /\ Logged(u, total)
      /\ u.pl = s.pl /\ u.house = s.house /\ u.aitems = s.aitems /\ u.past = s.past /\ u.cut = s.cut
  BY DEF Backed
<1>2. PICK K : K = D \cup {i}
  OBVIOUS
<1>3. K \in SUBSET A
  BY <1>1, <1>2
<1>4. /\ s.db \in Database /\ row = s.db.mail[m] /\ A \subseteq Item
      /\ Back(s.db, m, row, A, D, u.db) /\ Back(s.db, m, row, A, K, BackDb(s.db, m, K))
  <2>1. Back(s.db, m, row, A, D, BackDb(s.db, m, D)) /\ A \subseteq Item
    BY <1>1, MovingBack
  <2>2. Back(s.db, m, row, A, K, BackDb(s.db, m, K))
    BY <1>3, MovingBack
  <2> QED BY <1>1, <2>1, <2>2 DEF Back
<1>5. PICK att, p, q : att = s.db.attached /\ p = row.receiver /\ q = row.sender
  OBVIOUS
<1>6. BackAs(s.db, m, row, A, D, u.db) /\ BackAs(s.db, m, row, A, K, BackDb(s.db, m, K))
  BY <1>4, BackIs
<1>7. PICK d : d = [u.db EXCEPT !.attached = (u.db.attached \ {<<m, i, p>>}) \cup {<<m, i, q>>}]
  OBVIOUS
<1>8. d = BackDb(s.db, m, K)
  <2>1. BackDb(s.db, m, K) = [s.db EXCEPT !.mail = [s.db.mail EXCEPT ![m] = BackRow(row)],
                                          !.attached = Swap(att, m, p, q, K)]
    BY <1>4, <1>5, Zenon DEF BackDb
  <2>2. u.db = [s.db EXCEPT !.mail = [s.db.mail EXCEPT ![m] = BackRow(row)],
                            !.attached = Swap(att, m, p, q, D)]
    BY <1>1, <1>4, <1>5, Zenon DEF BackDb
  <2>3. u.db.attached = Swap(att, m, p, q, D)
    BY <1>4, <2>2 DEF Database
  <2>4. d = [u.db EXCEPT !.attached = Swap(att, m, p, q, K)]
    <3>1. SwapItem(Swap(att, m, p, q, D), m, p, q, i) = Swap(att, m, p, q, K)
      BY <1>2, SwapOne
    <3> QED BY <1>7, <2>3, <3>1, Zenon DEF SwapItem
  <2> QED BY <1>4, <2>1, <2>2, <2>4 DEF Database
<1>9. d \in Database
  BY <1>6, <1>8 DEF BackAs
<1>10. PICK v : v = [u EXCEPT !.db = d]
  OBVIOUS
<1>11. /\ v \in States /\ v.db = d /\ v.txs = u.txs /\ v.pl = u.pl /\ v.house = u.house
       /\ v.aitems = u.aitems /\ v.past = u.past /\ v.cut = u.cut
  BY <1>1, <1>9, <1>10 DEF States
<1>12. Backed(s, v, m, row, A, K, total)
  <2>1. Logged(v, total)
    BY <1>1, <1>11, LoggedSame
  <2> QED BY <1>1, <1>3, <1>8, <1>11, <2>1 DEF Backed
<1>13. PICK open : open = Attached(u.db, m, p) \ {i}
  OBVIOUS
<1>14. ReturnItem(u, i, m, row) = Commit(v, open)
  BY <1>1, <1>5, <1>7, <1>10, <1>13 DEF ReturnItem
<1>15. open \in SUBSET Thing /\ A \ K \subseteq open
  <2>1. open \subseteq Item
    <3>1. u.db \in Database
      BY <1>6 DEF BackAs
    <3> QED BY <1>13, <3>1, DatabaseFields DEF Attached
  <2>2. ASSUME NEW j \in A \ K PROVE j \in open
    <3>1. j \in A /\ j \in Item /\ j # i /\ j \notin D
      BY <1>2, <1>4
    <3>2. Posted(s.db, m, j, p) /\ j \in s.db.instance /\ p \in Player /\ m \in Mail
      BY <1>4, <1>5, <1>6, <3>1, Zenon DEF BackAs, Back
    <3>3. Posted(u.db, m, j, p) /\ j \in u.db.instance
      BY <1>5, <1>6, <3>1, <3>2 DEF BackAs
    <3> QED BY <1>13, <3>1, <3>3 DEF Attached, Posted
  <2> QED BY <2>1, <2>2 DEF Thing
<1>16. Backed(s, ReturnItem(u, i, m, row), m, row, A, K, total)
  BY <1>12, <1>14, <1>15, BackedCommit
<1> QED BY <1>2, <1>16

\* The items of the first places S of q went back.
BackedBy(s, m, row, A, q, S, total) ==
    {x \in States : Backed(s, x, m, row, A, {q[k] : k \in S}, total)}

LEMMA BackedByMore ==
  ASSUME NEW s, NEW m, NEW row, NEW A, NEW total, Moving(s, m, row, A, total),
         NEW n \in Nat, NEW q \in [1 .. n -> A], NEW S \in SUBSET (1 .. n), NEW k \in 1 .. n,
         NEW x \in BackedBy(s, m, row, A, q, S, total),
         NEW i, i = q[k]
  PROVE  ReturnItem(x, i, m, row) \in BackedBy(s, m, row, A, q, S \cup {k}, total)
<1>1. PICK D, K : D = {q[j] : j \in S} /\ K = {q[j] : j \in S \cup {k}}
  OBVIOUS
<1>2. K = D \cup {i} /\ i \in A
  BY <1>1
<1>3. Backed(s, x, m, row, A, D, total)
  BY <1>1 DEF BackedBy
<1>4. Backed(s, ReturnItem(x, i, m, row), m, row, A, K, total)
  <2>1. Backed(s, ReturnItem(x, i, m, row), m, row, A, D \cup {i}, total)
    BY <1>2, <1>3, ReturnItemIs
  <2> QED BY <1>2, <2>1
<1>5. ReturnItem(x, i, m, row) \in States
  BY <1>4 DEF Backed
<1> QED BY <1>1, <1>4, <1>5 DEF BackedBy

LEMMA ReturnedIs ==
  ASSUME NEW s, NEW m, NEW total,
         Moving(s, m, s.db.mail[m], Attached(s.db, m, s.db.mail[m].receiver), total)
  PROVE  Backed(s, Returned(s, m), m, s.db.mail[m], Attached(s.db, m, s.db.mail[m].receiver),
                Attached(s.db, m, s.db.mail[m].receiver), total)
<1> DEFINE row == s.db.mail[m]
           A == Attached(s.db, m, row.receiver)
           n == Cardinality(A)
           q == SetToSeq(A)
           B == ReturnFirst(s, m, row)
           Step(u, i) == ReturnItem(u, i, m, row)
           E(f) == f = [S \in SUBSET (1 .. n) |-> IF S = {} THEN B
                                                  ELSE Step(f[S \ {Max(S)}], q[Max(S)])]
           it == CHOOSE f : E(f)
           F == [z \in (1 .. n) \X States |-> Step(z[2], q[z[1]])]
           ST == [S \in SUBSET (1 .. n) |-> BackedBy(s, m, row, A, q, S, total)]
           SK == [k \in 0 .. n |-> BackedBy(s, m, row, A, q, 1 .. k, total)]
<1>1. /\ n \in Nat /\ q \in [1 .. n -> A] /\ DOMAIN q = 1 .. n
      /\ \A i \in A : \E k \in 1 .. n : q[k] = i
  <2>1. A \in SUBSET Item
    <3>1. {} \in SUBSET A
      OBVIOUS
    <3> QED BY <3>1, MovingBack
  <2> QED BY <2>1, SeqIsAll
<1>2. PICK c : c = Returned(s, m)
  OBVIOUS
<1>3. Moving(s, m, row, A, total)
  OBVIOUS
<1>4. c = it[1 .. n]
  BY <1>1, <1>2, Zenon DEF Returned, ReturnFirst, ReturnItem, FoldLeft, MapThenFoldSet
<1> HIDE DEF n, q, B, A, row
<1>5. ASSUME NEW S \in SUBSET (1 .. n), NEW x \in BackedBy(s, m, row, A, q, S, total), NEW k \in 1 .. n
      PROVE  Step(x, q[k]) \in BackedBy(s, m, row, A, q, S \cup {k}, total)
  BY <1>1, <1>3, BackedByMore
<1>6. B \in BackedBy(s, m, row, A, q, {}, total)
  <2>1. Backed(s, B, m, row, A, {}, total)
    BY <1>3, ReturnFirstIs DEF B
  <2>2. {q[k] : k \in {}} = {}
    OBVIOUS
  <2>3. B \in States
    BY <2>1 DEF Backed
  <2> QED BY <2>1, <2>2, <2>3 DEF BackedBy
<1>7. \A S \in SUBSET (1 .. n) :
         ST[S] = BackedBy(s, m, row, A, q, S, total) /\ ST[S] \subseteq States
  BY DEF BackedBy
<1>8. ASSUME NEW k \in 1 .. n, NEW x \in States PROVE F[<<k, x>>] = Step(x, q[k])
  <2> HIDE DEF Step
  <2> QED OBVIOUS
<1>9. PICK h : Folds2(h, F, B, n) /\ \A S \in SUBSET (1 .. n) : h[S] \in ST[S]
  <2>1. B \in ST[{}]
    BY <1>6
  <2>2. ASSUME NEW S \in SUBSET (1 .. n), NEW k \in 1 .. n, \A y \in S : y < k, NEW x \in ST[S]
        PROVE  F[<<k, x>>] \in ST[S \cup {k}]
    <3>1. S \cup {k} \in SUBSET (1 .. n)
      OBVIOUS
    <3>2. x \in BackedBy(s, m, row, A, q, S, total) /\ x \in States
      <4> HIDE DEF ST
      <4> QED BY <1>7
    <3>3. Step(x, q[k]) \in BackedBy(s, m, row, A, q, S \cup {k}, total)
      <4> HIDE DEF Step
      <4> QED BY <1>5, <3>2
    <3>4. F[<<k, x>>] = Step(x, q[k])
      <4> HIDE DEF Step, F
      <4> QED BY <1>8, <3>2
    <3> HIDE DEF F, Step, ST
    <3> QED BY <1>7, <3>1, <3>3, <3>4
  <2> HIDE DEF F, ST
  <2> QED BY <1>1, <2>1, <2>2, FoldFits
<1> DEFINE g == [S \in SUBSET (1 .. n) |-> h[S]]
<1>10. E(g)
  <2> SUFFICES ASSUME NEW S \in SUBSET (1 .. n)
               PROVE  h[S] = IF S = {} THEN B ELSE Step(h[S \ {Max(S)}], q[Max(S)])
    <3>1. ASSUME NEW S \in SUBSET (1 .. n), S # {} PROVE g[S \ {Max(S)}] = h[S \ {Max(S)}]
      OBVIOUS
    <3> HIDE DEF Step
    <3> QED BY <3>1
  <2>1. h[S] = IF S = {} THEN B ELSE F[<<Max(S), h[S \ {Max(S)}]>>]
    BY <1>9 DEF Folds2
  <2>2. S # {} => Max(S) \in 1 .. n /\ h[S \ {Max(S)}] \in States
    <3>1. S # {} => Max(S) \in S /\ S \ {Max(S)} \in SUBSET (1 .. n)
      BY <1>1, MaxOfPart
    <3> HIDE DEF ST
    <3> QED BY <1>7, <1>9, <3>1
  <2> HIDE DEF F, Step
  <2> QED BY <1>8, <2>1, <2>2
<1>11. E(it)
  <2> HIDE DEF E
  <2> QED BY <1>10
<1>12. \A S \in SUBSET (1 .. n) : it[S] = IF S = {} THEN B ELSE Step(it[S \ {Max(S)}], q[Max(S)])
  <2> HIDE DEF it, Step
  <2> QED BY <1>11
<1> HIDE DEF it
<1>13. it[{}] \in SK[0]
  <2>1. it[{}] = B /\ 1 .. 0 = {} /\ 0 \in 0 .. n
    <3>1. {} \in SUBSET (1 .. n)
      OBVIOUS
    <3>2. it[{}] = B
      <4> HIDE DEF Step
      <4> QED BY <1>12, <3>1
    <3> QED BY <1>1, <3>2
  <2> QED BY <1>6, <2>1
<1>14. ASSUME NEW k \in 1 .. n, Max(1 .. k) = k, (1 .. k) \ {k} = 1 .. k - 1, it[1 .. k - 1] \in SK[k - 1]
       PROVE  it[1 .. k] \in SK[k]
  <2>1. /\ 1 .. k \in SUBSET (1 .. n) /\ 1 .. k # {} /\ 1 .. k - 1 \in SUBSET (1 .. n)
        /\ (1 .. k - 1) \cup {k} = 1 .. k
    BY <1>1, PrefixFacts
  <2>2. k - 1 \in 0 .. n /\ k \in 0 .. n
    BY <1>1
  <2>3. it[1 .. k] = Step(it[1 .. k - 1], q[k])
    <3> HIDE DEF Step
    <3> QED BY <1>12, <1>14, <2>1
  <2>4. it[1 .. k - 1] \in BackedBy(s, m, row, A, q, 1 .. k - 1, total)
    BY <1>14, <2>2
  <2>5. it[1 .. k] \in BackedBy(s, m, row, A, q, (1 .. k - 1) \cup {k}, total)
    <3> HIDE DEF Step
    <3> QED BY <1>5, <2>1, <2>3, <2>4
  <2> QED BY <2>1, <2>2, <2>5
<1>15. it[1 .. n] \in SK[n]
  <2> HIDE DEF SK
  <2> QED BY <1>1, <1>13, <1>14, FoldHolds
<1>16. c \in BackedBy(s, m, row, A, q, 1 .. n, total)
  BY <1>1, <1>4, <1>15
<1>17. {q[k] : k \in 1 .. n} = A
  BY <1>1
<1>18. Backed(s, Returned(s, m), m, row, A, A, total)
  BY <1>2, <1>16, <1>17 DEF BackedBy
<1> QED BY <1>18 DEF A, row

\* Who has the mail m in memory, and is not to have it any more, has it by half.
Halved(s, m, p) ==
    p \in InMemory(s) /\ m \in DOMAIN s.pl[p].mails => Held(s.pl[p].mails[m]) \subseteq s.cut

LEMMA ReturnedKeeps ==
  ASSUME NEW s, NEW m, NEW row, NEW A, NEW total, Moving(s, m, row, A, total), Enough(s), A # {},
         Halved(s, m, row.receiver),
         NEW t, t = Returned(s, m)
  PROVE  Kept(t, total) /\ Enough(t) /\ MailStep(s, t, m)
<1>1. /\ t \in States /\ t.db = BackDb(s.db, m, A) /\ Logged(t, total)
      /\ t.pl = s.pl /\ t.house = s.house /\ t.aitems = s.aitems /\ t.past = s.past /\ t.cut = s.cut
  <2>1. Moving(s, m, s.db.mail[m], Attached(s.db, m, s.db.mail[m].receiver), total)
    BY Zenon DEF Moving
  <2>2. Backed(s, Returned(s, m), m, s.db.mail[m], Attached(s.db, m, s.db.mail[m].receiver),
               Attached(s.db, m, s.db.mail[m].receiver), total)
    BY <2>1, ReturnedIs
  <2>3. Backed(s, t, m, row, A, A, total)
    BY <2>2, Zenon DEF Moving
  <2> QED BY <2>3 DEF Backed
<1>2. /\ Kept(s, total) /\ s \in States /\ m \in Mail /\ row = s.db.mail[m] /\ row # None
      /\ A = Attached(s.db, m, row.receiver) /\ A \subseteq Item /\ Back(s.db, m, row, A, A, t.db)
      /\ total \in Int
  <2>1. A \in SUBSET A
    OBVIOUS
  <2>2. Back(s.db, m, row, A, A, BackDb(s.db, m, A)) /\ s \in States /\ A \subseteq Item
    BY <2>1, MovingBack
  <2> QED BY <1>1, <2>2 DEF Moving, Kept, Ledger
<1>3. BackAs(s.db, m, row, A, A, t.db)
  BY <1>2, BackIs
<1>4. Ledger(t, {}, 0, total)
  <2>1. PICK N, e, x : N = {} /\ e = t.db /\ x = [db |-> e, past |-> s.past, open |-> N]
    OBVIOUS
  <2>2. Kept(s, total) /\ Back(s.db, m, row, A, A, e) /\ N \in SUBSET Thing /\ A \ A \subseteq N
    BY <1>2, <2>1
  <2>3. LET y == [db |-> e, past |-> s.past, open |-> N] IN
        y \in Transaction /\ TxInv(y, s.cut, total)
    BY ONLY <2>2, BackTx
  <2>4. TxInv(x, s.cut, total) /\ x.db = t.db /\ x.past = t.past /\ x.open = {}
    BY <1>1, <2>1, <2>3
  <2>5. MoneyIn(t.db, t.past) \in Nat
    BY <1>1, StateFields, MoneyIs
  <2> QED BY <1>1, <1>2, <2>4, <2>5 DEF TxInv, Ledger
<1>5. ASSUME NEW q \in InMemory(s), m \in DOMAIN s.pl[q].mails
      PROVE  Stale(t.db, s.pl[q].mails[m], m, s.cut)
  <2>1. MailInv(s.db, s.cut, s.pl[q].mails[m], m, q)
    BY <1>2, <1>5 DEF Kept, PlayerInv, BoxInv
  <2>2. CASE Fresh(s.db, s.pl[q].mails[m], m, q)
    <3>1. q = row.receiver /\ s.pl[q].mails[m].items = A
      BY <1>2, <2>2 DEF Fresh
    <3>2. Held(s.pl[q].mails[m]) \subseteq s.cut
      BY <1>5, <3>1 DEF Halved
    <3> QED BY <3>1, <3>2 DEF Held, Stale
  <2>3. CASE Stale(s.db, s.pl[q].mails[m], m, s.cut)
    BY <1>2, <2>3 DEF Stale
  <2> QED BY <2>1, <2>2, <2>3 DEF MailInv
<1>6. ASSUME InMemory(s) # {} PROVE AllClean(t.db)
  <2> SUFFICES ASSUME NEW i \in Item PROVE Clean(t.db, i)
    BY DEF AllClean
  <2>1. Clean(s.db, i)
    BY <1>2, <1>6 DEF Kept, AllClean
  <2>2. /\ i \notin A => SameItem(s.db, t.db, i)
        /\ i \in A => Exact(t.db, i)
    BY <1>2, <2>1, BackItems
  <2> QED BY <2>1, <2>2, SameItemKept DEF Exact
<1>7. ASSUME NEW n \in Mail, NEW q \in Player, n # m
      PROVE  Attached(t.db, n, q) = Attached(s.db, n, q)
  <2>1. t.db.instance = s.db.instance /\ s.db.instance \subseteq Item
    BY <1>2, <1>3, StateFields, DatabaseFields DEF BackAs
  <2>2. \A i \in Item : Posted(t.db, n, i, q) <=> Posted(s.db, n, i, q)
    BY <1>3, <1>7 DEF BackAs
  <2> QED BY <2>1, <2>2 DEF Attached, Posted
<1>8. MailStep(s, t, m)
  BY <1>1, <1>3, <1>5, <1>6, <1>7 DEF MailStep, BackAs
<1>9. Kept(t, total)
  BY <1>2, <1>4, <1>8, MailStepKeeps
<1>10. Enough(t)
  BY <1>2, <1>8, MailStepEnough
<1> QED BY <1>8, <1>9, <1>10

-----------------------------------------------------------------------------
(* A mail is deleted *)

\* The tables without the items D, with the mails f.
LessDb(d, D, f) ==
    [d EXCEPT !.instance = d.instance \ D, !.attached = {x \in d.attached : x[2] \notin D}, !.mail = f]

\* e is d without the items D of the mail m, and without the mail if these are all it had.
Less(d, m, row, A, D, f, e) ==
    /\ d \in Database /\ m \in Mail /\ row = d.mail[m] /\ row # None
    /\ A = Attached(d, m, row.receiver) /\ D \in SUBSET A /\ e = LessDb(d, D, f)
    /\ f \in [Mail -> MailRow \cup {None}] /\ \A n \in Mail : n # m => f[n] = d.mail[n]
    /\ f[m] = row \/ (f[m] = None /\ D = A)
LessAs(d, m, row, A, D, f, e) ==
    /\ e \in Database /\ e.gold = d.gold /\ e.inventory = d.inventory /\ e.auction = d.auction
    /\ e.mail = f /\ e.instance = d.instance \ D /\ A \subseteq Item
    /\ \A n \in Mail, i \in Item, r \in Player : Posted(e, n, i, r) <=> Posted(d, n, i, r) /\ i \notin D
    /\ row.receiver \in Player /\ \A i \in A : Posted(d, m, i, row.receiver)

LEMMA LessIs ==
  ASSUME NEW d, NEW m, NEW row, NEW A, NEW D, NEW f, NEW e, Less(d, m, row, A, D, f, e)
  PROVE  LessAs(d, m, row, A, D, f, e)
<1>1. /\ d \in Database /\ m \in Mail /\ row = d.mail[m] /\ row # None
      /\ A = Attached(d, m, row.receiver) /\ D \in SUBSET A /\ e = LessDb(d, D, f)
      /\ f \in [Mail -> MailRow \cup {None}]
  BY DEF Less
<1>2. /\ d.mail \in [Mail -> MailRow \cup {None}] /\ d.attached \in SUBSET (Mail \X Item \X Player)
      /\ d.instance \in SUBSET Item
  BY <1>1, DatabaseFields
<1>3. row.receiver \in Player
  <2>1. row \in MailRow
    BY <1>1, <1>2
  <2> QED BY <2>1 DEF MailRow
<1>4. PICK att, ins : att = {x \in d.attached : x[2] \notin D} /\ ins = d.instance \ D
  OBVIOUS
<1>5. att \in SUBSET (Mail \X Item \X Player) /\ ins \in SUBSET Item
  BY <1>2, <1>4
<1>6. e = [d EXCEPT !.instance = ins, !.attached = att, !.mail = f]
  BY <1>1, <1>4, Zenon DEF LessDb
<1>7. /\ e \in Database /\ e.gold = d.gold /\ e.inventory = d.inventory /\ e.auction = d.auction
      /\ e.mail = f /\ e.instance = ins /\ e.attached = att
  BY <1>1, <1>5, <1>6 DEF Database
<1>8. A \subseteq Item /\ \A i \in A : Posted(d, m, i, row.receiver)
  BY <1>1, <1>2 DEF Attached, Posted
<1>9. ASSUME NEW n \in Mail, NEW i \in Item, NEW r \in Player
      PROVE  Posted(e, n, i, r) <=> Posted(d, n, i, r) /\ i \notin D
  BY <1>4, <1>7 DEF Posted
<1> QED BY <1>3, <1>4, <1>7, <1>8, <1>9 DEF LessAs

LEMMA LessItems ==
  ASSUME NEW d, NEW m, NEW row, NEW A, NEW D, NEW f, NEW e, Less(d, m, row, A, D, f, e),
         NEW i \in Item, Clean(d, i)
  PROVE  /\ i \notin D => SameItem(d, e, i)
         /\ i \in D => Exact(e, i)
<1>1. /\ d \in Database /\ m \in Mail /\ row = d.mail[m] /\ row # None
      /\ A = Attached(d, m, row.receiver) /\ D \in SUBSET A
      /\ \A n \in Mail : n # m => f[n] = d.mail[n]
      /\ f[m] = row \/ (f[m] = None /\ D = A)
  BY DEF Less
<1>2. LessAs(d, m, row, A, D, f, e)
  BY LessIs
<1>3. \A n \in Mail, r \in Player : Posted(d, n, i, r) => /\ d.mail[n] # None
                                                         /\ d.mail[n].receiver = r
                                                         /\ i \in d.instance
  BY DEF Clean
<1>4. ASSUME i \notin D PROVE SameItem(d, e, i)
  <2>1. \A n \in Mail, r \in Player : Posted(e, n, i, r) <=> Posted(d, n, i, r)
    BY <1>2, <1>4 DEF LessAs
  <2>2. ASSUME NEW n \in Mail, NEW r \in Player, Posted(d, n, i, r)
        PROVE  e.mail[n] = d.mail[n]
    <3>1. n = m => i \in A
      BY <1>1, <1>3, <2>2 DEF Attached, Posted
    <3>2. e.mail = f
      BY <1>2 DEF LessAs
    <3> QED BY <1>1, <1>4, <3>1, <3>2
  <2>3. e.inventory = d.inventory /\ e.auction = d.auction /\ e.instance = d.instance \ D
    BY <1>2 DEF LessAs
  <2> QED BY <1>4, <2>1, <2>2, <2>3 DEF SameItem, Sells
<1>5. ASSUME i \in D PROVE Exact(e, i)
  <2>1. Posted(d, m, i, row.receiver) /\ row.receiver \in Player
    BY <1>1, <1>2, <1>5 DEF LessAs
  <2>2. d.inventory[i] = None /\ \A a \in Auction : ~Sells(d, a, i)
    BY <1>1, <2>1 DEF Clean
  <2>3. /\ e.inventory[i] = None /\ \A a \in Auction : ~Sells(e, a, i)
        /\ i \notin e.instance /\ \A n \in Mail, r \in Player : ~Posted(e, n, i, r)
    BY <1>2, <1>5, <2>2 DEF LessAs, Sells
  <2> QED BY <2>3 DEF Exact, Clean
<1> QED BY <1>4, <1>5

\* The mail m with the items A is to be deleted, and the money in it too.
Draining(s, m, row, A, total) ==
    /\ Kept(s, total) /\ m \in Mail /\ row = s.db.mail[m] /\ row # None
    /\ A = Attached(s.db, m, row.receiver)

\* What is stored while a mail is deleted; its money is in the history h.
LEMMA LessTx ==
  ASSUME NEW s, NEW total, NEW m, NEW row, NEW A, Draining(s, m, row, A, total), NEW D, NEW f, NEW e,
         Less(s.db, m, row, A, D, f, e),
         NEW h \in Past, h.won = s.past.won, h.late = s.past.late,
         h.money + LetterWorth(f[m]) = s.past.money + LetterWorth(row),
         NEW open, open = {}
  PROVE  LET x == [db |-> e, past |-> h, open |-> open] IN
         x \in Transaction /\ TxInv(x, s.cut, total)
<1>1. /\ s \in States /\ s.db \in Database /\ s.past \in Past
      /\ DbInv(s.db) /\ WonInv(s.db, s.past)
      /\ \A i \in Item \ s.cut : Exact(s.db, i)
      /\ "money" \notin s.cut => MoneyIn(s.db, s.past) + 0 = total
  <2>1. Ledger(s, {}, 0, total)
    BY DEF Kept, Draining
  <2> QED BY <2>1, StateFields DEF Ledger
<1>2. /\ LessAs(s.db, m, row, A, D, f, e) /\ m \in Mail /\ row = s.db.mail[m]
      /\ f[m] = row \/ f[m] = None
      /\ \A n \in Mail : n # m => f[n] = s.db.mail[n]
      /\ f \in [Mail -> MailRow \cup {None}]
  BY LessIs DEF Less
<1>3. DbInv(e)
  <2>1. \A a \in Auction, i \in Item : Sells(e, a, i) <=> Sells(s.db, a, i)
    BY <1>2 DEF LessAs, Sells
  <2>2. \A n \in Mail : e.mail[n] # None => MailRowInv(e.mail[n])
    BY <1>1, <1>2 DEF LessAs, DbInv
  <2> QED BY <1>1, <1>2, <2>1, <2>2 DEF LessAs, DbInv
<1>4. WonInv(e, h)
  BY <1>1, <1>2 DEF LessAs, WonInv
<1>5. ASSUME NEW i \in Item \ (s.cut \cup open) PROVE Exact(e, i)
  <2>1. Exact(s.db, i) /\ Clean(s.db, i)
    BY <1>1 DEF Exact
  <2>2. i \notin D => SameItem(s.db, e, i)
    BY <2>1, LessItems
  <2>3. i \in D => Exact(e, i)
    BY <2>1, LessItems
  <2> QED BY <2>1, <2>2, <2>3, SameItemKept
<1>6. MoneyIn(e, h) = MoneyIn(s.db, s.past) /\ MoneyIn(e, h) \in Nat
  <2>1. e \in Database /\ e.gold = s.db.gold /\ e.auction = s.db.auction
        /\ \A n \in Mail : n # m => e.mail[n] = s.db.mail[n]
    BY <1>2 DEF LessAs
  <2>2. LetterOf(e) = LetterOf(s.db) - LetterWorth(s.db.mail[m]) + LetterWorth(e.mail[m])
    BY <1>1, <1>2, <2>1, LetterChanged
  <2>3. e.mail[m] = f[m] /\ LetterWorth(s.db.mail[m]) \in Nat /\ LetterWorth(e.mail[m]) \in Nat
    BY <1>1, <1>2, <2>1, WorthIs DEF LessAs
  <2>4. GoldOf(e) = GoldOf(s.db) /\ DepositOf(e) = DepositOf(s.db)
    BY <2>1, SameMoney
  <2>5. /\ MoneyIn(e, h) = h.money + GoldOf(e) + DepositOf(e) + LetterOf(e)
        /\ MoneyIn(s.db, s.past) = s.past.money + GoldOf(s.db) + DepositOf(s.db) + LetterOf(s.db)
        /\ GoldOf(e) \in Nat /\ DepositOf(e) \in Nat /\ LetterOf(e) \in Nat /\ h.money \in Nat
        /\ LetterOf(s.db) \in Nat /\ s.past.money \in Nat
    BY <1>1, <2>1, MoneyIs
  <2> QED BY <1>2, <2>2, <2>3, <2>4, <2>5
<1>7. "money" \notin s.cut => MoneyIn(e, h) = total
  BY <1>1, <1>6
<1>8. PICK x : x = [db |-> e, past |-> h, open |-> open]
  OBVIOUS
<1>9. x \in Transaction /\ x.db = e /\ x.past = h /\ x.open = open
  BY <1>2, <1>8 DEF Transaction, LessAs
<1>10. TxInv(x, s.cut, total)
  BY <1>3, <1>4, <1>5, <1>7, <1>9 DEF TxInv
<1> QED BY <1>8, <1>9, <1>10

\* Of the items of the mail those of D are deleted; the mails are f, and the history h.
Drained(s, x, m, row, A, D, f, h, total) ==
    /\ Less(s.db, m, row, A, D, f, x.db) /\ x \in States /\ Logged(x, total)
    /\ h \in Past /\ h.won = s.past.won /\ h.late = s.past.late
    /\ h.money + LetterWorth(f[m]) = s.past.money + LetterWorth(row)
    /\ x.pl = s.pl /\ x.house = s.house /\ x.aitems = s.aitems /\ x.past = h /\ x.cut = s.cut

LEMMA DrainedCommit ==
  ASSUME NEW s, NEW m, NEW row, NEW A, NEW total, Draining(s, m, row, A, total), NEW D, NEW f, NEW h,
         NEW v, Drained(s, v, m, row, A, D, f, h, total), NEW open, open = {},
         NEW t, t = Commit(v, open)
  PROVE  Drained(s, t, m, row, A, D, f, h, total) /\ Ledger(t, {}, 0, total)
<1>1. /\ Less(s.db, m, row, A, D, f, v.db) /\ v \in States /\ Logged(v, total)
      /\ v.past = h /\ v.cut = s.cut /\ open \in SUBSET Thing
  BY DEF Drained
<1>2. PICK e, x : e = v.db /\ x = [db |-> e, past |-> h, open |-> open]
  OBVIOUS
<1>3. x \in Transaction /\ TxInv(x, v.cut, total)
  <2>1. /\ Draining(s, m, row, A, total) /\ Less(s.db, m, row, A, D, f, e)
        /\ h \in Past /\ h.won = s.past.won /\ h.late = s.past.late
        /\ h.money + LetterWorth(f[m]) = s.past.money + LetterWorth(row) /\ open = {}
    BY <1>1, <1>2 DEF Drained
  <2>2. LET y == [db |-> e, past |-> h, open |-> open] IN
        y \in Transaction /\ TxInv(y, s.cut, total)
    BY ONLY <2>1, LessTx
  <2> QED BY <1>1, <1>2, <2>2
<1>4. /\ t \in States /\ t.db = v.db /\ t.pl = v.pl /\ t.house = v.house /\ t.aitems = v.aitems
      /\ t.past = v.past /\ t.cut = v.cut /\ t.txs = Append(v.txs, x)
  BY <1>1, <1>2, CommitIs
<1>5. Logged(t, total)
  BY <1>1, <1>3, <1>4, LoggedMore
<1>6. Drained(s, t, m, row, A, D, f, h, total)
  BY <1>4, <1>5 DEF Drained
<1>7. Ledger(t, {}, 0, total)
  <2>1. TxInv(x, t.cut, total) /\ x.db = t.db /\ x.past = t.past /\ x.open = {}
    BY <1>1, <1>2, <1>3, <1>4
  <2>2. MoneyIn(t.db, t.past) \in Nat
    BY <1>4, StateFields, MoneyIs
  <2>3. total \in Int
    BY DEF Draining, Kept, Ledger
  <2> QED BY <1>4, <1>5, <2>1, <2>2, <2>3 DEF TxInv, Ledger
<1> QED BY <1>6, <1>7

\* The statements of Deleted.
DeleteItem(u, i) ==
    Commit([u EXCEPT !.db.instance = @ \ {i}, !.db.attached = {x \in @ : x[2] # i}], {})
DeleteMail(u, m, money) == Commit([Spent(u, money) EXCEPT !.db.mail[m] = None], {})

LEMMA DroppingFields ==
  ASSUME NEW s, NEW m, NEW row, NEW A, NEW total, Draining(s, m, row, A, total)
  PROVE  /\ s \in States /\ s.db \in Database /\ s.past \in Past /\ Logged(s, total)
         /\ m \in Mail /\ row = s.db.mail[m] /\ row # None /\ row \in MailRow
         /\ s.db.mail \in [Mail -> MailRow \cup {None}]
         /\ A = Attached(s.db, m, row.receiver) /\ A \subseteq Item
<1>1. s \in States /\ s.db \in Database /\ Logged(s, total) /\ m \in Mail /\ row = s.db.mail[m]
      /\ row # None /\ A = Attached(s.db, m, row.receiver)
  BY KeptStates DEF Draining, Kept, Ledger
<1>2. s.past \in Past /\ s.db.mail \in [Mail -> MailRow \cup {None}] /\ s.db.instance \subseteq Item
  BY <1>1, StateFields, DatabaseFields
<1>3. row \in MailRow /\ A \subseteq Item
  BY <1>1, <1>2 DEF Attached
<1> QED BY <1>1, <1>2, <1>3

LEMMA DrainStart ==
  ASSUME NEW s, NEW m, NEW row, NEW A, NEW total, Draining(s, m, row, A, total), NEW D, D = {}
  PROVE  Drained(s, s, m, row, A, D, s.db.mail, s.past, total)
<1>1. /\ s \in States /\ s.db \in Database /\ s.past \in Past /\ Logged(s, total)
      /\ m \in Mail /\ row = s.db.mail[m] /\ row # None
      /\ s.db.mail \in [Mail -> MailRow \cup {None}]
      /\ A = Attached(s.db, m, row.receiver)
  BY DroppingFields
<1>2. s.db = LessDb(s.db, D, s.db.mail)
  <2>1. s.db.instance \ D = s.db.instance /\ {x \in s.db.attached : x[2] \notin D} = s.db.attached
    OBVIOUS
  <2>2. LessDb(s.db, D, s.db.mail)
          = [s.db EXCEPT !.instance = s.db.instance, !.attached = s.db.attached, !.mail = s.db.mail]
    BY <2>1, Zenon DEF LessDb
  <2> QED BY <1>1, <2>2 DEF Database
<1>3. Less(s.db, m, row, A, D, s.db.mail, s.db)
  <2>1. D \in SUBSET A
    OBVIOUS
  <2> QED BY <1>1, <1>2, <2>1 DEF Less
<1>4. s.past.money + LetterWorth(s.db.mail[m]) = s.past.money + LetterWorth(row)
  BY <1>1
<1> QED BY <1>1, <1>3, <1>4 DEF Drained

LEMMA DeleteItemIs ==
  ASSUME NEW s, NEW m, NEW row, NEW A, NEW total, Draining(s, m, row, A, total), NEW D, NEW u,
         Drained(s, u, m, row, A, D, s.db.mail, s.past, total), NEW i \in A
  PROVE  Drained(s, DeleteItem(u, i), m, row, A, D \cup {i}, s.db.mail, s.past, total)
<1>1. /\ u \in States /\ Less(s.db, m, row, A, D, s.db.mail, u.db) /\ Logged(u, total)
      /\ u.pl = s.pl /\ u.house = s.house /\ u.aitems = s.aitems /\ u.past = s.past /\ u.cut = s.cut
  BY DEF Drained
<1>2. /\ s.db \in Database /\ s.past \in Past /\ m \in Mail /\ row = s.db.mail[m] /\ row # None
      /\ s.db.mail \in [Mail -> MailRow \cup {None}] /\ A = Attached(s.db, m, row.receiver)
  BY DroppingFields
<1>3. PICK K, f : K = D \cup {i} /\ f = s.db.mail
  OBVIOUS
<1>4. PICK ins, att, d : /\ ins = u.db.instance \ {i} /\ att = {x \in u.db.attached : x[2] # i}
                         /\ d = [u.db EXCEPT !.instance = ins, !.attached = att]
  BY Zenon
<1>5. D \in SUBSET A /\ K \in SUBSET A /\ u.db = LessDb(s.db, D, f)
  BY <1>1, <1>3 DEF Less
<1>6. d = LessDb(s.db, K, f)
  <2>1. /\ u.db.instance = s.db.instance \ D /\ u.db.attached = {x \in s.db.attached : x[2] \notin D}
        /\ u.db.mail = f
    BY <1>2, <1>5 DEF LessDb, Database
  <2>2. ins = s.db.instance \ K /\ att = {x \in s.db.attached : x[2] \notin K}
    BY <1>3, <1>4, <2>1
  <2>3. LessDb(s.db, K, f) = [s.db EXCEPT !.instance = ins, !.attached = att, !.mail = f]
    BY <2>2, Zenon DEF LessDb
  <2>4. PICK in, at : u.db = [s.db EXCEPT !.instance = in, !.attached = at, !.mail = f]
    BY <1>5, Zenon DEF LessDb
  <2> QED BY <1>2, <1>4, <2>3, <2>4 DEF Database
<1>7. Less(s.db, m, row, A, K, f, d)
  BY <1>2, <1>3, <1>5, <1>6 DEF Less
<1>8. d \in Database
  BY <1>7, LessIs DEF LessAs
<1>9. PICK v : v = [u EXCEPT !.db = d]
  OBVIOUS
<1>10. /\ v \in States /\ v.db = d /\ v.txs = u.txs /\ v.pl = u.pl /\ v.house = u.house
       /\ v.aitems = u.aitems /\ v.past = u.past /\ v.cut = u.cut
  BY <1>1, <1>8, <1>9 DEF States
<1>11. Drained(s, v, m, row, A, K, f, s.past, total)
  <2>1. Logged(v, total)
    BY <1>1, <1>10, LoggedSame
  <2> QED BY <1>1, <1>2, <1>3, <1>7, <1>10, <2>1 DEF Drained
<1>12. DeleteItem(u, i) = Commit(v, {})
  BY <1>1, <1>4, <1>9 DEF DeleteItem
<1>13. Drained(s, DeleteItem(u, i), m, row, A, K, f, s.past, total)
  <2>1. PICK N : N = {}
    OBVIOUS
  <2>2. DeleteItem(u, i) = Commit(v, N)
    BY <1>12, <2>1
  <2> QED BY <1>11, <2>1, <2>2, DrainedCommit
<1> QED BY <1>3, <1>13

\* The items of the first places S of q are deleted.
DrainedBy(s, m, row, A, q, S, total) ==
    {x \in States : Drained(s, x, m, row, A, {q[k] : k \in S}, s.db.mail, s.past, total)}

LEMMA DrainedByMore ==
  ASSUME NEW s, NEW m, NEW row, NEW A, NEW total, Draining(s, m, row, A, total),
         NEW n \in Nat, NEW q \in [1 .. n -> A], NEW S \in SUBSET (1 .. n), NEW k \in 1 .. n,
         NEW x \in DrainedBy(s, m, row, A, q, S, total),
         NEW i, i = q[k]
  PROVE  DeleteItem(x, i) \in DrainedBy(s, m, row, A, q, S \cup {k}, total)
<1>1. PICK D, K : D = {q[j] : j \in S} /\ K = {q[j] : j \in S \cup {k}}
  OBVIOUS
<1>2. K = D \cup {i} /\ i \in A
  BY <1>1
<1>3. Drained(s, x, m, row, A, D, s.db.mail, s.past, total)
  BY <1>1 DEF DrainedBy
<1>4. Drained(s, DeleteItem(x, i), m, row, A, K, s.db.mail, s.past, total)
  <2>1. Drained(s, DeleteItem(x, i), m, row, A, D \cup {i}, s.db.mail, s.past, total)
    BY <1>2, <1>3, DeleteItemIs
  <2> QED BY <1>2, <2>1
<1>5. DeleteItem(x, i) \in States
  BY <1>4 DEF Drained
<1> QED BY <1>1, <1>4, <1>5 DEF DrainedBy

LEMMA DeletedIs ==
  ASSUME NEW s, NEW m, NEW total,
         Draining(s, m, s.db.mail[m], Attached(s.db, m, s.db.mail[m].receiver), total)
  PROVE  \E u : /\ Drained(s, u, m, s.db.mail[m], Attached(s.db, m, s.db.mail[m].receiver),
                           Attached(s.db, m, s.db.mail[m].receiver), s.db.mail, s.past, total)
               /\ Deleted(s, m) = DeleteMail(u, m, s.db.mail[m].money)
<1> DEFINE row == s.db.mail[m]
           A == Attached(s.db, m, row.receiver)
           n == Cardinality(A)
           q == SetToSeq(A)
           Step(u, i) == DeleteItem(u, i)
           E(f) == f = [S \in SUBSET (1 .. n) |-> IF S = {} THEN s
                                                  ELSE Step(f[S \ {Max(S)}], q[Max(S)])]
           it == CHOOSE f : E(f)
           F == [z \in (1 .. n) \X States |-> Step(z[2], q[z[1]])]
           ST == [S \in SUBSET (1 .. n) |-> DrainedBy(s, m, row, A, q, S, total)]
           SK == [k \in 0 .. n |-> DrainedBy(s, m, row, A, q, 1 .. k, total)]
<1>1. /\ n \in Nat /\ q \in [1 .. n -> A] /\ DOMAIN q = 1 .. n
      /\ \A i \in A : \E k \in 1 .. n : q[k] = i
  <2>1. A \in SUBSET Item
    BY DroppingFields
  <2> QED BY <2>1, SeqIsAll
<1>2. PICK c : /\ c = FoldLeft(LAMBDA u, i : Commit([u EXCEPT !.db.instance = @ \ {i},
                                                           !.db.attached = {x \in @ : x[2] # i}], {}),
                              s, SetToSeq(Attached(s.db, m, s.db.mail[m].receiver)))
               /\ Deleted(s, m) = DeleteMail(c, m, s.db.mail[m].money)
  BY Zenon DEF Deleted, DeleteMail
<1>3. Draining(s, m, row, A, total)
  OBVIOUS
<1>4. c = it[1 .. n]
  BY <1>1, <1>2, Zenon DEF DeleteItem, FoldLeft, MapThenFoldSet
<1> HIDE DEF n, q, A, row
<1>5. ASSUME NEW S \in SUBSET (1 .. n), NEW x \in DrainedBy(s, m, row, A, q, S, total), NEW k \in 1 .. n
      PROVE  Step(x, q[k]) \in DrainedBy(s, m, row, A, q, S \cup {k}, total)
  BY <1>1, <1>3, DrainedByMore
<1>6. s \in DrainedBy(s, m, row, A, q, {}, total)
  <2>1. Drained(s, s, m, row, A, {}, s.db.mail, s.past, total)
    BY <1>3, DrainStart
  <2>2. {q[k] : k \in {}} = {}
    OBVIOUS
  <2>3. s \in States
    BY <2>1 DEF Drained
  <2> QED BY <2>1, <2>2, <2>3 DEF DrainedBy
<1>7. \A S \in SUBSET (1 .. n) :
         ST[S] = DrainedBy(s, m, row, A, q, S, total) /\ ST[S] \subseteq States
  BY DEF DrainedBy
<1>8. ASSUME NEW k \in 1 .. n, NEW x \in States PROVE F[<<k, x>>] = Step(x, q[k])
  <2> HIDE DEF Step
  <2> QED OBVIOUS
<1>9. PICK h : Folds2(h, F, s, n) /\ \A S \in SUBSET (1 .. n) : h[S] \in ST[S]
  <2>1. s \in ST[{}]
    BY <1>6
  <2>2. ASSUME NEW S \in SUBSET (1 .. n), NEW k \in 1 .. n, \A y \in S : y < k, NEW x \in ST[S]
        PROVE  F[<<k, x>>] \in ST[S \cup {k}]
    <3>1. S \cup {k} \in SUBSET (1 .. n)
      OBVIOUS
    <3>2. x \in DrainedBy(s, m, row, A, q, S, total) /\ x \in States
      <4> HIDE DEF ST
      <4> QED BY <1>7
    <3>3. Step(x, q[k]) \in DrainedBy(s, m, row, A, q, S \cup {k}, total)
      <4> HIDE DEF Step
      <4> QED BY <1>5, <3>2
    <3>4. F[<<k, x>>] = Step(x, q[k])
      <4> HIDE DEF Step, F
      <4> QED BY <1>8, <3>2
    <3> HIDE DEF F, Step, ST
    <3> QED BY <1>7, <3>1, <3>3, <3>4
  <2> HIDE DEF F, ST
  <2> QED BY <1>1, <2>1, <2>2, FoldFits
<1> DEFINE g == [S \in SUBSET (1 .. n) |-> h[S]]
<1>10. E(g)
  <2> SUFFICES ASSUME NEW S \in SUBSET (1 .. n)
               PROVE  h[S] = IF S = {} THEN s ELSE Step(h[S \ {Max(S)}], q[Max(S)])
    <3>1. ASSUME NEW S \in SUBSET (1 .. n), S # {} PROVE g[S \ {Max(S)}] = h[S \ {Max(S)}]
      OBVIOUS
    <3> HIDE DEF Step
    <3> QED BY <3>1
  <2>1. h[S] = IF S = {} THEN s ELSE F[<<Max(S), h[S \ {Max(S)}]>>]
    BY <1>9 DEF Folds2
  <2>2. S # {} => Max(S) \in 1 .. n /\ h[S \ {Max(S)}] \in States
    <3>1. S # {} => Max(S) \in S /\ S \ {Max(S)} \in SUBSET (1 .. n)
      BY <1>1, MaxOfPart
    <3> HIDE DEF ST
    <3> QED BY <1>7, <1>9, <3>1
  <2> HIDE DEF F, Step
  <2> QED BY <1>8, <2>1, <2>2
<1>11. E(it)
  <2> HIDE DEF E
  <2> QED BY <1>10
<1>12. \A S \in SUBSET (1 .. n) : it[S] = IF S = {} THEN s ELSE Step(it[S \ {Max(S)}], q[Max(S)])
  <2> HIDE DEF it, Step
  <2> QED BY <1>11
<1> HIDE DEF it
<1>13. it[{}] \in SK[0]
  <2>1. it[{}] = s /\ 1 .. 0 = {} /\ 0 \in 0 .. n
    <3>1. {} \in SUBSET (1 .. n)
      OBVIOUS
    <3>2. it[{}] = s
      <4> HIDE DEF Step
      <4> QED BY <1>12, <3>1
    <3> QED BY <1>1, <3>2
  <2> QED BY <1>6, <2>1
<1>14. ASSUME NEW k \in 1 .. n, Max(1 .. k) = k, (1 .. k) \ {k} = 1 .. k - 1, it[1 .. k - 1] \in SK[k - 1]
       PROVE  it[1 .. k] \in SK[k]
  <2>1. /\ 1 .. k \in SUBSET (1 .. n) /\ 1 .. k # {} /\ 1 .. k - 1 \in SUBSET (1 .. n)
        /\ (1 .. k - 1) \cup {k} = 1 .. k
    BY <1>1, PrefixFacts
  <2>2. k - 1 \in 0 .. n /\ k \in 0 .. n
    BY <1>1
  <2>3. it[1 .. k] = Step(it[1 .. k - 1], q[k])
    <3> HIDE DEF Step
    <3> QED BY <1>12, <1>14, <2>1
  <2>4. it[1 .. k - 1] \in DrainedBy(s, m, row, A, q, 1 .. k - 1, total)
    BY <1>14, <2>2
  <2>5. it[1 .. k] \in DrainedBy(s, m, row, A, q, (1 .. k - 1) \cup {k}, total)
    <3> HIDE DEF Step
    <3> QED BY <1>5, <2>1, <2>3, <2>4
  <2> QED BY <2>1, <2>2, <2>5
<1>15. it[1 .. n] \in SK[n]
  <2> HIDE DEF SK
  <2> QED BY <1>1, <1>13, <1>14, FoldHolds
<1>16. c \in DrainedBy(s, m, row, A, q, 1 .. n, total)
  BY <1>1, <1>4, <1>15
<1>17. {q[k] : k \in 1 .. n} = A
  BY <1>1
<1>18. Drained(s, c, m, row, A, A, s.db.mail, s.past, total)
  BY <1>16, <1>17 DEF DrainedBy
<1> QED BY <1>2, <1>18, Zenon DEF A, row

LEMMA DeleteMailIs ==
  ASSUME NEW s, NEW m, NEW row, NEW A, NEW total, Draining(s, m, row, A, total), NEW u,
         Drained(s, u, m, row, A, A, s.db.mail, s.past, total),
         NEW t, t = DeleteMail(u, m, row.money)
  PROVE  \E f, h : /\ Drained(s, t, m, row, A, A, f, h, total) /\ Ledger(t, {}, 0, total)
                   /\ f[m] = None
<1>1. /\ u \in States /\ Less(s.db, m, row, A, A, s.db.mail, u.db) /\ Logged(u, total)
      /\ u.pl = s.pl /\ u.house = s.house /\ u.aitems = s.aitems /\ u.past = s.past /\ u.cut = s.cut
  BY DEF Drained
<1>2. /\ s.db \in Database /\ s.past \in Past /\ m \in Mail /\ row = s.db.mail[m] /\ row # None
      /\ row \in MailRow /\ s.db.mail \in [Mail -> MailRow \cup {None}]
      /\ A = Attached(s.db, m, row.receiver)
  BY DroppingFields
<1>3. row.money \in Nat
  BY <1>2 DEF MailRow
<1>4. PICK w, h, f, d : /\ w = Spent(u, row.money) /\ h = [s.past EXCEPT !.money = @ + row.money]
                        /\ f = [s.db.mail EXCEPT ![m] = None] /\ d = [u.db EXCEPT !.mail = f]
  OBVIOUS
<1>5. /\ w \in States /\ w.db = u.db /\ w.txs = u.txs /\ w.pl = u.pl /\ w.house = u.house
      /\ w.aitems = u.aitems /\ w.cut = u.cut /\ w.past = h
  BY <1>1, <1>3, <1>4, SpentIs
<1>6. h \in Past /\ h.money = s.past.money + row.money /\ h.won = s.past.won /\ h.late = s.past.late
  BY <1>2, <1>3, <1>4, PastMoney
<1>7. /\ f \in [Mail -> MailRow \cup {None}] /\ f[m] = None
      /\ \A n \in Mail : n # m => f[n] = s.db.mail[n]
  BY <1>2, <1>4
<1>8. h.money + LetterWorth(f[m]) = s.past.money + LetterWorth(row)
  <2>1. LetterWorth(f[m]) = 0 /\ LetterWorth(row) = row.money /\ s.past.money \in Nat
    BY <1>2, <1>7 DEF LetterWorth, Past
  <2> QED BY <1>3, <1>6, <2>1
<1>9. u.db = LessDb(s.db, A, s.db.mail)
  BY <1>1 DEF Less
<1>10. d = LessDb(s.db, A, f)
  <2>1. PICK in, at : in = s.db.instance \ A /\ at = {x \in s.db.attached : x[2] \notin A}
    OBVIOUS
  <2>2. u.db = [s.db EXCEPT !.instance = in, !.attached = at, !.mail = s.db.mail]
    BY <1>9, <2>1, Zenon DEF LessDb
  <2>3. LessDb(s.db, A, f) = [s.db EXCEPT !.instance = in, !.attached = at, !.mail = f]
    BY <2>1, Zenon DEF LessDb
  <2> QED BY <1>2, <1>4, <2>2, <2>3 DEF Database
<1>11. Less(s.db, m, row, A, A, f, d)
  <2>1. A \in SUBSET A
    OBVIOUS
  <2> QED BY <1>2, <1>7, <1>10, <2>1 DEF Less
<1>12. d \in Database
  BY <1>11, LessIs DEF LessAs
<1>13. PICK v : v = [w EXCEPT !.db = d]
  OBVIOUS
<1>14. /\ v \in States /\ v.db = d /\ v.txs = w.txs /\ v.pl = w.pl /\ v.house = w.house
       /\ v.aitems = w.aitems /\ v.past = w.past /\ v.cut = w.cut
  BY <1>5, <1>12, <1>13 DEF States
<1>15. Drained(s, v, m, row, A, A, f, h, total)
  <2>1. Logged(v, total)
    BY <1>1, <1>5, <1>14, LoggedSame
  <2> QED BY <1>1, <1>5, <1>6, <1>8, <1>11, <1>14, <2>1 DEF Drained
<1>16. PICK N : N = {}
  OBVIOUS
<1>17. t = Commit(v, N)
  <2>1. u.db.mail = s.db.mail
    BY <1>2, <1>9 DEF LessDb, Database
  <2>2. [w EXCEPT !.db.mail[m] = None] = v
    BY <1>4, <1>5, <1>13, <2>1
  <2>3. t = Commit([w EXCEPT !.db.mail[m] = None], N)
    BY <1>4, <1>16, Zenon DEF DeleteMail
  <2> QED BY <2>2, <2>3, Zenon
<1>18. Drained(s, t, m, row, A, A, f, h, total) /\ Ledger(t, {}, 0, total)
  BY <1>15, <1>16, <1>17, DrainedCommit
<1> QED BY <1>7, <1>18

LEMMA DeletedKeeps ==
  ASSUME NEW s, NEW m, NEW row, NEW A, NEW total, Draining(s, m, row, A, total), Enough(s),
         Halved(s, m, row.receiver),
         NEW t, t = Deleted(s, m)
  PROVE  Kept(t, total) /\ Enough(t) /\ MailStep(s, t, m)
<1>1. PICK u : /\ Drained(s, u, m, row, A, A, s.db.mail, s.past, total)
               /\ t = DeleteMail(u, m, row.money)
  <2>1. Draining(s, m, s.db.mail[m], Attached(s.db, m, s.db.mail[m].receiver), total)
    BY Zenon DEF Draining
  <2>2. PICK u : /\ Drained(s, u, m, s.db.mail[m], Attached(s.db, m, s.db.mail[m].receiver),
                            Attached(s.db, m, s.db.mail[m].receiver), s.db.mail, s.past, total)
                 /\ Deleted(s, m) = DeleteMail(u, m, s.db.mail[m].money)
    BY <2>1, DeletedIs
  <2> QED BY <2>2, Zenon DEF Draining
<1>2. PICK f, h : /\ Drained(s, t, m, row, A, A, f, h, total) /\ Ledger(t, {}, 0, total)
                  /\ f[m] = None
  BY <1>1, DeleteMailIs
<1>3. /\ t \in States /\ t.pl = s.pl /\ t.house = s.house /\ t.aitems = s.aitems /\ t.cut = s.cut
      /\ Less(s.db, m, row, A, A, f, t.db) /\ \A n \in Mail : n # m => f[n] = s.db.mail[n]
  BY <1>2 DEF Drained, Less
<1>4. LessAs(s.db, m, row, A, A, f, t.db)
  BY <1>3, LessIs
<1>5. /\ Kept(s, total) /\ s \in States /\ s.db \in Database /\ m \in Mail /\ row = s.db.mail[m]
      /\ row # None /\ A = Attached(s.db, m, row.receiver) /\ A \subseteq Item
      /\ s.db.instance \subseteq Item
  <2>1. /\ s \in States /\ s.db \in Database /\ m \in Mail /\ row = s.db.mail[m]
        /\ row # None /\ A = Attached(s.db, m, row.receiver) /\ A \subseteq Item
    BY DroppingFields
  <2> QED BY <2>1, DatabaseFields DEF Draining
<1>6. ASSUME NEW q \in InMemory(s), m \in DOMAIN s.pl[q].mails
      PROVE  Stale(t.db, s.pl[q].mails[m], m, s.cut)
  <2>1. MailInv(s.db, s.cut, s.pl[q].mails[m], m, q)
    BY <1>5, <1>6 DEF Kept, PlayerInv, BoxInv
  <2>2. CASE Fresh(s.db, s.pl[q].mails[m], m, q)
    <3>1. q = row.receiver
      BY <1>5, <2>2 DEF Fresh
    <3>2. Held(s.pl[q].mails[m]) \subseteq s.cut
      BY <1>6, <3>1 DEF Halved
    <3>3. t.db.mail[m] = None
      BY <1>2, <1>4 DEF LessAs
    <3> QED BY <3>2, <3>3 DEF Stale
  <2>3. CASE Stale(s.db, s.pl[q].mails[m], m, s.cut)
    BY <1>5, <2>3 DEF Stale
  <2> QED BY <2>1, <2>2, <2>3 DEF MailInv
<1>7. ASSUME InMemory(s) # {}
      PROVE  /\ AllClean(t.db)
             /\ \A n \in Mail, q \in Player : n # m => Attached(t.db, n, q) = Attached(s.db, n, q)
             /\ \A i \in Item : s.db.inventory[i] # None => (i \in t.db.instance <=> i \in s.db.instance)
  <2>1. \A i \in Item : Clean(s.db, i)
    BY <1>5, <1>7 DEF Kept, AllClean
  <2>2. ASSUME NEW i \in Item PROVE Clean(t.db, i)
    <3>1. Clean(s.db, i)
      BY <2>1
    <3>2. /\ i \notin A => SameItem(s.db, t.db, i)
          /\ i \in A => Exact(t.db, i)
      BY <1>3, <3>1, LessItems
    <3> QED BY <3>1, <3>2, SameItemKept DEF Exact
  <2>3. \A i \in A : Posted(s.db, m, i, row.receiver) /\ row.receiver \in Player
    BY <1>4 DEF LessAs
  <2>4. t.db.instance = s.db.instance \ A
    BY <1>4 DEF LessAs
  <2>5. ASSUME NEW n \in Mail, NEW q \in Player, n # m
        PROVE  Attached(t.db, n, q) = Attached(s.db, n, q)
    <3>1. ASSUME NEW i \in Item, Posted(s.db, n, i, q) PROVE i \notin A
      <4>1. Clean(s.db, i)
        BY <2>1
      <4> QED BY <1>5, <2>3, <2>5, <3>1, <4>1 DEF Clean
    <3>2. \A i \in Item : Posted(t.db, n, i, q) <=> Posted(s.db, n, i, q) /\ i \notin A
      BY <1>4 DEF LessAs
    <3> QED BY <1>5, <2>4, <3>1, <3>2 DEF Attached, Posted
  <2>6. ASSUME NEW i \in Item, s.db.inventory[i] # None PROVE i \notin A
    <3>1. Clean(s.db, i)
      BY <2>1
    <3> QED BY <1>5, <2>3, <2>6, <3>1 DEF Clean
  <2> QED BY <2>2, <2>4, <2>5, <2>6 DEF AllClean
<1>8. MailStep(s, t, m)
  <2>1. /\ t.db.gold = s.db.gold /\ t.db.inventory = s.db.inventory /\ t.db.auction = s.db.auction
        /\ \A n \in Mail : n # m => t.db.mail[n] = s.db.mail[n]
    BY <1>3, <1>4 DEF LessAs
  <2> QED BY <1>3, <1>6, <1>7, <2>1 DEF MailStep
<1>9. Kept(t, total)
  BY <1>2, <1>5, <1>8, MailStepKeeps
<1>10. Enough(t)
  BY <1>5, <1>8, MailStepEnough
<1> QED BY <1>8, <1>9, <1>10

-----------------------------------------------------------------------------
(* The mails whose time is over *)

\* What the receiver of a mail that expires has in memory of it is stored by half.
Halving(s, m, p) ==
    IF s.pl[p] # None /\ m \in DOMAIN s.pl[p].mails
    THEN [s EXCEPT !.cut = s.cut \cup Held(s.pl[p].mails[m])] ELSE s

LEMMA HalvingKeeps ==
  ASSUME NEW s, NEW total, Kept(s, total), Enough(s), NEW m, NEW p \in Player,
         NEW t, t = Halving(s, m, p)
  PROVE  /\ Kept(t, total) /\ Enough(t) /\ t.db = s.db /\ t.pl = s.pl /\ t.house = s.house
         /\ Halved(t, m, p)
<1>1. s \in States /\ s.cut \in SUBSET Thing
  BY KeptStates, StateFields
<1>2. CASE s.pl[p] # None /\ m \in DOMAIN s.pl[p].mails
  <2>1. PICK c : c = s.cut \cup Held(s.pl[p].mails[m])
    OBVIOUS
  <2>2. t = [s EXCEPT !.cut = c]
    BY <1>2, <2>1, Zenon DEF Halving
  <2>3. c \in SUBSET Thing /\ s.cut \subseteq c
    <3>1. s.pl[p].mails[m] \in Letter
      BY <1>1, <1>2, RecordOf DEF InMemory
    <3>2. Held(s.pl[p].mails[m]) \subseteq Thing
      BY <3>1 DEF Letter, Held, Thing
    <3> QED BY <1>1, <2>1, <3>2
  <2>4. /\ Kept(t, total) /\ Enough(t) /\ t.cut = c /\ t.db = s.db /\ t.pl = s.pl
        /\ t.house = s.house
    BY <2>2, <2>3, KeptCut
  <2>5. Halved(t, m, p)
    BY <2>1, <2>4 DEF Halved
  <2> QED BY <2>4, <2>5
<1>3. CASE ~(s.pl[p] # None /\ m \in DOMAIN s.pl[p].mails)
  <2>1. t = s
    BY <1>3, Zenon DEF Halving
  <2>2. Halved(t, m, p)
    BY <1>3, <2>1 DEF Halved, InMemory
  <2> QED BY <2>1, <2>2
<1> QED BY <1>2, <1>3

\* The walk over the mails at the mail m.
LEMMA ExpiredKeeps ==
  ASSUME NEW s, NEW total, Kept(s, total), Enough(s), NEW m \in Mail, NEW expired,
         m \in expired => s.db.mail[m] # None,
         NEW t, t = Expired(s, m, expired)
  PROVE  /\ Kept(t, total) /\ Enough(t)
         /\ \A n \in Mail : n # m => t.db.mail[n] = s.db.mail[n]
<1>1. CASE m \notin expired
  <2>1. t = s
    BY <1>1, Zenon DEF Expired
  <2> QED BY <2>1
<1>2. CASE m \in expired
  <2>1. PICK row, p, A, w : /\ row = s.db.mail[m] /\ p = row.receiver /\ A = Attached(s.db, m, p)
                            /\ w = Halving(s, m, p)
    OBVIOUS
  <2>2. t = IF row.kind = "normal" /\ A # {} THEN Returned(w, m) ELSE Deleted(w, m)
    BY <1>2, <2>1, Zenon DEF Expired, Halving
  <2>3. row # None /\ p \in Player /\ (row.kind = "normal" => row.sender # None)
    <3>1. s.db.mail \in [Mail -> MailRow \cup {None}] /\ DbInv(s.db)
      BY KeptStates, DatabaseFields DEF Kept, Ledger
    <3>2. row # None /\ row \in MailRow
      BY <1>2, <2>1, <3>1
    <3>3. MailRowInv(row)
      BY <2>1, <3>1, <3>2 DEF DbInv
    <3> QED BY <2>1, <3>2, <3>3 DEF MailRow, MailRowInv
  <2>4. /\ Kept(w, total) /\ Enough(w) /\ w.db = s.db /\ Halved(w, m, p)
    BY <2>1, <2>3, HalvingKeeps
  <2>5. CASE row.kind = "normal" /\ A # {}
    <3>1. Moving(w, m, row, A, total) /\ Halved(w, m, row.receiver)
      BY <2>1, <2>3, <2>4, <2>5 DEF Moving
    <3>2. t = Returned(w, m) /\ A # {}
      BY <2>2, <2>5
    <3>3. Kept(t, total) /\ Enough(t) /\ MailStep(w, t, m)
      BY <2>4, <3>1, <3>2, ReturnedKeeps
    <3> QED BY <2>4, <3>3 DEF MailStep
  <2>6. CASE ~(row.kind = "normal" /\ A # {})
    <3>1. Draining(w, m, row, A, total) /\ Halved(w, m, row.receiver)
      BY <2>1, <2>3, <2>4 DEF Draining
    <3>2. t = Deleted(w, m)
      BY <2>2, <2>6
    <3>3. Kept(t, total) /\ Enough(t) /\ MailStep(w, t, m)
      BY <2>4, <3>1, <3>2, DeletedKeeps
    <3> QED BY <2>4, <3>3 DEF MailStep
  <2> QED BY <2>5, <2>6
<1> QED BY <1>1, <1>2

\* The review of the mails, of which S is done.
Reviewed(S, total) ==
    {x \in States : Kept(x, total) /\ Enough(x) /\ \A n \in Mail \ S : x.db.mail[n] = db.mail[n]}

LEMMA ReturnOrDeleteOldMailsKeeps ==
  ASSUME NEW total, Kept(World, total), Enough(World), ReturnOrDeleteOldMails
  PROVE  Kept(World, total)' /\ Enough(World)'
<1>0. PICK expired \in SUBSET {m \in Mail : db.mail[m] # None
                                            /\ ~InWorld(World, db.mail[m].receiver)} :
         Outcome(FoldLeft(LAMBDA s, m : Expired(s, m, expired), World, [m \in Mail |-> m]))
  BY Zenon DEF ReturnOrDeleteOldMails
<1> DEFINE n == Cardinality(Mail)
           q == [m \in Mail |-> m]
           Step(s, m) == Expired(s, m, expired)
           E(f) == f = [S \in SUBSET (1 .. n) |-> IF S = {} THEN World
                                                  ELSE Step(f[S \ {Max(S)}], q[Max(S)])]
           it == CHOOSE f : E(f)
           F == [z \in (1 .. n) \X States |-> Step(z[2], z[1])]
           ST == [S \in SUBSET (1 .. n) |-> Reviewed(S, total)]
           SK == [k \in 0 .. n |-> Reviewed(1 .. k, total)]
<1>1. n \in Nat /\ Mail = 1 .. n /\ DOMAIN q = 1 .. n /\ \A k \in 1 .. n : q[k] = k
  BY MailConstants, FS_CardinalityType
<1>2. PICK c : c = FoldLeft(LAMBDA s, m : Expired(s, m, expired), World, [m \in Mail |-> m])
  BY Zenon
<1>3. Outcome(c)
  BY <1>0, <1>2, Zenon
<1>4. c = it[1 .. n]
  BY <1>1, <1>2 DEF FoldLeft, MapThenFoldSet
<1> HIDE DEF n
<1>5. ASSUME NEW S \in SUBSET (1 .. n), NEW x \in Reviewed(S, total), NEW k \in 1 .. n, k \notin S
      PROVE  Step(x, k) \in Reviewed(S \cup {k}, total)
  <2>1. /\ x \in States /\ Kept(x, total) /\ Enough(x)
        /\ \A r \in Mail \ S : x.db.mail[r] = db.mail[r]
    BY DEF Reviewed
  <2>2. PICK y : y = Expired(x, k, expired)
    OBVIOUS
  <2>3. k \in Mail /\ (k \in expired => x.db.mail[k] # None)
    BY <1>0, <1>1, <1>5, <2>1, Zenon
  <2>4. Kept(y, total) /\ Enough(y) /\ \A r \in Mail : r # k => y.db.mail[r] = x.db.mail[r]
    BY <2>1, <2>2, <2>3, ExpiredKeeps
  <2>5. y \in States
    BY <2>4, KeptStates
  <2>6. y \in Reviewed(S \cup {k}, total)
    BY <2>1, <2>4, <2>5 DEF Reviewed
  <2> QED BY <2>2, <2>6
<1>6. World \in Reviewed({}, total)
  <2>1. World \in States
    BY KeptStates
  <2> QED BY <2>1, WorldIs DEF Reviewed
<1>7. \A S \in SUBSET (1 .. n) : ST[S] = Reviewed(S, total) /\ ST[S] \subseteq States
  BY DEF Reviewed
<1>8. ASSUME NEW k \in 1 .. n, NEW x \in States PROVE F[<<k, x>>] = Step(x, q[k])
  <2>1. F[<<k, x>>] = Step(x, k)
    <3> HIDE DEF Step
    <3> QED OBVIOUS
  <2> HIDE DEF F, Step, q
  <2> QED BY <1>1, <2>1
<1>9. PICK h : Folds2(h, F, World, n) /\ \A S \in SUBSET (1 .. n) : h[S] \in ST[S]
  <2>1. World \in ST[{}]
    BY <1>6
  <2>2. ASSUME NEW S \in SUBSET (1 .. n), NEW k \in 1 .. n, \A y \in S : y < k, NEW x \in ST[S]
        PROVE  F[<<k, x>>] \in ST[S \cup {k}]
    <3>1. k \notin S /\ S \cup {k} \in SUBSET (1 .. n)
      <4> HIDE DEF F, ST, Step, q
      <4>1. k \in Int /\ ~(k < k)
        BY <1>1
      <4> QED BY <2>2, <4>1
    <3>2. x \in Reviewed(S, total) /\ x \in States
      <4> HIDE DEF ST
      <4> QED BY <1>7
    <3>3. Step(x, k) \in Reviewed(S \cup {k}, total)
      <4> HIDE DEF Step
      <4> QED BY <1>5, <3>1, <3>2
    <3>4. F[<<k, x>>] = Step(x, k)
      <4> HIDE DEF Step, F, q
      <4> QED BY <1>1, <1>8, <3>2
    <3> HIDE DEF F, Step, ST
    <3> QED BY <1>7, <3>1, <3>3, <3>4
  <2> HIDE DEF F, ST
  <2> QED BY <1>1, <2>1, <2>2, FoldFits
<1> DEFINE g == [S \in SUBSET (1 .. n) |-> h[S]]
<1>10. E(g)
  <2> SUFFICES ASSUME NEW S \in SUBSET (1 .. n)
               PROVE  h[S] = IF S = {} THEN World ELSE Step(h[S \ {Max(S)}], q[Max(S)])
    <3>1. ASSUME NEW S \in SUBSET (1 .. n), S # {} PROVE g[S \ {Max(S)}] = h[S \ {Max(S)}]
      OBVIOUS
    <3> HIDE DEF Step, q
    <3> QED BY <3>1
  <2>1. h[S] = IF S = {} THEN World ELSE F[<<Max(S), h[S \ {Max(S)}]>>]
    BY <1>9 DEF Folds2
  <2>2. S # {} => Max(S) \in 1 .. n /\ h[S \ {Max(S)}] \in States
    <3>1. S # {} => Max(S) \in S /\ S \ {Max(S)} \in SUBSET (1 .. n)
      BY <1>1, MaxOfPart
    <3> HIDE DEF ST
    <3> QED BY <1>7, <1>9, <3>1
  <2> HIDE DEF F, Step, q
  <2> QED BY <1>8, <2>1, <2>2
<1>11. E(it)
  <2> HIDE DEF E
  <2> QED BY <1>10
<1>12. \A S \in SUBSET (1 .. n) : it[S] = IF S = {} THEN World ELSE Step(it[S \ {Max(S)}], q[Max(S)])
  <2> HIDE DEF it, Step, q
  <2> QED BY <1>11
<1> HIDE DEF it
<1>13. it[{}] \in SK[0]
  <2>1. it[{}] = World /\ 1 .. 0 = {} /\ 0 \in 0 .. n
    <3>1. {} \in SUBSET (1 .. n)
      OBVIOUS
    <3>2. it[{}] = World
      <4> HIDE DEF Step, q
      <4> QED BY <1>12, <3>1
    <3> QED BY <1>1, <3>2
  <2> QED BY <1>6, <2>1
<1>14. ASSUME NEW k \in 1 .. n, Max(1 .. k) = k, (1 .. k) \ {k} = 1 .. k - 1, it[1 .. k - 1] \in SK[k - 1]
       PROVE  it[1 .. k] \in SK[k]
  <2>1. /\ 1 .. k \in SUBSET (1 .. n) /\ 1 .. k # {} /\ 1 .. k - 1 \in SUBSET (1 .. n)
        /\ (1 .. k - 1) \cup {k} = 1 .. k /\ \A y \in 1 .. k - 1 : y < k
    BY <1>1, PrefixFacts
  <2>2. k - 1 \in 0 .. n /\ k \in 0 .. n /\ k \notin 1 .. k - 1
    BY <1>1
  <2>3. it[1 .. k] = Step(it[1 .. k - 1], k)
    <3>1. it[1 .. k] = Step(it[1 .. k - 1], q[k])
      <4> HIDE DEF Step, q
      <4> QED BY <1>12, <1>14, <2>1
    <3> HIDE DEF Step, q
    <3> QED BY <1>1, <3>1
  <2>4. it[1 .. k - 1] \in Reviewed(1 .. k - 1, total)
    BY <1>14, <2>2
  <2>5. it[1 .. k] \in Reviewed((1 .. k - 1) \cup {k}, total)
    <3> HIDE DEF Step
    <3> QED BY <1>5, <2>1, <2>2, <2>3, <2>4
  <2> QED BY <2>1, <2>2, <2>5
<1>15. it[1 .. n] \in SK[n]
  <2> HIDE DEF SK
  <2> QED BY <1>1, <1>13, <1>14, FoldHolds
<1>16. c \in Reviewed(1 .. n, total)
  BY <1>1, <1>4, <1>15
<1>17. Kept(c, total) /\ Enough(c)
  BY <1>16 DEF Reviewed
<1> QED BY <1>3, <1>17, OutcomeKeeps

-----------------------------------------------------------------------------
(* Every step *)

LEMMA AuctioneerKeeps ==
  ASSUME NEW total, Kept(World, total), Enough(World), cut = {}, NEW p \in Player, Auctioneer(p)
  PROVE  Kept(World, total)' /\ Enough(World)'
<1>1. CASE \E i \in Item, bid \in StartBid, buyout \in Buyout : HandleAuctionSellItem(p, i, bid, buyout)
  BY <1>1, SellItemKeeps
<1>2. CASE \E a \in Auction, price \in Price : HandleAuctionPlaceBid(p, a, price)
  BY <1>2, PlaceBidKeeps
<1>3. CASE \E a \in Auction : HandleAuctionRemoveItem(p, a)
  BY <1>3, RemoveItemKeeps
<1> QED BY <1>1, <1>2, <1>3 DEF Auctioneer

LEMMA MailboxKeeps ==
  ASSUME NEW total, Kept(World, total), Enough(World), cut = {}, NEW p \in Player, Mailbox(p)
  PROVE  Kept(World, total)' /\ Enough(World)'
<1>1. ASSUME NEW r \in Player, NEW money \in Sum, HandleSendMail(p, r, {}, money, 0)
      PROVE  Kept(World, total)' /\ Enough(World)'
  <2>1. PICK items, cod : items = {} /\ cod = 0
    OBVIOUS
  <2>2. HandleSendMail(p, r, items, money, cod)
    BY <1>1, <2>1, Zenon
  <2>3. money \in Nat /\ cod \in Nat
    BY <2>1, AuctionConstants
  <2> QED BY <2>1, <2>2, <2>3, SendMailKeeps
<1>2. ASSUME NEW r \in Player, NEW i \in Item, NEW cod \in Sum \cup {0}, HandleSendMail(p, r, {i}, 0, cod)
      PROVE  Kept(World, total)' /\ Enough(World)'
  <2>1. PICK items, money : items = {i} /\ money = 0
    OBVIOUS
  <2>2. HandleSendMail(p, r, items, money, cod)
    BY <1>2, <2>1, Zenon
  <2>3. money \in Nat /\ cod \in Nat
    BY <2>1, AuctionConstants
  <2> QED BY <2>1, <2>2, <2>3, SendMailKeeps
<1>3. ASSUME Here(p), NEW m \in DOMAIN pl[p].mails,
             \/ HandleMailReturnToSender(p, m)
             \/ HandleMailTakeMoney(p, m)
             \/ HandleMailDelete(p, m)
      PROVE  Kept(World, total)' /\ Enough(World)'
  <2>1. CASE HandleMailReturnToSender(p, m)
    BY <1>3, <2>1, ReturnKeeps
  <2>2. CASE HandleMailTakeMoney(p, m)
    BY <1>3, <2>2, TakeMoneyKeeps
  <2>3. CASE HandleMailDelete(p, m)
    BY <1>3, <2>3, MailDeleteKeeps
  <2> QED BY <1>3, <2>1, <2>2, <2>3
<1> QED BY <1>1, <1>2, <1>3, Zenon DEF Mailbox

\* An item that is in the mail it is taken from.
LEMMA OwnItemKeeps ==
  ASSUME NEW total, Kept(World, total), Enough(World), cut = {}, NEW p \in Player,
         strayed' = {}, TakeItem(p)
  PROVE  Kept(World, total)' /\ Enough(World)'
<1>1. PICK m \in DOMAIN pl[p].mails, i \in Item : Here(p) /\ HandleMailTakeItem(p, m, i)
  BY Zenon DEF TakeItem
<1>2. strayed' = strayed \cup ({i} \ pl[p].mails[m].items)
  BY <1>1, Zenon DEF HandleMailTakeItem
<1>3. i \in Item /\ i \in pl[p].mails[m].items
  BY <1>1, <1>2
<1> QED BY <1>1, <1>3, TakeItemKeeps

LEMMA CharacterKeeps ==
  ASSUME NEW total, Kept(World, total), Enough(World), cut = {}, NEW p \in Player, Character(p)
  PROVE  Kept(World, total)' /\ Enough(World)'
<1>1. CASE LoginQueries(p)
  BY <1>1, LoginKeeps
<1>2. CASE HandlePlayerLogin(p)
  BY <1>2, PlayerLoginKeeps
<1>3. CASE SaveToDB(p)
  BY <1>3, SaveToDBKeeps
<1>4. CASE LogoutPlayer(p)
  BY <1>4, LogoutKeeps
<1> QED BY <1>1, <1>2, <1>3, <1>4 DEF Character

LEMMA TraderKeeps ==
  ASSUME NEW total, Kept(World, total), Enough(World), cut = {}, NEW p \in Player,
         start.trader \subseteq Player, Trader(p)
  PROVE  Kept(World, total)' /\ Enough(World)'
<1>1. CASE \E q \in start.trader : HandleInitiateTrade(p, q)
  BY <1>1, InitiateTradeKeeps
<1>2. CASE TradeOf(p) # None /\ \E i \in pl[p].bag \cup {None} : HandleSetTradeItem(p, i)
  BY <1>2, SetTradeItemKeeps
<1>3. CASE TradeOf(p) # None /\ \E gold \in TradeGold : HandleSetTradeGold(p, gold)
  BY <1>3, SetTradeGoldKeeps
<1>4. CASE TradeOf(p) # None /\ HandleAcceptTrade(p)
  BY <1>4, AcceptTradeKeeps
<1>5. CASE TradeOf(p) # None /\ (HandleAcceptTooFar(p) \/ HandleUnacceptTrade(p))
  <2>1. Outcome(Unaccepted(World, p))
    BY <1>5 DEF HandleAcceptTooFar, HandleUnacceptTrade
  <2> QED BY <1>5, <2>1, UnacceptKeeps
<1>6. CASE TradeOf(p) # None /\ HandleCancelTrade(p)
  BY <1>6, CancelTradeKeeps
<1> QED BY <1>1, <1>2, <1>3, <1>4, <1>5, <1>6, Zenon DEF Trader

LEMMA TradeNextInv ==
  ASSUME IInv, [TradeNext]_vars
  PROVE  IInv'
<1>1. PICK total : total = SumOver(start.gold, Player)
  OBVIOUS
<1>2. start' = start /\ strayed \subseteq strayed'
  <2>1. ASSUME NEW p \in Player, TakeItem(p) PROVE strayed \subseteq strayed'
    BY <2>1, Zenon DEF TakeItem, HandleMailTakeItem
  <2> QED BY <2>1 DEF TradeNext, Next, vars
<1>3. start \in Start /\ start \in Situation /\ start.trader \subseteq Player
  <2>1. start \in Start /\ start \in Situation
    BY AuctionConstants DEF IInv
  <2> QED BY <2>1 DEF Situation
<1>4. CASE strayed' # {}
  BY <1>2, <1>3, <1>4 DEF IInv
<1>5. ASSUME strayed' = {}, TradeNext PROVE IInv'
  <2>1. strayed = {} /\ Kept(World, total) /\ Enough(World)
    BY <1>1, <1>2, <1>5 DEF IInv
  <2>2. Kept(World, total)' /\ Enough(World)'
    <3>1. CASE \E due \in SUBSET InHouse : UpdateAuctions(due)
      BY <2>1, <3>1, UpdateAuctionsKeeps
    <3>2. CASE ReturnOrDeleteOldMails
      BY <2>1, <3>2, ReturnOrDeleteOldMailsKeeps
    <3>3. CASE Crash
      BY <2>1, <3>3, CrashKeeps
    <3>4. CASE Regular /\ \E p \in Player : Auctioneer(p) \/ Mailbox(p) \/ Character(p)
      <4>1. cut = {}
        BY <3>4 DEF Regular
      <4> QED BY <2>1, <3>4, <4>1, AuctioneerKeeps, MailboxKeeps, CharacterKeeps
    <3>5. CASE Regular /\ \E p \in Player : TakeItem(p)
      <4>1. cut = {}
        BY <3>5 DEF Regular
      <4> QED BY <1>5, <2>1, <3>5, <4>1, OwnItemKeeps
    <3>6. CASE Regular /\ \E p \in start.trader : Trader(p)
      <4>1. cut = {}
        BY <3>6 DEF Regular
      <4> QED BY <1>3, <2>1, <3>6, <4>1, TraderKeeps
    <3> QED BY <1>5, <3>1, <3>2, <3>3, <3>4, <3>5, <3>6 DEF TradeNext, Next
  <2>3. SumOver(start.gold, Player)' = total
    BY <1>1, <1>2
  <2> QED BY <1>2, <1>3, <2>2, <2>3 DEF IInv
<1>6. ASSUME strayed' = {}, UNCHANGED vars PROVE IInv'
  <2>0. strayed = {} /\ Kept(World, total) /\ Enough(World)
    BY <1>1, <1>2, <1>6 DEF IInv
  <2>1. /\ start' = start /\ db' = db /\ pl' = pl /\ house' = house /\ aitems' = aitems
        /\ past' = past /\ cut' = cut
    BY <1>6 DEF vars
  <2>2. World' = World
    BY <2>1 DEF World
  <2>3. Kept(World, total)' /\ Enough(World)'
    <3>1. PICK s : s = World
      OBVIOUS
    <3>2. World' = s
      BY <2>2, <3>1
    <3> QED BY <2>0, <3>1, <3>2
  <2>4. SumOver(start.gold, Player)' = total
    BY <1>1, <2>1
  <2> QED BY <1>2, <1>3, <2>3, <2>4 DEF IInv
<1> QED BY <1>4, <1>5, <1>6

-----------------------------------------------------------------------------
(* What the invariant says *)

LEMMA KeptWorld ==
  ASSUME IInv, strayed = {}
  PROVE  /\ db \in Database /\ pl \in [Player -> PlayerRecord \cup {None}] /\ past \in Past
         /\ house \in [Auction -> AuctionRow \cup {None}] /\ house = db.auction
         /\ DbInv(db) /\ WonInv(db, past) /\ Paired(pl)
         /\ \A i \in Item \ cut : Exact(db, i)
         /\ "money" \notin cut => MoneyIn(db, past) = SumOver(start.gold, Player)
         /\ \A p \in Player : pl[p] # None => PlayerInv(db, cut, pl[p], p)
<1>1. PICK s, total : s = World /\ total = SumOver(start.gold, Player)
  OBVIOUS
<1>2. Kept(s, total)
  BY <1>1 DEF IInv
<1>3. Ledger(s, {}, 0, total) /\ s.house = s.db.auction /\ Paired(s.pl)
      /\ \A p \in InMemory(s) : PlayerInv(s.db, s.cut, s.pl[p], p)
  BY <1>2 DEF Kept
<1>4. s.db = db /\ s.pl = pl /\ s.house = house /\ s.past = past /\ s.cut = cut
  BY <1>1, WorldIs
<1>5. s \in States
  BY <1>3 DEF Ledger
<1>6. /\ db \in Database /\ pl \in [Player -> PlayerRecord \cup {None}] /\ past \in Past
      /\ house \in [Auction -> AuctionRow \cup {None}]
  BY <1>4, <1>5, StateFields
<1>7. /\ DbInv(db) /\ WonInv(db, past)
      /\ \A i \in Item \ cut : Exact(db, i)
      /\ "money" \notin cut => MoneyIn(db, past) + 0 = total
  BY <1>3, <1>4 DEF Ledger
<1>8. "money" \notin cut => MoneyIn(db, past) = total
  <2>1. MoneyIn(db, past) \in Nat
    BY <1>6, MoneyIs
  <2> QED BY <1>7, <2>1
<1> QED BY <1>1, <1>3, <1>4, <1>6, <1>7, <1>8 DEF InMemory

LEMMA PairedHolds ==
  ASSUME IInv, strayed = {}
  PROVE  TradesPaired
<1> SUFFICES ASSUME NEW p \in Player, TradeOf(p) # None
             PROVE  LET q == TradeOf(p).with IN
                    /\ TradeOf(p) \in TradeData
                    /\ Here(p) /\ q # p /\ Here(q) /\ TradeOf(q) # None /\ TradeOf(q).with = p
  BY DEF TradesPaired
<1>1. pl[p] # None /\ pl[p].trade # None /\ TradeOf(p) = pl[p].trade
  BY DEF TradeOf
<1>2. TradeOf(p) \in TradeData
  BY <1>1, KeptWorld, PlayerFields
<1>3. PICK q : q = pl[p].trade.with
  OBVIOUS
<1>4. /\ pl[p].inWorld /\ q # p /\ pl[q] # None /\ pl[q].inWorld
      /\ pl[q].trade # None /\ pl[q].trade.with = p
  BY <1>1, <1>3, KeptWorld DEF Paired
<1>5. TradeOf(q) = pl[q].trade
  BY <1>4 DEF TradeOf
<1>6. Here(p) /\ Here(q)
  BY <1>1, <1>4, WorldIs DEF Here, InWorld
<1> QED BY <1>1, <1>2, <1>3, <1>4, <1>5, <1>6

LEMMA WinnerHolds ==
  ASSUME IInv, strayed = {}
  PROVE  WinnerPays
BY KeptWorld DEF WinnerPays, WonInv

LEMMA MemoryHolds ==
  ASSUME IInv, strayed = {}
  PROVE  MemoryStored
<1>1. /\ db.mail \in [Mail -> MailRow \cup {None}] /\ house = db.auction
      /\ house \in [Auction -> AuctionRow \cup {None}]
  BY KeptWorld, DatabaseFields
<1>2. ASSUME NEW p \in Player, pl[p] # None
      PROVE  LET found == Loaded(db, p) IN
             /\ pl[p].gold = found.gold /\ pl[p].bag \ strayed = found.bag \ strayed
             /\ \A m \in DOMAIN pl[p].mails :
                 \/ pl[p].mails[m].state = "deleted"
                 \/ Held(pl[p].mails[m]) \subseteq cut
                 \/ pl[p].mails[m].items \cap strayed # {}
                 \/ m \in DOMAIN found.mails /\ pl[p].mails[m] = found.mails[m]
  <2>1. PICK found : found = Loaded(db, p)
    OBVIOUS
  <2>2. /\ found.gold = db.gold[p] /\ found.bag = {i \in db.instance : db.inventory[i] = p}
        /\ DOMAIN found.mails = {x \in Mail : db.mail[x] # None /\ db.mail[x].receiver = p}
        /\ \A m \in DOMAIN found.mails : found.mails[m] =
              [sender |-> db.mail[m].sender, kind |-> db.mail[m].kind,
               money |-> db.mail[m].money, cod |-> db.mail[m].cod,
               items |-> Attached(db, m, p), removed |-> {}, state |-> "unchanged"]
    BY <2>1 DEF Loaded
  <2>3. PlayerInv(db, cut, pl[p], p) /\ pl[p] \in PlayerRecord
    BY <1>2, KeptWorld
  <2>4. pl[p].gold = found.gold /\ pl[p].bag = found.bag
    BY <2>2, <2>3 DEF PlayerInv, PurseInv, BagInv
  <2>5. ASSUME NEW m \in DOMAIN pl[p].mails
        PROVE  \/ pl[p].mails[m].state = "deleted"
               \/ Held(pl[p].mails[m]) \subseteq cut
               \/ m \in DOMAIN found.mails /\ pl[p].mails[m] = found.mails[m]
    <3>1. PICK e : e = pl[p].mails[m]
      OBVIOUS
    <3>2. MailInv(db, cut, e, m, p) /\ e \in Letter /\ m \in Mail
      <4>1. pl[p].mails \in PlayerMails
        BY <2>3, PlayerFields
      <4> QED BY <2>3, <3>1, <4>1, PlayerMailsIs DEF PlayerInv, BoxInv
    <3>3. CASE Stale(db, e, m, cut)
      BY <3>1, <3>3 DEF Stale
    <3>4. CASE Fresh(db, e, m, p) /\ e.state # "deleted"
      <4>1. e.removed = {} /\ e.state = "unchanged"
        BY <3>2, <3>4 DEF MailInv, Letter, MailState
      <4>2. m \in DOMAIN found.mails
        BY <2>2, <3>2, <3>4 DEF Fresh
      <4>3. e = [sender |-> e.sender, kind |-> e.kind, money |-> e.money, cod |-> e.cod,
                 items |-> e.items, removed |-> e.removed, state |-> e.state]
        BY <3>2 DEF Letter
      <4>4. e = found.mails[m]
        BY <2>2, <3>4, <4>1, <4>2, <4>3 DEF Fresh
      <4> QED BY <3>1, <4>2, <4>4
    <3> QED BY <3>1, <3>2, <3>3, <3>4 DEF MailInv
  <2> QED BY <2>1, <2>4, <2>5
<1> QED BY <1>1, <1>2 DEF MemoryStored

LEMMA OnePlace ==
  ASSUME IInv, strayed = {}, NEW i \in Item \ cut
  PROVE  Cardinality(Places(i)) = IF i \in db.instance THEN 1 ELSE 0
<1>1. PICK d : d = db
  OBVIOUS
<1>2. d \in Database /\ DbInv(d) /\ Exact(d, i) /\ Clean(d, i) /\ i \in Item
  BY <1>1, KeptWorld DEF Exact
<1>3. /\ d.inventory \in [Item -> Player \cup {None}]
      /\ d.auction \in [Auction -> AuctionRow \cup {None}]
      /\ d.mail \in [Mail -> MailRow \cup {None}] /\ None \notin Player
  BY <1>2, DatabaseFields, MailConstants
<1>4. PICK P, B, L : /\ P = {p \in Player : d.inventory[i] = p}
                     /\ B = {a \in Auction : Sells(d, a, i)}
                     /\ L = {<<m, i>> : m \in {x \in Mail : /\ d.mail[x] # None
                                               /\ i \in Attached(d, x, d.mail[x].receiver)}}
  OBVIOUS
<1>5. Places(i) = P \cup B \cup L
  BY <1>1, <1>4, Zenon DEF Places, Sells
<1>6. \A y : y \in L => \E m \in Mail, r \in Player : Posted(d, m, i, r) /\ y = <<m, i>>
  <2>1. \A m \in Mail : d.mail[m] # None => d.mail[m].receiver \in Player
    BY <1>3 DEF MailRow
  <2> QED BY <1>4, <2>1 DEF Attached, Posted
<1>7. ASSUME NEW m \in Mail, NEW r \in Player, Posted(d, m, i, r) PROVE <<m, i>> \in L
  <2>1. i \in d.instance /\ d.mail[m] # None /\ d.mail[m].receiver = r
    BY <1>2, <1>7 DEF Clean
  <2> QED BY <1>4, <1>7, <2>1 DEF Attached, Posted
<1>8. CASE i \notin d.instance
  <2>1. d.inventory[i] = None /\ \A a \in Auction : ~Sells(d, a, i)
    BY <1>2, <1>8 DEF Clean
  <2>2. \A m \in Mail, r \in Player : ~Posted(d, m, i, r)
    BY <1>2, <1>8 DEF Clean
  <2>3. P = {} /\ B = {} /\ L = {}
    BY <1>3, <1>4, <1>6, <2>1, <2>2
  <2>4. Places(i) = {}
    BY <1>5, <2>3
  <2> QED BY <1>1, <1>8, <2>4, FS_EmptySet
<1>9. CASE i \in d.instance
  <2>1. \E x : Places(i) = {x}
    <3>1. CASE d.inventory[i] # None
      <4>1. (\A a \in Auction : ~Sells(d, a, i)) /\ \A m \in Mail, r \in Player : ~Posted(d, m, i, r)
        BY <1>2, <3>1 DEF Clean
      <4>2. B = {} /\ L = {}
        BY <1>4, <1>6, <4>1
      <4>3. P = {d.inventory[i]}
        BY <1>2, <1>3, <1>4, <3>1
      <4> QED BY <1>5, <4>2, <4>3
    <3>2. ASSUME NEW a \in Auction, Sells(d, a, i) PROVE \E x : Places(i) = {x}
      <4>1. d.inventory[i] = None
        BY <1>2, <3>2 DEF Clean
      <4>2. \A m \in Mail, r \in Player : ~Posted(d, m, i, r)
        BY <1>2, <3>2 DEF Clean
      <4>3. P = {} /\ L = {}
        BY <1>3, <1>4, <1>6, <4>1, <4>2
      <4>4. \A b \in Auction : Sells(d, b, i) => b = a
        BY <1>2, <3>2 DEF DbInv
      <4>5. B = {a}
        BY <1>4, <3>2, <4>4
      <4> QED BY <1>5, <4>3, <4>5
    <3>3. ASSUME NEW m \in Mail, NEW r \in Player, Posted(d, m, i, r) PROVE \E x : Places(i) = {x}
      <4>1. d.inventory[i] = None /\ \A a \in Auction : ~Sells(d, a, i)
        BY <1>2, <3>3 DEF Clean
      <4>2. P = {} /\ B = {}
        BY <1>3, <1>4, <4>1
      <4>3. \A n \in Mail, q \in Player : Posted(d, n, i, q) => n = m
        BY <1>2, <3>3 DEF Clean
      <4>4. L = {<<m, i>>}
        BY <1>6, <1>7, <3>3, <4>3
      <4> QED BY <1>5, <4>2, <4>4
    <3> QED BY <1>2, <1>9, <3>1, <3>2, <3>3 DEF Exact, Somewhere
  <2>2. Cardinality(Places(i)) = 1
    BY <2>1, FS_Singleton
  <2> QED BY <1>1, <1>9, <2>2
<1> QED BY <1>8, <1>9

LEMMA NothingHolds ==
  ASSUME IInv, strayed = {}
  PROVE  NothingLostOrDoubled
<1>1. Money = MoneyIn(db, past)
  BY Zenon DEF Money, MoneyIn
<1>2. "money" \notin cut => Money = SumOver(start.gold, Player)
  BY <1>1, KeptWorld
<1> QED BY <1>2, OnePlace DEF NothingLostOrDoubled

-----------------------------------------------------------------------------
(* The theorems: as long as every item was taken through the mail it is in *)

\* Whatever the players, the items, the numbers of mails and auctions and what the clients
\* send: the invariant holds after every handler and every restart.
THEOREM InvHolds == TradeSpec => []IInv
BY InvInit, TradeNextInv, PTL DEF TradeSpec

\* No item or money is lost or doubled by a sale, a mail, a trade or an expiry, nor by a crash
\* between any two of their transactions, but for what the dying process had in hand.
THEOREM LedgerHolds == TradeSpec => [](strayed = {} => NothingLostOrDoubled)
<1>1. IInv => (strayed = {} => NothingLostOrDoubled)
  BY NothingHolds
<1> QED BY <1>1, InvHolds, PTL

\* What a player has in memory is what his next login would find.
THEOREM MemoryIsStored == TradeSpec => [](strayed = {} => MemoryStored)
<1>1. IInv => (strayed = {} => MemoryStored)
  BY MemoryHolds
<1> QED BY <1>1, InvHolds, PTL

\* The money of a sold auction is the money of the one who has its item.
THEOREM WinnersPay == TradeSpec => [](strayed = {} => WinnerPays)
<1>1. IInv => (strayed = {} => WinnerPays)
  BY WinnerHolds
<1> QED BY <1>1, InvHolds, PTL

\* No trade is left whose other side is gone.
THEOREM TradesArePaired == TradeSpec => [](strayed = {} => TradesPaired)
<1>1. IInv => (strayed = {} => TradesPaired)
  BY PairedHolds
<1> QED BY <1>1, InvHolds, PTL

=============================================================================
