-------------------------------- MODULE Mails --------------------------------
(***************************************************************************)
(* The character database and what the world thread keeps of it, as one    *)
(* record s that the handlers of mails and auctions transform.  A handler  *)
(* changes s.pl, the players in memory, and s.db; every transaction it     *)
(* ends, and every statement outside of one, is noted in s.txs, because    *)
(* the delay thread stores them one after the other and the process may    *)
(* die between any two.  A player's money is whole; the text of a mail,    *)
(* its stationery and the place of an item in a bag are left out.          *)
(***************************************************************************)
EXTENDS Integers, Sequences, FiniteSetsExt, TLC

CONSTANTS Player, Item, None,
          Mail,         \* identifiers of mails, 1 .. the most that exist at once
          Room,         \* places in the bags of a player
          MaxGold       \* MAX_MONEY_AMOUNT

ASSUME MailConstants ==
    /\ None \notin Player \cup Item
    /\ IsFiniteSet(Mail) /\ Mail = 1 .. Cardinality(Mail)
    /\ IsFiniteSet(Player) /\ IsFiniteSet(Item)
    /\ Room \in Nat /\ MaxGold \in Nat

\* A row of table mail.  kind is the message type with the masks that say a mail is the
\* payment of a cash on delivery or was returned.
MailRow == [receiver : Player, sender : Player \cup {None},
            kind : {"auction", "normal", "payment", "returned"}, money : Nat, cod : Nat]

\* A mail in the memory of its receiver, with the items that left it since it was saved.
MailState == {"unchanged", "changed", "deleted"}
Letter == [sender : Player \cup {None}, kind : {"auction", "normal", "payment", "returned"},
           money : Nat, cod : Nat, items : SUBSET Item, removed : SUBSET Item, state : MailState]
PlayerMails == UNION {[D -> Letter] : D \in SUBSET Mail}

\* CommitTransaction, or a statement by itself: open is what is stored by half if nothing
\* after it is, "money" or an item.
Commit(s, open) ==
    [s EXCEPT !.txs = Append(@, [db |-> s.db, past |-> s.past, open |-> open])]

InWorld(s, p) == s.pl[p] # None /\ s.pl[p].inWorld

FreeMails(s) == {m \in Mail : /\ s.db.mail[m] = None
                              /\ \A p \in Player : s.pl[p] # None => m \notin DOMAIN s.pl[p].mails}

\* The sum of the values of f on the finite set S.
SumOver(f, S) == MapThenSumSet(LAMBDA x : f[x], S)

\* History: money that nobody has any more.
Spent(s, money) == [s EXCEPT !.past.money = @ + money]

\* mail_items JOIN item_instance
Attached(d, m, p) == {i \in d.instance : <<m, i, p>> \in d.attached}

-----------------------------------------------------------------------------
(* The player *)

CanStoreItem(bag, items) == Cardinality(bag) + Cardinality(items) <= Room

\* What a full purse does not hold is gone.
ModifyMoney(s, p, d) ==
    LET gold == s.pl[p].gold + d
    IN IF gold > MaxGold THEN Spent([s EXCEPT !.pl[p].gold = MaxGold], gold - MaxGold)
       ELSE [s EXCEPT !.pl[p].gold = IF gold < 0 THEN 0 ELSE gold]

SaveInventoryAndGoldToDB(s, p) ==
    [s EXCEPT !.db.gold[p] = s.pl[p].gold,
              !.db.instance = @ \cup s.pl[p].bag,
              !.db.inventory = [i \in Item |-> IF i \in s.pl[p].bag THEN p
                                               ELSE IF @[i] = p THEN None ELSE @[i]]]

_SaveMail(s, p) ==
    LET mails == s.pl[p].mails
        Changed == {m \in DOMAIN mails : mails[m].state = "changed"}
        Deleted == {m \in DOMAIN mails : mails[m].state = "deleted"}
        removed == UNION {mails[m].removed : m \in Changed}
        t == [s EXCEPT
                !.db.instance = @ \ UNION {mails[m].items : m \in Deleted},
                !.db.mail = [m \in Mail |->
                    IF m \in Deleted THEN None
                    ELSE IF m \in Changed /\ @[m] # None
                         THEN [@[m] EXCEPT !.money = mails[m].money, !.cod = mails[m].cod]
                         ELSE @[m]],
                !.db.attached = {x \in @ : x[1] \notin Deleted /\ x[2] \notin removed},
                !.pl[p].mails = [m \in DOMAIN mails \ Deleted |->
                    [mails[m] EXCEPT !.state = "unchanged", !.removed = {}]]]
    IN Spent(t, SumOver([m \in Deleted |-> mails[m].money], Deleted))

\* Mutant: the other keeps his side.
Mutant_TradeCancel(s, p) == [s EXCEPT !.pl[p].trade = None]

\* Both sides of a trade end together.
TradeCancel(s, p) ==
    IF s.pl[p].trade = None THEN s
    ELSE [s EXCEPT !.pl[p].trade = None, !.pl[s.pl[p].trade.with].trade = None]

\* What the queries of a login find.
Loaded(d, p) ==
    [inWorld |-> FALSE, trade |-> None,
     gold |-> d.gold[p], bag |-> {i \in d.instance : d.inventory[i] = p},
     mails |-> [m \in {x \in Mail : d.mail[x] # None /\ d.mail[x].receiver = p} |->
                  [sender |-> d.mail[m].sender, kind |-> d.mail[m].kind,
                   money |-> d.mail[m].money, cod |-> d.mail[m].cod,
                   items |-> Attached(d, m, p), removed |-> {}, state |-> "unchanged"]]]

-----------------------------------------------------------------------------
(* Sending *)

AddMail(s, p, m, e) ==
    [s EXCEPT !.pl[p].mails = [x \in DOMAIN @ \cup {m} |-> IF x = m THEN e ELSE @[x]]]

\* The mail has its number before the transaction; only a receiver who is in the world
\* has it in memory too.
SendMailTo(s, receiver, sender, kind, money, cod, items, open) ==
    LET m == Min(FreeMails(s))
        row == [receiver |-> receiver, sender |-> sender, kind |-> kind,
                money |-> money, cod |-> cod]
        stored == Commit([s EXCEPT !.db.mail[m] = row,
                                   !.db.attached = @ \cup {<<m, i, receiver>> : i \in items}],
                         open)
        new == [sender |-> sender, kind |-> kind, money |-> money, cod |-> cod,
                items |-> items, removed |-> {}, state |-> "unchanged"]
    IN IF InWorld(s, receiver)
       THEN AddMail(stored, receiver, m, new)
       ELSE stored

=============================================================================
