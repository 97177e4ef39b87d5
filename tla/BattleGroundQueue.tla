--------------------------- MODULE BattleGroundQueue ---------------------------
(***************************************************************************)
(* The queue for one type of battleground, its running battlegrounds and   *)
(* the players who wait, are invited, travel, fight, log out and return.   *)
(* Everything runs on the world thread: an action is one packet handler,   *)
(* one event of a player, or one Update of the manager or a battleground.  *)
(* Clocks are left out: what waits for a time may happen at any step.      *)
(***************************************************************************)
EXTENDS Integers, SequencesExt

CONSTANTS
    Player, TeamOf,     \* the players, and the team of each
    Party,              \* the groups that may join together: sets of players of a team
    Start,              \* bound: the situations a behaviour starts from, elements of Situation
    BG,                 \* bound: instances at a time, those that are still referred to included
    None,               \* no instance: 0 in the source
    Free,               \* a queue slot of a player that is BATTLEGROUND_QUEUE_NONE
    MinPlayersPerTeam,  \* of a match
    Counts              \* bound: the counters of invited players wrap at this number

Team == {"ALLIANCE", "HORDE"}

\* The configuration (is PremadeGroupWaitForMatch set; CastDeserter; the places of a team); how
\* many instances there are at a time; who plays, who of them uses other teleports and who
\* logs out; and how many remove events a player has at most when he is invited.
Situation == [premadeWait : BOOLEAN, castDeserter : BOOLEAN, maxPlayersPerTeam : Nat,
              instances : SUBSET BG, client : SUBSET Player, traveller : SUBSET Player,
              leaver : SUBSET Player, events : [Player -> 1 .. 2]]

ASSUME BattleGroundConstants ==
    /\ TeamOf \in [Player -> Team]
    /\ \A party \in Party : /\ party \in (SUBSET Player) \ {{}}
                            /\ \A p, q \in party : TeamOf[p] = TeamOf[q]
    /\ MinPlayersPerTeam \in Nat \ {0}
    /\ None \notin BG /\ Free \notin BG /\ Free # None
    /\ Start \subseteq Situation
    /\ IsFiniteSet(Player) /\ Counts \in Nat /\ Counts > Cardinality(Player)

VARIABLES
    start,      \* the situation at the start
    player,     \* Player objects, and what is stored of those who are offline
    queue,      \* m_QueuedGroups: a sequence of GroupQueueInfo for each kind and team
    bgs,        \* m_BattleGrounds: None or a BattleGround
    free,       \* BGFreeSlotQueue
    scheduled,  \* m_QueueUpdateScheduler is not empty
    late,       \* history: places became free or groups came that no update will look at
    tainted     \* history: instances whose invitation passed over a player between maps

MaxPlayersPerTeam == start.maxPlayersPerTeam

vars == <<start, player, queue, bgs, free, scheduled, late, tainted>>

Kind == {"premade", "normal"}
Status == {"WAIT_JOIN", "IN_PROGRESS", "WAIT_LEAVE"}

\* A remove event is of the invitation the player has now if its m_RemoveTime is the
\* RemoveInviteTime of his group.
Event == [bg : BG, now : BOOLEAN]
Group == [players : (SUBSET Player) \ {{}}, invited : BG \cup {None}]
BattleGround == [status : Status, invited : [Team -> 0 .. Counts - 1],
                 members : SUBSET Player, offline : Seq(Player)]

\* The null pointer is no object.
ASSUME NoneIsNothing == None \notin BattleGround

TypeOK ==
    /\ player \in [Player -> [at : {"world", "to_bg", "travel", "offline"},
                              bg : BG \cup {None}, slot : BG \cup {None, Free},
                              deserter : {"no", "due", "yes"},
                              events : Seq(Event)]]
    /\ queue \in [Kind -> [Team -> Seq(Group)]]
    /\ bgs \in [BG -> BattleGround \cup {None}]
    /\ free \in Seq(BG)
    /\ {scheduled, late} \subseteq BOOLEAN /\ tainted \subseteq BG

Init ==
    /\ start \in Start
    /\ player = [p \in Player |->
                    [at |-> IF p \in start.client THEN "world" ELSE "offline",
                     bg |-> None, slot |-> Free, deserter |-> "no", events |-> <<>>]]
    /\ queue = [k \in Kind |-> [t \in Team |-> <<>>]]
    /\ bgs = [b \in BG |-> None]
    /\ free = <<>>
    /\ scheduled = FALSE /\ late = FALSE /\ tainted = {}

\* A handler works on a record s of everything and leaves the record it returns.
State == [player |-> player, queue |-> queue, bgs |-> bgs, free |-> free,
          scheduled |-> scheduled, late |-> late, tainted |-> tainted]

Becomes(s) ==
    /\ player' = s.player /\ queue' = s.queue /\ bgs' = s.bgs /\ free' = s.free
    /\ scheduled' = s.scheduled /\ UNCHANGED start
    /\ late' = s.late /\ tainted' = s.tainted

-----------------------------------------------------------------------------
(* The queue *)

InWorld(s, p) == s.player[p].at = "world"
ScheduleQueueUpdate(s) == [s EXCEPT !.scheduled = TRUE]

Without(q, x) == FoldLeft(LAMBDA r, y : IF y = x THEN r ELSE Append(r, y), <<>>, q)

Groups(s) == UNION {ToSet(s.queue[k][t]) : k \in Kind, t \in Team}
GroupsOf(s, p) == {g \in Groups(s) : p \in g.players}
Mutant_IsPlayerInvited(s, p, e) == \E g \in GroupsOf(s, p) : g.invited = e.bg
IsPlayerInvited(s, p, e) == e.now /\ \E g \in GroupsOf(s, p) : g.invited = e.bg

AddGroup(s, members, kind, team) ==
    [s EXCEPT !.queue[kind][team] = Append(@, [players |-> members, invited |-> None])]

AddToSlot(s, members) ==
    [s EXCEPT !.player = [p \in Player |-> IF p \in members THEN [@[p] EXCEPT !.slot = None]
                                                            ELSE @[p]]]

DecreaseInvitedCount(s, b, t) ==
    [s EXCEPT !.bgs[b].invited[t] = (@ + Counts - 1) % Counts]

\* The group goes with its last player.
GroupsWithout(q, p) ==
    FoldLeft(LAMBDA r, g : IF g.players = {p} THEN r
                           ELSE Append(r, [g EXCEPT !.players = @ \ {p}]),
             <<>>, q)

Outdated(events) == [i \in DOMAIN events |-> [events[i] EXCEPT !.now = FALSE]]

Unqueued(s, p) ==
    LET left(k) == [s.queue[k] EXCEPT ![TeamOf[p]] = GroupsWithout(@, p)]
    IN [s EXCEPT !.queue = [k \in Kind |-> left(k)], !.player[p].events = Outdated(@)]

Uncounted(s, p) ==
    LET Counted == {g.invited : g \in GroupsOf(s, p)} \cap {b \in BG : s.bgs[b] # None}
    IN IF Counted = {} THEN s
       ELSE DecreaseInvitedCount(s, CHOOSE b \in Counted : TRUE, TeamOf[p])

Mutant_RemovePlayer(s, p, decreaseInvitedCount) == Unqueued(Uncounted(s, p), p)
RemovePlayer(s, p, decreaseInvitedCount) ==
    Unqueued(IF decreaseInvitedCount THEN Uncounted(s, p) ELSE s, p)

\* ObjectMgr::GetPlayer finds only who is in a map: a player between two maps is passed over.
InviteGroupsToBG(s, selected, b) ==
    LET Invited(g) == IF g.players \in selected THEN [g EXCEPT !.invited = b] ELSE g
        told == {p \in UNION selected : InWorld(s, p)}
        Told(me) == [me EXCEPT !.slot = IF @ = Free THEN Free ELSE b,
                               !.events = Append(@, [bg |-> b, now |-> TRUE])]
    IN [s EXCEPT
          !.queue = [k \in Kind |-> [t \in Team |->
                        [i \in DOMAIN @[k][t] |-> Invited(@[k][t][i])]]],
          !.bgs[b].invited = [t \in Team |->
                        (@[t] + Cardinality({p \in told : TeamOf[p] = t})) % Counts],
          !.player = [p \in Player |-> IF p \in told THEN Told(@[p]) ELSE @[p]],
          !.tainted = IF told = UNION selected THEN @ ELSE @ \cup {b}]

-----------------------------------------------------------------------------
(* Selection pools: sets of players who wait together, and their number *)

NoPool == [groups |-> {}, count |-> 0]

\* Groups of q that are not invited, in order, as they fit, until there are enough players.
Select(q, pool, desiredCount, enough) ==
    FoldLeft(LAMBDA sel, g :
                IF /\ g.invited = None /\ sel.count < enough
                   /\ sel.count + Cardinality(g.players) <= desiredCount
                THEN [groups |-> sel.groups \cup {g.players},
                      count |-> sel.count + Cardinality(g.players)]
                ELSE sel,
             pool, q)

GetFreeSlotsForTeam(s, b, t) ==
    IF /\ s.bgs[b].status \in {"WAIT_JOIN", "IN_PROGRESS"}
       /\ s.bgs[b].invited[t] < MaxPlayersPerTeam
    THEN MaxPlayersPerTeam - s.bgs[b].invited[t]
    ELSE 0

HasFreeSlots(s, b) == Cardinality(s.bgs[b].members) < 2 * MaxPlayersPerTeam
RemoveFromBGFreeSlotQueue(s, b) == [s EXCEPT !.free = Without(@, b)]
AddToBGFreeSlotQueue(s, b) ==
    IF b \in ToSet(s.free) THEN s ELSE [s EXCEPT !.free = <<b>> \o @]

FillPlayersToBG(s, b) ==
    LET Places(t) == GetFreeSlotsForTeam(s, b, t)
        Pool(t) == Select(s.queue["normal"][t], NoPool, Places(t), Places(t))
        filled == InviteGroupsToBG(s, UNION {Pool(t).groups : t \in Team}, b)
    IN IF s.bgs[b].status = "WAIT_LEAVE" THEN s
       ELSE IF HasFreeSlots(filled, b) THEN filled
       ELSE RemoveFromBGFreeSlotQueue(filled, b)

\* An instance nothing refers to: the identifiers of the source are never used again.
FreshBG(s) ==
    {b \in start.instances :
        /\ s.bgs[b] = None
        /\ \A g \in Groups(s) : g.invited # b
        /\ \A p \in Player : /\ b \notin {s.player[p].bg, s.player[p].slot}
                             /\ \A e \in ToSet(s.player[p].events) : e.bg # b}

CreateNewBattleGround(s, pool) ==
    LET b == CHOOSE x \in FreshBG(s) : TRUE
        created == [s EXCEPT !.bgs[b] = [status |-> "WAIT_JOIN", invited |-> [t \in Team |-> 0],
                                         members |-> {}, offline |-> <<>>],
                             !.tainted = @ \ {b}, !.late = TRUE]
    IN AddToBGFreeSlotQueue(
           InviteGroupsToBG(created, UNION {pool[t].groups : t \in Team}, b), b)

\* The first groups of the two teams that are not invited, with groups of the normal queue up
\* to the size of the bigger one.
Waiting(q) == {i \in DOMAIN q : q[i].invited = None}
PremadePool(s) ==
    LET First(t) == LET q == s.queue["premade"][t]
                    IN Select(<<q[Min(Waiting(q))]>>, NoPool, MaxPlayersPerTeam, MaxPlayersPerTeam)
        size == IF First("ALLIANCE").count < First("HORDE").count
                THEN First("HORDE").count ELSE First("ALLIANCE").count
    IN [t \in Team |-> Select(s.queue["normal"][t], First(t), size, size)]

CanStartPremade(s) == \A t \in Team : Waiting(s.queue["premade"][t]) # {}

\* A group that has waited too long, or is too small by now, waits with the others.
PremadeToNormal(s, expired) ==
    LET Moves(t) == LET q == s.queue["premade"][t] IN
            /\ q # <<>> /\ Head(q).invited = None
            /\ t \in expired \/ Cardinality(Head(q).players) < MinPlayersPerTeam
    IN [s EXCEPT
          !.queue = [premade |-> [t \in Team |-> IF Moves(t) THEN Tail(@["premade"][t])
                                                             ELSE @["premade"][t]],
                     normal |-> [t \in Team |-> IF Moves(t)
                                                THEN <<Head(@["premade"][t])>> \o @["normal"][t]
                                                ELSE @["normal"][t]]],
          !.late = @ \/ \E t \in Team : Moves(t)]

\* CheckPremadeMatch and the match it finds.
PremadeMatch(s, expired) ==
    IF CanStartPremade(s) THEN CreateNewBattleGround(s, PremadePool(s))
                          ELSE PremadeToNormal(s, expired)

NormalPool(s) ==
    [t \in Team |-> Select(s.queue["normal"][t], NoPool, MaxPlayersPerTeam, MinPlayersPerTeam)]
CheckNormalMatch(s) == \A t \in Team : NormalPool(s)[t].count >= MinPlayersPerTeam
NormalMatch(s) ==
    IF CheckNormalMatch(s) THEN CreateNewBattleGround(s, NormalPool(s)) ELSE s

\* BattleGroundQueue::Update fills the battlegrounds with a free place, in their order, and then
\* starts a premade match and a normal one; there are enough instances for them (bound).
Filled(s) ==
    LET looked == [s EXCEPT !.scheduled = FALSE, !.late = FALSE]
    IN IF Groups(s) = {} THEN looked ELSE FoldLeft(FillPlayersToBG, looked, s.free)

Update ==
    /\ scheduled
    /\ \E expired \in SUBSET Team :
          LET filled == Filled(State)
              rest == PremadeMatch(filled, expired)
          IN /\ CanStartPremade(filled) => FreshBG(filled) # {}
             /\ CheckNormalMatch(rest) => FreshBG(rest) # {}
             /\ Becomes(NormalMatch(rest))

-----------------------------------------------------------------------------
(* Packets of players *)

CanJoin(p) == player[p].slot = Free /\ player[p].deserter # "yes"

HandleBattlemasterJoin(p) ==
    /\ InWorld(State, p) /\ player[p].bg = None
    /\ CanJoin(p)
    /\ Len(player[p].events) < start.events[p]
    /\ Becomes(ScheduleQueueUpdate(AddToSlot(AddGroup(State, {p}, "normal", TeamOf[p]), {p})))

\* Only who is online is asked and joins; the party counts as a premade with all its members.
HandleBattlemasterJoinGroup(leader, party) ==
    LET members == {p \in party : player[p].at # "offline"}
        premade == start.premadeWait /\ Cardinality(party) >= MinPlayersPerTeam
    IN /\ leader \in party /\ Cardinality(party) <= MaxPlayersPerTeam
       /\ InWorld(State, leader) /\ player[leader].bg = None
       /\ \A p \in members : CanJoin(p) /\ Len(player[p].events) < start.events[p]
       /\ Becomes(ScheduleQueueUpdate(AddToSlot(
              AddGroup(State, members, IF premade THEN "premade" ELSE "normal", TeamOf[leader]),
              members)))

FreeSlot(s, p) == [s EXCEPT !.player[p].slot = Free]

\* The player may enter, or leave the queue; who got the deserter's mark meanwhile leaves it.
Mutant_Declines_Slot(p) == Becomes(ScheduleQueueUpdate(RemovePlayer(State, p, TRUE)))
Mutant_Declines_Update(p) == Becomes(RemovePlayer(FreeSlot(State, p), p, TRUE))
Declines(p) == Becomes(ScheduleQueueUpdate(RemovePlayer(FreeSlot(State, p), p, TRUE)))
HandleBattleFieldPort(p, enter) ==
    /\ InWorld(State, p) /\ player[p].slot # Free
    /\ \E g \in GroupsOf(State, p) :
          IF ~enter THEN Declines(p)
          ELSE /\ g.invited # None /\ bgs[g.invited] # None
               /\ IF player[p].deserter = "yes" THEN Declines(p)
                  ELSE /\ player[p].slot # None
                       /\ Becomes([RemovePlayer(State, p, FALSE) EXCEPT
                                      !.player[p].bg = g.invited, !.player[p].at = "to_bg"])

-----------------------------------------------------------------------------
(* Entering and leaving a battleground *)

\* TeleportToBGEntryPoint takes a player who is in a map out of it, or is delayed until the
\* place he goes to is loaded (far = FALSE).
RemovePlayerAtLeave(s, b, p, transport, far) ==
    LET here == InWorld(s, p)
        counted == DecreaseInvitedCount([s EXCEPT !.bgs[b].members = @ \ {p}], b, TeamOf[p])
        told == IF here THEN FreeSlot(counted, p) ELSE counted
        left == IF p \notin s.bgs[b].members THEN s
                ELSE IF s.bgs[b].status = "WAIT_LEAVE" THEN told
                ELSE ScheduleQueueUpdate(AddToBGFreeSlotQueue(told, b))
    IN IF ~here THEN left
       ELSE [left EXCEPT !.player[p].bg = None,
                         !.player[p].at = IF transport /\ far THEN "travel" ELSE @]

\* A player who is on his way gets the deserter's mark when he arrives, and then the test for
\* an empty battleground is not reached.
LeaveBattleground(s, p, transport, far) ==
    LET b == s.player[p].bg
        left == RemovePlayerAtLeave(s, b, p, transport, far)
        runs == start.castDeserter /\ left.bgs[b].status # "WAIT_LEAVE"
        marked == IF runs THEN [left EXCEPT !.player[p].deserter = "yes"] ELSE left
    IN IF runs /\ left.player[p].at = "travel" THEN [left EXCEPT !.player[p].deserter = "due"]
       ELSE IF left.bgs[b].status = "IN_PROGRESS" /\ left.bgs[b].members = {}
       THEN [marked EXCEPT !.bgs[b].status = "WAIT_LEAVE"]
       ELSE marked

Inside(p) == player[p].bg # None /\ bgs[player[p].bg] # None

HandleLeaveBattlefield(p) ==
    /\ InWorld(State, p) /\ Inside(p)
    /\ \E far \in BOOLEAN : Becomes(LeaveBattleground(State, p, TRUE, far))

\* Any other teleport to a map that is not the battleground's.
TeleportTo(p) ==
    /\ InWorld(State, p)
    /\ LET s == IF Inside(p) THEN LeaveBattleground(State, p, FALSE, TRUE) ELSE State
       IN Becomes([s EXCEPT !.player[p].at = "travel"])

\* The end of a far teleport; who finds no battleground any more is put back where he was.
Arrived(s, p) ==
    LET me == s.player[p]
        marked == [me EXCEPT !.at = "world",
                             !.deserter = IF @ = "due" THEN "yes" ELSE @]
    IN IF me.at = "to_bg"
       THEN IF s.bgs[me.bg] = None THEN [s EXCEPT !.player[p].at = "world"]
            ELSE LET there == [s EXCEPT !.player[p] = marked]
                 IN IF me.slot = me.bg
                    THEN [there EXCEPT !.bgs[me.bg].members = @ \cup {p}]
                    ELSE there
       ELSE [s EXCEPT !.player[p] = [marked EXCEPT !.bg = None]]

Moving(p) == player[p].at \in {"to_bg", "travel"}
HandleMoveWorldportAck(p) == Moving(p) /\ Becomes(Arrived(State, p))

\* LogoutPlayer ends his teleport first.  His place in a battleground is kept for a while; the
\* queue forgets him, and is not updated.
LogoutPlayer(p) ==
    LET s == IF Moving(p) THEN Arrived(State, p) ELSE State
        b == s.player[p].bg
        kept == IF b = None \/ s.bgs[b] = None THEN s
                ELSE [s EXCEPT !.bgs[b].members = @ \cup {p}, !.bgs[b].offline = Append(@, p)]
        out == IF s.player[p].slot = Free THEN kept
               ELSE RemovePlayer(FreeSlot(kept, p), p, TRUE)
    IN /\ player[p].at # "offline"
       /\ Becomes([out EXCEPT !.player[p].at = "offline", !.player[p].events = <<>>,
                              !.late = @ \/ GroupsOf(s, p) # {}])

\* Player::LoadFromDB: back into a battleground that still runs, or out of it.
LoadPlayer(p) ==
    LET b == player[p].bg
        member == Inside(p) /\ p \in bgs[b].members
        s == [State EXCEPT !.player[p].at = "world"]
        removed == IF member THEN RemovePlayerAtLeave(State, b, p, FALSE, FALSE) ELSE State
    IN /\ player[p].at = "offline"
       /\ Becomes(IF member /\ bgs[b].status # "WAIT_LEAVE"
                  THEN [s EXCEPT !.player[p].slot = b,
                                 !.bgs[b].offline = Without(@, p)]
                  ELSE [removed EXCEPT !.player[p].at = "world", !.player[p].bg = None])

DeserterEnds(p) ==
    /\ player[p].deserter = "yes"
    /\ Becomes([State EXCEPT !.player[p].deserter = "no"])

-----------------------------------------------------------------------------
(* Timers *)

\* BGQueueRemoveEvent::Execute
RemoveEvent(p) ==
    /\ InWorld(State, p) /\ player[p].events # <<>>
    /\ LET e == Head(player[p].events)
           s == [State EXCEPT !.player[p].events = Tail(@)]
           out == RemovePlayer(FreeSlot(s, p), p, TRUE)
       IN Becomes(IF player[p].slot = Free \/ ~IsPlayerInvited(State, p, e) THEN s
                  ELSE IF bgs[e.bg] = None \/ bgs[e.bg].status = "WAIT_LEAVE" THEN out
                  ELSE ScheduleQueueUpdate(out))

EndBattleGround(s, b) ==
    [RemoveFromBGFreeSlotQueue(s, b) EXCEPT !.bgs[b].status = "WAIT_LEAVE"]

\* A team wins.
Wins(b) ==
    /\ bgs[b] # None /\ bgs[b].status = "IN_PROGRESS"
    /\ Becomes(EndBattleGround(State, b))

TooFew(bg) ==
    \E t \in Team : Cardinality({p \in bg.members : TeamOf[p] = t}) < MinPlayersPerTeam

AllRemoved(s, b, far) ==
    FoldLeft(LAMBDA x, p : RemovePlayerAtLeave(x, b, p, TRUE, far), s,
             SetToSeq(s.bgs[b].members))

\* BattleGround::Update: it deletes itself, or one of its timers has run out.  Two that run
\* out in one call do what they do in two.
UpdateBG(b) ==
    LET bg == bgs[b]
    IN /\ bg # None
       /\ \/ /\ bg.members = {} /\ \A t \in Team : bg.invited[t] = 0
             /\ Becomes([RemoveFromBGFreeSlotQueue(State, b) EXCEPT !.bgs[b] = None])
          \/ /\ bg.offline # <<>> /\ Head(bg.offline) \in bg.members
             /\ Becomes([RemovePlayerAtLeave(State, b, Head(bg.offline), TRUE, TRUE)
                             EXCEPT !.bgs[b].offline = Tail(@)])
          \/ /\ bg.members # {} /\ bg.status = "IN_PROGRESS" /\ TooFew(bg)
             /\ Becomes(EndBattleGround(State, b))
          \/ /\ bg.members # {} /\ bg.status = "WAIT_JOIN"
             /\ Becomes([State EXCEPT !.bgs[b].status = "IN_PROGRESS"])
          \/ /\ bg.members # {} /\ bg.status = "WAIT_LEAVE"
             /\ \E far \in BOOLEAN : Becomes(AllRemoved(State, b, far))

-----------------------------------------------------------------------------

PlayerActs(p) ==
    \/ HandleBattlemasterJoin(p)
    \/ \E party \in Party : HandleBattlemasterJoinGroup(p, party)
    \/ \E enter \in BOOLEAN : HandleBattleFieldPort(p, enter)
    \/ HandleLeaveBattlefield(p)
    \/ p \in start.traveller /\ TeleportTo(p)
    \/ HandleMoveWorldportAck(p)
    \/ p \in start.leaver /\ LogoutPlayer(p)
    \/ LoadPlayer(p)
    \/ DeserterEnds(p)
    \/ RemoveEvent(p)

Next ==
    \/ Update
    \/ \E p \in start.client : PlayerActs(p)
    \/ \E b \in BG : Wins(b) \/ UpdateBG(b)

Spec == Init /\ [][Next]_vars

-----------------------------------------------------------------------------
(* Properties *)

\* The counters that decide who is invited and when a battleground is deleted agree with the
\* players: each invited, travelling or fighting player has a place, counted once, and no
\* team gets more than its places.  Only where the invitation passed over a player who was
\* between two maps ("this should not happen") do they drift.
HasPlace(p, b) ==
    \/ \E g \in GroupsOf(State, p) : g.invited = b
    \/ player[p].at = "to_bg" /\ player[p].bg = b
    \/ bgs[b] # None /\ p \in bgs[b].members

CountsExact ==
    /\ TypeOK
    /\ \A b \in {x \in BG \ tainted : bgs[x] # None}, t \in Team :
          /\ bgs[b].invited[t] = Cardinality({p \in Player : TeamOf[p] = t /\ HasPlace(p, b)})
          /\ bgs[b].invited[t] <= MaxPlayersPerTeam

\* The queue, the slots of a player and the battlegrounds agree about him: he waits in one
\* group at most and has the slot for it or for his battleground; an invitation he knows of
\* has an event that ends it; and he is a member of the battleground he is in only.
InvitationHolds ==
    /\ \A p \in Player : LET me == player[p] IN
          /\ Cardinality(GroupsOf(State, p)) <= 1
          /\ \A g \in GroupsOf(State, p) :
                /\ me.slot = g.invited \/ (me.slot = None /\ g.invited \in tainted)
                /\ me.slot \in BG => [bg |-> g.invited, now |-> TRUE] \in ToSet(me.events)
          /\ GroupsOf(State, p) = {} /\ me.slot \notin tainted \cup {Free} =>
                me.slot = me.bg /\ me.slot # None /\ me.at \in {"world", "to_bg"}
    /\ \A b \in BG : bgs[b] # None => \A p \in bgs[b].members :
          player[p].bg = b /\ (player[p].at = "world" => player[p].slot = b)

\* "4. player left queue and he joined again and he has been invited to same battleground
\* again -> we should not remove him from queue yet" (WorldObjectEvents.cpp): an event that
\* runs out ends the invitation it was made for and no other.
Invitation(p) == {g.invited : g \in GroupsOf(State, p)} \ {None}
InvitationLasts ==
    [][\A p \in Player :
          /\ player'[p].at # "offline" /\ Len(player'[p].events) < Len(player[p].events)
          /\ Invitation(p)' # Invitation(p)
          => Head(player[p].events).now]_vars

\* "this method is called when group is inserted, or player / group is removed from BG Queue"
\* (BattleGroundQueue::Update): while no update is scheduled, nobody waits for a place that
\* is free or for a match that could start, unless it became possible by a logout or in the
\* last update itself.
PlacesOffered ==
    ~scheduled /\ ~late =>
        /\ ~CheckNormalMatch(State)
        /\ \A b \in BG, t \in Team : bgs[b] # None =>
              \A i \in Waiting(queue["normal"][t]) :
                  Cardinality(queue["normal"][t][i].players) > GetFreeSlotsForTeam(State, b, t)

=============================================================================
