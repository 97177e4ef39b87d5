----------------------------- MODULE UnitSpells -----------------------------
(***************************************************************************)
(* The spells one unit casts.  A Spell is a heap object that two parts of  *)
(* the unit hold by raw pointers: its SpellEvent in the event list, which  *)
(* deletes it, and m_currentSpells, one slot for each way of casting.  The *)
(* update of the unit executes the events that are due, then clears the    *)
(* slots; between updates the game starts and interrupts casts, and it     *)
(* does both again from inside the effects of a cast.                      *)
(***************************************************************************)
EXTENDS EventProcessor, FiniteSetsExt

CONSTANTS
    Sp,         \* the addresses of Spell objects, 1 .. the most that live at once
    Cast,       \* names of the spells the unit knows
    SpellInfo,  \* for each its spell store entry: an element of SpellEntry
    MaxNest,    \* bound: the casts from inside the effects of casts
    Ticks,      \* the times that can pass between two updates
    None

Slots == {"melee", "generic", "channeled", "autorepeat"}

\* casttime, the duration of the channel, the times its targets are hit after a flight,
\* and whether an autorepeat spell is Auto Shot.
SpellEntry == [slot : Slots, casttime : Nat, duration : Nat, flight : SUBSET (Nat \ {0}),
               autoshot : BOOLEAN]

ASSUME SpellConstants ==
    /\ Sp = 1 .. Cardinality(Sp)
    /\ \A c \in Cast : /\ SpellInfo[c].slot \in Slots
                       /\ SpellInfo[c].casttime \in Nat /\ SpellInfo[c].duration \in Nat
                       /\ SpellInfo[c].flight \subseteq Nat \ {0}
                       /\ SpellInfo[c].autoshot \in BOOLEAN
                       /\ SpellInfo[c].duration > 0 <=> SpellInfo[c].slot = "channeled"
    /\ MaxNest \in Nat
    /\ Ticks \subseteq Nat \ {0}
    /\ None \notin Sp

VARIABLES
    spell,      \* the Spell objects, None where there is none
    current,    \* m_currentSpells: by slot a spell, or None
    queue,      \* m_queue: new events
    needKill,   \* bNeedKill
    events,     \* m_events
    p_time,     \* the time this update adds while the events are executed, else None
    deleted,    \* the unit was deleted
    leaked      \* history: spells whose event is gone and that nothing will delete

vars == <<spell, current, queue, needKill, events, p_time, deleted, leaked>>

Event == [spell : Sp, time : Int, abort : BOOLEAN]
Spell == [info : Cast, triggered : BOOLEAN,
          state : {"preparing", "casting", "delayed", "finished"},
          timer : Nat,              \* m_timer
          age : Nat \cup {None},    \* the time since m_delayStart; None: not started
          left : SUBSET Nat,        \* flight times of the targets not yet processed
          handled : BOOLEAN,        \* m_immediateHandled
          referenced : BOOLEAN,     \* m_referencedFromCurrentSpell
          executed : BOOLEAN]       \* m_executedCurrently

\* The part of the unit the operations below take; each returns the set of its outcomes.
Unit == [spell : [Sp -> Spell \cup {None}], current : [Slots -> Sp \cup {None}],
         queue : Seq(Event), needKill : BOOLEAN]

TypeOK ==
    /\ \A s \in Sp : spell[s] # None =>
          /\ DOMAIN spell[s] = {"info", "triggered", "state", "timer", "age", "left", "handled",
                                "referenced", "executed"}
          /\ spell[s].info \in Cast
          /\ spell[s].state \in {"preparing", "casting", "delayed", "finished"}
          /\ spell[s].timer \in Nat
    /\ current \in [Slots -> Sp \cup {None}]
    /\ \A q \in {queue, events} : \A i \in DOMAIN q : q[i].spell \in Sp /\ q[i].time \in Int
    /\ p_time \in Ticks \cup {None}
    /\ deleted \in BOOLEAN /\ leaked \subseteq Sp

u0 == [spell |-> spell, current |-> current, queue |-> queue, needKill |-> needKill]

Info(u, s) == SpellInfo[u.spell[s].info]
Finished(u, s) == u.spell[s].state = "finished"
Mutant_IsDeletable(u, s) == ~u.spell[s].executed
IsDeletable(u, s) == ~u.spell[s].referenced /\ ~u.spell[s].executed
Each(us, Op(_)) == UNION {Op(u) : u \in us}

\* AddEvent: the time is relative to now.
AddEvent(u, s, time) ==
    [u EXCEPT !.queue = Append(@, [spell |-> s, time |-> time, abort |-> FALSE])]

-----------------------------------------------------------------------------
(* The slots *)

Mutant_Cleared(u, k) == [u EXCEPT !.current[k] = None]

\* SetReferencedFromCurrent(false) and a null pointer, for a slot that is still taken.
Cleared(u, k) ==
    IF u.current[k] = None THEN u
    ELSE [u EXCEPT !.spell[u.current[k]].referenced = FALSE, !.current[k] = None]

\* Spell::finish(false); the effects of a successful end are added where it is called.
Finish(u, s) == [u EXCEPT !.spell[s].state = "finished"]

\* Spell::cancel: the end of a channel removes its auras, and an aura that goes may
\* interrupt the channel again before this call has finished the spell.
Cancel(u, s) ==
    IF Finished(u, s) THEN {u}
    ELSE LET again == IF u.current["channeled"] = None THEN u
                      ELSE Cleared(Finish(u, u.current["channeled"]), "channeled")
         IN {Finish(v, s) : v \in IF u.spell[s].state = "casting" THEN {u, again} ELSE {u}}

Breaks(u, k, withDelayed) ==
    /\ u.current[k] # None
    /\ withDelayed \/ u.spell[u.current[k]].state # "delayed"

InterruptSpell(u, k, withDelayed) ==
    IF ~Breaks(u, k, withDelayed) THEN {u}
    ELSE {Cleared(v, k) : v \in Cancel(u, u.current[k])}

InterruptNonMeleeSpells(u, withDelayed) ==
    Each(Each(InterruptSpell(u, "generic", withDelayed),
              LAMBDA v : InterruptSpell(v, "autorepeat", withDelayed)),
         LAMBDA v : InterruptSpell(v, "channeled", TRUE))

IsNonMeleeSpellCasted(u, withDelayed, skipChanneled, skipAutorepeat) ==
    LET Has(k) == u.current[k] # None
        generic == /\ Has("generic") /\ ~Finished(u, u.current["generic"])
                   /\ withDelayed \/ u.spell[u.current["generic"]].state # "delayed"
    IN \/ generic
       \/ ~skipChanneled /\ Has("channeled") /\ ~Finished(u, u.current["channeled"])
       \/ ~skipAutorepeat /\ Has("autorepeat")

\* Autorepeat is broken by other casts unless it is Auto Shot.
BreakAutorepeat(u) ==
    IF u.current["autorepeat"] = None \/ Info(u, u.current["autorepeat"]).autoshot THEN {u}
    ELSE InterruptSpell(u, "autorepeat", TRUE)

Mutant_Broken(u, s) == InterruptSpell(u, Info(u, s).slot, TRUE)

\* The breakages of SetCurrentCastedSpell for a spell of each slot.
Broken(u, s) ==
    LET k == Info(u, s).slot
        same == InterruptSpell(u, k, FALSE)
    IN CASE k = "generic" ->
                Each(Each(same, LAMBDA v : InterruptSpell(v, "channeled", FALSE)),
                     BreakAutorepeat)
         [] k = "channeled" ->
                Each(Each(Each(same, LAMBDA v : InterruptSpell(v, "generic", FALSE)),
                          LAMBDA v : InterruptSpell(v, "channeled", TRUE)),
                     BreakAutorepeat)
         [] k = "autorepeat" /\ ~Info(u, s).autoshot ->
                Each(Each(same, LAMBDA v : InterruptSpell(v, "generic", FALSE)),
                     LAMBDA v : InterruptSpell(v, "channeled", FALSE))
         [] OTHER -> same

\* "current spell (if it is still here) may be safely deleted now"
SetCurrentCastedSpell(u, s) ==
    LET k == Info(u, s).slot
    IN {[Cleared(v, k) EXCEPT !.current[k] = s, !.spell[s].referenced = TRUE] :
            v \in Broken(u, s)}

-----------------------------------------------------------------------------
(* The life of a spell.  The effects of a cast may cast again: the last argument *)
(* of these operators is how deep such casts may still nest.                     *)

Free(u) == {s \in Sp : u.spell[s] = None}
Address(u) == CHOOSE s \in Free(u) : \A f \in Free(u) : s <= f
NewSpell(c, triggered) ==
    [info |-> c, triggered |-> triggered, state |-> "preparing", timer |-> 0, age |-> None,
     left |-> {}, handled |-> FALSE, referenced |-> FALSE, executed |-> FALSE]

\* What the effects of spell s do to its caster.
RECURSIVE Effects(_, _, _)

\* A successful end casts the spells triggered by it.
FinishOk(u, s, n) ==
    IF Finished(u, s) THEN {u} ELSE Effects(Finish(u, s), s, n)

\* Effects that need no target, the start of a channel, the effects on the targets, the
\* end unless the channel goes on.
handle_immediate(u, s, n) ==
    LET Channel(v) == IF Info(v, s).duration = 0 THEN v
                      ELSE [v EXCEPT !.spell[s].state = "casting",
                                     !.spell[s].timer = Info(v, s).duration]
        hit == Each({Channel(v) : v \in Effects(u, s, n)}, LAMBDA v : Effects(v, s, n))
    IN Each(hit, LAMBDA v : IF v.spell[s].state = "casting" THEN {v} ELSE FinishOk(v, s, n))

\* The targets whose flight time has passed are hit; the next time of a hit is in left.
handle_delayed(u, s, n) ==
    LET hits == {t \in u.spell[s].left : t <= u.spell[s].age}
        immediate == IF u.spell[s].handled THEN {u}
                     ELSE Effects([u EXCEPT !.spell[s].handled = TRUE], s, n)
        hit == IF hits = {} THEN immediate
               ELSE Each({[v EXCEPT !.spell[s].left = @ \ hits] : v \in immediate},
                         LAMBDA v : Effects(v, s, n))
    IN Each(hit, LAMBDA v : IF v.spell[s].left = {} THEN FinishOk(v, s, n) ELSE {v})

\* Spell::cast: a check fails, or the cast was cancelled before, or the spell flies off
\* (and what it triggers is cast at once), or it takes effect at once.
cast(u, s, n) ==
    LET begun == [u EXCEPT !.spell[s].executed = TRUE]
        flies == [begun EXCEPT !.spell[s].state = "delayed", !.spell[s].age = None,
                               !.spell[s].handled = FALSE,
                               !.spell[s].left = Info(u, s).flight]
        done == {Finish(begun, s)} \cup
                (IF Finished(u, s) THEN {}
                 ELSE IF Info(u, s).flight # {} THEN Effects(flies, s, n)
                 ELSE handle_immediate(begun, s, n))
    IN {[v EXCEPT !.spell[s].executed = FALSE] : v \in done}

\* Spell::prepare of a new spell at a free address: the event is added before the checks
\* that may refuse the cast.  byClient: the cast has a count (CMSG_CAST_SPELL).
prepare(u, c, triggered, byClient, n) ==
    LET s == Address(u)
        added == AddEvent([u EXCEPT !.spell[s] = NewSpell(c, triggered)], s, 1)
        timed == [added EXCEPT !.spell[s].timer = SpellInfo[c].casttime]
        inProgress == byClient /\ IsNonMeleeSpellCasted(u, FALSE, TRUE, TRUE)
    IN (IF inProgress \/ SpellInfo[c].slot # "autorepeat" THEN {Finish(added, s)} ELSE {})
       \cup (IF inProgress THEN {}
             ELSE IF triggered THEN cast(timed, s, n)
             ELSE SetCurrentCastedSpell(timed, s))

\* What effects may do to the caster: interrupt its casts, stop its attack, finish the
\* spell itself, and cast another spell.  (A new AI only sets needKill, which nothing
\* reads before the next update: CleanupEventList.)
Effects(u, s, n) ==
    {u, Finish(u, s)} \cup InterruptNonMeleeSpells(u, FALSE) \cup InterruptSpell(u, "melee", TRUE)
    \cup (IF n = 0 \/ Free(u) = {} THEN {}
          ELSE UNION {prepare(u, c, triggered, FALSE, n - 1) :
                         c \in Cast, triggered \in BOOLEAN})

\* Spell::update: the target is lost or the caster has moved, or time passes.
update(u, s, n) ==
    LET sp == u.spell[s]
        rest == IF sp.timer > p_time THEN sp.timer - p_time ELSE 0
        Waits == Info(u, s).slot \in {"melee", "autorepeat"}
        Timed(v) == [v EXCEPT !.spell[s].timer = rest]
        hidden == {u} \cup (IF sp.timer > 0 THEN Cancel(u, s) ELSE {})
        ended == {u} \cup Cancel(u, s) \cup FinishOk(u, s, n)
        passed ==
            CASE sp.state = "preparing" ->
                   IF rest > 0 \/ Waits THEN {Timed(v) : v \in hidden}
                   ELSE Each({Timed(v) : v \in hidden}, LAMBDA v : cast(v, s, n))
              [] sp.state = "casting" ->
                   IF rest > 0 THEN {Timed(v) : v \in ended}
                   ELSE Each({Timed(v) : v \in ended}, LAMBDA v : FinishOk(v, s, n))
              [] OTHER -> {u}
    IN Cancel(u, s) \cup passed

\* SpellEvent::Execute after the update.  An outcome without a new event in the queue
\* means that the event returned true.
Execute(u, s, n) ==
    LET sp == u.spell[s]
        Again(v) == AddEvent(v, s, 1)
        First(v) == CHOOSE t \in v.spell[s].left : \A l \in v.spell[s].left : t <= l
    IN CASE sp.state = "finished" -> IF IsDeletable(u, s) THEN {u} ELSE {Again(u)}
         [] sp.state = "delayed" /\ sp.age = None ->
              {AddEvent([u EXCEPT !.spell[s].age = 0], s, First(u))}
         [] sp.state = "delayed" /\ sp.age # None /\ Info(u, s).duration > 0 ->
              {Again(v) : v \in IF IsNonMeleeSpellCasted(u, FALSE, TRUE, TRUE)
                                THEN Cancel(u, s) ELSE handle_immediate(u, s, n)}
         [] sp.state = "delayed" /\ sp.age # None /\ Info(u, s).duration = 0 ->
              {IF v.spell[s].left = {} THEN Again(v)
               ELSE AddEvent(v, s, First(v) - sp.age) :
                   v \in handle_delayed(u, s, n)}
         [] OTHER -> {Again(u)}

-----------------------------------------------------------------------------
(* The unit *)

historyVars == <<deleted, leaked>>

Become(u) ==
    /\ spell' = u.spell /\ current' = u.current
    /\ queue' = u.queue /\ needKill' = u.needKill

Init ==
    /\ spell = [s \in Sp |-> None]
    /\ current = [k \in Slots |-> None]
    /\ queue = << >> /\ events = << >>
    /\ needKill \in BOOLEAN     \* bNeedKill is not initialised
    /\ p_time = None
    /\ deleted = FALSE /\ leaked = {}

BetweenUpdates == p_time = None /\ ~deleted

\* A client, the AI or an aura casts a spell.
CastSpell(c, triggered, byClient) ==
    /\ BetweenUpdates
    /\ Free(u0) # {}
    /\ \E u \in prepare(u0, c, triggered, byClient, MaxNest) : Become(u)
    /\ UNCHANGED <<events, p_time, historyVars>>

\* GameObject::Use of a summoning ritual: the animation is cast as triggered, and becomes
\* the current spell afterwards, whatever is left of it.
UseRitual(c) ==
    /\ BetweenUpdates
    /\ Free(u0) # {}
    /\ SpellInfo[c].slot \in {"generic", "channeled"}
    /\ \E v \in prepare(u0, c, TRUE, FALSE, MaxNest) :
          \E u \in SetCurrentCastedSpell(v, Address(u0)) : Become(u)
    /\ UNCHANGED <<events, p_time, historyVars>>

\* Death and many auras interrupt what is not flying yet, a teleport everything.
Interrupt(withDelayed) ==
    /\ BetweenUpdates
    /\ \E u \in InterruptNonMeleeSpells(u0, withDelayed) : Become(u)
    /\ UNCHANGED <<events, p_time, historyVars>>

\* Unit::AttackerStateUpdate: the swing casts the spell that waits for it.
Swing ==
    /\ BetweenUpdates
    /\ current["melee"] # None
    /\ \E u \in cast(u0, current["melee"], MaxNest) : Become(u)
    /\ UNCHANGED <<events, p_time, historyVars>>

\* Unit::AttackStop.
AttackStop ==
    /\ BetweenUpdates
    /\ \E u \in InterruptSpell(u0, "melee", TRUE) : Become(u)
    /\ UNCHANGED <<events, p_time, historyVars>>

\* Creature::AIM_Initialize: a new AI starts without the events of the old one.
CleanupEventList ==
    /\ BetweenUpdates
    /\ needKill' = TRUE
    /\ UNCHANGED <<spell, current, queue, events, p_time, historyVars>>

\* KillAllEvents for one event: abort it; delete it, and with it the spell, unless the
\* spell is in use or the kill is not forced.
Killed(k, e, force) ==
    LET s == e.spell
        Gone(u) == IF IsDeletable(u, s) THEN [u EXCEPT !.spell[s] = None] ELSE u
    IN {IF force \/ IsDeletable(u, s) THEN [k EXCEPT !.unit = Gone(u)]
        ELSE [k EXCEPT !.unit = u, !.kept = Append(@, [e EXCEPT !.abort = TRUE])] :
            u \in Cancel(k.unit, s)}
KillAllEvents(u, es, force) ==
    FoldLeft(LAMBDA ks, e : UNION {Killed(k, e, force) : k \in ks},
             {[unit |-> u, kept |-> << >>]}, es)

\* Unit::Update begins: RenewEvents, then the clock of the events goes on.
Aged(sp, p) == IF sp = None \/ sp.age = None THEN sp
               ELSE [sp EXCEPT !.age = LET cap == Max(SpellInfo[sp.info].flight)
                                       IN IF @ + p > cap THEN cap ELSE @ + p]
BeginUpdate(p) ==
    /\ BetweenUpdates
    /\ \E k \in IF needKill THEN KillAllEvents(u0, events, FALSE)
                ELSE {[unit |-> u0, kept |-> events]} :
          /\ events' = Elapsed(Renewed(k.kept, queue), p)
          /\ spell' = [s \in Sp |-> Aged(k.unit.spell[s], p)]
          /\ current' = k.unit.current
    /\ queue' = << >> /\ needKill' = FALSE
    /\ p_time' = p
    /\ UNCHANGED <<deleted, leaked>>

Mutant_Released(u, s) == Cancel(u, s)

\* ~SpellEvent: the spell is cancelled if need be, and deleted unless something still
\* refers to it ("was not deleted, causes memory leak").
Released(u, s) ==
    {IF IsDeletable(v, s) THEN [v EXCEPT !.spell[s] = None] ELSE v : v \in Cancel(u, s)}

\* One event that is due is executed; an aborted one is aborted again and deleted.
ExecuteEvent ==
    /\ p_time # None
    /\ IsDue(events)
    /\ LET s == Head(events).spell
           Readded(u) == \E i \in DOMAIN u.queue : u.queue[i].spell = s
           updated == IF Finished(u0, s) THEN {u0} ELSE update(u0, s, MaxNest)
           outcomes == IF Head(events).abort THEN Released(u0, s)
                       ELSE Each(Each(updated, LAMBDA u : Execute(u, s, MaxNest)),
                                 LAMBDA u : IF Readded(u) THEN {u} ELSE Released(u, s))
       IN \E u \in outcomes :
             /\ Become(u)
             /\ leaked' = IF Readded(u) \/ u.spell[s] = None THEN leaked ELSE leaked \cup {s}
    /\ events' = Tail(events)
    /\ UNCHANGED <<p_time, deleted>>

\* Unit::_UpdateAutoRepeatSpell: the wand or bow waits, or stops, or casts one more shot.
UpdateAutoRepeat(u) ==
    LET s == u.current["autorepeat"]
        casting == IsNonMeleeSpellCasted(u, FALSE, FALSE, TRUE)
        shot == IF Free(u) = {} THEN {}
                ELSE prepare(u, u.spell[s].info, TRUE, FALSE, MaxNest)
        stop == InterruptSpell(u, "autorepeat", TRUE)
    IN IF s = None THEN {u}
       ELSE IF casting /\ ~Info(u, s).autoshot THEN stop
       ELSE {u} \cup stop \cup shot

\* Unit::_UpdateSpells: finished spells leave their slots.
EndUpdate ==
    /\ p_time # None
    /\ ~IsDue(events)
    /\ \E u \in UpdateAutoRepeat(u0) :
          LET over == {k \in Slots : u.current[k] # None /\ Finished(u, u.current[k])}
          IN Become([u EXCEPT
                !.current = [k \in Slots |-> IF k \in over THEN None ELSE @[k]],
                !.spell = [s \in Sp |-> IF \E k \in over : u.current[k] = s
                                        THEN [@[s] EXCEPT !.referenced = FALSE] ELSE @[s]]])
    /\ p_time' = None
    /\ UNCHANGED <<events, historyVars>>

\* The unit is removed from the map: CleanupsBeforeDelete, ~Unit, and last, in
\* ~EventProcessor, the events of the list, not those of the queue.
Delete ==
    /\ BetweenUpdates
    /\ deleted' = TRUE
    /\ LET quiet == Each(InterruptNonMeleeSpells(u0, TRUE),
                         LAMBDA u : {u} \cup InterruptSpell(u, "melee", TRUE))
           Unit_(u) == [u EXCEPT !.current = [k \in Slots |-> None],
                                 !.spell = [s \in Sp |->
                                    IF @[s] = None THEN None
                                    ELSE [@[s] EXCEPT !.referenced =
                                            @ /\ \A k \in Slots : u.current[k] # s]]]
       IN \E k \in Each(quiet, LAMBDA u : KillAllEvents(Unit_(u), events, TRUE)) :
             /\ spell' = k.unit.spell /\ current' = k.unit.current
             /\ leaked' = {s \in Sp : k.unit.spell[s] # None}
    /\ queue' = << >> /\ events' = << >> /\ needKill' = TRUE
    /\ UNCHANGED p_time

Update == (\E p \in Ticks : BeginUpdate(p)) \/ ExecuteEvent \/ EndUpdate

Next ==
    \/ \E c \in Cast, triggered, byClient \in BOOLEAN : CastSpell(c, triggered, byClient)
    \/ \E c \in Cast : UseRitual(c)
    \/ \E withDelayed \in BOOLEAN : Interrupt(withDelayed)
    \/ Swing \/ AttackStop \/ CleanupEventList
    \/ Update
    \/ Delete

\* The map updates its units in every tick, and an update runs to its end.
Spec == Init /\ [][Next]_vars /\ WF_vars(Update)

-----------------------------------------------------------------------------
(* Properties *)

Live == {s \in Sp : spell[s] # None}
Places(s) == {i \in DOMAIN events : events[i].spell = s}
New(s) == {i \in DOMAIN queue : queue[i].spell = s}
Flies(s) == spell[s] # None /\ spell[s].state = "delayed" /\ current["channeled"] # s
Ends(s) == spell'[s] = None \/ spell'[s].state = "finished"

\* Each Spell is owned by one SpellEvent, in the list or in the queue: no event updates a
\* deleted spell, none is executed twice in a round, and a spell without an event, which
\* nobody would delete, is one that was leaked on deleting its event.
SpellsOwned ==
    /\ TypeOK
    /\ \A s \in Sp :
          Cardinality(Places(s)) + Cardinality(New(s)) = IF s \in Live \ leaked THEN 1 ELSE 0
    /\ leaked \subseteq Live

\* m_currentSpells never points to a deleted spell or to one that its event may delete,
\* and a spell that its event may not delete because of a slot is in that slot.
SlotsLive ==
    \A s \in Sp :
        /\ \A k \in Slots : current[k] = s => s \in Live /\ spell[s].referenced
        /\ s \in Live /\ spell[s].referenced =>
              \E k \in Slots : current[k] = s /\ k = SpellInfo[spell[s].info].slot

\* "tried to delete non-deletable spell. Was not deleted, causes memory leak": only for a
\* spell whose event was killed while a slot referred to it, before the slot was cleared.
LeaksWereKilled ==
    [][\A s \in leaked' \ leaked :
          deleted' \/ (Head(events).abort /\ \E k \in Slots : current[k] = s)]_vars

\* A spell in flight is ended by its own event: not by the casts, interruptions and
\* deaths of its caster, unless everything is interrupted or its channel is broken.
FlightsSurvive ==
    [][\A s \in Sp : Flies(s) /\ Ends(s) /\ p_time = None /\ ~needKill /\ ~deleted' =>
          \E u \in InterruptNonMeleeSpells(u0, TRUE) : spell' = u.spell]_vars

\* What is over is freed: a finished spell, wherever its slot and its event are, is
\* deleted by a later update, unless it was leaked or the unit is gone.
FinishedFreed ==
    \A s \in Sp : (s \in Live /\ spell[s].state = "finished") ~>
                      (s \notin Live \/ s \in leaked \/ deleted)

=============================================================================
