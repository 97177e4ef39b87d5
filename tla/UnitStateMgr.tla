---------------------------- MODULE UnitStateMgr ----------------------------
(***************************************************************************)
(* What a creature is doing: the table of its actions by priority, of      *)
(* which only the highest is updated, and the unit states the movement     *)
(* generators set and clear from their callbacks.  Everything happens in   *)
(* one thread; what is hard is that the table is changed from all over the *)
(* game, between any two updates, and from inside Finalize.                *)
(***************************************************************************)
EXTENDS Integers, FiniteSets

CONSTANTS
    Pushed,     \* kinds of action the game pushes in a behaviour: a subset of Kinds
    Answers,    \* kinds a script pushes from MovementInform, and None
    None

\* One kind for each movement generator; three of them share UNIT_ACTION_ASSISTANCE.
Kinds == {"idle", "random", "chase", "point", "assist", "distract", "confused", "flee", "stun"}

\* staticActionInfo: an action id has one priority, so the slot tells the id.
Slot == [idle |-> 0, random |-> 1, chase |-> 3, point |-> 4, assist |-> 4, distract |-> 4,
         confused |-> 6, flee |-> 7, stun |-> 9]
Slots == 0 .. 9

ASSUME StateConstants ==
    /\ Pushed \subseteq Kinds \ {"idle", "distract"}
    /\ Answers \subseteq (Kinds \ {"idle", "distract"}) \cup {None}
    /\ None \notin Kinds

VARIABLES
    acts,           \* m_actions: by priority an ActionInfo, or None
    oldAction,      \* m_oldAction: an action, or None
    needReinit,     \* m_needReinit
    unitState,      \* the unit-state flags the actions set
    life,           \* m_deathState of the creature
    unfinalized     \* history: kinds of Lasting dropped after they began, without Finalize

vars == <<acts, oldAction, needReinit, unitState, life, unfinalized>>

Moving == {"ROAMING_MOVE", "CHASE_MOVE", "CONFUSED_MOVE", "FLEEING_MOVE"}
States == Moving \cup {"ROAMING", "CHASE", "CONFUSED", "FLEEING", "DISTRACTED", "STUNNED"}
CanNotMove == {"STUNNED"}
NotMove == {"STUNNED", "DISTRACTED"}
CanNotReact == {"STUNNED", "CONFUSED", "FLEEING"}

\* The kinds whose Interrupt leaves a state that only their Finalize takes away.
Lasting == {"flee", "distract"}

\* An action is a heap object: two of one slot differ in number.
Action == [slot : Slots, nr : 0 .. 1]
ActionInfo == [action : Action, kind : Kinds,
               flags : SUBSET {"ACTIVE", "INITIALIZED", "INTERRUPTED"}]

\* The part of the state the operations below take and return.
Manager == [acts : [Slots -> ActionInfo \cup {None}], old : Action \cup {None},
            us : SUBSET States, silent : SUBSET Lasting, alive : BOOLEAN]

TypeOK ==
    /\ acts \in [Slots -> ActionInfo \cup {None}]
    /\ oldAction \in Action \cup {None}
    /\ needReinit \in BOOLEAN
    /\ unitState \in SUBSET States
    /\ life \in {"ALIVE", "CORPSE", "DEAD"}
    /\ unfinalized \in SUBSET Lasting

In(m) == {p \in Slots : m.acts[p] # None}
Top(m) == CHOOSE p \in In(m) : \A q \in In(m) : q <= p
Has(m, p, flag) == flag \in m.acts[p].flags

-----------------------------------------------------------------------------
(* The callbacks of the movement generators, on the unit states *)

Roaming == {"ROAMING", "ROAMING_MOVE"}

\* StopMoving leaves no moving state, whether the unit moved or not.
Initialize(k, us, alive) ==
    CASE k = "random" -> IF alive THEN us \cup Roaming ELSE us
      [] k = "chase" -> us \cup {"CHASE", "CHASE_MOVE"}
      [] k \in {"point", "assist"} ->
            IF us \cap (CanNotReact \cup NotMove) # {} THEN us ELSE (us \ Moving) \cup Roaming
      [] k = "distract" -> us \cup {"DISTRACTED"}
      [] k = "confused" ->
            IF ~alive \/ us \cap NotMove # {} THEN us \cup {"CONFUSED"}
            ELSE (us \ Moving) \cup {"CONFUSED", "CONFUSED_MOVE"}
      [] k = "flee" -> (us \ Moving) \cup {"FLEEING", "FLEEING_MOVE"}
      [] OTHER -> us

Reset(k, us, alive) ==
    CASE k \in {"point", "assist"} -> (us \ Moving) \cup Roaming
      [] k = "confused" /\ (~alive \/ us \cap NotMove # {}) -> us
      [] OTHER -> Initialize(k, us, alive)

Mutant_Interrupt(k, us) ==
    CASE k \in {"random", "point", "assist"} -> us \ (Moving \cup {"ROAMING"})
      [] k = "chase" -> us \ {"CHASE"}
      [] k = "confused" -> us \ (Moving \cup {"CONFUSED"})
      [] k = "flee" -> us \ Moving
      [] OTHER -> us

Interrupt(k, us) ==
    CASE k \in {"random", "point", "assist"} -> us \ (Moving \cup {"ROAMING"})
      [] k = "chase" -> us \ (Moving \cup {"CHASE"})
      [] k = "confused" -> us \ (Moving \cup {"CONFUSED"})
      [] k = "flee" -> us \ Moving
      [] OTHER -> us

Finalize(k, us) ==
    CASE k \in {"random", "point", "assist"} -> us \ Roaming
      [] k = "chase" -> us \ {"CHASE", "CHASE_MOVE"}
      [] k = "distract" -> us \ {"DISTRACTED"}
      [] k = "confused" -> us \ {"CONFUSED", "CONFUSED_MOVE"}
      [] k = "flee" -> us \ {"FLEEING", "FLEEING_MOVE"}
      [] OTHER -> us

\* What an update may do, and whether the action goes on.  A spline may have ended or not.
Outcome(m, more) == [us |-> m, more |-> more]
UpdateKind(k, us, alive) ==
    CASE k = "random" ->
            IF us \cap NotMove # {} THEN {Outcome(us \ {"ROAMING_MOVE"}, TRUE)}
            ELSE {Outcome(us, TRUE), Outcome(us \cup {"ROAMING_MOVE"}, TRUE)}
      [] k = "chase" ->
            {Outcome(us, FALSE)} \cup
            IF ~alive THEN {Outcome(us, TRUE)}
            ELSE IF us \cap NotMove # {} THEN {Outcome(us \ {"CHASE_MOVE"}, TRUE)}
            ELSE {Outcome(us, TRUE), Outcome(us \cup {"CHASE_MOVE"}, TRUE)}
      [] k \in {"point", "assist"} ->
            IF us \cap CanNotMove # {} THEN {Outcome(us \ {"ROAMING_MOVE"}, TRUE)}
            ELSE {Outcome(us, TRUE)} \cup
                 IF "ROAMING_MOVE" \in us THEN {Outcome(us, FALSE)}
                 ELSE {Outcome(Initialize(k, us, alive), us \cap (CanNotReact \cup NotMove) = {})}
      [] k = "distract" -> {Outcome(us, TRUE), Outcome(us, FALSE)}
      [] k = "confused" ->
            IF us \cap (CanNotReact \ {"CONFUSED"}) # {} THEN {Outcome(us, TRUE)}
            ELSE {Outcome(us, TRUE), Outcome(us \cup {"CONFUSED_MOVE"}, TRUE)}
      [] k = "flee" ->
            IF ~alive THEN {Outcome(us, FALSE)}
            ELSE IF us \cap ((CanNotReact \cup NotMove) \ {"FLEEING"}) # {}
                 THEN {Outcome(us \ {"FLEEING_MOVE"}, TRUE)}
            ELSE {Outcome(us, FALSE), Outcome(us, TRUE), Outcome(us \cup {"FLEEING_MOVE"}, TRUE)}
      [] OTHER -> {Outcome(us, TRUE)}

-----------------------------------------------------------------------------
(* The manager's operations, on its part of the state *)

Current == [acts |-> acts, old |-> oldAction, us |-> unitState, silent |-> unfinalized,
            alive |-> life = "ALIVE"]

\* An action no one points to; the old ones are never deleted.
NewAction(m, k) ==
    LET first == [slot |-> Slot[k], nr |-> 0]
    IN IF m.old # first THEN first ELSE [slot |-> Slot[k], nr |-> 1]

\* ActionInfo::Interrupt
InterruptAction(m, p) ==
    IF ~Has(m, p, "INITIALIZED") \/ Has(m, p, "INTERRUPTED") THEN m
    ELSE [m EXCEPT !.acts[p].flags = (@ \ {"ACTIVE"}) \cup {"INTERRUPTED"},
                   !.us = Interrupt(m.acts[p].kind, @)]

Mutant_Dropped(m, p) ==
    [m EXCEPT !.acts[p] = None, !.old = IF @ = m.acts[p].action THEN None ELSE @]

\* DropAction up to the callback: the current action, and no other, is finalized.
Dropped(m, p) ==
    LET k == m.acts[p].kind
        current == p = Top(m)
    IN [m EXCEPT !.acts[p] = None,
                 !.old = IF @ = m.acts[p].action THEN None ELSE @,
                 !.us = IF current THEN Finalize(k, @) ELSE @,
                 !.silent = IF current THEN @ \ {k}
                            ELSE IF Has(m, p, "INITIALIZED") THEN @ \cup ({k} \cap Lasting)
                            ELSE @]

\* map::insert, which does nothing when the priority is taken
Inserted(m, k) ==
    IF m.acts[Slot[k]] # None THEN m
    ELSE [m EXCEPT !.acts[Slot[k]] = [action |-> NewAction(m, k), kind |-> k, flags |-> {}]]

Mutant_Displaced(m, k) == m

\* The first step of PushAction: a running action with a lower priority is interrupted.
Displaced(m, k) ==
    LET t == Top(m)
    IN IF Has(m, t, "ACTIVE") /\ t < Slot[k] THEN InterruptAction(m, t) ELSE m

\* PushAction from a callback of Finalize.  The callbacks that push come from the slot
\* that has just been erased, so the drop here calls nobody back.
PushInside(m, k) ==
    LET d == Displaced(m, k)
    IN Inserted(IF Top(m) > 0 /\ d.acts[Slot[k]] # None THEN Dropped(d, Slot[k]) ELSE d, k)

\* What Finalize of kind k may push: AssistanceMovementGenerator the distraction, a
\* PointMovementGenerator, when the spline has ended, what the script answers.
Pushes(k, alive) ==
    CASE k = "assist" /\ alive -> {"distract"}
      [] k = "point" -> Answers
      [] OTHER -> {None}

\* The operations below give the set of their possible outcomes.
DropAction(m, p) ==
    IF m.acts[p] = None THEN {m}
    ELSE {IF next = None THEN Dropped(m, p) ELSE PushInside(Dropped(m, p), next) :
             next \in IF p = Top(m) THEN Pushes(m.acts[p].kind, m.alive) ELSE {None}}

DropFrom(ms, p) == UNION {DropAction(m, p) : m \in ms}

\* By id and then by priority: the second call drops what a callback of the first pushed.
PushAction(m, k) ==
    LET p == Slot[k]
        dropped == IF Top(m) > 0 THEN DropFrom(DropFrom({Displaced(m, k)}, p), p)
                   ELSE {Displaced(m, k)}
    IN {Inserted(d, k) : d \in dropped}

DropActionHigherThen(m, p) ==
    LET from[q \in p .. 9] == IF q = p THEN {m} ELSE DropFrom(from[q - 1], q)
    IN from[9]

DropAllStates(m) ==
    UNION {IF Top(d) = 0 THEN {d} ELSE PushAction(d, "idle") :
              d \in IF Cardinality(In(m)) > 1 THEN DropActionHigherThen(m, 0) ELSE {m}}

\* InitDefaults(true)
InitDefaults(m) == DropAllStates([m EXCEPT !.old = None])

\* ActionInfo::Update, before the generator's own update
Begun(m, p) ==
    LET k == m.acts[p].kind
    IN IF ~Has(m, p, "INITIALIZED")
       THEN [m EXCEPT !.us = Initialize(k, @, m.alive), !.acts[p].flags = {"INITIALIZED", "ACTIVE"}]
       ELSE IF Has(m, p, "INTERRUPTED")
       THEN [m EXCEPT !.us = Reset(k, @, m.alive), !.acts[p].flags = {"INITIALIZED", "ACTIVE"}]
       ELSE [m EXCEPT !.acts[p].flags = @ \cup {"ACTIVE"}]

\* Update up to the current action's own update: an action that is no longer current
\* and was not interrupted is interrupted now.
Switched(m) ==
    LET t == Top(m)
        old == {p \in In(m) : m.acts[p].action = m.old}
        late == {p \in old \ {t} : Has(m, p, "ACTIVE") /\ ~Has(m, p, "INTERRUPTED")}
        i == IF late = {} THEN m ELSE InterruptAction(m, CHOOSE p \in late : TRUE)
    IN [i EXCEPT !.old = m.acts[t].action]

-----------------------------------------------------------------------------
(* The unit *)

Init ==
    /\ acts = [p \in Slots |-> IF p = 0 THEN [action |-> [slot |-> 0, nr |-> 0],
                                              kind |-> "idle", flags |-> {}] ELSE None]
    /\ oldAction = None /\ needReinit = FALSE
    /\ unitState = {} /\ life = "ALIVE"
    /\ unfinalized = {}

Becomes(m) ==
    /\ acts' = m.acts /\ oldAction' = m.old /\ unitState' = m.us /\ unfinalized' = m.silent

\* MoveRandom, MoveChase, MovePoint, MoveSeekAssistance, MoveConfused, SetFeared(true)
Push(k) ==
    /\ life = "ALIVE"
    /\ k # "stun"
    /\ \E m \in PushAction(Current, k) : Becomes(m)
    /\ UNCHANGED <<needReinit, life>>

\* Aura::HandleAuraModStun
Stun ==
    /\ life = "ALIVE"
    /\ "stun" \in Pushed
    /\ \E m \in PushAction([Current EXCEPT !.us = (@ \ Moving) \cup {"STUNNED"}], "stun") :
          Becomes(m)
    /\ UNCHANGED <<needReinit, life>>

EndStun ==
    /\ life = "ALIVE"
    /\ "STUNNED" \in unitState
    /\ \E m \in DropAction([Current EXCEPT !.us = @ \ {"STUNNED"}], Slot["stun"]) : Becomes(m)
    /\ UNCHANGED <<needReinit, life>>

\* DropAction by id: SetFeared(false), SetConfused(false), and AIs that give up a chase
Drop(k) ==
    /\ k \in {"flee", "confused", "chase"}
    /\ life = "ALIVE"
    /\ acts[Slot[k]] # None
    /\ \E m \in DropAction(Current, Slot[k]) : Becomes(m)
    /\ UNCHANGED <<needReinit, life>>

\* MotionMaster::MoveIdle
MoveIdle ==
    /\ life = "ALIVE"
    /\ \E m \in DropAllStates(Current) : Becomes(m)
    /\ UNCHANGED <<needReinit, life>>

\* UnitStateMgr::Update, from Unit::Update, which a creature that is DEAD does not call.
Update ==
    /\ life # "DEAD"
    /\ needReinit' = FALSE
    /\ \E m \in IF needReinit THEN InitDefaults(Current) ELSE {Current} :
       \E b \in {Begun(Switched(m), Top(m))} :
       \E o \in UpdateKind(b.acts[Top(b)].kind, b.us, b.alive) :
       \E d \in IF o.more THEN {[b EXCEPT !.us = o.us]}
                ELSE DropAction([b EXCEPT !.us = o.us], Top(b)) :
          Becomes(d)
    /\ UNCHANGED life

\* RemoveAllAurasOnDeath: the auras end in the order they lie in.
AurasRemoved(stunFirst) ==
    LET noStun(ms) == DropFrom({[m EXCEPT !.us = @ \ {"STUNNED"}] : m \in ms}, Slot["stun"])
        noFear(ms) == DropFrom(DropFrom(ms, Slot["flee"]), Slot["confused"])
    IN IF stunFirst THEN noFear(noStun({Current})) ELSE noStun(noFear({Current}))

\* Creature::SetDeathState(JUST_DIED)
Die ==
    /\ life = "ALIVE"
    /\ life' = "CORPSE"
    /\ needReinit' = TRUE
    /\ \E stunFirst \in BOOLEAN :
       \E a \in AurasRemoved(stunFirst) :
       \E i \in InitDefaults([a EXCEPT !.us = @ \ Moving, !.alive = FALSE]) :
       \E m \in DropAllStates(i) : Becomes(m)

\* Creature::RemoveCorpse, at the end of the decay or before it (Respawn)
RemoveCorpse ==
    /\ life = "CORPSE"
    /\ life' = "DEAD"
    /\ \E m \in DropAllStates(Current) : Becomes(m)
    /\ UNCHANGED needReinit

\* Creature::SetDeathState(JUST_ALIVED); MotionMaster::Initialize pushes the default movement.
Respawn ==
    /\ life = "DEAD"
    /\ life' = "ALIVE"
    /\ \E m \in PushAction([Current EXCEPT !.us = {}, !.silent = {}, !.alive = TRUE], "random") :
          Becomes(m)
    /\ UNCHANGED needReinit

Next ==
    \/ \E k \in Pushed : Push(k)
    \/ Stun
    \/ EndStun
    \/ \E k \in Pushed : Drop(k)
    \/ MoveIdle
    \/ Update
    \/ Die
    \/ RemoveCorpse
    \/ Respawn

Spec == Init /\ [][Next]_vars

-----------------------------------------------------------------------------
(* Properties *)

\* Update goes through CurrentState() without a test, so the idle action must never be
\* gone; only the current action may be running, one that began and lost the top has been
\* interrupted, and m_oldAction is in the table, whatever Finalize pushed meanwhile.
TableSound ==
    /\ TypeOK
    /\ acts[0] # None /\ acts[0].kind = "idle"
    /\ \A p \in In(Current) :
          /\ Slot[acts[p].kind] = p
          /\ Has(Current, p, "ACTIVE") => p = Top(Current)
          /\ ~(Has(Current, p, "ACTIVE") /\ Has(Current, p, "INTERRUPTED"))
          /\ Has(Current, p, "INITIALIZED") <=>
                Has(Current, p, "ACTIVE") \/ Has(Current, p, "INTERRUPTED")
    /\ oldAction = None \/ \E p \in In(Current) : acts[p].action = oldAction

\* The states of a unit are those of its actions: whatever the order of pushes, drops and
\* scripts, it is marked as moving only by the action that is running, since whoever
\* interrupts or drops it takes its mark away; and FLEEING and DISTRACTED ("active/onstack",
\* Unit.h) are set exactly while their action has begun and is in the table, or since one was
\* dropped in silence while it was interrupted: nothing but such a drop leaves them behind.
Mover == [random |-> "ROAMING_MOVE", point |-> "ROAMING_MOVE", assist |-> "ROAMING_MOVE",
          chase |-> "CHASE_MOVE", confused |-> "CONFUSED_MOVE", flee |-> "FLEEING_MOVE"]
OnStack(k) == \E p \in In(Current) : acts[p].kind = k /\ Has(Current, p, "INITIALIZED")

StatesFollowActions ==
    /\ \A f \in Moving \cap unitState :
          \E p \in In(Current) : /\ Has(Current, p, "ACTIVE")
                                 /\ acts[p].kind \in DOMAIN Mover /\ Mover[acts[p].kind] = f
    /\ "FLEEING" \in unitState <=> OnStack("flee") \/ "flee" \in unfinalized
    /\ "DISTRACTED" \in unitState <=> OnStack("distract") \/ "distract" \in unfinalized

=============================================================================
