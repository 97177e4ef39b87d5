---------------------------- MODULE ShutdownTimer ----------------------------
(***************************************************************************)
(* The planned shutdown of the world server (World.cpp, World.h) and the   *)
(* ways around it: the world thread counts seconds of wall clock down once *)
(* per tick, commands plan, replace and cancel a shutdown inside the tick, *)
(* and the console thread stops the server from outside (CliRunnable.cpp). *)
(* Seconds are uint32; here they wrap at Word.                             *)
(***************************************************************************)
EXTENDS Integers

CONSTANTS
    Word,           \* 2^32 in the code
    Delay,          \* the seconds a command may ask for
    Code,           \* the exit codes a command may ask for
    MaxJump,        \* bound: seconds that pass between two ticks
    MaxBack,        \* bound: seconds the clock is set back by
    MaxBacks,       \* bound: how often it is set back
    MaxCommands,    \* bound: commands in a behaviour
    MaxSessions,    \* bound: sessions in m_sessions
    Cancel, NoPlan

SHUTDOWN_EXIT_CODE == 0
ERROR_EXIT_CODE == 1

ASSUME ShutdownConstants ==
    /\ Word \in Nat /\ Word > 1
    /\ MaxJump \in Nat /\ MaxJump < Word
    /\ Delay \subseteq 0 .. Word - 1
    /\ Code \subseteq 0 .. 125
    /\ MaxBack \in Nat /\ MaxBacks \in Nat
    /\ MaxCommands \in Nat /\ MaxSessions \in Nat

VARIABLES
    pc,             \* where the world thread is in its tick
    command,        \* a command that has passed its guard: a plan, Cancel or NoPlan
    sessions,       \* m_sessions.size()
    m_ShutdownTimer,
    m_ShutdownMask,
    m_ExitCode,
    m_stopEvent,
    sinceUpdate,    \* time(nullptr) - m_gameTime, negative once the clock went back
    cli,            \* the console thread: what it has left to write, and when it ends
    commands,       \* how many commands were given
    backs,          \* how often the clock was set back
    planned,        \* history: the plan that stands, or NoPlan
    waited,         \* history: game time since that plan, counted up to its delay
    wentBack,       \* history: the clock went back during that plan
    stopCodes       \* history: the codes StopNow was called with

timerVars == <<m_ShutdownTimer, m_ShutdownMask>>
planVars == <<planned, waited, wentBack>>
clockVars == <<sinceUpdate, backs>>
shutdownVars == <<pc, command, sessions, timerVars, m_ExitCode, m_stopEvent, clockVars,
                  cli, commands, planVars, stopCodes>>

Mask == SUBSET {"restart", "idle"}
Plan == [time : Delay, options : Mask, exitcode : Code]
Write == {"m_stopEvent", "m_ExitCode"}

ASSUME ShutdownValues == Cancel # NoPlan /\ Plan \cap {Cancel, NoPlan} = {}

ShutdownTypeOK ==
    /\ pc \in {"loop", "time", "sessions", "cli", "cleanup", "exited"}
    /\ command \in Plan \cup {Cancel, NoPlan}
    /\ sessions \in 0 .. MaxSessions
    /\ m_ShutdownTimer \in 0 .. Word - 1
    /\ m_ShutdownMask \in Mask
    /\ m_ExitCode \in 0 .. 125
    /\ m_stopEvent \in BOOLEAN
    /\ sinceUpdate \in -MaxBack .. MaxJump
    /\ cli \in [left : SUBSET Write, ended : BOOLEAN]
    /\ commands \in 0 .. MaxCommands /\ backs \in 0 .. MaxBacks
    /\ planned \in Plan \cup {NoPlan}
    /\ waited \in 0 .. Word - 1
    /\ wentBack \in BOOLEAN
    /\ stopCodes \subseteq {SHUTDOWN_EXIT_CODE, ERROR_EXIT_CODE}

\* The server is up; the console is optional (Console.Enable).
ShutdownInit ==
    /\ pc = "loop" /\ command = NoPlan /\ sessions = 0
    /\ m_ShutdownTimer = 0 /\ m_ShutdownMask = {}
    /\ m_ExitCode = SHUTDOWN_EXIT_CODE /\ m_stopEvent = FALSE
    /\ sinceUpdate = 0 /\ backs = 0
    /\ cli \in [left : {Write}, ended : BOOLEAN]
    /\ commands = 0
    /\ planned = NoPlan /\ waited = 0 /\ wentBack = FALSE
    /\ stopCodes = {}

-----------------------------------------------------------------------------
(* The clock *)

ClockTick ==
    /\ sinceUpdate < MaxJump
    /\ sinceUpdate' = sinceUpdate + 1
    /\ UNCHANGED <<pc, command, sessions, timerVars, m_ExitCode, m_stopEvent,
                   backs, cli, commands, planVars, stopCodes>>

ClockSetBack ==
    /\ backs < MaxBacks
    /\ \E seconds \in -MaxBack .. -1 : sinceUpdate' = seconds
    /\ backs' = backs + 1
    /\ UNCHANGED <<pc, command, sessions, timerVars, m_ExitCode, m_stopEvent,
                   cli, commands, planVars, stopCodes>>

-----------------------------------------------------------------------------
(* The world thread: WorldUpdateLoop and World::Update *)

LoopCondition ==
    /\ pc = "loop"
    /\ pc' = IF m_stopEvent THEN "cleanup" ELSE "time"
    /\ UNCHANGED <<command, sessions, timerVars, m_ExitCode, m_stopEvent,
                   clockVars, cli, commands, planVars, stopCodes>>

\* uint32(thisTime - m_gameTime)
Elapsed == sinceUpdate % Word

\* Whether a shutdown that is due may happen now.
MayShutDown(options) == ("idle" \in options) => sessions = 0

\* History: Elapsed seconds of the plan passed.
Wait ==
    /\ waited' = IF planned = NoPlan THEN 0
                 ELSE IF waited + Elapsed >= planned.time THEN planned.time
                 ELSE waited + Elapsed
    /\ wentBack' = (wentBack \/ sinceUpdate < 0)
    /\ UNCHANGED planned

Mutant_OverdueEarly ==  \* a second too early
    /\ m_ShutdownTimer <= Elapsed + 1
    /\ \/ MayShutDown(m_ShutdownMask) /\ m_stopEvent' = TRUE /\ UNCHANGED m_ShutdownTimer
       \/ ~MayShutDown(m_ShutdownMask) /\ m_ShutdownTimer' = 1 /\ UNCHANGED m_stopEvent
Mutant_OverdueOnce ==  \* an idle shutdown is looked at once
    /\ m_ShutdownTimer <= Elapsed
    /\ \/ MayShutDown(m_ShutdownMask) /\ m_stopEvent' = TRUE /\ UNCHANGED m_ShutdownTimer
       \/ ~MayShutDown(m_ShutdownMask) /\ m_ShutdownTimer' = 0 /\ UNCHANGED m_stopEvent
\* World::_UpdateGameTime, the shutdown timer is overdue.
Overdue ==
    /\ m_ShutdownTimer <= Elapsed
    /\ \/ MayShutDown(m_ShutdownMask) /\ m_stopEvent' = TRUE /\ UNCHANGED m_ShutdownTimer
       \/ ~MayShutDown(m_ShutdownMask) /\ m_ShutdownTimer' = 1 /\ UNCHANGED m_stopEvent

Decrease ==
    /\ m_ShutdownTimer > Elapsed
    /\ m_ShutdownTimer' = m_ShutdownTimer - Elapsed
    /\ UNCHANGED m_stopEvent

_UpdateGameTime ==
    /\ pc = "time" /\ pc' = "sessions"
    /\ sinceUpdate' = 0
    /\ IF ~m_stopEvent /\ m_ShutdownTimer > 0 /\ Elapsed > 0
          THEN Overdue \/ Decrease
          ELSE UNCHANGED <<m_ShutdownTimer, m_stopEvent>>
    /\ Wait
    /\ UNCHANGED <<command, sessions, m_ShutdownMask, m_ExitCode, backs, cli,
                   commands, stopCodes>>

\* Sessions come and go, and the commands of game masters are executed.
UpdateSessions ==
    /\ pc = "sessions" /\ command = NoPlan
    /\ pc' = "cli"
    /\ \E n \in 0 .. MaxSessions : sessions' = n
    /\ UNCHANGED <<command, timerVars, m_ExitCode, m_stopEvent, clockVars, cli,
                   commands, planVars, stopCodes>>

\* ProcessCliCommands is done and the tick ends.
EndTick ==
    /\ pc = "cli" /\ command = NoPlan
    /\ pc' = "loop"
    /\ UNCHANGED <<command, sessions, timerVars, m_ExitCode, m_stopEvent,
                   clockVars, cli, commands, planVars, stopCodes>>

\* main joins the console thread and returns GetExitCode().
Exit ==
    /\ pc = "cleanup" /\ cli.ended
    /\ pc' = "exited"
    /\ UNCHANGED <<command, sessions, timerVars, m_ExitCode, m_stopEvent,
                   clockVars, cli, commands, planVars, stopCodes>>

-----------------------------------------------------------------------------
(* Commands, on the world thread.  The console writes m_stopEvent and      *)
(* m_ExitCode between a command's guard and its assignments.               *)

\* A command of a game master, inside UpdateSessions, or of the console.
MayCommand ==
    /\ (pc = "sessions" /\ sessions > 0) \/ pc = "cli"
    /\ command = NoPlan
    /\ commands < MaxCommands
    /\ commands' = commands + 1

ShutdownServGuard ==
    /\ MayCommand
    /\ ~m_stopEvent
    /\ command' \in Plan
    /\ UNCHANGED <<pc, sessions, timerVars, m_ExitCode, m_stopEvent, clockVars,
                   cli, planVars, stopCodes>>

\* The timer is set, or the server stops at once.
Schedule(plan) ==
    \/ /\ plan.time > 0
       /\ m_ShutdownTimer' = plan.time /\ UNCHANGED m_stopEvent
    \/ /\ plan.time = 0 /\ ~MayShutDown(plan.options)
       /\ m_ShutdownTimer' = 1 /\ UNCHANGED m_stopEvent
    \/ /\ plan.time = 0 /\ MayShutDown(plan.options)
       /\ m_stopEvent' = TRUE /\ UNCHANGED m_ShutdownTimer

Mutant_ShutdownServ ==  \* the options of the first plan stay
    /\ command \in Plan
    /\ m_ShutdownMask' = IF m_ShutdownTimer > 0 THEN m_ShutdownMask ELSE command.options
    /\ m_ExitCode' = command.exitcode
    /\ Schedule(command)
    /\ command' = NoPlan
    /\ planned' = command /\ waited' = 0 /\ wentBack' = FALSE
    /\ UNCHANGED <<pc, sessions, clockVars, cli, commands, stopCodes>>
ShutdownServ ==
    /\ command \in Plan
    /\ m_ShutdownMask' = command.options
    /\ m_ExitCode' = command.exitcode
    /\ Schedule(command)
    /\ command' = NoPlan
    /\ planned' = command /\ waited' = 0 /\ wentBack' = FALSE
    /\ UNCHANGED <<pc, sessions, clockVars, cli, commands, stopCodes>>

ShutdownCancelGuard ==
    /\ MayCommand
    /\ m_ShutdownTimer > 0 /\ ~m_stopEvent
    /\ command' = Cancel
    /\ UNCHANGED <<pc, sessions, timerVars, m_ExitCode, m_stopEvent, clockVars,
                   cli, planVars, stopCodes>>

Mutant_ShutdownCancel ==  \* the timer goes on
    /\ command = Cancel
    /\ m_ShutdownMask' = {} /\ m_ExitCode' = SHUTDOWN_EXIT_CODE
    /\ command' = NoPlan
    /\ planned' = NoPlan /\ waited' = 0 /\ wentBack' = FALSE
    /\ UNCHANGED <<pc, sessions, m_ShutdownTimer, m_stopEvent, clockVars, cli,
                   commands, stopCodes>>
ShutdownCancel ==
    /\ command = Cancel
    /\ m_ShutdownMask' = {} /\ m_ShutdownTimer' = 0
    /\ m_ExitCode' = SHUTDOWN_EXIT_CODE
    /\ command' = NoPlan
    /\ planned' = NoPlan /\ waited' = 0 /\ wentBack' = FALSE
    /\ UNCHANGED <<pc, sessions, m_stopEvent, clockVars, cli, commands, stopCodes>>

\* World::StopNow on the world thread: .server exit, or a guid counter that ran out.
StopNow ==
    /\ MayCommand
    /\ m_stopEvent' = TRUE
    /\ \E code \in {SHUTDOWN_EXIT_CODE, ERROR_EXIT_CODE} :
          m_ExitCode' = code /\ stopCodes' = stopCodes \cup {code}
    /\ UNCHANGED <<pc, command, sessions, timerVars, clockVars, cli, planVars>>

-----------------------------------------------------------------------------
(* The console thread *)

\* StopNow at the end of the input.  m_ExitCode is not volatile, so the build may
\* order the two assignments either way.
CliStopNow ==
    /\ ~cli.ended
    /\ cli.left = Write => pc # "exited"
    /\ \/ /\ "m_stopEvent" \in cli.left
          /\ m_stopEvent' = TRUE /\ cli' = [cli EXCEPT !.left = @ \ {"m_stopEvent"}]
          /\ UNCHANGED m_ExitCode
       \/ /\ "m_ExitCode" \in cli.left
          /\ m_ExitCode' = SHUTDOWN_EXIT_CODE
          /\ cli' = [cli EXCEPT !.left = @ \ {"m_ExitCode"}]
          /\ UNCHANGED m_stopEvent
    /\ stopCodes' = stopCodes \cup {SHUTDOWN_EXIT_CODE}
    /\ UNCHANGED <<pc, command, sessions, timerVars, clockVars, commands, planVars>>

\* A line was read, or StopNow was called, and the loop sees m_stopEvent.
CliEnd ==
    /\ ~cli.ended /\ m_stopEvent
    /\ cli.left \in {{}, Write}
    /\ cli' = [cli EXCEPT !.ended = TRUE]
    /\ UNCHANGED <<pc, command, sessions, timerVars, m_ExitCode, m_stopEvent,
                   clockVars, commands, planVars, stopCodes>>

-----------------------------------------------------------------------------

WorldStep ==
    \/ LoopCondition \/ _UpdateGameTime \/ UpdateSessions \/ EndTick
    \/ ShutdownServ \/ ShutdownCancel

ShutdownNext ==
    \/ WorldStep \/ Exit
    \/ ShutdownServGuard \/ ShutdownCancelGuard \/ StopNow
    \/ ClockTick \/ ClockSetBack
    \/ CliStopNow \/ CliEnd

\* The world thread runs and time passes.  Nothing makes the console thread leave
\* fgets, so Exit is not fair.
ShutdownFairness == WF_shutdownVars(WorldStep) /\ WF_shutdownVars(ClockTick)

ShutdownSpec == ShutdownInit /\ [][ShutdownNext]_shutdownVars /\ ShutdownFairness

-----------------------------------------------------------------------------
(* Properties *)

Pending == m_ShutdownTimer > 0

\* While a shutdown is planned the timer, and the time players are told, is what is
\* left of the delay the last command asked for, in game time since that command; an
\* idle shutdown that is overdue is looked at again after a second.  The clock must
\* not have gone back.
CountdownAgrees ==
    /\ ShutdownTypeOK
    /\ (Pending /\ ~m_stopEvent /\ ~wentBack) =>
        /\ planned # NoPlan
        /\ m_ShutdownMask = planned.options
        /\ \/ m_ShutdownTimer = planned.time - waited
           \/ waited = planned.time /\ "idle" \in planned.options /\ m_ShutdownTimer = 1

\* The world thread stops the server only for a plan that stands, when its delay has
\* passed, and an idle one only when no session is in the table; a clock that is set
\* back is the only thing that makes it stop early.
StopsAsPlanned ==
    [][ (m_stopEvent' /\ ~m_stopEvent /\ UNCHANGED <<cli, commands>>) =>
            /\ planned' # NoPlan
            /\ waited' = planned'.time \/ wentBack'
            /\ "idle" \in planned'.options => sessions = 0 ]_shutdownVars

\* The server exits with a code somebody asked for who was not cancelled or replaced,
\* however StopNow on the console thread falls into a command.
ExitCodeStands ==
    pc = "exited" =>
        \/ m_ExitCode \in stopCodes
        \/ planned # NoPlan /\ m_ExitCode = planned.exitcode

\* A shutdown that stays planned happens: the world loop does not go round for ever
\* with a plan, except for an idle one while sessions come back again and again.
Obeyed ==
    (<>[](planned # NoPlan /\ pc \notin {"cleanup", "exited"})) =>
        /\ <>[](planned # NoPlan => "idle" \in planned.options)
        /\ []<>(sessions > 0)

=============================================================================
