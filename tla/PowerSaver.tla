----------------------------- MODULE PowerSaver -----------------------------
(***************************************************************************)
(* The idle power saver (src/src/IdlePowerSaver.cpp) and the anti lock     *)
(* (src/src/AntiLock.cpp), which one timer of the main window drives: the  *)
(* first slows an idle processor down through the power scheme of the      *)
(* machine, the second sends input of its own to an idle machine.          *)
(***************************************************************************)
EXTENDS Integers, Sequences, FiniteSets

CONSTANTS Timeouts,        \* of the saver, in seconds, as the panel allows them
          IdleTimes,       \* the idle times there are, in seconds; 0: input
          LockTimeout,     \* of the anti lock
          QueueSize,       \* MAX_CPU_POWER_SAVER_QUEUE_SIZE, even
          MaxTurns         \* bound: turns of the timer

ASSUME PowerAssumption ==
  /\ Timeouts \subseteq Nat /\ IdleTimes \subseteq Nat /\ LockTimeout \in Nat
  /\ QueueSize \in Nat \ {0} /\ QueueSize % 2 = 0 /\ MaxTurns \in Nat

Hysteresis == 2000         \* timeout_hystheresis: documented as milliseconds, used as seconds
Loads == {0, 60, 90}       \* below min_load_threshold, between, above max_load_threshold
MinLoad == 50
MaxLoad == 80

VARIABLES
  psOn,        \* the program runs
  psEnabled, psTimeout,
  psReduced,   \* is_power_reduced
  psScheme,    \* the power scheme of the machine: "full", "low"
  psSamples, psMedian,   \* m_powerPercents, median_load
  psIdle,      \* how long nobody has touched the machine
  psTurns,
  psSeen,      \* history: the idle time of the last turn with the saver enabled, -1 when changed since
  psLapse      \* history: a write of the scheme failed, or the program was killed while it was low

psVars == <<psOn, psEnabled, psTimeout, psReduced, psScheme, psSamples, psMedian, psIdle, psTurns, psSeen, psLapse>>

(* idle_time < timeout - timeout_hystheresis, of unsigned numbers: below the *)
(* hysteresis the difference is some 4 billion.                              *)
BelowTimeoutSigned(idle) == idle < psTimeout - Hysteresis     \* mutant: of signed numbers
BelowTimeout(idle) == psTimeout < Hysteresis \/ idle < psTimeout - Hysteresis

(* nth_element at the middle of a copy: fewer are smaller, and the others    *)
(* before it, which are no larger, make up for it.                           *)
Smaller(q, x)   == {k \in DOMAIN q : q[k] < x}
NotLarger(q, x) == {k \in DOMAIN q : q[k] <= x}
MedianOf(q) ==
  CHOOSE x \in {q[k] : k \in DOMAIN q} :
    Cardinality(Smaller(q, x)) <= Len(q) \div 2 /\ Len(q) \div 2 < Cardinality(NotLarger(q, x))
Sampled(load) == IF Len(psSamples) >= QueueSize THEN Append(Tail(psSamples), load) ELSE Append(psSamples, load)

-----------------------------------------------------------------------------
PowerInit ==
  /\ psOn = TRUE /\ psEnabled = TRUE /\ psTimeout \in Timeouts
  /\ psReduced = FALSE /\ psScheme = "full" /\ psSamples = <<>> /\ psMedian = 0
  /\ psIdle = 0 /\ psTurns = 0 /\ psSeen = -1 /\ psLapse = FALSE

(* SetCpuPowerPercent: any of its calls may fail, which nobody is told of.   *)
SetScheme(to) ==
  \/ psScheme' = to /\ UNCHANGED psLapse
  \/ UNCHANGED psScheme /\ psLapse' = TRUE
KeepScheme == UNCHANGED <<psScheme, psLapse>>

(* IdlePowerSaver::Process, with or without a new sample of the load.        *)
Sample(load) ==
  /\ psSamples' = Sampled(load)
  /\ psMedian' = IF Len(psSamples') % 2 = 1 THEN psMedian ELSE MedianOf(psSamples')
NoSample == UNCHANGED <<psSamples, psMedian>>

Process ==
  LET reduces  == psIdle > psTimeout /\ ~psReduced /\ psMedian < MinLoad
      restores == psIdle <= psTimeout /\ psReduced /\ BelowTimeout(psIdle)
      then     == IF reduces THEN TRUE ELSE IF restores THEN FALSE ELSE psReduced
  IN  /\ psSeen' = psIdle
      /\ (\E load \in Loads : Sample(load)) \/ NoSample
      /\ psReduced' = (then /\ ~(psSamples' # psSamples /\ psMedian' > MaxLoad))
      /\ IF psReduced' # psReduced THEN SetScheme(IF psReduced' THEN "low" ELSE "full")
         ELSE IF then = psReduced' THEN KeepScheme
         ELSE \/ psScheme' = "full" /\ UNCHANGED psLapse      \* slowed down and restored in one turn
              \/ psScheme' \in {"low", psScheme} /\ psLapse' = TRUE

(* AntiLock::Process goes on to move the mouse and, now and then, to press a *)
(* key, which is input for the next turn.                                    *)
SimulateUserActivity == psIdle' \in (IF psIdle > LockTimeout THEN {0, psIdle} ELSE {psIdle})

TimerTurn ==
  /\ psOn /\ psTurns < MaxTurns /\ psTurns' = psTurns + 1
  /\ IF psEnabled THEN Process ELSE UNCHANGED <<psSeen, psSamples, psMedian, psReduced, psScheme, psLapse>>
  /\ SimulateUserActivity
  /\ UNCHANGED <<psOn, psEnabled, psTimeout>>

Wait ==
  /\ psIdle' \in {t \in IdleTimes : t > psIdle}
  /\ UNCHANGED <<psOn, psEnabled, psTimeout, psReduced, psScheme, psSamples, psMedian, psTurns, psSeen, psLapse>>

Input ==
  /\ psIdle > 0 /\ psIdle' = 0
  /\ UNCHANGED <<psOn, psEnabled, psTimeout, psReduced, psScheme, psSamples, psMedian, psTurns, psSeen, psLapse>>

(* The settings are saved or reloaded. *)
Configure ==
  /\ psOn /\ psEnabled' \in BOOLEAN /\ psTimeout' \in Timeouts /\ psSeen' = -1
  /\ UNCHANGED <<psOn, psReduced, psScheme, psSamples, psMedian, psIdle, psTurns, psLapse>>

(* The destructor restores the scheme; a killed program does not, and the    *)
(* next one believes that it is full.                                        *)
Exit ==
  /\ psOn /\ psOn' = FALSE /\ SetScheme("full")
  /\ UNCHANGED <<psEnabled, psTimeout, psReduced, psSamples, psMedian, psIdle, psTurns, psSeen>>
Killed ==
  /\ psOn /\ psOn' = FALSE /\ UNCHANGED psScheme
  /\ psLapse' = (psLapse \/ psScheme = "low")
  /\ UNCHANGED <<psEnabled, psTimeout, psReduced, psSamples, psMedian, psIdle, psTurns, psSeen>>
Restart ==
  /\ ~psOn /\ psOn' = TRUE
  /\ psReduced' = FALSE /\ psSamples' = <<>> /\ psMedian' = 0 /\ psSeen' = -1
  /\ UNCHANGED <<psEnabled, psTimeout, psScheme, psIdle, psTurns, psLapse>>

PowerNext == TimerTurn \/ Wait \/ Input \/ Configure \/ Exit \/ Killed \/ Restart
PowerSpec == PowerInit /\ [][PowerNext]_psVars

-----------------------------------------------------------------------------
(* Properties. *)

(* The machine is slowed down only while the program runs and knows it, and  *)
(* the program believes it only when it is, unless a write of the scheme     *)
(* failed or the program was killed: nothing asks the machine.               *)
SchemeKnown == ~psLapse => (psScheme = "low" <=> psOn /\ psReduced)

(* A user who is back has the full processor after the next turn, whatever   *)
(* the timeout (but 2000 s, from which no idle time is far enough): the      *)
(* hysteresis of 2 s is taken for 2000 s, and the difference wraps.          *)
FullForUser == psOn /\ psEnabled /\ psSeen = 0 /\ psTimeout # Hysteresis => ~psReduced

(* Below that timeout there is no hysteresis at all: the machine is slow only *)
(* beyond it.                                                                *)
SlowWhenIdle == psOn /\ psEnabled /\ psSeen >= 0 /\ psReduced => psSeen > psTimeout \/ psTimeout >= Hysteresis

(* A busy machine is not slowed down: of an even number of samples the       *)
(* median that decides it is the middle one, with half of them no larger and *)
(* half no smaller.                                                          *)
MedianIsMiddle ==
  psMedian # 0 /\ Len(psSamples) % 2 = 0 =>
    /\ 2 * Cardinality(NotLarger(psSamples, psMedian)) > Len(psSamples)
    /\ 2 * Cardinality(Smaller(psSamples, psMedian)) <= Len(psSamples)

PowerSafe == SchemeKnown /\ FullForUser /\ SlowWhenIdle /\ MedianIsMiddle
=============================================================================
