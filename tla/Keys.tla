--------------------------------- MODULE Keys ---------------------------------
(***************************************************************************)
(* The keys of the peripherals process (PROC_PERIPHERALS): the key thread  *)
(* KeyEventMonitorThread2 handles presses and releases, and a long-press   *)
(* thread measures how long the key has been down.  Two such threads run:  *)
(* main() and the key thread both call Long_Press_Ctrl.                    *)
(*                                                                         *)
(* The long-press threads hold gmutex, the key thread never does, so each  *)
(* of its accesses to a global is an action of its own.  Time passes in    *)
(* units of LONG_PRESS_PERIOD, the 100 ms between two looks at the key,    *)
(* and only when every thread waits, sleeps or polls: what a thread        *)
(* computes takes less.                                                    *)
(***************************************************************************)
EXTENDS Integers

CONSTANTS
    OtherKey,   \* KEY_POWER and the touch keys KEY_A .. KEY_L that are used
    LongTicks   \* LONG_PRESS_DEFAULT_DURATION in units of LONG_PRESS_PERIOD: 30

ASSUME LongAssumption == LongTicks \in Nat \ {0}
ASSUME KeyAssumption  == OtherKey \cap {"MICMUTE", "none"} = {}

VARIABLES
    gKeyPressed, gKeyLongPressed,
    gKeyValueRecord,  \* "none" is KEY_RECORD_MASK
    gmutex,           \* the thread that holds it, or "free"
    keyPc,            \* KeyEventMonitorThread2, inside one event
    event,            \* that event's key, or "none"
    pressPc,          \* key_long_press_thread_routine
    age,              \* time since start, as far as LongTicks
    down,             \* keys that are down
    \* History, read by no action of the program:
    said,             \* what was sent since the last press of KEY_MICMUTE
    heldFor,          \* how long KEY_MICMUTE is down, gaps of one unit not counted
    upFor,            \* how long it is up, as far as 2
    others,           \* a key other than KEY_MICMUTE was pressed; see Answer and Tick
    missed,           \* the last press of KEY_MICMUTE is not being measured
    torn              \* it was stored between two stores of a long-press thread

globals     == <<gKeyPressed, gKeyLongPressed, gKeyValueRecord>>
threadVars  == <<gmutex, pressPc, age>>
historyVars == <<said, heldFor, upFor, others, missed, torn>>
keyVars == <<globals, threadVars, keyPc, event, down, historyVars>>

\* The long-press threads, by who creates them.
Presser == {"keyThread", "main"}

Mute  == "MICMUTE"
Power == "POWER"
Key   == {Mute} \cup OtherKey
Touch == OtherKey \ {Power}

KeysInit ==
    /\ gKeyPressed = FALSE /\ gKeyLongPressed = TRUE /\ gKeyValueRecord = "none"
    /\ gmutex = "free"
    /\ keyPc = "ctrl" /\ event = "none"
    /\ pressPc = [t \in Presser |-> "none"]
    /\ age = [t \in Presser |-> 0]
    /\ down = {}
    /\ said = {} /\ heldFor = 0 /\ upFor = 2
    /\ others = "no" /\ missed = FALSE /\ torn = FALSE

-----------------------------------------------------------------------------
(* Long_Press_Ctrl.                                                        *)

\* The mutex and the condition are initialised again by the second call; a
\* thread that waits by then may never be woken.
LongPressCtrl(t) ==
    /\ pressPc[t] = "none"
    /\ gmutex' = "free"
    /\ \E deaf \in SUBSET {u \in Presser : pressPc[u] = "waiting"} :
          pressPc' = [u \in Presser |-> IF u = t THEN "start"
                                        ELSE IF u \in deaf THEN "deaf" ELSE pressPc[u]]
    /\ UNCHANGED <<globals, age, event, down, historyVars>>

\* The key thread starts one before it looks at any key.
StartKeyThread ==
    /\ keyPc = "ctrl"
    /\ LongPressCtrl("keyThread")
    /\ keyPc' = "poll"

StartFromMain == LongPressCtrl("main") /\ UNCHANGED keyPc

-----------------------------------------------------------------------------
(* KeyEventMonitorThread2.                                                 *)

\* The history of KEY_MICMUTE's presses is kept while no other key is used.
Noted(what) == others = "no" /\ what

\* The user presses a key.  What others and the key's own press leave of the
\* history is set here; upFor <= 1 is too short to be seen by a thread that
\* looks once in a unit.
Press(k) ==
    /\ keyPc = "poll" /\ k \notin down
    /\ down' = down \cup {k}
    /\ \/ /\ k \in Touch
          /\ keyPc' = "touch" /\ event' = k
       \/ /\ k \notin Touch /\ gKeyValueRecord = "none"
          /\ keyPc' = "pressed" /\ event' = k
       \/ /\ k \notin Touch /\ gKeyValueRecord # "none"
          /\ UNCHANGED <<keyPc, event>>
    /\ said' = {} /\ missed' = FALSE /\ torn' = FALSE
    /\ \/ /\ k = Mute
          /\ upFor' = 0 /\ heldFor' = IF upFor <= 1 THEN heldFor ELSE 0
          /\ UNCHANGED others
       \/ /\ k # Mute
          /\ heldFor' = 0 /\ others' = "since"
          /\ UNCHANGED upFor
    /\ UNCHANGED <<globals, threadVars>>

SetPressed ==
    /\ keyPc \in {"pressed", "touch"}
    /\ gKeyPressed' = TRUE
    /\ keyPc' = IF keyPc = "touch" THEN "record" ELSE "short"
    /\ UNCHANGED <<gKeyLongPressed, gKeyValueRecord, threadVars, event, down, historyVars>>

\* Faulty variant of SetShort: what the last press was is kept.
SetShortKept ==
    /\ keyPc = "short"
    /\ keyPc' = "recordAndSignal"
    /\ UNCHANGED <<globals, threadVars, event, down, historyVars>>

SetShort ==
    /\ keyPc = "short"
    /\ gKeyLongPressed' = FALSE
    /\ keyPc' = "recordAndSignal"
    /\ UNCHANGED <<gKeyPressed, gKeyValueRecord, threadVars, event, down, historyVars>>

\* Nothing is signalled for a touch key.
SetRecord ==
    /\ keyPc \in {"record", "recordAndSignal"}
    /\ gKeyValueRecord' = event
    /\ keyPc' = IF keyPc = "record" THEN "poll" ELSE "signal"
    /\ event' = "none"
    /\ UNCHANGED <<gKeyPressed, gKeyLongPressed, threadVars, down, historyVars>>

\* A thread in one of these steps will look at gKeyPressed again.
WillLook == {"waiting", "woken", "look", "sleep", "due", "mark", "clear", "send"}

\* pthread_cond_signal(&gkeycond).
SignalPress ==
    /\ keyPc = "signal"
    /\ LET waiting == {t \in Presser : pressPc[t] = "waiting"}
       IN  \/ \E t \in waiting : pressPc' = [pressPc EXCEPT ![t] = "woken"]
           \/ waiting = {} /\ UNCHANGED pressPc
    /\ missed' = Noted(missed \/ \A t \in Presser : pressPc[t] \notin WillLook)
    /\ keyPc' = "poll"
    /\ UNCHANGED <<globals, gmutex, age, event, down, said, heldFor, upFor, others, torn>>

\* The user releases a key; only KEY_MICMUTE's release touches the globals.
\* A touch key's release is sent with its value.
Release(k) ==
    /\ keyPc = "poll" /\ k \in down
    /\ down' = down \ {k}
    /\ keyPc' = IF k = Mute THEN "released" ELSE "poll"
    /\ UNCHANGED <<globals, threadVars, event, historyVars>>

ClearPressed ==
    /\ keyPc = "released"
    /\ gKeyPressed' = FALSE
    /\ keyPc' = "forget"
    /\ UNCHANGED <<gKeyLongPressed, gKeyValueRecord, threadVars, event, down, historyVars>>

ClearRecord ==
    /\ keyPc = "forget"
    /\ gKeyValueRecord' = "none"
    /\ torn' = Noted(torn \/ \E t \in Presser : pressPc[t] \in {"clear", "send"})
    /\ keyPc' = "answer"
    /\ UNCHANGED <<gKeyPressed, gKeyLongPressed, threadVars, event, down,
                   said, heldFor, upFor, others, missed>>

\* A short press wakes the speaker.  From here on the globals say nothing of
\* other keys any more, and after two units no long-press thread does.
Answer ==
    /\ keyPc = "answer"
    /\ said' = IF others # "no" \/ gKeyLongPressed THEN said ELSE said \cup {"WAKEUP"}
    /\ others' = IF others = "since" THEN "before" ELSE others
    /\ keyPc' = "poll"
    /\ UNCHANGED <<globals, threadVars, event, down, heldFor, upFor, missed, torn>>

-----------------------------------------------------------------------------
(* key_long_press_thread_routine.                                          *)

Goto(t, pc) == pressPc' = [pressPc EXCEPT ![t] = pc]

\* The mutex is taken and given up again by the wait.
Wait(t) ==
    /\ pressPc[t] = "start" /\ gmutex = "free"
    /\ Goto(t, "waiting")
    /\ UNCHANGED <<globals, gmutex, age, keyPc, event, down, historyVars>>

WakeUp(t) ==
    /\ pressPc[t] = "waiting"
    /\ Goto(t, "woken")
    /\ UNCHANGED <<globals, gmutex, age, keyPc, event, down, historyVars>>

Measure(t) ==
    /\ pressPc[t] = "woken" /\ gmutex = "free"
    /\ gmutex' = t
    /\ age' = [age EXCEPT ![t] = 0]
    /\ Goto(t, "look")
    /\ UNCHANGED <<globals, keyPc, event, down, historyVars>>

Look(t) ==
    /\ pressPc[t] = "look"
    /\ Goto(t, IF gKeyPressed THEN "sleep" ELSE "leave")
    /\ UNCHANGED <<globals, gmutex, age, keyPc, event, down, historyVars>>

\* Faulty variant of TimeExceed: the key is not looked at again in between.
TimeExceedOnly(t) ==
    /\ pressPc[t] = "due"
    /\ Goto(t, IF age[t] >= LongTicks THEN "mark" ELSE "sleep")
    /\ UNCHANGED <<globals, gmutex, age, keyPc, event, down, historyVars>>

\* time_exceed, after usleep.
TimeExceed(t) ==
    /\ pressPc[t] = "due"
    /\ Goto(t, IF age[t] >= LongTicks THEN "mark" ELSE "look")
    /\ UNCHANGED <<globals, gmutex, age, keyPc, event, down, historyVars>>

MarkLong(t) ==
    /\ pressPc[t] = "mark"
    /\ gKeyLongPressed' = TRUE
    /\ torn' = Noted(torn \/ keyPc = "answer")
    /\ Goto(t, "clear")
    /\ UNCHANGED <<gKeyPressed, gKeyValueRecord, gmutex, age, keyPc, event, down,
                   said, heldFor, upFor, others, missed>>

\* A press that the key thread is just storing is forgotten.
ClearLong(t) ==
    /\ pressPc[t] = "clear"
    /\ gKeyPressed' = FALSE
    /\ missed' = Noted(missed \/ keyPc \in {"short", "recordAndSignal"})
    /\ torn' = Noted(torn \/ keyPc = "recordAndSignal")
    /\ Goto(t, "send")
    /\ UNCHANGED <<gKeyLongPressed, gKeyValueRecord, gmutex, age, keyPc, event, down,
                   said, heldFor, upFor, others>>

\* A long press of KEY_MICMUTE starts the network configuration.
SendLong(t) ==
    /\ pressPc[t] = "send"
    /\ said' = IF others = "no" /\ gKeyValueRecord = Mute THEN said \cup {"READY_NETCONFIG"} ELSE said
    /\ Goto(t, "look")
    /\ UNCHANGED <<globals, gmutex, age, keyPc, event, down, heldFor, upFor, others, missed, torn>>

\* Faulty variant of Leave: the mutex is kept.
LeaveLocked(t) ==
    /\ pressPc[t] = "leave"
    /\ age' = [age EXCEPT ![t] = 0]
    /\ Goto(t, "start")
    /\ UNCHANGED <<globals, gmutex, keyPc, event, down, historyVars>>

Leave(t) ==
    /\ pressPc[t] = "leave"
    /\ gmutex' = "free"
    /\ age' = [age EXCEPT ![t] = 0]
    /\ Goto(t, "start")
    /\ UNCHANGED <<globals, keyPc, event, down, historyVars>>

-----------------------------------------------------------------------------
\* Nothing can be done before time passes.
Idle(t) ==
    \/ pressPc[t] \in {"none", "waiting", "deaf", "sleep"}
    \/ pressPc[t] \in {"start", "woken"} /\ gmutex # "free"

Capped(n, limit) == IF n < limit THEN n + 1 ELSE n

\* What is known of a press of KEY_MICMUTE is dropped when the key has been up
\* for two units.
Tick ==
    /\ keyPc = "poll"
    /\ \A t \in Presser : Idle(t)
    /\ age' = [t \in Presser |->
                 IF pressPc[t] = "sleep" THEN Capped(age[t], LongTicks) ELSE age[t]]
    /\ pressPc' = [t \in Presser |-> IF pressPc[t] = "sleep" THEN "due" ELSE pressPc[t]]
    /\ upFor' = IF Mute \in down THEN 0 ELSE Capped(upFor, 2)
    /\ IF upFor' = 2 \/ others # "no"
         THEN heldFor' = 0 /\ said' = {} /\ missed' = FALSE /\ torn' = FALSE
         ELSE heldFor' = Capped(heldFor, LongTicks) /\ UNCHANGED <<said, missed, torn>>
    /\ others' = IF upFor' = 2 /\ others = "before" THEN "no" ELSE others
    /\ UNCHANGED <<globals, gmutex, keyPc, event, down>>

HandleEvent ==
    \/ SetPressed   \/ SetShort    \/ SetRecord \/ SignalPress
    \/ ClearPressed \/ ClearRecord \/ Answer

LongPress(t) ==
    \/ Wait(t) \/ Measure(t) \/ Look(t) \/ TimeExceed(t)
    \/ MarkLong(t) \/ ClearLong(t) \/ SendLong(t) \/ Leave(t)

KeysNext ==
    \/ StartKeyThread \/ StartFromMain
    \/ \E k \in Key : Press(k) \/ Release(k)
    \/ HandleEvent
    \/ \E t \in Presser : LongPress(t) \/ WakeUp(t)
    \/ Tick

KeysSpec == KeysInit /\ [][KeysNext]_keyVars

\* The threads run and time passes; nobody has to touch a key.
KeysFairSpec ==
    /\ KeysSpec
    /\ WF_keyVars(HandleEvent) /\ WF_keyVars(Tick)
    /\ \A t \in Presser : WF_keyVars(LongPress(t))

-----------------------------------------------------------------------------
(* Properties.                                                             *)

\* READY_NETCONFIG is sent only for a key that has been down for the whole
\* duration of a long press, but for gaps too short to be looked at, although
\* the threads that measure read the key without its lock.
LongWasHeld ==
    [][others = "no" /\ "READY_NETCONFIG" \in said' \ said => heldFor = LongTicks]_keyVars

\* Every press of KEY_MICMUTE is answered, as a long or as a short one, by the
\* end of its release, unless the stores of the press or the release fall
\* between those of a thread that has just found it, or the press before it,
\* long (387-403 against 643-646 and 667-683).
PressAnswered ==
    others = "no" /\ keyPc = "poll" /\ Mute \notin down /\ upFor < 2 /\ ~torn => said # {}

\* A key that is held is reported as a long press, unless the signal found no
\* thread that could measure it or the end of the press before cleared it.
LongIsReported ==
    Mute \in down /\ heldFor = LongTicks
      ~> "READY_NETCONFIG" \in said \/ Mute \notin down \/ others # "no" \/ missed
=============================================================================
