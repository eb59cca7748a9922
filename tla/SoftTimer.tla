----------------------------- MODULE SoftTimer -----------------------------
(***************************************************************************)
(* The software timers of vendor/common/blt_soft_timer.c: a table of       *)
(* callbacks sorted by the tick they are due at, worked off by             *)
(* blt_soft_timer_process once per main loop, and the low-power wake-up    *)
(* that must get the MCU out of sleep for the first of them.               *)
(*                                                                         *)
(* Ticks are numbers modulo Wrap (u32 in the code).  A callback may add    *)
(* and delete timers, any number of them, before it returns; it takes no   *)
(* time of its own, and each callback has at most one timer.               *)
(***************************************************************************)
EXTENDS Integers, SequencesExt

CONSTANTS
    Cb,         \* callbacks
    MaxTimer,   \* MAX_TIMER_NUM
    Wrap,       \* 2^32, the range of a tick
    Quarter,    \* BIT(30)
    Pre,        \* BLT_TIMER_SAFE_MARGIN_PRE
    Post,       \* BLT_TIMER_SAFE_MARGIN_POST
    Near,       \* 5000 * SYSTEM_TIMER_TICK_1MS
    Interval,   \* intervals that are asked for
    MaxLate,    \* how late the main loop may come round
    Uses,       \* what the application does besides adding timers: it deletes
                \* them ("delete"), and its callbacks return a negative number
                \* ("return"), delete their own timer ("own") or another one
                \* ("other") and add timers ("add")
    MaySleep    \* does blc_sdk_main_loop put the MCU to sleep?

ASSUME TimerAssumption ==
    /\ MaxTimer \in Nat \ {0}
    /\ Wrap \in Nat /\ Quarter \in 1..Wrap /\ 2 * Quarter <= Wrap /\ Pre \in 0..Quarter
    /\ Post \in 1..Wrap /\ Near \in 1..Wrap /\ MaxLate \in Nat
    /\ Interval \subseteq 1..(Wrap - 1)
    /\ Uses \subseteq {"delete", "return", "own", "other", "add"}
    /\ MaySleep \in BOOLEAN
    /\ "none" \notin Cb

VARIABLES
    timers,   \* blt_timer.timer[0 .. currentNum-1]
    now,      \* clock_time()
    wake,     \* the last blc_pm_setAppWakeupLowPower
    pc,       \* "app", "asleep", or inside blt_soft_timer_process "loop",
              \* and "callback" in a callback it has called
    pnow,     \* blt_soft_timer_process: its local now
    idx,      \* blt_soft_timer_process: its local i
    chg,      \* blt_soft_timer_process: its local change_flg
    cur       \* the callback that runs

localVars == <<pnow, idx, chg>>
vars == <<timers, now, wake, pc, localVars, cur>>

Tick == 0..(Wrap - 1)
Timer == [cb : Cb, t : Tick, interval : Interval]
NoCb == "none"
Off == [on |-> FALSE, t |-> 0]
At(t) == [on |-> TRUE, t |-> t]

Init ==
    /\ timers = << >> /\ now = 0 /\ wake = Off
    /\ pc = "app" /\ pnow = 0 /\ idx = 0 /\ chg = FALSE /\ cur = NoCb

-----------------------------------------------------------------------------
(* The table.                                                              *)

Plus(t, d) == (t + d) % Wrap

\* TIME_COMPARE_BIG
TimeBig(t1, t2) == (t1 - t2) % Wrap < Quarter

\* blt_is_timer_expired
Expired(t, n) == (n + Pre - t) % Wrap < Post

\* One comparison of blt_soft_timer_sort.
SortStep(tab, j) ==
    IF TimeBig(tab[j].t, tab[j + 1].t)
    THEN [tab EXCEPT ![j] = tab[j + 1], ![j + 1] = tab[j]]
    ELSE tab

\* Its inner loop: m comparisons from the front.
SortPass(tab, m) ==
    LET pass[j \in 0..m] == IF j = 0 THEN tab ELSE SortStep(pass[j - 1], j)
    IN  pass[m]

\* Mutant of Sort: only the inner loop.
SortOnePass(tab) == IF tab = << >> THEN tab ELSE SortPass(tab, Len(tab) - 1)

\* blt_soft_timer_sort: bubble sort.
Sort(tab) ==
    LET n == Len(tab)
        round[i \in 0..(n - 1)] ==
            IF i = 0 THEN tab ELSE SortPass(round[i - 1], n - i)
    IN  IF n < 1 THEN tab ELSE round[n - 1]

\* blt_soft_timer_delete_by_index
DeleteByIndex(tab, i) == IF i > Len(tab) THEN tab ELSE RemoveAt(tab, i)

Armed(c) == \E k \in 1..Len(timers) : timers[k].cb = c
IndexOf(tab, c) == CHOOSE k \in 1..Len(tab) : tab[k].cb = c

\* The wake-up for the first timer, unless it is far off (or overdue).
WakeFor(tab, n) ==
    IF tab # << >> /\ (tab[1].t - n) % Wrap < Near THEN At(tab[1].t) ELSE Off

-----------------------------------------------------------------------------
(* The application, in its main loop or in a callback.                     *)

\* Where blt_soft_timer_add is called.
Adds == pc = "app" \/ (pc = "callback" /\ "add" \in Uses)

\* Where blt_soft_timer_delete is called for the timer of c.
Deletes(c) ==
    \/ pc = "app" /\ "delete" \in Uses
    \/ pc = "callback" /\ c = cur /\ "own" \in Uses
    \/ pc = "callback" /\ c # cur /\ "other" \in Uses

Added(tab, c, iv) ==
    Sort(Append(tab, [cb |-> c, t |-> Plus(now, iv), interval |-> iv]))

\* Mutant of Add: the table takes one timer too many.
AddOver(c, iv) ==
    /\ Adds /\ ~Armed(c) /\ Len(timers) <= MaxTimer
    /\ timers' = Added(timers, c, iv)
    /\ wake' = At(timers'[1].t)
    /\ UNCHANGED <<now, pc, localVars, cur>>

\* blt_soft_timer_add: the table is sorted, under the loop too.
Add(c, iv) ==
    /\ Adds /\ ~Armed(c)
    /\ \/ /\ Len(timers) < MaxTimer
          /\ timers' = Added(timers, c, iv)
          /\ wake' = At(timers'[1].t)
       \/ /\ Len(timers) >= MaxTimer
          /\ UNCHANGED <<timers, wake>>
    /\ UNCHANGED <<now, pc, localVars, cur>>

\* blt_soft_timer_delete: the wake-up follows when the first timer goes.
Delete(c) ==
    LET i == IndexOf(timers, c) IN
    /\ Deletes(c) /\ Armed(c)
    /\ timers' = DeleteByIndex(timers, i)
    /\ wake' = IF i = 1 \/ timers' = << >> THEN WakeFor(timers', now) ELSE wake
    /\ UNCHANGED <<now, pc, localVars, cur>>

-----------------------------------------------------------------------------
(* blt_soft_timer_process, from the main loop or after a wake-up.          *)

\* No timer, or the first one is not due: nothing is done.
ProcessNothing ==
    /\ pc \in {"app", "asleep"}
    /\ \/ timers = << >> /\ wake' = Off
       \/ timers # << >> /\ ~Expired(timers[1].t, now) /\ UNCHANGED wake
    /\ pc' = "app"
    /\ UNCHANGED <<timers, now, localVars, cur>>

ProcessStart ==
    /\ pc \in {"app", "asleep"} /\ timers # << >> /\ Expired(timers[1].t, now)
    /\ pc' = "loop" /\ pnow' = now /\ idx' = 1 /\ chg' = FALSE
    /\ UNCHANGED <<timers, now, wake, cur>>

\* Timer idx is not due.
LoopSkip ==
    /\ pc = "loop" /\ idx <= Len(timers) /\ ~Expired(timers[idx].t, pnow)
    /\ idx' = idx + 1
    /\ UNCHANGED <<timers, now, wake, pc, pnow, chg, cur>>

\* Timer idx is due: its callback is called.
LoopFire ==
    /\ pc = "loop" /\ idx <= Len(timers) /\ Expired(timers[idx].t, pnow)
    /\ pc' = "callback" /\ cur' = timers[idx].cb
    /\ UNCHANGED <<timers, now, wake, localVars>>

\* Mutants of Returns: the slot after idx is set again; the new due time is not
\* noted for the sort.
ReturnsNext(tab) ==
    /\ chg' = TRUE
    /\ timers' = IF idx >= Len(tab) THEN tab
                 ELSE [tab EXCEPT ![idx + 1].t = Plus(pnow, tab[idx + 1].interval)]
ReturnsNoChange(tab) ==
    /\ UNCHANGED chg
    /\ timers' = IF idx > Len(tab) THEN tab
                 ELSE [tab EXCEPT ![idx].t = Plus(pnow, tab[idx].interval)]

\* What the result of a callback does to the table, whoever is in slot idx by then.
\* A negative one deletes slot idx, and the next timer moves to it.
Returns(tab) ==
    \/ /\ "return" \in Uses
       /\ timers' = DeleteByIndex(tab, idx)
       /\ UNCHANGED chg
    \/ \* Zero, or a new interval: slot idx is set again.
       /\ chg' = TRUE
       /\ \/ idx > Len(tab) /\ timers' = tab
          \/ /\ idx <= Len(tab)
             /\ \E iv \in Interval \cup {tab[idx].interval} :
                    timers' = [tab EXCEPT ![idx].interval = iv,
                                          ![idx].t = Plus(pnow, iv)]

\* The callback returns.
LoopReturn ==
    /\ pc = "callback"
    /\ Returns(timers)
    /\ pc' = "loop" /\ idx' = idx + 1 /\ cur' = NoCb
    /\ UNCHANGED <<now, wake, pnow>>

\* Mutant of LoopEnd: the wake-up is left as it was.
LoopEndNoWake ==
    /\ pc = "loop" /\ idx > Len(timers)
    /\ timers' = IF chg THEN Sort(timers) ELSE timers
    /\ pc' = "app" /\ pnow' = 0 /\ idx' = 0 /\ chg' = FALSE
    /\ UNCHANGED <<now, wake, cur>>

\* All timers have been looked at.
LoopEnd ==
    /\ pc = "loop" /\ idx > Len(timers)
    /\ timers' = IF chg THEN Sort(timers) ELSE timers
    /\ wake' = WakeFor(timers', pnow)
    /\ pc' = "app" /\ pnow' = 0 /\ idx' = 0 /\ chg' = FALSE
    /\ UNCHANGED <<now, cur>>

Process == ProcessNothing \/ ProcessStart

-----------------------------------------------------------------------------
(* Time and sleep (blc_sdk_main_loop and the PM library).                  *)

Late(t) == LET d == (now - t) % Wrap IN IF 2 * d < Wrap THEN d ELSE 0

\* The MCU sleeps unless the wake-up it was given is already due.
Sleep ==
    /\ MaySleep /\ pc = "app"
    /\ wake.on => (wake.t - now) % Wrap \in 1..(Wrap \div 2)
    /\ pc' = "asleep"
    /\ UNCHANGED <<timers, now, wake, localVars, cur>>

\* Awake, the main loop comes round before any timer is later than MaxLate;
\* asleep, the MCU is woken at the tick it was given.
Clock ==
    /\ \/ /\ pc = "app"
          /\ \A k \in 1..Len(timers) : Late(timers[k].t) < MaxLate
       \/ /\ pc = "asleep"
          /\ ~(wake.on /\ wake.t = now)
    /\ now' = Plus(now, 1)
    /\ UNCHANGED <<timers, wake, pc, localVars, cur>>

\* (Process wakes the MCU by itself as well: a radio event may do so.)
Next ==
    \/ \E c \in Cb, iv \in Interval : Add(c, iv)
    \/ \E c \in Cb : Delete(c)
    \/ Process \/ LoopSkip \/ LoopFire \/ LoopReturn \/ LoopEnd
    \/ Sleep \/ Clock

Spec == Init /\ [][Next]_vars

\* Time passes; the main loop runs while the MCU is awake, callbacks return, and
\* a wake-up that was set comes.  Nothing else is sure to wake the MCU.
Fairness ==
    /\ WF_vars(Clock)
    /\ WF_vars((pc = "app" \/ (wake.on /\ wake.t = now)) /\ Process)
    /\ WF_vars(LoopSkip \/ LoopFire \/ LoopReturn \/ LoopEnd)

FairSpec == Spec /\ Fairness

-----------------------------------------------------------------------------
(* Properties.                                                             *)

TypeOK ==
    /\ timers \in Seq(Timer) /\ Len(timers) <= MaxTimer
    /\ now \in Tick /\ wake \in [on : BOOLEAN, t : Tick]
    /\ pc \in {"app", "asleep", "loop", "callback"}
    /\ pnow \in Tick /\ idx \in 0..(MaxTimer + 1) /\ chg \in BOOLEAN
    /\ cur \in Cb \cup {NoCb}

\* Outside blt_soft_timer_process the table is in the order the timers are
\* due, across the wrap of the tick counter, although deletions do not sort.
Ordered ==
    pc \in {"app", "asleep"} => \A l \in 1..Len(timers) : \A k \in 1..l :
        (timers[l].t - timers[k].t) % Wrap < Quarter

\* Timer k is in the table after the step as it was before.
Stays(k) ==
    \E l \in 1..Len(timers') :
        timers'[l].cb = timers[k].cb /\ timers'[l].t = timers[k].t

\* The step is the return of a callback, of which slot idx holds the timer or no
\* longer does.
ReturnInOwn == pc = "callback" /\ pc' = "loop" /\ idx <= Len(timers) /\ timers[idx].cb = cur
ReturnElsewhere == pc = "callback" /\ pc' = "loop" /\ ~(idx <= Len(timers) /\ timers[idx].cb = cur)

\* The table is sorted, closed up and set again by slot number, and still a timer
\* leaves it or is put off only when its own callback returns or when it is
\* deleted by name.  The one way out is a callback that has moved its own timer to
\* another slot, by a call of blt_soft_timer_add, or by deleting it or one before it.
OnlyOwnMove ==
    [][\A k \in 1..Len(timers) :
          \/ Stays(k)
          \/ ReturnInOwn /\ timers[k].cb = cur
          \/ Deletes(timers[k].cb) /\ pc' = pc /\ timers' = DeleteByIndex(timers, k)
          \/ ReturnElsewhere]_vars

\* The MCU never sleeps past a timer: asleep, the wake-up is set for the
\* first timer of the table.
WakeArmed == pc = "asleep" /\ timers # << >> => wake = At(timers[1].t)

\* Every timer that is set runs its callback, unless it is deleted first.
Fires == \A c \in Cb : Armed(c) ~> (cur = c \/ ~Armed(c))

=============================================================================
