------------------------------- MODULE Timers -------------------------------
(***************************************************************************)
(* The timer list of sched.c: a list sorted by expiry in which an entry's  *)
(* expires is the number of ticks after the entry before it.  add_timer,   *)
(* del_timer and run_timer_list run with interrupts off, one at a time;    *)
(* the loops of add_timer and run_timer_list take a step per round.        *)
(*                                                                         *)
(* left is a history variable: what the owner asked for, less the ticks    *)
(* since.  No guard reads it.                                              *)
(***************************************************************************)
EXTENDS Naturals, Sequences

CONSTANTS Owner,   \* processes, one timer each, on the stack of do_sleep
          MaxTime  \* bound: the longest time a timer is set for

ASSUME TimersAssumption == MaxTime \in Nat

VARIABLES
    list,     \* timer_list, first to last
    expires,  \* timer->expires
    op,       \* "none", or which loop is running: "add", "run"
    who,      \* add_timer's timer
    le,       \* add_timer's cursor, an index of list
    left

timersVars == <<list, expires, op, who, le, left>>

Linked(p) == \E i \in DOMAIN list : list[i] = p

\* list_add_before the entry at i (i = Len(l) + 1: before the list head).
list_add_before(l, i, p) ==
    [k \in 1..(Len(l) + 1) |-> IF k < i THEN l[k] ELSE IF k = i THEN p ELSE l[k - 1]]

\* list_del_init of the entry at i.
list_del_init(l, i) == [k \in 1..(Len(l) - 1) |-> IF k < i THEN l[k] ELSE l[k + 1]]

-----------------------------------------------------------------------------
\* add_timer up to its loop.  Its assertions are the guard: a timer is set by
\* do_sleep for at least one tick and is on no list.
AddTimer(p, t) ==
    /\ op = "none"
    /\ ~Linked(p)
    /\ expires' = [expires EXCEPT ![p] = t]
    /\ op' = "add" /\ who' = p /\ le' = 1
    /\ left' = [left EXCEPT ![p] = t]
    /\ UNCHANGED list

\* The loop goes on past an entry that expires no later.
GoesBefore(t, next) == expires[t] < expires[next]

AddPasses ==
    /\ op = "add" /\ le \in DOMAIN list
    /\ ~GoesBefore(who, list[le])
    /\ expires' = [expires EXCEPT ![who] = @ - expires[list[le]]]
    /\ le' = le + 1
    /\ UNCHANGED <<list, op, who, left>>

\* The entry after the new one counts from it from now on.
Shortened_Not(next, t) == expires
Shortened(next, t) == [expires EXCEPT ![next] = @ - expires[t]]

AddInserts ==
    /\ op = "add"
    /\ \/ le \in DOMAIN list /\ GoesBefore(who, list[le])
          /\ expires' = Shortened(list[le], who)
       \/ le = Len(list) + 1 /\ expires' = expires
    /\ list' = list_add_before(list, le, who)
    /\ op' = "none"
    /\ UNCHANGED <<who, le, left>>

\* del_timer of the entry at i: the next entry inherits its ticks.
Inherits(i) ==
    IF expires[list[i]] # 0 /\ i < Len(list)
    THEN [expires EXCEPT ![list[i + 1]] = @ + expires[list[i]]]
    ELSE expires

DelTimer(i) ==
    /\ op = "none" /\ i \in DOMAIN list
    /\ expires' = Inherits(i)
    /\ list' = list_del_init(list, i)
    /\ left' = [left EXCEPT ![list[i]] = 0]
    /\ UNCHANGED <<op, who, le>>

\* run_timer_list up to its loop: only the first entry is decremented.
RunTimerList ==
    /\ op = "none" /\ list # <<>>
    /\ expires' = [expires EXCEPT ![list[1]] = @ - 1]
    /\ op' = "run"
    /\ left' = [p \in Owner |-> IF left[p] > 0 THEN left[p] - 1 ELSE 0]
    /\ UNCHANGED <<list, who, le>>

\* A round of the loop: wakeup_proc (module Proc) and del_timer of an entry
\* whose expires is 0.
Expires_Early(p) == expires[p] <= 1
Expires(p) == expires[p] = 0

RunFires_NoDel == op = "run" /\ list # <<>> /\ Expires(list[1]) /\ UNCHANGED timersVars
RunFires ==
    /\ op = "run" /\ list # <<>> /\ Expires(list[1])
    /\ list' = list_del_init(list, 1)
    /\ UNCHANGED <<expires, op, who, le, left>>

RunEnds_AfterOne == op = "run" /\ op' = "none" /\ UNCHANGED <<list, expires, who, le, left>>
RunEnds ==
    /\ op = "run"
    /\ ~(list # <<>> /\ Expires(list[1]))
    /\ op' = "none"
    /\ UNCHANGED <<list, expires, who, le, left>>

-----------------------------------------------------------------------------
TimersInit ==
    /\ list = <<>>
    /\ expires = [p \in Owner |-> 0]
    /\ op = "none"
    /\ who \in Owner
    /\ le = 1
    /\ left = [p \in Owner |-> 0]

Loop == AddPasses \/ AddInserts \/ RunFires \/ RunEnds

TimersNext ==
    \/ \E p \in Owner, t \in 1..MaxTime : AddTimer(p, t)
    \/ \E i \in DOMAIN list : DelTimer(i)
    \/ RunTimerList
    \/ Loop

TimersSpec == TimersInit /\ [][TimersNext]_timersVars

\* Ticks keep coming and the loops run with interrupts off.
TimersFairSpec == TimersSpec /\ WF_timersVars(Loop) /\ SF_timersVars(RunTimerList)

-----------------------------------------------------------------------------
TimersTypeOK ==
    /\ list \in Seq(Owner)
    /\ expires \in [Owner -> Nat]
    /\ op \in {"none", "add", "run"}
    /\ who \in Owner
    /\ le \in Nat \ {0}
    /\ left \in [Owner -> Nat]

\* Ticks from now to the entry at index i - 1 of the list, 0 before the first.
Before(i) == IF i = 1 THEN 0 ELSE left[list[i - 1]]

\* The list is a delta encoding of what the owners asked for: each entry's expires
\* is its distance from the entry before it, whatever was inserted, deleted or
\* fired around it.  add_timer's running value keeps the same relation.
DeltaExact ==
    /\ \A i \in DOMAIN list : left[list[i]] = expires[list[i]] + Before(i)
    /\ op = "add" => left[who] = expires[who] + Before(le)

\* The assertion of run_timer_list: outside a tick the first entry is never
\* already expired, so decrementing it never wraps an unsigned 0.
HeadNotExpired ==
    op \in {"none", "add"} /\ list # <<>> => expires[list[1]] > 0

\* The delta list implements TimerSpec.  During a tick the due timers are the
\* linked ones with no tick left.
Service == INSTANCE TimerSpec WITH
    rem  <- left,
    due  <- {p \in Owner : op = "run" /\ Linked(p) /\ left[p] = 0},
    busy <- (op = "run")

ServiceSafety == Service!TimerSafety

\* A timer leaves the list, where run_timer_list would follow it into the stack of
\* its owner: it fires or is deleted, however many others come and go before it.
TimerEnds == \A p \in Owner : Linked(p) ~> ~Linked(p)
=============================================================================
