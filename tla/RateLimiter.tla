---------------------------- MODULE RateLimiter ----------------------------
(***************************************************************************)
(* crates/perps-core/src/rate_limiter.rs: RateLimiter::execute, called by   *)
(* any number of tasks that share the limiter.  Time is a counter; a sleep  *)
(* ends at its deadline or later.  A request's own duration is left out:    *)
(* requests of different callers overlap in any case.                       *)
(*                                                                         *)
(* A definition right before another with the same parameters that is used  *)
(* nowhere else (FullAboveLimit, WaitWholeWindow, ...) is a slip that would *)
(* break a property.                                                        *)
(***************************************************************************)
EXTENDS Integers, Sequences

CONSTANTS
    Callers,        \* tasks that share the limiter
    Limits,         \* limits: a sequence of [max, window]
    MaxTime         \* bound on the clock

ASSUME LimitsAssumption == Limits \in Seq([max : Nat \ {0}, window : Nat \ {0}])
ASSUME MaxTimeAssumption == MaxTime \in Nat

VARIABLES
    now,            \* Instant::now()
    history,        \* request_history: a queue of times for each limit
    deadline,       \* caller -> when its sleep ends, Idle when it is not in execute
    sent,           \* history variable: when each of the requests was made
    overlapped      \* history variable: two calls have been in execute at once

rlVars == <<now, history, deadline, sent, overlapped>>

Idle == -1

Init ==
    /\ now = 0
    /\ history = [i \in DOMAIN Limits |-> <<>>]
    /\ deadline = [c \in Callers |-> Idle]
    /\ sent = <<>>
    /\ overlapped = FALSE

-----------------------------------------------------------------------------
(* calculate_wait_time                                                      *)

Expired(t, window) == now - t >= window

(* clean_history drops from the front while the front has left the window.  *)
Cleaned(i) ==
    LET recent == {k \in DOMAIN history[i] : ~Expired(history[i][k], Limits[i].window)}
    IN  IF recent = {} THEN <<>>
        ELSE SubSeq(history[i], CHOOSE k \in recent : \A j \in recent : k <= j,
                    Len(history[i]))

FullAboveLimit(i, times) == Len(times) > Limits[i].max
Full(i, times) == Len(times) >= Limits[i].max

(* How long limit i alone makes the caller wait.                            *)
WaitWholeWindow(i, times) == IF Full(i, times) THEN Limits[i].window ELSE 0
Wait(i, times) ==
    IF Full(i, times) THEN Limits[i].window - (now - Head(times)) ELSE 0

(* The longest of the waits, 0 when there are no limits.                    *)
MaxWait(cleaned) ==
    LET waits == {Wait(i, cleaned[i]) : i \in DOMAIN Limits} \cup {0}
    IN  CHOOSE w \in waits : \A v \in waits : v <= w

Calculate(c) ==
    /\ deadline[c] = Idle
    /\ history' = [i \in DOMAIN Limits |-> Cleaned(i)]
    /\ deadline' = [deadline EXCEPT ![c] = now + MaxWait(history')]
    /\ overlapped' = (overlapped \/ \E d \in Callers : deadline[d] # Idle)
    /\ UNCHANGED <<now, sent>>

Stamp(c) == now

(* The sleep is over; the time is recorded and the request made, whatever   *)
(* others have recorded since.                                              *)
Record(c) ==
    /\ deadline[c] # Idle
    /\ deadline[c] <= now
    /\ history' = [i \in DOMAIN Limits |-> Append(history[i], Stamp(c))]
    /\ sent' = Append(sent, now)
    /\ deadline' = [deadline EXCEPT ![c] = Idle]
    /\ UNCHANGED <<now, overlapped>>

Tick ==
    /\ now < MaxTime
    /\ now' = now + 1
    /\ UNCHANGED <<history, deadline, sent, overlapped>>

Next == Tick \/ \E c \in Callers : Calculate(c) \/ Record(c)

Spec == Init /\ [][Next]_rlVars

-----------------------------------------------------------------------------
(* Fewer than max requests in the window of limit i that ends at time t.    *)
HasRoom(i, t) ==
    LET n == Len(sent) - Limits[i].max + 1
    IN  n > 0 => t - sent[n] >= Limits[i].window

(* "automatically add delays to respect all configured rate limits": no     *)
(* window of any limit holds more requests than the limit allows, so that   *)
(* any max + 1 requests in a row take the window at least.  Refuted for     *)
(* callers that overlap, which see the same room.                           *)
LimitsRespected ==
    \A i \in DOMAIN Limits : \A n \in DOMAIN sent :
        n > Limits[i].max => sent[n] - sent[n - Limits[i].max] >= Limits[i].window

(* Callers that come one after the other never exceed a limit, whatever the *)
(* limits and however late a sleep ends.                                    *)
LimitsRespectedInTurn == ~overlapped => LimitsRespected

(* No caller sleeps longer than it must, overlapped or not: at any time     *)
(* before its deadline, a request would break some limit.                   *)
WaitIsMinimal ==
    \A c \in Callers : \A t \in now .. deadline[c] - 1 :
        \E i \in DOMAIN Limits : ~HasRoom(i, t)
=============================================================================
