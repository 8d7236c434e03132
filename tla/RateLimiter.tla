---------------------------- MODULE RateLimiter ----------------------------
(***************************************************************************)
(* The per-connection limiter of node-hitting requests (server.rs lines    *)
(* 63-78): a fixed window that starts afresh with the first call made a    *)
(* full window after the last start.  Time is in the units of Window.      *)
(***************************************************************************)
EXTENDS Integers, Sequences

CONSTANTS
    Limit,    \* NODE_CALLS_PER_MIN
    Window,   \* 60 seconds
    MaxNow    \* bound on the clock, for model checking

ASSUME LimiterAssumption ==
    /\ Limit \in Nat \ {0}
    /\ Window \in Nat \ {0}
    /\ MaxNow \in Nat

VARIABLES
    now,          \* Instant::now()
    count,        \* calls allowed in the current window
    window_start, \* when that window began
    stamps,       \* history: the instants of the allowed calls, in order
    answer        \* what the last call of allow() returned

limiterVars == <<now, count, window_start, stamps, answer>>

LimiterTypeOK ==
    /\ now \in 0..MaxNow
    /\ count \in 0..Limit
    /\ window_start \in 0..now
    /\ stamps \in Seq(0..now)
    /\ answer \in {"none", "allowed", "refused"}

\* RateLimiter::new, at the start of the connection.
LimiterInit ==
    /\ now = 0
    /\ count = 0
    /\ window_start = 0
    /\ stamps = <<>>
    /\ answer = "none"

Expired == now - window_start >= Window

\* Mutant: the counter is reset but the window start is not.
Roll_OldStart(start, n) == start = window_start /\ n = IF Expired THEN 0 ELSE count

\* Mutant: the window moves on but the counter is not reset.
Roll_OldCount(start, n) == start = (IF Expired THEN now ELSE window_start) /\ n = count

\* The window start and the counter after the expiry check.
Roll(start, n) ==
    IF Expired THEN start = now /\ n = 0
               ELSE start = window_start /\ n = count

Allow ==
    /\ \E start \in 0..now, n \in 0..Limit :
          /\ Roll(start, n)
          /\ window_start' = start
          /\ \/ n < Limit /\ count' = n + 1 /\ stamps' = Append(stamps, now) /\ answer' = "allowed"
             \/ n >= Limit /\ count' = n /\ stamps' = stamps /\ answer' = "refused"
    /\ UNCHANGED now

\* Time passes between calls.
Elapse ==
    /\ now < MaxNow
    /\ now' = now + 1
    /\ answer' = "none"
    /\ UNCHANGED <<count, window_start, stamps>>

LimiterNext == Allow \/ Elapse

LimiterSpec == LimiterInit /\ [][LimiterNext]_limiterVars

-----------------------------------------------------------------------------

\* However a client times its calls, fewer than 2 * Limit + 1 of them fit in
\* any interval shorter than a window: the limiter bounds what one client can
\* send to the shared node (server.rs lines 58-61), at twice the nominal rate
\* when a burst straddles two windows.
AtMostTwiceLimit ==
    \A i \in 1..Len(stamps) :
        i + 2 * Limit <= Len(stamps) => stamps[i + 2 * Limit] >= stamps[i] + Window

\* A client that keeps under the limit is never refused: a refusal means the
\* full limit was used within the last window (server.rs lines 68-77).
RefusedOnlyOverLimit ==
    answer = "refused" =>
        /\ Len(stamps) >= Limit
        /\ stamps[Len(stamps) - Limit + 1] > now - Window

=============================================================================
