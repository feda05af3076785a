------------------------------ MODULE KeepAlive ------------------------------
(***************************************************************************)
(* KeepAliveService: the server requests its own public health URL so that *)
(* the platform, which suspends a service after 15 minutes without a       *)
(* request, does not.  Time is counted in ticks of 15 seconds, after which *)
(* a ping is aborted; timers fire in the tick in which they are due.       *)
(***************************************************************************)
EXTENDS Integers, FiniteSetsExt

CONSTANTS
    Minutes,    \* the values of the configured interval, 0 if there is none
    MaxMissed   \* bound: the pings in a row that fail

PerMinute == 4
Sleeps == 15 * PerMinute    \* external: the platform suspends the service
NoTimer == -1

VARIABLES
    config,     \* keepAlive.enabled, the URL and the interval
    initialIn,  \* the ticks until the first timeout fires, or NoTimer
    pingIn,     \* the ticks until the interval fires, or NoTimer
    ping,       \* the age of the ping under way, or NoTimer
    quiet,      \* the ticks since a request reached the server
    missed,     \* the pings in a row that did not arrive
    up          \* the application is bootstrapped

vars == <<config, initialIn, pingIn, ping, quiet, missed, up>>

(* A missing or zero interval is ten minutes; *)
Requested == IF config.minutes = 0 THEN 10 ELSE config.minutes

IntervalFromOne == Max({Requested, 1}) * PerMinute              \* mutant

(* any other is kept between 1 and 14. *)
Interval == Min({Max({Requested, 1}), 14}) * PerMinute

(* A URL of this machine counts only if KEEP_ALIVE_URL names it. *)
Enabled == config.enabled /\ config.url \in {"public", "forced"}

Configuration == [enabled : BOOLEAN, minutes : Minutes,
                  url : {"none", "localhost", "forced", "public"}]

Init ==
    /\ config \in Configuration
    /\ initialIn = NoTimer /\ pingIn = NoTimer /\ ping = NoTimer
    /\ quiet = 0
    /\ missed = 0
    /\ up = FALSE

-----------------------------------------------------------------------------
(* onApplicationBootstrap: the first ping comes after 30 seconds. *)
Bootstrap ==
    /\ ~up
    /\ up' = TRUE
    /\ initialIn' = IF Enabled THEN 2 ELSE NoTimer
    /\ quiet' = 0
    /\ missed' = 0
    /\ UNCHANGED <<config, pingIn, ping>>

(* onApplicationShutdown; a ping under way is not aborted. *)
Shutdown ==
    /\ up
    /\ up' = FALSE
    /\ initialIn' = NoTimer /\ pingIn' = NoTimer
    /\ UNCHANGED <<config, ping, quiet, missed>>

(* A timer is due: executePing, and the interval begins anew. *)
Fire ==
    /\ initialIn = 0 \/ pingIn = 0
    /\ initialIn' = NoTimer
    /\ pingIn' = Interval
    /\ ping' = 0
    /\ UNCHANGED <<config, quiet, missed, up>>

(* The request arrives, whatever its response. *)
Arrive ==
    /\ ping # NoTimer
    /\ ping' = NoTimer
    /\ quiet' = 0
    /\ missed' = 0
    /\ UNCHANGED <<config, initialIn, pingIn, up>>

(* It fails, or is aborted. *)
Miss ==
    /\ ping # NoTimer
    /\ missed < MaxMissed
    /\ ping' = NoTimer
    /\ missed' = missed + 1
    /\ UNCHANGED <<config, initialIn, pingIn, quiet, up>>

(* Anybody else's request. *)
Visit ==
    /\ up
    /\ quiet' = 0
    /\ UNCHANGED <<config, initialIn, pingIn, ping, missed, up>>

Later(timer) == IF timer = NoTimer THEN NoTimer ELSE timer - 1

Tick ==
    /\ up
    /\ initialIn # 0 /\ pingIn # 0
    /\ ping < 1
    /\ quiet < (MaxMissed + 2) * Sleeps
    /\ initialIn' = Later(initialIn)
    /\ pingIn' = Later(pingIn)
    /\ ping' = IF ping = NoTimer THEN NoTimer ELSE ping + 1
    /\ quiet' = quiet + 1
    /\ UNCHANGED <<config, missed, up>>

Next == Bootstrap \/ Shutdown \/ Fire \/ Arrive \/ Miss \/ Visit \/ Tick

Spec == Init /\ [][Next]_vars

-----------------------------------------------------------------------------
(* Whatever interval is configured, a service that nobody visits is never  *)
(* quiet long enough to be suspended, if its pings arrive; and for every   *)
(* ping in a row that does not, it may be quiet for one more interval.     *)
StaysAwake ==
    up /\ Enabled =>
        /\ missed = 0 => quiet < Sleeps
        /\ quiet <= (missed + 1) * Interval + 1
=============================================================================
