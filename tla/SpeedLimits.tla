---------------------------- MODULE SpeedLimits -----------------------------
(***************************************************************************)
(* The speed limits of a session (Limits, AltSpeedState): the normal ones, *)
(* the alternative ones that replace them for a while, the weekly schedule *)
(* that switches between the two, and the limits of a torrent, kept both   *)
(* in an override and in the limiter of its live state.                    *)
(*                                                                         *)
(* The handlers run on several threads and take no lock over a whole call, *)
(* so a call is a series of steps, one for each shared thing it touches.   *)
(* A rate is a number, 0 stands for None.  A day has few minutes.          *)
(***************************************************************************)
EXTENDS Naturals

CONSTANTS Callers,    \* requests of the HTTP APIs
          Scheduler,  \* the task that follows the schedule
          Rates,      \* rates in use
          Minutes,    \* minutes of a day
          Days,       \* days of a week
          Windows,    \* windows the schedule is set to: start and end
          MaxCalls    \* bound: calls of the APIs

ASSUME MinutesAssumption == Minutes \in Nat

VARIABLES enabled,      \* the alternative limits are on
          saved,        \* saved_normal: the normal limits put aside
          holder,       \* who holds the write lock of saved
          lim,          \* the limiters of the session
          alt,          \* AltSpeedConfig
          schedule,     \* AltSpeedSchedule
          clock,        \* the local time
          last,         \* last_schedule_decision
          call,         \* per caller: its next step and what it has read
          override, live, limiter,  \* the torrent: its override, whether it is live, its limiter
          calls,        \* calls begun
          normal,       \* history: the normal limits the requests asked for
          crossed,      \* history: two calls have overlapped
          mixed         \* history: one normal limit was set alone while the alternative ones were on

session == <<enabled, saved, holder, lim, alt>>
plan == <<schedule, clock, last>>
torrent == <<override, live, limiter>>
vars == <<session, plan, torrent, call, calls, normal, crossed, mixed>>

\* An Option is a set of at most one element.
None == {}
Nobody == "nobody"
Idle == [at |-> "idle", want |-> FALSE, rates |-> [down |-> 0, up |-> 0]]
Goes(c, at) == call' = [call EXCEPT ![c].at = at]
GoesWith(c, at, r) == call' = [call EXCEPT ![c] = [at |-> at, want |-> @.want, rates |-> r]]
Swaps(c, want) == call' = [call EXCEPT ![c] = [at |-> "swap", want |-> want, rates |-> @.rates]]
Ends(c) == call' = [call EXCEPT ![c] = Idle]

----------------------------------------------------------------------------
\* What a request asks for: to switch, to toggle, to set the normal limits
\* (both, or one of them), the alternative ones, the schedule, or those of the torrent.
Asks ==
    {a \in [at : {"swap", "toggle", "normal", "config", "readUp", "readDown", "torrentDown"},
            want : BOOLEAN, rates : [down : Rates \cup {0}, up : Rates \cup {0}]] :
        /\ a.want => a.at = "swap"
        /\ a.rates.down \in IF a.at \in {"swap", "toggle", "readDown"} THEN {0} ELSE Rates
        /\ a.rates.up \in IF a.at \in {"normal", "config", "readDown"} THEN Rates ELSE {0}}

Overlaps == crossed \/ \E d \in DOMAIN call : call[d].at # "idle"

Begin(c) ==
    /\ call[c].at = "idle" /\ calls < MaxCalls
    /\ \E a \in Asks :
          /\ call' = [call EXCEPT ![c] = a]
          /\ normal' = [down |-> IF a.at \in {"normal", "readUp"} THEN a.rates.down ELSE normal.down,
                        up |-> IF a.at \in {"normal", "readDown"} THEN a.rates.up ELSE normal.up]
    /\ calls' = calls + 1 /\ crossed' = Overlaps
    /\ UNCHANGED <<session, plan, torrent, mixed>>

\* h_transfer_set_download_limit: the other limit is read from the limiters,
\* whichever limits are in force.
ReadUp(c) ==
    /\ call[c].at = "readUp"
    /\ GoesWith(c, "normal", [down |-> call[c].rates.down, up |-> lim.up])
    /\ mixed' = (mixed \/ enabled)
    /\ UNCHANGED <<session, plan, torrent, calls, normal, crossed>>

\* h_transfer_set_upload_limit.
ReadDown(c) ==
    /\ call[c].at = "readDown"
    /\ GoesWith(c, "normal", [down |-> lim.down, up |-> call[c].rates.up])
    /\ mixed' = (mixed \/ enabled)
    /\ UNCHANGED <<session, plan, torrent, calls, normal, crossed>>

\* h_transfer_toggle_speed_limits_mode.
Toggle(c) ==
    /\ call[c].at = "toggle"
    /\ Swaps(c, ~enabled)
    /\ UNCHANGED <<session, plan, torrent, calls, normal, crossed, mixed>>

\* A mutant: set_alt_speed_enabled goes on although nothing changes.
SwapAlways(c) ==
    /\ call[c].at = "swap"
    /\ enabled' = call[c].want
    /\ Goes(c, IF call[c].want THEN "getConfig" ELSE "take")
    /\ UNCHANGED <<saved, holder, lim, alt, plan, torrent, calls, normal, crossed, mixed>>

\* set_alt_speed_enabled: the flag is exchanged first.
Swap(c) ==
    /\ call[c].at = "swap"
    /\ enabled' = call[c].want
    /\ IF enabled = call[c].want THEN Ends(c) ELSE Goes(c, IF call[c].want THEN "getConfig" ELSE "take")
    /\ UNCHANGED <<saved, holder, lim, alt, plan, torrent, calls, normal, crossed, mixed>>

\* Switching on: the limits in force are read, put aside, and replaced.
GetConfig(c) ==
    /\ call[c].at = "getConfig"
    /\ GoesWith(c, "save", lim)
    /\ UNCHANGED <<session, plan, torrent, calls, normal, crossed, mixed>>

Save(c) ==
    /\ call[c].at \in {"save", "saveOnly"} /\ holder = Nobody
    /\ saved' = {call[c].rates}
    /\ IF call[c].at = "save" THEN GoesWith(c, "down", alt) ELSE Ends(c)
    /\ UNCHANGED <<enabled, holder, lim, alt, plan, torrent, calls, normal, crossed, mixed>>

\* Switching off: what was put aside is taken, and the lock held while it is applied.
Take(c) ==
    /\ call[c].at = "take" /\ holder = Nobody
    /\ saved' = None
    /\ IF saved = None
       THEN Ends(c) /\ UNCHANGED holder
       ELSE GoesWith(c, "down", CHOOSE r \in saved : TRUE) /\ holder' = c
    /\ UNCHANGED <<enabled, lim, alt, plan, torrent, calls, normal, crossed, mixed>>

\* set_download_bps, then set_upload_bps.
ApplyDown(c) ==
    /\ call[c].at = "down"
    /\ lim' = [lim EXCEPT !.down = call[c].rates.down]
    /\ Goes(c, "up")
    /\ UNCHANGED <<enabled, saved, holder, alt, plan, torrent, calls, normal, crossed, mixed>>

ApplyUp(c) ==
    /\ call[c].at = "up"
    /\ lim' = [lim EXCEPT !.up = call[c].rates.up]
    /\ holder' = IF holder = c THEN Nobody ELSE holder
    /\ Ends(c)
    /\ UNCHANGED <<enabled, saved, alt, plan, torrent, calls, normal, crossed, mixed>>

\* set_normal_rate_limits: to the limiters, or aside while the others are in force.
SetNormal(c) ==
    /\ call[c].at = "normal"
    /\ Goes(c, IF enabled THEN "saveOnly" ELSE "down")
    /\ UNCHANGED <<session, plan, torrent, calls, normal, crossed, mixed>>

\* set_alt_speed_config: stored, then applied if in force.
SetConfig(c) ==
    /\ call[c].at = "config"
    /\ alt' = call[c].rates /\ Goes(c, "inForce")
    /\ UNCHANGED <<enabled, saved, holder, lim, plan, torrent, calls, normal, crossed, mixed>>

InForce(c) ==
    /\ call[c].at = "inForce"
    /\ IF enabled THEN Goes(c, "down") ELSE Ends(c)
    /\ UNCHANGED <<session, plan, torrent, calls, normal, crossed, mixed>>

----------------------------------------------------------------------------
\* alt_speed_schedule_wants_active: a window over midnight is split.
WantsActive(s, day, m) ==
    /\ day \in s.days
    /\ IF s.start <= s.end THEN m >= s.start /\ m < s.end ELSE m >= s.start \/ m < s.end

\* set_alt_speed_schedule: the decision is taken anew.
SetSchedule ==
    /\ calls < MaxCalls /\ calls' = calls + 1
    /\ \E on \in BOOLEAN, w \in Windows :
          schedule' = [on |-> on, start |-> w[1], end |-> w[2], days |-> {1}]
    /\ last' = None
    /\ UNCHANGED <<session, clock, torrent, call, normal, crossed, mixed>>

\* spawn_alt_speed_scheduler, every thirty seconds: it acts when the decision changes.
Tick ==
    /\ call[Scheduler].at = "idle"
    /\ IF ~schedule.on THEN last # None /\ last' = None /\ UNCHANGED <<call, crossed>>
       ELSE LET should == WantsActive(schedule, clock.day, clock.minute) IN
            /\ last # {should}
            /\ last' = {should}
            /\ Swaps(Scheduler, should)
            /\ crossed' = Overlaps
    /\ UNCHANGED <<session, schedule, clock, torrent, calls, normal, mixed>>

TimePasses ==
    /\ schedule.on
    /\ clock' = IF clock.minute + 1 < Minutes THEN [clock EXCEPT !.minute = @ + 1]
                ELSE [day |-> (clock.day % Days) + 1, minute |-> 0]
    /\ UNCHANGED <<session, schedule, last, torrent, call, calls, normal, crossed, mixed>>

----------------------------------------------------------------------------
\* set_download_limit and set_upload_limit of a torrent: the override, then the live limiter.
SetOverride(c) ==
    /\ call[c].at = "torrentDown"
    /\ override' = call[c].rates.down /\ Goes(c, "torrentLive")
    /\ UNCHANGED <<session, plan, live, limiter, calls, normal, crossed, mixed>>

SetLive(c) ==
    /\ call[c].at = "torrentLive"
    /\ limiter' = IF live THEN call[c].rates.down ELSE limiter
    /\ Ends(c)
    /\ UNCHANGED <<session, plan, override, live, calls, normal, crossed, mixed>>

\* TorrentStateLive::new under the lock of the torrent, and pause.
StartOrPause == live' = ~live /\ limiter' = IF live THEN limiter ELSE override

Torrent ==
    /\ calls < MaxCalls /\ calls' = calls + 1
    /\ StartOrPause
    /\ UNCHANGED <<session, plan, override, call, normal, crossed, mixed>>

Init ==
    /\ enabled = FALSE /\ saved = None /\ holder = Nobody
    /\ lim \in {[down |-> r, up |-> r] : r \in Rates} /\ normal = lim
    /\ alt = Idle.rates
    /\ schedule = [on |-> FALSE, start |-> 0, end |-> 0, days |-> {}]
    /\ clock = [day |-> 1, minute |-> 0] /\ last = None
    /\ call = [c \in Callers \cup {Scheduler} |-> Idle]
    /\ override = 0 /\ live = FALSE /\ limiter = 0
    /\ calls = 0 /\ crossed = FALSE /\ mixed = FALSE

Step(c) ==
    \/ ReadUp(c) \/ ReadDown(c) \/ Toggle(c) \/ Swap(c) \/ GetConfig(c) \/ Save(c) \/ Take(c)
    \/ ApplyDown(c) \/ ApplyUp(c) \/ SetNormal(c) \/ SetConfig(c) \/ InForce(c)
    \/ SetOverride(c) \/ SetLive(c)

Next ==
    \/ \E c \in Callers : Begin(c)
    \/ \E c \in Callers \cup {Scheduler} : Step(c)
    \/ SetSchedule \/ Tick \/ TimePasses \/ Torrent

Spec == Init /\ [][Next]_vars

----------------------------------------------------------------------------
Quiet == ~crossed /\ \A c \in DOMAIN call : call[c].at = "idle"

\* As long as no two calls overlap, and no limit is set alone while the
\* alternative ones are on, the limits in force are the alternative ones
\* exactly while these are on, whoever switched them; the normal ones last
\* asked for are kept aside meanwhile and come back.  A limit given to a torrent
\* is the one its live state applies, also across a pause.  The schedule is on
\* for as many minutes after its start as its window is long, over midnight too.
LimitsFollowMode ==
    /\ Quiet /\ ~mixed => /\ (enabled <=> saved # None)
                          /\ lim = IF enabled THEN alt ELSE normal
                          /\ enabled => saved = {normal}
    /\ Quiet /\ live => limiter = override
    /\ \A m, s, e \in 0..(Minutes - 1) :
          WantsActive([start |-> s, end |-> e, days |-> {1}], 1, m)
             <=> (m + Minutes - s) % Minutes < (e + Minutes - s) % Minutes

\* The documentation of alt_speed.rs: the alternative rates temporarily replace
\* the normal limits, and disabling restores them; here for requests that come
\* one at a time, whichever API they use.
DisablingRestores == Quiet /\ ~enabled => lim = normal
=============================================================================
