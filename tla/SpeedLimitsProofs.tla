------------------------- MODULE SpeedLimitsProofs -------------------------
(***************************************************************************)
(* The limits in force are those of the mode, for any number of callers,   *)
(* rates and calls.                                                        *)
(*                                                                         *)
(* While calls do not overlap there is one at most, and the argument says, *)
(* for each step it may be about to take, what is put aside, what is in    *)
(* force and what the call has read (StageInv).                            *)
(***************************************************************************)
EXTENDS SpeedLimits, Integers, TLAPS

Who == Callers \cup {Scheduler}
Rate == Rates \cup {0}
Pair == [down : Rate, up : Rate]
Stages == {"idle", "swap", "toggle", "normal", "config", "readUp", "readDown", "torrentDown",
           "getConfig", "save", "saveOnly", "take", "down", "up", "inForce", "torrentLive"}

LimitTypes ==
    /\ enabled \in BOOLEAN /\ crossed \in BOOLEAN /\ mixed \in BOOLEAN /\ live \in BOOLEAN
    /\ lim \in Pair /\ alt \in Pair /\ normal \in Pair /\ saved \in SUBSET Pair
    /\ call \in [Who -> [at : Stages, want : BOOLEAN, rates : Pair]]

Busy(c) == call[c].at # "idle"
Aside == (enabled => saved = {normal}) /\ (~enabled => saved = None)
Applied(r) == (enabled => r = alt) /\ (~enabled => r = normal)
Settled == Aside /\ Applied(lim)

\* One call is under way at most, and the lock is free but while it applies limits.
OneCall ==
    /\ \A c, d \in Who : Busy(c) /\ Busy(d) => c = d
    /\ holder # Nobody => \E c \in Who : holder = c /\ call[c].at \in {"down", "up"}

\* What is true of the limits when the one call is about to take a step.  A request for one
\* limit has changed the history before it has read the other.
StageInv(a) ==
    /\ a.at \in {"swap", "toggle", "config", "torrentDown", "torrentLive"} => Settled
    /\ a.at \in {"readUp", "readDown", "normal"} => /\ enabled => saved # None /\ lim = alt
                                                    /\ ~enabled => saved = None
    /\ a.at = "readUp" => a.rates.down = normal.down /\ (~enabled => lim.up = normal.up)
    /\ a.at = "readDown" => a.rates.up = normal.up /\ (~enabled => lim.down = normal.down)
    /\ a.at = "normal" => a.rates = normal
    /\ a.at = "saveOnly" => enabled /\ lim = alt /\ a.rates = normal
    /\ a.at = "getConfig" => enabled /\ saved = None /\ lim = normal
    /\ a.at = "save" => enabled /\ a.rates = normal
    /\ a.at = "take" => ~enabled /\ saved = {normal}
    /\ a.at \in {"down", "up"} => Aside /\ Applied(a.rates)
    /\ a.at = "up" => lim.down = a.rates.down
    /\ a.at = "inForce" => Aside /\ a.rates = alt /\ (~enabled => lim = normal)

ModeInv == /\ (\A c \in Who : ~Busy(c)) => Settled
           /\ \A c \in Who : Busy(c) => StageInv(call[c])

\* The live limiter lags behind the override only while a call is about to set it.
TorrentInv == /\ \A c \in Who : call[c].at = "torrentLive" => call[c].rates.down = override
              /\ (\A c \in Who : call[c].at # "torrentLive") => (live => limiter = override)

LimitsInv == LimitTypes /\ (~crossed => OneCall /\ TorrentInv /\ (~mixed => ModeInv))

----------------------------------------------------------------------------
\* A step of a call, from what it does to the call, to the limits and to the torrent.
LEMMA AnyStep ==
  ASSUME LimitsInv, NEW c \in Who, Busy(c), LimitTypes', crossed' = crossed, mixed => mixed',
         \A d \in Who \ {c} : call'[d] = call[d],
         ~crossed /\ TorrentInv => TorrentInv',
         ~crossed => \/ holder' = Nobody
                     \/ holder' = c /\ call'[c].at \in {"down", "up"},
         ~crossed /\ ~mixed' /\ ~mixed /\ ModeInv =>
            /\ call'[c].at = "idle" => Settled'
            /\ call'[c].at # "idle" => StageInv(call[c])'
  PROVE  LimitsInv'
<1> SUFFICES ASSUME ~crossed' PROVE OneCall' /\ TorrentInv' /\ (~mixed' => ModeInv')
  BY Zenon DEF LimitsInv
<1>1. ~crossed /\ OneCall /\ TorrentInv /\ (~mixed => ModeInv)
  BY Zenon DEF LimitsInv
<1>2. \A d \in Who \ {c} : ~Busy(d) /\ ~Busy(d)'
  BY <1>1, Zenon DEF OneCall, Busy
<1>3. OneCall'
  BY <1>1, <1>2, Zenon DEF OneCall, Busy
<1>4. ASSUME ~mixed' PROVE ModeInv'
  <2>1. ~mixed /\ ModeInv
    BY <1>1, <1>4, Zenon
  <2>2. /\ call'[c].at = "idle" => Settled'
        /\ call'[c].at # "idle" => StageInv(call[c])'
    BY <1>1, <1>4, <2>1, Zenon
  <2> QED BY <1>2, <2>2, Zenon DEF ModeInv, Busy
<1> QED BY <1>1, <1>3, <1>4, Zenon

\* The same for a step that leaves the torrent alone.
LEMMA CallStep ==
  ASSUME LimitsInv, NEW c \in Who, Busy(c), LimitTypes',
         crossed' = crossed, UNCHANGED torrent, mixed => mixed',
         \A d \in Who \ {c} : call'[d] = call[d],
         call'[c].at # "torrentLive", call[c].at # "torrentLive",
         ~crossed => \/ holder' = Nobody
                     \/ holder' = c /\ call'[c].at \in {"down", "up"},
         ~crossed /\ ~mixed' /\ ~mixed /\ ModeInv =>
            /\ call'[c].at = "idle" => Settled'
            /\ call'[c].at # "idle" => StageInv(call[c])'
  PROVE  LimitsInv'
<1>1. ASSUME TorrentInv PROVE TorrentInv'
  <2>1. \A d \in Who : call[d].at = "torrentLive" => d \in Who \ {c}
    BY Zenon
  <2> QED BY <1>1, <2>1, Zenon DEF TorrentInv, torrent
<1> QED BY <1>1, AnyStep, Zenon

----------------------------------------------------------------------------
\* The ways a call goes on.
LEMMA Changed ==
  ASSUME LimitTypes, NEW c \in Who, NEW a \in [at : Stages, want : BOOLEAN, rates : Pair],
         call' = [call EXCEPT ![c] = a]
  PROVE  /\ call'[c] = a /\ \A d \in Who \ {c} : call'[d] = call[d]
         /\ call' \in [Who -> [at : Stages, want : BOOLEAN, rates : Pair]]
BY Zenon DEF LimitTypes

LEMMA GoesOn ==
  ASSUME LimitTypes, NEW c \in Who, NEW at \in Stages, Goes(c, at)
  PROVE  /\ call'[c].at = at /\ call'[c].rates = call[c].rates
         /\ \A d \in Who \ {c} : call'[d] = call[d]
         /\ call' \in [Who -> [at : Stages, want : BOOLEAN, rates : Pair]]
BY Zenon DEF LimitTypes, Goes

LEMMA GoesOnWith ==
  ASSUME LimitTypes, NEW c \in Who, NEW at \in Stages, NEW r \in Pair, GoesWith(c, at, r)
  PROVE  /\ call'[c].at = at /\ call'[c].rates = r
         /\ \A d \in Who \ {c} : call'[d] = call[d]
         /\ call' \in [Who -> [at : Stages, want : BOOLEAN, rates : Pair]]
<1> DEFINE a == [at |-> at, want |-> call[c].want, rates |-> r]
<1>1. a \in [at : Stages, want : BOOLEAN, rates : Pair] /\ call' = [call EXCEPT ![c] = a]
  BY Zenon DEF LimitTypes, GoesWith
<1> QED BY <1>1, Changed, Zenon

LEMMA IsOver ==
  ASSUME LimitTypes, NEW c \in Who, Ends(c)
  PROVE  /\ call'[c].at = "idle"
         /\ \A d \in Who \ {c} : call'[d] = call[d]
         /\ call' \in [Who -> [at : Stages, want : BOOLEAN, rates : Pair]]
<1>1. Idle \in [at : Stages, want : BOOLEAN, rates : Pair] /\ call' = [call EXCEPT ![c] = Idle]
  BY Zenon DEF Ends, Idle, Stages, Pair, Rate
<1> QED BY <1>1, Changed, Zenon DEF Idle

\* What is known of the limits when a call is about to take its step.
LEMMA AtStage ==
  ASSUME LimitsInv, NEW c \in Who, Busy(c)
  PROVE  /\ LimitTypes /\ call[c].rates \in Pair
         /\ ~crossed => \/ holder = Nobody
                        \/ holder = c /\ call[c].at \in {"down", "up"}
         /\ ~crossed /\ ~mixed => StageInv(call[c])
<1>1. LimitTypes /\ call[c].rates \in Pair
  BY Zenon DEF LimitsInv, LimitTypes
<1>2. ASSUME ~crossed PROVE holder = Nobody \/ (holder = c /\ call[c].at \in {"down", "up"})
  <2>1. OneCall
    BY <1>2, Zenon DEF LimitsInv
  <2>2. ASSUME NEW d \in Who, holder = d, call[d].at \in {"down", "up"}
        PROVE  holder = c /\ call[c].at \in {"down", "up"}
    <3>1. Busy(d)
      BY <2>2, Zenon DEF Busy
    <3> QED BY <2>1, <2>2, <3>1, Zenon DEF OneCall
  <2> QED BY <2>1, <2>2, Zenon DEF OneCall
<1>3. ASSUME ~crossed, ~mixed PROVE StageInv(call[c])
  BY <1>3, Zenon DEF LimitsInv, ModeInv
<1> QED BY <1>1, <1>2, <1>3, Zenon

----------------------------------------------------------------------------
\* A limit is set alone: the other one is read, from the limiters.
LEMMA ReadKeeps ==
  ASSUME LimitsInv, NEW c \in Who, ReadUp(c) \/ ReadDown(c)
  PROVE  LimitsInv'
<1> DEFINE r == IF call[c].at = "readUp" THEN [down |-> call[c].rates.down, up |-> lim.up]
                ELSE [down |-> lim.down, up |-> call[c].rates.up]
<1>1. /\ call[c].at \in {"readUp", "readDown"} /\ GoesWith(c, "normal", r)
      /\ mixed' = (mixed \/ enabled)
      /\ UNCHANGED <<session, torrent, normal, crossed>>
  BY Zenon DEF ReadUp, ReadDown
<1>2. Busy(c) /\ "normal" \in Stages
  BY <1>1, Zenon DEF Busy, Stages
<1>3. LimitTypes /\ r \in Pair
  BY <1>2, AtStage, Zenon DEF Pair, LimitTypes
<1>4. /\ call'[c].at = "normal" /\ call'[c].rates = r
      /\ \A d \in Who \ {c} : call'[d] = call[d]
      /\ call' \in [Who -> [at : Stages, want : BOOLEAN, rates : Pair]]
  BY <1>1, <1>2, <1>3, GoesOnWith
<1>5. LimitTypes'
  <2>1. mixed' \in BOOLEAN
    BY <1>1, Zenon
  <2> QED BY <1>1, <1>3, <1>4, <2>1, Zenon DEF LimitTypes, session, torrent
<1>6. ASSUME ~crossed, ~mixed', ~mixed, ModeInv PROVE StageInv(call[c])'
  <2>1. ~enabled
    BY <1>1, <1>6, Zenon
  <2>2. StageInv(call[c])
    BY <1>2, <1>6, AtStage, Zenon
  <2>3. saved = None /\ r = normal
    BY <1>1, <1>3, <2>1, <2>2, Zenon DEF StageInv, LimitTypes, Pair
  <2> QED BY <1>1, <1>4, <2>1, <2>3, Zenon DEF StageInv, session
<1>7. ~crossed => holder' = Nobody
  BY <1>1, <1>2, AtStage, Zenon DEF session
<1> QED BY <1>1, <1>2, <1>4, <1>5, <1>6, <1>7, CallStep, Zenon

\* A toggle, and a normal limit to be set, look at the mode and go on.
LEMMA LookKeeps ==
  ASSUME LimitsInv, NEW c \in Who, Toggle(c) \/ SetNormal(c) \/ InForce(c)
  PROVE  LimitsInv'
<1>1. /\ UNCHANGED <<session, torrent, normal, crossed, mixed>>
      /\ call[c].at \in {"toggle", "normal", "inForce"}
  BY Zenon DEF Toggle, SetNormal, InForce
<1>2. Busy(c)
  BY <1>1, Zenon DEF Busy
<1>3. LimitTypes /\ call[c].rates \in Pair /\ (~crossed => holder' = Nobody)
  BY <1>1, <1>2, AtStage, Zenon DEF session
<1>4. ASSUME call' \in [Who -> [at : Stages, want : BOOLEAN, rates : Pair]] PROVE LimitTypes'
  BY <1>1, <1>3, <1>4, Zenon DEF LimitTypes, session, torrent
<1>5. CASE Toggle(c)
  <2>1. [at |-> "swap", want |-> ~enabled, rates |-> call[c].rates]
          \in [at : Stages, want : BOOLEAN, rates : Pair]
    BY <1>3, Zenon DEF Stages
  <2>2. call' = [call EXCEPT ![c] = [at |-> "swap", want |-> ~enabled, rates |-> call[c].rates]]
    BY <1>5, Zenon DEF Toggle, Swaps
  <2>3. /\ call'[c] = [at |-> "swap", want |-> ~enabled, rates |-> call[c].rates]
        /\ \A d \in Who \ {c} : call'[d] = call[d]
        /\ call' \in [Who -> [at : Stages, want : BOOLEAN, rates : Pair]]
    BY <1>3, <2>1, <2>2, Changed, Zenon
  <2>4. call'[c].at = "swap"
    BY <2>3
  <2>5. ASSUME ~crossed, ~mixed, ModeInv PROVE StageInv(call[c])'
    <3>1. Settled
      BY <1>2, <1>5, <2>5, Zenon DEF ModeInv, StageInv, Toggle
    <3>2. Settled'
      BY <1>1, <3>1, Zenon DEF Settled, Aside, Applied, session
    <3> QED BY <2>4, <3>2, Zenon DEF StageInv
  <2> QED BY <1>1, <1>2, <1>3, <1>4, <2>3, <2>4, <2>5, CallStep, Zenon
<1>6. CASE SetNormal(c)
  <2> DEFINE at == IF enabled THEN "saveOnly" ELSE "down"
  <2>1. at \in Stages /\ Goes(c, at)
    BY <1>6, Zenon DEF SetNormal, Stages
  <2>2. /\ call'[c].at = at /\ call'[c].rates = call[c].rates
        /\ \A d \in Who \ {c} : call'[d] = call[d]
        /\ call' \in [Who -> [at : Stages, want : BOOLEAN, rates : Pair]]
    BY <1>3, <2>1, GoesOn, Zenon
  <2>3. ASSUME ~crossed, ~mixed, ModeInv PROVE StageInv(call[c])'
    <3>1. /\ enabled => saved # None /\ lim = alt
          /\ ~enabled => saved = None
          /\ call[c].rates = normal
      BY <1>2, <1>6, <2>3, Zenon DEF ModeInv, StageInv, SetNormal
    <3> QED BY <1>1, <2>2, <3>1, Zenon DEF StageInv, Aside, Applied, session
  <2>4. call'[c].at # "idle" /\ call'[c].at # "torrentLive"
    BY <2>2, Zenon
  <2> QED BY <1>1, <1>2, <1>3, <1>4, <2>2, <2>3, <2>4, CallStep, Zenon
<1>7. CASE InForce(c)
  <2>1. CASE enabled
    <3>1. /\ call'[c].at = "down" /\ call'[c].rates = call[c].rates
          /\ \A d \in Who \ {c} : call'[d] = call[d]
          /\ call' \in [Who -> [at : Stages, want : BOOLEAN, rates : Pair]]
      BY <1>3, <1>7, <2>1, GoesOn, Zenon DEF InForce, Stages
    <3>2. ASSUME ~crossed, ~mixed, ModeInv PROVE StageInv(call[c])'
      <4>1. Aside /\ call[c].rates = alt
        BY <1>2, <1>7, <3>2, Zenon DEF ModeInv, StageInv, InForce
      <4> QED BY <1>1, <2>1, <3>1, <4>1, Zenon DEF StageInv, Aside, Applied, session
    <3> QED BY <1>1, <1>2, <1>3, <1>4, <3>1, <3>2, CallStep, Zenon
  <2>2. CASE ~enabled
    <3>1. /\ call'[c].at = "idle"
          /\ \A d \in Who \ {c} : call'[d] = call[d]
          /\ call' \in [Who -> [at : Stages, want : BOOLEAN, rates : Pair]]
      BY <1>3, <1>7, <2>2, IsOver, Zenon DEF InForce
    <3>2. ASSUME ~crossed, ~mixed, ModeInv PROVE Settled'
      <4>1. Aside /\ lim = normal
        BY <1>2, <1>7, <2>2, <3>2, Zenon DEF ModeInv, StageInv, InForce
      <4> QED BY <1>1, <2>2, <4>1, Zenon DEF Settled, Aside, Applied, session
    <3> QED BY <1>1, <1>2, <1>3, <1>4, <3>1, <3>2, CallStep, Zenon
  <2> QED BY <2>1, <2>2, Zenon
<1> QED BY <1>5, <1>6, <1>7, Zenon

\* The flag is exchanged; if it was as wanted, nothing else happens.
LEMMA SwapKeeps ==
  ASSUME LimitsInv, NEW c \in Who, Swap(c)
  PROVE  LimitsInv'
<1>1. /\ UNCHANGED <<saved, holder, lim, alt, torrent, normal, crossed, mixed>>
      /\ call[c].at = "swap" /\ enabled' = call[c].want
  BY Zenon DEF Swap
<1>2. Busy(c)
  BY <1>1, Zenon DEF Busy
<1>3. LimitTypes /\ (~crossed => holder' = Nobody)
  BY <1>1, <1>2, AtStage, Zenon
<1>4. call[c].want \in BOOLEAN /\ enabled \in BOOLEAN
  BY <1>3, Zenon DEF LimitTypes
<1>5. ASSUME call' \in [Who -> [at : Stages, want : BOOLEAN, rates : Pair]] PROVE LimitTypes'
  BY <1>1, <1>3, <1>4, <1>5, Zenon DEF LimitTypes, torrent
<1>6. ASSUME ~crossed, ~mixed, ModeInv PROVE Settled
  BY <1>1, <1>2, <1>6, Zenon DEF ModeInv, StageInv
<1>7. CASE enabled = call[c].want
  <2>1. Ends(c)
    BY <1>7, Zenon DEF Swap
  <2>2. /\ call'[c].at = "idle"
        /\ \A d \in Who \ {c} : call'[d] = call[d]
        /\ call' \in [Who -> [at : Stages, want : BOOLEAN, rates : Pair]]
    BY <1>3, <2>1, IsOver, Zenon
  <2>3. enabled' <=> enabled
    BY <1>1, <1>7, Zenon
  <2>4. ASSUME ~crossed, ~mixed, ModeInv PROVE Settled'
    <3>1. Settled
      BY <1>6, <2>4, Zenon
    <3> QED BY <1>1, <2>3, <3>1, Zenon DEF Settled, Aside, Applied
  <2> QED BY <1>1, <1>2, <1>3, <1>5, <2>2, <2>4, CallStep, Zenon
<1>8. CASE call[c].want /\ ~enabled
  <2>1. Goes(c, "getConfig") /\ enabled'
    BY <1>1, <1>8, Zenon DEF Swap
  <2>2. /\ call'[c].at = "getConfig" /\ call'[c].rates = call[c].rates
        /\ \A d \in Who \ {c} : call'[d] = call[d]
        /\ call' \in [Who -> [at : Stages, want : BOOLEAN, rates : Pair]]
    BY <1>3, <2>1, GoesOn, Zenon DEF Stages
  <2>3. ASSUME ~crossed, ~mixed, ModeInv PROVE StageInv(call[c])'
    <3>1. saved = None /\ lim = normal
      BY <1>6, <1>8, <2>3, Zenon DEF Settled, Aside, Applied
    <3> QED BY <1>1, <2>1, <2>2, <3>1, Zenon DEF StageInv
  <2> QED BY <1>1, <1>2, <1>3, <1>5, <2>2, <2>3, CallStep, Zenon
<1>9. CASE ~call[c].want /\ enabled
  <2>1. Goes(c, "take") /\ ~enabled'
    BY <1>1, <1>9, Zenon DEF Swap
  <2>2. /\ call'[c].at = "take" /\ call'[c].rates = call[c].rates
        /\ \A d \in Who \ {c} : call'[d] = call[d]
        /\ call' \in [Who -> [at : Stages, want : BOOLEAN, rates : Pair]]
    BY <1>3, <2>1, GoesOn, Zenon DEF Stages
  <2>3. ASSUME ~crossed, ~mixed, ModeInv PROVE StageInv(call[c])'
    <3>1. saved = {normal}
      BY <1>6, <1>9, <2>3, Zenon DEF Settled, Aside
    <3> QED BY <1>1, <2>1, <2>2, <3>1, Zenon DEF StageInv
  <2> QED BY <1>1, <1>2, <1>3, <1>5, <2>2, <2>3, CallStep, Zenon
<1> QED BY <1>4, <1>7, <1>8, <1>9, Zenon

\* Switching on and off, up to the limits that are to be applied.
LEMMA SwitchKeeps ==
  ASSUME LimitsInv, NEW c \in Who, GetConfig(c) \/ Save(c) \/ Take(c)
  PROVE  LimitsInv'
<1>1. /\ UNCHANGED <<enabled, lim, alt, torrent, normal, crossed, mixed>>
      /\ call[c].at \in {"getConfig", "save", "saveOnly", "take"}
  BY Zenon DEF GetConfig, Save, Take, session
<1>2. Busy(c) /\ "save" \in Stages /\ "down" \in Stages
  BY <1>1, Zenon DEF Busy, Stages
<1>3. LimitTypes /\ call[c].rates \in Pair /\ (~crossed => holder = Nobody)
  BY <1>1, <1>2, AtStage, Zenon
<1>4. ASSUME call' \in [Who -> [at : Stages, want : BOOLEAN, rates : Pair]], saved' \in SUBSET Pair
      PROVE  LimitTypes'
  BY <1>1, <1>3, <1>4, Zenon DEF LimitTypes, torrent
<1>5. lim \in Pair /\ alt \in Pair /\ saved \in SUBSET Pair
  BY <1>3, Zenon DEF LimitTypes
<1>6. ASSUME ~crossed, ~mixed PROVE StageInv(call[c])
  BY <1>2, <1>6, AtStage, Zenon
<1>7. CASE GetConfig(c)
  <2>1. /\ call'[c].at = "save" /\ call'[c].rates = lim
        /\ \A d \in Who \ {c} : call'[d] = call[d]
        /\ call' \in [Who -> [at : Stages, want : BOOLEAN, rates : Pair]]
        /\ holder' = holder /\ saved' = saved /\ call[c].at = "getConfig"
    BY <1>2, <1>3, <1>5, <1>7, GoesOnWith, Zenon DEF GetConfig, session
  <2>2. ASSUME ~crossed, ~mixed, ModeInv PROVE StageInv(call[c])'
    BY <1>1, <1>6, <2>1, <2>2, Zenon DEF StageInv
  <2>3. LimitTypes'
    BY <1>4, <1>5, <2>1, Zenon
  <2> QED BY <1>1, <1>2, <1>3, <2>1, <2>2, <2>3, CallStep, Zenon
<1>8. CASE Save(c) /\ call[c].at = "save"
  <2>1. /\ call'[c].at = "down" /\ call'[c].rates = alt
        /\ \A d \in Who \ {c} : call'[d] = call[d]
        /\ call' \in [Who -> [at : Stages, want : BOOLEAN, rates : Pair]]
        /\ holder' = holder /\ saved' = {call[c].rates}
    BY <1>2, <1>3, <1>5, <1>8, GoesOnWith, Zenon DEF Save
  <2>2. ASSUME ~crossed, ~mixed, ModeInv PROVE StageInv(call[c])'
    BY <1>1, <1>6, <1>8, <2>1, <2>2, Zenon DEF StageInv, Aside, Applied
  <2> QED BY <1>1, <1>2, <1>3, <1>4, <2>1, <2>2, CallStep, Zenon
<1>9. CASE Save(c) /\ call[c].at = "saveOnly"
  <2>1. /\ call'[c].at = "idle"
        /\ \A d \in Who \ {c} : call'[d] = call[d]
        /\ call' \in [Who -> [at : Stages, want : BOOLEAN, rates : Pair]]
        /\ holder' = holder /\ saved' = {call[c].rates}
    BY <1>3, <1>9, IsOver, Zenon DEF Save
  <2>2. ASSUME ~crossed, ~mixed, ModeInv PROVE Settled'
    BY <1>1, <1>6, <1>9, <2>1, <2>2, Zenon DEF StageInv, Settled, Aside, Applied
  <2> QED BY <1>1, <1>2, <1>3, <1>4, <2>1, <2>2, CallStep, Zenon
<1>10. CASE Take(c) /\ saved = None
  <2>1. /\ call'[c].at = "idle"
        /\ \A d \in Who \ {c} : call'[d] = call[d]
        /\ call' \in [Who -> [at : Stages, want : BOOLEAN, rates : Pair]]
        /\ holder' = holder /\ call[c].at = "take" /\ saved' = {}
    BY <1>3, <1>10, IsOver, Zenon DEF Take, None
  <2>2. ~(~crossed /\ ~mixed)
    BY <1>6, <1>10, <2>1, Zenon DEF StageInv, None
  <2> QED BY <1>1, <1>2, <1>3, <1>4, <2>1, <2>2, CallStep, Zenon
<1>11. CASE Take(c) /\ saved # None
  <2> DEFINE r == CHOOSE r \in saved : TRUE
  <2>1. /\ GoesWith(c, "down", r) /\ call[c].at = "take" /\ saved' = None
        /\ holder' = c /\ r \in saved
    BY <1>11, Zenon DEF Take, None
  <2>2. r \in Pair
    BY <1>3, <2>1, Zenon DEF LimitTypes
  <2> HIDE DEF r
  <2>3. /\ call'[c].at = "down" /\ call'[c].rates = r
        /\ \A d \in Who \ {c} : call'[d] = call[d]
        /\ call' \in [Who -> [at : Stages, want : BOOLEAN, rates : Pair]]
    BY <1>2, <1>3, <2>1, <2>2, GoesOnWith, Zenon
  <2>4. ASSUME ~crossed, ~mixed, ModeInv PROVE StageInv(call[c])'
    <3>1. ~enabled /\ r = normal
      BY <1>6, <2>1, <2>4, Zenon DEF StageInv
    <3> QED BY <1>1, <2>1, <2>3, <3>1, Zenon DEF StageInv, Aside, Applied
  <2>5. saved' \in SUBSET Pair
    BY <2>1, Zenon DEF None
  <2> QED BY <1>1, <1>2, <1>3, <1>4, <2>1, <2>3, <2>4, <2>5, CallStep, Zenon
<1> QED BY <1>1, <1>7, <1>8, <1>9, <1>10, <1>11, Zenon DEF Save

\* The limits are applied, one after the other.
LEMMA ApplyDownKeeps ==
  ASSUME LimitsInv, NEW c \in Who, ApplyDown(c)
  PROVE  LimitsInv'
<1>1. /\ UNCHANGED <<enabled, saved, holder, alt, torrent, normal, crossed, mixed>>
      /\ call[c].at = "down" /\ Goes(c, "up") /\ lim' = [lim EXCEPT !.down = call[c].rates.down]
  BY Zenon DEF ApplyDown
<1>2. Busy(c) /\ "up" \in Stages
  BY <1>1, Zenon DEF Busy, Stages
<1>3. /\ LimitTypes /\ call[c].rates \in Pair
      /\ ~crossed => holder' = Nobody \/ holder' = c
  BY <1>1, <1>2, AtStage, Zenon
<1>4. /\ call'[c].at = "up" /\ call'[c].rates = call[c].rates
      /\ \A d \in Who \ {c} : call'[d] = call[d]
      /\ call' \in [Who -> [at : Stages, want : BOOLEAN, rates : Pair]]
  BY <1>1, <1>2, <1>3, GoesOn, Zenon
<1>5. lim' \in Pair /\ lim'.down = call[c].rates.down
  BY <1>1, <1>3, Zenon DEF LimitTypes, Pair
<1>6. LimitTypes'
  BY <1>1, <1>3, <1>4, <1>5, Zenon DEF LimitTypes, torrent
<1>7. ASSUME ~crossed, ~mixed, ModeInv PROVE StageInv(call[c])'
  <2>1. Aside /\ Applied(call[c].rates)
    BY <1>1, <1>2, <1>7, Zenon DEF ModeInv, StageInv
  <2> QED BY <1>1, <1>4, <1>5, <2>1, Zenon DEF StageInv, Aside, Applied
<1> QED BY <1>1, <1>2, <1>3, <1>4, <1>6, <1>7, CallStep, Zenon

LEMMA ApplyUpKeeps ==
  ASSUME LimitsInv, NEW c \in Who, ApplyUp(c)
  PROVE  LimitsInv'
<1>1. /\ UNCHANGED <<enabled, saved, alt, torrent, normal, crossed, mixed>>
      /\ call[c].at = "up" /\ Ends(c) /\ lim' = [lim EXCEPT !.up = call[c].rates.up]
      /\ holder' = IF holder = c THEN Nobody ELSE holder
  BY Zenon DEF ApplyUp
<1>2. Busy(c)
  BY <1>1, Zenon DEF Busy
<1>3. /\ LimitTypes /\ call[c].rates \in Pair
      /\ ~crossed => holder' = Nobody
  BY <1>1, <1>2, AtStage, Zenon
<1>4. /\ call'[c].at = "idle"
      /\ \A d \in Who \ {c} : call'[d] = call[d]
      /\ call' \in [Who -> [at : Stages, want : BOOLEAN, rates : Pair]]
  BY <1>1, <1>3, IsOver, Zenon
<1>5. lim' \in Pair /\ lim' = [down |-> lim.down, up |-> call[c].rates.up]
  BY <1>1, <1>3, Zenon DEF LimitTypes, Pair
<1>6. LimitTypes'
  BY <1>1, <1>3, <1>4, <1>5, Zenon DEF LimitTypes, torrent
<1>7. ASSUME ~crossed, ~mixed, ModeInv PROVE Settled'
  <2>1. Aside /\ Applied(call[c].rates) /\ lim.down = call[c].rates.down
    BY <1>1, <1>2, <1>7, Zenon DEF ModeInv, StageInv
  <2>2. lim' = call[c].rates
    BY <1>3, <1>5, <2>1, Zenon DEF Pair
  <2> QED BY <1>1, <2>1, <2>2, Zenon DEF Settled, Aside, Applied
<1> QED BY <1>1, <1>2, <1>3, <1>4, <1>6, <1>7, CallStep, Zenon

\* The alternative limits are stored before the mode is looked at.
LEMMA SetConfigKeeps ==
  ASSUME LimitsInv, NEW c \in Who, SetConfig(c)
  PROVE  LimitsInv'
<1>1. /\ UNCHANGED <<enabled, saved, holder, lim, torrent, normal, crossed, mixed>>
      /\ call[c].at = "config" /\ Goes(c, "inForce") /\ alt' = call[c].rates
  BY Zenon DEF SetConfig
<1>2. Busy(c) /\ "inForce" \in Stages
  BY <1>1, Zenon DEF Busy, Stages
<1>3. LimitTypes /\ call[c].rates \in Pair /\ (~crossed => holder' = Nobody)
  BY <1>1, <1>2, AtStage, Zenon
<1>4. /\ call'[c].at = "inForce" /\ call'[c].rates = call[c].rates
      /\ \A d \in Who \ {c} : call'[d] = call[d]
      /\ call' \in [Who -> [at : Stages, want : BOOLEAN, rates : Pair]]
  BY <1>1, <1>2, <1>3, GoesOn, Zenon
<1>5. LimitTypes'
  BY <1>1, <1>3, <1>4, Zenon DEF LimitTypes, torrent
<1>6. ASSUME ~crossed, ~mixed, ModeInv PROVE StageInv(call[c])'
  <2>1. Settled
    BY <1>1, <1>2, <1>6, Zenon DEF ModeInv, StageInv
  <2> QED BY <1>1, <1>4, <2>1, Zenon DEF StageInv, Settled, Aside, Applied
<1> QED BY <1>1, <1>2, <1>3, <1>4, <1>5, <1>6, CallStep, Zenon

\* A limit of the torrent: the override first, then the limiter if the torrent is live.
LEMMA TorrentKeeps ==
  ASSUME LimitsInv, NEW c \in Who, SetOverride(c) \/ SetLive(c)
  PROVE  LimitsInv'
<1>1. /\ UNCHANGED <<session, live, normal, crossed, mixed>>
      /\ call[c].at \in {"torrentDown", "torrentLive"}
  BY Zenon DEF SetOverride, SetLive
<1>2. Busy(c) /\ "torrentLive" \in Stages
  BY <1>1, Zenon DEF Busy, Stages
<1>3. LimitTypes /\ call[c].rates \in Pair /\ (~crossed => holder' = Nobody)
  BY <1>1, <1>2, AtStage, Zenon DEF session
<1>4. ASSUME call' \in [Who -> [at : Stages, want : BOOLEAN, rates : Pair]] PROVE LimitTypes'
  BY <1>1, <1>3, <1>4, Zenon DEF LimitTypes, session
<1>5. ASSUME ~crossed, ~mixed, ModeInv PROVE Settled'
  <2>1. Settled
    BY <1>1, <1>2, <1>5, Zenon DEF ModeInv, StageInv
  <2> QED BY <1>1, <2>1, Zenon DEF Settled, Aside, Applied, session
<1>6. CASE SetOverride(c)
  <2>1. /\ call'[c].at = "torrentLive" /\ call'[c].rates = call[c].rates
        /\ \A d \in Who \ {c} : call'[d] = call[d]
        /\ call' \in [Who -> [at : Stages, want : BOOLEAN, rates : Pair]]
        /\ override' = call[c].rates.down
    BY <1>2, <1>3, <1>6, GoesOn, Zenon DEF SetOverride
  <2>2. ASSUME ~crossed PROVE TorrentInv'
    <3>1. \A d \in Who : Busy(d) => d = c
      BY <1>2, <2>2, Zenon DEF LimitsInv, OneCall
    <3>2. \A d \in Who : call'[d].at = "torrentLive" => call'[d].rates.down = override'
      BY <2>1, <3>1, Zenon DEF Busy
    <3> QED BY <2>1, <3>2, Zenon DEF TorrentInv
  <2>3. ASSUME ~crossed, ~mixed, ModeInv PROVE StageInv(call[c])'
    BY <1>5, <2>1, <2>3, Zenon DEF StageInv
  <2> QED BY <1>1, <1>2, <1>3, <1>4, <2>1, <2>2, <2>3, AnyStep, Zenon
<1>7. CASE SetLive(c)
  <2>1. /\ call'[c].at = "idle" /\ call[c].at = "torrentLive"
        /\ \A d \in Who \ {c} : call'[d] = call[d]
        /\ call' \in [Who -> [at : Stages, want : BOOLEAN, rates : Pair]]
        /\ override' = override /\ limiter' = IF live THEN call[c].rates.down ELSE limiter
    BY <1>3, <1>7, IsOver, Zenon DEF SetLive
  <2>2. ASSUME ~crossed, TorrentInv PROVE TorrentInv'
    <3>1. \A d \in Who : Busy(d) => d = c
      BY <1>2, <2>2, Zenon DEF LimitsInv, OneCall
    <3>2. \A d \in Who : call'[d].at # "torrentLive"
      BY <2>1, <3>1, Zenon DEF Busy
    <3>3. call[c].rates.down = override
      BY <2>1, <2>2, Zenon DEF TorrentInv
    <3>4. live' => limiter' = override'
      BY <1>1, <2>1, <3>3, Zenon
    <3> QED BY <3>2, <3>4, Zenon DEF TorrentInv
  <2> QED BY <1>1, <1>2, <1>3, <1>4, <1>5, <2>1, <2>2, AnyStep, Zenon
<1> QED BY <1>6, <1>7, Zenon

----------------------------------------------------------------------------
\* A call begins: the mode is settled, or this call overlaps another one.
LEMMA BeginStep ==
  ASSUME LimitsInv, NEW c \in Who, ~Busy(c),
         NEW a \in [at : Stages, want : BOOLEAN, rates : Pair], a.at # "idle", a.at # "torrentLive",
         call' = [call EXCEPT ![c] = a], crossed' = Overlaps, normal' \in Pair,
         UNCHANGED <<session, torrent, mixed>>, Settled => StageInv(call[c])'
  PROVE  LimitsInv'
<1>1. LimitTypes /\ DOMAIN call = Who
  BY Zenon DEF LimitsInv, LimitTypes
<1>2. /\ call'[c] = a /\ \A d \in Who \ {c} : call'[d] = call[d]
      /\ call' \in [Who -> [at : Stages, want : BOOLEAN, rates : Pair]]
  BY <1>1, Changed, Zenon
<1>3. LimitTypes'
  <2>1. crossed' \in BOOLEAN
    BY Zenon DEF Overlaps
  <2> QED BY <1>1, <1>2, <2>1, Zenon DEF LimitTypes, session, torrent
<1> SUFFICES ASSUME ~crossed' PROVE OneCall' /\ TorrentInv' /\ (~mixed' => ModeInv')
  BY <1>3, Zenon DEF LimitsInv
<1>4. ~crossed /\ \A d \in Who : ~Busy(d)
  BY <1>1, Zenon DEF Overlaps, Busy
<1>5. OneCall /\ TorrentInv /\ (~mixed => Settled)
  BY <1>4, Zenon DEF LimitsInv, ModeInv
<1>6. \A d \in Who \ {c} : ~Busy(d)'
  BY <1>2, <1>4, Zenon DEF Busy
<1>7. holder = Nobody
  BY <1>4, <1>5, Zenon DEF OneCall, Busy
<1>8. OneCall'
  BY <1>6, <1>7, Zenon DEF OneCall, session
<1>9. TorrentInv'
  <2>1. \A d \in Who : call[d].at # "torrentLive" /\ call'[d].at # "torrentLive"
    BY <1>2, <1>4, Zenon DEF Busy
  <2> QED BY <1>5, <2>1, Zenon DEF TorrentInv, torrent
<1>10. ASSUME ~mixed' PROVE ModeInv'
  BY <1>2, <1>5, <1>6, <1>10, Zenon DEF ModeInv, Busy
<1> QED BY <1>8, <1>9, <1>10, Zenon

LEMMA BeginKeeps ==
  ASSUME LimitsInv, NEW c \in Callers, Begin(c)
  PROVE  LimitsInv'
<1>1. PICK a \in Asks :
          /\ call' = [call EXCEPT ![c] = a]
          /\ normal' = [down |-> IF a.at \in {"normal", "readUp"} THEN a.rates.down ELSE normal.down,
                        up |-> IF a.at \in {"normal", "readDown"} THEN a.rates.up ELSE normal.up]
  BY Zenon DEF Begin
<1>2. c \in Who /\ ~Busy(c) /\ crossed' = Overlaps /\ UNCHANGED <<session, torrent, mixed>>
  BY Zenon DEF Begin, Who, Busy
<1>3. /\ a \in [at : Stages, want : BOOLEAN, rates : Pair]
      /\ a.at \in {"swap", "toggle", "normal", "config", "readUp", "readDown", "torrentDown"}
  BY Zenon DEF Asks, Stages, Pair, Rate
<1>4. LimitTypes
  BY Zenon DEF LimitsInv
<1>5. normal' \in Pair /\ normal \in Pair /\ lim \in Pair /\ a.rates \in Pair
  BY <1>1, <1>3, <1>4, Zenon DEF LimitTypes, Pair
<1>6. call'[c] = a
  BY <1>1, <1>2, <1>3, <1>4, Changed, Zenon
<1>7. ASSUME Settled PROVE StageInv(call[c])'
  <2>1. UNCHANGED <<enabled, saved, lim, alt>>
    BY <1>2, Zenon DEF session
  <2>2. CASE a.at \in {"swap", "toggle", "config", "torrentDown"}
    <3>1. normal' = normal
      BY <1>1, <1>5, <2>2, Zenon DEF Pair
    <3> QED BY <1>6, <1>7, <2>1, <2>2, <3>1, Zenon DEF StageInv, Settled, Aside, Applied
  <2>3. CASE a.at = "normal"
    <3>1. normal' = a.rates
      BY <1>1, <1>5, <2>3, Zenon DEF Pair
    <3> QED BY <1>6, <1>7, <2>1, <2>3, <3>1, Zenon DEF StageInv, Settled, Aside, Applied, None
  <2>4. CASE a.at = "readUp"
    <3>1. normal'.down = a.rates.down /\ normal'.up = normal.up
      BY <1>1, <2>4, Zenon
    <3> QED BY <1>6, <1>7, <2>1, <2>4, <3>1, Zenon DEF StageInv, Settled, Aside, Applied, None
  <2>5. CASE a.at = "readDown"
    <3>1. normal'.up = a.rates.up /\ normal'.down = normal.down
      BY <1>1, <2>5, Zenon
    <3> QED BY <1>6, <1>7, <2>1, <2>5, <3>1, Zenon DEF StageInv, Settled, Aside, Applied, None
  <2> QED BY <1>3, <2>2, <2>3, <2>4, <2>5, Zenon
<1> QED BY <1>1, <1>2, <1>3, <1>5, <1>7, BeginStep, Zenon

\* A step that leaves the calls and the limits alone.
LEMMA Untouched ==
  ASSUME LimitsInv, UNCHANGED <<session, call, normal, crossed, mixed>>, live' \in BOOLEAN,
         TorrentInv => TorrentInv'
  PROVE  LimitsInv'
<1>1. LimitTypes'
  BY Zenon DEF LimitsInv, LimitTypes, session
<1>2. OneCall => OneCall'
  BY Zenon DEF OneCall, Busy, session
<1>3. (Settled <=> Settled') /\ (Aside <=> Aside') /\ \A r : Applied(r) <=> Applied(r)'
  BY Zenon DEF Settled, Aside, Applied, session
<1>4. ASSUME NEW c \in Who, StageInv(call[c]) PROVE StageInv(call[c])'
  BY <1>3, <1>4, ZenonT(30) DEF StageInv, session
<1>5. ModeInv => ModeInv'
  BY <1>3, <1>4, Zenon DEF ModeInv, Busy
<1> QED BY <1>1, <1>2, <1>5, Zenon DEF LimitsInv

LEMMA TickKeeps ==
  ASSUME LimitsInv, Tick
  PROVE  LimitsInv'
<1>1. /\ call[Scheduler].at = "idle"
      /\ UNCHANGED <<session, torrent, normal, mixed>>
  BY Zenon DEF Tick
<1>2. LimitTypes /\ normal \in Pair /\ live \in BOOLEAN
  BY Zenon DEF LimitsInv, LimitTypes
<1>3. CASE UNCHANGED <<call, crossed>>
  <2>1. TorrentInv => TorrentInv'
    BY <1>1, <1>3, Zenon DEF TorrentInv, torrent
  <2> QED BY <1>1, <1>2, <1>3, <2>1, Untouched, Zenon DEF torrent
<1>4. CASE ~UNCHANGED <<call, crossed>>
  <2> DEFINE w == WantsActive(schedule, clock.day, clock.minute)
             a == [at |-> "swap", want |-> w, rates |-> call[Scheduler].rates]
  <2>1. call' = [call EXCEPT ![Scheduler] = a] /\ crossed' = Overlaps
    BY <1>4, Zenon DEF Tick, Swaps
  <2>2. Scheduler \in Who /\ ~Busy(Scheduler)
    BY <1>1, Zenon DEF Who, Busy
  <2>3. w \in BOOLEAN
    BY Zenon DEF WantsActive
  <2>4. call[Scheduler].rates \in Pair
    BY <1>2, <2>2, Zenon DEF LimitTypes
  <2> HIDE DEF w
  <2>5. a \in [at : Stages, want : BOOLEAN, rates : Pair] /\ a.at = "swap"
    BY <2>3, <2>4, Zenon DEF Stages
  <2>6. call'[Scheduler] = a
    BY <1>2, <2>1, <2>2, <2>5, Changed, Zenon
  <2>7. ASSUME Settled PROVE StageInv(call[Scheduler])'
    <3>1. Settled'
      BY <1>1, <2>7, Zenon DEF Settled, Aside, Applied, session
    <3> QED BY <2>5, <2>6, <3>1, Zenon DEF StageInv
  <2> HIDE DEF a
  <2> QED BY <1>1, <1>2, <2>1, <2>2, <2>5, <2>7, BeginStep, Zenon
<1> QED BY <1>3, <1>4, Zenon

\* The torrent is started, with its override, or paused.
LEMMA StartKeeps ==
  ASSUME LimitsInv, Torrent
  PROVE  LimitsInv'
<1>1. /\ UNCHANGED <<session, override, call, normal, crossed, mixed>>
      /\ live' = ~live /\ limiter' = IF live THEN limiter ELSE override
  BY Zenon DEF Torrent, StartOrPause
<1>2. live' \in BOOLEAN
  BY <1>1, Zenon
<1>3. live' => limiter' = override'
  BY <1>1, Zenon
<1>4. TorrentInv => TorrentInv'
  BY <1>1, <1>3, Zenon DEF TorrentInv
<1> QED BY <1>1, <1>2, <1>4, Untouched, Zenon

\* A step that touches the schedule and the clock only.
LEMMA PlanKeeps ==
  ASSUME LimitsInv, UNCHANGED <<session, torrent, call, normal, crossed, mixed>>
  PROVE  LimitsInv'
<1>1. live' \in BOOLEAN /\ (TorrentInv => TorrentInv')
  BY Zenon DEF LimitsInv, LimitTypes, TorrentInv, torrent
<1> QED BY <1>1, Untouched, Zenon

\* The inductive invariant: what is put aside, what is in force and what the one call has read.
THEOREM LimitsInvariant == Spec => []LimitsInv
<1>1. Init => LimitsInv
  <2> SUFFICES ASSUME Init PROVE LimitsInv
    BY Zenon
  <2>1. lim \in Pair /\ normal = lim /\ alt \in Pair
    BY DEF Init, Idle, Pair, Rate
  <2>2. call \in [Who -> [at : Stages, want : BOOLEAN, rates : Pair]] /\ \A c \in Who : call[c].at = "idle"
    BY Zenon DEF Init, Idle, Stages, Pair, Rate, Who
  <2>3. LimitTypes
    BY <2>1, <2>2, Zenon DEF Init, LimitTypes, None
  <2>4. \A c \in Who : ~Busy(c) /\ call[c].at # "torrentLive"
    BY <2>2, Zenon DEF Busy
  <2>5. Settled
    BY <2>1, Zenon DEF Init, Settled, Aside, Applied
  <2>6. OneCall /\ TorrentInv /\ ModeInv
    BY <2>4, <2>5, Zenon DEF Init, OneCall, TorrentInv, ModeInv
  <2> QED BY <2>3, <2>6, Zenon DEF LimitsInv
<1>2. LimitsInv /\ [Next]_vars => LimitsInv'
  <2> SUFFICES ASSUME LimitsInv, [Next]_vars PROVE LimitsInv'
    BY Zenon
  <2>1. CASE \E c \in Callers : Begin(c)
    BY <2>1, BeginKeeps, Zenon
  <2>2. CASE \E c \in Callers \cup {Scheduler} : Step(c)
    <3>1. PICK c \in Who : Step(c)
      BY <2>2, Zenon DEF Who
    <3>2. CASE ReadUp(c) \/ ReadDown(c)
      BY <3>2, ReadKeeps, Zenon
    <3>3. CASE Toggle(c) \/ SetNormal(c) \/ InForce(c)
      BY <3>3, LookKeeps, Zenon
    <3>4. CASE Swap(c)
      BY <3>4, SwapKeeps, Zenon
    <3>5. CASE GetConfig(c) \/ Save(c) \/ Take(c)
      BY <3>5, SwitchKeeps, Zenon
    <3>6. CASE ApplyDown(c)
      BY <3>6, ApplyDownKeeps, Zenon
    <3>7. CASE ApplyUp(c)
      BY <3>7, ApplyUpKeeps, Zenon
    <3>8. CASE SetConfig(c)
      BY <3>8, SetConfigKeeps, Zenon
    <3>9. CASE SetOverride(c) \/ SetLive(c)
      BY <3>9, TorrentKeeps, Zenon
    <3> QED BY <3>1, <3>2, <3>3, <3>4, <3>5, <3>6, <3>7, <3>8, <3>9, Zenon DEF Step
  <2>3. CASE SetSchedule \/ TimePasses
    BY <2>3, PlanKeeps, Zenon DEF SetSchedule, TimePasses
  <2>4. CASE Tick
    BY <2>4, TickKeeps, Zenon
  <2>5. CASE Torrent
    BY <2>5, StartKeeps, Zenon
  <2>6. CASE UNCHANGED vars
    BY <2>6, PlanKeeps, Zenon DEF vars
  <2> QED BY <2>1, <2>2, <2>3, <2>4, <2>5, <2>6, Zenon DEF Next
<1> QED BY <1>1, <1>2, PTL DEF Spec

----------------------------------------------------------------------------
\* Within two turns of the clock, the remainder is the time of the day.
LEMMA TimeOfDay ==
  ASSUME NEW M \in Nat, M > 0, NEW x \in Nat, x < 2 * M
  PROVE  x % M = IF x < M THEN x ELSE x - M
<1> DEFINE q == x \div M
<1>1. q \in Int /\ x = M * q + (x % M) /\ x % M \in 0..(M - 1)
  BY SMTT(30)
<1> HIDE DEF q
<1>2. \A d \in Int : d >= 2 => M * d >= 2 * M
  BY SMTT(30)
<1>3. \A d \in Int : d <= -1 => M * d <= -M
  BY SMTT(30)
<1>4. q = 0 \/ q = 1
  BY <1>1, <1>2, <1>3, SMTT(30)
<1> QED BY <1>1, <1>4, SMTT(30)

\* The schedule is on for as many minutes after its start as its window is long.
LEMMA WindowLength ==
  ASSUME NEW m \in 0..(Minutes - 1), NEW s \in 0..(Minutes - 1), NEW e \in 0..(Minutes - 1)
  PROVE  WantsActive([start |-> s, end |-> e, days |-> {1}], 1, m)
            <=> (m + Minutes - s) % Minutes < (e + Minutes - s) % Minutes
<1>1. /\ Minutes > 0
      /\ m + Minutes - s \in Nat /\ m + Minutes - s < 2 * Minutes
      /\ e + Minutes - s \in Nat /\ e + Minutes - s < 2 * Minutes
  BY MinutesAssumption
<1>2. /\ (m + Minutes - s) % Minutes = IF m < s THEN m + Minutes - s ELSE m - s
      /\ (e + Minutes - s) % Minutes = IF e < s THEN e + Minutes - s ELSE e - s
  BY <1>1, TimeOfDay, MinutesAssumption
<1> QED BY <1>1, <1>2, MinutesAssumption DEF WantsActive

\* As long as no two calls overlap, and no limit is set alone while the alternative ones are on,
\* the limits in force are those of the mode (set_alt_speed_enabled and the limit handlers), and
\* the normal ones last asked for are kept aside meanwhile; a torrent applies the limit it was
\* given; and the schedule is on for the length of its window.
THEOREM LimitsAlwaysFollowMode == Spec => []LimitsFollowMode
<1>1. LimitsInv => LimitsFollowMode
  <2> SUFFICES ASSUME LimitsInv PROVE LimitsFollowMode
    BY Zenon
  <2>1. LimitTypes /\ DOMAIN call = Who
    BY Zenon DEF LimitsInv, LimitTypes
  <2>2. ASSUME Quiet PROVE ~crossed /\ (\A c \in Who : ~Busy(c)) /\ TorrentInv /\ (~mixed => Settled)
    BY <2>1, <2>2, Zenon DEF Quiet, LimitsInv, ModeInv, Busy
  <2>3. ASSUME Quiet, ~mixed
        PROVE  /\ (enabled <=> saved # None)
               /\ lim = IF enabled THEN alt ELSE normal
               /\ enabled => saved = {normal}
    <3>1. Aside /\ Applied(lim) /\ {normal} # None
      BY <2>2, <2>3, Zenon DEF None, Settled
    <3>2. (enabled => saved # None) /\ (~enabled => saved = None)
      BY <3>1, Zenon DEF Aside
    <3>3. lim = IF enabled THEN alt ELSE normal
      BY <3>1, Zenon DEF Applied
    <3> QED BY <3>1, <3>2, <3>3, Zenon DEF Aside
  <2>4. ASSUME Quiet, live PROVE limiter = override
    <3>1. \A c \in Who : call[c].at # "torrentLive"
      BY <2>2, <2>4, Zenon DEF Busy
    <3> QED BY <2>2, <2>4, <3>1, Zenon DEF TorrentInv
  <2>5. \A m, s, e \in 0..(Minutes - 1) :
           WantsActive([start |-> s, end |-> e, days |-> {1}], 1, m)
              <=> (m + Minutes - s) % Minutes < (e + Minutes - s) % Minutes
    BY WindowLength, Zenon
  <2> QED BY <2>3, <2>4, <2>5, Zenon DEF LimitsFollowMode
<1> QED BY <1>1, LimitsInvariant, PTL

============================================================================
