------------------------ MODULE ManagedTorrentProofs ------------------------
(***************************************************************************)
(* The state of a torrent agrees with its tasks, its files and its flag,   *)
(* for any clients, permits and number of calls and failures.              *)
(*                                                                         *)
(* The argument is about freshness.  A start is named by a number that     *)
(* nothing carries yet, since each call starts the torrent at most once    *)
(* (NumbersFresh); an initializer that is replaced never comes back, so a  *)
(* check that was cancelled, or whose files were taken, is not one of the  *)
(* initializer at hand (ChecksInv), unless two calls have crossed.         *)
(***************************************************************************)
EXTENDS ManagedTorrent, FiniteSetTheorems, TLAPS

CheckRec ==
  [at : {"none", "queued", "checking", "ready", "failed"}, init : Nat,
   start_paused : BOOLEAN, open : BOOLEAN]

TypeOK ==
  /\ state \in {"initializing", "paused", "live", "error", "none"}
  /\ paused \in BOOLEAN /\ open \in BOOLEAN /\ token \in BOOLEAN /\ crossed \in BOOLEAN
  /\ current \in Nat /\ inits \in Nat /\ starts \in Nat /\ calls \in Nat /\ failures \in Nat
  /\ taken \in SUBSET Nat
  /\ check \in [Start -> CheckRec]
  /\ running \in SUBSET Start
  /\ fatal \in [Start -> {"none", "armed", "sent"}]
  /\ cancelled \in SUBSET Start /\ children \in SUBSET Start
  /\ call \in [Client -> {"idle", "pause", "unpause", "recheck", "delete", "start",
                          "start_paused", "add", "add_paused", "delete_pause", "delete_take"}]
  /\ removed \in {"no", "unstored", "deleted"}

\* The calls that may still start the torrent.
Pending ==
  {c \in Client : call[c] \in {"unpause", "recheck", "start", "start_paused", "add", "add_paused"}}

\* There is a number for the next start.
CallsCounted == calls <= MaxCalls /\ starts + Cardinality(Pending) <= calls + 1

\* Nothing carries the number of the next start, or of the next initializer.
NumbersFresh ==
  /\ \A n \in Start : n > starts =>
       check[n].at = "none" /\ n \notin running /\ n \notin cancelled /\ n \notin children
  /\ \A n \in Start : check[n].init <= inits
  /\ state = "initializing" => current <= inits
  /\ state = "live" => current \in Start /\ current <= starts
  /\ \A i \in taken : i <= inits

\* A token is lost to a deletion only, which its caller completes.
DeletionInv ==
  /\ token \/ removed = "deleted"
  /\ Deleting => removed = "deleted"
  /\ state = "none" => removed = "deleted"
  /\ ~ crossed /\ removed = "deleted" /\ ~ Deleting => state = "none"

\* The checks of the initializer at hand: none is cancelled, there is one,
\* it has the files, and its flag is the torrent's.
Mine(n) == check[n].at # "none" /\ check[n].init = current
ChecksInv ==
  state = "initializing" =>
    /\ removed = "no" => Starting \/ \E n \in Start \ cancelled : check[n].at # "none"
    /\ \A n \in Start : Mine(n) => n \notin cancelled \/ removed = "deleted"
    /\ ~ crossed =>
         /\ \A m, n \in Start : Mine(m) /\ Mine(n) => m = n
         /\ \A n \in Start : Mine(n) => check[n].start_paused = paused
         /\ \A n \in Start : Mine(n) /\ check[n].at = "ready" => check[n].open
         /\ current \in taken => \E n \in Start : Mine(n) /\ check[n].at = "ready"

\* What is shown of the torrent agrees with its live torrents, files and flag.
ShownInv == OneRuns /\ LiveRuns /\ FilesAreOpen /\ FlagIsHonoured

TorrentInv == TypeOK /\ CallsCounted /\ NumbersFresh /\ DeletionInv /\ ChecksInv /\ ShownInv

-----------------------------------------------------------------------------
(* A call that starts the torrent finds a number for the start.            *)
LEMMA PendingFinite ==
  IsFiniteSet(Pending) /\ Cardinality(Pending) \in Nat
<1>1. Pending \subseteq Client
  BY Zenon DEF Pending
<1>. QED
  BY <1>1, ClientAssumption, FS_Subset, FS_CardinalityType, Zenon

LEMMA NextStart ==
  ASSUME TypeOK, CallsCounted, NEW c \in Pending
  PROVE  starts + 1 \in Start /\ starts + Cardinality(Pending) <= calls + 1 /\ Cardinality(Pending) >= 1
<1>1. Cardinality(Pending) \in Nat /\ Cardinality(Pending) # 0
  BY PendingFinite, FS_EmptySet, Zenon
<1>. QED
  BY <1>1, BoundsAssumption DEF TypeOK, CallsCounted, Start

(* Each step keeps the types.                                              *)
LEMMA TypeKept ==
  ASSUME TypeOK, CallsCounted, NumbersFresh, [Next]_vars
  PROVE  TypeOK'
<1>0. Start \subseteq Nat /\ MaxCalls \in Nat /\ NoCheck \in CheckRec
  BY BoundsAssumption DEF Start, NoCheck, CheckRec
<1>1. ASSUME NEW c \in Client, Call(c) PROVE TypeOK'
  BY <1>1 DEF TypeOK, Call, Becomes, taskVars, liveVars, tokenVars
<1>2. ASSUME NEW c \in Client, Unpause(c) PROVE TypeOK'
  <2>. DEFINE sp == call[c] \in {"start_paused", "add_paused"}
  <2>1. starts + 1 \in Start /\ sp \in BOOLEAN
    <3>1. c \in Pending
      BY <1>2, Zenon DEF Unpause, Pending
    <3>2. sp \in BOOLEAN
      OBVIOUS
    <3>. QED
      BY <3>1, <3>2, NextStart, Zenon
  <2>2. DoStart(sp) /\ Becomes(c, "idle") /\ UNCHANGED calls
    BY <1>2, Zenon DEF Unpause
  <2>. HIDE DEF sp
  <2>3. /\ starts' \in Nat /\ paused' \in BOOLEAN /\ children' \in SUBSET Start
        /\ cancelled' \in SUBSET Start
        /\ UNCHANGED <<token, taken, removed>>
        /\ calls' \in Nat
        /\ call' \in [Client -> {"idle", "pause", "unpause", "recheck", "delete", "start",
                          "start_paused", "add", "add_paused", "delete_pause", "delete_take"}]
    BY <2>1, <2>2 DEF DoStart, Started, Becomes, TypeOK
  <2>4. ASSUME NEW i \in Nat, SpawnCheck(starts + 1, i, sp) PROVE check' \in [Start -> CheckRec]
    BY <2>1, <2>4, Zenon DEF TypeOK, SpawnCheck, CheckRec
  <2>5. CASE StartInitializing(sp)
    <3>1. crossed' \in BOOLEAN
      BY <2>5, Zenon DEF StartInitializing
    <3>. QED
      BY <2>3, <2>4, <2>5, <3>1, Zenon DEF TypeOK, StartInitializing, liveVars
  <2>6. CASE StartPaused(sp)
    BY <2>1, <2>3, <2>6 DEF TypeOK, StartPaused, GoLive, liveVars
  <2>7. CASE StartError(sp)
    BY <2>3, <2>4, <2>7 DEF TypeOK, StartError, Fail, liveVars
  <2>8. CASE StartBails(sp)
    <3>1. crossed' \in BOOLEAN
      BY <2>8, Zenon DEF StartBails
    <3>. QED
      BY <2>3, <2>8, <3>1, Zenon DEF TypeOK, StartBails, liveVars
  <2>. QED
    BY <2>2, <2>5, <2>6, <2>7, <2>8, Zenon DEF DoStart
<1>3. ASSUME NEW c \in Client, StoreFails(c) PROVE TypeOK'
  BY <1>3 DEF TypeOK, StoreFails, Fail, Becomes, taskVars, liveVars, tokenVars
<1>a. state = "live" => current \in Start
  BY Zenon DEF NumbersFresh
<1>b. ASSUME state = "live", StopLive(current)
      PROVE  /\ cancelled' \in SUBSET Start /\ running' \in SUBSET Start
             /\ fatal' \in [Start -> {"none", "armed", "sent"}]
  BY <1>a, <1>b, Zenon DEF TypeOK, StopLive
<1>4. ASSUME NEW c \in Client, Pause(c) \/ DeletePause(c) PROVE TypeOK'
  <2>1. call' \in [Client -> {"idle", "pause", "unpause", "recheck", "delete", "start",
                          "start_paused", "add", "add_paused", "delete_pause", "delete_take"}]
        /\ UNCHANGED <<current, inits, starts, check, taken, failures, crossed, calls, removed>>
    BY <1>4, Zenon DEF TypeOK, Pause, DeletePause, DoPause, Becomes, taskVars
  <2>2. CASE PauseLive
    BY <1>b, <2>1, <2>2, Zenon DEF TypeOK, PauseLive
  <2>3. CASE PauseInitializing
    BY <2>1, <2>3, Zenon DEF TypeOK, PauseInitializing, CancelToken, liveVars
  <2>4. CASE PauseBails
    BY <2>1, <2>4, Zenon DEF TypeOK, PauseBails, liveVars, tokenVars
  <2>. QED
    BY <1>4, <2>2, <2>3, <2>4, Zenon DEF Pause, DeletePause, DoPause
<1>5. ASSUME NEW c \in Client, PrepareForceRecheck(c) PROVE TypeOK'
  <2>1. /\ cancelled' \in SUBSET Start /\ running' \in SUBSET Start
        /\ fatal' \in [Start -> {"none", "armed", "sent"}]
    BY <1>5, <1>b, Zenon DEF TypeOK, PrepareForceRecheck, liveVars
  <2>. QED
    BY <1>5, <2>1 DEF TypeOK, PrepareForceRecheck, Becomes
<1>6. ASSUME NEW c \in Client, RecheckBails(c) PROVE TypeOK'
  BY <1>6 DEF TypeOK, RecheckBails, Fail, Becomes, taskVars, liveVars, tokenVars
<1>7. ASSUME NEW c \in Client, Delete(c) PROVE TypeOK'
  BY <1>7, ZenonT(30) DEF TypeOK, Delete, CancelToken, Becomes, taskVars, liveVars, tokenVars
<1>8. ASSUME NEW c \in Client, DeleteTake(c) PROVE TypeOK'
  <2>1. /\ cancelled' \in SUBSET Start /\ running' \in SUBSET Start
        /\ fatal' \in [Start -> {"none", "armed", "sent"}]
    BY <1>8, <1>b, Zenon DEF TypeOK, DeleteTake, liveVars
  <2>. QED
    BY <1>8, <2>1, ZenonT(30) DEF TypeOK, DeleteTake, Becomes
<1>9. ASSUME NEW n \in Start, BeginCheck(n) \/ DropCheck(n) \/ NoNeedToStart(n) PROVE TypeOK'
  BY <1>0, <1>9 DEF TypeOK, BeginCheck, DropCheck, NoNeedToStart, CheckRec, liveVars, tokenVars
<1>10. ASSUME NEW n \in Start, CheckOk(n) PROVE TypeOK'
  BY <1>0, <1>10, ZenonT(30) DEF TypeOK, CheckOk, CheckRec, liveVars, tokenVars
<1>11. ASSUME NEW n \in Start, CheckErr(n) PROVE TypeOK'
  BY <1>0, <1>11 DEF TypeOK, CheckErr, CheckRec, Fail, liveVars, tokenVars
<1>12. ASSUME NEW n \in Start, Initialized(n) PROVE TypeOK'
  <2>1. check' \in [Start -> CheckRec] /\ check[n].open \in BOOLEAN
    BY <1>0, <1>12, Zenon DEF TypeOK, Initialized, CheckRec
  <2>2. crossed' \in BOOLEAN /\ n \in Nat
    BY <1>0, <1>12, Zenon DEF Initialized
  <2>3. CASE check[n].start_paused
    BY <1>12, <2>1, <2>2, <2>3, Zenon DEF TypeOK, Initialized, liveVars, tokenVars
  <2>4. CASE ~check[n].start_paused
    BY <1>12, <2>1, <2>2, <2>4, ZenonT(30) DEF TypeOK, Initialized, GoLive, liveVars, tokenVars
  <2>. QED
    BY <2>3, <2>4, Zenon
<1>13. ASSUME NEW n \in Start, InitializingFailed(n) PROVE TypeOK'
  BY <1>0, <1>13, Zenon DEF TypeOK, InitializingFailed, CheckRec, liveVars, tokenVars
<1>14. ASSUME NEW n \in Start, StopWithError(n) PROVE TypeOK'
  <2>1. crossed' \in BOOLEAN
    BY <1>14, Zenon DEF StopWithError
  <2>2. CASE state = "live"
    BY <1>a, <1>14, <2>1, <2>2 DEF TypeOK, StopWithError, taskVars
  <2>3. CASE state # "live"
    BY <1>14, <2>1, <2>3, Zenon DEF TypeOK, StopWithError, taskVars
  <2>. QED
    BY <2>2, <2>3, Zenon
<1>16. ASSUME NEW n \in Start, DropReceiver(n) PROVE TypeOK'
  BY <1>16, ZenonT(30) DEF TypeOK, DropReceiver, taskVars, tokenVars
<1>17. ASSUME NEW n \in Start, OnFatalError(n) PROVE TypeOK'
  BY <1>17 DEF TypeOK, OnFatalError, Fail, taskVars, tokenVars
<1>15. CASE UNCHANGED vars
  BY <1>15, ZenonT(30) DEF TypeOK, vars, taskVars, liveVars, tokenVars
<1>. QED
  BY <1>1, <1>2, <1>3, <1>4, <1>5, <1>6, <1>7, <1>8, <1>9, <1>10, <1>11, <1>12, <1>13, <1>14,
     <1>15, <1>16, <1>17, Zenon DEF Next, ClientStep, TaskStep

(* Each call starts the torrent at most once.                              *)
LEMMA CountKept ==
  ASSUME TypeOK, CallsCounted, [Next]_vars
  PROVE  CallsCounted'
<1>0. /\ MaxCalls \in Nat /\ starts \in Nat /\ calls \in Nat
      /\ IsFiniteSet(Pending) /\ Cardinality(Pending) \in Nat
      /\ IsFiniteSet(Pending') /\ Cardinality(Pending') \in Nat
  <2>1. Pending' \subseteq Client
    BY Zenon DEF Pending
  <2>. QED
    BY <2>1, BoundsAssumption, PendingFinite, ClientAssumption, FS_Subset, FS_CardinalityType, Zenon
       DEF TypeOK
<1>1. ASSUME NEW c \in Client, Call(c) PROVE CallsCounted'
  <2>1. Pending' \subseteq Pending \cup {c}
    <3>1. PICK op : call' = [call EXCEPT ![c] = op]
      BY <1>1, Zenon DEF Call, Becomes
    <3>. QED
      BY <3>1, Zenon DEF Pending, TypeOK
  <2>2. Cardinality(Pending') <= Cardinality(Pending \cup {c}) /\ Cardinality(Pending \cup {c}) \in Nat
    BY <1>0, <2>1, FS_AddElement, FS_Subset, FS_CardinalityType, Zenon
  <2>3. Cardinality(Pending \cup {c}) <= Cardinality(Pending) + 1
    <3>1. Cardinality(Pending \cup {c})
            = IF c \in Pending THEN Cardinality(Pending) ELSE Cardinality(Pending) + 1
      BY <1>0, FS_AddElement, Zenon
    <3>. QED
      BY <1>0, <3>1
  <2>4. calls < MaxCalls /\ calls' = calls + 1 /\ starts' = starts
    BY <1>1, Zenon DEF Call
  <2>. QED
    BY <1>0, <2>2, <2>3, <2>4 DEF CallsCounted
<1>2. ASSUME NEW c \in Client, Unpause(c) PROVE CallsCounted'
  <2>1. Pending' \subseteq Pending \ {c} /\ c \in Pending
    BY <1>2, Zenon DEF Unpause, Becomes, Pending, TypeOK
  <2>2. Cardinality(Pending') <= Cardinality(Pending \ {c}) /\ Cardinality(Pending \ {c}) \in Nat
    BY <1>0, <2>1, FS_RemoveElement, FS_Subset, FS_CardinalityType, Zenon
  <2>3. Cardinality(Pending \ {c}) = Cardinality(Pending) - 1
    BY <1>0, <2>1, FS_RemoveElement, Zenon
  <2>4. calls' = calls /\ starts' = starts + 1
    BY <1>2, Zenon DEF Unpause, DoStart, Started
  <2>. QED
    BY <1>0, <2>2, <2>3, <2>4 DEF CallsCounted
<1>3. ASSUME Pending' \subseteq Pending, starts' = starts, calls' = calls PROVE CallsCounted'
  <2>1. Cardinality(Pending') <= Cardinality(Pending)
    BY <1>0, <1>3, FS_Subset, Zenon
  <2>. QED
    BY <1>0, <1>3, <2>1 DEF CallsCounted
<1>4. ASSUME NEW c \in Client, StoreFails(c) \/ Pause(c) \/ RecheckBails(c) \/ DeleteTake(c)
      PROVE  CallsCounted'
  <2>1. starts' = starts /\ calls' = calls /\ Becomes(c, "idle")
    BY <1>4, Zenon DEF StoreFails, Pause, DoPause, RecheckBails, DeleteTake
  <2>2. Pending' \subseteq Pending
    BY <2>1, Zenon DEF Becomes, Pending, TypeOK
  <2>. QED
    BY <1>3, <2>1, <2>2, Zenon
<1>5. ASSUME NEW c \in Client, PrepareForceRecheck(c) PROVE CallsCounted'
  BY <1>3, <1>5, Zenon DEF PrepareForceRecheck, Becomes, Pending, TypeOK
<1>6. ASSUME NEW c \in Client, Delete(c) \/ DeletePause(c) PROVE CallsCounted'
  BY <1>3, <1>6, ZenonT(30) DEF Delete, DeletePause, DoPause, Becomes, Pending, TypeOK
<1>7. ASSUME NEW n \in Start, TaskStep(n) \/ OnFatalError(n) PROVE CallsCounted'
  <2>1. starts' = starts /\ calls' = calls /\ call' = call
    BY <1>7, Zenon DEF TaskStep, BeginCheck, DropCheck, CheckOk, CheckErr, Initialized, NoNeedToStart,
                InitializingFailed, StopWithError, DropReceiver, OnFatalError
  <2>. QED
    BY <1>3, <2>1, Zenon DEF Pending
<1>8. CASE UNCHANGED vars
  BY <1>3, <1>8, Zenon DEF vars, Pending
<1>. QED
  BY <1>1, <1>2, <1>4, <1>5, <1>6, <1>7, <1>8, Zenon DEF Next, ClientStep

(* Starts and initializers get the next number.                            *)
LEMMA FreshKept ==
  ASSUME TypeOK, CallsCounted, NumbersFresh, [Next]_vars
  PROVE  NumbersFresh'
<1>0. Start \subseteq Nat /\ starts \in Nat /\ inits \in Nat
  BY DEF Start, TypeOK
<1>1. ASSUME UNCHANGED <<state, current, inits, starts, taken, check, running, cancelled, children>>
      PROVE  NumbersFresh'
  BY <1>1, Zenon DEF NumbersFresh
<1>2. ASSUME NEW c \in Client, Call(c) \/ StoreFails(c) \/ RecheckBails(c) PROVE NumbersFresh'
  BY <1>1, <1>2, Zenon DEF Call, StoreFails, RecheckBails, taskVars, liveVars, tokenVars
<1>3. ASSUME NEW c \in Client, Unpause(c) PROVE NumbersFresh'
  <2>. DEFINE sp == call[c] \in {"start_paused", "add_paused"}
              m == starts + 1
  <2>1. DoStart(sp)
    BY <1>3, Zenon DEF Unpause
  <2>2. m \in Start
    BY <1>3, NextStart, Zenon DEF Unpause, Pending
  <2>. HIDE DEF sp
  <2>3. starts' = m /\ taken' = taken /\ \A n \in Start : n > m =>
          (n \in cancelled' => n \in cancelled) /\ (n \in children' => n \in children)
    BY <1>0, <2>1 DEF DoStart, Started
  <2>4. ASSUME NEW i \in Nat, SpawnCheck(m, i, sp)
        PROVE  /\ \A n \in Start : n > m => check'[n] = check[n]
               /\ \A n \in Start : check'[n].init \in {check[n].init, i}
    BY <1>0, <2>2, <2>4 DEF SpawnCheck, TypeOK, CheckRec
  <2>5. CASE StartInitializing(sp)
    BY <1>0, <2>2, <2>3, <2>4, <2>5 DEF StartInitializing, NumbersFresh, TypeOK, liveVars
  <2>6. CASE StartPaused(sp)
    BY <1>0, <2>2, <2>3, <2>6 DEF StartPaused, GoLive, NumbersFresh, TypeOK, liveVars
  <2>7. CASE StartError(sp)
    <3>1. inits' \in {inits, inits + 1} /\ running' = running
      BY <2>7, Zenon DEF StartError, Fail, liveVars
    <3>2. state' = "initializing" => current' <= inits'
      BY <1>0, <2>7 DEF StartError, TypeOK
    <3>3. \A n \in Start : (n > m => check'[n] = check[n]) /\ check'[n].init \in {check[n].init, inits'}
      <4>1. CASE check' = check
        BY <4>1, Zenon
      <4>2. CASE inits' = inits + 1 /\ SpawnCheck(m, inits + 1, sp)
        <5>1. inits + 1 \in Nat
          BY <1>0
        <5>2. /\ \A n \in Start : n > m => check'[n] = check[n]
              /\ \A n \in Start : check'[n].init \in {check[n].init, inits + 1}
          BY <2>4, <4>2, <5>1, Zenon
        <5>. QED
          BY <4>2, <5>2, Zenon
      <4>. QED
        BY <2>7, <4>1, <4>2, Zenon DEF StartError
    <3>4. state' # "live"
      BY <2>7, Zenon DEF StartError
    <3>5. \A n \in Start : check[n].init \in Nat
      BY Zenon DEF TypeOK, CheckRec
    <3>. QED
      BY <1>0, <2>2, <2>3, <3>1, <3>2, <3>3, <3>4, <3>5 DEF NumbersFresh, TypeOK
  <2>8. CASE StartBails(sp)
    BY <1>0, <2>2, <2>3, <2>8 DEF StartBails, NumbersFresh, TypeOK, liveVars
  <2>. QED
    BY <2>1, <2>5, <2>6, <2>7, <2>8, Zenon DEF DoStart
<1>4. ASSUME NEW c \in Client, Pause(c) \/ DeletePause(c) PROVE NumbersFresh'
  <2>1. DoPause
    BY <1>4, Zenon DEF Pause, DeletePause
  <2>2. CASE PauseLive
    BY <1>0, <2>1, <2>2 DEF DoPause, PauseLive, StopLive, NumbersFresh, TypeOK, taskVars
  <2>3. CASE PauseInitializing
    BY <1>0, <2>1, <2>3, Zenon
       DEF DoPause, PauseInitializing, CancelToken, NumbersFresh, TypeOK, taskVars,
       liveVars
  <2>4. CASE PauseBails
    BY <1>1, <2>1, <2>4, Zenon DEF DoPause, PauseBails, taskVars, liveVars, tokenVars
  <2>. QED
    BY <2>1, <2>2, <2>3, <2>4, Zenon DEF DoPause
<1>5. ASSUME NEW c \in Client, PrepareForceRecheck(c) PROVE NumbersFresh'
  <2>1. /\ starts' = starts /\ inits' = inits + 1 /\ current' = inits + 1 /\ check' = check
        /\ children' = children /\ state' = "initializing" /\ taken' \subseteq taken \cup {inits + 1}
    BY <1>5, Zenon DEF PrepareForceRecheck
  <2>2. running' \subseteq running /\ \A n \in cancelled' : n \in cancelled \/ n <= starts
    BY <1>5, Zenon DEF PrepareForceRecheck, StopLive, NumbersFresh, liveVars
  <2>3. (\A n \in Start : check[n].init \in Nat) /\ taken \subseteq Nat
    BY Zenon DEF TypeOK, CheckRec
  <2>4. (\A n \in Start : check[n].init <= inits + 1) /\ inits + 1 <= inits + 1
    BY <1>0, <2>3 DEF NumbersFresh
  <2>5. \A i \in taken' : i <= inits + 1
    BY <1>0, <2>1, <2>3 DEF NumbersFresh
  <2>6. \A n \in Start : n > starts => n \notin cancelled'
    <3>1. \A n \in Start : n > starts => ~ (n <= starts)
      BY <1>0
    <3>. QED
      BY <2>2, <3>1, Zenon DEF NumbersFresh
  <2>. QED
    BY <2>1, <2>2, <2>4, <2>5, <2>6, Zenon DEF NumbersFresh
<1>6. ASSUME NEW c \in Client, Delete(c) PROVE NumbersFresh'
  BY <1>0, <1>6, Zenon DEF Delete, CancelToken, NumbersFresh, taskVars, liveVars, tokenVars
<1>7. ASSUME NEW c \in Client, DeleteTake(c) PROVE NumbersFresh'
  <2>1. /\ UNCHANGED <<starts, inits, current, check, children>> /\ state' = "none"
        /\ \A i \in taken' : i \in taken \/ i <= inits
    BY <1>7, Zenon DEF DeleteTake, NumbersFresh
  <2>2. running' \subseteq running /\ \A n \in cancelled' : n \in cancelled \/ n <= starts
    BY <1>7, Zenon DEF DeleteTake, StopLive, NumbersFresh, liveVars
  <2>. QED
    BY <1>0, <2>1, <2>2 DEF NumbersFresh
<1>8. ASSUME NEW n \in Start, check[n].at # "none", NEW r \in CheckRec, r.init <= inits,
             check' = [check EXCEPT ![n] = r],
             UNCHANGED <<inits, starts, cancelled, children>>,
             \A i \in taken' : i \in taken \/ i <= inits,
             \A m \in running' : m \in running \/ m = n,
             state' = "initializing" => state = "initializing" /\ current' = current,
             state' = "live" => current' = n \/ (state = "live" /\ current' = current)
      PROVE  NumbersFresh'
  <2>1. n <= starts
    BY <1>0, <1>8 DEF NumbersFresh
  <2>2. \A m \in Start : check'[m] = IF m = n THEN r ELSE check[m]
    BY <1>8, Zenon DEF TypeOK
  <2>. QED
    BY <1>0, <1>8, <2>1, <2>2, ZenonT(30) DEF NumbersFresh
<1>9. NoCheck \in CheckRec /\ NoCheck.init <= inits
  BY <1>0 DEF NoCheck, CheckRec
<1>10. ASSUME NEW n \in Start
       PROVE  check[n] \in CheckRec /\ check[n].init <= inits
  BY Zenon DEF TypeOK, NumbersFresh
<1>11. ASSUME NEW n \in Start, BeginCheck(n) \/ CheckErr(n) PROVE NumbersFresh'
  <2>. DEFINE r == [check[n] EXCEPT !.at = IF BeginCheck(n) THEN "checking" ELSE "failed"]
  <2>1. r \in CheckRec /\ r.init <= inits
    BY <1>10, Zenon DEF CheckRec
  <2>2. /\ check' = [check EXCEPT ![n] = r] /\ check[n].at # "none"
        /\ UNCHANGED <<state, current, inits, starts, taken, running, cancelled, children>>
    BY <1>11, Zenon DEF BeginCheck, CheckErr, liveVars, tokenVars
  <2>. HIDE DEF r
  <2>. QED
    BY <1>8, <2>1, <2>2, Zenon
<1>12. ASSUME NEW n \in Start, DropCheck(n) \/ NoNeedToStart(n) PROVE NumbersFresh'
  <2>1. /\ check' = [check EXCEPT ![n] = NoCheck] /\ check[n].at # "none"
        /\ UNCHANGED <<state, current, inits, starts, taken, running, cancelled, children>>
    BY <1>12, Zenon DEF DropCheck, NoNeedToStart, liveVars, tokenVars
  <2>. QED
    BY <1>8, <1>9, <2>1, Zenon
<1>13. ASSUME NEW n \in Start, CheckOk(n) PROVE NumbersFresh'
  <2>. DEFINE r == [at |-> "ready", init |-> check[n].init,
                 start_paused |-> check[n].start_paused, open |-> check[n].init \notin taken]
  <2>1. r \in CheckRec /\ r.init <= inits
    BY <1>10, Zenon DEF CheckRec
  <2>2. /\ check' = [check EXCEPT ![n] = r] /\ check[n].at # "none"
        /\ taken' = taken \cup {check[n].init}
        /\ UNCHANGED <<state, current, inits, starts, running, cancelled, children>>
    BY <1>13, Zenon DEF CheckOk, liveVars, tokenVars
  <2>. HIDE DEF r
  <2>. QED
    BY <1>8, <1>10, <2>1, <2>2, Zenon
<1>14. ASSUME NEW n \in Start, Initialized(n) PROVE NumbersFresh'
  <2>1. /\ check' = [check EXCEPT ![n] = NoCheck] /\ check[n].at # "none"
        /\ UNCHANGED <<inits, starts, taken, cancelled, children>>
    BY <1>14, Zenon DEF Initialized, tokenVars
  <2>2. /\ \A m \in running' : m \in running \/ m = n
        /\ state' # "initializing"
        /\ state' = "live" => current' = n
    BY <1>14, Zenon DEF Initialized, GoLive, liveVars
  <2>. QED
    BY <1>8, <1>9, <2>1, <2>2, Zenon
<1>15. ASSUME NEW n \in Start, InitializingFailed(n) PROVE NumbersFresh'
  <2>1. /\ check' = [check EXCEPT ![n] = NoCheck] /\ check[n].at # "none"
        /\ UNCHANGED <<inits, starts, taken, running, cancelled, children>>
        /\ state' = "error"
    BY <1>15, Zenon DEF InitializingFailed, tokenVars, liveVars
  <2>. QED
    BY <1>8, <1>9, <2>1, Zenon
<1>16. ASSUME NEW n \in Start, StopWithError(n) PROVE NumbersFresh'
  <2>1. /\ UNCHANGED <<inits, starts, taken, check, children>> /\ state' = "error"
    BY <1>16, Zenon DEF StopWithError, taskVars
  <2>2. running' \subseteq running /\ \A m \in cancelled' : m \in cancelled \/ m <= starts
    <3>1. CASE state = "live"
      BY <1>16, <3>1, Zenon DEF StopWithError, NumbersFresh
    <3>2. CASE state # "live"
      BY <1>16, <3>2, Zenon DEF StopWithError
    <3>. QED
      BY <3>1, <3>2, Zenon
  <2>3. ASSUME NEW k \in Start, k > starts PROVE ~ (k <= starts)
    BY <1>0, <2>3
  <2>4. \A k \in Start : k > starts => check[k].at = "none" /\ k \notin running'
                                          /\ k \notin cancelled' /\ k \notin children
    BY <2>2, <2>3, Zenon DEF NumbersFresh
  <2>. QED
    BY <2>1, <2>4, Zenon DEF NumbersFresh
<1>17. ASSUME NEW n \in Start, DropReceiver(n) \/ OnFatalError(n) PROVE NumbersFresh'
  BY <1>1, <1>17, Zenon DEF DropReceiver, OnFatalError, taskVars, tokenVars
<1>18. CASE UNCHANGED vars
  BY <1>1, <1>18, Zenon DEF vars, taskVars, liveVars, tokenVars
<1>. QED
  BY <1>2, <1>3, <1>4, <1>5, <1>6, <1>7, <1>11, <1>12, <1>13, <1>14, <1>15, <1>16, <1>17, <1>18
 , ZenonT(30) DEF Next, ClientStep, TaskStep

(* A deletion is carried through.                                          *)
LEMMA DeletionKept ==
  ASSUME TypeOK, DeletionInv, [Next]_vars
  PROVE  DeletionInv'
<1>1. ASSUME NEW c \in Client, NEW op, Becomes(c, op),
             call[c] \notin {"delete_pause", "delete_take"}, op \notin {"delete_pause", "delete_take"}
      PROVE  Deleting' <=> Deleting
  BY <1>1, Zenon DEF Becomes, Deleting, TypeOK
<1>2. ASSUME Deleting' <=> Deleting, token' \/ token' = token, removed' = removed,
             state' = "none" => state = "none",
             ~crossed' => ~crossed,
             ~crossed' /\ state = "none" => state' = "none"
      PROVE  DeletionInv'
  BY <1>2 DEF DeletionInv, TypeOK
<1>3. ASSUME NEW c \in Client, Call(c) PROVE DeletionInv'
  <2>1. Deleting' <=> Deleting
    BY <1>1, <1>3, Zenon DEF Call
  <2>. QED
    BY <1>2, <1>3, <2>1, Zenon DEF Call, tokenVars
<1>4. ASSUME NEW c \in Client, Unpause(c) PROVE DeletionInv'
  <2>1. Deleting' <=> Deleting
    BY <1>1, <1>4, Zenon DEF Unpause
  <2>2. token' = token /\ removed' = removed
    BY <1>4, Zenon DEF Unpause, DoStart, Started
  <2>3. /\ state' = "none" => state = "none"
        /\ ~crossed' => ~crossed
        /\ state = "none" => state' = "none"
    <3>. DEFINE sp == call[c] \in {"start_paused", "add_paused"}
    <3>1. DoStart(sp)
      BY <1>4, Zenon DEF Unpause
    <3>. HIDE DEF sp
    <3>2. CASE StartInitializing(sp)
      BY <3>2, Zenon DEF StartInitializing
    <3>3. CASE StartPaused(sp)
      BY <3>3, Zenon DEF StartPaused, GoLive
    <3>4. CASE StartError(sp)
      BY <3>4, Zenon DEF StartError
    <3>5. CASE StartBails(sp)
      BY <3>5, Zenon DEF StartBails
    <3>. QED
      BY <3>1, <3>2, <3>3, <3>4, <3>5, Zenon DEF DoStart
  <2>. QED
    BY <1>2, <2>1, <2>2, <2>3, Zenon
<1>5. ASSUME NEW c \in Client, StoreFails(c) PROVE DeletionInv'
  <2>1. Deleting' <=> Deleting
    BY <1>1, <1>5, Zenon DEF StoreFails
  <2>2. removed' = "deleted" <=> removed = "deleted"
    BY <1>5, Zenon DEF StoreFails
  <2>. QED
    BY <1>5, <2>1, <2>2, Zenon DEF StoreFails, DeletionInv, tokenVars
<1>6. ASSUME DoPause
      PROVE  /\ token' \/ token' = token
             /\ state' = "none" <=> state = "none"
             /\ crossed' = crossed
  BY <1>6, Zenon DEF DoPause, PauseLive, PauseInitializing, PauseBails, CancelToken, tokenVars
<1>7. ASSUME NEW c \in Client, Pause(c) PROVE DeletionInv'
  <2>1. Deleting' <=> Deleting
    BY <1>1, <1>7, Zenon DEF Pause
  <2>. QED
    BY <1>2, <1>6, <1>7, <2>1, Zenon DEF Pause
<1>8. ASSUME NEW c \in Client, DeletePause(c) PROVE DeletionInv'
  <2>1. Deleting /\ Deleting'
    BY <1>8, Zenon DEF DeletePause, Becomes, Deleting, TypeOK
  <2>. QED
    BY <1>2, <1>6, <1>8, <2>1, Zenon DEF DeletePause
<1>9. ASSUME NEW c \in Client, PrepareForceRecheck(c) PROVE DeletionInv'
  <2>1. Deleting' <=> Deleting
    BY <1>1, <1>9, Zenon DEF PrepareForceRecheck
  <2>. QED
    BY <1>2, <1>9, <2>1, Zenon DEF PrepareForceRecheck
<1>10. ASSUME NEW c \in Client, RecheckBails(c) PROVE DeletionInv'
  <2>1. Deleting' <=> Deleting
    BY <1>1, <1>10, Zenon DEF RecheckBails
  <2>. QED
    BY <1>2, <1>10, <2>1, Zenon DEF RecheckBails, tokenVars
<1>11. ASSUME NEW c \in Client, Delete(c) PROVE DeletionInv'
  <2>1. CASE removed # "no"
    <3>1. Becomes(c, "idle") /\ UNCHANGED <<token, removed, state, crossed>>
      BY <1>11, <2>1, Zenon DEF Delete, tokenVars
    <3>2. Deleting' <=> Deleting
      BY <1>1, <1>11, <3>1, Zenon DEF Delete
    <3>. QED
      BY <1>2, <3>1, <3>2, Zenon
  <2>2. CASE removed = "no"
    <3>1. Becomes(c, "delete_pause") /\ removed' = "deleted" /\ state' = state
      BY <1>11, <2>2, Zenon DEF Delete
    <3>2. Deleting'
      BY <3>1, Zenon DEF Becomes, Deleting, TypeOK
    <3>. QED
      BY <3>1, <3>2, Zenon DEF DeletionInv
  <2>. QED
    BY <2>1, <2>2, Zenon
<1>12. ASSUME NEW c \in Client, DeleteTake(c) PROVE DeletionInv'
  <2>1. Deleting
    BY <1>12, Zenon DEF DeleteTake, Deleting
  <2>. QED
    BY <1>12, <2>1, Zenon DEF DeleteTake, DeletionInv
<1>13. ASSUME NEW n \in Start, TaskStep(n) \/ OnFatalError(n) PROVE DeletionInv'
  <2>1. UNCHANGED <<call, token, removed>>
    BY <1>13, Zenon DEF TaskStep, BeginCheck, DropCheck, CheckOk, CheckErr, Initialized, NoNeedToStart,
                 InitializingFailed, StopWithError, DropReceiver, OnFatalError, tokenVars
  <2>2. /\ state' = "none" => state = "none"
        /\ ~crossed' => ~crossed
        /\ ~crossed' /\ state = "none" => state' = "none"
    <3>1. CASE \/ BeginCheck(n) \/ DropCheck(n) \/ CheckOk(n) \/ CheckErr(n)
               \/ NoNeedToStart(n) \/ DropReceiver(n) \/ OnFatalError(n)
      BY <3>1 DEF BeginCheck, DropCheck, CheckOk, CheckErr, NoNeedToStart, DropReceiver, OnFatalError
    <3>2. CASE Initialized(n)
      BY <3>2, Zenon DEF Initialized, GoLive
    <3>3. CASE InitializingFailed(n)
      BY <3>3, Zenon DEF InitializingFailed, IsFor
    <3>4. CASE StopWithError(n)
      BY <3>4, ZenonT(30) DEF StopWithError
    <3>. QED
      BY <1>13, <3>1, <3>2, <3>3, <3>4, Zenon DEF TaskStep
  <2>. QED
    BY <1>2, <2>1, <2>2, Zenon DEF Deleting
<1>14. CASE UNCHANGED vars
  BY <1>14, Zenon DEF vars, DeletionInv, Deleting, tokenVars
<1>. QED
  BY <1>3, <1>4, <1>5, <1>7, <1>8, <1>9, <1>10, <1>11, <1>12, <1>13, <1>14, Zenon DEF Next, ClientStep

(* The initializer at hand has one check, or is about to have it.          *)
LEMMA ChecksKept ==
  ASSUME TypeOK, CallsCounted, NumbersFresh, DeletionInv, ChecksInv, FilesAreOpen, [Next]_vars
  PROVE  ChecksInv'
<1>0. Start \subseteq Nat /\ starts \in Nat /\ inits \in Nat
  BY DEF Start, TypeOK
<1>1. ASSUME UNCHANGED <<state, paused, current, taken, check, cancelled, crossed>>,
             removed' = "no" => removed = "no", removed = "deleted" => removed' = "deleted",
             removed' = "no" /\ Starting => Starting'
      PROVE  ChecksInv'
  BY <1>1, Zenon DEF ChecksInv, Mine
<1>2. ASSUME state' # "initializing" PROVE ChecksInv'
  BY <1>2, Zenon DEF ChecksInv
<1>3. ASSUME NEW c \in Client, NEW op, Becomes(c, op),
             call[c] \notin {"start", "start_paused", "add", "add_paused"}
      PROVE  Starting => Starting'
  BY <1>3, Zenon DEF Becomes, Starting, TypeOK
<1>4. ASSUME NEW c \in Client, Call(c) PROVE ChecksInv'
  <2>1. Starting => Starting'
    BY <1>3, <1>4, Zenon DEF Call
  <2>. QED
    BY <1>1, <1>4, <2>1, Zenon DEF Call, taskVars, tokenVars
<1>5. ASSUME NEW c \in Client, Unpause(c) PROVE ChecksInv'
  <2>. DEFINE sp == call[c] \in {"start_paused", "add_paused"}
              m == starts + 1
  <2>1. DoStart(sp) /\ sp \in BOOLEAN
    BY <1>5 DEF Unpause
  <2>2. m \in Start
    <3>1. c \in Pending
      BY <1>5, Zenon DEF Unpause, Pending
    <3>. QED
      BY <3>1, NextStart, Zenon
  <2>. HIDE DEF sp
  <2>3. /\ paused' = sp /\ taken' = taken /\ removed' = removed
        /\ \A n \in cancelled' : n \in cancelled \/ (n = m /\ removed = "deleted")
    BY <2>1, Zenon DEF DoStart, Started, DeletionInv
  <2>4. m \notin cancelled /\ check[m].at = "none" /\ m > starts
    BY <1>0, <2>2 DEF NumbersFresh
  <2>5. ASSUME NEW i \in Nat, SpawnCheck(m, i, sp)
        PROVE  /\ check'[m].at = "queued" /\ check'[m].init = i /\ check'[m].start_paused = sp
               /\ \A n \in Start \ {m} : check'[n] = check[n]
    BY <1>0, <2>2, <2>5, Zenon DEF SpawnCheck, TypeOK, CheckRec
  <2>6. CASE StartInitializing(sp)
    <3>1. /\ state = "initializing" /\ SpawnCheck(m, current, sp) /\ current' = current
          /\ crossed' = (crossed \/ \E n \in Start : Mine(n))
          /\ current \in Nat
      BY <2>6, Zenon DEF StartInitializing, Mine, TypeOK
    <3>2. /\ check'[m].at = "queued" /\ check'[m].init = current /\ check'[m].start_paused = sp
          /\ \A n \in Start \ {m} : check'[n] = check[n]
      BY <2>5, <3>1, Zenon
    <3>3. removed' = "no" => \E n \in Start \ cancelled' : check'[n].at # "none"
      BY <2>2, <2>3, <2>4, <3>2, Zenon
    <3>4. \A n \in Start : Mine(n)' => n \notin cancelled' \/ removed' = "deleted"
      BY <2>3, <2>4, <3>1, <3>2, Zenon DEF ChecksInv, Mine
    <3>5. ASSUME ~crossed'
          PROVE  /\ ~crossed /\ \A n \in Start : Mine(n)' => n = m
                 /\ current \notin taken
      <4>1. ~crossed /\ ~ \E n \in Start : Mine(n)
        BY <3>1, <3>5, Zenon
      <4>. QED
        BY <3>1, <3>2, <4>1, ZenonT(30) DEF ChecksInv, Mine
    <3>. QED
      BY <2>3, <3>1, <3>2, <3>3, <3>4, <3>5, Zenon DEF ChecksInv, Mine
  <2>7. CASE StartPaused(sp)
    BY <1>2, <2>7, Zenon DEF StartPaused, GoLive
  <2>8. CASE StartError(sp) /\ state' = "initializing"
    <3>1. SpawnCheck(m, inits + 1, sp) /\ current' = inits + 1
      BY <2>8, Zenon DEF StartError
    <3>2. /\ check'[m].at = "queued" /\ check'[m].init = inits + 1 /\ check'[m].start_paused = sp
          /\ \A n \in Start \ {m} : check'[n] = check[n]
      BY <1>0, <2>5, <3>1
    <3>3. removed' = "no" => \E n \in Start \ cancelled' : check'[n].at # "none"
      BY <2>2, <2>3, <2>4, <3>2, Zenon
    <3>4. \A n \in Start : check[n].init # inits + 1
      BY <1>0 DEF NumbersFresh, TypeOK, CheckRec
    <3>5. \A n \in Start : Mine(n)' => n = m
      BY <3>1, <3>2, <3>4, Zenon DEF Mine
    <3>6. inits + 1 \notin taken
      BY <1>0 DEF NumbersFresh, TypeOK
    <3>. QED
      BY <2>3, <2>4, <3>1, <3>2, <3>3, <3>5, <3>6, Zenon DEF ChecksInv, Mine
  <2>9. CASE StartError(sp) /\ state' # "initializing"
    BY <1>2, <2>9, Zenon
  <2>10. CASE StartBails(sp)
    BY <1>2, <2>10, Zenon DEF StartBails
  <2>. QED
    BY <2>1, <2>6, <2>7, <2>8, <2>9, <2>10, Zenon DEF DoStart
<1>6. ASSUME NEW c \in Client, StoreFails(c) PROVE ChecksInv'
  <2>1. removed' # "no" /\ (removed = "deleted" => removed' = "deleted")
    BY <1>6, Zenon DEF StoreFails
  <2>. QED
    BY <1>1, <1>6, <2>1, Zenon DEF StoreFails, taskVars, tokenVars
<1>7. ASSUME NEW c \in Client, Pause(c) \/ DeletePause(c) \/ DeleteTake(c) PROVE ChecksInv'
  BY <1>2, <1>7, Zenon
     DEF Pause, DeletePause, DeleteTake, DoPause, PauseLive, PauseInitializing, PauseBails
<1>8. ASSUME NEW c \in Client, PrepareForceRecheck(c) PROVE ChecksInv'
  <2>1. /\ current' = inits + 1 /\ check' = check /\ removed' = removed /\ crossed' = crossed
        /\ taken' = IF state = "error" \/ open THEN taken ELSE taken \cup {inits + 1}
        /\ state \in {"live", "paused", "error"}
    BY <1>8, Zenon DEF PrepareForceRecheck
  <2>2. \A n \in Start : ~Mine(n)'
    <3>1. \A n \in Start : check[n].init # inits + 1
      BY <1>0 DEF NumbersFresh, TypeOK, CheckRec
    <3>. QED
      BY <2>1, <3>1, Zenon DEF Mine
  <2>3. ~crossed' => inits + 1 \notin taken'
    <3>1. inits + 1 \notin taken
      BY <1>0 DEF NumbersFresh, TypeOK
    <3>. QED
      BY <2>1, <3>1, Zenon DEF FilesAreOpen
  <2>4. Starting'
    BY <1>8, Zenon DEF PrepareForceRecheck, Becomes, Starting, TypeOK
  <2>. QED
    BY <2>1, <2>2, <2>3, <2>4, Zenon DEF ChecksInv
<1>9. ASSUME NEW c \in Client, RecheckBails(c) PROVE ChecksInv'
  <2>1. Starting => Starting'
    BY <1>3, <1>9, Zenon DEF RecheckBails
  <2>. QED
    BY <1>1, <1>9, <2>1, Zenon DEF RecheckBails, taskVars, tokenVars
<1>10. ASSUME NEW c \in Client, Delete(c) PROVE ChecksInv'
  <2>1. CASE removed # "no"
    BY <1>1, <1>10, <2>1, Zenon DEF Delete, taskVars, tokenVars
  <2>2. CASE removed = "no"
    <3>1. removed' = "deleted" /\ UNCHANGED <<state, paused, current, taken, check, crossed>>
      BY <1>10, <2>2, ZenonT(30) DEF Delete, taskVars
    <3>. QED
      BY <3>1, Zenon DEF ChecksInv, Mine
  <2>. QED
    BY <2>1, <2>2, Zenon
<1>11. ASSUME NEW n \in Start, BeginCheck(n) \/ CheckErr(n) PROVE ChecksInv'
  <2>1. /\ UNCHANGED <<state, paused, current, taken, cancelled, removed, call, crossed>>
        /\ check[n].at \in {"queued", "checking"}
        /\ check'[n].at \in {"checking", "failed"} /\ check'[n].init = check[n].init
        /\ check'[n].start_paused = check[n].start_paused
        /\ \A k \in Start \ {n} : check'[k] = check[k]
    BY <1>11, SMTT(20) DEF BeginCheck, CheckErr, TypeOK, CheckRec, tokenVars
  <2>2. /\ \A k \in Start : (Mine(k)' <=> Mine(k)) /\ check'[k].start_paused = check[k].start_paused
        /\ \A k \in Start : (check'[k].at = "ready" <=> check[k].at = "ready")
        /\ \A k \in Start : (check'[k].at # "none" <=> check[k].at # "none")
        /\ \A k \in Start : check'[k].at = "ready" => check'[k] = check[k]
        /\ Starting' <=> Starting
    BY <2>1, Zenon DEF Mine, Starting
  <2>. QED
    BY <2>1, <2>2 DEF ChecksInv
<1>12. ASSUME NEW n \in Start, DropCheck(n) PROVE ChecksInv'
  <2>1. /\ UNCHANGED <<state, paused, current, taken, cancelled, removed, call, crossed>>
        /\ n \in cancelled /\ check[n].at # "ready" /\ check'[n].at = "none"
        /\ \A k \in Start \ {n} : check'[k] = check[k]
    BY <1>12, Zenon DEF DropCheck, NoCheck, TypeOK, tokenVars
  <2>2. /\ \A k \in Start : Mine(k)' => Mine(k) /\ check'[k] = check[k]
        /\ \A k \in Start : Mine(k) /\ k # n => Mine(k)'
        /\ Starting' <=> Starting
    BY <2>1, ZenonT(30) DEF Mine, Starting
  <2>. QED
    BY <2>1, <2>2, ZenonT(30) DEF ChecksInv
<1>13. ASSUME NEW n \in Start, CheckOk(n) PROVE ChecksInv'
  <2>1. /\ UNCHANGED <<state, paused, current, cancelled, removed, call, crossed>>
        /\ taken' = taken \cup {check[n].init}
        /\ check[n].at = "checking" /\ check'[n].at = "ready" /\ check'[n].init = check[n].init
        /\ check'[n].start_paused = check[n].start_paused
        /\ check'[n].open = (check[n].init \notin taken)
        /\ \A k \in Start \ {n} : check'[k] = check[k]
    BY <1>13, Zenon DEF CheckOk, TypeOK, CheckRec, tokenVars
  <2>2. /\ \A k \in Start : (Mine(k)' <=> Mine(k)) /\ check'[k].start_paused = check[k].start_paused
        /\ \A k \in Start : (check'[k].at # "none" <=> check[k].at # "none")
        /\ \A k \in Start : check[k].at = "ready" => k # n
        /\ Starting' <=> Starting
    BY <2>1, Zenon DEF Mine, Starting
  <2>3. ASSUME state = "initializing", ~crossed, Mine(n) PROVE check'[n].open
    <3>1. current \notin taken
      BY <2>2, <2>3, Zenon DEF ChecksInv
    <3>. QED
      BY <2>1, <2>3, <3>1, ZenonT(30) DEF Mine
  <2>4. ASSUME state = "initializing", ~crossed, current \in taken'
        PROVE  \E k \in Start : Mine(k)' /\ check'[k].at = "ready"
    <3>1. CASE current = check[n].init
      BY <2>1, <2>2, <3>1, ZenonT(30) DEF Mine
    <3>2. CASE current # check[n].init
      BY <2>1, <2>2, <2>4, <3>2 DEF ChecksInv
    <3>. QED
      BY <3>1, <3>2, Zenon
  <2>. QED
    BY <2>1, <2>2, <2>3, <2>4, ZenonT(30) DEF ChecksInv
<1>14. ASSUME NEW n \in Start, Initialized(n) \/ NoNeedToStart(n) \/ InitializingFailed(n) \/ StopWithError(n)
       PROVE  ChecksInv'
  BY <1>2, <1>14, Zenon DEF Initialized, NoNeedToStart, InitializingFailed, StopWithError, GoLive
<1>15. ASSUME NEW n \in Start, DropReceiver(n) \/ OnFatalError(n) PROVE ChecksInv'
  BY <1>1, <1>15, Zenon DEF DropReceiver, OnFatalError, taskVars, tokenVars, Starting
<1>16. CASE UNCHANGED vars
  BY <1>1, <1>16, Zenon DEF vars, taskVars, liveVars, tokenVars, Starting
<1>. QED
  BY <1>4, <1>5, <1>6, <1>7, <1>8, <1>9, <1>10, <1>11, <1>12, <1>13, <1>14, <1>15, <1>16
 , ZenonT(30) DEF Next, ClientStep, TaskStep

(* What is shown of the torrent stays true.                                *)
LEMMA ShownKept ==
  ASSUME TorrentInv, [Next]_vars
  PROVE  ShownInv'
<1>0. TypeOK /\ CallsCounted /\ NumbersFresh /\ DeletionInv /\ ChecksInv /\ ShownInv
  BY Zenon DEF TorrentInv
<1>1. ASSUME UNCHANGED <<state, paused, current, open, running, cancelled>>,
             ~crossed' => ~crossed, removed = "deleted" => removed' = "deleted"
      PROVE  ShownInv'
  BY <1>0, <1>1, Zenon DEF ShownInv, OneRuns, LiveRuns, FilesAreOpen, FlagIsHonoured
<1>2. ASSUME crossed' PROVE ShownInv'
  BY <1>2, Zenon DEF ShownInv, OneRuns, LiveRuns, FilesAreOpen, FlagIsHonoured
<1>3. ASSUME state' \notin {"live", "paused"}, ~crossed' => running' = {} PROVE ShownInv'
  BY <1>3, Zenon DEF ShownInv, OneRuns, LiveRuns, FilesAreOpen, FlagIsHonoured
<1>4. ASSUME ~crossed, state # "live" PROVE running = {}
  BY <1>0, <1>4, Zenon DEF ShownInv, OneRuns
<1>5. ASSUME ~crossed, state = "live", StopLive(current) PROVE running' = {}
  BY <1>0, <1>5, Zenon DEF ShownInv, OneRuns, StopLive
<1>6. ASSUME NEW c \in Client, Call(c) \/ StoreFails(c) \/ RecheckBails(c) PROVE ShownInv'
  <2>1. removed = "deleted" => removed' = "deleted"
    BY <1>6, Zenon DEF Call, StoreFails, RecheckBails
  <2>. QED
    BY <1>1, <1>6, <2>1, Zenon DEF Call, StoreFails, RecheckBails, liveVars, tokenVars
<1>7. ASSUME NEW c \in Client, Unpause(c) PROVE ShownInv'
  <2>. DEFINE sp == call[c] \in {"start_paused", "add_paused"}
              m == starts + 1
  <2>1. DoStart(sp) /\ sp \in BOOLEAN
    BY <1>7 DEF Unpause
  <2>2. m \in Start
    <3>1. c \in Pending
      BY <1>7, Zenon DEF Unpause, Pending
    <3>. QED
      BY <1>0, <3>1, NextStart, Zenon
  <2>. HIDE DEF sp
  <2>3. /\ paused' = sp /\ removed' = removed
        /\ \A n \in cancelled' : n \in cancelled \/ (n = m /\ removed = "deleted")
    BY <1>0, <2>1, Zenon DEF DoStart, Started, DeletionInv
  <2>4. m \notin cancelled /\ (state = "live" => current # m)
    BY <1>0, <2>2 DEF NumbersFresh, TypeOK, Start
  <2>5. CASE StartInitializing(sp)
    BY <1>3, <1>4, <2>5, Zenon DEF StartInitializing, liveVars
  <2>6. CASE StartPaused(sp) /\ sp
    BY <1>0, <2>3, <2>6, Zenon
       DEF StartPaused, liveVars, ShownInv, OneRuns, LiveRuns, FilesAreOpen, FlagIsHonoured
  <2>7. CASE StartPaused(sp) /\ ~sp
    <3>1. /\ state = "paused" /\ state' = "live" /\ current' = m /\ open' = open
          /\ running' = running \cup {m} /\ crossed' = crossed
      BY <2>7, Zenon DEF StartPaused, GoLive
    <3>2. ~crossed => open /\ running = {}
      BY <1>0, <1>4, <3>1, Zenon DEF ShownInv, FilesAreOpen
    <3>. QED
      BY <2>3, <2>4, <2>7, <3>1, <3>2, Zenon
         DEF ShownInv, OneRuns, LiveRuns, FilesAreOpen, FlagIsHonoured
  <2>8. CASE StartError(sp)
    BY <1>3, <1>4, <2>8, Zenon DEF StartError, liveVars
  <2>9. CASE StartBails(sp) /\ state = "live"
    <3>1. /\ UNCHANGED <<state, current, open, running>> /\ crossed' = (crossed \/ sp)
      BY <2>9, Zenon DEF StartBails, liveVars
    <3>. QED
      BY <1>0, <2>3, <2>4, <2>9, <3>1, Zenon
         DEF ShownInv, OneRuns, LiveRuns, FilesAreOpen, FlagIsHonoured
  <2>10. CASE StartBails(sp) /\ state # "live"
    BY <1>3, <1>4, <2>10, Zenon DEF StartBails, liveVars
  <2>. QED
    BY <2>1, <2>5, <2>6, <2>7, <2>8, <2>9, <2>10, Zenon DEF DoStart
<1>8. ASSUME NEW c \in Client, Pause(c) \/ DeletePause(c) PROVE ShownInv'
  <2>1. DoPause /\ removed' = removed
    BY <1>8, Zenon DEF Pause, DeletePause
  <2>2. CASE PauseLive
    <3>1. state = "live" /\ state' = "paused" /\ paused' = TRUE /\ open' = open /\ crossed' = crossed
          /\ StopLive(current)
      BY <2>1, <2>2, Zenon DEF DoPause, PauseLive
    <3>. QED
      BY <1>0, <1>5, <3>1, Zenon DEF ShownInv, OneRuns, LiveRuns, FilesAreOpen, FlagIsHonoured
  <2>3. CASE PauseInitializing
    BY <1>3, <1>4, <2>1, <2>3, Zenon DEF DoPause, PauseInitializing, liveVars
  <2>4. CASE PauseBails
    BY <1>1, <2>1, <2>4, Zenon DEF DoPause, PauseBails, liveVars, tokenVars
  <2>. QED
    BY <2>1, <2>2, <2>3, <2>4, Zenon DEF DoPause
<1>9. ASSUME NEW c \in Client, PrepareForceRecheck(c) PROVE ShownInv'
  BY <1>3, <1>4, <1>5, <1>9, Zenon DEF PrepareForceRecheck, liveVars
<1>10. ASSUME NEW c \in Client, Delete(c) PROVE ShownInv'
  <2>1. CASE removed # "no"
    BY <1>1, <1>10, <2>1, Zenon DEF Delete, liveVars, tokenVars
  <2>2. CASE removed = "no"
    BY <1>0, <1>10, <2>2, Zenon
       DEF Delete, liveVars, ShownInv, OneRuns, LiveRuns, FilesAreOpen, FlagIsHonoured
  <2>. QED
    BY <2>1, <2>2, Zenon
<1>11. ASSUME NEW c \in Client, DeleteTake(c) PROVE ShownInv'
  BY <1>3, <1>4, <1>5, <1>11, Zenon DEF DeleteTake, liveVars
<1>12. ASSUME NEW n \in Start, \/ BeginCheck(n) \/ DropCheck(n) \/ CheckOk(n) \/ CheckErr(n)
                               \/ NoNeedToStart(n) \/ DropReceiver(n) \/ OnFatalError(n)
       PROVE  ShownInv'
  BY <1>1, <1>12, Zenon DEF BeginCheck, DropCheck, CheckOk, CheckErr, NoNeedToStart, DropReceiver,
                     OnFatalError, liveVars, tokenVars
<1>13. ASSUME NEW n \in Start, Initialized(n) PROVE ShownInv'
  <2>1. /\ state = "initializing" /\ check[n].at = "ready"
        /\ UNCHANGED <<paused, cancelled, removed>>
        /\ crossed' = (crossed \/ ~ IsFor(n))
        /\ check[n].start_paused \in BOOLEAN
    BY <1>0, <1>13, Zenon DEF Initialized, tokenVars, TypeOK, CheckRec
  <2>. SUFFICES ASSUME ~crossed' PROVE ShownInv'
    BY <1>2, Zenon
  <2>2. ~crossed /\ Mine(n)
    BY <2>1, Zenon DEF IsFor, Mine
  <2>3. /\ n \notin cancelled \/ removed = "deleted"
        /\ check[n].start_paused = paused
        /\ check[n].open
        /\ running = {}
    BY <1>0, <1>4, <2>1, <2>2, Zenon DEF ChecksInv
  <2>4. CASE check[n].start_paused
    <3>1. state' = "paused" /\ open' = check[n].open /\ running' = running
      BY <1>13, <2>4, Zenon DEF Initialized, liveVars
    <3>. QED
      BY <2>1, <2>3, <2>4, <3>1, Zenon DEF ShownInv, OneRuns, LiveRuns, FilesAreOpen, FlagIsHonoured
  <2>5. CASE ~check[n].start_paused
    <3>1. state' = "live" /\ current' = n /\ open' = check[n].open /\ running' = running \cup {n}
      BY <1>13, <2>5, Zenon DEF Initialized, GoLive
    <3>. QED
      BY <2>1, <2>3, <2>5, <3>1, Zenon DEF ShownInv, OneRuns, LiveRuns, FilesAreOpen, FlagIsHonoured
  <2>. QED
    BY <2>4, <2>5, Zenon
<1>14. ASSUME NEW n \in Start, InitializingFailed(n) PROVE ShownInv'
  <2>1. state' = "error" /\ running' = running /\ (~crossed' => ~crossed /\ state # "live")
    BY <1>14, Zenon DEF InitializingFailed, IsFor, liveVars
  <2>. QED
    BY <1>3, <1>4, <2>1, Zenon
<1>15. ASSUME NEW n \in Start, StopWithError(n) PROVE ShownInv'
  <2>1. state' = "error" /\ (~crossed' => ~crossed /\ state = "live" /\ running' = running \ {current})
    BY <1>15, Zenon DEF StopWithError
  <2>2. ~crossed' => running' = {}
    BY <1>0, <2>1, Zenon DEF ShownInv, OneRuns
  <2>. QED
    BY <1>3, <2>1, <2>2, Zenon
<1>16. CASE UNCHANGED vars
  BY <1>1, <1>16, Zenon DEF vars, liveVars, tokenVars
<1>. QED
  BY <1>6, <1>7, <1>8, <1>9, <1>10, <1>11, <1>12, <1>13, <1>14, <1>15, <1>16
 , ZenonT(30) DEF Next, ClientStep, TaskStep

-----------------------------------------------------------------------------
(* The inductive invariant holds from the addition of the torrent on.      *)
LEMMA TorrentInvInit == Init => TorrentInv
<1>. SUFFICES ASSUME Init PROVE TorrentInv
  BY Zenon
<1>1. TypeOK
  BY BoundsAssumption, Zenon DEF Init, TypeOK, NoCheck, CheckRec
<1>2. CallsCounted
  <2>1. Pending = {Adder}
    BY ClientAssumption, Zenon DEF Init, Pending
  <2>2. Cardinality(Pending) = 1
    BY <2>1, FS_Singleton, Zenon
  <2>. QED
    BY <2>2, BoundsAssumption DEF Init, CallsCounted
<1>3. NumbersFresh
  BY DEF Init, NumbersFresh, NoCheck
<1>4. DeletionInv
  BY Zenon DEF Init, DeletionInv, Deleting
<1>5. ChecksInv
  <2>1. Starting
    BY ClientAssumption, Zenon DEF Init, Starting
  <2>. QED
    BY <2>1, Zenon DEF Init, ChecksInv, Mine, NoCheck
<1>6. ShownInv
  BY Zenon DEF Init, ShownInv, OneRuns, LiveRuns, FilesAreOpen, FlagIsHonoured
<1>. QED
  BY <1>1, <1>2, <1>3, <1>4, <1>5, <1>6, Zenon DEF TorrentInv

(* The inductive invariant, for any clients, permits and bounds.           *)
THEOREM TorrentInvariant == Spec => []TorrentInv
<1>1. TorrentInv /\ [Next]_vars => TorrentInv'
  BY TypeKept, CountKept, FreshKept, DeletionKept, ChecksKept, ShownKept, Zenon DEF TorrentInv, ShownInv
<1>. QED
  BY <1>1, TorrentInvInit, PTL DEF Spec

(* The state, the tasks and the files of a torrent agree whatever calls    *)
(* are made: what initializes is checked, at most one live torrent runs,   *)
(* the one shown, and it has the files (the latter unless calls crossed).  *)
THEOREM TorrentStaysConsistent == Spec => []TorrentIsConsistent
<1>1. TorrentInv => TorrentIsConsistent
  BY Zenon DEF TorrentInv, ChecksInv, DeletionInv, ShownInv, TorrentIsConsistent, InitializingHasTask,
     NoneIsDeleted
<1>. QED
  BY <1>1, TorrentInvariant, PTL

(* A torrent is live or paused as its flag says, unless calls crossed.     *)
THEOREM FlagStaysHonoured == Spec => []FlagIsHonoured
<1>1. TorrentInv => FlagIsHonoured
  BY Zenon DEF TorrentInv, ShownInv
<1>. QED
  BY <1>1, TorrentInvariant, PTL

(* A torrent whose deletion is through does not come back to life.         *)
THEOREM DeletedStaysStopped == Spec => []DeletedStops
<1>1. TorrentInv => DeletedStops
  BY Zenon DEF TorrentInv, DeletionInv, DeletedStops
<1>. QED
  BY <1>1, TorrentInvariant, PTL

=============================================================================
