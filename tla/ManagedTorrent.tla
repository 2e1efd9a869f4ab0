--------------------------- MODULE ManagedTorrent ---------------------------
(***************************************************************************)
(* One torrent of the session and its state machine: Initializing, Paused, *)
(* Live, Error (and None, the hole that is left when it is removed), the   *)
(* tasks that check its files, the receivers of its fatal errors, and the  *)
(* calls of the API, which are carried out under the lock of the torrent   *)
(* but may have several such steps.                                        *)
(*                                                                         *)
(* Every call of start() makes a child of the torrent's cancellation       *)
(* token, and at most one check, one live torrent and one receiver that    *)
(* carry it; a start is therefore named by a number, and so is what it     *)
(* made.  What a live torrent does is in module LivePieces; here it runs,  *)
(* may meet a fatal error, and is stopped.                                 *)
(*                                                                         *)
(* A cancelled task is dropped where it next awaits; a check in the middle *)
(* of the files awaits nothing, and ends with an error (it looks at the    *)
(* token before each piece) or, past the last piece, with a result.        *)
(***************************************************************************)
EXTENDS Naturals, FiniteSets

CONSTANTS
  Client,        \* the tasks that call the API
  Adder,         \* the one that adds the torrent
  InitPermits,   \* concurrent_initialize_semaphore
  MaxCalls,      \* bound: calls of the API
  MaxFailures    \* bound: checks, fatal and creation errors

ASSUME ClientAssumption == IsFiniteSet(Client) /\ Adder \in Client
ASSUME BoundsAssumption ==
  /\ InitPermits \in Nat \ {0}
  /\ {MaxCalls, MaxFailures} \subseteq Nat

\* The torrent is started when it is added, and at most once by each call.
Start == 1 .. MaxCalls + 1

VARIABLES
  state,      \* the state of the torrent
  paused,     \* its flag: is it meant to stay paused?
  current,    \* the initializer, or the start of the live torrent, in `state`
  open,       \* are the files of a paused or live torrent really there?
  inits,      \* initializers created so far, after the first
  taken,      \* those whose files were taken
  starts,     \* calls of start() so far
  check,      \* the check a start has spawned
  running,    \* live torrents that were not paused
  fatal,      \* the channel for the fatal error of a live torrent
  cancelled,  \* starts whose token is cancelled
  children,   \* starts whose token is a child of the current one
  token,      \* is the current token good for new children?
  call,       \* what a client is about to do
  calls, failures,
  removed,    \* from the session's database: by delete, or not stored
  crossed     \* history: a call or an outcome met what it was not meant for

taskVars == <<check, taken>>
tokenVars == <<cancelled, children, token>>
liveVars == <<running, fatal>>
vars == <<state, paused, current, open, inits, starts, taskVars, liveVars, tokenVars,
          call, calls, failures, removed, crossed>>

NoCheck == [at |-> "none", init |-> 0, start_paused |-> FALSE, open |-> FALSE]

-----------------------------------------------------------------------------
(* The parts of the handlers.                                              *)

\* cancel_and_reset_token, and cancel_token.
CancelToken(reset) ==
  /\ cancelled' = cancelled \cup children
  /\ children' = {}
  /\ token' = reset

\* TorrentStateLive::pause: cancels, takes the channel unless it was used.
StopLive(n) ==
  /\ cancelled' = cancelled \cup {n}
  /\ running' = running \ {n}
  /\ fatal' = [fatal EXCEPT ![n] = IF @ = "armed" THEN "none" ELSE @]

\* TorrentStateLive::new and spawn_fatal_errors_receiver.
GoLive(n, files) ==
  /\ state' = "live"
  /\ current' = n
  /\ open' = files
  /\ running' = running \cup {n}
  /\ fatal' = [fatal EXCEPT ![n] = "armed"]

SpawnCheck(n, init, start_paused) ==
  check' = [check EXCEPT ![n] =
              [at |-> "queued", init |-> init, start_paused |-> start_paused, open |-> FALSE]]

Fail == failures < MaxFailures /\ failures' = failures + 1

-----------------------------------------------------------------------------
(* start(), by the state it finds.  The flag is set, and the child token   *)
(* made, before the state is looked at.                                    *)

\* A mutant: the flag is left as it was.
StartedKeepsFlag(start_paused) ==
  /\ starts' = starts + 1
  /\ children' = IF token THEN children \cup {starts + 1} ELSE children
  /\ cancelled' = IF token THEN cancelled ELSE cancelled \cup {starts + 1}
  /\ UNCHANGED <<paused, token, taken, removed>>

Started(start_paused) ==
  /\ starts' = starts + 1
  /\ paused' = start_paused
  /\ children' = IF token THEN children \cup {starts + 1} ELSE children
  /\ cancelled' = IF token THEN cancelled ELSE cancelled \cup {starts + 1}
  /\ UNCHANGED <<token, taken, removed>>

StartInitializing(start_paused) ==
  /\ state = "initializing"
  /\ SpawnCheck(starts + 1, current, start_paused)
  /\ crossed' = (crossed \/ \E n \in Start : check[n].at # "none" /\ check[n].init = current)
  /\ UNCHANGED <<state, current, open, inits, liveVars, failures>>

StartPaused(start_paused) ==
  /\ state = "paused"
  /\ IF start_paused THEN UNCHANGED <<state, current, open, liveVars>>
                     ELSE GoLive(starts + 1, open)
  /\ UNCHANGED <<inits, check, failures, crossed>>

StartError(start_paused) ==
  /\ state = "error"
  /\ \/ /\ state' = "initializing"
        /\ inits' = inits + 1
        /\ current' = inits + 1
        /\ SpawnCheck(starts + 1, inits + 1, start_paused)
        /\ UNCHANGED failures
     \/ /\ Fail
        /\ UNCHANGED <<state, current, inits, check>>
  /\ UNCHANGED <<open, liveVars, crossed>>

\* The flag has changed all the same.
StartBails(start_paused) ==
  /\ state \in {"live", "none"}
  /\ crossed' = (crossed \/ (start_paused /\ state = "live"))
  /\ UNCHANGED <<state, current, open, inits, check, liveVars, failures>>

DoStart(start_paused) ==
  /\ Started(start_paused)
  /\ \/ StartInitializing(start_paused)
     \/ StartPaused(start_paused)
     \/ StartError(start_paused)
     \/ StartBails(start_paused)

-----------------------------------------------------------------------------
(* pause(), by the state it finds.                                         *)

PauseLive ==
  /\ state = "live"
  /\ state' = "paused"
  /\ paused' = TRUE
  /\ StopLive(current)
  /\ UNCHANGED <<open, children, token>>

\* A mutant: the check is cancelled, and the state kept.
PauseInitializingKeepsState ==
  /\ state = "initializing"
  /\ paused' = TRUE
  /\ CancelToken(TRUE)
  /\ UNCHANGED <<state, open, liveVars>>

PauseInitializing ==
  /\ state = "initializing"
  /\ state' = "error"
  /\ paused' = TRUE
  /\ CancelToken(TRUE)
  /\ UNCHANGED <<open, liveVars>>

PauseBails ==
  /\ state \in {"paused", "error", "none"}
  /\ UNCHANGED <<state, paused, open, liveVars, tokenVars>>

DoPause ==
  /\ PauseLive \/ PauseInitializing \/ PauseBails
  /\ UNCHANGED <<current, inits, starts, taskVars, failures, crossed>>

-----------------------------------------------------------------------------
(* The calls of the API.                                                   *)

Becomes(c, op) == call' = [call EXCEPT ![c] = op]

\* A handle is found in the database, and used a little later.
Call(c) ==
  /\ call[c] = "idle"
  /\ removed = "no"
  /\ calls < MaxCalls
  /\ calls' = calls + 1
  /\ \E op \in {"pause", "unpause", "recheck", "delete"} : Becomes(c, op)
  /\ UNCHANGED <<state, paused, current, open, inits, starts, taskVars, liveVars, tokenVars,
                 failures, removed, crossed>>

\* add_torrent_internal and force_recheck end with a start as well.
Unpause(c) ==
  /\ call[c] \in {"unpause", "start", "start_paused", "add", "add_paused"}
  /\ DoStart(call[c] \in {"start_paused", "add_paused"})
  /\ Becomes(c, "idle")
  /\ UNCHANGED calls

\* The torrent being added cannot be stored, and is not started.
StoreFails(c) ==
  /\ call[c] \in {"add", "add_paused"}
  /\ Fail
  /\ removed' = IF removed = "no" THEN "unstored" ELSE removed
  /\ Becomes(c, "idle")
  /\ UNCHANGED <<state, paused, current, open, inits, starts, taskVars, liveVars, tokenVars,
                 calls, crossed>>

Pause(c) ==
  /\ call[c] = "pause"
  /\ DoPause
  /\ Becomes(c, "idle")
  /\ UNCHANGED <<calls, removed>>

\* prepare_force_recheck; the start follows under another lock.
PrepareForceRecheck(c) ==
  /\ call[c] = "recheck"
  /\ state \in {"live", "paused", "error"}
  /\ state' = "initializing"
  /\ inits' = inits + 1
  /\ current' = inits + 1
  /\ paused' = (state # "live")
  /\ taken' = IF state = "error" \/ open THEN taken ELSE taken \cup {inits + 1}
  /\ IF state = "live" THEN StopLive(current) ELSE UNCHANGED <<cancelled, liveVars>>
  /\ Becomes(c, IF state = "live" THEN "start" ELSE "start_paused")
  /\ UNCHANGED <<open, starts, check, children, token, calls, failures, removed, crossed>>

RecheckBails(c) ==
  /\ call[c] = "recheck"
  /\ \/ state \in {"initializing", "none"} /\ UNCHANGED failures
     \/ state = "error" /\ Fail
  /\ Becomes(c, "idle")
  /\ UNCHANGED <<state, paused, current, open, inits, starts, taskVars, liveVars, tokenVars,
                 calls, removed, crossed>>

\* delete, first half: off the database, and the token cancelled for good.
Delete(c) ==
  /\ call[c] = "delete"
  /\ IF removed # "no" THEN UNCHANGED <<tokenVars, removed>> /\ Becomes(c, "idle")
                ELSE CancelToken(FALSE) /\ removed' = "deleted" /\ Becomes(c, "delete_pause")
  /\ UNCHANGED <<state, paused, current, open, inits, starts, taskVars, liveVars,
                 calls, failures, crossed>>

DeletePause(c) ==
  /\ call[c] = "delete_pause"
  /\ DoPause
  /\ Becomes(c, "delete_take")
  /\ UNCHANGED <<calls, removed>>

\* A mutant: relies on the pause, and looks at the state no more.
DeleteTakePaused(c) ==
  /\ call[c] = "delete_take"
  /\ state' = IF state = "paused" THEN "none" ELSE state
  /\ Becomes(c, "idle")
  /\ UNCHANGED <<paused, current, open, inits, starts, taskVars, liveVars, tokenVars,
                 calls, failures, removed, crossed>>

\* The state is taken, and the files with it.
DeleteTake(c) ==
  /\ call[c] = "delete_take"
  /\ state' = "none"
  /\ taken' = IF state = "initializing" THEN taken \cup {current} ELSE taken
  /\ IF state = "live" THEN StopLive(current) ELSE UNCHANGED <<cancelled, liveVars>>
  /\ Becomes(c, "idle")
  /\ UNCHANGED <<paused, current, open, inits, starts, check, children, token,
                 calls, failures, removed, crossed>>

-----------------------------------------------------------------------------
(* The check a start has spawned.                                          *)

Checking == {n \in Start : check[n].at \in {"checking", "ready", "failed"}}
IsFor(n) == state = "initializing" /\ current = check[n].init

BeginCheck(n) ==
  /\ check[n].at = "queued"
  /\ Cardinality(Checking) < InitPermits
  /\ check' = [check EXCEPT ![n].at = "checking"]
  /\ UNCHANGED <<state, paused, current, open, inits, starts, taken, liveVars, tokenVars,
                 call, calls, failures, removed, crossed>>

\* spawn_with_cancel: a cancelled check is dropped wherever it is, with its permit.
DropCheck(n) ==
  /\ check[n].at \in {"queued", "checking"}
  /\ n \in cancelled
  /\ check' = [check EXCEPT ![n] = NoCheck]
  /\ UNCHANGED <<state, paused, current, open, inits, starts, taken, liveVars, tokenVars,
                 call, calls, failures, removed, crossed>>

\* check(): the files move from the initializer to the result.
CheckOk(n) ==
  /\ check[n].at = "checking"
  /\ check' = [check EXCEPT ![n] = [at |-> "ready", init |-> @.init,
                 start_paused |-> @.start_paused, open |-> @.init \notin taken]]
  /\ taken' = taken \cup {check[n].init}
  /\ UNCHANGED <<state, paused, current, open, inits, starts, liveVars, tokenVars,
                 call, calls, failures, removed, crossed>>

CheckErr(n) ==
  /\ check[n].at = "checking"
  /\ check' = [check EXCEPT ![n].at = "failed"]
  /\ IF n \in cancelled THEN UNCHANGED failures ELSE Fail
  /\ UNCHANGED <<state, paused, current, open, inits, starts, taken, liveVars, tokenVars,
                 call, calls, removed, crossed>>

Initialized(n) ==
  /\ check[n].at = "ready"
  /\ state = "initializing"
  /\ crossed' = (crossed \/ ~ IsFor(n))
  /\ IF check[n].start_paused
     THEN /\ state' = "paused"
          /\ open' = check[n].open
          /\ UNCHANGED <<current, liveVars>>
     ELSE GoLive(n, check[n].open)
  /\ check' = [check EXCEPT ![n] = NoCheck]
  /\ UNCHANGED <<paused, inits, starts, taken, tokenVars, call, calls, failures, removed>>

NoNeedToStart(n) ==
  /\ check[n].at = "ready"
  /\ state # "initializing"
  /\ check' = [check EXCEPT ![n] = NoCheck]
  /\ UNCHANGED <<state, paused, current, open, inits, starts, taken, liveVars, tokenVars,
                 call, calls, failures, removed, crossed>>

\* The error replaces whatever state there is.
InitializingFailed(n) ==
  /\ check[n].at = "failed"
  /\ state' = "error"
  /\ crossed' = (crossed \/ ~ (IsFor(n) \/ state = "error"))
  /\ check' = [check EXCEPT ![n] = NoCheck]
  /\ UNCHANGED <<paused, current, open, inits, starts, taken, liveVars, tokenVars,
                 call, calls, failures, removed>>

-----------------------------------------------------------------------------
(* Fatal errors.                                                           *)

\* on_fatal_error of a live torrent: the receiver gets the error.  It is dead
\* if its token was cancelled.
OnFatalError(n) ==
  /\ n \in running
  /\ fatal[n] = "armed"
  /\ Fail
  /\ fatal' = [fatal EXCEPT ![n] = IF n \in cancelled THEN "none" ELSE "sent"]
  /\ UNCHANGED <<state, paused, current, open, inits, starts, taskVars, running, tokenVars,
                 call, calls, removed, crossed>>

\* stop_with_error, on whatever torrent is live by now.
StopWithError(n) ==
  /\ fatal[n] = "sent"
  /\ state' = "error"
  /\ crossed' = (crossed \/ ~ (state = "live" /\ current = n))
  /\ IF state = "live"
     THEN /\ cancelled' = cancelled \cup {current}
          /\ running' = running \ {current}
          /\ fatal' = [m \in Start |-> IF m = n \/ (m = current /\ fatal[m] = "armed")
                                       THEN "none" ELSE fatal[m]]
     ELSE /\ fatal' = [fatal EXCEPT ![n] = "none"]
          /\ UNCHANGED <<running, cancelled>>
  /\ UNCHANGED <<paused, current, open, inits, starts, taskVars, children, token,
                 call, calls, failures, removed>>

\* The receiver notices that it is cancelled before it sees the error.
DropReceiver(n) ==
  /\ fatal[n] = "sent"
  /\ n \in cancelled
  /\ fatal' = [fatal EXCEPT ![n] = "none"]
  /\ UNCHANGED <<state, paused, current, open, inits, starts, taskVars, running, tokenVars,
                 call, calls, failures, removed, crossed>>

-----------------------------------------------------------------------------
Init ==
  /\ state = "initializing" /\ current = 0 /\ open = FALSE
  /\ paused \in BOOLEAN
  /\ inits = 0 /\ taken = {} /\ starts = 0
  /\ check = [n \in Start |-> NoCheck]
  /\ running = {} /\ fatal = [n \in Start |-> "none"]
  /\ cancelled = {} /\ children = {} /\ token = TRUE
  /\ call = [c \in Client |-> IF c # Adder THEN "idle" ELSE IF paused THEN "add_paused" ELSE "add"]
  /\ calls = 0 /\ failures = 0 /\ removed = "no" /\ crossed = FALSE

ClientStep(c) ==
  \/ Unpause(c) \/ StoreFails(c) \/ Pause(c) \/ PrepareForceRecheck(c) \/ RecheckBails(c)
  \/ Delete(c) \/ DeletePause(c) \/ DeleteTake(c)

TaskStep(n) ==
  \/ BeginCheck(n) \/ DropCheck(n) \/ CheckOk(n) \/ CheckErr(n)
  \/ Initialized(n) \/ NoNeedToStart(n) \/ InitializingFailed(n)
  \/ StopWithError(n) \/ DropReceiver(n)

Next ==
  \/ \E c \in Client : Call(c) \/ ClientStep(c)
  \/ \E n \in Start : TaskStep(n) \/ OnFatalError(n)

Spec == Init /\ [][Next]_vars

\* The runtime runs every task that can run; checks end; calls are made and
\* fatal errors happen, or not.
FairSpec ==
  /\ Spec
  /\ \A c \in Client : WF_vars(ClientStep(c))
  /\ \A n \in Start : SF_vars(BeginCheck(n)) /\ WF_vars(TaskStep(n))

-----------------------------------------------------------------------------
(* Properties.  The calls of two clients, and the tasks they leave behind, *)
(* may cross: a second check of an initializer is started, a start with    *)
(* another flag finds the torrent live, and the outcome of a check or the  *)
(* error of a live torrent is applied to a successor.  The code does not   *)
(* exclude any of it (`crossed`); the properties that do not mention it    *)
(* hold all the same, the others as long as it has not happened.           *)

Starting == \E c \in Client : call[c] \in {"start", "start_paused", "add", "add_paused"}
Deleting == \E c \in Client : call[c] \in {"delete_pause", "delete_take"}

\* A torrent that is initializing is being checked, or about to be: no sequence
\* of pauses, restarts, rechecks and errors cancels the check (pause, delete)
\* or forgets to start it (force_recheck, add) and leaves the state behind.
InitializingHasTask ==
  state = "initializing" /\ removed = "no" =>
    \/ Starting
    \/ \E n \in Start \ cancelled : check[n].at # "none"

\* Therefore it does not show "initializing" for ever.
InitializingEnds ==
  state = "initializing" ~> state # "initializing" \/ removed # "no"

\* mod.rs:73 "outside world should never see it": the state is None only after
\* delete has taken it; every other handler puts a state back, bail! included.
NoneIsDeleted == state = "none" => removed = "deleted"

\* At most one live torrent works on the files, the one the state holds: pause,
\* stop_with_error, force_recheck and delete stop it before they let it go.
OneRuns == ~ crossed => running \subseteq (IF state = "live" THEN {current} ELSE {})

\* A torrent that is shown as live was not stopped and, unless it is being
\* deleted, its tasks were not cancelled.
LiveRuns ==
  ~ crossed /\ state = "live" =>
    current \in running /\ (current \notin cancelled \/ removed = "deleted")

\* The files of a paused or live torrent are the ones its storage has opened,
\* never the dummy that take() leaves behind.
FilesAreOpen == ~ crossed /\ state \in {"paused", "live"} => open

\* The state, the tasks and the files of a torrent agree in every state the outside world can see.
TorrentIsConsistent == InitializingHasTask /\ NoneIsDeleted /\ OneRuns /\ LiveRuns /\ FilesAreOpen

\* The state of the torrent follows its flag: mod.rs:101 "the intention might
\* be for it to stay paused", and a torrent that was unpaused is not paused.
FlagIsHonoured ==
  ~ crossed => (state = "live" => ~ paused) /\ (state = "paused" => paused)

\* When delete is through, the torrent is not live, whatever calls that began
\* before it, or checks that it cancelled, did in the middle of it, as long as none
\* of them met a state it was not meant for.
DeletedStops == ~ crossed /\ removed = "deleted" /\ ~ Deleting => state # "live"

\* storage/mod.rs, take(): the old storage is "useless" once it was taken.
\* No torrent is given such a storage, crossed calls or not.
NeverUselessFiles == state \in {"paused", "live"} => open
=============================================================================
