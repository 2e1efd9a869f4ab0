-------------------------------- MODULE Feeds --------------------------------
(* The sources of new torrents: RSS feeds with the table of items seen and the *)
(* rules that download them (rss/), and the watched folder (watch.rs). The     *)
(* title of an entry is the entry; a regex is the set of entries it matches.   *)
EXTENDS Integers, Sequences, FiniteSets

CONSTANTS Names, Entries, HasUrl,  \* feeds, their entries, those that link to a torrent
          Configs,                 \* what a feed may be configured to
          RuleIds, RuleBodies,
          Limit,                   \* rss_history_limit
          Torrents, Magnets,       \* files of the watched folder, by extension
          MaxCalls                 \* bound: calls of the API, kinds of errors of the database, changes of a file

VARIABLES feeds, items, rules,     \* the tables; items in the order they were seen
          published,
          mon,                     \* the loop of the monitor
          manual,                  \* a request to download an item
          files, thread, scanned, seenAtStart, events, channel, adder,
          auto, again, orphans, added, gap, offered, cut,  \* history
          held,                    \* history: what feeds and rules were configured to since the round began
          dbErrors,                \* history: what the monitor asked of the database in vain
          calls

rssVars == <<feeds, items, rules, published, mon, manual, auto, again, orphans, held, dbErrors>>
watchVars == <<files, thread, scanned, seenAtStart, events, channel, adder, gap, offered, cut>>
vars == <<rssVars, watchVars, added, calls>>

Present(table) == {k \in DOMAIN table : table[k] # {}}
The(S) == CHOOSE x \in S : TRUE
Ids == {items[i].id : i \in DOMAIN items}
RssItemExists(e) == e \in Ids
Configured(t, r) == [feeds |-> {f \in Names \X Configs : f[2] \in t[f[1]]}, rules |-> UNION {r[i] : i \in RuleIds}]
Nothing == [feeds |-> {}, rules |-> {}]

Sleeping == [pc |-> "sleep", todo |-> {}, feed |-> {}, left |-> {}, rules |-> {}, entry |-> {}]
Nobody == [pc |-> "idle", entry |-> {}]

Init == /\ feeds \in [Names -> {{}} \union {{c} : c \in Configs}] /\ items = <<>>
        /\ rules \in [RuleIds -> {{}} \union {{b} : b \in RuleBodies}]
        /\ published \in [Names -> SUBSET Entries]
        /\ mon = Sleeping /\ manual = Nobody
        /\ files \in [Torrents \union Magnets -> {"absent", "partial", "complete"}]
        /\ held = Nothing /\ dbErrors = {} /\ cut = {}
        /\ thread = IF Torrents \union Magnets = {} THEN "ended" ELSE "scan"
        /\ scanned = {} /\ seenAtStart = {f \in Torrents : files[f] # "absent"}
        /\ events = {} /\ channel = <<>> /\ adder = {}
        /\ auto = {} /\ again = {} /\ orphans = {} /\ added = {} /\ gap = {f \in Magnets : files[f] = "complete"} /\ offered = {}
        /\ calls = 0

------------------------------------------------------------------------------
(* The handlers of the API. Each holds the lock of the database throughout.    *)
Bounded == calls + Cardinality(dbErrors) < MaxCalls
Call == Bounded /\ calls' = calls + 1 /\ UNCHANGED <<watchVars, published, mon, manual, again, added, dbErrors>>
Noted == held' = IF mon.pc = "sleep" THEN held
                 ELSE LET now == Configured(feeds', rules') IN
                      [feeds |-> held.feeds \union now.feeds, rules |-> held.rules \union now.rules]

RssFeedAdd == /\ Call
              /\ \E n \in Names \ Present(feeds), c \in Configs : feeds' = [feeds EXCEPT ![n] = {c}]
              /\ UNCHANGED <<items, rules, auto, orphans>> /\ Noted

(* feed_delete: the items go, and the feed leaves the rules; a rule without a   *)
(* feed goes too.                                                              *)
Unlinked(n) == [r \in RuleIds |->
    {[b EXCEPT !.feeds = @ \ {n}] : b \in {x \in rules[r] : n \notin x.feeds \/ x.feeds # {n}}}]
FeedDelete(n, table) ==
    /\ feeds' = [table EXCEPT ![n] = {}]
    /\ items' = SelectSeq(items, LAMBDA x : x.feed # n)
    /\ rules' = Unlinked(n)
    /\ auto' = auto \ {items[i].id : i \in {j \in DOMAIN items : items[j].feed = n}}
    /\ orphans' = {o \in orphans : \A i \in DOMAIN items : items[i].id = o => items[i].feed # n}
    /\ Noted
RssFeedDelete == Call /\ \E n \in Names : FeedDelete(n, feeds)

(* An update under another name deletes the old one and what hangs on it.      *)
RssFeedUpdate == /\ Call
                 /\ \E n, m \in Names, c \in Configs :
                       IF m # n THEN FeedDelete(n, [feeds EXCEPT ![m] = {c}])
                       ELSE feeds' = [feeds EXCEPT ![m] = {c}] /\ UNCHANGED <<items, rules, auto, orphans>> /\ Noted

RssRulePut == /\ Call
              /\ \E r \in RuleIds, b \in RuleBodies : rules' = [rules EXCEPT ![r] = {b}]
              /\ UNCHANGED <<feeds, items, auto, orphans>> /\ Noted
RssRuleDelete == /\ Call
                 /\ \E r \in Present(rules) : rules' = [rules EXCEPT ![r] = {}]
                 /\ UNCHANGED <<feeds, items, auto, orphans>> /\ Noted

MarkDownloaded(e) == items' = [i \in DOMAIN items |-> IF items[i].id = e THEN [items[i] EXCEPT !.downloaded = TRUE] ELSE items[i]]

(* h_rss_item_download: the item is read, the torrent added without the lock,  *)
(* and the item marked if it is still there.                                   *)
RssItemDownload == /\ manual = Nobody /\ Bounded /\ calls' = calls + 1
                   /\ \E e \in Ids \intersect HasUrl : manual' = [pc |-> "add", entry |-> {e}]
                   /\ UNCHANGED <<feeds, items, rules, published, mon, auto, again, orphans, held, dbErrors, added, watchVars>>
ManualAdd == /\ manual.pc = "add"
             /\ \/ /\ added' = added \union manual.entry
                   /\ manual' = [manual EXCEPT !.pc = "mark"]
                \/ manual' = Nobody /\ UNCHANGED added
             /\ UNCHANGED <<feeds, items, rules, published, mon, auto, again, orphans, held, dbErrors, watchVars, calls>>
ManualMark == /\ manual.pc = "mark" /\ MarkDownloaded(The(manual.entry)) /\ manual' = Nobody
              /\ UNCHANGED <<feeds, rules, published, mon, auto, again, orphans, held, dbErrors, added, watchVars, calls>>

------------------------------------------------------------------------------
(* The monitor.                                                                *)
MonUnchanged == UNCHANGED <<feeds, rules, published, manual, watchVars, calls>>
Same == UNCHANGED <<held, dbErrors>>
DbFails(what) == Bounded /\ dbErrors' = dbErrors \union {what}
Quiet == UNCHANGED <<items, auto, again, orphans, added>>

(* run: the feeds are read once for the whole round; none, if they cannot be.  *)
Wake == /\ mon.pc = "sleep"
        /\ mon' = [Sleeping EXCEPT !.pc = IF Present(feeds) = {} THEN "sleep" ELSE "feeds",
                                   !.todo = {<<n, The(feeds[n])>> : n \in Present(feeds)}]
        /\ held' = IF mon'.pc = "sleep" THEN held ELSE Configured(feeds, rules)
        /\ MonUnchanged /\ Quiet /\ UNCHANGED dbErrors

(* check_feed: the body may not be read or parsed; the rules are read once, and *)
(* there are none if they cannot be.                                           *)
RulesOf(n) == UNION {{b \in rules[r] : b.enabled /\ n \in b.feeds} : r \in RuleIds}
CheckFeed == /\ mon.pc = "feeds"
             /\ \E f \in mon.todo : \E R \in {RulesOf(f[1]), {}} :
                   /\ \/ R = RulesOf(f[1]) /\ UNCHANGED dbErrors
                      \/ R = {} /\ RulesOf(f[1]) # {} /\ DbFails("rules")
                   /\ mon' = IF f[2].enabled
                             THEN [mon EXCEPT !.pc = "entries", !.todo = @ \ {f}, !.feed = {f},
                                              !.left = published[f[1]], !.rules = R]
                             ELSE [mon EXCEPT !.todo = @ \ {f}]
             /\ MonUnchanged /\ Quiet /\ UNCHANGED held
CheckFails == /\ mon.pc = "feeds"
              /\ \E f \in mon.todo : mon' = [mon EXCEPT !.todo = @ \ {f}]
              /\ MonUnchanged /\ Quiet /\ Same

FeedName == The(mon.feed)[1]
Config == The(mon.feed)[2]
Entry == The(mon.entry)

(* An item that is known is passed over; a new one is stored before anything   *)
(* else is decided about it. The two take the lock one after the other. An item *)
(* that cannot be looked up is taken for a new one, and one that cannot be      *)
(* stored is dealt with all the same.                                          *)
LookUp == /\ mon.pc = "entries"
          /\ \E e \in mon.left :
                \/ /\ mon' = IF RssItemExists(e) THEN [mon EXCEPT !.left = @ \ {e}]
                            ELSE [mon EXCEPT !.pc = "upsert", !.left = @ \ {e}, !.entry = {e}]
                   /\ UNCHANGED dbErrors
                \/ /\ mon' = [mon EXCEPT !.pc = "upsert", !.left = @ \ {e}, !.entry = {e}]
                   /\ RssItemExists(e) /\ DbFails("exists")
          /\ MonUnchanged /\ Quiet /\ UNCHANGED held
Upsert == /\ mon.pc = "upsert"
          /\ \/ /\ items' = IF RssItemExists(Entry) THEN items
                            ELSE Append(items, [id |-> Entry, feed |-> FeedName, downloaded |-> FALSE])
                /\ orphans' = IF feeds[FeedName] = {} THEN orphans \union mon.entry ELSE orphans
                /\ UNCHANGED dbErrors
             \/ DbFails("upsert") /\ UNCHANGED <<items, orphans>>
          /\ mon' = [mon EXCEPT !.pc = "decide"]
          /\ MonUnchanged /\ UNCHANGED <<auto, again, added, held>>

(* A filter that does not compile filters nothing, but still counts as set.    *)
PassesFilter(c, e) == c.filter = {} \/ c.broken \/ e \in The(c.filter)
MatchedRule(R, e) == \E b \in R : e \in b.match
ShouldDownloadAll(c, R, e) == MatchedRule(R, e) \/ (c.auto /\ c.filter = {})
ShouldDownload(c, R, e) == PassesFilter(c, e) /\ (MatchedRule(R, e) \/ (c.auto /\ c.filter = {}))
ExtractTorrentUrl(e) == e \in HasUrl
Decide == /\ mon.pc = "decide"
          /\ mon' = IF ExtractTorrentUrl(Entry) /\ ShouldDownload(Config, mon.rules, Entry)
                    THEN [mon EXCEPT !.pc = "add"] ELSE [mon EXCEPT !.pc = "entries", !.entry = {}]
          /\ MonUnchanged /\ Quiet /\ Same

AddTorrent == /\ mon.pc = "add"
              /\ \/ /\ added' = added \union mon.entry
                    /\ auto' = auto \union (mon.entry \intersect Ids) /\ again' = again \union (auto \intersect mon.entry)
                    /\ mon' = [mon EXCEPT !.pc = "mark"]
                 \/ /\ mon' = [mon EXCEPT !.pc = "entries", !.entry = {}] /\ UNCHANGED <<auto, again, added>>
              /\ MonUnchanged /\ Same /\ UNCHANGED <<items, orphans>>
Mark == /\ mon.pc = "mark"
        /\ \/ MarkDownloaded(Entry) /\ UNCHANGED dbErrors
           \/ DbFails("mark") /\ UNCHANGED items
        /\ mon' = [mon EXCEPT !.pc = "entries", !.entry = {}]
        /\ MonUnchanged /\ UNCHANGED <<auto, again, orphans, added, held>>

NextFeed == /\ mon.pc = "entries" /\ mon.left = {}
            /\ mon' = [mon EXCEPT !.pc = "feeds", !.feed = {}, !.rules = {}]
            /\ MonUnchanged /\ Quiet /\ Same

(* The oldest items go when there are more than Limit of them.                 *)
PruneItems == SubSeq(items, IF Len(items) > Limit THEN Len(items) - Limit + 1 ELSE 1, Len(items))
Prune == /\ mon.pc = "feeds" /\ mon.todo = {}
         /\ \/ items' = PruneItems /\ UNCHANGED dbErrors
            \/ DbFails("prune") /\ UNCHANGED items
         /\ held' = Nothing
         /\ auto' = auto \intersect {items'[i].id : i \in DOMAIN items'}
         /\ orphans' = orphans \intersect {items'[i].id : i \in DOMAIN items'}
         /\ mon' = Sleeping
         /\ MonUnchanged /\ UNCHANGED <<again, added>>

(* The world: a feed gets an entry.                                            *)
Publish == /\ \E n \in Names, e \in Entries : e \notin published[n] /\ published' = [published EXCEPT ![n] = @ \union {e}]
           /\ UNCHANGED <<feeds, items, rules, mon, manual, auto, again, orphans, held, dbErrors, added, watchVars, calls>>

------------------------------------------------------------------------------
(* The watched folder. A file is written in pieces; each change of it is an     *)
(* event once the watcher is installed. A magnet may be cut short after its hash. *)
States(f) == {"absent", "partial", "complete"} \union IF f \in Magnets THEN {"cut"} ELSE {}
WatchUnchanged == UNCHANGED <<rssVars, calls>>

Change == /\ Bounded /\ calls' = calls + 1 /\ thread # "ended"
          /\ \E f \in DOMAIN files : \E s \in States(f) :
                /\ s # files[f] /\ files' = [files EXCEPT ![f] = s]
                /\ events' = IF thread = "watching" THEN events \union {<<f, IF s = "absent" THEN "remove" ELSE
                                                            IF files[f] = "absent" THEN "create" ELSE "modify">>} ELSE events
                /\ gap' = IF thread # "watching" /\ s = "complete" THEN gap \union {f} ELSE gap
                /\ offered' = offered \ {f}
          /\ UNCHANGED <<rssVars, added, thread, scanned, seenAtStart, channel, adder, cut>>

(* read_and_validate: a .torrent that is not whole is passed over; a magnet     *)
(* needs no more than its hash.                                                *)
ReadAndValidate(f) == files[f] \in {"complete", "cut"}
Offer(f) == IF ReadAndValidate(f)
            THEN channel' = Append(channel, <<f, files[f]>>) /\ offered' = offered \union {f} /\ gap' = gap \ {f}
            ELSE UNCHANGED <<channel, offered, gap>>

(* The walk over the folder takes .torrent files only.                         *)
Scan == /\ thread = "scan"
        /\ \E f \in Torrents \ scanned : files[f] # "absent" /\ Offer(f) /\ scanned' = scanned \union {f}
        /\ WatchUnchanged /\ UNCHANGED <<added, files, thread, seenAtStart, events, adder, cut>>
ScanEnds == /\ thread = "scan" /\ \A f \in seenAtStart \ scanned : files[f] = "absent"
            /\ thread' = "scanned"
            /\ WatchUnchanged /\ UNCHANGED <<added, files, scanned, seenAtStart, events, channel, adder, gap, offered, cut>>
StartWatching == /\ thread = "scanned" /\ thread' = "watching"
                 /\ WatchUnchanged /\ UNCHANGED <<added, files, scanned, seenAtStart, events, channel, adder, gap, offered, cut>>

TakesCreateOnly(kind) == kind = "create"
TakesEvent(kind) == kind \in {"create", "modify"}
WatchCb == /\ thread = "watching"
           /\ \E ev \in events : /\ events' = events \ {ev}
                                 /\ IF TakesEvent(ev[2]) THEN Offer(ev[1]) ELSE UNCHANGED <<channel, offered, gap>>
           /\ WatchUnchanged /\ UNCHANGED <<added, files, thread, scanned, seenAtStart, adder, cut>>

WatchAdder == /\ adder = {} /\ channel # <<>> /\ thread # "ended"
              /\ adder' = {Head(channel)} /\ channel' = Tail(channel)
              /\ WatchUnchanged /\ UNCHANGED <<added, files, thread, scanned, seenAtStart, events, gap, offered, cut>>
AddOne == /\ adder # {} /\ adder' = {}
          /\ LET f == The(adder)[1] IN
             \/ /\ added' = added \union {f} /\ UNCHANGED gap  \* or it is managed already, and stays as it is
                /\ cut' = IF f \notin added /\ The(adder)[2] = "cut" THEN cut \union {f} ELSE cut
             \/ gap' = gap \union {f} /\ UNCHANGED <<added, cut>>     \* an error is logged
          /\ WatchUnchanged /\ UNCHANGED <<files, thread, scanned, seenAtStart, events, channel, offered>>

(* The session ends: the thread is woken, the adder is cancelled with it.       *)
Cancel == /\ thread # "ended" /\ thread' = "ended" /\ channel' = <<>> /\ adder' = {}
          /\ WatchUnchanged /\ UNCHANGED <<added, files, scanned, seenAtStart, events, gap, offered, cut>>

Rss == \/ RssFeedAdd \/ RssFeedDelete \/ RssFeedUpdate \/ RssRulePut \/ RssRuleDelete
       \/ RssItemDownload \/ ManualAdd \/ ManualMark
       \/ Wake \/ CheckFeed \/ CheckFails \/ LookUp \/ Upsert \/ Decide \/ AddTorrent \/ Mark \/ NextFeed \/ Prune
       \/ Publish
Watch == Change \/ Scan \/ ScanEnds \/ StartWatching \/ WatchCb \/ WatchAdder \/ AddOne \/ Cancel
Next == Rss \/ Watch

Spec == Init /\ [][Next]_vars

------------------------------------------------------------------------------
\* An item is downloaded by a rule or by its feed at most once for as long as it is
\* remembered (unless the database would not tell), and is marked as downloaded only
\* when its torrent was added. The table holds each item once, of a feed that exists (or
\* was deleted while the monitor was reading it), and no more than Limit of them between
\* two rounds unless it could not be pruned. The monitor goes by copies of the configuration that
\* the user may have changed or deleted, but never by older ones than those the round
\* began with: a feed that was enabled at some time of the round, with a filter that lets
\* the item pass, and a rule that was in force in it or the feed itself asked for the item.
FeedsAreHonest ==
    /\ "exists" \notin dbErrors => again = {}
    /\ \A i \in DOMAIN items : items[i].downloaded => items[i].id \in added
    /\ \A i, j \in DOMAIN items : items[i].id = items[j].id => i = j
    /\ \A i \in DOMAIN items : feeds[items[i].feed] # {} \/ items[i].id \in orphans
    /\ mon.pc = "sleep" /\ "prune" \notin dbErrors => Len(items) <= Limit
    /\ mon.pc \in {"add", "mark"} =>
         \E f \in held.feeds :
            /\ f[1] = FeedName /\ f[2].enabled
            /\ f[2].filter # {} /\ ~f[2].broken => Entry \in The(f[2].filter)
            /\ \/ f[2].auto /\ f[2].filter = {}
               \/ \E b \in held.rules : b.enabled /\ FeedName \in b.feeds /\ Entry \in b.match

\* Once the watcher is installed and its events are handled, every whole file of the folder
\* was handed to the session, except one that was finished before the watcher was installed
\* and that the walk missed, a .magnet file older than the watcher, and one whose addition
\* failed; and what was handed over was added once the adder is idle. A .torrent is never
\* taken before it is whole; a magnet may be, as soon as its hash is there.
WholeFilesAreOffered ==
    /\ thread = "watching" /\ events = {} =>
         \A f \in DOMAIN files \ gap :
            /\ files[f] = "complete" => f \in offered
            /\ f \in offered /\ channel = <<>> /\ adder = {} => f \in added
    /\ cut \subseteq Magnets
=============================================================================
