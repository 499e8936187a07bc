------------------------------- MODULE HNTail -------------------------------
(***************************************************************************)
(* Tailing Hacker News: the stream of events that announce the newest item *)
(* (egobot/hnapi), the tailer that follows it item by item                 *)
(* (egobot/hntail), and the handler that looks at each item, announces     *)
(* some, and saves how far it got (egobot/hdlhn), over crashes and         *)
(* restarts.  The list of top stories has a stream and a loop of its own,  *)
(* which share nothing with these, and is left out.                        *)
(*                                                                         *)
(* The goroutines are the stream's, the tailer's, and the one that saves.  *)
(* Stopping the bot is a crash as well: destroying the handlers does       *)
(* nothing.                                                                *)
(***************************************************************************)
EXTENDS Naturals, Sequences

CONSTANTS
  MaxItem,   \* bound: the largest item number
  MaxCrash,  \* bound: crashes
  MaxDrops,  \* bound: streams lost
  Initials,  \* values of InitialMostRecentProcessed, 0 if not configured
  Pattern,   \* whether NotifyPattern is configured
  Matching,  \* the items it matches
  ByUser,    \* the items NotifyUser wrote
  Links,     \* the items that have a URL
  Parent     \* what an item is a reply to, 0 for none

Items == 1..MaxItem

ASSUME BoundsAssumption == MaxItem \in Nat \ {0} /\ {MaxCrash, MaxDrops} \subseteq Nat
ASSUME ItemsAssumption ==
  /\ Initials \subseteq 0..MaxItem
  /\ Pattern \in BOOLEAN
  /\ {Matching, ByUser, Links} \subseteq SUBSET Items
  /\ Parent \in [Items -> 0..MaxItem]
  /\ \A i \in Items : Parent[i] < i

VARIABLES
  max,         \* the newest item at the server
  initial,     \* InitialMostRecentProcessed
  open,        \* the stream is open
  wire,        \* events on it not yet over: item numbers, 0 if not a "put"
  again,       \* the first of them was delivered once
  drops,       \* streams lost so far
  up,          \* the bot runs
  panicked,    \* it ended in a panic
  crashes,     \* crashes so far
  tail,        \* where the tailer is
  lastItem,    \* lastItemNo
  target,      \* maxItemNo
  interrupted, \* it gave up before its target, and had no other since
  watching,    \* watchingParents
  mrp,         \* mostRecentProcessed
  token,       \* mostRecentProcessedChan holds an element
  saver,       \* where the goroutine that saves is
  oldMRP,      \* what it last found
  db,          \* the position saved, 0 if none
  saveFailed,  \* the last attempt to save failed
  \* history
  first,       \* where tailing began
  handled,     \* items looked at, or given up
  audits,      \* how often each was looked at
  announced    \* items announced

serverVars == <<max, open, wire, again, drops>>
tailVars == <<tail, lastItem, target, interrupted, first>>
auditVars == <<watching, handled, audits, announced>>
saveVars == <<token, saver, oldMRP>>
dbVars == <<db, saveFailed>>
lifeVars == <<initial, up, panicked, crashes>>
vars == <<serverVars, tailVars, auditVars, mrp, saveVars, dbVars, lifeVars>>

Numbers == 0..MaxItem

TypeOK ==
  /\ {max, initial, lastItem, target, mrp, oldMRP, db, first} \subseteq Numbers
  /\ {open, again, up, panicked, interrupted, token, saveFailed} \subseteq BOOLEAN
  /\ wire \in Seq(Numbers)
  /\ drops \in 0..MaxDrops
  /\ crashes \in 0..MaxCrash
  /\ tail \in {"wait", "loop", "mark"}
  /\ saver \in {"wait", "read", "save", "sleep"}
  /\ watching \subseteq announced /\ announced \subseteq handled /\ handled \subseteq Items
  /\ audits \in [Items -> 0..MaxCrash + 1]

\* The server has an item; the bot has never run.
Init ==
  /\ max = 1 /\ initial \in Initials
  /\ open = FALSE /\ wire = <<>> /\ again = FALSE /\ drops = 0
  /\ up = FALSE /\ panicked = FALSE /\ crashes = 0
  /\ tail = "wait" /\ lastItem = 0 /\ target = 0 /\ interrupted = FALSE
  /\ mrp = 0 /\ token = FALSE /\ saver = "wait" /\ oldMRP = 0
  /\ db = 0 /\ saveFailed = FALSE
  /\ first = 0 /\ handled = {} /\ audits = [i \in Items |-> 0]
  /\ watching = {} /\ announced = {}

\* The bot's process ends: everything but the database is gone.
Ends ==
  /\ up' = FALSE
  /\ open' = FALSE /\ wire' = <<>> /\ again' = FALSE
  /\ tail' = "wait" /\ lastItem' = 0 /\ target' = 0 /\ interrupted' = FALSE
  /\ watching' = {}
  /\ mrp' = 0 /\ token' = FALSE /\ saver' = "wait" /\ oldMRP' = 0
  /\ UNCHANGED <<max, drops, first, initial>>

Panics == panicked' = TRUE /\ Ends /\ UNCHANGED crashes

-----------------------------------------------------------------------------
(* The server (external).                                                  *)

\* New items; one event may stand for several.
SrvNewItems ==
  /\ max' \in (max + 1)..MaxItem
  /\ wire' = IF open THEN Append(wire, max') ELSE wire
  /\ UNCHANGED <<open, again, drops, tailVars, auditVars, mrp, saveVars, dbVars, lifeVars>>

SrvKeepAlive ==
  /\ open /\ wire = <<>>
  /\ wire' = <<0>>
  /\ UNCHANGED <<max, open, again, drops, tailVars, auditVars, mrp, saveVars, dbVars, lifeVars>>

-----------------------------------------------------------------------------
(* The stream of events: SSEListener.                                      *)

\* loop opens the stream, after any number of attempts and pauses; the server
\* begins with its newest item.
OpenStream ==
  /\ up /\ ~open
  /\ open' = TRUE
  /\ wire' = <<max>>
  /\ UNCHANGED <<max, again, drops, tailVars, auditVars, mrp, saveVars, dbVars, lifeVars>>

\* The stream fails, with what has not been read of it, between the two
\* deliveries of an event as well.
StreamFails ==
  /\ open
  /\ drops < MaxDrops
  /\ drops' = drops + 1
  /\ open' = FALSE /\ wire' = <<>> /\ again' = FALSE
  /\ UNCHANGED <<max, tailVars, auditVars, mrp, saveVars, dbVars, lifeVars>>

\* An event is delivered at its data line and, the same, at the blank line that
\* ends it.
Deliver ==
  /\ again' = ~again
  /\ wire' = IF again THEN Tail(wire) ELSE wire
  /\ UNCHANGED <<max, open, drops>>

-----------------------------------------------------------------------------
(* The tailer: mon2Loop, which calls onNewItem.                            *)

\* Fault: every event sets the position.
AlwaysNewest(last, newest) == newest
StartingAt(last, newest) == IF last = 0 THEN newest ELSE last

\* The rendezvous with the stream, and the second of sleep.
TailReceive ==
  /\ tail = "wait" /\ wire # <<>>
  /\ Deliver
  /\ target' = Head(wire)
  /\ lastItem' = StartingAt(lastItem, target')
  /\ first' = IF lastItem = 0 THEN lastItem' ELSE first
  /\ tail' = "loop"
  /\ interrupted' = (interrupted /\ target' = 0)
  /\ UNCHANGED <<auditVars, mrp, saveVars, dbVars, lifeVars>>

\* Fault: the loop stops an item early.
OneShort == lastItem + 1 >= target
\* Fault: the loop goes on to the newest item.
OneTooMany == lastItem > target
CaughtUp == lastItem >= target

TailEnds ==
  /\ tail = "loop" /\ CaughtUp
  /\ tail' = "wait"
  /\ UNCHANGED <<lastItem, target, interrupted, first, serverVars, auditVars, mrp, saveVars, dbVars, lifeVars>>

Working == tail = "loop" /\ ~CaughtUp

\* The bot is not on the channel: the item is tried again at the next event.
NotOnChannel ==
  /\ Working
  /\ tail' = "wait" /\ interrupted' = TRUE
  /\ UNCHANGED <<lastItem, target, first, serverVars, auditVars, mrp, saveVars, dbVars, lifeVars>>

\* The item cannot be fetched, or is still missing after several attempts.
IgnoreItem ==
  /\ Working
  /\ handled' = handled \cup {lastItem}
  /\ lastItem' = lastItem + 1
  /\ UNCHANGED <<tail, target, interrupted, first, watching, audits, announced,
                 serverVars, mrp, saveVars, dbVars, lifeVars>>

Interesting(i) == (Pattern /\ i \in Matching) \/ i \in ByUser \/ Parent[i] \in watching

\* formatNotifyItem searches the text of an item without URL for the pattern.
CannotFormat(i) == Interesting(i) /\ i \notin Links /\ ~Pattern

\* auditItem
AuditItem ==
  /\ Working
  /\ handled' = handled \cup {lastItem}
  /\ audits' = [audits EXCEPT ![lastItem] = @ + 1]
  /\ IF CannotFormat(lastItem)
     THEN Panics /\ UNCHANGED announced
     ELSE /\ IF Interesting(lastItem)
             THEN announced' = announced \cup {lastItem} /\ watching' = watching \cup {lastItem}
             ELSE UNCHANGED <<announced, watching>>
          /\ tail' = "mark"
          /\ UNCHANGED <<lastItem, target, interrupted, first, serverVars, mrp, saveVars, lifeVars>>
  /\ UNCHANGED dbVars

\* Fault: the channel has no buffer, so that only a saver that waits is told.
SignalUnbuffered == token' = (saver = "wait")
Signal == token' = TRUE

\* setMostRecentProcessed, which panics if the position would decrease.
MarkProcessed ==
  /\ tail = "mark"
  /\ IF mrp > lastItem
     THEN Panics
     ELSE /\ mrp' = lastItem
          /\ Signal
          /\ lastItem' = lastItem + 1
          /\ tail' = "loop"
          /\ UNCHANGED <<target, interrupted, first, serverVars, watching, saver, oldMRP, lifeVars>>
  /\ UNCHANGED <<handled, audits, announced, dbVars>>

\* cleanLoop: what has been watched for five days is forgotten, the oldest
\* first.
Clean ==
  /\ \E i \in watching : watching' = {j \in watching : j > i}
  /\ UNCHANGED <<handled, audits, announced, serverVars, tailVars, mrp, saveVars, dbVars, lifeVars>>

-----------------------------------------------------------------------------
(* saveLoop.                                                               *)

SaverTakes ==
  /\ saver = "wait" /\ token
  /\ token' = FALSE
  /\ saver' = "read"
  /\ UNCHANGED <<oldMRP, serverVars, tailVars, auditVars, mrp, dbVars, lifeVars>>

SaverReads ==
  /\ saver = "read"
  /\ oldMRP' = mrp
  /\ saver' = IF mrp # oldMRP THEN "save" ELSE "wait"
  /\ UNCHANGED <<token, serverVars, tailVars, auditVars, mrp, dbVars, lifeVars>>

\* The database is changed as a whole or not at all.
Save ==
  /\ saver = "save"
  /\ \/ db' = oldMRP /\ saveFailed' = FALSE
     \/ saveFailed' = TRUE /\ UNCHANGED db
  /\ saver' = "sleep"
  /\ UNCHANGED <<token, oldMRP, serverVars, tailVars, auditVars, mrp, lifeVars>>

SaverWakes ==
  /\ saver = "sleep"
  /\ saver' = "wait"
  /\ UNCHANGED <<token, oldMRP, serverVars, tailVars, auditVars, mrp, dbVars, lifeVars>>

-----------------------------------------------------------------------------
(* The bot's process.                                                      *)

Crash ==
  /\ up
  /\ crashes < MaxCrash
  /\ crashes' = crashes + 1
  /\ Ends
  /\ UNCHANGED <<panicked, handled, audits, announced, dbVars>>

\* Fault: the tailer is given the configured position.
TailFromConfig(loaded) == initial
TailFrom(loaded) == loaded

\* Fault: the position saved is not looked at.
LoadNothing == initial
Load == IF db # 0 THEN db ELSE initial

\* Info's NewFunc: the position saved, if there is one, is where to go on.
Start ==
  /\ ~up /\ ~panicked
  /\ up' = TRUE
  /\ mrp' = Load
  /\ lastItem' = TailFrom(mrp')
  /\ first' = IF db = 0 THEN initial ELSE first
  /\ saveFailed' = FALSE
  /\ UNCHANGED <<tail, target, interrupted, serverVars, auditVars, saveVars, db,
                 initial, panicked, crashes>>

-----------------------------------------------------------------------------
TailSteps ==
  TailReceive \/ TailEnds \/ NotOnChannel \/ IgnoreItem \/ AuditItem \/ MarkProcessed
SaverSteps == SaverTakes \/ SaverReads \/ Save \/ SaverWakes

Next ==
  \/ SrvNewItems \/ SrvKeepAlive \/ OpenStream \/ StreamFails
  \/ TailSteps \/ SaverSteps \/ Clean \/ Crash \/ Start

\* The goroutines run, fetching and sending end, and the API can be reached in
\* the end.  Nothing is assumed of when the bot is started.
Fairness == WF_vars(OpenStream) /\ WF_vars(TailSteps) /\ WF_vars(SaverSteps)

Spec == Init /\ [][Next]_vars /\ Fairness

-----------------------------------------------------------------------------
\* No item is skipped: of those from where tailing began, all that are behind
\* the tailer, and all up to the position saved, were looked at or given up,
\* whatever crashes and lost events there were.
NoneSkipped ==
  \A i \in Items :
    first # 0 /\ i >= first /\ (i < lastItem \/ i <= db) => i \in handled

\* An item is looked at again only after a crash, and only if the position saved
\* is not beyond it.
OnlyUnsavedRepeated ==
  [][\A i \in Items : audits'[i] > audits[i] => audits[i] <= crashes /\ i >= db]_vars

\* setMostRecentProcessed's claim that a decrease "should not be possible".
NoPanic == ~panicked

\* Every position reached is saved, also if it changes while an earlier one is
\* being saved or the saver sleeps, unless saving fails or the bot ends.
PositionSaved ==
  \A n \in Items : up /\ mrp = n /\ n # initial ~> db >= n \/ saveFailed \/ ~up

\* The tailer gets to what is newest, also if the stream fails between events,
\* unless the bot is not on the channel, or ends.
CatchesUp == \A n \in Items : up /\ max = n ~> lastItem >= n \/ interrupted \/ ~up

(* What the documentation says of it.                                      *)

\* hdlhn.go:273: "any item posted by this user [...] results in a notification
\* to the specified nick. This is independent of NotifyPattern."
UserAnnounced == \A i \in ByUser : audits[i] > 0 => i \in announced
=============================================================================
