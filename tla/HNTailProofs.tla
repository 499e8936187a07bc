---------------------------- MODULE HNTailProofs ----------------------------
(***************************************************************************)
(* Proofs about HNTail: for any number of items, crashes and lost streams  *)
(* the tailer skips nothing and repeats only what was not saved.           *)
(***************************************************************************)
EXTENDS HNTail, TLAPS

\* Nothing but the database survives the end of the process, and a stream that is
\* not open has no events.
LifeInv ==
  /\ up \/ (~open /\ tail = "wait" /\ lastItem = 0 /\ mrp = 0 /\ ~token
            /\ saver = "wait" /\ oldMRP = 0)
  /\ open \/ wire = <<>>
  /\ ~up \/ ~panicked

\* The positions are in order: saved, read by the saver, processed, the tailer's.
OrderInv ==
  /\ oldMRP <= mrp /\ mrp <= lastItem
  /\ up => db <= mrp
  /\ tail = "loop" /\ lastItem = 0 => target = 0
  /\ tail = "mark" => lastItem \in handled /\ lastItem < target

\* Everything from where tailing began up to n was looked at or given up.
DoneTo(n) == \A i \in Items : first # 0 /\ i >= first /\ i <= n => i \in handled

\* What may still be saved is done.
DoneInv ==
  /\ NoneSkipped
  /\ DoneTo(oldMRP)
  /\ token \/ saver = "read" => DoneTo(mrp)

\* What is ahead of the tailer was not looked at in this life of the bot.
AuditInv ==
  /\ \A i \in Items : audits[i] <= crashes + 1
  /\ ~panicked => \A i \in Items : i >= lastItem /\ ~(tail = "mark" /\ i = lastItem) => audits[i] <= crashes

TailInv == TypeOK /\ LifeInv /\ OrderInv /\ DoneInv /\ AuditInv

\* The constants, as the proofs use them.
LEMMA Constants ==
  /\ MaxItem \in Nat /\ MaxItem >= 1 /\ MaxCrash \in Nat /\ MaxDrops \in Nat
  /\ Initials \subseteq Numbers
  /\ Items = {i \in Nat : 1 <= i /\ i <= MaxItem}
  /\ Numbers = {i \in Nat : i <= MaxItem}
BY BoundsAssumption, ItemsAssumption DEF Items, Numbers

\* TypeOK, one variable at a time.
Types ==
  /\ max \in Numbers /\ initial \in Numbers /\ lastItem \in Numbers /\ target \in Numbers
  /\ mrp \in Numbers /\ oldMRP \in Numbers /\ db \in Numbers /\ first \in Numbers
  /\ open \in BOOLEAN /\ again \in BOOLEAN /\ up \in BOOLEAN /\ panicked \in BOOLEAN
  /\ interrupted \in BOOLEAN /\ token \in BOOLEAN /\ saveFailed \in BOOLEAN
  /\ wire \in Seq(Numbers)
  /\ drops \in 0..MaxDrops /\ crashes \in 0..MaxCrash
  /\ tail \in {"wait", "loop", "mark"}
  /\ saver \in {"wait", "read", "save", "sleep"}
  /\ watching \subseteq announced /\ announced \subseteq handled /\ handled \subseteq Items
  /\ audits \in [Items -> 0..MaxCrash + 1]

\* The type invariant, part by part.
LEMMA TypesAre == (TypeOK <=> Types) /\ (TypeOK' <=> Types')
BY Zenon DEF TypeOK, Types

\* The events on the stream are numbers of items, or 0.
LEMMA WireTyped == TypeOK /\ [Next]_vars => wire' \in Seq(Numbers)
<1> SUFFICES ASSUME TypeOK, [Next]_vars
             PROVE  wire' \in Seq(Numbers)
  OBVIOUS
<1>1. wire \in Seq(Numbers) /\ max \in Numbers /\ max' \in Numbers /\ 0 \in Numbers
  <2>1. wire \in Seq(Numbers) /\ max \in Numbers /\ 0 \in Numbers
    BY Constants DEF TypeOK
  <2>2. max' \in Numbers
    BY <2>1, Constants
    DEF Next, TailSteps, SaverSteps, SrvNewItems, SrvKeepAlive, OpenStream, StreamFails,
        TailReceive, Deliver, TailEnds, NotOnChannel, IgnoreItem, AuditItem, MarkProcessed,
        Panics, Ends, SaverTakes, SaverReads, Save, SaverWakes, Clean, Crash, Start,
        serverVars, vars, Numbers, Working
  <2>3. QED
    BY <2>1, <2>2
<1>2. \/ wire' = wire \/ wire' = <<>> \/ wire' = <<0>> \/ wire' = <<max>>
      \/ wire' = Append(wire, max')
      \/ wire # <<>> /\ wire' = Tail(wire)
  BY DEF Next, TailSteps, SaverSteps, SrvNewItems, SrvKeepAlive, OpenStream, StreamFails,
        TailReceive, Deliver, TailEnds, NotOnChannel, IgnoreItem, AuditItem, MarkProcessed,
        Panics, Ends, SaverTakes, SaverReads, Save, SaverWakes, Clean, Crash, Start,
        serverVars, vars
<1>3. CASE wire' = <<>> \/ wire' = <<0>> \/ wire' = <<max>>
  <2>1. \A n \in Numbers : <<n>> \in Seq(Numbers)
    OBVIOUS
  <2>2. <<>> \in Seq(Numbers)
    OBVIOUS
  <2>3. QED
    BY <1>1, <1>3, <2>1, <2>2
<1>4. CASE wire' = Append(wire, max')
  BY <1>1, <1>4
<1>5. CASE wire # <<>> /\ wire' = Tail(wire)
  BY <1>1, <1>5
<1>6. QED
  BY <1>1, <1>2, <1>3, <1>4, <1>5

\* The invariant holds initially: nothing has happened yet.
LEMMA InvInit == Init => TailInv
<1> SUFFICES ASSUME Init
             PROVE  TailInv
  OBVIOUS
<1>1. TypeOK
  <2>1. wire \in Seq(Numbers) /\ audits \in [Items -> 0..MaxCrash + 1]
    BY Constants DEF Init
  <2>2. /\ max \in Numbers /\ initial \in Numbers /\ 0 \in Numbers
        /\ drops \in 0..MaxDrops /\ crashes \in 0..MaxCrash
    BY Constants DEF Init
  <2>3. QED
    BY <2>1, <2>2, TypesAre DEF Init, Types
<1>2. LifeInv /\ OrderInv /\ AuditInv
  BY DEF Init, LifeInv, OrderInv, AuditInv
<1>3. DoneInv
  BY DEF Init, DoneInv, NoneSkipped, DoneTo
<1>4. QED
  BY <1>1, <1>2, <1>3 DEF TailInv

\* Steps of the server and of the stream, and the cleaning of the watch list,
\* leave the tailer's and the saver's state alone.
LEMMA StreamStep ==
  TailInv /\ (SrvNewItems \/ SrvKeepAlive \/ OpenStream \/ StreamFails \/ Clean) => TailInv'
<1> SUFFICES ASSUME TailInv, SrvNewItems \/ SrvKeepAlive \/ OpenStream \/ StreamFails \/ Clean
             PROVE  TailInv'
  OBVIOUS
<1>1. wire' \in Seq(Numbers)
  BY WireTyped DEF TailInv, Next
<1>2. Types
  BY TypesAre DEF TailInv
<1>3. /\ UNCHANGED <<lifeVars, tailVars, handled, audits, announced, mrp, saveVars, dbVars>>
      /\ watching' \subseteq watching
  BY DEF SrvNewItems, SrvKeepAlive, OpenStream, StreamFails, Clean, auditVars, tailVars
<1>4. /\ max' \in Numbers /\ drops' \in 0..MaxDrops
      /\ open' \in BOOLEAN /\ again' \in BOOLEAN
      /\ up \/ ~open'
      /\ open' \/ wire' = <<>>
  <2> USE <1>2, Constants DEF TailInv, Types, LifeInv
  <2>1. CASE SrvNewItems
    BY <2>1 DEF SrvNewItems, lifeVars
  <2>2. CASE SrvKeepAlive \/ OpenStream
    BY <2>2 DEF SrvKeepAlive, OpenStream, lifeVars
  <2>3. CASE StreamFails
    <3>1. drops' \in 0..MaxDrops
      BY <2>3 DEF StreamFails
    <3>2. ~open' /\ ~again' /\ wire' = <<>> /\ max' = max
      BY <2>3 DEF StreamFails
    <3>3. open' \in BOOLEAN /\ again' \in BOOLEAN
      BY <2>3 DEF StreamFails
    <3>4. QED
      BY <3>1, <3>2, <3>3
  <2>4. CASE Clean
    BY <2>4 DEF Clean, serverVars
  <2>5. QED
    BY <2>1, <2>2, <2>3, <2>4
<1>a. TypeOK'
  BY <1>1, <1>2, <1>3, <1>4, TypesAre DEF Types, lifeVars, tailVars, saveVars, dbVars
<1>b. LifeInv' /\ OrderInv'
  BY <1>3, <1>4 DEF TailInv, LifeInv, OrderInv, lifeVars, tailVars, saveVars, dbVars
<1>c. DoneInv' /\ AuditInv'
  BY <1>3 DEF TailInv, DoneInv, AuditInv, NoneSkipped, DoneTo, lifeVars, tailVars, saveVars, dbVars
<1>d. QED
  BY <1>a, <1>b, <1>c DEF TailInv

\* A received event sets the target, and the position if there is none: then
\* nothing was saved either.
LEMMA ReceiveStep == TailInv /\ TailReceive => TailInv'
<1> SUFFICES ASSUME TailInv, TailReceive
             PROVE  TailInv'
  OBVIOUS
<1>1. wire' \in Seq(Numbers)
  BY WireTyped DEF TailInv, Next, TailSteps
<1>2. Types
  BY TypesAre DEF TailInv
<1>3. /\ tail = "wait" /\ tail' = "loop"
      /\ UNCHANGED <<auditVars, mrp, saveVars, dbVars, lifeVars, max, open, drops>>
  BY DEF TailReceive, Deliver
<1>4. up /\ open
  BY DEF TailInv, LifeInv, TailReceive
<1>5. target' \in Numbers
  BY <1>2 DEF TailReceive, Types
<1>6. /\ lastItem = 0 => lastItem' = target' /\ first' = target'
      /\ lastItem # 0 => lastItem' = lastItem /\ first' = first
  BY DEF TailReceive, StartingAt
<1>7. again' \in BOOLEAN /\ interrupted' \in BOOLEAN
  BY DEF TailReceive, Deliver
<1>a. TypeOK'
  BY <1>1, <1>2, <1>3, <1>5, <1>6, <1>7, TypesAre DEF Types, lifeVars, auditVars, saveVars, dbVars
<1>b. LifeInv'
  BY <1>3, <1>4 DEF TailInv, LifeInv, lifeVars
<1>c. OrderInv'
  BY <1>2, <1>3, <1>5, <1>6, Constants
  DEF TailInv, OrderInv, Types, lifeVars, auditVars, saveVars, dbVars
<1>d. DoneInv'
  <2>1. CASE lastItem # 0
    BY <1>3, <1>6, <2>1 DEF TailInv, DoneInv, NoneSkipped, DoneTo, auditVars, saveVars, dbVars
  <2>2. CASE lastItem = 0
    <3>1. mrp = 0 /\ oldMRP = 0 /\ db = 0
      BY <1>2, <1>4, <2>2, Constants DEF TailInv, OrderInv, Types
    <3>2. QED
      BY <1>2, <1>3, <1>5, <1>6, <2>2, <3>1, Constants
      DEF DoneInv, NoneSkipped, DoneTo, Types, auditVars, saveVars, dbVars
  <2>3. QED
    BY <2>1, <2>2
<1>e. AuditInv'
  BY <1>2, <1>3, <1>5, <1>6, Constants DEF TailInv, AuditInv, Types, auditVars, lifeVars
<1>f. QED
  BY <1>a, <1>b, <1>c, <1>d, <1>e DEF TailInv

\* The tailer reaches its target, gives up, or ignores an item.
LEMMA LoopStep == TailInv /\ (TailEnds \/ NotOnChannel \/ IgnoreItem) => TailInv'
<1> SUFFICES ASSUME TailInv, TailEnds \/ NotOnChannel \/ IgnoreItem
             PROVE  TailInv'
  OBVIOUS
<1>1. Types
  BY TypesAre DEF TailInv
<1>2. CASE TailEnds \/ NotOnChannel
  <2>1. /\ tail = "loop" /\ tail' = "wait" /\ interrupted' \in BOOLEAN
        /\ UNCHANGED <<lastItem, target, first, serverVars, auditVars, mrp, saveVars, dbVars, lifeVars>>
    BY <1>1, <1>2 DEF TailEnds, NotOnChannel, Working, Types
  <2>2. TypeOK'
    BY <1>1, <2>1, TypesAre DEF Types, lifeVars, auditVars, saveVars, dbVars, serverVars
  <2>3. LifeInv' /\ OrderInv'
    BY <2>1 DEF TailInv, LifeInv, OrderInv, lifeVars, auditVars, saveVars, dbVars, serverVars
  <2>4. DoneInv' /\ AuditInv'
    BY <2>1 DEF TailInv, DoneInv, AuditInv, NoneSkipped, DoneTo, lifeVars, auditVars, saveVars, dbVars
  <2>5. QED
    BY <2>2, <2>3, <2>4 DEF TailInv
<1>3. CASE IgnoreItem
  <2>1. /\ tail = "loop" /\ lastItem' = lastItem + 1 /\ handled' = handled \cup {lastItem}
        /\ UNCHANGED <<tail, target, interrupted, first, watching, audits, announced,
                       serverVars, mrp, saveVars, dbVars, lifeVars>>
    BY <1>3 DEF IgnoreItem, Working
  <2>2. lastItem \in Items /\ lastItem < target /\ lastItem + 1 \in Numbers
    BY <1>1, <1>3, Constants DEF TailInv, OrderInv, IgnoreItem, Working, CaughtUp, Types
  <2>3. TypeOK'
    BY <1>1, <2>1, <2>2, TypesAre DEF Types, lifeVars, saveVars, dbVars, serverVars
  <2>4. LifeInv' /\ OrderInv'
    BY <1>1, <2>1, <2>2, Constants
    DEF TailInv, LifeInv, OrderInv, Types, lifeVars, saveVars, dbVars, serverVars
  <2>5. DoneInv'
    BY <1>1, <2>1, <2>2, Constants
    DEF TailInv, DoneInv, NoneSkipped, DoneTo, Types, saveVars, dbVars
  <2>6. AuditInv'
    BY <1>1, <2>1, <2>2, Constants DEF TailInv, AuditInv, Types, lifeVars
  <2>7. QED
    BY <2>3, <2>4, <2>5, <2>6 DEF TailInv
<1>4. QED
  BY <1>2, <1>3

\* Nothing is left of the process but the database and what history tells.
LEMMA EndsKeep ==
  ASSUME TailInv, Ends, crashes' \in 0..MaxCrash, panicked' \in BOOLEAN,
         UNCHANGED dbVars, handled \subseteq handled', handled' \subseteq Items, announced' = announced,
         audits' \in [Items -> 0..MaxCrash + 1],
         \A i \in Items : audits'[i] <= crashes' + 1,
         ~panicked' => \A i \in Items : audits'[i] <= crashes'
  PROVE  TailInv'
<1>1. Types
  BY TypesAre DEF TailInv
<1>2. 0 \in Numbers /\ <<>> \in Seq(Numbers)
  BY Constants
<1>3. TypeOK'
  BY <1>1, <1>2, TypesAre DEF Types, Ends, dbVars
<1>4. LifeInv' /\ OrderInv'
  BY DEF Ends, LifeInv, OrderInv
<1>5. DoneInv'
  BY <1>1, Constants DEF TailInv, Ends, DoneInv, NoneSkipped, DoneTo, Types, dbVars
<1>6. AuditInv'
  BY DEF Ends, AuditInv
<1>7. QED
  BY <1>3, <1>4, <1>5, <1>6 DEF TailInv

\* An item is looked at: for the first time in this life of the bot, and not
\* before the position saved.
LEMMA AuditStep ==
  TailInv /\ AuditItem
    => /\ TailInv'
       /\ \A i \in Items : audits'[i] > audits[i] => audits[i] <= crashes /\ i >= db
<1> SUFFICES ASSUME TailInv, AuditItem
             PROVE  /\ TailInv'
                    /\ \A i \in Items : audits'[i] > audits[i] => audits[i] <= crashes /\ i >= db
  OBVIOUS
<1>1. Types
  BY TypesAre DEF TailInv
<1>2. /\ tail = "loop" /\ up /\ ~panicked
      /\ handled' = handled \cup {lastItem}
      /\ audits' = [audits EXCEPT ![lastItem] = @ + 1]
      /\ UNCHANGED dbVars
  BY DEF TailInv, LifeInv, AuditItem, Working
<1>3. lastItem \in Items /\ lastItem < target
  BY <1>1, Constants DEF TailInv, OrderInv, AuditItem, Working, CaughtUp, Types
<1>4. audits[lastItem] <= crashes /\ lastItem >= db
  BY <1>1, <1>2, <1>3, Constants DEF TailInv, AuditInv, OrderInv, Types
<1>5. /\ audits' \in [Items -> 0..MaxCrash + 1]
      /\ \A i \in Items : audits'[i] <= crashes + 1
      /\ \A i \in Items : i # lastItem => audits'[i] = audits[i]
  <2>1. audits[lastItem] + 1 \in 0..MaxCrash + 1 /\ audits[lastItem] + 1 <= crashes + 1
    BY <1>1, <1>3, <1>4, Constants DEF Types
  <2>2. QED
    BY <1>1, <1>2, <1>3, <2>1 DEF Types, TailInv, AuditInv
<1>6. handled \subseteq handled' /\ handled' \subseteq Items
  BY <1>1, <1>2, <1>3 DEF Types
<1>7. TailInv'
  <2>1. CASE CannotFormat(lastItem)
    <3>1. Ends /\ panicked' = TRUE /\ crashes' = crashes /\ announced' = announced
      BY <2>1 DEF AuditItem, Panics
    <3>2. crashes' \in 0..MaxCrash
      BY <1>1, <3>1 DEF Types
    <3>3. QED
      BY <1>2, <1>5, <1>6, <3>1, <3>2, EndsKeep
  <2>2. CASE ~CannotFormat(lastItem)
    <3>1. /\ tail' = "mark"
          /\ UNCHANGED <<lastItem, target, interrupted, first, serverVars, mrp, saveVars, lifeVars, dbVars>>
          /\ watching' \subseteq announced' /\ announced' \subseteq handled'
      BY <1>1, <1>2, <2>2 DEF AuditItem, Types
    <3>2. TypeOK'
      BY <1>1, <1>5, <1>6, <3>1, TypesAre DEF Types, serverVars, saveVars, lifeVars, dbVars
    <3>3. LifeInv'
      BY <1>2, <3>1 DEF TailInv, LifeInv, lifeVars, saveVars, serverVars
    <3>4. OrderInv'
      BY <1>2, <1>3, <3>1 DEF TailInv, OrderInv, lifeVars, saveVars, dbVars
    <3>5. DoneInv'
      BY <1>2, <3>1 DEF TailInv, DoneInv, NoneSkipped, DoneTo, saveVars, dbVars
    <3>6. AuditInv'
      BY <1>2, <1>3, <1>5, <3>1 DEF TailInv, AuditInv, lifeVars
    <3>7. QED
      BY <3>2, <3>3, <3>4, <3>5, <3>6 DEF TailInv
  <2>3. QED
    BY <2>1, <2>2
<1>8. \A i \in Items : audits'[i] > audits[i] => i = lastItem
  BY <1>1, <1>5 DEF Types
<1>9. QED
  BY <1>4, <1>7, <1>8

\* The position follows the tailer, and never has to decrease.
LEMMA MarkStep == TailInv /\ MarkProcessed => TailInv' /\ UNCHANGED <<panicked, audits>>
<1> SUFFICES ASSUME TailInv, MarkProcessed
             PROVE  TailInv' /\ UNCHANGED <<panicked, audits>>
  OBVIOUS
<1>1. Types
  BY TypesAre DEF TailInv
<1>2. tail = "mark" /\ ~(mrp > lastItem) /\ up
  BY <1>1, Constants DEF TailInv, OrderInv, LifeInv, MarkProcessed, Types
<1>3. /\ mrp' = lastItem /\ token' = TRUE /\ lastItem' = lastItem + 1 /\ tail' = "loop"
      /\ UNCHANGED <<target, interrupted, first, serverVars, auditVars, saver, oldMRP, lifeVars, dbVars>>
  BY <1>2 DEF MarkProcessed, Signal, auditVars
<1>4. lastItem \in handled /\ lastItem \in Items /\ lastItem < target /\ lastItem + 1 \in Numbers
  BY <1>1, <1>2, Constants DEF TailInv, OrderInv, Types
<1>5. TypeOK'
  BY <1>1, <1>3, <1>4, TypesAre DEF Types, serverVars, auditVars, lifeVars, dbVars
<1>6. LifeInv'
  BY <1>2, <1>3 DEF TailInv, LifeInv, lifeVars, serverVars
<1>7. OrderInv'
  BY <1>1, <1>2, <1>3, <1>4, Constants DEF TailInv, OrderInv, Types, lifeVars, dbVars
<1>8. DoneInv'
  BY <1>1, <1>2, <1>3, <1>4, Constants
  DEF TailInv, OrderInv, DoneInv, NoneSkipped, DoneTo, Types, auditVars, dbVars
<1>9. AuditInv'
  BY <1>1, <1>2, <1>3, <1>4, Constants DEF TailInv, AuditInv, Types, auditVars, lifeVars
<1>10. QED
  BY <1>3, <1>5, <1>6, <1>7, <1>8, <1>9 DEF TailInv, lifeVars, auditVars

\* The saver saves what it read, of which everything is done.
LEMMA SaverStep == TailInv /\ SaverSteps => TailInv'
<1> SUFFICES ASSUME TailInv, SaverSteps
             PROVE  TailInv'
  OBVIOUS
<1>1. Types
  BY TypesAre DEF TailInv
<1>2. /\ UNCHANGED <<serverVars, tailVars, auditVars, mrp, lifeVars>>
      /\ up
      /\ token' \in BOOLEAN /\ (token' => token)
      /\ saver' \in {"wait", "read", "save", "sleep"}
      /\ saver' = "read" => token \/ saver = "read"
      /\ saveFailed' \in BOOLEAN
      /\ oldMRP' = oldMRP \/ (saver = "read" /\ oldMRP' = mrp)
      /\ db' = db \/ (db' = oldMRP /\ oldMRP' = oldMRP)
  <2> USE <1>1 DEF TailInv, LifeInv, Types
  <2>1. CASE SaverTakes
    BY <2>1 DEF SaverTakes, dbVars
  <2>2. CASE SaverReads
    BY <2>2 DEF SaverReads, dbVars
  <2>3. CASE Save
    BY <2>3 DEF Save
  <2>4. CASE SaverWakes
    BY <2>4 DEF SaverWakes, dbVars
  <2>5. QED
    BY <2>1, <2>2, <2>3, <2>4 DEF SaverSteps
<1>3. TypeOK'
  BY <1>1, <1>2, TypesAre DEF Types, serverVars, tailVars, auditVars, lifeVars
<1>4. LifeInv'
  BY <1>2 DEF TailInv, LifeInv, serverVars, tailVars, lifeVars
<1>5. OrderInv'
  BY <1>1, <1>2, Constants DEF TailInv, OrderInv, Types, tailVars, auditVars, lifeVars
<1>6. DoneInv'
  BY <1>1, <1>2, Constants DEF TailInv, DoneInv, NoneSkipped, DoneTo, Types, tailVars, auditVars
<1>7. AuditInv'
  BY <1>2 DEF TailInv, AuditInv, tailVars, auditVars, lifeVars
<1>8. QED
  BY <1>3, <1>4, <1>5, <1>6, <1>7 DEF TailInv

\* A crash starts a new life, in which every item may be looked at once more.
LEMMA CrashStep == TailInv /\ Crash => TailInv'
<1> SUFFICES ASSUME TailInv, Crash
             PROVE  TailInv'
  OBVIOUS
<1>1. Types
  BY TypesAre DEF TailInv
<1>2. /\ Ends /\ crashes' = crashes + 1 /\ crashes < MaxCrash
      /\ UNCHANGED <<panicked, handled, audits, announced, dbVars>>
  BY DEF Crash
<1>3. crashes' \in 0..MaxCrash
  BY <1>1, <1>2, Constants DEF Types
<1>4. \A i \in Items : audits'[i] <= crashes' + 1 /\ audits'[i] <= crashes'
  BY <1>1, <1>2, Constants DEF TailInv, AuditInv, Types
<1>5. QED
  BY <1>1, <1>2, <1>3, <1>4, EndsKeep DEF Types

\* The bot goes on from the position saved, or begins.
LEMMA StartStep == TailInv /\ Start => TailInv'
<1> SUFFICES ASSUME TailInv, Start
             PROVE  TailInv'
  OBVIOUS
<1>1. Types
  BY TypesAre DEF TailInv
<1>2. /\ ~up /\ ~panicked /\ up'
      /\ mrp' = Load /\ lastItem' = Load
      /\ first' = IF db = 0 THEN initial ELSE first
      /\ saveFailed' = FALSE
      /\ UNCHANGED <<tail, target, interrupted, serverVars, auditVars, saveVars, db,
                     initial, panicked, crashes>>
  BY DEF Start, TailFrom
<1>3. up' \in BOOLEAN
  BY DEF Start
<1>4. Load \in Numbers /\ (db # 0 => Load = db) /\ (db = 0 => Load = initial)
  BY <1>1 DEF Load, Types
<1>5. /\ tail = "wait" /\ lastItem = 0 /\ mrp = 0 /\ ~token /\ saver = "wait" /\ oldMRP = 0
      /\ ~open /\ wire = <<>>
  BY <1>2 DEF TailInv, LifeInv
<1>6. TypeOK'
  BY <1>1, <1>2, <1>3, <1>4, TypesAre DEF Types, serverVars, auditVars, saveVars
<1>7. LifeInv' /\ OrderInv'
  BY <1>1, <1>2, <1>4, <1>5, Constants
  DEF TailInv, LifeInv, OrderInv, Types, serverVars, auditVars, saveVars
<1>8. DoneInv'
  BY <1>1, <1>2, <1>4, <1>5, Constants
  DEF TailInv, DoneInv, NoneSkipped, DoneTo, Types, auditVars, saveVars
<1>9. AuditInv'
  BY <1>1, <1>2, <1>4, <1>5, Constants DEF TailInv, AuditInv, Types, auditVars
<1>10. QED
  BY <1>6, <1>7, <1>8, <1>9 DEF TailInv

\* Every step keeps the invariant, and looks only at what was not saved.
LEMMA InvStep ==
  TailInv /\ [Next]_vars
    => /\ TailInv'
       /\ \A i \in Items : audits'[i] > audits[i] => audits[i] <= crashes /\ i >= db
<1> SUFFICES ASSUME TailInv, [Next]_vars
             PROVE  /\ TailInv'
                    /\ \A i \in Items : audits'[i] > audits[i] => audits[i] <= crashes /\ i >= db
  OBVIOUS
<1>1. TailInv'
  <2>1. CASE SrvNewItems \/ SrvKeepAlive \/ OpenStream \/ StreamFails \/ Clean
    BY <2>1, StreamStep
  <2>2. CASE TailReceive
    BY <2>2, ReceiveStep
  <2>3. CASE TailEnds \/ NotOnChannel \/ IgnoreItem
    BY <2>3, LoopStep
  <2>4. CASE AuditItem
    BY <2>4, AuditStep
  <2>5. CASE MarkProcessed
    BY <2>5, MarkStep
  <2>6. CASE SaverSteps
    BY <2>6, SaverStep
  <2>7. CASE Crash
    BY <2>7, CrashStep
  <2>8. CASE Start
    BY <2>8, StartStep
  <2>9. CASE UNCHANGED vars
    <3>1. /\ UNCHANGED <<serverVars, tailVars, auditVars, mrp, saveVars, dbVars, lifeVars>>
          /\ Types
      BY <2>9, TypesAre DEF vars, TailInv
    <3>2. TypeOK'
      BY <3>1, TypesAre
      DEF Types, serverVars, tailVars, auditVars, saveVars, dbVars, lifeVars
    <3>3. LifeInv' /\ OrderInv' /\ DoneInv' /\ AuditInv'
      BY <3>1 DEF TailInv, LifeInv, OrderInv, DoneInv, AuditInv, NoneSkipped, DoneTo,
                  serverVars, tailVars, auditVars, saveVars, dbVars, lifeVars
    <3>4. QED
      BY <3>2, <3>3 DEF TailInv
  <2>10. QED
    BY <2>1, <2>2, <2>3, <2>4, <2>5, <2>6, <2>7, <2>8, <2>9 DEF Next, TailSteps
<1>2. AuditItem \/ UNCHANGED audits
  BY MarkStep DEF Next, TailSteps, SaverSteps, SrvNewItems, SrvKeepAlive, OpenStream, StreamFails, Clean,
      TailReceive, TailEnds, NotOnChannel, IgnoreItem, SaverTakes, SaverReads, Save, SaverWakes,
      Crash, Start, vars, auditVars
<1>3. CASE AuditItem
  BY <1>1, <1>3, AuditStep
<1>4. CASE UNCHANGED audits
  <2>1. \A i \in Items : audits[i] \in Nat
    BY TypesAre, Constants DEF TailInv, Types
  <2>2. QED
    BY <1>1, <1>4, <2>1
<1>5. QED
  BY <1>2, <1>3, <1>4

\* The inductive invariant: the positions are in order, what may be saved is
\* done, and what is ahead was not looked at in this life of the bot.
THEOREM Invariance == Spec => []TailInv
BY InvInit, InvStep, PTL DEF Spec

\* The state of the stream, the tailer, the saver and the database keeps its
\* types.
THEOREM TypeCorrect == Spec => []TypeOK
<1>1. TailInv => TypeOK
  BY DEF TailInv
<1>2. QED
  BY <1>1, Invariance, PTL

\* No item is skipped, over any number of crashes, lost streams and failed saves.
THEOREM NothingSkipped == Spec => []NoneSkipped
<1>1. TailInv => NoneSkipped
  BY DEF TailInv, DoneInv
<1>2. QED
  BY <1>1, Invariance, PTL

\* An item is looked at again only after a crash, and only if the position saved
\* is not beyond it.
THEOREM RepeatsOnlyUnsaved == Spec => OnlyUnsavedRepeated
<1>1. TailInv /\ [Next]_vars
        => [\A i \in Items : audits'[i] > audits[i] => audits[i] <= crashes /\ i >= db]_vars
  BY InvStep
<1>2. QED
  BY <1>1, Invariance, PTL DEF Spec, OnlyUnsavedRepeated

\* With a pattern configured the position never has to decrease, and nothing else
\* panics.
THEOREM PanicFree == ASSUME Pattern PROVE Spec => []NoPanic
<1>1. Init => NoPanic
  BY DEF Init, NoPanic
<1>2. TailInv /\ NoPanic /\ [Next]_vars => NoPanic'
  <2> SUFFICES ASSUME TailInv, NoPanic, [Next]_vars
               PROVE  UNCHANGED panicked
    BY DEF NoPanic
  <2>1. CASE AuditItem
    BY <2>1, Pattern DEF AuditItem, CannotFormat, lifeVars
  <2>2. CASE MarkProcessed
    BY <2>2, MarkStep
  <2>3. QED
    BY <2>1, <2>2
    DEF Next, TailSteps, SaverSteps, SrvNewItems, SrvKeepAlive, OpenStream, StreamFails, Clean,
        TailReceive, TailEnds, NotOnChannel, IgnoreItem, SaverTakes, SaverReads, Save, SaverWakes,
        Crash, Start, vars, lifeVars
<1>3. QED
  BY <1>1, <1>2, Invariance, PTL DEF Spec
=============================================================================
