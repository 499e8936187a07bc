-------------------------- MODULE NegotiateProofs --------------------------
(***************************************************************************)
(* Proofs about Negotiate: whatever capabilities there are and however     *)
(* many of them fit in a request, however often the server refuses a       *)
(* nickname and whatever it supports, client and server agree in the end,  *)
(* and authentication is neither skipped nor mixed up.                     *)
(***************************************************************************)
EXTENDS Negotiate, FiniteSetTheorems, SequenceTheorems, TLAPS

Active == phase \notin {"draining", "failed"}

\* Commands waiting for the server, and messages on their way to the client.
Waiting(cmds) == {i \in DOMAIN c2s : c2s[i].cmd \in cmds}
Flight == Len(allReadMsgs) + 1..Len(sent)
Flying(cmds) == {n \in Flight : sent[n].cmd \in cmds}

ReqCommands == [cmd : {"CAP REQ"}, caps : SUBSET Caps]
Commands ==
  [cmd : {"CAP LS", "USER", "CAP END"}] \cup [cmd : {"NICK"}, nick : Nat]
    \cup ReqCommands \cup [cmd : {"AUTHENTICATE", "RESPONSE"}, method : Methods]

\* A message that was read may have lost its command.
Bare == [cmd : {"421", "433", "001", "902", "903", "904", "AUTHENTICATE",
                "SASL malformed", ""}]
Listing == [cmd : {"CAP LS", ""}, caps : SUBSET Caps, more : BOOLEAN,
            value : MethodLists \cup {NoValue}]
Ruling == [cmd : {"CAP ACK", "CAP NAK", "CAP malformed", ""}, caps : SUBSET Caps]
Naming == [cmd : {"908", ""}, methods : MethodLists]
Messages == Bare \cup Listing \cup Ruling \cup Naming

Cfgs == [inhibitCap : BOOLEAN, desired : SUBSET (Caps \ {"sasl"}), sasl : BOOLEAN,
         mechs : MethodLists]
Engines == [methods : {<<>>, <<"EXTERNAL">>, <<"PLAIN">>, Preference}, idx : 0..2, made : BOOLEAN]
Servers ==
  [cap : {"none", "active", "ended"}, user : BOOLEAN, named : BOOLEAN, nick : Nat,
   refusals : Nat, enabled : SUBSET Caps, mech : Methods \cup {"none"},
   refused : SUBSET Methods, auth : BOOLEAN, welcomed : BOOLEAN]

ClientTypes ==
  /\ cfg \in Cfgs
  /\ phase \in Phases
  /\ desiredCaps \in [Wanted(cfg) -> Statuses]
  /\ supported \subseteq Caps
  /\ capValue \in MethodLists \cup {NoValue}
  /\ engine \in Engines /\ engine.idx <= Len(engine.methods)
  /\ lost \in BOOLEAN
WireTypes ==
  /\ c2s \in Seq(Commands)
  /\ sent \in Seq(Messages) /\ allReadMsgs \in Seq(Messages)
  /\ Len(allReadMsgs) <= Len(sent)
Types == ClientTypes /\ WireTypes /\ srv \in Servers

\* A nickname the server has yet to look at, its refusal, or its acceptance: one
\* of them at a time, for the nickname the client has chosen.
NickInv ==
  /\ chosenNick \in Nat /\ chosenNick <= srv.refusals /\ srv.refusals <= MaxRefusals
  /\ Active =>
       /\ \A i \in Waiting({"NICK"}) : c2s[i].nick = chosenNick
       /\ \A i, j \in Waiting({"NICK"}) : i = j
       /\ \A m, n \in Flying({"433"}) : m = n
       /\ Flying({"433"}) # {} => chosenNick < srv.refusals /\ Waiting({"NICK"}) = {}
       /\ srv.named => /\ srv.nick = chosenNick
                       /\ Waiting({"NICK"}) = {} /\ Flying({"433"}) = {}

\* Where the registration is: the server leaves capabilities only when the client
\* has, which has no request open then and has authenticated if it could.
Answered == "sasl" \in srv.enabled => srv.auth
PastCaps == {"Wait001", "done", "draining", "failed"}
AmidCaps == {"WaitCapAck", "StartSasl", "WaitSasl", "EndCap"}
RegInv ==
  /\ phase = "Start" => c2s = <<>> /\ sent = <<>> /\ srv = SrvInit /\ allReadMsgs = <<>>
  /\ \A i \in Waiting({"CAP LS"}) : i = 1 /\ ~srv.user
  /\ Waiting({"CAP REQ"}) # {} => srv.cap = "active"
  /\ Waiting({"CAP END"}) # {} \/ srv.cap = "ended" =>
       phase \in PastCaps /\ Waiting({"CAP REQ"}) = {} /\ Answered
  /\ srv.cap = "none" => srv.enabled = {} /\ Flying({"CAP LS"}) = {}
  /\ phase \in AmidCaps => srv.cap # "none"
  /\ phase = "EndCap" => Answered
  /\ srv.welcomed => srv.user /\ srv.named /\ srv.cap # "active"
  /\ Flying({"001"}) # {} \/ phase = "done" => srv.welcomed
  /\ Flying({"903"}) # {} => srv.auth

\* A capability is requested while the request or its answer is on its way, once;
\* after that the client has it as the server does.
Asking(c) == {i \in Waiting({"CAP REQ"}) : c \in c2s[i].caps}
Answering(c) == {n \in Flying({"CAP ACK", "CAP NAK"}) : c \in sent[n].caps}
CapStatus(c) ==
  /\ desiredCaps[c] = "requested" => phase = "WaitCapAck"
  /\ desiredCaps[c] # "requested" =>
       /\ Asking(c) = {} /\ Answering(c) = {}
       /\ desiredCaps[c] = "granted" <=> c \in srv.enabled
  /\ \A i, j \in Asking(c) : i = j
  /\ \A m, n \in Answering(c) : m = n
  /\ Asking(c) # {} => Answering(c) = {} /\ c \notin srv.enabled
  /\ \A n \in Answering(c) : sent[n].cmd = "CAP ACK" <=> c \in srv.enabled
CapInv ==
  Active =>
    /\ \A i \in Waiting({"CAP REQ"}) : c2s[i].caps # {} /\ c2s[i].caps \subseteq Wanted(cfg)
    /\ \A n \in Flying({"CAP ACK", "CAP NAK"}) : sent[n].caps \subseteq Wanted(cfg)
    /\ srv.enabled \subseteq Wanted(cfg)
    /\ phase \in {"Start", "WaitCapList"} => \A c \in Wanted(cfg) : desiredCaps[c] = "desired"
    /\ \A c \in Wanted(cfg) : CapStatus(c)

SaslMsgs == {"AUTHENTICATE", "903", "904", "908"}
SaslCmds == {"AUTHENTICATE", "RESPONSE"}

\* The server refused the first k methods of the engine.
Refused(k) == \A j \in 1..k : engine.methods[j] \in srv.refused

\* The client has had its say on the current method, or the server has; and it
\* said "908" and then "904" only if there is a method it does not support.
InTurn ==
  /\ \A i, j \in Waiting(SaslCmds) : i = j
  /\ Waiting(SaslCmds) # {} => Flying(SaslMsgs) = {}
  /\ \A i \in Waiting(SaslCmds) : c2s[i].method = CurMethod(engine)
  /\ \A m, n \in Flying(SaslMsgs) :
       m < n => sent[m].cmd = "908" /\ sent[n].cmd = "904" /\ ToSet(cfg.mechs) # Methods
  /\ Flying({"AUTHENTICATE"}) # {} => srv.mech = CurMethod(engine)
  /\ Flying({"904", "908"}) # {} => Refused(engine.idx)
  /\ \A n \in Flying({"908"}) : sent[n].methods = cfg.mechs
  /\ Refused(engine.idx - 1)

\* The refusal of an earlier method is on its way ahead of anything else about
\* SASL, and there is no other method left to try.
GivesUp ==
  /\ \E n \in Flying({"904"}) : \A m \in Flying(SaslMsgs) : n <= m
  /\ engine.idx = Len(engine.methods) /\ Len(engine.methods) <= 1
  /\ Waiting({"RESPONSE"}) = {}

Silent == Waiting(SaslCmds) = {} /\ Flying(SaslMsgs) = {}
OneMore ==
  /\ Waiting(SaslCmds) = {}
  /\ \E n \in Flying({"904"}) : Flying(SaslMsgs) = {n}
  /\ engine.idx = 0 /\ Len(engine.methods) <= 1

SaslInv ==
  /\ phase \in {"StartSasl", "WaitSasl"} => engine.made
  /\ \A i \in Waiting({"RESPONSE"}) : c2s[i].method = srv.mech
  /\ Waiting({"RESPONSE"}) # {} => \A i, j \in Waiting(SaslCmds) : i = j
  /\ PasswordLast
  /\ phase \in {"Start", "WaitCapList", "WaitCapAck"} => Silent /\ ~engine.made
  /\ phase = "StartSasl" =>
       \/ Silent /\ Refused(engine.idx)
       \/ OneMore
       \/ Exhausted(engine) /\ Waiting({"RESPONSE"}) = {}
  /\ phase = "WaitSasl" => engine.idx > 0 /\ (InTurn \/ GivesUp)

\* The inductive invariant: nicknames, registration, capabilities and
\* authentication.
NegInv == Types /\ NickInv /\ RegInv /\ CapInv /\ SaslInv

-----------------------------------------------------------------------------
(* Sequences.                                                              *)

\* A queue without its head.
LEMMA Receives ==
  ASSUME WireTypes, NEW cmd, Receive(cmd)
  PROVE  /\ Len(c2s) \in Nat /\ Len(c2s) > 0 /\ DOMAIN c2s = 1..Len(c2s)
         /\ Head(c2s) = c2s[1] /\ c2s[1] \in Commands /\ c2s[1].cmd = cmd
         /\ c2s' \in Seq(Commands) /\ DOMAIN c2s' = 1..Len(c2s) - 1
         /\ \A i \in 1..Len(c2s) - 1 : c2s'[i] = c2s[i + 1]
BY DEF Receive, WireTypes

\* A queue to which commands were added.
LEMMA Queues ==
  ASSUME WireTypes, NEW ms \in Seq(Commands), c2s' = c2s \o ms
  PROVE  /\ Len(c2s) \in Nat /\ Len(ms) \in Nat
         /\ DOMAIN c2s = 1..Len(c2s) /\ DOMAIN c2s' = 1..Len(c2s) + Len(ms)
         /\ c2s' \in Seq(Commands)
         /\ \A i \in 1..Len(c2s) : c2s'[i] = c2s[i]
         /\ \A j \in 1..Len(ms) : c2s'[Len(c2s) + j] = ms[j]
         /\ \A i \in 1..Len(c2s) + Len(ms) :
              i \in 1..Len(c2s) \/ (\E j \in 1..Len(ms) : i = Len(c2s) + j)
<1>1. c2s \in Seq(Commands) /\ Len(c2s) \in Nat /\ Len(ms) \in Nat
  BY DEF WireTypes
<1>2. /\ c2s' \in Seq(Commands) /\ Len(c2s') = Len(c2s) + Len(ms)
      /\ \A i \in 1..Len(c2s) : c2s'[i] = c2s[i]
      /\ \A j \in 1..Len(ms) : c2s'[Len(c2s) + j] = ms[j]
  BY <1>1
<1>3. \A i \in 1..Len(c2s) + Len(ms) :
        i \in 1..Len(c2s) \/ (\E j \in 1..Len(ms) : i = Len(c2s) + j)
  <2>1. TAKE i \in 1..Len(c2s) + Len(ms)
  <2>2. i \in 1..Len(c2s) \/ (i - Len(c2s) \in 1..Len(ms) /\ i = Len(c2s) + (i - Len(c2s)))
    BY <1>1
  <2>3. QED
    BY <2>2
<1>4. QED
  BY <1>1, <1>2, <1>3

\* Messages on their way and those the server adds.
LEMMA Sends ==
  ASSUME WireTypes, NEW ms \in Seq(Messages), Reply(ms), allReadMsgs' = allReadMsgs
  PROVE  /\ Len(sent) \in Nat /\ Len(ms) \in Nat /\ Len(allReadMsgs) \in Nat
         /\ sent' \in Seq(Messages) /\ Len(sent') = Len(sent) + Len(ms)
         /\ Flight \subseteq Flight'
         /\ \A n \in Flight : sent'[n] = sent[n]
         /\ \A j \in 1..Len(ms) : Len(sent) + j \in Flight' /\ sent'[Len(sent) + j] = ms[j]
         /\ \A n \in Flight' : n \in Flight \/ (\E j \in 1..Len(ms) : n = Len(sent) + j)
<1>1. /\ sent \in Seq(Messages) /\ Len(sent) \in Nat /\ Len(ms) \in Nat
      /\ Len(allReadMsgs) \in Nat /\ Len(allReadMsgs) <= Len(sent)
  BY DEF WireTypes
<1>2. /\ sent' \in Seq(Messages) /\ Len(sent') = Len(sent) + Len(ms)
      /\ \A i \in 1..Len(sent) : sent'[i] = sent[i]
      /\ \A j \in 1..Len(ms) : sent'[Len(sent) + j] = ms[j]
  BY <1>1 DEF Reply
<1>3. /\ Flight \subseteq Flight' /\ Flight \subseteq 1..Len(sent)
      /\ \A j \in 1..Len(ms) : Len(sent) + j \in Flight'
  BY <1>1, <1>2 DEF Flight
<1>4. \A n \in Flight' : n \in Flight \/ (\E j \in 1..Len(ms) : n = Len(sent) + j)
  <2>1. TAKE n \in Flight'
  <2>2. n \in Flight \/ (n - Len(sent) \in 1..Len(ms) /\ n = Len(sent) + (n - Len(sent)))
    BY <1>1, <1>2 DEF Flight
  <2>3. QED
    BY <2>2
<1>5. QED
  BY <1>1, <1>2, <1>3, <1>4

\* The message read is on its way no longer.
LEMMA Reads ==
  ASSUME WireTypes, Read, sent' = sent
  PROVE  /\ Len(allReadMsgs) + 1 \in Flight /\ Msg = sent[Len(allReadMsgs) + 1]
         /\ Msg \in Messages
         /\ allReadMsgs' \in Seq(Messages) /\ Len(allReadMsgs') <= Len(sent')
         /\ Flight' = Flight \ {Len(allReadMsgs) + 1}
         /\ \A n \in Flight' : n > Len(allReadMsgs) + 1
<1>1. /\ sent \in Seq(Messages) /\ Len(sent) \in Nat
      /\ allReadMsgs \in Seq(Messages) /\ Len(allReadMsgs) \in Nat /\ Len(allReadMsgs) < Len(sent)
  BY DEF WireTypes, Read, InFlight
<1>2. Msg \in Messages
  BY <1>1 DEF Msg
<1>3. allReadMsgs' \in Seq(Messages) /\ Len(allReadMsgs') = Len(allReadMsgs) + 1
  BY <1>1, <1>2 DEF Read
<1>4. QED
  BY <1>1, <1>2, <1>3 DEF Flight, Msg

\* Nor is it another one because its command was cleared.
LEMMA Clears ==
  ASSUME WireTypes, ClearCommand
  PROVE  allReadMsgs' \in Seq(Messages) /\ Len(allReadMsgs') = Len(allReadMsgs)
<1> DEFINE r == Len(allReadMsgs)
<1>1. allReadMsgs \in Seq(Messages) /\ r \in Nat
  BY DEF WireTypes
<1>2. \A m \in Messages : [m EXCEPT !.cmd = ""] \in Messages
  BY DEF Messages, Bare, Listing, Ruling, Naming
<1>3. r \in 1..r => allReadMsgs[r] \in Messages
  BY <1>1
<1> DEFINE e == [allReadMsgs[r] EXCEPT !.cmd = ""]
<1>4. allReadMsgs' = [allReadMsgs EXCEPT ![r] = e]
  BY DEF ClearCommand
<1>5. CASE r = 0
  <2>1. DOMAIN allReadMsgs = {}
    BY <1>1, <1>5
  <2> HIDE DEF e
  <2>2. allReadMsgs' = allReadMsgs
    BY <1>1, <1>4, <2>1
  <2>3. QED
    BY <1>1, <2>2
<1>6. CASE r > 0
  <2>1. r \in 1..Len(allReadMsgs)
    BY <1>1, <1>6
  <2>2. e \in Messages
    BY <1>2, <1>3, <2>1, Zenon
  <2> HIDE DEF e, r
  <2>3. /\ [allReadMsgs EXCEPT ![r] = e] \in Seq(Messages)
        /\ Len([allReadMsgs EXCEPT ![r] = e]) = Len(allReadMsgs)
    BY <1>1, <2>1, <2>2, ExceptSeq
  <2>4. QED
    BY <1>4, <2>3, Zenon DEF r
<1>7. QED
  BY <1>1, <1>5, <1>6

-----------------------------------------------------------------------------
(* The requests of a set of capabilities.                                  *)

\* A finite set put in a sequence: each element once.
LEMMA Listed ==
  ASSUME NEW S, IsFiniteSet(S)
  PROVE  /\ SetToSeq(S) \in Seq(S) /\ Len(SetToSeq(S)) = Cardinality(S)
         /\ Cardinality(S) \in Nat
         /\ \A a, b \in 1..Cardinality(S) : SetToSeq(S)[a] = SetToSeq(S)[b] => a = b
<1> DEFINE N == Cardinality(S)
           s == SetToSeq(S)
<1>1. N \in Nat /\ \E f \in [1..N -> S] : IsInjective(f)
  BY FS_CardinalityType DEF ExistsBijection, Bijection, Injection
<1>2. s \in [1..N -> S] /\ IsInjective(s)
  BY <1>1, Zenon DEF SetToSeq
<1> HIDE DEF s, N
<1>3. s \in Seq(S) /\ Len(s) = N
  BY <1>1, <1>2
<1>4. \A a, b \in 1..N : s[a] = s[b] => a = b
  BY <1>2 DEF IsInjective
<1>5. QED
  BY <1>1, <1>3, <1>4 DEF s, N

\* The i-th request takes the names that follow those of the ones before it.
LEMMA Shares ==
  ASSUME NEW N \in Nat, NEW i \in 1..(N + ReqMax - 1) \div ReqMax
  PROVE  /\ (i - 1) * ReqMax \in Nat /\ i * ReqMax \in Nat
         /\ i * ReqMax = (i - 1) * ReqMax + ReqMax
         /\ (i - 1) * ReqMax < N
<1> DEFINE n == (N + ReqMax - 1) \div ReqMax
<1>1. n \in Nat /\ n * ReqMax <= N + ReqMax - 1
  BY BoundsAssumption
<1> HIDE DEF n
<1>2. i \in 1..n
  BY DEF n
<1>3. /\ i * ReqMax = (i - 1) * ReqMax + ReqMax
      /\ (i - 1) * ReqMax \in Nat /\ i * ReqMax \in Nat
  BY <1>1, <1>2, BoundsAssumption
<1>4. i * ReqMax <= n * ReqMax
  <2>1. n * ReqMax = i * ReqMax + (n - i) * ReqMax /\ (n - i) * ReqMax >= 0
    BY <1>1, <1>2, BoundsAssumption
  <2>2. QED
    BY <1>1, <1>2, <1>3, <2>1, BoundsAssumption
<1>5. n * ReqMax \in Nat
  BY <1>1, BoundsAssumption
<1>6. QED
  BY <1>1, <1>3, <1>4, <1>5, BoundsAssumption

\* Every capability is requested in one request, and no request is empty.
LEMMA RequestsAre ==
  ASSUME NEW caps \in SUBSET Caps
  PROVE  /\ Requests(caps) \in Seq(ReqCommands)
         /\ \A i \in 1..Len(Requests(caps)) : /\ Requests(caps)[i].caps # {}
                                              /\ Requests(caps)[i].caps \subseteq caps
         /\ \A i, j \in 1..Len(Requests(caps)) :
              i # j => Requests(caps)[i].caps \cap Requests(caps)[j].caps = {}
<1> DEFINE s == SetToSeq(caps)
           N == Cardinality(caps)
           n == (N + ReqMax - 1) \div ReqMax
           last(i) == IF i * ReqMax < N THEN i * ReqMax ELSE N
           first(i) == (i - 1) * ReqMax + 1
           share(i) == ToSet(SubSeq(s, first(i), last(i)))
           rs == [i \in 1..n |-> [cmd |-> "CAP REQ", caps |-> share(i)]]
<1>1. IsFiniteSet(caps)
  BY CapsAssumption, FS_Subset
<1>2. /\ s \in Seq(caps) /\ Len(s) = N /\ N \in Nat
      /\ \A a, b \in 1..N : s[a] = s[b] => a = b
  BY <1>1, Listed
<1>3. Requests(caps) = rs
  BY <1>2 DEF Requests
<1>4. n \in Nat
  BY <1>2, BoundsAssumption
<1>5. ASSUME NEW i \in 1..n
      PROVE  /\ first(i) \in 1..N /\ last(i) \in first(i)..N
             /\ first(i) \in Nat /\ last(i) \in Nat
             /\ last(i) <= i * ReqMax /\ i * ReqMax \in Nat
  <2>1. /\ (i - 1) * ReqMax \in Nat /\ i * ReqMax \in Nat
        /\ i * ReqMax = (i - 1) * ReqMax + ReqMax
        /\ (i - 1) * ReqMax < N
    BY <1>2, <1>5, Shares
  <2>2. QED
    BY <1>2, <2>1, BoundsAssumption
<1>6. ASSUME NEW i \in 1..n
      PROVE  share(i) = {s[k] : k \in first(i)..last(i)}
  <2> DEFINE lo == first(i)
             hi == last(i)
  <2>1. lo \in 1..N /\ hi \in lo..N
    BY <1>5
  <2> HIDE DEF lo, hi, s, N
  <2>2. /\ DOMAIN SubSeq(s, lo, hi) = 1..(hi - lo + 1)
        /\ \A j \in 1..(hi - lo + 1) : SubSeq(s, lo, hi)[j] = s[lo + j - 1]
    BY <1>2, <2>1
  <2>3. \A k \in lo..hi : k - lo + 1 \in 1..(hi - lo + 1) /\ lo + (k - lo + 1) - 1 = k
    BY <1>2, <2>1
  <2>4. \A j \in 1..(hi - lo + 1) : lo + j - 1 \in lo..hi
    BY <1>2, <2>1
  <2> DEFINE w == SubSeq(s, lo, hi)
  <2>5. ToSet(w) = {s[k] : k \in lo..hi}
    <3>1. DOMAIN w = 1..(hi - lo + 1) /\ \A j \in 1..(hi - lo + 1) : w[j] = s[lo + j - 1]
      BY <2>2
    <3> HIDE DEF w
    <3>2. ToSet(w) = {w[j] : j \in 1..(hi - lo + 1)}
      BY <3>1 DEF ToSet
    <3>3. ASSUME NEW x \in ToSet(w) PROVE x \in {s[k] : k \in lo..hi}
      <4>1. PICK j \in 1..(hi - lo + 1) : x = w[j]
        BY <3>2, <3>3
      <4>2. x = s[lo + j - 1] /\ lo + j - 1 \in lo..hi
        BY <2>4, <3>1, <4>1
      <4>3. QED
        BY <4>2
    <3>4. ASSUME NEW k \in lo..hi PROVE s[k] \in ToSet(w)
      <4>1. k - lo + 1 \in 1..(hi - lo + 1) /\ w[k - lo + 1] = s[k]
        BY <2>3, <3>1
      <4>2. QED
        BY <3>2, <4>1
    <3>5. QED
      BY <3>3, <3>4
  <2>6. QED
    BY <2>5 DEF lo, hi
<1> HIDE DEF s, N, n, last, first, share
<1>7. ASSUME NEW i \in 1..n
      PROVE  share(i) # {} /\ share(i) \subseteq caps
  <2>1. first(i) \in first(i)..last(i) /\ first(i)..last(i) \subseteq 1..N
    BY <1>2, <1>5
  <2>2. \A k \in 1..N : s[k] \in caps
    BY <1>2
  <2>3. QED
    BY <1>6, <2>1, <2>2
<1>8. ASSUME NEW i \in 1..n, NEW j \in 1..n, i < j
      PROVE  share(i) \cap share(j) = {}
  <2>1. last(i) < first(j)
    <3>1. i * ReqMax <= (j - 1) * ReqMax
      <4>1. (j - 1) * ReqMax = i * ReqMax + (j - 1 - i) * ReqMax /\ (j - 1 - i) * ReqMax >= 0
        BY <1>4, <1>8, BoundsAssumption
      <4>2. i * ReqMax \in Nat /\ (j - 1 - i) * ReqMax \in Nat
        BY <1>4, <1>8, BoundsAssumption
      <4>3. QED
        BY <4>1, <4>2
    <3>2. (j - 1) * ReqMax \in Nat
      BY <1>4, BoundsAssumption
    <3>3. first(j) = (j - 1) * ReqMax + 1
      BY DEF first
    <3>4. QED
      BY <1>5, <3>1, <3>2, <3>3
  <2>2. \A k \in first(i)..last(i), l \in first(j)..last(j) : s[k] # s[l]
    <3>1. \A k \in first(i)..last(i), l \in first(j)..last(j) : k \in 1..N /\ l \in 1..N /\ k # l
      BY <1>2, <1>5, <2>1
    <3>2. QED
      BY <1>2, <3>1, Zenon
  <2>3. QED
    BY <1>6, <2>2
<1>9. rs \in Seq(ReqCommands) /\ Len(rs) = n
  <2>1. \A i \in 1..n : rs[i] \in ReqCommands
    BY <1>7 DEF ReqCommands
  <2>2. DOMAIN rs = 1..n
    OBVIOUS
  <2> HIDE DEF rs
  <2>3. rs \in [1..n -> ReqCommands]
    <3>1. rs = [i \in DOMAIN rs |-> rs[i]]
      BY DEF rs
    <3>2. QED
      BY <2>1, <2>2, <3>1
  <2>4. QED
    BY <1>4, <2>3
<1>10. \A i \in 1..n : rs[i].caps = share(i)
  OBVIOUS
<1> HIDE DEF rs
<1>11. \A i, j \in 1..n : i # j => share(i) \cap share(j) = {}
  <2>1. TAKE i, j \in 1..n
  <2>2. i # j => i < j \/ j < i
    BY <1>4
  <2>3. QED
    BY <1>8, <2>2
<1>12. QED
  BY <1>3, <1>7, <1>9, <1>10, <1>11

-----------------------------------------------------------------------------
(* What is under way.                                                      *)

\* The fields of a command.
LEMMA CommandFields ==
  ASSUME NEW c \in Commands
  PROVE  /\ c.cmd = "NICK" => c.nick \in Nat
         /\ c.cmd = "CAP REQ" => c.caps \in SUBSET Caps
         /\ c.cmd \in SaslCmds => c.method \in Methods
BY DEF Commands, ReqCommands, SaslCmds

\* The fields a message has while it has its command.
LEMMA MessageFields ==
  ASSUME NEW m \in Messages
  PROVE  /\ m.cmd = "CAP LS" => /\ m.caps \in SUBSET Caps /\ m.more \in BOOLEAN
                                /\ m.value \in MethodLists \cup {NoValue}
         /\ m.cmd \in {"CAP ACK", "CAP NAK"} => m.caps \in SUBSET Caps
         /\ m.cmd = "908" => m.methods \in MethodLists
BY DEF Messages, Bare, Listing, Ruling, Naming

\* What waits after a step and is in K waited before it, d places behind.
OldCmds(K, d) ==
  \A i \in DOMAIN c2s' : c2s'[i].cmd \in K => i + d \in DOMAIN c2s /\ c2s'[i] = c2s[i + d]

\* What is on its way after a step was before it; and the other way round.
OldMsgs(K) == \A n \in Flight' : sent'[n].cmd \in K => n \in Flight /\ sent'[n] = sent[n]
KeptMsgs(K) == \A n \in Flight : sent[n].cmd \in K => n \in Flight' /\ sent'[n] = sent[n]

\* When the server receives a command, the others move up by one.
LEMMA ReceiveMoves ==
  ASSUME WireTypes, NEW cmd, Receive(cmd), NEW K
  PROVE  OldCmds(K, 1) /\ c2s' \in Seq(Commands)
BY Receives DEF OldCmds

\* What the client queues behind the others moves none of them.
LEMMA QueueMoves ==
  ASSUME WireTypes, NEW ms \in Seq(Commands), c2s' = c2s \o ms,
         NEW K, \A j \in 1..Len(ms) : ms[j].cmd \notin K
  PROVE  OldCmds(K, 0)
<1>1. SUFFICES ASSUME NEW i \in DOMAIN c2s', c2s'[i].cmd \in K
               PROVE  i + 0 \in DOMAIN c2s /\ c2s'[i] = c2s[i + 0]
  BY DEF OldCmds
<1>2. i \in 1..Len(c2s) \/ (\E j \in 1..Len(ms) : i = Len(c2s) + j)
  BY Queues
<1>3. i \in 1..Len(c2s)
  BY <1>1, <1>2, Queues
<1>4. Len(c2s) \in Nat /\ DOMAIN c2s = 1..Len(c2s) /\ c2s'[i] = c2s[i]
  BY <1>3, Queues
<1>5. QED
  BY <1>3, <1>4

\* Nothing moves where nothing is queued or received.
LEMMA SameCmds ==
  ASSUME WireTypes, c2s' = c2s, NEW K
  PROVE  OldCmds(K, 0) /\ c2s' \in Seq(Commands)
BY DEF OldCmds, WireTypes

\* What the server sends leaves what is on its way as it is.
LEMMA ReplyMoves ==
  ASSUME WireTypes, NEW ms \in Seq(Messages), Reply(ms), allReadMsgs' = allReadMsgs,
         NEW K
  PROVE  /\ KeptMsgs(K)
         /\ (\A j \in 1..Len(ms) : ms[j].cmd \notin K) => OldMsgs(K)
<1>1. KeptMsgs(K)
  BY Sends DEF KeptMsgs
<1>2. ASSUME \A j \in 1..Len(ms) : ms[j].cmd \notin K, NEW n \in Flight', sent'[n].cmd \in K
      PROVE  n \in Flight /\ sent'[n] = sent[n]
  <2>1. n \in Flight \/ (\E j \in 1..Len(ms) : n = Len(sent) + j)
    BY <1>2, Sends
  <2>2. \A j \in 1..Len(ms) : n # Len(sent) + j
    <3>1. \A j \in 1..Len(ms) : sent'[Len(sent) + j] = ms[j]
      BY Sends
    <3>2. QED
      BY <1>2, <3>1
  <2>3. n \in Flight => sent'[n] = sent[n]
    BY Sends
  <2>4. QED
    BY <2>1, <2>2, <2>3
<1>3. QED
  BY <1>1, <1>2 DEF OldMsgs

\* What the client reads leaves the rest on its way.
LEMMA ReadMoves ==
  ASSUME WireTypes, Read, sent' = sent, NEW K
  PROVE  /\ OldMsgs(K)
         /\ Msg.cmd \notin K => KeptMsgs(K)
BY Reads DEF OldMsgs, KeptMsgs

\* What is on its way stays so while nothing is sent or read.
LEMMA SameMsgs ==
  ASSUME WireTypes, sent' = sent, Len(allReadMsgs') = Len(allReadMsgs), NEW K
  PROVE  OldMsgs(K) /\ KeptMsgs(K)
BY DEF OldMsgs, KeptMsgs, Flight

-----------------------------------------------------------------------------
(* Steps that are no concern of a part of the invariant.                   *)

\* NickInv looks at NICK and 433, at the nickname chosen and at the server's.
LEMMA NickKeeps ==
  ASSUME NickInv, NEW d \in {0, 1}, OldCmds({"NICK"}, d), OldMsgs({"433"}),
         chosenNick' = chosenNick, srv'.refusals = srv.refusals,
         srv'.named = srv.named, srv'.nick = srv.nick, Active' => Active,
         c2s' \in Seq(Commands)
  PROVE  NickInv'
<1>1. CASE ~Active'
  BY <1>1 DEF NickInv
<1>2. CASE Active'
  <2>1. \A i \in Waiting({"NICK"})' :
          i \in Nat /\ i + d \in Waiting({"NICK"}) /\ c2s'[i] = c2s[i + d]
    BY DEF Waiting, OldCmds
  <2>2. \A n \in Flying({"433"})' : n \in Flying({"433"})
    BY DEF Flying, OldMsgs
  <2>3. (Active => Active') /\ (Active' => Active)
    BY <1>2
  <2> HIDE DEF Waiting, Flying, Active
  <2>4. \A i \in Waiting({"NICK"})' : c2s'[i].nick = chosenNick'
    BY <1>2, <2>1, <2>3 DEF NickInv
  <2>5. \A i, j \in Waiting({"NICK"})' : i = j
    <3>1. TAKE i, j \in Waiting({"NICK"})'
    <3>2. i + d = j + d /\ i \in Nat /\ j \in Nat
      BY <1>2, <2>1, <2>3 DEF NickInv
    <3>3. QED
      BY <3>2
  <2>6. \A m, n \in Flying({"433"})' : m = n
    BY <1>2, <2>2, <2>3 DEF NickInv
  <2>7. Flying({"433"})' # {} => chosenNick' < srv'.refusals /\ Waiting({"NICK"})' = {}
    BY <1>2, <2>1, <2>2, <2>3 DEF NickInv
  <2>8. srv'.named => /\ srv'.nick = chosenNick'
                      /\ Waiting({"NICK"})' = {} /\ Flying({"433"})' = {}
    BY <1>2, <2>1, <2>2, <2>3 DEF NickInv
  <2>9. QED
    BY <2>4, <2>5, <2>6, <2>7, <2>8 DEF NickInv
<1>3. QED
  BY <1>1, <1>2

\* A command that waited waits one place ahead or where it was.
LEMMA Places ==
  ASSUME NEW i \in Nat, NEW j \in Nat, NEW d \in {0, 1}
  PROVE  /\ i + d = j + d => i = j
         /\ i >= 1 /\ i + d = 1 => i = 1
OBVIOUS

\* Commands waiting after a step, each at the place it had before it.
LEMMA Shifts ==
  ASSUME NEW d \in {0, 1}, c2s' \in Seq(Commands), NEW K, OldCmds(K, d)
  PROVE  \A i \in Waiting(K)' :
           i \in Nat /\ i >= 1 /\ i + d \in Waiting(K) /\ c2s'[i] = c2s[i + d]
<1>1. DOMAIN c2s' \subseteq Nat /\ \A i \in DOMAIN c2s' : i >= 1
  BY DOMAIN c2s' = 1..Len(c2s')
<1>2. ASSUME NEW i \in DOMAIN c2s', c2s'[i].cmd \in K
      PROVE  i + d \in DOMAIN c2s /\ c2s'[i] = c2s[i + d]
  BY <1>2, Zenon DEF OldCmds
<1>3. ASSUME NEW i \in Waiting(K)'
      PROVE  i \in Nat /\ i >= 1 /\ i + d \in Waiting(K) /\ c2s'[i] = c2s[i + d]
  <2>1. i \in DOMAIN c2s' /\ c2s'[i].cmd \in K
    BY <1>3 DEF Waiting
  <2>2. i + d \in DOMAIN c2s /\ c2s'[i] = c2s[i + d]
    BY <1>2, <2>1
  <2>3. c2s[i + d].cmd \in K
    BY <2>1, <2>2, Zenon
  <2>4. QED
    BY <1>1, <2>1, <2>2, <2>3 DEF Waiting
<1>4. QED
  BY <1>3

\* RegInv looks at CAP LS, CAP REQ and CAP END, at 001 and 903, at the phase and at
\* how far the server has got with the registration.
LEMMA RegKeeps ==
  ASSUME RegInv, phase' # "Start", NEW d \in {0, 1}, c2s' \in Seq(Commands),
         OldCmds({"CAP LS"}, d), OldMsgs({"CAP LS", "001"}),
         OldMsgs({"903"}) \/ srv'.auth,
         OldCmds({"CAP REQ"}, d) \/ (srv.cap = "active" /\ Waiting({"CAP END"}) = {}),
         \/ OldCmds({"CAP END"}, d)
         \/ phase' \in PastCaps /\ Waiting({"CAP REQ"})' = {} /\ Answered,
         srv'.cap = srv.cap, srv'.user = srv.user, srv'.enabled = srv.enabled,
         srv.auth => srv'.auth, srv'.welcomed = srv.welcomed, srv.named => srv'.named,
         phase \in PastCaps => phase' \in PastCaps,
         phase' \in AmidCaps => phase \in AmidCaps \/ srv.cap # "none",
         phase' = "EndCap" => phase = "EndCap" \/ Answered,
         phase' = "done" => phase = "done" \/ srv.welcomed,
         Waiting({"CAP END"}) = {} \/ OldCmds({"CAP REQ"}, d)
  PROVE  RegInv'
<1>1. \A K : OldCmds(K, d) =>
        \A i \in Waiting(K)' : i \in Nat /\ i >= 1 /\ i + d \in Waiting(K) /\ c2s'[i] = c2s[i + d]
  BY Shifts
<1>2. /\ \A n \in Flying({"CAP LS"})' : n \in Flying({"CAP LS"})
      /\ \A n \in Flying({"001"})' : n \in Flying({"001"})
      /\ srv'.auth \/ \A n \in Flying({"903"})' : n \in Flying({"903"})
  BY DEF Flying, OldMsgs
<1> HIDE DEF Waiting, Flying, PastCaps, AmidCaps
<1>3. \A i \in Waiting({"CAP LS"})' : i = 1 /\ ~srv'.user
  <2>1. TAKE i \in Waiting({"CAP LS"})'
  <2>2. i \in Nat /\ i >= 1 /\ i + d \in Waiting({"CAP LS"})
    BY <1>1, <2>1
  <2>3. i + d = 1 /\ ~srv.user
    BY <2>2 DEF RegInv
  <2>4. i = 1
    BY <2>2, <2>3, Places
  <2>5. QED
    BY <2>3, <2>4
<1>4. Waiting({"CAP REQ"})' # {} => srv'.cap = "active"
  BY <1>1 DEF RegInv
<1>5. Answered => Answered'
  BY DEF Answered
<1>6. Waiting({"CAP END"})' # {} \/ srv'.cap = "ended" =>
        phase' \in PastCaps /\ Waiting({"CAP REQ"})' = {} /\ Answered'
  <2>1. CASE Waiting({"CAP END"}) # {} \/ srv.cap = "ended"
    <3>1. phase \in PastCaps /\ Waiting({"CAP REQ"}) = {} /\ Answered
      BY <2>1 DEF RegInv
    <3>2. OldCmds({"CAP REQ"}, d)
      BY <2>1
    <3>3. QED
      BY <1>1, <1>5, <3>1, <3>2
  <2>2. CASE ~(Waiting({"CAP END"}) # {} \/ srv.cap = "ended")
    BY <1>1, <1>5, <2>2
  <2>3. QED
    BY <2>1, <2>2
<1>7. srv'.cap = "none" => srv'.enabled = {} /\ Flying({"CAP LS"})' = {}
  BY <1>2 DEF RegInv
<1>8. phase' \in AmidCaps => srv'.cap # "none"
  BY DEF RegInv
<1>9. phase' = "EndCap" => Answered'
  BY <1>5 DEF RegInv
<1>10. srv'.welcomed => srv'.user /\ srv'.named /\ srv'.cap # "active"
  BY DEF RegInv
<1>11. Flying({"001"})' # {} \/ phase' = "done" => srv'.welcomed
  BY <1>2 DEF RegInv
<1>12. Flying({"903"})' # {} => srv'.auth
  BY <1>2 DEF RegInv
<1>13. QED
  BY <1>3, <1>4, <1>6, <1>7, <1>8, <1>9, <1>10, <1>11, <1>12 DEF RegInv

\* CapInv looks at CAP REQ and its answers, and at what either side has enabled.
LEMMA CapKeeps ==
  ASSUME CapInv, NEW d \in {0, 1}, c2s' \in Seq(Commands), cfg' = cfg,
         OldCmds({"CAP REQ"}, d), OldMsgs({"CAP ACK", "CAP NAK"}),
         desiredCaps' = desiredCaps, srv'.enabled = srv.enabled, Active' => Active,
         phase' \in {"Start", "WaitCapList"} => phase \in {"Start", "WaitCapList"},
         phase = "WaitCapAck" => phase' = "WaitCapAck" \/ ~Active'
  PROVE  CapInv'
<1>1. \A i \in Waiting({"CAP REQ"})' :
        i \in Nat /\ i + d \in Waiting({"CAP REQ"}) /\ c2s'[i] = c2s[i + d]
  BY Shifts
<1>2. \A n \in Flying({"CAP ACK", "CAP NAK"})' :
        n \in Flying({"CAP ACK", "CAP NAK"}) /\ sent'[n] = sent[n]
  BY DEF Flying, OldMsgs
<1>3. \A c : \A i \in Asking(c)' : i \in Nat /\ i + d \in Asking(c)
  BY <1>1 DEF Asking
<1>4. \A c : \A n \in Answering(c)' : n \in Answering(c) /\ sent'[n] = sent[n]
  BY <1>2 DEF Answering
<1>5. Wanted(cfg') = Wanted(cfg)
  OBVIOUS
<1> HIDE DEF Waiting, Flying, Asking, Answering
<1>6. SUFFICES ASSUME Active' PROVE CapInv'
  BY DEF CapInv
<1>7. Active
  BY <1>6
<1> HIDE DEF Active
<1>8. /\ \A i \in Waiting({"CAP REQ"})' : c2s'[i].caps # {} /\ c2s'[i].caps \subseteq Wanted(cfg')
      /\ \A n \in Flying({"CAP ACK", "CAP NAK"})' : sent'[n].caps \subseteq Wanted(cfg')
      /\ srv'.enabled \subseteq Wanted(cfg')
  BY <1>1, <1>2, <1>5, <1>7 DEF CapInv
<1>9. phase' \in {"Start", "WaitCapList"} => \A c \in Wanted(cfg') : desiredCaps'[c] = "desired"
  BY <1>5, <1>7 DEF CapInv
<1>10. ASSUME NEW c \in Wanted(cfg') PROVE CapStatus(c)'
  <2>0. CapStatus(c)
    BY <1>5, <1>7, <1>10 DEF CapInv
  <2>1. desiredCaps'[c] = "requested" => phase' = "WaitCapAck"
    BY <1>6, <2>0 DEF CapStatus
  <2>2. desiredCaps'[c] # "requested" =>
          /\ Asking(c)' = {} /\ Answering(c)' = {}
          /\ desiredCaps'[c] = "granted" <=> c \in srv'.enabled
    BY <1>3, <1>4, <2>0 DEF CapStatus
  <2>3. \A i, j \in Asking(c)' : i = j
    <3>1. TAKE i, j \in Asking(c)'
    <3>2. i + d = j + d /\ i \in Nat /\ j \in Nat
      BY <1>3, <2>0 DEF CapStatus
    <3>3. QED
      BY <3>2, Places
  <2>4. \A m, n \in Answering(c)' : m = n
    BY <1>4, <2>0 DEF CapStatus
  <2>5. Asking(c)' # {} => Answering(c)' = {} /\ c \notin srv'.enabled
    BY <1>3, <1>4, <2>0 DEF CapStatus
  <2>6. \A n \in Answering(c)' : sent'[n].cmd = "CAP ACK" <=> c \in srv'.enabled
    BY <1>4, <2>0 DEF CapStatus
  <2>7. QED
    BY <2>1, <2>2, <2>3, <2>4, <2>5, <2>6 DEF CapStatus
<1>11. QED
  BY <1>8, <1>9, <1>10 DEF CapInv

EarlyPhases == {"Start", "WaitCapList", "WaitCapAck"}
SaslPhases == {"StartSasl", "WaitSasl"}

\* SaslInv looks at the SASL commands and messages, at the engine, and in its two
\* phases at what must still be on its way.
LEMMA SaslKeeps ==
  ASSUME SaslInv, NEW d \in {0, 1}, c2s' \in Seq(Commands),
         OldCmds(SaslCmds, d), OldMsgs(SaslMsgs),
         cfg' = cfg, engine' = engine, srv'.mech = srv.mech, srv'.refused = srv.refused,
         \/ phase' = phase /\ KeptMsgs(SaslMsgs)
         \/ phase' \notin EarlyPhases \cup SaslPhases
         \/ phase \in EarlyPhases /\ phase' \in EarlyPhases
  PROVE  SaslInv'
<1>1. /\ \A i \in Waiting(SaslCmds)' :
           i \in Nat /\ i + d \in Waiting(SaslCmds) /\ c2s'[i] = c2s[i + d]
      /\ \A i \in Waiting({"RESPONSE"})' :
           i \in Nat /\ i + d \in Waiting({"RESPONSE"}) /\ c2s'[i] = c2s[i + d]
  BY DEF Waiting, OldCmds, SaslCmds
<1>2. \A K : K \subseteq SaslMsgs =>
        \A n \in Flying(K)' : n \in Flying(K) /\ sent'[n] = sent[n]
  BY DEF Flying, OldMsgs
<1>k. KeptMsgs(SaslMsgs) => \A K : K \subseteq SaslMsgs =>
        \A n \in Flying(K) : n \in Flying(K)' /\ sent'[n] = sent[n]
  BY DEF Flying, KeptMsgs
<1>3. /\ {"AUTHENTICATE"} \subseteq SaslMsgs /\ {"904", "908"} \subseteq SaslMsgs
      /\ {"908"} \subseteq SaslMsgs /\ {"904"} \subseteq SaslMsgs
  BY DEF SaslMsgs
<1>4. PasswordLast'
  <2>1. \A i \in DOMAIN c2s' :
          c2s'[i].cmd = "AUTHENTICATE" => i + d \in DOMAIN c2s /\ c2s'[i] = c2s[i + d]
    BY DEF OldCmds, SaslCmds
  <2>2. QED
    BY <2>1 DEF PasswordLast, SaslInv
<1> HIDE DEF Waiting, Flying, SaslMsgs, SaslCmds
<1>5. \A i \in Waiting({"RESPONSE"})' : c2s'[i].method = srv'.mech
  BY <1>1 DEF SaslInv
<1>6. (\A i, j \in Waiting(SaslCmds) : i = j) => (\A i, j \in Waiting(SaslCmds)' : i = j)
  <2>1. SUFFICES ASSUME \A i, j \in Waiting(SaslCmds) : i = j,
                        NEW i \in Waiting(SaslCmds)', NEW j \in Waiting(SaslCmds)'
                 PROVE  i = j
    OBVIOUS
  <2>2. i + d = j + d /\ i \in Nat /\ j \in Nat
    BY <1>1, <2>1
  <2>3. QED
    BY <2>2
<1>7. Waiting({"RESPONSE"})' # {} => \A i, j \in Waiting(SaslCmds)' : i = j
  BY <1>1, <1>6 DEF SaslInv
<1>8. Silent => Silent'
  BY <1>1, <1>2 DEF Silent
<1>9. \A k : Refused(k) => Refused(k)'
  BY DEF Refused
<1>10. phase' \in EarlyPhases => Silent' /\ ~engine'.made
  <2>1. phase' \in EarlyPhases => phase \in EarlyPhases
    BY DEF EarlyPhases, SaslPhases
  <2>2. QED
    BY <1>8, <2>1 DEF SaslInv, EarlyPhases
<1>11. phase' \in SaslPhases => phase' = phase /\ KeptMsgs(SaslMsgs)
  BY DEF EarlyPhases, SaslPhases
<1>12. phase' \in SaslPhases => engine'.made
  BY <1>11 DEF SaslInv, SaslPhases
<1>13. ASSUME phase' = "StartSasl"
       PROVE  \/ Silent' /\ Refused(engine.idx)'
              \/ OneMore'
              \/ Exhausted(engine)' /\ Waiting({"RESPONSE"})' = {}
  <2>1. phase = "StartSasl" /\ KeptMsgs(SaslMsgs)
    BY <1>11, <1>13 DEF SaslPhases
  <2>2. OneMore => OneMore'
    <3>1. ASSUME OneMore PROVE OneMore'
      <4>1. PICK n \in Flying({"904"}) : Flying(SaslMsgs) = {n}
        BY <3>1 DEF OneMore
      <4>2. n \in Flying({"904"})'
        BY <1>3, <1>k, <2>1
      <4>3. Flying(SaslMsgs)' = Flying(SaslMsgs)
        <5>1. \A m : m \in Flying(SaslMsgs)' => m \in Flying(SaslMsgs)
          BY <1>2
        <5>2. \A m : m \in Flying(SaslMsgs) => m \in Flying(SaslMsgs)'
          BY <1>k, <2>1
        <5>3. QED
          BY <5>1, <5>2, Zenon
      <4>4. Waiting(SaslCmds)' = {} /\ engine'.idx = 0 /\ Len(engine'.methods) <= 1
        BY <1>1, <3>1 DEF OneMore
      <4>5. QED
        BY <4>1, <4>2, <4>3, <4>4 DEF OneMore
    <3>2. QED
      BY <3>1
  <2>3. Silent /\ Refused(engine.idx) => Silent' /\ Refused(engine.idx)'
    BY <1>8 DEF Refused
  <2>4. Exhausted(engine)' <=> Exhausted(engine)
    BY DEF Exhausted
  <2>5. Waiting({"RESPONSE"}) = {} => Waiting({"RESPONSE"})' = {}
    BY <1>1
  <2>6. QED
    BY <2>1, <2>2, <2>3, <2>4, <2>5 DEF SaslInv
<1>14. ASSUME phase' = "WaitSasl"
       PROVE  engine'.idx > 0 /\ (InTurn' \/ GivesUp')
  <2>1. phase = "WaitSasl" /\ KeptMsgs(SaslMsgs)
    BY <1>11, <1>14 DEF SaslPhases
  <2>2. ASSUME GivesUp PROVE GivesUp'
    <3>1. PICK n \in Flying({"904"}) : \A m \in Flying(SaslMsgs) : n <= m
      BY <2>2 DEF GivesUp
    <3>2. n \in Flying({"904"})'
      BY <1>3, <1>k, <2>1
    <3>3. \A m \in Flying(SaslMsgs)' : n <= m
      BY <1>2, <3>1
    <3>4. Waiting({"RESPONSE"})' = {}
      BY <1>1, <2>2 DEF GivesUp
    <3>5. engine'.idx = Len(engine'.methods) /\ Len(engine'.methods) <= 1
      BY <2>2 DEF GivesUp
    <3>6. QED
      BY <3>2, <3>3, <3>4, <3>5 DEF GivesUp
  <2>3. ASSUME InTurn PROVE InTurn'
    <3>1. \A i, j \in Waiting(SaslCmds)' : i = j
      BY <1>6, <2>3 DEF InTurn
    <3>2. Waiting(SaslCmds)' # {} => Flying(SaslMsgs)' = {}
      BY <1>1, <1>2, <2>3 DEF InTurn
    <3>3. \A i \in Waiting(SaslCmds)' : c2s'[i].method = CurMethod(engine)'
      BY <1>1, <2>3 DEF InTurn, CurMethod
    <3>4. \A m, n \in Flying(SaslMsgs)' :
            m < n => sent'[m].cmd = "908" /\ sent'[n].cmd = "904" /\ ToSet(cfg'.mechs) # Methods
      BY <1>2, <2>3 DEF InTurn
    <3>5. Flying({"AUTHENTICATE"})' # {} => srv'.mech = CurMethod(engine)'
      BY <1>2, <1>3, <2>3 DEF InTurn, CurMethod
    <3>6. Flying({"904", "908"})' # {} => Refused(engine.idx)'
      BY <1>2, <1>3, <2>3 DEF InTurn, Refused
    <3>7. \A n \in Flying({"908"})' : sent'[n].methods = cfg'.mechs
      BY <1>2, <1>3, <2>3 DEF InTurn
    <3>8. Refused(engine.idx - 1)'
      BY <2>3 DEF InTurn, Refused
    <3>9. QED
      BY <3>1, <3>2, <3>3, <3>4, <3>5, <3>6, <3>7, <3>8 DEF InTurn
  <2>4. QED
    BY <2>1, <2>2, <2>3 DEF SaslInv
<1>15. QED
  BY <1>4, <1>5, <1>7, <1>10, <1>12, <1>13, <1>14, Zenon DEF SaslInv, EarlyPhases, SaslPhases

-----------------------------------------------------------------------------
(* Types after a step.                                                     *)

\* A sequence of one element.
LEMMA Single ==
  ASSUME NEW S, NEW c \in S
  PROVE  /\ <<c>> \in Seq(S) /\ Len(<<c>>) = 1
         /\ \A j \in 1..Len(<<c>>) : j = 1 /\ <<c>>[j] = c
OBVIOUS

\* A write, whether it succeeds or fails, queues its commands behind the others.
LEMMA WriteMoves ==
  ASSUME WireTypes, NEW ms \in Seq(Commands), NEW next, Write(ms, next)
  PROVE  /\ c2s' \in Seq(Commands)
         /\ (phase' = next /\ c2s' = c2s \o ms) \/ (phase' = "draining" /\ c2s' = c2s)
         /\ \A K : (\A j \in 1..Len(ms) : ms[j].cmd \notin K) => OldCmds(K, 0)
<1>1. (phase' = next /\ c2s' = c2s \o ms) \/ (phase' = "draining" /\ c2s' = c2s)
  BY DEF Write
<1>2. c2s' \in Seq(Commands)
  <2>1. c2s \in Seq(Commands)
    BY DEF WireTypes
  <2>2. c2s \o ms \in Seq(Commands)
    BY <2>1
  <2>3. QED
    BY <1>1, <2>1, <2>2
<1>3. ASSUME NEW K, \A j \in 1..Len(ms) : ms[j].cmd \notin K
      PROVE  OldCmds(K, 0)
  BY <1>1, <1>3, QueueMoves, SameCmds
<1>4. QED
  BY <1>1, <1>2, <1>3

\* Reading keeps the types of what is on the wire.
LEMMA ReadTyped ==
  ASSUME WireTypes, Read, sent' = sent, c2s' \in Seq(Commands)
  PROVE  WireTypes'
BY Reads DEF WireTypes

\* So does a reply.
LEMMA ReplyTyped ==
  ASSUME WireTypes, NEW ms \in Seq(Messages), Reply(ms), allReadMsgs' = allReadMsgs,
         c2s' \in Seq(Commands)
  PROVE  WireTypes'
<1>1. /\ sent' \in Seq(Messages) /\ Len(sent') = Len(sent) + Len(ms)
      /\ Len(ms) \in Nat /\ Len(sent) \in Nat /\ Len(allReadMsgs) \in Nat
  BY Sends
<1>2. Len(allReadMsgs') <= Len(sent')
  BY <1>1 DEF WireTypes
<1>3. QED
  BY <1>1, <1>2 DEF WireTypes

\* So does clearing the command of the last message read.
LEMMA ClearTyped ==
  ASSUME WireTypes, ClearCommand, sent' = sent, c2s' \in Seq(Commands)
  PROVE  WireTypes'
BY Clears DEF WireTypes

\* The server changes nothing of the client.
LEMMA ServerTyped ==
  ASSUME Types, UnchangedClient
  PROVE  ClientTypes' /\ allReadMsgs' = allReadMsgs /\ (Active' <=> Active)
         /\ UNCHANGED <<cfg, phase, chosenNick, desiredCaps, engine>>
BY DEF Types, ClientTypes, UnchangedClient, clientVars, Active

-----------------------------------------------------------------------------
(* The client's steps that concern no one part of the invariant.           *)

\* A message that is only read.
LEMMA OtherStep ==
  ASSUME NegInv, OnOther
  PROVE  NegInv'
<1>1. Types /\ NickInv /\ RegInv /\ CapInv /\ SaslInv /\ WireTypes
  BY DEF NegInv, Types
<1>2. /\ UNCHANGED <<cfg, phase, chosenNick, desiredCaps, supported, capValue, engine,
                     c2s, sent, lost, srv>>
      /\ Read /\ phase \in Loop /\ ~Handled
  BY DEF OnOther
<1>3. \A K : OldCmds(K, 0) /\ OldMsgs(K) /\ c2s' \in Seq(Commands)
  BY <1>1, <1>2, SameCmds, ReadMoves
<1>4. Types'
  BY <1>1, <1>2, <1>3, ReadTyped DEF Types, ClientTypes
<1>5. Active' <=> Active
  BY <1>2 DEF Active
<1>6. NickInv'
  BY <1>1, <1>2, <1>3, <1>5, NickKeeps
<1>7. RegInv'
  BY <1>1, <1>2, <1>3, RegKeeps DEF Loop
<1>8. CapInv'
  BY <1>1, <1>2, <1>3, <1>5, CapKeeps
<1>9. SaslInv'
  <2>1. phase = "WaitSasl" => KeptMsgs(SaslMsgs)
    BY <1>1, <1>2, ReadMoves DEF Handled, SaslMsgs
  <2>2. \/ phase' = phase /\ KeptMsgs(SaslMsgs)
        \/ phase' \notin EarlyPhases \cup SaslPhases
        \/ phase \in EarlyPhases /\ phase' \in EarlyPhases
    BY <1>2, <2>1 DEF Loop, EarlyPhases, SaslPhases
  <2>3. QED
    BY <1>1, <1>2, <1>3, <2>2, SaslKeeps
<1>10. QED
  BY <1>4, <1>6, <1>7, <1>8, <1>9 DEF NegInv

\* A malformed answer: the client gives up.
LEMMA MalformedStep ==
  ASSUME NegInv, OnMalformed
  PROVE  NegInv'
<1>1. Types /\ NickInv /\ RegInv /\ CapInv /\ SaslInv /\ WireTypes
  BY DEF NegInv, Types
<1>2. /\ UNCHANGED <<cfg, chosenNick, desiredCaps, supported, capValue, engine,
                     c2s, sent, lost, srv>>
      /\ Read /\ phase' = "draining"
  BY DEF OnMalformed
<1>3. \A K : OldCmds(K, 0) /\ OldMsgs(K) /\ c2s' \in Seq(Commands)
  BY <1>1, <1>2, SameCmds, ReadMoves
<1>4. Types'
  BY <1>1, <1>2, <1>3, ReadTyped DEF Types, ClientTypes, Phases
<1>5. ~Active'
  BY <1>2 DEF Active
<1>6. NickInv'
  BY <1>1, <1>2, <1>3, <1>5, NickKeeps
<1>7. RegInv'
  BY <1>1, <1>2, <1>3, RegKeeps DEF PastCaps, AmidCaps
<1>8. CapInv'
  BY <1>5 DEF CapInv
<1>9. SaslInv'
  BY <1>1, <1>2, <1>3, SaslKeeps DEF EarlyPhases, SaslPhases
<1>10. QED
  BY <1>4, <1>6, <1>7, <1>8, <1>9 DEF NegInv

\* 001: the server has welcomed the client, and is done with capabilities.
LEMMA WelcomeStep ==
  ASSUME NegInv, OnWelcome
  PROVE  NegInv'
<1>1. Types /\ NickInv /\ RegInv /\ CapInv /\ SaslInv /\ WireTypes
  BY DEF NegInv, Types
<1>2. /\ UNCHANGED <<cfg, chosenNick, desiredCaps, supported, capValue, engine,
                     c2s, sent, lost, srv>>
      /\ Read /\ phase \in Loop /\ Msg.cmd = "001" /\ phase' = "done"
  BY DEF OnWelcome
<1>3. \A K : OldCmds(K, 0) /\ OldMsgs(K) /\ c2s' \in Seq(Commands)
  BY <1>1, <1>2, SameCmds, ReadMoves
<1>4. Types'
  BY <1>1, <1>2, <1>3, ReadTyped DEF Types, ClientTypes, Phases
<1>5. Active' /\ Active
  BY <1>2 DEF Active, Loop
<1>6. NickInv'
  BY <1>1, <1>2, <1>3, <1>5, NickKeeps
<1>7. srv.welcomed
  <2>1. Flying({"001"}) # {}
    BY <1>1, <1>2, Reads DEF Flying
  <2>2. QED
    BY <1>1, <2>1 DEF RegInv
<1>8. RegInv'
  BY <1>1, <1>2, <1>3, <1>7, RegKeeps DEF Loop, PastCaps, AmidCaps
<1>9. CapInv'
  <2>1. phase # "WaitCapAck"
    <3>1. srv.cap \in {"none", "ended"}
      BY <1>1, <1>7 DEF RegInv, Types, Servers
    <3>2. QED
      BY <1>1, <3>1 DEF RegInv, AmidCaps, PastCaps
  <2>2. QED
    BY <1>1, <1>2, <1>3, <1>5, <2>1, CapKeeps
<1>10. SaslInv'
  BY <1>1, <1>2, <1>3, SaslKeeps DEF EarlyPhases, SaslPhases
<1>11. QED
  BY <1>4, <1>6, <1>8, <1>9, <1>10 DEF NegInv

\* The connection fails, or the client drains what it can still read.
LEMMA DrainStep ==
  ASSUME NegInv, ReadFails \/ Drain
  PROVE  NegInv'
<1>1. Types /\ NickInv /\ RegInv /\ CapInv /\ SaslInv /\ WireTypes
  BY DEF NegInv, Types
<1>2. /\ UNCHANGED <<cfg, chosenNick, desiredCaps, supported, capValue, engine,
                     c2s, sent, lost, srv>>
      /\ phase' \in {"failed", "draining"}
  BY DEF ReadFails, Drain
<1>3. \A K : OldCmds(K, 0) /\ OldMsgs(K) /\ c2s' \in Seq(Commands)
  BY <1>1, <1>2, SameCmds, SameMsgs, ReadMoves DEF ReadFails, Drain
<1>4. Types'
  <2>1. WireTypes'
    BY <1>1, <1>2, <1>3, ReadTyped DEF ReadFails, Drain, WireTypes
  <2>2. QED
    BY <1>1, <1>2, <2>1 DEF Types, ClientTypes, Phases
<1>5. ~Active'
  BY <1>2 DEF Active
<1>6. NickInv'
  BY <1>1, <1>2, <1>3, <1>5, NickKeeps
<1>7. RegInv'
  BY <1>1, <1>2, <1>3, RegKeeps DEF PastCaps, AmidCaps
<1>8. CapInv'
  BY <1>5 DEF CapInv
<1>9. SaslInv'
  BY <1>1, <1>2, <1>3, SaslKeeps DEF EarlyPhases, SaslPhases
<1>10. QED
  BY <1>4, <1>6, <1>7, <1>8, <1>9 DEF NegInv

\* Nothing happens, or the connection is lost.
LEMMA StillStep ==
  ASSUME NegInv, UNCHANGED <<cfg, clientVars, c2s, sent, srv>>, lost' \in BOOLEAN
  PROVE  NegInv'
<1>1. UNCHANGED <<cfg, phase, chosenNick, desiredCaps, supported, capValue, engine,
                  allReadMsgs, c2s, sent, srv>>
  BY DEF clientVars
<1>2. Types'
  BY <1>1 DEF NegInv, Types, ClientTypes, WireTypes
<1>3. /\ \A K : OldCmds(K, 0) /\ OldMsgs(K) /\ KeptMsgs(K)
      /\ c2s' \in Seq(Commands)
  <2>1. WireTypes
    BY DEF NegInv, Types
  <2>2. QED
    BY <1>1, <2>1, SameCmds, SameMsgs
<1>4. Active' <=> Active
  BY <1>1 DEF Active
<1>5. NickInv' /\ CapInv' /\ SaslInv'
  <2>1. NickInv'
    BY <1>1, <1>3, <1>4, NickKeeps DEF NegInv
  <2>2. CapInv'
    BY <1>1, <1>3, <1>4, CapKeeps DEF NegInv
  <2>3. SaslInv'
    BY <1>1, <1>3, SaslKeeps DEF NegInv
  <2>4. QED
    BY <2>1, <2>2, <2>3
<1>6. RegInv'
  <2>1. \A K : Waiting(K)' = Waiting(K) /\ Flying(K)' = Flying(K)
    BY <1>1 DEF Waiting, Flying, Flight
  <2>2. Answered' = Answered
    BY <1>1 DEF Answered
  <2> HIDE DEF Waiting, Flying, Answered
  <2>3. RegInv
    BY DEF NegInv
  <2>4. QED
    BY <1>1, <2>1, <2>2, <2>3 DEF RegInv
<1>7. QED
  BY <1>2, <1>5, <1>6 DEF NegInv

-----------------------------------------------------------------------------
(* The client's steps.                                                     *)

\* Short sequences.
LEMMA Pair ==
  ASSUME NEW S, NEW a \in S, NEW b \in S
  PROVE  /\ <<a, b>> \in Seq(S) /\ Len(<<a, b>>) = 2
         /\ <<a, b>>[1] = a /\ <<a, b>>[2] = b
         /\ <<>> \o <<a, b>> = <<a, b>>
<1>1. <<a, b>> \in Seq(S) /\ Len(<<a, b>>) = 2
  OBVIOUS
<1>2. <<a, b>>[1] = a /\ <<a, b>>[2] = b
  OBVIOUS
<1>3. <<>> \o <<a, b>> = <<a, b>>
  BY <1>1, ConcatEmptySeq, Zenon
<1>4. QED
  BY <1>1, <1>2, <1>3, Zenon

\* The indices of short sequences.
LEMMA UpTo ==
  /\ \A j \in 1..2 : j = 1 \/ j = 2
  /\ \A j \in 1..3 : j = 1 \/ j = 2 \/ j = 3
  /\ \A j \in 1..1 : j = 1
OBVIOUS

\* The first commands: at most one CAP LS, at the head, and one NICK.
Opening ==
  (IF cfg.inhibitCap THEN <<>> ELSE << [cmd |-> "CAP LS"] >>)
    \o << [cmd |-> "USER"], [cmd |-> "NICK", nick |-> chosenNick] >>

\* The commands the client opens with, one by one.
LEMMA OpeningIs ==
  ASSUME chosenNick \in Nat, NEW ms, ms = Opening
  PROVE  /\ ms \in Seq(Commands)
         /\ \A j \in 1..Len(ms) : /\ ms[j].cmd \in {"CAP LS", "USER", "NICK"}
                                  /\ ms[j].cmd = "CAP LS" => j = 1
                                  /\ ms[j].cmd = "NICK" => ms[j].nick = chosenNick
         /\ \A j, k \in 1..Len(ms) : ms[j].cmd = "NICK" /\ ms[k].cmd = "NICK" => j = k
<1> DEFINE ls == [cmd |-> "CAP LS"]
           us == [cmd |-> "USER"]
           ni == [cmd |-> "NICK", nick |-> chosenNick]
<1>1. /\ ls \in Commands /\ us \in Commands /\ ni \in Commands
      /\ ls.cmd = "CAP LS" /\ us.cmd = "USER" /\ ni.cmd = "NICK" /\ ni.nick = chosenNick
  BY DEF Commands
<1>2. Opening = (IF cfg.inhibitCap THEN <<>> ELSE <<ls>>) \o <<us, ni>>
  BY Zenon DEF Opening
<1> HIDE DEF ls, us, ni
<1>3. CASE cfg.inhibitCap
  <2>1. ms = <<>> \o <<us, ni>>
    BY <1>2, <1>3, Zenon
  <2>2. ms \in Seq(Commands) /\ Len(ms) = 2 /\ ms[1] = us /\ ms[2] = ni
    <3> DEFINE t == <<us, ni>>
    <3>1. t \in Seq(Commands) /\ Len(t) = 2 /\ t[1] = us /\ t[2] = ni
      BY <1>1, Pair, Zenon
    <3>2. ms = <<>> \o t
      BY <2>1, Zenon
    <3> HIDE DEF t
    <3>3. ms = t
      BY <3>1, <3>2, ConcatEmptySeq, Zenon
    <3>4. QED
      BY <3>1, <3>3, Zenon
  <2>3. \A j \in 1..Len(ms) : ms[j] = us \/ (j = 2 /\ ms[j] = ni)
    BY <2>2, UpTo, Zenon
  <2>4. \A j \in 1..Len(ms) : /\ ms[j].cmd \in {"CAP LS", "USER", "NICK"}
                              /\ ms[j].cmd = "CAP LS" => j = 1
                              /\ ms[j].cmd = "NICK" => j = 2 /\ ms[j].nick = chosenNick
    BY <1>1, <2>3
  <2>5. QED
    BY <2>2, <2>4
<1>4. CASE ~cfg.inhibitCap
  <2>1. ms = <<ls>> \o <<us, ni>>
    BY <1>2, <1>4, Zenon
  <2>2. ms \in Seq(Commands) /\ Len(ms) = 3 /\ ms[1] = ls /\ ms[2] = us /\ ms[3] = ni
    <3>1. /\ <<us, ni>> \in Seq(Commands) /\ Len(<<us, ni>>) = 2
          /\ <<us, ni>>[1] = us /\ <<us, ni>>[2] = ni
      BY <1>1, Pair, Zenon
    <3>2. <<ls>> \in Seq(Commands) /\ Len(<<ls>>) = 1 /\ <<ls>>[1] = ls
      <4>1. /\ <<ls>> \in Seq(Commands) /\ Len(<<ls>>) = 1
            /\ \A j \in 1..Len(<<ls>>) : <<ls>>[j] = ls
        BY <1>1, Single, Zenon
      <4>2. 1 \in 1..1
        OBVIOUS
      <4>3. QED
        BY <4>1, <4>2, Zenon
    <3> DEFINE u == <<ls>>
               t == <<us, ni>>
    <3>3. /\ t \in Seq(Commands) /\ Len(t) = 2 /\ t[1] = us /\ t[2] = ni
          /\ u \in Seq(Commands) /\ Len(u) = 1 /\ u[1] = ls /\ ms = u \o t
      BY <2>1, <3>1, <3>2, Zenon
    <3> HIDE DEF u, t
    <3>4. /\ ms \in Seq(Commands) /\ Len(ms) = Len(u) + Len(t)
          /\ \A i \in 1..Len(u) + Len(t) : ms[i] = IF i <= Len(u) THEN u[i] ELSE t[i - Len(u)]
      <4>1. t \in Seq(Commands) /\ u \in Seq(Commands)
        BY <3>3, Zenon
      <4>2. /\ u \o t \in Seq(Commands) /\ Len(u \o t) = Len(u) + Len(t)
            /\ \A i \in 1..Len(u) + Len(t) :
                 (u \o t)[i] = IF i <= Len(u) THEN u[i] ELSE t[i - Len(u)]
        BY <4>1, ConcatProperties, Zenon
      <4>3. ms = u \o t
        BY <3>3, Zenon
      <4>4. QED
        BY <4>2, <4>3, Zenon
    <3>5. \A i \in 1..1 + 2 : ms[i] = IF i <= 1 THEN u[i] ELSE t[i - 1]
      BY <3>3, <3>4, Zenon
    <3>6. Len(ms) = 3
      BY <3>3, <3>4
    <3>7. ms[1] = u[1] /\ ms[2] = t[1] /\ ms[3] = t[2]
      BY <3>5
    <3>8. QED
      BY <3>3, <3>4, <3>6, <3>7, Zenon
  <2>3. \A j \in 1..Len(ms) : (j = 1 /\ ms[j] = ls) \/ ms[j] = us \/ (j = 3 /\ ms[j] = ni)
    BY <2>2, UpTo, Zenon
  <2>4. \A j \in 1..Len(ms) : /\ ms[j].cmd \in {"CAP LS", "USER", "NICK"}
                              /\ ms[j].cmd = "CAP LS" => j = 1
                              /\ ms[j].cmd = "NICK" => j = 3 /\ ms[j].nick = chosenNick
    BY <1>1, <2>3
  <2>5. QED
    BY <2>2, <2>4
<1>5. QED
  BY <1>3, <1>4, Zenon

\* Registration begins.
LEMMA StartStep ==
  ASSUME NegInv, Start
  PROVE  NegInv'
<1>1. Types /\ NickInv /\ RegInv /\ CapInv /\ SaslInv /\ WireTypes
  BY DEF NegInv, Types
<1>2. /\ UNCHANGED <<cfg, chosenNick, desiredCaps, supported, capValue, engine,
                     allReadMsgs, sent, lost, srv>>
      /\ phase = "Start"
      /\ c2s = <<>> /\ sent = <<>> /\ srv = SrvInit /\ allReadMsgs = <<>>
  BY <1>1 DEF Start, RegInv
<1> DEFINE ms == Opening
           next == IF cfg.inhibitCap THEN "Wait001" ELSE "WaitCapList"
<1>3. /\ ms \in Seq(Commands)
      /\ \A j \in 1..Len(ms) : /\ ms[j].cmd \in {"CAP LS", "USER", "NICK"}
                               /\ ms[j].cmd = "CAP LS" => j = 1
                               /\ ms[j].cmd = "NICK" => ms[j].nick = chosenNick
      /\ \A j, k \in 1..Len(ms) : ms[j].cmd = "NICK" /\ ms[k].cmd = "NICK" => j = k
  <2>1. chosenNick \in Nat
    BY <1>1 DEF NickInv
  <2>2. QED
    BY <2>1, OpeningIs
<1>4. Write(ms, next)
  BY DEF Start, Opening
<1>5. next \in {"Wait001", "WaitCapList"}
  OBVIOUS
<1> HIDE DEF ms, next
<1>6. /\ c2s' \in Seq(Commands) /\ phase' \in {"Wait001", "WaitCapList", "draining"}
      /\ OldCmds({"CAP REQ"}, 0) /\ OldCmds(SaslCmds, 0) /\ OldCmds({"CAP END"}, 0)
  BY <1>1, <1>3, <1>4, <1>5, WriteMoves DEF SaslCmds
<1>7. c2s' = ms \/ c2s' = <<>>
  <2>1. c2s' = c2s \o ms \/ c2s' = c2s
    BY <1>1, <1>3, <1>4, WriteMoves
  <2>2. <<>> \o ms = ms
    BY <1>3, ConcatEmptySeq, Zenon
  <2>3. QED
    BY <1>2, <2>1, <2>2
<1>8. \A K : OldMsgs(K)
  BY <1>1, <1>2, SameMsgs
<1>9. Flight' = {} /\ \A i \in DOMAIN c2s' : i \in 1..Len(ms) /\ c2s'[i] = ms[i]
  <2>1. Flight' = {}
    BY <1>2 DEF Flight
  <2>2. CASE c2s' = ms
    <3>1. ms \in Seq(Commands)
      BY <1>3
    <3>2. DOMAIN ms = 1..Len(ms)
      BY <3>1
    <3>3. QED
      BY <2>1, <2>2, <3>2
  <2>3. CASE c2s' = <<>>
    BY <2>1, <2>3
  <2>4. QED
    BY <1>7, <2>2, <2>3
<1>10. Types'
  BY <1>1, <1>2, <1>6 DEF Types, ClientTypes, WireTypes, Phases
<1>11. NickInv'
  <2>1. Flying({"433"})' = {}
    BY <1>9 DEF Flying
  <2>2. /\ \A i \in Waiting({"NICK"})' : c2s'[i].nick = chosenNick'
        /\ \A i, j \in Waiting({"NICK"})' : i = j
    BY <1>2, <1>3, <1>9 DEF Waiting
  <2>3. srv'.named = FALSE
    BY <1>2 DEF SrvInit
  <2>4. chosenNick' \in Nat /\ chosenNick' <= srv'.refusals /\ srv'.refusals <= MaxRefusals
    BY <1>1, <1>2 DEF NickInv
  <2>5. QED
    BY <2>1, <2>2, <2>3, <2>4 DEF NickInv
<1>12. RegInv'
  <2>1. /\ \A i \in Waiting({"CAP LS"})' : i = 1
        /\ Waiting({"CAP REQ"})' = {} /\ Waiting({"CAP END"})' = {}
    BY <1>3, <1>9 DEF Waiting
  <2>2. Flying({"CAP LS"})' = {} /\ Flying({"001"})' = {} /\ Flying({"903"})' = {}
    BY <1>9 DEF Flying
  <2>3. srv'.cap = "none" /\ srv'.enabled = {} /\ ~srv'.user /\ ~srv'.welcomed
    BY <1>2 DEF SrvInit
  <2>4. /\ phase' \notin AmidCaps /\ phase' # "Start" /\ phase' # "EndCap"
        /\ phase' # "done"
    BY <1>6 DEF AmidCaps
  <2>5. QED
    BY <2>1, <2>2, <2>3, <2>4 DEF RegInv
<1>13. CapInv'
  <2>1. Active
    BY <1>2 DEF Active
  <2>2. QED
    BY <1>1, <1>2, <1>6, <1>8, <2>1, CapKeeps
<1>14. SaslInv'
  BY <1>1, <1>2, <1>6, <1>8, SaslKeeps DEF EarlyPhases, SaslPhases
<1>15. QED
  BY <1>10, <1>11, <1>12, <1>13, <1>14 DEF NegInv

\* Another nickname: the refusal read was the only one on its way, and nothing
\* else about nicknames was.
LEMMA NickRefusedStep ==
  ASSUME NegInv, OnNickRefused
  PROVE  NegInv'
<1>1. Types /\ NickInv /\ RegInv /\ CapInv /\ SaslInv /\ WireTypes
  BY DEF NegInv, Types
<1>2. /\ UNCHANGED <<cfg, desiredCaps, supported, capValue, engine, sent, lost, srv>>
      /\ Read /\ phase \in Loop /\ Msg.cmd = "433" /\ chosenNick' = chosenNick + 1
  BY DEF OnNickRefused, NextNick
<1> DEFINE com == [cmd |-> "NICK", nick |-> chosenNick + 1]
<1>3. com \in Commands /\ com.cmd = "NICK" /\ com.nick = chosenNick + 1
  <2>1. chosenNick + 1 \in Nat
    BY <1>1 DEF NickInv
  <2>2. QED
    BY <2>1 DEF Commands
<1>4. Write(<<com>>, phase)
  BY DEF OnNickRefused
<1> HIDE DEF com
<1>5. /\ <<com>> \in Seq(Commands) /\ Len(<<com>>) = 1
      /\ \A j \in 1..Len(<<com>>) : j = 1 /\ <<com>>[j] = com
  BY <1>3, Single
<1>6. /\ c2s' \in Seq(Commands)
      /\ (phase' = phase /\ c2s' = c2s \o <<com>>) \/ (phase' = "draining" /\ c2s' = c2s)
      /\ \A K : "NICK" \notin K => OldCmds(K, 0)
  <2>1. \A K : "NICK" \notin K => \A j \in 1..Len(<<com>>) : <<com>>[j].cmd \notin K
    BY <1>3, <1>5
  <2>2. QED
    BY <1>1, <1>4, <1>5, <2>1, WriteMoves
<1>7. \A K : OldMsgs(K) /\ ("433" \notin K => KeptMsgs(K))
  BY <1>1, <1>2, ReadMoves
<1>8. OldCmds({"CAP REQ"}, 0) /\ OldCmds(SaslCmds, 0) /\ OldCmds({"CAP END"}, 0)
      /\ OldCmds({"CAP LS"}, 0) /\ KeptMsgs(SaslMsgs)
  BY <1>6, <1>7 DEF SaslCmds, SaslMsgs
<1>9. Types'
  <2>1. WireTypes'
    BY <1>1, <1>2, <1>6, ReadTyped
  <2>2. phase' \in Phases
    BY <1>1, <1>6 DEF Types, ClientTypes, Phases
  <2>3. QED
    BY <1>1, <1>2, <2>1, <2>2 DEF Types, ClientTypes
<1>10. NickInv'
  <2>1. Len(allReadMsgs) + 1 \in Flying({"433"}) /\ Active
    BY <1>1, <1>2, Reads DEF Flying, Active, Loop
  <2>2. /\ chosenNick < srv.refusals /\ Waiting({"NICK"}) = {} /\ ~srv.named
        /\ Flying({"433"}) = {Len(allReadMsgs) + 1}
    <3> HIDE DEF Flying, Waiting, Active
    <3>1. QED
      BY <1>1, <2>1 DEF NickInv
  <2>3. Flying({"433"})' = {}
    <3>1. \A n \in Flying({"433"})' : n \in Flying({"433"}) /\ n # Len(allReadMsgs) + 1
      BY <1>1, <1>2, Reads DEF Flying
    <3>2. QED
      BY <2>2, <3>1
  <2>4. /\ chosenNick' \in Nat /\ chosenNick' <= srv'.refusals /\ srv'.refusals <= MaxRefusals
        /\ ~srv'.named
    BY <1>1, <1>2, <2>2 DEF NickInv, Types, Servers
  <2>5. CASE phase' = "draining"
    BY <2>4, <2>5 DEF NickInv, Active
  <2>6. CASE c2s' = c2s \o <<com>>
    <3>1. \A i \in Waiting({"NICK"})' : i = Len(c2s) + 1 /\ c2s'[i] = com
      <4>1. ASSUME NEW i \in DOMAIN c2s', c2s'[i].cmd = "NICK"
            PROVE  i = Len(c2s) + 1 /\ c2s'[i] = com
        <5>1. i \in 1..Len(c2s) \/ i = Len(c2s) + 1
          BY <1>1, <1>5, <2>6, Queues
        <5>2. i \notin 1..Len(c2s)
          BY <1>1, <1>5, <2>2, <2>6, <4>1, Queues DEF Waiting
        <5>3. c2s'[Len(c2s) + 1] = com
          BY <1>1, <1>5, <2>6, Queues
        <5>4. QED
          BY <5>1, <5>2, <5>3
      <4>2. QED
        BY <4>1 DEF Waiting
    <3>2. QED
      BY <1>2, <1>3, <2>3, <2>4, <3>1 DEF NickInv
  <2>7. QED
    BY <1>6, <2>5, <2>6
<1>11. RegInv'
  BY <1>1, <1>2, <1>6, <1>7, <1>8, RegKeeps DEF Loop, PastCaps, AmidCaps
<1>12. CapInv'
  <2>1. Active /\ (phase' = "draining" => ~Active')
    BY <1>2 DEF Active, Loop
  <2>2. QED
    BY <1>1, <1>2, <1>6, <1>7, <1>8, <2>1, CapKeeps DEF Loop
<1>13. SaslInv'
  BY <1>1, <1>2, <1>6, <1>7, <1>8, SaslKeeps DEF EarlyPhases, SaslPhases
<1>14. QED
  BY <1>9, <1>10, <1>11, <1>12, <1>13 DEF NegInv

\* A single command is written.
LEMMA WriteOne ==
  ASSUME WireTypes, NEW com \in Commands, NEW next, Write(<<com>>, next)
  PROVE  /\ c2s' \in Seq(Commands)
         /\ phase' = next \/ (phase' = "draining" /\ c2s' = c2s)
         /\ \A K : com.cmd \notin K => OldCmds(K, 0)
         /\ \A i \in DOMAIN c2s' :
              \/ i \in DOMAIN c2s /\ c2s'[i] = c2s[i]
              \/ phase' = next /\ i = Len(c2s) + 1 /\ c2s'[i] = com
<1>1. /\ <<com>> \in Seq(Commands) /\ Len(<<com>>) = 1
      /\ \A j \in 1..Len(<<com>>) : j = 1 /\ <<com>>[j] = com
  BY Single
<1>2. /\ c2s' \in Seq(Commands)
      /\ (phase' = next /\ c2s' = c2s \o <<com>>) \/ (phase' = "draining" /\ c2s' = c2s)
  BY <1>1, WriteMoves
<1>3. \A K : com.cmd \notin K => OldCmds(K, 0)
  <2>1. \A K : com.cmd \notin K => \A j \in 1..Len(<<com>>) : <<com>>[j].cmd \notin K
    BY <1>1
  <2>2. QED
    BY <1>1, <2>1, WriteMoves
<1>4. ASSUME phase' = next, c2s' = c2s \o <<com>>, NEW i \in DOMAIN c2s'
      PROVE  \/ i \in DOMAIN c2s /\ c2s'[i] = c2s[i]
             \/ i = Len(c2s) + 1 /\ c2s'[i] = com
  <2>1. i \in 1..Len(c2s) \/ i = Len(c2s) + 1
    BY <1>1, <1>4, Queues
  <2>2. c2s'[Len(c2s) + 1] = com
    BY <1>1, <1>4, Queues
  <2>3. \A k \in 1..Len(c2s) : k \in DOMAIN c2s /\ c2s'[k] = c2s[k]
    BY <1>1, <1>4, Queues
  <2>4. QED
    BY <2>1, <2>2, <2>3
<1>5. QED
  BY <1>2, <1>3, <1>4

\* Requests wait only in WaitCapAck, for every one of them names a capability, which
\* is requested.
LEMMA NoRequests ==
  ASSUME CapInv, Active, phase # "WaitCapAck"
  PROVE  Waiting({"CAP REQ"}) = {}
<1>1. SUFFICES ASSUME NEW i \in Waiting({"CAP REQ"}) PROVE FALSE
  OBVIOUS
<1> HIDE DEF Waiting, Active
<1>2. PICK c \in Wanted(cfg) : c \in c2s[i].caps
  BY <1>1 DEF CapInv
<1>3. i \in Asking(c)
  BY <1>1, <1>2 DEF Asking
<1>4. CapStatus(c)
  BY <1>2 DEF CapInv
<1>5. QED
  BY <1>3, <1>4 DEF CapStatus

\* CAP END: nothing is requested any more.
LEMMA EndCapStep ==
  ASSUME NegInv, EndCap
  PROVE  NegInv'
<1>1. Types /\ NickInv /\ RegInv /\ CapInv /\ SaslInv /\ WireTypes
  BY DEF NegInv, Types
<1>2. /\ UNCHANGED <<cfg, chosenNick, desiredCaps, supported, capValue, engine, sent, lost, srv>>
      /\ phase = "EndCap" /\ ClearCommand
  BY DEF EndCap
<1> DEFINE com == [cmd |-> "CAP END"]
<1>3. com \in Commands /\ com.cmd = "CAP END"
  BY DEF Commands
<1>4. Write(<<com>>, "Wait001")
  BY DEF EndCap
<1> HIDE DEF com
<1>5. /\ c2s' \in Seq(Commands) /\ phase' \in {"Wait001", "draining"}
      /\ \A K : "CAP END" \notin K => OldCmds(K, 0)
  BY <1>1, <1>3, <1>4, WriteOne
<1>6. \A K : OldMsgs(K) /\ KeptMsgs(K)
  BY <1>1, <1>2, SameMsgs, Clears
<1>7. OldCmds({"CAP REQ"}, 0) /\ OldCmds(SaslCmds, 0) /\ OldCmds({"NICK"}, 0)
      /\ OldCmds({"CAP LS"}, 0)
  BY <1>5 DEF SaslCmds
<1>8. Types'
  <2>1. WireTypes'
    BY <1>1, <1>2, <1>5, ClearTyped
  <2>2. QED
    BY <1>1, <1>2, <1>5, <2>1 DEF Types, ClientTypes, Phases
<1>9. Active
  BY <1>2 DEF Active
<1>10. NickInv'
  BY <1>1, <1>2, <1>5, <1>6, <1>7, <1>9, NickKeeps
<1>11. RegInv'
  <2>1. Waiting({"CAP REQ"}) = {}
    BY <1>1, <1>2, <1>9, NoRequests
  <2>2. Waiting({"CAP REQ"})' = {}
    BY <1>5, <1>7, <2>1, Shifts
  <2>3. Answered
    BY <1>1, <1>2 DEF RegInv
  <2>4. phase' \in PastCaps
    BY <1>5 DEF PastCaps
  <2> HIDE DEF Waiting, Answered
  <2>5. QED
    BY <1>1, <1>2, <1>5, <1>6, <1>7, <2>2, <2>3, <2>4, RegKeeps DEF PastCaps, AmidCaps
<1>12. CapInv'
  BY <1>1, <1>2, <1>5, <1>6, <1>7, <1>9, CapKeeps
<1>13. SaslInv'
  BY <1>1, <1>2, <1>5, <1>6, <1>7, SaslKeeps DEF EarlyPhases, SaslPhases
<1>14. QED
  BY <1>8, <1>10, <1>11, <1>12, <1>13 DEF NegInv

\* 903: authenticated.
LEMMA SaslSuccessStep ==
  ASSUME NegInv, OnSaslSuccess
  PROVE  NegInv'
<1>1. Types /\ NickInv /\ RegInv /\ CapInv /\ SaslInv /\ WireTypes
  BY DEF NegInv, Types
<1>2. /\ UNCHANGED <<cfg, chosenNick, desiredCaps, supported, capValue, engine,
                     c2s, sent, lost, srv>>
      /\ Read /\ phase = "WaitSasl" /\ Msg.cmd = "903" /\ phase' = "EndCap"
  BY DEF OnSaslSuccess
<1>3. \A K : OldCmds(K, 0) /\ OldMsgs(K) /\ c2s' \in Seq(Commands)
  BY <1>1, <1>2, SameCmds, ReadMoves
<1>4. Types'
  BY <1>1, <1>2, <1>3, ReadTyped DEF Types, ClientTypes, Phases
<1>5. Active' /\ Active
  BY <1>2 DEF Active
<1>6. NickInv'
  BY <1>1, <1>2, <1>3, <1>5, NickKeeps
<1>7. Answered
  <2>1. Flying({"903"}) # {}
    BY <1>1, <1>2, Reads DEF Flying
  <2>2. QED
    BY <1>1, <2>1 DEF RegInv, Answered
<1>8. RegInv'
  BY <1>1, <1>2, <1>3, <1>7, RegKeeps DEF PastCaps, AmidCaps
<1>9. CapInv'
  BY <1>1, <1>2, <1>3, <1>5, CapKeeps
<1>10. SaslInv'
  BY <1>1, <1>2, <1>3, SaslKeeps DEF EarlyPhases, SaslPhases
<1>11. QED
  BY <1>4, <1>6, <1>8, <1>9, <1>10 DEF NegInv

\* Two elements in a row.
LEMMA Joins ==
  ASSUME NEW S, NEW a \in S, NEW b \in S
  PROVE  <<a>> \o <<b>> = <<a, b>>
<1> DEFINE p == <<a>>
           q == <<b>>
           r == <<a, b>>
<1>1. p \in Seq(S) /\ q \in Seq(S) /\ r \in Seq(S)
  OBVIOUS
<1>2. p[1] = a /\ q[1] = b /\ r[1] = a /\ r[2] = b
  OBVIOUS
<1>3. Len(p) = 1 /\ Len(q) = 1 /\ Len(r) = 2
  OBVIOUS
<1> HIDE DEF p, q, r
<1>4. /\ p \o q \in Seq(S) /\ Len(p \o q) = Len(p) + Len(q)
      /\ \A i \in 1..Len(p) + Len(q) :
           (p \o q)[i] = IF i <= Len(p) THEN p[i] ELSE q[i - Len(p)]
  BY <1>1, ConcatProperties, Zenon
<1> DEFINE w == p \o q
<1>5. /\ w \in Seq(S) /\ Len(w) = 1 + 1
      /\ \A i \in 1..1 + 1 : w[i] = IF i <= 1 THEN p[i] ELSE q[i - 1]
  BY <1>3, <1>4, Zenon
<1> HIDE DEF w
<1>6. w[1] = p[1] /\ w[2] = q[1]
  BY <1>5
<1>7. \A i \in 1..2 : i = 1 \/ i = 2
  OBVIOUS
<1>8. \A i \in 1..2 : w[i] = r[i]
  BY <1>2, <1>6, <1>7, Zenon
<1>9. Len(w) = 2
  BY <1>5
<1>10. w = r
  BY <1>1, <1>3, <1>5, <1>8, <1>9, SeqEqual, Zenon
<1>11. QED
  BY <1>10 DEF w, p, q, r

\* What the engine's methods can be.
LEMMA MethodsAre ==
  /\ \A ms \in SUBSET Methods :
       InOrder(ms) \in {<<>>, <<"EXTERNAL">>, <<"PLAIN">>, Preference}
  /\ \A ms \in SUBSET Methods : ms # Methods => Len(InOrder(ms)) <= 1
  /\ Len(<<>>) = 0 /\ Len(<<"EXTERNAL">>) = 1 /\ Len(<<"PLAIN">>) = 1 /\ Len(Preference) = 2
  /\ <<"EXTERNAL">>[1] = "EXTERNAL" /\ <<"PLAIN">>[1] = "PLAIN"
  /\ Preference[1] = "EXTERNAL" /\ Preference[2] = "PLAIN"
  /\ "EXTERNAL" \notin ToSet(<<"PLAIN">>)
<1>1. Preference[1] = "EXTERNAL" /\ Preference[2] = "PLAIN" /\ Len(Preference) = 2
  BY DEF Preference
<1>2. ASSUME NEW ms \in SUBSET Methods
      PROVE  /\ InOrder(ms) \in {<<>>, <<"EXTERNAL">>, <<"PLAIN">>, Preference}
             /\ ms # Methods => Len(InOrder(ms)) <= 1
  <2>1. InOrder(ms) = (IF "EXTERNAL" \in ms THEN <<"EXTERNAL">> ELSE <<>>)
                        \o (IF "PLAIN" \in ms THEN <<"PLAIN">> ELSE <<>>)
    BY <1>1 DEF InOrder
  <2>2. CASE "EXTERNAL" \in ms /\ "PLAIN" \in ms
    <3>1. <<"EXTERNAL">> \o <<"PLAIN">> = Preference
      <4>1. "EXTERNAL" \in Methods /\ "PLAIN" \in Methods
        BY DEF Methods
      <4>2. <<"EXTERNAL">> \o <<"PLAIN">> = <<"EXTERNAL", "PLAIN">>
        BY <4>1, Joins, Zenon
      <4>3. QED
        BY <4>2 DEF Preference
    <3>2. ms = Methods
      BY <2>2 DEF Methods
    <3>3. QED
      BY <2>1, <2>2, <3>1, <3>2
  <2>3. CASE "EXTERNAL" \in ms /\ "PLAIN" \notin ms
    <3>1. InOrder(ms) = <<"EXTERNAL">>
      BY <2>1, <2>3
    <3>2. QED
      BY <3>1
  <2>4. CASE "EXTERNAL" \notin ms /\ "PLAIN" \in ms
    <3>1. InOrder(ms) = <<"PLAIN">>
      BY <2>1, <2>4
    <3>2. QED
      BY <3>1
  <2>5. CASE "EXTERNAL" \notin ms /\ "PLAIN" \notin ms
    <3>1. InOrder(ms) = <<>>
      BY <2>1, <2>5
    <3>2. QED
      BY <3>1
  <2>6. QED
    BY <2>2, <2>3, <2>4, <2>5
<1>3. "EXTERNAL" \notin ToSet(<<"PLAIN">>)
  BY DEF ToSet
<1>4. Len(<<>>) = 0 /\ Len(<<"EXTERNAL">>) = 1 /\ Len(<<"PLAIN">>) = 1
  OBVIOUS
<1>5. <<"EXTERNAL">>[1] = "EXTERNAL" /\ <<"PLAIN">>[1] = "PLAIN"
  OBVIOUS
<1>6. QED
  BY <1>1, <1>2, <1>3, <1>4, <1>5

\* A list of methods names methods.
LEMMA ListsMethods ==
  ASSUME NEW list \in MethodLists
  PROVE  ToSet(list) \in SUBSET Methods
BY DEF MethodLists, ToSet, Methods

\* A new engine.
LEMMA EngineIs ==
  ASSUME NEW list \in MethodLists
  PROVE  /\ SetMethods(list) \in Engines
         /\ SetMethods(list).idx = 0 /\ SetMethods(list).made
         /\ SetMethods(list).methods = InOrder(ToSet(list))
         /\ SetMethods(list).idx <= Len(SetMethods(list).methods)
<1> DEFINE ms == ToSet(list)
<1>1. InOrder(ms) \in {<<>>, <<"EXTERNAL">>, <<"PLAIN">>, Preference}
  BY ListsMethods, MethodsAre
<1>2. /\ SetMethods(list) = [methods |-> InOrder(ms), idx |-> 0, made |-> TRUE]
      /\ SetMethods(list).methods = InOrder(ms)
      /\ SetMethods(list).idx = 0 /\ SetMethods(list).made
  BY DEF SetMethods
<1> HIDE DEF ms
<1>3. Len(InOrder(ms)) \in {0, 1, 2}
  BY <1>1, MethodsAre, Zenon
<1> HIDE DEF InOrder
<1>4. SetMethods(list) \in Engines
  BY <1>1, <1>2 DEF Engines
<1>5. 0 <= Len(InOrder(ms))
  BY <1>3
<1>6. QED
  BY <1>2, <1>4, <1>5, Zenon DEF ms

\* The current method of an engine that has begun and is not exhausted.
LEMMA CurMethodIs ==
  ASSUME NEW e, e.methods \in {<<>>, <<"EXTERNAL">>, <<"PLAIN">>, Preference},
         e.idx \in 1..Len(e.methods)
  PROVE  CurMethod(e) \in Methods
<1>1. \A ms \in {<<>>, <<"EXTERNAL">>, <<"PLAIN">>, Preference} :
        \A k \in 1..Len(ms) : ms[k] \in Methods
  <2>1. \A k \in 1..0 : FALSE
    OBVIOUS
  <2>2. "EXTERNAL" \in Methods /\ "PLAIN" \in Methods
    BY DEF Methods
  <2>3. QED
    BY <2>1, <2>2, UpTo, MethodsAre, Zenon
<1>2. QED
  BY <1>1, Zenon DEF CurMethod

\* The server's stimulus: it is the server's last word, on the current method, and the
\* answer is the client's.
LEMMA AuthenticateStep ==
  ASSUME NegInv, OnAuthenticate
  PROVE  NegInv'
<1>1. Types /\ NickInv /\ RegInv /\ CapInv /\ SaslInv /\ WireTypes
  BY DEF NegInv, Types
<1>2. /\ UNCHANGED <<cfg, chosenNick, desiredCaps, supported, capValue, engine, sent, lost, srv>>
      /\ Read /\ phase = "WaitSasl" /\ Msg.cmd = "AUTHENTICATE"
  BY DEF OnAuthenticate
<1>n. Len(allReadMsgs) + 1 \in Flying({"AUTHENTICATE"}) /\ Len(allReadMsgs) + 1 \in Flying(SaslMsgs)
  BY <1>1, <1>2, Reads DEF Flying, SaslMsgs
<1>3. InTurn
  <2>1. ASSUME GivesUp PROVE FALSE
    <3>1. PICK n \in Flying({"904"}) : \A m \in Flying(SaslMsgs) : n <= m
      BY <2>1 DEF GivesUp
    <3>2. n <= Len(allReadMsgs) + 1 /\ n \in Flight /\ sent[n].cmd = "904"
      BY <1>n, <3>1 DEF Flying
    <3>3. n = Len(allReadMsgs) + 1
      BY <1>1, <3>2 DEF Flight, WireTypes
    <3>4. QED
      BY <1>1, <1>2, <3>2, <3>3, Reads
  <2>2. QED
    BY <1>1, <1>2, <2>1 DEF SaslInv
<1>4. Waiting(SaslCmds) = {} /\ srv.mech = CurMethod(engine)
  <2> HIDE DEF Waiting, Flying, CurMethod
  <2>1. QED
    BY <1>n, <1>3 DEF InTurn
<1>5. Flying(SaslMsgs)' = {}
  <2>1. SUFFICES ASSUME NEW m \in Flying(SaslMsgs)' PROVE FALSE
    OBVIOUS
  <2>2. m \in Flying(SaslMsgs) /\ Len(allReadMsgs) + 1 < m
    <3>1. m \in Flight' /\ sent'[m].cmd \in SaslMsgs
      BY <2>1 DEF Flying
    <3>2. m \in Flight /\ m > Len(allReadMsgs) + 1
      BY <1>1, <1>2, <3>1, Reads
    <3>3. QED
      BY <1>1, <1>2, <3>1, <3>2 DEF Flying, Flight, WireTypes
  <2>3. sent[Len(allReadMsgs) + 1].cmd = "908"
    BY <1>n, <1>3, <2>2 DEF InTurn
  <2>4. QED
    BY <1>1, <1>2, <2>3, Reads
<1> DEFINE com == [cmd |-> "RESPONSE", method |-> CurMethod(engine)]
<1>6. com \in Commands /\ com.cmd = "RESPONSE" /\ com.method = CurMethod(engine)
  <2>1. CurMethod(engine) \in Methods
    <3>1. engine.idx \in 1..Len(engine.methods)
      BY <1>1, <1>2 DEF SaslInv, Types, ClientTypes, Engines
    <3>2. engine.methods \in {<<>>, <<"EXTERNAL">>, <<"PLAIN">>, Preference}
      BY <1>1 DEF Types, ClientTypes, Engines
    <3>3. QED
      BY <3>1, <3>2, CurMethodIs
  <2>2. QED
    BY <2>1 DEF Commands
<1>7. Write(<<com>>, "WaitSasl")
  BY DEF OnAuthenticate, Stimulus
<1> HIDE DEF com
<1>8. /\ c2s' \in Seq(Commands) /\ phase' \in {"WaitSasl", "draining"}
      /\ \A K : "RESPONSE" \notin K => OldCmds(K, 0)
      /\ \A i \in DOMAIN c2s' :
           \/ i \in DOMAIN c2s /\ c2s'[i] = c2s[i]
           \/ i = Len(c2s) + 1 /\ c2s'[i] = com
  BY <1>1, <1>6, <1>7, WriteOne
<1>9. \A K : OldMsgs(K)
  BY <1>1, <1>2, ReadMoves
<1>10. OldCmds({"CAP REQ"}, 0) /\ OldCmds({"CAP END"}, 0) /\ OldCmds({"NICK"}, 0)
       /\ OldCmds({"CAP LS"}, 0) /\ OldCmds({"AUTHENTICATE"}, 0)
  BY <1>8
<1>11. Types'
  <2>1. WireTypes'
    BY <1>1, <1>2, <1>8, ReadTyped
  <2>2. QED
    BY <1>1, <1>2, <1>8, <2>1 DEF Types, ClientTypes, Phases
<1>12. NickInv' /\ CapInv'
  <2>1. Active
    BY <1>2 DEF Active
  <2>2. NickInv'
    BY <1>1, <1>2, <1>8, <1>9, <1>10, <2>1, NickKeeps
  <2>3. CapInv'
    BY <1>1, <1>2, <1>8, <1>9, <1>10, <2>1, CapKeeps
  <2>4. QED
    BY <2>2, <2>3
<1>13. RegInv'
  BY <1>1, <1>2, <1>8, <1>9, <1>10, RegKeeps DEF PastCaps, AmidCaps
<1>14. SaslInv'
  <2>1. \A i \in Waiting(SaslCmds)' : i = Len(c2s) + 1 /\ c2s'[i] = com
    <3>1. ASSUME NEW i \in DOMAIN c2s', c2s'[i].cmd \in SaslCmds
          PROVE  i = Len(c2s) + 1 /\ c2s'[i] = com
      BY <1>4, <1>8, <3>1 DEF Waiting
    <3>2. QED
      BY <3>1 DEF Waiting
  <2>2. \A i \in Waiting({"RESPONSE"})' : i \in Waiting(SaslCmds)'
    BY DEF Waiting, SaslCmds
  <2>3. PasswordLast'
    <3>1. \A i \in DOMAIN c2s' :
            c2s'[i].cmd = "AUTHENTICATE" => i \in DOMAIN c2s /\ c2s'[i] = c2s[i]
      BY <1>6, <1>8
    <3>2. QED
      BY <1>1, <1>2, <3>1 DEF PasswordLast, SaslInv
  <2>4. engine'.made /\ engine'.idx > 0
    BY <1>1, <1>2 DEF SaslInv
  <2>5. \A K \in {{"AUTHENTICATE"}, {"904", "908"}, {"908"}} : Flying(K)' = {}
    BY <1>5 DEF Flying, SaslMsgs
  <2>6. Refused(engine.idx - 1)'
    BY <1>2, <1>3 DEF InTurn, Refused
  <2>7. CurMethod(engine)' = CurMethod(engine) /\ srv'.mech = srv.mech
    BY <1>2 DEF CurMethod
  <2> HIDE DEF Waiting, Flying, CurMethod, SaslCmds, SaslMsgs, PasswordLast, Refused
  <2>8. InTurn'
    BY <1>5, <1>6, <2>1, <2>5, <2>6, <2>7 DEF InTurn
  <2>9. \A i \in Waiting({"RESPONSE"})' : c2s'[i].method = srv'.mech
    BY <1>4, <1>6, <2>1, <2>2, <2>7
  <2>10. QED
    BY <1>8, <2>1, <2>3, <2>4, <2>8, <2>9 DEF SaslInv
<1>15. QED
  BY <1>11, <1>12, <1>13, <1>14 DEF NegInv

\* A method is refused: the engine goes on to the next one, from the start if the
\* server named its methods.
LEMMA SaslRefusedStep ==
  ASSUME NegInv, OnSaslRefused
  PROVE  NegInv'
<1>1. Types /\ NickInv /\ RegInv /\ CapInv /\ SaslInv /\ WireTypes
  BY DEF NegInv, Types
<1>2. /\ UNCHANGED <<cfg, chosenNick, desiredCaps, supported, capValue, c2s, sent, lost, srv>>
      /\ Read /\ phase = "WaitSasl" /\ phase' = "StartSasl" /\ Msg.cmd \in {"904", "908"}
      /\ engine' = IF Msg.cmd = "908" THEN SetMethods(Msg.methods) ELSE engine
  BY DEF OnSaslRefused, AfterRefusal
<1> DEFINE next == Len(allReadMsgs) + 1
<1>n. /\ next \in Flying({"904", "908"}) /\ next \in Flying(SaslMsgs)
      /\ Msg = sent[next] /\ Msg \in Messages /\ next \in Nat
  BY <1>1, <1>2, Reads DEF Flying, SaslMsgs, WireTypes
<1>3. \A K : OldCmds(K, 0) /\ OldMsgs(K) /\ c2s' \in Seq(Commands)
  BY <1>1, <1>2, SameCmds, ReadMoves
<1>4. \A m \in Flying(SaslMsgs)' : /\ m \in Flying(SaslMsgs) /\ next < m
                                   /\ sent'[m] = sent[m]
  <2>1. ASSUME NEW m \in Flight', sent'[m].cmd \in SaslMsgs
        PROVE  m \in Flight /\ next < m /\ sent'[m] = sent[m]
    BY <1>1, <1>2, <2>1, Reads DEF Flight, WireTypes
  <2>2. QED
    BY <1>2, <2>1 DEF Flying
<1>5. Types'
  <2>1. WireTypes'
    BY <1>1, <1>2, <1>3, ReadTyped
  <2>2. engine' \in Engines /\ engine'.idx <= Len(engine'.methods)
    <3>1. CASE Msg.cmd = "908"
      BY <1>2, <1>n, <3>1, MessageFields, EngineIs
    <3>2. CASE Msg.cmd # "908"
      BY <1>1, <1>2, <3>2 DEF Types, ClientTypes
    <3>3. QED
      BY <3>1, <3>2
  <2>3. QED
    BY <1>1, <1>2, <2>1, <2>2 DEF Types, ClientTypes, Phases
<1>6. NickInv' /\ CapInv'
  <2>1. Active
    BY <1>2 DEF Active
  <2>2. NickInv'
    BY <1>1, <1>2, <1>3, <2>1, NickKeeps
  <2>3. CapInv'
    BY <1>1, <1>2, <1>3, <2>1, CapKeeps
  <2>4. QED
    BY <2>2, <2>3
<1>7. RegInv'
  BY <1>1, <1>2, <1>3, RegKeeps DEF PastCaps, AmidCaps
<1>8. SaslInv'
  <2>1. Waiting(SaslCmds)' = Waiting(SaslCmds) /\ Waiting({"RESPONSE"})' = Waiting({"RESPONSE"})
    BY <1>2 DEF Waiting
  <2>2. engine'.made
    BY <1>1, <1>2, <1>n, MessageFields, EngineIs DEF SaslInv
  <2>3. CASE GivesUp
    <3>1. PICK n \in Flying({"904"}) : \A m \in Flying(SaslMsgs) : n <= m
      BY <2>3 DEF GivesUp
    <3>2. n <= next /\ n \in Flight /\ sent[n].cmd = "904"
      BY <1>n, <3>1 DEF Flying
    <3>3. n = next
      BY <1>1, <3>2 DEF Flight, WireTypes
    <3>4. engine' = engine
      BY <1>2, <1>n, <3>2, <3>3
    <3>5. Exhausted(engine)' /\ Waiting({"RESPONSE"})' = {}
      <4>1. engine.idx = Len(engine.methods) /\ Waiting({"RESPONSE"}) = {}
        BY <2>3 DEF GivesUp
      <4>2. Len(engine.methods) \in Nat
        BY <1>1, <4>1 DEF Types, ClientTypes, Engines
      <4>3. QED
        BY <2>1, <3>4, <4>1, <4>2 DEF Exhausted
    <3>6. PasswordLast'
      BY <1>1, <1>2, <3>4 DEF SaslInv, PasswordLast
    <3> HIDE DEF Waiting, PasswordLast
    <3>7. QED
      BY <1>2, <2>2, <3>5, <3>6 DEF SaslInv
  <2>4. CASE InTurn
    <3>1. Waiting(SaslCmds) = {}
      <4> HIDE DEF Waiting, Flying
      <4>1. QED
        BY <1>n, <2>4 DEF InTurn
    <3>2. PasswordLast'
      BY <1>2, <3>1 DEF Waiting, SaslCmds, PasswordLast
    <3>3. Waiting({"RESPONSE"})' = {}
      BY <2>1, <3>1 DEF Waiting, SaslCmds
    <3>4. CASE Msg.cmd = "904"
      <4>1. Flying(SaslMsgs)' = {}
        <5>1. SUFFICES ASSUME NEW m \in Flying(SaslMsgs)' PROVE FALSE
          OBVIOUS
        <5>2. sent[next].cmd = "908"
          <6>1. m \in Flying(SaslMsgs) /\ next < m
            BY <1>4
          <6>2. QED
            BY <1>n, <2>4, <6>1 DEF InTurn
        <5>3. QED
          BY <1>n, <3>4, <5>2
      <4>2. engine' = engine
        BY <1>2, <3>4
      <4>3. Refused(engine.idx)'
        BY <1>2, <1>n, <2>4, <4>2 DEF InTurn, Refused
      <4> HIDE DEF Waiting, Flying, PasswordLast, Refused
      <4>4. QED
        BY <1>2, <2>1, <2>2, <3>1, <3>2, <3>3, <4>1, <4>3 DEF SaslInv, Silent
    <3>5. CASE Msg.cmd = "908"
      <4>1. Msg.methods = cfg.mechs
        <5>1. next \in Flying({"908"})
          BY <1>n, <3>5 DEF Flying
        <5>2. QED
          BY <1>n, <2>4, <5>1 DEF InTurn
      <4>2. cfg.mechs \in MethodLists /\ ToSet(cfg.mechs) \in SUBSET Methods
        BY <1>1, ListsMethods DEF Types, ClientTypes, Cfgs
      <4>3. engine'.idx = 0 /\ engine'.methods = InOrder(ToSet(cfg.mechs))
        BY <1>2, <3>5, <4>1, <4>2, EngineIs
      <4>4. Refused(engine.idx)'
        <5>1. \A j \in 1..0 : FALSE
          OBVIOUS
        <5>2. QED
          BY <4>3, <5>1 DEF Refused
      <4>5. \A m \in Flying(SaslMsgs)' :
              sent[m].cmd = "904" /\ ToSet(cfg.mechs) # Methods /\ m \in Flight'
        <5>1. TAKE m \in Flying(SaslMsgs)'
        <5>2. m \in Flying(SaslMsgs) /\ next < m
          BY <1>4
        <5>3. sent[m].cmd = "904" /\ ToSet(cfg.mechs) # Methods
          BY <1>n, <2>4, <5>2 DEF InTurn
        <5>4. QED
          BY <5>3 DEF Flying
      <4>6. \A m, n \in Flying(SaslMsgs)' : ~(m < n)
        <5>1. TAKE m, n \in Flying(SaslMsgs)'
        <5>2. m < n => sent[m].cmd = "908"
          BY <1>4, <2>4 DEF InTurn
        <5>3. QED
          BY <4>5, <5>2
      <4>7. CASE Flying(SaslMsgs)' = {}
        <5> HIDE DEF Waiting, Flying, PasswordLast, Refused
        <5>1. QED
          BY <1>2, <2>1, <2>2, <3>1, <3>2, <3>3, <4>4, <4>7 DEF SaslInv, Silent
      <4>8. CASE Flying(SaslMsgs)' # {}
        <5>1. PICK n \in Flying(SaslMsgs)' : TRUE
          BY <4>8
        <5>2. \A m \in Flying(SaslMsgs)' : m \in Nat
          BY <1>1, <1>4 DEF Flying, Flight, WireTypes
        <5>3. \A m \in Flying(SaslMsgs)' : m = n
          BY <4>6, <5>1, <5>2
        <5>4. n \in Flying({"904"})'
          BY <1>2, <4>5, <5>1 DEF Flying
        <5>5. Len(engine'.methods) <= 1
          BY <4>2, <4>3, <4>5, <5>1, MethodsAre
        <5>6. Flying(SaslMsgs)' = {n}
          BY <5>1, <5>3
        <5> HIDE DEF Waiting, Flying, PasswordLast
        <5>7. OneMore'
          BY <2>1, <3>1, <4>3, <5>4, <5>5, <5>6 DEF OneMore
        <5>8. QED
          BY <1>2, <2>1, <2>2, <3>1, <3>2, <3>3, <5>7 DEF SaslInv
      <4>9. QED
        BY <4>7, <4>8
    <3>6. QED
      BY <1>2, <3>4, <3>5
  <2>5. QED
    BY <1>1, <1>2, <2>3, <2>4 DEF SaslInv
<1>9. QED
  BY <1>5, <1>6, <1>7, <1>8 DEF NegInv

\* The next method is begun, if there is one: EXTERNAL before PLAIN, unless it was
\* refused or is not among the server's.
LEMMA StartSaslStep ==
  ASSUME NegInv, StartSasl
  PROVE  NegInv'
<1>1. Types /\ NickInv /\ RegInv /\ CapInv /\ SaslInv /\ WireTypes
  BY DEF NegInv, Types
<1>2. /\ UNCHANGED <<cfg, chosenNick, desiredCaps, supported, capValue, sent, lost, srv>>
      /\ phase = "StartSasl" /\ ClearCommand
  BY DEF StartSasl
<1>3. \A K : OldMsgs(K) /\ KeptMsgs(K)
  BY <1>1, <1>2, SameMsgs, Clears
<1>4. /\ engine.methods \in {<<>>, <<"EXTERNAL">>, <<"PLAIN">>, Preference}
      /\ engine.idx \in 0..2 /\ engine \in Engines /\ Len(engine.methods) \in Nat
  <2>1. \A ms \in {<<>>, <<"EXTERNAL">>, <<"PLAIN">>, Preference} : Len(ms) \in {0, 1, 2}
    BY MethodsAre, Zenon
  <2>2. /\ engine.methods \in {<<>>, <<"EXTERNAL">>, <<"PLAIN">>, Preference}
        /\ engine.idx \in 0..2 /\ engine \in Engines
    BY <1>1 DEF Types, ClientTypes, Engines
  <2>3. QED
    BY <2>1, <2>2
<1>a. Active
  BY <1>2 DEF Active
<1>5. CASE Exhausted(engine)
  <2>1. phase' = "draining" /\ UNCHANGED <<engine, c2s>>
    BY <1>5 DEF StartSasl
  <2>2. \A K : OldCmds(K, 0) /\ c2s' \in Seq(Commands)
    BY <1>1, <2>1, SameCmds
  <2>3. Types'
    <3>1. WireTypes'
      BY <1>1, <1>2, <2>2, ClearTyped
    <3>2. QED
      BY <1>1, <1>2, <2>1, <3>1 DEF Types, ClientTypes, Phases
  <2>4. NickInv' /\ CapInv'
    <3>1. NickInv'
      BY <1>1, <1>2, <1>3, <1>a, <2>1, <2>2, NickKeeps
    <3>2. CapInv'
      BY <1>1, <1>2, <1>3, <1>a, <2>1, <2>2, CapKeeps
    <3>3. QED
      BY <3>1, <3>2
  <2>5. RegInv'
    BY <1>1, <1>2, <1>3, <2>1, <2>2, RegKeeps DEF PastCaps, AmidCaps
  <2>6. SaslInv'
    BY <1>1, <1>2, <1>3, <2>1, <2>2, SaslKeeps DEF EarlyPhases, SaslPhases
  <2>7. QED
    BY <2>3, <2>4, <2>5, <2>6 DEF NegInv
<1>6. CASE ~Exhausted(engine)
  <2>1. engine' = [engine EXCEPT !.idx = engine.idx + 1]
    BY <1>6 DEF StartSasl
  <2>2. /\ engine'.idx = engine.idx + 1 /\ engine'.methods = engine.methods
        /\ engine'.made = engine.made
        /\ engine.idx < Len(engine.methods)
        /\ engine'.idx \in 1..Len(engine.methods)
    BY <1>4, <1>6, <2>1 DEF Exhausted, Engines
  <2>3. CurMethod(engine') \in Methods
    BY <1>4, <2>2, CurMethodIs
  <2> DEFINE com == [cmd |-> "AUTHENTICATE", method |-> CurMethod(engine')]
  <2>4. com \in Commands /\ com.cmd = "AUTHENTICATE" /\ com.method = CurMethod(engine')
    BY <2>3 DEF Commands
  <2>5. Write(<<com>>, "WaitSasl")
    BY <1>6 DEF StartSasl
  <2> HIDE DEF com
  <2>6. /\ c2s' \in Seq(Commands) /\ phase' \in {"WaitSasl", "draining"}
        /\ \A K : "AUTHENTICATE" \notin K => OldCmds(K, 0)
        /\ \A i \in DOMAIN c2s' :
             \/ i \in DOMAIN c2s /\ c2s'[i] = c2s[i]
             \/ phase' = "WaitSasl" /\ i = Len(c2s) + 1 /\ c2s'[i] = com
    BY <1>1, <2>4, <2>5, WriteOne
  <2>7. OldCmds({"CAP REQ"}, 0) /\ OldCmds({"CAP END"}, 0) /\ OldCmds({"NICK"}, 0)
        /\ OldCmds({"CAP LS"}, 0) /\ OldCmds({"RESPONSE"}, 0)
    BY <2>6
  <2>8. Types'
    <3>1. WireTypes'
      BY <1>1, <1>2, <2>6, ClearTyped
    <3>2. engine' \in Engines /\ engine'.idx <= Len(engine'.methods)
      <4>1. engine'.idx \in 0..2
        <5>1. Len(engine.methods) \in {0, 1, 2}
          BY <1>4, MethodsAre, Zenon
        <5> DEFINE l == Len(engine.methods)
        <5>2. l \in {0, 1, 2} /\ engine'.idx \in 1..l
          BY <2>2, <5>1
        <5> HIDE DEF l
        <5>3. QED
          BY <5>2
      <4>2. QED
        BY <1>4, <2>1, <2>2, <4>1 DEF Engines
    <3>3. QED
      BY <1>1, <1>2, <2>6, <3>1, <3>2 DEF Types, ClientTypes, Phases
  <2>9. NickInv' /\ CapInv'
    <3>1. NickInv'
      BY <1>1, <1>2, <1>3, <1>a, <2>6, <2>7, NickKeeps
    <3>2. CapInv'
      BY <1>1, <1>2, <1>3, <1>a, <2>6, <2>7, CapKeeps
    <3>3. QED
      BY <3>1, <3>2
  <2>10. RegInv'
    BY <1>1, <1>2, <1>3, <2>6, <2>7, RegKeeps DEF PastCaps, AmidCaps
  <2>11. SaslInv'
    <3>1. Waiting(SaslCmds) = {} /\ (OneMore \/ (Silent /\ Refused(engine.idx)))
      BY <1>1, <1>2, <1>6 DEF SaslInv, Silent, OneMore
    <3>2. \A i \in DOMAIN c2s' :
            c2s'[i].cmd \in SaslCmds =>
              phase' = "WaitSasl" /\ i = Len(c2s) + 1 /\ c2s'[i] = com
      BY <2>6, <3>1 DEF Waiting
    <3>3. PasswordLast'
      <4>1. CurMethod(engine') = "PLAIN" =>
              "EXTERNAL" \in srv.refused \/ "EXTERNAL" \notin ToSet(engine.methods)
        <5>1. CASE engine.methods = <<>>
          BY <2>2, <5>1, MethodsAre
        <5>2. CASE engine.methods = <<"EXTERNAL">>
          BY <1>4, <2>2, <5>2, MethodsAre DEF CurMethod
        <5>3. CASE engine.methods = <<"PLAIN">>
          BY <5>3, MethodsAre
        <5>4. CASE engine.methods = Preference
          <6>1. CASE engine.idx = 0
            BY <2>2, <5>4, <6>1, MethodsAre DEF CurMethod
          <6>2. CASE engine.idx = 1
            <7>1. Refused(1)
              BY <3>1, <6>2 DEF OneMore
            <7>2. 1 \in 1..1
              OBVIOUS
            <7>3. QED
              BY <5>4, <7>1, <7>2, MethodsAre, Zenon DEF Refused
          <6>3. QED
            BY <1>4, <2>2, <5>4, <6>1, <6>2, MethodsAre
        <5>5. QED
          BY <1>4, <5>1, <5>2, <5>3, <5>4, Zenon
      <4>2. \A i \in DOMAIN c2s' : c2s'[i].cmd = "AUTHENTICATE" => c2s'[i] = com
        BY <3>2 DEF SaslCmds
      <4>3. QED
        BY <1>2, <2>2, <2>4, <4>1, <4>2 DEF PasswordLast
    <3>4. Waiting({"RESPONSE"})' = {}
      BY <2>4, <3>2 DEF Waiting, SaslCmds
    <3>5. /\ \A i \in Waiting(SaslCmds)' : i = Len(c2s) + 1 /\ c2s'[i] = com
      BY <3>2 DEF Waiting
    <3>6. \A K : Flying(K)' = Flying(K)
      BY <1>2, <1>1, Clears DEF Flying, Flight
    <3>7. engine'.made
      BY <1>1, <1>2, <2>2 DEF SaslInv
    <3>8. CASE Silent /\ Refused(engine.idx)
      <4>1. \A K \in {{"AUTHENTICATE"}, {"904", "908"}, {"908"}, SaslMsgs} : Flying(K)' = {}
        BY <3>6, <3>8 DEF Silent, Flying, SaslMsgs
      <4>2. Refused(engine.idx - 1)'
        <5>1. engine'.idx - 1 = engine.idx
          BY <1>4, <2>2
        <5>2. QED
          BY <1>2, <2>2, <3>8, <5>1 DEF Refused
      <4> HIDE DEF Waiting, Flying, CurMethod, SaslCmds, SaslMsgs, PasswordLast, Refused
      <4>3. InTurn'
        <5>1. CurMethod(engine)' = CurMethod(engine')
          BY DEF CurMethod
        <5>2. QED
          BY <2>4, <3>5, <4>1, <4>2, <5>1 DEF InTurn
      <4>4. QED
        BY <2>2, <2>6, <3>3, <3>4, <3>7, <4>3 DEF SaslInv
    <3>9. CASE OneMore
      <4>1. PICK n \in Flying({"904"}) : Flying(SaslMsgs) = {n}
        BY <3>9 DEF OneMore
      <4>2. n \in Flying({"904"})' /\ \A m \in Flying(SaslMsgs)' : n <= m
        <5>1. n \in Nat
          BY <1>1, <4>1 DEF Flying, Flight, WireTypes
        <5>2. n \in Flying({"904"})' /\ \A m \in Flying(SaslMsgs)' : m = n
          BY <3>6, <4>1, Zenon
        <5>3. QED
          BY <5>1, <5>2
      <4>3. engine'.idx = Len(engine'.methods) /\ Len(engine'.methods) <= 1
        <5> DEFINE l == Len(engine.methods)
        <5>1. engine.idx = 0 /\ l <= 1
          BY <3>9 DEF OneMore
        <5>2. l \in Nat /\ engine'.idx = engine.idx + 1 /\ engine.idx < l
          BY <1>4, <2>2
        <5>3. Len(engine'.methods) = l
          BY <2>2
        <5> HIDE DEF l
        <5>4. QED
          BY <5>1, <5>2, <5>3
      <4> HIDE DEF Waiting, Flying, CurMethod, SaslCmds, SaslMsgs, PasswordLast
      <4>4. GivesUp'
        BY <3>4, <4>2, <4>3 DEF GivesUp
      <4>5. QED
        BY <2>2, <2>6, <3>3, <3>4, <3>7, <4>4 DEF SaslInv
    <3>10. QED
      BY <3>1, <3>8, <3>9
  <2>12. QED
    BY <2>8, <2>9, <2>10, <2>11 DEF NegInv
<1>7. QED
  BY <1>5, <1>6

\* The end of the capability list: each capability of interest is requested, in one
\* request; none was before.
LEMMA CapListStep ==
  ASSUME NegInv, OnCapList
  PROVE  NegInv'
<1>1. Types /\ NickInv /\ RegInv /\ CapInv /\ SaslInv /\ WireTypes
  BY DEF NegInv, Types
<1>2. /\ UNCHANGED <<cfg, chosenNick, engine, sent, lost, srv>>
      /\ Read /\ phase = "WaitCapList" /\ Msg.cmd = "CAP LS"
      /\ supported' = supported \cup Msg.caps
      /\ capValue' = IF Msg.value # NoValue THEN Msg.value ELSE capValue
  BY DEF OnCapList
<1>3. \A K : OldMsgs(K)
  BY <1>1, <1>2, ReadMoves
<1>4. Msg \in Messages /\ Len(allReadMsgs) + 1 \in Flying({"CAP LS"})
  BY <1>1, <1>2, Reads DEF Flying
<1>5. supported' \in SUBSET Caps /\ capValue' \in MethodLists \cup {NoValue}
  BY <1>1, <1>2, <1>4, MessageFields DEF Types, ClientTypes
<1>a. Active
  BY <1>2 DEF Active
<1>b. /\ srv.cap = "active" /\ Waiting({"CAP END"}) = {}
      /\ \A c \in Wanted(cfg) : desiredCaps[c] = "desired"
      /\ DOMAIN desiredCaps = Wanted(cfg)
  <2>1. phase \notin PastCaps
    BY <1>2 DEF PastCaps
  <2>2. Flying({"CAP LS"}) # {}
    BY <1>4
  <2>3. srv.cap \in {"none", "active", "ended"}
    BY <1>1 DEF Types, Servers
  <2>4. DOMAIN desiredCaps = Wanted(cfg)
    BY <1>1 DEF Types, ClientTypes
  <2> HIDE DEF Waiting, Flying, PastCaps
  <2>5. QED
    BY <1>1, <1>2, <1>a, <2>1, <2>2, <2>3, <2>4 DEF RegInv, CapInv
<1>c. Waiting({"CAP REQ"}) = {}
  BY <1>1, <1>2, <1>a, NoRequests
<1>6. CASE Msg.more
  <2>1. UNCHANGED <<phase, desiredCaps, c2s>>
    BY <1>6 DEF OnCapList
  <2>2. \A K : OldCmds(K, 0) /\ c2s' \in Seq(Commands)
    BY <1>1, <2>1, SameCmds
  <2>3. Types'
    <3>1. WireTypes'
      BY <1>1, <1>2, <2>2, ReadTyped
    <3>2. QED
      BY <1>1, <1>2, <1>5, <2>1, <3>1 DEF Types, ClientTypes
  <2>4. NickInv' /\ CapInv'
    <3>1. Active' <=> Active
      BY <2>1 DEF Active
    <3>2. NickInv'
      BY <1>1, <1>2, <1>3, <2>2, <3>1, NickKeeps
    <3>3. CapInv'
      BY <1>1, <1>2, <1>3, <2>1, <2>2, <3>1, CapKeeps
    <3>4. QED
      BY <3>2, <3>3
  <2>5. RegInv'
    BY <1>1, <1>2, <1>3, <2>1, <2>2, RegKeeps
  <2>6. SaslInv'
    BY <1>1, <1>2, <1>3, <2>1, <2>2, SaslKeeps DEF EarlyPhases
  <2>7. QED
    BY <2>3, <2>4, <2>5, <2>6 DEF NegInv
<1>7. CASE ~Msg.more
  <2> DEFINE req == {c \in supported' \cap DOMAIN desiredCaps : desiredCaps[c] = "desired"}
             rs == Requests(req)
  <2>1. /\ desiredCaps' = [c \in DOMAIN desiredCaps |->
                             IF c \in req THEN "requested" ELSE desiredCaps[c]]
        /\ Write(rs, "WaitCapAck")
    BY <1>7 DEF OnCapList
  <2>2. req \in SUBSET Caps /\ req \subseteq Wanted(cfg)
    BY <1>5, <1>b
  <2> HIDE DEF req
  <2>3. /\ rs \in Seq(ReqCommands)
        /\ \A i \in 1..Len(rs) : rs[i].caps # {} /\ rs[i].caps \subseteq req
        /\ \A i, j \in 1..Len(rs) : i # j => rs[i].caps \cap rs[j].caps = {}
    BY <2>2, RequestsAre
  <2> HIDE DEF rs
  <2>4. rs \in Seq(Commands) /\ \A j \in 1..Len(rs) : rs[j].cmd = "CAP REQ"
    <3>1. ReqCommands \subseteq Commands /\ \A c \in ReqCommands : c.cmd = "CAP REQ"
      BY DEF Commands, ReqCommands
    <3>2. rs \in Seq(ReqCommands)
      BY <2>3
    <3>3. \A j \in 1..Len(rs) : rs[j] \in ReqCommands
      BY <3>2
    <3>4. rs \in Seq(Commands)
      <4>1. rs \in [1..Len(rs) -> ReqCommands] /\ Len(rs) \in Nat
        BY <3>2
      <4>2. rs \in [1..Len(rs) -> Commands]
        BY <3>1, <4>1
      <4>3. QED
        BY <4>1, <4>2
    <3>5. QED
      BY <3>1, <3>3, <3>4
  <2>5. /\ c2s' \in Seq(Commands)
        /\ (phase' = "WaitCapAck" /\ c2s' = c2s \o rs) \/ (phase' = "draining" /\ c2s' = c2s)
        /\ \A K : "CAP REQ" \notin K => OldCmds(K, 0)
    <3>1. \A K : "CAP REQ" \notin K => \A j \in 1..Len(rs) : rs[j].cmd \notin K
      BY <2>4
    <3>2. QED
      BY <1>1, <2>1, <2>4, <3>1, WriteMoves
  <2>6. OldCmds({"CAP END"}, 0) /\ OldCmds({"NICK"}, 0)
        /\ OldCmds({"CAP LS"}, 0) /\ OldCmds(SaslCmds, 0)
    BY <2>5 DEF SaslCmds
  <2>7. /\ desiredCaps' \in [Wanted(cfg) -> Statuses]
        /\ \A c \in Wanted(cfg) : desiredCaps'[c] = IF c \in req THEN "requested" ELSE "desired"
    BY <1>b, <2>1 DEF Statuses
  <2>8. Types'
    <3>1. WireTypes'
      BY <1>1, <1>2, <2>5, ReadTyped
    <3>2. phase' \in Phases
      BY <2>5 DEF Phases
    <3>3. ClientTypes'
      <4>1. cfg' = cfg /\ engine' = engine /\ lost' = lost
        BY <1>2
      <4>2. QED
        BY <1>1, <1>5, <2>7, <3>2, <4>1 DEF Types, ClientTypes
    <3>4. QED
      BY <1>1, <1>2, <3>1, <3>3 DEF Types
  <2>9. NickInv'
    BY <1>1, <1>2, <1>3, <1>a, <2>5, <2>6, NickKeeps
  <2>10. RegInv'
    BY <1>1, <1>2, <1>3, <1>b, <2>5, <2>6, RegKeeps DEF PastCaps, AmidCaps
  <2>11. SaslInv'
    BY <1>1, <1>2, <1>3, <2>5, <2>6, SaslKeeps DEF EarlyPhases, SaslPhases
  <2>12. CapInv'
    <3>1. CASE phase' = "draining"
      BY <3>1 DEF CapInv, Active
    <3>2. CASE phase' = "WaitCapAck" /\ c2s' = c2s \o rs
      <4>1. \A i \in DOMAIN c2s' : c2s'[i].cmd = "CAP REQ" =>
              i - Len(c2s) \in 1..Len(rs) /\ c2s'[i] = rs[i - Len(c2s)] /\ i \in Nat
        <5>1. TAKE i \in DOMAIN c2s'
        <5>2. HAVE c2s'[i].cmd = "CAP REQ"
        <5>3. i \in 1..Len(c2s) + Len(rs)
          BY <1>1, <2>4, <3>2, Queues
        <5>4. i \notin 1..Len(c2s)
          BY <1>1, <1>c, <2>4, <3>2, <5>2, Queues DEF Waiting
        <5>5. PICK j \in 1..Len(rs) : i = Len(c2s) + j
          BY <1>1, <2>4, <3>2, <5>3, <5>4, Queues
        <5>6. c2s'[i] = rs[j] /\ Len(c2s) \in Nat /\ Len(rs) \in Nat
          BY <1>1, <2>4, <3>2, <5>5, Queues
        <5>7. i - Len(c2s) = j /\ i \in Nat
          BY <5>5, <5>6
        <5>8. QED
          BY <5>6, <5>7
      <4>2. \A i \in Waiting({"CAP REQ"})' :
              i - Len(c2s) \in 1..Len(rs) /\ c2s'[i] = rs[i - Len(c2s)] /\ i \in Nat
        BY <4>1 DEF Waiting
      <4>3. \A n \in Flying({"CAP ACK", "CAP NAK"})' :
              n \in Flying({"CAP ACK", "CAP NAK"}) /\ sent'[n] = sent[n]
        BY <1>3 DEF OldMsgs, Flying
      <4> HIDE DEF Waiting, Flying, Active
      <4>4. /\ \A i \in Waiting({"CAP REQ"})' :
                 c2s'[i].caps # {} /\ c2s'[i].caps \subseteq req
            /\ \A n \in Flying({"CAP ACK", "CAP NAK"})' : sent'[n].caps \subseteq Wanted(cfg)
            /\ srv.enabled \subseteq Wanted(cfg)
        <5>1. ASSUME NEW i \in Waiting({"CAP REQ"})'
              PROVE  c2s'[i].caps # {} /\ c2s'[i].caps \subseteq req
          BY <2>3, <4>2
        <5>2. /\ \A n \in Flying({"CAP ACK", "CAP NAK"}) : sent[n].caps \subseteq Wanted(cfg)
              /\ srv.enabled \subseteq Wanted(cfg)
          BY <1>1, <1>a DEF CapInv
        <5>3. ASSUME NEW n \in Flying({"CAP ACK", "CAP NAK"})'
              PROVE  sent'[n].caps \subseteq Wanted(cfg)
          BY <4>3, <5>2
        <5>4. QED
          BY <5>1, <5>2, <5>3
      <4>5. ASSUME NEW c \in Wanted(cfg)
            PROVE  CapStatus(c)'
        <5>1. Answering(c) = {} /\ c \notin srv.enabled
          <6>1. CapStatus(c) /\ desiredCaps[c] = "desired"
            BY <1>1, <1>a, <1>b, <4>5 DEF CapInv
          <6>2. QED
            BY <6>1 DEF CapStatus
        <5>2. Answering(c)' = {}
          BY <4>3, <5>1 DEF Answering
        <5>3. \A i, j \in Asking(c)' : i = j
          <6>1. TAKE i, j \in Asking(c)'
          <6>2. /\ i \in Waiting({"CAP REQ"})' /\ j \in Waiting({"CAP REQ"})'
                /\ c \in c2s'[i].caps /\ c \in c2s'[j].caps
            BY DEF Asking
          <6>3. i - Len(c2s) = j - Len(c2s)
            BY <2>3, <4>2, <6>2
          <6>4. i \in Nat /\ j \in Nat
            BY <4>2, <6>2
          <6>5. Len(c2s) \in Nat
            BY <1>1 DEF WireTypes
          <6>6. QED
            BY <6>3, <6>4, <6>5
        <5>4. Asking(c)' # {} => c \in req
          BY <4>4 DEF Asking
        <5>5. desiredCaps'[c] # "requested" => c \notin req /\ desiredCaps'[c] = "desired"
          BY <2>7
        <5>6. srv' = srv
          BY <1>2
        <5> HIDE DEF Asking, Answering
        <5>7. QED
          BY <3>2, <5>1, <5>2, <5>3, <5>4, <5>5, <5>6 DEF CapStatus
      <4>6. phase' \notin {"Start", "WaitCapList"} /\ cfg' = cfg /\ srv' = srv
        BY <1>2, <3>2
      <4>7. QED
        BY <2>2, <4>4, <4>5, <4>6 DEF CapInv
    <3>3. QED
      BY <2>5, <3>1, <3>2
  <2>13. QED
    BY <2>8, <2>9, <2>10, <2>11, <2>12 DEF NegInv
<1>8. QED
  BY <1>6, <1>7

\* A verdict on some capabilities: it was the only one on its way about each of
\* them, and the server has them enabled as it says.
LEMMA CapAckStep ==
  ASSUME NegInv, OnCapAck
  PROVE  NegInv'
<1>1. Types /\ NickInv /\ RegInv /\ CapInv /\ SaslInv /\ WireTypes
  BY DEF NegInv, Types
<1>2. /\ UNCHANGED <<cfg, chosenNick, supported, capValue, c2s, sent, lost, srv>>
      /\ Read /\ phase = "WaitCapAck" /\ Msg.cmd \in {"CAP ACK", "CAP NAK"}
  BY DEF OnCapAck
<1> DEFINE next == Len(allReadMsgs) + 1
<1>3. \A K : OldCmds(K, 0) /\ OldMsgs(K) /\ c2s' \in Seq(Commands)
  BY <1>1, <1>2, SameCmds, ReadMoves
<1>n. /\ next \in Flying({"CAP ACK", "CAP NAK"}) /\ Msg = sent[next]
      /\ \A K : \A n \in Flying(K)' : n \in Flying(K) /\ n # next /\ sent'[n] = sent[n]
  BY <1>1, <1>2, Reads DEF Flying
<1>a. Active
  BY <1>2 DEF Active
<1>4. Msg.caps \subseteq DOMAIN desiredCaps /\ DOMAIN desiredCaps = Wanted(cfg)
  <2>1. DOMAIN desiredCaps = Wanted(cfg)
    BY <1>1 DEF Types, ClientTypes
  <2> HIDE DEF Flying
  <2>2. QED
    BY <1>1, <1>a, <1>n, <2>1 DEF CapInv
<1>5. /\ desiredCaps' = [c \in DOMAIN desiredCaps |->
                           IF c \in Msg.caps THEN Verdict(Msg) ELSE desiredCaps[c]]
      /\ IF AnyPending(desiredCaps')
         THEN UNCHANGED <<phase, engine>>
         ELSE IF SaslGranted(desiredCaps')
         THEN /\ phase' = "StartSasl"
              /\ engine' = IF engine.made THEN engine
                           ELSE SetMethods(IF capValue = NoValue THEN <<"EXTERNAL", "PLAIN">>
                                           ELSE capValue)
         ELSE phase' = "EndCap" /\ UNCHANGED engine
  BY <1>4 DEF OnCapAck
<1>v. Verdict(Msg) \in {"granted", "denied"} /\ (Verdict(Msg) = "granted" <=> Msg.cmd = "CAP ACK")
  BY DEF Verdict
<1>6. /\ desiredCaps' \in [Wanted(cfg) -> Statuses]
      /\ \A c \in Wanted(cfg) :
           desiredCaps'[c] = IF c \in Msg.caps THEN Verdict(Msg) ELSE desiredCaps[c]
  <2>1. \A c \in Wanted(cfg) :
          (IF c \in Msg.caps THEN Verdict(Msg) ELSE desiredCaps[c]) \in Statuses
    BY <1>1, <1>v DEF Types, ClientTypes, Statuses
  <2>2. QED
    BY <1>4, <1>5, <2>1
<1>7. /\ phase' \in {"WaitCapAck", "StartSasl", "EndCap"}
      /\ phase' = "WaitCapAck" => engine' = engine
      /\ phase' # "StartSasl" => engine' = engine
      /\ (\E c \in DOMAIN desiredCaps' : desiredCaps'[c] = "requested") => phase' = "WaitCapAck"
      /\ phase' = "EndCap" => ~SaslGranted(desiredCaps')
  BY <1>2, <1>5 DEF AnyPending
<1>e. phase' = "StartSasl" => engine' \in Engines /\ engine'.made /\ engine'.idx = 0
                              /\ engine'.idx <= Len(engine'.methods)
  <2>1. ~engine.made
    BY <1>1, <1>2 DEF SaslInv
  <2> DEFINE list == IF capValue = NoValue THEN <<"EXTERNAL", "PLAIN">> ELSE capValue
  <2>2. list \in MethodLists
    BY <1>1 DEF Types, ClientTypes, MethodLists
  <2>3. SUFFICES ASSUME phase' = "StartSasl"
                 PROVE  engine' = SetMethods(list)
    BY <2>2, EngineIs
  <2>4. QED
    BY <1>2, <1>5, <2>1, <2>3
<1>8. Types'
  <2>1. WireTypes'
    BY <1>1, <1>2, <1>3, ReadTyped
  <2>2. engine' \in Engines /\ engine'.idx <= Len(engine'.methods)
    BY <1>1, <1>7, <1>e DEF Types, ClientTypes
  <2>3. phase' \in Phases /\ Wanted(cfg') = Wanted(cfg)
    BY <1>2, <1>7 DEF Phases
  <2>4. ClientTypes'
    BY <1>1, <1>2, <1>6, <2>2, <2>3 DEF Types, ClientTypes
  <2>5. QED
    BY <1>1, <1>2, <2>1, <2>4 DEF Types
<1>9. NickInv'
  BY <1>1, <1>2, <1>3, <1>a, NickKeeps
<1>10. CapInv'
  <2>1. /\ Waiting({"CAP REQ"})' = Waiting({"CAP REQ"}) /\ c2s' = c2s
        /\ cfg' = cfg /\ srv' = srv /\ Wanted(cfg') = Wanted(cfg)
    BY <1>2 DEF Waiting
  <2>2. phase' \notin {"Start", "WaitCapList"}
    BY <1>7
  <2>3. \A n \in Flying({"CAP ACK", "CAP NAK"})' :
          n \in Flying({"CAP ACK", "CAP NAK"}) /\ n # next /\ sent'[n] = sent[n]
    BY <1>n
  <2> HIDE DEF Waiting, Flying, Active
  <2>4. ASSUME NEW c \in Wanted(cfg) PROVE CapStatus(c)'
    <3>1. CapStatus(c)
      BY <1>1, <1>a, <2>4 DEF CapInv
    <3>2. Asking(c)' = Asking(c)
      BY <2>1 DEF Asking
    <3>3. \A n \in Answering(c)' : n \in Answering(c) /\ n # next /\ sent'[n] = sent[n]
      BY <2>3 DEF Answering
    <3>4. desiredCaps'[c] = "requested" => phase' = "WaitCapAck"
      BY <1>6, <1>7, <2>4
    <3>5. CASE c \in Msg.caps
      <4>1. next \in Answering(c)
        BY <1>n, <3>5 DEF Answering
      <4>2. Answering(c)' = {}
        BY <3>1, <3>3, <4>1 DEF CapStatus
      <4>3. Asking(c) = {}
        BY <3>1, <4>1 DEF CapStatus
      <4>4. Msg.cmd = "CAP ACK" <=> c \in srv.enabled
        BY <1>n, <3>1, <4>1 DEF CapStatus
      <4>5. desiredCaps'[c] = "granted" <=> c \in srv'.enabled
        BY <1>6, <1>v, <2>1, <2>4, <3>5, <4>4
      <4> HIDE DEF Asking, Answering
      <4>6. QED
        BY <3>2, <3>4, <4>2, <4>3, <4>5 DEF CapStatus
    <3>6. CASE c \notin Msg.caps
      <4>1. desiredCaps'[c] = desiredCaps[c]
        BY <1>6, <2>4, <3>6
      <4> HIDE DEF Asking, Answering
      <4>2. QED
        BY <2>1, <3>1, <3>2, <3>3, <3>4, <4>1 DEF CapStatus
    <3>7. QED
      BY <3>5, <3>6
  <2>5. /\ \A i \in Waiting({"CAP REQ"})' : c2s'[i].caps # {} /\ c2s'[i].caps \subseteq Wanted(cfg')
        /\ \A n \in Flying({"CAP ACK", "CAP NAK"})' : sent'[n].caps \subseteq Wanted(cfg')
        /\ srv'.enabled \subseteq Wanted(cfg')
    BY <1>1, <1>a, <2>1, <2>3 DEF CapInv
  <2>6. QED
    BY <2>1, <2>2, <2>4, <2>5 DEF CapInv
<1>11. RegInv'
  <2>1. phase' = "EndCap" => Answered
    <3>1. SUFFICES ASSUME phase' = "EndCap", "sasl" \in srv.enabled PROVE FALSE
      BY DEF Answered
    <3>2. Active'
      BY <3>1 DEF Active
    <3>3. "sasl" \in Wanted(cfg)
      BY <1>1, <1>a, <3>1 DEF CapInv
    <3>4. CapStatus("sasl")'
      BY <1>2, <1>10, <3>2, <3>3 DEF CapInv
    <3>5. desiredCaps'["sasl"] # "requested"
      BY <3>1, <3>4 DEF CapStatus
    <3>6. desiredCaps'["sasl"] = "granted"
      BY <1>2, <3>1, <3>4, <3>5 DEF CapStatus
    <3>7. QED
      BY <1>6, <1>7, <3>1, <3>3, <3>6 DEF SaslGranted
  <2>2. QED
    BY <1>1, <1>2, <1>3, <1>7, <2>1, RegKeeps DEF PastCaps, AmidCaps
<1>12. SaslInv'
  <2>1. CASE phase' = "StartSasl"
    <3>1. Silent
      BY <1>1, <1>2 DEF SaslInv
    <3>2. Silent'
      <4>1. Waiting(SaslCmds)' = Waiting(SaslCmds)
        BY <1>2 DEF Waiting
      <4>2. \A n \in Flying(SaslMsgs)' : n \in Flying(SaslMsgs)
        BY <1>n
      <4> HIDE DEF Waiting, Flying
      <4>3. QED
        BY <3>1, <4>1, <4>2 DEF Silent
    <3>3. PasswordLast' /\ Waiting({"RESPONSE"})' = {}
      BY <3>2 DEF Silent, Waiting, SaslCmds, PasswordLast
    <3>4. Refused(engine.idx)'
      <4>1. \A j \in 1..0 : FALSE
        OBVIOUS
      <4>2. QED
        BY <1>e, <2>1, <4>1 DEF Refused
    <3> HIDE DEF Waiting, PasswordLast, Silent, Refused
    <3>5. QED
      BY <1>e, <2>1, <3>2, <3>3, <3>4 DEF SaslInv
  <2>2. CASE phase' # "StartSasl"
    BY <1>1, <1>2, <1>3, <1>7, <2>2, SaslKeeps DEF EarlyPhases, SaslPhases
  <2>3. QED
    BY <2>1, <2>2
<1>13. QED
  BY <1>8, <1>9, <1>10, <1>11, <1>12 DEF NegInv

-----------------------------------------------------------------------------
(* The server's steps.                                                     *)

\* A reply of one message: it follows those on their way.
LEMMA ReplyOne ==
  ASSUME WireTypes, NEW m \in Messages, Reply(<<m>>), allReadMsgs' = allReadMsgs
  PROVE  /\ \A K : KeptMsgs(K) /\ (m.cmd \notin K => OldMsgs(K))
         /\ Len(sent) + 1 \in Flight' /\ sent'[Len(sent) + 1] = m
         /\ \A n \in Flight' : (n \in Flight /\ sent'[n] = sent[n]) \/ n = Len(sent) + 1
         /\ \A n \in Flight : n \in Nat /\ n < Len(sent) + 1 /\ n \in Flight' /\ sent'[n] = sent[n]
         /\ Len(sent) + 1 \in Nat
<1> DEFINE ms == <<m>>
<1>1. /\ ms \in Seq(Messages) /\ Len(ms) = 1
      /\ \A j \in 1..Len(ms) : j = 1 /\ ms[j] = m
  BY Single
<1>2. Reply(ms)
  OBVIOUS
<1> HIDE DEF ms
<1>3. \A K : KeptMsgs(K) /\ (m.cmd \notin K => OldMsgs(K))
  BY <1>1, <1>2, ReplyMoves
<1>4. 1 \in 1..Len(ms)
  BY <1>1
<1>5. /\ Len(sent) + 1 \in Flight' /\ sent'[Len(sent) + 1] = m
      /\ \A n \in Flight : sent'[n] = sent[n] /\ n \in Flight'
  BY <1>1, <1>2, <1>4, Sends
<1>6. \A n \in Flight' : (n \in Flight /\ sent'[n] = sent[n]) \/ n = Len(sent) + 1
  BY <1>1, <1>2, Sends
<1>7. Len(sent) \in Nat /\ Len(allReadMsgs) \in Nat
  BY DEF WireTypes
<1>8. \A n \in Flight : n \in Nat /\ n < Len(sent) + 1
  BY <1>7 DEF Flight
<1>9. QED
  BY <1>3, <1>5, <1>6, <1>7, <1>8

\* The command received was waiting first.
LEMMA HeadWaits ==
  ASSUME WireTypes, NEW cmd, Receive(cmd)
  PROVE  1 \in Waiting({cmd}) /\ Head(c2s) = c2s[1] /\ c2s[1] \in Commands /\ c2s[1].cmd = cmd
<1>1. /\ Len(c2s) \in Nat /\ Len(c2s) > 0 /\ DOMAIN c2s = 1..Len(c2s)
      /\ Head(c2s) = c2s[1] /\ c2s[1] \in Commands /\ c2s[1].cmd = cmd
  BY Receives
<1>2. 1 \in DOMAIN c2s
  BY <1>1
<1>3. QED
  BY <1>1, <1>2 DEF Waiting

\* The place behind another is not the first.
LEMMA NextPlace ==
  ASSUME NEW i \in Nat, i >= 1
  PROVE  i + 1 # 1
OBVIOUS

\* CAP LS does not wait behind another command.
LEMMA NoListing ==
  ASSUME RegInv, c2s' \in Seq(Commands), OldCmds({"CAP LS"}, 1)
  PROVE  Waiting({"CAP LS"})' = {}
<1>1. ASSUME NEW i \in Waiting({"CAP LS"})' PROVE FALSE
  <2>1. i \in Nat /\ i >= 1 /\ i + 1 \in Waiting({"CAP LS"})
    BY <1>1, Shifts
  <2> HIDE DEF Waiting
  <2>2. i + 1 = 1
    BY <2>1 DEF RegInv
  <2>3. QED
    BY <2>1, <2>2, NextPlace
<1>2. QED
  BY <1>1

\* What a step of the server finds, and what it leaves alone.
LEMMA ServerKeeps ==
  ASSUME NegInv, UnchangedClient
  PROVE  /\ Types /\ NickInv /\ RegInv /\ CapInv /\ SaslInv /\ WireTypes
         /\ srv \in Servers /\ ClientTypes /\ ClientTypes'
         /\ allReadMsgs' = allReadMsgs /\ (Active' <=> Active)
         /\ UNCHANGED <<cfg, phase, chosenNick, desiredCaps, engine>>
BY ServerTyped DEF NegInv, Types

\* A server without capabilities does not know CAP LS.
LEMMA SrvNoCapStep ==
  ASSUME NegInv, SrvNoCap
  PROVE  NegInv'
<1>1. /\ Types /\ NickInv /\ RegInv /\ CapInv /\ SaslInv /\ WireTypes
      /\ srv \in Servers /\ ClientTypes /\ ClientTypes'
      /\ allReadMsgs' = allReadMsgs /\ (Active' <=> Active)
      /\ UNCHANGED <<cfg, phase, chosenNick, desiredCaps, engine>>
  BY ServerKeeps DEF SrvNoCap
<1> DEFINE m == [cmd |-> "421"]
<1>2. m \in Messages
  BY DEF Messages, Bare
<1>3. m.cmd = "421"
  OBVIOUS
<1>4. Receive("CAP LS") /\ Reply(<<m>>) /\ srv' = srv
  BY DEF SrvNoCap
<1> HIDE DEF m
<1>5. \A K : OldCmds(K, 1) /\ c2s' \in Seq(Commands)
  BY <1>1, <1>4, ReceiveMoves
<1>6. \A K : KeptMsgs(K) /\ (m.cmd \notin K => OldMsgs(K))
  BY <1>1, <1>2, <1>4, ReplyOne
<1>7. /\ OldMsgs({"433"}) /\ OldMsgs({"CAP LS", "001"}) /\ OldMsgs({"903"})
      /\ OldMsgs({"CAP ACK", "CAP NAK"}) /\ OldMsgs(SaslMsgs) /\ KeptMsgs(SaslMsgs)
  BY <1>3, <1>6 DEF SaslMsgs
<1>8. Types'
  <2>1. <<m>> \in Seq(Messages)
    BY <1>2, Single
  <2>2. WireTypes'
    BY <1>1, <1>4, <1>5, <2>1, ReplyTyped
  <2>3. QED
    BY <1>1, <1>4, <2>2 DEF Types
<1>9. phase # "Start"
  BY <1>1, <1>4 DEF RegInv, Receive
<1>10. NickInv'
  BY <1>1, <1>4, <1>5, <1>7, NickKeeps
<1>11. RegInv'
  BY <1>1, <1>4, <1>5, <1>7, <1>9, RegKeeps
<1>12. CapInv'
  BY <1>1, <1>4, <1>5, <1>7, CapKeeps
<1>13. SaslInv'
  BY <1>1, <1>4, <1>5, <1>7, SaslKeeps
<1>14. QED
  BY <1>8, <1>10, <1>11, <1>12, <1>13 DEF NegInv

\* The server receives USER: CAP LS, if it was sent, was received before.
LEMMA SrvUserStep ==
  ASSUME NegInv, SrvUser
  PROVE  NegInv'
<1>1. /\ Types /\ NickInv /\ RegInv /\ CapInv /\ SaslInv /\ WireTypes
      /\ srv \in Servers /\ ClientTypes /\ ClientTypes'
      /\ allReadMsgs' = allReadMsgs /\ (Active' <=> Active)
      /\ UNCHANGED <<cfg, phase, chosenNick, desiredCaps, engine>>
  BY ServerKeeps DEF SrvUser
<1>2. Receive("USER") /\ sent' = sent /\ srv' = [srv EXCEPT !.user = TRUE]
  BY DEF SrvUser
<1>3. /\ UNCHANGED <<srv.cap, srv.named, srv.nick, srv.refusals, srv.enabled, srv.mech,
                     srv.refused, srv.auth, srv.welcomed>>
      /\ srv'.user /\ srv' \in Servers
  BY <1>1, <1>2 DEF Servers
<1>4. \A K : OldCmds(K, 1) /\ c2s' \in Seq(Commands)
  BY <1>1, <1>2, ReceiveMoves
<1>5. \A K : OldMsgs(K) /\ KeptMsgs(K)
  BY <1>1, <1>2, SameMsgs
<1>6. Types'
  BY <1>1, <1>2, <1>3, <1>4 DEF Types, WireTypes
<1>7. phase # "Start"
  BY <1>1, <1>2 DEF RegInv, Receive
<1>8. NickInv'
  BY <1>1, <1>3, <1>4, <1>5, NickKeeps
<1>9. RegInv'
  <2>1. \A K : \A i \in Waiting(K)' : i \in Nat /\ i >= 1 /\ i + 1 \in Waiting(K)
    BY <1>4, Shifts
  <2>2. \A K : Flying(K)' = Flying(K)
    BY <1>1, <1>2 DEF Flying, Flight
  <2>3. Answered' <=> Answered
    BY <1>3 DEF Answered
  <2> HIDE DEF Waiting, Flying, Answered
  <2>4. Waiting({"CAP LS"})' = {}
    BY <1>1, <1>4, NoListing
  <2>5. QED
    BY <1>1, <1>3, <1>7, <2>1, <2>2, <2>3, <2>4 DEF RegInv
<1>10. CapInv'
  BY <1>1, <1>3, <1>4, <1>5, CapKeeps
<1>11. SaslInv'
  BY <1>1, <1>3, <1>4, <1>5, SaslKeeps
<1>12. QED
  BY <1>6, <1>8, <1>9, <1>10, <1>11 DEF NegInv

\* The server receives CAP END: the client is past its capabilities.
LEMMA SrvCapEndStep ==
  ASSUME NegInv, SrvCapEnd
  PROVE  NegInv'
<1>1. /\ Types /\ NickInv /\ RegInv /\ CapInv /\ SaslInv /\ WireTypes
      /\ srv \in Servers /\ ClientTypes /\ ClientTypes'
      /\ allReadMsgs' = allReadMsgs /\ (Active' <=> Active)
      /\ UNCHANGED <<cfg, phase, chosenNick, desiredCaps, engine>>
  BY ServerKeeps DEF SrvCapEnd
<1>2. Receive("CAP END") /\ sent' = sent /\ srv' = [srv EXCEPT !.cap = "ended"]
  BY DEF SrvCapEnd
<1>3. /\ UNCHANGED <<srv.user, srv.named, srv.nick, srv.refusals, srv.enabled, srv.mech,
                     srv.refused, srv.auth, srv.welcomed>>
      /\ srv'.cap = "ended" /\ srv' \in Servers
  BY <1>1, <1>2 DEF Servers
<1>4. \A K : OldCmds(K, 1) /\ c2s' \in Seq(Commands)
  BY <1>1, <1>2, ReceiveMoves
<1>5. \A K : OldMsgs(K) /\ KeptMsgs(K)
  BY <1>1, <1>2, SameMsgs
<1>6. Types'
  BY <1>1, <1>2, <1>3, <1>4 DEF Types, WireTypes
<1>7. NickInv'
  BY <1>1, <1>3, <1>4, <1>5, NickKeeps
<1>8. RegInv'
  <2>1. \A K : \A i \in Waiting(K)' : i \in Nat /\ i >= 1 /\ i + 1 \in Waiting(K)
    BY <1>4, Shifts
  <2>2. \A K : Flying(K)' = Flying(K)
    BY <1>1, <1>2 DEF Flying, Flight
  <2>3. Answered' <=> Answered
    BY <1>3 DEF Answered
  <2>4. Waiting({"CAP END"}) # {}
    BY <1>1, <1>2, HeadWaits
  <2> HIDE DEF Waiting, Flying, Answered
  <2>5. phase \in PastCaps /\ Waiting({"CAP REQ"}) = {} /\ Answered
    BY <1>1, <2>4 DEF RegInv
  <2>6. \A i \in Waiting({"CAP LS"})' : i = 1 /\ ~srv'.user
    BY <1>1, <1>4, NoListing
  <2>7. QED
    BY <1>1, <1>3, <2>1, <2>2, <2>3, <2>5, <2>6 DEF RegInv, PastCaps, AmidCaps
<1>9. CapInv'
  BY <1>1, <1>3, <1>4, <1>5, CapKeeps
<1>10. SaslInv'
  BY <1>1, <1>3, <1>4, <1>5, SaslKeeps
<1>11. QED
  BY <1>6, <1>7, <1>8, <1>9, <1>10 DEF NegInv

\* The server welcomes the client.
LEMMA SrvWelcomeStep ==
  ASSUME NegInv, SrvWelcome
  PROVE  NegInv'
<1>1. /\ Types /\ NickInv /\ RegInv /\ CapInv /\ SaslInv /\ WireTypes
      /\ srv \in Servers /\ ClientTypes /\ ClientTypes'
      /\ allReadMsgs' = allReadMsgs /\ (Active' <=> Active)
      /\ UNCHANGED <<cfg, phase, chosenNick, desiredCaps, engine>>
  BY ServerKeeps DEF SrvWelcome
<1> DEFINE m == [cmd |-> "001"]
<1>2. m \in Messages
  BY DEF Messages, Bare
<1>3. m.cmd = "001"
  OBVIOUS
<1>4. /\ Reply(<<m>>) /\ srv' = [srv EXCEPT !.welcomed = TRUE] /\ c2s' = c2s
      /\ srv.user /\ srv.named /\ srv.cap # "active"
  BY DEF SrvWelcome
<1>5. /\ UNCHANGED <<srv.cap, srv.user, srv.named, srv.nick, srv.refusals, srv.enabled,
                     srv.mech, srv.refused, srv.auth>>
      /\ srv'.welcomed /\ srv' \in Servers
  BY <1>1, <1>4 DEF Servers
<1> HIDE DEF m
<1>6. \A K : OldCmds(K, 0) /\ c2s' \in Seq(Commands)
  BY <1>1, <1>4, SameCmds
<1>7. \A K : KeptMsgs(K) /\ (m.cmd \notin K => OldMsgs(K))
  BY <1>1, <1>2, <1>4, ReplyOne
<1>8. /\ OldMsgs({"433"}) /\ OldMsgs({"CAP LS"}) /\ OldMsgs({"903"})
      /\ OldMsgs({"CAP ACK", "CAP NAK"}) /\ OldMsgs(SaslMsgs) /\ KeptMsgs(SaslMsgs)
  BY <1>3, <1>7 DEF SaslMsgs
<1>9. Types'
  <2>1. <<m>> \in Seq(Messages)
    BY <1>2, Single
  <2>2. WireTypes'
    BY <1>1, <1>4, <1>6, <2>1, ReplyTyped
  <2>3. QED
    BY <1>1, <1>5, <2>2 DEF Types
<1>10. NickInv'
  BY <1>1, <1>5, <1>6, <1>8, NickKeeps
<1>11. RegInv'
  <2>1. phase # "Start"
    <3>1. phase = "Start" => srv = SrvInit
      BY <1>1 DEF RegInv
    <3>2. ~SrvInit.user
      BY DEF SrvInit
    <3>3. QED
      BY <1>4, <3>1, <3>2
  <2>2. \A K : Waiting(K)' = Waiting(K)
    BY <1>4 DEF Waiting
  <2>3. /\ \A n \in Flying({"CAP LS"})' : n \in Flying({"CAP LS"})
        /\ \A n \in Flying({"903"})' : n \in Flying({"903"})
    BY <1>8 DEF Flying, OldMsgs
  <2>4. Answered' <=> Answered
    BY <1>5 DEF Answered
  <2> HIDE DEF Waiting, Flying, Answered
  <2>5. QED
    BY <1>1, <1>4, <1>5, <2>1, <2>2, <2>3, <2>4 DEF RegInv
<1>12. CapInv'
  BY <1>1, <1>5, <1>6, <1>8, CapKeeps
<1>13. SaslInv'
  BY <1>1, <1>5, <1>6, <1>8, SaslKeeps
<1>14. QED
  BY <1>9, <1>10, <1>11, <1>12, <1>13 DEF NegInv

\* The server looks at the one nickname that waits: it takes it, or refuses it.
LEMMA SrvNickStep ==
  ASSUME NegInv, SrvNick
  PROVE  NegInv'
<1>1. /\ Types /\ NickInv /\ RegInv /\ CapInv /\ SaslInv /\ WireTypes
      /\ srv \in Servers /\ ClientTypes /\ ClientTypes'
      /\ allReadMsgs' = allReadMsgs /\ (Active' <=> Active)
      /\ UNCHANGED <<cfg, phase, chosenNick, desiredCaps, engine>>
  BY ServerKeeps DEF SrvNick
<1> DEFINE m == [cmd |-> "433"]
<1>2. m \in Messages
  BY DEF Messages, Bare
<1>3. m.cmd = "433"
  OBVIOUS
<1>4. /\ Receive("NICK")
      /\ \/ /\ srv' = [srv EXCEPT !.named = TRUE, !.nick = Head(c2s).nick]
            /\ sent' = sent
         \/ /\ srv.refusals < MaxRefusals
            /\ srv' = [srv EXCEPT !.refusals = @ + 1]
            /\ Reply(<<m>>)
  BY DEF SrvNick
<1> HIDE DEF m
<1>5. /\ 1 \in Waiting({"NICK"}) /\ Head(c2s) = c2s[1] /\ Head(c2s).nick \in Nat
  <2>1. c2s[1] \in Commands /\ c2s[1].cmd = "NICK"
    BY <1>1, <1>4, HeadWaits
  <2>2. QED
    BY <1>1, <1>4, <2>1, HeadWaits, CommandFields
<1>6. /\ UNCHANGED <<srv.cap, srv.user, srv.enabled, srv.mech, srv.refused, srv.auth,
                     srv.welcomed>>
      /\ srv' \in Servers /\ (srv.named => srv'.named)
      /\ srv.refusals \in Nat /\ srv'.refusals \in Nat
      /\ \/ srv'.refusals = srv.refusals
         \/ srv.refusals < MaxRefusals /\ srv'.refusals = srv.refusals + 1
  <2>1. ASSUME NEW n \in Nat, srv' = [srv EXCEPT !.named = TRUE, !.nick = n]
        PROVE  /\ UNCHANGED <<srv.cap, srv.user, srv.enabled, srv.mech, srv.refused, srv.auth,
                              srv.welcomed>>
               /\ srv' \in Servers /\ srv'.named
               /\ srv'.refusals = srv.refusals
    BY <1>1, <2>1 DEF Servers
  <2>2. srv.refusals \in Nat /\ srv.refusals + 1 \in Nat
    BY <1>1 DEF Servers
  <2>3. ASSUME NEW n \in Nat, srv' = [srv EXCEPT !.refusals = n]
        PROVE  /\ UNCHANGED <<srv.cap, srv.user, srv.enabled, srv.mech, srv.refused, srv.auth,
                              srv.welcomed>>
               /\ srv' \in Servers /\ srv'.named = srv.named
               /\ srv'.refusals = n
    BY <1>1, <2>3 DEF Servers
  <2>4. QED
    BY <1>4, <1>5, <2>1, <2>2, <2>3
<1>7. \A K : OldCmds(K, 1) /\ c2s' \in Seq(Commands)
  BY <1>1, <1>4, ReceiveMoves
<1>8. \A K : KeptMsgs(K) /\ ("433" \notin K => OldMsgs(K))
  BY <1>1, <1>2, <1>3, <1>4, ReplyOne, SameMsgs
<1>9. /\ OldMsgs({"CAP LS", "001"}) /\ OldMsgs({"903"}) /\ OldMsgs({"CAP ACK", "CAP NAK"})
      /\ OldMsgs(SaslMsgs) /\ KeptMsgs(SaslMsgs)
  BY <1>8 DEF SaslMsgs
<1>10. Types'
  <2>1. <<m>> \in Seq(Messages)
    BY <1>2, Single
  <2>2. WireTypes'
    <3>1. CASE sent' = sent
      BY <1>1, <1>7, <3>1 DEF WireTypes
    <3>2. CASE Reply(<<m>>)
      BY <1>1, <1>7, <2>1, <3>2, ReplyTyped
    <3>3. QED
      BY <1>4, <3>1, <3>2
  <2>3. QED
    BY <1>1, <1>6, <2>2 DEF Types
<1>11. phase # "Start"
  BY <1>1, <1>4 DEF RegInv, Receive
<1>12. NickInv'
  <2>1. /\ srv.refusals \in Nat /\ srv'.refusals \in Nat /\ MaxRefusals \in Nat
        /\ srv'.refusals = srv.refusals \/ (srv.refusals < MaxRefusals
                                             /\ srv'.refusals = srv.refusals + 1)
    BY <1>6, BoundsAssumption
  <2>2. /\ chosenNick' \in Nat /\ chosenNick' <= srv'.refusals
        /\ srv'.refusals <= MaxRefusals
    BY <1>1, <2>1 DEF NickInv
  <2>3. SUFFICES ASSUME Active' PROVE NickInv'
    BY <2>2 DEF NickInv
  <2>4. Waiting({"NICK"}) = {1} /\ c2s[1].nick = chosenNick
    BY <1>1, <1>5, <2>3, Zenon DEF NickInv
  <2>5. Flying({"433"}) = {} /\ ~srv.named
    BY <1>1, <2>3, <2>4 DEF NickInv
  <2>6. Waiting({"NICK"})' = {}
    <3>1. ASSUME NEW i \in Waiting({"NICK"})' PROVE FALSE
      <4>1. i \in Nat /\ i >= 1 /\ i + 1 \in Waiting({"NICK"})
        BY <1>7, <3>1, Shifts
      <4> HIDE DEF Waiting
      <4>2. i + 1 = 1
        BY <2>4, <4>1
      <4>3. QED
        BY <4>1, <4>2, NextPlace
    <3>2. QED
      BY <3>1
  <2>7. CASE /\ srv' = [srv EXCEPT !.named = TRUE, !.nick = Head(c2s).nick]
             /\ sent' = sent
    <3>1. Flying({"433"})' = {}
      BY <1>1, <2>5, <2>7 DEF Flying, Flight
    <3>2. srv'.nick = chosenNick'
      BY <1>1, <1>5, <2>4, <2>7 DEF Servers
    <3> HIDE DEF Waiting, Flying
    <3>3. QED
      BY <2>2, <2>6, <3>1, <3>2 DEF NickInv
  <2>8. CASE /\ srv.refusals < MaxRefusals
             /\ srv' = [srv EXCEPT !.refusals = @ + 1]
             /\ Reply(<<m>>)
    <3>1. /\ srv'.refusals = srv.refusals + 1 /\ srv'.named = srv.named
      BY <1>1, <2>8 DEF Servers
    <3>2. chosenNick' < srv'.refusals
      BY <1>1, <2>1, <3>1 DEF NickInv
    <3>3. \A n \in Flying({"433"})' : n = Len(sent) + 1
      <4>1. \A n \in Flight' : (n \in Flight /\ sent'[n] = sent[n]) \/ n = Len(sent) + 1
        BY <1>1, <1>2, <2>8, ReplyOne
      <4>2. QED
        BY <2>5, <4>1 DEF Flying
    <3> HIDE DEF Waiting, Flying
    <3>4. QED
      BY <2>2, <2>5, <2>6, <3>1, <3>2, <3>3 DEF NickInv
  <2>9. QED
    BY <1>4, <2>7, <2>8
<1>13. RegInv'
  BY <1>1, <1>6, <1>7, <1>9, <1>11, RegKeeps
<1>14. CapInv'
  BY <1>1, <1>6, <1>7, <1>9, CapKeeps
<1>15. SaslInv'
  BY <1>1, <1>6, <1>7, <1>9, SaslKeeps
<1>16. QED
  BY <1>10, <1>12, <1>13, <1>14, <1>15 DEF NegInv

\* A list on one line, or on two.
LEMMA OneOrTwo ==
  ASSUME NEW S, NEW a \in S, NEW b \in S, NEW two
  PROVE  (IF two = {} THEN <<>> ELSE <<b>>) \o <<a>> \in Seq(S)
<1>1. <<>> \in Seq(S) /\ <<b>> \in Seq(S) /\ <<a>> \in Seq(S)
  OBVIOUS
<1>2. (IF two = {} THEN <<>> ELSE <<b>>) \in Seq(S)
  BY <1>1
<1>3. QED
  BY <1>1, <1>2, ConcatProperties, Zenon

\* A sequence over a set is one over a larger set.
LEMMA Widens ==
  ASSUME NEW T, NEW S \in SUBSET T, NEW ms \in Seq(S)
  PROVE  ms \in Seq(T) /\ \A j \in 1..Len(ms) : ms[j] \in S
OBVIOUS

\* What the server sends after CAP LS is its list of capabilities.
LEMMA Lists ==
  ASSUME SrvCapLS, cfg \in Cfgs
  PROVE  \E ms \in Seq(Messages) : /\ Reply(ms)
                                   /\ \A j \in 1..Len(ms) : ms[j].cmd = "CAP LS"
<1> DEFINE line(cs, more, value) ==
             [cmd |-> "CAP LS", caps |-> cs, more |-> more,
              value |-> IF "sasl" \in cs THEN value ELSE NoValue]
           S == {m \in Messages : m.cmd = "CAP LS"}
<1>1. PICK one \in SUBSET Caps, two \in SUBSET Caps, value \in {cfg.mechs, NoValue} :
        Reply((IF two = {} THEN <<>> ELSE << line(two, TRUE, value) >>)
                \o << line(one, FALSE, value) >>)
  BY DEF SrvCapLS
<1>2. value \in MethodLists \cup {NoValue}
  BY DEF Cfgs
<1>3. ASSUME NEW cs \in SUBSET Caps, NEW more \in BOOLEAN
      PROVE  line(cs, more, value) \in S
  <2>1. (IF "sasl" \in cs THEN value ELSE NoValue) \in MethodLists \cup {NoValue}
    BY <1>2
  <2>2. line(cs, more, value) \in Listing
    BY <2>1 DEF Listing
  <2>3. QED
    BY <2>2 DEF Messages
<1>4. line(one, FALSE, value) \in S /\ line(two, TRUE, value) \in S
  BY <1>3
<1> HIDE DEF line
<1> DEFINE ms == (IF two = {} THEN <<>> ELSE << line(two, TRUE, value) >>)
                   \o << line(one, FALSE, value) >>
<1>5. ms \in Seq(S)
  <2> HIDE DEF S
  <2>1. QED
    BY <1>4, OneOrTwo
<1>6. Reply(ms)
  BY <1>1
<1> HIDE DEF ms
<1>7. ms \in Seq(Messages) /\ \A j \in 1..Len(ms) : ms[j].cmd = "CAP LS"
  <2>1. S \subseteq Messages /\ \A m \in S : m.cmd = "CAP LS"
    OBVIOUS
  <2> HIDE DEF S
  <2>2. ms \in Seq(Messages) /\ \A j \in 1..Len(ms) : ms[j] \in S
    BY <1>5, <2>1, Widens
  <2>3. QED
    BY <2>1, <2>2
<1>8. QED
  BY <1>6, <1>7

\* The server lists its capabilities: it has not heard USER yet, so it has not
\* welcomed the client.
LEMMA SrvCapLSStep ==
  ASSUME NegInv, SrvCapLS
  PROVE  NegInv'
<1>1. /\ Types /\ NickInv /\ RegInv /\ CapInv /\ SaslInv /\ WireTypes
      /\ srv \in Servers /\ ClientTypes /\ ClientTypes'
      /\ allReadMsgs' = allReadMsgs /\ (Active' <=> Active)
      /\ UNCHANGED <<cfg, phase, chosenNick, desiredCaps, engine>>
  BY ServerKeeps DEF SrvCapLS
<1>2. Receive("CAP LS") /\ srv' = [srv EXCEPT !.cap = "active"]
  BY DEF SrvCapLS
<1>3. PICK ms \in Seq(Messages) : Reply(ms) /\ \A j \in 1..Len(ms) : ms[j].cmd = "CAP LS"
  BY <1>1, Lists DEF ClientTypes
<1>4. /\ UNCHANGED <<srv.user, srv.named, srv.nick, srv.refusals, srv.enabled, srv.mech,
                     srv.refused, srv.auth, srv.welcomed>>
      /\ srv'.cap = "active" /\ srv' \in Servers
  BY <1>1, <1>2 DEF Servers
<1>5. \A K : OldCmds(K, 1) /\ c2s' \in Seq(Commands)
  BY <1>1, <1>2, ReceiveMoves
<1>6. \A K : KeptMsgs(K) /\ ("CAP LS" \notin K => OldMsgs(K))
  <2>1. ASSUME NEW K
        PROVE  KeptMsgs(K) /\ ("CAP LS" \notin K => OldMsgs(K))
    BY <1>1, <1>3, ReplyMoves
  <2>2. QED
    BY <2>1
<1>7. /\ OldMsgs({"433"}) /\ OldMsgs({"001"}) /\ OldMsgs({"903"})
      /\ OldMsgs({"CAP ACK", "CAP NAK"}) /\ OldMsgs(SaslMsgs) /\ KeptMsgs(SaslMsgs)
  BY <1>6 DEF SaslMsgs
<1>8. Types'
  BY <1>1, <1>3, <1>4, <1>5, ReplyTyped DEF Types
<1>9. phase # "Start"
  BY <1>1, <1>2 DEF RegInv, Receive
<1>10. NickInv'
  BY <1>1, <1>4, <1>5, <1>7, NickKeeps
<1>11. RegInv'
  <2>1. \A K : \A i \in Waiting(K)' : i \in Nat /\ i >= 1 /\ i + 1 \in Waiting(K)
    BY <1>5, Shifts
  <2>2. /\ \A n \in Flying({"001"})' : n \in Flying({"001"})
        /\ \A n \in Flying({"903"})' : n \in Flying({"903"})
    BY <1>7 DEF Flying, OldMsgs
  <2>3. Answered' <=> Answered
    BY <1>4 DEF Answered
  <2>4. Waiting({"CAP LS"})' = {}
    BY <1>1, <1>5, NoListing
  <2>5. 1 \in Waiting({"CAP LS"})
    BY <1>1, <1>2, HeadWaits
  <2> HIDE DEF Waiting, Flying, Answered
  <2>6. ~srv.user /\ ~srv.welcomed
    BY <1>1, <2>5 DEF RegInv
  <2>7. Waiting({"CAP END"})' # {} =>
          phase' \in PastCaps /\ Waiting({"CAP REQ"})' = {} /\ Answered'
    BY <1>1, <2>1, <2>3 DEF RegInv
  <2>8. QED
    BY <1>1, <1>4, <1>9, <2>1, <2>2, <2>3, <2>4, <2>6, <2>7 DEF RegInv
<1>12. CapInv'
  BY <1>1, <1>4, <1>5, <1>7, CapKeeps
<1>13. SaslInv'
  BY <1>1, <1>4, <1>5, <1>7, SaslKeeps
<1>14. QED
  BY <1>8, <1>10, <1>11, <1>12, <1>13 DEF NegInv

\* The server acknowledges a request or refuses it: its answer is the one on its
\* way about the capabilities it names, for which nothing else waits.
LEMMA SrvCapReqStep ==
  ASSUME NegInv, SrvCapReq
  PROVE  NegInv'
<1>1. /\ Types /\ NickInv /\ RegInv /\ CapInv /\ SaslInv /\ WireTypes
      /\ srv \in Servers /\ ClientTypes /\ ClientTypes'
      /\ allReadMsgs' = allReadMsgs /\ (Active' <=> Active)
      /\ UNCHANGED <<cfg, phase, chosenNick, desiredCaps, engine>>
  BY ServerKeeps DEF SrvCapReq
<1> DEFINE q == c2s[1].caps
<1>2. /\ Receive("CAP REQ") /\ 1 \in Waiting({"CAP REQ"}) /\ Head(c2s) = c2s[1]
      /\ q \in SUBSET Caps
  <2>1. Receive("CAP REQ")
    BY DEF SrvCapReq
  <2>2. c2s[1] \in Commands /\ c2s[1].cmd = "CAP REQ"
    BY <1>1, <2>1, HeadWaits
  <2>3. QED
    BY <1>1, <2>1, <2>2, HeadWaits, CommandFields
<1>3. PICK a \in {"CAP ACK", "CAP NAK", "CAP malformed"} :
        /\ Reply(<< [cmd |-> a, caps |-> q] >>)
        /\ srv' = [srv EXCEPT !.enabled = IF a = "CAP ACK" THEN @ \cup q ELSE @]
  <2>1. \/ /\ Reply(<< [cmd |-> "CAP ACK", caps |-> q] >>)
           /\ srv' = [srv EXCEPT !.enabled = @ \cup q]
        \/ \E a \in {"CAP NAK", "CAP malformed"} :
             /\ Reply(<< [cmd |-> a, caps |-> q] >>)
             /\ srv' = srv
    BY <1>2 DEF SrvCapReq
  <2>2. srv = [srv EXCEPT !.enabled = @]
    BY <1>1 DEF Servers
  <2>3. CASE /\ Reply(<< [cmd |-> "CAP ACK", caps |-> q] >>)
             /\ srv' = [srv EXCEPT !.enabled = @ \cup q]
    BY <2>3
  <2>4. ASSUME NEW a \in {"CAP NAK", "CAP malformed"},
               Reply(<< [cmd |-> a, caps |-> q] >>), srv' = srv
        PROVE  srv' = [srv EXCEPT !.enabled = IF a = "CAP ACK" THEN @ \cup q ELSE @]
    BY <2>2, <2>4
  <2>5. QED
    BY <2>1, <2>3, <2>4
<1> DEFINE m == [cmd |-> a, caps |-> q]
<1>4. m \in Messages
  BY <1>2 DEF Messages, Ruling
<1>5. m.cmd = a /\ m.caps = q /\ Reply(<<m>>)
  BY <1>3
<1>6. /\ UNCHANGED <<srv.cap, srv.user, srv.named, srv.nick, srv.refusals, srv.mech,
                     srv.refused, srv.auth, srv.welcomed>>
      /\ srv'.enabled = (IF a = "CAP ACK" THEN srv.enabled \cup q ELSE srv.enabled)
      /\ srv' \in Servers
  <2>1. (IF a = "CAP ACK" THEN srv.enabled \cup q ELSE srv.enabled) \in SUBSET Caps
    BY <1>1, <1>2 DEF Servers
  <2>2. QED
    BY <1>1, <1>3, <2>1 DEF Servers
<1> HIDE DEF m, q
<1>7. \A K : OldCmds(K, 1) /\ c2s' \in Seq(Commands)
  BY <1>1, <1>2, ReceiveMoves
<1>8. /\ \A K : KeptMsgs(K) /\ (a \notin K => OldMsgs(K))
      /\ sent'[Len(sent) + 1] = m
      /\ \A n \in Flight' : (n \in Flight /\ sent'[n] = sent[n]) \/ n = Len(sent) + 1
  BY <1>1, <1>4, <1>5, ReplyOne
<1>9. /\ OldMsgs({"433"}) /\ OldMsgs({"CAP LS", "001"}) /\ OldMsgs({"903"})
      /\ OldMsgs(SaslMsgs) /\ KeptMsgs(SaslMsgs)
  BY <1>8 DEF SaslMsgs
<1>10. Types'
  <2>1. <<m>> \in Seq(Messages)
    BY <1>4, Single
  <2>2. WireTypes'
    BY <1>1, <1>5, <1>7, <2>1, ReplyTyped
  <2>3. QED
    BY <1>1, <1>6, <2>2 DEF Types
<1>11. phase # "Start"
  BY <1>1, <1>2 DEF RegInv, Receive
<1>12. \A K : \A i \in Waiting(K)' : /\ i \in Nat /\ i >= 1 /\ i + 1 \in Waiting(K)
                                     /\ c2s'[i] = c2s[i + 1]
  BY <1>7, Shifts
<1>13. /\ \A i \in Waiting({"CAP REQ"})' : i \in Nat /\ i + 1 # 1
  BY <1>12, NextPlace
<1>14. Active => /\ q # {} /\ q \subseteq Wanted(cfg)
                 /\ \A c \in q : 1 \in Asking(c)
  <2>1. \A c \in q : 1 \in Asking(c)
    BY <1>2 DEF Asking, q
  <2>2. QED
    BY <1>1, <1>2, <2>1 DEF CapInv, q
<1>15. NickInv'
  BY <1>1, <1>6, <1>7, <1>9, NickKeeps
<1>16. RegInv'
  <2>1. srv.cap = "active" /\ Waiting({"CAP END"}) = {}
    BY <1>1, <1>2 DEF RegInv
  <2>2. phase # "EndCap"
    BY <1>1, <1>2, NoRequests DEF Active
  <2>3. /\ \A n \in Flying({"001"})' : n \in Flying({"001"})
        /\ \A n \in Flying({"903"})' : n \in Flying({"903"})
    BY <1>9 DEF Flying, OldMsgs
  <2>4. Waiting({"CAP LS"})' = {}
    BY <1>1, <1>7, NoListing
  <2> HIDE DEF Waiting, Flying
  <2>5. QED
    BY <1>1, <1>6, <1>11, <1>12, <2>1, <2>2, <2>3, <2>4 DEF RegInv
<1>17. CapInv'
  <2>1. SUFFICES ASSUME Active' PROVE CapInv'
    BY DEF CapInv
  <2>2. Active /\ Wanted(cfg') = Wanted(cfg) /\ q \subseteq Wanted(cfg)
    BY <1>1, <1>14, <2>1
  <2>3. \A n \in Flying({"CAP ACK", "CAP NAK"})' :
          \/ n \in Flying({"CAP ACK", "CAP NAK"}) /\ sent'[n] = sent[n]
          \/ n = Len(sent) + 1 /\ sent'[n].caps = q /\ sent'[n].cmd = a
    BY <1>5, <1>8 DEF Flying
  <2>4. \A c : \A i \in Asking(c)' : i \in Nat /\ i + 1 # 1 /\ i + 1 \in Asking(c)
    BY <1>12, <1>13 DEF Asking
  <2>5. \A c : \A n \in Answering(c)' :
          \/ n \in Answering(c) /\ sent'[n] = sent[n]
          \/ n = Len(sent) + 1 /\ c \in q /\ sent'[n].cmd = a
    BY <2>3 DEF Answering
  <2> HIDE DEF Waiting, Flying, Asking, Answering, Active
  <2>6. /\ \A i \in Waiting({"CAP REQ"})' : c2s'[i].caps # {} /\ c2s'[i].caps \subseteq Wanted(cfg')
        /\ \A n \in Flying({"CAP ACK", "CAP NAK"})' : sent'[n].caps \subseteq Wanted(cfg')
        /\ srv'.enabled \subseteq Wanted(cfg')
    <3>1. \A i \in Waiting({"CAP REQ"})' : c2s'[i].caps # {} /\ c2s'[i].caps \subseteq Wanted(cfg')
      BY <1>1, <1>12, <2>2 DEF CapInv
    <3>2. \A n \in Flying({"CAP ACK", "CAP NAK"})' : sent'[n].caps \subseteq Wanted(cfg')
      BY <1>1, <2>2, <2>3 DEF CapInv
    <3>3. srv'.enabled \subseteq Wanted(cfg')
      BY <1>1, <1>6, <2>2 DEF CapInv
    <3>4. QED
      BY <3>1, <3>2, <3>3
  <2>7. phase' \in {"Start", "WaitCapList"} => \A c \in Wanted(cfg') : desiredCaps'[c] = "desired"
    BY <1>1, <2>2 DEF CapInv
  <2>8. ASSUME NEW c \in Wanted(cfg') PROVE CapStatus(c)'
    <3>1. CapStatus(c)
      BY <1>1, <2>2, <2>8 DEF CapInv
    <3>2. CASE c \notin q
      <4>1. /\ \A n \in Answering(c)' : n \in Answering(c) /\ sent'[n] = sent[n]
            /\ c \in srv'.enabled <=> c \in srv.enabled
        BY <1>6, <2>5, <3>2
      <4>2. \A i, j \in Asking(c)' : i = j
        <5>1. TAKE i, j \in Asking(c)'
        <5>2. i + 1 = j + 1 /\ i \in Nat /\ j \in Nat
          BY <2>4, <3>1 DEF CapStatus
        <5>3. QED
          BY <5>2, Places
      <4>3. Asking(c)' # {} => Asking(c) # {}
        BY <2>4
      <4>4. desiredCaps'[c] = desiredCaps[c] /\ phase' = phase
        BY <1>1
      <4>5. QED
        BY <3>1, <4>1, <4>2, <4>3, <4>4 DEF CapStatus
    <3>3. CASE c \in q
      <4>1. 1 \in Asking(c)
        BY <1>14, <2>2, <3>3
      <4>2. /\ desiredCaps[c] = "requested" /\ phase = "WaitCapAck"
            /\ Answering(c) = {} /\ c \notin srv.enabled /\ Asking(c) = {1}
        BY <3>1, <4>1 DEF CapStatus
      <4>3. Asking(c)' = {}
        <5>1. ASSUME NEW i \in Asking(c)' PROVE FALSE
          <6>1. i + 1 # 1 /\ i + 1 \in Asking(c)
            BY <2>4, <5>1
          <6>2. QED
            BY <4>2, <6>1
        <5>2. QED
          BY <5>1
      <4>4. \A n \in Answering(c)' : n = Len(sent) + 1 /\ sent'[n].cmd = a
        BY <2>5, <4>2
      <4>5. c \in srv'.enabled <=> a = "CAP ACK"
        BY <1>6, <3>3, <4>2
      <4>6. desiredCaps'[c] = "requested" /\ phase' = "WaitCapAck"
        BY <1>1, <4>2
      <4>7. QED
        BY <4>3, <4>4, <4>5, <4>6 DEF CapStatus
    <3>4. QED
      BY <3>2, <3>3
  <2>9. QED
    BY <2>6, <2>7, <2>8 DEF CapInv
<1>18. SaslInv'
  BY <1>1, <1>6, <1>7, <1>9, SaslKeeps
<1>19. QED
  BY <1>10, <1>15, <1>16, <1>17, <1>18 DEF NegInv

\* A SASL command is received: the client is past its requests; where the command
\* was the only one of its kind, nothing is left of them.
LEMMA SaslHead ==
  ASSUME NegInv, NEW cmd \in SaslCmds, Receive(cmd)
  PROVE  /\ 1 \in Waiting(SaslCmds) /\ c2s[1].cmd = cmd /\ c2s[1].method \in Methods
         /\ Head(c2s) = c2s[1] /\ phase \notin EarlyPhases
         /\ (\A i, j \in Waiting(SaslCmds) : i = j) => Waiting(SaslCmds)' = {}
         /\ cmd = "AUTHENTICATE" => Waiting({"RESPONSE"}) = {} /\ Waiting({"RESPONSE"})' = {}
<1>1. WireTypes /\ SaslInv
  BY DEF NegInv, Types
<1>2. /\ 1 \in Waiting({cmd}) /\ c2s[1].cmd = cmd /\ c2s[1] \in Commands
      /\ Head(c2s) = c2s[1]
  BY <1>1, HeadWaits
<1>3. 1 \in Waiting(SaslCmds)
  BY <1>2 DEF Waiting
<1>4. c2s[1].method \in Methods
  BY <1>2, CommandFields
<1>5. phase \notin EarlyPhases
  <2> HIDE DEF Waiting, SaslCmds
  <2>1. QED
    BY <1>1, <1>3 DEF SaslInv, Silent, EarlyPhases
<1>6. \A K : \A i \in Waiting(K)' : i \in Nat /\ i >= 1 /\ i + 1 \in Waiting(K)
  <2>1. ASSUME NEW K
        PROVE  \A i \in Waiting(K)' : i \in Nat /\ i >= 1 /\ i + 1 \in Waiting(K)
    BY <1>1, ReceiveMoves, Shifts
  <2>2. QED
    BY <2>1
<1>7. ASSUME \A i, j \in Waiting(SaslCmds) : i = j, NEW i \in Waiting(SaslCmds)'
      PROVE  FALSE
  <2>1. i \in Nat /\ i >= 1 /\ i + 1 \in Waiting(SaslCmds)
    BY <1>6, <1>7
  <2> HIDE DEF Waiting
  <2>2. i + 1 = 1
    BY <1>3, <1>7, <2>1
  <2>3. QED
    BY <2>1, <2>2, NextPlace
<1>8. ASSUME cmd = "AUTHENTICATE", NEW i \in Waiting({"RESPONSE"}) PROVE FALSE
  <2>1. i \in Waiting(SaslCmds) /\ c2s[i].cmd = "RESPONSE"
    BY <1>8 DEF Waiting, SaslCmds
  <2> HIDE DEF Waiting, SaslCmds
  <2>2. i = 1
    BY <1>1, <1>3, <1>8, <2>1 DEF SaslInv
  <2>3. QED
    BY <1>2, <1>8, <2>1, <2>2
<1>9. cmd = "AUTHENTICATE" => Waiting({"RESPONSE"}) = {}
  BY <1>8
<1> HIDE DEF Waiting
<1>10. Waiting({"RESPONSE"}) = {} => Waiting({"RESPONSE"})' = {}
  BY <1>6
<1>11. QED
  BY <1>2, <1>3, <1>4, <1>5, <1>7, <1>9, <1>10

\* How a server refuses a method: "908" with those it supports and then "904", one
\* of them, or something the client does not understand.
Unexpected == {"902", "SASL malformed"}
Refusing(ms) ==
  /\ \A j \in 1..Len(ms) : /\ ms[j].cmd \in {"904", "908"} \cup Unexpected
                           /\ ms[j].cmd = "908" => ms[j].methods = cfg.mechs
  /\ \A j, k \in 1..Len(ms) : j < k => ms[j].cmd = "908" /\ ms[k].cmd = "904"

\* The replies of a server to a method are of that kind, or its challenge.
LEMMA AuthReplies ==
  ASSUME NegInv, SrvAuthenticate
  PROVE  \E ms \in Seq(Messages) :
           /\ Reply(ms)
           /\ \/ /\ \A j \in 1..Len(ms) : ms[j].cmd \in {"AUTHENTICATE"} \cup Unexpected
                 /\ \A j, k \in 1..Len(ms) : j = k
                 /\ srv' = [srv EXCEPT !.mech = Head(c2s).method]
              \/ /\ Refusing(ms) /\ Head(c2s).method \notin ToSet(cfg.mechs)
                 /\ srv' = [srv EXCEPT !.refused = @ \cup {Head(c2s).method}]
<1> DEFINE ask == [cmd |-> "AUTHENTICATE"]
           fail == [cmd |-> "904"]
           list == [cmd |-> "908", methods |-> cfg.mechs]
           ignored == [cmd |-> "902"]
           bad == [cmd |-> "SASL malformed"]
<1>1. cfg.mechs \in MethodLists
  BY DEF NegInv, Types, ClientTypes, Cfgs
<1>2. /\ ask \in Messages /\ fail \in Messages /\ list \in Messages
      /\ ignored \in Messages /\ bad \in Messages
  BY <1>1 DEF Messages, Bare, Naming
<1>3. /\ ask.cmd = "AUTHENTICATE" /\ fail.cmd = "904" /\ list.cmd = "908"
      /\ list.methods = cfg.mechs /\ ignored.cmd = "902" /\ bad.cmd = "SASL malformed"
  OBVIOUS
<1>4. \/ /\ srv' = [srv EXCEPT !.mech = Head(c2s).method]
         /\ Reply(<<ask>>) \/ Reply(<<bad>>)
      \/ /\ srv' = [srv EXCEPT !.refused = @ \cup {Head(c2s).method}]
         /\ Head(c2s).method \notin ToSet(cfg.mechs)
         /\ \/ Reply(<<fail>>) \/ Reply(<<list>>) \/ Reply(<<list, fail>>)
            \/ Reply(<<ignored>>) \/ Reply(<<bad>>)
  BY DEF SrvAuthenticate
<1> HIDE DEF ask, fail, list, ignored, bad
<1>5. ASSUME NEW m \in {ask, bad}, Reply(<<m>>), srv' = [srv EXCEPT !.mech = Head(c2s).method]
      PROVE  \E ms \in Seq(Messages) :
               /\ Reply(ms)
               /\ \A j \in 1..Len(ms) : ms[j].cmd \in {"AUTHENTICATE"} \cup Unexpected
               /\ \A j, k \in 1..Len(ms) : j = k
  <2> DEFINE ms == <<m>>
  <2>1. /\ ms \in Seq(Messages)
        /\ \A j \in 1..Len(ms) : j = 1 /\ ms[j] = m
    BY <1>2, <1>5, Single
  <2>2. Reply(ms)
    BY <1>5
  <2> HIDE DEF ms
  <2>3. /\ \A j \in 1..Len(ms) : ms[j].cmd \in {"AUTHENTICATE"} \cup Unexpected
        /\ \A j, k \in 1..Len(ms) : j = k
    BY <1>3, <1>5, <2>1 DEF Unexpected
  <2>4. QED
    BY <2>1, <2>2, <2>3
<1>6. ASSUME NEW m \in {fail, list, ignored, bad}, Reply(<<m>>)
      PROVE  \E ms \in Seq(Messages) : Reply(ms) /\ Refusing(ms)
  <2> DEFINE ms == <<m>>
  <2>1. /\ ms \in Seq(Messages)
        /\ \A j \in 1..Len(ms) : j = 1 /\ ms[j] = m
    BY <1>2, <1>6, Single
  <2>2. Reply(ms)
    BY <1>6
  <2> HIDE DEF ms
  <2>3. /\ m.cmd \in {"904", "908"} \cup Unexpected
        /\ m.cmd = "908" => m.methods = cfg.mechs
    BY <1>3, <1>6 DEF Unexpected
  <2>4. \A j, k \in 1..Len(ms) : ~(j < k)
    BY <2>1
  <2>5. Refusing(ms)
    BY <2>1, <2>3, <2>4 DEF Refusing
  <2>6. QED
    BY <2>1, <2>2, <2>5
<1>7. ASSUME Reply(<<list, fail>>)
      PROVE  \E ms \in Seq(Messages) : Reply(ms) /\ Refusing(ms)
  <2> DEFINE ms == <<list, fail>>
  <2>1. ms \in Seq(Messages) /\ Len(ms) = 2 /\ ms[1] = list /\ ms[2] = fail
    BY <1>2, Pair
  <2>2. Reply(ms)
    BY <1>7
  <2> HIDE DEF ms
  <2>3. \A j \in 1..2 : j = 1 \/ j = 2
    OBVIOUS
  <2>4. \A j, k \in 1..2 : j < k => j = 1 /\ k = 2
    OBVIOUS
  <2>5. Refusing(ms)
    <3>1. \A j \in 1..Len(ms) : /\ ms[j].cmd \in {"904", "908"} \cup Unexpected
                                /\ ms[j].cmd = "908" => ms[j].methods = cfg.mechs
      BY <1>3, <2>1, <2>3
    <3>2. \A j, k \in 1..Len(ms) : j < k => ms[j].cmd = "908" /\ ms[k].cmd = "904"
      BY <1>3, <2>1, <2>4
    <3>3. QED
      BY <3>1, <3>2 DEF Refusing
  <2>6. QED
    BY <2>1, <2>2, <2>5
<1>8. QED
  BY <1>4, <1>5, <1>6, <1>7

\* Refusals grow: a password that may be offered still may.
LEMMA PasswordKeeps ==
  ASSUME PasswordLast, NEW d \in {0, 1}, OldCmds(SaslCmds, d), engine' = engine,
         srv.refused \subseteq srv'.refused
  PROVE  PasswordLast'
<1>1. \A i \in DOMAIN c2s' :
        c2s'[i].cmd = "AUTHENTICATE" => i + d \in DOMAIN c2s /\ c2s'[i] = c2s[i + d]
  BY DEF OldCmds, SaslCmds
<1>2. QED
  BY <1>1 DEF PasswordLast

\* The server has its say on the method the client offers, for which nothing else
\* is on its way unless the client is about to give up.
LEMMA SrvAuthenticateStep ==
  ASSUME NegInv, SrvAuthenticate
  PROVE  NegInv'
<1>1. /\ Types /\ NickInv /\ RegInv /\ CapInv /\ SaslInv /\ WireTypes
      /\ srv \in Servers /\ ClientTypes /\ ClientTypes'
      /\ allReadMsgs' = allReadMsgs /\ (Active' <=> Active)
      /\ UNCHANGED <<cfg, phase, chosenNick, desiredCaps, engine>>
  BY ServerKeeps DEF SrvAuthenticate
<1> DEFINE meth == c2s[1].method
<1>2. /\ Receive("AUTHENTICATE") /\ "AUTHENTICATE" \in SaslCmds
  BY DEF SrvAuthenticate, SaslCmds
<1>3. /\ 1 \in Waiting(SaslCmds) /\ c2s[1].cmd = "AUTHENTICATE" /\ meth \in Methods
      /\ Head(c2s) = c2s[1] /\ phase \notin EarlyPhases
      /\ (\A i, j \in Waiting(SaslCmds) : i = j) => Waiting(SaslCmds)' = {}
      /\ Waiting({"RESPONSE"}) = {} /\ Waiting({"RESPONSE"})' = {}
  BY <1>2, SaslHead
<1>4. PICK ms \in Seq(Messages) :
        /\ Reply(ms)
        /\ \/ /\ \A j \in 1..Len(ms) : ms[j].cmd \in {"AUTHENTICATE"} \cup Unexpected
              /\ \A j, k \in 1..Len(ms) : j = k
              /\ srv' = [srv EXCEPT !.mech = meth]
           \/ /\ Refusing(ms) /\ meth \notin ToSet(cfg.mechs)
              /\ srv' = [srv EXCEPT !.refused = @ \cup {meth}]
  BY <1>3, AuthReplies
<1> HIDE DEF meth
<1>5. /\ UNCHANGED <<srv.cap, srv.user, srv.named, srv.nick, srv.refusals, srv.enabled,
                     srv.auth, srv.welcomed>>
      /\ srv' \in Servers /\ srv.refused \subseteq srv'.refused
  <2>1. ASSUME srv' = [srv EXCEPT !.mech = meth]
        PROVE  /\ UNCHANGED <<srv.cap, srv.user, srv.named, srv.nick, srv.refusals, srv.enabled,
                              srv.auth, srv.welcomed, srv.refused>>
               /\ srv' \in Servers
    BY <1>1, <1>3, <2>1 DEF Servers
  <2>2. ASSUME NEW r \in SUBSET Methods, srv' = [srv EXCEPT !.refused = r]
        PROVE  /\ UNCHANGED <<srv.cap, srv.user, srv.named, srv.nick, srv.refusals, srv.enabled,
                              srv.auth, srv.welcomed>>
               /\ srv' \in Servers /\ srv'.refused = r
    BY <1>1, <2>2 DEF Servers
  <2>3. srv.refused \cup {meth} \in SUBSET Methods
    BY <1>1, <1>3 DEF Servers
  <2>4. QED
    BY <1>4, <2>1, <2>2, <2>3
<1>6. \A K : OldCmds(K, 1) /\ c2s' \in Seq(Commands)
  BY <1>1, <1>2, ReceiveMoves
<1> DEFINE Said == {"AUTHENTICATE", "904", "908"} \cup Unexpected
<1>7. \A j \in 1..Len(ms) : ms[j].cmd \in Said
  BY <1>4 DEF Refusing
<1> HIDE DEF Said
<1>8. \A K : KeptMsgs(K) /\ (K \cap Said = {} => OldMsgs(K))
  <2>1. ASSUME NEW K
        PROVE  KeptMsgs(K) /\ (K \cap Said = {} => OldMsgs(K))
    BY <1>1, <1>4, <1>7, ReplyMoves
  <2>2. QED
    BY <2>1
<1>9. /\ OldMsgs({"433"}) /\ OldMsgs({"CAP LS", "001"}) /\ OldMsgs({"903"})
      /\ OldMsgs({"CAP ACK", "CAP NAK"})
  BY <1>8 DEF Said, Unexpected
<1>10. Types'
  BY <1>1, <1>4, <1>5, <1>6, ReplyTyped DEF Types
<1>11. phase # "Start"
  BY <1>3 DEF EarlyPhases
<1>12. NickInv'
  BY <1>1, <1>5, <1>6, <1>9, NickKeeps
<1>13. RegInv'
  BY <1>1, <1>5, <1>6, <1>9, <1>11, RegKeeps
<1>14. CapInv'
  BY <1>1, <1>5, <1>6, <1>9, CapKeeps
<1>15. SaslInv'
  <2>1. PasswordLast'
    BY <1>1, <1>5, <1>6, PasswordKeeps DEF SaslInv
  <2>2. ASSUME phase = "StartSasl" PROVE Exhausted(engine)'
    <3> HIDE DEF Waiting, SaslCmds
    <3>1. Exhausted(engine)
      BY <1>1, <1>3, <2>2 DEF SaslInv, Silent, OneMore
    <3>2. QED
      BY <1>1, <3>1 DEF Exhausted
  <2>3. /\ \A n \in Flight' :
             \/ n \in Flight /\ sent'[n] = sent[n]
             \/ \E j \in 1..Len(ms) : n = Len(sent) + j /\ sent'[n] = ms[j]
        /\ Len(sent) \in Nat /\ \A n \in Flight : n \in Nat /\ n <= Len(sent)
    <3>1. /\ \A n \in Flight : sent'[n] = sent[n]
          /\ \A j \in 1..Len(ms) : sent'[Len(sent) + j] = ms[j]
          /\ \A n \in Flight' : n \in Flight \/ (\E j \in 1..Len(ms) : n = Len(sent) + j)
      BY <1>1, <1>4, Sends
    <3>2. Len(sent) \in Nat /\ Len(allReadMsgs) \in Nat
      BY <1>1 DEF WireTypes
    <3>3. \A n \in Flight : n \in Nat /\ n <= Len(sent)
      BY <3>2 DEF Flight
    <3>4. QED
      BY <3>1, <3>2, <3>3
  <2>4. ASSUME GivesUp PROVE GivesUp'
    <3>1. PICK n \in Flying({"904"}) : \A m \in Flying(SaslMsgs) : n <= m
      BY <2>4 DEF GivesUp
    <3>2. n \in Flying({"904"})' /\ n \in Nat /\ n <= Len(sent)
      <4>1. n \in Flight /\ sent[n].cmd \in {"904"}
        BY <3>1 DEF Flying
      <4>2. n \in Flight' /\ sent'[n] = sent[n]
        BY <1>8, <4>1 DEF KeptMsgs
      <4>3. QED
        BY <2>3, <4>1, <4>2 DEF Flying
    <3>3. ASSUME NEW m \in Flying(SaslMsgs)' PROVE n <= m
      <4>1. m \in Flight' /\ sent'[m].cmd \in SaslMsgs
        BY <3>3 DEF Flying
      <4>2. CASE m \in Flight /\ sent'[m] = sent[m]
        BY <3>1, <4>1, <4>2 DEF Flying
      <4>3. CASE \E j \in 1..Len(ms) : m = Len(sent) + j
        BY <2>3, <3>2, <4>3
      <4>4. QED
        BY <2>3, <4>1, <4>2, <4>3
    <3>4. engine'.idx = Len(engine'.methods) /\ Len(engine'.methods) <= 1
      BY <1>1, <2>4 DEF GivesUp
    <3>5. QED
      BY <1>3, <3>2, <3>3, <3>4 DEF GivesUp
  <2>5. ASSUME InTurn, phase = "WaitSasl" PROVE InTurn'
    <3>1. /\ Waiting(SaslCmds)' = {} /\ Flying(SaslMsgs) = {} /\ meth = CurMethod(engine)
      <4>1. /\ \A i, j \in Waiting(SaslCmds) : i = j
            /\ Flying(SaslMsgs) = {}
            /\ c2s[1].method = CurMethod(engine)
        <5> HIDE DEF Waiting, Flying, CurMethod
        <5>1. QED
          BY <1>3, <2>5 DEF InTurn
      <4>2. QED
        BY <1>3, <4>1 DEF meth
    <3>2. \A n \in Flying(SaslMsgs)' :
            \E j \in 1..Len(ms) : n = Len(sent) + j /\ sent'[n] = ms[j]
      <4>1. TAKE n \in Flying(SaslMsgs)'
      <4>2. n \in Flight' /\ sent'[n].cmd \in SaslMsgs
        BY DEF Flying
      <4>3. ~(n \in Flight /\ sent'[n] = sent[n])
        BY <3>1, <4>2 DEF Flying
      <4>4. QED
        BY <2>3, <4>2, <4>3
    <3>3. /\ \A n \in Flying({"AUTHENTICATE"})' : n \in Flying(SaslMsgs)' /\ sent'[n].cmd = "AUTHENTICATE"
          /\ \A n \in Flying({"904", "908"})' : n \in Flying(SaslMsgs)' /\ sent'[n].cmd \in {"904", "908"}
          /\ \A n \in Flying({"908"})' : n \in Flying(SaslMsgs)' /\ sent'[n].cmd = "908"
      BY DEF Flying, SaslMsgs
    <3>4. Refused(engine.idx - 1)'
      BY <1>1, <1>5, <2>5 DEF InTurn, Refused
    <3>5. CurMethod(engine)' = CurMethod(engine)
      BY <1>1 DEF CurMethod
    <3>6. CASE /\ \A j \in 1..Len(ms) : ms[j].cmd \in {"AUTHENTICATE"} \cup Unexpected
               /\ \A j, k \in 1..Len(ms) : j = k
               /\ srv' = [srv EXCEPT !.mech = meth]
      <4>1. srv'.mech = CurMethod(engine)'
        BY <1>1, <3>1, <3>5, <3>6 DEF Servers
      <4>2. \A n \in Flying(SaslMsgs)' : sent'[n].cmd = "AUTHENTICATE"
        <5>1. TAKE n \in Flying(SaslMsgs)'
        <5>2. sent'[n].cmd \in {"AUTHENTICATE"} \cup Unexpected
          BY <3>2, <3>6
        <5>3. QED
          BY <5>2 DEF Flying, SaslMsgs, Unexpected
      <4>3. \A m, n \in Flying(SaslMsgs)' : m = n
        BY <3>2, <3>6
      <4>4. \A m, n \in Flying(SaslMsgs)' : ~(m < n)
        <5>1. \A n \in Flying(SaslMsgs)' : n \in Nat
          BY <2>3, <3>2
        <5>2. QED
          BY <4>3, <5>1
      <4> HIDE DEF Waiting, Flying, CurMethod, SaslMsgs, SaslCmds, Refused
      <4>5. Flying({"904", "908"})' = {} /\ Flying({"908"})' = {}
        <5>1. \A n \in Flying({"904", "908"})' : FALSE
          BY <3>3, <4>2
        <5>2. \A n \in Flying({"908"})' : FALSE
          BY <3>3, <4>2
        <5>3. QED
          BY <5>1, <5>2
      <4>6. QED
        BY <3>1, <3>4, <4>1, <4>4, <4>5 DEF InTurn
    <3>7. CASE /\ Refusing(ms) /\ meth \notin ToSet(cfg.mechs)
               /\ srv' = [srv EXCEPT !.refused = @ \cup {meth}]
      <4>1. srv'.refused = srv.refused \cup {meth}
        BY <1>1, <3>7 DEF Servers
      <4>2. Refused(engine.idx)'
        <5>1. engine.idx \in Nat /\ engine.methods[engine.idx] = meth
          BY <1>1, <3>1 DEF ClientTypes, Engines, CurMethod
        <5>2. ASSUME NEW j \in 1..engine.idx PROVE engine.methods[j] \in srv'.refused
          <6>1. j = engine.idx \/ j \in 1..engine.idx - 1
            BY <5>1
          <6>2. QED
            BY <2>5, <4>1, <5>1, <6>1 DEF InTurn, Refused
        <5>3. QED
          BY <1>1, <5>2 DEF Refused
      <4>3. ToSet(cfg'.mechs) # Methods
        BY <1>1, <1>3, <3>7
      <4>4. \A n \in Flying(SaslMsgs)' : sent'[n].cmd \in {"904", "908"}
        <5>1. TAKE n \in Flying(SaslMsgs)'
        <5>2. sent'[n].cmd \in {"904", "908"} \cup Unexpected
          BY <3>2, <3>7 DEF Refusing
        <5>3. QED
          BY <5>2 DEF Flying, SaslMsgs, Unexpected
      <4>5. \A n \in Flying({"908"})' : sent'[n].methods = cfg'.mechs
        BY <1>1, <3>2, <3>3, <3>7 DEF Refusing
      <4>6. ASSUME NEW m \in Flying(SaslMsgs)', NEW n \in Flying(SaslMsgs)', m < n
            PROVE  sent'[m].cmd = "908" /\ sent'[n].cmd = "904"
        <5>1. PICK j \in 1..Len(ms) : m = Len(sent) + j /\ sent'[m] = ms[j]
          BY <3>2
        <5>2. PICK k \in 1..Len(ms) : n = Len(sent) + k /\ sent'[n] = ms[k]
          BY <3>2
        <5>3. j < k
          BY <2>3, <4>6, <5>1, <5>2
        <5>4. QED
          BY <3>7, <5>1, <5>2, <5>3 DEF Refusing
      <4> HIDE DEF Waiting, Flying, CurMethod, SaslMsgs, SaslCmds, Refused
      <4>7. Flying({"AUTHENTICATE"})' = {}
        <5>1. \A n \in Flying({"AUTHENTICATE"})' : FALSE
          BY <3>3, <4>4
        <5>2. QED
          BY <5>1
      <4>8. QED
        BY <3>1, <3>4, <4>2, <4>3, <4>5, <4>6, <4>7 DEF InTurn
    <3>8. QED
      BY <1>4, <3>6, <3>7
  <2>6. phase \in {"StartSasl", "WaitSasl"} => engine.made
    BY <1>1 DEF SaslInv
  <2>7. phase = "WaitSasl" => engine.idx > 0 /\ (InTurn \/ GivesUp)
    BY <1>1 DEF SaslInv
  <2>8. phase' = phase /\ engine' = engine
    BY <1>1
  <2> HIDE DEF Waiting, Flying, SaslMsgs, SaslCmds, PasswordLast
  <2>9. QED
    BY <1>3, <2>1, <2>2, <2>4, <2>5, <2>6, <2>7, <2>8 DEF SaslInv, EarlyPhases
<1>16. QED
  BY <1>10, <1>12, <1>13, <1>14, <1>15 DEF NegInv

\* The server accepts or refuses the client's answer: it is the answer for the
\* method the engine is at.
LEMMA SrvResponseStep ==
  ASSUME NegInv, SrvResponse
  PROVE  NegInv'
<1>1. /\ Types /\ NickInv /\ RegInv /\ CapInv /\ SaslInv /\ WireTypes
      /\ srv \in Servers /\ ClientTypes /\ ClientTypes'
      /\ allReadMsgs' = allReadMsgs /\ (Active' <=> Active)
      /\ UNCHANGED <<cfg, phase, chosenNick, desiredCaps, engine>>
  BY ServerKeeps DEF SrvResponse
<1>2. Receive("RESPONSE") /\ "RESPONSE" \in SaslCmds
  BY DEF SrvResponse, SaslCmds
<1>3. /\ 1 \in Waiting(SaslCmds) /\ c2s[1].cmd = "RESPONSE" /\ c2s[1].method \in Methods
      /\ phase \notin EarlyPhases
      /\ (\A i, j \in Waiting(SaslCmds) : i = j) => Waiting(SaslCmds)' = {}
      /\ 1 \in Waiting({"RESPONSE"})
  BY <1>1, <1>2, SaslHead, HeadWaits
<1>4. /\ c2s[1].method = srv.mech /\ srv.mech \in Methods
      /\ Waiting(SaslCmds)' = {}
  <2> HIDE DEF Waiting
  <2>1. QED
    BY <1>1, <1>3 DEF SaslInv
<1>5. PICK a \in {"902", "903", "904"} :
        /\ Reply(<< [cmd |-> a] >>)
        /\ a = "903" => srv' = [srv EXCEPT !.auth = TRUE, !.mech = "none"]
        /\ a # "903" => srv' = [srv EXCEPT !.refused = @ \cup {srv.mech}, !.mech = "none"]
  <2>1. CASE /\ Reply(<< [cmd |-> "903"] >>)
             /\ srv' = [srv EXCEPT !.auth = TRUE, !.mech = "none"]
    BY <2>1
  <2>2. ASSUME NEW no \in {"902", "904"}, Reply(<< [cmd |-> no] >>),
               srv' = [srv EXCEPT !.refused = @ \cup {srv.mech}, !.mech = "none"]
        PROVE  \E a \in {"902", "903", "904"} :
                 /\ Reply(<< [cmd |-> a] >>)
                 /\ a = "903" => srv' = [srv EXCEPT !.auth = TRUE, !.mech = "none"]
                 /\ a # "903" => srv' = [srv EXCEPT !.refused = @ \cup {srv.mech}, !.mech = "none"]
    BY <2>2
  <2>3. QED
    BY <2>1, <2>2 DEF SrvResponse
<1> DEFINE m == [cmd |-> a]
<1>6. m \in Messages
  BY DEF Messages, Bare
<1>7. m.cmd = a /\ Reply(<<m>>)
  BY <1>5
<1> HIDE DEF m
<1>8. /\ UNCHANGED <<srv.cap, srv.user, srv.named, srv.nick, srv.refusals, srv.enabled,
                     srv.welcomed>>
      /\ srv' \in Servers /\ srv.refused \subseteq srv'.refused
      /\ srv.auth => srv'.auth
      /\ a = "903" => srv'.auth
      /\ a # "903" => srv'.refused = srv.refused \cup {srv.mech}
  <2>1. CASE srv' = [srv EXCEPT !.auth = TRUE, !.mech = "none"] /\ a = "903"
    BY <1>1, <2>1 DEF Servers
  <2>2. ASSUME NEW r \in SUBSET Methods, srv' = [srv EXCEPT !.refused = r, !.mech = "none"]
        PROVE  /\ UNCHANGED <<srv.cap, srv.user, srv.named, srv.nick, srv.refusals, srv.enabled,
                              srv.auth, srv.welcomed>>
               /\ srv' \in Servers /\ srv'.refused = r
    BY <1>1, <2>2 DEF Servers
  <2>3. srv.refused \cup {srv.mech} \in SUBSET Methods
    BY <1>1, <1>4 DEF Servers
  <2>4. QED
    BY <1>5, <2>1, <2>2, <2>3
<1>9. \A K : OldCmds(K, 1) /\ c2s' \in Seq(Commands)
  BY <1>1, <1>2, ReceiveMoves
<1>10. /\ \A K : KeptMsgs(K) /\ (a \notin K => OldMsgs(K))
       /\ sent'[Len(sent) + 1] = m
       /\ \A n \in Flight' : (n \in Flight /\ sent'[n] = sent[n]) \/ n = Len(sent) + 1
       /\ Len(sent) + 1 \in Nat
  BY <1>1, <1>6, <1>7, ReplyOne
<1>11. /\ OldMsgs({"433"}) /\ OldMsgs({"CAP LS", "001"}) /\ (OldMsgs({"903"}) \/ srv'.auth)
       /\ OldMsgs({"CAP ACK", "CAP NAK"})
  BY <1>8, <1>10
<1>12. Types'
  <2>1. <<m>> \in Seq(Messages)
    BY <1>6, Single
  <2>2. WireTypes'
    BY <1>1, <1>7, <1>9, <2>1, ReplyTyped
  <2>3. QED
    BY <1>1, <1>8, <2>2 DEF Types
<1>13. phase # "Start"
  BY <1>3 DEF EarlyPhases
<1>14. NickInv'
  BY <1>1, <1>8, <1>9, <1>11, NickKeeps
<1>15. RegInv'
  BY <1>1, <1>8, <1>9, <1>11, <1>13, RegKeeps
<1>16. CapInv'
  BY <1>1, <1>8, <1>9, <1>11, CapKeeps
<1>17. SaslInv'
  <2>1. PasswordLast'
    BY <1>1, <1>8, <1>9, PasswordKeeps DEF SaslInv
  <2>2. Waiting({"RESPONSE"})' = {}
    BY <1>4 DEF Waiting, SaslCmds
  <2>3. phase # "StartSasl" /\ (phase = "WaitSasl" => InTurn /\ engine.made /\ engine.idx > 0)
    <3>1. /\ ~Silent /\ ~OneMore /\ ~GivesUp
      <4> HIDE DEF Waiting, Flying, SaslCmds, SaslMsgs
      <4>1. QED
        BY <1>3 DEF Silent, OneMore, GivesUp
    <3> HIDE DEF Waiting
    <3>2. QED
      BY <1>1, <1>3, <3>1 DEF SaslInv
  <2>4. ASSUME phase = "WaitSasl" PROVE InTurn'
    <3>1. InTurn
      BY <2>3, <2>4
    <3>2. Flying(SaslMsgs) = {} /\ srv.mech = CurMethod(engine)
      <4> HIDE DEF Waiting, Flying, CurMethod
      <4>1. QED
        BY <1>3, <1>4, <3>1 DEF InTurn
    <3>3. \A n \in Flying(SaslMsgs)' : n = Len(sent) + 1 /\ sent'[n].cmd = a
      <4>1. TAKE n \in Flying(SaslMsgs)'
      <4>2. n \in Flight' /\ sent'[n].cmd \in SaslMsgs
        BY DEF Flying
      <4>3. ~(n \in Flight /\ sent'[n] = sent[n])
        BY <3>2, <4>2 DEF Flying
      <4>4. QED
        BY <1>7, <1>10, <4>2, <4>3
    <3>4. /\ \A n \in Flying({"AUTHENTICATE"})' : n \in Flying(SaslMsgs)' /\ sent'[n].cmd = "AUTHENTICATE"
          /\ \A n \in Flying({"904", "908"})' : n \in Flying(SaslMsgs)' /\ sent'[n].cmd \in {"904", "908"}
          /\ \A n \in Flying({"908"})' : n \in Flying(SaslMsgs)' /\ sent'[n].cmd = "908"
      BY DEF Flying, SaslMsgs
    <3>5. Refused(engine.idx - 1)'
      BY <1>1, <1>8, <3>1 DEF InTurn, Refused
    <3>6. ASSUME a # "903" PROVE Refused(engine.idx)'
      <4>1. engine.idx \in Nat /\ engine.methods[engine.idx] = srv.mech
        BY <1>1, <3>2 DEF ClientTypes, Engines, CurMethod
      <4>2. ASSUME NEW j \in 1..engine.idx PROVE engine.methods[j] \in srv'.refused
        <5>1. j = engine.idx \/ j \in 1..engine.idx - 1
          BY <4>1
        <5>2. QED
          BY <1>8, <3>1, <3>6, <4>1, <5>1 DEF InTurn, Refused
      <4>3. QED
        BY <1>1, <4>2 DEF Refused
    <3>7. \A k, n \in Flying(SaslMsgs)' : ~(k < n)
      BY <1>10, <3>3
    <3> HIDE DEF Waiting, Flying, CurMethod, SaslMsgs, SaslCmds, Refused
    <3>8. Flying({"AUTHENTICATE"})' = {} /\ Flying({"908"})' = {}
      <4>1. \A n \in Flying({"AUTHENTICATE"})' : FALSE
        BY <3>3, <3>4
      <4>2. \A n \in Flying({"908"})' : FALSE
        BY <3>3, <3>4
      <4>3. QED
        BY <4>1, <4>2
    <3>9. Flying({"904", "908"})' # {} => Refused(engine.idx)'
      <4>1. ASSUME NEW n \in Flying({"904", "908"})' PROVE Refused(engine.idx)'
        BY <3>3, <3>4, <3>6, <4>1
      <4>2. QED
        BY <4>1
    <3>10. QED
      BY <1>4, <3>5, <3>7, <3>8, <3>9 DEF InTurn
  <2>5. phase' = phase /\ engine' = engine
    BY <1>1
  <2> HIDE DEF Waiting, Flying, SaslMsgs, SaslCmds, PasswordLast
  <2>6. QED
    BY <1>3, <2>1, <2>2, <2>3, <2>4, <2>5 DEF SaslInv, EarlyPhases
<1>18. QED
  BY <1>12, <1>14, <1>15, <1>16, <1>17 DEF NegInv

-----------------------------------------------------------------------------
(* The invariant, and what it says.                                        *)

\* It holds before anything is sent: no queue holds anything.
LEMMA InitInv ==
  ASSUME Init
  PROVE  NegInv
<1>1. Wanted(cfg) \subseteq Caps /\ cfg \in Cfgs
  BY CapsAssumption DEF Init, Cfgs, Wanted
<1>2. /\ c2s = <<>> /\ sent = <<>> /\ allReadMsgs = <<>> /\ srv = SrvInit
      /\ phase = "Start" /\ chosenNick = 0 /\ engine = NoEngine
      /\ desiredCaps = [c \in Wanted(cfg) |-> "desired"]
      /\ supported = {} /\ capValue = NoValue /\ lost = FALSE
  BY DEF Init
<1>3. /\ c2s \in Seq(Commands) /\ sent \in Seq(Messages) /\ allReadMsgs \in Seq(Messages)
      /\ Len(sent) = 0 /\ Len(allReadMsgs) = 0 /\ DOMAIN c2s = {}
  BY <1>2
<1>4. /\ \A K : Waiting(K) = {} /\ Flying(K) = {}
  BY <1>3 DEF Waiting, Flying, Flight
<1>5. srv \in Servers
  BY <1>2 DEF SrvInit, Servers
<1>6. /\ srv.cap = "none" /\ ~srv.user /\ ~srv.named /\ ~srv.welcomed /\ srv.enabled = {}
      /\ srv.refusals = 0
  BY <1>2 DEF SrvInit
<1>7. engine \in Engines /\ engine.idx <= Len(engine.methods) /\ ~engine.made
  <2>1. Len(<<>>) = 0
    OBVIOUS
  <2>2. QED
    BY <1>2, <2>1 DEF NoEngine, Engines
<1>8. Types
  <2>1. ClientTypes
    BY <1>1, <1>2, <1>7 DEF ClientTypes, Phases, Statuses
  <2>2. WireTypes
    BY <1>3 DEF WireTypes
  <2>3. QED
    BY <1>5, <2>1, <2>2 DEF Types
<1> HIDE DEF Waiting, Flying
<1>9. NickInv
  BY <1>2, <1>4, <1>6, BoundsAssumption DEF NickInv
<1>10. RegInv
  BY <1>2, <1>4, <1>6 DEF RegInv, AmidCaps
<1>11. CapInv
  <2>1. ASSUME NEW c \in Wanted(cfg) PROVE CapStatus(c) /\ desiredCaps[c] = "desired"
    <3>1. Asking(c) = {} /\ Answering(c) = {}
      BY <1>4 DEF Asking, Answering
    <3>2. desiredCaps[c] = "desired" /\ c \notin srv.enabled
      BY <1>2, <1>6
    <3> HIDE DEF Asking, Answering
    <3>3. QED
      BY <3>1, <3>2 DEF CapStatus
  <2>2. QED
    BY <1>4, <1>6, <2>1 DEF CapInv
<1>12. SaslInv
  <2>1. PasswordLast
    BY <1>3 DEF PasswordLast
  <2> HIDE DEF PasswordLast
  <2>2. QED
    BY <1>2, <1>4, <1>7, <2>1 DEF SaslInv, Silent
<1>13. QED
  BY <1>8, <1>9, <1>10, <1>11, <1>12 DEF NegInv

\* Every step of the client, of the server and of the network preserves it.
LEMMA StepInv ==
  ASSUME NegInv, [Next]_vars
  PROVE  NegInv'
<1>1. CASE ClientStep
  BY <1>1, StartStep, WelcomeStep, NickRefusedStep, CapListStep, CapAckStep,
     AuthenticateStep, SaslSuccessStep, SaslRefusedStep, MalformedStep, OtherStep, StartSaslStep,
     EndCapStep, DrainStep DEF ClientStep
<1>2. CASE ServerStep
  BY <1>2, SrvCapLSStep, SrvNoCapStep, SrvUserStep, SrvNickStep, SrvCapReqStep,
     SrvAuthenticateStep, SrvResponseStep, SrvCapEndStep, SrvWelcomeStep DEF ServerStep
<1>3. CASE Lose
  <2>1. UNCHANGED <<cfg, clientVars, c2s, sent, srv>> /\ lost' \in BOOLEAN
    BY <1>3 DEF Lose
  <2>2. QED
    BY <2>1, StillStep
<1>4. CASE UNCHANGED vars
  <2>1. UNCHANGED <<cfg, clientVars, c2s, sent, srv>> /\ lost' = lost
    BY <1>4 DEF vars
  <2>2. lost \in BOOLEAN
    BY DEF NegInv, Types, ClientTypes
  <2>3. QED
    BY <2>1, <2>2, StillStep
<1>5. QED
  BY <1>1, <1>2, <1>3, <1>4 DEF Next

\* The inductive invariant of ircneg.Negotiate and its SASL engine: whatever client
\* and server do, what waits and what is on its way fit what each of them knows.
THEOREM Invariance == Spec => []NegInv
<1>1. Init => NegInv
  BY InitInv
<1>2. NegInv /\ [Next]_vars => NegInv'
  BY StepInv
<1>3. QED
  BY <1>1, <1>2, PTL DEF Spec

\* The engine's index stays within its methods, the messages read are those the
\* server sent, and a nickname is tried at most once more than it is refused.
THEOREM TypeCorrect == Spec => []TypeOK
<1>1. NegInv => TypeOK
  <2>0. SUFFICES ASSUME NegInv PROVE TypeOK
    OBVIOUS
  <2>1. Types /\ NickInv /\ SaslInv
    BY <2>0 DEF NegInv
  <2>2. chosenNick \in 0..MaxRefusals
    <3>1. srv.refusals \in Nat
      BY <2>1 DEF Types, Servers
    <3>2. QED
      BY <2>1, <3>1, BoundsAssumption DEF NickInv
  <2>3. engine.idx \in 0..Len(engine.methods)
    <3>1. engine.idx \in Nat /\ engine.idx <= Len(engine.methods)
      BY <2>1 DEF Types, ClientTypes, Engines
    <3>2. \A ms \in {<<>>, <<"EXTERNAL">>, <<"PLAIN">>, Preference} : Len(ms) \in Nat
      BY DEF Preference
    <3>3. Len(engine.methods) \in Nat
      BY <2>1, <3>2 DEF Types, ClientTypes, Engines
    <3>4. QED
      BY <3>1, <3>3
  <2>4. /\ engine.methods \in MethodLists
        /\ phase \in Phases /\ desiredCaps \in [Wanted(cfg) -> Statuses]
        /\ supported \subseteq Caps /\ lost \in BOOLEAN
        /\ Len(allReadMsgs) <= Len(sent)
    BY <2>1 DEF Types, ClientTypes, WireTypes, Engines, MethodLists, Preference
  <2>5. phase \in {"StartSasl", "WaitSasl"} => engine.made
    BY <2>1 DEF SaslInv
  <2>6. QED
    BY <2>2, <2>3, <2>4, <2>5 DEF TypeOK
<1>2. QED
  BY <1>1, Invariance, PTL

\* ircneg.go reports chosenNick to the program: when Negotiate is done that is the
\* nickname the server gave the client, however often it refused one.
THEOREM NicknameReported == Spec => []NickAgrees
<1>1. NegInv => NickAgrees
  <2>0. SUFFICES ASSUME NegInv PROVE NickAgrees
    OBVIOUS
  <2>1. NickInv /\ RegInv
    BY <2>0 DEF NegInv
  <2>2. phase = "done" => srv.named
    BY <2>1 DEF RegInv
  <2>3. phase = "done" => Active
    BY DEF Active
  <2>4. QED
    BY <2>1, <2>2, <2>3 DEF NickInv, NickAgrees
<1>2. QED
  BY <1>1, Invariance, PTL

\* CapsEnabled: in the end the client has of the configured capabilities the ones the
\* server acknowledged, in however many requests they were asked for.
THEOREM CapsEnabledAgree == Spec => []CapsAgree
<1>1. NegInv => CapsAgree
  <2>0. SUFFICES ASSUME NegInv PROVE CapsAgree
    OBVIOUS
  <2>1. CapInv /\ cfg \in Cfgs
    BY <2>0 DEF NegInv, Types, ClientTypes
  <2>2. SUFFICES ASSUME phase = "done", NEW c \in cfg.desired
                 PROVE  desiredCaps[c] = "granted" <=> c \in srv.enabled
    BY DEF CapsAgree, CapsEnabled
  <2>3. c \in Wanted(cfg) /\ Active
    BY <2>2 DEF Wanted, Active
  <2>4. CapStatus(c)
    BY <2>1, <2>3 DEF CapInv
  <2>5. QED
    BY <2>2, <2>4 DEF CapStatus
<1>2. QED
  BY <1>1, Invariance, PTL

\* A server that granted sasl welcomes the client only once SASL succeeded: the
\* client ends its capabilities only after "903", and a server holds 001 until then.
THEOREM NotLetInUnauthenticated == Spec => []AuthenticatedIfGranted
<1>1. NegInv => AuthenticatedIfGranted
  <2>0. SUFFICES ASSUME NegInv PROVE AuthenticatedIfGranted
    OBVIOUS
  <2>1. RegInv /\ srv \in Servers
    BY <2>0 DEF NegInv, Types
  <2>2. srv.cap \in {"none", "active", "ended"}
    BY <2>1 DEF Servers
  <2>3. srv.welcomed => srv.cap # "active"
    BY <2>1 DEF RegInv
  <2>4. srv.cap = "none" => srv.enabled = {}
    BY <2>1 DEF RegInv
  <2>5. srv.cap = "ended" => Answered
    BY <2>1 DEF RegInv
  <2>6. QED
    BY <2>2, <2>3, <2>4, <2>5 DEF AuthenticatedIfGranted, Answered
<1>2. QED
  BY <1>1, Invariance, PTL

\* Stimulus: the answer the server reads is the one for the method it challenged the
\* client in, although a refusal may have moved the engine on in between.
THEOREM NoCrossedAnswer == Spec => []AnswersItsChallenge
<1>1. NegInv => AnswersItsChallenge
  <2>0. SUFFICES ASSUME NegInv PROVE AnswersItsChallenge
    OBVIOUS
  <2>1. SaslInv /\ c2s \in Seq(Commands)
    BY <2>0 DEF NegInv, Types, WireTypes
  <2>2. SUFFICES ASSUME c2s # <<>>, Head(c2s).cmd = "RESPONSE"
                 PROVE  Head(c2s).method = srv.mech
    BY DEF AnswersItsChallenge
  <2>3. Head(c2s) = c2s[1] /\ 1 \in DOMAIN c2s
    BY <2>1, <2>2
  <2>4. 1 \in Waiting({"RESPONSE"})
    BY <2>2, <2>3 DEF Waiting
  <2> HIDE DEF Waiting
  <2>5. QED
    BY <2>1, <2>3, <2>4 DEF SaslInv
<1>2. QED
  BY <1>1, Invariance, PTL

\* methodPref: the password is offered only where EXTERNAL was refused or is not
\* among the methods the engine was given.
THEOREM ExternalFirst == Spec => []PasswordLast
<1>1. NegInv => PasswordLast
  BY DEF NegInv, SaslInv
<1>2. QED
  BY <1>1, Invariance, PTL
=============================================================================
