---- MODULE BilibiliSessionProofs ----
(***************************************************************************)
(* Theorems about the session, for any number of requests, invalidations,  *)
(* recovery attempts and bundles: its types, that what was invalidated     *)
(* stays out, that a running session plans its next refresh and that a     *)
(* recovery spares fresh credentials.                                      *)
(*                                                                         *)
(* Everything turns on the order of the commands to the cache. Each step   *)
(* Flows: what remains of the queue keeps its order, and what is added is  *)
(* added at the end. OneWaits says who waits for which command. An         *)
(* invalidation overtakes no refresh that began after it (DroppedForGood), *)
(* and a read that somebody waits for brings back what the session already *)
(* has (ReadsAgree), unless it was stopped.                                *)
(***************************************************************************)
EXTENDS BilibiliSession, SequenceTheorems, FiniteSetTheorems, TLAPS

-----------------------------------------------------------------------------
(* The inductive invariant. *)

\* Who waits for an answer waits for one only, and for that of its own command.
Owed(w) ==
    /\ w.op = "set" => w.of \in 1..born
    /\ w.op # "set" => w.of = None
    /\ w.by \in Call => w.op = "get" /\ calls[w.by].pc = "reading"
    /\ w.by \in Invalidation => w.op = "del" /\ invalidations[w.by].pc = "deleting"
    /\ w.by = Refresher => w.op = "set" /\ refresh.pc = "store" /\ w.of = refresh.of

OneWaits ==
    /\ \A n \in DOMAIN wire : Owed(wire[n])
    /\ \A k, n \in DOMAIN wire : k # n => wire[k].by # wire[n].by \/ wire[n].by = Nobody

\* The refresh and the invalidations belong to an invalidation that has been asked for; one that waits for the end of
\* the refresh has aborted it.
RefreshOK ==
    /\ refresh.pc = "none" => refresh = NoRefresh
    /\ refresh.pc = "store" => refresh.of \in 1..born /\ era[refresh.of] = refresh.era
    /\ refresh.era <= epoch
    /\ refresh.aborted => life = "stopped" \/ ~allowCached
    /\ \A i \in Invalidation :
           /\ invalidations[i].era <= epoch
           /\ invalidations[i].pc # "idle" => ~allowCached
           /\ invalidations[i].pc = "draining" => refresh # NoRefresh /\ refresh.aborted

\* Nothing older than an invalidation that is over is left, nor follows the deletion of one that is not.
DroppedForGood ==
    /\ InvalidatedStaysOut
    /\ refresh # NoRefresh => refresh.era >= revoked
    /\ \A n \in DOMAIN wire : wire[n].op = "set" => era[wire[n].of] >= revoked
    /\ \A k, n \in DOMAIN wire :
           k < n /\ wire[k].by \in Invalidation /\ wire[n].op = "set"
               => era[wire[n].of] >= invalidations[wire[k].by].era
    /\ \A i \in Invalidation :
           invalidations[i].pc = "deleting" /\ refresh # NoRefresh => refresh.era >= invalidations[i].era

\* A read that is under way finds b, or nothing.
Finds(k, b) == b # None => stored \in {None, b} /\ \A m \in 1..k - 1 : wire[m].op # "set"

ReadsAgree ==
    /\ \A k, n \in DOMAIN wire : k < n /\ wire[n].by \in Call => wire[k].op # "del" /\ wire[k].by # Refresher
    /\ \A n \in DOMAIN wire : wire[n].op = "del" => ~allowCached
    /\ life # "stopped" =>
           /\ \A n \in DOMAIN wire : wire[n].by \in Call => Finds(n, bundle) /\ Finds(n, timer.of)
           /\ \A k, n \in DOMAIN wire :
                  k < n /\ wire[k].by \in Call /\ wire[n].op = "set" =>
                      /\ \A m \in n + 1..Len(wire) : wire[m].by \notin Call
                      /\ refresh.pc = "store" \/ ~allowCached

\* The timer runs in a session that is started; it is due for the bundle that the session has or has dropped.
TimerOK ==
    /\ timer.at # "off" => life = "started"
    /\ allowCached /\ timer.at = "due" => bundle # None
    /\ life = "started" /\ timer.at = "due" /\ bundle # None => timer.of = bundle

\* A request that was sent since the credentials last changed was sent with the present ones.
Current(c) == calls[c].pc = "sent" /\ calls[c].generation = generation /\ calls[c].used # None

SentFresh ==
    /\ \A c \in Call : calls[c].generation <= generation
    /\ life # "stopped" => \A c \in Call : Current(c) =>
           /\ bundle \in {None, calls[c].used}
           /\ bundle = None => ~allowCached /\ \A n \in DOMAIN wire : wire[n].by \notin Call

SessionInv == OneWaits /\ RefreshOK /\ DroppedForGood /\ ReadsAgree /\ TimerOK /\ SentFresh /\ RefreshIsPlanned

-----------------------------------------------------------------------------
(* The queue. What each operation does to it, element by element. *)

\* From the queue wire comes the queue wire': its elements that remain keep their order, n having been n + d[n], but
\* may be given up; those that are added come after them.
Kept(w, v) == w.op = v.op /\ w.of = v.of /\ w.by \in {v.by, Nobody}

Flows(d, added) ==
    /\ wire' \in Seq(Command)
    /\ d \in [DOMAIN wire' -> {0, 1}]
    /\ \A k, n \in DOMAIN wire' : k < n => d[k] <= d[n]
    /\ \A n \in DOMAIN wire' :
           \/ n + d[n] \in DOMAIN wire /\ Kept(wire'[n], wire[n + d[n]])
           \/ n + d[n] > Len(wire) /\ wire'[n] \in added
    /\ \A k, n \in DOMAIN wire' :
           k # n /\ k + d[k] > Len(wire) /\ n + d[n] > Len(wire) => wire'[k].by # wire'[n].by

LEMMA WireType ==
    ASSUME TypeOK
    PROVE  /\ wire \in Seq(Command) /\ Len(wire) \in Nat /\ DOMAIN wire = 1..Len(wire)
           /\ \A n \in DOMAIN wire : wire[n] \in Command
BY LenProperties, ElementOfSeq DEF TypeOK

LEMMA HeadFirst ==
    ASSUME TypeOK, NEW x, Answers(x)
    PROVE  1 \in DOMAIN wire /\ Head(wire) = wire[1] /\ wire[1].by = x
<1>1. wire # <<>> /\ Head(wire).by = x
  BY DEF Answers
<1>2. Len(wire) > 0
  BY <1>1, WireType, EmptySeq
<1> QED
  BY <1>1, <1>2, WireType

LEMMA StillFlows ==
    ASSUME TypeOK, UNCHANGED wire
    PROVE  Flows([n \in DOMAIN wire |-> 0], {})
BY WireType DEF Flows, Kept

LEMMA SendFlows ==
    ASSUME TypeOK, NEW op \in {"get", "set", "del"}, NEW x \in Call \cup Invalidation \cup {Refresher, Nobody},
           NEW b \in Bundle \cup {None}, wire' = Send(wire, op, x, b)
    PROVE  /\ Flows([n \in DOMAIN wire' |-> 0], {[op |-> op, by |-> x, of |-> b]})
           /\ Len(wire') = Len(wire) + 1
           /\ wire'[Len(wire')] = [op |-> op, by |-> x, of |-> b]
<1> DEFINE w == [op |-> op, by |-> x, of |-> b]
<1>1. w \in Command
  BY DEF Command
<1>2. /\ wire' \in Seq(Command) /\ Len(wire') = Len(wire) + 1
      /\ \A n \in 1..Len(wire) : wire'[n] = wire[n]
      /\ wire'[Len(wire) + 1] = w
  BY <1>1, WireType, AppendProperties DEF Send
<1>3. DOMAIN wire' = 1..Len(wire) + 1
  BY <1>2, LenProperties
<1> QED
  BY <1>2, <1>3, WireType DEF Flows, Kept

LEMMA TailFlows ==
    ASSUME TypeOK, OneWaits, NEW x, Answers(x), wire' = Tail(wire)
    PROVE  /\ Flows([n \in DOMAIN wire' |-> 1], {})
           /\ x # Nobody => \A n \in DOMAIN wire' : wire'[n].by # x
<1>1. wire # <<>> /\ Head(wire) = wire[1] /\ wire[1].by = x /\ 1 \in DOMAIN wire
  BY HeadFirst DEF Answers
<1>2. /\ wire' \in Seq(Command) /\ Len(wire') = Len(wire) - 1
      /\ \A n \in 1..Len(wire') : wire'[n] = wire[n + 1]
  BY <1>1, WireType, HeadTailProperties
<1>3. DOMAIN wire' = 1..Len(wire) - 1
  BY <1>2, LenProperties
<1>4. \A n \in DOMAIN wire' : n + 1 \in DOMAIN wire /\ n + 1 # 1
  BY <1>3, WireType
<1>5. Flows([n \in DOMAIN wire' |-> 1], {})
  BY <1>2, <1>3, <1>4, WireType DEF Flows, Kept
<1> QED
  BY <1>1, <1>2, <1>3, <1>4, <1>5 DEF OneWaits

LEMMA RemoveFlows ==
    ASSUME TypeOK, OneWaits, NEW k \in DOMAIN wire, wire' = RemoveAt(wire, k)
    PROVE  /\ Flows([n \in DOMAIN wire' |-> IF n < k THEN 0 ELSE 1], {})
           /\ wire[k].by # Nobody => \A n \in DOMAIN wire' : wire'[n].by # wire[k].by
<1> DEFINE s == SubSeq(wire, 1, k - 1)
           t == SubSeq(wire, k + 1, Len(wire))
<1>1. /\ s \in Seq(Command) /\ Len(s) = k - 1 /\ \A i \in 1..k - 1 : s[i] = wire[i]
      /\ t \in Seq(Command) /\ Len(t) = Len(wire) - k /\ \A i \in 1..Len(wire) - k : t[i] = wire[k + i]
  <2>1. k \in 1..Len(wire) /\ Len(wire) \in Nat
    BY WireType
  <2>2. s \in Seq(Command) /\ Len(s) = (IF 1 <= k - 1 THEN k - 1 - 1 + 1 ELSE 0) /\ \A i \in 1..k - 1 - 1 + 1 : s[i] = wire[1 + i - 1]
    BY <2>1, WireType, SubSeqProperties
  <2>3. /\ t \in Seq(Command) /\ Len(t) = (IF k + 1 <= Len(wire) THEN Len(wire) - (k + 1) + 1 ELSE 0)
        /\ \A i \in 1..Len(wire) - (k + 1) + 1 : t[i] = wire[k + 1 + i - 1]
    BY <2>1, WireType, SubSeqProperties
  <2> QED
    BY <2>1, <2>2, <2>3
<1> HIDE DEF s, t
<1>2. wire' = s \o t
  BY DEF RemoveAt, s, t
<1>3. /\ wire' \in Seq(Command) /\ Len(wire') = Len(wire) - 1
      /\ \A n \in 1..Len(wire') : wire'[n] = IF n < k THEN wire[n] ELSE wire[n + 1]
  <2>1. /\ wire' \in Seq(Command) /\ Len(wire') = Len(s) + Len(t)
        /\ \A n \in 1..Len(s) + Len(t) : wire'[n] = IF n <= Len(s) THEN s[n] ELSE t[n - Len(s)]
    BY <1>1, <1>2, ConcatProperties
  <2>2. k \in 1..Len(wire) /\ Len(wire) \in Nat
    BY WireType
  <2>3. ASSUME NEW n \in 1..Len(wire')
        PROVE  wire'[n] = IF n < k THEN wire[n] ELSE wire[n + 1]
    <3>1. CASE n < k
      BY <1>1, <2>1, <2>2, <3>1
    <3>2. CASE ~(n < k)
      <4>1. Len(s) = k - 1 /\ Len(t) = Len(wire) - k /\ Len(wire') = Len(s) + Len(t)
        BY <1>1, <2>1
      <4>2. n \in 1..Len(wire) - 1 /\ n - (k - 1) \in 1..Len(wire) - k
        BY <2>2, <3>2, <4>1
      <4>3. wire'[n] = t[n - (k - 1)]
        BY <2>1, <2>2, <3>2, <4>1, <4>2
      <4>4. t[n - (k - 1)] = wire[k + (n - (k - 1))]
        BY <1>1, <4>2
      <4> QED
        BY <2>2, <3>2, <4>2, <4>3, <4>4
    <3> QED
      BY <3>1, <3>2
  <2> QED
    BY <1>1, <2>1, <2>2, <2>3
<1>4. DOMAIN wire' = 1..Len(wire) - 1
  BY <1>3, LenProperties
<1>5. \A n \in DOMAIN wire' : n + (IF n < k THEN 0 ELSE 1) \in DOMAIN wire /\ n + (IF n < k THEN 0 ELSE 1) # k
  BY <1>4, WireType
<1>6. Flows([n \in DOMAIN wire' |-> IF n < k THEN 0 ELSE 1], {})
  BY <1>3, <1>4, <1>5, WireType DEF Flows, Kept
<1> QED
  BY <1>3, <1>4, <1>5, <1>6 DEF OneWaits

LEMMA AbandonedType ==
    ASSUME TypeOK, NEW x
    PROVE  /\ Abandoned(x) \in Seq(Command) /\ Len(Abandoned(x)) = Len(wire)
           /\ \A n \in DOMAIN wire : /\ Kept(Abandoned(x)[n], wire[n])
                                     /\ x # Nobody => Abandoned(x)[n].by # x
<1> DEFINE e(n) == IF wire[n].by = x THEN [wire[n] EXCEPT !.by = Nobody] ELSE wire[n]
<1>1. Len(wire) \in Nat /\ DOMAIN wire = 1..Len(wire) /\ \A n \in 1..Len(wire) : wire[n] \in Command
  BY WireType
<1>2. \A n \in 1..Len(wire) : e(n) \in Command /\ Kept(e(n), wire[n]) /\ (x # Nobody => e(n).by # x)
  BY <1>1 DEF Command, Kept
<1>3. Abandoned(x) = [n \in 1..Len(wire) |-> e(n)]
  BY <1>1 DEF Abandoned
<1> HIDE DEF e
<1>4. Abandoned(x) \in [1..Len(wire) -> Command]
  BY <1>2, <1>3
<1>5. Abandoned(x) \in Seq(Command)
  BY <1>1, <1>4
<1>6. Len(Abandoned(x)) = Len(wire)
  BY <1>1, <1>4, <1>5, LenProperties
<1> QED
  BY <1>1, <1>2, <1>3, <1>5, <1>6

LEMMA AbandonFlows ==
    ASSUME TypeOK, NEW x, x # Nobody, wire' = Abandoned(x)
    PROVE  /\ Flows([n \in DOMAIN wire' |-> 0], {})
           /\ \A n \in DOMAIN wire' : wire'[n].by # x
<1>1. /\ wire' \in Seq(Command) /\ Len(wire') = Len(wire)
      /\ \A n \in DOMAIN wire : Kept(wire'[n], wire[n]) /\ wire'[n].by # x
  BY AbandonedType
<1>2. DOMAIN wire' = DOMAIN wire
  BY <1>1, WireType, LenProperties
<1> QED
  BY <1>1, <1>2, WireType DEF Flows

\* The commands of those that have waited for the end of the refresh.
Deleting == [op : {"del"}, by : Draining, of : {None}]

LEMMA DeletionsType ==
    ASSUME NEW order \in SetToSeqs(Draining)
    PROVE  /\ Deletions(order) \in Seq(Command) /\ Len(Deletions(order)) \in Nat
           /\ \A n \in 1..Len(Deletions(order)) : Deletions(order)[n] \in Deleting
           /\ \A k, n \in 1..Len(Deletions(order)) : k # n => Deletions(order)[k].by # Deletions(order)[n].by
<1> DEFINE D == 1..Cardinality(Draining)
<1>1. order \in [D -> Draining] /\ \A i, j \in D : i # j => order[i] # order[j]
  BY DEF SetToSeqs
<1>2. Cardinality(Draining) \in Nat
  BY WaiterAssumption, FS_Subset, FS_CardinalityType DEF Draining
<1>3. order \in Seq(Draining) /\ Len(order) = Cardinality(Draining)
  BY <1>1, <1>2, LenProperties
<1>4. \A n \in D : [op |-> "del", by |-> order[n], of |-> None] \in Deleting
  BY <1>1 DEF Deleting
<1>5. \A n \in D : [op |-> "del", by |-> order[n], of |-> None] \in Command
  BY <1>1 DEF Command, Draining
<1>6. Deletions(order) \in [D -> Command]
  BY <1>3, <1>5 DEF Deletions
<1>7. Deletions(order) \in Seq(Command)
  BY <1>2, <1>6
<1>8. Len(Deletions(order)) = Cardinality(Draining)
  BY <1>2, <1>6, <1>7, LenProperties
<1>9. \A n \in D : Deletions(order)[n] = [op |-> "del", by |-> order[n], of |-> None]
  BY <1>3 DEF Deletions
<1> QED
  BY <1>1, <1>2, <1>4, <1>7, <1>8, <1>9

LEMMA DrainedFlows ==
    ASSUME TypeOK, NEW queue \in Seq(Command), NEW m \in {0, 1}, Len(queue) + m = Len(wire), Drained(queue),
           \A n \in 1..Len(queue) : Kept(queue[n], wire[n + m])
    PROVE  /\ Flows([n \in DOMAIN wire' |-> m], Deleting)
           /\ \A n \in DOMAIN wire' : n <= Len(queue) => wire'[n] = queue[n]
           /\ \A n \in DOMAIN wire' : n > Len(queue) => wire'[n] \in Deleting
           /\ \A k, n \in DOMAIN wire' : k > Len(queue) /\ n > Len(queue) /\ k # n => wire'[k].by # wire'[n].by
<1>1. PICK order \in SetToSeqs(Draining) : wire' = queue \o Deletions(order)
  BY DEF Drained
<1> DEFINE q == Deletions(order)
<1>2. /\ q \in Seq(Command) /\ Len(q) \in Nat
      /\ \A n \in 1..Len(q) : q[n] \in Deleting
      /\ \A k, n \in 1..Len(q) : k # n => q[k].by # q[n].by
  BY DeletionsType
<1> HIDE DEF q
<1>3. /\ wire' \in Seq(Command) /\ Len(wire') = Len(queue) + Len(q)
      /\ \A n \in 1..Len(queue) + Len(q) : wire'[n] = IF n <= Len(queue) THEN queue[n] ELSE q[n - Len(queue)]
  BY <1>1, <1>2, ConcatProperties DEF q
<1>4. Len(queue) \in Nat /\ DOMAIN wire' = 1..Len(queue) + Len(q)
  BY <1>3, LenProperties
<1>5. \A n \in DOMAIN wire' : n <= Len(queue) => wire'[n] = queue[n]
  BY <1>3, <1>4
<1>6. \A n \in DOMAIN wire' : n > Len(queue) => n - Len(queue) \in 1..Len(q) /\ wire'[n] = q[n - Len(queue)]
  BY <1>2, <1>3, <1>4
<1>7. \A n \in DOMAIN wire' : n > Len(queue) => wire'[n] \in Deleting
  BY <1>2, <1>6
<1>8. ASSUME NEW k \in DOMAIN wire', NEW n \in DOMAIN wire', k > Len(queue), n > Len(queue), k # n
      PROVE  wire'[k].by # wire'[n].by
  <2>1. k - Len(queue) # n - Len(queue)
    BY <1>4, <1>8
  <2> QED
    BY <1>2, <1>6, <1>8, <2>1
<1>9. Flows([n \in DOMAIN wire' |-> m], Deleting)
  <2>1. \A n \in DOMAIN wire' : n > Len(queue) <=> n + m > Len(wire)
    BY <1>4
  <2>2. \A n \in DOMAIN wire' : n <= Len(queue) => n + m \in DOMAIN wire /\ Kept(wire'[n], wire[n + m])
    BY <1>4, <1>5, WireType
  <2>3. \A n \in DOMAIN wire' : n \in Int
    BY <1>4
  <2> QED
    BY <1>3, <1>4, <1>7, <1>8, <2>1, <2>2, <2>3 DEF Flows
<1> QED
  BY <1>5, <1>7, <1>8, <1>9

-----------------------------------------------------------------------------
(* What each action does to the queue: what is left of it, who waits no more, and what is added. *)

Passes(x, added) ==
    /\ \E d \in [DOMAIN wire' -> {0, 1}] : Flows(d, added)
    /\ x # Nobody => \A n \in DOMAIN wire' : wire'[n].by # x

Cmd(op, x, b) == [op |-> op, by |-> x, of |-> b]

LEMMA StillPasses ==
    ASSUME TypeOK, UNCHANGED wire
    PROVE  Passes(Nobody, {})
BY StillFlows, WireType DEF Passes

LEMMA ReadCachePasses ==
    ASSUME TypeOK, NEW c \in Call, ReadCache(c)
    PROVE  Passes(Nobody, {Cmd("get", c, None)})
BY SendFlows DEF Passes, ReadCache, Cmd

LEMMA CacheAnswersPasses ==
    ASSUME TypeOK, OneWaits, NEW c \in Call, CacheAnswers(c)
    PROVE  Passes(c, {})
BY TailFlows DEF Passes, CacheAnswers

LEMMA CacheTimesOutPasses ==
    ASSUME TypeOK, OneWaits, NEW c \in Call, CacheTimesOut(c)
    PROVE  Passes(c, {})
BY RemoveFlows, WaiterAssumption DEF Passes, CacheTimesOut

LEMMA HandshakePasses ==
    ASSUME TypeOK, Handshake
    PROVE  Passes(Nobody, {Cmd("set", Refresher, born + 1)})
<1>1. born + 1 \in Bundle
  BY BoundAssumption DEF TypeOK, Handshake, Bundle
<1> QED
  BY <1>1, SendFlows DEF Passes, Handshake, Cmd

LEMMA PublishPasses ==
    ASSUME TypeOK, OneWaits, Publish
    PROVE  Passes(Refresher, Deleting)
<1>1. wire # <<>> /\ Head(wire) = wire[1] /\ wire[1].by = Refresher /\ 1 \in DOMAIN wire
  BY HeadFirst DEF Publish, Answers
<1> DEFINE queue == Tail(wire)
<1>2. /\ queue \in Seq(Command) /\ Len(queue) = Len(wire) - 1
      /\ \A n \in 1..Len(queue) : queue[n] = wire[n + 1]
  BY <1>1, WireType, HeadTailProperties
<1>3. Drained(queue)
  BY DEF Publish
<1> HIDE DEF queue
<1>4. Len(queue) + 1 = Len(wire) /\ \A n \in 1..Len(queue) : n + 1 \in DOMAIN wire /\ Kept(queue[n], wire[n + 1])
  BY <1>2, WireType DEF Kept
<1>5. /\ Flows([n \in DOMAIN wire' |-> 1], Deleting)
      /\ \A n \in DOMAIN wire' : n <= Len(queue) => wire'[n] = queue[n]
      /\ \A n \in DOMAIN wire' : n > Len(queue) => wire'[n] \in Deleting
  BY <1>2, <1>3, <1>4, DrainedFlows
<1>6. DOMAIN wire' = 1..Len(wire') /\ Len(wire') \in Nat
  BY <1>5, LenProperties DEF Flows
<1>7. ASSUME NEW n \in DOMAIN wire'
      PROVE  wire'[n].by # Refresher
  <2>1. CASE n <= Len(queue)
    <3>1. n + 1 \in DOMAIN wire /\ n + 1 # 1 /\ wire'[n] = wire[n + 1]
      BY <1>2, <1>4, <1>5, <1>6, <2>1
    <3> QED
      BY <1>1, <3>1, WaiterAssumption DEF OneWaits
  <2>2. CASE n > Len(queue)
    BY <1>5, <2>2, WaiterAssumption DEF Deleting, Draining
  <2> QED
    BY <1>2, <1>6, <2>1, <2>2, LenProperties
<1> QED
  BY <1>5, <1>7 DEF Passes

LEMMA RefreshFailsPasses ==
    ASSUME TypeOK, RefreshFails
    PROVE  Passes(Refresher, Deleting)
<1> DEFINE queue == Abandoned(Refresher)
<1>1. /\ queue \in Seq(Command) /\ Len(queue) = Len(wire)
      /\ \A n \in DOMAIN wire : Kept(queue[n], wire[n]) /\ queue[n].by # Refresher
  BY AbandonedType, WaiterAssumption
<1>2. Drained(queue)
  BY DEF RefreshFails
<1> HIDE DEF queue
<1>3. Len(queue) + 0 = Len(wire) /\ \A n \in 1..Len(queue) : n + 0 = n /\ Kept(queue[n], wire[n + 0])
  BY <1>1, WireType
<1>4. /\ Flows([n \in DOMAIN wire' |-> 0], Deleting)
      /\ \A n \in DOMAIN wire' : n <= Len(queue) => wire'[n] = queue[n]
      /\ \A n \in DOMAIN wire' : n > Len(queue) => wire'[n] \in Deleting
  BY <1>1, <1>2, <1>3, DrainedFlows
<1>5. DOMAIN wire' = 1..Len(wire') /\ Len(wire') \in Nat
  BY <1>4, LenProperties DEF Flows
<1>6. ASSUME NEW n \in DOMAIN wire'
      PROVE  wire'[n].by # Refresher
  <2>1. CASE n <= Len(queue)
    BY <1>1, <1>4, <1>5, <2>1, WireType
  <2>2. CASE n > Len(queue)
    BY <1>4, <2>2, WaiterAssumption DEF Deleting, Draining
  <2> QED
    BY <1>1, <1>5, <2>1, <2>2, LenProperties
<1> QED
  BY <1>4, <1>6 DEF Passes

LEMMA InvalidatePasses ==
    ASSUME TypeOK, NEW i \in Invalidation, Invalidate(i)
    PROVE  Passes(Nobody, IF refresh = NoRefresh THEN {Cmd("del", i, None)} ELSE {})
BY SendFlows, StillFlows, WireType DEF Passes, Invalidate, Cmd

LEMMA InvalidatedPasses ==
    ASSUME TypeOK, OneWaits, NEW i \in Invalidation, Invalidated(i)
    PROVE  Passes(i, {})
BY TailFlows DEF Passes, Invalidated

LEMMA DeleteTimesOutPasses ==
    ASSUME TypeOK, NEW i \in Invalidation, DeleteTimesOut(i)
    PROVE  Passes(i, {})
BY AbandonFlows, WaiterAssumption DEF Passes, DeleteTimesOut

LEMMA LateCommandPasses ==
    ASSUME TypeOK, OneWaits, LateCommand
    PROVE  Passes(Nobody, {})
BY TailFlows DEF Passes, LateCommand

LEMMA FlowOrder ==
    ASSUME TypeOK, NEW added, NEW d, Flows(d, added)
    PROVE  /\ DOMAIN wire' = 1..Len(wire') /\ Len(wire') \in Nat
           /\ \A n \in DOMAIN wire' : d[n] \in {0, 1} /\ n + d[n] \in Int
           /\ \A k, n \in DOMAIN wire' : k < n => k + d[k] < n + d[n]
           /\ \A k, n \in DOMAIN wire' : k # n => k + d[k] # n + d[n]
<1>1. DOMAIN wire' = 1..Len(wire') /\ Len(wire') \in Nat
  BY LenProperties DEF Flows
<1>2. \A n \in DOMAIN wire' : d[n] \in {0, 1} /\ n \in Int
  BY <1>1 DEF Flows
<1>3. \A k, n \in DOMAIN wire' : k < n => d[k] <= d[n]
  BY DEF Flows
<1>4. \A k, n \in DOMAIN wire' : k < n => k + d[k] < n + d[n]
  BY <1>2, <1>3
<1> QED
  BY <1>1, <1>2, <1>4

LEMMA OneWaitsKept ==
    ASSUME TypeOK, OneWaits, NEW x, NEW added, Passes(x, added),
           \A c \in Call : c # x /\ calls[c].pc = "reading" => calls'[c].pc = "reading",
           \A i \in Invalidation :
               i # x /\ invalidations[i].pc = "deleting" => invalidations'[i].pc = "deleting",
           x # Refresher /\ refresh.pc = "store" => refresh'.pc = "store" /\ refresh'.of = refresh.of,
           born' \in Int, born <= born',
           \A w \in added : Owed(w)' /\ w.by # Nobody /\ \A n \in DOMAIN wire : wire[n].by # w.by
    PROVE  OneWaits'
<1>1. PICK d \in [DOMAIN wire' -> {0, 1}] : Flows(d, added)
  BY DEF Passes
<1>2. ASSUME NEW n \in DOMAIN wire'
      PROVE  Owed(wire[n])'
  <2>1. CASE n + d[n] \in DOMAIN wire /\ Kept(wire'[n], wire[n + d[n]])
    <3>1. Owed(wire[n + d[n]])
      BY <2>1 DEF OneWaits
    <3>2. wire'[n].by = x => x = Nobody
      BY DEF Passes
    <3>3. born \in Int
      BY DEF TypeOK
    <3> QED
      BY <2>1, <3>1, <3>2, <3>3, WaiterAssumption DEF Owed, Kept
  <2>2. CASE wire'[n] \in added
    BY <2>2
  <2> QED
    BY <1>1, <2>1, <2>2 DEF Flows
<1>3. ASSUME NEW k \in DOMAIN wire', NEW n \in DOMAIN wire', k # n
      PROVE  wire'[k].by # wire'[n].by \/ wire'[n].by = Nobody
  <2>1. k + d[k] # n + d[n]
    BY <1>1, <1>3, FlowOrder
  <2> DEFINE Old(m) == m + d[m] \in DOMAIN wire /\ Kept(wire'[m], wire[m + d[m]])
             New(m) == m + d[m] > Len(wire) /\ wire'[m] \in added
  <2>2. (Old(k) \/ New(k)) /\ (Old(n) \/ New(n))
    BY <1>1 DEF Flows
  <2>3. CASE Old(k) /\ Old(n)
    BY <2>1, <2>3 DEF OneWaits, Kept
  <2>4. CASE Old(k) /\ New(n)
    BY <2>4 DEF Kept
  <2>5. CASE New(k) /\ Old(n)
    BY <2>5 DEF Kept
  <2>6. CASE New(k) /\ New(n)
    BY <1>1, <1>3, <2>6 DEF Flows
  <2> QED
    BY <2>2, <2>3, <2>4, <2>5, <2>6
<1> QED
  BY <1>2, <1>3 DEF OneWaits

-----------------------------------------------------------------------------
(* Types. *)

LEMMA RecordTypes ==
    /\ NoRefresh \in Refresh /\ Idle \in CallRecord /\ Off \in Timer
    /\ [pc |-> "idle", era |-> 0] \in Invalidations
BY BoundAssumption DEF NoRefresh, Refresh, Idle, CallRecord, Off, Timer, Invalidations, None, Bundle

LEMMA BundleType ==
    ASSUME TypeOK
    PROVE  /\ born \in Nat /\ 0..born \subseteq Bundle \cup {None} /\ 1..born \subseteq Bundle
           /\ bundle \in Bundle \cup {None} /\ stored \in Bundle \cup {None} /\ None \in 0..born
           /\ epoch \in Nat /\ revoked \in Nat /\ MaxBundles \in Nat /\ MaxInvalidations \in Nat
BY BoundAssumption DEF TypeOK, Bundle, None

LEMMA ScheduleType ==
    ASSUME NEW b \in Bundle \cup {None}, NEW wait
    PROVE  Schedule(b, wait) \in Timer
BY RecordTypes DEF Schedule, Timer

LEMMA JoinType ==
    ASSUME TypeOK, JoinRefresh
    PROVE  refresh' \in Refresh
BY BundleType, RecordTypes DEF TypeOK, JoinRefresh, NoRefresh, Refresh

LEMMA AbortedType ==
    ASSUME TypeOK
    PROVE  Aborted \in Refresh
BY RecordTypes DEF TypeOK, Aborted, Refresh

LEMMA TurnType ==
    ASSUME TypeOK, NEW call \in CallRecord, NEW b \in Bundle \cup {None}
    PROVE  /\ Turn(call, b) \in CallRecord /\ Turn(call, b).attempts = call.attempts
           /\ WithKeys(call, b) \in CallRecord /\ WithKeys(call, b).attempts = call.attempts
BY DEF TypeOK, Turn, WithKeys, Cookie, CallRecord

LEMMA TakeKeysType ==
    ASSUME TypeOK, NEW c \in Call, NEW b \in 0..born, TakeKeys(c, b)
    PROVE  /\ refresh' \in Refresh /\ calls' \in [Call -> CallRecord]
           /\ \A a \in Call : calls'[a].attempts <= RecoveryAttempts
           /\ bundle' \in 0..born
<1>1. calls[c] \in CallRecord /\ calls[c].attempts <= RecoveryAttempts /\ b \in Bundle \cup {None}
  BY BundleType DEF TypeOK
<1>2. /\ WithKeys(calls[c], b) \in CallRecord /\ WithKeys(calls[c], b).attempts = calls[c].attempts
  BY <1>1, TurnType
<1>3. /\ Idle \in CallRecord /\ Idle.attempts <= RecoveryAttempts
  BY BoundAssumption, RecordTypes DEF Idle
<1>4. /\ [calls[c] EXCEPT !.pc = "waiting"] \in CallRecord
      /\ [calls[c] EXCEPT !.pc = "waiting"].attempts = calls[c].attempts
  BY <1>1 DEF CallRecord
<1>5. \E r \in CallRecord : r.attempts <= RecoveryAttempts /\ calls' = [calls EXCEPT ![c] = r]
  BY <1>1, <1>2, <1>3, <1>4 DEF TakeKeys
<1>6. calls' \in [Call -> CallRecord] /\ \A a \in Call : calls'[a].attempts <= RecoveryAttempts
  BY <1>5 DEF TypeOK
<1>7. refresh' \in Refresh
  BY JoinType DEF TakeKeys, TypeOK
<1> QED
  BY <1>6, <1>7 DEF TakeKeys

LEMMA RejectedType ==
    ASSUME TypeOK, NEW c \in Call, Rejected(c)
    PROVE  /\ refresh' \in Refresh /\ calls' \in [Call -> CallRecord]
           /\ \A a \in Call : calls'[a].attempts <= RecoveryAttempts
<1> DEFINE call == [calls[c] EXCEPT !.attempts = @ + 1]
<1>1. call \in CallRecord /\ call.attempts <= RecoveryAttempts
  <2>1. calls[c] \in CallRecord /\ calls[c].attempts \in Nat /\ calls[c].attempts < RecoveryAttempts
    BY DEF TypeOK, Rejected, CallRecord
  <2>2. call.attempts = calls[c].attempts + 1
    BY <2>1 DEF CallRecord
  <2>3. call \in CallRecord
    BY <2>1 DEF CallRecord
  <2> QED
    BY <2>1, <2>2, <2>3, BoundAssumption
<1>2. Recovering(call) \in CallRecord /\ Recovering(call).attempts = call.attempts
  BY <1>1 DEF Recovering, CallRecord
<1>3. Turn(call, bundle) \in CallRecord /\ Turn(call, bundle).attempts = call.attempts
  BY <1>1, BundleType, TurnType
<1>4. calls' = [calls EXCEPT ![c] = Recovering(call)] \/ calls' = [calls EXCEPT ![c] = Turn(call, bundle)]
  BY DEF Rejected
<1> HIDE DEF call
<1>5. calls' \in [Call -> CallRecord] /\ \A a \in Call : calls'[a].attempts <= RecoveryAttempts
  BY <1>1, <1>2, <1>3, <1>4 DEF TypeOK
<1> QED
  BY <1>5, JoinType DEF Rejected, TypeOK

LEMMA ToldType ==
    ASSUME TypeOK, NEW outcome \in {"refreshed", "refused"}, Told(outcome)
    PROVE  /\ calls' \in [Call -> CallRecord]
           /\ \A a \in Call : calls'[a].attempts <= RecoveryAttempts
<1>1. \A c \in Call : /\ [calls[c] EXCEPT !.pc = outcome] \in CallRecord
                      /\ [calls[c] EXCEPT !.pc = outcome].attempts = calls[c].attempts
  BY DEF TypeOK, CallRecord
<1> QED
  BY <1>1 DEF Told, TypeOK

LEMMA DrainedType ==
    ASSUME TypeOK, NEW queue, Drained(queue)
    PROVE  invalidations' \in [Invalidation -> Invalidations]
BY DEF Drained, TypeOK, Invalidations

LEMMA InitInv == Init => TypeOK /\ SessionInv
<1> SUFFICES ASSUME Init
             PROVE  TypeOK /\ SessionInv
  OBVIOUS
<1>1. stored \in 0..1 /\ born = stored /\ bundle = 0
  BY DEF Init, None
<1>2. MaxBundles \in Nat /\ MaxBundles > 0 /\ MaxInvalidations \in Nat /\ RecoveryAttempts \in Nat
  BY BoundAssumption
<1>3. wire = <<>> /\ wire \in Seq(Command) /\ Len(wire) = 0 /\ DOMAIN wire = {}
  BY EmptySeq DEF Init
<1>4. calls \in [Call -> CallRecord] /\ \A c \in Call : calls[c].attempts <= RecoveryAttempts
  BY <1>2, RecordTypes DEF Init, Idle
<1>5. TypeOK
  <2>1. invalidations \in [Invalidation -> Invalidations]
    BY RecordTypes DEF Init
  <2>2. era \in [Bundle -> 0..MaxInvalidations]
    BY <1>2 DEF Init
  <2> QED
    BY <1>1, <1>2, <1>3, <1>4, <2>1, <2>2, RecordTypes DEF Init, TypeOK, None
<1>6. OneWaits
  BY <1>3 DEF OneWaits
<1>7. RefreshOK
  BY <1>2 DEF Init, RefreshOK, NoRefresh, None
<1>8. DroppedForGood
  BY <1>1, <1>2, <1>3 DEF Init, DroppedForGood, InvalidatedStaysOut, NoRefresh, None, Bundle
<1>9. ReadsAgree
  BY <1>3 DEF Init, ReadsAgree
<1>10. TimerOK /\ SentFresh /\ RefreshIsPlanned
  BY DEF Init, TimerOK, SentFresh, Current, RefreshIsPlanned, Off, Idle
<1> QED
  BY <1>5, <1>6, <1>7, <1>8, <1>9, <1>10 DEF SessionInv

\* Every step keeps the types.
LEMMA TypeStep ==
    ASSUME TypeOK, SessionInv, Next
    PROVE  TypeOK'
<1> USE BundleType
<1>0. OneWaits /\ RefreshOK
  BY DEF SessionInv
<1>1. ASSUME NEW c \in Call, NEW signed \in BOOLEAN, Ask(c, signed)
      PROVE  TypeOK'
  <2>1. /\ [Idle EXCEPT !.pc = "keys", !.signed = TRUE] \in CallRecord
        /\ [Idle EXCEPT !.pc = "keys", !.signed = TRUE].attempts = 0
    BY RecordTypes DEF Idle, CallRecord
  <2>2. Turn(Idle, bundle) \in CallRecord /\ Turn(Idle, bundle).attempts = 0
    BY RecordTypes, TurnType DEF Idle
  <2>3. calls' \in [Call -> CallRecord] /\ \A a \in Call : calls'[a].attempts <= RecoveryAttempts
    BY <1>1, <2>1, <2>2, BoundAssumption DEF Ask, TypeOK
  <2> QED
    BY <1>1, <2>3 DEF Ask, TypeOK, fields, cache, bundles, history
<1>2. ASSUME NEW c \in Call, ReadCache(c)
      PROVE  TypeOK'
  <2>1. wire' \in Seq(Command)
    BY <1>2, ReadCachePasses DEF Passes, Flows
  <2>2. calls' \in [Call -> CallRecord] /\ \A a \in Call : calls'[a].attempts <= RecoveryAttempts
    BY <1>2 DEF ReadCache, TypeOK, CallRecord
  <2> QED
    BY <1>2, <2>1, <2>2 DEF ReadCache, TypeOK, fields, bundles, history
<1>3. ASSUME NEW c \in Call, KeysAtHand(c)
      PROVE  TypeOK'
  <2>1. bundle \in 0..born
    BY DEF TypeOK
  <2>2. /\ refresh' \in Refresh /\ calls' \in [Call -> CallRecord]
        /\ \A a \in Call : calls'[a].attempts <= RecoveryAttempts
        /\ bundle' \in 0..born
    BY <1>3, <2>1, TakeKeysType DEF KeysAtHand
  <2> QED
    BY <1>3, <2>2 DEF KeysAtHand, TakeKeys, TypeOK, fields, bundles, history
<1>4. ASSUME NEW c \in Call, CacheAnswers(c)
      PROVE  TypeOK'
  <2>1. (IF stored \in fresh THEN stored ELSE bundle) \in 0..born
    BY DEF TypeOK
  <2>2. /\ refresh' \in Refresh /\ calls' \in [Call -> CallRecord]
        /\ \A a \in Call : calls'[a].attempts <= RecoveryAttempts
        /\ bundle' \in 0..born
    BY <1>4, <2>1, TakeKeysType DEF CacheAnswers
  <2>3. wire' \in Seq(Command)
    BY <1>0, <1>4, CacheAnswersPasses DEF Passes, Flows
  <2> QED
    BY <1>4, <2>2, <2>3 DEF CacheAnswers, TakeKeys, TypeOK, fields, bundles, history
<1>5. ASSUME NEW c \in Call, CacheTimesOut(c)
      PROVE  TypeOK'
  <2>1. wire' \in Seq(Command)
    BY <1>0, <1>5, CacheTimesOutPasses DEF Passes, Flows
  <2>2. calls' \in [Call -> CallRecord] /\ \A a \in Call : calls'[a].attempts <= RecoveryAttempts
    BY <1>5, RecordTypes, BoundAssumption DEF CacheTimesOut, TypeOK, Idle
  <2> QED
    BY <1>5, <2>1, <2>2 DEF CacheTimesOut, TypeOK, fields, bundles, history
<1>6. ASSUME NEW c \in Call, KeysRefreshed(c)
      PROVE  TypeOK'
  <2>1. WithKeys(calls[c], bundle) \in CallRecord /\ WithKeys(calls[c], bundle).attempts <= RecoveryAttempts
    BY TurnType DEF TypeOK
  <2>2. calls' \in [Call -> CallRecord] /\ \A a \in Call : calls'[a].attempts <= RecoveryAttempts
    BY <1>6, <2>1, RecordTypes, BoundAssumption DEF KeysRefreshed, TypeOK, Idle
  <2> QED
    BY <1>6, <2>2 DEF KeysRefreshed, TypeOK, fields, cache, bundles, history
<1>7. ASSUME NEW c \in Call, End(c)
      PROVE  TypeOK'
  <2>1. calls' \in [Call -> CallRecord] /\ \A a \in Call : calls'[a].attempts <= RecoveryAttempts
    BY <1>7, RecordTypes, BoundAssumption DEF End, TypeOK, Idle
  <2> QED
    BY <1>7, <2>1 DEF End, TypeOK, fields, cache, bundles, history
<1>8. ASSUME NEW c \in Call, Rejected(c)
      PROVE  TypeOK'
  <2>1. /\ refresh' \in Refresh /\ calls' \in [Call -> CallRecord]
        /\ \A a \in Call : calls'[a].attempts <= RecoveryAttempts
    BY <1>8, RejectedType
  <2> QED
    BY <1>8, <2>1 DEF Rejected, TypeOK, fields, cache, bundles, history
<1>9. ASSUME NEW c \in Call, Recovered(c)
      PROVE  TypeOK'
  <2>1. Turn(calls[c], bundle) \in CallRecord /\ Turn(calls[c], bundle).attempts <= RecoveryAttempts
    BY TurnType DEF TypeOK
  <2>2. calls' \in [Call -> CallRecord] /\ \A a \in Call : calls'[a].attempts <= RecoveryAttempts
    BY <1>9, <2>1 DEF Recovered, TypeOK
  <2> QED
    BY <1>9, <2>2 DEF Recovered, TypeOK, fields, cache, bundles, history
<1>10. CASE Handshake
  <2>1. wire' \in Seq(Command)
    BY <1>10, HandshakePasses DEF Passes, Flows
  <2>2. born + 1 \in Bundle /\ born' = born + 1 /\ born' \in 0..MaxBundles
    BY <1>10 DEF Handshake, TypeOK, Bundle
  <2>3. refresh' \in Refresh
    BY <1>10, <2>2 DEF Handshake, TypeOK, Refresh
  <2>4. era' \in [Bundle -> 0..MaxInvalidations]
    <3>1. refresh.era \in 0..MaxInvalidations
      BY <1>0 DEF RefreshOK, TypeOK, Refresh
    <3> QED
      BY <1>10, <2>2, <3>1 DEF Handshake, TypeOK
  <2>5. fresh' \subseteq 1..born' /\ bundle' \in 0..born' /\ stored' \in 0..born'
    BY <1>10, <2>2 DEF Handshake, TypeOK
  <2> QED
    BY <1>10, <2>1, <2>2, <2>3, <2>4, <2>5 DEF Handshake, TypeOK, fields, history
<1>11. CASE Publish
  <2>1. wire' \in Seq(Command)
    BY <1>0, <1>11, PublishPasses DEF Passes, Flows
  <2>2. 1 \in DOMAIN wire /\ wire[1].by = Refresher
    BY <1>11, HeadFirst DEF Publish
  <2>3. refresh.of \in 1..born
    BY <1>0, <2>2 DEF OneWaits, Owed, RefreshOK
  <2>4. timer' \in Timer
    BY <1>11, <2>3, ScheduleType DEF Publish
  <2>5. calls' \in [Call -> CallRecord] /\ \A a \in Call : calls'[a].attempts <= RecoveryAttempts
    BY <1>11, ToldType DEF Publish
  <2>6. invalidations' \in [Invalidation -> Invalidations]
    BY <1>11, DrainedType DEF Publish
  <2>7. generation' \in Nat /\ bundle' \in 0..born /\ stored' \in 0..born
    BY <1>11, <2>3 DEF Publish, TypeOK
  <2> QED
    BY <1>11, <2>1, <2>4, <2>5, <2>6, <2>7, RecordTypes DEF Publish, TypeOK, bundles, history
<1>12. CASE RefreshFails
  <2>1. wire' \in Seq(Command)
    BY <1>12, RefreshFailsPasses DEF Passes, Flows
  <2>2. timer' \in Timer
    BY <1>12, ScheduleType DEF RefreshFails
  <2>3. calls' \in [Call -> CallRecord] /\ \A a \in Call : calls'[a].attempts <= RecoveryAttempts
    BY <1>12, ToldType DEF RefreshFails
  <2>4. invalidations' \in [Invalidation -> Invalidations]
    BY <1>12, DrainedType DEF RefreshFails
  <2> QED
    BY <1>12, <2>1, <2>2, <2>3, <2>4, RecordTypes DEF RefreshFails, TypeOK, fields, bundles, history
<1>13. CASE TimerFires
  BY <1>13, JoinType, RecordTypes DEF TimerFires, TypeOK, fields, cache, bundles, history
<1>14. CASE Start
  BY <1>14, JoinType DEF Start, TypeOK, cache, bundles, history
<1>15. CASE Stop
  BY <1>15, AbortedType, RecordTypes DEF Stop, TypeOK, cache, bundles, history
<1>16. CASE Configure
  <2>1. timer' \in Timer
    BY <1>16, ScheduleType DEF Configure
  <2> QED
    BY <1>16, <2>1 DEF Configure, TypeOK, fields, cache, bundles, history
<1>17. ASSUME NEW i \in Invalidation, Invalidate(i)
       PROVE  TypeOK'
  <2>1. wire' \in Seq(Command)
    BY <1>17, InvalidatePasses DEF Passes, Flows
  <2>2. epoch' \in 0..MaxInvalidations /\ revoked' \in 0..epoch' /\ generation' \in Nat
    BY <1>17 DEF Invalidate, TypeOK, history
  <2>3. invalidations' \in [Invalidation -> Invalidations]
    <3>1. PICK r \in {[pc |-> "draining", era |-> epoch + 1], [pc |-> "deleting", era |-> epoch + 1]} :
              invalidations' = [invalidations EXCEPT ![i] = r]
      BY <1>17 DEF Invalidate
    <3>2. epoch + 1 \in 0..MaxInvalidations
      BY <1>17, <2>2 DEF Invalidate
    <3>3. r \in Invalidations
      BY <3>2 DEF Invalidations
    <3> QED
      BY <3>1, <3>3 DEF TypeOK
  <2>4. bundle' \in 0..born
    BY <1>17 DEF Invalidate
  <2> QED
    BY <1>17, <2>1, <2>2, <2>3, <2>4, AbortedType DEF Invalidate, TypeOK, bundles
<1>18. ASSUME NEW i \in Invalidation, Invalidated(i)
       PROVE  TypeOK'
  <2>1. wire' \in Seq(Command)
    BY <1>0, <1>18, InvalidatedPasses DEF Passes, Flows
  <2>2. timer' \in Timer
    BY <1>18, ScheduleType DEF Invalidated
  <2>3. invalidations' \in [Invalidation -> Invalidations]
    BY <1>18 DEF Invalidated, TypeOK, Invalidations
  <2>4. revoked' \in 0..epoch
    BY <1>0, <1>18 DEF Invalidated, RefreshOK, TypeOK, Invalidations
  <2>5. bundle' \in 0..born /\ stored' \in 0..born
    BY <1>18 DEF Invalidated
  <2> QED
    BY <1>18, <2>1, <2>2, <2>3, <2>4, <2>5 DEF Invalidated, TypeOK, fields, bundles
<1>19. ASSUME NEW i \in Invalidation, DeleteTimesOut(i)
       PROVE  TypeOK'
  <2>1. wire' \in Seq(Command)
    BY <1>19, DeleteTimesOutPasses DEF Passes, Flows
  <2>2. invalidations' \in [Invalidation -> Invalidations]
    BY <1>19 DEF DeleteTimesOut, TypeOK, Invalidations
  <2> QED
    BY <1>19, <2>1, <2>2 DEF DeleteTimesOut, TypeOK, fields, bundles, history
<1>20. CASE LateCommand
  <2>1. wire' \in Seq(Command)
    BY <1>0, <1>20, LateCommandPasses DEF Passes, Flows
  <2>2. stored' \in 0..born
    <3>1. Owed(wire[1]) /\ Head(wire) = wire[1] /\ wire[1].op \in {"get", "set", "del"}
      BY <1>0, <1>20, HeadFirst, WireType DEF LateCommand, OneWaits, Command
    <3> QED
      BY <1>20, <3>1 DEF LateCommand, Owed, TypeOK
  <2> QED
    BY <1>20, <2>1, <2>2 DEF LateCommand, TypeOK, fields, bundles, history
<1>21. CASE BackoffEnds
  BY <1>21 DEF BackoffEnds, TypeOK, fields, cache, bundles, history
<1>22. ASSUME NEW b \in Bundle, BecomesDue(b)
       PROVE  TypeOK'
  BY <1>22 DEF BecomesDue, TypeOK, fields, cache, history
<1> QED
  BY <1>1, <1>2, <1>3, <1>4, <1>5, <1>6, <1>7, <1>8, <1>9, <1>10, <1>11, <1>12, <1>13, <1>14, <1>15,
     <1>16, <1>17, <1>18, <1>19, <1>20, <1>21, <1>22 DEF Next

-----------------------------------------------------------------------------
(* Who waits for what. *)

\* What a turn of recover and getWbiKeys make of a request never waits for the cache.
LEMMA TurnPc ==
    ASSUME NEW call \in CallRecord, NEW b
    PROVE  /\ Turn(call, b).pc \in {"keys", "sent"}
           /\ WithKeys(call, b).pc \in {"keys", "sent"}
           /\ Recovering(call).pc = "waiting"
BY DEF Turn, WithKeys, Recovering, CallRecord

\* A request that waits for the cache is left alone by what others do.
LEMMA ReadingKept ==
    ASSUME TypeOK, NEW c \in Call, NEW r, calls' = [calls EXCEPT ![c] = r], calls[c].pc # "reading"
    PROVE  \A a \in Call : calls[a].pc = "reading" => calls'[a].pc = "reading"
BY DEF TypeOK

LEMMA ToldReading ==
    ASSUME TypeOK, NEW outcome, Told(outcome)
    PROVE  \A a \in Call : calls[a].pc = "reading" => calls'[a].pc = "reading"
BY DEF Told, TypeOK

LEMMA JoinStore ==
    ASSUME JoinRefresh
    PROVE  refresh.pc = "store" => refresh'.pc = "store" /\ refresh'.of = refresh.of
BY DEF JoinRefresh, NoRefresh

LEMMA AbortedStore ==
    ASSUME TypeOK, refresh' = Aborted
    PROVE  refresh.pc = "store" => refresh'.pc = "store" /\ refresh'.of = refresh.of
BY DEF Aborted, NoRefresh, TypeOK, Refresh

LEMMA OneWaitsStill ==
    ASSUME TypeOK, OneWaits, UNCHANGED <<wire, born>>,
           \A c \in Call : calls[c].pc = "reading" => calls'[c].pc = "reading",
           \A i \in Invalidation : invalidations[i].pc = "deleting" => invalidations'[i].pc = "deleting",
           refresh.pc = "store" => refresh'.pc = "store" /\ refresh'.of = refresh.of
    PROVE  OneWaits'
BY WireType DEF OneWaits, Owed

LEMMA TakeKeysWaits ==
    ASSUME TypeOK, OneWaits, NEW c \in Call, NEW b, TakeKeys(c, b)
    PROVE  /\ \A a \in Call : a # c /\ calls[a].pc = "reading" => calls'[a].pc = "reading"
           /\ refresh.pc = "store" => refresh'.pc = "store" /\ refresh'.of = refresh.of
<1>1. \E r : calls' = [calls EXCEPT ![c] = r]
  BY DEF TakeKeys
<1>2. JoinRefresh \/ UNCHANGED refresh
  BY DEF TakeKeys
<1> QED
  BY <1>1, <1>2, JoinStore DEF TypeOK

LEMMA OneWaitsStep ==
    ASSUME TypeOK, SessionInv, Next
    PROVE  OneWaits'
<1>0. OneWaits /\ RefreshOK /\ born \in Nat
  BY BundleType DEF SessionInv
<1>1. ASSUME NEW c \in Call, NEW signed \in BOOLEAN, Ask(c, signed)
      PROVE  OneWaits'
  BY <1>0, <1>1, OneWaitsStill DEF Ask, TypeOK, cache, bundles
<1>2. ASSUME NEW c \in Call, ReadCache(c)
      PROVE  OneWaits'
  <2>1. \A a \in Call : calls[a].pc = "reading" => calls'[a].pc = "reading"
    BY <1>2 DEF ReadCache, TypeOK
  <2>2. calls'[c].pc = "reading" /\ calls[c].pc = "keys"
    BY <1>2 DEF ReadCache, TypeOK, CallRecord
  <2>3. Owed(Cmd("get", c, None))'
    BY <2>2, WaiterAssumption DEF Owed, Cmd
  <2>4. \A n \in DOMAIN wire : wire[n].by # c
    BY <1>0, <2>2 DEF OneWaits, Owed
  <2>5. Cmd("get", c, None).by = c /\ c # Nobody
    BY WaiterAssumption DEF Cmd
  <2>6. Passes(Nobody, {Cmd("get", c, None)})
    BY <1>2, ReadCachePasses
  <2>7. UNCHANGED <<invalidations, refresh, born>>
    BY <1>2 DEF ReadCache, bundles
  <2> QED
    BY <1>0, <2>1, <2>3, <2>4, <2>5, <2>6, <2>7, OneWaitsKept
<1>3. ASSUME NEW c \in Call, KeysAtHand(c)
      PROVE  OneWaits'
  <2>1. calls[c].pc # "reading"
    BY <1>3 DEF KeysAtHand
  <2>2. \A a \in Call : calls[a].pc = "reading" => calls'[a].pc = "reading"
    BY <1>0, <1>3, <2>1, TakeKeysWaits DEF KeysAtHand
  <2>3. UNCHANGED <<wire, born, invalidations>>
    BY <1>3 DEF KeysAtHand, TakeKeys, bundles
  <2> QED
    BY <1>0, <1>3, <2>2, <2>3, TakeKeysWaits, OneWaitsStill DEF KeysAtHand
<1>4. ASSUME NEW c \in Call, CacheAnswers(c)
      PROVE  OneWaits'
  <2>1. UNCHANGED <<born, invalidations>>
    BY <1>4 DEF CacheAnswers, TakeKeys, bundles
  <2>2. Passes(c, {})
    BY <1>0, <1>4, CacheAnswersPasses
  <2>3. /\ \A a \in Call : a # c /\ calls[a].pc = "reading" => calls'[a].pc = "reading"
        /\ refresh.pc = "store" => refresh'.pc = "store" /\ refresh'.of = refresh.of
    BY <1>0, <1>4, TakeKeysWaits DEF CacheAnswers
  <2> QED
    BY <1>0, <2>1, <2>2, <2>3, OneWaitsKept
<1>5. ASSUME NEW c \in Call, CacheTimesOut(c)
      PROVE  OneWaits'
  <2>1. UNCHANGED <<born, invalidations, refresh>>
    BY <1>5 DEF CacheTimesOut, bundles
  <2>2. Passes(c, {})
    BY <1>0, <1>5, CacheTimesOutPasses
  <2>3. \A a \in Call : a # c /\ calls[a].pc = "reading" => calls'[a].pc = "reading"
    BY <1>5 DEF CacheTimesOut, TypeOK
  <2> QED
    BY <1>0, <2>1, <2>2, <2>3, OneWaitsKept
<1>6. ASSUME NEW c \in Call, KeysRefreshed(c) \/ End(c) \/ Recovered(c)
      PROVE  OneWaits'
  <2>1. calls[c].pc # "reading" /\ \E r : calls' = [calls EXCEPT ![c] = r]
    BY <1>6 DEF KeysRefreshed, End, Recovered
  <2>2. UNCHANGED <<wire, born, invalidations, refresh>>
    BY <1>6 DEF KeysRefreshed, End, Recovered, cache, bundles
  <2> QED
    BY <1>0, <2>1, <2>2, ReadingKept, OneWaitsStill
<1>7. ASSUME NEW c \in Call, Rejected(c)
      PROVE  OneWaits'
  <2>1. calls[c].pc # "reading" /\ \E r : calls' = [calls EXCEPT ![c] = r]
    BY <1>7 DEF Rejected, Eligible
  <2>2. UNCHANGED <<wire, born, invalidations>> /\ (JoinRefresh \/ UNCHANGED refresh)
    BY <1>7 DEF Rejected, cache, bundles
  <2> QED
    BY <1>0, <2>1, <2>2, ReadingKept, JoinStore, OneWaitsStill
<1>8. CASE Handshake
  <2>1. refresh.pc = "handshake" /\ refresh'.pc = "store" /\ refresh'.of = born + 1 /\ born' = born + 1
    BY <1>8 DEF Handshake, TypeOK, Refresh
  <2>3. \A n \in DOMAIN wire : wire[n].by # Refresher
    BY <1>0, <2>1 DEF OneWaits, Owed
  <2>4. Cmd("set", Refresher, born + 1).by = Refresher /\ Refresher # Nobody
    BY WaiterAssumption DEF Cmd
  <2>5. PICK w : w = Cmd("set", Refresher, born + 1)
    OBVIOUS
  <2>6. Passes(Nobody, {w})
    BY <1>8, <2>5, HandshakePasses
  <2>7. Owed(w)'
    BY <2>1, <2>5, <1>0, WaiterAssumption DEF Owed, Cmd
  <2>8. UNCHANGED <<calls, invalidations>>
    BY <1>8 DEF Handshake
  <2> QED
    BY <1>0, <2>1, <2>3, <2>4, <2>5, <2>6, <2>7, <2>8, OneWaitsKept
<1>9. CASE Publish \/ RefreshFails
  <2>1. PICK D : D = Deleting
    OBVIOUS
  <2>2. Passes(Refresher, D)
    BY <1>0, <1>9, <2>1, PublishPasses, RefreshFailsPasses
  <2>3. \A a \in Call : calls[a].pc = "reading" => calls'[a].pc = "reading"
    BY <1>9, ToldReading DEF Publish, RefreshFails
  <2>4. UNCHANGED born
    BY <1>9 DEF Publish, RefreshFails, bundles
  <2>5. invalidations' = [i \in Invalidation |-> IF i \in Draining THEN [invalidations[i] EXCEPT !.pc = "deleting"]
                                                 ELSE invalidations[i]]
    BY <1>9 DEF Publish, RefreshFails, Drained
  <2>6. \A i \in Invalidation :
            /\ invalidations[i].pc = "deleting" => invalidations'[i].pc = "deleting"
            /\ i \in Draining => invalidations'[i].pc = "deleting" /\ invalidations[i].pc # "deleting"
    BY <2>5 DEF TypeOK, Invalidations, Draining
  <2>7. ASSUME NEW w \in D
        PROVE  Owed(w)' /\ w.by # Nobody /\ \A n \in DOMAIN wire : wire[n].by # w.by
    <3>1. w.op = "del" /\ w.of = None /\ w.by \in Draining /\ w.by \in Invalidation
      BY <2>1, <2>7 DEF Deleting, Draining
    <3>2. \A n \in DOMAIN wire : wire[n].by # w.by
      BY <1>0, <2>6, <3>1 DEF OneWaits, Owed
    <3>3. Owed(w)'
      BY <2>6, <3>1, WaiterAssumption DEF Owed
    <3> QED
      BY <3>1, <3>2, <3>3, WaiterAssumption
  <2> QED
    BY <1>0, <2>2, <2>3, <2>4, <2>6, <2>7, OneWaitsKept
<1>10. CASE TimerFires \/ Start
  <2>1. UNCHANGED <<wire, born, invalidations, calls>> /\ JoinRefresh
    BY <1>10 DEF TimerFires, Start, cache, bundles
  <2> QED
    BY <1>0, <2>1, JoinStore, OneWaitsStill
<1>11. CASE Stop
  <2>1. UNCHANGED <<wire, born, invalidations, calls>> /\ refresh' = Aborted
    BY <1>11 DEF Stop, cache, bundles
  <2> QED
    BY <1>0, <2>1, AbortedStore, OneWaitsStill
<1>12. ASSUME NEW i \in Invalidation, Invalidate(i)
       PROVE  OneWaits'
  <2>1. UNCHANGED <<calls, born>> /\ refresh' = Aborted /\ invalidations[i].pc = "idle"
    BY <1>12 DEF Invalidate, bundles
  <2>2. \A j \in Invalidation : invalidations[j].pc = "deleting" => invalidations'[j].pc = "deleting"
    BY <1>12, <2>1 DEF Invalidate, TypeOK
  <2>3. CASE refresh # NoRefresh
    <3>1. UNCHANGED wire
      BY <1>12, <2>3 DEF Invalidate
    <3> QED
      BY <1>0, <2>1, <2>2, <3>1, AbortedStore, OneWaitsStill
  <2>4. CASE refresh = NoRefresh
    <3>1. Passes(Nobody, {Cmd("del", i, None)})
      BY <1>12, <2>4, InvalidatePasses
    <3>2. invalidations'[i].pc = "deleting"
      BY <1>12, <2>4 DEF Invalidate, TypeOK
    <3>3. Owed(Cmd("del", i, None))'
      BY <3>2, WaiterAssumption DEF Owed, Cmd
    <3>4. Cmd("del", i, None).by = i /\ i # Nobody
      BY WaiterAssumption DEF Cmd
    <3>5. \A n \in DOMAIN wire : wire[n].by # i
      BY <1>0, <2>1 DEF OneWaits, Owed
    <3> QED
      BY <1>0, <2>1, <2>2, <3>1, <3>3, <3>4, <3>5, AbortedStore, OneWaitsKept
  <2> QED
    BY <2>3, <2>4
<1>13. ASSUME NEW i \in Invalidation, Invalidated(i) \/ DeleteTimesOut(i)
       PROVE  OneWaits'
  <2>1. UNCHANGED <<calls, born, refresh>>
    BY <1>13 DEF Invalidated, DeleteTimesOut, bundles
  <2>2. \A j \in Invalidation : j # i /\ invalidations[j].pc = "deleting" => invalidations'[j].pc = "deleting"
    BY <1>13 DEF Invalidated, DeleteTimesOut, TypeOK
  <2>3. Passes(i, {})
    BY <1>0, <1>13, InvalidatedPasses, DeleteTimesOutPasses
  <2> QED
    BY <1>0, <2>1, <2>2, <2>3, OneWaitsKept
<1>14. CASE LateCommand
  <2>1. UNCHANGED <<calls, born, refresh, invalidations>>
    BY <1>14 DEF LateCommand, bundles
  <2>2. Passes(Nobody, {})
    BY <1>0, <1>14, LateCommandPasses
  <2> QED
    BY <1>0, <2>1, <2>2, OneWaitsKept
<1>15. CASE Configure \/ BackoffEnds \/ \E b \in Bundle : BecomesDue(b)
  <2>1. UNCHANGED <<wire, born, calls, refresh, invalidations>>
    BY <1>15 DEF Configure, BackoffEnds, BecomesDue, cache, bundles
  <2> QED
    BY <1>0, <2>1, OneWaitsStill
<1> QED
  BY <1>1, <1>2, <1>3, <1>4, <1>5, <1>6, <1>7, <1>8, <1>9, <1>10, <1>11, <1>12, <1>13, <1>14, <1>15 DEF Next

-----------------------------------------------------------------------------
(* The refresh and what was dropped. *)

LEMMA TurnGeneration ==
    ASSUME TypeOK, NEW call \in CallRecord, NEW b, call.generation <= generation
    PROVE  /\ Turn(call, b).generation <= generation
           /\ WithKeys(call, b).generation <= generation
           /\ Recovering(call).generation <= generation
           /\ Idle.generation <= generation
BY DEF Turn, WithKeys, Recovering, Idle, CallRecord, TypeOK

LEMMA GenerationKept ==
    ASSUME TypeOK, SentFresh, Next, TypeOK'
    PROVE  \A c \in Call : calls'[c].generation <= generation'
<1>0. generation \in Nat /\ \A c \in Call : calls[c] \in CallRecord /\ calls[c].generation \in Nat /\ calls[c].generation <= generation
  BY DEF TypeOK, SentFresh, CallRecord
<1>1. generation' = generation \/ generation' = generation + 1
  BY DEF Next, Ask, ReadCache, KeysAtHand, CacheAnswers, TakeKeys, CacheTimesOut, KeysRefreshed, End, Rejected,
         Recovered, Handshake, Publish, RefreshFails, TimerFires, Start, Stop, Configure, Invalidate, Invalidated,
         DeleteTimesOut, LateCommand, BackoffEnds, BecomesDue, fields
<1>2. ASSUME NEW c \in Call, NEW r, calls' = [calls EXCEPT ![c] = r], r.generation <= generation
      PROVE  \A a \in Call : calls'[a].generation <= generation
  BY <1>0, <1>2 DEF TypeOK
<1>3. \A a \in Call : calls'[a].generation <= generation
  <2>1. ASSUME NEW c \in Call,
               (\E signed \in BOOLEAN : Ask(c, signed)) \/ ReadCache(c) \/ KeysAtHand(c) \/ CacheAnswers(c)
               \/ CacheTimesOut(c) \/ KeysRefreshed(c) \/ End(c) \/ Rejected(c) \/ Recovered(c)
        PROVE  \E r : calls' = [calls EXCEPT ![c] = r] /\ r.generation <= generation
    <3>1. Idle.generation <= generation /\ Turn(Idle, bundle).generation <= generation
      BY RecordTypes, TurnGeneration, <1>0 DEF Idle
    <3>2. CASE (\E signed \in BOOLEAN : Ask(c, signed)) \/ CacheTimesOut(c) \/ End(c)
      <4>1. [Idle EXCEPT !.pc = "keys", !.signed = TRUE].generation <= generation
        BY <1>0 DEF Idle
      <4> QED
        BY <3>1, <3>2, <4>1 DEF Ask, CacheTimesOut, End
    <3>3. CASE ReadCache(c)
      <4>1. [calls[c] EXCEPT !.pc = "reading"].generation <= generation
        BY <1>0 DEF CallRecord
      <4> QED
        BY <3>3, <4>1 DEF ReadCache
    <3>4. CASE KeysAtHand(c) \/ CacheAnswers(c)
      <4>1. PICK b : TakeKeys(c, b)
        BY <3>4 DEF KeysAtHand, CacheAnswers
      <4>2. [calls[c] EXCEPT !.pc = "waiting"].generation <= generation
        BY <1>0 DEF CallRecord
      <4>3. WithKeys(calls[c], b).generation <= generation
        BY <1>0, TurnGeneration
      <4> QED
        BY <3>1, <4>1, <4>2, <4>3 DEF TakeKeys
    <3>5. CASE KeysRefreshed(c) \/ Recovered(c)
      <4>1. WithKeys(calls[c], bundle).generation <= generation /\ Turn(calls[c], bundle).generation <= generation
        BY <1>0, TurnGeneration
      <4> QED
        BY <3>1, <3>5, <4>1 DEF KeysRefreshed, Recovered
    <3>6. CASE Rejected(c)
      <4> DEFINE call == [calls[c] EXCEPT !.attempts = @ + 1]
      <4>1. call \in CallRecord /\ call.generation <= generation
        BY <1>0 DEF CallRecord
      <4>2. Recovering(call).generation <= generation /\ Turn(call, bundle).generation <= generation
        BY <4>1, TurnGeneration
      <4>3. calls' = [calls EXCEPT ![c] = Recovering(call)] \/ calls' = [calls EXCEPT ![c] = Turn(call, bundle)]
        BY <3>6 DEF Rejected
      <4> QED
        BY <4>2, <4>3
    <3> QED
      BY <2>1, <3>2, <3>3, <3>4, <3>5, <3>6
  <2>2. CASE \E c \in Call :
               (\E signed \in BOOLEAN : Ask(c, signed)) \/ ReadCache(c) \/ KeysAtHand(c) \/ CacheAnswers(c)
               \/ CacheTimesOut(c) \/ KeysRefreshed(c) \/ End(c) \/ Rejected(c) \/ Recovered(c)
    BY <1>2, <2>1, <2>2
  <2>3. CASE Publish \/ RefreshFails
    BY <1>0, <2>3 DEF Publish, RefreshFails, Told, CallRecord
  <2>4. CASE UNCHANGED calls
    BY <1>0, <2>4
  <2> QED
    BY <2>2, <2>3, <2>4 DEF Next, Handshake, TimerFires, Start, Stop, Configure, Invalidate, Invalidated,
         DeleteTimesOut, LateCommand, BackoffEnds, BecomesDue
<1>4. \A a \in Call : calls'[a].generation \in Int
  BY DEF TypeOK, CallRecord
<1> QED
  BY <1>0, <1>1, <1>3, <1>4

LEMMA JoinKeeps ==
    ASSUME TypeOK, RefreshOK, JoinRefresh, UNCHANGED <<born, era, epoch, allowCached, invalidations>>,
           life' = "stopped" <=> life = "stopped"
    PROVE  RefreshOK'
<1>1. CASE refresh = NoRefresh
  <2>1. refresh' = [pc |-> "handshake", era |-> epoch, aborted |-> FALSE, of |-> None]
    BY <1>1 DEF JoinRefresh, NoRefresh
  <2> QED
    BY <1>1, <2>1, BundleType DEF RefreshOK, NoRefresh
<1>2. CASE refresh # NoRefresh
  BY <1>2 DEF JoinRefresh, RefreshOK
<1> QED
  BY <1>1, <1>2

LEMMA AbortedParts ==
    ASSUME TypeOK, refresh' = Aborted
    PROVE  /\ refresh = NoRefresh => refresh' = NoRefresh
           /\ refresh # NoRefresh => /\ refresh'.aborted /\ refresh' # NoRefresh
                                     /\ refresh'.pc = refresh.pc /\ refresh'.era = refresh.era /\ refresh'.of = refresh.of
BY DEF Aborted, NoRefresh, TypeOK, Refresh

LEMMA DrainedKeeps ==
    ASSUME TypeOK, RefreshOK, NEW queue, Drained(queue), refresh' = NoRefresh,
           UNCHANGED <<born, era, epoch, allowCached>>
    PROVE  RefreshOK'
<1>1. \A i \in Invalidation :
          /\ invalidations'[i].era = invalidations[i].era
          /\ invalidations'[i].pc # "draining"
          /\ invalidations'[i].pc # "idle" => invalidations[i].pc # "idle"
  BY DEF Drained, Draining, TypeOK, Invalidations
<1>2. refresh' = [pc |-> "none", era |-> 0, aborted |-> FALSE, of |-> None] /\ 0 <= epoch'
  BY BundleType DEF NoRefresh
<1> QED
  BY <1>1, <1>2 DEF RefreshOK, NoRefresh

LEMMA RefreshStep ==
    ASSUME TypeOK, SessionInv, Next
    PROVE  RefreshOK'
<1>0. OneWaits /\ RefreshOK
  BY DEF SessionInv
<1> USE <1>0
<1>1. CASE (\E b \in Bundle : BecomesDue(b)) \/ BackoffEnds \/ LateCommand \/ Configure
           \/ \E c \in Call : (\E signed \in BOOLEAN : Ask(c, signed)) \/ ReadCache(c) \/ CacheTimesOut(c)
                              \/ KeysRefreshed(c) \/ End(c) \/ Recovered(c)
  <2>1. UNCHANGED <<refresh, born, era, epoch, life, allowCached, invalidations>>
    BY <1>1 DEF BecomesDue, BackoffEnds, LateCommand, Configure, Ask, ReadCache, CacheTimesOut, KeysRefreshed, End,
           Recovered, fields, bundles, history
  <2> QED
    BY <2>1 DEF RefreshOK
<1>2. CASE \E c \in Call : KeysAtHand(c) \/ CacheAnswers(c) \/ Rejected(c)
  <2>1. UNCHANGED <<born, era, epoch, life, allowCached, invalidations>>
    BY <1>2 DEF KeysAtHand, CacheAnswers, TakeKeys, Rejected, fields, bundles, history
  <2>2. JoinRefresh \/ UNCHANGED refresh
    BY <1>2 DEF KeysAtHand, CacheAnswers, TakeKeys, Rejected
  <2>3. CASE UNCHANGED refresh
    BY <2>1, <2>3 DEF RefreshOK
  <2> QED
    BY <2>1, <2>2, <2>3, JoinKeeps
<1>3. CASE TimerFires \/ Start
  BY <1>3, JoinKeeps DEF TimerFires, Start, fields, bundles, history
<1>4. CASE Handshake
  <2>1. /\ refresh'.pc = "store" /\ refresh'.of = born + 1 /\ refresh'.era = refresh.era
        /\ refresh'.aborted = refresh.aborted /\ refresh.pc = "handshake"
    BY <1>4 DEF Handshake, TypeOK, Refresh
  <2>2. born' = born + 1 /\ born + 1 \in Bundle /\ era'[born + 1] = refresh.era
    BY <1>4, BundleType DEF Handshake, TypeOK, Bundle
  <2>3. refresh' # NoRefresh
    BY <2>1 DEF NoRefresh
  <2>4. refresh'.of \in 1..born' /\ era'[refresh'.of] = refresh'.era
    BY <2>1, <2>2, BundleType
  <2>5. UNCHANGED <<life, allowCached, epoch, invalidations>>
    BY <1>4 DEF Handshake, fields, history
  <2> QED
    BY <2>1, <2>3, <2>4, <2>5 DEF RefreshOK
<1>5. CASE Publish \/ RefreshFails
  BY <1>5, DrainedKeeps DEF Publish, RefreshFails, fields, bundles, history
<1>6. CASE Stop
  <2>1. UNCHANGED <<born, era, epoch, allowCached, invalidations>> /\ refresh' = Aborted /\ life' = "stopped"
    BY <1>6 DEF Stop, bundles, history
  <2> QED
    BY <2>1, AbortedParts DEF RefreshOK, NoRefresh
<1>7. ASSUME NEW i \in Invalidation, Invalidate(i)
      PROVE  RefreshOK'
  <2>1. UNCHANGED <<born, era>> /\ refresh' = Aborted /\ ~allowCached' /\ epoch' = epoch + 1
    BY <1>7 DEF Invalidate, bundles
  <2>2. \A j \in Invalidation :
            IF j = i THEN invalidations'[j].era = epoch + 1 /\ (invalidations'[j].pc = "draining" => refresh # NoRefresh)
                     ELSE invalidations'[j] = invalidations[j]
    BY <1>7 DEF Invalidate, TypeOK
  <2>3. epoch \in Nat /\ refresh.era \in Nat /\ \A j \in Invalidation : invalidations[j].era \in Nat
    BY BundleType DEF TypeOK, Refresh, Invalidations
  <2>4. \A j \in Invalidation : invalidations'[j].era <= epoch'
    BY <2>1, <2>2, <2>3 DEF RefreshOK
  <2>5. refresh'.era <= epoch'
    BY <2>1, <2>3, AbortedParts DEF RefreshOK, NoRefresh
  <2>6. \A j \in Invalidation : invalidations'[j].pc = "draining" => refresh # NoRefresh
    BY <2>2 DEF RefreshOK
  <2>7. CASE refresh = NoRefresh
    <3>1. refresh' = NoRefresh /\ refresh'.pc = "none" /\ ~refresh'.aborted
      BY <2>1, <2>7, AbortedParts DEF NoRefresh
    <3> QED
      BY <2>1, <2>4, <2>5, <2>6, <2>7, <3>1 DEF RefreshOK
  <2>8. CASE refresh # NoRefresh
    <3>1. /\ refresh'.aborted /\ refresh' # NoRefresh
          /\ refresh'.pc = refresh.pc /\ refresh'.era = refresh.era /\ refresh'.of = refresh.of
      BY <2>1, <2>8, AbortedParts
    <3> QED
      BY <2>1, <2>4, <2>5, <2>8, <3>1 DEF RefreshOK
  <2> QED
    BY <2>7, <2>8
<1>8. ASSUME NEW i \in Invalidation, Invalidated(i) \/ DeleteTimesOut(i)
      PROVE  RefreshOK'
  <2>1. UNCHANGED <<refresh, born, era, epoch, life, allowCached>>
    BY <1>8 DEF Invalidated, DeleteTimesOut, fields, bundles, history
  <2>2. \A j \in Invalidation :
            /\ invalidations'[j].era = invalidations[j].era
            /\ invalidations'[j].pc # "idle" => invalidations'[j].pc = invalidations[j].pc
    <3>1. invalidations' = [invalidations EXCEPT ![i].pc = "idle"]
      BY <1>8 DEF Invalidated, DeleteTimesOut
    <3> QED
      BY <3>1 DEF TypeOK, Invalidations
  <2> QED
    BY <2>1, <2>2 DEF RefreshOK
<1> QED
  BY <1>1, <1>2, <1>3, <1>4, <1>5, <1>6, <1>7, <1>8 DEF Next


-----------------------------------------------------------------------------
(* What was invalidated stays out. *)

\* The sets on their way that are left follow the same deletions as before.
LEMMA DroppedFlow ==
    ASSUME TypeOK, OneWaits, DroppedForGood, NEW x, NEW added, Passes(x, added),
           \A b \in 1..born : era'[b] = era[b],
           \A i \in Invalidation :
               i # x /\ invalidations[i].pc = "deleting" => invalidations'[i].era = invalidations[i].era,
           \A w \in added : w.op = "set" =>
               /\ \A v \in added : v = w
               /\ era'[w.of] >= revoked
               /\ \A i \in Invalidation : invalidations[i].pc = "deleting" => era'[w.of] >= invalidations[i].era
    PROVE  /\ \A n \in DOMAIN wire' : wire'[n].op = "set" => era'[wire'[n].of] >= revoked
           /\ \A k, n \in DOMAIN wire' :
                  k < n /\ wire'[k].by \in Invalidation /\ wire'[n].op = "set"
                      => era'[wire'[n].of] >= invalidations'[wire'[k].by].era
<1>1. PICK d \in [DOMAIN wire' -> {0, 1}] : Flows(d, added)
  BY DEF Passes
<1> DEFINE Old(m) == m + d[m] \in DOMAIN wire /\ Kept(wire'[m], wire[m + d[m]])
           New(m) == m + d[m] > Len(wire) /\ wire'[m] \in added
<1>2. \A n \in DOMAIN wire' : Old(n) \/ New(n)
  BY <1>1 DEF Flows
<1>3. ASSUME NEW n \in DOMAIN wire', Old(n), wire'[n].op = "set"
      PROVE  /\ wire[n + d[n]].op = "set" /\ wire[n + d[n]].of = wire'[n].of
             /\ wire'[n].of \in 1..born /\ era'[wire'[n].of] = era[wire'[n].of]
  BY <1>3 DEF Kept, OneWaits, Owed
<1>4. ASSUME NEW k \in DOMAIN wire', Old(k), wire'[k].by \in Invalidation
      PROVE  /\ wire[k + d[k]].by = wire'[k].by /\ invalidations[wire'[k].by].pc = "deleting"
             /\ invalidations'[wire'[k].by].era = invalidations[wire'[k].by].era
  <2>1. wire[k + d[k]].by = wire'[k].by
    BY <1>4, WaiterAssumption DEF Kept
  <2>2. invalidations[wire'[k].by].pc = "deleting"
    BY <1>4, <2>1 DEF OneWaits, Owed
  <2>3. wire'[k].by # x
    BY <1>4, WaiterAssumption DEF Passes
  <2> QED
    BY <1>4, <2>1, <2>2, <2>3
<1>5. ASSUME NEW n \in DOMAIN wire', wire'[n].op = "set"
      PROVE  era'[wire'[n].of] >= revoked
  BY <1>2, <1>3, <1>5 DEF DroppedForGood
<1>6. ASSUME NEW k \in DOMAIN wire', NEW n \in DOMAIN wire', k < n, wire'[k].by \in Invalidation, wire'[n].op = "set"
      PROVE  era'[wire'[n].of] >= invalidations'[wire'[k].by].era
  <2>1. k + d[k] < n + d[n] /\ k + d[k] \in Int /\ n + d[n] \in Int /\ Len(wire) \in Nat
    BY <1>1, <1>6, FlowOrder, WireType
  <2>2. CASE Old(k) /\ Old(n)
    BY <1>3, <1>4, <1>6, <2>1, <2>2 DEF DroppedForGood
  <2>3. CASE Old(k) /\ New(n)
    BY <1>4, <1>6, <2>3
  <2>4. CASE New(k) /\ Old(n)
    BY <2>1, <2>4, WireType
  <2>5. CASE New(k) /\ New(n)
    <3>1. wire'[k] = wire'[n]
      BY <1>6, <2>5
    <3>2. wire'[k].by # wire'[n].by
      BY <1>1, <1>6, <2>5, FlowOrder DEF Flows
    <3> QED
      BY <3>1, <3>2
  <2> QED
    BY <1>2, <1>6, <2>2, <2>3, <2>4, <2>5
<1> QED
  BY <1>5, <1>6

\* What the other parts ask of a refresh that may be joined.
RefreshIsFresh ==
    /\ refresh # NoRefresh => refresh.era >= revoked
    /\ \A i \in Invalidation :
           invalidations[i].pc = "deleting" /\ refresh # NoRefresh => refresh.era >= invalidations[i].era

LEMMA JoinIsFresh ==
    ASSUME TypeOK, RefreshOK, RefreshIsFresh, JoinRefresh, UNCHANGED <<revoked, invalidations>>
    PROVE  RefreshIsFresh'
<1>1. epoch \in Nat /\ revoked \in Nat /\ revoked <= epoch
  BY BundleType DEF TypeOK
<1>2. CASE refresh = NoRefresh
  <2>1. refresh'.era = epoch
    BY <1>2 DEF JoinRefresh, NoRefresh
  <2> QED
    BY <1>1, <2>1 DEF RefreshIsFresh, RefreshOK
<1>3. CASE refresh # NoRefresh
  BY <1>3 DEF JoinRefresh, RefreshIsFresh
<1> QED
  BY <1>2, <1>3

LEMMA DroppedParts ==
    DroppedForGood <=>
        /\ InvalidatedStaysOut
        /\ RefreshIsFresh
        /\ \A n \in DOMAIN wire : wire[n].op = "set" => era[wire[n].of] >= revoked
        /\ \A k, n \in DOMAIN wire :
               k < n /\ wire[k].by \in Invalidation /\ wire[n].op = "set"
                   => era[wire[n].of] >= invalidations[wire[k].by].era
BY DEF DroppedForGood, RefreshIsFresh

\* A step that leaves the queue, the history and who is invalidating alone.
LEMMA DroppedStill ==
    ASSUME TypeOK, OneWaits, RefreshOK, DroppedForGood, UNCHANGED <<wire, era, revoked, invalidations, stored>>,
           bundle' \in {None, bundle, stored}, JoinRefresh \/ UNCHANGED refresh \/ refresh' = NoRefresh
    PROVE  DroppedForGood'
<1>1. RefreshIsFresh'
  <2>1. CASE JoinRefresh
    BY <2>1, JoinIsFresh, DroppedParts
  <2>2. CASE UNCHANGED refresh \/ refresh' = NoRefresh
    BY <2>2, DroppedParts DEF RefreshIsFresh, NoRefresh
  <2> QED
    BY <2>1, <2>2
<1>2. InvalidatedStaysOut'
  BY DroppedParts DEF InvalidatedStaysOut
<1> QED
  BY <1>1, <1>2 DEF DroppedForGood, RefreshIsFresh

LEMMA DroppedStep ==
    ASSUME TypeOK, SessionInv, Next
    PROVE  DroppedForGood'
<1>0. /\ OneWaits /\ RefreshOK /\ DroppedForGood /\ RefreshIsFresh
      /\ \A b \in 1..born : b \in Bundle /\ era[b] \in Nat
      /\ revoked \in Nat /\ born \in Nat
  BY BundleType, DroppedParts DEF SessionInv, TypeOK
<1> USE <1>0
<1>1. CASE (\E b \in Bundle : BecomesDue(b)) \/ BackoffEnds \/ Configure \/ TimerFires \/ Start
           \/ \E c \in Call : (\E signed \in BOOLEAN : Ask(c, signed)) \/ KeysRefreshed(c) \/ End(c) \/ Recovered(c)
                              \/ Rejected(c) \/ KeysAtHand(c)
  <2>1. UNCHANGED <<wire, era, revoked, invalidations, stored, bundle>>
    BY <1>1 DEF BecomesDue, BackoffEnds, Configure, TimerFires, Start, Ask, KeysRefreshed, End, Recovered, Rejected,
           KeysAtHand, TakeKeys, cache, bundles, history
  <2>2. JoinRefresh \/ UNCHANGED refresh
    BY <1>1 DEF BecomesDue, BackoffEnds, Configure, TimerFires, Start, Ask, KeysRefreshed, End, Recovered, Rejected,
           KeysAtHand, TakeKeys
  <2> QED
    BY <2>1, <2>2, DroppedStill
<1>2. ASSUME NEW c \in Call, ReadCache(c)
      PROVE  DroppedForGood'
  <2>1. Passes(Nobody, {Cmd("get", c, None)})
    BY <1>2, ReadCachePasses
  <2>2. UNCHANGED <<era, revoked, invalidations, refresh, stored, bundle>>
    BY <1>2 DEF ReadCache, bundles, history
  <2>3. Cmd("get", c, None).op # "set"
    BY DEF Cmd
  <2> QED
    BY <2>1, <2>2, <2>3, DroppedFlow DEF DroppedForGood, InvalidatedStaysOut
<1>3. ASSUME NEW c \in Call, CacheAnswers(c)
      PROVE  DroppedForGood'
  <2>1. Passes(c, {})
    BY <1>3, CacheAnswersPasses
  <2>2. UNCHANGED <<era, revoked, invalidations, stored>> /\ bundle' \in {bundle, stored}
    BY <1>3 DEF CacheAnswers, TakeKeys, bundles, history
  <2>3. RefreshIsFresh'
    <3>1. JoinRefresh \/ UNCHANGED refresh
      BY <1>3 DEF CacheAnswers, TakeKeys
    <3> QED
      BY <2>2, <3>1, JoinIsFresh DEF RefreshIsFresh
  <2>4. InvalidatedStaysOut'
    BY <2>2 DEF DroppedForGood, InvalidatedStaysOut
  <2> QED
    BY <2>1, <2>2, <2>3, <2>4, DroppedFlow DEF DroppedForGood, RefreshIsFresh
<1>4. ASSUME NEW c \in Call, CacheTimesOut(c)
      PROVE  DroppedForGood'
  <2>1. Passes(c, {})
    BY <1>4, CacheTimesOutPasses
  <2>2. UNCHANGED <<era, revoked, invalidations, refresh, stored, bundle>>
    BY <1>4 DEF CacheTimesOut, bundles, history
  <2> QED
    BY <2>1, <2>2, DroppedFlow DEF DroppedForGood, InvalidatedStaysOut
<1>5. CASE Handshake
  <2>1. PICK w : w = Cmd("set", Refresher, born + 1)
    OBVIOUS
  <2>2. Passes(Nobody, {w})
    BY <1>5, <2>1, HandshakePasses
  <2>3. refresh # NoRefresh /\ refresh' # NoRefresh /\ refresh'.era = refresh.era
    <3>1. refresh.pc = "handshake" /\ refresh'.pc = "store" /\ refresh'.era = refresh.era
      BY <1>5 DEF Handshake, TypeOK, Refresh
    <3> QED
      BY <3>1 DEF NoRefresh
  <2>4. UNCHANGED <<revoked, invalidations, stored, bundle>>
    BY <1>5 DEF Handshake, history
  <2>5. era'[born + 1] = refresh.era /\ \A b \in 1..born : era'[b] = era[b]
    BY <1>5, BundleType DEF Handshake, TypeOK, Bundle
  <2>6. w.op = "set" /\ w.of = born + 1
    BY <2>1 DEF Cmd
  <2>7. era'[w.of] >= revoked
    BY <2>3, <2>5, <2>6 DEF RefreshIsFresh
  <2>8. \A i \in Invalidation : invalidations[i].pc = "deleting" => era'[w.of] >= invalidations[i].era
    BY <2>3, <2>5, <2>6 DEF RefreshIsFresh
  <2>9. InvalidatedStaysOut'
    BY <2>4, <2>5 DEF DroppedForGood, InvalidatedStaysOut, TypeOK, None
  <2>10. RefreshIsFresh'
    BY <2>3, <2>4 DEF RefreshIsFresh
  <2> QED
    BY <2>2, <2>4, <2>5, <2>7, <2>8, <2>9, <2>10, DroppedFlow DEF DroppedForGood, RefreshIsFresh
<1>6. CASE Publish \/ RefreshFails
  <2>1. PICK D : D = Deleting
    OBVIOUS
  <2>2. Passes(Refresher, D)
    BY <1>6, <2>1, PublishPasses, RefreshFailsPasses
  <2>3. UNCHANGED <<era, revoked>> /\ refresh' = NoRefresh
    BY <1>6 DEF Publish, RefreshFails, bundles, history
  <2>4. \A i \in Invalidation : invalidations'[i].era = invalidations[i].era
    BY <1>6 DEF Publish, RefreshFails, Drained, TypeOK, Invalidations
  <2>5. \A w \in D : w.op # "set"
    BY <2>1 DEF Deleting
  <2>6. RefreshIsFresh'
    BY <2>3 DEF RefreshIsFresh
  <2>7. InvalidatedStaysOut'
    <3>1. CASE Publish
      <4>1. 1 \in DOMAIN wire /\ wire[1].by = Refresher
        BY <3>1, HeadFirst DEF Publish
      <4>2. wire[1].op = "set" /\ wire[1].of = refresh.of
        BY <4>1 DEF OneWaits, Owed
      <4>3. era[refresh.of] >= revoked
        BY <4>1, <4>2 DEF DroppedForGood
      <4> QED
        BY <2>3, <3>1, <4>3 DEF Publish, InvalidatedStaysOut
    <3>2. CASE RefreshFails
      BY <2>3, <3>2 DEF RefreshFails, DroppedForGood, InvalidatedStaysOut
    <3> QED
      BY <1>6, <3>1, <3>2
  <2> QED
    BY <2>2, <2>3, <2>4, <2>5, <2>6, <2>7, DroppedFlow DEF DroppedForGood, RefreshIsFresh
<1>7. CASE Stop
  <2>1. UNCHANGED <<wire, era, revoked, invalidations, stored, bundle>> /\ refresh' = Aborted
    BY <1>7 DEF Stop, cache, bundles, history
  <2> QED
    BY <2>1, AbortedParts DEF DroppedForGood, InvalidatedStaysOut
<1>8. ASSUME NEW i \in Invalidation, Invalidate(i)
      PROVE  DroppedForGood'
  <2>1. /\ UNCHANGED <<era, revoked, stored>> /\ refresh' = Aborted /\ bundle' = None
        /\ invalidations[i].pc = "idle"
    BY <1>8 DEF Invalidate, bundles
  <2>2. PICK added : added = IF refresh = NoRefresh THEN {Cmd("del", i, None)} ELSE {}
    OBVIOUS
  <2>3. Passes(Nobody, added) /\ \A w \in added : w.op # "set"
    BY <1>8, <2>2, InvalidatePasses DEF Cmd
  <2>4. \A j \in Invalidation : j # i => invalidations'[j] = invalidations[j]
    BY <1>8 DEF Invalidate, TypeOK
  <2>5. refresh # NoRefresh => invalidations'[i].pc = "draining"
    BY <1>8 DEF Invalidate, TypeOK
  <2>6. RefreshIsFresh'
    BY <2>1, <2>4, <2>5, AbortedParts DEF RefreshIsFresh
  <2>7. InvalidatedStaysOut'
    BY <2>1 DEF DroppedForGood, InvalidatedStaysOut
  <2> QED
    BY <2>1, <2>3, <2>4, <2>6, <2>7, DroppedFlow DEF DroppedForGood, RefreshIsFresh
<1>9. ASSUME NEW i \in Invalidation, Invalidated(i)
      PROVE  DroppedForGood'
  <2>1. /\ UNCHANGED <<era, refresh>> /\ stored' = None /\ bundle' = None /\ wire' = Tail(wire)
        /\ revoked' \in {revoked, invalidations[i].era}
    BY <1>9 DEF Invalidated, bundles
  <2>2. 1 \in DOMAIN wire /\ wire[1].by = i /\ invalidations[i].pc = "deleting"
    BY <1>9, HeadFirst DEF Invalidated, OneWaits, Owed
  <2>3. invalidations' = [invalidations EXCEPT ![i].pc = "idle"]
    BY <1>9 DEF Invalidated
  <2>4. \A j \in Invalidation : invalidations'[j].era = invalidations[j].era
    BY <2>3 DEF TypeOK, Invalidations
  <2>5. \A j \in Invalidation : invalidations'[j].pc = "deleting" => invalidations[j].pc = "deleting"
    BY <2>3 DEF TypeOK, Invalidations
  <2>6. Passes(i, {})
    BY <1>9, InvalidatedPasses
  <2>7. /\ \A n \in DOMAIN wire' : wire'[n].op = "set" => era'[wire'[n].of] >= revoked
        /\ \A k, n \in DOMAIN wire' :
               k < n /\ wire'[k].by \in Invalidation /\ wire'[n].op = "set"
                   => era'[wire'[n].of] >= invalidations'[wire'[k].by].era
    BY <2>1, <2>4, <2>6, DroppedFlow
  <2>8. ASSUME NEW n \in DOMAIN wire', wire'[n].op = "set"
        PROVE  era'[wire'[n].of] >= invalidations[i].era
    <3>1. Flows([m \in DOMAIN wire' |-> 1], {})
      BY <1>9, TailFlows DEF Invalidated
    <3>2. n + 1 \in DOMAIN wire /\ Kept(wire'[n], wire[n + 1]) /\ n \in 1..Len(wire')
      BY <2>8, <3>1, FlowOrder DEF Flows
    <3>3. 1 < n + 1 /\ wire[n + 1].op = "set" /\ wire[n + 1].of = wire'[n].of
      BY <2>8, <3>2 DEF Kept
    <3> QED
      BY <2>1, <2>2, <3>2, <3>3 DEF DroppedForGood
  <2>9. RefreshIsFresh'
    BY <2>1, <2>2, <2>4, <2>5 DEF RefreshIsFresh
  <2>10. InvalidatedStaysOut'
    BY <2>1 DEF InvalidatedStaysOut
  <2> QED
    BY <2>1, <2>7, <2>8, <2>9, <2>10 DEF DroppedForGood, RefreshIsFresh
<1>10. ASSUME NEW i \in Invalidation, DeleteTimesOut(i)
       PROVE  DroppedForGood'
  <2>1. UNCHANGED <<era, revoked, refresh, stored, bundle>>
    BY <1>10 DEF DeleteTimesOut, bundles, history
  <2>2. invalidations' = [invalidations EXCEPT ![i].pc = "idle"]
    BY <1>10 DEF DeleteTimesOut
  <2>3. \A j \in Invalidation : /\ invalidations'[j].era = invalidations[j].era
                                /\ invalidations'[j].pc = "deleting" => invalidations[j].pc = "deleting"
    BY <2>2 DEF TypeOK, Invalidations
  <2>4. Passes(i, {})
    BY <1>10, DeleteTimesOutPasses
  <2> QED
    BY <2>1, <2>3, <2>4, DroppedFlow DEF DroppedForGood, InvalidatedStaysOut
<1>11. CASE LateCommand
  <2>1. UNCHANGED <<era, revoked, refresh, bundle, invalidations>>
    BY <1>11 DEF LateCommand, bundles, history
  <2>2. Passes(Nobody, {})
    BY <1>11, LateCommandPasses
  <2>3. 1 \in DOMAIN wire /\ Head(wire) = wire[1] /\ wire[1].op \in {"get", "set", "del"} /\ Owed(wire[1])
    BY <1>11, HeadFirst, WireType DEF LateCommand, OneWaits, Command
  <2>4. InvalidatedStaysOut'
    BY <1>11, <2>1, <2>3 DEF LateCommand, Owed, DroppedForGood, InvalidatedStaysOut
  <2> QED
    BY <2>1, <2>2, <2>4, DroppedFlow DEF DroppedForGood
<1> QED
  BY <1>1, <1>2, <1>3, <1>4, <1>5, <1>6, <1>7, <1>8, <1>9, <1>10, <1>11 DEF Next

-----------------------------------------------------------------------------
(* What the reads find. *)

\* The parts of ReadsAgree.
ReadsFirst ==
    /\ \A k, n \in DOMAIN wire : k < n /\ wire[n].by \in Call => wire[k].op # "del" /\ wire[k].by # Refresher
    /\ \A n \in DOMAIN wire : wire[n].op = "del" => ~allowCached

FindsThat(b) == \A n \in DOMAIN wire : wire[n].by \in Call => Finds(n, b)

NoSetBetween ==
    \A k, n \in DOMAIN wire :
        k < n /\ wire[k].by \in Call /\ wire[n].op = "set" =>
            /\ \A m \in n + 1..Len(wire) : wire[m].by \notin Call
            /\ refresh.pc = "store" \/ ~allowCached

LEMMA ReadsParts ==
    ReadsAgree <=> /\ ReadsFirst
                   /\ life # "stopped" => FindsThat(bundle) /\ FindsThat(timer.of) /\ NoSetBetween
BY DEF ReadsAgree, ReadsFirst, FindsThat, NoSetBetween

\* When nothing is added, or only what nobody reads, the reads stay first.
LEMMA FirstFlow ==
    ASSUME TypeOK, ReadsFirst, NEW x, NEW added, Passes(x, added),
           allowCached' => allowCached,
           \A w \in added : /\ w.by \notin Call
                            /\ w.op = "del" => ~allowCached'
    PROVE  ReadsFirst'
<1>1. PICK d \in [DOMAIN wire' -> {0, 1}] : Flows(d, added)
  BY DEF Passes
<1> DEFINE Old(m) == m + d[m] \in DOMAIN wire /\ Kept(wire'[m], wire[m + d[m]])
           New(m) == m + d[m] > Len(wire) /\ wire'[m] \in added
<1>2. \A n \in DOMAIN wire' : Old(n) \/ New(n)
  BY <1>1 DEF Flows
<1>3. ASSUME NEW n \in DOMAIN wire', wire'[n].op = "del"
      PROVE  ~allowCached'
  BY <1>2, <1>3 DEF ReadsFirst, Kept
<1>4. ASSUME NEW k \in DOMAIN wire', NEW n \in DOMAIN wire', k < n, wire'[n].by \in Call
      PROVE  wire'[k].op # "del" /\ wire'[k].by # Refresher
  <2>1. k + d[k] < n + d[n] /\ k + d[k] \in Int /\ n + d[n] \in Int /\ Len(wire) \in Nat
    BY <1>1, <1>4, FlowOrder, WireType
  <2>2. Old(n) /\ wire[n + d[n]].by \in Call
    BY <1>2, <1>4, WaiterAssumption DEF Kept
  <2>3. Old(k)
    BY <1>2, <1>4, <2>1, <2>2, WireType
  <2>4. wire[k + d[k]].op # "del" /\ wire[k + d[k]].by # Refresher
    BY <2>1, <2>2, <2>3 DEF ReadsFirst
  <2> QED
    BY <2>3, <2>4, WaiterAssumption DEF Kept
<1> QED
  BY <1>3, <1>4 DEF ReadsFirst

LEMMA FindsFlow ==
    ASSUME TypeOK, NEW b, FindsThat(b), NEW x, NEW added, Passes(x, added), stored' \in {stored, None, b},
           \A w \in added : w.by \notin Call
    PROVE  \A n \in DOMAIN wire' :
               wire'[n].by \in Call /\ b # None =>
                   stored' \in {None, b} /\ \A m \in 1..n - 1 : wire'[m].op # "set"
<1>1. PICK d \in [DOMAIN wire' -> {0, 1}] : Flows(d, added)
  BY DEF Passes
<1> DEFINE Old(m) == m + d[m] \in DOMAIN wire /\ Kept(wire'[m], wire[m + d[m]])
           New(m) == m + d[m] > Len(wire) /\ wire'[m] \in added
<1>2. \A n \in DOMAIN wire' : Old(n) \/ New(n)
  BY <1>1 DEF Flows
<1> SUFFICES ASSUME NEW n \in DOMAIN wire', wire'[n].by \in Call, b # None
             PROVE  stored' \in {None, b} /\ \A m \in 1..n - 1 : wire'[m].op # "set"
  OBVIOUS
<1>3. Old(n) /\ wire[n + d[n]].by \in Call
  BY <1>2, WaiterAssumption DEF Kept
<1>4. stored \in {None, b} /\ \A m \in 1..(n + d[n]) - 1 : wire[m].op # "set"
  BY <1>3 DEF FindsThat, Finds
<1>5. ASSUME NEW m \in 1..n - 1
      PROVE  wire'[m].op # "set"
  <2>1. DOMAIN wire' = 1..Len(wire') /\ Len(wire') \in Nat
    BY <1>1, FlowOrder
  <2>2. m \in DOMAIN wire' /\ m < n
    BY <2>1
  <2>3. m + d[m] < n + d[n] /\ m + d[m] \in Int /\ n + d[n] \in Int /\ Len(wire) \in Nat
    BY <1>1, <2>2, FlowOrder, WireType
  <2>4. Old(m)
    BY <1>2, <1>3, <2>2, <2>3, WireType
  <2>5. m + d[m] \in 1..(n + d[n]) - 1
    BY <2>3, <2>4, WireType
  <2> QED
    BY <1>4, <2>4, <2>5 DEF Kept
<1> QED
  BY <1>4, <1>5

LEMMA BetweenFlow ==
    ASSUME TypeOK, NoSetBetween, NEW x, NEW added, Passes(x, added),
           allowCached' => allowCached,
           refresh.pc = "store" => refresh'.pc = "store" \/ ~allowCached'
                                   \/ \A n \in DOMAIN wire' : wire'[n].by \notin Call,
           \A w \in added : /\ w.by \notin Call
                            /\ w.op = "set" => refresh'.pc = "store"
    PROVE  NoSetBetween'
<1>1. PICK d \in [DOMAIN wire' -> {0, 1}] : Flows(d, added)
  BY DEF Passes
<1> DEFINE Old(m) == m + d[m] \in DOMAIN wire /\ Kept(wire'[m], wire[m + d[m]])
           New(m) == m + d[m] > Len(wire) /\ wire'[m] \in added
<1>2. \A n \in DOMAIN wire' : Old(n) \/ New(n)
  BY <1>1 DEF Flows
<1>3. DOMAIN wire' = 1..Len(wire') /\ Len(wire') \in Nat /\ Len(wire) \in Nat /\ DOMAIN wire = 1..Len(wire)
  BY <1>1, FlowOrder, WireType
<1> SUFFICES ASSUME NEW k \in DOMAIN wire', NEW n \in DOMAIN wire', k < n, wire'[k].by \in Call, wire'[n].op = "set"
             PROVE  /\ \A m \in n + 1..Len(wire') : wire'[m].by \notin Call
                    /\ refresh'.pc = "store" \/ ~allowCached'
  BY DEF NoSetBetween
<1>4. k + d[k] < n + d[n] /\ k + d[k] \in Int /\ n + d[n] \in Int
  BY <1>1, FlowOrder
<1>5. Old(k) /\ wire[k + d[k]].by \in Call
  BY <1>2, WaiterAssumption DEF Kept
<1>6. CASE Old(n)
  <2>1. wire[n + d[n]].op = "set"
    BY <1>6 DEF Kept
  <2>2. /\ \A m \in n + d[n] + 1..Len(wire) : wire[m].by \notin Call
        /\ refresh.pc = "store" \/ ~allowCached
    BY <1>4, <1>5, <1>6, <2>1 DEF NoSetBetween
  <2>3. ASSUME NEW m \in n + 1..Len(wire'), wire'[m].by \in Call
        PROVE  FALSE
    <3>1. m \in DOMAIN wire' /\ n < m
      BY <1>3
    <3>2. n + d[n] < m + d[m] /\ m + d[m] \in Int
      BY <1>1, <3>1, FlowOrder
    <3>3. Old(m) /\ wire[m + d[m]].by \in Call
      BY <1>2, <2>3, <3>1, WaiterAssumption DEF Kept
    <3>4. m + d[m] \in n + d[n] + 1..Len(wire)
      BY <1>3, <1>4, <3>2, <3>3
    <3> QED
      BY <2>2, <3>3, <3>4
  <2> QED
    BY <2>2, <2>3
<1>7. CASE New(n)
  <2>1. ASSUME NEW m \in n + 1..Len(wire'), wire'[m].by \in Call
        PROVE  FALSE
    <3>1. m \in DOMAIN wire' /\ n < m
      BY <1>3
    <3>2. n + d[n] < m + d[m] /\ m + d[m] \in Int
      BY <1>1, <3>1, FlowOrder
    <3>3. Old(m)
      BY <1>2, <2>1, <3>1
    <3> QED
      BY <1>3, <1>4, <1>7, <3>2, <3>3
  <2> QED
    BY <1>7, <2>1
<1> QED
  BY <1>2, <1>6, <1>7

\* A step after which nobody has begun to read who had not begun before, and that leaves in the cache what was
\* there, or nothing.
LEMMA ReadsFlow ==
    ASSUME TypeOK, ReadsAgree, NEW x, NEW added, Passes(x, added), stored' \in {stored, None},
           allowCached' => allowCached, life' # "stopped" => life # "stopped",
           life' # "stopped" => FindsThat(bundle') /\ FindsThat(timer'.of),
           life' # "stopped" /\ refresh.pc = "store" => refresh'.pc = "store" \/ ~allowCached',
           \A w \in added : /\ w.by \notin Call
                            /\ w.op = "del" => ~allowCached'
                            /\ w.op = "set" => refresh'.pc = "store"
    PROVE  ReadsAgree'
<1>1. PICK b, t : b = bundle' /\ t = timer'.of
  OBVIOUS
<1>2. ReadsFirst'
  BY FirstFlow, ReadsParts
<1>3. ASSUME life' # "stopped"
      PROVE  FindsThat(bundle)' /\ FindsThat(timer.of)' /\ NoSetBetween'
  <2>1. FindsThat(b) /\ FindsThat(t) /\ NoSetBetween
    BY <1>1, <1>3, ReadsParts
  <2>2. ASSUME NEW a, FindsThat(a)
        PROVE  FindsThat(a)'
    <3>1. \A n \in DOMAIN wire' :
              wire'[n].by \in Call /\ a # None =>
                  stored' \in {None, a} /\ \A m \in 1..n - 1 : wire'[m].op # "set"
      BY <2>2, FindsFlow
    <3> QED
      BY <3>1 DEF FindsThat, Finds
  <2>3. NoSetBetween'
    BY <1>3, <2>1, BetweenFlow
  <2>4. FindsThat(b)' /\ FindsThat(t)'
    BY <2>1, <2>2
  <2>5. FindsThat(bundle)' /\ FindsThat(timer.of)'
    BY <1>1, <2>4 DEF FindsThat, Finds
  <2> QED
    BY <2>3, <2>5
<1> QED
  BY <1>2, <1>3 DEF ReadsAgree, ReadsFirst, FindsThat, NoSetBetween

\* Nobody reads.
LEMMA NobodyReads ==
    ASSUME TypeOK, ReadsAgree, NEW x, NEW added, Passes(x, added),
           allowCached' => allowCached,
           \A n \in DOMAIN wire : wire[n].by \notin Call,
           \A w \in added : w.by \notin Call /\ (w.op = "del" => ~allowCached')
    PROVE  ReadsAgree' /\ \A n \in DOMAIN wire' : wire'[n].by \notin Call
<1>1. \A n \in DOMAIN wire' : wire'[n].by \notin Call
  BY WaiterAssumption DEF Passes, Flows, Kept
<1>2. ReadsFirst'
  BY FirstFlow, ReadsParts
<1> QED
  BY <1>1, <1>2 DEF ReadsAgree, ReadsFirst

LEMMA ScheduleParts ==
    ASSUME NEW b \in Bundle \cup {None}, NEW wait
    PROVE  /\ Schedule(b, wait).of \in {b, None}
           /\ Schedule(b, wait).at = "due" => Schedule(b, wait).of = b /\ b # None
           /\ Schedule(b, wait).at # "off" <=> life = "started"
           /\ life = "started" /\ wait # "none" => Schedule(b, wait).at = "backoff"
BY DEF Schedule, Off

LEMMA NoneFound == FindsThat(None)
BY DEF FindsThat, Finds

\* Nobody reads while the set of a refresh is the first that somebody waits for.
LEMMA RefresherFirst ==
    ASSUME TypeOK, ReadsAgree, First(Refresher) \/ Answers(Refresher)
    PROVE  \A n \in DOMAIN wire : wire[n].by \notin Call
<1>1. PICK k \in DOMAIN wire : wire[k].by = Refresher /\ \A n \in 1..(k - 1) : wire[n].by = Nobody
  <2>1. CASE First(Refresher)
    BY <2>1 DEF First
  <2>2. CASE Answers(Refresher)
    BY <2>2, HeadFirst
  <2> QED
    BY <2>1, <2>2
<1> SUFFICES ASSUME NEW n \in DOMAIN wire
             PROVE  wire[n].by \notin Call
  OBVIOUS
<1>2. k \in Int /\ n \in Int /\ n >= 1
  BY WireType
<1>3. CASE n < k
  BY <1>1, <1>2, <1>3, WaiterAssumption
<1>4. CASE n = k
  BY <1>1, <1>4, WaiterAssumption
<1>5. CASE k < n
  BY <1>1, <1>5 DEF ReadsAgree
<1> QED
  BY <1>2, <1>3, <1>4, <1>5

LEMMA DrainingBars ==
    ASSUME RefreshOK, UNCHANGED allowCached
    PROVE  \A w \in Deleting : w.by \notin Call /\ w.op = "del" /\ ~allowCached'
BY WaiterAssumption DEF RefreshOK, Deleting, Draining

LEMMA ReadsStep ==
    ASSUME TypeOK, SessionInv, Next
    PROVE  ReadsAgree'
<1>0. /\ OneWaits /\ RefreshOK /\ ReadsAgree /\ TimerOK
      /\ life # "stopped" => FindsThat(bundle) /\ FindsThat(timer.of)
      /\ bundle \in Bundle \cup {None} /\ stored \in Bundle \cup {None}
  BY BundleType, ReadsParts DEF SessionInv
<1> USE <1>0
<1>1. CASE (\E b \in Bundle : BecomesDue(b)) \/ BackoffEnds \/ Configure \/ TimerFires \/ Start
           \/ \E c \in Call : (\E signed \in BOOLEAN : Ask(c, signed)) \/ KeysRefreshed(c) \/ End(c) \/ Recovered(c)
                              \/ Rejected(c) \/ KeysAtHand(c)
  <2>1. UNCHANGED <<wire, stored, bundle, allowCached>> /\ (life' # "stopped" => life # "stopped")
    BY <1>1 DEF BecomesDue, BackoffEnds, Configure, TimerFires, Start, Ask, KeysRefreshed, End, Recovered, Rejected,
           KeysAtHand, TakeKeys, cache, fields
  <2>2. JoinRefresh \/ UNCHANGED refresh
    BY <1>1 DEF BecomesDue, BackoffEnds, Configure, TimerFires, Start, Ask, KeysRefreshed, End, Recovered, Rejected,
           KeysAtHand, TakeKeys
  <2>3. timer' = timer \/ timer' = Off \/ timer' = Schedule(bundle, "none")
    BY <1>1 DEF BecomesDue, BackoffEnds, Configure, TimerFires, Start, Ask, KeysRefreshed, End, Recovered, Rejected,
           KeysAtHand, TakeKeys
  <2>4. timer'.of \in {timer.of, bundle, None}
    BY <2>3, ScheduleParts DEF Off
  <2>5. life' # "stopped" => FindsThat(bundle') /\ FindsThat(timer'.of)
    BY <2>1, <2>4, NoneFound
  <2>6. refresh.pc = "store" => refresh'.pc = "store"
    BY <2>2, JoinStore
  <2>7. Passes(Nobody, {})
    BY <2>1, StillPasses
  <2> QED
    BY <2>1, <2>5, <2>6, <2>7, ReadsFlow
<1>2. ASSUME NEW c \in Call, ReadCache(c)
      PROVE  ReadsAgree'
  <2>1. /\ allowCached /\ bundle = None /\ refresh = NoRefresh
        /\ wire' = Send(wire, "get", c, None)
        /\ UNCHANGED <<life, allowCached, bundle, timer, refresh, stored>>
    BY <1>2 DEF ReadCache, LooksIntoCache, fields
  <2>2. /\ Flows([n \in DOMAIN wire' |-> 0], {Cmd("get", c, None)})
        /\ Len(wire') = Len(wire) + 1 /\ wire'[Len(wire')] = Cmd("get", c, None)
    BY <2>1, SendFlows DEF Cmd
  <2>3. /\ DOMAIN wire' = 1..Len(wire) + 1 /\ DOMAIN wire = 1..Len(wire) /\ Len(wire) \in Nat
        /\ wire'[Len(wire) + 1].by = c /\ wire'[Len(wire) + 1].op = "get"
    BY <2>2, FlowOrder, WireType DEF Cmd
  <2>4. ASSUME NEW n \in DOMAIN wire
        PROVE  n \in DOMAIN wire' /\ Kept(wire'[n], wire[n])
    BY <2>2, <2>3, <2>4 DEF Flows
  <2>5. \A n \in DOMAIN wire : wire[n].op # "del" /\ wire[n].by # Refresher
    <3>1. refresh.pc # "store"
      BY <2>1 DEF NoRefresh
    <3> QED
      BY <2>1, <3>1 DEF ReadsAgree, OneWaits, Owed
  <2>6. \A n \in DOMAIN wire' : n \in DOMAIN wire \/ n = Len(wire) + 1
    BY <2>3
  <2>7. \A n \in DOMAIN wire' : wire'[n].op # "del" /\ wire'[n].by # Refresher
    BY <2>3, <2>4, <2>5, <2>6, WaiterAssumption DEF Kept
  <2>8. ASSUME life' # "stopped"
        PROVE  timer'.of = None
    <3>1. timer.at # "due"
      BY <2>1 DEF TimerOK
    <3> QED
      BY <2>1, <3>1 DEF TypeOK, Timer
  <2>9. ASSUME life' # "stopped", NEW k \in DOMAIN wire', NEW n \in DOMAIN wire', k < n,
               wire'[k].by \in Call, wire'[n].op = "set"
        PROVE  FALSE
    <3>1. n \in DOMAIN wire /\ wire[n].op = "set"
      BY <2>3, <2>4, <2>6, <2>9 DEF Kept
    <3>2. k \in DOMAIN wire /\ wire[k].by \in Call
      BY <2>3, <2>4, <2>9, <3>1, WaiterAssumption DEF Kept
    <3> QED
      BY <2>1, <2>9, <3>1, <3>2 DEF ReadsAgree, NoRefresh
  <2> QED
    BY <2>1, <2>7, <2>8, <2>9 DEF ReadsAgree, Finds
<1>3. ASSUME NEW c \in Call, CacheAnswers(c)
      PROVE  ReadsAgree'
  <2>1. Passes(c, {})
    BY <1>3, CacheAnswersPasses
  <2>2. UNCHANGED <<life, allowCached, timer, stored>>
    BY <1>3 DEF CacheAnswers, TakeKeys, fields
  <2>3. JoinRefresh \/ UNCHANGED refresh
    BY <1>3 DEF CacheAnswers, TakeKeys
  <2>4. bundle' = bundle \/ (bundle' = stored /\ stored # None)
    BY <1>3 DEF CacheAnswers, TakeKeys, TypeOK, None
  <2>5. ASSUME life # "stopped", bundle' = stored, stored # None
        PROVE  FindsThat(bundle')
    <3>1. 1 \in DOMAIN wire /\ wire[1].by = c
      BY <1>3, HeadFirst DEF CacheAnswers
    <3>2. ASSUME NEW n \in DOMAIN wire, wire[n].by \in Call, NEW m \in 1..n - 1, wire[m].op = "set"
          PROVE  FALSE
      <4>1. m \in DOMAIN wire /\ n \in m + 1..Len(wire) /\ (m = 1 \/ 1 < m)
        BY <3>2, WireType
      <4>2. wire[1].op = "get"
        BY <3>1 DEF OneWaits, Owed
      <4>3. 1 < m
        BY <3>2, <4>1, <4>2
      <4> QED
        BY <2>5, <3>1, <3>2, <4>1, <4>3 DEF ReadsAgree
    <3> QED
      BY <2>5, <3>2 DEF FindsThat, Finds
  <2>6. life' # "stopped" => FindsThat(bundle') /\ FindsThat(timer'.of)
    BY <2>2, <2>4, <2>5
  <2> QED
    BY <2>1, <2>2, <2>3, <2>6, JoinStore, ReadsFlow
<1>4. ASSUME NEW c \in Call, CacheTimesOut(c)
      PROVE  ReadsAgree'
  <2>1. Passes(c, {})
    BY <1>4, CacheTimesOutPasses
  <2>2. UNCHANGED <<life, allowCached, timer, stored, refresh, bundle>>
    BY <1>4 DEF CacheTimesOut, fields
  <2> QED
    BY <2>1, <2>2, ReadsFlow
<1>5. CASE Handshake
  <2>1. PICK w : w = Cmd("set", Refresher, born + 1)
    OBVIOUS
  <2>2. Passes(Nobody, {w})
    BY <1>5, <2>1, HandshakePasses
  <2>3. UNCHANGED <<life, allowCached, timer, stored, bundle>> /\ refresh'.pc = "store"
    BY <1>5 DEF Handshake, fields, TypeOK, Refresh
  <2>4. w.by \notin Call /\ w.op # "del"
    BY <2>1, WaiterAssumption DEF Cmd
  <2> QED
    BY <2>2, <2>3, <2>4, ReadsFlow
<1>6. CASE Publish
  <2>1. PICK D : D = Deleting
    OBVIOUS
  <2>2. Passes(Refresher, D) /\ UNCHANGED allowCached
    BY <1>6, <2>1, PublishPasses DEF Publish
  <2>3. \A n \in DOMAIN wire : wire[n].by \notin Call
    BY <1>6, RefresherFirst DEF Publish
  <2> QED
    BY <2>1, <2>2, <2>3, DrainingBars, NobodyReads
<1>7. CASE RefreshFails
  <2>1. PICK D : D = Deleting
    OBVIOUS
  <2>2. Passes(Refresher, D) /\ UNCHANGED <<life, allowCached, stored, bundle>> /\ refresh # NoRefresh
    BY <1>7, <2>1, RefreshFailsPasses DEF RefreshFails, fields
  <2>3. timer'.of \in {bundle, None}
    BY <1>7, ScheduleParts DEF RefreshFails
  <2>4. \A w \in D : w.by \notin Call /\ w.op = "del" /\ ~allowCached'
    BY <2>1, <2>2, DrainingBars
  <2>5. CASE refresh.pc = "store" /\ ~refresh.aborted
    <3>1. \A n \in DOMAIN wire : wire[n].by \notin Call
      BY <1>7, <2>5, RefresherFirst DEF RefreshFails
    <3> QED
      BY <2>2, <2>4, <3>1, NobodyReads
  <2>6. CASE ~(refresh.pc = "store" /\ ~refresh.aborted)
    <3>1. life' # "stopped" /\ refresh.pc = "store" => ~allowCached'
      BY <2>2, <2>6 DEF RefreshOK
    <3>2. life' # "stopped" => FindsThat(bundle') /\ FindsThat(timer'.of)
      BY <2>2, <2>3, NoneFound
    <3> QED
      BY <2>2, <2>4, <3>1, <3>2, ReadsFlow
  <2> QED
    BY <2>5, <2>6
<1>8. CASE Stop
  <2>1. UNCHANGED <<wire, stored, allowCached>> /\ life' = "stopped"
    BY <1>8 DEF Stop, cache
  <2> QED
    BY <2>1, StillPasses, ReadsFlow
<1>9. ASSUME NEW i \in Invalidation, Invalidate(i)
      PROVE  ReadsAgree'
  <2>1. UNCHANGED <<life, timer, stored>> /\ bundle' = None /\ ~allowCached'
    BY <1>9 DEF Invalidate
  <2>2. PICK added : added = IF refresh = NoRefresh THEN {Cmd("del", i, None)} ELSE {}
    OBVIOUS
  <2>3. Passes(Nobody, added) /\ \A w \in added : w.op # "set" /\ w.by \notin Call
    BY <1>9, <2>2, InvalidatePasses, WaiterAssumption DEF Cmd
  <2> QED
    BY <2>1, <2>3, NoneFound, ReadsFlow
<1>10. ASSUME NEW i \in Invalidation, Invalidated(i)
      PROVE  ReadsAgree'
  <2>1. UNCHANGED <<life, allowCached, refresh>> /\ bundle' = None /\ stored' = None
    BY <1>10 DEF Invalidated, fields
  <2>2. timer'.of = None
    BY <1>10, ScheduleParts DEF Invalidated
  <2>3. Passes(i, {})
    BY <1>10, InvalidatedPasses
  <2> QED
    BY <2>1, <2>2, <2>3, NoneFound, ReadsFlow
<1>11. ASSUME NEW i \in Invalidation, DeleteTimesOut(i)
      PROVE  ReadsAgree'
  <2>1. UNCHANGED <<life, allowCached, refresh, timer, bundle, stored>>
    BY <1>11 DEF DeleteTimesOut, fields
  <2>2. Passes(i, {})
    BY <1>11, DeleteTimesOutPasses
  <2> QED
    BY <2>1, <2>2, ReadsFlow
<1>12. CASE LateCommand
  <2>1. UNCHANGED <<life, allowCached, refresh, timer, bundle>>
    BY <1>12 DEF LateCommand, fields
  <2>2. Passes(Nobody, {})
    BY <1>12, LateCommandPasses
  <2>3. /\ 1 \in DOMAIN wire /\ Head(wire) = wire[1] /\ wire[1].by = Nobody
        /\ wire[1].op \in {"get", "set", "del"} /\ Owed(wire[1])
    BY <1>12, HeadFirst, WireType DEF LateCommand, OneWaits, Command
  <2>4. CASE wire[1].op # "set"
    <3>1. stored' \in {stored, None}
      BY <1>12, <2>3, <2>4 DEF LateCommand, Owed
    <3> QED
      BY <2>1, <2>2, <3>1, ReadsFlow
  <2>5. CASE wire[1].op = "set"
    <3>1. CASE \A n \in DOMAIN wire : wire[n].by \notin Call
      BY <2>1, <2>2, <3>1, NobodyReads
    <3>2. CASE \E n \in DOMAIN wire : wire[n].by \in Call
      <4>1. PICK n \in DOMAIN wire : wire[n].by \in Call
        BY <3>2
      <4>2. 1 \in 1..n - 1
        BY <2>3, <4>1, WireType, WaiterAssumption
      <4>3. ASSUME NEW b, FindsThat(b)
            PROVE  b = None
        BY <2>5, <4>1, <4>2, <4>3 DEF FindsThat, Finds
      <4>4. ReadsFirst'
        BY <2>1, <2>2, FirstFlow, ReadsParts
      <4>5. ASSUME life' # "stopped"
            PROVE  bundle' = None /\ timer'.of = None /\ NoSetBetween'
        <5>1. bundle' = None /\ timer'.of = None /\ NoSetBetween
          BY <2>1, <4>3, <4>5, ReadsParts
        <5> QED
          BY <2>1, <2>2, <5>1, BetweenFlow
      <4> QED
        BY <4>4, <4>5 DEF ReadsAgree, ReadsFirst, NoSetBetween, Finds
    <3> QED
      BY <3>1, <3>2
  <2> QED
    BY <2>4, <2>5
<1> QED
  BY <1>1, <1>2, <1>3, <1>4, <1>5, <1>6, <1>7, <1>8, <1>9, <1>10, <1>11, <1>12 DEF Next

-----------------------------------------------------------------------------
(* The timer. *)

LEMMA TimerParts ==
    ASSUME TypeOK
    PROVE  /\ timer = Off <=> timer.at = "off"
           /\ timer.at # "due" => timer.of = None
           /\ timer.at = "due" => timer.of \in Bundle /\ timer.of # None
BY BundleType DEF TypeOK, Timer, Off, None, Bundle

\* A new schedule for the bundle the session has.
LEMMA Scheduled ==
    ASSUME TypeOK, TypeOK', NEW wait, timer' = Schedule(bundle', wait), life' = life, backoff' = wait,
           wait \in {"none", "waiting"}
    PROVE  TimerOK' /\ RefreshIsPlanned'
<1>1. bundle' \in Bundle \cup {None}
  BY BoundAssumption DEF TypeOK, None, Bundle
<1>2. /\ timer'.of \in {bundle', None}
      /\ timer'.at = "due" => timer'.of = bundle' /\ bundle' # None
      /\ timer'.at # "off" <=> life = "started"
      /\ life = "started" /\ wait # "none" => timer'.at = "backoff"
  BY <1>1, ScheduleParts
<1> QED
  BY <1>2 DEF TimerOK, RefreshIsPlanned, Off

LEMMA TimerStep ==
    ASSUME TypeOK, SessionInv, Next, TypeOK'
    PROVE  TimerOK' /\ RefreshIsPlanned'
<1>0. /\ OneWaits /\ RefreshOK /\ ReadsAgree /\ TimerOK /\ RefreshIsPlanned
      /\ life # "stopped" => FindsThat(bundle) /\ FindsThat(timer.of)
  BY ReadsParts DEF SessionInv
<1> USE <1>0
<1>1. CASE (\E b \in Bundle : BecomesDue(b)) \/ LateCommand \/ (\E i \in Invalidation : DeleteTimesOut(i))
           \/ \E c \in Call : (\E signed \in BOOLEAN : Ask(c, signed)) \/ ReadCache(c) \/ CacheTimesOut(c)
                              \/ KeysRefreshed(c) \/ End(c) \/ Recovered(c)
  <2>1. UNCHANGED <<life, allowCached, bundle, backoff, timer, refresh>>
    BY <1>1 DEF BecomesDue, LateCommand, DeleteTimesOut, Ask, ReadCache, CacheTimesOut, KeysRefreshed, End, Recovered,
           fields
  <2> QED
    BY <2>1 DEF TimerOK, RefreshIsPlanned
<1>2. ASSUME NEW c \in Call, KeysAtHand(c) \/ CacheAnswers(c)
      PROVE  TimerOK' /\ RefreshIsPlanned'
  <2>1. UNCHANGED <<life, allowCached, backoff, timer>> /\ (JoinRefresh \/ UNCHANGED refresh)
    BY <1>2 DEF KeysAtHand, CacheAnswers, TakeKeys, fields
  <2>2. bundle' # bundle => Answers(c) /\ bundle' = stored /\ stored # None
    BY <1>2 DEF KeysAtHand, CacheAnswers, TakeKeys, TypeOK, None
  <2>3. ASSUME bundle' # bundle, life = "started", timer.at = "due"
        PROVE  bundle' = timer.of
    <3>1. 1 \in DOMAIN wire /\ wire[1].by \in Call
      BY <2>2, <2>3, HeadFirst
    <3>2. timer.of # None /\ stored \in {None, timer.of}
      BY <2>3, <3>1, TimerParts DEF FindsThat, Finds
    <3> QED
      BY <2>2, <2>3, <3>2
  <2>4. refresh' = NoRefresh => refresh = NoRefresh
    BY <2>1 DEF JoinRefresh, NoRefresh
  <2>5. TimerOK'
    BY <2>1, <2>2, <2>3 DEF TimerOK
  <2> QED
    BY <2>1, <2>4, <2>5 DEF TimerOK, RefreshIsPlanned
<1>3. ASSUME NEW c \in Call, Rejected(c)
      PROVE  TimerOK' /\ RefreshIsPlanned'
  <2>1. UNCHANGED <<life, allowCached, bundle, backoff, timer>> /\ (JoinRefresh \/ UNCHANGED refresh)
    BY <1>3 DEF Rejected, fields
  <2>2. refresh' = NoRefresh => refresh = NoRefresh
    BY <2>1 DEF JoinRefresh, NoRefresh
  <2> QED
    BY <2>1, <2>2 DEF TimerOK, RefreshIsPlanned
<1>4. CASE Handshake
  <2>1. UNCHANGED <<life, allowCached, bundle, backoff, timer>>
    BY <1>4 DEF Handshake, fields
  <2>2. refresh' # NoRefresh
    <3>1. refresh'.pc = "store"
      BY <1>4 DEF Handshake, TypeOK, Refresh
    <3> QED
      BY <3>1 DEF NoRefresh
  <2> QED
    BY <2>1, <2>2 DEF TimerOK, RefreshIsPlanned
<1>5. CASE Publish
  <2>1. timer' = Schedule(bundle', "none") /\ life' = life /\ backoff' = "none"
    BY <1>5 DEF Publish
  <2> QED
    BY <2>1, Scheduled
<1>6. CASE RefreshFails
  <2>1. timer' = Schedule(bundle', "waiting") /\ life' = life /\ backoff' = "waiting"
    BY <1>6 DEF RefreshFails, fields
  <2> QED
    BY <2>1, Scheduled
<1>7. CASE Configure
  <2>1. timer' = Schedule(bundle', "none") /\ life' = life /\ backoff' = "none"
    BY <1>7 DEF Configure, fields
  <2> QED
    BY <2>1, Scheduled
<1>8. ASSUME NEW i \in Invalidation, Invalidated(i)
      PROVE  TimerOK' /\ RefreshIsPlanned'
  <2>1. timer' = Schedule(bundle', "none") /\ life' = life /\ backoff' = "none"
    BY <1>8 DEF Invalidated, fields
  <2> QED
    BY <2>1, Scheduled
<1>9. CASE TimerFires
  <2>1. timer' = Off /\ JoinRefresh
    BY <1>9 DEF TimerFires
  <2>2. refresh' # NoRefresh
    BY <2>1 DEF JoinRefresh, NoRefresh
  <2> QED
    BY <2>1, <2>2 DEF TimerOK, RefreshIsPlanned, Off
<1>10. CASE Start
  <2>1. timer.at = "off" /\ UNCHANGED timer /\ JoinRefresh
    BY <1>10 DEF Start, TimerOK
  <2>2. refresh' # NoRefresh
    BY <2>1 DEF JoinRefresh, NoRefresh
  <2> QED
    BY <2>1, <2>2 DEF TimerOK, RefreshIsPlanned
<1>11. CASE Stop
  <2>1. timer' = Off /\ life' = "stopped"
    BY <1>11 DEF Stop
  <2> QED
    BY <2>1 DEF TimerOK, RefreshIsPlanned, Off
<1>12. ASSUME NEW i \in Invalidation, Invalidate(i)
       PROVE  TimerOK' /\ RefreshIsPlanned'
  <2>1. UNCHANGED <<life, backoff, timer>> /\ bundle' = None /\ ~allowCached' /\ refresh' = Aborted
    BY <1>12 DEF Invalidate
  <2>2. refresh' = NoRefresh => refresh = NoRefresh
    BY <2>1, AbortedParts
  <2> QED
    BY <2>1, <2>2 DEF TimerOK, RefreshIsPlanned
<1>13. CASE BackoffEnds
  <2>1. UNCHANGED <<life, allowCached, bundle, timer, refresh>> /\ backoff' = "over"
    BY <1>13 DEF BackoffEnds, fields
  <2> QED
    BY <2>1 DEF TimerOK, RefreshIsPlanned
<1> QED
  BY <1>1, <1>2, <1>3, <1>4, <1>5, <1>6, <1>7, <1>8, <1>9, <1>10, <1>11, <1>12, <1>13 DEF Next

-----------------------------------------------------------------------------
(* Requests that were sent. *)

\* Nothing that a request compares itself with changes, and the credentials do not come back from the cache.
LEMMA SentKept ==
    ASSUME TypeOK, SessionInv, NEW c \in Call, Current(c), calls'[c] = calls[c], generation' = generation,
           NEW x, NEW added, Passes(x, added), \A w \in added : w.by \notin Call,
           ~allowCached => ~allowCached',
           bundle' = bundle,
           life # "stopped"
    PROVE  /\ bundle' \in {None, calls'[c].used}
           /\ bundle' = None => ~allowCached' /\ \A n \in DOMAIN wire' : wire'[n].by \notin Call
<1>1. /\ bundle \in {None, calls[c].used}
      /\ bundle = None => ~allowCached /\ \A n \in DOMAIN wire : wire[n].by \notin Call
  BY DEF SessionInv, SentFresh
<1>2. CASE bundle' = bundle /\ bundle # None
  BY <1>1, <1>2
<1>3. CASE bundle' = bundle /\ bundle = None
  <2>1. \A n \in DOMAIN wire : wire[n].by \notin Call
    BY <1>1, <1>3
  <2>2. PICK d \in [DOMAIN wire' -> {0, 1}] : Flows(d, added)
    BY DEF Passes
  <2>3. \A n \in DOMAIN wire' : wire'[n].by \notin Call
    BY <2>1, <2>2, WaiterAssumption DEF Flows, Kept
  <2> QED
    BY <1>1, <1>3, <2>3
<1> QED
  BY <1>2, <1>3

\* A request that is sent now is sent with the present credentials.
LEMMA SentNow ==
    ASSUME TypeOK, NEW call \in CallRecord, NEW b \in 0..born, call.pc # "sent"
    PROVE  /\ Turn(call, b).used \in {None, b}
           /\ WithKeys(call, b).used \in {None, b}
           /\ Recovering(call).pc # "sent" /\ Idle.pc # "sent"
BY DEF Turn, WithKeys, Cookie, Recovering, Idle, CallRecord

\* The steps of a request: it is sent with the present credentials, or not sent.
LEMMA OwnStep ==
    ASSUME TypeOK, SessionInv, NEW c \in Call,
           (\E signed \in BOOLEAN : Ask(c, signed)) \/ ReadCache(c) \/ KeysAtHand(c) \/ CacheAnswers(c)
           \/ CacheTimesOut(c) \/ KeysRefreshed(c) \/ End(c) \/ Rejected(c) \/ Recovered(c)
    PROVE  /\ \E r : calls' = [calls EXCEPT ![c] = r] /\ (r.pc # "sent" \/ r.used \in {None, bundle'})
           /\ generation' = generation /\ life' = life /\ allowCached' = allowCached
<1>0. calls[c] \in CallRecord /\ bundle \in 0..born /\ stored \in 0..born
  BY DEF TypeOK
<1>1. generation' = generation /\ life' = life /\ allowCached' = allowCached
  BY DEF Ask, ReadCache, KeysAtHand, CacheAnswers, TakeKeys, CacheTimesOut, KeysRefreshed, End, Rejected, Recovered,
     fields
<1>2. CASE \E signed \in BOOLEAN : Ask(c, signed)
  <2>1. Turn(Idle, bundle).used \in {None, bundle} /\ [Idle EXCEPT !.pc = "keys", !.signed = TRUE].pc # "sent"
    BY <1>0, SentNow, RecordTypes DEF Idle
  <2> QED
    BY <1>1, <1>2, <2>1 DEF Ask
<1>3. CASE ReadCache(c)
  <2>1. [calls[c] EXCEPT !.pc = "reading"].pc # "sent"
    BY <1>0 DEF CallRecord
  <2> QED
    BY <1>1, <1>3, <2>1 DEF ReadCache
<1>4. CASE KeysAtHand(c) \/ CacheAnswers(c)
  <2>1. PICK b \in 0..born : TakeKeys(c, b)
    BY <1>0, <1>4 DEF KeysAtHand, CacheAnswers
  <2>2. calls[c].pc # "sent"
    <3>1. CASE CacheAnswers(c)
      BY <3>1, HeadFirst DEF CacheAnswers, SessionInv, OneWaits, Owed
    <3>2. CASE KeysAtHand(c)
      BY <3>2 DEF KeysAtHand
    <3> QED
      BY <1>4, <3>1, <3>2
  <2>3. WithKeys(calls[c], b).used \in {None, b} /\ Idle.pc # "sent"
    BY <1>0, <2>2, SentNow
  <2>4. [calls[c] EXCEPT !.pc = "waiting"].pc # "sent"
    BY <1>0 DEF CallRecord
  <2> QED
    BY <1>1, <2>1, <2>3, <2>4 DEF TakeKeys
<1>5. CASE CacheTimesOut(c) \/ End(c)
  BY <1>1, <1>5 DEF CacheTimesOut, End, Idle
<1>6. CASE KeysRefreshed(c) \/ Recovered(c)
  <2>1. calls[c].pc # "sent" /\ bundle' = bundle
    BY <1>6 DEF KeysRefreshed, Recovered
  <2>2. WithKeys(calls[c], bundle).used \in {None, bundle} /\ Turn(calls[c], bundle).used \in {None, bundle}
        /\ Idle.pc # "sent"
    BY <1>0, <2>1, SentNow
  <2> QED
    BY <1>1, <1>6, <2>1, <2>2 DEF KeysRefreshed, Recovered
<1>7. CASE Rejected(c)
  <2> DEFINE call == [calls[c] EXCEPT !.attempts = @ + 1]
  <2>1. call \in CallRecord
    BY <1>0 DEF CallRecord
  <2>2. Recovering(call).pc # "sent" /\ Turn(call, bundle).used \in {None, bundle}
    BY <1>0, <2>1 DEF Recovering, Turn, Cookie, CallRecord
  <2>3. calls' = [calls EXCEPT ![c] = Recovering(call)] \/ calls' = [calls EXCEPT ![c] = Turn(call, bundle)]
    BY <1>7 DEF Rejected
  <2>4. bundle' = bundle
    BY <1>7 DEF Rejected
  <2> QED
    BY <1>1, <2>2, <2>3, <2>4
<1> QED
  BY <1>2, <1>3, <1>4, <1>5, <1>6, <1>7

LEMMA SentStep ==
    ASSUME TypeOK, SessionInv, Next, TypeOK'
    PROVE  SentFresh'
<1>0. /\ OneWaits /\ RefreshOK /\ ReadsAgree /\ SentFresh
      /\ life # "stopped" => FindsThat(bundle)
  BY ReadsParts DEF SessionInv
<1> USE <1>0
<1>1. \A c \in Call : calls'[c].generation <= generation'
  BY GenerationKept
<1> SUFFICES ASSUME life' # "stopped", NEW c \in Call, Current(c)'
             PROVE  /\ bundle' \in {None, calls'[c].used}
                    /\ bundle' = None => ~allowCached' /\ \A n \in DOMAIN wire' : wire'[n].by \notin Call
  BY <1>1 DEF SentFresh
<1>2. calls'[c].pc = "sent" /\ calls'[c].generation = generation' /\ calls'[c].used # None
  BY DEF Current
<1>3. calls[c] \in CallRecord /\ calls[c].generation \in Nat /\ generation \in Nat /\ calls[c].generation <= generation
  BY DEF TypeOK, CallRecord, SentFresh
<1>4. (calls'[c] = calls[c] /\ generation' = generation) => Current(c)
  BY <1>2 DEF Current
<1>5. CASE calls'[c].used \in {None, bundle'}
  BY <1>2, <1>5
<1>6. ASSUME NEW a \in Call,
             (\E signed \in BOOLEAN : Ask(a, signed)) \/ ReadCache(a) \/ KeysAtHand(a) \/ CacheAnswers(a)
             \/ CacheTimesOut(a) \/ KeysRefreshed(a) \/ End(a) \/ Rejected(a) \/ Recovered(a)
      PROVE  /\ bundle' \in {None, calls'[c].used}
             /\ bundle' = None => ~allowCached' /\ \A n \in DOMAIN wire' : wire'[n].by \notin Call
  <2>1. PICK r : calls' = [calls EXCEPT ![a] = r] /\ (r.pc # "sent" \/ r.used \in {None, bundle'})
    BY <1>6, OwnStep
  <2>2. generation' = generation /\ life' = life /\ allowCached' = allowCached
    BY <1>6, OwnStep
  <2>3. CASE a = c
    <3>1. calls'[c] = r
      BY <2>1, <2>3 DEF TypeOK
    <3> QED
      BY <1>2, <1>5, <2>1, <3>1
  <2>4. CASE a # c
    <3>1. calls'[c] = calls[c] /\ Current(c) /\ life # "stopped"
      BY <1>4, <2>1, <2>2, <2>4 DEF TypeOK
    <3>2. bundle = None => ~allowCached /\ \A n \in DOMAIN wire : wire[n].by \notin Call
      BY <3>1 DEF SentFresh
    <3>3. ~ReadCache(a)
      BY <3>2 DEF ReadCache, LooksIntoCache
    <3>4. \E x : Passes(x, {})
      <4>1. CASE ~CacheAnswers(a) /\ ~CacheTimesOut(a)
        <5>1. UNCHANGED wire
          BY <1>6, <3>3, <4>1 DEF Ask, KeysAtHand, KeysRefreshed, End, Rejected, Recovered, cache
        <5> QED
          BY <5>1, StillPasses
      <4> QED
        BY <4>1, CacheAnswersPasses, CacheTimesOutPasses
    <3>5. bundle' = bundle
      <4>1. CASE CacheAnswers(a)
        <5>1. 1 \in DOMAIN wire /\ wire[1].by = a
          BY <4>1, HeadFirst DEF CacheAnswers
        <5>2. bundle # None
          BY <3>2, <5>1
        <5>3. stored \in {None, bundle}
          BY <3>1, <5>1, <5>2 DEF FindsThat, Finds
        <5>4. stored \in fresh => stored # None
          BY DEF TypeOK, None
        <5> QED
          BY <4>1, <5>3, <5>4 DEF CacheAnswers, TakeKeys
      <4>2. CASE ~CacheAnswers(a)
        BY <1>6, <3>3, <4>2 DEF Ask, KeysAtHand, TakeKeys, CacheTimesOut, KeysRefreshed, End, Rejected, Recovered
      <4> QED
        BY <4>1, <4>2
    <3> QED
      BY <2>2, <3>1, <3>4, <3>5, SentKept
  <2> QED
    BY <2>3, <2>4
<1>7. CASE Publish \/ \E i \in Invalidation : Invalidate(i)
  <2>1. generation' = generation + 1
    BY <1>7 DEF Publish, Invalidate
  <2>2. calls'[c].generation = calls[c].generation
    BY <1>3, <1>7 DEF Publish, Invalidate, Told, CallRecord
  <2> QED
    BY <1>2, <1>3, <2>1, <2>2
<1>8. CASE RefreshFails
  <2>1. UNCHANGED <<generation, life, allowCached, bundle>> /\ Told("refused")
    BY <1>8 DEF RefreshFails, fields
  <2>2. calls'[c] = calls[c]
    BY <1>2, <1>3, <2>1 DEF Told, CallRecord
  <2>3. PICK D : D = Deleting
    OBVIOUS
  <2>4. Passes(Refresher, D) /\ \A w \in D : w.by \notin Call
    BY <1>8, <2>1, <2>3, RefreshFailsPasses, DrainingBars
  <2> QED
    BY <1>4, <2>1, <2>2, <2>4, SentKept
<1>9. CASE Handshake
  <2>1. UNCHANGED <<generation, life, allowCached, bundle, calls>>
    BY <1>9 DEF Handshake, fields
  <2>2. PICK w : w = Cmd("set", Refresher, born + 1)
    OBVIOUS
  <2>3. Passes(Nobody, {w}) /\ w.by \notin Call
    BY <1>9, <2>2, HandshakePasses, WaiterAssumption DEF Cmd
  <2> QED
    BY <1>4, <2>1, <2>3, SentKept
<1>10. CASE TimerFires \/ Start \/ Configure \/ BackoffEnds \/ \E b \in Bundle : BecomesDue(b)
  <2>1. UNCHANGED <<generation, allowCached, bundle, calls, wire>> /\ life # "stopped"
    BY <1>10 DEF TimerFires, Start, Configure, BackoffEnds, BecomesDue, fields, cache
  <2> QED
    BY <1>4, <2>1, StillPasses, SentKept
<1>11. CASE Stop
  BY <1>11 DEF Stop
<1>12. ASSUME NEW i \in Invalidation, Invalidated(i)
       PROVE  /\ bundle' \in {None, calls'[c].used}
              /\ bundle' = None => ~allowCached' /\ \A n \in DOMAIN wire' : wire'[n].by \notin Call
  <2>1. UNCHANGED allowCached /\ bundle' = None
    BY <1>12 DEF Invalidated, fields
  <2>2. 1 \in DOMAIN wire /\ wire[1].by = i /\ invalidations[i].pc = "deleting" /\ wire[1].op = "del"
    BY <1>12, HeadFirst DEF Invalidated, OneWaits, Owed
  <2>3. ~allowCached
    BY <2>2 DEF RefreshOK
  <2>4. ASSUME NEW n \in DOMAIN wire, wire[n].by \in Call
        PROVE  FALSE
    <3>1. n # 1 /\ n \in 1..Len(wire)
      BY <2>2, <2>4, WireType, WaiterAssumption
    <3> QED
      BY <2>2, <2>4, <3>1 DEF ReadsAgree
  <2>5. Passes(i, {})
    BY <1>12, InvalidatedPasses
  <2>6. \A n \in DOMAIN wire' : wire'[n].by \notin Call
    BY <2>1, <2>4, <2>5, NobodyReads
  <2> QED
    BY <2>1, <2>3, <2>6
<1>13. ASSUME NEW i \in Invalidation, DeleteTimesOut(i)
       PROVE  /\ bundle' \in {None, calls'[c].used}
              /\ bundle' = None => ~allowCached' /\ \A n \in DOMAIN wire' : wire'[n].by \notin Call
  <2>1. UNCHANGED <<generation, life, allowCached, bundle, calls>>
    BY <1>13 DEF DeleteTimesOut, fields
  <2> QED
    BY <1>4, <1>13, <2>1, DeleteTimesOutPasses, SentKept
<1>14. CASE LateCommand
  <2>1. UNCHANGED <<generation, life, allowCached, bundle, calls>>
    BY <1>14 DEF LateCommand, fields
  <2> QED
    BY <1>4, <1>14, <2>1, LateCommandPasses, SentKept
<1> QED
  BY <1>6, <1>7, <1>8, <1>9, <1>10, <1>11, <1>12, <1>13, <1>14 DEF Next

-----------------------------------------------------------------------------
(* The theorems. *)

LEMMA InvStep == TypeOK /\ SessionInv /\ [Next]_vars => (TypeOK /\ SessionInv)'
<1> SUFFICES ASSUME TypeOK, SessionInv, [Next]_vars
             PROVE  (TypeOK /\ SessionInv)'
  OBVIOUS
<1>1. CASE Next
  <2>1. TypeOK'
    BY <1>1, TypeStep
  <2>2. OneWaits' /\ RefreshOK' /\ DroppedForGood' /\ ReadsAgree'
    BY <1>1, OneWaitsStep, RefreshStep, DroppedStep, ReadsStep
  <2>3. TimerOK' /\ RefreshIsPlanned' /\ SentFresh'
    BY <1>1, <2>1, TimerStep, SentStep
  <2> QED
    BY <2>1, <2>2, <2>3 DEF SessionInv
<1>2. CASE UNCHANGED vars
  <2> USE DEF vars, fields, cache, bundles, history
  <2>1. TypeOK'
    BY <1>2 DEF TypeOK
  <2>2. OneWaits' /\ RefreshOK'
    BY <1>2 DEF SessionInv, OneWaits, Owed, RefreshOK
  <2>3. DroppedForGood'
    BY <1>2 DEF SessionInv, DroppedForGood, InvalidatedStaysOut
  <2>4. ReadsAgree'
    BY <1>2 DEF SessionInv, ReadsAgree, Finds
  <2>5. TimerOK' /\ SentFresh' /\ RefreshIsPlanned'
    BY <1>2 DEF SessionInv, TimerOK, SentFresh, Current, RefreshIsPlanned
  <2> QED
    BY <2>1, <2>2, <2>3, <2>4, <2>5 DEF SessionInv
<1> QED
  BY <1>1, <1>2

\* The invariant of the session: who waits for which command, and what is left of the past.
THEOREM SessionInvAlways == Spec => [](TypeOK /\ SessionInv)
<1>1. Init => TypeOK /\ SessionInv
  BY InitInv
<1>2. TypeOK /\ SessionInv /\ [Next]_vars => (TypeOK /\ SessionInv)'
  BY InvStep
<1> QED
  BY <1>1, <1>2, PTL DEF Spec

\* The session, the refresh, the requests and the queue of commands keep their types, whatever happens in between.
THEOREM TypeCorrect == Spec => []TypeOK
BY SessionInvAlways, PTL

\* Once invalidate has returned, nothing brings back credentials that were asked for before: not a refresh that was
\* under way, not a read of the cache, not a set that was given up and comes late.
THEOREM InvalidatedStaysOutAlways == Spec => []InvalidatedStaysOut
<1>1. SessionInv => InvalidatedStaysOut
  BY DEF SessionInv, DroppedForGood
<1> QED
  BY <1>1, SessionInvAlways, PTL

\* A session that runs is refreshing or has set its timer, for the right time.
THEOREM RefreshIsPlannedAlways == Spec => []RefreshIsPlanned
<1>1. SessionInv => RefreshIsPlanned
  BY DEF SessionInv
<1> QED
  BY <1>1, SessionInvAlways, PTL

\* A rejected request starts a refresh only if it was sent with the present bundle, or there is none.
THEOREM RecoverySparesFreshAlways == Spec => RecoverySparesFresh
<1> DEFINE Spares ==
        \A c \in Call : calls[c].pc = "sent" /\ calls'[c].pc = "waiting" /\ refresh = NoRefresh
            /\ life # "stopped" => calls[c].used \in {None, bundle} \/ bundle = None
<1>1. TypeOK /\ SessionInv /\ [Next]_vars => [Spares]_vars
  <2> SUFFICES ASSUME TypeOK, SessionInv, Next, NEW c \in Call, calls[c].pc = "sent", calls'[c].pc = "waiting",
                      refresh = NoRefresh, life # "stopped"
               PROVE  calls[c].used \in {None, bundle} \/ bundle = None
    OBVIOUS
  <2>1. calls[c] \in CallRecord /\ calls'[c] # calls[c]
    BY DEF TypeOK
  <2>2. CASE \E a \in Call :
            (\E signed \in BOOLEAN : Ask(a, signed)) \/ ReadCache(a) \/ KeysAtHand(a) \/ CacheAnswers(a)
            \/ CacheTimesOut(a) \/ KeysRefreshed(a) \/ End(a) \/ Recovered(a)
    <3>1. PICK a \in Call :
            (\E signed \in BOOLEAN : Ask(a, signed)) \/ ReadCache(a) \/ KeysAtHand(a) \/ CacheAnswers(a)
            \/ CacheTimesOut(a) \/ KeysRefreshed(a) \/ End(a) \/ Recovered(a)
      BY <2>2
    <3>2. \E r : calls' = [calls EXCEPT ![a] = r]
      BY <3>1 DEF Ask, ReadCache, KeysAtHand, CacheAnswers, TakeKeys, CacheTimesOut, KeysRefreshed, End, Recovered
    <3>3. a = c
      BY <2>1, <3>2 DEF TypeOK
    <3>4. ~CacheAnswers(c)
      BY HeadFirst DEF CacheAnswers, SessionInv, OneWaits, Owed
    <3>5. End(c)
      BY <3>1, <3>3, <3>4 DEF Ask, ReadCache, KeysAtHand, CacheTimesOut, KeysRefreshed, Recovered
    <3>6. calls'[c] = Idle
      BY <3>5 DEF End, TypeOK
    <3> QED
      BY <3>6 DEF Idle
  <2>3. CASE \E a \in Call : Rejected(a)
    <3>1. PICK a \in Call : Rejected(a)
      BY <2>3
    <3>2. a = c
      BY <2>1, <3>1 DEF Rejected, TypeOK
    <3> DEFINE call == [calls[c] EXCEPT !.attempts = @ + 1]
    <3>3. call \in CallRecord /\ call.generation = calls[c].generation
      BY <2>1 DEF CallRecord
    <3>4. Turn(call, bundle).pc # "waiting"
      BY <3>3, TurnPc
    <3>5. \/ call.generation = generation
          \/ calls' = [calls EXCEPT ![c] = Turn(call, bundle)]
      BY <3>1, <3>2 DEF Rejected
    <3>6. calls[c].generation = generation
      BY <3>3, <3>4, <3>5 DEF TypeOK
    <3> QED
      BY <3>6 DEF SessionInv, SentFresh, Current
  <2>4. CASE Publish \/ RefreshFails
    BY <2>1, <2>4 DEF Publish, RefreshFails, Told
  <2>5. CASE UNCHANGED calls
    BY <2>1, <2>5
  <2> QED
    BY <2>2, <2>3, <2>4, <2>5 DEF Next, Handshake, TimerFires, Start, Stop, Configure, Invalidate, Invalidated,
       DeleteTimesOut, LateCommand, BackoffEnds, BecomesDue
<1> QED
  BY <1>1, SessionInvAlways, PTL DEF Spec, RecoverySparesFresh
====
