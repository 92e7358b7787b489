--------------------------- MODULE Windows_proofs ---------------------------
(***************************************************************************)
(* What is proved of the Windows inputs and outputs.  The channel collector*)
(* (Winevt) sends in the order of the log and leaves nothing behind its    *)
(* cursor, for batches, channels, logs and a cap of any size.  The record  *)
(* time of the EVTX writer (EvtxTime) is right on every date from 1601 on, *)
(* at every time of day and offset; the walk of its runs ends in 2001.     *)
(* The two views of an event (Events) keep what a rule can match, of any   *)
(* document that is a tree, and a rule is evaluated on the events of its   *)
(* category or service, whatever the documents, rules and custom channels. *)
(***************************************************************************)
EXTENDS Winevt, Events, EvtxTime, TLAPS, WellFoundedInduction, FiniteSetTheorems

Pairs == Nat \X Nat

Types ==
  /\ log \in Nat /\ newest \in Nat
  /\ last_record_id \in Nat /\ cursorLog \in Nat
  /\ pos \in Pairs /\ batch \in Seq(Pairs) /\ sent \in Seq(Pairs)
  /\ pc \in {"query", "fetch", "event", "sending", "ended"}

\* The open events are the last ones the handle gave, all after the cursor; the
\* one that waits for the channel is the one the cursor is at.
BatchIsInOrder ==
  /\ pc \in {"query", "fetch"} => batch = <<>>
  /\ pc = "event" =>
       /\ query_handle /\ Len(batch) > 0
       /\ last_record_id <= pos[2] - Len(batch)
       /\ \A i \in 1 .. Len(batch) : batch[i] = <<pos[1], pos[2] - Len(batch) + i>>
  /\ pc = "sending" =>
       /\ Len(batch) = 1 /\ batch[1] = <<cursorLog, last_record_id>>
       /\ cursorLog = pos[1]

\* What the cursor and the handle say of the log: an id of this log is in it.
CursorIsInTheLog ==
  /\ pos[1] <= log /\ cursorLog <= log
  /\ query_handle => last_record_id <= pos[2]
  /\ cursorLog = log => last_record_id <= newest
  /\ pc = "event" /\ pos[1] = log => pos[2] <= newest

\* What was sent is behind the handle, the open events and the cursor.
SentIsBehind ==
  \A j \in 1 .. Len(sent) :
    /\ sent[j][1] <= pos[1]
    /\ sent[j][1] = log => cursorLog = log /\ sent[j][2] <= last_record_id
    /\ query_handle /\ sent[j][1] = pos[1] =>
         sent[j][2] <= pos[2] - (IF pc = "event" THEN Len(batch) ELSE 0)
    /\ pc = "sending" /\ sent[j][1] = pos[1] => sent[j][2] < last_record_id

Ordered ==
  \A i, j \in 1 .. Len(sent) : i < j =>
    \/ sent[i][1] < sent[j][1]
    \/ sent[i][1] = sent[j][1] /\ sent[i][2] < sent[j][2]

OrderInv == Types /\ BatchIsInOrder /\ CursorIsInTheLog /\ SentIsBehind /\ Ordered

\* What the handle passed is sent, or open, or one of the known gaps.
Passed == Range(sent) \cup unrendered \cup outgrown

HandleSkipsNothing ==
  query_handle /\ ~capped /\ pc # "ended" =>
    \A i \in 1 .. pos[2] : <<pos[1], i>> \in Passed \cup Range(batch)

-----------------------------------------------------------------------------
\* The smaller of two.
LEMMA MinOfTwo ==
  ASSUME NEW a \in Int, NEW b \in Int
  PROVE  /\ Min({a, b}) \in {a, b}
         /\ Min({a, b}) <= a /\ Min({a, b}) <= b
<1>1. \E x \in {a, b} : \A y \in {a, b} : x <= y
  <2>1. CASE a <= b
    BY <2>1
  <2>2. CASE b <= a
    BY <2>2
  <2> QED
    BY <2>1, <2>2
<1> QED
  BY <1>1 DEF Min

\* Before anything was read.
LEMMA InitOrder == Init => OrderInv
<1> SUFFICES ASSUME Init PROVE OrderInv
  OBVIOUS
<1> USE DEF Init
<1>1. Types
  BY WinevtAssumption DEF Types, Pairs
<1>2. BatchIsInOrder
  BY DEF BatchIsInOrder
<1>3. CursorIsInTheLog
  BY DEF CursorIsInTheLog
<1>4. SentIsBehind /\ Ordered
  BY DEF SentIsBehind, Ordered
<1> QED
  BY <1>1, <1>2, <1>3, <1>4 DEF OrderInv

\* What leaves the cursor, the handle and what was sent alone, and opens or
\* closes nothing.
LEMMA QuietOrder ==
  ASSUME OrderInv, UNCHANGED <<log, cursor, query_handle, pos, batch, sent>>,
         newest' >= newest, newest' \in Nat,
         pc' = pc \/ pc' = "ended" \/ {pc, pc'} \subseteq {"query", "fetch"}
  PROVE  OrderInv'
<1> USE DEF OrderInv, cursor
<1>1. Types'
  BY DEF Types
<1>2. BatchIsInOrder'
  BY DEF BatchIsInOrder
<1>3. CursorIsInTheLog'
  BY DEF CursorIsInTheLog, Types, Pairs
<1>4. SentIsBehind'
  <2>1. pos \in Pairs /\ Len(batch) \in Nat /\ sent \in Seq(Pairs)
    BY DEF Types
  <2> SUFFICES ASSUME NEW j \in 1 .. Len(sent)
               PROVE  query_handle /\ sent[j][1] = pos[1] =>
                        sent[j][2] <= pos[2] - (IF pc' = "event" THEN Len(batch) ELSE 0)
    BY DEF SentIsBehind
  <2>2. sent[j] \in Pairs
    BY <2>1
  <2> QED
    BY <2>1, <2>2 DEF SentIsBehind, Pairs
<1>5. Ordered'
  BY DEF Ordered
<1> QED
  BY <1>1, <1>2, <1>3, <1>4, <1>5

\* An event of the record that was sent, or is open, is a pair of numbers.
LEMMA EventTypes ==
  ASSUME NEW s \in Seq(Pairs), NEW i \in 1 .. Len(s)
  PROVE  s[i] \in Pairs /\ s[i][1] \in Nat /\ s[i][2] \in Nat
BY DEF Pairs

\* A new log: whatever was sent, or is open, is of a log before it.
LEMMA ClearLogOrder == OrderInv /\ ClearLog => OrderInv'
<1> SUFFICES ASSUME OrderInv, ClearLog PROVE OrderInv'
  OBVIOUS
<1> USE DEF OrderInv, ClearLog, query, cursor
<1>1. Types'
  BY DEF Types
<1>2. BatchIsInOrder' /\ Ordered'
  BY DEF BatchIsInOrder, Ordered
<1>3. CursorIsInTheLog'
  BY DEF CursorIsInTheLog, Types, Pairs
<1>4. SentIsBehind'
  <2> SUFFICES ASSUME NEW j \in 1 .. Len(sent) PROVE sent[j][1] # log'
    BY DEF SentIsBehind
  <2>1. sent[j][1] \in Nat /\ sent[j][1] <= pos[1] /\ pos[1] <= log
    BY EventTypes DEF SentIsBehind, CursorIsInTheLog, Types
  <2>2. log' = log + 1 /\ log \in Nat /\ pos[1] \in Nat
    BY DEF Types, Pairs
  <2> HIDE DEF OrderInv, ClearLog
  <2> QED
    BY <2>1, <2>2
<1> QED
  BY <1>1, <1>2, <1>3, <1>4

\* A new query starts at the cursor, where everything of this log was sent.
LEMMA OpenQueryOrder == OrderInv /\ OpenQuery => OrderInv'
<1> SUFFICES ASSUME OrderInv, OpenQuery PROVE OrderInv'
  OBVIOUS
<1> USE DEF OrderInv, OpenQuery, external, cursor
<1>1. Types'
  BY DEF Types, Pairs
<1>2. BatchIsInOrder' /\ Ordered'
  BY DEF BatchIsInOrder, Ordered
<1>3. CursorIsInTheLog'
  BY DEF CursorIsInTheLog, Types
<1>4. SentIsBehind'
  <2> SUFFICES ASSUME NEW j \in 1 .. Len(sent)
               PROVE  sent[j][1] <= log /\ (sent[j][1] = log => sent[j][2] <= last_record_id - 0)
    BY DEF SentIsBehind
  <2>1. sent[j][1] \in Nat /\ sent[j][1] <= pos[1] /\ pos[1] <= log
    BY EventTypes DEF SentIsBehind, CursorIsInTheLog, Types
  <2> QED
    BY <2>1 DEF SentIsBehind, Types, Pairs
<1> QED
  BY <1>1, <1>2, <1>3, <1>4

\* A failed query moves nothing but its text.
LEMMA QueryFailsOrder == OrderInv /\ QueryFails => OrderInv'
<1> SUFFICES ASSUME OrderInv, QueryFails PROVE OrderInv'
  OBVIOUS
<1> USE DEF OrderInv, QueryFails, external, cursor
<1>1. Types'
  BY DEF Types
<1>2. BatchIsInOrder' /\ Ordered'
  BY DEF BatchIsInOrder, Ordered
<1>3. CursorIsInTheLog' /\ SentIsBehind'
  BY DEF CursorIsInTheLog, SentIsBehind
<1> QED
  BY <1>1, <1>2, <1>3

\* The cursor is reset when the newest record of the log is before it: the
\* cursor is then of an earlier log, and nothing of this one was sent.
LEMMA AfterCycleOrder == OrderInv /\ pc = "fetch" /\ AfterCycle => OrderInv'
<1> SUFFICES ASSUME OrderInv, pc = "fetch", AfterCycle PROVE OrderInv'
  OBVIOUS
<1> USE DEF AfterCycle, external, query, cursor
<1>1. CASE UNCHANGED cursor
  <2>1. newest' >= newest /\ newest' \in Nat
    BY DEF OrderInv, Types
  <2>2. UNCHANGED <<log, cursor, query_handle, pos, batch, sent>>
    BY <1>1
  <2> QED
    BY <2>1, <2>2, QuietOrder
<1>2. CASE ~UNCHANGED cursor
  <2>1. Probe
    BY <1>2 DEF AfterIdleCycle
  <2>2. PICK max \in {0, newest} : IF ShouldReset(max)
                                   THEN last_record_id' = 0 /\ cursorLog' = 0
                                   ELSE UNCHANGED cursor
    BY <2>1 DEF Probe
  <2>3. last_record_id' = 0 /\ cursorLog' = 0 /\ newest < last_record_id
    BY <1>2, <2>2 DEF ShouldReset
  <2>4. cursorLog # log
    BY <2>3 DEF OrderInv, CursorIsInTheLog, Types
  <2> USE DEF OrderInv
  <2>5. Types'
    BY <2>3 DEF Types
  <2>6. BatchIsInOrder' /\ Ordered'
    BY DEF BatchIsInOrder, Ordered
  <2>7. CursorIsInTheLog'
    BY <2>3 DEF CursorIsInTheLog, Types, Pairs
  <2>8. SentIsBehind'
    BY <2>3, <2>4 DEF SentIsBehind
  <2> QED
    BY <2>5, <2>6, <2>7, <2>8
<1> QED
  BY <1>1, <1>2

\* The next events of the log, after what the handle gave before.
LEMMA Fetched ==
  ASSUME OrderInv, Fetch
  PROVE  /\ query_handle /\ pos[1] = log
         /\ \E n \in Nat \ {0} :
              /\ n <= newest - pos[2]
              /\ batch' = [i \in 1 .. n |-> <<log, pos[2] + i>>]
              /\ pos' = <<log, pos[2] + n>>
              /\ batch' \in Seq(Pairs) /\ Len(batch') = n
<1> USE DEF OrderInv
<1> DEFINE n == Min({BatchSize, newest - pos[2]})
<1>1. pos[2] \in Nat /\ newest \in Nat /\ log \in Nat
  BY DEF Types, Pairs
<1>2. query_handle /\ pos[1] = log /\ pos[2] < newest
  BY DEF Fetch, Available, Stale
<1>3. n \in Nat \ {0} /\ n <= newest - pos[2]
  <2>1. BatchSize \in Nat \ {0} /\ newest - pos[2] \in Nat \ {0}
    BY <1>1, <1>2, WinevtAssumption
  <2>2. PICK left \in Nat \ {0} : left = newest - pos[2]
    BY <2>1
  <2>3. Min({BatchSize, left}) \in {BatchSize, left} /\ Min({BatchSize, left}) <= left
    <3>1. BatchSize \in Int /\ left \in Int
      BY <2>1, <2>2
    <3> QED
      BY <3>1, MinOfTwo, Zenon
  <2>4. n = Min({BatchSize, left})
    BY <2>2
  <2> QED
    BY <2>1, <2>2, <2>3, <2>4
<1> HIDE DEF n
<1>4. batch' = [i \in 1 .. n |-> <<log, pos[2] + i>>] /\ pos' = <<log, pos[2] + n>>
  BY DEF Fetch, n
<1>5. batch' \in Seq(Pairs) /\ Len(batch') = n
  <2>1. \A i \in 1 .. n : <<log, pos[2] + i>> \in Pairs
    BY <1>1 DEF Pairs
  <2> QED
    BY <1>3, <1>4, <2>1
<1> QED
  BY <1>2, <1>3, <1>4, <1>5

\* A batch follows the handle's position, and all of it follows the cursor.
LEMMA FetchOrder == OrderInv /\ Fetch => OrderInv'
<1> SUFFICES ASSUME OrderInv, Fetch PROVE OrderInv'
  OBVIOUS
<1> USE DEF OrderInv, external, cursor
<1>1. pos \in Pairs /\ pos[1] \in Nat /\ pos[2] \in Nat /\ newest \in Nat /\ log \in Nat
  BY DEF Types, Pairs
<1>2. query_handle /\ pos[1] = log
  BY Fetched
<1>3. PICK n \in Nat \ {0} :
        /\ n <= newest - pos[2]
        /\ batch' = [i \in 1 .. n |-> <<log, pos[2] + i>>]
        /\ pos' = <<log, pos[2] + n>>
        /\ batch' \in Seq(Pairs) /\ Len(batch') = n
  BY Fetched
<1>4. Types'
  BY <1>1, <1>3 DEF Fetch, Types, Pairs
<1>5. BatchIsInOrder'
  <2>1. last_record_id <= pos'[2] - Len(batch')
    BY <1>1, <1>2, <1>3 DEF CursorIsInTheLog
  <2>2. ASSUME NEW i \in 1 .. Len(batch')
        PROVE  batch'[i] = <<pos'[1], pos'[2] - Len(batch') + i>>
    BY <1>1, <1>3
  <2>3. pc' = "event" /\ query_handle' /\ last_record_id' = last_record_id
    BY <1>2 DEF Fetch
  <2> QED
    BY <1>3, <2>1, <2>2, <2>3 DEF BatchIsInOrder
<1>6. CursorIsInTheLog'
  BY <1>1, <1>2, <1>3 DEF Fetch, CursorIsInTheLog, Types
<1>7. SentIsBehind'
  <2> SUFFICES ASSUME NEW j \in 1 .. Len(sent)
      PROVE  /\ sent[j][1] <= pos'[1]
             /\ sent[j][1] = log => cursorLog = log /\ sent[j][2] <= last_record_id
             /\ sent[j][1] = pos'[1] => sent[j][2] <= pos'[2] - Len(batch')
    BY DEF Fetch, SentIsBehind
  <2>1. sent[j][1] \in Nat /\ sent[j][2] \in Nat
    BY EventTypes DEF Types
  <2>2. pc = "fetch"
    BY DEF Fetch
  <2> QED
    BY <1>1, <1>2, <1>3, <2>1, <2>2 DEF SentIsBehind
<1>8. Ordered'
  BY DEF Fetch, Ordered
<1> QED
  BY <1>4, <1>5, <1>6, <1>7, <1>8

\* The first of the open events, and what is left after it.
LEMMA NextEvent ==
  ASSUME OrderInv, pc = "event"
  PROVE  /\ Event = <<pos[1], pos[2] - Len(batch) + 1>>
         /\ Event \in Pairs
         /\ last_record_id < Event[2] /\ Event[2] <= pos[2]
         /\ Tail(batch) \in Seq(Pairs) /\ Len(Tail(batch)) = Len(batch) - 1
         /\ \A i \in 1 .. Len(Tail(batch)) :
              Tail(batch)[i] = <<pos[1], pos[2] - Len(Tail(batch)) + i>>
<1> USE DEF OrderInv
<1>1. /\ batch \in Seq(Pairs) /\ Len(batch) \in Nat \ {0}
      /\ pos[1] \in Nat /\ pos[2] \in Nat /\ last_record_id \in Nat
      /\ last_record_id <= pos[2] - Len(batch)
      /\ \A i \in 1 .. Len(batch) : batch[i] = <<pos[1], pos[2] - Len(batch) + i>>
  BY DEF Types, BatchIsInOrder, Pairs
<1>2. Event = <<pos[1], pos[2] - Len(batch) + 1>>
  BY <1>1 DEF Event
<1>3. Tail(batch) \in Seq(Pairs) /\ Len(Tail(batch)) = Len(batch) - 1
  BY <1>1
<1>4. ASSUME NEW i \in 1 .. Len(Tail(batch))
      PROVE  Tail(batch)[i] = <<pos[1], pos[2] - Len(Tail(batch)) + i>>
  <2>1. Tail(batch)[i] = batch[i + 1] /\ i + 1 \in 1 .. Len(batch)
    BY <1>1, <1>3
  <2>2. pos[2] - Len(batch) + (i + 1) = pos[2] - Len(Tail(batch)) + i
    <3>1. PICK k \in Nat \ {0} : k = Len(batch)
      BY <1>1
    <3>2. i \in Nat
      BY <1>1, <1>3
    <3>3. PICK p \in Nat : p = pos[2]
      BY <1>1
    <3>4. p - k + (i + 1) = p - (k - 1) + i
      BY <3>2
    <3> QED
      BY <1>3, <3>1, <3>3, <3>4
  <2>3. batch[i + 1] = <<pos[1], pos[2] - Len(batch) + (i + 1)>>
    BY <1>1, <2>1
  <2> QED
    BY <2>1, <2>2, <2>3
<1>5. /\ Event \in Pairs
      /\ last_record_id < Event[2] /\ Event[2] <= pos[2]
  <2>1. PICK k \in Nat \ {0} : k = Len(batch)
    BY <1>1
  <2>2. PICK p \in Nat : p = pos[2]
    BY <1>1
  <2>3. PICK e : e = p - k + 1
    OBVIOUS
  <2>4. last_record_id \in Nat /\ last_record_id <= p - k /\ pos[1] \in Nat
    BY <1>1, <2>1, <2>2
  <2>5. e \in Nat /\ last_record_id < e /\ e <= p
    BY <2>3, <2>4
  <2>6. Event = <<pos[1], e>>
    BY <1>2, <2>1, <2>2, <2>3
  <2> QED
    BY <2>2, <2>4, <2>5, <2>6 DEF Pairs
<1> QED
  BY <1>2, <1>3, <1>4, <1>5

\* A batch without events is empty.
LEMMA EmptyOrLonger ==
  ASSUME NEW s \in Seq(Pairs)
  PROVE  Len(s) \in Nat /\ (s = <<>> <=> Len(s) = 0)
OBVIOUS

\* The rest of the batch is still what the handle gave last, if there is a rest.
LEMMA DropEventOrder == OrderInv /\ DropEvent => OrderInv'
<1> SUFFICES ASSUME OrderInv, DropEvent PROVE OrderInv'
  OBVIOUS
<1> USE DEF OrderInv, DropEvent, external, query, cursor
<1>1. /\ Tail(batch) \in Seq(Pairs) /\ Len(Tail(batch)) = Len(batch) - 1
      /\ \A i \in 1 .. Len(Tail(batch)) :
           Tail(batch)[i] = <<pos[1], pos[2] - Len(Tail(batch)) + i>>
  BY NextEvent
<1>2. Len(batch) \in Nat \ {0} /\ pos[2] \in Nat /\ last_record_id \in Nat /\ query_handle
  BY DEF Types, Pairs, BatchIsInOrder
<1>3. batch' = Tail(batch) /\ (batch' # <<>> <=> Len(batch') > 0)
  <2>1. batch' = Tail(batch)
    OBVIOUS
  <2>2. Len(Tail(batch)) \in Nat /\ (Tail(batch) = <<>> <=> Len(Tail(batch)) = 0)
    BY <1>1, EmptyOrLonger, Zenon
  <2>3. Tail(batch) # <<>> <=> Len(Tail(batch)) > 0
    <3>1. PICK k \in Nat : k = Len(Tail(batch))
      BY <2>2, Zenon
    <3> HIDE DEF OrderInv, DropEvent
    <3> QED
      BY <2>2, <3>1
  <2> QED
    BY <2>1, <2>3, Zenon
<1>4. Types'
  BY <1>1, <1>3 DEF Types
<1>5. BatchIsInOrder'
  <2>1. last_record_id <= pos[2] - Len(batch')
    BY <1>1, <1>2, <1>3 DEF BatchIsInOrder
  <2> QED
    BY <1>1, <1>2, <1>3, <2>1 DEF BatchIsInOrder
<1>6. CursorIsInTheLog'
  BY DEF CursorIsInTheLog
<1>7. SentIsBehind'
  <2> SUFFICES ASSUME NEW j \in 1 .. Len(sent), sent[j][1] = pos[1]
      PROVE  sent[j][2] <= pos[2] - (IF pc' = "event" THEN Len(batch') ELSE 0)
    BY DEF SentIsBehind
  <2>1. sent[j][2] \in Nat
    BY EventTypes DEF Types
  <2>2. sent[j][2] <= pos[2] - Len(batch)
    BY <1>2 DEF SentIsBehind
  <2>3. Len(batch) \in Nat /\ Len(batch') \in Nat /\ pos[2] \in Nat
    BY <1>1, <1>2, <1>3
  <2> HIDE DEF OrderInv, DropEvent, external, query, cursor
  <2> QED
    BY <1>1, <1>2, <1>3, <2>1, <2>2, <2>3
<1>8. Ordered'
  BY DEF Ordered
<1> QED
  BY <1>4, <1>5, <1>6, <1>7, <1>8

\* Any open event is after the cursor, so that the cursor always moves.
LEMMA CursorMoves ==
  ASSUME OrderInv, pc = "event", MoveCursor
  PROVE  last_record_id' = Event[2] /\ cursorLog' = pos[1] /\ Event[1] = pos[1]
BY NextEvent DEF MoveCursor

\* One more event at the end of what was sent.
LEMMA SentOneMore ==
  ASSUME Types, SentIsBehind, Ordered, NEW e \in Pairs, sent' = Append(sent, e),
         \A j \in 1 .. Len(sent) : sent[j][1] < e[1] \/ (sent[j][1] = e[1] /\ sent[j][2] < e[2])
  PROVE  /\ sent' \in Seq(Pairs) /\ Len(sent') = Len(sent) + 1 /\ Ordered'
         /\ \A j \in 1 .. Len(sent) : sent'[j] = sent[j]
         /\ sent'[Len(sent')] = e
<1>1. sent \in Seq(Pairs) /\ Len(sent) \in Nat
  BY DEF Types
<1>2. /\ sent' \in Seq(Pairs) /\ Len(sent') = Len(sent) + 1
      /\ \A j \in 1 .. Len(sent) : sent'[j] = sent[j]
      /\ sent'[Len(sent')] = e
  BY <1>1
<1>3. Ordered'
  <2> SUFFICES ASSUME NEW i \in 1 .. Len(sent'), NEW j \in 1 .. Len(sent'), i < j
      PROVE  \/ sent'[i][1] < sent'[j][1]
             \/ sent'[i][1] = sent'[j][1] /\ sent'[i][2] < sent'[j][2]
    BY DEF Ordered
  <2>1. i \in 1 .. Len(sent) /\ sent'[i] = sent[i]
    BY <1>1, <1>2
  <2>2. CASE j \in 1 .. Len(sent)
    BY <1>2, <2>1, <2>2 DEF Ordered
  <2>3. CASE j = Len(sent')
    BY <1>2, <2>1, <2>3
  <2> QED
    BY <1>1, <1>2, <2>2, <2>3
<1> QED
  BY <1>2, <1>3

\* Everything that was sent is before the event at hand.
LEMMA SentBeforeEvent ==
  ASSUME OrderInv, pc = "event", NEW j \in 1 .. Len(sent)
  PROVE  /\ sent[j][1] \in Nat /\ sent[j][2] \in Nat
         /\ sent[j][1] <= pos[1]
         /\ sent[j][1] = pos[1] => sent[j][2] < Event[2]
<1>1. sent[j][1] \in Nat /\ sent[j][2] \in Nat
  BY EventTypes DEF OrderInv, Types
<1>2. /\ sent[j][1] <= pos[1]
      /\ sent[j][1] = pos[1] => sent[j][2] <= pos[2] - Len(batch)
  BY DEF OrderInv, SentIsBehind, BatchIsInOrder
<1>3. pos[2] \in Nat /\ Len(batch) \in Nat /\ Event[2] = pos[2] - Len(batch) + 1
  BY NextEvent DEF OrderInv, Types, Pairs
<1> QED
  BY <1>1, <1>2, <1>3

\* The event sent is after all that was sent before.
LEMMA TrySendOrder == OrderInv /\ TrySend => OrderInv'
<1> SUFFICES ASSUME OrderInv, TrySend PROVE OrderInv'
  OBVIOUS
<1> USE DEF OrderInv, TrySend, external, query
<1>1. /\ Event = <<pos[1], pos[2] - Len(batch) + 1>> /\ Event \in Pairs
      /\ last_record_id < Event[2] /\ Event[2] <= pos[2]
      /\ Tail(batch) \in Seq(Pairs) /\ Len(Tail(batch)) = Len(batch) - 1
      /\ \A i \in 1 .. Len(Tail(batch)) :
           Tail(batch)[i] = <<pos[1], pos[2] - Len(Tail(batch)) + i>>
  BY NextEvent
<1>2. last_record_id' = Event[2] /\ cursorLog' = pos[1] /\ Event[1] = pos[1]
  BY CursorMoves
<1>3. /\ Len(batch) \in Nat \ {0} /\ pos[1] \in Nat /\ pos[2] \in Nat
      /\ query_handle /\ Event[1] \in Nat /\ Event[2] \in Nat /\ log \in Nat /\ newest \in Nat
      /\ pos[1] <= log /\ (pos[1] = log => pos[2] <= newest)
  BY <1>1 DEF Types, Pairs, BatchIsInOrder, CursorIsInTheLog
<1>4. /\ sent' \in Seq(Pairs) /\ Len(sent') = Len(sent) + 1 /\ Ordered'
      /\ \A j \in 1 .. Len(sent) : sent'[j] = sent[j]
      /\ sent'[Len(sent')] = Event
  <2>1. \A j \in 1 .. Len(sent) :
          sent[j][1] < Event[1] \/ (sent[j][1] = Event[1] /\ sent[j][2] < Event[2])
    BY <1>2, <1>3, SentBeforeEvent
  <2> QED
    BY <1>1, <2>1, SentOneMore
<1>5. /\ batch' = <<>> \/ batch' = Tail(batch)
      /\ pc' = IF batch' = <<>> THEN "fetch" ELSE "event"
  BY DEF Count
<1>6. batch' \in Seq(Pairs) /\ (pc' = "event" => batch' = Tail(batch) /\ Len(batch') > 0)
  <2>1. CASE batch' = <<>>
    BY <1>5, <2>1
  <2>2. CASE batch' = Tail(batch) /\ batch' # <<>>
    BY <1>1, <2>2, EmptyOrLonger
  <2> QED
    BY <1>5, <2>1, <2>2
<1>7. Types'
  BY <1>2, <1>3, <1>4, <1>5, <1>6 DEF Types
<1>8. BatchIsInOrder'
  <2>1. pc' = "event" => last_record_id' <= pos[2] - Len(batch')
    BY <1>1, <1>2, <1>3, <1>6
  <2> QED
    BY <1>1, <1>3, <1>5, <1>6, <2>1 DEF BatchIsInOrder
<1>9. CursorIsInTheLog'
  BY <1>1, <1>2, <1>3, <1>5 DEF CursorIsInTheLog
<1>10. SentIsBehind'
  <2> SUFFICES ASSUME NEW j \in 1 .. Len(sent')
      PROVE  /\ sent'[j][1] <= pos[1]
             /\ sent'[j][1] = log => pos[1] = log /\ sent'[j][2] <= Event[2]
             /\ sent'[j][1] = pos[1] =>
                  sent'[j][2] <= pos[2] - (IF pc' = "event" THEN Len(batch') ELSE 0)
    BY <1>2, <1>5 DEF SentIsBehind
  <2>1. sent'[j][1] \in Nat /\ sent'[j][2] \in Nat
    BY <1>4, EventTypes
  <2>2. /\ sent'[j][1] <= pos[1]
        /\ sent'[j][1] = pos[1] => sent'[j][2] <= Event[2]
    <3>1. CASE j \in 1 .. Len(sent)
      BY <1>3, <1>4, <2>1, <3>1, SentBeforeEvent
    <3>2. CASE j = Len(sent')
      BY <1>2, <1>3, <1>4, <3>2
    <3> QED
      BY <1>4, <3>1, <3>2 DEF Types
  <2>3. Event[2] <= pos[2] - (IF pc' = "event" THEN Len(batch') ELSE 0)
    BY <1>1, <1>3, <1>6
  <2>4. PICK last \in Int : last = pos[2] - (IF pc' = "event" THEN Len(batch') ELSE 0)
    <3>1. PICK k \in Nat : k = Len(batch')
      BY <1>6, EmptyOrLonger, Zenon
    <3>2. PICK p \in Nat : p = pos[2]
      BY <1>3, Zenon
    <3>3. p - (IF pc' = "event" THEN k ELSE 0) \in Int
      OBVIOUS
    <3> QED
      BY <3>1, <3>2, <3>3
  <2>5. sent'[j][1] = pos[1] => sent'[j][2] <= last
    <3>1. Event[2] <= last
      BY <2>3, <2>4, Zenon
    <3>2. PICK e \in Nat : e = Event[2]
      BY <1>3, Zenon
    <3>3. PICK s \in Nat : s = sent'[j][2]
      BY <2>1, Zenon
    <3>4. sent'[j][1] = pos[1] => s <= e
      BY <2>2, <3>2, <3>3, Zenon
    <3>5. e <= last
      BY <3>1, <3>2, Zenon
    <3>6. s <= e => s <= last
      BY <3>5
    <3> QED
      BY <3>3, <3>4, <3>6, Zenon
  <2>6. sent'[j][1] = log => pos[1] = log
    BY <1>3, <2>1, <2>2
  <2> QED
    BY <2>2, <2>4, <2>5, <2>6
<1> QED
  BY <1>4, <1>7, <1>8, <1>9, <1>10

\* The event that waits is the one the cursor moved to.
LEMMA FullOrder == OrderInv /\ Full => OrderInv'
<1> SUFFICES ASSUME OrderInv, Full PROVE OrderInv'
  OBVIOUS
<1> USE DEF OrderInv, Full, external
<1>1. /\ Event \in Pairs /\ Event = <<pos[1], Event[2]>>
      /\ last_record_id < Event[2] /\ Event[2] <= pos[2]
  BY NextEvent
<1>2. last_record_id' = Event[2] /\ cursorLog' = pos[1]
  BY CursorMoves
<1>3. /\ Event[2] \in Nat /\ pos[1] \in Nat /\ pos[2] \in Nat /\ newest \in Nat
      /\ pos[1] <= log /\ (pos[1] = log => pos[2] <= newest)
  BY <1>1 DEF Types, Pairs, CursorIsInTheLog
<1>4. Types'
  BY <1>1, <1>2, <1>3 DEF Types
<1>5. BatchIsInOrder'
  BY <1>1, <1>2 DEF BatchIsInOrder
<1>6. CursorIsInTheLog'
  BY <1>1, <1>2, <1>3 DEF CursorIsInTheLog
<1>7. SentIsBehind'
  <2> SUFFICES ASSUME NEW j \in 1 .. Len(sent)
      PROVE  /\ sent[j][1] <= pos[1]
             /\ sent[j][1] = log => pos[1] = log /\ sent[j][2] <= Event[2]
             /\ sent[j][1] = pos[1] => sent[j][2] < Event[2]
    BY <1>2 DEF SentIsBehind
  <2>1. /\ sent[j][1] \in Nat /\ sent[j][2] \in Nat /\ sent[j][1] <= pos[1]
        /\ sent[j][1] = pos[1] => sent[j][2] < Event[2]
    BY SentBeforeEvent
  <2>2. log \in Nat
    BY DEF Types
  <2> QED
    BY <1>3, <2>1, <2>2
<1>8. Ordered'
  BY DEF Ordered
<1> QED
  BY <1>4, <1>5, <1>6, <1>7, <1>8

\* What waited is sent; the batch and the query were closed.
LEMMA SendOrder == OrderInv /\ Send => OrderInv'
<1> SUFFICES ASSUME OrderInv, Send PROVE OrderInv'
  OBVIOUS
<1> USE DEF OrderInv, Send, external, query, cursor
<1>1. /\ Event = <<cursorLog, last_record_id>> /\ cursorLog = pos[1] /\ Event \in Pairs
      /\ cursorLog \in Nat /\ last_record_id \in Nat /\ log \in Nat /\ pos[1] <= log
  BY DEF Event, Types, Pairs, BatchIsInOrder, CursorIsInTheLog
<1>2. batch' = <<>> /\ pc' = "fetch"
  BY DEF Count
<1>3. ASSUME NEW j \in 1 .. Len(sent)
      PROVE  /\ sent[j][1] \in Nat /\ sent[j][2] \in Nat /\ sent[j][1] <= pos[1]
             /\ sent[j][1] = pos[1] => sent[j][2] < last_record_id
  BY EventTypes DEF SentIsBehind, Types
<1>4. /\ sent' \in Seq(Pairs) /\ Len(sent') = Len(sent) + 1 /\ Ordered'
      /\ \A j \in 1 .. Len(sent) : sent'[j] = sent[j]
      /\ sent'[Len(sent')] = Event
  <2>1. \A j \in 1 .. Len(sent) :
          sent[j][1] < Event[1] \/ (sent[j][1] = Event[1] /\ sent[j][2] < Event[2])
    BY <1>1, <1>3
  <2> QED
    BY <1>1, <2>1, SentOneMore
<1>5. Types'
  BY <1>2, <1>4 DEF Types
<1>6. BatchIsInOrder' /\ CursorIsInTheLog'
  BY <1>2 DEF BatchIsInOrder, CursorIsInTheLog
<1>7. SentIsBehind'
  <2> SUFFICES ASSUME NEW j \in 1 .. Len(sent')
      PROVE  /\ sent'[j][1] <= pos[1]
             /\ sent'[j][1] = log => cursorLog = log /\ sent'[j][2] <= last_record_id
             /\ query_handle /\ sent'[j][1] = pos[1] => sent'[j][2] <= pos[2] - 0
    BY <1>2 DEF SentIsBehind
  <2>1. sent'[j][1] \in Nat /\ sent'[j][2] \in Nat
    BY <1>4, EventTypes
  <2>2. /\ sent'[j][1] <= pos[1]
        /\ sent'[j][1] = pos[1] => sent'[j][2] <= last_record_id
    <3>1. CASE j \in 1 .. Len(sent)
      BY <1>1, <1>3, <1>4, <2>1, <3>1
    <3>2. CASE j = Len(sent')
      BY <1>1, <1>4, <3>2
    <3> QED
      BY <1>4, <3>1, <3>2 DEF Types
  <2>3. pos[2] \in Nat /\ (query_handle => last_record_id <= pos[2])
    BY DEF Types, Pairs, CursorIsInTheLog
  <2> QED
    BY <1>1, <2>1, <2>2, <2>3
<1> QED
  BY <1>4, <1>5, <1>6, <1>7

\* Every step keeps the order.
LEMMA NextOrder == OrderInv /\ [Next]_vars => OrderInv'
<1> SUFFICES ASSUME OrderInv, [Next]_vars PROVE OrderInv'
  OBVIOUS
<1>1. newest \in Nat
  BY DEF OrderInv, Types
<1>2. CASE KeepQuery \/ End \/ LogEvent \/ Receive \/ UNCHANGED vars
  <2>1. /\ UNCHANGED <<log, cursor, query_handle, pos, batch, sent>>
        /\ newest' = newest \/ newest' = newest + 1
        /\ pc' = pc \/ pc' = "ended" \/ {pc, pc'} \subseteq {"query", "fetch"}
    BY <1>2 DEF KeepQuery, End, LogEvent, Receive, vars, external, query, cursor
  <2>2. newest' \in Nat /\ newest' >= newest
    BY <1>1, <2>1
  <2> QED
    BY <2>1, <2>2, QuietOrder
<1>3. CASE CycleEnds \/ FetchFails
  BY <1>3, AfterCycleOrder DEF CycleEnds, FetchFails
<1> QED
  BY <1>2, <1>3, ClearLogOrder, OpenQueryOrder, QueryFailsOrder, FetchOrder,
     DropEventOrder, TrySendOrder, FullOrder, SendOrder DEF Next, Collect

\* What the collector puts into the channel is in the order of the log and
\* nothing is in it twice (collect_continuous).
THEOREM EventsAreSentInOrder == Spec => []SentInOrder
<1>1. OrderInv => SentInOrder
  BY DEF OrderInv, Types, Ordered, SentInOrder
<1> QED
  BY <1>1, InitOrder, NextOrder, PTL DEF Spec

-----------------------------------------------------------------------------
\* What is in a batch is its first event and the rest.
LEMMA RangeOfRest ==
  ASSUME NEW s \in Seq(Pairs), Len(s) > 0
  PROVE  Range(s) = {Head(s)} \cup Range(Tail(s))
<1>1. Len(s) \in Nat /\ Len(Tail(s)) = Len(s) - 1
  OBVIOUS
<1>2. ASSUME NEW x \in Range(s) PROVE x = Head(s) \/ x \in Range(Tail(s))
  <2>1. PICK k \in 1 .. Len(s) : x = s[k]
    BY DEF Range
  <2>2. CASE k = 1
    BY <2>1, <2>2
  <2>3. CASE k # 1
    <3>1. k - 1 \in 1 .. Len(Tail(s)) /\ Tail(s)[k - 1] = s[k]
      BY <1>1, <2>1, <2>3
    <3>2. k - 1 \in DOMAIN Tail(s)
      BY <1>1, <3>1
    <3> QED
      BY <2>1, <3>1, <3>2 DEF Range
  <2> QED
    BY <2>2, <2>3
<1>3. ASSUME NEW x \in Range(Tail(s)) PROVE x \in Range(s)
  <2>1. PICK k \in 1 .. Len(Tail(s)) : x = Tail(s)[k]
    BY <1>1 DEF Range
  <2>2. Tail(s)[k] = s[k + 1] /\ k + 1 \in 1 .. Len(s)
    BY <1>1
  <2> QED
    BY <2>1, <2>2 DEF Range
<1>4. Head(s) \in Range(s)
  BY <1>1 DEF Range
<1> QED
  BY <1>2, <1>3, <1>4

\* What was sent, with one more event.
LEMMA RangeOfMore ==
  ASSUME NEW s \in Seq(Pairs), NEW e \in Pairs
  PROVE  Range(Append(s, e)) = Range(s) \cup {e}
<1>1. Len(s) \in Nat /\ Append(s, e) \in Seq(Pairs) /\ Len(Append(s, e)) = Len(s) + 1
  OBVIOUS
<1>2. \A k \in 1 .. Len(s) : Append(s, e)[k] = s[k]
  BY <1>1
<1>3. Append(s, e)[Len(s) + 1] = e
  BY <1>1
<1>4. ASSUME NEW x \in Range(Append(s, e)) PROVE x \in Range(s) \cup {e}
  <2>1. PICK k \in 1 .. Len(s) + 1 : x = Append(s, e)[k]
    BY <1>1 DEF Range
  <2>2. CASE k \in 1 .. Len(s)
    BY <1>2, <2>1, <2>2 DEF Range
  <2>3. CASE k = Len(s) + 1
    BY <1>3, <2>1, <2>3
  <2> QED
    BY <1>1, <2>2, <2>3
<1>5. ASSUME NEW x \in Range(s) PROVE x \in Range(Append(s, e))
  <2>1. PICK k \in 1 .. Len(s) : x = s[k]
    BY DEF Range
  <2>2. k \in 1 .. Len(Append(s, e)) /\ x = Append(s, e)[k]
    BY <1>1, <1>2, <2>1
  <2> QED
    BY <2>2, <1>1 DEF Range
<1>6. e \in Range(Append(s, e))
  <2>1. Len(s) + 1 \in 1 .. Len(Append(s, e))
    BY <1>1
  <2> QED
    BY <1>1, <1>3, <2>1 DEF Range
<1> QED
  BY <1>4, <1>5, <1>6

\* An empty batch has no event.
LEMMA RangeOfNone == Range(<<>>) = {}
BY DEF Range

SkipInv == OrderInv /\ HandleSkipsNothing /\ NothingSkipped

\* What neither moves the cursor nor opens, sends or drops an event.
LEMMA QuietSkip ==
  ASSUME SkipInv,
         UNCHANGED <<cursor, pos, batch, sent, unrendered, outgrown, capped>>,
         query_handle' => query_handle,
         pc' = pc \/ pc' = "ended" \/ {pc, pc'} \subseteq {"query", "fetch"}
  PROVE  HandleSkipsNothing' /\ NothingSkipped'
<1>1. CASE pc' = "ended"
  BY <1>1 DEF HandleSkipsNothing, NothingSkipped
<1>2. CASE pc' # "ended"
  <2>1. InHand' = InHand /\ pc # "ended"
    BY <1>2 DEF InHand, Event
  <2> QED
    BY <1>2, <2>1 DEF SkipInv, HandleSkipsNothing, NothingSkipped, Passed, cursor
<1> QED
  BY <1>1, <1>2

\* What the new query does not show was sent, or it is noted as outgrown.
LEMMA OpenQuerySkip ==
  SkipInv /\ OpenQuery => HandleSkipsNothing' /\ NothingSkipped'
<1> SUFFICES ASSUME SkipInv, OpenQuery PROVE HandleSkipsNothing' /\ NothingSkipped'
  OBVIOUS
<1> USE DEF OpenQuery, external, cursor
<1>1. InHand = {} /\ InHand' = {} /\ outgrown \subseteq outgrown'
  BY DEF InHand
<1>2. NothingSkipped'
  BY <1>1 DEF SkipInv, NothingSkipped
<1>3. HandleSkipsNothing'
  <2> SUFFICES ASSUME ~capped, NEW i \in 1 .. last_record_id
               PROVE  <<log, i>> \in Passed'
    BY DEF HandleSkipsNothing
  <2>1. CASE cursorLog = log
    BY <1>1, <2>1 DEF SkipInv, NothingSkipped, Passed
  <2>2. CASE cursorLog # log
    BY <2>2 DEF Passed
  <2> QED
    BY <2>1, <2>2
<1> QED
  BY <1>2, <1>3

\* The end of a cycle closes the handle or leaves it where it was.
LEMMA AfterCycleSkip ==
  SkipInv /\ pc = "fetch" /\ AfterCycle => HandleSkipsNothing' /\ NothingSkipped'
<1> SUFFICES ASSUME SkipInv, pc = "fetch", AfterCycle
             PROVE  HandleSkipsNothing' /\ NothingSkipped'
  OBVIOUS
<1> USE DEF AfterCycle, external, query, history
<1>1. CASE UNCHANGED cursor
  <2>1. UNCHANGED <<cursor, pos, batch, sent, unrendered, outgrown, capped>>
    BY <1>1
  <2> QED
    BY <2>1, QuietSkip
<1>2. CASE ~UNCHANGED cursor
  <2>1. last_record_id' = 0
    BY <1>2 DEF AfterIdleCycle, Probe
  <2>2. NothingSkipped'
    BY <2>1 DEF NothingSkipped
  <2>3. HandleSkipsNothing'
    BY DEF SkipInv, HandleSkipsNothing, Passed
  <2> QED
    BY <2>2, <2>3
<1> QED
  BY <1>1, <1>2

\* A batch holds all that the handle passes.
LEMMA FetchSkip == SkipInv /\ Fetch => HandleSkipsNothing' /\ NothingSkipped'
<1> SUFFICES ASSUME SkipInv, Fetch PROVE HandleSkipsNothing' /\ NothingSkipped'
  OBVIOUS
<1> USE DEF Fetch, external, cursor, history
<1>1. OrderInv /\ OrderInv'
  BY FetchOrder DEF SkipInv
<1>2. NothingSkipped'
  <2>1. InHand = {} /\ InHand' = {}
    BY DEF InHand
  <2> QED
    BY <2>1 DEF SkipInv, NothingSkipped
<1>3. HandleSkipsNothing'
  <2> SUFFICES ASSUME ~capped, NEW i \in 1 .. pos'[2]
               PROVE  <<pos'[1], i>> \in Passed \cup Range(batch')
    BY DEF HandleSkipsNothing, Passed
  <2>1. pos[2] \in Nat /\ pos[1] = log /\ query_handle
    BY <1>1, Fetched DEF OrderInv, Types, Pairs
  <2>2. PICK n \in Nat \ {0} : /\ batch' = [k \in 1 .. n |-> <<log, pos[2] + k>>]
                               /\ pos' = <<log, pos[2] + n>>
    BY <1>1, Fetched
  <2>3. CASE i <= pos[2]
    <3>1. i \in 1 .. pos[2] /\ batch = <<>>
      BY <1>1, <2>1, <2>2, <2>3 DEF OrderInv, BatchIsInOrder
    <3> QED
      BY <2>1, <2>2, <3>1, RangeOfNone DEF SkipInv, HandleSkipsNothing
  <2>4. CASE i > pos[2]
    <3>1. PICK k \in 1 .. n : i = pos[2] + k
      <4>1. i - pos[2] \in 1 .. n /\ i = pos[2] + (i - pos[2])
        BY <2>1, <2>2, <2>4
      <4> QED
        BY <4>1
    <3>2. k \in DOMAIN batch' /\ batch'[k] = <<log, i>>
      BY <2>2, <3>1
    <3>3. <<log, i>> \in Range(batch')
      BY <3>2, Zenon DEF Range
    <3>4. pos'[1] = log
      BY <2>2
    <3> QED
      BY <3>3, <3>4, Zenon
  <2> QED
    BY <2>1, <2>3, <2>4
<1> QED
  BY <1>2, <1>3

\* An event that cannot be rendered is a known gap.
LEMMA DropEventSkip == SkipInv /\ DropEvent => HandleSkipsNothing' /\ NothingSkipped'
<1> SUFFICES ASSUME SkipInv, DropEvent PROVE HandleSkipsNothing' /\ NothingSkipped'
  OBVIOUS
<1> USE DEF DropEvent, external, query, cursor
<1>1. InHand = {} /\ InHand' = {} /\ unrendered' = unrendered \cup {Event}
  BY DEF InHand
<1>2. NothingSkipped'
  BY <1>1 DEF SkipInv, NothingSkipped
<1>3. Range(batch) = {Event} \cup Range(batch')
  <2>1. batch \in Seq(Pairs) /\ Len(batch) > 0
    BY DEF SkipInv, OrderInv, Types, BatchIsInOrder
  <2> QED
    BY <2>1, RangeOfRest DEF Event
<1>4. HandleSkipsNothing'
  BY <1>1, <1>3 DEF SkipInv, HandleSkipsNothing, Passed
<1> QED
  BY <1>2, <1>4

\* Up to the event at hand, everything was sent or is a known gap.
LEMMA UpToTheEvent ==
  ASSUME SkipInv, pc = "event", ~capped, NEW i \in 1 .. Event[2]
  PROVE  <<pos[1], i>> \in Passed \cup {Event}
<1>1. /\ Event = <<pos[1], pos[2] - Len(batch) + 1>> /\ Event[2] <= pos[2]
      /\ Event[2] \in Nat /\ Event[2] = pos[2] - Len(batch) + 1
  BY NextEvent DEF SkipInv, Pairs
<1>2. /\ pos[2] \in Nat /\ Len(batch) \in Nat /\ query_handle
      /\ DOMAIN batch = 1 .. Len(batch)
      /\ \A k \in 1 .. Len(batch) : batch[k] = <<pos[1], pos[2] - Len(batch) + k>>
  BY DEF SkipInv, OrderInv, Types, Pairs, BatchIsInOrder
<1>3. i \in 1 .. pos[2]
  BY <1>1, <1>2
<1>4. <<pos[1], i>> \in Passed \cup Range(batch)
  BY <1>2, <1>3 DEF SkipInv, HandleSkipsNothing
<1>5. CASE <<pos[1], i>> \in Range(batch)
  <2>1. PICK k \in 1 .. Len(batch) : <<pos[1], i>> = batch[k]
    BY <1>2, <1>5 DEF Range
  <2>2. i = pos[2] - Len(batch) + k
    BY <1>2, <2>1
  <2>3. k = 1
    BY <1>1, <1>2, <2>2
  <2> QED
    BY <1>1, <1>2, <2>1, <2>3
<1> QED
  BY <1>4, <1>5

\* The cursor passes the event that is sent.
LEMMA TrySendSkip == SkipInv /\ TrySend => HandleSkipsNothing' /\ NothingSkipped'
<1> SUFFICES ASSUME SkipInv, TrySend PROVE HandleSkipsNothing' /\ NothingSkipped'
  OBVIOUS
<1> USE DEF TrySend, external, query
<1>1. batch \in Seq(Pairs) /\ sent \in Seq(Pairs) /\ Len(batch) > 0 /\ Event \in Pairs
  BY NextEvent DEF SkipInv, OrderInv, Types, BatchIsInOrder
<1>2. Range(sent') = Range(sent) \cup {Event} /\ Passed' = Passed \cup {Event}
  BY <1>1, RangeOfMore DEF Passed
<1>3. capped' \/ (~capped /\ batch' = Tail(batch))
  BY DEF Count
<1>4. NothingSkipped'
  <2> SUFFICES ASSUME ~capped', NEW i \in 1 .. last_record_id'
               PROVE  <<cursorLog', i>> \in Passed'
    BY DEF NothingSkipped, Passed
  <2>1. last_record_id' = Event[2] /\ cursorLog' = pos[1]
    BY CursorMoves DEF SkipInv
  <2> QED
    BY <1>2, <1>3, <2>1, UpToTheEvent
<1>5. HandleSkipsNothing'
  <2>1. Range(batch) = {Event} \cup Range(Tail(batch))
    BY <1>1, RangeOfRest DEF Event
  <2> QED
    BY <1>2, <1>3, <2>1 DEF SkipInv, HandleSkipsNothing
<1> QED
  BY <1>4, <1>5

\* The rest of a batch is given up with its handle: the next query starts at the cursor.
LEMMA FullSkip == SkipInv /\ Full => HandleSkipsNothing' /\ NothingSkipped'
<1> SUFFICES ASSUME SkipInv, Full PROVE HandleSkipsNothing' /\ NothingSkipped'
  OBVIOUS
<1> USE DEF Full, external, history
<1>1. InHand' = {Event}
  BY DEF InHand, Event
<1>2. NothingSkipped'
  <2> SUFFICES ASSUME ~capped, NEW i \in 1 .. last_record_id'
               PROVE  <<cursorLog', i>> \in Passed \cup {Event}
    BY <1>1 DEF NothingSkipped, Passed
  <2>1. last_record_id' = Event[2] /\ cursorLog' = pos[1]
    BY CursorMoves DEF SkipInv
  <2> QED
    BY <2>1, UpToTheEvent
<1>3. HandleSkipsNothing'
  BY DEF HandleSkipsNothing
<1> QED
  BY <1>2, <1>3

\* The event that waited is sent.
LEMMA SendSkip == SkipInv /\ Send => HandleSkipsNothing' /\ NothingSkipped'
<1> SUFFICES ASSUME SkipInv, Send PROVE HandleSkipsNothing' /\ NothingSkipped'
  OBVIOUS
<1> USE DEF Send, external, query, cursor
<1>1. /\ batch \in Seq(Pairs) /\ sent \in Seq(Pairs) /\ Len(batch) = 1
      /\ Event = batch[1] /\ Event \in Pairs
  <2>1. batch \in Seq(Pairs) /\ sent \in Seq(Pairs) /\ Len(batch) = 1
    BY DEF SkipInv, OrderInv, Types, BatchIsInOrder
  <2>2. Event = batch[1]
    BY <2>1 DEF Event
  <2>3. 1 \in 1 .. Len(batch)
    BY <2>1
  <2>4. batch[1] \in Pairs
    BY <2>1, <2>3, EventTypes
  <2> QED
    BY <2>1, <2>2, <2>4
<1>2. Range(sent') = Range(sent) \cup {Event} /\ Passed' = Passed \cup {Event}
  BY <1>1, RangeOfMore DEF Passed
<1>3. InHand = {Event} /\ InHand' = {} /\ (~capped' => ~capped)
  BY DEF InHand, Count
<1>4. NothingSkipped'
  BY <1>2, <1>3 DEF SkipInv, NothingSkipped
<1>5. HandleSkipsNothing'
  <2>1. Range(batch) = {Event}
    BY <1>1 DEF Range
  <2> QED
    BY <1>2, <1>3, <2>1 DEF SkipInv, HandleSkipsNothing
<1> QED
  BY <1>4, <1>5

\* Every step keeps both.
LEMMA NextSkip == SkipInv /\ [Next]_vars => SkipInv'
<1> SUFFICES ASSUME SkipInv, [Next]_vars PROVE HandleSkipsNothing' /\ NothingSkipped'
  BY NextOrder DEF SkipInv
<1>1. CASE \/ KeepQuery \/ QueryFails \/ End
           \/ LogEvent \/ ClearLog \/ Receive \/ UNCHANGED vars
  <2>1. /\ UNCHANGED <<cursor, pos, batch, sent, unrendered, outgrown, capped>>
        /\ query_handle' = query_handle \/ query_handle' = FALSE
        /\ pc' = pc \/ pc' = "ended" \/ {pc, pc'} \subseteq {"query", "fetch"}
    BY <1>1 DEF KeepQuery, QueryFails, End, LogEvent, ClearLog, Receive, vars,
                external, query, cursor, history
  <2> QED
    BY <2>1, QuietSkip
<1>2. CASE CycleEnds \/ FetchFails
  BY <1>2, AfterCycleSkip DEF CycleEnds, FetchFails
<1> QED
  BY <1>1, <1>2, OpenQuerySkip, FetchSkip, DropEventSkip, TrySendSkip, FullSkip,
     SendSkip DEF Next, Collect

\* The cursor leaves no event behind that was neither sent nor is one of the
\* known gaps: a full channel and a closed query cost nothing
\* (collect_continuous, should_reset_after_idle).
THEOREM TheCursorSkipsNothing == Spec => []NothingSkipped
<1>1. Init => SkipInv
  <2> SUFFICES ASSUME Init PROVE HandleSkipsNothing /\ NothingSkipped
    BY InitOrder DEF SkipInv
  <2> QED
    BY DEF Init, HandleSkipsNothing, NothingSkipped
<1>2. SkipInv => NothingSkipped
  BY DEF SkipInv
<1> QED
  BY <1>1, <1>2, NextSkip, PTL DEF Spec

-----------------------------------------------------------------------------
(* The time of a record.                                                   *)

Calendar == CalendarInit /\ [][Walk]_calendar

IsDate == year \in Nat \ {0} /\ month \in 1 .. 12 /\ day \in 1 .. MonthLength(year, month)

\* The first conjunct of DaysAreCounted.
Counted == UnixDays(year, month, day) = daysSince1601 - 134774

-----------------------------------------------------------------------------
\* A month has 28 to 31 days.
LEMMA MonthLengthType ==
  ASSUME NEW y \in Nat, NEW m \in 1 .. 12
  PROVE  MonthLength(y, m) \in 28 .. 31
BY DEF MonthLength

\* A leap day is validated in the years that have one.
LEMMA RealDates ==
  ASSUME NEW y \in Nat, NEW m \in 1 .. 12, NEW d \in Int
  PROVE  Accepts(y, m, d) <=> d \in 1 .. MonthLength(y, m)
BY DEF Accepts, MonthLength, Leap

\* The walk stays in the calendar.
LEMMA IsDateStep == IsDate /\ [Walk]_calendar => IsDate'
<1> SUFFICES ASSUME IsDate, [Walk]_calendar PROVE IsDate'
  OBVIOUS
<1>1. CASE Walk /\ NextDay
  BY <1>1, MonthLengthType DEF IsDate, NextDay
<1>2. CASE Walk /\ NextMonth
  BY <1>2, MonthLengthType DEF IsDate, NextMonth
<1>3. CASE Walk /\ NextYear
  BY <1>3, MonthLengthType DEF IsDate, NextYear
<1>4. CASE UNCHANGED calendar
  BY <1>4 DEF IsDate, calendar
<1> QED
  BY <1>1, <1>2, <1>3, <1>4 DEF Walk

\* The next day of the same month.
LEMMA DayAfter ==
  ASSUME NEW y \in Nat, NEW m \in 1 .. 12, NEW d \in Nat
  PROVE  UnixDays(y, m, d + 1) = UnixDays(y, m, d) + 1
BY DEF UnixDays

\* The year of an era goes up, or the era does.
LEMMA YearOfEra ==
  ASSUME NEW y \in Nat, NEW r \in 0 .. 399, r = y - (y \div 400) * 400
  PROVE  /\ r = 0 => /\ (y - 1) \div 400 = (y \div 400) - 1
                     /\ (y - 1) - ((y - 1) \div 400) * 400 = 399
         /\ r > 0 => /\ (y - 1) \div 400 = y \div 400
                     /\ (y - 1) - ((y - 1) \div 400) * 400 = r - 1
OBVIOUS

\* A multiple is passed when the remainder is 0.
LEMMA Passed4 ==
  ASSUME NEW r \in 1 .. 399
  PROVE  r \div 4 = ((r - 1) \div 4) + (IF r % 4 = 0 THEN 1 ELSE 0)
OBVIOUS

\* The centuries passed grow by one where a century begins.
LEMMA Passed100 ==
  ASSUME NEW r \in 1 .. 399
  PROVE  r \div 100 = ((r - 1) \div 100) + (IF r % 100 = 0 THEN 1 ELSE 0)
OBVIOUS

\* The rule of the leap years reads the year of the era.
LEMMA LeapOfEra ==
  ASSUME NEW y \in Nat, NEW r \in 0 .. 399, r = y - (y \div 400) * 400
  PROVE  Leap(y) <=> r = 0 \/ (r % 4 = 0 /\ r % 100 # 0)
BY DEF Leap

-----------------------------------------------------------------------------
\* The first of March comes after the last of February.
LEMMA MarchFollowsFebruary ==
  ASSUME NEW y \in Nat
  PROVE  UnixDays(y, 3, 1) = UnixDays(y, 2, MonthLength(y, 2)) + 1
<1> DEFINE era == y \div 400
           r == y - era * 400
           before == (y - 1) \div 400
<1>1. era \in Nat /\ r \in 0 .. 399
  OBVIOUS
<1>2. MonthLength(y, 2) = IF Leap(y) THEN 29 ELSE 28
  BY DEF MonthLength
<1>3. UnixDays(y, 3, 1)
        = era * 146097 + r * 365 + r \div 4 - r \div 100 - 719468
  BY <1>1 DEF UnixDays
<1>4. ASSUME NEW d \in Nat, NEW yoe \in 0 .. 399, yoe = (y - 1) - before * 400
      PROVE  UnixDays(y, 2, d)
               = before * 146097 + yoe * 365 + yoe \div 4 - yoe \div 100 + 336 + d - 719468
  BY <1>4 DEF UnixDays
<1> HIDE DEF era, r, before
<1>5. CASE r = 0
  <2>1. Leap(y)
    BY <1>1, <1>5, LeapOfEra DEF era, r
  <2>2. before = era - 1 /\ (y - 1) - before * 400 = 399
    BY <1>1, <1>5, YearOfEra DEF era, r, before
  <2>3. UnixDays(y, 2, 29) = before * 146097 + 399 * 365 + 99 - 3 + 336 + 29 - 719468
    BY <1>4, <2>2
  <2> QED
    BY <1>1, <1>2, <1>3, <1>5, <2>1, <2>2, <2>3
<1>6. CASE r > 0
  <2>1. before = era /\ (y - 1) - before * 400 = r - 1
    BY <1>1, <1>6, YearOfEra DEF era, r, before
  <2>2. r \in 1 .. 399 /\ r - 1 \in 0 .. 399
    BY <1>1, <1>6
  <2>3. r \div 4 = ((r - 1) \div 4) + (IF r % 4 = 0 THEN 1 ELSE 0)
    BY <2>2, Passed4
  <2>4. r \div 100 = ((r - 1) \div 100) + (IF r % 100 = 0 THEN 1 ELSE 0)
    BY <2>2, Passed100
  <2>5. Leap(y) <=> r % 4 = 0 /\ r % 100 # 0
    BY <1>1, <1>6, LeapOfEra DEF era, r
  <2>6. r % 100 = 0 => r % 4 = 0
    BY <2>2
  <2>7. ASSUME NEW d \in Nat
        PROVE  UnixDays(y, 2, d) = era * 146097 + (r - 1) * 365 + (r - 1) \div 4
                                     - (r - 1) \div 100 + 336 + d - 719468
    <3>1. PICK q \in 0 .. 399 : q = r - 1
      BY <2>2
    <3>2. UnixDays(y, 2, d)
            = before * 146097 + q * 365 + q \div 4 - q \div 100 + 336 + d - 719468
      BY <1>1, <2>1, <3>1 DEF UnixDays, before
    <3> QED
      BY <2>1, <3>1, <3>2
  <2>8. CASE Leap(y)
    BY <1>1, <1>2, <1>3, <2>2, <2>3, <2>4, <2>5, <2>6, <2>7, <2>8
  <2>9. CASE ~Leap(y)
    BY <1>1, <1>2, <1>3, <2>2, <2>3, <2>4, <2>5, <2>6, <2>7, <2>9
  <2> QED
    BY <2>8, <2>9
<1> QED
  BY <1>1, <1>5, <1>6

\* The first of every other month comes after the last of the month before.
LEMMA FirstFollowsLast ==
  ASSUME NEW y \in Nat, NEW m \in 1 .. 11
  PROVE  UnixDays(y, m + 1, 1) = UnixDays(y, m, MonthLength(y, m)) + 1
<1>1. CASE m = 1
  BY <1>1 DEF UnixDays, MonthLength
<1>2. CASE m = 2
  BY <1>2, MarchFollowsFebruary
<1>3. CASE m \in 3 .. 11
  <2> DEFINE era == y \div 400
             yoe == y - era * 400
             march == era * 146097 + yoe * 365 + yoe \div 4 - yoe \div 100 - 719468
  <2>1. ASSUME NEW n \in 3 .. 12, NEW d \in Nat
        PROVE  UnixDays(y, n, d) = march + ((153 * (n - 3) + 2) \div 5) + d - 1
    BY DEF UnixDays
  <2>2. march \in Int
    OBVIOUS
  <2> HIDE DEF march
  <2>3. UnixDays(y, m + 1, 1) = march + ((153 * (m - 2) + 2) \div 5)
    BY <1>3, <2>1, <2>2
  <2>4. CASE m \in {4, 6, 9, 11}
    <3>1. MonthLength(y, m) = 30
      BY <2>4 DEF MonthLength
    <3> QED
      BY <2>1, <2>2, <2>3, <2>4, <3>1
  <2>5. CASE m \in {3, 5, 7, 8, 10}
    <3>1. MonthLength(y, m) = 31
      BY <2>5 DEF MonthLength
    <3> QED
      BY <2>1, <2>2, <2>3, <2>5, <3>1
  <2> QED
    BY <1>3, <2>4, <2>5
<1> QED
  BY <1>1, <1>2, <1>3

\* The year changes between December and January, the year of the formula does not.
LEMMA NewYear ==
  ASSUME NEW y \in Nat
  PROVE  UnixDays(y + 1, 1, 1) = UnixDays(y, 12, MonthLength(y, 12)) + 1
BY DEF UnixDays, MonthLength

\* Every step of the walk counts one day.
LEMMA CountedStep ==
  IsDate /\ Counted /\ daysSince1601 \in Nat /\ [Walk]_calendar => Counted'
<1> SUFFICES ASSUME IsDate, Counted, daysSince1601 \in Nat, [Walk]_calendar
             PROVE  Counted'
  OBVIOUS
<1> USE DEF IsDate, Counted
<1>1. CASE Walk /\ NextDay
  <2>1. UnixDays(year, month, day + 1) = UnixDays(year, month, day) + 1
    BY DayAfter
  <2>2. UnixDays(year', month', day') = UnixDays(year, month, day + 1)
    BY <1>1 DEF NextDay
  <2> QED
    BY <1>1, <2>1, <2>2 DEF Walk
<1>2. CASE Walk /\ NextMonth
  <2>1. UnixDays(year, month + 1, 1) = UnixDays(year, month, day) + 1
    BY <1>2, FirstFollowsLast DEF NextMonth
  <2>2. UnixDays(year', month', day') = UnixDays(year, month + 1, 1)
    BY <1>2 DEF NextMonth
  <2> QED
    BY <1>2, <2>1, <2>2 DEF Walk
<1>3. CASE Walk /\ NextYear
  <2>1. UnixDays(year + 1, 1, 1) = UnixDays(year, month, day) + 1
    BY <1>3, NewYear DEF NextYear
  <2>2. UnixDays(year', month', day') = UnixDays(year + 1, 1, 1)
    BY <1>3 DEF NextYear
  <2> QED
    BY <1>3, <2>1, <2>2 DEF Walk
<1>4. CASE UNCHANGED calendar
  BY <1>4 DEF calendar
<1> QED
  BY <1>1, <1>2, <1>3, <1>4 DEF Walk

-----------------------------------------------------------------------------
\* What is counted is what Hinnant's formula gives, on every date that follows
\* 1601-01-01, and exactly the real dates are accepted (system_time_to_filetime).
THEOREM EveryDayIsCounted == Calendar => []DaysAreCounted
<1> DEFINE IndInv == IsDate /\ Counted /\ daysSince1601 \in Nat
<1>1. CalendarInit => IndInv
  BY DEF CalendarInit, IsDate, Counted, MonthLength, UnixDays
<1>2. IndInv /\ [Walk]_calendar => IndInv'
  <2> SUFFICES ASSUME IndInv, [Walk]_calendar PROVE IndInv'
    OBVIOUS
  <2>1. IsDate' /\ Counted'
    BY IsDateStep, CountedStep
  <2>2. daysSince1601' \in Nat
    BY DEF Walk, calendar
  <2> QED
    BY <2>1, <2>2
<1>3. IndInv => DaysAreCounted
  <2> SUFFICES ASSUME IndInv, NEW d \in 0 .. 32
               PROVE  Accepts(year, month, d) <=> d \in 1 .. MonthLength(year, month)
    BY DEF DaysAreCounted, Counted
  <2> QED
    BY RealDates DEF IsDate
<1> QED
  BY <1>1, <1>2, <1>3, PTL DEF Calendar

\* The dates beside a date are one day away, over the end of months and years.
LEMMA DatesBeside ==
  ASSUME NEW y \in Nat \ {0}, NEW m \in 1 .. 12, NEW d \in 1 .. MonthLength(y, m)
  PROVE  LET after == DateAfter(y, m, d)
             before == DateBefore(y, m, d)
         IN /\ UnixDays(after[1], after[2], after[3]) = UnixDays(y, m, d) + 1
            /\ UnixDays(before[1], before[2], before[3]) = UnixDays(y, m, d) - 1
<1>1. MonthLength(y, m) \in 28 .. 31
  BY MonthLengthType
<1>2. \A u \in Nat, n \in 1 .. 12, k \in Nat : UnixDays(u, n, k) \in Int
  BY DEF UnixDays
<1> DEFINE after == DateAfter(y, m, d)
           before == DateBefore(y, m, d)
<1>3. UnixDays(after[1], after[2], after[3]) = UnixDays(y, m, d) + 1
  <2>1. CASE d < MonthLength(y, m)
    <3>1. after = <<y, m, d + 1>> BY <2>1 DEF DateAfter
    <3> QED BY <1>1, <3>1, DayAfter
  <2>2. CASE d = MonthLength(y, m) /\ m < 12
    <3>1. after = <<y, m + 1, 1>> BY <1>1, <2>2 DEF DateAfter
    <3>2. m \in 1 .. 11 BY <2>2
    <3> QED BY <2>2, <3>1, <3>2, FirstFollowsLast
  <2>3. CASE d = MonthLength(y, m) /\ m = 12
    <3>1. after = <<y + 1, 1, 1>> BY <1>1, <2>3 DEF DateAfter
    <3> QED BY <2>3, <3>1, NewYear
  <2> QED BY <1>1, <2>1, <2>2, <2>3
<1>4. UnixDays(before[1], before[2], before[3]) = UnixDays(y, m, d) - 1
  <2>1. CASE d > 1
    <3>1. before = <<y, m, d - 1>> BY <2>1 DEF DateBefore
    <3>2. d - 1 \in Nat /\ (d - 1) + 1 = d BY <1>1, <2>1
    <3>3. UnixDays(y, m, (d - 1) + 1) = UnixDays(y, m, d - 1) + 1 BY <3>2, DayAfter
    <3>4. UnixDays(y, m, d - 1) \in Int BY <1>2, <3>2
    <3> HIDE DEF before
    <3>5. UnixDays(before[1], before[2], before[3]) = UnixDays(y, m, d - 1) BY <3>1
    <3> QED BY <3>2, <3>3, <3>4, <3>5
  <2>2. CASE d = 1 /\ m > 1
    <3>1. before = <<y, m - 1, MonthLength(y, m - 1)>> BY <2>2 DEF DateBefore
    <3>2. m - 1 \in 1 .. 11 /\ m - 1 \in 1 .. 12 /\ (m - 1) + 1 = m BY <2>2
    <3>3. UnixDays(y, (m - 1) + 1, 1) = UnixDays(y, m - 1, MonthLength(y, m - 1)) + 1
      BY <3>2, FirstFollowsLast
    <3>4. MonthLength(y, m - 1) \in Nat
      <4>1. MonthLength(y, m - 1) \in 28 .. 31 BY <3>2, MonthLengthType
      <4> QED BY <4>1
    <3>5. UnixDays(y, m - 1, MonthLength(y, m - 1)) \in Int BY <1>2, <3>2, <3>4
    <3> HIDE DEF before
    <3>6. UnixDays(before[1], before[2], before[3]) = UnixDays(y, m - 1, MonthLength(y, m - 1))
      BY <3>1
    <3> QED BY <2>2, <3>2, <3>3, <3>5, <3>6
  <2>3. CASE d = 1 /\ m = 1
    <3>1. before = <<y - 1, 12, 31>> BY <2>3 DEF DateBefore
    <3>2. y - 1 \in Nat /\ (y - 1) + 1 = y OBVIOUS
    <3>3. MonthLength(y - 1, 12) = 31 BY DEF MonthLength
    <3>4. UnixDays((y - 1) + 1, 1, 1) = UnixDays(y - 1, 12, 31) + 1
      BY <3>2, <3>3, NewYear
    <3>5. UnixDays(y - 1, 12, 31) \in Int BY <1>2, <3>2
    <3> HIDE DEF before
    <3>6. UnixDays(before[1], before[2], before[3]) = UnixDays(y - 1, 12, 31) BY <3>1
    <3> QED BY <2>3, <3>2, <3>4, <3>5, <3>6
  <2> QED BY <1>1, <2>1, <2>2, <2>3
<1> QED BY <1>3, <1>4

\* Minutes that are carried or borrowed at 60, in units.
LEMMA MinutesCarried ==
  ASSUME NEW k \in 0 .. 9, NEW z \in 0 .. 9, NEW sign \in {-1, 1}
  PROVE  LET minutes == 6 * k - sign * (6 * z)
         IN /\ minutes \div 60 \in -1 .. 1
            /\ Minutes(6 * k) = 5 * k /\ Minutes(6 * z) = 5 * z
            /\ Minutes(minutes % 60) = 5 * k - sign * (5 * z) - 50 * (minutes \div 60)
<1>1. Minutes(6 * k) = 5 * k /\ Minutes(6 * z) = 5 * z
  BY DEF Minutes
<1> DEFINE q == k - sign * z
           minutes == 6 * k - sign * (6 * z)
<1>2. minutes = 6 * q /\ q \in -9 .. 18 /\ 5 * k - sign * (5 * z) = 5 * q
  <2>1. CASE sign = 1 BY <2>1
  <2>2. CASE sign = -1 BY <2>2
  <2> QED BY <2>1, <2>2
<1> HIDE DEF minutes, q
<1>3. /\ minutes \div 60 = q \div 10 /\ q \div 10 \in -1 .. 1
      /\ minutes % 60 = 6 * (q - 10 * (q \div 10)) /\ q - 10 * (q \div 10) \in 0 .. 9
  <2>1. CASE q < 0 BY <1>2, <2>1
  <2>2. CASE q \in 0 .. 9 BY <1>2, <2>2
  <2>3. CASE q > 9 BY <1>2, <2>3
  <2> QED BY <1>2, <2>1, <2>2, <2>3
<1>4. Minutes(minutes % 60) = 5 * (q - 10 * (q \div 10))
  BY <1>3 DEF Minutes
<1> QED BY <1>1, <1>2, <1>3, <1>4 DEF minutes

\* Hours that are carried or borrowed at 24, by the day that they end up in.
LEMMA HoursCarried ==
  ASSUME NEW h \in -24 .. 47
  PROVE  h = (h % 24) + (IF h < 0 THEN -24 ELSE IF h > 23 THEN 24 ELSE 0)
<1>1. CASE h < 0 BY <1>1
<1>2. CASE h \in 0 .. 23 BY <1>2
<1>3. CASE h > 23 BY <1>3
<1> QED BY <1>1, <1>2, <1>3

\* Wherever a record's time was written, its FILETIME is that of the date and the
\* time that it was in UTC (parse_timezone, parse_datetime_components,
\* system_time_to_filetime).
THEOREM TheZoneDoesNotMatter == Calendar => []SameInstantSameFiletime
<1>1. CalendarInit => IsDate
  BY DEF CalendarInit, IsDate, MonthLength
<1>2. IsDate /\ [Walk]_calendar => IsDate'
  BY IsDateStep
<1>3. ASSUME IsDate, NEW clock \in Clocks, NEW zone \in Zones
      PROVE  LET minutes == clock[2] - zone[1] * zone[3]
                 hours == clock[1] - zone[1] * zone[2] + minutes \div 60
                 utc == <<hours % 24, minutes % 60>>
                 date == IF hours < 0 THEN DateBefore(year, month, day)
                         ELSE IF hours > 23 THEN DateAfter(year, month, day)
                         ELSE <<year, month, day>>
             IN Filetime(year, month, day, clock, zone)
                  = Filetime(date[1], date[2], date[3], utc, UTC)
  <2>1. /\ clock[1] \in 0 .. 23 /\ clock[2] \in {6 * k : k \in 0 .. 9}
        /\ zone[1] \in {-1, 1} /\ zone[2] \in 0 .. 23 /\ zone[3] \in {6 * k : k \in 0 .. 9}
    BY EvtxTimeAssumption
  <2>2. PICK k \in 0 .. 9, z \in 0 .. 9 : clock[2] = 6 * k /\ zone[3] = 6 * z
    BY <2>1
  <2> DEFINE sign == zone[1]
             minutes == 6 * k - sign * (6 * z)
             carry == minutes \div 60
             hours == clock[1] - sign * zone[2] + carry
             utc == <<hours % 24, minutes % 60>>
             date == IF hours < 0 THEN DateBefore(year, month, day)
                     ELSE IF hours > 23 THEN DateAfter(year, month, day)
                     ELSE <<year, month, day>>
             today == UnixDays(year, month, day)
             thatDay == UnixDays(date[1], date[2], date[3])
             local == Hours(clock[1]) + Minutes(clock[2])
  <2>3. sign \in {-1, 1}
    BY <2>1
  <2>4. /\ carry \in -1 .. 1 /\ Minutes(6 * k) = 5 * k /\ Minutes(6 * z) = 5 * z
        /\ Minutes(minutes % 60) = 5 * k - sign * (5 * z) - 50 * carry
    <3> HIDE DEF sign
    <3> QED BY <2>3, MinutesCarried
  <2> HIDE DEF minutes, carry
  <2>5. hours \in -24 .. 47
    <3>1. CASE sign = 1 BY <2>1, <2>4, <3>1
    <3>2. CASE sign = -1 BY <2>1, <2>4, <3>2
    <3> QED BY <2>3, <3>1, <3>2
  <2>6. clock[1] - sign * zone[2] + carry = hours /\ zone[2] \in Int /\ clock[1] \in Int
    BY <2>1
  <2> HIDE DEF hours
  <2>7. hours = (hours % 24) + (IF hours < 0 THEN -24 ELSE IF hours > 23 THEN 24 ELSE 0)
    BY <2>5, HoursCarried
  <2>8. thatDay = today + (IF hours < 0 THEN -1 ELSE IF hours > 23 THEN 1 ELSE 0)
        /\ today \in Int
    <3>0. year \in Nat \ {0} /\ month \in 1 .. 12 /\ day \in 1 .. MonthLength(year, month)
      BY <1>3 DEF IsDate
    <3>1. today \in Int
      <4>1. MonthLength(year, month) \in 28 .. 31
        BY <3>0, MonthLengthType
      <4>2. day \in Int BY <3>0, <4>1
      <4> QED BY <3>0, <4>2 DEF UnixDays
    <3> DEFINE after == DateAfter(year, month, day)
               before == DateBefore(year, month, day)
    <3>2. /\ UnixDays(after[1], after[2], after[3]) = UnixDays(year, month, day) + 1
          /\ UnixDays(before[1], before[2], before[3]) = UnixDays(year, month, day) - 1
      BY <3>0, DatesBeside
    <3>3. date = IF hours < 0 THEN before ELSE IF hours > 23 THEN after ELSE <<year, month, day>>
      OBVIOUS
    <3> HIDE DEF date, after, before
    <3>4. CASE hours < 0
      BY <3>1, <3>2, <3>3, <3>4
    <3>5. CASE ~(hours < 0) /\ hours > 23
      BY <3>1, <3>2, <3>3, <3>5
    <3>6. CASE ~(hours < 0) /\ ~(hours > 23)
      <4>1. date[1] = year /\ date[2] = month /\ date[3] = day BY <3>3, <3>6
      <4>2. thatDay = today BY <4>1
      <4> HIDE DEF thatDay, today
      <4> QED BY <3>1, <3>6, <4>2
    <3> QED BY <3>1, <3>4, <3>5, <3>6
  <2> HIDE DEF date, today, thatDay
  <2>9. /\ Days(today) + Hours(clock[1]) + Minutes(clock[2]) - ZoneOffset(zone)
             = Days(thatDay) + Hours(utc[1]) + Minutes(utc[2]) - ZoneOffset(UTC)
    <3>1. /\ Hours(clock[1]) = 50 * clock[1] /\ Hours(zone[2]) = 50 * zone[2]
          /\ Hours(utc[1]) = 50 * (hours % 24) /\ utc[2] = minutes % 60
          /\ Days(today) = 1200 * today /\ Days(thatDay) = 1200 * thatDay
      BY <2>1, <2>5, <2>8 DEF Hours, Days
    <3>2. ZoneOffset(UTC) = 0
      BY DEF ZoneOffset, UTC, Hours, Minutes
    <3>3. ZoneOffset(zone) = sign * (50 * zone[2] + 5 * z)
      BY <2>2, <2>4, <3>1 DEF ZoneOffset
    <3>4. 1200 * thatDay + 50 * (hours % 24) = 1200 * today + 50 * hours
      BY <2>5, <2>7, <2>8
    <3>5. Minutes(clock[2]) = 5 * k /\ Minutes(utc[2]) = 5 * k - sign * (5 * z) - 50 * carry
      BY <2>2, <2>4, <3>1
    <3> DEFINE zoneHours == sign * zone[2]
               zoneTens == sign * z
    <3>6. /\ zoneHours \in Int /\ zoneTens \in Int
          /\ sign * (50 * zone[2] + 5 * z) = 50 * zoneHours + 5 * zoneTens
          /\ sign * (5 * z) = 5 * zoneTens
      <4>1. CASE sign = 1 BY <2>1, <4>1
      <4>2. CASE sign = -1 BY <2>1, <4>2
      <4> QED BY <2>3, <4>1, <4>2
    <3>7. hours = clock[1] - zoneHours + carry
      BY <2>6
    <3> DEFINE rest == hours % 24
    <3>8. rest \in Int /\ thatDay \in Int
      BY <2>5, <2>8
    <3> HIDE DEF zoneHours, zoneTens, utc, rest, sign
    <3>9. 1200 * today + 50 * clock[1] + 5 * k - (50 * zoneHours + 5 * zoneTens)
            = 1200 * thatDay + 50 * rest + (5 * k - 5 * zoneTens - 50 * carry) - 0
      BY <2>1, <2>4, <2>5, <2>6, <2>8, <3>4, <3>6, <3>7, <3>8 DEF rest
    <3>10. /\ Hours(utc[1]) = 50 * rest /\ ZoneOffset(zone) = 50 * zoneHours + 5 * zoneTens
           /\ Minutes(utc[2]) = 5 * k - 5 * zoneTens - 50 * carry
      BY <3>1, <3>3, <3>5, <3>6 DEF rest
    <3> QED BY <3>1, <3>2, <3>5, <3>9, <3>10
  <2>10. Filetime(year, month, day, clock, zone) = Filetime(date[1], date[2], date[3], utc, UTC)
    <3> HIDE DEF utc
    <3> QED BY <2>9 DEF Filetime, today, thatDay
  <2> QED BY <2>2, <2>10 DEF minutes, carry, hours, date
<1>4. IsDate => SameInstantSameFiletime
  BY <1>3 DEF SameInstantSameFiletime
<1> QED
  BY <1>1, <1>2, <1>4, PTL DEF Calendar

-----------------------------------------------------------------------------
(* The events: first the least and the greatest of a set of places.        *)

\* A set of naturals that is not empty has a least element.
LEMMA LeastOf ==
  ASSUME NEW T, T \subseteq Nat, T # {}
  PROVE  Min(T) \in T /\ \A k \in T : Min(T) <= k
<1> DEFINE Less == {ss \in Nat \X Nat : ss[1] < ss[2]}
<1>1. IsWellFoundedOn(Less, Nat)
  BY NatLessThanWellFounded DEF OpToRel
<1>2. PICK m \in T : \A k \in T : ~ (<<k, m>> \in Less)
  BY <1>1, WFMin
<1>3. ASSUME NEW k \in T PROVE m <= k
  <2>1. m \in Nat /\ k \in Nat
    OBVIOUS
  <2>2. ~ (k < m)
    BY <1>2, <2>1
  <2> QED BY <2>1, <2>2
<1>4. \E x \in T : \A y \in T : x <= y
  BY <1>3
<1> QED BY <1>4 DEF Min

\* A bounded one has a greatest element too.
LEMMA GreatestOf ==
  ASSUME NEW T, NEW n \in Nat, T \subseteq 0 .. n, T # {}
  PROVE  Max(T) \in T /\ \A k \in T : k <= Max(T)
<1> DEFINE Far == {n - k : k \in T}
<1> HIDE DEF Far
<1>1. Far \subseteq Nat /\ Far # {}
  <2>1. ASSUME NEW k \in T PROVE n - k \in Nat
    OBVIOUS
  <2> QED BY <2>1 DEF Far
<1>2. Min(Far) \in Far /\ \A d \in Far : Min(Far) <= d
  BY <1>1, LeastOf
<1>3. PICK x \in T : Min(Far) = n - x
  BY <1>2 DEF Far
<1>4. \A y \in T : n - y \in Far /\ y \in 0 .. n
  BY DEF Far
<1>5. \A y \in T : x >= y
  BY <1>2, <1>3, <1>4
<1>6. Max(T) \in T /\ \A y \in T : Max(T) >= y
  BY <1>5 DEF Max
<1> QED BY <1>6

\* A set of naturals that has 0 and with each number the next one has them all.
LEMMA InductUp ==
  ASSUME NEW T, T \subseteq Nat, 0 \in T, \A n \in Nat : n \in T => n + 1 \in T
  PROVE  T = Nat
<1> SUFFICES ASSUME T # Nat PROVE FALSE
  OBVIOUS
<1> DEFINE m == Min(Nat \ T)
<1>1. m \in Nat \ T /\ \A k \in Nat \ T : m <= k
  <2>1. Nat \ T \subseteq Nat /\ Nat \ T # {}
    OBVIOUS
  <2> QED BY <2>1, LeastOf
<1> HIDE DEF m
<1>2. m # 0 /\ m - 1 \in Nat /\ (m - 1) + 1 = m
  BY <1>1
<1>3. m - 1 \in T
  BY <1>1, <1>2
<1> QED BY <1>1, <1>2, <1>3

-----------------------------------------------------------------------------
(* Maps.                                                                   *)

\* A map has the names of its pairs, and under each the value of its last one.
LEMMA PairsAre ==
  ASSUME NEW pairs, NEW n \in Nat, DOMAIN pairs \subseteq 0 .. n
  PROVE  /\ DOMAIN FromPairs(pairs) = {pairs[k][1] : k \in DOMAIN pairs}
         /\ \A key \in DOMAIN FromPairs(pairs) : \E k \in DOMAIN pairs :
              /\ pairs[k][1] = key /\ FromPairs(pairs)[key] = pairs[k][2]
              /\ \A i \in DOMAIN pairs : pairs[i][1] = key => i <= k
<1>1. ASSUME NEW key \in {pairs[k][1] : k \in DOMAIN pairs}
      PROVE  \E k \in DOMAIN pairs :
               /\ pairs[k][1] = key /\ FromPairs(pairs)[key] = pairs[k][2]
               /\ \A i \in DOMAIN pairs : pairs[i][1] = key => i <= k
  <2> DEFINE T == {k \in DOMAIN pairs : pairs[k][1] = key}
  <2>1. T \subseteq 0 .. n /\ T # {}
    OBVIOUS
  <2>2. Max(T) \in T /\ \A k \in T : k <= Max(T)
    BY <2>1, GreatestOf
  <2>3. FromPairs(pairs)[key] = pairs[Max(T)][2]
    BY DEF FromPairs
  <2> QED BY <2>2, <2>3
<1>2. DOMAIN FromPairs(pairs) = {pairs[k][1] : k \in DOMAIN pairs}
  BY DEF FromPairs
<1> QED BY <1>1, <1>2

\* A name that one pair has is mapped to the value of this pair.
LEMMA OnlyPair ==
  ASSUME NEW pairs, NEW n \in Nat, DOMAIN pairs \subseteq 0 .. n,
         NEW k \in DOMAIN pairs, \A i \in DOMAIN pairs : pairs[i][1] = pairs[k][1] => i = k
  PROVE  pairs[k][1] \in DOMAIN FromPairs(pairs) /\ FromPairs(pairs)[pairs[k][1]] = pairs[k][2]
<1>1. pairs[k][1] \in DOMAIN FromPairs(pairs)
  BY DEF FromPairs
<1>2. PICK j \in DOMAIN pairs : /\ pairs[j][1] = pairs[k][1]
                                /\ FromPairs(pairs)[pairs[k][1]] = pairs[j][2]
  BY <1>1, PairsAre
<1> QED BY <1>1, <1>2

\* The pairs of an element: the attributes at 0, if any, and the others as before.
LEMMA PairsWithAttributes ==
  ASSUME NEW attrs, NEW pairs, 0 \notin DOMAIN pairs
  PROVE  /\ DOMAIN WithAttributes(attrs, pairs)
              = DOMAIN pairs \cup (IF attrs = <<>> THEN {} ELSE {0})
         /\ \A k \in DOMAIN pairs : WithAttributes(attrs, pairs)[k] = pairs[k]
         /\ attrs # <<>> => WithAttributes(attrs, pairs)[0]
                              = <<"#attributes", Object(FromPairs(attrs))>>
<1>1. CASE attrs = <<>>
  BY <1>1 DEF WithAttributes
<1>2. CASE attrs # <<>>
  BY <1>2 DEF WithAttributes
<1> QED BY <1>1, <1>2

-----------------------------------------------------------------------------
(* The elements of a document.                                             *)

\* What the children of an element make of it, with values for them.
LEMMA MembersAgree ==
  ASSUME NEW nodes, NEW node, NEW attrs, NEW f, NEW g,
         \A i \in DOMAIN node.kids : f[node.kids[i]] = g[node.kids[i]]
  PROVE  Members(nodes, node, attrs, f) = Members(nodes, node, attrs, g)
<1>1. [k \in DOMAIN node.kids |-> <<nodes[node.kids[k]].tag, f[node.kids[k]]>>]
        = [k \in DOMAIN node.kids |-> <<nodes[node.kids[k]].tag, g[node.kids[k]]>>]
  OBVIOUS
<1>2. MembersOf(nodes, node, attrs, f) = MembersOf(nodes, node, attrs, g)
  BY <1>1 DEF MembersOf
<1> QED BY <1>2 DEF Members

\* The value of an element in one of the views, with values for its children.
ValueWith(nodes, view, k, value) ==
  LET node == nodes[k]
  IN IF view = "json"
     THEN IF node.tag = "EventData" THEN EventDataDetection(DataKids(nodes, node))
          ELSE IF ~(node.kids = <<>> /\ node.attrs = <<>> /\ node.text # "")
          THEN Members(nodes, node, Attributes(node), value)
          ELSE IF Unsigned(node.text) # "" THEN Number(Unsigned(node.text))
          ELSE String(node.text)
     ELSE IF node.tag = "EventData" THEN EventDataRaw(node, DataKids(nodes, node))
          ELSE IF ~(node.kids = <<>> /\ RawAttributes(node) = <<>>)
          THEN Members(nodes, node, RawAttributes(node), value)
          ELSE IF node.text = "" THEN Null
          ELSE IF MaybeNumber(node.text) # Missing THEN MaybeNumber(node.text)
          ELSE String(node.text)

\* It depends on them only.
LEMMA ValuesAgree ==
  ASSUME NEW nodes, IsTree(nodes), NEW view, NEW k \in DOMAIN nodes, NEW f, NEW g,
         \A i \in (k + 1) .. Len(nodes) : f[i] = g[i]
  PROVE  ValueWith(nodes, view, k, f) = ValueWith(nodes, view, k, g)
<1>1. \A i \in DOMAIN nodes[k].kids : f[nodes[k].kids[i]] = g[nodes[k].kids[i]]
  BY DEF IsTree
<1>2. \A attrs : Members(nodes, nodes[k], attrs, f) = Members(nodes, nodes[k], attrs, g)
  BY <1>1, MembersAgree
<1> HIDE DEF IsTree
<1>3. CASE view = "json"
  BY <1>2, <1>3 DEF ValueWith
<1>4. CASE view # "json"
  BY <1>2, <1>4 DEF ValueWith
<1> QED BY <1>3, <1>4

\* Every document has its values: children come after their parent.
LEMMA ValuesExist ==
  ASSUME NEW nodes, IsTree(nodes), NEW view
  PROVE  \E f : f = [k \in DOMAIN nodes |-> ValueWith(nodes, view, k, f)]
<1> DEFINE N == Len(nodes)
           Values(m, f) == f = [k \in (N - m + 1) .. N |-> ValueWith(nodes, view, k, f)]
           T == {m \in Nat : m <= N => \E f : Values(m, f)}
<1>0. N \in Nat /\ DOMAIN nodes = 1 .. N
  BY DEF IsTree
<1>1. 0 \in T
  <2> DEFINE f == [k \in (N - 0 + 1) .. N |-> Null]
  <2>1. (N - 0 + 1) .. N = {}
    BY <1>0
  <2>2. Values(0, f)
    BY <2>1
  <2> QED BY <2>2
<1>2. ASSUME NEW m \in Nat, m \in T PROVE m + 1 \in T
  <2> SUFFICES ASSUME m + 1 <= N PROVE \E f : Values(m + 1, f)
    OBVIOUS
  <2>1. PICK f : Values(m, f)
    BY <1>0, <1>2
  <2> DEFINE first == N - m
             g == [k \in first .. N |-> IF k = first THEN ValueWith(nodes, view, first, f) ELSE f[k]]
  <2>2. first \in 1 .. N /\ first \in DOMAIN nodes /\ N - (m + 1) + 1 = first
        /\ N - m + 1 = first + 1
    BY <1>0
  <2> HIDE DEF first
  <2>3. \A k \in first .. N : \A i \in (k + 1) .. N : g[i] = f[i] /\ i \in first .. N
    BY <1>0, <2>2
  <2>4. ASSUME NEW k \in first .. N
        PROVE  g[k] = ValueWith(nodes, view, k, g)
    <3>1. k \in DOMAIN nodes
      BY <1>0, <2>2
    <3>2. ValueWith(nodes, view, k, g) = ValueWith(nodes, view, k, f)
      <4>1. \A i \in (k + 1) .. Len(nodes) : g[i] = f[i]
        BY <2>3
      <4> HIDE DEF g
      <4> QED BY <3>1, <4>1, ValuesAgree
    <3>3. CASE k = first
      BY <3>2, <3>3
    <3>4. CASE k # first
      <4>1. k \in (first + 1) .. N
        BY <1>0, <2>2, <3>4
      <4>2. f[k] = ValueWith(nodes, view, k, f)
        <5>1. f = [i \in (first + 1) .. N |-> ValueWith(nodes, view, i, f)]
          BY <2>1, <2>2
        <5> QED BY ONLY <4>1, <5>1
      <4> QED BY <3>2, <3>4, <4>2
    <3> QED BY <3>3, <3>4
  <2>5. g = [k \in first .. N |-> ValueWith(nodes, view, k, g)]
    <3>1. g = [k \in first .. N |-> g[k]]
      OBVIOUS
    <3> HIDE DEF g
    <3>2. [k \in first .. N |-> g[k]] = [k \in first .. N |-> ValueWith(nodes, view, k, g)]
      BY ONLY <2>4
    <3> QED BY ONLY <3>1, <3>2
  <2> HIDE DEF g
  <2>6. Values(m + 1, g)
    BY <2>2, <2>5
  <2> QED BY <2>6
<1>3. T = Nat
  <2> HIDE DEF T
  <2>1. T \subseteq Nat
    BY DEF T
  <2> QED BY <1>1, <1>2, <2>1, InductUp
<1>4. PICK f : Values(N, f)
  BY <1>0, <1>3
<1>5. (N - N + 1) .. N = DOMAIN nodes
  BY <1>0
<1> QED BY <1>4, <1>5

\* The value of an element in the detection view.
LEMMA NodeValue ==
  ASSUME NEW nodes, IsTree(nodes), NEW k \in DOMAIN nodes
  PROVE  NodeToValue(nodes)[k] = ValueWith(nodes, "json", k, NodeToValue(nodes))
<1>1. \E f : f = [i \in DOMAIN nodes |-> ValueWith(nodes, "json", i, f)]
  BY ValuesExist
<1>2. NodeToValue(nodes) = CHOOSE f : f = [i \in DOMAIN nodes |-> ValueWith(nodes, "json", i, f)]
  BY DEF NodeToValue, ValueWith
<1>3. NodeToValue(nodes) = [i \in DOMAIN nodes |-> ValueWith(nodes, "json", i, NodeToValue(nodes))]
  BY <1>1, <1>2
<1> QED BY <1>3

\* The value of an element in the raw view.
LEMMA NodeValueRaw ==
  ASSUME NEW nodes, IsTree(nodes), NEW k \in DOMAIN nodes
  PROVE  NodeToValueRaw(nodes)[k] = ValueWith(nodes, "raw", k, NodeToValueRaw(nodes))
<1>1. \E f : f = [i \in DOMAIN nodes |-> ValueWith(nodes, "raw", i, f)]
  BY ValuesExist
<1>2. NodeToValueRaw(nodes) = CHOOSE f : f = [i \in DOMAIN nodes |-> ValueWith(nodes, "raw", i, f)]
  BY DEF NodeToValueRaw, ValueWith
<1>3. NodeToValueRaw(nodes) = [i \in DOMAIN nodes |-> ValueWith(nodes, "raw", i, NodeToValueRaw(nodes))]
  BY <1>1, <1>2
<1> QED BY <1>3

\* The names of the children, the last child of a name, the name of attributes.
Tags(nodes, node) == {nodes[node.kids[k]].tag : k \in DOMAIN node.kids}
IsLast(nodes, node, k, tag) ==
  /\ k \in DOMAIN node.kids /\ node.kids[k] \in DOMAIN nodes /\ nodes[node.kids[k]].tag = tag
  /\ \A i \in DOMAIN node.kids : nodes[node.kids[i]].tag = tag => i <= k
AttributesKey(attrs) == IF attrs = <<>> THEN {} ELSE {"#attributes"}

\* The members of an element are named after its children, and each is the
\* value of the last child of its name; the attributes have a name of their own.
NamedByKids(nodes, node, attrs, value) ==
  LET members == MembersOf(nodes, node, attrs, value)
  IN /\ DOMAIN members = Tags(nodes, node) \cup AttributesKey(attrs)
     /\ \A k, tag : IsLast(nodes, node, k, tag) => members[tag] = value[node.kids[k]]
     /\ "#attributes" \notin Tags(nodes, node)
     /\ attrs # <<>> => members["#attributes"] = Object(FromPairs(attrs))

\* The members of every element of a tree are named so.
LEMMA MembersAre ==
  ASSUME NEW nodes, IsTree(nodes), NEW e \in DOMAIN nodes, NEW attrs, NEW value
  PROVE  NamedByKids(nodes, nodes[e], attrs, value)
<1> DEFINE kids == nodes[e].kids
           pairs == [k \in DOMAIN kids |-> <<nodes[kids[k]].tag, value[kids[k]]>>]
           all == WithAttributes(attrs, pairs)
           members == FromPairs(all)
<1>1. /\ kids \in Seq(Nat) /\ Len(kids) \in Nat /\ DOMAIN kids = 1 .. Len(kids)
      /\ \A k \in DOMAIN kids : kids[k] \in DOMAIN nodes /\ nodes[kids[k]].tag # "#attributes"
  <2>1. nodes[e] \in Element /\ nodes \in Seq(Element)
    BY DEF IsTree
  <2>2. kids \in Seq(Nat)
    BY <2>1 DEF Element
  <2>3. \A k \in DOMAIN kids : kids[k] \in (e + 1) .. Len(nodes) /\ e \in Nat /\ e > 0
    BY DEF IsTree
  <2>4. \A k \in DOMAIN kids : kids[k] \in DOMAIN nodes
    BY <2>1, <2>3
  <2> QED BY <2>2, <2>4 DEF IsTree
<1>2. DOMAIN pairs = DOMAIN kids /\ 0 \notin DOMAIN pairs
  BY <1>1
<1> HIDE DEF pairs
<1>3. /\ DOMAIN all = DOMAIN pairs \cup (IF attrs = <<>> THEN {} ELSE {0})
      /\ \A k \in DOMAIN pairs : all[k] = pairs[k]
      /\ attrs # <<>> => all[0] = <<"#attributes", Object(FromPairs(attrs))>>
  BY <1>2, PairsWithAttributes
<1> HIDE DEF all
<1>4. DOMAIN all \subseteq 0 .. Len(kids)
  BY <1>1, <1>2, <1>3
<1>5. \A k \in DOMAIN kids : all[k] = <<nodes[kids[k]].tag, value[kids[k]]>> /\ k \in DOMAIN all
  BY <1>2, <1>3 DEF pairs
<1>6. /\ DOMAIN members = {all[k][1] : k \in DOMAIN all}
      /\ \A key \in DOMAIN members : \E k \in DOMAIN all :
           /\ all[k][1] = key /\ members[key] = all[k][2]
           /\ \A i \in DOMAIN all : all[i][1] = key => i <= k
  BY <1>1, <1>4, PairsAre
<1> HIDE DEF members
<1>7. DOMAIN members = {nodes[kids[k]].tag : k \in DOMAIN kids}
                         \cup (IF attrs = <<>> THEN {} ELSE {"#attributes"})
  <2>1. CASE attrs = <<>>
    BY <1>2, <1>3, <1>5, <1>6, <2>1
  <2>2. CASE attrs # <<>>
    <3>1. DOMAIN all = DOMAIN kids \cup {0} /\ all[0][1] = "#attributes"
      BY <1>2, <1>3, <2>2
    <3>2. {all[k][1] : k \in DOMAIN all} = {all[k][1] : k \in DOMAIN kids} \cup {"#attributes"}
      BY <3>1
    <3>3. {all[k][1] : k \in DOMAIN kids} = {nodes[kids[k]].tag : k \in DOMAIN kids}
      BY <1>5
    <3> QED BY <1>6, <2>2, <3>2, <3>3
  <2> QED BY <2>1, <2>2
<1>8. ASSUME NEW k \in DOMAIN kids, NEW tag, nodes[kids[k]].tag = tag,
             \A i \in DOMAIN kids : nodes[kids[i]].tag = tag => i <= k
      PROVE  members[tag] = value[kids[k]]
  <2>1. tag \in DOMAIN members
    BY <1>7, <1>8
  <2>2. PICK j \in DOMAIN all : /\ all[j][1] = tag /\ members[tag] = all[j][2]
                               /\ \A i \in DOMAIN all : all[i][1] = tag => i <= j
    BY <1>6, <2>1
  <2>3. j \in DOMAIN kids
    <3>1. CASE attrs = <<>>
      BY <1>2, <1>3, <3>1
    <3>2. CASE attrs # <<>> /\ j = 0
      <4>1. all[j][1] = "#attributes"
        BY <1>3, <3>2
      <4> QED BY <1>1, <1>8, <2>2, <4>1
    <3>3. CASE attrs # <<>> /\ j # 0
      BY <1>2, <1>3, <3>3
    <3> QED BY <3>1, <3>2, <3>3
  <2>4. all[j] = <<nodes[kids[j]].tag, value[kids[j]]>> /\ all[k][1] = tag /\ k \in DOMAIN all
    BY <1>5, <1>8, <2>3
  <2>5. nodes[kids[j]].tag = tag
    BY <2>2, <2>4
  <2>6. j <= k /\ k <= j
    BY <1>8, <2>2, <2>3, <2>4, <2>5
  <2>7. j = k
    BY <1>1, <2>3, <2>6
  <2> QED BY <2>2, <2>4, <2>7
<1>9. members = MembersOf(nodes, nodes[e], attrs, value)
  BY DEF members, all, pairs, MembersOf
<1>10. DOMAIN members = Tags(nodes, nodes[e]) \cup AttributesKey(attrs)
  BY <1>7 DEF Tags, AttributesKey
<1>11. ASSUME NEW k, NEW tag, IsLast(nodes, nodes[e], k, tag)
       PROVE  members[tag] = value[nodes[e].kids[k]]
  BY <1>8, <1>11 DEF IsLast
<1>12. "#attributes" \notin Tags(nodes, nodes[e])
  BY <1>1 DEF Tags
<1>13. ASSUME attrs # <<>> PROVE members["#attributes"] = Object(FromPairs(attrs))
  <2>1. 0 \in DOMAIN all /\ all[0][1] = "#attributes" /\ all[0][2] = Object(FromPairs(attrs))
    BY <1>3, <1>13
  <2>2. \A i \in DOMAIN all : all[i][1] = all[0][1] => i = 0
    BY <1>1, <1>2, <1>3, <1>5, <2>1
  <2>3. members[all[0][1]] = all[0][2]
    BY <1>1, <1>4, <2>1, <2>2, OnlyPair DEF members
  <2> QED BY <2>1, <2>3
<1> HIDE DEF kids
<1> QED BY <1>9, <1>10, <1>11, <1>12, <1>13 DEF NamedByKids

\* The names of the members.
LEMMA MemberNames ==
  ASSUME NEW nodes, IsTree(nodes), NEW e \in DOMAIN nodes, NEW attrs, NEW value
  PROVE  DOMAIN MembersOf(nodes, nodes[e], attrs, value) = Tags(nodes, nodes[e]) \cup AttributesKey(attrs)
<1>1. NamedByKids(nodes, nodes[e], attrs, value)
  BY MembersAre
<1> QED BY <1>1 DEF NamedByKids

\* No child is named like the attributes.
LEMMA NoAttributesTag ==
  ASSUME NEW nodes, IsTree(nodes), NEW e \in DOMAIN nodes
  PROVE  "#attributes" \notin Tags(nodes, nodes[e])
<1>1. NamedByKids(nodes, nodes[e], {}, {})
  BY MembersAre
<1> QED BY <1>1 DEF NamedByKids

\* The last child of a name is the member of this name.
LEMMA LastMember ==
  ASSUME NEW nodes, IsTree(nodes), NEW e \in DOMAIN nodes, NEW attrs, NEW value,
         NEW k, NEW tag, IsLast(nodes, nodes[e], k, tag)
  PROVE  MembersOf(nodes, nodes[e], attrs, value)[tag] = value[nodes[e].kids[k]]
<1>1. NamedByKids(nodes, nodes[e], attrs, value)
  BY MembersAre
<1> QED BY <1>1 DEF NamedByKids

\* The attributes are the member of their name.
LEMMA AttributesMember ==
  ASSUME NEW nodes, IsTree(nodes), NEW e \in DOMAIN nodes, NEW attrs, NEW value, attrs # <<>>
  PROVE  MembersOf(nodes, nodes[e], attrs, value)["#attributes"] = Object(FromPairs(attrs))
<1>1. NamedByKids(nodes, nodes[e], attrs, value)
  BY MembersAre
<1> QED BY <1>1 DEF NamedByKids

\* A name that children of an element have is the name of a last one.
LEMMA LastKid ==
  ASSUME NEW nodes, IsTree(nodes), NEW e \in DOMAIN nodes, NEW tag, tag \in Tags(nodes, nodes[e])
  PROVE  \E k : IsLast(nodes, nodes[e], k, tag)
<1> DEFINE kids == nodes[e].kids
           T == {k \in DOMAIN kids : nodes[kids[k]].tag = tag}
<1>1. /\ kids \in Seq(Nat) /\ Len(kids) \in Nat /\ DOMAIN kids = 1 .. Len(kids)
      /\ \A k \in DOMAIN kids : kids[k] \in DOMAIN nodes
  <2>1. nodes[e] \in Element /\ nodes \in Seq(Element)
    BY DEF IsTree
  <2>2. kids \in Seq(Nat)
    BY <2>1 DEF Element
  <2>3. \A k \in DOMAIN kids : kids[k] \in (e + 1) .. Len(nodes) /\ e \in Nat /\ e > 0
    BY DEF IsTree
  <2>4. \A k \in DOMAIN kids : kids[k] \in DOMAIN nodes
    BY <2>1, <2>3
  <2> QED BY <2>2, <2>4
<1>2. T \subseteq 0 .. Len(kids) /\ T # {}
  BY <1>1 DEF Tags
<1>3. Max(T) \in T /\ \A k \in T : k <= Max(T)
  BY <1>1, <1>2, GreatestOf
<1> QED BY <1>1, <1>3 DEF IsLast

-----------------------------------------------------------------------------
(* EventData in the two views.                                             *)

\* The names of places, by their number.
LEMMA PlacesAre ==
  /\ Len(PositionalKeys) \in Nat
  /\ \A i \in 1 .. Len(PositionalKeys) : PositionalKeys[i] \notin {"", "A B", "#attributes"}
<1>1. PositionalKeys \in Seq(STRING)
  BY PositionalKeysAssumption
<1>2. Len(PositionalKeys) \in Nat /\ DOMAIN PositionalKeys = 1 .. Len(PositionalKeys)
  BY ONLY <1>1
<1> QED BY <1>2, PositionalKeysAssumption

\* The name of a place is one, and no name is that of the attributes.
LEMMA NamesAre ==
  ASSUME NEW data, NEW n \in Nat, DOMAIN data \subseteq 1 .. n, NamesAreFields(data),
         NEW k \in DOMAIN data
  PROVE  /\ NameOrPlace(data, k) # "#attributes"
         /\ NameOf(data[k]) = "" => /\ NameOrPlace(data, k) = PositionalKey(UnnamedBefore(data, k))
                                    /\ WithoutSpaces(NameOrPlace(data, k)) = NameOrPlace(data, k)
<1>1. CASE NameOf(data[k]) # ""
  BY <1>1 DEF NameOrPlace, NamesAreFields
<1>2. CASE NameOf(data[k]) = ""
  <2> DEFINE unnamed == {i \in DOMAIN data : NameOf(data[i]) = ""}
             before == {i \in DOMAIN data : i < k /\ NameOf(data[i]) = ""}
  <2>1. IsFiniteSet(1 .. n) /\ unnamed \subseteq 1 .. n /\ before \subseteq unnamed
    <3>1. IsFiniteSet(1 .. n)
      <4>1. 1 \in Int /\ n \in Int
        OBVIOUS
      <4> QED BY ONLY <4>1, FS_Interval
    <3>2. unnamed \subseteq DOMAIN data /\ before \subseteq unnamed
      OBVIOUS
    <3> HIDE DEF unnamed, before
    <3> QED BY <3>1, <3>2
  <2>2. IsFiniteSet(unnamed) /\ IsFiniteSet(before)
    BY <2>1, FS_Subset
  <2>3. k \notin before /\ before \cup {k} \subseteq unnamed
    <3>1. k \in 1 .. n
      OBVIOUS
    <3>2. ~ (k < k)
      BY ONLY <3>1
    <3>3. k \notin before
      BY ONLY <3>2
    <3> QED BY <1>2, <3>3
  <2>4. /\ Cardinality(before \cup {k}) = Cardinality(before) + 1
        /\ Cardinality(before \cup {k}) <= Cardinality(unnamed)
        /\ Cardinality(before) \in Nat
    BY <2>2, <2>3, FS_AddElement, FS_Subset, FS_CardinalityType
  <2>5. Cardinality(unnamed) <= Len(PositionalKeys) /\ Cardinality(unnamed) \in Nat
    BY <2>2, FS_CardinalityType DEF NamesAreFields
  <2>6. UnnamedBefore(data, k) = Cardinality(before)
    BY DEF UnnamedBefore
  <2>7. UnnamedBefore(data, k) + 1 \in 1 .. Len(PositionalKeys)
    <3> DEFINE count == Cardinality(before)
               all == Cardinality(unnamed)
               last == Len(PositionalKeys)
    <3>1. count \in Nat /\ all \in Nat /\ last \in Nat /\ count + 1 <= all /\ all <= last
      BY <2>4, <2>5, PlacesAre
    <3> HIDE DEF count, all, last
    <3>2. count + 1 \in 1 .. last
      BY ONLY <3>1
    <3> QED BY <2>6, <3>2 DEF count, last
  <2>8. PositionalKeys[UnnamedBefore(data, k) + 1] \notin {"A B", "#attributes"}
    BY ONLY <2>7, PlacesAre
  <2> QED BY <1>2, <2>8 DEF NameOrPlace, PositionalKey, WithoutSpaces
<1> QED BY <1>1, <1>2

\* A number is one in each of its spellings.
LEMMA NumbersAre ==
  ASSUME NEW text
  PROVE  /\ MaybeNumber(text) # Missing => MaybeNumber(text)[1] = "number"
         /\ NumberOf(String(text)) = MaybeNumber(text)
         /\ \A value : value[1] = "number" => NumberOf(value) = value
         /\ Unsigned(text) # "" => MaybeNumber(text) = Number(Unsigned(text))
<1>1. NumberOf(String(text)) = MaybeNumber(text)
  <2>1. String(text)[1] = "string" /\ String(text)[2] = text
    BY DEF String
  <2> QED BY <2>1 DEF NumberOf
<1>2. \A value : value[1] = "number" => NumberOf(value) = value
  BY DEF NumberOf
<1>3. \A n : Number(n)[1] = "number"
  BY DEF Number
<1>4. Unsigned(text) # "" => MaybeNumber(text) = Number(Unsigned(text))
  BY DEF MaybeNumber
<1>5. MaybeNumber(text) \in {Number(Unsigned(text)), Number(Signed(text)), Missing}
  BY DEF MaybeNumber
<1> QED BY <1>1, <1>2, <1>3, <1>4, <1>5

\* What the normalisations make of a text says the same, and so do a number and
\* its text.
LEMMA NormalisedSaysTheSame ==
  ASSUME NEW text, NEW field
  PROVE  /\ \A value : Says(value, value)
         /\ Says(NormalizeEventDataValue(field, text), String(text))
         /\ Says(NormalizeString(text), String(text))
         /\ MaybeNumber(text) # Missing => Says(MaybeNumber(text), String(text))
         /\ Unsigned(text) # "" => /\ Says(MaybeNumber(text), Number(Unsigned(text)))
                                   /\ Says(String(text), Number(Unsigned(text)))
<1>1. \A value : Says(value, value)
  BY DEF Says
<1>2. MaybeNumber(text) # Missing => Says(MaybeNumber(text), String(text))
  <2> SUFFICES ASSUME MaybeNumber(text) # Missing PROVE Says(MaybeNumber(text), String(text))
    OBVIOUS
  <2>1. MaybeNumber(text)[1] = "number" /\ NumberOf(String(text)) = MaybeNumber(text)
    BY NumbersAre
  <2>2. NumberOf(MaybeNumber(text)) = MaybeNumber(text)
    BY <2>1, NumbersAre
  <2> QED BY <2>1, <2>2 DEF Says
<1>3. Guid(text) # "" => Says(String(Guid(text)), String(text))
  <2>1. String(text)[1] = "string" /\ String(text)[2] = text
    BY DEF String
  <2> QED BY <2>1 DEF Says
<1>4. Says(NormalizeEventDataValue(field, text), String(text))
  <2>1. CASE MaybeNumber(text) # Missing
    BY <1>2, <2>1 DEF NormalizeEventDataValue
  <2>2. CASE MaybeNumber(text) = Missing /\ field \in GuidTypedFields /\ Guid(text) # ""
    BY <1>3, <2>2 DEF NormalizeEventDataValue
  <2>3. CASE MaybeNumber(text) = Missing /\ ~(field \in GuidTypedFields /\ Guid(text) # "")
    BY <1>1, <2>3 DEF NormalizeEventDataValue
  <2> QED BY <2>1, <2>2, <2>3
<1>5. Says(NormalizeString(text), String(text))
  <2>1. CASE MaybeNumber(text) # Missing
    BY <1>2, <2>1 DEF NormalizeString
  <2>2. CASE MaybeNumber(text) = Missing /\ Guid(text) # ""
    BY <1>3, <2>2 DEF NormalizeString
  <2>3. CASE MaybeNumber(text) = Missing /\ Guid(text) = ""
    BY <1>1, <2>3 DEF NormalizeString
  <2> QED BY <2>1, <2>2, <2>3
<1>6. ASSUME Unsigned(text) # ""
      PROVE  /\ Says(MaybeNumber(text), Number(Unsigned(text)))
             /\ Says(String(text), Number(Unsigned(text)))
  <2>1. MaybeNumber(text) = Number(Unsigned(text)) /\ NumberOf(String(text)) = MaybeNumber(text)
    BY <1>6, NumbersAre
  <2>2. Number(Unsigned(text))[1] = "number"
    BY DEF Number
  <2>3. NumberOf(Number(Unsigned(text))) = Number(Unsigned(text))
    BY <2>2, NumbersAre
  <2> QED BY <1>1, <2>1, <2>2, <2>3 DEF Says
<1> QED BY <1>1, <1>2, <1>4, <1>5, <1>6

\* A value that a rule can see in EventData is in the raw view, under a name from
\* which the rule's name of it comes.
LEMMA DataIsRecorded ==
  ASSUME NEW nodes, IsTree(nodes), NEW e \in DOMAIN nodes,
         NamesAreFields(DataKids(nodes, nodes[e])),
         NEW key \in DOMAIN EventDataDetection(DataKids(nodes, nodes[e]))[2]
  PROVE  LET data == DataKids(nodes, nodes[e])
             raw == EventDataRaw(nodes[e], data)[2]
         IN \E name \in DOMAIN raw \ {"#attributes"} :
              /\ WithoutSpaces(name) = key
              /\ Says(raw[name], EventDataDetection(data)[2][key])
<1> DEFINE data == DataKids(nodes, nodes[e])
           D(k) == IF NameOf(data[k]) = "" THEN PositionalKey(UnnamedBefore(data, k))
                   ELSE WithoutSpaces(NameOf(data[k]))
           seen == [k \in DOMAIN data |-> <<D(k), String(data[k].text)>>]
           N(k) == NameOrPlace(data, k)
           kept == [k \in DOMAIN data |-> <<N(k), NormalizeEventDataValue(N(k), data[k].text)>>]
           all == WithAttributes(RawAttributes(nodes[e]), kept)
<1>1. PICK n \in Nat : DOMAIN data \subseteq 1 .. n
  <2>1. nodes[e] \in Element
    BY DEF IsTree
  <2>2. nodes[e].kids \in Seq(Nat)
    BY <2>1 DEF Element
  <2>3. DOMAIN data \subseteq DOMAIN nodes[e].kids
    BY DEF DataKids
  <2>4. Len(nodes[e].kids) \in Nat /\ DOMAIN nodes[e].kids = 1 .. Len(nodes[e].kids)
    BY <2>2
  <2> HIDE DEF data
  <2> QED BY <2>3, <2>4
<1>2. EventDataDetection(data)[2] = FromPairs(seen)
  BY DEF EventDataDetection, Object
<1>3. EventDataRaw(nodes[e], data)[2] = FromPairs(all)
  BY DEF EventDataRaw, Object
<1>4. \A k \in DOMAIN data : /\ N(k) # "#attributes" /\ D(k) = WithoutSpaces(N(k))
  <2> TAKE k \in DOMAIN data
  <2>1. CASE NameOf(data[k]) = ""
    <3> HIDE DEF data
    <3> QED BY <1>1, <2>1, NamesAre DEF data
  <2>2. CASE NameOf(data[k]) # ""
    <3>1. N(k) = NameOf(data[k])
      BY <2>2 DEF NameOrPlace
    <3> HIDE DEF data
    <3> QED BY <1>1, <2>2, <3>1, NamesAre DEF data
  <2> QED BY <2>1, <2>2
<1> HIDE DEF data
<1>5. /\ DOMAIN seen = DOMAIN data /\ DOMAIN kept = DOMAIN data /\ 0 \notin DOMAIN kept
      /\ DOMAIN data \subseteq 0 .. n
  BY <1>1
<1>6. \A k \in DOMAIN data : /\ seen[k] = <<WithoutSpaces(N(k)), String(data[k].text)>>
                             /\ kept[k] = <<N(k), NormalizeEventDataValue(N(k), data[k].text)>>
  BY <1>4
<1> HIDE DEF seen, kept, D, N
<1>7. PICK k \in DOMAIN seen :
        /\ seen[k][1] = key /\ FromPairs(seen)[key] = seen[k][2]
        /\ \A i \in DOMAIN seen : seen[i][1] = key => i <= k
  <2>1. key \in DOMAIN FromPairs(seen)
    BY <1>2 DEF data
  <2> QED BY <1>5, <2>1, PairsAre
<1>8. /\ DOMAIN all = DOMAIN kept \cup (IF RawAttributes(nodes[e]) = <<>> THEN {} ELSE {0})
      /\ \A i \in DOMAIN kept : all[i] = kept[i]
      /\ RawAttributes(nodes[e]) # <<>> => all[0][1] = "#attributes"
  <2>1. /\ DOMAIN all = DOMAIN kept \cup (IF RawAttributes(nodes[e]) = <<>> THEN {} ELSE {0})
        /\ \A i \in DOMAIN kept : all[i] = kept[i]
        /\ RawAttributes(nodes[e]) # <<>> =>
             all[0] = <<"#attributes", Object(FromPairs(RawAttributes(nodes[e])))>>
    BY <1>5, PairsWithAttributes
  <2> HIDE DEF all
  <2> QED BY <2>1
<1> HIDE DEF all
<1>9. DOMAIN all \subseteq 0 .. n
  BY <1>5, <1>8
<1>10. k \in DOMAIN all /\ all[k][1] = N(k) /\ N(k) # "#attributes" /\ WithoutSpaces(N(k)) = key
  BY <1>4, <1>5, <1>6, <1>7, <1>8
<1>11. /\ N(k) \in DOMAIN FromPairs(all)
       /\ \E j \in DOMAIN all : /\ all[j][1] = N(k) /\ FromPairs(all)[N(k)] = all[j][2]
                                /\ \A i \in DOMAIN all : all[i][1] = N(k) => i <= j
  <2>1. N(k) \in DOMAIN FromPairs(all)
    BY <1>10 DEF FromPairs
  <2> QED BY <1>9, <2>1, PairsAre
<1>12. PICK j \in DOMAIN all : /\ all[j][1] = N(k) /\ FromPairs(all)[N(k)] = all[j][2]
                               /\ \A i \in DOMAIN all : all[i][1] = N(k) => i <= j
  BY <1>11
<1>13. j \in DOMAIN data
  <2>1. CASE RawAttributes(nodes[e]) = <<>>
    BY <1>5, <1>8, <2>1
  <2>2. CASE RawAttributes(nodes[e]) # <<>>
    BY <1>5, <1>8, <1>10, <1>12, <2>2
  <2> QED BY <2>1, <2>2
<1>14. N(j) = N(k) /\ seen[j][1] = key
  BY <1>5, <1>6, <1>8, <1>10, <1>12, <1>13
<1>15. j <= k /\ k <= j
  BY <1>5, <1>7, <1>10, <1>12, <1>13, <1>14
<1>16. j = k
  BY <1>5, <1>9, <1>13, <1>15
<1>17. /\ FromPairs(all)[N(k)] = NormalizeEventDataValue(N(k), data[k].text)
       /\ FromPairs(seen)[key] = String(data[k].text)
  BY <1>5, <1>6, <1>7, <1>8, <1>12, <1>13, <1>16
<1>18. Says(FromPairs(all)[N(k)], FromPairs(seen)[key])
  BY <1>17, NormalisedSaysTheSame
<1>19. N(k) \in DOMAIN FromPairs(all) \ {"#attributes"}
  BY <1>10, <1>11
<1> QED BY <1>2, <1>3, <1>10, <1>18, <1>19 DEF data

-----------------------------------------------------------------------------
(* What is read.                                                           *)

\* The members of the event in the two views, and the detection view with the
\* logsource of its collector.
Seen(nodes) == MembersOf(nodes, EventNode(nodes), <<>>, NodeToValue(nodes))
EventAttributes(node) ==
  (IF node.foreign THEN <<<<"xmlns", String("urn")>>>> ELSE <<>>) \o Attributes(node)
Kept(nodes) ==
  MembersOf(nodes, EventNode(nodes), EventAttributes(EventNode(nodes)), NodeToValueRaw(nodes))
Plain(nodes) == EventNodeToValue(nodes, EventNode(nodes))
Injected(document) ==
  WithInjectedLogsource(Plain(document.nodes), IF document.source = "linux" THEN "linux" ELSE "windows", "")

\* What a collector has made of its document.
ReadInv ==
  /\ xml \in Documents
  /\ \/ event \in {None, ParseError}
     \/ /\ EventNodes(xml.nodes) # {}
        /\ event = <<"event", [raw |-> EventNodeToValueRaw(xml.nodes, EventNode(xml.nodes)),
                               json |-> IF xml.source = "evtx" THEN StripRecordId(Injected(xml))
                                        ELSE Injected(xml)]>>

\* The event of a document is one of its elements.
LEMMA EventNodeIs ==
  ASSUME NEW nodes, IsTree(nodes), EventNodes(nodes) # {}
  PROVE  \E e \in DOMAIN nodes : EventNode(nodes) = nodes[e]
<1>1. nodes \in Seq(Element)
  BY DEF IsTree
<1>2. DOMAIN nodes \subseteq Nat
  <2>1. Len(nodes) \in Nat /\ DOMAIN nodes = 1 .. Len(nodes)
    BY ONLY <1>1
  <2> QED BY ONLY <2>1
<1>3. EventNodes(nodes) \subseteq Nat /\ EventNodes(nodes) \subseteq DOMAIN nodes
  BY <1>2 DEF EventNodes
<1>4. Min(EventNodes(nodes)) \in EventNodes(nodes)
  BY <1>3, LeastOf
<1> QED BY <1>3, <1>4 DEF EventNode

\* The members of an object.
LEMMA GetOf ==
  ASSUME NEW f, NEW key
  PROVE  /\ key \in DOMAIN f => Get(Object(f), key) = f[key]
         /\ key \notin DOMAIN f => Get(Object(f), key) = Missing
BY DEF Get, Object

\* The logsource takes no place but its own.
LEMMA InjectedKeeps ==
  ASSUME NEW f, NEW product, NEW service, NEW key \in DOMAIN f,
         key \notin {"product", "service", "category", "Data"}
  PROVE  /\ WithInjectedLogsource(Object(f), product, service)[1] = "object"
         /\ key \in DOMAIN WithInjectedLogsource(Object(f), product, service)[2]
         /\ WithInjectedLogsource(Object(f), product, service)[2][key] = f[key]
BY DEF WithInjectedLogsource, Object

\* The detection view before it has a logsource.
LEMMA PlainIs ==
  ASSUME NEW nodes
  PROVE  /\ Plain(nodes)[1] = "object"
         /\ DOMAIN Plain(nodes)[2] = {"_source", "Event"}
         /\ Plain(nodes) = Object(Plain(nodes)[2])
         /\ Plain(nodes)[2]["Event"] = Object(Seen(nodes))
         /\ Get(Plain(nodes), "Event") = Object(Seen(nodes))
BY DEF Plain, EventNodeToValue, Object, Seen, Get

\* The event is what it was before the logsource was put beside it.
LEMMA InjectedEvent ==
  ASSUME NEW document
  PROVE  /\ Injected(document)[1] = "object" /\ "Event" \in DOMAIN Injected(document)[2]
         /\ Injected(document)[2]["Event"] = Object(Seen(document.nodes))
         /\ Get(Injected(document), "Event") = Object(Seen(document.nodes))
<1> DEFINE f == Plain(document.nodes)[2]
           product == IF document.source = "linux" THEN "linux" ELSE "windows"
<1>1. Plain(document.nodes) = Object(f) /\ "Event" \in DOMAIN f
      /\ f["Event"] = Object(Seen(document.nodes))
  BY PlainIs
<1>2. Injected(document) = WithInjectedLogsource(Object(f), product, "")
  BY <1>1 DEF Injected
<1>3. "Event" \notin {"product", "service", "category", "Data"}
  OBVIOUS
<1> HIDE DEF f, product
<1>4. /\ Injected(document)[1] = "object" /\ "Event" \in DOMAIN Injected(document)[2]
      /\ Injected(document)[2]["Event"] = f["Event"]
  <2> DEFINE service == ""
  <2>1. /\ WithInjectedLogsource(Object(f), product, service)[1] = "object"
        /\ "Event" \in DOMAIN WithInjectedLogsource(Object(f), product, service)[2]
        /\ WithInjectedLogsource(Object(f), product, service)[2]["Event"] = f["Event"]
    <3>1. "Event" \in DOMAIN f
      BY <1>1
    <3> HIDE DEF service
    <3> QED BY <1>3, <3>1, InjectedKeeps
  <2> QED BY <1>2, <2>1
<1> QED BY <1>1, <1>4 DEF Get

\* A value without some of its members.
Narrower(value, whole) ==
  \/ value = whole
  \/ /\ value[1] = "object" /\ whole[1] = "object"
     /\ \A key \in Keys(value) : key \in Keys(whole) /\ value[2][key] = whole[2][key]

\* Taking out the id of the record changes nothing else.
LEMMA StrippedIs ==
  ASSUME NEW json, json[1] = "object", "Event" \in DOMAIN json[2], NEW f,
         json[2]["Event"] = Object(f)
  PROVE  LET after == StripRecordId(json)
         IN /\ after[1] = "object" /\ DOMAIN after[2] = DOMAIN json[2]
            /\ \A key \in DOMAIN json[2] \ {"Event"} : after[2][key] = json[2][key]
            /\ \E g : /\ after[2]["Event"] = Object(g) /\ DOMAIN g = DOMAIN f
                      /\ \A key \in DOMAIN f \ {"System"} : g[key] = f[key]
                      /\ "System" \in DOMAIN f => Narrower(g["System"], f["System"])
                      /\ \A field : field # "EventRecordID" =>
                           Get(Get(Object(g), "System"), field) = Get(Get(Object(f), "System"), field)
<1>0. Get(json, "Event") = Object(f)
  BY DEF Get
<1>1. CASE Get(System(json), "EventRecordID") = Missing
  <2>1. StripRecordId(json) = json
    BY <1>1 DEF StripRecordId
  <2> QED BY <2>1 DEF Narrower
<1>2. CASE Get(System(json), "EventRecordID") # Missing
  <2> DEFINE system == f["System"][2]
             stripped == [key \in DOMAIN system \ {"EventRecordID"} |-> system[key]]
             g == [f EXCEPT !["System"] = Object(stripped)]
  <2>1. Get(Object(f), "System")[1] = "object"
    BY <1>0, <1>2 DEF System, Get
  <2>2. "System" \in DOMAIN f /\ Get(Object(f), "System") = f["System"] /\ f["System"][1] = "object"
    BY <2>1, GetOf DEF Missing
  <2>3. json[2]["Event"][2] = f
    BY DEF Object
  <2>4. StripRecordId(json) = Object([json[2] EXCEPT !["Event"] = Object(g)])
    BY <1>2, <2>3 DEF StripRecordId
  <2>5. DOMAIN g = DOMAIN f /\ g["System"] = Object(stripped)
        /\ \A key \in DOMAIN f \ {"System"} : g[key] = f[key]
    BY <2>2
  <2>6. Get(Object(g), "System") = Object(stripped)
    BY <2>2, <2>5, GetOf
  <2>7. ASSUME NEW field, field # "EventRecordID"
        PROVE  Get(Object(stripped), field) = Get(f["System"], field)
    <3>1. field \in DOMAIN stripped <=> field \in DOMAIN system
      BY <2>7
    <3>2. field \in DOMAIN stripped => stripped[field] = system[field]
      OBVIOUS
    <3> QED BY <2>2, <3>1, <3>2 DEF Get, Object
  <2>9. Narrower(Object(stripped), f["System"])
    BY <2>2 DEF Narrower, Keys, Object
  <2> HIDE DEF g, stripped, system
  <2>8. /\ StripRecordId(json)[1] = "object" /\ DOMAIN StripRecordId(json)[2] = DOMAIN json[2]
        /\ \A key \in DOMAIN json[2] \ {"Event"} : StripRecordId(json)[2][key] = json[2][key]
        /\ StripRecordId(json)[2]["Event"] = Object(g)
    BY <2>4 DEF Object
  <2> QED BY <2>2, <2>5, <2>6, <2>7, <2>8, <2>9
<1> QED BY <1>1, <1>2

\* What was read is the two views of an event.
LEMMA ViewsAre ==
  ASSUME ReadInv, IsEvent
  PROVE  /\ xml \in Documents /\ EventNodes(xml.nodes) # {}
         /\ event[2].raw = EventNodeToValueRaw(xml.nodes, EventNode(xml.nodes))
         /\ event[2].json = IF xml.source = "evtx" THEN StripRecordId(Injected(xml)) ELSE Injected(xml)
<1>1. event \notin {None, ParseError}
  <2>1. None[1] = "none" /\ ParseError[1] = "parse error"
    BY DEF None, ParseError
  <2>2. None[1] # "event" /\ ParseError[1] # "event"
    BY <2>1
  <2> QED BY <2>2 DEF IsEvent
<1> DEFINE views == [raw |-> EventNodeToValueRaw(xml.nodes, EventNode(xml.nodes)),
                     json |-> IF xml.source = "evtx" THEN StripRecordId(Injected(xml))
                              ELSE Injected(xml)]
<1>2. event = <<"event", views>> /\ EventNodes(xml.nodes) # {} /\ xml \in Documents
  BY <1>1 DEF ReadInv
<1>3. event[2] = views
  BY <1>2
<1> QED BY <1>2, <1>3

\* The event in the detection view of what was read.
LEMMA SeenIs ==
  ASSUME ReadInv, IsEvent
  PROVE  LET json == event[2].json
             f == Seen(xml.nodes)
         IN /\ json[1] = "object" /\ DOMAIN json[2] = DOMAIN Injected(xml)[2]
            /\ \A key \in DOMAIN json[2] \ {"Event"} : json[2][key] = Injected(xml)[2][key]
            /\ \E g : /\ Get(json, "Event") = Object(g) /\ DOMAIN g = DOMAIN f
                      /\ \A key \in DOMAIN f \ {"System"} : g[key] = f[key]
                      /\ "System" \in DOMAIN f => Narrower(g["System"], f["System"])
                      /\ \A field : field # "EventRecordID" =>
                           Get(System(json), field) = Get(Get(Object(f), "System"), field)
<1> DEFINE J == Injected(xml)
           json == event[2].json
           f == Seen(xml.nodes)
<1>1. J[1] = "object" /\ "Event" \in DOMAIN J[2] /\ J[2]["Event"] = Object(f)
      /\ Get(J, "Event") = Object(f)
  BY InjectedEvent
<1>2. json = StripRecordId(J) \/ json = J
  BY ViewsAre
<1> HIDE DEF J, f, json
<1>3. CASE json = J
  <2>1. \A field : Get(System(json), field) = Get(Get(Object(f), "System"), field)
    BY <1>1, <1>3 DEF System
  <2> QED BY <1>1, <1>3, <2>1 DEF J, f, json, Narrower
<1>4. CASE json = StripRecordId(J)
  <2>1. /\ json[1] = "object" /\ DOMAIN json[2] = DOMAIN J[2]
        /\ \A key \in DOMAIN J[2] \ {"Event"} : json[2][key] = J[2][key]
        /\ \E g : /\ json[2]["Event"] = Object(g) /\ DOMAIN g = DOMAIN f
                  /\ \A key \in DOMAIN f \ {"System"} : g[key] = f[key]
                  /\ "System" \in DOMAIN f => Narrower(g["System"], f["System"])
                  /\ \A field : field # "EventRecordID" =>
                       Get(Get(Object(g), "System"), field) = Get(Get(Object(f), "System"), field)
    BY <1>1, <1>4, StrippedIs
  <2>2. PICK g : /\ json[2]["Event"] = Object(g) /\ DOMAIN g = DOMAIN f
                 /\ \A key \in DOMAIN f \ {"System"} : g[key] = f[key]
                 /\ "System" \in DOMAIN f => Narrower(g["System"], f["System"])
                 /\ \A field : field # "EventRecordID" =>
                      Get(Get(Object(g), "System"), field) = Get(Get(Object(f), "System"), field)
    BY <2>1
  <2>3. Get(json, "Event") = Object(g)
    BY <1>1, <2>1, <2>2 DEF Get
  <2>4. \A field : field # "EventRecordID" =>
          Get(System(json), field) = Get(Get(Object(f), "System"), field)
    BY <2>2, <2>3 DEF System
  <2> QED BY <2>1, <2>2, <2>3, <2>4 DEF J, f, json
<1> QED BY <1>2, <1>3, <1>4

\* A collector reads its document once, and this is what it makes of it.
LEMMA ReadStep == ReadInv /\ [EventsNext]_eventsVars => ReadInv'
<1> SUFFICES ASSUME ReadInv, [EventsNext]_eventsVars PROVE ReadInv'
  OBVIOUS
<1>1. CASE FromEventLog
  BY <1>1 DEF FromEventLog, ReadWith, ReadInv, Injected, Plain
<1>2. CASE FromEvtxFile
  BY <1>2 DEF FromEvtxFile, ReadWith, ReadInv, Injected, Plain
<1>3. CASE FromSysmonLine
  BY <1>3 DEF FromSysmonLine, ReadWith, ReadInv, Injected, Plain
<1>4. CASE UNCHANGED eventsVars
  BY <1>4 DEF eventsVars, ReadInv
<1> QED BY <1>1, <1>2, <1>3, <1>4 DEF EventsNext

\* This holds in every behaviour.
LEMMA ReadOnce == EventsSpec => []ReadInv
<1>1. EventsInit => ReadInv
  BY DEF EventsInit, ReadInv
<1> QED BY <1>1, ReadStep, PTL DEF EventsSpec

\* The parts that there are: an element, of which the detection view may lack
\* members, the attributes of one, and the value of one of these.
IsElement(nodes, part) ==
  \E k \in DOMAIN nodes : /\ part.name = nodes[k].tag
                          /\ Narrower(part.json, NodeToValue(nodes)[k])
                          /\ part.raw = NodeToValueRaw(nodes)[k]
AreAttributes(nodes, part) ==
  \E k \in DOMAIN nodes : /\ part.name = "#attributes"
                          /\ part.json = Object(FromPairs(Attributes(nodes[k])))
                          /\ part.raw = Object(FromPairs(RawAttributes(nodes[k])))
IsAttribute(part) == /\ \E text : part.json = String(text) /\ Says(part.raw, part.json)
                     /\ part.raw[1] \in {"string", "number"}
IsPart(nodes, part) == IsElement(nodes, part) \/ AreAttributes(nodes, part) \/ IsAttribute(part)

\* Values by their kind.
LEMMA Kinds ==
  /\ \A f : Object(f)[1] = "object" /\ Object(f)[2] = f /\ Keys(Object(f)) = DOMAIN f
  /\ \A text : String(text)[1] = "string" /\ String(text)[2] = text /\ Keys(String(text)) = {}
               /\ TextOf(String(text)) = String(text)
  /\ \A n : Number(n)[1] = "number" /\ Keys(Number(n)) = {} /\ TextOf(Number(n)) = Number(n)
  /\ Null[1] = "null" /\ Missing[1] = "missing"
<1>1. \A f : Object(f)[1] = "object" /\ Object(f)[2] = f BY DEF Object
<1>2. \A text : String(text)[1] = "string" /\ String(text)[2] = text BY DEF String
<1>3. \A n : Number(n)[1] = "number" BY DEF Number
<1>4. Null[1] = "null" /\ Missing[1] = "missing" BY DEF Null, Missing
<1>5. \A f : Keys(Object(f)) = DOMAIN f BY <1>1 DEF Keys
<1>6. \A text : Keys(String(text)) = {} /\ TextOf(String(text)) = String(text)
  BY <1>2 DEF Keys, TextOf
<1>7. \A n : Keys(Number(n)) = {} /\ TextOf(Number(n)) = Number(n)
  BY <1>3 DEF Keys, TextOf
<1> QED BY <1>1, <1>2, <1>3, <1>4, <1>5, <1>6, <1>7

\* The object of an element: its members, and its text under a name of its own.
HasMembersAndText(nodes, node, attrs, value) ==
  LET object == Members(nodes, node, attrs, value)
      members == MembersOf(nodes, node, attrs, value)
  IN /\ object[1] = "object"
     /\ Keys(object) \ {"#text"} = DOMAIN members
     /\ \A key \in DOMAIN members : key \in Keys(object) /\ object[2][key] = members[key]
     /\ TextOf(object) = IF node.text = "" THEN Missing ELSE String(node.text)

\* Every element that has an object has one like this.
LEMMA MembersObjectIs ==
  ASSUME NEW nodes, IsTree(nodes), NEW e \in DOMAIN nodes, NEW attrs, NEW value
  PROVE  HasMembersAndText(nodes, nodes[e], attrs, value)
<1> DEFINE members == MembersOf(nodes, nodes[e], attrs, value)
           text == nodes[e].text
           all == IF text = "" THEN members
                  ELSE [key \in {"#text"} \cup DOMAIN members |->
                          IF key \in DOMAIN members THEN members[key] ELSE String(text)]
<1>1. "#text" \notin DOMAIN members
  <2>1. DOMAIN members = Tags(nodes, nodes[e]) \cup AttributesKey(attrs)
    BY MemberNames
  <2>2. "#text" \notin Tags(nodes, nodes[e])
    <3>1. \A k \in DOMAIN nodes[e].kids : nodes[e].kids[k] \in DOMAIN nodes
      BY DEF IsTree, Element
    <3> QED BY <3>1 DEF Tags, IsTree
  <2> QED BY <2>1, <2>2 DEF AttributesKey
<1>2. Members(nodes, nodes[e], attrs, value) = Object(all)
  BY DEF Members
<1> HIDE DEF members
<1>3. /\ DOMAIN all \ {"#text"} = DOMAIN members
      /\ \A key \in DOMAIN members : key \in DOMAIN all /\ all[key] = members[key]
      /\ text = "" => "#text" \notin DOMAIN all
      /\ text # "" => "#text" \in DOMAIN all /\ all["#text"] = String(text)
  BY <1>1
<1> HIDE DEF all
<1>4. TextOf(Object(all)) = IF text = "" THEN Missing ELSE String(text)
  <2>1. TextOf(Object(all)) = Get(Object(all), "#text")
    BY Kinds DEF TextOf
  <2> QED BY <1>3, <2>1, GetOf
<1>5. Object(all)[1] = "object" /\ Object(all)[2] = all /\ Keys(Object(all)) = DOMAIN all
  BY Kinds
<1> QED BY <1>2, <1>3, <1>4, <1>5 DEF members, HasMembersAndText

\* n attributes in both views, and d pairs before them in the raw one.
AreShifted(attrs, seen, raw, n, d) ==
  /\ DOMAIN seen = 1 .. n /\ DOMAIN raw = 1 .. (d + n)
  /\ attrs # <<>> => n > 0
  /\ n > 0 => seen # <<>> /\ raw # <<>>
  /\ \A k \in 1 .. n : /\ seen[k] = <<attrs[k][1], String(attrs[k][2])>>
                       /\ raw[d + k] = <<attrs[k][1], NormalizeString(attrs[k][2])>>

\* The attributes of an element are in both views: the raw one has a namespace in
\* front of them, and each value normalised.
LEMMA AttributesAre ==
  ASSUME NEW nodes, IsTree(nodes), NEW e \in DOMAIN nodes
  PROVE  \E n \in Nat, d \in {0, 1} :
           AreShifted(nodes[e].attrs, Attributes(nodes[e]), RawAttributes(nodes[e]), n, d)
<1> DEFINE attrs == nodes[e].attrs
           n == Len(attrs)
           own == [k \in DOMAIN attrs |-> <<attrs[k][1], NormalizeString(attrs[k][2])>>]
           space == IF nodes[e].foreign THEN <<<<"xmlns", String("urn")>>>> ELSE <<>>
           d == IF nodes[e].foreign THEN 1 ELSE 0
           S == {own[k] : k \in 1 .. n} \cup {<<"xmlns", String("urn")>>}
<1>1. attrs \in Seq(STRING \X STRING)
  <2>1. nodes[e] \in Element BY DEF IsTree
  <2> QED BY <2>1 DEF Element
<1>2. n \in Nat /\ DOMAIN attrs = 1 .. n /\ (attrs # <<>> => n > 0)
  BY <1>1
<1>3. RawAttributes(nodes[e]) = space \o own
  BY DEF RawAttributes
<1>4. d \in {0, 1}
  OBVIOUS
<1>5. space \in Seq(S) /\ Len(space) = d
  <2>1. <<"xmlns", String("urn")>> \in S
    OBVIOUS
  <2> HIDE DEF S
  <2> QED BY <2>1
<1>6. own \in Seq(S) /\ Len(own) = n
  <2>1. own = [k \in 1 .. n |-> own[k]] /\ \A k \in 1 .. n : own[k] \in S
    BY <1>2
  <2> HIDE DEF own, S, n
  <2>2. own \in [1 .. n -> S]
    BY <2>1
  <2> QED BY <1>2, <2>2
<1>7. \A k \in 1 .. n : own[k] = <<attrs[k][1], NormalizeString(attrs[k][2])>>
  BY <1>2
<1>8. \A k \in 1 .. n : Attributes(nodes[e])[k] = <<attrs[k][1], String(attrs[k][2])>>
  BY <1>2 DEF Attributes
<1>9. DOMAIN Attributes(nodes[e]) = 1 .. n
  BY <1>2 DEF Attributes
<1> HIDE DEF own, space, S, n, attrs, d
<1>10. /\ DOMAIN (space \o own) = 1 .. (d + n)
       /\ \A k \in 1 .. n : (space \o own)[d + k] = own[k]
  BY <1>2, <1>4, <1>5, <1>6
<1>11. n > 0 => Attributes(nodes[e]) # <<>> /\ RawAttributes(nodes[e]) # <<>>
  <2> SUFFICES ASSUME n > 0 PROVE Attributes(nodes[e]) # <<>> /\ RawAttributes(nodes[e]) # <<>>
    OBVIOUS
  <2>1. 1 \in DOMAIN Attributes(nodes[e]) /\ 1 \in DOMAIN RawAttributes(nodes[e])
    BY <1>2, <1>3, <1>4, <1>9, <1>10
  <2> QED BY <2>1
<1>12. \A k \in 1 .. n : RawAttributes(nodes[e])[d + k] = <<attrs[k][1], NormalizeString(attrs[k][2])>>
  BY <1>3, <1>7, <1>10
<1>13. AreShifted(attrs, Attributes(nodes[e]), RawAttributes(nodes[e]), n, d)
  BY <1>2, <1>3, <1>8, <1>9, <1>10, <1>11, <1>12 DEF AreShifted, attrs
<1> QED BY <1>2, <1>4, <1>13 DEF attrs

\* So each has its value in both, the last one of its name.
LEMMA AttributesInBoth ==
  ASSUME NEW nodes, IsTree(nodes), NEW e \in DOMAIN nodes
  PROVE  LET seen == FromPairs(Attributes(nodes[e]))
             raw == FromPairs(RawAttributes(nodes[e]))
         IN /\ Attributes(nodes[e]) # <<>> => RawAttributes(nodes[e]) # <<>>
            /\ RawAttributes(nodes[e]) = <<>> => nodes[e].attrs = <<>>
            /\ \A key \in DOMAIN seen :
                 /\ key \in DOMAIN raw
                 /\ \E text : seen[key] = String(text) /\ raw[key] = NormalizeString(text)
<1> DEFINE attrs == nodes[e].attrs
           first == Attributes(nodes[e])
           second == RawAttributes(nodes[e])
           seen == FromPairs(first)
           raw == FromPairs(second)
<1>0. PICK n \in Nat, d \in {0, 1} : AreShifted(attrs, first, second, n, d)
  BY AttributesAre
<1>1. /\ DOMAIN first = 1 .. n /\ DOMAIN second = 1 .. (d + n)
      /\ attrs # <<>> => n > 0
      /\ n > 0 => first # <<>> /\ second # <<>>
      /\ \A k \in 1 .. n : /\ first[k] = <<attrs[k][1], String(attrs[k][2])>>
                           /\ second[d + k] = <<attrs[k][1], NormalizeString(attrs[k][2])>>
  BY <1>0 DEF AreShifted
<1>2. attrs = <<>> => first = <<>>
  BY DEF Attributes
<1> HIDE DEF first, second, attrs
<1>3. /\ DOMAIN seen = {first[k][1] : k \in DOMAIN first}
      /\ \A key \in DOMAIN seen : \E k \in DOMAIN first :
           /\ first[k][1] = key /\ seen[key] = first[k][2]
           /\ \A i \in DOMAIN first : first[i][1] = key => i <= k
  <2>1. DOMAIN first \subseteq 0 .. n BY <1>1
  <2> QED BY <2>1, PairsAre
<1>4. /\ DOMAIN raw = {second[k][1] : k \in DOMAIN second}
      /\ \A key \in DOMAIN raw : \E k \in DOMAIN second :
           /\ second[k][1] = key /\ raw[key] = second[k][2]
           /\ \A i \in DOMAIN second : second[i][1] = key => i <= k
  <2>1. DOMAIN second \subseteq 0 .. (d + n) /\ d + n \in Nat BY <1>1
  <2> QED BY <2>1, PairsAre
<1> HIDE DEF seen, raw
<1>5. ASSUME NEW key \in DOMAIN seen
      PROVE  /\ key \in DOMAIN raw
             /\ \E text : seen[key] = String(text) /\ raw[key] = NormalizeString(text)
  <2>1. PICK k \in DOMAIN first :
          /\ first[k][1] = key /\ seen[key] = first[k][2]
          /\ \A i \in DOMAIN first : first[i][1] = key => i <= k
    BY <1>3
  <2>2. k \in 1 .. n /\ d + k \in DOMAIN second /\ attrs[k][1] = key /\ second[d + k][1] = key
    BY <1>1, <2>1
  <2>3. key \in DOMAIN raw
    BY <1>4, <2>2
  <2>4. PICK j \in DOMAIN second :
          /\ second[j][1] = key /\ raw[key] = second[j][2]
          /\ \A i \in DOMAIN second : second[i][1] = key => i <= j
    BY <1>4, <2>3
  <2>5. j \in 1 .. (d + n) /\ d + k <= j
    BY <1>1, <2>2, <2>4
  <2>6. j - d \in 1 .. n /\ d + (j - d) = j
    BY <1>1, <2>2, <2>5
  <2>7. first[j - d][1] = key
    <3>1. first[j - d][1] = attrs[j - d][1] /\ second[d + (j - d)][1] = attrs[j - d][1]
      BY <1>1, <2>6
    <3> QED BY <2>4, <2>6, <3>1
  <2>8. j - d <= k
    BY <1>1, <2>1, <2>6, <2>7
  <2>9. j = d + k
    BY <1>1, <2>2, <2>5, <2>8
  <2>10. seen[key] = String(attrs[k][2]) /\ raw[key] = NormalizeString(attrs[k][2])
    BY <1>1, <2>1, <2>2, <2>4, <2>9
  <2> QED BY <2>3, <2>10
<1>6. first # <<>> => second # <<>>
  BY <1>1, <1>2
<1>7. second = <<>> => attrs = <<>>
  BY <1>1
<1> QED BY <1>5, <1>6, <1>7 DEF seen, raw, first, second, attrs

\* The two values of an element that is no EventData: a text and its number, or
\* two objects, or nothing at all.
LEMMA ValuesOf ==
  ASSUME NEW nodes, IsTree(nodes), NEW e \in DOMAIN nodes, nodes[e].tag # "EventData"
  PROVE  LET json == NodeToValue(nodes)[e]
             raw == NodeToValueRaw(nodes)[e]
             object == Members(nodes, nodes[e], RawAttributes(nodes[e]), NodeToValueRaw(nodes))
             text == nodes[e].text
         IN \/ /\ json \in {Number(Unsigned(text)), String(text)} /\ text # ""
               /\ json = Number(Unsigned(text)) => Unsigned(text) # ""
               /\ raw = object \/ raw = String(text)
                    \/ (raw = MaybeNumber(text) /\ MaybeNumber(text) # Missing)
            \/ /\ json = Members(nodes, nodes[e], Attributes(nodes[e]), NodeToValue(nodes))
               /\ raw = object
            \/ /\ json = Members(nodes, nodes[e], Attributes(nodes[e]), NodeToValue(nodes))
               /\ raw = Null /\ nodes[e].kids = <<>> /\ nodes[e].attrs = <<>> /\ text = ""
<1> DEFINE json == NodeToValue(nodes)[e]
           raw == NodeToValueRaw(nodes)[e]
           text == nodes[e].text
           plain == nodes[e].kids = <<>> /\ nodes[e].attrs = <<>> /\ text # ""
           plainRaw == nodes[e].kids = <<>> /\ RawAttributes(nodes[e]) = <<>>
           object == Members(nodes, nodes[e], RawAttributes(nodes[e]), NodeToValueRaw(nodes))
           seen == Members(nodes, nodes[e], Attributes(nodes[e]), NodeToValue(nodes))
<1>1. json = IF ~plain THEN seen
             ELSE IF Unsigned(text) # "" THEN Number(Unsigned(text)) ELSE String(text)
  BY NodeValue DEF ValueWith
<1>2. raw = IF ~plainRaw THEN object ELSE IF text = "" THEN Null
            ELSE IF MaybeNumber(text) # Missing THEN MaybeNumber(text) ELSE String(text)
  BY NodeValueRaw DEF ValueWith
<1>3. RawAttributes(nodes[e]) = <<>> => nodes[e].attrs = <<>>
  BY AttributesInBoth
<1> HIDE DEF object, seen, json, raw
<1>4. CASE plain
  <2>1. json \in {Number(Unsigned(text)), String(text)} /\ text # ""
        /\ (json = Number(Unsigned(text)) => Unsigned(text) # "")
    <3>1. Number(Unsigned(text)) # String(text)
      BY Kinds
    <3> QED BY <1>1, <1>4, <3>1
  <2>2. raw = object \/ raw = String(text) \/ (raw = MaybeNumber(text) /\ MaybeNumber(text) # Missing)
    BY <1>2, <1>4
  <2> QED BY <2>1, <2>2 DEF object, json, raw
<1>5. CASE ~plain /\ ~plainRaw
  BY <1>1, <1>2, <1>5 DEF object, seen, json, raw
<1>6. CASE ~plain /\ plainRaw
  BY <1>1, <1>2, <1>3, <1>6 DEF object, seen, json, raw
<1> QED BY <1>4, <1>5, <1>6

\* A value without some members has no other text.
LEMMA NarrowerText ==
  ASSUME NEW value, NEW whole, Narrower(value, whole)
  PROVE  TextOf(value) \in {TextOf(whole), Missing}
<1>1. CASE value # whole
  <2>1. /\ value[1] = "object" /\ whole[1] = "object"
        /\ \A key \in DOMAIN value[2] : key \in DOMAIN whole[2] /\ value[2][key] = whole[2][key]
    BY <1>1 DEF Narrower, Keys
  <2> QED BY <2>1 DEF TextOf, Get
<1> QED BY <1>1

\* An element is in the raw view.
LEMMA ElementIsWritten ==
  ASSUME NEW nodes, IsTree(nodes),
         \A k \in DOMAIN nodes : NamesAreFields(DataKids(nodes, nodes[k])),
         NEW part, IsElement(nodes, part)
  PROVE  IsWritten(part)
<1>1. PICK e \in DOMAIN nodes : /\ part.name = nodes[e].tag
                                /\ Narrower(part.json, NodeToValue(nodes)[e])
                                /\ part.raw = NodeToValueRaw(nodes)[e]
  BY DEF IsElement
<1> DEFINE json == NodeToValue(nodes)[e]
           raw == NodeToValueRaw(nodes)[e]
           text == nodes[e].text
<1>2. CASE nodes[e].tag = "EventData"
  <2> DEFINE data == DataKids(nodes, nodes[e])
  <2>1. json = EventDataDetection(data) /\ raw = EventDataRaw(nodes[e], data)
    <3>1. json = ValueWith(nodes, "json", e, NodeToValue(nodes))
          /\ raw = ValueWith(nodes, "raw", e, NodeToValueRaw(nodes))
      BY NodeValue, NodeValueRaw
    <3> HIDE DEF json, raw
    <3> QED BY <1>2, <3>1 DEF ValueWith
  <2>2. json[1] = "object" /\ raw[1] = "object"
    BY <2>1, Kinds DEF EventDataDetection, EventDataRaw
  <2>3. \A key \in Keys(json) : \E name \in Keys(raw) \ {"#attributes"} :
          WithoutSpaces(name) = key /\ Says(raw[2][name], json[2][key])
    BY <2>1, <2>2, DataIsRecorded DEF Keys
  <2> HIDE DEF json, raw
  <2>4. \A key \in Keys(part.json) : key \in Keys(json) /\ part.json[2][key] = json[2][key]
    BY <1>1 DEF Narrower, json
  <2>5. part.raw = raw BY <1>1 DEF raw
  <2>6. raw # Missing BY <2>2, Kinds
  <2> QED BY <1>1, <1>2, <2>3, <2>4, <2>5, <2>6 DEF IsWritten
<1>3. CASE nodes[e].tag # "EventData"
  <2> DEFINE object == Members(nodes, nodes[e], RawAttributes(nodes[e]), NodeToValueRaw(nodes))
             seen == Members(nodes, nodes[e], Attributes(nodes[e]), NodeToValue(nodes))
             own == IF text = "" THEN Missing ELSE String(text)
  <2>1. object[1] = "object" /\ TextOf(object) = own /\ TextOf(seen) = own
    <3>1. /\ HasMembersAndText(nodes, nodes[e], RawAttributes(nodes[e]), NodeToValueRaw(nodes))
          /\ HasMembersAndText(nodes, nodes[e], Attributes(nodes[e]), NodeToValue(nodes))
      BY MembersObjectIs
    <3> QED BY <3>1 DEF HasMembersAndText
  <2>2. \/ /\ json \in {Number(Unsigned(text)), String(text)} /\ text # ""
           /\ json = Number(Unsigned(text)) => Unsigned(text) # ""
           /\ raw = object \/ raw = String(text)
                \/ (raw = MaybeNumber(text) /\ MaybeNumber(text) # Missing)
        \/ json = seen /\ raw = object
        \/ json = seen /\ raw = Null /\ text = ""
    BY <1>3, ValuesOf
  <2> HIDE DEF object, seen, json, raw
  <2>3. raw # Missing /\ (TextOf(json) # Missing => Says(TextOf(raw), TextOf(json)))
    <3>1. CASE json = seen /\ raw = Null /\ text = ""
      BY <2>1, <3>1, Kinds
    <3>2. CASE json = seen /\ raw = object
      BY <2>1, <3>2, Kinds, NormalisedSaysTheSame
    <3>3. CASE /\ json \in {Number(Unsigned(text)), String(text)} /\ text # ""
               /\ json = Number(Unsigned(text)) => Unsigned(text) # ""
               /\ raw = object \/ raw = String(text)
                    \/ (raw = MaybeNumber(text) /\ MaybeNumber(text) # Missing)
      <4>1. TextOf(json) = json BY <3>3, Kinds
      <4>2. raw # Missing /\ TextOf(raw) \in {String(text), MaybeNumber(text)}
            /\ (TextOf(raw) = String(text) \/ MaybeNumber(text) # Missing)
        <5>1. CASE raw = object BY <2>1, <3>3, <5>1, Kinds
        <5>2. CASE raw = String(text) BY <5>2, Kinds
        <5>3. CASE raw = MaybeNumber(text) /\ MaybeNumber(text) # Missing
          <6>1. raw[1] = "number" BY <5>3, NumbersAre
          <6>2. TextOf(raw) = raw BY <6>1 DEF TextOf
          <6> QED BY <5>3, <6>2
        <5> QED BY <3>3, <5>1, <5>2, <5>3
      <4>3. Says(TextOf(raw), json)
        <5>1. CASE json = String(text) BY <4>2, <5>1, NormalisedSaysTheSame
        <5>2. CASE json = Number(Unsigned(text)) /\ Unsigned(text) # ""
          BY <4>2, <5>2, NormalisedSaysTheSame
        <5> QED BY <3>3, <5>1, <5>2
      <4> QED BY <4>1, <4>2, <4>3
    <3> QED BY <2>2, <3>1, <3>2, <3>3
  <2>4. TextOf(part.json) \in {TextOf(json), Missing}
    BY <1>1, NarrowerText DEF json
  <2> QED BY <1>1, <1>3, <2>3, <2>4 DEF IsWritten, raw
<1> QED BY <1>2, <1>3

\* What is inside an element, its children and its attributes, are parts.
LEMMA InsideAnElement ==
  ASSUME NEW nodes, IsTree(nodes), NEW part, IsElement(nodes, part), part.name # "EventData",
         NEW key \in Keys(part.json) \ {"#text"}
  PROVE  IsPart(nodes, [name |-> key, json |-> part.json[2][key], raw |-> Get(part.raw, key)])
<1>1. PICK e \in DOMAIN nodes : /\ part.name = nodes[e].tag
                                /\ Narrower(part.json, NodeToValue(nodes)[e])
                                /\ part.raw = NodeToValueRaw(nodes)[e]
  BY DEF IsElement
<1> DEFINE json == NodeToValue(nodes)[e]
           raw == NodeToValueRaw(nodes)[e]
           text == nodes[e].text
           object == Members(nodes, nodes[e], RawAttributes(nodes[e]), NodeToValueRaw(nodes))
           seen == Members(nodes, nodes[e], Attributes(nodes[e]), NodeToValue(nodes))
           attrs == Attributes(nodes[e])
           attrsRaw == RawAttributes(nodes[e])
           ms == MembersOf(nodes, nodes[e], attrs, NodeToValue(nodes))
           mr == MembersOf(nodes, nodes[e], attrsRaw, NodeToValueRaw(nodes))
<1>2. /\ object[1] = "object" /\ Keys(seen) \ {"#text"} = DOMAIN ms
      /\ \A x \in DOMAIN ms : seen[2][x] = ms[x]
      /\ \A x \in DOMAIN mr : x \in Keys(object) /\ object[2][x] = mr[x]
  <2>1. /\ HasMembersAndText(nodes, nodes[e], attrsRaw, NodeToValueRaw(nodes))
        /\ HasMembersAndText(nodes, nodes[e], attrs, NodeToValue(nodes))
    BY MembersObjectIs
  <2> QED BY <2>1 DEF HasMembersAndText
<1>3. /\ DOMAIN ms = Tags(nodes, nodes[e]) \cup AttributesKey(attrs)
      /\ DOMAIN mr = Tags(nodes, nodes[e]) \cup AttributesKey(attrsRaw)
      /\ "#attributes" \notin Tags(nodes, nodes[e])
  BY MemberNames, NoAttributesTag
<1>4. \/ Keys(json) = {}
      \/ json = seen /\ raw = object
      \/ json = seen /\ nodes[e].kids = <<>> /\ attrs = <<>>
  <2>1. nodes[e].attrs = <<>> => attrs = <<>> BY DEF Attributes
  <2>2. nodes[e].tag # "EventData" BY <1>1
  <2>3. \/ json \in {Number(Unsigned(text)), String(text)}
        \/ json = seen /\ raw = object
        \/ json = seen /\ nodes[e].kids = <<>> /\ nodes[e].attrs = <<>>
    BY <2>2, ValuesOf
  <2> HIDE DEF json, raw, object, seen, attrs
  <2>4. Keys(Number(Unsigned(text))) = {} /\ Keys(String(text)) = {} BY Kinds
  <2> QED BY <2>1, <2>3, <2>4
<1>5. key \in Keys(json) /\ part.json[2][key] = json[2][key]
  BY <1>1 DEF Narrower
<1>6. json = seen /\ raw = object
  <2>1. ASSUME json = seen, nodes[e].kids = <<>>, attrs = <<>> PROVE FALSE
    <3>1. Tags(nodes, nodes[e]) = {} BY <2>1 DEF Tags
    <3>2. AttributesKey(attrs) = {} BY <2>1 DEF AttributesKey
    <3>3. key \in DOMAIN ms
      <4> HIDE DEF json, seen, ms
      <4> QED BY <1>2, <1>5, <2>1
    <3> QED BY <1>3, <3>1, <3>2, <3>3
  <2> QED BY <1>4, <1>5, <2>1
<1> HIDE DEF json, raw, object, seen, ms, mr, attrs, attrsRaw
<1>7. key \in DOMAIN ms /\ part.json[2][key] = ms[key]
  BY <1>2, <1>5, <1>6
<1>8. key \in DOMAIN mr => Get(part.raw, key) = mr[key]
  <2>1. part.raw = object BY <1>1, <1>6 DEF raw
  <2> QED BY <1>2, <2>1 DEF Get, Keys
<1>9. CASE key \in Tags(nodes, nodes[e])
  <2>1. PICK k : IsLast(nodes, nodes[e], k, key) BY <1>9, LastKid
  <2>2. ms[key] = NodeToValue(nodes)[nodes[e].kids[k]] BY <2>1, LastMember DEF ms
  <2>3. mr[key] = NodeToValueRaw(nodes)[nodes[e].kids[k]] BY <2>1, LastMember DEF mr
  <2>4. nodes[e].kids[k] \in DOMAIN nodes /\ nodes[nodes[e].kids[k]].tag = key
    BY <2>1 DEF IsLast
  <2>5. key \in DOMAIN mr BY <1>3, <1>9
  <2> DEFINE inner == [name |-> key, json |-> part.json[2][key], raw |-> Get(part.raw, key)]
  <2>6. inner.name = key /\ inner.json = part.json[2][key] /\ inner.raw = Get(part.raw, key)
    OBVIOUS
  <2> HIDE DEF inner
  <2>7. IsElement(nodes, inner)
    BY <1>7, <1>8, <2>2, <2>3, <2>4, <2>5, <2>6 DEF IsElement, Narrower
  <2> QED BY <2>7 DEF IsPart, inner
<1>10. CASE key \notin Tags(nodes, nodes[e])
  <2>1. key = "#attributes" /\ attrs # <<>>
    BY <1>3, <1>7, <1>10 DEF AttributesKey
  <2>2. attrsRaw # <<>>
    BY <2>1, AttributesInBoth DEF attrs, attrsRaw
  <2>3. ms[key] = Object(FromPairs(attrs)) BY <2>1, AttributesMember DEF ms
  <2>4. key \in DOMAIN mr /\ mr[key] = Object(FromPairs(attrsRaw))
    BY <1>3, <2>1, <2>2, AttributesMember DEF mr, AttributesKey
  <2> DEFINE inner == [name |-> key, json |-> part.json[2][key], raw |-> Get(part.raw, key)]
  <2>5. inner.name = key /\ inner.json = part.json[2][key] /\ inner.raw = Get(part.raw, key)
    OBVIOUS
  <2> HIDE DEF inner
  <2>6. AreAttributes(nodes, inner)
    BY <1>7, <1>8, <2>1, <2>3, <2>4, <2>5 DEF AreAttributes, attrs, attrsRaw
  <2> QED BY <2>6 DEF IsPart, inner
<1> QED BY <1>9, <1>10

\* Attributes are in the raw view.
LEMMA AttributesAreWritten ==
  ASSUME NEW nodes, IsTree(nodes), NEW part, AreAttributes(nodes, part)
  PROVE  IsWritten(part)
<1>1. PICK e \in DOMAIN nodes : /\ part.name = "#attributes"
                                /\ part.json = Object(FromPairs(Attributes(nodes[e])))
                                /\ part.raw = Object(FromPairs(RawAttributes(nodes[e])))
  BY DEF AreAttributes
<1> DEFINE seen == FromPairs(Attributes(nodes[e]))
           raw == FromPairs(RawAttributes(nodes[e]))
<1>2. \A key \in DOMAIN seen :
        /\ key \in DOMAIN raw
        /\ \E text : seen[key] = String(text) /\ raw[key] = NormalizeString(text)
  BY AttributesInBoth
<1> HIDE DEF seen, raw
<1>3. TextOf(part.json) = Get(Object(seen), "#text") /\ TextOf(part.raw) = Get(Object(raw), "#text")
  BY <1>1, Kinds DEF TextOf, seen, raw
<1>4. CASE "#text" \in DOMAIN seen
  <2>1. PICK text : seen["#text"] = String(text) /\ raw["#text"] = NormalizeString(text)
                    /\ "#text" \in DOMAIN raw
    BY <1>2, <1>4
  <2>2. TextOf(part.json) = String(text) /\ TextOf(part.raw) = NormalizeString(text)
    BY <1>3, <1>4, <2>1, GetOf
  <2>3. Says(TextOf(part.raw), TextOf(part.json))
    BY <2>2, NormalisedSaysTheSame
  <2>4. part.raw # Missing
    BY <1>1, Kinds
  <2> QED BY <1>1, <2>3, <2>4 DEF IsWritten
<1>5. CASE "#text" \notin DOMAIN seen
  <2>1. TextOf(part.json) = Missing
    BY <1>3, <1>5, GetOf
  <2>2. part.raw # Missing
    BY <1>1, Kinds
  <2> QED BY <1>1, <2>1, <2>2 DEF IsWritten
<1> QED BY <1>4, <1>5

\* So is each of them.
LEMMA AttributeIsWritten ==
  ASSUME NEW part, IsAttribute(part)
  PROVE  IsWritten(part)
<1>1. PICK text : part.json = String(text) /\ Says(part.raw, part.json)
                  /\ part.raw[1] \in {"string", "number"}
  BY DEF IsAttribute
<1>2. Keys(part.json) = {} /\ TextOf(part.json) = part.json
  BY <1>1, Kinds
<1>3. TextOf(part.raw) = part.raw
  BY <1>1 DEF TextOf
<1>4. part.raw # Missing
  BY <1>1, Kinds
<1> QED BY <1>1, <1>2, <1>3, <1>4 DEF IsWritten

\* What is inside attributes is one of them.
LEMMA InsideAttributes ==
  ASSUME NEW nodes, IsTree(nodes), NEW part, AreAttributes(nodes, part),
         NEW key \in Keys(part.json)
  PROVE  IsAttribute([name |-> key, json |-> part.json[2][key], raw |-> Get(part.raw, key)])
<1>1. PICK e \in DOMAIN nodes : /\ part.json = Object(FromPairs(Attributes(nodes[e])))
                                /\ part.raw = Object(FromPairs(RawAttributes(nodes[e])))
  BY DEF AreAttributes
<1> DEFINE seen == FromPairs(Attributes(nodes[e]))
           raw == FromPairs(RawAttributes(nodes[e]))
           inner == [name |-> key, json |-> part.json[2][key], raw |-> Get(part.raw, key)]
<1>2. \A x \in DOMAIN seen :
        /\ x \in DOMAIN raw
        /\ \E text : seen[x] = String(text) /\ raw[x] = NormalizeString(text)
  BY AttributesInBoth
<1>3. inner.json = part.json[2][key] /\ inner.raw = Get(part.raw, key)
  OBVIOUS
<1> HIDE DEF seen, raw, inner
<1>4. key \in DOMAIN seen /\ part.json[2][key] = seen[key]
  BY <1>1, Kinds DEF seen
<1>5. PICK text : seen[key] = String(text) /\ raw[key] = NormalizeString(text) /\ key \in DOMAIN raw
  BY <1>2, <1>4
<1>6. Get(part.raw, key) = NormalizeString(text)
  BY <1>1, <1>5, GetOf DEF raw
<1>7. NormalizeString(text)[1] \in {"string", "number"}
  <2>1. MaybeNumber(text) # Missing => MaybeNumber(text)[1] = "number"
    BY NumbersAre
  <2>2. \A s : String(s)[1] = "string"
    BY Kinds
  <2> QED BY <2>1, <2>2 DEF NormalizeString
<1>8. Says(NormalizeString(text), String(text))
  BY NormalisedSaysTheSame
<1>9. IsAttribute(inner)
  BY <1>3, <1>4, <1>5, <1>6, <1>7, <1>8 DEF IsAttribute
<1> QED BY <1>9 DEF inner

\* Whatever is inside parts is a part.
LEMMA InsideIsPart ==
  ASSUME NEW nodes, IsTree(nodes), NEW parts, \A part \in parts : IsPart(nodes, part)
  PROVE  \A inner \in Inside(parts) : IsPart(nodes, inner)
<1> SUFFICES ASSUME NEW part \in parts, part.name # "EventData",
                    NEW key \in Keys(part.json) \ {"#text"}
             PROVE  IsPart(nodes, [name |-> key, json |-> part.json[2][key], raw |-> Get(part.raw, key)])
  BY DEF Inside
<1>1. CASE IsElement(nodes, part)
  BY <1>1, InsideAnElement
<1>2. CASE AreAttributes(nodes, part)
  BY <1>2, InsideAttributes DEF IsPart
<1>3. CASE IsAttribute(part)
  <2>1. Keys(part.json) = {}
    BY <1>3, Kinds DEF IsAttribute
  <2> QED BY <2>1
<1> QED BY <1>1, <1>2, <1>3 DEF IsPart

\* What a rule saw is in the regression data.
LEMMA MatchedInv == ReadInv => WhatMatchedIsRecorded
<1> SUFFICES ASSUME ReadInv, IsEvent PROVE \A part \in Parts : IsWritten(part)
  BY DEF WhatMatchedIsRecorded
<1> DEFINE nodes == xml.nodes
           f == Seen(nodes)
           r == Kept(nodes)
<1>1. IsTree(nodes) /\ EventNodes(nodes) # {} /\ \A k \in DOMAIN nodes : NamesAreFields(DataKids(nodes, nodes[k]))
  <2>1. xml \in Documents /\ EventNodes(nodes) # {}
    BY ViewsAre
  <2> QED BY <2>1, DocumentsAssumption
<1>2. PICK e \in DOMAIN nodes : EventNode(nodes) = nodes[e]
  BY <1>1, EventNodeIs
<1>3. PICK g : /\ Get(event[2].json, "Event") = Object(g) /\ DOMAIN g = DOMAIN f
               /\ \A key \in DOMAIN f : Narrower(g[key], f[key])
  BY SeenIs DEF Narrower
<1>4. Get(event[2].raw, "Event") = Object(r)
  <2>1. event[2].raw = EventNodeToValueRaw(nodes, EventNode(nodes))
    BY ViewsAre
  <2>2. EventNodeToValueRaw(nodes, EventNode(nodes)) = Object([Event |-> Object(r)])
    BY DEF EventNodeToValueRaw, Kept, EventAttributes
  <2> HIDE DEF r
  <2>3. Get(Object([Event |-> Object(r)]), "Event") = Object(r)
    BY GetOf
  <2> QED BY <2>1, <2>2, <2>3
<1> DEFINE attrs == EventAttributes(nodes[e])
           none == <<>>
           value == NodeToValue(nodes)
           valueRaw == NodeToValueRaw(nodes)
<1>5. /\ f = MembersOf(nodes, nodes[e], none, value)
      /\ r = MembersOf(nodes, nodes[e], attrs, valueRaw)
  BY <1>2 DEF Seen, Kept
<1>6. AttributesKey(none) = {}
  BY DEF AttributesKey
<1>7. "#text" \notin Tags(nodes, nodes[e])
  <2>1. \A k \in DOMAIN nodes[e].kids : nodes[e].kids[k] \in DOMAIN nodes
    BY <1>1 DEF IsTree, Element
  <2> HIDE DEF nodes
  <2> QED BY <1>1, <2>1 DEF Tags, IsTree
<1> HIDE DEF f, r, nodes, attrs, none, value, valueRaw
<1>8. /\ DOMAIN g = Tags(nodes, nodes[e]) /\ DOMAIN f = Tags(nodes, nodes[e])
      /\ Tags(nodes, nodes[e]) \subseteq DOMAIN r
  <2>1. DOMAIN MembersOf(nodes, nodes[e], none, value)
          = Tags(nodes, nodes[e]) \cup AttributesKey(none)
    BY <1>1, MemberNames
  <2>2. DOMAIN MembersOf(nodes, nodes[e], attrs, valueRaw)
          = Tags(nodes, nodes[e]) \cup AttributesKey(attrs)
    BY <1>1, MemberNames
  <2> QED BY <1>3, <1>5, <1>6, <2>1, <2>2
<1> DEFINE whole == [name |-> "Event", json |-> Get(event[2].json, "Event"),
                     raw |-> Get(event[2].raw, "Event")]
<1>9. whole.name = "Event" /\ whole.json = Object(g) /\ whole.raw = Object(r)
  BY <1>3, <1>4
<1> HIDE DEF whole
<1>10. IsWritten(whole)
  <2>1. TextOf(whole.json) = Missing
    <3>1. TextOf(whole.json) = Get(Object(g), "#text")
      BY <1>9, Kinds DEF TextOf
    <3> QED BY <1>7, <1>8, <3>1, GetOf
  <2>2. whole.raw # Missing
    BY <1>9, Kinds
  <2> QED BY <1>9, <2>1, <2>2 DEF IsWritten
<1>11. \A inner \in Inside({whole}) : IsPart(nodes, inner)
  <2> SUFFICES ASSUME NEW key \in Keys(whole.json) \ {"#text"}
               PROVE  IsPart(nodes, [name |-> key, json |-> whole.json[2][key],
                                     raw |-> Get(whole.raw, key)])
    BY DEF Inside
  <2>1. key \in Tags(nodes, nodes[e]) /\ whole.json[2][key] = g[key] /\ Get(whole.raw, key) = r[key]
    BY <1>8, <1>9, Kinds, GetOf
  <2>2. PICK k : IsLast(nodes, nodes[e], k, key)
    BY <1>1, <2>1, LastKid
  <2>3. f[key] = value[nodes[e].kids[k]] /\ r[key] = valueRaw[nodes[e].kids[k]]
    <3>1. MembersOf(nodes, nodes[e], none, value)[key] = value[nodes[e].kids[k]]
      BY <1>1, <2>2, LastMember
    <3>2. MembersOf(nodes, nodes[e], attrs, valueRaw)[key] = valueRaw[nodes[e].kids[k]]
      BY <1>1, <2>2, LastMember
    <3> QED BY <1>5, <3>1, <3>2
  <2>4. nodes[e].kids[k] \in DOMAIN nodes /\ nodes[nodes[e].kids[k]].tag = key
    BY <2>2 DEF IsLast
  <2>5. Narrower(g[key], NodeToValue(nodes)[nodes[e].kids[k]])
    BY <1>3, <1>8, <2>1, <2>3 DEF value
  <2> DEFINE inner == [name |-> key, json |-> whole.json[2][key], raw |-> Get(whole.raw, key)]
  <2>6. inner.name = key /\ inner.json = whole.json[2][key] /\ inner.raw = Get(whole.raw, key)
    OBVIOUS
  <2> HIDE DEF inner
  <2>7. IsElement(nodes, inner)
    BY <2>1, <2>3, <2>4, <2>5, <2>6 DEF IsElement, valueRaw
  <2> QED BY <2>7 DEF IsPart, inner
<1> DEFINE sections == Inside({whole})
           members == Inside(sections)
           fields == Inside(members)
           attributes == Inside(fields)
           last == Inside(attributes)
<1>12. Parts = UNION {{whole}, sections, members, fields, attributes, last}
  BY DEF Parts, whole
<1> HIDE DEF sections, members, fields, attributes, last
<1>13. \A part \in sections : IsPart(nodes, part)
  BY <1>11 DEF sections
<1>14. \A part \in members : IsPart(nodes, part)
  BY <1>1, <1>13, InsideIsPart DEF members
<1>15. \A part \in fields : IsPart(nodes, part)
  BY <1>1, <1>14, InsideIsPart DEF fields
<1>16. \A part \in attributes : IsPart(nodes, part)
  BY <1>1, <1>15, InsideIsPart DEF attributes
<1>17. \A part \in last : IsPart(nodes, part)
  BY <1>1, <1>16, InsideIsPart DEF last
<1>18. \A part : IsPart(nodes, part) => IsWritten(part)
  BY <1>1, ElementIsWritten, AttributesAreWritten, AttributeIsWritten DEF IsPart
<1> QED BY <1>10, <1>12, <1>13, <1>14, <1>15, <1>16, <1>17, <1>18

\* Whatever a rule can match of an event, of any document that is a tree and
\* whatever its names, texts and depth, is written to the regression data.
THEOREM WhatMatchedIsWritten == EventsSpec => []WhatMatchedIsRecorded
BY ReadOnce, MatchedInv, PTL

-----------------------------------------------------------------------------
(* The fields of the System of an event.                                   *)

\* The only child of a name is the last one.
LEMMA OnlyKidIs ==
  ASSUME NEW nodes, IsTree(nodes), NEW e \in DOMAIN nodes, NEW tag, OnlyKid(nodes, nodes[e], tag)
  PROVE  \E k : IsLast(nodes, nodes[e], k, tag) /\ Kid(nodes, nodes[e], tag) = nodes[nodes[e].kids[k]]
<1> DEFINE kids == nodes[e].kids
<1>1. PICK k \in DOMAIN kids : \A i \in DOMAIN kids : nodes[kids[i]].tag = tag <=> i = k
  BY DEF OnlyKid
<1>2. tag \in Tags(nodes, nodes[e])
  BY <1>1 DEF Tags
<1>3. PICK l : IsLast(nodes, nodes[e], l, tag)
  BY <1>2, LastKid
<1>4. l = k
  BY <1>1, <1>3 DEF IsLast
<1>5. (CHOOSE i \in DOMAIN kids : nodes[kids[i]].tag = tag) = k
  BY <1>1
<1> QED BY <1>3, <1>4, <1>5 DEF Kid

\* It is what the object of its parent has under its name.
LEMMA OnlyMember ==
  ASSUME NEW nodes, IsTree(nodes), NEW e \in DOMAIN nodes, NEW tag, OnlyKid(nodes, nodes[e], tag),
         NEW attrs, NEW value
  PROVE  \E d \in DOMAIN nodes :
           /\ nodes[d].tag = tag /\ Kid(nodes, nodes[e], tag) = nodes[d]
           /\ tag \in DOMAIN MembersOf(nodes, nodes[e], attrs, value)
           /\ MembersOf(nodes, nodes[e], attrs, value)[tag] = value[d]
<1>1. PICK k : IsLast(nodes, nodes[e], k, tag) /\ Kid(nodes, nodes[e], tag) = nodes[nodes[e].kids[k]]
  BY OnlyKidIs
<1>2. MembersOf(nodes, nodes[e], attrs, value)[tag] = value[nodes[e].kids[k]]
  BY <1>1, LastMember
<1>3. tag \in Tags(nodes, nodes[e])
  BY <1>1 DEF IsLast, Tags
<1>4. tag \in DOMAIN MembersOf(nodes, nodes[e], attrs, value)
  <2>1. DOMAIN MembersOf(nodes, nodes[e], attrs, value) = Tags(nodes, nodes[e]) \cup AttributesKey(attrs)
    BY MemberNames
  <2> QED BY <1>3, <2>1
<1>5. nodes[e].kids[k] \in DOMAIN nodes /\ nodes[nodes[e].kids[k]].tag = tag
  BY <1>1 DEF IsLast
<1> QED BY <1>1, <1>2, <1>4, <1>5

\* A text beside the members hides none of them.
LEMMA GetMember ==
  ASSUME NEW nodes, NEW node, NEW attrs, NEW value, NEW key, key # "#text"
  PROVE  Get(Members(nodes, node, attrs, value), key)
           = Get(Object(MembersOf(nodes, node, attrs, value)), key)
<1> DEFINE members == MembersOf(nodes, node, attrs, value)
           all == [k \in {"#text"} \cup DOMAIN members |->
                     IF k \in DOMAIN members THEN members[k] ELSE String(node.text)]
<1>1. CASE node.text = ""
  BY <1>1 DEF Members
<1>2. CASE node.text # ""
  <2>1. Members(nodes, node, attrs, value) = Object(all)
    BY <1>2 DEF Members
  <2>2. key \in DOMAIN all <=> key \in DOMAIN members
    OBVIOUS
  <2>3. key \in DOMAIN members => all[key] = members[key]
    OBVIOUS
  <2> HIDE DEF all, members
  <2>4. Get(Object(all), key) = Get(Object(members), key)
    BY <2>2, <2>3, GetOf
  <2> QED BY <2>1, <2>4 DEF members
<1> QED BY <1>1, <1>2

\* Members makes an object.
LEMMA MembersObject ==
  ASSUME NEW nodes, NEW node, NEW attrs, NEW value
  PROVE  Members(nodes, node, attrs, value)[1] = "object"
BY DEF Members, Object

\* A field of the System in the detection view is the value of its element.
FieldIs(nodes, tag) ==
  \E d \in DOMAIN nodes :
    /\ nodes[d].tag = tag
    /\ Kid(nodes, Kid(nodes, EventNode(nodes), "System"), tag) = nodes[d]
    /\ Get(Get(Object(Seen(nodes)), "System"), tag) = NodeToValue(nodes)[d]

\* The three fields of the System that the tables are asked with.
LEMMA FieldsAre ==
  ASSUME NEW nodes, IsTree(nodes), EventNodes(nodes) # {}, HasSystem(nodes, EventNode(nodes)),
         NEW tag \in {"Provider", "EventID", "Channel"}
  PROVE  FieldIs(nodes, tag)
<1>1. PICK e \in DOMAIN nodes : EventNode(nodes) = nodes[e]
  BY EventNodeIs
<1> DEFINE top == "System"
           none == <<>>
           value == NodeToValue(nodes)
           f == MembersOf(nodes, nodes[e], none, value)
<1> HIDE DEF top, none, value
<1>2. OnlyKid(nodes, nodes[e], top)
  BY <1>1 DEF HasSystem, top
<1>3. PICK s \in DOMAIN nodes :
        /\ nodes[s].tag = top /\ Kid(nodes, nodes[e], top) = nodes[s]
        /\ top \in DOMAIN f /\ f[top] = value[s]
  BY <1>2, OnlyMember
<1> HIDE DEF f
<1>4. OnlyKid(nodes, nodes[s], tag)
  BY <1>1, <1>3 DEF HasSystem, top
<1> DEFINE attrs == Attributes(nodes[s])
<1> HIDE DEF attrs
<1>5. PICK d \in DOMAIN nodes :
        /\ nodes[d].tag = tag /\ Kid(nodes, nodes[s], tag) = nodes[d]
        /\ tag \in DOMAIN MembersOf(nodes, nodes[s], attrs, value)
        /\ MembersOf(nodes, nodes[s], attrs, value)[tag] = value[d]
  BY <1>4, OnlyMember
<1>6. nodes[s].kids # <<>>
  BY <1>4 DEF OnlyKid
<1>7. value[s] = Members(nodes, nodes[s], attrs, value)
  <2>1. NodeToValue(nodes)[s] = ValueWith(nodes, "json", s, NodeToValue(nodes))
    BY NodeValue
  <2>2. nodes[s].tag # "EventData"
    BY <1>3 DEF top
  <2> QED BY <1>6, <2>1, <2>2 DEF ValueWith, value, attrs
<1>8. tag # "#text"
  OBVIOUS
<1>9. Get(Members(nodes, nodes[s], attrs, value), tag) = value[d]
  <2>1. Get(Members(nodes, nodes[s], attrs, value), tag)
          = Get(Object(MembersOf(nodes, nodes[s], attrs, value)), tag)
    BY <1>8, GetMember
  <2> QED BY <1>5, <2>1, GetOf
<1>10. Get(Object(f), top) = value[s]
  BY <1>3, GetOf
<1>11. f = Seen(nodes)
  BY <1>1 DEF f, none, value, Seen
<1> QED BY <1>1, <1>3, <1>5, <1>7, <1>9, <1>10, <1>11 DEF FieldIs, top, value

\* The id of a text: what is no number is read as 0.
IdText(text) == IF Unsigned(text) # "" THEN Unsigned(text) ELSE "0"

\* What the tables read of such a value.
ReadsAs(value, text) ==
  /\ Text(value) = IF Unsigned(text) = "" THEN text ELSE ""
  /\ IdOf(value) = IdText(text)
  /\ value[1] = "object" => Get(value, "EventID") = Missing /\ IdText(text) = "0"

\* A text that is a number.
LEMMA NumberReads ==
  ASSUME NEW text, Unsigned(text) # ""
  PROVE  ReadsAs(Number(Unsigned(text)), text)
BY DEF ReadsAs, Number, Text, IdOf, IdText

\* A text that is none.
LEMMA StringReads ==
  ASSUME NEW text, Unsigned(text) = ""
  PROVE  ReadsAs(String(text), text)
BY DEF ReadsAs, String, Text, IdOf, IdText

\* An element with nothing but a text.
LEMMA PlainField ==
  ASSUME NEW nodes, IsTree(nodes), NEW d \in DOMAIN nodes, nodes[d].tag # "EventData",
         nodes[d].kids = <<>>, nodes[d].attrs = <<>>
  PROVE  ReadsAs(NodeToValue(nodes)[d], nodes[d].text)
<1> DEFINE value == NodeToValue(nodes)[d]
           text == nodes[d].text
<1>1. value = ValueWith(nodes, "json", d, NodeToValue(nodes))
  BY NodeValue
<1>2. CASE text # "" /\ Unsigned(text) # ""
  <2>1. value = Number(Unsigned(text))
    BY <1>1, <1>2 DEF ValueWith
  <2>2. ReadsAs(Number(Unsigned(text)), text)
    BY <1>2, NumberReads
  <2> QED BY <2>1, <2>2
<1>3. CASE text # "" /\ Unsigned(text) = ""
  <2>1. value = String(text)
    BY <1>1, <1>3 DEF ValueWith
  <2>2. ReadsAs(String(text), text)
    BY <1>3, StringReads
  <2> QED BY <2>1, <2>2
<1>4. CASE text = ""
  <2> DEFINE attrs == Attributes(nodes[d])
             values == NodeToValue(nodes)
             members == MembersOf(nodes, nodes[d], attrs, values)
  <2>1. value = Members(nodes, nodes[d], attrs, values)
    BY <1>1, <1>4 DEF ValueWith
  <2>2. Unsigned(text) = ""
    BY <1>4 DEF Unsigned
  <2>3. attrs = <<>>
    BY DEF Attributes
  <2>4. AttributesKey(attrs) = {} /\ Tags(nodes, nodes[d]) = {}
    BY <2>3 DEF AttributesKey, Tags
  <2> HIDE DEF attrs, values
  <2>5. DOMAIN members = {}
    <3>1. DOMAIN members = Tags(nodes, nodes[d]) \cup AttributesKey(attrs)
      <4>1. \A e \in DOMAIN nodes : \A a, v :
              DOMAIN MembersOf(nodes, nodes[e], a, v)
                = Tags(nodes, nodes[e]) \cup AttributesKey(a)
        BY MemberNames
      <4> QED BY <4>1
    <3> QED BY <2>4, <3>1
  <2> HIDE DEF members
  <2>6. value = Object(members)
    BY <1>4, <2>1 DEF Members, members
  <2>7. Get(value, "EventID") = Missing
    BY <2>5, <2>6, GetOf
  <2>8. value[1] = "object"
    BY <2>6 DEF Object
  <2> HIDE DEF value, text
  <2>9. Text(value) = "" /\ IdOf(value) = "0" /\ IdText(text) = "0"
    BY <1>4, <2>2, <2>8 DEF Text, IdOf, IdText
  <2>10. ReadsAs(value, text)
    BY <1>4, <2>2, <2>7, <2>9 DEF ReadsAs
  <2> QED BY <2>10 DEF value, text
<1> QED BY <1>2, <1>3, <1>4

\* An element with attributes is an object.
LEMMA QualifiedField ==
  ASSUME NEW nodes, IsTree(nodes), NEW d \in DOMAIN nodes, nodes[d].tag # "EventData",
         nodes[d].attrs # <<>>
  PROVE  NodeToValue(nodes)[d] = Members(nodes, nodes[d], Attributes(nodes[d]), NodeToValue(nodes))
BY NodeValue DEF ValueWith

\* Nothing is found in what is missing.
LEMMA MissingIs == Text(Missing) = "" /\ IdOf(Missing) = "0" /\ Missing[1] = "missing"
                    /\ \A key : Get(Missing, key) = Missing
<1>1. Missing[1] = "missing"
  BY DEF Missing
<1>2. "missing" \notin {"string", "object", "number"}
  OBVIOUS
<1> QED BY <1>1, <1>2 DEF Text, IdOf, Get

\* The name in the attributes of an element.
LEMMA NameInAttributes ==
  ASSUME NEW node, node.attrs \in Seq(STRING \X STRING),
         \A i, k \in DOMAIN node.attrs : node.attrs[i][1] = node.attrs[k][1] => i = k
  PROVE  Text(Get(Object(FromPairs(Attributes(node))), "Name")) = NameOf(node)
<1> DEFINE attrs == Attributes(node)
           named == {k \in DOMAIN node.attrs : node.attrs[k][1] = "Name"}
<1>1. /\ DOMAIN attrs = DOMAIN node.attrs
      /\ \A k \in DOMAIN attrs : /\ attrs[k][1] = node.attrs[k][1]
                                 /\ attrs[k][2] = String(node.attrs[k][2])
  BY DEF Attributes
<1>2. Len(node.attrs) \in Nat /\ DOMAIN attrs \subseteq 0 .. Len(node.attrs)
  <2>1. Len(node.attrs) \in Nat /\ DOMAIN node.attrs = 1 .. Len(node.attrs)
    OBVIOUS
  <2> HIDE DEF attrs
  <2> QED BY <1>1, <2>1
<1> HIDE DEF attrs
<1>3. CASE named = {}
  <2>1. "Name" \notin DOMAIN FromPairs(attrs)
    BY <1>1, <1>3 DEF FromPairs
  <2>2. Get(Object(FromPairs(attrs)), "Name") = Missing
    BY <2>1, GetOf
  <2>3. NameOf(node) = ""
    BY <1>3 DEF NameOf
  <2> QED BY <2>2, <2>3, MissingIs DEF attrs
<1>4. CASE named # {}
  <2>1. PICK k \in DOMAIN attrs : attrs[k][1] = "Name" /\ k \in named
    BY <1>1, <1>4
  <2>2. \A i \in DOMAIN attrs : attrs[i][1] = attrs[k][1] => i = k
    BY <1>1
  <2>3. "Name" \in DOMAIN FromPairs(attrs) /\ FromPairs(attrs)["Name"] = attrs[k][2]
    <3>1. attrs[k][1] \in DOMAIN FromPairs(attrs) /\ FromPairs(attrs)[attrs[k][1]] = attrs[k][2]
      BY <1>2, <2>2, OnlyPair
    <3> QED BY <2>1, <3>1
  <2>4. Get(Object(FromPairs(attrs)), "Name") = String(node.attrs[k][2])
    <3>1. Get(Object(FromPairs(attrs)), "Name") = FromPairs(attrs)["Name"]
      BY <2>3, GetOf
    <3> QED BY <1>1, <2>3, <3>1
  <2>5. (CHOOSE i \in named : TRUE) = k
    BY <1>1, <2>1
  <2>6. NameOf(node) = node.attrs[k][2]
    BY <1>4, <2>5 DEF NameOf
  <2>7. \A text : Text(String(text)) = text
    BY DEF Text, String
  <2> QED BY <2>4, <2>6, <2>7 DEF attrs
<1> QED BY <1>3, <1>4

\* What has no members has no attributes.
LEMMA NothingInMissing ==
  ASSUME NEW value, NEW key, NEW name, Get(value, key) = Missing
  PROVE  Text(Get(Get(value, key), name)) = ""
BY MissingIs

\* The provider is read as the document names it.
LEMMA ProviderField ==
  ASSUME NEW nodes, IsTree(nodes), NEW d \in DOMAIN nodes, nodes[d].tag # "EventData",
         \A i, k \in DOMAIN nodes[d].attrs : nodes[d].attrs[i][1] = nodes[d].attrs[k][1] => i = k
  PROVE  Text(Get(Get(NodeToValue(nodes)[d], "#attributes"), "Name")) = NameOf(nodes[d])
<1> DEFINE attrs == Attributes(nodes[d])
           values == NodeToValue(nodes)
           members == MembersOf(nodes, nodes[d], attrs, values)
<1>1. nodes[d].attrs \in Seq(STRING \X STRING)
  <2>1. nodes[d] \in Element
    BY DEF IsTree
  <2> QED BY <2>1 DEF Element
<1>2. CASE nodes[d].attrs # <<>>
  <2>1. values[d] = Members(nodes, nodes[d], attrs, values)
    BY <1>2, QualifiedField
  <2>2. attrs # <<>>
    <3>1. DOMAIN attrs = DOMAIN nodes[d].attrs
      BY DEF Attributes
    <3> HIDE DEF attrs
    <3> QED BY <1>1, <1>2, <3>1
  <2> HIDE DEF attrs, values
  <2>3. members["#attributes"] = Object(FromPairs(attrs))
    BY <2>2, AttributesMember
  <2>4. DOMAIN members = Tags(nodes, nodes[d]) \cup AttributesKey(attrs)
    BY MemberNames
  <2>5. "#attributes" \in DOMAIN members
    BY <2>2, <2>4 DEF AttributesKey
  <2> HIDE DEF members
  <2>6. Get(Object(members), "#attributes") = Object(FromPairs(attrs))
    BY <2>3, <2>5, GetOf
  <2>7. Get(values[d], "#attributes") = Get(Object(members), "#attributes")
    <3> DEFINE key == "#attributes"
    <3>1. key # "#text"
      OBVIOUS
    <3> HIDE DEF key
    <3>2. Get(Members(nodes, nodes[d], attrs, values), key)
            = Get(Object(MembersOf(nodes, nodes[d], attrs, values)), key)
      BY <3>1, GetMember
    <3> QED BY <2>1, <3>2 DEF key, members
  <2>8. Text(Get(Object(FromPairs(attrs)), "Name")) = NameOf(nodes[d])
    BY <1>1, NameInAttributes DEF attrs
  <2> QED BY <2>6, <2>7, <2>8 DEF values
<1>3. CASE nodes[d].attrs = <<>>
  <2>1. NameOf(nodes[d]) = ""
    BY <1>3 DEF NameOf
  <2>2. Get(values[d], "#attributes") = Missing
    <3>1. values[d] = ValueWith(nodes, "json", d, values)
      BY NodeValue
    <3>2. attrs = <<>>
      BY <1>3 DEF Attributes
    <3>3. "#attributes" \notin Tags(nodes, nodes[d]) /\ AttributesKey(attrs) = {}
      BY <3>2, NoAttributesTag DEF AttributesKey
    <3>4. CASE values[d] = Members(nodes, nodes[d], attrs, values)
      <4> HIDE DEF attrs, values
      <4>1. DOMAIN members = Tags(nodes, nodes[d]) \cup AttributesKey(attrs)
        BY MemberNames
      <4> DEFINE key == "#attributes"
      <4>2. key \notin DOMAIN members /\ key # "#text"
        BY <3>3, <4>1
      <4> HIDE DEF key
      <4>3. Get(Members(nodes, nodes[d], attrs, values), key)
              = Get(Object(MembersOf(nodes, nodes[d], attrs, values)), key)
        BY <4>2, GetMember
      <4>4. Get(Object(members), key) = Missing
        BY <4>2, GetOf
      <4> QED BY <3>4, <4>3, <4>4 DEF key
    <3>5. CASE values[d] # Members(nodes, nodes[d], attrs, values)
      <4>1. \/ values[d] = Number(Unsigned(nodes[d].text))
            \/ values[d] = String(nodes[d].text)
        <5> HIDE DEF attrs, values
        <5> QED BY <3>1, <3>5 DEF ValueWith, attrs
      <4>2. \A text, key : Get(Number(text), key) = Missing /\ Get(String(text), key) = Missing
        BY DEF Get, Number, String
      <4> QED BY <4>1, <4>2
    <3> QED BY <3>4, <3>5
  <2>3. Text(Get(Get(values[d], "#attributes"), "Name")) = ""
    BY <2>2, NothingInMissing
  <2> QED BY <2>1, <2>3
<1> QED BY <1>2, <1>3

\* The document has no attributes on its id.
HasPlainId(nodes) == Kid(nodes, Kid(nodes, EventNode(nodes), "System"), "EventID").attrs = <<>>

KeysOf(nodes, json) ==
  LET system == Kid(nodes, EventNode(nodes), "System")
      channel == Kid(nodes, system, "Channel").text
      id == Kid(nodes, system, "EventID").text
  IN /\ JsonChannel(json) = IF Unsigned(channel) = "" THEN channel ELSE ""
     /\ JsonProvider(json) = NameOf(Kid(nodes, system, "Provider"))
     /\ IdOf(Get(System(json), "EventID")) \in {IdText(id), "0"}
     /\ HasPlainId(nodes) => /\ IdOf(Get(System(json), "EventID")) = IdText(id)
                             /\ JsonEventId(json) = IdText(id)

\* What the tables are asked for, of the detection view without a logsource.
LEMMA KeysAre ==
  ASSUME NEW nodes, IsTree(nodes), EventNodes(nodes) # {}, HasSystem(nodes, EventNode(nodes))
  PROVE  KeysOf(nodes, Plain(nodes))
<1> DEFINE json == Plain(nodes)
           system == Kid(nodes, EventNode(nodes), "System")
<1>1. System(json) = Get(Object(Seen(nodes)), "System")
  BY PlainIs DEF System
<1>2. FieldIs(nodes, "Provider") /\ FieldIs(nodes, "EventID") /\ FieldIs(nodes, "Channel")
  BY FieldsAre
<1>3. PICK c \in DOMAIN nodes :
        nodes[c].tag = "Channel" /\ Kid(nodes, system, "Channel") = nodes[c]
        /\ Get(System(json), "Channel") = NodeToValue(nodes)[c]
  BY <1>1, <1>2 DEF FieldIs
<1>4. PICK p \in DOMAIN nodes :
        nodes[p].tag = "Provider" /\ Kid(nodes, system, "Provider") = nodes[p]
        /\ Get(System(json), "Provider") = NodeToValue(nodes)[p]
  BY <1>1, <1>2 DEF FieldIs
<1>5. PICK d \in DOMAIN nodes :
        nodes[d].tag = "EventID" /\ Kid(nodes, system, "EventID") = nodes[d]
        /\ Get(System(json), "EventID") = NodeToValue(nodes)[d]
  BY <1>1, <1>2 DEF FieldIs
<1>6. /\ nodes[c].kids = <<>> /\ nodes[c].attrs = <<>> /\ nodes[d].kids = <<>>
      /\ \A i, k \in DOMAIN nodes[p].attrs : nodes[p].attrs[i][1] = nodes[p].attrs[k][1] => i = k
  BY <1>3, <1>4, <1>5 DEF HasSystem
<1>7. Get(json, "Channel") = Missing
  <2>1. json = Object(json[2]) /\ "Channel" \notin DOMAIN json[2]
    BY PlainIs
  <2> QED BY <2>1, GetOf
<1> HIDE DEF json, system, KeysOf
<1>8. JsonChannel(json) = IF Unsigned(nodes[c].text) = "" THEN nodes[c].text ELSE ""
  <2>1. ReadsAs(NodeToValue(nodes)[c], nodes[c].text)
    BY <1>3, <1>6, PlainField
  <2>2. Text(Get(System(json), "Channel")) = IF Unsigned(nodes[c].text) = "" THEN nodes[c].text ELSE ""
    BY <1>3, <2>1 DEF ReadsAs
  <2>3. Text(Get(json, "Channel")) = ""
    BY <1>7, MissingIs
  <2> QED BY <2>2, <2>3 DEF JsonChannel, Else
<1>9. JsonProvider(json) = NameOf(nodes[p])
  <2>1. Text(Get(Get(NodeToValue(nodes)[p], "#attributes"), "Name")) = NameOf(nodes[p])
    BY <1>4, <1>6, ProviderField
  <2> QED BY <1>4, <2>1 DEF JsonProvider
<1>10. CASE nodes[d].attrs = <<>>
  <2>1. ReadsAs(NodeToValue(nodes)[d], nodes[d].text)
    BY <1>5, <1>6, <1>10, PlainField
  <2> DEFINE value == NodeToValue(nodes)[d]
  <2> HIDE DEF value
  <2>2. /\ IdOf(value) = IdText(nodes[d].text)
        /\ value[1] = "object" => Get(value, "EventID") = Missing /\ IdText(nodes[d].text) = "0"
    BY <2>1 DEF ReadsAs, value
  <2>3. Get(System(json), "EventID") = value
    BY <1>5 DEF value
  <2>4. JsonEventId(json) = IdText(nodes[d].text)
    <3>1. CASE value[1] # "object"
      BY <2>2, <2>3, <3>1 DEF JsonEventId
    <3>2. CASE value[1] = "object"
      <4>1. Missing[1] # "object" /\ IdOf(Missing) = "0"
        BY MissingIs
      <4> QED BY <2>2, <2>3, <3>2, <4>1 DEF JsonEventId
    <3> QED BY <3>1, <3>2
  <2> QED BY <1>3, <1>4, <1>5, <1>8, <1>9, <2>2, <2>3, <2>4 DEF json, system, KeysOf
<1>11. CASE nodes[d].attrs # <<>>
  <2>1. NodeToValue(nodes)[d] = Members(nodes, nodes[d], Attributes(nodes[d]), NodeToValue(nodes))
    BY <1>5, <1>11, QualifiedField
  <2>2. NodeToValue(nodes)[d][1] = "object"
    BY <2>1, MembersObject
  <2>3. IdOf(Get(System(json), "EventID")) = "0"
    BY <1>5, <2>2 DEF IdOf
  <2>4. ~ HasPlainId(nodes)
    BY <1>5, <1>11 DEF HasPlainId, system
  <2> QED BY <1>3, <1>4, <1>8, <1>9, <2>3, <2>4 DEF json, system, KeysOf
<1> QED BY <1>10, <1>11

-----------------------------------------------------------------------------
(* The tables.                                                             *)

\* The channels of a service have this service.
LEMMA ServicesOfChannels ==
  ASSUME NEW service \in DOMAIN ServiceChannels, NEW channel \in ServiceChannels[service]
  PROVE  /\ channel \in DOMAIN ChannelToService /\ ChannelToService[channel] = service
         /\ channel # "" /\ channel # LinuxSysmon /\ service # "" /\ Unsigned(channel) = ""
<1>1. service \in {"sysmon", "powershell", "powershell-classic", "wmi", "security", "system"}
  BY DEF ServiceChannels
<1>2. CASE service = "sysmon"
  BY <1>2 DEF ServiceChannels, ChannelToService, Unsigned, Sysmon, LinuxSysmon, PowerShell, PowerShellCore, ClassicPowerShell, WMI
<1>3. CASE service = "powershell"
  BY <1>3 DEF ServiceChannels, ChannelToService, Unsigned, Sysmon, LinuxSysmon, PowerShell, PowerShellCore, ClassicPowerShell, WMI
<1>4. CASE service = "powershell-classic"
  BY <1>4 DEF ServiceChannels, ChannelToService, Unsigned, Sysmon, LinuxSysmon, PowerShell, PowerShellCore, ClassicPowerShell, WMI
<1>5. CASE service = "wmi"
  BY <1>5 DEF ServiceChannels, ChannelToService, Unsigned, Sysmon, LinuxSysmon, PowerShell, PowerShellCore, ClassicPowerShell, WMI
<1>6. CASE service = "security"
  BY <1>6 DEF ServiceChannels, ChannelToService, Unsigned, Sysmon, LinuxSysmon, PowerShell, PowerShellCore, ClassicPowerShell, WMI
<1>7. CASE service = "system"
  BY <1>7 DEF ServiceChannels, ChannelToService, Unsigned, Sysmon, LinuxSysmon, PowerShell, PowerShellCore, ClassicPowerShell, WMI
<1> QED BY <1>1, <1>2, <1>3, <1>4, <1>5, <1>6, <1>7

\* The rows of the two category tables, by channel.
LEMMA SysmonCategories ==
  ASSUME NEW channel \in {Sysmon, LinuxSysmon}, NEW id
  PROVE  GetCategory(channel, id) =
           CASE id = "1" -> "process_creation" [] id = "12" -> "registry_add"
             [] id = "13" -> "registry_set" [] id = "14" -> "registry_rename"
             [] id = "19" -> "wmi_event" [] OTHER -> ""
<1> DEFINE key == <<Sysmon, id>>
<1>1. GetCategory(channel, id) =
        Else(Lookup(ChannelEventToSubcategory, key), Lookup(ChannelEventToCategory, key))
  BY DEF GetCategory, LinuxSysmon, Sysmon
<1>2. Lookup(ChannelEventToSubcategory, key) =
        CASE id = "12" -> "registry_add" [] id = "13" -> "registry_set"
          [] id = "14" -> "registry_rename" [] OTHER -> ""
  BY DEF Lookup, ChannelEventToSubcategory
<1>3. Lookup(ChannelEventToCategory, key) =
        CASE id = "1" -> "process_creation" [] id \in {"12", "13", "14"} -> "registry_event"
          [] id = "19" -> "wmi_event" [] OTHER -> ""
  BY DEF Lookup, ChannelEventToCategory, Sysmon, PowerShell, PowerShellCore, ClassicPowerShell, WMI
<1> QED BY <1>1, <1>2, <1>3 DEF Else

\* The rows of the two PowerShell channels.
LEMMA PowerShellCategories ==
  ASSUME NEW channel \in {PowerShell, PowerShellCore}, NEW id
  PROVE  GetCategory(channel, id) =
           CASE id = "4103" -> "ps_module" [] id = "4104" -> "ps_script" [] OTHER -> ""
<1> DEFINE key == <<channel, id>>
<1>1. GetCategory(channel, id) =
        Else(Lookup(ChannelEventToSubcategory, key), Lookup(ChannelEventToCategory, key))
  BY DEF GetCategory, LinuxSysmon, Sysmon, PowerShell, PowerShellCore
<1>2. Lookup(ChannelEventToSubcategory, key) = ""
  BY DEF Lookup, ChannelEventToSubcategory, Sysmon, PowerShell, PowerShellCore
<1>3. Lookup(ChannelEventToCategory, key) =
        CASE id = "4103" -> "ps_module" [] id = "4104" -> "ps_script" [] OTHER -> ""
  BY DEF Lookup, ChannelEventToCategory, Sysmon, PowerShell, PowerShellCore, ClassicPowerShell, WMI
<1> QED BY <1>1, <1>2, <1>3 DEF Else

\* The rows of the classic channel.
LEMMA ClassicCategories ==
  ASSUME NEW id
  PROVE  GetCategory(ClassicPowerShell, id) =
           CASE id = "400" -> "ps_classic_start" [] id = "600" -> "ps_classic_provider_start"
             [] OTHER -> ""
<1> DEFINE key == <<ClassicPowerShell, id>>
<1>1. GetCategory(ClassicPowerShell, id) =
        Else(Lookup(ChannelEventToSubcategory, key), Lookup(ChannelEventToCategory, key))
  BY DEF GetCategory, LinuxSysmon, Sysmon, ClassicPowerShell
<1>2. Lookup(ChannelEventToSubcategory, key) = ""
  BY DEF Lookup, ChannelEventToSubcategory, Sysmon, ClassicPowerShell
<1>3. Lookup(ChannelEventToCategory, key) =
        CASE id = "400" -> "ps_classic_start" [] id = "600" -> "ps_classic_provider_start"
          [] OTHER -> ""
  BY DEF Lookup, ChannelEventToCategory, Sysmon, PowerShell, PowerShellCore, ClassicPowerShell, WMI
<1> QED BY <1>1, <1>2, <1>3 DEF Else

\* A channel that no table knows has no rows.
LEMMA NoCategories ==
  ASSUME NEW channel, channel \notin DOMAIN ChannelToService, NEW id
  PROVE  GetCategory(channel, id) = "" /\ Sentinel(channel) = ""
<1> DEFINE key == <<channel, id>>
<1>1. channel \notin {Sysmon, LinuxSysmon, PowerShell, PowerShellCore, ClassicPowerShell, WMI, "Security"}
  BY DEF ChannelToService
<1>2. GetCategory(channel, id) =
        Else(Lookup(ChannelEventToSubcategory, key), Lookup(ChannelEventToCategory, key))
  BY <1>1 DEF GetCategory
<1>3. Lookup(ChannelEventToSubcategory, key) = ""
  BY <1>1 DEF Lookup, ChannelEventToSubcategory
<1>4. Lookup(ChannelEventToCategory, key) = ""
  BY <1>1 DEF Lookup, ChannelEventToCategory
<1> QED BY <1>1, <1>2, <1>3, <1>4 DEF Else, Sentinel

-----------------------------------------------------------------------------
(* What a rule is judged by.                                               *)

\* The logsource of an event, by the keys of the tables.
ServiceAs(channel, provider) ==
  Else(Lookup(ChannelToService, channel), Lookup(ChannelToService, Lookup(ProviderToChannel, provider)))
CategoryAs(channel, id, type) ==
  LET found == GetCategory(channel, id)
      refined == IF found = "registry_add" /\ type \in {"DeleteKey", "DeleteValue"}
                 THEN "registry_delete" ELSE found
      category == Else(refined, Sentinel(channel))
  IN IF category \in RegistrySubcategories THEN "" ELSE category

\* It is what resolve_logsource_fields finds.
LEMMA LogsourceAs ==
  ASSUME NEW json
  PROVE  /\ ServiceOf(json, "") = ServiceAs(JsonChannel(json), JsonProvider(json))
         /\ CategoryOf(json) = CategoryAs(JsonChannel(json), JsonEventId(json), EventType(json))
<1>1. \A text : Else("", text) = text
  BY DEF Else
<1>2. ServiceOf(json, "") = ServiceAs(JsonChannel(json), JsonProvider(json))
  BY <1>1 DEF ServiceOf, ServiceAs
<1>3. CategoryOf(json) = CategoryAs(JsonChannel(json), JsonEventId(json), EventType(json))
  BY DEF CategoryOf, CategoryAs
<1> QED BY <1>2, <1>3

\* A field of the logsource stands in the view when there is one.
Given(text) == IF text # "" THEN String(text) ELSE Missing

\* What the injection puts in.
LEMMA InjectedFields ==
  ASSUME NEW f, {"product", "service", "category"} \cap DOMAIN f = {}, NEW product, NEW service
  PROVE  LET json == WithInjectedLogsource(Object(f), product, service)
         IN /\ Get(json, "product") = String(product)
            /\ Get(json, "service") = Given(ServiceOf(Object(f), service))
            /\ Get(json, "category") = Given(CategoryOf(Object(f)))
<1> DEFINE old == Object(f)
           S == ServiceOf(old, service)
           C == CategoryOf(old)
           flat == C \in {"ps_classic_start", "ps_classic_script"} /\ EventDataTexts(old) # {}
           injected == [product |-> String(product), service |-> String(S),
                        category |-> String(C), Data |-> <<"joined", EventDataTexts(old)>>]
           found == {"product"} \cup (IF S # "" THEN {"service"} ELSE {})
                      \cup (IF C # "" THEN {"category"} ELSE {}) \cup (IF flat THEN {"Data"} ELSE {})
           new == [name \in found \cup DOMAIN f |-> IF name \in found THEN injected[name] ELSE f[name]]
<1>1. WithInjectedLogsource(Object(f), product, service) = Object(new)
  BY DEF WithInjectedLogsource, Object
<1>2. /\ "product" \in found /\ ("service" \in found <=> S # "") /\ ("category" \in found <=> C # "")
      /\ injected["product"] = String(product) /\ injected["service"] = String(S)
      /\ injected["category"] = String(C)
  OBVIOUS
<1> HIDE DEF old, S, C, injected, found
<1>3. /\ "product" \in DOMAIN new /\ new["product"] = String(product)
      /\ S # "" => "service" \in DOMAIN new /\ new["service"] = String(S)
      /\ S = "" => "service" \notin DOMAIN new
      /\ C # "" => "category" \in DOMAIN new /\ new["category"] = String(C)
      /\ C = "" => "category" \notin DOMAIN new
  BY <1>2
<1> HIDE DEF new
<1>4. /\ Get(Object(new), "product") = String(product)
      /\ Get(Object(new), "service") = Given(S) /\ Get(Object(new), "category") = Given(C)
  BY <1>3, GetOf DEF Given
<1> QED BY <1>1, <1>4 DEF S, C, old

ProductOf(source) == IF source = "linux" THEN "linux" ELSE "windows"

\* What the rules see of an event is what was read of its document.
LEMMA JudgedIs ==
  ASSUME ReadInv, IsEvent
  PROVE  LET json == event[2].json
             old == Plain(xml.nodes)
         IN /\ Get(json, "product") = String(ProductOf(xml.source))
            /\ Get(json, "service") = Given(ServiceOf(old, ""))
            /\ Get(json, "category") = Given(CategoryOf(old))
            /\ EventType(json) = EventType(old)
            /\ IdOf(Get(System(json), "EventID")) = IdOf(Get(System(old), "EventID"))
<1> DEFINE json == event[2].json
           old == Plain(xml.nodes)
           f == old[2]
           product == ProductOf(xml.source)
           service == ""
           J == Injected(xml)
<1>1. old = Object(f) /\ DOMAIN f = {"_source", "Event"} /\ Get(old, "Event") = Object(Seen(xml.nodes))
  BY PlainIs
<1>2. J = WithInjectedLogsource(Object(f), product, service)
  BY <1>1 DEF Injected, ProductOf
<1>3. {"product", "service", "category"} \cap DOMAIN f = {}
  BY <1>1
<1>4. /\ json[1] = "object" /\ DOMAIN json[2] = DOMAIN J[2]
      /\ \A key \in DOMAIN json[2] \ {"Event"} : json[2][key] = J[2][key]
      /\ \E g : /\ Get(json, "Event") = Object(g) /\ DOMAIN g = DOMAIN Seen(xml.nodes)
                /\ \A key \in DOMAIN Seen(xml.nodes) \ {"System"} : g[key] = Seen(xml.nodes)[key]
                /\ \A field : field # "EventRecordID" =>
                     Get(System(json), field) = Get(Get(Object(Seen(xml.nodes)), "System"), field)
  BY SeenIs
<1>5. J[1] = "object"
  BY InjectedEvent
<1> HIDE DEF json, old, f, product, service, J
<1>6. /\ Get(WithInjectedLogsource(Object(f), product, service), "product") = String(product)
      /\ Get(WithInjectedLogsource(Object(f), product, service), "service")
           = Given(ServiceOf(Object(f), service))
      /\ Get(WithInjectedLogsource(Object(f), product, service), "category")
           = Given(CategoryOf(Object(f)))
  BY <1>3, InjectedFields
<1>7. ASSUME NEW key, key # "Event" PROVE Get(json, key) = Get(J, key)
  BY <1>4, <1>5, <1>7 DEF Get
<1>8. /\ Get(json, "product") = Get(J, "product") /\ Get(json, "service") = Get(J, "service")
      /\ Get(json, "category") = Get(J, "category")
  BY <1>7
<1>9. EventType(json) = EventType(old)
  <2>1. PICK g : /\ Get(json, "Event") = Object(g) /\ DOMAIN g = DOMAIN Seen(xml.nodes)
                 /\ \A key \in DOMAIN Seen(xml.nodes) \ {"System"} : g[key] = Seen(xml.nodes)[key]
    BY <1>4
  <2>2. Get(Object(g), "EventData") = Get(Object(Seen(xml.nodes)), "EventData")
    BY <2>1, GetOf
  <2> QED BY <1>1, <2>1, <2>2 DEF EventType
<1>10. Get(System(json), "EventID") = Get(System(old), "EventID")
  <2>1. "EventID" # "EventRecordID"
    OBVIOUS
  <2>2. System(old) = Get(Object(Seen(xml.nodes)), "System")
    BY <1>1 DEF System
  <2> QED BY <1>4, <2>1, <2>2
<1> QED BY <1>1, <1>2, <1>6, <1>8, <1>9, <1>10 DEF json, old, product, service

\* Whether a rule is evaluated, by the logsource, the id and the type.
JudgedBy(rule, product, service, category, id, type) ==
  LET piped == Piped(rule)
  IN /\ rule.product = product
     /\ piped.service # "" /\ service # "" => service = piped.service
     /\ piped.category # "" /\ category # "" => category = piped.category
     /\ piped.ids # {} => id \in piped.ids
     /\ piped.type # "" => type = piped.type

\* One text is expected, and another one given or none.
LEMMA Strings ==
  ASSUME NEW a, NEW b
  PROVE  /\ String(a) # Missing /\ (String(a) = String(b) <=> a = b)
         /\ Given(a) # Missing <=> a # ""
         /\ a # "" => (Given(a) = String(b) <=> a = b)
<1>1. String(a)[1] = "string" /\ String(a)[2] = a /\ String(b)[2] = b
  BY DEF String
<1>2. String(a) # Missing
  <2>1. "missing" # "string"
    OBVIOUS
  <2> QED BY <1>1, <2>1, MissingIs
<1>3. String(a) = String(b) <=> a = b
  BY <1>1
<1> QED BY <1>2, <1>3 DEF Given

\* The rules judge an event by nothing else.
LEMMA ReachesBy ==
  ASSUME ReadInv, IsEvent, NEW rule \in SigmaRules
  PROVE  LET old == Plain(xml.nodes)
         IN Reaches(rule, event[2].json) <=>
              JudgedBy(rule, ProductOf(xml.source), ServiceOf(old, ""), CategoryOf(old),
                       IdOf(Get(System(old), "EventID")), EventType(old))
<1> DEFINE json == event[2].json
           old == Plain(xml.nodes)
           product == ProductOf(xml.source)
           S == ServiceOf(old, "")
           C == CategoryOf(old)
           id == IdOf(Get(System(old), "EventID"))
           type == EventType(old)
           piped == Piped(rule)
<1>1. /\ Get(json, "product") = String(product) /\ Get(json, "service") = Given(S)
      /\ Get(json, "category") = Given(C) /\ EventType(json) = type
      /\ IdOf(Get(System(json), "EventID")) = id
  BY JudgedIs
<1>2. piped.product = rule.product /\ piped.product # ""
      /\ piped["product"] = piped.product /\ piped["service"] = piped.service
      /\ piped["category"] = piped.category
  BY RulesAssumption DEF Piped
<1> HIDE DEF json, old, product, S, C, id, type, piped
<1>4. Compatible(rule, json) <=>
        /\ product = rule.product
        /\ piped.service # "" /\ S # "" => S = piped.service
        /\ piped.category # "" /\ C # "" => C = piped.category
  <2>1. Compatible(rule, json) <=>
          /\ piped["product"] # "" /\ Get(json, "product") # Missing =>
               Get(json, "product") = String(piped["product"])
          /\ piped["service"] # "" /\ Get(json, "service") # Missing =>
               Get(json, "service") = String(piped["service"])
          /\ piped["category"] # "" /\ Get(json, "category") # Missing =>
               Get(json, "category") = String(piped["category"])
    BY DEF Compatible, piped
  <2>2. /\ Get(json, "product") # Missing
        /\ Get(json, "product") = String(piped.product) <=> product = piped.product
    BY <1>1, Strings
  <2>3. /\ Get(json, "service") # Missing <=> S # ""
        /\ S # "" => (Get(json, "service") = String(piped.service) <=> S = piped.service)
    <3>1. /\ Given(S) # Missing <=> S # ""
          /\ S # "" => (Given(S) = String(piped.service) <=> S = piped.service)
      BY Strings, Zenon
    <3> QED BY <1>1, <3>1, Zenon
  <2>4. /\ Get(json, "category") # Missing <=> C # ""
        /\ C # "" => (Get(json, "category") = String(piped.category) <=> C = piped.category)
    <3>1. /\ Given(C) # Missing <=> C # ""
          /\ C # "" => (Given(C) = String(piped.category) <=> C = piped.category)
      BY Strings, Zenon
    <3> QED BY <1>1, <3>1, Zenon
  <2> QED BY <1>2, <2>1, <2>2, <2>3, <2>4
<1>5. ConditionsHold(rule, json) <=>
        /\ piped.ids # {} => id \in piped.ids
        /\ piped.type # "" => type = piped.type
  BY <1>1 DEF ConditionsHold, piped
<1>6. JudgedBy(rule, product, S, C, id, type) <=>
        /\ rule.product = product
        /\ piped.service # "" /\ S # "" => S = piped.service
        /\ piped.category # "" /\ C # "" => C = piped.category
        /\ piped.ids # {} => id \in piped.ids
        /\ piped.type # "" => type = piped.type
  BY DEF JudgedBy, piped
<1>7. Reaches(rule, json) <=> JudgedBy(rule, product, S, C, id, type)
  BY <1>4, <1>5, <1>6 DEF Reaches
<1> QED BY <1>7 DEF json, old, product, S, C, id, type

-----------------------------------------------------------------------------
(* Rules and their events.                                                 *)

\* An id of the tables is read from its own text only.
LEMMA IdTextIs ==
  ASSUME NEW text
  PROVE  /\ \A n \in {"1", "12", "13", "14", "19", "400", "600", "4103", "4104"} :
              IdText(text) = n <=> text = n
         /\ IdText(text) \notin {"20", "21"}
BY DEF IdText, Unsigned

\* Where a rule of a category of Sysmon is sent, and what is asked of its events.
SysmonConditions(category, id, type) ==
  \/ category = "process_creation" /\ id = "1"
  \/ category = "registry_event" /\ id \in {"12", "13", "14"}
  \/ category = "registry_add" /\ id = "12" /\ type = "CreateKey"
  \/ category = "registry_delete" /\ id = "12"
  \/ category = "registry_set" /\ id = "13" /\ type = "SetValue"
  \/ category = "registry_rename" /\ id = "14" /\ type = "RenameKey"
  \/ category = "wmi_event" /\ id \in {"19", "20", "21"}

\* The events that Sigma puts in it.
InSysmonCategory(category, id, type) ==
  \/ category = "process_creation" /\ id = "1"
  \/ category = "registry_event" /\ id \in {"12", "13", "14"}
  \/ category = "registry_add" /\ id = "12" /\ type = "CreateKey"
  \/ category = "registry_delete" /\ id = "12" /\ type # "CreateKey"
  \/ category = "registry_set" /\ id = "13"
  \/ category = "registry_rename" /\ id = "14"
  \/ category = "wmi_event" /\ id = "19"

PowerShellConditions(category, id) ==
  \/ category = "ps_module" /\ id = "4103"
  \/ category = "ps_script" /\ id = "4104"
  \/ category = "ps_classic_start" /\ id = "400"
  \/ category = "ps_classic_provider_start" /\ id = "600"

SysmonNames == {"process_creation", "registry_event", "registry_add", "registry_delete",
                "registry_set", "registry_rename", "wmi_event"}
PowerShellNames == {"ps_module", "ps_script", "ps_classic_start", "ps_classic_provider_start"}
PowerShellService(category) ==
  IF category \in {"ps_module", "ps_script"} THEN "powershell" ELSE "powershell-classic"

\* The names of the routed categories.
LEMMA RouteNames ==
  DOMAIN SysmonRoutes = SysmonNames /\ DOMAIN PowerShellRoutes = PowerShellNames
BY DEF SysmonRoutes, PowerShellRoutes, SysmonNames, PowerShellNames

\* How a rule of a category of Sysmon is judged.
LEMMA SysmonPiped ==
  ASSUME NEW rule, rule.category \in SysmonNames, NEW service, NEW category, NEW id, NEW type
  PROVE  /\ Piped(rule).service = "sysmon"
         /\ JudgedBy(rule, rule.product, service, category, id, type) <=>
              /\ service \in {"", "sysmon"} /\ category \in {"", rule.category}
              /\ SysmonConditions(rule.category, id, type)
<1>1. Piped(rule) = [product |-> rule.product, category |-> rule.category,
                     service |-> SysmonRoutes[rule.category].service,
                     ids |-> SysmonRoutes[rule.category].ids,
                     type |-> SysmonRoutes[rule.category].type]
  BY RouteNames DEF Piped, Routed, Routes
<1> DEFINE route == SysmonRoutes[rule.category]
<1>2. /\ route.service = "sysmon"
      /\ SysmonConditions(rule.category, id, type) <=>
           /\ route.ids # {} => id \in route.ids
           /\ route.type # "" => type = route.type
  <2>1. CASE rule.category = "process_creation"
    BY <2>1 DEF SysmonRoutes, Route, SysmonConditions
  <2>2. CASE rule.category = "registry_event"
    BY <2>2 DEF SysmonRoutes, Route, SysmonConditions
  <2>3. CASE rule.category = "registry_add"
    BY <2>3 DEF SysmonRoutes, Route, SysmonConditions
  <2>4. CASE rule.category = "registry_delete"
    BY <2>4 DEF SysmonRoutes, Route, SysmonConditions
  <2>5. CASE rule.category = "registry_set"
    BY <2>5 DEF SysmonRoutes, Route, SysmonConditions
  <2>6. CASE rule.category = "registry_rename"
    BY <2>6 DEF SysmonRoutes, Route, SysmonConditions
  <2>7. CASE rule.category = "wmi_event"
    BY <2>7 DEF SysmonRoutes, Route, SysmonConditions
  <2> QED BY <2>1, <2>2, <2>3, <2>4, <2>5, <2>6, <2>7 DEF SysmonNames
<1> HIDE DEF route
<1>3. Piped(rule).service = route.service /\ Piped(rule).ids = route.ids
      /\ Piped(rule).type = route.type /\ Piped(rule).category = rule.category
  BY <1>1 DEF route
<1>4. rule.category # ""
  BY DEF SysmonNames
<1> QED BY <1>2, <1>3, <1>4 DEF JudgedBy

\* How a rule of a category of PowerShell is judged.
LEMMA PowerShellPiped ==
  ASSUME NEW rule, rule.category \in PowerShellNames, rule.product = "windows",
         NEW service, NEW category, NEW id, NEW type
  PROVE  /\ Piped(rule).service = PowerShellService(rule.category)
         /\ JudgedBy(rule, rule.product, service, category, id, type) <=>
              /\ service \in {"", PowerShellService(rule.category)} /\ category \in {"", rule.category}
              /\ PowerShellConditions(rule.category, id)
<1>1. Piped(rule) = [product |-> rule.product, category |-> rule.category,
                     service |-> PowerShellRoutes[rule.category].service,
                     ids |-> PowerShellRoutes[rule.category].ids,
                     type |-> PowerShellRoutes[rule.category].type]
  BY RouteNames DEF Piped, Routed, Routes, SysmonNames, PowerShellNames
<1> DEFINE route == PowerShellRoutes[rule.category]
<1>2. /\ route.service = PowerShellService(rule.category) /\ route.service # ""
      /\ PowerShellConditions(rule.category, id) <=>
           /\ route.ids # {} => id \in route.ids
           /\ route.type # "" => type = route.type
  <2>1. CASE rule.category = "ps_module"
    <3>1. route = Route("powershell", {"4103"}, "")
      BY <2>1 DEF PowerShellRoutes
    <3> HIDE DEF route
    <3>2. route.service = "powershell" /\ route.ids = {"4103"} /\ route.type = ""
      BY <3>1 DEF Route
    <3> QED BY <2>1, <3>2 DEF PowerShellConditions, PowerShellService
  <2>2. CASE rule.category = "ps_script"
    <3>1. route = Route("powershell", {"4104"}, "")
      BY <2>2 DEF PowerShellRoutes
    <3> HIDE DEF route
    <3>2. route.service = "powershell" /\ route.ids = {"4104"} /\ route.type = ""
      BY <3>1 DEF Route
    <3> QED BY <2>2, <3>2 DEF PowerShellConditions, PowerShellService
  <2>3. CASE rule.category = "ps_classic_start"
    <3>1. route = Route("powershell-classic", {"400"}, "")
      BY <2>3 DEF PowerShellRoutes
    <3> HIDE DEF route
    <3>2. route.service = "powershell-classic" /\ route.ids = {"400"} /\ route.type = ""
      BY <3>1 DEF Route
    <3> QED BY <2>3, <3>2 DEF PowerShellConditions, PowerShellService
  <2>4. CASE rule.category = "ps_classic_provider_start"
    <3>1. route = Route("powershell-classic", {"600"}, "")
      BY <2>4 DEF PowerShellRoutes
    <3> HIDE DEF route
    <3>2. route.service = "powershell-classic" /\ route.ids = {"600"} /\ route.type = ""
      BY <3>1 DEF Route
    <3> QED BY <2>4, <3>2 DEF PowerShellConditions, PowerShellService
  <2> QED BY <2>1, <2>2, <2>3, <2>4 DEF PowerShellNames
<1> HIDE DEF route
<1>3. Piped(rule).service = route.service /\ Piped(rule).ids = route.ids
      /\ Piped(rule).type = route.type /\ Piped(rule).category = rule.category
  BY <1>1 DEF route
<1>4. rule.category # ""
  BY DEF PowerShellNames
<1> QED BY <1>2, <1>3, <1>4 DEF JudgedBy

\* A rule that names a service only.
LEMMA ServicePiped ==
  ASSUME NEW rule, rule.category = "", NEW service, NEW category, NEW id, NEW type
  PROVE  /\ Piped(rule).service = rule.service
         /\ JudgedBy(rule, rule.product, service, category, id, type) <=>
              (rule.service # "" /\ service # "" => service = rule.service)
<1>1. rule.category \notin Routed(rule.product)
  BY RouteNames DEF Routed, SysmonNames, PowerShellNames
<1> DEFINE route == Route(rule.service, {}, "")
<1>2. Piped(rule) = [product |-> rule.product, category |-> rule.category,
                     service |-> route.service, ids |-> route.ids, type |-> route.type]
  BY <1>1 DEF Piped
<1>3. route.service = rule.service /\ route.ids = {} /\ route.type = ""
  BY DEF Route
<1> HIDE DEF route
<1>4. /\ Piped(rule).service = rule.service /\ Piped(rule).category = ""
      /\ Piped(rule).ids = {} /\ Piped(rule).type = ""
  <2>1. /\ Piped(rule).service = route.service /\ Piped(rule).category = rule.category
        /\ Piped(rule).ids = route.ids /\ Piped(rule).type = route.type
    BY ONLY <1>2
  <2> QED BY <1>3, <2>1
<1>5. JudgedBy(rule, rule.product, service, category, id, type) <=>
        (rule.service # "" /\ service # "" => service = rule.service)
  <2> DEFINE none == ""
             piped == Piped(rule)
  <2>1. piped.service = rule.service /\ piped.category = none /\ piped.ids = {} /\ piped.type = none
    BY <1>4
  <2> HIDE DEF piped
  <2> QED BY <2>1 DEF JudgedBy, piped
<1> QED BY <1>4, <1>5

\* The categories of an event by its home.
LEMMA SysmonBelongs ==
  ASSUME NEW category \in SysmonNames
  PROVE  category \in Categories <=>
           /\ HomeChannel = Sysmon
           /\ InSysmonCategory(category, Field("EventID"), EventType(event[2].json))
<1> DEFINE home == HomeChannel
           id == Field("EventID")
           type == EventType(event[2].json)
<1> HIDE DEF home, id, type
<1>1. CASE home = Sysmon
  BY <1>1 DEF Categories, SysmonNames, InSysmonCategory, home, id, type, Sysmon, PowerShell, PowerShellCore, ClassicPowerShell
<1>2. CASE home # Sysmon
  BY <1>2 DEF Categories, SysmonNames, home, id, type
<1> QED BY <1>1, <1>2 DEF home, id, type

\* The categories of PowerShell are those of its channels.
LEMMA PowerShellBelongs ==
  ASSUME NEW category \in PowerShellNames
  PROVE  category \in Categories <=>
           /\ HomeChannel \in ServiceChannels[PowerShellService(category)]
           /\ PowerShellConditions(category, Field("EventID"))
<1> DEFINE home == HomeChannel
           id == Field("EventID")
           type == EventType(event[2].json)
<1> HIDE DEF home, id, type
<1>1. category \in Categories <=>
        \/ home \in {PowerShell, PowerShellCore} /\ id = "4103" /\ category = "ps_module"
        \/ home \in {PowerShell, PowerShellCore} /\ id = "4104" /\ category = "ps_script"
        \/ home = ClassicPowerShell /\ id = "400" /\ category = "ps_classic_start"
        \/ home = ClassicPowerShell /\ id = "600" /\ category = "ps_classic_provider_start"
  BY DEF Categories, PowerShellNames, home, id, type, Sysmon, PowerShell, PowerShellCore, ClassicPowerShell
<1>2. ServiceChannels[PowerShellService(category)] =
        IF category \in {"ps_module", "ps_script"} THEN {PowerShell, PowerShellCore} ELSE {ClassicPowerShell}
  BY DEF ServiceChannels, PowerShellService
<1> DEFINE channels == ServiceChannels[PowerShellService(category)]
<1> HIDE DEF channels
<1>3. channels = IF category \in {"ps_module", "ps_script"} THEN {PowerShell, PowerShellCore}
                 ELSE {ClassicPowerShell}
  BY <1>2 DEF channels
<1>4. category \in Categories <=> home \in channels /\ PowerShellConditions(category, id)
  <2>1. CASE category = "ps_module"
    <3>1. PowerShellConditions(category, id) <=> id = "4103"
      BY <2>1 DEF PowerShellConditions
    <3>2. category \in Categories <=> id = "4103" /\ home \in {PowerShell, PowerShellCore}
      BY <1>1, <2>1
    <3>3. channels = {PowerShell, PowerShellCore}
      BY <1>3, <2>1
    <3> QED BY <3>1, <3>2, <3>3
  <2>2. CASE category = "ps_script"
    <3>1. PowerShellConditions(category, id) <=> id = "4104"
      BY <2>2 DEF PowerShellConditions
    <3>2. category \in Categories <=> id = "4104" /\ home \in {PowerShell, PowerShellCore}
      BY <1>1, <2>2
    <3>3. channels = {PowerShell, PowerShellCore}
      BY <1>3, <2>2
    <3> QED BY <3>1, <3>2, <3>3
  <2>3. CASE category = "ps_classic_start"
    <3>1. PowerShellConditions(category, id) <=> id = "400"
      BY <2>3 DEF PowerShellConditions
    <3>2. category \in Categories <=> id = "400" /\ home \in {ClassicPowerShell}
      BY <1>1, <2>3
    <3>3. channels = {ClassicPowerShell}
      BY <1>3, <2>3
    <3> QED BY <3>1, <3>2, <3>3
  <2>4. CASE category = "ps_classic_provider_start"
    <3>1. PowerShellConditions(category, id) <=> id = "600"
      BY <2>4 DEF PowerShellConditions
    <3>2. category \in Categories <=> id = "600" /\ home \in {ClassicPowerShell}
      BY <1>1, <2>4
    <3>3. channels = {ClassicPowerShell}
      BY <1>3, <2>4
    <3> QED BY <3>1, <3>2, <3>3
  <2> QED BY <2>1, <2>2, <2>3, <2>4 DEF PowerShellNames
<1> QED BY <1>4 DEF channels, home, id

\* What the logsource of an event is where it was logged.
SysmonCategory(id) ==
  CASE id = "1" -> "process_creation" [] id = "19" -> "wmi_event" [] OTHER -> ""

\* An event of Sysmon has the service of Sysmon, and no registry category.
LEMMA SysmonLogsource ==
  ASSUME NEW channel \in {Sysmon, LinuxSysmon}, NEW provider, NEW id, NEW type
  PROVE  /\ ServiceAs(channel, provider) = "sysmon"
         /\ CategoryAs(channel, id, type) = SysmonCategory(id)
<1>1. ServiceAs(channel, provider) = "sysmon"
  <2>1. Lookup(ChannelToService, channel) = "sysmon"
    BY DEF Lookup, ChannelToService, Sysmon, LinuxSysmon, PowerShell, PowerShellCore, ClassicPowerShell, WMI
  <2> QED BY <2>1 DEF ServiceAs, Else
<1>2. Sentinel(channel) = ""
  BY DEF Sentinel, Sysmon, LinuxSysmon, PowerShell, PowerShellCore, ClassicPowerShell
<1>3. GetCategory(channel, id) =
        CASE id = "1" -> "process_creation" [] id = "12" -> "registry_add"
          [] id = "13" -> "registry_set" [] id = "14" -> "registry_rename"
          [] id = "19" -> "wmi_event" [] OTHER -> ""
  BY SysmonCategories
<1>4. CategoryAs(channel, id, type) = SysmonCategory(id)
  BY <1>2, <1>3 DEF CategoryAs, SysmonCategory, RegistrySubcategories, Else
<1> QED BY <1>1, <1>4

\* A PowerShell event has the category of its id.
LEMMA PowerShellLogsource ==
  ASSUME NEW category \in PowerShellNames, NEW channel \in ServiceChannels[PowerShellService(category)],
         NEW provider, NEW id, NEW type, PowerShellConditions(category, id)
  PROVE  CategoryAs(channel, id, type) = category
<1>1. CASE category \in {"ps_module", "ps_script"}
  <2>1. channel \in {PowerShell, PowerShellCore}
    BY <1>1 DEF PowerShellService, ServiceChannels
  <2>2. GetCategory(channel, id) =
          CASE id = "4103" -> "ps_module" [] id = "4104" -> "ps_script" [] OTHER -> ""
    BY <2>1, PowerShellCategories
  <2> QED BY <1>1, <2>2 DEF PowerShellConditions, CategoryAs, RegistrySubcategories, Else
<1>2. CASE category \notin {"ps_module", "ps_script"}
  <2>1. channel = ClassicPowerShell
    BY <1>2 DEF PowerShellService, ServiceChannels
  <2>2. GetCategory(channel, id) =
          CASE id = "400" -> "ps_classic_start" [] id = "600" -> "ps_classic_provider_start"
            [] OTHER -> ""
    BY <2>1, ClassicCategories
  <2> QED BY <1>2, <2>2 DEF PowerShellNames, PowerShellConditions, CategoryAs, RegistrySubcategories, Else
<1> QED BY <1>1, <1>2

\* An event of a known channel has the service of the channel.
LEMMA ServiceLogsource ==
  ASSUME NEW service \in DOMAIN ServiceChannels, NEW channel \in ServiceChannels[service], NEW provider
  PROVE  ServiceAs(channel, provider) = service
<1>1. /\ channel \in DOMAIN ChannelToService /\ ChannelToService[channel] = service /\ service # ""
  BY ServicesOfChannels
<1> QED BY <1>1 DEF ServiceAs, Lookup, Else

\* An event forwarded to a custom channel has the service of its provider only.
LEMMA CustomLogsource ==
  ASSUME NEW channel, channel \notin DOMAIN ChannelToService, NEW id, NEW type
  PROVE  /\ ServiceAs(channel, "Microsoft-Windows-Sysmon") = "sysmon"
         /\ CategoryAs(channel, id, type) = ""
<1>1. ServiceAs(channel, "Microsoft-Windows-Sysmon") = "sysmon"
  <2>1. Lookup(ProviderToChannel, "Microsoft-Windows-Sysmon") = Sysmon
    BY DEF Lookup, ProviderToChannel
  <2>2. Lookup(ChannelToService, Sysmon) = "sysmon"
    BY DEF Lookup, ChannelToService, Sysmon, LinuxSysmon, PowerShell, PowerShellCore, ClassicPowerShell, WMI
  <2>3. Lookup(ChannelToService, channel) = ""
    BY DEF Lookup
  <2> QED BY <2>1, <2>2, <2>3 DEF ServiceAs, Else
<1>2. GetCategory(channel, id) = "" /\ Sentinel(channel) = ""
  BY NoCategories
<1>3. CategoryAs(channel, id, type) = ""
  BY <1>2 DEF CategoryAs, Else, RegistrySubcategories
<1> QED BY <1>1, <1>3

\* What a collected event and the rule it is collected for have in common.
LEMMA CollectedIs ==
  ASSUME ReadInv, IsEvent, NEW rule \in SigmaRules, CollectedFor(rule)
  PROVE  /\ rule.product = ProductOf(xml.source) /\ Unsigned(Field("Channel")) = ""
         /\ \/ rule.product = "linux" /\ Field("Channel") = LinuxSysmon
            \/ /\ rule.product = "windows" /\ Piped(rule).service \in DOMAIN ServiceChannels
               /\ Field("Channel") \in ServiceChannels[Piped(rule).service]
            \/ rule.product = "windows" /\ Field("Channel") \in DOMAIN CustomChannels
<1>1. xml \in Documents /\ xml.source \in {"live", "evtx", "linux"}
  BY ViewsAre, DocumentsAssumption
<1>2. rule.product \in {"windows", "linux"}
  BY RulesAssumption
<1>3. CASE rule.product = "linux"
  <2>1. xml.source = "linux" /\ Field("Channel") = LinuxSysmon
    BY <1>3 DEF CollectedFor
  <2>2. Unsigned(LinuxSysmon) = ""
    BY DEF LinuxSysmon, Unsigned
  <2> QED BY <1>3, <2>1, <2>2 DEF ProductOf
<1>4. CASE rule.product = "windows"
  <2>1. xml.source # "linux" /\ Field("Channel") \in ChannelsOf(rule)
    BY <1>4 DEF CollectedFor
  <2>2. Piped(rule).product = "windows" /\ Piped(rule).service # ""
    <3>1. Piped(rule).product = "windows"
      BY <1>4 DEF Piped
    <3>2. CASE rule.category = ""
      <4>1. rule.service \in DOMAIN ServiceChannels
        BY <1>4, <3>2, RulesAssumption
      <4>2. rule.service # ""
        BY <4>1 DEF ServiceChannels
      <4>3. Piped(rule).service = rule.service
        BY <3>2, ServicePiped
      <4> QED BY <3>1, <4>2, <4>3
    <3>3. CASE rule.category \in SysmonNames
      BY <3>1, <3>3, SysmonPiped
    <3>4. CASE rule.category \in PowerShellNames
      <4>1. Piped(rule).service = PowerShellService(rule.category)
        BY <1>4, <3>4, PowerShellPiped
      <4> QED BY <3>1, <4>1 DEF PowerShellService
    <3> QED BY <1>4, <3>2, <3>3, <3>4, RulesAssumption, RouteNames DEF Routed
  <2>3. \/ /\ Piped(rule).service \in DOMAIN ServiceChannels
           /\ Field("Channel") \in ServiceChannels[Piped(rule).service]
        \/ Field("Channel") \in DOMAIN CustomChannels
    <3> DEFINE service == Piped(rule).service
               channel == Field("Channel")
    <3> HIDE DEF channel
    <3>1. ChannelsOf(rule) = (IF service \in DOMAIN ServiceChannels THEN ServiceChannels[service] ELSE {})
                               \cup {c \in DOMAIN CustomChannels : CustomChannels[c] = service}
      BY <2>2 DEF ChannelsOf
    <3>2. channel \in ChannelsOf(rule)
      BY <2>1 DEF channel
    <3> HIDE DEF service
    <3>3. \/ service \in DOMAIN ServiceChannels /\ channel \in ServiceChannels[service]
          \/ channel \in DOMAIN CustomChannels
      BY <3>1, <3>2
    <3> QED BY <3>3 DEF service, channel
  <2>4. Unsigned(Field("Channel")) = ""
    <3>1. CASE /\ Piped(rule).service \in DOMAIN ServiceChannels
               /\ Field("Channel") \in ServiceChannels[Piped(rule).service]
      BY <3>1, ServicesOfChannels
    <3>2. CASE Field("Channel") \in DOMAIN CustomChannels
      <4> DEFINE channel == Field("Channel")
      <4>1. MaybeNumber(channel) = Missing
        BY <3>2, CustomChannelsAssumption
      <4> HIDE DEF channel
      <4>2. Number(Unsigned(channel)) # Missing
        <5>1. Number(Unsigned(channel))[1] = "number"
          BY DEF Number
        <5>2. "number" # "missing"
          OBVIOUS
        <5> QED BY <5>1, <5>2, MissingIs
      <4>3. Unsigned(channel) = ""
        <5>1. Unsigned(channel) # "" => Signed(channel) = ""
          BY DEF Unsigned, Signed
        <5>2. Unsigned(channel) # "" => MaybeNumber(channel) = Number(Unsigned(channel))
          BY <5>1 DEF MaybeNumber
        <5> QED BY <4>1, <4>2, <5>2
      <4> QED BY <4>3 DEF channel
    <3> QED BY <2>3, <3>1, <3>2
  <2> QED BY <1>4, <2>1, <2>3, <2>4 DEF ProductOf
<1> QED BY <1>2, <1>3, <1>4

\* The document has a plain id.
PlainId == HasPlainId(xml.nodes)

\* What a rule judges an event by, from the fields of its document.
LEMMA EventKeys ==
  ASSUME ReadInv, IsEvent, NEW rule \in SigmaRules, CollectedFor(rule)
  PROVE  \E id, found :
           /\ Reaches(rule, event[2].json) <=>
                JudgedBy(rule, rule.product, ServiceAs(Field("Channel"), Provider),
                         CategoryAs(Field("Channel"), found, EventType(event[2].json)), id,
                         EventType(event[2].json))
           /\ id \in {IdText(Field("EventID")), "0"}
           /\ PlainId => id = IdText(Field("EventID")) /\ found = IdText(Field("EventID"))
<1> DEFINE nodes == xml.nodes
           old == Plain(nodes)
           id == IdOf(Get(System(old), "EventID"))
           found == JsonEventId(old)
           type == EventType(old)
<1>1. /\ xml \in Documents /\ IsTree(nodes) /\ EventNodes(nodes) # {}
      /\ HasSystem(nodes, EventNode(nodes))
  BY ViewsAre, DocumentsAssumption
<1>2. KeysOf(nodes, old)
  BY <1>1, KeysAre
<1>3. /\ Unsigned(Field("Channel")) = "" /\ rule.product = ProductOf(xml.source)
  BY CollectedIs
<1>4. /\ JsonChannel(old) = Field("Channel") /\ JsonProvider(old) = Provider
      /\ id \in {IdText(Field("EventID")), "0"}
      /\ PlainId => id = IdText(Field("EventID")) /\ found = IdText(Field("EventID"))
  BY <1>2, <1>3 DEF KeysOf, Field, SystemOf, Provider, PlainId
<1>5. EventType(event[2].json) = type
  BY JudgedIs
<1>6. Reaches(rule, event[2].json) <=>
        JudgedBy(rule, ProductOf(xml.source), ServiceOf(old, ""), CategoryOf(old), id, type)
  BY ReachesBy
<1>7. ServiceOf(old, "") = ServiceAs(JsonChannel(old), JsonProvider(old))
      /\ CategoryOf(old) = CategoryAs(JsonChannel(old), found, type)
  BY LogsourceAs
<1> HIDE DEF nodes, old, id, found, type
<1>8. Reaches(rule, event[2].json) <=>
        JudgedBy(rule, rule.product, ServiceAs(Field("Channel"), Provider),
                 CategoryAs(Field("Channel"), found, EventType(event[2].json)), id,
                 EventType(event[2].json))
  BY <1>3, <1>4, <1>5, <1>6, <1>7
<1> QED BY <1>4, <1>8

\* Where an event was first logged.
LEMMA HomeIs ==
  ASSUME ReadInv, IsEvent
  PROVE  /\ Field("Channel") = LinuxSysmon => HomeChannel = Sysmon
         /\ \A service \in DOMAIN ServiceChannels :
              Field("Channel") \in ServiceChannels[service] => HomeChannel = Field("Channel")
         /\ Field("Channel") \in DOMAIN CustomChannels =>
              /\ Field("Channel") \notin DOMAIN ChannelToService
              /\ HomeChannel = IF Provider = "Microsoft-Windows-Sysmon" THEN Sysmon ELSE Field("Channel")
<1> DEFINE channel == Field("Channel")
<1>1. channel \in DOMAIN CustomChannels => channel \notin DOMAIN ChannelToService
  BY CustomChannelsAssumption
<1>2. \A service \in DOMAIN ServiceChannels : channel \in ServiceChannels[service] =>
        channel \in DOMAIN ChannelToService /\ channel # LinuxSysmon
  BY ServicesOfChannels
<1>3. LinuxSysmon \in DOMAIN ChannelToService
  BY DEF ChannelToService
<1> HIDE DEF channel
<1>4. HomeChannel = CASE channel = LinuxSysmon -> Sysmon
                      [] channel \in DOMAIN CustomChannels /\ Provider = "Microsoft-Windows-Sysmon" -> Sysmon
                      [] OTHER -> channel
  BY DEF HomeChannel, channel
<1>5. channel = LinuxSysmon => HomeChannel = Sysmon
  BY <1>1, <1>3, <1>4
<1>6. ASSUME NEW service \in DOMAIN ServiceChannels, channel \in ServiceChannels[service]
      PROVE  HomeChannel = channel
  BY <1>1, <1>2, <1>4, <1>6
<1>7. ASSUME channel \in DOMAIN CustomChannels
      PROVE  HomeChannel = IF Provider = "Microsoft-Windows-Sysmon" THEN Sysmon ELSE channel
  BY <1>1, <1>3, <1>4, <1>7
<1> QED BY <1>1, <1>5, <1>6, <1>7 DEF channel

\* An id that a condition asks for is the one of the document.
LEMMA ConditionIds ==
  ASSUME NEW text, NEW id \in {IdText(text), "0"}, NEW category, NEW type
  PROVE  /\ SysmonConditions(category, id, type) =>
              \/ category # "registry_delete" /\ InSysmonCategory(category, text, type)
              \/ category = "registry_delete" /\ text = "12"
         /\ PowerShellConditions(category, id) => PowerShellConditions(category, text)
<1>1. \A n \in {"1", "12", "13", "14", "19", "400", "600", "4103", "4104"} : id = n => text = n
  BY IdTextIs
<1>2. id \notin {"20", "21"}
  BY IdTextIs
<1>3. SysmonConditions(category, id, type) =>
        \/ category # "registry_delete" /\ InSysmonCategory(category, text, type)
        \/ category = "registry_delete" /\ text = "12"
  <2> HAVE SysmonConditions(category, id, type)
  <2>1. CASE category = "process_creation" /\ id = "1"
    BY <1>1, <2>1 DEF InSysmonCategory
  <2>2. CASE category = "registry_event" /\ id \in {"12", "13", "14"}
    BY <1>1, <2>2 DEF InSysmonCategory
  <2>3. CASE category = "registry_add" /\ id = "12" /\ type = "CreateKey"
    BY <1>1, <2>3 DEF InSysmonCategory
  <2>4. CASE category = "registry_delete" /\ id = "12"
    BY <1>1, <2>4
  <2>5. CASE category = "registry_set" /\ id = "13" /\ type = "SetValue"
    BY <1>1, <2>5 DEF InSysmonCategory
  <2>6. CASE category = "registry_rename" /\ id = "14" /\ type = "RenameKey"
    BY <1>1, <2>6 DEF InSysmonCategory
  <2>7. CASE category = "wmi_event" /\ id \in {"19", "20", "21"}
    BY <1>1, <1>2, <2>7 DEF InSysmonCategory
  <2> QED BY <2>1, <2>2, <2>3, <2>4, <2>5, <2>6, <2>7 DEF SysmonConditions
<1>4. PowerShellConditions(category, id) => PowerShellConditions(category, text)
  BY <1>1 DEF PowerShellConditions
<1> QED BY <1>3, <1>4

\* What Sigma puts in a category meets the conditions of its rules.
LEMMA CategoryConditions ==
  ASSUME NEW text, NEW category, NEW type
  PROVE  /\ InSysmonCategory(category, text, type)
              /\ (text = "13" => type = "SetValue") /\ (text = "14" => type = "RenameKey")
            => SysmonConditions(category, IdText(text), type)
         /\ PowerShellConditions(category, text) => PowerShellConditions(category, IdText(text))
<1>1. \A n \in {"1", "12", "13", "14", "19", "400", "600", "4103", "4104"} : text = n => IdText(text) = n
  BY IdTextIs
<1>2. ASSUME InSysmonCategory(category, text, type), text = "13" => type = "SetValue",
             text = "14" => type = "RenameKey"
      PROVE  SysmonConditions(category, IdText(text), type)
  BY <1>1, <1>2 DEF InSysmonCategory, SysmonConditions
<1>3. PowerShellConditions(category, text) => PowerShellConditions(category, IdText(text))
  BY <1>1 DEF PowerShellConditions
<1> QED BY <1>2, <1>3

\* A rule is evaluated on the events of its category only: no hypothesis on ids.
OnlyItsEvents(rule) ==
  Reaches(rule, event[2].json) =>
    \/ Belongs(rule)
    \/ rule.category = "registry_delete" /\ "registry_add" \in Categories
    \/ Field("Channel") \in DOMAIN CustomChannels

\* What a rule sees of the known channels belongs to it.
LEMMA OnlyItsEventsInv ==
  ASSUME ReadInv, IsEvent, NEW rule \in SigmaRules, CollectedFor(rule)
  PROVE  OnlyItsEvents(rule)
<1> SUFFICES ASSUME Reaches(rule, event[2].json), Field("Channel") \notin DOMAIN CustomChannels
             PROVE  \/ Belongs(rule)
                    \/ rule.category = "registry_delete" /\ "registry_add" \in Categories
  BY DEF OnlyItsEvents
<1> DEFINE channel == Field("Channel")
           text == Field("EventID")
           type == EventType(event[2].json)
           service == ServiceAs(channel, Provider)
<1>1. \/ rule.product = "linux" /\ channel = LinuxSysmon
      \/ /\ rule.product = "windows" /\ Piped(rule).service \in DOMAIN ServiceChannels
         /\ channel \in ServiceChannels[Piped(rule).service]
  BY CollectedIs
<1>2. PICK id, found :
        /\ Reaches(rule, event[2].json) <=>
             JudgedBy(rule, rule.product, service, CategoryAs(channel, found, type), id, type)
        /\ id \in {IdText(text), "0"}
  BY EventKeys
<1> DEFINE category == CategoryAs(channel, found, type)
<1>3. JudgedBy(rule, rule.product, service, category, id, type)
  BY <1>2
<1> HIDE DEF text, type, service, category
<1>4. CASE rule.category = ""
  <2>1. Piped(rule).service = rule.service
    BY <1>4, ServicePiped
  <2>2. CASE rule.product = "linux" /\ channel = LinuxSysmon
    <3>1. rule.service = "sysmon"
      BY <1>4, <2>2, RulesAssumption
    <3>2. HomeChannel = Sysmon
      BY <2>2, HomeIs
    <3>3. Sysmon \in ServiceChannels["sysmon"]
      BY DEF ServiceChannels
    <3> QED BY <1>4, <3>1, <3>2, <3>3 DEF Belongs
  <2>3. CASE rule.product = "windows" /\ rule.service \in DOMAIN ServiceChannels
             /\ channel \in ServiceChannels[rule.service]
    <3>1. HomeChannel = channel
      BY <2>3, HomeIs
    <3> QED BY <1>4, <2>3, <3>1 DEF Belongs
  <2> QED BY <1>1, <2>1, <2>2, <2>3
<1>5. CASE rule.category \in SysmonNames
  <2>1. Piped(rule).service = "sysmon" /\ SysmonConditions(rule.category, id, type)
    BY <1>3, <1>5, SysmonPiped
  <2>2. HomeChannel = Sysmon
    <3>1. CASE channel = LinuxSysmon
      BY <3>1, HomeIs
    <3>2. CASE "sysmon" \in DOMAIN ServiceChannels /\ channel \in ServiceChannels["sysmon"]
      <4>1. HomeChannel = channel
        BY <3>2, HomeIs
      <4>2. channel = Sysmon
        <5> HIDE DEF channel
        <5> QED BY <3>2 DEF ServiceChannels
      <4> QED BY <4>1, <4>2
    <3> QED BY <1>1, <2>1, <3>1, <3>2
  <2>3. \/ rule.category # "registry_delete" /\ InSysmonCategory(rule.category, text, type)
        \/ rule.category = "registry_delete" /\ text = "12"
    BY <1>2, <2>1, ConditionIds
  <2>4. CASE InSysmonCategory(rule.category, text, type)
    <3>1. rule.category \in Categories
      BY <1>5, <2>2, <2>4, SysmonBelongs DEF text, type
    <3>2. rule.category # ""
      BY <1>5 DEF SysmonNames
    <3> QED BY <3>1, <3>2 DEF Belongs
  <2>5. CASE rule.category = "registry_delete" /\ text = "12" /\ type # "CreateKey"
    <3>1. InSysmonCategory(rule.category, text, type)
      BY <2>5 DEF InSysmonCategory
    <3> QED BY <2>4, <3>1
  <2>6. CASE rule.category = "registry_delete" /\ text = "12" /\ type = "CreateKey"
    <3>1. "registry_add" \in SysmonNames /\ InSysmonCategory("registry_add", text, type)
      BY <2>6 DEF InSysmonCategory, SysmonNames
    <3>2. "registry_add" \in Categories
      BY <2>2, <3>1, SysmonBelongs DEF text, type
    <3> QED BY <2>6, <3>2
  <2> QED BY <2>3, <2>4, <2>5, <2>6
<1>6. CASE rule.category \in PowerShellNames /\ rule.product = "windows"
  <2>1. /\ Piped(rule).service = PowerShellService(rule.category)
        /\ PowerShellConditions(rule.category, id)
    BY <1>3, <1>6, PowerShellPiped
  <2>2. /\ PowerShellService(rule.category) \in DOMAIN ServiceChannels
        /\ channel \in ServiceChannels[PowerShellService(rule.category)]
    BY <1>1, <1>6, <2>1
  <2>3. HomeChannel = channel
    BY <2>2, HomeIs
  <2>4. PowerShellConditions(rule.category, text)
    BY <1>2, <2>1, ConditionIds
  <2>5. rule.category \in Categories
    BY <1>6, <2>2, <2>3, <2>4, PowerShellBelongs DEF text
  <2>6. rule.category # ""
    BY <1>6 DEF PowerShellNames
  <2> QED BY <2>5, <2>6 DEF Belongs
<1>7. \/ rule.category = "" \/ rule.category \in SysmonNames
      \/ rule.category \in PowerShellNames /\ rule.product = "windows"
  BY RulesAssumption, RouteNames DEF Routed
<1> QED BY <1>4, <1>5, <1>6, <1>7

\* And on all of them, when ids have no attributes.
LEMMA AllItsEventsInv ==
  ASSUME ReadInv, IsEvent, NEW rule \in SigmaRules, CollectedFor(rule), PlainId, Belongs(rule)
  PROVE  Reaches(rule, event[2].json)
<1> DEFINE channel == Field("Channel")
           text == Field("EventID")
           type == EventType(event[2].json)
           service == ServiceAs(channel, Provider)
<1>1. \/ rule.product = "linux" /\ channel = LinuxSysmon
      \/ /\ rule.product = "windows" /\ Piped(rule).service \in DOMAIN ServiceChannels
         /\ channel \in ServiceChannels[Piped(rule).service]
      \/ rule.product = "windows" /\ channel \in DOMAIN CustomChannels
  BY CollectedIs
<1>2. PICK id, found :
        /\ Reaches(rule, event[2].json) <=>
             JudgedBy(rule, rule.product, service, CategoryAs(channel, found, type), id, type)
        /\ id = IdText(text) /\ found = IdText(text)
  BY EventKeys
<1> DEFINE category == CategoryAs(channel, IdText(text), type)
<1>3. Reaches(rule, event[2].json) <=>
        JudgedBy(rule, rule.product, service, category, IdText(text), type)
  BY <1>2
<1>4. channel = Sysmon \/ channel = LinuxSysmon \/ Provider = "Microsoft-Windows-Sysmon" =>
        (text = "13" => type = "SetValue") /\ (text = "14" => type = "RenameKey")
  <2>1. xml \in Documents /\ EventNodes(xml.nodes) # {} /\ IsTyped(xml.nodes, EventNode(xml.nodes))
    BY ViewsAre, DocumentsAssumption
  <2>2. type = EventType(EventNodeToValue(xml.nodes, EventNode(xml.nodes)))
    BY JudgedIs DEF Plain
  <2> HIDE DEF type
  <2> QED BY <2>1, <2>2 DEF IsTyped, Field, SystemOf, Provider
<1>5. /\ channel = LinuxSysmon => HomeChannel = Sysmon
      /\ \A s \in DOMAIN ServiceChannels : channel \in ServiceChannels[s] => HomeChannel = channel
      /\ channel \in DOMAIN CustomChannels =>
           /\ channel \notin DOMAIN ChannelToService
           /\ HomeChannel = IF Provider = "Microsoft-Windows-Sysmon" THEN Sysmon ELSE channel
  BY HomeIs
<1>6. \A s \in DOMAIN ServiceChannels : \A c \in ServiceChannels[s] :
        c \in DOMAIN ChannelToService /\ ServiceAs(c, Provider) = s
  BY ServicesOfChannels, ServiceLogsource
<1>7. rule.product = "windows" /\ channel \in DOMAIN CustomChannels =>
        category = "" /\ (Provider = "Microsoft-Windows-Sysmon" => service = "sysmon")
  <2> SUFFICES ASSUME channel \in DOMAIN CustomChannels
               PROVE  category = "" /\ (Provider = "Microsoft-Windows-Sysmon" => service = "sysmon")
    OBVIOUS
  <2>1. channel \notin DOMAIN ChannelToService
    BY <1>5
  <2> HIDE DEF channel
  <2>2. ServiceAs(channel, "Microsoft-Windows-Sysmon") = "sysmon"
        /\ CategoryAs(channel, IdText(text), type) = ""
    BY <2>1, CustomLogsource
  <2> QED BY <2>2 DEF service, category
<1> HIDE DEF channel, text, type, service, category
<1>8. CASE rule.category = ""
  <2>1. Piped(rule).service = rule.service
    BY <1>8, ServicePiped
  <2>2. HomeChannel \in ServiceChannels[rule.service]
    BY <1>8 DEF Belongs
  <2>3. service = rule.service
    <3>1. CASE rule.product = "linux" /\ channel = LinuxSysmon
      <4>1. rule.service = "sysmon"
        BY <1>8, <3>1, RulesAssumption
      <4>2. service = "sysmon"
        BY <3>1, SysmonLogsource DEF service
      <4> QED BY <4>1, <4>2
    <3>2. CASE rule.service \in DOMAIN ServiceChannels /\ channel \in ServiceChannels[rule.service]
      BY <1>6, <3>2 DEF service
    <3>3. CASE rule.product = "windows" /\ channel \in DOMAIN CustomChannels
      <4>1. rule.service \in DOMAIN ServiceChannels
        BY <1>8, <3>3, RulesAssumption
      <4>2. HomeChannel \in DOMAIN ChannelToService /\ ServiceAs(HomeChannel, Provider) = rule.service
        BY <1>6, <2>2, <4>1
      <4>3. Provider = "Microsoft-Windows-Sysmon" /\ HomeChannel = Sysmon
        BY <1>5, <3>3, <4>2
      <4>4. ServiceAs(Sysmon, Provider) = "sysmon"
        BY SysmonLogsource
      <4> QED BY <1>7, <3>3, <4>2, <4>3, <4>4
    <3> QED BY <1>1, <2>1, <3>1, <3>2, <3>3
  <2>4. JudgedBy(rule, rule.product, service, category, IdText(text), type)
    BY <1>8, <2>3, ServicePiped
  <2> QED BY <1>3, <2>4
<1>9. CASE rule.category \in SysmonNames
  <2>1. rule.category \in Categories
    BY <1>9 DEF Belongs, SysmonNames
  <2>2. HomeChannel = Sysmon /\ InSysmonCategory(rule.category, text, type)
    BY <1>9, <2>1, SysmonBelongs DEF text, type
  <2>3. \/ channel \in {Sysmon, LinuxSysmon}
        \/ channel \in DOMAIN CustomChannels /\ Provider = "Microsoft-Windows-Sysmon"
           /\ rule.product = "windows"
    <3>1. CASE Piped(rule).service \in DOMAIN ServiceChannels /\ channel \in ServiceChannels[Piped(rule).service]
      BY <1>5, <2>2, <3>1
    <3>2. CASE rule.product = "windows" /\ channel \in DOMAIN CustomChannels
      <4>1. Sysmon \in DOMAIN ChannelToService
        BY DEF ChannelToService
      <4> QED BY <1>5, <2>2, <3>2, <4>1
    <3> QED BY <1>1, <3>1, <3>2
  <2>4. SysmonConditions(rule.category, IdText(text), type)
    BY <1>4, <2>2, <2>3, CategoryConditions
  <2>5. service = "sysmon" /\ category \in {"", rule.category}
    <3>1. CASE channel \in {Sysmon, LinuxSysmon}
      <4>1. service = "sysmon"
        BY <3>1, SysmonLogsource DEF service
      <4>2. category = SysmonCategory(IdText(text))
        BY <3>1, SysmonLogsource DEF category
      <4>3. SysmonCategory(IdText(text)) \in {"", rule.category}
        BY <2>4 DEF SysmonCategory, SysmonConditions
      <4> QED BY <4>1, <4>2, <4>3
    <3>2. CASE channel \in DOMAIN CustomChannels /\ Provider = "Microsoft-Windows-Sysmon"
               /\ rule.product = "windows"
      BY <1>7, <3>2
    <3> QED BY <2>3, <3>1, <3>2
  <2>6. JudgedBy(rule, rule.product, service, category, IdText(text), type)
    BY <1>9, <2>4, <2>5, SysmonPiped
  <2> QED BY <1>3, <2>6
<1>10. CASE rule.category \in PowerShellNames /\ rule.product = "windows"
  <2>1. rule.category \in Categories
    BY <1>10 DEF Belongs, PowerShellNames
  <2> DEFINE target == PowerShellService(rule.category)
  <2>2. HomeChannel \in ServiceChannels[target] /\ PowerShellConditions(rule.category, text)
    BY <1>10, <2>1, PowerShellBelongs DEF text
  <2>3. Piped(rule).service = target
    BY <1>10, PowerShellPiped
  <2>4. target \in DOMAIN ServiceChannels /\ target # "sysmon"
    BY DEF ServiceChannels, PowerShellService
  <2>5. channel \in ServiceChannels[target]
    <3>1. HomeChannel \in DOMAIN ChannelToService /\ ServiceAs(HomeChannel, Provider) = target
      BY <1>6, <2>2, <2>4
    <3>2. ServiceAs(Sysmon, Provider) = "sysmon"
      BY SysmonLogsource
    <3>3. channel \notin DOMAIN CustomChannels
      BY <1>5, <2>4, <3>1, <3>2
    <3> QED BY <1>1, <1>10, <2>3, <3>3
  <2>6. service = target
    BY <1>6, <2>4, <2>5 DEF service
  <2>7. PowerShellConditions(rule.category, IdText(text))
    BY <2>2, CategoryConditions
  <2>8. category = rule.category
    BY <1>10, <2>5, <2>7, PowerShellLogsource DEF category
  <2>9. JudgedBy(rule, rule.product, service, category, IdText(text), type)
    BY <1>10, <2>6, <2>7, <2>8, PowerShellPiped
  <2> QED BY <1>3, <2>9
<1>11. \/ rule.category = "" \/ rule.category \in SysmonNames
       \/ rule.category \in PowerShellNames /\ rule.product = "windows"
  BY RulesAssumption, RouteNames DEF Routed
<1> QED BY <1>8, <1>9, <1>10, <1>11

\* No event of a collector is evaluated by a rule that it is not for.
THEOREM RulesSeeOnlyTheirEvents ==
  EventsSpec => [](IsEvent => \A rule \in SigmaRules : CollectedFor(rule) => OnlyItsEvents(rule))
<1>1. ReadInv => (IsEvent => \A rule \in SigmaRules : CollectedFor(rule) => OnlyItsEvents(rule))
  BY OnlyItsEventsInv
<1> QED BY <1>1, ReadOnce, PTL

\* The ids of the documents are plain texts: those that Windows qualifies are
\* not read by the conditions of the pipelines.
IdsArePlain == \A document \in Documents : EventNodes(document.nodes) # {} => HasPlainId(document.nodes)

\* Every rule sees the events that Sigma puts in its category or its service, of
\* those collected for it, and no others but the two kinds that are named:
\* whatever the documents, the rules and the custom channels.
THEOREM RulesAndTablesAgree ==
  ASSUME IdsArePlain
  PROVE  EventsSpec => []RulesSeeTheirEvents
<1>1. ASSUME ReadInv, IsEvent PROVE PlainId
  <2>1. xml \in Documents /\ EventNodes(xml.nodes) # {}
    BY <1>1, ViewsAre
  <2> QED BY <2>1 DEF IdsArePlain, PlainId
<1>2. ASSUME ReadInv, IsEvent, NEW rule \in SigmaRules, CollectedFor(rule)
      PROVE  OnlyItsEvents(rule) /\ (Belongs(rule) => Reaches(rule, event[2].json))
  BY <1>1, <1>2, OnlyItsEventsInv, AllItsEventsInv
<1>3. ReadInv => RulesSeeTheirEvents
  BY <1>2 DEF RulesSeeTheirEvents, OnlyItsEvents
<1> QED BY <1>3, ReadOnce, PTL
=============================================================================
