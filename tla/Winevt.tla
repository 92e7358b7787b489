------------------------------- MODULE Winevt -------------------------------
(***************************************************************************)
(* The collector of one Windows channel (inputs/channels.rs,               *)
(* collect_continuous): a query whose handle is kept until its text        *)
(* changes, batches of event handles, a record-id cursor, and a probe that *)
(* resets the cursor after the log was cleared.                            *)
(*                                                                         *)
(* The event log is external.  A handle goes on to the events logged after *)
(* it was opened, as the code that keeps it expects; when the log has been *)
(* cleared EvtNext fails on it, the query result being stale.  Every event *)
(* carries its record id.                                                  *)
(***************************************************************************)
EXTENDS Integers, SequencesExt

CONSTANTS
  BatchSize,            \* event handles of one EvtNext: 32
  MAX_EVENTS,           \* 100 000
  ROLLOVER_CHECK_CYCLES,
  ChannelCap,           \* mpsc::channel(10_000)
  MaxLogged,            \* bound: events in the log between two clearings
  MaxLogs               \* bound: logs, each after the first begun by a clearing

ASSUME WinevtAssumption ==
  /\ {BatchSize, MAX_EVENTS, ROLLOVER_CHECK_CYCLES, ChannelCap, MaxLogs} \subseteq Nat \ {0}
  /\ MaxLogged \in Nat

Unbound == -1

VARIABLES
  log, newest,        \* the log, counted by its clearings, and its newest record id
  last_record_id,     \* the cursor
  bound,              \* the cursor in the text of the query, once there is one
  query_handle,       \* is it open?
  pos,                \* what EvtNext returned last through it
  batch,              \* the event handles that are open, by <<log, record id>>
  total_sent, empty_cycles,
  pc,
  buffered,           \* how many events are in the channel
  sent,               \* what went into the channel
  \* history: the log of the cursor, events that could not be rendered, events
  \* of a new log below a cursor of the old one, MAX_EVENTS was reached
  cursorLog, unrendered, outgrown, capped

external == <<log, newest>>
query == <<bound, query_handle, pos>>
cursor == <<last_record_id, cursorLog>>
history == <<unrendered, outgrown, capped>>
vars == <<external, query, cursor, batch, total_sent, empty_cycles, pc,
          buffered, sent, history>>

Events == (1 .. MaxLogs) \X (1 .. MaxLogged)

TypeOK ==
  /\ log \in 1 .. MaxLogs /\ newest \in 0 .. MaxLogged
  /\ last_record_id \in 0 .. MaxLogged /\ cursorLog \in 0 .. MaxLogs
  /\ bound \in {Unbound} \cup (0 .. MaxLogged) /\ query_handle \in BOOLEAN
  /\ pos \in (0 .. MaxLogs) \X (0 .. MaxLogged)
  /\ batch \in Seq(Events) /\ Len(batch) <= BatchSize
  /\ total_sent \in Nat /\ empty_cycles \in 0 .. (ROLLOVER_CHECK_CYCLES - 1)
  /\ pc \in {"query", "fetch", "event", "sending", "ended"}
  /\ buffered \in 0 .. ChannelCap /\ sent \in Seq(Events)
  /\ unrendered \subseteq Events /\ outgrown \subseteq Events /\ capped \in BOOLEAN

Init ==
  /\ log = 1 /\ newest \in 0 .. MaxLogged
  /\ last_record_id = 0 /\ cursorLog = 0
  /\ bound = Unbound /\ query_handle = FALSE /\ pos = <<0, 0>>
  /\ batch = <<>> /\ total_sent = 0 /\ empty_cycles = 0
  /\ pc = "query" /\ buffered = 0 /\ sent = <<>>
  /\ unrendered = {} /\ outgrown = {} /\ capped = FALSE

-----------------------------------------------------------------------------
(* The environment: the event log and the receiver.                        *)

LogEvent ==
  /\ newest < MaxLogged
  /\ newest' = newest + 1
  /\ UNCHANGED <<log, query, cursor, batch, total_sent, empty_cycles, pc,
                 buffered, sent, history>>

ClearLog ==
  /\ log < MaxLogs /\ newest > 0
  /\ log' = log + 1 /\ newest' = 0
  /\ UNCHANGED <<query, cursor, batch, total_sent, empty_cycles, pc, buffered,
                 sent, history>>

Receive ==
  /\ buffered > 0
  /\ buffered' = buffered - 1
  /\ UNCHANGED <<external, query, cursor, batch, total_sent, empty_cycles, pc,
                 sent, history>>

-----------------------------------------------------------------------------
(* The query.                                                              *)

\* The text of the query is up to date, and its handle is open.
KeepQuery ==
  /\ pc = "query" /\ bound = last_record_id /\ query_handle
  /\ pc' = "fetch" /\ total_sent' = 0
  /\ UNCHANGED <<external, query, cursor, batch, empty_cycles, buffered, sent, history>>

\* The text changes: the old handle is closed and the query made anew.
OpenQuery ==
  /\ pc = "query" /\ bound # last_record_id
  /\ bound' = last_record_id /\ query_handle' = TRUE /\ pos' = <<log, last_record_id>>
  /\ outgrown' = outgrown \cup
       (IF cursorLog = log THEN {} ELSE {<<log, i>> : i \in 1 .. last_record_id})
  /\ pc' = "fetch" /\ total_sent' = 0
  /\ UNCHANGED <<external, cursor, batch, empty_cycles, buffered, sent,
                 unrendered, capped>>

\* EvtQuery fails: the text is remembered all the same, and the next round,
\* after a pause, finds it up to date and no handle.
QueryFails ==
  /\ pc = "query" /\ bound # last_record_id
  /\ bound' = last_record_id /\ query_handle' = FALSE
  /\ UNCHANGED <<external, pos, cursor, batch, total_sent, empty_cycles, pc,
                 buffered, sent, history>>

\* The channel does not exist, the stop flag is seen, or the receiver is gone.
End ==
  /\ pc # "ended"
  /\ pc' = "ended"
  /\ UNCHANGED <<external, query, cursor, batch, total_sent, empty_cycles,
                 buffered, sent, history>>

-----------------------------------------------------------------------------
(* A cycle of fetches.                                                     *)

Stale == query_handle /\ pos[1] # log

Available == query_handle /\ ~Stale /\ pos[2] < newest

Fetch ==
  /\ pc = "fetch" /\ Available
  /\ LET n == Min({BatchSize, newest - pos[2]})
     IN /\ batch' = [i \in 1 .. n |-> <<log, pos[2] + i>>]
        /\ pos' = <<log, pos[2] + n>>
  /\ pc' = "event"
  /\ UNCHANGED <<external, bound, query_handle, cursor, total_sent, empty_cycles,
                 buffered, sent, history>>

\* Mutant: an idle channel is taken for one that was cleared.
ResetsWhenIdle(max) == max > 0 /\ max <= last_record_id

\* Mutant: only a log that is empty is taken for one that was cleared.
ResetsWhenEmpty(max) == max = 0 /\ last_record_id > 0 /\ newest = 0

\* should_reset_after_idle.
ShouldReset(max) == max > 0 /\ max < last_record_id

\* probe_max_record_id: 0 if the log is empty or the query fails.
Probe == \E max \in {0, newest} :
           IF ShouldReset(max)
           THEN last_record_id' = 0 /\ cursorLog' = 0
           ELSE UNCHANGED cursor

AfterIdleCycle ==
  IF empty_cycles + 1 >= ROLLOVER_CHECK_CYCLES
  THEN empty_cycles' = 0 /\ Probe
  ELSE empty_cycles' = empty_cycles + 1 /\ UNCHANGED cursor

AfterCycle ==
  /\ IF total_sent = 0 THEN AfterIdleCycle ELSE empty_cycles' = 0 /\ UNCHANGED cursor
  /\ pc' = "query"
  /\ UNCHANGED <<external, query, batch, total_sent, buffered, sent, history>>

\* Nothing more to fetch, or the handle is stale or was closed.
CycleEnds ==
  /\ pc = "fetch" /\ ~Available
  /\ AfterCycle

\* Any other error of EvtNext.
FetchFails ==
  /\ pc = "fetch" /\ Available
  /\ AfterCycle

-----------------------------------------------------------------------------
(* The events of a batch.                                                  *)

Event == Head(batch)

\* The event cannot be rendered or parsed.
DropEvent ==
  /\ pc = "event"
  /\ unrendered' = unrendered \cup {Event}
  /\ batch' = Tail(batch)
  /\ pc' = IF batch' = <<>> THEN "fetch" ELSE "event"
  /\ UNCHANGED <<external, query, cursor, total_sent, empty_cycles, buffered,
                 sent, outgrown, capped>>

MoveCursor ==
  IF Event[2] > last_record_id
  THEN last_record_id' = Event[2] /\ cursorLog' = Event[1]
  ELSE UNCHANGED cursor

\* Sent: at MAX_EVENTS the rest of the batch is closed, and the fetches go on.
Count(rest) ==
  /\ total_sent' = total_sent + 1
  /\ capped' = (capped \/ total_sent' >= MAX_EVENTS)
  /\ batch' = IF total_sent' >= MAX_EVENTS THEN <<>> ELSE rest
  /\ pc' = IF batch' = <<>> THEN "fetch" ELSE "event"

TrySend ==
  /\ pc = "event" /\ buffered < ChannelCap
  /\ MoveCursor
  /\ sent' = Append(sent, Event) /\ buffered' = buffered + 1
  /\ Count(Tail(batch))
  /\ UNCHANGED <<external, query, empty_cycles, unrendered, outgrown>>

\* Mutant: the rest of the batch is closed, the query is not.
FullKeepsQuery ==
  /\ pc = "event" /\ buffered = ChannelCap
  /\ MoveCursor
  /\ batch' = <<Event>>
  /\ pc' = "sending"
  /\ UNCHANGED <<external, query, total_sent, empty_cycles, buffered, sent, history>>

\* The channel is full: the rest of the batch and the query are closed.
Full ==
  /\ pc = "event" /\ buffered = ChannelCap
  /\ MoveCursor
  /\ batch' = <<Event>> /\ query_handle' = FALSE
  /\ pc' = "sending"
  /\ UNCHANGED <<external, bound, pos, total_sent, empty_cycles, buffered, sent, history>>

\* blocking_send returns.
Send ==
  /\ pc = "sending" /\ buffered < ChannelCap
  /\ sent' = Append(sent, Event) /\ buffered' = buffered + 1
  /\ Count(<<>>)
  /\ UNCHANGED <<external, query, cursor, empty_cycles, unrendered, outgrown>>

Collect == KeepQuery \/ OpenQuery \/ CycleEnds \/ DropEvent \/ TrySend \/ Full

Next == \/ Collect \/ QueryFails \/ Fetch \/ FetchFails \/ Send
        \/ End
        \/ pc # "ended" /\ (LogEvent \/ ClearLog \/ Receive)

Spec == Init /\ [][Next]_vars

\* What may be refused or fail: the send while the channel is full, EvtNext, and
\* the probe that resets the cursor.
Progress == Fetch \/ Send \/ (CycleEnds /\ last_record_id' # last_record_id)

\* The thread runs, the receiver receives, and nothing fails for ever.  Each part
\* of Progress waits for another, so that fairness of the whole is enough.
Fairness == WF_vars(Collect) /\ WF_vars(Receive) /\ SF_vars(Progress)

FairSpec == Spec /\ Fairness

-----------------------------------------------------------------------------
\* Events are sent once and in the order of the log, over queries that are
\* closed in the middle of a batch and made again, and over resets.
SentInOrder ==
  \A i, j \in DOMAIN sent : i < j =>
    \/ sent[i][1] < sent[j][1]
    \/ sent[i][1] = sent[j][1] /\ sent[i][2] < sent[j][2]

InHand == IF pc = "sending" THEN {Event} ELSE {}

\* The cursor leaves nothing behind that was not sent, unless MAX_EVENTS was
\* reached or a new log had outgrown the cursor of the old one.
NothingSkipped ==
  pc # "ended" /\ ~capped => \A i \in 1 .. last_record_id :
    <<cursorLog, i>> \in Range(sent) \cup InHand \cup unrendered \cup outgrown

\* A query that failed is not made again, and a stale one only if the new log
\* is shorter than the old one was.
Stuck == \/ pc = "query" /\ bound = last_record_id /\ ~query_handle
         \/ Stale /\ bound = last_record_id /\ newest >= last_record_id

\* An event that stays in the log is sent: the cursor is reset after a clearing.
LoggedIsSent ==
  \A e \in Events :
    (log = e[1] /\ newest >= e[2]) ~>
      (\/ e \in Range(sent) \cup unrendered \cup outgrown
       \/ log # e[1] \/ capped \/ Stuck \/ pc = "ended")
=============================================================================
