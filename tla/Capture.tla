------------------------------ MODULE Capture ------------------------------
(***************************************************************************)
(* The pipeline of one process (runner.rs, run_with_cli after startup): a  *)
(* collector task sends events into a bounded channel; the main task moves *)
(* them into the engine, lends the pipeline to a blocking generation task  *)
(* every 30 s, uploads what was captured, and on shutdown stops the        *)
(* collector, drains the channel and flushes once more.                    *)
(*                                                                         *)
(* Events are numbered in the order the collector sends them; an event     *)
(* that makes add() return files stands for the rule it captured.          *)
(***************************************************************************)
EXTENDS Naturals, Sequences

CONSTANTS
  MaxEvents,    \* bound: what the source holds
  ChannelCap,   \* mpsc::channel(10_000)
  Limits        \* the values of -r/--max-runs considered; 0 is no limit

ASSUME CaptureAssumption ==
  /\ MaxEvents \in Nat
  /\ ChannelCap \in Nat \ {0}
  /\ Limits \subseteq Nat

VARIABLES
  mode, limit,            \* live_capture() or not, max_runs
  pc,                     \* the main task
  stop,                   \* the watch channel of the shutdown
  collector,              \* running (between sends), sending, ended
  abandoned,              \* did the main task give the collector up?
  taken, chan,            \* events the collector took so far, the channel
  buffered, examined,     \* engine.events, and what process_events has seen
  slot,                   \* is the pipeline here, or lost to a panic?
  runs,                   \* runs_completed, counted when there is a limit
  batch, committed,       \* the upload: its rules, those that have a commit
  exit,                   \* the result of run_with_cli
  \* history: Ctrl+C or stop file seen, the drain timed out, what became of the
  \* captured rules, and those that the last flush captured
  interrupted, cut, uploaded, deferred, failed, flushed

source == <<collector, abandoned, taken>>
upload == <<batch, committed>>
outcome == <<uploaded, deferred, failed>>
vars == <<mode, limit, pc, stop, source, chan, buffered, examined, slot, runs,
          upload, exit, interrupted, cut, outcome, flushed>>

Events == 1 .. MaxEvents

Looping == {"select", "generate", "upload"}

Phases == Looping \cup {"wait", "drain", "final_generate", "final_upload", "done"}

TypeOK ==
  /\ mode \in {"live", "oneshot"} /\ limit \in Limits
  /\ pc \in Phases
  /\ stop \in BOOLEAN /\ abandoned \in BOOLEAN
  /\ collector \in {"running", "sending", "ended"}
  /\ taken \in 0 .. MaxEvents
  /\ chan \in Seq(Events) /\ Len(chan) <= ChannelCap
  /\ buffered \in Seq(Events) /\ examined \in Seq(Events)
  /\ slot \in {"here", "lost"}
  /\ runs \in 0 .. limit
  /\ batch \subseteq Events /\ committed \subseteq batch
  /\ exit \in {"running", "ok", "error"}
  /\ interrupted \in BOOLEAN /\ cut \in BOOLEAN
  /\ uploaded \subseteq Events /\ deferred \subseteq Events /\ failed \subseteq Events
  /\ flushed \subseteq Events

Init ==
  /\ mode \in {"live", "oneshot"} /\ limit \in Limits
  /\ pc = "select" /\ stop = FALSE /\ collector = "running" /\ abandoned = FALSE
  /\ taken = 0 /\ chan = <<>> /\ buffered = <<>> /\ examined = <<>>
  /\ slot = "here" /\ runs = 0 /\ batch = {} /\ committed = {} /\ exit = "running"
  /\ interrupted = FALSE /\ cut = FALSE
  /\ uploaded = {} /\ deferred = {} /\ failed = {} /\ flushed = {}

\* drop(rx), or the return of run_with_cli.
ReceiverDropped == pc \in {"final_generate", "final_upload", "done"}

\* Every sender is gone: the collector's, and main_tx of a live run.
ChannelClosed == collector = "ended" /\ ~(mode = "live" /\ pc \in Looping)

-----------------------------------------------------------------------------
(* The collector.                                                          *)

\* One-shot reads `stop` before every event; a tail reads it once per poll and
\* sends what it has read without looking again.
NextEvent ==
  /\ collector = "running" /\ taken < MaxEvents
  /\ mode = "oneshot" => ~stop
  /\ collector' = "sending"
  /\ taken' = taken + 1
  /\ UNCHANGED <<mode, limit, pc, stop, abandoned, chan, buffered, examined,
                 slot, runs, upload, exit, interrupted, cut, outcome, flushed>>

\* send().await and blocking_send return once there is room.
Send ==
  /\ collector = "sending" /\ ~ReceiverDropped /\ Len(chan) < ChannelCap
  /\ chan' = Append(chan, taken)
  /\ collector' = "running"
  /\ UNCHANGED <<mode, limit, pc, stop, abandoned, taken, buffered, examined, slot, runs,
                 upload, exit, interrupted, cut, outcome, flushed>>

\* The end of the files, the stop flag, a closed channel, an error of the
\* source, or the abort of an abandoned one-shot task at its next await.  The
\* blocking thread of a tail cannot be aborted.
CollectorEnds ==
  /\ \/ collector = "running" /\ (mode = "live" \/ taken = MaxEvents \/ stop \/ ReceiverDropped)
     \/ collector = "sending" /\ ReceiverDropped
     \/ collector # "ended" /\ mode = "oneshot" /\ abandoned
  /\ collector' = "ended"
  /\ UNCHANGED <<mode, limit, pc, stop, abandoned, taken, chan, buffered, examined,
                 slot, runs, upload, exit, interrupted, cut, outcome, flushed>>

-----------------------------------------------------------------------------
(* The main loop.                                                          *)

\* The Ctrl+C task, or the stop-file poller of a live run.
Interrupt ==
  /\ pc # "done" /\ ~interrupted
  /\ stop' = TRUE /\ interrupted' = TRUE
  /\ UNCHANGED <<mode, limit, pc, source, chan, buffered, examined, slot, runs,
                 upload, exit, cut, outcome, flushed>>

ObserveStop ==
  /\ pc = "select" /\ stop
  /\ pc' = "wait"
  /\ UNCHANGED <<mode, limit, stop, source, chan, buffered, examined, slot, runs,
                 upload, exit, interrupted, cut, outcome, flushed>>

\* Mutant: an event that arrives without a pipeline is dropped.
ReceiveDrops ==
  /\ pc = "select" /\ chan # <<>>
  /\ chan' = Tail(chan)
  /\ UNCHANGED <<mode, limit, pc, stop, source, buffered, examined, slot, runs,
                 upload, exit, interrupted, cut, outcome, flushed>>

\* rx.recv() gave an event: put_event.
Receive ==
  /\ pc = "select" /\ chan # <<>>
  /\ buffered' = Append(buffered, Head(chan))
  /\ chan' = Tail(chan)
  /\ UNCHANGED <<mode, limit, pc, stop, source, examined, slot, runs, upload, exit,
                 interrupted, cut, outcome, flushed>>

\* rx.recv() gave None.
EndOfEvents ==
  /\ pc = "select" /\ chan = <<>> /\ ChannelClosed
  /\ pc' = "wait"
  /\ UNCHANGED <<mode, limit, stop, source, chan, buffered, examined, slot, runs,
                 upload, exit, interrupted, cut, outcome, flushed>>

\* The interval fires: the pipeline moves into the blocking task.
TickFires ==
  /\ pc = "select"
  /\ pc' = "generate"
  /\ UNCHANGED <<mode, limit, stop, source, chan, buffered, examined, slot, runs,
                 upload, exit, interrupted, cut, outcome, flushed>>

\* The end of a tick branch: runs_completed and the max-runs test.
AfterCycle ==
  /\ runs' = IF limit = 0 THEN 0 ELSE runs + 1
  /\ IF limit # 0 /\ runs + 1 >= limit
     THEN stop' = TRUE /\ pc' = "wait"
     ELSE UNCHANGED stop /\ pc' = "select"

\* process_and_generate: every buffered event is examined, some capture a rule.
Examine(hits) ==
  /\ examined' = examined \o buffered
  /\ buffered' = <<>>
  /\ batch' = hits
  /\ committed' = {}

\* The task of a cycle returned.
Generate ==
  /\ pc = "generate"
  /\ \E hits \in SUBSET {buffered[i] : i \in DOMAIN buffered} :
       /\ Examine(hits)
       /\ IF hits = {}
          THEN AfterCycle
          ELSE pc' = "upload" /\ UNCHANGED <<runs, stop>>
  /\ UNCHANGED <<mode, limit, source, chan, slot, exit, interrupted, cut, outcome, flushed>>

\* The task of a cycle panicked: the pipeline is gone.
GeneratePanics ==
  /\ pc = "generate"
  /\ slot' = "lost" /\ buffered' = <<>>
  /\ stop' = TRUE /\ pc' = "wait"
  /\ UNCHANGED <<mode, limit, source, chan, examined, runs, upload, exit,
                 interrupted, cut, outcome, flushed>>
-----------------------------------------------------------------------------
(* upload_rule_batches, as the runner sees it.                             *)

Uploading == pc \in {"upload", "final_upload"}

Rest == batch \ committed

\* Mutant: the final flush polls the shutdown flag like a cycle.
ShouldAbortAlways == mode = "live" /\ stop

\* The closure given to upload_rule_batches: only the cycles of a live run poll
\* the shutdown flag.
ShouldAbort == mode = "live" /\ pc = "upload" /\ stop

\* Rules are committed in the order of their events.
CommitRule ==
  /\ Uploading
  /\ committed = {} \/ ~ShouldAbort
  /\ \E e \in Rest : /\ \A other \in Rest : e <= other
                     /\ committed' = committed \cup {e}
  /\ UNCHANGED <<mode, limit, pc, stop, source, chan, buffered, examined, slot, runs,
                 batch, exit, interrupted, cut, outcome, flushed>>

\* What follows the upload: the cycle ends, or the process does; only one-shot
\* returns the error of its last upload.
AfterUpload(ok) ==
  /\ batch' = {} /\ committed' = {}
  /\ IF pc = "upload"
     THEN AfterCycle /\ UNCHANGED exit
     ELSE /\ pc' = "done"
          /\ exit' = IF ok \/ mode = "live" THEN "ok" ELSE "error"
          /\ UNCHANGED <<runs, stop>>
  /\ UNCHANGED <<mode, limit, source, chan, buffered, examined, slot, interrupted, cut, flushed>>

\* The shutdown flag is seen after the first commit: the other rules are left.
DeferRest ==
  /\ Uploading /\ committed # {} /\ Rest # {} /\ ShouldAbort
  /\ deferred' = deferred \cup Rest
  /\ uploaded' = uploaded \cup committed
  /\ UNCHANGED failed
  /\ AfterUpload(TRUE)

\* Every commit is made, and pushed in contrib mode.
UploadDone ==
  /\ Uploading /\ Rest = {}
  /\ uploaded' = uploaded \cup batch
  /\ UNCHANGED <<deferred, failed>>
  /\ AfterUpload(TRUE)

\* Mutant: a failed upload forgets the commits that it rolls back.
UploadFailsForRest ==
  /\ Uploading
  /\ failed' = failed \cup Rest
  /\ UNCHANGED <<deferred, uploaded>>
  /\ AfterUpload(FALSE)

\* A commit or the push failed: the branch is back at its tip.
UploadFails ==
  /\ Uploading
  /\ failed' = failed \cup batch
  /\ UNCHANGED <<deferred, uploaded>>
  /\ AfterUpload(FALSE)
-----------------------------------------------------------------------------
(* Shutdown.                                                               *)

\* The join of the collector task, or its 10 s timeout; nobody receives
\* meanwhile.  Without a pipeline the run ends here.
AfterWait ==
  /\ IF slot = "lost"
     THEN pc' = "done" /\ exit' = "ok"
     ELSE pc' = "drain" /\ UNCHANGED exit
  /\ UNCHANGED <<mode, limit, stop, collector, taken, chan, buffered, examined, slot,
                 runs, upload, interrupted, cut, outcome, flushed>>

CollectorJoined ==
  /\ pc = "wait" /\ collector = "ended"
  /\ UNCHANGED abandoned
  /\ AfterWait

\* Mutant: the join has no timeout in live mode.
CollectorTimeoutOneShot ==
  /\ pc = "wait" /\ collector # "ended" /\ mode = "oneshot"
  /\ abandoned' = TRUE
  /\ AfterWait

CollectorTimeout ==
  /\ pc = "wait" /\ collector # "ended"
  /\ abandoned' = TRUE
  /\ AfterWait

DrainOne ==
  /\ pc = "drain" /\ chan # <<>>
  /\ buffered' = Append(buffered, Head(chan))
  /\ chan' = Tail(chan)
  /\ UNCHANGED <<mode, limit, pc, stop, source, examined, slot, runs, upload, exit,
                 interrupted, cut, outcome, flushed>>

\* Mutant: the drain stops at an empty channel, without waiting for its close.
DrainEndsEarly ==
  /\ pc = "drain" /\ chan = <<>>
  /\ pc' = "final_generate"
  /\ UNCHANGED <<mode, limit, stop, source, chan, buffered, examined, slot, runs,
                 upload, exit, interrupted, cut, outcome, flushed>>

DrainEnds ==
  /\ pc = "drain" /\ chan = <<>> /\ ChannelClosed
  /\ pc' = "final_generate"
  /\ UNCHANGED <<mode, limit, stop, source, chan, buffered, examined, slot, runs,
                 upload, exit, interrupted, cut, outcome, flushed>>

\* The 5 s timeout of the drain: what is in the channel is dropped with it.
DrainTimeout ==
  /\ pc = "drain" /\ ~(chan = <<>> /\ ChannelClosed)
  /\ pc' = "final_generate"
  /\ cut' = TRUE /\ chan' = <<>>
  /\ UNCHANGED <<mode, limit, stop, source, buffered, examined, slot, runs, upload,
                 exit, interrupted, outcome, flushed>>

FinalGenerate ==
  /\ pc = "final_generate"
  /\ \E hits \in SUBSET {buffered[i] : i \in DOMAIN buffered} :
       /\ Examine(hits)
       /\ flushed' = hits
       /\ IF hits = {}
          THEN pc' = "done" /\ exit' = "ok"
          ELSE pc' = "final_upload" /\ UNCHANGED exit
  /\ UNCHANGED <<mode, limit, stop, source, chan, slot, runs, interrupted, cut, outcome>>

\* A panic of the last task is logged, and the run still ends well.
FinalGeneratePanics ==
  /\ pc = "final_generate"
  /\ slot' = "lost" /\ buffered' = <<>>
  /\ pc' = "done" /\ exit' = "ok"
  /\ UNCHANGED <<mode, limit, stop, source, chan, examined, runs, upload,
                 interrupted, cut, outcome, flushed>>

Task == \/ Generate \/ GeneratePanics
        \/ CommitRule \/ DeferRest \/ UploadDone \/ UploadFails
        \/ CollectorJoined \/ CollectorTimeout
        \/ DrainEnds \/ DrainTimeout
        \/ FinalGenerate \/ FinalGeneratePanics

Next == \/ NextEvent \/ Send \/ CollectorEnds
        \/ Interrupt \/ ObserveStop \/ Receive \/ EndOfEvents \/ TickFires
        \/ DrainOne
        \/ Task

Spec == Init /\ [][Next]_vars

\* Threads run, timers fire, a blocking task returns.  select! polls its ready
\* branches in random order, so none waits for ever; a tail reaches the test of
\* its stop flag, and a one-shot collector reads on.
Fairness ==
  /\ WF_vars(Task)
  /\ SF_vars(ObserveStop) /\ SF_vars(Receive) /\ SF_vars(EndOfEvents)
  /\ SF_vars(TickFires)
  /\ SF_vars(Send)
  /\ WF_vars(mode = "oneshot" /\ NextEvent)
  /\ WF_vars(CollectorEnds /\ (stop \/ mode = "oneshot" \/ ReceiverDropped))

FairSpec == Spec /\ Fairness

-----------------------------------------------------------------------------
\* A panic took the pipeline, the drain timed out, or a one-shot collector was
\* aborted in its send.
Cut == slot = "lost" \/ cut \/ (mode = "oneshot" /\ abandoned)

InHand == IF collector = "sending" THEN <<taken>> ELSE <<>>

\* Seen from the source, the run is the stream of EventStream: its events are
\* examined in their order and each captured rule comes to one end, through the
\* channel, the lent pipeline, panics, uploads and the two timeouts.
Stream == INSTANCE EventStream WITH captured <- batch, lost <- Cut, ended <- (pc = "done")
ImplementsStream == Stream!Spec

\* What was examined, the buffer of the engine, the channel and the event in
\* the collector's hand are, end to end, the events taken: none is lost,
\* repeated or reordered while the pipeline is lent, uploads run or the
\* shutdown drains.
NothingLostOnTheWay ==
  ~Cut => examined \o buffered \o chan \o InHand = [i \in 1 .. taken |-> i]

\* A run that was not cut examined every event its collector took, and a
\* one-shot run that nobody stopped examined the whole source.
AllExaminedAtTheEnd ==
  pc = "done" /\ ~Cut =>
    /\ Len(examined) = taken
    /\ mode = "oneshot" /\ limit = 0 /\ ~interrupted => taken = MaxEvents

\* From the hand of the collector to the engine and to the end of the run, every
\* event is somewhere, once and in its place.
NoEventIsLost == NothingLostOnTheWay /\ AllExaminedAtTheEnd

\* "Final flush: never abort the promised last commit/push" (runner.rs:602): what
\* the flush captured, after whatever cycles, has at the end of the run reached the
\* repository or has failed as a whole; none of it is left to a later run, however
\* late the shutdown was asked for.  A one-shot run, which alone gives the error on,
\* ends in error just when what it flushed did not get there; a live run never.
FinalFlushIsSettled ==
  pc = "done" =>
    /\ flushed \subseteq uploaded \/ flushed \subseteq failed
    /\ flushed \cap deferred = {}
    /\ exit = "error" <=> mode = "oneshot" /\ flushed # {} /\ flushed \subseteq failed

\* After a shutdown the process ends, the blocking thread of a tail with it,
\* whatever the channel holds and whoever waits for whom.
ShutdownTerminates == stop ~> (pc = "done" /\ collector = "ended")

\* One-shot needs no signal to end.
OneShotTerminates == mode = "oneshot" ~> pc = "done"

\* --max-runs counts completed cycles: with a limit there are never more.
LimitIsKept == [](limit # 0 => runs <= limit)

\* Every run that is stopped, or that reads files, ends, and a limited one after
\* no more cycles than it may take.
RunsTerminate == ShutdownTerminates /\ OneShotTerminates /\ LimitIsKept

\* An event that was taken is examined unless the run is cut.
TakenIsExamined == \A e \in Events : taken >= e ~> Len(examined) >= e \/ Cut
=============================================================================
