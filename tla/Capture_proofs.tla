--------------------------- MODULE Capture_proofs ---------------------------
(***************************************************************************)
(* Every event is somewhere, once and in its place, for sources and        *)
(* channels of any size and any limit of cycles; and every run implements  *)
(* EventStream, what is promised of it seen from outside.                  *)
(***************************************************************************)
EXTENDS Capture, TLAPS

Types == /\ taken \in Nat
         /\ chan \in Seq(Nat) /\ buffered \in Seq(Nat) /\ examined \in Seq(Nat)

Hand == IF collector = "sending" THEN 1 ELSE 0

\* The events, by the place each has in the four that hold them.
Places ==
  /\ \A i \in 1 .. Len(examined) : examined[i] = i
  /\ \A i \in 1 .. Len(buffered) : buffered[i] = Len(examined) + i
  /\ \A i \in 1 .. Len(chan) : chan[i] = Len(examined) + Len(buffered) + i
  /\ taken = Len(examined) + Len(buffered) + Len(chan) + Hand

\* When the receiver is dropped nothing is in the channel and nobody sends; what
\* the engine holds is examined before the flush.
Drained ==
  /\ ReceiverDropped => chan = <<>> /\ collector = "ended"
  /\ pc \in {"final_upload", "done"} => buffered = <<>>

\* Without a limit only an interrupt stops a run, and only that ends a one-shot
\* collector before the end of its source.
WholeSource ==
  limit = 0 /\ ~interrupted =>
    /\ ~stop
    /\ mode = "oneshot" /\ collector = "ended" => taken = MaxEvents

Sound == ~Cut => Places /\ Drained /\ WholeSource

IndInv == Types /\ Sound

-----------------------------------------------------------------------------
\* Before anything was taken.
LEMMA InitInv == Init => IndInv
<1> SUFFICES ASSUME Init PROVE IndInv
  OBVIOUS
<1> USE DEF Init
<1>1. Types
  BY DEF Types
<1>2. Places
  BY DEF Places, Hand
<1>3. Drained /\ WholeSource
  BY DEF Drained, WholeSource, ReceiverDropped
<1> QED
  BY <1>1, <1>2, <1>3 DEF IndInv, Sound

\* What moves no event.
LEMMA QuietInv ==
  ASSUME IndInv, UNCHANGED <<mode, limit, taken, collector, chan, buffered, examined>>,
         Cut => Cut', interrupted => interrupted',
         ~Cut' /\ limit = 0 /\ ~interrupted' => stop' = stop,
         ReceiverDropped' /\ ~Cut' =>
           ReceiverDropped \/ (chan = <<>> /\ collector = "ended"),
         ~Cut' /\ pc' \in {"final_upload", "done"} => pc \in {"final_upload", "done"}
  PROVE  IndInv'
<1>1. Types'
  BY DEF IndInv, Types
<1>2. ASSUME ~Cut' PROVE Places' /\ Drained' /\ WholeSource'
  <2>1. Places /\ Drained /\ WholeSource
    BY <1>2 DEF IndInv, Sound
  <2>2. Places'
    BY <2>1 DEF Places, Hand
  <2>3. Drained'
    BY <1>2, <2>1 DEF Drained
  <2>4. WholeSource'
    BY <1>2, <2>1 DEF WholeSource
  <2> QED
    BY <2>2, <2>3, <2>4
<1> QED
  BY <1>1, <1>2 DEF IndInv, Sound

\* The collector takes an event, hands it to the channel, ends.
LEMMA CollectorInv == IndInv /\ (NextEvent \/ Send \/ CollectorEnds) => IndInv'
<1> SUFFICES ASSUME IndInv, NextEvent \/ Send \/ CollectorEnds PROVE IndInv'
  OBVIOUS
<1>1. Cut' = Cut /\ UNCHANGED <<mode, limit, stop, interrupted, pc, buffered, examined>>
  BY DEF NextEvent, Send, CollectorEnds, Cut
<1>2. ASSUME ~Cut' PROVE Types /\ Places /\ Drained /\ WholeSource
  BY <1>1, <1>2 DEF IndInv, Sound
<1>3. CASE NextEvent
  <2>1. Types'
    BY <1>1, <1>3 DEF NextEvent, IndInv, Types
  <2>2. ASSUME ~Cut' PROVE Places'
    BY <1>1, <1>2, <1>3, <2>2 DEF NextEvent, Types, Places, Hand
  <2>3. ASSUME ~Cut' PROVE Drained' /\ WholeSource'
    BY <1>1, <1>2, <1>3, <2>3 DEF NextEvent, Drained, WholeSource, ReceiverDropped
  <2> QED
    BY <2>1, <2>2, <2>3 DEF IndInv, Sound
<1>4. CASE Send
  <2>1. /\ chan' = Append(chan, taken) /\ taken' = taken /\ collector = "sending"
        /\ collector' = "running" /\ ~ReceiverDropped
    BY <1>4 DEF Send
  <2>2. Types' /\ Len(chan') = Len(chan) + 1 /\ chan'[Len(chan) + 1] = taken
        /\ \A i \in 1 .. Len(chan) : chan'[i] = chan[i]
    BY <1>1, <2>1 DEF IndInv, Types
  <2>3. ASSUME ~Cut' PROVE Places'
    <3>1. Len(examined) \in Nat /\ Len(buffered) \in Nat /\ Len(chan) \in Nat /\ Places
      BY <1>2, <2>3 DEF Types
    <3>2. taken = Len(examined) + Len(buffered) + (Len(chan) + 1)
      BY <2>1, <3>1 DEF Places, Hand
    <3>3. ASSUME NEW i \in 1 .. Len(chan')
          PROVE  chan'[i] = Len(examined) + Len(buffered) + i
      <4>1. CASE i \in 1 .. Len(chan)
        BY <2>2, <3>1, <4>1 DEF Places
      <4>2. CASE i = Len(chan) + 1
        BY <2>2, <3>2, <4>2
      <4> QED
        BY <2>2, <3>1, <4>1, <4>2
    <3>4. taken = Len(examined) + Len(buffered) + Len(chan') + 0
      BY <2>2, <3>1, <3>2
    <3>5. Hand' = 0
      BY <2>1 DEF Hand
    <3>6. taken' = taken /\ UNCHANGED <<buffered, examined>>
      BY <1>1, <2>1
    <3> QED
      BY <3>1, <3>3, <3>4, <3>5, <3>6 DEF Places
  <2>4. ASSUME ~Cut' PROVE Drained' /\ WholeSource'
    BY <1>1, <1>2, <2>1, <2>4 DEF Drained, WholeSource, ReceiverDropped
  <2> QED
    BY <2>2, <2>3, <2>4 DEF IndInv, Sound
<1>5. CASE CollectorEnds
  <2>1. Types' /\ collector' = "ended" /\ UNCHANGED <<taken, chan>> /\ collector # "ended"
    BY <1>1, <1>5 DEF CollectorEnds, IndInv, Types
  <2>2. ASSUME ~Cut'
        PROVE  /\ collector = "running" /\ ~ReceiverDropped
               /\ mode = "live" \/ taken = MaxEvents \/ stop
    BY <1>1, <1>2, <1>5, <2>2 DEF CollectorEnds, Drained, Cut
  <2>3. ASSUME ~Cut' PROVE Places'
    BY <1>1, <1>2, <2>1, <2>2, <2>3 DEF Places, Hand
  <2>4. ASSUME ~Cut' PROVE Drained' /\ WholeSource'
    BY <1>1, <1>2, <2>1, <2>2, <2>4 DEF Drained, WholeSource, ReceiverDropped
  <2> QED
    BY <2>1, <2>3, <2>4 DEF IndInv, Sound
<1> QED
  BY <1>3, <1>4, <1>5

\* One event moves from the channel into the engine.
LEMMA ReceiveInv == IndInv /\ (Receive \/ DrainOne) => IndInv'
<1> SUFFICES ASSUME IndInv, Receive \/ DrainOne PROVE IndInv'
  OBVIOUS
<1>1. /\ Cut' = Cut /\ pc \in {"select", "drain"} /\ chan # <<>>
      /\ buffered' = Append(buffered, Head(chan)) /\ chan' = Tail(chan)
      /\ UNCHANGED <<mode, limit, stop, interrupted, pc, collector, taken, examined>>
  BY DEF Receive, DrainOne, Cut, source
<1>2. chan \in Seq(Nat) /\ buffered \in Seq(Nat) /\ Len(examined) \in Nat
  BY DEF IndInv, Types
<1>3. /\ Len(buffered) \in Nat /\ Len(chan) \in Nat \ {0} /\ Head(chan) = chan[1]
      /\ chan[1] \in Nat
  <2>1. Len(chan) \in Nat /\ Len(chan) # 0
    BY <1>1, <1>2
  <2>2. 1 \in 1 .. Len(chan)
    BY <2>1
  <2> QED
    BY <1>2, <2>1, <2>2
<1>4. /\ buffered' \in Seq(Nat) /\ Len(buffered') = Len(buffered) + 1
      /\ buffered'[Len(buffered) + 1] = chan[1]
      /\ \A i \in 1 .. Len(buffered) : buffered'[i] = buffered[i]
  BY <1>1, <1>2, <1>3
<1>5. /\ chan' \in Seq(Nat) /\ Len(chan') = Len(chan) - 1
      /\ \A i \in 1 .. Len(chan') : chan'[i] = chan[i + 1]
  BY <1>1, <1>2, <1>3
<1>6. Types'
  BY <1>1, <1>4, <1>5 DEF IndInv, Types
<1>7. ASSUME ~Cut' PROVE Places'
  <2>1. Places
    BY <1>1, <1>7 DEF IndInv, Sound
  <2>2. chan[1] = Len(examined) + Len(buffered) + 1
    BY <1>2, <1>3, <2>1 DEF Places
  <2>3. ASSUME NEW i \in 1 .. Len(buffered') PROVE buffered'[i] = Len(examined) + i
    <3>1. CASE i \in 1 .. Len(buffered)
      BY <1>4, <2>1, <3>1 DEF Places
    <3>2. CASE i = Len(buffered) + 1
      BY <1>2, <1>3, <1>4, <2>2, <3>2
    <3> QED
      BY <1>3, <1>4, <3>1, <3>2
  <2>4. ASSUME NEW i \in 1 .. Len(chan')
        PROVE  chan'[i] = Len(examined) + Len(buffered') + i
    <3>1. i + 1 \in 1 .. Len(chan) /\ chan'[i] = chan[i + 1] /\ i \in Nat
      BY <1>3, <1>5
    <3>2. chan[i + 1] = Len(examined) + Len(buffered) + (i + 1)
      BY <2>1, <3>1 DEF Places
    <3> QED
      BY <1>2, <1>3, <1>4, <3>1, <3>2
  <2>5. Hand \in Nat /\ Hand' = Hand
    BY <1>1 DEF Hand
  <2>6. taken = Len(examined) + Len(buffered') + Len(chan') + Hand
    BY <1>2, <1>3, <1>4, <1>5, <2>1, <2>5 DEF Places
  <2> QED
    BY <1>1, <2>1, <2>3, <2>4, <2>5, <2>6 DEF Places
<1>8. Drained' /\ (~Cut' => WholeSource')
  BY <1>1 DEF IndInv, Sound, Drained, WholeSource, ReceiverDropped
<1> QED
  BY <1>6, <1>7, <1>8 DEF IndInv, Sound

\* What the engine held is examined, behind what was examined before.
LEMMA ExamineInv == IndInv /\ (Generate \/ FinalGenerate) => IndInv'
<1> SUFFICES ASSUME IndInv, Generate \/ FinalGenerate PROVE IndInv'
  OBVIOUS
<1>1. /\ Cut' = Cut /\ examined' = examined \o buffered /\ buffered' = <<>>
      /\ UNCHANGED <<mode, limit, interrupted, collector, taken, chan>>
      /\ limit = 0 => stop' = stop
      /\ ReceiverDropped' => ReceiverDropped
  <2>1. CASE Generate
    <3>1. PICK hits \in SUBSET {buffered[i] : i \in DOMAIN buffered} :
            /\ Examine(hits)
            /\ IF hits = {}
               THEN AfterCycle
               ELSE pc' = "upload" /\ UNCHANGED <<runs, stop>>
      BY <2>1 DEF Generate
    <3>2. (pc' = "select" \/ pc' = "wait" \/ pc' = "upload") /\ (limit = 0 => stop' = stop)
      BY <3>1 DEF AfterCycle
    <3>3. ~ReceiverDropped'
      BY <3>2 DEF ReceiverDropped
    <3>4. examined' = examined \o buffered /\ buffered' = <<>>
      BY <3>1 DEF Examine
    <3>5. UNCHANGED <<mode, limit, interrupted, collector, abandoned, taken, chan, slot, cut>>
      BY <2>1 DEF Generate, source
    <3>6. Cut' = Cut
      BY <3>5 DEF Cut
    <3> QED
      BY <3>2, <3>3, <3>4, <3>5, <3>6
  <2>2. CASE FinalGenerate
    <3>1. examined' = examined \o buffered /\ buffered' = <<>> /\ ReceiverDropped
      BY <2>2 DEF FinalGenerate, Examine, ReceiverDropped
    <3>2. UNCHANGED <<mode, limit, interrupted, stop, collector, abandoned, taken, chan, slot, cut>>
      BY <2>2 DEF FinalGenerate, source
    <3>3. Cut' = Cut
      BY <3>2 DEF Cut
    <3> QED
      BY <3>1, <3>2, <3>3
  <2> QED
    BY <2>1, <2>2
<1>2. /\ examined \in Seq(Nat) /\ buffered \in Seq(Nat)
      /\ Len(examined) \in Nat /\ Len(buffered) \in Nat /\ Len(chan) \in Nat
  BY DEF IndInv, Types
<1>3. /\ examined' \in Seq(Nat) /\ Len(examined') = Len(examined) + Len(buffered)
      /\ \A i \in 1 .. Len(examined) : examined'[i] = examined[i]
      /\ \A i \in 1 .. Len(buffered) : examined'[Len(examined) + i] = buffered[i]
  BY <1>1, <1>2
<1>4. Types'
  BY <1>1, <1>3 DEF IndInv, Types
<1>5. ASSUME ~Cut' PROVE Places'
  <2>1. Places
    BY <1>1, <1>5 DEF IndInv, Sound
  <2>2. ASSUME NEW i \in 1 .. Len(examined') PROVE examined'[i] = i
    <3>1. CASE i \in 1 .. Len(examined)
      BY <1>3, <2>1, <3>1 DEF Places
    <3>2. CASE i > Len(examined)
      <4>1. PICK k \in 1 .. Len(buffered) : i = Len(examined) + k
        <5>1. i - Len(examined) \in 1 .. Len(buffered) /\ i = Len(examined) + (i - Len(examined))
          BY <1>2, <1>3, <3>2
        <5> QED
          BY <5>1
      <4> QED
        BY <1>3, <2>1, <4>1 DEF Places
    <3> QED
      BY <1>2, <1>3, <3>1, <3>2
  <2>3. Len(buffered') = 0
    BY <1>1
  <2>4. Hand \in Nat /\ Hand' = Hand
    BY <1>1 DEF Hand
  <2>5. Len(examined) + Len(buffered) = Len(examined') + Len(buffered')
    BY <1>2, <1>3, <2>3
  <2>6. \A i \in 1 .. Len(chan) : chan[i] = Len(examined') + Len(buffered') + i
    BY <2>1, <2>5 DEF Places
  <2>7. taken = Len(examined') + Len(buffered') + Len(chan) + Hand
    BY <2>1, <2>5 DEF Places
  <2> QED
    BY <1>1, <2>2, <2>3, <2>4, <2>6, <2>7 DEF Places
<1>6. ASSUME ~Cut' PROVE Drained' /\ WholeSource'
  <2>1. Drained /\ WholeSource
    BY <1>1, <1>6 DEF IndInv, Sound
  <2> QED
    BY <1>1, <2>1 DEF Drained, WholeSource
<1> QED
  BY <1>4, <1>5, <1>6 DEF IndInv, Sound

\* What cuts a run: nothing is promised of it any more.
LEMMA CutInv ==
  IndInv /\ (GeneratePanics \/ FinalGeneratePanics \/ DrainTimeout) => IndInv'
<1> SUFFICES ASSUME IndInv, GeneratePanics \/ FinalGeneratePanics \/ DrainTimeout
             PROVE  IndInv'
  OBVIOUS
<1>1. CASE GeneratePanics \/ FinalGeneratePanics
  <2>1. slot' = "lost" /\ buffered' = <<>> /\ UNCHANGED <<taken, chan, examined>>
    BY <1>1 DEF GeneratePanics, FinalGeneratePanics, source
  <2>2. Cut'
    BY <2>1 DEF Cut
  <2>3. Types'
    BY <2>1 DEF IndInv, Types
  <2> QED
    BY <2>2, <2>3 DEF IndInv, Sound
<1>2. CASE DrainTimeout
  <2>1. cut' = TRUE /\ chan' = <<>> /\ UNCHANGED <<taken, buffered, examined>>
    BY <1>2 DEF DrainTimeout, source
  <2>2. Cut'
    BY <2>1 DEF Cut
  <2>3. Types'
    BY <2>1 DEF IndInv, Types
  <2> QED
    BY <2>2, <2>3 DEF IndInv, Sound
<1> QED
  BY <1>1, <1>2

\* Every step keeps the invariant.
LEMMA NextInv == IndInv /\ [Next]_vars => IndInv'
<1> SUFFICES ASSUME IndInv, [Next]_vars PROVE IndInv'
  OBVIOUS
<1>1. CASE UNCHANGED vars
  BY <1>1, QuietInv DEF vars, source, Cut, ReceiverDropped
<1>2. CASE Interrupt
  BY <1>2, QuietInv DEF Interrupt, source, Cut, ReceiverDropped
<1>3. CASE ObserveStop \/ EndOfEvents \/ TickFires
  BY <1>3, QuietInv DEF ObserveStop, EndOfEvents, TickFires, source, Cut, ReceiverDropped
<1>4. CASE CommitRule
  BY <1>4, QuietInv DEF CommitRule, source, Cut, ReceiverDropped
<1>5. CASE DeferRest \/ UploadDone \/ UploadFails
  BY <1>5, QuietInv DEF DeferRest, UploadDone, UploadFails, Uploading, AfterUpload,
                        AfterCycle, source, Cut, ReceiverDropped
<1>6. CASE CollectorJoined \/ CollectorTimeout
  BY <1>6, QuietInv DEF CollectorJoined, CollectorTimeout, AfterWait, Cut, ReceiverDropped
<1>7. CASE DrainEnds
  BY <1>7, QuietInv DEF DrainEnds, ChannelClosed, source, Cut, ReceiverDropped
<1> QED
  BY <1>1, <1>2, <1>3, <1>4, <1>5, <1>6, <1>7, CollectorInv, ReceiveInv, ExamineInv,
     CutInv DEF Next, Task

-----------------------------------------------------------------------------
\* What the four places hold, end to end, is what was taken.
LEMMA PlacesAreTheEvents == Types /\ Places =>
  examined \o buffered \o chan \o InHand = [i \in 1 .. taken |-> i]
<1> SUFFICES ASSUME Types, Places
             PROVE  examined \o buffered \o chan \o InHand = [i \in 1 .. taken |-> i]
  OBVIOUS
<1> DEFINE E == Len(examined)  B == Len(buffered)  C == Len(chan)
           held == examined \o buffered \o chan
<1>1. /\ examined \in Seq(Nat) /\ buffered \in Seq(Nat) /\ chan \in Seq(Nat)
      /\ E \in Nat /\ B \in Nat /\ C \in Nat /\ taken \in Nat
  BY DEF Types
<1>2. /\ examined \o buffered \in Seq(Nat) /\ Len(examined \o buffered) = E + B
      /\ \A i \in 1 .. E + B : (examined \o buffered)[i] = i
  <2>1. \A i \in 1 .. E + B :
          (examined \o buffered)[i] = IF i <= E THEN examined[i] ELSE buffered[i - E]
    BY <1>1
  <2>2. ASSUME NEW i \in 1 .. E + B PROVE (examined \o buffered)[i] = i
    <3>1. CASE i <= E
      BY <1>1, <2>1, <3>1 DEF Places
    <3>2. CASE i > E
      <4>1. i - E \in 1 .. B
        BY <1>1, <3>2
      <4>2. buffered[i - E] = E + (i - E)
        BY <4>1 DEF Places
      <4> QED
        BY <1>1, <2>1, <3>2, <4>2
    <3> QED
      BY <1>1, <3>1, <3>2
  <2> QED
    BY <1>1, <2>2
<1>3. held \in Seq(Nat) /\ Len(held) = E + B + C /\ \A i \in 1 .. E + B + C : held[i] = i
  <2>1. \A i \in 1 .. E + B + C :
          held[i] = IF i <= E + B THEN (examined \o buffered)[i] ELSE chan[i - (E + B)]
    BY <1>1, <1>2
  <2>2. ASSUME NEW i \in 1 .. E + B + C PROVE held[i] = i
    <3>1. CASE i <= E + B
      BY <1>1, <1>2, <2>1, <3>1
    <3>2. CASE i > E + B
      <4>1. i - (E + B) \in 1 .. C
        BY <1>1, <3>2
      <4>2. chan[i - (E + B)] = E + B + (i - (E + B))
        BY <4>1 DEF Places
      <4> QED
        BY <1>1, <2>1, <3>2, <4>2
    <3> QED
      BY <1>1, <3>1, <3>2
  <2> QED
    BY <1>1, <1>2, <2>2
<1> HIDE DEF held
<1>4. CASE collector = "sending"
  <2>1. taken = E + B + C + 1 /\ InHand = <<taken>>
    BY <1>4 DEF Places, Hand, InHand
  <2>2. held \o <<taken>> = [i \in 1 .. taken |-> i]
    <3>1. /\ held \o <<taken>> \in Seq(Nat) /\ Len(held \o <<taken>>) = taken
          /\ \A i \in 1 .. taken : (held \o <<taken>>)[i] = i
      BY <1>1, <1>3, <2>1
    <3> QED
      BY <1>1, <3>1
  <2> QED
    BY <2>1, <2>2 DEF held
<1>5. CASE collector # "sending"
  <2>1. taken = E + B + C /\ InHand = <<>>
    BY <1>1, <1>5 DEF Places, Hand, InHand
  <2>2. held \o <<>> = [i \in 1 .. taken |-> i]
    BY <1>1, <1>3, <2>1
  <2> QED
    BY <2>1, <2>2 DEF held
<1> QED
  BY <1>4, <1>5

\* What is promised follows from it.
LEMMA InvIsEnough == IndInv => NoEventIsLost
<1> SUFFICES ASSUME IndInv PROVE NoEventIsLost
  OBVIOUS
<1>1. NothingLostOnTheWay
  BY PlacesAreTheEvents DEF NothingLostOnTheWay, IndInv, Sound
<1>2. AllExaminedAtTheEnd
  <2> SUFFICES ASSUME pc = "done", ~Cut
               PROVE  /\ Len(examined) = taken
                      /\ mode = "oneshot" /\ limit = 0 /\ ~interrupted => taken = MaxEvents
    BY DEF AllExaminedAtTheEnd
  <2>1. Types /\ Places /\ Drained /\ WholeSource
    BY DEF IndInv, Sound
  <2>2. chan = <<>> /\ buffered = <<>> /\ collector = "ended"
    BY <2>1 DEF Drained, ReceiverDropped
  <2>3. Len(chan) = 0 /\ Len(buffered) = 0 /\ Len(examined) \in Nat
    BY <2>1, <2>2 DEF Types
  <2>4. Len(examined) = taken
    BY <2>1, <2>2, <2>3 DEF Places, Hand
  <2> QED
    BY <2>1, <2>2, <2>4 DEF WholeSource
<1> QED
  BY <1>1, <1>2 DEF NoEventIsLost

\* Whatever the source holds and the channel can, an event the collector took is
\* examined, or still on its way and in its place, unless the run was cut; and a
\* run that nobody stopped examines its whole source.
THEOREM NothingIsLost == Spec => []NoEventIsLost
<1>1. Spec => []IndInv
  BY InitInv, NextInv, PTL DEF Spec
<1> QED
  BY <1>1, InvIsEnough, PTL

-----------------------------------------------------------------------------
\* A limited run that has not begun to stop has a cycle left.
LimitInv ==
  /\ limit \in Nat /\ runs \in Nat
  /\ limit # 0 => runs <= limit /\ (pc \in Looping => runs < limit)

\* What completes no cycle, and does not go back to the loop.
LEMMA NoCycle ==
  ASSUME LimitInv, UNCHANGED <<limit, runs>>, pc' \in Looping => pc \in Looping
  PROVE  LimitInv'
BY DEF LimitInv

\* The cycle that reaches the limit is the one that ends the loop.
LEMMA CycleCounted ==
  ASSUME LimitInv, AfterCycle, pc \in Looping, limit' = limit
  PROVE  LimitInv'
<1>1. limit \in Nat /\ runs \in Nat /\ "wait" \notin Looping
  BY DEF LimitInv, Looping
<1>2. CASE limit = 0
  BY <1>1, <1>2 DEF AfterCycle, LimitInv
<1>3. CASE limit # 0 /\ runs + 1 >= limit
  <2>1. runs' = runs + 1 /\ pc' = "wait" /\ runs < limit
    BY <1>3 DEF AfterCycle, LimitInv
  <2> QED BY <1>1, <2>1 DEF LimitInv
<1>4. CASE limit # 0 /\ ~(runs + 1 >= limit)
  <2>1. runs' = runs + 1 /\ runs + 1 < limit
    BY <1>1, <1>4 DEF AfterCycle
  <2> QED BY <1>1, <2>1 DEF LimitInv
<1> QED BY <1>2, <1>3, <1>4

LEMMA LimitStep ==
  ASSUME LimitInv, [Next]_vars
  PROVE  LimitInv'
<1>1. CASE Generate
  <2>1. pc \in Looping /\ limit' = limit
    BY <1>1 DEF Generate, Looping
  <2>2. AfterCycle \/ (pc' = "upload" /\ runs' = runs)
    BY <1>1 DEF Generate
  <2> QED BY <2>1, <2>2, CycleCounted, NoCycle
<1>2. CASE DeferRest \/ UploadDone \/ UploadFails
  <2>1. /\ limit' = limit
        /\ \/ pc = "upload" /\ AfterCycle
           \/ pc' = "done" /\ runs' = runs
    BY <1>2 DEF DeferRest, UploadDone, UploadFails, AfterUpload
  <2> QED BY <2>1, CycleCounted, NoCycle DEF Looping
<1>3. CASE CollectorJoined \/ CollectorTimeout
  BY <1>3, NoCycle DEF CollectorJoined, CollectorTimeout, AfterWait, Looping
<1>4. CASE NextEvent \/ Send \/ CollectorEnds \/ Interrupt \/ Receive \/ DrainOne \/ CommitRule
  BY <1>4, NoCycle DEF NextEvent, Send, CollectorEnds, Interrupt, Receive, DrainOne, CommitRule
<1>5. CASE \/ ObserveStop \/ EndOfEvents \/ TickFires \/ GeneratePanics
           \/ DrainEnds \/ DrainTimeout \/ FinalGenerate \/ FinalGeneratePanics
  BY <1>5, NoCycle DEF ObserveStop, EndOfEvents, TickFires, GeneratePanics, DrainEnds,
     DrainTimeout, FinalGenerate, FinalGeneratePanics, Looping
<1>6. CASE UNCHANGED vars
  BY <1>6, NoCycle DEF vars
<1> QED BY <1>1, <1>2, <1>3, <1>4, <1>5, <1>6 DEF Next, Task

\* Whatever ends a cycle, a run with --max-runs completes no more of them than that
\* (runner.rs, the end of the tick branch).
THEOREM TheLimitIsKept == Spec => LimitIsKept
<1>1. Init => LimitInv
  BY CaptureAssumption DEF CaptureAssumption, Init, LimitInv
<1>2. LimitInv => (limit # 0 => runs <= limit)
  BY DEF LimitInv
<1> QED
  BY <1>1, <1>2, LimitStep, PTL DEF Spec, LimitIsKept

-----------------------------------------------------------------------------
(* The run is the stream of EventStream.                                   *)

Follows(s, n) == \A i \in 1 .. Len(s) : s[i] = n + i

\* What is in a place is in order, and what was taken is somewhere unless the
\* collector or the channel was given up, even in a run that was cut: only a
\* panic empties the buffer, and nothing is examined after it.
InOrder ==
  /\ Follows(examined, 0) /\ Len(examined) <= taken
  /\ slot \in {"here", "lost"} /\ (slot # "here" => pc \in {"wait", "done"})
  /\ slot = "here" =>
       /\ Follows(buffered, Len(examined))
       /\ Follows(chan, Len(examined) + Len(buffered))
       /\ Len(examined) + Len(buffered) + Len(chan) + Hand <= taken
       /\ collector # "ended" /\ ~ReceiverDropped =>
            taken = Len(examined) + Len(buffered) + Len(chan) + Hand

\* There is a batch just while it is uploaded.
BatchInv == /\ batch # {} <=> Uploading
            /\ committed \subseteq batch

StreamInv == IndInv /\ InOrder /\ BatchInv

LEMMA StreamInitInv == Init => StreamInv
<1> SUFFICES ASSUME Init PROVE StreamInv
  OBVIOUS
<1>1. InOrder
  BY DEF Init, InOrder, Follows, Hand
<1>2. BatchInv
  BY DEF Init, BatchInv, Uploading
<1> QED BY <1>1, <1>2, InitInv DEF StreamInv

\* The sizes of the places.
LEMMA Sizes ==
  ASSUME Types
  PROVE  /\ examined \in Seq(Nat) /\ buffered \in Seq(Nat) /\ chan \in Seq(Nat) /\ taken \in Nat
         /\ Len(examined) \in Nat /\ Len(buffered) \in Nat /\ Len(chan) \in Nat
         /\ Hand \in {0, 1}
BY DEF Types, Hand

\* What moves no event keeps their order.
LEMMA OrderQuiet ==
  ASSUME InOrder, UNCHANGED <<taken, collector, chan, buffered, examined, slot>>,
         slot # "here" => pc' \in {"wait", "done"}, ReceiverDropped => ReceiverDropped'
  PROVE  InOrder'
BY DEF InOrder, Follows, Hand

LEMMA OrderCollector ==
  ASSUME Types, InOrder, NextEvent \/ Send \/ CollectorEnds
  PROVE  InOrder'
<1>1. UNCHANGED <<pc, slot, buffered, examined>> /\ ReceiverDropped' = ReceiverDropped
  BY DEF NextEvent, Send, CollectorEnds, ReceiverDropped
<1>2. Follows(examined, 0)' /\ (slot' # "here" => pc' \in {"wait", "done"})
  BY <1>1 DEF InOrder, Follows
<1>3. CASE NextEvent
  <2>1. taken' = taken + 1 /\ Hand = 0 /\ Hand' = 1 /\ chan' = chan /\ collector = "running"
    BY <1>3 DEF NextEvent, Hand
  <2>2. Follows(buffered, Len(examined))' = Follows(buffered, Len(examined))
    BY <1>1 DEF Follows
  <2>3. Follows(chan, Len(examined) + Len(buffered))' = Follows(chan, Len(examined) + Len(buffered))
    BY <1>1, <2>1 DEF Follows
  <2> QED BY <1>1, <1>2, <2>1, <2>2, <2>3, Sizes DEF InOrder
<1>4. CASE Send
  <2>1. /\ chan' = Append(chan, taken) /\ taken' = taken /\ ~ReceiverDropped
        /\ collector = "sending" /\ Hand = 1 /\ Hand' = 0
    BY <1>4 DEF Send, Hand
  <2>2. Len(chan') = Len(chan) + 1 /\ chan'[Len(chan) + 1] = taken
        /\ \A i \in 1 .. Len(chan) : chan'[i] = chan[i]
    BY <2>1, Sizes
  <2>3. ASSUME slot = "here" PROVE Follows(chan, Len(examined) + Len(buffered))'
    <3>1. taken = Len(examined) + Len(buffered) + (Len(chan) + 1)
      BY <2>1, <2>3, Sizes DEF InOrder
    <3>2. ASSUME NEW i \in 1 .. Len(chan') PROVE chan'[i] = Len(examined) + Len(buffered) + i
      <4>1. CASE i \in 1 .. Len(chan)
        BY <2>2, <2>3, <4>1 DEF InOrder, Follows
      <4>2. CASE i = Len(chan) + 1
        BY <2>2, <3>1, <4>2
      <4> QED BY <2>2, <4>1, <4>2, Sizes
    <3> QED BY <1>1, <3>2 DEF Follows
  <2>4. Follows(buffered, Len(examined))' = Follows(buffered, Len(examined))
    BY <1>1 DEF Follows
  <2> QED BY <1>1, <1>2, <2>1, <2>2, <2>3, <2>4, Sizes DEF InOrder
<1>5. CASE CollectorEnds
  <2>1. UNCHANGED <<taken, chan>> /\ collector' = "ended" /\ Hand' = 0
    BY <1>5 DEF CollectorEnds, Hand
  <2>2. Follows(buffered, Len(examined))' = Follows(buffered, Len(examined))
    BY <1>1 DEF Follows
  <2>3. Follows(chan, Len(examined) + Len(buffered))' = Follows(chan, Len(examined) + Len(buffered))
    BY <1>1, <2>1 DEF Follows
  <2> QED BY <1>1, <1>2, <2>1, <2>2, <2>3, Sizes DEF InOrder
<1> QED BY <1>3, <1>4, <1>5

LEMMA OrderReceive ==
  ASSUME Types, InOrder, Receive \/ DrainOne
  PROVE  InOrder'
<1>1. /\ chan # <<>> /\ buffered' = Append(buffered, Head(chan)) /\ chan' = Tail(chan)
      /\ UNCHANGED <<pc, slot, taken, collector, examined>>
      /\ slot = "here" /\ ReceiverDropped' = ReceiverDropped
  BY DEF Receive, DrainOne, source, InOrder, ReceiverDropped
<1>2. Len(chan) # 0 /\ Head(chan) = chan[1] /\ chan[1] \in Nat
  <2>1. Len(chan) # 0
    BY <1>1, Sizes
  <2>2. 1 \in 1 .. Len(chan)
    BY <2>1, Sizes
  <2> QED BY <2>1, <2>2, Sizes
<1>3. /\ Len(buffered') = Len(buffered) + 1 /\ buffered'[Len(buffered) + 1] = chan[1]
      /\ \A i \in 1 .. Len(buffered) : buffered'[i] = buffered[i]
  BY <1>1, <1>2, Sizes
<1>4. Len(chan') = Len(chan) - 1 /\ \A i \in 1 .. Len(chan') : chan'[i] = chan[i + 1]
  BY <1>1, <1>2, Sizes
<1>5. chan[1] = Len(examined) + (Len(buffered) + 1)
  <2>1. Follows(chan, Len(examined) + Len(buffered)) /\ 1 \in 1 .. Len(chan)
    BY <1>1, <1>2, Sizes DEF InOrder
  <2>2. chan[1] = (Len(examined) + Len(buffered)) + 1
    BY <2>1 DEF Follows
  <2> QED BY <2>2, Sizes
<1>6. Follows(buffered, Len(examined))'
  <2>1. ASSUME NEW i \in 1 .. Len(buffered') PROVE buffered'[i] = Len(examined) + i
    <3>1. CASE i \in 1 .. Len(buffered)
      BY <1>1, <1>3, <3>1 DEF InOrder, Follows
    <3>2. CASE i = Len(buffered) + 1
      BY <1>3, <1>5, <3>2
    <3> QED BY <1>3, <3>1, <3>2, Sizes
  <2> QED BY <1>1, <2>1 DEF Follows
<1>7. Follows(chan, Len(examined) + Len(buffered))'
  <2>1. ASSUME NEW i \in 1 .. Len(chan') PROVE chan'[i] = Len(examined) + Len(buffered') + i
    <3>1. i + 1 \in 1 .. Len(chan) /\ chan'[i] = chan[i + 1] /\ i \in Nat
      BY <1>4, Sizes
    <3>2. chan[i + 1] = Len(examined) + Len(buffered) + (i + 1)
      BY <1>1, <3>1 DEF InOrder, Follows
    <3> QED BY <1>3, <3>1, <3>2, Sizes
  <2> QED BY <1>1, <2>1 DEF Follows
<1>8. Hand' = Hand /\ Len(examined') + Len(buffered') + Len(chan') = Len(examined) + Len(buffered) + Len(chan)
  BY <1>1, <1>2, <1>3, <1>4, Sizes DEF Hand
<1>9. Follows(examined, 0)'
  BY <1>1 DEF InOrder, Follows
<1>10. Len(examined) <= taken /\ Len(examined) + Len(buffered) + Len(chan) + Hand <= taken
       /\ (collector # "ended" /\ ~ReceiverDropped =>
             taken = Len(examined) + Len(buffered) + Len(chan) + Hand)
  BY <1>1 DEF InOrder
<1> QED BY <1>1, <1>6, <1>7, <1>8, <1>9, <1>10 DEF InOrder
LEMMA OrderExamine ==
  ASSUME Types, InOrder, Generate \/ FinalGenerate
  PROVE  InOrder' /\ examined' = [i \in 1 .. Len(examined) + Len(buffered) |-> i]
<1>1. /\ examined' = examined \o buffered /\ buffered' = <<>> /\ slot = "here"
      /\ UNCHANGED <<taken, collector, chan, slot>>
      /\ ReceiverDropped => ReceiverDropped'
  BY DEF Generate, FinalGenerate, Examine, source, InOrder, ReceiverDropped
<1>2. /\ Len(examined') = Len(examined) + Len(buffered) /\ examined' \in Seq(Nat)
      /\ \A i \in 1 .. Len(examined) : examined'[i] = examined[i]
      /\ \A i \in 1 .. Len(buffered) : examined'[Len(examined) + i] = buffered[i]
      /\ Len(buffered') = 0
  BY <1>1, Sizes
<1>3. \A i \in 1 .. Len(examined') : examined'[i] = i
  <2>1. ASSUME NEW i \in 1 .. Len(examined') PROVE examined'[i] = i
    <3>1. CASE i <= Len(examined)
      <4>1. i \in 1 .. Len(examined) /\ i \in Nat
        BY <3>1, Sizes
      <4>2. examined[i] = 0 + i
        BY <4>1 DEF InOrder, Follows
      <4> QED BY <1>2, <4>1, <4>2
    <3>2. CASE i > Len(examined)
      <4> DEFINE k == i - Len(examined)
      <4>1. k \in 1 .. Len(buffered) /\ i = Len(examined) + k
        BY <1>2, <3>2, Sizes
      <4>2. buffered[k] = Len(examined) + k
        BY <1>1, <4>1 DEF InOrder, Follows
      <4> QED BY <1>2, <4>1, <4>2
    <3> QED BY <1>2, <3>1, <3>2, Sizes
  <2> QED BY <2>1
<1>4. Follows(examined, 0)' /\ Follows(buffered, Len(examined))'
  BY <1>2, <1>3 DEF Follows
<1>5. Follows(chan, Len(examined) + Len(buffered))'
  <2>1. Len(examined') + Len(buffered') = Len(examined) + Len(buffered)
    BY <1>2, Sizes
  <2> QED BY <1>1, <2>1 DEF InOrder, Follows
<1>6. Hand' = Hand /\ Len(chan') = Len(chan)
  BY <1>1 DEF Hand
<1>7. /\ Len(examined) + Len(buffered) + Len(chan) + Hand <= taken
      /\ collector # "ended" /\ ~ReceiverDropped =>
            taken = Len(examined) + Len(buffered) + Len(chan) + Hand
  BY <1>1 DEF InOrder
<1>8. Len(examined') + Len(buffered') + Len(chan') + Hand' = Len(examined) + Len(buffered) + Len(chan) + Hand
  BY <1>2, <1>6, Sizes
<1>9. Len(examined') <= taken
  BY <1>2, <1>7, Sizes
<1>10. InOrder'
  <2>1. Len(examined') + Len(buffered') + Len(chan') + Hand' <= taken
    BY <1>7, <1>8
  <2>2. collector # "ended" /\ ~ReceiverDropped =>
          taken = Len(examined') + Len(buffered') + Len(chan') + Hand'
    BY <1>7, <1>8
  <2>3. /\ slot' = "here" /\ slot' \in {"here", "lost"}
        /\ taken' = taken /\ collector' = collector /\ (ReceiverDropped => ReceiverDropped')
    BY <1>1
  <2> QED BY <1>4, <1>5, <1>9, <2>1, <2>2, <2>3 DEF InOrder
<1>11. examined' = [i \in 1 .. Len(examined') |-> i]
  BY <1>2, <1>3
<1> QED BY <1>2, <1>10, <1>11

LEMMA OrderCut ==
  ASSUME Types, InOrder, GeneratePanics \/ FinalGeneratePanics \/ DrainTimeout
  PROVE  InOrder'
<1>1. CASE GeneratePanics \/ FinalGeneratePanics
  <2>1. slot' = "lost" /\ pc' \in {"wait", "done"} /\ UNCHANGED <<taken, examined>>
    BY <1>1 DEF GeneratePanics, FinalGeneratePanics, source
  <2> QED BY <2>1 DEF InOrder, Follows
<1>2. CASE DrainTimeout
  <2>1. /\ chan' = <<>> /\ UNCHANGED <<taken, collector, buffered, examined, slot>>
        /\ slot = "here" /\ ReceiverDropped'
    BY <1>2 DEF DrainTimeout, source, InOrder, ReceiverDropped
  <2>2. Len(chan') = 0 /\ Follows(chan, Len(examined) + Len(buffered))' /\ Hand' = Hand
    BY <2>1 DEF Follows, Hand
  <2>3. Len(examined) + Len(buffered) + 0 + Hand <= taken
    BY <2>1, Sizes DEF InOrder
  <2>4. Follows(examined, 0)' /\ Follows(buffered, Len(examined))'
    BY <2>1 DEF InOrder, Follows
  <2>5. Len(examined') + Len(buffered') + Len(chan') + Hand' <= taken'
    <3>1. Len(examined') + Len(buffered') + Len(chan') + Hand' = Len(examined) + Len(buffered) + 0 + Hand
      BY <2>1, <2>2
    <3> QED BY <2>1, <2>3, <3>1
  <2>6. Len(examined') <= taken' /\ slot' = "here" /\ ReceiverDropped'
    BY <2>1 DEF InOrder
  <2> QED BY <2>2, <2>4, <2>5, <2>6 DEF InOrder
<1> QED BY <1>1, <1>2

LEMMA OrderStep ==
  ASSUME Types, InOrder, [Next]_vars
  PROVE  InOrder'
<1>1. CASE UNCHANGED vars \/ Interrupt
  BY <1>1, OrderQuiet DEF vars, Interrupt, source, InOrder, ReceiverDropped
<1>2. CASE ObserveStop \/ EndOfEvents \/ TickFires \/ CommitRule \/ DrainEnds
  BY <1>2, OrderQuiet DEF ObserveStop, EndOfEvents, TickFires, CommitRule, DrainEnds, Uploading,
     source, InOrder, ReceiverDropped
<1>3. CASE DeferRest \/ UploadDone \/ UploadFails
  BY <1>3, OrderQuiet DEF DeferRest, UploadDone, UploadFails, Uploading, AfterUpload, AfterCycle,
     source, InOrder, ReceiverDropped
<1>4. CASE CollectorJoined \/ CollectorTimeout
  BY <1>4, OrderQuiet DEF CollectorJoined, CollectorTimeout, AfterWait, InOrder, ReceiverDropped
<1> QED
  BY <1>1, <1>2, <1>3, <1>4, OrderCollector, OrderReceive, OrderExamine, OrderCut DEF Next, Task

\* What is not an upload has no batch, and what ends one leaves none.
LEMMA BatchStep ==
  ASSUME BatchInv, [Next]_vars
  PROVE  BatchInv'
<1>1. CASE Generate \/ FinalGenerate
  <2>1. PICK hits : batch' = hits /\ committed' = {} /\ (hits # {} <=> Uploading')
    <3>1. CASE Generate
      <4>1. PICK hits \in SUBSET {buffered[i] : i \in DOMAIN buffered} :
              /\ Examine(hits)
              /\ IF hits = {} THEN AfterCycle ELSE pc' = "upload" /\ UNCHANGED <<runs, stop>>
        BY <3>1 DEF Generate
      <4>2. hits = {} => pc' \in {"wait", "select"}
        BY <4>1 DEF AfterCycle
      <4> QED BY <4>1, <4>2 DEF Examine, Uploading
    <3>2. CASE FinalGenerate
      <4>1. PICK hits \in SUBSET {buffered[i] : i \in DOMAIN buffered} :
              /\ Examine(hits)
              /\ IF hits = {} THEN pc' = "done" /\ exit' = "ok"
                 ELSE pc' = "final_upload" /\ UNCHANGED exit
        BY <3>2 DEF FinalGenerate
      <4> QED BY <4>1 DEF Examine, Uploading
    <3> QED BY <1>1, <3>1, <3>2
  <2> QED BY <2>1 DEF BatchInv
<1>2. CASE CommitRule
  BY <1>2 DEF CommitRule, Rest, BatchInv, Uploading
<1>3. CASE DeferRest \/ UploadDone \/ UploadFails
  <2>1. batch' = {} /\ committed' = {} /\ pc' \in {"done", "wait", "select"}
    BY <1>3 DEF DeferRest, UploadDone, UploadFails, AfterUpload, AfterCycle
  <2> QED BY <2>1 DEF BatchInv, Uploading
<1>4. CASE UNCHANGED vars \/ NextEvent \/ Send \/ CollectorEnds \/ Interrupt \/ Receive \/ DrainOne
  BY <1>4 DEF vars, NextEvent, Send, CollectorEnds, Interrupt, Receive, DrainOne, upload,
     BatchInv, Uploading
<1>5. CASE \/ ObserveStop \/ EndOfEvents \/ TickFires \/ GeneratePanics \/ CollectorJoined
           \/ CollectorTimeout \/ DrainEnds \/ DrainTimeout \/ FinalGeneratePanics
  <2>1. UNCHANGED upload /\ ~Uploading /\ ~Uploading'
    BY <1>5 DEF ObserveStop, EndOfEvents, TickFires, GeneratePanics, CollectorJoined,
       CollectorTimeout, AfterWait, DrainEnds, DrainTimeout, FinalGeneratePanics, Uploading
  <2> QED BY <2>1 DEF BatchInv, upload
<1> QED BY <1>1, <1>2, <1>3, <1>4, <1>5 DEF Next, Task

LEMMA StreamNextInv == StreamInv /\ [Next]_vars => StreamInv'
BY NextInv, OrderStep, BatchStep DEF StreamInv, IndInv
\* A run that ends without a cut has examined all.
EndsWhole == pc = "done" => Cut \/ Len(examined) = taken

LEMMA EndsWholeInv == IndInv' => EndsWhole'
<1>1. IndInv => EndsWhole
  BY InvIsEnough DEF NoEventIsLost, AllExaminedAtTheEnd, EndsWhole
<1> QED BY <1>1, PTL

\* What the stream does not see.
LEMMA HiddenSteps ==
  ASSUME \/ Send \/ CollectorEnds \/ Interrupt \/ ObserveStop \/ Receive \/ EndOfEvents
         \/ TickFires \/ DrainOne \/ CommitRule \/ DrainEnds \/ UNCHANGED vars
  PROVE  UNCHANGED Stream!streamVars
<1>1. UNCHANGED <<taken, examined, batch, uploaded, deferred, failed, slot, cut, mode, abandoned>>
  BY DEF Send, CollectorEnds, Interrupt, ObserveStop, Receive, EndOfEvents, TickFires, DrainOne,
     CommitRule, DrainEnds, vars, source, upload, outcome
<1>2. (pc' = "done") = (pc = "done")
  BY DEF Send, CollectorEnds, Interrupt, ObserveStop, Receive, EndOfEvents, TickFires, DrainOne,
     CommitRule, DrainEnds, vars, Uploading
<1>3. Cut' = Cut
  BY <1>1 DEF Cut
<1> QED BY <1>1, <1>2, <1>3 DEF Stream!streamVars, Stream!outcomes

LEMMA TakeStep ==
  ASSUME StreamInv, NextEvent
  PROVE  Stream!Take
<1>1. pc # "done" \/ Cut
  BY DEF NextEvent, StreamInv, IndInv, Sound, Drained, ReceiverDropped
<1>2. /\ taken' = taken + 1
      /\ UNCHANGED <<examined, batch, uploaded, deferred, failed, slot, cut, mode, abandoned, pc>>
  BY DEF NextEvent, upload, outcome
<1>3. Cut' = Cut
  BY <1>2 DEF Cut
<1> QED BY <1>1, <1>2, <1>3 DEF Stream!Take, Stream!outcomes

LEMMA ExamineStep ==
  ASSUME StreamInv, IndInv', Generate \/ FinalGenerate
  PROVE  Stream!Examine
<1>1. pc # "done" /\ batch = {}
  BY DEF Generate, FinalGenerate, StreamInv, BatchInv, Uploading
<1>2. UNCHANGED <<taken, uploaded, deferred, failed, slot, cut, mode, abandoned>>
  BY DEF Generate, FinalGenerate, source, outcome
<1>3. Types /\ InOrder
  BY DEF StreamInv, IndInv
<1>4. PICK hits \in SUBSET {buffered[i] : i \in DOMAIN buffered} : batch' = hits
  BY DEF Generate, FinalGenerate, Examine
<1>5. pc' = "done" => batch' = {}
  BY DEF Generate, FinalGenerate, Examine, AfterCycle
<1> DEFINE n == Len(examined) + Len(buffered)
<1>6. examined' = [i \in 1 .. n |-> i] /\ InOrder'
  BY <1>3, OrderExamine
<1>7. n \in Len(examined) .. taken
  <2>1. slot = "here" /\ Len(examined) + Len(buffered) + Len(chan) + Hand <= taken
    BY <1>3 DEF Generate, FinalGenerate, InOrder
  <2> QED BY <1>3, <2>1, Sizes
<1>8. batch' \in SUBSET ((Len(examined) + 1) .. n)
  <2>1. ASSUME NEW i \in DOMAIN buffered PROVE buffered[i] \in (Len(examined) + 1) .. n
    <3>1. slot = "here" /\ i \in 1 .. Len(buffered)
      BY <1>3, Sizes DEF Generate, FinalGenerate, InOrder
    <3>2. buffered[i] = Len(examined) + i
      BY <1>3, <3>1 DEF InOrder, Follows
    <3> QED BY <1>3, <3>1, <3>2, Sizes
  <2> QED BY <1>4, <2>1
<1>9. Cut' = Cut
  BY <1>2 DEF Cut
<1>10. Stream!MayEnd
  BY <1>5, EndsWholeInv DEF EndsWhole, Stream!MayEnd
<1> HIDE DEF n
<1> QED BY <1>1, <1>2, <1>6, <1>7, <1>8, <1>9, <1>10 DEF Stream!Examine, Stream!outcomes

LEMMA UploadStep ==
  ASSUME StreamInv, IndInv', DeferRest \/ UploadDone \/ UploadFails
  PROVE  Stream!Upload \/ Stream!Fail
<1>1. /\ batch # {} /\ committed \subseteq batch /\ batch' = {}
      /\ UNCHANGED <<taken, examined, slot, cut, mode, abandoned>>
  BY DEF DeferRest, UploadDone, UploadFails, AfterUpload, StreamInv, BatchInv, source
<1>2. Cut' = Cut
  BY <1>1 DEF Cut
<1>3. Stream!MayEnd
  BY <1>1, EndsWholeInv DEF EndsWhole, Stream!MayEnd
<1>4. CASE DeferRest
  <2>1. /\ committed # {} /\ uploaded' = uploaded \cup committed
        /\ deferred' = deferred \cup (batch \ committed) /\ failed' = failed
    BY <1>4 DEF DeferRest, Rest
  <2>2. pc' # "done"
    BY <1>4 DEF DeferRest, ShouldAbort, AfterUpload, AfterCycle
  <2>3. committed \in (SUBSET batch) \ {{}}
    BY <1>1, <2>1
  <2> QED BY <1>1, <1>2, <1>3, <2>1, <2>2, <2>3 DEF Stream!Upload
<1>5. CASE UploadDone
  <2>1. uploaded' = uploaded \cup batch /\ deferred' = deferred \cup (batch \ batch) /\ failed' = failed
    BY <1>5 DEF UploadDone
  <2>2. batch \in (SUBSET batch) \ {{}}
    BY <1>1
  <2> QED BY <1>1, <1>2, <1>3, <2>1, <2>2 DEF Stream!Upload
<1>6. CASE UploadFails
  <2>1. failed' = failed \cup batch /\ UNCHANGED <<deferred, uploaded>>
    BY <1>6 DEF UploadFails
  <2> QED BY <1>1, <1>2, <1>3, <2>1 DEF Stream!Fail
<1> QED BY <1>4, <1>5, <1>6

\* A panic or a timeout cuts the run, if nothing has cut it before.
LEMMA CutStep ==
  ASSUME StreamInv,
         \/ GeneratePanics \/ FinalGeneratePanics \/ DrainTimeout
         \/ CollectorJoined \/ CollectorTimeout
  PROVE  Stream!Cut \/ Stream!Finish \/ UNCHANGED Stream!streamVars
<1>1. /\ UNCHANGED <<taken, examined, batch, uploaded, deferred, failed, mode>> /\ pc # "done"
      /\ ~Uploading
  BY DEF GeneratePanics, FinalGeneratePanics, DrainTimeout, CollectorJoined, CollectorTimeout,
     AfterWait, source, upload, outcome, Uploading
<1>2. batch = {}
  BY <1>1 DEF StreamInv, BatchInv
<1>3. Cut => Cut'
  BY DEF GeneratePanics, FinalGeneratePanics, DrainTimeout, CollectorJoined, CollectorTimeout,
     AfterWait, source, Cut
<1>4. pc' = "done" => Cut'
  BY DEF GeneratePanics, FinalGeneratePanics, DrainTimeout, CollectorJoined, CollectorTimeout,
     AfterWait, Cut
<1>5. CASE ~Cut /\ Cut'
  <2>1. Stream!MayEnd
    BY <1>1, <1>2, <1>5 DEF Stream!MayEnd
  <2> QED BY <1>1, <1>2, <1>5, <2>1 DEF Stream!Cut, Stream!outcomes
<1>6. CASE Cut /\ pc' = "done"
  BY <1>1, <1>2, <1>3, <1>6 DEF Stream!Finish, Stream!outcomes
<1>7. CASE Cut' = Cut /\ pc' # "done"
  <2>1. (pc' = "done") = (pc = "done")
    BY <1>1, <1>7
  <2> QED BY <1>1, <1>7, <2>1 DEF Stream!streamVars, Stream!outcomes
<1>8. Cut \in BOOLEAN /\ Cut' \in BOOLEAN
  BY DEF Cut
<1> QED BY <1>3, <1>4, <1>5, <1>6, <1>7, <1>8

LEMMA StreamInit == Init => Stream!Init
BY DEF Init, Stream!Init, Cut

LEMMA StreamStep ==
  ASSUME StreamInv, StreamInv', [Next]_vars
  PROVE  [Stream!Next]_(Stream!streamVars)
<1>1. IndInv'
  BY DEF StreamInv
<1>2. CASE \/ Send \/ CollectorEnds \/ Interrupt \/ ObserveStop \/ Receive \/ EndOfEvents
           \/ TickFires \/ DrainOne \/ CommitRule \/ DrainEnds \/ UNCHANGED vars
  BY <1>2, HiddenSteps
<1>3. CASE NextEvent
  BY <1>3, TakeStep DEF Stream!Next
<1>4. CASE Generate \/ FinalGenerate
  BY <1>1, <1>4, ExamineStep DEF Stream!Next
<1>5. CASE DeferRest \/ UploadDone \/ UploadFails
  BY <1>1, <1>5, UploadStep DEF Stream!Next
<1>6. CASE \/ GeneratePanics \/ FinalGeneratePanics \/ DrainTimeout
           \/ CollectorJoined \/ CollectorTimeout
  BY <1>6, CutStep DEF Stream!Next
<1> QED BY <1>2, <1>3, <1>4, <1>5, <1>6 DEF Next, Task

\* Seen from the source, a run is EventStream: events are examined in their order,
\* each captured rule comes to one end, and nothing is on its way at the end; a panic
\* or a timeout costs only what was taken last (run_with_cli).
THEOREM RunsAreStreams == Spec => ImplementsStream
<1>1. StreamInv /\ StreamInv' /\ [Next]_vars => [Stream!Next]_(Stream!streamVars)
  BY StreamStep
<1> QED
  BY StreamInitInv, StreamNextInv, StreamInit, <1>1, PTL DEF Spec, ImplementsStream, Stream!Spec

-----------------------------------------------------------------------------
\* A step of the stream examines later events only, and ends each capture once.
LEMMA OneEndStep ==
  ASSUME Stream!OneEnd, examined \in Seq(Nat), [Stream!Next]_(Stream!streamVars)
  PROVE  Stream!OneEnd'
<1>1. Len(examined) \in Nat
  OBVIOUS
<1>2. CASE Stream!Examine
  <2>1. PICK n \in Len(examined) .. taken : /\ examined' = [i \in 1 .. n |-> i]
                                            /\ batch' \in SUBSET ((Len(examined) + 1) .. n)
    BY <1>2 DEF Stream!Examine
  <2>2. n \in Nat /\ Len(examined') = n
    BY <1>1, <2>1
  <2>3. 1 .. Len(examined) \subseteq 1 .. n /\ batch' \subseteq 1 .. n
        /\ batch' \cap (1 .. Len(examined)) = {}
    BY <1>1, <2>1, <2>2
  <2>4. UNCHANGED <<uploaded, deferred, failed>>
    BY <1>2 DEF Stream!Examine, Stream!outcomes
  <2> QED BY <2>2, <2>3, <2>4 DEF Stream!OneEnd
<1>3. CASE Stream!Upload
  <2>1. PICK part \in SUBSET batch : /\ uploaded' = uploaded \cup part
                                     /\ deferred' = deferred \cup (batch \ part)
    BY <1>3 DEF Stream!Upload
  <2>2. batch' = {} /\ UNCHANGED <<examined, failed>>
    BY <1>3 DEF Stream!Upload
  <2> QED BY <2>1, <2>2 DEF Stream!OneEnd
<1>4. CASE Stream!Fail
  BY <1>4 DEF Stream!Fail, Stream!OneEnd
<1>5. CASE Stream!Take \/ Stream!Cut \/ Stream!Finish \/ UNCHANGED Stream!streamVars
  BY <1>5 DEF Stream!Take, Stream!Cut, Stream!Finish, Stream!streamVars, Stream!outcomes,
     Stream!OneEnd
<1> QED BY <1>2, <1>3, <1>4, <1>5 DEF Stream!Next

\* No rule that a run captured is uploaded and also left to a later run or failed,
\* and none comes to its end twice, whatever was committed when an upload failed or
\* was cut short (upload_rule_batches, as run_with_cli uses it).
THEOREM EveryCaptureHasOneEnd == Spec => []Stream!OneEnd
<1>1. Init => Stream!OneEnd
  BY DEF Init, Stream!OneEnd
<1>2. StreamInv /\ StreamInv' /\ Stream!OneEnd /\ [Next]_vars => Stream!OneEnd'
  BY StreamStep, OneEndStep DEF StreamInv, IndInv, Types
<1> QED BY StreamInitInv, StreamNextInv, <1>1, <1>2, PTL DEF Spec

-----------------------------------------------------------------------------
(* What the last flush captured.                                           *)

\* Before the flush nothing is flushed, and while it is uploaded its batch is; the
\* result of the run waits for it.
FlushInv ==
  /\ mode \in {"live", "oneshot"}
  /\ pc \notin {"final_upload", "done"} => flushed = {}
  /\ pc = "final_upload" => flushed = batch
  /\ pc # "done" => exit = "running"
  /\ pc = "done" => /\ exit \in {"ok", "error"}
                    /\ flushed \subseteq uploaded \/ flushed \subseteq failed
                    /\ flushed \cap deferred = {}
                    /\ exit = "error" <=> mode = "oneshot" /\ flushed # {} /\ flushed \subseteq failed

LEMMA FlushInit == Init => FlushInv
BY DEF Init, FlushInv

\* What neither enters nor leaves the flush.
LEMMA FlushQuiet ==
  ASSUME FlushInv, UNCHANGED <<mode, exit, flushed>>,
         \/ pc \notin {"final_upload", "done"} /\ pc' \notin {"final_upload", "done"}
         \/ UNCHANGED <<pc, batch, outcome>>
  PROVE  FlushInv'
BY DEF FlushInv, outcome

\* The flush captures rules that have come to no end yet, and its upload gives all
\* of them one: the shutdown flag that cuts a cycle's upload is not asked for.
LEMMA FlushUpload ==
  ASSUME StreamInv, Stream!OneEnd, FlushInv, DeferRest \/ UploadDone \/ UploadFails
  PROVE  FlushInv'
<1>1. /\ Uploading /\ (AfterUpload(TRUE) \/ AfterUpload(FALSE))
      /\ batch # {} /\ batch \cap (uploaded \cup deferred \cup failed) = {}
      /\ UNCHANGED <<mode, flushed>>
  BY DEF DeferRest, UploadDone, UploadFails, AfterUpload, StreamInv, BatchInv, Stream!OneEnd
<1>2. CASE pc = "upload"
  <2>1. pc' \in {"wait", "select"} /\ exit' = exit
    BY <1>1, <1>2 DEF AfterUpload, AfterCycle
  <2> QED BY <1>1, <1>2, <2>1, FlushQuiet
<1>3. CASE pc = "final_upload"
  <2>1. flushed' = batch /\ pc' = "done" /\ ~ShouldAbort
    BY <1>1, <1>3 DEF FlushInv, AfterUpload, ShouldAbort
  <2>2. CASE UploadDone
    <3>1. /\ uploaded' = uploaded \cup batch /\ UNCHANGED <<deferred, failed>> /\ exit' = "ok"
      BY <1>3, <2>2 DEF UploadDone, AfterUpload
    <3> QED BY <1>1, <2>1, <3>1 DEF FlushInv
  <2>3. CASE UploadFails
    <3>1. /\ failed' = failed \cup batch /\ UNCHANGED deferred
          /\ exit' = IF mode = "live" THEN "ok" ELSE "error"
      BY <1>3, <2>3 DEF UploadFails, AfterUpload
    <3> QED BY <1>1, <2>1, <3>1 DEF FlushInv
  <2> QED BY <2>1, <2>2, <2>3 DEF DeferRest
<1> QED BY <1>1, <1>2, <1>3 DEF Uploading

LEMMA FlushStep ==
  ASSUME StreamInv, Stream!OneEnd, FlushInv, [Next]_vars
  PROVE  FlushInv'
<1>1. CASE FinalGenerate
  <2>1. PICK hits \in SUBSET {buffered[i] : i \in DOMAIN buffered} :
          /\ batch' = hits /\ flushed' = hits
          /\ IF hits = {} THEN pc' = "done" /\ exit' = "ok"
             ELSE pc' = "final_upload" /\ UNCHANGED exit
    BY <1>1 DEF FinalGenerate, Examine
  <2> QED BY <1>1, <2>1 DEF FinalGenerate, FlushInv
<1>2. CASE FinalGeneratePanics \/ CollectorJoined \/ CollectorTimeout
  <2>1. /\ pc \notin {"final_upload", "done"} /\ UNCHANGED <<mode, flushed>>
        /\ \/ pc' = "done" /\ exit' = "ok"
           \/ pc' = "drain" /\ UNCHANGED exit
    BY <1>2 DEF FinalGeneratePanics, CollectorJoined, CollectorTimeout, AfterWait
  <2> QED BY <2>1 DEF FlushInv
<1>3. CASE DeferRest \/ UploadDone \/ UploadFails
  BY <1>3, FlushUpload
<1>4. CASE Generate
  <2>1. pc = "generate" /\ pc' \in {"wait", "select", "upload"} /\ UNCHANGED <<mode, exit, flushed>>
    BY <1>4 DEF Generate, AfterCycle
  <2> QED BY <2>1, FlushQuiet
<1>5. CASE \/ ObserveStop \/ EndOfEvents \/ TickFires \/ GeneratePanics
           \/ DrainEnds \/ DrainTimeout
  BY <1>5, FlushQuiet DEF ObserveStop, EndOfEvents, TickFires, GeneratePanics, DrainEnds,
     DrainTimeout
<1>6. CASE \/ NextEvent \/ Send \/ CollectorEnds \/ Interrupt \/ Receive \/ DrainOne
           \/ CommitRule \/ UNCHANGED vars
  BY <1>6, FlushQuiet DEF NextEvent, Send, CollectorEnds, Interrupt, Receive, DrainOne,
     CommitRule, vars, upload
<1> QED BY <1>1, <1>2, <1>3, <1>4, <1>5, <1>6 DEF Next, Task

\* Whatever the cycles before it captured, uploaded, left or lost, and whenever the
\* shutdown came, what the last flush captured is in the repository at the end of the
\* run or has failed as a whole, none of it is left to a later run, and a one-shot
\* run says so by its result (the final flush of run_with_cli).
THEOREM TheFlushIsCompleted == Spec => []FinalFlushIsSettled
<1>1. Init => Stream!OneEnd
  BY DEF Init, Stream!OneEnd
<1>2. StreamInv /\ StreamInv' /\ Stream!OneEnd /\ [Next]_vars => Stream!OneEnd'
  BY StreamStep, OneEndStep DEF StreamInv, IndInv, Types
<1>3. StreamInv /\ Stream!OneEnd /\ FlushInv /\ [Next]_vars => FlushInv'
  BY FlushStep
<1>4. FlushInv => FinalFlushIsSettled
  BY DEF FlushInv, FinalFlushIsSettled
<1> QED
  BY StreamInitInv, StreamNextInv, FlushInit, <1>1, <1>2, <1>3, <1>4, PTL DEF Spec
=============================================================================
