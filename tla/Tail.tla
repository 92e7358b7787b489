-------------------------------- MODULE Tail --------------------------------
(***************************************************************************)
(* The shared tail driver (inputs/tail.rs) over a log file that another    *)
(* program writes and rotates, with the handlers of auditd, which groups   *)
(* the records of one audit event, and of syslog and sysmon, which take    *)
(* line by line.  The channel is always free here; Capture.tla has it.     *)
(*                                                                         *)
(* A line is written in two halves, the second with its newline; reads     *)
(* take any number of bytes, here of halves.                               *)
(***************************************************************************)
EXTENDS Naturals, SequencesExt

CONSTANTS
  MaxLines,   \* bound: lines written
  MaxFiles,   \* bound: files that the path names, one after the other
  ReadMax,    \* the size of the read buffer, in halves
  Types       \* the record types considered; "junk" is a line that does not parse

ASSUME TailAssumption == /\ MaxLines \in Nat /\ MaxFiles \in Nat \ {0}
                         /\ ReadMax \in Nat \ {0}

Files == 1 .. MaxFiles
NoFile == 0

VARIABLES
  \* the file system and the program that writes
  content,    \* [Files -> Seq(halves)]
  path,       \* the file that the path names, if any
  writer,     \* the file that the program writes
  lines,      \* the lines begun: their audit event and record type
  \* TailState, and where its reading of this file began
  file, offset, pending, start,
  \* LineHandler
  handler,    \* "auditd" or "lines"
  group,      \* the lines of the audit event being collected
  pc,
  sent        \* the events sent: their line, its group, where its raw fields are from

disk == <<content, path, writer, lines>>
state == <<file, offset, pending, start>>
vars == <<disk, state, handler, group, pc, sent>>

Line == 1 .. MaxLines
Halves == Line \X {"head", "end"}

TypeOK ==
  /\ content \in [Files -> Seq(Halves)]
  /\ path \in Files \cup {NoFile} /\ writer \in Files
  /\ lines \in Seq([event : Nat, type : Types]) /\ Len(lines) <= MaxLines
  /\ file \in Files \cup {NoFile}
  /\ file # NoFile => offset \in start .. Len(content[file])
  /\ pending \in Seq(Halves)
  /\ handler \in {"auditd", "lines"} /\ group \in Seq(Line)
  /\ pc \in {"open", "first", "reopen", "read", "loop", "ended"}
  /\ sent \in Seq([line : Line, group : Seq(Line), raw : Line])

Init ==
  /\ content = [f \in Files |-> <<>>] /\ path = 1 /\ writer = 1 /\ lines = <<>>
  /\ file = NoFile /\ offset = 0 /\ pending = <<>> /\ start = 0
  /\ handler \in {"auditd", "lines"} /\ group = <<>>
  /\ pc = "open" /\ sent = <<>>

-----------------------------------------------------------------------------
(* The program that writes, and rotation by rename and create.             *)

HalfWritten(f) == content[f] # <<>> /\ Last(content[f])[2] = "head"

\* Records of an audit event are written one after the other.
WriteHead ==
  /\ Len(lines) < MaxLines /\ ~HalfWritten(writer)
  /\ \E type \in Types, more \in {0, 1} :
       LET event == IF lines = <<>> THEN 1 ELSE Last(lines).event + more
       IN lines' = Append(lines, [event |-> event, type |-> type])
  /\ content' = [content EXCEPT ![writer] = Append(@, <<Len(lines'), "head">>)]
  /\ UNCHANGED <<path, writer, state, handler, group, pc, sent>>

WriteEnd ==
  /\ HalfWritten(writer)
  /\ content' = [content EXCEPT ![writer] = Append(@, <<Len(lines), "end">>)]
  /\ UNCHANGED <<path, writer, lines, state, handler, group, pc, sent>>

Rename ==
  /\ path = writer /\ path < MaxFiles
  /\ path' = NoFile
  /\ UNCHANGED <<content, writer, lines, state, handler, group, pc, sent>>

Create ==
  /\ path = NoFile
  /\ path' = writer + 1
  /\ UNCHANGED <<content, writer, lines, state, handler, group, pc, sent>>

\* The program turns to the new file, between two lines.
WriterReopens ==
  /\ path # NoFile /\ path # writer /\ ~HalfWritten(writer)
  /\ writer' = path
  /\ UNCHANGED <<content, path, lines, state, handler, group, pc, sent>>

-----------------------------------------------------------------------------
(* The handlers.                                                           *)

\* The raw fields of a record (event_json_raw, and its part of the group's) are
\* read from the first line of the group with the type of the record.
RawFrom(l, ls) == ls[Min({k \in DOMAIN ls : lines[ls[k]].type = lines[l].type})]

\* flush_group: one event for every record, each with the whole group.
Flush(ls) == [i \in DOMAIN ls |->
               [line |-> ls[i], group |-> ls, raw |-> RawFrom(ls[i], ls)]]

\* on_line: a line that does not parse changes nothing.
OnLine(h, l) ==
  IF lines[l].type = "junk" THEN h
  ELSE IF handler = "lines" THEN [h EXCEPT !.sent = @ \o Flush(<<l>>)]
  ELSE IF h.group # <<>> /\ lines[Head(h.group)].event # lines[l].event
  THEN [group |-> <<l>>, sent |-> h.sent \o Flush(h.group)]
  ELSE [h EXCEPT !.group = Append(@, l)]

\* Mutant: bytes after the last newline are dropped.
PartialDropped(bytes) == <<>>

EndsIn(bytes) == {i \in DOMAIN bytes : bytes[i][2] = "end"}

\* What stays in `pending`: the bytes after the last newline.
Partial(bytes) ==
  IF EndsIn(bytes) = {} THEN bytes ELSE SubSeq(bytes, Max(EndsIn(bytes)) + 1, Len(bytes))

\* Half i ends a line that parses: a head and its end between two newlines.  A
\* tail that was attached in the middle of a line begins with one that does not.
EndsLine(bytes, i) == /\ i \in EndsIn(bytes) /\ i > 1
                      /\ bytes[i - 1] = <<bytes[i][1], "head">>
                      /\ i > 2 => i - 2 \in EndsIn(bytes)

\* drain_lines: what the handler has made of the first i halves.
DrainLines(h, bytes) ==
  LET after[i \in 0 .. Len(bytes)] ==
        IF i = 0 THEN h
        ELSE IF EndsLine(bytes, i) THEN OnLine(after[i - 1], bytes[i][1]) ELSE after[i - 1]
  IN after

-----------------------------------------------------------------------------
(* tail::run.                                                              *)

\* Open and seek to the end; a path without a file is an error.
Open ==
  /\ pc = "open"
  /\ IF path = NoFile
     THEN pc' = "ended" /\ UNCHANGED state
     ELSE /\ pc' = "first"
          /\ file' = path /\ offset' = Len(content[path]) /\ start' = offset'
          /\ UNCHANGED pending
  /\ UNCHANGED <<disk, handler, group, sent>>

\* check_rotation; a path that cannot be examined is no rotation.
CheckRotation ==
  \/ path \notin {NoFile, file} /\ pc' = "reopen"
  \/ pc' = "read"

BeginPoll ==
  /\ pc \in {"first", "loop"}
  /\ CheckRotation
  /\ UNCHANGED <<disk, state, handler, group, sent>>

\* The shutdown flag, which may be set at any time, or a dropped receiver.  An
\* open group is not flushed.
End ==
  /\ pc = "loop"
  /\ pc' = "ended"
  /\ UNCHANGED <<disk, state, handler, group, sent>>

\* Mutant: on_rotate is not called.
ReopenKeepsGroup ==
  /\ pc = "reopen" /\ path # NoFile
  /\ file' = path /\ offset' = 0 /\ start' = 0 /\ pending' = <<>>
  /\ pc' = "read"
  /\ UNCHANGED <<disk, handler, group, sent>>

\* reopen and on_rotate: a partial line and an open group are dropped.  When
\* the file cannot be opened the poll ends, and the next one tries again.
Reopen ==
  /\ pc = "reopen"
  /\ \/ /\ path # NoFile
        /\ file' = path /\ offset' = 0 /\ start' = 0 /\ pending' = <<>>
        /\ group' = <<>> /\ pc' = "read"
     \/ pc' = "loop" /\ UNCHANGED <<state, group>>
  /\ UNCHANGED <<disk, handler, sent>>

\* Mutant: the handler of auditd does not define on_idle.
IdleWithoutFlush ==
  /\ pc = "read" /\ offset = Len(content[file])
  /\ pc' = "loop"
  /\ UNCHANGED <<disk, state, handler, group, sent>>

\* Nothing to read: on_idle, unless a line is half read.
Idle ==
  /\ pc = "read" /\ offset = Len(content[file])
  /\ IF pending = <<>>
     THEN sent' = sent \o Flush(group) /\ group' = <<>>
     ELSE UNCHANGED <<sent, group>>
  /\ pc' = "loop"
  /\ UNCHANGED <<disk, state, handler>>

\* One read into the buffer, then drain_lines.
Read ==
  /\ pc = "read" /\ offset < Len(content[file])
  /\ LET n == Min({ReadMax, Len(content[file]) - offset})
         bytes == pending \o SubSeq(content[file], offset + 1, offset + n)
         h == DrainLines([group |-> group, sent |-> sent], bytes)[Len(bytes)]
     IN /\ offset' = offset + n /\ pending' = Partial(bytes)
        /\ group' = h.group /\ sent' = h.sent
  /\ pc' = "loop"
  /\ UNCHANGED <<disk, file, start, handler>>

\* The poll ends with an error, which only warns.
ReadFails ==
  /\ pc = "read"
  /\ pc' = "loop"
  /\ UNCHANGED <<disk, state, handler, group, sent>>

Poll == Open \/ BeginPoll \/ Reopen \/ Idle \/ Read \/ ReadFails

Environment == WriteHead \/ WriteEnd \/ Rename \/ Create \/ WriterReopens

\* What is written after the tail has ended does not matter.
Next == \/ Poll \/ End
        \/ pc # "ended" /\ Environment

Spec == Init /\ [][Next]_vars

\* The loop polls on, and reads do not fail for ever.
Fairness == /\ WF_vars(Open \/ BeginPoll \/ Reopen)
            /\ SF_vars(Idle) /\ SF_vars(Read)

FairSpec == Spec /\ Fairness

-----------------------------------------------------------------------------
Sent == {sent[i].line : i \in DOMAIN sent}

\* Every record is sent at most once and in the order of the file, over
\* partial reads, idle polls and a rotation that begins again at offset 0.
SentInOrder == \A i, j \in DOMAIN sent : i < j => sent[i].line < sent[j].line

\* A group has records of one audit event only, in order and without a gap but
\* for lines that do not parse: a rotation in the middle of an event never
\* glues records of two files together.
GroupsAreOneEvent ==
  \A i \in DOMAIN sent :
    LET g == sent[i].group
    IN \A l \in Head(g) .. Last(g) :
         /\ lines[l].event = lines[Head(g)].event
         /\ l \in Range(g) \/ lines[l].type = "junk"

\* What leaves is the log: its records once, in order, each with its own event.
SentAsWritten == SentInOrder /\ GroupsAreOneEvent

\* l is a record written whole to the file that is open, after the tail began
\* to read it, at half i.
Record(l, i) == /\ i \in (start + 1) .. (Len(content[file]) - 1)
                /\ content[file][i] = <<l, "head">>
                /\ content[file][i + 1] = <<l, "end">>
                /\ lines[l].type # "junk"

\* A record that was read whole is sent or waits in the group: the only records
\* lost are those of a file that the path no longer names.
ReadIsSent ==
  file # NoFile =>
    \A i \in (start + 1) .. (offset - 1) :
      LET l == content[file][i][1]
      IN Record(l, i) => l \in Sent \cup Range(group)

\* An idle poll does not close an audit event of which a further record is
\* half written to the file.
IdleClosesNoHalfWritten ==
  [][pc = "read" /\ group # <<>> /\ group' = <<>> => ~HalfWritten(file)]_vars

\* A record written to the file is sent, unless the file is rotated away first,
\* the run is stopped, or the program never ends the line it has begun.
WrittenIsSent ==
  \A l \in Line :
    (file # NoFile /\ path = file /\ \E i \in DOMAIN content[file] : Record(l, i))
      ~> \/ l \in Sent \/ pc = "ended" \/ path # file
         \/ file # NoFile /\ HalfWritten(file)

\* An idle poll sends the last audit event of a quiet log, and no event early.
GroupsCloseWhenIdle == IdleClosesNoHalfWritten /\ WrittenIsSent
=============================================================================
