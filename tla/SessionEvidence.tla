--------------------------- MODULE SessionEvidence ---------------------------
(***************************************************************************)
(* The evidence of one capture session (session_evidence.py, and where the *)
(* collector, the pipeline and cli.py call it), without reference mode.    *)
(* The collector notes in a journal what it received, decoded and wrote; a *)
(* daemon thread writes the journal and, when the session is finished, a   *)
(* manifest that admits the session or does not.  Long after, the offline  *)
(* verifier reads the journal and the raw rows again.                      *)
(*                                                                         *)
(* The producer is a coroutine: what it does between two awaits is one     *)
(* step.  A record is numbered by its place in the journal; a raw row is   *)
(* the number of the receive record it came with.  Once there is an error  *)
(* the journal gets no manifest, so what else it would hold is left out.   *)
(***************************************************************************)
EXTENDS Integers, Sequences, FiniteSets

CONSTANTS
    MaxFrames,        \* bound: frames the venue sends
    MaxBreaks,        \* bound: connections that break or are not made
    MaxMishaps        \* bound: calls that fail or time out

ASSUME SessionBoundsAssumption ==
    MaxFrames \in Nat /\ MaxBreaks \in Nat /\ MaxMishaps \in Nat

VARIABLES
    leased,              \* the session needs a claim of a lease
    producer,            \* where collector and pipeline are
    connection, ack, anchor, received, issues, error,   \* as in the object
    ending,              \* reason and sinks_closed, NotEnded before finish()
    pending,             \* receipts of the frames read before the acknowledgement
    events,              \* the journal
    rows,                \* raw/messages.jsonl
    writerAt,               \* where the writer is
    draft, manifest,     \* what the manifest says: before, and after the rename
    frames, breaks, mishaps

captureVars == <<connection, ack, anchor, received, issues, pending, rows, frames,
                 breaks>>
writerVars == <<writerAt, draft, manifest>>
svars == <<leased, producer, captureVars, error, ending, events, writerVars, mishaps>>

\* An acknowledgement and a refusal of the subscription; book frames; a frame of
\* another topic or symbol; one that is not JSON, an answer to a ping, JSON that
\* is no object; an answer to a ping after one of the host's clocks has jumped.
Frames == {"ack", "nack", "snapshot", "delta", "stray", "garbled", "pong", "list", "skewed"}
BookFrames == {"snapshot", "delta", "stray"}

NotEnded == [reason |-> "none", closed |-> FALSE]
Record(kind, rid, what, good) ==
    [kind |-> kind, conn |-> connection, rid |-> rid, what |-> what, good |-> good]
Note(kind) == Record(kind, 0, "none", TRUE)

SessionInit ==
    /\ leased \in BOOLEAN
    /\ producer = IF leased THEN "setup" ELSE "connecting"
    /\ connection = 0 /\ ack = FALSE /\ anchor = FALSE /\ received = 0
    /\ issues = {} /\ ending = NotEnded /\ pending = <<>>
    /\ events = <<>> /\ rows = <<>>
    /\ draft = "none" /\ manifest = "none" /\ frames = 0 /\ breaks = 0 /\ mishaps = 0
    \* The directory cannot be made, or an earlier session's writer has the slot.
    /\ \/ error = "none" /\ writerAt = "setup"
       \/ error = "unavailable" /\ writerAt = "ended"

Mishap == mishaps < MaxMishaps /\ mishaps' = mishaps + 1

\* _fail(): the first reason stays.
Fail(reason) == error' = IF error = "none" THEN reason ELSE error

\* event(), for each record of a step: a full queue, the byte cap, or a lease that
\* has run out ends the evidence, and later records go nowhere.
Emit(records) ==
    \/ /\ error = "none" /\ events' = events \o records
       /\ UNCHANGED <<error, mishaps>>
    \/ /\ error = "none" /\ Mishap /\ error' = "unavailable"
       /\ UNCHANGED events
    \/ error # "none" /\ UNCHANGED <<events, error, mishaps>>

-----------------------------------------------------------------------------
(* Setting up a leased session (cli.py).                                    *)

SetupAnswers ==
    /\ producer = "setup" /\ writerAt # "setup"
    /\ producer' = IF error = "none" THEN "connecting" ELSE "without"
    /\ UNCHANGED <<leased, captureVars, error, ending, events, writerVars, mishaps>>

SetupTimesOut ==
    /\ producer = "setup" /\ writerAt = "setup" /\ Mishap
    /\ producer' = "refusing"
    /\ UNCHANGED <<leased, captureVars, error, ending, events, writerVars>>

SetupRefused ==
    /\ producer = "refusing"
    /\ Fail("unavailable") /\ producer' = "without"
    /\ UNCHANGED <<leased, captureVars, ending, events, writerVars, mishaps>>

\* The sinks of the run cannot be opened: the pipeline never comes to be.
PipelineFails ==
    /\ producer = "connecting" /\ connection = 0 /\ events = <<>> /\ Mishap
    /\ producer' = "abandoned"
    /\ UNCHANGED <<leased, captureVars, error, ending, events, writerVars>>

-----------------------------------------------------------------------------
(* The collector.                                                           *)

\* opened(), and the subscription is sent.
Connects ==
    /\ producer = "connecting"
    /\ connection' = connection + 1
    /\ ack' = FALSE /\ anchor' = FALSE
    /\ Emit(<<[Note("connection_open") EXCEPT !.conn = connection + 1],
              [Note("subscribe_sent") EXCEPT !.conn = connection + 1]>>)
    /\ producer' = "handshake"
    /\ UNCHANGED <<leased, received, issues, pending, rows, frames, breaks, ending, writerVars>>

Reaches(p, reason) ==
    /\ producer' = p
    /\ ending' = IF p = "closing" THEN [ending EXCEPT !.reason = reason] ELSE ending

\* boundary(): a close, an error or a timeout.  The frames that were kept are gone;
\* the collector tries again, or gives up.
Boundary(p) ==
    /\ producer \in {"connecting", "handshake", "streaming"}
    /\ breaks < MaxBreaks /\ breaks' = breaks + 1
    /\ ack' = FALSE /\ anchor' = FALSE
    /\ issues' = issues \cup {"boundary"}
    /\ Emit(<<Note("connection_boundary"), Note("connection_end")>>)
    /\ pending' = <<>>
    /\ Reaches(p, "exception")
    /\ UNCHANGED <<leased, connection, received, rows, frames, writerVars>>

\* The end of the stream without a boundary: a cancelled task, too many frames that
\* are no JSON, or a row that cannot be written.
StreamEnds ==
    /\ producer \in {"handshake", "streaming"}
    /\ Emit(<<Note("connection_end")>>)
    /\ pending' = <<>>
    /\ Reaches("closing", "exception")
    /\ UNCHANGED <<leased, connection, ack, anchor, received, issues, rows, frames,
                   breaks, writerVars>>

\* received() and decoded(): the records of frame f, and what they do to the object.
NextSeq == Len(events) + 1
FrameRecords(f) ==
    <<Record("receive", 0, f, f # "skewed")>> \o
    CASE f = "garbled" -> <<Record("decode_error", NextSeq, f, TRUE)>>
      [] f = "list" -> <<>>
      [] f \in {"ack", "nack"} ->
            <<Record("decoded", NextSeq, f, TRUE), Record("ack", NextSeq, f, f = "ack")>>
      [] f = "snapshot" ->
            <<Record("decoded", NextSeq, f, TRUE), Record("snapshot", NextSeq, f, TRUE)>>
      [] OTHER -> <<Record("decoded", NextSeq, f, TRUE)>>

AckAfter(f) == IF f \in {"ack", "nack"} THEN f = "ack" ELSE ack
AnchorAfter(f) ==
    IF f \in {"snapshot", "stray", "garbled"} THEN f = "snapshot" ELSE anchor
IssuesOf(f) ==
    IF f \in {"nack", "stray", "garbled", "list", "skewed"} THEN {f} ELSE {}
Receipt(f) == [rid |-> NextSeq, conn |-> connection, what |-> f, anchored |-> AnchorAfter(f)]

\* A frame before the acknowledgement: those that are data are kept for later.
ReceiveEarly(f) ==
    /\ producer = "handshake" /\ frames < MaxFrames /\ f # "nack"
    /\ frames' = frames + 1
    /\ ack' = AckAfter(f) /\ anchor' = AnchorAfter(f)
    /\ received' = received + (IF f \in BookFrames THEN 1 ELSE 0)
    /\ issues' = issues \cup IssuesOf(f)
    /\ pending' = IF f \in BookFrames THEN Append(pending, Receipt(f)) ELSE pending
    /\ Emit(FrameRecords(f))
    /\ producer' = IF f = "ack" THEN "streaming" ELSE "handshake"
    /\ UNCHANGED <<leased, connection, rows, ending, breaks, writerVars>>

\* A refused subscription raises.
ReceiveRefusal ==
    /\ producer = "handshake" /\ frames < MaxFrames
    /\ frames' = frames + 1
    /\ ack' = FALSE /\ anchor' = FALSE
    /\ issues' = issues \cup {"nack", "boundary"}
    /\ Emit(FrameRecords("nack") \o
            <<Note("connection_boundary"), Note("connection_end")>>)
    /\ pending' = <<>>
    /\ Reaches("closing", "exception")
    /\ UNCHANGED <<leased, connection, received, rows, breaks, writerVars>>

\* Mutant: the anchor of the moment counts, not that of the frame.
EligibleAnchoredNow(receipt, acked, anchored) ==
    acked /\ anchored /\ receipt.conn = connection

\* written(): the row is eligible if its frame was, and the connection still stands.
Eligible(receipt, acked, anchored) ==
    acked /\ receipt.anchored /\ receipt.conn = connection

\* After a row the pipeline looks at its deadline and the collector at its limit.
AfterRow(records) ==
    \/ Emit(records) /\ Reaches("streaming", "none")
    \/ /\ Emit(records \o <<Note("connection_end")>>)
       /\ \E reason \in {"limit", "deadline"} : Reaches("closing", reason)

WritePending ==
    LET receipt == Head(pending)
        eligible == Eligible(receipt, ack, anchor)
    IN
    /\ producer = "streaming" /\ pending # <<>>
    /\ rows' = Append(rows, receipt.rid)
    /\ issues' = issues \cup (IF eligible THEN {} ELSE {"row"})
    /\ AfterRow(<<Record("raw_written", receipt.rid, receipt.what, eligible)>>)
    /\ pending' = Tail(pending)
    /\ UNCHANGED <<leased, connection, ack, anchor, received, frames, breaks, writerVars>>

\* A frame of the stream; a book frame goes to the raw sink at once.
ReceiveBook(f) ==
    LET eligible == Eligible(Receipt(f), ack, AnchorAfter(f)) IN
    /\ producer = "streaming" /\ pending = <<>> /\ frames < MaxFrames /\ f \in BookFrames
    /\ frames' = frames + 1
    /\ anchor' = AnchorAfter(f)
    /\ received' = received + 1
    /\ rows' = Append(rows, NextSeq)
    /\ issues' = issues \cup IssuesOf(f) \cup (IF eligible THEN {} ELSE {"row"})
    /\ AfterRow(FrameRecords(f) \o <<Record("raw_written", NextSeq, f, eligible)>>)
    /\ UNCHANGED <<leased, connection, ack, pending, breaks, writerVars>>

\* The row cannot be written: the frame is decoded, and the pipeline raises.
RowFails(f) ==
    /\ producer = "streaming" /\ pending = <<>> /\ frames < MaxFrames /\ f \in BookFrames
    /\ frames' = frames + 1
    /\ anchor' = AnchorAfter(f)
    /\ received' = received + 1
    /\ issues' = issues \cup IssuesOf(f)
    /\ Emit(FrameRecords(f) \o <<Note("connection_end")>>)
    /\ Reaches("closing", "exception")
    /\ UNCHANGED <<leased, connection, ack, pending, rows, breaks, writerVars>>

ReceiveOther(f) ==
    /\ producer = "streaming" /\ pending = <<>> /\ frames < MaxFrames /\ f \notin BookFrames
    /\ frames' = frames + 1
    /\ ack' = AckAfter(f) /\ anchor' = AnchorAfter(f)
    /\ issues' = issues \cup IssuesOf(f)
    /\ Emit(FrameRecords(f))
    /\ UNCHANGED <<leased, producer, connection, received, pending, rows, ending, breaks, writerVars>>

-----------------------------------------------------------------------------
(* The end of the session (pipeline.py, finish()).                          *)

\* The stream and the sinks are closed, or one of them fails to; the terminal record.
FinishSession(sound) ==
    /\ producer = "closing"
    /\ ending' = [ending EXCEPT !.closed = sound]
    /\ Emit(<<Record("terminal", 0, ending.reason, sound)>>)
    /\ producer' = "joining"
    /\ UNCHANGED <<leased, captureVars, writerVars>>

JoinReturns ==
    /\ producer = "joining" /\ writerAt = "ended"
    /\ producer' = "done"
    /\ UNCHANGED <<leased, captureVars, error, ending, events, writerVars, mishaps>>

\* Mutant: a writer that does not end in time is left to itself.
JoinTimesOutSilently ==
    /\ producer = "joining" /\ writerAt # "ended"
    /\ producer' = "done"
    /\ UNCHANGED <<leased, captureVars, error, ending, events, writerVars, mishaps>>

JoinTimesOut ==
    /\ producer = "joining" /\ writerAt # "ended"
    /\ IF writerAt = "published" THEN UNCHANGED error ELSE Fail("writer_close_timeout")
    /\ producer' = "done"
    /\ UNCHANGED <<leased, captureVars, ending, events, writerVars, mishaps>>

-----------------------------------------------------------------------------
(* The writer.                                                              *)

Finished == producer \in {"joining", "done"}
WriterGoes(s) ==
    /\ writerAt' = s
    /\ UNCHANGED <<leased, producer, captureVars, ending, events, mishaps>>

\* A claim or a check of the lease, the free space, or a call to the disk fails.
WriterFails ==
    /\ writerAt \notin {"published", "ended"} /\ mishaps < MaxMishaps
    /\ Fail("unavailable") /\ mishaps' = mishaps + 1 /\ writerAt' = "ended"
    /\ UNCHANGED <<leased, producer, captureVars, ending, events, draft, manifest>>

WriterIsReady ==
    /\ writerAt = "setup"
    /\ IF leased /\ error # "none" THEN WriterGoes("ended") ELSE WriterGoes("ready")
    /\ UNCHANGED <<error, draft, manifest>>

OpensJournal ==
    /\ writerAt = "ready"
    /\ WriterGoes(IF error = "none" THEN "journal" ELSE "ended")
    /\ UNCHANGED <<error, draft, manifest>>

\* The error is looked at after a record is taken from the queue, and only then.
WriterSeesError ==
    /\ writerAt = "journal" /\ error # "none" /\ events # <<>>
    /\ WriterGoes("ended")
    /\ UNCHANGED <<error, draft, manifest>>

\* All records are on disk and the journal is closed.
ClosesJournal ==
    /\ writerAt = "journal" /\ Finished
    /\ WriterGoes(IF error = "none" THEN "closed" ELSE "ended")
    /\ UNCHANGED <<error, draft, manifest>>

Complete == ending.closed /\ ending.reason \in {"limit", "deadline"}
\* The raw rows are counted, the manifest is encoded and written aside.
PreparesManifest ==
    /\ writerAt = "closed"
    /\ WriterGoes("prepared")
    /\ draft' = IF Complete /\ issues = {} /\ received = Len(rows) /\ rows # <<>>
                THEN "admitted" ELSE "refused"
    /\ UNCHANGED <<error, manifest>>

\* The last look at the error and at the time finish() will wait for.
MayRename(inTime) ==
    /\ writerAt = "prepared"
    /\ IF error = "none" /\ inTime
       THEN WriterGoes("renaming") /\ UNCHANGED error
       ELSE WriterGoes("ended") /\ Fail("writer_close_timeout")
    /\ UNCHANGED <<draft, manifest>>

RenamesDraft ==
    /\ writerAt = "renaming"
    /\ WriterGoes("published")
    /\ manifest' = draft
    /\ UNCHANGED <<error, draft>>

WriterReturns ==
    /\ writerAt = "published"
    /\ WriterGoes("ended")
    /\ UNCHANGED <<error, draft, manifest>>

-----------------------------------------------------------------------------
Collector ==
    \/ SetupAnswers \/ SetupTimesOut \/ SetupRefused \/ PipelineFails
    \/ Connects \/ ReceiveRefusal \/ WritePending \/ StreamEnds
    \/ \E p \in {"connecting", "closing"} : Boundary(p)
    \/ \E f \in Frames :
        ReceiveEarly(f) \/ ReceiveBook(f) \/ RowFails(f) \/ ReceiveOther(f)
    \/ \E sound \in BOOLEAN : FinishSession(sound)
    \/ JoinReturns \/ JoinTimesOut

JournalWriter ==
    \/ WriterFails \/ WriterIsReady \/ OpensJournal \/ WriterSeesError \/ ClosesJournal
    \/ PreparesManifest \/ RenamesDraft \/ WriterReturns
    \/ \E inTime \in BOOLEAN : MayRename(inTime)

SessionNext == Collector \/ JournalWriter
SessionSpec == SessionInit /\ [][SessionNext]_svars

-----------------------------------------------------------------------------
(* The offline verifier (verify_session_evidence), on journal and raw rows. *)

Of(kind) == {i \in DOMAIN events : events[i].kind = kind}
\* The one decoding of the frame received as rid, before record i.
DecodedBefore(rid, i) == \E d \in Of("decoded") : d < i /\ events[d].rid = rid

\* One connection, without a break, from its opening to the terminal record.
OneConnection ==
    /\ Of("connection_open") = {1} /\ Cardinality(Of("subscribe_sent")) <= 1
    /\ \A i \in DOMAIN events : events[i].conn = 1
    /\ Of("connection_boundary") = {} /\ Of("decode_error") = {}
    /\ \A i \in Of("receive") : events[i].good
    /\ Of("terminal") = {Len(events)}

\* Every decoding belongs to a received frame, every frame of the book to the topic.
FramesAreBound ==
    /\ \A d \in Of("decoded") :
        /\ events[d].rid \in Of("receive") /\ events[d].rid < d
        /\ \A e \in Of("decoded") : events[e].rid = events[d].rid => e = d
        /\ events[d].what # "stray"
    /\ \A i \in Of("ack") :
        /\ events[i].good /\ DecodedBefore(events[i].rid, i)
        /\ \E s \in Of("subscribe_sent") : s < i
    /\ \A i \in Of("snapshot") : DecodedBefore(events[i].rid, i) /\ events[i].what = "snapshot"

\* Every row: acknowledged, after a snapshot, and the only one of its frame.
RowsAreBound ==
    \A i \in Of("raw_written") :
        /\ events[i].good
        /\ \E a \in Of("ack") : a < i
        /\ \E d \in Of("decoded") :
            /\ d < i /\ events[d].rid = events[i].rid /\ events[d].what \in BookFrames
            /\ \E s \in Of("decoded") : s <= d /\ events[s].what = "snapshot"
        /\ \A j \in Of("raw_written") : events[j].rid = events[i].rid => j = i

\* The frames that were decoded are those that were written, in the rows' order.
NothingMissing ==
    /\ {events[d].rid : d \in {e \in Of("decoded") : events[e].what \in BookFrames}}
        = {events[i].rid : i \in Of("raw_written")}
    /\ Len(rows) = Cardinality(Of("raw_written")) /\ rows # <<>>
    /\ \A i \in Of("raw_written") :
        rows[Cardinality({j \in Of("raw_written") : j <= i})] = events[i].rid
    /\ LET last == events[Len(events)] IN last.good /\ last.what \in {"limit", "deadline"}

Verifies == OneConnection /\ FramesAreBound /\ RowsAreBound /\ NothingMissing

-----------------------------------------------------------------------------
(* Properties.                                                              *)

\* The collector judges with flags what the verifier judges from the files: a session
\* the manifest admits passes the offline verification, and one it refuses fails it,
\* save for a frame that was JSON and no object, which leaves no record.
AdmissionIsRight ==
    /\ manifest = "admitted" => Verifies
    /\ manifest = "refused" => ~Verifies \/ "list" \in issues

\* When finish() has returned there is a manifest, or a reason why there is none; both
\* only if the rename outlived the wait.  A writer that ends without a manifest has
\* left a reason, and so has a setup that goes on without evidence.
RefusalIsTold ==
    /\ producer \in {"done", "without"} => manifest # "none" \/ error # "none"
    /\ writerAt = "ended" => manifest # "none" \/ error # "none"
    /\ manifest # "none" => Finished /\ error \in {"none", "writer_close_timeout"}
=============================================================================
