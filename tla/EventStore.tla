------------------------------ MODULE EventStore ------------------------------
(***************************************************************************)
(* The append-only event store and the read models fed from it             *)
(* (server/src/events/event-store.js, event-replay.js).  append() takes    *)
(* its turn behind a promise chain, numbers the event and appends a line;  *)
(* the caller then publishes it to the projections.  rebuild() clears the  *)
(* projections, reads the file and dispatches what it read, and the        *)
(* retention run reads the file, writes an archive and writes the file     *)
(* back in place, emptying it first: neither takes the append lock.  A     *)
(* write may fail, and the process may stop at any point, leaving half a   *)
(* line or a part of the file behind.                                      *)
(***************************************************************************)
EXTENDS Integers, Sequences, SequencesExt

CONSTANTS
  Events,           \* the events to append, all of one credential
  KindOf,           \* event -> "issued", "revoked", "suspended" or "verified"
  MaxEventFaults,   \* bound: failed writes
  MaxEventRestarts, \* bound: restarts
  MaxRebuilds       \* bound: rebuilds and retention runs

VARIABLES
  evlog,      \* events.ndjson: lines [event, seq, ok], ok if the line parses
  torn,       \* the file ends in half a line
  archived,   \* events in the archive files
  aged,       \* events older than the retention period
  seqno,      \* _sequence
  turn,       \* appends in the order of the lock chain; the head holds it
  append,     \* event -> [at, seq]: where its append() and publish() are
  rebuild,    \* [at, has]: a rebuild in progress and what it read
  retention,  \* [at, has]: a retention run in progress and what it read
  model,      \* the credential in CurrentCredentialsProjection
  audit,      \* CredentialAuditLogProjection
  mixed,      \* history: a publish and a rebuild overlapped
  trimmed,    \* history: a retention run overlapped an append
  swallowed,  \* history: events whose line was joined to a torn one
  unwritten,  \* history: events to keep that a retention run did not write back
  evFaults, evRestarts, rebuilds

eventVars == <<evlog, torn, archived, aged, seqno, turn, append, rebuild, retention,
               model, audit, mixed, trimmed, swallowed, unwritten, evFaults, evRestarts,
               rebuilds>>
fileVars == <<evlog, torn, archived, swallowed, unwritten>>
viewVars == <<model, audit, mixed>>
evBounds == <<evFaults, evRestarts, rebuilds>>

NoRun == [at |-> "idle", has |-> <<>>]
NoCredential == [known |-> FALSE, revoked |-> FALSE, suspended |-> FALSE, verified |-> FALSE]
Readable(s) == SelectSeq(s, LAMBDA l : l.ok)
EventsOf(s) == {s[i].event : i \in DOMAIN s}

EventTypeOK ==
  /\ \A l \in ToSet(evlog) : l.event \in Events /\ l.seq \in Nat /\ l.ok \in BOOLEAN
  /\ torn \in BOOLEAN /\ archived \subseteq Events /\ aged \subseteq Events
  /\ seqno \in Nat
  /\ ToSet(turn) \subseteq Events
  /\ \A e \in Events : append[e].at \in {"new", "waiting", "writing", "written",
                                         "published", "failed"}
  /\ rebuild.at \in {"idle", "cleared", "read"} /\ retention.at \in {"idle", "read", "archived", "emptied"}
  /\ model \in [{"known", "revoked", "suspended", "verified"} -> BOOLEAN]
  /\ ToSet(audit) \subseteq Events /\ mixed \in BOOLEAN /\ trimmed \in BOOLEAN

EventInit ==
  /\ evlog = <<>> /\ torn = FALSE /\ archived = {} /\ aged = {} /\ seqno = 0 /\ turn = <<>>
  /\ append = [e \in Events |-> [at |-> "new", seq |-> 0]]
  /\ rebuild = NoRun /\ retention = NoRun /\ model = NoCredential /\ audit = <<>>
  /\ mixed = FALSE /\ trimmed = FALSE /\ swallowed = {} /\ unwritten = {}
  /\ evFaults = 0 /\ evRestarts = 0 /\ rebuilds = 0

-----------------------------------------------------------------------------
(* append() *)

At(e, at) == append' = [append EXCEPT ![e].at = at]

\* append() is called and joins the lock chain
Append_(e) ==
  /\ append[e].at = "new" /\ At(e, "waiting")
  /\ turn' = Append(turn, e)
  /\ UNCHANGED <<fileVars, aged, seqno, rebuild, retention, viewVars, trimmed, evBounds>>

\* currentLock resolves: the event gets its number and its line is written
Take(e) ==
  /\ append[e].at = "waiting" /\ Head(turn) = e
  /\ append' = [append EXCEPT ![e] = [at |-> "writing", seq |-> seqno + 1]]
  /\ seqno' = seqno + 1
  /\ UNCHANGED <<fileVars, aged, turn, rebuild, retention, viewVars, trimmed, evBounds>>

Leave(e) == turn' = SelectSeq(turn, LAMBDA x : x # e)

\* appendFile resolves: the line is in the file, joined to a torn one if there is one
Written(e) ==
  /\ append[e].at = "writing" /\ At(e, "written") /\ Leave(e)
  /\ evlog' = Append(evlog, [event |-> e, seq |-> append[e].seq, ok |-> ~torn])
  /\ swallowed' = IF torn THEN swallowed \cup {e} ELSE swallowed
  /\ torn' = FALSE
  /\ trimmed' = (trimmed \/ retention.at # "idle")
  /\ UNCHANGED <<archived, unwritten, aged, seqno, rebuild, retention, viewVars, evBounds>>

\* appendFile rejects, after a part of the line perhaps: the lock is released, the number
\* stays used
WriteFails(e) ==
  /\ append[e].at = "writing" /\ evFaults < MaxEventFaults
  /\ evFaults' = evFaults + 1
  /\ At(e, "failed") /\ Leave(e)
  /\ torn' \in {torn, TRUE}
  /\ UNCHANGED <<evlog, archived, swallowed, unwritten, aged, seqno, rebuild, retention,
                 viewVars, trimmed, evRestarts, rebuilds>>

-----------------------------------------------------------------------------
(* Read models *)

\* applyCredentialEvent: an issuance starts afresh, the rest needs a state
Apply(m, e) ==
  CASE KindOf[e] = "issued"               -> [NoCredential EXCEPT !.known = TRUE]
    [] KindOf[e] = "revoked" /\ m.known   -> [m EXCEPT !.revoked = TRUE]
    [] KindOf[e] = "suspended" /\ m.known -> [m EXCEPT !.suspended = TRUE]
    [] KindOf[e] = "verified" /\ m.known  -> [m EXCEPT !.verified = TRUE]
    [] OTHER                              -> m

\* dispatch of the events of s, in order, to both projections
Dispatch(s) ==
  /\ model' = FoldLeft(LAMBDA m, l : Apply(m, l.event), model, s)
  /\ audit' = audit \o [i \in DOMAIN s |-> s[i].event]

\* The caller goes on with publish(), in the order in which appends resolve
Publish(e) ==
  /\ append[e].at = "written" /\ At(e, "published")
  /\ \A i \in DOMAIN evlog : append[evlog[i].event].at = "written" /\ evlog[i].event # e
       => append[evlog[i].event].seq > append[e].seq
  /\ Dispatch(<<[event |-> e, seq |-> append[e].seq, ok |-> TRUE]>>)
  /\ mixed' = (mixed \/ rebuild.at # "idle")
  /\ UNCHANGED <<fileVars, aged, seqno, turn, rebuild, retention, trimmed, evBounds>>

\* rebuild: every projection is cleared before the first await
RebuildStarts ==
  /\ rebuild.at = "idle" /\ rebuilds < MaxRebuilds /\ rebuilds' = rebuilds + 1
  /\ rebuild' = [at |-> "cleared", has |-> <<>>]
  /\ model' = NoCredential /\ audit' = <<>> /\ mixed' = FALSE
  /\ UNCHANGED <<fileVars, aged, seqno, turn, append, retention, trimmed, evFaults, evRestarts>>

\* The numbers getEvents meets raise _sequence
Raised == LET m == FoldLeft(LAMBDA a, l : IF l.seq > a THEN l.seq ELSE a, 0, Readable(evlog))
          IN IF m > seqno THEN m ELSE seqno

RebuildReads ==
  /\ rebuild.at = "cleared"
  /\ rebuild' = [at |-> "read", has |-> Readable(evlog)]
  /\ seqno' = Raised
  /\ mixed' = (mixed \/ \E l \in ToSet(Readable(evlog)) : append[l.event].at = "written")
  /\ UNCHANGED <<fileVars, aged, turn, append, retention, model, audit, trimmed, evBounds>>

RebuildDispatches ==
  /\ rebuild.at = "read" /\ rebuild' = NoRun
  /\ Dispatch(rebuild.has)
  /\ UNCHANGED <<fileVars, aged, seqno, turn, append, retention, mixed, trimmed, evBounds>>

-----------------------------------------------------------------------------
(* Retention *)

Age(e) ==
  /\ append[e].at \in {"written", "published"} /\ e \notin aged
  /\ aged' = aged \cup {e}
  /\ UNCHANGED <<fileVars, seqno, turn, append, rebuild, retention, viewVars, trimmed, evBounds>>

RetentionReads ==
  /\ retention.at = "idle" /\ rebuilds < MaxRebuilds /\ rebuilds' = rebuilds + 1
  /\ EventsOf(Readable(evlog)) \cap aged # {}
  /\ retention' = [at |-> "read", has |-> Readable(evlog)]
  /\ seqno' = Raised
  /\ UNCHANGED <<fileVars, aged, turn, append, rebuild, viewVars, trimmed, evFaults, evRestarts>>

Mut_RetentionArchives ==
  /\ retention.at = "read" /\ retention' = [retention EXCEPT !.at = "archived"]
  /\ evlog' = SelectSeq(retention.has, LAMBDA l : l.event \notin aged)
  /\ UNCHANGED <<torn, archived, swallowed, unwritten, aged, seqno, turn, append, rebuild,
                 viewVars, trimmed, evBounds>>

\* The archive file is written first ...
RetentionArchives ==
  /\ retention.at = "read" /\ retention' = [retention EXCEPT !.at = "archived"]
  /\ archived' = archived \cup (EventsOf(retention.has) \cap aged)
  /\ UNCHANGED <<evlog, torn, swallowed, unwritten, aged, seqno, turn, append, rebuild,
                 viewVars, trimmed, evBounds>>

\* ... then fs.writeFile opens the file, which empties it ...
RetentionEmpties ==
  /\ retention.at = "archived" /\ retention' = [retention EXCEPT !.at = "emptied"]
  /\ evlog' = <<>> /\ torn' = FALSE
  /\ UNCHANGED <<archived, swallowed, unwritten, aged, seqno, turn, append, rebuild, viewVars,
                 trimmed, evBounds>>

\* ... and writes the events to keep, as read, over what was appended meanwhile
ToKeep == SelectSeq(retention.has, LAMBDA l : l.event \notin archived)

RetentionRewrites ==
  /\ retention.at = "emptied" /\ retention' = NoRun
  /\ evlog' = ToKeep /\ torn' = FALSE
  /\ UNCHANGED <<archived, swallowed, unwritten, aged, seqno, turn, append, rebuild, viewVars,
                 trimmed, evBounds>>

\* The first n events to keep are in the file and the rest is not
CutShort(n) ==
  /\ evlog' = SubSeq(ToKeep, 1, n)
  /\ unwritten' = unwritten \cup EventsOf(SubSeq(ToKeep, n + 1, Len(ToKeep)))
  /\ torn' \in {FALSE, n < Len(ToKeep)}

\* A write of the run rejects
RetentionFails ==
  /\ retention.at \in {"read", "archived", "emptied"} /\ retention' = NoRun
  /\ evFaults < MaxEventFaults /\ evFaults' = evFaults + 1
  /\ IF retention.at = "emptied" THEN \E n \in 0 .. Len(ToKeep) : CutShort(n)
     ELSE UNCHANGED <<evlog, unwritten, torn>>
  /\ UNCHANGED <<archived, swallowed, aged, seqno, turn, append, rebuild, viewVars, trimmed,
                 evRestarts, rebuilds>>

-----------------------------------------------------------------------------
\* The process stops and starts: the counter, the lock chain and the read models
\* are gone, and what was being written is not there, half there or there
Restart ==
  /\ evRestarts < MaxEventRestarts /\ evRestarts' = evRestarts + 1
  /\ seqno' = 0 /\ turn' = <<>> /\ rebuild' = NoRun /\ retention' = NoRun
  /\ model' = NoCredential /\ audit' = <<>> /\ mixed' = TRUE
  /\ append' = [e \in Events |-> [append[e] EXCEPT !.at =
                  CASE @ \in {"waiting", "writing"} -> "failed"
                    [] @ = "written"                -> "published"
                    [] OTHER                        -> @]]
  /\ \/ retention.at # "emptied" /\ UNCHANGED <<evlog, torn, unwritten>>
     \/ retention.at = "emptied" /\ \E n \in 0 .. Len(ToKeep) : CutShort(n)
     \/ /\ \E e \in Events :
             /\ append[e].at = "writing"
             /\ \/ torn' = TRUE /\ UNCHANGED evlog
                \/ /\ evlog' = Append(evlog, [event |-> e, seq |-> append[e].seq, ok |-> ~torn])
                   /\ torn' = FALSE
        /\ retention.at # "emptied" /\ UNCHANGED unwritten
  /\ UNCHANGED <<archived, swallowed, aged, trimmed, evFaults, rebuilds>>

EventStep(e) == Append_(e) \/ Take(e) \/ Written(e) \/ Publish(e)

EventNext ==
  \/ \E e \in Events : EventStep(e) \/ WriteFails(e) \/ Age(e)
  \/ RebuildStarts \/ RebuildReads \/ RebuildDispatches
  \/ RetentionReads \/ RetentionArchives \/ RetentionEmpties \/ RetentionRewrites
  \/ RetentionFails
  \/ Restart

EventSpec == EventInit /\ [][EventNext]_eventVars

-----------------------------------------------------------------------------
\* The "monotonic global sequence number" (event-store.js:21) as far as it goes:
\* while the process runs, file order is number order and no number is used
\* twice, through failed writes, rebuilds and retention runs.
NumberedInOrder ==
  evRestarts = 0 => \A i, j \in DOMAIN evlog : i < j => evlog[i].seq < evlog[j].seq

\* An event whose append() resolved stays readable in the file or in an archive, or is
\* about to be written back, unless a retention run overlapped an append, its line was
\* joined to one that a crash or a failed write had torn, or the run that was to keep it
\* stopped after it had emptied the file (event-store.js:36-60, 192-224).
AppendedKept ==
  \A e \in Events :
    append[e].at \in {"written", "published"} =>
      \/ e \in archived \cup EventsOf(Readable(evlog))
      \/ retention.at = "emptied" /\ e \in EventsOf(ToKeep)
      \/ trimmed \/ e \in swallowed \cup unwritten

\* Once its rebuild is over and what was appended is published, a projection shows
\* what the file says, each event once and in order, unless a publish fell into a
\* rebuild or events were archived (event-replay.js:247-259, 285-290).
ProjectionsCurrent ==
  /\ rebuild.at = "idle" /\ ~mixed /\ archived = {} /\ ~trimmed /\ swallowed = {}
  /\ \A e \in Events : append[e].at # "written"
  => LET s == Readable(evlog) IN
     /\ audit = [i \in DOMAIN s |-> s[i].event]
     /\ model = FoldLeft(LAMBDA m, l : Apply(m, l.event), NoCredential, s)
=============================================================================
