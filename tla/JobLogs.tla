-------------------------------- MODULE JobLogs --------------------------------
(***************************************************************************)
(* The log of a job: internal/jobs/logs.go, the events its writes publish  *)
(* (jobs.go, internal/events) and the page of the dashboard that follows   *)
(* it (status-page-interaction.js).                                        *)
(*                                                                         *)
(* A write splits its data into numbered chunks and, past a limit, keeps   *)
(* the head and the newest output around a marker.  It then publishes its  *)
(* chunks, or a reset when what is stored no longer only grows; writers    *)
(* publish in any order.  The page appends the chunk it expects next and   *)
(* otherwise fetches what follows its last one, page by page, while the    *)
(* log goes on changing.                                                   *)
(*                                                                         *)
(* Bytes are the positions 1, 2, ... of the text, of which `ver' counts    *)
(* the replacements; every character is two bytes long.  Streams, times    *)
(* and the preview are left out.                                           *)
(***************************************************************************)
EXTENDS Naturals, Sequences, FiniteSets, SequencesExt

CONSTANTS
    Writers,       \* requests and goroutines that write the log
    Lengths,       \* of the fragments written
    ChunkMax,      \* LogChunkMaxBytes
    HeadBytes,     \* LogHeadBytes, twice as much
    MaxBytes,      \* LogConfig.MaxBytes, at least twice the head
    Marker,        \* len(LogTruncationMarker)
    PageLimit,     \* chunks in a page
    QueueMax,      \* the events a subscriber may fall behind
    MaxWrites      \* bound: writes

VARIABLES
    log,       \* the job's columns and its rows of job_log_chunks
    active,    \* whether the job has not ended
    owed,      \* the events a writer has still to publish
    queue,     \* the subscriber's channel
    open,      \* whether the broker still sends to it
    page,      \* the state of the page: what it shows, and its fetch
    lost,      \* whether a reset, or what came during a fetch, was lost with a connection
    writes

vars == <<log, active, owed, queue, open, page, lost, writes>>

RuneStart(i) == i % 2 = 1

Size(c) == IF c.marker THEN Marker ELSE c.hi + 1 - c.lo

Total(cs) == FoldLeft(LAMBDA n, c : n + Size(c), 0, cs)

TailBudget == MaxBytes - HeadBytes - Marker

NoFetch == [state |-> "none"]

EmptyPage == [last |-> 0, shown |-> <<>>, pending |-> {}, recovering |-> FALSE,
              again |-> FALSE, stale |-> FALSE, fetch |-> NoFetch]

EmptyLog == [chunks |-> <<>>, next |-> 1, source |-> 0, truncated |-> FALSE,
             expired |-> FALSE, ver |-> 0]

-----------------------------------------------------------------------------
(* Cutting text without splitting a character.                             *)

MaxOf(S) == CHOOSE n \in S : \A m \in S : m <= n
MinOf(S) == CHOOSE n \in S : \A m \in S : n <= m

\* splitLogData: the ends of the parts of lo..hi.
RECURSIVE SplitLogData(_, _)
SplitLogData(lo, hi) ==
    IF hi + 1 - lo <= ChunkMax THEN <<[lo |-> lo, hi |-> hi]>>
    ELSE LET cuts == {n \in 1..ChunkMax : RuneStart(lo + n)}
             cut == IF cuts = {} THEN ChunkMax ELSE MaxOf(cuts)
         IN <<[lo |-> lo, hi |-> lo + cut - 1]>> \o SplitLogData(lo + cut, hi)

\* safePrefixBytes, and safeSuffixBytes, which also is trimLogPrefix.
SafePrefix(c, n) ==
    IF Size(c) <= n THEN c
    ELSE [c EXCEPT !.hi = c.lo - 1 + MaxOf({0} \cup {m \in 1..n : RuneStart(c.lo + m)})]

SafeSuffix(c, n) ==
    IF Size(c) <= n THEN c
    ELSE [c EXCEPT !.lo = MinOf({m \in (c.hi + 1 - n)..c.hi : RuneStart(m)} \cup {c.hi + 1})]

-----------------------------------------------------------------------------
(* enforceLogLimitTx                                                       *)

MarkerAt(cs) == MinOf({i \in DOMAIN cs : cs[i].marker} \cup {Len(cs) + 1})

\* Once there is a marker, the oldest of what follows it is removed.
TrimTail(cs) ==
    LET m == MarkerAt(cs)
        after(i) == Total(SubSeq(cs, i, Len(cs)))
        first == MinOf({i \in (m + 1)..(Len(cs) + 1) : after(i) <= TailBudget})
    IN SubSeq(cs, 1, m)
         \o (IF first > m + 1 /\ after(first) < TailBudget
             THEN <<SafeSuffix(cs[first - 1], TailBudget - after(first))>> ELSE <<>>)
         \o SubSeq(cs, first, Len(cs))

\* The first time: the head, up to a part of a chunk, the tail, down to a part
\* of one, and the marker in the place of a chunk that goes.
CutMiddle(cs) ==
    LET fits == MaxOf({i \in 0..Len(cs) : Total(SubSeq(cs, 1, i)) <= HeadBytes})
        left == HeadBytes - Total(SubSeq(cs, 1, fits))
        part == left > 0 /\ fits < Len(cs)
        headEnd == IF part THEN fits + 1 ELSE fits
        head == SubSeq(cs, 1, fits) \o (IF part THEN <<SafePrefix(cs[fits + 1], left)>> ELSE <<>>)
        after(i) == Total(SubSeq(cs, i + 1, Len(cs)))
        whole == MinOf({i \in headEnd..Len(cs) : after(i) <= TailBudget})
        trims == whole > headEnd /\ after(whole) < TailBudget
        kept == IF trims THEN [cs EXCEPT ![whole] = SafeSuffix(@, TailBudget - after(whole))] ELSE cs
        start == IF trims THEN whole - 1 ELSE whole
        tail == IF start > headEnd THEN start ELSE start + 1
    IN head \o <<[seq |-> cs[headEnd + 1].seq, lo |-> 1, hi |-> 0, marker |-> TRUE, ver |-> 0]>>
         \o SubSeq(kept, tail + 1, Len(cs))

Marked(cs) == \E i \in DOMAIN cs : cs[i].marker

EnforceLogLimit(l) ==
    IF ~Marked(l.chunks) /\ Total(l.chunks) <= MaxBytes THEN l
    ELSE [l EXCEPT !.chunks = IF Marked(@) THEN TrimTail(@) ELSE CutMiddle(@), !.truncated = TRUE]

-----------------------------------------------------------------------------
(* Writes.                                                                 *)

\* appendFragmentsTx: the n bytes that follow.
AppendFragments(l, n) ==
    LET parts == SplitLogData(l.source + 1, l.source + n)
        chunks == [i \in DOMAIN parts |->
                     [seq |-> l.next + i - 1, lo |-> parts[i].lo, hi |-> parts[i].hi,
                      marker |-> FALSE, ver |-> l.ver]]
    IN IF l.expired \/ n = 0 THEN l
       ELSE EnforceLogLimit([l EXCEPT !.chunks = @ \o chunks, !.next = @ + Len(chunks),
                                      !.source = @ + n])

\* notifyLogResult: the chunks of an append, or one reset.
Events(old, new) ==
    IF new = old THEN <<>>
    ELSE IF new.truncated \/ new.ver # old.ver THEN <<[reset |-> TRUE]>>
    ELSE [i \in 1..(new.next - old.next) |->
            [reset |-> FALSE, chunk |-> new.chunks[Len(new.chunks) - (new.next - old.next) + i]]]

\* replaceLogSnapshotTx: a snapshot of n bytes of this text that continues what
\* is stored is an append; any other removes what there is.
ReplaceLogSnapshot(l, n, same) ==
    IF same /\ l.source > 0 /\ n >= l.source THEN AppendFragments(l, n - l.source)
    ELSE AppendFragments([l EXCEPT !.chunks = <<>>, !.truncated = FALSE, !.expired = FALSE,
                                   !.source = 0, !.ver = @ + 1], n)

Commit(w, l) ==
    /\ writes < MaxWrites
    /\ writes' = writes + 1
    /\ active /\ owed[w] = <<>>
    /\ log' = l
    /\ owed' = [owed EXCEPT ![w] = Events(log, l)]
    /\ UNCHANGED <<queue, open, page, lost>>

\* appendActiveLogFragments
Append_(w, n) == Commit(w, AppendFragments(log, n)) /\ UNCHANGED active

\* applyTransitionWithLogResult: a transition with a log, the last of them too.
Transition(w, n, same, ends) ==
    /\ Commit(w, ReplaceLogSnapshot(log, n, same))
    /\ active' = ~ends

\* PurgeExpiredLogs: of a job that has ended; nobody is told.
Purge ==
    /\ ~active /\ ~log.expired
    /\ log' = [log EXCEPT !.chunks = <<>>, !.expired = TRUE]
    /\ UNCHANGED <<active, owed, queue, open, page, lost, writes>>

\* migrateLegacyLogs, at the start: a text without chunks becomes some.
Init ==
    /\ log \in {EmptyLog} \cup {AppendFragments(EmptyLog, n) : n \in {MaxBytes, MaxBytes + ChunkMax}}
    /\ active = TRUE
    /\ owed = [w \in Writers |-> <<>>]
    /\ queue = <<>> /\ open = TRUE
    /\ page = [EmptyPage EXCEPT !.recovering = TRUE, !.fetch = [state |-> "asked", after |-> 0]]
    /\ lost = FALSE
    /\ writes = 0

-----------------------------------------------------------------------------
(* The events and the page that follows them.                              *)

\* logRecoveryEffect: one fetch at a time, of what follows the last chunk.
Recovering(p) ==
    IF p.recovering THEN p
    ELSE [p EXCEPT !.recovering = TRUE, !.fetch = [state |-> "asked", after |-> p.last]]

\* Broker.PublishEvent: a subscriber that has fallen behind is closed; what it
\* was sent before is still delivered.
Publish(w) ==
    /\ owed[w] # <<>>
    /\ owed' = [owed EXCEPT ![w] = Tail(@)]
    /\ IF open /\ Len(queue) < QueueMax
       THEN queue' = Append(queue, Head(owed[w])) /\ UNCHANGED <<open, lost>>
       ELSE open' = FALSE /\ lost' = (lost \/ Head(owed[w]).reset \/ page.recovering) /\ UNCHANGED queue
    /\ UNCHANGED <<log, active, page, writes>>

\* The page connects again; a fetch that is under way will not do.
Reconnect ==
    /\ ~open /\ queue = <<>>
    /\ open' = TRUE
    /\ page' = [Recovering(page) EXCEPT !.stale = page.recovering]
    /\ UNCHANGED <<log, active, owed, queue, lost, writes>>

\* acceptLogFragment
Accept(p, c) ==
    IF c.seq <= p.last THEN p
    ELSE [p EXCEPT !.last = c.seq, !.shown = Append(@, c)]

\* receiveJobLogEvent
Seen(p, e) ==
    IF e.reset
    THEN LET empty == [p EXCEPT !.last = 0, !.shown = <<>>, !.pending = {}]
         IN IF p.recovering THEN [empty EXCEPT !.again = TRUE] ELSE Recovering(empty)
    ELSE IF e.chunk.seq <= p.last \/ \E c \in p.pending : c.seq = e.chunk.seq THEN p
    ELSE IF p.recovering \/ e.chunk.seq # p.last + 1
    THEN Recovering([p EXCEPT !.pending = @ \cup {e.chunk}])
    ELSE Accept(p, e.chunk)

Receive ==
    /\ queue # <<>>
    /\ queue' = Tail(queue)
    /\ page' = Seen(page, Head(queue))
    /\ UNCHANGED <<log, active, owed, open, lost, writes>>

\* ReadLogPage
Serve ==
    LET rest == SelectSeq(log.chunks, LAMBDA c : c.seq > page.fetch.after)
    IN /\ page.fetch.state = "asked"
       /\ page' = [page EXCEPT !.fetch =
                     [state |-> "answered", more |-> Len(rest) > PageLimit,
                      chunks |-> SubSeq(rest, 1, IF Len(rest) > PageLimit THEN PageLimit ELSE Len(rest))]]
       /\ UNCHANGED <<log, active, owed, queue, open, lost, writes>>

\* Mutant: the answer to a fetch from before a reset is accepted.
AnsweredAnyway(p) ==
    LET done == [p EXCEPT !.recovering = FALSE, !.again = FALSE, !.stale = FALSE, !.fetch = NoFetch]
        read == FoldLeft(Accept, done, p.fetch.chunks)
        caught == FoldLeft(Accept, [read EXCEPT !.pending = {}],
                           SetToSortSeq(p.pending, LAMBDA a, b : a.seq < b.seq))
    IN IF p.fetch.more THEN Recovering(read) ELSE IF p.stale THEN Recovering(caught) ELSE caught

\* receiveJobLogRecovery
Answered(p) ==
    LET done == [p EXCEPT !.recovering = FALSE, !.again = FALSE, !.stale = FALSE, !.fetch = NoFetch]
        read == FoldLeft(Accept, done, p.fetch.chunks)
        caught == FoldLeft(Accept, [read EXCEPT !.pending = {}],
                           SetToSortSeq(p.pending, LAMBDA a, b : a.seq < b.seq))
    IN IF p.again THEN Recovering(done)
       ELSE IF p.fetch.more THEN Recovering(read)
       ELSE IF p.stale THEN Recovering(caught) ELSE caught

Answer ==
    /\ page.fetch.state = "answered"
    /\ page' = Answered(page)
    /\ UNCHANGED <<log, active, owed, queue, open, lost, writes>>

Next ==
    \/ \E w \in Writers, n \in Lengths :
         \/ Append_(w, n)
         \/ \E ends \in BOOLEAN : Transition(w, log.source + n, TRUE, ends) \/ Transition(w, n, FALSE, ends)
    \/ Purge \/ (\E w \in Writers : Publish(w))
    \/ Reconnect \/ Receive \/ Serve \/ Answer

Spec == Init /\ [][Next]_vars

-----------------------------------------------------------------------------

\* Whatever is written, in whatever pieces, the stored log is bounded and is
\* the whole text or its head, one marker and its newest part, with nothing
\* between two chunks and no less of either than a chunk short of its share
\* (enforceLogLimitTx, splitLogData, replaceLogSnapshotTx).
KeepsHeadAndTail ==
    LET cs == log.chunks
        m == MarkerAt(cs)
        touching(i, j) == \A k \in i..(j - 1) : cs[k + 1].lo = cs[k].hi + 1
    IN cs # <<>> =>
         /\ Total(cs) <= MaxBytes
         /\ cs[1].lo = 1 /\ cs[Len(cs)].hi = log.source
         /\ \A i \in DOMAIN cs : i > 1 => cs[i].seq > cs[i - 1].seq
         /\ Len(cs) < m => touching(1, Len(cs)) /\ ~log.truncated
         /\ m <= Len(cs) =>
              /\ log.truncated /\ touching(1, m - 1) /\ touching(m + 1, Len(cs))
              /\ Total(SubSeq(cs, 1, m - 1)) > HeadBytes - ChunkMax
              /\ Total(SubSeq(cs, m + 1, Len(cs))) > TailBudget - ChunkMax

\* A page that has received every event and every answer shows the log as it is
\* stored, whatever was truncated or replaced while it read page by page and in
\* whatever order the writers' events came (notifyLogResult, Broker,
\* receiveJobLogEvent, receiveJobLogRecovery).
FollowsTheLog ==
    (/\ open /\ ~lost /\ ~log.expired
     /\ queue = <<>> /\ ~page.recovering
     /\ \A w \in Writers : owed[w] = <<>>)
    => page.shown = log.chunks

\* The log is stored within its limits with nothing lost but its middle, and a
\* page that follows it shows what is stored (LogStore, the job page).
LogIsKeptAndFollowed == KeepsHeadAndTail /\ FollowsTheLog
====
