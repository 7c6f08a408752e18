------------------------- MODULE NotificationReplay -------------------------
(***************************************************************************)
(* The bridge's bounded replay buffer (services/rust-bridge/src/replay.rs).*)
(*                                                                         *)
(* The buffer is a sequence of entries, oldest first.  An entry keeps the  *)
(* event's number and the size of its serialized payload; the payload text *)
(* itself is not modelled.  The counters dropped_oversize and evicted are  *)
(* diagnostics that nothing reads back and are left out.                   *)
(***************************************************************************)
EXTENDS Integers, Sequences, FiniteSets

CONSTANTS
    ReplayCapacity,     \* NOTIFICATION_REPLAY_BUFFER_SIZE
    ReplayMaxBytes      \* REPLAY_MAX_BYTES

ASSUME ReplayBounds ==
    /\ ReplayCapacity \in Nat \ {0}
    /\ ReplayMaxBytes \in Nat

Entry == [event_id : Nat, bytes : Nat]

\* Sum of the payload sizes of a run of entries.
TotalBytes(es) ==
    LET sum[i \in 0 .. Len(es)] == IF i = 0 THEN 0 ELSE sum[i - 1] + es[i].bytes
    IN  sum[Len(es)]

\* The loop condition of push, negated: the run needs no further eviction.
Fits(es) == Len(es) <= ReplayCapacity /\ TotalBytes(es) <= ReplayMaxBytes

\* Mutant of Push: the eviction loop starts one entry too early.
PushEvictsAtCapacity(es, e) ==
    IF e.bytes > ReplayMaxBytes
    THEN es
    ELSE LET all == Append(es, e)
             evicted == Cardinality({i \in 1..Len(es) :
                            LET rest == SubSeq(all, i, Len(all))
                            IN  Len(rest) >= ReplayCapacity \/ ~Fits(rest)})
         IN  SubSeq(all, evicted + 1, Len(all))

\* push: an entry that alone exceeds the byte budget is not stored; any other
\* is appended and the oldest entries are popped until the rest fits.  The new
\* entry itself always fits, so it is never popped; a run that fits keeps
\* fitting when it is shortened, so the number of pops is the number of
\* too-long suffixes.
Push(es, e) ==
    IF e.bytes > ReplayMaxBytes
    THEN es
    ELSE LET all == Append(es, e)
             evicted == Cardinality({i \in 1..Len(es) :
                                        ~Fits(SubSeq(all, i, Len(all)))})
         IN  SubSeq(all, evicted + 1, Len(all))

\* The entries past the cursor.  Numbers ascend in the buffer, so skipping
\* the ones at or below the cursor drops a prefix.
After(es, after) ==
    SubSeq(es, Cardinality({i \in DOMAIN es : es[i].event_id <= after}) + 1,
           Len(es))

\* Mutant of Since: has_more looks at the entry limit and forgets the byte budget.
SinceForgetsByteCut(es, after, limit, maxBytes) ==
    LET rest == After(es, after)
        taken == Cardinality({j \in DOMAIN rest :
                    /\ j <= limit
                    /\ TotalBytes(SubSeq(rest, 1, j)) <= maxBytes})
    IN  [events |-> SubSeq(rest, 1, taken), has_more |-> Len(rest) > limit]

\* since: the entries past the cursor, cut before the first one that would
\* exceed the page's entry limit or byte budget.
Since(es, after, limit, maxBytes) ==
    LET rest == After(es, after)
        taken == Cardinality({j \in DOMAIN rest :
                    /\ j <= limit
                    /\ TotalBytes(SubSeq(rest, 1, j)) <= maxBytes})
    IN  [events |-> SubSeq(rest, 1, taken), has_more |-> taken < Len(rest)]

-----------------------------------------------------------------------------
\* The loops of the source, step by step, to compare Push and Since with.

\* push: the oldest entry is popped, and its size taken off the running total,
\* while there are too many entries or bytes.
PopFront(s) ==
    IF Len(s.left) > ReplayCapacity \/ s.total > ReplayMaxBytes
    THEN [left |-> Tail(s.left), total |-> s.total - Head(s.left).bytes]
    ELSE s
PushLoop(es, e) ==
    LET all == Append(es, e)
        popped[i \in 0 .. Len(all)] ==
            IF i = 0 THEN [left |-> all, total |-> TotalBytes(all)] ELSE PopFront(popped[i - 1])
    IN  IF e.bytes > ReplayMaxBytes THEN es ELSE popped[Len(all)].left

\* since: entries at or below the cursor are skipped, the others collected with
\* their size until one would exceed a limit; the scan stops there.
ScanEntry(s, e, after, limit, maxBytes) ==
    IF s.has_more \/ e.event_id <= after THEN s
    ELSE IF Len(s.events) >= limit \/ s.bytes + e.bytes > maxBytes THEN [s EXCEPT !.has_more = TRUE]
    ELSE [s EXCEPT !.events = Append(@, e), !.bytes = @ + e.bytes]
SinceLoop(es, after, limit, maxBytes) ==
    LET scanned[i \in 0 .. Len(es)] ==
            IF i = 0 THEN [events |-> <<>>, has_more |-> FALSE, bytes |-> 0]
            ELSE ScanEntry(scanned[i - 1], es[i], after, limit, maxBytes)
        last == scanned[Len(es)]
    IN  [events |-> last.events, has_more |-> last.has_more]

\* earliest_event_id; 0 stands for None (event numbers start at 1).
EarliestEventId(es) == IF es = <<>> THEN 0 ELSE es[1].event_id

=============================================================================
