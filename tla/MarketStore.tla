----------------------------- MODULE MarketStore -----------------------------
(***************************************************************************)
(* The market data of one symbol (data/fetch.py, data/validation.py,       *)
(* data/storage.py): updates read the latest file, fetch the candles after *)
(* it page by page, and persist the merged file as a snapshot under its    *)
(* own content and as the new latest file.  Updates take no lock.          *)
(*                                                                         *)
(* A candle is its index; `Span` clock units long, so that a request may   *)
(* find the last one unfinished.  A file is the function from its candles  *)
(* to what is stored of each, and names its own snapshot.                  *)
(***************************************************************************)
EXTENDS Integers, FiniteSets, Functions, FiniteSetsExt

CONSTANTS
    Procs,
    None,
    Span,           \* clock units in a candle
    Lookback,       \* how far back the first update goes
    MaxRetries,     \* MAX_FETCH_RETRIES
    MaxClock,       \* bound on the clock
    MaxCrashes      \* bound on host crashes

\* What the constants must be.
MarketAssumption ==
    /\ Span \in Nat \ {0}
    /\ Lookback \in 0..MaxClock
    /\ {MaxRetries, MaxClock, MaxCrashes} \subseteq Nat

VARIABLES
    clock,
    latest,         \* the latest file, or None
    replaced,       \* those before it that a crash may bring back
    snapshots,      \* the snapshots there are, each with how far it is
    pc,
    call,           \* what each update has in memory
    crashes

vars == <<clock, latest, replaced, snapshots, pc, call, crashes>>

Candles == 0..(MaxClock \div Span)
Values  == {"final", "forming", "cut"}
NoRows  == [t \in {} |-> "final"]
NoCall  == [now |-> 0, since |-> 0, cursor |-> 0, prev |-> -1, failures |-> 0,
            existing |-> NoRows, rows |-> NoRows, data |-> NoRows]

Files == UNION {[c -> Values] : c \in SUBSET Candles}

\* The rows of `old` and those of `new`, which replace them.
Over(new, old) ==
    [t \in DOMAIN new \cup DOMAIN old |-> IF t \in DOMAIN new THEN new[t] ELSE old[t]]

\* The candle has closed, and the exchange serves what is final of it.
Closed(t, now) == (t + 1) * Span <= now
Served(t)      == IF Closed(t, clock) THEN "final" ELSE "forming"

\* validate_ohlcv: not empty, no gap, no unfinished candle.
Valid(d, now) ==
    /\ DOMAIN d # {}
    /\ \A t, u \in DOMAIN d : t..u \subseteq DOMAIN d
    /\ \A t \in DOMAIN d : Closed(t, now)

\* The files, the updates and the clock are typed.
TypeOK ==
    /\ clock \in Lookback..MaxClock
    /\ {latest} \cup replaced \subseteq Files \cup {None}
    /\ DOMAIN snapshots \subseteq Files
    /\ \A d \in DOMAIN snapshots : snapshots[d] \in {"torn", "whole", "synced"}
    /\ pc \in [Procs -> {"idle", "fetch", "merge", "snapshot", "copy", "sync", "replace"}]

Init ==
    /\ clock = Lookback
    /\ latest = None
    /\ replaced = {}
    /\ snapshots = [d \in {} |-> "torn"]
    /\ pc = [p \in Procs |-> "idle"]
    /\ call = [p \in Procs |-> NoCall]
    /\ crashes = 0

Goto(p, phase) == pc' = [pc EXCEPT ![p] = phase]

Leave(p) ==
    /\ Goto(p, "idle")
    /\ call' = [call EXCEPT ![p] = NoCall]

Store(d, status) == snapshots' = Over([e \in {d} |-> status], snapshots)
Remove(d)        == snapshots' = Restrict(snapshots, DOMAIN snapshots \ {d})

-----------------------------------------------------------------------------
\* load_or_update_ohlcv: the update goes on from the latest file, which must
\* be valid by the clock read first, or starts at the candle `Lookback` ago.
Begin(p) ==
    /\ pc[p] = "idle"
    /\ latest # None => Valid(latest, clock)
    /\ LET since == IF latest = None THEN (clock - Lookback) \div Span
                                     ELSE Max(DOMAIN latest) + 1
       IN call' = [call EXCEPT ![p] =
                     [NoCall EXCEPT !.now = clock, !.since = since, !.cursor = since,
                                    !.existing = IF latest = None THEN NoRows ELSE latest]]
    /\ Goto(p, "fetch")
    /\ UNCHANGED <<clock, latest, replaced, snapshots, crashes>>

\* One page of fetch_ohlcv, whatever candles the exchange puts in it; later
\* rows win.  A page that brings nothing newer ends the loop.
Page_noStallCheck(p, page) ==
    LET c == call[p]
        next == Max(page) + 1
        eligible == {t \in page : t >= c.since /\ t * Span < c.now}
    IN  /\ pc[p] = "fetch"
        /\ c.cursor * Span < c.now
        /\ call' = [call EXCEPT ![p].rows = Over([t \in eligible |-> Served(t)], @),
                                ![p].failures = 0,
                                ![p].prev = c.cursor,
                                ![p].cursor = next]
        /\ Goto(p, IF next * Span >= c.now THEN "merge" ELSE "fetch")
        /\ UNCHANGED <<clock, latest, replaced, snapshots, crashes>>

Page(p, page) ==
    LET c == call[p]
        next == Max(page) + 1
        stalled == next <= c.cursor \/ next = c.prev
        eligible == {t \in page : t >= c.since /\ t * Span < c.now}
    IN  /\ pc[p] = "fetch"
        /\ c.cursor * Span < c.now
        /\ call' = [call EXCEPT ![p].rows = Over([t \in eligible |-> Served(t)], @),
                                ![p].failures = 0,
                                ![p].prev = IF stalled THEN @ ELSE c.cursor,
                                ![p].cursor = IF stalled THEN @ ELSE next]
        /\ Goto(p, IF stalled \/ next * Span >= c.now THEN "merge" ELSE "fetch")
        /\ UNCHANGED <<clock, latest, replaced, snapshots, crashes>>

\* The exchange has nothing more, or the range is empty.
LastPage(p) ==
    /\ pc[p] = "fetch"
    /\ Goto(p, "merge")
    /\ UNCHANGED <<clock, latest, replaced, snapshots, call, crashes>>

\* A network error is retried so many times for a page, then raised.
PageFails(p) ==
    /\ pc[p] = "fetch"
    /\ call[p].cursor * Span < call[p].now
    /\ IF call[p].failures < MaxRetries
       THEN call' = [call EXCEPT ![p].failures = @ + 1] /\ UNCHANGED pc
       ELSE Leave(p)
    /\ UNCHANGED <<clock, latest, replaced, snapshots, crashes>>

-----------------------------------------------------------------------------
\* Mutant of Finished: whatever the exchange served is kept.
Finished_all(rows, now) == rows

\* filter_closed_candles, by the clock the update began with.
Finished(rows, now) == Restrict(rows, {t \in DOMAIN rows : Closed(t, now)})

\* The fetched rows and then the merged ones must be valid.
Merge(p) ==
    LET c == call[p]
        fetched == Finished(c.rows, c.now)
        merged == Finished(Over(fetched, c.existing), c.now)
    IN  /\ pc[p] = "merge"
        /\ DOMAIN fetched # {} => \A t, u \in DOMAIN fetched : t..u \subseteq DOMAIN fetched
        /\ DOMAIN merged # {}
        /\ \A t, u \in DOMAIN merged : t..u \subseteq DOMAIN merged
        /\ call' = [call EXCEPT ![p] = [NoCall EXCEPT !.data = merged]]
        /\ Goto(p, "snapshot")
        /\ UNCHANGED <<clock, latest, replaced, snapshots, crashes>>

\* _persist_snapshot: a snapshot that is there must have the bytes ...
ReuseSnapshot(p) ==
    /\ pc[p] = "snapshot"
    /\ call[p].data \in DOMAIN snapshots
    /\ snapshots[call[p].data] # "torn"
    /\ Goto(p, "replace")
    /\ UNCHANGED <<clock, latest, replaced, snapshots, call, crashes>>

\* ... and one that is not is created, copied in place and synced.
CreateSnapshot(p) ==
    /\ pc[p] = "snapshot"
    /\ call[p].data \notin DOMAIN snapshots
    /\ Store(call[p].data, "torn")
    /\ Goto(p, "copy")
    /\ UNCHANGED <<clock, latest, replaced, call, crashes>>

CopySnapshot(p) ==
    /\ pc[p] = "copy"
    /\ Store(call[p].data, "whole")
    /\ Goto(p, "sync")
    /\ UNCHANGED <<clock, latest, replaced, call, crashes>>

SyncSnapshot(p) ==
    /\ pc[p] = "sync"
    /\ Store(call[p].data, "synced")
    /\ Goto(p, "replace")
    /\ UNCHANGED <<clock, latest, replaced, call, crashes>>

\* The temporary file, which nobody synced, becomes the latest file, in a
\* directory that nobody syncs.  What it replaces is remembered while another
\* crash may come.
ReplaceLatest(p) ==
    /\ pc[p] = "replace"
    /\ latest' = call[p].data
    /\ replaced' = IF crashes < MaxCrashes THEN replaced \cup {latest} ELSE replaced
    /\ Leave(p)
    /\ UNCHANGED <<clock, snapshots, crashes>>

\* An error ends the update; one during the copy or its sync removes the
\* snapshot this update created.
Fail(p) ==
    /\ pc[p] # "idle"
    /\ IF pc[p] \in {"copy", "sync"} THEN Remove(call[p].data) ELSE UNCHANGED snapshots
    /\ Leave(p)
    /\ UNCHANGED <<clock, latest, replaced, crashes>>

\* The process dies and leaves what is there.
Kill(p) ==
    /\ pc[p] # "idle"
    /\ Leave(p)
    /\ UNCHANGED <<clock, latest, replaced, snapshots, crashes>>

-----------------------------------------------------------------------------
\* What a host crash may leave of a file whose data was not synced: a part of
\* it up to any byte, so that the last candle may be cut in its last number.
Torn(d) ==
    {d, NoRows} \cup
    {[t \in {u \in DOMAIN d : u <= m} |-> IF t = m THEN v ELSE d[t]] :
        m \in DOMAIN d, v \in {"cut", "final"}}

\* Neither the latest file, nor its directory, nor that of the snapshots is ever
\* synced: the latest file may be an earlier one again, and a part of it.
HostCrash ==
    /\ crashes < MaxCrashes
    /\ crashes' = crashes + 1
    /\ LET shown == replaced \cup {latest}
       IN latest' \in (shown \cap {None}) \cup UNION {Torn(d) : d \in shown \ {None}}
    /\ replaced' = {}
    /\ \E kept \in SUBSET DOMAIN snapshots :
          \E torn \in SUBSET {d \in kept : snapshots[d] = "whole"} :
              snapshots' = [d \in kept |-> IF d \in torn THEN "torn" ELSE snapshots[d]]
    /\ pc' = [p \in Procs |-> "idle"]
    /\ call' = [p \in Procs |-> NoCall]
    /\ UNCHANGED clock

Tick ==
    /\ clock < MaxClock
    /\ clock' = clock + 1
    /\ UNCHANGED <<latest, replaced, snapshots, pc, call, crashes>>

\* The candles the exchange may serve have begun.
Pages == (SUBSET {t \in Candles : t * Span <= clock}) \ {{}}

Fetching(p) == LastPage(p) \/ PageFails(p) \/ \E page \in Pages : Page(p, page)

Persisting(p) ==
    \/ ReuseSnapshot(p) \/ CreateSnapshot(p) \/ CopySnapshot(p) \/ SyncSnapshot(p)
    \/ ReplaceLatest(p)

Next ==
    \/ \E p \in Procs : Begin(p) \/ Fetching(p) \/ Merge(p) \/ Persisting(p) \/ Fail(p) \/ Kill(p)
    \/ HostCrash
    \/ Tick

Spec == Init /\ [][Next]_vars

-----------------------------------------------------------------------------
\* No candle is stored before it closed, by however many updates that read the
\* clock at one time, fetch at another and persist in any order: the fetch of a
\* later update starts after the last stored candle and would never correct it.
ClosedCandlesOnly ==
    \A d \in DOMAIN snapshots \cup ({latest} \ {None}) :
        \A t \in DOMAIN d : d[t] # "forming"

\* A fetch ends, whatever the exchange answers: one that goes on has come to a
\* later candle before its end, or has counted a failure of which few are left.
FetchAdvances ==
    [][\A p \in Procs : pc[p] = "fetch" /\ pc'[p] = "fetch" /\ call'[p] # call[p] =>
          \/ call'[p].cursor > call[p].cursor /\ call'[p].cursor * Span < call[p].now
          \/ /\ call'[p].cursor = call[p].cursor
             /\ call'[p].failures \in call[p].failures + 1 .. MaxRetries]_vars
=============================================================================
