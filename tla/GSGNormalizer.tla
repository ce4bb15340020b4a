---------------------------- MODULE GSGNormalizer ----------------------------
(***************************************************************************)
(* The normalizer of the GSG archive (sentiment/providers/gdelt_gsg.py):   *)
(* minute after minute, what was delivered of the archive, or verified     *)
(* evidence that nothing was, becomes a terminal fact, and the articles of *)
(* a delivered snapshot become immutable versions in duplicate groups.     *)
(* The state is published whole and hydrated by replaying every fact.      *)
(*                                                                         *)
(* An instant is a number of clock units, `Precision` of them a second.  A *)
(* line of a snapshot is one endpoint: its article (canonical URL), its    *)
(* title (with language and source), and what excludes it.  An observation *)
(* is named by the position of its fact and of its line.                   *)
(***************************************************************************)
EXTENDS Integers, FiniteSets, Sequences, SequencesExt, Functions

CONSTANTS
    Minutes,        \* bound on the terminal facts
    Length,         \* EXPECTED_INTERVAL, in clock units
    Lag,            \* PROVIDER_LAG
    Horizon,        \* the 72 hours in which a duplicate joins a group
    Precision,      \* clock units in a second
    MaxPlan,        \* MAX_PLAN_INTERVALS
    Responses,      \* what the archive may answer: sequences of lines
    MaxSnapshots,   \* bound on the snapshots
    MaxClock        \* bound on the clock

\* What the constants must be.
NormalizerAssumption ==
    /\ {Minutes, Length, Precision, MaxPlan, MaxSnapshots} \subseteq Nat \ {0}
    /\ {Lag, Horizon, MaxClock} \subseteq Nat
    /\ \A r \in Responses : r \in Seq([article: Nat, title: STRING,
                                       fault: {"none", "late", "blocking"}])

VARIABLES
    clock,
    archive,        \* the snapshots of the store
    norm,           \* the normalizer in memory
    published       \* its state last published

vars == <<clock, archive, norm, published>>

Nobody == [x \in {} |-> 0]
Empty  == [facts |-> <<>>, closed |-> 0, versions |-> Nobody, links |-> Nobody,
           exclusions |-> {}, groups |-> Nobody, groupOf |-> Nobody]

Due(m) == (m - 1) * Length + Lag

-----------------------------------------------------------------------------
(* Facts and observations.                                                 *)

At(facts, o)   == facts[o[1]].terminal
Line(facts, o) == facts[o[1]].lines[o[2]]
Key(facts, o)  == <<Line(facts, o).article, Line(facts, o).title>>

Observations(facts, positions) ==
    UNION {{<<m, i>> : i \in DOMAIN facts[m].lines} :
              m \in {n \in positions : facts[n].state = "complete"}}

\* format_utc_timestamp: without a fraction the text ends in "Z", which sorts
\* after the "." of one with a fraction.
TextBefore(a, b) ==
    IF a \div Precision # b \div Precision THEN a < b
    ELSE a % Precision # 0 /\ (b % Precision = 0 \/ a < b)

\* Mutant of Earlier: the later one first.
Earlier_later(facts, o, q) ==
    \/ TextBefore(At(facts, q), At(facts, o))
    \/ At(facts, o) = At(facts, q) /\ (o[1] < q[1] \/ (o[1] = q[1] /\ o[2] < q[2]))

\* The order of first_seen_at, then of the observation's identity.
Earlier(facts, o, q) ==
    \/ TextBefore(At(facts, o), At(facts, q))
    \/ At(facts, o) = At(facts, q) /\ (o[1] < q[1] \/ (o[1] = q[1] /\ o[2] < q[2]))

Earliest(facts, S) == CHOOSE o \in S : \A q \in S \ {o} : Earlier(facts, o, q)

-----------------------------------------------------------------------------
(* normalize, on the facts a plan appends.                                 *)

\* _materialize_candidate: a line without a blocking fault.
Candidates(facts, positions) ==
    {o \in Observations(facts, positions) : Line(facts, o).fault # "blocking"}

\* Mutant of Conflicted: two titles in one plan are a conflict at any time.
Conflicted_anyTime(facts, positions) ==
    LET candidates == Candidates(facts, positions)
    IN  {o \in candidates : \E q \in candidates :
            /\ Line(facts, q).article = Line(facts, o).article
            /\ Line(facts, q).title # Line(facts, o).title}

\* Titles of one article seen at one time exclude each other.
Conflicted(facts, positions) ==
    LET candidates == Candidates(facts, positions)
    IN  {o \in candidates : \E q \in candidates :
            /\ At(facts, q) = At(facts, o)
            /\ Line(facts, q).article = Line(facts, o).article
            /\ Line(facts, q).title # Line(facts, o).title}

Eligible(facts, positions) ==
    {o \in Candidates(facts, positions) \ Conflicted(facts, positions) :
        Line(facts, o).fault = "none"}

\* _causal_group_for_candidate: the earliest group of the title whose anchor is
\* at most `Horizon` older.
Matches(groups, title, first) ==
    {g \in DOMAIN groups : groups[g].title = title /\ first - groups[g].first \in 0..Horizon}

EarliestGroup(groups, S) ==
    CHOOSE g \in S : \A h \in S \ {g} :
        \/ TextBefore(groups[g].first, groups[h].first)
        \/ groups[g].first = groups[h].first /\ g < h

\* One map on top of another.
Over(f, g) == [x \in DOMAIN f \cup DOMAIN g |-> IF x \in DOMAIN f THEN f[x] ELSE g[x]]

\* New articles come in the order of their first sighting.
Soonest(articles) ==
    CHOOSE a \in articles : \A b \in articles \ {a} :
        \/ TextBefore(a.first, b.first)
        \/ a.first = b.first /\ a.article < b.article

\* The next article joins a group or anchors its own.
Join(acc) ==
    LET new     == Soonest(acc.waiting)
        matches == Matches(acc.groups, new.title, new.first)
        group   == IF matches = {} THEN new.article ELSE EarliestGroup(acc.groups, matches)
        anchor  == [title |-> new.title, first |-> new.first]
    IN  [waiting |-> acc.waiting \ {new},
         groups  |-> IF matches = {} THEN Over([g \in {group} |-> anchor], acc.groups)
                     ELSE acc.groups,
         groupOf |-> Over([a \in {new.article} |-> group], acc.groupOf)]

\* The groups after each of the new articles joined.
Joins(s, articles) ==
    LET after[n \in 0..Cardinality(articles)] ==
            IF n = 0
            THEN [waiting |-> articles, groups |-> s.groups, groupOf |-> s.groupOf]
            ELSE Join(after[n - 1])
    IN  after

\* The state after a plan whose facts are `batch`, closed after the last of them.
Normalized(s, batch) ==
    LET facts     == s.facts \o batch
        positions == Len(s.facts) + 1 .. Len(facts)
        eligible  == Eligible(facts, positions)
        new       == {Key(facts, o) : o \in eligible} \ DOMAIN s.versions
        first     == [k \in new |-> Earliest(facts, {o \in eligible : Key(facts, o) = k})]
        versions  == [k \in new |-> [first |-> At(facts, first[k]), observation |-> first[k]]]
        initial   == {o \in Range(first) :
                        /\ Line(facts, o).article \notin DOMAIN s.groupOf
                        /\ \A q \in Range(first) \ {o} :
                              Line(facts, q).article = Line(facts, o).article
                                  => Earlier(facts, o, q)}
        articles  == {[article |-> Line(facts, o).article, title |-> Line(facts, o).title,
                       first |-> At(facts, o)] : o \in initial}
        joined    == Joins(s, articles)[Cardinality(articles)]
    IN  [facts      |-> facts,
         closed     |-> facts[Len(facts)].terminal + 1,
         versions   |-> Over(versions, s.versions),
         links      |-> Over([o \in eligible |-> [version |-> Key(facts, o),
                                                  reused  |-> o \notin Range(first)]],
                             s.links),
         exclusions |-> s.exclusions \cup (Observations(facts, positions) \ eligible),
         groups     |-> joined.groups,
         groupOf    |-> joined.groupOf]

\* _terminal_interval_facts: due, and available after all that is closed.
Chronological(s, batch, asOf) ==
    \A k \in DOMAIN batch :
        LET closed == IF k = 1 THEN s.closed ELSE batch[k - 1].terminal + 1
        IN  /\ Due(Len(s.facts) + k) <= asOf
            /\ batch[k].published >= closed
            /\ batch[k].terminal \in batch[k].published..asOf

\* Neither a revision at the time of a stored version nor an earlier sighting
\* of one may come: the whole plan is refused.
Unrevised(s, batch) ==
    LET facts     == s.facts \o batch
        positions == Len(s.facts) + 1 .. Len(facts)
        Stored(a, t) == {k \in DOMAIN s.versions : k[1] = a /\ s.versions[k].first = t}
    IN  /\ \A o \in Candidates(facts, positions) :
              Stored(Line(facts, o).article, At(facts, o)) \in SUBSET {Key(facts, o)}
        /\ \A o \in Eligible(facts, positions) : Key(facts, o) \in DOMAIN s.versions =>
              ~TextBefore(At(facts, o), s.versions[Key(facts, o)].first)

\* _validate_state_components: versions, their first observations and their
\* groups fit together ...
Fitting(s) ==
    /\ \A k \in DOMAIN s.versions :
          /\ {o \in DOMAIN s.links : s.links[o].version = k /\ ~s.links[o].reused}
                = {s.versions[k].observation}
          /\ \A j \in DOMAIN s.versions \ {k} :
                j[1] = k[1] => s.versions[j].first # s.versions[k].first
    /\ {s.links[o].version : o \in DOMAIN s.links} \subseteq DOMAIN s.versions
    /\ DOMAIN s.groups = Range(s.groupOf)
    /\ DOMAIN s.groupOf = {k[1] : k \in DOMAIN s.versions}
    /\ \A g \in DOMAIN s.groups : \E k \in DOMAIN s.versions :
          /\ k = <<g, s.groups[g].title>> /\ s.versions[k].first = s.groups[g].first
          /\ \A j \in DOMAIN s.versions \ {k} :
                j[1] = g => TextBefore(s.versions[k].first, s.versions[j].first)

\* ... and every observation of a delivered snapshot is in one of the indexes.
Accounted(s) ==
    /\ DOMAIN s.links \cup s.exclusions = Observations(s.facts, DOMAIN s.facts)
    /\ DOMAIN s.links \cap s.exclusions = {}
    /\ \A k \in DOMAIN s.versions :
          s.versions[k].first = At(s.facts, s.versions[k].observation)

Accepts(s, batch, asOf) ==
    /\ Chronological(s, batch, asOf)
    /\ Unrevised(s, batch)
    /\ Fitting(Normalized(s, batch))
    /\ Accounted(Normalized(s, batch))

-----------------------------------------------------------------------------
(* hydrate: the facts are replayed in plans as long as may be.             *)

Plans(facts) ==
    [k \in 1 .. (Len(facts) + MaxPlan - 1) \div MaxPlan |->
        SubSeq(facts, (k - 1) * MaxPlan + 1,
               IF k * MaxPlan < Len(facts) THEN k * MaxPlan ELSE Len(facts))]

\* As late as the last fact, or as the last minute was due.
ReplayedAt(s, plan) ==
    LET last == plan[Len(plan)].terminal
        due  == Due(Len(s.facts) + Len(plan))
    IN  IF last < due THEN due ELSE last

\* The state the facts replay to; none if a plan is refused.
Replay(facts) ==
    LET plans == Plans(facts)
        after[k \in 0..Len(plans)] ==
            IF k = 0 THEN {Empty}
            ELSE {Normalized(s, plans[k]) :
                     s \in {t \in after[k - 1] : Accepts(t, plans[k], ReplayedAt(t, plans[k]))}}
    IN  after[Len(plans)]

-----------------------------------------------------------------------------
\* The clock, the archive and both states.
TypeOK ==
    /\ clock \in 0..MaxClock
    /\ Cardinality(archive) <= MaxSnapshots
    /\ \A s \in {norm, published} :
          Len(s.facts) <= Minutes /\ Fitting(s) /\ Accounted(s)

Init ==
    /\ clock = 0
    /\ archive = {}
    /\ norm = Empty
    /\ published = Empty

\* ingest_snapshot of a minute that has passed: the receipt of the first time
\* these bytes came is kept.
Ingest(m, lines, state) ==
    /\ clock >= (m - 1) * Length
    /\ Cardinality(archive) < MaxSnapshots
    /\ \A r \in archive : r.minute = m => r.lines # lines \/ r.state # state
    /\ archive' = archive \cup {[minute |-> m, state |-> state, lines |-> lines,
                                 published |-> clock]}
    /\ UNCHANGED <<clock, norm, published>>

\* The evidence of a gap is validated against the due time; whatever attempts
\* there were, it ends no earlier.
GapTimes(m) == Due(m)..clock

\* What a caller may give for a minute: a delivered snapshot, evidence that
\* none was, or both if the delivered one cannot be parsed.
Facts(m) ==
    LET delivered == {r \in archive : r.minute = m}
        Fact(state, at, end, lines) ==
            [state |-> state, published |-> at, terminal |-> end, lines |-> lines]
    IN  {Fact("complete", r.published, r.published, r.lines) :
            r \in {d \in delivered : d.state = "complete"}}
        \cup {Fact("missing", t, t, <<>>) : t \in GapTimes(m)}
        \cup {Fact("invalid", r.published, t, <<>>) :
                r \in {d \in delivered : d.state = "invalid"}, t \in GapTimes(m)}

\* normalize of the next plan, as of now: all of it or nothing.
Normalize(length) ==
    LET next == Len(norm.facts)
    IN  /\ next + length <= Minutes
        /\ \E batch \in {b \in [1..length -> UNION {Facts(next + k) : k \in 1..length}] :
                            \A k \in 1..length : b[k] \in Facts(next + k)} :
              /\ Accepts(norm, batch, clock)
              /\ norm' = Normalized(norm, batch)
        /\ UNCHANGED <<clock, archive, published>>

\* publish_state: one publication, all or nothing (ContentStore).
PublishState ==
    /\ published' = norm
    /\ UNCHANGED <<clock, archive, norm>>

\* A process that died begins with the state last published.
Hydrate ==
    /\ norm # published
    /\ Replay(published.facts) = {published}
    /\ norm' = published
    /\ UNCHANGED <<clock, archive, published>>

Tick ==
    /\ clock < MaxClock
    /\ clock' = clock + 1
    /\ UNCHANGED <<archive, norm, published>>

Next ==
    \/ \E m \in 1..Minutes : \/ \E lines \in Responses : Ingest(m, lines, "complete")
                             \/ Ingest(m, <<>>, "invalid")
    \/ \E length \in 1..MaxPlan : Normalize(length)
    \/ PublishState
    \/ Hydrate
    \/ Tick

Spec == Init /\ [][Next]_vars

-----------------------------------------------------------------------------
\* The times of delivered snapshots are in one order as instants and as texts:
\* no two fall into one second of which the first has no fraction.
TextsInOrder(facts) ==
    \A m, n \in DOMAIN facts :
        m < n /\ facts[m].state = "complete" /\ facts[n].state = "complete"
            => TextBefore(facts[m].terminal, facts[n].terminal)

\* A state of accepted plans, however they were cut and wherever the process
\* restarted, is the state its facts replay to, so that what is published can be
\* hydrated: provided the texts of the sightings sort as their instants do.
ReplayInOrder == TextsInOrder(norm.facts) => Replay(norm.facts) = {norm}

\* "Partition- and restart-independent canonical state bytes are required only
\* for valid input streams" (docs/phase2-batch-a.md:163), of whatever times: the
\* same without the proviso, which a snapshot at a whole second and one at a
\* fraction of that second refute.
ReplayReproduces == Replay(norm.facts) = {norm}

\* No version has a linked sighting before its first one, in the order the code
\* gives them, and no article is a duplicate of one first seen after it.
FirstSeenIsEarliest ==
    /\ \A o \in DOMAIN norm.links :
          ~TextBefore(At(norm.facts, o), norm.versions[norm.links[o].version].first)
    /\ \A k \in DOMAIN norm.versions : \E j \in DOMAIN norm.versions :
          /\ j[1] = k[1]
          /\ norm.versions[j].first - norm.groups[norm.groupOf[k[1]]].first \in 0..Horizon
=============================================================================
