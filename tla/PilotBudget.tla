---------------------------- MODULE PilotBudget -----------------------------
(***************************************************************************)
(* The durable journal of the pilot budget (sentiment/network_budget.py):  *)
(* a directory with one immutable file per event and a checkpoint that     *)
(* commits to them, under an flock held for a whole session, and the       *)
(* caller's discipline around it (sentiment/network.py, _retrieve): record *)
(* the request, send it, record every chunk, finish.                       *)
(*                                                                         *)
(* Every write is as many steps as a crash can tell apart.  The file       *)
(* system keeps a cached state, which processes see and a process crash    *)
(* leaves alone, and a synced one, which is all a host crash guarantees.   *)
(* A SHA-256 head is the chain of events it commits to.                    *)
(***************************************************************************)
EXTENDS BudgetEvents

CONSTANTS
    Procs,
    NoProc,
    MaxEvents       \* _MAXIMUM_EVENTS (100 000)

ASSUME PilotAssumption ==
    /\ NoProc \notin Procs
    /\ MaxEvents \in Nat

VARIABLES
    \* The journal directory.
    dir,            \* "absent", "made" (not fsynced in its parent) or "synced"
    ckpt,           \* checkpoint.json as processes read it
    ckptDisk,       \* checkpoint.json as last fsynced
    files,          \* the event files, in order
    synced,         \* how many of their directory entries are fsynced
    lock,           \* the process that holds the flock on the checkpoint
    \* The processes.
    pc,             \* where each one is
    cur,            \* the event of its current or last call, or None
    head,           \* _head and _count: the chain it believes is on disk
    ledger,         \* _total, _last, _attempts, _pending and _halted
    link,           \* its HTTP exchange: "closed", "intent" or "open"
    \* History, read by the properties only.
    wire,           \* the requests sent, in order
    bytes,          \* the body bytes that crossed the wire
    acked,          \* the longest chain a call has returned for
    faulted         \* a crash or an error hit a creation or an append

journal  == <<dir, ckpt, ckptDisk, files, synced>>
memory   == <<cur, head, ledger, link>>
history  == <<wire, bytes, acked, faulted>>
vars     == <<journal, lock, pc, memory, history>>

NoFile == [state |-> "absent", chain |-> <<>>]
Torn   == [state |-> "torn", chain |-> <<>>]
Whole(chain) == [state |-> "whole", chain |-> chain]

Creating  == {"mkdir", "create_checkpoint", "flock_new"}
Appending == {"reserve", "create", "write", "apply", "overwrite", "complete", "sync"}
Holding   == Appending \cup {"load", "ready", "failed"}
Phase     == {"idle", "flock"} \cup Creating \cup Holding

EventFile == [event: Event, prev: Seq(Event), whole: BOOLEAN]
Checkpoint == [state: {"absent", "torn", "whole"}, chain: Seq(Event)]

\* The journal and its processes are typed; SessionAgrees says what ledger is.
JournalTypeOK ==
    /\ dir \in {"absent", "made", "synced"}
    /\ ckpt \in Checkpoint
    /\ ckptDisk \in Checkpoint
    /\ files \in Seq(EventFile)
    /\ synced \in 0..Len(files)
    /\ lock \in Procs \cup {NoProc}
    /\ pc \in [Procs -> Phase]
    /\ cur \in [Procs -> Event \cup {None}]
    /\ head \in [Procs -> Seq(Event)]
    /\ link \in [Procs -> {"closed", "intent", "open"}]
    /\ wire \in Seq(Request)
    /\ bytes \in Nat
    /\ acked \in Seq(Event)
    /\ faulted \in BOOLEAN

Init ==
    /\ dir = "absent"
    /\ ckpt = NoFile
    /\ ckptDisk = NoFile
    /\ files = <<>>
    /\ synced = 0
    /\ lock = NoProc
    /\ pc = [p \in Procs |-> "idle"]
    /\ cur = [p \in Procs |-> None]
    /\ head = [p \in Procs |-> <<>>]
    /\ ledger = [p \in Procs |-> EmptyLedger]
    /\ link = [p \in Procs |-> "closed"]
    /\ wire = <<>>
    /\ bytes = 0
    /\ acked = <<>>
    /\ faulted = FALSE

Goto(p, phase) == pc' = [pc EXCEPT ![p] = phase]

\* The process leaves locked(), or dies: its descriptors are closed.
Leave(p) ==
    /\ Goto(p, "idle")
    /\ lock' = IF lock = p THEN NoProc ELSE lock
    /\ cur' = [cur EXCEPT ![p] = None]
    /\ head' = [head EXCEPT ![p] = <<>>]
    /\ ledger' = [ledger EXCEPT ![p] = EmptyLedger]
    /\ link' = [link EXCEPT ![p] = "closed"]

-----------------------------------------------------------------------------
\* locked() with create=True: mkdir refuses an existing directory, the parent
\* is fsynced, and the empty checkpoint exists before its flock is taken.
MakeDirectory(p) ==
    /\ pc[p] = "idle"
    /\ dir = "absent"
    /\ dir' = "made"
    /\ Goto(p, "mkdir")
    /\ UNCHANGED <<ckpt, ckptDisk, files, synced, lock, memory, history>>

SyncParent(p) ==
    /\ pc[p] = "mkdir"
    /\ dir' = "synced"
    /\ Goto(p, "create_checkpoint")
    /\ UNCHANGED <<ckpt, ckptDisk, files, synced, lock, memory, history>>

CreateCheckpoint(p) ==
    /\ pc[p] = "create_checkpoint"
    /\ ckpt.state = "absent"
    /\ ckpt' = Torn
    /\ Goto(p, "flock_new")
    /\ UNCHANGED <<dir, ckptDisk, files, synced, lock, memory, history>>

\* locked() without create opens the checkpoint another process made.
OpenCheckpoint(p) ==
    /\ pc[p] = "idle"
    /\ ckpt.state # "absent"
    /\ Goto(p, "flock")
    /\ UNCHANGED <<journal, lock, memory, history>>

\* flock(LOCK_EX | LOCK_NB) on either path; the creator then writes the first
\* checkpoint, the other loads.
Flock(p) ==
    /\ pc[p] \in {"flock", "flock_new"}
    /\ lock = NoProc
    /\ lock' = p
    /\ Goto(p, IF pc[p] = "flock" THEN "load" ELSE "overwrite")
    /\ UNCHANGED <<journal, memory, history>>

FlockBusy(p) ==
    /\ pc[p] \in {"flock", "flock_new"}
    /\ lock # NoProc
    /\ Leave(p)
    /\ faulted' = (faulted \/ pc[p] = "flock_new")
    /\ UNCHANGED <<journal, wire, bytes, acked>>

\* The events the directory holds, and whether _load accepts it: the inventory
\* is the checkpoint's count, the files chain, every event is valid after the
\* ones before it, and the checkpoint equals the one memory would write.
Events == [i \in DOMAIN files |-> files[i].event]

Loadable ==
    /\ ckpt.state = "whole"
    /\ Len(files) = Len(ckpt.chain)
    /\ \A i \in DOMAIN files :
          files[i].whole /\ files[i].prev = SubSeq(Events, 1, i - 1)
    /\ Replayable(Events)
    /\ ckpt.chain = Events

\* Mutant of Load: any loadable journal opens a session.
Load_unusable(p) ==
    /\ pc[p] = "load"
    /\ Loadable
    /\ head' = [head EXCEPT ![p] = Events]
    /\ ledger' = [ledger EXCEPT ![p] = Replay(Events)]
    /\ Goto(p, "ready")
    /\ UNCHANGED <<journal, lock, cur, link, history>>

Load(p) ==
    /\ pc[p] = "load"
    /\ Loadable
    /\ Usable(Replay(Events))
    /\ head' = [head EXCEPT ![p] = Events]
    /\ ledger' = [ledger EXCEPT ![p] = Replay(Events)]
    /\ Goto(p, "ready")
    /\ UNCHANGED <<journal, lock, cur, link, history>>

\* A journal that is not loadable or usable is refused, and any may be: the
\* store as a whole may have reached its cap (assert_storage_capacity).
LoadRefused(p) ==
    /\ pc[p] = "load"
    /\ Leave(p)
    /\ UNCHANGED <<journal, history>>

-----------------------------------------------------------------------------
\* The caller asks for an event to be recorded.
Call(p, e) ==
    /\ cur' = [cur EXCEPT ![p] = e]
    /\ Goto(p, "reserve")
    /\ UNCHANGED <<journal, lock, head, ledger>>

RecordRequest(p) ==
    /\ pc[p] = "ready"
    /\ link[p] = "closed"
    /\ \E e \in Request : Call(p, e)
    /\ UNCHANGED <<link, history>>

\* A chunk has already crossed the wire when it is recorded.
RecordReceived(p) ==
    /\ pc[p] = "ready"
    /\ link[p] = "open"
    /\ \E e \in Received : Call(p, e) /\ bytes' = bytes + e.count
    /\ UNCHANGED <<link, wire, acked, faulted>>

FinishRequest(p) ==
    /\ pc[p] = "ready"
    /\ link[p] = "open"
    /\ Call(p, Finish)
    /\ UNCHANGED <<link, history>>

\* Any exception of the caller, and any failed call, leads to a stop.
RecordStop(p) ==
    /\ pc[p] \in {"ready", "failed"}
    /\ Call(p, Stop)
    /\ link' = [link EXCEPT ![p] = "closed"]
    /\ UNCHANGED history

-----------------------------------------------------------------------------
\* _append.  An invalid event, the event limit and a full store raise before
\* anything is written.
Reserve(p) ==
    /\ pc[p] = "reserve"
    /\ Valid(ledger[p], cur[p])
    /\ Len(head[p]) < MaxEvents
    /\ Goto(p, "create")
    /\ UNCHANGED <<journal, lock, memory, history>>

Refuse(p) ==
    /\ pc[p] = "reserve"
    /\ Goto(p, "failed")
    /\ UNCHANGED <<journal, lock, memory, history>>

\* _write_fsynced_at: O_CREAT | O_EXCL on event-<count>.json, then the data.
CreateEvent(p) ==
    /\ pc[p] = "create"
    /\ Len(head[p]) = Len(files)
    /\ files' = Append(files, [event |-> cur[p], prev |-> head[p], whole |-> FALSE])
    /\ Goto(p, "write")
    /\ UNCHANGED <<dir, ckpt, ckptDisk, synced, lock, memory, history>>

WriteEvent(p) ==
    /\ pc[p] = "write"
    /\ files' = [files EXCEPT ![Len(head[p]) + 1].whole = TRUE]
    /\ Goto(p, "apply")
    /\ UNCHANGED <<dir, ckpt, ckptDisk, synced, lock, memory, history>>

\* Mutant of ApplyEvent: the head does not advance.
ApplyEvent_sameHead(p) ==
    /\ pc[p] = "apply"
    /\ ledger' = [ledger EXCEPT ![p] = Apply(@, cur[p])]
    /\ Goto(p, "overwrite")
    /\ UNCHANGED <<journal, lock, cur, head, link, history>>

ApplyEvent(p) ==
    /\ pc[p] = "apply"
    /\ ledger' = [ledger EXCEPT ![p] = Apply(@, cur[p])]
    /\ head' = [head EXCEPT ![p] = Append(@, cur[p])]
    /\ Goto(p, "overwrite")
    /\ UNCHANGED <<journal, lock, cur, link, history>>

\* _write_checkpoint overwrites the locked inode in place, fsyncs it and then
\* the directory.
OverwriteCheckpoint(p) ==
    /\ pc[p] = "overwrite"
    /\ ckpt' = Torn
    /\ Goto(p, "complete")
    /\ UNCHANGED <<dir, ckptDisk, files, synced, lock, memory, history>>

\* Mutant of CompleteCheckpoint: it commits to the events before the last one.
CompleteCheckpoint_stale(p) ==
    /\ pc[p] = "complete"
    /\ ckpt' = Whole(IF cur[p] = None THEN head[p] ELSE SubSeq(head[p], 1, Len(head[p]) - 1))
    /\ Goto(p, "sync")
    /\ UNCHANGED <<dir, ckptDisk, files, synced, lock, memory, history>>

CompleteCheckpoint(p) ==
    /\ pc[p] = "complete"
    /\ ckpt' = Whole(head[p])
    /\ Goto(p, "sync")
    /\ UNCHANGED <<dir, ckptDisk, files, synced, lock, memory, history>>

\* Mutants of SyncCheckpoint: no fsync of the directory; no look at the cap.
SyncCheckpoint_noDirectory(p) ==
    /\ pc[p] = "sync"
    /\ ckptDisk' = ckpt
    /\ acked' = head[p]
    /\ Goto(p, "ready")
    /\ link' = [link EXCEPT ![p] = IF cur[p] \in Request THEN "intent"
                                   ELSE IF cur[p] \in Received THEN @
                                   ELSE "closed"]
    /\ UNCHANGED <<dir, ckpt, files, synced, lock, cur, head, ledger, wire, bytes, faulted>>

SyncCheckpoint_noCap(p) ==
    /\ pc[p] = "sync"
    /\ ckptDisk' = ckpt
    /\ synced' = Len(files)
    /\ acked' = head[p]
    /\ Goto(p, "ready")
    /\ link' = [link EXCEPT ![p] = IF cur[p] \in Request THEN "intent"
                                   ELSE IF cur[p] \in Received THEN @
                                   ELSE "closed"]
    /\ UNCHANGED <<dir, ckpt, files, lock, cur, head, ledger, wire, bytes, faulted>>

\* The fsyncs, and the return: the creator gets its session, a request may be
\* sent, and record_received raises when the total has passed the cap.
SyncCheckpoint(p) ==
    /\ pc[p] = "sync"
    /\ ckptDisk' = ckpt
    /\ synced' = Len(files)
    /\ acked' = head[p]
    /\ Goto(p, IF /\ cur[p] \in Received
                  /\ ledger[p].total > MaxTotal
               THEN "failed" ELSE "ready")
    /\ link' = [link EXCEPT ![p] = IF cur[p] \in Request THEN "intent"
                                   ELSE IF cur[p] \in Received THEN @
                                   ELSE "closed"]
    /\ UNCHANGED <<dir, ckpt, files, lock, cur, head, ledger, wire, bytes, faulted>>

\* A system call of a creation or of an append raises.  Nothing is undone: a
\* torn event file or checkpoint stays, and memory may be ahead of the disk.
\* A failed creation leaves locked(); a failed append returns to the caller.
Fail(p) ==
    /\ \/ /\ pc[p] \in Creating \cup {"overwrite", "complete", "sync"}
          /\ cur[p] = None
          /\ Leave(p)
       \/ /\ pc[p] \in Appending \ {"reserve"}
          /\ cur[p] # None
          /\ Goto(p, "failed")
          /\ UNCHANGED <<lock, memory>>
    /\ faulted' = TRUE
    /\ UNCHANGED <<journal, wire, bytes, acked>>

-----------------------------------------------------------------------------
\* Mutant of Send: the request leaves while its intent is being written.
Send_early(p) ==
    /\ pc[p] = "create"
    /\ cur[p] \in Request
    /\ wire' = Append(wire, cur[p])
    /\ UNCHANGED <<journal, lock, pc, memory, bytes, acked, faulted>>

\* transport.open, only after record_request has returned.
Send(p) ==
    /\ pc[p] = "ready"
    /\ link[p] = "intent"
    /\ wire' = Append(wire, cur[p])
    /\ link' = [link EXCEPT ![p] = "open"]
    /\ UNCHANGED <<journal, lock, pc, cur, head, ledger, bytes, acked, faulted>>

\* The session ends: between requests, or after a failure whether or not the
\* stop could be recorded.
Release(p) ==
    /\ \/ pc[p] = "ready" /\ link[p] = "closed"
       \/ pc[p] = "failed"
    /\ Leave(p)
    /\ UNCHANGED <<journal, history>>

\* The watchdog's SIGKILL, or any death of the process: the cached files stay.
Kill(p) ==
    /\ pc[p] # "idle"
    /\ Leave(p)
    /\ faulted' = (faulted \/ pc[p] \in Creating \cup Appending)
    /\ UNCHANGED <<journal, wire, bytes, acked>>

\* The host dies: every process with it, and of what was not fsynced any part
\* may be lost.
HostCrash ==
    /\ dir' \in IF dir = "made" THEN {"absent", "synced"} ELSE {dir}
    /\ ckpt' \in IF ckpt = ckptDisk THEN {ckpt} ELSE {ckptDisk, Torn, ckpt}
    /\ ckptDisk' = ckpt'
    /\ \E n \in synced..Len(files) :
          /\ files' = SubSeq(files, 1, n)
          /\ synced' = n
    /\ lock' = NoProc
    /\ pc' = [p \in Procs |-> "idle"]
    /\ cur' = [p \in Procs |-> None]
    /\ head' = [p \in Procs |-> <<>>]
    /\ ledger' = [p \in Procs |-> EmptyLedger]
    /\ link' = [p \in Procs |-> "closed"]
    /\ faulted' = (faulted \/ \E p \in Procs : pc[p] \in Creating \cup Appending)
    /\ UNCHANGED <<wire, bytes, acked>>

-----------------------------------------------------------------------------
Step(p) ==
    \/ MakeDirectory(p) \/ SyncParent(p) \/ CreateCheckpoint(p) \/ OpenCheckpoint(p)
    \/ Flock(p) \/ FlockBusy(p) \/ Load(p) \/ LoadRefused(p)
    \/ RecordRequest(p) \/ RecordReceived(p) \/ FinishRequest(p) \/ RecordStop(p)
    \/ Reserve(p) \/ Refuse(p) \/ CreateEvent(p) \/ WriteEvent(p) \/ ApplyEvent(p)
    \/ OverwriteCheckpoint(p) \/ CompleteCheckpoint(p) \/ SyncCheckpoint(p)
    \/ Fail(p) \/ Send(p) \/ Release(p) \/ Kill(p)

Next == (\E p \in Procs : Step(p)) \/ HostCrash

Spec == Init /\ [][Next]_vars

-----------------------------------------------------------------------------
\* A session that may accept a call has in memory exactly what is on disk: the
\* files chain to its head, the checkpoint commits to them and its counters are
\* their replay.  Two sessions at once, or an append that ran after a failed
\* one, would break it.
SessionAgrees ==
    \A p \in Procs : pc[p] = "ready" =>
        /\ head[p] = Events
        /\ ckpt = Whole(Events)
        /\ ledger[p] = Replay(Events)

\* The flock admits one session: two processes never hold the journal.
OneSession == \A p \in Procs : pc[p] \in Holding => lock = p

\* Write-ahead: a request on the wire has its event file, complete and with an
\* fsynced directory entry, in the journal: no crash can forget that it was sent.
WriteAhead ==
    \A i \in DOMAIN wire : \E j \in 1..synced :
        files[j].whole /\ files[j].event = wire[i]

\* What a call acknowledged survives every crash: it is a prefix of the synced
\* event files, hence of what any later session loads.
AckedSurvives ==
    /\ Len(acked) <= synced
    /\ \A i \in DOMAIN acked : files[i].whole /\ files[i].event = acked[i]

\* The pilot's download, whatever crashes, passes the cap by one chunk at most.
DownloadBounded ==
    \A most \in Chunks : (\A n \in Chunks : n <= most) => bytes <= MaxTotal + most

\* Refusing a journal for what is in it is always the trace of a fault inside a
\* creation or an append: with none, and no creation under way, whoever gets the
\* lock reads a whole one (whether the store as a whole is full is another check).
RefusedOnlyAfterFault ==
    ~faulted /\ (\A p \in Procs : pc[p] \notin Creating) =>
        \A p \in Procs : pc[p] = "load" => Loadable

\* The inductive invariant behind OneSession, WriteAhead and AckedSurvives: a
\* session's head is a prefix of the event files at every step of an append,
\* and the request it may send is its last event and is synced.
Backed(chain) ==
    /\ Len(chain) <= Len(files)
    /\ \A i \in DOMAIN chain : files[i].whole /\ files[i].event = chain[i]

EndsWith(chain, e) == Len(chain) > 0 /\ chain[Len(chain)] = e

AppendInv(p) ==
    /\ Backed(head[p])
    /\ pc[p] \in {"idle", "flock"} \cup Creating => cur[p] = None
    /\ pc[p] \in {"reserve", "create", "write", "apply"} => cur[p] # None
    /\ pc[p] \in {"write", "apply"} =>
          Len(head[p]) < Len(files) /\ files[Len(head[p]) + 1].event = cur[p]
    /\ pc[p] = "apply" => files[Len(head[p]) + 1].whole
    /\ pc[p] \in {"overwrite", "complete", "sync"} /\ cur[p] # None =>
          EndsWith(head[p], cur[p])
    /\ link[p] = "intent" =>
          /\ pc[p] = "ready"
          /\ cur[p] \in Request
          /\ EndsWith(head[p], cur[p])
          /\ Len(head[p]) <= synced

\* It holds with the types and the three properties it carries.
IInv ==
    /\ JournalTypeOK
    /\ OneSession
    /\ \A p \in Procs : AppendInv(p)
    /\ AckedSurvives
    /\ WriteAhead

\* The journal implements the promise of BudgetLedger.
holder == IF lock # NoProc /\ pc[lock] # "load" THEN lock ELSE NoProc

Promise == INSTANCE BudgetLedger WITH
    owner  <- holder,
    acked  <- Replay(acked),
    view   <- IF holder = NoProc THEN Replay(acked) ELSE ledger[holder],
    call   <- IF holder # NoProc /\ pc[holder] \in {"overwrite", "complete", "sync"}
              THEN cur[holder] ELSE None,
    intent <- IF holder # NoProc /\ link[holder] = "intent" THEN cur[holder] ELSE None,
    wire   <- wire

\* Every behaviour of the journal, crashes included, is one of BudgetLedger.
ImplementsLedger == Promise!Spec
=============================================================================
