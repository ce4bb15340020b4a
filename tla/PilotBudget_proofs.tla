------------------------ MODULE PilotBudget_proofs --------------------------
(***************************************************************************)
(* Proofs about the journal of PilotBudget, for any number of processes    *)
(* and of events, any minutes, clock readings and chunks, and crashes of   *)
(* processes and of the host at every step.                                *)
(***************************************************************************)
EXTENDS PilotBudget, SequenceTheorems, WellFoundedInduction, TLAPS

-----------------------------------------------------------------------------
\* The initial state has every part of the invariant.
LEMMA InitInv == Init => IInv
<1> SUFFICES ASSUME Init PROVE IInv
  OBVIOUS
<1>1. JournalTypeOK
  <2>1. NoFile \in Checkpoint
    BY DEF NoFile, Checkpoint
  <2>2. pc \in [Procs -> Phase] /\ cur \in [Procs -> Event \cup {None}]
    BY DEF Init, Phase
  <2>3. head \in [Procs -> Seq(Event)] /\ link \in [Procs -> {"closed", "intent", "open"}]
    BY DEF Init
  <2>4. /\ files \in Seq(EventFile) /\ wire \in Seq(Request) /\ acked \in Seq(Event)
        /\ synced \in 0..Len(files)
    BY DEF Init
  <2>5. QED
    BY <2>1, <2>2, <2>3, <2>4 DEF Init, JournalTypeOK
<1>2. OneSession
  BY DEF Init, OneSession, Holding, Appending
<1>3. ASSUME NEW p \in Procs PROVE AppendInv(p)
  BY DEF Init, AppendInv, Backed
<1>4. AckedSurvives /\ WriteAhead
  BY DEF Init, AckedSurvives, WriteAhead
<1>5. QED
  BY <1>1, <1>2, <1>3, <1>4 DEF IInv

\* The chain that _load rebuilds is a sequence of events as long as the files.
LEMMA EventsType ==
    ASSUME files \in Seq(EventFile)
    PROVE  /\ Events \in Seq(Event)
           /\ Len(Events) = Len(files)
           /\ \A i \in DOMAIN files : Events[i] = files[i].event
<1>1. /\ DOMAIN files = 1..Len(files) /\ Len(files) \in Nat
      /\ \A i \in 1..Len(files) : files[i].event \in Event
  <2>1. \A f \in EventFile : f.event \in Event
    BY DEF EventFile
  <2>2. QED
    BY <2>1
<1>2. Events = [i \in 1..Len(files) |-> files[i].event]
  BY <1>1 DEF Events
<1>3. Events \in Seq(Event) /\ Len(Events) = Len(files)
  BY <1>1, <1>2, SeqDef
<1>4. QED
  BY <1>1, <1>2, <1>3

\* Completing an event file changes nothing but its whole flag.
LEMMA WholeFile ==
    ASSUME NEW f \in Seq(EventFile), NEW n \in 1..Len(f)
    PROVE  LET g == [f EXCEPT ![n].whole = TRUE]
           IN  /\ g \in Seq(EventFile)
               /\ Len(g) = Len(f)
               /\ \A i \in 1..Len(f) : g[i].event = f[i].event
               /\ \A i \in 1..Len(f) : f[i].whole => g[i].whole
               /\ g[n].whole
<1> DEFINE r == [f[n] EXCEPT !.whole = TRUE]
           g == [f EXCEPT ![n] = r]
<1>1. f[n] \in EventFile
  OBVIOUS
<1>2. r \in EventFile /\ r.event = f[n].event /\ r.whole
  BY <1>1 DEF EventFile
<1>3. /\ g \in Seq(EventFile) /\ Len(g) = Len(f)
      /\ g[n] = r /\ \A i \in 1..Len(f) \ {n} : g[i] = f[i]
  <2> HIDE DEF r
  <2>1. QED
    BY <1>2, ExceptSeq
<1>4. g = [f EXCEPT ![n].whole = TRUE]
  OBVIOUS
<1>5. QED
  BY <1>2, <1>3, <1>4

\* Every step keeps the types of the journal and of the sessions.
LEMMA TypeStep == IInv /\ [Next]_vars => JournalTypeOK'
<1> SUFFICES ASSUME IInv, [Next]_vars PROVE JournalTypeOK'
  OBVIOUS
<1>a. JournalTypeOK /\ \A p \in Procs : AppendInv(p)
  BY DEF IInv
<1> USE DEF JournalTypeOK, journal, memory, history, Goto
<1>0. /\ {"idle", "flock", "load", "ready", "failed"} \subseteq Phase
      /\ Creating \subseteq Phase /\ Appending \subseteq Phase
  BY DEF Phase, Creating, Holding, Appending
<1>1. ASSUME NEW p \in Procs, MakeDirectory(p) PROVE JournalTypeOK'
  BY <1>a, <1>0, <1>1 DEF MakeDirectory, Creating
<1>2. ASSUME NEW p \in Procs, SyncParent(p) PROVE JournalTypeOK'
  BY <1>a, <1>0, <1>2 DEF SyncParent, Creating
<1>3. ASSUME NEW p \in Procs, CreateCheckpoint(p) PROVE JournalTypeOK'
  <2>1. Torn \in Checkpoint
    BY DEF Torn, Checkpoint
  <2>2. QED
    BY <1>a, <1>0, <1>3, <2>1 DEF CreateCheckpoint, Creating
<1>4. ASSUME NEW p \in Procs, OpenCheckpoint(p) PROVE JournalTypeOK'
  BY <1>a, <1>0, <1>4 DEF OpenCheckpoint
<1>5. ASSUME NEW p \in Procs, Flock(p) PROVE JournalTypeOK'
  BY <1>a, <1>0, <1>5 DEF Flock, Appending
<1>6. ASSUME NEW p \in Procs, FlockBusy(p) PROVE JournalTypeOK'
  BY <1>a, <1>0, <1>6 DEF FlockBusy, Leave
<1>7. ASSUME NEW p \in Procs, Load(p) PROVE JournalTypeOK'
  BY <1>a, <1>0, <1>7, EventsType DEF Load
<1>8. ASSUME NEW p \in Procs, LoadRefused(p) PROVE JournalTypeOK'
  BY <1>a, <1>0, <1>8 DEF LoadRefused, Leave
<1>9. ASSUME NEW p \in Procs, RecordRequest(p) PROVE JournalTypeOK'
  BY <1>a, <1>0, <1>9 DEF RecordRequest, Call, Event, Appending
<1>10. ASSUME NEW p \in Procs, RecordReceived(p) PROVE JournalTypeOK'
  <2>1. PICK e \in Received : Call(p, e) /\ bytes' = bytes + e.count
    BY <1>10 DEF RecordReceived
  <2>2. e.count \in Nat
    BY BudgetAssumption DEF Received
  <2>3. QED
    BY <1>a, <1>0, <1>10, <2>1, <2>2 DEF RecordReceived, Call, Event, Appending
<1>11. ASSUME NEW p \in Procs, FinishRequest(p) PROVE JournalTypeOK'
  BY <1>a, <1>0, <1>11 DEF FinishRequest, Call, Event, Appending
<1>12. ASSUME NEW p \in Procs, RecordStop(p) PROVE JournalTypeOK'
  BY <1>a, <1>0, <1>12 DEF RecordStop, Call, Event, Appending
<1>13. ASSUME NEW p \in Procs, Reserve(p) PROVE JournalTypeOK'
  BY <1>a, <1>0, <1>13 DEF Reserve, Appending
<1>14. ASSUME NEW p \in Procs, Refuse(p) PROVE JournalTypeOK'
  BY <1>a, <1>0, <1>14 DEF Refuse
<1>15. ASSUME NEW p \in Procs, CreateEvent(p), cur[p] # None PROVE JournalTypeOK'
  <2>1. [event |-> cur[p], prev |-> head[p], whole |-> FALSE] \in EventFile
    BY <1>a, <1>15 DEF EventFile
  <2>2. QED
    BY <1>a, <1>0, <1>15, <2>1 DEF CreateEvent, Appending
<1>16. ASSUME NEW p \in Procs, WriteEvent(p) PROVE JournalTypeOK'
  <2>1. Len(head[p]) + 1 \in 1..Len(files)
    BY <1>a, <1>16 DEF WriteEvent, AppendInv
  <2>2. files' \in Seq(EventFile) /\ Len(files') = Len(files)
    BY <1>a, <1>16, <2>1, WholeFile DEF WriteEvent
  <2>3. QED
    BY <1>a, <1>0, <1>16, <2>2 DEF WriteEvent, Appending
<1>17. ASSUME NEW p \in Procs, ApplyEvent(p), cur[p] # None PROVE JournalTypeOK'
  BY <1>a, <1>0, <1>17 DEF ApplyEvent, Appending
<1>18. ASSUME NEW p \in Procs, OverwriteCheckpoint(p) PROVE JournalTypeOK'
  BY <1>a, <1>0, <1>18 DEF OverwriteCheckpoint, Torn, Checkpoint, Appending
<1>19. ASSUME NEW p \in Procs, CompleteCheckpoint(p) PROVE JournalTypeOK'
  BY <1>a, <1>0, <1>19 DEF CompleteCheckpoint, Whole, Checkpoint, Appending
<1>20. ASSUME NEW p \in Procs, SyncCheckpoint(p) PROVE JournalTypeOK'
  BY <1>a, <1>0, <1>20 DEF SyncCheckpoint
<1>21. ASSUME NEW p \in Procs, Fail(p) PROVE JournalTypeOK'
  <2>1. CASE Leave(p)
    BY <1>a, <1>0, <1>21, <2>1 DEF Fail, Leave
  <2>2. CASE Goto(p, "failed") /\ UNCHANGED <<lock, memory>>
    BY <1>a, <1>0, <1>21, <2>2 DEF Fail
  <2>3. QED
    BY <1>21, <2>1, <2>2 DEF Fail
<1>22. ASSUME NEW p \in Procs, Send(p), cur[p] \in Request PROVE JournalTypeOK'
  BY <1>a, <1>0, <1>22 DEF Send
<1>23. ASSUME NEW p \in Procs, Release(p) PROVE JournalTypeOK'
  BY <1>a, <1>0, <1>23 DEF Release, Leave
<1>24. ASSUME NEW p \in Procs, Kill(p) PROVE JournalTypeOK'
  BY <1>a, <1>0, <1>24 DEF Kill, Leave
<1>25. CASE HostCrash
  <2>1. ckpt' \in Checkpoint /\ ckptDisk' \in Checkpoint
    <3>1. Torn \in Checkpoint
      BY DEF Torn, Checkpoint
    <3>2. QED
      BY <1>a, <1>25, <3>1 DEF HostCrash
  <2>2. files' \in Seq(EventFile) /\ synced' \in 0..Len(files')
    <3>1. PICK n \in synced..Len(files) : files' = SubSeq(files, 1, n) /\ synced' = n
      BY <1>25 DEF HostCrash
    <3>2. QED
      BY <1>a, <3>1
  <2>3. dir' \in {"absent", "made", "synced"} /\ faulted' \in BOOLEAN
    BY <1>a, <1>25 DEF HostCrash
  <2>4. QED
    BY <1>a, <1>0, <1>25, <2>1, <2>2, <2>3 DEF HostCrash
<1>26. CASE UNCHANGED vars
  BY <1>a, <1>26 DEF vars
<1>27. \A p \in Procs :
         /\ pc[p] \in {"create", "apply"} => cur[p] # None
         /\ link[p] = "intent" => cur[p] \in Request
  BY <1>a DEF AppendInv
<1>28. QED
  BY <1>1, <1>2, <1>3, <1>4, <1>5, <1>6, <1>7, <1>8, <1>9, <1>10, <1>11, <1>12,
     <1>13, <1>14, <1>15, <1>16, <1>17, <1>18, <1>19, <1>20, <1>21, <1>22,
     <1>23, <1>24, <1>25, <1>26, <1>27
     DEF Next, Step, CreateEvent, ApplyEvent, Send

-----------------------------------------------------------------------------
\* While processes run, the journal only grows: no step of theirs removes an
\* event file, changes its event or forgets that it is complete or synced.
Grows ==
    /\ Len(files') >= Len(files)
    /\ \A i \in 1..Len(files) :
          files'[i].event = files[i].event /\ (files[i].whole => files'[i].whole)
    /\ synced' >= synced

LEMMA StepGrows ==
    ASSUME IInv, NEW p \in Procs, Step(p)
    PROVE  Grows
<1> USE DEF journal, memory, history
<1>1. JournalTypeOK /\ AppendInv(p)
  BY DEF IInv
<1>2. CASE UNCHANGED <<files, synced>>
  BY <1>1, <1>2 DEF Grows, JournalTypeOK
<1>3. CASE CreateEvent(p)
  BY <1>1, <1>3 DEF Grows, CreateEvent, JournalTypeOK
<1>4. CASE WriteEvent(p)
  <2>1. Len(head[p]) + 1 \in 1..Len(files)
    BY <1>1, <1>4 DEF WriteEvent, AppendInv, JournalTypeOK
  <2>2. QED
    BY <1>1, <1>4, <2>1, WholeFile DEF Grows, WriteEvent, JournalTypeOK
<1>5. CASE SyncCheckpoint(p)
  BY <1>1, <1>5 DEF Grows, SyncCheckpoint, JournalTypeOK
<1>6. QED
  BY <1>2, <1>3, <1>4, <1>5
     DEF Step, MakeDirectory, SyncParent, CreateCheckpoint, OpenCheckpoint, Flock,
         FlockBusy, Load, LoadRefused, RecordRequest, RecordReceived, FinishRequest,
         RecordStop, Call, Reserve, Refuse, ApplyEvent, OverwriteCheckpoint,
         CompleteCheckpoint, Fail, Send, Release, Kill, Leave

\* A process that does not move keeps its part of the invariant.
LEMMA OthersKeep ==
    ASSUME JournalTypeOK, JournalTypeOK', Grows, NEW q \in Procs, AppendInv(q),
           pc'[q] = pc[q], cur'[q] = cur[q], head'[q] = head[q], link'[q] = link[q]
    PROVE  AppendInv(q)'
<1>1. /\ DOMAIN head[q] = 1..Len(head[q]) /\ Len(head[q]) \in Nat
      /\ Len(files) \in Nat /\ Len(files') \in Nat
      /\ synced \in Nat /\ synced' \in Nat
  BY DEF JournalTypeOK
<1>2. Backed(head[q])'
  <2>1. /\ Len(head[q]) <= Len(files)
        /\ \A i \in 1..Len(head[q]) : files[i].whole /\ files[i].event = head[q][i]
    BY <1>1 DEF AppendInv, Backed
  <2>2. \A i \in 1..Len(head[q]) : i \in 1..Len(files)
    BY <1>1, <2>1
  <2>3. /\ Len(head[q]) <= Len(files')
        /\ \A i \in 1..Len(head[q]) : files'[i].whole /\ files'[i].event = head[q][i]
    BY <1>1, <2>1, <2>2 DEF Grows
  <2>4. QED
    BY <1>1, <2>3 DEF Backed
<1>3. Len(head[q]) < Len(files) => Len(head[q]) + 1 \in 1..Len(files)
  BY <1>1
<1>4. QED
  BY <1>1, <1>2, <1>3 DEF AppendInv, Grows, EndsWith

\* A process that leaves, or is not in a session, has nothing to keep.
LEMMA IdleInv ==
    ASSUME NEW q \in Procs, files' \in Seq(EventFile), head'[q] = <<>>, cur'[q] = None,
           link'[q] = "closed", pc'[q] = "idle"
    PROVE  AppendInv(q)'
BY DEF AppendInv, Backed

\* The stepping process keeps its part of the invariant, whatever it does.
LEMMA StepperKeeps ==
    ASSUME IInv, JournalTypeOK', NEW p \in Procs, Step(p)
    PROVE  AppendInv(p)'
<1> USE DEF journal, memory, history, Goto, Creating
<1>a. JournalTypeOK /\ AppendInv(p)
  BY DEF IInv
<1>b. files \in Seq(EventFile) /\ files' \in Seq(EventFile)
  BY <1>a DEF JournalTypeOK
<1>1. CASE Leave(p)
  <2>1. /\ head'[p] = <<>> /\ cur'[p] = None
        /\ link'[p] = "closed" /\ pc'[p] = "idle"
    BY <1>a, <1>1 DEF Leave, JournalTypeOK
  <2>2. QED
    BY <1>b, <2>1 DEF AppendInv, Backed
<1>2. CASE MakeDirectory(p) \/ SyncParent(p) \/ CreateCheckpoint(p)
           \/ OpenCheckpoint(p) \/ Flock(p)
  <2>1. /\ pc[p] \in {"idle", "flock"} \cup Creating
        /\ UNCHANGED <<files, synced, memory>>
        /\ pc'[p] \in {"flock", "load", "overwrite"} \cup Creating
    BY <1>a, <1>2 DEF JournalTypeOK, Creating, MakeDirectory, SyncParent,
       CreateCheckpoint, OpenCheckpoint, Flock
  <2>2. cur[p] = None /\ link[p] # "intent" /\ Backed(head[p])
    BY <1>a, <2>1 DEF AppendInv, Creating
  <2>3. QED
    BY <2>1, <2>2 DEF AppendInv, Backed, Creating
<1>3. CASE Load(p)
  <2>1. Backed(Events)
    BY <1>b, <1>3, EventsType DEF Load, Loadable, Backed
  <2>2. QED
    BY <1>a, <1>3, <2>1 DEF AppendInv, Backed, EndsWith, JournalTypeOK, Load
<1>4. CASE RecordRequest(p) \/ RecordReceived(p) \/ FinishRequest(p) \/ RecordStop(p)
  <2>1. \E e \in Event : Call(p, e)
    BY <1>4 DEF RecordRequest, RecordReceived, FinishRequest, RecordStop, Event
  <2>2. link'[p] # "intent"
    BY <1>a, <1>4 DEF RecordRequest, RecordReceived, FinishRequest, RecordStop,
       AppendInv, JournalTypeOK
  <2>3. QED
    BY <1>a, <2>1, <2>2, NoneAssumption DEF Call, AppendInv, Backed, JournalTypeOK
<1>5. CASE Reserve(p) \/ Refuse(p)
  BY <1>a, <1>5 DEF Reserve, Refuse, AppendInv, Backed, EndsWith, JournalTypeOK
<1>6. CASE CreateEvent(p)
  BY <1>a, <1>b, <1>6 DEF CreateEvent, AppendInv, Backed, EndsWith, JournalTypeOK
<1>7. CASE WriteEvent(p)
  <2>1. Len(head[p]) + 1 \in 1..Len(files)
    BY <1>a, <1>7 DEF WriteEvent, AppendInv, JournalTypeOK
  <2>2. QED
    BY <1>a, <1>b, <1>7, <2>1, WholeFile
       DEF WriteEvent, AppendInv, Backed, EndsWith, JournalTypeOK
<1>8. CASE ApplyEvent(p)
  BY <1>a, <1>b, <1>8 DEF ApplyEvent, AppendInv, Backed, EndsWith, JournalTypeOK
<1>9. CASE OverwriteCheckpoint(p) \/ CompleteCheckpoint(p)
  BY <1>a, <1>9 DEF OverwriteCheckpoint, CompleteCheckpoint, AppendInv, Backed,
     EndsWith, JournalTypeOK
<1>10. CASE SyncCheckpoint(p)
  BY <1>a, <1>b, <1>10, NoneAssumption
     DEF SyncCheckpoint, AppendInv, Backed, EndsWith, JournalTypeOK, Event, Request, Received
<1>11. CASE Goto(p, "failed") /\ UNCHANGED <<files, lock, memory>> /\ pc[p] # "ready"
  BY <1>a, <1>11 DEF AppendInv, Backed, EndsWith, JournalTypeOK
<1>12. CASE Send(p)
  BY <1>a, <1>12 DEF Send, AppendInv, Backed, EndsWith, JournalTypeOK
<1>13. QED
  BY <1>1, <1>2, <1>3, <1>4, <1>5, <1>6, <1>7, <1>8, <1>9, <1>10, <1>11, <1>12
     DEF Step, Fail, FlockBusy, LoadRefused, Release, Kill, Appending

\* A host crash leaves no session, and every synced event file.
LEMMA CrashKeeps ==
    ASSUME IInv, JournalTypeOK', HostCrash
    PROVE  IInv'
<1>a. JournalTypeOK
  BY DEF IInv
<1>1. PICK n \in synced..Len(files) : files' = SubSeq(files, 1, n) /\ synced' = n
  BY DEF HostCrash
<1>2. /\ synced \in Nat /\ n \in Nat /\ synced <= n /\ Len(files') = n
      /\ \A i \in 1..n : files'[i] = files[i]
  BY <1>a, <1>1 DEF JournalTypeOK
<1>3. OneSession'
  BY DEF HostCrash, OneSession, Holding, Appending
<1>4. ASSUME NEW p \in Procs PROVE AppendInv(p)'
  <2>1. /\ head'[p] = <<>> /\ cur'[p] = None
        /\ link'[p] = "closed" /\ pc'[p] = "idle"
    BY DEF HostCrash
  <2>2. QED
    BY <2>1, IdleInv DEF JournalTypeOK
<1>5. AckedSurvives'
  <2>1. DOMAIN acked = 1..Len(acked) /\ Len(acked) \in Nat /\ acked' = acked
    BY <1>a DEF JournalTypeOK, HostCrash
  <2>2. Len(acked) <= synced /\ \A i \in DOMAIN acked :
            files[i].whole /\ files[i].event = acked[i]
    BY DEF IInv, AckedSurvives
  <2>3. QED
    BY <1>1, <1>2, <2>1, <2>2 DEF AckedSurvives
<1>6. WriteAhead'
  <2>1. SUFFICES ASSUME NEW i \in DOMAIN wire
                 PROVE  \E j \in 1..synced' : files'[j].whole /\ files'[j].event = wire[i]
    BY DEF HostCrash, WriteAhead
  <2>2. PICK j \in 1..synced : files[j].whole /\ files[j].event = wire[i]
    BY DEF IInv, WriteAhead
  <2>3. QED
    BY <1>1, <1>2, <2>2
<1>7. QED
  BY <1>3, <1>4, <1>5, <1>6 DEF IInv

-----------------------------------------------------------------------------
\* A step of a process keeps the flock exclusive.
LEMMA SessionStep ==
    ASSUME IInv, NEW p \in Procs, Step(p)
    PROVE  OneSession'
<1> USE DEF journal, memory, history, Goto, Holding, Appending, Creating
<1>a. /\ pc \in [Procs -> Phase] /\ lock \in Procs \cup {NoProc}
      /\ \A q \in Procs : pc[q] \in Holding => lock = q
  BY DEF IInv, JournalTypeOK, OneSession
<1>1. CASE Leave(p)
  BY <1>a, <1>1 DEF Leave, OneSession
<1>2. CASE Flock(p)
  BY <1>a, <1>2, PilotAssumption DEF Flock, OneSession
<1>3. CASE /\ UNCHANGED lock
           /\ \E phase \in Phase : Goto(p, phase)
           /\ pc[p] \in Holding \/ pc'[p] \notin Holding
  BY <1>a, <1>3 DEF OneSession
<1>4. CASE UNCHANGED <<lock, pc>>
  BY <1>a, <1>4 DEF OneSession
<1>5. QED
  BY <1>a, <1>1, <1>2, <1>3, <1>4
     DEF Step, Phase, MakeDirectory, SyncParent, CreateCheckpoint, OpenCheckpoint,
         FlockBusy, Load, LoadRefused, RecordRequest, RecordReceived, FinishRequest,
         RecordStop, Call, Reserve, Refuse, CreateEvent, WriteEvent, ApplyEvent,
         OverwriteCheckpoint, CompleteCheckpoint, SyncCheckpoint, Fail, Send,
         Release, Kill

\* A step of a process keeps everything acknowledged in the synced files.
LEMMA AckedStep ==
    ASSUME IInv, JournalTypeOK', NEW p \in Procs, Step(p)
    PROVE  AckedSurvives'
<1> USE DEF journal, memory, history
<1>a. JournalTypeOK /\ AppendInv(p) /\ AckedSurvives /\ Grows
  BY StepGrows DEF IInv
<1>1. CASE UNCHANGED acked
  <2>1. /\ DOMAIN acked = 1..Len(acked) /\ Len(acked) \in Nat
        /\ synced \in Nat /\ synced' \in Nat
        /\ synced <= Len(files) /\ Len(files) \in Nat
    BY <1>a DEF JournalTypeOK
  <2>2. \A i \in DOMAIN acked : i \in 1..Len(files)
    BY <1>a, <2>1 DEF AckedSurvives
  <2>3. QED
    BY <1>1, <1>a, <2>1, <2>2 DEF AckedSurvives, Grows
<1>2. CASE SyncCheckpoint(p)
  <2>1. head[p] \in Seq(Event) /\ Backed(head[p])
    BY <1>a DEF JournalTypeOK, AppendInv
  <2>2. acked' = head[p] /\ files' = files /\ synced' = Len(files)
    BY <1>2 DEF SyncCheckpoint
  <2>3. QED
    BY <2>1, <2>2 DEF Backed, AckedSurvives
<1>3. QED
  BY <1>1, <1>2
     DEF Step, MakeDirectory, SyncParent, CreateCheckpoint, OpenCheckpoint, Flock,
         FlockBusy, Load, LoadRefused, RecordRequest, RecordReceived, FinishRequest,
         RecordStop, Call, Reserve, Refuse, CreateEvent, WriteEvent, ApplyEvent,
         OverwriteCheckpoint, CompleteCheckpoint, Fail, Send, Release, Kill

\* A step of a process keeps every request on the wire in the synced files: the
\* one Send puts there is the last event of a synced head.
LEMMA WireStep ==
    ASSUME IInv, JournalTypeOK', NEW p \in Procs, Step(p)
    PROVE  WriteAhead'
<1> USE DEF journal, memory, history
<1>a. JournalTypeOK /\ AppendInv(p) /\ WriteAhead /\ Grows
  BY StepGrows DEF IInv
<1>b. /\ synced \in Nat /\ synced' \in Nat /\ synced <= synced'
      /\ \A j \in 1..synced : j \in 1..Len(files) /\ j \in 1..synced'
  BY <1>a DEF JournalTypeOK, Grows
<1>1. CASE UNCHANGED wire
  <2>1. SUFFICES ASSUME NEW i \in DOMAIN wire
                 PROVE  \E j \in 1..synced' : files'[j].whole /\ files'[j].event = wire[i]
    BY <1>1 DEF WriteAhead
  <2>2. PICK j \in 1..synced : files[j].whole /\ files[j].event = wire[i]
    BY <1>a DEF WriteAhead
  <2>3. QED
    BY <1>a, <1>b, <2>2 DEF Grows
<1>2. CASE Send(p)
  <2>1. /\ wire' = Append(wire, cur[p]) /\ files' = files /\ synced' = synced
        /\ link[p] = "intent"
    BY <1>2 DEF Send
  <2>2. /\ EndsWith(head[p], cur[p]) /\ Len(head[p]) <= synced
        /\ Backed(head[p]) /\ head[p] \in Seq(Event) /\ wire \in Seq(Request)
    BY <1>a, <2>1 DEF AppendInv, JournalTypeOK
  <2>3. /\ Len(head[p]) \in 1..synced
        /\ files[Len(head[p])].whole /\ files[Len(head[p])].event = cur[p]
    BY <1>b, <2>2 DEF Backed, EndsWith
  <2>4. SUFFICES ASSUME NEW i \in DOMAIN wire'
                 PROVE  \E j \in 1..synced : files[j].whole /\ files[j].event = wire'[i]
    BY <2>1 DEF WriteAhead
  <2>5. CASE i \in DOMAIN wire
    BY <1>a, <2>1, <2>2, <2>5 DEF WriteAhead
  <2>6. CASE i = Len(wire) + 1
    BY <2>1, <2>2, <2>3, <2>6
  <2>7. QED
    BY <2>1, <2>2, <2>5, <2>6
<1>3. QED
  BY <1>1, <1>2
     DEF Step, MakeDirectory, SyncParent, CreateCheckpoint, OpenCheckpoint, Flock,
         FlockBusy, Load, LoadRefused, RecordRequest, RecordReceived, FinishRequest,
         RecordStop, Call, Reserve, Refuse, CreateEvent, WriteEvent, ApplyEvent,
         OverwriteCheckpoint, CompleteCheckpoint, SyncCheckpoint, Fail, Release, Kill

\* No step of a process touches the memory of another.
LEMMA StepLocal ==
    ASSUME JournalTypeOK, NEW p \in Procs, Step(p), NEW q \in Procs, q # p
    PROVE  pc'[q] = pc[q] /\ cur'[q] = cur[q] /\ head'[q] = head[q] /\ link'[q] = link[q]
<1> USE DEF journal, memory, history, Goto, JournalTypeOK
<1>1. CASE Leave(p)
  BY <1>1 DEF Leave
<1>2. CASE ~Leave(p)
  BY <1>2
     DEF Step, MakeDirectory, SyncParent, CreateCheckpoint, OpenCheckpoint, Flock,
         FlockBusy, Load, LoadRefused, RecordRequest, RecordReceived, FinishRequest,
         RecordStop, Call, Reserve, Refuse, CreateEvent, WriteEvent, ApplyEvent,
         OverwriteCheckpoint, CompleteCheckpoint, SyncCheckpoint, Fail, Send,
         Release, Kill
<1>3. QED
  BY <1>1, <1>2

-----------------------------------------------------------------------------
\* The inductive invariant of the journal holds in every reachable state.
THEOREM JournalInvariant == Spec => []IInv
<1>1. IInv /\ [Next]_vars => IInv'
  <2> SUFFICES ASSUME IInv, [Next]_vars PROVE IInv'
    OBVIOUS
  <2>1. JournalTypeOK'
    BY TypeStep
  <2>2. ASSUME NEW p \in Procs, Step(p) PROVE IInv'
    <3>1. ASSUME NEW q \in Procs PROVE AppendInv(q)'
      <4>1. CASE q = p
        BY <2>1, <2>2, <4>1, StepperKeeps
      <4>2. CASE q # p
        <5>1. JournalTypeOK /\ AppendInv(q) /\ Grows
          BY <2>2, StepGrows DEF IInv
        <5>2. QED
          BY <2>1, <2>2, <4>2, <5>1, StepLocal, OthersKeep
      <4>3. QED
        BY <4>1, <4>2
    <3>2. OneSession' /\ AckedSurvives' /\ WriteAhead'
      BY <2>1, <2>2, SessionStep, AckedStep, WireStep
    <3>3. QED
      BY <2>1, <3>1, <3>2 DEF IInv
  <2>3. CASE HostCrash
    BY <2>1, <2>3, CrashKeeps
  <2>4. CASE UNCHANGED vars
    BY <2>1, <2>4 DEF vars, journal, memory, history, IInv, OneSession, AppendInv,
       Backed, EndsWith, AckedSurvives, WriteAhead
  <2>5. QED
    BY <2>2, <2>3, <2>4 DEF Next
<1>2. QED
  BY <1>1, InitInv, PTL DEF Spec

\* Two sessions never hold the journal at once (the flock taken by locked()).
THEOREM OneSessionAtATime == Spec => []OneSession
<1>1. IInv => OneSession
  BY DEF IInv
<1>2. QED
  BY <1>1, JournalInvariant, PTL

\* No request reaches the wire before its event file is complete and synced, so
\* no crash of a process or of the host can forget it (record_request).
THEOREM RequestsWrittenAhead == Spec => []WriteAhead
<1>1. IInv => WriteAhead
  BY DEF IInv
<1>2. QED
  BY <1>1, JournalInvariant, PTL

\* Every event a call has returned for stays in the synced files for ever.
THEOREM AcknowledgedIsDurable == Spec => []AckedSurvives
<1>1. IInv => AckedSurvives
  BY DEF IInv
<1>2. QED
  BY <1>1, JournalInvariant, PTL

-----------------------------------------------------------------------------
\* Induction over the naturals, for a set instead of a predicate: what is not in
\* it has no least element.
Below == {pair \in Nat \X Nat : pair[1] < pair[2]}

LEMMA SetInduction ==
    ASSUME NEW S, 0 \in S, \A n \in Nat : n \in S => n + 1 \in S
    PROVE  \A n \in Nat : n \in S
<1> SUFFICES ASSUME NEW m \in Nat, m \notin S PROVE FALSE
  OBVIOUS
<1> DEFINE T == {n \in Nat : n \notin S}
<1>1. T \subseteq Nat /\ T # {}
  OBVIOUS
<1>2. IsWellFoundedOn(Below, Nat)
  BY NatLessThanWellFounded DEF OpToRel, Below
<1>3. PICK x \in T : \A y \in T : ~(<<y, x>> \in Below)
  <2> HIDE DEF T
  <2> QED
    BY <1>1, <1>2, WFMin
<1>4. x \in Nat /\ x # 0 /\ x - 1 \in Nat /\ (x - 1) + 1 = x
  BY <1>3
<1>5. x - 1 \in T /\ <<x - 1, x>> \in Below
  BY <1>3, <1>4 DEF Below
<1> QED
  BY <1>3, <1>5

-----------------------------------------------------------------------------
(* The replay of a journal. *)

\* An event moves the counters of its kind, within their types.
LEMMA ApplyType ==
    ASSUME NEW l \in Ledger, NEW e \in Event
    PROVE  /\ Apply(l, e) \in Ledger
           /\ Apply(l, e).total = IF e \in Received THEN l.total + e.count ELSE l.total
           /\ Apply(l, e).pending = (e \in Request \/ (l.pending /\ e # Finish))
           /\ Apply(l, e).halted = (l.halted \/ e = Stop)
<1>1. CASE e \in Request
  <2>1. /\ e.kind = "request" /\ e.minute \in Minutes /\ e.at \in Times
        /\ e.attempt \in 0..MaxAttempts
        /\ e \notin Received /\ e # Finish /\ e # Stop
    BY <1>1, BudgetAssumption DEF Request, Received, Finish, Stop
  <2> DEFINE counted == [l.attempts EXCEPT ![e.minute] = e.attempt]
  <2>2. Apply(l, e) = [l EXCEPT !.last = e.at, !.attempts = counted, !.pending = TRUE]
    BY <2>1 DEF Apply
  <2>3. counted \in [Minutes -> 0..MaxAttempts]
    BY <2>1 DEF Ledger
  <2> HIDE DEF counted
  <2> QED
    BY <1>1, <2>1, <2>2, <2>3 DEF Ledger
<1>2. CASE e \in Received
  <2>1. e.count \in Nat /\ e.kind = "received"
    BY <1>2, BudgetAssumption DEF Received
  <2>2. Apply(l, e) = [l EXCEPT !.total = @ + e.count]
    BY <2>1 DEF Apply
  <2> QED
    BY <1>2, <2>1, <2>2 DEF Request, Received, Finish, Stop, Ledger
<1>3. CASE e = Finish
  BY <1>3 DEF Request, Received, Finish, Stop, Ledger, Apply
<1>4. CASE e = Stop
  BY <1>4 DEF Request, Received, Finish, Stop, Ledger, Apply
<1> QED
  BY <1>1, <1>2, <1>3, <1>4 DEF Event

\* What the recursion asks of a function of the prefixes of a journal.
Follows(g, chain, n) ==
    g = [i \in 0..n |-> IF i = 0 THEN EmptyLedger ELSE Apply(g[i - 1], chain[i])]

\* There is such a function, so Ledgers is one.
LEMMA LedgersFollow ==
    ASSUME NEW chain \in Seq(Event)
    PROVE  Follows(Ledgers(chain), chain, Len(chain))
<1> DEFINE Lengths == {n \in Nat : \E g : Follows(g, chain, n)}
<1>1. 0 \in Lengths
  <2>1. Follows([i \in 0..0 |-> EmptyLedger], chain, 0)
    BY DEF Follows
  <2> QED
    BY <2>1
<1>2. ASSUME NEW n \in Nat, n \in Lengths PROVE n + 1 \in Lengths
  <2>1. PICK g : Follows(g, chain, n)
    BY <1>2
  <2> DEFINE h == [i \in 0..(n + 1) |-> IF i <= n THEN g[i] ELSE Apply(g[n], chain[n + 1])]
  <2>2. \A i \in 0..n : h[i] = g[i]
    OBVIOUS
  <2>3. h[n + 1] = Apply(g[n], chain[n + 1])
    OBVIOUS
  <2>4. ASSUME NEW i \in 0..(n + 1)
        PROVE  h[i] = IF i = 0 THEN EmptyLedger ELSE Apply(h[i - 1], chain[i])
    <3>1. CASE i = n + 1
      <4>1. (n + 1) - 1 = n /\ n \in 0..n
        OBVIOUS
      <4> HIDE DEF h
      <4> QED
        BY <2>2, <2>3, <3>1, <4>1
    <3>2. CASE i \in 0..n
      <4>1. i # 0 => i - 1 \in 0..n
        BY <3>2
      <4>2. g[i] = IF i = 0 THEN EmptyLedger ELSE Apply(g[i - 1], chain[i])
        BY <2>1, <3>2 DEF Follows
      <4> HIDE DEF h
      <4> QED
        BY <2>2, <3>2, <4>1, <4>2
    <3> QED
      BY <3>1, <3>2
  <2>5. h = [i \in 0..(n + 1) |-> h[i]]
    OBVIOUS
  <2>6. Follows(h, chain, n + 1)
    <3> HIDE DEF h
    <3> QED
      BY <2>4, <2>5 DEF Follows
  <2> QED
    BY <2>6
<1>3. Len(chain) \in Lengths
  <2> HIDE DEF Lengths
  <2> QED
    BY <1>1, <1>2, SetInduction
<1>4. \E g : Follows(g, chain, Len(chain))
  BY <1>3
<1> QED
  BY <1>4 DEF Follows, Ledgers

\* The ledgers of two journals are the same as far as the journals are.
LEMMA LedgersOfPrefix ==
    ASSUME NEW c \in Seq(Event), NEW d \in Seq(Event), NEW n \in Nat,
           n <= Len(c), n <= Len(d), \A i \in 1..n : c[i] = d[i]
    PROVE  \A k \in 0..n : Ledgers(c)[k] = Ledgers(d)[k]
<1> DEFINE Same == {k \in Nat : k <= n => Ledgers(c)[k] = Ledgers(d)[k]}
<1>1. /\ Follows(Ledgers(c), c, Len(c)) /\ Follows(Ledgers(d), d, Len(d))
      /\ Len(c) \in Nat /\ Len(d) \in Nat
  BY LedgersFollow
<1>2. 0 \in Same
  BY <1>1 DEF Follows
<1>3. ASSUME NEW k \in Nat, k \in Same PROVE k + 1 \in Same
  <2>1. SUFFICES ASSUME k + 1 <= n PROVE Ledgers(c)[k + 1] = Ledgers(d)[k + 1]
    OBVIOUS
  <2>2. /\ Ledgers(c)[k] = Ledgers(d)[k] /\ c[k + 1] = d[k + 1]
        /\ k + 1 \in 0..Len(c) /\ k + 1 \in 0..Len(d) /\ k + 1 # 0 /\ (k + 1) - 1 = k
    BY <1>1, <1>3, <2>1
  <2>3. /\ Ledgers(c)[k + 1] = Apply(Ledgers(c)[(k + 1) - 1], c[k + 1])
        /\ Ledgers(d)[k + 1] = Apply(Ledgers(d)[(k + 1) - 1], d[k + 1])
    BY <1>1, <2>2 DEF Follows
  <2> QED
    BY <2>2, <2>3
<1>4. \A k \in Nat : k \in Same
  <2> HIDE DEF Same
  <2> QED
    BY <1>2, <1>3, SetInduction
<1> QED
  BY <1>4

\* Every prefix of a journal replays to a ledger.
LEMMA LedgersType ==
    ASSUME NEW chain \in Seq(Event)
    PROVE  /\ \A k \in 0..Len(chain) : Ledgers(chain)[k] \in Ledger
           /\ Replay(chain) \in Ledger
           /\ Ledgers(chain)[0] = EmptyLedger
<1> DEFINE Typed == {k \in Nat : k <= Len(chain) => Ledgers(chain)[k] \in Ledger}
<1>1. Follows(Ledgers(chain), chain, Len(chain)) /\ Len(chain) \in Nat
  BY LedgersFollow
<1>2. EmptyLedger \in Ledger
  BY BudgetAssumption DEF EmptyLedger, Ledger
<1>3. Ledgers(chain)[0] = EmptyLedger
  BY <1>1 DEF Follows
<1>4. 0 \in Typed
  BY <1>2, <1>3
<1>5. ASSUME NEW k \in Nat, k \in Typed PROVE k + 1 \in Typed
  <2>1. SUFFICES ASSUME k + 1 <= Len(chain) PROVE Ledgers(chain)[k + 1] \in Ledger
    OBVIOUS
  <2>2. /\ Ledgers(chain)[k] \in Ledger /\ chain[k + 1] \in Event
        /\ k + 1 \in 0..Len(chain) /\ k + 1 # 0 /\ (k + 1) - 1 = k
    BY <1>1, <1>5, <2>1
  <2>3. Ledgers(chain)[k + 1] = Apply(Ledgers(chain)[(k + 1) - 1], chain[k + 1])
    BY <1>1, <2>2 DEF Follows
  <2> QED
    BY <2>2, <2>3, ApplyType
<1>6. \A k \in Nat : k \in Typed
  <2> HIDE DEF Typed
  <2> QED
    BY <1>4, <1>5, SetInduction
<1> QED
  BY <1>1, <1>3, <1>6 DEF Replay

\* One event more is applied to the replay of those before it.
LEMMA ReplayAppend ==
    ASSUME NEW chain \in Seq(Event), NEW e \in Event
    PROVE  /\ Append(chain, e) \in Seq(Event) /\ Len(Append(chain, e)) = Len(chain) + 1
           /\ Replay(Append(chain, e)) = Apply(Replay(chain), e)
           /\ \A k \in 0..Len(chain) : Ledgers(Append(chain, e))[k] = Ledgers(chain)[k]
           /\ Replayable(chain) /\ Valid(Replay(chain), e) => Replayable(Append(chain, e))
<1> DEFINE n == Len(chain)
           d == Append(chain, e)
<1>1. /\ d \in Seq(Event) /\ Len(d) = n + 1 /\ n \in Nat
      /\ \A i \in 1..n : d[i] = chain[i]
      /\ d[n + 1] = e
      /\ DOMAIN chain = 1..n /\ DOMAIN d = 1..(n + 1)
  OBVIOUS
<1> HIDE DEF d
<1>2. \A k \in 0..n : Ledgers(d)[k] = Ledgers(chain)[k]
  BY <1>1, LedgersOfPrefix
<1>3. Ledgers(d)[n + 1] = Apply(Ledgers(d)[n], d[n + 1])
  <2>1. Follows(Ledgers(d), d, n + 1)
    BY <1>1, LedgersFollow
  <2>2. n + 1 \in 0..(n + 1) /\ n + 1 # 0 /\ (n + 1) - 1 = n
    BY <1>1
  <2>3. Ledgers(d)[n + 1] = Apply(Ledgers(d)[(n + 1) - 1], d[n + 1])
    BY <2>1, <2>2 DEF Follows
  <2> QED
    BY <2>2, <2>3
<1>4. Replay(d) = Apply(Replay(chain), e)
  BY <1>1, <1>2, <1>3 DEF Replay
<1>5. ASSUME Replayable(chain), Valid(Replay(chain), e) PROVE Replayable(d)
  <2>1. ASSUME NEW i \in 1..(n + 1) PROVE Valid(Ledgers(d)[i - 1], d[i])
    <3>1. i - 1 \in 0..n
      BY <1>1
    <3>2. CASE i \in 1..n
      BY <1>1, <1>2, <1>5, <3>1, <3>2 DEF Replayable
    <3>3. CASE i = n + 1
      <4>1. (n + 1) - 1 = n
        BY <1>1
      <4> QED
        BY <1>1, <1>2, <1>5, <3>1, <3>3, <4>1 DEF Replay
    <3> QED
      BY <1>1, <3>2, <3>3
  <2> QED
    BY <1>1, <2>1 DEF Replayable
<1> QED
  BY <1>1, <1>2, <1>4, <1>5 DEF d
-----------------------------------------------------------------------------
(* What the sessions have counted, and what they leave to the next one. *)

\* A session past its load or its creation, and the phases of its append.
Working(p) == pc[p] \in Holding \ {"load"}
Making     == {"create", "write", "apply"}
Advanced   == {"overwrite", "complete", "sync"}
Founding(p) == pc[p] \in Creating \/ (pc[p] \in Advanced /\ cur[p] = None)

\* The ledger after the first k event files.
After(k) == Ledgers(Events)[k]

\* A ledger has counted every byte that crossed the wire, or no session will
\* ever use it.
Counted(l) == bytes = l.total \/ l.pending

\* The event files chain and replay, the last one complete or not.  What a crash
\* leaves of those no call returned for is one event a session may start from,
\* or more that none may.
FilesInv ==
    /\ Replayable(Events)
    /\ \A i \in DOMAIN files :
          /\ files[i].prev = SubSeq(Events, 1, i - 1)
          /\ i < Len(files) => files[i].whole
    /\ \A k \in Len(acked)..Len(files) : Counted(After(k))
    /\ \A k \in (Len(acked) + 2)..Len(files) : ~Usable(After(k))

\* One process creates the journal, and nobody works while it does.
FoundingInv ==
    /\ dir # "synced" => ckpt = NoFile /\ ckptDisk = NoFile /\ files = <<>>
    /\ dir = "absent" => \A p \in Procs : pc[p] = "idle"
    /\ dir = "made" => \A p \in Procs : pc[p] \in {"idle", "mkdir"}
    /\ \A p \in Procs : Founding(p) =>
          /\ files = <<>>
          /\ pc[p] = "mkdir" => dir = "made"
          /\ pc[p] \in Creating => ckpt.state # "whole"
          /\ \A q \in Procs \ {p} : ~Founding(q) /\ ~Working(q)

\* How memory, checkpoint and event files stand to each other in each phase.
MemoryInv(p) ==
    /\ lock = p => pc[p] \in Holding
    /\ ledger[p] = Replay(head[p])
    /\ ~Working(p) => link[p] = "closed" /\ head[p] = <<>>
    /\ Working(p) => Len(head[p]) >= Len(acked)
    /\ pc[p] \in {"ready"} \cup Advanced => head[p] = Events
    /\ pc[p] \in {"ready", "sync"} => ckpt = Whole(head[p])
    /\ pc[p] \in {"write", "apply"} => Len(files) = Len(head[p]) + 1
    /\ pc[p] \in Making => Valid(ledger[p], cur[p])

\* The bytes of the exchange, in memory and on their way into it.
BytesInv(p) ==
    /\ Working(p) => Counted(ledger[p])
    /\ pc[p] \in {"reserve"} \cup Making /\ cur[p] \in Received \cup {Finish} =>
          /\ acked = head[p]
          /\ bytes = ledger[p].total + (IF cur[p] = Finish THEN 0 ELSE cur[p].count)
    /\ pc[p] \in Advanced /\ cur[p] \in Request \cup Received \cup {Finish} =>
          /\ bytes = ledger[p].total
          /\ cur[p] # Finish => ledger[p].pending
          /\ cur[p] \in Request => bytes <= MaxTotal
    /\ pc[p] = "ready" /\ link[p] # "closed" =>
          acked = head[p] /\ ledger[p].pending /\ bytes = ledger[p].total /\ bytes <= MaxTotal

\* Without a fault the disk is what the next session needs.
Clean ==
    /\ ckpt = Whole(Events) /\ ckptDisk = ckpt
    /\ synced = Len(files)
    /\ \A i \in DOMAIN files : files[i].whole

CleanInv ==
    ~faulted /\ (\A p \in Procs : pc[p] \notin Creating \cup {"write", "apply"} \cup Advanced)
        => dir = "absent" \/ Clean

LedgerInv ==
    /\ ledger \in [Procs -> Ledger]
    /\ FilesInv /\ FoundingInv /\ CleanInv
    /\ \A p \in Procs : MemoryInv(p) /\ BytesInv(p)

LEMMA LedgerInit == Init => LedgerInv
<1> SUFFICES ASSUME Init PROVE LedgerInv
  OBVIOUS
<1>1. /\ files = <<>> /\ acked = <<>> /\ bytes = 0 /\ dir = "absent" /\ lock = NoProc
      /\ ckpt = NoFile /\ ckptDisk = NoFile
      /\ \A p \in Procs : /\ pc[p] = "idle" /\ cur[p] = None /\ head[p] = <<>>
                          /\ ledger[p] = EmptyLedger /\ link[p] = "closed"
  BY DEF Init
<1>2. Events = <<>>
  BY <1>1 DEF Events
<1>3. <<>> \in Seq(Event) /\ Len(<<>>) = 0
  OBVIOUS
<1>4. Replay(<<>>) = EmptyLedger /\ Ledgers(<<>>)[0] = EmptyLedger
  BY <1>3, LedgersType DEF Replay
<1>5. FilesInv
  <2>1. Replayable(Events)
    BY <1>2 DEF Replayable
  <2>2. Counted(After(0))
    BY <1>1, <1>2, <1>4 DEF After, Counted, EmptyLedger
  <2> QED
    BY <1>1, <1>2, <2>1, <2>2 DEF FilesInv
<1>6. FoundingInv /\ CleanInv
  BY <1>1 DEF FoundingInv, CleanInv, Founding, Creating, Advanced
<1>7. ASSUME NEW p \in Procs PROVE MemoryInv(p) /\ BytesInv(p)
  BY <1>1, <1>4, PilotAssumption
     DEF MemoryInv, BytesInv, Working, Holding, Appending, Making, Advanced
<1>8. ledger \in [Procs -> Ledger]
  BY <1>3, <1>4, LedgersType DEF Init
<1> QED
  BY <1>5, <1>6, <1>7, <1>8 DEF LedgerInv

\* A chain that is backed by all files is the chain the files hold.
LEMMA BackedByAll ==
    ASSUME files \in Seq(EventFile), NEW chain \in Seq(Event), Backed(chain),
           Len(chain) = Len(files)
    PROVE  Events = chain /\ \A i \in DOMAIN files : files[i].whole
<1>1. /\ Events \in Seq(Event) /\ Len(Events) = Len(files)
      /\ \A i \in DOMAIN files : Events[i] = files[i].event
  BY EventsType
<1>2. DOMAIN files = 1..Len(files) /\ DOMAIN chain = 1..Len(files)
      /\ Len(files) \in Nat
  OBVIOUS
<1>3. \A i \in 1..Len(files) : files[i].whole /\ files[i].event = chain[i]
  BY <1>2 DEF Backed
<1>4. \A i \in 1..Len(files) : Events[i] = chain[i]
  BY <1>1, <1>2, <1>3
<1>5. Len(Events) = Len(chain) /\ \A i \in 1..Len(Events) : Events[i] = chain[i]
  BY <1>1, <1>4
<1> QED
  BY <1>1, <1>2, <1>3, <1>5, SeqEqual

\* The files a call returned for hold the acknowledged chain.
LEMMA AckedIsPrefix ==
    ASSUME IInv
    PROVE  /\ Len(acked) \in 0..Len(files) /\ Len(acked) <= synced
           /\ Replay(acked) = After(Len(acked))
           /\ Len(files) = Len(acked) => Events = acked
<1>1. /\ files \in Seq(EventFile) /\ acked \in Seq(Event) /\ synced \in 0..Len(files)
      /\ Len(acked) \in Nat /\ Len(files) \in Nat /\ DOMAIN acked = 1..Len(acked)
      /\ DOMAIN files = 1..Len(files)
  BY DEF IInv, JournalTypeOK
<1>2. Len(acked) <= synced /\ \A i \in 1..Len(acked) : files[i].whole /\ files[i].event = acked[i]
  BY <1>1 DEF IInv, AckedSurvives
<1>3. /\ Events \in Seq(Event) /\ Len(Events) = Len(files)
      /\ \A i \in DOMAIN files : Events[i] = files[i].event
  BY <1>1, EventsType
<1>4. Len(acked) \in 0..Len(files) /\ \A i \in 1..Len(acked) : acked[i] = Events[i]
  BY <1>1, <1>2, <1>3
<1>5. Ledgers(acked)[Len(acked)] = Ledgers(Events)[Len(acked)]
  BY <1>1, <1>3, <1>4, LedgersOfPrefix
<1>6. ASSUME Len(files) = Len(acked) PROVE Events = acked
  BY <1>1, <1>2, <1>6, BackedByAll DEF Backed
<1> QED
  BY <1>2, <1>4, <1>5, <1>6 DEF Replay, After
\* An event file that is added adds its event.
LEMMA EventsAppend ==
    ASSUME files \in Seq(EventFile), NEW f \in EventFile, files' = Append(files, f)
    PROVE  Events' = Append(Events, f.event) /\ Len(files') = Len(files) + 1
<1>1. /\ Events \in Seq(Event) /\ Len(Events) = Len(files)
      /\ \A i \in DOMAIN files : Events[i] = files[i].event
  BY EventsType
<1>2. /\ files' \in Seq(EventFile) /\ Len(files') = Len(files) + 1 /\ Len(files) \in Nat
      /\ files'[Len(files) + 1] = f /\ \A i \in 1..Len(files) : files'[i] = files[i]
      /\ DOMAIN files = 1..Len(files) /\ DOMAIN files' = 1..(Len(files) + 1)
  OBVIOUS
<1>3. f.event \in Event
  BY DEF EventFile
<1> DEFINE d == Append(Events, f.event)
<1>4. /\ d \in Seq(Event) /\ Len(d) = Len(files) + 1 /\ d[Len(files) + 1] = f.event
      /\ \A i \in 1..Len(files) : d[i] = Events[i]
  BY <1>1, <1>3
<1> HIDE DEF d
<1>5. Events' \in Seq(Event) /\ Len(Events') = Len(files) + 1
      /\ \A i \in 1..(Len(files) + 1) : Events'[i] = files'[i].event
  <2>1. Events' = [i \in 1..(Len(files) + 1) |-> files'[i].event]
    BY <1>2 DEF Events
  <2>2. \A i \in 1..(Len(files) + 1) : files'[i] \in EventFile
    BY <1>2
  <2>3. \A i \in 1..(Len(files) + 1) : files'[i].event \in Event
    BY <2>2 DEF EventFile
  <2> QED
    BY <1>2, <2>1, <2>3, SeqDef
<1>6. \A i \in 1..(Len(files) + 1) : Events'[i] = d[i]
  <2> SUFFICES ASSUME NEW i \in 1..(Len(files) + 1) PROVE Events'[i] = d[i]
    OBVIOUS
  <2>1. CASE i = Len(files) + 1
    BY <1>2, <1>4, <1>5, <2>1
  <2>2. CASE i \in 1..Len(files)
    BY <1>1, <1>2, <1>4, <1>5, <2>2
  <2> QED
    BY <1>2, <2>1, <2>2
<1>7. Events' = d
  BY <1>4, <1>5, <1>6, SeqEqual
<1> QED
  BY <1>2, <1>7 DEF d

\* An appended event leaves a ledger that has counted every byte, and one that
\* no session may use unless it was the first since the last call returned.
LEMMA AppendedLedger ==
    ASSUME IInv, NEW p \in Procs, MemoryInv(p), BytesInv(p), pc[p] \in Making,
           ledger[p] \in Ledger, cur[p] \in Event, head[p] \in Seq(Event)
    PROVE  /\ Counted(Apply(ledger[p], cur[p]))
           /\ Len(head[p]) > Len(acked) => ~Usable(Apply(ledger[p], cur[p]))
<1> DEFINE l == ledger[p]
           e == cur[p]
           m == Apply(l, e)
<1>1. /\ m.total = IF e \in Received THEN l.total + e.count ELSE l.total
      /\ m.pending = (e \in Request \/ (l.pending /\ e # Finish))
      /\ m.halted = (l.halted \/ e = Stop)
  BY ApplyType
<1>2. Valid(l, e) /\ Counted(l)
  BY DEF MemoryInv, BytesInv, Working, Making, Holding, Appending
<1>3. e \in Received \cup {Finish} =>
         acked = head[p] /\ bytes = l.total + (IF e = Finish THEN 0 ELSE e.count)
  BY DEF BytesInv
<1>4. l.total \in Int /\ Len(head[p]) \in Int
  BY DEF Ledger
<1> HIDE DEF m
<1>5. CASE e \in Request
  <2>1. ~l.pending /\ e \notin Received
    BY <1>2, <1>5 DEF Valid, ValidRequest, Request, Received
  <2> QED
    BY <1>1, <1>2, <1>5, <2>1 DEF Counted, Usable, m
<1>6. CASE e \in Received
  <2>1. e # Finish
    BY <1>6 DEF Received, Finish
  <2> QED
    BY <1>1, <1>3, <1>4, <1>6, <2>1 DEF Counted, m
<1>7. CASE e = Finish
  <2>1. e \notin Received
    BY <1>7 DEF Received, Finish
  <2> QED
    BY <1>1, <1>3, <1>4, <1>7, <2>1 DEF Counted, m
<1>8. CASE e = Stop
  <2>1. e \notin Received /\ e # Finish
    BY <1>8 DEF Received, Finish, Stop
  <2> QED
    BY <1>1, <1>2, <1>8, <2>1 DEF Counted, Usable, m
<1> QED
  BY <1>5, <1>6, <1>7, <1>8 DEF Event

\* No step of a process breaks the chain of the event files.
LEMMA FilesStep ==
    ASSUME IInv, LedgerInv, NEW p \in Procs, Step(p)
    PROVE  FilesInv'
<1> USE DEF journal, memory, history, Goto, Making, Advanced
<1>a. /\ FilesInv /\ MemoryInv(p) /\ BytesInv(p) /\ AppendInv(p) /\ JournalTypeOK
  BY DEF LedgerInv, IInv
<1>b. /\ files \in Seq(EventFile) /\ Len(files) \in Nat /\ head[p] \in Seq(Event)
      /\ DOMAIN files = 1..Len(files)
      /\ Events \in Seq(Event) /\ Len(Events) = Len(files)
      /\ Len(acked) \in 0..Len(files)
      /\ \A i \in DOMAIN files : Events[i] = files[i].event
  BY <1>a, EventsType, AckedIsPrefix DEF JournalTypeOK
<1>c. After(Len(files)) = Replay(Events)
  BY <1>b DEF After, Replay
<1>1. CASE UNCHANGED <<files, acked, bytes>>
  BY <1>a, <1>1 DEF FilesInv, After, Counted, Events
<1>2. CASE CreateEvent(p)
  <2>1. /\ pc[p] = "create" /\ cur[p] \in Event /\ Len(head[p]) = Len(files)
        /\ acked' = acked /\ bytes' = bytes
    BY <1>a, <1>2 DEF CreateEvent, AppendInv, JournalTypeOK
  <2>2. Events = head[p] /\ \A i \in DOMAIN files : files[i].whole
    BY <1>a, <1>b, <2>1, BackedByAll DEF AppendInv
  <2> DEFINE f == [event |-> cur[p], prev |-> head[p], whole |-> FALSE]
  <2>3. f \in EventFile /\ f.event = cur[p] /\ f.prev = Events /\ files' = Append(files, f)
    BY <1>b, <1>2, <2>1, <2>2 DEF EventFile, CreateEvent
  <2> HIDE DEF f
  <2>4. Events' = Append(Events, cur[p]) /\ Len(files') = Len(files) + 1
    BY <1>b, <2>3, EventsAppend
  <2>5. ledger[p] = Replay(Events) /\ Valid(Replay(Events), cur[p]) /\ Replay(Events) \in Ledger
    BY <1>a, <1>b, <2>1, <2>2, LedgersType DEF MemoryInv
  <2>6. /\ Replayable(Events')
        /\ Replay(Events') = Apply(Replay(Events), cur[p])
        /\ \A k \in 0..Len(files) : After(k)' = After(k)
        /\ Events' \in Seq(Event) /\ Len(Events') = Len(files) + 1
    BY <1>a, <1>b, <2>1, <2>4, <2>5, ReplayAppend DEF FilesInv, After
  <2>7. Ledgers(Events')[Len(files) + 1] = Apply(ledger[p], cur[p])
    BY <2>5, <2>6 DEF Replay
  <2>8. ASSUME NEW i \in DOMAIN files'
        PROVE  files'[i].prev = SubSeq(Events', 1, i - 1) /\ (i < Len(files') => files'[i].whole)
    <3>1. i \in 1..(Len(files) + 1)
      BY <1>b, <2>3, <2>4
    <3>2. CASE i = Len(files) + 1
      <4>1. files'[i] = f /\ SubSeq(Append(Events, cur[p]), 1, Len(Events)) = Events
        BY <1>b, <2>1, <2>3, <3>2
      <4>2. i - 1 = Len(Events) /\ ~(i < Len(files'))
        BY <1>b, <2>4, <3>2
      <4> QED
        BY <2>3, <2>4, <4>1, <4>2
    <3>3. CASE i \in 1..Len(files)
      <4>1. files'[i] = files[i] /\ files[i].prev = SubSeq(Events, 1, i - 1) /\ files[i].whole
        BY <1>a, <1>b, <2>2, <2>3, <3>3 DEF FilesInv
      <4>2. SubSeq(Append(Events, cur[p]), 1, i - 1) = SubSeq(Events, 1, i - 1)
        BY <1>b, <2>1, <3>3
      <4> QED
        BY <2>4, <4>1, <4>2
    <3> QED
      BY <1>b, <3>1, <3>2, <3>3
  <2>9. /\ Counted(Apply(ledger[p], cur[p]))
        /\ Len(files) > Len(acked) => ~Usable(Apply(ledger[p], cur[p]))
    BY <1>a, <1>b, <2>1, <2>5, AppendedLedger
  <2>10. ASSUME NEW k \in Len(acked)..(Len(files) + 1) PROVE Counted(After(k))'
    <3>1. CASE k = Len(files) + 1
      BY <2>1, <2>7, <2>9, <3>1 DEF Counted, After
    <3>2. CASE k \in Len(acked)..Len(files)
      <4>1. k \in 0..Len(files)
        BY <1>b, <3>2
      <4> QED
        BY <1>a, <2>1, <2>6, <3>2, <4>1 DEF Counted, FilesInv
    <3> QED
      BY <1>b, <3>1, <3>2
  <2>11. ASSUME NEW k \in (Len(acked) + 2)..(Len(files) + 1) PROVE ~Usable(After(k)')
    <3>1. CASE k = Len(files) + 1
      BY <1>b, <2>7, <2>9, <3>1 DEF After
    <3>2. CASE k \in (Len(acked) + 2)..Len(files)
      <4>1. k \in 0..Len(files)
        BY <1>b, <3>2
      <4> QED
        BY <1>a, <2>6, <3>2, <4>1 DEF FilesInv
    <3> QED
      BY <1>b, <3>1, <3>2
  <2> QED
    BY <2>1, <2>4, <2>6, <2>8, <2>10, <2>11 DEF FilesInv
<1>3. CASE WriteEvent(p)
  <2>0. MemoryInv(p) /\ pc[p] = "write" /\ Len(head[p]) \in Nat
    BY <1>a, <1>b, <1>3 DEF WriteEvent
  <2>1. Len(head[p]) + 1 \in 1..Len(files)
    <3>1. Len(files) = Len(head[p]) + 1
      BY <2>0 DEF MemoryInv
    <3> QED
      BY <1>b, <2>0, <3>1
  <2>2. /\ files' \in Seq(EventFile) /\ Len(files') = Len(files)
        /\ \A i \in 1..Len(files) : files'[i].event = files[i].event
        /\ \A i \in 1..Len(files) : files[i].whole => files'[i].whole
        /\ DOMAIN files' = 1..Len(files)
    BY <1>b, <1>3, <2>1, WholeFile DEF WriteEvent
  <2>3. \A i \in 1..Len(files) : files'[i].prev = files[i].prev
    BY <1>b, <1>3, <2>1 DEF WriteEvent, EventFile
  <2>4. Events' = Events
    BY <1>b, <2>2 DEF Events
  <2>5. UNCHANGED <<acked, bytes>>
    BY <1>3 DEF WriteEvent
  <2> QED
    BY <1>a, <1>b, <2>2, <2>3, <2>4, <2>5 DEF FilesInv, After, Counted
<1>4. CASE SyncCheckpoint(p)
  <2>1. /\ head[p] = Events /\ ledger[p] = Replay(Events) /\ Counted(ledger[p])
        /\ acked' = head[p] /\ files' = files /\ bytes' = bytes
    BY <1>a, <1>4 DEF SyncCheckpoint, MemoryInv, BytesInv, Working, Holding, Appending
  <2>2. Len(acked') = Len(files) /\ Events' = Events
    BY <1>b, <2>1 DEF Events
  <2>3. \A k \in Len(files)..Len(files) : Counted(After(k))'
    BY <1>b, <1>c, <2>1, <2>2 DEF Counted, After
  <2>4. \A k \in (Len(files) + 2)..Len(files) : FALSE
    BY <1>b
  <2> QED
    BY <1>a, <1>b, <2>1, <2>2, <2>3, <2>4 DEF FilesInv
<1>5. CASE RecordReceived(p)
  <2>1. /\ acked = head[p] /\ head[p] = Events /\ ledger[p] = Replay(Events) /\ ledger[p].pending
        /\ files' = files /\ acked' = acked
    BY <1>a, <1>5 DEF RecordReceived, Call, MemoryInv, BytesInv
  <2>2. Events' = Events /\ Len(acked) = Len(files)
    BY <1>b, <2>1 DEF Events
  <2>3. \A k \in Len(files)..Len(files) : Counted(After(k))'
    BY <1>b, <1>c, <2>1, <2>2 DEF Counted, After
  <2>4. \A k \in (Len(files) + 2)..Len(files) : FALSE
    BY <1>b
  <2> QED
    BY <1>a, <1>b, <2>1, <2>2, <2>3, <2>4 DEF FilesInv
<1> QED
  BY <1>1, <1>2, <1>3, <1>4, <1>5
     DEF Step, MakeDirectory, SyncParent, CreateCheckpoint, OpenCheckpoint, Flock,
         FlockBusy, Load, LoadRefused, RecordRequest, FinishRequest, RecordStop, Call,
         Reserve, Refuse, ApplyEvent, OverwriteCheckpoint, CompleteCheckpoint, Fail,
         Send, Release, Kill, Leave
\* What a step of p leaves of another process, and of the journal it holds.
LEMMA OthersStand ==
    ASSUME IInv, LedgerInv, NEW p \in Procs, Step(p), NEW q \in Procs, q # p
    PROVE  /\ pc'[q] = pc[q] /\ cur'[q] = cur[q] /\ head'[q] = head[q]
           /\ link'[q] = link[q] /\ ledger'[q] = ledger[q]
           /\ lock' = q => lock = q
           /\ Working(q) => UNCHANGED <<files, ckpt, acked, bytes>>
<1> USE DEF journal, memory, history, Goto
<1>a. /\ JournalTypeOK /\ lock \in Procs \cup {NoProc} /\ OneSession
      /\ ledger \in [Procs -> Ledger]
  BY DEF IInv, JournalTypeOK, LedgerInv
<1>1. pc'[q] = pc[q] /\ cur'[q] = cur[q] /\ head'[q] = head[q] /\ link'[q] = link[q]
  BY <1>a, StepLocal
<1>2. ledger'[q] = ledger[q] /\ (lock' = q => lock = q)
  BY <1>a, PilotAssumption
     DEF Step, MakeDirectory, SyncParent, CreateCheckpoint, OpenCheckpoint, Flock,
         FlockBusy, Load, LoadRefused, RecordRequest, RecordReceived, FinishRequest,
         RecordStop, Call, Reserve, Refuse, CreateEvent, WriteEvent, ApplyEvent,
         OverwriteCheckpoint, CompleteCheckpoint, SyncCheckpoint, Fail, Send,
         Release, Kill, Leave
<1>3. ASSUME Working(q) PROVE UNCHANGED <<files, ckpt, acked, bytes>>
  <2>1. lock = q /\ lock # NoProc /\ pc[p] \notin Holding
    BY <1>a, <1>3, PilotAssumption DEF OneSession, Working
  <2>2. pc[p] \notin Creating
    BY <1>3 DEF LedgerInv, FoundingInv, Founding
  <2> QED
    BY <2>1, <2>2
       DEF Step, MakeDirectory, SyncParent, CreateCheckpoint, OpenCheckpoint, Flock,
           FlockBusy, Load, LoadRefused, RecordRequest, RecordReceived, FinishRequest,
           RecordStop, Call, Reserve, Refuse, CreateEvent, WriteEvent, ApplyEvent,
           OverwriteCheckpoint, CompleteCheckpoint, SyncCheckpoint, Fail, Send,
           Release, Kill, Leave, Holding, Appending, Creating
<1> QED
  BY <1>1, <1>2, <1>3

LEMMA OthersLedger ==
    ASSUME IInv, LedgerInv, NEW p \in Procs, Step(p), NEW q \in Procs, q # p
    PROVE  MemoryInv(q)' /\ BytesInv(q)'
<1>1. MemoryInv(q) /\ BytesInv(q)
  BY DEF LedgerInv
<1>2. /\ pc'[q] = pc[q] /\ cur'[q] = cur[q] /\ head'[q] = head[q]
      /\ link'[q] = link[q] /\ ledger'[q] = ledger[q]
      /\ lock' = q => lock = q
  BY OthersStand
<1>3. CASE Working(q)
  <2>1. UNCHANGED <<files, ckpt, acked, bytes>> /\ Events' = Events
    BY <1>3, OthersStand DEF Events
  <2> QED
    BY <1>1, <1>2, <2>1 DEF MemoryInv, BytesInv, Working, Counted
<1>4. CASE ~Working(q)
  <2>1. pc[q] \notin {"ready", "reserve"} \cup Making \cup Advanced
    BY <1>4 DEF Working, Holding, Appending, Making, Advanced
  <2> QED
    BY <1>1, <1>2, <1>4, <2>1 DEF MemoryInv, BytesInv, Working, Making, Advanced
<1> QED
  BY <1>3, <1>4

\* One process creates the journal, and nobody works meanwhile.
LEMMA FoundingStep ==
    ASSUME IInv, LedgerInv, NEW p \in Procs, Step(p)
    PROVE  FoundingInv'
<1> USE DEF journal, memory, history, Goto
<1>a. /\ JournalTypeOK /\ pc \in [Procs -> Phase] /\ cur \in [Procs -> Event \cup {None}]
      /\ ckpt \in Checkpoint
      /\ OneSession /\ FoundingInv /\ AppendInv(p) /\ MemoryInv(p)
  BY DEF IInv, LedgerInv, JournalTypeOK
<1>b. \A q \in Procs \ {p} :
         /\ pc'[q] = pc[q] /\ cur'[q] = cur[q]
         /\ Founding(q)' <=> Founding(q)
         /\ Working(q)' <=> Working(q)
  BY OthersStand DEF Founding, Working
<1>c. pc[p] \notin {"idle", "mkdir"} => dir = "synced"
  BY <1>a DEF FoundingInv, JournalTypeOK
<1>1. CASE MakeDirectory(p)
  <2>1. /\ \A q \in Procs : pc[q] = "idle"
        /\ dir' = "made" /\ pc'[p] = "mkdir"
        /\ ckpt = NoFile /\ ckptDisk = NoFile /\ files = <<>>
        /\ UNCHANGED <<ckpt, ckptDisk, files>>
    BY <1>a, <1>1 DEF MakeDirectory, FoundingInv
  <2>2. \A q \in Procs \ {p} : pc'[q] = "idle" /\ ~Founding(q)' /\ ~Working(q)'
    BY <1>b, <2>1 DEF Founding, Working, Creating, Advanced, Holding, Appending
  <2>3. ckpt.state # "whole"
    BY <2>1 DEF NoFile
  <2> QED
    BY <2>1, <2>2, <2>3 DEF FoundingInv
<1>2. CASE SyncParent(p) \/ CreateCheckpoint(p)
  <2>1. /\ Founding(p) /\ pc'[p] \in {"create_checkpoint", "flock_new"} /\ files' = files
        /\ dir' = "synced" /\ ckpt' \in {ckpt, Torn}
    BY <1>a, <1>2, <1>c DEF SyncParent, CreateCheckpoint, Founding, Creating
  <2>2. files = <<>> /\ ckpt.state # "whole" /\ \A q \in Procs \ {p} : ~Founding(q) /\ ~Working(q)
    BY <1>a, <1>2, <2>1 DEF FoundingInv, SyncParent, CreateCheckpoint, Creating
  <2>3. ckpt'.state # "whole"
    BY <2>1, <2>2 DEF Torn
  <2> QED
    BY <1>b, <2>1, <2>2, <2>3 DEF FoundingInv
<1>3. CASE pc'[p] \in {"idle", "flock", "load"} /\ UNCHANGED <<dir, ckpt, ckptDisk, files>>
           /\ (pc'[p] # "idle" => dir = "synced")
  <2>1. ~Founding(p)' /\ ~Working(p)'
    BY <1>3 DEF Founding, Working, Creating, Advanced, Holding, Appending
  <2> QED
    BY <1>a, <1>b, <1>3, <2>1 DEF FoundingInv
<1>4. CASE Flock(p) /\ pc[p] = "flock_new"
  <2>1. /\ Founding(p) /\ pc'[p] = "overwrite" /\ dir = "synced"
        /\ UNCHANGED <<dir, ckpt, ckptDisk, files>>
    BY <1>a, <1>c, <1>4 DEF Flock, Founding, Creating
  <2>2. files = <<>> /\ \A q \in Procs \ {p} : ~Founding(q) /\ ~Working(q)
    BY <1>a, <2>1 DEF FoundingInv
  <2> QED
    BY <1>b, <2>1, <2>2 DEF FoundingInv, Creating
<1>5. CASE Load(p)
  <2>1. /\ pc[p] = "load" /\ pc'[p] = "ready" /\ ckpt.state = "whole" /\ dir = "synced"
        /\ UNCHANGED <<dir, ckpt, ckptDisk, files>>
    BY <1>a, <1>c, <1>5 DEF Load, Loadable
  <2>2. ~Founding(p)'
    BY <2>1 DEF Founding, Creating, Advanced
  <2>3. \A q \in Procs \ {p} : ~Founding(q)
    <3>1. SUFFICES ASSUME NEW q \in Procs \ {p}, Founding(q) PROVE FALSE
      OBVIOUS
    <3>2. pc[q] \notin Creating
      BY <1>a, <2>1, <3>1 DEF FoundingInv
    <3>3. pc[q] \in Holding /\ pc[p] \in Holding
      BY <2>1, <3>1, <3>2 DEF Founding, Advanced, Holding, Appending
    <3> QED
      BY <1>a, <3>3 DEF OneSession
  <2> QED
    BY <1>b, <2>1, <2>2, <2>3 DEF FoundingInv
<1>6. CASE Working(p) /\ Working(p)' /\ UNCHANGED dir
           /\ (Founding(p)' => Founding(p) /\ files' = files)
  <2>1. dir = "synced"
    BY <1>c, <1>6 DEF Working, Holding, Appending
  <2>2. \A q \in Procs \ {p} : ~Founding(q)
    BY <1>a, <1>6 DEF FoundingInv
  <2>3. pc'[p] \notin Creating
    BY <1>6 DEF Working, Holding, Appending, Creating
  <2>4. pc'[p] # "mkdir"
    BY <2>3 DEF Creating
  <2> QED
    BY <1>a, <1>b, <1>6, <2>1, <2>2, <2>3, <2>4 DEF FoundingInv
<1>7. CASE Leave(p) /\ UNCHANGED <<dir, ckpt, ckptDisk, files>>
  BY <1>a, <1>3, <1>7 DEF Leave
<1>8. CASE OpenCheckpoint(p)
  <2>1. dir = "synced"
    BY <1>a, <1>8 DEF OpenCheckpoint, FoundingInv, NoFile, JournalTypeOK
  <2> QED
    BY <1>a, <1>3, <1>8, <2>1 DEF OpenCheckpoint
<1>9. CASE Flock(p) /\ pc[p] = "flock"
  BY <1>a, <1>c, <1>3, <1>9 DEF Flock
<1>10. CASE RecordRequest(p) \/ RecordReceived(p) \/ FinishRequest(p) \/ RecordStop(p)
            \/ Reserve(p) \/ Refuse(p) \/ CreateEvent(p) \/ WriteEvent(p) \/ Send(p)
            \/ SyncCheckpoint(p)
  <2>1. /\ pc[p] \in {"ready", "failed", "reserve", "create", "write", "sync"}
        /\ pc'[p] \in {"ready", "failed", "reserve", "create", "write", "apply"}
        /\ UNCHANGED dir
    BY <1>a, <1>10 DEF RecordRequest, RecordReceived, FinishRequest, RecordStop, Call,
       Reserve, Refuse, CreateEvent, WriteEvent, Send, SyncCheckpoint
  <2>2. Working(p) /\ Working(p)' /\ ~Founding(p)'
    BY <2>1 DEF Working, Holding, Appending, Founding, Creating, Advanced
  <2> QED
    BY <1>6, <2>1, <2>2
<1>11. CASE ApplyEvent(p)
  <2>1. pc[p] = "apply" /\ pc'[p] = "overwrite" /\ cur'[p] = cur[p] /\ cur[p] # None
        /\ UNCHANGED dir
    BY <1>a, <1>11 DEF ApplyEvent, AppendInv
  <2>2. Working(p) /\ Working(p)' /\ ~Founding(p)'
    BY <2>1 DEF Working, Holding, Appending, Founding, Creating
  <2> QED
    BY <1>6, <2>1, <2>2
<1>12. CASE OverwriteCheckpoint(p) \/ CompleteCheckpoint(p)
  <2>1. /\ pc[p] \in {"overwrite", "complete"} /\ pc'[p] \in {"complete", "sync"}
        /\ cur' = cur /\ UNCHANGED <<dir, files>>
    BY <1>a, <1>12 DEF OverwriteCheckpoint, CompleteCheckpoint
  <2>2. Working(p) /\ Working(p)' /\ (Founding(p)' => Founding(p))
    BY <2>1 DEF Working, Holding, Appending, Founding, Creating, Advanced
  <2> QED
    BY <1>6, <2>1, <2>2
<1>13. CASE Fail(p) /\ ~Leave(p)
  <2>1. /\ pc[p] \in Appending /\ pc'[p] = "failed" /\ UNCHANGED <<dir, files>>
    BY <1>a, <1>13 DEF Fail
  <2>2. Working(p) /\ Working(p)' /\ ~Founding(p)'
    BY <2>1 DEF Working, Holding, Appending, Founding, Creating, Advanced
  <2> QED
    BY <1>6, <2>1, <2>2
<1>14. pc[p] \in {"flock", "flock_new"} \/ ~Flock(p)
  BY DEF Flock
<1> QED
  BY <1>1, <1>2, <1>4, <1>5, <1>7, <1>8, <1>9, <1>10, <1>11, <1>12, <1>13, <1>14
     DEF Step, FlockBusy, LoadRefused, Release, Kill, Fail
\* The counters stay typed: every one of them is the replay of some chain.
LEMMA LedgerTyped ==
    ASSUME IInv, LedgerInv, NEW p \in Procs, Step(p)
    PROVE  ledger' \in [Procs -> Ledger]
<1> USE DEF journal, memory, history, Goto
<1>a. /\ ledger \in [Procs -> Ledger] /\ files \in Seq(EventFile) /\ AppendInv(p)
      /\ cur \in [Procs -> Event \cup {None}]
  BY DEF IInv, JournalTypeOK, LedgerInv
<1>1. CASE UNCHANGED ledger
  BY <1>a, <1>1
<1>2. CASE Leave(p)
  <2>1. EmptyLedger \in Ledger
    BY LedgersType, EmptySeq DEF Replay
  <2> QED
    BY <1>a, <1>2, <2>1 DEF Leave
<1>3. CASE Load(p)
  <2>1. Replay(Events) \in Ledger
    BY <1>a, EventsType, LedgersType
  <2> QED
    BY <1>a, <1>3, <2>1 DEF Load
<1>4. CASE ApplyEvent(p)
  <2>1. cur[p] \in Event
    BY <1>a, <1>4 DEF ApplyEvent, AppendInv
  <2>2. Apply(ledger[p], cur[p]) \in Ledger
    BY <1>a, <2>1, ApplyType
  <2> QED
    BY <1>a, <1>4, <2>2 DEF ApplyEvent
<1> QED
  BY <1>1, <1>2, <1>3, <1>4
     DEF Step, MakeDirectory, SyncParent, CreateCheckpoint, OpenCheckpoint, Flock,
         FlockBusy, LoadRefused, RecordRequest, RecordReceived, FinishRequest,
         RecordStop, Call, Reserve, Refuse, CreateEvent, WriteEvent,
         OverwriteCheckpoint, CompleteCheckpoint, SyncCheckpoint, Fail, Send,
         Release, Kill

\* An appended event leaves memory with the counters that the exchange has.
LEMMA AppendedBytes ==
    ASSUME NEW p \in Procs, MemoryInv(p), BytesInv(p), pc[p] \in Making,
           ledger[p] \in Ledger, cur[p] \in Event
    PROVE  LET m == Apply(ledger[p], cur[p])
           IN  cur[p] \in Request \cup Received \cup {Finish} =>
                 /\ bytes = m.total
                 /\ cur[p] # Finish => m.pending
                 /\ cur[p] \in Request => bytes <= MaxTotal
<1> DEFINE l == ledger[p]
           e == cur[p]
           m == Apply(l, e)
<1>1. /\ m.total = IF e \in Received THEN l.total + e.count ELSE l.total
      /\ m.pending = (e \in Request \/ (l.pending /\ e # Finish))
  BY ApplyType
<1>2. Valid(l, e) /\ Counted(l)
  BY DEF MemoryInv, BytesInv, Working, Making, Holding, Appending
<1>3. e \in Received \cup {Finish} =>
         bytes = l.total + (IF e = Finish THEN 0 ELSE e.count)
  BY DEF BytesInv
<1>4. l.total \in Int
  BY DEF Ledger
<1> HIDE DEF m
<1>5. CASE e \in Request
  <2>1. ~l.pending /\ l.total <= MaxTotal /\ e \notin Received
    BY <1>2, <1>5 DEF Valid, ValidRequest, Request, Received
  <2> QED
    BY <1>1, <1>2, <1>5, <2>1 DEF Counted, m
<1>6. CASE e \in Received
  <2>1. e # Finish /\ e \notin Request /\ l.pending
    BY <1>2, <1>6 DEF Received, Finish, Request, Valid
  <2> QED
    BY <1>1, <1>3, <1>4, <1>6, <2>1 DEF m
<1>7. CASE e = Finish
  <2>1. e \notin Received /\ e \notin Request
    BY <1>7 DEF Received, Finish, Request
  <2> QED
    BY <1>1, <1>3, <1>4, <1>7, <2>1 DEF m
<1> QED
  BY <1>5, <1>6, <1>7 DEF m

\* The process that steps keeps its memory in step with the journal.
LEMMA StepperLedger ==
    ASSUME IInv, LedgerInv, IInv', NEW p \in Procs, Step(p)
    PROVE  MemoryInv(p)' /\ BytesInv(p)'
<1> USE DEF journal, memory, history, Goto
<1>a. /\ JournalTypeOK /\ AppendInv(p) /\ MemoryInv(p) /\ BytesInv(p)
      /\ ledger \in [Procs -> Ledger] /\ FilesInv /\ FoundingInv
  BY DEF IInv, LedgerInv
<1>b. /\ files \in Seq(EventFile) /\ Len(files) \in Nat /\ head[p] \in Seq(Event)
      /\ head \in [Procs -> Seq(Event)] /\ pc \in [Procs -> Phase]
      /\ cur \in [Procs -> Event \cup {None}] /\ ckpt \in Checkpoint
      /\ link \in [Procs -> {"closed", "intent", "open"}] /\ bytes \in Nat
      /\ Events \in Seq(Event) /\ Len(Events) = Len(files)
      /\ Len(acked) \in 0..Len(files) /\ Len(head[p]) \in Nat
  BY <1>a, EventsType, AckedIsPrefix DEF JournalTypeOK
<1>c. After(Len(files)) = Replay(Events)
  BY <1>b DEF After, Replay
<1>d. /\ \A e \in Request : e \notin Received /\ e # Finish /\ e # Stop
      /\ \A e \in Received : e # Finish /\ e # Stop /\ e.count \in Nat
      /\ Stop \notin Received \cup {Finish}
  <2>1. /\ \A e \in Request : e.kind = "request"
        /\ \A e \in Received : e.kind = "received" /\ e.count \in Nat
        /\ Finish.kind = "finish" /\ Stop.kind = "stop"
    BY BudgetAssumption DEF Request, Received, Finish, Stop
  <2> QED
    BY <2>1
<1>1. CASE Leave(p)
  <2>1. /\ pc'[p] = "idle" /\ lock' # p /\ head'[p] = <<>> /\ link'[p] = "closed"
        /\ ledger'[p] = EmptyLedger
    BY <1>a, <1>b, <1>1, PilotAssumption DEF Leave
  <2>2. Replay(<<>>) = EmptyLedger
    BY LedgersType, EmptySeq DEF Replay
  <2> QED
    BY <2>1, <2>2 DEF MemoryInv, BytesInv, Working, Holding, Appending, Making, Advanced
<1>2. CASE \/ MakeDirectory(p) \/ SyncParent(p) \/ CreateCheckpoint(p) \/ OpenCheckpoint(p)
           \/ Flock(p) /\ pc[p] = "flock"
  <2>1. /\ pc[p] \in {"idle", "flock"} \cup Creating
        /\ pc'[p] \in {"flock", "load"} \cup Creating
        /\ UNCHANGED memory
        /\ lock' = p => lock = p \/ pc'[p] = "load"
    BY <1>a, <1>b, <1>2 DEF MakeDirectory, SyncParent, CreateCheckpoint, OpenCheckpoint,
       Flock, Creating
  <2>2. ~Working(p) /\ ~Working(p)' /\ lock # p
    BY <1>a, <2>1 DEF MemoryInv, Working, Holding, Appending, Creating
  <2>3. pc'[p] \notin {"ready", "reserve"} \cup Making \cup Advanced
    BY <2>1 DEF Creating, Making, Advanced
  <2> QED
    BY <1>a, <2>1, <2>2, <2>3 DEF MemoryInv, BytesInv, Working, Holding, Making, Advanced
<1>3. CASE Flock(p) /\ pc[p] = "flock_new"
  <2>1. /\ pc[p] = "flock_new" /\ pc'[p] = "overwrite" /\ Founding(p)
        /\ UNCHANGED <<journal, memory, bytes, acked>>
    BY <1>a, <1>b, <1>3 DEF Flock, Founding, Creating
  <2>2. files = <<>> /\ head[p] = <<>> /\ cur[p] = None
    BY <1>a, <2>1 DEF FoundingInv, MemoryInv, AppendInv, Working, Holding, Appending, Creating
  <2>3. Events = <<>> /\ Len(files) = 0 /\ Len(acked) = 0
    BY <1>b, <2>2 DEF Events
  <2>4. Counted(ledger[p]) /\ ledger[p] = Replay(head[p])
    BY <1>a, <1>c, <2>2, <2>3 DEF FilesInv, MemoryInv
  <2>5. Events' = Events
    BY <2>1 DEF Events
  <2>6. None \notin Request \cup Received \cup {Finish}
    BY NoneAssumption DEF Event
  <2> QED
    BY <2>1, <2>2, <2>3, <2>4, <2>5, <2>6
       DEF MemoryInv, BytesInv, Working, Holding, Appending, Making, Advanced, Counted
<1>4. CASE Load(p)
  <2>1. /\ pc[p] = "load" /\ pc'[p] = "ready" /\ head'[p] = Events
        /\ ledger'[p] = Replay(Events) /\ link' = link /\ lock' = lock
        /\ UNCHANGED <<files, ckpt, acked, bytes>>
        /\ ckpt = Whole(Events)
    BY <1>a, <1>b, <1>4 DEF Load, Loadable, Whole, Checkpoint
  <2>2. link[p] = "closed"
    BY <1>a, <2>1 DEF MemoryInv, Working
  <2>3. Counted(Replay(Events))
    BY <1>a, <1>b, <1>c DEF FilesInv
  <2>4. Events' = Events
    BY <2>1 DEF Events
  <2> QED
    BY <1>b, <2>1, <2>2, <2>3, <2>4
       DEF MemoryInv, BytesInv, Working, Holding, Appending, Making, Advanced, Counted
<1>5. CASE RecordRequest(p) \/ RecordReceived(p) \/ FinishRequest(p) \/ RecordStop(p)
  <2>1. /\ pc[p] \in {"ready", "failed"} /\ pc'[p] = "reserve" /\ lock' = lock
        /\ head' = head /\ ledger' = ledger /\ UNCHANGED <<files, ckpt, acked>>
    BY <1>a, <1>b, <1>5 DEF RecordRequest, RecordReceived, FinishRequest, RecordStop, Call
  <2>2. Working(p) /\ Working(p)' /\ Counted(ledger[p])
    BY <1>a, <2>1 DEF Working, Holding, Appending, BytesInv
  <2>3. MemoryInv(p)'
    BY <1>a, <2>1, <2>2 DEF MemoryInv, Making, Advanced, Working, Holding, Appending
  <2>4. CASE RecordRequest(p) \/ RecordStop(p)
    <3>1. bytes' = bytes /\ cur'[p] \notin Received \cup {Finish}
      BY <1>b, <1>d, <2>4 DEF RecordRequest, RecordStop, Call
    <3> QED
      BY <2>1, <2>2, <2>3, <3>1 DEF BytesInv, Making, Advanced, Counted
  <2>5. CASE RecordReceived(p) \/ FinishRequest(p)
    <3>1. acked = head[p] /\ ledger[p].pending /\ bytes = ledger[p].total
      BY <1>a, <2>5 DEF RecordReceived, FinishRequest, BytesInv
    <3>2. /\ cur'[p] \in Received \cup {Finish}
          /\ bytes' = bytes + (IF cur'[p] = Finish THEN 0 ELSE cur'[p].count)
      BY <1>b, <1>d, <2>5 DEF RecordReceived, FinishRequest, Call
    <3> QED
      BY <2>1, <2>2, <2>3, <3>1, <3>2 DEF BytesInv, Making, Advanced, Counted
  <2> QED
    BY <1>5, <2>3, <2>4, <2>5
<1>6. CASE Reserve(p)
  <2>1. /\ pc[p] = "reserve" /\ pc'[p] = "create" /\ Valid(ledger[p], cur[p])
        /\ UNCHANGED <<lock, memory, files, ckpt, acked, bytes>>
    BY <1>b, <1>6 DEF Reserve
  <2> QED
    BY <1>a, <2>1 DEF MemoryInv, BytesInv, Working, Holding, Appending, Making, Advanced, Counted
<1>7. CASE Working(p) /\ Goto(p, "failed") /\ UNCHANGED <<lock, memory, acked, bytes>>
  <2>1. pc'[p] = "failed"
    BY <1>b, <1>7
  <2> QED
    BY <1>a, <1>7, <2>1 DEF MemoryInv, BytesInv, Working, Holding, Appending, Making, Advanced, Counted
<1>8. CASE CreateEvent(p) \/ WriteEvent(p)
  <2>1. /\ pc[p] \in {"create", "write"} /\ pc'[p] \in {"write", "apply"}
        /\ UNCHANGED <<lock, memory, ckpt, acked, bytes>>
    BY <1>b, <1>8 DEF CreateEvent, WriteEvent
  <2>2. Len(files') = Len(head[p]) + 1
    <3>1. CASE CreateEvent(p)
      BY <1>b, <3>1 DEF CreateEvent
    <3>2. CASE WriteEvent(p)
      BY <1>a, <1>b, <3>2 DEF WriteEvent, MemoryInv
    <3> QED
      BY <1>8, <3>1, <3>2
  <2> QED
    BY <1>a, <2>1, <2>2 DEF MemoryInv, BytesInv, Working, Holding, Appending, Making, Advanced, Counted
<1>9. CASE ApplyEvent(p)
  <2>1. /\ pc[p] = "apply" /\ pc'[p] = "overwrite"
        /\ head'[p] = Append(head[p], cur[p]) /\ ledger'[p] = Apply(ledger[p], cur[p])
        /\ UNCHANGED <<lock, cur, link, files, ckpt, acked, bytes>>
    BY <1>a, <1>b, <1>9 DEF ApplyEvent
  <2>2. cur[p] \in Event /\ Len(files) = Len(head[p]) + 1 /\ ledger[p] = Replay(head[p])
    BY <1>a, <1>b, <2>1 DEF AppendInv, MemoryInv
  <2>3. ledger[p] \in Ledger /\ pc[p] \in Making
    BY <1>a, <2>1 DEF Making
  <2>4. /\ Append(head[p], cur[p]) \in Seq(Event)
        /\ Len(Append(head[p], cur[p])) = Len(files)
        /\ Replay(Append(head[p], cur[p])) = ledger'[p]
    BY <1>b, <2>1, <2>2, ReplayAppend
  <2>5. Backed(Append(head[p], cur[p]))
    <3>1. AppendInv(p)'
      BY DEF IInv
    <3> QED
      BY <2>1, <3>1 DEF AppendInv, Backed
  <2>6. Events = Append(head[p], cur[p])
    BY <1>b, <2>4, <2>5, BackedByAll
  <2>7. Counted(ledger'[p])
    BY <1>a, <1>b, <2>1, <2>2, <2>3, AppendedLedger
  <2>8. cur[p] \in Request \cup Received \cup {Finish} =>
           /\ bytes = ledger'[p].total
           /\ cur[p] # Finish => ledger'[p].pending
           /\ cur[p] \in Request => bytes <= MaxTotal
    BY <1>a, <2>1, <2>2, <2>3, AppendedBytes
  <2>9. Events' = Events
    BY <2>1 DEF Events
  <2>10. /\ Working(p) /\ Working(p)'
         /\ pc'[p] \notin {"ready", "reserve", "write", "apply", "sync"} \cup Making
    BY <2>1 DEF Working, Holding, Appending, Making
  <2>11. MemoryInv(p)'
    BY <1>a, <1>b, <2>1, <2>4, <2>6, <2>9, <2>10 DEF MemoryInv, Working, Holding, Appending
  <2>12. BytesInv(p)'
    BY <2>1, <2>7, <2>8, <2>10 DEF BytesInv, Counted
  <2> QED
    BY <2>11, <2>12
<1>10. CASE OverwriteCheckpoint(p) \/ CompleteCheckpoint(p)
  <2>1. /\ pc[p] \in Advanced /\ pc'[p] \in {"complete", "sync"}
        /\ pc'[p] = "sync" => ckpt' = Whole(head[p])
        /\ UNCHANGED <<lock, memory, files, acked, bytes>>
    BY <1>b, <1>10 DEF OverwriteCheckpoint, CompleteCheckpoint, Advanced
  <2>2. Events' = Events
    BY <2>1 DEF Events
  <2> QED
    BY <1>a, <2>1, <2>2 DEF MemoryInv, BytesInv, Working, Holding, Appending, Making, Advanced, Counted
<1>11. CASE SyncCheckpoint(p)
  <2>1. /\ pc[p] = "sync" /\ pc'[p] \in {"ready", "failed"}
        /\ pc'[p] = "ready" => ~(cur[p] \in Received /\ ledger[p].total > MaxTotal)
        /\ link'[p] # "closed" => cur[p] \in Request \cup Received
        /\ acked' = head[p]
        /\ UNCHANGED <<lock, cur, head, ledger, files, ckpt, bytes>>
    BY <1>b, <1>11 DEF SyncCheckpoint
  <2>2. Events' = Events
    BY <2>1 DEF Events
  <2>3. /\ Working(p) /\ Working(p)'
        /\ pc'[p] \notin {"reserve", "write", "apply", "sync"} \cup Making \cup Advanced
        /\ pc[p] \in Advanced
    BY <2>1 DEF Working, Holding, Appending, Making, Advanced
  <2>4. MemoryInv(p)'
    BY <1>a, <1>b, <2>1, <2>2, <2>3 DEF MemoryInv, Working, Holding, Appending
  <2>5. Counted(ledger[p])
    BY <1>a, <2>3 DEF BytesInv
  <2>6. ledger[p].total \in Int /\ MaxTotal \in Int
    BY <1>a, BudgetAssumption DEF Ledger
  <2>7. cur[p] \in Request \cup Received =>
           bytes = ledger[p].total /\ ledger[p].pending
           /\ (cur[p] \in Request => bytes <= MaxTotal)
    BY <1>a, <1>d, <2>3 DEF BytesInv
  <2> QED
    BY <1>d, <2>1, <2>3, <2>4, <2>5, <2>6, <2>7 DEF BytesInv, Counted
<1>12. CASE Send(p)
  <2>1. /\ pc[p] = "ready" /\ link[p] = "intent"
        /\ UNCHANGED <<lock, pc, cur, head, ledger, files, ckpt, acked, bytes>>
    BY <1>12 DEF Send
  <2>2. Events' = Events /\ Working(p)' /\ Working(p)
    BY <2>1 DEF Events, Working, Holding
  <2> QED
    BY <1>a, <2>1, <2>2 DEF MemoryInv, BytesInv, Making, Advanced, Working, Holding, Appending, Counted
<1>13. pc[p] \in Appending => Working(p)
  BY DEF Working, Holding, Appending
<1>14. pc[p] \in {"flock", "flock_new"} \/ ~Flock(p)
  BY DEF Flock
<1>15. CASE Refuse(p)
  BY <1>7, <1>13, <1>15 DEF Refuse, Appending
<1>16. CASE Fail(p)
  BY <1>1, <1>7, <1>13, <1>16 DEF Fail
<1> QED
  BY <1>1, <1>2, <1>3, <1>4, <1>5, <1>6, <1>8, <1>9, <1>10, <1>11, <1>12, <1>14, <1>15, <1>16
     DEF Step, FlockBusy, LoadRefused, Release, Kill
\* Without a fault, what a step leaves on disk is what the next session needs.
LEMMA CleanStep ==
    ASSUME IInv, LedgerInv, NEW p \in Procs, Step(p)
    PROVE  CleanInv'
<1> USE DEF journal, memory, history, Goto
<1> DEFINE Busy == Creating \cup {"write", "apply"} \cup Advanced
<1>a. /\ JournalTypeOK /\ AppendInv(p) /\ MemoryInv(p) /\ CleanInv
      /\ pc \in [Procs -> Phase] /\ files \in Seq(EventFile) /\ head[p] \in Seq(Event)
  BY DEF IInv, JournalTypeOK, LedgerInv
<1>b. \A q \in Procs \ {p} : pc'[q] = pc[q]
  BY OthersStand
<1>c. SUFFICES ASSUME ~faulted', \A q \in Procs : pc'[q] \notin Busy
               PROVE  dir' = "absent" \/ Clean'
  BY DEF CleanInv
<1>1. CASE pc[p] \notin Busy /\ UNCHANGED journal /\ ~faulted
  <2>1. \A q \in Procs : pc[q] \notin Busy
    BY <1>b, <1>c, <1>1
  <2>2. dir = "absent" \/ Clean
    BY <1>a, <1>1, <2>1 DEF CleanInv
  <2> QED
    BY <1>1, <2>2 DEF Clean, Events
<1>2. CASE SyncCheckpoint(p)
  <2>1. /\ pc[p] = "sync" /\ UNCHANGED <<files, ckpt>>
        /\ ckptDisk' = ckpt /\ synced' = Len(files)
    BY <1>2 DEF SyncCheckpoint
  <2>2. head[p] = Events /\ ckpt = Whole(Events)
    BY <1>a, <2>1 DEF MemoryInv, Advanced
  <2>3. \A i \in DOMAIN files : files[i].whole
    BY <1>a, <2>2, EventsType, BackedByAll DEF AppendInv
  <2> QED
    BY <2>1, <2>2, <2>3 DEF Clean, Events
<1>3. pc'[p] \notin Busy
  BY <1>c
<1>4. CASE \/ MakeDirectory(p) \/ SyncParent(p) \/ CreateCheckpoint(p)
           \/ Flock(p) /\ pc[p] = "flock_new"
           \/ CreateEvent(p) \/ WriteEvent(p) \/ ApplyEvent(p)
           \/ OverwriteCheckpoint(p) \/ CompleteCheckpoint(p)
  BY <1>a, <1>3, <1>4
     DEF MakeDirectory, SyncParent, CreateCheckpoint, Flock, CreateEvent, WriteEvent,
         ApplyEvent, OverwriteCheckpoint, CompleteCheckpoint, Creating, Advanced
<1>5. CASE Fail(p) \/ Kill(p) \/ FlockBusy(p)
  <2>1. ~faulted /\ pc[p] \notin Creating \cup Appending /\ UNCHANGED journal
    BY <1>a, <1>c, <1>5 DEF Fail, Kill, FlockBusy, Creating, Appending, JournalTypeOK
  <2> QED
    BY <1>1, <2>1 DEF Appending, Advanced
<1>6. CASE \/ Flock(p) /\ pc[p] = "flock"
           \/ OpenCheckpoint(p) \/ Load(p) \/ LoadRefused(p)
           \/ RecordRequest(p) \/ RecordReceived(p) \/ FinishRequest(p) \/ RecordStop(p)
           \/ Reserve(p) \/ Refuse(p) \/ Send(p) \/ Release(p)
  <2>1. /\ pc[p] \in {"idle", "flock", "load", "ready", "failed", "reserve"}
        /\ UNCHANGED <<journal, faulted>>
    BY <1>6 DEF OpenCheckpoint, Flock, Load, LoadRefused, RecordRequest, RecordReceived,
       FinishRequest, RecordStop, Call, Reserve, Refuse, Send, Release
  <2>2. pc[p] \notin Busy
    BY <2>1 DEF Creating, Advanced
  <2> QED
    BY <1>1, <1>c, <2>1, <2>2
<1>7. pc[p] \in {"flock", "flock_new"} \/ ~Flock(p)
  BY DEF Flock
<1> QED
  BY <1>2, <1>4, <1>5, <1>6, <1>7 DEF Step

\* A host crash cuts the event files behind the acknowledged ones.
LEMMA CrashLedger ==
    ASSUME IInv, LedgerInv, HostCrash
    PROVE  LedgerInv'
<1>a. /\ JournalTypeOK /\ files \in Seq(EventFile) /\ Len(files) \in Nat
      /\ DOMAIN files = 1..Len(files) /\ synced \in 0..Len(files)
      /\ FilesInv /\ FoundingInv /\ CleanInv
      /\ Events \in Seq(Event) /\ Len(Events) = Len(files)
      /\ \A i \in DOMAIN files : Events[i] = files[i].event
      /\ Len(acked) \in Nat /\ Len(acked) <= synced
  BY EventsType, AckedIsPrefix DEF IInv, JournalTypeOK, LedgerInv
<1>1. PICK n \in synced..Len(files) : files' = SubSeq(files, 1, n) /\ synced' = n
  BY DEF HostCrash
<1>2. /\ n \in Nat /\ Len(acked) <= n /\ n <= Len(files) /\ Len(files') = n
      /\ files' \in Seq(EventFile) /\ DOMAIN files' = 1..n
      /\ \A i \in 1..n : files'[i] = files[i]
  BY <1>a, <1>1
<1>3. /\ dir' \in IF dir = "made" THEN {"absent", "synced"} ELSE {dir}
      /\ ckpt' \in IF ckpt = ckptDisk THEN {ckpt} ELSE {ckptDisk, Torn, ckpt}
      /\ ckptDisk' = ckpt' /\ lock' = NoProc /\ UNCHANGED <<bytes, acked>>
      /\ \A p \in Procs : /\ pc'[p] = "idle" /\ cur'[p] = None /\ head'[p] = <<>>
                          /\ ledger'[p] = EmptyLedger /\ link'[p] = "closed"
  BY DEF HostCrash
<1>4. /\ Events' = SubSeq(Events, 1, n) /\ Events' \in Seq(Event) /\ Len(Events') = n
      /\ \A i \in 1..n : Events'[i] = Events[i]
  <2>1. /\ SubSeq(Events, 1, n) \in Seq(Event) /\ Len(SubSeq(Events, 1, n)) = n
        /\ \A i \in 1..n : SubSeq(Events, 1, n)[i] = Events[i]
    BY <1>a, <1>2
  <2>2. /\ Events' \in Seq(Event) /\ Len(Events') = n
        /\ \A i \in 1..n : Events'[i] = files'[i].event
    <3>1. Events' = [i \in 1..n |-> files'[i].event]
      BY <1>2 DEF Events
    <3>2. \A i \in 1..n : files'[i].event = Events[i] /\ Events[i] \in Event
      BY <1>a, <1>2
    <3> QED
      BY <1>2, <3>1, <3>2, SeqDef
  <2>3. \A i \in 1..n : Events'[i] = Events[i]
    BY <1>a, <1>2, <2>2
  <2>4. Events' = SubSeq(Events, 1, n)
    BY <2>1, <2>2, <2>3, SeqEqual
  <2> QED
    BY <2>2, <2>3, <2>4
<1>5. \A k \in 0..n : Ledgers(Events')[k] = Ledgers(Events)[k]
  <2>1. n <= Len(Events') /\ n <= Len(Events)
    BY <1>a, <1>2, <1>4
  <2> QED
    BY <1>a, <1>2, <1>4, <2>1, LedgersOfPrefix
<1>6. FilesInv'
  <2>1. Replayable(Events')
    <3>1. \A i \in 1..Len(files) : Valid(Ledgers(Events)[i - 1], Events[i])
      BY <1>a DEF FilesInv, Replayable
    <3>2. ASSUME NEW i \in 1..n PROVE Valid(Ledgers(Events')[i - 1], Events'[i])
      <4>1. i \in 1..Len(files) /\ i - 1 \in 0..n
        BY <1>2
      <4>2. Ledgers(Events')[i - 1] = Ledgers(Events)[i - 1] /\ Events'[i] = Events[i]
        BY <1>4, <1>5, <4>1
      <4> QED
        BY <3>1, <4>1, <4>2
    <3>3. DOMAIN Events' = 1..n
      BY <1>4
    <3> QED
      BY <3>2, <3>3 DEF Replayable
  <2>2. ASSUME NEW i \in 1..n
        PROVE  files'[i].prev = SubSeq(Events', 1, i - 1) /\ (i < n => files'[i].whole)
    <3>1. files[i].prev = SubSeq(Events, 1, i - 1) /\ (i < n => files[i].whole)
      <4>1. i \in DOMAIN files /\ (i < n => i < Len(files))
        BY <1>a, <1>2
      <4> QED
        BY <1>a, <4>1 DEF FilesInv
    <3>2. SubSeq(SubSeq(Events, 1, n), 1, i - 1) = SubSeq(Events, 1, i - 1)
      BY <1>a, <1>2
    <3> QED
      BY <1>2, <1>4, <3>1, <3>2
  <2>3. ASSUME NEW k \in Len(acked)..n PROVE Counted(Ledgers(Events')[k])
    <3>1. k \in 0..n /\ k \in Len(acked)..Len(files)
      BY <1>a, <1>2
    <3> QED
      BY <1>a, <1>5, <3>1 DEF FilesInv, After
  <2>4. ASSUME NEW k \in (Len(acked) + 2)..n PROVE ~Usable(Ledgers(Events')[k])
    <3>1. k \in 0..n /\ k \in (Len(acked) + 2)..Len(files)
      BY <1>a, <1>2
    <3> QED
      BY <1>a, <1>5, <3>1 DEF FilesInv, After
  <2> QED
    BY <1>2, <1>3, <2>1, <2>2, <2>3, <2>4 DEF FilesInv, Counted, After
<1>7. FoundingInv'
  <2>1. dir \in {"absent", "made", "synced"}
    BY <1>a DEF JournalTypeOK
  <2>2. ASSUME dir' # "synced" PROVE ckpt' = NoFile /\ ckptDisk' = NoFile /\ files' = <<>>
    <3>1. ckpt = NoFile /\ ckptDisk = NoFile /\ files = <<>>
      BY <1>a, <1>3, <2>1, <2>2 DEF FoundingInv
    <3>2. n = 0
      BY <1>2, <3>1
    <3> QED
      BY <1>1, <1>3, <3>1, <3>2
  <2>3. \A p \in Procs : ~Founding(p)'
    BY <1>3 DEF Founding, Creating, Advanced
  <2> QED
    BY <1>3, <2>2, <2>3 DEF FoundingInv
<1>8. CleanInv'
  <2>1. SUFFICES ASSUME ~faulted' PROVE dir' = "absent" \/ Clean'
    BY DEF CleanInv
  <2>2. ~faulted /\ \A p \in Procs : pc[p] \notin Creating \cup Appending
    BY <2>1 DEF HostCrash
  <2>3. dir = "absent" \/ Clean
    BY <1>a, <2>2 DEF CleanInv, Appending, Advanced
  <2>4. CASE Clean
    <3>1. n = Len(files)
      BY <1>a, <1>1, <2>4 DEF Clean
    <3>2. Events' = Events
      BY <1>a, <1>4, <3>1, SeqEqual
    <3> QED
      BY <1>1, <1>2, <1>3, <2>4, <3>1, <3>2, <1>a DEF Clean
  <2> QED
    BY <1>3, <2>3, <2>4
<1>9. Replay(<<>>) = EmptyLedger /\ EmptyLedger \in Ledger
  BY LedgersType, EmptySeq DEF Replay
<1>10. ASSUME NEW p \in Procs PROVE MemoryInv(p)' /\ BytesInv(p)'
  BY <1>3, <1>9, PilotAssumption
     DEF MemoryInv, BytesInv, Working, Holding, Appending, Making, Advanced
<1>11. ledger' \in [Procs -> Ledger]
  BY <1>9 DEF HostCrash
<1> QED
  BY <1>6, <1>7, <1>8, <1>10, <1>11 DEF LedgerInv

\* The counters, the event files and the checkpoint stay in step in every
\* reachable state, through every crash.
THEOREM LedgerInvariant == Spec => []LedgerInv
<1>1. IInv /\ IInv' /\ LedgerInv /\ [Next]_vars => LedgerInv'
  <2> SUFFICES ASSUME IInv, IInv', LedgerInv, [Next]_vars PROVE LedgerInv'
    OBVIOUS
  <2>1. ASSUME NEW p \in Procs, Step(p) PROVE LedgerInv'
    <3>1. FilesInv' /\ FoundingInv' /\ CleanInv' /\ ledger' \in [Procs -> Ledger]
      BY <2>1, FilesStep, FoundingStep, CleanStep, LedgerTyped
    <3>2. ASSUME NEW q \in Procs PROVE MemoryInv(q)' /\ BytesInv(q)'
      <4>1. CASE q = p
        BY <2>1, <4>1, StepperLedger
      <4>2. CASE q # p
        BY <2>1, <4>2, OthersLedger
      <4> QED
        BY <4>1, <4>2
    <3> QED
      BY <3>1, <3>2 DEF LedgerInv
  <2>2. CASE HostCrash
    BY <2>2, CrashLedger
  <2>3. CASE UNCHANGED vars
    <3>1. Events' = Events
      BY <2>3 DEF Events, vars, journal
    <3> QED
      BY <2>3, <3>1
         DEF vars, journal, memory, history, LedgerInv, FilesInv, FoundingInv, CleanInv,
             Clean, MemoryInv, BytesInv, Working, Founding, After, Counted
  <2> QED
    BY <2>1, <2>2, <2>3 DEF Next
<1>2. QED
  BY <1>1, LedgerInit, JournalInvariant, PTL DEF Spec
\* A session that may accept a call has in memory what is on disk (the digest
\* checks of _load and _append): the files chain to its head, the checkpoint
\* commits to them, and its counters are their replay.
THEOREM SessionsAgree == Spec => []SessionAgrees
<1>1. LedgerInv => SessionAgrees
  BY DEF LedgerInv, MemoryInv, SessionAgrees
<1>2. QED
  BY <1>1, LedgerInvariant, PTL

\* With no fault inside a creation or an append, and no creation under way,
\* _load refuses nobody (the write order of _append and _write_checkpoint).
THEOREM RefusalNeedsFault == Spec => []RefusedOnlyAfterFault
<1>1. IInv /\ LedgerInv => RefusedOnlyAfterFault
  <2> SUFFICES ASSUME IInv, LedgerInv, ~faulted, \A q \in Procs : pc[q] \notin Creating,
                      NEW p \in Procs, pc[p] = "load"
               PROVE  Loadable
    BY DEF RefusedOnlyAfterFault
  <2>1. \A q \in Procs : pc[q] \notin {"write", "apply"} \cup Advanced
    <3>1. SUFFICES ASSUME NEW q \in Procs, pc[q] \in {"write", "apply"} \cup Advanced
                   PROVE  FALSE
      OBVIOUS
    <3>2. pc[q] \in Holding /\ pc[p] \in Holding /\ q # p
      BY <3>1 DEF Advanced, Holding, Appending
    <3> QED
      BY <3>2 DEF IInv, OneSession
  <2>2. dir # "absent"
    BY DEF LedgerInv, FoundingInv
  <2>3. Clean /\ FilesInv
    BY <2>1, <2>2 DEF LedgerInv, CleanInv
  <2>4. Len(Events) = Len(files)
    BY EventsType DEF IInv, JournalTypeOK
  <2> QED
    BY <2>3, <2>4 DEF Clean, FilesInv, Loadable, Whole
<1>2. QED
  BY <1>1, JournalInvariant, LedgerInvariant, PTL

\* The pilot's download passes the cap by one chunk at most: the chunk that
\* record_received counts last (network_budget.py's total, network.py's loop).
THEOREM DownloadIsBounded == Spec => []DownloadBounded
<1>1. Init => DownloadBounded
  <2> SUFFICES ASSUME Init, NEW most \in Chunks PROVE bytes <= MaxTotal + most
    BY DEF DownloadBounded
  <2> QED
    BY BudgetAssumption DEF Init
<1>2. IInv /\ LedgerInv /\ DownloadBounded /\ [Next]_vars => DownloadBounded'
  <2> SUFFICES ASSUME IInv, LedgerInv, DownloadBounded, [Next]_vars,
                      NEW most \in Chunks, \A n \in Chunks : n <= most
               PROVE  bytes' <= MaxTotal + most
    BY DEF DownloadBounded
  <2>1. bytes <= MaxTotal + most
    BY DEF DownloadBounded
  <2>2. ASSUME NEW p \in Procs, RecordReceived(p) PROVE bytes' <= MaxTotal + most
    <3>1. bytes <= MaxTotal
      BY <2>2 DEF LedgerInv, BytesInv, RecordReceived
    <3>2. PICK e \in Received : bytes' = bytes + e.count
      BY <2>2 DEF RecordReceived
    <3>3. e.count \in Chunks /\ e.count <= most
      BY <3>2 DEF Received
    <3>4. bytes \in Nat /\ e.count \in Nat /\ most \in Nat /\ MaxTotal \in Nat
      BY <3>3, BudgetAssumption DEF IInv, JournalTypeOK
    <3> QED
      BY <3>1, <3>2, <3>3, <3>4
  <2>3. CASE bytes' = bytes
    BY <2>1, <2>3
  <2> QED
    BY <2>2, <2>3
       DEF Next, Step, MakeDirectory, SyncParent, CreateCheckpoint, OpenCheckpoint, Flock,
           FlockBusy, Load, LoadRefused, RecordRequest, FinishRequest, RecordStop, Call,
           Reserve, Refuse, CreateEvent, WriteEvent, ApplyEvent, OverwriteCheckpoint,
           CompleteCheckpoint, SyncCheckpoint, Fail, Send, Release, Kill, HostCrash,
           vars, history
<1>3. QED
  BY <1>1, <1>2, JournalInvariant, LedgerInvariant, PTL DEF Spec

-----------------------------------------------------------------------------
(* The journal implements the promise of BudgetLedger. *)

\* What Promise substitutes for view, call and intent.
View == IF holder = NoProc THEN Replay(acked) ELSE ledger[holder]
Calling == IF holder # NoProc /\ pc[holder] \in {"overwrite", "complete", "sync"}
           THEN cur[holder] ELSE None
Intended == IF holder # NoProc /\ link[holder] = "intent" THEN cur[holder] ELSE None

\* The promise's events and ledgers are the journal's.
LEMMA SameEvents ==
    /\ Promise!Event = Event /\ Promise!EmptyLedger = EmptyLedger
    /\ \A l, e : Promise!Valid(l, e) <=> Valid(l, e)
    /\ \A l, e : Promise!Apply(l, e) = Apply(l, e)
    /\ \A l : Promise!Usable(l) <=> Usable(l)
BY DEF Promise!Event, Promise!Request, Promise!Received, Promise!Finish, Promise!Stop,
       Promise!EmptyLedger, Promise!Valid, Promise!ValidRequest, Promise!Apply,
       Promise!Usable, Event, Request, Received, Finish, Stop, EmptyLedger,
       Valid, ValidRequest, Apply, Usable

\* The promise is held by the process that works, and its parts are that
\* process's memory.
Mapped ==
    /\ \A q \in Procs : Working(q) =>
          /\ holder = q
          /\ View = ledger[q]
          /\ Calling = IF pc[q] \in Advanced THEN cur[q] ELSE None
          /\ Intended = IF link[q] = "intent" THEN cur[q] ELSE None
    /\ (\A q \in Procs : ~Working(q)) =>
          holder = NoProc /\ View = Replay(acked) /\ Calling = None /\ Intended = None

LEMMA Mapping == IInv /\ LedgerInv => Mapped
<1> SUFFICES ASSUME IInv, LedgerInv PROVE Mapped
  OBVIOUS
<1>1. /\ lock \in Procs \cup {NoProc} /\ OneSession
      /\ \A q \in Procs : lock = q => pc[q] \in Holding
  BY DEF IInv, JournalTypeOK, LedgerInv, MemoryInv
<1>2. ASSUME NEW q \in Procs, Working(q) PROVE holder = q /\ holder # NoProc
  BY <1>1, <1>2, PilotAssumption DEF OneSession, Working, holder
<1>3. ASSUME \A q \in Procs : ~Working(q) PROVE holder = NoProc
  BY <1>1, <1>3 DEF Working, holder
<1> QED
  BY <1>2, <1>3 DEF Mapped, View, Calling, Intended, Advanced

LEMMA MappingNext == IInv' /\ LedgerInv' => Mapped'
BY Mapping, PTL
\* Each step of the promise, of its parts alone.
LEMMA PromiseOpens ==
    ASSUME NEW p \in Procs, holder = NoProc, holder' = p, Usable(View'),
           \/ View' = Replay(acked)
           \/ \E e \in Event : Valid(Replay(acked), e) /\ View' = Apply(Replay(acked), e),
           UNCHANGED <<acked, wire>>, Calling' = Calling, Intended' = Intended
    PROVE  Promise!Open(p)
BY SameEvents DEF Promise!Open, View, Calling, Intended

LEMMA PromiseExtends ==
    ASSUME NEW p \in Procs, NEW e \in Event, holder = p, holder' = p, Calling = None,
           Intended = None, Valid(View, e), View' = Apply(View, e), Calling' = e,
           Intended' = Intended, UNCHANGED <<acked, wire>>
    PROVE  Promise!Extend(p, e)
BY SameEvents DEF Promise!Extend, View, Calling, Intended

LEMMA PromiseReturns ==
    ASSUME NEW p \in Procs, holder = p, holder' = p, Calling # None,
           Replay(acked') = View, Calling' = None, View' = View, wire' = wire,
           Intended' = IF Calling.kind = "request" THEN Calling ELSE None
    PROVE  Promise!Return(p)
<1>1. Replay(acked)' = Replay(acked')
  BY DEF Replay, Ledgers, EmptyLedger, Apply
<1> QED
  BY <1>1 DEF Promise!Return, View, Calling, Intended

LEMMA PromiseFails ==
    ASSUME NEW p \in Procs, holder = p, holder' = p, Calling' = None, Intended' = None,
           View' = View, UNCHANGED <<acked, wire>>
    PROVE  Promise!Fail(p)
BY DEF Promise!Fail, View, Calling, Intended

LEMMA PromiseSends ==
    ASSUME NEW p \in Procs, holder = p, holder' = p, Intended # None, Intended' = None,
           wire' = Append(wire, Intended), View' = View, Calling' = Calling, acked' = acked
    PROVE  Promise!Send(p)
BY DEF Promise!Send, View, Calling, Intended

LEMMA PromiseCloses ==
    ASSUME NEW p \in Procs, holder = p, holder' = NoProc, Calling' = None,
           Intended' = None, View' = Replay(acked), UNCHANGED <<acked, wire>>
    PROVE  Promise!Close(p)
BY DEF Promise!Close, View, Calling, Intended

LEMMA PromiseStutters ==
    ASSUME holder' = holder, View' = View, Calling' = Calling, Intended' = Intended,
           Replay(acked') = Replay(acked), wire' = wire
    PROVE  UNCHANGED Promise!vars
<1>1. Replay(acked)' = Replay(acked')
  BY DEF Replay, Ledgers, EmptyLedger, Apply
<1> QED
  BY <1>1 DEF Promise!vars, View, Calling, Intended

\* A session starts from the acknowledged ledger or one event after it.
LEMMA LoadMaps ==
    ASSUME IInv, LedgerInv, Usable(Replay(Events))
    PROVE  \/ Replay(Events) = Replay(acked)
           \/ \E e \in Event : /\ Valid(Replay(acked), e)
                               /\ Replay(Events) = Apply(Replay(acked), e)
<1>1. /\ files \in Seq(EventFile) /\ Len(files) \in Nat
      /\ Events \in Seq(Event) /\ Len(Events) = Len(files)
      /\ Len(acked) \in 0..Len(files) /\ Replay(acked) = Ledgers(Events)[Len(acked)]
      /\ FilesInv
  BY EventsType, AckedIsPrefix DEF IInv, JournalTypeOK, LedgerInv, After
<1>2. Len(files) \notin (Len(acked) + 2)..Len(files)
  BY <1>1 DEF FilesInv, After, Replay
<1>3. CASE Len(files) = Len(acked)
  BY <1>1, <1>3 DEF Replay
<1>4. CASE Len(files) = Len(acked) + 1
  <2> DEFINE n == Len(files)
             e == Events[n]
  <2>1. n \in 1..Len(Events) /\ n \in 0..Len(Events) /\ n # 0 /\ n - 1 = Len(acked)
    BY <1>1, <1>4
  <2>2. e \in Event /\ Valid(Ledgers(Events)[n - 1], e)
    BY <1>1, <2>1 DEF FilesInv, Replayable
  <2>3. Ledgers(Events)[n] = Apply(Ledgers(Events)[n - 1], e)
    <3>1. Follows(Ledgers(Events), Events, Len(Events))
      BY <1>1, LedgersFollow
    <3> QED
      BY <2>1, <3>1 DEF Follows
  <2>4. Replay(Events) = Ledgers(Events)[n]
    BY <1>1 DEF Replay
  <2> HIDE DEF n, e
  <2> QED
    BY <1>1, <2>1, <2>2, <2>3, <2>4
<1> QED
  BY <1>1, <1>2, <1>3, <1>4
\* What a step of p does to the promise, when p works before or after it.
LEMMA WorkerMaps ==
    ASSUME IInv, LedgerInv, IInv', LedgerInv', NEW p \in Procs, Step(p),
           Working(p) \/ Working(p)'
    PROVE  [Promise!Next]_Promise!vars
<1> USE DEF journal, memory, history, Goto
<1>a. /\ JournalTypeOK /\ AppendInv(p) /\ MemoryInv(p) /\ ledger \in [Procs -> Ledger]
      /\ pc \in [Procs -> Phase] /\ cur \in [Procs -> Event \cup {None}]
      /\ head \in [Procs -> Seq(Event)]
      /\ link \in [Procs -> {"closed", "intent", "open"}]
      /\ OneSession /\ OneSession' /\ Mapped /\ Mapped'
  BY Mapping, MappingNext DEF IInv, JournalTypeOK, LedgerInv
<1>b. \A q \in Procs \ {p} : Working(q)' <=> Working(q)
  BY OthersStand DEF Working
<1>c. \A q \in Procs \ {p} : ~Working(q)
  <2>1. SUFFICES ASSUME NEW q \in Procs \ {p}, Working(q) PROVE FALSE
    OBVIOUS
  <2>2. Working(q)' /\ ~Working(p)
    BY <1>a, <1>b, <2>1 DEF Working, OneSession
  <2>3. Working(p)'
    BY <2>2
  <2> QED
    BY <1>a, <2>2, <2>3 DEF Working, OneSession
<1>d. None \notin Event /\ \A e \in Event : e \in Request <=> e.kind = "request"
  BY NoneAssumption DEF Event, Request, Received, Finish, Stop
<1>1. CASE ~Working(p)
  <2>1. Working(p)'
    BY <1>1
  <2>2. /\ holder = NoProc /\ View = Replay(acked) /\ Calling = None /\ Intended = None
    BY <1>a, <1>c, <1>1 DEF Mapped
  <2>3. /\ holder' = p /\ View' = ledger'[p]
        /\ Calling' = IF pc'[p] \in Advanced THEN cur'[p] ELSE None
        /\ Intended' = IF link'[p] = "intent" THEN cur'[p] ELSE None
    BY <1>a, <2>1 DEF Mapped, Advanced
  <2>4. link[p] = "closed"
    BY <1>a, <1>1 DEF MemoryInv
  <2>5. CASE Load(p)
    <3>1. /\ pc'[p] = "ready" /\ ledger'[p] = Replay(Events) /\ link' = link
          /\ Usable(Replay(Events)) /\ UNCHANGED <<acked, wire>>
      BY <1>a, <2>5 DEF Load
    <3>2. Calling' = Calling /\ Intended' = Intended
      BY <2>2, <2>3, <2>4, <3>1 DEF Advanced
    <3>3. \/ View' = Replay(acked)
          \/ \E e \in Event : Valid(Replay(acked), e) /\ View' = Apply(Replay(acked), e)
      BY <2>3, <3>1, LoadMaps
    <3>4. Promise!Open(p)
      BY <2>2, <2>3, <3>1, <3>2, <3>3, PromiseOpens
    <3> QED
      BY <3>4 DEF Promise!Next
  <2>6. CASE Flock(p)
    <3>1. /\ pc[p] = "flock_new" /\ pc'[p] = "overwrite"
          /\ UNCHANGED <<journal, memory, acked, wire>>
      BY <1>a, <2>1, <2>6 DEF Flock, Working, Holding, Appending
    <3>2. files = <<>> /\ head[p] = <<>> /\ cur[p] = None
      BY <1>a, <1>1, <3>1 DEF LedgerInv, FoundingInv, Founding, MemoryInv, AppendInv, Creating
    <3>3. acked = <<>>
      BY <3>2, AckedIsPrefix DEF IInv, JournalTypeOK
    <3>4. View' = Replay(acked) /\ Replay(acked) = EmptyLedger
      <4>1. ledger[p] = Replay(<<>>)
        BY <1>a, <3>2 DEF MemoryInv
      <4>2. Replay(<<>>) = EmptyLedger
        BY LedgersType, EmptySeq DEF Replay
      <4> QED
        BY <2>3, <3>1, <3>3, <4>1, <4>2
    <3>5. Usable(View')
      BY <3>4, BudgetAssumption DEF Usable, EmptyLedger
    <3>6. Calling' = Calling /\ Intended' = Intended
      BY <2>2, <2>3, <2>4, <3>1, <3>2
    <3>7. Promise!Open(p)
      BY <2>2, <2>3, <3>1, <3>4, <3>5, <3>6, PromiseOpens
    <3> QED
      BY <3>7 DEF Promise!Next
  <2>7. pc[p] \in {"idle", "flock", "load"} \cup Creating
    BY <1>a, <1>1 DEF Working, Phase, Holding, Creating
  <2>8. pc'[p] \in Holding \ {"load"}
    BY <2>1 DEF Working
  <2> QED
    BY <1>a, <2>5, <2>6, <2>7, <2>8
       DEF Step, MakeDirectory, SyncParent, CreateCheckpoint, OpenCheckpoint,
           FlockBusy, LoadRefused, RecordRequest, RecordReceived, FinishRequest,
           RecordStop, Reserve, Refuse, CreateEvent, WriteEvent, ApplyEvent,
           OverwriteCheckpoint, CompleteCheckpoint, SyncCheckpoint, Fail, Send,
           Release, Kill, Leave, Holding, Appending, Creating
<1>2. CASE Working(p) /\ ~Working(p)'
  <2>1. holder = p /\ \A q \in Procs : ~Working(q)'
    BY <1>a, <1>b, <1>c, <1>2 DEF Mapped
  <2>2. UNCHANGED <<acked, wire>>
    BY <1>a, <1>2
       DEF Step, MakeDirectory, SyncParent, CreateCheckpoint, OpenCheckpoint, Flock,
           FlockBusy, Load, LoadRefused, RecordRequest, RecordReceived, FinishRequest,
           RecordStop, Call, Reserve, Refuse, CreateEvent, WriteEvent, ApplyEvent,
           OverwriteCheckpoint, CompleteCheckpoint, SyncCheckpoint, Fail, Send,
           Release, Kill, Working, Holding, Appending
  <2>3. holder' = NoProc /\ View' = Replay(acked') /\ Calling' = None /\ Intended' = None
    <3>1. (\A q \in Procs : ~Working(q)') =>
             holder' = NoProc /\ View' = Replay(acked)' /\ Calling' = None /\ Intended' = None
      BY <1>a DEF Mapped
    <3>2. Replay(acked)' = Replay(acked')
      BY DEF Replay, Ledgers, EmptyLedger, Apply
    <3> QED
      BY <2>1, <3>1, <3>2
  <2>4. Promise!Close(p)
    BY <2>1, <2>2, <2>3, PromiseCloses
  <2> QED
    BY <2>4 DEF Promise!Next
<1>3. CASE Working(p) /\ Working(p)'
  <2>1. /\ holder = p /\ View = ledger[p]
        /\ Calling = IF pc[p] \in Advanced THEN cur[p] ELSE None
        /\ Intended = IF link[p] = "intent" THEN cur[p] ELSE None
    BY <1>a, <1>3 DEF Mapped
  <2>2. /\ holder' = p /\ View' = ledger'[p]
        /\ Calling' = IF pc'[p] \in Advanced THEN cur'[p] ELSE None
        /\ Intended' = IF link'[p] = "intent" THEN cur'[p] ELSE None
    BY <1>a, <1>3 DEF Mapped, Advanced
  <2>3. link[p] = "intent" => pc[p] = "ready" /\ cur[p] \in Request
    BY <1>a DEF AppendInv
  <2>4. CASE \/ RecordRequest(p) \/ RecordReceived(p) \/ FinishRequest(p)
             \/ RecordStop(p) /\ link[p] # "intent"
             \/ Reserve(p) \/ Refuse(p) \/ CreateEvent(p) \/ WriteEvent(p)
    <3>1. /\ pc[p] \notin Advanced /\ pc'[p] \notin Advanced /\ ledger' = ledger
          /\ link[p] # "intent" /\ link'[p] # "intent" /\ UNCHANGED <<acked, wire>>
      BY <1>a, <2>3, <2>4 DEF RecordRequest, RecordReceived, FinishRequest, RecordStop, Call,
         Reserve, Refuse, CreateEvent, WriteEvent, Advanced
    <3>2. UNCHANGED Promise!vars
      BY <2>1, <2>2, <3>1, PromiseStutters
    <3> QED
      BY <3>2
  <2>5. CASE OverwriteCheckpoint(p) \/ CompleteCheckpoint(p)
    <3>1. /\ pc[p] \in Advanced /\ pc'[p] \in Advanced /\ UNCHANGED <<memory, acked, wire>>
      BY <1>a, <2>5 DEF OverwriteCheckpoint, CompleteCheckpoint, Advanced
    <3>2. UNCHANGED Promise!vars
      BY <2>1, <2>2, <3>1, PromiseStutters
    <3> QED
      BY <3>2
  <2>6. CASE RecordStop(p) /\ link[p] = "intent"
    <3>1. /\ pc'[p] = "reserve" /\ link'[p] = "closed" /\ ledger' = ledger
          /\ UNCHANGED <<acked, wire>>
      BY <1>a, <2>6 DEF RecordStop, Call
    <3>2. Promise!Fail(p)
      BY <2>1, <2>2, <3>1, PromiseFails DEF Advanced
    <3> QED
      BY <3>2 DEF Promise!Next
  <2>7. CASE ApplyEvent(p)
    <3>1. /\ pc[p] = "apply" /\ pc'[p] = "overwrite" /\ cur' = cur /\ link' = link
          /\ ledger'[p] = Apply(ledger[p], cur[p]) /\ UNCHANGED <<acked, wire>>
      BY <1>a, <2>7 DEF ApplyEvent
    <3>2. cur[p] \in Event /\ Valid(ledger[p], cur[p])
      BY <1>a, <3>1 DEF AppendInv, MemoryInv, Making
    <3>3. Promise!Extend(p, cur[p])
      BY <2>1, <2>2, <2>3, <3>1, <3>2, PromiseExtends DEF Advanced
    <3> QED
      BY <3>2, <3>3, SameEvents DEF Promise!Next
  <2>8. CASE SyncCheckpoint(p)
    <3>1. /\ pc[p] = "sync" /\ pc'[p] \in {"ready", "failed"} /\ acked' = head[p]
          /\ ledger' = ledger /\ cur' = cur /\ wire' = wire
          /\ link'[p] = IF cur[p] \in Request THEN "intent"
                        ELSE IF cur[p] \in Received THEN link[p] ELSE "closed"
      BY <1>a, <2>8 DEF SyncCheckpoint
    <3>2. ledger[p] = Replay(acked') /\ link[p] # "intent"
      BY <1>a, <2>3, <3>1 DEF MemoryInv
    <3>3. Calling = cur[p] /\ Intended = None /\ Calling' = None
      BY <2>1, <2>2, <3>1, <3>2 DEF Advanced
    <3>4. CASE cur[p] = None
      <4>1. files = <<>>
        BY <3>1, <3>4 DEF LedgerInv, FoundingInv, Founding, Advanced
      <4>2. head[p] = Events /\ Events = <<>> /\ acked = <<>>
        <5>1. head[p] = Events /\ Events = <<>>
          BY <1>a, <3>1, <4>1 DEF MemoryInv, Advanced, Events
        <5>2. Len(acked) \in 0..Len(files) /\ acked \in Seq(Event) /\ Len(files) = 0
          BY <1>a, <4>1, AckedIsPrefix DEF JournalTypeOK
        <5> QED
          BY <5>1, <5>2
      <4>3. None \notin Request
        BY <1>d DEF Event
      <4>4. UNCHANGED Promise!vars
        BY <2>1, <2>2, <3>1, <3>2, <3>3, <3>4, <4>2, <4>3, PromiseStutters
      <4> QED
        BY <4>4
    <3>5. CASE cur[p] # None
      <4>1. cur[p] \in Event
        BY <1>a, <3>5
      <4>2. Intended' = IF Calling.kind = "request" THEN Calling ELSE None
        BY <1>d, <2>2, <3>1, <3>2, <3>3, <4>1
      <4>3. Promise!Return(p)
        BY <2>1, <2>2, <3>1, <3>2, <3>3, <3>5, <4>2, PromiseReturns
      <4> QED
        BY <4>3 DEF Promise!Next
    <3> QED
      BY <3>4, <3>5
  <2>9. CASE Fail(p)
    <3>1. /\ pc'[p] = "failed" /\ pc[p] # "ready" /\ UNCHANGED <<memory, acked, wire>>
      BY <1>a, <1>3, <2>9 DEF Fail, Leave, Working, Holding, Appending
    <3>2. Promise!Fail(p)
      BY <2>1, <2>2, <2>3, <3>1, PromiseFails DEF Advanced
    <3> QED
      BY <3>2 DEF Promise!Next
  <2>10. CASE Send(p)
    <3>1. /\ link[p] = "intent" /\ link'[p] = "open" /\ wire' = Append(wire, cur[p])
          /\ UNCHANGED <<pc, cur, ledger, acked>>
      BY <1>a, <2>10 DEF Send
    <3>2. cur[p] # None /\ pc[p] \notin Advanced
      BY <1>d, <2>3, <3>1 DEF Event, Advanced
    <3>3. Promise!Send(p)
      BY <2>1, <2>2, <3>1, <3>2, PromiseSends
    <3> QED
      BY <3>3 DEF Promise!Next
  <2>11. pc[p] \notin {"idle", "flock", "load"} \cup Creating
    BY <1>3 DEF Working, Holding, Appending, Creating
  <2>12. ~Leave(p)
    BY <1>a, <1>3 DEF Leave, Working, Holding, Appending
  <2> QED
    BY <2>4, <2>5, <2>6, <2>7, <2>8, <2>9, <2>10, <2>11, <2>12
       DEF Step, MakeDirectory, SyncParent, CreateCheckpoint, OpenCheckpoint, Flock,
           FlockBusy, Load, LoadRefused, Release, Kill, Creating
<1> QED
  BY <1>1, <1>2, <1>3

\* A step of a process that neither works nor begins to changes nothing in the
\* promise: whoever holds it stands still.
LEMMA OutsiderMaps ==
    ASSUME IInv, LedgerInv, IInv', LedgerInv', NEW p \in Procs, Step(p),
           ~Working(p), ~Working(p)'
    PROVE  UNCHANGED Promise!vars
<1> USE DEF journal, memory, history, Goto
<1>a. Mapped /\ Mapped' /\ pc \in [Procs -> Phase]
  BY Mapping, MappingNext DEF IInv, JournalTypeOK
<1>1. UNCHANGED <<acked, wire>>
  BY <1>a DEF Step, MakeDirectory, SyncParent, CreateCheckpoint, OpenCheckpoint, Flock,
     FlockBusy, Load, LoadRefused, RecordRequest, RecordReceived, FinishRequest,
     RecordStop, Call, Reserve, Refuse, CreateEvent, WriteEvent, ApplyEvent,
     OverwriteCheckpoint, CompleteCheckpoint, SyncCheckpoint, Fail, Send,
     Release, Kill, Leave, Working, Holding, Appending, Creating
<1>2. CASE \A q \in Procs : ~Working(q)
  <2>1. \A q \in Procs : ~Working(q)'
    BY <1>2, OthersStand DEF Working
  <2>2. /\ holder = NoProc /\ View = Replay(acked) /\ Calling = None /\ Intended = None
        /\ holder' = NoProc /\ View' = Replay(acked)' /\ Calling' = None /\ Intended' = None
    BY <1>a, <1>2, <2>1 DEF Mapped
  <2>3. Replay(acked)' = Replay(acked)
    BY <1>1 DEF Replay, Ledgers, EmptyLedger, Apply
  <2> QED
    BY <1>1, <2>2, <2>3, PromiseStutters
<1>3. CASE \E q \in Procs : Working(q)
  <2>1. PICK q \in Procs : Working(q)
    BY <1>3
  <2>2. /\ pc'[q] = pc[q] /\ cur'[q] = cur[q] /\ link'[q] = link[q] /\ ledger'[q] = ledger[q]
    BY <2>1, OthersStand
  <2>3. Working(q)'
    BY <2>1, <2>2 DEF Working
  <2>4. /\ holder = q /\ View = ledger[q]
        /\ Calling = IF pc[q] \in Advanced THEN cur[q] ELSE None
        /\ Intended = IF link[q] = "intent" THEN cur[q] ELSE None
    BY <1>a, <2>1 DEF Mapped
  <2>5. /\ holder' = q /\ View' = ledger'[q]
        /\ Calling' = IF pc'[q] \in Advanced THEN cur'[q] ELSE None
        /\ Intended' = IF link'[q] = "intent" THEN cur'[q] ELSE None
    BY <1>a, <2>3 DEF Mapped, Advanced
  <2> QED
    BY <1>1, <2>2, <2>4, <2>5, PromiseStutters
<1> QED
  BY <1>2, <1>3

\* A host crash closes the session, if there is one.
LEMMA CrashMaps ==
    ASSUME IInv, LedgerInv, IInv', LedgerInv', HostCrash
    PROVE  [Promise!Next]_Promise!vars
<1>a. Mapped /\ Mapped' /\ UNCHANGED <<acked, wire>>
  BY Mapping, MappingNext DEF HostCrash
<1>1. \A q \in Procs : ~Working(q)'
  BY DEF HostCrash, Working, Holding, Appending
<1>2. holder' = NoProc /\ View' = Replay(acked)' /\ Calling' = None /\ Intended' = None
  BY <1>a, <1>1 DEF Mapped
<1>3. Replay(acked)' = Replay(acked)
  BY <1>a DEF Replay, Ledgers, EmptyLedger, Apply
<1>4. CASE \A q \in Procs : ~Working(q)
  <2>1. holder = NoProc /\ View = Replay(acked) /\ Calling = None /\ Intended = None
    BY <1>a, <1>4 DEF Mapped
  <2>2. UNCHANGED Promise!vars
    BY <1>a, <1>2, <1>3, <2>1, PromiseStutters
  <2> QED
    BY <2>2
<1>5. ASSUME NEW q \in Procs, Working(q) PROVE Promise!Next
  <2>1. holder = q
    BY <1>a, <1>5 DEF Mapped
  <2>2. Promise!Close(q)
    BY <1>a, <1>2, <1>3, <2>1, PromiseCloses
  <2> QED
    BY <2>2 DEF Promise!Next
<1> QED
  BY <1>4, <1>5

\* Every behaviour of the journal, with all its crashes, faults and sessions, is
\* one of the promise: one ledger that nothing rolls back, and no request on the
\* wire that it has not counted (network_budget.py, as network.py uses it).
THEOREM JournalImplementsLedger == Spec => ImplementsLedger
<1>1. Init => Promise!Init
  <2> SUFFICES ASSUME Init PROVE Promise!Init
    OBVIOUS
  <2>1. lock = NoProc /\ acked = <<>> /\ wire = <<>>
    BY DEF Init
  <2>2. Replay(<<>>) = EmptyLedger
    BY LedgersType, EmptySeq DEF Replay
  <2> QED
    BY <2>1, <2>2, SameEvents DEF Promise!Init, holder
<1>2. IInv /\ IInv' /\ LedgerInv /\ LedgerInv' /\ [Next]_vars => [Promise!Next]_Promise!vars
  <2> SUFFICES ASSUME IInv, IInv', LedgerInv, LedgerInv', [Next]_vars
               PROVE  [Promise!Next]_Promise!vars
    OBVIOUS
  <2>1. ASSUME NEW p \in Procs, Step(p) PROVE [Promise!Next]_Promise!vars
    BY <2>1, WorkerMaps, OutsiderMaps
  <2>2. CASE HostCrash
    BY <2>2, CrashMaps
  <2>3. CASE UNCHANGED vars
    <3>1. Replay(acked') = Replay(acked)
      BY <2>3 DEF vars, history
    <3>2. UNCHANGED Promise!vars
      <4>1. holder' = holder
        BY <2>3 DEF vars, holder
      <4>2. View' = View /\ Calling' = Calling /\ Intended' = Intended /\ wire' = wire
        BY <2>3, <4>1 DEF vars, memory, history, View, Calling, Intended, Replay, Ledgers,
           EmptyLedger, Apply
      <4> QED
        BY <3>1, <4>1, <4>2, PromiseStutters
    <3> QED
      BY <3>2
  <2> QED
    BY <2>1, <2>2, <2>3 DEF Next
<1>3. QED
  BY <1>1, <1>2, JournalInvariant, LedgerInvariant, PTL DEF Spec, ImplementsLedger, Promise!Spec
=============================================================================
