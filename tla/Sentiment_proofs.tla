--------------------------- MODULE Sentiment_proofs ---------------------------
(***************************************************************************)
(* Proofs about the sentiment store and what is derived from it.  Of       *)
(* ContentStore: a name shows a complete bundle or nothing, and            *)
(* publish_bundle implements WriteOnce, for any number of writers,         *)
(* digests, names, payload files and crashes.  Of the normalizer and the   *)
(* rows over it: the row of a covered decision never changes, nothing is   *)
(* available before its first sighting, and a state whose sightings have   *)
(* texts in the order of their instants is the one that its facts replay   *)
(* to, for any clock, archive, minutes, plans, restarts and grid.          *)
(***************************************************************************)
EXTENDS Sentiment, Sequences, FiniteSetTheorems, WellFoundedInduction, TLAPS

-----------------------------------------------------------------------------
(* The store. *)

\* What a writer has done when it comes to a phase: it renames a complete and
\* synced bundle of its own, and verifies the one it published.
WriterInv(w) ==
    /\ pc[w] \in Putting => target[w] \in Digests
    /\ pc[w] \in Publishing => target[w] \in Names
    /\ pc[w] \in {"payload", "manifest", "sync_tree", "rename"} =>
        staged[w] \in Bundle /\ staged[w].author = w
    /\ pc[w] = "payload" => staged[w].payloads < Payloads
    /\ pc[w] \in {"manifest", "sync_tree", "rename"} => staged[w].payloads = Payloads
    /\ pc[w] \in {"sync_tree", "rename"} => staged[w].manifest
    /\ pc[w] = "rename" => staged[w].synced
    /\ pc[w] \in {"sync_parent", "verify"} =>
        published[target[w]] # None /\ published[target[w]].author = w
    /\ pc[w] = "verify" => target[w] \in publishedSynced

\* A published bundle is complete and was synced; the one its writer was told of
\* is that writer's, under a synced name.
NameInv(n) ==
    /\ published[n] # None => Verified(n) /\ published[n].synced
    /\ n \in publishedSynced => published[n] # None
    /\ winner[n] # None =>
        published[n] # None /\ published[n].author = winner[n] /\ n \in publishedSynced

IInv ==
    /\ TypeOK
    /\ \A w \in Writers : WriterInv(w)
    /\ \A n \in Names : NameInv(n)

\* Publications that are there stay, and synced names stay synced.
Kept ==
    /\ \A n \in Names : published[n] # None => published'[n] = published[n]
    /\ publishedSynced \subseteq publishedSynced'

\* What no step of w changes for another writer.
OthersSame(w) ==
    \A x \in Writers \ {w} :
        pc'[x] = pc[x] /\ target'[x] = target[x] /\ staged'[x] = staged[x]

\* What a reader of the publications sees.
Shown == [n \in Names |-> IF published[n] = None THEN None ELSE published[n].author]

-----------------------------------------------------------------------------
LEMMA InitInv == Init => IInv
BY StoreAssumption DEF Init, IInv, TypeOK, WriterInv, NameInv, FileState, Putting, Publishing

\* A step of one writer that keeps the publications leaves the others' invariants.
LEMMA OtherWriters ==
    ASSUME IInv, NEW w \in Writers, OthersSame(w), Kept, WriterInv(w)'
    PROVE  \A x \in Writers : WriterInv(x)'
<1> SUFFICES ASSUME NEW x \in Writers, x # w PROVE WriterInv(x)'
  OBVIOUS
<1>1. WriterInv(x)
  BY DEF IInv
<1>2. pc'[x] = pc[x] /\ target'[x] = target[x] /\ staged'[x] = staged[x]
  BY DEF OthersSame
<1>3. pc[x] \in {"sync_parent", "verify"} => published'[target[x]] = published[target[x]]
  BY <1>1 DEF WriterInv, Kept, Publishing
<1> QED
  BY <1>1, <1>2, <1>3 DEF WriterInv, Kept

\* Whoever leaves has nothing.
LEMMA Leaving ==
    ASSUME IInv, NEW w \in Writers, Leave(w), UNCHANGED <<files, winner>>, stored' \subseteq Digests
    PROVE  IInv'
<1>1. TypeOK'
  BY DEF IInv, TypeOK, Leave, Goto, FileState, files
<1>2. OthersSame(w) /\ Kept
  BY DEF OthersSame, Kept, Leave, Goto, IInv, TypeOK, files
<1>3. WriterInv(w)'
  BY DEF WriterInv, Leave, Goto, IInv, TypeOK, Putting, Publishing
<1>4. \A n \in Names : NameInv(n)'
  BY DEF NameInv, Verified, IInv, files
<1> QED
  BY <1>1, <1>2, <1>3, <1>4, OtherWriters DEF IInv

\* The steps of put_bytes that go on, and the failures of publish_bundle that do.
LEMMA PuttingSteps ==
    ASSUME IInv, NEW w \in Writers,
           \/ (\E d \in Digests : PutBytes(w, d)) \/ CreateTemporary(w) \/ WriteTemporary(w)
           \/ LinkObject(w) \/ SyncBucket(w) \/ VerifyObject(w)
    PROVE  IInv' /\ UNCHANGED <<published, winner>>
<1> USE DEF Goto, files, memory
<1>0. WriterInv(w) /\ TypeOK
  BY DEF IInv
<1>1. UNCHANGED <<published, publishedSynced, winner>>
  BY DEF PutBytes, CreateTemporary, WriteTemporary, LinkObject, SyncBucket, VerifyObject
<1>2. TypeOK'
  <2>1. CASE \E d \in Digests : PutBytes(w, d)
    BY <1>0, <2>1 DEF PutBytes, TypeOK, Putting
  <2>2. CASE CreateTemporary(w)
    BY <1>0, <2>2 DEF CreateTemporary, TypeOK, Putting, FileState
  <2>3. CASE WriteTemporary(w)
    BY <1>0, <2>3 DEF WriteTemporary, TypeOK, Putting, FileState
  <2>4. CASE LinkObject(w)
    BY <1>0, <2>4 DEF LinkObject, TypeOK, Putting, WriterInv
  <2>5. CASE SyncBucket(w)
    BY <1>0, <2>5 DEF SyncBucket, TypeOK, Putting, WriterInv
  <2>6. CASE VerifyObject(w)
    BY <1>0, <2>6 DEF VerifyObject, TypeOK, Putting
  <2> QED
    BY <2>1, <2>2, <2>3, <2>4, <2>5, <2>6
<1>3. OthersSame(w) /\ Kept
  BY <1>0, <1>1 DEF PutBytes, CreateTemporary, WriteTemporary, LinkObject, SyncBucket, VerifyObject,
                    OthersSame, Kept, TypeOK
<1>4. pc'[w] \in Putting /\ target'[w] \in Digests
  BY <1>0 DEF PutBytes, CreateTemporary, WriteTemporary, LinkObject, SyncBucket, VerifyObject,
              TypeOK, Putting, WriterInv
<1>5. WriterInv(w)'
  BY <1>4 DEF WriterInv, Putting, Publishing
<1>6. \A n \in Names : NameInv(n)'
  BY <1>1 DEF NameInv, Verified, IInv
<1> QED
  BY <1>1, <1>2, <1>3, <1>5, <1>6, OtherWriters DEF IInv

\* The steps that stage a bundle; a collision or a failure leaves it.
LEMMA StagingSteps ==
    ASSUME IInv, NEW w \in Writers,
           \/ (\E n \in Names : PublishBundle(w, n)) \/ MakeStaging(w) \/ WritePayload(w)
           \/ WriteManifest(w) \/ SyncTree(w) \/ Collide(w)
    PROVE  IInv' /\ UNCHANGED <<published, winner>>
<1> USE DEF Goto, files, memory
<1>0. WriterInv(w) /\ TypeOK /\ Payloads \in Nat \ {0}
  BY StoreAssumption DEF IInv
<1>1. UNCHANGED <<object, objectSynced, published, publishedSynced, stored, winner>>
  BY DEF PublishBundle, MakeStaging, WritePayload, WriteManifest, SyncTree, Collide
<1>2. TypeOK' /\ WriterInv(w)'
  <2>1. CASE \E n \in Names : PublishBundle(w, n)
    BY <1>0, <2>1 DEF PublishBundle, TypeOK, Putting, Publishing, WriterInv
  <2>2. CASE MakeStaging(w)
    BY <1>0, <2>2 DEF MakeStaging, TypeOK, Putting, Publishing, WriterInv, Bundle
  <2>3. CASE WritePayload(w)
    <3>1. staged'[w] \in Bundle /\ staged'[w].author = w
          /\ staged'[w].payloads = staged[w].payloads + 1
      BY <1>0, <2>3 DEF WritePayload, TypeOK, WriterInv, Bundle
    <3>2. TypeOK'
      BY <1>0, <2>3, <3>1 DEF WritePayload, TypeOK, Publishing
    <3> QED
      BY <1>0, <2>3, <3>1, <3>2 DEF WritePayload, TypeOK, Putting, Publishing, WriterInv, Bundle
  <2>4. CASE WriteManifest(w)
    BY <1>0, <2>4 DEF WriteManifest, TypeOK, Putting, Publishing, WriterInv, Bundle
  <2>5. CASE SyncTree(w)
    BY <1>0, <2>5 DEF SyncTree, TypeOK, Putting, Publishing, WriterInv, Bundle
  <2>6. CASE Collide(w)
    BY <1>0, <2>6 DEF Collide, TypeOK, Putting, Publishing, WriterInv
  <2> QED
    BY <2>1, <2>2, <2>3, <2>4, <2>5, <2>6
<1>3. OthersSame(w) /\ Kept
  BY <1>0, <1>1 DEF PublishBundle, MakeStaging, WritePayload, WriteManifest, SyncTree, Collide,
                    OthersSame, Kept, TypeOK
<1>4. \A n \in Names : NameInv(n)'
  BY <1>1 DEF NameInv, Verified, IInv
<1> QED
  BY <1>1, <1>2, <1>3, <1>4, OtherWriters DEF IInv

\* The rename shows a complete bundle under a name that showed none.
LEMMA RenameInv ==
    ASSUME IInv, NEW w \in Writers, Rename(w)
    PROVE  IInv' /\ Store!Publish(target[w], w) /\ target[w] \in Names
<1> DEFINE t == target[w]
<1>0. /\ WriterInv(w) /\ TypeOK /\ pc[w] = "rename" /\ t \in Names
      /\ staged[w] \in Bundle /\ staged[w] # None /\ staged[w].author = w
  BY StoreAssumption DEF IInv, Rename, WriterInv, Publishing
<1>1. TypeOK'
  BY <1>0 DEF Rename, TypeOK, Goto, Publishing
<1>2. OthersSame(w) /\ Kept
  BY <1>0 DEF Rename, OthersSame, Kept, TypeOK, Goto
<1>3. WriterInv(w)'
  BY <1>0 DEF Rename, WriterInv, TypeOK, Goto, Putting, Publishing
<1>4. \A n \in Names : NameInv(n)'
  BY <1>0 DEF Rename, NameInv, Verified, IInv, TypeOK, WriterInv
<1>5. Shown' = [Shown EXCEPT ![t] = w]
  BY <1>0 DEF Rename, Shown, TypeOK
<1>6. Store!Publish(t, w)
  BY <1>0, <1>5 DEF Rename, Store!Publish, Shown
<1> QED
  BY <1>0, <1>1, <1>2, <1>3, <1>4, <1>6, OtherWriters DEF IInv

\* One fsync of publications/ makes every publication that is there durable.
LEMMA SyncParentInv ==
    ASSUME IInv, NEW w \in Writers, SyncParent(w)
    PROVE  IInv' /\ UNCHANGED <<published, winner>>
<1>0. WriterInv(w) /\ TypeOK /\ pc[w] = "sync_parent" /\ target[w] \in Names
  BY DEF IInv, SyncParent, WriterInv, Publishing
<1>1. TypeOK' /\ UNCHANGED <<published, winner>>
  BY <1>0 DEF SyncParent, TypeOK, Goto, Publishing, memory
<1>2. publishedSynced \subseteq publishedSynced'
  BY <1>0 DEF SyncParent, TypeOK, NameInv, IInv
<1>3. OthersSame(w) /\ Kept
  BY <1>0, <1>1, <1>2 DEF SyncParent, OthersSame, Kept, TypeOK, Goto, memory
<1>4. WriterInv(w)'
  BY <1>0 DEF SyncParent, WriterInv, TypeOK, Goto, Putting, Publishing, memory
<1>5. \A n \in Names : NameInv(n)'
  BY <1>1, <1>2 DEF SyncParent, NameInv, Verified, IInv
<1> QED
  BY <1>1, <1>3, <1>4, <1>5, OtherWriters DEF IInv

\* publish_bundle returns: the bundle it read back is its own and is durable.
LEMMA VerifyInv ==
    ASSUME IInv, NEW w \in Writers, VerifyPublication(w)
    PROVE  IInv' /\ Store!Return(target[w]) /\ target[w] \in Names
<1> DEFINE t == target[w]
<1>0. /\ WriterInv(w) /\ TypeOK /\ pc[w] = "verify" /\ t \in Names
      /\ published[t] # None /\ published[t].author = w /\ t \in publishedSynced
      /\ Verified(t)
  BY DEF IInv, VerifyPublication, WriterInv, Publishing, NameInv
<1>1. /\ winner' = [winner EXCEPT ![t] = w]
      /\ Leave(w) /\ UNCHANGED <<files, stored>>
  BY <1>0 DEF VerifyPublication
<1> HIDE DEF t
<1>2. TypeOK'
  BY <1>0, <1>1 DEF Leave, TypeOK, Goto, FileState, files
<1>3. OthersSame(w) /\ Kept
  BY <1>0, <1>1 DEF Leave, OthersSame, Kept, TypeOK, Goto, files
<1>4. WriterInv(w)'
  BY <1>0, <1>1 DEF Leave, WriterInv, TypeOK, Goto, Putting, Publishing
<1>5. \A n \in Names : NameInv(n)'
  BY <1>0, <1>1 DEF NameInv, Verified, IInv, TypeOK, files
<1>6. Store!Return(t)
  <2>1. Shown[t] = w /\ w # None /\ UNCHANGED Shown
    BY <1>0, <1>1, StoreAssumption DEF Shown, files
  <2> QED
    BY <1>1, <2>1 DEF Store!Return, Shown
<1> QED
  BY <1>0, <1>2, <1>3, <1>4, <1>5, <1>6, OtherWriters DEF IInv, t

\* The ends that tell nobody of a publication: put_bytes returns or raises,
\* publish_bundle raises, a process dies.
LEMMA EndingInv ==
    ASSUME IInv, NEW w \in Writers,
           Unlink(w) \/ PutFails(w) \/ PublishFails(w) \/ CleanUp(w) \/ Kill(w)
    PROVE  IInv' /\ UNCHANGED <<published, winner>>
<1>0. WriterInv(w) /\ TypeOK
  BY DEF IInv
<1>1. UNCHANGED <<files, winner>>
  BY DEF Unlink, PutFails, PublishFails, CleanUp, Kill
<1>2. CASE Leave(w)
  <2>1. stored' \subseteq Digests
    BY <1>0 DEF Unlink, PutFails, PublishFails, CleanUp, Kill, TypeOK, WriterInv, Putting
  <2> QED
    BY <1>1, <1>2, <2>1, Leaving DEF files
<1>3. CASE /\ pc[w] \in Putting \ {"unlink"} /\ Goto(w, "unlink")
           /\ raising' = [raising EXCEPT ![w] = TRUE]
           /\ UNCHANGED <<target, staged, temporary, stored>>
  <2>1. TypeOK' /\ OthersSame(w) /\ Kept /\ WriterInv(w)'
    BY <1>0, <1>1, <1>3 DEF TypeOK, OthersSame, Kept, WriterInv, Goto, Putting, Publishing, files
  <2> QED
    BY <1>1, <2>1, OtherWriters DEF IInv, NameInv, Verified, files
<1>4. CASE /\ pc[w] \in Publishing \ {"sync_parent", "verify", "cleanup"} /\ Goto(w, "cleanup")
           /\ UNCHANGED <<memory, stored>>
  <2>1. TypeOK' /\ OthersSame(w) /\ Kept /\ WriterInv(w)'
    BY <1>0, <1>1, <1>4
    DEF TypeOK, OthersSame, Kept, WriterInv, Goto, Putting, Publishing, files, memory
  <2> QED
    BY <1>1, <2>1, OtherWriters DEF IInv, NameInv, Verified, files
<1> QED
  BY <1>2, <1>3, <1>4 DEF Unlink, PutFails, PublishFails, CleanUp, Kill

\* A crash takes a whole publication or nothing, and none whose name is synced.
LEMMA HostCrashInv ==
    ASSUME IInv, HostCrash
    PROVE  IInv' /\ Store!Settle
<1>0. TypeOK
  BY DEF IInv
<1>1. /\ published' \in [Names -> Bundle \cup {None}]
      /\ \A n \in Names :
            published'[n] = published[n] \/ (published'[n] = None /\ n \notin publishedSynced)
  <2>1. PICK lost \in SUBSET (Names \ publishedSynced), left \in 0..Payloads, m \in BOOLEAN :
             published' = [n \in Names |->
                 IF n \in lost \/ published[n] = None THEN None
                 ELSE IF published[n].synced THEN published[n]
                 ELSE [published[n] EXCEPT !.payloads = left, !.manifest = m]]
    BY Zenon DEF HostCrash
  <2> HIDE DEF HostCrash
  <2>2. ASSUME NEW n \in Names
        PROVE  published'[n] = IF n \in lost THEN None ELSE published[n]
    BY <2>1 DEF IInv, NameInv
  <2>3. published' = [n \in Names |-> published'[n]]
    BY <2>1
  <2>4. \A n \in Names : published'[n] \in Bundle \cup {None}
    BY <1>0, <2>2 DEF TypeOK
  <2>5. \A n \in Names : n \in lost => n \notin publishedSynced
    BY <2>1
  <2> QED
    BY <2>2, <2>3, <2>4, <2>5
<1>2. object' \in [Digests -> FileState]
  BY <1>0 DEF HostCrash, TypeOK, FileState
<1>3. /\ publishedSynced' = {n \in Names : published'[n] # None}
      /\ objectSynced' = {d \in Digests : object'[d] # "absent"}
      /\ pc' = [w \in Writers |-> "idle"] /\ target' = [w \in Writers |-> None]
      /\ staged' = [w \in Writers |-> None] /\ temporary' = [w \in Writers |-> "absent"]
      /\ raising' = [w \in Writers |-> FALSE] /\ UNCHANGED <<stored, winner>>
  BY Zenon DEF HostCrash
<1>4. TypeOK'
  BY <1>0, <1>1, <1>2, <1>3 DEF TypeOK, FileState
<1>5. \A w \in Writers : WriterInv(w)'
  BY <1>3 DEF WriterInv, Putting, Publishing
<1>6. \A n \in Names : NameInv(n)'
  BY <1>1, <1>3 DEF NameInv, Verified, IInv
<1>7. Store!Settle
  <2>1. Shown' \in [Names -> Writers \cup {None}]
    BY <1>1 DEF Shown, Bundle
  <2>2. \A n \in Names : Shown'[n] # Shown[n] =>
            winner[n] = None /\ None \in {Shown[n], Shown'[n]}
    BY <1>1 DEF Shown, IInv, NameInv
  <2> QED
    BY <1>3, <2>1, <2>2 DEF Store!Settle, Shown
<1> QED
  BY <1>4, <1>5, <1>6, <1>7 DEF IInv

-----------------------------------------------------------------------------
LEMMA NextInv ==
    ASSUME IInv, [Next]_vars
    PROVE  IInv' /\ [Store!Next]_(Store!vars)
<1>0. UNCHANGED <<published, winner>> => UNCHANGED Store!vars
  BY DEF Store!vars
<1>1. ASSUME NEW w \in Writers, Step(w) PROVE IInv' /\ [Store!Next]_(Store!vars)
  <2>1. CASE Rename(w)
    BY <2>1, RenameInv DEF Store!Next
  <2>2. CASE VerifyPublication(w)
    BY <2>2, VerifyInv DEF Store!Next
  <2>3. CASE SyncParent(w)
    BY <1>0, <2>3, SyncParentInv
  <2>4. CASE Unlink(w) \/ PutFails(w) \/ PublishFails(w) \/ CleanUp(w) \/ Kill(w)
    BY <1>0, <2>4, EndingInv
  <2>5. CASE \/ (\E n \in Names : PublishBundle(w, n)) \/ MakeStaging(w) \/ WritePayload(w)
             \/ WriteManifest(w) \/ SyncTree(w) \/ Collide(w)
    BY <1>0, <2>5, StagingSteps
  <2>6. CASE \/ (\E d \in Digests : PutBytes(w, d)) \/ CreateTemporary(w) \/ WriteTemporary(w)
             \/ LinkObject(w) \/ SyncBucket(w) \/ VerifyObject(w)
    BY <1>0, <2>6, PuttingSteps
  <2> QED
    BY <1>1, <2>1, <2>2, <2>3, <2>4, <2>5, <2>6 DEF Step
<1>2. CASE HostCrash
  BY <1>2, HostCrashInv DEF Store!Next
<1>3. CASE UNCHANGED vars
  <2>1. IInv'
    BY <1>3 DEF vars, files, memory, IInv, TypeOK, WriterInv, NameInv, Verified
  <2> QED
    BY <1>0, <1>3, <2>1 DEF vars, files
<1> QED
  BY <1>1, <1>2, <1>3 DEF Next

\* The inductive invariant of the store, the types included.
THEOREM StoreInvariant == Spec => []IInv
<1>1. IInv /\ [Next]_vars => IInv'
  BY NextInv
<1> QED
  BY <1>1, InitInv, PTL DEF Spec

\* A name that shows anything shows a complete bundle (publish_bundle), beside
\* any writers and after any crash.
THEOREM CompleteOrAbsent == Spec => []PublishedComplete
<1>1. IInv => PublishedComplete
  BY DEF IInv, NameInv, PublishedComplete
<1> QED
  BY <1>1, StoreInvariant, PTL

\* publish_bundle implements the write-once store: every step publishes under a
\* free name, returns to its own publisher, takes back what nobody was told of,
\* or stutters.
THEOREM BundlesWriteOnce == Spec => ImplementsWriteOnce
<1>1. Init => Store!Init
  BY DEF Init, Store!Init
<1>2. IInv /\ [Next]_vars => [Store!Next]_(Store!vars)
  BY NextInv
<1> QED
  BY <1>1, <1>2, StoreInvariant, PTL DEF Spec, ImplementsWriteOnce, Store!Spec

-----------------------------------------------------------------------------
(* The normalizer and the rows: the library's operators are the same there. *)

LEMMA SameInRows ==
    \A S : Rows!Cardinality(S) = Cardinality(S) /\ Rows!IsFiniteSet(S) = IsFiniteSet(S)
BY Zenon DEF Rows!Cardinality, Cardinality, Rows!IsFiniteSet, IsFiniteSet

-----------------------------------------------------------------------------
(* Naturals, and the order of the instants' texts. *)

Below == {pair \in Nat \X Nat : pair[1] < pair[2]}

\* A set of naturals has a least element.
LEMMA LeastElement ==
    ASSUME NEW T, T \subseteq Nat, T # {}
    PROVE  \E x \in T : \A y \in T : x <= y
<1>1. IsWellFoundedOn(Below, Nat)
  BY NatLessThanWellFounded DEF OpToRel, Below
<1>2. PICK x \in T : \A y \in T : ~(<<y, x>> \in Below)
  BY <1>1, WFMin
<1>3. ASSUME NEW y \in T PROVE x <= y
  <2>1. x \in Nat /\ y \in Nat /\ <<y, x>> \notin Below
    BY <1>2
  <2>2. ~(y < x)
    BY <2>1 DEF Below
  <2> QED
    BY <2>1, <2>2
<1> QED
  BY <1>3

\* Induction, for a set in place of a predicate.
LEMMA SetInduction ==
    ASSUME NEW S, 0 \in S, \A n \in Nat : n \in S => n + 1 \in S
    PROVE  \A n \in Nat : n \in S
<1> SUFFICES ASSUME NEW m \in Nat, m \notin S PROVE FALSE
  OBVIOUS
<1> DEFINE T == {n \in Nat : n \notin S}
<1>1. PICK x \in T : \A y \in T : x <= y
  <2>1. T \subseteq Nat /\ T # {}
    OBVIOUS
  <2> HIDE DEF T
  <2> QED
    BY <2>1, LeastElement
<1>2. x \in Nat /\ x # 0 /\ x - 1 \in Nat /\ (x - 1) + 1 = x
  BY <1>1
<1>3. x - 1 \in T
  BY <1>2, <1>1
<1> QED
  BY <1>1, <1>2, <1>3

\* An instant is its whole seconds and the rest of one.
LEMMA Seconds ==
    ASSUME NEW a \in Nat
    PROVE  /\ a \div Precision \in Nat /\ a % Precision \in 0..(Precision - 1)
           /\ a = (Precision * (a \div Precision)) + (a % Precision)
<1>1. Precision \in Nat \ {0}
  BY SentimentAssumption DEF Rows!NormalizerAssumption
<1> QED
  BY <1>1

\* Whatever is after an instant and not in its second is after that second.
LEMMA LaterSecond ==
    ASSUME NEW a \in Nat, NEW b \in Nat, NEW c \in Nat, a < c,
           a \div Precision = b \div Precision, c \div Precision # a \div Precision
    PROVE  b < c
<1> DEFINE P == Precision
           q == a \div Precision
           r == c \div Precision
<1>1. P \in Nat \ {0}
  BY SentimentAssumption DEF Rows!NormalizerAssumption
<1>2. /\ q \in Nat /\ r \in Nat
      /\ \E x, y, z \in 0..(P - 1) : a = P * q + x /\ b = P * q + y /\ c = P * r + z
  BY Seconds
<1> HIDE DEF P, q, r
<1>3. r # q
  BY DEF q, r
<1>4. CASE r < q
  <2>1. r + 1 <= q
    BY <1>2, <1>4
  <2>2. P * (r + 1) <= P * q
    BY <1>1, <1>2, <2>1
  <2>3. P * (r + 1) = P * r + P
    BY <1>1, <1>2
  <2> QED
    BY <1>1, <1>2, <2>2, <2>3
<1>5. CASE q < r
  <2>1. q + 1 <= r
    BY <1>2, <1>5
  <2>2. P * (q + 1) <= P * r
    BY <1>1, <1>2, <2>1
  <2>3. P * (q + 1) = P * q + P
    BY <1>1, <1>2
  <2> QED
    BY <1>1, <1>2, <2>2, <2>3
<1> QED
  BY <1>2, <1>3, <1>4, <1>5

\* The order of the texts is not that of the instants, but one of some instants is
\* before all others: the earliest with a fraction in the second of the earliest,
\* or else that second itself.
LEMMA TextFirst ==
    ASSUME NEW T, T \subseteq Nat, T # {}
    PROVE  \E x \in T : \A y \in T \ {x} : Rows!TextBefore(x, y)
<1>1. PICK x \in T : \A y \in T : x <= y
  BY LeastElement
<1>2. CASE x % Precision # 0
  <2>1. ASSUME NEW y \in T \ {x} PROVE Rows!TextBefore(x, y)
    <3>1. x < y
      BY <1>1
    <3> QED
      BY <1>2, <3>1 DEF Rows!TextBefore
  <2> QED
    BY <2>1
<1>3. CASE x % Precision = 0
  <2> DEFINE U == {y \in T : y \div Precision = x \div Precision /\ y % Precision # 0}
  <2>1. CASE U = {}
    <3>1. ASSUME NEW y \in T \ {x} PROVE Rows!TextBefore(x, y)
      <4>1. x < y
        BY <1>1
      <4>2. y \div Precision # x \div Precision
        <5> SUFFICES ASSUME y \div Precision = x \div Precision PROVE FALSE
          OBVIOUS
        <5>1. y % Precision = 0
          BY <2>1
        <5>2. x = y
          BY <1>3, <5>1, Seconds
        <5> QED
          BY <4>1, <5>2
      <4> QED
        BY <4>1, <4>2 DEF Rows!TextBefore
    <3> QED
      BY <3>1
  <2>2. CASE U # {}
    <3>1. PICK u \in U : \A y \in U : u <= y
      <4>1. U \subseteq Nat
        OBVIOUS
      <4> HIDE DEF U
      <4> QED
        BY <2>2, <4>1, LeastElement
    <3>2. u \in T /\ u \div Precision = x \div Precision /\ u % Precision # 0
      OBVIOUS
    <3>3. ASSUME NEW y \in T \ {u} PROVE Rows!TextBefore(u, y)
      <4>1. CASE y \div Precision # u \div Precision
        <5>1. x < y
          BY <1>1, <3>2, <4>1
        <5>2. u < y
          BY <3>2, <4>1, <5>1, LaterSecond
        <5> QED
          BY <4>1, <5>2 DEF Rows!TextBefore
      <4>2. CASE y \div Precision = u \div Precision
        <5>1. y % Precision # 0 => u < y
          <6> SUFFICES ASSUME y % Precision # 0 PROVE u < y
            OBVIOUS
          <6>1. y \in U
            BY <3>2, <4>2
          <6> QED
            BY <3>1, <6>1
        <5> QED
          BY <3>2, <4>2, <5>1 DEF Rows!TextBefore
      <4> QED
        BY <4>1, <4>2
    <3> QED
      BY <3>2, <3>3
  <2> QED
    BY <2>1, <2>2
<1> QED
  BY <1>2, <1>3

\* Neither of two texts is before the other one if each is.
LEMMA TextOrder ==
    ASSUME NEW a \in Nat, NEW b \in Nat, Rows!TextBefore(a, b), Rows!TextBefore(b, a)
    PROVE  FALSE
BY DEF Rows!TextBefore

-----------------------------------------------------------------------------
(* The choices of the normalizer are made. *)

\* The earliest of some observations.
LEMMA EarliestIn ==
    ASSUME NEW facts, NEW S, S # {}, S \subseteq Nat \X Nat,
           \A o \in S : Rows!At(facts, o) \in Nat
    PROVE  /\ Rows!Earliest(facts, S) \in S
           /\ \A q \in S \ {Rows!Earliest(facts, S)} :
                 Rows!Earlier(facts, Rows!Earliest(facts, S), q)
<1> DEFINE At(o) == Rows!At(facts, o)
           Times == {At(o) : o \in S}
<1>1. PICK x \in Times : \A y \in Times \ {x} : Rows!TextBefore(x, y)
  <2>1. Times \subseteq Nat /\ Times # {}
    OBVIOUS
  <2> HIDE DEF Times
  <2> QED
    BY <2>1, TextFirst
<1> DEFINE First == {o \in S : At(o) = x}
           Facts == {o[1] : o \in First}
<1>2. PICK m \in Facts : \A n \in Facts : m <= n
  <2>1. Facts \subseteq Nat /\ Facts # {}
    OBVIOUS
  <2> HIDE DEF Facts
  <2> QED
    BY <2>1, LeastElement
<1> DEFINE Lines == {o[2] : o \in {p \in First : p[1] = m}}
<1>3. PICK i \in Lines : \A j \in Lines : i <= j
  <2>1. Lines \subseteq Nat /\ Lines # {}
    OBVIOUS
  <2> HIDE DEF Lines
  <2> QED
    BY <2>1, LeastElement
<1>4. PICK o \in First : o[1] = m /\ o[2] = i
  OBVIOUS
<1>5. ASSUME NEW q \in S \ {o} PROVE Rows!Earlier(facts, o, q)
  <2>1. CASE At(q) # x
    <3>1. At(q) \in Times \ {x}
      BY <2>1
    <3> QED
      BY <1>1, <1>4, <3>1 DEF Rows!Earlier
  <2>2. CASE At(q) = x
    <3>1. q \in First /\ q[1] \in Facts /\ m <= q[1]
      BY <1>2, <2>2
    <3>2. q[1] = m => q[2] \in Lines /\ i <= q[2]
      BY <1>3, <3>1
    <3>3. q[1] # m \/ q[2] # i
      <4>1. q = <<q[1], q[2]>> /\ o = <<o[1], o[2]>> /\ q # o
        OBVIOUS
      <4> QED
        BY <1>4, <4>1
    <3>4. q[1] \in Nat /\ q[2] \in Nat /\ m \in Nat /\ i \in Nat
      BY <1>4
    <3>5. m < q[1] \/ (m = q[1] /\ i < q[2])
      BY <3>1, <3>2, <3>3, <3>4
    <3>6. At(o) = At(q)
      BY <1>4, <2>2
    <3> HIDE DEF First
    <3> QED
      BY <1>4, <3>5, <3>6 DEF Rows!Earlier
  <2> QED
    BY <2>1, <2>2
<1> DEFINE Choice(p) == \A q \in S \ {p} : Rows!Earlier(facts, p, q)
<1>6. o \in S /\ Choice(o)
  BY <1>4, <1>5
<1>7. Rows!Earliest(facts, S) = CHOOSE p \in S : Choice(p)
  BY DEF Rows!Earliest
<1>8. Rows!Earliest(facts, S) \in S /\ Choice(Rows!Earliest(facts, S))
  <2> HIDE DEF Choice
  <2> QED
    BY <1>6, <1>7
<1> QED
  BY <1>8

\* The soonest of some articles.
LEMMA SoonestIn ==
    ASSUME NEW S, S # {}, \A a \in S : a.first \in Nat /\ a.article \in Nat,
           \A a, b \in S : a.article = b.article => a = b
    PROVE  Rows!Soonest(S) \in S
<1> DEFINE Times == {a.first : a \in S}
<1>1. PICK x \in Times : \A y \in Times \ {x} : Rows!TextBefore(x, y)
  <2>1. Times \subseteq Nat /\ Times # {}
    OBVIOUS
  <2> HIDE DEF Times
  <2> QED
    BY <2>1, TextFirst
<1> DEFINE First == {a.article : a \in {b \in S : b.first = x}}
<1>2. PICK m \in First : \A n \in First : m <= n
  <2>1. First \subseteq Nat /\ First # {}
    OBVIOUS
  <2> HIDE DEF First
  <2> QED
    BY <2>1, LeastElement
<1>3. PICK a \in S : a.first = x /\ a.article = m
  OBVIOUS
<1> DEFINE Choice(c) == \A b \in S \ {c} :
               \/ Rows!TextBefore(c.first, b.first)
               \/ c.first = b.first /\ c.article < b.article
<1>4. ASSUME NEW b \in S \ {a}
      PROVE  Rows!TextBefore(a.first, b.first) \/ (a.first = b.first /\ a.article < b.article)
  <2>1. CASE b.first # x
    BY <1>1, <1>3, <2>1
  <2>2. CASE b.first = x
    <3>1. m <= b.article /\ b.article # m /\ m \in Nat /\ b.article \in Nat
      BY <1>2, <1>3, <2>2
    <3> QED
      BY <1>3, <2>2, <3>1
  <2> QED
    BY <2>1, <2>2
<1>5. a \in S /\ Choice(a)
  BY <1>4
<1>6. Rows!Soonest(S) = CHOOSE c \in S : Choice(c)
  BY DEF Rows!Soonest
<1> HIDE DEF Choice
<1> QED
  BY <1>5, <1>6

\* The earliest of some groups.
LEMMA EarliestGroupIn ==
    ASSUME NEW groups, NEW S, S # {}, S \subseteq Nat, \A g \in S : groups[g].first \in Nat
    PROVE  Rows!EarliestGroup(groups, S) \in S
<1> DEFINE Times == {groups[g].first : g \in S}
<1>1. PICK x \in Times : \A y \in Times \ {x} : Rows!TextBefore(x, y)
  <2>1. Times \subseteq Nat /\ Times # {}
    OBVIOUS
  <2> HIDE DEF Times
  <2> QED
    BY <2>1, TextFirst
<1> DEFINE First == {g \in S : groups[g].first = x}
<1>2. PICK g \in First : \A h \in First : g <= h
  <2>1. First \subseteq Nat /\ First # {}
    OBVIOUS
  <2> HIDE DEF First
  <2> QED
    BY <2>1, LeastElement
<1> DEFINE Choice(c) == \A h \in S \ {c} :
               \/ Rows!TextBefore(groups[c].first, groups[h].first)
               \/ groups[c].first = groups[h].first /\ c < h
<1>3. ASSUME NEW h \in S \ {g}
      PROVE  \/ Rows!TextBefore(groups[g].first, groups[h].first)
             \/ groups[g].first = groups[h].first /\ g < h
  <2>1. CASE groups[h].first # x
    BY <1>1, <2>1
  <2>2. CASE groups[h].first = x
    <3>1. g <= h /\ g # h /\ g \in Nat /\ h \in Nat
      BY <1>2, <2>2
    <3> QED
      BY <2>2, <3>1
  <2> QED
    BY <2>1, <2>2
<1>4. g \in S /\ Choice(g)
  BY <1>3
<1>5. Rows!EarliestGroup(groups, S) = CHOOSE c \in S : Choice(c)
  BY DEF Rows!EarliestGroup
<1> HIDE DEF Choice
<1> QED
  BY <1>4, <1>5

-----------------------------------------------------------------------------
(* How new articles join the groups. *)

\* The maps of `Over`, and of one entry over a map.
LEMMA OverMaps ==
    ASSUME NEW f, NEW g
    PROVE  /\ \A x : x \in DOMAIN Rows!Over(f, g) <=> (x \in DOMAIN f \/ x \in DOMAIN g)
           /\ \A x \in DOMAIN f : Rows!Over(f, g)[x] = f[x]
           /\ \A x \in DOMAIN g \ DOMAIN f : Rows!Over(f, g)[x] = g[x]
BY DEF Rows!Over

LEMMA OverOne ==
    ASSUME NEW a, NEW b, NEW f, f = [y \in {a} |-> b], NEW g
    PROVE  /\ \A x : x \in DOMAIN Rows!Over(f, g) <=> (x = a \/ x \in DOMAIN g)
           /\ Rows!Over(f, g)[a] = b
           /\ \A x \in DOMAIN g \ {a} : Rows!Over(f, g)[x] = g[x]
<1>1. DOMAIN f = {a} /\ f[a] = b
  OBVIOUS
<1> QED
  BY <1>1 DEF Rows!Over

\* The groups of a state, before any of some new articles joined.
Waiting(s, articles) == [waiting |-> articles, groups |-> s.groups, groupOf |-> s.groupOf]

Follows(f, s, articles, n) ==
    f = [i \in 0..n |-> IF i = 0 THEN Waiting(s, articles) ELSE Rows!Join(f[i - 1])]

\* The recursive function exists: there is one for every length.
LEMMA JoinsFollow ==
    ASSUME NEW s, NEW articles, Cardinality(articles) \in Nat
    PROVE  Follows(Rows!Joins(s, articles), s, articles, Cardinality(articles))
<1> DEFINE Lengths == {n \in Nat : \E f : Follows(f, s, articles, n)}
           c == Cardinality(articles)
<1>1. 0 \in Lengths
  <2>1. Follows([i \in 0..0 |-> Waiting(s, articles)], s, articles, 0)
    BY DEF Follows
  <2> QED
    BY <2>1
<1>2. ASSUME NEW n \in Nat, n \in Lengths PROVE n + 1 \in Lengths
  <2>1. PICK f : Follows(f, s, articles, n)
    BY <1>2
  <2> DEFINE h == [i \in 0..(n + 1) |-> IF i <= n THEN f[i] ELSE Rows!Join(f[n])]
  <2>2. \A i \in 0..n : h[i] = f[i]
    OBVIOUS
  <2>3. h[n + 1] = Rows!Join(f[n])
    OBVIOUS
  <2>4. ASSUME NEW i \in 0..(n + 1)
        PROVE  h[i] = IF i = 0 THEN Waiting(s, articles) ELSE Rows!Join(h[i - 1])
    <3>1. CASE i = n + 1
      <4>1. (n + 1) - 1 = n /\ n \in 0..n
        OBVIOUS
      <4> HIDE DEF h
      <4> QED
        BY <2>2, <2>3, <3>1, <4>1
    <3>2. CASE i \in 0..n
      <4>1. i # 0 => i - 1 \in 0..n
        BY <3>2
      <4>2. f[i] = IF i = 0 THEN Waiting(s, articles) ELSE Rows!Join(f[i - 1])
        BY <2>1, <3>2 DEF Follows
      <4> HIDE DEF h
      <4> QED
        BY <2>2, <3>2, <4>1, <4>2
    <3> QED
      BY <3>1, <3>2
  <2>5. h = [i \in 0..(n + 1) |-> h[i]]
    OBVIOUS
  <2>6. Follows(h, s, articles, n + 1)
    <3> HIDE DEF h
    <3> QED
      BY <2>4, <2>5 DEF Follows
  <2> QED
    BY <2>6
<1>3. \A n \in Nat : n \in Lengths
  <2> HIDE DEF Lengths
  <2> QED
    BY <1>1, <1>2, SetInduction
<1>4. \E f : Follows(f, s, articles, c)
  BY <1>3
<1>5. c = Rows!Cardinality(articles)
  BY SameInRows
<1> HIDE DEF c
<1>6. Rows!Joins(s, articles) = CHOOSE f : Follows(f, s, articles, c)
  BY <1>5 DEF Rows!Joins, Follows, Waiting
<1> QED
  BY <1>4, <1>6 DEF c

\* What is known of a state's groups, and of the articles that are new to it.
Grouped(s) ==
    /\ DOMAIN s.groups \subseteq Nat
    /\ \A g \in DOMAIN s.groups : s.groups[g].first \in Nat
    /\ DOMAIN s.groups \subseteq DOMAIN s.groupOf
    /\ \A a \in DOMAIN s.groupOf : s.groupOf[a] \in DOMAIN s.groups

New(s, articles) ==
    /\ IsFiniteSet(articles)
    /\ \A a \in articles :
          a.first \in Nat /\ a.article \in Nat /\ a.article \notin DOMAIN s.groupOf
    /\ \A a, b \in articles : a.article = b.article => a = b

\* No group is ever given another anchor: a new one has the anchor of an article
\* that joined, and who joined is in a group that was not older than `Horizon`.
JoinInv(acc, s, articles) ==
    /\ acc.waiting \subseteq articles
    /\ \A g \in DOMAIN s.groups : g \in DOMAIN acc.groups /\ acc.groups[g] = s.groups[g]
    /\ \A g \in DOMAIN acc.groups \ DOMAIN s.groups : \E a \in articles \ acc.waiting :
          a.article = g /\ acc.groups[g] = [title |-> a.title, first |-> a.first]
    /\ \A x \in DOMAIN acc.groupOf :
          \/ x \in DOMAIN s.groupOf /\ acc.groupOf[x] = s.groupOf[x]
          \/ \E a \in articles \ acc.waiting :
                /\ a.article = x /\ acc.groupOf[x] \in DOMAIN acc.groups
                /\ a.first - acc.groups[acc.groupOf[x]].first \in 0..Horizon

\* One article joins, and waits no more.
LEMMA JoinOne ==
    ASSUME NEW s, Grouped(s), NEW articles, New(s, articles),
           NEW acc, JoinInv(acc, s, articles), acc.waiting # {}
    PROVE  /\ JoinInv(Rows!Join(acc), s, articles)
           /\ Cardinality(Rows!Join(acc).waiting) = Cardinality(acc.waiting) - 1
<1> DEFINE new == Rows!Soonest(acc.waiting)
           matches == Rows!Matches(acc.groups, new.title, new.first)
           anchor == [title |-> new.title, first |-> new.first]
           group == IF matches = {} THEN new.article
                    ELSE Rows!EarliestGroup(acc.groups, matches)
           groups == IF matches = {} THEN Rows!Over([g \in {group} |-> anchor], acc.groups)
                     ELSE acc.groups
           groupOf == Rows!Over([a \in {new.article} |-> group], acc.groupOf)
           rest == acc.waiting \ {new}
<1>1. Rows!Join(acc) = [waiting |-> rest, groups |-> groups, groupOf |-> groupOf]
  BY DEF Rows!Join
<1>2. acc.waiting \subseteq articles
  BY DEF JoinInv
<1>3. new \in acc.waiting
  BY <1>2, SoonestIn DEF New
<1>4. new \in articles /\ new.first \in Nat /\ new.article \in Nat
      /\ new.article \notin DOMAIN s.groupOf
  BY <1>2, <1>3 DEF New
<1>5. Cardinality(rest) = Cardinality(acc.waiting) - 1
  <2>1. IsFiniteSet(acc.waiting)
    BY <1>2, FS_Subset DEF New
  <2> QED
    BY <1>3, <2>1, FS_RemoveElement
<1>6. DOMAIN acc.groups \subseteq Nat /\ \A g \in DOMAIN acc.groups : acc.groups[g].first \in Nat
  <2>1. ASSUME NEW g \in DOMAIN acc.groups PROVE g \in Nat /\ acc.groups[g].first \in Nat
    <3>1. CASE g \in DOMAIN s.groups
      BY <3>1 DEF JoinInv, Grouped
    <3>2. CASE g \notin DOMAIN s.groups
      <4>1. PICK a \in articles \ acc.waiting :
                a.article = g /\ acc.groups[g] = [title |-> a.title, first |-> a.first]
        BY <3>2 DEF JoinInv
      <4> QED
        BY <4>1 DEF New
    <3> QED
      BY <3>1, <3>2
  <2> QED
    BY <2>1
\* It waited, so no group was named for it.
<1>7. new.article \notin DOMAIN acc.groups
  <2>1. new.article \notin DOMAIN s.groups
    BY <1>4 DEF Grouped
  <2>2. ASSUME NEW a \in articles \ acc.waiting PROVE a.article # new.article
    BY <1>3, <1>4 DEF New
  <2> HIDE DEF new
  <2> QED
    BY <2>1, <2>2 DEF JoinInv
<1>8. /\ \A g \in DOMAIN acc.groups : g \in DOMAIN groups /\ groups[g] = acc.groups[g]
      /\ \A g \in DOMAIN groups \ DOMAIN acc.groups : g = new.article /\ groups[g] = anchor
      /\ group \in DOMAIN groups
      /\ new.first - groups[group].first \in 0..Horizon
  <2>1. CASE matches = {}
    <3> HIDE DEF matches
    <3> DEFINE f == [g \in {group} |-> anchor]
    <3>1. group = new.article /\ groups = Rows!Over(f, acc.groups)
      BY <2>1
    <3> HIDE DEF group, groups, anchor
    <3>f. f = [g \in {group} |-> anchor]
      OBVIOUS
    <3> HIDE DEF f
    <3>2. /\ \A g : g \in DOMAIN groups <=> (g = group \/ g \in DOMAIN acc.groups)
          /\ groups[group] = anchor
          /\ \A g \in DOMAIN acc.groups \ {group} : groups[g] = acc.groups[g]
      BY <3>1, <3>f, OverOne
    <3>3. anchor.first = new.first
      BY DEF anchor
    <3>4. 0 \in 0..Horizon /\ new.first - new.first = 0
      <4>1. Horizon \in Nat
        BY SentimentAssumption DEF Rows!NormalizerAssumption
      <4> QED
        BY <1>4, <4>1
    <3> QED
      BY <1>7, <3>1, <3>2, <3>3, <3>4
  <2>2. CASE matches # {}
    <3>1. group = Rows!EarliestGroup(acc.groups, matches) /\ groups = acc.groups
      BY <2>2
    <3>2. matches \subseteq DOMAIN acc.groups
      BY DEF Rows!Matches
    <3>3. group \in matches
      <4> HIDE DEF matches, group
      <4> QED
        BY <1>6, <2>2, <3>1, <3>2, EarliestGroupIn
    <3>4. new.first - acc.groups[group].first \in 0..Horizon
      <4> HIDE DEF group
      <4> QED
        BY <3>3 DEF Rows!Matches
    <3> HIDE DEF group, groups, matches, new
    <3> QED
      BY <3>1, <3>2, <3>3, <3>4
  <2> QED
    BY <2>1, <2>2
<1>9. /\ \A x : x \in DOMAIN groupOf <=> (x = new.article \/ x \in DOMAIN acc.groupOf)
      /\ groupOf[new.article] = group
      /\ \A x \in DOMAIN acc.groupOf \ {new.article} : groupOf[x] = acc.groupOf[x]
  <2> DEFINE f == [a \in {new.article} |-> group]
  <2>1. groupOf = Rows!Over(f, acc.groupOf)
    OBVIOUS
  <2> HIDE DEF groupOf, group, new
  <2>2. f = [a \in {new.article} |-> group]
    OBVIOUS
  <2> HIDE DEF f
  <2> QED
    BY <2>1, <2>2, OverOne
<1> HIDE DEF groups, groupOf, group, new, anchor
<1>10. ASSUME NEW g \in DOMAIN groups \ DOMAIN s.groups
       PROVE  \E a \in articles \ rest :
                  a.article = g /\ groups[g] = [title |-> a.title, first |-> a.first]
  <2>1. CASE g \in DOMAIN acc.groups
    <3>1. PICK a \in articles \ acc.waiting :
              a.article = g /\ acc.groups[g] = [title |-> a.title, first |-> a.first]
      BY <1>10, <2>1 DEF JoinInv
    <3> QED
      BY <1>8, <2>1, <3>1
  <2>2. CASE g \notin DOMAIN acc.groups
    BY <1>4, <1>8, <2>2 DEF anchor
  <2> QED
    BY <2>1, <2>2
<1>11. ASSUME NEW x \in DOMAIN groupOf
       PROVE  \/ x \in DOMAIN s.groupOf /\ groupOf[x] = s.groupOf[x]
              \/ \E a \in articles \ rest :
                    /\ a.article = x /\ groupOf[x] \in DOMAIN groups
                    /\ a.first - groups[groupOf[x]].first \in 0..Horizon
  <2>1. CASE x = new.article
    BY <1>4, <1>8, <1>9, <2>1
  <2>2. CASE x # new.article
    <3>1. x \in DOMAIN acc.groupOf /\ groupOf[x] = acc.groupOf[x]
      BY <1>9, <2>2
    <3>2. CASE x \in DOMAIN s.groupOf /\ acc.groupOf[x] = s.groupOf[x]
      BY <3>1, <3>2
    <3>3. CASE \E a \in articles \ acc.waiting :
                  /\ a.article = x /\ acc.groupOf[x] \in DOMAIN acc.groups
                  /\ a.first - acc.groups[acc.groupOf[x]].first \in 0..Horizon
      BY <1>8, <3>1, <3>3
    <3> QED
      BY <3>1, <3>2, <3>3 DEF JoinInv
  <2> QED
    BY <2>1, <2>2
<1>12. \A g \in DOMAIN s.groups : g \in DOMAIN groups /\ groups[g] = s.groups[g]
  BY <1>8 DEF JoinInv
<1> DEFINE next == [waiting |-> rest, groups |-> groups, groupOf |-> groupOf]
<1>13. next.waiting = rest /\ next.groups = groups /\ next.groupOf = groupOf
  OBVIOUS
<1>14. rest \subseteq articles
  BY <1>2
<1> HIDE DEF next, rest
<1>15. JoinInv(next, s, articles)
  BY <1>10, <1>11, <1>12, <1>13, <1>14 DEF JoinInv
<1> QED
  BY <1>1, <1>5, <1>13, <1>15 DEF next

\* What all of them have joined.
LEMMA JoinAll ==
    ASSUME NEW s, Grouped(s), NEW articles, New(s, articles)
    PROVE  JoinInv(Rows!Joins(s, articles)[Cardinality(articles)], s, articles)
<1> DEFINE c == Cardinality(articles)
           after == Rows!Joins(s, articles)
           Joined == {n \in Nat : n <= c =>
                         /\ JoinInv(after[n], s, articles)
                         /\ Cardinality(after[n].waiting) = c - n}
<1>1. c \in Nat
  BY FS_CardinalityType DEF New
<1>2. Follows(after, s, articles, c)
  BY <1>1, JoinsFollow
<1>3. 0 \in Joined
  <2>1. after[0] = Waiting(s, articles)
    BY <1>1, <1>2 DEF Follows
  <2>2. JoinInv(Waiting(s, articles), s, articles)
    BY DEF JoinInv, Waiting
  <2>3. Waiting(s, articles).waiting = articles
    BY DEF Waiting
  <2> QED
    BY <1>1, <2>1, <2>2, <2>3
<1>4. ASSUME NEW n \in Nat, n \in Joined PROVE n + 1 \in Joined
  <2> SUFFICES ASSUME n + 1 <= c
               PROVE  /\ JoinInv(after[n + 1], s, articles)
                      /\ Cardinality(after[n + 1].waiting) = c - (n + 1)
    OBVIOUS
  <2>1. n + 1 \in 0..c /\ n + 1 # 0 /\ (n + 1) - 1 = n /\ n <= c
    BY <1>1
  <2>2. after[n + 1] = Rows!Join(after[(n + 1) - 1])
    BY <1>2, <2>1 DEF Follows
  <2>3. JoinInv(after[n], s, articles) /\ Cardinality(after[n].waiting) = c - n
    BY <1>4, <2>1
  <2>4. after[n].waiting # {}
    <3>1. c - n # 0
      BY <1>1, <2>1
    <3> QED
      BY <2>3, <3>1, FS_EmptySet
  <2>5. c - (n + 1) = (c - n) - 1
    BY <1>1
  <2> HIDE DEF after, c
  <2> QED
    BY <2>1, <2>2, <2>3, <2>4, <2>5, JoinOne
<1>5. \A n \in Nat : n \in Joined
  <2> HIDE DEF Joined
  <2> QED
    BY <1>3, <1>4, SetInduction
<1> QED
  BY <1>1, <1>5

-----------------------------------------------------------------------------
(* Finite images. *)

LEMMA FiniteImage ==
    ASSUME NEW S, IsFiniteSet(S), NEW f, f = [x \in S |-> f[x]]
    PROVE  IsFiniteSet({f[x] : x \in S})
<1> DEFINE T == {f[x] : x \in S}
<1>1. f \in Surjection(S, T)
  BY DEF Surjection
<1> QED
  BY <1>1, FS_Surjection

LEMMA FiniteObservations ==
    ASSUME NEW facts, NEW n \in Nat, NEW positions, positions \subseteq 1..n,
           \A m \in positions : Len(facts[m].lines) \in Nat /\ DOMAIN facts[m].lines = 1..Len(facts[m].lines)
    PROVE  IsFiniteSet(Rows!Observations(facts, positions))
<1> DEFINE P == {m \in positions : facts[m].state = "complete"}
           f == [m \in P |-> {<<m, i>> : i \in DOMAIN facts[m].lines}]
<1>1. IsFiniteSet(P)
  <2>1. IsFiniteSet(1..n)
    BY FS_Interval
  <2> QED
    BY <2>1, FS_Subset
<1>2. ASSUME NEW m \in P PROVE IsFiniteSet(f[m])
  <2> DEFINE g == [i \in DOMAIN facts[m].lines |-> <<m, i>>]
  <2>1. IsFiniteSet(DOMAIN facts[m].lines)
    BY FS_Interval
  <2>2. IsFiniteSet({g[i] : i \in DOMAIN facts[m].lines})
    <3>1. g = [i \in DOMAIN facts[m].lines |-> g[i]]
      OBVIOUS
    <3> HIDE DEF g
    <3> QED
      BY <2>1, <3>1, FiniteImage
  <2>3. {g[i] : i \in DOMAIN facts[m].lines} = f[m]
    OBVIOUS
  <2> QED
    BY <2>2, <2>3
<1>3. IsFiniteSet({f[m] : m \in P})
  <2>1. f = [m \in P |-> f[m]]
    OBVIOUS
  <2> HIDE DEF f, P
  <2> QED
    BY <1>1, <2>1, FiniteImage
<1>4. Rows!Observations(facts, positions) = UNION {f[m] : m \in P}
  <2>1. Rows!Observations(facts, positions)
            = UNION {{<<m, i>> : i \in DOMAIN facts[m].lines} : m \in P}
    BY DEF Rows!Observations
  <2>2. {{<<m, i>> : i \in DOMAIN facts[m].lines} : m \in P} = {f[m] : m \in P}
    OBVIOUS
  <2> QED
    BY <2>1, <2>2
<1>5. \A T \in {f[m] : m \in P} : IsFiniteSet(T)
  BY <1>2
<1> HIDE DEF f, P
<1> QED
  BY <1>3, <1>4, <1>5, FS_UNION

LEMMA TimesLength == ASSUME NEW a \in Nat, NEW b \in Nat, a <= b PROVE a * Length <= b * Length
<1>1. Length \in Nat
  BY SentimentAssumption DEF Rows!NormalizerAssumption
<1> QED
  BY <1>1

-----------------------------------------------------------------------------
(* Facts, observations and states. *)

SourceLine == [article: Nat, title: STRING, fault: {"none", "late", "blocking"}]
Fact == [state: {"complete", "missing", "invalid"}, published: Nat, terminal: Nat,
         lines: Seq(SourceLine)]

\* Nothing is delivered before its minute began.
Causal(facts) ==
    /\ facts \in Seq(Fact)
    /\ \A m \in 1..Len(facts) :
          facts[m].state = "complete" => facts[m].terminal >= (m - 1) * Length

\* A state that was accepted.
Normal(s) ==
    /\ Causal(s.facts)
    /\ Rows!Fitting(s) /\ Rows!Accounted(s)
    /\ \A o \in DOMAIN s.links : s.links[o].version = Rows!Key(s.facts, o)

\* Whoever is in a group came within the horizon after its anchor.
Anchored(s) ==
    \A k \in DOMAIN s.versions : \E j \in DOMAIN s.versions :
        /\ j[1] = k[1]
        /\ s.versions[j].first - s.groups[s.groupOf[k[1]]].first \in 0..Horizon

\* Nobody was seen before the version's first sighting, in the order of the texts.
Sighted(s) ==
    \A o \in DOMAIN s.links :
        ~Rows!TextBefore(Rows!At(s.facts, o), s.versions[s.links[o].version].first)

\* r is what s may become: all that s has, and what comes after the last minute
\* of s.
Later(s, r) ==
    /\ Len(s.facts) <= Len(r.facts)
    /\ \A m \in 1..Len(s.facts) : r.facts[m] = s.facts[m]
    /\ \A k \in DOMAIN s.versions : k \in DOMAIN r.versions /\ r.versions[k] = s.versions[k]
    /\ \A k \in DOMAIN r.versions \ DOMAIN s.versions :
          r.versions[k].first >= Len(s.facts) * Length
    /\ \A g \in DOMAIN s.groups : g \in DOMAIN r.groups /\ r.groups[g] = s.groups[g]
    /\ \A g \in DOMAIN r.groups \ DOMAIN s.groups :
          r.groups[g].first >= Len(s.facts) * Length

\* An observation is a position of a fact and of a line, not before its minute.
LEMMA ObservationTypes ==
    ASSUME NEW facts, Causal(facts), NEW positions, positions \subseteq 1..Len(facts),
           NEW o \in Rows!Observations(facts, positions)
    PROVE  /\ o \in Nat \X Nat /\ o[1] \in positions
           /\ Rows!At(facts, o) \in Nat /\ Rows!At(facts, o) >= (o[1] - 1) * Length
           /\ Rows!Line(facts, o).article \in Nat
           /\ Rows!Key(facts, o)[1] = Rows!Line(facts, o).article
<1>1. PICK m \in positions :
          facts[m].state = "complete" /\ \E i \in DOMAIN facts[m].lines : o = <<m, i>>
  BY DEF Rows!Observations
<1>i. PICK i \in DOMAIN facts[m].lines : o = <<m, i>>
  BY <1>1
<1>2. /\ Len(facts) \in Nat /\ m \in 1..Len(facts) /\ facts[m] \in Fact
  BY DEF Causal
<1>3. /\ facts[m].terminal \in Nat /\ facts[m].terminal >= (m - 1) * Length
      /\ i \in Nat /\ facts[m].lines[i].article \in Nat
  <2> DEFINE lines == facts[m].lines
  <2>1. lines \in Seq(SourceLine) /\ i \in DOMAIN lines
    BY <1>2 DEF Fact
  <2>2. i \in Nat /\ lines[i] \in SourceLine
    <3> HIDE DEF lines
    <3> QED
      BY <2>1
  <2> QED
    BY <1>1, <1>2, <2>2 DEF Causal, Fact, SourceLine
<1> QED
  BY <1>1, <1>i, <1>2, <1>3 DEF Rows!At, Rows!Line, Rows!Key

\* What is known of the versions and the groups of an accepted state.
LEMMA NormalTypes ==
    ASSUME NEW s, Normal(s)
    PROVE  /\ Len(s.facts) \in Nat /\ DOMAIN s.facts = 1..Len(s.facts)
           /\ DOMAIN s.links \subseteq Rows!Observations(s.facts, 1..Len(s.facts))
           /\ \A k \in DOMAIN s.versions :
                 /\ k[1] \in Nat /\ s.versions[k].first \in Nat
                 /\ k[1] \in DOMAIN s.groupOf
           /\ \A a \in DOMAIN s.groupOf : \E k \in DOMAIN s.versions : k[1] = a
           /\ Grouped(s)
<1>1. Len(s.facts) \in Nat /\ DOMAIN s.facts = 1..Len(s.facts)
  BY DEF Normal, Causal
<1>2. DOMAIN s.links \subseteq Rows!Observations(s.facts, 1..Len(s.facts))
  BY <1>1 DEF Normal, Rows!Accounted
<1>3. ASSUME NEW k \in DOMAIN s.versions
      PROVE  k[1] \in Nat /\ s.versions[k].first \in Nat
  <2> DEFINE o == s.versions[k].observation
  <2>1. {p \in DOMAIN s.links : s.links[p].version = k /\ ~s.links[p].reused} = {o}
    BY DEF Normal, Rows!Fitting
  <2>2. o \in DOMAIN s.links /\ s.links[o].version = k
    BY <2>1
  <2>3. k = Rows!Key(s.facts, o) /\ s.versions[k].first = Rows!At(s.facts, o)
    BY <2>2 DEF Normal, Rows!Accounted
  <2>4. o \in Rows!Observations(s.facts, 1..Len(s.facts))
    BY <1>2, <2>2
  <2> HIDE DEF o
  <2> QED
    BY <2>3, <2>4, ObservationTypes DEF Normal
<1>4. DOMAIN s.groupOf = {k[1] : k \in DOMAIN s.versions}
  BY DEF Normal, Rows!Fitting
<1>5. DOMAIN s.groups = Rows!Range(s.groupOf)
  BY DEF Normal, Rows!Fitting
<1>6. ASSUME NEW g \in DOMAIN s.groups
      PROVE  g \in Nat /\ s.groups[g].first \in Nat /\ g \in DOMAIN s.groupOf
  <2>1. PICK k \in DOMAIN s.versions :
            k = <<g, s.groups[g].title>> /\ s.versions[k].first = s.groups[g].first
    BY DEF Normal, Rows!Fitting
  <2>2. k[1] = g
    BY <2>1
  <2> QED
    BY <1>3, <1>4, <2>1, <2>2
<1>7. Grouped(s)
  <2>1. \A a \in DOMAIN s.groupOf : s.groupOf[a] \in DOMAIN s.groups
    BY <1>5 DEF Rows!Range
  <2> QED
    BY <1>6, <2>1 DEF Grouped
<1> QED
  BY <1>1, <1>2, <1>3, <1>4, <1>7

-----------------------------------------------------------------------------
(* What normalize makes of a state and a plan. *)

Total(s, b)  == s.facts \o b
Added(s, b)  == Len(s.facts) + 1 .. Len(Total(s, b))
Picked(s, b) == Rows!Eligible(Total(s, b), Added(s, b))
Fresh(s, b)  == {Rows!Key(Total(s, b), o) : o \in Picked(s, b)} \ DOMAIN s.versions
OfKey(s, b, k)  == {o \in Picked(s, b) : Rows!Key(Total(s, b), o) = k}
Sighting(s, b)  == [k \in Fresh(s, b) |-> Rows!Earliest(Total(s, b), OfKey(s, b, k))]
Initial(s, b)   ==
    {o \in Rows!Range(Sighting(s, b)) :
        /\ Rows!Line(Total(s, b), o).article \notin DOMAIN s.groupOf
        /\ \A q \in Rows!Range(Sighting(s, b)) \ {o} :
              Rows!Line(Total(s, b), q).article = Rows!Line(Total(s, b), o).article
                  => Rows!Earlier(Total(s, b), o, q)}
Arrival(s, b, o) == [article |-> Rows!Line(Total(s, b), o).article,
                     title   |-> Rows!Line(Total(s, b), o).title,
                     first   |-> Rows!At(Total(s, b), o)]
Arrivals(s, b)   == {Arrival(s, b, o) : o \in Initial(s, b)}

\* The parts of what it makes, by name.
LEMMA NormalizedParts ==
    ASSUME NEW s, NEW b
    PROVE  LET r == Rows!Normalized(s, b)
               joined == Rows!Joins(s, Arrivals(s, b))[Cardinality(Arrivals(s, b))]
           IN  /\ r.facts = Total(s, b)
               /\ \A k : k \in DOMAIN r.versions <=> (k \in Fresh(s, b) \/ k \in DOMAIN s.versions)
               /\ \A k \in Fresh(s, b) : r.versions[k].first
                                            = Rows!At(Total(s, b), Sighting(s, b)[k])
               /\ \A k \in DOMAIN s.versions : r.versions[k] = s.versions[k]
               /\ \A o : o \in DOMAIN r.links <=> (o \in Picked(s, b) \/ o \in DOMAIN s.links)
               /\ \A o \in Picked(s, b) : r.links[o].version = Rows!Key(Total(s, b), o)
               /\ \A o \in DOMAIN s.links \ Picked(s, b) : r.links[o] = s.links[o]
               /\ r.groups = joined.groups
               /\ r.groupOf = joined.groupOf
<1> DEFINE r == Rows!Normalized(s, b)
           versions == [k \in Fresh(s, b) |->
               [first |-> Rows!At(Total(s, b), Sighting(s, b)[k]), observation |-> Sighting(s, b)[k]]]
           links == [o \in Picked(s, b) |->
               [version |-> Rows!Key(Total(s, b), o), reused |-> o \notin Rows!Range(Sighting(s, b))]]
           joined == Rows!Joins(s, Arrivals(s, b))[Rows!Cardinality(Arrivals(s, b))]
<1>1. /\ r.facts = Total(s, b)
      /\ r.versions = Rows!Over(versions, s.versions)
      /\ r.links = Rows!Over(links, s.links)
      /\ r.groups = joined.groups
      /\ r.groupOf = joined.groupOf
  BY DEF Rows!Normalized, Total, Added, Picked, Fresh, OfKey, Sighting, Initial, Arrival, Arrivals
<1>2. /\ DOMAIN versions = Fresh(s, b)
      /\ \A k \in Fresh(s, b) : versions[k].first = Rows!At(Total(s, b), Sighting(s, b)[k])
      /\ DOMAIN links = Picked(s, b)
      /\ \A o \in Picked(s, b) : links[o].version = Rows!Key(Total(s, b), o)
  OBVIOUS
<1>3. \A k \in DOMAIN s.versions : k \notin Fresh(s, b)
  BY DEF Fresh
<1>4. joined = Rows!Joins(s, Arrivals(s, b))[Cardinality(Arrivals(s, b))]
  BY SameInRows
<1> HIDE DEF r, versions, links, joined
<1>5. /\ \A k : k \in DOMAIN r.versions <=> (k \in Fresh(s, b) \/ k \in DOMAIN s.versions)
      /\ \A k \in Fresh(s, b) : r.versions[k] = versions[k]
      /\ \A k \in DOMAIN s.versions : r.versions[k] = s.versions[k]
  BY <1>1, <1>2, <1>3, OverMaps
<1>6. /\ \A o : o \in DOMAIN r.links <=> (o \in Picked(s, b) \/ o \in DOMAIN s.links)
      /\ \A o \in Picked(s, b) : r.links[o] = links[o]
      /\ \A o \in DOMAIN s.links \ Picked(s, b) : r.links[o] = s.links[o]
  BY <1>1, <1>2, OverMaps
<1> QED
  BY <1>1, <1>2, <1>4, <1>5, <1>6 DEF r

\* A plan for s: facts that are causal after those of s.
Plan(s, b) == Normal(s) /\ b \in Seq(Fact) /\ Causal(Total(s, b))

\* What was there is not moved.
LEMMA OldFacts ==
    ASSUME NEW s, NEW b, Plan(s, b)
    PROVE  /\ Len(s.facts) \in Nat /\ Len(Total(s, b)) \in Nat
           /\ Len(s.facts) <= Len(Total(s, b))
           /\ \A m \in 1..Len(s.facts) : Total(s, b)[m] = s.facts[m]
           /\ \A o \in DOMAIN s.links :
                 /\ o[1] \in 1..Len(s.facts)
                 /\ Rows!At(Total(s, b), o) = Rows!At(s.facts, o)
                 /\ Rows!Key(Total(s, b), o) = Rows!Key(s.facts, o)
<1>1. s.facts \in Seq(Fact) /\ b \in Seq(Fact)
  BY DEF Plan, Normal, Causal
<1>2. /\ Len(s.facts) \in Nat /\ Len(Total(s, b)) \in Nat
      /\ Len(s.facts) <= Len(Total(s, b))
      /\ \A m \in 1..Len(s.facts) : Total(s, b)[m] = s.facts[m]
  BY <1>1 DEF Total
<1>3. ASSUME NEW o \in DOMAIN s.links
      PROVE  /\ o[1] \in 1..Len(s.facts)
             /\ Rows!At(Total(s, b), o) = Rows!At(s.facts, o)
             /\ Rows!Key(Total(s, b), o) = Rows!Key(s.facts, o)
  <2>1. o \in Rows!Observations(s.facts, 1..Len(s.facts))
    BY NormalTypes DEF Plan
  <2>2. o[1] \in 1..Len(s.facts)
    BY <2>1, ObservationTypes DEF Plan, Normal
  <2>3. Total(s, b)[o[1]] = s.facts[o[1]]
    BY <1>2, <2>2
  <2> QED
    BY <2>2, <2>3 DEF Rows!At, Rows!Key, Rows!Line
<1> QED
  BY <1>2, <1>3

\* What is picked is new, of a later minute, and excluded by nothing.
LEMMA PickedTypes ==
    ASSUME NEW s, NEW b, Plan(s, b), NEW o \in Picked(s, b)
    PROVE  /\ o \in Nat \X Nat /\ o \notin DOMAIN s.links
           /\ Rows!At(Total(s, b), o) \in Nat
           /\ Rows!At(Total(s, b), o) >= Len(s.facts) * Length
           /\ Rows!Line(Total(s, b), o).article \in Nat
           /\ Rows!Key(Total(s, b), o)[1] = Rows!Line(Total(s, b), o).article
           /\ o \in Rows!Observations(Total(s, b), Added(s, b))
<1>1. o \in Rows!Observations(Total(s, b), Added(s, b))
  BY DEF Picked, Rows!Eligible, Rows!Candidates
<1>2. Added(s, b) \subseteq 1..Len(Total(s, b))
  BY OldFacts DEF Added
<1>3. /\ o \in Nat \X Nat /\ o[1] \in Added(s, b)
      /\ Rows!At(Total(s, b), o) \in Nat
      /\ Rows!At(Total(s, b), o) >= (o[1] - 1) * Length
      /\ Rows!Line(Total(s, b), o).article \in Nat
      /\ Rows!Key(Total(s, b), o)[1] = Rows!Line(Total(s, b), o).article
  BY <1>1, <1>2, ObservationTypes DEF Plan
<1>4. o \notin DOMAIN s.links
  <2>1. Len(s.facts) + 1 <= o[1] /\ Len(s.facts) \in Nat
    BY <1>3, OldFacts DEF Added
  <2> QED
    BY <2>1, OldFacts
<1>5. Len(s.facts) * Length <= (o[1] - 1) * Length
  <2>1. Len(s.facts) \in Nat /\ o[1] - 1 \in Nat /\ Len(s.facts) <= o[1] - 1
    BY <1>3, OldFacts DEF Added
  <2> QED
    BY <2>1, TimesLength
<1>6. Length \in Nat /\ Len(s.facts) \in Nat /\ o[1] \in Nat
  BY <1>3, OldFacts, SentimentAssumption DEF Rows!NormalizerAssumption
<1>7. Rows!At(Total(s, b), o) >= Len(s.facts) * Length
  <2> DEFINE x == Len(s.facts) * Length
             y == (o[1] - 1) * Length
  <2>1. x \in Int /\ y \in Int /\ x <= y
    BY <1>5, <1>6
  <2>2. Rows!At(Total(s, b), o) >= y /\ Rows!At(Total(s, b), o) \in Nat
    BY <1>3
  <2> HIDE DEF x, y
  <2>3. Rows!At(Total(s, b), o) >= x
    BY <2>1, <2>2
  <2> QED
    BY <2>3 DEF x
<1> QED
  BY <1>1, <1>3, <1>4, <1>7

\* The first sighting of a new version is one of it, and the earliest.
LEMMA SightingIn ==
    ASSUME NEW s, NEW b, Plan(s, b), NEW k \in Fresh(s, b)
    PROVE  /\ Sighting(s, b)[k] \in OfKey(s, b, k)
           /\ \A q \in OfKey(s, b, k) \ {Sighting(s, b)[k]} :
                 Rows!Earlier(Total(s, b), Sighting(s, b)[k], q)
<1>1. OfKey(s, b, k) # {}
  BY DEF Fresh, OfKey
<1>2. OfKey(s, b, k) \subseteq Nat \X Nat
      /\ \A o \in OfKey(s, b, k) : Rows!At(Total(s, b), o) \in Nat
  BY PickedTypes DEF OfKey
<1>3. Sighting(s, b)[k] = Rows!Earliest(Total(s, b), OfKey(s, b, k))
  BY DEF Sighting
<1> QED
  BY <1>1, <1>2, <1>3, EarliestIn

\* Of two first sightings of an article only one is its first.
LEMMA ArrivalsNew ==
    ASSUME NEW s, NEW b, Plan(s, b)
    PROVE  /\ New(s, Arrivals(s, b))
           /\ \A a \in Arrivals(s, b) : \E k \in Fresh(s, b) :
                 k[1] = a.article /\ a.first = Rows!At(Total(s, b), Sighting(s, b)[k])
           /\ \A a \in Arrivals(s, b) : a.first >= Len(s.facts) * Length
<1>1. ASSUME NEW o \in Initial(s, b)
      PROVE  \E k \in Fresh(s, b) : o = Sighting(s, b)[k]
  BY DEF Initial, Rows!Range, Sighting
<1>2. ASSUME NEW o \in Initial(s, b)
      PROVE  /\ o \in Picked(s, b)
             /\ Arrival(s, b, o).first \in Nat /\ Arrival(s, b, o).article \in Nat
             /\ Arrival(s, b, o).article \notin DOMAIN s.groupOf
             /\ Arrival(s, b, o).first >= Len(s.facts) * Length
             /\ \E k \in Fresh(s, b) : /\ k[1] = Arrival(s, b, o).article
                                       /\ Arrival(s, b, o).first
                                            = Rows!At(Total(s, b), Sighting(s, b)[k])
  <2>1. PICK k \in Fresh(s, b) : o = Sighting(s, b)[k]
    BY <1>1
  <2>2. o \in Picked(s, b) /\ Rows!Key(Total(s, b), o) = k
    BY <2>1, SightingIn DEF OfKey
  <2>3. /\ Arrival(s, b, o).first = Rows!At(Total(s, b), o)
        /\ Arrival(s, b, o).article = Rows!Line(Total(s, b), o).article
    BY DEF Arrival
  <2>4. Rows!Line(Total(s, b), o).article \notin DOMAIN s.groupOf
    BY DEF Initial
  <2>5. /\ Rows!At(Total(s, b), o) \in Nat
        /\ Rows!At(Total(s, b), o) >= Len(s.facts) * Length
        /\ Rows!Line(Total(s, b), o).article \in Nat
        /\ Rows!Key(Total(s, b), o)[1] = Rows!Line(Total(s, b), o).article
    BY <2>2, PickedTypes
  <2> QED
    BY <2>1, <2>2, <2>3, <2>4, <2>5
<1>3. ASSUME NEW a \in Arrivals(s, b)
      PROVE  \E o \in Initial(s, b) : a = Arrival(s, b, o)
  BY DEF Arrivals
<1>4. IsFiniteSet(Arrivals(s, b))
  <2>1. IsFiniteSet(Rows!Observations(Total(s, b), Added(s, b)))
    <3>1. Total(s, b) \in Seq(Fact) /\ Added(s, b) \subseteq 1..Len(Total(s, b))
          /\ Len(Total(s, b)) \in Nat
      BY OldFacts DEF Plan, Causal, Added
    <3>2. ASSUME NEW m \in Added(s, b)
          PROVE  /\ Len(Total(s, b)[m].lines) \in Nat
                 /\ DOMAIN Total(s, b)[m].lines = 1..Len(Total(s, b)[m].lines)
      <4>1. Total(s, b)[m] \in Fact
        BY <3>1
      <4>2. Total(s, b)[m].lines \in Seq(SourceLine)
        BY <4>1 DEF Fact
      <4> QED
        BY <4>2
    <3> QED
      BY <3>1, <3>2, FiniteObservations
  <2>2. IsFiniteSet(Initial(s, b))
    <3>1. Initial(s, b) \subseteq Rows!Observations(Total(s, b), Added(s, b))
      BY <1>2, PickedTypes
    <3> QED
      BY <2>1, <3>1, FS_Subset
  <2> DEFINE f == [o \in Initial(s, b) |-> Arrival(s, b, o)]
  <2>3. f = [o \in Initial(s, b) |-> f[o]] /\ Arrivals(s, b) = {f[o] : o \in Initial(s, b)}
    BY DEF Arrivals
  <2> HIDE DEF f
  <2> QED
    BY <2>2, <2>3, FiniteImage
<1>5. ASSUME NEW x \in Arrivals(s, b), NEW y \in Arrivals(s, b), x.article = y.article
      PROVE  x = y
  <2>1. PICK o \in Initial(s, b), q \in Initial(s, b) :
            x = Arrival(s, b, o) /\ y = Arrival(s, b, q)
    BY <1>3
  <2>2. SUFFICES ASSUME o # q PROVE FALSE
    BY <2>1
  <2>3. Rows!Line(Total(s, b), o).article = Rows!Line(Total(s, b), q).article
    BY <1>5, <2>1 DEF Arrival
  <2>4. Rows!Earlier(Total(s, b), o, q) /\ Rows!Earlier(Total(s, b), q, o)
    BY <2>2, <2>3 DEF Initial
  <2>5. /\ Rows!At(Total(s, b), o) \in Nat /\ Rows!At(Total(s, b), q) \in Nat
        /\ o[1] \in Nat /\ o[2] \in Nat /\ q[1] \in Nat /\ q[2] \in Nat
    BY <1>2, PickedTypes
  <2>6. ~Rows!TextBefore(Rows!At(Total(s, b), o), Rows!At(Total(s, b), q))
    BY <2>4, <2>5, TextOrder DEF Rows!Earlier, Rows!TextBefore
  <2> QED
    BY <2>4, <2>5, <2>6, TextOrder DEF Rows!Earlier, Rows!TextBefore
<1>6. New(s, Arrivals(s, b))
  BY <1>2, <1>3, <1>4, <1>5 DEF New
<1> QED
  BY <1>2, <1>3, <1>6

\* An accepted plan leaves an accepted state, which is what s may become.
LEMMA PlanStep ==
    ASSUME NEW s, NEW b, Plan(s, b),
           Rows!Fitting(Rows!Normalized(s, b)), Rows!Accounted(Rows!Normalized(s, b))
    PROVE  /\ Normal(Rows!Normalized(s, b))
           /\ Later(s, Rows!Normalized(s, b))
           /\ Anchored(s) => Anchored(Rows!Normalized(s, b))
<1> DEFINE r == Rows!Normalized(s, b)
           joined == Rows!Joins(s, Arrivals(s, b))[Cardinality(Arrivals(s, b))]
<1>p. /\ r.facts = Total(s, b)
      /\ \A k : k \in DOMAIN r.versions <=> (k \in Fresh(s, b) \/ k \in DOMAIN s.versions)
      /\ \A k \in Fresh(s, b) : r.versions[k].first = Rows!At(Total(s, b), Sighting(s, b)[k])
      /\ \A k \in DOMAIN s.versions : r.versions[k] = s.versions[k]
      /\ \A o : o \in DOMAIN r.links <=> (o \in Picked(s, b) \/ o \in DOMAIN s.links)
      /\ \A o \in Picked(s, b) : r.links[o].version = Rows!Key(Total(s, b), o)
      /\ \A o \in DOMAIN s.links \ Picked(s, b) : r.links[o] = s.links[o]
      /\ r.groups = joined.groups
      /\ r.groupOf = joined.groupOf
  BY NormalizedParts
<1>f. Rows!Fitting(r) /\ Rows!Accounted(r)
  OBVIOUS
<1> HIDE DEF r, joined
<1>s. Normal(s)
  BY DEF Plan
<1>j. JoinInv(joined, s, Arrivals(s, b))
  BY <1>s, NormalTypes, ArrivalsNew, JoinAll DEF joined
<1>1. Normal(r)
  <2>1. ASSUME NEW o \in DOMAIN r.links PROVE r.links[o].version = Rows!Key(r.facts, o)
    <3>1. CASE o \in Picked(s, b)
      BY <1>p, <3>1
    <3>2. CASE o \notin Picked(s, b)
      <4>1. o \in DOMAIN s.links /\ r.links[o] = s.links[o]
        BY <1>p, <3>2
      <4>2. s.links[o].version = Rows!Key(s.facts, o)
        BY <1>s, <4>1 DEF Normal
      <4>3. Rows!Key(Total(s, b), o) = Rows!Key(s.facts, o)
        BY <4>1, OldFacts
      <4> QED
        BY <1>p, <4>1, <4>2, <4>3
    <3> QED
      BY <3>1, <3>2
  <2>2. Causal(r.facts)
    BY <1>p DEF Plan
  <2> QED
    BY <1>f, <2>1, <2>2 DEF Normal
<1>2. Later(s, r)
  <2>1. /\ Len(s.facts) <= Len(r.facts)
        /\ \A m \in 1..Len(s.facts) : r.facts[m] = s.facts[m]
    BY <1>p, OldFacts
  <2>2. ASSUME NEW k \in DOMAIN r.versions \ DOMAIN s.versions
        PROVE  r.versions[k].first >= Len(s.facts) * Length
    <3>1. k \in Fresh(s, b)
      BY <1>p
    <3>2. Sighting(s, b)[k] \in Picked(s, b)
      BY <3>1, SightingIn DEF OfKey
    <3>3. Rows!At(Total(s, b), Sighting(s, b)[k]) >= Len(s.facts) * Length
      BY <3>2, PickedTypes
    <3> QED
      BY <1>p, <3>1, <3>3
  <2>3. \A g \in DOMAIN s.groups : g \in DOMAIN r.groups /\ r.groups[g] = s.groups[g]
    BY <1>p, <1>j DEF JoinInv
  <2>4. ASSUME NEW g \in DOMAIN r.groups \ DOMAIN s.groups
        PROVE  r.groups[g].first >= Len(s.facts) * Length
    <3>1. PICK a \in Arrivals(s, b) : r.groups[g] = [title |-> a.title, first |-> a.first]
      BY <1>p, <1>j DEF JoinInv
    <3>2. r.groups[g].first = a.first
      BY <3>1
    <3> QED
      BY <3>2, ArrivalsNew
  <2> QED
    BY <1>p, <2>1, <2>2, <2>3, <2>4 DEF Later
<1>3. ASSUME Anchored(s) PROVE Anchored(r)
  <2> SUFFICES ASSUME NEW k \in DOMAIN r.versions
               PROVE  \E i \in DOMAIN r.versions :
                          /\ i[1] = k[1]
                          /\ r.versions[i].first - r.groups[r.groupOf[k[1]]].first \in 0..Horizon
    BY DEF Anchored
  <2>1. k[1] \in DOMAIN r.groupOf
    BY <1>1, NormalTypes
  <2>2. CASE k[1] \in DOMAIN s.groupOf /\ r.groupOf[k[1]] = s.groupOf[k[1]]
    <3>1. PICK i \in DOMAIN s.versions : i[1] = k[1]
      BY <1>s, <2>2, NormalTypes
    <3>2. PICK n \in DOMAIN s.versions :
              /\ n[1] = i[1]
              /\ s.versions[n].first - s.groups[s.groupOf[i[1]]].first \in 0..Horizon
      BY <1>3 DEF Anchored
    <3>3. s.groupOf[k[1]] \in DOMAIN s.groups
      BY <1>s, <2>2, NormalTypes DEF Grouped
    <3>4. r.groups[r.groupOf[k[1]]] = s.groups[s.groupOf[k[1]]]
      BY <1>2, <2>2, <3>3 DEF Later
    <3>5. n \in DOMAIN r.versions /\ r.versions[n] = s.versions[n]
      BY <1>2 DEF Later
    <3> QED
      BY <3>1, <3>2, <3>4, <3>5
  <2>3. CASE \E a \in Arrivals(s, b) :
                /\ a.article = k[1] /\ r.groupOf[k[1]] \in DOMAIN r.groups
                /\ a.first - r.groups[r.groupOf[k[1]]].first \in 0..Horizon
    <3>1. PICK a \in Arrivals(s, b) :
              /\ a.article = k[1]
              /\ a.first - r.groups[r.groupOf[k[1]]].first \in 0..Horizon
      BY <2>3
    <3>2. PICK n \in Fresh(s, b) :
              n[1] = a.article /\ a.first = Rows!At(Total(s, b), Sighting(s, b)[n])
      BY ArrivalsNew
    <3>3. n \in DOMAIN r.versions /\ r.versions[n].first = a.first
      BY <1>p, <3>2
    <3> QED
      BY <3>1, <3>2, <3>3
  <2> QED
    BY <1>p, <1>j, <2>1, <2>2, <2>3 DEF JoinInv
<1> QED
  BY <1>1, <1>2, <1>3 DEF r

\* Where two texts are in the order of their instants, they tell which is earlier.
LEMMA TextAsTime ==
    ASSUME NEW a \in Nat, NEW b \in Nat,
           a < b => Rows!TextBefore(a, b), b < a => Rows!TextBefore(b, a)
    PROVE  Rows!TextBefore(a, b) <=> a < b
<1>1. CASE a = b
  <2>1. ~(Rows!TextBefore(a, b) /\ Rows!TextBefore(b, a))
    BY TextOrder
  <2> QED
    BY <1>1, <2>1
<1>2. CASE b < a
  BY <1>2, TextOrder
<1>3. CASE a < b
  BY <1>3
<1> QED
  BY <1>1, <1>2, <1>3

\* A plan with an earlier sighting of a stored version is refused; of a new
\* version the earliest is taken.
LEMMA SightedStep ==
    ASSUME NEW s, NEW b, Plan(s, b), Rows!Unrevised(s, b), Sighted(s)
    PROVE  Sighted(Rows!Normalized(s, b))
<1> DEFINE r == Rows!Normalized(s, b)
<1>p. /\ r.facts = Total(s, b)
      /\ \A k \in Fresh(s, b) : r.versions[k].first = Rows!At(Total(s, b), Sighting(s, b)[k])
      /\ \A k \in DOMAIN s.versions : r.versions[k] = s.versions[k]
      /\ \A o : o \in DOMAIN r.links <=> (o \in Picked(s, b) \/ o \in DOMAIN s.links)
      /\ \A o \in Picked(s, b) : r.links[o].version = Rows!Key(Total(s, b), o)
      /\ \A o \in DOMAIN s.links \ Picked(s, b) : r.links[o] = s.links[o]
  BY NormalizedParts
<1> HIDE DEF r
<1>s. Normal(s)
  BY DEF Plan
<1>1. ASSUME NEW o \in DOMAIN r.links
      PROVE  ~Rows!TextBefore(Rows!At(r.facts, o), r.versions[r.links[o].version].first)
  <2> DEFINE k == Rows!Key(Total(s, b), o)
  <2>1. CASE o \in Picked(s, b) /\ k \in DOMAIN s.versions
    <3>1. ~Rows!TextBefore(Rows!At(Total(s, b), o), s.versions[k].first)
      BY <2>1 DEF Rows!Unrevised, Total, Picked, Added
    <3>2. r.links[o].version = k /\ r.versions[k] = s.versions[k]
      BY <1>p, <2>1
    <3> QED
      BY <1>p, <3>1, <3>2
  <2>2. CASE o \in Picked(s, b) /\ k \notin DOMAIN s.versions
    <3> DEFINE q == Sighting(s, b)[k]
    <3>1. k \in Fresh(s, b) /\ o \in OfKey(s, b, k)
      BY <2>2 DEF Fresh, OfKey
    <3>2. q \in Picked(s, b)
      BY <3>1, SightingIn DEF OfKey
    <3>3. o # q => Rows!Earlier(Total(s, b), q, o)
      BY <3>1, SightingIn
    <3>4. Rows!At(Total(s, b), o) \in Nat /\ Rows!At(Total(s, b), q) \in Nat
      BY <2>2, <3>2, PickedTypes
    <3>5. r.links[o].version = k /\ r.versions[k].first = Rows!At(Total(s, b), q)
      BY <1>p, <2>2, <3>1
    <3> HIDE DEF q
    <3> DEFINE x == Rows!At(Total(s, b), o)
               y == Rows!At(Total(s, b), q)
    <3>6. x = y \/ Rows!TextBefore(y, x)
      BY <3>3 DEF Rows!Earlier
    <3>7. x \in Nat /\ y \in Nat
      BY <3>4
    <3> HIDE DEF x, y
    <3>8. ~Rows!TextBefore(x, y)
      BY <3>6, <3>7, TextOrder
    <3> QED
      BY <1>p, <3>5, <3>8 DEF x, y
  <2>3. CASE o \notin Picked(s, b)
    <3>1. o \in DOMAIN s.links /\ r.links[o] = s.links[o]
      BY <1>p, <2>3
    <3>2. ~Rows!TextBefore(Rows!At(s.facts, o), s.versions[s.links[o].version].first)
      BY <3>1 DEF Sighted
    <3>3. s.links[o].version \in DOMAIN s.versions
      BY <1>s, <3>1 DEF Normal, Rows!Fitting
    <3>4. Rows!At(Total(s, b), o) = Rows!At(s.facts, o)
      BY <3>1, OldFacts
    <3> QED
      BY <1>p, <3>1, <3>2, <3>3, <3>4
  <2> QED
    BY <2>1, <2>2, <2>3
<1> QED
  BY <1>1 DEF Sighted, r

LEMMA LaterSame == ASSUME NEW s, Normal(s) PROVE Later(s, s)
BY NormalTypes DEF Later

\* What a state may become may go on becoming.
LEMMA LaterThrough ==
    ASSUME NEW s, NEW r, NEW u, Normal(s), Normal(r), Normal(u), Later(s, r), Later(r, u)
    PROVE  Later(s, u)
<1>1. /\ Len(s.facts) \in Nat /\ Len(r.facts) \in Nat /\ Len(u.facts) \in Nat
      /\ Len(s.facts) <= Len(r.facts) /\ Len(r.facts) <= Len(u.facts)
  BY NormalTypes DEF Later
<1> DEFINE x == Len(s.facts) * Length
           y == Len(r.facts) * Length
<1>2. x \in Int /\ y \in Int /\ x <= y
  <2>1. Length \in Nat
    BY SentimentAssumption DEF Rows!NormalizerAssumption
  <2> QED
    BY <1>1, <2>1, TimesLength
<1>3. /\ \A k \in DOMAIN r.versions \ DOMAIN s.versions : r.versions[k].first >= x
      /\ \A k \in DOMAIN u.versions \ DOMAIN r.versions : u.versions[k].first >= y
      /\ \A g \in DOMAIN r.groups \ DOMAIN s.groups : r.groups[g].first >= x
      /\ \A g \in DOMAIN u.groups \ DOMAIN r.groups : u.groups[g].first >= y
  BY DEF Later
<1> HIDE DEF x, y
<1>4. ASSUME NEW k \in DOMAIN u.versions \ DOMAIN s.versions PROVE u.versions[k].first >= x
  <2>1. CASE k \in DOMAIN r.versions
    BY <1>3, <2>1 DEF Later
  <2>2. CASE k \notin DOMAIN r.versions
    <3>1. u.versions[k].first >= y /\ u.versions[k].first \in Nat
      BY <1>3, <2>2, NormalTypes
    <3> QED
      BY <1>2, <3>1
  <2> QED
    BY <2>1, <2>2
<1>5. ASSUME NEW g \in DOMAIN u.groups \ DOMAIN s.groups PROVE u.groups[g].first >= x
  <2>1. CASE g \in DOMAIN r.groups
    BY <1>3, <2>1 DEF Later
  <2>2. CASE g \notin DOMAIN r.groups
    <3>1. u.groups[g].first >= y /\ u.groups[g].first \in Nat
      BY <1>3, <2>2, NormalTypes DEF Grouped
    <3> QED
      BY <1>2, <3>1
  <2> QED
    BY <2>1, <2>2
<1>6. \A m \in 1..Len(s.facts) : u.facts[m] = s.facts[m]
  BY <1>1 DEF Later
<1>7. Len(s.facts) <= Len(u.facts)
  BY <1>1
<1> QED
  BY <1>4, <1>5, <1>6, <1>7 DEF Later, x

-----------------------------------------------------------------------------
(* A row of a covered decision reads nothing that a later state adds. *)

\* The title of a group at t is of a version that was there.
LEMMA SameTitle ==
    ASSUME NEW s, NEW r, Later(s, r), NEW t \in Nat, t < Len(s.facts) * Length,
           Normal(s), Normal(r), NEW g
    PROVE  Rows!TitleAt(r, g, t) = Rows!TitleAt(s, g, t)
<1> DEFINE Seen(u) == {k \in DOMAIN u.versions : k[1] = g /\ u.versions[k].first <= t}
           x == Len(s.facts) * Length
<1>0. x \in Nat /\ t < x
  <2>1. Length \in Nat /\ Len(s.facts) \in Nat
    BY NormalTypes, SentimentAssumption DEF Rows!NormalizerAssumption
  <2> QED
    BY <2>1
<1>1. \A k \in DOMAIN r.versions \ DOMAIN s.versions :
         r.versions[k].first >= x /\ r.versions[k].first \in Nat
  BY NormalTypes DEF Later
<1> HIDE DEF x
<1>2. \A k \in DOMAIN s.versions : k \in DOMAIN r.versions /\ r.versions[k] = s.versions[k]
  BY DEF Later
<1>3. Seen(r) = Seen(s)
  <2>1. ASSUME NEW k \in Seen(r) PROVE k \in Seen(s)
    <3>1. k \in DOMAIN s.versions
      BY <1>0, <1>1
    <3> QED
      BY <1>2, <3>1
  <2>2. ASSUME NEW k \in Seen(s) PROVE k \in Seen(r)
    BY <1>2
  <2> HIDE DEF Seen
  <2> QED
    BY <2>1, <2>2
<1>4. \A k \in Seen(s) : r.versions[k].first = s.versions[k].first
  BY <1>2
<1> DEFINE Last(u, S) == CHOOSE k \in S : \A l \in S : u.versions[l].first <= u.versions[k].first
<1>5. Rows!TitleAt(r, g, t) = Last(r, Seen(r))[2] /\ Rows!TitleAt(s, g, t) = Last(s, Seen(s))[2]
  BY DEF Rows!TitleAt
<1> HIDE DEF Seen
<1>6. Last(r, Seen(s)) = Last(s, Seen(s))
  <2> DEFINE S == Seen(s)
  <2>1. \A k \in S : r.versions[k].first = s.versions[k].first
    BY <1>4
  <2> HIDE DEF S
  <2>2. \A k : (k \in S /\ \A l \in S : r.versions[l].first <= r.versions[k].first)
                <=> (k \in S /\ \A l \in S : s.versions[l].first <= s.versions[k].first)
    BY <2>1
  <2>3. Last(r, S) = Last(s, S)
    BY <2>2, Zenon
  <2> QED
    BY <2>3 DEF S
<1> QED
  BY <1>3, <1>5, <1>6

\* Gaps, groups and titles up to t are the same, so the row is.
LEMMA RowStands ==
    ASSUME NEW s, NEW r, Normal(s), Normal(r), Later(s, r),
           NEW t \in Decisions, Rows!Covers(s, t)
    PROVE  Rows!Row(r, t) = Rows!Row(s, t)
<1> DEFINE x == Len(s.facts) * Length
<1>0. /\ t \in Nat /\ Length \in Nat /\ Len(s.facts) \in Nat /\ Len(r.facts) \in Nat
      /\ Len(s.facts) <= Len(r.facts) /\ Window \in Nat
      /\ DOMAIN s.facts = 1..Len(s.facts) /\ DOMAIN r.facts = 1..Len(r.facts)
  <2>1. t \in Nat /\ Length \in Nat /\ Window \in Nat
    BY SentimentAssumption DEF Rows!NormalizerAssumption, Rows!AggregationAssumption
  <2> QED
    BY <2>1, NormalTypes DEF Later
<1>1. x \in Nat /\ t < x
  BY <1>0 DEF Rows!Covers
<1>2. Rows!InGap(r, t) <=> Rows!InGap(s, t)
  <2>1. ASSUME NEW m \in DOMAIN r.facts, m \notin DOMAIN s.facts PROVE ~((m - 1) * Length <= t)
    <3>1. m - 1 \in Nat /\ Len(s.facts) <= m - 1
      BY <1>0, <2>1
    <3>2. Len(s.facts) * Length <= (m - 1) * Length
      BY <1>0, <3>1, TimesLength
    <3> DEFINE y == (m - 1) * Length
    <3>3. y \in Nat /\ x <= y
      BY <1>0, <3>1, <3>2
    <3> HIDE DEF x, y
    <3>4. ~(y <= t)
      BY <1>0, <1>1, <3>3
    <3> QED
      BY <3>4 DEF y
  <2>2. \A m \in DOMAIN s.facts : m \in DOMAIN r.facts /\ r.facts[m] = s.facts[m]
    BY <1>0 DEF Later
  <2> HIDE DEF x
  <2> QED
    BY <2>1, <2>2 DEF Rows!InGap
<1>3. \A g \in DOMAIN s.groups : g \in DOMAIN r.groups /\ r.groups[g] = s.groups[g]
  BY DEF Later
<1>4. Rows!Selected(r, t) = Rows!Selected(s, t)
  <2>1. ASSUME NEW g \in Rows!Selected(r, t) PROVE g \in Rows!Selected(s, t)
    <3>1. g \in DOMAIN r.groups /\ r.groups[g].first <= t /\ r.groups[g].first \in Nat
      BY <1>0, NormalTypes DEF Rows!Selected, Grouped
    <3>2. g \notin DOMAIN s.groups => r.groups[g].first >= x
      BY <3>1 DEF Later
    <3> HIDE DEF x
    <3>3. g \in DOMAIN s.groups
      BY <1>0, <1>1, <3>1, <3>2
    <3> QED
      BY <1>3, <3>3 DEF Rows!Selected
  <2>2. ASSUME NEW g \in Rows!Selected(s, t) PROVE g \in Rows!Selected(r, t)
    BY <1>3 DEF Rows!Selected
  <2> QED
    BY <2>1, <2>2
<1> DEFINE selected == Rows!Selected(s, t)
           Age(u, g) == t - u.groups[g].first
           Counts(u) == [w \in Windows |-> Rows!Cardinality({g \in selected : Age(u, g) < w})]
           Scored(u) == [g \in selected |-> <<Age(u, g), Rows!ScoreAt(u, g, t)>>]
           Ages(u) == {Age(u, g) : g \in selected}
           Least(u, A) == CHOOSE a \in A : \A g \in selected : a <= Age(u, g)
           Latest(u) == IF selected = {} THEN Window ELSE Least(u, Ages(u))
           Features(u) == [counts |-> Counts(u), scores |-> Scored(u), latest |-> Latest(u)]
           Number(u, S, score) == Rows!Cardinality({g \in S : Rows!ScoreAt(u, g, t) = score})
           Failed(u) == [w \in Windows \cup {Window} |->
               <<Number(u, {g \in selected : Age(u, g) < w}, "failed"),
                 Rows!Cardinality({g \in selected : Age(u, g) < w})>>]
<1>5. \A g \in selected : Age(r, g) = Age(s, g)
  BY <1>3 DEF Rows!Selected
<1>6. \A g \in selected : Rows!ScoreAt(r, g, t) = Rows!ScoreAt(s, g, t)
  BY <1>0, <1>1, SameTitle DEF Rows!ScoreAt
<1>7. ASSUME NEW u \in {s, r}
      PROVE  Rows!Row(u, t) = [gap      |-> Rows!InGap(u, t),
                               features |-> IF Rows!InGap(u, t) THEN {} ELSE {Features(u)},
                               failed   |-> Failed(u),
                               low      |-> Number(u, selected, "low")]
  BY <1>4 DEF Rows!Row
<1> HIDE DEF selected, Age
<1>8. Counts(r) = Counts(s)
  <2>1. \A w \in Windows : {g \in selected : Age(r, g) < w} = {g \in selected : Age(s, g) < w}
    BY <1>5
  <2> QED
    BY <2>1
<1>9. Scored(r) = Scored(s)
  BY <1>5, <1>6
<1>10. Latest(r) = Latest(s)
  <2>1. Ages(r) = Ages(s)
    BY <1>5
  <2> DEFINE A == Ages(s)
  <2> HIDE DEF A
  <2>2. \A a : (a \in A /\ \A g \in selected : a <= Age(r, g))
                <=> (a \in A /\ \A g \in selected : a <= Age(s, g))
    BY <1>5
  <2>3. Least(r, A) = Least(s, A)
    BY <2>2, Zenon
  <2>4. Latest(r) = (IF selected = {} THEN Window ELSE Least(r, Ages(r)))
        /\ Latest(s) = (IF selected = {} THEN Window ELSE Least(s, Ages(s)))
    OBVIOUS
  <2>5. Ages(r) = A /\ Ages(s) = A
    BY <2>1 DEF A
  <2> HIDE DEF Latest, Least, Ages
  <2> QED
    BY <2>3, <2>4, <2>5
<1>11. ASSUME NEW S, S \subseteq selected, NEW score
       PROVE  Number(r, S, score) = Number(s, S, score)
  <2>1. {g \in S : Rows!ScoreAt(r, g, t) = score} = {g \in S : Rows!ScoreAt(s, g, t) = score}
    BY <1>6, <1>11
  <2> QED
    BY <2>1
<1>12. Failed(r) = Failed(s)
  <2> HIDE DEF Number
  <2>1. ASSUME NEW w \in Windows \cup {Window}
        PROVE  /\ {g \in selected : Age(r, g) < w} = {g \in selected : Age(s, g) < w}
               /\ {g \in selected : Age(s, g) < w} \subseteq selected
    BY <1>5
  <2>2. ASSUME NEW w \in Windows \cup {Window}
        PROVE  Number(r, {g \in selected : Age(r, g) < w}, "failed")
                  = Number(s, {g \in selected : Age(s, g) < w}, "failed")
    BY <1>11, <2>1
  <2> QED
    BY <2>1, <2>2
<1>13. Number(r, selected, "low") = Number(s, selected, "low")
  BY <1>11
<1>14. Features(r) = Features(s)
  <2> HIDE DEF Counts, Scored, Latest
  <2> QED
    BY <1>8, <1>9, <1>10
<1>15. Rows!InGap(r, t) = Rows!InGap(s, t)
  BY <1>2 DEF Rows!InGap
<1> HIDE DEF Features, Failed, Number
<1> QED
  BY <1>7, <1>12, <1>13, <1>14, <1>15

-----------------------------------------------------------------------------
(* The states that can be reached. *)

\* Both states are accepted, and the one in memory is what the published one may
\* become: the one in memory went on from the other, or is it again.
RowsInv ==
    /\ clock \in Nat
    /\ \A d \in archive :
          /\ d.lines \in Seq(SourceLine) /\ d.published \in Nat
          /\ d.published >= (d.minute - 1) * Length
    /\ Normal(norm) /\ Normal(state)
    /\ Later(state, norm)
    /\ Anchored(norm) /\ Anchored(state)

LEMMA EmptyState == Normal(Rows!Empty) /\ Anchored(Rows!Empty) /\ Sighted(Rows!Empty)
<1> DEFINE e == Rows!Empty
<1>1. /\ e.facts = <<>> /\ e.exclusions = {}
      /\ DOMAIN e.versions = {} /\ DOMAIN e.links = {}
      /\ DOMAIN e.groups = {} /\ DOMAIN e.groupOf = {}
  BY DEF Rows!Empty, Rows!Nobody
<1> HIDE DEF e
<1>2. Rows!Observations(e.facts, DOMAIN e.facts) = {}
  BY <1>1 DEF Rows!Observations
<1>3. Causal(e.facts)
  BY <1>1 DEF Causal
<1>4. Rows!Accounted(e)
  BY <1>1, <1>2 DEF Rows!Accounted
<1>5. Rows!Fitting(e)
  BY <1>1 DEF Rows!Fitting, Rows!Range
<1> QED
  BY <1>1, <1>3, <1>4, <1>5 DEF Normal, Anchored, Sighted, e

LEMMA RowsInit == Rows!Init => RowsInv
<1> SUFFICES ASSUME Rows!Init PROVE RowsInv
  OBVIOUS
<1>1. clock = 0 /\ archive = {} /\ norm = Rows!Empty /\ state = Rows!Empty
  BY DEF Rows!Init
<1> QED
  BY <1>1, EmptyState, LaterSame DEF RowsInv

\* What a caller may give for a minute is a fact, and causal.
LEMMA GivenFacts ==
    ASSUME RowsInv, NEW m \in Nat \ {0}, NEW f \in Rows!Facts(m)
    PROVE  f \in Fact /\ (f.state = "complete" => f.terminal >= (m - 1) * Length)
<1>1. Rows!GapTimes(m) \subseteq Nat
  <2>1. Length \in Nat /\ Lag \in Nat
    BY SentimentAssumption DEF Rows!NormalizerAssumption
  <2>2. (m - 1) * Length \in Nat
    BY <2>1
  <2>3. Rows!Due(m) \in Nat
    BY <2>1, <2>2 DEF Rows!Due
  <2> QED
    BY <2>3 DEF Rows!GapTimes, RowsInv
<1>2. CASE \E d \in archive :
              /\ d.minute = m
              /\ f = [state |-> "complete", published |-> d.published,
                      terminal |-> d.published, lines |-> d.lines]
  <2>1. PICK d \in archive :
            /\ d.minute = m
            /\ f = [state |-> "complete", published |-> d.published,
                    terminal |-> d.published, lines |-> d.lines]
    BY <1>2
  <2> QED
    BY <2>1 DEF RowsInv, Fact
<1>3. CASE \E t \in Rows!GapTimes(m) :
              f = [state |-> "missing", published |-> t, terminal |-> t, lines |-> <<>>]
  BY <1>1, <1>3 DEF Fact
<1>4. CASE \E d \in archive, t \in Rows!GapTimes(m) :
              f = [state |-> "invalid", published |-> d.published, terminal |-> t,
                   lines |-> <<>>]
  BY <1>1, <1>4 DEF Fact, RowsInv
<1> QED
  BY <1>2, <1>3, <1>4 DEF Rows!Facts

\* What normalize appends is a plan for the state in memory.
LEMMA NormalizePlan ==
    ASSUME RowsInv, NEW length \in 1..MaxPlan, Rows!Normalize(length)
    PROVE  \E b : /\ Plan(norm, b) /\ b # <<>> /\ Rows!Accepts(norm, b, clock)
                  /\ norm' = Rows!Normalized(norm, b)
<1> DEFINE next == Len(norm.facts)
<1>1. PICK b \in [1..length -> UNION {Rows!Facts(next + k) : k \in 1..length}] :
          /\ \A k \in 1..length : b[k] \in Rows!Facts(next + k)
          /\ Rows!Accepts(norm, b, clock)
          /\ norm' = Rows!Normalized(norm, b)
  BY DEF Rows!Normalize
<1>2. next \in Nat /\ length \in Nat /\ norm.facts \in Seq(Fact)
  <2>1. MaxPlan \in Nat
    BY SentimentAssumption DEF Rows!NormalizerAssumption
  <2> QED
    BY <2>1 DEF RowsInv, Normal, Causal
<1>3. ASSUME NEW k \in 1..length
      PROVE  /\ b[k] \in Fact
             /\ b[k].state = "complete" => b[k].terminal >= ((next + k) - 1) * Length
  <2>1. b[k] \in Rows!Facts(next + k)
    BY <1>1
  <2>2. next + k \in Nat \ {0}
    BY <1>2
  <2> HIDE DEF next
  <2> QED
    BY <2>1, <2>2, GivenFacts
<1>4. b \in Seq(Fact) /\ Len(b) = length /\ b # <<>>
  <2>1. b = [k \in 1..length |-> b[k]]
    OBVIOUS
  <2>2. b \in [1..length -> Fact]
    BY <1>3, <2>1
  <2> QED
    BY <1>2, <2>2
<1> DEFINE total == norm.facts \o b
<1>5. /\ total \in Seq(Fact) /\ Len(total) = next + length
      /\ \A m \in 1..next : total[m] = norm.facts[m]
      /\ \A m \in next + 1 .. next + length : total[m] = b[m - next]
  <2> DEFINE fs == norm.facts
  <2> HIDE DEF fs
  <2>1. fs \in Seq(Fact) /\ b \in Seq(Fact) /\ Len(b) = length /\ length \in Nat
    BY <1>2, <1>4 DEF fs
  <2>2. /\ fs \o b \in Seq(Fact) /\ Len(fs \o b) = Len(fs) + length
        /\ \A m \in 1..Len(fs) : (fs \o b)[m] = fs[m]
        /\ \A m \in Len(fs) + 1 .. Len(fs) + length : (fs \o b)[m] = b[m - Len(fs)]
    BY <2>1
  <2> QED
    BY <2>2 DEF fs
<1> HIDE DEF total
<1>6. ASSUME NEW m \in 1..Len(total), total[m].state = "complete"
      PROVE  total[m].terminal >= (m - 1) * Length
  <2>1. CASE m \in 1..next
    BY <1>5, <1>6, <2>1 DEF RowsInv, Normal, Causal
  <2>2. CASE m \in next + 1 .. next + length
    <3>1. m - next \in 1..length /\ (next + (m - next)) = m
      BY <1>2, <2>2
    <3> HIDE DEF next
    <3> QED
      BY <1>3, <1>5, <1>6, <2>2, <3>1
  <2> QED
    BY <1>2, <1>5, <2>1, <2>2
<1>7. Causal(total)
  BY <1>5, <1>6 DEF Causal
<1>8. Plan(norm, b)
  BY <1>4, <1>7 DEF Plan, Total, RowsInv, total
<1> QED
  BY <1>1, <1>4, <1>8

LEMMA RowsStep == ASSUME RowsInv, [Rows!Next]_(Rows!vars) PROVE RowsInv'
<1>1. ASSUME NEW m \in 1..Minutes, NEW lines, NEW received,
             lines \in Responses \/ lines = <<>>, Rows!Ingest(m, lines, received)
      PROVE  RowsInv'
  <2>1. lines \in Seq(SourceLine)
    <3>1. \A l \in Responses : l \in Seq(SourceLine)
      BY SentimentAssumption DEF Rows!NormalizerAssumption, SourceLine
    <3>2. <<>> \in Seq(SourceLine)
      OBVIOUS
    <3> QED
      BY <1>1, <3>1, <3>2
  <2>2. /\ clock >= (m - 1) * Length
        /\ archive' = archive \cup {[minute |-> m, state |-> received, lines |-> lines,
                                     published |-> clock]}
        /\ clock' = clock /\ norm' = norm /\ state' = state
    BY <1>1 DEF Rows!Ingest
  <2> QED
    BY <2>1, <2>2 DEF RowsInv
<1>2. ASSUME NEW length \in 1..MaxPlan, Rows!Normalize(length) PROVE RowsInv'
  <2>1. PICK b : /\ Plan(norm, b) /\ Rows!Accepts(norm, b, clock)
                 /\ norm' = Rows!Normalized(norm, b)
    BY <1>2, NormalizePlan
  <2>2. clock' = clock /\ archive' = archive /\ state' = state
    BY <1>2 DEF Rows!Normalize
  <2>3. Normal(norm') /\ Later(norm, norm') /\ Anchored(norm')
    BY <2>1, PlanStep DEF Rows!Accepts, RowsInv
  <2>4. Later(state, norm')
    BY <2>3, LaterThrough DEF RowsInv
  <2> QED
    BY <2>2, <2>3, <2>4 DEF RowsInv
<1>3. CASE Rows!PublishState
  <2>1. state' = norm /\ clock' = clock /\ archive' = archive /\ norm' = norm
    BY <1>3 DEF Rows!PublishState
  <2> QED
    BY <2>1, LaterSame DEF RowsInv
<1>4. CASE Rows!Hydrate
  <2>1. norm' = state /\ clock' = clock /\ archive' = archive /\ state' = state
    BY <1>4 DEF Rows!Hydrate
  <2> QED
    BY <2>1, LaterSame DEF RowsInv
<1>5. CASE Rows!Tick
  <2>1. clock' = clock + 1 /\ archive' = archive /\ norm' = norm /\ state' = state
    BY <1>5 DEF Rows!Tick
  <2> QED
    BY <2>1 DEF RowsInv
<1>6. CASE UNCHANGED Rows!vars
  <2>1. clock' = clock /\ archive' = archive /\ norm' = norm /\ state' = state
    BY <1>6 DEF Rows!vars
  <2> QED
    BY <2>1 DEF RowsInv
<1> QED
  BY <1>1, <1>2, <1>3, <1>4, <1>5, <1>6 DEF Rows!Next

\* All that can be reached is accepted, and goes on from what was published.
THEOREM RowsInvariant == Rows!Spec => []RowsInv
<1>1. RowsInv /\ [Rows!Next]_(Rows!vars) => RowsInv'
  BY RowsStep
<1> QED
  BY <1>1, RowsInit, PTL DEF Rows!Spec

\* A decision never looks into its future: what is published next adds only what
\* came after the minutes that its window and its own minute needed.
THEOREM DecisionsStand == Rows!Spec => RowsStand
<1>1. ASSUME RowsInv, [Rows!Next]_(Rows!vars), NEW t \in Decisions, Rows!Covers(state, t)
      PROVE  Rows!Row(state', t) = Rows!Row(state, t)
  <2>1. CASE state' = state
    BY <2>1
  <2>2. CASE state' = norm
    BY <1>1, <2>2, RowStands DEF RowsInv
  <2> QED
    BY <1>1, <2>1, <2>2
    DEF Rows!Next, Rows!vars, Rows!Ingest, Rows!Normalize, Rows!PublishState, Rows!Hydrate,
        Rows!Tick
<1>2. RowsInv /\ [Rows!Next]_(Rows!vars)
         => [\A t \in Decisions : Rows!Covers(state, t)
                => Rows!Row(state', t) = Rows!Row(state, t)]_(Rows!vars)
  BY <1>1
<1> QED
  BY <1>2, RowsInvariant, PTL DEF Rows!Spec, RowsStand, Rows!RowsStand

\* A version is available from its first sighting on, no sighting comes before
\* that one in the order the code gives them, and no article is a duplicate of one
\* first seen after it: through any plans, revisions and restarts.
THEOREM SightingsAreFirst == Rows!Spec => []FirstSeenIsEarliest
<1> DEFINE SightedInv == Sighted(norm) /\ Sighted(state)
<1>1. Rows!Init => SightedInv
  BY EmptyState DEF Rows!Init
<1>2. ASSUME RowsInv, SightedInv, [Rows!Next]_(Rows!vars) PROVE SightedInv'
  <2>1. ASSUME NEW length \in 1..MaxPlan, Rows!Normalize(length) PROVE SightedInv'
    <3>1. PICK b : /\ Plan(norm, b) /\ Rows!Accepts(norm, b, clock)
                   /\ norm' = Rows!Normalized(norm, b)
      BY <1>2, <2>1, NormalizePlan
    <3>2. state' = state
      BY <2>1 DEF Rows!Normalize
    <3>3. Sighted(norm')
      BY <1>2, <3>1, SightedStep DEF Rows!Accepts
    <3> QED
      BY <1>2, <3>2, <3>3
  <2>2. CASE norm' = norm /\ state' \in {norm, state}
    BY <1>2, <2>2
  <2>3. CASE norm' = state /\ state' = state
    BY <1>2, <2>3
  <2> QED
    BY <1>2, <2>1, <2>2, <2>3
    DEF Rows!Next, Rows!vars, Rows!Ingest, Rows!PublishState, Rows!Hydrate, Rows!Tick
<1>3. RowsInv /\ SightedInv => FirstSeenIsEarliest
  BY DEF RowsInv, Sighted, Anchored, FirstSeenIsEarliest, Rows!FirstSeenIsEarliest
<1>4. RowsInv /\ SightedInv /\ [Rows!Next]_(Rows!vars) => SightedInv'
  BY <1>2
<1> HIDE DEF SightedInv
<1> QED
  BY <1>1, <1>3, <1>4, RowsInvariant, PTL DEF Rows!Spec

-----------------------------------------------------------------------------
(* What a state is of its facts alone, however they were cut into plans,   *)
(* where the texts of the sightings are in the order of their instants.    *)

\* One fact after the other: nothing was delivered before the last one was closed,
\* and the texts of the delivered ones sort so.
Ordered(facts) ==
    /\ \A m \in 1..Len(facts) : facts[m].published <= facts[m].terminal
    /\ \A m, n \in 1..Len(facts) : m < n => facts[m].terminal < facts[n].published
    /\ \A m, n \in 1..Len(facts) :
          m < n /\ facts[m].state = "complete" /\ facts[n].state = "complete"
              => Rows!TextBefore(facts[m].terminal, facts[n].terminal)

\* The place of an observation, which is the order of their instants.
Before(o, q) == o[1] < q[1] \/ (o[1] = q[1] /\ o[2] < q[2])

Entitled(facts) == Rows!Eligible(facts, 1..Len(facts))

\* Nothing else of the version, or of the article, was seen before.
Leads(facts, o) ==
    \A q \in Entitled(facts) \ {o} : Rows!Key(facts, q) = Rows!Key(facts, o) => Before(o, q)

Debuts(facts) ==
    {o \in Entitled(facts) : \A q \in Entitled(facts) \ {o} :
        Rows!Line(facts, q).article = Rows!Line(facts, o).article => Before(o, q)}

Newcomer(facts, o) == [article |-> Rows!Line(facts, o).article,
                       title   |-> Rows!Line(facts, o).title,
                       first   |-> Rows!At(facts, o)]
Newcomers(facts)   == {Newcomer(facts, o) : o \in Debuts(facts)}

Sooner(a, b) == a.first < b.first \/ (a.first = b.first /\ a.article < b.article)

\* The groups that an article could join when it came.
Joinable(groups, a) ==
    {g \in Rows!Matches(groups, a.title, a.first) :
        Sooner([article |-> g, first |-> groups[g].first], a)}

Anchors(groups, articles) == {a \in articles : Joinable(groups, a) = {}}

\* Every article anchors its group or is in the earliest one that it could join:
\* the groups of some articles, however they came.
Grouping(groups, groupOf, articles) ==
    /\ groups = [g \in DOMAIN groups |-> groups[g]]
    /\ groupOf = [x \in DOMAIN groupOf |-> groupOf[x]]
    /\ DOMAIN groups = {a.article : a \in Anchors(groups, articles)}
    /\ DOMAIN groupOf = {a.article : a \in articles}
    /\ \A a \in Anchors(groups, articles) :
          /\ groups[a.article] = [title |-> a.title, first |-> a.first]
          /\ groupOf[a.article] = a.article
    /\ \A a \in articles \ Anchors(groups, articles) :
          groupOf[a.article] = Rows!EarliestGroup(groups, Joinable(groups, a))

\* Every part of the state, from its facts.
Canonical(s) ==
    /\ Causal(s.facts) /\ Ordered(s.facts)
    /\ s = [facts |-> s.facts, closed |-> s.closed, versions |-> s.versions, links |-> s.links,
            exclusions |-> s.exclusions, groups |-> s.groups, groupOf |-> s.groupOf]
    /\ s.closed = IF s.facts = <<>> THEN 0 ELSE s.facts[Len(s.facts)].terminal + 1
    /\ s.links = [o \in Entitled(s.facts) |->
                     [version |-> Rows!Key(s.facts, o), reused |-> ~Leads(s.facts, o)]]
    /\ s.exclusions = Rows!Observations(s.facts, 1..Len(s.facts)) \ Entitled(s.facts)
    /\ s.versions = [k \in DOMAIN s.versions |-> s.versions[k]]
    /\ DOMAIN s.versions = {Rows!Key(s.facts, o) : o \in Entitled(s.facts)}
    /\ \A o \in Entitled(s.facts) : Leads(s.facts, o) =>
          s.versions[Rows!Key(s.facts, o)] = [first |-> Rows!At(s.facts, o), observation |-> o]
    /\ Grouping(s.groups, s.groupOf, Newcomers(s.facts))

-----------------------------------------------------------------------------
(* Facts in the order of time. *)

\* The types of the facts that observations are of.
LEMMA FactTypes ==
    ASSUME NEW facts, Causal(facts), NEW m \in 1..Len(facts)
    PROVE  /\ Len(facts) \in Nat /\ DOMAIN facts = 1..Len(facts)
           /\ facts[m].terminal \in Nat /\ facts[m].published \in Nat
<1>1. facts \in Seq(Fact)
  BY DEF Causal
<1>2. Len(facts) \in Nat /\ DOMAIN facts = 1..Len(facts) /\ facts[m] \in Fact
  BY <1>1
<1> QED
  BY <1>2 DEF Fact

\* Each is closed after the ones before it.
LEMMA TerminalsIncrease ==
    ASSUME NEW facts, Causal(facts), Ordered(facts),
           NEW m \in 1..Len(facts), NEW n \in 1..Len(facts), m < n
    PROVE  facts[m].terminal < facts[n].terminal
<1>1. /\ facts[m].terminal \in Nat /\ facts[n].published \in Nat /\ facts[n].terminal \in Nat
  BY FactTypes
<1>2. facts[m].terminal < facts[n].published /\ facts[n].published <= facts[n].terminal
  BY DEF Ordered
<1> QED
  BY <1>1, <1>2

\* The earlier observation is the one before.
LEMMA EarlierBefore ==
    ASSUME NEW facts, Causal(facts), Ordered(facts),
           NEW o \in Nat \X Nat, NEW q \in Nat \X Nat,
           o[1] \in 1..Len(facts), q[1] \in 1..Len(facts),
           facts[o[1]].state = "complete", facts[q[1]].state = "complete"
    PROVE  /\ Rows!Earlier(facts, o, q) <=> Before(o, q)
           /\ Rows!At(facts, o) = Rows!At(facts, q) <=> o[1] = q[1]
           /\ Before(o, q) => Rows!At(facts, o) <= Rows!At(facts, q)
           /\ o[1] < q[1] => Rows!At(facts, o) < Rows!At(facts, q)
           /\ o[1] < q[1] => Rows!TextBefore(Rows!At(facts, o), Rows!At(facts, q))
<1> DEFINE a == facts[o[1]].terminal
           b == facts[q[1]].terminal
<1>1. a \in Nat /\ b \in Nat /\ o[1] \in Nat /\ q[1] \in Nat /\ o[2] \in Nat /\ q[2] \in Nat
  BY FactTypes
<1>2. o[1] < q[1] => a < b
  BY TerminalsIncrease
<1>3. q[1] < o[1] => b < a
  BY TerminalsIncrease
<1>4. Rows!At(facts, o) = a /\ Rows!At(facts, q) = b
  BY DEF Rows!At
<1>5. o[1] = q[1] => a = b
  OBVIOUS
<1>6. /\ o[1] < q[1] => Rows!TextBefore(a, b)
      /\ q[1] < o[1] => Rows!TextBefore(b, a)
  BY DEF Ordered
<1> HIDE DEF a, b
<1>7. Rows!TextBefore(a, b) <=> a < b
  BY <1>1, <1>2, <1>3, <1>5, <1>6, TextAsTime
<1> QED
  BY <1>1, <1>2, <1>3, <1>4, <1>5, <1>6, <1>7 DEF Rows!Earlier, Before

\* One of two places is before the other, and the other is not.
LEMMA BeforeOrder ==
    ASSUME NEW o \in Nat \X Nat, NEW q \in Nat \X Nat
    PROVE  /\ o # q => Before(o, q) \/ Before(q, o)
           /\ ~(Before(o, q) /\ Before(q, o))
<1>1. o = <<o[1], o[2]>> /\ q = <<q[1], q[2]>> /\ {o[1], o[2], q[1], q[2]} \subseteq Nat
  OBVIOUS
<1> QED
  BY <1>1 DEF Before

\* The observations of some of the positions.
LEMMA ObservationsOf ==
    ASSUME NEW facts, NEW P, NEW Q, Q \subseteq P
    PROVE  \A o : o \in Rows!Observations(facts, Q)
                     <=> o \in Rows!Observations(facts, P) /\ o[1] \in Q
<1>1. ASSUME NEW o \in Rows!Observations(facts, Q)
      PROVE  o \in Rows!Observations(facts, P) /\ o[1] \in Q
  <2>1. PICK m \in Q : facts[m].state = "complete" /\ \E i \in DOMAIN facts[m].lines : o = <<m, i>>
    BY DEF Rows!Observations
  <2> QED
    BY <2>1 DEF Rows!Observations
<1>2. ASSUME NEW o \in Rows!Observations(facts, P), o[1] \in Q
      PROVE  o \in Rows!Observations(facts, Q)
  <2>1. PICK m \in P : facts[m].state = "complete" /\ \E i \in DOMAIN facts[m].lines : o = <<m, i>>
    BY DEF Rows!Observations
  <2>2. m \in Q
    BY <1>2, <2>1
  <2> QED
    BY <2>1, <2>2 DEF Rows!Observations
<1> QED
  BY <1>1, <1>2

\* An observation is of a delivered snapshot.
LEMMA ObservationComplete ==
    ASSUME NEW facts, NEW P, NEW o \in Rows!Observations(facts, P)
    PROVE  facts[o[1]].state = "complete"
<1>1. PICK m \in P : facts[m].state = "complete" /\ \E i \in DOMAIN facts[m].lines : o = <<m, i>>
  BY DEF Rows!Observations
<1> QED
  BY <1>1

\* What is eligible of some of the positions: conflicts are within one fact.
LEMMA EligibleOf ==
    ASSUME NEW facts, Causal(facts), Ordered(facts), NEW P, P \subseteq 1..Len(facts)
    PROVE  \A o : o \in Rows!Eligible(facts, P) <=> o \in Entitled(facts) /\ o[1] \in P
<1> DEFINE All == 1..Len(facts)
<1>1. \A o : o \in Rows!Candidates(facts, P) <=> o \in Rows!Candidates(facts, All) /\ o[1] \in P
  BY ObservationsOf DEF Rows!Candidates
<1>2. \A o \in Rows!Candidates(facts, All) :
         o \in Nat \X Nat /\ o[1] \in All /\ facts[o[1]].state = "complete"
  BY ObservationTypes, ObservationComplete DEF Rows!Candidates
<1>3. ASSUME NEW o \in Rows!Candidates(facts, All), o[1] \in P,
             NEW q \in Rows!Candidates(facts, All), Rows!At(facts, q) = Rows!At(facts, o)
      PROVE  q[1] \in P
  <2>1. /\ o \in Nat \X Nat /\ q \in Nat \X Nat /\ o[1] \in 1..Len(facts) /\ q[1] \in 1..Len(facts)
        /\ facts[o[1]].state = "complete" /\ facts[q[1]].state = "complete"
    BY <1>2
  <2>2. q[1] = o[1]
    BY <1>3, <2>1, EarlierBefore
  <2> QED
    BY <1>3, <2>2
<1> HIDE DEF All
<1>4. \A o : o[1] \in P => (o \in Rows!Conflicted(facts, P) <=> o \in Rows!Conflicted(facts, All))
  BY <1>1, <1>3 DEF Rows!Conflicted
<1>5. \A o : o \in Rows!Eligible(facts, P) <=> o \in Rows!Eligible(facts, All) /\ o[1] \in P
  BY <1>1, <1>4 DEF Rows!Eligible
<1> QED
  BY <1>5 DEF Entitled, All

\* Facts with the same beginning have the same observations there.
LEMMA SameFacts ==
    ASSUME NEW facts, NEW more, NEW P, \A m \in P : more[m] = facts[m]
    PROVE  /\ Rows!Observations(more, P) = Rows!Observations(facts, P)
           /\ \A o \in Rows!Observations(facts, P) :
                 /\ Rows!At(more, o) = Rows!At(facts, o)
                 /\ Rows!Line(more, o) = Rows!Line(facts, o)
                 /\ Rows!Key(more, o) = Rows!Key(facts, o)
           /\ Rows!Eligible(more, P) = Rows!Eligible(facts, P)
<1>1. Rows!Observations(more, P) = Rows!Observations(facts, P)
  <2>1. \A o : o \in Rows!Observations(more, P) <=> o \in Rows!Observations(facts, P)
    <3>1. ASSUME NEW f, NEW o
          PROVE  o \in Rows!Observations(f, P) <=>
                    \E m \in P : /\ f[m].state = "complete"
                                 /\ \E i \in DOMAIN f[m].lines : o = <<m, i>>
      BY DEF Rows!Observations
    <3> QED
      BY <3>1
  <2> QED
    BY <2>1
<1>2. ASSUME NEW o \in Rows!Observations(facts, P) PROVE more[o[1]] = facts[o[1]]
  <2>1. PICK m \in P : \E i \in DOMAIN facts[m].lines : o = <<m, i>>
    BY DEF Rows!Observations
  <2> QED
    BY <2>1
<1>3. \A o \in Rows!Observations(facts, P) :
         /\ Rows!At(more, o) = Rows!At(facts, o)
         /\ Rows!Line(more, o) = Rows!Line(facts, o)
         /\ Rows!Key(more, o) = Rows!Key(facts, o)
  BY <1>2 DEF Rows!At, Rows!Line, Rows!Key
<1>4. Rows!Candidates(more, P) = Rows!Candidates(facts, P)
  BY <1>1, <1>3 DEF Rows!Candidates
<1>5. Rows!Candidates(facts, P) \subseteq Rows!Observations(facts, P)
  BY DEF Rows!Candidates
<1>6. Rows!Conflicted(more, P) = Rows!Conflicted(facts, P)
  BY <1>3, <1>4, <1>5 DEF Rows!Conflicted
<1>7. Rows!Eligible(more, P) = Rows!Eligible(facts, P)
  BY <1>3, <1>4, <1>5, <1>6 DEF Rows!Eligible
<1> QED
  BY <1>1, <1>3, <1>7

\* An entitled observation, and what two of them at one time cannot be.
LEMMA EntitledTypes ==
    ASSUME NEW facts, Causal(facts), NEW o \in Entitled(facts)
    PROVE  /\ o \in Rows!Observations(facts, 1..Len(facts))
           /\ o \in Nat \X Nat /\ o[1] \in 1..Len(facts) /\ facts[o[1]].state = "complete"
           /\ Rows!At(facts, o) \in Nat /\ Rows!Line(facts, o).article \in Nat
           /\ Rows!Key(facts, o) = <<Rows!Line(facts, o).article, Rows!Line(facts, o).title>>
           /\ \A q \in Entitled(facts) :
                 /\ Rows!At(facts, q) = Rows!At(facts, o)
                 /\ Rows!Line(facts, q).article = Rows!Line(facts, o).article
                 => Rows!Key(facts, q) = Rows!Key(facts, o)
<1>1. Entitled(facts) \subseteq Rows!Candidates(facts, 1..Len(facts))
      /\ o \notin Rows!Conflicted(facts, 1..Len(facts))
  BY DEF Entitled, Rows!Eligible
<1>2. Rows!Candidates(facts, 1..Len(facts)) \subseteq Rows!Observations(facts, 1..Len(facts))
  BY DEF Rows!Candidates
<1>3. Rows!Key(facts, o) = <<Rows!Line(facts, o).article, Rows!Line(facts, o).title>>
  BY DEF Rows!Key
<1>4. ASSUME NEW q \in Entitled(facts), Rows!At(facts, q) = Rows!At(facts, o),
             Rows!Line(facts, q).article = Rows!Line(facts, o).article
      PROVE  Rows!Key(facts, q) = Rows!Key(facts, o)
  <2>1. Rows!Line(facts, q).title = Rows!Line(facts, o).title
    BY <1>1, <1>4 DEF Rows!Conflicted
  <2> QED
    BY <1>4, <2>1 DEF Rows!Key
<1>5. o \in Rows!Observations(facts, 1..Len(facts))
  BY <1>1, <1>2
<1>6. /\ o \in Nat \X Nat /\ o[1] \in 1..Len(facts)
      /\ Rows!At(facts, o) \in Nat /\ Rows!Line(facts, o).article \in Nat
  BY <1>5, ObservationTypes
<1>7. facts[o[1]].state = "complete"
  BY <1>5, ObservationComplete
<1> QED
  BY <1>3, <1>4, <1>5, <1>6, <1>7

\* The first of some observations.
LEMMA FirstOf ==
    ASSUME NEW S, S # {}, S \subseteq Nat \X Nat
    PROVE  \E o \in S : \A q \in S \ {o} : Before(o, q)
<1> DEFINE Facts == {o[1] : o \in S}
<1>1. PICK m \in Facts : \A n \in Facts : m <= n
  <2>1. Facts \subseteq Nat /\ Facts # {}
    OBVIOUS
  <2> HIDE DEF Facts
  <2> QED
    BY <2>1, LeastElement
<1> DEFINE Lines == {o[2] : o \in {p \in S : p[1] = m}}
<1>2. PICK i \in Lines : \A j \in Lines : i <= j
  <2>1. Lines \subseteq Nat /\ Lines # {}
    OBVIOUS
  <2> HIDE DEF Lines
  <2> QED
    BY <2>1, LeastElement
<1>3. PICK o \in S : o[1] = m /\ o[2] = i
  OBVIOUS
<1>4. ASSUME NEW q \in S \ {o} PROVE Before(o, q)
  <2>1. m <= q[1] /\ (q[1] = m => i <= q[2])
    BY <1>1, <1>2
  <2>2. q = <<q[1], q[2]>> /\ o = <<o[1], o[2]>> /\ {q[1], q[2], m, i} \subseteq Nat
    BY <1>3
  <2> QED
    BY <1>3, <2>1, <2>2 DEF Before
<1> QED
  BY <1>4

\* Every version has a first sighting, and every article a debut.
LEMMA LeaderOf ==
    ASSUME NEW facts, Causal(facts), NEW q \in Entitled(facts)
    PROVE  \E o \in Entitled(facts) :
               /\ Rows!Key(facts, o) = Rows!Key(facts, q) /\ Leads(facts, o)
               /\ o # q => Before(o, q)
<1> DEFINE S == {o \in Entitled(facts) : Rows!Key(facts, o) = Rows!Key(facts, q)}
<1>1. S # {} /\ S \subseteq Nat \X Nat
  BY EntitledTypes
<1>2. PICK o \in S : \A p \in S \ {o} : Before(o, p)
  <2> HIDE DEF S
  <2> QED
    BY <1>1, FirstOf
<1> QED
  BY <1>2 DEF Leads

\* Every entitled article has its first observation.
LEMMA DebutOf ==
    ASSUME NEW facts, Causal(facts), NEW q \in Entitled(facts)
    PROVE  \E o \in Debuts(facts) :
               /\ Rows!Line(facts, o).article = Rows!Line(facts, q).article
               /\ o # q => Before(o, q)
<1> DEFINE S == {o \in Entitled(facts) :
                     Rows!Line(facts, o).article = Rows!Line(facts, q).article}
<1>1. S # {} /\ S \subseteq Nat \X Nat
  BY EntitledTypes
<1>2. PICK o \in S : \A p \in S \ {o} : Before(o, p)
  <2> HIDE DEF S
  <2> QED
    BY <1>1, FirstOf
<1> QED
  BY <1>2 DEF Debuts

\* There is one of each.
LEMMA OneLeader ==
    ASSUME NEW facts, Causal(facts), NEW o \in Entitled(facts), NEW q \in Entitled(facts),
           Leads(facts, o), Leads(facts, q), Rows!Key(facts, o) = Rows!Key(facts, q)
    PROVE  o = q
<1>1. o # q => Before(o, q) /\ Before(q, o)
  BY DEF Leads
<1> QED
  BY <1>1, EntitledTypes, BeforeOrder

\* The first of an article is the first of its version.
LEMMA DebutLeads ==
    ASSUME NEW facts, Causal(facts), NEW o \in Debuts(facts)
    PROVE  o \in Entitled(facts) /\ Leads(facts, o)
<1>1. \A q \in Entitled(facts) : Rows!Key(facts, q) = Rows!Key(facts, o)
                                    => Rows!Line(facts, q).article = Rows!Line(facts, o).article
  BY EntitledTypes DEF Rows!Key
<1> QED
  BY <1>1 DEF Debuts, Leads

-----------------------------------------------------------------------------
(* The groups of some articles are determined by the articles. *)

\* Articles that come, each once, with texts in the order of their instants.
Coming(articles) ==
    /\ \A a \in articles : a.first \in Nat /\ a.article \in Nat
    /\ \A a, b \in articles : a.article = b.article => a = b
    /\ \A a, b \in articles : a.first < b.first => Rows!TextBefore(a.first, b.first)

\* What lets an article join another one's group.
Suits(b, a) == b.title = a.title /\ a.first - b.first \in 0..Horizon /\ Sooner(b, a)

\* Of two newcomers one is the sooner, and only one.
LEMMA SoonerOrder ==
    ASSUME NEW articles, Coming(articles), NEW a \in articles, NEW b \in articles
    PROVE  /\ a # b => Sooner(a, b) \/ Sooner(b, a)
           /\ ~(Sooner(a, b) /\ Sooner(b, a)) /\ ~Sooner(a, a)
<1>1. {a.first, b.first, a.article, b.article} \subseteq Nat /\ (a # b => a.article # b.article)
  BY DEF Coming
<1> QED
  BY <1>1 DEF Sooner

\* The soonest of some articles.
LEMMA SoonestOf ==
    ASSUME NEW articles, Coming(articles), NEW S, S \subseteq articles, S # {}
    PROVE  \E a \in S : \A b \in S \ {a} : Sooner(a, b)
<1> DEFINE Places == {<<a.first, a.article>> : a \in S}
<1>1. Places # {} /\ Places \subseteq Nat \X Nat
  <2>1. \A a \in S : a.first \in Nat /\ a.article \in Nat
    BY DEF Coming
  <2>2. \A a \in S : <<a.first, a.article>> \in Nat \X Nat
    BY <2>1
  <2> QED
    BY <2>2
<1>2. PICK p \in Places : \A q \in Places \ {p} : Before(p, q)
  <2> HIDE DEF Places
  <2> QED
    BY <1>1, FirstOf
<1>3. PICK a \in S : p = <<a.first, a.article>>
  OBVIOUS
<1>4. ASSUME NEW b \in S \ {a} PROVE Sooner(a, b)
  <2> DEFINE q == <<b.first, b.article>>
  <2>1. b.article # a.article
    BY DEF Coming
  <2>2. q \in Places /\ q # p
    BY <1>3, <2>1
  <2>3. Before(p, q)
    BY <1>2, <2>2
  <2>4. p[1] = a.first /\ p[2] = a.article /\ q[1] = b.first /\ q[2] = b.article
    BY <1>3
  <2> QED
    BY <2>3, <2>4 DEF Before, Sooner
<1> QED
  BY <1>4

\* The groups that can be joined are those of the anchors that suit.
LEMMA JoinableAre ==
    ASSUME NEW groups, NEW groupOf, NEW articles, Grouping(groups, groupOf, articles), NEW a
    PROVE  \A g : g \in Joinable(groups, a)
                     <=> \E b \in Anchors(groups, articles) : b.article = g /\ Suits(b, a)
<1>1. ASSUME NEW b \in Anchors(groups, articles)
      PROVE  /\ b.article \in DOMAIN groups
             /\ groups[b.article].title = b.title /\ groups[b.article].first = b.first
  <2>1. DOMAIN groups = {c.article : c \in Anchors(groups, articles)}
    BY DEF Grouping
  <2>2. groups[b.article] = [title |-> b.title, first |-> b.first]
    BY DEF Grouping
  <2> QED
    BY <2>1, <2>2
<1>2. ASSUME NEW g \in DOMAIN groups PROVE \E b \in Anchors(groups, articles) : b.article = g
  BY DEF Grouping
<1>3. ASSUME NEW b \in Anchors(groups, articles)
      PROVE  b.article \in Joinable(groups, a) <=> Suits(b, a)
  <2> DEFINE r == [article |-> b.article, first |-> groups[b.article].first]
  <2>1. r.article = b.article /\ r.first = b.first
    BY <1>1
  <2>2. b.article \in Joinable(groups, a)
           <=> b.article \in Rows!Matches(groups, a.title, a.first) /\ Sooner(r, a)
    BY DEF Joinable, Rows!Matches
  <2> HIDE DEF r
  <2> QED
    BY <1>1, <2>1, <2>2 DEF Rows!Matches, Sooner, Suits
<1>4. Joinable(groups, a) \subseteq DOMAIN groups
  BY DEF Joinable, Rows!Matches
<1> QED
  BY <1>2, <1>3, <1>4

\* Two groupings of the same articles are one: of the articles that could join
\* different groups, the soonest could not.
LEMMA OneGrouping ==
    ASSUME NEW articles, Coming(articles), NEW g, NEW f, NEW h, NEW i,
           Grouping(g, f, articles), Grouping(h, i, articles)
    PROVE  g = h /\ f = i
<1> DEFINE Differ == {a \in articles : Joinable(g, a) # Joinable(h, a)}
<1>1. ASSUME Differ # {} PROVE FALSE
  <2>1. PICK a \in Differ : \A b \in Differ \ {a} : Sooner(a, b)
    <3>1. Differ \subseteq articles
      OBVIOUS
    <3> HIDE DEF Differ
    <3> QED
      BY <1>1, <3>1, SoonestOf
  <2>2. ASSUME NEW b \in articles, Sooner(b, a)
        PROVE  b \in Anchors(g, articles) <=> b \in Anchors(h, articles)
    <3>1. b \notin Differ
      BY <2>1, <2>2, SoonerOrder
    <3> QED
      BY <3>1 DEF Anchors
  <2>3. ASSUME NEW x PROVE x \in Joinable(g, a) <=> x \in Joinable(h, a)
    <3>1. x \in Joinable(g, a)
             <=> \E b \in Anchors(g, articles) : b.article = x /\ Suits(b, a)
      BY JoinableAre
    <3>2. x \in Joinable(h, a)
             <=> \E b \in Anchors(h, articles) : b.article = x /\ Suits(b, a)
      BY JoinableAre
    <3> HIDE DEF Differ
    <3> QED
      BY <2>2, <3>1, <3>2 DEF Anchors, Suits
  <2>4. Joinable(g, a) = Joinable(h, a)
    BY <2>3
  <2> QED
    BY <2>1, <2>4
<1>2. \A a \in articles : Joinable(g, a) = Joinable(h, a)
  BY <1>1
<1>3. Anchors(g, articles) = Anchors(h, articles)
  BY <1>2 DEF Anchors
<1> DEFINE A == Anchors(g, articles)
<1>4. /\ g = [x \in DOMAIN g |-> g[x]] /\ h = [x \in DOMAIN h |-> h[x]]
      /\ DOMAIN g = {a.article : a \in A} /\ DOMAIN h = {a.article : a \in A}
      /\ \A a \in A : g[a.article] = [title |-> a.title, first |-> a.first]
      /\ \A a \in A : h[a.article] = [title |-> a.title, first |-> a.first]
  BY <1>3 DEF Grouping
<1>5. g = h
  <2>1. ASSUME NEW x \in DOMAIN g PROVE g[x] = h[x]
    <3>1. PICK a \in A : x = a.article
      BY <1>4
    <3> HIDE DEF A
    <3> QED
      BY <1>4, <3>1
  <2> QED
    BY <1>4, <2>1
<1>6. /\ f = [x \in DOMAIN f |-> f[x]] /\ i = [x \in DOMAIN i |-> i[x]]
      /\ DOMAIN f = {a.article : a \in articles} /\ DOMAIN i = {a.article : a \in articles}
      /\ \A a \in A : f[a.article] = a.article /\ i[a.article] = a.article
      /\ \A a \in articles \ A : f[a.article] = Rows!EarliestGroup(g, Joinable(g, a))
      /\ \A a \in articles \ A : i[a.article] = Rows!EarliestGroup(h, Joinable(h, a))
  BY <1>3 DEF Grouping
<1>7. \A a \in articles : f[a.article] = i[a.article]
  BY <1>2, <1>5, <1>6
<1>8. f = i
  <2>1. \A x \in DOMAIN f : f[x] = i[x]
    BY <1>6, <1>7
  <2> QED
    BY <1>6, <2>1
<1> QED
  BY <1>5, <1>8

\* The earliest of some groups is of their anchors.
LEMMA SameEarliest ==
    ASSUME NEW g, NEW h, NEW S, \A x \in S : g[x] = h[x]
    PROVE  Rows!EarliestGroup(g, S) = Rows!EarliestGroup(h, S)
<1> DEFINE First(u, c) == \A x \in S \ {c} :
               \/ Rows!TextBefore(u[c].first, u[x].first)
               \/ u[c].first = u[x].first /\ c < x
<1>1. \A c : c \in S /\ First(g, c) <=> c \in S /\ First(h, c)
  OBVIOUS
<1>2. /\ Rows!EarliestGroup(g, S) = CHOOSE c \in S : First(g, c)
      /\ Rows!EarliestGroup(h, S) = CHOOSE c \in S : First(h, c)
  BY DEF Rows!EarliestGroup
<1> HIDE DEF First
<1>3. (CHOOSE c \in S : First(g, c)) = (CHOOSE c \in S : First(h, c))
  BY <1>1, Zenon
<1> QED
  BY <1>2, <1>3

\* The soonest is chosen.
LEMMA SoonestFirst ==
    ASSUME NEW S, S # {}, Coming(S)
    PROVE  /\ Rows!Soonest(S) \in S
           /\ \A b \in S \ {Rows!Soonest(S)} : Sooner(Rows!Soonest(S), b)
<1> DEFINE Choice(c) == \A b \in S \ {c} :
               \/ Rows!TextBefore(c.first, b.first)
               \/ c.first = b.first /\ c.article < b.article
<1>1. \A c \in S : Choice(c) <=> \A b \in S \ {c} : Sooner(c, b)
  <2>1. ASSUME NEW c \in S, NEW b \in S
        PROVE  Rows!TextBefore(c.first, b.first) <=> c.first < b.first
    <3>1. /\ c.first \in Nat /\ b.first \in Nat
          /\ c.first < b.first => Rows!TextBefore(c.first, b.first)
          /\ b.first < c.first => Rows!TextBefore(b.first, c.first)
      BY DEF Coming
    <3> QED
      BY <3>1, TextAsTime
  <2> QED
    BY <2>1 DEF Sooner
<1>2. \E c \in S : Choice(c)
  <2> HIDE DEF Choice
  <2> QED
    BY <1>1, SoonestOf
<1>3. Rows!Soonest(S) = CHOOSE c \in S : Choice(c)
  BY DEF Rows!Soonest
<1> HIDE DEF Choice
<1>4. Rows!Soonest(S) \in S /\ Choice(Rows!Soonest(S))
  BY <1>2, <1>3
<1> QED
  BY <1>1, <1>4

-----------------------------------------------------------------------------
(* What joins to a grouping leaves a grouping. *)

\* Those who joined came before those who wait.
Lined(joined, waiting) ==
    /\ Coming(joined \cup waiting)
    /\ \A a \in joined, b \in waiting : Sooner(a, b)

\* The next one joins or anchors: nobody who came before could have joined it.
LEMMA JoinGrouping ==
    ASSUME NEW acc, NEW joined,
           Grouping(acc.groups, acc.groupOf, joined), Lined(joined, acc.waiting),
           acc.waiting # {}
    PROVE  LET new == Rows!Soonest(acc.waiting)
               r   == Rows!Join(acc)
           IN  /\ new \in acc.waiting /\ r.waiting = acc.waiting \ {new}
               /\ Grouping(r.groups, r.groupOf, joined \cup {new})
               /\ Lined(joined \cup {new}, r.waiting)
<1> DEFINE new == Rows!Soonest(acc.waiting)
           matches == Rows!Matches(acc.groups, new.title, new.first)
           anchor == [title |-> new.title, first |-> new.first]
           group == IF matches = {} THEN new.article
                    ELSE Rows!EarliestGroup(acc.groups, matches)
           groups == IF matches = {} THEN Rows!Over([g \in {group} |-> anchor], acc.groups)
                     ELSE acc.groups
           groupOf == Rows!Over([a \in {new.article} |-> group], acc.groupOf)
           rest == acc.waiting \ {new}
           r == [waiting |-> rest, groups |-> groups, groupOf |-> groupOf]
<1>1. Rows!Join(acc) = r
  BY DEF Rows!Join
<1>2. new \in acc.waiting /\ \A b \in rest : Sooner(new, b)
  <2>1. Coming(acc.waiting)
    BY DEF Lined, Coming
  <2> QED
    BY <2>1, SoonestFirst
<1> HIDE DEF new
<1>3. /\ Coming(joined \cup acc.waiting) /\ new.article \in Nat /\ new.first \in Nat
      /\ \A a \in joined : Sooner(a, new) /\ ~Sooner(new, a) /\ a.article # new.article
  <2>1. Coming(joined \cup acc.waiting)
    BY DEF Lined
  <2>2. \A a \in joined : Sooner(a, new)
    BY <1>2 DEF Lined
  <2>3. \A a \in joined : ~Sooner(new, a)
    BY <1>2, <2>1, <2>2, SoonerOrder
  <2>4. \A a \in joined : a.article # new.article
    BY <1>2, <2>1, <2>2, <2>3 DEF Coming
  <2> QED
    BY <1>2, <2>1, <2>2, <2>3, <2>4 DEF Coming
<1>4. Lined(joined \cup {new}, rest)
  <2>1. (joined \cup {new}) \cup rest = joined \cup acc.waiting
    BY <1>2
  <2> QED
    BY <1>2, <2>1 DEF Lined
<1>5. /\ \A x : x \in DOMAIN groupOf <=> (x = new.article \/ x \in DOMAIN acc.groupOf)
      /\ groupOf[new.article] = group
      /\ \A x \in DOMAIN acc.groupOf \ {new.article} : groupOf[x] = acc.groupOf[x]
      /\ groupOf = [x \in DOMAIN groupOf |-> groupOf[x]]
  <2> DEFINE f == [a \in {new.article} |-> group]
  <2>1. groupOf = Rows!Over(f, acc.groupOf)
    OBVIOUS
  <2> HIDE DEF groupOf, group
  <2>2. f = [a \in {new.article} |-> group]
    OBVIOUS
  <2> HIDE DEF f
  <2>3. groupOf = [x \in DOMAIN groupOf |-> groupOf[x]]
    BY <2>1 DEF Rows!Over
  <2> QED
    BY <2>1, <2>2, <2>3, OverOne
\* The groups there were are not moved, and the new one is younger than who joined.
<1>6. /\ DOMAIN acc.groups = {a.article : a \in Anchors(acc.groups, joined)}
      /\ acc.groups = [g \in DOMAIN acc.groups |-> acc.groups[g]]
      /\ new.article \notin DOMAIN acc.groups
  <2>1. /\ DOMAIN acc.groups = {a.article : a \in Anchors(acc.groups, joined)}
        /\ acc.groups = [g \in DOMAIN acc.groups |-> acc.groups[g]]
    BY DEF Grouping
  <2> QED
    BY <1>3, <2>1 DEF Anchors
<1>7. /\ groups = [g \in DOMAIN groups |-> groups[g]]
      /\ \A g \in DOMAIN acc.groups : g \in DOMAIN groups /\ groups[g] = acc.groups[g]
      /\ matches # {} => DOMAIN groups = DOMAIN acc.groups
      /\ matches = {} => /\ DOMAIN groups = DOMAIN acc.groups \cup {new.article}
                         /\ groups[new.article] = anchor
  <2>1. CASE matches = {}
    <3> DEFINE f == [g \in {group} |-> anchor]
    <3>1. group = new.article /\ groups = Rows!Over(f, acc.groups)
      BY <2>1
    <3> HIDE DEF group, groups, anchor, matches
    <3>2. f = [g \in {group} |-> anchor]
      OBVIOUS
    <3> HIDE DEF f
    <3>3. /\ \A g : g \in DOMAIN groups <=> (g = group \/ g \in DOMAIN acc.groups)
          /\ groups[group] = anchor
          /\ \A g \in DOMAIN acc.groups \ {group} : groups[g] = acc.groups[g]
      BY <3>1, <3>2, OverOne
    <3>4. groups = [g \in DOMAIN groups |-> groups[g]]
      BY <3>1 DEF Rows!Over
    <3> QED
      BY <1>6, <2>1, <3>1, <3>3, <3>4
  <2>2. CASE matches # {}
    <3>1. groups = acc.groups
      BY <2>2
    <3> HIDE DEF groups, matches
    <3> QED
      BY <1>6, <2>2, <3>1
  <2> QED
    BY <2>1, <2>2
<1>8. group = IF matches = {} THEN new.article ELSE Rows!EarliestGroup(acc.groups, matches)
  OBVIOUS
<1> HIDE DEF groups, groupOf, group
<1>9. ASSUME NEW a \in joined PROVE Joinable(groups, a) = Joinable(acc.groups, a)
  <2>1. ASSUME NEW g \in Joinable(groups, a) PROVE g \in DOMAIN acc.groups
    <3>1. g \in DOMAIN groups /\ Sooner([article |-> g, first |-> groups[g].first], a)
      BY DEF Joinable, Rows!Matches
    <3>2. CASE g = new.article /\ matches = {}
      <4>1. groups[g].first = new.first
        BY <1>7, <3>2
      <4>2. Sooner(new, a)
        BY <3>1, <3>2, <4>1 DEF Sooner
      <4> QED
        BY <1>3, <4>2
    <3> QED
      BY <1>7, <3>1, <3>2
  <2>2. \A g \in DOMAIN acc.groups : g \in Joinable(groups, a) <=> g \in Joinable(acc.groups, a)
    BY <1>7 DEF Joinable, Rows!Matches
  <2>3. Joinable(acc.groups, a) \subseteq DOMAIN acc.groups
    BY DEF Joinable, Rows!Matches
  <2> QED
    BY <2>1, <2>2, <2>3
<1>10. Joinable(groups, new) = matches
  <2>1. ASSUME NEW g \in Joinable(groups, new) PROVE g \in matches
    <3>1. /\ g \in DOMAIN groups /\ Sooner([article |-> g, first |-> groups[g].first], new)
          /\ groups[g].title = new.title /\ new.first - groups[g].first \in 0..Horizon
      BY DEF Joinable, Rows!Matches
    <3>2. CASE g = new.article /\ matches = {}
      <4>1. groups[g].first = new.first
        BY <1>7, <3>2
      <4>2. Sooner(new, new)
        BY <3>1, <3>2, <4>1 DEF Sooner
      <4>3. FALSE
        BY <1>3, <4>2 DEF Sooner
      <4> QED
        BY <4>3
    <3>3. CASE g \in DOMAIN acc.groups
      <4>1. groups[g] = acc.groups[g]
        BY <1>7, <3>3
      <4> QED
        BY <3>1, <3>3, <4>1 DEF Rows!Matches
    <3> QED
      BY <1>7, <3>1, <3>2, <3>3
  <2>2. ASSUME NEW g \in matches PROVE g \in Joinable(groups, new)
    <3>1. /\ g \in DOMAIN acc.groups /\ acc.groups[g].title = new.title
          /\ new.first - acc.groups[g].first \in 0..Horizon
      BY DEF Rows!Matches
    <3>2. groups[g] = acc.groups[g] /\ g \in DOMAIN groups
      BY <1>7, <3>1
    <3>3. PICK b \in Anchors(acc.groups, joined) : b.article = g
      BY <1>6, <3>1
    <3>4. acc.groups[g] = [title |-> b.title, first |-> b.first]
      BY <3>3 DEF Grouping
    <3>5. Sooner(b, new)
      BY <1>3, <3>3 DEF Anchors
    <3>6. Sooner([article |-> g, first |-> groups[g].first], new)
      BY <3>2, <3>3, <3>4, <3>5 DEF Sooner
    <3> HIDE DEF matches
    <3> QED
      BY <3>1, <3>2, <3>6 DEF Joinable, Rows!Matches
  <2> QED
    BY <2>1, <2>2
<1> HIDE DEF matches
<1> DEFINE all == joined \cup {new}
           old == Anchors(acc.groups, joined)
<1>11. /\ matches = {} => Anchors(groups, all) = old \cup {new}
       /\ matches # {} => Anchors(groups, all) = old
  BY <1>9, <1>10 DEF Anchors
<1>12. DOMAIN groups = {a.article : a \in Anchors(groups, all)}
  <2>1. CASE matches = {}
    <3>1. {a.article : a \in old \cup {new}} = {a.article : a \in old} \cup {new.article}
      OBVIOUS
    <3> QED
      BY <1>6, <1>7, <1>11, <2>1, <3>1
  <2>2. CASE matches # {}
    BY <1>6, <1>7, <1>11, <2>2
  <2> QED
    BY <2>1, <2>2
<1>13. DOMAIN groupOf = {a.article : a \in all}
  <2>1. DOMAIN acc.groupOf = {a.article : a \in joined}
    BY DEF Grouping
  <2>2. {a.article : a \in all} = {a.article : a \in joined} \cup {new.article}
    OBVIOUS
  <2>3. DOMAIN groupOf = DOMAIN acc.groupOf \cup {new.article}
    BY <1>5
  <2> QED
    BY <2>1, <2>2, <2>3
<1>14. ASSUME NEW a \in joined
       PROVE  groupOf[a.article] = acc.groupOf[a.article]
  <2>1. a.article \in DOMAIN acc.groupOf
    BY DEF Grouping
  <2> QED
    BY <1>3, <1>5, <2>1
<1>15. ASSUME NEW a \in Anchors(groups, all)
       PROVE  /\ groups[a.article] = [title |-> a.title, first |-> a.first]
              /\ groupOf[a.article] = a.article
  <2>1. CASE a \in old
    <3>1. /\ acc.groups[a.article] = [title |-> a.title, first |-> a.first]
          /\ acc.groupOf[a.article] = a.article /\ a \in joined
      BY <2>1 DEF Grouping, Anchors
    <3>2. a.article \in DOMAIN acc.groups
      BY <1>6, <2>1
    <3> QED
      BY <1>7, <1>14, <3>1, <3>2
  <2>2. CASE a = new /\ matches = {}
    BY <1>5, <1>7, <1>8, <2>2 DEF anchor
  <2> QED
    BY <1>11, <2>1, <2>2
<1>16. ASSUME NEW a \in all \ Anchors(groups, all)
       PROVE  groupOf[a.article] = Rows!EarliestGroup(groups, Joinable(groups, a))
  <2>1. CASE a \in joined
    <3>1. a \notin old
      BY <1>11, <1>16
    <3>2. acc.groupOf[a.article]
             = Rows!EarliestGroup(acc.groups, Joinable(acc.groups, a))
      BY <2>1, <3>1 DEF Grouping
    <3>3. \A g \in Joinable(acc.groups, a) : acc.groups[g] = groups[g]
      BY <1>7 DEF Joinable, Rows!Matches
    <3>4. Rows!EarliestGroup(acc.groups, Joinable(acc.groups, a))
             = Rows!EarliestGroup(groups, Joinable(acc.groups, a))
      BY <3>3, SameEarliest
    <3> QED
      BY <1>9, <1>14, <2>1, <3>2, <3>4
  <2>2. CASE a = new
    <3>1. matches # {}
      BY <1>11, <1>16, <2>2
    <3>2. \A g \in matches : acc.groups[g] = groups[g]
      BY <1>7 DEF matches, Rows!Matches
    <3>3. Rows!EarliestGroup(acc.groups, matches) = Rows!EarliestGroup(groups, matches)
      BY <3>2, SameEarliest
    <3> QED
      BY <1>5, <1>8, <1>10, <2>2, <3>1, <3>3
  <2> QED
    BY <2>1, <2>2
<1>17. Grouping(groups, groupOf, all)
  BY <1>5, <1>7, <1>12, <1>13, <1>15, <1>16 DEF Grouping
<1>18. r.waiting = rest /\ r.groups = groups /\ r.groupOf = groupOf
  OBVIOUS
<1> HIDE DEF r
<1> QED
  BY <1>1, <1>2, <1>4, <1>17, <1>18 DEF new

\* Whoever waits joins, and the groups are those of all.
LEMMA JoinsGrouping ==
    ASSUME NEW s, NEW old, NEW articles, IsFiniteSet(articles),
           Grouping(s.groups, s.groupOf, old), Lined(old, articles)
    PROVE  LET joined == Rows!Joins(s, articles)[Cardinality(articles)]
           IN  Grouping(joined.groups, joined.groupOf, old \cup articles)
<1> DEFINE c == Cardinality(articles)
           after == Rows!Joins(s, articles)
           Together(n) ==
              /\ after[n].waiting \subseteq articles
              /\ Cardinality(after[n].waiting) = c - n
              /\ Grouping(after[n].groups, after[n].groupOf,
                          old \cup (articles \ after[n].waiting))
              /\ Lined(old \cup (articles \ after[n].waiting), after[n].waiting)
           Joined == {n \in Nat : n <= c => Together(n)}
<1>1. c \in Nat
  BY FS_CardinalityType
<1>2. Follows(after, s, articles, c)
  BY <1>1, JoinsFollow
<1>3. 0 \in Joined
  <2>1. after[0] = Waiting(s, articles)
    BY <1>1, <1>2 DEF Follows
  <2>2. /\ after[0].waiting = articles /\ after[0].groups = s.groups
        /\ after[0].groupOf = s.groupOf
    BY <2>1 DEF Waiting
  <2>3. old \cup (articles \ articles) = old
    OBVIOUS
  <2>4. Cardinality(articles) = c - 0
    BY <1>1
  <2> HIDE DEF after, c
  <2>5. Together(0)
    BY <2>2, <2>3, <2>4
  <2> QED
    BY <2>5
<1>4. ASSUME NEW n \in Nat, n \in Joined PROVE n + 1 \in Joined
  <2> SUFFICES ASSUME n + 1 <= c PROVE Together(n + 1)
    OBVIOUS
  <2>1. n + 1 \in 0..c /\ n + 1 # 0 /\ (n + 1) - 1 = n /\ n <= c
    BY <1>1
  <2>2. after[n + 1] = Rows!Join(after[n])
    BY <1>2, <2>1 DEF Follows
  <2>3. Together(n)
    BY <1>4, <2>1
  <2> DEFINE acc == after[n]
             new == Rows!Soonest(acc.waiting)
             joined == old \cup (articles \ acc.waiting)
  <2>4. acc.waiting # {}
    <3>1. c - n # 0
      BY <1>1, <2>1
    <3> HIDE DEF c, after
    <3> QED
      BY <2>3, <3>1, FS_EmptySet
  <2>5. /\ new \in acc.waiting /\ Rows!Join(acc).waiting = acc.waiting \ {new}
        /\ Grouping(Rows!Join(acc).groups, Rows!Join(acc).groupOf, joined \cup {new})
        /\ Lined(joined \cup {new}, Rows!Join(acc).waiting)
    <3> HIDE DEF after, c
    <3> QED
      BY <2>3, <2>4, JoinGrouping
  <2>6. acc.waiting \subseteq articles
    BY <2>3
  <2> HIDE DEF acc, new
  <2>7. joined \cup {new} = old \cup (articles \ (acc.waiting \ {new}))
    BY <2>5, <2>6
  <2>8. Cardinality(acc.waiting \ {new}) = c - (n + 1)
    <3>1. IsFiniteSet(acc.waiting)
      BY <2>6, FS_Subset
    <3>2. Cardinality(acc.waiting) = c - n
      BY <2>3 DEF acc
    <3>3. Cardinality(acc.waiting \ {new}) = Cardinality(acc.waiting) - 1
      BY <2>5, <3>1, FS_RemoveElement
    <3>4. c - (n + 1) = (c - n) - 1
      BY <1>1
    <3> HIDE DEF c
    <3> QED
      BY <3>2, <3>3, <3>4
  <2>9. after[n + 1] = Rows!Join(acc)
    BY <2>2 DEF acc
  <2> HIDE DEF after, joined, c
  <2> QED
    BY <2>5, <2>6, <2>7, <2>8, <2>9
<1>5. \A n \in Nat : n \in Joined
  <2> HIDE DEF Joined
  <2> QED
    BY <1>3, <1>4, SetInduction
<1>6. Together(c)
  <2>1. c \in Nat /\ c \in Joined
    BY <1>1, <1>5
  <2>2. c <= c
    BY <1>1
  <2> HIDE DEF c, after, Together
  <2> QED
    BY <2>1, <2>2
<1>7. after[c].waiting = {}
  <2>1. IsFiniteSet(after[c].waiting) /\ Cardinality(after[c].waiting) = 0
    BY <1>1, <1>6, FS_Subset
  <2> HIDE DEF after, c
  <2> QED
    BY <2>1, FS_EmptySet
<1>8. old \cup (articles \ after[c].waiting) = old \cup articles
  BY <1>7
<1> HIDE DEF after
<1> QED
  BY <1>6, <1>8 DEF after

-----------------------------------------------------------------------------
(* Whatever is made of its facts is accepted. *)

\* Every article comes once.
LEMMA NewcomersCome ==
    ASSUME NEW facts, Causal(facts), Ordered(facts)
    PROVE  Coming(Newcomers(facts))
<1>1. ASSUME NEW a \in Newcomers(facts)
      PROVE  \E o \in Debuts(facts) : a = Newcomer(facts, o)
  BY DEF Newcomers
<1>2. ASSUME NEW o \in Debuts(facts)
      PROVE  Newcomer(facts, o).first \in Nat /\ Newcomer(facts, o).article \in Nat
  BY DebutLeads, EntitledTypes DEF Newcomer
<1>3. ASSUME NEW o \in Debuts(facts), NEW q \in Debuts(facts),
             Newcomer(facts, o).article = Newcomer(facts, q).article
      PROVE  o = q
  <2>1. Rows!Line(facts, o).article = Rows!Line(facts, q).article
    BY <1>3 DEF Newcomer
  <2>2. o \in Entitled(facts) /\ q \in Entitled(facts)
    BY DebutLeads
  <2>3. o # q => Before(o, q) /\ Before(q, o)
    BY <2>1, <2>2 DEF Debuts
  <2> QED
    BY <2>2, <2>3, EntitledTypes, BeforeOrder
<1>4. \A a \in Newcomers(facts) : a.first \in Nat /\ a.article \in Nat
  BY <1>1, <1>2
<1>5. ASSUME NEW a \in Newcomers(facts), NEW b \in Newcomers(facts), a.article = b.article
      PROVE  a = b
  <2>1. PICK o \in Debuts(facts), q \in Debuts(facts) :
            a = Newcomer(facts, o) /\ b = Newcomer(facts, q)
    BY <1>1
  <2> QED
    BY <1>3, <1>5, <2>1
<1>6. ASSUME NEW a \in Newcomers(facts), NEW b \in Newcomers(facts), a.first < b.first
      PROVE  Rows!TextBefore(a.first, b.first)
  <2>1. PICK o \in Debuts(facts), q \in Debuts(facts) :
            a = Newcomer(facts, o) /\ b = Newcomer(facts, q)
    BY <1>1
  <2>2. a.first = Rows!At(facts, o) /\ b.first = Rows!At(facts, q)
    BY <2>1 DEF Newcomer
  <2>3. o \in Entitled(facts) /\ q \in Entitled(facts)
    BY DebutLeads
  <2>4. /\ o \in Nat \X Nat /\ q \in Nat \X Nat /\ o[1] \in 1..Len(facts)
        /\ q[1] \in 1..Len(facts) /\ Rows!At(facts, o) \in Nat /\ Rows!At(facts, q) \in Nat
        /\ facts[o[1]].state = "complete" /\ facts[q[1]].state = "complete"
    BY <2>3, EntitledTypes
  <2>5. /\ q[1] < o[1] => Rows!At(facts, q) < Rows!At(facts, o)
        /\ q[1] = o[1] => Rows!At(facts, q) = Rows!At(facts, o)
        /\ o[1] < q[1] => Rows!TextBefore(Rows!At(facts, o), Rows!At(facts, q))
    BY <2>4, EarlierBefore
  <2>6. o[1] < q[1]
    BY <1>6, <2>2, <2>4, <2>5
  <2> QED
    BY <2>2, <2>5, <2>6
<1> QED
  BY <1>4, <1>5, <1>6 DEF Coming

\* The articles that came are those of the entitled observations.
LEMMA NewcomersAre ==
    ASSUME NEW facts, Causal(facts)
    PROVE  \A x : (\E a \in Newcomers(facts) : a.article = x)
                     <=> \E o \in Entitled(facts) : Rows!Line(facts, o).article = x
<1>1. ASSUME NEW a \in Newcomers(facts)
      PROVE  \E o \in Entitled(facts) : Rows!Line(facts, o).article = a.article
  <2>1. PICK o \in Debuts(facts) : a = Newcomer(facts, o)
    BY DEF Newcomers
  <2> QED
    BY <2>1 DEF Newcomer, Debuts
<1>2. ASSUME NEW q \in Entitled(facts)
      PROVE  \E a \in Newcomers(facts) : a.article = Rows!Line(facts, q).article
  <2>1. PICK o \in Debuts(facts) : Rows!Line(facts, o).article = Rows!Line(facts, q).article
    BY DebutOf
  <2>2. Newcomer(facts, o) \in Newcomers(facts)
    BY DEF Newcomers
  <2> QED
    BY <2>1, <2>2 DEF Newcomer
<1> QED
  BY <1>1, <1>2

\* What a grouping says of its groups.
LEMMA GroupingTypes ==
    ASSUME NEW groups, NEW groupOf, NEW articles,
           Grouping(groups, groupOf, articles), Coming(articles)
    PROVE  DOMAIN groups = Rows!Range(groupOf)
<1>1. /\ DOMAIN groups = {a.article : a \in Anchors(groups, articles)}
      /\ DOMAIN groupOf = {a.article : a \in articles}
      /\ \A a \in Anchors(groups, articles) : groupOf[a.article] = a.article
      /\ \A a \in articles \ Anchors(groups, articles) :
            groupOf[a.article] = Rows!EarliestGroup(groups, Joinable(groups, a))
      /\ \A a \in Anchors(groups, articles) :
            groups[a.article] = [title |-> a.title, first |-> a.first]
  BY DEF Grouping
<1>2. Anchors(groups, articles) \subseteq articles
  BY DEF Anchors
<1>3. ASSUME NEW g \in DOMAIN groups PROVE g \in Rows!Range(groupOf)
  <2>1. PICK a \in Anchors(groups, articles) : a.article = g
    BY <1>1
  <2>2. g \in DOMAIN groupOf /\ groupOf[g] = g
    BY <1>1, <1>2, <2>1
  <2> QED
    BY <2>2 DEF Rows!Range
<1>4. ASSUME NEW a \in articles PROVE groupOf[a.article] \in DOMAIN groups
  <2>1. CASE a \in Anchors(groups, articles)
    BY <1>1, <2>1
  <2>2. CASE a \notin Anchors(groups, articles)
    <3>1. Joinable(groups, a) # {} /\ Joinable(groups, a) \subseteq DOMAIN groups
      BY <2>2 DEF Anchors, Joinable, Rows!Matches
    <3>2. ASSUME NEW g \in DOMAIN groups PROVE g \in Nat /\ groups[g].first \in Nat
      <4>1. PICK b \in Anchors(groups, articles) : b.article = g
        BY <1>1
      <4>2. groups[b.article] = [title |-> b.title, first |-> b.first]
        BY <1>1
      <4>3. groups[g].first = b.first
        BY <4>1, <4>2
      <4> QED
        BY <1>2, <4>1, <4>3 DEF Coming
    <3>3. Rows!EarliestGroup(groups, Joinable(groups, a)) \in Joinable(groups, a)
      BY <3>1, <3>2, EarliestGroupIn
    <3> QED
      BY <1>1, <2>2, <3>1, <3>3
  <2> QED
    BY <2>1, <2>2
<1>5. ASSUME NEW g \in Rows!Range(groupOf) PROVE g \in DOMAIN groups
  <2>1. PICK x \in DOMAIN groupOf : g = groupOf[x]
    BY DEF Rows!Range
  <2> QED
    BY <1>1, <1>4, <2>1
<1> QED
  BY <1>3, <1>5

\* A version and its first sighting.
LEMMA CanonicalVersions ==
    ASSUME NEW s, Canonical(s), NEW k \in DOMAIN s.versions
    PROVE  \E o \in Entitled(s.facts) :
               /\ Rows!Key(s.facts, o) = k /\ Leads(s.facts, o)
               /\ s.versions[k] = [first |-> Rows!At(s.facts, o), observation |-> o]
<1>1. Causal(s.facts)
  BY DEF Canonical
<1>2. PICK q \in Entitled(s.facts) : Rows!Key(s.facts, q) = k
  BY DEF Canonical
<1>3. PICK o \in Entitled(s.facts) : Rows!Key(s.facts, o) = k /\ Leads(s.facts, o)
  BY <1>1, <1>2, LeaderOf
<1>4. s.versions[k] = [first |-> Rows!At(s.facts, o), observation |-> o]
  BY <1>3 DEF Canonical
<1> QED
  BY <1>3, <1>4

\* Such a state has all that PlanStep asks of one.
LEMMA CanonicalNormal ==
    ASSUME NEW s, Canonical(s)
    PROVE  Normal(s)
<1> DEFINE F == s.facts
           E == Entitled(F)
<1>1. /\ Causal(F) /\ Ordered(F) /\ Grouping(s.groups, s.groupOf, Newcomers(F))
      /\ s.links = [o \in E |-> [version |-> Rows!Key(F, o), reused |-> ~Leads(F, o)]]
      /\ s.exclusions = Rows!Observations(F, 1..Len(F)) \ E
      /\ DOMAIN s.versions = {Rows!Key(F, o) : o \in E}
  BY DEF Canonical
<1>2. /\ DOMAIN s.links = E
      /\ \A o \in E : s.links[o].version = Rows!Key(F, o) /\ (s.links[o].reused <=> ~Leads(F, o))
  <2> DEFINE Link(o) == [version |-> Rows!Key(F, o), reused |-> ~Leads(F, o)]
  <2>1. DOMAIN s.links = E /\ \A o \in E : s.links[o] = Link(o)
    BY <1>1
  <2>2. ASSUME NEW o PROVE Link(o).version = Rows!Key(F, o) /\ (Link(o).reused <=> ~Leads(F, o))
    OBVIOUS
  <2> HIDE DEF Link, E
  <2> QED
    BY <2>1, <2>2
<1>3. DOMAIN F = 1..Len(F)
  BY <1>1 DEF Causal
<1> HIDE DEF F, E
<1>f. F = s.facts /\ E = Entitled(F)
  BY DEF F, E
<1>v. ASSUME NEW k \in DOMAIN s.versions
      PROVE  \E o \in E : /\ Rows!Key(F, o) = k /\ Leads(F, o)
                          /\ s.versions[k].first = Rows!At(F, o)
                          /\ s.versions[k].observation = o
  <2>1. PICK o \in E : /\ Rows!Key(F, o) = k /\ Leads(F, o)
                       /\ s.versions[k] = [first |-> Rows!At(F, o), observation |-> o]
    BY <1>f, CanonicalVersions
  <2> QED
    BY <2>1
<1>4. Rows!Accounted(s)
  <2>1. E \subseteq Rows!Observations(F, 1..Len(F))
    BY <1>1, <1>f, EntitledTypes
  <2>2. \A k \in DOMAIN s.versions : s.versions[k].first = Rows!At(F, s.versions[k].observation)
    BY <1>v
  <2> QED
    BY <1>1, <1>2, <1>3, <1>f, <2>1, <2>2 DEF Rows!Accounted
<1>5. ASSUME NEW k \in DOMAIN s.versions
      PROVE  {o \in DOMAIN s.links : s.links[o].version = k /\ ~s.links[o].reused}
                = {s.versions[k].observation}
  <2>1. PICK o \in E : /\ Rows!Key(F, o) = k /\ Leads(F, o)
                       /\ s.versions[k].observation = o
    BY <1>v
  <2>2. \A q \in E : Rows!Key(F, q) = k /\ Leads(F, q) => q = o
    BY <1>1, <1>f, <2>1, OneLeader
  <2> QED
    BY <1>2, <2>1, <2>2
<1>6. ASSUME NEW k \in DOMAIN s.versions, NEW j \in DOMAIN s.versions \ {k}, j[1] = k[1]
      PROVE  s.versions[j].first # s.versions[k].first
  <2>1. PICK o \in E : Rows!Key(F, o) = k /\ s.versions[k].first = Rows!At(F, o)
    BY <1>v
  <2>2. PICK q \in E : Rows!Key(F, q) = j /\ s.versions[j].first = Rows!At(F, q)
    BY <1>v
  <2>3. Rows!Line(F, o).article = k[1] /\ Rows!Line(F, q).article = j[1]
    BY <2>1, <2>2 DEF Rows!Key
  <2> QED
    BY <1>1, <1>6, <1>f, <2>1, <2>2, <2>3, EntitledTypes
<1>7. {s.links[o].version : o \in DOMAIN s.links} \subseteq DOMAIN s.versions
  BY <1>1, <1>2
<1>8. DOMAIN s.groups = Rows!Range(s.groupOf)
  BY <1>1, GroupingTypes, NewcomersCome
<1>9. DOMAIN s.groupOf = {k[1] : k \in DOMAIN s.versions}
  <2>1. DOMAIN s.groupOf = {a.article : a \in Newcomers(F)}
    BY <1>1 DEF Grouping
  <2>2. \A o \in E : Rows!Key(F, o)[1] = Rows!Line(F, o).article
    BY DEF Rows!Key
  <2>3. ASSUME NEW x
        PROVE  x \in {k[1] : k \in DOMAIN s.versions} <=> \E o \in E : Rows!Line(F, o).article = x
    BY <1>1, <2>2
  <2>4. ASSUME NEW x
        PROVE  x \in DOMAIN s.groupOf <=> \E o \in E : Rows!Line(F, o).article = x
    <3>1. (\E a \in Newcomers(F) : a.article = x)
             <=> \E o \in Entitled(F) : Rows!Line(F, o).article = x
      <4>1. Causal(F)
        BY <1>1
      <4> QED
        BY <4>1, NewcomersAre, Zenon
    <3>2. x \in DOMAIN s.groupOf <=> \E a \in Newcomers(F) : a.article = x
      BY <2>1
    <3> QED
      BY <1>f, <3>1, <3>2
  <2> QED
    BY <2>3, <2>4
<1>10. ASSUME NEW g \in DOMAIN s.groups
       PROVE  \E k \in DOMAIN s.versions :
                 /\ k = <<g, s.groups[g].title>> /\ s.versions[k].first = s.groups[g].first
                 /\ \A j \in DOMAIN s.versions \ {k} :
                       j[1] = g => Rows!TextBefore(s.versions[k].first, s.versions[j].first)
  <2>1. PICK a \in Newcomers(F) :
            a.article = g /\ s.groups[g] = [title |-> a.title, first |-> a.first]
    BY <1>1 DEF Grouping, Anchors
  <2>2. PICK o \in Debuts(F) : a = Newcomer(F, o)
    BY <2>1 DEF Newcomers
  <2>3. o \in E /\ Leads(F, o)
    BY <1>1, <1>f, <2>2, DebutLeads
  <2> DEFINE k == Rows!Key(F, o)
  <2>4. /\ s.groups[g].title = Rows!Line(F, o).title /\ g = Rows!Line(F, o).article
        /\ s.groups[g].first = Rows!At(F, o)
    BY <2>1, <2>2 DEF Newcomer
  <2>5. k = <<g, s.groups[g].title>> /\ k \in DOMAIN s.versions
    BY <1>1, <2>3, <2>4 DEF Rows!Key
  <2>6. s.versions[k].first = Rows!At(F, o)
    <3>1. s.versions[k] = [first |-> Rows!At(F, o), observation |-> o]
      BY <1>f, <2>3 DEF Canonical
    <3> QED
      BY <3>1
  <2> HIDE DEF k
  <2>7. ASSUME NEW j \in DOMAIN s.versions \ {k}, j[1] = g
        PROVE  Rows!TextBefore(s.versions[k].first, s.versions[j].first)
    <3>1. PICK q \in E : Rows!Key(F, q) = j /\ s.versions[j].first = Rows!At(F, q)
      BY <1>v
    <3>2. Rows!Line(F, q).article = g
      BY <2>7, <3>1 DEF Rows!Key
    <3>3. q # o
      BY <2>7, <3>1 DEF k
    <3>4. Before(o, q)
      BY <1>f, <2>2, <2>4, <3>2, <3>3 DEF Debuts
    <3>5. /\ o \in Nat \X Nat /\ q \in Nat \X Nat /\ o[1] \in 1..Len(F) /\ q[1] \in 1..Len(F)
          /\ Rows!At(F, o) \in Nat /\ Rows!At(F, q) \in Nat
          /\ F[o[1]].state = "complete" /\ F[q[1]].state = "complete"
      BY <1>1, <1>f, <2>3, EntitledTypes
    <3>6. /\ Rows!At(F, o) <= Rows!At(F, q)
          /\ o[1] < q[1] => Rows!TextBefore(Rows!At(F, o), Rows!At(F, q))
          /\ o[1] = q[1] => Rows!At(F, o) = Rows!At(F, q)
      BY <1>1, <3>4, <3>5, EarlierBefore
    <3>7. Rows!At(F, q) # Rows!At(F, o)
      <4>1. j[1] = k[1]
        BY <2>5, <2>7
      <4> QED
        BY <1>6, <2>5, <2>6, <2>7, <3>1, <4>1
    <3>8. o[1] < q[1]
      BY <3>4, <3>6, <3>7 DEF Before
    <3> QED
      BY <2>6, <3>1, <3>6, <3>8
  <2> QED
    BY <2>4, <2>5, <2>6, <2>7
<1>11. Rows!Fitting(s)
  BY <1>5, <1>6, <1>7, <1>8, <1>9, <1>10 DEF Rows!Fitting
<1>12. \A o \in DOMAIN s.links : s.links[o].version = Rows!Key(s.facts, o)
  BY <1>2, <1>f
<1>13. Causal(s.facts)
  BY <1>1, <1>f
<1> QED
  BY <1>4, <1>11, <1>12, <1>13 DEF Normal

-----------------------------------------------------------------------------
(* A plan of later facts makes of such a state such a state. *)

Extends(s, b) ==
    /\ Canonical(s) /\ b \in Seq(Fact) /\ b # <<>>
    /\ Causal(Total(s, b)) /\ Ordered(Total(s, b))

\* What such an extension is, place by place.
LEMMA ExtendsPlan ==
    ASSUME NEW s, NEW b, Extends(s, b)
    PROVE  /\ Plan(s, b) /\ Causal(s.facts) /\ Ordered(s.facts)
           /\ Len(s.facts) \in Nat /\ Len(Total(s, b)) = Len(s.facts) + Len(b)
           /\ Len(b) \in Nat \ {0}
           /\ \A m \in 1..Len(s.facts) : Total(s, b)[m] = s.facts[m]
           /\ \A m \in 1..Len(b) : Total(s, b)[Len(s.facts) + m] = b[m]
<1>1. s.facts \in Seq(Fact) /\ b \in Seq(Fact) /\ b # <<>>
  BY DEF Extends, Canonical, Causal
<1>2. Plan(s, b) /\ Causal(s.facts) /\ Ordered(s.facts)
  BY <1>1, CanonicalNormal DEF Extends, Plan, Canonical
<1> DEFINE F == s.facts
<1>3. Total(s, b) = F \o b
  BY DEF Total
<1>4. F \in Seq(Fact)
  BY <1>1
<1> HIDE DEF F
<1>5. /\ Len(F) \in Nat /\ Len(F \o b) = Len(F) + Len(b) /\ Len(b) \in Nat \ {0}
      /\ \A m \in 1..Len(F) : (F \o b)[m] = F[m]
      /\ \A m \in 1..Len(b) : (F \o b)[Len(F) + m] = b[m]
  BY <1>1, <1>4
<1> QED
  BY <1>2, <1>3, <1>5 DEF F

\* The entitled are those of before, and those of the plan, which come later.
LEMMA EntitledSplit ==
    ASSUME NEW s, NEW b, Extends(s, b)
    PROVE  /\ \A o : o \in Entitled(Total(s, b)) <=> (o \in Entitled(s.facts) \/ o \in Picked(s, b))
           /\ \A o \in Entitled(s.facts) :
                 /\ Rows!At(Total(s, b), o) = Rows!At(s.facts, o)
                 /\ Rows!Line(Total(s, b), o) = Rows!Line(s.facts, o)
                 /\ Rows!Key(Total(s, b), o) = Rows!Key(s.facts, o)
           /\ \A o \in Entitled(s.facts), q \in Picked(s, b) :
                 /\ o # q /\ Before(o, q) /\ ~Before(q, o)
                 /\ Rows!At(Total(s, b), o) < Rows!At(Total(s, b), q)
<1> DEFINE T == Total(s, b)
           F == s.facts
           Old == 1..Len(F)
           Last == Len(T)
<1>1. /\ Causal(T) /\ Ordered(T) /\ Len(F) \in Nat /\ Len(T) \in Nat /\ Len(F) <= Len(T)
      /\ \A m \in Old : T[m] = F[m]
  BY ExtendsPlan DEF Extends
<1>2. /\ Rows!Eligible(T, Old) = Entitled(F)
      /\ \A o \in Rows!Observations(F, Old) :
            /\ Rows!At(T, o) = Rows!At(F, o) /\ Rows!Line(T, o) = Rows!Line(F, o)
            /\ Rows!Key(T, o) = Rows!Key(F, o)
  <2>1. Entitled(F) = Rows!Eligible(F, Old)
    BY DEF Entitled
  <2>2. \A m \in Old : T[m] = F[m]
    BY <1>1
  <2> HIDE DEF T, F, Old
  <2> QED
    BY <2>1, <2>2, SameFacts
<1>3. Picked(s, b) = Rows!Eligible(T, Len(F) + 1 .. Last)
  BY DEF Picked, Added
<1> HIDE DEF T, F, Old
<1>4. Old \subseteq 1..Last /\ (Len(F) + 1 .. Last) \subseteq 1..Last
      /\ \A m \in 1..Last : m \in Old \/ m \in Len(F) + 1 .. Last
  BY <1>1 DEF Old
<1>5. \A o : o \in Entitled(F) <=> o \in Entitled(T) /\ o[1] \in Old
  <2>1. \A o : o \in Rows!Eligible(T, Old) <=> o \in Entitled(T) /\ o[1] \in Old
    BY <1>1, <1>4, EligibleOf
  <2> QED
    BY <1>2, <2>1
<1>6. \A o : o \in Picked(s, b) <=> o \in Entitled(T) /\ o[1] \in Len(F) + 1 .. Last
  BY <1>1, <1>3, <1>4, EligibleOf
<1>7. \A o \in Entitled(T) :
         o \in Nat \X Nat /\ o[1] \in 1..Last /\ T[o[1]].state = "complete"
  BY <1>1, EntitledTypes DEF Last
<1>8. \A o : o \in Entitled(T) <=> (o \in Entitled(F) \/ o \in Picked(s, b))
  BY <1>4, <1>5, <1>6, <1>7
<1>9. \A o \in Entitled(F) : o \in Rows!Observations(F, Old)
  <2>1. Causal(F)
    BY ExtendsPlan DEF F
  <2> QED
    BY <2>1, EntitledTypes DEF Old
<1>10. ASSUME NEW o \in Entitled(F), NEW q \in Picked(s, b)
       PROVE  /\ o # q /\ Before(o, q) /\ ~Before(q, o)
              /\ Rows!At(T, o) < Rows!At(T, q)
  <2>1. /\ o \in Nat \X Nat /\ q \in Nat \X Nat /\ o[1] \in 1..Len(T) /\ q[1] \in 1..Len(T)
        /\ o[1] < q[1] /\ T[o[1]].state = "complete" /\ T[q[1]].state = "complete"
    BY <1>1, <1>5, <1>6, <1>7 DEF Old
  <2>2. Rows!At(T, o) < Rows!At(T, q)
    BY <1>1, <2>1, EarlierBefore
  <2> QED
    BY <2>1, <2>2 DEF Before
<1> QED
  BY <1>2, <1>8, <1>9, <1>10 DEF T, F

\* The observations, too.
LEMMA ObservationsSplit ==
    ASSUME NEW s, NEW b, Extends(s, b)
    PROVE  /\ Rows!Observations(Total(s, b), 1..Len(Total(s, b)))
                 = Rows!Observations(s.facts, 1..Len(s.facts))
                   \cup Rows!Observations(Total(s, b), Added(s, b))
           /\ \A o \in Rows!Observations(s.facts, 1..Len(s.facts)) : o \notin Picked(s, b)
           /\ \A o \in Rows!Observations(Total(s, b), Added(s, b)) : o \notin Entitled(s.facts)
<1> DEFINE T == Total(s, b)
           F == s.facts
           Old == 1..Len(F)
           All == 1..Len(T)
<1>1. /\ Causal(T) /\ Causal(F) /\ Len(F) \in Nat /\ Len(T) \in Nat /\ Len(F) <= Len(T)
      /\ \A m \in Old : T[m] = F[m]
  BY ExtendsPlan DEF Extends
<1>2. Rows!Observations(T, Old) = Rows!Observations(F, Old)
  <2> HIDE DEF T, F
  <2> QED
    BY <1>1, SameFacts
<1>3. Added(s, b) = Len(F) + 1 .. Len(T)
  BY DEF Added
<1> HIDE DEF T, F
<1>4. Old \subseteq All /\ Added(s, b) \subseteq All
      /\ \A m \in All : m \in Old <=> m \notin Added(s, b)
  BY <1>1, <1>3
<1> HIDE DEF Old, All
<1>5. /\ \A o : o \in Rows!Observations(T, Old) <=> o \in Rows!Observations(T, All) /\ o[1] \in Old
      /\ \A o : o \in Rows!Observations(T, Added(s, b))
                   <=> o \in Rows!Observations(T, All) /\ o[1] \in Added(s, b)
  BY <1>4, ObservationsOf
<1>6. \A o \in Rows!Observations(T, All) : o[1] \in All
  BY <1>1, ObservationTypes DEF All
<1>7. Rows!Observations(T, All)
         = Rows!Observations(F, Old) \cup Rows!Observations(T, Added(s, b))
  BY <1>2, <1>4, <1>5, <1>6
<1>8. Picked(s, b) \subseteq Rows!Observations(T, Added(s, b))
  BY DEF Picked, Rows!Eligible, Rows!Candidates, T
<1>9. Entitled(F) \subseteq Rows!Observations(F, Old)
  BY <1>1, EntitledTypes DEF Old
<1> QED
  BY <1>2, <1>4, <1>5, <1>6, <1>7, <1>8, <1>9 DEF T, F, Old, All

\* A first sighting stays the first one.
LEMMA OldLeads ==
    ASSUME NEW s, NEW b, Extends(s, b), NEW o \in Entitled(s.facts)
    PROVE  Leads(Total(s, b), o) <=> Leads(s.facts, o)
BY EntitledSplit DEF Leads

\* Of a plan, the first sighting of a new version is one.
LEMMA PickedLeads ==
    ASSUME NEW s, NEW b, Extends(s, b), NEW o \in Picked(s, b)
    PROVE  /\ o \in Rows!Range(Sighting(s, b)) <=> Leads(Total(s, b), o)
           /\ Leads(Total(s, b), o) =>
                 /\ Rows!Key(Total(s, b), o) \in Fresh(s, b)
                 /\ Sighting(s, b)[Rows!Key(Total(s, b), o)] = o
<1> DEFINE T == Total(s, b)
<1>1. Plan(s, b) /\ Causal(T) /\ Ordered(T)
  BY ExtendsPlan DEF Extends
<1>2. DOMAIN s.versions = {Rows!Key(s.facts, q) : q \in Entitled(s.facts)}
  BY DEF Extends, Canonical
<1>3. ASSUME NEW p \in Picked(s, b), NEW q \in Picked(s, b)
      PROVE  /\ Rows!Earlier(T, p, q) <=> Before(p, q)
             /\ p # q => Before(p, q) \/ Before(q, p)
             /\ ~(Before(p, q) /\ Before(q, p))
  <2>1. p \in Entitled(T) /\ q \in Entitled(T)
    BY EntitledSplit
  <2>2. /\ p \in Nat \X Nat /\ q \in Nat \X Nat /\ p[1] \in 1..Len(T) /\ q[1] \in 1..Len(T)
        /\ T[p[1]].state = "complete" /\ T[q[1]].state = "complete"
    BY <1>1, <2>1, EntitledTypes
  <2> HIDE DEF T
  <2> QED
    BY <1>1, <2>2, EarlierBefore, BeforeOrder
<1>4. ASSUME NEW k \in Fresh(s, b), Sighting(s, b)[k] = o PROVE Leads(T, o)
  <2>1. o \in OfKey(s, b, k) /\ \A q \in OfKey(s, b, k) \ {o} : Rows!Earlier(T, o, q)
    BY <1>1, <1>4, SightingIn
  <2>2. ASSUME NEW q \in Entitled(T) \ {o}, Rows!Key(T, q) = Rows!Key(T, o) PROVE Before(o, q)
    <3>1. Rows!Key(T, q) = k
      BY <2>1, <2>2 DEF OfKey
    <3>2. q \notin Entitled(s.facts)
      BY <1>2, <1>4, <3>1, EntitledSplit DEF Fresh
    <3>3. q \in Picked(s, b) /\ q \in OfKey(s, b, k)
      BY <3>1, <3>2, EntitledSplit DEF OfKey
    <3> QED
      BY <1>3, <2>1, <2>2, <3>3
  <2> QED
    BY <2>2 DEF Leads
<1>5. ASSUME Leads(T, o)
      PROVE  Rows!Key(T, o) \in Fresh(s, b) /\ Sighting(s, b)[Rows!Key(T, o)] = o
  <2> DEFINE k == Rows!Key(T, o)
  <2>1. o \in Entitled(T)
    BY EntitledSplit
  <2>2. ASSUME NEW q \in Entitled(s.facts) PROVE Rows!Key(s.facts, q) # k
    <3>1. q # o /\ ~Before(o, q) /\ q \in Entitled(T) /\ Rows!Key(T, q) = Rows!Key(s.facts, q)
      BY EntitledSplit
    <3> QED
      BY <1>5, <3>1 DEF Leads
  <2>3. k \in Fresh(s, b)
    BY <1>2, <2>2 DEF Fresh
  <2> DEFINE p == Sighting(s, b)[k]
  <2>4. /\ p \in Picked(s, b) /\ Rows!Key(T, p) = k
        /\ \A q \in OfKey(s, b, k) \ {p} : Rows!Earlier(T, p, q)
    BY <1>1, <2>3, SightingIn DEF OfKey
  <2>5. o \in OfKey(s, b, k) /\ p \in Entitled(T)
    BY <2>4, EntitledSplit DEF OfKey
  <2> HIDE DEF p
  <2>6. p # o => Before(p, o) /\ Before(o, p)
    BY <1>3, <1>5, <2>4, <2>5 DEF Leads
  <2>7. p = o
    BY <1>3, <2>4, <2>6
  <2> QED
    BY <2>3, <2>7 DEF p
<1>6. \A p : p \in Rows!Range(Sighting(s, b)) <=> \E k \in Fresh(s, b) : Sighting(s, b)[k] = p
  BY DEF Rows!Range, Sighting
<1> QED
  BY <1>4, <1>5, <1>6

\* New articles are the arrivals of the plan.
LEMMA NewcomersSplit ==
    ASSUME NEW s, NEW b, Extends(s, b)
    PROVE  /\ Newcomers(Total(s, b)) = Newcomers(s.facts) \cup Arrivals(s, b)
           /\ Lined(Newcomers(s.facts), Arrivals(s, b))
<1> DEFINE T == Total(s, b)
           F == s.facts
           Article(o) == Rows!Line(T, o).article
<1>1. Plan(s, b) /\ Causal(T) /\ Causal(F) /\ Ordered(T)
  BY ExtendsPlan DEF Extends
<1>2. DOMAIN s.versions = {Rows!Key(F, q) : q \in Entitled(F)}
  BY DEF Extends, Canonical
<1>3. DOMAIN s.groupOf = {a.article : a \in Newcomers(F)}
  BY DEF Extends, Canonical, Grouping
<1> HIDE DEF T, F
<1>4. /\ \A o : o \in Entitled(T) <=> (o \in Entitled(F) \/ o \in Picked(s, b))
      /\ \A o \in Entitled(F) :
            /\ Rows!At(T, o) = Rows!At(F, o)
            /\ Rows!Line(T, o) = Rows!Line(F, o)
            /\ Rows!Key(T, o) = Rows!Key(F, o)
      /\ \A o \in Entitled(F), q \in Picked(s, b) :
            /\ o # q /\ Before(o, q) /\ ~Before(q, o) /\ Rows!At(T, o) < Rows!At(T, q)
  BY EntitledSplit DEF T, F
<1>5. \A x : x \in DOMAIN s.groupOf <=> \E o \in Entitled(F) : Article(o) = x
  <2>1. ASSUME NEW x
        PROVE  (\E a \in Newcomers(F) : a.article = x)
                  <=> \E o \in Entitled(F) : Rows!Line(F, o).article = x
    BY <1>1, NewcomersAre, Zenon
  <2>2. \A x : x \in DOMAIN s.groupOf <=> \E a \in Newcomers(F) : a.article = x
    BY <1>3
  <2> QED
    BY <1>4, <2>1, <2>2
<1>6. ASSUME NEW p \in Picked(s, b), NEW q \in Picked(s, b)
      PROVE  /\ Rows!Earlier(T, p, q) <=> Before(p, q)
             /\ p # q => Before(p, q) \/ Before(q, p)
             /\ ~(Before(p, q) /\ Before(q, p))
  <2>1. p \in Entitled(T) /\ q \in Entitled(T)
    BY <1>4
  <2>2. /\ p \in Nat \X Nat /\ q \in Nat \X Nat /\ p[1] \in 1..Len(T) /\ q[1] \in 1..Len(T)
        /\ T[p[1]].state = "complete" /\ T[q[1]].state = "complete"
    BY <1>1, <2>1, EntitledTypes
  <2> QED
    BY <1>1, <2>2, EarlierBefore, BeforeOrder
<1>7. ASSUME NEW o \in Picked(s, b)
      PROVE  /\ o \in Rows!Range(Sighting(s, b)) <=> Leads(T, o)
             /\ Rows!Key(T, o) = <<Article(o), Rows!Line(T, o).title>>
  BY PickedLeads DEF T, Rows!Key
<1>8. ASSUME NEW o \in Rows!Range(Sighting(s, b)) PROVE o \in Picked(s, b)
  <2>1. PICK k \in Fresh(s, b) : o = Sighting(s, b)[k]
    BY DEF Rows!Range, Sighting
  <2> QED
    BY <1>1, <2>1, SightingIn DEF OfKey
<1>9. ASSUME NEW o PROVE o \in Debuts(T) <=> (o \in Debuts(F) \/ o \in Initial(s, b))
  <2>1. CASE o \in Entitled(F)
    <3>1. o \notin Initial(s, b)
      BY <1>4, <1>8, <2>1 DEF Initial
    <3>2. o \in Debuts(T) <=> o \in Debuts(F)
      BY <1>4, <2>1 DEF Debuts
    <3> QED
      BY <3>1, <3>2
  <2>2. CASE o \in Picked(s, b) /\ o \notin Entitled(F)
    <3>1. o \notin Debuts(F)
      BY <2>2 DEF Debuts
    <3>2. ASSUME o \in Debuts(T) PROVE o \in Initial(s, b)
      <4>1. Leads(T, o)
        BY <1>1, <3>2, DebutLeads
      <4>2. o \in Rows!Range(Sighting(s, b))
        BY <1>7, <2>2, <4>1
      <4>3. \A q \in Entitled(T) \ {o} : Article(q) = Article(o) => Before(o, q)
        BY <3>2 DEF Debuts
      <4>4. Article(o) \notin DOMAIN s.groupOf
        BY <1>4, <1>5, <2>2, <4>3
      <4>5. \A q \in Rows!Range(Sighting(s, b)) \ {o} :
               Article(q) = Article(o) => Rows!Earlier(T, o, q)
        BY <1>4, <1>6, <1>8, <2>2, <4>3
      <4> QED
        BY <4>2, <4>4, <4>5 DEF Initial, T
    <3>3. ASSUME o \in Initial(s, b) PROVE o \in Debuts(T)
      <4>1. /\ o \in Rows!Range(Sighting(s, b)) /\ Article(o) \notin DOMAIN s.groupOf
            /\ \A q \in Rows!Range(Sighting(s, b)) \ {o} :
                  Article(q) = Article(o) => Rows!Earlier(T, o, q)
        BY <3>3 DEF Initial, T
      <4>2. ASSUME NEW q \in Entitled(T) \ {o}, Article(q) = Article(o) PROVE Before(o, q)
        <5>1. q \in Picked(s, b)
          BY <1>4, <1>5, <4>1, <4>2
\* The first sighting of the version of q is one, and not before o.
        <5>2. PICK p \in Entitled(T) :
                  /\ Rows!Key(T, p) = Rows!Key(T, q) /\ Leads(T, p) /\ (p # q => Before(p, q))
          BY <1>1, <4>2, LeaderOf
        <5>3. Article(p) = Article(o)
          BY <4>2, <5>2 DEF Rows!Key
        <5>4. p \in Picked(s, b) /\ p \in Rows!Range(Sighting(s, b))
          BY <1>4, <1>5, <1>7, <4>1, <5>2, <5>3
        <5>5. p = o \/ Before(o, p)
          BY <1>6, <2>2, <4>1, <5>3, <5>4
        <5>6. /\ o \in Nat \X Nat /\ p \in Nat \X Nat /\ q \in Nat \X Nat
          BY <1>1, <1>4, <2>2, <4>2, <5>2, EntitledTypes
        <5> QED
          BY <4>2, <5>2, <5>5, <5>6 DEF Before
      <4>3. o \in Entitled(T)
        BY <1>4, <2>2
      <4> QED
        BY <4>2, <4>3 DEF Debuts
    <3> QED
      BY <3>1, <3>2, <3>3
  <2>3. CASE o \notin Picked(s, b) /\ o \notin Entitled(F)
    <3>1. o \notin Debuts(T) /\ o \notin Debuts(F)
      BY <1>4, <2>3 DEF Debuts
    <3>2. o \notin Initial(s, b)
      BY <1>8, <2>3 DEF Initial
    <3> QED
      BY <3>1, <3>2
  <2> QED
    BY <2>1, <2>2, <2>3
<1>10. /\ \A o : Arrival(s, b, o) = Newcomer(T, o)
       /\ \A o \in Debuts(F) : Newcomer(T, o) = Newcomer(F, o)
  BY <1>4 DEF Arrival, Newcomer, Debuts, T
<1>11. Newcomers(T) = Newcomers(F) \cup Arrivals(s, b)
  BY <1>9, <1>10 DEF Newcomers, Arrivals
<1>12. ASSUME NEW x \in Newcomers(F), NEW y \in Arrivals(s, b) PROVE Sooner(x, y)
  <2>1. PICK o \in Debuts(F) : x = Newcomer(F, o)
    BY DEF Newcomers
  <2>2. PICK q \in Initial(s, b) : y = Newcomer(T, q)
    BY <1>10 DEF Arrivals
  <2>3. o \in Entitled(F) /\ q \in Picked(s, b)
    BY <1>8 DEF Debuts, Initial
  <2>4. Rows!At(F, o) < Rows!At(T, q)
    BY <1>4, <2>3
  <2> QED
    BY <2>1, <2>2, <2>4 DEF Newcomer, Sooner
<1>13. Coming(Newcomers(F) \cup Arrivals(s, b))
  BY <1>1, <1>11, NewcomersCome
<1> QED
  BY <1>11, <1>12, <1>13 DEF Lined, T, F

\* So what normalize leaves is again what the facts make.
LEMMA CanonicalStep ==
    ASSUME NEW s, NEW b, Extends(s, b)
    PROVE  Canonical(Rows!Normalized(s, b))
<1> DEFINE T == Total(s, b)
           F == s.facts
           r == Rows!Normalized(s, b)
           versions == [k \in Fresh(s, b) |->
               [first |-> Rows!At(T, Sighting(s, b)[k]), observation |-> Sighting(s, b)[k]]]
           links == [o \in Picked(s, b) |->
               [version |-> Rows!Key(T, o), reused |-> o \notin Rows!Range(Sighting(s, b))]]
           joined == Rows!Joins(s, Arrivals(s, b))[Rows!Cardinality(Arrivals(s, b))]
           excluded == s.exclusions \cup (Rows!Observations(T, Added(s, b)) \ Picked(s, b))
<1>1. r = [facts |-> T, closed |-> T[Len(T)].terminal + 1,
           versions |-> Rows!Over(versions, s.versions), links |-> Rows!Over(links, s.links),
           exclusions |-> excluded, groups |-> joined.groups, groupOf |-> joined.groupOf]
  BY DEF Rows!Normalized, Total, Added, Picked, Fresh, OfKey, Sighting, Initial, Arrival, Arrivals
<1>2. /\ r.facts = T /\ r.closed = T[Len(T)].terminal + 1
      /\ r.versions = Rows!Over(versions, s.versions) /\ r.links = Rows!Over(links, s.links)
      /\ r.exclusions = excluded /\ r.groups = joined.groups /\ r.groupOf = joined.groupOf
      /\ r = [facts |-> r.facts, closed |-> r.closed, versions |-> r.versions,
              links |-> r.links, exclusions |-> r.exclusions, groups |-> r.groups,
              groupOf |-> r.groupOf]
  <2> HIDE DEF T, versions, links, joined, excluded
  <2> QED
    BY <1>1
<1> HIDE DEF r
<1>3. /\ Canonical(s) /\ Causal(T) /\ Ordered(T) /\ Plan(s, b) /\ T # <<>>
  <2>1. Len(T) # 0
    BY ExtendsPlan
  <2> QED
    BY <2>1, ExtendsPlan DEF Extends
<1>4. /\ s.links = [o \in Entitled(F) |->
                       [version |-> Rows!Key(F, o), reused |-> ~Leads(F, o)]]
      /\ s.exclusions = Rows!Observations(F, 1..Len(F)) \ Entitled(F)
      /\ DOMAIN s.versions = {Rows!Key(F, o) : o \in Entitled(F)}
      /\ Grouping(s.groups, s.groupOf, Newcomers(F))
  BY <1>3 DEF Canonical
<1>5. /\ \A o : o \in Entitled(T) <=> (o \in Entitled(F) \/ o \in Picked(s, b))
      /\ \A o \in Entitled(F) :
            /\ Rows!At(T, o) = Rows!At(F, o) /\ Rows!Key(T, o) = Rows!Key(F, o)
            /\ o \notin Picked(s, b)
      /\ \A o \in Picked(s, b) : Rows!Key(T, o) \in Fresh(s, b)
                                    \/ Rows!Key(T, o) \in DOMAIN s.versions
  BY EntitledSplit DEF Fresh
<1>6. \A o \in Entitled(F) : Leads(T, o) <=> Leads(F, o)
  BY OldLeads
<1>7. \A o \in Picked(s, b) :
         /\ o \in Rows!Range(Sighting(s, b)) <=> Leads(T, o)
         /\ Leads(T, o) => /\ Rows!Key(T, o) \in Fresh(s, b)
                           /\ Sighting(s, b)[Rows!Key(T, o)] = o
  BY PickedLeads
<1>8. DOMAIN versions = Fresh(s, b) /\ DOMAIN links = Picked(s, b)
  OBVIOUS
<1>9. r.links = [o \in Entitled(T) |->
                    [version |-> Rows!Key(T, o), reused |-> ~Leads(T, o)]]
  <2> DEFINE Link(o) == [version |-> Rows!Key(T, o), reused |-> ~Leads(T, o)]
  <2>1. ASSUME NEW o \in Picked(s, b) PROVE links[o] = Link(o)
    <3>1. (o \notin Rows!Range(Sighting(s, b))) = ~Leads(T, o)
      BY <1>7
    <3> QED
      BY <3>1
  <2>2. ASSUME NEW o \in Entitled(F) PROVE s.links[o] = Link(o)
    <3>1. (~Leads(F, o)) = ~Leads(T, o)
      BY <1>6
    <3>2. s.links[o] = [version |-> Rows!Key(F, o), reused |-> ~Leads(F, o)]
      BY <1>4
    <3> QED
      BY <1>5, <3>1, <3>2
  <2>3. DOMAIN s.links = Entitled(F)
    BY <1>4
  <2> HIDE DEF Link, links, T, F
  <2>4. Rows!Over(links, s.links) = [o \in Entitled(T) |-> Link(o)]
    BY <1>5, <1>8, <2>1, <2>2, <2>3 DEF Rows!Over
  <2> QED
    BY <1>2, <2>4 DEF Link
<1>10. r.exclusions = Rows!Observations(T, 1..Len(T)) \ Entitled(T)
  BY <1>2, <1>4, <1>5, ObservationsSplit
<1>11. DOMAIN r.versions = {Rows!Key(T, o) : o \in Entitled(T)}
  <2>1. \A k : k \in DOMAIN r.versions <=> (k \in Fresh(s, b) \/ k \in DOMAIN s.versions)
    BY <1>2, <1>8, OverMaps
  <2>2. \A k \in Fresh(s, b) : \E o \in Picked(s, b) : k = Rows!Key(T, o)
    BY DEF Fresh
  <2>3. \A k : k \in DOMAIN s.versions <=> \E o \in Entitled(F) : k = Rows!Key(T, o)
    BY <1>4, <1>5
  <2> HIDE DEF T, F
  <2> QED
    BY <1>5, <2>1, <2>2, <2>3
<1>12. r.versions = [k \in DOMAIN r.versions |-> r.versions[k]]
  BY <1>2 DEF Rows!Over
<1>13. ASSUME NEW o \in Entitled(T), Leads(T, o)
       PROVE  r.versions[Rows!Key(T, o)] = [first |-> Rows!At(T, o), observation |-> o]
  <2> DEFINE k == Rows!Key(T, o)
  <2>1. CASE o \in Entitled(F)
    <3>1. s.versions[Rows!Key(F, o)] = [first |-> Rows!At(F, o), observation |-> o]
      BY <1>3, <1>6, <1>13, <2>1 DEF Canonical
    <3>2. k \in DOMAIN s.versions /\ k \notin Fresh(s, b) /\ k = Rows!Key(F, o)
      BY <1>4, <1>5, <2>1 DEF Fresh
    <3>3. r.versions[k] = s.versions[k]
      BY <1>2, <1>8, <3>2, OverMaps
    <3> QED
      BY <1>5, <2>1, <3>1, <3>2, <3>3
  <2>2. CASE o \in Picked(s, b)
    <3>1. k \in Fresh(s, b) /\ Sighting(s, b)[k] = o
      BY <1>7, <1>13, <2>2
    <3>2. versions[k] = [first |-> Rows!At(T, o), observation |-> o]
      BY <3>1
    <3>3. r.versions[k] = versions[k]
      BY <1>2, <1>8, <3>1, OverMaps
    <3> QED
      BY <3>2, <3>3
  <2> QED
    BY <1>5, <1>13, <2>1, <2>2
<1>14. Grouping(r.groups, r.groupOf, Newcomers(T))
  <2>1. IsFiniteSet(Arrivals(s, b))
    BY <1>3, ArrivalsNew DEF New
  <2>2. joined = Rows!Joins(s, Arrivals(s, b))[Cardinality(Arrivals(s, b))]
    BY SameInRows
  <2>3. Grouping(joined.groups, joined.groupOf, Newcomers(F) \cup Arrivals(s, b))
    BY <1>4, <2>1, <2>2, NewcomersSplit, JoinsGrouping
  <2> QED
    BY <1>2, <2>3, NewcomersSplit
<1>15. r.closed = IF r.facts = <<>> THEN 0 ELSE r.facts[Len(r.facts)].terminal + 1
  BY <1>2, <1>3
<1>16. Canonical(r)
  <2>1. r.facts = T /\ Causal(r.facts) /\ Ordered(r.facts)
    BY <1>2, <1>3
  <2>2. r = [facts |-> r.facts, closed |-> r.closed, versions |-> r.versions,
             links |-> r.links, exclusions |-> r.exclusions, groups |-> r.groups,
             groupOf |-> r.groupOf]
    BY <1>2
  <2> HIDE DEF T, F
  <2> QED
    BY <1>9, <1>10, <1>11, <1>12, <1>13, <1>14, <1>15, <2>1, <2>2 DEF Canonical
<1> QED
  BY <1>16 DEF r

-----------------------------------------------------------------------------
(* A replay of the facts makes the same state. *)

\* There is one state of some facts.
LEMMA OneCanonical ==
    ASSUME NEW s, NEW r, Canonical(s), Canonical(r), s.facts = r.facts
    PROVE  s = r
<1> DEFINE F == s.facts
<1>1. Causal(F) /\ Ordered(F) /\ s.closed = r.closed /\ s.links = r.links /\ s.exclusions = r.exclusions
  BY DEF Canonical
<1>2. s.groups = r.groups /\ s.groupOf = r.groupOf
  <2>1. Coming(Newcomers(F))
    BY <1>1, NewcomersCome
  <2>2. Grouping(s.groups, s.groupOf, Newcomers(F)) /\ Grouping(r.groups, r.groupOf, Newcomers(F))
    BY DEF Canonical
  <2> HIDE DEF F
  <2> QED
    BY <2>1, <2>2, OneGrouping
<1>3. s.versions = r.versions
  <2>1. /\ s.versions = [k \in DOMAIN s.versions |-> s.versions[k]]
        /\ r.versions = [k \in DOMAIN r.versions |-> r.versions[k]]
        /\ DOMAIN s.versions = DOMAIN r.versions
    BY DEF Canonical
  <2>2. ASSUME NEW k \in DOMAIN s.versions PROVE s.versions[k] = r.versions[k]
    <3>1. PICK o \in Entitled(F) :
              /\ Rows!Key(F, o) = k /\ Leads(F, o)
              /\ s.versions[k] = [first |-> Rows!At(F, o), observation |-> o]
      BY CanonicalVersions
    <3>2. r.versions[Rows!Key(F, o)] = [first |-> Rows!At(F, o), observation |-> o]
      BY <3>1 DEF Canonical
    <3> QED
      BY <3>1, <3>2
  <2> QED
    BY <2>1, <2>2
<1>4. /\ s = [facts |-> s.facts, closed |-> s.closed, versions |-> s.versions, links |-> s.links,
              exclusions |-> s.exclusions, groups |-> s.groups, groupOf |-> s.groupOf]
      /\ r = [facts |-> r.facts, closed |-> r.closed, versions |-> r.versions, links |-> r.links,
              exclusions |-> r.exclusions, groups |-> r.groups, groupOf |-> r.groupOf]
  BY DEF Canonical
<1> QED
  BY <1>1, <1>2, <1>3, <1>4

\* A state with no facts.
LEMMA EmptyCanonical == Canonical(Rows!Empty)
<1> DEFINE e == Rows!Empty
           none == Rows!Nobody
<1>1. /\ e.facts = <<>> /\ e.exclusions = {} /\ e.closed = 0
      /\ e.versions = none /\ e.links = none /\ e.groups = none /\ e.groupOf = none
      /\ e = [facts |-> e.facts, closed |-> e.closed, versions |-> e.versions,
              links |-> e.links, exclusions |-> e.exclusions, groups |-> e.groups,
              groupOf |-> e.groupOf]
  BY DEF Rows!Empty
<1>2. none = [x \in {} |-> none[x]] /\ DOMAIN none = {}
  BY DEF Rows!Nobody
<1> HIDE DEF e, none
<1>3. Rows!Observations(<<>>, 1..Len(<<>>)) = {}
  BY DEF Rows!Observations
<1>4. Entitled(<<>>) = {}
  BY <1>3 DEF Entitled, Rows!Eligible, Rows!Candidates
<1>5. Newcomers(<<>>) = {}
  BY <1>4 DEF Newcomers, Debuts
<1>6. Causal(<<>>) /\ Ordered(<<>>)
  BY DEF Causal, Ordered
<1>7. Grouping(none, none, {})
  <2>1. Anchors(none, {}) = {}
    BY DEF Anchors
  <2> QED
    BY <1>2, <2>1 DEF Grouping
<1>8. none = [o \in Entitled(<<>>) |-> [version |-> Rows!Key(<<>>, o), reused |-> ~Leads(<<>>, o)]]
  BY <1>2, <1>4
<1> QED
  BY <1>1, <1>2, <1>3, <1>4, <1>5, <1>6, <1>7, <1>8 DEF Canonical, e

\* Later facts are chronological at the time of their replay.
LEMMA ReplayChronological ==
    ASSUME NEW s, NEW b, Extends(s, b)
    PROVE  Rows!Chronological(s, b, Rows!ReplayedAt(s, b))
<1> DEFINE T == Total(s, b)
           N == Len(s.facts)
           L == Len(b)
           asOf == Rows!ReplayedAt(s, b)
<1>1. /\ Causal(T) /\ Ordered(T) /\ N \in Nat /\ L \in Nat \ {0} /\ Len(T) = N + L
      /\ \A m \in 1..N : T[m] = s.facts[m]
      /\ \A m \in 1..L : T[N + m] = b[m]
      /\ DOMAIN b = 1..L
  BY ExtendsPlan DEF Extends
<1>2. s.closed = IF s.facts = <<>> THEN 0 ELSE s.facts[N].terminal + 1
  BY DEF Extends, Canonical
<1>3. (s.facts = <<>>) => N = 0
  OBVIOUS
<1>4. Length \in Nat /\ Lag \in Nat
  BY SentimentAssumption DEF Rows!NormalizerAssumption
<1>5. asOf = IF b[L].terminal < Rows!Due(N + L) THEN Rows!Due(N + L) ELSE b[L].terminal
  BY DEF Rows!ReplayedAt
<1> HIDE DEF T, N, L, asOf
<1>6. ASSUME NEW k \in 1..L
      PROVE  /\ b[k].terminal \in Nat /\ b[k].published \in Nat
             /\ b[k].published <= b[k].terminal
             /\ b[k].terminal <= b[L].terminal
             /\ Rows!Due(N + k) \in Nat /\ Rows!Due(N + k) <= Rows!Due(N + L)
  <2>1. N + k \in 1..Len(T) /\ N + L \in 1..Len(T) /\ k <= L /\ L \in 1..L
    BY <1>1
  <2>2. T[N + k] = b[k] /\ T[N + L] = b[L]
    BY <1>1, <2>1
  <2>3. b[k].terminal \in Nat /\ b[k].published \in Nat /\ b[k].published <= b[k].terminal
    BY <1>1, <2>1, <2>2, FactTypes DEF Ordered
  <2>4. ASSUME k < L PROVE b[k].terminal < b[L].terminal
    <3>1. N + k < N + L
      BY <1>1, <2>4
    <3>2. T[N + k].terminal < T[N + L].terminal
      BY <1>1, <2>1, <3>1, TerminalsIncrease
    <3> QED
      BY <2>2, <3>2
  <2>5. b[L].terminal \in Nat
    BY <1>1, <2>1, <2>2, FactTypes
  <2>6. b[k].terminal <= b[L].terminal
    BY <1>1, <2>1, <2>3, <2>4, <2>5
  <2>7. ((N + k) - 1) * Length <= ((N + L) - 1) * Length
    <3>1. (N + k) - 1 \in Nat /\ (N + L) - 1 \in Nat /\ (N + k) - 1 <= (N + L) - 1
      BY <1>1, <2>1
    <3> QED
      BY <3>1, TimesLength
  <2> DEFINE x == ((N + k) - 1) * Length
             y == ((N + L) - 1) * Length
  <2>8. x \in Nat /\ y \in Nat /\ x <= y
    BY <1>1, <1>4, <2>1, <2>7
  <2>9. Rows!Due(N + k) = x + Lag /\ Rows!Due(N + L) = y + Lag
    BY DEF Rows!Due
  <2> HIDE DEF x, y
  <2> QED
    BY <1>4, <2>3, <2>6, <2>8, <2>9
<1>7. L \in 1..L
  BY <1>1
<1>8. asOf \in Nat /\ b[L].terminal <= asOf /\ Rows!Due(N + L) <= asOf
  BY <1>5, <1>6, <1>7
<1>9. ASSUME NEW k \in 1..L
      PROVE  b[k].published >= IF k = 1 THEN s.closed ELSE b[k - 1].terminal + 1
  <2>1. b[k].published \in Nat /\ N + k \in 1..Len(T) /\ T[N + k] = b[k]
    BY <1>1, <1>6
  <2>2. CASE k = 1 /\ s.facts = <<>>
    BY <1>2, <2>1, <2>2
  <2>3. CASE k = 1 /\ s.facts # <<>>
    <3>1. N # 0
      <4>1. s.facts \in Seq(Fact)
        BY DEF Extends, Canonical, Causal
      <4> QED
        BY <2>3, <4>1 DEF N
    <3>2. N \in 1..Len(T) /\ N < N + 1 /\ T[N] = s.facts[N]
      BY <1>1, <3>1
    <3>3. T[N].terminal \in Nat
      BY <1>1, <3>2, FactTypes
    <3>4. N + 1 \in 1..Len(T) /\ T[N + 1] = b[k]
      BY <2>1, <2>3
    <3>5. T[N].terminal < T[N + 1].published
      BY <1>1, <3>2, <3>4 DEF Ordered
    <3>6. s.closed = T[N].terminal + 1
      BY <1>2, <2>3, <3>2
    <3>7. T[N].terminal < b[k].published
      BY <3>4, <3>5
    <3>8. b[k].published >= T[N].terminal + 1
      BY <2>1, <3>3, <3>7
    <3> QED
      BY <2>3, <3>6, <3>8
  <2>4. CASE k # 1
    <3>1. /\ k - 1 \in 1..L /\ N + (k - 1) \in 1..Len(T) /\ N + (k - 1) < N + k
      BY <1>1, <2>4
    <3>2. T[N + (k - 1)] = b[k - 1] /\ b[k - 1].terminal \in Nat
      BY <1>1, <1>6, <3>1
    <3>3. T[N + (k - 1)].terminal < T[N + k].published
      BY <1>1, <2>1, <3>1 DEF Ordered
    <3> QED
      BY <2>1, <2>4, <3>2, <3>3
  <2> QED
    BY <2>2, <2>3, <2>4
<1>10. ASSUME NEW k \in 1..L
       PROVE  Rows!Due(N + k) <= asOf /\ b[k].terminal \in b[k].published..asOf
  BY <1>6, <1>7, <1>8
<1> QED
  BY <1>1, <1>9, <1>10 DEF Rows!Chronological, N, asOf

\* They neither revise nor precede what is stored.
LEMMA LaterUnrevised ==
    ASSUME NEW s, NEW b, Extends(s, b)
    PROVE  Rows!Unrevised(s, b)
<1> DEFINE T == Total(s, b)
           F == s.facts
<1>1. /\ Causal(T) /\ Ordered(T) /\ Causal(F) /\ Len(F) \in Nat /\ Len(F) <= Len(T)
      /\ Len(T) \in Nat
  BY ExtendsPlan DEF Extends
<1>2. ASSUME NEW k \in DOMAIN s.versions
      PROVE  \E o \in Entitled(F) : s.versions[k].first = Rows!At(T, o) /\ o \in Entitled(T)
  <2>1. PICK o \in Entitled(F) :
            s.versions[k] = [first |-> Rows!At(F, o), observation |-> o]
    BY CanonicalVersions DEF Extends
  <2> QED
    BY <2>1, EntitledSplit
<1>3. ASSUME NEW q \in Rows!Observations(T, Added(s, b)), NEW k \in DOMAIN s.versions
      PROVE  /\ s.versions[k].first \in Nat /\ Rows!At(T, q) \in Nat
             /\ s.versions[k].first < Rows!At(T, q)
             /\ Rows!TextBefore(s.versions[k].first, Rows!At(T, q))
  <2>1. PICK o \in Entitled(F) : s.versions[k].first = Rows!At(T, o) /\ o \in Entitled(T)
    BY <1>2
  <2>2. Added(s, b) = Len(F) + 1 .. Len(T)
    BY DEF Added
  <2> HIDE DEF T, F
  <2>3. /\ q \in Nat \X Nat /\ q[1] \in Len(F) + 1 .. Len(T) /\ Rows!At(T, q) \in Nat
        /\ T[q[1]].state = "complete"
    <3>1. Len(F) + 1 .. Len(T) \subseteq 1..Len(T)
      BY <1>1
    <3> QED
      BY <1>1, <2>2, <3>1, ObservationTypes, ObservationComplete
  <2>4. /\ o \in Nat \X Nat /\ o[1] \in 1..Len(F) /\ Rows!At(T, o) \in Nat
        /\ T[o[1]].state = "complete"
    BY <1>1, <2>1, EntitledTypes
  <2>5. o[1] \in 1..Len(T) /\ q[1] \in 1..Len(T) /\ o[1] < q[1]
    <3>1. ASSUME NEW m \in 1..Len(F), NEW n \in Len(F) + 1 .. Len(T)
          PROVE  m \in 1..Len(T) /\ n \in 1..Len(T) /\ m < n
      BY <1>1
    <3> QED
      BY <2>3, <2>4, <3>1
  <2>6. Rows!At(T, o) < Rows!At(T, q) /\ Rows!TextBefore(Rows!At(T, o), Rows!At(T, q))
    BY <1>1, <2>3, <2>4, <2>5, EarlierBefore
  <2> QED
    BY <2>1, <2>3, <2>4, <2>6
<1>4. ASSUME NEW o \in Rows!Candidates(T, Added(s, b))
      PROVE  {k \in DOMAIN s.versions : k[1] = Rows!Line(T, o).article
                                           /\ s.versions[k].first = Rows!At(T, o)} = {}
  <2>1. o \in Rows!Observations(T, Added(s, b))
    BY DEF Rows!Candidates
  <2> HIDE DEF T
  <2> QED
    BY <1>3, <2>1
<1>5. ASSUME NEW o \in Rows!Eligible(T, Added(s, b)), NEW k \in DOMAIN s.versions
      PROVE  ~Rows!TextBefore(Rows!At(T, o), s.versions[k].first)
  <2>1. o \in Rows!Observations(T, Added(s, b))
    BY DEF Rows!Eligible, Rows!Candidates
  <2> HIDE DEF T
  <2> QED
    BY <1>3, <2>1, TextOrder
<1> QED
  BY <1>4, <1>5 DEF Rows!Unrevised, Total, Added

\* So a replay refuses none of the plans.
LEMMA ReplayAccepts ==
    ASSUME NEW s, NEW b, Extends(s, b)
    PROVE  Rows!Accepts(s, b, Rows!ReplayedAt(s, b))
<1>1. Normal(Rows!Normalized(s, b))
  BY CanonicalStep, CanonicalNormal
<1> QED
  BY <1>1, ReplayChronological, LaterUnrevised DEF Rows!Accepts, Normal

-----------------------------------------------------------------------------
(* The replay, plan after plan. *)

Replays(f, plans, n) ==
    f = [k \in 0..n |->
            IF k = 0 THEN {Rows!Empty}
            ELSE {Rows!Normalized(s, plans[k]) :
                     s \in {t \in f[k - 1] :
                               Rows!Accepts(t, plans[k], Rows!ReplayedAt(t, plans[k]))}}]

\* The recursive function exists.
LEMMA ReplayFollows ==
    ASSUME NEW facts, Len(Rows!Plans(facts)) \in Nat
    PROVE  \E f : /\ Replays(f, Rows!Plans(facts), Len(Rows!Plans(facts)))
                  /\ Rows!Replay(facts) = f[Len(Rows!Plans(facts))]
<1> DEFINE plans == Rows!Plans(facts)
           c == Len(plans)
           Onward(S, k) ==
              {Rows!Normalized(s, plans[k]) :
                  s \in {t \in S : Rows!Accepts(t, plans[k], Rows!ReplayedAt(t, plans[k]))}}
           Lengths == {n \in Nat : \E f : Replays(f, plans, n)}
<1>0. ASSUME NEW f, NEW n
      PROVE  Replays(f, plans, n)
                <=> f = [k \in 0..n |-> IF k = 0 THEN {Rows!Empty} ELSE Onward(f[k - 1], k)]
  BY DEF Replays
<1> HIDE DEF Onward
<1>1. 0 \in Lengths
  <2> DEFINE f == [k \in 0..0 |-> {Rows!Empty}]
  <2>1. f = [k \in 0..0 |-> IF k = 0 THEN {Rows!Empty} ELSE Onward(f[k - 1], k)]
    OBVIOUS
  <2>2. Replays(f, plans, 0)
    BY <1>0, <2>1
  <2> QED
    BY <2>2
<1>2. ASSUME NEW n \in Nat, n \in Lengths PROVE n + 1 \in Lengths
  <2>1. PICK f : Replays(f, plans, n)
    BY <1>2
  <2>2. f = [k \in 0..n |-> IF k = 0 THEN {Rows!Empty} ELSE Onward(f[k - 1], k)]
    BY <1>0, <2>1
  <2> DEFINE h == [k \in 0..(n + 1) |-> IF k <= n THEN f[k] ELSE Onward(f[n], n + 1)]
  <2>3. \A k \in 0..n : h[k] = f[k]
    OBVIOUS
  <2>4. h[n + 1] = Onward(f[n], n + 1)
    OBVIOUS
  <2>5. ASSUME NEW k \in 0..(n + 1)
        PROVE  h[k] = IF k = 0 THEN {Rows!Empty} ELSE Onward(h[k - 1], k)
    <3>1. CASE k = n + 1
      <4>1. (n + 1) - 1 = n /\ n \in 0..n
        OBVIOUS
      <4> HIDE DEF h
      <4> QED
        BY <2>3, <2>4, <3>1, <4>1
    <3>2. CASE k \in 0..n
      <4>1. k # 0 => k - 1 \in 0..n
        BY <3>2
      <4>2. f[k] = IF k = 0 THEN {Rows!Empty} ELSE Onward(f[k - 1], k)
        BY <2>2, <3>2
      <4> HIDE DEF h
      <4> QED
        BY <2>3, <3>2, <4>1, <4>2
    <3> QED
      BY <3>1, <3>2
  <2>6. h = [k \in 0..(n + 1) |-> h[k]]
    OBVIOUS
  <2>7. Replays(h, plans, n + 1)
    <3> HIDE DEF h
    <3>1. h = [k \in 0..(n + 1) |-> IF k = 0 THEN {Rows!Empty} ELSE Onward(h[k - 1], k)]
      BY <2>5, <2>6
    <3> QED
      BY <1>0, <3>1
  <2> QED
    BY <2>7
<1>3. \A n \in Nat : n \in Lengths
  <2> HIDE DEF Lengths
  <2> QED
    BY <1>1, <1>2, SetInduction
<1>4. \E f : Replays(f, plans, c)
  BY <1>3
<1>5. Rows!Replay(facts) = (CHOOSE f : Replays(f, plans, c))[c]
  BY DEF Rows!Replay, Replays
<1> HIDE DEF plans, c
<1>6. Replays(CHOOSE f : Replays(f, plans, c), plans, c)
  BY <1>4
<1> QED
  BY <1>5, <1>6 DEF c, plans

\* How far the first plans reach.
Cut(facts, k) == IF k * MaxPlan < Len(facts) THEN k * MaxPlan ELSE Len(facts)

\* The plans, one after the other, are all of the facts.
LEMMA PlansAre ==
    ASSUME NEW facts, Causal(facts)
    PROVE  LET plans == Rows!Plans(facts)
           IN  /\ Len(plans) \in Nat /\ Cut(facts, 0) = 0 /\ Cut(facts, Len(plans)) = Len(facts)
               /\ \A k \in 1..Len(plans) :
                     /\ plans[k] = SubSeq(facts, Cut(facts, k - 1) + 1, Cut(facts, k))
                     /\ Cut(facts, k - 1) \in Nat /\ Cut(facts, k) \in Nat
                     /\ Cut(facts, k - 1) < Cut(facts, k) /\ Cut(facts, k) <= Len(facts)
<1> DEFINE M == MaxPlan
           L == Len(facts)
           c == (L + M - 1) \div M
           Piece(k) == SubSeq(facts, (k - 1) * M + 1, IF k * M < L THEN k * M ELSE L)
           plans == Rows!Plans(facts)
<1>1. M \in Nat \ {0} /\ L \in Nat
  BY SentimentAssumption DEF Rows!NormalizerAssumption, Causal
<1>2. plans = [k \in 1..c |-> Piece(k)]
  BY DEF Rows!Plans
<1> HIDE DEF M, L
<1>3. /\ c \in Nat /\ (c = 0 \/ (c - 1) * M < L) /\ L <= c * M
  <2> DEFINE x == (L + M) - 1
             r == x % M
  <2>1. x \in Nat /\ L + M - 1 = x
    BY <1>1
  <2> HIDE DEF x
  <2>2. c \in Nat /\ r \in 0..(M - 1) /\ x = (M * c) + r
    BY <1>1, <2>1
  <2> HIDE DEF c, r
  <2>3. c * M = M * c /\ M * c \in Nat /\ (c - 1) * M = (M * c) - M
    BY <1>1, <2>2
  <2> DEFINE y == M * c
  <2>4. x = y + r /\ y \in Nat /\ c * M = y /\ (c - 1) * M = y - M
    BY <2>2, <2>3
  <2> HIDE DEF y
  <2>5. L <= y /\ y - M < L
    BY <1>1, <2>1, <2>2, <2>4 DEF x
  <2> QED
    BY <2>2, <2>4, <2>5
<1>4. ASSUME NEW k \in 1..c
      PROVE  /\ Cut(facts, k - 1) = (k - 1) * M
             /\ Cut(facts, k) = IF k * M < L THEN k * M ELSE L
             /\ (k - 1) * M \in Nat /\ k * M \in Nat /\ (k - 1) * M < L
             /\ k * M = (k - 1) * M + M
  <2> HIDE DEF c
  <2>1. c - 1 \in Nat /\ k - 1 \in Nat /\ k \in Nat /\ k - 1 <= c - 1 /\ c # 0
    BY <1>3
  <2>2. /\ (k - 1) * M \in Nat /\ k * M \in Nat /\ (c - 1) * M \in Nat
        /\ k * M = (k - 1) * M + M
    BY <1>1, <2>1
  <2>3. (k - 1) * M <= (c - 1) * M
    BY <1>1, <2>1
  <2>4. (k - 1) * M < L
    <3> DEFINE x == (k - 1) * M
               y == (c - 1) * M
    <3>1. x \in Nat /\ y \in Nat /\ x <= y /\ y < L
      BY <1>3, <2>1, <2>2, <2>3
    <3> HIDE DEF x, y
    <3>2. x < L
      BY <1>1, <3>1
    <3> QED
      BY <3>2 DEF x
  <2> QED
    BY <2>2, <2>4 DEF Cut, L, M
<1>5. Len(plans) = c /\ \A k \in 1..c : plans[k] = Piece(k)
  <2>1. c \in Nat
    BY <1>3
  <2> HIDE DEF c, Piece, plans
  <2> QED
    BY <1>2, <2>1
<1>6. Cut(facts, 0) = 0
  BY <1>1 DEF Cut, L, M
<1>7. Cut(facts, c) = L
  <2> DEFINE x == c * MaxPlan
  <2>1. x \in Nat /\ L <= x
    BY <1>1, <1>3 DEF M
  <2>2. Cut(facts, c) = IF x < L THEN x ELSE L
    BY DEF Cut, L
  <2> HIDE DEF x
  <2> QED
    BY <1>1, <2>1, <2>2
<1>8. ASSUME NEW k \in 1..c
      PROVE  /\ plans[k] = SubSeq(facts, Cut(facts, k - 1) + 1, Cut(facts, k))
             /\ Cut(facts, k - 1) \in Nat /\ Cut(facts, k) \in Nat
             /\ Cut(facts, k - 1) < Cut(facts, k) /\ Cut(facts, k) <= L
  <2> DEFINE x == (k - 1) * M
             y == k * M
  <2>1. /\ Cut(facts, k - 1) = x /\ Cut(facts, k) = IF y < L THEN y ELSE L
        /\ x \in Nat /\ y \in Nat /\ x < L /\ y = x + M
    BY <1>4
  <2>2. plans[k] = SubSeq(facts, x + 1, IF y < L THEN y ELSE L)
    BY <1>5
  <2> HIDE DEF x, y, plans
  <2>3. plans[k] = SubSeq(facts, Cut(facts, k - 1) + 1, Cut(facts, k))
    BY <2>1, <2>2
  <2>4. /\ Cut(facts, k - 1) \in Nat /\ Cut(facts, k) \in Nat
        /\ Cut(facts, k - 1) < Cut(facts, k) /\ Cut(facts, k) <= L
    <3> DEFINE p == Cut(facts, k - 1)
               q == Cut(facts, k)
    <3>1. p = x /\ q = IF y < L THEN y ELSE L
      BY <2>1
    <3> HIDE DEF p, q
    <3>2. p \in Nat /\ q \in Nat /\ p < q /\ q <= L
      BY <1>1, <2>1, <3>1
    <3> QED
      BY <3>2 DEF p, q
  <2> QED
    BY <2>3, <2>4
<1> HIDE DEF c, plans
<1> QED
  BY <1>3, <1>5, <1>6, <1>7, <1>8 DEF plans, L

\* The beginning of the facts, and what follows it.
LEMMA Beginning ==
    ASSUME NEW facts, Causal(facts), Ordered(facts),
           NEW m \in Nat, NEW n \in Nat, m < n, n <= Len(facts)
    PROVE  /\ SubSeq(facts, 1, m) \o SubSeq(facts, m + 1, n) = SubSeq(facts, 1, n)
           /\ SubSeq(facts, m + 1, n) \in Seq(Fact) /\ SubSeq(facts, m + 1, n) # <<>>
           /\ Causal(SubSeq(facts, 1, n)) /\ Ordered(SubSeq(facts, 1, n))
<1>1. facts \in Seq(Fact) /\ Len(facts) \in Nat
  BY DEF Causal
<1> DEFINE A == SubSeq(facts, 1, m)
           B == SubSeq(facts, m + 1, n)
           C == SubSeq(facts, 1, n)
<1>2. /\ A \in Seq(Fact) /\ Len(A) = m /\ \A i \in 1..m : A[i] = facts[i]
  BY <1>1
<1>3. /\ B \in Seq(Fact) /\ Len(B) = n - m /\ \A i \in 1..(n - m) : B[i] = facts[m + i]
  BY <1>1
<1>4. /\ C \in Seq(Fact) /\ Len(C) = n /\ \A i \in 1..n : C[i] = facts[i]
  BY <1>1
<1> HIDE DEF A, B, C
<1>5. A \o B = C
  <2>1. /\ A \o B \in Seq(Fact) /\ Len(A \o B) = Len(A) + Len(B)
        /\ \A i \in 1..Len(A) : (A \o B)[i] = A[i]
        /\ \A i \in 1..Len(B) : (A \o B)[Len(A) + i] = B[i]
    <3>1. A \in Seq(Fact) /\ B \in Seq(Fact)
      BY <1>2, <1>3
    <3> QED
      BY <3>1
  <2>2. m + (n - m) = n /\ n - m \in Nat
    OBVIOUS
  <2>3. Len(A \o B) = n
    BY <1>2, <1>3, <2>1, <2>2
  <2>4. ASSUME NEW i \in 1..n PROVE (A \o B)[i] = C[i]
    <3>1. CASE i <= m
      <4>1. i \in 1..m
        BY <3>1
      <4> QED
        BY <1>2, <1>4, <2>1, <4>1
    <3>2. CASE i > m
      <4> DEFINE j == i - m
      <4>1. j \in 1..(n - m) /\ m + j = i
        BY <3>2
      <4> HIDE DEF j
      <4>2. (A \o B)[i] = B[j]
        BY <1>2, <1>3, <2>1, <4>1
      <4> QED
        BY <1>3, <1>4, <4>1, <4>2
    <3>3. i <= m \/ i > m
      OBVIOUS
    <3> QED
      BY <3>1, <3>2, <3>3, Zenon
  <2>5. ASSUME NEW S \in Seq(Fact), Len(S) = n, \A i \in 1..n : S[i] = C[i]
        PROVE  S = C
    BY <1>4, <2>5
  <2> QED
    BY <2>1, <2>3, <2>4, <2>5
<1>6. B # <<>>
  BY <1>3
<1>7. Causal(C) /\ Ordered(C)
  <2>1. 1..n \subseteq 1..Len(facts)
    BY <1>1
  <2> QED
    BY <1>4, <2>1 DEF Causal, Ordered
<1> QED
  BY <1>3, <1>5, <1>6, <1>7 DEF A, B, C

\* What the facts of such a state replay to is that state.
LEMMA ReplayIs ==
    ASSUME NEW s, Canonical(s)
    PROVE  Rows!Replay(s.facts) = {s}
<1> DEFINE F == s.facts
           plans == Rows!Plans(F)
           c == Len(plans)
<1>1. Causal(F) /\ Ordered(F)
  BY DEF Canonical
<1>2. /\ c \in Nat /\ Cut(F, 0) = 0 /\ Cut(F, c) = Len(F)
      /\ \A k \in 1..c :
            /\ plans[k] = SubSeq(F, Cut(F, k - 1) + 1, Cut(F, k))
            /\ Cut(F, k - 1) \in Nat /\ Cut(F, k) \in Nat
            /\ Cut(F, k - 1) < Cut(F, k) /\ Cut(F, k) <= Len(F)
  <2> HIDE DEF F
  <2> QED
    BY <1>1, PlansAre
<1>3. PICK f : Replays(f, plans, c) /\ Rows!Replay(F) = f[c]
  BY <1>2, ReplayFollows
<1> HIDE DEF F, plans, c
<1> DEFINE Made(k) == \E u : f[k] = {u} /\ Canonical(u) /\ u.facts = SubSeq(F, 1, Cut(F, k))
           Steps == {k \in Nat : k <= c => Made(k)}
<1>4. 0 \in Steps
  <2>1. f[0] = {Rows!Empty}
    BY <1>2, <1>3 DEF Replays
  <2>2. SubSeq(F, 1, 0) = <<>>
    BY <1>1 DEF Causal
  <2>3. Rows!Empty.facts = <<>>
    BY DEF Rows!Empty
  <2> QED
    BY <1>2, <2>1, <2>2, <2>3, EmptyCanonical
<1>5. ASSUME NEW k \in Nat, k \in Steps PROVE k + 1 \in Steps
  <2> SUFFICES ASSUME k + 1 <= c PROVE Made(k + 1)
    OBVIOUS
  <2>1. k + 1 \in 1..c /\ k + 1 \in 0..c /\ k + 1 # 0 /\ (k + 1) - 1 = k /\ k <= c
    BY <1>2
  <2>2. PICK u : f[k] = {u} /\ Canonical(u) /\ u.facts = SubSeq(F, 1, Cut(F, k))
    BY <1>5, <2>1
  <2> DEFINE b == plans[k + 1]
  <2>3. f[k + 1] = {Rows!Normalized(t, b) :
                       t \in {t \in f[k] : Rows!Accepts(t, b, Rows!ReplayedAt(t, b))}}
    BY <1>3, <2>1 DEF Replays
  <2>4. /\ b = SubSeq(F, Cut(F, k) + 1, Cut(F, k + 1))
        /\ Cut(F, k) \in Nat /\ Cut(F, k + 1) \in Nat
        /\ Cut(F, k) < Cut(F, k + 1) /\ Cut(F, k + 1) <= Len(F)
    BY <1>2, <2>1
  <2>5. /\ u.facts \o b = SubSeq(F, 1, Cut(F, k + 1))
        /\ b \in Seq(Fact) /\ b # <<>>
        /\ Causal(u.facts \o b) /\ Ordered(u.facts \o b)
    <3> HIDE DEF b
    <3> QED
      BY <1>1, <2>2, <2>4, Beginning
  <2> HIDE DEF b
  <2>6. Extends(u, b)
    BY <2>2, <2>5 DEF Extends, Total
  <2>7. Rows!Accepts(u, b, Rows!ReplayedAt(u, b)) /\ Canonical(Rows!Normalized(u, b))
    BY <2>6, ReplayAccepts, CanonicalStep
  <2>8. f[k + 1] = {Rows!Normalized(u, b)}
    BY <2>2, <2>3, <2>7
  <2>9. Rows!Normalized(u, b).facts = SubSeq(F, 1, Cut(F, k + 1))
    BY <2>5, NormalizedParts DEF Total
  <2> QED
    BY <2>7, <2>8, <2>9
<1>6. \A k \in Nat : k \in Steps
  <2> HIDE DEF Steps
  <2> QED
    BY <1>4, <1>5, SetInduction
<1>7. PICK u : f[c] = {u} /\ Canonical(u) /\ u.facts = SubSeq(F, 1, Len(F))
  <2>1. c \in Steps /\ c <= c
    <3> HIDE DEF Steps
    <3> QED
      BY <1>2, <1>6
  <2>2. Made(c)
    <3> HIDE DEF Made
    <3> QED
      BY <2>1
  <2> QED
    BY <1>2, <2>2
<1>8. SubSeq(F, 1, Len(F)) = F
  BY <1>1 DEF Causal
<1>9. u = s
  BY <1>7, <1>8, OneCanonical DEF F
<1> QED
  BY <1>3, <1>7, <1>9 DEF F

-----------------------------------------------------------------------------
\* The facts of an accepted plan are in the order of time.
LEMMA ChainOrdered ==
    ASSUME NEW facts, Causal(facts),
           \A m \in 1..Len(facts) : facts[m].published <= facts[m].terminal,
           \A m \in 1..Len(facts) : m # 1 => facts[m - 1].terminal < facts[m].published,
           Rows!TextsInOrder(facts)
    PROVE  Ordered(facts)
<1> DEFINE After(n) == \A m \in 1..Len(facts) : m < n => facts[m].terminal < facts[n].published
           Places == {n \in Nat : n \in 1..Len(facts) => After(n)}
<1>1. Len(facts) \in Nat
      /\ \A m \in 1..Len(facts) : facts[m].terminal \in Nat /\ facts[m].published \in Nat
  <2>1. Len(facts) \in Nat
    BY DEF Causal
  <2> QED
    BY <2>1, FactTypes
<1>2. 0 \in Places
  BY <1>1
<1>3. ASSUME NEW n \in Nat, n \in Places PROVE n + 1 \in Places
  <2> SUFFICES ASSUME n + 1 \in 1..Len(facts), NEW m \in 1..Len(facts), m < n + 1
               PROVE  facts[m].terminal < facts[n + 1].published
    OBVIOUS
  <2>1. n \in 1..Len(facts) /\ n + 1 # 1 /\ (n + 1) - 1 = n
    BY <1>1
  <2>2. facts[n].terminal < facts[n + 1].published
    BY <2>1
  <2>3. m = n \/ m < n
    OBVIOUS
  <2>4. CASE m < n
    <3>1. facts[m].terminal < facts[n].published /\ facts[n].published <= facts[n].terminal
      BY <1>3, <2>1, <2>4
    <3>2. /\ facts[m].terminal \in Nat /\ facts[n].published \in Nat
          /\ facts[n].terminal \in Nat /\ facts[n + 1].published \in Nat
      BY <1>1, <2>1
    <3> DEFINE p == facts[m].terminal
               q == facts[n].published
               r == facts[n].terminal
               t == facts[n + 1].published
    <3>3. p \in Nat /\ q \in Nat /\ r \in Nat /\ t \in Nat /\ p < q /\ q <= r /\ r < t
      BY <2>2, <3>1, <3>2
    <3> HIDE DEF p, q, r, t
    <3>4. p < t
      BY <3>3
    <3> QED
      BY <3>4 DEF p, t
  <2> QED
    BY <2>2, <2>3, <2>4
<1>4. \A n \in Nat : n \in Places
  <2> HIDE DEF Places
  <2> QED
    BY <1>2, <1>3, SetInduction
<1>5. \A n \in 1..Len(facts) : After(n)
  BY <1>4
<1>6. DOMAIN facts = 1..Len(facts)
  BY DEF Causal
<1> QED
  BY <1>5, <1>6 DEF Ordered, Rows!TextsInOrder

\* So a plan that is accepted extends the state, if its texts are in order.
LEMMA AcceptedExtends ==
    ASSUME NEW s, NEW b, Canonical(s), Plan(s, b), b # <<>>, NEW asOf,
           Rows!Chronological(s, b, asOf), Rows!TextsInOrder(Total(s, b))
    PROVE  Extends(s, b)
<1> DEFINE T == Total(s, b)
           F == s.facts
           N == Len(F)
           L == Len(b)
<1>1. /\ F \in Seq(Fact) /\ b \in Seq(Fact) /\ Causal(T) /\ Causal(F) /\ Ordered(F)
      /\ Rows!TextsInOrder(T)
  BY DEF Plan, Canonical, Causal
<1>2. T = F \o b
  BY DEF Total
<1>3. s.closed = IF F = <<>> THEN 0 ELSE F[N].terminal + 1
  BY DEF Canonical
<1>4. \A k \in DOMAIN b :
         /\ b[k].published >= IF k = 1 THEN s.closed ELSE b[k - 1].terminal + 1
         /\ b[k].terminal \in b[k].published..asOf
  BY DEF Rows!Chronological
<1> HIDE DEF F, T
<1>5. /\ N \in Nat /\ L \in Nat /\ Len(T) = N + L /\ DOMAIN b = 1..L
      /\ \A m \in 1..N : T[m] = F[m]
      /\ \A m \in N + 1 .. N + L : T[m] = b[m - N] /\ m - N \in 1..L
  BY <1>1, <1>2
<1> HIDE DEF N, L
<1>6. ASSUME NEW m \in 1..Len(T)
      PROVE  /\ T[m].published <= T[m].terminal
             /\ m # 1 => T[m - 1].terminal < T[m].published
  <2>0. T[m].published \in Nat /\ T[m].terminal \in Nat
        /\ (m # 1 => m - 1 \in 1..Len(T) /\ T[m - 1].terminal \in Nat)
    <3>1. m # 1 => m - 1 \in 1..Len(T)
      BY <1>5
    <3> QED
      BY <1>1, <3>1, FactTypes
  <2>1. CASE m \in 1..N
    <3>1. T[m] = F[m] /\ (m # 1 => m - 1 \in 1..N /\ T[m - 1] = F[m - 1] /\ m - 1 < m)
      BY <1>5, <2>1
    <3> QED
      BY <1>1, <2>1, <3>1 DEF Ordered, N
  <2>2. CASE m \in N + 1 .. N + L
    <3> DEFINE k == m - N
    <3>1. k \in 1..L /\ T[m] = b[k]
      BY <1>5, <2>2
    <3>2. /\ b[k].published >= IF k = 1 THEN s.closed ELSE b[k - 1].terminal + 1
          /\ b[k].terminal \in b[k].published..asOf
      BY <1>4, <1>5, <3>1
    <3>3. T[m].published <= T[m].terminal
      BY <2>0, <3>1, <3>2
    <3>4. ASSUME m # 1 PROVE T[m - 1].terminal < T[m].published
      <4>1. CASE k = 1
        <5>1. m - 1 = N /\ N # 0 /\ N \in 1..N
          BY <1>5, <3>4, <4>1
        <5>2. T[m - 1] = F[N] /\ F # <<>>
          BY <1>1, <1>5, <5>1 DEF N
        <5>3. s.closed = T[m - 1].terminal + 1
          BY <1>3, <5>2
        <5>4. T[m].published >= T[m - 1].terminal + 1
          BY <3>1, <3>2, <4>1, <5>3
        <5> QED
          BY <2>0, <3>4, <5>4
      <4>2. CASE k # 1
        <5>1. m - 1 \in N + 1 .. N + L /\ (m - 1) - N = k - 1
          BY <1>5, <2>2, <4>2
        <5>2. T[m - 1] = b[k - 1]
          BY <1>5, <5>1
        <5>3. T[m].published >= T[m - 1].terminal + 1
          BY <3>1, <3>2, <4>2, <5>2
        <5> QED
          BY <2>0, <3>4, <5>3
      <4> QED
        BY <4>1, <4>2
    <3> QED
      BY <3>3, <3>4
  <2> QED
    BY <1>5, <2>1, <2>2
<1>7. Ordered(T)
  BY <1>1, <1>6, ChainOrdered
<1> QED
  BY <1>1, <1>7 DEF Extends, T

\* The texts of the beginning are in order if all are.
LEMMA BeginningInOrder ==
    ASSUME NEW s, NEW b, Plan(s, b), Rows!TextsInOrder(Total(s, b))
    PROVE  Rows!TextsInOrder(s.facts)
<1> DEFINE F == s.facts
           T == Total(s, b)
<1>1. F \in Seq(Fact) /\ b \in Seq(Fact) /\ T = F \o b
  BY DEF Plan, Normal, Causal, Total
<1> HIDE DEF F, T
<1>2. \A m \in DOMAIN F : m \in DOMAIN T /\ T[m] = F[m]
  BY <1>1
<1> QED
  BY <1>2 DEF Rows!TextsInOrder, F, T

\* However the facts were cut into plans, and wherever the process restarted, a
\* state whose sightings have texts in the order of their instants is the one its
\* facts replay to: what is published can be hydrated.
THEOREM ReplayedAlike == Rows!Spec => []ReplayInOrder
<1> DEFINE CanonicalInv ==
               /\ Rows!TextsInOrder(norm.facts) => Canonical(norm)
               /\ Rows!TextsInOrder(state.facts) => Canonical(state)
<1>1. Rows!Init => CanonicalInv
  BY EmptyCanonical DEF Rows!Init
<1>2. ASSUME RowsInv, CanonicalInv, [Rows!Next]_(Rows!vars) PROVE CanonicalInv'
  <2>1. ASSUME NEW length \in 1..MaxPlan, Rows!Normalize(length) PROVE CanonicalInv'
    <3>1. PICK b : /\ Plan(norm, b) /\ b # <<>> /\ Rows!Accepts(norm, b, clock)
                   /\ norm' = Rows!Normalized(norm, b)
      BY <1>2, <2>1, NormalizePlan
    <3>2. state' = state
      BY <2>1 DEF Rows!Normalize
    <3>3. ASSUME Rows!TextsInOrder(norm'.facts) PROVE Canonical(norm')
      <4>1. Rows!TextsInOrder(Total(norm, b))
        BY <3>1, <3>3, NormalizedParts
      <4>2. Canonical(norm)
        BY <1>2, <3>1, <4>1, BeginningInOrder
      <4>3. Extends(norm, b)
        BY <3>1, <4>1, <4>2, AcceptedExtends DEF Rows!Accepts
      <4> QED
        BY <3>1, <4>3, CanonicalStep
    <3> QED
      BY <1>2, <3>2, <3>3
  <2>2. CASE norm' = norm /\ state' \in {norm, state}
    BY <1>2, <2>2
  <2>3. CASE norm' = state /\ state' = state
    BY <1>2, <2>3
  <2> QED
    BY <1>2, <2>1, <2>2, <2>3
    DEF Rows!Next, Rows!vars, Rows!Ingest, Rows!PublishState, Rows!Hydrate, Rows!Tick
<1>3. CanonicalInv => ReplayInOrder
  BY ReplayIs DEF ReplayInOrder, Rows!ReplayInOrder
<1>4. RowsInv /\ CanonicalInv /\ [Rows!Next]_(Rows!vars) => CanonicalInv'
  BY <1>2
<1> HIDE DEF CanonicalInv
<1> QED
  BY <1>1, <1>3, <1>4, RowsInvariant, PTL DEF Rows!Spec
=============================================================================
