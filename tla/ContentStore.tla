---------------------------- MODULE ContentStore ----------------------------
(***************************************************************************)
(* ContentAddressedStore of sentiment/storage.py: put_bytes makes an       *)
(* object visible with a hard link that never replaces, publish_bundle a   *)
(* whole directory with a rename that never replaces, after its payload    *)
(* files, its manifest and its directories are fsynced.  Writers are       *)
(* processes that may die at any step; a host crash may lose a directory   *)
(* entry that was not fsynced.                                             *)
(***************************************************************************)
EXTENDS Integers, FiniteSets

CONSTANTS
    Writers,
    Digests,        \* contents, named by their SHA-256
    Names,          \* publication ids
    Payloads,       \* how many payload files a bundle has
    None

VARIABLES
    \* The file system.
    object,         \* objects/sha256/<digest>: "absent", "torn" or "whole"
    objectSynced,   \* the digests whose directory entry is fsynced
    published,      \* publications/<name>: a bundle, or None
    publishedSynced,\* the names whose directory entry is fsynced
    \* The writers.
    pc,
    target,         \* the digest or the name the writer is at
    staged,         \* its staging directory, or None
    temporary,      \* its staged object: "absent", "torn" or "whole"
    raising,        \* an exception is on its way out of put_bytes
    \* History, read by the properties only.
    stored,         \* the digests put_bytes returned
    winner          \* the writer publish_bundle returned to, by name, or None

files  == <<object, objectSynced, published, publishedSynced>>
memory == <<target, staged, temporary, raising>>
vars   == <<files, pc, memory, stored, winner>>

\* A bundle: the payload files present, the manifest, and whether its
\* directory entries are fsynced.
Bundle == [author: Writers, payloads: 0..Payloads, manifest: BOOLEAN, synced: BOOLEAN]

ASSUME StoreAssumption ==
    /\ Payloads \in Nat \ {0}
    /\ None \notin Writers \cup Bundle

FileState == {"absent", "torn", "whole"}
Putting    == {"temporary", "write", "link", "sync_bucket", "verify_object", "unlink"}
Publishing == {"mkdir", "payload", "manifest", "sync_tree", "rename", "sync_parent",
               "verify", "cleanup"}

\* Every entry, bundle and writer of the store is typed.
TypeOK ==
    /\ object \in [Digests -> FileState]
    /\ objectSynced \subseteq Digests
    /\ published \in [Names -> Bundle \cup {None}]
    /\ publishedSynced \subseteq Names
    /\ pc \in [Writers -> {"idle"} \cup Putting \cup Publishing]
    /\ target \in [Writers -> Digests \cup Names \cup {None}]
    /\ staged \in [Writers -> Bundle \cup {None}]
    /\ temporary \in [Writers -> FileState]
    /\ raising \in [Writers -> BOOLEAN]
    /\ stored \subseteq Digests
    /\ winner \in [Names -> Writers \cup {None}]

Init ==
    /\ object = [d \in Digests |-> "absent"]
    /\ objectSynced = {}
    /\ published = [n \in Names |-> None]
    /\ publishedSynced = {}
    /\ pc = [w \in Writers |-> "idle"]
    /\ target = [w \in Writers |-> None]
    /\ staged = [w \in Writers |-> None]
    /\ temporary = [w \in Writers |-> "absent"]
    /\ raising = [w \in Writers |-> FALSE]
    /\ stored = {}
    /\ winner = [n \in Names |-> None]

Goto(w, phase) == pc' = [pc EXCEPT ![w] = phase]

\* The call ends: what is staged under its unique name is nobody's any more.
Leave(w) ==
    /\ Goto(w, "idle")
    /\ target' = [target EXCEPT ![w] = None]
    /\ staged' = [staged EXCEPT ![w] = None]
    /\ temporary' = [temporary EXCEPT ![w] = "absent"]
    /\ raising' = [raising EXCEPT ![w] = FALSE]

-----------------------------------------------------------------------------
\* put_bytes
PutBytes(w, d) ==
    /\ pc[w] = "idle"
    /\ target' = [target EXCEPT ![w] = d]
    /\ Goto(w, "temporary")
    /\ UNCHANGED <<files, staged, temporary, raising, stored, winner>>

CreateTemporary(w) ==
    /\ pc[w] = "temporary"
    /\ temporary' = [temporary EXCEPT ![w] = "torn"]
    /\ Goto(w, "write")
    /\ UNCHANGED <<files, target, staged, raising, stored, winner>>

WriteTemporary(w) ==
    /\ pc[w] = "write"
    /\ temporary' = [temporary EXCEPT ![w] = "whole"]
    /\ Goto(w, "link")
    /\ UNCHANGED <<files, target, staged, raising, stored, winner>>

\* os.link of the temporary file, which refuses an existing object; that one is
\* then only verified, not fsynced.
LinkObject(w) ==
    /\ pc[w] = "link"
    /\ IF object[target[w]] = "absent"
       THEN /\ object' = [object EXCEPT ![target[w]] = temporary[w]]
            /\ Goto(w, "sync_bucket")
       ELSE /\ Goto(w, "verify_object")
            /\ UNCHANGED object
    /\ UNCHANGED <<objectSynced, published, publishedSynced, memory, stored, winner>>

SyncBucket(w) ==
    /\ pc[w] = "sync_bucket"
    /\ objectSynced' = objectSynced \cup {target[w]}
    /\ Goto(w, "verify_object")
    /\ UNCHANGED <<object, published, publishedSynced, memory, stored, winner>>

VerifyObject(w) ==
    /\ pc[w] = "verify_object"
    /\ raising' = [raising EXCEPT ![w] = object[target[w]] # "whole"]
    /\ Goto(w, "unlink")
    /\ UNCHANGED <<files, target, staged, temporary, stored, winner>>

\* The finally clause unlinks the temporary file; then put_bytes returns, or the
\* exception goes on.
Unlink(w) ==
    /\ pc[w] = "unlink"
    /\ Leave(w)
    /\ stored' = IF raising[w] THEN stored ELSE stored \cup {target[w]}
    /\ UNCHANGED <<files, winner>>

\* A system call of put_bytes fails: the finally clause still unlinks, and if
\* that fails too nothing more happens.
PutFails(w) ==
    /\ \/ /\ pc[w] \in Putting \ {"unlink"}
          /\ raising' = [raising EXCEPT ![w] = TRUE]
          /\ Goto(w, "unlink")
          /\ UNCHANGED <<target, staged, temporary>>
       \/ pc[w] = "unlink" /\ Leave(w)
    /\ UNCHANGED <<files, stored, winner>>

-----------------------------------------------------------------------------
\* publish_bundle
PublishBundle(w, n) ==
    /\ pc[w] = "idle"
    /\ target' = [target EXCEPT ![w] = n]
    /\ Goto(w, "mkdir")
    /\ UNCHANGED <<files, staged, temporary, raising, stored, winner>>

\* A staging directory of a unique hidden name beside the publications.
MakeStaging(w) ==
    /\ pc[w] = "mkdir"
    /\ staged' = [staged EXCEPT ![w] =
           [author |-> w, payloads |-> 0, manifest |-> FALSE, synced |-> FALSE]]
    /\ Goto(w, "payload")
    /\ UNCHANGED <<files, target, temporary, raising, stored, winner>>

\* The payload files in sorted order, then manifest.json, each fsynced.
WritePayload(w) ==
    /\ pc[w] = "payload"
    /\ staged' = [staged EXCEPT ![w].payloads = @ + 1]
    /\ Goto(w, IF staged[w].payloads + 1 = Payloads THEN "manifest" ELSE "payload")
    /\ UNCHANGED <<files, target, temporary, raising, stored, winner>>

WriteManifest(w) ==
    /\ pc[w] = "manifest"
    /\ staged' = [staged EXCEPT ![w].manifest = TRUE]
    /\ Goto(w, "sync_tree")
    /\ UNCHANGED <<files, target, temporary, raising, stored, winner>>

\* Mutant of SyncTree: the staged tree is not fsynced.
SyncTree_skipped(w) ==
    /\ pc[w] = "sync_tree"
    /\ Goto(w, "rename")
    /\ UNCHANGED <<files, memory, stored, winner>>

SyncTree(w) ==
    /\ pc[w] = "sync_tree"
    /\ staged' = [staged EXCEPT ![w].synced = TRUE]
    /\ Goto(w, "rename")
    /\ UNCHANGED <<files, target, temporary, raising, stored, winner>>

\* The atomic rename that refuses an existing destination.
Rename(w) ==
    /\ pc[w] = "rename"
    /\ published[target[w]] = None
    /\ published' = [published EXCEPT ![target[w]] = staged[w]]
    /\ staged' = [staged EXCEPT ![w] = None]
    /\ Goto(w, "sync_parent")
    /\ UNCHANGED <<object, objectSynced, publishedSynced, target, temporary,
                   raising, stored, winner>>

Collide(w) ==
    /\ pc[w] = "rename"
    /\ published[target[w]] # None
    /\ Goto(w, "cleanup")
    /\ UNCHANGED <<files, memory, stored, winner>>

\* Mutant of SyncParent: publications/ is not fsynced.
SyncParent_skipped(w) ==
    /\ pc[w] = "sync_parent"
    /\ Goto(w, "verify")
    /\ UNCHANGED <<files, memory, stored, winner>>

\* The fsync of publications/, which makes every earlier rename durable too.
SyncParent(w) ==
    /\ pc[w] = "sync_parent"
    /\ publishedSynced' = {n \in Names : published[n] # None}
    /\ Goto(w, "verify")
    /\ UNCHANGED <<object, objectSynced, published, memory, stored, winner>>

\* read_publication: the manifest and exactly the files it names.
Verified(n) ==
    /\ published[n] # None
    /\ published[n].manifest
    /\ published[n].payloads = Payloads

VerifyPublication(w) ==
    /\ pc[w] = "verify"
    /\ winner' = IF Verified(target[w])
                 THEN [winner EXCEPT ![target[w]] = w] ELSE winner
    /\ Leave(w)
    /\ UNCHANGED <<files, stored>>

\* A failure before the rename removes the staging directory; one after it
\* raises and leaves the publication in place.
PublishFails(w) ==
    /\ \/ /\ pc[w] \in Publishing \ {"sync_parent", "verify", "cleanup"}
          /\ Goto(w, "cleanup")
          /\ UNCHANGED memory
       \/ /\ pc[w] \in {"sync_parent", "verify"}
          /\ Leave(w)
    /\ UNCHANGED <<files, stored, winner>>

\* _cleanup_staging_at; it swallows its own errors.
CleanUp(w) ==
    /\ pc[w] = "cleanup"
    /\ Leave(w)
    /\ UNCHANGED <<files, stored, winner>>

-----------------------------------------------------------------------------
\* The process dies; temporary files and staging directories stay, unreachable.
Kill(w) ==
    /\ pc[w] # "idle"
    /\ Leave(w)
    /\ UNCHANGED <<files, stored, winner>>

\* The host dies: any unsynced entry may be lost, and a bundle renamed before
\* its tree was synced may lose any part.
HostCrash ==
    /\ \E lost \in SUBSET (Digests \ objectSynced) :
          object' = [d \in Digests |-> IF d \in lost THEN "absent" ELSE object[d]]
    /\ objectSynced' = {d \in Digests : object'[d] # "absent"}
    /\ \E lost \in SUBSET (Names \ publishedSynced), left \in 0..Payloads, m \in BOOLEAN :
          published' = [n \in Names |->
              IF n \in lost \/ published[n] = None THEN None
              ELSE IF published[n].synced THEN published[n]
              ELSE [published[n] EXCEPT !.payloads = left, !.manifest = m]]
    /\ publishedSynced' = {n \in Names : published'[n] # None}
    /\ pc' = [w \in Writers |-> "idle"]
    /\ target' = [w \in Writers |-> None]
    /\ staged' = [w \in Writers |-> None]
    /\ temporary' = [w \in Writers |-> "absent"]
    /\ raising' = [w \in Writers |-> FALSE]
    /\ UNCHANGED <<stored, winner>>

Step(w) ==
    \/ \E d \in Digests : PutBytes(w, d)
    \/ CreateTemporary(w) \/ WriteTemporary(w) \/ LinkObject(w) \/ SyncBucket(w)
    \/ VerifyObject(w) \/ Unlink(w) \/ PutFails(w)
    \/ \E n \in Names : PublishBundle(w, n)
    \/ MakeStaging(w) \/ WritePayload(w) \/ WriteManifest(w) \/ SyncTree(w)
    \/ Rename(w) \/ Collide(w) \/ SyncParent(w) \/ VerifyPublication(w)
    \/ PublishFails(w) \/ CleanUp(w) \/ Kill(w)

Next == (\E w \in Writers : Step(w)) \/ HostCrash

Spec == Init /\ [][Next]_vars

-----------------------------------------------------------------------------
\* A name that shows anything shows a complete bundle, at every step of its
\* writer, beside any other writer, after any crash.
PublishedComplete == \A n \in Names : published[n] # None => Verified(n)

\* The publications implement a write-once store.
Store == INSTANCE WriteOnce WITH
    Contents <- Writers,
    value    <- [n \in Names |-> IF published[n] = None THEN None ELSE published[n].author],
    told     <- winner

\* publish_bundle, with races, failures and crashes, is a write-once register:
\* it returns to one writer per name, whose own bundle the name then shows for
\* ever, not the one of a writer it raced.
ImplementsWriteOnce == Store!Spec

\* Raw bytes are durably published before raw_published_at is recorded
\* (docs/phase2-batch-b.md:882): an object put_bytes returned for is synced.
RawPublicationDurable == stored \subseteq objectSynced
=============================================================================
