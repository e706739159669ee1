------------------------------ MODULE Structure ------------------------------
(***************************************************************************)
(* The structure of one room: the working tree its members edit, the       *)
(* snapshot viewers see, the trash and its purge (structure.ts,            *)
(* room-operations.ts, routes/structure-mutate.ts, jobs/trash-purge.ts and *)
(* the functions of migrations 004, 005, 029, 035, 049 and 050).           *)
(*                                                                         *)
(* A function of the database is one step.  One member is followed through *)
(* the requests of a workspace page: what it read, the revisions it sends, *)
(* the handler that reads again before it writes.  Its colleagues act with *)
(* revisions that are current, as a write with others changes nothing.     *)
(***************************************************************************)
EXTENDS Integers, FiniteSets, Sequences, SequencesExt

CONSTANTS
  Folder, Document,  \* ids; the entry of a folder or document has the same id
  Root,              \* parent_folder_id IS NULL
  MaxVersion,        \* versions uploaded per document
  MaxDepth           \* folder levels, five in the code

Entry == Folder \cup Document

ASSUME StructureAssumption ==
  /\ IsFiniteSet(Entry) /\ Folder \cap Document = {} /\ Root \notin Entry
  /\ MaxVersion \in Nat \ {0} /\ MaxDepth \in Nat \ {0}

VARIABLES
  unused,     \* ids createOpaqueId has not drawn yet
  rows,       \* working_structure_entry
  parent,     \* parent_folder_id
  staged,     \* staged_removed
  version,    \* per document and version: its document_version.state
  working,    \* working_version_id, 0 for NULL
  published,  \* published_structure_entry
  trash,      \* room_trash, the roots of one transaction together, oldest first
  due,        \* how many of these batches have reached purge_after
  objects,    \* sources in storage
  worker,     \* jobs/trash-purge.ts
  client      \* the member that is followed

treeVars == <<unused, rows, parent, staged>>
contentVars == <<version, working>>
trashVars == <<trash, due>>
vars == <<treeVars, contentVars, published, trashVars, objects, worker, client>>

Version == 1..MaxVersion
Source == Document \X Version
Hidden == [at |-> Root, version |-> -1]
Listing == [at : Folder \cup {Root}, version : -1..MaxVersion]

Free == [pc |-> "idle", root |-> Root, manifest |-> {}]
\* entry and from: the entry acted on and its parent as the page shows them, was: whether
\* it shows a removal; to, keep: the parent and the flag the handler will write.
\* behind and changed: working_revision, and the revision of the entry, have moved since
\* they were read; after a dry run, changed says what it showed is not what it would show.
Away == [pc |-> "away", entry |-> Root, from |-> Root, was |-> FALSE, to |-> Root,
         keep |-> FALSE, behind |-> FALSE, changed |-> FALSE]

TypeOK ==
  /\ unused \subseteq Entry /\ rows \subseteq Entry \ unused /\ staged \subseteq rows
  /\ parent \in [Entry -> Folder \cup {Root}]
  /\ version \in [Document -> [Version -> {"none", "quarantine", "ready"}]]
  /\ working \in [Document -> 0..MaxVersion]
  /\ published \in [Entry -> Listing]
  /\ trash \in Seq(SUBSET Entry) /\ due \in 0..Len(trash)
  /\ objects \subseteq Source
  /\ worker \in [pc : {"idle", "delete", "finalize"}, root : Entry \cup {Root},
                 manifest : SUBSET Source]
  /\ client \in [pc : {"away", "entries", "page", "write", "review"},
                 entry : Entry \cup {Root}, from : Folder \cup {Root}, was : BOOLEAN,
                 to : Folder \cup {Root}, keep : BOOLEAN, behind : BOOLEAN, changed : BOOLEAN]

-----------------------------------------------------------------------------
(* The tree.                                                                *)

\* Entries within n steps below the set S, along rows that are in R.
Descend(S, R) ==
  LET within[n \in 0..Cardinality(Entry)] ==
        IF n = 0 THEN S ELSE within[n - 1] \cup {e \in R : parent[e] \in within[n - 1]}
  IN within

Subtree(e) == Descend({e}, rows)[Cardinality(Entry)]

\* The entries reached from the root over entries that are not staged for removal.
Live == Descend({Root}, rows \ staged)[Cardinality(Entry)] \ {Root}

Level(e) == IF e = Root THEN 0
            ELSE CHOOSE n \in 1..Cardinality(Entry) :
                   e \in Descend({Root}, rows)[n] \ Descend({Root}, rows)[n - 1]

Height(e) ==
  LET below(n) == Descend({e}, (rows \ staged) \cap Folder)[n]
  IN Cardinality({n \in 1..Cardinality(Entry) : below(n) # below(n - 1)})

\* enforce_working_structure_integrity, on every insert and on every update that names the
\* parent or the flag, changed or not: live ancestors, no cycle, at most MaxDepth levels.
Fits(e, at) ==
  /\ at = Root \/ at \in Live \cap Folder
  /\ at \notin Subtree(e)
  /\ Level(at) + (IF e \in Folder THEN 1 + Height(e) ELSE 0) <= MaxDepth

-----------------------------------------------------------------------------
(* The snapshot and the trash.                                              *)

Listed == {e \in Entry : published[e] # Hidden}

\* version_has_publication_evidence
Ready(d, v) == v # 0 /\ version[d][v] = "ready"

\* Slip: every entry that is not itself staged is proposed.
SlipProposed ==
  [e \in Entry |-> IF e \notin rows \ staged THEN Hidden
                   ELSE IF e \in Folder THEN [at |-> parent[e], version |-> 0]
                   ELSE IF Ready(e, working[e]) THEN [at |-> parent[e], version |-> working[e]]
                   ELSE Hidden]

\* proposed_publication_snapshot
Proposed ==
  [e \in Entry |-> IF e \notin Live THEN Hidden
                   ELSE IF e \in Folder THEN [at |-> parent[e], version |-> 0]
                   ELSE IF Ready(e, working[e]) THEN [at |-> parent[e], version |-> working[e]]
                   ELSE Hidden]

Roots == UNION Range(trash)
Due == UNION {trash[i] : i \in 1..due}

\* place_entry_in_trash for each of S: a root that is in trash already is skipped.
Discard(S) == trash' = IF S \subseteq Roots THEN trash ELSE Append(trash, S \ Roots)

\* capture_draft_only_trash: nothing in the subtree is published.
DraftOnly(e) == Subtree(e) \cap Listed = {}

\* Slip: the row goes, the count of due batches stays.
SlipTakeOut(e) ==
  LET i == CHOOSE n \in 1..Len(trash) : e \in trash[n]
  IN /\ UNCHANGED due
     /\ trash' = IF trash[i] = {e} THEN RemoveAt(trash, i) ELSE [trash EXCEPT ![i] = @ \ {e}]

\* The row of e leaves the trash, and the batch with it when it was its last.
TakeOut(e) ==
  LET i == CHOOSE n \in 1..Len(trash) : e \in trash[n]
  IN IF trash[i] = {e}
     THEN trash' = RemoveAt(trash, i) /\ due' = IF i <= due THEN due - 1 ELSE due
     ELSE trash' = [trash EXCEPT ![i] = @ \ {e}] /\ UNCHANGED due

-----------------------------------------------------------------------------
(* Revisions.                                                               *)

\* What a change by somebody else does to the page of the client: changed entries carry a
\* new revision, and so does the room.  After a dry run any change to what would be
\* published, or to what is, counts.
Noticed(entries) ==
  client' = [client EXCEPT !.behind = TRUE,
               !.changed = @ \/ (IF client.pc = "review"
                                 THEN Proposed' # Proposed \/ published' # published
                                 ELSE client.entry \in entries)]

\* Slip: acceptance leaves working_revision alone.
SlipAcceptedQuietly ==
  client' = [client EXCEPT !.changed = @ \/ (client.pc = "review" /\ Proposed' # Proposed)]

AcceptanceNoticed == Noticed({})

\* Slip: a request is held to the room's revision only.
SlipFence == ~client.behind

\* expected_working_revision and expected_entry_revision
Fence == ~client.behind /\ ~client.changed

-----------------------------------------------------------------------------
(* What the functions of the database do, whoever calls them.               *)

\* mutate_structure_entry, with the trigger for drafts that are removed.
WriteEntry(e, at, remove) ==
  /\ e \in rows /\ Fits(e, at)
  /\ parent' = [parent EXCEPT ![e] = at]
  /\ staged' = IF remove THEN staged \cup {e} ELSE staged \ {e}
  /\ IF remove /\ e \notin staged /\ DraftOnly(e) THEN Discard({e}) ELSE UNCHANGED trash
  /\ UNCHANGED <<unused, rows, contentVars, published, due, objects, worker>>

\* restore_trash_entry: before the deadline, to a live folder or to the root.
WriteRestored(e, at) ==
  /\ e \in Roots \ Due /\ e \in staged /\ Fits(e, at)
  /\ parent' = [parent EXCEPT ![e] = at]
  /\ staged' = staged \ {e}
  /\ TakeOut(e)
  /\ UNCHANGED <<unused, rows, contentVars, published, objects, worker>>

\* publish_room_structure: every removal goes to the trash, and the snapshot is replaced.
WriteSnapshot ==
  /\ \A d \in Document \cap Live : working[d] # 0 => Ready(d, working[d])
  /\ Discard(staged)
  /\ published' = Proposed
  /\ UNCHANGED <<treeVars, contentVars, due, objects, worker>>

-----------------------------------------------------------------------------
(* Colleagues, and the worker that accepts a processed source.              *)

CreateFolder(e, at) ==
  /\ e \in Folder \cap unused /\ Fits(e, at)
  /\ unused' = unused \ {e} /\ rows' = rows \cup {e}
  /\ parent' = [parent EXCEPT ![e] = at]
  /\ UNCHANGED <<staged, contentVars, published, trashVars, objects, worker>>
  /\ Noticed({e})

MoveEntry(e, at) == WriteEntry(e, at, e \in staged) /\ Noticed({e})

StageRemoval(e) == WriteEntry(e, parent[e], TRUE) /\ Noticed({e})

RestoreTrash(e, at) == WriteRestored(e, at) /\ Noticed({e})

\* updateDocumentMetadata: no caller names a working version, and NULL is stored.
UpdateDocumentMetadata(d) ==
  /\ d \in rows
  /\ working' = [working EXCEPT ![d] = 0]
  /\ UNCHANGED <<treeVars, version, published, trashVars, objects, worker>>
  /\ Noticed({d})

ApplyBulkPublish == WriteSnapshot /\ Noticed({})

\* create_quarantined_document_version: a new document in a live folder,
UploadDocument(d, at) ==
  /\ d \in unused /\ Fits(d, at)
  /\ unused' = unused \ {d} /\ rows' = rows \cup {d}
  /\ parent' = [parent EXCEPT ![d] = at]
  /\ version' = [version EXCEPT ![d][1] = "quarantine"]
  /\ objects' = objects \cup {<<d, 1>>}
  /\ UNCHANGED <<staged, working, published, trashVars, worker>>
  /\ Noticed({d})

\* or another version of one that exists, in trash or not.
UploadVersion(d) ==
  /\ d \in rows
  /\ \E v \in Version \ {1} :
       /\ version[d][v] = "none" /\ version[d][v - 1] # "none"
       /\ version' = [version EXCEPT ![d][v] = "quarantine"]
       /\ objects' = objects \cup {<<d, v>>}
  /\ UNCHANGED <<treeVars, working, published, trashVars, worker, client>>

\* accept_processed_version: the version processed last is the working version.
AcceptVersion(d) ==
  /\ \E v \in Version :
       /\ version[d][v] = "quarantine"
       /\ version' = [version EXCEPT ![d][v] = "ready"]
       /\ working' = [working EXCEPT ![d] = v]
  /\ UNCHANGED <<treeVars, published, trashVars, objects, worker>>
  /\ AcceptanceNoticed

-----------------------------------------------------------------------------
(* The member that is followed.                                             *)

\* The workspace route runs its reads at once, on connections of their own: the revision
\* may be that of a later moment than the entries.  (An earlier one is only refused.)
ReadEntries ==
  /\ client.pc = "away"
  /\ \E e \in rows :
       client' = [Away EXCEPT !.pc = "entries", !.entry = e, !.from = parent[e],
                    !.was = e \in staged]
  /\ UNCHANGED <<treeVars, contentVars, published, trashVars, objects, worker>>

ReadRevision ==
  /\ client.pc = "entries"
  /\ client' = [client EXCEPT !.pc = "page", !.behind = FALSE]
  /\ UNCHANGED <<treeVars, contentVars, published, trashVars, objects, worker>>

\* Slip: a move clears the flag.
SlipKeeps(e) == FALSE

Keeps(e) == e \in staged

\* The handler reads the entry again: what it does not change, it writes back.  (Its key,
\* and the renumbering of siblings that may come first, are under the same revisions.)
SendMutation ==
  /\ client.pc = "page"
  /\ LET e == client.entry IN
     \/ /\ e \in rows
        /\ \/ \E to \in Folder \cup {Root} :                          \* move, reorder
                client' = [client EXCEPT !.pc = "write", !.to = to, !.keep = Keeps(e)]
           \/ client' = [client EXCEPT !.pc = "write", !.to = parent[e], !.keep = Keeps(e)]
           \/ client' = [client EXCEPT !.pc = "write", !.to = parent[e], !.keep = TRUE]
     \/ e \notin rows /\ client' = Away
  /\ UNCHANGED <<treeVars, contentVars, published, trashVars, objects, worker>>

MutateEntry ==
  /\ client.pc = "write" /\ Fence
  /\ WriteEntry(client.entry, client.to, client.keep)
  /\ client' = Away

\* dryRunBulkPublish reads the change and both revisions in one statement.
DryRunPublish ==
  /\ client.pc = "away"
  /\ client' = [Away EXCEPT !.pc = "review"]
  /\ UNCHANGED <<treeVars, contentVars, published, trashVars, objects, worker>>

\* publish_room_structure compares both revisions with those of the dry run.
PublishReviewed ==
  /\ client.pc = "review" /\ ~client.behind
  /\ WriteSnapshot
  /\ client' = Away

\* Refused, or given up.
LeavePage ==
  /\ client.pc # "away"
  /\ client' = Away
  /\ UNCHANGED <<treeVars, contentVars, published, trashVars, objects, worker>>

ClientStep ==
  \/ ReadEntries \/ ReadRevision \/ SendMutation \/ MutateEntry
  \/ DryRunPublish \/ PublishReviewed \/ LeavePage

-----------------------------------------------------------------------------
(* Thirty days, and the purge.                                              *)

ReachPurgeAfter ==
  /\ due < Len(trash)
  /\ due' = due + 1
  /\ UNCHANGED <<treeVars, contentVars, published, trash, objects, worker, client>>

Sources(S) == {s \in Source : s[1] \in S /\ version[s[1]][s[2]] # "none"}

\* begin_trash_purge reads the keys and locks nothing.
BeginTrashPurge ==
  /\ worker.pc = "idle"
  /\ \E e \in Due :
       worker' = [pc |-> "delete", root |-> e,
                  manifest |-> IF e \in rows THEN Sources(Subtree(e)) ELSE {}]
  /\ UNCHANGED <<treeVars, contentVars, published, trashVars, objects, client>>

\* A batch that fails leaves some of its objects deleted, and the job is tried again.
DeleteObjects ==
  /\ worker.pc = "delete"
  /\ \/ objects' = objects \ worker.manifest /\ worker' = [worker EXCEPT !.pc = "finalize"]
     \/ \E some \in SUBSET worker.manifest : objects' = objects \ some /\ worker' = Free
  /\ UNCHANGED <<treeVars, contentVars, published, trashVars, client>>

Purged(e) == IF e \in rows THEN Subtree(e) ELSE {}

\* finalize_trash_purge works from the rows as they are now.
FinalizeTrashPurge ==
  /\ worker.pc = "finalize"
  /\ LET gone == Purged(worker.root) IN
     /\ rows' = rows \ gone /\ staged' = staged \ gone
     /\ parent' = [e \in Entry |-> IF e \in gone THEN Root ELSE parent[e]]
     /\ version' = [d \in Document |-> IF d \in gone THEN [v \in Version |-> "none"]
                                       ELSE version[d]]
     /\ working' = [d \in Document |-> IF d \in gone THEN 0 ELSE working[d]]
     /\ ~ \E d \in gone \cap Document : published[d].version > 0   \* its foreign key
  /\ TakeOut(worker.root)
  /\ worker' = Free
  /\ UNCHANGED <<unused, published, objects, client>>

\* A statement fails, the worker dies or its lease is lost: the job runs again.
AbandonPurge ==
  /\ worker.pc # "idle"
  /\ worker' = Free
  /\ UNCHANGED <<treeVars, contentVars, published, trashVars, objects, client>>

PurgeStep == BeginTrashPurge \/ DeleteObjects \/ FinalizeTrashPurge \/ AbandonPurge

-----------------------------------------------------------------------------
Init ==
  /\ unused = Entry /\ rows = {} /\ staged = {}
  /\ parent = [e \in Entry |-> Root]
  /\ version = [d \in Document |-> [v \in Version |-> "none"]]
  /\ working = [d \in Document |-> 0]
  /\ published = [e \in Entry |-> Hidden]
  /\ trash = <<>> /\ due = 0 /\ objects = {}
  /\ worker = Free /\ client = Away

ColleagueStep ==
  \/ \E e \in Entry, at \in Folder \cup {Root} :
       CreateFolder(e, at) \/ MoveEntry(e, at) \/ RestoreTrash(e, at)
  \/ \E e \in Entry : StageRemoval(e)
  \/ \E d \in Document :
       \/ UpdateDocumentMetadata(d) \/ UploadVersion(d) \/ AcceptVersion(d)
       \/ \E at \in Folder \cup {Root} : UploadDocument(d, at)
  \/ ApplyBulkPublish

Next == ColleagueStep \/ ClientStep \/ ReachPurgeAfter \/ PurgeStep

Spec == Init /\ [][Next]_vars

-----------------------------------------------------------------------------
(* Properties.                                                              *)

\* Moves, removals, restores and purges, some of them at once, leave no entry that the
\* root does not reach, in a cycle or below a folder that is gone, and no entry of the
\* tree that is too deep.
TreeWhole ==
  /\ rows \subseteq Descend({Root}, rows)[Cardinality(Entry)]
  /\ \A e \in Live \cap Folder : Level(e) <= MaxDepth

\* Whatever was moved, removed or purged since it was published, a snapshot lists no entry
\* without its folder, and no document without the version that viewers read.
PublishedWhole ==
  \A e \in Listed :
    /\ published[e].at # Root => published[e].at \in Listed
    /\ e \in rows /\ (e \in Document => Ready(e, published[e].version))

\* The removal of something that viewers still see, itself or below it, is not in trash:
\* its thirty days have not begun and no purge fails on it.
TrashUnpublished == \A e \in Roots \cap rows : Subtree(e) \cap Listed = {}

\* However moves, publications, removals, restores and purges follow each other, the room
\* stays whole: its tree, what viewers see of it, and its trash.
RoomWhole == TreeWhole /\ PublishedWhole /\ TrashUnpublished

\* A root of the trash stays a removal until it is restored or purged: no move, rename or
\* reorder that was under way brings it back while its purge is scheduled.
RemovalStands == Roots \cap rows \subseteq staged

\* What a manager publishes is what the dry run listed: nothing that happens in between,
\* the acceptance of a processed source included, changes it unnoticed.
PublishedAsReviewed ==
  [][published' # published /\ client.pc = "review" /\ client'.pc = "away"
       => ~client.changed]_vars

\* A request writes to an entry as its page showed it: the page's three reads and the
\* handler's own are not of one moment, and neither revision covers that alone.
WrittenAsSeen ==
  [][client.pc = "write" /\ client'.pc = "away" /\ (parent' # parent \/ staged' # staged)
       => parent[client.entry] = client.from /\ (client.entry \in staged) = client.was]_vars

\* Documented, and not kept: what is in trash is kept for its own thirty days, also when a
\* folder went into trash around it.
RetentionKept == [][Roots \cap (rows \ rows') \subseteq Due]_vars

\* Documented, and not kept: an edit of a document's title and description leaves the
\* version that the next publication would show.
EditKeepsVersion == [][\A d \in rows' \cap Document : working[d] # 0 => working'[d] # 0]_vars

=============================================================================
