--------------------------- MODULE StructureProofs ---------------------------
(***************************************************************************)
(* Theorems about Structure for any number of folders, documents, versions *)
(* and levels: its types, that what is in trash stays a removal, that the  *)
(* two revisions make a write a write of what was seen, and that the room  *)
(* stays whole.  The last needs induction along the tree: Descend is       *)
(* unfolded by induction over a set of numbers, and from there on the tree *)
(* is given by the level of every row.                                     *)
(***************************************************************************)
EXTENDS Structure, SequenceTheorems, FiniteSetTheorems, WellFoundedInduction, TLAPS

-----------------------------------------------------------------------------
(* The invariants.                                                          *)

\* No id is in two batches of the trash, only ids that were drawn are, and a purge at work
\* is of a root whose deadline has passed.
TrashSound ==
  /\ \A i, j \in 1..Len(trash) : i # j => trash[i] \cap trash[j] = {}
  /\ Roots \cap unused = {}
  /\ worker.pc # "idle" => worker.root \in Due

\* As long as the entry carries the revision that was read it is where the page shows it, and
\* the handler, which reads it again, does not write a removal away.
PageSound ==
  client.pc \in {"entries", "page", "write"} =>
    /\ client.entry \in Entry \ unused
    /\ ~client.changed /\ client.entry \in rows =>
         /\ parent[client.entry] = client.from
         /\ (client.entry \in staged) = client.was
         /\ client.pc = "write" /\ client.entry \in staged => client.keep

\* What would change a dry run's result has moved the room's revision as well.
ReviewSound == client.pc = "review" /\ client.changed => client.behind

StructureInv == TrashSound /\ PageSound /\ ReviewSound /\ RemovalStands

-----------------------------------------------------------------------------
(* The trash as a sequence of batches.                                      *)

LEMMA RootsAre ==
  ASSUME trash \in Seq(SUBSET Entry)
  PROVE  \A e : e \in Roots <=> \E i \in 1..Len(trash) : e \in trash[i]
<1>1. DOMAIN trash = 1..Len(trash)
  OBVIOUS
<1> QED BY <1>1 DEF Roots, Range

LEMMA NextRootsAre ==
  ASSUME trash' \in Seq(SUBSET Entry)
  PROVE  \A e : e \in Roots' <=> \E i \in 1..Len(trash') : e \in trash'[i]
<1>1. DOMAIN trash' = 1..Len(trash')
  OBVIOUS
<1> QED BY <1>1 DEF Roots, Range

LEMMA OneBatchLess ==
  ASSUME NEW X, NEW s \in Seq(X), NEW i \in 1..Len(s)
  PROVE  /\ RemoveAt(s, i) \in Seq(X) /\ Len(RemoveAt(s, i)) = Len(s) - 1
         /\ \A n \in 1..Len(s) - 1 : RemoveAt(s, i)[n] = IF n < i THEN s[n] ELSE s[n + 1]
<1> DEFINE a == SubSeq(s, 1, i - 1)
           b == SubSeq(s, i + 1, Len(s))
<1>1. Len(s) \in Nat /\ i \in Nat /\ i >= 1 /\ i <= Len(s)
  OBVIOUS
<1>2. a \in Seq(X) /\ Len(a) = i - 1 /\ \A n \in 1..i - 1 : a[n] = s[n]
  BY <1>1
<1>3. b \in Seq(X) /\ Len(b) = Len(s) - i /\ \A n \in 1..Len(s) - i : b[n] = s[n + i]
  BY <1>1
<1>4. RemoveAt(s, i) = a \o b
  BY DEF RemoveAt
<1> HIDE DEF a, b
<1>5. a \o b \in Seq(X) /\ Len(a \o b) = Len(s) - 1
  <2>1. a \o b \in Seq(X) /\ Len(a \o b) = Len(a) + Len(b)
    BY <1>2, <1>3, ConcatProperties
  <2> QED BY <1>1, <1>2, <1>3, <2>1
<1>6. ASSUME NEW n \in 1..Len(s) - 1
      PROVE  (a \o b)[n] = IF n < i THEN s[n] ELSE s[n + 1]
  <2>1. CASE n < i
    BY <1>1, <1>2, <1>3, <2>1
  <2>2. CASE ~(n < i)
    <3>1. (a \o b)[n] = b[n - (i - 1)]
      BY <1>1, <1>2, <1>3, <2>2
    <3>2. n - (i - 1) \in 1..Len(s) - i /\ n - (i - 1) + i = n + 1
      BY <1>1, <2>2
    <3> QED BY <1>3, <2>2, <3>1, <3>2
  <2> QED BY <2>1, <2>2
<1> QED BY <1>4, <1>5, <1>6

\* place_entry_in_trash: the ids go to the end, each of them once.
LEMMA Discarded ==
  ASSUME trash \in Seq(SUBSET Entry), due \in 0..Len(trash),
         \A i, j \in 1..Len(trash) : i # j => trash[i] \cap trash[j] = {},
         NEW S \in SUBSET Entry, Discard(S)
  PROVE  /\ trash' \in Seq(SUBSET Entry) /\ due \in 0..Len(trash')
         /\ \A i, j \in 1..Len(trash') : i # j => trash'[i] \cap trash'[j] = {}
         /\ Roots' = Roots \cup S
         /\ \A i \in 1..due : trash'[i] = trash[i]
<1>1. CASE S \subseteq Roots
  <2>1. trash' = trash
    BY <1>1 DEF Discard
  <2> QED BY <1>1, <2>1 DEF Roots
<1>2. CASE ~(S \subseteq Roots)
  <2> DEFINE batch == S \ Roots
  <2>1. trash' = Append(trash, batch)
    BY <1>2 DEF Discard
  <2>2. batch \in SUBSET Entry
    OBVIOUS
  <2> HIDE DEF batch
  <2>3. /\ trash' \in Seq(SUBSET Entry) /\ Len(trash') = Len(trash) + 1
        /\ \A i \in 1..Len(trash) : trash'[i] = trash[i]
        /\ trash'[Len(trash) + 1] = batch
    BY <2>1, <2>2
  <2>4. \A i \in 1..Len(trash) : trash[i] \cap batch = {}
    BY RootsAre DEF batch
  <2>5. Len(trash) \in Nat /\ \A i \in 1..Len(trash') : i \in 1..Len(trash) \/ i = Len(trash) + 1
    BY <2>3
  <2>6. \A i, j \in 1..Len(trash') : i # j => trash'[i] \cap trash'[j] = {}
    BY <2>3, <2>4, <2>5
  <2>7. \A e : e \in Roots' <=> e \in Roots \cup batch
    <3>1. \A e : (\E i \in 1..Len(trash') : e \in trash'[i])
                   <=> (\E i \in 1..Len(trash) : e \in trash[i]) \/ e \in batch
      BY <2>3, <2>5
    <3> QED BY <2>3, <3>1, RootsAre, NextRootsAre
  <2> QED BY <2>3, <2>5, <2>6, <2>7 DEF batch
<1> QED BY <1>1, <1>2

\* A root leaves the trash, and the batches before its deadline keep theirs.
LEMMA TakenOut ==
  ASSUME trash \in Seq(SUBSET Entry), due \in 0..Len(trash),
         \A i, j \in 1..Len(trash) : i # j => trash[i] \cap trash[j] = {},
         NEW e \in Roots, TakeOut(e)
  PROVE  /\ trash' \in Seq(SUBSET Entry) /\ due' \in 0..Len(trash')
         /\ \A i, j \in 1..Len(trash') : i # j => trash'[i] \cap trash'[j] = {}
         /\ Roots' = Roots \ {e}
         /\ e \notin Due => due' = due /\ \A i \in 1..due : trash'[i] = trash[i]
<1> DEFINE i == CHOOSE n \in 1..Len(trash) : e \in trash[n]
<1>1. i \in 1..Len(trash) /\ e \in trash[i]
  BY RootsAre
<1>2. IF trash[i] = {e}
      THEN trash' = RemoveAt(trash, i) /\ due' = IF i <= due THEN due - 1 ELSE due
      ELSE trash' = [trash EXCEPT ![i] = @ \ {e}] /\ due' = due
  BY DEF TakeOut
<1> HIDE DEF i
<1>3. \A n \in 1..Len(trash) : n # i => e \notin trash[n]
  BY <1>1
<1>4. e \notin Due => i > due
  BY <1>1 DEF Due
<1>5. Len(trash) \in Nat /\ due \in Nat /\ i \in Nat
  BY <1>1
<1>6. CASE trash[i] = {e}
  <2>0. /\ RemoveAt(trash, i) \in Seq(SUBSET Entry)
        /\ Len(RemoveAt(trash, i)) = Len(trash) - 1
        /\ \A n \in 1..Len(trash) - 1 :
             RemoveAt(trash, i)[n] = IF n < i THEN trash[n] ELSE trash[n + 1]
    BY <1>1, OneBatchLess
  <2>1. /\ trash' \in Seq(SUBSET Entry) /\ Len(trash') = Len(trash) - 1
        /\ \A n \in 1..Len(trash) - 1 : trash'[n] = IF n < i THEN trash[n] ELSE trash[n + 1]
        /\ due' = IF i <= due THEN due - 1 ELSE due
    BY <1>2, <1>6, <2>0
  <2>2. due' \in 0..Len(trash')
    BY <1>1, <1>5, <2>1
  <2>3. \A n, m \in 1..Len(trash') : n # m => trash'[n] \cap trash'[m] = {}
    <3> DEFINE old(n) == IF n < i THEN n ELSE n + 1
    <3>1. \A n \in 1..Len(trash') : old(n) \in 1..Len(trash) /\ trash'[n] = trash[old(n)]
      BY <1>1, <1>5, <2>1
    <3>2. \A n, m \in 1..Len(trash') : n # m => old(n) # old(m)
      BY <1>5, <2>1
    <3> HIDE DEF old
    <3> QED BY <3>1, <3>2
  <2>4. \A x : x \in Roots' <=> x \in Roots \ {e}
    <3>1. ASSUME NEW x, NEW n \in 1..Len(trash'), x \in trash'[n]
          PROVE  x \in Roots \ {e}
      BY <1>1, <1>3, <1>5, <2>1, <3>1, RootsAre
    <3>2. ASSUME NEW x \in Roots, x # e
          PROVE  \E n \in 1..Len(trash') : x \in trash'[n]
      <4>1. PICK n \in 1..Len(trash) : x \in trash[n]
        BY <3>2, RootsAre
      <4>2. n # i
        BY <1>6, <3>2, <4>1
      <4>3. CASE n < i
        BY <1>1, <1>5, <2>1, <4>1, <4>3
      <4>4. CASE n > i
        <5>1. n - 1 \in 1..Len(trash') /\ trash'[n - 1] = trash[n]
          BY <1>1, <1>5, <2>1, <4>4
        <5> QED BY <4>1, <5>1
      <4> QED BY <1>5, <4>2, <4>3, <4>4
    <3> QED BY <2>1, <3>1, <3>2, NextRootsAre
  <2>5. e \notin Due => due' = due /\ \A n \in 1..due : trash'[n] = trash[n]
    BY <1>1, <1>4, <1>5, <2>1
  <2> QED BY <2>1, <2>2, <2>3, <2>4, <2>5
<1>7. CASE trash[i] # {e}
  <2>1. /\ trash' \in Seq(SUBSET Entry) /\ Len(trash') = Len(trash) /\ due' = due
        /\ trash'[i] = trash[i] \ {e}
        /\ \A n \in 1..Len(trash) : n # i => trash'[n] = trash[n]
    BY <1>1, <1>2, <1>7
  <2>2. \A n \in 1..Len(trash) : trash'[n] = trash[n] \ {e}
    BY <1>3, <2>1
  <2>3. \A n, m \in 1..Len(trash') : n # m => trash'[n] \cap trash'[m] = {}
    BY <2>1, <2>2
  <2>4. \A x : x \in Roots' <=> x \in Roots \ {e}
    BY <2>1, <2>2, RootsAre, NextRootsAre
  <2>5. e \notin Due => \A n \in 1..due : trash'[n] = trash[n]
    BY <1>4, <1>5, <2>1
  <2> QED BY <2>1, <2>3, <2>4, <2>5
<1> QED BY <1>6, <1>7

-----------------------------------------------------------------------------
(* Types.                                                                   *)

Clients ==
  [pc : {"away", "entries", "page", "write", "review"},
   entry : Entry \cup {Root}, from : Folder \cup {Root}, was : BOOLEAN,
   to : Folder \cup {Root}, keep : BOOLEAN, behind : BOOLEAN, changed : BOOLEAN]

Workers == [pc : {"idle", "delete", "finalize"}, root : Entry \cup {Root}, manifest : SUBSET Source]

\* TypeOK without the member that is followed.
RoomTyped ==
  /\ unused \subseteq Entry /\ rows \subseteq Entry \ unused /\ staged \subseteq rows
  /\ parent \in [Entry -> Folder \cup {Root}]
  /\ version \in [Document -> [Version -> {"none", "quarantine", "ready"}]]
  /\ working \in [Document -> 0..MaxVersion]
  /\ published \in [Entry -> Listing]
  /\ trash \in Seq(SUBSET Entry) /\ due \in 0..Len(trash)
  /\ objects \subseteq Source
  /\ worker \in Workers

LEMMA TypesSplit == TypeOK <=> RoomTyped /\ client \in Clients
BY DEF TypeOK, RoomTyped, Clients, Workers

LEMMA NextTypesSplit == (TypeOK <=> RoomTyped /\ client \in Clients)'
BY TypesSplit, PTL

LEMMA ConstantsTyped ==
  ASSUME StructureAssumption
  PROVE  /\ MaxVersion \in Nat /\ 1 \in Version /\ Version \subseteq 0..MaxVersion
         /\ Folder \subseteq Entry /\ Document \subseteq Entry /\ Entry \ Folder = Document
BY DEF StructureAssumption, Entry, Version

LEMMA ProposedTyped ==
  ASSUME StructureAssumption, TypeOK
  PROVE  Proposed \in [Entry -> Listing]
<1>1. Hidden \in Listing
  BY ConstantsTyped DEF Hidden, Listing
<1>2. \A e \in Entry : [at |-> parent[e], version |-> 0] \in Listing
  BY ConstantsTyped DEF Listing, TypeOK
<1>3. \A d \in Document : [at |-> parent[d], version |-> working[d]] \in Listing
  BY ConstantsTyped DEF Listing, TypeOK
<1>4. \A e \in Entry : e \notin Folder => e \in Document
  BY ConstantsTyped
<1> QED BY <1>1, <1>2, <1>3, <1>4 DEF Proposed

\* What a change by somebody else leaves of the page.
LEMMA NoticedIs ==
  ASSUME client \in Clients, NEW S, Noticed(S)
  PROVE  /\ client' \in Clients /\ client'.pc = client.pc /\ client'.behind
         /\ client'.entry = client.entry /\ client'.from = client.from
         /\ client'.was = client.was /\ client'.keep = client.keep
         /\ client'.changed = (client.changed \/ (IF client.pc = "review"
                                                  THEN Proposed' # Proposed \/ published' # published
                                                  ELSE client.entry \in S))
<1> DEFINE c == client.changed \/ (IF client.pc = "review"
                                   THEN Proposed' # Proposed \/ published' # published
                                   ELSE client.entry \in S)
<1>1. client' = [[client EXCEPT !.behind = TRUE] EXCEPT !.changed = c]
  BY DEF Noticed, Clients
<1>2. c \in BOOLEAN
  BY DEF Clients
<1> HIDE DEF c
<1>3. /\ client' \in Clients /\ client'.pc = client.pc /\ client'.behind
      /\ client'.entry = client.entry /\ client'.from = client.from
      /\ client'.was = client.was /\ client'.keep = client.keep /\ client'.changed = c
  BY <1>1, <1>2 DEF Clients
<1> QED BY <1>3 DEF c

\* The steps of colleagues, in the three ways they write the tree and the trash, and those
\* that leave both alone.
Drawn(e, at) ==
  \/ CreateFolder(e, at)
  \/ e \in Document /\ UploadDocument(e, at)

LEMMA DrawnTyped ==
  ASSUME StructureAssumption, TypeOK, NEW e \in Entry, NEW at \in Folder \cup {Root},
         Drawn(e, at)
  PROVE  /\ RoomTyped' /\ e \in unused /\ rows' = rows \cup {e} /\ unused' = unused \ {e}
         /\ staged' = staged /\ trash' = trash /\ due' = due /\ worker' = worker
         /\ parent' = [parent EXCEPT ![e] = at] /\ Noticed({e})
<1>1. /\ e \in unused /\ rows' = rows \cup {e} /\ unused' = unused \ {e}
      /\ staged' = staged /\ trash' = trash /\ due' = due /\ worker' = worker
      /\ parent' = [parent EXCEPT ![e] = at] /\ Noticed({e})
      /\ working' = working /\ published' = published
  BY DEF Drawn, CreateFolder, UploadDocument, contentVars, trashVars
<1>2. CASE CreateFolder(e, at)
  BY <1>1, <1>2 DEF CreateFolder, contentVars, RoomTyped, TypeOK, Workers
<1>3. CASE e \in Document /\ UploadDocument(e, at)
  <2>1. /\ version' = [version EXCEPT ![e] = [version[e] EXCEPT ![1] = "quarantine"]]
        /\ objects' = objects \cup {<<e, 1>>}
    BY <1>3 DEF UploadDocument, TypeOK
  <2>2. version' \in [Document -> [Version -> {"none", "quarantine", "ready"}]]
    BY <1>3, <2>1, ConstantsTyped DEF TypeOK
  <2>3. objects' \subseteq Source
    BY <1>3, <2>1, ConstantsTyped DEF TypeOK, Source
  <2> QED BY <1>1, <2>2, <2>3 DEF RoomTyped, TypeOK, Workers
<1> QED BY <1>1, <1>2, <1>3 DEF Drawn

\* What every write of the tree leaves of the trash.
TrashKept ==
  /\ \A i, j \in 1..Len(trash') : i # j => trash'[i] \cap trash'[j] = {}
  /\ due' = due /\ worker' = worker /\ \A i \in 1..due : trash'[i] = trash[i]

LEMMA WrittenTyped ==
  ASSUME StructureAssumption, TypeOK, TrashSound, NEW e \in Entry, NEW at \in Folder \cup {Root},
         NEW remove \in BOOLEAN, WriteEntry(e, at, remove)
  PROVE  /\ RoomTyped' /\ TrashKept
         /\ e \in rows /\ unused' = unused /\ rows' = rows /\ published' = published
         /\ parent' = [parent EXCEPT ![e] = at]
         /\ staged' = IF remove THEN staged \cup {e} ELSE staged \ {e}
         /\ Roots' \subseteq Roots \cup {e} /\ (~remove => Roots' = Roots)
<1>1. /\ e \in rows /\ unused' = unused /\ rows' = rows /\ published' = published
      /\ parent' = [parent EXCEPT ![e] = at]
      /\ staged' = IF remove THEN staged \cup {e} ELSE staged \ {e}
      /\ due' = due /\ worker' = worker
      /\ UNCHANGED <<version, working, objects>>
  BY DEF WriteEntry, contentVars
<1>2. trash' = trash \/ (remove /\ Discard({e}))
  BY DEF WriteEntry
<1>3. /\ trash' \in Seq(SUBSET Entry) /\ due \in 0..Len(trash')
      /\ \A i, j \in 1..Len(trash') : i # j => trash'[i] \cap trash'[j] = {}
      /\ Roots' \subseteq Roots \cup {e}
      /\ \A i \in 1..due : trash'[i] = trash[i]
  <2>1. CASE trash' = trash
    BY <2>1 DEF Roots, TrashSound, TypeOK
  <2>2. CASE Discard({e})
    BY <2>2, Discarded DEF TrashSound, TypeOK
  <2> QED BY <1>2, <2>1, <2>2
<1>4. ~remove => Roots' = Roots
  BY <1>2 DEF Roots
<1>5. RoomTyped'
  <2>1. staged' \subseteq rows
    BY <1>1 DEF TypeOK
  <2>2. parent' \in [Entry -> Folder \cup {Root}]
    BY <1>1 DEF TypeOK
  <2> QED BY <1>1, <1>3, <2>1, <2>2 DEF RoomTyped, TypeOK, Workers
<1> QED BY <1>1, <1>3, <1>4, <1>5 DEF TrashKept

LEMMA RestoredTyped ==
  ASSUME StructureAssumption, TypeOK, TrashSound, NEW e \in Entry, NEW at \in Folder \cup {Root},
         WriteRestored(e, at)
  PROVE  /\ RoomTyped' /\ TrashKept
         /\ unused' = unused /\ rows' = rows /\ published' = published
         /\ parent' = [parent EXCEPT ![e] = at] /\ staged' = staged \ {e}
         /\ Roots' = Roots \ {e}
<1>1. /\ e \in Roots /\ e \notin Due /\ TakeOut(e)
      /\ unused' = unused /\ rows' = rows /\ published' = published
      /\ parent' = [parent EXCEPT ![e] = at] /\ staged' = staged \ {e}
      /\ worker' = worker /\ UNCHANGED <<version, working, objects>>
  BY DEF WriteRestored, contentVars
<1>2. /\ trash' \in Seq(SUBSET Entry) /\ due' \in 0..Len(trash')
      /\ \A i, j \in 1..Len(trash') : i # j => trash'[i] \cap trash'[j] = {}
      /\ Roots' = Roots \ {e}
      /\ due' = due /\ \A i \in 1..due : trash'[i] = trash[i]
  BY <1>1, TakenOut DEF TrashSound, TypeOK
<1>3. RoomTyped'
  <2>1. parent' \in [Entry -> Folder \cup {Root}] /\ staged' \subseteq rows
    BY <1>1 DEF TypeOK
  <2> QED BY <1>1, <1>2, <2>1 DEF RoomTyped, TypeOK, Workers
<1> QED BY <1>1, <1>2, <1>3 DEF TrashKept

LEMMA SnapshotTyped ==
  ASSUME StructureAssumption, TypeOK, TrashSound, WriteSnapshot
  PROVE  /\ RoomTyped' /\ TrashKept
         /\ unused' = unused /\ rows' = rows /\ parent' = parent /\ staged' = staged
         /\ published' = Proposed /\ Roots' = Roots \cup staged
<1>1. /\ unused' = unused /\ rows' = rows /\ parent' = parent /\ staged' = staged
      /\ published' = Proposed /\ due' = due /\ worker' = worker /\ Discard(staged)
      /\ UNCHANGED <<version, working, objects>>
  BY DEF WriteSnapshot, treeVars, contentVars
<1>2. staged \in SUBSET Entry
  BY DEF TypeOK
<1>3. /\ trash' \in Seq(SUBSET Entry) /\ due \in 0..Len(trash')
      /\ \A i, j \in 1..Len(trash') : i # j => trash'[i] \cap trash'[j] = {}
      /\ Roots' = Roots \cup staged
      /\ \A i \in 1..due : trash'[i] = trash[i]
  BY <1>1, <1>2, Discarded DEF TrashSound, TypeOK
<1>4. RoomTyped'
  BY <1>1, <1>3, ProposedTyped DEF RoomTyped, TypeOK, Workers
<1> QED BY <1>1, <1>3, <1>4 DEF TrashKept

\* What an edit, an upload of a version or an acceptance leaves: the tree and the trash.
ContentStep ==
  \E d \in Document : UpdateDocumentMetadata(d) \/ UploadVersion(d) \/ AcceptVersion(d)

LEMMA ContentTyped ==
  ASSUME StructureAssumption, TypeOK, ContentStep
  PROVE  /\ RoomTyped' /\ UNCHANGED <<treeVars, published, trash, due, worker>>
         /\ (\E d \in Document : Noticed({d})) \/ Noticed({}) \/ client' = client
<1>1. PICK d \in Document : UpdateDocumentMetadata(d) \/ UploadVersion(d) \/ AcceptVersion(d)
  BY DEF ContentStep
<1>2. /\ UNCHANGED <<treeVars, published, trash, due, worker>>
      /\ Noticed({d}) \/ Noticed({}) \/ client' = client
  BY <1>1 DEF UpdateDocumentMetadata, UploadVersion, AcceptVersion, AcceptanceNoticed, trashVars
<1>3. /\ version' \in [Document -> [Version -> {"none", "quarantine", "ready"}]]
      /\ working' \in [Document -> 0..MaxVersion] /\ objects' \subseteq Source
  <2>1. CASE UpdateDocumentMetadata(d)
    BY <2>1, ConstantsTyped DEF UpdateDocumentMetadata, TypeOK
  <2>2. CASE UploadVersion(d)
    <3>1. PICK v \in Version \ {1} :
            /\ version' = [version EXCEPT ![d][v] = "quarantine"]
            /\ objects' = objects \cup {<<d, v>>}
      BY <2>2 DEF UploadVersion
    <3>2. version' = [version EXCEPT ![d] = [version[d] EXCEPT ![v] = "quarantine"]]
      BY <3>1 DEF TypeOK
    <3>3. version' \in [Document -> [Version -> {"none", "quarantine", "ready"}]]
      BY <3>2 DEF TypeOK
    <3> QED BY <2>2, <3>1, <3>3 DEF UploadVersion, TypeOK, Source
  <2>3. CASE AcceptVersion(d)
    <3>1. PICK v \in Version : /\ version' = [version EXCEPT ![d][v] = "ready"]
                               /\ working' = [working EXCEPT ![d] = v]
      BY <2>3 DEF AcceptVersion
    <3>2. version' = [version EXCEPT ![d] = [version[d] EXCEPT ![v] = "ready"]]
      BY <3>1 DEF TypeOK
    <3>3. version' \in [Document -> [Version -> {"none", "quarantine", "ready"}]]
      BY <3>2 DEF TypeOK
    <3> QED BY <2>3, <3>1, <3>3, ConstantsTyped DEF AcceptVersion, TypeOK
  <2> QED BY <1>1, <2>1, <2>2, <2>3
<1> QED BY <1>2, <1>3 DEF RoomTyped, TypeOK, Workers, treeVars

\* The purge: only its last step touches rows and trash.
LEMMA PurgeTyped ==
  ASSUME StructureAssumption, TypeOK,
         BeginTrashPurge \/ DeleteObjects \/ AbandonPurge \/ ReachPurgeAfter
  PROVE  /\ RoomTyped' /\ UNCHANGED <<treeVars, published, trash, client>>
         /\ due' \in {due, due + 1}
         /\ worker'.pc # "idle" =>
              worker'.root \in Due \/ (worker.pc # "idle" /\ worker'.root = worker.root)
<1>1. UNCHANGED <<treeVars, contentVars, published, trash, client>>
  BY DEF BeginTrashPurge, DeleteObjects, AbandonPurge, ReachPurgeAfter, trashVars
<1>2. Len(trash) \in Nat /\ due' \in {due, due + 1} /\ due' \in 0..Len(trash)
  BY DEF BeginTrashPurge, DeleteObjects, AbandonPurge, ReachPurgeAfter, trashVars, TypeOK
<1>3. Free \in Workers /\ Free.pc = "idle"
  BY DEF Free, Workers
<1>4. /\ worker' \in Workers /\ objects' \subseteq objects
      /\ worker'.pc # "idle" =>
           worker'.root \in Due \/ (worker.pc # "idle" /\ worker'.root = worker.root)
  <2>1. CASE BeginTrashPurge
    <3>1. PICK e \in Due : \E m \in SUBSET Source :
                             worker' = [pc |-> "delete", root |-> e, manifest |-> m]
      BY <2>1 DEF BeginTrashPurge, Sources
    <3>2. e \in Entry
      BY <3>1 DEF Due, TypeOK
    <3> QED BY <2>1, <3>1, <3>2 DEF BeginTrashPurge, Workers
  <2>2. CASE DeleteObjects
    BY <1>3, <2>2 DEF DeleteObjects, TypeOK, Workers
  <2>3. CASE AbandonPurge
    BY <1>3, <2>3 DEF AbandonPurge
  <2>4. CASE ReachPurgeAfter
    BY <2>4 DEF ReachPurgeAfter, TypeOK, Workers
  <2> QED BY <2>1, <2>2, <2>3, <2>4
<1>5. objects' \subseteq Source
  BY <1>4 DEF TypeOK
<1> QED BY <1>1, <1>2, <1>4, <1>5 DEF RoomTyped, TypeOK, treeVars, contentVars

LEMMA FinalizeTyped ==
  ASSUME StructureAssumption, TypeOK, TrashSound, FinalizeTrashPurge
  PROVE  /\ RoomTyped' /\ unused' = unused /\ client' = client /\ worker'.pc = "idle"
         /\ published' = published
         /\ \E gone : /\ rows' = rows \ gone /\ staged' = staged \ gone
                      /\ parent' = [e \in Entry |-> IF e \in gone THEN Root ELSE parent[e]]
         /\ \A i, j \in 1..Len(trash') : i # j => trash'[i] \cap trash'[j] = {}
         /\ Roots' \subseteq Roots
<1> DEFINE gone == Purged(worker.root)
<1>1. /\ rows' = rows \ gone /\ staged' = staged \ gone
      /\ parent' = [e \in Entry |-> IF e \in gone THEN Root ELSE parent[e]]
      /\ version' = [d \in Document |-> IF d \in gone THEN [v \in Version |-> "none"]
                                        ELSE version[d]]
      /\ working' = [d \in Document |-> IF d \in gone THEN 0 ELSE working[d]]
      /\ unused' = unused /\ client' = client /\ worker' = Free
      /\ published' = published /\ objects' = objects /\ TakeOut(worker.root)
  BY DEF FinalizeTrashPurge
<1> HIDE DEF gone
<1>2. worker.root \in Roots
  <2>1. worker.root \in Due
    BY DEF FinalizeTrashPurge, TrashSound
  <2>2. \E i \in 1..due : worker.root \in trash[i]
    BY <2>1 DEF Due
  <2>3. 1..due \subseteq 1..Len(trash) /\ trash \in Seq(SUBSET Entry)
    BY DEF TypeOK
  <2> QED BY <2>2, <2>3, RootsAre
<1>3. /\ trash' \in Seq(SUBSET Entry) /\ due' \in 0..Len(trash')
      /\ \A i, j \in 1..Len(trash') : i # j => trash'[i] \cap trash'[j] = {}
      /\ Roots' = Roots \ {worker.root}
  BY <1>1, <1>2, TakenOut DEF TrashSound, TypeOK
<1>4. Free \in Workers /\ Free.pc = "idle"
  BY DEF Free, Workers
<1>5. RoomTyped'
  <2>1. rows' \subseteq Entry \ unused /\ staged' \subseteq rows'
    BY <1>1 DEF TypeOK
  <2>2. parent' \in [Entry -> Folder \cup {Root}]
    BY <1>1 DEF TypeOK
  <2>3. /\ version' \in [Document -> [Version -> {"none", "quarantine", "ready"}]]
        /\ working' \in [Document -> 0..MaxVersion]
    BY <1>1, ConstantsTyped DEF TypeOK
  <2> QED BY <1>1, <1>3, <1>4, <2>1, <2>2, <2>3 DEF RoomTyped, TypeOK
<1> QED BY <1>1, <1>3, <1>4, <1>5

\* The steps of the member that is followed and that write nothing.
ReadStep == ReadEntries \/ ReadRevision \/ SendMutation \/ DryRunPublish \/ LeavePage

LEMMA AwayIs == Away \in Clients /\ Away.pc = "away" /\ ~Away.changed
BY DEF Away, Clients

\* What reading makes of the page: it becomes another entry's, or none's, or the handler
\* has computed what it will write.
LEMMA ReadsAre ==
  ASSUME TypeOK, ReadStep
  PROVE  /\ client' \in Clients
         /\ UNCHANGED <<treeVars, contentVars, published, trashVars, objects, worker>>
         /\ \/ client'.pc = "away"
            \/ /\ client'.pc = "entries" /\ client'.entry \in rows /\ ~client'.changed
               /\ client'.from = parent[client'.entry]
               /\ client'.was = (client'.entry \in staged)
            \/ client'.pc = "review" /\ ~client'.changed
            \/ /\ client.pc \in {"entries", "page"} /\ client'.pc \in {"page", "write"}
               /\ client'.entry = client.entry /\ client'.from = client.from
               /\ client'.was = client.was /\ client'.changed = client.changed
               /\ client'.pc = "write" /\ client.entry \in staged => client'.keep
<1>0. client \in Clients
  BY TypesSplit
<1>1. CASE ReadEntries
  <2>1. PICK e \in rows : client' = [Away EXCEPT !.pc = "entries", !.entry = e, !.from = parent[e],
                                                 !.was = e \in staged]
    BY <1>1 DEF ReadEntries
  <2>2. e \in Entry /\ parent[e] \in Folder \cup {Root} /\ (e \in staged) \in BOOLEAN
    BY DEF TypeOK
  <2>3. client' = [[[[Away EXCEPT !.pc = "entries"] EXCEPT !.entry = e] EXCEPT !.from = parent[e]]
                     EXCEPT !.was = e \in staged]
    BY <2>1 DEF Away
  <2>4. /\ client' \in Clients /\ client'.pc = "entries" /\ client'.entry = e
        /\ client'.from = parent[e] /\ client'.was = (e \in staged) /\ ~client'.changed
    BY <2>2, <2>3 DEF Away, Clients
  <2> QED BY <1>1, <2>4 DEF ReadEntries
<1>2. CASE ReadRevision
  <2>1. client' = [[client EXCEPT !.pc = "page"] EXCEPT !.behind = FALSE]
    BY <1>0, <1>2 DEF ReadRevision, Clients
  <2> QED BY <1>0, <1>2, <2>1 DEF ReadRevision, Clients
<1>3. CASE SendMutation
  <2>1. CASE client' = Away
    BY <1>3, <2>1, AwayIs DEF SendMutation
  <2>2. CASE client' # Away
    <3>1. PICK to \in Folder \cup {Root}, keep \in BOOLEAN :
            /\ client' = [client EXCEPT !.pc = "write", !.to = to, !.keep = keep]
            /\ client.entry \in staged => keep
      <4>1. \/ \E to \in Folder \cup {Root} :
                 client' = [client EXCEPT !.pc = "write", !.to = to, !.keep = Keeps(client.entry)]
            \/ /\ client.entry \in rows
               /\ \/ client' = [client EXCEPT !.pc = "write", !.to = parent[client.entry],
                                              !.keep = Keeps(client.entry)]
                  \/ client' = [client EXCEPT !.pc = "write", !.to = parent[client.entry],
                                              !.keep = TRUE]
        BY <1>3, <2>2 DEF SendMutation
      <4>2. client.entry \in rows => parent[client.entry] \in Folder \cup {Root}
        BY DEF TypeOK
      <4>3. Keeps(client.entry) \in BOOLEAN /\ (client.entry \in staged => Keeps(client.entry))
        BY DEF Keeps
      <4> QED BY <4>1, <4>2, <4>3
    <3>2. client' = [[[client EXCEPT !.pc = "write"] EXCEPT !.to = to] EXCEPT !.keep = keep]
      BY <1>0, <3>1 DEF Clients
    <3> QED BY <1>0, <1>3, <3>1, <3>2 DEF SendMutation, Clients
  <2> QED BY <2>1, <2>2
<1>4. CASE DryRunPublish
  <2>1. client' = [Away EXCEPT !.pc = "review"]
    BY <1>4 DEF DryRunPublish
  <2> QED BY <1>4, <2>1, AwayIs DEF DryRunPublish, Away, Clients
<1>5. CASE LeavePage
  BY <1>5, AwayIs DEF LeavePage
<1> QED BY <1>1, <1>2, <1>3, <1>4, <1>5 DEF ReadStep

-----------------------------------------------------------------------------
(* The invariant.                                                           *)

\* The steps of Next by what they write.
LEMMA StepsAre ==
  ASSUME StructureAssumption, TypeOK, [Next]_vars
  PROVE  \/ \E e \in Entry, at \in Folder \cup {Root} :
              \/ Drawn(e, at)
              \/ WriteRestored(e, at) /\ Noticed({e})
              \/ \E remove \in BOOLEAN : /\ WriteEntry(e, at, remove) /\ Noticed({e})
                                         /\ ~remove => e \notin staged
         \/ WriteSnapshot /\ Noticed({})
         \/ ContentStep \/ ReadStep \/ MutateEntry \/ PublishReviewed
         \/ BeginTrashPurge \/ DeleteObjects \/ AbandonPurge \/ ReachPurgeAfter
         \/ FinalizeTrashPurge
         \/ UNCHANGED vars
<1>1. CASE ColleagueStep
  <2>1. ASSUME NEW e \in Entry, StageRemoval(e)
        PROVE  \E at \in Folder \cup {Root} : WriteEntry(e, at, TRUE) /\ Noticed({e})
    BY <2>1 DEF StageRemoval, TypeOK
  <2>2. ASSUME NEW e \in Entry, NEW at \in Folder \cup {Root},
               CreateFolder(e, at) \/ MoveEntry(e, at) \/ RestoreTrash(e, at)
        PROVE  \/ Drawn(e, at)
               \/ WriteRestored(e, at) /\ Noticed({e})
               \/ \E remove \in BOOLEAN : /\ WriteEntry(e, at, remove) /\ Noticed({e})
                                          /\ ~remove => e \notin staged
    <3>1. CASE CreateFolder(e, at)
      BY <3>1 DEF Drawn
    <3>2. CASE RestoreTrash(e, at)
      BY <3>2 DEF RestoreTrash
    <3>3. CASE MoveEntry(e, at)
      <4> DEFINE remove == e \in staged
      <4>1. /\ remove \in BOOLEAN /\ WriteEntry(e, at, remove) /\ Noticed({e})
            /\ ~remove => e \notin staged
        BY <3>3 DEF MoveEntry
      <4> HIDE DEF remove
      <4> QED BY <4>1
    <3> QED BY <2>2, <3>1, <3>2, <3>3
  <2>3. ASSUME NEW d \in Document, NEW at \in Folder \cup {Root}, UploadDocument(d, at)
        PROVE  d \in Entry /\ Drawn(d, at)
    BY <2>3, ConstantsTyped DEF Drawn
  <2>4. ApplyBulkPublish => WriteSnapshot /\ Noticed({})
    BY DEF ApplyBulkPublish
  <2> QED BY <1>1, <2>1, <2>2, <2>3, <2>4 DEF ColleagueStep, ContentStep
<1> QED BY <1>1 DEF Next, ClientStep, PurgeStep, ReadStep

LEMMA TrashStays ==
  ASSUME TypeOK, TrashSound, TrashKept, Roots' \cap unused' = {}
  PROVE  TrashSound'
BY DEF TrashSound, TrashKept, Due

\* Others' writes are noticed, and a purge takes the entry away with its row.
LEMMA PageStays ==
  ASSUME TypeOK, PageSound, ReviewSound, unused' \subseteq unused,
         NEW S, Noticed(S) \/ (client' = client /\ S = {}),
         \A x \in rows' \ S : /\ x \in rows /\ parent'[x] = parent[x]
                              /\ (x \in staged') = (x \in staged)
  PROVE  PageSound' /\ ReviewSound'
<1>0. client \in Clients
  BY TypesSplit
<1>1. CASE client' = client /\ S = {}
  BY <1>1 DEF PageSound, ReviewSound
<1>2. CASE Noticed(S)
  <2>1. /\ client'.pc = client.pc /\ client'.behind
        /\ client'.entry = client.entry /\ client'.from = client.from
        /\ client'.was = client.was /\ client'.keep = client.keep
        /\ client'.changed = (client.changed \/ (IF client.pc = "review"
                                                 THEN Proposed' # Proposed \/ published' # published
                                                 ELSE client.entry \in S))
    BY <1>0, <1>2, NoticedIs
  <2>2. ReviewSound'
    BY <2>1 DEF ReviewSound
  <2>3. PageSound'
    BY <2>1 DEF PageSound
  <2> QED BY <2>2, <2>3
<1> QED BY <1>1, <1>2

LEMMA ColleagueKeeps ==
  ASSUME StructureAssumption, TypeOK, StructureInv,
         NEW e \in Entry, NEW at \in Folder \cup {Root},
         \/ Drawn(e, at)
         \/ WriteRestored(e, at) /\ Noticed({e})
         \/ \E remove \in BOOLEAN : /\ WriteEntry(e, at, remove) /\ Noticed({e})
                                    /\ ~remove => e \notin staged
  PROVE  TypeOK' /\ StructureInv'
<1>0. /\ TrashSound /\ PageSound /\ ReviewSound /\ RemovalStands /\ client \in Clients
      /\ rows \cap unused = {} /\ staged \subseteq rows
  BY TypesSplit DEF StructureInv, TypeOK
<1>1. CASE Drawn(e, at)
  <2>1. /\ RoomTyped' /\ e \in unused /\ rows' = rows \cup {e} /\ unused' = unused \ {e}
        /\ staged' = staged /\ trash' = trash /\ due' = due /\ worker' = worker
        /\ parent' = [parent EXCEPT ![e] = at] /\ Noticed({e})
    BY <1>1, DrawnTyped
  <2>2. TrashSound'
    BY <1>0, <2>1 DEF TrashSound, Roots, Due
  <2>3. PageSound' /\ ReviewSound'
    <3>1. \A x \in rows' \ {e} : /\ x \in rows /\ parent'[x] = parent[x]
                                  /\ (x \in staged') = (x \in staged)
      BY <2>1 DEF TypeOK
    <3>2. unused' \subseteq unused /\ Noticed({e})
      BY <2>1
    <3> QED BY <1>0, <3>1, <3>2, PageStays
  <2>4. RemovalStands'
    BY <1>0, <2>1 DEF RemovalStands, Roots, TrashSound
  <2>5. client' \in Clients
    BY <1>0, <2>1, NoticedIs
  <2> QED BY <2>1, <2>2, <2>3, <2>4, <2>5, NextTypesSplit DEF StructureInv
<1>2. CASE WriteRestored(e, at) /\ Noticed({e})
  <2>1. /\ RoomTyped' /\ TrashKept
        /\ unused' = unused /\ rows' = rows
        /\ parent' = [parent EXCEPT ![e] = at] /\ staged' = staged \ {e}
        /\ Roots' = Roots \ {e}
    BY <1>0, <1>2, RestoredTyped
  <2>2. TrashSound'
    BY <1>0, <2>1, TrashStays DEF TrashSound
  <2>3. PageSound' /\ ReviewSound'
    <3>1. \A x \in rows' \ {e} : /\ x \in rows /\ parent'[x] = parent[x]
                                  /\ (x \in staged') = (x \in staged)
      BY <2>1 DEF TypeOK
    <3>2. unused' \subseteq unused /\ Noticed({e})
      BY <2>1, <1>2
    <3> QED BY <1>0, <3>1, <3>2, PageStays
  <2>4. RemovalStands'
    BY <1>0, <2>1 DEF RemovalStands
  <2>5. client' \in Clients
    BY <1>0, <1>2, NoticedIs
  <2> QED BY <2>1, <2>2, <2>3, <2>4, <2>5, NextTypesSplit DEF StructureInv
<1>3. ASSUME NEW remove \in BOOLEAN, WriteEntry(e, at, remove), Noticed({e}),
             ~remove => e \notin staged
      PROVE  TypeOK' /\ StructureInv'
  <2>1. /\ RoomTyped' /\ TrashKept
        /\ e \in rows /\ unused' = unused /\ rows' = rows
        /\ parent' = [parent EXCEPT ![e] = at]
        /\ staged' = IF remove THEN staged \cup {e} ELSE staged \ {e}
        /\ Roots' \subseteq Roots \cup {e} /\ (~remove => Roots' = Roots)
    BY <1>0, <1>3, WrittenTyped
  <2>2. TrashSound'
    BY <1>0, <2>1, TrashStays DEF TrashSound
  <2>3. PageSound' /\ ReviewSound'
    <3>1. \A x \in rows' \ {e} : /\ x \in rows /\ parent'[x] = parent[x]
                                  /\ (x \in staged') = (x \in staged)
      BY <2>1 DEF TypeOK
    <3>2. unused' \subseteq unused /\ Noticed({e})
      BY <2>1, <1>3
    <3> QED BY <1>0, <3>1, <3>2, PageStays
  <2>4. RemovalStands'
    BY <1>0, <1>3, <2>1 DEF RemovalStands
  <2>5. client' \in Clients
    BY <1>0, <1>3, NoticedIs
  <2> QED BY <2>1, <2>2, <2>3, <2>4, <2>5, NextTypesSplit DEF StructureInv
<1> QED BY <1>1, <1>2, <1>3

\* A publication changes nothing a page of entries shows; a dry run's result becomes stale.
LEMMA SnapshotKeeps ==
  ASSUME StructureAssumption, TypeOK, StructureInv,
         WriteSnapshot, Noticed({}) \/ PublishReviewed
  PROVE  TypeOK' /\ StructureInv'
<1>0. /\ TrashSound /\ PageSound /\ ReviewSound /\ RemovalStands /\ client \in Clients
      /\ rows \cap unused = {} /\ staged \subseteq rows
  BY TypesSplit DEF StructureInv, TypeOK
<1>1. /\ RoomTyped' /\ TrashKept
      /\ unused' = unused /\ rows' = rows /\ parent' = parent /\ staged' = staged
      /\ Roots' = Roots \cup staged
  BY <1>0, SnapshotTyped
<1>2. TrashSound'
  BY <1>0, <1>1, TrashStays DEF TrashSound
<1>3. RemovalStands'
  BY <1>0, <1>1 DEF RemovalStands
<1>4. CASE Noticed({})
  <2>1. \A x \in rows' \ {} : /\ x \in rows /\ parent'[x] = parent[x]
                              /\ (x \in staged') = (x \in staged)
    BY <1>1
  <2>2. PageSound' /\ ReviewSound'
    BY <1>0, <1>1, <1>4, <2>1, PageStays
  <2>3. client' \in Clients
    BY <1>0, <1>4, NoticedIs
  <2> QED BY <1>1, <1>2, <1>3, <2>2, <2>3, NextTypesSplit DEF StructureInv
<1>5. CASE PublishReviewed
  <2>1. client' = Away
    BY <1>5 DEF PublishReviewed
  <2>2. client' \in Clients /\ PageSound' /\ ReviewSound'
    BY <2>1, AwayIs DEF PageSound, ReviewSound
  <2> QED BY <1>1, <1>2, <1>3, <2>2, NextTypesSplit DEF StructureInv
<1> QED BY <1>4, <1>5

\* A write under both revisions is a write of what the page showed.
LEMMA MutationIs ==
  ASSUME StructureAssumption, TypeOK, StructureInv, MutateEntry
  PROVE  /\ client.entry \in rows /\ client.entry \in Entry
         /\ parent[client.entry] = client.from
         /\ (client.entry \in staged) = client.was
         /\ client.entry \in staged => client.keep
         /\ WriteEntry(client.entry, client.to, client.keep) /\ client' = Away
         /\ client.to \in Folder \cup {Root} /\ client.keep \in BOOLEAN
<1>1. /\ client.pc = "write" /\ ~client.changed /\ client' = Away
      /\ WriteEntry(client.entry, client.to, client.keep)
  BY DEF MutateEntry, Fence
<1>2. client.entry \in rows
  BY <1>1 DEF WriteEntry
<1>3. /\ client.to \in Folder \cup {Root} /\ client.keep \in BOOLEAN /\ rows \subseteq Entry
  BY DEF TypeOK
<1> QED BY <1>1, <1>2, <1>3 DEF StructureInv, PageSound

LEMMA MutationKeeps ==
  ASSUME StructureAssumption, TypeOK, StructureInv, MutateEntry
  PROVE  TypeOK' /\ StructureInv'
<1> DEFINE e == client.entry
           at == client.to
           keep == client.keep
<1>0. /\ TrashSound /\ RemovalStands /\ rows \cap unused = {} /\ staged \subseteq rows
  BY DEF StructureInv, TypeOK
<1>1. /\ e \in rows /\ e \in Entry /\ (e \in staged => keep)
      /\ WriteEntry(e, at, keep) /\ client' = Away
      /\ at \in Folder \cup {Root} /\ keep \in BOOLEAN
  BY MutationIs
<1> HIDE DEF e, at, keep
<1>2. /\ RoomTyped' /\ TrashKept /\ unused' = unused /\ rows' = rows
      /\ staged' = IF keep THEN staged \cup {e} ELSE staged \ {e}
      /\ Roots' \subseteq Roots \cup {e} /\ (~keep => Roots' = Roots)
  BY <1>0, <1>1, WrittenTyped
<1>3. TrashSound'
  BY <1>0, <1>1, <1>2, TrashStays DEF TrashSound
<1>4. client' \in Clients /\ PageSound' /\ ReviewSound'
  BY <1>1, AwayIs DEF PageSound, ReviewSound
<1>5. RemovalStands'
  BY <1>0, <1>1, <1>2 DEF RemovalStands
<1> QED BY <1>2, <1>3, <1>4, <1>5, NextTypesSplit DEF StructureInv

LEMMA ContentKeeps ==
  ASSUME StructureAssumption, TypeOK, StructureInv, ContentStep
  PROVE  TypeOK' /\ StructureInv'
<1>0. /\ TrashSound /\ PageSound /\ ReviewSound /\ RemovalStands /\ client \in Clients
  BY TypesSplit DEF StructureInv
<1>1. /\ RoomTyped' /\ UNCHANGED <<unused, rows, parent, staged, published, trash, due, worker>>
      /\ (\E d \in Document : Noticed({d})) \/ Noticed({}) \/ client' = client
  BY ContentTyped DEF treeVars
<1>2. TrashSound' /\ RemovalStands'
  BY <1>0, <1>1 DEF TrashSound, RemovalStands, Roots, Due
<1>3. PICK S : Noticed(S) \/ (client' = client /\ S = {})
  BY <1>1
<1>4. \A x \in rows' \ S : /\ x \in rows /\ parent'[x] = parent[x]
                           /\ (x \in staged') = (x \in staged)
  BY <1>1
<1>5. PageSound' /\ ReviewSound'
  BY <1>0, <1>1, <1>3, <1>4, PageStays
<1>6. client' \in Clients
  BY <1>0, <1>3, NoticedIs
<1> QED BY <1>1, <1>2, <1>5, <1>6, NextTypesSplit DEF StructureInv

LEMMA ReadKeeps ==
  ASSUME StructureAssumption, TypeOK, StructureInv, ReadStep
  PROVE  TypeOK' /\ StructureInv'
<1>0. TrashSound /\ PageSound /\ ReviewSound /\ RemovalStands
  BY DEF StructureInv
<1>1. /\ client' \in Clients
      /\ UNCHANGED <<treeVars, contentVars, published, trashVars, objects, worker>>
      /\ \/ client'.pc = "away"
         \/ /\ client'.pc = "entries" /\ client'.entry \in rows /\ ~client'.changed
            /\ client'.from = parent[client'.entry]
            /\ client'.was = (client'.entry \in staged)
         \/ client'.pc = "review" /\ ~client'.changed
         \/ /\ client.pc \in {"entries", "page"} /\ client'.pc \in {"page", "write"}
            /\ client'.entry = client.entry /\ client'.from = client.from
            /\ client'.was = client.was /\ client'.changed = client.changed
            /\ client'.pc = "write" /\ client.entry \in staged => client'.keep
  BY ReadsAre
<1>2. UNCHANGED <<unused, rows, parent, staged, version, working, published, trash, due,
                  objects, worker>>
  BY <1>1 DEF treeVars, contentVars, trashVars
<1>3. TrashSound' /\ RemovalStands'
  BY <1>0, <1>2 DEF TrashSound, RemovalStands, Roots, Due
<1>4. RoomTyped'
  BY <1>2 DEF RoomTyped, TypeOK, Workers
<1>5. rows \subseteq Entry \ unused
  BY DEF TypeOK
<1>6. ReviewSound'
  BY <1>1 DEF ReviewSound
<1>7. PageSound'
  BY <1>0, <1>1, <1>2, <1>5 DEF PageSound
<1> QED BY <1>1, <1>3, <1>4, <1>6, <1>7, NextTypesSplit DEF StructureInv

\* A purge begins only after the deadline, batches do not leave the trash before theirs, and
\* what is purged takes its root along.
LEMMA PurgeKeeps ==
  ASSUME StructureAssumption, TypeOK, StructureInv,
         \/ BeginTrashPurge \/ DeleteObjects \/ AbandonPurge \/ ReachPurgeAfter
         \/ FinalizeTrashPurge
  PROVE  TypeOK' /\ StructureInv'
<1>0. /\ TrashSound /\ PageSound /\ ReviewSound /\ RemovalStands /\ client \in Clients
  BY TypesSplit DEF StructureInv
<1>1. CASE BeginTrashPurge \/ DeleteObjects \/ AbandonPurge \/ ReachPurgeAfter
  <2>1. /\ RoomTyped' /\ UNCHANGED <<unused, rows, parent, staged, published, trash, client>>
        /\ due' \in {due, due + 1}
        /\ worker'.pc # "idle" =>
             worker'.root \in Due \/ (worker.pc # "idle" /\ worker'.root = worker.root)
    BY <1>1, PurgeTyped DEF treeVars
  <2>2. Due \subseteq Due'
    <3>1. 1..due \subseteq 1..due'
      BY <2>1 DEF TypeOK
    <3> QED BY <2>1, <3>1 DEF Due
  <2>3. TrashSound'
    BY <1>0, <2>1, <2>2 DEF TrashSound, Roots
  <2>4. RemovalStands' /\ PageSound' /\ ReviewSound' /\ client' \in Clients
    BY <1>0, <2>1 DEF RemovalStands, Roots, PageSound, ReviewSound
  <2> QED BY <2>1, <2>3, <2>4, NextTypesSplit DEF StructureInv
<1>2. CASE FinalizeTrashPurge
  <2>1. /\ RoomTyped' /\ unused' = unused /\ client' = client /\ worker'.pc = "idle"
        /\ \E gone : /\ rows' = rows \ gone /\ staged' = staged \ gone
                     /\ parent' = [e \in Entry |-> IF e \in gone THEN Root ELSE parent[e]]
        /\ \A i, j \in 1..Len(trash') : i # j => trash'[i] \cap trash'[j] = {}
        /\ Roots' \subseteq Roots
    BY <1>0, <1>2, FinalizeTyped
  <2>2. PICK gone : /\ rows' = rows \ gone /\ staged' = staged \ gone
                    /\ parent' = [e \in Entry |-> IF e \in gone THEN Root ELSE parent[e]]
    BY <2>1
  <2>3. TrashSound'
    BY <1>0, <2>1 DEF TrashSound
  <2>4. RemovalStands'
    BY <1>0, <2>1, <2>2 DEF RemovalStands
  <2>5. \A x \in rows' \ {} : /\ x \in rows /\ parent'[x] = parent[x]
                              /\ (x \in staged') = (x \in staged)
    BY <2>2 DEF TypeOK
  <2>6. unused' \subseteq unused /\ client' = client
    BY <2>1
  <2>7. PageSound' /\ ReviewSound'
    BY <1>0, <2>5, <2>6, PageStays
  <2> QED BY <1>0, <2>1, <2>3, <2>4, <2>7, NextTypesSplit DEF StructureInv
<1> QED BY <1>1, <1>2

LEMMA StructureStep ==
  ASSUME StructureAssumption, TypeOK, StructureInv, [Next]_vars
  PROVE  TypeOK' /\ StructureInv'
<1>1. ASSUME NEW e \in Entry, NEW at \in Folder \cup {Root},
             \/ Drawn(e, at)
             \/ WriteRestored(e, at) /\ Noticed({e})
             \/ \E remove \in BOOLEAN : /\ WriteEntry(e, at, remove) /\ Noticed({e})
                                        /\ ~remove => e \notin staged
      PROVE  TypeOK' /\ StructureInv'
  BY <1>1, ColleagueKeeps
<1>2. CASE WriteSnapshot /\ Noticed({})
  BY <1>2, SnapshotKeeps
<1>3. CASE PublishReviewed
  <2>1. WriteSnapshot
    BY <1>3 DEF PublishReviewed
  <2> QED BY <1>3, <2>1, SnapshotKeeps
<1>4. CASE ContentStep
  BY <1>4, ContentKeeps
<1>5. CASE ReadStep
  BY <1>5, ReadKeeps
<1>6. CASE MutateEntry
  BY <1>6, MutationKeeps
<1>7. CASE \/ BeginTrashPurge \/ DeleteObjects \/ AbandonPurge \/ ReachPurgeAfter
           \/ FinalizeTrashPurge
  BY <1>7, PurgeKeeps
<1>8. CASE UNCHANGED vars
  <2>1. UNCHANGED <<unused, rows, parent, staged, version, working, published, trash, due,
                    objects, worker, client>>
    BY <1>8 DEF vars, treeVars, contentVars, trashVars
  <2>2. TypeOK'
    BY <2>1 DEF TypeOK
  <2>3. StructureInv'
    BY <2>1 DEF StructureInv, TrashSound, PageSound, ReviewSound, RemovalStands, Roots, Due
  <2> QED BY <2>2, <2>3
<1> QED BY <1>1, <1>2, <1>3, <1>4, <1>5, <1>6, <1>7, <1>8, StepsAre

LEMMA StructureInit ==
  ASSUME StructureAssumption, Init
  PROVE  TypeOK /\ StructureInv
<1>1. Hidden \in Listing /\ Free \in Workers /\ Free.pc = "idle"
  BY ConstantsTyped DEF Hidden, Listing, Free, Workers
<1>2. /\ trash \in Seq(SUBSET Entry) /\ Len(trash) = 0 /\ due = 0
  BY DEF Init
<1>3. RoomTyped
  <2>1. due \in 0..Len(trash)
    BY <1>2
  <2>2. /\ version \in [Document -> [Version -> {"none", "quarantine", "ready"}]]
        /\ working \in [Document -> 0..MaxVersion] /\ published \in [Entry -> Listing]
        /\ parent \in [Entry -> Folder \cup {Root}]
    BY <1>1, ConstantsTyped DEF Init
  <2>3. /\ unused \subseteq Entry /\ rows \subseteq Entry \ unused /\ staged \subseteq rows
        /\ objects \subseteq Source /\ worker \in Workers
    BY <1>1 DEF Init
  <2> QED BY <1>2, <2>1, <2>2, <2>3 DEF RoomTyped
<1>4. Roots = {}
  BY <1>2, RootsAre
<1>5. TrashSound /\ RemovalStands
  BY <1>1, <1>2, <1>4 DEF TrashSound, RemovalStands, Init
<1>6. client \in Clients /\ PageSound /\ ReviewSound
  BY AwayIs DEF Init, PageSound, ReviewSound
<1> QED BY <1>3, <1>5, <1>6, TypesSplit DEF StructureInv

-----------------------------------------------------------------------------
(* Which step ends a review or a write.                                     *)

LEMMA OthersStay ==
  ASSUME StructureAssumption, TypeOK, StructureInv, [Next]_vars, ~ReadStep, ~MutateEntry,
         ~PublishReviewed
  PROVE  client'.pc = client.pc
<1>0. client \in Clients
  BY TypesSplit
<1>1. \/ \E S : Noticed(S)
      \/ client' = client
  <2>1. ASSUME NEW e \in Entry, NEW at \in Folder \cup {Root}, Drawn(e, at)
        PROVE  Noticed({e})
    BY <2>1, DrawnTyped
  <2>2. ContentStep => (\E S : Noticed(S)) \/ client' = client
    BY ContentTyped
  <2>3. BeginTrashPurge \/ DeleteObjects \/ AbandonPurge \/ ReachPurgeAfter \/ FinalizeTrashPurge
          => client' = client
    BY DEF BeginTrashPurge, DeleteObjects, AbandonPurge, ReachPurgeAfter, FinalizeTrashPurge
  <2>4. UNCHANGED vars => client' = client
    BY DEF vars
  <2> QED BY <2>1, <2>2, <2>3, <2>4, StepsAre
<1>2. ASSUME NEW S, Noticed(S)
      PROVE  client'.pc = client.pc
  BY <1>0, <1>2, NoticedIs
<1> QED BY <1>1, <1>2

LEMMA PublishIs ==
  ASSUME StructureAssumption, TypeOK, StructureInv, [Next]_vars,
         published' # published, client.pc = "review", client'.pc = "away"
  PROVE  ~client.changed
<1>1. ~ReadStep
  BY ReadsAre
<1>2. ~MutateEntry
  BY DEF MutateEntry
<1>3. PublishReviewed
  BY <1>1, <1>2, OthersStay
<1> QED BY <1>3 DEF PublishReviewed, StructureInv, ReviewSound

LEMMA WriteIs ==
  ASSUME StructureAssumption, TypeOK, StructureInv, [Next]_vars, client.pc = "write",
         client'.pc = "away", parent' # parent \/ staged' # staged
  PROVE  parent[client.entry] = client.from /\ (client.entry \in staged) = client.was
<1>1. ~ReadStep
  BY ReadsAre DEF treeVars
<1>2. ~PublishReviewed
  BY DEF PublishReviewed
<1>3. MutateEntry
  BY <1>1, <1>2, OthersStay
<1> QED BY <1>3, MutationIs

-----------------------------------------------------------------------------
(* Walks down the tree.                                                     *)

\* Induction over the numbers, for a set of them.
LEMMA SetInduction ==
  ASSUME NEW P \in SUBSET Nat, 0 \in P, \A n \in P : n + 1 \in P
  PROVE  P = Nat
<1> SUFFICES ASSUME Nat \ P # {}
             PROVE  FALSE
  OBVIOUS
<1> DEFINE Q == Nat \ P
           L == OpToRel(<, Nat)
<1>1. \A x, y \in Nat : y < x => <<y, x>> \in L
  BY DEF OpToRel
<1>2. IsWellFoundedOn(L, Nat) /\ Q \subseteq Nat /\ Q # {}
  BY NatLessThanWellFounded
<1> HIDE DEF Q, L
<1>3. PICK x \in Q : \A y \in Q : ~(<<y, x>> \in L)
  BY <1>2, WFMin
<1>4. x \in Nat /\ x \notin P /\ x # 0
  BY <1>3 DEF Q
<1>5. x - 1 \in Nat /\ x - 1 < x /\ (x - 1) + 1 = x
  BY <1>4
<1>6. x - 1 \in Q
  BY <1>4, <1>5 DEF Q
<1>7. <<x - 1, x>> \in L
  BY <1>1, <1>4, <1>5
<1> QED BY <1>3, <1>6, <1>7

\* The walk of Descend, for any rows and parents.
Walk(S, R, par) ==
  LET within[n \in 0..Cardinality(Entry)] ==
        IF n = 0 THEN S ELSE within[n - 1] \cup {e \in R : par[e] \in within[n - 1]}
  IN within

LEMMA WalkIs ==
  ASSUME StructureAssumption, NEW S, NEW R, NEW par
  PROVE  /\ Walk(S, R, par)[0] = S
         /\ \A n \in 0..Cardinality(Entry) : n # 0 =>
              Walk(S, R, par)[n] = Walk(S, R, par)[n - 1]
                                     \cup {e \in R : par[e] \in Walk(S, R, par)[n - 1]}
<1>1. Cardinality(Entry) \in Nat
  BY FS_CardinalityType DEF StructureAssumption
<1> DEFINE Step(f, n) == f[n - 1] \cup {e \in R : par[e] \in f[n - 1]}
           Is(f, k) == f = [n \in 0..k |-> IF n = 0 THEN S ELSE Step(f, n)]
           P == {k \in Nat : \E f : Is(f, k)}
<1>2. 0 \in P
  <2>1. Is([n \in 0..0 |-> S], 0)
    OBVIOUS
  <2> QED BY <2>1
<1>3. ASSUME NEW k \in P
      PROVE  k + 1 \in P
  <2>1. PICK f : Is(f, k)
    OBVIOUS
  <2> DEFINE g == [n \in 0..(k + 1) |-> IF n = k + 1 THEN Step(f, k + 1) ELSE f[n]]
  <2>2. k \in Nat
    OBVIOUS
  <2>3. \A n \in 0..k : g[n] = f[n]
    BY <2>2
  <2>4. \A n \in 0..k : g[n] = IF n = 0 THEN S ELSE Step(g, n)
    <3>1. \A n \in 0..k : n # 0 => n - 1 \in 0..k
      BY <2>2
    <3>2. \A n \in 0..k : f[n] = IF n = 0 THEN S ELSE Step(f, n)
      BY <2>1
    <3> HIDE DEF g
    <3> QED BY <2>3, <3>1, <3>2
  <2>5. g[k + 1] = Step(g, k + 1)
    <3>1. k + 1 \in 0..(k + 1) /\ (k + 1) - 1 = k /\ k \in 0..k
      BY <2>2
    <3> QED BY <2>3, <3>1
  <2>6. Is(g, k + 1)
    <3>1. \A n \in 0..(k + 1) : g[n] = IF n = 0 THEN S ELSE Step(g, n)
      <4>1. \A n \in 0..(k + 1) : n \in 0..k \/ (n = k + 1 /\ n # 0)
        BY <2>2
      <4> HIDE DEF g
      <4> QED BY <2>4, <2>5, <4>1
    <3>2. g = [n \in 0..(k + 1) |-> g[n]]
      OBVIOUS
    <3> HIDE DEF g
    <3> QED BY <3>1, <3>2
  <2>7. k + 1 \in Nat /\ \E h : Is(h, k + 1)
    <3> HIDE DEF Is, g
    <3> QED BY <2>2, <2>6
  <2> QED BY <2>7
<1>4. P = Nat
  <2>1. P \in SUBSET Nat
    OBVIOUS
  <2> HIDE DEF P
  <2> QED BY <1>2, <1>3, <2>1, SetInduction
<1>5. \E f : Is(f, Cardinality(Entry))
  BY <1>1, <1>4
<1>6. Is(Walk(S, R, par), Cardinality(Entry))
  BY <1>5 DEF Walk
<1> HIDE DEF P
<1>7. 0 \in 0..Cardinality(Entry)
  BY <1>1
<1> QED BY <1>6, <1>7

LEMMA DescendIs ==
  /\ \A S, R : Descend(S, R) = Walk(S, R, parent)
  /\ \A e : Subtree(e) = Walk({e}, rows, parent)[Cardinality(Entry)]
  /\ \A e : Subtree(e)' = Walk({e}, rows', parent')[Cardinality(Entry)]
  /\ Live = Walk({Root}, rows \ staged, parent)[Cardinality(Entry)] \ {Root}
  /\ Live' = Walk({Root}, rows' \ staged', parent')[Cardinality(Entry)] \ {Root}
<1>1. \A S, R : Descend(S, R) = Walk(S, R, parent)
  BY DEF Descend, Walk
<1>2. \A e : Subtree(e) = Walk({e}, rows, parent)[Cardinality(Entry)]
  BY DEF Subtree, Descend, Walk
<1>3. \A e : Subtree(e)' = Walk({e}, rows', parent')[Cardinality(Entry)]
  BY DEF Subtree, Descend, Walk
<1>4. Live = Walk({Root}, rows \ staged, parent)[Cardinality(Entry)] \ {Root}
  BY DEF Live, Descend, Walk
<1>5. Live' = Walk({Root}, rows' \ staged', parent')[Cardinality(Entry)] \ {Root}
  BY DEF Live, Descend, Walk
<1> QED BY <1>1, <1>2, <1>3, <1>4, <1>5

\* par leads from every row to the root, D counts the steps it takes.
Tree(D, R, par) ==
  /\ D \in [R \cup {Root} -> Nat] /\ D[Root] = 0
  /\ \A e \in R : par[e] \in R \cup {Root} /\ D[e] = D[par[e]] + 1

\* B is e and what is below it along rows in Q: the least set of its kind.
IsBelow(B, e, Q, par) ==
  /\ e \in B /\ \A f \in Q : par[f] \in B => f \in B
  /\ \A T : e \in T /\ (\A f \in Q : par[f] \in T => f \in T) => B \subseteq T

LEMMA WalkGrows ==
  ASSUME StructureAssumption, NEW S, NEW Q, NEW par,
         NEW m \in 0..Cardinality(Entry), NEW n \in 0..m
  PROVE  Walk(S, Q, par)[n] \subseteq Walk(S, Q, par)[m]
<1> DEFINE N == Cardinality(Entry)
           W == Walk(S, Q, par)
           P == {k \in Nat : n + k \in 0..N => W[n] \subseteq W[n + k]}
<1>1. N \in Nat
  BY FS_CardinalityType DEF StructureAssumption
<1>2. \A k \in 0..N : k # 0 => W[k - 1] \subseteq W[k]
  BY WalkIs
<1> HIDE DEF W, N
<1>3. 0 \in P
  BY <1>1 DEF N
<1>4. ASSUME NEW k \in P
      PROVE  k + 1 \in P
  <2>1. k \in Nat /\ n \in Nat
    BY <1>1 DEF N
  <2>2. ASSUME n + (k + 1) \in 0..N
        PROVE  W[n] \subseteq W[n + (k + 1)]
    <3>1. n + k \in 0..N /\ n + (k + 1) # 0 /\ (n + (k + 1)) - 1 = n + k
      BY <1>1, <2>1, <2>2
    <3>2. W[n + k] \subseteq W[n + (k + 1)]
      BY <1>2, <2>2, <3>1
    <3> QED BY <3>1, <3>2
  <2> QED BY <2>1, <2>2
<1>5. P = Nat
  <2>1. P \in SUBSET Nat
    OBVIOUS
  <2> HIDE DEF P
  <2> QED BY <1>3, <1>4, <2>1, SetInduction
<1>6. m \in Nat /\ n \in Nat /\ m \in 0..N /\ m - n \in Nat /\ n + (m - n) = m
  BY <1>1 DEF N
<1>7. m - n \in P
  BY <1>5, <1>6
<1> QED BY <1>6, <1>7 DEF W

LEMMA WalkWithin ==
  ASSUME StructureAssumption, NEW e, NEW Q, NEW par,
         NEW T, e \in T, \A f \in Q : par[f] \in T => f \in T
  PROVE  Walk({e}, Q, par)[Cardinality(Entry)] \subseteq T
<1> DEFINE N == Cardinality(Entry)
           W == Walk({e}, Q, par)
           P == {k \in Nat : k \in 0..N => W[k] \subseteq T}
<1>1. N \in Nat
  BY FS_CardinalityType DEF StructureAssumption
<1>2. /\ W[0] = {e}
      /\ \A k \in 0..N : k # 0 => W[k] = W[k - 1] \cup {f \in Q : par[f] \in W[k - 1]}
  BY WalkIs
<1> HIDE DEF W, N
<1>3. 0 \in P
  BY <1>2
<1>4. ASSUME NEW k \in P
      PROVE  k + 1 \in P
  <2>1. ASSUME k + 1 \in 0..N
        PROVE  W[k + 1] \subseteq T
    <3>1. k \in 0..N /\ k + 1 # 0 /\ (k + 1) - 1 = k
      BY <1>1, <2>1
    <3>2. W[k + 1] = W[k] \cup {f \in Q : par[f] \in W[k]}
      BY <1>2, <2>1, <3>1
    <3> QED BY <3>1, <3>2
  <2> QED BY <2>1
<1>5. P = Nat
  <2>1. P \in SUBSET Nat
    OBVIOUS
  <2> HIDE DEF P
  <2> QED BY <1>3, <1>4, <2>1, SetInduction
<1> QED BY <1>1, <1>5 DEF N, W

\* Above an entry on level k there is one on each level before.
LEMMA DepthBound ==
  ASSUME StructureAssumption, NEW R \in SUBSET Entry, NEW par, NEW D, Tree(D, R, par),
         NEW e \in R
  PROVE  D[e] \in 1..Cardinality(Entry)
<1> DEFINE Levels == {D[f] : f \in R}
           P == {k \in Nat : \A f \in R : D[f] = k => 1..k \subseteq Levels}
<1>1. \A f \in R : D[f] \in Nat \ {0} /\ par[f] \in R \cup {Root} /\ D[f] = D[par[f]] + 1
  BY DEF Tree
<1>2. 0 \in P
  BY <1>1
<1>3. ASSUME NEW k \in P
      PROVE  k + 1 \in P
  <2>1. ASSUME NEW f \in R, D[f] = k + 1
        PROVE  1..(k + 1) \subseteq Levels
    <3>1. D[par[f]] = k
      BY <1>1, <2>1 DEF Tree
    <3>2. 1..k \subseteq Levels
      <4>1. CASE par[f] = Root
        <5>1. k = 0
          BY <3>1, <4>1 DEF Tree
        <5> QED BY <5>1
      <4>2. CASE par[f] \in R
        BY <3>1, <4>2
      <4> QED BY <1>1, <4>1, <4>2
    <3>3. k + 1 \in Levels
      BY <2>1
    <3>4. \A n \in 1..(k + 1) : n \in 1..k \/ n = k + 1
      OBVIOUS
    <3> HIDE DEF Levels
    <3> QED BY <3>2, <3>3, <3>4
  <2> QED BY <2>1
<1>4. P = Nat
  <2>1. P \in SUBSET Nat
    OBVIOUS
  <2> HIDE DEF P
  <2> QED BY <1>2, <1>3, <2>1, SetInduction
<1>5. D[e] \in Nat /\ D[e] >= 1 /\ 1..D[e] \subseteq Levels
  BY <1>1, <1>4
<1>6. IsFiniteSet(R) /\ Cardinality(R) <= Cardinality(Entry) /\ Cardinality(R) \in Nat
      /\ Cardinality(Entry) \in Nat
  BY FS_Subset, FS_CardinalityType DEF StructureAssumption
<1>7. IsFiniteSet(Levels) /\ Cardinality(Levels) <= Cardinality(R) /\ Cardinality(Levels) \in Nat
  <2>1. [f \in R |-> D[f]] \in Surjection(R, Levels)
    BY DEF Surjection
  <2>2. IsFiniteSet(Levels) /\ Cardinality(Levels) <= Cardinality(R)
    <3> HIDE DEF Levels
    <3> QED BY <1>6, <2>1, FS_Surjection
  <2> QED BY <2>2, FS_CardinalityType
<1>8. Cardinality(1..D[e]) = D[e] /\ Cardinality(1..D[e]) <= Cardinality(Levels)
  <2>1. Cardinality(1..D[e]) = D[e]
    BY <1>5, FS_Interval
  <2> HIDE DEF Levels
  <2> QED BY <1>5, <1>7, <2>1, FS_Subset
<1> HIDE DEF Levels
<1> QED BY <1>5, <1>6, <1>7, <1>8

\* A walk reaches an entry in as many steps as there are levels in between.
LEMMA WalkDepth ==
  ASSUME StructureAssumption, NEW R \in SUBSET Entry, NEW par, NEW D, Tree(D, R, par),
         NEW e \in R \cup {Root}, NEW Q \in SUBSET R, NEW n \in 0..Cardinality(Entry),
         NEW f \in Walk({e}, Q, par)[n]
  PROVE  /\ f \in R \cup {Root} /\ D[f] - D[e] \in 0..n
         /\ f \in Walk({e}, Q, par)[D[f] - D[e]]
<1> DEFINE N == Cardinality(Entry)
           W == Walk({e}, Q, par)
           P == {k \in Nat : k \in 0..N =>
                   \A x \in W[k] : /\ x \in R \cup {Root} /\ D[x] - D[e] \in 0..k
                                   /\ x \in W[D[x] - D[e]]}
<1>1. N \in Nat
  BY FS_CardinalityType DEF StructureAssumption
<1>2. /\ W[0] = {e}
      /\ \A k \in 0..N : k # 0 => W[k] = W[k - 1] \cup {x \in Q : par[x] \in W[k - 1]}
  BY WalkIs
<1>3. /\ \A x \in R \cup {Root} : D[x] \in Nat
      /\ \A x \in Q : x \in R /\ D[x] = D[par[x]] + 1
  BY DEF Tree
<1> HIDE DEF W, N
<1>4. 0 \in P
  BY <1>2, <1>3
<1>5. ASSUME NEW k \in P
      PROVE  k + 1 \in P
  <2>1. ASSUME k + 1 \in 0..N, NEW x \in W[k + 1]
        PROVE  /\ x \in R \cup {Root} /\ D[x] - D[e] \in 0..(k + 1)
               /\ x \in W[D[x] - D[e]]
    <3>1. k \in 0..N /\ k + 1 # 0 /\ (k + 1) - 1 = k /\ k \in Nat
      BY <1>1, <2>1
    <3>2. x \in W[k] \/ (x \in Q /\ par[x] \in W[k])
      BY <1>2, <2>1, <3>1
    <3>3. CASE x \in W[k]
      BY <1>3, <3>1, <3>3
    <3>4. CASE x \in Q /\ par[x] \in W[k]
      <4> DEFINE j == D[x] - D[e]
      <4>1. /\ par[x] \in R \cup {Root} /\ D[par[x]] - D[e] \in 0..k
            /\ par[x] \in W[D[par[x]] - D[e]]
        BY <3>1, <3>4
      <4>2. j \in 0..(k + 1) /\ j # 0 /\ j - 1 = D[par[x]] - D[e] /\ j \in 0..N
        BY <1>1, <1>3, <2>1, <3>1, <3>4, <4>1
      <4>3. x \in W[j]
        <5> HIDE DEF j
        <5> QED BY <1>2, <3>4, <4>1, <4>2
      <4> QED BY <1>3, <3>4, <4>2, <4>3
    <3> QED BY <3>2, <3>3, <3>4
  <2> QED BY <2>1
<1>6. P = Nat
  <2>1. P \in SUBSET Nat
    OBVIOUS
  <2> HIDE DEF P
  <2> QED BY <1>4, <1>5, <2>1, SetInduction
<1>7. n \in P
  BY <1>1, <1>6 DEF N
<1> QED BY <1>7 DEF W, N

LEMMA WalkBelow ==
  ASSUME StructureAssumption, NEW R \in SUBSET Entry, NEW par, NEW D, Tree(D, R, par),
         NEW e \in R \cup {Root}, NEW Q \in SUBSET R
  PROVE  IsBelow(Walk({e}, Q, par)[Cardinality(Entry)], e, Q, par)
<1> DEFINE N == Cardinality(Entry)
           W == Walk({e}, Q, par)
<1>1. N \in Nat
  BY FS_CardinalityType DEF StructureAssumption
<1>2. /\ W[0] = {e}
      /\ \A k \in 0..N : k # 0 => W[k] = W[k - 1] \cup {x \in Q : par[x] \in W[k - 1]}
  BY WalkIs
<1>3. \A m \in 0..N : \A n \in 0..m : W[n] \subseteq W[m]
  BY WalkGrows
<1>4. ASSUME NEW x \in W[N]
      PROVE  x \in R \cup {Root} /\ D[x] - D[e] \in 0..N /\ x \in W[D[x] - D[e]]
  <2>1. N \in 0..N
    BY <1>1
  <2> QED BY <2>1, WalkDepth
<1>5. \A x \in Q : D[x] = D[par[x]] + 1 /\ D[x] \in 1..N
  BY DepthBound DEF Tree
<1>6. D[e] \in Nat
  BY DEF Tree
<1>7. \A T : e \in T /\ (\A f \in Q : par[f] \in T => f \in T) => W[N] \subseteq T
  BY WalkWithin
<1>8. \A x \in R \cup {Root} : D[x] \in Nat
  BY DEF Tree
<1> HIDE DEF W, N
<1>9. e \in W[N]
  BY <1>1, <1>2, <1>3
<1>10. ASSUME NEW f \in Q, par[f] \in W[N]
       PROVE  f \in W[N]
  <2>1. PICK k \in Int : k = D[f] - D[e] /\ D[par[f]] - D[e] = k - 1
    BY <1>4, <1>5, <1>6, <1>8, <1>10
  <2>2. k - 1 \in 0..N /\ par[f] \in W[k - 1] /\ k <= N
    BY <1>1, <1>4, <1>5, <1>6, <1>10, <2>1
  <2>3. k \in 0..N /\ k # 0
    BY <1>1, <2>2
  <2>4. f \in W[k]
    BY <1>2, <1>10, <2>2, <2>3
  <2> QED BY <1>1, <1>3, <2>3, <2>4
<1> QED BY <1>7, <1>9, <1>10 DEF IsBelow, W, N

LEMMA BelowIs ==
  ASSUME NEW R, NEW par, NEW D, Tree(D, R, par), NEW e \in R \cup {Root},
         NEW Q, Q \subseteq R, NEW B, IsBelow(B, e, Q, par), NEW f \in B
  PROVE  f \in Q \cup {e} /\ (f = e \/ par[f] \in B) /\ D[f] >= D[e]
<1>1. /\ \A x \in R \cup {Root} : D[x] \in Nat
      /\ \A x \in Q : x \in R /\ D[x] = D[par[x]] + 1 /\ par[x] \in R \cup {Root}
  BY DEF Tree
<1>2. e \in B /\ \A x \in Q : par[x] \in B => x \in B
  BY DEF IsBelow
<1>3. B \subseteq {e} \cup {x \in Q : par[x] \in B}
  <2> DEFINE T == {e} \cup {x \in Q : par[x] \in B}
  <2>1. e \in T /\ \A x \in Q : par[x] \in T => x \in T
    BY <1>2
  <2> HIDE DEF T
  <2>2. B \subseteq T
    BY <2>1 DEF IsBelow
  <2> QED BY <2>2 DEF T
<1>4. B \subseteq {x \in R \cup {Root} : D[x] >= D[e]}
  <2> DEFINE T == {x \in R \cup {Root} : D[x] >= D[e]}
  <2>1. e \in T /\ \A x \in Q : par[x] \in T => x \in T
    BY <1>1
  <2> HIDE DEF T
  <2>2. B \subseteq T
    BY <2>1 DEF IsBelow
  <2> QED BY <2>2 DEF T
<1> QED BY <1>3, <1>4

LEMMA AllBelowRoot ==
  ASSUME NEW R, NEW par, NEW D, Tree(D, R, par), NEW B, IsBelow(B, Root, R, par)
  PROVE  R \subseteq B
<1> DEFINE P == {k \in Nat : \A f \in R : D[f] = k => f \in B}
<1>1. /\ \A f \in R : D[f] \in Nat \ {0} /\ par[f] \in R \cup {Root} /\ D[f] = D[par[f]] + 1
      /\ \A f \in R \cup {Root} : D[f] \in Nat
  BY DEF Tree
<1>2. Root \in B /\ \A f \in R : par[f] \in B => f \in B
  BY DEF IsBelow
<1>3. 0 \in P
  BY <1>1
<1>4. ASSUME NEW k \in P
      PROVE  k + 1 \in P
  <2>1. ASSUME NEW f \in R, D[f] = k + 1
        PROVE  f \in B
    <3>1. D[par[f]] = k
      BY <1>1, <2>1
    <3>2. par[f] \in B
      BY <1>1, <1>2, <3>1
    <3> QED BY <1>2, <3>2
  <2> QED BY <2>1
<1>5. P = Nat
  <2>1. P \in SUBSET Nat
    OBVIOUS
  <2> HIDE DEF P
  <2> QED BY <1>3, <1>4, <2>1, SetInduction
<1> QED BY <1>1, <1>5

LEMMA LevelIs ==
  ASSUME StructureAssumption, rows \subseteq Entry, NEW D, Tree(D, rows, parent),
         NEW e \in rows \cup {Root}
  PROVE  Level(e) = D[e]
<1> DEFINE N == Cardinality(Entry)
           W == Walk({Root}, rows, parent)
<1>1. N \in Nat
  BY FS_CardinalityType DEF StructureAssumption
<1>2. D[Root] = 0 /\ Root \notin rows
  BY DEF Tree, StructureAssumption
<1>3. CASE e = Root
  BY <1>2, <1>3 DEF Level
<1>4. CASE e \in rows
  <2>1. D[e] \in 1..N
    BY <1>4, DepthBound
  <2>2. e \in W[N]
    <3>1. IsBelow(W[N], Root, rows, parent)
      BY WalkBelow
    <3> QED BY <1>4, <3>1, AllBelowRoot
  <2>3. \A n \in 0..N : e \in W[n] => D[e] - D[Root] \in 0..n /\ e \in W[D[e] - D[Root]]
    BY WalkDepth
  <2>4. \A m \in 0..N : \A n \in 0..m : W[n] \subseteq W[m]
    BY WalkGrows
  <2>5. Level(e) = CHOOSE n \in 1..N : e \in W[n] \ W[n - 1]
    BY <1>2, <1>4, DescendIs DEF Level
  <2> HIDE DEF W, N
  <2>6. e \in W[D[e]]
    BY <1>1, <1>2, <2>1, <2>2, <2>3
  <2>7. e \notin W[D[e] - 1]
    BY <1>1, <1>2, <2>1, <2>3
  <2>8. ASSUME NEW n \in 1..N, e \in W[n] \ W[n - 1]
        PROVE  n = D[e]
    <3>1. D[e] <= n
      BY <1>1, <1>2, <2>1, <2>3, <2>8
    <3>2. ~(D[e] < n)
      <4> SUFFICES ASSUME D[e] < n
                   PROVE  FALSE
        OBVIOUS
      <4>1. n - 1 \in 0..N /\ D[e] \in 0..(n - 1)
        BY <1>1, <2>1
      <4>2. W[D[e]] \subseteq W[n - 1]
        BY <2>4, <4>1
      <4> QED BY <2>6, <2>8, <4>2
    <3> QED BY <1>1, <2>1, <3>1, <3>2
  <2>9. D[e] \in 1..N /\ e \in W[D[e]] \ W[D[e] - 1]
    BY <2>1, <2>6, <2>7
  <2> QED BY <2>5, <2>8, <2>9
<1> QED BY <1>3, <1>4

LEMMA HeightIs ==
  ASSUME StructureAssumption, rows \subseteq Entry
  PROVE  /\ \A e : Height(e) \in Nat
         /\ \A D : Tree(D, rows, parent) =>
              \A e \in rows \cup {Root} :
                \A f \in Walk({e}, (rows \ staged) \cap Folder, parent)[Cardinality(Entry)] :
                  D[f] - D[e] <= Height(e)
<1> DEFINE N == Cardinality(Entry)
           Q == (rows \ staged) \cap Folder
           W(e) == Walk({e}, Q, parent)
           H(e) == {n \in 1..N : W(e)[n] # W(e)[n - 1]}
<1>1. N \in Nat
  BY FS_CardinalityType DEF StructureAssumption
<1>2. \A e : Height(e) = Cardinality(H(e))
  BY DescendIs DEF Height
<1>3. ASSUME NEW e
      PROVE  IsFiniteSet(H(e)) /\ Cardinality(H(e)) \in Nat
  <2>1. IsFiniteSet(1..N) /\ H(e) \in SUBSET (1..N)
    BY <1>1, FS_Interval
  <2> HIDE DEF H, N
  <2> QED BY <2>1, FS_Subset, FS_CardinalityType
<1>4. ASSUME NEW D, Tree(D, rows, parent), NEW e \in rows \cup {Root}, NEW f \in W(e)[N]
      PROVE  D[f] - D[e] <= Cardinality(H(e))
  <2>1. /\ \A x \in rows \cup {Root} : D[x] \in Nat
        /\ \A x \in Q : x \in rows /\ D[x] = D[parent[x]] + 1 /\ parent[x] \in rows \cup {Root}
    BY <1>4 DEF Tree
  <2>2. IsBelow(W(e)[N], e, Q, parent)
    BY <1>4, WalkBelow
  <2>3. ASSUME NEW n \in 0..N, NEW x \in W(e)[n]
        PROVE  x \in rows \cup {Root} /\ D[x] - D[e] \in 0..n /\ x \in W(e)[D[x] - D[e]]
    BY <1>4, <2>3, WalkDepth
  <2> DEFINE T == {x \in W(e)[N] : \A n \in 1..(D[x] - D[e]) :
                                     \E y \in W(e)[N] : D[y] - D[e] = n}
  <2> HIDE DEF W, Q, N
  <2>4. e \in T
    BY <2>1, <2>2 DEF IsBelow
  <2>5. ASSUME NEW x \in Q, parent[x] \in T
        PROVE  x \in T
    <3>1. x \in W(e)[N]
      BY <2>2, <2>5 DEF IsBelow
    <3>2. ASSUME NEW n \in 1..(D[x] - D[e])
          PROVE  \E y \in W(e)[N] : D[y] - D[e] = n
      <4>1. n \in 1..(D[parent[x]] - D[e]) \/ n = D[x] - D[e]
        BY <1>4, <2>1
      <4> QED BY <2>5, <3>1, <4>1
    <3> QED BY <3>1, <3>2
  <2>6. f \in T
    <3> HIDE DEF T
    <3>1. W(e)[N] \subseteq T
      BY <2>2, <2>4, <2>5 DEF IsBelow
    <3> QED BY <1>4, <3>1
  <2>7. D[f] - D[e] \in 0..N
    <3>1. N \in 0..N
      BY <1>1
    <3> QED BY <1>4, <2>3, <3>1
  <2>8. ASSUME NEW n \in 1..(D[f] - D[e])
        PROVE  n \in H(e)
    <3>1. PICK y \in W(e)[N] : D[y] - D[e] = n
      BY <2>6, <2>8
    <3>2. n \in 1..N /\ n - 1 \in 0..N /\ N \in 0..N
      BY <1>1, <2>7, <2>8
    <3>3. y \in W(e)[n]
      BY <2>3, <3>1, <3>2
    <3>4. y \notin W(e)[n - 1]
      BY <1>1, <2>3, <3>1, <3>2
    <3> QED BY <3>2, <3>3, <3>4
  <2>9. Cardinality(1..(D[f] - D[e])) = D[f] - D[e]
    BY <1>1, <2>7, FS_Interval
  <2>10. Cardinality(1..(D[f] - D[e])) <= Cardinality(H(e))
    <3> HIDE DEF H
    <3>1. 1..(D[f] - D[e]) \in SUBSET H(e)
      BY <2>8
    <3> QED BY <1>3, <3>1, FS_Subset
  <2> QED BY <2>9, <2>10
<1> QED BY <1>2, <1>3, <1>4

\* The rows are a tree below the root, and no live folder is on a level below the last.
TreeSound ==
  \E D : Tree(D, rows, parent) /\ \A e \in Live \cap Folder : D[e] <= MaxDepth

\* A document in the snapshot is there with a version.
VersionListed == \A d \in Document \cap Listed : published[d].version \in Version

RoomInv == TreeSound /\ PublishedWhole /\ VersionListed /\ TrashUnpublished

LEMMA RowsAreBelow ==
  ASSUME StructureAssumption, TypeOK, NEW D, Tree(D, rows, parent)
  PROVE  /\ IsBelow(Live \cup {Root}, Root, rows \ staged, parent) /\ Root \notin Live
         /\ \A e \in rows : IsBelow(Subtree(e), e, rows, parent)
<1>1. rows \in SUBSET Entry /\ rows \ staged \in SUBSET rows /\ rows \in SUBSET rows
  BY DEF TypeOK
<1> DEFINE W == Walk({Root}, rows \ staged, parent)[Cardinality(Entry)]
<1>2. IsBelow(W, Root, rows \ staged, parent)
  BY <1>1, WalkBelow
<1>3. Root \in W /\ Live = W \ {Root}
  BY <1>2, DescendIs DEF IsBelow
<1>4. Live \cup {Root} = W
  BY <1>3
<1>5. \A e \in rows : IsBelow(Subtree(e), e, rows, parent)
  BY <1>1, WalkBelow, DescendIs
<1> HIDE DEF W
<1> QED BY <1>2, <1>3, <1>4, <1>5

LEMMA NextRowsAreBelow ==
  ASSUME StructureAssumption, RoomTyped', NEW D, Tree(D, rows', parent')
  PROVE  /\ IsBelow(Live' \cup {Root}, Root, rows' \ staged', parent') /\ Root \notin Live'
         /\ \A e \in rows' : IsBelow(Subtree(e)', e, rows', parent')
<1>1. rows' \in SUBSET Entry /\ rows' \ staged' \in SUBSET rows' /\ rows' \in SUBSET rows'
  BY DEF RoomTyped
<1> DEFINE W == Walk({Root}, rows' \ staged', parent')[Cardinality(Entry)]
<1>2. IsBelow(W, Root, rows' \ staged', parent')
  BY <1>1, WalkBelow
<1>3. Root \in W /\ Live' = W \ {Root}
  BY <1>2, DescendIs DEF IsBelow
<1>4. Live' \cup {Root} = W
  BY <1>3
<1>5. \A e \in rows' : IsBelow(Subtree(e)', e, rows', parent')
  BY <1>1, WalkBelow, DescendIs
<1> HIDE DEF W
<1> QED BY <1>2, <1>3, <1>4, <1>5

\* What is live is not below a removal.
LEMMA LiveAbove ==
  ASSUME StructureAssumption, TypeOK, NEW D, Tree(D, rows, parent)
  PROVE  /\ Live \subseteq rows \ staged
         /\ \A e \in Live : parent[e] \in Live \cup {Root}
         /\ \A e \in staged : Subtree(e) \cap (Live \cup {Root}) = {}
<1> DEFINE A == Live \cup {Root}
<1>1. IsBelow(A, Root, rows \ staged, parent) /\ Root \notin Live
  BY RowsAreBelow
<1>2. rows \in SUBSET Entry /\ rows \ staged \in SUBSET rows /\ staged \subseteq rows
  BY DEF TypeOK
<1>3. Root \in rows \cup {Root} /\ Root \notin rows
  BY DEF StructureAssumption, TypeOK
<1> HIDE DEF A
<1>4. /\ A \subseteq (rows \ staged) \cup {Root}
      /\ \A f \in A : f = Root \/ parent[f] \in A
  <2>1. PICK Q : Q = rows \ staged
    OBVIOUS
  <2>2. Q \subseteq rows /\ IsBelow(A, Root, Q, parent)
    BY <1>1, <2>1
  <2>3. ASSUME NEW f \in A
        PROVE  f \in Q \cup {Root} /\ (f = Root \/ parent[f] \in A)
    BY <2>2, BelowIs
  <2> QED BY <2>1, <2>3
<1>5. ASSUME NEW e \in staged
      PROVE  Subtree(e) \cap A = {}
  <2>1. IsBelow(Subtree(e), e, rows, parent) /\ e \in rows
    BY <1>2, RowsAreBelow
  <2>2. Subtree(e) \subseteq rows
    <3>1. ASSUME NEW f \in Subtree(e)
          PROVE  f \in rows \cup {e}
      BY <2>1, <3>1, BelowIs
    <3> QED BY <2>1, <3>1
  <2> DEFINE T == rows \ A
  <2>3. e \in T
    BY <1>2, <1>3, <1>4, <2>1
  <2>4. \A f \in rows : parent[f] \in T => f \in T
    BY <1>3, <1>4
  <2> HIDE DEF T
  <2>5. Subtree(e) \subseteq T
    BY <2>1, <2>3, <2>4 DEF IsBelow
  <2> QED BY <2>5 DEF T
<1> QED BY <1>1, <1>4, <1>5 DEF A

LEMMA FitsIs ==
  ASSUME StructureAssumption, TypeOK, NEW D, Tree(D, rows, parent),
         NEW e \in Entry, NEW at \in Folder \cup {Root}, Fits(e, at)
  PROVE  /\ at \in Live \cup {Root} /\ at \in rows \cup {Root} /\ at \notin Subtree(e)
         /\ Height(e) \in Nat
         /\ e \in Folder => D[at] + 1 + Height(e) <= MaxDepth
<1>1. at \in Live \cup {Root} /\ at \notin Subtree(e)
  BY DEF Fits
<1>2. rows \subseteq Entry
  BY DEF TypeOK
<1>3. at \in rows \cup {Root}
  BY <1>1, LiveAbove
<1>4. Level(at) = D[at] /\ D[at] \in Nat
  BY <1>2, <1>3, LevelIs DEF Tree
<1>5. Height(e) \in Nat
  BY <1>2, HeightIs
<1>6. e \in Folder => D[at] + (1 + Height(e)) <= MaxDepth
  BY <1>4 DEF Fits
<1> QED BY <1>1, <1>3, <1>4, <1>5, <1>6 DEF StructureAssumption

-----------------------------------------------------------------------------
(* A row is drawn, moved or purged.                                         *)

LEMMA TreeDrawn ==
  ASSUME StructureAssumption, TypeOK, TreeSound, RoomTyped',
         NEW e \in unused, NEW at \in Folder \cup {Root}, Fits(e, at),
         rows' = rows \cup {e}, parent' = [parent EXCEPT ![e] = at], staged' = staged
  PROVE  TreeSound'
<1>1. PICK D : Tree(D, rows, parent) /\ \A f \in Live \cap Folder : D[f] <= MaxDepth
  BY DEF TreeSound
<1>2. e \in Entry /\ e \notin rows /\ e # Root /\ e \notin staged /\ Root \notin rows
      /\ rows \subseteq Entry
  BY DEF TypeOK, StructureAssumption
<1>3. /\ at \in Live \cup {Root} /\ at \in rows \cup {Root} /\ Height(e) \in Nat
      /\ e \in Folder => D[at] + 1 + Height(e) <= MaxDepth
  <2>1. Tree(D, rows, parent) /\ e \in Entry
    BY <1>1, <1>2
  <2> QED BY <2>1, FitsIs
<1>4. /\ parent'[e] = at /\ \A f \in rows : parent'[f] = parent[f]
  BY <1>2 DEF TypeOK
<1>5. PICK D2 : D2 = [f \in rows' \cup {Root} |-> IF f = e THEN D[at] + 1 ELSE D[f]]
  OBVIOUS
<1>6. /\ \A f \in rows \cup {Root} : D[f] \in Nat /\ D2[f] = D[f]
      /\ D2[e] = D[at] + 1 /\ D[Root] = 0
      /\ \A f \in rows : parent[f] \in rows \cup {Root} /\ D[f] = D[parent[f]] + 1
  BY <1>1, <1>2, <1>5 DEF Tree
<1>7. Tree(D2, rows', parent')
  <2>1. D2 \in [rows' \cup {Root} -> Nat]
    <3>1. \A f \in rows' \cup {Root} : (IF f = e THEN D[at] + 1 ELSE D[f]) \in Nat
      BY <1>3, <1>6
    <3> QED BY <1>5, <3>1
  <2>2. D2[Root] = 0
    BY <1>6
  <2>3. ASSUME NEW f \in rows'
        PROVE  parent'[f] \in rows' \cup {Root} /\ D2[f] = D2[parent'[f]] + 1
    BY <1>3, <1>4, <1>6
  <2> QED BY <2>1, <2>2, <2>3 DEF Tree
<1>8. Live' \subseteq Live \cup {e}
  <2> DEFINE T == (Live \cup {Root}) \cup {e}
  <2>1. /\ IsBelow(Live' \cup {Root}, Root, rows' \ staged', parent') /\ Root \notin Live'
        /\ IsBelow(Live \cup {Root}, Root, rows \ staged, parent)
    BY <1>1, <1>7, RowsAreBelow, NextRowsAreBelow
  <2>2. \A f \in rows \ staged : parent[f] \in Live \cup {Root} => f \in Live \cup {Root}
    BY <2>1 DEF IsBelow
  <2>3. Root \in T /\ \A f \in rows' \ staged' : parent'[f] \in T => f \in T
    BY <1>2, <1>4, <1>6, <2>2
  <2> HIDE DEF T
  <2>4. Live' \cup {Root} \subseteq T
    BY <2>1, <2>3 DEF IsBelow
  <2> QED BY <2>1, <2>4 DEF T
<1>9. ASSUME NEW f \in Live' \cap Folder
      PROVE  D2[f] <= MaxDepth
  <2>1. CASE f = e
    BY <1>3, <1>6, <1>9, <2>1 DEF StructureAssumption
  <2>2. CASE f # e
    BY <1>1, <1>6, <1>8, <1>9, <2>2, LiveAbove
  <2> QED BY <2>1, <2>2
<1> QED BY <1>7, <1>9 DEF TreeSound

\* The rows below e move with it; of those that are live afterwards, every folder is within
\* the height that was checked.
LEMMA TreeMoved ==
  ASSUME StructureAssumption, TypeOK, TreeSound, RoomTyped',
         NEW e \in rows, NEW at \in Folder \cup {Root}, Fits(e, at),
         rows' = rows, parent' = [parent EXCEPT ![e] = at],
         \A f \in rows : f # e => (f \in staged' <=> f \in staged)
  PROVE  TreeSound'
<1>1. PICK D : Tree(D, rows, parent) /\ \A f \in Live \cap Folder : D[f] <= MaxDepth
  BY DEF TreeSound
<1> DEFINE Sub == Subtree(e)
           A == Live \cup {Root}
           Q == (rows \ staged) \cap Folder
           H == Walk({e}, Q, parent)[Cardinality(Entry)]
<1>2. /\ e \in Entry /\ e # Root /\ Root \notin rows /\ rows \subseteq Entry
      /\ Q \in SUBSET rows /\ Root \notin Folder /\ rows \in SUBSET rows
  BY DEF TypeOK, StructureAssumption, Entry
<1>3. /\ at \in A /\ at \in rows \cup {Root} /\ at \notin Sub
      /\ Height(e) \in Nat
      /\ e \in Folder => D[at] + 1 + Height(e) <= MaxDepth
  BY <1>1, <1>2, FitsIs
<1>4. IsBelow(Sub, e, rows, parent) /\ IsBelow(A, Root, rows \ staged, parent)
      /\ IsBelow(H, e, Q, parent)
  BY <1>1, <1>2, RowsAreBelow, WalkBelow
<1>5. \A f \in H : D[f] - D[e] <= Height(e)
  BY <1>1, <1>2, HeightIs
<1> HIDE DEF Sub, A, Q, H
<1>6. /\ Sub \subseteq rows /\ e \in Sub /\ \A f \in Sub : D[f] >= D[e]
      /\ \A f \in Sub : f = e \/ parent[f] \in Sub
      /\ \A f \in rows : parent[f] \in Sub => f \in Sub
  <2>1. ASSUME NEW f \in Sub
        PROVE  f \in rows \cup {e} /\ (f = e \/ parent[f] \in Sub) /\ D[f] >= D[e]
    BY <1>1, <1>4, BelowIs
  <2> QED BY <1>4, <2>1 DEF IsBelow
<1>7. /\ parent'[e] = at /\ \A f \in rows : f # e => parent'[f] = parent[f]
      /\ \A f \in rows : parent[f] \in Folder \cup {Root}
  BY <1>2 DEF TypeOK
<1>8. /\ \A f \in rows \cup {Root} : D[f] \in Nat
      /\ D[Root] = 0
      /\ \A f \in rows : parent[f] \in rows \cup {Root} /\ D[f] = D[parent[f]] + 1
  BY <1>1 DEF Tree
<1>9. PICK D2 : D2 = [f \in rows \cup {Root} |-> IF f \in Sub THEN (D[f] - D[e]) + D[at] + 1
                                                 ELSE D[f]]
  OBVIOUS
<1>10. /\ \A f \in Sub : D2[f] = (D[f] - D[e]) + D[at] + 1 /\ D2[f] \in Nat
       /\ \A f \in rows \cup {Root} : f \notin Sub => D2[f] = D[f]
  BY <1>2, <1>3, <1>6, <1>8, <1>9
<1>11. Tree(D2, rows', parent')
  <2>1. D2 \in [rows' \cup {Root} -> Nat]
    BY <1>8, <1>9, <1>10
  <2>2. D2[Root] = 0
    BY <1>2, <1>6, <1>8, <1>10
  <2>3. ASSUME NEW f \in rows
        PROVE  parent'[f] \in rows \cup {Root} /\ D2[f] = D2[parent'[f]] + 1
    <3>1. CASE f = e
      BY <1>3, <1>6, <1>7, <1>8, <1>10, <3>1
    <3>2. CASE f # e /\ f \in Sub
      <4>1. parent'[f] = parent[f] /\ parent[f] \in Sub
        BY <1>6, <1>7, <3>2
      <4> QED BY <1>3, <1>6, <1>8, <1>10, <3>2, <4>1
    <3>3. CASE f # e /\ f \notin Sub
      <4>1. parent'[f] = parent[f] /\ parent[f] \notin Sub
        BY <1>6, <1>7, <3>3
      <4> QED BY <1>8, <1>10, <3>3, <4>1
    <3> QED BY <3>1, <3>2, <3>3
  <2> QED BY <2>1, <2>2, <2>3 DEF Tree
<1>12. e \notin Folder => Sub = {e}
  <2> SUFFICES ASSUME e \notin Folder
               PROVE  Sub = {e}
    OBVIOUS
  <2>1. \A f \in rows : parent[f] \in {e} => f \in {e}
    BY <1>2, <1>7
  <2>2. Sub \subseteq {e}
    BY <1>4, <2>1 DEF IsBelow
  <2> QED BY <1>6, <2>2
<1>13. ASSUME NEW f \in Live' \cap Folder
       PROVE  f \in Live \ Sub \/ f \in Sub \cap H
  <2> DEFINE T == (A \ Sub) \cup {x \in Sub : x \in H \/ x \notin Folder}
  <2>1. IsBelow(Live' \cup {Root}, Root, rows' \ staged', parent') /\ Root \notin Live'
    BY <1>11, NextRowsAreBelow
  <2>2. Root \in T
    BY <1>2, <1>4, <1>6 DEF IsBelow
  <2>3. ASSUME NEW x \in rows' \ staged', parent'[x] \in T
        PROVE  x \in T
    <3>1. CASE x = e
      BY <1>4, <1>6, <3>1 DEF IsBelow
    <3>2. CASE x # e /\ x \in Sub
      <4>1. parent[x] \in Sub /\ parent[x] \in T /\ parent[x] \in Folder
        BY <1>2, <1>6, <1>7, <2>3, <3>2
      <4>2. parent[x] \in H
        BY <4>1
      <4>3. x \in Folder => x \in Q
        BY <2>3, <3>2 DEF Q
      <4> QED BY <1>4, <3>2, <4>2, <4>3 DEF IsBelow
    <3>3. CASE x # e /\ x \notin Sub
      <4>1. parent[x] \in T /\ parent[x] \notin Sub /\ x \in rows \ staged
        BY <1>6, <1>7, <2>3, <3>3
      <4>2. x \in A
        BY <1>4, <4>1 DEF IsBelow
      <4> QED BY <3>3, <4>2
    <3> QED BY <2>3, <3>1, <3>2, <3>3
  <2> HIDE DEF T
  <2>4. Live' \cup {Root} \subseteq T
    BY <2>1, <2>2, <2>3 DEF IsBelow
  <2>5. f \in T /\ f # Root
    BY <1>13, <2>1, <2>4
  <2> QED BY <1>13, <2>5 DEF T, A
<1>14. ASSUME NEW f \in Live' \cap Folder
       PROVE  D2[f] <= MaxDepth
  <2>1. CASE f \in Live \ Sub
    <3>1. f \in rows
      BY <1>1, <2>1, LiveAbove
    <3> QED BY <1>1, <1>10, <1>14, <2>1, <3>1
  <2>2. CASE f \in Sub \cap H
    <3>1. e \in Folder
      BY <1>12, <1>14, <2>2
    <3>2. D2[f] = (D[f] - D[e]) + D[at] + 1 /\ D[f] - D[e] <= Height(e) /\ f \in rows
      BY <1>5, <1>6, <1>10, <2>2
    <3>3. D[f] \in Nat /\ D[e] \in Nat /\ D[at] \in Nat /\ MaxDepth \in Nat
      BY <1>3, <1>8, <3>2 DEF StructureAssumption
    <3>4. D[at] + 1 + Height(e) <= MaxDepth /\ Height(e) \in Nat
      BY <1>3, <3>1
    <3>5. PICK h \in Nat : h = Height(e)
      BY <3>4
    <3> QED BY <3>2, <3>3, <3>4, <3>5
  <2> QED BY <1>13, <1>14, <2>1, <2>2
<1> QED BY <1>11, <1>14 DEF TreeSound

\* Rows go with everything below them.
LEMMA TreeCut ==
  ASSUME StructureAssumption, TypeOK, TreeSound, RoomTyped', NEW gone,
         rows' = rows \ gone, staged' = staged \ gone,
         \A f \in rows \ gone : parent'[f] = parent[f] /\ parent[f] \notin gone
  PROVE  TreeSound'
<1>1. PICK D : Tree(D, rows, parent) /\ \A f \in Live \cap Folder : D[f] <= MaxDepth
  BY DEF TreeSound
<1>2. PICK D2 : D2 = [f \in rows' \cup {Root} |-> D[f]]
  OBVIOUS
<1>3. Tree(D2, rows', parent')
  BY <1>1, <1>2 DEF Tree
<1>4. Live' \subseteq Live
  <2> DEFINE T == Live \cup {Root}
  <2>1. /\ IsBelow(Live' \cup {Root}, Root, rows' \ staged', parent') /\ Root \notin Live'
        /\ IsBelow(T, Root, rows \ staged, parent)
    BY <1>1, <1>3, RowsAreBelow, NextRowsAreBelow
  <2> HIDE DEF T
  <2>2. \A f \in rows' \ staged' : parent'[f] \in T => f \in T
    BY <2>1 DEF IsBelow
  <2>3. Live' \cup {Root} \subseteq T
    BY <2>1, <2>2 DEF IsBelow
  <2> QED BY <2>1, <2>3 DEF T
<1>5. Live' \subseteq rows'
  <2>1. IsBelow(Live' \cup {Root}, Root, rows' \ staged', parent') /\ Root \notin Live'
    BY <1>3, NextRowsAreBelow
  <2>2. PICK Q : Q = rows' \ staged'
    OBVIOUS
  <2>3. Q \subseteq rows' /\ IsBelow(Live' \cup {Root}, Root, Q, parent')
    BY <2>1, <2>2
  <2>4. ASSUME NEW f \in Live' \cup {Root}
        PROVE  f \in Q \cup {Root}
    BY <1>3, <2>3, BelowIs
  <2> QED BY <2>1, <2>2, <2>4
<1> QED BY <1>1, <1>2, <1>3, <1>4, <1>5 DEF TreeSound

-----------------------------------------------------------------------------
(* The snapshot and the trash.                                              *)

LEMMA PublishedStays ==
  ASSUME PublishedWhole, VersionListed, published' = published, Listed \subseteq rows',
         \A d \in Document \cap Listed, v \in Version : version[d][v] = "ready"
           => version'[d][v] = "ready"
  PROVE  PublishedWhole' /\ VersionListed' /\ Listed' = Listed
<1>1. Listed' = Listed
  BY DEF Listed
<1>2. ASSUME NEW d \in Document \cap Listed, Ready(d, published[d].version)
      PROVE  Ready(d, published[d].version)'
  BY <1>2 DEF Ready, VersionListed
<1> QED BY <1>1, <1>2 DEF PublishedWhole, VersionListed

\* The subtrees of what stays in trash only shrink, and nothing new is listed.
LEMMA UnpublishedStays ==
  ASSUME TrashUnpublished, Listed' = Listed,
         \A r \in Roots' \cap rows' :
           r \in Roots \cap rows /\ Subtree(r)' \cap Listed \subseteq Subtree(r)
  PROVE  TrashUnpublished'
BY DEF TrashUnpublished

LEMMA DrawnWhole ==
  ASSUME StructureAssumption, TypeOK, StructureInv, RoomInv,
         NEW e \in Entry, NEW at \in Folder \cup {Root}, Drawn(e, at)
  PROVE  RoomInv'
<1>1. /\ RoomTyped' /\ e \in unused /\ rows' = rows \cup {e} /\ staged' = staged
      /\ trash' = trash /\ parent' = [parent EXCEPT ![e] = at]
  BY DrawnTyped
<1>2. Fits(e, at) /\ published' = published
  BY DEF Drawn, CreateFolder, UploadDocument
<1>3. TreeSound'
  BY <1>1, <1>2, TreeDrawn DEF RoomInv
<1>4. e \notin rows /\ Listed \subseteq rows
  BY <1>1 DEF TypeOK, RoomInv, PublishedWhole
<1>5. PublishedWhole' /\ VersionListed' /\ Listed' = Listed
  <2>1. version' = version \/ (e \in Document /\ version' = [version EXCEPT ![e][1] = "quarantine"])
    BY DEF Drawn, CreateFolder, UploadDocument, contentVars
  <2>2. \A d \in Document \cap Listed : version'[d] = version[d]
    BY <1>4, <2>1 DEF TypeOK
  <2> QED BY <1>1, <1>2, <1>4, <2>2, PublishedStays DEF RoomInv
<1>6. Roots' = Roots /\ Roots \cap unused = {}
  BY <1>1 DEF Roots, StructureInv, TrashSound
<1>7. ASSUME NEW r \in Roots' \cap rows'
      PROVE  r \in Roots \cap rows /\ Subtree(r)' \cap Listed \subseteq Subtree(r)
  <2>1. r \in Roots \cap rows
    BY <1>1, <1>6, <1>7
  <2>2. PICK D : Tree(D, rows, parent)
    BY DEF RoomInv, TreeSound
  <2>3. PICK D2 : Tree(D2, rows', parent')
    BY <1>3 DEF TreeSound
  <2>4. IsBelow(Subtree(r), r, rows, parent)
    BY <2>1, <2>2, RowsAreBelow
  <2>5. IsBelow(Subtree(r)', r, rows', parent')
    BY <1>1, <1>7, <2>3, NextRowsAreBelow
  <2>6. \A f \in rows : parent'[f] = parent[f] /\ parent[f] # e
    <3>1. \A f \in rows : parent[f] \in rows \cup {Root}
      BY <2>2 DEF Tree
    <3> QED BY <1>1, <1>4, <3>1 DEF TypeOK, StructureAssumption
  <2> DEFINE T == Subtree(r) \cup {e}
  <2>7. r \in T /\ \A f \in rows' : parent'[f] \in T => f \in T
    BY <1>1, <2>4, <2>6 DEF IsBelow
  <2> HIDE DEF T
  <2>8. Subtree(r)' \subseteq T
    BY <2>5, <2>7 DEF IsBelow
  <2> QED BY <1>4, <2>1, <2>8 DEF T
<1>8. TrashUnpublished'
  BY <1>5, <1>7, UnpublishedStays DEF RoomInv
<1> QED BY <1>3, <1>5, <1>8 DEF RoomInv

\* A row that is written goes below a live folder: it leaves the subtrees of removals or
\* stays where it was in them.
LEMMA MovedWhole ==
  ASSUME StructureAssumption, TypeOK, StructureInv, RoomInv, RoomTyped',
         NEW e \in rows, NEW at \in Folder \cup {Root}, Fits(e, at),
         rows' = rows, parent' = [parent EXCEPT ![e] = at], published' = published,
         version' = version,
         \A f \in rows : f # e => (f \in staged' <=> f \in staged),
         \A r \in Roots' \cap rows : r \in Roots \/ (r = e /\ Subtree(e) \cap Listed = {})
  PROVE  RoomInv'
<1>1. TreeSound'
  BY TreeMoved DEF RoomInv
<1>2. PublishedWhole' /\ VersionListed' /\ Listed' = Listed
  BY PublishedStays DEF RoomInv, PublishedWhole, VersionListed
<1>3. PICK D : Tree(D, rows, parent)
  BY DEF RoomInv, TreeSound
<1>4. PICK D2 : Tree(D2, rows', parent')
  BY <1>1 DEF TreeSound
<1>5. parent'[e] = at /\ \A f \in rows : f # e => parent'[f] = parent[f]
  BY DEF TypeOK
<1>6. e \in Entry
  BY DEF TypeOK
<1>7. at \in Live \cup {Root} /\ at \notin Subtree(e)
  BY <1>3, <1>6, FitsIs
<1>8. ASSUME NEW r \in rows, at \notin Subtree(r)
      PROVE  Subtree(r)' \subseteq Subtree(r)
  <2>1. IsBelow(Subtree(r), r, rows, parent)
    BY <1>3, RowsAreBelow
  <2>2. IsBelow(Subtree(r)', r, rows', parent')
    BY <1>4, NextRowsAreBelow
  <2>3. r \in Subtree(r) /\ \A f \in rows : parent'[f] \in Subtree(r) => f \in Subtree(r)
    BY <1>5, <1>8, <2>1 DEF IsBelow
  <2> QED BY <2>2, <2>3 DEF IsBelow
<1>9. ASSUME NEW r \in Roots' \cap rows'
      PROVE  Subtree(r)' \cap Listed = {}
  <2>1. r \in rows
    BY <1>9
  <2>2. CASE r \in Roots
    <3>1. r \in staged /\ Subtree(r) \cap Listed = {}
      BY <2>1, <2>2 DEF StructureInv, RemovalStands, RoomInv, TrashUnpublished
    <3>2. at \notin Subtree(r)
      BY <1>3, <1>7, <3>1, LiveAbove
    <3> QED BY <1>8, <2>1, <3>1, <3>2
  <2>3. CASE r = e /\ Subtree(e) \cap Listed = {}
    BY <1>7, <1>8, <2>3
  <2> QED BY <1>9, <2>1, <2>2, <2>3
<1>10. TrashUnpublished'
  BY <1>2, <1>9 DEF TrashUnpublished
<1> QED BY <1>1, <1>2, <1>10 DEF RoomInv

LEMMA WrittenWhole ==
  ASSUME StructureAssumption, TypeOK, StructureInv, RoomInv,
         NEW e \in Entry, NEW at \in Folder \cup {Root}, NEW remove \in BOOLEAN,
         WriteEntry(e, at, remove)
  PROVE  RoomInv'
<1>1. /\ RoomTyped' /\ e \in rows /\ rows' = rows /\ published' = published
      /\ parent' = [parent EXCEPT ![e] = at]
      /\ staged' = IF remove THEN staged \cup {e} ELSE staged \ {e}
      /\ Roots' \subseteq Roots \cup {e}
  BY WrittenTyped DEF StructureInv
<1>2. Fits(e, at) /\ version' = version
  BY DEF WriteEntry, contentVars
<1>3. \A f \in rows : f # e => (f \in staged' <=> f \in staged)
  BY <1>1
<1>4. Roots' = Roots \/ DraftOnly(e)
  BY DEF WriteEntry, Roots
<1>5. \A r \in Roots' \cap rows : r \in Roots \/ (r = e /\ Subtree(e) \cap Listed = {})
  BY <1>1, <1>4 DEF DraftOnly
<1> QED BY <1>1, <1>2, <1>3, <1>5, MovedWhole

LEMMA RestoredWhole ==
  ASSUME StructureAssumption, TypeOK, StructureInv, RoomInv,
         NEW e \in Entry, NEW at \in Folder \cup {Root}, WriteRestored(e, at)
  PROVE  RoomInv'
<1>1. /\ RoomTyped' /\ rows' = rows /\ published' = published
      /\ parent' = [parent EXCEPT ![e] = at] /\ staged' = staged \ {e}
      /\ Roots' = Roots \ {e}
  BY RestoredTyped DEF StructureInv
<1>2. Fits(e, at) /\ version' = version /\ e \in staged
  BY DEF WriteRestored, contentVars
<1>3. e \in rows
  BY <1>2 DEF TypeOK
<1>4. \A f \in rows : f # e => (f \in staged' <=> f \in staged)
  BY <1>1
<1>5. \A r \in Roots' \cap rows : r \in Roots
  BY <1>1
<1> QED BY <1>1, <1>2, <1>3, <1>4, <1>5, MovedWhole

\* A snapshot lists live entries with their folders, and no live entry is below a removal.
LEMMA SnapshotWhole ==
  ASSUME StructureAssumption, TypeOK, StructureInv, RoomInv, WriteSnapshot
  PROVE  RoomInv'
<1>1. /\ RoomTyped' /\ rows' = rows /\ parent' = parent /\ staged' = staged
      /\ published' = Proposed /\ Roots' = Roots \cup staged
  BY SnapshotTyped DEF StructureInv
<1>2. version' = version /\ working' = working
  BY DEF WriteSnapshot, contentVars
<1>3. Live' = Live
  BY <1>1, DescendIs
<1>4. TreeSound'
  BY <1>1, <1>3 DEF RoomInv, TreeSound
<1>5. PICK D : Tree(D, rows, parent)
  BY DEF RoomInv, TreeSound
<1>6. /\ Live \subseteq rows \ staged /\ Live \subseteq rows
      /\ \A e \in Live : parent[e] \in Live \cup {Root}
      /\ \A e \in staged : Subtree(e) \cap (Live \cup {Root}) = {}
  BY <1>5, LiveAbove
<1>7. rows \subseteq Entry /\ parent \in [Entry -> Folder \cup {Root}]
      /\ working \in [Document -> 0..MaxVersion] /\ Entry \ Folder = Document /\ MaxVersion \in Nat
  BY ConstantsTyped DEF TypeOK
<1>8. ASSUME NEW e \in Listed'
      PROVE  /\ e \in Live /\ Proposed[e].at = parent[e]
             /\ e \in Document => /\ Ready(e, Proposed[e].version)
                                 /\ Proposed[e].version \in Version
  <2>1. e \in Entry /\ Proposed[e] # Hidden
    BY <1>1, <1>8 DEF Listed
  <2>2. e \in Live
    BY <2>1 DEF Proposed
  <2>3. CASE e \in Folder
    BY <2>1, <2>2, <2>3 DEF Proposed, StructureAssumption
  <2>4. CASE e \notin Folder
    <3>1. Proposed[e] = [at |-> parent[e], version |-> working[e]] /\ Ready(e, working[e])
      BY <2>1, <2>2, <2>4 DEF Proposed
    <3>2. e \in Document => working[e] \in Version
      BY <1>7, <3>1 DEF Ready, Version
    <3> QED BY <2>2, <3>1, <3>2
  <2> QED BY <2>2, <2>3, <2>4
<1>9. \A e \in Live \cap Folder : e \in Listed'
  <2>1. \A e \in Live \cap Folder : Proposed[e] = [at |-> parent[e], version |-> 0]
    BY <1>6, <1>7 DEF Proposed
  <2>2. \A x : [at |-> x, version |-> 0] # Hidden
    BY DEF Hidden
  <2> QED BY <1>1, <1>6, <1>7, <2>1, <2>2 DEF Listed
<1>10. PublishedWhole'
  <2>1. ASSUME NEW e \in Listed'
        PROVE  /\ published'[e].at # Root => published'[e].at \in Listed'
               /\ e \in rows'
               /\ e \in Document => /\ published'[e].version # 0
                                   /\ version'[e][published'[e].version] = "ready"
    <3>1. parent[e] # Root => parent[e] \in Live \cap Folder
      BY <1>6, <1>7, <1>8
    <3>2. e \in Document => Proposed[e].version # 0 /\ version[e][Proposed[e].version] = "ready"
      BY <1>8 DEF Ready
    <3> QED BY <1>1, <1>2, <1>6, <1>8, <1>9, <3>1, <3>2
  <2> QED BY <2>1 DEF PublishedWhole, Ready
<1>11. VersionListed'
  BY <1>1, <1>8 DEF VersionListed
<1>12. TrashUnpublished'
  <2>1. ASSUME NEW r \in Roots' \cap rows'
        PROVE  Subtree(r)' \cap Listed' = {}
    <3>1. Subtree(r)' = Subtree(r)
      BY <1>1, DescendIs
    <3>2. r \in staged
      BY <1>1 DEF StructureInv, RemovalStands
    <3> QED BY <1>6, <1>8, <3>1, <3>2
  <2> QED BY <2>1 DEF TrashUnpublished
<1> QED BY <1>4, <1>10, <1>11, <1>12 DEF RoomInv

\* The purge takes a subtree that nothing lists.
LEMMA PurgedWhole ==
  ASSUME StructureAssumption, TypeOK, StructureInv, RoomInv, FinalizeTrashPurge
  PROVE  RoomInv'
<1> DEFINE e == worker.root
           gone == Purged(e)
<1>1. RoomTyped' /\ published' = published /\ Roots' \subseteq Roots
  BY FinalizeTyped DEF StructureInv
<1>2. /\ rows' = rows \ gone /\ staged' = staged \ gone
      /\ parent' = [f \in Entry |-> IF f \in gone THEN Root ELSE parent[f]]
      /\ version' = [d \in Document |-> IF d \in gone THEN [v \in Version |-> "none"]
                                        ELSE version[d]]
  BY DEF FinalizeTrashPurge
<1>3. e \in Roots
  <2>1. e \in Due
    BY DEF FinalizeTrashPurge, StructureInv, TrashSound
  <2>2. 1..due \subseteq 1..Len(trash) /\ trash \in Seq(SUBSET Entry)
    BY DEF TypeOK
  <2>3. \E i \in 1..due : e \in trash[i]
    BY <2>1 DEF Due
  <2> QED BY <2>2, <2>3, RootsAre
<1>4. PICK D : Tree(D, rows, parent)
  BY DEF RoomInv, TreeSound
<1>5. e \in rows => IsBelow(Subtree(e), e, rows, parent)
  BY <1>4, RowsAreBelow
<1>6. gone \cap Listed = {}
  BY <1>3 DEF Purged, RoomInv, TrashUnpublished
<1>7. \A f \in rows : parent[f] \in gone => f \in gone
  BY <1>5 DEF Purged, IsBelow
<1> HIDE DEF gone, e
<1>8. \A f \in rows \ gone : parent'[f] = parent[f] /\ parent[f] \notin gone
  BY <1>2, <1>7 DEF TypeOK
<1>9. TreeSound'
  BY <1>1, <1>2, <1>8, TreeCut DEF RoomInv
<1>10. Listed \subseteq rows
  BY DEF RoomInv, PublishedWhole
<1>11. PublishedWhole' /\ VersionListed' /\ Listed' = Listed
  <2>1. \A d \in Document \cap Listed : version'[d] = version[d]
    BY <1>2, <1>6
  <2> QED BY <1>1, <1>2, <1>6, <1>10, <2>1, PublishedStays DEF RoomInv
<1>12. ASSUME NEW r \in Roots' \cap rows'
       PROVE  r \in Roots \cap rows /\ Subtree(r)' \cap Listed \subseteq Subtree(r)
  <2>1. r \in Roots \cap rows
    BY <1>1, <1>2
  <2>2. PICK D2 : Tree(D2, rows', parent')
    BY <1>9 DEF TreeSound
  <2>3. IsBelow(Subtree(r), r, rows, parent)
    BY <1>4, <2>1, RowsAreBelow
  <2>4. IsBelow(Subtree(r)', r, rows', parent')
    BY <1>1, <2>2, NextRowsAreBelow
  <2>5. r \in Subtree(r) /\ \A f \in rows' : parent'[f] \in Subtree(r) => f \in Subtree(r)
    BY <1>2, <1>8, <2>3 DEF IsBelow
  <2> QED BY <2>1, <2>4, <2>5 DEF IsBelow
<1>13. TrashUnpublished'
  BY <1>11, <1>12, UnpublishedStays DEF RoomInv
<1> QED BY <1>9, <1>11, <1>13 DEF RoomInv

LEMMA ContentWhole ==
  ASSUME StructureAssumption, TypeOK, StructureInv, RoomInv, ContentStep
  PROVE  RoomInv'
<1>1. UNCHANGED <<unused, rows, parent, staged, published, trash>>
  BY ContentTyped DEF treeVars
<1>2. Live' = Live /\ (\A e : Subtree(e)' = Subtree(e)) /\ Roots' = Roots
  BY <1>1, DescendIs DEF Roots
<1>3. TreeSound'
  BY <1>1, <1>2 DEF RoomInv, TreeSound
<1>4. \A d \in Document, v \in Version : version[d][v] = "ready" => version'[d][v] = "ready"
  <2>1. \/ version' = version
        \/ \E d \in Document, v \in Version, s \in {"quarantine", "ready"} :
             /\ version[d][v] # "ready" /\ version' = [version EXCEPT ![d][v] = s]
    BY DEF ContentStep, UpdateDocumentMetadata, UploadVersion, AcceptVersion
  <2> QED BY <2>1 DEF TypeOK
<1>5. Listed \subseteq rows
  BY DEF RoomInv, PublishedWhole
<1>6. PublishedWhole' /\ VersionListed' /\ Listed' = Listed
  BY <1>1, <1>4, <1>5, PublishedStays DEF RoomInv
<1>7. TrashUnpublished'
  BY <1>1, <1>2, <1>6 DEF RoomInv, TrashUnpublished
<1> QED BY <1>3, <1>6, <1>7 DEF RoomInv

\* What leaves the tree, the versions, the snapshot and the roots alone.
LEMMA OthersWhole ==
  ASSUME StructureAssumption, TypeOK, RoomInv,
         UNCHANGED <<rows, parent, staged, version, published, trash>>
  PROVE  RoomInv'
<1>1. Live' = Live /\ (\A e : Subtree(e)' = Subtree(e)) /\ Roots' = Roots /\ Listed' = Listed
  BY DescendIs DEF Roots, Listed
<1>2. TreeSound'
  BY <1>1 DEF RoomInv, TreeSound
<1>3. PublishedWhole' /\ VersionListed'
  BY <1>1 DEF RoomInv, PublishedWhole, VersionListed, Ready
<1>4. TrashUnpublished'
  BY <1>1 DEF RoomInv, TrashUnpublished
<1> QED BY <1>2, <1>3, <1>4 DEF RoomInv

LEMMA RoomStep ==
  ASSUME StructureAssumption, TypeOK, StructureInv, RoomInv, [Next]_vars
  PROVE  RoomInv'
<1>1. ASSUME NEW e \in Entry, NEW at \in Folder \cup {Root},
             \/ Drawn(e, at)
             \/ WriteRestored(e, at) /\ Noticed({e})
             \/ \E remove \in BOOLEAN : /\ WriteEntry(e, at, remove) /\ Noticed({e})
                                        /\ ~remove => e \notin staged
      PROVE  RoomInv'
  BY <1>1, DrawnWhole, RestoredWhole, WrittenWhole
<1>2. CASE WriteSnapshot
  BY <1>2, SnapshotWhole
<1>3. CASE ContentStep
  BY <1>3, ContentWhole
<1>4. CASE MutateEntry
  BY <1>4, MutationIs, WrittenWhole
<1>5. CASE FinalizeTrashPurge
  BY <1>5, PurgedWhole
<1>6. CASE \/ ReadStep \/ BeginTrashPurge \/ DeleteObjects \/ AbandonPurge \/ ReachPurgeAfter
           \/ UNCHANGED vars
  <2>1. UNCHANGED <<rows, parent, staged, version, published, trash>>
    <3>1. CASE ReadStep
      BY <3>1, ReadsAre DEF treeVars, contentVars, trashVars
    <3>2. CASE \/ BeginTrashPurge \/ DeleteObjects \/ AbandonPurge \/ ReachPurgeAfter
               \/ UNCHANGED vars
      BY <3>2 DEF BeginTrashPurge, DeleteObjects, AbandonPurge, ReachPurgeAfter, vars,
                  treeVars, contentVars, trashVars
    <3> QED BY <1>6, <3>1, <3>2
  <2> QED BY <2>1, OthersWhole
<1>7. PublishReviewed => WriteSnapshot
  BY DEF PublishReviewed
<1> QED BY <1>1, <1>2, <1>3, <1>4, <1>5, <1>6, <1>7, StepsAre

LEMMA RoomInit ==
  ASSUME StructureAssumption, Init
  PROVE  RoomInv
<1>1. rows = {} /\ staged = {} /\ Listed = {}
  BY DEF Init, Listed
<1>2. PICK D : D = [f \in {Root} |-> 0]
  OBVIOUS
<1>3. Tree(D, rows, parent)
  BY <1>1, <1>2 DEF Tree
<1>4. Live = {}
  <2>1. TypeOK
    BY StructureInit
  <2> QED BY <1>1, <1>3, <2>1, LiveAbove
<1>5. TreeSound
  BY <1>3, <1>4 DEF TreeSound
<1> QED BY <1>1, <1>5 DEF RoomInv, PublishedWhole, VersionListed, TrashUnpublished

LEMMA RoomInvWhole ==
  ASSUME StructureAssumption, TypeOK, RoomInv
  PROVE  RoomWhole
<1>1. PICK D : Tree(D, rows, parent) /\ \A f \in Live \cap Folder : D[f] <= MaxDepth
  BY DEF RoomInv, TreeSound
<1>2. rows \in SUBSET Entry /\ rows \in SUBSET rows
  BY DEF TypeOK
<1>3. rows \subseteq Descend({Root}, rows)[Cardinality(Entry)]
  <2> DEFINE W == Walk({Root}, rows, parent)[Cardinality(Entry)]
  <2>1. IsBelow(W, Root, rows, parent)
    BY <1>1, <1>2, WalkBelow
  <2>2. W = Descend({Root}, rows)[Cardinality(Entry)]
    BY DescendIs
  <2> HIDE DEF W
  <2>3. rows \subseteq W
    BY <1>1, <2>1, AllBelowRoot
  <2> QED BY <2>2, <2>3
<1>4. ASSUME NEW f \in Live \cap Folder
      PROVE  Level(f) <= MaxDepth
  BY <1>1, <1>2, LevelIs, LiveAbove
<1> QED BY <1>3, <1>4 DEF RoomWhole, TreeWhole, RoomInv

-----------------------------------------------------------------------------
(* The theorems.                                                            *)

LEMMA StructureInvariant == Spec => [](TypeOK /\ StructureInv)
<1>1. Init => TypeOK /\ StructureInv
  BY StructureAssumption, StructureInit
<1>2. TypeOK /\ StructureInv /\ [Next]_vars => (TypeOK /\ StructureInv)'
  BY StructureAssumption, StructureStep
<1> QED BY <1>1, <1>2, PTL DEF Spec

\* Whatever the members and the purge do, the rows have their types: an entry of the tree
\* has a drawn id, a flagged entry is in the tree, and the batches whose deadline has passed
\* are batches of the trash, the ones a purge has emptied no longer counted.
THEOREM StructureTypeCorrect == Spec => []TypeOK
BY StructureInvariant, PTL

\* No move, rename or reorder under way when something went to the trash, and none begun
\* afterwards, takes the removal of a root back: mutate_structure_entry writes the flag the
\* handler has read, and both revisions are of the read.
THEOREM RemovalsStand == Spec => []RemovalStands
<1>1. StructureInv => RemovalStands
  BY DEF StructureInv
<1> QED BY <1>1, StructureInvariant, PTL

\* publish_room_structure compares two revisions with the dry run's, and whatever changes
\* the dry run's result moves the first of them.
THEOREM PublishesAsReviewed == Spec => PublishedAsReviewed
<1>1. TypeOK /\ StructureInv /\ [Next]_vars =>
        [published' # published /\ client.pc = "review" /\ client'.pc = "away"
           => ~client.changed]_vars
  <2> SUFFICES ASSUME TypeOK, StructureInv, [Next]_vars,
                      published' # published, client.pc = "review", client'.pc = "away"
               PROVE  ~client.changed
    OBVIOUS
  <2> QED BY StructureAssumption, PublishIs
<1> QED BY <1>1, StructureInvariant, PTL DEF Spec, PublishedAsReviewed

\* Between the page's reads, the handler's own and the write under both revisions nobody
\* moved the entry, flagged it or took its flag.
THEOREM WritesAsSeen == Spec => WrittenAsSeen
<1>1. TypeOK /\ StructureInv /\ [Next]_vars =>
        [client.pc = "write" /\ client'.pc = "away" /\ (parent' # parent \/ staged' # staged)
           => parent[client.entry] = client.from /\ (client.entry \in staged) = client.was]_vars
  <2> SUFFICES ASSUME TypeOK, StructureInv, [Next]_vars, client.pc = "write",
                      client'.pc = "away", parent' # parent \/ staged' # staged
               PROVE  parent[client.entry] = client.from /\ (client.entry \in staged) = client.was
    OBVIOUS
  <2> QED BY StructureAssumption, WriteIs
<1> QED BY <1>1, StructureInvariant, PTL DEF Spec, WrittenAsSeen

\* However moves, publications, removals, restores and purges follow each other: every row
\* hangs from the root and no live folder is too deep, a snapshot lists entries with their
\* folders and documents with a version viewers may read, and nothing below a root of the
\* trash is listed.
THEOREM RoomStaysWhole == Spec => []RoomWhole
<1>1. Init => RoomInv
  BY StructureAssumption, RoomInit
<1>2. TypeOK /\ StructureInv /\ RoomInv /\ [Next]_vars => RoomInv'
  BY StructureAssumption, RoomStep
<1>3. TypeOK /\ RoomInv => RoomWhole
  BY StructureAssumption, RoomInvWhole
<1> QED BY <1>1, <1>2, <1>3, StructureInvariant, PTL DEF Spec
=============================================================================
