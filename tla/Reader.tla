------------------------------- MODULE Reader -------------------------------
(* The reading room in a viewer's browser: where the reader is, what was     *)
(* read from the server for it, the preview activity opened for the version  *)
(* that was read, and the page asked for under both.  The server meanwhile   *)
(* publishes, withdraws, revokes and ends sessions, and every call takes its *)
(* time or fails.  Serving a call and its answer are one step where nothing  *)
(* the reader does can tell; the room's list and the re-read after a refusal *)
(* can overtake one another, and are two.                                    *)
(*                                                                           *)
(* A document has one page.  Whether the activity's row is still active is   *)
(* Previews' and left open here: a page or a heartbeat may find it ended.    *)
CONSTANTS
  Doc,      \* documents of the room
  Revised,  \* those of them that are published anew or withdrawn meanwhile
  Version,  \* versions a document may be published in
  NoDoc

VARIABLES
  standing,  \* what the server knows of the viewer
  published, \* the published version of each document, or "gone"
  at,        \* the location: a document, the room's list, or the list of rooms
  arrived,   \* arrived.current: the only room was entered by itself, or need not be
  ended,     \* sessionEnded: every surface has given way to a notice
  lost,      \* roomLost
  notice,    \* documentWithdrawn, with the document it is about
  back,      \* history: that document was published again since it was found gone
  listing,   \* structure
  listCall,  \* the call of loadViewerStructure that settles it
  meta,      \* loaded, the metadata with the document it was read for
  metaCall,  \* the document whose loadViewerDocument is under way for its effect
  reread,    \* the re-read after a refused open, by refusalAbort
  tracker,   \* trackPreviewActivity of the open version
  page       \* PageReader with its source

server == <<standing, published>>
place == <<at, arrived, lost, notice, back>>
listings == <<listing, listCall>>
metadata == <<meta, metaCall>>
reading == <<tracker, page>>
vars == <<server, place, ended, listings, metadata, reread, reading>>

Answer == Version \cup {"gone", "failed", "expired"}
NoReread == [step |-> "none", doc |-> NoDoc, found |-> "none", docs |-> {}]
NoTracker == [known |-> FALSE, over |-> FALSE, again |-> FALSE, opening |-> FALSE]
NoPage == [step |-> "none", doc |-> NoDoc, image |-> "none", text |-> FALSE, opened |-> FALSE]
Loading == [kind |-> "loading", docs |-> {}]

TypeOK ==
  /\ standing \in {"reads", "revoked", "signed out"}
  /\ published \in [Doc -> Version \cup {"gone"}]
  /\ at \in Doc \cup {"room", "rooms"}
  /\ arrived \in BOOLEAN /\ ended \in BOOLEAN /\ lost \in BOOLEAN /\ back \in BOOLEAN
  /\ notice \in Doc \cup {NoDoc}
  /\ listing \in [kind: {"loading", "failed", "ready"}, docs: SUBSET Doc]
  /\ listCall \in [step: {"none", "sent", "failed", "ready"}, docs: SUBSET Doc]
  /\ meta \in [doc: Doc \cup {NoDoc}, load: Version \cup {"loading", "gone", "failed"}]
  /\ metaCall \in Doc \cup {NoDoc}
  /\ reread \in [step: {"none", "document", "found", "room", "listed"}, doc: Doc \cup {NoDoc},
                 found: Answer \cup {"none"}, docs: SUBSET Doc]
  /\ tracker \in [known: BOOLEAN, over: BOOLEAN, again: BOOLEAN, opening: BOOLEAN]
  /\ page \in [step: {"none", "loading", "shown", "failed"}, doc: Doc \cup {NoDoc},
               image: Version \cup {"none"}, text: BOOLEAN, opened: BOOLEAN]

-----------------------------------------------------------------------------
(* What the server answers. *)

\* The metadata of a document, a composed page and a text layer are all of the version
\* that is published when they are read.
Document(d) ==
  CASE standing = "signed out" -> "expired"
    [] standing = "revoked" -> "gone"
    [] OTHER -> published[d]

Structure == IF standing = "reads" THEN {d \in Doc : published[d] # "gone"} ELSE {}

\* begin_preview_activity for the version the reader has the metadata of.
Verdict(d, version) ==
  CASE Document(d) = version -> "granted"
    [] Document(d) = "expired" -> "expired"
    [] OTHER -> "refused"

\* authorize_watermark_delivery: a page is delivered under an activity of its own version.
Deliverable(d, image, version) == Document(d) \in Version /\ image = version

-----------------------------------------------------------------------------
(* The location, and what follows a change of it. *)

\* openDocument: metadata counts only for the document it was read for.
OpenVersion(loaded, documentId) ==
  IF loaded.doc = documentId /\ loaded.load \in Version THEN loaded.load ELSE "none"

Open == OpenVersion(meta, at)

\* The effect of another target: its tracker stops, a new one starts and the page is asked
\* for through it; the same version keeps both.
Follow(to) ==
  LET next == OpenVersion(meta', to) IN
  IF to = at /\ next = Open THEN UNCHANGED reading
  ELSE IF next = "none" THEN tracker' = NoTracker /\ page' = NoPage
  ELSE /\ tracker' = [NoTracker EXCEPT !.opening = TRUE]
       /\ page' = [NoPage EXCEPT !.step = "loading", !.doc = to]

\* Slip: the re-read goes on.
SlipGoesOn == reread

\* The clean-up of the document's effect: its re-read must not answer under the next.
Abandoned == NoReread

Move(to) ==
  /\ at' = to
  /\ reread' = Abandoned
  /\ IF to \in Doc
       THEN /\ meta' = [doc |-> to, load |-> "loading"]
            /\ metaCall' = to
       ELSE metaCall' = NoDoc /\ UNCHANGED meta
  /\ listCall' =
       CASE to = "rooms" -> [step |-> "none", docs |-> {}]
         [] at = "rooms" -> [step |-> "sent", docs |-> {}]
         [] OTHER -> listCall
  /\ Follow(to)

\* openRoom, openDocumentById, closeDocument, Back and Forward.
Navigate(to) ==
  /\ to # at
  /\ Move(to)
  /\ listing' = IF at = "rooms" THEN Loading ELSE listing
  /\ lost' = (lost /\ to = "rooms")
  /\ notice' = NoDoc /\ back' = FALSE
  /\ UNCHANGED <<server, arrived, ended>>

\* The first list of rooms: the only room is entered by itself.
Arrive ==
  /\ ~arrived /\ standing # "signed out"
  /\ arrived' = TRUE
  /\ IF at = "rooms" /\ standing = "reads"
       THEN /\ Move("room")
            /\ listing' = Loading
            /\ UNCHANGED <<server, lost, notice, back, ended>>
       ELSE UNCHANGED <<server, at, lost, notice, back, ended, listings, metadata, reread, reading>>

\* loseAccess: an ended session ends every room, a refusal the open one.
SessionEnds == ended' = TRUE /\ UNCHANGED <<server, place, listings, metadata, reread, reading>>

RoomIsLost ==
  /\ arrived' = TRUE /\ lost' = TRUE
  /\ Move("rooms")
  /\ notice' = NoDoc /\ back' = FALSE
  /\ UNCHANGED <<server, ended, listing>>

-----------------------------------------------------------------------------
(* The room's list and the document's metadata. *)

ListServed ==
  /\ listCall.step = "sent"
  /\ listCall' \in {[step |-> "failed", docs |-> {}]} \cup
       (IF standing = "signed out" THEN {} ELSE {[step |-> "ready", docs |-> Structure]})
  /\ UNCHANGED <<server, place, ended, listing, metadata, reread, reading>>

\* settle: a withdrawal's re-read may have answered first.
Settled == IF listing.kind = "loading" THEN [kind |-> listCall.step, docs |-> listCall.docs] ELSE listing

ListAnswered ==
  /\ listCall.step \in {"failed", "ready"}
  /\ listing' = Settled
  /\ listCall' = [step |-> "none", docs |-> {}]
  /\ UNCHANGED <<server, place, ended, metadata, reread, reading>>

\* An ended session fails this call like any other failure.
MetadataAnswered ==
  /\ metaCall # NoDoc
  /\ \E answer \in {Document(metaCall), "failed"} :
       meta' = [doc |-> metaCall, load |-> IF answer = "expired" THEN "failed" ELSE answer]
  /\ metaCall' = NoDoc
  /\ Follow(at)
  /\ UNCHANGED <<server, place, ended, listings, reread>>

-----------------------------------------------------------------------------
(* The preview activity and the page. *)

PageFails == [NoPage EXCEPT !.step = "failed", !.doc = page.doc]

Granted ==
  /\ tracker' = [NoTracker EXCEPT !.known = TRUE]
  /\ page' = IF page.step = "loading" THEN [page EXCEPT !.opened = TRUE] ELSE page
  /\ UNCHANGED reread

\* A begin that fails fails the page that waits for it, and a reopening is tried again.
NotGranted(answer) ==
  /\ tracker' = [tracker EXCEPT !.opening = FALSE, !.again = FALSE,
                                !.over = @ \/ (tracker.again /\ answer = "failed")]
  /\ page' = IF page.step = "loading" THEN PageFails ELSE page
  /\ reread' = IF answer = "refused" THEN [NoReread EXCEPT !.step = "document", !.doc = at]
               ELSE reread

OpenAnswered ==
  /\ tracker.opening
  /\ \E answer \in {Verdict(at, Open), "failed"} :
       IF answer = "expired" THEN SessionEnds
       ELSE /\ IF answer = "granted" THEN Granted ELSE NotGranted(answer)
            /\ UNCHANGED <<server, place, ended, listings, metadata>>

\* What a begin under way is shared by.
Reopening(t) == [t EXCEPT !.over = FALSE, !.again = TRUE, !.opening = TRUE]

\* onInteraction, onVisibilityChange.
Interact ==
  /\ tracker.over
  /\ tracker' = Reopening(tracker)
  /\ UNCHANGED <<server, place, ended, listings, metadata, reread, page>>

\* beat: not accepted, because the row ended in another tab, on the server or with the grant.
Beat ==
  /\ tracker.known
  /\ IF standing = "signed out" THEN SessionEnds
     ELSE /\ tracker' = Reopening([tracker EXCEPT !.known = FALSE])
          /\ UNCHANGED <<server, place, ended, listings, metadata, reread, page>>

\* finish, after inactivity or as the page is hidden.
Finish ==
  /\ tracker.known
  /\ tracker' = [tracker EXCEPT !.known = FALSE, !.over = TRUE]
  /\ UNCHANGED <<server, place, ended, listings, metadata, reread, page>>

\* compose, or loadTextLayer: one of the calls a page waits for.
Composed ==
  /\ page.step = "loading" /\ page.image = "none"
  /\ \E answer \in {Document(page.doc), "failed"} :
       IF answer = "expired" THEN SessionEnds
       ELSE /\ page' = IF answer \in Version THEN [page EXCEPT !.image = answer] ELSE PageFails
            /\ UNCHANGED <<server, place, ended, listings, metadata, reread, tracker>>

TextRead ==
  /\ page.step = "loading" /\ ~page.text
  /\ \E answer \in {Document(page.doc), "failed"} :
       IF answer = "expired" THEN SessionEnds
       ELSE /\ page' = IF answer \in Version THEN [page EXCEPT !.text = TRUE] ELSE PageFails
            /\ UNCHANGED <<server, place, ended, listings, metadata, reread, tracker>>

\* All three are there: the browser asks for the image, which may be refused.
Drawn ==
  /\ page.step = "loading" /\ page.image # "none" /\ page.text /\ page.opened
  /\ \/ Deliverable(page.doc, page.image, Open) /\ page' = [page EXCEPT !.step = "shown"]
     \/ page' = PageFails
  /\ UNCHANGED <<server, place, ended, listings, metadata, reread, tracker>>

Retry ==
  /\ page.step = "failed"
  /\ page' = [NoPage EXCEPT !.step = "loading", !.doc = at]
  /\ tracker' = [tracker EXCEPT !.opening = TRUE]
  /\ UNCHANGED <<server, place, ended, listings, metadata, reread>>

-----------------------------------------------------------------------------
(* onEvidenceRefused: the metadata says whether the version or the access ended. *)

RereadServed ==
  /\ reread.step = "document"
  /\ \E answer \in {Document(reread.doc), "failed"} :
       reread' = [reread EXCEPT !.step = "found", !.found = answer]
  /\ back' = FALSE
  /\ UNCHANGED <<server, at, arrived, lost, notice, ended, listings, metadata, reading>>

Reread ==
  /\ reread.step = "found" /\ reread.found \in Version \cup {"gone"}
  /\ meta' = [doc |-> reread.doc, load |-> reread.found]
  /\ reread' = IF reread.found = "gone" THEN [reread EXCEPT !.step = "room"] ELSE NoReread
  /\ Follow(at)
  /\ UNCHANGED <<server, place, ended, listings, metaCall>>

RoomReread ==
  /\ reread.step = "room"
  /\ \E answer \in {IF standing = "signed out" THEN "expired" ELSE "gone", "failed"} :
       reread' = [reread EXCEPT !.step = "listed", !.found = answer, !.docs = Structure]
  /\ UNCHANGED <<server, place, ended, listings, metadata, reading>>

\* A withdrawn document returns the reader to a room that still discloses one.
Withdrawn ==
  /\ reread.step = "listed" /\ reread.found = "gone"
  /\ IF reread.docs = {} THEN RoomIsLost
     ELSE /\ listing' = [kind |-> "ready", docs |-> reread.docs]
          /\ notice' = reread.doc
          /\ Move("room")
          /\ UNCHANGED <<server, arrived, lost, back, ended>>

RereadFails ==
  /\ reread.step \in {"found", "listed"}
  /\ \/ reread.found = "expired" /\ SessionEnds
     \/ /\ reread.found = "failed"
        /\ reread' = NoReread
        /\ UNCHANGED <<server, place, ended, listings, metadata, reading>>

-----------------------------------------------------------------------------
(* The server. *)

Publish(d) ==
  /\ \E v \in Version \cup {"gone"} :
       /\ v # published[d]
       /\ published' = [published EXCEPT ![d] = v]
       /\ back' = (back \/ (v # "gone" /\ d \in {notice, reread.doc}))
  /\ UNCHANGED <<standing, at, arrived, lost, notice, ended, listings, metadata, reread, reading>>

Revoke ==
  /\ standing = "reads"
  /\ standing' \in {"revoked", "signed out"}
  /\ UNCHANGED <<published, place, ended, listings, metadata, reread, reading>>

-----------------------------------------------------------------------------

\* A link or a reload may open the reading room anywhere.
Init ==
  /\ standing = "reads"
  /\ published \in [Doc -> Version]
  /\ at \in Doc \cup {"room", "rooms"}
  /\ arrived = FALSE /\ ended = FALSE /\ lost = FALSE /\ notice = NoDoc /\ back = FALSE
  /\ listing = Loading
  /\ listCall = [step |-> IF at = "rooms" THEN "none" ELSE "sent", docs |-> {}]
  /\ metaCall = IF at \in Doc THEN at ELSE NoDoc
  /\ meta = [doc |-> metaCall, load |-> "loading"]
  /\ reread = NoReread /\ tracker = NoTracker /\ page = NoPage

Surface ==
  \/ (\E to \in Doc \cup {"room", "rooms"} : Navigate(to)) \/ Arrive \/ ListServed \/ ListAnswered \/ MetadataAnswered \/ OpenAnswered \/ Interact \/ Beat \/ Finish
  \/ Composed \/ TextRead \/ Drawn \/ Retry
  \/ RereadServed \/ Reread \/ RoomReread \/ Withdrawn \/ RereadFails

Next == ~ended /\ (Surface \/ Revoke \/ \E d \in Revised : Publish(d))

Spec == Init /\ [][Next]_vars

-----------------------------------------------------------------------------

\* The page on the screen is of the open document, and of the version its metadata and
\* its activity are of (008:165, useDocumentReader.ts:24).
ShowsOpenVersion == page.step = "shown" => page.doc = at /\ page.image = Open

\* Whatever is loading waits for a call that will answer: an answer that came for another
\* document, or a shared begin that was dropped, would leave it loading for ever.
NothingStuck ==
  /\ at \in Doc /\ (meta.doc # at \/ meta.load = "loading") => metaCall = at
  /\ at # "rooms" /\ listing.kind = "loading" => listCall.step # "none"
  /\ page.step = "loading" /\ ~page.opened => tracker.opening

\* The list shown under the notice that a document was withdrawn does not offer it, unless
\* it was published again meanwhile (ViewerReadingRoom.tsx:260).
WithdrawnIsGone == notice # NoDoc /\ ~back => notice \notin listing.docs

\* What the reading room shows belongs together, whichever answers come late.
ReaderSound == ShowsOpenVersion /\ NothingStuck /\ WithdrawnIsGone
=============================================================================
