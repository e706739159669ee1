------------------------------- MODULE Grants -------------------------------
(***************************************************************************)
(* Who may see a room, and the two reviews a Room Manager changes that     *)
(* under: of a grant (participants-access 007, 048; ParticipantsPanel over *)
(* useParticipantsSection.ts) and of the room's visibility (023;           *)
(* RoomVisibilityControls.tsx).  Every change of a manager bumps           *)
(* room.revision; a grant that lapses and one that a removal to the trash  *)
(* revokes do not.  A revision is modelled by whether it still is the      *)
(* room's.  One manager's page is followed while others change the room.   *)
(* Removed documents are not followed, so a count of affected items is the *)
(* same in a review and in the change that repeats it.                     *)
(***************************************************************************)
EXTENDS Integers, FiniteSets

CONSTANTS
  Viewer,
  Counterparty, \* the one of the room
  Grant,        \* shapes of grants: one active row of each is followed
  To,           \* whom a grant names: a viewer or the counterparty
  OnRoom,       \* the grants of the whole room; the others are of a document
  NoChange

VARIABLES
  room,     \* its state and its default grant expiry
  standing, \* viewer_room_membership with counterparty_viewer
  grant,    \* the active row of each shape: without an expiry, with one, or past it
  row,      \* whether the page's row of the room has the room's revision
  draft,    \* submission, impact and the request of the Access section
  review    \* the impact the visibility dialog shows, as long as its revision is the room's

vars == <<room, standing, grant, row, draft, review>>

Expiry == {"open", "dated"}
Change ==
  [action : {"grant"}, grant : Grant, expires : {"inherit", "dated"}]
    \union [action : {"revoke"}, grant : Grant, expires : {"inherit"}]
    \union [action : {"expiry"}, grant : Grant, expires : Expiry]

\* resolved: the expiry the impact names.  since: the row was read before the impact was
\* computed, and not again.  current: the revision sent with the change is the room's.  again:
\* the expiry the change's own dry run names.
Untouched == [step |-> "none", change |-> NoChange, resolved |-> "open", since |-> FALSE,
              current |-> FALSE, again |-> "open"]
NoReview == [to |-> "none", count |-> 0]

TypeOK ==
  /\ room \in [state : {"draft", "published", "archived"}, default : Expiry]
  /\ standing \in [Viewer -> {"outside", "member", "placed"}]
  /\ grant \in [Grant -> {"none", "lapsed"} \union Expiry]
  /\ row \in {"stale", "current"}
  /\ draft \in [step : {"none", "asked", "shown", "sent", "repeated"},
                change : Change \union {NoChange}, resolved : Expiry, since : BOOLEAN,
                current : BOOLEAN, again : Expiry]
  /\ review \in [to : {"none", "published", "archived"}, count : 0..Cardinality(Viewer)]

Init ==
  /\ room = [state |-> "draft", default |-> "open"]
  /\ standing = [v \in Viewer |-> "outside"]
  /\ grant = [g \in Grant |-> "none"]
  /\ row = "current"
  /\ draft = Untouched
  /\ review = NoReview

\* effective_access_grants, where it names anything.
Reaches(v, g) ==
  /\ grant[g] \in Expiry
  /\ \/ To[g] = v /\ standing[v] # "outside"
     \/ To[g] = Counterparty /\ standing[v] = "placed"

Reach == {v \in Viewer : \E g \in Grant : Reaches(v, g)}

----------------------------------------------------------------------------
(* The changes of managers, each of which bumps the room's revision: what   *)
(* was read of it before is stale, and what names the old one is refused.   *)

Bumped ==
  /\ row' = "stale"
  /\ draft' = [draft EXCEPT !.current = FALSE]
  /\ review' = NoReview

\* Slip: the placement leaves the revision alone.
SlipUnbumped == UNCHANGED <<row, draft, review>>

Placing == Bumped

\* create_viewer_invitation, add_viewer_to_room
Join(v) ==
  /\ standing[v] = "outside"
  /\ standing' = [standing EXCEPT ![v] = "member"]
  /\ Bumped
  /\ UNCHANGED <<room, grant>>

PlaceViewer(v) ==
  /\ standing[v] = "member"
  /\ standing' = [standing EXCEPT ![v] = "placed"]
  /\ Placing
  /\ UNCHANGED <<room, grant>>

RemoveViewerFromCounterparty(v) ==
  /\ standing[v] = "placed"
  /\ standing' = [standing EXCEPT ![v] = "member"]
  /\ Bumped
  /\ UNCHANGED <<room, grant>>

\* apply_room_default_expiry
ApplyDefaultExpiry(expires) ==
  /\ room.default # expires
  /\ room' = [room EXCEPT !.default = expires]
  /\ Bumped
  /\ UNCHANGED <<standing, grant>>

\* The integrity trigger: a viewer who is granted something is in the room.
Applicable(c) ==
  IF c.action = "grant"
  THEN grant[c.grant] = "none" /\ (To[c.grant] \in Viewer => standing[To[c.grant]] # "outside")
  ELSE grant[c.grant] # "none"

\* The expiry asked for, or the room's default; a revocation names none.
ResolvedExpiry(c) ==
  IF c.expires = "inherit" /\ c.action = "grant" THEN room.default
  ELSE IF c.expires = "dated" THEN "dated" ELSE "open"

Granted(c, resolved) ==
  grant' = [grant EXCEPT ![c.grant] = IF c.action = "revoke" THEN "none" ELSE resolved]

\* Another manager's change, its dry run and its statement in one.
ChangeGrant(c) ==
  /\ Applicable(c)
  /\ Granted(c, ResolvedExpiry(c))
  /\ Bumped
  /\ UNCHANGED <<room, standing>>

ReturnToDraft ==
  /\ room.state # "draft"
  /\ room' = [room EXCEPT !.state = "draft"]
  /\ Bumped
  /\ UNCHANGED <<standing, grant>>

----------------------------------------------------------------------------
(* What changes without a manager.                                          *)

GrantLapses(g) ==
  /\ grant[g] = "dated"
  /\ grant' = [grant EXCEPT ![g] = "lapsed"]
  /\ UNCHANGED <<room, standing, row, draft, review>>

\* revoke_grants_for_trash
RevokeForTrash(g) ==
  /\ g \notin OnRoom
  /\ grant[g] # "none"
  /\ grant' = [grant EXCEPT ![g] = "none"]
  /\ UNCHANGED <<room, standing, row, draft, review>>

----------------------------------------------------------------------------
(* The Access section of one manager's page.                                *)

\* useOpenRoom reads the row again, whatever section asks for it.
ReadRow ==
  /\ row = "stale" \/ draft.since
  /\ row' = "current"
  /\ draft' = [draft EXCEPT !.since = FALSE]
  /\ UNCHANGED <<room, standing, grant, review>>

\* A draft is submitted; a review under way is dropped.
ReviewGrant(c) ==
  /\ draft.step \in {"none", "asked", "shown"}
  /\ review = NoReview
  /\ draft' = [Untouched EXCEPT !.step = "asked", !.change = c]
  /\ UNCHANGED <<room, standing, grant, row, review>>

CancelChange ==
  /\ draft.step \in {"asked", "shown"}
  /\ draft' = Untouched
  /\ UNCHANGED <<room, standing, grant, row, review>>

DryRunGrantChange ==
  /\ draft.step = "asked"
  /\ draft' = IF Applicable(draft.change)
              THEN [draft EXCEPT !.step = "shown", !.since = TRUE,
                                 !.resolved = ResolvedExpiry(draft.change)]
              ELSE Untouched
  /\ UNCHANGED <<room, standing, grant, row, review>>

\* The change as submitted, with the revision of the row as it is now.
SendChange ==
  /\ draft.step = "shown"
  /\ draft' = [draft EXCEPT !.step = "sent", !.current = row = "current"]
  /\ UNCHANGED <<room, standing, grant, row, review>>

\* The page is told of a failure: it keeps the submission and its impact.
Kept == [draft EXCEPT !.step = "shown", !.current = FALSE, !.again = "open"]

\* apply_grant_change repeats the dry run before it locks the room ...
RepeatDryRun ==
  /\ draft.step = "sent"
  /\ draft' = IF Applicable(draft.change)
              THEN [draft EXCEPT !.step = "repeated", !.again = ResolvedExpiry(draft.change)]
              ELSE Kept
  /\ UNCHANGED <<room, standing, grant, row, review>>

\* ... and changes it if the revision still is the one named, and a grant to be changed is
\* still there.
ApplyGrantChange ==
  /\ draft.step = "repeated"
  /\ draft.current /\ Applicable(draft.change)
  /\ Granted(draft.change, draft.again)
  /\ row' = "stale"
  /\ draft' \in {Untouched, Kept}    \* the answer may be lost
  /\ UNCHANGED <<room, standing, review>>

RefuseGrantChange ==
  /\ draft.step = "repeated"
  /\ ~(draft.current /\ Applicable(draft.change))
  /\ draft' = Kept
  /\ UNCHANGED <<room, standing, grant, row, review>>

----------------------------------------------------------------------------
(* The visibility dialog.  Its change names the revision of its own review. *)

Reviewable(to) ==
  IF to = "published" THEN room.state = "draft" ELSE room.state \in {"draft", "published"}

\* dry_run_room_visibility, as one statement sees the room: the viewers the change concerns.
DryRunRoomVisibility(to) ==
  /\ draft = Untouched
  /\ Reviewable(to)
  /\ review' = [to |-> to,
                count |-> IF to = "published" \/ room.state = "published"
                          THEN Cardinality(Reach) ELSE 0]
  /\ UNCHANGED <<room, standing, grant, row, draft>>

CloseReview ==
  /\ review # NoReview
  /\ review' = NoReview
  /\ UNCHANGED <<room, standing, grant, row, draft>>

\* apply_room_visibility, under the room's lock.
ApplyRoomVisibility ==
  /\ review # NoReview
  /\ room' = [room EXCEPT !.state = review.to]
  /\ Bumped
  /\ UNCHANGED <<standing, grant>>

ManagerNext ==
  \/ \E v \in Viewer : Join(v) \/ PlaceViewer(v) \/ RemoveViewerFromCounterparty(v)
  \/ \E expires \in Expiry : ApplyDefaultExpiry(expires)
  \/ \E c \in Change : ChangeGrant(c)
  \/ ReturnToDraft

PageNext ==
  \/ ReadRow \/ CancelChange \/ DryRunGrantChange \/ SendChange \/ RepeatDryRun
  \/ ApplyGrantChange \/ RefuseGrantChange \/ CloseReview \/ ApplyRoomVisibility
  \/ \E c \in Change : ReviewGrant(c)
  \/ \E to \in {"published", "archived"} : DryRunRoomVisibility(to)

Next ==
  \/ ManagerNext \/ PageNext
  \/ \E g \in Grant : GrantLapses(g) \/ RevokeForTrash(g)

Spec == Init /\ [][Next]_vars

----------------------------------------------------------------------------
(* Properties.                                                              *)

\* A manager is never shown fewer viewers than the change of visibility concerns, as long as
\* the room would accept it: the reach only shrinks without a new revision.
NoMoreThanShown ==
  (review.to = "published" \/ (review.to = "archived" /\ room.state = "published")) =>
    Cardinality(Reach) <= review.count

\* A grant change that the room would accept resolves as its review showed, if the row that
\* is echoed was read before the review and not again since, and when the change is written
\* it is what its own dry run resolved under the lock.
ResolvesAsShown ==
  /\ draft.step = "shown" /\ draft.since /\ row = "current" =>
       draft.resolved = ResolvedExpiry(draft.change)
  /\ draft.step = "repeated" /\ draft.current =>
       draft.again = ResolvedExpiry(draft.change)

\* What a review shows is what the change that is accepted under its revision does, whoever
\* else changes the room, and however grants lapse or are revoked, in between.
ReviewsHold == NoMoreThanShown /\ ResolvesAsShown
=============================================================================
