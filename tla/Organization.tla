---------------------------- MODULE Organization ----------------------------
(***************************************************************************)
(* The organization's members, who administers them, and the hand-over of  *)
(* ownership (017_organization_administration.sql behind                   *)
(* routes/member-actions.ts, recovery.ts, and the transfer dialog of the   *)
(* browser).  An administrator's right is read before the target's row is  *)
(* locked, so a mutation is two steps: Admit, and the statement that holds *)
(* the lock.  A mutation names the revision its page shows, and one that   *)
(* names an older revision than the row's is refused; a revision is        *)
(* modelled by whether it still is the row's, and a request that can only  *)
(* be refused is dropped.  The dialog applies the answers of its dry runs  *)
(* as they come.                                                           *)
(***************************************************************************)
EXTENDS Integers, FiniteSets

CONSTANTS
  Member,      \* verified identities, members once they are provisioned
  Allowed,     \* those on DUEFOLD_OWNER_EMAIL_ALLOWLIST
  Room,
  Request,     \* requests that can be under way at once
  Preview,     \* rows of ownership_transfer_preview
  NoMember, NoPreview

VARIABLES
  member,      \* member rows
  invitation,  \* role of the pending invitation of each address
  assigned,    \* the active room_assignment rows: a member's role in each room
  newcomers,   \* identities whose sign-in found neither a member nor an invitation
  preview,     \* ownership_transfer_preview
  request,     \* requests at the server and answers on their way
  dialog       \* the transfer dialog of the Owner's page

vars == <<member, invitation, assigned, newcomers, preview, request, dialog>>

Assignable == {"admin", "member"}
RoomRole == {"none", "manager", "contributor"}
Idle == [kind |-> "idle", actor |-> NoMember, target |-> NoMember, value |-> "none",
         preview |-> NoPreview]
Closed == [by |-> NoMember, for |-> NoMember, impact |-> NoPreview, pending |-> FALSE]
Nothing == [r \in Room |-> "none"]
\* Of a preview that is not open only its state matters.
Ended(state) == [state |-> state, actor |-> NoMember, target |-> NoMember, current |-> FALSE,
                 same |-> FALSE, held |-> Nothing]

TypeOK ==
  /\ member \in [Member -> [state : {"absent", "active", "disabled"},
                            role : {"owner"} \union Assignable]]
  /\ invitation \in [Member -> {"none"} \union Assignable]
  /\ assigned \in [Member -> [Room -> RoomRole]]
  /\ newcomers \subseteq Member
  /\ preview \in [Preview -> [state : {"none", "open", "consumed", "lapsed"},
                              actor : Member \union {NoMember}, target : Member \union {NoMember},
                              current : BOOLEAN, same : BOOLEAN, held : [Room -> RoomRole]]]
  /\ request \in [Request ->
       [kind : {"idle", "role", "state", "assign", "dry-run", "impact", "transfer", "applied"},
        actor : Member \union {NoMember}, target : Member \union {NoMember},
        value : {"active", "disabled"} \union RoomRole \union Assignable, preview : Preview \union {NoPreview}]]
  /\ dialog \in [by : Member \union {NoMember}, for : Member \union {NoMember},
                 impact : Preview \union {NoPreview}, pending : BOOLEAN]

Init ==
  /\ member = [m \in Member |-> [state |-> "absent", role |-> "member"]]
  /\ invitation = [m \in Member |-> "none"]
  /\ assigned = [m \in Member |-> Nothing]
  /\ newcomers = {}
  /\ preview = [v \in Preview |-> Ended("none")]
  /\ request = [q \in Request |-> Idle]
  /\ dialog = Closed

IsOwner(m) == member[m].state = "active" /\ member[m].role = "owner"
Administers(m) == member[m].state = "active" /\ member[m].role \in {"owner", "admin"}

----------------------------------------------------------------------------
(* Provisioning: the OIDC callback, once the provider's claims are verified. *)

Provisioned(m, role) ==
  member' = [member EXCEPT ![m] = [state |-> "active", role |-> role]]

\* resolveOidcMember: an invitation that is pending makes the member; without one the
\* callback goes on to the bootstrap.  A disabled member finds neither.
ResolveOidcMember(m) ==
  /\ member[m].state # "active"
  /\ m \notin newcomers
  /\ IF invitation[m] # "none" /\ member[m].state = "absent"
     THEN /\ Provisioned(m, invitation[m])
          /\ invitation' = [invitation EXCEPT ![m] = "none"]
          /\ UNCHANGED newcomers
     ELSE newcomers' = newcomers \union {m} /\ UNCHANGED <<member, invitation>>
  /\ UNCHANGED <<assigned, preview, request, dialog>>

Claimable(m) ==
  /\ m \in Allowed
  /\ member[m].state = "absent"
  /\ \A o \in Member : ~IsOwner(o)

ClaimFirstOwner(m) ==
  /\ m \in newcomers
  /\ newcomers' = newcomers \ {m}
  /\ IF Claimable(m) THEN Provisioned(m, "owner") ELSE UNCHANGED member
  /\ UNCHANGED <<invitation, assigned, preview, request, dialog>>

\* The gate and the insert of invite_member wait for no row in between.
InviteMember(a, m, role) ==
  /\ Administers(a)
  /\ member[m].state = "absent"
  /\ invitation[m] = "none"
  /\ invitation' = [invitation EXCEPT ![m] = role]
  /\ UNCHANGED <<member, assigned, newcomers, preview, request, dialog>>

\* Revoked by an administrator, or lapsed after seven days.
RevokeMemberInvitation(m) ==
  /\ invitation[m] # "none"
  /\ invitation' = [invitation EXCEPT ![m] = "none"]
  /\ UNCHANGED <<member, assigned, newcomers, preview, request, dialog>>

----------------------------------------------------------------------------
(* Role, state and room assignments of a member.                            *)

\* Which of the free places a request takes is of no consequence.
Free(q) == request[q] = Idle /\ q = CHOOSE p \in Request : request[p] = Idle

\* assert_organization_administrator, which locks nothing; who was admitted is not asked again.
Admit(q, kind, a, m, value) ==
  /\ Free(q)
  /\ Administers(a)
  /\ a # m
  /\ member[m].state # "absent"
  /\ request' = [request EXCEPT ![q] = [Idle EXCEPT !.kind = kind, !.target = m,
                                            !.value = value]]
  /\ UNCHANGED <<member, invitation, assigned, newcomers, preview, dialog>>

AdmitMutation(q) ==
  \E a, m \in Member :
    \/ \E role \in Assignable : Admit(q, "role", a, m, role)
    \/ \E state \in {"active", "disabled"} : Admit(q, "state", a, m, state)
    \/ \E role \in {"none", "manager", "contributor"} : Admit(q, "assign", a, m, role)

\* Refused by a condition or cut off before the statement: nothing changes.
RefuseMutation(q) ==
  /\ request[q].kind \in {"role", "state", "assign", "dry-run", "impact"}
  /\ request' = [request EXCEPT ![q] = Idle]
  /\ UNCHANGED <<member, invitation, assigned, newcomers, preview, dialog>>

\* What a new revision of the members in changed makes of the requests that named the old one.
Dropped(changed) ==
  [q \in Request |->
     IF request[q].kind \in {"role", "state"} /\ request[q].target \in changed
     THEN Idle ELSE request[q]]

\* ... and of the previews of theirs: current holds as long as the revision read is theirs.
Outdated(changed) ==
  [v \in Preview |->
     IF preview[v].target \in changed THEN [preview[v] EXCEPT !.current = FALSE] ELSE preview[v]]

\* Slip: assignments outlive a promotion.
SlipKeepRooms(m) == assigned

\* supersede_room_assignments_for_role
Superseded(m) == [assigned EXCEPT ![m] = Nothing]

SetMemberGlobalRole(q) ==
  LET m == request[q].target
  IN  /\ request[q].kind = "role"
      /\ member[m].role \notin {"owner", request[q].value}
      /\ member' = [member EXCEPT ![m].role = request[q].value]
      /\ assigned' = IF request[q].value # "member" THEN Superseded(m) ELSE assigned
      /\ request' = Dropped({m})
      /\ preview' = Outdated({m})
      /\ UNCHANGED <<invitation, newcomers, dialog>>

SetMemberState(q) ==
  LET m == request[q].target
  IN  /\ request[q].kind = "state"
      /\ member[m].role # "owner"
      /\ member[m].state # request[q].value
      /\ member' = [member EXCEPT ![m].state = request[q].value]
      /\ request' = Dropped({m})
      /\ preview' = Outdated({m})
      /\ UNCHANGED <<invitation, assigned, newcomers, dialog>>

\* An assignment names no revision: the member's role and state are what it asks.  A row is
\* inserted, deleted, or given the other role, which the previews of the member tell apart.
ApplyRoomAssignments(q, r) ==
  LET m == request[q].target
      role == request[q].value
      kept == assigned[m][r] # "none" /\ role # "none"
  IN  /\ request[q].kind = "assign"
      /\ member[m].state = "active"
      /\ member[m].role = "member"
      /\ assigned[m][r] # role
      /\ assigned' = [assigned EXCEPT ![m][r] = role]
      /\ preview' = [v \in Preview |->
           IF preview[v].target = m THEN [preview[v] EXCEPT !.same = @ /\ kept] ELSE preview[v]]
      /\ request' = [request EXCEPT ![q] = Idle]
      /\ UNCHANGED <<member, invitation, newcomers, dialog>>

----------------------------------------------------------------------------
(* The transfer dialog.                                                     *)

\* Opened on a row of the register; the dry run is sent, and an impact shown before goes.
ReviewTransfer(q, o, m) ==
  /\ Free(q)
  /\ dialog.for = NoMember
  /\ IsOwner(o)
  /\ o # m
  /\ member[m].state = "active"
  /\ dialog' = [Closed EXCEPT !.by = o, !.for = m]
  /\ request' = [request EXCEPT ![q] = [Idle EXCEPT !.kind = "dry-run", !.actor = o, !.target = m]]
  /\ UNCHANGED <<member, invitation, assigned, newcomers, preview>>

\* dry_run_ownership_transfer
DryRunOwnershipTransfer(q, v) ==
  LET m == request[q].target
  IN  /\ request[q].kind = "dry-run"
      /\ preview[v].state = "none"
      /\ IsOwner(request[q].actor)
      /\ member[m].state = "active"
      /\ ~IsOwner(m)
      /\ preview' = [preview EXCEPT ![v] =
           [state |-> "open", actor |-> request[q].actor, target |-> m,
            current |-> TRUE, same |-> TRUE, held |-> assigned[m]]]
      /\ request' = [request EXCEPT ![q].kind = "impact", ![q].preview = v]
      /\ UNCHANGED <<member, invitation, assigned, newcomers, dialog>>

\* Whatever row the dialog is open on, or none.
ReceiveImpact(q) ==
  /\ request[q].kind = "impact"
  /\ dialog' = [dialog EXCEPT !.impact = request[q].preview]
  /\ request' = [request EXCEPT ![q] = Idle]
  /\ UNCHANGED <<member, invitation, assigned, newcomers, preview>>

CancelTransfer ==
  /\ dialog.for # NoMember
  /\ ~dialog.pending
  /\ dialog' = Closed
  /\ UNCHANGED <<member, invitation, assigned, newcomers, preview, request>>

\* Confirmed: the row the dialog is open on, with the preview it shows.
ApplyTransfer(q) ==
  /\ Free(q)
  /\ dialog.for # NoMember
  /\ dialog.impact # NoPreview
  /\ ~dialog.pending
  /\ dialog' = [dialog EXCEPT !.pending = TRUE]
  /\ request' = [request EXCEPT ![q] =
       [kind |-> "transfer", actor |-> dialog.by, target |-> dialog.for, value |-> "none",
        preview |-> dialog.impact]]
  /\ UNCHANGED <<member, invitation, assigned, newcomers, preview>>

\* Slip: the digest is taken over the rows alone.
SlipDigest(v) == preview[v].same

\* member_assignment_impact: the digest is over the rows and their roles.
Digest(v) == preview[v].same /\ preview[v].held = assigned[preview[v].target]

\* What transfer_ownership asks of the preview, of the two members, and of the assignments.
Transferable(q) ==
  LET v == request[q].preview
      o == request[q].actor
      m == request[q].target
  IN  /\ preview[v].state = "open" /\ preview[v].actor = o /\ preview[v].target = m
      /\ IsOwner(o)
      /\ member[m].state = "active" /\ ~IsOwner(m) /\ preview[v].current
      /\ Digest(v)

TransferOwnership(q) ==
  LET o == request[q].actor
      m == request[q].target
  IN  /\ request[q].kind = "transfer"
      /\ Transferable(q)
      /\ preview' = [Outdated({o, m}) EXCEPT ![request[q].preview] = Ended("consumed")]
      /\ member' = [member EXCEPT ![o].role = "admin", ![m].role = "owner"]
      /\ assigned' = Superseded(m)
      /\ request' = [Dropped({o, m}) EXCEPT ![q].kind = "applied"]
      /\ UNCHANGED <<invitation, newcomers, dialog>>

\* Refused, or cut off on the way there or back: the dialog stays open, and drops the
\* impact when it is told of a conflict.
TransferFails(q) ==
  /\ request[q].kind \in {"transfer", "applied"}
  /\ request' = [request EXCEPT ![q] = Idle]
  /\ \E conflict \in BOOLEAN :
       dialog' = [dialog EXCEPT !.pending = FALSE,
                                !.impact = IF conflict THEN NoPreview ELSE @]
  /\ UNCHANGED <<member, invitation, assigned, newcomers, preview>>

\* The page says that the session ended.
Transferred(q) ==
  /\ request[q].kind = "applied"
  /\ request' = [request EXCEPT ![q] = Idle]
  /\ dialog' = Closed
  /\ UNCHANGED <<member, invitation, assigned, newcomers, preview>>

\* Fifteen minutes pass.
PreviewLapses(v) ==
  /\ preview[v].state = "open"
  /\ preview' = [preview EXCEPT ![v] = Ended("lapsed")]
  /\ UNCHANGED <<member, invitation, assigned, newcomers, request, dialog>>

\* The operator's command: an active member becomes Owner, the Owner a member.
RecoverOwner(m) ==
  LET changed == {m} \union {o \in Member : IsOwner(o)}
  IN  /\ member[m].state = "active"
      /\ member' = [o \in Member |->
           IF o = m THEN [member[o] EXCEPT !.role = "owner"]
           ELSE IF IsOwner(o) THEN [member[o] EXCEPT !.role = "member"]
           ELSE member[o]]
      /\ assigned' = Superseded(m)
      /\ request' = Dropped(changed)
      /\ preview' = Outdated(changed)
      /\ UNCHANGED <<invitation, newcomers, dialog>>

ProvisionNext ==
  \E m \in Member :
    \/ ResolveOidcMember(m) \/ ClaimFirstOwner(m) \/ RevokeMemberInvitation(m)
    \/ \E a \in Member, role \in Assignable : InviteMember(a, m, role)

MutationNext ==
  \E q \in Request :
    \/ AdmitMutation(q) \/ RefuseMutation(q) \/ SetMemberGlobalRole(q) \/ SetMemberState(q)
    \/ \E r \in Room : ApplyRoomAssignments(q, r)

TransferNext ==
  \/ CancelTransfer
  \/ \E v \in Preview : PreviewLapses(v)
  \/ \E q \in Request :
       \/ \E o, m \in Member : ReviewTransfer(q, o, m)
       \/ \E v \in Preview : DryRunOwnershipTransfer(q, v)
       \/ ReceiveImpact(q) \/ ApplyTransfer(q) \/ TransferOwnership(q) \/ TransferFails(q)
       \/ Transferred(q)

RecoveryNext == \E m \in Member : RecoverOwner(m)

\* Bounds: members are provisioned while no request is under way and the dialog is closed,
\* and requests are made once nobody is on the way to become a member.  Two mutations are
\* under way only before the first dry run.  A dry run that finds every preview used up is
\* refused before anything else happens.
Quiet == dialog = Closed /\ \A q \in Request : request[q] = Idle
Arrived == newcomers = {} /\ \A m \in Member : invitation[m] = "none"
Mutation == {"role", "state", "assign"}
Unreviewed == dialog = Closed /\ \A v \in Preview : preview[v].state = "none"
Apart == Cardinality({q \in Request : request[q].kind \in Mutation}) > 1 => Unreviewed
Hopeless(q) == request[q].kind = "dry-run" /\ \A v \in Preview : preview[v].state # "none"

Next ==
  \/ Quiet /\ ProvisionNext
  \/ \E q \in Request : Hopeless(q) /\ RefuseMutation(q)
  \/ /\ Arrived /\ \A q \in Request : ~Hopeless(q)
     /\ MutationNext \/ TransferNext \/ RecoveryNext
     /\ Apart'

Spec == Init /\ [][Next]_vars

----------------------------------------------------------------------------
(* Properties.                                                              *)

Holds(m) == {r \in Room : assigned[m][r] # "none"}

\* Once there is a member there is exactly one active Owner, whichever first sign-ins,
\* recoveries and transfers overlap; and whoever administers the organization is assigned
\* to no room, even when the assignment was admitted before the promotion.
OrganizationSound ==
  /\ (\E m \in Member : member[m].state # "absent") =>
       Cardinality({m \in Member : IsOwner(m)}) = 1
  /\ \A m \in Member : member[m].role # "member" => Holds(m) = {}

\* Ownership leaves an Owner who stays an administrator only to the member whose impact the
\* dialog's answer showed: the successor is as that dry run saw them, and the assignments
\* they lose are the ones it listed, in the roles it listed.
TransferAsReviewed ==
  [][ \A o, m \in Member :
        (o # m /\ IsOwner(o) /\ member'[m].role = "owner" /\ member'[o].role = "admin") =>
          \E v \in Preview :
            /\ preview[v].state = "open" /\ preview'[v].state = "consumed"
            /\ preview[v].actor = o /\ preview[v].target = m
            /\ preview[v].current
            /\ preview[v].held = assigned[m] ]_vars
=============================================================================
