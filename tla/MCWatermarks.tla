---------------------------- MODULE MCWatermarks ----------------------------
(* What a viewer passes on the way to a page: the sign-in, the grants of a  *)
(* room, and the watermarked pages of a session, on small instances for     *)
(* TLC.  They share no variable: one of them moves in a behaviour and the   *)
(* others stay as they began.                                               *)
EXTENDS Watermarks, FiniteSets, TLC

CONSTANTS Challenge, NoChallenge, Call, MaxAttempts, DeliverAttempts
CONSTANTS v1, v2, g1, g2, Viewer, Counterparty, Grant, To, OnRoom, NoChange

ASSUME AccessAssumption ==
  /\ IsFiniteSet(Call) /\ Call # {} /\ IsFiniteSet(Viewer)
  /\ MaxAttempts \in Nat \ {0} /\ DeliverAttempts \in Nat \ {0}
  /\ NoChallenge \notin Challenge

VARIABLES challenge, deliveries, post, viewer, invitation, sessions, call, page
VARIABLES room, standing, grant, row, draft, review

S == INSTANCE SignIn
G == INSTANCE Grants

signInVars == <<challenge, deliveries, post, viewer, invitation, sessions, call, page>>
grantVars == <<room, standing, grant, row, draft, review>>

\* g1 names a viewer, g2 the counterparty.
Named == g1 :> v1 @@ g2 :> Counterparty

AccessInit == Init /\ S!Init /\ G!Init

AccessNext ==
  \/ S!Init /\ G!Init /\ Next /\ UNCHANGED <<signInVars, grantVars>>
  \/ Init /\ G!Init /\ S!Next /\ UNCHANGED <<vars, grantVars>>
  \/ Init /\ S!Init /\ G!Next /\ UNCHANGED <<vars, signInVars>>

AccessSpec ==
  /\ AccessInit /\ [][AccessNext]_<<vars, signInVars, grantVars>>
  /\ Fairness /\ S!Fairness

\* The variables have their types.
TypesOK == TypeOK /\ S!TypeOK /\ G!TypeOK

\* What SignIn promises of codes and sessions.
SignInSound == S!SignInSound

\* What Grants promises of the two reviews.
ReviewsHold == G!ReviewsHold

\* What has begun ends: a revoked session is forgotten unless a deletion used up its attempts,
\* and no challenge waits for its delivery for ever.
AnyUnsettled == Unsettled \/ S!Unsettled
BegunEnds == AnyUnsettled ~> ~AnyUnsettled
=============================================================================
