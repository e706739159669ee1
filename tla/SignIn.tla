------------------------------- MODULE SignIn -------------------------------
(***************************************************************************)
(* How a viewer signs in with a mailed code: the sign-in page             *)
(* (ViewerSignIn.tsx over auth/otp-machine.ts), the two public routes, the *)
(* challenge rows with their delivery jobs, the viewer's invitation, and   *)
(* the sessions that are issued.  One address is modelled.  The page can   *)
(* be restarted while an answer is on its way, and answers may be lost or  *)
(* overtake each other; a delivery attempt whose lease lapsed keeps        *)
(* running.  What time decides is left open: the cooldown and the hourly   *)
(* limits may refuse a request, the page's own clock may keep the person   *)
(* from submitting, a code lapses at any moment after it was prepared.     *)
(***************************************************************************)
EXTENDS Integers, FiniteSets, WorkRows

CONSTANTS
  Challenge,      \* challenge rows the address may be given
  NoChallenge,
  Call,           \* requests of the page that can be on their way at once
  MaxAttempts,    \* OTP_MAX_ATTEMPTS: codes a challenge accepts for checking
  DeliverAttempts \* max_attempts of auth.otp.deliver

VARIABLES
  challenge,  \* otp_challenge
  deliveries, \* its job_queue row
  post,       \* where the mail with its latest code is; a code is named by the attempt that made it
  viewer,     \* viewer.state of the address, "absent" before its first invitation
  invitation, \* its invitation rows, by state
  sessions,   \* how many sessions each challenge was exchanged for
  call,       \* the page's requests
  page        \* OtpState

vars == <<challenge, deliveries, post, viewer, invitation, sessions, call, page>>

Wrong == 0
Code == 0..DeliverAttempts
Live == {"awaiting_delivery", "pending"}

Unused == [state |-> "unused", failed |-> 0, code |-> Wrong, lapsed |-> FALSE, viewer |-> FALSE]
Answer(kind) == [kind |-> kind, challenge |-> NoChallenge, code |-> Wrong]
Idle == Answer("idle")
\* Of a challenge that is over only its state matters, and the code of a consumed one.
Over(state) == [Unused EXCEPT !.state = state]
initialOtpState == [stage |-> "address", challenge |-> NoChallenge, attempts |-> 0, busy |-> FALSE]

TypeOK ==
  /\ challenge \in [Challenge ->
       [state : {"unused", "consumed", "invalidated", "locked"} \union Live,
        failed : 0..MaxAttempts, code : Code, lapsed : BOOLEAN, viewer : BOOLEAN]]
  /\ deliveries \in [Challenge -> Rows(DeliverAttempts)]
  /\ post \in [Challenge -> {"none", "mailing", "mailed"}]
  /\ viewer \in {"absent", "active", "anonymized"}
  /\ invitation \in [accepted : BOOLEAN, pending : {"none", "open", "lapsed"}]
  /\ sessions \in [Challenge -> 0..Cardinality(Call)]
  /\ call \in [Call ->
       [kind : {"idle", "request", "challenged", "verify", "consumed", "issued", "rejected",
                "failed"},
        challenge : Challenge \union {NoChallenge}, code : Code]]
  /\ page \in [stage : {"address", "code", "authenticated"},
               challenge : Challenge \union {NoChallenge}, attempts : 0..MaxAttempts,
               busy : BOOLEAN]

Init ==
  /\ challenge = [c \in Challenge |-> Unused]
  /\ deliveries = [c \in Challenge |-> Absent]
  /\ post = [c \in Challenge |-> "none"]
  /\ viewer = "absent"
  /\ invitation = [accepted |-> FALSE, pending |-> "none"]
  /\ sessions = [c \in Challenge |-> 0]
  /\ call = [k \in Call |-> Idle]
  /\ page = initialOtpState

----------------------------------------------------------------------------
(* The page.  No answer is matched with the request that is awaited: the    *)
(* reducer applies each as it comes.                                        *)

\* Which of the free places a request takes is of no consequence.
Free == {k \in Call : call[k] = Idle}

Ask(kind, c, code) ==
  LET k == CHOOSE k \in Call : call[k] = Idle
  IN
    /\ Free # {}
    /\ call' = [call EXCEPT ![k] = [kind |-> kind, challenge |-> c, code |-> code]]
    /\ page' = [page EXCEPT !.busy = TRUE]
    /\ UNCHANGED <<challenge, deliveries, post, viewer, invitation, sessions>>

\* The address is submitted, or a resend is asked for.
SubmitAddress ==
  /\ page.stage # "authenticated"
  /\ ~page.busy
  /\ Ask("request", NoChallenge, Wrong)

\* attemptsExhausted: this page has seen as many rejections as the server takes.
SubmissionBlocked == page.attempts >= MaxAttempts

Delivered(c) == IF post[c] = "mailed" THEN {challenge[c].code} ELSE {}

SubmitCode ==
  /\ page.stage = "code"
  /\ ~page.busy
  /\ ~SubmissionBlocked
  /\ \E code \in {Wrong} \union Delivered(page.challenge) : Ask("verify", page.challenge, code)

\* The restart link and a fresh page: what is on its way stays on its way.
Restart ==
  /\ page.stage # "authenticated"
  /\ page # initialOtpState
  /\ page' = initialOtpState
  /\ UNCHANGED <<challenge, deliveries, post, viewer, invitation, sessions, call>>

\* otpReducer: request-succeeded, verify-succeeded, verify-rejected and the two failures.
Answered(answer) ==
  CASE answer.kind = "challenged" ->
         [stage |-> "code", challenge |-> answer.challenge, attempts |-> 0, busy |-> FALSE]
    [] answer.kind = "issued" -> [initialOtpState EXCEPT !.stage = "authenticated"]
    [] answer.kind = "rejected" /\ page.stage = "code" ->
         [page EXCEPT !.attempts = IF @ < MaxAttempts THEN @ + 1 ELSE @, !.busy = FALSE]
    [] OTHER -> [page EXCEPT !.busy = FALSE]

Receive(k) ==
  /\ call[k].kind \in {"challenged", "issued", "rejected", "failed"}
  /\ page.stage # "authenticated"
  /\ page' = Answered(call[k])
  /\ call' = [call EXCEPT ![k] = Idle]
  /\ UNCHANGED <<challenge, deliveries, post, viewer, invitation, sessions>>

\* The connection breaks, before the server saw the request or after it answered.
LoseAnswer(k) ==
  /\ call[k].kind \in {"request", "verify", "challenged", "issued", "rejected"}
  /\ call' = [call EXCEPT ![k] = Answer("failed")]
  /\ UNCHANGED <<challenge, deliveries, post, viewer, invitation, sessions, page>>

----------------------------------------------------------------------------
(* The routes.                                                              *)

\* Slip: an earlier challenge of the address is left as it is.
SlipKeepEarlier(c) ==
  [challenge EXCEPT
     ![c] = [Unused EXCEPT !.state = "awaiting_delivery",
                           !.viewer = (viewer = "active")]]

\* The challenge c replaces every live one of the address.  It names the viewer only when
\* an invitation of theirs was accepted or is still open.
Issued(c) ==
  [d \in Challenge |->
     IF d = c
     THEN [Unused EXCEPT
             !.state = "awaiting_delivery",
             !.viewer = viewer = "active" /\ (invitation.accepted \/ invitation.pending = "open")]
     ELSE IF challenge[d].state \in Live
          THEN Over("invalidated")
          ELSE challenge[d]]

\* Bound: an address is given another challenge only once the delivery of the one before is
\* over and while its invitation stands; that does not change any more then.
Alone == Cardinality({c \in Challenge : challenge[c].state # "unused"}) <= 1
MayReplace(c) ==
  challenge[c].state # "unused" =>
    /\ deliveries[c].stage \in {"done", "failed"} /\ post[c] # "mailing"
    /\ viewer = "active" /\ invitation.pending # "lapsed"

CreateOtpChallenge(k) ==
  /\ call[k].kind = "request"
  /\ LET c == CHOOSE c \in Challenge : challenge[c].state = "unused"
     IN
       /\ \E d \in Challenge : challenge[d].state = "unused"
       /\ \A d \in Challenge : MayReplace(d)
       /\ challenge' = Issued(c)
       /\ deliveries' = [deliveries EXCEPT ![c] = Queued]
       /\ call' = [call EXCEPT ![k] = [kind |-> "challenged", challenge |-> c, code |-> Wrong]]
  /\ UNCHANGED <<post, viewer, invitation, sessions, page>>

\* Cooldown and hourly limits answer alike: RATE_LIMITED.
RefuseRequest(k) ==
  /\ call[k].kind = "request"
  /\ call' = [call EXCEPT ![k] = Answer("failed")]
  /\ UNCHANGED <<challenge, deliveries, post, viewer, invitation, sessions, page>>

OtpUsable(c) ==
  /\ challenge[c].state = "pending"
  /\ ~challenge[c].lapsed
  /\ challenge[c].failed < MaxAttempts

Verified(k) ==
  LET c == call[k].challenge
  IN  /\ OtpUsable(c)
      /\ call[k].code # Wrong
      /\ call[k].code = challenge[c].code
      /\ challenge[c].viewer
      /\ viewer = "active"

\* accept_viewer_invitation: the pending row, lapsed or not, unless one was accepted before.
AcceptViewerInvitation ==
  IF invitation.pending # "none" /\ ~invitation.accepted
  THEN [accepted |-> TRUE, pending |-> "none"] ELSE invitation

\* consumeOtp, in one transaction that holds the challenge's row; the session is issued in
\* another.
ConsumeOtp(k) ==
  /\ call[k].kind = "verify"
  /\ Verified(k)
  /\ challenge' = [challenge EXCEPT ![call[k].challenge].state = "consumed", ![call[k].challenge].failed = 0]
  /\ invitation' = AcceptViewerInvitation
  /\ call' = [call EXCEPT ![k].kind = "consumed", ![k].code = Wrong]
  /\ UNCHANGED <<deliveries, post, viewer, sessions, page>>

\* A challenge records its first attempts, those before its code was made among them; only
\* a pending one locks.
Recorded(c) ==
  IF challenge[c].state \notin Live \/ challenge[c].failed >= MaxAttempts THEN challenge[c]
  ELSE IF challenge[c].state = "pending" /\ challenge[c].failed + 1 >= MaxAttempts
       THEN Over("locked")
       ELSE [challenge[c] EXCEPT !.failed = @ + 1]

RejectOtp(k) ==
  /\ call[k].kind = "verify"
  /\ ~Verified(k)
  /\ challenge' = [challenge EXCEPT ![call[k].challenge] = Recorded(call[k].challenge)]
  /\ call' = [call EXCEPT ![k] = Answer("rejected")]
  /\ UNCHANGED <<deliveries, post, viewer, invitation, sessions, page>>

\* issueSession and the cookies.
IssueSession(k) ==
  /\ call[k].kind = "consumed"
  /\ sessions' = [sessions EXCEPT ![call[k].challenge] = @ + 1]
  /\ call' = [call EXCEPT ![k] = Answer("issued")]
  /\ UNCHANGED <<challenge, deliveries, post, viewer, invitation, page>>

\* The process dies, or the session's transaction fails: the code is spent for nothing.
SessionFails(k) ==
  /\ call[k].kind = "consumed"
  /\ call' = [call EXCEPT ![k] = Answer("failed")]
  /\ UNCHANGED <<challenge, deliveries, post, viewer, invitation, sessions, page>>

CodeLapses(c) ==
  /\ challenge[c].state = "pending"
  /\ ~challenge[c].lapsed
  /\ challenge' = [challenge EXCEPT ![c].lapsed = TRUE]
  /\ UNCHANGED <<deliveries, post, viewer, invitation, sessions, call, page>>

----------------------------------------------------------------------------
(* The delivery of one challenge's code.  An attempt's statement, which is  *)
(* fenced, makes a code; the mail is not fenced, so an attempt that lost    *)
(* its lease still sends its own.  A code that another attempt replaced is  *)
(* a wrong one wherever it arrives, so only the latest is followed.         *)

Preparable(c) == challenge[c].state \in Live

\* A fresh code and lifetime, or none for whoever may not sign in.
Prepared(c, a) ==
  IF challenge[c].viewer /\ viewer = "active"
  THEN [challenge[c] EXCEPT !.state = "pending", !.code = a, !.lapsed = FALSE]
  ELSE Over("invalidated")

\* A worker claims the row and prepares the challenge; with no code to send it is done.
Deliver(c) ==
  LET a == deliveries[c].attempts + 1
  IN  /\ CanClaim(deliveries[c], DeliverAttempts)
      /\ challenge' = [challenge EXCEPT ![c] = IF Preparable(c) THEN Prepared(c, a) ELSE @]
      /\ IF Preparable(c) /\ challenge'[c].state = "pending"
         THEN /\ deliveries' = [deliveries EXCEPT ![c] = Claimed(@)]
              /\ post' = [post EXCEPT ![c] = "mailing"]
         ELSE /\ deliveries' = [deliveries EXCEPT ![c] = Row("done")]
              /\ UNCHANGED post
  /\ UNCHANGED <<viewer, invitation, sessions, call, page>>

\* The handler throws, or its process dies, before its statement.
DeliverFails(c) ==
  /\ CanClaim(deliveries[c], DeliverAttempts)
  /\ deliveries' = [deliveries EXCEPT ![c] = GivenBack(Claimed(@), DeliverAttempts)]
  /\ UNCHANGED <<challenge, post, viewer, invitation, sessions, call, page>>

LoseLease(c) ==
  /\ deliveries[c].live # 0
  /\ deliveries' = [deliveries EXCEPT ![c] = Lapsed(@)]
  /\ UNCHANGED <<challenge, post, viewer, invitation, sessions, call, page>>

\* The mail leaves, and the row is finished by whoever still holds it.
Mail(c) ==
  /\ post[c] = "mailing"
  /\ post' = [post EXCEPT ![c] = "mailed"]
  /\ deliveries' = [deliveries EXCEPT ![c] =
                      IF HeldBy(@, challenge[c].code) THEN Row("done") ELSE @]
  /\ UNCHANGED <<challenge, viewer, invitation, sessions, call, page>>

\* The mail server refuses it.
MailFails(c) ==
  /\ post[c] = "mailing"
  /\ post' = [post EXCEPT ![c] = "none"]
  /\ deliveries' = [deliveries EXCEPT ![c] =
                      IF HeldBy(@, challenge[c].code) THEN GivenBack(@, DeliverAttempts) ELSE @]
  /\ UNCHANGED <<challenge, viewer, invitation, sessions, call, page>>

\* fail_exhausted_otp_delivery: the challenge stops waiting.
FailExhausted(c) ==
  IF challenge[c].state \in Live THEN Over("invalidated")
  ELSE challenge[c]

Sweep(c) ==
  /\ Spent(deliveries[c], DeliverAttempts)
  /\ deliveries' = [deliveries EXCEPT ![c] = Row("failed")]
  /\ challenge' = [challenge EXCEPT ![c] = FailExhausted(c)]
  /\ UNCHANGED <<post, viewer, invitation, sessions, call, page>>

----------------------------------------------------------------------------
(* The viewer and their invitation.                                         *)

\* create_viewer_invitation: a lapsed row is expired and replaced, an open one extended.  The
\* rows a viewer is given after one was accepted change nothing here.
Invite ==
  /\ ~invitation.accepted
  /\ viewer # "anonymized"
  /\ viewer' = "active"
  /\ invitation.pending # "open"
  /\ invitation' = [invitation EXCEPT !.pending = "open"]
  /\ UNCHANGED <<challenge, deliveries, post, sessions, call, page>>

\* Seven days pass.
InvitationLapses ==
  /\ invitation.pending = "open"
  /\ invitation' = [invitation EXCEPT !.pending = "lapsed"]
  /\ UNCHANGED <<challenge, deliveries, post, viewer, sessions, call, page>>

\* finalize_room_purge of the last room: the viewer's rows are deleted, the viewer made
\* anonymous.  A page that still names a challenge names none.
Anonymise ==
  /\ viewer = "active"
  /\ viewer' = "anonymized"
  /\ invitation' = [accepted |-> FALSE, pending |-> "none"]
  /\ challenge' = [c \in Challenge |->
       IF challenge[c].viewer THEN Over("invalidated") ELSE challenge[c]]
  /\ sessions' = [c \in Challenge |-> 0]
  /\ UNCHANGED <<deliveries, post, call, page>>

PageNext == SubmitAddress \/ SubmitCode \/ Restart \/ \E k \in Call : Receive(k) \/ LoseAnswer(k)

RouteNext ==
  \E k \in Call :
    \/ CreateOtpChallenge(k) \/ RefuseRequest(k)
    \/ ConsumeOtp(k) \/ RejectOtp(k) \/ IssueSession(k) \/ SessionFails(k)

DeliveryNext ==
  \E c \in Challenge :
    \/ Deliver(c) \/ Mail(c) \/ Sweep(c)
    \/ Alone /\ (DeliverFails(c) \/ LoseLease(c) \/ MailFails(c) \/ CodeLapses(c))

ViewerNext == Alone /\ (Invite \/ InvitationLapses \/ Anonymise)

Next == PageNext \/ RouteNext \/ DeliveryNext \/ ViewerNext

\* The runner keeps claiming, its handlers return, and the sweep comes round.
Fairness ==
  \A c \in Challenge :
    /\ WF_vars(Deliver(c) \/ DeliverFails(c))
    /\ WF_vars(Mail(c) \/ MailFails(c))
    /\ WF_vars(Sweep(c))

FairSpec == Init /\ [][Next]_vars /\ Fairness

----------------------------------------------------------------------------
(* Properties.                                                              *)

\* What signs a viewer in: authenticate.ts joins the session to an active viewer.
SignedIn(c) == sessions[c] > 0 /\ viewer = "active"

\* A code is exchanged at most once, however the two submissions, the resend and the
\* delivery's retries interleave.
UsedOnce(c) ==
  sessions[c] + Cardinality({k \in Call : call[k].kind = "consumed" /\ call[k].challenge = c}) <= 1

\* No address has two codes that could be entered, and whoever is signed in has accepted an
\* invitation, even one that lapsed while the code was on its way, with a code that is spent.
SignInSound ==
  /\ \A c \in Challenge :
       /\ UsedOnce(c)
       /\ SignedIn(c) => challenge[c].state = "consumed" /\ invitation.accepted
  /\ Cardinality({c \in Challenge : challenge[c].state \in Live}) <= 1

\* A challenge whose code is still to be delivered.
Unsettled == \E c \in Challenge : challenge[c].state = "awaiting_delivery"

=============================================================================
