--------------------------------- MODULE Auth ---------------------------------
(***************************************************************************)
(* The accounts and sessions of one e-mail address (modules/auth): sign-up *)
(* by password or through the OIDC provider, sign-in, session families and *)
(* the rotation of their refresh tokens, logout, verification and password *)
(* reset, and the browser tab that refreshes its session on a 401.         *)
(*                                                                         *)
(* A transaction that starts with a conditional update of the row it is    *)
(* about holds that row to its end and is one step; what is read before    *)
(* the transaction, or in it without a lock, is a step of its own.  Tokens *)
(* and families are named by the order of their rows; a password by how    *)
(* often it was set, 0 for none.  A request that is refused, or whose      *)
(* process dies, ends without any further effect.  A challenge that nobody *)
(* presents before it expires stays issued.                                *)
(***************************************************************************)
EXTENDS Integers, Sequences, FiniteSets

CONSTANTS
    Requests,     \* requests the backend serves at a time
    Challenges,   \* rows of auth_challenges
    None,
    Deployments,  \* bound: the settings [closedBeta, requireVerification] we look at
    MaxFamilies,  \* bound: rows of session_families
    MaxTokens,    \* bound: rows of sessions
    MaxPasswords  \* bound: how often the password is set

ASSUME BoundsAreNatural == {MaxFamilies, MaxTokens, MaxPasswords} \subseteq Nat \ {0}
ASSUME DeploymentsAreSettings ==
    Deployments \subseteq [closedBeta : BOOLEAN, requireVerification : BOOLEAN]
ASSUME NoneIsNoName == None \notin Requests \cup Challenges

VARIABLES
    env,         \* the deployment's settings
    user,        \* the users row of the address and its auth_identities
    invitation,  \* the auth_invitations row of the address
    challenge,   \* auth_challenges
    families,    \* session_families, with the password at the sign-in (history)
    tokens,      \* sessions: one refresh token each
    request,     \* the requests under way, each between two of its statements
    tab,         \* the tab: its refresh cookie, its refresh, those it gave up on
    signIns,     \* history: the sessions and bridge codes a challenge has given
    accounts,    \* history: how many accounts were created
    lost         \* history: did the tab give up on a refresh that ran on?

rows == <<user, invitation, challenge, families, tokens>>
history == <<signIns, accounts, lost>>
vars == <<env, rows, request, tab, history>>

-----------------------------------------------------------------------------
UserStatuses == {"absent", "pending_verification", "active"}
ChallengeTypes == {"email_verification", "password_reset", "oauth_state",
                   "oidc_browser", "oidc_mobile", "oidc_bridge"}
ChallengeStates == {"issued", "consumed"}
RevokeReasons == {"logout", "reuse_detected", "password_changed"}

NoUser == [status |-> "absent", verified |-> FALSE, password |-> 0, oidc |-> FALSE, google |-> FALSE]
NoChallenge == [type |-> "none", state |-> "absent"]
Idle == [at |-> "idle", on |-> 0]

Live(f) == families[f].revoked = "no"

(* Every look-up of a challenge asks for its type, that it has not been    *)
(* consumed and that it has not expired; the update is conditional.        *)
Consumable(c, type) == challenge[c] = [type |-> type, state |-> "issued"]
Consumed(c) == [challenge EXCEPT ![c].state = "consumed"]

Issued(c, type) == [challenge EXCEPT ![c] = [type |-> type, state |-> "issued"]]
Unused(c) == challenge[c] = NoChallenge

(* issueSessionInTransaction: a family and its first token.  A sign-in that *)
(* verified its password before a reset is marked as overlapped.           *)
IssueSession(password) ==
    /\ Len(families) < MaxFamilies
    /\ Len(tokens) < MaxTokens
    /\ families' = Append(families, [revoked |-> "no", password |-> password,
                                     overlapped |-> password < user.password])
    /\ tokens' = Append(tokens, [family |-> Len(families) + 1, revoked |-> FALSE])

RevokeFamily(f, reason) ==
    families' = [families EXCEPT ![f].revoked = IF @ = "no" THEN reason ELSE @]

Goes(q, at, on) == request' = [request EXCEPT ![q] = [at |-> at, on |-> on]]
NewToken == Len(tokens) + 1

(* A request that ends without a session: all that changes for the tab is  *)
(* that its refresh is over.                                               *)
Rejected(q) ==
    /\ Goes(q, "idle", 0)
    /\ tab' = [tab EXCEPT !.refreshing = IF @ = q THEN None ELSE @, !.gone = @ \ {q}]

-----------------------------------------------------------------------------
(* Registration with a password *)

(* The invitation is consumed when the request arrives, not with the       *)
(* account.                                                                *)
BeginRegisterInvitationFirst(q) ==
    /\ request[q] = Idle
    /\ user.status = "absent"
    /\ invitation' = IF env.closedBeta THEN "consumed" ELSE invitation
    /\ Goes(q, "register", 0)
    /\ UNCHANGED <<env, user, challenge, families, tokens, tab, history>>

BeginRegister(q) ==
    /\ request[q] = Idle
    /\ user.status = "absent"
    /\ Goes(q, "register", 0)
    /\ UNCHANGED <<env, rows, tab, history>>

(* One transaction: the invitation, the account under the unique address,  *)
(* its verification challenge and, unless verification is required, the    *)
(* first session.                                                          *)
InsertAccount(q, c) ==
    /\ request[q].at = "register"
    /\ env.closedBeta => invitation = "open"
    /\ user.status = "absent"
    /\ Unused(c)
    /\ invitation' = IF env.closedBeta THEN "consumed" ELSE invitation
    /\ user' = [NoUser EXCEPT !.status = IF env.requireVerification THEN "pending_verification"
                                         ELSE "active", !.password = 1]
    /\ challenge' = Issued(c, "email_verification")
    /\ accounts' = accounts + 1
    /\ IF env.requireVerification
       THEN UNCHANGED <<families, tokens>> /\ Goes(q, "idle", 0)
       ELSE IssueSession(1) /\ Goes(q, "reply", NewToken)
    /\ UNCHANGED <<env, tab, signIns, lost>>

(* The account stays pending.                                              *)
VerifyEmailOnly(c) ==
    /\ Consumable(c, "email_verification")
    /\ challenge' = Consumed(c)
    /\ user' = [user EXCEPT !.verified = TRUE]
    /\ UNCHANGED <<env, invitation, families, tokens, request, tab, history>>

VerifyEmail(c) ==
    /\ Consumable(c, "email_verification")
    /\ challenge' = Consumed(c)
    /\ user' = [user EXCEPT !.verified = TRUE,
                            !.status = IF @ = "pending_verification" THEN "active" ELSE @]
    /\ UNCHANGED <<env, invitation, families, tokens, request, tab, history>>

-----------------------------------------------------------------------------
(* Sign-in with a password *)

(* The hash matches the password that is set when the identity is read.    *)
BeginLogin(q) ==
    /\ request[q] = Idle
    /\ user.password > 0
    /\ Goes(q, "login", user.password)
    /\ UNCHANGED <<env, rows, tab, history>>

FinishLogin(q) ==
    /\ request[q].at = "login"
    /\ env.requireVerification => user.verified
    /\ IssueSession(request[q].on)
    /\ Goes(q, "reply", NewToken)
    /\ UNCHANGED <<env, user, invitation, challenge, tab, history>>

-----------------------------------------------------------------------------
(* Refresh and logout *)

(* The session row is read without a lock; a token that was already        *)
(* replaced ends its family.                                               *)
ReadToken(q) ==
    LET t == request[q].on IN
    /\ request[q].at = "refresh"
    /\ IF tokens[t].revoked
       THEN RevokeFamily(tokens[t].family, "reuse_detected") /\ Rejected(q)
       ELSE UNCHANGED <<families, tab>> /\ Goes(q, "family", t)
    /\ UNCHANGED <<env, user, invitation, challenge, tokens, history>>

ReadFamily(q) ==
    LET t == request[q].on IN
    /\ request[q].at = "family"
    /\ IF Live(tokens[t].family) THEN Goes(q, "rotate", t) /\ UNCHANGED tab ELSE Rejected(q)
    /\ UNCHANGED <<env, rows, history>>

(* The token is replaced whoever else has replaced it.                     *)
RotateUnconditionally(q) ==
    LET t == request[q].on IN
    /\ request[q].at = "rotate"
    /\ Len(tokens) < MaxTokens
    /\ tokens' = Append([tokens EXCEPT ![t].revoked = TRUE],
                        [family |-> tokens[t].family, revoked |-> FALSE])
    /\ Goes(q, "reply", NewToken)
    /\ UNCHANGED <<env, user, invitation, challenge, families, tab, history>>

(* The update succeeds for one of the requests that present the token; the *)
(* others end the family, which they read before.                          *)
Rotate(q) ==
    LET t == request[q].on IN
    /\ request[q].at = "rotate"
    /\ \/ /\ ~tokens[t].revoked
          /\ Len(tokens) < MaxTokens
          /\ tokens' = Append([tokens EXCEPT ![t].revoked = TRUE],
                              [family |-> tokens[t].family, revoked |-> FALSE])
          /\ Goes(q, "reply", NewToken)
          /\ UNCHANGED <<families, tab>>
       \/ /\ tokens[t].revoked
          /\ RevokeFamily(tokens[t].family, "reuse_detected")
          /\ Rejected(q)
          /\ UNCHANGED tokens
    /\ UNCHANGED <<env, user, invitation, challenge, history>>

(* Nothing happens for a token that was replaced: a logout that arrives    *)
(* behind the tab's own refresh leaves the family live.                    *)
BeginLogout(q) ==
    /\ request[q] = Idle
    /\ tab.cookie # 0
    /\ Goes(q, IF tokens[tab.cookie].revoked THEN "signed_out" ELSE "logout", tab.cookie)
    /\ UNCHANGED <<env, rows, tab, history>>

FinishLogout(q) ==
    /\ request[q].at = "logout"
    /\ RevokeFamily(tokens[request[q].on].family, "logout")
    /\ Goes(q, "signed_out", request[q].on)
    /\ UNCHANGED <<env, user, invitation, challenge, tokens, tab, history>>

-----------------------------------------------------------------------------
(* Password reset *)

ForgotPassword(c) ==
    /\ Unused(c)
    /\ user.password > 0
    /\ challenge' = Issued(c, "password_reset")
    /\ UNCHANGED <<env, user, invitation, families, tokens, request, tab, history>>

(* The session of the tab that asks for the reset is kept.                 *)
ResetPasswordSparesTheTab(c) ==
    /\ Consumable(c, "password_reset")
    /\ user.password \in 1..(MaxPasswords - 1)
    /\ challenge' = Consumed(c)
    /\ user' = [user EXCEPT !.password = @ + 1]
    /\ families' = [f \in DOMAIN families |->
                      IF Live(f) /\ (tab.cookie # 0 => tokens[tab.cookie].family # f)
                      THEN [families[f] EXCEPT !.revoked = "password_changed"] ELSE families[f]]
    /\ UNCHANGED <<env, invitation, tokens, request, tab, history>>

ResetPassword(c) ==
    /\ Consumable(c, "password_reset")
    /\ user.password \in 1..(MaxPasswords - 1)
    /\ challenge' = Consumed(c)
    /\ user' = [user EXCEPT !.password = @ + 1]
    /\ families' = [f \in DOMAIN families |->
                      IF Live(f) THEN [families[f] EXCEPT !.revoked = "password_changed"]
                                 ELSE families[f]]
    /\ UNCHANGED <<env, invitation, tokens, request, tab, history>>

-----------------------------------------------------------------------------
(* Central OIDC and direct Google sign-in *)

StartOidc(c, type) ==
    /\ Unused(c)
    /\ type \in {"oidc_browser", "oidc_mobile"}
    /\ challenge' = Issued(c, type)
    /\ UNCHANGED <<env, user, invitation, families, tokens, request, tab, history>>

(* The transaction is looked up and left for the end of the callback.      *)
BeginCallbackUnclaimed(q, c) ==
    /\ request[q] = Idle
    /\ \E type \in {"oidc_browser", "oidc_mobile"} : Consumable(c, type)
    /\ UNCHANGED challenge
    /\ Goes(q, "exchange", c)
    /\ UNCHANGED <<env, user, invitation, families, tokens, tab, history>>

BeginCallback(q, c) ==
    /\ request[q] = Idle
    /\ \E type \in {"oidc_browser", "oidc_mobile"} : Consumable(c, type)
    /\ challenge' = Consumed(c)
    /\ Goes(q, "exchange", c)
    /\ UNCHANGED <<env, user, invitation, families, tokens, tab, history>>

(* After the provider's answer: an identity signs in; without one the      *)
(* address must be free.  canCreateOidcAccount accepts only an address the *)
(* provider has verified; other claims end the request.                    *)
FindOidcIdentity(q) ==
    /\ request[q].at = "exchange"
    /\ user.oidc \/ user.status = "absent"
    /\ Goes(q, IF user.oidc THEN "found" ELSE "create", request[q].on)
    /\ UNCHANGED <<env, rows, tab, history>>

CreateFromOidc(q) ==
    /\ request[q].at = "create"
    /\ env.closedBeta => invitation = "open"
    /\ user.status = "absent"
    /\ invitation' = IF env.closedBeta THEN "consumed" ELSE invitation
    /\ user' = [NoUser EXCEPT !.status = "active", !.verified = TRUE, !.oidc = TRUE]
    /\ accounts' = accounts + 1
    /\ Goes(q, "found", request[q].on)
    /\ UNCHANGED <<env, challenge, families, tokens, tab, signIns, lost>>

FinishBrowser(q) ==
    LET c == request[q].on IN
    /\ request[q].at = "found"
    /\ challenge[c].type = "oidc_browser"
    /\ IssueSession(user.password)
    /\ signIns' = [signIns EXCEPT ![c] = @ + 1]
    /\ Goes(q, "reply", NewToken)
    /\ UNCHANGED <<env, user, invitation, challenge, tab, accounts, lost>>

FinishMobile(q, bridge) ==
    LET c == request[q].on IN
    /\ request[q].at = "found"
    /\ challenge[c].type = "oidc_mobile"
    /\ Unused(bridge)
    /\ challenge' = Issued(bridge, "oidc_bridge")
    /\ signIns' = [signIns EXCEPT ![c] = @ + 1]
    /\ Goes(q, "idle", 0)
    /\ UNCHANGED <<env, user, invitation, families, tokens, tab, accounts, lost>>

(* The app's exchange holds the row from its look-up on.  The tokens go to *)
(* the app, not to the tab.                                                *)
ExchangeBridge(c) ==
    /\ Consumable(c, "oidc_bridge")
    /\ challenge' = Consumed(c)
    /\ IssueSession(user.password)
    /\ signIns' = [signIns EXCEPT ![c] = @ + 1]
    /\ UNCHANGED <<env, user, invitation, request, tab, accounts, lost>>

StartGoogleAuth(c) ==
    /\ Unused(c)
    /\ challenge' = Issued(c, "oauth_state")
    /\ UNCHANGED <<env, user, invitation, families, tokens, request, tab, history>>

BeginGoogleCallback(q, c) ==
    /\ request[q] = Idle
    /\ Consumable(c, "oauth_state")
    /\ challenge' = Consumed(c)
    /\ Goes(q, "google", c)
    /\ UNCHANGED <<env, user, invitation, families, tokens, tab, history>>

(* Only an identity that exists signs in: decideGoogleAuth neither creates *)
(* nor links one.                                                          *)
FinishGoogleCallback(q) ==
    LET c == request[q].on IN
    /\ request[q].at = "google"
    /\ user.google
    /\ IssueSession(user.password)
    /\ signIns' = [signIns EXCEPT ![c] = @ + 1]
    /\ Goes(q, "reply", NewToken)
    /\ UNCHANGED <<env, user, invitation, challenge, tab, accounts, lost>>

(* A refusal, a failed exchange with the provider or a crash.              *)
Abort(q) ==
    /\ request[q].at \notin {"idle", "reply", "signed_out"}
    /\ Rejected(q)
    /\ UNCHANGED <<env, rows, history>>

-----------------------------------------------------------------------------
(* The tab *)

(* Every call that is refused starts a refresh of its own.                 *)
UnauthorizedUncoalesced(q) ==
    /\ tab.cookie # 0
    /\ request[q] = Idle
    /\ tab' = [tab EXCEPT !.refreshing = q]
    /\ Goes(q, "refresh", tab.cookie)
    /\ UNCHANGED <<env, rows, history>>

(* A call is refused: it starts a refresh with the cookie of that moment,  *)
(* unless one is under way; then it only waits for it.                     *)
Unauthorized(q) ==
    /\ tab.refreshing = None
    /\ tab.cookie # 0
    /\ request[q] = Idle
    /\ tab' = [tab EXCEPT !.refreshing = q]
    /\ Goes(q, "refresh", tab.cookie)
    /\ UNCHANGED <<env, rows, history>>

Settled(q, cookie) ==
    tab' = [tab EXCEPT !.cookie = cookie, !.refreshing = IF @ = q THEN None ELSE @]

ReceiveSession(q) ==
    /\ request[q].at = "reply"
    /\ q \notin tab.gone
    /\ Settled(q, request[q].on)
    /\ Goes(q, "idle", 0)
    /\ UNCHANGED <<env, rows, history>>

(* logout clears the cookies.                                              *)
ReceiveSignOut(q) ==
    /\ request[q].at = "signed_out"
    /\ Settled(q, 0)
    /\ Goes(q, "idle", 0)
    /\ UNCHANGED <<env, rows, history>>

(* The tab's fifteen seconds are over, or its connection is: it gives up   *)
(* on the refresh, which runs on without it.                               *)
GiveUp(q) ==
    /\ tab.refreshing = q
    /\ tab' = [tab EXCEPT !.refreshing = None, !.gone = @ \cup {q}]
    /\ lost' = TRUE
    /\ UNCHANGED <<env, rows, request, signIns, accounts>>

(* An answer nobody waits for any more, or that is lost on the way.        *)
Drop(q) ==
    /\ request[q].at \in {"reply", "signed_out"}
    /\ tab.refreshing # q
    /\ tab' = [tab EXCEPT !.gone = @ \ {q}]
    /\ Goes(q, "idle", 0)
    /\ UNCHANGED <<env, rows, history>>

-----------------------------------------------------------------------------
(* We begin with an invited address without an account, or with a verified *)
(* account that has a Google identity and whose session the tab holds; the *)
(* settings no longer matter to it.                                        *)
Init ==
    /\ env \in Deployments
    /\ challenge = [c \in Challenges |-> NoChallenge]
    /\ request = [q \in Requests |-> Idle]
    /\ signIns = [c \in Challenges |-> 0]
    /\ accounts = 0
    /\ lost = FALSE
    /\ invitation = "open"
    /\ \/ /\ user = NoUser
          /\ families = <<>>
          /\ tokens = <<>>
          /\ tab = [cookie |-> 0, refreshing |-> None, gone |-> {}]
       \/ /\ env = CHOOSE settings \in Deployments : TRUE
          /\ user = [NoUser EXCEPT !.status = "active", !.verified = TRUE, !.password = 1,
                                   !.google = TRUE]
          /\ families = <<[revoked |-> "no", password |-> 1,
                           overlapped |-> FALSE]>>
          /\ tokens = <<[family |-> 1, revoked |-> FALSE]>>
          /\ tab = [cookie |-> 1, refreshing |-> None, gone |-> {}]

Next ==
    \/ \E q \in Requests :
          \/ BeginRegister(q) \/ BeginLogin(q) \/ FinishLogin(q)
          \/ ReadToken(q) \/ ReadFamily(q) \/ Rotate(q)
          \/ BeginLogout(q) \/ FinishLogout(q)
          \/ FindOidcIdentity(q) \/ CreateFromOidc(q) \/ FinishBrowser(q)
          \/ FinishGoogleCallback(q) \/ Abort(q)
          \/ ReceiveSession(q) \/ ReceiveSignOut(q)
          \/ Unauthorized(q) \/ GiveUp(q) \/ Drop(q)
    \/ \E q \in Requests, c \in Challenges :
          InsertAccount(q, c) \/ BeginCallback(q, c) \/ FinishMobile(q, c) \/ BeginGoogleCallback(q, c)
    \/ \E c \in Challenges :
          \/ VerifyEmail(c) \/ ForgotPassword(c) \/ ResetPassword(c)
          \/ ExchangeBridge(c) \/ StartGoogleAuth(c)
          \/ \E type \in ChallengeTypes : StartOidc(c, type)

Spec == Init /\ [][Next]_vars

-----------------------------------------------------------------------------
Steps == {"idle", "register", "login", "refresh", "family", "rotate", "logout", "exchange",
          "create", "found", "google", "reply", "signed_out"}

(* Rows are typed and refer to rows that exist, and an address that was    *)
(* verified is no longer pending (verifyEmail writes both).                *)
TypeOK ==
    /\ env \in Deployments
    /\ user \in [status : UserStatuses, verified : BOOLEAN, password : 0..MaxPasswords,
                 oidc : BOOLEAN, google : BOOLEAN]
    /\ user.verified => user.status = "active"
    /\ invitation \in {"open", "consumed"}
    /\ challenge \in [Challenges -> {NoChallenge} \cup [type : ChallengeTypes, state : ChallengeStates]]
    /\ \A f \in DOMAIN families :
          families[f] \in [revoked : {"no"} \cup RevokeReasons,
                           password : 0..MaxPasswords, overlapped : BOOLEAN]
    /\ tokens \in Seq([family : DOMAIN families, revoked : BOOLEAN])
    /\ \A q \in Requests :
          /\ request[q].at \in Steps
          /\ request[q].at \in {"refresh", "family", "rotate", "logout", "reply"}
                => request[q].on \in DOMAIN tokens
    /\ tab \in [cookie : {0} \cup DOMAIN tokens, refreshing : Requests \cup {None},
                gone : SUBSET Requests]
    /\ signIns \in [Challenges -> Nat] /\ accounts \in Nat /\ lost \in BOOLEAN

(* A live family has exactly one refresh token that can be used: of the    *)
(* requests that present a token at the same time one replaces it, and no  *)
(* family is left without a token either (refresh).                        *)
LiveFamiliesHaveOneToken ==
    \A f \in DOMAIN families :
        Live(f) => Cardinality({t \in DOMAIN tokens : tokens[t].family = f /\ ~tokens[t].revoked}) = 1

(* A single tab is never taken for a thief: reuse is detected only after   *)
(* the tab gave up on a refresh that ran on.  The interceptor coalesces    *)
(* the refreshes of calls that are refused together, and a logout, a new   *)
(* sign-in or a late answer in between does not bring an old cookie back.  *)
ReuseOnlyAfterLoss ==
    (\E f \in DOMAIN families : families[f].revoked = "reuse_detected") => lost

(* A state or bridge code gives at most one session or code, however many  *)
(* callbacks present it and whatever fails between its consumption and the *)
(* session (callback, exchangeBridge, googleCallback).                     *)
CodesSignInOnce == \A c \in Challenges : signIns[c] <= 1

(* In the closed beta an invitation is gone exactly when the account it    *)
(* was for exists: a registration that fails, or loses to another one for  *)
(* the address, does not use it up (register, callback).                   *)
InvitationsAreSpentOnAccounts ==
    /\ accounts <= 1
    /\ env.closedBeta => (invitation = "consumed" <=> accounts = 1)

(* No session survives the reset of the password it was opened under,      *)
(* however it was opened and however often it was refreshed; the exception *)
(* is a sign-in that had verified the old password before the reset and    *)
(* opens its session after it (resetPassword, login).                      *)
SessionsEndWithTheirPassword ==
    \A f \in DOMAIN families :
        Live(f) => families[f].password = user.password \/ families[f].overlapped
=============================================================================
