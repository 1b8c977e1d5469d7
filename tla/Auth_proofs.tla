------------------------------ MODULE Auth_proofs ------------------------------
(***************************************************************************)
(* Sessions and one-time codes are sound for any number of concurrent      *)
(* requests, challenges, session families and refresh tokens.              *)
(***************************************************************************)
EXTENDS Auth, SequenceTheorems, FiniteSetTheorems, TLAPS

FamilyRows == [revoked : {"no"} \cup RevokeReasons, password : 0..MaxPasswords, overlapped : BOOLEAN]
Users == [status : UserStatuses, verified : BOOLEAN, password : 0..MaxPasswords,
          oidc : BOOLEAN, google : BOOLEAN]
TokenRows(n) == [family : 1..n, revoked : BOOLEAN]
ChallengeRows == {NoChallenge} \cup [type : ChallengeTypes, state : ChallengeStates]
Present == user.status # "absent"
Carries(q, c) == request[q].at \in {"exchange", "create", "found", "google"} /\ request[q].on = c
Presents(q) == request[q].at \in {"refresh", "family", "rotate"}
Usable(row, f) == row.family = f /\ ~row.revoked

(* Rows, and what a row that exists says about the account. *)
RowsTyped ==
    /\ env \in Deployments
    /\ user \in Users
    /\ user.verified => user.status = "active"
    /\ invitation \in {"open", "consumed"}
    /\ challenge \in [Challenges -> ChallengeRows]
    /\ families \in Seq(FamilyRows)
    /\ tokens \in Seq(TokenRows(Len(families)))
    /\ ~Present => user = NoUser /\ families = <<>>
    /\ \A c \in Challenges :
          challenge[c].type \in {"email_verification", "oidc_bridge"} => Present

(* A request works on rows that exist; a password it has verified was set. *)
RequestsTyped ==
    /\ request \in [Requests -> [at : Steps, on : Nat \cup Challenges]]
    /\ \A q \in Requests :
          /\ request[q].at \in {"refresh", "family", "rotate", "logout", "signed_out", "reply"}
                => request[q].on \in 1..Len(tokens)
          /\ request[q].at = "login" => request[q].on \in 1..user.password
          /\ request[q].at \in {"exchange", "create", "found", "google"}
                => request[q].on \in Challenges
          /\ request[q].at = "found" => Present

TabTyped ==
    tab \in [cookie : 0..Len(tokens), refreshing : Requests \cup {None}, gone : SUBSET Requests]

HistoryTyped == signIns \in [Challenges -> Nat] /\ accounts \in Nat /\ lost \in BOOLEAN

Typed == RowsTyped /\ RequestsTyped /\ TabTyped /\ HistoryTyped

-----------------------------------------------------------------------------
(* What the helpers do *)

(* A new family and its token are added behind the others. *)
LEMMA SessionIssued ==
    ASSUME RowsTyped, NEW p \in 0..MaxPasswords, IssueSession(p)
    PROVE  /\ families' \in Seq(FamilyRows)
           /\ tokens' \in Seq(TokenRows(Len(families')))
           /\ Len(families') = Len(families) + 1
           /\ Len(tokens') = Len(tokens) + 1
           /\ \A f \in 1..Len(families) : families'[f] = families[f]
           /\ families'[Len(families) + 1] =
                 [revoked |-> "no", password |-> p, overlapped |-> p < user.password]
           /\ \A t \in 1..Len(tokens) : tokens'[t] = tokens[t]
           /\ tokens'[Len(tokens) + 1] = [family |-> Len(families) + 1, revoked |-> FALSE]
<1> DEFINE row == [revoked |-> "no", password |-> p, overlapped |-> p < user.password]
           token == [family |-> Len(families) + 1, revoked |-> FALSE]
<1>1. families' = Append(families, row) /\ tokens' = Append(tokens, token)
  BY DEF IssueSession
<1>2. row \in FamilyRows
  BY DEF FamilyRows
<1>3. families \in Seq(FamilyRows) /\ tokens \in Seq(TokenRows(Len(families)))
  BY DEF RowsTyped
<1> HIDE DEF row
<1>4. /\ families' \in Seq(FamilyRows) /\ Len(families') = Len(families) + 1
      /\ \A f \in 1..Len(families) : families'[f] = families[f]
      /\ families'[Len(families) + 1] = row
  BY <1>1, <1>2, <1>3
<1>5. token \in TokenRows(Len(families')) /\ tokens \in Seq(TokenRows(Len(families')))
  <2>1. TokenRows(Len(families)) \subseteq TokenRows(Len(families'))
    BY <1>3, <1>4 DEF TokenRows
  <2>2. tokens \in Seq(TokenRows(Len(families')))
    BY <2>1, <1>3, SeqMonotonic
  <2>3. Len(families) + 1 \in 1..Len(families')
    BY <1>3, <1>4
  <2> QED
    BY <2>2, <2>3 DEF TokenRows
<1> HIDE DEF token
<1>6. /\ tokens' \in Seq(TokenRows(Len(families'))) /\ Len(tokens') = Len(tokens) + 1
      /\ \A t \in 1..Len(tokens) : tokens'[t] = tokens[t]
      /\ tokens'[Len(tokens) + 1] = token
  BY <1>1, <1>5
<1> QED
  BY <1>4, <1>6 DEF row, token

LEMMA TokenAdded ==
    ASSUME RowsTyped, NEW p, IssueSession(p)
    PROVE  Len(tokens') = Len(tokens) + 1
<1> DEFINE token == [family |-> Len(families) + 1, revoked |-> FALSE]
<1>1. Len(families) \in Nat /\ tokens \in Seq(TokenRows(Len(families)))
  BY DEF RowsTyped
<1>2. token \in TokenRows(Len(families) + 1) /\ TokenRows(Len(families)) \subseteq TokenRows(Len(families) + 1)
  BY <1>1 DEF TokenRows
<1>3. tokens' = Append(tokens, token)
  BY DEF IssueSession
<1> HIDE DEF token
<1> QED
  BY <1>1, <1>2, <1>3, SeqMonotonic, AppendProperties

(* Revoking changes no family but the one that is still live. *)
LEMMA FamilyRevoked ==
    ASSUME RowsTyped, NEW f \in 1..Len(families), NEW reason \in RevokeReasons, RevokeFamily(f, reason)
    PROVE  /\ families' \in Seq(FamilyRows)
           /\ Len(families') = Len(families)
           /\ \A g \in 1..Len(families) :
                 /\ families'[g].password = families[g].password
                 /\ families'[g].overlapped = families[g].overlapped
                 /\ families'[g].revoked = families[g].revoked \/ families'[g].revoked = reason
           /\ ~Live(f)'
<1>1. families' = [families EXCEPT ![f].revoked = IF @ = "no" THEN reason ELSE @]
  BY DEF RevokeFamily
<1>2. families \in Seq(FamilyRows)
  BY DEF RowsTyped
<1>3. DOMAIN families = 1..Len(families) /\ \A g \in 1..Len(families) : families[g] \in FamilyRows
  BY <1>2
<1>4. families'[f] = [families[f] EXCEPT !.revoked = IF @ = "no" THEN reason ELSE @]
  BY <1>1, <1>3
<1>5. families'[f] \in FamilyRows /\ \A g \in 1..Len(families) \ {f} : families'[g] = families[g]
  BY <1>1, <1>3, <1>4 DEF FamilyRows
<1>6. families' \in Seq(FamilyRows) /\ Len(families') = Len(families)
  BY <1>1, <1>2, <1>3, <1>5
<1> QED
  BY <1>3, <1>4, <1>5, <1>6 DEF FamilyRows, RevokeReasons, Live

(* Rotation replaces a token by a new one of the same family. *)
LEMMA TokenRotated ==
    ASSUME RowsTyped, NEW t \in 1..Len(tokens),
           tokens' = Append([tokens EXCEPT ![t].revoked = TRUE],
                            [family |-> tokens[t].family, revoked |-> FALSE])
    PROVE  /\ tokens' \in Seq(TokenRows(Len(families)))
           /\ Len(tokens') = Len(tokens) + 1
           /\ \A u \in 1..Len(tokens) :
                 tokens'[u].family = tokens[u].family /\ (u # t => tokens'[u].revoked = tokens[u].revoked)
           /\ tokens'[t].revoked
           /\ tokens'[Len(tokens) + 1] = [family |-> tokens[t].family, revoked |-> FALSE]
<1> DEFINE rows1 == TokenRows(Len(families))
           marked == [tokens EXCEPT ![t].revoked = TRUE]
           token == [family |-> tokens[t].family, revoked |-> FALSE]
<1>1. tokens \in Seq(rows1) /\ tokens[t] \in rows1 /\ Len(tokens) \in Nat
  BY DEF RowsTyped
<1>2. marked = [tokens EXCEPT ![t] = [tokens[t] EXCEPT !.revoked = TRUE]]
  BY <1>1
<1>3. [tokens[t] EXCEPT !.revoked = TRUE] \in rows1 /\ token \in rows1
  BY <1>1 DEF TokenRows
<1> HIDE DEF rows1
<1>4. /\ marked \in Seq(rows1) /\ Len(marked) = Len(tokens)
      /\ \A u \in 1..Len(tokens) : marked[u] = IF u = t THEN [tokens[t] EXCEPT !.revoked = TRUE] ELSE tokens[u]
  BY <1>1, <1>2, <1>3, ExceptSeq
<1>5. tokens' = Append(marked, token)
  OBVIOUS
<1> HIDE DEF marked, token
<1>6. /\ tokens' \in Seq(rows1) /\ Len(tokens') = Len(tokens) + 1
      /\ \A u \in 1..Len(tokens) : tokens'[u] = marked[u]
      /\ tokens'[Len(tokens) + 1] = token
  <2>1. /\ Append(marked, token) \in Seq(rows1) /\ Len(Append(marked, token)) = Len(marked) + 1
        /\ \A u \in 1..Len(marked) : Append(marked, token)[u] = marked[u]
        /\ Append(marked, token)[Len(marked) + 1] = token
    BY <1>3, <1>4, AppendProperties
  <2>2. Len(marked) = Len(tokens)
    BY <1>4
  <2> DEFINE appended == Append(marked, token)
  <2>3. tokens' = appended
    BY <1>5
  <2>4. /\ appended \in Seq(rows1) /\ Len(appended) = Len(marked) + 1
        /\ \A u \in 1..Len(marked) : appended[u] = marked[u]
        /\ appended[Len(marked) + 1] = token
    BY <2>1
  <2> HIDE DEF appended
  <2> QED
    BY ONLY <2>2, <2>3, <2>4
<1>7. \A u \in 1..Len(tokens) \ {t} : tokens'[u] = tokens[u]
  BY ONLY <1>4, <1>6
<1>8. tokens'[t] = [tokens[t] EXCEPT !.revoked = TRUE]
  BY ONLY <1>4, <1>6, t \in 1..Len(tokens)
<1>9. tokens'[t].family = tokens[t].family /\ tokens'[t].revoked
  BY ONLY <1>1, <1>8 DEF rows1, TokenRows
<1> QED
  BY <1>6, <1>7, <1>9 DEF token, rows1

-----------------------------------------------------------------------------
(* Types *)

(* Tokens and families are only added, a password is only replaced by a    *)
(* later one, and an account stays.                                        *)
Grows ==
    /\ RowsTyped'
    /\ Len(families) <= Len(families')
    /\ Len(tokens) <= Len(tokens')
    /\ user.password <= user'.password
    /\ Present => Present'

LEMMA Lengths ==
    ASSUME RowsTyped
    PROVE  Len(families) \in Nat /\ Len(tokens) \in Nat
  BY DEF RowsTyped

LEMMA Standing ==
    ASSUME RowsTyped, UNCHANGED <<env, rows>>
    PROVE  Grows
  BY DEF Grows, RowsTyped, Users, Present, rows

(* What holds of rows when only challenges change. *)
LEMMA ChallengeIssued ==
    ASSUME RowsTyped, UNCHANGED <<env, user, invitation, families, tokens>>,
           NEW c \in Challenges, NEW type \in ChallengeTypes, challenge' = Issued(c, type),
           type \in {"email_verification", "oidc_bridge"} => Present
    PROVE  Grows
<1>0. challenge \in [Challenges -> ChallengeRows]
  BY DEF RowsTyped
<1>1. challenge' \in [Challenges -> ChallengeRows] /\ challenge'[c].type = type
  BY <1>0 DEF Issued, ChallengeRows, ChallengeStates
<1>2. \A b \in Challenges \ {c} : challenge'[b] = challenge[b]
  BY <1>0 DEF Issued
<1> QED
  BY <1>1, <1>2 DEF Grows, RowsTyped, Users, Present

LEMMA ChallengeConsumed ==
    ASSUME RowsTyped, UNCHANGED <<env, user, invitation, families, tokens>>,
           NEW c \in Challenges, challenge[c].type \in ChallengeTypes, challenge' = Consumed(c)
    PROVE  Grows
<1>0. challenge \in [Challenges -> ChallengeRows]
  BY DEF RowsTyped
<1>1. challenge' \in [Challenges -> ChallengeRows] /\ challenge'[c].type = challenge[c].type
  BY <1>0 DEF Consumed, NoChallenge, ChallengeRows, ChallengeTypes, ChallengeStates
<1>2. \A b \in Challenges \ {c} : challenge'[b] = challenge[b]
  BY <1>0 DEF Consumed
<1> QED
  BY <1>1, <1>2 DEF Grows, RowsTyped, Users, Present

(* What holds of rows when a session is issued and perhaps a challenge     *)
(* consumed.                                                               *)
LEMMA SessionsGrow ==
    ASSUME RowsTyped, NEW p \in 0..MaxPasswords, IssueSession(p), Present,
           UNCHANGED <<env, user, invitation>>,
           challenge' \in [Challenges -> ChallengeRows]
    PROVE  Grows
<1>1. /\ families' \in Seq(FamilyRows) /\ tokens' \in Seq(TokenRows(Len(families')))
      /\ Len(families) <= Len(families') /\ Len(tokens) <= Len(tokens')
  <2>1. /\ families' \in Seq(FamilyRows) /\ tokens' \in Seq(TokenRows(Len(families')))
        /\ Len(families') = Len(families) + 1 /\ Len(tokens') = Len(tokens) + 1
    BY SessionIssued
  <2> QED
    BY <2>1, Lengths
<1>2. \A c \in Challenges :
         challenge'[c].type \in {"email_verification", "oidc_bridge"} => Present'
  BY DEF Present
<1> QED
  BY <1>1, <1>2 DEF Grows, RowsTyped, Users, Present

LEMMA FamiliesGrow ==
    ASSUME RowsTyped, NEW f \in 1..Len(families), NEW reason \in RevokeReasons, RevokeFamily(f, reason),
           UNCHANGED <<env, user, invitation, challenge, tokens>>
    PROVE  Grows
<1>1. Present
  BY DEF RowsTyped
<1>2. families' \in Seq(FamilyRows) /\ Len(families') = Len(families)
  BY FamilyRevoked
<1> QED
  BY <1>1, <1>2 DEF Grows, RowsTyped, Users, Present

LEMMA RegisterGrows ==
    ASSUME Typed, NEW q \in Requests, NEW c \in Challenges, InsertAccount(q, c)
    PROVE  Grows
<1>1. 1 \in 0..MaxPasswords
  BY BoundsAreNatural
<1>2. /\ user' = [NoUser EXCEPT !.status = IF env.requireVerification THEN "pending_verification"
                                           ELSE "active", !.password = 1]
      /\ ~Present /\ challenge' = Issued(c, "email_verification") /\ invitation' \in {"open", "consumed"}
      /\ env' = env
  BY DEF InsertAccount, Present, Typed, RowsTyped
<1>3. /\ user' \in Users
      /\ user'.verified => user'.status = "active"
      /\ Present'
  <2>1. user' = [status |-> IF env.requireVerification THEN "pending_verification" ELSE "active",
                 verified |-> FALSE, password |-> 1, oidc |-> FALSE, google |-> FALSE]
    BY <1>2 DEF NoUser
  <2> QED
    BY <1>1, <2>1 DEF Users, UserStatuses, Present
<1>4. challenge' \in [Challenges -> ChallengeRows]
  BY <1>2 DEF Typed, RowsTyped, Issued, ChallengeRows, ChallengeTypes, ChallengeStates
<1>5. /\ families' \in Seq(FamilyRows) /\ tokens' \in Seq(TokenRows(Len(families')))
      /\ Len(families) <= Len(families') /\ Len(tokens) <= Len(tokens')
  <2>1. CASE UNCHANGED <<families, tokens>>
    BY <2>1 DEF Typed, RowsTyped
  <2>2. CASE IssueSession(1)
    <3>1. /\ families' \in Seq(FamilyRows) /\ tokens' \in Seq(TokenRows(Len(families')))
          /\ Len(families') = Len(families) + 1 /\ Len(tokens') = Len(tokens) + 1
      BY <1>1, <2>2, SessionIssued DEF Typed
    <3> QED
      BY <3>1, Lengths DEF Typed
  <2> QED
    BY <2>1, <2>2 DEF InsertAccount
<1>6. user.password <= user'.password
  BY <1>1, <1>2 DEF Typed, RowsTyped, NoUser
<1> QED
  BY <1>2, <1>3, <1>4, <1>5, <1>6 DEF Grows, RowsTyped, Typed

LEMMA ResetGrows ==
    ASSUME Typed, NEW c \in Challenges, ResetPassword(c)
    PROVE  Grows
<1>1. /\ user' = [user EXCEPT !.password = user.password + 1] /\ user.password \in 1..(MaxPasswords - 1)
      /\ challenge' = Consumed(c)
      /\ families' = [f \in DOMAIN families |->
                         IF Live(f) THEN [families[f] EXCEPT !.revoked = "password_changed"] ELSE families[f]]
      /\ UNCHANGED <<env, invitation, tokens>>
  BY DEF ResetPassword
<1>2. Present
  BY <1>1 DEF Typed, RowsTyped, NoUser
<1>3. /\ user' \in Users
      /\ user'.verified => user'.status = "active"
      /\ Present' /\ user.password <= user'.password
  <2>1. user' = [status |-> user.status, verified |-> user.verified, password |-> user.password + 1,
                 oidc |-> user.oidc, google |-> user.google]
    BY <1>1 DEF Typed, RowsTyped, Users
  <2> QED
    BY <1>1, <1>2, <2>1, BoundsAreNatural DEF Typed, RowsTyped, Users, Present
<1>4. challenge' \in [Challenges -> ChallengeRows]
  BY <1>1 DEF ResetPassword, Consumable, Typed, RowsTyped, Consumed, ChallengeRows, ChallengeTypes, ChallengeStates
<1>5. families' \in Seq(FamilyRows) /\ Len(families') = Len(families)
  <2>1. families \in [1..Len(families) -> FamilyRows] /\ Len(families) \in Nat
    BY DEF Typed, RowsTyped
  <2>2. families' \in [1..Len(families) -> FamilyRows]
    BY <1>1, <2>1 DEF FamilyRows, RevokeReasons
  <2> QED
    BY <2>1, <2>2, SeqDef
<1> QED
  BY <1>1, <1>2, <1>3, <1>4, <1>5 DEF Grows, RowsTyped, Typed

LEMMA RowsGrow ==
    ASSUME Typed, [Next]_vars
    PROVE  Grows
<1> USE DEF Typed
<1>1. CASE UNCHANGED vars
  BY <1>1, Standing DEF vars
<1>2. ASSUME NEW q \in Requests,
             \/ BeginRegister(q) \/ BeginLogin(q) \/ ReadFamily(q) \/ BeginLogout(q) \/ FindOidcIdentity(q)
             \/ Abort(q) \/ ReceiveSession(q) \/ ReceiveSignOut(q) \/ Unauthorized(q) \/ GiveUp(q) \/ Drop(q)
      PROVE  Grows
  BY <1>2, Standing DEF BeginRegister, BeginLogin, ReadFamily, BeginLogout, FindOidcIdentity, Abort,
       ReceiveSession, ReceiveSignOut, Unauthorized, GiveUp, Drop
<1>3. ASSUME NEW q \in Requests, FinishLogin(q) PROVE Grows
  <2>1. request[q].on \in 1..user.password /\ user.password \in 0..MaxPasswords /\ MaxPasswords \in Nat
    BY <1>3, BoundsAreNatural DEF FinishLogin, RequestsTyped, RowsTyped, Users
  <2>2. request[q].on \in 0..MaxPasswords /\ Present
    BY <2>1 DEF RowsTyped, NoUser
  <2> QED
    BY <1>3, <2>2, SessionsGrow DEF FinishLogin, RowsTyped
<1>4. ASSUME NEW q \in Requests, FinishBrowser(q) \/ FinishGoogleCallback(q) PROVE Grows
  <2>1. user.password \in 0..MaxPasswords /\ Present
    BY <1>4 DEF FinishBrowser, FinishGoogleCallback, RequestsTyped, RowsTyped, Users, NoUser, Present
  <2> QED
    BY <1>4, <2>1, SessionsGrow DEF FinishBrowser, FinishGoogleCallback, RowsTyped
<1>5. ASSUME NEW c \in Challenges, ExchangeBridge(c) PROVE Grows
  <2>1. user.password \in 0..MaxPasswords /\ Present
    BY <1>5 DEF ExchangeBridge, Consumable, RowsTyped, Users
  <2>2. challenge' \in [Challenges -> ChallengeRows]
    BY <1>5 DEF ExchangeBridge, Consumable, Consumed, RowsTyped, ChallengeRows, ChallengeTypes, ChallengeStates
  <2> QED
    BY <1>5, <2>1, <2>2, SessionsGrow DEF ExchangeBridge, RowsTyped
<1>6. ASSUME NEW q \in Requests, ReadToken(q) \/ Rotate(q) \/ FinishLogout(q) PROVE Grows
  <2> DEFINE t == request[q].on
  <2>1. t \in 1..Len(tokens) /\ tokens[t].family \in 1..Len(families) /\ Present
    <3>1. t \in 1..Len(tokens)
      BY <1>6 DEF ReadToken, Rotate, FinishLogout, RequestsTyped
    <3>2. tokens[t] \in TokenRows(Len(families))
      BY <3>1 DEF RowsTyped
    <3>3. tokens[t].family \in 1..Len(families)
      BY <3>2 DEF TokenRows
    <3> QED
      BY <3>1, <3>3 DEF RowsTyped
  <2>2. CASE \E reason \in RevokeReasons :
                RevokeFamily(tokens[t].family, reason) /\ UNCHANGED <<env, user, invitation, challenge, tokens>>
    BY <2>1, <2>2, FamiliesGrow
  <2>3. CASE UNCHANGED <<env, rows>>
    BY <2>3, Standing
  <2>4. CASE /\ tokens' = Append([tokens EXCEPT ![t].revoked = TRUE],
                                 [family |-> tokens[t].family, revoked |-> FALSE])
             /\ UNCHANGED <<env, user, invitation, challenge, families>>
    <3>1. tokens' \in Seq(TokenRows(Len(families))) /\ Len(tokens') = Len(tokens) + 1
      BY <2>1, <2>4, TokenRotated
    <3> QED
      BY <2>1, <2>4, <3>1, Lengths DEF Grows, RowsTyped, Users, Present
  <2> QED
    BY <1>6, <2>2, <2>3, <2>4 DEF ReadToken, Rotate, FinishLogout, RevokeReasons, rows
<1>7. ASSUME NEW q \in Requests, CreateFromOidc(q) PROVE Grows
  <2>1. /\ user' = [NoUser EXCEPT !.status = "active", !.verified = TRUE, !.oidc = TRUE] /\ ~Present
        /\ invitation' \in {"open", "consumed"} /\ UNCHANGED <<env, challenge, families, tokens>>
    BY <1>7 DEF CreateFromOidc, Present, RowsTyped
  <2>2. /\ user' \in Users
        /\ user'.verified => user'.status = "active"
        /\ Present' /\ user.password <= user'.password
    <3>1. /\ user' = [status |-> "active", verified |-> TRUE, password |-> 0, oidc |-> TRUE, google |-> FALSE]
          /\ user.password = 0
      <4>1. user = NoUser
        BY <2>1 DEF RowsTyped
      <4> QED
        BY <2>1, <4>1 DEF NoUser
    <3> QED
      BY <3>1, BoundsAreNatural DEF Users, UserStatuses, Present
  <2> QED
    BY <2>1, <2>2 DEF Grows, RowsTyped
<1>8. ASSUME NEW q \in Requests, NEW c \in Challenges, FinishMobile(q, c) \/ BeginCallback(q, c) \/ BeginGoogleCallback(q, c)
      PROVE  Grows
  <2>1. CASE FinishMobile(q, c)
    <3>1. "oidc_bridge" \in ChallengeTypes /\ challenge' = Issued(c, "oidc_bridge")
      BY <2>1 DEF FinishMobile, ChallengeTypes
    <3>2. Present /\ UNCHANGED <<env, user, invitation, families, tokens>>
      BY <2>1 DEF FinishMobile, RequestsTyped
    <3> QED
      BY <3>1, <3>2, ChallengeIssued
  <2>2. CASE BeginCallback(q, c)
    BY <1>8, <2>2, ChallengeConsumed DEF BeginCallback, Consumable, ChallengeTypes
  <2>3. CASE BeginGoogleCallback(q, c)
    BY <1>8, <2>3, ChallengeConsumed DEF BeginGoogleCallback, Consumable, ChallengeTypes
  <2> QED
    BY <1>8, <2>1, <2>2, <2>3
<1>9. ASSUME NEW c \in Challenges,
             \/ ForgotPassword(c) \/ StartGoogleAuth(c)
             \/ \E type \in ChallengeTypes : StartOidc(c, type)
      PROVE  Grows
  <2>1. PICK type \in ChallengeTypes \ {"email_verification", "oidc_bridge"} :
          challenge' = Issued(c, type) /\ UNCHANGED <<env, user, invitation, families, tokens>>
    <3>1. CASE ForgotPassword(c)
      BY <3>1 DEF ForgotPassword, ChallengeTypes
    <3>2. CASE StartGoogleAuth(c)
      BY <3>2 DEF StartGoogleAuth, ChallengeTypes
    <3>3. ASSUME NEW type \in ChallengeTypes, StartOidc(c, type)
          PROVE  /\ type \in ChallengeTypes \ {"email_verification", "oidc_bridge"}
                 /\ challenge' = Issued(c, type) /\ UNCHANGED <<env, user, invitation, families, tokens>>
      BY <3>3 DEF StartOidc, ChallengeTypes
    <3> QED
      BY <1>9, <3>1, <3>2, <3>3
  <2> QED
    BY <2>1, ChallengeIssued
<1>10. ASSUME NEW c \in Challenges, VerifyEmail(c) PROVE Grows
  <2>1. Present /\ user.status \in {"pending_verification", "active"}
    BY <1>10 DEF VerifyEmail, Consumable, RowsTyped, Users, Present, UserStatuses
  <2>2. /\ user' \in Users
        /\ user'.status = "active" /\ user.password <= user'.password
    <3>1. user' = [status |-> "active", verified |-> TRUE, password |-> user.password,
                   oidc |-> user.oidc, google |-> user.google]
      <4>1. user' = [user EXCEPT !.verified = TRUE, !.status = "active"]
        BY <1>10, <2>1 DEF VerifyEmail
      <4> QED
        BY <4>1 DEF RowsTyped, Users
    <3> QED
      BY <3>1 DEF RowsTyped, Users, UserStatuses
  <2>3. challenge' \in [Challenges -> ChallengeRows]
    BY <1>10 DEF VerifyEmail, Consumable, Consumed, RowsTyped, ChallengeRows, ChallengeTypes, ChallengeStates
  <2> QED
    BY <1>10, <2>1, <2>2, <2>3, Lengths DEF VerifyEmail, Grows, RowsTyped, Present
<1> QED
  BY <1>1, <1>2, <1>3, <1>4, <1>5, <1>6, <1>7, <1>8, <1>9, <1>10, RegisterGrows, ResetGrows DEF Next

LEMMA Sizes ==
    ASSUME RowsTyped, Grows
    PROVE  /\ user.password \in Nat /\ user'.password \in Nat /\ Len(tokens) \in Nat /\ Len(tokens') \in Nat
           /\ user.password <= user'.password /\ Len(tokens) <= Len(tokens') /\ (Present => Present')
           /\ 0..Len(tokens) \subseteq 0..Len(tokens')
<1>1. /\ user.password \in Nat /\ user'.password \in Nat /\ Len(tokens) \in Nat /\ Len(tokens') \in Nat
      /\ user.password <= user'.password /\ Len(tokens) <= Len(tokens') /\ (Present => Present')
  BY BoundsAreNatural DEF Grows, RowsTyped, Users
<1> QED
  BY <1>1

(* A request goes on with what exists. *)
LEMMA RequestGoes ==
    ASSUME RequestsTyped, RowsTyped, Grows,
           NEW q \in Requests, NEW at \in Steps, NEW on \in Nat \cup Challenges, Goes(q, at, on),
           at \in {"refresh", "family", "rotate", "logout", "signed_out", "reply"} => on \in 1..Len(tokens'),
           at = "login" => on \in 1..user'.password,
           at \in {"exchange", "create", "found", "google"} => on \in Challenges,
           at = "found" => Present'
    PROVE  RequestsTyped'
<1>1. request' \in [Requests -> [at : Steps, on : Nat \cup Challenges]]
  BY DEF Goes, RequestsTyped
<1>2. request'[q].at = at /\ request'[q].on = on /\ \A r \in Requests \ {q} : request'[r] = request[r]
  BY DEF Goes, RequestsTyped
<1>3. ASSUME NEW r \in Requests
      PROVE  /\ request'[r].at \in {"refresh", "family", "rotate", "logout", "signed_out", "reply"}
                   => request'[r].on \in 1..Len(tokens')
             /\ request'[r].at = "login" => request'[r].on \in 1..user'.password
             /\ request'[r].at \in {"exchange", "create", "found", "google"}
                   => request'[r].on \in Challenges
             /\ request'[r].at = "found" => Present'
  <2>1. CASE r = q
    BY <1>2, <2>1
  <2>2. CASE r # q
    BY <1>2, <2>2, Sizes DEF RequestsTyped
  <2> QED
    BY <2>1, <2>2
<1> QED
  BY <1>1, <1>3 DEF RequestsTyped

LEMMA RequestsStay ==
    ASSUME RequestsTyped, RowsTyped, Grows, UNCHANGED request
    PROVE  RequestsTyped'
  BY Sizes DEF RequestsTyped

LEMMA TabStays ==
    ASSUME TabTyped, RowsTyped, Grows,
           UNCHANGED tab \/ \E q \in Requests : tab' = [tab EXCEPT !.refreshing = IF @ = q THEN None ELSE @, !.gone = @ \ {q}]
    PROVE  TabTyped'
<1>2. 0..Len(tokens) \subseteq 0..Len(tokens')
  BY Sizes
<1>3. tab' \in [cookie : 0..Len(tokens), refreshing : Requests \cup {None}, gone : SUBSET Requests]
  BY DEF TabTyped
<1> QED
  BY <1>2, <1>3 DEF TabTyped

LEMMA RequestsGrow ==
    ASSUME Typed, [Next]_vars, Grows
    PROVE  RequestsTyped'
<1> USE DEF Typed
<1>0. /\ user.password \in Nat /\ user'.password \in Nat /\ Len(tokens) \in Nat /\ Len(tokens') \in Nat
      /\ user.password <= user'.password /\ Len(tokens) <= Len(tokens') /\ (Present => Present')
  BY Sizes
<1>1. CASE UNCHANGED request
  BY <1>1, RequestsStay
<1>2. ASSUME NEW q \in Requests, Goes(q, "idle", 0) PROVE RequestsTyped'
  BY <1>2, RequestGoes DEF Steps
<1>3. ASSUME NEW q \in Requests, Goes(q, "register", 0) PROVE RequestsTyped'
  BY <1>3, RequestGoes DEF Steps
<1>4. ASSUME NEW q \in Requests, BeginLogin(q) PROVE RequestsTyped'
  <2>1. Goes(q, "login", user.password) /\ user.password \in 1..user'.password
    BY <1>0, <1>4 DEF BeginLogin
  <2> QED
    BY <1>0, <2>1, RequestGoes DEF Steps
<1>5. ASSUME NEW q \in Requests, Goes(q, "reply", NewToken), Len(tokens') = Len(tokens) + 1
      PROVE  RequestsTyped'
  <2>1. NewToken \in 1..Len(tokens') /\ NewToken \in Nat
    BY <1>0, <1>5 DEF NewToken
  <2> QED
    BY <1>5, <2>1, RequestGoes DEF Steps
<1>6. ASSUME NEW q \in Requests, NEW at \in {"family", "rotate", "logout", "signed_out"},
             request[q].at \in {"refresh", "family", "logout"}, Goes(q, at, request[q].on)
      PROVE  RequestsTyped'
  <2>1. request[q].on \in 1..Len(tokens') /\ request[q].on \in Nat
    BY <1>0, <1>6 DEF RequestsTyped
  <2> QED
    BY <1>6, <2>1, RequestGoes DEF Steps
<1>7. ASSUME NEW q \in Requests, NEW at \in {"refresh", "logout", "signed_out"}, tab.cookie # 0, Goes(q, at, tab.cookie)
      PROVE  RequestsTyped'
  <2>1. tab.cookie \in 1..Len(tokens') /\ tab.cookie \in Nat
    BY <1>0, <1>7 DEF TabTyped
  <2> QED
    BY <1>7, <2>1, RequestGoes DEF Steps
<1>8. ASSUME NEW q \in Requests, NEW c \in Challenges, NEW at \in {"exchange", "google", "create", "found"},
             at = "found" => Present', Goes(q, at, c)
      PROVE  RequestsTyped'
  BY <1>8, RequestGoes DEF Steps
<1>9. ASSUME NEW q \in Requests, FindOidcIdentity(q) PROVE RequestsTyped'
  <2>1. request[q].on \in Challenges /\ (user.oidc => Present)
    BY <1>9 DEF FindOidcIdentity, RequestsTyped, RowsTyped, NoUser
  <2> QED
    BY <1>0, <1>8, <1>9, <2>1 DEF FindOidcIdentity
<1>10. ASSUME NEW q \in Requests, CreateFromOidc(q) PROVE RequestsTyped'
  <2>1. request[q].on \in Challenges /\ Present'
    BY <1>10 DEF CreateFromOidc, RequestsTyped, NoUser, Present
  <2> QED
    BY <1>8, <1>10, <2>1 DEF CreateFromOidc
<1>11. ASSUME NEW q \in Requests,
              \/ BeginRegister(q) \/ FinishLogin(q) \/ ReadToken(q) \/ ReadFamily(q) \/ Rotate(q)
              \/ BeginLogout(q) \/ FinishLogout(q) \/ FinishBrowser(q)
              \/ FinishGoogleCallback(q) \/ Abort(q) \/ ReceiveSession(q) \/ ReceiveSignOut(q)
              \/ Unauthorized(q) \/ GiveUp(q) \/ Drop(q)
       PROVE  RequestsTyped'
  <2>1. CASE BeginRegister(q) \/ Abort(q) \/ ReceiveSession(q) \/ ReceiveSignOut(q) \/ Drop(q)
    BY <1>2, <1>3, <2>1 DEF BeginRegister, Abort, ReceiveSession, ReceiveSignOut, Drop, Rejected
  <2>2. CASE FinishLogin(q) \/ FinishBrowser(q) \/ FinishGoogleCallback(q)
    <3>1. PICK p : IssueSession(p) /\ Goes(q, "reply", NewToken)
      BY <2>2 DEF FinishLogin, FinishBrowser, FinishGoogleCallback
    <3> QED
      BY <1>5, <3>1, TokenAdded
  <2>3. CASE ReadToken(q)
    BY <1>2, <1>6, <2>3 DEF ReadToken, Rejected
  <2>4. CASE ReadFamily(q)
    BY <1>2, <1>6, <2>4 DEF ReadFamily, Rejected
  <2>5. CASE Rotate(q)
    <3> DEFINE t == request[q].on
    <3>1. CASE Goes(q, "idle", 0)
      BY <1>2, <3>1
    <3>2. CASE /\ tokens' = Append([tokens EXCEPT ![t].revoked = TRUE],
                                   [family |-> tokens[t].family, revoked |-> FALSE])
               /\ Goes(q, "reply", NewToken)
      <4>1. t \in 1..Len(tokens)
        BY <2>5 DEF Rotate, RequestsTyped
      <4>2. Len(tokens') = Len(tokens) + 1
        BY <3>2, <4>1, TokenRotated
      <4> QED
        BY <1>5, <3>2, <4>2
    <3> QED
      BY <2>5, <3>1, <3>2 DEF Rotate, Rejected
  <2>6. CASE BeginLogout(q)
    BY <1>7, <2>6 DEF BeginLogout
  <2>7. CASE FinishLogout(q)
    BY <1>6, <2>7 DEF FinishLogout
  <2>8. CASE Unauthorized(q)
    BY <1>7, <2>8 DEF Unauthorized
  <2>9. CASE GiveUp(q)
    BY <1>1, <2>9 DEF GiveUp
  <2> QED
    BY <1>11, <2>1, <2>2, <2>3, <2>4, <2>5, <2>6, <2>7, <2>8, <2>9
<1>12. ASSUME NEW q \in Requests, NEW c \in Challenges,
              InsertAccount(q, c) \/ BeginCallback(q, c) \/ FinishMobile(q, c) \/ BeginGoogleCallback(q, c)
       PROVE  RequestsTyped'
  <2>1. CASE InsertAccount(q, c)
    BY <1>2, <1>5, <2>1, TokenAdded DEF InsertAccount
  <2>2. CASE FinishMobile(q, c)
    BY <1>2, <2>2 DEF FinishMobile
  <2>3. CASE BeginCallback(q, c) \/ BeginGoogleCallback(q, c)
    BY <1>8, <2>3 DEF BeginCallback, BeginGoogleCallback
  <2> QED
    BY <1>12, <2>1, <2>2, <2>3
<1>13. ASSUME NEW c \in Challenges,
              \/ VerifyEmail(c) \/ ForgotPassword(c) \/ ResetPassword(c)
              \/ ExchangeBridge(c) \/ StartGoogleAuth(c)
              \/ \E type \in ChallengeTypes : StartOidc(c, type)
       PROVE  RequestsTyped'
  BY <1>1, <1>13 DEF VerifyEmail, ForgotPassword, ResetPassword, ExchangeBridge, StartGoogleAuth, StartOidc
<1> QED
  BY <1>1, <1>4, <1>9, <1>10, <1>11, <1>12, <1>13 DEF Next, vars

(* The tab stores tokens that exist. *)
LEMMA TabGrows ==
    ASSUME Typed, [Next]_vars, Grows
    PROVE  TabTyped'
<1> USE DEF Typed
<1>1. CASE UNCHANGED tab
  BY <1>1, TabStays
<1>2. ASSUME NEW q \in Requests, Rejected(q) PROVE TabTyped'
  BY <1>2, TabStays DEF Rejected
<1>3. ASSUME NEW q \in Requests, NEW cookie \in 0..Len(tokens), Settled(q, cookie) PROVE TabTyped'
  <2>1. tab' \in [cookie : 0..Len(tokens), refreshing : Requests \cup {None}, gone : SUBSET Requests]
    BY <1>3 DEF Settled, TabTyped
  <2>2. 0..Len(tokens) \subseteq 0..Len(tokens')
    BY Sizes
  <2> QED
    BY <2>1, <2>2 DEF TabTyped
<1>4. ASSUME NEW q \in Requests, ReceiveSession(q) \/ ReceiveSignOut(q) PROVE TabTyped'
  <2>1. CASE ReceiveSession(q)
    <3>1. request[q].on \in 0..Len(tokens)
      BY <2>1, Lengths DEF ReceiveSession, RequestsTyped
    <3> QED
      BY <1>3, <2>1, <3>1 DEF ReceiveSession
  <2>2. CASE ReceiveSignOut(q)
    BY <1>3, <2>2, Lengths DEF ReceiveSignOut
  <2> QED
    BY <1>4, <2>1, <2>2
<1>5. ASSUME NEW q \in Requests, Unauthorized(q) \/ GiveUp(q) \/ Drop(q) PROVE TabTyped'
  <2>1. tab' \in [cookie : 0..Len(tokens), refreshing : Requests \cup {None}, gone : SUBSET Requests]
    BY <1>5 DEF Unauthorized, GiveUp, Drop, TabTyped
  <2>2. 0..Len(tokens) \subseteq 0..Len(tokens')
    BY Sizes
  <2> QED
    BY <2>1, <2>2 DEF TabTyped
<1>6. ASSUME NEW q \in Requests,
             \/ BeginRegister(q) \/ BeginLogin(q) \/ FinishLogin(q) \/ ReadToken(q) \/ ReadFamily(q)
             \/ Rotate(q) \/ BeginLogout(q) \/ FinishLogout(q) \/ FindOidcIdentity(q)
             \/ CreateFromOidc(q) \/ FinishBrowser(q) \/ FinishGoogleCallback(q) \/ Abort(q)
      PROVE  TabTyped'
  <2>1. UNCHANGED tab \/ Rejected(q)
    BY <1>6 DEF BeginRegister, BeginLogin, FinishLogin, ReadToken, ReadFamily, Rotate, BeginLogout,
         FinishLogout, FindOidcIdentity, CreateFromOidc, FinishBrowser, FinishGoogleCallback, Abort
  <2> QED
    BY <1>1, <1>2, <2>1
<1>7. ASSUME NEW c \in Challenges,
             \/ \E q \in Requests :
                   InsertAccount(q, c) \/ BeginCallback(q, c) \/ FinishMobile(q, c) \/ BeginGoogleCallback(q, c)
             \/ VerifyEmail(c) \/ ForgotPassword(c) \/ ResetPassword(c)
             \/ ExchangeBridge(c) \/ StartGoogleAuth(c)
             \/ \E type \in ChallengeTypes : StartOidc(c, type)
      PROVE  TabTyped'
  BY <1>1, <1>7 DEF InsertAccount, BeginCallback, FinishMobile, BeginGoogleCallback, VerifyEmail, ForgotPassword,
       ResetPassword, ExchangeBridge, StartGoogleAuth, StartOidc
<1> QED
  BY <1>1, <1>4, <1>5, <1>6, <1>7 DEF Next, vars

LEMMA HistoryGrows ==
    ASSUME Typed, [Next]_vars
    PROVE  HistoryTyped'
<1> USE DEF Typed
<1>1. ASSUME UNCHANGED history PROVE HistoryTyped'
  BY <1>1 DEF history, HistoryTyped
<1>2. ASSUME NEW c \in Challenges, signIns' = [signIns EXCEPT ![c] = signIns[c] + 1], UNCHANGED <<accounts, lost>>
      PROVE  HistoryTyped'
  BY <1>2 DEF HistoryTyped
<1>3. ASSUME NEW q \in Requests,
             \/ BeginRegister(q) \/ BeginLogin(q) \/ FinishLogin(q) \/ ReadToken(q) \/ ReadFamily(q)
             \/ Rotate(q) \/ BeginLogout(q) \/ FinishLogout(q) \/ FindOidcIdentity(q)
             \/ Abort(q) \/ ReceiveSession(q) \/ ReceiveSignOut(q) \/ Unauthorized(q) \/ Drop(q)
      PROVE  UNCHANGED history
  BY <1>3 DEF BeginRegister, BeginLogin, FinishLogin, ReadToken, ReadFamily, Rotate, BeginLogout,
       FinishLogout, FindOidcIdentity, Abort, ReceiveSession, ReceiveSignOut, Unauthorized, Drop
<1>4. ASSUME NEW q \in Requests, CreateFromOidc(q) \/ GiveUp(q) PROVE HistoryTyped'
  <2>1. CASE CreateFromOidc(q)
    <3>1. UNCHANGED <<signIns, lost>> /\ accounts' = accounts + 1
      BY <2>1 DEF CreateFromOidc
    <3> QED
      BY <3>1 DEF HistoryTyped
  <2>2. CASE GiveUp(q)
    <3>1. UNCHANGED <<signIns, accounts>> /\ lost' = TRUE
      BY <2>2 DEF GiveUp
    <3> QED
      BY <3>1 DEF HistoryTyped
  <2> QED
    BY <1>4, <2>1, <2>2
<1>5. ASSUME NEW q \in Requests, FinishBrowser(q) \/ FinishGoogleCallback(q) PROVE HistoryTyped'
  <2>1. request[q].on \in Challenges
    BY <1>5 DEF FinishBrowser, FinishGoogleCallback, RequestsTyped
  <2>2. signIns' = [signIns EXCEPT ![request[q].on] = signIns[request[q].on] + 1] /\ UNCHANGED <<accounts, lost>>
    BY <1>5 DEF FinishBrowser, FinishGoogleCallback
  <2> QED
    BY <2>1, <2>2 DEF HistoryTyped
<1>6. ASSUME NEW q \in Requests, NEW c \in Challenges,
             InsertAccount(q, c) \/ BeginCallback(q, c) \/ FinishMobile(q, c) \/ BeginGoogleCallback(q, c)
      PROVE  HistoryTyped'
  <2>1. CASE InsertAccount(q, c)
    <3>1. accounts' = accounts + 1 /\ UNCHANGED <<signIns, lost>>
      BY <2>1 DEF InsertAccount
    <3> QED
      BY <3>1 DEF HistoryTyped
  <2>2. CASE BeginCallback(q, c) \/ BeginGoogleCallback(q, c)
    BY <1>1, <2>2 DEF BeginCallback, BeginGoogleCallback
  <2>3. CASE FinishMobile(q, c)
    <3>1. request[q].on \in Challenges
      BY <2>3 DEF FinishMobile, RequestsTyped
    <3> QED
      BY <1>2, <2>3, <3>1 DEF FinishMobile
  <2> QED
    BY <1>6, <2>1, <2>2, <2>3
<1>7. ASSUME NEW c \in Challenges,
             \/ VerifyEmail(c) \/ ForgotPassword(c) \/ ResetPassword(c) \/ StartGoogleAuth(c)
             \/ \E type \in ChallengeTypes : StartOidc(c, type)
      PROVE  UNCHANGED history
  BY <1>7 DEF VerifyEmail, ForgotPassword, ResetPassword, StartGoogleAuth, StartOidc
<1>8. ASSUME NEW c \in Challenges, ExchangeBridge(c) PROVE HistoryTyped'
  BY <1>2, <1>8 DEF ExchangeBridge
<1> QED
  BY <1>1, <1>3, <1>4, <1>5, <1>6, <1>7, <1>8 DEF Next, vars

LEMMA InitTyped == Init => Typed
<1> SUFFICES ASSUME Init PROVE Typed
  OBVIOUS
<1>1. RequestsTyped /\ HistoryTyped
  BY DEF Init, RequestsTyped, HistoryTyped, Idle, Steps
<1>2. env \in Deployments /\ invitation \in {"open", "consumed"} /\ challenge \in [Challenges -> ChallengeRows]
      /\ \A c \in Challenges : challenge[c].type = "none"
  BY DEF Init, ChallengeRows, NoChallenge
<1>3. CASE user = NoUser /\ families = <<>> /\ tokens = <<>> /\ tab = [cookie |-> 0, refreshing |-> None, gone |-> {}]
  <2>1. user \in Users /\ ~user.verified /\ ~Present
    BY <1>3, BoundsAreNatural DEF NoUser, Users, UserStatuses, Present
  <2>2. Len(tokens) = 0 /\ Len(families) = 0 /\ tokens \in Seq(TokenRows(0)) /\ families \in Seq(FamilyRows)
    BY <1>3
  <2> QED
    BY <1>1, <1>2, <1>3, <2>1, <2>2 DEF Typed, RowsTyped, TabTyped
<1>4. CASE /\ user = [NoUser EXCEPT !.status = "active", !.verified = TRUE, !.password = 1, !.google = TRUE]
           /\ families = <<[revoked |-> "no", password |-> 1, overlapped |-> FALSE]>>
           /\ tokens = <<[family |-> 1, revoked |-> FALSE]>>
           /\ tab = [cookie |-> 1, refreshing |-> None, gone |-> {}]
  <2>0. 1 \in 0..MaxPasswords
    BY BoundsAreNatural
  <2>1. user \in Users /\ user.status = "active" /\ Present
    <3>1. user = [status |-> "active", verified |-> TRUE, password |-> 1, oidc |-> FALSE, google |-> TRUE]
      BY <1>4 DEF NoUser
    <3> QED
      BY <2>0, <3>1 DEF Users, UserStatuses, Present
  <2>2. Len(families) = 1 /\ families \in Seq(FamilyRows)
    BY <1>4, <2>0 DEF FamilyRows
  <2>3. Len(tokens) = 1 /\ tokens \in Seq(TokenRows(1))
    BY <1>4 DEF TokenRows
  <2> QED
    BY <1>1, <1>2, <1>4, <2>1, <2>2, <2>3 DEF Typed, RowsTyped, TabTyped
<1> QED
  BY <1>3, <1>4 DEF Init

LEMMA TypedHolds == Spec => []Typed
<1>1. Typed /\ [Next]_vars => Typed'
  BY RowsGrow, RequestsGrow, TabGrows, HistoryGrows DEF Typed, Grows
<1> QED
  BY InitTyped, <1>1, PTL DEF Spec

(* Rows are typed and refer to rows that exist; an address that was        *)
(* verified is no longer pending.                                          *)
THEOREM AuthIsTyped == Spec => []TypeOK
<1>1. Typed => TypeOK
  <2> SUFFICES ASSUME Typed PROVE TypeOK
    OBVIOUS
  <2>1. DOMAIN families = 1..Len(families) /\ DOMAIN tokens = 1..Len(tokens)
    BY DEF Typed, RowsTyped
  <2>2. \A f \in DOMAIN families : families[f] \in FamilyRows
    BY DEF Typed, RowsTyped
  <2>3. {0} \cup DOMAIN tokens = 0..Len(tokens)
    BY <2>1, Lengths DEF Typed
  <2>4. \A q \in Requests : request[q].at \in Steps
    BY DEF Typed, RequestsTyped
  <2> QED
    BY <2>1, <2>2, <2>3, <2>4 DEF TypeOK, Typed, RowsTyped, RequestsTyped, TabTyped, HistoryTyped,
       FamilyRows, TokenRows, Users, ChallengeRows
<1> QED
  BY TypedHolds, <1>1, PTL

-----------------------------------------------------------------------------
(* Sessions *)

(* A live family has one token, and the password of the account, unless    *)
(* its sign-in overlapped the reset.                                       *)
Lone(T, n, f) == \E t \in 1..n : Usable(T[t], f) /\ \A u \in 1..n : Usable(T[u], f) => u = t
OneToken(f) == Lone(tokens, Len(tokens), f)
Current(f) == families[f].password = user.password \/ families[f].overlapped
Sound == \A f \in 1..Len(families) : Live(f) => OneToken(f) /\ Current(f)

LEMMA LoneBesideOthers ==
    ASSUME NEW n \in Nat, NEW T, NEW U, NEW f, Lone(T, n, f),
           \A t \in 1..n : U[t] = T[t], U[n + 1].family # f
    PROVE  Lone(U, n + 1, f)
  BY DEF Lone, Usable

LEMMA LoneInNewFamily ==
    ASSUME NEW n \in Nat, NEW U, NEW f,
           \A t \in 1..n : U[t].family # f, U[n + 1].family = f, ~U[n + 1].revoked
    PROVE  Lone(U, n + 1, f)
  BY DEF Lone, Usable

LEMMA LoneSucceeded ==
    ASSUME NEW n \in Nat, NEW T, NEW U, NEW f, Lone(T, n, f),
           NEW t \in 1..n, ~T[t].revoked, U[t].revoked,
           \A u \in 1..n : U[u].family = T[u].family /\ (u # t => U[u].revoked = T[u].revoked),
           U[n + 1].family = T[t].family, ~U[n + 1].revoked
    PROVE  Lone(U, n + 1, f)
<1>1. PICK u \in 1..n : Usable(T[u], f) /\ \A v \in 1..n : Usable(T[v], f) => v = u
  BY DEF Lone
<1>2. CASE f = T[t].family
  <2>1. u = t
    BY <1>1, <1>2 DEF Usable
  <2>2. Usable(U[n + 1], f) /\ \A v \in 1..n : ~Usable(U[v], f)
    BY <1>1, <1>2, <2>1 DEF Usable
  <2> QED
    BY <2>2 DEF Lone
<1>3. CASE f # T[t].family
  <2>1. Usable(U[u], f) /\ \A v \in 1..(n + 1) : Usable(U[v], f) => v = u
    BY <1>1, <1>3 DEF Usable
  <2> QED
    BY <2>1 DEF Lone
<1> QED
  BY <1>2, <1>3

LEMMA NothingIssued ==
    ASSUME Typed, Sound, UNCHANGED <<families, tokens>>,
           user'.password = user.password \/ families = <<>>
    PROVE  Sound'
  BY DEF Sound, OneToken, Current, Live

(* A new session leaves the others alone. *)
LEMMA IssuedSound ==
    ASSUME Typed, Sound, NEW p \in 0..MaxPasswords, IssueSession(p),
           \/ UNCHANGED user /\ p <= user.password
           \/ families = <<>> /\ user'.password = p
    PROVE  Sound'
<1>0. RowsTyped
  BY DEF Typed
<1>1. Len(families) \in Nat /\ Len(tokens) \in Nat /\ \A t \in 1..Len(tokens) : tokens[t].family \in 1..Len(families)
  <2>1. \A t \in 1..Len(tokens) : tokens[t] \in TokenRows(Len(families))
    BY <1>0 DEF RowsTyped
  <2> QED
    BY <1>0, <2>1, Lengths DEF TokenRows
<1>2. /\ Len(families') = Len(families) + 1
      /\ Len(tokens') = Len(tokens) + 1
      /\ \A f \in 1..Len(families) : families'[f] = families[f]
      /\ families'[Len(families) + 1] =
            [revoked |-> "no", password |-> p, overlapped |-> p < user.password]
      /\ \A t \in 1..Len(tokens) : tokens'[t] = tokens[t]
      /\ tokens'[Len(tokens) + 1] = [family |-> Len(families) + 1, revoked |-> FALSE]
  BY <1>0, SessionIssued
<1>3. ASSUME NEW f \in 1..Len(families), Live(f)'
      PROVE  OneToken(f)' /\ Current(f)'
  <2>1. Live(f) /\ OneToken(f) /\ Current(f) /\ families'[f] = families[f]
    BY <1>2, <1>3 DEF Live, Sound
  <2>2. tokens'[Len(tokens) + 1].family # f
    BY <1>1, <1>2
  <2>3. Lone(tokens', Len(tokens) + 1, f)
    BY <1>1, <1>2, <2>1, <2>2, LoneBesideOthers DEF OneToken
  <2>4. user' = user
    BY <1>1
  <2> QED
    BY <1>2, <2>1, <2>3, <2>4 DEF OneToken, Current
<1>4. ASSUME NEW f, f = Len(families) + 1
      PROVE  OneToken(f)' /\ Current(f)'
  <2>1. \A t \in 1..Len(tokens) : tokens'[t].family # f
    BY <1>1, <1>2, <1>4
  <2>2. tokens'[Len(tokens) + 1].family = f /\ ~tokens'[Len(tokens) + 1].revoked
    BY <1>2, <1>4
  <2>3. Lone(tokens', Len(tokens) + 1, f)
    BY <1>1, <2>1, <2>2, LoneInNewFamily
  <2>4. user.password \in Nat /\ p \in Nat
    BY <1>0, BoundsAreNatural DEF RowsTyped, Users
  <2>5. families'[f].password = p /\ families'[f].overlapped = (p < user.password)
    BY <1>2, <1>4
  <2>6. p = user'.password \/ p < user.password
    BY <2>4
  <2> QED
    BY <1>2, <2>3, <2>5, <2>6 DEF OneToken, Current
<1>5. \A f \in 1..Len(families') : f \in 1..Len(families) \/ f = Len(families) + 1
  BY <1>1, <1>2
<1> QED
  BY <1>3, <1>4, <1>5 DEF Sound

LEMMA RevokedSound ==
    ASSUME Typed, Sound, NEW f \in 1..Len(families), NEW reason \in RevokeReasons, RevokeFamily(f, reason),
           UNCHANGED <<user, tokens>>
    PROVE  Sound'
<1>1. Len(families') = Len(families)
  BY FamilyRevoked DEF Typed
<1>2. \A g \in 1..Len(families) : Live(g)' => Live(g) /\ families'[g].password = families[g].password
                                             /\ families'[g].overlapped = families[g].overlapped
  BY FamilyRevoked DEF Typed, Live, RevokeReasons
<1> QED
  BY <1>1, <1>2 DEF Sound, OneToken, Current

(* The token that is replaced was the usable one. *)
LEMMA RotatedSound ==
    ASSUME Typed, Sound, NEW t \in 1..Len(tokens), ~tokens[t].revoked,
           tokens' = Append([tokens EXCEPT ![t].revoked = TRUE],
                            [family |-> tokens[t].family, revoked |-> FALSE]),
           UNCHANGED <<user, families>>
    PROVE  Sound'
<1>0. RowsTyped
  BY DEF Typed
<1>1. Len(tokens) \in Nat
  BY <1>0, Lengths
<1>2. /\ Len(tokens') = Len(tokens) + 1
      /\ \A u \in 1..Len(tokens) :
            tokens'[u].family = tokens[u].family /\ (u # t => tokens'[u].revoked = tokens[u].revoked)
      /\ tokens'[t].revoked
      /\ tokens'[Len(tokens) + 1] = [family |-> tokens[t].family, revoked |-> FALSE]
  BY <1>0, TokenRotated
<1>3. tokens'[Len(tokens) + 1].family = tokens[t].family /\ ~tokens'[Len(tokens) + 1].revoked
  BY <1>2
<1>4. ASSUME NEW f \in 1..Len(families), Live(f)
      PROVE  OneToken(f)'
  <2>1. Lone(tokens, Len(tokens), f)
    BY <1>4 DEF Sound, OneToken
  <2>2. Lone(tokens', Len(tokens) + 1, f)
    BY <1>1, <1>2, <1>3, <2>1, LoneSucceeded
  <2> QED
    BY <1>2, <2>2 DEF OneToken
<1> QED
  BY <1>4 DEF Sound, Current, Live

LEMMA StepSound ==
    ASSUME Typed, Sound, [Next]_vars
    PROVE  Sound'
<1> USE DEF Typed
<1>0. user.password \in Nat /\ user.password \in 0..MaxPasswords /\ 1 \in 0..MaxPasswords
  BY BoundsAreNatural DEF RowsTyped, Users
<1>1. CASE UNCHANGED vars
  BY <1>1, NothingIssued DEF vars, rows
<1>2. ASSUME NEW q \in Requests,
             \/ BeginRegister(q) \/ BeginLogin(q) \/ ReadFamily(q) \/ BeginLogout(q) \/ FindOidcIdentity(q)
             \/ Abort(q) \/ ReceiveSession(q) \/ ReceiveSignOut(q) \/ Unauthorized(q) \/ GiveUp(q) \/ Drop(q)
      PROVE  Sound'
  BY <1>2, NothingIssued DEF BeginRegister, BeginLogin, ReadFamily, BeginLogout, FindOidcIdentity, Abort,
       ReceiveSession, ReceiveSignOut, Unauthorized, GiveUp, Drop, rows
<1>3. ASSUME NEW q \in Requests, FinishLogin(q) PROVE Sound'
  <2>1. request[q].on \in 0..MaxPasswords /\ request[q].on <= user.password
    BY <1>0, <1>3, BoundsAreNatural DEF FinishLogin, RequestsTyped
  <2> QED
    BY <1>3, <2>1, IssuedSound DEF FinishLogin
<1>4. ASSUME IssueSession(user.password), UNCHANGED user PROVE Sound'
  BY <1>0, <1>4, IssuedSound
<1>5. ASSUME NEW q \in Requests, FinishBrowser(q) \/ FinishGoogleCallback(q) PROVE Sound'
  BY <1>4, <1>5 DEF FinishBrowser, FinishGoogleCallback
<1>6. ASSUME NEW c \in Challenges, ExchangeBridge(c) PROVE Sound'
  BY <1>4, <1>6 DEF ExchangeBridge
<1>7. ASSUME NEW q \in Requests, ReadToken(q) \/ Rotate(q) \/ FinishLogout(q) PROVE Sound'
  <2> DEFINE t == request[q].on
  <2>1. t \in 1..Len(tokens)
    BY <1>7 DEF ReadToken, Rotate, FinishLogout, RequestsTyped
  <2>2. tokens[t].family \in 1..Len(families)
    <3>1. tokens[t] \in TokenRows(Len(families))
      BY <2>1 DEF RowsTyped
    <3> QED
      BY <3>1 DEF TokenRows
  <2>3. CASE \E reason \in RevokeReasons : RevokeFamily(tokens[t].family, reason) /\ UNCHANGED <<user, tokens>>
    BY <2>2, <2>3, RevokedSound
  <2>4. CASE UNCHANGED <<user, families, tokens>>
    BY <2>4, NothingIssued
  <2>5. CASE /\ ~tokens[t].revoked
             /\ tokens' = Append([tokens EXCEPT ![t].revoked = TRUE],
                                 [family |-> tokens[t].family, revoked |-> FALSE])
             /\ UNCHANGED <<user, families>>
    BY <2>1, <2>5, RotatedSound
  <2> QED
    BY <1>7, <2>3, <2>4, <2>5 DEF ReadToken, Rotate, FinishLogout, RevokeReasons
<1>8. ASSUME NEW q \in Requests, CreateFromOidc(q) PROVE Sound'
  <2>1. families = <<>> /\ UNCHANGED <<families, tokens>>
    BY <1>8 DEF CreateFromOidc, RowsTyped, Present
  <2> QED
    BY <2>1, NothingIssued
<1>9. ASSUME NEW q \in Requests, NEW c \in Challenges, InsertAccount(q, c) PROVE Sound'
  <2>1. families = <<>>
    BY <1>9 DEF InsertAccount, RowsTyped, Present
  <2>2. user'.password = 1
    BY <1>9 DEF InsertAccount, NoUser
  <2>3. CASE IssueSession(1)
    BY <1>0, <2>1, <2>2, <2>3, IssuedSound
  <2>4. CASE UNCHANGED <<families, tokens>>
    BY <2>1, <2>4, NothingIssued
  <2> QED
    BY <1>9, <2>3, <2>4 DEF InsertAccount
<1>10. ASSUME NEW q \in Requests, NEW c \in Challenges,
              BeginCallback(q, c) \/ FinishMobile(q, c) \/ BeginGoogleCallback(q, c)
       PROVE  Sound'
  BY <1>10, NothingIssued DEF BeginCallback, FinishMobile, BeginGoogleCallback
<1>11. ASSUME NEW c \in Challenges,
              \/ VerifyEmail(c) \/ ForgotPassword(c) \/ StartGoogleAuth(c)
              \/ \E type \in ChallengeTypes : StartOidc(c, type)
       PROVE  Sound'
  <2>1. UNCHANGED <<families, tokens>>
    BY <1>11 DEF VerifyEmail, ForgotPassword, StartGoogleAuth, StartOidc
  <2>2. user'.password = user.password
    BY <1>11 DEF VerifyEmail, ForgotPassword, StartGoogleAuth, StartOidc, RowsTyped, Users
  <2> QED
    BY <2>1, <2>2, NothingIssued
<1>12. ASSUME NEW c \in Challenges, ResetPassword(c) PROVE Sound'
  <2>1. families' = [f \in DOMAIN families |->
                       IF Live(f) THEN [families[f] EXCEPT !.revoked = "password_changed"] ELSE families[f]]
    BY <1>12 DEF ResetPassword
  <2>2. families \in [1..Len(families) -> FamilyRows] /\ Len(families) \in Nat
    BY DEF RowsTyped
  <2>3. families' \in [1..Len(families) -> FamilyRows]
    BY <2>1, <2>2 DEF FamilyRows, RevokeReasons
  <2>4. Len(families') = Len(families)
    BY <2>2, <2>3, SeqDef
  <2>5. \A f \in 1..Len(families) : ~Live(f)'
    BY <2>1, <2>2 DEF Live, FamilyRows
  <2> QED
    BY <2>4, <2>5 DEF Sound
<1> QED
  BY <1>1, <1>2, <1>3, <1>5, <1>6, <1>7, <1>8, <1>9, <1>10, <1>11, <1>12 DEF Next

LEMMA InitSound == Init => Sound
<1> SUFFICES ASSUME Init PROVE Sound
  OBVIOUS
<1>1. CASE families = <<>>
  BY <1>1 DEF Sound
<1>2. CASE /\ user = [NoUser EXCEPT !.status = "active", !.verified = TRUE, !.password = 1, !.google = TRUE]
           /\ families = <<[revoked |-> "no", password |-> 1, overlapped |-> FALSE]>>
           /\ tokens = <<[family |-> 1, revoked |-> FALSE]>>
  <2>1. user.password = 1 /\ families[1].password = 1 /\ Len(families) = 1 /\ Len(tokens) = 1
    BY <1>2 DEF NoUser
  <2>2. Lone(tokens, 1, 1)
    BY <1>2 DEF Lone, Usable
  <2> QED
    BY <2>1, <2>2 DEF Sound, OneToken, Current
<1> QED
  BY <1>1, <1>2 DEF Init

LEMMA SoundHolds == Spec => []Sound
<1>1. Typed /\ Sound /\ [Next]_vars => Sound'
  BY StepSound
<1> QED
  BY InitSound, TypedHolds, <1>1, PTL DEF Spec

(* A live family has exactly one refresh token that can be used, however   *)
(* many requests present its tokens at the same time (refresh).            *)
THEOREM FamiliesHaveOneToken == Spec => []LiveFamiliesHaveOneToken
<1>1. Typed /\ Sound => LiveFamiliesHaveOneToken
  <2> SUFFICES ASSUME Typed, Sound, NEW f \in DOMAIN families, Live(f)
               PROVE  Cardinality({t \in DOMAIN tokens : tokens[t].family = f /\ ~tokens[t].revoked}) = 1
    BY DEF LiveFamiliesHaveOneToken
  <2>1. DOMAIN families = 1..Len(families) /\ DOMAIN tokens = 1..Len(tokens)
    BY DEF Typed, RowsTyped
  <2>2. PICK t \in 1..Len(tokens) : Usable(tokens[t], f) /\ \A u \in 1..Len(tokens) : Usable(tokens[u], f) => u = t
    BY <2>1 DEF Sound, OneToken, Lone
  <2>3. {u \in DOMAIN tokens : tokens[u].family = f /\ ~tokens[u].revoked} = {t}
    BY <2>1, <2>2 DEF Usable
  <2> QED
    BY <2>3, FS_Singleton
<1> QED
  BY TypedHolds, SoundHolds, <1>1, PTL

(* No session survives the reset of the password it was opened under,      *)
(* except one whose sign-in overlapped the reset (resetPassword, login).   *)
THEOREM ResetEndsSessions == Spec => []SessionsEndWithTheirPassword
<1>1. Typed /\ Sound => SessionsEndWithTheirPassword
  BY DEF Typed, RowsTyped, Sound, Current, SessionsEndWithTheirPassword
<1> QED
  BY TypedHolds, SoundHolds, <1>1, PTL

-----------------------------------------------------------------------------
(* One-time codes *)

(* A code that is presented is consumed at once, and stays with the one    *)
(* request that presented it until it has given its session.               *)
Spent ==
    /\ \A c \in Challenges : signIns[c] <= 1 /\ (challenge[c].state # "consumed" => signIns[c] = 0)
    /\ \A q \in Requests, c \in Challenges :
          Carries(q, c) => challenge[c].state = "consumed" /\ signIns[c] = 0
    /\ \A q, r \in Requests, c \in Challenges : Carries(q, c) /\ Carries(r, c) => q = r

LEMMA InitSpent == Init => Spent
  BY DEF Init, Spent, Carries, Idle, NoChallenge

(* A request that neither takes nor uses a code. *)
LEMMA KeptSpent ==
    ASSUME Typed, Spent, UNCHANGED signIns,
           \A c \in Challenges : challenge'[c].state = challenge[c].state \/ challenge[c].state # "consumed",
           \A q \in Requests, c \in Challenges : Carries(q, c)' => Carries(q, c)
    PROVE  Spent'
<1>1. \A c \in Challenges : signIns'[c] = signIns[c] /\ (challenge'[c].state # "consumed" => signIns'[c] = 0)
  BY DEF Spent
<1>2. \A q \in Requests, c \in Challenges :
         Carries(q, c)' => challenge'[c].state = "consumed" /\ signIns'[c] = 0
  BY <1>1 DEF Spent
<1> QED
  BY <1>1, <1>2 DEF Spent

(* A request that uses the code it carries, and is then done with it. *)
LEMMA UsedSpent ==
    ASSUME Typed, Spent, NEW q \in Requests, NEW c \in Challenges, Carries(q, c),
           signIns' = [signIns EXCEPT ![c] = signIns[c] + 1],
           \A b \in Challenges : challenge'[b].state = challenge[b].state \/ challenge[b].state # "consumed",
           \A b \in Challenges : ~Carries(q, b)',
           \A r \in Requests \ {q}, b \in Challenges : Carries(r, b)' <=> Carries(r, b)
    PROVE  Spent'
<1>0. signIns \in [Challenges -> Nat]
  BY DEF Typed, HistoryTyped
<1>1. signIns'[c] = 1 /\ challenge[c].state = "consumed" /\ challenge'[c].state = "consumed"
  BY <1>0 DEF Spent
<1>2. \A b \in Challenges \ {c} : signIns'[b] = signIns[b]
  BY <1>0
<1>3. \A r \in Requests \ {q} : ~Carries(r, c)
  BY DEF Spent
<1>4. \A b \in Challenges : signIns'[b] <= 1 /\ (challenge'[b].state # "consumed" => signIns'[b] = 0)
  BY <1>1, <1>2 DEF Spent
<1>5. \A r \in Requests, b \in Challenges :
         Carries(r, b)' => challenge'[b].state = "consumed" /\ signIns'[b] = 0 /\ r # q
  BY <1>2, <1>3, <1>4 DEF Spent
<1> QED
  BY <1>4, <1>5 DEF Spent

LEMMA RequestsCarry ==
    ASSUME Typed, NEW q \in Requests, NEW at, NEW on, Goes(q, at, on)
    PROVE  /\ \A r \in Requests \ {q}, c \in Challenges : Carries(r, c)' <=> Carries(r, c)
           /\ \A c \in Challenges : Carries(q, c)' <=> at \in {"exchange", "create", "found", "google"} /\ on = c
<1>1. request'[q].at = at /\ request'[q].on = on /\ \A r \in Requests \ {q} : request'[r] = request[r]
  BY DEF Goes, Typed, RequestsTyped
<1> QED
  BY <1>1 DEF Carries

LEMMA CallbackSpent ==
    ASSUME Typed, Spent, NEW q \in Requests, NEW c \in Challenges,
           BeginCallback(q, c) \/ BeginGoogleCallback(q, c)
    PROVE  Spent'
<1>0. challenge \in [Challenges -> ChallengeRows]
  BY DEF Typed, RowsTyped
<1>1. /\ challenge[c].state = "issued" /\ challenge' = Consumed(c) /\ UNCHANGED signIns
      /\ Goes(q, "exchange", c) \/ Goes(q, "google", c)
  BY DEF BeginCallback, BeginGoogleCallback, Consumable, history
<1>2. /\ challenge'[c].state = "consumed"
      /\ \A b \in Challenges \ {c} : challenge'[b] = challenge[b]
  BY <1>0, <1>1 DEF Consumed, ChallengeRows, NoChallenge
<1>3. /\ \A r \in Requests \ {q}, b \in Challenges : Carries(r, b)' <=> Carries(r, b)
      /\ \A b \in Challenges : Carries(q, b)' <=> b = c
  BY <1>1, RequestsCarry
<1>4. \A r \in Requests : ~Carries(r, c)
  BY <1>1 DEF Spent
<1>5. \A b \in Challenges : signIns'[b] <= 1 /\ (challenge'[b].state # "consumed" => signIns'[b] = 0)
  BY <1>1, <1>2 DEF Spent
<1>6. \A r \in Requests, b \in Challenges :
         Carries(r, b)' => challenge'[b].state = "consumed" /\ signIns'[b] = 0
  BY <1>1, <1>2, <1>3 DEF Spent
<1>7. \A r, p \in Requests, b \in Challenges : Carries(r, b)' /\ Carries(p, b)' => r = p
  BY <1>3, <1>4 DEF Spent
<1> QED
  BY <1>5, <1>6, <1>7 DEF Spent

LEMMA ExchangeSpent ==
    ASSUME Typed, Spent, NEW c \in Challenges, ExchangeBridge(c)
    PROVE  Spent'
<1>0. challenge \in [Challenges -> ChallengeRows] /\ signIns \in [Challenges -> Nat]
  BY DEF Typed, RowsTyped, HistoryTyped
<1>1. /\ challenge[c].state = "issued" /\ challenge' = Consumed(c) /\ UNCHANGED request
      /\ signIns' = [signIns EXCEPT ![c] = signIns[c] + 1]
  BY DEF ExchangeBridge, Consumable
<1>2. /\ challenge'[c].state = "consumed" /\ signIns'[c] = 1
      /\ \A b \in Challenges \ {c} : challenge'[b] = challenge[b] /\ signIns'[b] = signIns[b]
  BY <1>0, <1>1 DEF Consumed, ChallengeRows, NoChallenge, Spent
<1>3. /\ \A r \in Requests : ~Carries(r, c)
      /\ \A r \in Requests, b \in Challenges : Carries(r, b)' <=> Carries(r, b)
  BY <1>1 DEF Spent, Carries
<1>4. \A b \in Challenges : signIns'[b] <= 1 /\ (challenge'[b].state # "consumed" => signIns'[b] = 0)
  BY <1>2 DEF Spent
<1>5. \A r \in Requests, b \in Challenges :
         Carries(r, b)' => challenge'[b].state = "consumed" /\ signIns'[b] = 0
  BY <1>2, <1>3 DEF Spent
<1> QED
  BY <1>3, <1>4, <1>5 DEF Spent

LEMMA StepSpent ==
    ASSUME Typed, Spent, [Next]_vars
    PROVE  Spent'
<1> USE DEF Typed
<1>0. challenge \in [Challenges -> ChallengeRows]
  BY DEF RowsTyped
<1>1. ASSUME UNCHANGED <<challenge, signIns, request>> PROVE Spent'
  BY <1>1, KeptSpent DEF Carries
<1>2. ASSUME NEW q \in Requests, NEW at, NEW on, Goes(q, at, on), UNCHANGED <<challenge, signIns>>,
             at \in {"exchange", "create", "found", "google"} => Carries(q, on)
      PROVE  Spent'
  BY <1>2, KeptSpent, RequestsCarry
<1>3. ASSUME NEW q \in Requests,
             \/ BeginRegister(q) \/ BeginLogin(q) \/ FinishLogin(q) \/ ReadToken(q) \/ ReadFamily(q)
             \/ Rotate(q) \/ BeginLogout(q) \/ FinishLogout(q) \/ Abort(q) \/ ReceiveSession(q)
             \/ ReceiveSignOut(q) \/ Unauthorized(q) \/ Drop(q)
      PROVE  Spent'
  <2>1. \E at \in Steps \ {"exchange", "create", "found", "google"}, on \in Nat \cup Challenges : Goes(q, at, on)
    <3>1. /\ user.password \in Nat /\ tab.cookie \in Nat /\ NewToken \in Nat /\ 0 \in Nat
          /\ request[q].on \in Nat \cup Challenges
      BY Lengths, BoundsAreNatural DEF RowsTyped, RequestsTyped, TabTyped, Users, NewToken
    <3>2. CASE BeginRegister(q) \/ BeginLogin(q) \/ FinishLogin(q) \/ BeginLogout(q) \/ FinishLogout(q)
      BY <3>1, <3>2 DEF BeginRegister, BeginLogin, FinishLogin, BeginLogout, FinishLogout, Steps
    <3>3. CASE ReadToken(q) \/ ReadFamily(q) \/ Rotate(q)
      BY <3>1, <3>3 DEF ReadToken, ReadFamily, Rotate, Rejected, Steps
    <3>4. CASE Abort(q) \/ ReceiveSession(q) \/ ReceiveSignOut(q) \/ Unauthorized(q) \/ Drop(q)
      BY <3>1, <3>4 DEF Abort, ReceiveSession, ReceiveSignOut, Unauthorized, Drop, Rejected, Steps
    <3> QED
      BY <1>3, <3>2, <3>3, <3>4
  <2>2. UNCHANGED <<challenge, signIns>>
    BY <1>3 DEF BeginRegister, BeginLogin, FinishLogin, ReadToken, ReadFamily, Rotate, BeginLogout,
         FinishLogout, Abort, ReceiveSession, ReceiveSignOut, Unauthorized, Drop, rows, history
  <2> QED
    BY <1>2, <2>1, <2>2
<1>4. ASSUME NEW q \in Requests, FindOidcIdentity(q) \/ CreateFromOidc(q) PROVE Spent'
  <2>1. /\ Goes(q, "found", request[q].on) \/ Goes(q, "create", request[q].on)
        /\ Carries(q, request[q].on) /\ UNCHANGED <<challenge, signIns>>
    BY <1>4 DEF FindOidcIdentity, CreateFromOidc, Carries, rows, history
  <2> QED
    BY <1>2, <2>1
<1>5. ASSUME NEW q \in Requests, FinishBrowser(q) \/ FinishGoogleCallback(q) PROVE Spent'
  <2>1. PICK c \in Challenges :
          /\ Carries(q, c) /\ Goes(q, "reply", NewToken) /\ UNCHANGED challenge
          /\ signIns' = [signIns EXCEPT ![c] = signIns[c] + 1]
    BY <1>5 DEF FinishBrowser, FinishGoogleCallback, RequestsTyped, Carries
  <2>2. /\ \A b \in Challenges : ~Carries(q, b)'
        /\ \A r \in Requests \ {q}, b \in Challenges : Carries(r, b)' <=> Carries(r, b)
    BY <2>1, RequestsCarry
  <2> QED
    BY <2>1, <2>2, UsedSpent
<1>6. ASSUME NEW q \in Requests, NEW b \in Challenges, FinishMobile(q, b) PROVE Spent'
  <2>1. PICK c \in Challenges :
          /\ Carries(q, c) /\ Goes(q, "idle", 0)
          /\ challenge[b] = NoChallenge /\ challenge' = Issued(b, "oidc_bridge")
          /\ signIns' = [signIns EXCEPT ![c] = signIns[c] + 1]
    BY <1>6 DEF FinishMobile, RequestsTyped, Carries, Unused
  <2>2. \A d \in Challenges : challenge'[d].state = challenge[d].state \/ challenge[d].state # "consumed"
    BY <1>0, <2>1 DEF Issued, NoChallenge
  <2>3. /\ \A d \in Challenges : ~Carries(q, d)'
        /\ \A r \in Requests \ {q}, d \in Challenges : Carries(r, d)' <=> Carries(r, d)
    BY <2>1, RequestsCarry
  <2> QED
    BY <2>1, <2>2, <2>3, UsedSpent
<1>7. ASSUME NEW q \in Requests, NEW c \in Challenges, InsertAccount(q, c) PROVE Spent'
  <2>1. /\ Goes(q, "idle", 0) \/ Goes(q, "reply", NewToken)
        /\ challenge[c] = NoChallenge /\ challenge' = Issued(c, "email_verification") /\ UNCHANGED signIns
    BY <1>7 DEF InsertAccount, Unused
  <2>2. \A b \in Challenges : challenge'[b].state = challenge[b].state \/ challenge[b].state # "consumed"
    BY <1>0, <2>1 DEF Issued, NoChallenge
  <2>3. \A r \in Requests, b \in Challenges : Carries(r, b)' => Carries(r, b)
    BY <2>1, RequestsCarry
  <2> QED
    BY <2>1, <2>2, <2>3, KeptSpent
<1>8. ASSUME NEW c \in Challenges,
             \/ VerifyEmail(c) \/ ForgotPassword(c) \/ ResetPassword(c) \/ StartGoogleAuth(c)
             \/ \E type \in ChallengeTypes : StartOidc(c, type)
      PROVE  Spent'
  <2>1. /\ UNCHANGED <<request, signIns>> /\ challenge[c].state # "consumed"
        /\ challenge' = Consumed(c) \/ \E type \in ChallengeTypes : challenge' = Issued(c, type)
    BY <1>8 DEF VerifyEmail, ForgotPassword, ResetPassword, StartGoogleAuth, StartOidc, history, Unused,
         Consumable, NoChallenge, ChallengeTypes
  <2>2. \A b \in Challenges : challenge'[b].state = challenge[b].state \/ challenge[b].state # "consumed"
    BY <1>0, <2>1 DEF Issued, Consumed
  <2> QED
    BY <2>1, <2>2, KeptSpent DEF Carries
<1>9. ASSUME NEW q \in Requests, GiveUp(q) PROVE Spent'
  BY <1>1, <1>9 DEF GiveUp, rows
<1> QED
  BY <1>1, <1>3, <1>4, <1>5, <1>6, <1>7, <1>8, <1>9, CallbackSpent, ExchangeSpent DEF Next, vars, rows, history

(* A state or bridge code gives at most one session or code, however many  *)
(* callbacks present it (callback, exchangeBridge, googleCallback).        *)
THEOREM CodesAreSpentOnce == Spec => []CodesSignInOnce
<1>1. Typed /\ Spent /\ [Next]_vars => Spent'
  BY StepSpent
<1>2. Spent => CodesSignInOnce
  BY DEF Spent, CodesSignInOnce
<1> QED
  BY InitSpent, TypedHolds, <1>1, <1>2, PTL DEF Spec

-----------------------------------------------------------------------------
(* Invitations *)

Invited ==
    /\ accounts = 0 \/ (accounts = 1 /\ Present)
    /\ env.closedBeta => (invitation = "consumed" <=> accounts = 1)

LEMMA StepInvited ==
    ASSUME Typed, Invited, [Next]_vars
    PROVE  Invited'
<1> USE DEF Typed
<1>0. (Present => Present') /\ env' = env
  <2>1. Present => Present'
    BY RowsGrow DEF Grows
  <2>2. env' = env
    BY DEF Next, vars, BeginRegister, BeginLogin, FinishLogin, ReadToken, ReadFamily, Rotate, BeginLogout,
       FinishLogout, FindOidcIdentity, CreateFromOidc, FinishBrowser, FinishGoogleCallback, Abort, ReceiveSession,
       ReceiveSignOut, Unauthorized, GiveUp, Drop, InsertAccount, BeginCallback, FinishMobile,
       BeginGoogleCallback, VerifyEmail, ForgotPassword, ResetPassword, ExchangeBridge, StartGoogleAuth, StartOidc
  <2> QED
    BY <2>1, <2>2
<1>1. ASSUME UNCHANGED <<invitation, accounts>> PROVE Invited'
  BY <1>0, <1>1 DEF Invited
<1>2. ASSUME NEW q \in Requests, CreateFromOidc(q) \/ \E c \in Challenges : InsertAccount(q, c) PROVE Invited'
  <2>1. /\ ~Present /\ accounts' = accounts + 1
        /\ invitation' = IF env.closedBeta THEN "consumed" ELSE invitation
    BY <1>2 DEF CreateFromOidc, InsertAccount, Present
  <2>2. Present'
    BY <1>2 DEF CreateFromOidc, InsertAccount, Present, NoUser
  <2> QED
    BY <1>0, <2>1, <2>2 DEF Invited
<1>3. ASSUME NEW q \in Requests,
             \/ BeginRegister(q) \/ BeginLogin(q) \/ FinishLogin(q) \/ ReadToken(q) \/ ReadFamily(q)
             \/ Rotate(q) \/ BeginLogout(q) \/ FinishLogout(q) \/ FindOidcIdentity(q) \/ FinishBrowser(q)
             \/ FinishGoogleCallback(q) \/ Abort(q) \/ ReceiveSession(q) \/ ReceiveSignOut(q)
             \/ Unauthorized(q) \/ GiveUp(q) \/ Drop(q)
             \/ \E c \in Challenges : BeginCallback(q, c) \/ FinishMobile(q, c) \/ BeginGoogleCallback(q, c)
      PROVE  UNCHANGED <<invitation, accounts>>
  BY <1>3 DEF BeginRegister, BeginLogin, FinishLogin, ReadToken, ReadFamily, Rotate, BeginLogout, FinishLogout,
       FindOidcIdentity, FinishBrowser, FinishGoogleCallback, Abort, ReceiveSession, ReceiveSignOut, Unauthorized,
       GiveUp, Drop, BeginCallback, FinishMobile, BeginGoogleCallback, rows, history
<1>4. ASSUME NEW c \in Challenges,
             \/ VerifyEmail(c) \/ ForgotPassword(c) \/ ResetPassword(c) \/ ExchangeBridge(c) \/ StartGoogleAuth(c)
             \/ \E type \in ChallengeTypes : StartOidc(c, type)
      PROVE  UNCHANGED <<invitation, accounts>>
  BY <1>4 DEF VerifyEmail, ForgotPassword, ResetPassword, ExchangeBridge, StartGoogleAuth, StartOidc, history
<1> QED
  BY <1>1, <1>2, <1>3, <1>4 DEF Next, vars, rows, history

(* In the closed beta an invitation is gone exactly when the account it    *)
(* was for exists (register, callback).                                    *)
THEOREM InvitationsMatchAccounts == Spec => []InvitationsAreSpentOnAccounts
<1>1. Init => Invited
  <2>1. Init => invitation = "open" /\ accounts = 0
    BY DEF Init
  <2>2. invitation = "open" /\ accounts = 0 => Invited
    BY DEF Invited
  <2> QED
    BY <2>1, <2>2
<1>2. Typed /\ Invited /\ [Next]_vars => Invited'
  BY StepInvited
<1>3. Invited => InvitationsAreSpentOnAccounts
  BY DEF Invited, InvitationsAreSpentOnAccounts
<1> QED
  BY TypedHolds, <1>1, <1>2, <1>3, PTL DEF Spec

-----------------------------------------------------------------------------
(* The tab *)

(* As long as the tab waits for its refreshes: only one is under way, its  *)
(* token is usable, the cookie is usable unless the answer that replaces   *)
(* it is on the wire, and the tokens on the wire are usable and the tab's  *)
(* alone.                                                                  *)
Replied(q) == request[q].at = "reply"
Waiting ==
    /\ tab.gone = {}
    /\ \A f \in 1..Len(families) : families[f].revoked # "reuse_detected"
    /\ \A q \in Requests : Presents(q) => tab.refreshing = q /\ ~tokens[request[q].on].revoked
    /\ \A q \in Requests : tab.refreshing = q => Presents(q) \/ Replied(q)
    /\ tab.cookie # 0 /\ tokens[tab.cookie].revoked => \E q \in Requests : tab.refreshing = q /\ Replied(q)
    /\ \A q \in Requests : Replied(q) =>
          /\ ~tokens[request[q].on].revoked
          /\ request[q].on # tab.cookie
          /\ \A r \in Requests \ {q} : Replied(r) \/ Presents(r) => request[r].on # request[q].on

Unnoticed == lost = FALSE => Waiting

LEMMA InitWaiting == Init => Waiting
<1> SUFFICES ASSUME Init PROVE Waiting
  OBVIOUS
<1>1. \A q \in Requests : ~Presents(q) /\ ~Replied(q)
  BY DEF Init, Idle, Presents, Replied
<1>2. tab.gone = {} /\ \A q \in Requests : tab.refreshing # q
  BY NoneIsNoName DEF Init
<1>3. \A f \in 1..Len(families) : families[f].revoked # "reuse_detected"
  BY DEF Init
<1>4. tab.cookie # 0 => ~tokens[tab.cookie].revoked
  BY DEF Init
<1> QED
  BY <1>1, <1>2, <1>3, <1>4 DEF Waiting

(* What a request becomes. *)
LEMMA RequestBecomes ==
    ASSUME Typed, NEW q \in Requests, NEW at, NEW on, Goes(q, at, on)
    PROVE  /\ request'[q].at = at /\ request'[q].on = on
           /\ \A r \in Requests \ {q} : request'[r] = request[r]
  BY DEF Goes, Typed, RequestsTyped

(* Tokens on the wire exist, and so does the cookie's. *)
LEMMA TokensExist ==
    ASSUME Typed
    PROVE  /\ Len(tokens) \in Nat
           /\ \A q \in Requests : Presents(q) \/ Replied(q) => request[q].on \in 1..Len(tokens)
           /\ tab.cookie # 0 => tab.cookie \in 1..Len(tokens)
  BY Lengths DEF Typed, RequestsTyped, TabTyped, Presents, Replied

(* A step that concerns neither tokens nor the tab. *)
LEMMA UnconcernedWaiting ==
    ASSUME Typed, Waiting, UNCHANGED <<tokens, tab>>,
           \A f \in 1..Len(families') : families'[f].revoked # "reuse_detected",
           \A q \in Requests : \/ request'[q] = request[q]
                               \/ ~Presents(q) /\ ~Presents(q)' /\ ~Replied(q) /\ ~Replied(q)'
                               \/ Presents(q) /\ Presents(q)' /\ request'[q].on = request[q].on
    PROVE  Waiting'
<1>1. \A q \in Requests : /\ Presents(q)' <=> Presents(q)
                          /\ Replied(q)' <=> Replied(q)
                          /\ Presents(q) \/ Replied(q) => request'[q].on = request[q].on
  BY DEF Presents, Replied
<1> QED
  BY <1>1 DEF Waiting

(* A session is issued, to a request that is answered now or to an app. *)
LEMMA IssuedWaiting ==
    ASSUME Typed, Waiting, NEW p \in 0..MaxPasswords, IssueSession(p), UNCHANGED tab,
           \/ UNCHANGED request
           \/ \E q \in Requests : ~Presents(q) /\ ~Replied(q) /\ Goes(q, "reply", NewToken)
    PROVE  Waiting'
<1>0. RowsTyped
  BY DEF Typed
<1>1. /\ Len(families') = Len(families) + 1
      /\ \A f \in 1..Len(families) : families'[f] = families[f]
      /\ families'[Len(families) + 1].revoked = "no"
      /\ \A t \in 1..Len(tokens) : tokens'[t] = tokens[t]
      /\ ~tokens'[NewToken].revoked
  <2>1. /\ Len(families') = Len(families) + 1
        /\ \A f \in 1..Len(families) : families'[f] = families[f]
        /\ families'[Len(families) + 1] =
              [revoked |-> "no", password |-> p, overlapped |-> p < user.password]
        /\ \A t \in 1..Len(tokens) : tokens'[t] = tokens[t]
        /\ tokens'[Len(tokens) + 1] = [family |-> Len(families) + 1, revoked |-> FALSE]
    BY <1>0, SessionIssued
  <2> QED
    BY <2>1 DEF NewToken
<1>2. \A f \in 1..Len(families') : families'[f].revoked # "reuse_detected"
  BY <1>0, <1>1, Lengths DEF Waiting
<1>3. /\ NewToken \notin 1..Len(tokens) /\ NewToken # 0
      /\ \A q \in Requests : Presents(q) \/ Replied(q) => request[q].on \in 1..Len(tokens)
      /\ tab.cookie # 0 => tab.cookie \in 1..Len(tokens)
  BY TokensExist DEF NewToken
<1>4. CASE UNCHANGED request
  BY SMTT(30), <1>1, <1>2, <1>3, <1>4 DEF Waiting, Presents, Replied
<1>5. ASSUME NEW q \in Requests, ~Presents(q), ~Replied(q), Goes(q, "reply", NewToken)
      PROVE  Waiting'
  <2>1. /\ request'[q].at = "reply" /\ request'[q].on = NewToken
        /\ \A r \in Requests \ {q} : request'[r] = request[r]
    BY <1>5, RequestBecomes
  <2>2. /\ Replied(q)' /\ ~Presents(q)' /\ tab.refreshing # q
        /\ \A r \in Requests \ {q} : (Presents(r)' <=> Presents(r)) /\ (Replied(r)' <=> Replied(r))
    BY <1>5, <2>1 DEF Presents, Replied, Waiting
  <2>3. /\ ~tokens'[request'[q].on].revoked /\ request'[q].on # tab'.cookie
        /\ \A r \in Requests \ {q} : Replied(r)' \/ Presents(r)' => request'[r].on # request'[q].on
    BY <1>1, <1>3, <2>1, <2>2
  <2>4. \A r \in Requests \ {q} : Replied(r)' =>
          /\ ~tokens'[request'[r].on].revoked
          /\ request'[r].on # tab'.cookie
          /\ \A x \in Requests \ {r} : Replied(x)' \/ Presents(x)' => request'[x].on # request'[r].on
    BY SMTT(30), <1>1, <1>3, <2>1, <2>2 DEF Waiting
  <2>5. \A r \in Requests : Presents(r)' => tab'.refreshing = r /\ ~tokens'[request'[r].on].revoked
    BY SMTT(30), <1>1, <1>3, <2>1, <2>2 DEF Waiting
  <2>6. tab'.cookie # 0 /\ tokens'[tab'.cookie].revoked => \E r \in Requests : tab'.refreshing = r /\ Replied(r)'
    BY <1>1, <1>3, <2>2 DEF Waiting
  <2>7. tab'.gone = {} /\ \A r \in Requests : tab'.refreshing = r => Presents(r)' \/ Replied(r)'
    BY <2>2 DEF Waiting
  <2> QED
    BY <1>2, <2>3, <2>4, <2>5, <2>6, <2>7 DEF Waiting
<1> QED
  BY <1>4, <1>5

(* The tab's refresh replaces its token. *)
LEMMA RotatedWaiting ==
    ASSUME Typed, Waiting, NEW q \in Requests, request[q].at = "rotate", Goes(q, "reply", NewToken),
           tokens' = Append([tokens EXCEPT ![request[q].on].revoked = TRUE],
                            [family |-> tokens[request[q].on].family, revoked |-> FALSE]),
           UNCHANGED <<families, tab>>
    PROVE  Waiting'
<1>0. RowsTyped /\ Presents(q) /\ ~Replied(q)
  BY DEF Typed, Presents, Replied
<1>1. PICK t \in 1..Len(tokens) : t = request[q].on
  BY <1>0, TokensExist
<1>2. /\ \A u \in 1..Len(tokens) \ {t} : tokens'[u].revoked = tokens[u].revoked
      /\ ~tokens'[NewToken].revoked
  <2>1. tokens' = Append([tokens EXCEPT ![t].revoked = TRUE], [family |-> tokens[t].family, revoked |-> FALSE])
    BY <1>1
  <2>2. /\ \A u \in 1..Len(tokens) :
              tokens'[u].family = tokens[u].family /\ (u # t => tokens'[u].revoked = tokens[u].revoked)
        /\ tokens'[Len(tokens) + 1] = [family |-> tokens[t].family, revoked |-> FALSE]
    BY <1>0, <2>1, TokenRotated
  <2> QED
    BY ONLY <2>2 DEF NewToken
<1>3. /\ NewToken \notin 1..Len(tokens) /\ NewToken # 0
      /\ \A r \in Requests : Presents(r) \/ Replied(r) => request[r].on \in 1..Len(tokens)
      /\ tab.cookie # 0 => tab.cookie \in 1..Len(tokens)
  BY TokensExist DEF NewToken
<1>4. /\ request'[q].at = "reply" /\ request'[q].on = NewToken
      /\ \A r \in Requests \ {q} : request'[r] = request[r]
  BY RequestBecomes
<1>5. /\ tab.refreshing = q
      /\ \A r \in Requests \ {q} : ~Presents(r) /\ ~Presents(r)' /\ (Replied(r)' <=> Replied(r))
      /\ Replied(q)' /\ ~Presents(q)'
  BY <1>0, <1>4 DEF Waiting, Presents, Replied
<1>6. \A r \in Requests \ {q} : Replied(r)' =>
          /\ ~tokens'[request'[r].on].revoked
          /\ request'[r].on # tab'.cookie
          /\ \A x \in Requests \ {r} : Replied(x)' => request'[x].on # request'[r].on
  <2> SUFFICES ASSUME NEW r \in Requests \ {q}, Replied(r)
               PROVE  /\ ~tokens'[request[r].on].revoked
                      /\ request[r].on # tab.cookie
                      /\ \A x \in Requests \ {r} : Replied(x)' => request'[x].on # request[r].on
    BY ZenonT(30), <1>4, <1>5
  <2>1. request[r].on # t /\ request[r].on \in 1..Len(tokens) /\ ~tokens[request[r].on].revoked
    BY <1>0, <1>1, <1>3 DEF Waiting
  <2>2. ~tokens'[request[r].on].revoked
    BY <1>2, <2>1
  <2>3. request[r].on # tab.cookie
    BY DEF Waiting
  <2>4. \A x \in Requests \ {r, q} : Replied(x)' => request'[x].on # request[r].on
    BY <1>4, <1>5 DEF Waiting
  <2>5. request'[q].on # request[r].on
    BY <1>3, <1>4, <2>1
  <2> QED
    BY <2>2, <2>3, <2>4, <2>5
<1>7. /\ ~tokens'[request'[q].on].revoked /\ request'[q].on # tab'.cookie
      /\ \A r \in Requests \ {q} : Replied(r)' => request'[r].on # request'[q].on
  BY <1>2, <1>3, <1>4, <1>5
<1> QED
  BY <1>5, <1>6, <1>7 DEF Waiting

(* A request ends without a session. *)
LEMMA RejectedWaiting ==
    ASSUME Typed, Waiting, NEW q \in Requests, Rejected(q), ~Replied(q), UNCHANGED <<families, tokens>>
    PROVE  Waiting'
<1>1. /\ request'[q].at = "idle" /\ \A r \in Requests \ {q} : request'[r] = request[r]
      /\ tab' = [tab EXCEPT !.refreshing = IF @ = q THEN None ELSE @, !.gone = @ \ {q}]
  BY RequestBecomes DEF Rejected
<1>2. /\ tab'.cookie = tab.cookie /\ tab'.gone = tab.gone \ {q}
      /\ tab'.refreshing = IF tab.refreshing = q THEN None ELSE tab.refreshing
  BY <1>1 DEF Typed, TabTyped
<1>3. /\ ~Presents(q)' /\ ~Replied(q)'
      /\ \A r \in Requests \ {q} : (Presents(r)' <=> Presents(r)) /\ (Replied(r)' <=> Replied(r))
  BY <1>1 DEF Presents, Replied
<1>4. \A r \in Requests : tab'.refreshing = r => r # q /\ tab.refreshing = r
  BY <1>2, NoneIsNoName
<1>5. \A r \in Requests \ {q} : tab.refreshing = r => tab'.refreshing = r
  BY <1>2
<1>6. tab'.cookie # 0 /\ tokens'[tab'.cookie].revoked => \E r \in Requests : tab'.refreshing = r /\ Replied(r)'
  BY <1>2, <1>3, <1>5 DEF Waiting
<1>7. \A r \in Requests : Presents(r)' => tab'.refreshing = r /\ ~tokens'[request'[r].on].revoked
  BY <1>1, <1>3, <1>5 DEF Waiting
<1> QED
  BY <1>1, <1>2, <1>3, <1>4, <1>6, <1>7 DEF Waiting

(* The tab receives a session: its cookie is the token nobody else has. *)
LEMMA ReceivedWaiting ==
    ASSUME Typed, Waiting, NEW q \in Requests, ReceiveSession(q)
    PROVE  Waiting'
<1>1. /\ Replied(q) /\ UNCHANGED <<families, tokens>>
      /\ request'[q].at = "idle" /\ \A r \in Requests \ {q} : request'[r] = request[r]
  BY RequestBecomes DEF ReceiveSession, Replied, rows
<1>2. /\ tab'.cookie = request[q].on /\ tab'.gone = tab.gone
      /\ tab'.refreshing = IF tab.refreshing = q THEN None ELSE tab.refreshing
  BY DEF ReceiveSession, Settled, Typed, TabTyped
<1>3. /\ ~Presents(q)' /\ ~Replied(q)' /\ ~Presents(q)
      /\ \A r \in Requests \ {q} : (Presents(r)' <=> Presents(r)) /\ (Replied(r)' <=> Replied(r))
  BY <1>1 DEF Presents, Replied
<1>4. \A r \in Requests : tab'.refreshing = r => r # q /\ tab.refreshing = r
  BY <1>2, NoneIsNoName
<1>5. \A r \in Requests \ {q} : tab.refreshing = r => tab'.refreshing = r
  BY <1>2
<1>6. ~tokens'[tab'.cookie].revoked
  BY <1>1, <1>2 DEF Waiting
<1>7. \A r \in Requests \ {q} : Replied(r) => request[r].on # tab'.cookie
  BY <1>1, <1>2 DEF Waiting
<1>8. \A r \in Requests : Presents(r)' => tab'.refreshing = r /\ ~tokens'[request'[r].on].revoked
  BY <1>1, <1>3, <1>5 DEF Waiting
<1> QED
  BY <1>1, <1>2, <1>3, <1>4, <1>6, <1>7, <1>8 DEF Waiting

(* The tab signs out, or starts a refresh, or an answer to a request that  *)
(* is not its refresh is dropped.                                          *)
LEMMA SignedOutWaiting ==
    ASSUME Typed, Waiting, NEW q \in Requests, ReceiveSignOut(q)
    PROVE  Waiting'
<1>1. /\ ~Replied(q) /\ ~Presents(q) /\ UNCHANGED <<families, tokens>>
      /\ request'[q].at = "idle" /\ \A r \in Requests \ {q} : request'[r] = request[r]
  BY RequestBecomes DEF ReceiveSignOut, Replied, Presents, rows
<1>2. tab'.cookie = 0 /\ tab'.gone = tab.gone /\ tab'.refreshing = tab.refreshing
  BY <1>1 DEF ReceiveSignOut, Settled, Typed, TabTyped, Waiting
<1>3. /\ \A r \in Requests : (Presents(r)' <=> Presents(r)) /\ (Replied(r)' <=> Replied(r))
      /\ \A r \in Requests : Presents(r) \/ Replied(r) => request'[r] = request[r]
  BY <1>1 DEF Presents, Replied
<1>4. \A r \in Requests : Replied(r) => request[r].on # 0
  BY TokensExist
<1> QED
  BY <1>1, <1>2, <1>3, <1>4 DEF Waiting

LEMMA UnauthorizedWaiting ==
    ASSUME Typed, Waiting, NEW q \in Requests, Unauthorized(q)
    PROVE  Waiting'
<1>1. /\ ~Replied(q) /\ ~Presents(q) /\ tab.refreshing = None /\ tab.cookie # 0 /\ UNCHANGED <<families, tokens>>
      /\ request'[q].at = "refresh" /\ request'[q].on = tab.cookie
      /\ \A r \in Requests \ {q} : request'[r] = request[r]
  BY RequestBecomes DEF Unauthorized, Idle, Replied, Presents, rows
<1>2. tab'.cookie = tab.cookie /\ tab'.gone = tab.gone /\ tab'.refreshing = q
  BY DEF Unauthorized, Typed, TabTyped
<1>3. /\ Presents(q)' /\ ~Replied(q)'
      /\ \A r \in Requests \ {q} : ~Presents(r) /\ ~Presents(r)' /\ (Replied(r)' <=> Replied(r))
  BY <1>1, NoneIsNoName DEF Presents, Replied, Waiting
<1>4. ~tokens[tab.cookie].revoked
  BY <1>1, NoneIsNoName DEF Waiting
<1> QED
  BY <1>1, <1>2, <1>3, <1>4 DEF Waiting

LEMMA DroppedWaiting ==
    ASSUME Typed, Waiting, NEW q \in Requests, Drop(q)
    PROVE  Waiting'
<1>1. /\ ~Presents(q) /\ tab.refreshing # q /\ UNCHANGED <<families, tokens>>
      /\ request'[q].at = "idle" /\ \A r \in Requests \ {q} : request'[r] = request[r]
  BY RequestBecomes DEF Drop, Presents, rows
<1>2. tab'.cookie = tab.cookie /\ tab'.gone = {} /\ tab'.refreshing = tab.refreshing
  BY DEF Drop, Typed, TabTyped, Waiting
<1>3. /\ ~Presents(q)' /\ ~Replied(q)'
      /\ \A r \in Requests \ {q} : (Presents(r)' <=> Presents(r)) /\ (Replied(r)' <=> Replied(r))
  BY <1>1 DEF Presents, Replied
<1> QED
  BY <1>1, <1>2, <1>3 DEF Waiting

LEMMA StepWaiting ==
    ASSUME Typed, Waiting, [Next]_vars, \A q \in Requests : ~GiveUp(q)
    PROVE  Waiting'
<1> USE DEF Typed
<1>0. user.password \in 0..MaxPasswords /\ 1 \in 0..MaxPasswords
  BY BoundsAreNatural DEF RowsTyped, Users
<1>1. ASSUME UNCHANGED <<families, tokens, request, tab>> PROVE Waiting'
  BY <1>1, UnconcernedWaiting DEF Waiting
<1>2. ASSUME NEW q \in Requests, NEW at, NEW on, Goes(q, at, on), UNCHANGED <<families, tokens, tab>>,
             \/ ~Presents(q) /\ ~Replied(q) /\ at \notin {"refresh", "family", "rotate", "reply"}
             \/ Presents(q) /\ at \in {"refresh", "family", "rotate"} /\ on = request[q].on
      PROVE  Waiting'
  <2>1. request'[q].at = at /\ request'[q].on = on /\ \A r \in Requests \ {q} : request'[r] = request[r]
    BY <1>2, RequestBecomes
  <2>2. \A r \in Requests : \/ request'[r] = request[r]
                            \/ ~Presents(r) /\ ~Presents(r)' /\ ~Replied(r) /\ ~Replied(r)'
                            \/ Presents(r) /\ Presents(r)' /\ request'[r].on = request[r].on
    BY <1>2, <2>1 DEF Presents, Replied
  <2> QED
    BY <1>2, <2>2, UnconcernedWaiting DEF Waiting
<1>3. ASSUME NEW q \in Requests, BeginRegister(q) \/ BeginLogin(q) \/ BeginLogout(q) PROVE Waiting'
  <2>1. request[q].at = "idle" /\ UNCHANGED <<families, tokens, tab>>
    BY <1>3 DEF BeginRegister, BeginLogin, BeginLogout, Idle, rows
  <2>2. \E at \in {"register", "login", "logout", "signed_out"}, on \in Nat \cup {tab.cookie, user.password} : Goes(q, at, on)
    BY <1>3 DEF BeginRegister, BeginLogin, BeginLogout
  <2> QED
    BY <1>2, <2>1, <2>2 DEF Presents, Replied
<1>4. ASSUME NEW q \in Requests, FindOidcIdentity(q) \/ CreateFromOidc(q) PROVE Waiting'
  <2>1. request[q].at \in {"exchange", "create"} /\ UNCHANGED <<families, tokens, tab>>
    BY <1>4 DEF FindOidcIdentity, CreateFromOidc, rows
  <2>2. Goes(q, "found", request[q].on) \/ Goes(q, "create", request[q].on)
    BY <1>4 DEF FindOidcIdentity, CreateFromOidc
  <2> QED
    BY <1>2, <2>1, <2>2 DEF Presents, Replied
<1>5. ASSUME NEW q \in Requests, FinishLogin(q) \/ FinishBrowser(q) \/ FinishGoogleCallback(q) PROVE Waiting'
  <2>1. request[q].at \in {"login", "found", "google"} /\ Goes(q, "reply", NewToken) /\ UNCHANGED tab
    BY <1>5 DEF FinishLogin, FinishBrowser, FinishGoogleCallback
  <2>2. ~Presents(q) /\ ~Replied(q)
    BY <2>1 DEF Presents, Replied
  <2>3. PICK p \in 0..MaxPasswords : IssueSession(p)
    <3>1. FinishLogin(q) => request[q].on \in 0..MaxPasswords
      BY <1>0, BoundsAreNatural DEF FinishLogin, RequestsTyped
    <3> QED
      BY <1>0, <1>5, <3>1 DEF FinishLogin, FinishBrowser, FinishGoogleCallback
  <2> QED
    BY <2>1, <2>2, <2>3, IssuedWaiting
<1>6. ASSUME NEW q \in Requests, ReadToken(q) \/ ReadFamily(q) \/ Rotate(q) PROVE Waiting'
  <2> DEFINE t == request[q].on
  <2>1. Presents(q) /\ ~Replied(q) /\ ~tokens[t].revoked
    BY <1>6 DEF ReadToken, ReadFamily, Rotate, Presents, Replied, Waiting
  <2>2. CASE ReadToken(q) \/ ReadFamily(q)
    <3>1. UNCHANGED <<families, tokens>> /\ (Rejected(q) \/ (UNCHANGED tab /\ (Goes(q, "family", t) \/ Goes(q, "rotate", t))))
      BY <2>1, <2>2 DEF ReadToken, ReadFamily, rows
    <3> QED
      BY <1>2, <2>1, <3>1, RejectedWaiting
  <2>3. CASE Rotate(q)
    BY <2>1, <2>3, RotatedWaiting DEF Rotate
  <2> QED
    BY <1>6, <2>2, <2>3
<1>7. ASSUME NEW q \in Requests, FinishLogout(q) PROVE Waiting'
  <2>1. /\ request[q].at = "logout" /\ Goes(q, "signed_out", request[q].on) /\ UNCHANGED <<tokens, tab>>
        /\ RevokeFamily(tokens[request[q].on].family, "logout")
    BY <1>7 DEF FinishLogout
  <2>2. request'[q].at = "signed_out" /\ \A r \in Requests \ {q} : request'[r] = request[r]
    BY <2>1, RequestBecomes
  <2>3. \A r \in Requests : \/ request'[r] = request[r]
                            \/ ~Presents(r) /\ ~Presents(r)' /\ ~Replied(r) /\ ~Replied(r)'
    BY <2>1, <2>2 DEF Presents, Replied
  <2>4. tokens[request[q].on].family \in 1..Len(families)
    <3>1. request[q].on \in 1..Len(tokens)
      BY <2>1 DEF RequestsTyped
    <3>2. tokens[request[q].on] \in TokenRows(Len(families))
      BY <3>1 DEF RowsTyped
    <3> QED
      BY <3>2 DEF TokenRows
  <2>5. PICK f \in 1..Len(families) : RevokeFamily(f, "logout")
    BY <2>1, <2>4
  <2>6. \A g \in 1..Len(families') : families'[g].revoked # "reuse_detected"
    <3>1. /\ Len(families') = Len(families)
          /\ \A g \in 1..Len(families) : families'[g].revoked = families[g].revoked \/ families'[g].revoked = "logout"
      BY <2>5, FamilyRevoked DEF RevokeReasons
    <3> QED
      BY <3>1 DEF Waiting
  <2> QED
    BY <2>1, <2>3, <2>6, UnconcernedWaiting
<1>8. ASSUME NEW q \in Requests, Abort(q) PROVE Waiting'
  <2>1. Rejected(q) /\ ~Replied(q) /\ UNCHANGED <<families, tokens>>
    BY <1>8 DEF Abort, Replied, rows
  <2> QED
    BY <2>1, RejectedWaiting
<1>9. ASSUME NEW q \in Requests, NEW c \in Challenges,
             InsertAccount(q, c) \/ BeginCallback(q, c) \/ FinishMobile(q, c) \/ BeginGoogleCallback(q, c)
      PROVE  Waiting'
  <2>1. ~Presents(q) /\ ~Replied(q) /\ UNCHANGED tab
    BY <1>9 DEF InsertAccount, BeginCallback, FinishMobile, BeginGoogleCallback, Idle, Presents, Replied
  <2>2. CASE IssueSession(1) /\ Goes(q, "reply", NewToken)
    BY <1>0, <2>1, <2>2, IssuedWaiting
  <2>3. CASE /\ UNCHANGED <<families, tokens>>
             /\ \E at \in {"idle", "exchange", "google"}, on \in Nat \cup Challenges : Goes(q, at, on)
    BY <1>2, <2>1, <2>3
  <2>4. CASE InsertAccount(q, c)
    BY <2>2, <2>3, <2>4 DEF InsertAccount
  <2>5. CASE BeginCallback(q, c) \/ FinishMobile(q, c) \/ BeginGoogleCallback(q, c)
    BY <2>3, <2>5 DEF BeginCallback, FinishMobile, BeginGoogleCallback
  <2> QED
    BY <1>9, <2>4, <2>5
<1>10. ASSUME NEW c \in Challenges,
              \/ VerifyEmail(c) \/ ForgotPassword(c) \/ StartGoogleAuth(c)
              \/ \E type \in ChallengeTypes : StartOidc(c, type)
       PROVE  Waiting'
  BY <1>1, <1>10 DEF VerifyEmail, ForgotPassword, StartGoogleAuth, StartOidc
<1>11. ASSUME NEW c \in Challenges, ExchangeBridge(c) PROVE Waiting'
  <2>1. IssueSession(user.password) /\ UNCHANGED <<request, tab>>
    BY <1>11 DEF ExchangeBridge
  <2> QED
    BY <1>0, <2>1, IssuedWaiting
<1>12. ASSUME NEW c \in Challenges, ResetPassword(c) PROVE Waiting'
  <2>1. /\ families' = [f \in DOMAIN families |->
                          IF Live(f) THEN [families[f] EXCEPT !.revoked = "password_changed"] ELSE families[f]]
        /\ UNCHANGED <<tokens, request, tab>>
    BY <1>12 DEF ResetPassword
  <2>2. families \in [1..Len(families) -> FamilyRows] /\ Len(families) \in Nat
    BY DEF RowsTyped
  <2>3. families' \in [1..Len(families) -> FamilyRows]
    BY <2>1, <2>2 DEF FamilyRows, RevokeReasons
  <2>4. Len(families') = Len(families)
    BY <2>2, <2>3, SeqDef
  <2>5. \A f \in 1..Len(families) : families'[f].revoked \in {families[f].revoked, "password_changed"}
    BY <2>1, <2>2 DEF FamilyRows
  <2>6. \A f \in 1..Len(families') : families'[f].revoked # "reuse_detected"
    BY <2>4, <2>5 DEF Waiting
  <2> QED
    BY <2>1, <2>6, UnconcernedWaiting
<1> QED
  BY <1>1, <1>3, <1>4, <1>5, <1>6, <1>7, <1>8, <1>9, <1>10, <1>11, <1>12, ReceivedWaiting, SignedOutWaiting,
     UnauthorizedWaiting, DroppedWaiting DEF Next, vars, rows

(* Only giving up on a refresh loses one. *)
LEMMA LostByGivingUp ==
    ASSUME [Next]_vars, lost' = FALSE
    PROVE  lost = FALSE /\ \A q \in Requests : ~GiveUp(q)
<1>1. \A q \in Requests : ~GiveUp(q)
  BY DEF GiveUp
<1>2. lost' = lost
  BY <1>1 DEF Next, vars, BeginRegister, BeginLogin, FinishLogin, ReadToken, ReadFamily, Rotate, BeginLogout,
     FinishLogout, FindOidcIdentity, CreateFromOidc, FinishBrowser, FinishGoogleCallback, Abort, ReceiveSession,
     ReceiveSignOut, Unauthorized, Drop, InsertAccount, BeginCallback, FinishMobile,
     BeginGoogleCallback, VerifyEmail, ForgotPassword, ResetPassword, ExchangeBridge, StartGoogleAuth, StartOidc, history
<1> QED
  BY <1>1, <1>2

(* A single tab is never taken for a thief unless it gave up on a refresh  *)
(* that ran on (refresh and the tab's interceptor).                        *)
THEOREM TabIsNoThief == Spec => []ReuseOnlyAfterLoss
<1>1. Init => Unnoticed
  BY InitWaiting DEF Unnoticed
<1>2. Typed /\ Unnoticed /\ [Next]_vars => Unnoticed'
  BY LostByGivingUp, StepWaiting DEF Unnoticed
<1>3. Typed /\ Unnoticed => ReuseOnlyAfterLoss
  <2> SUFFICES ASSUME Typed, Unnoticed, NEW f \in DOMAIN families, families[f].revoked = "reuse_detected"
               PROVE  lost
    BY DEF ReuseOnlyAfterLoss
  <2>1. f \in 1..Len(families)
    BY DEF Typed, RowsTyped
  <2>2. lost # FALSE
    BY <2>1 DEF Unnoticed, Waiting
  <2> QED
    BY <2>2 DEF Typed, HistoryTyped
<1> QED
  BY TypedHolds, <1>1, <1>2, <1>3, PTL DEF Spec
=============================================================================
