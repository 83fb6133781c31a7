----------------------------- MODULE Credentials -----------------------------
(* The authorities of the control plane: the OAuth registry with its consent  *)
(* prompts, authorization codes, grants and rotating tokens (oauth.rs), and   *)
(* the operator credentials with the browser login (operator_auth.rs).        *)
(*                                                                            *)
(* Every operation on the registry is one transaction that takes the write    *)
(* lock before it reads (update_oauth) and first drops what has expired.  So  *)
(* expiry is a step that removes the row.  Secrets are never guessed: a caller *)
(* presents one that was handed out, however old, and a caller without the    *)
(* verifier of a code's challenge is refused without a change of state.  Each *)
(* kind of secret is numbered in the order of creation.                       *)
EXTENDS Naturals, FiniteSets

CONSTANTS
  App,                         \* OAuth clients
  Bootstrap,                   \* a bootstrap token is configured
  NPrompt, NToken, NLogin, NOperator,  \* bounds of the secrets and credentials
  PromptLimit, LoginLimit      \* 1000 prompts, 64 pending logins in the code

Prompt == 1 .. NPrompt
Code == 1 .. NPrompt
Family == 1 .. NPrompt
TokenId == 1 .. NToken
Login == 1 .. NLogin
Operator == 1 .. NOperator

ASSUME CredentialBounds ==
  /\ NPrompt \in Nat /\ NToken \in Nat /\ NLogin \in Nat /\ NOperator \in Nat
  /\ PromptLimit \in Nat /\ LoginLimit \in Nat /\ Bootstrap \in BOOLEAN

VARIABLES
  registered,   \* clients
  prompts,      \* consent pages that were shown and may be approved
  codes,        \* authorization codes that may be redeemed
  grants,       \* token families
  tokens,       \* access tokens, and refresh tokens with the spent ones
  operators,    \* operator_credentials
  logins,       \* operator_login_requests
  calls,        \* approvals past authentication, before their transaction
  shown,        \* history: every prompt
  approved,     \* history: every approval with its prompt, code and role
  redeemed,     \* history: every redemption of a code with its family
  minted,       \* history: how many tokens were issued
  replayed,     \* history: families of which a spent refresh token came back
  legacy,       \* the migration window for tokens of the former issuers is open
  vouched       \* history: such a token was let through while it was

registry == <<registered, prompts, codes, grants, tokens>>
window == <<legacy, vouched>>
authVars == <<registered, prompts, codes, grants, tokens, operators, logins,
              calls, shown, approved, redeemed, minted, replayed, legacy, vouched>>

-----------------------------------------------------------------------------
(* Types. *)
Role == {"viewer", "operator", "admin"}
TokenScope == {"morrows", "control"}
Authorization == [app: App, scope: TokenScope]
PromptRow == [csrf: Prompt, auth: Authorization]
CodeRow == [code: Code, auth: Authorization]
GrantRow == [family: Family, app: App, scope: TokenScope, revoked: BOOLEAN]
TokenRow == [token: TokenId, family: Family, refresh: BOOLEAN, used: BOOLEAN]
\* Nothing asks whether a credential ended by its revocation or its expiry.
OperatorRow == [role: Role \cup {"none"}, ended: BOOLEAN]
LoginRow == [state: {"none", "open", "lapsed"}, credential: Operator \cup {0}]

CredentialsTypeOK ==
  /\ registered \subseteq App
  /\ prompts \subseteq PromptRow /\ shown \subseteq PromptRow
  /\ codes \subseteq CodeRow
  /\ grants \subseteq GrantRow /\ tokens \subseteq TokenRow
  /\ \A g, h \in grants: g.family = h.family => g = h
  /\ \A t, u \in tokens: t.token = u.token => t = u
  /\ \A t \in tokens: \E g \in grants: g.family = t.family
  /\ operators \in [Operator -> OperatorRow]
  /\ logins \in [Login -> LoginRow]
  /\ calls \subseteq [csrf: Prompt, auth: Authorization, role: Role]
  /\ approved \subseteq [code: Code, csrf: Prompt, role: Role]
  /\ redeemed \subseteq [code: Code, family: Family]
  /\ minted \in 0 .. NToken
  /\ replayed \subseteq Family
  /\ legacy \in BOOLEAN /\ vouched \in BOOLEAN

\* A deployment has the window or it has not.
CredentialsInit ==
  /\ registered = {} /\ prompts = {} /\ codes = {} /\ grants = {} /\ tokens = {}
  /\ operators = [o \in Operator |-> [role |-> "none", ended |-> FALSE]]
  /\ logins = [l \in Login |-> [state |-> "none", credential |-> 0]]
  /\ calls = {}
  /\ shown = {} /\ approved = {} /\ redeemed = {} /\ minted = 0 /\ replayed = {}
  /\ legacy \in BOOLEAN /\ vouched = FALSE

-----------------------------------------------------------------------------
(* Authentication. *)
GrantOf(t) == CHOOSE g \in grants: g.family = t.family

\* A bearer token of the registry, as every protected route verifies it.
Verified(t) ==
  /\ t \in tokens /\ ~t.refresh /\ ~t.used
  /\ ~GrantOf(t).revoked /\ GrantOf(t).app \in registered

ActiveOperator(o) ==
  operators[o].role # "none" /\ ~operators[o].ended

\* The roles with which somebody can be let through to the approval: a control
\* token counts as admin, as does the bootstrap token, and a viewer is refused.
\* The tokens of the former issuers have a step of their own.
Authenticated(role) ==
  \/ role = "admin" /\ Bootstrap
  \/ role = "admin" /\ \E t \in tokens: Verified(t) /\ GrantOf(t).scope = "control"
  \/ role # "viewer" /\ \E o \in Operator: ActiveOperator(o) /\ operators[o].role = role

\* mutant: the end of the window is not looked at
LegacyAlways == TRUE
\* verify_legacy: a token of a former issuer is good until the window has passed.
LegacyAccepted == legacy

-----------------------------------------------------------------------------
(* Registration and consent. *)
Register(a) ==
  /\ a \notin registered
  /\ registered' = registered \cup {a}
  /\ UNCHANGED <<window, prompts, codes, grants, tokens, operators, logins,
                 calls, shown, approved, redeemed, minted, replayed>>

AuthorizeGet(auth) ==
  LET p == [csrf |-> Cardinality(shown) + 1, auth |-> auth] IN
  /\ auth.app \in registered
  /\ Cardinality(prompts) < PromptLimit /\ p.csrf \in Prompt
  /\ prompts' = prompts \cup {p} /\ shown' = shown \cup {p}
  /\ UNCHANGED <<window, registered, codes, grants, tokens, operators, logins,
                 calls, approved, redeemed, minted, replayed>>

\* authenticate_operator_requests lets the approval of a form through.
AuthenticateApproval(csrf, auth, role) ==
  /\ calls = {} /\ csrf \in {p.csrf: p \in shown}
  /\ Authenticated(role)
  /\ calls' = {[csrf |-> csrf, auth |-> auth, role |-> role]}
  /\ UNCHANGED <<window, registry, operators, logins, shown, approved,
                 redeemed, minted, replayed>>

\* A bearer that the registry does not know may be a token of a former issuer:
\* within the window it counts as control, and so as admin, for the approval.
AuthenticateLegacy(csrf, auth) ==
  /\ calls = {} /\ csrf \in {p.csrf: p \in shown}
  /\ LegacyAccepted
  /\ calls' = {[csrf |-> csrf, auth |-> auth, role |-> "admin"]}
  /\ vouched' = (vouched \/ legacy)
  /\ UNCHANGED <<registry, operators, logins, shown, approved, redeemed, minted,
                 replayed, legacy>>

\* The window is fixed once and passes.
LegacyLapses ==
  /\ legacy /\ legacy' = FALSE
  /\ UNCHANGED <<registry, operators, logins, calls, shown, approved, redeemed,
                 minted, replayed, vouched>>

\* mutant: the prompt is bound to the client alone
ClientBinding(p, auth) == p.auth.app = auth.app
\* approval_binding: the form is the one that the prompt was shown for.
BindingMatches(p, auth) == p.auth = auth

\* mutant: any operator may grant control
OperatorMayApprove(role, scope) == role \in {"operator", "admin"}
RoleAllows(role, scope) ==
  role = "admin" \/ (role = "operator" /\ scope = "morrows")

\* The prompt is spent by the approval, not by one with too small a role.
AuthorizeApprove(c) ==
  /\ c \in calls /\ calls' = calls \ {c}
  /\ IF /\ c.auth.app \in registered /\ RoleAllows(c.role, c.auth.scope)
        /\ \E p \in prompts: p.csrf = c.csrf /\ BindingMatches(p, c.auth)
     THEN LET code == Cardinality(approved) + 1 IN
          /\ prompts' = {p \in prompts: p.csrf # c.csrf}
          /\ codes' = codes \cup {[code |-> code, auth |-> c.auth]}
          /\ approved' = approved \cup
               {[code |-> code, csrf |-> c.csrf, role |-> c.role]}
     ELSE UNCHANGED <<prompts, codes, approved>>
  /\ UNCHANGED <<window, registered, grants, tokens, operators, logins, shown,
                 redeemed, minted, replayed>>

-----------------------------------------------------------------------------
(* Tokens. *)
IssuedTo(f) ==
  {[token |-> minted + 1, family |-> f, refresh |-> FALSE, used |-> FALSE],
   [token |-> minted + 2, family |-> f, refresh |-> TRUE, used |-> FALSE]}

\* mutant: a code can be redeemed until it expires
KeptCodes(c) == codes
\* A code is spent by its redemption.
CodesWithout(c) == codes \ {c}

RedeemCode(c) ==
  LET f == Cardinality(redeemed) + 1 IN
  /\ c \in codes /\ c.auth.app \in registered
  /\ f \in Family /\ minted + 2 <= NToken
  /\ codes' = CodesWithout(c)
  /\ grants' = grants \cup {[family |-> f, app |-> c.auth.app,
                             scope |-> c.auth.scope, revoked |-> FALSE]}
  /\ tokens' = tokens \cup IssuedTo(f)
  /\ redeemed' = redeemed \cup {[code |-> c.code, family |-> f]}
  /\ minted' = minted + 2
  /\ UNCHANGED <<window, registered, prompts, operators, logins, calls, shown,
                 approved, replayed>>

Revoked(f) ==
  {IF g.family = f THEN [g EXCEPT !.revoked = TRUE] ELSE g: g \in grants}

\* mutant: the error of a replay rolls back the revocation
NotRevoked(f) == grants
\* Even an error is committed: a replay revokes the whole family.
GrantsAfterReplay(f) == Revoked(f)

\* mutant: a revoked family goes on
AnyFamily(g, app) == g.app = app
RefreshAllowed(g, app) == g.app = app /\ ~g.revoked

\* mutant: a refresh token is not spent
Unspent(t) == tokens
TokensAfterUse(t) == (tokens \ {t}) \cup {[t EXCEPT !.used = TRUE]}

Refresh(app, t) ==
  /\ app \in registered /\ t \in tokens /\ t.refresh
  /\ RefreshAllowed(GrantOf(t), app)
  /\ IF t.used
     THEN /\ grants' = GrantsAfterReplay(t.family)
          /\ replayed' = replayed \cup {t.family}
          /\ UNCHANGED <<tokens, minted>>
     ELSE /\ minted + 2 <= NToken /\ minted' = minted + 2
          /\ tokens' = TokensAfterUse(t) \cup IssuedTo(t.family)
          /\ UNCHANGED <<grants, replayed>>
  /\ UNCHANGED <<window, registered, prompts, codes, operators, logins, calls,
                 shown, approved, redeemed>>

\* Any token of the client's family revokes the family, spent ones included.
Revoke(app, t) ==
  /\ t \in tokens /\ GrantOf(t).app = app
  /\ grants' = Revoked(t.family)
  /\ UNCHANGED <<window, registered, prompts, codes, tokens, operators, logins,
                 calls, shown, approved, redeemed, minted, replayed>>

\* What expires.  Spent refresh tokens stay until their family does.
Lapse ==
  /\ \/ \E p \in prompts: prompts' = prompts \ {p} /\ UNCHANGED <<codes, grants, tokens>>
     \/ \E c \in codes: codes' = codes \ {c} /\ UNCHANGED <<prompts, grants, tokens>>
     \/ \E t \in tokens: /\ ~t.refresh /\ tokens' = tokens \ {t}
                         /\ UNCHANGED <<prompts, codes, grants>>
     \/ \E g \in grants: /\ grants' = grants \ {g}
                         /\ tokens' = {t \in tokens: t.family # g.family}
                         /\ UNCHANGED <<prompts, codes>>
  /\ UNCHANGED <<window, registered, operators, logins, calls, shown, approved,
                 redeemed, minted, replayed>>

-----------------------------------------------------------------------------
(* Operators. *)
NewOperator(o) ==
  operators[o].role = "none" /\ \A n \in Operator: n < o => operators[n].role # "none"

\* Issued on the host or by an admin.
IssueOperator(role) ==
  \E o \in Operator:
    /\ NewOperator(o)
    /\ operators' = [operators EXCEPT ![o].role = role]
    /\ UNCHANGED <<window, registry, logins, calls, shown, approved, redeemed,
                   minted, replayed>>

RevokeOperator(o) ==
  /\ operators[o].role # "none"
  /\ operators' = [operators EXCEPT ![o].ended = TRUE]
  /\ UNCHANGED <<window, registry, logins, calls, shown, approved, redeemed,
                 minted, replayed>>

RequestLogin(l) ==
  /\ logins[l].state = "none"
  /\ Cardinality({m \in Login: logins[m].state = "open" /\ logins[m].credential = 0})
       < LoginLimit
  /\ logins' = [logins EXCEPT ![l].state = "open"]
  /\ UNCHANGED <<window, registry, operators, calls, shown, approved, redeemed,
                 minted, replayed>>

\* mutant: the ten minutes do not bind the approval
Requested(l) == logins[l].state # "none"
\* The code of a login is good for ten minutes.
LoginOpen(l) == logins[l].state = "open"

\* On the host.  A login that has its credential keeps it: the repeated approval
\* returns it and changes nothing.
ApproveLogin(l, role) ==
  /\ LoginOpen(l) /\ logins[l].credential = 0
  /\ \E o \in Operator:
       /\ NewOperator(o)
       /\ operators' = [operators EXCEPT ![o].role = role]
       /\ logins' = [logins EXCEPT ![l].credential = o]
  /\ UNCHANGED <<window, registry, calls, shown, approved, redeemed, minted,
                 replayed>>

LapseOperator ==
  /\ \/ \E o \in Operator: /\ ActiveOperator(o)
                           /\ operators' = [operators EXCEPT ![o].ended = TRUE]
                           /\ UNCHANGED logins
     \/ \E l \in Login: /\ logins[l].state = "open"
                        /\ logins' = [logins EXCEPT ![l].state = "lapsed"]
                        /\ UNCHANGED operators
  /\ UNCHANGED <<window, registry, calls, shown, approved, redeemed, minted,
                 replayed>>

\* What the browser is told about its login.
LoginStatus(l) ==
  CASE logins[l].state = "none" -> "none"
    [] logins[l].credential # 0 ->
         IF ActiveOperator(logins[l].credential) THEN "approved" ELSE "expired"
    [] OTHER -> IF logins[l].state = "open" THEN "pending" ELSE "expired"

CredentialsNext ==
  \/ \E a \in App: Register(a)
  \/ \E auth \in Authorization: AuthorizeGet(auth)
  \/ \E csrf \in Prompt, auth \in Authorization, role \in Role:
       AuthenticateApproval(csrf, auth, role)
  \/ \E csrf \in Prompt, auth \in Authorization: AuthenticateLegacy(csrf, auth)
  \/ LegacyLapses
  \/ \E c \in calls: AuthorizeApprove(c)
  \/ \E c \in codes: RedeemCode(c)
  \/ \E a \in App, t \in tokens: Refresh(a, t) \/ Revoke(a, t)
  \/ Lapse
  \/ \E role \in Role: IssueOperator(role)
  \/ \E o \in Operator: RevokeOperator(o)
  \/ \E l \in Login: RequestLogin(l)
  \/ \E l \in Login, role \in Role: ApproveLogin(l, role)
  \/ LapseOperator

CredentialsSpec == CredentialsInit /\ [][CredentialsNext]_authVars

-----------------------------------------------------------------------------
(* What the credentials are for. *)

\* What may be used once is: an authorization code is good for one token family,
\* whoever presents it and however often ("lock before reading so independent
\* server processes cannot redeem the same code", update_oauth), and of the
\* refresh tokens of a family at most one has not been spent, so that rotation
\* leaves no second line of succession (token, issue).
SingleUse ==
  /\ \A r, s \in redeemed: r.code = s.code => r = s
  /\ \A t, u \in tokens:
       t.family = u.family /\ t.refresh /\ u.refresh /\ ~t.used /\ ~u.used => t = u

\* "refresh-token reuse must persist revocation of the entire token family"
\* (update_oauth): once a spent token came back, the family is revoked or gone.
ReplayEndsFamily ==
  \A g \in grants: g.family \in replayed => g.revoked

\* A family that was revoked stays so until it expires, and no token is issued in
\* it any more (token, revoke).
RevokedFamilyIsDead ==
  [][\A g \in grants: g.revoked =>
       /\ \A h \in grants': h.family = g.family => h.revoked
       /\ \A t \in tokens': t.family = g.family => t \in tokens]_authVars

\* A token is good for no more than the page on which it was approved said, and
\* for control only if an admin approved it: without an admin credential, a
\* bootstrap token or a token of a former issuer that was let through within the
\* migration window nobody ever gets control (authorize_approve, token, verify).
ConsentCovers ==
  \A r \in redeemed: \A g \in grants: g.family = r.family =>
    \E a \in approved, p \in shown:
      /\ a.code = r.code /\ p.csrf = a.csrf
      /\ p.auth = [app |-> g.app, scope |-> g.scope]
      /\ g.scope = "control" =>
           /\ a.role = "admin"
           /\ Bootstrap \/ vouched \/ \E o \in Operator: operators[o].role = "admin"

\* A browser whose login was reported as expired is never let in by it later, and
\* an approved login keeps the role it was approved with (approve_operator_login:
\* "cannot extend its lifetime or increase its original role").
LoginIsFinal ==
  [][\A l \in Login:
       /\ LoginStatus(l) = "expired" => LoginStatus(l)' = "expired"
       /\ LoginStatus(l) = "approved" =>
            operators'[logins'[l].credential].role = operators[logins[l].credential].role
     ]_authVars
=============================================================================
