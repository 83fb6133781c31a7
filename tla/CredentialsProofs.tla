------------------------- MODULE CredentialsProofs -------------------------
(* What the OAuth registry promises, for any number of applications, prompts, *)
(* tokens and operators: nothing is used twice, a replay ends its family, and *)
(* no token is good for more than somebody with the authority approved.       *)
EXTENDS Credentials, FiniteSetTheorems, TLAPS

USE DEF window

-----------------------------------------------------------------------------
(* The inductive invariant, in parts.                                         *)
RowsOK ==
  /\ prompts \subseteq shown /\ shown \subseteq [csrf: Nat, auth: Authorization]
  /\ codes \subseteq [code: Nat, auth: Authorization]
  /\ grants \subseteq [family: Nat, app: App, scope: TokenScope, revoked: BOOLEAN]
  /\ tokens \subseteq [token: Nat, family: Nat, refresh: BOOLEAN, used: BOOLEAN]
  /\ calls \subseteq [csrf: Nat, auth: Authorization, role: Role]
  /\ approved \subseteq [code: Nat, csrf: Nat, role: Role]
  /\ redeemed \subseteq [code: Nat, family: Nat]
  /\ operators \in [Operator -> OperatorRow]
  /\ minted \in Nat

\* Codes and families are numbered by the approvals and redemptions so far, so
\* the next number is new.
Numbered ==
  /\ IsFiniteSet(approved) /\ IsFiniteSet(redeemed)
  /\ \A c \in codes \cup redeemed \cup approved: c.code \in 1 .. Cardinality(approved)
  /\ \A g \in grants \cup tokens \cup redeemed: g.family \in 1 .. Cardinality(redeemed)
  /\ replayed \subseteq 1 .. Cardinality(redeemed)

\* One row for a code and for a family; a code that can be redeemed was not; every
\* token and every grant is of a redemption.
Rows ==
  /\ \A c, d \in codes: c.code = d.code => c = d
  /\ \A c \in codes, r \in redeemed: c.code # r.code
  /\ \A g, h \in grants: g.family = h.family => g = h
  /\ \A t \in tokens: \E g \in grants: g.family = t.family
  /\ \A g \in grants: \E r \in redeemed: r.family = g.family

\* Somebody has control who was given it: by the configuration, by a credential or
\* by the former issuers while their tokens were good.
AdminKnown == Bootstrap \/ vouched \/ \E o \in Operator: operators[o].role = "admin"

\* Authority is passed on: from a prompt that was shown and a role somebody has
\* to a code, and from the code to the family of its redemption.
Granted(code, auth) ==
  \E a \in approved, p \in shown:
    /\ a.code = code /\ p.csrf = a.csrf /\ p.auth = auth
    /\ auth.scope = "control" => a.role = "admin" /\ AdminKnown

Authority ==
  /\ \A c \in calls: c.role = "admin" => AdminKnown
  /\ \A c \in codes: Granted(c.code, c.auth)
  /\ \A r \in redeemed, g \in grants: g.family = r.family =>
       Granted(r.code, [app |-> g.app, scope |-> g.scope])

CredentialsInv ==
  /\ RowsOK /\ Numbered /\ Rows
  /\ SingleUse /\ ReplayEndsFamily /\ Authority

LEMMA ConsentFromAuthority == Authority => ConsentCovers
BY DEF Authority, Granted, AdminKnown, ConsentCovers

LEMMA GrantOfToken ==
  ASSUME Rows, NEW t \in tokens
  PROVE  /\ GrantOf(t) \in grants /\ GrantOf(t).family = t.family
         /\ \A g \in grants: g.family = t.family => g = GrantOf(t)
BY DEF Rows, GrantOf

LEMMA InitInv == CredentialsInit => CredentialsInv
<1> SUFFICES ASSUME CredentialsInit PROVE CredentialsInv
  OBVIOUS
<1>1. IsFiniteSet({}) /\ Cardinality({}) = 0
  BY FS_EmptySet
<1>2. RowsOK
  BY DEF CredentialsInit, RowsOK, OperatorRow, Role
<1>3. Numbered
  BY <1>1 DEF CredentialsInit, Numbered
<1> QED BY <1>2, <1>3 DEF CredentialsInit, CredentialsInv, Rows, SingleUse,
  ReplayEndsFamily, Authority

-----------------------------------------------------------------------------
(* One lemma per kind of step.                                                *)

\* Expiry only takes rows away.
LEMMA LapseInv ==
  ASSUME CredentialsInv, Lapse
  PROVE  CredentialsInv'
<1>1. /\ prompts' \subseteq prompts /\ codes' \subseteq codes
      /\ grants' \subseteq grants /\ tokens' \subseteq tokens
  BY DEF Lapse
<1>2. UNCHANGED <<window, operators, calls, shown, approved, redeemed, minted, replayed>>
  BY DEF Lapse
<1>3. \A t \in tokens': \E g \in grants': g.family = t.family
  BY DEF Lapse, CredentialsInv, Rows
<1>4. RowsOK'
  BY <1>1, <1>2 DEF CredentialsInv, RowsOK
<1>5. Numbered'
  BY <1>1, <1>2 DEF CredentialsInv, Numbered
<1>6. Rows'
  BY <1>1, <1>2, <1>3 DEF CredentialsInv, Rows
<1>7. (SingleUse /\ ReplayEndsFamily)'
  BY <1>1, <1>2 DEF CredentialsInv, SingleUse, ReplayEndsFamily
<1>8. Authority'
  BY <1>1, <1>2 DEF CredentialsInv, Authority, Granted, AdminKnown
<1> QED BY <1>4, <1>5, <1>6, <1>7, <1>8 DEF CredentialsInv

\* Revocation marks the grants of a family and changes nothing else.
LEMMA RevokedRows ==
  ASSUME RowsOK, NEW f
  PROVE  /\ \A h \in Revoked(f): \E g \in grants:
              /\ h = IF g.family = f THEN [g EXCEPT !.revoked = TRUE] ELSE g
              /\ h.family = g.family /\ h.app = g.app /\ h.scope = g.scope
              /\ h.revoked = (g.family = f \/ g.revoked)
         /\ \A g \in grants: \E h \in Revoked(f): h.family = g.family
         /\ Revoked(f) \subseteq
              [family: Nat, app: App, scope: TokenScope, revoked: BOOLEAN]
<1> DEFINE Mark(g) == IF g.family = f THEN [g EXCEPT !.revoked = TRUE] ELSE g
           Row == [family: Nat, app: App, scope: TokenScope, revoked: BOOLEAN]
<1>1. Revoked(f) = {Mark(g): g \in grants}
  BY DEF Revoked
<1>2. \A g \in Row: /\ Mark(g) \in Row /\ Mark(g).family = g.family
                    /\ Mark(g).app = g.app /\ Mark(g).scope = g.scope
                    /\ Mark(g).revoked = (g.family = f \/ g.revoked)
  OBVIOUS
<1>3. grants \subseteq Row
  BY DEF RowsOK
<1>4. \A g \in grants: Mark(g) \in Revoked(f)
  BY <1>1
<1>5. \A h \in Revoked(f): \E g \in grants: h = Mark(g)
  BY <1>1
<1>6. \A h \in Revoked(f): \E g \in grants:
        /\ h = Mark(g)
        /\ h.family = g.family /\ h.app = g.app /\ h.scope = g.scope
        /\ h.revoked = (g.family = f \/ g.revoked)
  <2> HIDE DEF Mark, Row
  <2> QED BY <1>2, <1>3, <1>5
<1>7. /\ \A g \in grants: \E h \in Revoked(f): h.family = g.family
      /\ Revoked(f) \subseteq Row
  <2> HIDE DEF Mark, Row
  <2> QED BY <1>2, <1>3, <1>4, <1>5
<1> QED BY <1>6, <1>7

LEMMA RevokeInv ==
  ASSUME CredentialsInv, NEW f \in 1 .. Cardinality(redeemed), grants' = Revoked(f),
         replayed' \in {replayed, replayed \cup {f}},
         UNCHANGED <<window, prompts, codes, tokens, operators, calls, shown, approved,
                     redeemed, minted>>
  PROVE  CredentialsInv'
<1> USE DEF CredentialsInv
<1>1. RowsOK'
  BY RevokedRows DEF RowsOK
<1>2. Numbered'
  <2>1. \A g \in grants': g.family \in 1 .. Cardinality(redeemed)
    BY RevokedRows DEF Numbered
  <2> QED BY <2>1 DEF Numbered
<1>3. Rows'
  <2>1. \A g, h \in grants': g.family = h.family => g = h
    BY RevokedRows DEF Rows
  <2>2. \A t \in tokens: \E g \in grants': g.family = t.family
    BY RevokedRows DEF Rows
  <2>3. \A g \in grants': \E r \in redeemed: r.family = g.family
    BY RevokedRows DEF Rows
  <2> QED BY <2>1, <2>2, <2>3 DEF Rows
<1>4. SingleUse'
  BY DEF SingleUse
<1>5. ReplayEndsFamily'
  BY RevokedRows DEF ReplayEndsFamily
<1>6. Authority'
  <2>1. ASSUME NEW r \in redeemed, NEW h \in grants', h.family = r.family
        PROVE  Granted(r.code, [app |-> h.app, scope |-> h.scope])
    <3>1. PICK g \in grants: h.family = g.family /\ h.app = g.app /\ h.scope = g.scope
      BY RevokedRows
    <3> QED BY <2>1, <3>1 DEF Authority
  <2> QED BY <2>1 DEF Authority, Granted, AdminKnown
<1> QED BY <1>1, <1>2, <1>3, <1>4, <1>5, <1>6

\* What is issued to a family that is in the tables.
LEMMA IssueRows ==
  ASSUME RowsOK, NEW f \in Nat
  PROVE  /\ IssuedTo(f) \subseteq
              [token: Nat, family: Nat, refresh: BOOLEAN, used: BOOLEAN]
         /\ \A t \in IssuedTo(f): t.family = f /\ ~t.used
         /\ \A t, u \in IssuedTo(f): t.refresh /\ u.refresh => t = u
BY DEF RowsOK, IssuedTo

LEMMA RefreshInv ==
  ASSUME CredentialsInv, NEW a \in App, NEW t \in tokens, Refresh(a, t)
  PROVE  CredentialsInv'
<1> USE DEF CredentialsInv
<1>1. CASE t.used
  BY <1>1, RevokeInv DEF Refresh, GrantsAfterReplay, Numbered
<1>2. CASE ~t.used
  <2>1. /\ tokens' = TokensAfterUse(t) \cup IssuedTo(t.family)
        /\ minted' = minted + 2 /\ t.refresh
        /\ UNCHANGED <<window, prompts, codes, grants, operators, calls, shown, approved,
                       redeemed, replayed>>
    BY <1>2 DEF Refresh
  <2>2. t.family \in Nat
    BY DEF RowsOK
  <2>3. [t EXCEPT !.used = TRUE] \in
          [token: Nat, family: Nat, refresh: BOOLEAN, used: {TRUE}]
    BY DEF RowsOK
  <2>4. [t EXCEPT !.used = TRUE].family = t.family
    BY DEF RowsOK
  <2>5. \A u \in tokens': \/ u \in tokens \ {t}
                          \/ u.family = t.family /\ u.used
                          \/ u.family = t.family /\ u \in IssuedTo(t.family)
    BY <2>1, <2>2, <2>3, <2>4, IssueRows DEF TokensAfterUse
  <2>6. RowsOK'
    <3>1. tokens' \subseteq [token: Nat, family: Nat, refresh: BOOLEAN, used: BOOLEAN]
      BY <2>1, <2>2, <2>3, IssueRows DEF RowsOK, TokensAfterUse
    <3> QED BY <2>1, <3>1 DEF RowsOK
  <2>7. Numbered'
    BY <2>1, <2>5 DEF Numbered
  <2>8. Rows'
    BY <2>1, <2>5 DEF Rows
  <2>9. SingleUse'
    <3>1. ASSUME NEW u \in tokens', NEW v \in tokens', u.family = v.family,
                 u.refresh, v.refresh, ~u.used, ~v.used
          PROVE  u = v
      BY <3>1, <1>2, <2>1, <2>2, <2>5, IssueRows DEF SingleUse
    <3> QED BY <2>1, <3>1 DEF SingleUse
  <2>10. (ReplayEndsFamily /\ Authority)'
    BY <2>1 DEF ReplayEndsFamily, Authority, Granted, AdminKnown
  <2> QED BY <2>6, <2>7, <2>8, <2>9, <2>10
<1> QED BY <1>1, <1>2

LEMMA RedeemInv ==
  ASSUME CredentialsInv, NEW c \in codes, RedeemCode(c)
  PROVE  CredentialsInv'
<1> USE DEF CredentialsInv
<1> DEFINE n == Cardinality(redeemed)
           f == n + 1
           r == [code |-> c.code, family |-> f]
           g == [family |-> f, app |-> c.auth.app, scope |-> c.auth.scope,
                 revoked |-> FALSE]
<1>1. /\ codes' = codes \ {c} /\ grants' = grants \cup {g}
      /\ tokens' = tokens \cup IssuedTo(f) /\ redeemed' = redeemed \cup {r}
      /\ minted' = minted + 2
      /\ UNCHANGED <<window, prompts, operators, calls, shown, approved, replayed>>
  BY DEF RedeemCode, CodesWithout
<1>2. n \in Nat /\ f \in Nat
  BY FS_CardinalityType DEF Numbered
<1>3. IsFiniteSet(redeemed') /\ Cardinality(redeemed') = f
  <2>1. r \notin redeemed
    BY <1>2 DEF Numbered
  <2> QED BY <1>1, <2>1, FS_AddElement DEF Numbered
<1>4. c.code \in Nat /\ c.auth \in Authorization
  BY DEF RowsOK
<1>5. c.auth = [app |-> g.app, scope |-> g.scope] /\ g.app \in App /\ g.scope \in TokenScope
  BY <1>4 DEF Authorization
<1>6. RowsOK'
  <2>1. tokens' \subseteq [token: Nat, family: Nat, refresh: BOOLEAN, used: BOOLEAN]
    BY <1>1, <1>2, IssueRows DEF RowsOK
  <2>2. grants' \subseteq [family: Nat, app: App, scope: TokenScope, revoked: BOOLEAN]
    <3>1. g \in [family: Nat, app: App, scope: TokenScope, revoked: BOOLEAN]
      BY <1>2, <1>5
    <3> HIDE DEF g
    <3> QED BY <1>1, <3>1 DEF RowsOK
  <2>3. redeemed' \subseteq [code: Nat, family: Nat]
    BY <1>1, <1>2, <1>4 DEF RowsOK
  <2> QED BY <1>1, <2>1, <2>2, <2>3 DEF RowsOK
<1>7. Numbered'
  <2>1. \A i \in 1 .. n: i \in 1 .. f
    BY <1>2
  <2>2. f \in 1 .. f
    BY <1>2
  <2> HIDE DEF n, f
  <2>3. \A h \in grants' \cup tokens' \cup redeemed': h.family \in 1 .. f
    BY <1>1, <1>2, <2>1, <2>2, IssueRows DEF Numbered, n
  <2>4. \A d \in codes' \cup redeemed' \cup approved': d.code \in 1 .. Cardinality(approved)
    BY <1>1 DEF Numbered
  <2>5. replayed' \subseteq 1 .. f
    BY <1>1, <2>1 DEF Numbered, n
  <2> QED BY <1>1, <1>3, <2>3, <2>4, <2>5 DEF Numbered
<1>8. \A h \in grants \cup tokens \cup redeemed: h.family # f
  BY <1>2 DEF Numbered
<1>9. Rows'
  <2>1. \A d, e \in codes': d.code = e.code => d = e
    BY <1>1 DEF Rows
  <2>2. \A d \in codes', s \in redeemed': d.code # s.code
    BY <1>1 DEF Rows
  <2>a. g.family = f /\ r.family = f
    OBVIOUS
  <2> HIDE DEF f, g, r
  <2>3. \A h, k \in grants': h.family = k.family => h = k
    BY <1>1, <1>8, <2>a DEF Rows
  <2>4. \A t \in tokens': \E h \in grants': h.family = t.family
    BY <1>1, <1>2, <2>a, IssueRows DEF Rows
  <2>5. \A h \in grants': \E s \in redeemed': s.family = h.family
    BY <1>1, <2>a DEF Rows
  <2> QED BY <2>1, <2>2, <2>3, <2>4, <2>5 DEF Rows
<1>10. SingleUse'
  <2>1. \A s, u \in redeemed': s.code = u.code => s = u
    BY <1>1 DEF SingleUse, Rows
  <2>2. \A t, u \in tokens':
          t.family = u.family /\ t.refresh /\ u.refresh /\ ~t.used /\ ~u.used => t = u
    BY <1>1, <1>2, <1>8, IssueRows DEF SingleUse
  <2> QED BY <2>1, <2>2 DEF SingleUse
<1>11. ReplayEndsFamily'
  <2>1. f \notin replayed
    BY <1>2 DEF Numbered
  <2> QED BY <1>1, <2>1 DEF ReplayEndsFamily
<1>12. Authority'
  <2>1. ASSUME NEW s \in redeemed', NEW h \in grants', h.family = s.family
        PROVE  Granted(s.code, [app |-> h.app, scope |-> h.scope])
    <3>1. CASE s = r
      <4>1. h = g
        BY <1>1, <1>8, <2>1, <3>1
      <4> QED BY <1>5, <3>1, <4>1 DEF Authority
    <3>2. CASE s \in redeemed
      BY <1>1, <1>8, <2>1, <3>2 DEF Authority
    <3> QED BY <1>1, <3>1, <3>2
  <2> QED BY <1>1, <2>1 DEF Authority, Granted, AdminKnown
<1> QED BY <1>6, <1>7, <1>9, <1>10, <1>11, <1>12

-----------------------------------------------------------------------------
\* The approval binds the form to the prompt that was shown and to the role.
LEMMA ApproveInv ==
  ASSUME CredentialsInv, NEW c \in calls, AuthorizeApprove(c)
  PROVE  CredentialsInv'
<1> USE DEF CredentialsInv
<1>1. CASE UNCHANGED <<prompts, codes, approved>>
  <2>1. UNCHANGED <<window, grants, tokens, operators, shown, redeemed, minted, replayed>>
    BY DEF AuthorizeApprove
  <2>2. calls' \subseteq calls
    BY DEF AuthorizeApprove
  <2>3. (RowsOK /\ Numbered /\ Rows)'
    BY <1>1, <2>1, <2>2 DEF RowsOK, Numbered, Rows
  <2>4. (SingleUse /\ ReplayEndsFamily /\ Authority)'
    BY <1>1, <2>1, <2>2 DEF SingleUse, ReplayEndsFamily, Authority, Granted, AdminKnown
  <2> QED BY <2>3, <2>4
<1>2. CASE ~UNCHANGED <<prompts, codes, approved>>
  <2> PICK n: n = Cardinality(approved)
    OBVIOUS
  <2> PICK code: code = n + 1
    OBVIOUS
  <2> DEFINE d == [code |-> code, auth |-> c.auth]
             a == [code |-> code, csrf |-> c.csrf, role |-> c.role]
  <2>1. PICK p \in prompts: p.csrf = c.csrf /\ p.auth = c.auth
    BY <1>2 DEF AuthorizeApprove, BindingMatches
  <2>2. /\ prompts' \subseteq prompts /\ calls' \subseteq calls
        /\ codes' = codes \cup {d} /\ approved' = approved \cup {a}
        /\ UNCHANGED <<window, grants, tokens, operators, shown, redeemed, minted, replayed>>
        /\ RoleAllows(c.role, c.auth.scope)
    BY <1>2 DEF AuthorizeApprove
  <2>3. n \in Nat /\ code \in Nat
    BY FS_CardinalityType DEF Numbered
  <2>4. IsFiniteSet(approved') /\ Cardinality(approved') = code
    <3>1. a \notin approved
      BY <2>3 DEF Numbered
    <3> QED BY <2>2, <3>1, FS_AddElement DEF Numbered
  <2>5. RowsOK'
    BY <2>2, <2>3 DEF RowsOK
  <2>6. \A e \in codes \cup redeemed \cup approved: e.code # code
    BY <2>3 DEF Numbered
  <2>7. Numbered'
    <3>1. \A i \in 1 .. n: i \in 1 .. code
      BY <2>3
    <3>2. code \in 1 .. code
      BY <2>3
    <3>3. \A e \in codes' \cup redeemed' \cup approved': e.code \in 1 .. code
      BY <2>2, <3>1, <3>2 DEF Numbered
    <3> QED BY <2>2, <2>4, <3>3 DEF Numbered
  <2>8. Rows'
    BY <2>2, <2>6 DEF Rows
  <2>9. (SingleUse /\ ReplayEndsFamily)'
    BY <2>2 DEF SingleUse, ReplayEndsFamily
  <2>10. Authority'
    <3>1. \A x, auth: Granted(x, auth) => Granted(x, auth)'
      BY <2>2 DEF Granted, AdminKnown
    <3>2. Granted(code, c.auth)'
      <4>1. p \in shown /\ a \in approved'
        BY <2>1, <2>2 DEF RowsOK
      <4>2. c.auth.scope = "control" => a.role = "admin" /\ AdminKnown'
        BY <2>2 DEF RoleAllows, Authority, AdminKnown
      <4>3. a.code = code /\ a.csrf = p.csrf /\ p.auth = c.auth
        BY <2>1
      <4>4. p \in shown'
        BY <2>2, <4>1
      <4> HIDE DEF a
      <4> QED BY <4>1, <4>2, <4>3, <4>4 DEF Granted
    <3>3. \A e \in codes': Granted(e.code, e.auth)'
      <4>1. d.code = code /\ d.auth = c.auth
        OBVIOUS
      <4> HIDE DEF d
      <4> QED BY <2>2, <3>1, <3>2, <4>1 DEF Authority
    <3>4. \A e \in calls': e.role = "admin" => AdminKnown'
      BY <2>2 DEF Authority, AdminKnown
    <3> QED BY <2>2, <3>1, <3>3, <3>4 DEF Authority
  <2> QED BY <2>5, <2>7, <2>8, <2>9, <2>10
<1> QED BY <1>1, <1>2

\* Who is let through as admin is one by the credentials: a control token counts
\* because an admin approved it.
LEMMA AuthenticatedAdmin ==
  ASSUME CredentialsInv, Authenticated("admin")
  PROVE  AdminKnown
<1> USE DEF CredentialsInv
<1>1. ASSUME NEW t \in tokens, Verified(t), GrantOf(t).scope = "control"
      PROVE  AdminKnown
  <2>1. GrantOf(t) \in grants
    BY GrantOfToken
  <2>2. PICK r \in redeemed: r.family = GrantOf(t).family
    BY <2>1 DEF Rows
  <2>3. Granted(r.code, [app |-> GrantOf(t).app, scope |-> GrantOf(t).scope])
    BY <2>1, <2>2 DEF Authority
  <2> QED BY <1>1, <2>3 DEF Granted
<1>2. ASSUME NEW o \in Operator, operators[o].role = "admin"
      PROVE  AdminKnown
  BY <1>2 DEF AdminKnown
<1> QED BY <1>1, <1>2 DEF Authenticated, AdminKnown

\* The steps that leave codes, grants and tokens alone.
LEMMA OtherInv ==
  ASSUME CredentialsInv,
         UNCHANGED <<codes, grants, tokens, approved, redeemed, minted, replayed>>,
         prompts' \subseteq shown', shown \subseteq shown',
         shown' \subseteq [csrf: Nat, auth: Authorization],
         calls' \subseteq [csrf: Nat, auth: Authorization, role: Role],
         operators' \in [Operator -> OperatorRow],
         AdminKnown => AdminKnown',
         \A c \in calls' \ calls: c.role = "admin" => AdminKnown'
  PROVE  CredentialsInv'
<1> USE DEF CredentialsInv
<1>1. RowsOK'
  BY DEF RowsOK
<1>2. (Numbered /\ Rows /\ SingleUse /\ ReplayEndsFamily)'
  BY DEF Numbered, Rows, SingleUse, ReplayEndsFamily
<1>3. \A x, auth: Granted(x, auth) => Granted(x, auth)'
  BY DEF Granted
<1>4. Authority'
  BY <1>3 DEF Authority
<1> QED BY <1>1, <1>2, <1>4

\* A credential never loses the role it was issued with.
LEMMA OperatorSteps ==
  ASSUME CredentialsInv,
         \/ \E role \in Role: IssueOperator(role)
         \/ \E o \in Operator: RevokeOperator(o)
         \/ \E l \in Login: RequestLogin(l)
         \/ \E l \in Login, role \in Role: ApproveLogin(l, role)
         \/ LapseOperator
  PROVE  /\ operators' \in [Operator -> OperatorRow]
         /\ \A o \in Operator: operators[o].role # "none" =>
              operators'[o].role = operators[o].role
         /\ UNCHANGED <<window, registry, calls, shown, approved, redeemed, minted, replayed>>
<1> operators \in [Operator -> OperatorRow]
  BY DEF CredentialsInv, RowsOK
<1>1. ASSUME NEW role \in Role, IssueOperator(role)
      PROVE  /\ operators' \in [Operator -> OperatorRow]
             /\ \A o \in Operator: operators[o].role # "none" =>
                  operators'[o].role = operators[o].role
  BY <1>1 DEF IssueOperator, NewOperator, OperatorRow
<1>2. ASSUME NEW q \in Operator, RevokeOperator(q)
      PROVE  /\ operators' \in [Operator -> OperatorRow]
             /\ \A o \in Operator: operators[o].role # "none" =>
                  operators'[o].role = operators[o].role
  BY <1>2 DEF RevokeOperator, OperatorRow
<1>3. ASSUME NEW l \in Login, NEW role \in Role, ApproveLogin(l, role)
      PROVE  /\ operators' \in [Operator -> OperatorRow]
             /\ \A o \in Operator: operators[o].role # "none" =>
                  operators'[o].role = operators[o].role
  BY <1>3 DEF ApproveLogin, NewOperator, OperatorRow
<1>4. ASSUME LapseOperator
      PROVE  /\ operators' \in [Operator -> OperatorRow]
             /\ \A o \in Operator: operators[o].role # "none" =>
                  operators'[o].role = operators[o].role
  <2>1. CASE UNCHANGED operators
    BY <2>1
  <2>2. ASSUME NEW q \in Operator,
               operators' = [operators EXCEPT ![q].ended = TRUE]
        PROVE  /\ operators' \in [Operator -> OperatorRow]
               /\ \A o \in Operator: operators[o].role # "none" =>
                    operators'[o].role = operators[o].role
    BY <2>2 DEF OperatorRow
  <2> QED BY <1>4, <2>1, <2>2 DEF LapseOperator
<1>5. ASSUME NEW l \in Login, RequestLogin(l)
      PROVE  UNCHANGED operators
  BY <1>5 DEF RequestLogin
<1>6. UNCHANGED <<window, registry, calls, shown, approved, redeemed, minted, replayed>>
  BY DEF IssueOperator, RevokeOperator, RequestLogin, ApproveLogin, LapseOperator
<1> QED BY <1>1, <1>2, <1>3, <1>4, <1>5, <1>6

-----------------------------------------------------------------------------
LEMMA NextInv ==
  ASSUME CredentialsInv, [CredentialsNext]_authVars
  PROVE  CredentialsInv'
<1> RowsOK
  BY DEF CredentialsInv
<1>1. CASE UNCHANGED authVars
  BY <1>1, OtherInv DEF authVars, RowsOK, AdminKnown
<1>2. ASSUME NEW a \in App, Register(a)
      PROVE  CredentialsInv'
  BY <1>2, OtherInv DEF Register, RowsOK, AdminKnown
<1>3. ASSUME NEW auth \in Authorization, AuthorizeGet(auth)
      PROVE  CredentialsInv'
  <2> DEFINE p == [csrf |-> Cardinality(shown) + 1, auth |-> auth]
  <2>1. /\ p.csrf \in Prompt /\ prompts' = prompts \cup {p} /\ shown' = shown \cup {p}
        /\ UNCHANGED <<window, codes, grants, tokens, operators, calls, approved, redeemed,
                       minted, replayed>>
    BY <1>3 DEF AuthorizeGet
  <2>2. p \in [csrf: Nat, auth: Authorization]
    BY <2>1 DEF Prompt
  <2> HIDE DEF p
  <2>3. prompts' \subseteq shown' /\ shown' \subseteq [csrf: Nat, auth: Authorization]
    BY <2>1, <2>2 DEF RowsOK
  <2> QED BY <2>1, <2>3, OtherInv DEF RowsOK, AdminKnown
<1>4. ASSUME NEW csrf \in Prompt, NEW auth \in Authorization, NEW role \in Role,
             AuthenticateApproval(csrf, auth, role)
      PROVE  CredentialsInv'
  <2>1. /\ calls' = {[csrf |-> csrf, auth |-> auth, role |-> role]}
        /\ Authenticated(role)
        /\ UNCHANGED <<window, registry, operators, shown, approved, redeemed, minted, replayed>>
    BY <1>4 DEF AuthenticateApproval
  <2>2. role = "admin" => AdminKnown
    BY <2>1, AuthenticatedAdmin
  <2>3. csrf \in Nat
    BY DEF Prompt
  <2>4. calls' \subseteq [csrf: Nat, auth: Authorization, role: Role]
    BY <2>1, <2>3
  <2>5. \A c \in calls' \ calls: c.role = "admin" => AdminKnown'
    BY <2>1, <2>2 DEF AdminKnown
  <2> QED BY <2>1, <2>4, <2>5, OtherInv DEF registry, RowsOK, AdminKnown
<1>a. ASSUME NEW csrf \in Prompt, NEW auth \in Authorization,
             AuthenticateLegacy(csrf, auth)
      PROVE  CredentialsInv'
  <2>1. /\ calls' = {[csrf |-> csrf, auth |-> auth, role |-> "admin"]}
        /\ vouched'
        /\ UNCHANGED <<registry, operators, shown, approved, redeemed, minted, replayed>>
    BY <1>a DEF AuthenticateLegacy, LegacyAccepted
  <2>2. AdminKnown'
    BY <2>1 DEF AdminKnown
  <2>3. csrf \in Nat /\ "admin" \in Role
    BY DEF Prompt, Role
  <2>4. calls' \subseteq [csrf: Nat, auth: Authorization, role: Role]
    BY <2>1, <2>3
  <2> QED BY <2>1, <2>2, <2>4, OtherInv DEF registry, RowsOK
<1>b. CASE LegacyLapses
  BY <1>b, OtherInv DEF LegacyLapses, registry, RowsOK, AdminKnown
<1>5. ASSUME NEW c \in calls, AuthorizeApprove(c)
      PROVE  CredentialsInv'
  BY <1>5, ApproveInv
<1>6. ASSUME NEW c \in codes, RedeemCode(c)
      PROVE  CredentialsInv'
  BY <1>6, RedeemInv
<1>7. ASSUME NEW a \in App, NEW t \in tokens, Refresh(a, t)
      PROVE  CredentialsInv'
  BY <1>7, RefreshInv
<1>8. ASSUME NEW a \in App, NEW t \in tokens, Revoke(a, t)
      PROVE  CredentialsInv'
  <2>1. t.family \in 1 .. Cardinality(redeemed)
    BY DEF CredentialsInv, Numbered
  <2> QED BY <1>8, <2>1, RevokeInv DEF Revoke
<1>9. CASE Lapse
  BY <1>9, LapseInv
<1>10. CASE \/ \E role \in Role: IssueOperator(role)
            \/ \E o \in Operator: RevokeOperator(o)
            \/ \E l \in Login: RequestLogin(l)
            \/ \E l \in Login, role \in Role: ApproveLogin(l, role)
            \/ LapseOperator
  <2>1. /\ operators' \in [Operator -> OperatorRow]
        /\ \A o \in Operator: operators[o].role # "none" =>
             operators'[o].role = operators[o].role
        /\ UNCHANGED <<window, registry, calls, shown, approved, redeemed, minted, replayed>>
    BY <1>10, OperatorSteps
  <2>2. AdminKnown => AdminKnown'
    BY <2>1 DEF AdminKnown
  <2> QED BY <2>1, <2>2, OtherInv DEF registry, RowsOK
<1> QED BY <1>1, <1>2, <1>3, <1>4, <1>a, <1>b, <1>5, <1>6, <1>7, <1>8, <1>9, <1>10
  DEF CredentialsNext

\* A step within the registry leaves a revoked family revoked and adds no token to
\* it: a new family has a number of its own, and refreshing asks the grant.
LEMMA RevokedStaysDead ==
  ASSUME CredentialsInv, [CredentialsNext]_authVars,
         NEW g \in grants, g.revoked
  PROVE  /\ \A h \in grants': h.family = g.family => h.revoked
         /\ \A t \in tokens': t.family = g.family => t \in tokens
<1> USE DEF CredentialsInv
<1>1. CASE UNCHANGED <<grants, tokens>>
  BY <1>1 DEF Rows
<1>2. ASSUME NEW c \in codes, RedeemCode(c)
      PROVE  /\ \A h \in grants': h.family = g.family => h.revoked
             /\ \A t \in tokens': t.family = g.family => t \in tokens
  <2> DEFINE f == Cardinality(redeemed) + 1
  <2>1. g.family # f /\ f \in Nat
    BY FS_CardinalityType DEF Numbered
  <2>2. /\ tokens' = tokens \cup IssuedTo(f)
        /\ \A h \in grants': h \in grants \/ h.family = f
    BY <1>2 DEF RedeemCode
  <2> QED BY <2>1, <2>2, IssueRows DEF Rows
<1>3. ASSUME NEW a \in App, NEW t \in tokens, Refresh(a, t)
      PROVE  /\ \A h \in grants': h.family = g.family => h.revoked
             /\ \A u \in tokens': u.family = g.family => u \in tokens
  <2>1. t.family # g.family
    BY <1>3, GrantOfToken DEF Refresh, RefreshAllowed
  <2>2. CASE t.used
    BY <1>3, <2>2, RevokedRows DEF Refresh, GrantsAfterReplay, Rows
  <2>3. CASE ~t.used
    <3>1. /\ tokens' = TokensAfterUse(t) \cup IssuedTo(t.family)
          /\ UNCHANGED grants
      BY <1>3, <2>3 DEF Refresh
    <3>2. t.family \in Nat /\ [t EXCEPT !.used = TRUE].family = t.family
      BY DEF RowsOK
    <3> QED BY <2>1, <3>1, <3>2, IssueRows DEF TokensAfterUse, Rows
  <2> QED BY <2>2, <2>3
<1>4. ASSUME NEW a \in App, NEW t \in tokens, Revoke(a, t)
      PROVE  /\ \A h \in grants': h.family = g.family => h.revoked
             /\ \A u \in tokens': u.family = g.family => u \in tokens
  BY <1>4, RevokedRows DEF Revoke, Rows
<1>5. CASE Lapse
  <2>1. grants' \subseteq grants /\ tokens' \subseteq tokens
    BY <1>5 DEF Lapse
  <2> QED BY <2>1 DEF Rows
<1>6. CASE \/ \E a \in App: Register(a)
           \/ \E auth \in Authorization: AuthorizeGet(auth)
           \/ \E csrf \in Prompt, auth \in Authorization, role \in Role:
                AuthenticateApproval(csrf, auth, role)
           \/ \E csrf \in Prompt, auth \in Authorization: AuthenticateLegacy(csrf, auth)
           \/ LegacyLapses
           \/ \E c \in calls: AuthorizeApprove(c)
  BY <1>1, <1>6 DEF Register, AuthorizeGet, AuthenticateApproval, AuthenticateLegacy,
     LegacyLapses, AuthorizeApprove, registry
<1>7. CASE \/ \E role \in Role: IssueOperator(role)
           \/ \E o \in Operator: RevokeOperator(o)
           \/ \E l \in Login: RequestLogin(l)
           \/ \E l \in Login, role \in Role: ApproveLogin(l, role)
           \/ LapseOperator
  BY <1>1, <1>7, OperatorSteps DEF registry
<1>8. CASE UNCHANGED authVars
  BY <1>1, <1>8 DEF authVars
<1> QED BY <1>2, <1>3, <1>4, <1>5, <1>6, <1>7, <1>8 DEF CredentialsNext

-----------------------------------------------------------------------------
\* The parts of the registry agree in every reachable state (update_oauth: every
\* call is one transaction on the whole of it).
THEOREM RegistryInvariant == CredentialsSpec => []CredentialsInv
BY InitInv, NextInv, PTL DEF CredentialsSpec

\* Codes are redeemed once, and a family has one refresh token that is not spent
\* (token, issue).
THEOREM NothingIsUsedTwice == CredentialsSpec => []SingleUse
<1>1. CredentialsInv => SingleUse
  BY DEF CredentialsInv
<1> QED BY <1>1, RegistryInvariant, PTL

\* When a spent refresh token comes back the family is revoked, for good
\* (token: the error is committed).
THEOREM ReplayIsFinal == CredentialsSpec => []ReplayEndsFamily
<1>1. CredentialsInv => ReplayEndsFamily
  BY DEF CredentialsInv
<1> QED BY <1>1, RegistryInvariant, PTL

\* Every family stands for a page that was shown and approved, and control for an
\* admin, through any chain of control tokens that approved one another back to the
\* bootstrap token, an admin credential or a token of a former issuer that was let
\* through before its window passed (authorize_approve,
\* authenticate_operator_requests, verify_legacy).
THEOREM NoTokenBeyondConsent == CredentialsSpec => []ConsentCovers
<1>1. CredentialsInv => ConsentCovers
  BY ConsentFromAuthority DEF CredentialsInv
<1> QED BY <1>1, RegistryInvariant, PTL

\* No step brings a revoked family back or issues a token in it (token, revoke).
THEOREM RevocationIsFinal == CredentialsSpec => RevokedFamilyIsDead
<1>1. CredentialsInv /\ [CredentialsNext]_authVars =>
        [\A g \in grants: g.revoked =>
           /\ \A h \in grants': h.family = g.family => h.revoked
           /\ \A t \in tokens': t.family = g.family => t \in tokens]_authVars
  BY RevokedStaysDead
<1> QED BY <1>1, RegistryInvariant, PTL DEF CredentialsSpec, RevokedFamilyIsDead

-----------------------------------------------------------------------------
(* Logins of operators.                                                       *)

\* The credential of a login was issued.
LoginsOK ==
  /\ operators \in [Operator -> OperatorRow] /\ logins \in [Login -> LoginRow]
  /\ \A l \in Login: logins[l].credential # 0 =>
       logins[l].state # "none" /\ operators[logins[l].credential].role # "none"

\* Operators keep the role they were issued with, and what has ended stays so.
LoginStep ==
  /\ \A o \in Operator: operators[o].role # "none" =>
       /\ operators'[o].role = operators[o].role
       /\ ~ActiveOperator(o) => ~ActiveOperator(o)'
  /\ \A l \in Login:
       /\ logins[l].credential # 0 => logins'[l].credential = logins[l].credential
       /\ logins[l].state = "lapsed" => logins'[l] = logins[l]
       /\ logins[l].state = "open" => logins'[l].state # "none"

LEMMA LoginsStart == CredentialsInit => LoginsOK
BY DEF CredentialsInit, LoginsOK, OperatorRow, LoginRow

LEMMA LoginSteps ==
  ASSUME LoginsOK, [CredentialsNext]_authVars
  PROVE  LoginsOK' /\ LoginStep
<1> USE DEF LoginsOK
<1>1. ASSUME NEW role \in Role, IssueOperator(role)
      PROVE  LoginsOK' /\ LoginStep
  <2>1. PICK o \in Operator:
          NewOperator(o) /\ operators' = [operators EXCEPT ![o].role = role]
    BY <1>1 DEF IssueOperator
  <2>2. logins' = logins /\ operators[o].role = "none" /\ role # "none"
    BY <1>1, <2>1 DEF IssueOperator, NewOperator, Role
  <2>3. \A p \in Operator: p # o => operators'[p] = operators[p]
    BY <2>1
  <2>4. operators' \in [Operator -> OperatorRow] /\ operators'[o].role = role
    BY <2>1 DEF OperatorRow
  <2>5. \A p \in Operator: operators[p].role # "none" => operators'[p] = operators[p]
    BY <2>2, <2>3
  <2>6. \A l \in Login: logins[l].credential \in Operator \cup {0}
    BY DEF LoginRow
  <2> QED BY <2>2, <2>4, <2>5, <2>6 DEF LoginStep, ActiveOperator
<1>2. ASSUME NEW o \in Operator, RevokeOperator(o)
      PROVE  LoginsOK' /\ LoginStep
  <2>1. logins' = logins /\ operators' = [operators EXCEPT ![o].ended = TRUE]
    BY <1>2 DEF RevokeOperator
  <2>2. operators' \in [Operator -> OperatorRow]
    BY <2>1 DEF OperatorRow
  <2>3. \A p \in Operator: /\ operators'[p].role = operators[p].role
                            /\ operators[p].ended => operators'[p].ended
    BY <2>1 DEF OperatorRow
  <2>4. \A l \in Login: logins[l].credential \in Operator \cup {0}
    BY DEF LoginRow
  <2> QED BY <2>1, <2>2, <2>3, <2>4 DEF LoginStep, ActiveOperator
<1>3. ASSUME NEW l \in Login, RequestLogin(l)
      PROVE  LoginsOK' /\ LoginStep
  <2>1. /\ operators' = operators /\ logins[l].state = "none"
        /\ logins' = [logins EXCEPT ![l].state = "open"]
    BY <1>3 DEF RequestLogin
  <2>2. logins' \in [Login -> LoginRow]
    BY <2>1 DEF LoginRow
  <2>3. \A m \in Login: /\ logins'[m].credential = logins[m].credential
                         /\ m # l => logins'[m] = logins[m]
    BY <2>1 DEF LoginRow
  <2> QED BY <2>1, <2>2, <2>3 DEF LoginStep, ActiveOperator
<1>4. ASSUME NEW l \in Login, NEW role \in Role, ApproveLogin(l, role)
      PROVE  LoginsOK' /\ LoginStep
  <2>1. logins[l].state = "open" /\ logins[l].credential = 0
    BY <1>4 DEF ApproveLogin, LoginOpen
  <2>2. PICK o \in Operator:
          /\ NewOperator(o) /\ operators' = [operators EXCEPT ![o].role = role]
          /\ logins' = [logins EXCEPT ![l].credential = o]
    BY <1>4 DEF ApproveLogin
  <2>3. operators[o].role = "none" /\ role # "none"
    BY <2>2 DEF NewOperator, Role
  <2>4. \A p \in Operator: operators[p].role # "none" => operators'[p] = operators[p]
    BY <2>2, <2>3
  <2>5. operators' \in [Operator -> OperatorRow] /\ operators'[o].role = role
    BY <2>2 DEF OperatorRow
  <2>6. /\ logins' \in [Login -> LoginRow]
        /\ logins'[l].credential = o /\ logins'[l].state = "open"
        /\ \A m \in Login: m # l => logins'[m] = logins[m]
    BY <2>1, <2>2 DEF LoginRow
  <2>7. \A m \in Login: logins[m].credential \in Operator \cup {0}
    BY DEF LoginRow
  <2>8. LoginsOK'
    <3>1. ASSUME NEW m \in Login, logins'[m].credential # 0
          PROVE  logins'[m].state # "none"
                 /\ operators'[logins'[m].credential].role # "none"
      <4>1. CASE m = l
        BY <2>3, <2>5, <2>6, <4>1
      <4>2. CASE m # l
        BY <2>4, <2>6, <2>7, <3>1, <4>2
      <4> QED BY <4>1, <4>2
    <3> QED BY <2>5, <2>6, <3>1
  <2>9. LoginStep
    <3>1. \A p \in Operator: operators[p].role # "none" =>
            /\ operators'[p].role = operators[p].role
            /\ ~ActiveOperator(p) => ~ActiveOperator(p)'
      BY <2>4 DEF ActiveOperator
    <3>2. \A m \in Login:
            /\ logins[m].credential # 0 => logins'[m].credential = logins[m].credential
            /\ logins[m].state = "lapsed" => logins'[m] = logins[m]
            /\ logins[m].state = "open" => logins'[m].state # "none"
      BY <2>1, <2>6
    <3> QED BY <3>1, <3>2 DEF LoginStep
  <2> QED BY <2>8, <2>9
<1>5. ASSUME LapseOperator
      PROVE  LoginsOK' /\ LoginStep
  <2>1. ASSUME NEW o \in Operator, logins' = logins,
               operators' = [operators EXCEPT ![o].ended = TRUE]
        PROVE  LoginsOK' /\ LoginStep
    <3>1. operators' \in [Operator -> OperatorRow]
      BY <2>1 DEF OperatorRow
    <3>2. \A p \in Operator: /\ operators'[p].role = operators[p].role
                              /\ operators[p].ended => operators'[p].ended
      BY <2>1 DEF OperatorRow
    <3>3. \A l \in Login: logins[l].credential \in Operator \cup {0}
      BY DEF LoginRow
    <3> QED BY <2>1, <3>1, <3>2, <3>3 DEF LoginStep, ActiveOperator
  <2>2. ASSUME NEW l \in Login, operators' = operators, logins[l].state = "open",
               logins' = [logins EXCEPT ![l].state = "lapsed"]
        PROVE  LoginsOK' /\ LoginStep
    <3>1. logins' \in [Login -> LoginRow]
      BY <2>2 DEF LoginRow
    <3>2. \A m \in Login: /\ logins'[m].credential = logins[m].credential
                           /\ m # l => logins'[m] = logins[m]
      BY <2>2 DEF LoginRow
    <3>3. logins'[l].state = "lapsed"
      BY <2>2 DEF LoginRow
    <3> QED BY <2>2, <3>1, <3>2, <3>3 DEF LoginStep, ActiveOperator
  <2> QED BY <1>5, <2>1, <2>2 DEF LapseOperator
<1>6. CASE operators' = operators /\ logins' = logins
  BY <1>6 DEF LoginStep, ActiveOperator
<1>7. CASE UNCHANGED authVars
  BY <1>6, <1>7 DEF authVars
<1>8. CASE CredentialsNext
  BY <1>1, <1>2, <1>3, <1>4, <1>5, <1>6, <1>8 DEF CredentialsNext, Register,
     AuthorizeGet, AuthenticateApproval, AuthenticateLegacy, LegacyLapses,
     AuthorizeApprove, RedeemCode, Refresh, Revoke, Lapse
<1> QED BY <1>7, <1>8

LEMMA LoginStaysFinal ==
  ASSUME LoginsOK, LoginStep, LoginsOK', NEW l \in Login
  PROVE  /\ LoginStatus(l) = "expired" => LoginStatus(l)' = "expired"
         /\ LoginStatus(l) = "approved" =>
              operators'[logins'[l].credential].role = operators[logins[l].credential].role
<1>1. /\ logins[l].state \in {"none", "open", "lapsed"}
      /\ logins[l].credential \in Operator \cup {0}
      /\ logins'[l].state \in {"none", "open", "lapsed"}
      /\ logins'[l].credential \in Operator \cup {0}
  BY DEF LoginsOK, LoginRow
<1>2. CASE logins[l].state = "none"
  <2>1. logins[l].credential = 0
    BY <1>2 DEF LoginsOK
  <2> QED BY <1>2, <2>1 DEF LoginStatus
<1>3. CASE logins[l].state # "none" /\ logins[l].credential = 0
  <2>1. LoginStatus(l) = IF logins[l].state = "open" THEN "pending" ELSE "expired"
    BY <1>3 DEF LoginStatus
  <2>2. logins[l].state = "lapsed" => LoginStatus(l)' = LoginStatus(l)
    BY <1>3, <2>1 DEF LoginStep, LoginStatus
  <2> QED BY <1>1, <1>3, <2>1, <2>2
<1>4. CASE logins[l].state # "none" /\ logins[l].credential # 0
  <2>1. PICK o \in Operator: o = logins[l].credential
    BY <1>1, <1>4
  <2>2. /\ logins'[l].credential = o /\ logins'[l].state # "none"
        /\ operators'[o].role = operators[o].role
        /\ ~ActiveOperator(o) => ~ActiveOperator(o)'
    BY <1>1, <1>4, <2>1 DEF LoginsOK, LoginStep
  <2>3. LoginStatus(l) = IF ActiveOperator(o) THEN "approved" ELSE "expired"
    BY <1>4, <2>1 DEF LoginStatus
  <2>4. LoginStatus(l)' = IF ActiveOperator(o)' THEN "approved" ELSE "expired"
    BY <1>4, <2>1, <2>2 DEF LoginStatus, ActiveOperator
  <2> QED BY <2>1, <2>2, <2>3, <2>4
<1> QED BY <1>2, <1>3, <1>4

\* A login that was reported as expired never lets the browser in, and one that was
\* approved keeps its role (approve_operator_login, operator_login_status).
THEOREM LoginsAreFinal == CredentialsSpec => LoginIsFinal
<1>1. CredentialsInit => LoginsOK
  BY LoginsStart
<1>2. LoginsOK /\ [CredentialsNext]_authVars => LoginsOK'
  BY LoginSteps
<1>3. LoginsOK /\ [CredentialsNext]_authVars =>
        [\A l \in Login:
           /\ LoginStatus(l) = "expired" => LoginStatus(l)' = "expired"
           /\ LoginStatus(l) = "approved" =>
                operators'[logins'[l].credential].role = operators[logins[l].credential].role
        ]_authVars
  BY LoginSteps, LoginStaysFinal
<1> QED BY <1>1, <1>2, <1>3, PTL DEF CredentialsSpec, LoginIsFinal
=============================================================================
