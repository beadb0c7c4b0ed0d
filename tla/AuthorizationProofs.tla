------------------------ MODULE AuthorizationProofs ------------------------
(***************************************************************************)
(* IInv is an inductive invariant of Authorization, for any users, fleets, *)
(* vehicles, calls, pods and seeds.  Every action is one of a few kinds:   *)
(* it changes rows, it changes a call, it changes sessions, or it leaves   *)
(* alone what a part of IInv speaks of.                                    *)
(***************************************************************************)
EXTENDS Authorization, TLAPS

\* The statement that a pod which does not serve yet executes next is one of the plan.
LEMMA NextStatement ==
  ASSUME TypeOK, NEW p \in Pods, ~ Serving(p)
  PROVE  /\ boot[p] + 1 \in 1 .. Len(SeedPlan) + 1
         /\ Statement(boot[p]) \in Statements
  <1>1. Len(SeedPlan) \in Nat /\ SeedPlan \in [1 .. Len(SeedPlan) -> Statements]
    BY AuthorizationAssumption
  <1>2. boot[p] \in 1 .. Len(SeedPlan)
    BY <1>1 DEF TypeOK, Serving
  <1> QED BY <1>1, <1>2 DEF Statement

\* What a statement of Seed may do, by its type.
LEMMA StatementFields ==
  ASSUME NEW s \in Statements
  PROVE  /\ s.user \in Users
         /\ s.type = "user" => s.role \in Roles \ {"none"}
         /\ s.type = "grant" => s.tag \in Tags
  BY DEF Statements

-----------------------------------------------------------------------------
(* Types *)

\* An action that changes rows records them in the brackets of the calls.
LEMMA ObserveType ==
  ASSUME TypeOK, Observe, role' \in [Users -> Roles], grants' \in [Users -> SUBSET Tags]
  PROVE  /\ lasting' \in [Calls -> SUBSET Tags]
         /\ seen' \in [Calls -> SUBSET Tags]
         /\ ruled' \in [Calls -> SUBSET Roles]
  <1> SUFFICES ASSUME NEW c \in Calls
               PROVE  /\ lasting[c] \cap grants'[who[c]] \subseteq Tags
                      /\ seen[c] \cup grants'[who[c]] \subseteq Tags
                      /\ ruled[c] \cup {role'[who[c]]} \subseteq Roles
    BY DEF Observe
  <1> QED BY DEF TypeOK

LEMMA SetsRoleType ==
  ASSUME TypeOK, NEW u \in Users, NEW r \in Roles, SetsRole(u, r)
  PROVE  role' \in [Users -> Roles] /\ lastAdmin' \in [Users -> Nat]
  BY DEF SetsRole, TypeOK

LEMMA InsertsType ==
  ASSUME TypeOK, NEW u \in Users, NEW t \in Tags, Inserts(u, t)
  PROVE  grants' \in [Users -> SUBSET Tags]
  BY DEF Inserts, TypeOK

LEMMA TouchType ==
  ASSUME TypeOK, NEW u \in Users, Touch(u)
  PROVE  touched' \in [Pods -> SUBSET Users]
  BY DEF Touch, TypeOK

LEMMA TypeStep ==
  ASSUME TypeOK, [Next]_vars
  PROVE  TypeOK'
  <1>1. ASSUME NEW u \in Users, NEW r \in Roles, OperatorSetsRole(u, r)
        PROVE  TypeOK'
    <2>1. role' \in [Users -> Roles] /\ lastAdmin' \in [Users -> Nat]
      BY <1>1, SetsRoleType DEF OperatorSetsRole
    <2>2. grants' \in [Users -> SUBSET Tags] /\ touched' \in [Pods -> SUBSET Users]
      BY <1>1, TouchType DEF OperatorSetsRole, TypeOK
    <2> QED BY <1>1, <2>1, <2>2, ObserveType DEF OperatorSetsRole, TypeOK, callVars
  <1>2. ASSUME NEW u \in Users, NEW t \in Tags, Revoke(u, t)
        PROVE  TypeOK'
    <2>1. grants' \in [Users -> SUBSET Tags] /\ touched' \in [Pods -> SUBSET Users]
      BY <1>2, TouchType DEF Revoke, TypeOK
    <2>2. role' \in [Users -> Roles]
      BY <1>2 DEF Revoke, TypeOK
    <2> QED BY <1>2, <2>1, <2>2, ObserveType DEF Revoke, TypeOK, callVars, sessionVars
  <1>3. ASSUME NEW p \in Pods, SeedStatement(p)
        PROVE  TypeOK'
    <2> DEFINE s == Statement(boot[p])
    <2>1. boot[p] + 1 \in 1 .. Len(SeedPlan) + 1 /\ s \in Statements
      BY <1>3, NextStatement DEF SeedStatement
    <2>2. s.user \in Users /\ (s.type = "user" => s.role \in Roles) /\ (s.type = "grant" => s.tag \in Tags)
      BY <2>1, StatementFields
    <2>3. boot' \in [Pods -> 1 .. Len(SeedPlan) + 1]
      BY <1>3, <2>1 DEF SeedStatement, TypeOK
    <2>4. /\ role' \in [Users -> Roles] /\ lastAdmin' \in [Users -> Nat]
          /\ grants' \in [Users -> SUBSET Tags]
      <3>1. CASE s.type = "user" /\ UpsertUser(s.user, s.role)
        BY <2>2, <3>1, SetsRoleType DEF UpsertUser, TypeOK
      <3>2. CASE s.type = "grant" /\ Inserts(s.user, s.tag) /\ UNCHANGED <<role, lastAdmin>>
        BY <2>2, <3>2, InsertsType DEF TypeOK
      <3> QED BY <1>3, <3>1, <3>2 DEF SeedStatement
    <2> QED BY <1>3, <2>3, <2>4, ObserveType DEF SeedStatement, TypeOK, callVars
  <1>4. ASSUME NEW p \in Pods, SeedExits(p) \/ Restart(p)
        PROVE  TypeOK'
    <2>1. 1 \in 1 .. Len(SeedPlan) + 1
      <3>1. Len(SeedPlan) \in Nat
        BY AuthorizationAssumption
      <3> QED BY <3>1
    <2>2. boot' \in [Pods -> 1 .. Len(SeedPlan) + 1]
      BY <1>4, <2>1 DEF SeedExits, Restart, Restarts, TypeOK
    <2>3. touched' \in [Pods -> SUBSET Users]
      BY <1>4 DEF SeedExits, Restart, Restarts, TypeOK
    <2> QED BY <1>4, <2>2, <2>3
            DEF SeedExits, Restart, TypeOK, rowVars, callVars, sessionVars, spanVars
  <1>5. ASSUME NEW c \in Calls, NEW u \in Users, Ask(c, u)
        PROVE  TypeOK'
    BY <1>5 DEF Ask, Nobody, TypeOK, rowVars, sessionVars
  <1>6. ASSUME NEW c \in Calls, ReadRole(c)
        PROVE  TypeOK'
    BY <1>6 DEF ReadRole, Nobody, Everything, TypeOK, rowVars, sessionVars, spanVars
  <1>7. ASSUME NEW c \in Calls, ReadFleets(c) \/ ReadVins(c)
        PROVE  TypeOK'
    <2>1. FleetsOf(who[c]) \subseteq Tags /\ VinsOf(who[c]) \subseteq Tags
      BY DEF TypeOK, FleetsOf, VinsOf, Tags
    <2>2. answer' \in [Calls -> [all : BOOLEAN, tags : SUBSET Tags]]
      <3> DEFINE tags == IF ReadFleets(c) THEN FleetsOf(who[c])
                         ELSE answer[c].tags \cup VinsOf(who[c])
      <3>1. answer[c] \in [all : BOOLEAN, tags : SUBSET Tags]
        BY DEF TypeOK
      <3>2. [answer[c] EXCEPT !.tags = tags] \in [all : BOOLEAN, tags : SUBSET Tags]
        BY <2>1, <3>1
      <3>3. answer' = [answer EXCEPT ![c] = [answer[c] EXCEPT !.tags = tags]]
        BY <1>7 DEF ReadFleets, ReadVins
      <3> QED BY <3>2, <3>3 DEF TypeOK
    <2> QED BY <1>7, <2>2 DEF ReadFleets, ReadVins, TypeOK, rowVars, sessionVars, spanVars
  <1>8. ASSUME NEW c \in Calls, ScopeFails(c) \/ Return(c)
        PROVE  TypeOK'
    <2>1. Nobody \in [all : BOOLEAN, tags : SUBSET Tags]
      BY DEF Nobody
    <2>2. step' \in [Calls -> {"idle", "role", "fleets", "vins", "answered"}]
      BY <1>8 DEF ScopeFails, Return, Forget, TypeOK
    <2>3. answer' \in [Calls -> [all : BOOLEAN, tags : SUBSET Tags]]
      BY <1>8, <2>1 DEF ScopeFails, Return, Forget, TypeOK
    <2>4. /\ lasting' \in [Calls -> SUBSET Tags] /\ seen' \in [Calls -> SUBSET Tags]
          /\ ruled' \in [Calls -> SUBSET Roles]
      BY <1>8 DEF ScopeFails, Return, Forget, TypeOK
    <2> QED BY <1>8, <2>2, <2>3, <2>4 DEF ScopeFails, Return, TypeOK, rowVars, sessionVars
  <1>9. ASSUME NEW u \in Users, Authenticate(u)
        PROVE  TypeOK'
    <2>1. [user |-> u, role |-> role[u], read |-> now] \in SignIns
      BY <1>9 DEF Authenticate, TypeOK, SignIns
    <2> QED BY <1>9, <2>1 DEF Authenticate, TypeOK, rowVars, callVars, spanVars
  <1>10. ASSUME NEW s \in signIns, Login(s) \/ LoginFails(s)
         PROVE  TypeOK'
    <2>1. [user |-> s.user, role |-> s.role, read |-> s.read, issued |-> now] \in Tokens
      BY DEF TypeOK, SignIns, Tokens
    <2> QED BY <1>10, <2>1 DEF Login, LoginFails, TypeOK, rowVars, callVars, spanVars
  <1>13. ASSUME NEW t \in tokens, Admit(t)
         PROVE  TypeOK'
    <2>1. [session |-> t, checked |-> now] \in Requests
      BY DEF TypeOK, Requests
    <2> QED BY <1>13, <2>1 DEF Admit, TypeOK, rowVars, callVars, spanVars
  <1>14. ASSUME NEW q \in requests, NEW u \in Users, NEW tag \in Tags, Grant(q, u, tag)
         PROVE  TypeOK'
    <2>1. grants' \in [Users -> SUBSET Tags]
      BY <1>14, InsertsType DEF Grant
    <2>2. role' \in [Users -> Roles]
      BY <1>14 DEF Grant, TypeOK
    <2> QED BY <1>14, <2>1, <2>2, ObserveType DEF Grant, TypeOK, callVars
  <1>15. ASSUME NEW q \in requests, GrantFails(q)
         PROVE  TypeOK'
    BY <1>15 DEF GrantFails, TypeOK, rowVars, callVars, spanVars
  <1>11. CASE Tick
    BY <1>11 DEF Tick, TypeOK, rowVars, callVars, spanVars
  <1>12. CASE UNCHANGED vars
    BY <1>12 DEF vars, rowVars, callVars, sessionVars, spanVars, TypeOK
  <1> QED BY <1>1, <1>2, <1>3, <1>4, <1>5, <1>6, <1>7, <1>8, <1>9, <1>10, <1>11, <1>12,
             <1>13, <1>14, <1>15
          DEF Next, Starting, Scope

-----------------------------------------------------------------------------
(* Rows *)

\* What of rows and seeds an action leaves alone.
Untouched == UNCHANGED <<role, grants, boot, touched>>

LEMMA UntouchedSteps ==
  ASSUME [Next]_vars
  PROVE  \/ Untouched
         \/ \E u \in Users, r \in Roles : OperatorSetsRole(u, r)
         \/ \E u \in Users, t \in Tags : Revoke(u, t)
         \/ \E p \in Pods : SeedStatement(p) \/ SeedExits(p) \/ Restart(p)
         \/ \E q \in requests, u \in Users, tag \in Tags : Grant(q, u, tag)
  BY DEF Next, Starting, Scope, Untouched, Ask, ReadRole, ReadFleets, ReadVins, ScopeFails, Return,
         Authenticate, Login, LoginFails, Admit, GrantFails, Tick, vars, rowVars

LEMMA RowsStep ==
  ASSUME TypeOK, UnknownHaveNothing, [Next]_vars
  PROVE  UnknownHaveNothing'
  <1> USE DEF UnknownHaveNothing
  <1>1. ASSUME NEW u \in Users, NEW r \in Roles, OperatorSetsRole(u, r)
        PROVE  UnknownHaveNothing'
    BY <1>1 DEF OperatorSetsRole, SetsRole, TypeOK
  <1>2. ASSUME NEW u \in Users, NEW t \in Tags, Revoke(u, t)
        PROVE  UnknownHaveNothing'
    BY <1>2 DEF Revoke, TypeOK
  <1>3. ASSUME NEW p \in Pods, SeedStatement(p)
        PROVE  UnknownHaveNothing'
    <2> DEFINE s == Statement(boot[p])
    <2>1. s.user \in Users /\ (s.type = "user" => s.role \in Roles \ {"none"})
      BY <1>3, NextStatement, StatementFields DEF SeedStatement
    <2>2. CASE s.type = "user" /\ UpsertUser(s.user, s.role)
      BY <2>1, <2>2 DEF UpsertUser, SetsRole, TypeOK
    <2>3. CASE s.type = "grant" /\ Inserts(s.user, s.tag) /\ UNCHANGED <<role, lastAdmin>>
      BY <2>1, <2>3 DEF Inserts, TypeOK
    <2> QED BY <1>3, <2>2, <2>3 DEF SeedStatement
  <1>4. ASSUME NEW q \in requests, NEW u \in Users, NEW tag \in Tags, Grant(q, u, tag)
        PROVE  UnknownHaveNothing'
    BY <1>4 DEF Grant, Inserts, TypeOK
  <1>5. ASSUME NEW p \in Pods, SeedExits(p) \/ Restart(p)
        PROVE  UnknownHaveNothing'
    BY <1>5 DEF SeedExits, Restart, rowVars
  <1>6. CASE Untouched
    BY <1>6 DEF Untouched
  <1> QED BY <1>1, <1>2, <1>3, <1>4, <1>5, <1>6, UntouchedSteps

-----------------------------------------------------------------------------
(* Seeds *)

\* The plan, its statements and what a pod has executed of it.
LEMMA PlanTypes ==
  ASSUME TypeOK, NEW p \in Pods
  PROVE  /\ Len(SeedPlan) \in Nat /\ boot[p] \in 1 .. Len(SeedPlan) + 1
         /\ \A i \in 1 .. boot[p] - 1 :
              i \in DOMAIN SeedPlan /\ SeedPlan[i] \in Statements /\ SeedPlan[i].user \in Users
  <1>1. /\ Len(SeedPlan) \in Nat /\ DOMAIN SeedPlan = 1 .. Len(SeedPlan)
        /\ \A i \in DOMAIN SeedPlan : SeedPlan[i] \in Statements
    BY AuthorizationAssumption
  <1>2. boot[p] \in 1 .. Len(SeedPlan) + 1
    BY DEF TypeOK
  <1> QED BY <1>1, <1>2, StatementFields

\* Roles and grants that a statement has set are left alone by rows that grow.
LEMMA StaysInPlace ==
  ASSUME TypeOK, NEW s \in Statements, InPlace(s), role'[s.user] = role[s.user],
         grants[s.user] \subseteq grants'[s.user]
  PROVE  InPlace(s)'
  BY DEF InPlace

LEMMA SeedStep ==
  ASSUME TypeOK, SeedStays, [Next]_vars
  PROVE  SeedStays'
  <1> SUFFICES ASSUME NEW p \in Pods, NEW i \in 1 .. boot'[p] - 1, SeedPlan[i].user \notin touched'[p]
               PROVE  InPlace(SeedPlan[i])'
    BY DEF SeedStays
  <1> DEFINE s == SeedPlan[i]
  <1>0. \A j \in 1 .. boot[p] - 1 : SeedPlan[j].user \notin touched[p] => InPlace(SeedPlan[j])
    BY DEF SeedStays
  <1>1. ASSUME NEW u \in Users, Touch(u), UNCHANGED boot,
               \A w \in Users \ {u} : role'[w] = role[w] /\ grants'[w] = grants[w]
        PROVE  InPlace(s)'
    <2>1. i \in 1 .. boot[p] - 1 /\ s \in Statements /\ s.user \in Users
      BY <1>1, PlanTypes
    <2>2. touched'[p] = touched[p] \cup {u}
      BY <1>1 DEF Touch
    <2>3. s.user # u /\ InPlace(s)
      BY <1>0, <2>1, <2>2
    <2> QED BY <1>1, <2>1, <2>3, StaysInPlace
  <1>2. ASSUME NEW u \in Users, NEW r \in Roles, OperatorSetsRole(u, r)
        PROVE  InPlace(s)'
    <2>1. \A w \in Users \ {u} : role'[w] = role[w] /\ grants'[w] = grants[w]
      BY <1>2 DEF OperatorSetsRole, SetsRole, TypeOK
    <2> QED BY <1>1, <1>2, <2>1 DEF OperatorSetsRole
  <1>3. ASSUME NEW u \in Users, NEW t \in Tags, Revoke(u, t)
        PROVE  InPlace(s)'
    <2>1. \A w \in Users \ {u} : role'[w] = role[w] /\ grants'[w] = grants[w]
      BY <1>3 DEF Revoke, TypeOK
    <2> QED BY <1>1, <1>3, <2>1 DEF Revoke
  <1>4. ASSUME NEW q \in Pods, SeedStatement(q)
        PROVE  InPlace(s)'
    <2> DEFINE n == Statement(boot[q])
    <2>1. /\ boot[q] \in DOMAIN SeedPlan /\ n = SeedPlan[boot[q]] /\ n \in Statements /\ n.user \in Users
          /\ n.type = "user" => n.role \in Roles
      <3>1. Len(SeedPlan) \in Nat /\ DOMAIN SeedPlan = 1 .. Len(SeedPlan)
        BY AuthorizationAssumption
      <3>2. boot[q] \in 1 .. Len(SeedPlan)
        BY <1>4, <3>1 DEF SeedStatement, Serving, TypeOK
      <3> QED BY <1>4, <3>1, <3>2, NextStatement, StatementFields DEF SeedStatement, Statement
    <2>2. UNCHANGED touched /\ boot' = [boot EXCEPT ![q] = @ + 1]
      BY <1>4 DEF SeedStatement
    <2>4. /\ \A w \in Users \ {n.user} : role'[w] = role[w]
          /\ role'[n.user] = IF n.type = "user" THEN n.role ELSE role[n.user]
          /\ n.type = "grant" => n.tag \in grants'[n.user]
          /\ \A w \in Users : grants[w] \subseteq grants'[w]
      <3>1. CASE n.type = "user" /\ UpsertUser(n.user, n.role)
        BY <2>1, <3>1 DEF UpsertUser, SetsRole, TypeOK
      <3>2. CASE n.type = "grant" /\ Inserts(n.user, n.tag) /\ UNCHANGED <<role, lastAdmin>>
        BY <2>1, <3>2 DEF Inserts, TypeOK
      <3> QED BY <1>4, <3>1, <3>2 DEF SeedStatement
    <2>5. CASE i \in 1 .. boot[p] - 1
      <3>1. i \in DOMAIN SeedPlan /\ s \in Statements /\ s.user \in Users /\ InPlace(s)
        BY <1>0, <2>2, <2>5, PlanTypes
      <3>2. CASE role'[s.user] = role[s.user]
        BY <2>4, <3>1, <3>2, StaysInPlace
      <3>3. CASE s.user = n.user /\ n.type = "user" /\ role'[s.user] = n.role
        <4>1. s.type = "user" => s.role = n.role
          BY <2>1, <3>1, <3>3, AuthorizationAssumption
        <4> QED BY <2>4, <3>1, <3>3, <4>1 DEF InPlace
      <3> QED BY <2>4, <3>1, <3>2, <3>3
    <2>6. CASE i = boot[q] /\ p = q
      BY <2>1, <2>4, <2>6 DEF InPlace
    <2>7. i \in 1 .. boot[p] - 1 \/ (i = boot[q] /\ p = q)
      <3>1. boot[p] \in 1 .. Len(SeedPlan) + 1 /\ Len(SeedPlan) \in Nat
        BY PlanTypes
      <3>2. boot'[p] = IF p = q THEN boot[p] + 1 ELSE boot[p]
        BY <2>2 DEF TypeOK
      <3> QED BY <3>1, <3>2
    <2> QED BY <2>5, <2>6, <2>7
  <1>5. ASSUME NEW q \in Pods, SeedExits(q) \/ Restart(q)
        PROVE  InPlace(s)'
    <2>1. UNCHANGED rowVars /\ Restarts(q)
      BY <1>5 DEF SeedExits, Restart
    <2>2. p # q
      <3>1. p = q => boot'[p] = 1
        BY <2>1 DEF Restarts, TypeOK
      <3> QED BY <3>1
    <2>3. boot'[p] = boot[p] /\ touched'[p] = touched[p]
      BY <2>1, <2>2 DEF Restarts, TypeOK
    <2> QED BY <1>0, <2>1, <2>3 DEF InPlace, rowVars
  <1>6. ASSUME NEW q \in requests, NEW u \in Users, NEW tag \in Tags, Grant(q, u, tag)
        PROVE  InPlace(s)'
    <2>1. UNCHANGED <<role, boot, touched>> /\ \A w \in Users : grants[w] \subseteq grants'[w]
      BY <1>6 DEF Grant, Inserts, TypeOK
    <2>2. i \in 1 .. boot[p] - 1 /\ s \in Statements /\ s.user \in Users
      BY <2>1, PlanTypes
    <2> QED BY <1>0, <2>1, <2>2, StaysInPlace
  <1>7. CASE Untouched
    BY <1>0, <1>7 DEF Untouched, InPlace
  <1> QED BY <1>2, <1>3, <1>4, <1>5, <1>6, <1>7, UntouchedSteps

-----------------------------------------------------------------------------
(* Scopes *)

\* Rows may change under a call at any time: the brackets widen with them.
LEMMA ObserveReads ==
  ASSUME TypeOK, ReadOK, Observe, UNCHANGED callVars
  PROVE  ReadOK'
  <1> SUFFICES ASSUME NEW c \in Calls, step[c] # "idle"
               PROVE  /\ lasting'[c] \subseteq grants'[who[c]]
                      /\ grants'[who[c]] \subseteq seen'[c]
                      /\ role'[who[c]] \in ruled'[c]
                      /\ answer[c].tags \subseteq seen'[c]
                      /\ answer[c].all => "admin" \in ruled'[c]
                      /\ step[c] \in {"role", "fleets"} => ~ answer[c].all /\ answer[c].tags = {}
                      /\ step[c] \in {"fleets", "vins"} => ruled'[c] # {"admin"}
                      /\ step[c] = "vins" =>
                           ~ answer[c].all /\ lasting'[c] \cap Fleets \subseteq answer[c].tags
                      /\ step[c] = "answered" =>
                           \/ answer[c].all
                           \/ ruled'[c] # {"admin"} /\ lasting'[c] \subseteq answer[c].tags
    BY DEF ReadOK, callVars
  <1>1. lasting'[c] = lasting[c] \cap grants'[who[c]]
    BY DEF Observe
  <1>2. seen'[c] = seen[c] \cup grants'[who[c]]
    BY DEF Observe, Asking
  <1>3. ruled'[c] = ruled[c] \cup {role'[who[c]]}
    BY DEF Observe, Asking
  <1>4. ruled[c] # {"admin"} => ruled'[c] # {"admin"}
    BY <1>3 DEF ReadOK
  <1> QED BY <1>1, <1>2, <1>3, <1>4 DEF ReadOK

\* The queries of a call see the rows of their moment.
LEMMA CallReads ==
  ASSUME TypeOK, UnknownHaveNothing, ReadOK, NEW c \in Calls,
         (\E u \in Users : Ask(c, u)) \/ Scope(c) \/ ScopeFails(c) \/ Return(c)
  PROVE  ReadOK'
  <1>0. /\ rowVars' = rowVars
        /\ \A d \in Calls \ {c} :
             /\ step'[d] = step[d] /\ who'[d] = who[d] /\ answer'[d] = answer[d]
             /\ lasting'[d] = lasting[d] /\ seen'[d] = seen[d] /\ ruled'[d] = ruled[d]
    BY DEF Ask, Scope, ReadRole, ReadFleets, ReadVins, ScopeFails, Return, Forget, TypeOK, spanVars
  <1>1. ASSUME NEW u \in Users, Ask(c, u)
        PROVE  ReadOK'
    <2>1. /\ step'[c] = "role" /\ who'[c] = u /\ answer'[c] = Nobody
          /\ lasting'[c] = grants[u] /\ seen'[c] = grants[u] /\ ruled'[c] = {role[u]}
      BY <1>1 DEF Ask, TypeOK
    <2> QED BY <1>0, <2>1 DEF ReadOK, Nobody, rowVars
  <1>2. CASE ReadRole(c)
    <2> DEFINE r == role[who[c]]
    <2>1. /\ who' = who /\ UNCHANGED spanVars
          /\ step'[c] = IF r = "viewer" THEN "fleets" ELSE "answered"
          /\ answer'[c] = IF r = "admin" THEN Everything ELSE Nobody
      BY <1>2 DEF ReadRole, TypeOK
    <2>2. /\ step[c] # "idle" /\ r \in ruled[c] /\ lasting[c] \subseteq grants[who[c]]
          /\ grants[who[c]] \subseteq seen[c]
      BY <1>2 DEF ReadRole, ReadOK
    <2>3. r = "none" => lasting[c] = {}
      BY <2>2 DEF UnknownHaveNothing, TypeOK
    <2>4. r \in Roles
      BY DEF TypeOK
    <2>5. CASE r = "viewer"
      BY <1>0, <2>1, <2>2, <2>5 DEF ReadOK, Nobody, rowVars, spanVars
    <2>6. CASE r = "admin"
      BY <1>0, <2>1, <2>2, <2>6 DEF ReadOK, Everything, rowVars, spanVars
    <2>7. CASE r = "none"
      BY <1>0, <2>1, <2>2, <2>3, <2>7 DEF ReadOK, Nobody, rowVars, spanVars
    <2> QED BY <2>4, <2>5, <2>6, <2>7 DEF Roles
  <1>3. CASE ReadFleets(c)
    <2>1. /\ who' = who /\ UNCHANGED spanVars
          /\ step[c] = "fleets" /\ step'[c] = "vins"
          /\ answer'[c].all = answer[c].all
          /\ answer'[c].tags = grants[who[c]] \cap Fleets
      BY <1>3 DEF ReadFleets, FleetsOf, TypeOK
    <2> QED BY <1>0, <2>1 DEF ReadOK, rowVars, spanVars
  <1>4. CASE ReadVins(c)
    <2>1. /\ who' = who /\ UNCHANGED spanVars
          /\ step[c] = "vins" /\ step'[c] = "answered"
          /\ answer'[c].all = answer[c].all
          /\ answer'[c].tags = answer[c].tags \cup (grants[who[c]] \cap Vins)
      BY <1>4 DEF ReadVins, VinsOf, TypeOK
    <2>2. lasting[c] \subseteq Tags
      BY DEF TypeOK
    <2>3. lasting[c] \subseteq answer'[c].tags
      BY <2>1, <2>2 DEF ReadOK, Tags
    <2> QED BY <1>0, <2>1, <2>3 DEF ReadOK, rowVars, spanVars
  <1>5. CASE ScopeFails(c) \/ Return(c)
    <2>1. step'[c] = "idle"
      BY <1>5 DEF ScopeFails, Return, Forget, TypeOK
    <2> QED BY <1>0, <2>1 DEF ReadOK, rowVars
  <1> QED BY <1>1, <1>2, <1>3, <1>4, <1>5 DEF Scope

LEMMA ReadStep ==
  ASSUME TypeOK, UnknownHaveNothing, ReadOK, [Next]_vars
  PROVE  ReadOK'
  <1>1. ASSUME NEW c \in Calls,
               (\E u \in Users : Ask(c, u)) \/ Scope(c) \/ ScopeFails(c) \/ Return(c)
        PROVE  ReadOK'
    BY <1>1, CallReads
  <1>2. ASSUME \/ \E u \in Users, r \in Roles : OperatorSetsRole(u, r)
               \/ \E u \in Users, t \in Tags : Revoke(u, t)
               \/ \E p \in Pods : SeedStatement(p)
               \/ \E q \in requests, u \in Users, tag \in Tags : Grant(q, u, tag)
        PROVE  ReadOK'
    <2>1. Observe /\ UNCHANGED callVars
      BY <1>2 DEF OperatorSetsRole, Revoke, SeedStatement, Grant
    <2> QED BY <2>1, ObserveReads
  <1>3. ASSUME \/ \E p \in Pods : SeedExits(p) \/ Restart(p)
               \/ \E u \in Users : Authenticate(u)
               \/ \E s \in signIns : Login(s) \/ LoginFails(s)
               \/ \E t \in tokens : Admit(t)
               \/ \E q \in requests : GrantFails(q)
               \/ Tick
               \/ UNCHANGED vars
        PROVE  ReadOK'
    <2>1. UNCHANGED <<rowVars, callVars, spanVars>>
      BY <1>3 DEF SeedExits, Restart, Authenticate, Login, LoginFails, Admit, GrantFails, Tick, vars
    <2> QED BY <2>1 DEF ReadOK, rowVars, callVars, spanVars
  <1> QED BY <1>1, <1>2, <1>3 DEF Next, Starting

-----------------------------------------------------------------------------
(* Sessions *)

\* Time and the time at which a user was last an admin never go back, and neither
\* does what a session is measured by.
LEMMA LaterIsFine ==
  ASSUME TypeOK, SessionsOK, UNCHANGED <<signIns, tokens, requests>>,
         now' \in Nat, now <= now', lastAdmin' \in [Users -> Nat],
         \A w \in Users : lastAdmin[w] <= lastAdmin'[w] /\ (role'[w] = "admin" => lastAdmin'[w] = now')
  PROVE  SessionsOK'
  <1>0. TTL \in Nat /\ now \in Nat /\ lastAdmin \in [Users -> Nat]
    BY AuthorizationAssumption DEF TypeOK
  <1>1. ASSUME NEW s \in signIns
        PROVE  s.read <= now' /\ (s.role = "admin" => s.read <= lastAdmin'[s.user])
    <2>1. s.user \in Users /\ s.read \in Nat /\ s.read <= now /\ (s.role = "admin" => s.read <= lastAdmin[s.user])
      BY DEF TypeOK, SignIns, SessionsOK
    <2> QED BY <1>0, <2>1
  <1>2. ASSUME NEW t \in tokens
        PROVE  t.read <= t.issued /\ (t.role = "admin" => t.read <= lastAdmin'[t.user])
    <2>1. t.user \in Users /\ t.read \in Nat /\ t.read <= t.issued /\ (t.role = "admin" => t.read <= lastAdmin[t.user])
      BY DEF TypeOK, Tokens, SessionsOK
    <2> QED BY <1>0, <2>1
  <1>3. ASSUME NEW q \in requests
        PROVE  q.session \in tokens /\ q.session.role = "admin" /\ q.checked <= now'
               /\ q.checked < q.session.issued + TTL
    <2>1. /\ q.session \in tokens /\ q.session.role = "admin" /\ q.checked \in Nat /\ q.checked <= now
          /\ q.checked < q.session.issued + TTL
      BY DEF TypeOK, Requests, SessionsOK
    <2> QED BY <1>0, <2>1
  <1> QED BY <1>1, <1>2, <1>3 DEF SessionsOK

LEMMA SessionStep ==
  ASSUME TypeOK, SessionsOK, PastOnly, [Next]_vars
  PROVE  SessionsOK' /\ PastOnly'
  <1>0. TTL \in Nat /\ now \in Nat /\ lastAdmin \in [Users -> Nat]
    BY AuthorizationAssumption DEF TypeOK
  <1>1. ASSUME NEW u \in Users, NEW r \in Roles, SetsRole(u, r), UNCHANGED <<signIns, tokens, requests, now>>
        PROVE  SessionsOK' /\ PastOnly'
    <2>1. lastAdmin' \in [Users -> Nat] /\ \A w \in Users : lastAdmin[w] <= lastAdmin'[w]
      BY <1>0, <1>1 DEF SetsRole, PastOnly
    <2>2. \A w \in Users : role'[w] = "admin" => lastAdmin'[w] = now
      BY <1>1 DEF SetsRole, SessionsOK, TypeOK
    <2>3. PastOnly'
      BY <1>0, <1>1 DEF SetsRole, PastOnly
    <2> QED BY <1>0, <1>1, <2>1, <2>2, <2>3, LaterIsFine
  <1>2. ASSUME NEW u \in Users, NEW r \in Roles, OperatorSetsRole(u, r)
        PROVE  SessionsOK' /\ PastOnly'
    BY <1>1, <1>2 DEF OperatorSetsRole
  <1>3. ASSUME UNCHANGED <<role, signIns, tokens, requests, now, lastAdmin>>
        PROVE  SessionsOK' /\ PastOnly'
    BY <1>3 DEF SessionsOK, PastOnly
  <1>4. ASSUME NEW p \in Pods, SeedStatement(p)
        PROVE  SessionsOK' /\ PastOnly'
    <2> DEFINE s == Statement(boot[p])
    <2>1. s.user \in Users /\ (s.type = "user" => s.role \in Roles)
      BY <1>4, NextStatement, StatementFields DEF SeedStatement
    <2>2. CASE s.type = "user" /\ UpsertUser(s.user, s.role)
      BY <1>1, <1>4, <2>1, <2>2 DEF SeedStatement, UpsertUser
    <2>3. CASE s.type = "grant" /\ Inserts(s.user, s.tag) /\ UNCHANGED <<role, lastAdmin>>
      BY <1>3, <1>4, <2>3 DEF SeedStatement
    <2> QED BY <1>4, <2>2, <2>3 DEF SeedStatement
  <1>5. ASSUME NEW u \in Users, Authenticate(u)
        PROVE  SessionsOK' /\ PastOnly'
    <2> DEFINE new == [user |-> u, role |-> role[u], read |-> now]
    <2>1. signIns' = signIns \cup {new} /\ UNCHANGED <<role, tokens, requests, now, lastAdmin>>
      BY <1>5 DEF Authenticate, rowVars
    <2>2. new.read <= now /\ (new.role = "admin" => new.read <= lastAdmin[new.user])
      BY <1>0 DEF SessionsOK
    <2> QED BY <2>1, <2>2 DEF SessionsOK, PastOnly
  <1>6. ASSUME NEW s \in signIns, Login(s)
        PROVE  SessionsOK' /\ PastOnly'
    <2> DEFINE new == [user |-> s.user, role |-> s.role, read |-> s.read, issued |-> now]
    <2>1. /\ tokens' = tokens \cup {new} /\ signIns' = signIns \ {s}
          /\ UNCHANGED <<role, requests, now, lastAdmin>>
      BY <1>6 DEF Login, rowVars
    <2>2. new.read <= new.issued /\ (new.role = "admin" => new.read <= lastAdmin[new.user])
      BY DEF SessionsOK
    <2> QED BY <2>1, <2>2 DEF SessionsOK, PastOnly
  <1>7. ASSUME NEW t \in tokens, Admit(t)
        PROVE  SessionsOK' /\ PastOnly'
    <2> DEFINE new == [session |-> t, checked |-> now]
    <2>1. requests' = requests \cup {new} /\ UNCHANGED <<role, signIns, tokens, now, lastAdmin>>
      BY <1>7 DEF Admit, rowVars
    <2>2. /\ new.session \in tokens /\ new.session.role = "admin"
          /\ new.checked <= now /\ new.checked < new.session.issued + TTL
      BY <1>0, <1>7 DEF Admit, Valid
    <2> QED BY <2>1, <2>2 DEF SessionsOK, PastOnly
  <1>8. ASSUME \/ \E s \in signIns : LoginFails(s)
               \/ \E q \in requests, u \in Users, tag \in Tags : Grant(q, u, tag)
               \/ \E q \in requests : GrantFails(q)
        PROVE  SessionsOK' /\ PastOnly'
    <2>1. /\ signIns' \subseteq signIns /\ requests' \subseteq requests
          /\ UNCHANGED <<role, tokens, now, lastAdmin>>
      BY <1>8 DEF LoginFails, Grant, GrantFails, rowVars
    <2> QED BY <2>1 DEF SessionsOK, PastOnly
  <1>9. CASE Tick
    <2>1. /\ now' = now + 1 /\ UNCHANGED <<role, signIns, tokens, requests>>
          /\ lastAdmin' = [w \in Users |-> IF role[w] = "admin" THEN now + 1 ELSE lastAdmin[w]]
      BY <1>9 DEF Tick, rowVars
    <2>2. /\ lastAdmin' \in [Users -> Nat]
          /\ \A w \in Users : /\ lastAdmin[w] <= lastAdmin'[w] /\ lastAdmin'[w] <= now'
                             /\ role'[w] = "admin" => lastAdmin'[w] = now'
      BY <1>0, <2>1 DEF PastOnly
    <2> QED BY <1>0, <2>1, <2>2, LaterIsFine DEF PastOnly
  <1>10. ASSUME \/ \E u \in Users, t \in Tags : Revoke(u, t)
                \/ \E p \in Pods : SeedExits(p) \/ Restart(p)
                \/ \E c \in Calls, u \in Users : Ask(c, u)
                \/ \E c \in Calls : Scope(c) \/ ScopeFails(c) \/ Return(c)
                \/ UNCHANGED vars
         PROVE  SessionsOK' /\ PastOnly'
    <2>1. UNCHANGED <<role, signIns, tokens, requests, now, lastAdmin>>
      BY <1>10 DEF Revoke, SeedExits, Restart, Ask, Scope, ReadRole, ReadFleets, ReadVins,
                   ScopeFails, Return, rowVars, sessionVars, vars
    <2> QED BY <1>3, <2>1
  <1> QED BY <1>2, <1>4, <1>5, <1>6, <1>7, <1>8, <1>9, <1>10 DEF Next, Starting

\* What passed the check has an admin behind it that is no older than the sign-in,
\* the token and the request together.
LEMMA SessionsBound ==
  ASSUME TypeOK, SessionsOK
  PROVE  StaleAuthorityEnds
  <1> SUFFICES ASSUME NEW q \in requests
               PROVE  now < lastAdmin[q.session.user] + (q.session.issued - q.session.read)
                            + TTL + (now - q.checked)
    BY DEF StaleAuthorityEnds
  <1>1. /\ q.checked \in Nat /\ q.session.user \in Users
        /\ q.session.read \in Nat /\ q.session.issued \in Nat
    BY DEF TypeOK, Requests, Tokens
  <1>2. /\ q.session.read <= lastAdmin[q.session.user]
        /\ q.checked < q.session.issued + TTL
    BY DEF SessionsOK
  <1>3. TTL \in Nat /\ now \in Nat /\ lastAdmin[q.session.user] \in Nat
    BY <1>1, AuthorizationAssumption DEF TypeOK
  <1> QED BY <1>1, <1>2, <1>3

-----------------------------------------------------------------------------
(* Theorems *)

LEMMA InitOK == Init => IInv
  <1> SUFFICES ASSUME Init PROVE IInv
    OBVIOUS
  <1>1. 1 \in 1 .. Len(SeedPlan) + 1
    <2>1. Len(SeedPlan) \in Nat
      BY AuthorizationAssumption
    <2> QED BY <2>1
  <1>2. Nobody \in [all : BOOLEAN, tags : SUBSET Tags]
    BY DEF Nobody
  <1>3. TypeOK
    BY <1>1, <1>2 DEF Init, TypeOK, Roles
  <1>4. SeedStays
    BY DEF Init, SeedStays
  <1> QED BY <1>3, <1>4 DEF Init, IInv, UnknownHaveNothing, ReadOK, SessionsOK, PastOnly

\* The invariant of users, grants, calls and sessions, for any constants
\* (store.go:63-138, 149-190, service.go:66-147).
THEOREM Inductive == Spec => []IInv
  <1>1. ASSUME IInv, [Next]_vars PROVE IInv'
    <2>1. TypeOK' /\ UnknownHaveNothing' /\ ReadOK'
      BY <1>1, TypeStep, RowsStep, ReadStep DEF IInv
    <2>2. SessionsOK' /\ PastOnly'
      BY <1>1, SessionStep DEF IInv
    <2>3. SeedStays'
      BY <1>1, SeedStep DEF IInv
    <2> QED BY <2>1, <2>2, <2>3 DEF IInv
  <1> QED BY InitOK, <1>1, PTL DEF Spec

\* Scopes that are read while their rows change are right in the sense of
\* ScopeIsBracketed, however many calls and changes overlap (store.go:63-86).
THEOREM ScopesAreBracketed == Spec => []ScopeIsBracketed
  <1>1. IInv => ScopeIsBracketed
    BY DEF IInv, ReadOK, ScopeIsBracketed, Allowed
  <1> QED BY Inductive, <1>1, PTL

\* What may still write a grant was admitted for a user who was an admin less than
\* the sign-in, TOKEN_TTL and the request together took, ago (service.go:72-82,
\* 103-146, jwt.go:39-50).
THEOREM AuthorityEnds == Spec => []StaleAuthorityEnds
  <1>1. IInv => StaleAuthorityEnds
    BY SessionsBound DEF IInv
  <1> QED BY Inductive, <1>1, PTL

\* What a pod has seeded stays in place under the seeds and restarts of the others
\* and under the API, for any plan that gives a user one role (store.go:118-138,
\* 149-190).
THEOREM SeedsStay == Spec => []SeedStays
  <1>1. IInv => SeedStays
    BY DEF IInv
  <1> QED BY Inductive, <1>1, PTL
=============================================================================
