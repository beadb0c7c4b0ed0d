--------------------------- MODULE Authorization ---------------------------
(***************************************************************************)
(* Users, roles and grants of rbac-authz (internal/authz/{store,service,   *)
(* schema.sql}, internal/platform/jwt.go, cmd/rbac-authz/main.go): who     *)
(* writes them, how a scope is read from them, and what a session allows.  *)
(*                                                                         *)
(* Store.Scope reads a scope with up to three statements and no            *)
(* transaction, while admins grant through the API, pods that start seed   *)
(* the demo users again, and operators change rows in SQL.  A session is a *)
(* token that names the role its user had when the sign-in read the row;   *)
(* /admin/grants believes it until it expires, and checks it before it     *)
(* reads the body of the request and writes.                               *)
(*                                                                         *)
(* fleet_manager and viewer differ only in what the dashboard displays and *)
(* are both "viewer" here.                                                 *)
(***************************************************************************)
EXTENDS Naturals, Sequences

CONSTANTS
  Users, Fleets, Vins,
  Calls,      \* callers of GetUserScope, one call at a time each
  Pods,       \* rbac-authz pods
  SeedPlan,   \* the users and grants that Seed writes, statement by statement
  TTL,        \* TOKEN_TTL
  MaxTime,    \* bound: ticks of the clock
  MaxLogins,  \* bound: sign-ins
  MaxGrants,  \* bound: requests to /admin/grants
  MaxChanges, \* bound: changes by operators
  MaxFaults   \* bound: failed statements, crashes

Tags == Fleets \cup Vins
Roles == {"none", "viewer", "admin"}
Statements ==
  [type : {"user"}, user : Users, role : Roles \ {"none"}]
    \cup [type : {"grant"}, user : Users, tag : Tags]

ASSUME AuthorizationAssumption ==
  /\ SeedPlan \in Seq(Statements)
  /\ \A i, j \in DOMAIN SeedPlan :
       (SeedPlan[i].type = "user" /\ SeedPlan[j].type = "user" /\ SeedPlan[i].user = SeedPlan[j].user)
         => SeedPlan[i].role = SeedPlan[j].role
  /\ TTL \in Nat /\ MaxTime \in Nat
  /\ MaxLogins \in Nat /\ MaxGrants \in Nat /\ MaxChanges \in Nat /\ MaxFaults \in Nat

VARIABLES
  role,      \* role[u], "none" if u has no row in users
  grants,    \* grants[u]: the fleets and VINs that u has a row for
  boot,      \* boot[p]: the next statement of p's Seed; after the last, p serves
  step,      \* step[c]: "idle", "role", "fleets", "vins" or "answered"
  who,       \* who[c]: the user that c asks for
  answer,    \* answer[c]: the scope as far as it has been read
  signIns,   \* logins that have read their row and have no token yet
  tokens,    \* the sessions, also those that expired or were logged out of
  requests,  \* grants past the check of their token, not yet written
  now,
  lasting,   \* auxiliary: grants that have existed throughout the call
  seen,      \* auxiliary: grants that have existed at some time of the call
  ruled,     \* auxiliary: roles that the user has had at some time of the call
  lastAdmin, \* auxiliary: when u was last an admin
  touched,   \* auxiliary: users that operators have changed since p's Seed began
  logins, admitted, changes, faults  \* how often each of these happened

rowVars == <<role, grants>>
callVars == <<step, who, answer>>
spanVars == <<lasting, seen, ruled>>
sessionVars == <<signIns, tokens, requests, now, lastAdmin>>
boundVars == <<logins, admitted, changes, faults>>
vars == <<rowVars, boot, callVars, sessionVars, spanVars, touched, boundVars>>

Nobody == [all |-> FALSE, tags |-> {}]
Everything == [all |-> TRUE, tags |-> {}]

Init ==
  /\ role = [u \in Users |-> "none"]
  /\ grants = [u \in Users |-> {}]
  /\ boot = [p \in Pods |-> 1]
  /\ step = [c \in Calls |-> "idle"]
  /\ who \in [Calls -> Users]
  /\ answer = [c \in Calls |-> Nobody]
  /\ signIns = {}
  /\ tokens = {}
  /\ requests = {}
  /\ now = 0
  /\ lasting = [c \in Calls |-> {}]
  /\ seen = [c \in Calls |-> {}]
  /\ ruled = [c \in Calls |-> {}]
  /\ lastAdmin = [u \in Users |-> 0]
  /\ touched = [p \in Pods |-> {}]
  /\ logins = 0 /\ admitted = 0 /\ changes = 0 /\ faults = 0

Fault == faults < MaxFaults /\ faults' = faults + 1 /\ UNCHANGED <<logins, admitted, changes>>

Asking(c) == step[c] # "idle"

\* The rows change while calls are under way.
Observe ==
  /\ lasting' = [c \in Calls |-> lasting[c] \cap grants'[who[c]]]
  /\ seen' = [c \in Calls |-> IF Asking(c) THEN seen[c] \cup grants'[who[c]] ELSE {}]
  /\ ruled' = [c \in Calls |-> IF Asking(c) THEN ruled[c] \cup {role'[who[c]]} ELSE {}]

\* A call is over.
Forget(c) ==
  /\ step' = [step EXCEPT ![c] = "idle"]
  /\ answer' = [answer EXCEPT ![c] = Nobody]
  /\ lasting' = [lasting EXCEPT ![c] = {}]
  /\ seen' = [seen EXCEPT ![c] = {}]
  /\ ruled' = [ruled EXCEPT ![c] = {}]

\* users.role becomes r.
SetsRole(u, r) ==
  /\ role' = [role EXCEPT ![u] = r]
  /\ lastAdmin' = IF r = "admin" THEN [lastAdmin EXCEPT ![u] = now] ELSE lastAdmin

\* INSERT ... ON CONFLICT DO NOTHING; users(user_id) is a foreign key.
Inserts(u, t) ==
  /\ role[u] # "none"
  /\ grants' = [grants EXCEPT ![u] = @ \cup {t}]

-----------------------------------------------------------------------------
(* Operators, in SQL: the services have no way to revoke or to delete *)

Touch(u) == touched' = [p \in Pods |-> touched[p] \cup {u}]

OperatorSetsRole(u, r) ==
  /\ changes < MaxChanges /\ changes' = changes + 1
  /\ r # role[u]
  /\ SetsRole(u, r)
  \* ON DELETE CASCADE
  /\ grants' = IF r = "none" THEN [grants EXCEPT ![u] = {}] ELSE grants
  /\ Touch(u)
  /\ Observe
  /\ UNCHANGED <<boot, callVars, signIns, tokens, requests, now, logins, admitted, faults>>

Revoke(u, t) ==
  /\ changes < MaxChanges /\ changes' = changes + 1
  /\ t \in grants[u]
  /\ grants' = [grants EXCEPT ![u] = @ \ {t}]
  /\ Touch(u)
  /\ UNCHANGED <<role, boot, callVars, sessionVars, logins, admitted, faults>>
  /\ Observe

-----------------------------------------------------------------------------
(* Seed, when a pod starts *)

Serving(p) == boot[p] = Len(SeedPlan) + 1

\* Mutant: the grants are inserted before their users.
LastFirst(i) == SeedPlan[Len(SeedPlan) + 1 - i]

Statement(i) == SeedPlan[i]

\* Mutant of UpsertUser: the row is deleted and inserted anew.
ReplaceUser(u, r) ==
  SetsRole(u, r) /\ grants' = [grants EXCEPT ![u] = {}]

\* ON CONFLICT DO UPDATE: whatever role an operator has given the user is undone.
UpsertUser(u, r) == SetsRole(u, r) /\ UNCHANGED grants

SeedStatement(p) ==
  /\ ~ Serving(p)
  /\ LET s == Statement(boot[p])
     IN  \/ s.type = "user" /\ UpsertUser(s.user, s.role)
         \/ s.type = "grant" /\ Inserts(s.user, s.tag) /\ UNCHANGED <<role, lastAdmin>>
  /\ boot' = [boot EXCEPT ![p] = @ + 1]
  /\ Observe
  /\ UNCHANGED <<callVars, signIns, tokens, requests, now, touched, boundVars>>

\* The process of p is restarted.
Restarts(p) ==
  /\ boot' = [boot EXCEPT ![p] = 1]
  /\ touched' = [touched EXCEPT ![p] = {}]

\* A statement fails, here for a user that is gone: the process exits and is restarted.
SeedExits(p) ==
  /\ ~ Serving(p)
  /\ LET s == Statement(boot[p]) IN s.type = "grant" /\ role[s.user] = "none"
  /\ Restarts(p)
  /\ UNCHANGED <<rowVars, callVars, sessionVars, spanVars, boundVars>>

\* The database is down while p seeds, or p crashes.
Restart(p) ==
  /\ Fault
  /\ Restarts(p)
  /\ UNCHANGED <<rowVars, callVars, sessionVars, spanVars>>

-----------------------------------------------------------------------------
(* GetUserScope and Store.Scope *)

Ask(c, u) ==
  /\ step[c] = "idle"
  /\ \E p \in Pods : Serving(p)
  /\ step' = [step EXCEPT ![c] = "role"]
  /\ who' = [who EXCEPT ![c] = u]
  /\ answer' = [answer EXCEPT ![c] = Nobody]
  /\ lasting' = [lasting EXCEPT ![c] = grants[u]]
  /\ seen' = [seen EXCEPT ![c] = grants[u]]
  /\ ruled' = [ruled EXCEPT ![c] = {role[u]}]
  /\ UNCHANGED <<rowVars, boot, sessionVars, touched, boundVars>>

\* An unknown user sees nothing, an admin every fleet, without a second query.
ReadRole(c) ==
  /\ step[c] = "role"
  /\ answer' = [answer EXCEPT ![c] = IF role[who[c]] = "admin" THEN Everything ELSE Nobody]
  /\ step' = [step EXCEPT ![c] = IF role[who[c]] = "viewer" THEN "fleets" ELSE "answered"]
  /\ UNCHANGED <<rowVars, boot, who, sessionVars, spanVars, touched, boundVars>>

\* Mutant: WHERE user_id = $1 is missing.
FleetsOfAll(u) == UNION {grants[w] \cap Fleets : w \in Users}

FleetsOf(u) == grants[u] \cap Fleets

VinsOf(u) == grants[u] \cap Vins

ReadFleets(c) ==
  /\ step[c] = "fleets"
  /\ answer' = [answer EXCEPT ![c].tags = FleetsOf(who[c])]
  /\ step' = [step EXCEPT ![c] = "vins"]
  /\ UNCHANGED <<rowVars, boot, who, sessionVars, spanVars, touched, boundVars>>

ReadVins(c) ==
  /\ step[c] = "vins"
  /\ answer' = [answer EXCEPT ![c].tags = @ \cup VinsOf(who[c])]
  /\ step' = [step EXCEPT ![c] = "answered"]
  /\ UNCHANGED <<rowVars, boot, who, sessionVars, spanVars, touched, boundVars>>

\* A query fails: Unavailable, whatever has been read before.
ScopeFails(c) ==
  /\ step[c] \in {"role", "fleets", "vins"}
  /\ Fault
  /\ Forget(c)
  /\ UNCHANGED <<rowVars, boot, who, sessionVars, touched>>

\* The caller has got the answer.
Return(c) ==
  /\ step[c] = "answered"
  /\ Forget(c)
  /\ UNCHANGED <<rowVars, boot, who, sessionVars, touched, boundVars>>

\* CheckAccess, of a fleet f and a vehicle v, given the scope s.
Allowed(s, f, v) == s.all \/ f \in s.tags \/ v \in s.tags

-----------------------------------------------------------------------------
(* Sessions *)

\* login: Authenticate reads the row of u, with its role, and goes on to compare
\* the password.
Authenticate(u) ==
  /\ role[u] # "none"
  /\ \E p \in Pods : Serving(p)
  /\ logins < MaxLogins /\ logins' = logins + 1
  /\ signIns' = signIns \cup {[user |-> u, role |-> role[u], read |-> now]}
  /\ UNCHANGED <<rowVars, boot, callVars, tokens, requests, now, lastAdmin, spanVars, touched,
                 admitted, changes, faults>>

\* The password is right: IssueToken, with the role read before and an expiry from now.
Login(s) ==
  /\ s \in signIns
  /\ signIns' = signIns \ {s}
  /\ tokens' = tokens \cup {[user |-> s.user, role |-> s.role, read |-> s.read, issued |-> now]}
  /\ UNCHANGED <<rowVars, boot, callVars, requests, now, lastAdmin, spanVars, touched, boundVars>>

\* It is wrong, or the caller or the pod goes away.
LoginFails(s) ==
  /\ s \in signIns
  /\ signIns' = signIns \ {s}
  /\ UNCHANGED <<rowVars, boot, callVars, tokens, requests, now, lastAdmin, spanVars, touched, boundVars>>

\* Mutant: the expiry is not required.
Signed(t) == t \in tokens

\* ParseToken accepts t.
Valid(t) == t \in tokens /\ now < t.issued + TTL

\* POST /admin/grants with session t passes the middleware; its body is still to come.
Admit(t) ==
  /\ Valid(t) /\ t.role = "admin"
  /\ \E p \in Pods : Serving(p)
  /\ admitted < MaxGrants /\ admitted' = admitted + 1
  /\ requests' = requests \cup {[session |-> t, checked |-> now]}
  /\ UNCHANGED <<rowVars, boot, callVars, signIns, tokens, now, lastAdmin, spanVars, touched,
                 logins, changes, faults>>

\* The body has been decoded and the row is inserted, whatever has become of the
\* token and of the role meanwhile.
Grant(q, u, tag) ==
  /\ q \in requests
  /\ requests' = requests \ {q}
  /\ Inserts(u, tag)
  /\ UNCHANGED <<role, boot, callVars, signIns, tokens, now, lastAdmin, touched, boundVars>>
  /\ Observe

\* The body is refused, the insert fails, or the caller or the pod goes away.
GrantFails(q) ==
  /\ q \in requests
  /\ requests' = requests \ {q}
  /\ UNCHANGED <<rowVars, boot, callVars, signIns, tokens, now, lastAdmin, spanVars, touched, boundVars>>

Tick ==
  /\ now < MaxTime
  /\ now' = now + 1
  /\ lastAdmin' = [u \in Users |-> IF role[u] = "admin" THEN now + 1 ELSE lastAdmin[u]]
  /\ UNCHANGED <<rowVars, boot, callVars, signIns, tokens, requests, spanVars, touched, boundVars>>

-----------------------------------------------------------------------------
Starting(p) == SeedStatement(p) \/ SeedExits(p)

Scope(c) == ReadRole(c) \/ ReadFleets(c) \/ ReadVins(c)

Next ==
  \/ \E u \in Users, r \in Roles : OperatorSetsRole(u, r)
  \/ \E u \in Users, t \in Tags : Revoke(u, t)
  \/ \E p \in Pods : Starting(p) \/ Restart(p)
  \/ \E c \in Calls, u \in Users : Ask(c, u)
  \/ \E c \in Calls : Scope(c) \/ ScopeFails(c) \/ Return(c)
  \/ \E u \in Users : Authenticate(u)
  \/ \E s \in signIns : Login(s) \/ LoginFails(s)
  \/ \E t \in tokens : Admit(t)
  \/ \E q \in requests, u \in Users, tag \in Tags : Grant(q, u, tag)
  \/ \E q \in requests : GrantFails(q)
  \/ Tick

Spec == Init /\ [][Next]_vars

\* A pod that starts goes on, and is restarted when it exits.
Fairness == \A p \in Pods : WF_vars(Starting(p))

FairSpec == Spec /\ Fairness

-----------------------------------------------------------------------------
(* Properties *)

SignIns == [user : Users, role : Roles \ {"none"}, read : Nat]
Tokens == [user : Users, role : Roles \ {"none"}, read : Nat, issued : Nat]
Requests == [session : Tokens, checked : Nat]

\* Type invariant of the tables, the calls and the sessions.
TypeOK ==
  /\ role \in [Users -> Roles]
  /\ grants \in [Users -> SUBSET Tags]
  /\ boot \in [Pods -> 1 .. Len(SeedPlan) + 1]
  /\ step \in [Calls -> {"idle", "role", "fleets", "vins", "answered"}]
  /\ who \in [Calls -> Users]
  /\ answer \in [Calls -> [all : BOOLEAN, tags : SUBSET Tags]]
  /\ signIns \subseteq SignIns
  /\ tokens \subseteq Tokens
  /\ requests \subseteq Requests
  /\ now \in Nat
  /\ lasting \in [Calls -> SUBSET Tags]
  /\ seen \in [Calls -> SUBSET Tags]
  /\ ruled \in [Calls -> SUBSET Roles]
  /\ lastAdmin \in [Users -> Nat]
  /\ touched \in [Pods -> SUBSET Users]

(***************************************************************************)
(* A scope that is read in three statements while its rows change allows   *)
(* nothing that was not granted at some time during the call, and denies   *)
(* nothing for which one grant, or the role of an admin, lasted throughout *)
(* (store.go:63-86, service.go:36-45).  It need not be the scope of any    *)
(* single moment: access that moves from a VIN to its fleet between the    *)
(* second and the third statement is missed until the next refresh.        *)
(***************************************************************************)
ScopeIsBracketed ==
  \A c \in Calls : step[c] = "answered" =>
    \A f \in Fleets, v \in Vins :
      /\ Allowed(answer[c], f, v) => "admin" \in ruled[c] \/ {f, v} \cap seen[c] # {}
      /\ ruled[c] = {"admin"} \/ {f, v} \cap lasting[c] # {} => Allowed(answer[c], f, v)

(***************************************************************************)
(* The role in a token outlives the role in the table, but not for long.   *)
(* TOKEN_TTL alone does not bound it: the role is read before the password *)
(* is compared and the expiry is set, and the token is checked before the  *)
(* body is read and the row inserted (service.go:72-82, 103-146).  So what *)
(* may still write a grant was an admin less than TOKEN_TTL, plus the time *)
(* that its sign-in took after reading the row, plus the time that its     *)
(* request has taken since the check, ago.  The code sets no bound on      *)
(* either time but ReadTimeout for the body (cmd/rbac-authz/main.go).      *)
(***************************************************************************)
StaleAuthorityEnds ==
  \A q \in requests :
    LET signIn == q.session.issued - q.session.read
        request == now - q.checked
    IN  now < lastAdmin[q.session.user] + signIn + TTL + request

(***************************************************************************)
(* What a pod has seeded stays in place however many pods restart and seed *)
(* at the same time, whatever the API grants, until an operator changes    *)
(* that user: a pod that serves finds the roles and the grants of its plan *)
(* (store.go:118-138, 149-190).                                            *)
(***************************************************************************)
InPlace(s) ==
  /\ s.type = "user" => role[s.user] = s.role
  /\ s.type = "grant" => s.tag \in grants[s.user]

SeedStays ==
  \A p \in Pods : \A i \in 1 .. boot[p] - 1 :
    SeedPlan[i].user \in touched[p] \/ InPlace(SeedPlan[i])

\* Every pod finishes Seed in the end, on an empty database too, although several
\* pods seed at once, statements fail and operators delete users in the middle
\* (main.go:41-47, store.go:149-190).
PodsServe == <>[](\A p \in Pods : Serving(p))

\* schema.sql:28, 35: grants refer to users.
UnknownHaveNothing == \A u \in Users : role[u] = "none" => grants[u] = {}

\* What a call has read up to now lies between its brackets.
ReadOK ==
  \A c \in Calls : step[c] # "idle" =>
    /\ lasting[c] \subseteq grants[who[c]]
    /\ grants[who[c]] \subseteq seen[c]
    /\ role[who[c]] \in ruled[c]
    /\ answer[c].tags \subseteq seen[c]
    /\ answer[c].all => "admin" \in ruled[c]
    /\ step[c] \in {"role", "fleets"} => ~ answer[c].all /\ answer[c].tags = {}
    /\ step[c] \in {"fleets", "vins"} => ruled[c] # {"admin"}
    /\ step[c] = "vins" => ~ answer[c].all /\ lasting[c] \cap Fleets \subseteq answer[c].tags
    /\ step[c] = "answered" =>
         answer[c].all \/ (ruled[c] # {"admin"} /\ lasting[c] \subseteq answer[c].tags)

\* Sign-ins, tokens, requests and the table: who passed as an admin was one when the
\* sign-in read the row, and a request was admitted before its token expired.
SessionsOK ==
  /\ \A u \in Users : role[u] = "admin" => lastAdmin[u] = now
  /\ \A s \in signIns : s.read <= now /\ (s.role = "admin" => s.read <= lastAdmin[s.user])
  /\ \A t \in tokens : t.read <= t.issued /\ (t.role = "admin" => t.read <= lastAdmin[t.user])
  /\ \A q \in requests :
       /\ q.session \in tokens /\ q.session.role = "admin"
       /\ q.checked <= now /\ q.checked < q.session.issued + TTL

PastOnly == \A u \in Users : lastAdmin[u] <= now

(***************************************************************************)
(* The inductive invariant from which the three safety properties follow.  *)
(***************************************************************************)
IInv ==
  /\ TypeOK
  /\ UnknownHaveNothing
  /\ ReadOK
  /\ SessionsOK
  /\ PastOnly
  /\ SeedStays
=============================================================================
