-------------------------------- MODULE Users --------------------------------
(***************************************************************************)
(* The users of one organization: UsersService, AuthService, JwtStrategy,  *)
(* the role guard and the provisioning of the operator bridge's machine    *)
(* identity.                                                               *)
(*                                                                         *)
(* A request is authorised from its token first and runs later.  update    *)
(* and softDelete lock the organization row, read and check, then write;   *)
(* login, changeOwnPassword and provision read first and act later without *)
(* a lock.  Names, e-mails and hashes are left out: a user is its e-mail,  *)
(* and a password is a value of a small set.                               *)
(***************************************************************************)
EXTENDS Absent, Naturals

CONSTANTS
  UserIds,      \* e-mail addresses, the rows of which may exist
  bridge,       \* the address of the machine identity, one of them
  owners,       \* the owners the organization starts with
  Passwords,
  Requests,     \* concurrent requests
  MaxVersion,   \* bound on tokenVersion
  MaxRequests  \* bound on requests

VARIABLES
  user,    \* the row of each address
  tokens,  \* issued tokens, with the state of the user they were issued from
  lock,    \* the request that holds the organization row, or ABSENT
  epoch,   \* per user: suspensions and deletions so far
  req,     \* each request
  started  \* requests so far

usersVars == <<user, tokens, lock, epoch, req, started>>

\* The organization starts with an owner; ABSENT is no request.
ASSUME UsersAssumption ==
  /\ owners \cap UserIds # {} /\ bridge \in UserIds
  /\ ABSENT \notin Requests
  /\ MaxVersion \in Nat /\ MaxRequests \in Nat

\* MEMBER stands for VIEWER too: neither may call what is modelled here.
Role == {"OWNER", "ADMIN", "MEMBER"}
Status == {"ACTIVE", "INVITED", "SUSPENDED", "DISABLED"}

NoUser ==
  [exists |-> FALSE, role |-> "MEMBER", status |-> "DISABLED", deleted |-> FALSE,
   machine |-> FALSE, version |-> 0, password |-> ABSENT]
NoRequest ==
  [pc |-> "idle", op |-> ABSENT, actor |-> ABSENT, role |-> ABSENT, target |-> ABSENT,
   newRole |-> ABSENT, newStatus |-> ABSENT, row |-> NoUser, epoch |-> 0]

UsersInit ==
  /\ user \in [UserIds -> {NoUser} \cup
                 [exists : {TRUE}, role : {"OWNER"}, status : {"ACTIVE"}, deleted : {FALSE},
                  machine : {FALSE}, version : {0}, password : Passwords]]
  /\ \A u \in UserIds : user[u].exists <=> u \in owners
  /\ tokens = {}
  /\ lock = ABSENT
  /\ epoch = [u \in UserIds |-> 0]
  /\ req = [c \in Requests |-> NoRequest]
  /\ started = 0

-----------------------------------------------------------------------------
Set(c, local) == req' = [req EXCEPT ![c] = local]
End(c) == Set(c, NoRequest)
Start == started < MaxRequests /\ started' = started + 1

(* Tokens.                                                                 *)

\* issueTokenFor
issueTokenFor(u, row, e) ==
  [sub |-> u, role |-> row.role, version |-> row.version, password |-> row.password, epoch |-> e]

\* JwtStrategy.validate
validate(t) ==
  /\ user[t.sub].exists
  /\ user[t.sub].status = "ACTIVE"
  /\ t.version = user[t.sub].version

\* login reads the user and compares the password, and issues the token later.
Login(c, u) ==
  /\ req[c].pc = "idle" /\ Start
  /\ user[u].exists /\ user[u].status = "ACTIVE" /\ user[u].password # ABSENT
  /\ Set(c, [NoRequest EXCEPT !.pc = "issue", !.op = "login", !.target = u, !.row = user[u],
                              !.epoch = epoch[u]])
  /\ UNCHANGED <<user, tokens, lock, epoch>>

LoginIssues(c) ==
  /\ req[c].pc = "issue" /\ req[c].op = "login"
  /\ tokens' = tokens \cup {issueTokenFor(req[c].target, req[c].row, req[c].epoch)}
  /\ End(c)
  /\ UNCHANGED <<user, lock, epoch, started>>

\* RolesGuard: the role each operation requires.
hasRole(u, op) ==
  op \in {"update", "softDelete", "create", "provision"} => user[u].role \in {"OWNER", "ADMIN"}

\* ScopedMachineIdentityGuard: a machine identity may call none of them.
mayCall(u, op) == ~user[u].machine /\ hasRole(u, op)

\* JwtAuthGuard and the guards after it: the request keeps the role it had then.
Authorize(c, t) ==
  /\ req[c].pc = "idle" /\ Start /\ validate(t)
  /\ \E op \in {"update", "softDelete", "create", "changeOwnPassword", "provision"} :
       /\ mayCall(t.sub, op)
       /\ \E u \in UserIds, r \in Role \cup {ABSENT}, s \in {"ACTIVE", "SUSPENDED", ABSENT} :
            /\ op # "update" => r = ABSENT /\ s = ABSENT
            /\ op = "changeOwnPassword" => u = t.sub
            /\ op = "softDelete" => u # t.sub
            /\ op = "provision" => u = bridge
            /\ Set(c, [NoRequest EXCEPT !.pc = "begin", !.op = op, !.actor = t.sub,
                                        !.role = user[t.sub].role, !.target = u,
                                        !.newRole = r, !.newStatus = s])
  /\ UNCHANGED <<user, tokens, lock, epoch>>

(* update and softDelete.                                                  *)

Locking == {"update", "softDelete"}

\* Mutant: the row of the organization is read without FOR UPDATE.
LockOrganizationUnlocked(c) ==
  /\ req[c].pc = "begin" /\ req[c].op \in Locking
  /\ Set(c, [req[c] EXCEPT !.pc = "locked"])
  /\ UNCHANGED <<user, tokens, lock, epoch, started>>

LockOrganization(c) ==
  /\ req[c].pc = "begin" /\ req[c].op \in Locking
  /\ lock = ABSENT /\ lock' = c
  /\ Set(c, [req[c] EXCEPT !.pc = "locked"])
  /\ UNCHANGED <<user, tokens, epoch, started>>

\* An owner that counts.
isActiveOwner(u) ==
  user[u].exists /\ user[u].role = "OWNER" /\ user[u].status = "ACTIVE" /\ ~user[u].deleted

losesActiveOwnerStatus(q, row) ==
  /\ row.role = "OWNER" /\ row.status = "ACTIVE"
  /\ \/ q.op = "softDelete"
     \/ q.newRole # ABSENT /\ q.newRole # "OWNER"
     \/ q.newStatus # ABSENT /\ q.newStatus # "ACTIVE"

\* The checks under the lock, on the row as it is read.
permitted(q) ==
  LET row == user[q.target] IN
  /\ row.exists
  /\ q.role = "OWNER" \/ q.newRole = ABSENT \/ (q.newRole = "OWNER" <=> row.role = "OWNER")
  /\ losesActiveOwnerStatus(q, row) => \E u \in UserIds \ {q.target} : isActiveOwner(u)

Check(c) ==
  /\ req[c].pc = "locked"
  /\ IF permitted(req[c])
     THEN Set(c, [req[c] EXCEPT !.pc = "write", !.row = user[req[c].target]]) /\ UNCHANGED lock
     ELSE End(c) /\ lock' = ABSENT
  /\ UNCHANGED <<user, tokens, epoch, started>>

suspends(q, row) == q.newStatus = "SUSPENDED" /\ row.status # "SUSPENDED"

\* Mutant: only a change of role increments tokenVersion.
bumpsOnRole(q) == q.newRole # ABSENT /\ q.newRole # q.row.role

shouldBumpTokenVersion(q) == (q.newRole # ABSENT /\ q.newRole # q.row.role) \/ suspends(q, q.row)

\* update: fields that are not given keep their value.
updated(q, row) ==
  [row EXCEPT
     !.role = IF q.newRole = ABSENT THEN @ ELSE q.newRole,
     !.status = IF q.newStatus = ABSENT THEN @ ELSE q.newStatus,
     !.version = @ + IF shouldBumpTokenVersion(q) THEN 1 ELSE 0]

softDeleted(row) == [row EXCEPT !.status = "DISABLED", !.deleted = TRUE, !.version = @ + 1]

written(q, row) == IF q.op = "softDelete" THEN softDeleted(row) ELSE updated(q, row)

Write(c) ==
  LET q == req[c] IN
  /\ q.pc = "write"
  /\ written(q, user[q.target]).version \leq MaxVersion
  /\ user' = [user EXCEPT ![q.target] = written(q, @)]
  /\ epoch' = [epoch EXCEPT ![q.target] = IF q.op = "softDelete" \/ suspends(q, q.row) THEN @ + 1 ELSE @]
  /\ lock' = ABSENT
  /\ End(c)
  /\ UNCHANGED <<tokens, started>>

(* create, changeOwnPassword and provision.                                *)

\* @@unique([organizationId, email]): a second user with the address is refused.
Create(c) ==
  LET u == req[c].target IN
  /\ req[c].pc = "begin" /\ req[c].op = "create"
  /\ IF user[u].exists THEN UNCHANGED user
     ELSE \E r \in Role, s \in Status :
            user' = [user EXCEPT ![u] = [NoUser EXCEPT !.exists = TRUE, !.role = r, !.status = s]]
  /\ End(c)
  /\ UNCHANGED <<tokens, lock, epoch, started>>

\* The current password is compared with the row as read.
ComparePassword(c) ==
  LET u == req[c].target IN
  /\ req[c].pc = "begin" /\ req[c].op = "changeOwnPassword"
  /\ IF user[u].password = ABSENT THEN End(c)
     ELSE \/ Set(c, [req[c] EXCEPT !.pc = "hash"])
          \/ End(c)  \* another password was given
  /\ UNCHANGED <<user, tokens, lock, epoch, started>>

\* The token that replaces the caller's is issued from the updated row.
freshToken(u, row) == issueTokenFor(u, row, epoch[u])

ChangePassword(c) ==
  LET u == req[c].target IN
  /\ req[c].pc = "hash"
  /\ user[u].version < MaxVersion
  /\ \E p \in Passwords :
       LET row == [user[u] EXCEPT !.password = p, !.version = @ + 1] IN
       /\ user' = [user EXCEPT ![u] = row]
       /\ tokens' = tokens \cup {freshToken(u, row)}
  /\ End(c)
  /\ UNCHANGED <<lock, epoch, started>>

\* The approver is read again in the transaction; an identity that exists must be
\* canonical, and otherwise nothing is written.
Provision(c) ==
  LET a == user[req[c].actor] IN
  /\ req[c].pc = "begin" /\ req[c].op = "provision"
  /\ IF /\ a.exists /\ a.status = "ACTIVE" /\ ~a.deleted /\ ~a.machine /\ a.role \in {"OWNER", "ADMIN"}
        /\ ~user[bridge].exists
     THEN user' = [user EXCEPT ![bridge] =
                     [NoUser EXCEPT !.exists = TRUE, !.status = "ACTIVE", !.machine = TRUE]]
     ELSE UNCHANGED user
  /\ End(c)
  /\ UNCHANGED <<tokens, lock, epoch, started>>

UsersNext ==
  \E c \in Requests :
    \/ \E u \in UserIds : Login(c, u)
    \/ \E t \in tokens : Authorize(c, t)
    \/ LoginIssues(c) \/ LockOrganization(c) \/ Check(c) \/ Write(c)
    \/ Create(c) \/ ComparePassword(c) \/ ChangePassword(c) \/ Provision(c)

UsersSpec == UsersInit /\ [][UsersNext]_usersVars

-----------------------------------------------------------------------------
(* Properties.                                                             *)

\* Rows, lock and requests have their declared values.
UsersTypeOK ==
  /\ user \in [UserIds -> [exists : BOOLEAN, role : Role, status : Status, deleted : BOOLEAN,
                           machine : BOOLEAN, version : 0..MaxVersion, password : Passwords \cup {ABSENT}]]
  /\ lock \in Requests \cup {ABSENT}
  /\ epoch \in [UserIds -> Nat]
  /\ \A c \in Requests : req[c].pc # "idle" => req[c].target \in UserIds

\* An active owner that is not deleted is always left, whatever two
\* administrators do to each other at the same time (the row lock of update and
\* softDelete), and whoever is re-activated after a deletion.
LastOwner == \E u \in UserIds : isActiveOwner(u)

\* A token that is accepted was issued from the user as it is: with this role and
\* this password, and no suspension or deletion since.  A login that read the
\* user before such a change does not produce a token that survives it.
TokenCurrent ==
  \A t \in tokens : validate(t) =>
    /\ t.role = user[t.sub].role
    /\ t.password = user[t.sub].password
    /\ t.epoch = epoch[t.sub]
=============================================================================
