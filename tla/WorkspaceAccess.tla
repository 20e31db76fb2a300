-------------------------- MODULE WorkspaceAccess --------------------------
(***************************************************************************)
(* Who may change an institution through its workspace.  A request carries *)
(* the workspace's own credential or a session token; it is authorised by  *)
(* the role its user has in the organizations file at that moment, then    *)
(* handled.  Tokens live only with their holders: the process keeps a key, *)
(* which is new in every process or outlives it, and the revoked session   *)
(* ids, which it also appends to a file when the key outlives it.  The     *)
(* command line edits the organizations file meanwhile: it reads the whole *)
(* file and writes it back.                                                *)
(***************************************************************************)
EXTENDS Naturals, FiniteSets

CONSTANTS
  Users,          \* users of the institution
  CredentialUser, \* the user the workspace's own credential stands for
  Sessions,       \* session ids
  NoRequest,      \* no request, no token, no command under way
  GrantedRoles,   \* roles the command line gives
  MaxRestarts,    \* bound on the restarts of the workspace
  MaxAge          \* bound on time, in lifetimes of a session

ASSUME CredentialIsAUser == CredentialUser \in Users
ASSUME NoRequestIsNone == NoRequest \notin Sessions
ASSUME AccessBounds == MaxRestarts \in Nat /\ MaxAge \in Nat

Rank == [viewer |-> 0, member |-> 1, admin |-> 2, owner |-> 3]
Roles == DOMAIN Rank
ASSUME GrantedAreRoles == GrantedRoles \subseteq Roles

Paths == {"issue", "revoke", "lifecycle"}
Required == [issue |-> "member", revoke |-> "admin", lifecycle |-> "owner"]

Lifecycles == {"founding", "active", "suspended", "dissolved"}
Moves == [founding |-> {"active"}, active |-> {"suspended", "dissolved"},
          suspended |-> {"active", "dissolved"}, dissolved |-> {}]

VARIABLES
  organization,  \* the file: a role per user (or NoRequest) and the lifecycle
  command,       \* what a running command has read of it
  secret,        \* whether the signing key outlives the process
  process,       \* which process runs: how many have ended
  age,           \* time
  tokens,        \* what the holder of a session has: [user, role, key, expires]
  revoked,       \* the process: revoked session ids
  revocations,   \* the file of revoked session ids
  request,       \* the request that was authorised and is being handled
  answered       \* history: sessions whose revocation was answered

accessVars == <<organization, command, secret, process, age, tokens, revoked, revocations,
                request, answered>>

Organization == [role : [Users -> Roles \union {NoRequest}], lifecycle : Lifecycles]
Token == [user : Users, role : Roles, key : 0..MaxRestarts, expires : 0..(MaxAge + 1)]
Request == [user : Users, role : Roles, session : Sessions \union {NoRequest}, path : Paths]

AccessTypeOK ==
  /\ organization \in Organization
  /\ command \in Organization \union {NoRequest}
  /\ secret \in BOOLEAN
  /\ process \in 0..MaxRestarts
  /\ age \in 0..MaxAge
  /\ tokens \in [Sessions -> Token \union {NoRequest}]
  /\ revoked \subseteq Sessions /\ revocations \subseteq Sessions /\ answered \subseteq Sessions
  /\ request \in Request \union {NoRequest}

AccessInit ==
  /\ organization = [role |-> [u \in Users |-> IF u = CredentialUser THEN "owner" ELSE NoRequest],
                     lifecycle |-> "active"]
  /\ command = NoRequest
  /\ secret \in BOOLEAN
  /\ process = 0 /\ age = 0
  /\ tokens = [s \in Sessions |-> NoRequest]
  /\ revoked = {} /\ revocations = {} /\ answered = {}
  /\ request = NoRequest

-----------------------------------------------------------------------------
(***************************************************************************)
(* The command line, time and restarts.                                    *)
(***************************************************************************)
CommandReads ==
  /\ command = NoRequest
  /\ command' = organization
  /\ UNCHANGED <<organization, secret, process, age, tokens, revoked, revocations, request, answered>>

AddMember(user, role) ==
  /\ command # NoRequest
  /\ organization' = [command EXCEPT !.role[user] = role]
  /\ command' = NoRequest
  /\ UNCHANGED <<secret, process, age, tokens, revoked, revocations, request, answered>>

Age ==
  /\ age < MaxAge
  /\ age' = age + 1
  /\ UNCHANGED <<organization, command, secret, process, tokens, revoked, revocations, request, answered>>

(* The key of a process: the secret's, or its own.                         *)
Key == IF secret THEN 0 ELSE process

RestartForgetting ==
  /\ process < MaxRestarts
  /\ process' = process + 1
  /\ revoked' = {}
  /\ request' = NoRequest
  /\ UNCHANGED <<organization, command, secret, age, tokens, revocations, answered>>

(* A stop at any moment, and a new process.                                *)
Restart ==
  /\ process < MaxRestarts
  /\ process' = process + 1
  /\ revoked' = IF secret THEN revocations ELSE {}
  /\ request' = NoRequest
  /\ UNCHANGED <<organization, command, secret, age, tokens, revocations, answered>>

-----------------------------------------------------------------------------
(***************************************************************************)
(* Authorisation.                                                          *)
(***************************************************************************)
Validates(s) ==
  /\ tokens[s] # NoRequest
  /\ tokens[s].key = Key
  /\ age < tokens[s].expires
  /\ s \notin revoked

UserOf(s) == IF s = NoRequest THEN CredentialUser ELSE tokens[s].user

(* The role a token was issued for is not looked at.                       *)
RoleOf(s) == organization.role[UserOf(s)]

Authorize(s, path) ==
  /\ request = NoRequest
  /\ s # NoRequest => Validates(s)
  /\ RoleOf(s) # NoRequest /\ Rank[RoleOf(s)] >= Rank[Required[path]]
  /\ request' = [user |-> UserOf(s), role |-> RoleOf(s), session |-> s, path |-> path]
  /\ UNCHANGED <<organization, command, secret, process, age, tokens, revoked, revocations, answered>>

(***************************************************************************)
(* Handlers.                                                               *)
(***************************************************************************)
Handling(path) == request # NoRequest /\ request.path = path /\ request' = NoRequest

(* However long a session is asked for, its lifetime is capped.            *)
Issued(user, role) == [user |-> user, role |-> role, key |-> Key, expires |-> age + 1]

IssueSession(s) ==
  /\ Handling("issue")
  /\ tokens[s] = NoRequest
  /\ tokens' = [tokens EXCEPT ![s] = Issued(request.user, request.role)]
  /\ UNCHANGED <<organization, command, secret, process, age, revoked, revocations, answered>>

RevokeInMemory(s) ==
  /\ request # NoRequest /\ request.path = "revoke"
  /\ tokens[s] # NoRequest /\ s \notin revoked
  /\ revoked' = revoked \union {s}
  /\ UNCHANGED <<organization, command, secret, process, age, tokens, revocations, request, answered>>

(* In memory first, then the file, then the answer.                        *)
RevokeSession(s) ==
  /\ Handling("revoke")
  /\ s \in revoked
  /\ revocations' = IF secret THEN revocations \union {s} ELSE revocations
  /\ answered' = answered \union {s}
  /\ UNCHANGED <<organization, command, secret, process, age, tokens, revoked>>

MovesFrom(lifecycle) == Moves[lifecycle]

TransitionLifecycle(lifecycle) ==
  /\ Handling("lifecycle")
  /\ lifecycle \in MovesFrom(organization.lifecycle)
  /\ organization' = [organization EXCEPT !.lifecycle = lifecycle]
  /\ UNCHANGED <<command, secret, process, age, tokens, revoked, revocations, answered>>

(* The handler refuses what it is asked.                                   *)
RefuseRequest ==
  /\ request # NoRequest
  /\ request' = NoRequest
  /\ UNCHANGED <<organization, command, secret, process, age, tokens, revoked, revocations, answered>>

AccessNext ==
  \/ CommandReads \/ Age \/ Restart \/ RefuseRequest
  \/ \E user \in Users, role \in GrantedRoles : AddMember(user, role)
  \/ \E s \in Sessions \union {NoRequest}, path \in Paths : Authorize(s, path)
  \/ \E s \in Sessions : IssueSession(s) \/ RevokeInMemory(s) \/ RevokeSession(s)
  \/ \E lifecycle \in Lifecycles : TransitionLifecycle(lifecycle)

AccessSpec == AccessInit /\ [][AccessNext]_accessVars

-----------------------------------------------------------------------------
(* A session whose revocation was answered authorises nothing any more, in *)
(* this process or in one that follows it: either its key has gone or the  *)
(* file remembers it.                                                      *)
RevokedSessionsStayOut ==
  [][request' # request /\ request' # NoRequest => request'.session \notin answered]_accessVars

(* A session gives its user no more than the role the file has for the     *)
(* user now, whatever role it was issued for: a user who was demoted since *)
(* is stopped at the next request.                                         *)
SessionNeverOutranksUser ==
  [][request' # request /\ request' # NoRequest =>
       /\ organization.role[request'.user] # NoRequest
       /\ Rank[organization.role[request'.user]] >= Rank[Required[request'.path]]]_accessVars

(* A dissolved institution stays dissolved, unless a command that read the *)
(* file before the dissolution writes back what it read.                   *)
DissolvedUnlessOverwritten ==
  [][organization.lifecycle = "dissolved" /\ organization'.lifecycle # "dissolved" =>
       command # NoRequest /\ command.lifecycle # "dissolved"]_accessVars
=============================================================================
