---------------------------- MODULE Communities ----------------------------
(***************************************************************************)
(* Communities and their members (backend/src/api/routes/communities.ts)   *)
(* behind the role guard of backend/src/api/middleware/auth.ts, with the   *)
(* unique index on live names of migration 027.                            *)
(*                                                                         *)
(* A request is served query by query: the guard's SELECT, then the        *)
(* handler's SELECTs, then one statement or transaction that writes.       *)
(* Between two queries any other request may run.  A name stands for the   *)
(* trimmed, lower-case name that the index and the checks compare; a       *)
(* removed member is the same as none, for no query tells them apart.      *)
(* Descriptions, settings and the audit log are left out: they are written *)
(* whole and read by nobody here.                                          *)
(***************************************************************************)
EXTENDS Naturals

CONSTANTS Ids,          \* community ids
          Addresses,    \* Stellar addresses
          Names,        \* normalized names
          Avatars,      \* avatar URLs
          GrantedRoles, \* bound: the roles requests hand out
          Requests,     \* bound: requests served at a time
          None          \* no row, no name, no role

Roles == {"admin", "treasurer", "member", "observer"}

VARIABLES
  communities, \* the rows of communities
  members,     \* the active role of each address in each community
  requests     \* what each request is doing

vars == <<communities, members, requests>>

Operations == {"create", "update", "delete", "add", "role", "remove", "avatar"}
Community  == [name : Names, avatar : Avatars \cup {None}, live : BOOLEAN]
Request    == [op : Operations, stage : {"read", "check", "write"},
               id : Ids \cup {None}, target : Addresses \cup {None},
               value : Names \cup Roles \cup Avatars \cup {None}]

Init ==
  /\ communities = [c \in Ids |-> None]
  /\ members = [c \in Ids |-> [a \in Addresses |-> None]]
  /\ requests = [r \in Requests |-> None]

Live(c) == communities[c] # None /\ communities[c].live

Taken(name, except) == \E c \in Ids \ {except} : Live(c) /\ communities[c].name = name

-----------------------------------------------------------------------------
(* The guard and the queries before the write.                             *)

(* The roles each route passes to requireRole.                             *)
Allowed(op) == IF op \in {"update", "avatar"} THEN {"admin", "treasurer"} ELSE {"admin"}

(* requireRole: the caller's active role; the community may be deleted.    *)
MayCall(op, caller, c) == communities[c] # None /\ members[c][caller] \in Allowed(op)

Begin(r, op, stage, c, target, value) ==
  /\ requests[r] = None
  /\ requests' = [requests EXCEPT ![r] =
       [op |-> op, stage |-> stage, id |-> c, target |-> target, value |-> value]]
  /\ UNCHANGED <<communities, members>>

(* The creator is the issuer; its first query looks the name up.           *)
BeginCreate(r) ==
  \E caller \in Addresses, name \in Names : Begin(r, "create", "check", None, caller, name)

BeginGuarded(r) ==
  \E caller \in Addresses, c \in Ids :
    \/ \E name \in Names \cup {None} :
         MayCall("update", caller, c) /\ Begin(r, "update", "read", c, None, name)
    \/ MayCall("delete", caller, c) /\ Begin(r, "delete", "write", c, None, None)
    \/ \E url \in Avatars :
         MayCall("avatar", caller, c) /\ Begin(r, "avatar", "write", c, None, url)
    \/ \E a \in Addresses :
         \/ \E role \in GrantedRoles :
              \/ MayCall("add", caller, c) /\ Begin(r, "add", "read", c, a, role)
              \/ MayCall("role", caller, c) /\ Begin(r, "role", "write", c, a, role)
         \/ MayCall("remove", caller, c) /\ Begin(r, "remove", "write", c, a, None)

Answered(r) == requests' = [requests EXCEPT ![r] = None]

Advance(r, stage) ==
  /\ IF stage = None THEN Answered(r) ELSE requests' = [requests EXCEPT ![r].stage = stage]
  /\ UNCHANGED <<communities, members>>

(* Faulty: the row is found whether or not it is deleted.                  *)
ReadAnyCommunity(r) ==
  /\ requests[r] # None /\ requests[r].stage = "read"
  /\ Advance(r, "write")

(* The live row, or 404.  A name other than the row's is checked next.     *)
ReadCommunity(r) ==
  /\ requests[r] # None /\ requests[r].stage = "read"
  /\ LET q == requests[r] IN
       Advance(r, IF ~Live(q.id) THEN None
                  ELSE IF q.op = "update" /\ q.value \notin {None, communities[q.id].name}
                  THEN "check" ELSE "write")

(* findCommunityByNormalizedName: 409 if another live row has the name.    *)
CheckName(r) ==
  /\ requests[r] # None /\ requests[r].stage = "check"
  /\ Advance(r, IF Taken(requests[r].value, requests[r].id) THEN None ELSE "write")

-----------------------------------------------------------------------------
(* The writes.                                                             *)

Writes(r, op) == requests[r] # None /\ requests[r].op = op /\ requests[r].stage = "write"

(* A statement or its transaction fails: nothing is written.               *)
Fail(r) ==
  /\ requests[r] # None
  /\ Advance(r, None)

(* The index of migration 027.                                             *)
IndexAccepts(name, c) == ~Taken(name, c)

(* The row and its first admin, or 409 from the index.                     *)
CreateCommunity(r) ==
  /\ Writes(r, "create")
  /\ LET q == requests[r] IN
       IF IndexAccepts(q.value, None)
       THEN \E c \in Ids :
              /\ communities[c] = None
              /\ communities' = [communities EXCEPT ![c] =
                                   [name |-> q.value, avatar |-> None, live |-> TRUE]]
              /\ members' = [members EXCEPT ![c][q.target] = "admin"]
       ELSE UNCHANGED <<communities, members>>
  /\ Answered(r)

(* By id alone: the row may have been deleted since it was read.           *)
UpdateCommunity(r) ==
  /\ Writes(r, "update")
  /\ LET q == requests[r] IN
       communities' =
         IF q.value = None \/ (Live(q.id) /\ ~IndexAccepts(q.value, q.id)) THEN communities
         ELSE [communities EXCEPT ![q.id].name = q.value]
  /\ Answered(r)
  /\ UNCHANGED members

DeleteCommunity(r) ==
  /\ Writes(r, "delete")
  /\ communities' = [communities EXCEPT ![requests[r].id].live = FALSE]
  /\ Answered(r)
  /\ UNCHANGED members

SetAvatar(r) ==
  /\ Writes(r, "avatar")
  /\ LET q == requests[r] IN
       communities' = IF Live(q.id) THEN [communities EXCEPT ![q.id].avatar = q.value]
                                    ELSE communities
  /\ Answered(r)
  /\ UNCHANGED members

SetRole(q) == members' = [members EXCEPT ![q.id][q.target] = q.value]

(* INSERT .. ON CONFLICT DO UPDATE: also gives a member another role.      *)
AddMember(r) ==
  /\ Writes(r, "add")
  /\ SetRole(requests[r])
  /\ Answered(r)
  /\ UNCHANGED communities

(* UPDATE .. WHERE deleted_at IS NULL, for a new role and for a removal.   *)
ChangeMember(r) ==
  /\ Writes(r, "role") \/ Writes(r, "remove")
  /\ LET q == requests[r] IN
       IF members[q.id][q.target] = None THEN UNCHANGED members ELSE SetRole(q)
  /\ Answered(r)
  /\ UNCHANGED communities

Serve(r) ==
  \/ ReadCommunity(r) \/ CheckName(r) \/ Fail(r)
  \/ CreateCommunity(r) \/ UpdateCommunity(r) \/ DeleteCommunity(r) \/ SetAvatar(r)
  \/ AddMember(r) \/ ChangeMember(r)

Next == \E r \in Requests : BeginCreate(r) \/ BeginGuarded(r) \/ Serve(r)

Spec == Init /\ [][Next]_vars

-----------------------------------------------------------------------------
(* Properties.                                                             *)

TypeOK ==
  /\ communities \in [Ids -> Community \cup {None}]
  /\ members \in [Ids -> [Addresses -> Roles \cup {None}]]
  /\ requests \in [Requests -> Request \cup {None}]

(* No two live communities have one name, however creations, renamings and *)
(* deletions overlap (the check in the handlers, the index behind them).   *)
LiveNamesUnique ==
  \A c, d \in Ids :
    Live(c) /\ Live(d) /\ communities[c].name = communities[d].name => c = d

(* A deleted community, and no update or addition that had found it live. *)
Closed(c) ==
  /\ communities[c] # None /\ ~communities[c].live
  /\ ~\E r \in Requests :
       /\ requests[r] # None /\ requests[r].id = c
       /\ requests[r].op \in {"update", "add"} /\ requests[r].stage # "read"

(* A deleted community stays deleted.  Once the requests that had found it *)
(* live are answered, nobody joins it and its row stays as it is, whatever *)
(* was under way at the deletion (DELETE /:id against POST /:id/members,   *)
(* PUT /:id and POST /:id/avatar).                                         *)
DeletedIsClosed ==
  \A c \in Ids :
    /\ communities[c] # None /\ ~communities[c].live => ~communities'[c].live
    /\ Closed(c) =>
         /\ Closed(c)' /\ communities'[c] = communities[c]
         /\ \A a \in Addresses : members[c][a] = None => members'[c][a] = None
=============================================================================
