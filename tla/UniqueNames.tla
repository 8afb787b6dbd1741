----------------------------- MODULE UniqueNames -----------------------------
(* Role names that are unique over all zones. Every zone has a gdeliveryd and  *)
(* a gamedbd; one uniquenamed serves them all. A creation engages the name at  *)
(* uniquenamed (PreCreateRole), writes the role in the zone (DBCreateRole) and *)
(* reports the outcome (PostCreateRole); a rename does the same with three     *)
(* calls of its own; a deletion is reported by PostDeleteRole.                 *)
(*                                                                             *)
(* Each handler of a server is one storage transaction, so one step. The pools *)
(* of the servers have several threads, so requests are handled in any order.  *)
(* A call ends with the answer or with the timeout, whichever comes first; a   *)
(* request whose caller gave up is still handled when it arrives. A request or *)
(* an answer that is lost is one that never arrives: nothing forces it to.     *)
EXTENDS Naturals, FiniteSets

CONSTANTS Zone, User, Name,
          NSlot,      \* roles of one user over all zones (MAX_ROLE_COUNT)
          Creation, Deletion, Renaming,  \* bound: requests of players, each is made once
          NoName, NoRole, Free,
          MaxTry,     \* bound: copies of one PostCreateRole
          MaxCrash    \* bound: restarts of a gdeliveryd

ASSUME NamesAssumption ==
    /\ NSlot \in Nat /\ MaxTry \in Nat \ {0} /\ MaxCrash \in Nat
    /\ NoName \notin Name /\ NoRole \notin User \X (0 .. NSlot)
    /\ Free \notin [zone: Zone, role: User \X (1 .. NSlot),
                    status: {"ENGAGED", "USED", "OBSOLETE"}]

VARIABLES
    registry,  \* uniquenamed, unamerole: name -> zone, role and status
    uidrole,   \* uniquenamed, uidrole: the roles whose slots are taken
    base,      \* gamedbd of each zone, base: role -> its name
    his,       \* gamedbd of each zone, rolenamehis: role -> its former names
    rolename,  \* gamedbd of each zone, rolename: name -> role
    rpcs,      \* the calls in progress
    fresh,     \* requests not made yet
    crashes,   \* restarts of a gdeliveryd
    doubtful   \* history: names whose creation, or whose release, timed out
tables == <<registry, uidrole, base, his, rolename>>
vars == <<registry, uidrole, base, his, rolename, rpcs, fresh, crashes, doubtful>>

Slot == 1 .. NSlot
Role == User \X Slot
Attempt == Creation \cup Deletion \cup Renaming
Entry == [zone: Zone, role: Role, status: {"ENGAGED", "USED", "OBSOLETE"}]

-----------------------------------------------------------------------------
\* Remote calls. "ok" is the success flag of PostCreateRole and PostChangeRolename
\* and the create_rollback flag of DBDeleteRole.
Ops == {"PreCreateRole", "DBCreateRole", "PostCreateRole", "DBDeleteRole", "PostDeleteRole",
        "PreChangeRolename", "DBChangeRolename", "PostChangeRolename"}
Rpc == [op: Ops, by: Attempt, zone: Zone, role: User \X (0 .. NSlot), name: Name \cup {NoName},
        names: SUBSET Name, ok: BOOLEAN, try: 1 .. MaxTry, at: {"server", "caller"},
        ret: {"none", "success", "refused", "duplicate_roleid"}, waiting: BOOLEAN]

Call(op, a, z, r, n, ns, ok) ==
    [op |-> op, by |-> a, zone |-> z, role |-> r, name |-> n, names |-> ns, ok |-> ok,
     try |-> 1, at |-> "server", ret |-> "none", waiting |-> TRUE]

\* A call whose answer and whose timeout change nothing at the caller.
Tell(op, a, z, r, n, ns, ok) == [Call(op, a, z, r, n, ns, ok) EXCEPT !.waiting = FALSE]

\* The server handles m: the answer goes back, and is dropped when no one waits for it.
Reply(m, ret, r, ns) ==
    rpcs' = (rpcs \ {m}) \cup
            {x \in {[m EXCEPT !.at = "caller", !.ret = ret, !.role = r, !.names = ns]} : m.waiting}

\* The answer reaches the caller, which makes further calls.
Answered(m, op) == m.op = op /\ m.at = "caller" /\ m.waiting
AtServer(m, op) == m.op = op /\ m.at = "server"
Done(m, calls) == rpcs' = (rpcs \ {m}) \cup calls

\* The timeout strikes first: a request that is still at the server stays there.
GivenUp(m) == {x \in {[m EXCEPT !.waiting = FALSE]} : m.at = "server"}
TimesOut(m, op) == m.op = op /\ m.waiting
GiveUp(m, calls) == rpcs' = (rpcs \ {m}) \cup GivenUp(m) \cup calls

-----------------------------------------------------------------------------
\* A player's requests to gdeliveryd.
CreateRole(a, z, u, n) ==
    /\ a \in fresh \cap Creation
    /\ fresh' = fresh \ {a}
    /\ rpcs' = rpcs \cup {Call("PreCreateRole", a, z, <<u, 0>>, n, {}, FALSE)}
    /\ UNCHANGED <<tables, crashes, doubtful>>

DeleteRole(a, z, r) ==
    /\ a \in fresh \cap Deletion /\ base[z][r] # NoName
    /\ fresh' = fresh \ {a}
    /\ rpcs' = rpcs \cup {Call("DBDeleteRole", a, z, r, NoName, {}, FALSE)}
    /\ UNCHANGED <<tables, crashes, doubtful>>

ChangeRolename(a, z, r, n) ==
    /\ a \in fresh \cap Renaming /\ base[z][r] # NoName
    /\ fresh' = fresh \ {a}
    /\ rpcs' = rpcs \cup {Call("PreChangeRolename", a, z, r, n, {}, FALSE)}
    /\ UNCHANGED <<tables, crashes, doubtful>>

-----------------------------------------------------------------------------
\* uniquenamed.
FreeSlots(u) == {s \in Slot : <<u, s>> \notin uidrole}
MutAddRole(u) == NSlot - Cardinality(FreeSlots(u))
AddRole(u) == CHOOSE s \in FreeSlots(u) : \A t \in FreeSlots(u) : s <= t

\* An engagement never expires: both branches of the 300 s test refuse the name.
MutTaken(n) == registry[n] # Free /\ registry[n].status # "ENGAGED"
Taken(n) == registry[n] # Free

PreCreateRole_Server(m) ==
    LET u == m.role[1]
    IN /\ AtServer(m, "PreCreateRole")
       /\ \/ /\ Taken(m.name) \/ FreeSlots(u) = {}
             /\ Reply(m, "refused", m.role, {})
             /\ UNCHANGED <<registry, uidrole>>
          \/ /\ ~Taken(m.name) /\ FreeSlots(u) # {}
             /\ LET r == <<u, AddRole(u)>>
                IN /\ registry' = [registry EXCEPT ![m.name] =
                                      [zone |-> m.zone, role |-> r, status |-> "ENGAGED"]]
                   /\ uidrole' = uidrole \cup {r}
                   /\ Reply(m, "success", r, {})
       /\ UNCHANGED <<base, his, rolename, fresh, crashes, doubtful>>

PostCreateRole_Server(m) ==
    /\ AtServer(m, "PostCreateRole")
    /\ registry' = [registry EXCEPT ![m.name] =
           IF m.ok THEN [zone |-> m.zone, role |-> m.role, status |-> "USED"] ELSE Free]
    /\ uidrole' = IF m.ok THEN uidrole ELSE uidrole \ {m.role}
    /\ Reply(m, "success", m.role, {})
    /\ UNCHANGED <<base, his, rolename, fresh, crashes, doubtful>>

BelongsTo(n, r) == Taken(n) /\ registry[n].role = r

PostDeleteRole_Server(m) ==
    /\ AtServer(m, "PostDeleteRole")
    /\ registry' = [n \in Name |->
           IF n \in m.names /\ BelongsTo(n, m.role) THEN Free ELSE registry[n]]
    /\ uidrole' = uidrole \ {m.role}
    /\ Reply(m, "success", m.role, m.names)
    /\ UNCHANGED <<base, his, rolename, fresh, crashes, doubtful>>

PreChangeRolename_Server(m) ==
    /\ AtServer(m, "PreChangeRolename")
    /\ \/ /\ Taken(m.name)
          /\ Reply(m, "refused", m.role, {})
          /\ UNCHANGED registry
       \/ /\ ~Taken(m.name)
          /\ registry' = [registry EXCEPT ![m.name] =
                             [zone |-> m.zone, role |-> m.role, status |-> "ENGAGED"]]
          /\ Reply(m, "success", m.role, {})
    /\ UNCHANGED <<uidrole, base, his, rolename, fresh, crashes, doubtful>>

\* A name that a role no longer bears stays its own.
MutObsolete(entry) == Free
Obsolete(entry) == [entry EXCEPT !.status = "OBSOLETE"]

\* "names" holds the old name of a rename that succeeded.
PostChangeRolename_Server(m) ==
    /\ AtServer(m, "PostChangeRolename")
    /\ registry' = [n \in Name |->
           IF n = m.name
           THEN IF m.ok THEN [zone |-> m.zone, role |-> m.role, status |-> "USED"] ELSE Free
           ELSE IF m.ok /\ n \in m.names /\ BelongsTo(n, m.role)
                THEN Obsolete(registry[n]) ELSE registry[n]]
    /\ Reply(m, "success", m.role, m.names)
    /\ UNCHANGED <<uidrole, base, his, rolename, fresh, crashes, doubtful>>

-----------------------------------------------------------------------------
\* gamedbd of a zone.
\* Refused: the name is taken in the zone, or another check fails (class, logicuid,
\* referrer, a storage error).
DBCreateRole_Server(m) ==
    LET z == m.zone
        exists == base[z][m.role] # NoName
    IN /\ AtServer(m, "DBCreateRole")
       /\ \/ /\ Reply(m, "refused", m.role, {})
             /\ UNCHANGED <<base, rolename>>
          \/ /\ rolename[z][m.name] = NoRole /\ exists
             /\ Reply(m, "duplicate_roleid", m.role, {base[z][m.role]})
             /\ UNCHANGED <<base, rolename>>
          \/ /\ rolename[z][m.name] = NoRole /\ ~exists
             /\ base' = [base EXCEPT ![z][m.role] = m.name]
             /\ rolename' = [rolename EXCEPT ![z][m.name] = m.role]
             /\ Reply(m, "success", m.role, {})
       /\ UNCHANGED <<registry, uidrole, his, fresh, crashes, doubtful>>

\* The names that go with a role: its own, and those of its history that lead to it.
MutNamesOf(z, r) == {base[z][r]} \ {NoName}
NamesOf(z, r) == ({base[z][r]} \ {NoName}) \cup {n \in his[z][r] : rolename[z][n] = r}

\* A rollback refuses a role that is older than 300 s. A role that does not exist is
\* looked up by its logicuid: the handler succeeds when that is a user, and throws when not.
DBDeleteRole_Server(m) ==
    LET z == m.zone
        gone == NamesOf(z, m.role)
    IN /\ AtServer(m, "DBDeleteRole")
       /\ \/ /\ m.ok \/ base[z][m.role] = NoName
             /\ Reply(m, "refused", m.role, {})
             /\ UNCHANGED <<base, his, rolename>>
          \/ /\ base' = [base EXCEPT ![z][m.role] = NoName]
             /\ his' = [his EXCEPT ![z][m.role] = {}]
             /\ rolename' = [rolename EXCEPT ![z] =
                                [n \in Name |-> IF n \in gone THEN NoRole ELSE @[n]]]
             /\ Reply(m, "success", m.role, gone)
       /\ UNCHANGED <<registry, uidrole, fresh, crashes, doubtful>>

\* Refused: the name is taken in the zone, the item or the inventory's timestamp does
\* not match, or the role is gone.
DBChangeRolename_Server(m) ==
    LET z == m.zone
        old == base[z][m.role]
    IN /\ AtServer(m, "DBChangeRolename")
       /\ \/ /\ Reply(m, "refused", m.role, {})
             /\ UNCHANGED <<base, his, rolename>>
          \/ /\ rolename[z][m.name] = NoRole /\ old # NoName
             /\ base' = [base EXCEPT ![z][m.role] = m.name]
             /\ his' = [his EXCEPT ![z][m.role] = @ \cup {old}]
             /\ rolename' = [rolename EXCEPT ![z][m.name] = m.role]
             /\ Reply(m, "success", m.role, {old})
       /\ UNCHANGED <<registry, uidrole, fresh, crashes, doubtful>>

-----------------------------------------------------------------------------
\* gdeliveryd: the answers.
PreCreateRole_Client(m) ==
    /\ Answered(m, "PreCreateRole")
    /\ Done(m, {x \in {Call("DBCreateRole", m.by, m.zone, m.role, m.name, {}, FALSE)} :
                   m.ret = "success"})
    /\ UNCHANGED <<tables, fresh, crashes, doubtful>>

\* With ERR_DUPLICATE_ROLEID the name of the role that exists is reported, and the name
\* that was engaged is forgotten.
DBCreateRole_Client(m) ==
    LET dup == m.ret = "duplicate_roleid"
        post(n) == Call("PostCreateRole", m.by, m.zone, m.role, n, {}, dup \/ m.ret = "success")
    IN /\ Answered(m, "DBCreateRole")
       /\ Done(m, {post(n) : n \in IF dup THEN m.names ELSE {m.name}})
       /\ UNCHANGED <<tables, fresh, crashes, doubtful>>

DBDeleteRole_Client(m) ==
    /\ Answered(m, "DBDeleteRole")
    /\ Done(m, {x \in {Tell("PostDeleteRole", m.by, m.zone, m.role, NoName, m.names, FALSE)} :
                   m.ret = "success"})
    /\ UNCHANGED <<tables, fresh, crashes, doubtful>>

PreChangeRolename_Client(m) ==
    /\ Answered(m, "PreChangeRolename")
    /\ Done(m, {x \in {Call("DBChangeRolename", m.by, m.zone, m.role, m.name, {}, FALSE)} :
                   m.ret = "success"})
    /\ UNCHANGED <<tables, fresh, crashes, doubtful>>

DBChangeRolename_Client(m) ==
    /\ Answered(m, "DBChangeRolename")
    /\ Done(m, {Tell("PostChangeRolename", m.by, m.zone, m.role, m.name, m.names,
                     m.ret = "success")})
    /\ UNCHANGED <<tables, fresh, crashes, doubtful>>

PostCreateRole_Client(m) ==
    /\ Answered(m, "PostCreateRole")
    /\ Done(m, {})
    /\ UNCHANGED <<tables, fresh, crashes, doubtful>>

-----------------------------------------------------------------------------
\* gdeliveryd: the timeouts.
\* The role is rolled back and the name is released, whatever gamedbd did or will do.
DBCreateRole_OnTimeout(m) ==
    /\ TimesOut(m, "DBCreateRole")
    /\ GiveUp(m, {Tell("DBDeleteRole", m.by, m.zone, m.role, NoName, {}, TRUE),
                  Call("PostCreateRole", m.by, m.zone, m.role, m.name, {}, FALSE)})
    /\ doubtful' = doubtful \cup {m.name}
    /\ UNCHANGED <<tables, fresh, crashes>>

MutPostCreateRole_OnTimeout(m) ==
    /\ TimesOut(m, "PostCreateRole") /\ m.try < MaxTry
    /\ GiveUp(m, {})
    /\ doubtful' = IF m.ok THEN doubtful ELSE doubtful \cup {m.name}
    /\ UNCHANGED <<tables, fresh, crashes>>
PostCreateRole_OnTimeout(m) ==
    /\ TimesOut(m, "PostCreateRole") /\ m.try < MaxTry
    /\ GiveUp(m, {[m EXCEPT !.try = @ + 1, !.at = "server", !.ret = "none"]})
    /\ doubtful' = IF m.ok THEN doubtful ELSE doubtful \cup {m.name}
    /\ UNCHANGED <<tables, fresh, crashes>>

\* The others only tell the player, or do nothing: a name they engaged stays engaged.
Others_OnTimeout(m) ==
    /\ \E op \in Ops \ {"DBCreateRole", "PostCreateRole"} : TimesOut(m, op)
    /\ GiveUp(m, {})
    /\ UNCHANGED <<tables, fresh, crashes, doubtful>>

\* gdeliveryd of zone z restarts: its calls are forgotten, what it sent is not.
Restart(z) ==
    /\ crashes < MaxCrash
    /\ crashes' = crashes + 1
    /\ LET mine == {m \in rpcs : m.zone = z}
       IN rpcs' = (rpcs \ mine) \cup UNION {GivenUp(m) : m \in mine}
    /\ UNCHANGED <<tables, fresh, doubtful>>

-----------------------------------------------------------------------------
Init ==
    /\ registry = [n \in Name |-> Free]
    /\ uidrole = {}
    /\ base = [z \in Zone |-> [r \in Role |-> NoName]]
    /\ his = [z \in Zone |-> [r \in Role |-> {}]]
    /\ rolename = [z \in Zone |-> [n \in Name |-> NoRole]]
    /\ rpcs = {} /\ fresh = Attempt /\ crashes = 0
    /\ doubtful = {}

Requests ==
    \E a \in Attempt, z \in Zone :
        \/ \E u \in User, n \in Name : CreateRole(a, z, u, n)
        \/ \E r \in Role : DeleteRole(a, z, r)
        \/ \E r \in Role, n \in Name : ChangeRolename(a, z, r, n)

Server(m) ==
    \/ PreCreateRole_Server(m) \/ PostCreateRole_Server(m) \/ PostDeleteRole_Server(m)
    \/ PreChangeRolename_Server(m) \/ PostChangeRolename_Server(m)
    \/ DBCreateRole_Server(m) \/ DBDeleteRole_Server(m) \/ DBChangeRolename_Server(m)

Client(m) ==
    \/ PreCreateRole_Client(m) \/ DBCreateRole_Client(m) \/ DBDeleteRole_Client(m)
    \/ PreChangeRolename_Client(m) \/ DBChangeRolename_Client(m) \/ PostCreateRole_Client(m)

OnTimeout(m) ==
    DBCreateRole_OnTimeout(m) \/ PostCreateRole_OnTimeout(m) \/ Others_OnTimeout(m)

Next ==
    \/ Requests
    \/ \E m \in rpcs : Server(m) \/ Client(m) \/ OnTimeout(m)
    \/ \E z \in Zone : Restart(z)

Spec == Init /\ [][Next]_vars

\* Timeouts strike (the housekeeper of rpc.h), and when copy after copy of a
\* PostCreateRole is sent, one of them is handled.
Fairness ==
    /\ WF_vars(\E m \in rpcs : OnTimeout(m))
    /\ WF_vars(\E m \in rpcs : m.try = MaxTry /\ PostCreateRole_Server(m))
FairSpec == Spec /\ Fairness

-----------------------------------------------------------------------------
TypeOK ==
    /\ registry \in [Name -> Entry \cup {Free}]
    /\ uidrole \subseteq Role
    /\ base \in [Zone -> [Role -> Name \cup {NoName}]]
    /\ his \in [Zone -> [Role -> SUBSET Name]]
    /\ rolename \in [Zone -> [Name -> Role \cup {NoRole}]]
    /\ rpcs \subseteq Rpc
    /\ fresh \subseteq Attempt /\ crashes \in 0 .. MaxCrash
    /\ doubtful \subseteq Name

\* A name is in the tables of one zone at most, whatever requests cross, fail, arrive
\* late or are lost: unless a DBCreateRole or the release of the name timed out.
OneZonePerName ==
    \A n \in Name \ doubtful : \A y, z \in Zone :
        rolename[y][n] # NoRole /\ rolename[z][n] # NoRole => y = z

\* uniquenamed keeps every name that a role bears or bore (same condition).
NamesStayTaken ==
    \A n \in Name \ doubtful : \A z \in Zone : rolename[z][n] # NoRole => registry[n] # Free

\* In a zone a name leads to the one role that bears it or bore it, and every name of
\* a role leads to it: also after a rollback, a late creation or a second deletion.
ZoneTablesAgree ==
    \A z \in Zone, n \in Name, r \in Role :
        rolename[z][n] = r <=> base[z][r] = n \/ n \in his[z][r]

\* A name that a creation engaged is settled, used or free, when its DBCreateRole or
\* PostCreateRole is in progress and gdeliveryd restarts no more. The exception is
\* ERR_DUPLICATE_ROLEID, after which the name stays engaged.
Engaged(n) == registry[n] # Free /\ registry[n].status = "ENGAGED"
InProgress(n) ==
    \E m \in rpcs :
        /\ m.waiting /\ m.name = n
        /\ m.op = "DBCreateRole" \/ AtServer(m, "PostCreateRole")
Forgotten(n) ==
    \E m \in rpcs : Answered(m, "DBCreateRole") /\ m.ret = "duplicate_roleid" /\ m.name = n
CreationIsSettled ==
    \A n \in Name : (crashes = MaxCrash /\ InProgress(n)) ~> (~Engaged(n) \/ Forgotten(n))
=============================================================================
