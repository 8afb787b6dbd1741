-------------------------- MODULE UniqueNamesProofs ---------------------------
(***************************************************************************)
(* Proofs about UniqueNames: its variables keep their types, the tables of *)
(* a zone agree with each other, and a name is in one zone at most, whose  *)
(* registration stays.                                                     *)
(***************************************************************************)
EXTENDS UniqueNames, WellFoundedInduction, TLAPS

-------------------------------------------------------------------------------
(* The inductive invariant *)

\* Call m may, when it and what follows it are done, put name n in the tables of a
\* zone or release it at uniquenamed.
Claims(m, n) ==
    \/ /\ m.op \in {"PreCreateRole", "PreChangeRolename"}
       /\ m.at = "caller" /\ m.ret = "success" /\ m.name = n
    \/ /\ m.op = "DBCreateRole" /\ m.name = n
       /\ m.at = "server" \/ m.ret \notin {"success", "duplicate_roleid"}
    \/ /\ m.op = "DBChangeRolename" /\ m.name = n
       /\ m.at = "server" \/ m.ret # "success"
    \/ /\ m.op \in {"PostCreateRole", "PostChangeRolename"}
       /\ m.at = "server" /\ ~m.ok /\ m.name = n
    \/ m.op = "DBDeleteRole" /\ m.at = "caller" /\ m.ret = "success" /\ n \in m.names
    \/ m.op = "PostDeleteRole" /\ m.at = "server" /\ n \in m.names

\* One call at most claims a name. While one does, no zone has the name; while one
\* does or a zone has it, uniquenamed keeps it.
NameOK(n) ==
    /\ \A x, y \in rpcs : Claims(x, n) /\ Claims(y, n) => x = y
    /\ \A x \in rpcs, z \in Zone : Claims(x, n) => rolename[z][n] = NoRole
    /\ \A x \in rpcs : Claims(x, n) => registry[n] # Free
    /\ \A y, z \in Zone : rolename[y][n] # NoRole /\ rolename[z][n] # NoRole => y = z
    /\ \A z \in Zone : rolename[z][n] # NoRole => registry[n] # Free

\* A call names what its operation needs.
WellFormed(m) ==
    /\ m.op \notin {"DBDeleteRole", "PostDeleteRole"} => m.name \in Name
    /\ m.op # "PreCreateRole" \/ m.ret = "success" => m.role \in Role
    /\ m.op = "DBCreateRole" /\ m.at = "caller" => m.waiting

Typed == TypeOK /\ \A m \in rpcs : WellFormed(m)

NamesOK == \A n \in Name \ doubtful : NameOK(n)
IInv == Typed /\ ZoneTablesAgree /\ NamesOK

-------------------------------------------------------------------------------
(* Lemmas about the operators *)

LEMMA SmallestExists ==
    ASSUME NEW S \in SUBSET Nat, S # {}
    PROVE  \E s \in S : \A t \in S : s <= t
<1> DEFINE R == {ss \in Nat \X Nat : ss[1] < ss[2]}
<1>1. IsWellFoundedOn(R, Nat)
  BY NatLessThanWellFounded DEF OpToRel
<1>2. PICK s \in S : \A t \in S : ~ (<<t, s>> \in R)
  <2> HIDE DEF R
  <2> QED BY <1>1, WFMin
<1>3. ASSUME NEW t \in S PROVE s <= t
  <2>1. t < s => <<t, s>> \in R
    OBVIOUS
  <2>2. ~ (t < s)
    <3> HIDE DEF R
    <3> QED BY <1>2, <2>1
  <2> QED BY <2>2
<1> QED BY <1>3

\* The slot a creation is given is one of the user's, and free.
LEMMA AddRoleIsFree ==
    ASSUME NEW u \in User, FreeSlots(u) # {}
    PROVE  <<u, AddRole(u)>> \in Role \ uidrole
<1>1. FreeSlots(u) \in SUBSET Nat
  BY NamesAssumption DEF FreeSlots, Slot
<1>2. \E s \in FreeSlots(u) : \A t \in FreeSlots(u) : s <= t
  BY <1>1, SmallestExists
<1>3. AddRole(u) \in FreeSlots(u)
  BY <1>2 DEF AddRole
<1>4. AddRole(u) \in Slot /\ <<u, AddRole(u)>> \notin uidrole
  BY <1>3 DEF FreeSlots
<1> QED BY <1>4 DEF Role

LEMMA RoleInRpc == Role \subseteq User \X (0 .. NSlot) /\ NoRole \notin Role
BY NamesAssumption DEF Role, Slot

LEMMA CallTyped ==
    ASSUME NEW op \in Ops, NEW a \in Attempt, NEW z \in Zone, NEW r \in User \X (0 .. NSlot),
           NEW n \in Name \cup {NoName}, NEW ns \in SUBSET Name, NEW ok \in BOOLEAN
    PROVE  Call(op, a, z, r, n, ns, ok) \in Rpc /\ Tell(op, a, z, r, n, ns, ok) \in Rpc
<1>1. 1 \in 1 .. MaxTry
  BY NamesAssumption
<1>2. Call(op, a, z, r, n, ns, ok) \in Rpc
  BY <1>1 DEF Rpc, Call
<1>3. Tell(op, a, z, r, n, ns, ok) \in Rpc
  <2> DEFINE c == Call(op, a, z, r, n, ns, ok)
  <2>1. \A x \in Rpc : [x EXCEPT !.waiting = FALSE] \in Rpc
    BY DEF Rpc
  <2> HIDE DEF c
  <2> QED BY <1>2, <2>1 DEF c, Tell
<1> QED BY <1>2, <1>3

\* What a new call claims.
LEMMA CallClaims ==
    ASSUME NEW op, NEW a, NEW z, NEW r, NEW nm, NEW ns, NEW ok \in BOOLEAN, NEW n,
           \/ Claims(Call(op, a, z, r, nm, ns, ok), n)
           \/ Claims(Tell(op, a, z, r, nm, ns, ok), n)
    PROVE  \/ op \in {"DBCreateRole", "DBChangeRolename"} /\ nm = n
           \/ op \in {"PostCreateRole", "PostChangeRolename"} /\ ~ok /\ nm = n
           \/ op = "PostDeleteRole" /\ n \in ns
BY DEF Claims, Call, Tell

Answer(m, ret, r, ns) == [m EXCEPT !.at = "caller", !.ret = ret, !.role = r, !.names = ns]

LEMMA AnswerTyped ==
    ASSUME NEW m \in Rpc, NEW ret \in {"success", "refused", "duplicate_roleid"},
           NEW r \in User \X (0 .. NSlot), NEW ns \in SUBSET Name
    PROVE  LET c == Answer(m, ret, r, ns)
           IN  /\ c \in Rpc
               /\ c.op = m.op /\ c.name = m.name /\ c.ok = m.ok /\ c.waiting = m.waiting
               /\ c.at = "caller" /\ c.ret = ret /\ c.role = r /\ c.names = ns
BY DEF Answer, Rpc

LEMMA ReplyEffect ==
    ASSUME NEW m \in rpcs, NEW ret, NEW r, NEW ns, Reply(m, ret, r, ns)
    PROVE  /\ rpcs' \subseteq (rpcs \ {m}) \cup {Answer(m, ret, r, ns)}
           /\ \A c \in rpcs' : c \in rpcs \/ (c = Answer(m, ret, r, ns) /\ m.waiting)
BY DEF Reply, Answer

\* A request whose caller gave up claims what it claimed.
LEMMA GivenUpAlike ==
    ASSUME NEW m \in Rpc, NEW c \in GivenUp(m)
    PROVE  /\ c = [m EXCEPT !.waiting = FALSE] /\ m.at = "server"
           /\ c \in Rpc /\ (WellFormed(m) => WellFormed(c))
           /\ \A n : Claims(c, n) <=> Claims(m, n)
<1>1. /\ c = [m EXCEPT !.waiting = FALSE] /\ m.at = "server" /\ c \in Rpc
      /\ c.op = m.op /\ c.at = m.at /\ c.ret = m.ret /\ c.name = m.name
      /\ c.names = m.names /\ c.ok = m.ok /\ c.role = m.role
  BY DEF GivenUp, Rpc
<1> QED BY <1>1 DEF WellFormed, Claims

-------------------------------------------------------------------------------
(* How a step can treat a name *)

\* It leaves the name alone, or hands the claim over to a call it makes.
LEMMA Quiet ==
    ASSUME NEW n \in Name, NameOK(n), NEW kept \in SUBSET rpcs, NEW calls,
           rpcs' \subseteq kept \cup calls,
           \A x, y \in calls : Claims(x, n) /\ Claims(y, n) => x = y,
           \A x \in calls : Claims(x, n) => \E m \in rpcs \ kept : Claims(m, n),
           \A z \in Zone : rolename'[z][n] = rolename[z][n],
           registry[n] # Free => registry'[n] # Free
    PROVE  NameOK(n)'
BY DEF NameOK

\* It releases a name that the call it ends claimed.
LEMMA Releases ==
    ASSUME NEW n \in Name, NameOK(n), NEW m \in rpcs, Claims(m, n), NEW calls,
           rpcs' \subseteq (rpcs \ {m}) \cup calls,
           \A x \in calls : ~Claims(x, n),
           \A z \in Zone : rolename'[z][n] = rolename[z][n]
    PROVE  NameOK(n)'
BY DEF NameOK

\* It engages a free name.
LEMMA Engages ==
    ASSUME NEW n \in Name, NameOK(n), registry[n] = Free, registry'[n] # Free, NEW calls,
           rpcs' \subseteq rpcs \cup calls,
           \A x, y \in calls : x = y,
           \A z \in Zone : rolename'[z][n] = rolename[z][n]
    PROVE  NameOK(n)'
BY DEF NameOK

\* It enters a name that its call claimed in the tables of one zone.
LEMMA Enters ==
    ASSUME NEW n \in Name, NameOK(n), NEW m \in rpcs, Claims(m, n), NEW calls, NEW y \in Zone,
           rpcs' \subseteq (rpcs \ {m}) \cup calls,
           \A x \in calls : ~Claims(x, n),
           \A z \in Zone : rolename'[z][n] # NoRole => z = y \/ rolename[z][n] # NoRole,
           registry' = registry
    PROVE  NameOK(n)'
BY DEF NameOK

\* It takes a name off the tables of the zone that had it; the answer claims it.
LEMMA Leaves ==
    ASSUME NEW n \in Name, NameOK(n), NEW y \in Zone, rolename[y][n] # NoRole, NEW calls,
           rpcs' \subseteq rpcs \cup calls,
           \A v, w \in calls : v = w,
           rolename'[y][n] = NoRole,
           \A z \in Zone : z # y => rolename'[z][n] = rolename[z][n],
           registry' = registry
    PROVE  NameOK(n)'
BY DEF NameOK

\* An answer claims nothing that its request did not claim.
LEMMA QuietReply ==
    ASSUME NEW n \in Name, NameOK(n), NEW m \in rpcs, NEW ret, NEW r, NEW ns,
           Reply(m, ret, r, ns),
           Claims(Answer(m, ret, r, ns), n) => Claims(m, n),
           \A z \in Zone : rolename'[z][n] = rolename[z][n],
           registry[n] # Free => registry'[n] # Free
    PROVE  NameOK(n)'
<1> DEFINE calls == {Answer(m, ret, r, ns)}
<1>1. rpcs' \subseteq (rpcs \ {m}) \cup calls
  BY ReplyEffect
<1>2. /\ \A x, y \in calls : Claims(x, n) /\ Claims(y, n) => x = y
      /\ \A x \in calls : Claims(x, n) => \E y \in rpcs \ (rpcs \ {m}) : Claims(y, n)
  OBVIOUS
<1> HIDE DEF calls
<1> QED BY <1>1, <1>2, Quiet

LEMMA TypedRpcs ==
    ASSUME Typed, NEW m \in rpcs
    PROVE  /\ m \in Rpc /\ WellFormed(m) /\ m.name \in Name \cup {NoName} /\ m.zone \in Zone
           /\ m.by \in Attempt /\ m.role \in User \X (0 .. NSlot) /\ m.names \in SUBSET Name
           /\ m.ok \in BOOLEAN /\ m.waiting \in BOOLEAN
           /\ m.at \in {"server", "caller"}
           /\ m.ret \in {"none", "success", "refused", "duplicate_roleid"}
<1>1. m \in Rpc /\ WellFormed(m)
  BY DEF Typed, TypeOK
<1> QED BY <1>1 DEF Rpc

\* A reply keeps the calls in their types.
LEMMA TypedReply ==
    ASSUME Typed, NEW m \in rpcs, NEW ret \in {"success", "refused", "duplicate_roleid"},
           NEW r \in User \X (0 .. NSlot), NEW ns \in SUBSET Name, Reply(m, ret, r, ns),
           m.op # "PreCreateRole" \/ ret = "success" => r \in Role
    PROVE  rpcs' \subseteq Rpc /\ \A c \in rpcs' : WellFormed(c)
<1> DEFINE c == Answer(m, ret, r, ns)
<1>1. m \in Rpc /\ WellFormed(m) /\ rpcs \subseteq Rpc /\ \A x \in rpcs : WellFormed(x)
  BY TypedRpcs DEF Typed, TypeOK
<1>2. /\ c \in Rpc /\ c.op = m.op /\ c.name = m.name /\ c.waiting = m.waiting
      /\ c.ret = ret /\ c.role = r
  BY <1>1, AnswerTyped
<1>3. m.waiting => WellFormed(c)
  BY <1>1, <1>2 DEF WellFormed
<1>4. \A x \in rpcs' : x \in rpcs \/ (x = c /\ m.waiting)
  BY ReplyEffect
<1> HIDE DEF c
<1> QED BY <1>1, <1>2, <1>3, <1>4

-------------------------------------------------------------------------------
(* The handlers of uniquenamed *)

LEMMA PreCreateRole_ServerStep ==
    ASSUME IInv, NEW m \in rpcs, PreCreateRole_Server(m)
    PROVE  IInv'
<1> DEFINE u == m.role[1]
           r == <<u, AddRole(u)>>
           refused == /\ Taken(m.name) \/ FreeSlots(u) = {}
                      /\ Reply(m, "refused", m.role, {})
                      /\ UNCHANGED <<registry, uidrole>>
           entry == [zone |-> m.zone, role |-> r, status |-> "ENGAGED"]
           engaged == /\ ~Taken(m.name) /\ FreeSlots(u) # {}
                      /\ registry' = [registry EXCEPT ![m.name] = entry]
                      /\ uidrole' = uidrole \cup {r}
                      /\ Reply(m, "success", r, {})
<1>1. /\ Typed /\ m.name \in Name /\ m.zone \in Zone /\ m.role \in User \X (0 .. NSlot)
      /\ u \in User /\ m \in Rpc /\ m.op = "PreCreateRole" /\ m.at = "server"
  <2>1. m.op = "PreCreateRole" /\ m.at = "server" /\ Typed
    BY DEF PreCreateRole_Server, AtServer, IInv
  <2> QED BY <2>1, TypedRpcs DEF WellFormed
<1>2. /\ refused \/ engaged
      /\ UNCHANGED <<base, his, rolename, fresh, crashes, doubtful>>
  BY DEF PreCreateRole_Server
<1>3. ZoneTablesAgree'
  BY <1>2 DEF IInv, ZoneTablesAgree
<1>4. CASE refused
  <2>1. rpcs' \subseteq Rpc /\ \A c \in rpcs' : WellFormed(c)
    BY <1>1, <1>4, TypedReply
  <2>2. Typed'
    BY <1>1, <1>2, <1>4, <2>1 DEF Typed, TypeOK
  <2>3. ASSUME NEW n \in Name \ doubtful PROVE NameOK(n)'
    <3>1. ~Claims(Answer(m, "refused", m.role, {}), n)
      BY <1>1, AnswerTyped DEF Claims
    <3> QED BY <1>2, <1>4, <3>1, QuietReply DEF IInv, NamesOK
  <2> QED BY <1>2, <1>3, <2>2, <2>3 DEF IInv, NamesOK
<1>5. CASE engaged
  <2>1. r \in Role \ uidrole /\ r \in User \X (0 .. NSlot)
    BY <1>1, <1>5, AddRoleIsFree, RoleInRpc
  <2>2. entry \in Entry /\ entry # Free
    BY <1>1, <2>1, NamesAssumption DEF Entry, Role, Slot
  <2> HIDE DEF r, entry
  <2>3. rpcs' \subseteq Rpc /\ \A c \in rpcs' : WellFormed(c)
    BY <1>1, <1>5, <2>1, TypedReply
  <2>4. Typed'
    <3>1. registry' \in [Name -> Entry \cup {Free}] /\ uidrole' \subseteq Role
      BY <1>1, <1>5, <2>1, <2>2 DEF Typed, TypeOK
    <3> QED BY <1>1, <1>2, <2>3, <3>1 DEF Typed, TypeOK
  <2>5. ASSUME NEW n \in Name \ doubtful PROVE NameOK(n)'
    <3>1. CASE n # m.name
      <4>1. ~Claims(Answer(m, "success", r, {}), n)
        BY <1>1, <2>1, <3>1, AnswerTyped DEF Claims
      <4>2. registry'[n] = registry[n]
        BY <1>1, <1>5, <3>1 DEF Typed, TypeOK
      <4> QED BY <1>2, <1>5, <4>1, <4>2, QuietReply DEF IInv, NamesOK
    <3>2. CASE n = m.name
      <4>1. registry[n] = Free /\ registry'[n] # Free
        BY <1>1, <1>5, <2>2, <3>2 DEF Typed, TypeOK, Taken
      <4> DEFINE calls == {Answer(m, "success", r, {})}
      <4>2. rpcs' \subseteq rpcs \cup calls /\ \A x, y \in calls : x = y
        BY <1>5, ReplyEffect
      <4>3. \A z \in Zone : rolename'[z][n] = rolename[z][n]
        BY <1>2
      <4> HIDE DEF calls
      <4> QED BY <4>1, <4>2, <4>3, Engages DEF IInv, NamesOK
    <3> QED BY <3>1, <3>2
  <2> QED BY <1>2, <1>3, <2>4, <2>5 DEF IInv, NamesOK
<1> QED BY <1>2, <1>4, <1>5

LEMMA PreChangeRolename_ServerStep ==
    ASSUME IInv, NEW m \in rpcs, PreChangeRolename_Server(m)
    PROVE  IInv'
<1> DEFINE refused == /\ Taken(m.name)
                      /\ Reply(m, "refused", m.role, {})
                      /\ UNCHANGED registry
           entry == [zone |-> m.zone, role |-> m.role, status |-> "ENGAGED"]
           engaged == /\ ~Taken(m.name)
                      /\ registry' = [registry EXCEPT ![m.name] = entry]
                      /\ Reply(m, "success", m.role, {})
<1>1. /\ Typed /\ m.name \in Name /\ m.zone \in Zone /\ m.role \in Role
      /\ m.role \in User \X (0 .. NSlot)
      /\ m \in Rpc /\ m.op = "PreChangeRolename" /\ m.at = "server"
  <2>1. m.op = "PreChangeRolename" /\ m.at = "server" /\ Typed
    BY DEF PreChangeRolename_Server, AtServer, IInv
  <2> QED BY <2>1, TypedRpcs DEF WellFormed
<1>2. /\ refused \/ engaged
      /\ UNCHANGED <<uidrole, base, his, rolename, fresh, crashes, doubtful>>
  BY DEF PreChangeRolename_Server
<1>3. ZoneTablesAgree'
  BY <1>2 DEF IInv, ZoneTablesAgree
<1>4. CASE refused
  <2>1. rpcs' \subseteq Rpc /\ \A c \in rpcs' : WellFormed(c)
    BY <1>1, <1>4, TypedReply
  <2>2. Typed'
    BY <1>1, <1>2, <1>4, <2>1 DEF Typed, TypeOK
  <2>3. ASSUME NEW n \in Name \ doubtful PROVE NameOK(n)'
    <3>1. ~Claims(Answer(m, "refused", m.role, {}), n)
      BY <1>1, AnswerTyped DEF Claims
    <3> QED BY <1>2, <1>4, <3>1, QuietReply DEF IInv, NamesOK
  <2> QED BY <1>2, <1>3, <2>2, <2>3 DEF IInv, NamesOK
<1>5. CASE engaged
  <2>1. entry \in Entry /\ entry # Free
    BY <1>1, NamesAssumption DEF Entry, Role, Slot
  <2> HIDE DEF entry
  <2>2. rpcs' \subseteq Rpc /\ \A c \in rpcs' : WellFormed(c)
    BY <1>1, <1>5, TypedReply
  <2>3. Typed'
    <3>1. registry' \in [Name -> Entry \cup {Free}]
      BY <1>1, <1>5, <2>1 DEF Typed, TypeOK
    <3> QED BY <1>1, <1>2, <2>2, <3>1 DEF Typed, TypeOK
  <2>4. ASSUME NEW n \in Name \ doubtful PROVE NameOK(n)'
    <3>1. CASE n # m.name
      <4>1. ~Claims(Answer(m, "success", m.role, {}), n)
        BY <1>1, <3>1, AnswerTyped DEF Claims
      <4>2. registry'[n] = registry[n]
        BY <1>1, <1>5, <3>1 DEF Typed, TypeOK
      <4> QED BY <1>2, <1>5, <4>1, <4>2, QuietReply DEF IInv, NamesOK
    <3>2. CASE n = m.name
      <4>1. registry[n] = Free /\ registry'[n] # Free
        BY <1>1, <1>5, <2>1, <3>2 DEF Typed, TypeOK, Taken
      <4> DEFINE calls == {Answer(m, "success", m.role, {})}
      <4>2. rpcs' \subseteq rpcs \cup calls /\ \A x, y \in calls : x = y
        BY <1>5, ReplyEffect
      <4>3. \A z \in Zone : rolename'[z][n] = rolename[z][n]
        BY <1>2
      <4> HIDE DEF calls
      <4> QED BY <4>1, <4>2, <4>3, Engages DEF IInv, NamesOK
    <3> QED BY <3>1, <3>2
  <2> QED BY <1>2, <1>3, <2>3, <2>4 DEF IInv, NamesOK
<1> QED BY <1>2, <1>4, <1>5

LEMMA PostCreateRole_ServerStep ==
    ASSUME IInv, NEW m \in rpcs, PostCreateRole_Server(m)
    PROVE  IInv'
<1> DEFINE entry == [zone |-> m.zone, role |-> m.role, status |-> "USED"]
           c == Answer(m, "success", m.role, {})
<1>1. /\ Typed /\ m.name \in Name /\ m.zone \in Zone /\ m.role \in Role
      /\ m.role \in User \X (0 .. NSlot)
      /\ m \in Rpc /\ m.op = "PostCreateRole" /\ m.at = "server"
  <2>1. m.op = "PostCreateRole" /\ m.at = "server" /\ Typed
    BY DEF PostCreateRole_Server, AtServer, IInv
  <2> QED BY <2>1, TypedRpcs DEF WellFormed
<1>2. /\ registry' = [registry EXCEPT ![m.name] = IF m.ok THEN entry ELSE Free]
      /\ uidrole' = IF m.ok THEN uidrole ELSE uidrole \ {m.role}
      /\ Reply(m, "success", m.role, {})
      /\ UNCHANGED <<base, his, rolename, fresh, crashes, doubtful>>
  BY DEF PostCreateRole_Server
<1>3. entry \in Entry /\ entry # Free
  BY <1>1, NamesAssumption DEF Entry, Role, Slot
<1> HIDE DEF entry
<1>4. Typed'
  <2>1. rpcs' \subseteq Rpc /\ \A x \in rpcs' : WellFormed(x)
    BY <1>1, <1>2, TypedReply
  <2>2. registry' \in [Name -> Entry \cup {Free}] /\ uidrole' \subseteq Role
    BY <1>1, <1>2, <1>3 DEF Typed, TypeOK
  <2> QED BY <1>1, <1>2, <2>1, <2>2 DEF Typed, TypeOK
<1>5. ZoneTablesAgree'
  BY <1>2 DEF IInv, ZoneTablesAgree
<1>6. ASSUME NEW n \in Name \ doubtful PROVE NameOK(n)'
  <2>1. ~Claims(c, n)
    BY <1>1, AnswerTyped DEF Claims
  <2>2. CASE n = m.name /\ ~m.ok
    <3>1. Claims(m, n)
      BY <1>1, <2>2 DEF Claims
    <3>2. rpcs' \subseteq (rpcs \ {m}) \cup {c}
      BY <1>2, ReplyEffect
    <3>3. \A z \in Zone : rolename'[z][n] = rolename[z][n]
      BY <1>2
    <3>4. \A x \in {c} : ~Claims(x, n)
      BY <2>1
    <3> HIDE DEF c
    <3> QED BY <3>1, <3>2, <3>3, <3>4, Releases DEF IInv, NamesOK
  <2>3. CASE n # m.name \/ m.ok
    <3>1. registry[n] # Free => registry'[n] # Free
      BY <1>1, <1>2, <1>3, <2>3 DEF Typed, TypeOK
    <3> QED BY <1>2, <2>1, <3>1, QuietReply DEF IInv, NamesOK
  <2> QED BY <2>2, <2>3
<1> QED BY <1>2, <1>4, <1>5, <1>6 DEF IInv, NamesOK

LEMMA PostChangeRolename_ServerStep ==
    ASSUME IInv, NEW m \in rpcs, PostChangeRolename_Server(m)
    PROVE  IInv'
<1> DEFINE entry == [zone |-> m.zone, role |-> m.role, status |-> "USED"]
           c == Answer(m, "success", m.role, m.names)
           kept(n) == IF m.ok /\ n \in m.names /\ BelongsTo(n, m.role)
                      THEN Obsolete(registry[n]) ELSE registry[n]
<1>1. /\ Typed /\ m.name \in Name /\ m.zone \in Zone /\ m.role \in Role /\ m.names \in SUBSET Name
      /\ m.role \in User \X (0 .. NSlot)
      /\ m \in Rpc /\ m.op = "PostChangeRolename" /\ m.at = "server"
  <2>1. m.op = "PostChangeRolename" /\ m.at = "server" /\ Typed
    BY DEF PostChangeRolename_Server, AtServer, IInv
  <2> QED BY <2>1, TypedRpcs DEF WellFormed
<1>2. /\ registry' = [n \in Name |-> IF n = m.name THEN IF m.ok THEN entry ELSE Free ELSE kept(n)]
      /\ Reply(m, "success", m.role, m.names)
      /\ UNCHANGED <<uidrole, base, his, rolename, fresh, crashes, doubtful>>
  BY DEF PostChangeRolename_Server
<1>3. entry \in Entry /\ entry # Free /\ Free \notin Entry
  BY <1>1, NamesAssumption DEF Entry, Role, Slot
<1> HIDE DEF entry
<1>4. \A n \in Name : /\ kept(n) \in Entry \cup {Free}
                      /\ registry[n] # Free => kept(n) # Free
  <2>1. ASSUME NEW e \in Entry PROVE Obsolete(e) \in Entry
    BY DEF Obsolete, Entry
  <2>2. \A n \in Name : registry[n] \in Entry \cup {Free}
    BY <1>1 DEF Typed, TypeOK
  <2> QED BY <1>3, <2>1, <2>2 DEF BelongsTo, Taken
<1> HIDE DEF kept
<1>5. Typed'
  <2>1. rpcs' \subseteq Rpc /\ \A x \in rpcs' : WellFormed(x)
    BY <1>1, <1>2, TypedReply
  <2>2. registry' \in [Name -> Entry \cup {Free}]
    BY <1>2, <1>3, <1>4
  <2> QED BY <1>1, <1>2, <2>1, <2>2 DEF Typed, TypeOK
<1>6. ZoneTablesAgree'
  BY <1>2 DEF IInv, ZoneTablesAgree
<1>7. ASSUME NEW n \in Name \ doubtful PROVE NameOK(n)'
  <2>1. ~Claims(c, n)
    BY <1>1, AnswerTyped DEF Claims
  <2>2. CASE n = m.name /\ ~m.ok
    <3>1. Claims(m, n)
      BY <1>1, <2>2 DEF Claims
    <3>2. rpcs' \subseteq (rpcs \ {m}) \cup {c}
      BY <1>2, ReplyEffect
    <3>3. \A z \in Zone : rolename'[z][n] = rolename[z][n]
      BY <1>2
    <3>4. \A x \in {c} : ~Claims(x, n)
      BY <2>1
    <3> HIDE DEF c
    <3> QED BY <3>1, <3>2, <3>3, <3>4, Releases DEF IInv, NamesOK
  <2>3. CASE n # m.name \/ m.ok
    <3>1. registry[n] # Free => registry'[n] # Free
      BY <1>2, <1>3, <1>4, <2>3
    <3> QED BY <1>2, <2>1, <3>1, QuietReply DEF IInv, NamesOK
  <2> QED BY <2>2, <2>3
<1> QED BY <1>2, <1>5, <1>6, <1>7 DEF IInv, NamesOK

LEMMA PostDeleteRole_ServerStep ==
    ASSUME IInv, NEW m \in rpcs, PostDeleteRole_Server(m)
    PROVE  IInv'
<1> DEFINE c == Answer(m, "success", m.role, m.names)
<1>1. /\ Typed /\ m.role \in Role /\ m.names \in SUBSET Name /\ m.role \in User \X (0 .. NSlot)
      /\ m \in Rpc /\ m.op = "PostDeleteRole" /\ m.at = "server"
  <2>1. m.op = "PostDeleteRole" /\ m.at = "server" /\ Typed
    BY DEF PostDeleteRole_Server, AtServer, IInv
  <2> QED BY <2>1, TypedRpcs DEF WellFormed
<1>2. /\ registry' = [n \in Name |->
             IF n \in m.names /\ BelongsTo(n, m.role) THEN Free ELSE registry[n]]
      /\ uidrole' = uidrole \ {m.role}
      /\ Reply(m, "success", m.role, m.names)
      /\ UNCHANGED <<base, his, rolename, fresh, crashes, doubtful>>
  BY DEF PostDeleteRole_Server
<1>3. Typed'
  <2>1. rpcs' \subseteq Rpc /\ \A x \in rpcs' : WellFormed(x)
    BY <1>1, <1>2, TypedReply
  <2>2. registry' \in [Name -> Entry \cup {Free}] /\ uidrole' \subseteq Role
    BY <1>1, <1>2 DEF Typed, TypeOK
  <2> QED BY <1>1, <1>2, <2>1, <2>2 DEF Typed, TypeOK
<1>4. ZoneTablesAgree'
  BY <1>2 DEF IInv, ZoneTablesAgree
<1>5. ASSUME NEW n \in Name \ doubtful PROVE NameOK(n)'
  <2>1. ~Claims(c, n)
    BY <1>1, AnswerTyped DEF Claims
  <2>2. CASE n \in m.names
    <3>1. Claims(m, n)
      BY <1>1, <2>2 DEF Claims
    <3>2. rpcs' \subseteq (rpcs \ {m}) \cup {c}
      BY <1>2, ReplyEffect
    <3>3. \A z \in Zone : rolename'[z][n] = rolename[z][n]
      BY <1>2
    <3>4. \A x \in {c} : ~Claims(x, n)
      BY <2>1
    <3> HIDE DEF c
    <3> QED BY <3>1, <3>2, <3>3, <3>4, Releases DEF IInv, NamesOK
  <2>3. CASE n \notin m.names
    <3>1. registry'[n] = registry[n]
      BY <1>2, <2>3
    <3> QED BY <1>2, <2>1, <3>1, QuietReply DEF IInv, NamesOK
  <2> QED BY <2>2, <2>3
<1> QED BY <1>2, <1>3, <1>4, <1>5 DEF IInv, NamesOK

-------------------------------------------------------------------------------
(* The handlers of gamedbd *)

LEMMA DBCreateRole_ServerStep ==
    ASSUME IInv, NEW m \in rpcs, DBCreateRole_Server(m)
    PROVE  IInv'
<1> DEFINE z == m.zone
           old == base[z][m.role]
           c(ret, ns) == Answer(m, ret, m.role, ns)
           refused == Reply(m, "refused", m.role, {}) /\ UNCHANGED <<base, rolename>>
           duplicate == /\ old # NoName
                        /\ Reply(m, "duplicate_roleid", m.role, {old})
                        /\ UNCHANGED <<base, rolename>>
           created == /\ rolename[z][m.name] = NoRole /\ old = NoName
                      /\ base' = [base EXCEPT ![z][m.role] = m.name]
                      /\ rolename' = [rolename EXCEPT ![z][m.name] = m.role]
                      /\ Reply(m, "success", m.role, {})
<1>1. /\ Typed /\ m.name \in Name /\ z \in Zone /\ m.role \in Role
      /\ m.role \in User \X (0 .. NSlot)
      /\ m \in Rpc /\ m.op = "DBCreateRole" /\ m.at = "server"
  <2>1. m.op = "DBCreateRole" /\ m.at = "server" /\ Typed
    BY DEF DBCreateRole_Server, AtServer, IInv
  <2> QED BY <2>1, TypedRpcs DEF WellFormed
<1>2. /\ refused \/ duplicate \/ created
      /\ UNCHANGED <<registry, uidrole, his, fresh, crashes, doubtful>>
  BY DEF DBCreateRole_Server
<1>3. base \in [Zone -> [Role -> Name \cup {NoName}]] /\ rolename \in [Zone -> [Name -> Role \cup {NoRole}]]
  BY <1>1 DEF Typed, TypeOK
<1>4. \A ret, ns, n : Claims(c(ret, ns), n) => Claims(m, n)
  BY <1>1 DEF Answer, Rpc, Claims
<1>5. CASE refused
  <2>1. rpcs' \subseteq Rpc /\ \A x \in rpcs' : WellFormed(x)
    BY <1>1, <1>5, TypedReply
  <2>2. Typed' /\ ZoneTablesAgree'
    BY <1>1, <1>2, <1>5, <2>1 DEF Typed, TypeOK, IInv, ZoneTablesAgree
  <2>3. ASSUME NEW n \in Name \ doubtful PROVE NameOK(n)'
    BY <1>2, <1>4, <1>5, QuietReply DEF IInv, NamesOK
  <2> QED BY <1>2, <2>2, <2>3 DEF IInv, NamesOK
<1>6. CASE duplicate
  <2>1. {old} \in SUBSET Name
    BY <1>1, <1>3, <1>6
  <2>2. rpcs' \subseteq Rpc /\ \A x \in rpcs' : WellFormed(x)
    BY <1>1, <1>6, <2>1, TypedReply
  <2>3. Typed' /\ ZoneTablesAgree'
    BY <1>1, <1>2, <1>6, <2>2 DEF Typed, TypeOK, IInv, ZoneTablesAgree
  <2>4. ASSUME NEW n \in Name \ doubtful PROVE NameOK(n)'
    BY <1>2, <1>4, <1>6, QuietReply DEF IInv, NamesOK
  <2> QED BY <1>2, <2>3, <2>4 DEF IInv, NamesOK
<1>7. CASE created
  <2>1. rpcs' \subseteq Rpc /\ \A x \in rpcs' : WellFormed(x)
    BY <1>1, <1>7, TypedReply
  <2>2. Typed'
    <3>1. /\ base' \in [Zone -> [Role -> Name \cup {NoName}]]
          /\ rolename' \in [Zone -> [Name -> Role \cup {NoRole}]]
      BY <1>1, <1>3, <1>7
    <3> QED BY <1>1, <1>2, <2>1, <3>1 DEF Typed, TypeOK
  <2>3. ZoneTablesAgree'
    <3> SUFFICES ASSUME NEW y \in Zone, NEW n \in Name, NEW r \in Role
                 PROVE  rolename'[y][n] = r <=> base'[y][r] = n \/ n \in his[y][r]
      BY <1>2 DEF ZoneTablesAgree
    <3>1. rolename[y][n] = r <=> base[y][r] = n \/ n \in his[y][r]
      BY DEF IInv, ZoneTablesAgree
    <3>2. CASE y = z /\ n = m.name
      <4>1. rolename'[y][n] = m.role /\ rolename[y][n] # r
        BY <1>1, <1>3, <1>7, <3>2, RoleInRpc
      <4>2. base'[y][r] = IF r = m.role THEN n ELSE base[y][r]
        BY <1>1, <1>3, <1>7, <3>2
      <4> QED BY <3>1, <4>1, <4>2
    <3>3. CASE y = z /\ n # m.name
      <4>1. rolename'[y][n] = rolename[y][n]
        BY <1>1, <1>3, <1>7, <3>3
      <4>2. base'[y][r] = IF r = m.role THEN m.name ELSE base[y][r]
        BY <1>1, <1>3, <1>7, <3>3
      <4>3. base[y][m.role] # n
        BY <1>7, <3>3, NamesAssumption
      <4> QED BY <3>1, <3>3, <4>1, <4>2, <4>3
    <3>4. CASE y # z
      <4>1. rolename'[y] = rolename[y] /\ base'[y] = base[y]
        BY <1>1, <1>3, <1>7, <3>4
      <4> QED BY <3>1, <4>1
    <3> QED BY <3>2, <3>3, <3>4
  <2>4. ASSUME NEW n \in Name \ doubtful PROVE NameOK(n)'
    <3>1. CASE n # m.name
      <4>1. \A y \in Zone : rolename'[y][n] = rolename[y][n]
        BY <1>1, <1>3, <1>7, <3>1
      <4> QED BY <1>2, <1>4, <1>7, <4>1, QuietReply DEF IInv, NamesOK
    <3>2. CASE n = m.name
      <4> DEFINE calls == {c("success", {})}
      <4>1. rpcs' \subseteq (rpcs \ {m}) \cup calls
        BY <1>7, ReplyEffect
      <4>2. \A x \in calls : ~Claims(x, n)
        BY <1>1, AnswerTyped DEF Claims
      <4>3. Claims(m, n)
        BY <1>1, <3>2 DEF Claims
      <4>4. \A y \in Zone : rolename'[y][n] # NoRole => y = z \/ rolename[y][n] # NoRole
        BY <1>1, <1>3, <1>7, <3>2
      <4> HIDE DEF calls
      <4> QED BY <1>1, <1>2, <4>1, <4>2, <4>3, <4>4, Enters DEF IInv, NamesOK
    <3> QED BY <3>1, <3>2
  <2> QED BY <1>2, <2>2, <2>3, <2>4 DEF IInv, NamesOK
<1> QED BY <1>2, <1>5, <1>6, <1>7

LEMMA DBDeleteRole_ServerStep ==
    ASSUME IInv, NEW m \in rpcs, DBDeleteRole_Server(m)
    PROVE  IInv'
<1> DEFINE z == m.zone
           gone == NamesOf(z, m.role)
           c(ret, ns) == Answer(m, ret, m.role, ns)
           refused == Reply(m, "refused", m.role, {}) /\ UNCHANGED <<base, his, rolename>>
           deleted == /\ base' = [base EXCEPT ![z][m.role] = NoName]
                      /\ his' = [his EXCEPT ![z][m.role] = {}]
                      /\ rolename' = [rolename EXCEPT ![z] =
                                         [n \in Name |-> IF n \in gone THEN NoRole ELSE @[n]]]
                      /\ Reply(m, "success", m.role, gone)
<1>1. /\ Typed /\ z \in Zone /\ m.role \in Role /\ m.role \in User \X (0 .. NSlot)
      /\ m \in Rpc /\ m.op = "DBDeleteRole" /\ m.at = "server"
  <2>1. m.op = "DBDeleteRole" /\ m.at = "server" /\ Typed
    BY DEF DBDeleteRole_Server, AtServer, IInv
  <2> QED BY <2>1, TypedRpcs DEF WellFormed
<1>2. /\ refused \/ deleted
      /\ UNCHANGED <<registry, uidrole, fresh, crashes, doubtful>>
  BY DEF DBDeleteRole_Server
<1>3. /\ base \in [Zone -> [Role -> Name \cup {NoName}]]
      /\ his \in [Zone -> [Role -> SUBSET Name]]
      /\ rolename \in [Zone -> [Name -> Role \cup {NoRole}]]
  BY <1>1 DEF Typed, TypeOK
<1>4. gone \in SUBSET Name
  BY <1>1, <1>3 DEF NamesOf
<1>5. \A n \in Name : n \in gone <=> rolename[z][n] = m.role
  <2> TAKE n \in Name
  <2>1. rolename[z][n] = m.role <=> base[z][m.role] = n \/ n \in his[z][m.role]
    BY <1>1 DEF IInv, ZoneTablesAgree
  <2>2. n # NoName
    BY NamesAssumption
  <2> QED BY <2>1, <2>2 DEF NamesOf
<1>6. CASE refused
  <2>1. rpcs' \subseteq Rpc /\ \A x \in rpcs' : WellFormed(x)
    BY <1>1, <1>6, TypedReply
  <2>2. Typed' /\ ZoneTablesAgree'
    BY <1>1, <1>2, <1>6, <2>1 DEF Typed, TypeOK, IInv, ZoneTablesAgree
  <2>3. ASSUME NEW n \in Name \ doubtful PROVE NameOK(n)'
    <3>1. ~Claims(c("refused", {}), n)
      BY <1>1, AnswerTyped DEF Claims
    <3> QED BY <1>2, <1>6, <3>1, QuietReply DEF IInv, NamesOK
  <2> QED BY <1>2, <2>2, <2>3 DEF IInv, NamesOK
<1>7. CASE deleted
  <2>1. /\ \A n \in Name : rolename'[z][n] = IF n \in gone THEN NoRole ELSE rolename[z][n]
        /\ \A y \in Zone : y # z => rolename'[y] = rolename[y]
    BY <1>1, <1>3, <1>7
  <2>2. rpcs' \subseteq Rpc /\ \A x \in rpcs' : WellFormed(x)
    BY <1>1, <1>4, <1>7, TypedReply
  <2>3. Typed'
    <3>1. /\ base' \in [Zone -> [Role -> Name \cup {NoName}]]
          /\ his' \in [Zone -> [Role -> SUBSET Name]]
      BY <1>1, <1>3, <1>7
    <3>2. rolename' \in [Zone -> [Name -> Role \cup {NoRole}]]
      BY <1>1, <1>3, <1>7
    <3> QED BY <1>1, <1>2, <2>2, <3>1, <3>2 DEF Typed, TypeOK
  <2>4. ZoneTablesAgree'
    <3> SUFFICES ASSUME NEW y \in Zone, NEW n \in Name, NEW r \in Role
                 PROVE  rolename'[y][n] = r <=> base'[y][r] = n \/ n \in his'[y][r]
      BY DEF ZoneTablesAgree
    <3>1. rolename[y][n] = r <=> base[y][r] = n \/ n \in his[y][r]
      BY DEF IInv, ZoneTablesAgree
    <3>2. n # NoName /\ r # NoRole
      BY NamesAssumption, RoleInRpc
    <3>3. CASE y = z /\ r = m.role
      <4>1. base'[y][r] = NoName /\ his'[y][r] = {}
        BY <1>1, <1>3, <1>7, <3>3
      <4> QED BY <1>5, <2>1, <3>2, <3>3, <4>1
    <3>4. CASE y = z /\ r # m.role
      <4>1. base'[y][r] = base[y][r] /\ his'[y][r] = his[y][r]
        BY <1>1, <1>3, <1>7, <3>4
      <4> QED BY <1>5, <2>1, <3>1, <3>2, <3>4, <4>1
    <3>5. CASE y # z
      <4>1. base'[y] = base[y] /\ his'[y] = his[y]
        BY <1>1, <1>3, <1>7, <3>5
      <4> QED BY <2>1, <3>1, <3>5, <4>1
    <3> QED BY <3>3, <3>4, <3>5
  <2>5. ASSUME NEW n \in Name \ doubtful PROVE NameOK(n)'
    <3> HIDE DEF gone
    <3>1. CASE n \notin gone
      <4>1. ~Claims(c("success", gone), n)
        BY <1>1, <1>4, <3>1, AnswerTyped DEF Claims
      <4>2. \A y \in Zone : rolename'[y][n] = rolename[y][n]
        BY <2>1, <3>1
      <4> QED BY <1>2, <1>7, <4>1, <4>2, QuietReply DEF IInv, NamesOK
    <3>2. CASE n \in gone
      <4> DEFINE calls == {c("success", gone)}
      <4>1. rpcs' \subseteq rpcs \cup calls /\ \A v, w \in calls : v = w
        BY <1>7, ReplyEffect
      <4>2. rolename[z][n] # NoRole /\ rolename'[z][n] = NoRole
        BY <1>1, <1>5, <2>1, <3>2, RoleInRpc
      <4>3. \A y \in Zone : y # z => rolename'[y][n] = rolename[y][n]
        BY <2>1
      <4> HIDE DEF calls
      <4> QED BY <1>1, <1>2, <4>1, <4>2, <4>3, Leaves DEF IInv, NamesOK
    <3> QED BY <3>1, <3>2
  <2> QED BY <1>2, <2>3, <2>4, <2>5 DEF IInv, NamesOK
<1> QED BY <1>2, <1>6, <1>7

LEMMA DBChangeRolename_ServerStep ==
    ASSUME IInv, NEW m \in rpcs, DBChangeRolename_Server(m)
    PROVE  IInv'
<1> DEFINE z == m.zone
           old == base[z][m.role]
           c(ret, ns) == Answer(m, ret, m.role, ns)
           refused == Reply(m, "refused", m.role, {}) /\ UNCHANGED <<base, his, rolename>>
           renamed == /\ rolename[z][m.name] = NoRole /\ old # NoName
                      /\ base' = [base EXCEPT ![z][m.role] = m.name]
                      /\ his' = [his EXCEPT ![z][m.role] = @ \cup {old}]
                      /\ rolename' = [rolename EXCEPT ![z][m.name] = m.role]
                      /\ Reply(m, "success", m.role, {old})
<1>1. /\ Typed /\ m.name \in Name /\ z \in Zone /\ m.role \in Role
      /\ m.role \in User \X (0 .. NSlot)
      /\ m \in Rpc /\ m.op = "DBChangeRolename" /\ m.at = "server"
  <2>1. m.op = "DBChangeRolename" /\ m.at = "server" /\ Typed
    BY DEF DBChangeRolename_Server, AtServer, IInv
  <2> QED BY <2>1, TypedRpcs DEF WellFormed
<1>2. /\ refused \/ renamed
      /\ UNCHANGED <<registry, uidrole, fresh, crashes, doubtful>>
  BY DEF DBChangeRolename_Server
<1>3. /\ base \in [Zone -> [Role -> Name \cup {NoName}]]
      /\ his \in [Zone -> [Role -> SUBSET Name]]
      /\ rolename \in [Zone -> [Name -> Role \cup {NoRole}]]
  BY <1>1 DEF Typed, TypeOK
<1>4. \A ret, ns, n : Claims(c(ret, ns), n) => Claims(m, n)
  BY <1>1 DEF Answer, Rpc, Claims
<1>5. CASE refused
  <2>1. rpcs' \subseteq Rpc /\ \A x \in rpcs' : WellFormed(x)
    BY <1>1, <1>5, TypedReply
  <2>2. Typed' /\ ZoneTablesAgree'
    BY <1>1, <1>2, <1>5, <2>1 DEF Typed, TypeOK, IInv, ZoneTablesAgree
  <2>3. ASSUME NEW n \in Name \ doubtful PROVE NameOK(n)'
    BY <1>2, <1>4, <1>5, QuietReply DEF IInv, NamesOK
  <2> QED BY <1>2, <2>2, <2>3 DEF IInv, NamesOK
<1>6. CASE renamed
  <2>1. {old} \in SUBSET Name
    BY <1>1, <1>3, <1>6
  <2>2. rpcs' \subseteq Rpc /\ \A x \in rpcs' : WellFormed(x)
    BY <1>1, <1>6, <2>1, TypedReply
  <2>3. Typed'
    <3>1. base' \in [Zone -> [Role -> Name \cup {NoName}]]
      BY <1>1, <1>3, <1>6
    <3>2. his' \in [Zone -> [Role -> SUBSET Name]]
      BY <1>1, <1>3, <1>6, <2>1
    <3>3. rolename' \in [Zone -> [Name -> Role \cup {NoRole}]]
      BY <1>1, <1>3, <1>6
    <3> QED BY <1>1, <1>2, <2>2, <3>1, <3>2, <3>3 DEF Typed, TypeOK
  <2>4. ZoneTablesAgree'
    <3> SUFFICES ASSUME NEW y \in Zone, NEW n \in Name, NEW r \in Role
                 PROVE  rolename'[y][n] = r <=> base'[y][r] = n \/ n \in his'[y][r]
      BY DEF ZoneTablesAgree
    <3>1. rolename[y][n] = r <=> base[y][r] = n \/ n \in his[y][r]
      BY DEF IInv, ZoneTablesAgree
    <3>2. n # NoName /\ r # NoRole
      BY NamesAssumption, RoleInRpc
    <3>3. CASE y = z /\ n = m.name
      <4>1. rolename'[y][n] = m.role /\ rolename[y][n] # r
        BY <1>1, <1>3, <1>6, <3>2, <3>3
      <4>2. /\ base'[y][r] = IF r = m.role THEN n ELSE base[y][r]
            /\ his'[y][r] = IF r = m.role THEN his[y][r] \cup {old} ELSE his[y][r]
        BY <1>1, <1>3, <1>6, <3>3
      <4> QED BY <3>1, <4>1, <4>2
    <3>4. CASE y = z /\ n # m.name
      <4>1. rolename'[y][n] = rolename[y][n]
        BY <1>1, <1>3, <1>6, <3>4
      <4>2. /\ base'[y][r] = IF r = m.role THEN m.name ELSE base[y][r]
            /\ his'[y][r] = IF r = m.role THEN his[y][r] \cup {old} ELSE his[y][r]
        BY <1>1, <1>3, <1>6, <3>4
      <4> QED BY <3>1, <3>4, <4>1, <4>2
    <3>5. CASE y # z
      <4>1. rolename'[y] = rolename[y] /\ base'[y] = base[y] /\ his'[y] = his[y]
        BY <1>1, <1>3, <1>6, <3>5
      <4> QED BY <3>1, <4>1
    <3> QED BY <3>3, <3>4, <3>5
  <2>5. ASSUME NEW n \in Name \ doubtful PROVE NameOK(n)'
    <3>1. CASE n # m.name
      <4>1. \A y \in Zone : rolename'[y][n] = rolename[y][n]
        BY <1>1, <1>3, <1>6, <3>1
      <4> QED BY <1>2, <1>4, <1>6, <4>1, QuietReply DEF IInv, NamesOK
    <3>2. CASE n = m.name
      <4> DEFINE calls == {c("success", {old})}
      <4>1. rpcs' \subseteq (rpcs \ {m}) \cup calls
        BY <1>6, ReplyEffect
      <4>2. \A x \in calls : ~Claims(x, n)
        BY <1>1, <2>1, AnswerTyped DEF Claims
      <4>3. Claims(m, n)
        BY <1>1, <3>2 DEF Claims
      <4>4. \A y \in Zone : rolename'[y][n] # NoRole => y = z \/ rolename[y][n] # NoRole
        BY <1>1, <1>3, <1>6, <3>2
      <4> HIDE DEF calls
      <4> QED BY <1>1, <1>2, <4>1, <4>2, <4>3, <4>4, Enters DEF IInv, NamesOK
    <3> QED BY <3>1, <3>2
  <2> QED BY <1>2, <2>3, <2>4, <2>5 DEF IInv, NamesOK
<1> QED BY <1>2, <1>5, <1>6

-------------------------------------------------------------------------------
(* The steps of players and of gdeliveryd, which change no table *)

LEMMA CallWellFormed ==
    ASSUME NEW op, NEW a, NEW z, NEW r, NEW n, NEW ns, NEW ok,
           op \in {"DBDeleteRole", "PostDeleteRole"} \/ n \in Name,
           op = "PreCreateRole" \/ r \in Role
    PROVE  WellFormed(Call(op, a, z, r, n, ns, ok)) /\ WellFormed(Tell(op, a, z, r, n, ns, ok))
BY DEF WellFormed, Call, Tell

\* Such a step keeps the invariant when the calls it makes claim, in place of a call
\* that ends, what that call claimed.
LEMMA CallsOnly ==
    ASSUME IInv, UNCHANGED tables,
           fresh' \subseteq Attempt, crashes' \in 0 .. MaxCrash,
           doubtful' \subseteq Name, doubtful \subseteq doubtful',
           NEW kept \in SUBSET rpcs, NEW calls, rpcs' \subseteq kept \cup calls,
           \A c \in calls : c \in Rpc /\ WellFormed(c),
           \A n \in Name \ doubtful' :
               /\ \A x, y \in calls : Claims(x, n) /\ Claims(y, n) => x = y
               /\ \A x \in calls : Claims(x, n) => \E m \in rpcs \ kept : Claims(m, n)
    PROVE  IInv'
<1>1. UNCHANGED <<registry, uidrole, base, his, rolename>>
  BY DEF tables
<1>2. Typed'
  <2>1. rpcs' \subseteq Rpc /\ \A c \in rpcs' : WellFormed(c)
    BY DEF IInv, Typed, TypeOK
  <2> QED BY <1>1, <2>1 DEF IInv, Typed, TypeOK
<1>3. ZoneTablesAgree'
  BY <1>1 DEF IInv, ZoneTablesAgree
<1>4. ASSUME NEW n \in Name \ doubtful' PROVE NameOK(n)'
  BY <1>1, Quiet DEF IInv, NamesOK
<1> QED BY <1>2, <1>3, <1>4 DEF IInv, NamesOK

LEMMA RequestsStep ==
    ASSUME IInv, Requests
    PROVE  IInv'
<1>1. PICK a \in Attempt, z \in Zone :
          \/ \E u \in User, n \in Name : CreateRole(a, z, u, n)
          \/ \E r \in Role : DeleteRole(a, z, r)
          \/ \E r \in Role, n \in Name : ChangeRolename(a, z, r, n)
  BY DEF Requests
<1>2. ASSUME NEW c, rpcs' = rpcs \cup {c}, c \in Rpc, WellFormed(c), \A n \in Name : ~Claims(c, n),
             UNCHANGED <<tables, crashes, doubtful>>, fresh' = fresh \ {a}
      PROVE  IInv'
  <2> DEFINE calls == {c}
  <2>1. rpcs' \subseteq rpcs \cup calls /\ \A x \in calls : x \in Rpc /\ WellFormed(x)
    BY <1>2
  <2>2. \A n \in Name \ doubtful' :
            /\ \A x, y \in calls : Claims(x, n) /\ Claims(y, n) => x = y
            /\ \A x \in calls : Claims(x, n) => \E m \in rpcs \ rpcs : Claims(m, n)
    BY <1>2
  <2>3. fresh' \subseteq Attempt /\ crashes' \in 0 .. MaxCrash /\ doubtful' \subseteq Name
    BY <1>2 DEF IInv, Typed, TypeOK
  <2> HIDE DEF calls
  <2> QED BY <1>2, <2>1, <2>2, <2>3, CallsOnly
<1>3. ASSUME NEW u \in User, NEW n \in Name, CreateRole(a, z, u, n)
      PROVE  IInv'
  <2> DEFINE c == Call("PreCreateRole", a, z, <<u, 0>>, n, {}, FALSE)
  <2>1. <<u, 0>> \in User \X (0 .. NSlot)
    BY NamesAssumption
  <2>2. c \in Rpc
    BY <2>1, CallTyped DEF Ops
  <2>3. WellFormed(c) /\ \A k \in Name : ~Claims(c, k)
    BY CallWellFormed DEF Claims, Call
  <2> QED BY <1>2, <1>3, <2>2, <2>3 DEF CreateRole
<1>4. ASSUME NEW r \in Role, DeleteRole(a, z, r)
      PROVE  IInv'
  <2> DEFINE c == Call("DBDeleteRole", a, z, r, NoName, {}, FALSE)
  <2>1. c \in Rpc
    BY RoleInRpc, CallTyped DEF Ops
  <2>2. WellFormed(c) /\ \A k \in Name : ~Claims(c, k)
    BY CallWellFormed DEF Claims, Call
  <2> QED BY <1>2, <1>4, <2>1, <2>2 DEF DeleteRole
<1>5. ASSUME NEW r \in Role, NEW n \in Name, ChangeRolename(a, z, r, n)
      PROVE  IInv'
  <2> DEFINE c == Call("PreChangeRolename", a, z, r, n, {}, FALSE)
  <2>1. c \in Rpc
    BY RoleInRpc, CallTyped DEF Ops
  <2>2. WellFormed(c) /\ \A k \in Name : ~Claims(c, k)
    BY CallWellFormed DEF Claims, Call
  <2> QED BY <1>2, <1>5, <2>1, <2>2 DEF ChangeRolename
<1> QED BY <1>1, <1>3, <1>4, <1>5

\* The answer to m ends it with calls that claim no more than m.
LEMMA DoneStep ==
    ASSUME IInv, NEW m \in rpcs, NEW calls, Done(m, calls),
           UNCHANGED <<tables, fresh, crashes, doubtful>>,
           \A c \in calls : c \in Rpc /\ WellFormed(c),
           \A n \in Name : /\ \A x, y \in calls : Claims(x, n) /\ Claims(y, n) => x = y
                           /\ \A x \in calls : Claims(x, n) => Claims(m, n)
    PROVE  IInv'
<1>1. rpcs' \subseteq (rpcs \ {m}) \cup calls /\ rpcs \ {m} \in SUBSET rpcs
  BY DEF Done
<1>2. fresh' \subseteq Attempt /\ crashes' \in 0 .. MaxCrash /\ doubtful' \subseteq Name
  BY DEF IInv, Typed, TypeOK
<1>3. m \in rpcs \ (rpcs \ {m})
  OBVIOUS
<1> QED BY <1>1, <1>2, <1>3, CallsOnly

\* The next call of a chain is for the same name.
LEMMA ClientStep ==
    ASSUME IInv, NEW m \in rpcs, Client(m)
    PROVE  IInv'
<1>1. /\ m.by \in Attempt /\ m.zone \in Zone /\ m.role \in User \X (0 .. NSlot)
      /\ m.names \in SUBSET Name /\ m.name \in Name \cup {NoName} /\ WellFormed(m)
  BY TypedRpcs DEF IInv
<1>2. ASSUME NEW next, Done(m, {x \in {next} : m.ret = "success"}),
             UNCHANGED <<tables, fresh, crashes, doubtful>>,
             m.ret = "success" => next \in Rpc /\ WellFormed(next),
             \A n \in Name : m.ret = "success" /\ Claims(next, n) => Claims(m, n)
      PROVE  IInv'
  <2> DEFINE calls == {x \in {next} : m.ret = "success"}
  <2>1. /\ \A c \in calls : c \in Rpc /\ WellFormed(c)
        /\ \A n \in Name : /\ \A x, y \in calls : Claims(x, n) /\ Claims(y, n) => x = y
                           /\ \A x \in calls : Claims(x, n) => Claims(m, n)
    BY <1>2
  <2>2. Done(m, calls)
    BY <1>2
  <2> HIDE DEF calls
  <2> QED BY <1>2, <2>1, <2>2, DoneStep
<1>3. CASE PreCreateRole_Client(m)
  <2> DEFINE next == Call("DBCreateRole", m.by, m.zone, m.role, m.name, {}, FALSE)
  <2>1. m.op = "PreCreateRole" /\ m.at = "caller" /\ m.name \in Name
    BY <1>1, <1>3 DEF PreCreateRole_Client, Answered, WellFormed
  <2>2. next \in Rpc /\ (m.ret = "success" => WellFormed(next))
    BY <1>1, <2>1, CallTyped, CallWellFormed DEF Ops, WellFormed
  <2>3. \A n \in Name : m.ret = "success" /\ Claims(next, n) => Claims(m, n)
    BY <2>1 DEF Claims, Call, Tell
  <2> QED BY <1>2, <1>3, <2>2, <2>3 DEF PreCreateRole_Client
<1>4. CASE PreChangeRolename_Client(m)
  <2> DEFINE next == Call("DBChangeRolename", m.by, m.zone, m.role, m.name, {}, FALSE)
  <2>1. m.op = "PreChangeRolename" /\ m.at = "caller" /\ m.name \in Name
    BY <1>1, <1>4 DEF PreChangeRolename_Client, Answered, WellFormed
  <2>2. next \in Rpc /\ WellFormed(next)
    BY <1>1, <2>1, CallTyped, CallWellFormed DEF Ops, WellFormed
  <2>3. \A n \in Name : m.ret = "success" /\ Claims(next, n) => Claims(m, n)
    BY <2>1 DEF Claims, Call, Tell
  <2> QED BY <1>2, <1>4, <2>2, <2>3 DEF PreChangeRolename_Client
<1>5. CASE DBDeleteRole_Client(m)
  <2> DEFINE next == Tell("PostDeleteRole", m.by, m.zone, m.role, NoName, m.names, FALSE)
  <2>1. m.op = "DBDeleteRole" /\ m.at = "caller" /\ m.role \in Role
    BY <1>1, <1>5 DEF DBDeleteRole_Client, Answered, WellFormed
  <2>2. next \in Rpc /\ WellFormed(next)
    BY <1>1, <2>1, CallTyped, CallWellFormed DEF Ops
  <2>3. \A n \in Name : m.ret = "success" /\ Claims(next, n) => Claims(m, n)
    BY <2>1 DEF Claims, Call, Tell
  <2> QED BY <1>2, <1>5, <2>2, <2>3 DEF DBDeleteRole_Client
<1>6. CASE DBCreateRole_Client(m)
  <2> DEFINE dup == m.ret = "duplicate_roleid"
             ok == dup \/ m.ret = "success"
             post(n) == Call("PostCreateRole", m.by, m.zone, m.role, n, {}, ok)
             reported == IF dup THEN m.names ELSE {m.name}
             calls == {post(n) : n \in reported}
  <2>1. m.op = "DBCreateRole" /\ m.name \in Name /\ m.role \in Role
    BY <1>1, <1>6 DEF DBCreateRole_Client, Answered, WellFormed
  <2>2. Done(m, calls) /\ UNCHANGED <<tables, fresh, crashes, doubtful>>
    BY <1>6 DEF DBCreateRole_Client
  <2>3. ok \in BOOLEAN /\ reported \in SUBSET Name
    BY <1>1, <2>1
  <2>4. ASSUME NEW n \in reported
        PROVE  /\ post(n) \in Rpc /\ WellFormed(post(n))
               /\ \A k \in Name : Claims(post(n), k) => ~ok /\ n = k
    <3> HIDE DEF ok, reported
    <3>1. n \in Name
      BY <2>3
    <3>2. post(n) \in Rpc /\ WellFormed(post(n))
      BY <1>1, <2>1, <2>3, <3>1, CallTyped, CallWellFormed DEF Ops
    <3> QED BY <2>3, <3>2, CallClaims
  <2>5. \A c \in calls : c \in Rpc /\ WellFormed(c)
    BY <2>4
  <2>6. \A k \in Name : /\ \A x, y \in calls : Claims(x, k) /\ Claims(y, k) => x = y
                        /\ \A x \in calls : Claims(x, k) => ~ok /\ k \in reported
    <3> HIDE DEF ok, reported, post
    <3> QED BY <2>4
  <2>7. \A k \in Name : ~ok /\ k \in reported => Claims(m, k)
    BY <2>1 DEF Claims
  <2> HIDE DEF calls, ok, reported
  <2> QED BY <2>2, <2>5, <2>6, <2>7, DoneStep
<1>7. CASE DBChangeRolename_Client(m)
  <2> DEFINE ok == m.ret = "success"
             c == Tell("PostChangeRolename", m.by, m.zone, m.role, m.name, m.names, ok)
             calls == {c}
  <2>1. /\ m.op = "DBChangeRolename" /\ m.name \in Name /\ m.role \in Role
        /\ Done(m, calls) /\ UNCHANGED <<tables, fresh, crashes, doubtful>>
    BY <1>1, <1>7 DEF DBChangeRolename_Client, Answered, WellFormed
  <2>2. ok \in BOOLEAN
    OBVIOUS
  <2>3. /\ \A k \in Name : ~ok /\ m.name = k => Claims(m, k)
    BY <2>1 DEF Claims
  <2> HIDE DEF ok
  <2>4. c \in Rpc /\ WellFormed(c)
    BY <1>1, <2>1, <2>2, CallTyped, CallWellFormed DEF Ops
  <2>5. \A k \in Name : Claims(c, k) => ~ok /\ m.name = k
    BY <2>2, CallClaims
  <2>6. /\ \A x \in calls : x \in Rpc /\ WellFormed(x)
        /\ \A n \in Name : /\ \A x, y \in calls : Claims(x, n) /\ Claims(y, n) => x = y
                           /\ \A x \in calls : Claims(x, n) => Claims(m, n)
    BY <2>3, <2>4, <2>5
  <2> HIDE DEF calls
  <2> QED BY <2>1, <2>6, DoneStep
<1>8. CASE PostCreateRole_Client(m)
  <2>1. Done(m, {}) /\ UNCHANGED <<tables, fresh, crashes, doubtful>>
    BY <1>8 DEF PostCreateRole_Client
  <2> QED BY <2>1, DoneStep
<1> QED BY <1>3, <1>4, <1>5, <1>6, <1>7, <1>8 DEF Client

\* A timeout leaves the request under way, and makes the names of the calls it adds
\* doubtful.
LEMMA OnTimeoutStep ==
    ASSUME IInv, NEW m \in rpcs, OnTimeout(m)
    PROVE  IInv'
<1>1. /\ m.by \in Attempt /\ m.zone \in Zone /\ m.role \in User \X (0 .. NSlot)
      /\ m.name \in Name \cup {NoName} /\ WellFormed(m) /\ m \in Rpc
  BY TypedRpcs DEF IInv
<1>2. ASSUME NEW more, GiveUp(m, more), UNCHANGED <<tables, fresh, crashes>>,
             doubtful \subseteq doubtful', doubtful' \subseteq Name,
             \A c \in more : c \in Rpc /\ WellFormed(c),
             \A c \in more, n \in Name \ doubtful' : ~Claims(c, n)
      PROVE  IInv'
  <2> DEFINE calls == GivenUp(m) \cup more
             kept == rpcs \ {m}
  <2>1. rpcs' \subseteq kept \cup calls /\ kept \in SUBSET rpcs
    BY <1>2 DEF GiveUp
  <2>2. fresh' \subseteq Attempt /\ crashes' \in 0 .. MaxCrash
    BY <1>2 DEF IInv, Typed, TypeOK
  <2>3. \A c \in GivenUp(m) : c \in Rpc /\ WellFormed(c) /\ \A n : Claims(c, n) => Claims(m, n)
    BY <1>1, GivenUpAlike
  <2>4. \A c \in calls : c \in Rpc /\ WellFormed(c)
    BY <1>2, <2>3
  <2>5. \A c, d \in GivenUp(m) : c = d
    BY DEF GivenUp
  <2>6. ASSUME NEW n \in Name \ doubtful'
        PROVE  /\ \A x, y \in calls : Claims(x, n) /\ Claims(y, n) => x = y
               /\ \A x \in calls : Claims(x, n) => \E y \in rpcs \ kept : Claims(y, n)
    <3>1. \A x \in calls : Claims(x, n) => x \in GivenUp(m)
      BY <1>2
    <3>2. m \in rpcs \ kept
      OBVIOUS
    <3> HIDE DEF calls, kept
    <3> QED BY <2>3, <2>5, <3>1, <3>2
  <2>7. UNCHANGED tables
    BY <1>2
  <2> HIDE DEF calls, kept
  <2> QED BY <1>2, <2>1, <2>2, <2>4, <2>6, <2>7, CallsOnly
<1>3. CASE DBCreateRole_OnTimeout(m)
  <2> DEFINE rollback == Tell("DBDeleteRole", m.by, m.zone, m.role, NoName, {}, TRUE)
             release == Call("PostCreateRole", m.by, m.zone, m.role, m.name, {}, FALSE)
  <2>1. /\ m.op = "DBCreateRole" /\ m.name \in Name /\ m.role \in Role
        /\ GiveUp(m, {rollback, release}) /\ doubtful' = doubtful \cup {m.name}
        /\ UNCHANGED <<tables, fresh, crashes>>
    BY <1>1, <1>3 DEF DBCreateRole_OnTimeout, TimesOut, WellFormed
  <2>2. rollback \in Rpc /\ release \in Rpc
    BY <1>1, <2>1, CallTyped DEF Ops
  <2>3. WellFormed(rollback) /\ WellFormed(release)
    BY <2>1, CallWellFormed
  <2>4. \A n \in Name : /\ ~Claims(rollback, n)
                        /\ n # m.name => ~Claims(release, n)
    BY DEF Claims, Call, Tell
  <2>5. doubtful' \subseteq Name
    BY <2>1 DEF IInv, Typed, TypeOK
  <2> HIDE DEF rollback, release
  <2> QED BY <1>2, <2>1, <2>2, <2>3, <2>4, <2>5
<1>4. CASE PostCreateRole_OnTimeout(m)
  <2> DEFINE copy == [m EXCEPT !.try = @ + 1, !.at = "server", !.ret = "none"]
  <2>1. /\ m.op = "PostCreateRole" /\ m.try < MaxTry /\ m.name \in Name
        /\ GiveUp(m, {copy}) /\ doubtful' = IF m.ok THEN doubtful ELSE doubtful \cup {m.name}
        /\ UNCHANGED <<tables, fresh, crashes>>
    BY <1>1, <1>4 DEF PostCreateRole_OnTimeout, TimesOut, WellFormed
  <2>2. /\ copy.op = m.op /\ copy.name = m.name /\ copy.ok = m.ok /\ copy.role = m.role
        /\ copy.ret = "none"
    BY <1>1 DEF Rpc
  <2>3. copy \in Rpc
    <3>1. m.try + 1 \in 1 .. MaxTry
      BY <1>1, <2>1, NamesAssumption DEF Rpc
    <3> QED BY <1>1, <3>1 DEF Rpc
  <2> HIDE DEF copy
  <2>4. WellFormed(copy)
    BY <1>1, <2>1, <2>2 DEF WellFormed
  <2>5. \A n \in Name \ doubtful' : ~Claims(copy, n)
    BY <2>1, <2>2 DEF Claims
  <2>6. doubtful' \subseteq Name /\ doubtful \subseteq doubtful'
    BY <2>1 DEF IInv, Typed, TypeOK
  <2> QED BY <1>2, <2>1, <2>3, <2>4, <2>5, <2>6
<1>5. CASE Others_OnTimeout(m)
  <2>1. GiveUp(m, {}) /\ UNCHANGED <<tables, fresh, crashes, doubtful>>
    BY <1>5 DEF Others_OnTimeout
  <2>2. doubtful' \subseteq Name
    BY <2>1 DEF IInv, Typed, TypeOK
  <2> QED BY <1>2, <2>1, <2>2
<1> QED BY <1>3, <1>4, <1>5 DEF OnTimeout

\* A restart forgets answers that no one awaits any more, and leaves requests under way.
LEMMA RestartStep ==
    ASSUME IInv, NEW z \in Zone, Restart(z)
    PROVE  IInv'
<1> DEFINE mine == {m \in rpcs : m.zone = z}
           calls == UNION {GivenUp(m) : m \in mine}
           kept == rpcs \ mine
<1>1. /\ rpcs' \subseteq kept \cup calls /\ kept \in SUBSET rpcs
      /\ UNCHANGED <<tables, fresh, doubtful>> /\ crashes < MaxCrash /\ crashes' = crashes + 1
  BY DEF Restart
<1>2. fresh' \subseteq Attempt /\ doubtful' \subseteq Name /\ crashes' \in 0 .. MaxCrash
  <2>1. crashes \in 0 .. MaxCrash /\ fresh \subseteq Attempt /\ doubtful \subseteq Name
    BY DEF IInv, Typed, TypeOK
  <2> QED BY <1>1, <2>1, NamesAssumption
<1>3. \A c \in calls : \E m \in rpcs \ kept :
          /\ c = [m EXCEPT !.waiting = FALSE] /\ c \in Rpc /\ WellFormed(c)
          /\ \A n : Claims(c, n) => Claims(m, n)
  <2> TAKE c \in calls
  <2>1. PICK m \in mine : c \in GivenUp(m)
    OBVIOUS
  <2>2. m \in rpcs \ kept /\ m \in Rpc /\ WellFormed(m)
    BY TypedRpcs DEF IInv
  <2> HIDE DEF mine, kept
  <2> QED BY <2>1, <2>2, GivenUpAlike
<1> HIDE DEF calls, kept
<1>4. \A c \in calls : c \in Rpc /\ WellFormed(c)
  BY <1>3
<1>5. ASSUME NEW n \in Name \ doubtful'
      PROVE  /\ \A x, y \in calls : Claims(x, n) /\ Claims(y, n) => x = y
             /\ \A x \in calls : Claims(x, n) => \E m \in rpcs \ kept : Claims(m, n)
  <2>1. \A v, w \in rpcs : Claims(v, n) /\ Claims(w, n) => v = w
    BY <1>1 DEF IInv, NamesOK, NameOK
  <2> QED BY <1>3, <2>1
<1> QED BY <1>1, <1>2, <1>4, <1>5, CallsOnly

-------------------------------------------------------------------------------
(* The theorems *)

LEMMA InitIInv == Init => IInv
<1> SUFFICES ASSUME Init PROVE IInv
  OBVIOUS
<1>1. Typed
  BY NamesAssumption DEF Init, Typed, TypeOK
<1>2. ZoneTablesAgree
  BY NamesAssumption, RoleInRpc DEF Init, ZoneTablesAgree
<1>3. NamesOK
  BY DEF Init, NamesOK, NameOK
<1> QED BY <1>1, <1>2, <1>3 DEF IInv

LEMMA NextIInv == IInv /\ [Next]_vars => IInv'
<1> SUFFICES ASSUME IInv, [Next]_vars PROVE IInv'
  OBVIOUS
<1>1. CASE Requests
  BY <1>1, RequestsStep
<1>2. ASSUME NEW m \in rpcs, Server(m) PROVE IInv'
  BY <1>2, PreCreateRole_ServerStep, PostCreateRole_ServerStep, PostDeleteRole_ServerStep,
     PreChangeRolename_ServerStep, PostChangeRolename_ServerStep, DBCreateRole_ServerStep,
     DBDeleteRole_ServerStep, DBChangeRolename_ServerStep DEF Server
<1>3. ASSUME NEW m \in rpcs, Client(m) PROVE IInv'
  BY <1>3, ClientStep
<1>4. ASSUME NEW m \in rpcs, OnTimeout(m) PROVE IInv'
  BY <1>4, OnTimeoutStep
<1>5. ASSUME NEW z \in Zone, Restart(z) PROVE IInv'
  BY <1>5, RestartStep
<1>6. CASE UNCHANGED vars
  BY <1>6 DEF vars, IInv, Typed, TypeOK, ZoneTablesAgree, NamesOK, NameOK
<1> QED BY <1>1, <1>2, <1>3, <1>4, <1>5, <1>6 DEF Next

\* The invariant holds in every state of every instance.
THEOREM NamesInvariant == Spec => []IInv
BY InitIInv, NextIInv, PTL DEF Spec

\* The tables of uniquenamed and of the zones, and the calls, keep their types.
THEOREM NamesTypeCorrect == Spec => []TypeOK
<1>1. IInv => TypeOK
  BY DEF IInv, Typed
<1> QED BY <1>1, NamesInvariant, PTL

\* In a zone a name leads to the one role that bears it or bore it, and every name of
\* a role leads to it.
THEOREM ZoneTablesAlwaysAgree == Spec => []ZoneTablesAgree
<1>1. IInv => ZoneTablesAgree
  BY DEF IInv
<1> QED BY <1>1, NamesInvariant, PTL

\* A name whose creation and whose release did not time out is in one zone at most.
THEOREM NamesAreUnique == Spec => []OneZonePerName
<1>1. IInv => OneZonePerName
  BY DEF IInv, NamesOK, NameOK, OneZonePerName
<1> QED BY <1>1, NamesInvariant, PTL

\* uniquenamed keeps such a name as long as a role bears it or bore it.
THEOREM NamesAreKept == Spec => []NamesStayTaken
<1>1. IInv => NamesStayTaken
  BY DEF IInv, NamesOK, NameOK, NamesStayTaken
<1> QED BY <1>1, NamesInvariant, PTL
===============================================================================
