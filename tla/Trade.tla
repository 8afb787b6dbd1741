-------------------------------- MODULE Trade --------------------------------
(* Trades between players. gdeliveryd holds the transaction in which two       *)
(* players offer goods, submit and confirm; the game server (gs) locks their   *)
(* inventories meanwhile: it saves them before (PutRole), and reads them again *)
(* when the transaction changed them (GetMoneyInventory); gamedbd keeps the    *)
(* pockets, which gdeliveryd reads at the beginning (TradeInventory) and       *)
(* replaces at the end (TradeSave).                                            *)
(*                                                                             *)
(* gdeliveryd is one thread: a handler is one step. gs and gamedbd have        *)
(* several, so what is sent to them is handled in any order. Goods stand for   *)
(* stacks and for money; where they lie in a bag is not modelled, a bag that   *)
(* lacks room is a choice. Players only trade here: they use up nothing. That  *)
(* gdeliveryd hears no more of a player whose connection was lost is left out. *)
EXTENDS Naturals, Sequences, FiniteSets

CONSTANTS Role, Goods,
          Pairs,      \* bound: who trades with whom, <<starter, partner>>
          Owner,      \* who holds what at the beginning
          MaxTid,     \* bound: transactions
          Savers,     \* bound: roles that gs saves now and then
          MaxStamp    \* bound: saves of a role

ASSUME TradeAssumption ==
    /\ Pairs \subseteq {p \in Role \X Role : p[1] # p[2]}
    /\ Owner \in [Goods -> Role]
    /\ MaxTid \in Nat /\ MaxStamp \in Nat

VARIABLES
    trans,       \* gdeliveryd, TransactionMap: tid -> transaction
    lastTid,     \* gdeliveryd, _tid: the last one it gave
    traderMap,   \* gdeliveryd, TraderMap: role -> the transaction it is attached to
    gs,          \* the game server's players
    db,          \* gamedbd, inventory: role -> pocket and timestamp
    toGs,        \* messages to gs
    toDelivery,  \* messages of gs to gdeliveryd, in order
    rpcs,        \* calls in progress
    doubt,       \* history: a trader went on while its transaction, or an old save of
                 \* its own, could still be written
    strays       \* history: <<tid, role>> when gs dropped the role from a live trade,
                 \* or had locked it for one that was over
vars == <<trans, lastTid, traderMap, gs, db, toGs, toDelivery, rpcs, doubt, strays>>
deliveryVars == <<trans, lastTid, traderMap>>
history == <<doubt, strays>>

Tid == 1 .. MaxTid
NoTid == 0
Pocket == SUBSET Goods
Stamp == 0 .. MaxStamp
NoPockets == [r \in Role |-> {}]

-----------------------------------------------------------------------------
\* Transactions and traders. "agreed" is history: what was on the table when a
\* READY trader submitted. So is "halfway": an update that failed has moved goods
\* since.
TransState == {"Init", "Init_half", "SetPossession", "Exchange", "Ready_half", "Ready",
               "Confirm_half", "Confirm", "Null"}
Trader == [state: {"INIT", "INIT_HALF", "EXCHANGE", "READY", "CONFIRM"},
           pssn: Pocket, exchg: Pocket, modified: BOOLEAN, agreed: [Role -> Pocket]]
NewTrader == [state |-> "INIT", pssn |-> {}, exchg |-> {}, modified |-> FALSE,
              agreed |-> NoPockets]

\* notify: OnDestroy was set, so that gs is told of the end.
Transaction == [pair: Pairs, state: TransState, trader: [Role -> Trader],
                notify: BOOLEAN, halfway: BOOLEAN]
NoTransaction == [state |-> "none"]

Live(t) == trans[t].state # "none"
Parties(T) == {T.pair[1], T.pair[2]}
Partner(T, r) == IF r = T.pair[1] THEN T.pair[2] ELSE T.pair[1]
Deal(T) == [r \in Role |-> T.trader[r].exchg]

\* Nobody looks at the goods of a transaction that is over.
Destroyed(T) ==
    [T EXCEPT !.state = "Null", !.halfway = FALSE,
              !.trader = [r \in Role |-> [NewTrader EXCEPT !.modified = T.trader[r].modified]]]

\* The options each state of a transaction has.
CanUpdate(T) == T.state \in {"Exchange", "Ready_half"}
CanConfirm(T) == T.state \in {"Ready", "Confirm_half"}
CanDiscard(T) == CanUpdate(T) \/ CanConfirm(T)

MutBackToExchange(T) == [T EXCEPT !.state = "Exchange", !.halfway = FALSE]
\* The code lets a READY trader adjust its goods again.
BackToExchange(T) ==
    [T EXCEPT !.state = "Exchange", !.halfway = FALSE,
              !.trader = [r \in Role |->
                  IF T.trader[r].state = "READY"
                  THEN [T.trader[r] EXCEPT !.state = "EXCHANGE", !.agreed = NoPockets]
                  ELSE T.trader[r]]]

-----------------------------------------------------------------------------
\* Remote calls: a request is at the server, its answer at the caller; a write
\* that nobody waits for any more is still done by the server.
Rpc == [op: {"PutRole", "TradeInventory", "TradeSave", "GetMoneyInventory"},
        tid: {NoTid} \cup Tid, who: SUBSET Role, pockets: [Role -> Pocket], stamp: Stamp,
        at: {"server", "caller"}, ok: BOOLEAN, waiting: BOOLEAN]

Call(op, t, who, pockets) ==
    [op |-> op, tid |-> t, who |-> who, pockets |-> pockets, stamp |-> 0,
     at |-> "server", ok |-> FALSE, waiting |-> TRUE]
MutPutRole(t, r) ==
    [Call("PutRole", t, {r}, [NoPockets EXCEPT ![r] = gs[r].pocket]) EXCEPT
        !.stamp = gs[r].stamp + 2, !.waiting = t # NoTid]
PutRole(t, r) ==
    [Call("PutRole", t, {r}, [NoPockets EXCEPT ![r] = gs[r].pocket]) EXCEPT
        !.stamp = gs[r].stamp + 1, !.waiting = t # NoTid]

At(place, op) == {m \in rpcs : m.op = op /\ m.at = place}
Answer(m, ok, pockets) ==
    rpcs' = (rpcs \ {m}) \cup
            {x \in {[m EXCEPT !.at = "caller", !.ok = ok, !.pockets = pockets]} : m.waiting}

\* The caller of m has a good answer; or a bad one, or its time is over.
Returns(m, op, ok) == m.op = op /\ m.waiting /\ (ok => m.at = "caller" /\ m.ok)
Finished(m) ==
    (rpcs \ {m}) \cup {x \in {[m EXCEPT !.waiting = FALSE]} :
                          m.at = "server" /\ m.op \in {"PutRole", "TradeSave"}}

StartRe(t, r, ok) == [op |-> "GTradeStart_Re", tid |-> t, role |-> r, ok |-> ok]
DiscardOf(t, r) == [op |-> "GTradeDiscard", tid |-> t, role |-> r, ok |-> TRUE]
LogoutOf(r) == [op |-> "PlayerLogout", tid |-> NoTid, role |-> r, ok |-> TRUE]
ToDelivery == [op: {"GTradeStart_Re", "GTradeDiscard", "PlayerLogout"},
               tid: {NoTid} \cup Tid, role: Role, ok: BOOLEAN]

TradeStart(t, p) == [op |-> "GTradeStart", tid |-> t, pair |-> p]
TradeEnd(t, r, read) == [op |-> "GTradeEnd", tid |-> t, role |-> r, read |-> read]
ToGs == [op: {"GTradeStart"}, tid: Tid, pair: Pairs]
        \cup [op: {"GTradeEnd"}, tid: Tid, role: Role, read: BOOLEAN]

Told(m) == toDelivery' = Append(toDelivery, m)
LogoutPending(r) == \E i \in DOMAIN toDelivery : toDelivery[i] = LogoutOf(r)

-----------------------------------------------------------------------------
\* A player on gs: its trade state, its pocket, and the timestamp of its saves.
Player == [state: {"normal", "wait_trade", "trade", "wait_complete", "wait_read", "offline"},
           tid: {NoTid} \cup Tid, pocket: Pocket, stamp: Stamp]

InTrade(r, t, state) == gs[r].tid = t /\ gs[r].state = state
Become(r, state) == gs' = [gs EXCEPT ![r].state = state]
Normalize(r) == gs' = [gs EXCEPT ![r].state = "normal", ![r].tid = NoTid]

\* FromTradeToNormal(-1): off line without a save.
Drop(r) ==
    /\ gs' = [gs EXCEPT ![r].state = "offline", ![r].tid = NoTid]
    /\ Told(LogoutOf(r))
    /\ strays' = strays \cup {d \in {<<gs[r].tid, r>>} : Live(gs[r].tid)}
    /\ UNCHANGED doubt

Init ==
    LET pocket(r) == {g \in Goods : Owner[g] = r} IN
    /\ trans = [t \in Tid |-> NoTransaction] /\ lastTid = 0
    /\ traderMap = [r \in Role |-> NoTid]
    /\ gs = [r \in Role |-> [state |-> "normal", tid |-> NoTid, pocket |-> pocket(r),
                             stamp |-> 0]]
    /\ db = [r \in Role |-> [pocket |-> pocket(r), stamp |-> 0]]
    /\ toGs = {} /\ toDelivery = <<>> /\ rpcs = {}
    /\ doubt = FALSE /\ strays = {}

-----------------------------------------------------------------------------
\* gdeliveryd: the partner agreed. gs is asked to lock both, if it can be reached.
Create(p) ==
    /\ lastTid < MaxTid
    /\ \A r \in {p[1], p[2]} :
          traderMap[r] = NoTid /\ (gs[r].state # "offline" \/ LogoutPending(r))
    /\ lastTid' = lastTid + 1
    /\ \E sent \in BOOLEAN :
          /\ trans' = [trans EXCEPT ![lastTid'] =
                 [pair |-> p, state |-> IF sent THEN "Init" ELSE "Null",
                  trader |-> [r \in Role |-> NewTrader], notify |-> FALSE, halfway |-> FALSE]]
          /\ toGs' = toGs \cup {m \in {TradeStart(lastTid', p)} : sent}
    /\ UNCHANGED <<traderMap, gs, db, toDelivery, rpcs, history>>

Heard(m) == toDelivery # <<>> /\ m = Head(toDelivery) /\ toDelivery' = Tail(toDelivery)
Set(t, T) == trans' = [trans EXCEPT ![t] = T]

\* AttachTrader; when both are in, their pockets are asked of gamedbd.
Attach(t, r) ==
    LET T == [trans[t] EXCEPT !.notify = TRUE, !.trader[r].state = "INIT_HALF"]
        both == \A x \in Parties(T) : T.trader[x].state = "INIT_HALF"
    IN  /\ traderMap' = [traderMap EXCEPT ![r] = t]
        /\ \/ /\ ~both
              /\ Set(t, [T EXCEPT !.state = "Init_half"])
              /\ UNCHANGED rpcs
           \/ /\ both
              /\ Set(t, [T EXCEPT !.state = "SetPossession"])
              /\ rpcs' = rpcs \cup {Call("TradeInventory", t, Parties(T), NoPockets)}
           \/ /\ both  \* not sent
              /\ Set(t, Destroyed(T))
              /\ UNCHANGED rpcs

GTradeStart_Re(m) ==
    LET t == m.tid
        r == m.role
        attach == /\ trans[t].state \in {"Init", "Init_half"} /\ r \in Parties(trans[t])
                  /\ traderMap[r] = NoTid
    IN  /\ Heard(m) /\ m.op = "GTradeStart_Re"
        /\ \/ Live(t) /\ m.ok /\ attach /\ Attach(t, r)
           \/ /\ Live(t) /\ ~(m.ok /\ attach)
              /\ Set(t, Destroyed([trans[t] EXCEPT !.notify = @ \/ m.ok]))
              /\ UNCHANGED <<traderMap, rpcs>>
           \/ ~Live(t) /\ UNCHANGED <<trans, traderMap, rpcs>>
        /\ strays' = strays \cup {d \in {<<t, r>>} : m.ok /\ ~Live(t)}
        /\ UNCHANGED <<lastTid, gs, db, toGs, doubt>>

TradeInventoryReturns(m, ok) ==
    LET t == m.tid
        T == trans[t]
    IN  /\ Returns(m, "TradeInventory", ok)
        /\ rpcs' = Finished(m)
        /\ trans' = IF ~Live(t) THEN trans
                    ELSE [trans EXCEPT ![t] =
                           IF ok /\ T.state = "SetPossession"
                           THEN [T EXCEPT !.state = "Exchange",
                                 !.trader = [r \in Role |->
                                    IF r \notin Parties(T) THEN @[r]
                                    ELSE [@[r] EXCEPT !.state = "EXCHANGE",
                                                      !.pssn = m.pockets[r]]]]
                           ELSE Destroyed(T)]
        /\ UNCHANGED <<lastTid, traderMap, gs, db, toGs, toDelivery, history>>

-----------------------------------------------------------------------------
\* What a player puts on the table, or takes back. A request names goods and
\* money: when the money falls short it fails, but its goods have moved.
Moved(t, r, pssn, exchg, paid) ==
    LET T == [trans[t] EXCEPT !.trader[r].pssn = pssn, !.trader[r].exchg = exchg]
    IN  /\ CanUpdate(trans[t]) /\ r \in Parties(trans[t])
        /\ trans[t].trader[r].state # "READY"
        /\ \/ paid /\ Set(t, BackToExchange([T EXCEPT !.trader[r].state = "EXCHANGE"]))
           \/ ~paid /\ Set(t, [T EXCEPT !.halfway =
                                   @ \/ T.trader[Partner(T, r)].state = "READY"])
        /\ UNCHANGED <<lastTid, traderMap, gs, db, toGs, toDelivery, rpcs, history>>

AddGoods(t, r, g, paid) ==
    /\ Live(t) /\ g \in trans[t].trader[r].pssn
    /\ Moved(t, r, trans[t].trader[r].pssn \ {g}, trans[t].trader[r].exchg \cup {g}, paid)

RemoveGoods(t, r, g, paid) ==
    /\ Live(t) /\ g \in trans[t].trader[r].exchg
    /\ Moved(t, r, trans[t].trader[r].pssn \cup {g}, trans[t].trader[r].exchg \ {g}, paid)

MoveObject(t, r) ==
    /\ CanUpdate(trans[t]) /\ r \in Parties(trans[t])
    /\ trans[t].trader[r].state = "EXCHANGE"
    /\ trans[t].trader[r].pssn # {}
    /\ trans' = [trans EXCEPT ![t].trader[r].modified = TRUE]
    /\ UNCHANGED <<lastTid, traderMap, gs, db, toGs, toDelivery, rpcs, history>>

\* When both are READY, each bag must have room for what it gets.
Submit(t, r, room) ==
    LET old == trans[t]
        T == [old EXCEPT !.trader[r].state = "READY",
                         !.trader[r].agreed = IF old.trader[r].state = "READY" THEN @ ELSE Deal(old)]
    IN  /\ CanUpdate(old) /\ r \in Parties(old)
        /\ Set(t, IF T.trader[Partner(T, r)].state # "READY"
                  THEN [T EXCEPT !.state = "Ready_half"]
                  ELSE IF room THEN [T EXCEPT !.state = "Ready"]
                  ELSE BackToExchange(T))
        /\ UNCHANGED <<lastTid, traderMap, gs, db, toGs, toDelivery, rpcs, history>>

-----------------------------------------------------------------------------
\* Write2DB: the pockets go to gamedbd when they changed; else, or when they
\* cannot be sent, the transaction is over.
Write2DB(t, T) ==
    LET changed == \E r \in Parties(T) : T.trader[r].modified
        emptied == [T EXCEPT !.trader = [r \in Role |-> [@[r] EXCEPT !.pssn = {}]]]
    IN  \/ /\ changed
           /\ Set(t, emptied)
           /\ rpcs' = rpcs \cup {Call("TradeSave", t, Parties(T),
                                     [r \in Role |-> T.trader[r].pssn])}
        \/ Set(t, Destroyed(emptied)) /\ UNCHANGED rpcs

Confirm(t, r) ==
    LET T == [trans[t] EXCEPT !.trader[r].state = "CONFIRM"]
        exchanged == [T EXCEPT !.state = "Confirm", !.trader = [x \in Role |->
                         IF x \notin Parties(T) THEN T.trader[x]
                         ELSE [T.trader[x] EXCEPT !.pssn = @ \cup Deal(T)[Partner(T, x)],
                                                  !.modified = TRUE]]]
    IN  /\ CanConfirm(trans[t]) /\ r \in Parties(trans[t])
        /\ trans[t].trader[r].state \in {"READY", "CONFIRM"}
        /\ \/ /\ T.trader[Partner(T, r)].state # "CONFIRM"
              /\ Set(t, [T EXCEPT !.state = "Confirm_half"])
              /\ UNCHANGED rpcs
           \/ /\ T.trader[Partner(T, r)].state = "CONFIRM"
              /\ Write2DB(t, IF Deal(T) = NoPockets THEN [T EXCEPT !.state = "Confirm"]
                             ELSE exchanged)
        /\ UNCHANGED <<lastTid, traderMap, gs, db, toGs, toDelivery, history>>

\* Transaction::Discard: everybody keeps what he has; only moves remain.
Discarded(T) ==
    [T EXCEPT !.state = "Init",
              !.trader = [r \in Role |-> [T.trader[r] EXCEPT !.pssn = @ \cup T.trader[r].exchg]]]

TradeDiscard(t) ==
    /\ CanDiscard(trans[t])
    /\ Write2DB(t, Discarded(trans[t]))
    /\ UNCHANGED <<lastTid, traderMap, gs, db, toGs, toDelivery, history>>

GTradeDiscard(m) ==
    /\ Heard(m) /\ m.op = "GTradeDiscard"
    /\ \/ CanDiscard(trans[m.tid]) /\ Write2DB(m.tid, Discarded(trans[m.tid]))
       \/ ~CanDiscard(trans[m.tid]) /\ UNCHANGED <<trans, rpcs>>
    /\ UNCHANGED <<lastTid, traderMap, gs, db, toGs, history>>

\* When a player has left, even the moves of its transaction are forgotten.
DiscardTransaction(r) ==
    LET t == traderMap[r]
        T == Discarded(trans[t])
        open == t # NoTid /\ CanDiscard(trans[t])
    IN  \/ /\ open
           /\ Set(t, Destroyed([T EXCEPT !.trader = [x \in Role |->
                                    [@[x] EXCEPT !.modified = FALSE]]]))
        \/ ~open /\ UNCHANGED trans

\* gs tells of one it has dropped; in vain, if its connection was gone before.
PlayerLogout(m) ==
    /\ Heard(m) /\ m.op = "PlayerLogout"
    /\ DiscardTransaction(m.role) \/ UNCHANGED trans
    /\ UNCHANGED <<lastTid, traderMap, gs, db, toGs, rpcs, history>>

\* Its connection is lost, or another login takes its place, while gs may still have it in
\* the trade. What gs does when it is told of that is LeavesBefore or DiscardTrade.
UserDisconnect(r) ==
    /\ DiscardTransaction(r)
    /\ UNCHANGED <<lastTid, traderMap, gs, db, toGs, toDelivery, rpcs, history>>

MutTradeSaveReturns(m, ok) ==
    /\ Returns(m, "TradeSave", ok)
    /\ rpcs' = Finished(m)
    /\ trans' = IF Live(m.tid) /\ ok THEN [trans EXCEPT ![m.tid] = Destroyed(@)] ELSE trans
    /\ doubt' = (doubt \/ m.at = "server")
    /\ UNCHANGED <<lastTid, traderMap, gs, db, toGs, toDelivery, strays>>

TradeSaveReturns(m, ok) ==
    /\ Returns(m, "TradeSave", ok)
    /\ rpcs' = Finished(m)
    /\ trans' = IF Live(m.tid) THEN [trans EXCEPT ![m.tid] = Destroyed(@)] ELSE trans
    /\ doubt' = (doubt \/ m.at = "server")
    /\ UNCHANGED <<lastTid, traderMap, gs, db, toGs, toDelivery, strays>>

\* Update and ReleaseObject: the time of a state is over. That of Confirm has no
\* end; the others are far longer than an answer takes.
Expected(t) ==
    \/ \E m \in rpcs : m.tid = t /\ m.waiting
    \/ /\ trans[t].state \in {"Init", "Init_half"}
       /\ \/ \E m \in toGs : m.tid = t
          \/ \E i \in DOMAIN toDelivery : toDelivery[i].tid = t
          \/ \E r \in Role : InTrade(r, t, "wait_trade")

MutUpdate(t) ==
    LET T == trans[t]
    IN  /\ Live(t) /\ T.state # "Confirm"
        /\ T.state # "Null" => ~Expected(t)
        /\ Set(t, NoTransaction)
        /\ traderMap' = [r \in Role |-> IF traderMap[r] = t THEN NoTid ELSE traderMap[r]]
        /\ toGs' = toGs \cup {TradeEnd(t, r, TRUE) :
                       r \in {x \in Parties(T) : T.notify /\ T.trader[x].modified}}
        /\ strays' = {d \in strays : d[1] # t}
        /\ UNCHANGED <<lastTid, gs, db, toDelivery, rpcs, doubt>>

Update(t) ==
    LET T == trans[t]
    IN  /\ Live(t) /\ T.state # "Confirm"
        /\ T.state # "Null" => ~Expected(t)
        /\ Set(t, NoTransaction)
        /\ traderMap' = [r \in Role |-> IF traderMap[r] = t THEN NoTid ELSE traderMap[r]]
        /\ toGs' = toGs \cup {TradeEnd(t, r, T.trader[r].modified) :
                       r \in {x \in Parties(T) : T.notify /\ T.state # "Init"}}
        /\ strays' = {d \in strays : d[1] # t}
        /\ UNCHANGED <<lastTid, gs, db, toDelivery, rpcs, doubt>>

-----------------------------------------------------------------------------
\* gs: both players are locked and saved, or the trade is refused.
TradeStarts(m) ==
    LET t == m.tid
        who == {m.pair[1], m.pair[2]}
    IN  /\ m \in toGs /\ m.op = "GTradeStart" /\ toGs' = toGs \ {m}
        /\ \/ /\ \A r \in who : gs[r].state = "normal" /\ gs[r].stamp < MaxStamp
              /\ gs' = [r \in Role |->
                    IF r \in who THEN [gs[r] EXCEPT !.state = "wait_trade", !.tid = t,
                                                   !.stamp = @ + 1]
                    ELSE gs[r]]
              /\ rpcs' = rpcs \cup {PutRole(t, r) : r \in who}
              /\ UNCHANGED toDelivery
           \/ /\ Told(StartRe(t, m.pair[1], FALSE))
              /\ UNCHANGED <<gs, rpcs>>
        /\ UNCHANGED <<deliveryVars, db, history>>

\* WaitingTradeWriteBack.
PutRoleReturns(m, r, ok) ==
    LET t == m.tid
    IN  /\ m.who = {r} /\ Returns(m, "PutRole", ok)
        /\ rpcs' = Finished(m)
        /\ \/ /\ InTrade(r, t, "wait_trade")
              /\ IF ok THEN Become(r, "trade") ELSE Normalize(r)
              /\ Told(StartRe(t, r, ok))
           \/ ~InTrade(r, t, "wait_trade") /\ UNCHANGED <<gs, toDelivery>>
        /\ UNCHANGED <<deliveryVars, db, toGs, history>>

\* An attack, a lost connection, or 30 seconds, before the save was done.
LeavesBefore(r) ==
    /\ gs[r].state = "wait_trade"
    /\ Told(StartRe(gs[r].tid, r, FALSE))
    /\ Normalize(r)
    /\ UNCHANGED <<deliveryVars, db, toGs, rpcs, history>>

\* An attack or a lost connection during the trade.
DiscardTrade(r) ==
    /\ gs[r].state = "trade"
    /\ Told(DiscardOf(gs[r].tid, r))
    /\ Become(r, "wait_complete")
    /\ UNCHANGED <<deliveryVars, db, toGs, rpcs, history>>

\* Ten seconds without an end of the trade.
CompleteTimesOut(r) ==
    /\ gs[r].state = "wait_complete"
    /\ Drop(r)
    /\ UNCHANGED <<deliveryVars, db, toGs, rpcs>>

MutTradeComplete(m) ==
    LET r == m.role IN
    /\ m \in toGs /\ m.op = "GTradeEnd" /\ toGs' = toGs \ {m}
    /\ IF gs[r].state \in {"wait_trade", "trade", "wait_complete"}
       THEN Normalize(r) ELSE UNCHANGED gs
    /\ UNCHANGED <<deliveryVars, db, toDelivery, rpcs, history>>

TradeComplete(m) ==
    LET r == m.role IN
    /\ m \in toGs /\ m.op = "GTradeEnd" /\ toGs' = toGs \ {m}
    /\ \/ /\ gs[r].state \notin {"wait_trade", "trade", "wait_complete"}
          /\ UNCHANGED <<gs, toDelivery, rpcs, history>>
       \/ /\ gs[r].state \in {"wait_trade", "trade", "wait_complete"}
          /\ \/ gs[r].tid # m.tid /\ Drop(r) /\ UNCHANGED rpcs
             \/ /\ gs[r].tid = m.tid /\ m.read
                /\ Become(r, "wait_read")
                /\ rpcs' = rpcs \cup {Call("GetMoneyInventory", m.tid, {r}, NoPockets)}
                /\ UNCHANGED <<toDelivery, history>>
             \/ /\ gs[r].tid = m.tid /\ ~m.read
                /\ Normalize(r)
                /\ UNCHANGED <<toDelivery, rpcs, history>>
    /\ UNCHANGED <<deliveryVars, db>>

\* WaitingTradeReadBack.
InventoryReturns(m, r, ok) ==
    /\ m.who = {r} /\ Returns(m, "GetMoneyInventory", ok)
    /\ rpcs' = Finished(m)
    /\ \/ /\ InTrade(r, m.tid, "wait_read")
          /\ \/ /\ ok
                /\ gs' = [gs EXCEPT ![r].state = "normal", ![r].tid = NoTid,
                                   ![r].pocket = m.pockets[r]]
                /\ UNCHANGED <<toDelivery, history>>
             \/ ~ok /\ Drop(r)
       \/ ~InTrade(r, m.tid, "wait_read") /\ UNCHANGED <<gs, toDelivery, history>>
    /\ UNCHANGED <<deliveryVars, db, toGs>>

\* A save that gamedbd could still accept.
LateSave(m, r) == m \in At("server", "PutRole") /\ m.who = {r} /\ m.stamp > db[r].stamp

\* A dropped player comes back, with what gamedbd has.
Login(r) ==
    /\ gs[r].state = "offline" /\ ~LogoutPending(r)
    /\ gs' = [gs EXCEPT ![r] = [state |-> "normal", tid |-> NoTid,
                               pocket |-> db[r].pocket, stamp |-> db[r].stamp]]
    /\ doubt' = (doubt \/ traderMap[r] # NoTid \/ \E m \in rpcs : LateSave(m, r))
    /\ UNCHANGED <<deliveryVars, db, toGs, toDelivery, rpcs, strays>>

\* The periodic save; nobody waits for it.
Save(r) ==
    /\ gs[r].state = "normal" /\ r \in Savers /\ gs[r].stamp < MaxStamp
    /\ gs' = [gs EXCEPT ![r].stamp = @ + 1]
    /\ rpcs' = rpcs \cup {PutRole(NoTid, r)}
    /\ UNCHANGED <<deliveryVars, db, toGs, toDelivery, history>>

-----------------------------------------------------------------------------
\* gamedbd. A write can also fail, and then changes nothing. (Whether a save or a
\* read failed or is late, its caller does the same; see Returns.)
Fails(m) ==
    /\ \/ m \in At("server", "TradeSave")
       \/ m \in At("server", "PutRole") /\ ~m.waiting
    /\ Answer(m, FALSE, NoPockets)
    /\ UNCHANGED <<deliveryVars, gs, db, toGs, toDelivery, history>>

\* Only a save that is newer than the last one is accepted.
MutPutRole_Server(m, r) ==
    /\ m \in At("server", "PutRole") /\ m.who = {r}
    /\ db' = [db EXCEPT ![r] = [pocket |-> m.pockets[r], stamp |-> m.stamp]]
    /\ Answer(m, TRUE, NoPockets)
    /\ UNCHANGED <<deliveryVars, gs, toGs, toDelivery, history>>

PutRole_Server(m, r) ==
    /\ LateSave(m, r)
    /\ db' = [db EXCEPT ![r] = [pocket |-> m.pockets[r], stamp |-> m.stamp]]
    /\ Answer(m, TRUE, NoPockets)
    /\ UNCHANGED <<deliveryVars, gs, toGs, toDelivery, history>>

\* TradeInventory and GetMoneyInventory.
Read_Server(m) ==
    /\ m \in At("server", "TradeInventory") \cup At("server", "GetMoneyInventory")
    /\ Answer(m, TRUE, [r \in Role |-> IF r \in m.who THEN db[r].pocket ELSE {}])
    /\ UNCHANGED <<deliveryVars, gs, db, toGs, toDelivery, history>>

\* How often each thing is in both bags must not change.
Copies(g, who, pockets) == Cardinality({r \in who : g \in pockets[r]})
TradeSave_Server(m) ==
    /\ m \in At("server", "TradeSave")
    /\ \A g \in Goods :
          Copies(g, m.who, m.pockets) = Copies(g, m.who, [r \in Role |-> db[r].pocket])
    /\ db' = [r \in Role |-> IF r \in m.who THEN [db[r] EXCEPT !.pocket = m.pockets[r]]
                             ELSE db[r]]
    /\ Answer(m, TRUE, NoPockets)
    /\ UNCHANGED <<deliveryVars, gs, toGs, toDelivery, history>>

-----------------------------------------------------------------------------
Delivery ==
    \/ \E p \in Pairs : Create(p)
    \/ \E i \in DOMAIN toDelivery : \/ GTradeStart_Re(toDelivery[i])
                                    \/ GTradeDiscard(toDelivery[i])
                                    \/ PlayerLogout(toDelivery[i])
    \/ \E m \in rpcs, ok \in BOOLEAN : TradeInventoryReturns(m, ok) \/ TradeSaveReturns(m, ok)
    \/ \E t \in Tid, r \in Role :
          \/ \E g \in Goods, paid \in BOOLEAN : AddGoods(t, r, g, paid) \/ RemoveGoods(t, r, g, paid)
          \/ \E room \in BOOLEAN : Submit(t, r, room)
          \/ MoveObject(t, r) \/ Confirm(t, r)
    \/ \E t \in Tid : TradeDiscard(t) \/ Update(t)
    \/ \E r \in Role : UserDisconnect(r)

GameServer ==
    \/ \E m \in toGs : TradeStarts(m) \/ TradeComplete(m)
    \/ \E m \in rpcs, r \in Role, ok \in BOOLEAN :
          PutRoleReturns(m, r, ok) \/ InventoryReturns(m, r, ok)
    \/ \E r \in Role : \/ LeavesBefore(r) \/ DiscardTrade(r) \/ CompleteTimesOut(r)
                        \/ Login(r) \/ Save(r)

Database ==
    \E m \in rpcs : \/ Fails(m) \/ Read_Server(m) \/ TradeSave_Server(m)
                    \/ \E r \in Role : PutRole_Server(m, r)

Next == Delivery \/ GameServer \/ Database
Spec == Init /\ [][Next]_vars

-----------------------------------------------------------------------------
\* Every variable has its type.
TypeOK ==
    /\ trans \in [Tid -> Transaction \cup {NoTransaction}] /\ lastTid \in {NoTid} \cup Tid
    /\ traderMap \in [Role -> {NoTid} \cup Tid]
    /\ gs \in [Role -> Player]
    /\ db \in [Role -> [pocket: Pocket, stamp: Stamp]]
    /\ toGs \subseteq ToGs /\ toDelivery \in Seq(ToDelivery) /\ rpcs \subseteq Rpc
    /\ doubt \in BOOLEAN /\ strays \subseteq Tid \X Role

\* Every thing is in one bag of the database, and a player who may use its bag has
\* that bag: no late save of gs brings back what was traded away, and no trade is
\* missed. Three cases are excepted: a TradeSave was given up while gamedbd could
\* still handle it, and a dropped player came back before its transaction was over,
\* or before gamedbd had handled its saves.
GoodsAreConserved ==
    ~doubt => /\ \A g \in Goods : Cardinality({r \in Role : g \in db[r].pocket}) = 1
              /\ \A r \in Role : gs[r].state = "normal" => gs[r].pocket = db[r].pocket

\* While a role is attached to a transaction its inventory is locked on gs for
\* that transaction, unless gs dropped the player.
TradersAreLocked ==
    \A r \in Role : LET t == traderMap[r] IN
        t # NoTid => \/ InTrade(r, t, "trade") \/ InTrade(r, t, "wait_complete")
                     \/ <<t, r>> \in strays

\* And no inventory stays locked: the transaction will hear of the role, holds it,
\* or has told gs of its end. The exception is a lock whose transaction was over,
\* and forgotten, before gdeliveryd heard of the lock.
LocksAreReleased ==
    \A r \in Role, t \in Tid :
        InTrade(r, t, "trade") \/ InTrade(r, t, "wait_complete") =>
            \/ \E i \in DOMAIN toDelivery : toDelivery[i] = StartRe(t, r, TRUE)
            \/ Live(t) /\ trans[t].notify /\ r \in Parties(trans[t])
            \/ \E read \in BOOLEAN : TradeEnd(t, r, read) \in toGs
            \/ <<t, r>> \in strays

\* A transaction without a timer of its own is not forgotten: somebody waits for
\* the TradeSave of one that was confirmed, whose answer or timeout will end it. So
\* it is for one that was discarded with its moves, and for the first inventories.
SavesAreAwaited ==
    \A t \in Tid :
        /\ trans[t].state = "Confirm" \/ (trans[t].state = "Init" /\ trans[t].notify) =>
               \E m \in rpcs : m.op = "TradeSave" /\ m.tid = t /\ m.waiting
        /\ trans[t].state = "SetPossession" =>
               \E m \in rpcs : m.op = "TradeInventory" /\ m.tid = t /\ m.waiting

\* What is exchanged is what both saw when they submitted. An update that failed
\* half-way is the exception: it does not take back the other's READY.
DealIsAgreed ==
    \A t \in Tid : trans[t].state = "Confirm" /\ ~trans[t].halfway =>
        \A r \in Parties(trans[t]) : trans[t].trader[r].agreed = Deal(trans[t])
=============================================================================
