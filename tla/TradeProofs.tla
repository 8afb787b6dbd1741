----------------------------- MODULE TradeProofs -----------------------------
(***************************************************************************)
(* Proofs about Trade.  The first part follows each transaction on its     *)
(* own: the variables keep their types, what is exchanged was agreed, and  *)
(* somebody waits for every save that ends a transaction.  The second is   *)
(* about the locks: a role that is attached to a transaction has its       *)
(* inventory locked for it on the game server, and an inventory that is    *)
(* locked is known to a transaction, or will be released.  The third is    *)
(* about the goods: a trade loses none and doubles none.                   *)
(***************************************************************************)
EXTENDS Trade, SequenceTheorems, FiniteSetTheorems, TLAPS

-------------------------------------------------------------------------------
(* Types *)

\* What is in a trade, is waited for or is told of a trade names the trade.
TidsNamed ==
    /\ \A r \in Role : gs[r].state \notin {"normal", "offline"} => gs[r].tid \in Tid
    /\ \A m \in rpcs : m.waiting => m.tid \in Tid
    /\ \A i \in DOMAIN toDelivery : toDelivery[i].op # "PlayerLogout" =>
                                        toDelivery[i].tid \in Tid

Typed == TypeOK /\ TidsNamed

LEMMA PairTyped ==
    ASSUME NEW p \in Pairs
    PROVE  p[1] \in Role /\ p[2] \in Role /\ p[1] # p[2]
BY TradeAssumption

LEMMA PartiesTyped ==
    ASSUME NEW T, T.pair \in Pairs
    PROVE  /\ Parties(T) \subseteq Role
           /\ \A r \in Parties(T) : /\ Partner(T, r) \in Parties(T) /\ Partner(T, r) # r
                                    /\ Partner(T, Partner(T, r)) = r
                                    /\ Parties(T) = {r, Partner(T, r)}
BY PairTyped DEF Parties, Partner

LEMMA TransactionFields ==
    ASSUME NEW T \in Transaction
    PROVE  /\ T.pair \in Pairs /\ T.state \in TransState /\ T.trader \in [Role -> Trader]
           /\ T.notify \in BOOLEAN /\ T.halfway \in BOOLEAN /\ T # NoTransaction
           /\ T.state # "none"
BY DEF Transaction, NoTransaction, TransState

LEMMA TraderFields ==
    ASSUME NEW x \in Trader
    PROVE  /\ x.state \in {"INIT", "INIT_HALF", "EXCHANGE", "READY", "CONFIRM"}
           /\ x.pssn \in Pocket /\ x.exchg \in Pocket /\ x.modified \in BOOLEAN
           /\ x.agreed \in [Role -> Pocket]
BY DEF Trader

LEMMA NewTraderTyped == NewTrader \in Trader /\ NoPockets \in [Role -> Pocket]
BY DEF NewTrader, Trader, NoPockets, Pocket

LEMMA DealTyped == ASSUME NEW T \in Transaction PROVE Deal(T) \in [Role -> Pocket]
BY TransactionFields, TraderFields DEF Deal

\* A transaction whose state and traders are replaced.
LEMMA TransactionTyped ==
    ASSUME NEW T \in Transaction, NEW s \in TransState, NEW f \in [Role -> Trader],
           NEW n \in BOOLEAN, NEW h \in BOOLEAN
    PROVE  [T EXCEPT !.state = s, !.trader = f, !.notify = n, !.halfway = h] \in Transaction
BY DEF Transaction

LEMMA DestroyedTyped ==
    ASSUME NEW T \in Transaction
    PROVE  /\ Destroyed(T) \in Transaction /\ Destroyed(T).pair = T.pair
           /\ Destroyed(T).notify = T.notify /\ Destroyed(T).state = "Null"
<1> DEFINE f == [r \in Role |-> [NewTrader EXCEPT !.modified = T.trader[r].modified]]
<1>1. f \in [Role -> Trader]
  <2>1. ASSUME NEW r \in Role
        PROVE  [NewTrader EXCEPT !.modified = T.trader[r].modified] \in Trader
    BY NewTraderTyped, TransactionFields, TraderFields DEF Trader
  <2> QED BY <2>1
<1>2. Destroyed(T) = [T EXCEPT !.state = "Null", !.halfway = FALSE, !.trader = f]
  BY DEF Destroyed
<1> HIDE DEF f
<1> QED BY <1>1, <1>2 DEF Transaction, TransState

LEMMA BackToExchangeTyped ==
    ASSUME NEW T \in Transaction
    PROVE  /\ BackToExchange(T) \in Transaction /\ BackToExchange(T).pair = T.pair
           /\ BackToExchange(T).notify = T.notify /\ BackToExchange(T).state = "Exchange"
<1> DEFINE f == [r \in Role |->
                  IF T.trader[r].state = "READY"
                  THEN [T.trader[r] EXCEPT !.state = "EXCHANGE", !.agreed = NoPockets]
                  ELSE T.trader[r]]
<1>1. f \in [Role -> Trader]
  BY NewTraderTyped, TransactionFields, TraderFields DEF Trader
<1>2. BackToExchange(T) = [T EXCEPT !.state = "Exchange", !.halfway = FALSE, !.trader = f]
  BY DEF BackToExchange
<1> HIDE DEF f
<1> QED BY <1>1, <1>2 DEF Transaction, TransState

LEMMA DiscardedTyped ==
    ASSUME NEW T \in Transaction
    PROVE  /\ Discarded(T) \in Transaction /\ Discarded(T).pair = T.pair
           /\ Discarded(T).notify = T.notify /\ Discarded(T).state = "Init"
<1> DEFINE f == [r \in Role |->
                   [T.trader[r] EXCEPT !.pssn = T.trader[r].pssn \cup T.trader[r].exchg]]
<1>1. f \in [Role -> Trader]
  <2>1. ASSUME NEW r \in Role
        PROVE  [T.trader[r] EXCEPT !.pssn = T.trader[r].pssn \cup T.trader[r].exchg] \in Trader
    <3>1. T.trader[r] \in Trader
      BY TransactionFields
    <3> QED BY <3>1, TraderFields DEF Trader, Pocket
  <2> QED BY <2>1
<1>2. Discarded(T) = [T EXCEPT !.state = "Init", !.trader = f]
  BY TransactionFields DEF Discarded
<1> HIDE DEF f
<1> QED BY <1>1, <1>2 DEF Transaction, TransState

LEMMA RpcTyped ==
    /\ \A op \in {"TradeInventory", "TradeSave", "GetMoneyInventory"}, t \in Tid,
          who \in SUBSET Role, pockets \in [Role -> Pocket] :
             Call(op, t, who, pockets) \in Rpc
    /\ \A m \in Rpc : /\ m.tid \in {NoTid} \cup Tid /\ m.pockets \in [Role -> Pocket]
                      /\ m.stamp \in Stamp /\ m.who \in SUBSET Role /\ m.waiting \in BOOLEAN
                      /\ m.at \in {"server", "caller"} /\ m.ok \in BOOLEAN
<1>1. 0 \in Stamp
  BY TradeAssumption DEF Stamp
<1> QED BY <1>1 DEF Call, Rpc

\* The end of a call, and an answer, leave the calls in their types; what is still
\* waited for was so before, for the same transaction.
LEMMA FinishedTyped ==
    ASSUME Typed, NEW m \in rpcs, rpcs' = Finished(m)
    PROVE  rpcs' \subseteq Rpc /\ \A x \in rpcs' : x.waiting => x \in rpcs /\ x # m
<1> DEFINE y == [m EXCEPT !.waiting = FALSE]
<1>1. m \in Rpc /\ rpcs \subseteq Rpc
  BY DEF Typed, TypeOK
<1>2. y \in Rpc /\ ~y.waiting
  BY <1>1 DEF Rpc
<1>3. rpcs' \subseteq (rpcs \ {m}) \cup {y}
  BY DEF Finished
<1> HIDE DEF y
<1> QED BY <1>1, <1>2, <1>3

LEMMA AnswerTyped ==
    ASSUME Typed, NEW m \in rpcs, NEW ok \in BOOLEAN, NEW pockets \in [Role -> Pocket],
           Answer(m, ok, pockets)
    PROVE  /\ rpcs' \subseteq Rpc
           /\ \A x \in rpcs' : x \in rpcs \/ (x.waiting = m.waiting /\ x.tid = m.tid)
           /\ \A x \in rpcs : x.waiting =>
                 \E z \in rpcs' : z.waiting /\ z.op = x.op /\ z.tid = x.tid
<1> DEFINE y == [m EXCEPT !.at = "caller", !.ok = ok, !.pockets = pockets]
<1>1. m \in Rpc /\ rpcs \subseteq Rpc
  BY DEF Typed, TypeOK
<1>2. /\ y \in Rpc /\ y.waiting = m.waiting /\ y.tid = m.tid /\ y.op = m.op
  BY <1>1 DEF Rpc
<1>3. rpcs' \subseteq (rpcs \ {m}) \cup {y} /\ rpcs \ {m} \subseteq rpcs'
      /\ (m.waiting => y \in rpcs')
  BY DEF Answer
<1> HIDE DEF y
<1> QED BY <1>1, <1>2, <1>3

LEMMA GsTyped ==
    ASSUME Typed, NEW r \in Role
    PROVE  /\ gs[r] \in Player /\ gs[r].tid \in {NoTid} \cup Tid
           /\ gs[r].pocket \in Pocket /\ gs[r].stamp \in Stamp
           /\ (gs[r].state \notin {"normal", "offline"} => gs[r].tid \in Tid)
           /\ db[r].pocket \in Pocket /\ db[r].stamp \in Stamp
<1>1. gs[r] \in Player /\ db[r] \in [pocket: Pocket, stamp: Stamp]
  BY DEF Typed, TypeOK
<1> QED BY <1>1 DEF Player, Typed, TidsNamed

LEMMA TransTyped ==
    ASSUME Typed, NEW t \in Tid, Live(t)
    PROVE  trans[t] \in Transaction
BY DEF Typed, TypeOK, Live, NoTransaction

-------------------------------------------------------------------------------
(* Messages to gdeliveryd *)

Pending(m) == \E i \in DOMAIN toDelivery : toDelivery[i] = m

LEMMA PendingTyped ==
    ASSUME Typed, NEW m, Pending(m)
    PROVE  m \in ToDelivery /\ (m.op # "PlayerLogout" => m.tid \in Tid)
<1>1. PICK i \in DOMAIN toDelivery : toDelivery[i] = m
  BY DEF Pending
<1>2. toDelivery \in Seq(ToDelivery)
  BY DEF Typed, TypeOK
<1> QED BY <1>1, <1>2 DEF Typed, TidsNamed

LEMMA HeardEffect ==
    ASSUME Typed, NEW m, Heard(m)
    PROVE  /\ toDelivery' \in Seq(ToDelivery) /\ Pending(m)
           /\ \A x : Pending(x)' => Pending(x)
           /\ \A x : Pending(x) => x = m \/ Pending(x)'
<1>1. toDelivery \in Seq(ToDelivery) /\ toDelivery # <<>> /\ m = toDelivery[1]
      /\ toDelivery' = Tail(toDelivery)
  BY DEF Typed, TypeOK, Heard
<1>2. /\ toDelivery' \in Seq(ToDelivery) /\ Len(toDelivery') = Len(toDelivery) - 1
      /\ DOMAIN toDelivery = 1 .. Len(toDelivery) /\ DOMAIN toDelivery' = 1 .. Len(toDelivery')
      /\ Len(toDelivery) \in Nat /\ Len(toDelivery) >= 1
      /\ \A i \in 1 .. Len(toDelivery') : toDelivery'[i] = toDelivery[i + 1]
  BY <1>1
<1>3. Pending(m)
  BY <1>1, <1>2 DEF Pending
<1>4. ASSUME NEW x, Pending(x)' PROVE Pending(x)
  <2>1. PICK i \in DOMAIN toDelivery' : toDelivery'[i] = x
    BY <1>4 DEF Pending
  <2>2. i + 1 \in DOMAIN toDelivery /\ toDelivery[i + 1] = x
    BY <1>2, <2>1
  <2> QED BY <2>2 DEF Pending
<1>5. ASSUME NEW x, Pending(x), x # m PROVE Pending(x)'
  <2>1. PICK i \in DOMAIN toDelivery : toDelivery[i] = x
    BY <1>5 DEF Pending
  <2>2. i # 1
    BY <2>1, <1>1, <1>5
  <2>3. i - 1 \in DOMAIN toDelivery' /\ toDelivery'[i - 1] = x
    BY <1>2, <2>1, <2>2
  <2> QED BY <2>3 DEF Pending
<1> QED BY <1>2, <1>3, <1>4, <1>5

LEMMA ToldEffect ==
    ASSUME Typed, NEW m \in ToDelivery, Told(m)
    PROVE  /\ toDelivery' \in Seq(ToDelivery)
           /\ \A x : Pending(x)' <=> Pending(x) \/ x = m
<1>1. toDelivery \in Seq(ToDelivery) /\ toDelivery' = Append(toDelivery, m)
  BY DEF Typed, TypeOK, Told
<1>2. /\ toDelivery' \in Seq(ToDelivery) /\ Len(toDelivery') = Len(toDelivery) + 1
      /\ DOMAIN toDelivery = 1 .. Len(toDelivery) /\ DOMAIN toDelivery' = 1 .. Len(toDelivery')
      /\ Len(toDelivery) \in Nat
      /\ \A i \in 1 .. Len(toDelivery) : toDelivery'[i] = toDelivery[i]
      /\ toDelivery'[Len(toDelivery) + 1] = m
  BY <1>1
<1>3. ASSUME NEW x, Pending(x)' PROVE Pending(x) \/ x = m
  <2>1. PICK i \in DOMAIN toDelivery' : toDelivery'[i] = x
    BY <1>3 DEF Pending
  <2> QED BY <1>2, <2>1 DEF Pending
<1>4. ASSUME NEW x, Pending(x) PROVE Pending(x)'
  <2>1. PICK i \in DOMAIN toDelivery : toDelivery[i] = x
    BY <1>4 DEF Pending
  <2>2. i \in DOMAIN toDelivery' /\ toDelivery'[i] = x
    BY <1>2, <2>1
  <2> QED BY <2>2 DEF Pending
<1>5. Pending(m)'
  <2>1. Len(toDelivery) + 1 \in DOMAIN toDelivery'
    BY <1>2
  <2> QED BY <1>2, <2>1 DEF Pending
<1> QED BY <1>2, <1>3, <1>4, <1>5

\* What is told keeps naming its transaction.
LEMMA TidsOfMessages ==
    ASSUME \A x : Pending(x)' => Pending(x) \/ x.op = "PlayerLogout" \/ x.tid \in Tid, Typed
    PROVE  \A i \in DOMAIN toDelivery' : toDelivery'[i].op # "PlayerLogout" =>
                                            toDelivery'[i].tid \in Tid
BY PendingTyped DEF Pending

-------------------------------------------------------------------------------
(* How a transaction goes on *)

\* Who submitted, or confirmed, agreed to what is on the table, until an update
\* fails half-way. Nobody has confirmed what can still be updated.
Agreed(T) ==
    /\ CanUpdate(T) => \A r \in Parties(T) : T.trader[r].state # "CONFIRM"
    /\ T.state = "Confirm" => \A r \in Parties(T) : T.trader[r].state = "CONFIRM"
    /\ (CanDiscard(T) \/ T.state = "Confirm") /\ ~T.halfway =>
           \A r \in Parties(T) : T.trader[r].state \in {"READY", "CONFIRM"} =>
                                     T.trader[r].agreed = Deal(T)

\* U is a later form of the transaction T.
Follows(T, U) ==
    /\ U \in Transaction /\ U.pair = T.pair /\ (T.notify => U.notify)
    /\ Agreed(T) => Agreed(U)

\* Only transaction t goes on.
GoesOn(t) ==
    /\ Live(t) /\ trans[t] \in Transaction
    /\ trans' = [trans EXCEPT ![t] = trans'[t]]
    /\ Follows(trans[t], trans'[t])

LEMMA SetEffect ==
    ASSUME Typed, NEW t \in Tid, NEW T, Set(t, T)
    PROVE  trans'[t] = T /\ trans' = [trans EXCEPT ![t] = T]
BY DEF Set, Typed, TypeOK

LEMMA AgreedElsewhere ==
    ASSUME NEW T, ~CanDiscard(T), T.state # "Confirm"
    PROVE  Agreed(T)
BY DEF Agreed, CanDiscard

LEMMA DestroyedFollows ==
    ASSUME NEW T \in Transaction
    PROVE  Follows(T, Destroyed(T))
<1>1. Agreed(Destroyed(T))
  BY DestroyedTyped, AgreedElsewhere DEF CanDiscard, CanUpdate, CanConfirm
<1> QED BY <1>1, DestroyedTyped DEF Follows

LEMMA FollowsOn ==
    ASSUME NEW T, NEW U, NEW V, Follows(T, U), Follows(U, V)
    PROVE  Follows(T, V)
BY DEF Follows

TraderState == {"INIT", "INIT_HALF", "EXCHANGE", "READY", "CONFIRM"}

\* Two changes of a trader.
Offers(T, r, pssn, exchg) == [T EXCEPT !.trader[r].pssn = pssn, !.trader[r].exchg = exchg]
Enters(T, r, s, agreed) == [T EXCEPT !.trader[r].state = s, !.trader[r].agreed = agreed]

\* A pocket and what is offered from it change.
LEMMA OfferTyped ==
    ASSUME NEW T \in Transaction, NEW r \in Role, NEW pssn \in Pocket, NEW exchg \in Pocket,
           NEW U, U = Offers(T, r, pssn, exchg)
    PROVE  /\ U \in Transaction /\ U.pair = T.pair /\ U.state = T.state
           /\ U.notify = T.notify /\ U.halfway = T.halfway
           /\ \A x \in Role : U.trader[x].state = T.trader[x].state
<1> DEFINE x == [T.trader[r] EXCEPT !.pssn = pssn, !.exchg = exchg]
           f == [T.trader EXCEPT ![r] = x]
<1>1. T.trader \in [Role -> Trader] /\ T.trader[r] \in Trader
  BY TransactionFields
<1>2. x \in Trader /\ x.state = T.trader[r].state
  BY <1>1 DEF Trader
<1>3. f \in [Role -> Trader] /\ \A y \in Role : f[y].state = T.trader[y].state
  <2> HIDE DEF x
  <2> QED BY <1>1, <1>2
<1>4. U = [T EXCEPT !.trader = f]
  BY <1>1 DEF Transaction, Trader, Offers
<1> HIDE DEF f
<1> QED BY <1>3, <1>4 DEF Transaction

\* The state of a trader changes.
LEMMA StateTyped ==
    ASSUME NEW T \in Transaction, NEW r \in Role,
           NEW s \in TraderState,
           NEW agreed \in [Role -> Pocket],
           NEW U, U = Enters(T, r, s, agreed)
    PROVE  /\ U \in Transaction /\ U.pair = T.pair /\ U.state = T.state
           /\ U.notify = T.notify /\ U.halfway = T.halfway /\ Deal(U) = Deal(T)
           /\ U.trader[r].state = s /\ U.trader[r].agreed = agreed
           /\ \A x \in Role : x # r => U.trader[x] = T.trader[x]
<1> DEFINE x == [T.trader[r] EXCEPT !.state = s, !.agreed = agreed]
           f == [T.trader EXCEPT ![r] = x]
<1>1. T.trader \in [Role -> Trader] /\ T.trader[r] \in Trader
  BY TransactionFields
<1>2. x \in Trader /\ x.state = s /\ x.agreed = agreed /\ x.exchg = T.trader[r].exchg
  BY <1>1 DEF Trader, TraderState
<1>3. /\ f \in [Role -> Trader] /\ f[r] = x /\ \A y \in Role : y # r => f[y] = T.trader[y]
      /\ \A y \in Role : f[y].exchg = T.trader[y].exchg
  <2> HIDE DEF x
  <2> QED BY <1>1, <1>2
<1>4. U = [T EXCEPT !.trader = f]
  BY <1>1 DEF Transaction, Trader, Enters
<1> HIDE DEF f
<1>5. U \in Transaction /\ U.trader = f /\ U.pair = T.pair /\ U.state = T.state
      /\ U.notify = T.notify /\ U.halfway = T.halfway
  BY <1>3, <1>4 DEF Transaction
<1>6. Deal(U) = Deal(T)
  BY <1>3, <1>5 DEF Deal
<1> QED BY <1>2, <1>3, <1>5, <1>6

\* The same without "agreed".
LEMMA OnlyStateTyped ==
    ASSUME NEW T \in Transaction, NEW r \in Role,
           NEW s \in TraderState
    PROVE  /\ [T EXCEPT !.trader[r].state = s]
                = Enters(T, r, s, T.trader[r].agreed)
           /\ T.trader[r].agreed \in [Role -> Pocket]
<1>1. T.trader \in [Role -> Trader] /\ T.trader[r] \in Trader
  BY TransactionFields
<1> QED BY <1>1 DEF Transaction, Trader, Enters

LEMMA TransStateTyped ==
    ASSUME NEW T \in Transaction, NEW s \in TransState, NEW U, U = [T EXCEPT !.state = s]
    PROVE  /\ U \in Transaction /\ U.pair = T.pair /\ U.state = s /\ U.trader = T.trader
           /\ U.notify = T.notify /\ U.halfway = T.halfway /\ Deal(U) = Deal(T)
           /\ Parties(U) = Parties(T)
BY DEF Transaction, Deal, Parties

LEMMA BackToExchangeAgreed ==
    ASSUME NEW T \in Transaction, \A r \in Parties(T) : T.trader[r].state # "CONFIRM"
    PROVE  Agreed(BackToExchange(T))
<1> DEFINE U == BackToExchange(T)
<1>1. U \in Transaction /\ U.pair = T.pair /\ U.state = "Exchange"
  BY BackToExchangeTyped
<1>2. Parties(U) = Parties(T) /\ Parties(T) \subseteq Role
  BY <1>1, PartiesTyped, TransactionFields DEF Parties
<1>3. \A r \in Role : U.trader[r] = IF T.trader[r].state = "READY"
           THEN [T.trader[r] EXCEPT !.state = "EXCHANGE", !.agreed = NoPockets]
           ELSE T.trader[r]
  BY DEF BackToExchange, Transaction
<1>4. \A r \in Role : T.trader[r] \in Trader
  BY TransactionFields
<1>5. \A r \in Parties(U) : U.trader[r].state \notin {"READY", "CONFIRM"}
  BY <1>2, <1>3, <1>4 DEF Trader
<1> HIDE DEF U
<1>6. Agreed(U)
  BY <1>1, <1>5 DEF Agreed, CanDiscard, CanUpdate, CanConfirm
<1> QED BY <1>6 DEF U

-------------------------------------------------------------------------------
(* What the operations on a transaction do to it *)

LEMMA CanDiscardLive ==
    ASSUME Typed, NEW t \in Tid, CanDiscard(trans[t])
    PROVE  /\ Live(t) /\ trans[t] \in Transaction
           /\ \A r \in Parties(trans[t]) : r \in Role
BY TransTyped, TransactionFields, PartiesTyped
   DEF CanDiscard, CanUpdate, CanConfirm, Live, NoTransaction

LEMMA GoesOnBySet ==
    ASSUME Typed, NEW t \in Tid, Live(t), NEW U, Set(t, U), Follows(trans[t], U)
    PROVE  GoesOn(t) /\ trans'[t] = U
BY SetEffect, TransTyped DEF GoesOn

LEMMA MovedGoesOn ==
    ASSUME Typed, NEW t \in Tid, NEW r \in Role, NEW pssn \in Pocket, NEW exchg \in Pocket,
           NEW paid \in BOOLEAN, Moved(t, r, pssn, exchg, paid)
    PROVE  GoesOn(t) /\ CanUpdate(trans'[t])
<1> DEFINE S == trans[t]
           T == Offers(S, r, pssn, exchg)
           p == Partner(T, r)
<1>1. /\ Live(t) /\ S \in Transaction /\ CanUpdate(S) /\ r \in Parties(S)
      /\ S.trader[r].state # "READY"
  BY CanDiscardLive DEF Moved, CanDiscard
<1>0. \/ paid /\ Set(t, BackToExchange([T EXCEPT !.trader[r].state = "EXCHANGE"]))
      \/ ~paid /\ Set(t, [T EXCEPT !.halfway = T.halfway \/ T.trader[p].state = "READY"])
  BY DEF Moved, Offers
<1> HIDE DEF S
<1>2. /\ T \in Transaction /\ T.pair = S.pair /\ T.state = S.state /\ T.notify = S.notify
      /\ T.halfway = S.halfway /\ \A x \in Role : T.trader[x].state = S.trader[x].state
  BY <1>1, OfferTyped
<1>3. /\ Parties(T) = {r, p} /\ p \in Parties(S) /\ Parties(T) = Parties(S)
      /\ Parties(T) \subseteq Role /\ p # r
  BY <1>1, <1>2, PartiesTyped, TransactionFields DEF Parties
<1>4. CASE paid
  <2> DEFINE V == [T EXCEPT !.trader[r].state = "EXCHANGE"]
             U == BackToExchange(V)
  <2>1. /\ V \in Transaction /\ V.pair = T.pair /\ V.notify = T.notify
        /\ V.trader[r].state = "EXCHANGE"
        /\ \A x \in Role : x # r => V.trader[x] = T.trader[x]
    <3> HIDE DEF T, V
    <3>1. V = Enters(T, r, "EXCHANGE", T.trader[r].agreed)
          /\ T.trader[r].agreed \in [Role -> Pocket]
      BY <1>2, OnlyStateTyped DEF V, TraderState
    <3> QED BY <1>2, <3>1, StateTyped DEF TraderState
  <2>2. Set(t, U)
    BY <1>4, <1>0
  <2>3. Agreed(S) => \A x \in Parties(V) : V.trader[x].state # "CONFIRM"
    <3> HIDE DEF T, V
    <3> QED BY <1>1, <1>2, <1>3, <2>1 DEF Agreed, Parties
  <2> HIDE DEF V, T
  <2>4. U \in Transaction /\ U.pair = V.pair /\ U.notify = V.notify /\ U.state = "Exchange"
    BY <2>1, BackToExchangeTyped
  <2>5. Follows(S, U)
    BY <2>1, <2>3, <2>4, <1>2, BackToExchangeAgreed DEF Follows
  <2> HIDE DEF U
  <2> QED BY <2>2, <2>4, <2>5, <1>1, GoesOnBySet DEF CanUpdate, S
<1>5. CASE ~paid
  <2> DEFINE h == T.halfway \/ T.trader[p].state = "READY"
             U == [T EXCEPT !.halfway = h]
  <2>1. Set(t, U)
    BY <1>5, <1>0
  <2> HIDE DEF T
  <2>2. /\ U \in Transaction /\ U.pair = T.pair /\ U.notify = T.notify /\ U.state = T.state
        /\ U.trader = T.trader
        /\ ~U.halfway => T.trader[p].state # "READY"
    BY <1>2, TransactionFields DEF Transaction
  <2>3. ASSUME Agreed(S) PROVE Agreed(U)
    <3>1. \A x \in Parties(U) : x \in Role /\ U.trader[x].state # "CONFIRM"
      BY <1>1, <1>2, <1>3, <2>2, <2>3 DEF Agreed, Parties
    <3>2. ~U.halfway => \A x \in Parties(U) : U.trader[x].state # "READY"
      BY <1>1, <1>2, <1>3, <2>2 DEF Parties
    <3>3. U.state # "Confirm" /\ CanUpdate(U)
      BY <1>1, <1>2, <2>2 DEF CanUpdate
    <3> HIDE DEF U
    <3> QED BY <3>1, <3>2, <3>3 DEF Agreed
  <2>4. CanUpdate(U)
    BY <1>1, <1>2, <2>2 DEF CanUpdate
  <2>5. Follows(S, U)
    BY <1>2, <2>2, <2>3 DEF Follows
  <2> HIDE DEF U
  <2> QED BY <2>1, <2>4, <2>5, <1>1, GoesOnBySet DEF S
<1> QED BY <1>4, <1>5

LEMMA MoveObjectGoesOn ==
    ASSUME Typed, NEW t \in Tid, NEW r \in Role, MoveObject(t, r)
    PROVE  GoesOn(t) /\ CanUpdate(trans'[t])
<1> DEFINE S == trans[t]
           U == [S EXCEPT !.trader[r].modified = TRUE]
           x == [S.trader[r] EXCEPT !.modified = TRUE]
           f == [S.trader EXCEPT ![r] = x]
<1>1. Live(t) /\ S \in Transaction /\ CanUpdate(S) /\ Parties(S) \subseteq Role
  BY CanDiscardLive DEF MoveObject, CanDiscard
<1>2. Set(t, U)
  BY DEF MoveObject, Set, Typed, TypeOK
<1> HIDE DEF S
<1>3. S.trader \in [Role -> Trader] /\ S.trader[r] \in Trader
  BY <1>1, TransactionFields
<1>4. x \in Trader /\ x.state = S.trader[r].state /\ x.agreed = S.trader[r].agreed
      /\ x.exchg = S.trader[r].exchg
  BY <1>3 DEF Trader
<1>5. /\ f \in [Role -> Trader]
      /\ \A y \in Role : /\ f[y].state = S.trader[y].state /\ f[y].agreed = S.trader[y].agreed
                         /\ f[y].exchg = S.trader[y].exchg
  <2> HIDE DEF x
  <2> QED BY <1>3, <1>4
<1>6. U = [S EXCEPT !.trader = f]
  BY <1>1 DEF Transaction, Trader
<1> HIDE DEF f, U
<1>7. /\ U \in Transaction /\ U.trader = f /\ U.pair = S.pair /\ U.state = S.state
      /\ U.notify = S.notify /\ U.halfway = S.halfway
  BY <1>1, <1>5, <1>6 DEF Transaction
<1>8. Deal(U) = Deal(S) /\ Parties(U) = Parties(S)
  BY <1>5, <1>7 DEF Deal, Parties
<1>9. Agreed(S) => Agreed(U)
  BY <1>1, <1>5, <1>7, <1>8 DEF Agreed, CanUpdate, CanDiscard, CanConfirm
<1>10. Follows(S, U) /\ CanUpdate(U)
  BY <1>1, <1>7, <1>9 DEF Follows, CanUpdate
<1> QED BY <1>1, <1>2, <1>10, GoesOnBySet DEF S

LEMMA SubmitGoesOn ==
    ASSUME Typed, NEW t \in Tid, NEW r \in Role, NEW room \in BOOLEAN, Submit(t, r, room)
    PROVE  GoesOn(t) /\ trans'[t].state \in {"Exchange", "Ready_half", "Ready"}
<1> DEFINE S == trans[t]
           agreed == IF S.trader[r].state = "READY" THEN S.trader[r].agreed ELSE Deal(S)
           T == Enters(S, r, "READY", agreed)
           p == Partner(T, r)
           U == IF T.trader[p].state # "READY"
                THEN [T EXCEPT !.state = "Ready_half"]
                ELSE IF room THEN [T EXCEPT !.state = "Ready"] ELSE BackToExchange(T)
<1>1. Live(t) /\ S \in Transaction /\ CanUpdate(S) /\ r \in Parties(S) /\ Parties(S) \subseteq Role
  BY CanDiscardLive DEF Submit, CanDiscard
<1>2. agreed \in [Role -> Pocket]
  BY <1>1, TransactionFields, TraderFields, DealTyped
<1>3. Set(t, U)
  <2>1. S.trader \in [Role -> Trader] /\ S.trader[r] \in Trader
    BY <1>1, TransactionFields
  <2>2. T = [S EXCEPT !.trader[r].state = "READY",
                      !.trader[r].agreed = IF S.trader[r].state = "READY" THEN @ ELSE Deal(S)]
    BY <2>1, <1>1 DEF Transaction, Trader, Enters
  <2> HIDE DEF T
  <2> QED BY <2>2 DEF Submit
<1> HIDE DEF agreed, S
<1>4. /\ T \in Transaction /\ T.pair = S.pair /\ T.state = S.state
      /\ T.notify = S.notify /\ T.halfway = S.halfway /\ Deal(T) = Deal(S)
      /\ T.trader[r].state = "READY" /\ T.trader[r].agreed = agreed
      /\ \A x \in Role : x # r => T.trader[x] = S.trader[x]
  BY <1>1, <1>2, StateTyped DEF TraderState
<1> HIDE DEF T
<1>5. Parties(T) = Parties(S)
  BY <1>4 DEF Parties
<1>6. ASSUME Agreed(S)
      PROVE  /\ \A x \in Parties(T) : T.trader[x].state # "CONFIRM"
             /\ ~T.halfway => \A x \in Parties(T) : T.trader[x].state = "READY" =>
                                                        T.trader[x].agreed = Deal(T)
  BY <1>1, <1>4, <1>5, <1>6 DEF Agreed, CanDiscard, agreed
<1>7. ASSUME NEW s \in {"Ready_half", "Ready"}, U = [T EXCEPT !.state = s]
      PROVE  Follows(S, U) /\ U.state = s
  <2> HIDE DEF U
  <2>1. /\ U \in Transaction /\ U.pair = T.pair /\ U.state = s /\ U.trader = T.trader
        /\ U.notify = T.notify /\ U.halfway = T.halfway /\ Deal(U) = Deal(T)
        /\ Parties(U) = Parties(T)
    BY <1>4, <1>7, TransStateTyped DEF TransState
  <2>2. Agreed(S) => Agreed(U)
    BY <2>1, <1>6 DEF Agreed
  <2> QED BY <1>4, <2>1, <2>2 DEF Follows
<1>8. ASSUME U = BackToExchange(T)
      PROVE  Follows(S, U) /\ U.state = "Exchange"
  <2> HIDE DEF U
  <2> QED BY <1>4, <1>6, <1>8, BackToExchangeTyped, BackToExchangeAgreed DEF Follows
<1>9. Follows(S, U) /\ U.state \in {"Exchange", "Ready_half", "Ready"}
  <2>1. \/ \E s \in {"Ready_half", "Ready"} : U = [T EXCEPT !.state = s]
        \/ U = BackToExchange(T)
    OBVIOUS
  <2> HIDE DEF U
  <2> QED BY <2>1, <1>7, <1>8
<1> HIDE DEF U
<1> QED BY <1>1, <1>3, <1>9, GoesOnBySet DEF S

\* The calls that a step adds are waited for, and name transaction t; the others stay.
Asks(t) ==
    /\ rpcs \subseteq rpcs' /\ rpcs' \subseteq Rpc
    /\ \A m \in rpcs' \ rpcs : m.tid = t

SaveAwaited(t) == \E m \in rpcs : m.op = "TradeSave" /\ m.tid = t /\ m.waiting

LEMMA Write2DBFollows ==
    ASSUME Typed, NEW t \in Tid, Live(t), NEW T \in Transaction, Write2DB(t, T)
    PROVE  /\ trans' = [trans EXCEPT ![t] = trans'[t]] /\ Follows(T, trans'[t])
           /\ Asks(t)
           /\ trans'[t].state # "Null" => trans'[t].state = T.state /\ SaveAwaited(t)'
<1> DEFINE f == [r \in Role |-> [T.trader[r] EXCEPT !.pssn = {}]]
           U == [T EXCEPT !.trader = f]
           pockets == [r \in Role |-> T.trader[r].pssn]
           call == Call("TradeSave", t, Parties(T), pockets)
<1>1. /\ f \in [Role -> Trader] /\ pockets \in [Role -> Pocket]
      /\ \A r \in Role : /\ f[r].state = T.trader[r].state /\ f[r].agreed = T.trader[r].agreed
                         /\ f[r].exchg = T.trader[r].exchg
  <2>1. ASSUME NEW r \in Role
        PROVE  LET x == [T.trader[r] EXCEPT !.pssn = {}]
               IN  /\ x \in Trader /\ x.state = T.trader[r].state
                   /\ x.agreed = T.trader[r].agreed /\ x.exchg = T.trader[r].exchg
                   /\ T.trader[r].pssn \in Pocket
    <3>1. T.trader[r] \in Trader
      BY TransactionFields
    <3> QED BY <3>1 DEF Trader, Pocket
  <2> QED BY <2>1
<1>2. \/ Set(t, U) /\ rpcs' = rpcs \cup {call}
      \/ Set(t, Destroyed(U)) /\ UNCHANGED rpcs
  BY DEF Write2DB
<1> HIDE DEF f
<1>3. /\ U \in Transaction /\ U.trader = f /\ U.pair = T.pair /\ U.state = T.state
      /\ U.notify = T.notify /\ U.halfway = T.halfway
  BY <1>1 DEF Transaction
<1> HIDE DEF U
<1>4. Deal(U) = Deal(T) /\ Parties(U) = Parties(T) /\ Parties(T) \subseteq Role
  BY <1>1, <1>3, TransactionFields, PartiesTyped DEF Deal, Parties
<1>5. Agreed(T) => Agreed(U)
  BY <1>1, <1>3, <1>4 DEF Agreed, CanUpdate, CanDiscard, CanConfirm
<1>6. Follows(T, U)
  BY <1>3, <1>5 DEF Follows
<1>7. /\ call \in Rpc /\ call.op = "TradeSave" /\ call.tid = t /\ call.waiting
  <2>1. Parties(T) \in SUBSET Role
    BY <1>4
  <2>2. call \in Rpc
    <3> HIDE DEF pockets
    <3> QED BY <2>1, <1>1, RpcTyped
  <2> QED BY <2>2 DEF Call
<1>8. rpcs \subseteq Rpc
  BY DEF Typed, TypeOK
<1> HIDE DEF call
<1>9. CASE Set(t, U) /\ rpcs' = rpcs \cup {call}
  <2>1. trans'[t] = U /\ trans' = [trans EXCEPT ![t] = U]
    BY <1>9, SetEffect
  <2>2. SaveAwaited(t)'
    BY <1>7, <1>9 DEF SaveAwaited
  <2>3. Asks(t)
    BY <1>7, <1>8, <1>9 DEF Asks
  <2> QED BY <2>1, <2>2, <2>3, <1>3, <1>6
<1>10. CASE Set(t, Destroyed(U)) /\ UNCHANGED rpcs
  <2>1. trans'[t] = Destroyed(U) /\ trans' = [trans EXCEPT ![t] = Destroyed(U)]
    BY <1>10, SetEffect
  <2>2. Follows(T, Destroyed(U)) /\ Destroyed(U).state = "Null"
    BY <1>3, <1>6, FollowsOn, DestroyedFollows, DestroyedTyped
  <2>3. Asks(t)
    BY <1>8, <1>10 DEF Asks
  <2> QED BY <2>1, <2>2, <2>3
<1> QED BY <1>2, <1>9, <1>10

LEMMA ConfirmGoesOn ==
    ASSUME Typed, NEW t \in Tid, NEW r \in Role, Confirm(t, r)
    PROVE  /\ GoesOn(t) /\ Asks(t)
           /\ trans'[t].state \in {"Confirm_half", "Confirm", "Null"}
           /\ trans'[t].state = "Confirm" => SaveAwaited(t)'
<1> DEFINE S == trans[t]
           T == [S EXCEPT !.trader[r].state = "CONFIRM"]
           p == Partner(T, r)
           f == [x \in Role |-> IF x \notin Parties(T) THEN T.trader[x]
                     ELSE [T.trader[x] EXCEPT !.pssn = @ \cup Deal(T)[Partner(T, x)],
                                              !.modified = TRUE]]
           exchanged == [T EXCEPT !.state = "Confirm", !.trader = f]
           U == IF Deal(T) = NoPockets THEN [T EXCEPT !.state = "Confirm"] ELSE exchanged
<1>1. /\ Live(t) /\ S \in Transaction /\ CanConfirm(S) /\ r \in Parties(S)
      /\ Parties(S) \subseteq Role /\ S.trader[r].state \in {"READY", "CONFIRM"}
  BY CanDiscardLive DEF Confirm, CanDiscard
<1>2. \/ /\ T.trader[p].state # "CONFIRM"
         /\ Set(t, [T EXCEPT !.state = "Confirm_half"])
         /\ UNCHANGED rpcs
      \/ /\ T.trader[p].state = "CONFIRM"
         /\ Write2DB(t, U)
  BY DEF Confirm
<1> HIDE DEF S
<1>3. /\ T \in Transaction /\ T.pair = S.pair /\ T.state = S.state
      /\ T.notify = S.notify /\ T.halfway = S.halfway /\ Deal(T) = Deal(S)
      /\ T.trader[r].state = "CONFIRM" /\ T.trader[r].agreed = S.trader[r].agreed
      /\ \A x \in Role : x # r => T.trader[x] = S.trader[x]
  <2> DEFINE ag == S.trader[r].agreed
  <2> HIDE DEF T
  <2>1. S \in Transaction
    BY <1>1
  <2>2. T = Enters(S, r, "CONFIRM", ag) /\ ag \in [Role -> Pocket] /\ "CONFIRM" \in TraderState
    BY <2>1, OnlyStateTyped DEF T, TraderState
  <2> HIDE DEF ag
  <2>3. /\ T \in Transaction /\ T.pair = S.pair /\ T.state = S.state
        /\ T.notify = S.notify /\ T.halfway = S.halfway /\ Deal(T) = Deal(S)
        /\ T.trader[r].state = "CONFIRM" /\ T.trader[r].agreed = ag
        /\ \A x \in Role : x # r => T.trader[x] = S.trader[x]
    BY <2>1, <2>2, StateTyped
  <2> QED BY <2>3 DEF ag
<1> HIDE DEF T
<1>4. /\ Parties(T) = Parties(S) /\ Parties(T) = {r, p} /\ p # r
      /\ \A x \in Parties(T) : Partner(T, x) \in Role
  BY <1>1, <1>3, PartiesTyped, TransactionFields DEF Parties
<1>5. ASSUME Agreed(S), ~T.halfway
      PROVE  \A x \in Parties(T) : T.trader[x].state \in {"READY", "CONFIRM"} =>
                                       T.trader[x].agreed = Deal(T)
  BY <1>1, <1>3, <1>4, <1>5 DEF Agreed, CanDiscard
<1>6. CASE /\ Set(t, [T EXCEPT !.state = "Confirm_half"])
           /\ UNCHANGED rpcs
  <2> DEFINE V == [T EXCEPT !.state = "Confirm_half"]
  <2>1. Set(t, V)
    BY <1>6
  <2> HIDE DEF V
  <2>2. /\ V \in Transaction /\ V.pair = T.pair /\ V.state = "Confirm_half" /\ V.trader = T.trader
        /\ V.notify = T.notify /\ V.halfway = T.halfway /\ Deal(V) = Deal(T)
        /\ Parties(V) = Parties(T)
    BY <1>3, TransStateTyped DEF TransState, V
  <2>3. Agreed(S) => Agreed(V)
    BY <2>2, <1>5 DEF Agreed, CanUpdate
  <2>4. Follows(S, V)
    BY <1>3, <2>2, <2>3 DEF Follows
  <2>5. Asks(t)
    BY <1>6 DEF Asks, Typed, TypeOK
  <2>6. GoesOn(t) /\ trans'[t] = V
    BY <1>1, <2>1, <2>4, GoesOnBySet DEF S
  <2> QED BY <2>2, <2>5, <2>6
<1>7. CASE T.trader[p].state = "CONFIRM" /\ Write2DB(t, U)
  <2>1. /\ f \in [Role -> Trader]
        /\ \A x \in Role : /\ f[x].state = T.trader[x].state /\ f[x].agreed = T.trader[x].agreed
                           /\ f[x].exchg = T.trader[x].exchg
    <3>1. ASSUME NEW x \in Role PROVE T.trader[x] \in Trader
      BY <1>3, TransactionFields
    <3>2. ASSUME NEW x \in Parties(T)
          PROVE  LET y == [T.trader[x] EXCEPT !.pssn = @ \cup Deal(T)[Partner(T, x)],
                                              !.modified = TRUE]
                 IN  /\ y \in Trader /\ y.state = T.trader[x].state
                     /\ y.agreed = T.trader[x].agreed /\ y.exchg = T.trader[x].exchg
      <4>1. Deal(T)[Partner(T, x)] \in Pocket /\ T.trader[x] \in Trader
        BY <1>1, <1>3, <1>4, <3>1, DealTyped
      <4> QED BY <4>1 DEF Trader, Pocket
    <3> QED BY <3>1, <3>2
  <2> HIDE DEF f
  <2>2. /\ U \in Transaction /\ U.pair = T.pair /\ U.state = "Confirm"
        /\ U.notify = T.notify /\ U.halfway = T.halfway /\ U.trader \in {T.trader, f}
    BY <1>3, <2>1 DEF Transaction, TransState
  <2> HIDE DEF U
  <2>3. Deal(U) = Deal(T) /\ Parties(U) = Parties(T)
    BY <2>1, <2>2 DEF Deal, Parties
  <2>4. \A x \in Role : U.trader[x].state = T.trader[x].state
                        /\ U.trader[x].agreed = T.trader[x].agreed
    BY <2>1, <2>2
  <2>5. Agreed(S) => Agreed(U)
    <3>1. \A x \in Parties(U) : x \in Role /\ U.trader[x].state = "CONFIRM"
      BY <1>1, <1>3, <1>4, <1>7, <2>3, <2>4
    <3> QED BY <1>1, <1>4, <1>5, <2>2, <2>3, <2>4, <3>1 DEF Agreed, CanUpdate
  <2>6. Follows(S, U)
    BY <1>3, <2>2, <2>5 DEF Follows
  <2>7. /\ trans' = [trans EXCEPT ![t] = trans'[t]] /\ Follows(U, trans'[t]) /\ Asks(t)
        /\ trans'[t].state # "Null" => trans'[t].state = U.state /\ SaveAwaited(t)'
    BY <1>1, <1>7, <2>2, Write2DBFollows
  <2>8. GoesOn(t)
    BY <1>1, <2>6, <2>7, FollowsOn DEF GoesOn, S
  <2> QED BY <2>2, <2>7, <2>8
<1> QED BY <1>2, <1>6, <1>7

LEMMA DiscardedFollows ==
    ASSUME NEW T \in Transaction
    PROVE  Follows(T, Discarded(T))
<1>1. Agreed(Discarded(T))
  BY DiscardedTyped, AgreedElsewhere DEF CanDiscard, CanUpdate, CanConfirm
<1> QED BY <1>1, DiscardedTyped DEF Follows

LEMMA DiscardGoesOn ==
    ASSUME Typed, NEW t \in Tid, CanDiscard(trans[t]), Write2DB(t, Discarded(trans[t]))
    PROVE  /\ GoesOn(t) /\ Asks(t)
           /\ trans'[t].state # "Null" => trans'[t].state = "Init" /\ SaveAwaited(t)'
<1> DEFINE S == trans[t]
           T == Discarded(S)
<1>1. Live(t) /\ S \in Transaction
  BY CanDiscardLive
<1>2. T \in Transaction /\ T.state = "Init" /\ Follows(S, T)
  BY <1>1, DiscardedTyped, DiscardedFollows
<1>3. Write2DB(t, T)
  OBVIOUS
<1> HIDE DEF T
<1>4. /\ trans' = [trans EXCEPT ![t] = trans'[t]] /\ Follows(T, trans'[t]) /\ Asks(t)
      /\ trans'[t].state # "Null" => trans'[t].state = T.state /\ SaveAwaited(t)'
  BY <1>1, <1>2, <1>3, Write2DBFollows
<1> QED BY <1>1, <1>2, <1>4, FollowsOn DEF GoesOn

\* A transaction ends: it was discarded without its moves, or its save was answered.
LEMMA DestroyedGoesOn ==
    ASSUME Typed, NEW t \in Tid, Live(t), NEW T, Follows(trans[t], T),
           Set(t, Destroyed(T))
    PROVE  GoesOn(t) /\ trans'[t].state = "Null"
<1>1. T \in Transaction
  BY DEF Follows
<1>2. Follows(trans[t], Destroyed(T)) /\ Destroyed(T).state = "Null"
  BY <1>1, DestroyedFollows, DestroyedTyped, FollowsOn
<1> QED BY <1>2, GoesOnBySet

\* A player has left, as gs or as the connection tells.
LEMMA LogoutDiscards ==
    ASSUME Typed, NEW m, PlayerLogout(m)
    PROVE  m.role \in Role /\ (DiscardTransaction(m.role) \/ UNCHANGED trans)
BY HeardEffect, PendingTyped DEF PlayerLogout, ToDelivery

LEMMA DiscardTransactionGoesOn ==
    ASSUME Typed, NEW d \in Role, DiscardTransaction(d)
    PROVE  \/ UNCHANGED trans
           \/ \E t \in Tid : GoesOn(t) /\ trans'[t].state = "Null"
<1> DEFINE t == traderMap[d]
           T == Discarded(trans[t])
           f == [r \in Role |-> [T.trader[r] EXCEPT !.modified = FALSE]]
           U == [T EXCEPT !.trader = f]
<1>2. t \in {NoTid} \cup Tid
  BY DEF Typed, TypeOK
<1>3. \/ UNCHANGED trans
      \/ t # NoTid /\ CanDiscard(trans[t]) /\ Set(t, Destroyed(U))
  BY DEF DiscardTransaction
<1> HIDE DEF t
<1>4. ASSUME t # NoTid, CanDiscard(trans[t]), Set(t, Destroyed(U))
      PROVE  GoesOn(t) /\ trans'[t].state = "Null"
  <2>1. t \in Tid /\ Live(t) /\ trans[t] \in Transaction
    BY <1>2, <1>4, CanDiscardLive
  <2>2. T \in Transaction /\ T.state = "Init" /\ Follows(trans[t], T)
    BY <2>1, DiscardedTyped, DiscardedFollows
  <2> HIDE DEF T
  <2>3. f \in [Role -> Trader]
    <3>1. ASSUME NEW r \in Role PROVE [T.trader[r] EXCEPT !.modified = FALSE] \in Trader
      <4>1. T.trader[r] \in Trader
        BY <2>2, TransactionFields
      <4> QED BY <4>1 DEF Trader
    <3> QED BY <3>1
  <2> HIDE DEF f
  <2>4. U \in Transaction /\ U.state = "Init" /\ U.pair = T.pair /\ U.notify = T.notify
    BY <2>2, <2>3 DEF Transaction
  <2> HIDE DEF U
  <2>5. Follows(trans[t], U)
    BY <2>2, <2>4, AgreedElsewhere DEF Follows, CanDiscard, CanUpdate, CanConfirm
  <2> QED BY <2>1, <2>5, <1>4, DestroyedGoesOn
<1> QED BY <1>2, <1>3, <1>4

LEMMA FollowsItself == ASSUME NEW T \in Transaction PROVE Follows(T, T)
BY DEF Follows

LEMMA TradeSaveGoesOn ==
    ASSUME Typed, NEW m \in rpcs, NEW ok \in BOOLEAN, TradeSaveReturns(m, ok)
    PROVE  /\ m.tid \in Tid /\ m.waiting /\ m.op = "TradeSave" /\ rpcs' = Finished(m)
           /\ \/ UNCHANGED trans /\ ~Live(m.tid)
              \/ GoesOn(m.tid) /\ trans'[m.tid].state = "Null"
<1> DEFINE t == m.tid
<1>1. t \in Tid /\ m.waiting /\ m.op = "TradeSave" /\ rpcs' = Finished(m)
  BY DEF TradeSaveReturns, Returns, Typed, TidsNamed
<1>2. CASE ~Live(t)
  BY <1>1, <1>2 DEF TradeSaveReturns
<1>3. CASE Live(t)
  <2>1. trans' = [trans EXCEPT ![t] = Destroyed(trans[t])]
    BY <1>3 DEF TradeSaveReturns
  <2>2. Set(t, Destroyed(trans[t]))
    BY <2>1 DEF Set
  <2>3. trans[t] \in Transaction /\ Follows(trans[t], trans[t])
    BY <1>1, <1>3, TransTyped, FollowsItself
  <2> QED BY <1>1, <1>3, <2>2, <2>3, DestroyedGoesOn
<1> QED BY <1>1, <1>2, <1>3

LEMMA TradeInventoryGoesOn ==
    ASSUME Typed, NEW m \in rpcs, NEW ok \in BOOLEAN, TradeInventoryReturns(m, ok)
    PROVE  /\ m.tid \in Tid /\ m.waiting /\ m.op = "TradeInventory" /\ rpcs' = Finished(m)
           /\ \/ UNCHANGED trans /\ ~Live(m.tid)
              \/ GoesOn(m.tid) /\ trans'[m.tid].state \in {"Exchange", "Null"}
<1> DEFINE t == m.tid
           T == trans[t]
           f == [r \in Role |-> IF r \notin Parties(T) THEN T.trader[r]
                     ELSE [T.trader[r] EXCEPT !.state = "EXCHANGE", !.pssn = m.pockets[r]]]
           U == [T EXCEPT !.state = "Exchange", !.trader = f]
<1>1. t \in Tid /\ m.waiting /\ m.op = "TradeInventory" /\ rpcs' = Finished(m) /\ m \in Rpc
  BY DEF TradeInventoryReturns, Returns, Typed, TidsNamed, TypeOK
<1>2. CASE ~Live(t)
  BY <1>1, <1>2 DEF TradeInventoryReturns
<1>3. CASE Live(t)
  <2>1. T \in Transaction /\ Parties(T) \subseteq Role
    BY <1>1, <1>3, TransTyped, TransactionFields, PartiesTyped
  <2>2. Set(t, U) \/ Set(t, Destroyed(T))
    BY <1>3 DEF TradeInventoryReturns, Set
  <2> HIDE DEF T
  <2>3. /\ f \in [Role -> Trader]
        /\ \A r \in Parties(T) : f[r].state = "EXCHANGE"
    <3>1. ASSUME NEW r \in Role
          PROVE  LET x == [T.trader[r] EXCEPT !.state = "EXCHANGE", !.pssn = m.pockets[r]]
                 IN  x \in Trader /\ x.state = "EXCHANGE" /\ T.trader[r] \in Trader
      <4>1. m.pockets[r] \in Pocket /\ T.trader[r] \in Trader
        BY <1>1, <2>1, RpcTyped, TransactionFields
      <4> QED BY <4>1 DEF Trader
    <3> QED BY <2>1, <3>1
  <2> HIDE DEF f
  <2>4. U \in Transaction /\ U.state = "Exchange" /\ U.pair = T.pair /\ U.notify = T.notify
        /\ U.trader = f
    BY <2>1, <2>3 DEF Transaction, TransState
  <2> HIDE DEF U
  <2>5. Agreed(U)
    BY <2>3, <2>4 DEF Agreed, Parties, CanUpdate
  <2>6. Follows(T, U) /\ Follows(T, T)
    BY <2>1, <2>4, <2>5, FollowsItself DEF Follows
  <2>7. ASSUME Set(t, U) PROVE GoesOn(t) /\ trans'[t] = U
    BY <1>1, <1>3, <2>6, <2>7, GoesOnBySet DEF T
  <2>8. ASSUME Set(t, Destroyed(T)) PROVE GoesOn(t) /\ trans'[t].state = "Null"
    BY <1>1, <1>3, <2>6, <2>8, DestroyedGoesOn DEF T
  <2> QED BY <1>1, <2>2, <2>4, <2>7, <2>8
<1> QED BY <1>1, <1>2, <1>3

InventoryAwaited(t) == \E m \in rpcs : m.op = "TradeInventory" /\ m.tid = t /\ m.waiting

LEMMA AttachGoesOn ==
    ASSUME Typed, NEW t \in Tid, Live(t), NEW r \in Parties(trans[t]),
           trans[t].state \in {"Init", "Init_half"}, Attach(t, r)
    PROVE  /\ GoesOn(t) /\ Asks(t) /\ traderMap' = [traderMap EXCEPT ![r] = t]
           /\ trans'[t].notify /\ trans'[t].state \in {"Init_half", "SetPossession", "Null"}
           /\ trans'[t].state = "SetPossession" => InventoryAwaited(t)'
<1> DEFINE S == trans[t]
           T == [S EXCEPT !.notify = TRUE, !.trader[r].state = "INIT_HALF"]
           call == Call("TradeInventory", t, Parties(T), NoPockets)
           x == [S.trader[r] EXCEPT !.state = "INIT_HALF"]
           f == [S.trader EXCEPT ![r] = x]
<1>1. S \in Transaction /\ r \in Role /\ S.trader \in [Role -> Trader] /\ S.trader[r] \in Trader
  <2>1. S \in Transaction
    BY TransTyped
  <2> HIDE DEF S
  <2>2. Parties(S) \subseteq Role
    BY <2>1, TransactionFields, PartiesTyped
  <2> QED BY <2>1, <2>2, TransactionFields DEF S
<1>2. /\ traderMap' = [traderMap EXCEPT ![r] = t]
      /\ \/ /\ Set(t, [T EXCEPT !.state = "Init_half"])
            /\ UNCHANGED rpcs
         \/ /\ Set(t, [T EXCEPT !.state = "SetPossession"])
            /\ rpcs' = rpcs \cup {call}
         \/ /\ Set(t, Destroyed(T))
            /\ UNCHANGED rpcs
  BY DEF Attach
<1>3. S.state \in {"Init", "Init_half"}
  OBVIOUS
<1> HIDE DEF S
<1>4. x \in Trader
  BY <1>1 DEF Trader
<1>5. f \in [Role -> Trader]
  <2> HIDE DEF x
  <2> QED BY <1>1, <1>4
<1>6. T = [S EXCEPT !.notify = TRUE, !.trader = f]
  BY <1>1 DEF Transaction, Trader
<1> HIDE DEF T, f
<1>7. T \in Transaction /\ T.pair = S.pair /\ T.notify /\ T.state = S.state
  BY <1>1, <1>5, <1>6 DEF Transaction
<1>8. Follows(S, T)
  BY <1>3, <1>7, AgreedElsewhere DEF Follows, CanDiscard, CanUpdate, CanConfirm
<1>9. /\ call \in Rpc /\ call.op = "TradeInventory" /\ call.tid = t /\ call.waiting
  <2>1. Parties(T) \in SUBSET Role /\ NoPockets \in [Role -> Pocket]
    BY <1>7, TransactionFields, PartiesTyped, NewTraderTyped
  <2>2. call \in Rpc
    BY <2>1, RpcTyped
  <2> QED BY <2>2 DEF Call
<1>10. rpcs \subseteq Rpc
  BY DEF Typed, TypeOK
<1> HIDE DEF call
<1>11. ASSUME NEW s \in {"Init_half", "SetPossession"}, Set(t, [T EXCEPT !.state = s])
       PROVE  GoesOn(t) /\ trans'[t].notify /\ trans'[t].state = s
  <2> DEFINE U == [T EXCEPT !.state = s]
  <2>1. Set(t, U)
    BY <1>11
  <2>2. U \in Transaction /\ U.pair = T.pair /\ U.notify /\ U.state = s
    BY <1>7 DEF Transaction, TransState
  <2> HIDE DEF U
  <2>3. Follows(S, U)
    BY <1>7, <2>2, AgreedElsewhere DEF Follows, CanDiscard, CanUpdate, CanConfirm
  <2> QED BY <2>1, <2>2, <2>3, GoesOnBySet DEF S
<1>12. CASE Set(t, [T EXCEPT !.state = "Init_half"]) /\ UNCHANGED rpcs
  <2>1. GoesOn(t) /\ trans'[t].notify /\ trans'[t].state = "Init_half"
    BY <1>11, <1>12
  <2> QED BY <1>2, <1>10, <1>12, <2>1 DEF Asks
<1>13. CASE Set(t, [T EXCEPT !.state = "SetPossession"]) /\ rpcs' = rpcs \cup {call}
  <2>1. GoesOn(t) /\ trans'[t].notify /\ trans'[t].state = "SetPossession"
    BY <1>11, <1>13
  <2>2. Asks(t) /\ InventoryAwaited(t)'
    BY <1>9, <1>10, <1>13 DEF Asks, InventoryAwaited
  <2> QED BY <1>2, <2>1, <2>2
<1>14. CASE Set(t, Destroyed(T)) /\ UNCHANGED rpcs
  <2>1. GoesOn(t) /\ trans'[t].state = "Null" /\ trans'[t] = Destroyed(T)
    BY <1>8, <1>14, DestroyedGoesOn, SetEffect DEF S
  <2>2. trans'[t].notify
    BY <1>7, <2>1, DestroyedTyped
  <2>3. Asks(t)
    BY <1>10, <1>14 DEF Asks
  <2> QED BY <1>2, <2>1, <2>2, <2>3
<1> QED BY <1>2, <1>12, <1>13, <1>14

\* A lock is reported: the trader is attached, the trade is over, or it was already.
Attaches(m) ==
    /\ m.ok /\ m.role \in Parties(trans[m.tid]) /\ traderMap[m.role] = NoTid
    /\ GoesOn(m.tid) /\ Asks(m.tid) /\ traderMap' = [traderMap EXCEPT ![m.role] = m.tid]
    /\ trans'[m.tid].notify /\ trans'[m.tid].state \in {"Init_half", "SetPossession", "Null"}
    /\ trans'[m.tid].state = "SetPossession" => InventoryAwaited(m.tid)'
Refuses(m) ==
    /\ GoesOn(m.tid) /\ trans'[m.tid].state = "Null" /\ (m.ok => trans'[m.tid].notify)
    /\ UNCHANGED <<traderMap, rpcs>>
ComesLate(m) == ~Live(m.tid) /\ UNCHANGED <<trans, traderMap, rpcs>>

LEMMA StartReGoesOn ==
    ASSUME Typed, NEW m, GTradeStart_Re(m)
    PROVE  /\ m \in ToDelivery /\ m.op = "GTradeStart_Re" /\ m.tid \in Tid /\ m.role \in Role
           /\ Attaches(m) \/ Refuses(m) \/ ComesLate(m)
<1> DEFINE t == m.tid
           r == m.role
           attach == /\ trans[t].state \in {"Init", "Init_half"} /\ r \in Parties(trans[t])
                     /\ traderMap[r] = NoTid
           T == [trans[t] EXCEPT !.notify = @ \/ m.ok]
<1>1. m \in ToDelivery /\ m.op = "GTradeStart_Re" /\ t \in Tid
  BY HeardEffect, PendingTyped DEF GTradeStart_Re
<1>2. r \in Role /\ m.ok \in BOOLEAN
  BY <1>1 DEF ToDelivery
<1>3. \/ Live(t) /\ m.ok /\ attach /\ Attach(t, r)
      \/ Live(t) /\ Set(t, Destroyed(T)) /\ UNCHANGED <<traderMap, rpcs>>
      \/ ~Live(t) /\ UNCHANGED <<trans, traderMap, rpcs>>
  BY DEF GTradeStart_Re
<1>4. CASE Live(t) /\ m.ok /\ attach /\ Attach(t, r)
  BY <1>1, <1>2, <1>4, AttachGoesOn DEF Attaches
<1>5. CASE Live(t) /\ Set(t, Destroyed(T)) /\ UNCHANGED <<traderMap, rpcs>>
  <2>1. trans[t] \in Transaction
    BY <1>1, <1>5, TransTyped
  <2>2. /\ T \in Transaction /\ T.pair = trans[t].pair /\ T.state = trans[t].state
        /\ T.notify = (trans[t].notify \/ m.ok) /\ T.halfway = trans[t].halfway
        /\ T.trader = trans[t].trader
    BY <1>2, <2>1 DEF Transaction
  <2> HIDE DEF T
  <2>3. Agreed(trans[t]) => Agreed(T)
    BY <2>2 DEF Agreed, CanUpdate, CanDiscard, CanConfirm, Parties, Deal
  <2>4. Follows(trans[t], T)
    BY <2>2, <2>3 DEF Follows
  <2>5. GoesOn(t) /\ trans'[t].state = "Null" /\ trans'[t] = Destroyed(T)
    BY <1>1, <1>5, <2>4, DestroyedGoesOn, SetEffect
  <2>6. m.ok => trans'[t].notify
    BY <2>2, <2>5, DestroyedTyped
  <2>7. Refuses(m)
    BY <1>5, <2>5, <2>6 DEF Refuses
  <2> QED BY <1>1, <1>2, <2>7
<1>6. CASE ~Live(t) /\ UNCHANGED <<trans, traderMap, rpcs>>
  BY <1>1, <1>2, <1>6 DEF ComesLate
<1> QED BY <1>3, <1>4, <1>5, <1>6

LEMMA CreateEffect ==
    ASSUME Typed, NEW p \in Pairs, Create(p)
    PROVE  /\ lastTid' \in Tid /\ lastTid' = lastTid + 1
           /\ trans' = [trans EXCEPT ![lastTid'] = trans'[lastTid']]
           /\ trans'[lastTid'] \in Transaction /\ Agreed(trans'[lastTid'])
           /\ trans'[lastTid'].pair = p /\ ~trans'[lastTid'].notify
           /\ trans'[lastTid'].state \in {"Init", "Null"}
           /\ toGs \subseteq toGs' /\ toGs' \subseteq toGs \cup {TradeStart(lastTid', p)}
<1>1. /\ lastTid < MaxTid /\ lastTid' = lastTid + 1 /\ lastTid \in {NoTid} \cup Tid
      /\ MaxTid \in Nat
  BY TradeAssumption DEF Create, Typed, TypeOK
<1>2. lastTid' \in Tid
  BY <1>1 DEF Tid, NoTid
<1>3. PICK sent \in BOOLEAN :
          /\ trans' = [trans EXCEPT ![lastTid'] =
                 [pair |-> p, state |-> IF sent THEN "Init" ELSE "Null",
                  trader |-> [r \in Role |-> NewTrader], notify |-> FALSE, halfway |-> FALSE]]
          /\ toGs' = toGs \cup {m \in {TradeStart(lastTid', p)} : sent}
  BY DEF Create
<1> DEFINE T == [pair |-> p, state |-> IF sent THEN "Init" ELSE "Null",
                 trader |-> [r \in Role |-> NewTrader], notify |-> FALSE, halfway |-> FALSE]
<1>4. trans' = [trans EXCEPT ![lastTid'] = T] /\ trans'[lastTid'] = T
  BY <1>2, <1>3 DEF Typed, TypeOK
<1>5. /\ T \in Transaction /\ T.pair = p /\ ~T.notify /\ T.state \in {"Init", "Null"}
  <2>1. [r \in Role |-> NewTrader] \in [Role -> Trader]
    BY NewTraderTyped
  <2> QED BY <2>1 DEF Transaction, TransState
<1> HIDE DEF T
<1>6. Agreed(T)
  BY <1>5, AgreedElsewhere DEF CanDiscard, CanUpdate, CanConfirm
<1> QED BY <1>1, <1>2, <1>3, <1>4, <1>5, <1>6

LEMMA UpdateEffect ==
    ASSUME Typed, NEW t \in Tid, Update(t)
    PROVE  /\ Live(t) /\ trans[t].state # "Confirm" /\ (trans[t].state # "Null" => ~Expected(t))
           /\ trans' = [trans EXCEPT ![t] = NoTransaction] /\ trans'[t] = NoTransaction
           /\ toGs \subseteq toGs'
           /\ \A m \in toGs' \ toGs : \E r \in Role, read \in BOOLEAN : m = TradeEnd(t, r, read)
           /\ \A r \in Parties(trans[t]) : trans[t].notify /\ trans[t].state # "Init" =>
                 \E read \in BOOLEAN : TradeEnd(t, r, read) \in toGs'
           /\ strays' = {d \in strays : d[1] # t}
<1> DEFINE T == trans[t]
<1>1. /\ Live(t) /\ T.state # "Confirm" /\ (T.state # "Null" => ~Expected(t))
      /\ trans' = [trans EXCEPT ![t] = NoTransaction]
      /\ toGs' = toGs \cup {TradeEnd(t, r, T.trader[r].modified) :
                     r \in {x \in Parties(T) : T.notify /\ T.state # "Init"}}
      /\ strays' = {d \in strays : d[1] # t}
  BY DEF Update, Set
<1>2. trans'[t] = NoTransaction
  BY <1>1 DEF Typed, TypeOK
<1>3. T \in Transaction
  BY <1>1, TransTyped
<1> HIDE DEF T
<1>4. /\ Parties(T) \subseteq Role
      /\ \A r \in Role : T.trader[r].modified \in BOOLEAN
  BY <1>3, TransactionFields, PartiesTyped, TraderFields
<1> QED BY <1>1, <1>2, <1>4 DEF T

\* Goods that change hands between a pocket and the table.
LEMMA OfferedTyped ==
    ASSUME Typed, NEW t \in Tid, NEW r \in Role, NEW g \in Goods, NEW paid \in BOOLEAN,
           AddGoods(t, r, g, paid) \/ RemoveGoods(t, r, g, paid)
    PROVE  \E pssn, exchg \in Pocket : Moved(t, r, pssn, exchg, paid)
<1> DEFINE x == trans[t].trader[r]
<1>1. Live(t) /\ trans[t] \in Transaction
  BY TransTyped DEF AddGoods, RemoveGoods
<1>2. x.pssn \in Pocket /\ x.exchg \in Pocket
  BY <1>1, TransactionFields, TraderFields
<1>3. CASE AddGoods(t, r, g, paid)
  <2>1. Moved(t, r, x.pssn \ {g}, x.exchg \cup {g}, paid)
    BY <1>3 DEF AddGoods
  <2>2. x.pssn \ {g} \in Pocket /\ x.exchg \cup {g} \in Pocket
    BY <1>2 DEF Pocket
  <2> HIDE DEF x
  <2> QED BY <2>1, <2>2
<1>4. CASE RemoveGoods(t, r, g, paid)
  <2>1. Moved(t, r, x.pssn \cup {g}, x.exchg \ {g}, paid)
    BY <1>4 DEF RemoveGoods
  <2>2. x.pssn \cup {g} \in Pocket /\ x.exchg \ {g} \in Pocket
    BY <1>2 DEF Pocket
  <2> HIDE DEF x
  <2> QED BY <2>1, <2>2
<1> QED BY <1>3, <1>4

LEMMA TransKeepTypes ==
    ASSUME Typed,
           \/ UNCHANGED trans
           \/ \E t \in Tid : GoesOn(t)
    PROVE  trans' \in [Tid -> Transaction \cup {NoTransaction}]
BY DEF Typed, TypeOK, GoesOn, Follows

LEMMA TypedCreate ==
    ASSUME Typed, NEW p \in Pairs, Create(p)
    PROVE  Typed'
<1>1. /\ lastTid' \in Tid
      /\ trans' = [trans EXCEPT ![lastTid'] = trans'[lastTid']]
      /\ trans'[lastTid'] \in Transaction
      /\ toGs' \subseteq toGs \cup {TradeStart(lastTid', p)}
  BY CreateEffect
<1>2. TradeStart(lastTid', p) \in ToGs
  BY <1>1 DEF TradeStart, ToGs
<1>3. trans' \in [Tid -> Transaction \cup {NoTransaction}]
  BY <1>1 DEF Typed, TypeOK
<1>4. UNCHANGED <<traderMap, gs, db, toDelivery, rpcs, doubt, strays>>
  BY DEF Create, history
<1> QED BY <1>1, <1>2, <1>3, <1>4 DEF Typed, TypeOK, TidsNamed

LEMMA TypedUpdate ==
    ASSUME Typed, NEW t \in Tid, Update(t)
    PROVE  Typed'
<1>1. /\ trans' = [trans EXCEPT ![t] = NoTransaction]
      /\ \A m \in toGs' \ toGs : \E r \in Role, read \in BOOLEAN : m = TradeEnd(t, r, read)
      /\ strays' = {d \in strays : d[1] # t}
  BY UpdateEffect
<1>2. toGs' \subseteq ToGs
  BY <1>1 DEF TradeEnd, ToGs, Typed, TypeOK
<1>3. /\ UNCHANGED <<lastTid, gs, db, toDelivery, rpcs, doubt>>
      /\ traderMap' \in [Role -> {NoTid} \cup Tid]
  BY DEF Update, Typed, TypeOK
<1> QED BY <1>1, <1>2, <1>3 DEF Typed, TypeOK, TidsNamed

\* The operations of the players.
LEMMA TypedRequest ==
    ASSUME Typed, NEW t \in Tid, GoesOn(t),
           rpcs' = rpcs \/ Asks(t),
           UNCHANGED <<lastTid, traderMap, gs, db, toGs, toDelivery, history>>
    PROVE  Typed'
<1>1. rpcs' \subseteq Rpc /\ \A m \in rpcs' : m \in rpcs \/ m.tid = t
  BY DEF Asks, Typed, TypeOK
<1>2. \A m \in rpcs' : m.waiting => m.tid \in Tid
  BY <1>1 DEF Typed, TidsNamed
<1>3. UNCHANGED <<lastTid, traderMap, gs, db, toGs, toDelivery, doubt, strays>>
  BY DEF history
<1> QED BY <1>1, <1>2, <1>3, TransKeepTypes DEF Typed, TypeOK, TidsNamed

\* The answers to the calls of gdeliveryd.
LEMMA TypedReturn ==
    ASSUME Typed, NEW m \in rpcs, rpcs' = Finished(m),
           UNCHANGED trans \/ \E t \in Tid : GoesOn(t),
           doubt' \in BOOLEAN,
           UNCHANGED <<lastTid, traderMap, gs, db, toGs, toDelivery, strays>>
    PROVE  Typed'
BY FinishedTyped, TransKeepTypes DEF Typed, TypeOK, TidsNamed

\* What gs tells gdeliveryd.
LEMMA TypedHeard ==
    ASSUME Typed, NEW m, Heard(m),
           UNCHANGED trans \/ \E t \in Tid : GoesOn(t),
           rpcs' = rpcs \/ (\E t \in Tid : Asks(t)),
           traderMap' \in [Role -> {NoTid} \cup Tid], strays' \subseteq Tid \X Role,
           UNCHANGED <<lastTid, gs, db, toGs, doubt>>
    PROVE  Typed'
<1>1. rpcs' \subseteq Rpc /\ \A x \in rpcs' : x \in rpcs \/ x.tid \in Tid
  BY DEF Asks, Typed, TypeOK
<1>2. \A x \in rpcs' : x.waiting => x.tid \in Tid
  BY <1>1 DEF Typed, TidsNamed
<1>3. toDelivery' \in Seq(ToDelivery) /\ \A x : Pending(x)' => Pending(x)
  BY HeardEffect
<1>4. \A i \in DOMAIN toDelivery' : toDelivery'[i].op # "PlayerLogout" =>
                                        toDelivery'[i].tid \in Tid
  BY <1>3, TidsOfMessages, PendingTyped
<1>5. trans' \in [Tid -> Transaction \cup {NoTransaction}]
  BY TransKeepTypes
<1> QED BY <1>1, <1>2, <1>3, <1>4, <1>5 DEF Typed, TypeOK, TidsNamed

LEMMA TypedDelivery == Typed /\ Delivery => Typed'
<1> SUFFICES ASSUME Typed, Delivery PROVE Typed'
  OBVIOUS
<1>1. ASSUME NEW p \in Pairs, Create(p) PROVE Typed'
  BY <1>1, TypedCreate
<1>2. ASSUME NEW m, GTradeStart_Re(m) PROVE Typed'
  <2>1. /\ m.tid \in Tid /\ m.role \in Role
        /\ Attaches(m) \/ Refuses(m) \/ ComesLate(m)
    BY <1>2, StartReGoesOn
  <2>2. /\ Heard(m) /\ UNCHANGED <<lastTid, gs, db, toGs, doubt>>
        /\ strays' \subseteq strays \cup {<<m.tid, m.role>>}
    BY <1>2 DEF GTradeStart_Re
  <2>3. /\ UNCHANGED trans \/ \E t \in Tid : GoesOn(t)
        /\ rpcs' = rpcs \/ \E t \in Tid : Asks(t)
        /\ traderMap' \in [Role -> {NoTid} \cup Tid]
    BY <2>1 DEF Attaches, Refuses, ComesLate, Typed, TypeOK
  <2>4. strays' \subseteq Tid \X Role
    BY <2>1, <2>2 DEF Typed, TypeOK
  <2> QED BY <2>2, <2>3, <2>4, TypedHeard
<1>3. ASSUME NEW m, GTradeDiscard(m) PROVE Typed'
  <2>1. Heard(m) /\ UNCHANGED <<lastTid, traderMap, gs, db, toGs, doubt, strays>>
    BY <1>3 DEF GTradeDiscard, history
  <2>2. m.tid \in Tid
    BY <1>3, <2>1, HeardEffect, PendingTyped DEF GTradeDiscard
  <2>3. \/ UNCHANGED <<trans, rpcs>>
        \/ GoesOn(m.tid) /\ Asks(m.tid)
    BY <1>3, <2>2, DiscardGoesOn DEF GTradeDiscard
  <2>4. traderMap' \in [Role -> {NoTid} \cup Tid] /\ strays' \subseteq Tid \X Role
    BY <2>1 DEF Typed, TypeOK
  <2> QED BY <2>1, <2>2, <2>3, <2>4, TypedHeard
<1>4. ASSUME NEW m, PlayerLogout(m) PROVE Typed'
  <2>1. Heard(m) /\ UNCHANGED <<lastTid, traderMap, gs, db, toGs, rpcs, doubt, strays>>
    BY <1>4 DEF PlayerLogout, history
  <2>2. UNCHANGED trans \/ \E t \in Tid : GoesOn(t)
    BY <1>4, LogoutDiscards, DiscardTransactionGoesOn
  <2>3. traderMap' \in [Role -> {NoTid} \cup Tid] /\ strays' \subseteq Tid \X Role
    BY <2>1 DEF Typed, TypeOK
  <2> QED BY <2>1, <2>2, <2>3, TypedHeard
<1>5. ASSUME NEW m \in rpcs, NEW ok \in BOOLEAN, TradeInventoryReturns(m, ok) PROVE Typed'
  <2>1. UNCHANGED <<lastTid, traderMap, gs, db, toGs, toDelivery, strays>> /\ doubt' \in BOOLEAN
    BY <1>5 DEF TradeInventoryReturns, history, Typed, TypeOK
  <2> QED BY <1>5, <2>1, TradeInventoryGoesOn, TypedReturn
<1>6. ASSUME NEW m \in rpcs, NEW ok \in BOOLEAN, TradeSaveReturns(m, ok) PROVE Typed'
  <2>1. UNCHANGED <<lastTid, traderMap, gs, db, toGs, toDelivery, strays>> /\ doubt' \in BOOLEAN
    BY <1>6 DEF TradeSaveReturns, Typed, TypeOK
  <2> QED BY <1>6, <2>1, TradeSaveGoesOn, TypedReturn
<1>7. ASSUME NEW t \in Tid, NEW r \in Role, NEW pssn \in Pocket, NEW exchg \in Pocket,
             NEW paid \in BOOLEAN, Moved(t, r, pssn, exchg, paid)
      PROVE  Typed'
  <2>1. rpcs' = rpcs /\ UNCHANGED <<lastTid, traderMap, gs, db, toGs, toDelivery, history>>
    BY <1>7 DEF Moved
  <2> QED BY <1>7, <2>1, MovedGoesOn, TypedRequest
<1>8. ASSUME NEW t \in Tid, NEW r \in Role, NEW room \in BOOLEAN, Submit(t, r, room)
      PROVE  Typed'
  <2>1. rpcs' = rpcs /\ UNCHANGED <<lastTid, traderMap, gs, db, toGs, toDelivery, history>>
    BY <1>8 DEF Submit
  <2> QED BY <1>8, <2>1, SubmitGoesOn, TypedRequest
<1>9. ASSUME NEW t \in Tid, NEW r \in Role, MoveObject(t, r) PROVE Typed'
  <2>1. rpcs' = rpcs /\ UNCHANGED <<lastTid, traderMap, gs, db, toGs, toDelivery, history>>
    BY <1>9 DEF MoveObject
  <2> QED BY <1>9, <2>1, MoveObjectGoesOn, TypedRequest
<1>10. ASSUME NEW t \in Tid, NEW r \in Role, Confirm(t, r) PROVE Typed'
  <2>1. UNCHANGED <<lastTid, traderMap, gs, db, toGs, toDelivery, history>>
    BY <1>10 DEF Confirm
  <2> QED BY <1>10, <2>1, ConfirmGoesOn, TypedRequest
<1>11. ASSUME NEW t \in Tid, TradeDiscard(t) PROVE Typed'
  <2>1. UNCHANGED <<lastTid, traderMap, gs, db, toGs, toDelivery, history>>
    BY <1>11 DEF TradeDiscard
  <2>2. GoesOn(t) /\ Asks(t)
    BY <1>11, DiscardGoesOn DEF TradeDiscard
  <2> QED BY <2>1, <2>2, TypedRequest
<1>12. ASSUME NEW t \in Tid, Update(t) PROVE Typed'
  BY <1>12, TypedUpdate
<1>13. ASSUME NEW t \in Tid, NEW r \in Role, NEW g \in Goods, NEW paid \in BOOLEAN,
              AddGoods(t, r, g, paid) \/ RemoveGoods(t, r, g, paid)
       PROVE  Typed'
  BY <1>13, <1>7, OfferedTyped
<1>14. ASSUME NEW r \in Role, UserDisconnect(r) PROVE Typed'
  <2>1. UNCHANGED <<lastTid, traderMap, gs, db, toGs, toDelivery, rpcs, history>>
    BY <1>14 DEF UserDisconnect
  <2>2. UNCHANGED trans \/ \E t \in Tid : GoesOn(t)
    BY <1>14, DiscardTransactionGoesOn DEF UserDisconnect
  <2>3. CASE UNCHANGED trans
    BY <2>1, <2>3 DEF history, Typed, TypeOK, TidsNamed
  <2> QED BY <2>1, <2>2, <2>3, TypedRequest
<1> QED BY <1>1, <1>2, <1>3, <1>4, <1>5, <1>6, <1>8, <1>9, <1>10, <1>11, <1>12, <1>13,
           <1>14
        DEF Delivery

\* A player whose trade state changes; what gs tells gdeliveryd meanwhile.
LEMMA TypedGsStep ==
    ASSUME Typed, NEW f \in [Role -> Player], gs' = f,
           \A r \in Role : f[r].state \notin {"normal", "offline"} => f[r].tid \in Tid,
           \/ UNCHANGED toDelivery
           \/ \E m \in ToDelivery : Told(m) /\ (m.op # "PlayerLogout" => m.tid \in Tid),
           rpcs' \subseteq Rpc, \A m \in rpcs' : m.waiting => m.tid \in Tid,
           toGs' \subseteq toGs, strays' \subseteq Tid \X Role, doubt' \in BOOLEAN,
           UNCHANGED <<deliveryVars, db>>
    PROVE  Typed'
<1>1. /\ toDelivery' \in Seq(ToDelivery)
      /\ \A i \in DOMAIN toDelivery' : toDelivery'[i].op # "PlayerLogout" =>
                                           toDelivery'[i].tid \in Tid
  <2>1. CASE UNCHANGED toDelivery
    BY <2>1 DEF Typed, TypeOK, TidsNamed
  <2>2. ASSUME NEW m \in ToDelivery, Told(m), m.op # "PlayerLogout" => m.tid \in Tid
        PROVE  <1>1!1 /\ <1>1!2
    <3>1. toDelivery' \in Seq(ToDelivery) /\ \A x : Pending(x)' <=> Pending(x) \/ x = m
      BY <2>2, ToldEffect
    <3>2. \A x : Pending(x)' => Pending(x) \/ x.op = "PlayerLogout" \/ x.tid \in Tid
      BY <2>2, <3>1
    <3> QED BY <3>1, <3>2, TidsOfMessages
  <2> QED BY <2>1, <2>2
<1>2. UNCHANGED <<trans, lastTid, traderMap, db>>
  BY DEF deliveryVars
<1> QED BY <1>1, <1>2 DEF Typed, TypeOK, TidsNamed

\* A player who is in another state of the same trade, in none, or as the others left.
LEMMA PlayerBecomes ==
    ASSUME Typed, NEW r \in Role,
           NEW s \in {"normal", "wait_trade", "trade", "wait_complete", "wait_read", "offline"},
           s \in {"normal", "offline"} \/ gs[r].tid \in Tid
    PROVE  /\ [gs EXCEPT ![r].state = s] \in [Role -> Player]
           /\ [gs EXCEPT ![r].state = s, ![r].tid = NoTid] \in [Role -> Player]
           /\ LET f == [gs EXCEPT ![r].state = s]
              IN  \A x \in Role : f[x].state \notin {"normal", "offline"} => f[x].tid \in Tid
BY GsTyped DEF Typed, TypeOK, TidsNamed, Player

LEMMA PlayerNormalized ==
    ASSUME Typed, NEW r \in Role, NEW s \in {"normal", "offline"}
    PROVE  LET f == [gs EXCEPT ![r].state = s, ![r].tid = NoTid]
           IN  \A x \in Role : f[x].state \notin {"normal", "offline"} => f[x].tid \in Tid
BY GsTyped DEF Typed, TypeOK, TidsNamed, Player

LEMMA DropTyped ==
    ASSUME Typed, NEW r \in Role, gs[r].state \notin {"normal", "offline"}, Drop(r),
           rpcs' \subseteq Rpc, \A m \in rpcs' : m.waiting => m.tid \in Tid,
           toGs' \subseteq toGs, UNCHANGED <<deliveryVars, db>>
    PROVE  Typed'
<1>1. gs' = [gs EXCEPT ![r].state = "offline", ![r].tid = NoTid]
  BY DEF Drop
<1>2. Told(LogoutOf(r)) /\ LogoutOf(r) \in ToDelivery /\ LogoutOf(r).op = "PlayerLogout"
  BY DEF Drop, LogoutOf, ToDelivery
<1>3. strays' \subseteq Tid \X Role /\ doubt' \in BOOLEAN
  BY GsTyped DEF Drop, Typed, TypeOK
<1>4. \A x \in Role : gs'[x].state \notin {"normal", "offline"} => gs'[x].tid \in Tid
  BY <1>1, PlayerNormalized
<1>5. gs' \in [Role -> Player]
  BY <1>1, PlayerBecomes
<1> QED BY <1>2, <1>3, <1>4, <1>5, TypedGsStep

\* The same player goes on, or is normal again, and gs tells gdeliveryd of it.
LEMMA ReportTyped ==
    ASSUME Typed, NEW r \in Role, gs[r].state \notin {"normal", "offline"},
           \/ \E s \in {"trade", "wait_complete"} : Become(r, s)
           \/ Normalize(r),
           NEW m \in ToDelivery, Told(m), m.op # "PlayerLogout" => m.tid \in Tid,
           rpcs' \subseteq Rpc, \A x \in rpcs' : x.waiting => x.tid \in Tid,
           UNCHANGED <<deliveryVars, db, toGs, history>>
    PROVE  Typed'
<1>1. gs[r].tid \in Tid
  BY GsTyped
<1>2. /\ gs' \in [Role -> Player]
      /\ \A x \in Role : gs'[x].state \notin {"normal", "offline"} => gs'[x].tid \in Tid
  <2>1. CASE Normalize(r)
    BY <2>1, PlayerBecomes, PlayerNormalized DEF Normalize
  <2>2. CASE \E s \in {"trade", "wait_complete"} : Become(r, s)
    <3>1. PICK s \in {"trade", "wait_complete"} : gs' = [gs EXCEPT ![r].state = s]
      BY <2>2 DEF Become
    <3> QED BY <1>1, <3>1, PlayerBecomes
  <2> QED BY <2>1, <2>2
<1>3. toGs' \subseteq toGs /\ strays' \subseteq Tid \X Role /\ doubt' \in BOOLEAN
  BY DEF history, Typed, TypeOK
<1> QED BY <1>2, <1>3, TypedGsStep

LEMMA RpcsKept == Typed /\ rpcs' \subseteq rpcs =>
                      rpcs' \subseteq Rpc /\ \A x \in rpcs' : x.waiting => x.tid \in Tid
BY DEF Typed, TypeOK, TidsNamed

LEMMA PutRoleTyped ==
    ASSUME Typed, NEW t \in {NoTid} \cup Tid, NEW r \in Role, gs[r].stamp < MaxStamp
    PROVE  LET c == PutRole(t, r)
           IN  c \in Rpc /\ c.tid = t /\ c.op = "PutRole" /\ (c.waiting => t \in Tid)
<1> DEFINE pockets == [NoPockets EXCEPT ![r] = gs[r].pocket]
<1>1. gs[r].stamp + 1 \in Stamp
  BY GsTyped, TradeAssumption DEF Stamp
<1>2. pockets \in [Role -> Pocket] /\ {r} \in SUBSET Role
  BY GsTyped, NewTraderTyped
<1> DEFINE stamp == gs[r].stamp + 1
           c == [op |-> "PutRole", tid |-> t, who |-> {r}, pockets |-> pockets,
                 stamp |-> stamp, at |-> "server", ok |-> FALSE, waiting |-> t # NoTid]
<1>3. PutRole(t, r) = [Call("PutRole", t, {r}, pockets) EXCEPT !.stamp = stamp,
                                                               !.waiting = t # NoTid]
  BY DEF PutRole
<1> HIDE DEF pockets, stamp
<1>5. PutRole(t, r) = c
  BY <1>3 DEF Call
<1>4. c \in Rpc /\ c.tid = t /\ c.op = "PutRole" /\ c.waiting = (t # NoTid)
  BY <1>1, <1>2 DEF Rpc, stamp
<1> HIDE DEF c
<1> QED BY <1>4, <1>5

LEMMA TypedGameServer == Typed /\ GameServer => Typed'
<1> SUFFICES ASSUME Typed, GameServer PROVE Typed'
  OBVIOUS
<1>1. ASSUME NEW m \in toGs, TradeStarts(m) PROVE Typed'
  <2> DEFINE t == m.tid
             who == {m.pair[1], m.pair[2]}
             f == [r \in Role |-> IF r \in who THEN [gs[r] EXCEPT !.state = "wait_trade",
                                                         !.tid = t, !.stamp = @ + 1]
                                  ELSE gs[r]]
  <2>1. t \in Tid /\ m.pair \in Pairs /\ who \subseteq Role /\ m.pair[1] \in Role
    <3>1. m \in ToGs /\ m.op = "GTradeStart"
      BY <1>1 DEF TradeStarts, Typed, TypeOK
    <3>2. t \in Tid /\ m.pair \in Pairs
      BY <3>1 DEF ToGs
    <3> QED BY <3>2, PairTyped
  <2>2. /\ toGs' \subseteq toGs /\ UNCHANGED <<deliveryVars, db>>
        /\ strays' \subseteq Tid \X Role /\ doubt' \in BOOLEAN
    BY <1>1 DEF TradeStarts, history, Typed, TypeOK
  <2>3. \/ /\ \A r \in who : gs[r].state = "normal" /\ gs[r].stamp < MaxStamp
           /\ gs' = f /\ rpcs' = rpcs \cup {PutRole(t, r) : r \in who}
           /\ UNCHANGED toDelivery
        \/ Told(StartRe(t, m.pair[1], FALSE)) /\ UNCHANGED <<gs, rpcs>>
    BY <1>1 DEF TradeStarts
  <2> HIDE DEF t, who
  <2>4. ASSUME \A r \in who : gs[r].state = "normal" /\ gs[r].stamp < MaxStamp
        PROVE  /\ f \in [Role -> Player]
               /\ \A r \in Role : f[r].state \notin {"normal", "offline"} => f[r].tid \in Tid
    <3>1. ASSUME NEW r \in who
          PROVE  LET x == [gs[r] EXCEPT !.state = "wait_trade", !.tid = t, !.stamp = @ + 1]
                 IN  x \in Player /\ x.tid \in Tid
      <4>1. gs[r] \in Player /\ gs[r].stamp + 1 \in Stamp
        BY <2>1, <2>4, GsTyped, TradeAssumption DEF Stamp
      <4> QED BY <2>1, <4>1 DEF Player
    <3> QED BY <2>1, <3>1, GsTyped
  <2>5. ASSUME \A r \in who : gs[r].state = "normal" /\ gs[r].stamp < MaxStamp, gs' = f,
               rpcs' = rpcs \cup {PutRole(t, r) : r \in who}, UNCHANGED toDelivery
        PROVE  Typed'
    <3>1. rpcs' \subseteq Rpc /\ \A x \in rpcs' : x.waiting => x.tid \in Tid
      <4>1. \A r \in who : PutRole(t, r) \in Rpc /\ PutRole(t, r).tid = t
        BY <2>1, <2>5, PutRoleTyped
      <4> QED BY <2>1, <2>5, <4>1 DEF Typed, TypeOK, TidsNamed
    <3>2. /\ f \in [Role -> Player]
          /\ \A r \in Role : f[r].state \notin {"normal", "offline"} => f[r].tid \in Tid
      BY <2>4, <2>5
    <3> HIDE DEF f
    <3> QED BY <2>2, <2>5, <3>1, <3>2, TypedGsStep
  <2>6. ASSUME Told(StartRe(t, m.pair[1], FALSE)), UNCHANGED <<gs, rpcs>> PROVE Typed'
    <3>1. StartRe(t, m.pair[1], FALSE) \in ToDelivery /\ StartRe(t, m.pair[1], FALSE).tid \in Tid
      BY <2>1 DEF StartRe, ToDelivery
    <3>2. /\ gs' \in [Role -> Player]
          /\ \A r \in Role : gs'[r].state \notin {"normal", "offline"} => gs'[r].tid \in Tid
      BY <2>6 DEF Typed, TypeOK, TidsNamed
    <3> QED BY <2>2, <2>6, <3>1, <3>2, RpcsKept, TypedGsStep
  <2> QED BY <2>3, <2>5, <2>6
<1>2. ASSUME NEW m \in toGs, TradeComplete(m) PROVE Typed'
  <2> DEFINE r == m.role
  <2>1. r \in Role /\ m.tid \in Tid
    BY <1>2 DEF TradeComplete, Typed, TypeOK, ToGs
  <2>2. toGs' \subseteq toGs /\ UNCHANGED <<deliveryVars, db>>
    BY <1>2 DEF TradeComplete
  <2>3. CASE UNCHANGED <<gs, toDelivery, rpcs, history>>
    BY <2>2, <2>3 DEF history, deliveryVars, Typed, TypeOK, TidsNamed
  <2>4. CASE gs[r].state \in {"wait_trade", "trade", "wait_complete"} /\ Drop(r) /\ UNCHANGED rpcs
    BY <2>1, <2>2, <2>4, RpcsKept, DropTyped
  <2>5. ASSUME gs[r].state \in {"wait_trade", "trade", "wait_complete"},
               Become(r, "wait_read"),
               rpcs' = rpcs \cup {Call("GetMoneyInventory", m.tid, {r}, NoPockets)},
               UNCHANGED <<toDelivery, history>>
        PROVE  Typed'
    <3>1. gs[r].tid \in Tid
      BY <2>1, <2>5, GsTyped
    <3>2. /\ gs' \in [Role -> Player]
          /\ \A x \in Role : gs'[x].state \notin {"normal", "offline"} => gs'[x].tid \in Tid
      BY <2>1, <2>5, <3>1, PlayerBecomes DEF Become
    <3>3. rpcs' \subseteq Rpc /\ \A x \in rpcs' : x.waiting => x.tid \in Tid
      <4>1. {r} \in SUBSET Role /\ NoPockets \in [Role -> Pocket]
        BY <2>1, NewTraderTyped
      <4>2. /\ Call("GetMoneyInventory", m.tid, {r}, NoPockets) \in Rpc
            /\ Call("GetMoneyInventory", m.tid, {r}, NoPockets).tid \in Tid
        BY <2>1, <4>1, RpcTyped DEF Call
      <4> QED BY <2>5, <4>2 DEF Typed, TypeOK, TidsNamed
    <3>4. strays' \subseteq Tid \X Role /\ doubt' \in BOOLEAN
      BY <2>5 DEF history, Typed, TypeOK
    <3> QED BY <2>2, <2>5, <3>2, <3>3, <3>4, TypedGsStep
  <2>6. ASSUME Normalize(r), UNCHANGED <<toDelivery, rpcs, history>> PROVE Typed'
    <3>1. /\ gs' \in [Role -> Player]
          /\ \A x \in Role : gs'[x].state \notin {"normal", "offline"} => gs'[x].tid \in Tid
      BY <2>1, <2>6, PlayerBecomes, PlayerNormalized DEF Normalize
    <3>2. strays' \subseteq Tid \X Role /\ doubt' \in BOOLEAN
      BY <2>6 DEF history, Typed, TypeOK
    <3> QED BY <2>2, <2>6, <3>1, <3>2, RpcsKept, TypedGsStep
  <2> QED BY <1>2, <2>3, <2>4, <2>5, <2>6 DEF TradeComplete
<1>3. ASSUME NEW m \in rpcs, NEW r \in Role, NEW ok \in BOOLEAN, PutRoleReturns(m, r, ok)
      PROVE  Typed'
  <2>1. /\ rpcs' = Finished(m) /\ m.waiting
        /\ UNCHANGED <<deliveryVars, db, toGs, history>>
    BY <1>3 DEF PutRoleReturns, Returns
  <2>2. rpcs' \subseteq Rpc /\ \A x \in rpcs' : x.waiting => x.tid \in Tid
    BY <2>1, FinishedTyped DEF Typed, TidsNamed
  <2>3. CASE UNCHANGED <<gs, toDelivery>>
    BY <2>1, <2>2, <2>3 DEF history, deliveryVars, Typed, TypeOK, TidsNamed
  <2>4. ASSUME InTrade(r, m.tid, "wait_trade"), Told(StartRe(m.tid, r, ok)),
               Become(r, "trade") \/ Normalize(r)
        PROVE  Typed'
    <3>1. m.tid \in Tid /\ gs[r].state = "wait_trade"
      BY <2>1, <2>4 DEF Typed, TidsNamed, InTrade
    <3>2. StartRe(m.tid, r, ok) \in ToDelivery /\ StartRe(m.tid, r, ok).tid \in Tid
      BY <3>1 DEF StartRe, ToDelivery
    <3> QED BY <2>1, <2>2, <2>4, <3>1, <3>2, ReportTyped
  <2> QED BY <1>3, <2>3, <2>4 DEF PutRoleReturns
<1>4. ASSUME NEW m \in rpcs, NEW r \in Role, NEW ok \in BOOLEAN, InventoryReturns(m, r, ok)
      PROVE  Typed'
  <2>1. /\ rpcs' = Finished(m) /\ UNCHANGED <<deliveryVars, db, toGs>>
        /\ rpcs' \subseteq Rpc /\ \A x \in rpcs' : x.waiting => x.tid \in Tid
    BY <1>4, FinishedTyped DEF InventoryReturns, Typed, TidsNamed
  <2>2. CASE UNCHANGED <<gs, toDelivery, history>>
    BY <2>1, <2>2 DEF history, deliveryVars, Typed, TypeOK, TidsNamed
  <2>3. CASE InTrade(r, m.tid, "wait_read") /\ Drop(r)
    BY <2>1, <2>3, DropTyped DEF InTrade
  <2>4. ASSUME gs' = [gs EXCEPT ![r].state = "normal", ![r].tid = NoTid,
                                ![r].pocket = m.pockets[r]],
               UNCHANGED <<toDelivery, history>>
        PROVE  Typed'
    <3>1. m.pockets[r] \in Pocket
      BY RpcTyped DEF Typed, TypeOK
    <3>2. /\ gs' \in [Role -> Player]
          /\ \A x \in Role : gs'[x].state \notin {"normal", "offline"} => gs'[x].tid \in Tid
      BY <2>4, <3>1, GsTyped DEF Player, Typed, TypeOK, TidsNamed
    <3>3. strays' \subseteq Tid \X Role /\ doubt' \in BOOLEAN
      BY <2>4 DEF history, Typed, TypeOK
    <3> QED BY <2>1, <2>4, <3>2, <3>3, TypedGsStep
  <2> QED BY <1>4, <2>2, <2>3, <2>4 DEF InventoryReturns
<1>5. ASSUME NEW r \in Role, LeavesBefore(r) PROVE Typed'
  <2>1. /\ gs[r].state = "wait_trade" /\ Told(StartRe(gs[r].tid, r, FALSE)) /\ Normalize(r)
        /\ UNCHANGED <<deliveryVars, db, toGs, rpcs, history>>
    BY <1>5 DEF LeavesBefore
  <2>2. /\ StartRe(gs[r].tid, r, FALSE) \in ToDelivery
        /\ StartRe(gs[r].tid, r, FALSE).tid \in Tid
    BY <2>1, GsTyped DEF StartRe, ToDelivery
  <2> QED BY <2>1, <2>2, RpcsKept, ReportTyped
<1>6. ASSUME NEW r \in Role, DiscardTrade(r) PROVE Typed'
  <2>1. /\ gs[r].state = "trade" /\ Told(DiscardOf(gs[r].tid, r)) /\ Become(r, "wait_complete")
        /\ UNCHANGED <<deliveryVars, db, toGs, rpcs, history>>
    BY <1>6 DEF DiscardTrade
  <2>2. DiscardOf(gs[r].tid, r) \in ToDelivery /\ DiscardOf(gs[r].tid, r).tid \in Tid
    BY <2>1, GsTyped DEF DiscardOf, ToDelivery
  <2> QED BY <2>1, <2>2, RpcsKept, ReportTyped
<1>7. ASSUME NEW r \in Role, CompleteTimesOut(r) PROVE Typed'
  BY <1>7, RpcsKept, DropTyped DEF CompleteTimesOut
<1>8. ASSUME NEW r \in Role, Login(r) PROVE Typed'
  <2>1. /\ gs' = [gs EXCEPT ![r] = [state |-> "normal", tid |-> NoTid,
                                    pocket |-> db[r].pocket, stamp |-> db[r].stamp]]
        /\ UNCHANGED <<deliveryVars, db, toGs, toDelivery, rpcs, strays>>
        /\ doubt' = (doubt \/ traderMap[r] # NoTid \/ \E m \in rpcs : LateSave(m, r))
    BY <1>8 DEF Login
  <2>2. /\ gs' \in [Role -> Player]
        /\ \A x \in Role : gs'[x].state \notin {"normal", "offline"} => gs'[x].tid \in Tid
    BY <2>1, GsTyped DEF Player, Typed, TypeOK, TidsNamed
  <2>3. strays' \subseteq Tid \X Role /\ doubt' \in BOOLEAN
    BY <2>1 DEF Typed, TypeOK
  <2> QED BY <2>1, <2>2, <2>3, RpcsKept, TypedGsStep
<1>9. ASSUME NEW r \in Role, Save(r) PROVE Typed'
  <2>1. /\ gs[r].stamp < MaxStamp /\ gs' = [gs EXCEPT ![r].stamp = @ + 1]
        /\ rpcs' = rpcs \cup {PutRole(NoTid, r)}
        /\ UNCHANGED <<deliveryVars, db, toGs, toDelivery, history>>
    BY <1>9 DEF Save
  <2>2. gs[r].stamp + 1 \in Stamp
    BY <2>1, GsTyped, TradeAssumption DEF Stamp
  <2>3. /\ gs' \in [Role -> Player]
        /\ \A x \in Role : gs'[x].state \notin {"normal", "offline"} => gs'[x].tid \in Tid
    BY <2>1, <2>2, GsTyped DEF Player, Typed, TypeOK, TidsNamed
  <2>4. rpcs' \subseteq Rpc /\ \A x \in rpcs' : x.waiting => x.tid \in Tid
    <3>1. PutRole(NoTid, r) \in Rpc /\ (PutRole(NoTid, r).waiting => PutRole(NoTid, r).tid \in Tid)
      BY <2>1, PutRoleTyped
    <3> QED BY <2>1, <3>1 DEF Typed, TypeOK, TidsNamed
  <2>5. strays' \subseteq Tid \X Role /\ doubt' \in BOOLEAN
    BY <2>1 DEF history, Typed, TypeOK
  <2> QED BY <2>1, <2>3, <2>4, <2>5, TypedGsStep
<1> QED BY <1>1, <1>2, <1>3, <1>4, <1>5, <1>6, <1>7, <1>8, <1>9 DEF GameServer

\* A step of gamedbd answers a call, with the goods it read, and may write.
LEMMA DatabaseStep ==
    ASSUME Typed, Database
    PROVE  \E m \in rpcs, ok \in BOOLEAN, pockets \in [Role -> Pocket] :
               /\ Answer(m, ok, pockets)
               /\ db' \in [Role -> [pocket: Pocket, stamp: Stamp]]
               /\ UNCHANGED <<deliveryVars, gs, toGs, toDelivery, history>>
<1>1. NoPockets \in [Role -> Pocket] /\ db \in [Role -> [pocket: Pocket, stamp: Stamp]]
  BY NewTraderTyped DEF Typed, TypeOK
<1>2. ASSUME NEW m \in rpcs, Fails(m)
      PROVE  /\ Answer(m, FALSE, NoPockets) /\ db' = db
             /\ UNCHANGED <<deliveryVars, gs, toGs, toDelivery, history>>
  BY <1>2 DEF Fails
<1>3. ASSUME NEW m \in rpcs, Read_Server(m)
      PROVE  \E pockets \in [Role -> Pocket] :
               /\ Answer(m, TRUE, pockets) /\ db' = db
               /\ UNCHANGED <<deliveryVars, gs, toGs, toDelivery, history>>
  <2> DEFINE pockets == [r \in Role |-> IF r \in m.who THEN db[r].pocket ELSE {}]
  <2>1. /\ Answer(m, TRUE, pockets) /\ db' = db
        /\ UNCHANGED <<deliveryVars, gs, toGs, toDelivery, history>>
    BY <1>3 DEF Read_Server
  <2>2. pockets \in [Role -> Pocket]
    BY GsTyped DEF Pocket
  <2> HIDE DEF pockets
  <2> QED BY <2>1, <2>2
<1>4. ASSUME NEW m \in rpcs, TradeSave_Server(m)
      PROVE  /\ Answer(m, TRUE, NoPockets) /\ db' \in [Role -> [pocket: Pocket, stamp: Stamp]]
             /\ UNCHANGED <<deliveryVars, gs, toGs, toDelivery, history>>
  <2>1. \A r \in Role : m.pockets[r] \in Pocket
    BY RpcTyped DEF Typed, TypeOK
  <2> QED BY <1>1, <1>4, <2>1 DEF TradeSave_Server
<1>5. ASSUME NEW m \in rpcs, NEW r \in Role, PutRole_Server(m, r)
      PROVE  /\ Answer(m, TRUE, NoPockets) /\ db' \in [Role -> [pocket: Pocket, stamp: Stamp]]
             /\ UNCHANGED <<deliveryVars, gs, toGs, toDelivery, history>>
  <2>1. m.pockets[r] \in Pocket /\ m.stamp \in Stamp
    BY RpcTyped DEF Typed, TypeOK
  <2> QED BY <1>1, <1>5, <2>1 DEF PutRole_Server, LateSave
<1> QED BY <1>1, <1>2, <1>3, <1>4, <1>5 DEF Database

LEMMA TypedDatabase == Typed /\ Database => Typed'
<1> SUFFICES ASSUME Typed, Database PROVE Typed'
  OBVIOUS
<1>1. PICK m \in rpcs, ok \in BOOLEAN, pockets \in [Role -> Pocket] :
               /\ Answer(m, ok, pockets)
               /\ db' \in [Role -> [pocket: Pocket, stamp: Stamp]]
               /\ UNCHANGED <<deliveryVars, gs, toGs, toDelivery, history>>
  BY DatabaseStep
<1>2. /\ rpcs' \subseteq Rpc
      /\ \A x \in rpcs' : x \in rpcs \/ (x.waiting = m.waiting /\ x.tid = m.tid)
  BY <1>1, AnswerTyped
<1>3. \A x \in rpcs' : x.waiting => x.tid \in Tid
  BY <1>2 DEF Typed, TidsNamed
<1>4. UNCHANGED <<trans, lastTid, traderMap, gs, toGs, toDelivery, doubt, strays>>
  BY <1>1 DEF deliveryVars, history
<1> QED BY <1>1, <1>2, <1>3, <1>4 DEF Typed, TypeOK, TidsNamed

LEMMA TypedInit == Init => Typed
<1> SUFFICES ASSUME Init PROVE Typed
  OBVIOUS
<1> DEFINE pocket(r) == {g \in Goods : Owner[g] = r}
<1>1. \A r \in Role : pocket(r) \in Pocket
  BY DEF Pocket
<1>2. /\ trans = [t \in Tid |-> NoTransaction] /\ lastTid = 0
      /\ traderMap = [r \in Role |-> NoTid]
      /\ gs = [r \in Role |-> [state |-> "normal", tid |-> NoTid, pocket |-> pocket(r),
                               stamp |-> 0]]
      /\ db = [r \in Role |-> [pocket |-> pocket(r), stamp |-> 0]]
      /\ toGs = {} /\ toDelivery = <<>> /\ rpcs = {} /\ doubt = FALSE /\ strays = {}
  BY DEF Init
<1> HIDE DEF pocket
<1>3. 0 \in Stamp
  BY TradeAssumption DEF Stamp
<1>4. gs \in [Role -> Player] /\ db \in [Role -> [pocket: Pocket, stamp: Stamp]]
  BY <1>1, <1>2, <1>3 DEF Player
<1>5. TypeOK
  <2>1. trans \in [Tid -> Transaction \cup {NoTransaction}]
    BY <1>2
  <2>2. toDelivery \in Seq(ToDelivery)
    BY <1>2, EmptySeq
  <2>3. doubt \in BOOLEAN
    BY <1>2
  <2> QED BY <1>2, <1>4, <2>1, <2>2, <2>3 DEF TypeOK, NoTid
<1>6. TidsNamed
  BY <1>2 DEF TidsNamed
<1> QED BY <1>5, <1>6 DEF Typed

LEMMA TypedStep == Typed /\ [Next]_vars => Typed'
<1>1. Typed /\ UNCHANGED vars => Typed'
  BY DEF vars, Typed, TypeOK, TidsNamed
<1> QED BY <1>1, TypedDelivery, TypedGameServer, TypedDatabase DEF Next

\* Every variable has its type, and what is in a trade names the trade.
THEOREM TypeCorrect == Spec => []Typed
BY TypedInit, TypedStep, PTL DEF Spec

\* Transactions, players, calls and messages are always of the types of the model.
THEOREM TypeInvariant == Spec => []TypeOK
<1>1. Typed => TypeOK
  BY DEF Typed
<1> QED BY <1>1, TypeCorrect, PTL

-------------------------------------------------------------------------------
(* What was agreed is exchanged, and every save is waited for *)

AwaitedOK(t) ==
    /\ trans[t].state = "Confirm" \/ (trans[t].state = "Init" /\ trans[t].notify) =>
           SaveAwaited(t)
    /\ trans[t].state = "SetPossession" => InventoryAwaited(t)

\* Whoever waited for an answer to a call of gdeliveryd, for another transaction than
\* t, waits still.
WaitsOn(t) ==
    \A m \in rpcs : m.waiting /\ m.op \in {"TradeSave", "TradeInventory"} /\ m.tid # t =>
        \E x \in rpcs' : x.waiting /\ x.op = m.op /\ x.tid = m.tid

\* One transaction goes on, or stays as it is; none is created or forgotten.
OneGoesOn(t) ==
    /\ WaitsOn(t)
    /\ \/ UNCHANGED trans /\ (Live(t) => WaitsOn(NoTid))
       \/ GoesOn(t) /\ AwaitedOK(t)'

LEMMA RestKept == rpcs \subseteq rpcs' => \A t : WaitsOn(t)
BY DEF WaitsOn

LEMMA RestFinished == ASSUME NEW m \in rpcs, rpcs' = Finished(m)
                      PROVE  /\ WaitsOn(m.tid)
                             /\ m.op \notin {"TradeSave", "TradeInventory"} => \A t : WaitsOn(t)
BY DEF WaitsOn, Finished

LEMMA NothingAwaited ==
    ASSUME NEW t, trans'[t].state \notin {"Confirm", "Init", "SetPossession"}
    PROVE  AwaitedOK(t)'
BY DEF AwaitedOK

LEMMA DeliverySteps ==
    ASSUME Typed, Delivery
    PROVE  \/ \E p \in Pairs : Create(p)
           \/ \E t \in Tid : Update(t)
           \/ \E t \in Tid \cup {NoTid} : OneGoesOn(t)
<1>1. ASSUME NEW m, GTradeStart_Re(m) PROVE OneGoesOn(m.tid)
  <2>1. m.tid \in Tid /\ (Attaches(m) \/ Refuses(m) \/ ComesLate(m))
    BY <1>1, StartReGoesOn
  <2>2. rpcs \subseteq rpcs'
    BY <2>1 DEF Attaches, Refuses, ComesLate, Asks
  <2>3. Attaches(m) \/ Refuses(m) => GoesOn(m.tid) /\ AwaitedOK(m.tid)'
    BY DEF Attaches, Refuses, AwaitedOK
  <2>4. ComesLate(m) => UNCHANGED trans
    BY DEF ComesLate
  <2> QED BY <2>1, <2>2, <2>3, <2>4, RestKept DEF OneGoesOn
<1>2. ASSUME NEW t \in Tid, CanDiscard(trans[t]), Write2DB(t, Discarded(trans[t]))
      PROVE  OneGoesOn(t)
  <2>1. GoesOn(t) /\ Asks(t) /\ (trans'[t].state # "Null" => trans'[t].state = "Init" /\ SaveAwaited(t)')
    BY <1>2, DiscardGoesOn
  <2>2. AwaitedOK(t)'
    BY <2>1 DEF AwaitedOK
  <2> QED BY <2>1, <2>2, RestKept DEF Asks, OneGoesOn
<1>3. ASSUME NEW m, GTradeDiscard(m) PROVE OneGoesOn(m.tid) /\ m.tid \in Tid
  <2>1. m.tid \in Tid
    BY <1>3, HeardEffect, PendingTyped DEF GTradeDiscard
  <2>2. CASE UNCHANGED <<trans, rpcs>>
    BY <2>1, <2>2, RestKept DEF OneGoesOn
  <2> QED BY <1>2, <1>3, <2>1, <2>2 DEF GTradeDiscard
<1>4. ASSUME NEW d \in Role, DiscardTransaction(d), UNCHANGED rpcs
      PROVE  \E t \in Tid \cup {NoTid} : OneGoesOn(t)
  <2>1. \A t : WaitsOn(t)
    BY <1>4, RestKept
  <2>2. CASE UNCHANGED trans
    BY <2>1, <2>2 DEF OneGoesOn
  <2>3. ASSUME NEW t \in Tid, GoesOn(t), trans'[t].state = "Null" PROVE OneGoesOn(t)
    BY <2>1, <2>3, NothingAwaited DEF OneGoesOn
  <2> QED BY <1>4, <2>2, <2>3, DiscardTransactionGoesOn
<1>13. ASSUME NEW m, PlayerLogout(m) PROVE \E t \in Tid \cup {NoTid} : OneGoesOn(t)
  <2>1. CASE UNCHANGED trans
    BY <1>13, <2>1, RestKept DEF PlayerLogout, OneGoesOn
  <2> QED BY <1>4, <1>13, <2>1, LogoutDiscards DEF PlayerLogout
<1>14. ASSUME NEW r \in Role, UserDisconnect(r)
       PROVE  \E t \in Tid \cup {NoTid} : OneGoesOn(t)
  BY <1>4, <1>14 DEF UserDisconnect
<1>5. ASSUME NEW m \in rpcs, NEW ok \in BOOLEAN,
             TradeInventoryReturns(m, ok) \/ TradeSaveReturns(m, ok)
      PROVE  OneGoesOn(m.tid) /\ m.tid \in Tid
  <2>1. /\ m.tid \in Tid /\ rpcs' = Finished(m)
        /\ \/ UNCHANGED trans /\ ~Live(m.tid)
           \/ GoesOn(m.tid) /\ trans'[m.tid].state \in {"Exchange", "Null"}
    BY <1>5, TradeInventoryGoesOn, TradeSaveGoesOn
  <2>2. WaitsOn(m.tid)
    BY <2>1, RestFinished
  <2> QED BY <2>1, <2>2, NothingAwaited DEF OneGoesOn
<1>6. ASSUME NEW t \in Tid, GoesOn(t), rpcs' = rpcs,
             trans'[t].state \in {"Exchange", "Ready_half", "Ready"}
      PROVE  OneGoesOn(t)
  BY <1>6, RestKept, NothingAwaited DEF OneGoesOn
<1>7. ASSUME NEW t \in Tid, NEW r \in Role, NEW g \in Goods, NEW paid \in BOOLEAN,
             AddGoods(t, r, g, paid) \/ RemoveGoods(t, r, g, paid)
      PROVE  OneGoesOn(t)
  <2>1. PICK pssn \in Pocket, exchg \in Pocket : Moved(t, r, pssn, exchg, paid)
    BY <1>7, OfferedTyped
  <2>2. rpcs' = rpcs
    BY <2>1 DEF Moved
  <2> QED BY <1>6, <2>1, <2>2, MovedGoesOn DEF CanUpdate
<1>8. ASSUME NEW t \in Tid, NEW r \in Role, NEW room \in BOOLEAN, Submit(t, r, room)
      PROVE  OneGoesOn(t)
  <2>1. rpcs' = rpcs
    BY <1>8 DEF Submit
  <2> QED BY <1>6, <1>8, <2>1, SubmitGoesOn
<1>9. ASSUME NEW t \in Tid, NEW r \in Role, MoveObject(t, r) PROVE OneGoesOn(t)
  <2>1. rpcs' = rpcs
    BY <1>9 DEF MoveObject
  <2> QED BY <1>6, <1>9, <2>1, MoveObjectGoesOn DEF CanUpdate
<1>10. ASSUME NEW t \in Tid, NEW r \in Role, Confirm(t, r) PROVE OneGoesOn(t)
  <2>1. /\ GoesOn(t) /\ Asks(t) /\ trans'[t].state \in {"Confirm_half", "Confirm", "Null"}
        /\ trans'[t].state = "Confirm" => SaveAwaited(t)'
    BY <1>10, ConfirmGoesOn
  <2>2. AwaitedOK(t)'
    BY <2>1 DEF AwaitedOK
  <2> QED BY <2>1, <2>2, RestKept DEF Asks, OneGoesOn
<1>11. ASSUME NEW t \in Tid, TradeDiscard(t) PROVE OneGoesOn(t)
  BY <1>2, <1>11 DEF TradeDiscard
<1>12. ASSUME NEW m, GTradeStart_Re(m) PROVE m.tid \in Tid
  BY <1>12, StartReGoesOn
<1> QED BY <1>1, <1>3, <1>5, <1>7, <1>8, <1>9, <1>10, <1>11, <1>12, <1>13, <1>14 DEF Delivery

\* gs and gamedbd leave the transactions alone.
LEMMA OtherSteps ==
    ASSUME Typed, GameServer \/ Database \/ UNCHANGED vars
    PROVE  OneGoesOn(NoTid)
<1>1. UNCHANGED trans
  BY DatabaseStep DEF GameServer, vars, TradeStarts, TradeComplete, PutRoleReturns,
     InventoryReturns, LeavesBefore, DiscardTrade, CompleteTimesOut, Login, Save, deliveryVars
<1>2. ASSUME rpcs \subseteq rpcs' PROVE WaitsOn(NoTid)
  BY <1>2, RestKept
<1>3. ASSUME NEW m \in rpcs, NEW r \in Role, NEW ok \in BOOLEAN,
             PutRoleReturns(m, r, ok) \/ InventoryReturns(m, r, ok)
      PROVE  WaitsOn(NoTid)
  BY <1>3, RestFinished DEF PutRoleReturns, InventoryReturns, Returns
<1>4. ASSUME Database PROVE WaitsOn(NoTid)
  <2>1. PICK m \in rpcs, ok \in BOOLEAN, pockets \in [Role -> Pocket] : Answer(m, ok, pockets)
    BY <1>4, DatabaseStep
  <2>2. \A x \in rpcs : x.waiting => \E z \in rpcs' : z.waiting /\ z.op = x.op /\ z.tid = x.tid
    BY <2>1, AnswerTyped
  <2> QED BY <2>2 DEF WaitsOn
<1>5. ASSUME NEW m \in toGs, TradeStarts(m) \/ TradeComplete(m) PROVE rpcs \subseteq rpcs'
  BY <1>5 DEF TradeStarts, TradeComplete
<1>6. ASSUME NEW r \in Role, LeavesBefore(r) \/ DiscardTrade(r) \/ CompleteTimesOut(r)
                             \/ Login(r) \/ Save(r)
      PROVE  rpcs \subseteq rpcs'
  BY <1>6 DEF LeavesBefore, DiscardTrade, CompleteTimesOut, Login, Save
<1>7. UNCHANGED vars => rpcs \subseteq rpcs'
  BY DEF vars
<1>8. WaitsOn(NoTid)
  BY <1>2, <1>3, <1>4, <1>5, <1>6, <1>7 DEF GameServer
<1> QED BY <1>1, <1>8 DEF OneGoesOn

LEMMA NextSteps ==
    ASSUME Typed, [Next]_vars
    PROVE  \/ \E p \in Pairs : Create(p)
           \/ \E t \in Tid : Update(t)
           \/ \E t \in Tid \cup {NoTid} : OneGoesOn(t)
BY DeliverySteps, OtherSteps DEF Next

SavesOK == \A t \in Tid : AwaitedOK(t)
DealsOK == \A t \in Tid : Live(t) => Agreed(trans[t])

LEMMA SavesStep == Typed /\ SavesOK /\ [Next]_vars => SavesOK'
<1> SUFFICES ASSUME Typed, SavesOK, [Next]_vars PROVE SavesOK'
  OBVIOUS
<1>1. ASSUME NEW p \in Pairs, Create(p) PROVE SavesOK'
  <2>1. /\ trans' = [trans EXCEPT ![lastTid'] = trans'[lastTid']]
        /\ ~trans'[lastTid'].notify /\ trans'[lastTid'].state \in {"Init", "Null"}
        /\ rpcs' = rpcs
    BY <1>1, CreateEffect DEF Create
  <2> QED BY <2>1 DEF SavesOK, AwaitedOK, SaveAwaited, InventoryAwaited, Typed, TypeOK
<1>2. ASSUME NEW t \in Tid, Update(t) PROVE SavesOK'
  <2>1. trans' = [trans EXCEPT ![t] = NoTransaction] /\ rpcs' = rpcs
    BY <1>2, UpdateEffect DEF Update
  <2> QED BY <2>1 DEF SavesOK, AwaitedOK, SaveAwaited, InventoryAwaited, NoTransaction,
                      Typed, TypeOK
<1>3. ASSUME NEW t \in Tid \cup {NoTid}, OneGoesOn(t), NEW x \in Tid PROVE AwaitedOK(x)'
  <2>1. CASE GoesOn(t) /\ AwaitedOK(t)' /\ x = t
    BY <2>1
  <2>2. CASE trans'[x] = trans[x] /\ (x # t \/ ~Live(x) \/ WaitsOn(NoTid))
    <3>1. AwaitedOK(x)
      BY DEF SavesOK
    <3>2. CASE Live(x)
      <4>1. x # NoTid
        BY DEF Tid, NoTid
      <4>2. /\ SaveAwaited(x) => SaveAwaited(x)'
            /\ InventoryAwaited(x) => InventoryAwaited(x)'
        BY <1>3, <2>2, <3>2, <4>1 DEF OneGoesOn, WaitsOn, SaveAwaited, InventoryAwaited
      <4> QED BY <2>2, <3>1, <4>2 DEF AwaitedOK
    <3>3. CASE ~Live(x)
      BY <2>2, <3>3 DEF AwaitedOK, Live
    <3> QED BY <3>2, <3>3
  <2>3. \/ GoesOn(t) /\ AwaitedOK(t)' /\ x = t
        \/ trans'[x] = trans[x] /\ (x # t \/ ~Live(x) \/ WaitsOn(NoTid))
    BY <1>3 DEF OneGoesOn, GoesOn, Typed, TypeOK
  <2> QED BY <2>1, <2>2, <2>3
<1>4. ASSUME NEW t \in Tid \cup {NoTid}, OneGoesOn(t) PROVE SavesOK'
  BY <1>3, <1>4 DEF SavesOK
<1> QED BY <1>1, <1>2, <1>4, NextSteps

LEMMA DealsStep == Typed /\ DealsOK /\ [Next]_vars => DealsOK'
<1> SUFFICES ASSUME Typed, DealsOK, [Next]_vars PROVE DealsOK'
  OBVIOUS
<1>1. ASSUME NEW p \in Pairs, Create(p) PROVE DealsOK'
  BY <1>1, CreateEffect DEF DealsOK, Live, Typed, TypeOK
<1>2. ASSUME NEW t \in Tid, Update(t) PROVE DealsOK'
  BY <1>2, UpdateEffect DEF DealsOK, Live, NoTransaction, Typed, TypeOK
<1>3. ASSUME NEW t \in Tid \cup {NoTid}, OneGoesOn(t) PROVE DealsOK'
  BY <1>3 DEF DealsOK, OneGoesOn, GoesOn, Follows, Live, Typed, TypeOK
<1> QED BY <1>1, <1>2, <1>3, NextSteps

LEMMA TransactionsInit == Init => SavesOK /\ DealsOK
BY DEF Init, SavesOK, DealsOK, AwaitedOK, Live, NoTransaction

LEMMA TransactionsCorrect == Spec => [](Typed /\ SavesOK /\ DealsOK)
BY TypedInit, TransactionsInit, TypedStep, SavesStep, DealsStep, PTL DEF Spec

\* Somebody waits for the TradeSave of every transaction that only its answer ends,
\* and for the first inventories: such a transaction is never stuck for good.
THEOREM EverySaveIsAwaited == Spec => []SavesAreAwaited
<1>1. SavesOK => SavesAreAwaited
  BY DEF SavesOK, SavesAreAwaited, AwaitedOK, SaveAwaited, InventoryAwaited
<1> QED BY <1>1, TransactionsCorrect, PTL

\* What is exchanged is what both traders saw when they submitted, whatever each of
\* them put on the table or took back in between.
THEOREM EveryDealIsAgreed == Spec => []DealIsAgreed
<1>1. Typed /\ DealsOK => DealIsAgreed
  BY DEF DealsOK, DealIsAgreed, Agreed, Live
<1> QED BY <1>1, TransactionsCorrect, PTL

-------------------------------------------------------------------------------
(* The locks: the inductive invariant *)

InLock(r, t) == InTrade(r, t, "trade") \/ InTrade(r, t, "wait_complete")
LockTold(t, r) == Pending(StartRe(t, r, TRUE))
EndTold(t, r) == \E read \in BOOLEAN : TradeEnd(t, r, read) \in toGs

\* A transaction that was not given yet is unknown.
Unknown(t, r) ==
    /\ ~Live(t) /\ gs[r].tid # t /\ <<t, r>> \notin strays
    /\ ~LockTold(t, r) /\ ~EndTold(t, r)
    /\ \A p \in Pairs : TradeStart(t, p) \notin toGs

\* gs was asked to start a trade that lives: it has not done so.
Asked(t, r) ==
    \A p \in Pairs : TradeStart(t, p) \in toGs =>
        p = trans[t].pair /\ gs[r].tid # t /\ <<t, r>> \notin strays

LockOK(t, r) ==
    /\ traderMap[r] = t => Live(t)
    /\ traderMap[r] = t \/ (Live(t) /\ LockTold(t, r)) => InLock(r, t) \/ <<t, r>> \in strays
    /\ Live(t) => /\ gs[r].tid = t => r \in Parties(trans[t]) /\ <<t, r>> \notin strays
                  /\ ~EndTold(t, r)
                  /\ Asked(t, r)
    /\ InLock(r, t) => \/ LockTold(t, r) \/ EndTold(t, r) \/ <<t, r>> \in strays
                       \/ Live(t) /\ trans[t].notify
    /\ t > lastTid => Unknown(t, r)

LocksOK == \A t \in Tid, r \in Role : LockOK(t, r)
IInv == Typed /\ SavesOK /\ LocksOK

-------------------------------------------------------------------------------
(* Steps that keep the locks as they are *)

TransQuiet == \A t \in Tid :
    /\ Live(t)' <=> Live(t)
    /\ Live(t) => trans'[t].pair = trans[t].pair /\ (trans[t].notify => trans'[t].notify)

LEMMA GoesOnQuiet ==
    ASSUME Typed, UNCHANGED trans \/ \E t \in Tid : GoesOn(t)
    PROVE  TransQuiet
<1>1. CASE UNCHANGED trans
  BY <1>1 DEF TransQuiet, Live
<1>2. ASSUME NEW t \in Tid, GoesOn(t) PROVE TransQuiet
  <2>1. \A x \in Tid : x # t => trans'[x] = trans[x]
    BY <1>2 DEF GoesOn, Typed, TypeOK
  <2>2. Live(t) /\ Live(t)'
    BY <1>2, TransactionFields DEF GoesOn, Follows, Live
  <2> QED BY <1>2, <2>1, <2>2 DEF TransQuiet, Live, GoesOn, Follows
<1> QED BY <1>1, <1>2

LEMMA QuietStep ==
    ASSUME LocksOK, TransQuiet,
           \A r \in Role : gs'[r].tid = gs[r].tid /\ gs'[r].state = gs[r].state,
           \A t \in Tid, r \in Role : LockTold(t, r)' <=> LockTold(t, r),
           UNCHANGED <<lastTid, traderMap, toGs, strays>>
    PROVE  LocksOK'
<1> SUFFICES ASSUME NEW t \in Tid, NEW r \in Role PROVE LockOK(t, r)'
  BY DEF LocksOK
<1>1. LockOK(t, r)
  BY DEF LocksOK
<1>2. /\ Live(t)' <=> Live(t)
      /\ Live(t) => trans'[t].pair = trans[t].pair /\ (trans[t].notify => trans'[t].notify)
  BY DEF TransQuiet
<1>3. InLock(r, t)' <=> InLock(r, t)
  BY DEF InLock, InTrade
<1>4. EndTold(t, r)' <=> EndTold(t, r)
  BY DEF EndTold
<1>5. Live(t) => Parties(trans[t])' = Parties(trans[t])
  BY <1>2 DEF Parties
<1>6. Live(t) => (Asked(t, r) => Asked(t, r)')
  BY <1>2 DEF Asked
<1>7. Unknown(t, r) => Unknown(t, r)'
  BY <1>2, <1>4 DEF Unknown
<1> QED BY <1>1, <1>2, <1>3, <1>4, <1>5, <1>6, <1>7 DEF LockOK

LEMMA DeliveryLeaves ==
    ASSUME Typed, Delivery
    PROVE  \/ \E p \in Pairs : Create(p)
           \/ \E t \in Tid : Update(t)
           \/ \E m : GTradeStart_Re(m)
           \/ /\ UNCHANGED <<lastTid, traderMap, gs, toGs, strays>>
              /\ \A t, r : LockTold(t, r)' <=> LockTold(t, r)
<1>1. ASSUME UNCHANGED toDelivery PROVE \A t, r : LockTold(t, r)' <=> LockTold(t, r)
  BY <1>1 DEF LockTold, Pending
<1>2. ASSUME NEW m, Heard(m), m.op # "GTradeStart_Re"
      PROVE  \A t, r : LockTold(t, r)' <=> LockTold(t, r)
  <2>1. \A t, r : StartRe(t, r, TRUE) # m
    BY <1>2 DEF StartRe
  <2> QED BY <1>2, <2>1, HeardEffect DEF LockTold
<1>3. ASSUME NEW m, GTradeDiscard(m) \/ PlayerLogout(m)
      PROVE  /\ UNCHANGED <<lastTid, traderMap, gs, toGs, strays>>
             /\ \A t, r : LockTold(t, r)' <=> LockTold(t, r)
  <2>1. Heard(m) /\ m.op # "GTradeStart_Re"
    BY <1>3 DEF GTradeDiscard, PlayerLogout
  <2>2. UNCHANGED <<lastTid, traderMap, gs, toGs, strays>>
    BY <1>3 DEF GTradeDiscard, PlayerLogout, history
  <2> QED BY <1>2, <2>1, <2>2
<1>4. ASSUME NEW m \in rpcs, NEW ok \in BOOLEAN,
             TradeInventoryReturns(m, ok) \/ TradeSaveReturns(m, ok)
      PROVE  UNCHANGED <<lastTid, traderMap, gs, toGs, strays, toDelivery>>
  BY <1>4 DEF TradeInventoryReturns, TradeSaveReturns, history
<1>5. ASSUME NEW t \in Tid, NEW r \in Role, NEW g \in Goods, NEW paid \in BOOLEAN,
             AddGoods(t, r, g, paid) \/ RemoveGoods(t, r, g, paid)
      PROVE  UNCHANGED <<lastTid, traderMap, gs, toGs, strays, toDelivery>>
  BY <1>5 DEF AddGoods, RemoveGoods, Moved, history
<1>6. ASSUME NEW t \in Tid, NEW r \in Role, NEW room \in BOOLEAN,
             Submit(t, r, room) \/ MoveObject(t, r) \/ Confirm(t, r) \/ TradeDiscard(t)
      PROVE  UNCHANGED <<lastTid, traderMap, gs, toGs, strays, toDelivery>>
  BY <1>6 DEF Submit, MoveObject, Confirm, TradeDiscard, history
<1>7. ASSUME NEW t \in Tid, TradeDiscard(t)
      PROVE  UNCHANGED <<lastTid, traderMap, gs, toGs, strays, toDelivery>>
  BY <1>7 DEF TradeDiscard, history
<1>8. ASSUME NEW r \in Role, UserDisconnect(r)
      PROVE  UNCHANGED <<lastTid, traderMap, gs, toGs, strays, toDelivery>>
  BY <1>8 DEF UserDisconnect, history
<1> QED BY <1>1, <1>3, <1>4, <1>5, <1>6, <1>7, <1>8 DEF Delivery

-------------------------------------------------------------------------------
(* Steps of gdeliveryd *)

LEMMA CreateLocks == ASSUME IInv, NEW p \in Pairs, Create(p) PROVE LocksOK'
<1>0. lastTid \in Nat /\ lastTid' \in Tid
  <2>1. lastTid \in {NoTid} \cup Tid
    BY DEF IInv, Typed, TypeOK
  <2> QED BY <2>1, TradeAssumption, CreateEffect DEF IInv, Tid, NoTid
<1>1. PICK n \in Tid :
      /\ n = lastTid' /\ n = lastTid + 1 /\ lastTid \in Nat
      /\ trans' = [trans EXCEPT ![n] = trans'[n]]
      /\ trans'[n] \in Transaction /\ trans'[n].pair = p
      /\ toGs \subseteq toGs' /\ toGs' \subseteq toGs \cup {TradeStart(n, p)}
  BY <1>0, CreateEffect DEF IInv
<1>2. UNCHANGED <<traderMap, gs, toDelivery, strays>>
  BY DEF Create, history
<1> SUFFICES ASSUME NEW t \in Tid, NEW r \in Role PROVE LockOK(t, r)'
  BY DEF LocksOK
<1>3. LockOK(t, r) /\ LockOK(n, r) /\ t \in Nat
  BY <1>1 DEF IInv, LocksOK, Tid
<1>4. /\ InLock(r, t)' <=> InLock(r, t)
      /\ LockTold(t, r)' <=> LockTold(t, r)
  BY <1>2 DEF InLock, InTrade, LockTold, Pending
<1>5. EndTold(t, r)' <=> EndTold(t, r)
  BY <1>1 DEF EndTold, TradeEnd, TradeStart
<1>6. Unknown(n, r) /\ Live(n)'
  <2>1. n > lastTid
    BY <1>1
  <2>2. Unknown(n, r)
    BY <1>3, <2>1 DEF LockOK
  <2>3. Live(n)'
    <3> DEFINE T == trans'[n]
    <3>1. T \in Transaction
      BY <1>1
    <3> HIDE DEF T
    <3>2. T.state # "none"
      BY <3>1, TransactionFields
    <3> QED BY <3>2 DEF T, Live
  <2> QED BY <2>2, <2>3
<1>7. CASE t = n
  <2>1. Asked(t, r)'
    <3>1. ASSUME NEW q \in Pairs, TradeStart(t, q) \in toGs' PROVE q = p
      <4>1. TradeStart(t, q) \notin toGs
        BY <1>6, <1>7 DEF Unknown
      <4>2. TradeStart(t, q) = TradeStart(n, p)
        BY <1>1, <3>1, <4>1
      <4> QED BY <4>2 DEF TradeStart
    <3>2. trans'[t].pair = p /\ gs'[r].tid # t /\ <<t, r>> \notin strays'
      BY <1>1, <1>2, <1>6, <1>7 DEF Unknown
    <3> QED BY <3>1, <3>2 DEF Asked
  <2>2. /\ gs'[r].tid # t /\ ~InLock(r, t)' /\ ~LockTold(t, r)' /\ ~EndTold(t, r)' /\ Live(t)'
    BY <1>2, <1>4, <1>5, <1>6, <1>7 DEF Unknown, InLock, InTrade
  <2>3. traderMap'[r] # t
    BY <1>2, <1>3, <1>6, <1>7 DEF LockOK, Unknown
  <2>4. ~(t > n)
    BY <1>3, <1>7
  <2> QED BY <1>1, <2>1, <2>2, <2>3, <2>4 DEF LockOK
<1>8. CASE t # n
  <2>1. trans'[t] = trans[t] /\ (Live(t)' <=> Live(t))
    BY <1>1, <1>8 DEF IInv, Typed, TypeOK, Live
  <2>2. \A q \in Pairs : TradeStart(t, q) \in toGs' <=> TradeStart(t, q) \in toGs
    BY <1>1, <1>8 DEF TradeStart
  <2>3. Asked(t, r) => Asked(t, r)'
    BY <1>2, <2>1, <2>2 DEF Asked
  <2>4. Unknown(t, r) => Unknown(t, r)'
    BY <1>2, <1>4, <1>5, <2>1, <2>2 DEF Unknown
  <2>5. t > lastTid' => t > lastTid
    BY <1>1, <1>3
  <2> QED BY <1>2, <1>3, <1>4, <1>5, <2>1, <2>3, <2>4, <2>5 DEF LockOK, Parties
<1> QED BY <1>7, <1>8

LEMMA UpdateLocks == ASSUME IInv, NEW u \in Tid, Update(u) PROVE LocksOK'
<1>1. /\ Live(u) /\ trans[u].state # "Confirm" /\ (trans[u].state # "Null" => ~Expected(u))
      /\ trans' = [trans EXCEPT ![u] = NoTransaction] /\ trans'[u] = NoTransaction
      /\ toGs \subseteq toGs'
      /\ \A m \in toGs' \ toGs : \E x \in Role, read \in BOOLEAN : m = TradeEnd(u, x, read)
      /\ \A x \in Parties(trans[u]) : trans[u].notify /\ trans[u].state # "Init" =>
            \E read \in BOOLEAN : TradeEnd(u, x, read) \in toGs'
      /\ strays' = {d \in strays : d[1] # u}
  BY UpdateEffect DEF IInv
<1>2. /\ UNCHANGED <<lastTid, gs, toDelivery>>
      /\ traderMap' = [x \in Role |-> IF traderMap[x] = u THEN NoTid ELSE traderMap[x]]
  BY DEF Update
<1> SUFFICES ASSUME NEW t \in Tid, NEW r \in Role PROVE LockOK(t, r)'
  BY DEF LocksOK
<1>3. LockOK(t, r) /\ t # NoTid
  BY DEF IInv, LocksOK, Tid, NoTid
<1>4. /\ InLock(r, t)' <=> InLock(r, t)
      /\ LockTold(t, r)' <=> LockTold(t, r)
  BY <1>2 DEF InLock, InTrade, LockTold, Pending
<1>5. CASE t = u
  <2>1. ~Live(t)' /\ traderMap'[r] # t
    BY <1>1, <1>2, <1>3, <1>5 DEF Live, NoTransaction
  <2>2. ~(t > lastTid')
    BY <1>1, <1>2, <1>3, <1>5 DEF LockOK, Unknown
  <2>3. ASSUME InLock(r, t) PROVE LockTold(t, r)' \/ EndTold(t, r)'
    <3>1. r \in Parties(trans[t]) /\ <<t, r>> \notin strays /\ ~EndTold(t, r)
      BY <1>1, <1>3, <1>5, <2>3 DEF LockOK, InLock, InTrade
    <3>2. LockTold(t, r) \/ trans[t].notify
      BY <1>1, <1>3, <1>5, <2>3, <3>1 DEF LockOK
    <3>3. ASSUME trans[t].notify, trans[t].state = "Init" PROVE FALSE
      <4>1. SaveAwaited(t)
        BY <3>3 DEF IInv, SavesOK, AwaitedOK
      <4>2. Expected(t)
        BY <4>1 DEF SaveAwaited, Expected
      <4> QED BY <1>1, <1>5, <3>3, <4>2
    <3> QED BY <1>1, <1>4, <1>5, <3>1, <3>2, <3>3 DEF EndTold
  <2> QED BY <1>4, <2>1, <2>2, <2>3 DEF LockOK
<1>6. CASE t # u
  <2>1. trans'[t] = trans[t] /\ (Live(t)' <=> Live(t))
    BY <1>1, <1>6 DEF IInv, Typed, TypeOK, Live
  <2>2. EndTold(t, r)' <=> EndTold(t, r)
    BY <1>1, <1>6 DEF EndTold, TradeEnd
  <2>3. \A q \in Pairs : TradeStart(t, q) \in toGs' <=> TradeStart(t, q) \in toGs
    BY <1>1 DEF TradeStart, TradeEnd
  <2>4. <<t, r>> \in strays' <=> <<t, r>> \in strays
    BY <1>1, <1>6
  <2>5. traderMap'[r] = t <=> traderMap[r] = t
    BY <1>2, <1>3, <1>6
  <2>6. Asked(t, r) => Asked(t, r)'
    BY <1>2, <2>1, <2>3, <2>4 DEF Asked
  <2>7. Unknown(t, r) => Unknown(t, r)'
    BY <1>2, <1>4, <2>1, <2>2, <2>3, <2>4 DEF Unknown
  <2> QED BY <1>2, <1>3, <1>4, <2>1, <2>2, <2>4, <2>5, <2>6, <2>7 DEF LockOK, Parties
<1> QED BY <1>5, <1>6

\* gs reports a lock, or that it has none: the trader is attached, the trade is over
\* and tells gs of its end, or it was over before.
LEMMA StartReLocks == ASSUME IInv, NEW m, GTradeStart_Re(m) PROVE LocksOK'
<1>1. /\ m \in ToDelivery /\ m.op = "GTradeStart_Re" /\ m.tid \in Tid /\ m.role \in Role
      /\ Attaches(m) \/ Refuses(m) \/ ComesLate(m)
  BY StartReGoesOn DEF IInv
<1>2. /\ UNCHANGED <<lastTid, gs, toGs>> /\ Heard(m)
      /\ strays' = strays \cup {d \in {<<m.tid, m.role>>} : m.ok /\ ~Live(m.tid)}
  BY DEF GTradeStart_Re
<1>3. TransQuiet
  BY <1>1, GoesOnQuiet DEF IInv, Attaches, Refuses, ComesLate
<1>4. /\ Pending(m)
      /\ \A x : Pending(x)' => Pending(x)
      /\ \A x : Pending(x) => x = m \/ Pending(x)'
  BY <1>2, HeardEffect DEF IInv
<1> SUFFICES ASSUME NEW t \in Tid, NEW r \in Role PROVE LockOK(t, r)'
  BY DEF LocksOK
<1>5. LockOK(t, r)
  BY DEF IInv, LocksOK
<1>6. /\ InLock(r, t)' <=> InLock(r, t)
      /\ EndTold(t, r)' <=> EndTold(t, r)
  BY <1>2 DEF InLock, InTrade, EndTold
<1>7. /\ Live(t)' <=> Live(t)
      /\ Live(t) => trans'[t].pair = trans[t].pair /\ (trans[t].notify => trans'[t].notify)
  BY <1>3 DEF TransQuiet
<1>8. LockTold(t, r)' => LockTold(t, r)
  BY <1>4 DEF LockTold
<1>9. Live(t) => (<<t, r>> \in strays' <=> <<t, r>> \in strays)
  BY <1>2
<1>10. Live(t) => (Asked(t, r) => Asked(t, r)')
  BY <1>2, <1>7, <1>9 DEF Asked
<1>11. CASE m = StartRe(t, r, TRUE)
  <2>1. m.tid = t /\ m.role = r /\ m.ok /\ LockTold(t, r)
    BY <1>4, <1>11 DEF StartRe, LockTold
  <2>2. ~(t > lastTid')
    BY <1>2, <1>5, <2>1 DEF LockOK, Unknown
  <2>3. CASE Attaches(m) \/ Refuses(m)
    <3>1. Live(t) /\ trans'[t].notify
      BY <2>1, <2>3 DEF Attaches, Refuses, GoesOn
    <3>2. InLock(r, t) \/ <<t, r>> \in strays
      BY <1>5, <2>1, <3>1 DEF LockOK
    <3> QED BY <1>2, <1>5, <1>6, <1>7, <1>9, <1>10, <2>2, <3>1, <3>2 DEF LockOK, Parties
  <2>4. CASE ComesLate(m)
    <3>1. ~Live(t) /\ UNCHANGED traderMap /\ <<t, r>> \in strays'
      BY <1>2, <2>1, <2>4 DEF ComesLate
    <3> QED BY <1>5, <1>7, <2>2, <3>1 DEF LockOK
  <2> QED BY <1>1, <2>3, <2>4
<1>12. CASE m # StartRe(t, r, TRUE)
  <2>1. LockTold(t, r)' <=> LockTold(t, r)
    BY <1>4, <1>12 DEF LockTold
  <2>2. ~(m.ok /\ m.tid = t /\ m.role = r)
    BY <1>1, <1>12 DEF ToDelivery, StartRe
  <2>3. traderMap'[r] = t => traderMap[r] = t
    BY <1>1, <2>2 DEF Attaches, Refuses, ComesLate, IInv, Typed, TypeOK
  <2>4. <<t, r>> \in strays' <=> <<t, r>> \in strays
    BY <1>2, <2>2
  <2>5. Unknown(t, r) => Unknown(t, r)'
    BY <1>2, <1>6, <1>7, <2>1, <2>4 DEF Unknown
  <2> QED BY <1>2, <1>5, <1>6, <1>7, <1>10, <2>1, <2>3, <2>4, <2>5 DEF LockOK, Parties
<1> QED BY <1>11, <1>12

-------------------------------------------------------------------------------
(* Steps of the game server *)

\* What a step of gs does to one player, and what it hears or tells, keeps the locks
\* if the player's lock stays, is new and told, or ends when it may.
LEMMA GsQuiet ==
    ASSUME NEW t \in Tid, NEW r \in Role, LockOK(t, r),
           UNCHANGED deliveryVars, toGs' \subseteq toGs,
           gs'[r].tid = gs[r].tid /\ gs'[r].state = gs[r].state,
           LockTold(t, r)' <=> LockTold(t, r),
           InLock(r, t) => (EndTold(t, r) => EndTold(t, r)'),
           <<t, r>> \in strays' <=> <<t, r>> \in strays
    PROVE  LockOK(t, r)'
<1>1. UNCHANGED <<trans, lastTid, traderMap>>
  BY DEF deliveryVars
<1>2. /\ Live(t)' <=> Live(t)
      /\ InLock(r, t)' <=> InLock(r, t)
      /\ Parties(trans[t])' = Parties(trans[t])
      /\ EndTold(t, r)' => EndTold(t, r)
      /\ Asked(t, r) => Asked(t, r)'
  BY <1>1 DEF Live, InLock, InTrade, Parties, EndTold, Asked
<1>3. Unknown(t, r) => Unknown(t, r)'
  BY <1>2 DEF Unknown
<1> QED BY <1>1, <1>2, <1>3 DEF LockOK

\* A player that is in no trade any more.
LEMMA GsLeaves ==
    ASSUME NEW t \in Tid, NEW r \in Role, LockOK(t, r),
           UNCHANGED deliveryVars, toGs' \subseteq toGs,
           gs'[r].tid = NoTid,
           LockTold(t, r)' <=> LockTold(t, r),
           strays \subseteq strays',
           <<t, r>> \in strays' => <<t, r>> \in strays \/ gs[r].tid = t,
           \/ ~InLock(r, t)
           \/ Live(t) => <<t, r>> \in strays'
    PROVE  LockOK(t, r)'
<1>1. UNCHANGED <<trans, lastTid, traderMap>> /\ gs'[r].tid # t /\ ~InLock(r, t)'
  BY DEF deliveryVars, Tid, NoTid, InLock, InTrade
<1>2. /\ Live(t)' <=> Live(t)
      /\ EndTold(t, r)' => EndTold(t, r)
  BY <1>1 DEF Live, EndTold
<1>3. Asked(t, r) => Asked(t, r)'
  BY <1>1 DEF Asked
<1>4. Unknown(t, r) => Unknown(t, r)'
  BY <1>1, <1>2 DEF Unknown
<1> QED BY <1>1, <1>2, <1>3, <1>4 DEF LockOK

LEMMA ToldTyped == ASSUME Typed, NEW m \in ToDelivery, Told(m)
                   PROVE  \A x : Pending(x)' <=> Pending(x) \/ x = m
BY ToldEffect

\* gs drops a player.
LEMMA DropLocks ==
    ASSUME IInv, NEW d \in Role, Drop(d), gs[d].state \notin {"normal", "offline"},
           UNCHANGED deliveryVars, toGs' \subseteq toGs,
           \A t \in Tid, r \in Role : r # d => (EndTold(t, r) => EndTold(t, r)')
    PROVE  LocksOK'
<1> SUFFICES ASSUME NEW t \in Tid, NEW r \in Role PROVE LockOK(t, r)'
  BY DEF LocksOK
<1>1. LockOK(t, r)
  BY DEF IInv, LocksOK
<1>2. /\ gs' = [gs EXCEPT ![d].state = "offline", ![d].tid = NoTid]
      /\ strays' = strays \cup {x \in {<<gs[d].tid, d>>} : Live(gs[d].tid)}
  BY DEF Drop
<1>3. LockTold(t, r)' <=> LockTold(t, r)
  <2>1. LogoutOf(d) \in ToDelivery /\ LogoutOf(d) # StartRe(t, r, TRUE) /\ Told(LogoutOf(d))
    BY DEF Drop, LogoutOf, StartRe, ToDelivery
  <2> QED BY <2>1, ToldTyped DEF LockTold, IInv
<1>4. gs \in [Role -> Player]
  BY DEF IInv, Typed, TypeOK
<1>5. CASE r = d
  <2>1. gs'[r].tid = NoTid
    BY <1>2, <1>4, <1>5 DEF Player
  <2>2. InLock(r, t) => gs[r].tid = t
    BY DEF InLock, InTrade
  <2> QED BY <1>1, <1>2, <1>3, <1>5, <2>1, <2>2, GsLeaves
<1>6. CASE r # d
  BY <1>1, <1>2, <1>3, <1>4, <1>6, GsQuiet
<1> QED BY <1>5, <1>6

\* gs locks both players of a trade it is asked to start, and saves them.
LEMMA StartsLocks == ASSUME IInv, NEW m \in toGs, TradeStarts(m) PROVE LocksOK'
<1>1. /\ m \in ToGs /\ m.op = "GTradeStart" /\ toGs' = toGs \ {m}
      /\ UNCHANGED <<deliveryVars, strays>>
  BY DEF TradeStarts, IInv, Typed, TypeOK, history
<1>2. m.tid \in Tid /\ m.pair \in Pairs /\ m = TradeStart(m.tid, m.pair)
  BY <1>1 DEF ToGs, TradeStart
<1> SUFFICES ASSUME NEW t \in Tid, NEW r \in Role PROVE LockOK(t, r)'
  BY DEF LocksOK
<1>3. LockOK(t, r)
  BY DEF IInv, LocksOK
<1>4. EndTold(t, r)' <=> EndTold(t, r)
  BY <1>1, <1>2 DEF EndTold, TradeEnd, TradeStart
<1>5. CASE Told(StartRe(m.tid, m.pair[1], FALSE)) /\ UNCHANGED gs
  <2>1. /\ StartRe(m.tid, m.pair[1], FALSE) \in ToDelivery
        /\ StartRe(m.tid, m.pair[1], FALSE) # StartRe(t, r, TRUE)
    BY <1>2, PairTyped DEF StartRe, ToDelivery
  <2>2. LockTold(t, r)' <=> LockTold(t, r)
    BY <1>5, <2>1, ToldTyped DEF LockTold, IInv
  <2> QED BY <1>1, <1>3, <1>4, <1>5, <2>2, GsQuiet
<1>6. ASSUME UNCHANGED toDelivery,
             \A x \in {m.pair[1], m.pair[2]} : gs[x].state = "normal",
             gs' = [x \in Role |->
                    IF x \in {m.pair[1], m.pair[2]}
                    THEN [gs[x] EXCEPT !.state = "wait_trade", !.tid = m.tid, !.stamp = @ + 1]
                    ELSE gs[x]]
      PROVE  LockOK(t, r)'
  <2>1. LockTold(t, r)' <=> LockTold(t, r)
    BY <1>6 DEF LockTold, Pending
  <2>2. CASE r \notin {m.pair[1], m.pair[2]}
    BY <1>1, <1>3, <1>4, <1>6, <2>1, <2>2, GsQuiet
  <2>3. CASE r \in {m.pair[1], m.pair[2]}
    <3>1. gs'[r].tid = m.tid /\ gs'[r].state = "wait_trade" /\ gs[r].state = "normal"
      <4>1. gs[r] \in Player
        BY GsTyped DEF IInv
      <4> QED BY <1>6, <2>3, <4>1 DEF Player
    <3>2. ~InLock(r, t) /\ ~InLock(r, t)'
      BY <3>1 DEF InLock, InTrade
    <3>3. UNCHANGED <<trans, lastTid, traderMap, strays>>
      BY <1>1 DEF deliveryVars
    <3>4. Live(t)' <=> Live(t)
      BY <3>3 DEF Live
    <3>5. CASE t # m.tid
      <4>1. Asked(t, r) => Asked(t, r)'
        BY <1>1, <3>1, <3>3, <3>5 DEF Asked
      <4>2. Unknown(t, r) => Unknown(t, r)'
        BY <1>1, <1>4, <2>1, <3>1, <3>3, <3>4, <3>5 DEF Unknown
      <4> QED BY <1>3, <1>4, <2>1, <3>1, <3>2, <3>3, <3>4, <3>5, <4>1, <4>2 DEF LockOK
    <3>6. CASE t = m.tid
      <4>1. ~(t > lastTid)
        BY <1>2, <1>3, <3>6 DEF LockOK, Unknown
      <4>2. Live(t) => r \in Parties(trans[t]) /\ <<t, r>> \notin strays
        BY <1>2, <1>3, <2>3, <3>6 DEF LockOK, Asked, Parties
      <4>3. ASSUME Live(t) PROVE Asked(t, r)'
        <5>1. ASSUME NEW p \in Pairs, TradeStart(t, p) \in toGs' PROVE FALSE
          <6>1. p = trans[t].pair /\ m.pair = trans[t].pair
            BY <1>1, <1>2, <1>3, <3>6, <4>3, <5>1 DEF LockOK, Asked
          <6> QED BY <1>1, <1>2, <3>6, <5>1, <6>1
        <5> QED BY <5>1 DEF Asked
      <4> QED BY <1>3, <1>4, <2>1, <3>1, <3>2, <3>3, <3>4, <4>1, <4>2, <4>3 DEF LockOK, Parties
    <3> QED BY <3>5, <3>6
  <2> QED BY <2>2, <2>3
<1> QED BY <1>5, <1>6 DEF TradeStarts

\* A player is told of the end of a trade.
LEMMA CompleteLocks == ASSUME IInv, NEW m \in toGs, TradeComplete(m) PROVE LocksOK'
<1> DEFINE d == m.role
           s == gs[d].state
<1>1. /\ m \in ToGs /\ m.op = "GTradeEnd" /\ toGs' = toGs \ {m}
      /\ UNCHANGED <<deliveryVars>>
  BY DEF TradeComplete, IInv, Typed, TypeOK
<1>2. /\ m.tid \in Tid /\ d \in Role /\ m.read \in BOOLEAN /\ m = TradeEnd(m.tid, d, m.read)
  BY <1>1 DEF ToGs, TradeEnd
<1>3. EndTold(m.tid, d)
  BY <1>2 DEF EndTold
<1>4. ~Live(m.tid) \/ m.tid \notin Tid
  BY <1>2, <1>3 DEF IInv, LocksOK, LockOK
<1>5. \A t \in Tid, r \in Role : r # d \/ t # m.tid => (EndTold(t, r) => EndTold(t, r)')
  <2>1. ASSUME NEW t \in Tid, NEW r \in Role, r # d \/ t # m.tid, EndTold(t, r)
        PROVE  EndTold(t, r)'
    <3>1. PICK read \in BOOLEAN : TradeEnd(t, r, read) \in toGs
      BY <2>1 DEF EndTold
    <3>2. TradeEnd(t, r, read) # m
      BY <1>2, <2>1 DEF TradeEnd
    <3> QED BY <1>1, <3>1, <3>2 DEF EndTold
  <2> QED BY <2>1
<1>6. CASE s \in {"wait_trade", "trade", "wait_complete"} /\ Drop(d)
  <2>1. gs[d].state \notin {"normal", "offline"}
    BY <1>6
  <2> QED BY <1>1, <1>2, <1>5, <1>6, <2>1, DropLocks
<1>7. ASSUME UNCHANGED <<toDelivery, strays>>,
             \/ UNCHANGED gs /\ s \notin {"trade", "wait_complete"}
             \/ gs[d].tid = m.tid /\ (Normalize(d) \/ Become(d, "wait_read"))
      PROVE  LocksOK'
  <2> SUFFICES ASSUME NEW t \in Tid, NEW r \in Role PROVE LockOK(t, r)'
    BY DEF LocksOK
  <2>1. LockOK(t, r) /\ (LockTold(t, r)' <=> LockTold(t, r)) /\ gs \in [Role -> Player]
    BY <1>7 DEF IInv, LocksOK, LockTold, Pending, Typed, TypeOK
  <2>2. CASE r # d \/ (UNCHANGED gs /\ s \notin {"trade", "wait_complete"})
    <3>1. gs'[r].tid = gs[r].tid /\ gs'[r].state = gs[r].state
      BY <1>7, <2>1, <2>2 DEF Normalize, Become
    <3>2. InLock(r, t) => (EndTold(t, r) => EndTold(t, r)')
      BY <1>5, <2>2 DEF InLock, InTrade
    <3> QED BY <1>1, <1>7, <2>1, <3>1, <3>2, GsQuiet
  <2>3. CASE r = d /\ gs[d].tid = m.tid /\ Normalize(d)
    <3>1. gs'[r].tid = NoTid
      BY <2>1, <2>3 DEF Normalize, Player
    <3>2. InLock(r, t) => ~Live(t)
      BY <1>2, <1>4, <2>3 DEF InLock, InTrade
    <3> QED BY <1>1, <1>7, <2>1, <2>3, <3>1, <3>2, GsLeaves
  <2>4. CASE r = d /\ gs[d].tid = m.tid /\ Become(d, "wait_read")
    <3>1. gs'[r].tid = gs[r].tid /\ ~InLock(r, t)'
      BY <2>1, <2>4 DEF Become, Player, InLock, InTrade
    <3>2. UNCHANGED <<trans, lastTid, traderMap, strays>>
      BY <1>1, <1>7 DEF deliveryVars
    <3>3. InLock(r, t) => ~Live(t)
      BY <1>2, <1>4, <2>4 DEF InLock, InTrade
    <3>4. /\ Live(t)' <=> Live(t)
          /\ EndTold(t, r)' => EndTold(t, r)
      BY <1>1, <3>2 DEF Live, EndTold
    <3>5. /\ Asked(t, r) => Asked(t, r)'
          /\ Unknown(t, r) => Unknown(t, r)'
      BY <1>1, <2>1, <3>1, <3>2, <3>4 DEF Asked, Unknown
    <3> QED BY <2>1, <3>1, <3>2, <3>3, <3>4, <3>5 DEF LockOK, Parties
  <2> QED BY <1>7, <2>2, <2>3, <2>4
<1> QED BY <1>6, <1>7 DEF TradeComplete, history

\* A lock that was saved is reported; else it ends before it began.
LEMMA ReportLocks ==
    ASSUME IInv, NEW d \in Role, NEW n \in Tid, InTrade(d, n, "wait_trade"), NEW ok \in BOOLEAN,
           IF ok THEN Become(d, "trade") ELSE Normalize(d),
           Told(StartRe(n, d, ok)), UNCHANGED <<deliveryVars, toGs, strays>>
    PROVE  LocksOK'
<1> SUFFICES ASSUME NEW t \in Tid, NEW r \in Role PROVE LockOK(t, r)'
  BY DEF LocksOK
<1>1. LockOK(t, r) /\ gs \in [Role -> Player] /\ (EndTold(t, r)' <=> EndTold(t, r))
  BY DEF IInv, LocksOK, Typed, TypeOK, EndTold
<1>2. \A x : Pending(x)' <=> Pending(x) \/ x = StartRe(n, d, ok)
  <2>1. StartRe(n, d, ok) \in ToDelivery
    BY DEF StartRe, ToDelivery
  <2> QED BY <2>1, ToldTyped DEF IInv
<1>3. LockTold(t, r)' <=> LockTold(t, r) \/ (t = n /\ r = d /\ ok)
  BY <1>2 DEF LockTold, StartRe
<1>4. CASE r # d
  <2>1. gs'[r] = gs[r]
    BY <1>1, <1>4 DEF Become, Normalize
  <2> QED BY <1>1, <1>3, <1>4, <2>1, GsQuiet
<1>5. CASE r = d /\ ~ok
  <2>1. gs'[r].tid = NoTid
    BY <1>1, <1>5 DEF Normalize, Player
  <2>2. ~InLock(r, t)
    BY <1>5 DEF InLock, InTrade
  <2> QED BY <1>1, <1>3, <1>5, <2>1, <2>2, GsLeaves
<1>6. CASE r = d /\ ok
  <2>1. gs'[r].tid = n /\ gs'[r].state = "trade" /\ gs[r].tid = n /\ gs[r].state = "wait_trade"
    BY <1>1, <1>6 DEF Become, InTrade, Player
  <2>2. UNCHANGED <<trans, lastTid, traderMap, strays>>
    BY DEF deliveryVars
  <2>3. (Live(t)' <=> Live(t)) /\ (Asked(t, r) => Asked(t, r)')
    BY <1>6, <2>1, <2>2 DEF Live, Asked
  <2>4. ~InLock(r, t) /\ (InLock(r, t)' <=> t = n)
    BY <1>6, <2>1 DEF InLock, InTrade
  <2>5. t > lastTid => t # n /\ (Unknown(t, r) => Unknown(t, r)')
    BY <1>1, <1>3, <2>1, <2>2, <2>3 DEF Unknown, LockOK
  <2> QED BY <1>1, <1>3, <1>6, <2>1, <2>2, <2>3, <2>4, <2>5 DEF LockOK, Parties
<1> QED BY <1>4, <1>5, <1>6

LEMMA GameServerLocks == ASSUME IInv, GameServer PROVE LocksOK'
<1>0. gs \in [Role -> Player]
  BY DEF IInv, Typed, TypeOK
<1>1. ASSUME NEW m \in toGs, TradeStarts(m) \/ TradeComplete(m) PROVE LocksOK'
  BY <1>1, StartsLocks, CompleteLocks
<1>2. ASSUME UNCHANGED <<gs, toDelivery>>, UNCHANGED <<deliveryVars, toGs, strays>>
      PROVE  LocksOK'
  <2>1. UNCHANGED <<trans, lastTid, traderMap>>
    BY <1>2 DEF deliveryVars
  <2>2. TransQuiet
    BY <2>1 DEF TransQuiet, Live
  <2>3. \A t \in Tid, r \in Role : LockTold(t, r)' <=> LockTold(t, r)
    BY <1>2 DEF LockTold, Pending
  <2> QED BY <1>2, <2>1, <2>2, <2>3, QuietStep DEF IInv
<1>3. ASSUME NEW m \in rpcs, NEW r \in Role, NEW ok \in BOOLEAN, PutRoleReturns(m, r, ok)
      PROVE  LocksOK'
  <2>1. UNCHANGED <<deliveryVars, toGs, strays>> /\ m.tid \in Tid
    BY <1>3 DEF PutRoleReturns, history, Returns, IInv, Typed, TidsNamed
  <2>2. CASE UNCHANGED <<gs, toDelivery>>
    BY <1>2, <2>1, <2>2
  <2>3. CASE /\ InTrade(r, m.tid, "wait_trade") /\ Told(StartRe(m.tid, r, ok))
             /\ IF ok THEN Become(r, "trade") ELSE Normalize(r)
    BY <2>1, <2>3, ReportLocks
  <2> QED BY <1>3, <2>2, <2>3 DEF PutRoleReturns
<1>4. ASSUME NEW r \in Role, LeavesBefore(r) PROVE LocksOK'
  <2>1. /\ gs[r].state = "wait_trade" /\ Told(StartRe(gs[r].tid, r, FALSE)) /\ Normalize(r)
        /\ UNCHANGED <<deliveryVars, toGs, strays>>
    BY <1>4 DEF LeavesBefore, history
  <2>2. gs[r].tid \in Tid /\ InTrade(r, gs[r].tid, "wait_trade")
    BY <2>1, GsTyped DEF IInv, InTrade
  <2> QED BY <2>1, <2>2, ReportLocks
<1>5. ASSUME NEW m \in rpcs, NEW r \in Role, NEW ok \in BOOLEAN, InventoryReturns(m, r, ok)
      PROVE  LocksOK'
  <2>1. UNCHANGED <<deliveryVars, toGs>>
    BY <1>5 DEF InventoryReturns
  <2>2. CASE UNCHANGED <<gs, toDelivery, history>>
    BY <1>2, <2>1, <2>2 DEF history
  <2>3. CASE InTrade(r, m.tid, "wait_read") /\ Drop(r)
    <3>1. gs[r].state \notin {"normal", "offline"}
      BY <2>3 DEF InTrade
    <3> QED BY <2>1, <2>3, <3>1, DropLocks DEF EndTold
  <2>4. ASSUME InTrade(r, m.tid, "wait_read"), UNCHANGED <<toDelivery, history>>,
               gs' = [gs EXCEPT ![r].state = "normal", ![r].tid = NoTid,
                                ![r].pocket = m.pockets[r]]
        PROVE  LocksOK'
    <3> SUFFICES ASSUME NEW t \in Tid, NEW x \in Role PROVE LockOK(t, x)'
      BY DEF LocksOK
    <3>1. /\ LockOK(t, x) /\ (LockTold(t, x)' <=> LockTold(t, x)) /\ UNCHANGED strays
          /\ EndTold(t, x)' <=> EndTold(t, x)
      BY <2>1, <2>4 DEF IInv, LocksOK, LockTold, Pending, history, EndTold
    <3>2. CASE x # r
      <4>1. gs'[x] = gs[x]
        BY <1>0, <2>4, <3>2
      <4> QED BY <2>1, <3>1, <4>1, GsQuiet
    <3>3. CASE x = r
      <4>1. gs'[x].tid = NoTid
        BY <1>0, <2>4, <3>3 DEF Player
      <4>2. ~InLock(x, t)
        BY <2>4, <3>3 DEF InLock, InTrade
      <4> QED BY <2>1, <3>1, <4>1, <4>2, GsLeaves
    <3> QED BY <3>2, <3>3
  <2> QED BY <1>5, <2>2, <2>3, <2>4 DEF InventoryReturns
<1>6. ASSUME NEW r \in Role, DiscardTrade(r) PROVE LocksOK'
  <2>1. /\ gs[r].state = "trade" /\ Told(DiscardOf(gs[r].tid, r))
        /\ gs' = [gs EXCEPT ![r].state = "wait_complete"]
        /\ UNCHANGED <<deliveryVars, toGs, strays>>
    BY <1>6 DEF DiscardTrade, Become, history
  <2>2. DiscardOf(gs[r].tid, r) \in ToDelivery
    BY <2>1, GsTyped DEF IInv, DiscardOf, ToDelivery
  <2> SUFFICES ASSUME NEW t \in Tid, NEW x \in Role PROVE LockOK(t, x)'
    BY DEF LocksOK
  <2>3. DiscardOf(gs[r].tid, r) # StartRe(t, x, TRUE)
    BY DEF DiscardOf, StartRe
  <2>4. /\ LockOK(t, x) /\ (LockTold(t, x)' <=> LockTold(t, x))
        /\ EndTold(t, x)' <=> EndTold(t, x)
    BY <2>1, <2>2, <2>3, ToldTyped DEF IInv, LocksOK, LockTold, EndTold
  <2>5. gs'[x].tid = gs[x].tid /\ (InLock(x, t)' <=> InLock(x, t))
    BY <1>0, <2>1 DEF Player, InLock, InTrade
  <2>6. UNCHANGED <<trans, lastTid, traderMap, toGs, strays>>
    BY <2>1 DEF deliveryVars
  <2>7. (Live(t)' <=> Live(t)) /\ (Asked(t, x) => Asked(t, x)')
    BY <2>5, <2>6 DEF Live, Asked
  <2>8. Unknown(t, x) => Unknown(t, x)'
    BY <2>4, <2>5, <2>6, <2>7 DEF Unknown
  <2> QED BY <2>4, <2>5, <2>6, <2>7, <2>8 DEF LockOK, Parties
<1>7. ASSUME NEW r \in Role, CompleteTimesOut(r) PROVE LocksOK'
  <2>1. gs[r].state \notin {"normal", "offline"} /\ Drop(r) /\ UNCHANGED <<deliveryVars, toGs>>
    BY <1>7 DEF CompleteTimesOut
  <2> QED BY <2>1, DropLocks DEF EndTold
<1>8. ASSUME NEW r \in Role, Login(r) \/ Save(r) PROVE LocksOK'
  <2>1. UNCHANGED <<deliveryVars, toGs, strays, toDelivery>>
    BY <1>8 DEF Login, Save, history
  <2> SUFFICES ASSUME NEW t \in Tid, NEW x \in Role PROVE LockOK(t, x)'
    BY DEF LocksOK
  <2>2. /\ LockOK(t, x) /\ (LockTold(t, x)' <=> LockTold(t, x))
        /\ EndTold(t, x)' <=> EndTold(t, x)
    BY <2>1 DEF IInv, LocksOK, LockTold, Pending, EndTold
  <2>3. CASE Save(r) \/ x # r
    <3>1. gs'[x].tid = gs[x].tid /\ gs'[x].state = gs[x].state
      BY <1>0, <1>8, <2>3 DEF Save, Login, Player
    <3> QED BY <2>1, <2>2, <3>1, GsQuiet
  <2>4. CASE Login(r) /\ x = r
    <3>1. gs'[x].tid = NoTid /\ ~InLock(x, t)
      BY <1>0, <2>4 DEF Login, InLock, InTrade
    <3> QED BY <2>1, <2>2, <3>1, GsLeaves
  <2> QED BY <1>8, <2>3, <2>4
<1> QED BY <1>1, <1>3, <1>4, <1>5, <1>6, <1>7, <1>8 DEF GameServer

-------------------------------------------------------------------------------
(* The locks: the theorems *)

LEMMA LocksStep == IInv /\ [Next]_vars => LocksOK'
<1> SUFFICES ASSUME IInv, [Next]_vars PROVE LocksOK'
  OBVIOUS
<1>1. CASE Delivery
  <2>1. ASSUME NEW t \in Tid \cup {NoTid}, OneGoesOn(t),
               UNCHANGED <<lastTid, traderMap, gs, toGs, strays>>,
               \A x, r : LockTold(x, r)' <=> LockTold(x, r)
        PROVE  LocksOK'
    <3>1. TransQuiet
      <4>1. UNCHANGED trans \/ GoesOn(t)
        BY <2>1 DEF OneGoesOn
      <4>2. t \in Tid \/ UNCHANGED trans
        BY <4>1, <2>1 DEF GoesOn, Live, IInv, Typed, TypeOK
      <4> QED BY <4>1, <4>2, GoesOnQuiet DEF IInv
    <3> QED BY <2>1, <3>1, QuietStep DEF IInv
  <2> QED BY <1>1, <2>1, DeliverySteps, DeliveryLeaves, CreateLocks, UpdateLocks, StartReLocks
          DEF IInv
<1>2. CASE GameServer
  BY <1>2, GameServerLocks
<1>3. CASE Database \/ UNCHANGED vars
  <2>1. UNCHANGED <<trans, lastTid, traderMap, gs, toGs, toDelivery, strays>>
    BY <1>3, DatabaseStep DEF vars, deliveryVars, history, IInv
  <2>2. TransQuiet /\ \A t \in Tid, r \in Role : LockTold(t, r)' <=> LockTold(t, r)
    BY <2>1 DEF TransQuiet, Live, LockTold, Pending
  <2> QED BY <2>1, <2>2, QuietStep DEF IInv
<1> QED BY <1>1, <1>2, <1>3 DEF Next

LEMMA LocksInit == Init => LocksOK
<1> SUFFICES ASSUME Init, NEW t \in Tid, NEW r \in Role PROVE LockOK(t, r)
  BY DEF LocksOK
<1>1. /\ trans[t] = NoTransaction /\ traderMap[r] = NoTid /\ gs[r].state = "normal"
      /\ gs[r].tid = NoTid /\ toGs = {} /\ toDelivery = <<>> /\ strays = {}
  BY DEF Init
<1>2. t # NoTid
  BY DEF Tid, NoTid
<1>3. ~Live(t) /\ ~LockTold(t, r) /\ ~EndTold(t, r) /\ ~InLock(r, t)
  BY <1>1 DEF Live, NoTransaction, LockTold, Pending, EndTold, InLock, InTrade
<1> QED BY <1>1, <1>2, <1>3 DEF LockOK, Unknown

LEMMA LocksCorrect == Spec => []IInv
<1>1. Init => IInv
  BY TypedInit, TransactionsInit, LocksInit DEF IInv
<1>2. IInv /\ [Next]_vars => IInv'
  BY TypedStep, SavesStep, LocksStep DEF IInv
<1> QED BY <1>1, <1>2, PTL DEF Spec

\* While a role is attached to a transaction, its inventory is locked for that
\* transaction on the game server, unless the game server dropped the player.
THEOREM TradersStayLocked == Spec => []TradersAreLocked
<1>1. ASSUME IInv PROVE TradersAreLocked
  <2> SUFFICES ASSUME NEW r \in Role, traderMap[r] # NoTid
               PROVE  \/ InTrade(r, traderMap[r], "trade")
                      \/ InTrade(r, traderMap[r], "wait_complete")
                      \/ <<traderMap[r], r>> \in strays
    BY DEF TradersAreLocked
  <2>1. traderMap[r] \in Tid
    BY <1>1 DEF IInv, Typed, TypeOK
  <2> QED BY <1>1, <2>1 DEF IInv, LocksOK, LockOK, InLock
<1> QED BY <1>1, LocksCorrect, PTL

\* No inventory stays locked for nobody: its transaction will hear of the lock, holds
\* it, or has told the game server of its end; or was over before it heard of it.
THEOREM LocksAreKnown == Spec => []LocksAreReleased
<1>1. ASSUME IInv PROVE LocksAreReleased
  <2> SUFFICES ASSUME NEW r \in Role, NEW t \in Tid, InLock(r, t)
               PROVE  \/ \E i \in DOMAIN toDelivery : toDelivery[i] = StartRe(t, r, TRUE)
                      \/ Live(t) /\ trans[t].notify /\ r \in Parties(trans[t])
                      \/ \E read \in BOOLEAN : TradeEnd(t, r, read) \in toGs
                      \/ <<t, r>> \in strays
    BY DEF LocksAreReleased, InLock
  <2>1. LockOK(t, r) /\ gs[r].tid = t
    BY <1>1 DEF IInv, LocksOK, InLock, InTrade
  <2> QED BY <2>1 DEF LockOK, LockTold, Pending, EndTold
<1> QED BY <1>1, LocksCorrect, PTL

-------------------------------------------------------------------------------
(* Whose the goods are: the inductive invariant *)

\* Every thing is in one bag.
OneOwner == \A g \in Goods : \E r \in Role : \A x \in Role : g \in db[x].pocket <=> x = r

\* What a call carries of r is what gamedbd has.
Has(m, r) == m.pockets[r] = db[r].pocket
NoLateSave(r) == \A m \in rpcs : ~LateSave(m, r)

\* A save that could still be accepted changes nothing; the one that a lock waits for
\* is the newest.
PutRoleOK(m, r) == m.op = "PutRole" /\ m.who = {r} =>
    /\ LateSave(m, r) => Has(m, r) /\ m.stamp <= gs[r].stamp
    /\ InTrade(r, m.tid, "wait_trade") => m.stamp = gs[r].stamp
    /\ m.at = "caller" /\ m.ok => m.stamp <= db[r].stamp

ReadOK(m, r) == m.op = "GetMoneyInventory" /\ m.who = {r} =>
    /\ m.waiting
    /\ gs[r].tid = m.tid => gs[r].state = "wait_read"
    /\ gs[r].tid = m.tid /\ m.at = "caller" /\ m.ok => Has(m, r)

InventoryOK(m) == m.op = "TradeInventory" =>
    /\ m.waiting /\ Live(m.tid) /\ trans[m.tid].state = "SetPossession"
    /\ m.who = Parties(trans[m.tid])
    /\ m.at = "caller" /\ m.ok => \A r \in m.who : Has(m, r)

SaveOK(m) == m.op = "TradeSave" =>
    /\ m.waiting /\ Live(m.tid) /\ trans[m.tid].notify
    /\ trans[m.tid].state \in {"Init", "Confirm"}
    /\ m.who = Parties(trans[m.tid])
    /\ m.at = "server" => \A r \in m.who : trans[m.tid].trader[r].modified \/ Has(m, r)

CallsOK == \A m \in rpcs : InventoryOK(m) /\ SaveOK(m)

OneCall == \A m, n \in rpcs :
    m.op \in {"TradeInventory", "TradeSave"} /\ n.op = m.op /\ n.tid = m.tid => n = m

\* A transaction that gs has not locked anybody for is named nowhere.
Untouched(t) ==
    /\ \A m \in rpcs : m.tid # t
    /\ \A i \in DOMAIN toDelivery : toDelivery[i].tid # t
    /\ \A r \in Role : gs[r].tid # t /\ traderMap[r] # t

StartAsked(t) == \E p \in Pairs : TradeStart(t, p) \in toGs
NamedOK(t) ==
    /\ t > lastTid \/ StartAsked(t) => Untouched(t)
    /\ StartAsked(t) => Live(t) /\ trans[t].state = "Init" /\ ~trans[t].notify

\* A transaction that has both of its traders, and one that has not.
Engaged(T) == \/ T.state \in {"SetPossession", "Confirm"} \/ CanDiscard(T)
              \/ T.state = "Init" /\ T.notify
Begins(T) == T.state \in {"Init_half", "SetPossession"} \/ (T.state = "Init" /\ ~T.notify)

\* Nothing is on the table at first; later, what a trader has and offers is its bag.
TransOK(t) == Live(t) =>
    /\ Engaged(trans[t]) => trans[t].notify /\ \A r \in Parties(trans[t]) : traderMap[r] = t
    /\ Begins(trans[t]) =>
          \A r \in Parties(trans[t]) :
              /\ trans[t].trader[r].exchg = {}
              /\ trans[t].trader[r].state = "INIT_HALF" => traderMap[r] = t
    /\ CanDiscard(trans[t]) =>
          \A r \in Parties(trans[t]) :
              trans[t].trader[r].pssn \cup trans[t].trader[r].exchg = db[r].pocket

\* The bag of r changed in transaction t, or will, and gs will read it again.
Changed(t, r) ==
    \/ /\ Live(t) /\ trans[t].state \in {"Init", "Confirm", "Null"}
       /\ trans[t].notify /\ trans[t].trader[r].modified
    \/ TradeEnd(t, r, TRUE) \in toGs /\ TradeEnd(t, r, FALSE) \notin toGs

IsStartRe(i, t, r) ==
    toDelivery[i].op = "GTradeStart_Re" /\ toDelivery[i].tid = t /\ toDelivery[i].role = r

PlayerOK(r) ==
    /\ gs[r].state \in {"normal", "wait_trade"} => gs[r].pocket = db[r].pocket
    /\ LogoutPending(r) => gs[r].state = "offline"

TraderOK(t, r) ==
    /\ traderMap[r] = t => NoLateSave(r) /\ (InLock(r, t) \/ gs[r].state = "offline")
    /\ InLock(r, t) => NoLateSave(r) /\ (gs[r].pocket = db[r].pocket \/ Changed(t, r))
    /\ InTrade(r, t, "wait_trade") =>
          traderMap[r] # t /\ \A i \in DOMAIN toDelivery : ~IsStartRe(i, t, r)

\* gs reports once of a player and a trade. When gdeliveryd hears that the player is
\* locked it is, or will be heard to have been dropped.
ReportOK(i, t, r) == IsStartRe(i, t, r) =>
    /\ traderMap[r] # t
    /\ Live(t) => r \in Parties(trans[t])
    /\ Live(t) /\ toDelivery[i].ok =>
          /\ NoLateSave(r)
          /\ InLock(r, t) \/ \E j \in DOMAIN toDelivery : j > i /\ toDelivery[j] = LogoutOf(r)
    /\ \A j \in DOMAIN toDelivery : IsStartRe(j, t, r) => j = i

TransGoods == \A t \in Tid : NamedOK(t) /\ TransOK(t)
RoleOK(r) ==
    /\ PlayerOK(r)
    /\ \A t \in Tid : TraderOK(t, r)
    /\ \A i \in DOMAIN toDelivery, t \in Tid : ReportOK(i, t, r)
    /\ \A m \in rpcs : PutRoleOK(m, r) /\ ReadOK(m, r)

GoodsOK == OneOwner /\ CallsOK /\ OneCall /\ TransGoods /\ \A r \in Role : RoleOK(r)
GInv == IInv /\ (doubt \/ GoodsOK)

-------------------------------------------------------------------------------
(* Whose the goods are: steps of gamedbd *)

LEMMA StampTyped == \A n \in Stamp : n \in Nat
BY DEF Stamp

LEMMA AnswerEffect ==
    ASSUME NEW m \in Rpc, NEW ok \in BOOLEAN, NEW pockets \in [Role -> Pocket],
           Answer(m, ok, pockets), NEW x \in rpcs'
    PROVE  \/ x \in rpcs /\ x # m
           \/ /\ x.op = m.op /\ x.tid = m.tid /\ x.who = m.who /\ x.stamp = m.stamp
              /\ x.waiting = m.waiting /\ m.waiting
              /\ x.at = "caller" /\ x.ok = ok /\ x.pockets = pockets
BY DEF Answer, Rpc

\* The traders whose bags are being saved are attached to the transaction, and locked
\* or dropped.
LEMMA SavedAttached ==
    ASSUME IInv, GoodsOK, NEW m \in rpcs, m.op = "TradeSave"
    PROVE  /\ m.tid \in Tid /\ Live(m.tid) /\ trans[m.tid].notify
           /\ trans[m.tid].state \in {"Init", "Confirm"} /\ m.waiting
           /\ m.who = Parties(trans[m.tid]) /\ m.who \subseteq Role
           /\ \A r \in m.who : /\ traderMap[r] = m.tid /\ NoLateSave(r)
                               /\ InLock(r, m.tid) \/ gs[r].state = "offline"
<1>1. /\ m.waiting /\ Live(m.tid) /\ trans[m.tid].notify
      /\ trans[m.tid].state \in {"Init", "Confirm"} /\ m.who = Parties(trans[m.tid])
  BY DEF GoodsOK, CallsOK, SaveOK
<1>2. m.tid \in Tid
  BY <1>1 DEF IInv, Typed, TidsNamed
<1>3. m.who \subseteq Role
  BY <1>1, <1>2, TransTyped, TransactionFields, PartiesTyped DEF IInv
<1>4. \A r \in m.who : traderMap[r] = m.tid
  BY <1>1, <1>2 DEF GoodsOK, TransGoods, TransOK, Engaged
<1> QED BY <1>1, <1>2, <1>3, <1>4 DEF GoodsOK, RoleOK, TraderOK

\* gamedbd answers, and changes no bag but those that a TradeSave names; what was
\* saved is newer, what was read is what there is.
Answers(m, ok, pockets) ==
    /\ Answer(m, ok, pockets) /\ m.at = "server"
    /\ UNCHANGED <<deliveryVars, gs, toGs, toDelivery>>
    /\ OneOwner'
    /\ \A r \in Role : /\ db[r].stamp <= db'[r].stamp
                       /\ \/ db'[r].pocket = db[r].pocket
                          \/ m.op = "TradeSave" /\ r \in m.who /\ db'[r].pocket = m.pockets[r]
    /\ ok => \A r \in m.who : /\ m.op = "PutRole" => m.stamp <= db'[r].stamp
                              /\ m.op \in {"TradeInventory", "GetMoneyInventory"} =>
                                     pockets[r] = db[r].pocket

\* A bag that changes belongs to a trader of the transaction that is saved.
LEMMA AnswerBags ==
    ASSUME IInv, GoodsOK, NEW m \in rpcs, NEW ok \in BOOLEAN, NEW pockets \in [Role -> Pocket],
           Answers(m, ok, pockets), NEW r \in Role, db'[r].pocket # db[r].pocket
    PROVE  /\ m.op = "TradeSave" /\ r \in m.who /\ db'[r].pocket = m.pockets[r]
           /\ traderMap[r] = m.tid /\ NoLateSave(r)
           /\ InLock(r, m.tid) \/ gs[r].state = "offline"
<1>1. m.op = "TradeSave" /\ r \in m.who /\ db'[r].pocket = m.pockets[r]
  BY DEF Answers
<1> QED BY <1>1, SavedAttached

LEMMA AnswerCalls ==
    ASSUME IInv, IInv', GoodsOK, NEW m \in rpcs, NEW ok \in BOOLEAN,
           NEW pockets \in [Role -> Pocket], Answers(m, ok, pockets)
    PROVE  /\ CallsOK' /\ OneCall'
           /\ \A r \in Role : NoLateSave(r) => NoLateSave(r)'
           /\ \A x \in rpcs', r \in Role : PutRoleOK(x, r)' /\ ReadOK(x, r)'
<1>0. m \in Rpc /\ rpcs \subseteq Rpc
  BY DEF IInv, Typed, TypeOK
<1>1. /\ UNCHANGED <<trans, lastTid, traderMap, gs, toGs, toDelivery>>
      /\ Answer(m, ok, pockets) /\ m.at = "server"
  BY DEF Answers, deliveryVars
<1>2. \A x \in rpcs' : \/ x \in rpcs /\ x # m
           \/ /\ x.op = m.op /\ x.tid = m.tid /\ x.who = m.who /\ x.stamp = m.stamp
              /\ x.waiting = m.waiting /\ m.waiting
              /\ x.at = "caller" /\ x.ok = ok /\ x.pockets = pockets
  BY <1>0, <1>1, AnswerEffect
<1>3. OneCall'
  <2> SUFFICES ASSUME NEW x \in rpcs', NEW n \in rpcs',
                      x.op \in {"TradeInventory", "TradeSave"}, n.op = x.op, n.tid = x.tid
               PROVE  n = x
    BY DEF OneCall
  <2>1. \A y, z \in rpcs : y.op = x.op /\ y.tid = x.tid /\ z.op = x.op /\ z.tid = x.tid => y = z
    BY DEF GoodsOK, OneCall
  <2>2. \A y \in rpcs' : \/ y \in rpcs /\ y # m
                         \/ y = [m EXCEPT !.at = "caller", !.ok = ok, !.pockets = pockets]
    BY <1>1 DEF Answer
  <2> QED BY <1>2, <2>1, <2>2
<1>4. ASSUME NEW x, NEW r \in Role, LateSave(x, r)'
      PROVE  x \in rpcs /\ x # m /\ LateSave(x, r)
  <2>1. x \in rpcs' /\ x.op = "PutRole" /\ x.at = "server" /\ x.who = {r} /\ x.stamp > db'[r].stamp
    BY <1>4 DEF LateSave, At
  <2>2. x \in rpcs /\ x # m
    BY <1>2, <2>1
  <2>3. x.stamp \in Nat /\ db[r].stamp \in Nat /\ db'[r].stamp \in Nat /\ db[r].stamp <= db'[r].stamp
    BY <1>0, <2>2, RpcTyped, GsTyped, StampTyped DEF IInv, Typed, TypeOK, Answers
  <2> QED BY <2>1, <2>2, <2>3 DEF LateSave, At
<1>5. \A r \in Role : NoLateSave(r) => NoLateSave(r)'
  BY <1>4 DEF NoLateSave
<1> SUFFICES ASSUME NEW x \in rpcs'
             PROVE  /\ InventoryOK(x)' /\ SaveOK(x)'
                    /\ \A r \in Role : PutRoleOK(x, r)' /\ ReadOK(x, r)'
  BY <1>3, <1>5 DEF CallsOK
<1>6. PICK n \in rpcs :
         /\ x.op = n.op /\ x.tid = n.tid /\ x.who = n.who /\ x.stamp = n.stamp
         /\ x.waiting = n.waiting
         /\ \/ x = n /\ x # m
            \/ n = m /\ x.at = "caller" /\ x.ok = ok /\ x.pockets = pockets
  BY <1>2
<1>7. /\ InventoryOK(n) /\ SaveOK(n)
      /\ \A r \in Role : PutRoleOK(n, r) /\ ReadOK(n, r)
  BY DEF GoodsOK, CallsOK, RoleOK
<1>8. \A r \in Role : db'[r].pocket # db[r].pocket =>
          /\ m.op = "TradeSave" /\ r \in m.who /\ traderMap[r] = m.tid /\ NoLateSave(r)
          /\ InLock(r, m.tid) \/ gs[r].state = "offline"
          /\ trans[m.tid].state \in {"Init", "Confirm"}
  BY AnswerBags, SavedAttached
<1>9. \A r \in Role : PutRoleOK(x, r)'
  <2> SUFFICES ASSUME NEW r \in Role, x.op = "PutRole", x.who = {r}
               PROVE  /\ LateSave(x, r)' => Has(x, r)' /\ x.stamp <= gs'[r].stamp
                      /\ InTrade(r, x.tid, "wait_trade")' => x.stamp = gs'[r].stamp
                      /\ x.at = "caller" /\ x.ok => x.stamp <= db'[r].stamp
    BY DEF PutRoleOK
  <2>1. LateSave(x, r)' => Has(x, r)' /\ x.stamp <= gs'[r].stamp
    <3> SUFFICES ASSUME LateSave(x, r)' PROVE Has(x, r)' /\ x.stamp <= gs'[r].stamp
      OBVIOUS
    <3>1. x \in rpcs /\ x # m /\ LateSave(x, r)
      BY <1>4
    <3>2. x = n
      BY <1>2, <1>6, <3>1 DEF LateSave, At
    <3>3. db'[r].pocket = db[r].pocket
      BY <1>8, <3>1 DEF NoLateSave
    <3> QED BY <1>1, <1>7, <3>1, <3>2, <3>3 DEF PutRoleOK, Has
  <2>2. InTrade(r, x.tid, "wait_trade")' => x.stamp = gs'[r].stamp
    BY <1>1, <1>6, <1>7 DEF InTrade, PutRoleOK
  <2>3. x.at = "caller" /\ x.ok => x.stamp <= db'[r].stamp
    <3>1. x.stamp \in Nat /\ db[r].stamp \in Nat /\ db'[r].stamp \in Nat /\ db[r].stamp <= db'[r].stamp
      BY <1>0, <1>6, RpcTyped, GsTyped, StampTyped DEF IInv, Typed, TypeOK, Answers
    <3>2. CASE x = n
      BY <1>7, <3>1, <3>2 DEF PutRoleOK
    <3>3. CASE n = m /\ x.ok = ok
      BY <1>6, <3>3 DEF Answers
    <3> QED BY <1>6, <3>2, <3>3
  <2> QED BY <2>1, <2>2, <2>3
<1>10. \A r \in Role : ReadOK(x, r)'
  <2> SUFFICES ASSUME NEW r \in Role, x.op = "GetMoneyInventory", x.who = {r}
               PROVE  /\ x.waiting
                      /\ gs'[r].tid = x.tid => gs'[r].state = "wait_read"
                      /\ gs'[r].tid = x.tid /\ x.at = "caller" /\ x.ok => Has(x, r)'
    BY DEF ReadOK
  <2>1. x.waiting /\ (gs'[r].tid = x.tid => gs'[r].state = "wait_read")
    BY <1>1, <1>6, <1>7 DEF ReadOK
  <2>2. ASSUME gs'[r].tid = x.tid, x.at = "caller", x.ok PROVE Has(x, r)'
    <3>1. db'[r].pocket = db[r].pocket
      BY <1>1, <1>8, <2>1, <2>2 DEF InLock, InTrade
    <3>2. CASE x = n
      BY <1>1, <1>7, <2>2, <3>1, <3>2 DEF ReadOK, Has
    <3>3. CASE n = m /\ x.ok = ok /\ x.pockets = pockets
      BY <1>6, <2>2, <3>1, <3>3 DEF Answers, Has
    <3> QED BY <1>6, <3>2, <3>3
  <2> QED BY <2>1, <2>2
<1>11. InventoryOK(x)'
  <2> SUFFICES ASSUME x.op = "TradeInventory"
               PROVE  /\ x.waiting /\ Live(x.tid)' /\ trans'[x.tid].state = "SetPossession"
                      /\ x.who = Parties(trans[x.tid])'
                      /\ x.at = "caller" /\ x.ok => \A r \in x.who : Has(x, r)'
    BY DEF InventoryOK
  <2>1. /\ x.waiting /\ Live(x.tid) /\ trans[x.tid].state = "SetPossession"
        /\ x.who = Parties(trans[x.tid])
    BY <1>6, <1>7 DEF InventoryOK
  <2>2. x.tid \in Tid
    BY <1>6, <2>1 DEF IInv, Typed, TidsNamed
  <2>3. x.who \subseteq Role /\ \A r \in x.who : traderMap[r] = x.tid
    <3>1. x.who \subseteq Role
      BY <2>1, <2>2, TransTyped, TransactionFields, PartiesTyped DEF IInv
    <3> QED BY <2>1, <2>2, <3>1 DEF GoodsOK, TransGoods, TransOK, Engaged
  <2>4. ASSUME x.at = "caller", x.ok, NEW r \in x.who PROVE Has(x, r)'
    <3>1. db'[r].pocket = db[r].pocket
      BY <1>8, <2>1, <2>3
    <3>2. CASE x = n
      BY <1>7, <2>4, <3>1, <3>2 DEF InventoryOK, Has
    <3>3. CASE n = m /\ x.ok = ok /\ x.pockets = pockets
      BY <1>6, <2>4, <3>1, <3>3 DEF Answers, Has
    <3> QED BY <1>6, <3>2, <3>3
  <2> QED BY <1>1, <2>1, <2>4 DEF Live, Parties
<1>12. SaveOK(x)'
  <2> SUFFICES ASSUME x.op = "TradeSave"
               PROVE  /\ x.waiting /\ Live(x.tid)' /\ trans'[x.tid].notify
                      /\ trans'[x.tid].state \in {"Init", "Confirm"}
                      /\ x.who = Parties(trans[x.tid])'
                      /\ x.at = "server" =>
                            \A r \in x.who : trans'[x.tid].trader[r].modified \/ Has(x, r)'
    BY DEF SaveOK
  <2>1. /\ n.tid \in Tid /\ Live(n.tid) /\ trans[n.tid].notify
        /\ trans[n.tid].state \in {"Init", "Confirm"} /\ n.waiting
        /\ n.who = Parties(trans[n.tid]) /\ n.who \subseteq Role
        /\ \A r \in n.who : traderMap[r] = n.tid
    BY <1>6, SavedAttached
  <2>2. ASSUME x.at = "server", NEW r \in x.who
        PROVE  trans'[x.tid].trader[r].modified \/ Has(x, r)'
    <3>1. x = n /\ x # m /\ r \in Role
      BY <1>6, <2>1, <2>2
    <3>2. db'[r].pocket = db[r].pocket
      BY <1>8, <2>1, <2>2, <3>1 DEF GoodsOK, OneCall
    <3> QED BY <1>1, <1>7, <2>2, <3>1, <3>2 DEF SaveOK, Has
  <2> QED BY <1>1, <1>6, <2>1, <2>2 DEF Live, Parties
<1> QED BY <1>9, <1>10, <1>11, <1>12

LEMMA AnswerRest ==
    ASSUME IInv, IInv', GoodsOK, NEW m \in rpcs, NEW ok \in BOOLEAN,
           NEW pockets \in [Role -> Pocket], Answers(m, ok, pockets)
    PROVE  GoodsOK'
<1>0. m \in Rpc /\ rpcs \subseteq Rpc
  BY DEF IInv, Typed, TypeOK
<1>1. /\ UNCHANGED <<trans, lastTid, traderMap, gs, toGs, toDelivery>> /\ OneOwner'
      /\ Answer(m, ok, pockets) /\ m.at = "server"
  BY DEF Answers, deliveryVars
<1>2. /\ CallsOK' /\ OneCall'
      /\ \A r \in Role : NoLateSave(r) => NoLateSave(r)'
      /\ \A x \in rpcs', r \in Role : PutRoleOK(x, r)' /\ ReadOK(x, r)'
  BY AnswerCalls
<1>3. \A x \in rpcs' : \E n \in rpcs : x.tid = n.tid
  BY <1>0, <1>1, AnswerEffect
<1>4. \A r \in Role : db'[r].pocket # db[r].pocket =>
          /\ m.op = "TradeSave" /\ r \in m.who /\ traderMap[r] = m.tid
          /\ db'[r].pocket = m.pockets[r]
          /\ InLock(r, m.tid) \/ gs[r].state = "offline"
          /\ trans[m.tid].state \in {"Init", "Confirm"} /\ Live(m.tid) /\ trans[m.tid].notify
  BY AnswerBags, SavedAttached
<1>5. ASSUME NEW t \in Tid PROVE NamedOK(t)' /\ TransOK(t)'
  <2>1. NamedOK(t) /\ TransOK(t)
    BY DEF GoodsOK, TransGoods
  <2>2. Untouched(t) => Untouched(t)'
    BY <1>1, <1>3 DEF Untouched
  <2>3. NamedOK(t)'
    BY <1>1, <2>1, <2>2 DEF NamedOK, StartAsked, Live
  <2>4. TransOK(t)'
    <3> SUFFICES ASSUME Live(t), NEW r \in Parties(trans[t]), CanDiscard(trans[t])
                 PROVE  db'[r].pocket = db[r].pocket
      BY <1>1, <2>1 DEF TransOK, Live, Parties, Engaged, Begins, CanDiscard, CanUpdate, CanConfirm
    <3>1. r \in Role /\ traderMap[r] = t
      BY <2>1, CanDiscardLive DEF IInv, TransOK, Engaged
    <3> QED BY <1>4, <3>1 DEF CanDiscard, CanUpdate, CanConfirm
  <2> QED BY <2>3, <2>4
<1>6. ASSUME NEW r \in Role PROVE PlayerOK(r)'
  <2>1. PlayerOK(r)
    BY DEF GoodsOK, RoleOK
  <2>2. gs[r].state \in {"normal", "wait_trade"} => db'[r].pocket = db[r].pocket
    BY <1>4 DEF InLock, InTrade
  <2> QED BY <1>1, <2>1, <2>2 DEF PlayerOK, LogoutPending
<1>7. ASSUME NEW r \in Role, NEW t \in Tid PROVE TraderOK(t, r)'
  <2>1. TraderOK(t, r)
    BY DEF GoodsOK, RoleOK
  <2>2. (InLock(r, t)' <=> InLock(r, t)) /\ (InTrade(r, t, "wait_trade")' <=> InTrade(r, t, "wait_trade"))
    BY <1>1 DEF InLock, InTrade
  <2>3. Changed(t, r)' <=> Changed(t, r)
    BY <1>1 DEF Changed, Live
  <2>4. ASSUME InLock(r, t), db'[r].pocket # db[r].pocket PROVE Changed(t, r)
    <3>1. t = m.tid
      BY <1>4, <2>4 DEF InLock, InTrade
    <3>2. trans[t].trader[r].modified
      BY <1>1, <1>4, <2>4, <3>1 DEF GoodsOK, CallsOK, SaveOK, Has
    <3> QED BY <1>4, <2>4, <3>1, <3>2 DEF Changed
  <2>5. InTrade(r, t, "wait_trade")' => \A i \in DOMAIN toDelivery' : ~IsStartRe(i, t, r)'
    BY <1>1, <2>1, <2>2 DEF TraderOK, IsStartRe
  <2> QED BY <1>1, <1>2, <2>1, <2>2, <2>3, <2>4, <2>5 DEF TraderOK
<1>8. ASSUME NEW i \in DOMAIN toDelivery, NEW t \in Tid, NEW r \in Role PROVE ReportOK(i, t, r)'
  <2>1. ReportOK(i, t, r)
    BY DEF GoodsOK, RoleOK
  <2>2. \A j \in DOMAIN toDelivery : IsStartRe(j, t, r)' <=> IsStartRe(j, t, r)
    BY <1>1 DEF IsStartRe
  <2> QED BY <1>1, <1>2, <2>1, <2>2 DEF ReportOK, InLock, InTrade, Live, Parties
<1>9. TransGoods' /\ \A r \in Role : RoleOK(r)'
  BY <1>1, <1>2, <1>5, <1>6, <1>7, <1>8 DEF TransGoods, RoleOK
<1> QED BY <1>1, <1>2, <1>9 DEF GoodsOK

\* No good is in two of the bags, or in none, that replace bags with as many of it.
LEMMA CopiesOneOwner ==
    ASSUME NEW p \in Role, NEW q \in Role, p # q, NEW g,
           NEW old \in [Role -> Pocket], NEW new \in [Role -> Pocket],
           Copies(g, {p, q}, new) = Copies(g, {p, q}, old)
    PROVE  /\ g \in old[p] /\ g \notin old[q] => (g \in new[p] <=> g \notin new[q])
           /\ g \in old[q] /\ g \notin old[p] => (g \in new[p] <=> g \notin new[q])
           /\ g \notin old[p] /\ g \notin old[q] => g \notin new[p] /\ g \notin new[q]
<1> DEFINE N == {r \in {p, q} : g \in new[r]}
           O == {r \in {p, q} : g \in old[r]}
<1>1. Cardinality(N) = Cardinality(O)
  BY DEF Copies
<1>2. /\ Cardinality({p, q}) = 2 /\ Cardinality({p}) = 1 /\ Cardinality({q}) = 1
      /\ Cardinality({}) = 0
  <2>1. IsFiniteSet({p}) /\ Cardinality({p}) = 1 /\ Cardinality({q}) = 1
    BY FS_Singleton
  <2>2. Cardinality({p} \cup {q}) = Cardinality({p}) + 1
    BY <2>1, FS_AddElement
  <2>3. {p} \cup {q} = {p, q}
    OBVIOUS
  <2> QED BY <2>1, <2>2, <2>3, FS_EmptySet
<1>3. /\ g \in old[p] /\ g \notin old[q] => O = {p}
      /\ g \notin old[p] /\ g \in old[q] => O = {q}
      /\ g \notin old[p] /\ g \notin old[q] => O = {}
  OBVIOUS
<1>4. /\ g \in new[p] /\ g \in new[q] => N = {p, q}
      /\ g \in new[p] /\ g \notin new[q] => N = {p}
      /\ g \notin new[p] /\ g \in new[q] => N = {q}
      /\ g \notin new[p] /\ g \notin new[q] => N = {}
  OBVIOUS
<1> HIDE DEF N, O
<1> QED BY <1>1, <1>2, <1>3, <1>4

LEMMA TradeKeepsOwners ==
    ASSUME IInv, GoodsOK, NEW m \in rpcs, TradeSave_Server(m)
    PROVE  OneOwner'
<1>1. /\ m.op = "TradeSave" /\ m \in Rpc
      /\ \A g \in Goods : Copies(g, m.who, m.pockets) = Copies(g, m.who, [r \in Role |-> db[r].pocket])
      /\ db' = [r \in Role |-> IF r \in m.who THEN [db[r] EXCEPT !.pocket = m.pockets[r]]
                               ELSE db[r]]
  BY DEF TradeSave_Server, At, IInv, Typed, TypeOK
<1>2. PICK p \in Role, q \in Role : p # q /\ m.who = {p, q}
  <2>1. m.tid \in Tid /\ Live(m.tid) /\ m.who = Parties(trans[m.tid])
    BY <1>1, SavedAttached
  <2>2. trans[m.tid].pair \in Pairs
    BY <2>1, TransTyped, TransactionFields DEF IInv
  <2> QED BY <2>1, <2>2, PairTyped DEF Parties
<1> DEFINE old == [r \in Role |-> db[r].pocket]
<1>3. /\ old \in [Role -> Pocket] /\ m.pockets \in [Role -> Pocket]
      /\ \A r \in Role : old[r] = db[r].pocket
      /\ \A r \in Role : db'[r].pocket = IF r \in {p, q} THEN m.pockets[r] ELSE old[r]
  <2>1. \A r \in Role : db[r] \in [pocket: Pocket, stamp: Stamp]
    BY DEF IInv, Typed, TypeOK
  <2> QED BY <1>1, <1>2, <2>1, RpcTyped
<1> HIDE DEF old
<1> SUFFICES ASSUME NEW g \in Goods
             PROVE  \E r \in Role : \A x \in Role : g \in db'[x].pocket <=> x = r
  BY DEF OneOwner
<1>4. PICK r \in Role : \A x \in Role : g \in old[x] <=> x = r
  BY <1>3 DEF GoodsOK, OneOwner
<1>5. Copies(g, {p, q}, m.pockets) = Copies(g, {p, q}, old)
  BY <1>1, <1>2 DEF old
<1>6. /\ g \in old[p] /\ g \notin old[q] => (g \in m.pockets[p] <=> g \notin m.pockets[q])
      /\ g \in old[q] /\ g \notin old[p] => (g \in m.pockets[p] <=> g \notin m.pockets[q])
      /\ g \notin old[p] /\ g \notin old[q] => g \notin m.pockets[p] /\ g \notin m.pockets[q]
  BY <1>2, <1>3, <1>5, CopiesOneOwner
<1>7. CASE r \notin {p, q}
  BY <1>3, <1>4, <1>6, <1>7
<1>8. CASE r \in {p, q}
  <2>1. g \in m.pockets[p] <=> g \notin m.pockets[q]
    BY <1>2, <1>4, <1>6, <1>8
  <2>2. PICK n \in {p, q} : g \in m.pockets[n] /\ \A x \in {p, q} : g \in m.pockets[x] <=> x = n
    BY <1>2, <2>1
  <2> QED BY <1>3, <1>4, <1>8, <2>2
<1> QED BY <1>7, <1>8

LEMMA DatabaseGoods ==
    ASSUME IInv, IInv', GoodsOK, Database
    PROVE  GoodsOK'
<1>0. /\ NoPockets \in [Role -> Pocket] /\ rpcs \subseteq Rpc
      /\ \A r \in Role : /\ db[r].pocket \in Pocket /\ db[r].stamp \in Nat
                         /\ db[r] \in [pocket: Pocket, stamp: Stamp]
      /\ db \in [Role -> [pocket: Pocket, stamp: Stamp]]
  BY NewTraderTyped, GsTyped, StampTyped DEF IInv, Typed, TypeOK
<1>1. ASSUME UNCHANGED db
      PROVE  /\ OneOwner'
             /\ \A r \in Role : db[r].stamp <= db'[r].stamp /\ db'[r].pocket = db[r].pocket
  <2>1. db' = db
    BY <1>1
  <2>2. OneOwner'
    BY <2>1 DEF GoodsOK, OneOwner
  <2>3. \A r \in Role : db[r].stamp <= db[r].stamp
    BY <1>0
  <2> QED BY <2>1, <2>2, <2>3
<1>2. ASSUME NEW m \in rpcs, Fails(m) PROVE Answers(m, FALSE, NoPockets)
  <2>1. /\ Answer(m, FALSE, NoPockets) /\ m.at = "server" /\ UNCHANGED db
        /\ UNCHANGED <<deliveryVars, gs, toGs, toDelivery>>
    BY <1>2 DEF Fails, At
  <2> QED BY <1>1, <2>1 DEF Answers
<1>3. ASSUME NEW m \in rpcs, Read_Server(m)
      PROVE  \E pockets \in [Role -> Pocket] : Answers(m, TRUE, pockets)
  <2> DEFINE pockets == [r \in Role |-> IF r \in m.who THEN db[r].pocket ELSE {}]
  <2>1. /\ Answer(m, TRUE, pockets) /\ m.at = "server" /\ db' = db
        /\ m.op \in {"TradeInventory", "GetMoneyInventory"} /\ m \in Rpc
        /\ UNCHANGED <<deliveryVars, gs, toGs, toDelivery>>
    BY <1>0, <1>3 DEF Read_Server, At
  <2>2. pockets \in [Role -> Pocket] /\ \A r \in m.who : pockets[r] = db[r].pocket
    BY <1>0, <2>1, RpcTyped DEF Pocket
  <2> HIDE DEF pockets
  <2>3. Answers(m, TRUE, pockets)
    BY <1>1, <2>1, <2>2 DEF Answers
  <2> QED BY <2>2, <2>3
<1>4. ASSUME NEW m \in rpcs, TradeSave_Server(m) PROVE Answers(m, TRUE, NoPockets)
  <2>1. OneOwner'
    BY <1>4, TradeKeepsOwners
  <2>2. /\ Answer(m, TRUE, NoPockets) /\ m.at = "server" /\ m.op = "TradeSave" /\ m \in Rpc
        /\ UNCHANGED <<deliveryVars, gs, toGs, toDelivery>>
        /\ db' = [r \in Role |-> IF r \in m.who THEN [db[r] EXCEPT !.pocket = m.pockets[r]]
                                 ELSE db[r]]
    BY <1>0, <1>4 DEF TradeSave_Server, At
  <2>3. \A r \in Role : /\ db[r].stamp <= db'[r].stamp
                        /\ db'[r].pocket = db[r].pocket \/ (r \in m.who /\ db'[r].pocket = m.pockets[r])
    BY <1>0, <2>2
  <2> QED BY <2>1, <2>2, <2>3 DEF Answers
<1>5. ASSUME NEW m \in rpcs, NEW r \in Role, PutRole_Server(m, r) PROVE Answers(m, TRUE, NoPockets)
  <2>1. /\ LateSave(m, r) /\ m \in Rpc
        /\ db' = [db EXCEPT ![r] = [pocket |-> m.pockets[r], stamp |-> m.stamp]]
        /\ Answer(m, TRUE, NoPockets)
        /\ UNCHANGED <<deliveryVars, gs, toGs, toDelivery>>
    BY <1>0, <1>5 DEF PutRole_Server
  <2>2. m.at = "server" /\ m.op = "PutRole" /\ m.who = {r} /\ m.stamp > db[r].stamp /\ m.stamp \in Nat
    BY <2>1, RpcTyped, StampTyped DEF LateSave, At
  <2>3. m.pockets[r] = db[r].pocket
    BY <1>5, <2>1, <2>2 DEF GoodsOK, RoleOK, PutRoleOK, Has
  <2>4. \A x \in Role : db[x].stamp <= db'[x].stamp /\ db'[x].pocket = db[x].pocket
    BY <1>0, <2>1, <2>2, <2>3
  <2>5. OneOwner'
    BY <2>4 DEF GoodsOK, OneOwner
  <2>6. m.stamp <= db'[r].stamp
    BY <1>0, <2>1, <2>2
  <2> QED BY <2>1, <2>2, <2>4, <2>5, <2>6 DEF Answers
<1> QED BY <1>0, <1>2, <1>3, <1>4, <1>5, AnswerRest DEF Database

-------------------------------------------------------------------------------
(* Whose the goods are: steps of the game server *)

\* What gs tells gdeliveryd comes after all it told before.
LEMMA ToldLast ==
    ASSUME Typed, NEW m \in ToDelivery, Told(m)
    PROVE  \E k : /\ DOMAIN toDelivery' = DOMAIN toDelivery \cup {k} /\ k \notin DOMAIN toDelivery
                  /\ toDelivery'[k] = m
                  /\ \A i \in DOMAIN toDelivery : i < k /\ toDelivery'[i] = toDelivery[i]
<1>1. toDelivery \in Seq(ToDelivery) /\ toDelivery' = Append(toDelivery, m)
  BY DEF Typed, TypeOK, Told
<1>2. /\ Len(toDelivery) \in Nat /\ Len(toDelivery') = Len(toDelivery) + 1
      /\ DOMAIN toDelivery = 1 .. Len(toDelivery) /\ DOMAIN toDelivery' = 1 .. Len(toDelivery')
      /\ \A i \in 1 .. Len(toDelivery) : toDelivery'[i] = toDelivery[i]
      /\ toDelivery'[Len(toDelivery) + 1] = m
  BY <1>1
<1> QED BY <1>2

\* The calls of gs that are still there; nobody may wait for a save any more.
Lasting(x) ==
    \/ x \in rpcs
    \/ \E n \in rpcs : /\ x.op = "PutRole" /\ n.op = "PutRole" /\ x.tid = n.tid /\ x.who = n.who
                       /\ x.stamp = n.stamp /\ x.pockets = n.pockets
                       /\ x.at = "server" /\ n.at = "server"

LEMMA FinishedLasts ==
    ASSUME Typed, NEW m \in rpcs, rpcs' = Finished(m), m.op # "TradeSave"
    PROVE  \A x \in rpcs' : Lasting(x)
<1>1. m \in Rpc
  BY DEF Typed, TypeOK
<1> QED BY <1>1 DEF Finished, Lasting, Rpc

\* What a step of gs leaves alone for a role that it is not about.
LEMMA RoleElsewhere ==
    ASSUME NEW r \in Role, RoleOK(r), UNCHANGED <<trans, traderMap, db>>, gs'[r] = gs[r],
           \A x \in rpcs' : x.who = {r} => Lasting(x),
           DOMAIN toDelivery \subseteq DOMAIN toDelivery',
           \A i \in DOMAIN toDelivery : toDelivery'[i] = toDelivery[i],
           \A i \in DOMAIN toDelivery' : i \notin DOMAIN toDelivery => toDelivery'[i].role # r,
           toGs' \subseteq toGs,
           \A t \in Tid : InLock(r, t) /\ TradeEnd(t, r, TRUE) \in toGs => TradeEnd(t, r, TRUE) \in toGs'
    PROVE  RoleOK(r)'
<1>1. /\ PlayerOK(r) /\ \A t \in Tid : TraderOK(t, r)
      /\ \A i \in DOMAIN toDelivery, t \in Tid : ReportOK(i, t, r)
      /\ \A m \in rpcs : PutRoleOK(m, r) /\ ReadOK(m, r)
  BY DEF RoleOK
<1>2. ASSUME NEW x, LateSave(x, r)' PROVE \E n \in rpcs : LateSave(n, r)
  BY <1>2 DEF LateSave, At, Lasting
<1>3. NoLateSave(r) => NoLateSave(r)'
  BY <1>2 DEF NoLateSave
<1>4. LogoutPending(r)' => LogoutPending(r)
  BY DEF LogoutPending, LogoutOf
<1>5. PlayerOK(r)'
  BY <1>1, <1>4 DEF PlayerOK
<1>6. ASSUME NEW t \in Tid
      PROVE  /\ InLock(r, t)' <=> InLock(r, t)
             /\ InTrade(r, t, "wait_trade")' <=> InTrade(r, t, "wait_trade")
             /\ \A i \in DOMAIN toDelivery : IsStartRe(i, t, r)' <=> IsStartRe(i, t, r)
             /\ \A i \in DOMAIN toDelivery' : i \notin DOMAIN toDelivery => ~IsStartRe(i, t, r)'
             /\ Live(t)' <=> Live(t)
             /\ InLock(r, t) /\ Changed(t, r) => Changed(t, r)'
  BY DEF InLock, InTrade, IsStartRe, Live, Changed
<1>7. ASSUME NEW t \in Tid PROVE TraderOK(t, r)'
  BY <1>1, <1>3, <1>6 DEF TraderOK
<1>8. ASSUME NEW i \in DOMAIN toDelivery', NEW t \in Tid PROVE ReportOK(i, t, r)'
  <2> SUFFICES ASSUME IsStartRe(i, t, r)' PROVE ReportOK(i, t, r)'
    BY DEF ReportOK
  <2>1. i \in DOMAIN toDelivery /\ IsStartRe(i, t, r) /\ ReportOK(i, t, r)
    BY <1>1, <1>6
  <2>2. traderMap'[r] # t /\ (Live(t)' => r \in Parties(trans[t])')
    BY <1>6, <2>1 DEF ReportOK, Parties
  <2>3. \A j \in DOMAIN toDelivery' : IsStartRe(j, t, r)' => j = i
    BY <1>6, <2>1 DEF ReportOK
  <2>4. Live(t)' /\ toDelivery'[i].ok =>
           NoLateSave(r)' /\ (InLock(r, t)' \/ \E j \in DOMAIN toDelivery' : j > i /\ toDelivery'[j] = LogoutOf(r)')
    BY <1>3, <1>6, <2>1 DEF ReportOK, LogoutOf
  <2> QED BY <2>2, <2>3, <2>4 DEF ReportOK
<1>9. ASSUME NEW x \in rpcs' PROVE PutRoleOK(x, r)' /\ ReadOK(x, r)'
  <2> SUFFICES ASSUME x.who = {r} PROVE PutRoleOK(x, r)' /\ ReadOK(x, r)'
    BY DEF PutRoleOK, ReadOK
  <2>1. CASE x \in rpcs
    <3>1. LateSave(x, r)' => LateSave(x, r)
      BY <2>1 DEF LateSave, At
    <3>2. PutRoleOK(x, r) /\ ReadOK(x, r)
      BY <1>1, <2>1
    <3> QED BY <3>1, <3>2 DEF PutRoleOK, ReadOK, Has, InTrade
  <2>2. CASE x \notin rpcs
    <3>1. PICK n \in rpcs : /\ x.op = "PutRole" /\ n.op = "PutRole" /\ x.tid = n.tid /\ x.who = n.who
                            /\ x.stamp = n.stamp /\ x.pockets = n.pockets
                            /\ x.at = "server" /\ n.at = "server"
      BY <2>2 DEF Lasting
    <3>2. LateSave(x, r)' => LateSave(n, r)
      BY <3>1 DEF LateSave, At
    <3>3. PutRoleOK(n, r)
      BY <1>1, <3>1
    <3> QED BY <3>1, <3>2, <3>3 DEF PutRoleOK, ReadOK, Has, InTrade
  <2> QED BY <2>1, <2>2
<1> QED BY <1>5, <1>7, <1>8, <1>9 DEF RoleOK

\* A step of gs that names one transaction at most, which was named before, or was
\* asked to start and is not asked again.
LEMMA GsRest ==
    ASSUME IInv, GoodsOK, UNCHANGED <<trans, lastTid, traderMap, db>>, NEW n \in Tid \cup {NoTid},
           \A x \in rpcs' : Lasting(x) \/ (x.op \in {"PutRole", "GetMoneyInventory"} /\ x.tid \in {n, NoTid}),
           \A i \in DOMAIN toDelivery' : \/ i \in DOMAIN toDelivery /\ toDelivery'[i] = toDelivery[i]
                                         \/ toDelivery'[i].tid \in {n, NoTid},
           \A r \in Role : gs'[r].tid \in {n, NoTid, gs[r].tid},
           \A t \in Tid : StartAsked(t)' => StartAsked(t),
           n = NoTid \/ ~Untouched(n) \/ (~(n > lastTid) /\ ~StartAsked(n)')
    PROVE  OneOwner' /\ CallsOK' /\ OneCall' /\ TransGoods'
<1>1. OneOwner'
  BY DEF GoodsOK, OneOwner
<1>2. ASSUME NEW x \in rpcs' PROVE InventoryOK(x)' /\ SaveOK(x)'
  <2> SUFFICES ASSUME x.op \in {"TradeInventory", "TradeSave"} PROVE InventoryOK(x)' /\ SaveOK(x)'
    BY DEF InventoryOK, SaveOK
  <2>1. x \in rpcs
    BY DEF Lasting
  <2>2. InventoryOK(x) /\ SaveOK(x)
    BY <2>1 DEF GoodsOK, CallsOK
  <2> QED BY <2>2 DEF InventoryOK, SaveOK, Live, Parties, Has
<1>3. CallsOK'
  BY <1>2 DEF CallsOK
<1>4. OneCall'
  <2>1. \A x \in rpcs' : x.op \in {"TradeInventory", "TradeSave"} => x \in rpcs
    BY DEF Lasting
  <2> QED BY <2>1 DEF GoodsOK, OneCall
<1>5. ASSUME NEW t \in Tid PROVE NamedOK(t)' /\ TransOK(t)'
  <2>1. NamedOK(t) /\ TransOK(t) /\ t # NoTid
    BY DEF GoodsOK, TransGoods, Tid, NoTid
  <2>2. TransOK(t)'
    BY <2>1 DEF TransOK, Live, Engaged, Begins, CanDiscard, CanUpdate, CanConfirm, Parties
  <2>3. Untouched(t) /\ t # n => Untouched(t)'
    <3> SUFFICES ASSUME Untouched(t), t # n PROVE Untouched(t)'
      OBVIOUS
    <3>1. ASSUME NEW x \in rpcs' PROVE x.tid # t
      BY <2>1 DEF Lasting, Untouched
    <3>2. ASSUME NEW i \in DOMAIN toDelivery' PROVE toDelivery'[i].tid # t
      BY <2>1 DEF Untouched
    <3>3. ASSUME NEW r \in Role PROVE gs'[r].tid # t /\ traderMap'[r] # t
      BY <2>1 DEF Untouched
    <3> QED BY <3>1, <3>2, <3>3 DEF Untouched
  <2>4. NamedOK(t)'
    <3>1. StartAsked(t)' => Live(t)' /\ trans'[t].state = "Init" /\ ~trans'[t].notify
      BY <2>1 DEF NamedOK, Live
    <3>2. t > lastTid' \/ StartAsked(t)' => Untouched(t) /\ t # n
      BY <2>1 DEF NamedOK
    <3> QED BY <2>3, <3>1, <3>2 DEF NamedOK
  <2> QED BY <2>2, <2>4
<1> QED BY <1>1, <1>3, <1>4, <1>5 DEF TransGoods

\* gs locks both players of a trade, whose inventories are those of gamedbd, and saves
\* them; or refuses.
LEMMA StartLocksRole ==
    ASSUME IInv, GoodsOK, NEW t \in Tid, NEW p \in Pairs, Untouched(t),
           NEW r \in {p[1], p[2]}, gs[r].state = "normal", gs[r].stamp < MaxStamp,
           gs'[r] = [gs[r] EXCEPT !.state = "wait_trade", !.tid = t, !.stamp = @ + 1],
           rpcs' = rpcs \cup {PutRole(t, x) : x \in {p[1], p[2]}},
           UNCHANGED <<deliveryVars, db, toDelivery>>
    PROVE  RoleOK(r)'
<1>1. r \in Role /\ gs[r] \in Player /\ gs[r].stamp \in Nat
  BY PairTyped, GsTyped, StampTyped DEF IInv
<1>2. /\ gs'[r].state = "wait_trade" /\ gs'[r].tid = t /\ gs'[r].pocket = gs[r].pocket
      /\ gs'[r].stamp = gs[r].stamp + 1
  BY <1>1 DEF Player
<1>3. UNCHANGED <<trans, traderMap>>
  BY DEF deliveryVars
<1>4. RoleOK(r)
  BY <1>1 DEF GoodsOK
<1>5. gs[r].pocket = db[r].pocket /\ ~LogoutPending(r)
  BY <1>4 DEF RoleOK, PlayerOK
<1>6. PlayerOK(r)'
  BY <1>2, <1>5 DEF PlayerOK, LogoutPending, LogoutOf
<1>7. ASSUME NEW u \in Tid PROVE traderMap[r] # u /\ ~InLock(r, u) /\ ~InLock(r, u)'
  BY <1>2, <1>4, <1>7 DEF RoleOK, TraderOK, InLock, InTrade
<1>8. ASSUME NEW u \in Tid PROVE TraderOK(u, r)'
  <2>1. InTrade(r, u, "wait_trade")' => \A i \in DOMAIN toDelivery' : ~IsStartRe(i, u, r)'
    BY <1>2 DEF InTrade, Untouched, IsStartRe
  <2> QED BY <1>3, <1>7, <2>1 DEF TraderOK
<1>9. ASSUME NEW i \in DOMAIN toDelivery', NEW u \in Tid PROVE ReportOK(i, u, r)'
  <2>1. ReportOK(i, u, r) /\ i \in DOMAIN toDelivery
    BY <1>4 DEF RoleOK
  <2>2. \A j \in DOMAIN toDelivery : IsStartRe(j, u, r)' <=> IsStartRe(j, u, r)
    BY DEF IsStartRe
  <2>3. IsStartRe(i, u, r) => ~(Live(u) /\ toDelivery[i].ok)
    BY <1>5, <1>7, <2>1 DEF ReportOK, LogoutPending
  <2> QED BY <1>3, <2>1, <2>2, <2>3 DEF ReportOK, Live, Parties
<1>10. ASSUME NEW x \in rpcs' PROVE PutRoleOK(x, r)' /\ ReadOK(x, r)'
  <2>1. CASE x \in rpcs
    <3>1. PutRoleOK(x, r) /\ ReadOK(x, r) /\ x.tid # t /\ x.stamp \in Nat
      BY <1>4, <2>1, RpcTyped, StampTyped DEF RoleOK, Untouched, IInv, Typed, TypeOK
    <3>2. LateSave(x, r)' => LateSave(x, r)
      BY <2>1 DEF LateSave, At
    <3> QED BY <1>1, <1>2, <3>1, <3>2 DEF PutRoleOK, ReadOK, InTrade, Has
  <2>2. CASE x \notin rpcs
    <3>1. PICK y \in {p[1], p[2]} : x = PutRole(t, y)
      BY <2>2
    <3>2. y \in Role /\ x.op = "PutRole" /\ x.who = {y} /\ x.at = "server" /\ x.stamp = gs[y].stamp + 1
          /\ x.pockets[y] = gs[y].pocket
      BY <3>1, PairTyped DEF PutRole, Call, NoPockets
    <3> QED BY <1>1, <1>2, <1>5, <3>2 DEF PutRoleOK, ReadOK, Has
  <2> QED BY <2>1, <2>2
<1> QED BY <1>6, <1>8, <1>9, <1>10 DEF RoleOK

\* gs reports on a player that it has not reported on for this trade: that it is
\* locked, or is not.
LEMMA ReportRole ==
    ASSUME IInv, GoodsOK, NEW t \in Tid, NEW r \in Role, NEW ok \in BOOLEAN,
           Told(StartRe(t, r, ok)), UNCHANGED <<deliveryVars, db>>,
           \A u \in Tid, read \in BOOLEAN : TradeEnd(u, r, read) \in toGs' <=> TradeEnd(u, r, read) \in toGs,
           traderMap[r] # t, Live(t) => r \in Parties(trans[t]),
           \A i \in DOMAIN toDelivery : ~IsStartRe(i, t, r),
           \A x \in rpcs' : Lasting(x),
           \/ ~ok /\ ~InTrade(r, t, "wait_trade") /\ UNCHANGED gs
           \/ ~ok /\ InTrade(r, t, "wait_trade") /\ Normalize(r)
           \/ ok /\ InTrade(r, t, "wait_trade") /\ Become(r, "trade") /\ NoLateSave(r)
    PROVE  RoleOK(r)'
<1>0. gs[r] \in Player /\ gs \in [Role -> Player]
  BY GsTyped DEF IInv, Typed, TypeOK
<1>1. UNCHANGED <<trans, traderMap>> /\ RoleOK(r)
  BY DEF deliveryVars, GoodsOK
<1>2. PICK k : /\ DOMAIN toDelivery' = DOMAIN toDelivery \cup {k} /\ k \notin DOMAIN toDelivery
               /\ toDelivery'[k] = StartRe(t, r, ok)
               /\ \A i \in DOMAIN toDelivery : i < k /\ toDelivery'[i] = toDelivery[i]
  <2>1. StartRe(t, r, ok) \in ToDelivery
    BY DEF StartRe, ToDelivery
  <2> QED BY <2>1, ToldLast DEF IInv
<1>3. gs'[r].pocket = gs[r].pocket /\ gs'[r].stamp = gs[r].stamp
  BY <1>0 DEF Normalize, Become, Player
<1>4. ASSUME NEW u \in Tid
      PROVE  /\ InLock(r, u)' => InLock(r, u) \/ (u = t /\ ok)
             /\ InLock(r, u) => InLock(r, u)'
             /\ InTrade(r, u, "wait_trade")' => InTrade(r, u, "wait_trade") /\ u # t
             /\ gs'[r].tid = u => gs[r].tid = u
             /\ gs'[r].tid = u => gs'[r].state = gs[r].state \/ (ok /\ u = t /\ gs[r].state = "wait_trade")
  BY <1>0 DEF InLock, InTrade, Normalize, Become, Player, Tid, NoTid
<1>5. /\ gs'[r].state \in {"normal", "wait_trade"} => gs[r].state \in {"normal", "wait_trade"}
      /\ gs[r].state = "offline" => gs'[r].state = "offline"
  BY <1>0 DEF InTrade, Normalize, Become, Player
<1>6. PlayerOK(r)'
  <2>1. LogoutPending(r)' => LogoutPending(r)
    BY <1>2 DEF LogoutPending, LogoutOf, StartRe
  <2> QED BY <1>1, <1>3, <1>5, <2>1 DEF PlayerOK, RoleOK
<1>7. ASSUME NEW x, LateSave(x, r)' PROVE \E n \in rpcs : LateSave(n, r)
  BY <1>7 DEF LateSave, At, Lasting
<1>8. NoLateSave(r) => NoLateSave(r)'
  BY <1>7 DEF NoLateSave
<1>9. ASSUME NEW u \in Tid
      PROVE  /\ \A i \in DOMAIN toDelivery : IsStartRe(i, u, r)' <=> IsStartRe(i, u, r)
             /\ IsStartRe(k, u, r)' <=> u = t
             /\ Live(u)' <=> Live(u)
             /\ Changed(u, r)' <=> Changed(u, r)
  <2>1. \A read \in BOOLEAN : TradeEnd(u, r, read) \in toGs' <=> TradeEnd(u, r, read) \in toGs
    OBVIOUS
  <2>2. Changed(u, r)' <=> Changed(u, r)
    BY <1>1, <2>1 DEF Live, Changed
  <2> QED BY <1>1, <1>2, <2>2 DEF IsStartRe, StartRe, Live
<1>10. ASSUME NEW u \in Tid PROVE TraderOK(u, r)'
  <2>1. TraderOK(u, r)
    BY <1>1 DEF RoleOK
  <2>2. InTrade(r, u, "wait_trade")' => \A i \in DOMAIN toDelivery' : ~IsStartRe(i, u, r)'
    BY <1>2, <1>4, <1>9, <2>1 DEF TraderOK
  <2>3. u = t /\ ok => NoLateSave(r) /\ gs[r].pocket = db[r].pocket
    BY <1>1 DEF RoleOK, PlayerOK, InTrade
  <2> QED BY <1>1, <1>3, <1>4, <1>5, <1>8, <1>9, <2>1, <2>2, <2>3 DEF TraderOK
<1>11. ASSUME NEW i \in DOMAIN toDelivery', NEW u \in Tid PROVE ReportOK(i, u, r)'
  <2> SUFFICES ASSUME IsStartRe(i, u, r)' PROVE ReportOK(i, u, r)'
    BY DEF ReportOK
  <2>1. CASE i = k
    <3>1. u = t
      BY <1>9, <2>1
    <3>2. \A j \in DOMAIN toDelivery' : IsStartRe(j, u, r)' => j = i
      BY <1>2, <1>9, <2>1, <3>1
    <3>3. toDelivery'[i].ok => ok
      BY <1>2, <2>1 DEF StartRe
    <3>4. ok => NoLateSave(r)' /\ InLock(r, t)'
      BY <1>0, <1>8 DEF InLock, InTrade, Become, Player
    <3> QED BY <1>1, <1>9, <3>1, <3>2, <3>3, <3>4 DEF ReportOK, Parties
  <2>2. CASE i \in DOMAIN toDelivery
    <3>1. ReportOK(i, u, r) /\ IsStartRe(i, u, r) /\ u # t
      BY <1>1, <1>9, <2>2 DEF RoleOK
    <3>2. \A j \in DOMAIN toDelivery' : IsStartRe(j, u, r)' => j = i
      BY <1>2, <1>9, <3>1 DEF ReportOK
    <3>3. Live(u)' /\ toDelivery'[i].ok =>
             /\ NoLateSave(r)'
             /\ InLock(r, u)' \/ \E j \in DOMAIN toDelivery' : j > i /\ toDelivery'[j] = LogoutOf(r)
      BY <1>2, <1>4, <1>8, <1>9, <2>2, <3>1 DEF ReportOK
    <3> QED BY <1>1, <1>9, <3>1, <3>2, <3>3 DEF ReportOK, Parties, LogoutOf
  <2> QED BY <1>2, <2>1, <2>2
<1>12. ASSUME NEW x \in rpcs' PROVE PutRoleOK(x, r)' /\ ReadOK(x, r)'
  <2>1. PICK n \in rpcs :
           /\ x.op = n.op /\ x.tid = n.tid /\ x.who = n.who /\ x.stamp = n.stamp /\ x.pockets = n.pockets
           /\ x = n \/ (x.op = "PutRole" /\ x.at = "server" /\ n.at = "server")
    BY DEF Lasting
  <2>2. PutRoleOK(n, r) /\ ReadOK(n, r)
    BY <1>1 DEF RoleOK
  <2>3. LateSave(x, r)' => LateSave(n, r)
    BY <2>1 DEF LateSave, At
  <2>4. x.op = "GetMoneyInventory" /\ x.who = {r} => x.waiting /\ x.tid \in Tid
    BY <2>1, <2>2 DEF ReadOK, IInv, Typed, TidsNamed
  <2>5. PutRoleOK(x, r)'
    <3>1. x.op = "PutRole" /\ InTrade(r, x.tid, "wait_trade")' => InTrade(r, x.tid, "wait_trade")
      BY <1>0 DEF InTrade, Normalize, Become, Player
    <3> QED BY <1>3, <2>1, <2>2, <2>3, <3>1 DEF PutRoleOK, Has
  <2>6. ReadOK(x, r)'
    BY <1>4, <2>1, <2>2, <2>4 DEF ReadOK, Has
  <2> QED BY <2>5, <2>6
<1> QED BY <1>6, <1>10, <1>11, <1>12 DEF RoleOK

\* gs drops a player.
LEMMA DropRole ==
    ASSUME IInv, GoodsOK, NEW r \in Role, Drop(r), gs[r].state \notin {"normal", "offline"},
           UNCHANGED <<deliveryVars, db>>, \A x \in rpcs' : Lasting(x)
    PROVE  RoleOK(r)'
<1>0. gs[r] \in Player /\ gs \in [Role -> Player]
  BY GsTyped DEF IInv, Typed, TypeOK
<1>1. /\ UNCHANGED <<trans, traderMap>> /\ RoleOK(r)
      /\ gs' = [gs EXCEPT ![r].state = "offline", ![r].tid = NoTid]
  BY DEF deliveryVars, GoodsOK, Drop
<1>2. PICK k : /\ DOMAIN toDelivery' = DOMAIN toDelivery \cup {k} /\ k \notin DOMAIN toDelivery
               /\ toDelivery'[k] = LogoutOf(r)
               /\ \A i \in DOMAIN toDelivery : i < k /\ toDelivery'[i] = toDelivery[i]
  <2>1. LogoutOf(r) \in ToDelivery /\ Told(LogoutOf(r))
    BY DEF LogoutOf, ToDelivery, Drop
  <2> QED BY <2>1, ToldLast DEF IInv
<1>3. /\ gs'[r].state = "offline" /\ gs'[r].tid = NoTid /\ gs'[r].pocket = gs[r].pocket
      /\ gs'[r].stamp = gs[r].stamp
  BY <1>0, <1>1 DEF Player
<1>4. ASSUME NEW x, LateSave(x, r)' PROVE \E n \in rpcs : LateSave(n, r)
  BY <1>4 DEF LateSave, At, Lasting
<1>5. NoLateSave(r) => NoLateSave(r)'
  BY <1>4 DEF NoLateSave
<1>6. PlayerOK(r)'
  BY <1>3 DEF PlayerOK
<1>7. ASSUME NEW u \in Tid
      PROVE  /\ ~InLock(r, u)' /\ ~InTrade(r, u, "wait_trade")'
             /\ \A i \in DOMAIN toDelivery : IsStartRe(i, u, r)' <=> IsStartRe(i, u, r)
             /\ ~IsStartRe(k, u, r)'
             /\ Live(u)' <=> Live(u)
  BY <1>1, <1>2, <1>3 DEF InLock, InTrade, IsStartRe, LogoutOf, Live
<1>8. ASSUME NEW u \in Tid PROVE TraderOK(u, r)'
  BY <1>1, <1>3, <1>5, <1>7 DEF TraderOK, RoleOK
<1>9. ASSUME NEW i \in DOMAIN toDelivery', NEW u \in Tid PROVE ReportOK(i, u, r)'
  <2> SUFFICES ASSUME IsStartRe(i, u, r)' PROVE ReportOK(i, u, r)'
    BY DEF ReportOK
  <2>1. i \in DOMAIN toDelivery /\ ReportOK(i, u, r) /\ IsStartRe(i, u, r)
    BY <1>1, <1>2, <1>7 DEF RoleOK
  <2>2. \A j \in DOMAIN toDelivery' : IsStartRe(j, u, r)' => j = i
    BY <1>2, <1>7, <2>1 DEF ReportOK
  <2>3. k \in DOMAIN toDelivery' /\ k > i /\ toDelivery'[k] = LogoutOf(r)
    BY <1>2, <2>1, SMT
  <2>4. Live(u)' /\ toDelivery'[i].ok => NoLateSave(r)'
    BY <1>2, <1>5, <1>7, <2>1 DEF ReportOK
  <2> QED BY <1>1, <1>7, <2>1, <2>2, <2>3, <2>4 DEF ReportOK, Parties, LogoutOf
<1>10. ASSUME NEW x \in rpcs' PROVE PutRoleOK(x, r)' /\ ReadOK(x, r)'
  <2>1. PICK n \in rpcs :
           /\ x.op = n.op /\ x.tid = n.tid /\ x.who = n.who /\ x.stamp = n.stamp /\ x.pockets = n.pockets
           /\ x = n \/ (x.op = "PutRole" /\ x.at = "server" /\ n.at = "server")
    BY DEF Lasting
  <2>2. PutRoleOK(n, r) /\ ReadOK(n, r)
    BY <1>1 DEF RoleOK
  <2>3. LateSave(x, r)' => LateSave(n, r)
    BY <2>1 DEF LateSave, At
  <2>4. x.op = "GetMoneyInventory" /\ x.who = {r} => x.waiting /\ x.tid # NoTid
    BY <2>1, <2>2 DEF ReadOK, IInv, Typed, TidsNamed, Tid, NoTid
  <2> QED BY <1>3, <2>1, <2>2, <2>3, <2>4 DEF PutRoleOK, ReadOK, Has, InTrade
<1> QED BY <1>6, <1>8, <1>9, <1>10 DEF RoleOK

\* A player that gs has locked leaves the trade, but stays locked until it hears of
\* the end.
LEMMA DiscardRole ==
    ASSUME IInv, GoodsOK, NEW r \in Role, DiscardTrade(r)
    PROVE  RoleOK(r)'
<1>0. gs[r] \in Player /\ gs \in [Role -> Player]
  BY GsTyped DEF IInv, Typed, TypeOK
<1>1. /\ UNCHANGED <<trans, traderMap, db, toGs, rpcs>> /\ RoleOK(r)
      /\ gs' = [gs EXCEPT ![r].state = "wait_complete"] /\ gs[r].state = "trade"
  BY DEF deliveryVars, GoodsOK, DiscardTrade, Become
<1>2. PICK k : /\ DOMAIN toDelivery' = DOMAIN toDelivery \cup {k} /\ k \notin DOMAIN toDelivery
               /\ toDelivery'[k] = DiscardOf(gs[r].tid, r)
               /\ \A i \in DOMAIN toDelivery : i < k /\ toDelivery'[i] = toDelivery[i]
  <2>1. DiscardOf(gs[r].tid, r) \in ToDelivery /\ Told(DiscardOf(gs[r].tid, r))
    BY GsTyped DEF DiscardOf, ToDelivery, DiscardTrade, IInv
  <2> QED BY <2>1, ToldLast DEF IInv
<1>3. /\ gs'[r].state = "wait_complete" /\ gs'[r].tid = gs[r].tid /\ gs'[r].pocket = gs[r].pocket
      /\ gs'[r].stamp = gs[r].stamp
  BY <1>0, <1>1 DEF Player
<1>4. /\ NoLateSave(r) => NoLateSave(r)'
      /\ \A x : LateSave(x, r)' => LateSave(x, r)
  BY <1>1 DEF NoLateSave, LateSave, At
<1>5. PlayerOK(r)'
  <2>1. ~LogoutPending(r)'
    BY <1>1, <1>2 DEF LogoutPending, LogoutOf, DiscardOf, RoleOK, PlayerOK
  <2> QED BY <1>3, <2>1 DEF PlayerOK
<1>6. ASSUME NEW u \in Tid
      PROVE  /\ InLock(r, u)' <=> InLock(r, u)
             /\ ~InTrade(r, u, "wait_trade")'
             /\ \A i \in DOMAIN toDelivery : IsStartRe(i, u, r)' <=> IsStartRe(i, u, r)
             /\ ~IsStartRe(k, u, r)'
             /\ Live(u)' <=> Live(u)
             /\ Changed(u, r)' <=> Changed(u, r)
  BY <1>1, <1>2, <1>3 DEF InLock, InTrade, IsStartRe, DiscardOf, Live, Changed
<1>7. ASSUME NEW u \in Tid PROVE TraderOK(u, r)'
  BY <1>1, <1>3, <1>4, <1>6 DEF TraderOK, RoleOK
<1>8. ASSUME NEW i \in DOMAIN toDelivery', NEW u \in Tid PROVE ReportOK(i, u, r)'
  <2> SUFFICES ASSUME IsStartRe(i, u, r)' PROVE ReportOK(i, u, r)'
    BY DEF ReportOK
  <2>1. i \in DOMAIN toDelivery /\ ReportOK(i, u, r) /\ IsStartRe(i, u, r)
    BY <1>1, <1>2, <1>6 DEF RoleOK
  <2>2. \A j \in DOMAIN toDelivery' : IsStartRe(j, u, r)' => j = i
    BY <1>2, <1>6, <2>1 DEF ReportOK
  <2>3. Live(u)' /\ toDelivery'[i].ok =>
           /\ NoLateSave(r)'
           /\ InLock(r, u)' \/ \E j \in DOMAIN toDelivery' : j > i /\ toDelivery'[j] = LogoutOf(r)
    BY <1>2, <1>4, <1>6, <2>1 DEF ReportOK
  <2> QED BY <1>1, <1>6, <2>1, <2>2, <2>3 DEF ReportOK, Parties, LogoutOf
<1>9. ASSUME NEW x \in rpcs' PROVE PutRoleOK(x, r)' /\ ReadOK(x, r)'
  <2>1. PutRoleOK(x, r) /\ ReadOK(x, r)
    BY <1>1 DEF RoleOK
  <2>2. x.op = "GetMoneyInventory" /\ x.who = {r} => x.tid # gs[r].tid
    BY <1>1, <2>1 DEF ReadOK
  <2> QED BY <1>1, <1>3, <1>4, <2>1, <2>2 DEF PutRoleOK, ReadOK, Has, InTrade
<1> QED BY <1>5, <1>7, <1>8, <1>9 DEF RoleOK

\* A player that no transaction has, or will hear that it is locked.
Free(r) == \A t \in Tid :
    /\ traderMap[r] # t
    /\ \A i \in DOMAIN toDelivery : IsStartRe(i, t, r) => ~(Live(t) /\ toDelivery[i].ok)

LEMMA UnlockedIsFree ==
    ASSUME IInv, GoodsOK, NEW r \in Role, gs[r].state # "offline", \A t \in Tid : Live(t) => ~InLock(r, t)
    PROVE  Free(r) /\ ~LogoutPending(r)
<1>1. RoleOK(r)
  BY DEF GoodsOK
<1>2. ~LogoutPending(r)
  BY <1>1 DEF RoleOK, PlayerOK
<1> SUFFICES ASSUME NEW t \in Tid
             PROVE  /\ traderMap[r] # t
                    /\ \A i \in DOMAIN toDelivery : IsStartRe(i, t, r) => ~(Live(t) /\ toDelivery[i].ok)
  BY <1>2 DEF Free
<1>3. traderMap[r] # t
  BY <1>1 DEF RoleOK, TraderOK, IInv, LocksOK, LockOK
<1>4. ASSUME NEW i \in DOMAIN toDelivery, IsStartRe(i, t, r), Live(t), toDelivery[i].ok PROVE FALSE
  BY <1>1, <1>2, <1>4 DEF RoleOK, ReportOK, LogoutPending
<1> QED BY <1>3, <1>4

\* Such a player may do what it likes, if its inventory is that of gamedbd.
LEMMA FreeRole ==
    ASSUME NEW r \in Role, RoleOK(r), Free(r), UNCHANGED <<trans, traderMap, db, toDelivery>>,
           gs'[r].state \notin {"trade", "wait_complete", "wait_trade"},
           gs'[r].state = "normal" => gs'[r].pocket = db[r].pocket,
           ~LogoutPending(r),
           \A x \in rpcs' : PutRoleOK(x, r)' /\ ReadOK(x, r)'
    PROVE  RoleOK(r)'
<1>1. PlayerOK(r)'
  BY DEF PlayerOK, LogoutPending, LogoutOf
<1>2. ASSUME NEW t \in Tid PROVE TraderOK(t, r)'
  BY DEF TraderOK, InLock, InTrade, Free
<1>3. ASSUME NEW i \in DOMAIN toDelivery', NEW t \in Tid PROVE ReportOK(i, t, r)'
  <2>1. ReportOK(i, t, r) /\ (IsStartRe(i, t, r) => ~(Live(t) /\ toDelivery[i].ok))
    BY DEF RoleOK, Free
  <2>2. \A j \in DOMAIN toDelivery : IsStartRe(j, t, r)' <=> IsStartRe(j, t, r)
    BY DEF IsStartRe
  <2> QED BY <2>1, <2>2 DEF ReportOK, Live, Parties
<1> QED BY <1>1, <1>2, <1>3 DEF RoleOK

\* A step of gs about one player.
LEMMA OnePlayer ==
    ASSUME IInv, GoodsOK, UNCHANGED <<deliveryVars, db>>, NEW d \in Role, RoleOK(d)',
           NEW n \in Tid \cup {NoTid}, n = NoTid \/ ~Untouched(n) \/ (~(n > lastTid) /\ ~StartAsked(n)'),
           \A r \in Role : r # d => gs'[r] = gs[r], gs'[d].tid \in {n, NoTid, gs[d].tid},
           \A x \in rpcs' : \/ Lasting(x)
                            \/ /\ x.op \in {"PutRole", "GetMoneyInventory"} /\ x.who = {d}
                               /\ x.tid \in {n, NoTid},
           \/ UNCHANGED toDelivery
           \/ \E m \in ToDelivery : Told(m) /\ m.role = d /\ m.tid \in {n, NoTid},
           toGs' \subseteq toGs,
           \A t \in Tid, r \in Role : r # d => (TradeEnd(t, r, TRUE) \in toGs => TradeEnd(t, r, TRUE) \in toGs')
    PROVE  GoodsOK'
<1>1. UNCHANGED <<trans, lastTid, traderMap>>
  BY DEF deliveryVars
<1>2. /\ DOMAIN toDelivery \subseteq DOMAIN toDelivery'
      /\ \A i \in DOMAIN toDelivery : toDelivery'[i] = toDelivery[i]
      /\ \A i \in DOMAIN toDelivery' : i \notin DOMAIN toDelivery =>
            toDelivery'[i].role = d /\ toDelivery'[i].tid \in {n, NoTid}
  <2>1. CASE UNCHANGED toDelivery
    BY <2>1
  <2>2. ASSUME NEW m \in ToDelivery, Told(m), m.role = d, m.tid \in {n, NoTid}
        PROVE  /\ DOMAIN toDelivery \subseteq DOMAIN toDelivery'
               /\ \A i \in DOMAIN toDelivery : toDelivery'[i] = toDelivery[i]
               /\ \A i \in DOMAIN toDelivery' : i \notin DOMAIN toDelivery =>
                     toDelivery'[i].role = d /\ toDelivery'[i].tid \in {n, NoTid}
    <3>1. PICK k : /\ DOMAIN toDelivery' = DOMAIN toDelivery \cup {k} /\ k \notin DOMAIN toDelivery
                   /\ toDelivery'[k] = m
                   /\ \A i \in DOMAIN toDelivery : i < k /\ toDelivery'[i] = toDelivery[i]
      BY <2>2, ToldLast DEF IInv
    <3> QED BY <2>2, <3>1
  <2> QED BY <2>1, <2>2
<1>3. ASSUME NEW r \in Role, r # d PROVE RoleOK(r)'
  <2>1. RoleOK(r)
    BY DEF GoodsOK
  <2>2. \A x \in rpcs' : x.who = {r} => Lasting(x)
    BY <1>3
  <2> QED BY <1>1, <1>2, <1>3, <2>1, <2>2, RoleElsewhere
<1>4. OneOwner' /\ CallsOK' /\ OneCall' /\ TransGoods'
  <2>1. ASSUME NEW r \in Role PROVE gs'[r].tid \in {n, NoTid, gs[r].tid}
    <3>1. CASE r = d
      BY <3>1
    <3>2. CASE r # d
      BY <3>2
    <3> QED BY <3>1, <3>2
  <2>2. \A t \in Tid : StartAsked(t)' => StartAsked(t)
    BY DEF StartAsked
  <2>3. \A x \in rpcs' : Lasting(x) \/ (x.op \in {"PutRole", "GetMoneyInventory"} /\ x.tid \in {n, NoTid})
    OBVIOUS
  <2>4. \A i \in DOMAIN toDelivery' : \/ i \in DOMAIN toDelivery /\ toDelivery'[i] = toDelivery[i]
                                      \/ toDelivery'[i].tid \in {n, NoTid}
    BY <1>2
  <2> QED BY <1>1, <2>1, <2>2, <2>3, <2>4, GsRest
<1> QED BY <1>3, <1>4 DEF GoodsOK

\* Nothing happens to a player, though a call ends.
LEMMA NoPlayer ==
    ASSUME IInv, GoodsOK, UNCHANGED <<deliveryVars, db, gs, toDelivery>>,
           \A x \in rpcs' : Lasting(x), toGs' \subseteq toGs,
           \A t \in Tid, r \in Role : InLock(r, t) /\ TradeEnd(t, r, TRUE) \in toGs => TradeEnd(t, r, TRUE) \in toGs'
    PROVE  GoodsOK'
<1>1. UNCHANGED <<trans, lastTid, traderMap>>
  BY DEF deliveryVars
<1>2. ASSUME NEW r \in Role PROVE RoleOK(r)'
  <2>1. RoleOK(r)
    BY DEF GoodsOK
  <2> QED BY <1>1, <2>1, RoleElsewhere
<1>3. \A t \in Tid : StartAsked(t)' => StartAsked(t)
  BY DEF StartAsked
<1>4. OneOwner' /\ CallsOK' /\ OneCall' /\ TransGoods'
  <2>1. /\ \A i \in DOMAIN toDelivery' : i \in DOMAIN toDelivery /\ toDelivery'[i] = toDelivery[i]
        /\ \A r \in Role : gs'[r].tid = gs[r].tid
    OBVIOUS
  <2> DEFINE n == NoTid
  <2>2. n \in Tid \cup {NoTid} /\ n = NoTid
    OBVIOUS
  <2> HIDE DEF n
  <2> QED BY <1>1, <1>3, <2>1, <2>2, GsRest
<1> QED BY <1>2, <1>4 DEF GoodsOK

LEMMA DropGoods ==
    ASSUME IInv, GoodsOK, NEW d \in Role, Drop(d), gs[d].state \notin {"normal", "offline"},
           UNCHANGED <<deliveryVars, db>>, \A x \in rpcs' : Lasting(x), toGs' \subseteq toGs,
           \A t \in Tid, r \in Role : r # d => (TradeEnd(t, r, TRUE) \in toGs => TradeEnd(t, r, TRUE) \in toGs')
    PROVE  GoodsOK'
<1>1. RoleOK(d)'
  BY DropRole
<1>2. /\ gs' = [gs EXCEPT ![d].state = "offline", ![d].tid = NoTid]
      /\ Told(LogoutOf(d))
  BY DEF Drop
<1>3. LogoutOf(d) \in ToDelivery /\ LogoutOf(d).role = d /\ LogoutOf(d).tid = NoTid
  BY DEF LogoutOf, ToDelivery
<1>4. (\A r \in Role : r # d => gs'[r] = gs[r]) /\ gs'[d].tid = NoTid
  BY <1>2, GsTyped DEF IInv, Typed, TypeOK, Player
<1> QED BY <1>1, <1>2, <1>3, <1>4, OnePlayer

LEMMA StartGoods == ASSUME IInv, GoodsOK, NEW m \in toGs, TradeStarts(m) PROVE GoodsOK'
<1> DEFINE t == m.tid
           p == m.pair
<1>1. t \in Tid /\ p \in Pairs /\ m = TradeStart(t, p) /\ toGs' = toGs \ {m} /\ m.op = "GTradeStart"
  BY DEF TradeStarts, IInv, Typed, TypeOK, ToGs, TradeStart
<1>2. /\ UNCHANGED <<deliveryVars, db>>
      /\ \/ /\ \A r \in {p[1], p[2]} : gs[r].state = "normal" /\ gs[r].stamp < MaxStamp
            /\ gs' = [r \in Role |->
                  IF r \in {p[1], p[2]} THEN [gs[r] EXCEPT !.state = "wait_trade", !.tid = t,
                                                           !.stamp = @ + 1]
                  ELSE gs[r]]
            /\ rpcs' = rpcs \cup {PutRole(t, r) : r \in {p[1], p[2]}}
            /\ UNCHANGED toDelivery
         \/ /\ Told(StartRe(t, p[1], FALSE))
            /\ UNCHANGED <<gs, rpcs>>
  BY DEF TradeStarts
<1> HIDE DEF t, p
<1>3. p[1] \in Role /\ p[2] \in Role
  BY <1>1, PairTyped
<1>4. StartAsked(t) /\ NamedOK(t) /\ LockOK(t, p[1])
  BY <1>1, <1>3 DEF StartAsked, GoodsOK, TransGoods, IInv, LocksOK
<1>5. Untouched(t) /\ Live(t) /\ p = trans[t].pair /\ ~(t > lastTid)
  BY <1>1, <1>4 DEF NamedOK, LockOK, Asked, Unknown
<1>6. ~StartAsked(t)'
  BY <1>1, <1>4, <1>5 DEF StartAsked, LockOK, Asked
<1>7. /\ \A u \in Tid, r \in Role, read \in BOOLEAN : TradeEnd(u, r, read) \in toGs' <=> TradeEnd(u, r, read) \in toGs
      /\ toGs' \subseteq toGs
  BY <1>1 DEF TradeEnd
<1>8. UNCHANGED <<trans, lastTid, traderMap>>
  BY <1>2 DEF deliveryVars
<1>9. CASE /\ \A r \in {p[1], p[2]} : gs[r].state = "normal" /\ gs[r].stamp < MaxStamp
           /\ gs' = [r \in Role |->
                 IF r \in {p[1], p[2]} THEN [gs[r] EXCEPT !.state = "wait_trade", !.tid = t,
                                                          !.stamp = @ + 1]
                 ELSE gs[r]]
           /\ rpcs' = rpcs \cup {PutRole(t, r) : r \in {p[1], p[2]}}
           /\ UNCHANGED toDelivery
  <2>0. UNCHANGED <<deliveryVars, db, toDelivery>>
    BY <1>2, <1>9
  <2>1. ASSUME NEW r \in {p[1], p[2]} PROVE RoleOK(r)'
    <3>1. /\ gs[r].state = "normal" /\ gs[r].stamp < MaxStamp
          /\ gs'[r] = [gs[r] EXCEPT !.state = "wait_trade", !.tid = t, !.stamp = @ + 1]
      BY <1>3, <1>9
    <3> QED BY <1>1, <1>5, <1>9, <2>0, <3>1, StartLocksRole
  <2>2. \A x \in rpcs' : x \in rpcs \/ \E y \in {p[1], p[2]} : x.op = "PutRole" /\ x.tid = t /\ x.who = {y}
    BY <1>9 DEF PutRole, Call
  <2>3. ASSUME NEW r \in Role, r \notin {p[1], p[2]} PROVE RoleOK(r)'
    <3>1. RoleOK(r) /\ gs'[r] = gs[r]
      BY <1>9, <2>3 DEF GoodsOK
    <3>2. \A x \in rpcs' : x.who = {r} => Lasting(x)
      BY <2>2, <2>3 DEF Lasting
    <3> QED BY <1>2, <1>7, <1>8, <1>9, <3>1, <3>2, RoleElsewhere
  <2>4. \A r \in Role : gs'[r].tid \in {t, NoTid, gs[r].tid}
    <3> SUFFICES ASSUME NEW r \in Role PROVE gs'[r].tid \in {t, NoTid, gs[r].tid}
      OBVIOUS
    <3>1. gs[r] \in Player
      BY GsTyped DEF IInv
    <3> QED BY <1>9, <3>1 DEF Player
  <2>5. \A u \in Tid : StartAsked(u)' => StartAsked(u)
    BY <1>7 DEF StartAsked
  <2>6. \A x \in rpcs' : Lasting(x) \/ (x.op \in {"PutRole", "GetMoneyInventory"} /\ x.tid \in {t, NoTid})
    <3> SUFFICES ASSUME NEW x \in rpcs', x \notin rpcs
                 PROVE  x.op \in {"PutRole", "GetMoneyInventory"} /\ x.tid \in {t, NoTid}
      BY DEF Lasting
    <3> QED BY <2>2
  <2>7. \A i \in DOMAIN toDelivery' : i \in DOMAIN toDelivery /\ toDelivery'[i] = toDelivery[i]
    BY <1>9
  <2>8. OneOwner' /\ CallsOK' /\ OneCall' /\ TransGoods'
    BY <1>1, <1>2, <1>5, <1>6, <1>8, <2>4, <2>5, <2>6, <2>7, GsRest
  <2> QED BY <2>1, <2>3, <2>8 DEF GoodsOK
<1>10. CASE Told(StartRe(t, p[1], FALSE)) /\ UNCHANGED <<gs, rpcs>>
  <2>1. /\ traderMap[p[1]] # t /\ p[1] \in Parties(trans[t]) /\ ~InTrade(p[1], t, "wait_trade")
        /\ \A i \in DOMAIN toDelivery : ~IsStartRe(i, t, p[1])
    BY <1>3, <1>5 DEF Untouched, Parties, InTrade, IsStartRe
  <2>2. \A x \in rpcs' : Lasting(x)
    BY <1>10 DEF Lasting
  <2>3. RoleOK(p[1])'
    BY <1>1, <1>2, <1>3, <1>7, <1>10, <2>1, <2>2, ReportRole
  <2>4. StartRe(t, p[1], FALSE) \in ToDelivery /\ StartRe(t, p[1], FALSE).role = p[1]
        /\ StartRe(t, p[1], FALSE).tid = t
    BY <1>1, <1>3 DEF StartRe, ToDelivery
  <2>5. (\A r \in Role : gs'[r] = gs[r])
    BY <1>10
  <2> QED BY <1>1, <1>2, <1>3, <1>5, <1>6, <1>7, <1>10, <2>2, <2>3, <2>4, <2>5, OnePlayer
<1> QED BY <1>2, <1>9, <1>10

\* A player that waits for its lock is reported on.
LEMMA ReportGoods ==
    ASSUME IInv, GoodsOK, NEW r \in Role, NEW t \in Tid, InTrade(r, t, "wait_trade"),
           NEW ok \in BOOLEAN, Told(StartRe(t, r, ok)), UNCHANGED <<deliveryVars, db, toGs>>,
           \A x \in rpcs' : Lasting(x),
           \/ ~ok /\ Normalize(r)
           \/ ok /\ Become(r, "trade") /\ NoLateSave(r)
    PROVE  GoodsOK'
<1>1. /\ traderMap[r] # t /\ \A i \in DOMAIN toDelivery : ~IsStartRe(i, t, r)
      /\ Live(t) => r \in Parties(trans[t])
  BY DEF GoodsOK, RoleOK, TraderOK, IInv, LocksOK, LockOK, InTrade
<1>2. RoleOK(r)'
  BY <1>1, ReportRole
<1>3. /\ StartRe(t, r, ok) \in ToDelivery /\ StartRe(t, r, ok).role = r
      /\ StartRe(t, r, ok).tid = t
  BY DEF StartRe, ToDelivery
<1>4. (\A x \in Role : x # r => gs'[x] = gs[x]) /\ gs'[r].tid \in {t, NoTid, gs[r].tid}
  <2>1. gs \in [Role -> Player] /\ gs[r] \in Player
    BY GsTyped DEF IInv, Typed, TypeOK
  <2> QED BY <2>1 DEF Normalize, Become, Player
<1>5. ~Untouched(t)
  BY DEF Untouched, InTrade
<1> QED BY <1>2, <1>3, <1>4, <1>5, OnePlayer

LEMMA PutRoleGoods ==
    ASSUME IInv, GoodsOK, NEW m \in rpcs, NEW r \in Role, NEW ok \in BOOLEAN, PutRoleReturns(m, r, ok)
    PROVE  GoodsOK'
<1>1. /\ m \in Rpc /\ m.op = "PutRole" /\ m.who = {r} /\ (ok => m.at = "caller" /\ m.ok)
      /\ UNCHANGED <<deliveryVars, db, toGs>>
      /\ \A x \in rpcs' : Lasting(x)
  <2>1. m \in Rpc /\ m.op = "PutRole" /\ rpcs' = Finished(m)
    BY DEF PutRoleReturns, Returns, IInv, Typed, TypeOK
  <2> QED BY <2>1, FinishedLasts DEF PutRoleReturns, Returns, IInv
<1>2. CASE /\ InTrade(r, m.tid, "wait_trade")
           /\ IF ok THEN Become(r, "trade") ELSE Normalize(r)
           /\ Told(StartRe(m.tid, r, ok))
  <2>1. m.tid \in Tid
    BY <1>2, GsTyped DEF InTrade, IInv
  <2>2. ASSUME ok, NEW x \in rpcs, LateSave(x, r) PROVE FALSE
    <3>1. PutRoleOK(m, r) /\ PutRoleOK(x, r)
      BY DEF GoodsOK, RoleOK
    <3>2. m.stamp = gs[r].stamp /\ m.stamp <= db[r].stamp
      BY <1>1, <1>2, <2>2, <3>1 DEF PutRoleOK
    <3>3. x.stamp > db[r].stamp /\ x.stamp <= gs[r].stamp
      BY <2>2, <3>1 DEF PutRoleOK, LateSave, At
    <3>4. x.stamp \in Nat /\ gs[r].stamp \in Nat /\ db[r].stamp \in Nat
      BY RpcTyped, GsTyped, StampTyped DEF IInv, Typed, TypeOK
    <3> QED BY <3>2, <3>3, <3>4
  <2>3. \/ ~ok /\ Normalize(r)
        \/ ok /\ Become(r, "trade") /\ NoLateSave(r)
    BY <1>2, <2>2 DEF NoLateSave
  <2> QED BY <1>1, <1>2, <2>1, <2>3, ReportGoods
<1>3. CASE UNCHANGED <<gs, toDelivery>>
  BY <1>1, <1>3, NoPlayer
<1> QED BY <1>2, <1>3 DEF PutRoleReturns

LEMMA LeaveGoods ==
    ASSUME IInv, GoodsOK, NEW r \in Role, LeavesBefore(r) \/ DiscardTrade(r) \/ CompleteTimesOut(r)
    PROVE  GoodsOK'
<1>0. gs \in [Role -> Player] /\ gs[r] \in Player
  BY GsTyped DEF IInv, Typed, TypeOK
<1>1. /\ gs[r].tid \in Tid /\ ~Untouched(gs[r].tid)
      /\ UNCHANGED <<deliveryVars, db, toGs, rpcs>> /\ \A x \in rpcs' : Lasting(x)
  BY GsTyped DEF LeavesBefore, DiscardTrade, CompleteTimesOut, IInv, Untouched, Lasting
<1>2. CASE LeavesBefore(r)
  <2> DEFINE t == gs[r].tid
  <2>1. t \in Tid /\ InTrade(r, t, "wait_trade") /\ Told(StartRe(t, r, FALSE)) /\ Normalize(r)
    BY <1>1, <1>2 DEF LeavesBefore, InTrade
  <2> HIDE DEF t
  <2> QED BY <1>1, <2>1, ReportGoods
<1>3. CASE DiscardTrade(r)
  <2> DEFINE t == gs[r].tid
             m == DiscardOf(t, r)
  <2>1. RoleOK(r)'
    BY <1>3, DiscardRole
  <2>2. m \in ToDelivery /\ Told(m) /\ m.role = r /\ m.tid = t
    BY <1>1, <1>3 DEF DiscardTrade, DiscardOf, ToDelivery
  <2>3. (\A x \in Role : x # r => gs'[x] = gs[x]) /\ gs'[r].tid = t
    BY <1>0, <1>3 DEF DiscardTrade, Become, Player
  <2>4. t \in Tid /\ ~Untouched(t)
    BY <1>1
  <2> HIDE DEF t, m
  <2> QED BY <1>1, <2>1, <2>2, <2>3, <2>4, OnePlayer
<1>4. CASE CompleteTimesOut(r)
  <2>1. Drop(r) /\ gs[r].state = "wait_complete"
    BY <1>4 DEF CompleteTimesOut
  <2> QED BY <1>1, <2>1, DropGoods
<1> QED BY <1>2, <1>3, <1>4

\* A player that is not locked, and stays so.
LEMMA FreeGoods ==
    ASSUME IInv, GoodsOK, NEW r \in Role, Free(r), ~LogoutPending(r),
           UNCHANGED <<deliveryVars, db, toDelivery>>,
           gs'[r].state \notin {"trade", "wait_complete", "wait_trade"},
           gs'[r].state = "normal" => gs'[r].pocket = db[r].pocket,
           \A x \in rpcs' : PutRoleOK(x, r)' /\ ReadOK(x, r)',
           NEW n \in Tid \cup {NoTid}, n = NoTid \/ ~Untouched(n),
           \A x \in Role : x # r => gs'[x] = gs[x], gs'[r].tid \in {n, NoTid, gs[r].tid},
           \A x \in rpcs' : \/ Lasting(x)
                            \/ /\ x.op \in {"PutRole", "GetMoneyInventory"} /\ x.who = {r}
                               /\ x.tid \in {n, NoTid},
           toGs' \subseteq toGs,
           \A t \in Tid, x \in Role : x # r => (TradeEnd(t, x, TRUE) \in toGs => TradeEnd(t, x, TRUE) \in toGs')
    PROVE  GoodsOK'
<1>1. RoleOK(r) /\ UNCHANGED <<trans, traderMap, db, toDelivery>>
  BY DEF GoodsOK, deliveryVars
<1>2. RoleOK(r)'
  BY <1>1, FreeRole
<1> QED BY <1>2, OnePlayer

LEMMA CompleteGoods == ASSUME IInv, GoodsOK, NEW m \in toGs, TradeComplete(m) PROVE GoodsOK'
<1> DEFINE r == m.role
           t == m.tid
<1>1. /\ r \in Role /\ t \in Tid /\ m.read \in BOOLEAN /\ m = TradeEnd(t, r, m.read)
      /\ toGs' = toGs \ {m} /\ UNCHANGED <<deliveryVars, db>>
  BY DEF TradeComplete, IInv, Typed, TypeOK, ToGs, TradeEnd
<1>2. \/ /\ gs[r].state \notin {"wait_trade", "trade", "wait_complete"}
         /\ UNCHANGED <<gs, toDelivery, rpcs, history>>
      \/ /\ gs[r].state \in {"wait_trade", "trade", "wait_complete"}
         /\ \/ gs[r].tid # t /\ Drop(r) /\ UNCHANGED rpcs
            \/ /\ gs[r].tid = t /\ m.read
               /\ Become(r, "wait_read")
               /\ rpcs' = rpcs \cup {Call("GetMoneyInventory", t, {r}, NoPockets)}
               /\ UNCHANGED <<toDelivery, history>>
            \/ /\ gs[r].tid = t /\ ~m.read
               /\ Normalize(r)
               /\ UNCHANGED <<toDelivery, rpcs, history>>
  BY DEF TradeComplete
<1> HIDE DEF r, t
<1>3. toGs' \subseteq toGs /\ \A u \in Tid, x \in Role : x # r => (TradeEnd(u, x, TRUE) \in toGs => TradeEnd(u, x, TRUE) \in toGs')
  BY <1>1 DEF TradeEnd
<1>4. gs \in [Role -> Player] /\ gs[r] \in Player
  BY <1>1, GsTyped DEF IInv, Typed, TypeOK
<1>5. RoleOK(r) /\ LockOK(t, r)
  BY <1>1 DEF GoodsOK, IInv, LocksOK
<1>6. CASE /\ gs[r].state \notin {"wait_trade", "trade", "wait_complete"}
           /\ UNCHANGED <<gs, toDelivery, rpcs, history>>
  <2>1. \A u \in Tid, x \in Role : InLock(x, u) /\ TradeEnd(u, x, TRUE) \in toGs => TradeEnd(u, x, TRUE) \in toGs'
    BY <1>3, <1>6 DEF InLock, InTrade
  <2>2. \A x \in rpcs' : Lasting(x)
    BY <1>6 DEF Lasting
  <2> QED BY <1>1, <1>3, <1>6, <2>1, <2>2, NoPlayer
<1>7. CASE gs[r].state \in {"wait_trade", "trade", "wait_complete"} /\ Drop(r) /\ UNCHANGED rpcs
  <2>1. \A x \in rpcs' : Lasting(x)
    BY <1>7 DEF Lasting
  <2> QED BY <1>1, <1>3, <1>7, <2>1, DropGoods
<1>8. ASSUME gs[r].state \in {"wait_trade", "trade", "wait_complete"}, gs[r].tid = t
      PROVE  /\ ~Live(t) /\ ~Untouched(t) /\ Free(r) /\ ~LogoutPending(r)
             /\ \A x \in rpcs : /\ PutRoleOK(x, r) /\ ReadOK(x, r)
                                /\ x.op = "GetMoneyInventory" /\ x.who = {r} => x.tid # t
  <2>1. ~Live(t) /\ ~Untouched(t)
    BY <1>1, <1>5, <1>8 DEF LockOK, EndTold, Untouched
  <2>2. \A u \in Tid : Live(u) => ~InLock(r, u)
    BY <1>8, <2>1 DEF InLock, InTrade
  <2>3. \A x \in rpcs : PutRoleOK(x, r) /\ ReadOK(x, r)
    BY <1>5 DEF RoleOK
  <2> QED BY <1>1, <1>8, <2>1, <2>2, <2>3, UnlockedIsFree DEF ReadOK
<1>9. CASE /\ gs[r].state \in {"wait_trade", "trade", "wait_complete"} /\ gs[r].tid = t
           /\ Become(r, "wait_read")
           /\ rpcs' = rpcs \cup {Call("GetMoneyInventory", t, {r}, NoPockets)}
           /\ UNCHANGED toDelivery
  <2>1. /\ gs'[r].state = "wait_read" /\ gs'[r].tid = t /\ gs'[r].stamp = gs[r].stamp
        /\ \A x \in Role : x # r => gs'[x] = gs[x]
    BY <1>1, <1>4, <1>9 DEF Become, Player
  <2> DEFINE c == Call("GetMoneyInventory", t, {r}, NoPockets)
  <2>2. c.op = "GetMoneyInventory" /\ c.tid = t /\ c.who = {r} /\ c.waiting /\ c.at = "server"
    BY DEF Call
  <2>3. rpcs' = rpcs \cup {c}
    BY <1>9
  <2> HIDE DEF c
  <2>4. ASSUME NEW x \in rpcs' PROVE PutRoleOK(x, r)' /\ ReadOK(x, r)'
    <3>1. CASE x = c
      BY <2>1, <2>2, <3>1 DEF PutRoleOK, ReadOK
    <3>2. CASE x \in rpcs
      <4>1. PutRoleOK(x, r) /\ ReadOK(x, r) /\ (x.op = "GetMoneyInventory" /\ x.who = {r} => x.tid # t)
        BY <1>8, <1>9, <3>2
      <4>2. LateSave(x, r)' => LateSave(x, r)
        BY <1>1, <3>2 DEF LateSave, At
      <4> QED BY <1>1, <2>1, <4>1, <4>2 DEF PutRoleOK, ReadOK, Has, InTrade
    <3> QED BY <2>3, <3>1, <3>2
  <2>5. \A x \in rpcs' : \/ Lasting(x)
                         \/ /\ x.op \in {"PutRole", "GetMoneyInventory"} /\ x.who = {r}
                            /\ x.tid \in {t, NoTid}
    BY <2>2, <2>3 DEF Lasting
  <2> QED BY <1>1, <1>3, <1>8, <1>9, <2>1, <2>4, <2>5, FreeGoods
<1>10. CASE /\ gs[r].state \in {"wait_trade", "trade", "wait_complete"} /\ gs[r].tid = t /\ ~m.read
            /\ Normalize(r) /\ UNCHANGED <<toDelivery, rpcs>>
  <2>1. /\ gs'[r].state = "normal" /\ gs'[r].tid = NoTid /\ gs'[r].stamp = gs[r].stamp
        /\ gs'[r].pocket = gs[r].pocket /\ \A x \in Role : x # r => gs'[x] = gs[x]
    BY <1>1, <1>4, <1>10 DEF Normalize, Player
  <2>2. gs[r].pocket = db[r].pocket
    <3>1. CASE gs[r].state = "wait_trade"
      BY <1>5, <3>1 DEF RoleOK, PlayerOK
    <3>2. CASE InLock(r, t)
      <4>1. TradeEnd(t, r, FALSE) \in toGs
        BY <1>1, <1>10
      <4>2. ~Changed(t, r)
        BY <1>8, <1>10, <4>1 DEF Changed
      <4> QED BY <1>1, <1>5, <3>2, <4>2 DEF RoleOK, TraderOK
    <3> QED BY <1>10, <3>1, <3>2 DEF InLock, InTrade
  <2>3. ASSUME NEW x \in rpcs' PROVE PutRoleOK(x, r)' /\ ReadOK(x, r)'
    <3>1. PutRoleOK(x, r) /\ ReadOK(x, r) /\ x \in rpcs
      BY <1>8, <1>10
    <3>2. LateSave(x, r)' => LateSave(x, r)
      BY <1>1, <3>1 DEF LateSave, At
    <3>3. x.waiting => x.tid # NoTid
      BY <3>1 DEF IInv, Typed, TidsNamed, Tid, NoTid
    <3> QED BY <1>1, <2>1, <3>1, <3>2, <3>3 DEF PutRoleOK, ReadOK, Has, InTrade
  <2>4. \A x \in rpcs' : Lasting(x)
    BY <1>10 DEF Lasting
  <2> QED BY <1>1, <1>3, <1>8, <1>10, <2>1, <2>2, <2>3, <2>4, FreeGoods
<1> QED BY <1>2, <1>6, <1>7, <1>9, <1>10

LEMMA InventoryGoods ==
    ASSUME IInv, GoodsOK, NEW m \in rpcs, NEW r \in Role, NEW ok \in BOOLEAN, InventoryReturns(m, r, ok)
    PROVE  GoodsOK'
<1>1. /\ m \in Rpc /\ m.op = "GetMoneyInventory" /\ m.who = {r} /\ (ok => m.at = "caller" /\ m.ok)
      /\ UNCHANGED <<deliveryVars, db, toGs>>
      /\ \A x \in rpcs' : Lasting(x)
  <2>1. m \in Rpc /\ m.op = "GetMoneyInventory" /\ rpcs' = Finished(m)
    BY DEF InventoryReturns, Returns, IInv, Typed, TypeOK
  <2> QED BY <2>1, FinishedLasts DEF InventoryReturns, Returns, IInv
<1>2. \/ /\ InTrade(r, m.tid, "wait_read")
         /\ \/ /\ ok
               /\ gs' = [gs EXCEPT ![r].state = "normal", ![r].tid = NoTid,
                                  ![r].pocket = m.pockets[r]]
               /\ UNCHANGED <<toDelivery, history>>
            \/ ~ok /\ Drop(r)
      \/ UNCHANGED <<gs, toDelivery>>
  BY DEF InventoryReturns
<1>3. CASE UNCHANGED <<gs, toDelivery>>
  BY <1>1, <1>3, NoPlayer
<1>4. CASE InTrade(r, m.tid, "wait_read") /\ Drop(r)
  BY <1>1, <1>4, DropGoods DEF InTrade
<1>5. CASE /\ InTrade(r, m.tid, "wait_read") /\ ok
           /\ gs' = [gs EXCEPT ![r].state = "normal", ![r].tid = NoTid, ![r].pocket = m.pockets[r]]
           /\ UNCHANGED toDelivery
  <2>0. gs \in [Role -> Player] /\ gs[r] \in Player
    BY GsTyped DEF IInv, Typed, TypeOK
  <2>1. /\ gs'[r].state = "normal" /\ gs'[r].tid = NoTid /\ gs'[r].stamp = gs[r].stamp
        /\ gs'[r].pocket = m.pockets[r] /\ \A x \in Role : x # r => gs'[x] = gs[x]
    BY <1>5, <2>0 DEF Player
  <2>2. \A x \in rpcs : PutRoleOK(x, r) /\ ReadOK(x, r)
    BY DEF GoodsOK, RoleOK
  <2>3. m.pockets[r] = db[r].pocket
    BY <1>1, <1>5, <2>2 DEF ReadOK, InTrade, Has
  <2>4. Free(r) /\ ~LogoutPending(r)
    BY <1>5, UnlockedIsFree DEF InLock, InTrade
  <2>5. ASSUME NEW x \in rpcs' PROVE PutRoleOK(x, r)' /\ ReadOK(x, r)'
    <3>1. PICK n \in rpcs :
             /\ x.op = n.op /\ x.tid = n.tid /\ x.who = n.who /\ x.stamp = n.stamp /\ x.pockets = n.pockets
             /\ x = n \/ (x.op = "PutRole" /\ x.at = "server" /\ n.at = "server")
      BY <1>1 DEF Lasting
    <3>2. PutRoleOK(n, r) /\ ReadOK(n, r)
      BY <2>2
    <3>3. LateSave(x, r)' => LateSave(n, r)
      BY <1>1, <3>1 DEF LateSave, At
    <3>4. x.op = "GetMoneyInventory" /\ x.who = {r} => x.waiting /\ x.tid # NoTid
      BY <3>1, <3>2 DEF ReadOK, IInv, Typed, TidsNamed, Tid, NoTid
    <3> QED BY <1>1, <2>1, <3>1, <3>2, <3>3, <3>4 DEF PutRoleOK, ReadOK, Has, InTrade
  <2> QED BY <1>1, <1>5, <2>1, <2>3, <2>4, <2>5, FreeGoods
<1> QED BY <1>2, <1>3, <1>4, <1>5

\* A player that comes back for good, as nothing of it can still be written.
LEMMA LoginGoods == ASSUME IInv, GoodsOK, NEW r \in Role, Login(r), ~doubt' PROVE GoodsOK'
<1>1. /\ gs[r].state = "offline" /\ ~LogoutPending(r)
      /\ gs' = [gs EXCEPT ![r] = [state |-> "normal", tid |-> NoTid,
                                 pocket |-> db[r].pocket, stamp |-> db[r].stamp]]
      /\ traderMap[r] = NoTid /\ NoLateSave(r)
      /\ UNCHANGED <<deliveryVars, db, toGs, toDelivery, rpcs>>
  BY DEF Login, NoLateSave
<1>2. /\ gs'[r].state = "normal" /\ gs'[r].tid = NoTid /\ gs'[r].pocket = db[r].pocket
      /\ \A x \in Role : x # r => gs'[x] = gs[x]
  BY <1>1 DEF IInv, Typed, TypeOK
<1>3. RoleOK(r)
  BY DEF GoodsOK
<1>4. Free(r)
  <2> SUFFICES ASSUME NEW t \in Tid
               PROVE  /\ traderMap[r] # t
                      /\ \A i \in DOMAIN toDelivery : IsStartRe(i, t, r) => ~(Live(t) /\ toDelivery[i].ok)
    BY DEF Free
  <2>1. traderMap[r] # t
    BY <1>1 DEF Tid, NoTid
  <2>2. ~InLock(r, t)
    BY <1>1 DEF InLock, InTrade
  <2> QED BY <1>1, <1>3, <2>1, <2>2 DEF RoleOK, ReportOK, LogoutPending
<1>5. ASSUME NEW x \in rpcs' PROVE PutRoleOK(x, r)' /\ ReadOK(x, r)'
  <2>1. PutRoleOK(x, r) /\ ReadOK(x, r) /\ x \in rpcs
    BY <1>1, <1>3 DEF RoleOK
  <2>2. ~LateSave(x, r)'
    BY <1>1, <2>1 DEF NoLateSave, LateSave, At
  <2>3. x.waiting => x.tid # NoTid
    BY <2>1 DEF IInv, Typed, TidsNamed, Tid, NoTid
  <2> QED BY <1>1, <1>2, <2>1, <2>2, <2>3 DEF PutRoleOK, ReadOK, Has, InTrade
<1>6. \A x \in rpcs' : Lasting(x)
  BY <1>1 DEF Lasting
<1> DEFINE n == NoTid
<1>7. n \in Tid \cup {NoTid} /\ n = NoTid
  OBVIOUS
<1> HIDE DEF n
<1> QED BY <1>1, <1>2, <1>4, <1>5, <1>6, <1>7, FreeGoods

LEMMA SaveGoods == ASSUME IInv, GoodsOK, NEW r \in Role, Save(r) PROVE GoodsOK'
<1> DEFINE c == PutRole(NoTid, r)
<1>1. /\ gs[r].state = "normal" /\ gs' = [gs EXCEPT ![r].stamp = @ + 1]
      /\ rpcs' = rpcs \cup {c} /\ UNCHANGED <<deliveryVars, db, toGs, toDelivery>>
  BY DEF Save
<1>2. /\ c.op = "PutRole" /\ c.tid = NoTid /\ c.who = {r} /\ c.pockets[r] = gs[r].pocket
      /\ c.stamp = gs[r].stamp + 1 /\ c.at = "server"
  BY DEF PutRole, Call, NoPockets
<1> HIDE DEF c
<1>3. /\ gs'[r].state = "normal" /\ gs'[r].tid = gs[r].tid /\ gs'[r].pocket = gs[r].pocket
      /\ gs'[r].stamp = gs[r].stamp + 1 /\ gs[r].stamp \in Nat
      /\ \A x \in Role : x # r => gs'[x] = gs[x]
  <2>1. gs \in [Role -> Player] /\ gs[r] \in Player /\ gs[r].stamp \in Nat
    BY GsTyped, StampTyped DEF IInv, Typed, TypeOK
  <2> QED BY <1>1, <2>1 DEF Player
<1>4. RoleOK(r) /\ gs[r].pocket = db[r].pocket
  BY <1>1 DEF GoodsOK, RoleOK, PlayerOK
<1>5. Free(r) /\ ~LogoutPending(r)
  BY <1>1, UnlockedIsFree DEF InLock, InTrade
<1>6. ASSUME NEW x \in rpcs' PROVE PutRoleOK(x, r)' /\ ReadOK(x, r)'
  <2>1. CASE x \in rpcs
    <3>1. PutRoleOK(x, r) /\ ReadOK(x, r) /\ x.stamp \in Nat
      BY <1>4, <2>1, RpcTyped, StampTyped DEF RoleOK, IInv, Typed, TypeOK
    <3>2. LateSave(x, r)' => LateSave(x, r)
      BY <1>1, <2>1 DEF LateSave, At
    <3> QED BY <1>1, <1>3, <3>1, <3>2 DEF PutRoleOK, ReadOK, Has, InTrade
  <2>2. CASE x = c
    BY <1>1, <1>2, <1>3, <1>4, <2>2 DEF PutRoleOK, ReadOK, Has, InTrade
  <2> QED BY <1>1, <2>1, <2>2
<1> DEFINE n == NoTid
<1>7. n \in Tid \cup {NoTid} /\ n = NoTid
  OBVIOUS
<1>8. \A x \in rpcs' : \/ Lasting(x)
                       \/ /\ x.op \in {"PutRole", "GetMoneyInventory"} /\ x.who = {r}
                          /\ x.tid \in {n, NoTid}
  BY <1>1, <1>2 DEF Lasting
<1> HIDE DEF n
<1> QED BY <1>1, <1>3, <1>4, <1>5, <1>6, <1>7, <1>8, FreeGoods

LEMMA GameServerGoods == ASSUME IInv, GoodsOK, GameServer, ~doubt' PROVE GoodsOK'
BY StartGoods, CompleteGoods, PutRoleGoods, InventoryGoods, LeaveGoods, LoginGoods, SaveGoods
   DEF GameServer

-------------------------------------------------------------------------------
(* Whose the goods are: steps of gdeliveryd *)

\* What gdeliveryd has not heard yet moves up, in order.
HeardOrNot == UNCHANGED toDelivery \/ \E m : Heard(m)
MovesUp(k) == \A i \in DOMAIN toDelivery' :
    /\ i \in Nat /\ i + k \in DOMAIN toDelivery /\ toDelivery'[i] = toDelivery[i + k]
    /\ \A j \in DOMAIN toDelivery : j > i + k =>
          \E l \in DOMAIN toDelivery' : l > i /\ toDelivery'[l] = toDelivery[j]

LEMMA HeardMoves ==
    ASSUME Typed, HeardOrNot
    PROVE  \E k \in {0, 1} : MovesUp(k)
<1>1. /\ toDelivery \in Seq(ToDelivery) /\ DOMAIN toDelivery = 1 .. Len(toDelivery)
      /\ Len(toDelivery) \in Nat
  BY DEF Typed, TypeOK
<1>2. CASE UNCHANGED toDelivery
  <2>1. \A i \in DOMAIN toDelivery' : i \in Nat /\ i + 0 = i
    BY <1>1, <1>2
  <2> QED BY <1>2, <2>1 DEF MovesUp
<1>3. ASSUME NEW m, Heard(m) PROVE MovesUp(1)
  <2>1. /\ Len(toDelivery') = Len(toDelivery) - 1
        /\ DOMAIN toDelivery' = 1 .. Len(toDelivery') /\ Len(toDelivery) >= 1
        /\ \A i \in 1 .. Len(toDelivery') : toDelivery'[i] = toDelivery[i + 1]
    BY <1>1, <1>3 DEF Heard
  <2> SUFFICES ASSUME NEW i \in DOMAIN toDelivery'
               PROVE  /\ i \in Nat /\ i + 1 \in DOMAIN toDelivery /\ toDelivery'[i] = toDelivery[i + 1]
                      /\ \A j \in DOMAIN toDelivery : j > i + 1 =>
                            \E l \in DOMAIN toDelivery' : l > i /\ toDelivery'[l] = toDelivery[j]
    BY DEF MovesUp
  <2>2. i \in Nat /\ i + 1 \in DOMAIN toDelivery /\ toDelivery'[i] = toDelivery[i + 1]
    BY <1>1, <2>1
  <2>3. ASSUME NEW j \in DOMAIN toDelivery, j > i + 1
        PROVE  j - 1 \in DOMAIN toDelivery' /\ j - 1 > i /\ toDelivery'[j - 1] = toDelivery[j]
    <3>1. j - 1 \in 1 .. Len(toDelivery') /\ j - 1 > i /\ (j - 1) + 1 = j
      BY <1>1, <2>1, <2>2, <2>3
    <3> QED BY <2>1, <3>1
  <2> QED BY <2>2, <2>3
<1> QED BY <1>2, <1>3 DEF HeardOrNot

\* What a step of gdeliveryd means for a role. It may forget the role, or attach it to a
\* transaction that it is locked for.
Attached(r, t) ==
    /\ NoLateSave(r) /\ ~InTrade(r, t, "wait_trade")
    /\ InLock(r, t) \/ gs[r].state = "offline"

LEMMA DeliveryRole ==
    ASSUME NEW r \in Role, Typed, RoleOK(r), UNCHANGED <<gs, db>>, HeardOrNot,
           \A x \in rpcs' : x.op \in {"PutRole", "GetMoneyInventory"} => x \in rpcs,
           \A t \in Tid : Live(t)' => Untouched(t) \/ (Live(t) /\ trans'[t].pair = trans[t].pair),
           \A t \in Tid : InLock(r, t) /\ Changed(t, r) => Changed(t, r)',
           NEW u \in Tid \cup {NoTid}, traderMap'[r] = u,
           \/ u \in {traderMap[r], NoTid}
           \/ Attached(r, u) /\ \A i \in DOMAIN toDelivery' : ~IsStartRe(i, u, r)'
    PROVE  RoleOK(r)'
<1>1. /\ PlayerOK(r) /\ \A t \in Tid : TraderOK(t, r)
      /\ \A i \in DOMAIN toDelivery, t \in Tid : ReportOK(i, t, r)
      /\ \A m \in rpcs : PutRoleOK(m, r) /\ ReadOK(m, r)
  BY DEF RoleOK
<1>2. PICK k \in {0, 1} : MovesUp(k)
  BY HeardMoves
<1>3. ASSUME NEW x, LateSave(x, r)' PROVE LateSave(x, r)
  BY <1>3 DEF LateSave, At
<1>4. NoLateSave(r) => NoLateSave(r)'
  BY <1>3 DEF NoLateSave, LateSave, At
<1>5. PlayerOK(r)'
  <2>1. LogoutPending(r)' => LogoutPending(r)
    BY <1>2 DEF LogoutPending, LogoutOf, MovesUp
  <2> QED BY <1>1, <2>1 DEF PlayerOK
<1>6. ASSUME NEW t \in Tid
      PROVE  /\ InLock(r, t)' <=> InLock(r, t)
             /\ InTrade(r, t, "wait_trade")' <=> InTrade(r, t, "wait_trade")
             /\ \A i \in DOMAIN toDelivery' :
                   i + k \in DOMAIN toDelivery /\ (IsStartRe(i, t, r)' <=> IsStartRe(i + k, t, r))
  BY <1>2 DEF InLock, InTrade, IsStartRe, MovesUp
<1>7. ASSUME NEW t \in Tid, traderMap'[r] = t, traderMap[r] # t
      PROVE  u = t /\ Attached(r, t) /\ \A i \in DOMAIN toDelivery' : ~IsStartRe(i, t, r)'
  BY <1>7 DEF Tid, NoTid
<1>8. ASSUME NEW t \in Tid PROVE TraderOK(t, r)'
  <2>1. TraderOK(t, r)
    BY <1>1
  <2>2. InTrade(r, t, "wait_trade")' => \A i \in DOMAIN toDelivery' : ~IsStartRe(i, t, r)'
    BY <1>6, <2>1 DEF TraderOK
  <2> QED BY <1>4, <1>6, <1>7, <2>1, <2>2 DEF TraderOK, Attached
<1>9. ASSUME NEW i \in DOMAIN toDelivery', NEW t \in Tid PROVE ReportOK(i, t, r)'
  <2> SUFFICES ASSUME IsStartRe(i, t, r)' PROVE ReportOK(i, t, r)'
    BY DEF ReportOK
  <2>1. /\ i + k \in DOMAIN toDelivery /\ IsStartRe(i + k, t, r) /\ ReportOK(i + k, t, r)
        /\ toDelivery'[i] = toDelivery[i + k]
    BY <1>1, <1>2, <1>6 DEF MovesUp
  <2>2. traderMap'[r] # t
    BY <1>7, <2>1 DEF ReportOK
  <2>3. ~Untouched(t)
    BY <2>1 DEF Untouched, IsStartRe
  <2>4. Live(t)' => Live(t) /\ r \in Parties(trans[t])'
    BY <2>1, <2>3 DEF ReportOK, Parties
  <2>5. \A j \in DOMAIN toDelivery' : IsStartRe(j, t, r)' => j = i
    <3> SUFFICES ASSUME NEW j \in DOMAIN toDelivery', IsStartRe(j, t, r)' PROVE j = i
      OBVIOUS
    <3>1. j + k = i + k
      BY <1>6, <2>1 DEF ReportOK
    <3>2. i \in Nat /\ j \in Nat /\ k \in Nat
      BY <1>2 DEF MovesUp
    <3> QED BY <3>1, <3>2
  <2>6. Live(t)' /\ toDelivery'[i].ok =>
           NoLateSave(r)' /\ (InLock(r, t)' \/ \E j \in DOMAIN toDelivery' : j > i /\ toDelivery'[j] = LogoutOf(r)')
    <3> SUFFICES ASSUME Live(t)', toDelivery'[i].ok
                 PROVE  NoLateSave(r)' /\ (InLock(r, t)' \/ \E j \in DOMAIN toDelivery' : j > i /\ toDelivery'[j] = LogoutOf(r)')
      OBVIOUS
    <3>1. /\ NoLateSave(r)
          /\ InLock(r, t) \/ \E j \in DOMAIN toDelivery : j > i + k /\ toDelivery[j] = LogoutOf(r)
      BY <2>1, <2>4 DEF ReportOK
    <3>2. CASE InLock(r, t)
      BY <1>4, <1>6, <3>1, <3>2
    <3>3. ASSUME NEW j \in DOMAIN toDelivery, j > i + k, toDelivery[j] = LogoutOf(r)
          PROVE  \E l \in DOMAIN toDelivery' : l > i /\ toDelivery'[l] = LogoutOf(r)'
      BY <1>2, <3>3 DEF MovesUp, LogoutOf
    <3> QED BY <1>4, <3>1, <3>2, <3>3
  <2> QED BY <2>2, <2>4, <2>5, <2>6 DEF ReportOK
<1>10. ASSUME NEW x \in rpcs' PROVE PutRoleOK(x, r)' /\ ReadOK(x, r)'
  <2> SUFFICES ASSUME x.op \in {"PutRole", "GetMoneyInventory"} PROVE PutRoleOK(x, r)' /\ ReadOK(x, r)'
    BY DEF PutRoleOK, ReadOK
  <2>1. x \in rpcs /\ PutRoleOK(x, r) /\ ReadOK(x, r)
    BY <1>1
  <2> QED BY <1>3, <2>1 DEF PutRoleOK, ReadOK, Has, InTrade
<1> QED BY <1>5, <1>8, <1>9, <1>10 DEF RoleOK

\* A step of gdeliveryd about transaction n, that was known before.
LEMMA OneTransaction ==
    ASSUME IInv, GoodsOK, NEW n \in Tid, UNCHANGED <<lastTid, gs, db>>, HeardOrNot,
           \A t \in Tid : t # n => trans'[t] = trans[t],
           ~(n > lastTid), ~StartAsked(n), TransOK(n)',
           Live(n)' => Live(n) /\ trans'[n].pair = trans[n].pair,
           \A x \in rpcs : x \in rpcs' /\ x.tid = n => InventoryOK(x)' /\ SaveOK(x)',
           \A x \in rpcs' : x \notin rpcs =>
               /\ x.tid = n /\ x.op \in {"TradeInventory", "TradeSave"} /\ InventoryOK(x)' /\ SaveOK(x)'
               /\ \A y \in rpcs' : y.op = x.op /\ y.tid = n => y = x,
           toGs \subseteq toGs',
           \A x \in toGs' : x \notin toGs => \E r \in Role, read \in BOOLEAN : x = TradeEnd(n, r, read),
           \A r \in Role : InLock(r, n) /\ Changed(n, r) => Changed(n, r)',
           \A r \in Role :
               \/ traderMap'[r] = traderMap[r]
               \/ traderMap[r] \in {n, NoTid} /\ traderMap'[r] = NoTid
               \/ /\ traderMap[r] \in {n, NoTid} /\ traderMap'[r] = n /\ Attached(r, n)
                  /\ \A i \in DOMAIN toDelivery' : ~IsStartRe(i, n, r)'
    PROVE  GoodsOK'
<1>0. Typed /\ traderMap \in [Role -> {NoTid} \cup Tid] /\ n # NoTid
  BY DEF IInv, Typed, TypeOK, Tid, NoTid
<1>1. ASSUME NEW r \in Role PROVE RoleOK(r)'
  <2>1. RoleOK(r)
    BY DEF GoodsOK
  <2>2. \A x \in rpcs' : x.op \in {"PutRole", "GetMoneyInventory"} => x \in rpcs
    OBVIOUS
  <2>3. \A t \in Tid : Live(t)' => Untouched(t) \/ (Live(t) /\ trans'[t].pair = trans[t].pair)
    BY DEF Live
  <2>4. ASSUME NEW t \in Tid, InLock(r, t), Changed(t, r) PROVE Changed(t, r)'
    <3>1. CASE t = n
      BY <2>4, <3>1
    <3>2. CASE t # n
      <4>1. \A read \in BOOLEAN : TradeEnd(t, r, read) \in toGs' <=> TradeEnd(t, r, read) \in toGs
        BY <3>2 DEF TradeEnd
      <4> QED BY <2>4, <3>2, <4>1 DEF Changed, Live
    <3> QED BY <3>1, <3>2
  <2>5. PICK u \in Tid \cup {NoTid} :
           /\ traderMap'[r] = u
           /\ \/ u \in {traderMap[r], NoTid}
              \/ Attached(r, u) /\ \A i \in DOMAIN toDelivery' : ~IsStartRe(i, u, r)'
    <3>1. CASE traderMap'[r] = traderMap[r]
      BY <1>0, <3>1
    <3>2. CASE traderMap'[r] = NoTid
      BY <3>2
    <3>3. CASE /\ traderMap'[r] = n /\ Attached(r, n)
               /\ \A i \in DOMAIN toDelivery' : ~IsStartRe(i, n, r)'
      BY <3>3
    <3> QED BY <3>1, <3>2, <3>3
  <2> QED BY <1>0, <2>1, <2>2, <2>3, <2>4, <2>5, DeliveryRole
<1>2. OneOwner'
  BY DEF GoodsOK, OneOwner
<1>3. ASSUME NEW x \in rpcs' PROVE InventoryOK(x)' /\ SaveOK(x)'
  <2>1. CASE x \notin rpcs \/ x.tid = n
    BY <2>1
  <2>2. CASE x \in rpcs /\ x.tid # n
    <3>1. InventoryOK(x) /\ SaveOK(x)
      BY <2>2 DEF GoodsOK, CallsOK
    <3>2. CASE x.op \in {"TradeInventory", "TradeSave"}
      <4>1. x.tid \in Tid
        BY <2>2, <3>1, <3>2 DEF InventoryOK, SaveOK, IInv, Typed, TidsNamed
      <4> QED BY <2>2, <3>1, <4>1 DEF InventoryOK, SaveOK, Live, Parties, Has
    <3>3. CASE x.op \notin {"TradeInventory", "TradeSave"}
      BY <3>3 DEF InventoryOK, SaveOK
    <3> QED BY <3>2, <3>3
  <2> QED BY <2>1, <2>2
<1>4. OneCall'
  BY DEF GoodsOK, OneCall
<1>5. ASSUME NEW t \in Tid PROVE NamedOK(t)' /\ TransOK(t)'
  <2>1. NamedOK(t) /\ TransOK(t) /\ t # NoTid
    BY DEF GoodsOK, TransGoods, Tid, NoTid
  <2>2. TransOK(t)'
    <3>1. CASE t = n
      BY <3>1
    <3>2. CASE t # n
      <4>1. \A r \in Role : traderMap[r] = t => traderMap'[r] = t
        BY <2>1, <3>2
      <4>2. Live(t) => Parties(trans[t]) \subseteq Role
        BY TransTyped, TransactionFields, PartiesTyped DEF IInv
      <4>3. Parties(trans[t])' = Parties(trans[t])
        BY <3>2 DEF Parties
      <4> QED BY <2>1, <3>2, <4>1, <4>2, <4>3 DEF TransOK, Live, Engaged, Begins, CanDiscard, CanUpdate, CanConfirm
    <3> QED BY <3>1, <3>2
  <2>3. StartAsked(t)' => StartAsked(t)
    BY DEF StartAsked, TradeStart, TradeEnd
  <2>4. t > lastTid' \/ StartAsked(t)' => Untouched(t) /\ t # n
    BY <2>1, <2>3 DEF NamedOK
  <2>5. Untouched(t) /\ t # n => Untouched(t)'
    <3> SUFFICES ASSUME Untouched(t), t # n PROVE Untouched(t)'
      OBVIOUS
    <3>1. \A x \in rpcs' : x.tid # t
      BY DEF Untouched
    <3>2. \A i \in DOMAIN toDelivery' : toDelivery'[i].tid # t
      BY <1>0, HeardMoves DEF Untouched, MovesUp
    <3>3. \A r \in Role : gs'[r].tid # t /\ traderMap'[r] # t
      BY <2>1 DEF Untouched
    <3> QED BY <3>1, <3>2, <3>3 DEF Untouched
  <2>6. StartAsked(t)' => Live(t)' /\ trans'[t].state = "Init" /\ ~trans'[t].notify
    BY <2>1, <2>3 DEF NamedOK, Live
  <2> QED BY <2>2, <2>4, <2>5, <2>6 DEF NamedOK
<1> QED BY <1>1, <1>2, <1>3, <1>4, <1>5 DEF GoodsOK, CallsOK, TransGoods

LEMMA LiveIsKnown == ASSUME IInv, NEW t \in Tid, Live(t) PROVE ~(t > lastTid)
<1>1. trans[t] \in Transaction
  BY TransTyped DEF IInv
<1>2. PICK r \in Role : r \in Parties(trans[t])
  BY <1>1, TransactionFields, PartiesTyped DEF Parties
<1> QED BY <1>2 DEF IInv, LocksOK, LockOK, Unknown

\* Nobody saves or reads the bags of transaction t.
NoTradeCall(t) == \A x \in rpcs : x.tid = t => x.op \notin {"TradeInventory", "TradeSave"}

LEMMA OpenTransaction ==
    ASSUME IInv, GoodsOK, NEW t \in Tid, CanDiscard(trans[t])
    PROVE  /\ Live(t) /\ trans[t] \in Transaction /\ trans[t].notify
           /\ ~(t > lastTid) /\ ~StartAsked(t) /\ NoTradeCall(t)
           /\ \A r \in Parties(trans[t]) :
                 /\ r \in Role /\ traderMap[r] = t
                 /\ trans[t].trader[r].pssn \cup trans[t].trader[r].exchg = db[r].pocket
           /\ \A r \in Role : Changed(t, r) <=> TradeEnd(t, r, TRUE) \in toGs /\ TradeEnd(t, r, FALSE) \notin toGs
<1>1. Live(t) /\ trans[t] \in Transaction /\ \A r \in Parties(trans[t]) : r \in Role
  BY CanDiscardLive DEF IInv
<1>2. trans[t].state \in {"Exchange", "Ready_half", "Ready", "Confirm_half"}
  BY DEF CanDiscard, CanUpdate, CanConfirm
<1>3. NamedOK(t) /\ TransOK(t)
  BY DEF GoodsOK, TransGoods
<1>4. NoTradeCall(t)
  BY <1>2 DEF GoodsOK, CallsOK, InventoryOK, SaveOK, NoTradeCall
<1> QED BY <1>1, <1>2, <1>3, <1>4, LiveIsKnown DEF NamedOK, TransOK, Engaged, Changed

\* What happens to a transaction whose traders exchange goods: these stay with it, or
\* it is over, or it is saved.
LEMMA OpenGoods ==
    ASSUME IInv, GoodsOK, NEW n \in Tid, CanDiscard(trans[n]), GoesOn(n),
           UNCHANGED <<lastTid, traderMap, gs, db, toGs>>, HeardOrNot,
           \/ /\ CanDiscard(trans'[n]) /\ UNCHANGED rpcs
              /\ \A r \in Parties(trans[n]) :
                    trans'[n].trader[r].pssn \cup trans'[n].trader[r].exchg
                        = trans[n].trader[r].pssn \cup trans[n].trader[r].exchg
           \/ trans'[n].state = "Null" /\ UNCHANGED rpcs
           \/ /\ trans'[n].state \in {"Init", "Confirm"}
              /\ \E c : rpcs' = rpcs \cup {c} /\ c.op = "TradeSave" /\ c.tid = n /\ SaveOK(c)'
    PROVE  GoodsOK'
<1>1. /\ Live(n) /\ trans[n] \in Transaction /\ trans[n].notify
      /\ ~(n > lastTid) /\ ~StartAsked(n) /\ NoTradeCall(n)
      /\ \A r \in Parties(trans[n]) :
            /\ r \in Role /\ traderMap[r] = n
            /\ trans[n].trader[r].pssn \cup trans[n].trader[r].exchg = db[r].pocket
      /\ \A r \in Role : Changed(n, r) <=> TradeEnd(n, r, TRUE) \in toGs /\ TradeEnd(n, r, FALSE) \notin toGs
  BY OpenTransaction
<1>2. /\ trans'[n] \in Transaction /\ trans'[n].pair = trans[n].pair /\ trans'[n].notify
      /\ \A t \in Tid : t # n => trans'[t] = trans[t]
  BY <1>1 DEF GoesOn, Follows, IInv, Typed, TypeOK
<1>3. Parties(trans[n])' = Parties(trans[n])
  BY <1>2 DEF Parties
<1>4. trans'[n].state \in {"Init", "Confirm", "Null"} \/ CanDiscard(trans'[n])
  OBVIOUS
<1>5. TransOK(n)'
  <2>1. Engaged(trans[n])' => trans'[n].notify /\ \A r \in Parties(trans[n])' : traderMap'[r] = n
    BY <1>1, <1>2, <1>3
  <2>2. ~Begins(trans[n])'
    BY <1>2, <1>4 DEF Begins, CanDiscard, CanUpdate, CanConfirm
  <2>3. CanDiscard(trans[n])' =>
            \A r \in Parties(trans[n])' :
                trans'[n].trader[r].pssn \cup trans'[n].trader[r].exchg = db'[r].pocket
    BY <1>1, <1>3 DEF CanDiscard, CanUpdate, CanConfirm
  <2> QED BY <2>1, <2>2, <2>3 DEF TransOK
<1>6. \A r \in Role : Changed(n, r) => Changed(n, r)'
  BY <1>1 DEF Changed
<1>7. ASSUME NEW x \in rpcs, x.tid = n PROVE InventoryOK(x)' /\ SaveOK(x)'
  BY <1>1, <1>7 DEF NoTradeCall, InventoryOK, SaveOK
<1>8. ASSUME NEW x \in rpcs', x \notin rpcs
      PROVE  /\ x.tid = n /\ x.op \in {"TradeInventory", "TradeSave"} /\ InventoryOK(x)' /\ SaveOK(x)'
             /\ \A y \in rpcs' : y.op = x.op /\ y.tid = n => y = x
  <2>1. PICK c : rpcs' = rpcs \cup {c} /\ c.op = "TradeSave" /\ c.tid = n /\ SaveOK(c)'
    BY <1>8
  <2>2. x = c
    BY <1>8, <2>1
  <2> QED BY <1>1, <2>1, <2>2 DEF NoTradeCall, InventoryOK
<1>9. Live(n)'
  BY <1>2, TransactionFields DEF Live
<1> QED BY <1>1, <1>2, <1>5, <1>6, <1>7, <1>8, <1>9, OneTransaction

\* What a trader has and offers, together, stays the same.
SameBags(T, U) == \A x \in Role :
    U.trader[x].pssn \cup U.trader[x].exchg = T.trader[x].pssn \cup T.trader[x].exchg

LEMMA OfferBags ==
    ASSUME NEW T \in Transaction, NEW r \in Role, NEW pssn \in Pocket, NEW exchg \in Pocket,
           pssn \cup exchg = T.trader[r].pssn \cup T.trader[r].exchg,
           NEW U, U = Offers(T, r, pssn, exchg)
    PROVE  SameBags(T, U)
<1> DEFINE y == [T.trader[r] EXCEPT !.pssn = pssn, !.exchg = exchg]
<1>1. T.trader \in [Role -> Trader] /\ T.trader[r] \in Trader
  BY TransactionFields
<1>2. y.pssn = pssn /\ y.exchg = exchg
  BY <1>1 DEF Trader
<1>3. U.trader = [T.trader EXCEPT ![r] = y]
  BY <1>1 DEF Transaction, Trader, Offers
<1> HIDE DEF y
<1> QED BY <1>1, <1>2, <1>3 DEF SameBags

LEMMA StateBags ==
    ASSUME NEW T \in Transaction, NEW r \in Role, NEW s \in TraderState,
           NEW agreed \in [Role -> Pocket], NEW U, U = Enters(T, r, s, agreed)
    PROVE  SameBags(T, U)
<1> DEFINE y == [T.trader[r] EXCEPT !.state = s, !.agreed = agreed]
<1>1. T.trader \in [Role -> Trader] /\ T.trader[r] \in Trader
  BY TransactionFields
<1>2. y.pssn = T.trader[r].pssn /\ y.exchg = T.trader[r].exchg
  BY <1>1 DEF Trader
<1>3. U.trader = [T.trader EXCEPT ![r] = y]
  BY <1>1 DEF Transaction, Trader, Enters
<1> HIDE DEF y
<1> QED BY <1>1, <1>2, <1>3 DEF SameBags

LEMMA BackBags == ASSUME NEW T \in Transaction PROVE SameBags(T, BackToExchange(T))
<1>1. T.trader \in [Role -> Trader]
  BY TransactionFields
<1>2. \A x \in Role : BackToExchange(T).trader[x] = IF T.trader[x].state = "READY"
           THEN [T.trader[x] EXCEPT !.state = "EXCHANGE", !.agreed = NoPockets]
           ELSE T.trader[x]
  BY DEF BackToExchange, Transaction
<1> SUFFICES ASSUME NEW x \in Role
             PROVE  BackToExchange(T).trader[x].pssn \cup BackToExchange(T).trader[x].exchg
                        = T.trader[x].pssn \cup T.trader[x].exchg
  BY DEF SameBags
<1>3. T.trader[x] \in Trader
  BY <1>1
<1> DEFINE y == [T.trader[x] EXCEPT !.state = "EXCHANGE", !.agreed = NoPockets]
<1>4. y.pssn = T.trader[x].pssn /\ y.exchg = T.trader[x].exchg
  BY <1>3 DEF Trader
<1>5. BackToExchange(T).trader[x] \in {y, T.trader[x]}
  BY <1>2
<1> HIDE DEF y
<1> QED BY <1>4, <1>5

\* Goods are put on the table, and taken back.
LEMMA MovedGoods ==
    ASSUME IInv, GoodsOK, NEW t \in Tid, NEW r \in Role, NEW pssn \in Pocket, NEW exchg \in Pocket,
           NEW paid \in BOOLEAN, Moved(t, r, pssn, exchg, paid),
           pssn \cup exchg = trans[t].trader[r].pssn \cup trans[t].trader[r].exchg
    PROVE  GoodsOK'
<1> DEFINE S == trans[t]
           T == Offers(S, r, pssn, exchg)
           p == Partner(T, r)
           V == [T EXCEPT !.trader[r].state = "EXCHANGE"]
           h == T.halfway \/ T.trader[p].state = "READY"
           U == IF paid THEN BackToExchange(V) ELSE [T EXCEPT !.halfway = h]
<1>1. /\ CanDiscard(S) /\ S \in Transaction
      /\ UNCHANGED <<lastTid, traderMap, gs, db, toGs, toDelivery, rpcs>>
  BY OpenTransaction DEF Moved, CanDiscard
<1>2. GoesOn(t) /\ CanDiscard(trans'[t])
  BY MovedGoesOn DEF IInv, CanDiscard
<1>3. Set(t, U)
  BY DEF Moved, Offers
<1>4. trans'[t] = U
  <2> HIDE DEF U
  <2> QED BY <1>3, SetEffect DEF IInv
<1>5. pssn \cup exchg = S.trader[r].pssn \cup S.trader[r].exchg
  OBVIOUS
<1> HIDE DEF S
<1>6. T \in Transaction /\ SameBags(S, T)
  BY <1>1, <1>5, OfferTyped, OfferBags
<1> HIDE DEF T
<1>7. V \in Transaction /\ SameBags(T, V)
  <2> DEFINE ag == T.trader[r].agreed
  <2>1. V = Enters(T, r, "EXCHANGE", ag) /\ ag \in [Role -> Pocket] /\ "EXCHANGE" \in TraderState
    BY <1>6, OnlyStateTyped DEF TraderState
  <2> HIDE DEF V, ag
  <2> QED BY <1>6, <2>1, StateTyped, StateBags
<1> HIDE DEF V
<1>8. SameBags(S, U)
  <2>1. CASE paid
    <3>1. SameBags(V, BackToExchange(V))
      BY <1>7, BackBags
    <3> QED BY <1>6, <1>7, <2>1, <3>1 DEF SameBags
  <2>2. CASE ~paid
    <3>1. U.trader = T.trader
      BY <1>6, <2>2 DEF Transaction
    <3> HIDE DEF U
    <3> QED BY <1>6, <3>1 DEF SameBags
  <2> QED BY <2>1, <2>2
<1> HIDE DEF U
<1>9. \A x \in Parties(S) : x \in Role
  BY <1>1, TransactionFields, PartiesTyped
<1>10. \A x \in Parties(trans[t]) :
          trans'[t].trader[x].pssn \cup trans'[t].trader[x].exchg
              = trans[t].trader[x].pssn \cup trans[t].trader[x].exchg
  BY <1>4, <1>8, <1>9 DEF SameBags, S
<1> QED BY <1>1, <1>2, <1>10, OpenGoods DEF HeardOrNot, S

LEMMA RequestGoods ==
    ASSUME IInv, GoodsOK, NEW t \in Tid, NEW r \in Role,
           \/ \E g \in Goods, paid \in BOOLEAN : AddGoods(t, r, g, paid) \/ RemoveGoods(t, r, g, paid)
           \/ \E room \in BOOLEAN : Submit(t, r, room)
           \/ MoveObject(t, r)
    PROVE  GoodsOK'
<1> DEFINE S == trans[t]
           x == S.trader[r]
<1>1. ASSUME NEW g \in Goods, NEW paid \in BOOLEAN, AddGoods(t, r, g, paid) \/ RemoveGoods(t, r, g, paid)
      PROVE  GoodsOK'
  <2>1. S \in Transaction
    BY <1>1, TransTyped DEF AddGoods, RemoveGoods, IInv
  <2>2. x.pssn \in Pocket /\ x.exchg \in Pocket
    BY <2>1, TransactionFields, TraderFields
  <2>3. CASE AddGoods(t, r, g, paid)
    <3> DEFINE a == x.pssn \ {g}
               b == x.exchg \cup {g}
    <3>1. a \in Pocket /\ b \in Pocket /\ a \cup b = x.pssn \cup x.exchg /\ Moved(t, r, a, b, paid)
      BY <2>2, <2>3 DEF AddGoods, Pocket
    <3> HIDE DEF a, b
    <3> QED BY <3>1, MovedGoods
  <2>4. CASE RemoveGoods(t, r, g, paid)
    <3> DEFINE a == x.pssn \cup {g}
               b == x.exchg \ {g}
    <3>1. a \in Pocket /\ b \in Pocket /\ a \cup b = x.pssn \cup x.exchg /\ Moved(t, r, a, b, paid)
      BY <2>2, <2>4 DEF RemoveGoods, Pocket
    <3> HIDE DEF a, b
    <3> QED BY <3>1, MovedGoods
  <2> QED BY <1>1, <2>3, <2>4
<1>2. ASSUME CanUpdate(S), GoesOn(t), CanDiscard(trans'[t]), SameBags(S, trans'[t]),
             UNCHANGED <<lastTid, traderMap, gs, db, toGs, toDelivery, rpcs>>
      PROVE  GoodsOK'
  <2>1. \A y \in Parties(S) : y \in Role
    BY <1>2, OpenTransaction DEF CanDiscard
  <2> QED BY <1>2, <2>1, OpenGoods DEF CanDiscard, HeardOrNot, SameBags
<1>3. ASSUME MoveObject(t, r) PROVE GoodsOK'
  <2>1. GoesOn(t) /\ CanUpdate(trans'[t])
    BY <1>3, MoveObjectGoesOn DEF IInv
  <2>2. /\ CanUpdate(S) /\ UNCHANGED <<lastTid, traderMap, gs, db, toGs, toDelivery, rpcs>>
        /\ trans' = [trans EXCEPT ![t].trader[r].modified = TRUE]
    BY <1>3 DEF MoveObject
  <2>3. S \in Transaction /\ S.trader \in [Role -> Trader] /\ x \in Trader
    <3>1. CanDiscard(S)
      BY <2>2 DEF CanDiscard
    <3>2. S \in Transaction
      BY <3>1, OpenTransaction
    <3> QED BY <3>2, TransactionFields
  <2>4. trans'[t].trader = [S.trader EXCEPT ![r] = [x EXCEPT !.modified = TRUE]]
    BY <2>2, <2>3 DEF IInv, Typed, TypeOK, Transaction
  <2> DEFINE y == [x EXCEPT !.modified = TRUE]
  <2>5. y.pssn = x.pssn /\ y.exchg = x.exchg
    BY <2>3 DEF Trader
  <2> HIDE DEF y
  <2>6. SameBags(S, trans'[t])
    BY <2>3, <2>4, <2>5 DEF SameBags, y
  <2> QED BY <1>2, <2>1, <2>2, <2>6 DEF CanDiscard
<1>4. ASSUME NEW room \in BOOLEAN, Submit(t, r, room) PROVE GoodsOK'
  <2> DEFINE agreed == IF x.state = "READY" THEN x.agreed ELSE Deal(S)
             T == Enters(S, r, "READY", agreed)
             p == Partner(T, r)
             U == IF T.trader[p].state # "READY"
                  THEN [T EXCEPT !.state = "Ready_half"]
                  ELSE IF room THEN [T EXCEPT !.state = "Ready"] ELSE BackToExchange(T)
  <2>1. GoesOn(t) /\ CanDiscard(trans'[t])
    BY <1>4, SubmitGoesOn DEF IInv, CanDiscard, CanUpdate, CanConfirm
  <2>2. CanUpdate(S) /\ UNCHANGED <<lastTid, traderMap, gs, db, toGs, toDelivery, rpcs>>
    BY <1>4 DEF Submit
  <2>3. S \in Transaction /\ S.trader \in [Role -> Trader] /\ x \in Trader
    <3>1. CanDiscard(S)
      BY <2>2 DEF CanDiscard
    <3>2. S \in Transaction
      BY <3>1, OpenTransaction
    <3> QED BY <3>2, TransactionFields
  <2>4. agreed \in [Role -> Pocket]
    BY <2>3, TraderFields, DealTyped
  <2>5. Set(t, U)
    <3>1. T = [S EXCEPT !.trader[r].state = "READY",
                        !.trader[r].agreed = IF x.state = "READY" THEN @ ELSE Deal(S)]
      BY <2>3 DEF Transaction, Trader, Enters
    <3> HIDE DEF T
    <3> QED BY <1>4, <3>1 DEF Submit
  <2>6. trans'[t] = U
    <3> HIDE DEF U
    <3> QED BY <2>5, SetEffect DEF IInv
  <2> HIDE DEF agreed, S
  <2>7. T \in Transaction /\ SameBags(S, T)
    BY <2>3, <2>4, StateTyped, StateBags DEF TraderState
  <2> HIDE DEF T
  <2>8. SameBags(T, U)
    <3>1. U.trader = T.trader \/ U = BackToExchange(T)
      BY <2>7 DEF Transaction
    <3> HIDE DEF U
    <3> QED BY <2>7, <3>1, BackBags DEF SameBags
  <2>9. SameBags(S, trans'[t])
    BY <2>6, <2>7, <2>8 DEF SameBags
  <2> QED BY <1>2, <2>1, <2>2, <2>9 DEF S
<1> QED BY <1>1, <1>3, <1>4

\* The pockets are sent to gamedbd: each of them was changed, or is what gamedbd has.
LEMMA WrittenGoods ==
    ASSUME IInv, GoodsOK, NEW t \in Tid, CanDiscard(trans[t]), GoesOn(t),
           NEW X \in Transaction, Write2DB(t, X), X.notify, X.state \in {"Init", "Confirm"},
           \A r \in Parties(X) : X.trader[r].modified \/ X.trader[r].pssn = db[r].pocket,
           UNCHANGED <<lastTid, traderMap, gs, db, toGs>>, HeardOrNot
    PROVE  GoodsOK'
<1> DEFINE f == [r \in Role |-> [X.trader[r] EXCEPT !.pssn = {}]]
           U == [X EXCEPT !.trader = f]
           pockets == [r \in Role |-> X.trader[r].pssn]
           c == Call("TradeSave", t, Parties(X), pockets)
<1>1. \A r \in Role : f[r].modified = X.trader[r].modified
  <2> SUFFICES ASSUME NEW r \in Role PROVE [X.trader[r] EXCEPT !.pssn = {}].modified = X.trader[r].modified
    OBVIOUS
  <2>1. X.trader[r] \in Trader
    BY TransactionFields
  <2> QED BY <2>1 DEF Trader
<1>2. \/ Set(t, U) /\ rpcs' = rpcs \cup {c}
      \/ Set(t, Destroyed(U)) /\ UNCHANGED rpcs
  BY DEF Write2DB
<1> HIDE DEF f
<1>3. U.trader = f /\ U.pair = X.pair /\ U.state = X.state /\ U.notify = X.notify
  BY DEF Transaction
<1> HIDE DEF U
<1>4. \A r \in Parties(X) : r \in Role
  BY TransactionFields, PartiesTyped
<1>5. CASE Set(t, Destroyed(U)) /\ UNCHANGED rpcs
  <2>1. trans'[t] = Destroyed(U)
    BY <1>5, SetEffect DEF IInv
  <2>2. Destroyed(U).state = "Null"
    <3>1. trans'[t] \in Transaction
      BY DEF GoesOn, Follows
    <3> QED BY <1>3, <2>1, <3>1 DEF Destroyed, Transaction
  <2> QED BY <1>5, <2>1, <2>2, OpenGoods
<1>6. CASE Set(t, U) /\ rpcs' = rpcs \cup {c}
  <2>1. trans'[t] = U
    BY <1>6, SetEffect DEF IInv
  <2>2. /\ c.op = "TradeSave" /\ c.tid = t /\ c.waiting /\ c.at = "server" /\ c.who = Parties(X)
        /\ \A r \in Role : c.pockets[r] = X.trader[r].pssn
    BY DEF Call
  <2> HIDE DEF c
  <2>3. /\ trans'[t].state = X.state /\ trans'[t].notify = X.notify /\ trans'[t].trader = f
        /\ Parties(trans[t])' = Parties(X)
    BY <1>3, <2>1 DEF Parties
  <2>4. Live(t)'
    BY <2>3 DEF Live
  <2>5. \A r \in c.who : trans'[t].trader[r].modified \/ Has(c, r)'
    BY <1>1, <1>4, <2>2, <2>3 DEF Has
  <2>6. SaveOK(c)'
    BY <2>2, <2>3, <2>4, <2>5 DEF SaveOK
  <2> QED BY <1>6, <2>2, <2>3, <2>6, OpenGoods
<1> QED BY <1>2, <1>5, <1>6

LEMMA ConfirmGoods == ASSUME IInv, GoodsOK, NEW t \in Tid, NEW r \in Role, Confirm(t, r) PROVE GoodsOK'
<1> DEFINE S == trans[t]
           T == [S EXCEPT !.trader[r].state = "CONFIRM"]
           p == Partner(T, r)
           y(x) == [T.trader[x] EXCEPT !.pssn = @ \cup Deal(T)[Partner(T, x)], !.modified = TRUE]
           f == [x \in Role |-> IF x \notin Parties(T) THEN T.trader[x] ELSE y(x)]
           exchanged == [T EXCEPT !.state = "Confirm", !.trader = f]
           U == IF Deal(T) = NoPockets THEN [T EXCEPT !.state = "Confirm"] ELSE exchanged
<1>1. GoesOn(t) /\ UNCHANGED <<lastTid, traderMap, gs, db, toGs, toDelivery>> /\ HeardOrNot
  BY ConfirmGoesOn DEF IInv, Confirm, HeardOrNot
<1>2. CanDiscard(S)
  BY DEF Confirm, CanDiscard
<1>3. /\ S \in Transaction /\ S.notify
      /\ \A x \in Parties(S) : x \in Role /\ S.trader[x].pssn \cup S.trader[x].exchg = db[x].pocket
  BY <1>2, OpenTransaction
<1>4. \/ Set(t, [T EXCEPT !.state = "Confirm_half"]) /\ UNCHANGED rpcs
      \/ Write2DB(t, U)
  BY DEF Confirm
<1> HIDE DEF S
<1> DEFINE ag == S.trader[r].agreed
<1>5. T = Enters(S, r, "CONFIRM", ag) /\ ag \in [Role -> Pocket] /\ "CONFIRM" \in TraderState
  BY <1>3, OnlyStateTyped DEF TraderState
<1> HIDE DEF T, ag
<1>6. T \in Transaction /\ T.pair = S.pair /\ T.notify = S.notify /\ SameBags(S, T)
  <2>1. /\ T \in Transaction /\ T.pair = S.pair /\ T.state = S.state
        /\ T.notify = S.notify /\ T.halfway = S.halfway
    <3> HIDE DEF U, f, exchanged, p
    <3>1. S \in Transaction
      BY <1>3
    <3> QED BY <1>5, <3>1, StateTyped, SMTT(30)
  <2>2. SameBags(S, T)
    BY <1>3, <1>5, StateBags
  <2> QED BY <2>1, <2>2
<1>7. Parties(T) = Parties(S)
  BY <1>6 DEF Parties
<1>8. \A x \in Parties(T) : x \in Role /\ T.trader[x].pssn \cup T.trader[x].exchg = db[x].pocket
  BY <1>3, <1>6, <1>7 DEF SameBags
<1>9. CASE Set(t, [T EXCEPT !.state = "Confirm_half"]) /\ UNCHANGED rpcs
  <2> DEFINE V == [T EXCEPT !.state = "Confirm_half"]
  <2>1. V.state = "Confirm_half" /\ V.trader = T.trader
    BY <1>6 DEF Transaction
  <2> HIDE DEF V
  <2>2. trans'[t] = V
    BY <1>9, SetEffect DEF IInv, V
  <2>3. CanDiscard(trans'[t])
    BY <2>1, <2>2 DEF CanDiscard, CanConfirm
  <2>4. \A x \in Parties(trans[t]) :
           trans'[t].trader[x].pssn \cup trans'[t].trader[x].exchg
               = trans[t].trader[x].pssn \cup trans[t].trader[x].exchg
    BY <1>3, <1>6, <2>1, <2>2 DEF SameBags, S
  <2> QED BY <1>1, <1>2, <1>9, <2>3, <2>4, OpenGoods DEF S
<1>10. CASE Write2DB(t, U)
  <2>1. ASSUME NEW x \in Parties(T) PROVE y(x) \in Trader /\ y(x).modified
    <3>1. T.trader[x] \in Trader /\ Deal(T)[Partner(T, x)] \in Pocket
      BY <1>6, <1>8, DealTyped, TransactionFields, PartiesTyped
    <3> QED BY <3>1 DEF Trader, Pocket
  <2>2. f \in [Role -> Trader] /\ \A x \in Parties(T) : f[x].modified
    <3>1. T.trader \in [Role -> Trader]
      BY <1>6, TransactionFields
    <3> HIDE DEF y
    <3> QED BY <1>8, <2>1, <3>1
  <2> HIDE DEF f
  <2>3. /\ U \in Transaction /\ U.pair = T.pair /\ U.notify = T.notify /\ U.state = "Confirm"
        /\ U.trader = IF Deal(T) = NoPockets THEN T.trader ELSE f
    BY <1>6, <2>2 DEF Transaction, TransState
  <2> HIDE DEF U
  <2>4. ASSUME NEW x \in Parties(U) PROVE U.trader[x].modified \/ U.trader[x].pssn = db[x].pocket
    <3>1. x \in Parties(T)
      BY <2>3 DEF Parties
    <3>2. CASE Deal(T) = NoPockets
      <4>1. T.trader[x].exchg = {}
        <5>1. x \in Role /\ Deal(T)[x] = {}
          BY <1>8, <3>1, <3>2 DEF NoPockets
        <5> QED BY <5>1 DEF Deal
      <4> QED BY <1>8, <2>3, <3>1, <3>2, <4>1
    <3>3. CASE Deal(T) # NoPockets
      BY <2>2, <2>3, <3>1, <3>3
    <3> QED BY <3>2, <3>3
  <2> QED BY <1>1, <1>2, <1>3, <1>6, <1>10, <2>3, <2>4, WrittenGoods DEF S
<1> QED BY <1>4, <1>9, <1>10

LEMMA DiscardedGoods ==
    ASSUME IInv, GoodsOK, NEW t \in Tid, CanDiscard(trans[t]), Write2DB(t, Discarded(trans[t])),
           UNCHANGED <<lastTid, traderMap, gs, db, toGs>>, HeardOrNot
    PROVE  GoodsOK'
<1> DEFINE S == trans[t]
           X == Discarded(S)
<1>1. /\ S \in Transaction /\ S.notify
      /\ \A r \in Parties(S) : r \in Role /\ S.trader[r].pssn \cup S.trader[r].exchg = db[r].pocket
  BY OpenTransaction
<1>2. GoesOn(t)
  BY DiscardGoesOn DEF IInv
<1> HIDE DEF S
<1>3. X \in Transaction /\ X.pair = S.pair /\ X.notify = S.notify /\ X.state = "Init"
  BY <1>1, DiscardedTyped
<1>4. ASSUME NEW r \in Parties(X) PROVE X.trader[r].pssn = db[r].pocket
  <2>1. r \in Parties(S)
    BY <1>3 DEF Parties
  <2>2. X.trader[r] = [S.trader[r] EXCEPT !.pssn = @ \cup S.trader[r].exchg]
    BY <1>1, <2>1 DEF Discarded, Transaction
  <2>3. S.trader[r] \in Trader
    BY <1>1, <2>1, TransactionFields
  <2> QED BY <1>1, <2>1, <2>2, <2>3 DEF Trader
<1>5. Write2DB(t, X)
  BY DEF S
<1> HIDE DEF X
<1> QED BY <1>1, <1>2, <1>3, <1>4, <1>5, WrittenGoods

\* gdeliveryd hears of something that changes nothing any more.
LEMMA HeardInVain ==
    ASSUME IInv, GoodsOK, UNCHANGED <<trans, lastTid, traderMap, gs, db, toGs, rpcs>>, HeardOrNot
    PROVE  GoodsOK'
<1>0. Typed /\ traderMap \in [Role -> {NoTid} \cup Tid]
  BY DEF IInv, Typed, TypeOK
<1>1. ASSUME NEW r \in Role PROVE RoleOK(r)'
  <2>1. RoleOK(r) /\ traderMap[r] \in Tid \cup {NoTid}
    BY <1>0 DEF GoodsOK
  <2>2. \A t \in Tid : Live(t)' => Live(t) /\ trans'[t].pair = trans[t].pair
    BY DEF Live
  <2>3. \A t \in Tid : Changed(t, r) => Changed(t, r)'
    BY DEF Changed, Live
  <2> DEFINE u == traderMap[r]
  <2>4. u \in Tid \cup {NoTid} /\ traderMap'[r] = u /\ u = traderMap[r]
    BY <2>1
  <2> HIDE DEF u
  <2> QED BY <1>0, <2>1, <2>2, <2>3, <2>4, DeliveryRole
<1>2. OneOwner' /\ OneCall'
  BY DEF GoodsOK, OneOwner, OneCall
<1>3. ASSUME NEW x \in rpcs' PROVE InventoryOK(x)' /\ SaveOK(x)'
  <2>1. InventoryOK(x) /\ SaveOK(x)
    BY DEF GoodsOK, CallsOK
  <2> QED BY <2>1 DEF InventoryOK, SaveOK, Live, Parties, Has
<1>4. ASSUME NEW t \in Tid PROVE NamedOK(t)' /\ TransOK(t)'
  <2>1. NamedOK(t) /\ TransOK(t)
    BY DEF GoodsOK, TransGoods
  <2>2. TransOK(t)'
    BY <2>1 DEF TransOK, Live, Engaged, Begins, CanDiscard, CanUpdate, CanConfirm, Parties
  <2>3. Untouched(t) => Untouched(t)'
    <3>1. Untouched(t) => \A i \in DOMAIN toDelivery' : toDelivery'[i].tid # t
      BY <1>0, HeardMoves DEF Untouched, MovesUp
    <3> QED BY <3>1 DEF Untouched
  <2>4. StartAsked(t)' <=> StartAsked(t)
    BY DEF StartAsked, TradeStart
  <2> QED BY <2>1, <2>2, <2>3, <2>4 DEF NamedOK, Live
<1> QED BY <1>1, <1>2, <1>3, <1>4 DEF GoodsOK, CallsOK, TransGoods

LEMMA DiscardGoods ==
    ASSUME IInv, GoodsOK, (\E t \in Tid : TradeDiscard(t)) \/ \E m : GTradeDiscard(m)
    PROVE  GoodsOK'
<1>1. ASSUME NEW t \in Tid, TradeDiscard(t) PROVE GoodsOK'
  BY <1>1, DiscardedGoods DEF TradeDiscard, HeardOrNot
<1>2. ASSUME NEW m, GTradeDiscard(m) PROVE GoodsOK'
  <2>1. m.tid \in Tid
    BY <1>2, HeardEffect, PendingTyped DEF GTradeDiscard, IInv
  <2>2. HeardOrNot /\ UNCHANGED <<lastTid, traderMap, gs, db, toGs>>
    BY <1>2 DEF GTradeDiscard, HeardOrNot
  <2>3. CASE CanDiscard(trans[m.tid]) /\ Write2DB(m.tid, Discarded(trans[m.tid]))
    BY <2>1, <2>2, <2>3, DiscardedGoods
  <2>4. CASE UNCHANGED <<trans, rpcs>>
    BY <2>2, <2>4, HeardInVain
  <2> QED BY <1>2, <2>3, <2>4 DEF GTradeDiscard
<1> QED BY <1>1, <1>2

LEMMA DiscardTransactionGoods ==
    ASSUME IInv, GoodsOK, NEW d \in Role, DiscardTransaction(d), HeardOrNot,
           UNCHANGED <<lastTid, traderMap, gs, db, toGs, rpcs>>
    PROVE  GoodsOK'
<1> DEFINE t == traderMap[d]
           T == Discarded(trans[t])
           U == [T EXCEPT !.trader = [r \in Role |-> [@[r] EXCEPT !.modified = FALSE]]]
<1>1. t \in {NoTid} \cup Tid
  BY DEF IInv, Typed, TypeOK
<1>2. HeardOrNot /\ UNCHANGED <<lastTid, traderMap, gs, db, toGs, rpcs>>
  OBVIOUS
<1>3. \/ UNCHANGED trans
      \/ t # NoTid /\ CanDiscard(trans[t]) /\ Set(t, Destroyed(U))
  BY DEF DiscardTransaction
<1>4. CASE UNCHANGED trans
  BY <1>2, <1>4, HeardInVain
<1>5. CASE t # NoTid /\ CanDiscard(trans[t]) /\ Set(t, Destroyed(U)) /\ ~UNCHANGED trans
  <2>1. t \in Tid /\ trans \in [Tid -> Transaction \cup {NoTransaction}]
    BY <1>1, <1>5 DEF IInv, Typed, TypeOK
  <2>2. PICK u \in Tid : GoesOn(u) /\ trans'[u].state = "Null"
    BY <1>5, DiscardTransactionGoesOn DEF IInv
  <2>3. u = t
    <3> HIDE DEF t, U
    <3>1. \A x \in Tid : x # t => trans'[x] = trans[x]
      BY <1>5, <2>1 DEF Set
    <3>2. \A x \in Tid : x # u => trans'[x] = trans[x]
      BY <2>1, <2>2 DEF GoesOn
    <3>3. ASSUME u # t PROVE UNCHANGED trans
      <4>1. DOMAIN trans' = DOMAIN trans /\ trans' \in [Tid -> Transaction \cup {NoTransaction}]
        <5>1. trans'[u] \in Transaction
          BY <2>2 DEF GoesOn, Follows
        <5>2. trans' = [trans EXCEPT ![u] = trans'[u]]
          BY <2>2 DEF GoesOn
        <5> QED BY <2>1, <5>1, <5>2
      <4>2. \A x \in Tid : trans'[x] = trans[x]
        BY <3>1, <3>2, <3>3
      <4> QED BY <2>1, <4>1, <4>2
    <3> QED BY <1>5, <3>3
  <2> HIDE DEF t, U
  <2> QED BY <1>2, <1>5, <2>1, <2>2, <2>3, OpenGoods
<1> QED BY <1>3, <1>4, <1>5

LEMMA LogoutGoods ==
    ASSUME IInv, GoodsOK, (\E m : PlayerLogout(m)) \/ \E r \in Role : UserDisconnect(r)
    PROVE  GoodsOK'
<1>1. ASSUME NEW m, PlayerLogout(m) PROVE GoodsOK'
  <2>1. m.role \in Role /\ (DiscardTransaction(m.role) \/ UNCHANGED trans)
    BY <1>1, LogoutDiscards DEF IInv
  <2>2. HeardOrNot /\ UNCHANGED <<lastTid, traderMap, gs, db, toGs, rpcs>>
    BY <1>1 DEF PlayerLogout, HeardOrNot
  <2> QED BY <2>1, <2>2, HeardInVain, DiscardTransactionGoods
<1>2. ASSUME NEW r \in Role, UserDisconnect(r) PROVE GoodsOK'
  BY <1>2, DiscardTransactionGoods DEF UserDisconnect, HeardOrNot
<1> QED BY <1>1, <1>2

\* Both bags, as they are, are what the traders have to offer.
LEMMA InventoriesGoods ==
    ASSUME IInv, GoodsOK, NEW m \in rpcs, NEW ok \in BOOLEAN, TradeInventoryReturns(m, ok)
    PROVE  GoodsOK'
<1> DEFINE n == m.tid
           S == trans[n]
           f == [r \in Role |-> IF r \notin Parties(S) THEN S.trader[r]
                                ELSE [S.trader[r] EXCEPT !.state = "EXCHANGE", !.pssn = m.pockets[r]]]
           U == [S EXCEPT !.state = "Exchange", !.trader = f]
<1>1. /\ m.op = "TradeInventory" /\ m.waiting /\ (ok => m.at = "caller" /\ m.ok)
      /\ rpcs' = Finished(m)
      /\ UNCHANGED <<lastTid, traderMap, gs, db, toGs, toDelivery>>
      /\ trans' = IF ~Live(n) THEN trans
                  ELSE [trans EXCEPT ![n] = IF ok /\ S.state = "SetPossession" THEN U ELSE Destroyed(S)]
  BY DEF TradeInventoryReturns, Returns
<1>2. /\ n \in Tid /\ Live(n) /\ S.state = "SetPossession" /\ m.who = Parties(S) /\ S \in Transaction
      /\ m.at = "caller" /\ m.ok => \A r \in m.who : Has(m, r)
  <2>1. InventoryOK(m)
    BY DEF GoodsOK, CallsOK
  <2>2. n \in Tid
    BY <1>1 DEF IInv, Typed, TidsNamed
  <2> QED BY <1>1, <2>1, <2>2, TransTyped DEF InventoryOK, IInv
<1>3. /\ GoesOn(n) /\ trans'[n].state \in {"Exchange", "Null"}
      /\ rpcs' = rpcs \ {m}
  BY <1>1, <1>2, TradeInventoryGoesOn DEF IInv, Finished
<1>4. trans'[n] = IF ok THEN U ELSE Destroyed(S)
  <2> HIDE DEF U, n
  <2> QED BY <1>1, <1>2 DEF IInv, Typed, TypeOK
<1>5. NamedOK(n) /\ TransOK(n)
  BY <1>2 DEF GoodsOK, TransGoods
<1>6. /\ S.notify /\ \A r \in Parties(S) : traderMap[r] = n /\ S.trader[r].exchg = {} /\ r \in Role
      /\ ~StartAsked(n) /\ ~(n > lastTid)
  BY <1>2, <1>5, LiveIsKnown, TransactionFields, PartiesTyped DEF TransOK, Engaged, Begins, NamedOK
<1> HIDE DEF n, S
<1>7. /\ trans'[n] \in Transaction /\ trans'[n].pair = S.pair /\ trans'[n].notify
      /\ \A t \in Tid : t # n => trans'[t] = trans[t]
  BY <1>2, <1>3, <1>6 DEF GoesOn, Follows, S, IInv, Typed, TypeOK
<1>8. Parties(trans[n])' = Parties(S)
  BY <1>7 DEF Parties
<1>9. TransOK(n)'
  <2>1. CanDiscard(trans[n])' =>
            \A r \in Parties(trans[n])' :
                trans'[n].trader[r].pssn \cup trans'[n].trader[r].exchg = db'[r].pocket
    <3> SUFFICES ASSUME CanDiscard(trans[n])', NEW r \in Parties(S)
                 PROVE  trans'[n].trader[r].pssn \cup trans'[n].trader[r].exchg = db[r].pocket
      BY <1>1, <1>8
    <3>1. trans'[n].state # "Null"
      BY DEF CanDiscard, CanUpdate, CanConfirm
    <3>2. ok
      <4>1. trans'[n] = Destroyed(S) => trans'[n].state = "Null"
        BY <1>2, <1>7 DEF Destroyed, Transaction
      <4> QED BY <1>4, <3>1, <4>1
    <3>3. trans'[n].trader[r] = [S.trader[r] EXCEPT !.state = "EXCHANGE", !.pssn = m.pockets[r]]
      <4>1. f[r] = [S.trader[r] EXCEPT !.state = "EXCHANGE", !.pssn = m.pockets[r]]
        BY <1>6
      <4>2. U.trader = f
        <5> HIDE DEF f
        <5> QED BY <1>2 DEF Transaction
      <4> HIDE DEF f, U
      <4> QED BY <1>4, <3>2, <4>1, <4>2
    <3>4. S.trader[r] \in Trader
      BY <1>2, <1>6, TransactionFields
    <3>5. m.pockets[r] = db[r].pocket
      BY <1>1, <1>2, <3>2 DEF Has
    <3> QED BY <1>6, <3>3, <3>4, <3>5 DEF Trader
  <2>2. Engaged(trans[n])' => trans'[n].notify /\ \A r \in Parties(trans[n])' : traderMap'[r] = n
    BY <1>1, <1>6, <1>7, <1>8
  <2>3. ~Begins(trans[n])'
    BY <1>3 DEF Begins
  <2> QED BY <2>1, <2>2, <2>3 DEF TransOK
<1>10. \A r \in Role : Changed(n, r) => Changed(n, r)'
  BY <1>1, <1>2 DEF Changed, S
<1>11. ASSUME NEW x \in rpcs, x \in rpcs', x.tid = n PROVE InventoryOK(x)' /\ SaveOK(x)'
  <2>1. x.op # "TradeInventory"
    BY <1>1, <1>3, <1>11 DEF GoodsOK, OneCall, n
  <2>2. x.op # "TradeSave"
    BY <1>2, <1>11 DEF GoodsOK, CallsOK, SaveOK, S
  <2> QED BY <2>1, <2>2 DEF InventoryOK, SaveOK
<1> QED BY <1>1, <1>2, <1>3, <1>6, <1>7, <1>9, <1>10, <1>11, OneTransaction DEF S, HeardOrNot

\* The save was answered, and nobody doubts what the answer was.
LEMMA SavedGoods ==
    ASSUME IInv, GoodsOK, NEW m \in rpcs, NEW ok \in BOOLEAN, TradeSaveReturns(m, ok), ~doubt'
    PROVE  GoodsOK'
<1> DEFINE n == m.tid
           S == trans[n]
<1>1. /\ m.op = "TradeSave" /\ m.waiting /\ rpcs' = Finished(m)
      /\ UNCHANGED <<lastTid, traderMap, gs, db, toGs, toDelivery>>
      /\ trans' = IF Live(n) THEN [trans EXCEPT ![n] = Destroyed(@)] ELSE trans
      /\ m.at # "server"
  BY DEF TradeSaveReturns, Returns
<1>2. /\ n \in Tid /\ Live(n) /\ S.notify /\ S.state \in {"Init", "Confirm"} /\ S \in Transaction
  <2>1. SaveOK(m)
    BY DEF GoodsOK, CallsOK
  <2>2. n \in Tid
    BY <1>1 DEF IInv, Typed, TidsNamed
  <2> QED BY <1>1, <2>1, <2>2, TransTyped DEF SaveOK, IInv
<1>3. /\ GoesOn(n) /\ trans'[n].state = "Null" /\ rpcs' = rpcs \ {m}
  BY <1>1, <1>2, TradeSaveGoesOn DEF IInv, Finished
<1>4. trans'[n] = Destroyed(S)
  <2> HIDE DEF n
  <2> QED BY <1>1, <1>2 DEF IInv, Typed, TypeOK
<1>5. ~StartAsked(n) /\ ~(n > lastTid)
  BY <1>2, LiveIsKnown DEF GoodsOK, TransGoods, NamedOK
<1> HIDE DEF n, S
<1>6. /\ trans'[n] \in Transaction /\ trans'[n].pair = S.pair /\ trans'[n].notify
      /\ \A t \in Tid : t # n => trans'[t] = trans[t]
      /\ \A r \in Role : trans'[n].trader[r].modified = S.trader[r].modified
  <2>1. \A r \in Role : Destroyed(S).trader[r] = [NewTrader EXCEPT !.modified = S.trader[r].modified]
    BY <1>2 DEF Destroyed, Transaction
  <2>2. \A r \in Role : [NewTrader EXCEPT !.modified = S.trader[r].modified].modified = S.trader[r].modified
    BY DEF NewTrader
  <2>3. trans'[n] \in Transaction /\ trans'[n].pair = S.pair /\ trans'[n].notify
    BY <1>2, <1>3 DEF GoesOn, Follows, S
  <2>4. \A t \in Tid : t # n => trans'[t] = trans[t]
    BY <1>3 DEF GoesOn, IInv, Typed, TypeOK
  <2>5. \A r \in Role : trans'[n].trader[r].modified = S.trader[r].modified
    BY <1>4, <2>1, <2>2
  <2> QED BY <2>3, <2>4, <2>5
<1>7. TransOK(n)'
  BY <1>3 DEF TransOK, Engaged, Begins, CanDiscard, CanUpdate, CanConfirm
<1>8. Live(n)'
  BY <1>3 DEF Live
<1>9. \A r \in Role : Changed(n, r) => Changed(n, r)'
  BY <1>1, <1>2, <1>3, <1>6, <1>8 DEF Changed, S
<1>10. ASSUME NEW x \in rpcs, x \in rpcs', x.tid = n PROVE InventoryOK(x)' /\ SaveOK(x)'
  <2>1. x.op # "TradeSave"
    BY <1>1, <1>3, <1>10 DEF GoodsOK, OneCall, n
  <2>2. x.op # "TradeInventory"
    BY <1>2, <1>10 DEF GoodsOK, CallsOK, InventoryOK, S
  <2> QED BY <2>1, <2>2 DEF InventoryOK, SaveOK
<1> QED BY <1>1, <1>2, <1>3, <1>5, <1>6, <1>7, <1>8, <1>9, <1>10, OneTransaction DEF S, HeardOrNot

\* The report that gdeliveryd hears is the only one of that player and trade; if it is
\* good the player is locked, or was dropped since.
LEMMA HeardReport ==
    ASSUME IInv, GoodsOK, NEW m, Heard(m), m.op = "GTradeStart_Re"
    PROVE  /\ m.tid \in Tid /\ m.role \in Role /\ traderMap[m.role] # m.tid
           /\ ~Untouched(m.tid) /\ ~StartAsked(m.tid) /\ ~(m.tid > lastTid)
           /\ \A i \in DOMAIN toDelivery' : ~IsStartRe(i, m.tid, m.role)'
           /\ Live(m.tid) => m.role \in Parties(trans[m.tid])
           /\ Live(m.tid) /\ m.ok => Attached(m.role, m.tid)
<1>1. m \in ToDelivery /\ m.tid \in Tid /\ m.role \in Role
  <2>1. m \in ToDelivery /\ m.tid \in Tid
    BY HeardEffect, PendingTyped DEF IInv
  <2> QED BY <2>1 DEF ToDelivery
<1> DEFINE n == m.tid
           r == m.role
<1> HIDE DEF n, r
<1>2. n \in Tid /\ r \in Role /\ n = m.tid /\ r = m.role
  BY <1>1 DEF n, r
<1>3. /\ 1 \in DOMAIN toDelivery /\ IsStartRe(1, n, r) /\ toDelivery[1] = m
      /\ \A i \in DOMAIN toDelivery' : i + 1 # 1 /\ i + 1 \in DOMAIN toDelivery /\ toDelivery'[i] = toDelivery[i + 1]
  <2>1. toDelivery \in Seq(ToDelivery) /\ toDelivery # <<>> /\ m = Head(toDelivery)
        /\ toDelivery' = Tail(toDelivery)
    BY DEF IInv, Typed, TypeOK, Heard
  <2>2. 1 \in DOMAIN toDelivery /\ toDelivery[1] = m
    BY <2>1
  <2>3. \A i \in DOMAIN toDelivery' : i + 1 # 1 /\ i + 1 \in DOMAIN toDelivery /\ toDelivery'[i] = toDelivery[i + 1]
    BY <2>1
  <2> QED BY <1>2, <2>2, <2>3 DEF IsStartRe
<1>4. /\ ReportOK(1, n, r) /\ TraderOK(n, r) /\ NamedOK(n) /\ PlayerOK(r)
  BY <1>2, <1>3 DEF GoodsOK, RoleOK, TransGoods
<1>5. traderMap[r] # n /\ (Live(n) => r \in Parties(trans[n]))
  BY <1>3, <1>4 DEF ReportOK
<1>6. ~Untouched(n)
  BY <1>2, <1>3 DEF Untouched
<1>7. \A i \in DOMAIN toDelivery' : ~IsStartRe(i, n, r)'
  <2> SUFFICES ASSUME NEW i \in DOMAIN toDelivery', IsStartRe(i, n, r)' PROVE FALSE
    OBVIOUS
  <2>1. IsStartRe(i + 1, n, r)
    BY <1>3 DEF IsStartRe
  <2> QED BY <1>3, <1>4, <2>1 DEF ReportOK
<1>8. Live(n) /\ m.ok => Attached(r, n)
  <2> SUFFICES ASSUME Live(n), m.ok PROVE Attached(r, n)
    OBVIOUS
  <2>1. NoLateSave(r) /\ (InLock(r, n) \/ LogoutPending(r))
    BY <1>3, <1>4 DEF ReportOK, LogoutPending
  <2>2. ~InTrade(r, n, "wait_trade")
    BY <1>3, <1>4 DEF TraderOK
  <2> QED BY <1>4, <2>1, <2>2 DEF Attached, PlayerOK
<1> QED BY <1>2, <1>4, <1>5, <1>6, <1>7, <1>8 DEF NamedOK

\* A transaction that lacks a trader begins, or is over.
LEMMA LacksTrader ==
    ASSUME IInv, GoodsOK, NEW n \in Tid, Live(n), NEW r \in Parties(trans[n]), traderMap[r] # n
    PROVE  /\ trans[n] \in Transaction /\ Parties(trans[n]) \subseteq Role
           /\ trans[n].state = "Null" \/ (Begins(trans[n]) /\ trans[n].state \in {"Init", "Init_half"})
           /\ NoTradeCall(n)
           /\ \A x \in Role : Changed(n, x) <=>
                 \/ trans[n].state = "Null" /\ trans[n].notify /\ trans[n].trader[x].modified
                 \/ TradeEnd(n, x, TRUE) \in toGs /\ TradeEnd(n, x, FALSE) \notin toGs
           /\ Begins(trans[n]) =>
                 \A x \in Parties(trans[n]) :
                    /\ trans[n].trader[x].exchg = {}
                    /\ trans[n].trader[x].state = "INIT_HALF" => traderMap[x] = n
<1>1. trans[n] \in Transaction /\ Parties(trans[n]) \subseteq Role /\ trans[n].state \in TransState
  BY TransTyped, TransactionFields, PartiesTyped DEF IInv
<1>2. TransOK(n)
  BY DEF GoodsOK, TransGoods
<1>3. ~Engaged(trans[n])
  BY <1>2 DEF TransOK
<1>4. trans[n].state \in {"Null", "Init_half"} \/ (trans[n].state = "Init" /\ ~trans[n].notify)
  BY <1>1, <1>3 DEF Engaged, CanDiscard, CanUpdate, CanConfirm, TransState
<1>5. NoTradeCall(n)
  BY <1>4 DEF GoodsOK, CallsOK, InventoryOK, SaveOK, NoTradeCall
<1>6. trans[n].state = "Null" \/ (Begins(trans[n]) /\ trans[n].state \in {"Init", "Init_half"})
  BY <1>4 DEF Begins
<1>7. \A x \in Role : Changed(n, x) <=>
         \/ trans[n].state = "Null" /\ trans[n].notify /\ trans[n].trader[x].modified
         \/ TradeEnd(n, x, TRUE) \in toGs /\ TradeEnd(n, x, FALSE) \notin toGs
  BY <1>4 DEF Changed
<1>8. Begins(trans[n]) =>
         \A x \in Parties(trans[n]) :
            /\ trans[n].trader[x].exchg = {}
            /\ trans[n].trader[x].state = "INIT_HALF" => traderMap[x] = n
  BY <1>2 DEF TransOK
<1> QED BY <1>1, <1>5, <1>6, <1>7, <1>8

\* What a report does to a transaction that lives.
LEMMA ReportedGoods ==
    ASSUME IInv, GoodsOK, NEW m, Heard(m), m.op = "GTradeStart_Re",
           NEW n \in Tid, n = m.tid, NEW r \in Role, r = m.role, Live(n), GoesOn(n),
           UNCHANGED <<lastTid, gs, db, toGs>>, TransOK(n)',
           \A x \in Role : Changed(n, x) => Changed(n, x)',
           \/ UNCHANGED traderMap
           \/ m.ok /\ traderMap[r] = NoTid /\ traderMap' = [traderMap EXCEPT ![r] = n],
           \/ UNCHANGED rpcs
           \/ \E c : rpcs' = rpcs \cup {c} /\ c.op = "TradeInventory" /\ c.tid = n /\ InventoryOK(c)'
    PROVE  GoodsOK'
<1>1. /\ traderMap[r] # n /\ ~StartAsked(n) /\ ~(n > lastTid)
      /\ \A i \in DOMAIN toDelivery' : ~IsStartRe(i, n, r)'
      /\ r \in Parties(trans[n]) /\ (m.ok => Attached(r, n))
  BY HeardReport
<1>2. /\ trans'[n] \in Transaction /\ trans'[n].pair = trans[n].pair
      /\ \A t \in Tid : t # n => trans'[t] = trans[t]
  BY DEF GoesOn, Follows, IInv, Typed, TypeOK
<1>3. NoTradeCall(n)
  BY <1>1, LacksTrader
<1>4. ASSUME NEW x \in rpcs, x.tid = n PROVE InventoryOK(x)' /\ SaveOK(x)'
  BY <1>3, <1>4 DEF NoTradeCall, InventoryOK, SaveOK
<1>5. ASSUME NEW x \in rpcs', x \notin rpcs
      PROVE  /\ x.tid = n /\ x.op \in {"TradeInventory", "TradeSave"} /\ InventoryOK(x)' /\ SaveOK(x)'
             /\ \A y \in rpcs' : y.op = x.op /\ y.tid = n => y = x
  <2>1. PICK c : rpcs' = rpcs \cup {c} /\ c.op = "TradeInventory" /\ c.tid = n /\ InventoryOK(c)'
    BY <1>5
  <2>2. x = c
    BY <1>5, <2>1
  <2> QED BY <1>3, <2>1, <2>2 DEF NoTradeCall, SaveOK
<1>6. \A x \in Role :
         \/ traderMap'[x] = traderMap[x]
         \/ traderMap[x] \in {n, NoTid} /\ traderMap'[x] = NoTid
         \/ /\ traderMap[x] \in {n, NoTid} /\ traderMap'[x] = n /\ Attached(x, n)
            /\ \A i \in DOMAIN toDelivery' : ~IsStartRe(i, n, x)'
  <2>1. traderMap \in [Role -> {NoTid} \cup Tid]
    BY DEF IInv, Typed, TypeOK
  <2> QED BY <1>1, <2>1
<1> QED BY <1>1, <1>2, <1>4, <1>5, <1>6, OneTransaction DEF HeardOrNot

HalfIn(S, r) == [S EXCEPT !.notify = TRUE, !.trader[r].state = "INIT_HALF"]

LEMMA HalfTrader ==
    ASSUME NEW S \in Transaction, NEW r \in Role,
           NEW T, T = HalfIn(S, r)
    PROVE  /\ T \in Transaction /\ T.pair = S.pair /\ T.notify /\ T.state = S.state
           /\ \A x \in Role : /\ T.trader[x].exchg = S.trader[x].exchg
                              /\ x # r => T.trader[x].state = S.trader[x].state
<1> DEFINE y == [S.trader[r] EXCEPT !.state = "INIT_HALF"]
           f == [S.trader EXCEPT ![r] = y]
<1>1. S.trader \in [Role -> Trader] /\ S.trader[r] \in Trader
  BY TransactionFields
<1>2. y \in Trader /\ y.exchg = S.trader[r].exchg
  BY <1>1 DEF Trader
<1>3. T = [S EXCEPT !.notify = TRUE, !.trader = f]
  BY DEF HalfIn, Transaction, Trader
<1> HIDE DEF y
<1>4. f \in [Role -> Trader] /\ f[r] = y /\ \A x \in Role : x # r => f[x] = S.trader[x]
  BY <1>1, <1>2
<1> HIDE DEF f
<1>5. T \in Transaction /\ T.pair = S.pair /\ T.notify /\ T.state = S.state /\ T.trader = f
  BY <1>3, <1>4 DEF Transaction
<1> QED BY <1>2, <1>4, <1>5

LEMMA AttachGoods ==
    ASSUME IInv, GoodsOK, NEW m, Heard(m), m.op = "GTradeStart_Re", m.ok,
           NEW n \in Tid, n = m.tid, NEW r \in Role, r = m.role, Live(n), r \in Parties(trans[n]),
           traderMap[r] = NoTid, trans[n].state \in {"Init", "Init_half"}, Attach(n, r),
           UNCHANGED <<lastTid, gs, db, toGs>>
    PROVE  GoodsOK'
<1> DEFINE S == trans[n]
           T == [S EXCEPT !.notify = TRUE, !.trader[r].state = "INIT_HALF"]
           c == Call("TradeInventory", n, Parties(T), NoPockets)
<1>1. traderMap[r] # n
  BY DEF Tid, NoTid
<1>2. /\ S \in Transaction /\ Parties(S) \subseteq Role /\ Begins(S)
      /\ \A x \in Role : Changed(n, x) => TradeEnd(n, x, TRUE) \in toGs /\ TradeEnd(n, x, FALSE) \notin toGs
      /\ \A x \in Parties(S) : /\ S.trader[x].exchg = {}
                               /\ S.trader[x].state = "INIT_HALF" => traderMap[x] = n
  BY <1>1, LacksTrader
<1>3. /\ GoesOn(n) /\ traderMap' = [traderMap EXCEPT ![r] = n]
  BY AttachGoesOn DEF IInv
<1>4. \/ /\ Set(n, [T EXCEPT !.state = "Init_half"])
         /\ UNCHANGED rpcs
      \/ /\ \A x \in Parties(T) : T.trader[x].state = "INIT_HALF"
         /\ Set(n, [T EXCEPT !.state = "SetPossession"])
         /\ rpcs' = rpcs \cup {c}
      \/ /\ Set(n, Destroyed(T))
         /\ UNCHANGED rpcs
  BY DEF Attach
<1>5. \A x : Set(n, x) => trans'[n] = x
  BY SetEffect DEF IInv
<1>6. traderMap'[r] = n /\ \A x \in Role : x # r => traderMap'[x] = traderMap[x]
  BY <1>3 DEF IInv, Typed, TypeOK
<1> HIDE DEF S
<1>7. /\ T \in Transaction /\ T.pair = S.pair /\ T.notify
      /\ \A x \in Role : /\ T.trader[x].exchg = S.trader[x].exchg
                         /\ x # r => T.trader[x].state = S.trader[x].state
  <2>1. T = HalfIn(S, r)
    BY DEF HalfIn
  <2> HIDE DEF T
  <2> QED BY <1>2, <2>1, HalfTrader
<1>8. Parties(T) = Parties(S) /\ Parties(T) \subseteq Role
  BY <1>2, <1>7 DEF Parties
<1>9. \A x \in Parties(T) : T.trader[x].exchg = {} /\ (T.trader[x].state = "INIT_HALF" => traderMap'[x] = n)
  BY <1>2, <1>6, <1>7, <1>8
<1>10. PICK d : /\ d = c /\ d.op = "TradeInventory" /\ d.tid = n /\ d.waiting
                /\ d.who = Parties(T) /\ d.at = "server"
  <2>1. /\ c.op = "TradeInventory" /\ c.tid = n /\ c.waiting
        /\ c.who = Parties(T) /\ c.at = "server"
    BY DEF Call, c
  <2> QED BY <2>1
<1> HIDE DEF T, c
<1>11. \A x \in Role : Changed(n, x) => Changed(n, x)'
  BY <1>2 DEF Changed
<1>12. CASE Set(n, [T EXCEPT !.state = "Init_half"]) /\ UNCHANGED rpcs
  <2> DEFINE U == [T EXCEPT !.state = "Init_half"]
  <2>1. U.state = "Init_half" /\ U.trader = T.trader /\ U.pair = T.pair
    BY <1>7 DEF Transaction
  <2>2. trans'[n] = U
    BY <1>5, <1>12
  <2> HIDE DEF U
  <2>3. Parties(trans[n])' = Parties(T)
    BY <2>1, <2>2 DEF Parties
  <2>4. TransOK(n)'
    BY <1>9, <2>1, <2>2, <2>3 DEF TransOK, Engaged, Begins, CanDiscard, CanUpdate, CanConfirm
  <2> QED BY <1>3, <1>11, <1>12, <2>4, ReportedGoods
<1>13. CASE /\ \A x \in Parties(T) : T.trader[x].state = "INIT_HALF"
            /\ Set(n, [T EXCEPT !.state = "SetPossession"])
            /\ rpcs' = rpcs \cup {d}
  <2> DEFINE U == [T EXCEPT !.state = "SetPossession"]
  <2>1. U.state = "SetPossession" /\ U.trader = T.trader /\ U.pair = T.pair /\ U.notify /\ U \in Transaction
    BY <1>7 DEF Transaction, TransState
  <2>2. trans'[n] = U
    BY <1>5, <1>13
  <2> HIDE DEF U
  <2>3. Parties(trans[n])' = Parties(T)
    BY <2>1, <2>2 DEF Parties
  <2>4. TransOK(n)'
    BY <1>9, <1>13, <2>1, <2>2, <2>3 DEF TransOK, CanDiscard, CanUpdate, CanConfirm
  <2>5. Live(n)'
    BY <2>1, <2>2, TransactionFields DEF Live
  <2>6. InventoryOK(d)'
    <3>1. d.who = Parties(trans[n])'
      BY <1>10, <2>3
    <3>2. trans'[n].state = "SetPossession"
      BY <2>1, <2>2
    <3> QED BY <1>10, <2>5, <3>1, <3>2 DEF InventoryOK
  <2> QED BY <1>3, <1>10, <1>11, <1>13, <2>4, <2>6, ReportedGoods
<1>14. CASE Set(n, Destroyed(T)) /\ UNCHANGED rpcs
  <2>1. trans'[n].state = "Null"
    BY <1>5, <1>7, <1>14, DestroyedTyped
  <2>2. TransOK(n)'
    BY <2>1 DEF TransOK, Engaged, Begins, CanDiscard, CanUpdate, CanConfirm
  <2> QED BY <1>3, <1>11, <1>14, <2>2, ReportedGoods
<1> QED BY <1>4, <1>10, <1>12, <1>13, <1>14

LEMMA StartReGoods == ASSUME IInv, GoodsOK, NEW m, GTradeStart_Re(m) PROVE GoodsOK'
<1> DEFINE n == m.tid
           r == m.role
           S == trans[n]
           T == [S EXCEPT !.notify = @ \/ m.ok]
<1>1. /\ m \in ToDelivery /\ n \in Tid /\ r \in Role /\ Heard(m) /\ m.op = "GTradeStart_Re"
      /\ UNCHANGED <<lastTid, gs, db, toGs>> /\ m.ok \in BOOLEAN
  BY StartReGoesOn DEF IInv, GTradeStart_Re, ToDelivery
<1>2. \/ /\ Live(n) /\ m.ok /\ S.state \in {"Init", "Init_half"} /\ r \in Parties(S)
         /\ traderMap[r] = NoTid /\ Attach(n, r)
      \/ Live(n) /\ Set(n, Destroyed(T)) /\ UNCHANGED <<traderMap, rpcs>>
      \/ ~Live(n) /\ UNCHANGED <<trans, traderMap, rpcs>>
  BY DEF GTradeStart_Re
<1>3. CASE /\ Live(n) /\ m.ok /\ S.state \in {"Init", "Init_half"} /\ r \in Parties(S)
           /\ traderMap[r] = NoTid /\ Attach(n, r)
  <2> HIDE DEF n, r
  <2> QED BY <1>1, <1>3, AttachGoods DEF n, r
<1>4. CASE Live(n) /\ Set(n, Destroyed(T)) /\ UNCHANGED <<traderMap, rpcs>>
  <2>1. trans'[n] = Destroyed(T) /\ S \in Transaction
    BY <1>1, <1>4, SetEffect, TransTyped DEF IInv
  <2>2. r \in Parties(S) /\ traderMap[r] # n
    BY <1>1, <1>4, HeardReport
  <2> HIDE DEF n, r
  <2>3. \A x \in Role : Changed(n, x) =>
               \/ S.state = "Null" /\ S.notify /\ S.trader[x].modified
               \/ TradeEnd(n, x, TRUE) \in toGs /\ TradeEnd(n, x, FALSE) \notin toGs
    BY <1>1, <1>4, <2>2, LacksTrader
  <2> HIDE DEF S
  <2>4. /\ T \in Transaction /\ T.pair = S.pair /\ T.state = S.state /\ T.trader = S.trader
        /\ T.notify = (S.notify \/ m.ok) /\ T.halfway = S.halfway
    BY <1>1, <2>1 DEF Transaction
  <2> HIDE DEF T
  <2>5. Agreed(S) => Agreed(T)
    BY <2>4 DEF Agreed, CanUpdate, CanDiscard, CanConfirm, Parties, Deal
  <2>6. Follows(S, T)
    BY <2>4, <2>5 DEF Follows
  <2>7. GoesOn(n)
    BY <1>1, <1>4, <2>6, DestroyedGoesOn DEF S, IInv
  <2>8. trans'[n].state = "Null" /\ trans'[n].notify = T.notify
    BY <2>1, <2>4, DestroyedTyped
  <2>9. \A x \in Role : trans'[n].trader[x].modified = S.trader[x].modified
    <3>1. \A x \in Role : Destroyed(T).trader[x] = [NewTrader EXCEPT !.modified = T.trader[x].modified]
      BY <2>4 DEF Destroyed, Transaction
    <3>2. \A x \in Role : [NewTrader EXCEPT !.modified = T.trader[x].modified].modified = T.trader[x].modified
      BY DEF NewTrader
    <3> QED BY <2>1, <2>4, <3>1, <3>2
  <2>10. TransOK(n)'
    BY <2>8 DEF TransOK, Engaged, Begins, CanDiscard, CanUpdate, CanConfirm
  <2>11. Live(n)'
    BY <2>8 DEF Live
  <2>12. \A x \in Role : Changed(n, x) => Changed(n, x)'
    <3> SUFFICES ASSUME NEW x \in Role, Changed(n, x) PROVE Changed(n, x)'
      OBVIOUS
    <3>1. CASE S.state = "Null" /\ S.notify /\ S.trader[x].modified
      BY <2>4, <2>8, <2>9, <2>11, <3>1 DEF Changed
    <3>2. CASE TradeEnd(n, x, TRUE) \in toGs /\ TradeEnd(n, x, FALSE) \notin toGs
      BY <1>1, <3>2 DEF Changed
    <3> QED BY <2>3, <3>1, <3>2
  <2> QED BY <1>1, <1>4, <2>7, <2>10, <2>12, ReportedGoods DEF n, r
<1>5. CASE ~Live(n) /\ UNCHANGED <<trans, traderMap, rpcs>>
  BY <1>1, <1>5, HeardInVain DEF HeardOrNot
<1> QED BY <1>2, <1>3, <1>4, <1>5

\* A transaction is forgotten: nobody waits for its end, and gs hears whose bag changed.
LEMMA UpdateGoods == ASSUME IInv, GoodsOK, NEW n \in Tid, Update(n) PROVE GoodsOK'
<1> DEFINE S == trans[n]
<1>1. /\ Live(n) /\ S.state # "Confirm" /\ (S.state # "Null" => ~Expected(n))
      /\ trans' = [trans EXCEPT ![n] = NoTransaction]
      /\ traderMap' = [r \in Role |-> IF traderMap[r] = n THEN NoTid ELSE traderMap[r]]
      /\ toGs' = toGs \cup {TradeEnd(n, r, S.trader[r].modified) :
                     r \in {x \in Parties(S) : S.notify /\ S.state # "Init"}}
      /\ UNCHANGED <<lastTid, gs, db, toDelivery, rpcs>>
  BY DEF Update, Set
<1>2. /\ S \in Transaction /\ Parties(S) \subseteq Role
      /\ \A r \in Role : S.trader[r].modified \in BOOLEAN
  BY <1>1, TransTyped, TransactionFields, PartiesTyped, TraderFields DEF IInv
<1>3. trans'[n] = NoTransaction /\ \A t \in Tid : t # n => trans'[t] = trans[t]
  BY <1>1 DEF IInv, Typed, TypeOK
<1>4. ~Live(n)' /\ TransOK(n)'
  BY <1>3 DEF Live, NoTransaction, TransOK
<1>5. ~(n > lastTid)
  BY <1>1, LiveIsKnown
<1>6. ~StartAsked(n)
  <2> SUFFICES ASSUME StartAsked(n) PROVE FALSE
    OBVIOUS
  <2>1. S.state = "Init"
    BY DEF GoodsOK, TransGoods, NamedOK
  <2>2. \E m \in toGs : m.tid = n
    BY DEF StartAsked, TradeStart
  <2> QED BY <1>1, <2>1, <2>2 DEF Expected
<1>7. ASSUME NEW x \in rpcs, x.tid = n PROVE InventoryOK(x)' /\ SaveOK(x)'
  <2>1. InventoryOK(x) /\ SaveOK(x)
    BY <1>7 DEF GoodsOK, CallsOK
  <2>2. x.waiting => S.state = "Null"
    BY <1>1, <1>7 DEF Expected
  <2>3. x.op \notin {"TradeInventory", "TradeSave"}
    BY <1>7, <2>1, <2>2 DEF InventoryOK, SaveOK
  <2> QED BY <2>3 DEF InventoryOK, SaveOK
<1>8. ASSUME NEW r \in Role, InLock(r, n), Changed(n, r) PROVE Changed(n, r)'
  <2>1. LockOK(n, r)
    BY DEF IInv, LocksOK
  <2>2. r \in Parties(S) /\ TradeEnd(n, r, TRUE) \notin toGs /\ TradeEnd(n, r, FALSE) \notin toGs
    BY <1>1, <1>8, <2>1 DEF LockOK, InLock, InTrade, EndTold
  <2>3. S.state \in {"Init", "Null"} /\ S.notify /\ S.trader[r].modified
    BY <1>1, <1>8, <2>2 DEF Changed
  <2>4. S.state # "Init"
    <3>1. AwaitedOK(n)
      BY DEF IInv, SavesOK
    <3> QED BY <1>1, <2>3, <3>1 DEF AwaitedOK, SaveAwaited, Expected
  <2>5. S.trader[r].modified = TRUE
    BY <1>2, <2>3
  <2> HIDE DEF S
  <2>6. TradeEnd(n, r, TRUE) \in toGs'
    BY <1>1, <2>2, <2>3, <2>4, <2>5
  <2>7. TradeEnd(n, r, FALSE) \notin toGs'
    BY <1>1, <2>2, <2>5 DEF TradeEnd
  <2> QED BY <2>6, <2>7 DEF Changed
<1> HIDE DEF S
<1>9. /\ toGs \subseteq toGs'
      /\ \A x \in toGs' : x \notin toGs => \E r \in Role, read \in BOOLEAN : x = TradeEnd(n, r, read)
  BY <1>1, <1>2
<1>10. \A r \in Role :
          \/ traderMap'[r] = traderMap[r]
          \/ traderMap[r] \in {n, NoTid} /\ traderMap'[r] = NoTid
  BY <1>1
<1> QED BY <1>1, <1>3, <1>4, <1>5, <1>6, <1>7, <1>8, <1>9, <1>10, OneTransaction DEF HeardOrNot

\* A new transaction, that nobody knows of but gs, which may be asked to lock its traders.
LEMMA CreateGoods == ASSUME IInv, GoodsOK, NEW p \in Pairs, Create(p) PROVE GoodsOK'
<1>0. lastTid \in Nat /\ Typed /\ traderMap \in [Role -> {NoTid} \cup Tid]
  BY DEF IInv, Typed, TypeOK, Tid, NoTid
<1>1. PICK n \in Tid, sent \in BOOLEAN :
      /\ n = lastTid' /\ n = lastTid + 1
      /\ trans' = [trans EXCEPT ![n] =
             [pair |-> p, state |-> IF sent THEN "Init" ELSE "Null",
              trader |-> [r \in Role |-> NewTrader], notify |-> FALSE, halfway |-> FALSE]]
      /\ toGs' = toGs \cup {m \in {TradeStart(n, p)} : sent}
      /\ UNCHANGED <<traderMap, gs, db, toDelivery, rpcs>>
  <2>1. lastTid' \in Tid /\ lastTid' = lastTid + 1
    BY CreateEffect DEF IInv
  <2> QED BY <2>1 DEF Create
<1> DEFINE T == [pair |-> p, state |-> IF sent THEN "Init" ELSE "Null",
                 trader |-> [r \in Role |-> NewTrader], notify |-> FALSE, halfway |-> FALSE]
<1>2. trans'[n] = T /\ \A t \in Tid : t # n => trans'[t] = trans[t]
  BY <1>1 DEF IInv, Typed, TypeOK
<1>3. /\ T.pair = p /\ T.state = (IF sent THEN "Init" ELSE "Null") /\ ~T.notify
      /\ \A r \in Role : T.trader[r] = NewTrader
  OBVIOUS
<1> HIDE DEF T
<1>4. n > lastTid /\ Untouched(n)
  <2>1. n > lastTid
    BY <1>0, <1>1
  <2> QED BY <2>1 DEF GoodsOK, TransGoods, NamedOK
<1>5. ASSUME NEW r \in Role PROVE Unknown(n, r)
  BY <1>4, <1>5 DEF IInv, LocksOK, LockOK
<1>6. ASSUME NEW r \in Role PROVE RoleOK(r)'
  <2>1. RoleOK(r) /\ traderMap[r] \in Tid \cup {NoTid}
    BY <1>0 DEF GoodsOK
  <2>2. \A t \in Tid : Live(t)' => Untouched(t) \/ (Live(t) /\ trans'[t].pair = trans[t].pair)
    BY <1>2, <1>4 DEF Live
  <2>3. ASSUME NEW t \in Tid, InLock(r, t), Changed(t, r) PROVE Changed(t, r)'
    <3>1. t # n
      BY <1>5, <2>3 DEF Unknown, InLock, InTrade
    <3>2. \A read \in BOOLEAN : TradeEnd(t, r, read) \in toGs' <=> TradeEnd(t, r, read) \in toGs
      BY <1>1 DEF TradeEnd, TradeStart
    <3> QED BY <1>2, <2>3, <3>1, <3>2 DEF Changed, Live
  <2> DEFINE u == traderMap[r]
  <2>4. u \in Tid \cup {NoTid} /\ traderMap'[r] = u /\ u = traderMap[r]
    BY <1>1, <2>1
  <2> HIDE DEF u
  <2> QED BY <1>0, <1>1, <2>1, <2>2, <2>3, <2>4, DeliveryRole DEF HeardOrNot
<1>7. OneOwner' /\ OneCall'
  BY <1>1 DEF GoodsOK, OneOwner, OneCall
<1>8. ASSUME NEW x \in rpcs' PROVE InventoryOK(x)' /\ SaveOK(x)'
  <2>1. InventoryOK(x) /\ SaveOK(x) /\ x \in rpcs /\ x.tid # n
    BY <1>1, <1>4 DEF GoodsOK, CallsOK, Untouched
  <2>2. CASE x.op \in {"TradeInventory", "TradeSave"}
    <3>1. x.tid \in Tid
      BY <2>1, <2>2 DEF InventoryOK, SaveOK, IInv, Typed, TidsNamed
    <3> QED BY <1>1, <1>2, <2>1, <3>1 DEF InventoryOK, SaveOK, Live, Parties, Has
  <2>3. CASE x.op \notin {"TradeInventory", "TradeSave"}
    BY <2>3 DEF InventoryOK, SaveOK
  <2> QED BY <2>2, <2>3
<1>9. TransOK(n)'
  <2>1. Parties(trans[n])' \subseteq Role
    BY <1>2, <1>3, PairTyped DEF Parties
  <2>2. \A r \in Role : trans'[n].trader[r].exchg = {} /\ trans'[n].trader[r].state # "INIT_HALF"
    BY <1>2, <1>3 DEF NewTrader
  <2>3. ~Engaged(trans[n])' /\ ~CanDiscard(trans[n])'
    BY <1>2, <1>3 DEF Engaged, CanDiscard, CanUpdate, CanConfirm
  <2> QED BY <2>1, <2>2, <2>3 DEF TransOK
<1>10. ASSUME NEW t \in Tid PROVE NamedOK(t)' /\ TransOK(t)'
  <2>1. NamedOK(t) /\ TransOK(t)
    BY DEF GoodsOK, TransGoods
  <2>2. Untouched(t) => Untouched(t)'
    BY <1>1 DEF Untouched
  <2>3. CASE t = n
    <3>1. ~StartAsked(n)
      <4>1. PICK r \in Role : TRUE
        BY PairTyped
      <4> QED BY <1>5 DEF Unknown, StartAsked
    <3>2. StartAsked(n)' => sent
      BY <1>1, <3>1 DEF StartAsked
    <3>3. StartAsked(n)' => Live(n)' /\ trans'[n].state = "Init" /\ ~trans'[n].notify
      BY <1>2, <1>3, <3>2 DEF Live
    <3> QED BY <1>4, <1>9, <2>2, <2>3, <3>3 DEF NamedOK
  <2>4. CASE t # n
    <3>1. StartAsked(t)' => StartAsked(t)
      BY <1>1, <2>4 DEF StartAsked, TradeStart
    <3>2. t > lastTid' => t > lastTid
      BY <1>0, <1>1 DEF Tid
    <3>3. TransOK(t)'
      BY <1>1, <1>2, <2>1, <2>4 DEF TransOK, Live, Engaged, Begins, CanDiscard, CanUpdate, CanConfirm, Parties
    <3> QED BY <1>2, <2>1, <2>2, <2>4, <3>1, <3>2, <3>3 DEF NamedOK, Live
  <2> QED BY <2>3, <2>4
<1> QED BY <1>6, <1>7, <1>8, <1>10 DEF GoodsOK, CallsOK, TransGoods

LEMMA DeliveryGoods == ASSUME IInv, GoodsOK, Delivery, ~doubt' PROVE GoodsOK'
<1>1. ASSUME NEW p \in Pairs, Create(p) PROVE GoodsOK'
  BY <1>1, CreateGoods
<1>2. ASSUME NEW i \in DOMAIN toDelivery,
             GTradeStart_Re(toDelivery[i]) \/ GTradeDiscard(toDelivery[i]) \/ PlayerLogout(toDelivery[i])
      PROVE  GoodsOK'
  <2>1. PICK m : m = toDelivery[i]
    OBVIOUS
  <2>2. GTradeStart_Re(m) \/ GTradeDiscard(m) \/ PlayerLogout(m)
    BY <1>2, <2>1
  <2> QED BY <2>2, StartReGoods, DiscardGoods, LogoutGoods
<1>3. ASSUME NEW m \in rpcs, NEW ok \in BOOLEAN,
             TradeInventoryReturns(m, ok) \/ TradeSaveReturns(m, ok)
      PROVE  GoodsOK'
  BY <1>3, InventoriesGoods, SavedGoods
<1>4. ASSUME NEW t \in Tid, NEW r \in Role,
             \/ \E g \in Goods, paid \in BOOLEAN : AddGoods(t, r, g, paid) \/ RemoveGoods(t, r, g, paid)
             \/ \E room \in BOOLEAN : Submit(t, r, room)
             \/ MoveObject(t, r)
      PROVE  GoodsOK'
  BY <1>4, RequestGoods
<1>5. ASSUME NEW t \in Tid, NEW r \in Role, Confirm(t, r) PROVE GoodsOK'
  BY <1>5, ConfirmGoods
<1>6. ASSUME NEW t \in Tid, TradeDiscard(t) \/ Update(t) PROVE GoodsOK'
  BY <1>6, DiscardGoods, UpdateGoods
<1>7. ASSUME NEW r \in Role, UserDisconnect(r) PROVE GoodsOK'
  BY <1>7, LogoutGoods
<1> QED BY <1>1, <1>2, <1>3, <1>4, <1>5, <1>6, <1>7 DEF Delivery

-------------------------------------------------------------------------------
(* Whose the goods are: the theorem *)

\* Once there is doubt, it stays.
LEMMA DoubtStays == ASSUME [Next]_vars PROVE doubt => doubt'
<1>1. CASE Delivery
  <2>1. ASSUME NEW m, GTradeStart_Re(m) \/ GTradeDiscard(m) \/ PlayerLogout(m) PROVE UNCHANGED doubt
    BY <2>1 DEF GTradeStart_Re, GTradeDiscard, PlayerLogout, history
  <2>2. ASSUME NEW m \in rpcs, NEW ok \in BOOLEAN,
               TradeInventoryReturns(m, ok) \/ TradeSaveReturns(m, ok)
        PROVE  doubt => doubt'
    BY <2>2 DEF TradeInventoryReturns, TradeSaveReturns, history
  <2>3. ASSUME NEW t \in Tid, NEW r \in Role, NEW g \in Goods, NEW paid \in BOOLEAN,
               AddGoods(t, r, g, paid) \/ RemoveGoods(t, r, g, paid)
        PROVE  UNCHANGED doubt
    BY <2>3 DEF AddGoods, RemoveGoods, Moved, history
  <2>4. ASSUME NEW t \in Tid, NEW r \in Role, NEW room \in BOOLEAN,
               Submit(t, r, room) \/ MoveObject(t, r) \/ Confirm(t, r)
        PROVE  UNCHANGED doubt
    BY <2>4 DEF Submit, MoveObject, Confirm, history
  <2>5. ASSUME NEW t \in Tid, TradeDiscard(t) \/ Update(t) PROVE UNCHANGED doubt
    BY <2>5 DEF TradeDiscard, Update, history
  <2>6. ASSUME NEW p \in Pairs, Create(p) PROVE UNCHANGED doubt
    BY <2>6 DEF Create, history
  <2>7. ASSUME NEW r \in Role, UserDisconnect(r) PROVE UNCHANGED doubt
    BY <2>7 DEF UserDisconnect, history
  <2> QED BY <1>1, <2>1, <2>2, <2>3, <2>4, <2>5, <2>6, <2>7 DEF Delivery
<1>2. CASE GameServer
  <2>1. ASSUME NEW m, TradeStarts(m) PROVE UNCHANGED doubt
    BY <2>1 DEF TradeStarts, history
  <2>2. ASSUME NEW m, TradeComplete(m) PROVE UNCHANGED doubt
    BY <2>2 DEF TradeComplete, Drop, history
  <2>3. ASSUME NEW m, NEW r, NEW ok, PutRoleReturns(m, r, ok) \/ InventoryReturns(m, r, ok)
        PROVE  UNCHANGED doubt
    BY <2>3 DEF PutRoleReturns, InventoryReturns, Drop, history
  <2>4. ASSUME NEW r, LeavesBefore(r) \/ DiscardTrade(r) \/ CompleteTimesOut(r) \/ Save(r)
        PROVE  UNCHANGED doubt
    BY <2>4 DEF LeavesBefore, DiscardTrade, CompleteTimesOut, Save, Drop, history
  <2>5. ASSUME NEW r, Login(r) PROVE doubt => doubt'
    BY <2>5 DEF Login
  <2> QED BY <1>2, <2>1, <2>2, <2>3, <2>4, <2>5 DEF GameServer
<1>3. CASE Database
  BY <1>3 DEF Database, Fails, Read_Server, TradeSave_Server, PutRole_Server, history
<1>4. CASE UNCHANGED vars
  BY <1>4 DEF vars
<1> QED BY <1>1, <1>2, <1>3, <1>4 DEF Next

LEMMA GoodsStep == GInv /\ [Next]_vars => GInv'
<1> SUFFICES ASSUME GInv, [Next]_vars PROVE GInv'
  OBVIOUS
<1>1. IInv /\ IInv'
  BY TypedStep, SavesStep, LocksStep DEF GInv, IInv
<1> SUFFICES ASSUME ~doubt' PROVE GoodsOK'
  BY <1>1 DEF GInv
<1>2. GoodsOK
  BY DoubtStays DEF GInv
<1>3. CASE UNCHANGED vars
  BY <1>1, <1>2, <1>3, HeardInVain DEF vars, HeardOrNot
<1> QED BY <1>1, <1>2, <1>3, DeliveryGoods, GameServerGoods, DatabaseGoods DEF Next

LEMMA GoodsInit == Init => GoodsOK
<1> SUFFICES ASSUME Init PROVE GoodsOK
  OBVIOUS
<1>1. /\ trans = [t \in Tid |-> NoTransaction] /\ lastTid = 0
      /\ \A r \in Role : /\ traderMap[r] = NoTid /\ gs[r].state = "normal" /\ gs[r].tid = NoTid
                         /\ gs[r].pocket = {g \in Goods : Owner[g] = r}
                         /\ db[r].pocket = {g \in Goods : Owner[g] = r}
      /\ toGs = {} /\ toDelivery = <<>> /\ rpcs = {}
  BY DEF Init
<1>2. \A t \in Tid : t # NoTid /\ ~Live(t)
  BY <1>1 DEF Tid, NoTid, Live, NoTransaction
<1>3. OneOwner
  BY <1>1, TradeAssumption DEF OneOwner
<1>4. CallsOK /\ OneCall
  BY <1>1 DEF CallsOK, OneCall
<1>5. ASSUME NEW t \in Tid PROVE NamedOK(t) /\ TransOK(t)
  BY <1>1, <1>2 DEF NamedOK, TransOK, Untouched, StartAsked
<1>6. ASSUME NEW r \in Role PROVE RoleOK(r)
  <2>1. DOMAIN toDelivery = {}
    BY <1>1
  <2>2. PlayerOK(r)
    BY <1>1, <2>1 DEF PlayerOK, LogoutPending
  <2>3. \A t \in Tid : TraderOK(t, r)
    BY <1>1, <1>2 DEF TraderOK, InLock, InTrade
  <2> QED BY <1>1, <2>1, <2>2, <2>3 DEF RoleOK
<1> QED BY <1>3, <1>4, <1>5, <1>6 DEF GoodsOK, TransGoods

\* Every thing is in one bag of gamedbd, and a player that may use its bag on gs has
\* the one gamedbd has, whatever fails, times out or comes late in the saves of gs,
\* in TradeSave and in the messages of gs and gdeliveryd: as long as there is no doubt.
THEOREM GoodsStayConserved == Spec => []GoodsAreConserved
<1>1. Init => GInv
  BY TypedInit, TransactionsInit, LocksInit, GoodsInit DEF GInv, IInv
<1>2. GInv => GoodsAreConserved
  <2> SUFFICES ASSUME GoodsOK PROVE GoodsAreConserved
    BY DEF GInv, GoodsAreConserved
  <2>1. ASSUME NEW g \in Goods PROVE Cardinality({r \in Role : g \in db[r].pocket}) = 1
    <3>1. PICK o \in Role : \A x \in Role : g \in db[x].pocket <=> x = o
      BY DEF GoodsOK, OneOwner
    <3>2. {r \in Role : g \in db[r].pocket} = {o}
      BY <3>1
    <3> QED BY <3>2, FS_Singleton
  <2>2. \A r \in Role : gs[r].state = "normal" => gs[r].pocket = db[r].pocket
    BY DEF GoodsOK, RoleOK, PlayerOK
  <2> QED BY <2>1, <2>2 DEF GoodsAreConserved
<1> QED BY <1>1, <1>2, GoodsStep, PTL DEF Spec
=============================================================================
