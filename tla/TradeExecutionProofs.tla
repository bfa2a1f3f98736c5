------------------------ MODULE TradeExecutionProofs ------------------------
(***************************************************************************)
(* Theorems about TradeExecution, for any orders, users and refreshes.     *)
(***************************************************************************)
EXTENDS TradeExecution, TLAPS

(* The record, and every copy of it that somebody may still save. *)
Known ==
  {exec} \cup {lcopy[o] : o \in Orders} \cup {auto[o].exec : o \in AutoOrders}
         \cup {ucopy[u].exec : u \in Users}
         \cup {rcopy[r] : r \in Refreshers} \cup {rnext[r] : r \in Refreshers}

TradeTypes ==
  /\ status \in Statuses /\ exec \in Execs
  /\ dismissed \in BOOLEAN /\ named \subseteq Orders /\ hazard \subseteq Hazards

BrokerTypes ==
  /\ truth \in [Orders -> {"none", "open", "filled", "cancelled", "closed"}]
  /\ snap \in [LiveOrders -> {"none", "open", "filled", "cancelled", "closed"}]
  /\ newer \subseteq LiveOrders
  /\ position \in [LiveOrders -> {"none", "open", "closed"}]
  /\ sim \in [PaperOrders -> {None, "working", "filled", "closed"}]
  /\ pcopy \in [PaperOrders -> PaperCopies \cup {None}]

LinkTypes ==
  /\ lpc \in [Orders -> {"start", "check", "accept", "queued", "submitting", "place", "read",
                         "gate", "link", "linked", "end"}]
  /\ lcopy \in [Orders -> Execs] /\ auto \in [AutoOrders -> Copies]

UserTypes ==
  /\ upc \in [Users -> {"idle", "gate", "status", "exec"}]
  /\ ucopy \in [Users -> Copies]
  /\ want \in [Users -> {"Reviewed", "Accepted", "Dismissed"}]

RefreshTypes ==
  /\ rpc \in [Refreshers -> {"idle", "snapshot", "position", "expire", "save"}]
  /\ rcopy \in [Refreshers -> Execs] /\ rnext \in [Refreshers -> Execs]
  /\ mode \in [Refreshers -> {"orders", "positions", "sweep"}]

(* An order that a record names was placed; so was one that a request is    *)
(* linking, or whose row somebody has read, and none that is still to be.  *)
NamedIsPlaced == \A e \in Known : e.order # None => truth[e.order] # "none"

PlacedInv ==
  /\ \A o \in Orders :
       /\ lpc[o] \in {"read", "gate", "link", "linked"} => truth[o] # "none"
       /\ lpc[o] \in {"start", "check", "accept", "queued", "submitting", "place"} => truth[o] = "none"
  /\ \A o \in PaperOrders : pcopy[o] # None => truth[o] # "none"

(* The steps of the automation are taken by its own orders, whose base      *)
(* record names no order.                                                  *)
AutoInv ==
  /\ \A o \in Orders :
       lpc[o] \in {"check", "accept", "queued", "submitting", "place", "linked"} => o \in AutoOrders
  /\ \A o \in AutoOrders : auto[o].exec.order = None

(* A refresh does not change the order it is about. *)
RefreshInv ==
  \A r \in Refreshers :
    /\ rnext[r].order = rcopy[r].order
    /\ rpc[r] \in {"position", "expire"} => rcopy[r].order \in LiveOrders

Types == TradeTypes /\ BrokerTypes /\ LinkTypes /\ UserTypes /\ RefreshTypes

Base == Types /\ NamedIsPlaced /\ PlacedInv /\ AutoInv /\ RefreshInv

-----------------------------------------------------------------------------
(* The records that the steps make. *)

LEMMA SavesTyped ==
  ASSUME Types, NEW e \in Execs, SaveExec(e)
  PROVE  exec' \in Execs /\ named' \subseteq Orders
  BY DEF SaveExec, Types, TradeTypes, Execs

LEMMA LinkedTyped ==
  ASSUME Types, NEW o \in Orders, NEW e \in Execs, NEW id \in {o, None}, NEW shown \in LinkShown(o, e)
  PROVE  /\ LinkedRecord(e, id, shown) \in Execs
         /\ LinkedRecord(e, id, shown).order = id
         /\ LinkedRecord(e, id, shown).state = (IF id = None THEN None ELSE "linked")
         /\ LinkedRecord(e, id, shown).shown = shown
         /\ LinkedRecord(e, id, shown).fill = e.fill
  BY DEF LinkedRecord, LinkShown, Execs, States, Terminal, Ended

LEMMA PaperTyped ==
  ASSUME NEW e \in Execs, NEW row \in PaperCopies
  PROVE  /\ PaperOutcome(e, row) \in Execs
         /\ PaperOutcome(e, row).order = e.order
         /\ PaperOutcome(e, row).state = PaperState(e, row)
         /\ PaperOutcome(e, row).shown = row.status
         /\ PaperOutcome(e, row).fill =
              (e.fill \/ row.state \in {"filled", "closed"} \/ row.status \in {"filled", "closed"})
<1>1. PaperState(e, row) \in States \cup {None}
  BY DEF PaperState, PaperCopies, Execs, States, Terminal, Ended
<1> QED  BY <1>1 DEF PaperOutcome, PaperCopies, Execs

LEMMA OutcomeTyped ==
  ASSUME NEW e \in Execs, NEW s \in {"open", "filled", "cancelled", "closed"}, NEW isNewer \in BOOLEAN
  PROVE  OrderOutcome(e, s, isNewer) \in Execs /\ OrderOutcome(e, s, isNewer).order = e.order
<1>1. StateOf(s) \in States
  BY DEF StateOf, States, Terminal, Ended
<1> QED  BY <1>1 DEF OrderOutcome, Execs

LEMMA OutcomeSays ==
  ASSUME NEW e \in Execs, NEW s \in {"open", "filled", "cancelled", "closed"}, NEW isNewer \in BOOLEAN
  PROVE  LET x == OrderOutcome(e, s, isNewer) IN
         \/ x = e
         \/ x.shown = s /\ x.state = StateOf(s) /\ x.fill = (e.fill \/ s = "filled")
<1>1. StateOf(s) \in States
  BY DEF StateOf, States, Terminal, Ended
<1> QED  BY <1>1 DEF OrderOutcome, Execs

(* What a position makes of a record: nothing that says more than before,   *)
(* an end of what was filled, or a fill that the record or the position    *)
(* speaks for.                                                             *)
LEMMA PositionTyped ==
  ASSUME NEW e \in Execs, NEW p \in {"none", "open", "closed"}, NEW evidence \in BOOLEAN
  PROVE  LET x == PositionOutcome(e, p, evidence) IN
         /\ x \in Execs /\ x.order = e.order
         /\ \/ x = e
            \/ x.state = "working" /\ x.shown = e.shown /\ x.fill = e.fill
            \/ p = "closed" /\ x.state = "closed" /\ x.shown = e.shown /\ x.fill = e.fill
            \/ /\ FillEvidence(e) \/ p = "open"
               /\ x.state = "filled"
<1>1. {"working", "closed", "filled"} \subseteq States
  BY DEF States, Terminal, Ended
<1> DEFINE working == [e EXCEPT !.state = "working"]
           closed == [e EXCEPT !.state = "closed"]
           shown == IF evidence /\ e.shown \notin {"cancelled", "expired"} THEN "filled" ELSE e.shown
           filled == [e EXCEPT !.state = "filled", !.fill = @ \/ evidence, !.shown = shown]
           x == PositionOutcome(e, p, evidence)
<1>2. /\ working \in Execs /\ working.order = e.order /\ working.state = "working"
      /\ working.shown = e.shown /\ working.fill = e.fill
  BY <1>1 DEF Execs
<1>3. /\ closed \in Execs /\ closed.order = e.order /\ closed.state = "closed"
      /\ closed.shown = e.shown /\ closed.fill = e.fill
  BY <1>1 DEF Execs
<1>4. filled \in Execs /\ filled.order = e.order /\ filled.state = "filled"
  <2>1. shown \in {None, "open", "filled", "closed", "cancelled", "expired"}
    BY DEF Execs
  <2> HIDE DEF shown
  <2> QED  BY <1>1, <2>1 DEF Execs
<1>5. \/ x = e \/ x = working
      \/ p = "closed" /\ x = closed
      \/ (FillEvidence(e) \/ p = "open") /\ x = filled
  BY DEF PositionOutcome
<1> HIDE DEF working, closed, filled, x
<1>6. /\ x \in Execs /\ x.order = e.order
      /\ \/ x = e
         \/ x.state = "working" /\ x.shown = e.shown /\ x.fill = e.fill
         \/ p = "closed" /\ x.state = "closed" /\ x.shown = e.shown /\ x.fill = e.fill
         \/ /\ FillEvidence(e) \/ p = "open"
            /\ x.state = "filled"
  BY <1>2, <1>3, <1>4, <1>5
<1> QED  BY <1>6 DEF x

-----------------------------------------------------------------------------
(* Types, step by step. *)

LEMMA LostTyped ==
  ASSUME NEW e
  PROVE  Lost(e) \subseteq Hazards
  BY DEF Lost, Hazards

LEMMA UserTyped ==
  ASSUME Types, NEW u \in Users, UserStep(u)
  PROVE  Types'
<1>1. UNCHANGED <<brokerVars, linkVars, refreshVars>>
  BY DEF UserStep, UserRead, UserGate, UserSave, UserAccepted
<1>2. BrokerTypes' /\ LinkTypes' /\ RefreshTypes'
  BY <1>1 DEF Types, BrokerTypes, LinkTypes, RefreshTypes, brokerVars, linkVars, refreshVars
<1>3. Here \in Copies /\ NoTrade \in Copies
  BY DEF Types, TradeTypes, Here, Copies, NoTrade, NoExec, Execs, Statuses
<1>4. ucopy[u] \in Copies /\ ucopy[u].exec \in Execs /\ want[u] \in Statuses
  BY DEF Types, UserTypes, Copies, Statuses
<1>5. UserTypes'
  BY <1>3 DEF Types, UserTypes, UserStep, UserRead, UserGate, UserSave, UserAccepted, UserAt, UserDone
<1>6. TradeTypes'
  <2>1. CASE UserRead(u)
    BY <2>1 DEF UserRead, Types, TradeTypes, tradeVars, history
  <2>2. CASE UserGate(u)
    BY <2>2, <1>4, SavesTyped, LostTyped DEF UserGate, Types, TradeTypes
  <2>3. CASE UserSave(u)
    BY <2>3, <1>4 DEF UserSave, Types, TradeTypes, Overtaken, Hazards
  <2>4. CASE UserAccepted(u)
    BY <2>4, <1>4, SavesTyped, LostTyped DEF UserAccepted, Types, TradeTypes
  <2> QED  BY <2>1, <2>2, <2>3, <2>4 DEF UserStep
<1> QED  BY <1>2, <1>5, <1>6 DEF Types

LEMMA OrderTyped ==
  ASSUME Types, AutoInv, NEW o \in Orders, OrderStep(o)
  PROVE  Types'
<1>1. UNCHANGED <<snap, newer, position, sim, pcopy, userVars, refreshVars, dismissed>>
  BY DEF OrderStep, AutoRead, AutoGate, AutoAccept, AutoRecord, AutoLinked, Place, LinkRead, LinkGate,
         Link, brokerVars, history
<1>2. UserTypes' /\ RefreshTypes'
  BY <1>1 DEF Types, UserTypes, RefreshTypes, userVars, refreshVars
<1>3. /\ Here \in Copies /\ NoTrade \in Copies /\ NoExec \in Execs /\ exec \in Execs
      /\ lcopy[o] \in Execs
  BY DEF Types, TradeTypes, LinkTypes, Here, Copies, NoTrade, NoExec, Execs, Statuses
<1>4. o \in AutoOrders => auto[o] \in Copies /\ auto[o].exec \in Execs /\ auto[o].status \in Statuses
  BY DEF Types, LinkTypes, Copies
<1>5. BrokerTypes'
  <2>1. truth' \in [Orders -> {"none", "open", "filled", "cancelled", "closed"}]
    BY DEF OrderStep, AutoRead, AutoGate, AutoAccept, AutoRecord, AutoLinked, Place, LinkRead, LinkGate,
           Link, brokerVars, Types, BrokerTypes
  <2> QED  BY <2>1, <1>1 DEF Types, BrokerTypes
<1>6. CASE AutoRead(o)
  BY <1>6, <1>2, <1>3, <1>5 DEF AutoRead, Types, TradeTypes, LinkTypes, tradeVars, history, LinkAt
<1>7. CASE AutoGate(o)
  <2>1. o \in AutoOrders
    BY <1>7 DEF AutoInv, AutoGate
  <2>2. LinkTypes'
    BY <1>7, <1>3 DEF AutoGate, Types, LinkTypes, LinkAt, AutoForget
  <2>3. TradeTypes'
    BY <1>7, <2>1, <1>4, SavesTyped, LostTyped DEF AutoGate, Types, TradeTypes, Hazards
  <2> QED  BY <2>2, <2>3, <1>2, <1>5 DEF Types
<1>8. CASE AutoAccept(o)
  BY <1>8, <1>2, <1>3, <1>5 DEF AutoAccept, Types, TradeTypes, LinkTypes, LinkAt, Statuses, Hazards
<1>9. CASE AutoRecord(o)
  <2> DEFINE next == [auto[o].exec EXCEPT !.state = lpc[o]]
  <2>1. o \in AutoOrders /\ lpc[o] \in {"queued", "submitting"}
    BY <1>9 DEF AutoInv, AutoRecord
  <2>2. next \in Execs
    BY <2>1, <1>4 DEF Execs, States
  <2>3. SaveExec(next) /\ auto' = [auto EXCEPT ![o].exec = next]
    BY <1>9 DEF AutoRecord
  <2>4. auto' \in [AutoOrders -> Copies]
    <3> HIDE DEF next
    <3> QED  BY <2>1, <2>2, <2>3 DEF Types, LinkTypes, Copies
  <2>5. LinkTypes'
    BY <1>9, <2>4 DEF AutoRecord, Types, LinkTypes, LinkAt
  <2>6. exec' \in Execs /\ named' \subseteq Orders
    BY <2>2, <2>3, SavesTyped
  <2>7. TradeTypes'
    BY <1>9, <2>6, LostTyped DEF AutoRecord, Types, TradeTypes
  <2> QED  BY <2>5, <2>7, <1>2, <1>5 DEF Types
<1>10. CASE AutoLinked(o)
  <2> DEFINE base == auto[o].exec
  <2>1. o \in AutoOrders
    BY <1>10 DEF AutoInv, AutoLinked
  <2>2. LinkTypes'
    BY <1>10, <1>3 DEF AutoLinked, Types, LinkTypes, LinkAt, AutoForget
  <2>3. exec' \in Execs /\ named' \subseteq Orders
    <3>1. CASE UNCHANGED <<exec, named, hazard>>
      BY <3>1 DEF Types, TradeTypes
    <3>2. ASSUME NEW shown \in LinkShown(o, base), SaveExec(LinkedRecord(base, o, shown))
          PROVE  exec' \in Execs /\ named' \subseteq Orders
      BY <3>2, <2>1, <1>4, LinkedTyped, SavesTyped
    <3> QED  BY <1>10, <3>1, <3>2 DEF AutoLinked
  <2>4. status' = status /\ dismissed' = dismissed /\ hazard' \subseteq Hazards
    BY <1>10 DEF AutoLinked, Types, TradeTypes, Hazards, Inherited
  <2>5. TradeTypes'
    BY <2>3, <2>4 DEF Types, TradeTypes
  <2> QED  BY <2>2, <2>5, <1>2, <1>5 DEF Types
<1>11. CASE Place(o)
  BY <1>11, <1>2, <1>3, <1>5 DEF Place, Types, TradeTypes, LinkTypes, tradeVars, history, LinkAt, Holding
<1>12. CASE LinkRead(o)
  BY <1>12, <1>2, <1>3, <1>5 DEF LinkRead, Types, TradeTypes, LinkTypes, tradeVars, history, LinkAt,
                                 Holding, LinkEnd
<1>13. CASE LinkGate(o)
  <2>1. LinkTypes'
    BY <1>13, <1>3 DEF LinkGate, Types, LinkTypes, LinkAt, Holding, LinkEnd
  <2>2. TradeTypes'
    BY <1>13, <1>3, SavesTyped, LostTyped DEF LinkGate, Types, TradeTypes
  <2> QED  BY <2>1, <2>2, <1>2, <1>5 DEF Types
<1>14. CASE Link(o)
  <2>1. LinkTypes'
    BY <1>14, <1>3 DEF Link, Types, LinkTypes, LinkAt, Holding, LinkEnd
  <2>2. PICK id \in LinkIds(o), shown \in LinkShown(o, lcopy[o]) :
          /\ SaveExec(LinkedRecord(lcopy[o], id, shown))
          /\ hazard' = hazard \cup Lost(lcopy[o]) \cup Relinked(o, id) \cup Inherited(lcopy[o], id)
    BY <1>14 DEF Link
  <2>3. exec' \in Execs /\ named' \subseteq Orders
    BY <2>2, <1>3, LinkedTyped, SavesTyped DEF LinkIds
  <2>4. status' = status /\ dismissed' = dismissed
    BY <1>14 DEF Link
  <2>5. hazard' \subseteq Hazards
    BY <2>2 DEF Types, TradeTypes, Hazards, Lost, Relinked, Inherited
  <2>6. TradeTypes'
    BY <2>3, <2>4, <2>5 DEF Types, TradeTypes
  <2> QED  BY <2>1, <2>6, <1>2, <1>5 DEF Types
<1> QED  BY <1>6, <1>7, <1>8, <1>9, <1>10, <1>11, <1>12, <1>13, <1>14 DEF OrderStep

LEMMA RefreshTyped ==
  ASSUME Base, NEW r \in Refreshers, RefreshStep(r)
  PROVE  Types'
<1> USE TradeAssumption
<1>1. UNCHANGED <<status, snap, position, sim, pcopy, linkVars, userVars, dismissed>>
  BY DEF RefreshStep, RefreshRead, RefreshPaper, RefreshGap, RefreshMissing, RefreshSkip, RefreshOrder,
         RefreshPosition, NotExpired, Expire, RefreshSave, RefreshEnd, tradeVars, brokerVars, history
<1>2. LinkTypes' /\ UserTypes'
  BY <1>1 DEF Base, Types, LinkTypes, UserTypes, linkVars, userVars
<1>3. /\ rcopy[r] \in Execs /\ rnext[r] \in Execs /\ NoExec \in Execs /\ exec \in Execs
      /\ rcopy[r].order \in Orders \cup {None}
  BY DEF Base, Types, TradeTypes, RefreshTypes, NoExec, Execs
<1>4. BrokerTypes'
  BY <1>1 DEF RefreshStep, RefreshRead, RefreshPaper, RefreshGap, RefreshMissing, RefreshSkip, RefreshOrder,
         RefreshPosition, NotExpired, Expire, RefreshSave, RefreshEnd, brokerVars, Base, Types, BrokerTypes, CancelledAt
<1>5. TradeTypes'
  <2>1. CASE RefreshSave(r)
    BY <2>1, <1>3, SavesTyped, LostTyped DEF RefreshSave, RefreshEnd, Base, Types, TradeTypes
  <2>2. CASE Expire(r)
    BY <2>2 DEF Expire, Base, Types, TradeTypes, Hazards, tradeVars
  <2> QED  BY <2>1, <2>2 DEF RefreshStep, RefreshRead, RefreshPaper, RefreshGap, RefreshMissing, RefreshSkip, RefreshOrder,
             RefreshPosition, NotExpired, tradeVars, history, Base, Types, TradeTypes
<1>6. ASSUME RefreshTypes'
      PROVE  Types'
  BY <1>2, <1>4, <1>5, <1>6 DEF Types
<1>7. CASE RefreshRead(r)
  BY <1>7, <1>3, <1>6 DEF RefreshRead, Base, Types, RefreshTypes, RefreshAt, Result
<1>8. CASE RefreshPaper(r)
  <2> DEFINE row == PaperRow(rcopy[r].order)
  <2>1. row \in PaperCopies
    BY <1>8 DEF RefreshPaper, Refreshing, PaperRow, PaperCopies, Base, Types, BrokerTypes, NamedIsPlaced, Known
  <2>2. PaperOutcome(rcopy[r], row) \in Execs
    BY <2>1, <1>3, PaperTyped
  <2> QED  BY <1>8, <2>2, <1>3, <1>6 DEF RefreshPaper, Base, Types, RefreshTypes, RefreshAt, Result
<1>9. CASE RefreshGap(r)
  <2>1. [rcopy[r] EXCEPT !.state = "failed"] \in Execs
    BY <1>3 DEF Execs, States, Terminal, Ended
  <2> QED  BY <1>9, <2>1, <1>3, <1>6 DEF RefreshGap, Base, Types, RefreshTypes, RefreshAt, Result
<1>10. CASE RefreshMissing(r)
  <2> DEFINE lost == [rcopy[r] EXCEPT !.state = "unknown"]
  <2>1. lost \in Execs
    BY <1>3 DEF Execs, States
  <2>2. /\ UNCHANGED rnext \/ Result(r, lost)
        /\ RefreshAt(r, "position") \/ RefreshAt(r, "save")
        /\ UNCHANGED <<rcopy, mode>>
    BY <1>10 DEF RefreshMissing
  <2> HIDE DEF lost
  <2> QED  BY <2>1, <2>2, <1>6 DEF Base, Types, RefreshTypes, RefreshAt, Result
<1>11. CASE RefreshOrder(r)
  <2> DEFINE o == rcopy[r].order
  <2>1. snap[o] \in {"open", "filled", "cancelled", "closed"}
    BY <1>11 DEF RefreshOrder, Refreshing, Base, Types, BrokerTypes
  <2>2. OrderOutcome(rcopy[r], snap[o], o \in newer) \in Execs
    <3> DEFINE isNewer == o \in newer
    <3>1. isNewer \in BOOLEAN
      OBVIOUS
    <3> HIDE DEF isNewer, o
    <3>2. OrderOutcome(rcopy[r], snap[o], isNewer) \in Execs
      BY <2>1, <3>1, <1>3, OutcomeTyped
    <3> QED  BY <3>2 DEF isNewer
  <2> QED  BY <1>11, <2>2, <1>3, <1>6 DEF RefreshOrder, Base, Types, RefreshTypes, RefreshAt, Result
<1>12. CASE RefreshPosition(r)
  <2> DEFINE e == PositionOutcome(rnext[r], position[rcopy[r].order], mode[r] = "positions")
  <2>1. position[rcopy[r].order] \in {"none", "open", "closed"}
    BY <1>12 DEF RefreshPosition, Base, Types, BrokerTypes, RefreshInv
  <2>2. e \in Execs
    BY <2>1, <1>3, PositionTyped
  <2>3. /\ Result(r, e) /\ UNCHANGED <<rcopy, mode>>
        /\ RefreshAt(r, "expire") \/ RefreshAt(r, "save")
    BY <1>12 DEF RefreshPosition
  <2> HIDE DEF e
  <2> QED  BY <2>2, <2>3, <1>6 DEF Base, Types, RefreshTypes, RefreshAt, Result
<1>13. CASE NotExpired(r)
  BY <1>13, <1>6 DEF NotExpired, Base, Types, RefreshTypes, RefreshAt
<1>14. CASE Expire(r)
  <2>1. /\ [rnext[r] EXCEPT !.state = "filled"] \in Execs
        /\ [rnext[r] EXCEPT !.state = "expired", !.shown = "expired"] \in Execs
    BY <1>3 DEF Execs, States, Terminal, Ended
  <2> QED  BY <1>14, <2>1, <1>6 DEF Expire, Base, Types, RefreshTypes, RefreshAt, Result
<1>15. CASE RefreshSave(r) \/ RefreshSkip(r)
  <2>1. RefreshEnd(r)
    BY <1>15 DEF RefreshSave, RefreshSkip
  <2> QED  BY <2>1, <1>3, <1>6 DEF RefreshEnd, Base, Types, RefreshTypes, RefreshAt, Result
<1> QED  BY <1>7, <1>8, <1>9, <1>10, <1>11, <1>12, <1>13, <1>14, <1>15 DEF RefreshStep

LEMMA BrokerTyped ==
  ASSUME Types, BrokerStep
  PROVE  Types' /\ UNCHANGED <<tradeVars, linkVars, userVars, refreshVars>>
<1>1. PICK o \in LiveOrders : \/ Fill(o) \/ Cancelled(o) \/ ClosePosition(o)
                             \/ StoreOrder(o) \/ SeePosition(o) \/ ForeignPosition(o)
  BY DEF BrokerStep
<1>2. UNCHANGED <<tradeVars, sim, pcopy, linkVars, userVars, refreshVars, dismissed, named>>
  BY <1>1 DEF Fill, Cancelled, ClosePosition, StoreOrder, SeePosition, ForeignPosition, brokerVars, history
<1>3. LinkTypes' /\ UserTypes' /\ RefreshTypes'
  BY <1>2 DEF Types, LinkTypes, UserTypes, RefreshTypes, linkVars, userVars, refreshVars
<1>4. TradeTypes'
  BY <1>1, <1>2 DEF Fill, Cancelled, ClosePosition, StoreOrder, SeePosition, ForeignPosition, tradeVars,
                    history, Types, TradeTypes, Hazards
<1>5. snap' \in [LiveOrders -> {"none", "open", "filled", "cancelled", "closed"}]
  <2>1. CASE StoreOrder(o)
    <3>1. PICK seen \in Fetched(o) : \E s \in Stored(o, seen) : snap' = [snap EXCEPT ![o] = s]
      BY <2>1 DEF StoreOrder
    <3>2. seen \in {"none", "open", "filled", "cancelled"}
      BY DEF Fetched, Types, BrokerTypes, LiveOrders
    <3>3. Stored(o, seen) \subseteq {"none", "open", "filled", "cancelled", "closed"}
      BY <3>2 DEF Stored, Types, BrokerTypes
    <3> QED  BY <3>1, <3>3 DEF Types, BrokerTypes
  <2> QED  BY <1>1, <2>1 DEF Fill, Cancelled, ClosePosition, SeePosition, ForeignPosition, Types, BrokerTypes
<1>6. /\ truth' \in [Orders -> {"none", "open", "filled", "cancelled", "closed"}]
      /\ newer' \subseteq LiveOrders
      /\ position' \in [LiveOrders -> {"none", "open", "closed"}]
  BY <1>1 DEF Fill, Cancelled, ClosePosition, StoreOrder, SeePosition, ForeignPosition, Types, BrokerTypes
<1>7. BrokerTypes'
  BY <1>2, <1>5, <1>6 DEF Types, BrokerTypes
<1> QED  BY <1>2, <1>3, <1>4, <1>7 DEF Types

(* A save of a paper order, from the row as it is or as it was. *)
LEMMA PaperSaved ==
  ASSUME TradeAssumption, Types, NEW o \in PaperOrders, PaperOrderStep(o)
  PROVE  /\ UNCHANGED <<tradeVars, snap, newer, position, linkVars, userVars, refreshVars, dismissed, named>>
         /\ \/ PaperRead(o) /\ truth[o] # "none" /\ UNCHANGED <<truth, sim, hazard>>
            \/ \E row \in PaperCopies :
                 SavePaperOrder(o, row) /\ (row = PaperRow(o) \/ row = pcopy[o])
<1>1. UNCHANGED <<tradeVars, snap, newer, position, linkVars, userVars, refreshVars, dismissed, named>>
  BY DEF PaperOrderStep, PaperStep, PaperRead, PaperSave, SavePaperOrder, brokerVars, history
<1>2. truth[o] # "none" => PaperRow(o) \in PaperCopies
  BY DEF PaperRow, PaperCopies, Types, BrokerTypes, TradeAssumption
<1>3. CASE PaperStep(o)
  <2>1. PaperRow(o) \in PaperCopies /\ SavePaperOrder(o, PaperRow(o))
    BY <1>2, <1>3 DEF PaperStep
  <2>2. \E row \in PaperCopies :
          SavePaperOrder(o, row) /\ (row = PaperRow(o) \/ row = pcopy[o])
    BY <2>1, Zenon
  <2> QED  BY <1>1, <2>2
<1>4. CASE PaperRead(o)
  BY <1>1, <1>4 DEF PaperRead, history
<1>5. CASE PaperSave(o)
  <2>1. pcopy[o] \in PaperCopies
    BY <1>5 DEF PaperSave, Types, BrokerTypes
  <2> QED  BY <1>1, <1>5, <2>1 DEF PaperSave
<1> QED  BY <1>3, <1>4, <1>5 DEF PaperOrderStep

(* What a save may make of a paper order. *)
LEMMA PaperRowsSound ==
  ASSUME NEW row \in PaperCopies, NEW next \in PaperRows(row)
  PROVE  /\ next \in PaperCopies
         /\ row.status = "cancelled" => next.status = "cancelled"
         /\ row.status \in {"filled", "closed"} => next.status \in {"filled", "closed", "cancelled"}
         /\ row.status = "closed" => next.status \in {"closed", "cancelled"}
         /\ \/ next.state = row.state /\ next.status = row.status
            \/ next.state = row.state /\ next.status = "cancelled"
            \/ row.status \in {"open", "filled"} /\ next.status = "closed" /\ next.state = "closed"
            \/ row.status = "open" /\ next.status = "filled" /\ next.state = "filled"
            \/ row.status = "open" /\ next.status = "open" /\ next.state = "working"
<1> DEFINE cancelled == [row EXCEPT !.status = "cancelled"]
           simulated(s) == [status |-> s, state |-> IF s = "open" THEN "working" ELSE s]
<1>1. /\ cancelled \in PaperCopies /\ cancelled.status = "cancelled" /\ cancelled.state = row.state
  BY DEF PaperCopies
<1>2. /\ simulated("open") \in PaperCopies
      /\ simulated("open").status = "open" /\ simulated("open").state = "working"
  BY DEF PaperCopies
<1>3. \A s \in {"filled", "closed"} :
        simulated(s) \in PaperCopies /\ simulated(s).status = s /\ simulated(s).state = s
  BY DEF PaperCopies
<1>4. \/ next \in {row, cancelled}
      \/ row.status = "open" /\ next \in {simulated("open"), simulated("filled"), simulated("closed")}
      \/ row.status = "filled" /\ next = simulated("closed")
  BY DEF PaperRows, Simulated
<1> HIDE DEF cancelled, simulated
<1> QED  BY <1>1, <1>2, <1>3, <1>4

LEMMA PaperTypesStep ==
  ASSUME TradeAssumption, Types, NEW o \in PaperOrders, PaperOrderStep(o)
  PROVE  Types'
<1>1. UNCHANGED <<tradeVars, snap, newer, position, linkVars, userVars, refreshVars, dismissed, named>>
  BY PaperSaved
<1>2. LinkTypes' /\ UserTypes' /\ RefreshTypes'
  BY <1>1 DEF Types, LinkTypes, UserTypes, RefreshTypes, linkVars, userVars, refreshVars
<1>3. truth[o] # "none" => PaperRow(o) \in PaperCopies
  BY DEF PaperRow, PaperCopies, Types, BrokerTypes, TradeAssumption
<1>4. pcopy' \in [PaperOrders -> PaperCopies \cup {None}]
  BY <1>3 DEF PaperOrderStep, PaperStep, PaperRead, PaperSave, Types, BrokerTypes
<1>5. /\ truth' \in [Orders -> {"none", "open", "filled", "cancelled", "closed"}]
      /\ sim' \in [PaperOrders -> {None, "working", "filled", "closed"}]
      /\ hazard' \subseteq Hazards
  <2>1. CASE UNCHANGED <<truth, sim, hazard>>
    BY <2>1 DEF Types, BrokerTypes, TradeTypes
  <2>2. ASSUME NEW row \in PaperCopies, SavePaperOrder(o, row)
        PROVE  /\ truth' \in [Orders -> {"none", "open", "filled", "cancelled", "closed"}]
               /\ sim' \in [PaperOrders -> {None, "working", "filled", "closed"}]
               /\ hazard' \subseteq Hazards
    <3>1. PICK next \in PaperRows(row) :
            /\ truth' = [truth EXCEPT ![o] = next.status]
            /\ sim' = [sim EXCEPT ![o] = next.state]
            /\ hazard' \subseteq hazard \cup {"overwritten", "voided"}
      BY <2>2 DEF SavePaperOrder
    <3>2. next \in PaperCopies
      BY PaperRowsSound
    <3> QED  BY <3>1, <3>2 DEF Types, BrokerTypes, TradeTypes, Hazards, PaperCopies
  <2> QED  BY <2>1, <2>2, PaperSaved
<1>6. BrokerTypes' /\ TradeTypes'
  BY <1>1, <1>4, <1>5 DEF Types, BrokerTypes, TradeTypes, tradeVars
<1> QED  BY <1>2, <1>6 DEF Types

-----------------------------------------------------------------------------
(* What a step may add to the copies, and take from the truth. *)

Clean(h) == hazard \cap h = {}

LEMMA HazardGrows ==
  ASSUME Types, [Next]_vars
  PROVE  hazard \subseteq hazard'
<1>1. CASE UNCHANGED vars
  BY <1>1 DEF vars
<1>2. ASSUME NEW u \in Users, UserStep(u)
      PROVE  hazard \subseteq hazard'
  BY <1>2 DEF UserStep, UserRead, UserGate, UserSave, UserAccepted, history
<1>3. ASSUME NEW o \in Orders, OrderStep(o)
      PROVE  hazard \subseteq hazard'
  BY <1>3 DEF OrderStep, AutoRead, AutoGate, AutoAccept, AutoRecord, AutoLinked, Place, LinkRead, LinkGate,
              Link, history
<1>4. ASSUME NEW r \in Refreshers, RefreshStep(r)
      PROVE  hazard \subseteq hazard'
  BY <1>4 DEF RefreshStep, RefreshRead, RefreshPaper, RefreshGap, RefreshMissing, RefreshSkip, RefreshOrder,
              RefreshPosition, NotExpired, Expire, RefreshSave, RefreshEnd, history
<1>5. ASSUME NEW o \in PaperOrders, PaperOrderStep(o)
      PROVE  hazard \subseteq hazard'
  BY <1>5 DEF PaperOrderStep, PaperStep, PaperRead, PaperSave, SavePaperOrder, history
<1>6. ASSUME BrokerStep
      PROVE  hazard \subseteq hazard'
  BY <1>6 DEF BrokerStep, Fill, Cancelled, ClosePosition, StoreOrder, SeePosition, ForeignPosition, history
<1> QED  BY <1>1, <1>2, <1>3, <1>4, <1>5, <1>6 DEF Next

LEMMA UserCopies ==
  ASSUME Types, NEW u \in Users, UserStep(u)
  PROVE  /\ Known' \subseteq Known \cup {NoExec}
         /\ UNCHANGED <<brokerVars, linkVars, refreshVars>>
<1>1. UNCHANGED <<brokerVars, linkVars, refreshVars>>
  BY DEF UserStep, UserRead, UserGate, UserSave, UserAccepted
<1>2. exec' \in {exec, ucopy[u].exec}
  BY DEF UserStep, UserRead, UserGate, UserSave, UserAccepted, SaveExec, tradeVars
<1>3. \A v \in Users : ucopy'[v].exec \in {exec, ucopy[v].exec, NoExec}
  BY DEF UserStep, UserRead, UserGate, UserSave, UserAccepted, Types, UserTypes, UserDone, Here, NoTrade
<1> QED  BY <1>1, <1>2, <1>3 DEF Known, linkVars, refreshVars

LEMMA OrderCopies ==
  ASSUME Types, AutoInv, NEW o \in Orders, OrderStep(o)
  PROVE  /\ Known' \subseteq Known \cup {NoExec, exec'}
         /\ AutoRecord(o) \/ Link(o) \/ AutoLinked(o) \/ exec' \in Known
         /\ UNCHANGED <<snap, newer, position, sim, pcopy, userVars, refreshVars, dismissed>>
<1>1. UNCHANGED <<snap, newer, position, sim, pcopy, userVars, refreshVars, dismissed>>
  BY DEF OrderStep, AutoRead, AutoGate, AutoAccept, AutoRecord, AutoLinked, Place, LinkRead, LinkGate,
         Link, brokerVars, history
<1>2. AutoRecord(o) \/ Link(o) \/ AutoLinked(o) \/ exec' \in Known
  BY DEF OrderStep, AutoRead, AutoGate, AutoAccept, Place, LinkRead, LinkGate, SaveExec, tradeVars,
         Known, AutoInv
<1>3. \A p \in Orders : lcopy'[p] \in {exec, lcopy[p], NoExec}
  BY DEF OrderStep, AutoRead, AutoGate, AutoAccept, AutoRecord, AutoLinked, Place, LinkRead, LinkGate,
         Link, Types, LinkTypes, Holding, LinkEnd
<1>4. \A p \in AutoOrders : auto'[p].exec \in {exec, auto[p].exec, NoExec, exec'}
  <2>1. CASE AutoRecord(o)
    BY <2>1 DEF AutoRecord, SaveExec, Types, LinkTypes, Copies
  <2> QED  BY <2>1 DEF OrderStep, AutoRead, AutoGate, AutoAccept, AutoLinked, Place, LinkRead, LinkGate,
                       Link, Types, LinkTypes, AutoForget, Here, NoTrade
<1> QED  BY <1>1, <1>2, <1>3, <1>4 DEF Known, userVars, refreshVars

LEMMA RefreshCopies ==
  ASSUME Types, NEW r \in Refreshers, RefreshStep(r)
  PROVE  /\ Known' \subseteq Known \cup {NoExec, rnext'[r]}
         /\ \/ RefreshPaper(r) \/ RefreshGap(r) \/ RefreshMissing(r) \/ RefreshOrder(r)
            \/ RefreshPosition(r) \/ Expire(r) \/ rnext'[r] \in Known \cup {NoExec}
         /\ UNCHANGED <<status, snap, position, sim, pcopy, linkVars, userVars, dismissed>>
<1>1. UNCHANGED <<status, snap, position, sim, pcopy, linkVars, userVars, dismissed>>
  BY DEF RefreshStep, RefreshRead, RefreshPaper, RefreshGap, RefreshMissing, RefreshSkip, RefreshOrder,
         RefreshPosition, NotExpired, Expire, RefreshSave, RefreshEnd, tradeVars, brokerVars, history
<1>2. exec' \in {exec, rnext[r]}
  BY DEF RefreshStep, RefreshRead, RefreshPaper, RefreshGap, RefreshMissing, RefreshSkip, RefreshOrder,
         RefreshPosition, NotExpired, Expire, RefreshSave, RefreshEnd, tradeVars, SaveExec
<1>3. \A q \in Refreshers : rcopy'[q] \in {exec, rcopy[q], NoExec}
  BY DEF RefreshStep, RefreshRead, RefreshPaper, RefreshGap, RefreshMissing, RefreshSkip, RefreshOrder,
         RefreshPosition, NotExpired, Expire, RefreshSave, RefreshEnd, Types, RefreshTypes
<1>4. \A q \in Refreshers : q # r => rnext'[q] = rnext[q]
  BY DEF RefreshStep, RefreshRead, RefreshPaper, RefreshGap, RefreshMissing, RefreshSkip, RefreshOrder,
         RefreshPosition, NotExpired, Expire, RefreshSave, RefreshEnd, Types, RefreshTypes, Result
<1>5. \/ RefreshPaper(r) \/ RefreshGap(r) \/ RefreshMissing(r) \/ RefreshOrder(r)
      \/ RefreshPosition(r) \/ Expire(r) \/ rnext'[r] \in Known \cup {NoExec}
  BY DEF RefreshStep, RefreshRead, RefreshSkip, NotExpired, RefreshSave, RefreshEnd, Types, RefreshTypes, Result, Known
<1> QED  BY <1>1, <1>2, <1>3, <1>4, <1>5 DEF Known, linkVars, userVars

(* An order never becomes one that was not placed.  A cancelled order, and  *)
(* one that is over, stays so, but for a paper order saved from an old copy *)
(* of its row; so does a filled one, but for a paper order cancelled late. *)
TruthKept ==
  \A o \in Orders :
    /\ truth[o] # "none" => truth'[o] # "none"
    /\ o \in LiveOrders \/ "overwritten" \notin hazard' =>
         /\ truth[o] = "cancelled" => truth'[o] = "cancelled"
         /\ truth[o] \in {"filled", "closed", "cancelled"} => truth'[o] \in {"filled", "closed", "cancelled"}
         /\ truth[o] = "closed" => truth'[o] \in {"closed", "cancelled"}
    /\ o \in LiveOrders \/ hazard' \cap {"overwritten", "voided"} = {} =>
         /\ truth[o] \in {"filled", "closed"} => truth'[o] \in {"filled", "closed"}
         /\ truth[o] = "closed" => truth'[o] = "closed"

LEMMA OrderTruth ==
  ASSUME Base, NEW o \in Orders, OrderStep(o)
  PROVE  TruthKept
<1>1. CASE Place(o)
  <2>1. truth[o] = "none" /\ truth' = [truth EXCEPT ![o] = "open"]
    BY <1>1 DEF Place, Base, PlacedInv
  <2>2. \A p \in Orders : truth'[p] = IF p = o THEN "open" ELSE truth[p]
    BY <2>1 DEF Base, Types, BrokerTypes
  <2> QED  BY <2>1, <2>2 DEF TruthKept
<1>2. CASE UNCHANGED truth
  BY <1>2 DEF TruthKept
<1> QED  BY <1>1, <1>2 DEF OrderStep, AutoRead, AutoGate, AutoAccept, AutoRecord, AutoLinked, LinkRead,
                          LinkGate, Link, brokerVars

LEMMA BrokerTruth ==
  ASSUME TradeAssumption, Base, BrokerStep
  PROVE  TruthKept /\ UNCHANGED sim
<1>1. PICK o \in LiveOrders : \/ Fill(o) \/ Cancelled(o) \/ ClosePosition(o)
                             \/ StoreOrder(o) \/ SeePosition(o) \/ ForeignPosition(o)
  BY DEF BrokerStep
<1>2. /\ \A p \in Orders : p # o => truth'[p] = truth[p]
      /\ \/ truth'[o] = truth[o]
         \/ truth[o] = "open" /\ truth'[o] \in {"filled", "cancelled"}
         \/ truth[o] = "filled" /\ truth'[o] = "closed"
  BY <1>1 DEF Fill, Cancelled, ClosePosition, StoreOrder, SeePosition, ForeignPosition, Base, Types,
              BrokerTypes, LiveOrders
<1>3. TruthKept
  BY <1>2 DEF TruthKept
<1>4. UNCHANGED sim
  BY <1>1 DEF Fill, Cancelled, ClosePosition, StoreOrder, SeePosition, ForeignPosition
<1> QED  BY <1>3, <1>4

LEMMA RefreshTruth ==
  ASSUME TradeAssumption, Base, NEW r \in Refreshers, RefreshStep(r)
  PROVE  TruthKept
<1>1. CASE Expire(r)
  <2> DEFINE o == rcopy[r].order
  <2>1. o \in LiveOrders /\ truth' = CancelledAt(o)
    BY <1>1 DEF Expire, Base, RefreshInv
  <2>2. \A p \in Orders : truth'[p] = IF p = o /\ truth[p] = "open" THEN "cancelled" ELSE truth[p]
    BY <2>1 DEF CancelledAt, Base, Types, BrokerTypes
  <2> QED  BY <2>2 DEF TruthKept
<1>2. CASE UNCHANGED truth
  BY <1>2 DEF TruthKept
<1> QED  BY <1>1, <1>2 DEF RefreshStep, RefreshRead, RefreshPaper, RefreshGap, RefreshMissing, RefreshSkip, RefreshOrder,
                          RefreshPosition, NotExpired, RefreshSave, RefreshEnd, brokerVars

LEMMA PaperTruth ==
  ASSUME TradeAssumption, Base, NEW o \in PaperOrders, PaperOrderStep(o)
  PROVE  TruthKept /\ truth[o] # "none" /\ truth'[o] # "none" /\ \A p \in Orders : p # o => truth'[p] = truth[p]
<1>1. o \in Orders /\ o \notin LiveOrders
  BY DEF TradeAssumption, LiveOrders
<1>2. truth[o] # "none"
  BY DEF Base, PlacedInv, PaperOrderStep, PaperStep, PaperRead, PaperSave
<1>3. CASE UNCHANGED <<truth, sim, hazard>>
  BY <1>2, <1>3 DEF TruthKept
<1>4. ASSUME NEW row \in PaperCopies, SavePaperOrder(o, row)
      PROVE  TruthKept /\ truth'[o] # "none" /\ \A p \in Orders : p # o => truth'[p] = truth[p]
  <2>1. PICK next \in PaperRows(row) :
          /\ truth' = [truth EXCEPT ![o] = next.status]
          /\ hazard' = hazard
               \cup (IF row # PaperRow(o) THEN {"overwritten"} ELSE {})
               \cup (IF next.status = "cancelled" /\ row.status \in {"filled", "closed"}
                     THEN {"voided"} ELSE {})
    BY <1>4 DEF SavePaperOrder
  <2>2. /\ next \in PaperCopies
        /\ row.status = "cancelled" => next.status = "cancelled"
        /\ row.status \in {"filled", "closed"} => next.status \in {"filled", "closed", "cancelled"}
        /\ row.status = "closed" => next.status \in {"closed", "cancelled"}
    BY PaperRowsSound
  <2>3. truth'[o] = next.status /\ next.status # "none" /\ \A p \in Orders : p # o => truth'[p] = truth[p]
    BY <1>1, <2>1, <2>2 DEF Base, Types, BrokerTypes, PaperCopies
  <2>4. "overwritten" \notin hazard' => row.status = truth[o]
    BY <2>1 DEF PaperRow
  <2>5. hazard' \cap {"overwritten", "voided"} = {} /\ row.status \in {"filled", "closed"} =>
          next.status # "cancelled"
    BY <2>1
  <2> QED  BY <1>1, <2>2, <2>3, <2>4, <2>5 DEF TruthKept
<1> QED  BY <1>2, <1>3, <1>4, PaperSaved DEF Base

-----------------------------------------------------------------------------
(* The base invariant. *)

LEMMA NoExecNames ==
  NoExec.order = None
  BY DEF NoExec

LEMMA UserBase ==
  ASSUME TradeAssumption, Base, NEW u \in Users, UserStep(u)
  PROVE  Base' /\ TruthKept
<1>1. Known' \subseteq Known \cup {NoExec} /\ UNCHANGED <<brokerVars, linkVars, refreshVars>>
  BY UserCopies DEF Base
<1>2. TruthKept
  BY <1>1 DEF TruthKept, brokerVars
<1>3. NamedIsPlaced'
  BY <1>1, NoExecNames DEF Base, NamedIsPlaced, brokerVars
<1>4. PlacedInv' /\ AutoInv' /\ RefreshInv'
  BY <1>1 DEF Base, PlacedInv, AutoInv, RefreshInv, brokerVars, linkVars, refreshVars
<1> QED  BY <1>2, <1>3, <1>4, UserTyped DEF Base

LEMMA OrderNames ==
  ASSUME TradeAssumption, Base, NEW o \in Orders, OrderStep(o)
  PROVE  \/ exec'.order = None \/ exec' \in Known
         \/ exec'.order = o /\ truth[o] # "none"
<1>1. CASE AutoRecord(o)
  <2>1. exec' = [auto[o].exec EXCEPT !.state = lpc[o]] /\ o \in AutoOrders
    BY <1>1 DEF AutoRecord, SaveExec, Base, AutoInv
  <2>2. auto[o].exec \in Execs /\ auto[o].exec.order = None
    BY <2>1 DEF Base, Types, LinkTypes, Copies, AutoInv
  <2> QED  BY <2>1, <2>2 DEF Execs
<1>2. CASE Link(o)
  <2>1. PICK id \in LinkIds(o), shown \in LinkShown(o, lcopy[o]) : exec' = LinkedRecord(lcopy[o], id, shown)
    BY <1>2 DEF Link, SaveExec
  <2>2. truth[o] # "none"
    BY <1>2 DEF Link, Base, PlacedInv
  <2> QED  BY <2>1, <2>2, LinkedTyped DEF LinkIds, Base, Types, LinkTypes
<1>3. CASE AutoLinked(o)
  <2> DEFINE base == auto[o].exec
  <2>1. o \in AutoOrders
    BY <1>3 DEF AutoLinked, Base, AutoInv
  <2>2. base \in Execs
    BY <2>1 DEF Base, Types, LinkTypes, Copies
  <2>3. ASSUME NEW shown \in LinkShown(o, base), exec' = LinkedRecord(base, o, shown)
        PROVE  exec'.order = o
    BY <2>2, <2>3, LinkedTyped DEF Base
  <2>4. exec' = exec \/ \E shown \in LinkShown(o, base) : exec' = LinkedRecord(base, o, shown)
    BY <1>3 DEF AutoLinked, SaveExec
  <2>5. truth[o] # "none"
    BY <1>3 DEF AutoLinked, Base, PlacedInv
  <2> QED  BY <2>3, <2>4, <2>5 DEF Known
<1> QED  BY <1>1, <1>2, <1>3, OrderCopies DEF Base

LEMMA OrderBase ==
  ASSUME TradeAssumption, Base, NEW o \in Orders, OrderStep(o)
  PROVE  Base' /\ TruthKept
<1>1. Known' \subseteq Known \cup {NoExec, exec'}
      /\ UNCHANGED <<snap, newer, position, sim, pcopy, userVars, refreshVars, dismissed>>
  BY OrderCopies DEF Base
<1>2. TruthKept
  BY OrderTruth
<1>3. NamedIsPlaced'
  <2>1. \A e \in Known : e.order # None => e.order \in Orders
    BY DEF Known, Base, Types, TradeTypes, LinkTypes, UserTypes, RefreshTypes, Copies, Execs
  <2>2. \A e \in Known : e.order # None => truth'[e.order] # "none"
    BY <1>2, <2>1 DEF TruthKept, Base, NamedIsPlaced
  <2> QED  BY <1>1, <1>2, <2>2, OrderNames, NoExecNames DEF NamedIsPlaced, TruthKept
<1>4. PlacedInv'
  <2>1. /\ \A p \in Orders : p # o => lpc'[p] = lpc[p] /\ truth'[p] = truth[p]
        /\ lpc'[o] \in {"read", "gate", "link", "linked"} => truth'[o] # "none"
        /\ lpc'[o] \in {"start", "check", "accept", "queued", "submitting", "place"} => truth'[o] = "none"
    <3>1. CASE Place(o)
      BY <3>1 DEF Place, Base, Types, BrokerTypes, LinkTypes, LinkAt
    <3>2. CASE AutoRead(o) \/ AutoGate(o) \/ AutoAccept(o) \/ AutoRecord(o)
      <4>1. UNCHANGED truth
        BY <3>2 DEF AutoRead, AutoGate, AutoAccept, AutoRecord, brokerVars
      <4>2. /\ lpc[o] \in {"start", "check", "accept", "queued", "submitting"}
            /\ \E s \in {"check", "accept", "queued", "submitting", "place", "end"} : LinkAt(o, s)
        BY <3>2 DEF AutoRead, AutoGate, AutoAccept, AutoRecord
      <4> QED  BY <4>1, <4>2 DEF LinkAt, Base, Types, LinkTypes, PlacedInv
    <3>3. CASE AutoLinked(o) \/ LinkRead(o) \/ LinkGate(o) \/ Link(o)
      <4>1. UNCHANGED truth
        BY <3>3 DEF AutoLinked, LinkRead, LinkGate, Link, brokerVars
      <4>2. /\ lpc[o] \in {"read", "gate", "link", "linked"}
            /\ \E s \in {"gate", "link", "linked", "end"} : LinkAt(o, s)
        BY <3>3 DEF AutoLinked, LinkRead, LinkGate, Link, LinkEnd
      <4> QED  BY <4>1, <4>2 DEF LinkAt, Base, Types, LinkTypes, PlacedInv
    <3> QED  BY <3>1, <3>2, <3>3 DEF OrderStep
  <2> QED  BY <2>1, <1>1, <1>2, TradeAssumption DEF Base, PlacedInv, TruthKept
<1>5. AutoInv'
  <2>1. \A p \in Orders :
          lpc'[p] \in {"check", "accept", "queued", "submitting", "place", "linked"} => p \in AutoOrders
    BY DEF OrderStep, AutoRead, AutoGate, AutoAccept, AutoRecord, AutoLinked, Place, LinkRead, LinkGate,
           Link, LinkAt, LinkEnd, Base, Types, LinkTypes, AutoInv
  <2>2. \A p \in AutoOrders : auto'[p].exec.order = None
    <3>1. CASE AutoRead(o)
      BY <3>1 DEF AutoRead, Tracked, Here, Base, Types, LinkTypes, AutoInv
    <3>2. CASE AutoRecord(o)
      <4> DEFINE next == [auto[o].exec EXCEPT !.state = lpc[o]]
      <4>1. o \in AutoOrders
        BY <3>2 DEF AutoRecord, Base, AutoInv
      <4>2. next.order = None
        BY <4>1 DEF Base, AutoInv, Types, LinkTypes, Copies, Execs
      <4>3. auto' = [auto EXCEPT ![o].exec = next]
        BY <3>2 DEF AutoRecord
      <4> HIDE DEF next
      <4> QED  BY <4>1, <4>2, <4>3 DEF Base, AutoInv, Types, LinkTypes, Copies
    <3>3. CASE UNCHANGED auto \/ AutoForget(o)
      BY <3>3, NoExecNames DEF AutoForget, NoTrade, Base, Types, LinkTypes, AutoInv
    <3> QED  BY <3>1, <3>2, <3>3 DEF OrderStep, AutoGate, AutoAccept, AutoLinked, Place, LinkRead, LinkGate, Link
  <2> QED  BY <2>1, <2>2 DEF AutoInv
<1>6. RefreshInv'
  BY <1>1 DEF Base, RefreshInv, refreshVars
<1> QED  BY <1>2, <1>3, <1>4, <1>5, <1>6, OrderTyped DEF Base

(* A refresh keeps to the order that its copy of the record names. *)
LEMMA RefreshNames ==
  ASSUME TradeAssumption, NullAssumption, Base, NEW r \in Refreshers, RefreshStep(r)
  PROVE  /\ rnext'[r].order = rcopy'[r].order
         /\ rpc'[r] \in {"position", "expire"} => rcopy'[r].order \in LiveOrders
         /\ rnext'[r] \in Known \cup {NoExec} \/ rnext'[r].order = rcopy[r].order
<1> DEFINE o == rcopy[r].order
           Goal == /\ rnext'[r].order = rcopy'[r].order
                   /\ rpc'[r] \in {"position", "expire"} => rcopy'[r].order \in LiveOrders
                   /\ rnext'[r] \in Known \cup {NoExec} \/ rnext'[r].order = rcopy[r].order
<1>1. /\ rcopy[r] \in Execs /\ rnext[r] \in Execs /\ rnext[r].order = o
      /\ rpc \in [Refreshers -> {"idle", "snapshot", "position", "expire", "save"}]
      /\ rcopy \in [Refreshers -> Execs] /\ rnext \in [Refreshers -> Execs]
      /\ rpc[r] \in {"position", "expire"} => o \in LiveOrders
  BY DEF Base, Types, RefreshTypes, RefreshInv
<1>2. ASSUME UNCHANGED rcopy,
             rpc[r] = "snapshot" => rpc'[r] = "save" \/ o \in LiveOrders,
             rpc[r] \in {"snapshot", "position", "expire"},
             NEW e, e.order = o, Result(r, e)
      PROVE  Goal
  BY <1>1, <1>2 DEF Result
<1>3. CASE RefreshRead(r)
  BY <1>3, <1>1 DEF RefreshRead, Result, RefreshAt, Known
<1>4. CASE RefreshPaper(r)
  <2>1. PaperRow(o) \in PaperCopies
    BY <1>4 DEF RefreshPaper, Refreshing, PaperRow, PaperCopies, Base, Types, BrokerTypes, NamedIsPlaced, Known
  <2>2. PaperOutcome(rcopy[r], PaperRow(o)).order = o
    BY <2>1, <1>1, PaperTyped
  <2> QED  BY <1>4, <2>2, <1>2, <1>1 DEF RefreshPaper, Refreshing, RefreshAt
<1>5. CASE RefreshGap(r)
  <2>1. [rcopy[r] EXCEPT !.state = "failed"].order = o
    BY <1>1 DEF Execs
  <2> QED  BY <1>5, <2>1, <1>2, <1>1 DEF RefreshGap, Refreshing, RefreshAt
<1>6. CASE RefreshMissing(r)
  <2> DEFINE lost == [rcopy[r] EXCEPT !.state = "unknown"]
  <2>1. lost.order = o
    BY <1>1 DEF Execs
  <2>2. /\ UNCHANGED rnext \/ Result(r, lost)
        /\ UNCHANGED rcopy /\ rpc[r] = "snapshot" /\ o \in LiveOrders
    BY <1>6 DEF RefreshMissing, Refreshing
  <2> HIDE DEF lost
  <2>3. CASE UNCHANGED rnext
    BY <2>2, <2>3, <1>1
  <2> QED  BY <2>1, <2>2, <2>3, <1>2
<1>7. CASE RefreshOrder(r)
  <2> DEFINE isNewer == o \in newer
             e == OrderOutcome(rcopy[r], snap[o], isNewer)
  <2>1. /\ snap[o] \in {"open", "filled", "cancelled", "closed"} /\ o \in LiveOrders
        /\ UNCHANGED rcopy /\ rpc[r] = "snapshot" /\ Result(r, e)
    BY <1>7 DEF RefreshOrder, Refreshing, Base, Types, BrokerTypes
  <2>2. isNewer \in BOOLEAN
    OBVIOUS
  <2>3. e.order = o
    <3>1. snap[o] \in {"open", "filled", "cancelled", "closed"} /\ rcopy[r] \in Execs
      BY <2>1, <1>1
    <3> HIDE DEF isNewer, o
    <3>2. \A b \in BOOLEAN : OrderOutcome(rcopy[r], snap[o], b).order = rcopy[r].order
      BY <3>1, OutcomeTyped
    <3>3. OrderOutcome(rcopy[r], snap[o], isNewer).order = rcopy[r].order
      BY <3>2, <2>2
    <3> QED  BY <3>3 DEF o
  <2> HIDE DEF e
  <2> QED  BY <2>1, <2>3, <1>2
<1>8. CASE RefreshPosition(r)
  <2> DEFINE evidence == mode[r] = "positions"
             e == PositionOutcome(rnext[r], position[o], evidence)
  <2>1. /\ position[o] \in {"none", "open", "closed"}
        /\ UNCHANGED rcopy /\ rpc[r] = "position" /\ Result(r, e)
    BY <1>8, <1>1 DEF RefreshPosition, Base, Types, BrokerTypes
  <2>2. evidence \in BOOLEAN
    OBVIOUS
  <2>3. e.order = o
    <3> HIDE DEF evidence
    <3> QED  BY <2>1, <2>2, <1>1, PositionTyped
  <2> HIDE DEF e
  <2> QED  BY <2>1, <2>3, <1>2
<1>9. CASE NotExpired(r)
  BY <1>9, <1>1 DEF NotExpired, RefreshAt
<1>10. CASE Expire(r)
  <2> DEFINE e == IF rnext[r].fill THEN [rnext[r] EXCEPT !.state = "filled"]
                  ELSE [rnext[r] EXCEPT !.state = "expired", !.shown = "expired"]
  <2>1. e.order = o
    BY <1>1 DEF Execs
  <2>2. UNCHANGED rcopy /\ rpc[r] = "expire" /\ Result(r, e)
    BY <1>10 DEF Expire
  <2> HIDE DEF e
  <2> QED  BY <2>1, <2>2, <1>2
<1>11. CASE RefreshSave(r) \/ RefreshSkip(r)
  <2>1. RefreshEnd(r)
    BY <1>11 DEF RefreshSave, RefreshSkip
  <2> QED  BY <2>1, <1>1 DEF RefreshEnd, RefreshAt, Result
<1> QED  BY <1>3, <1>4, <1>5, <1>6, <1>7, <1>8, <1>9, <1>10, <1>11 DEF RefreshStep

LEMMA KnownNames ==
  ASSUME Types, NEW e \in Known
  PROVE  e \in Execs /\ e.order \in Orders \cup {None}
  BY DEF Known, Types, TradeTypes, LinkTypes, UserTypes, RefreshTypes, Copies, Execs

LEMMA RefreshBase ==
  ASSUME TradeAssumption, NullAssumption, Base, NEW r \in Refreshers, RefreshStep(r)
  PROVE  Base' /\ TruthKept
<1>1. /\ Known' \subseteq Known \cup {NoExec, rnext'[r]}
      /\ UNCHANGED <<status, snap, position, sim, pcopy, linkVars, userVars, dismissed>>
  BY RefreshCopies DEF Base
<1>2. TruthKept
  BY RefreshTruth
<1>3. \A q \in Refreshers : q # r => rnext'[q] = rnext[q] /\ rcopy'[q] = rcopy[q] /\ rpc'[q] = rpc[q]
  BY DEF RefreshStep, RefreshRead, RefreshPaper, RefreshGap, RefreshMissing, RefreshSkip, RefreshOrder,
         RefreshPosition, NotExpired, Expire, RefreshSave, RefreshEnd, Base, Types, RefreshTypes, Result, RefreshAt
<1>4. RefreshInv'
  BY <1>3, RefreshNames DEF Base, RefreshInv, LiveOrders
<1>5. NamedIsPlaced'
  <2>1. rcopy[r] \in Known
    BY DEF Known
  <2> QED  BY <1>1, <1>2, <2>1, RefreshNames, KnownNames, NoExecNames DEF Base, NamedIsPlaced, TruthKept
<1>6. PlacedInv'
  <2>1. \A o \in Orders : truth[o] = "none" => truth'[o] = "none"
    BY DEF RefreshStep, RefreshRead, RefreshPaper, RefreshGap, RefreshMissing, RefreshSkip, RefreshOrder, RefreshPosition,
           NotExpired, Expire, CancelledAt, RefreshSave, RefreshEnd, brokerVars, Base, Types, BrokerTypes
  <2> QED  BY <1>1, <1>2, <2>1, TradeAssumption DEF Base, PlacedInv, TruthKept, linkVars
<1>7. AutoInv'
  BY <1>1 DEF Base, AutoInv, linkVars
<1> QED  BY <1>2, <1>4, <1>5, <1>6, <1>7, RefreshTyped DEF Base

LEMMA OutsideBase ==
  ASSUME TradeAssumption, Base,
         BrokerStep \/ \E o \in PaperOrders : PaperOrderStep(o)
  PROVE  Base' /\ TruthKept /\ Known' = Known
<1>1. /\ UNCHANGED <<tradeVars, linkVars, userVars, refreshVars>>
      /\ Types' /\ TruthKept
  BY BrokerTyped, BrokerTruth, PaperSaved, PaperTypesStep, PaperTruth DEF Base
<1>2. Known' = Known
  BY <1>1 DEF Known, tradeVars, linkVars, userVars, refreshVars
<1>3. NamedIsPlaced'
  BY <1>1, <1>2, KnownNames DEF Base, NamedIsPlaced, TruthKept
<1>4. AutoInv' /\ RefreshInv'
  BY <1>1 DEF Base, AutoInv, RefreshInv, linkVars, refreshVars, LiveOrders
<1>5. PlacedInv'
  <2>1. CASE BrokerStep
    <3>1. \A o \in Orders : truth[o] = "none" => truth'[o] = "none"
      BY <2>1 DEF BrokerStep, Fill, Cancelled, ClosePosition, StoreOrder, SeePosition, ForeignPosition,
                  Base, Types, BrokerTypes
    <3>2. UNCHANGED pcopy
      BY <2>1 DEF BrokerStep, Fill, Cancelled, ClosePosition, StoreOrder, SeePosition, ForeignPosition
    <3> QED  BY <1>1, <3>1, <3>2, TradeAssumption DEF Base, PlacedInv, TruthKept, linkVars
  <2>2. ASSUME NEW o \in PaperOrders, PaperOrderStep(o)
        PROVE  PlacedInv'
    <3>1. /\ truth[o] # "none" /\ truth'[o] # "none"
          /\ \A p \in Orders : p # o => truth'[p] = truth[p]
      BY <2>2, PaperTruth
    <3>2. \A p \in PaperOrders : p # o => pcopy'[p] = pcopy[p]
      BY <2>2 DEF PaperOrderStep, PaperStep, PaperRead, PaperSave, Base, Types, BrokerTypes
    <3> QED  BY <1>1, <3>1, <3>2, TradeAssumption DEF Base, PlacedInv, linkVars
  <2> QED  BY <2>1, <2>2
<1> QED  BY <1>1, <1>2, <1>3, <1>4, <1>5 DEF Base

LEMMA BaseStep ==
  ASSUME TradeAssumption, NullAssumption, Base, [Next]_vars
  PROVE  Base' /\ TruthKept
<1>1. CASE UNCHANGED vars
  <2>1. Types'
    BY <1>1 DEF Base, Types, TradeTypes, BrokerTypes, LinkTypes, UserTypes, RefreshTypes, vars
  <2>2. NamedIsPlaced' /\ PlacedInv' /\ AutoInv' /\ RefreshInv'
    BY <1>1 DEF Base, NamedIsPlaced, Known, PlacedInv, AutoInv, RefreshInv, vars
  <2> QED  BY <1>1, <2>1, <2>2 DEF Base, TruthKept, vars
<1>2. CASE Next
  BY <1>2, UserBase, OrderBase, RefreshBase, OutsideBase DEF Next
<1> QED  BY <1>1, <1>2

LEMMA BaseInit ==
  ASSUME TradeAssumption, Init
  PROVE  Base
<1>1. NoExec \in Execs /\ NoTrade \in Copies /\ NoExec.order = None /\ NoTrade.exec = NoExec
  BY DEF NoExec, NoTrade, Execs, Copies, Statuses
<1>2. Types
  BY <1>1 DEF Init, Types, TradeTypes, BrokerTypes, LinkTypes, UserTypes, RefreshTypes, Statuses
<1>3. Known \subseteq {NoExec}
  BY <1>1 DEF Init, Known
<1>4. NamedIsPlaced
  BY <1>1, <1>3 DEF NamedIsPlaced
<1>5. PlacedInv /\ AutoInv /\ RefreshInv
  BY <1>1, TradeAssumption DEF Init, PlacedInv, AutoInv, RefreshInv
<1> QED  BY <1>2, <1>4, <1>5 DEF Base

LEMMA BaseHolds == Spec => []Base
<1>1. Init => Base
  BY BaseInit, TradeAssumption
<1>2. Base /\ [Next]_vars => Base'
  BY BaseStep, TradeAssumption, NullAssumption
<1> QED  BY <1>1, <1>2, PTL DEF Spec

(* The rows, the copies of them and the steps of all requests stay well     *)
(* formed: in particular no record ever names an order, or takes a status   *)
(* from one, that was not placed.                                          *)
THEOREM TypeCorrect == Spec => []TypeOK
<1>1. Base => TypeOK
  BY DEF Base, Types, TradeTypes, BrokerTypes, LinkTypes, UserTypes, RefreshTypes, TypeOK
<1> QED  BY <1>1, BaseHolds, PTL

-----------------------------------------------------------------------------
(* The order a record names. *)

(* What assertOrderLinkAllowed found of the copy that a link works on. *)
LinkInv == \A o \in Orders : lpc[o] \in {"gate", "link"} => ~Conflicts(o, lcopy[o])

LEMMA LinkInvStep ==
  ASSUME Base, LinkInv, [Next]_vars
  PROVE  LinkInv'
<1>1. CASE UNCHANGED <<lpc, lcopy>>
  BY <1>1 DEF LinkInv
<1>2. ASSUME NEW o \in Orders, OrderStep(o)
      PROVE  LinkInv'
  <2>1. CASE LinkRead(o)
    <3>1. CASE LinkAt(o, "gate") /\ Holding(o, exec) /\ ~Conflicts(o, exec)
      BY <3>1 DEF LinkInv, Base, Types, LinkTypes, LinkAt, Holding
    <3>2. CASE LinkEnd(o)
      BY <3>2 DEF LinkInv, Base, Types, LinkTypes, LinkAt, Holding, LinkEnd
    <3> QED  BY <2>1, <3>1, <3>2 DEF LinkRead
  <2>2. CASE LinkGate(o)
    <3>1. CASE LinkAt(o, "link") /\ UNCHANGED lcopy
      BY <2>2, <3>1 DEF LinkGate, LinkInv, Base, Types, LinkTypes, LinkAt
    <3>2. CASE LinkEnd(o)
      BY <3>2 DEF LinkInv, Base, Types, LinkTypes, LinkAt, Holding, LinkEnd
    <3> QED  BY <2>2, <3>1, <3>2 DEF LinkGate
  <2>3. CASE Link(o)
    <3>1. LinkEnd(o)
      BY <2>3 DEF Link
    <3> QED  BY <3>1 DEF LinkInv, Base, Types, LinkTypes, LinkAt, Holding, LinkEnd
  <2>4. CASE Place(o)
    BY <2>4 DEF Place, LinkInv, Base, Types, LinkTypes, LinkAt, Holding
  <2>5. ASSUME UNCHANGED lcopy, NEW s \in {"check", "accept", "queued", "submitting", "place", "end"}, LinkAt(o, s)
        PROVE  LinkInv'
    BY <2>5 DEF LinkInv, Base, Types, LinkTypes, LinkAt
  <2> QED  BY <1>2, <2>1, <2>2, <2>3, <2>4, <2>5 DEF OrderStep, AutoRead, AutoGate, AutoAccept, AutoRecord,
                                                    AutoLinked
<1>3. ASSUME NEW u \in Users, UserStep(u)
      PROVE  UNCHANGED <<lpc, lcopy>>
  BY <1>3 DEF UserStep, UserRead, UserGate, UserSave, UserAccepted, linkVars
<1>4. ASSUME NEW r \in Refreshers, RefreshStep(r)
      PROVE  UNCHANGED <<lpc, lcopy>>
  BY <1>4 DEF RefreshStep, RefreshRead, RefreshPaper, RefreshGap, RefreshMissing, RefreshSkip, RefreshOrder,
              RefreshPosition, NotExpired, Expire, RefreshSave, RefreshEnd, linkVars
<1>5. ASSUME BrokerStep
      PROVE  UNCHANGED <<lpc, lcopy>>
  BY <1>5, BrokerTyped DEF Base, linkVars
<1>6. ASSUME NEW o \in PaperOrders, PaperOrderStep(o)
      PROVE  UNCHANGED <<lpc, lcopy>>
  BY <1>6 DEF PaperOrderStep, PaperStep, PaperRead, PaperSave, SavePaperOrder, linkVars
<1> QED  BY <1>1, <1>2, <1>3, <1>4, <1>5, <1>6 DEF Next, vars

LEMMA SaveKeepsNames ==
  ASSUME NEW e, SaveExec(e), e.order = exec.order, named \subseteq {exec.order}
  PROVE  named' \subseteq {exec'.order}
  BY DEF SaveExec

LEMMA NamedStep ==
  ASSUME TradeAssumption, NullAssumption, Base, LinkInv, RecordKeepsOrder, [Next]_vars
  PROVE  RecordKeepsOrder'
<1> SUFFICES ASSUME hazard' \cap {"lost", "relinked"} = {}
             PROVE  named' \subseteq {exec'.order}
  BY DEF RecordKeepsOrder
<1>1. /\ named \subseteq {exec.order} /\ named \subseteq Orders
      /\ hazard \subseteq hazard' /\ "lost" \notin hazard' /\ "relinked" \notin hazard'
  BY HazardGrows DEF RecordKeepsOrder, Base, Types, TradeTypes
<1>2. CASE UNCHANGED <<exec, named>>
  BY <1>1, <1>2
<1>3. ASSUME NEW e, SaveExec(e), NEW base, hazard' = hazard \cup Lost(base), e.order = base.order
      PROVE  named' \subseteq {exec'.order}
  <2>1. exec = base
    BY <1>1, <1>3 DEF Lost
  <2> QED  BY <1>1, <1>3, <2>1, SaveKeepsNames
<1>4. ASSUME NEW u \in Users, UserStep(u)
      PROVE  named' \subseteq {exec'.order}
  BY <1>4, <1>2, <1>3 DEF UserStep, UserRead, UserGate, UserSave, UserAccepted, tradeVars, history
<1>5. ASSUME NEW r \in Refreshers, RefreshStep(r)
      PROVE  named' \subseteq {exec'.order}
  <2>1. rnext[r].order = rcopy[r].order
    BY DEF Base, RefreshInv
  <2> QED  BY <1>5, <1>2, <1>3, <2>1 DEF RefreshStep, RefreshRead, RefreshPaper, RefreshGap, RefreshMissing, RefreshSkip,
             RefreshOrder, RefreshPosition, NotExpired, Expire, RefreshSave, RefreshEnd, tradeVars, history
<1>6. ASSUME NEW o \in Orders, OrderStep(o)
      PROVE  named' \subseteq {exec'.order}
  <2>1. CASE AutoGate(o)
    <3>1. exec = auto[o].exec /\ SaveExec(auto[o].exec)
      BY <1>1, <2>1 DEF AutoGate, Lost
    <3> QED  BY <3>1, <1>1, SaveKeepsNames
  <2>2. CASE AutoRecord(o)
    <3> DEFINE next == [auto[o].exec EXCEPT !.state = lpc[o]]
    <3>1. o \in AutoOrders
      BY <2>2 DEF AutoRecord, Base, AutoInv
    <3>2. next.order = auto[o].exec.order
      BY <3>1 DEF Base, Types, LinkTypes, Copies, Execs
    <3>3. SaveExec(next) /\ hazard' = hazard \cup Lost(auto[o].exec)
      BY <2>2 DEF AutoRecord
    <3> HIDE DEF next
    <3> QED  BY <3>2, <3>3, <1>3
  <2>3. CASE AutoLinked(o) /\ ~UNCHANGED <<exec, named>>
    <3> DEFINE base == auto[o].exec
    <3>1. o \in AutoOrders /\ base \in Execs /\ base.order = None
      BY <2>3 DEF AutoLinked, Base, AutoInv, Types, LinkTypes, Copies
    <3>2. PICK shown \in LinkShown(o, base) : SaveExec(LinkedRecord(base, o, shown))
      BY <2>3 DEF AutoLinked
    <3>3. exec = base \/ \E s \in LinkShown(o, base) : exec = LinkedRecord(base, o, s)
      BY <1>1, <2>3 DEF AutoLinked
    <3>4. exec.order \in {None, o}
      BY <3>1, <3>3, LinkedTyped DEF Base
    <3>5. exec'.order = o /\ named' = named \cup {o}
      BY <3>1, <3>2, LinkedTyped, TradeAssumption DEF Base, SaveExec
    <3> QED  BY <3>4, <3>5, <1>1, TradeAssumption
  <2>4. CASE LinkGate(o)
    BY <2>4, <1>3 DEF LinkGate
  <2>5. CASE Link(o)
    <3>1. PICK id \in LinkIds(o), shown \in LinkShown(o, lcopy[o]) :
            /\ SaveExec(LinkedRecord(lcopy[o], id, shown))
            /\ hazard' = hazard \cup Lost(lcopy[o]) \cup Relinked(o, id) \cup Inherited(lcopy[o], id)
      BY <2>5 DEF Link
    <3>2. lcopy[o] \in Execs /\ id \in {o, None} /\ lcopy[o].order \in Orders \cup {None}
      BY DEF LinkIds, Base, Types, LinkTypes, Execs
    <3>3. LinkedRecord(lcopy[o], id, shown).order = id
      BY <3>2, LinkedTyped DEF Base
    <3>4. exec = lcopy[o]
      BY <1>1, <3>1 DEF Lost
    <3>5. lcopy[o].order # None => id # None /\ (id \in PaperOrders) = (lcopy[o].order \in PaperOrders)
      BY <1>1, <3>1 DEF Relinked
    <3>6. ~Conflicts(o, lcopy[o])
      BY <2>5 DEF Link, LinkInv
    <3>7. lcopy[o].order \in {None, id}
      BY <3>2, <3>5, <3>6 DEF Conflicts
    <3>8. exec'.order = id /\ named' = (IF id = None THEN named ELSE named \cup {id})
      BY <3>1, <3>3 DEF SaveExec
    <3> QED  BY <1>1, <3>4, <3>7, <3>8, TradeAssumption
  <2> QED  BY <1>6, <1>2, <2>1, <2>2, <2>3, <2>4, <2>5 DEF OrderStep, AutoRead, AutoAccept, Place, LinkRead,
                                                          tradeVars, history
<1>7. ASSUME BrokerStep
      PROVE  UNCHANGED <<exec, named>>
  BY <1>7 DEF BrokerStep, Fill, Cancelled, ClosePosition, StoreOrder, SeePosition, ForeignPosition,
              tradeVars, history
<1>8. ASSUME NEW o \in PaperOrders, PaperOrderStep(o)
      PROVE  UNCHANGED <<exec, named>>
  BY <1>8, PaperSaved DEF Base, tradeVars
<1> QED  BY <1>2, <1>4, <1>5, <1>6, <1>7, <1>8 DEF Next, vars

(* RecordKeepsOrder: while no save is made over a record that has changed   *)
(* since it was read, and no link drops the order a record names, the      *)
(* record has named one order and names it still.                          *)
THEOREM RecordsKeepOrders == Spec => []RecordKeepsOrder
<1>1. Init => LinkInv /\ RecordKeepsOrder
  BY DEF Init, LinkInv, RecordKeepsOrder
<1>2. Base /\ LinkInv /\ RecordKeepsOrder /\ [Next]_vars => LinkInv' /\ RecordKeepsOrder'
  BY LinkInvStep, NamedStep, TradeAssumption, NullAssumption
<1> QED  BY <1>1, <1>2, BaseHolds, PTL DEF Spec

-----------------------------------------------------------------------------
(* The status and the order. *)

(* What assertStatusTransitionAllowed found of the trade as it was read. *)
TransitionInv == \A u \in Users : upc[u] \in {"gate", "status"} => Allowed(ucopy[u], want[u])

(* A trade that nobody has accepted has no order. *)
OpenInv == Clean({"overtaken", "lost"}) /\ status \in {"Open", "Reviewed"} => exec.order = None

LEMMA TransitionStep ==
  ASSUME Base, TransitionInv, [Next]_vars
  PROVE  TransitionInv'
<1>1. CASE UNCHANGED userVars
  BY <1>1 DEF TransitionInv, userVars, Allowed, Tracked
<1>2. ASSUME NEW u \in Users, UserStep(u)
      PROVE  TransitionInv'
  <2>1. CASE UserRead(u)
    <3>1. PICK next \in {"Reviewed", "Accepted", "Dismissed"} :
            /\ Allowed(Here, next)
            /\ want' = [want EXCEPT ![u] = next]
            /\ UserAt(u, IF next = "Accepted" THEN "gate" ELSE "status")
      BY <2>1 DEF UserRead
    <3>2. ucopy' = [ucopy EXCEPT ![u] = Here]
      BY <2>1 DEF UserRead
    <3> QED  BY <3>1, <3>2 DEF TransitionInv, Base, Types, UserTypes, UserAt
  <2>2. ASSUME \/ UserDone(u)
               \/ UNCHANGED <<ucopy, want>> /\ UserAt(u, "status") /\ upc[u] = "gate"
               \/ UNCHANGED <<ucopy, want>> /\ UserAt(u, "exec")
        PROVE  TransitionInv'
    BY <2>2 DEF TransitionInv, Base, Types, UserTypes, UserAt, UserDone
  <2> QED  BY <1>2, <2>1, <2>2 DEF UserStep, UserGate, UserSave, UserAccepted
<1>3. ASSUME NEW o \in Orders, OrderStep(o)
      PROVE  UNCHANGED userVars
  BY <1>3, OrderCopies DEF Base
<1>4. ASSUME NEW r \in Refreshers, RefreshStep(r)
      PROVE  UNCHANGED userVars
  BY <1>4, RefreshCopies DEF Base
<1>5. ASSUME BrokerStep
      PROVE  UNCHANGED userVars
  BY <1>5, BrokerTyped DEF Base
<1>6. ASSUME NEW o \in PaperOrders, PaperOrderStep(o)
      PROVE  UNCHANGED userVars
  BY <1>6, PaperSaved, TradeAssumption DEF Base
<1> QED  BY <1>1, <1>2, <1>3, <1>4, <1>5, <1>6 DEF Next, vars, userVars

LEMMA DismissalStep ==
  ASSUME TradeAssumption, NullAssumption, Base, TransitionInv, OpenInv, DismissalHolds, [Next]_vars
  PROVE  OpenInv' /\ DismissalHolds'
<1> DEFINE Stays == status' = status /\ exec'.order = exec.order /\ dismissed' = dismissed
           Goal == /\ status' \in {"Open", "Reviewed"} => exec'.order = None
                   /\ dismissed' => status' = "Dismissed" /\ exec'.order = None
<1> SUFFICES ASSUME Clean({"overtaken", "lost"})'
             PROVE  Goal
  BY DEF OpenInv, DismissalHolds, Clean
<1>1. /\ status \in {"Open", "Reviewed"} => exec.order = None
      /\ dismissed => status = "Dismissed" /\ exec.order = None
      /\ "lost" \notin hazard' /\ "overtaken" \notin hazard'
  BY HazardGrows DEF OpenInv, DismissalHolds, Clean, Base
<1>2. CASE Stays
  BY <1>1, <1>2
<1>3. ASSUME NEW e, SaveExec(e), NEW base, hazard' = hazard \cup Lost(base), e.order = base.order,
             UNCHANGED <<status, dismissed>>
      PROVE  Stays
  BY <1>1, <1>3 DEF Lost, SaveExec
<1>4. ASSUME NEW u \in Users, UserStep(u)
      PROVE  Goal
  <2>1. CASE UserRead(u)
    BY <2>1, <1>2 DEF UserRead, tradeVars, history
  <2>2. CASE UserGate(u)
    BY <2>2, <1>2, <1>3 DEF UserGate
  <2>3. CASE UserAccepted(u)
    BY <2>3, <1>2, <1>3 DEF UserAccepted
  <2>4. CASE UserSave(u)
    <3>1. /\ status' = want[u] /\ exec' = exec
          /\ dismissed' = (dismissed \/ want[u] = "Dismissed")
          /\ Allowed(ucopy[u], want[u])
          /\ Overtaken(ucopy[u], want[u]) = {}
      <4>1. "overtaken" \notin Overtaken(ucopy[u], want[u])
        BY <1>1, <2>4 DEF UserSave
      <4> QED  BY <2>4, <4>1 DEF UserSave, TransitionInv, Overtaken
    <3>2. /\ status = ucopy[u].status
          /\ want[u] = "Dismissed" /\ Tracked(exec) => Tracked(ucopy[u].exec)
      BY <3>1 DEF Overtaken
    <3>3. want[u] \in {"Reviewed", "Accepted", "Dismissed"} /\ status \in Statuses
      BY DEF Base, Types, UserTypes, TradeTypes
    <3>4. CASE want[u] = "Dismissed"
      <4>1. exec.order = None
        BY <1>1, <3>1, <3>2, <3>4 DEF Allowed, Tracked
      <4> QED  BY <3>1, <3>4, <4>1
    <3>5. CASE want[u] # "Dismissed"
      <4>1. status \in {"Open", "Reviewed"}
        BY <3>1, <3>2, <3>3, <3>5 DEF Allowed
      <4> QED  BY <1>1, <3>1, <3>5, <4>1
    <3> QED  BY <3>4, <3>5
  <2> QED  BY <1>4, <2>1, <2>2, <2>3, <2>4 DEF UserStep
<1>5. ASSUME NEW r \in Refreshers, RefreshStep(r)
      PROVE  Goal
  <2>1. rnext[r].order = rcopy[r].order
    BY DEF Base, RefreshInv
  <2>2. Stays
    BY <1>5, <1>3, <2>1 DEF RefreshStep, RefreshRead, RefreshPaper, RefreshGap, RefreshMissing, RefreshSkip, RefreshOrder,
       RefreshPosition, NotExpired, Expire, RefreshSave, RefreshEnd, tradeVars, history
  <2> QED  BY <2>2, <1>2
<1>6. ASSUME NEW o \in Orders, OrderStep(o)
      PROVE  Goal
  <2>1. CASE AutoGate(o)
    <3>1. exec = auto[o].exec /\ SaveExec(auto[o].exec) /\ status' = status /\ dismissed' = dismissed
      BY <1>1, <2>1 DEF AutoGate, Lost
    <3> QED  BY <3>1, <1>2 DEF SaveExec
  <2>2. CASE AutoAccept(o)
    BY <1>1, <2>2 DEF AutoAccept
  <2>3. CASE AutoRecord(o)
    <3> DEFINE next == [auto[o].exec EXCEPT !.state = lpc[o]]
    <3>1. o \in AutoOrders
      BY <2>3 DEF AutoRecord, Base, AutoInv
    <3>2. next.order = auto[o].exec.order
      BY <3>1 DEF Base, Types, LinkTypes, Copies, Execs
    <3>3. SaveExec(next) /\ hazard' = hazard \cup Lost(auto[o].exec) /\ UNCHANGED <<status, dismissed>>
      BY <2>3 DEF AutoRecord
    <3> HIDE DEF next
    <3> QED  BY <3>2, <3>3, <1>2, <1>3
  <2>4. CASE AutoLinked(o)
    <3>1. UNCHANGED <<status, dismissed>> /\ (status = "Accepted" \/ UNCHANGED exec)
      BY <1>1, <2>4 DEF AutoLinked
    <3> QED  BY <3>1, <1>1
  <2>5. CASE LinkGate(o)
    BY <2>5, <1>2, <1>3 DEF LinkGate
  <2>6. CASE Link(o)
    <3>1. UNCHANGED <<status, dismissed>> /\ status = "Accepted"
      BY <1>1, <2>6 DEF Link, Relinked
    <3> QED  BY <3>1, <1>1
  <2> QED  BY <1>6, <1>2, <2>1, <2>2, <2>3, <2>4, <2>5, <2>6 DEF OrderStep, AutoRead, Place, LinkRead,
                                                                tradeVars, history
<1>7. ASSUME BrokerStep
      PROVE  Goal
  <2>1. Stays
    BY <1>7 DEF BrokerStep, Fill, Cancelled, ClosePosition, StoreOrder, SeePosition, ForeignPosition,
                tradeVars, history
  <2> QED  BY <2>1, <1>2
<1>8. ASSUME NEW o \in PaperOrders, PaperOrderStep(o)
      PROVE  Goal
  <2>1. Stays
    BY <1>8, PaperSaved DEF Base, tradeVars
  <2> QED  BY <2>1, <1>2
<1>9. CASE UNCHANGED vars
  BY <1>9, <1>2 DEF vars
<1> QED  BY <1>4, <1>5, <1>6, <1>7, <1>8, <1>9 DEF Next

(* DismissalHolds: while every save meets the status and the record that    *)
(* it was made from, a trade that a user was told is dismissed stays so,   *)
(* and no order is linked to it.                                           *)
THEOREM DismissalsHold == Spec => []DismissalHolds
<1>1. Init => TransitionInv /\ OpenInv /\ DismissalHolds
  BY DEF Init, TransitionInv, OpenInv, DismissalHolds, NoExec
<1>2. Base /\ TransitionInv /\ OpenInv /\ DismissalHolds /\ [Next]_vars
        => TransitionInv' /\ OpenInv' /\ DismissalHolds'
  BY TransitionStep, DismissalStep, TradeAssumption, NullAssumption
<1> QED  BY <1>1, <1>2, BaseHolds, PTL DEF Spec

-----------------------------------------------------------------------------
(* What the snapshots and the simulation may say of an order. *)

SnapInv ==
  \A o \in LiveOrders :
    /\ snap[o] = "filled" => truth[o] \in {"filled", "closed"}
    /\ snap[o] = "cancelled" => truth[o] = "cancelled"
    /\ snap[o] = "closed" => truth[o] \in {"filled", "closed", "cancelled"}
    /\ snap[o] = "closed" /\ "unlisted" \notin hazard => truth[o] \in {"filled", "closed"}
    /\ position[o] = "closed" /\ "foreign" \notin hazard => truth[o] = "closed"
    /\ position[o] = "open" /\ "foreign" \notin hazard => truth[o] \in {"filled", "closed"}

SimInv ==
  \A o \in PaperOrders : sim[o] \in {"filled", "closed"} =>
    /\ "overwritten" \notin hazard => truth[o] \in {"filled", "closed", "cancelled"}
    /\ Clean({"overwritten", "voided"}) => truth[o] \in {"filled", "closed"}

LEMMA SnapStep ==
  ASSUME TradeAssumption, NullAssumption, Base, SnapInv, [Next]_vars
  PROVE  SnapInv'
<1>1. /\ hazard \subseteq hazard' /\ Types'
      /\ \A o \in LiveOrders :
           /\ truth[o] = "cancelled" => truth'[o] = "cancelled"
           /\ truth[o] \in {"filled", "closed", "cancelled"} => truth'[o] \in {"filled", "closed", "cancelled"}
           /\ truth[o] \in {"filled", "closed"} => truth'[o] \in {"filled", "closed"}
           /\ truth[o] = "closed" => truth'[o] = "closed"
  BY BaseStep, HazardGrows DEF Base, TruthKept, LiveOrders
<1>2. CASE UNCHANGED <<snap, position>>
  BY <1>1, <1>2 DEF SnapInv, LiveOrders
<1>3. ASSUME BrokerStep
      PROVE  SnapInv'
  <2>1. PICK o \in LiveOrders : \/ Fill(o) \/ Cancelled(o) \/ ClosePosition(o)
                               \/ StoreOrder(o) \/ SeePosition(o) \/ ForeignPosition(o)
    BY <1>3 DEF BrokerStep
  <2>2. CASE Fill(o) \/ Cancelled(o) \/ ClosePosition(o)
    BY <2>2, <1>2 DEF Fill, Cancelled, ClosePosition
  <2>3. CASE StoreOrder(o)
    <3>1. PICK seen \in Fetched(o) :
            /\ \E s \in Stored(o, seen) : snap' = [snap EXCEPT ![o] = s]
            /\ hazard' = hazard \cup
                 (IF snap'[o] = "closed" /\ truth[o] = "cancelled" THEN {"unlisted"} ELSE {})
            /\ UNCHANGED <<truth, position>>
      BY <2>3 DEF StoreOrder
    <3>2. /\ snap'[o] \in Stored(o, seen)
          /\ \A p \in LiveOrders : p # o => snap'[p] = snap[p]
      BY <3>1 DEF Base, Types, BrokerTypes
    <3>3. /\ truth[o] \in {"none", "open", "filled", "cancelled", "closed"}
          /\ snap[o] \in {"none", "open", "filled", "cancelled", "closed"}
      BY DEF Base, Types, BrokerTypes, LiveOrders
    <3>4. /\ seen \in {"none", "open", "filled", "cancelled"}
          /\ seen = "filled" => truth[o] \in {"filled", "closed"}
          /\ seen = "cancelled" => truth[o] = "cancelled"
      BY <3>3 DEF Fetched
    <3>5. \/ snap'[o] \in {snap[o], seen, "none"} \/ snap'[o] = "open"
          \/ snap'[o] = "closed" /\ truth[o] \in {"filled", "closed", "cancelled"}
      BY <3>2, <3>3, <3>4 DEF Stored
    <3>6. /\ snap'[o] = "filled" => truth[o] \in {"filled", "closed"}
          /\ snap'[o] = "cancelled" => truth[o] = "cancelled"
          /\ snap'[o] = "closed" => truth[o] \in {"filled", "closed", "cancelled"}
          /\ snap'[o] = "closed" /\ "unlisted" \notin hazard' => truth[o] \in {"filled", "closed"}
      BY <3>1, <3>4, <3>5 DEF SnapInv
    <3> QED  BY <1>1, <3>1, <3>2, <3>6 DEF SnapInv, LiveOrders
  <2>4. CASE SeePosition(o)
    <3>1. /\ UNCHANGED <<truth, snap>> /\ truth[o] \in {"filled", "closed"}
          /\ position'[o] = IF truth[o] = "filled" THEN "open" ELSE "closed"
          /\ \A p \in LiveOrders : p # o => position'[p] = position[p]
      BY <2>4 DEF SeePosition, Base, Types, BrokerTypes
    <3> QED  BY <1>1, <3>1 DEF SnapInv, LiveOrders
  <2>5. CASE ForeignPosition(o)
    <3>1. /\ UNCHANGED <<truth, snap>> /\ "foreign" \in hazard'
          /\ \A p \in LiveOrders : p # o => position'[p] = position[p]
      BY <2>5 DEF ForeignPosition, Base, Types, BrokerTypes
    <3> QED  BY <1>1, <3>1 DEF SnapInv, LiveOrders
  <2> QED  BY <2>1, <2>2, <2>3, <2>4, <2>5
<1>4. ASSUME NEW u \in Users, UserStep(u)
      PROVE  UNCHANGED <<snap, position>>
  BY <1>4, UserCopies DEF Base, brokerVars
<1>5. ASSUME NEW o \in Orders, OrderStep(o)
      PROVE  UNCHANGED <<snap, position>>
  BY <1>5, OrderCopies DEF Base
<1>6. ASSUME NEW r \in Refreshers, RefreshStep(r)
      PROVE  UNCHANGED <<snap, position>>
  BY <1>6, RefreshCopies DEF Base
<1>7. ASSUME NEW o \in PaperOrders, PaperOrderStep(o)
      PROVE  UNCHANGED <<snap, position>>
  BY <1>7, PaperSaved DEF Base
<1> QED  BY <1>2, <1>3, <1>4, <1>5, <1>6, <1>7 DEF Next, vars

LEMMA SimStep ==
  ASSUME TradeAssumption, NullAssumption, Base, SimInv, [Next]_vars
  PROVE  SimInv'
<1>1. hazard \subseteq hazard' /\ TruthKept
  BY BaseStep, HazardGrows DEF Base
<1>2. CASE UNCHANGED sim
  BY <1>1, <1>2, TradeAssumption DEF SimInv, TruthKept, Clean
<1>3. ASSUME NEW o \in PaperOrders, PaperOrderStep(o)
      PROVE  SimInv'
  <2>1. CASE UNCHANGED sim
    BY <1>2, <2>1
  <2>2. ASSUME NEW row \in PaperCopies, SavePaperOrder(o, row)
        PROVE  SimInv'
    <3>1. PICK next \in PaperRows(row) :
            /\ truth' = [truth EXCEPT ![o] = next.status]
            /\ sim' = [sim EXCEPT ![o] = next.state]
            /\ hazard' = hazard
                 \cup (IF row # PaperRow(o) THEN {"overwritten"} ELSE {})
                 \cup (IF next.status = "cancelled" /\ row.status \in {"filled", "closed"}
                       THEN {"voided"} ELSE {})
      BY <2>2 DEF SavePaperOrder
    <3>2. /\ truth'[o] = next.status /\ sim'[o] = next.state
          /\ \A p \in PaperOrders : p # o => truth'[p] = truth[p] /\ sim'[p] = sim[p]
      BY <3>1, TradeAssumption DEF Base, Types, BrokerTypes
    <3>3. "overwritten" \notin hazard' => row.status = truth[o] /\ row.state = sim[o]
      BY <3>1 DEF PaperRow
    <3>4. Clean({"overwritten", "voided"})' /\ row.status \in {"filled", "closed"} => next.status # "cancelled"
      BY <3>1 DEF Clean
    <3>5. ASSUME sim'[o] \in {"filled", "closed"}, "overwritten" \notin hazard'
          PROVE  /\ truth'[o] \in {"filled", "closed", "cancelled"}
                 /\ "voided" \notin hazard' => truth'[o] \in {"filled", "closed"}
      <4>1. /\ row.status = truth[o] /\ row.state = sim[o] /\ "overwritten" \notin hazard
            /\ "voided" \notin hazard' => "voided" \notin hazard
        BY <1>1, <3>3, <3>5
      <4>2. \/ next.state = row.state /\ next.status = row.status
            \/ next.state = row.state /\ next.status = "cancelled"
            \/ next.status \in {"filled", "closed"}
            \/ next.state = "working"
        BY PaperRowsSound
      <4>3. sim[o] \in {"filled", "closed"} =>
              /\ truth[o] \in {"filled", "closed", "cancelled"}
              /\ "voided" \notin hazard => truth[o] \in {"filled", "closed"}
        BY <4>1 DEF SimInv, Clean
      <4> QED  BY <3>2, <3>4, <3>5, <4>1, <4>2, <4>3 DEF Clean
    <3>6. \A p \in PaperOrders : p # o /\ sim'[p] \in {"filled", "closed"} =>
            /\ "overwritten" \notin hazard' => truth'[p] \in {"filled", "closed", "cancelled"}
            /\ Clean({"overwritten", "voided"})' => truth'[p] \in {"filled", "closed"}
      BY <1>1, <3>2 DEF SimInv, Clean
    <3> QED  BY <3>5, <3>6 DEF SimInv, Clean
  <2> QED  BY <1>3, <2>1, <2>2, PaperSaved DEF Base
<1>4. ASSUME NEW u \in Users, UserStep(u)
      PROVE  UNCHANGED sim
  BY <1>4, UserCopies DEF Base, brokerVars
<1>5. ASSUME NEW o \in Orders, OrderStep(o)
      PROVE  UNCHANGED sim
  BY <1>5, OrderCopies DEF Base
<1>6. ASSUME NEW r \in Refreshers, RefreshStep(r)
      PROVE  UNCHANGED sim
  BY <1>6, RefreshCopies DEF Base
<1>7. ASSUME BrokerStep
      PROVE  UNCHANGED sim
  BY <1>7, BrokerTruth
<1> QED  BY <1>2, <1>3, <1>4, <1>5, <1>6, <1>7 DEF Next, vars

-----------------------------------------------------------------------------
(* What the records may say of an order.  An operator here takes the record *)
(* and what has become of the order that it names.                         *)

EndTrue(e, s, h) ==
  h \cap {"expiry", "overwritten"} = {} =>
    /\ e.state \in {"cancelled", "expired"} => s = "cancelled"
    /\ e.state = "closed" /\ "foreign" \notin h => s \in {"filled", "closed", "cancelled"}

FillTrue(e, s) == FillEvidence(e) => s \in {"filled", "closed"}

FillClean == Clean({"unlisted", "foreign", "inherited", "overwritten", "voided"})

(* A copy that is true now may be saved at any time: so all of them are.    *)
EndInv == \A e \in Known : e.order # None => EndTrue(e, truth[e.order], hazard)
FillInv == FillClean => \A e \in Known : e.order # None => FillTrue(e, truth[e.order])

RecordsInv == Base /\ SnapInv /\ SimInv /\ EndInv /\ FillInv

LEMMA TrueStays ==
  ASSUME TradeAssumption, NullAssumption, RecordsInv, [Next]_vars, NEW e \in Known, e.order # None
  PROVE  /\ EndTrue(e, truth'[e.order], hazard')
         /\ FillClean' => FillTrue(e, truth'[e.order])
<1>1. hazard \subseteq hazard' /\ TruthKept
  BY BaseStep, HazardGrows DEF RecordsInv, Base
<1>2. e.order \in Orders
  BY KnownNames DEF RecordsInv, Base
<1>3. EndTrue(e, truth[e.order], hazard')
  BY <1>1 DEF RecordsInv, EndInv, EndTrue
<1>4. FillClean' => FillTrue(e, truth[e.order])
  BY <1>1 DEF RecordsInv, FillInv, FillClean, Clean
<1>5. EndTrue(e, truth'[e.order], hazard')
  BY <1>1, <1>2, <1>3 DEF TruthKept, EndTrue
<1>6. FillClean' => FillTrue(e, truth'[e.order])
  BY <1>1, <1>2, <1>4 DEF TruthKept, FillTrue, FillClean, Clean
<1> QED  BY <1>5, <1>6

LEMMA LinkTrue ==
  ASSUME TradeAssumption, NullAssumption, RecordsInv, NEW o \in Orders, OrderStep(o), exec' \notin Known,
         exec'.order # None
  PROVE  /\ EndTrue(exec', truth'[exec'.order], hazard')
         /\ FillClean' => FillTrue(exec', truth'[exec'.order])
<1>1. Base /\ truth[o] \in {"none", "open", "filled", "cancelled", "closed"}
  BY DEF RecordsInv, Base, Types, BrokerTypes
<1>2. hazard \subseteq hazard'
  BY HazardGrows DEF Base, RecordsInv, Next
<1>3. ASSUME NEW base \in Known, base \in Execs, NEW id \in {o, None}, NEW shown \in LinkShown(o, base),
             exec' = LinkedRecord(base, id, shown), Inherited(base, id) \subseteq hazard', UNCHANGED truth
      PROVE  /\ EndTrue(exec', truth'[exec'.order], hazard')
             /\ FillClean' => FillTrue(exec', truth'[exec'.order])
  <2>1. /\ exec'.order = o /\ exec'.state = "linked" /\ exec'.shown = shown /\ exec'.fill = base.fill
        /\ id = o /\ o # None
    BY <1>1, <1>3, LinkedTyped DEF Base
  <2>2. shown \in {base.shown, "open"} \/ (shown = "closed" /\ truth[o] \in {"filled", "closed"})
    BY DEF LinkShown
  <2>3. ASSUME FillClean', FillEvidence(base)
        PROVE  truth[o] \in {"filled", "closed"}
    <3>1. base.order = o
      BY <1>3, <2>1, <2>3 DEF FillClean, Clean, Inherited
    <3>2. FillClean
      BY <1>2, <2>3 DEF FillClean, Clean
    <3> QED  BY <2>1, <2>3, <3>1, <3>2 DEF RecordsInv, FillInv, FillTrue
  <2> QED  BY <1>3, <2>1, <2>2, <2>3 DEF EndTrue, FillTrue, FillEvidence
<1>4. CASE AutoRecord(o)
  <2>1. exec' = [auto[o].exec EXCEPT !.state = lpc[o]] /\ o \in AutoOrders
    BY <1>1, <1>4 DEF AutoRecord, SaveExec, Base, AutoInv
  <2>2. auto[o].exec \in Execs /\ auto[o].exec.order = None
    BY <1>1, <2>1 DEF Base, Types, LinkTypes, Copies, AutoInv
  <2> QED  BY <2>1, <2>2 DEF Execs
<1>5. CASE Link(o)
  <2>1. PICK id \in LinkIds(o), shown \in LinkShown(o, lcopy[o]) :
          /\ SaveExec(LinkedRecord(lcopy[o], id, shown))
          /\ hazard' = hazard \cup Lost(lcopy[o]) \cup Relinked(o, id) \cup Inherited(lcopy[o], id)
    BY <1>5 DEF Link
  <2>2. lcopy[o] \in Known /\ lcopy[o] \in Execs /\ id \in {o, None} /\ UNCHANGED truth
    BY <1>1, <1>5 DEF Known, Base, Types, LinkTypes, LinkIds, Link, brokerVars
  <2> QED  BY <1>3, <2>1, <2>2 DEF SaveExec
<1>6. CASE AutoLinked(o)
  <2> DEFINE base == auto[o].exec
  <2>1. o \in AutoOrders /\ UNCHANGED truth
    BY <1>1, <1>6 DEF AutoLinked, Base, AutoInv, brokerVars
  <2>2. base \in Known /\ base \in Execs
    BY <1>1, <2>1 DEF Known, Base, Types, LinkTypes, Copies
  <2>3. exec' # exec
    BY DEF Known
  <2>4. PICK shown \in LinkShown(o, base) : SaveExec(LinkedRecord(base, o, shown))
    BY <1>6, <2>3 DEF AutoLinked
  <2>5. Inherited(base, o) \subseteq hazard'
    BY <1>6, <2>3 DEF AutoLinked
  <2>6. exec' = LinkedRecord(base, o, shown)
    BY <2>4 DEF SaveExec
  <2> HIDE DEF base
  <2> QED  BY <1>3, <2>1, <2>2, <2>5, <2>6
<1> QED  BY <1>1, <1>4, <1>5, <1>6, OrderCopies DEF Base

LEMMA RefreshTrue ==
  ASSUME TradeAssumption, NullAssumption, RecordsInv, NEW r \in Refreshers, RefreshStep(r),
         rnext'[r] \notin Known, rnext'[r].order # None
  PROVE  /\ EndTrue(rnext'[r], truth'[rnext'[r].order], hazard')
         /\ FillClean' => FillTrue(rnext'[r], truth'[rnext'[r].order])
<1> DEFINE o == rcopy[r].order
           x == rnext'[r]
           Goal == /\ EndTrue(x, truth'[o], hazard')
                   /\ FillClean' => FillTrue(x, truth'[o])
<1>1. /\ Base /\ hazard \subseteq hazard' /\ TruthKept
      /\ rcopy[r] \in Known /\ rnext[r] \in Known /\ rcopy[r] \in Execs /\ rnext[r] \in Execs
      /\ rnext[r].order = o /\ rnext \in [Refreshers -> Execs]
  BY BaseStep, HazardGrows DEF RecordsInv, Base, Types, RefreshTypes, RefreshInv, Known, Next
<1>2. x # NoExec
  BY NoExecNames
<1>3. x.order = o /\ o # None /\ o \in Orders
  BY <1>1, <1>2, RefreshNames, KnownNames DEF Base
<1> SUFFICES Goal
  BY <1>3
<1>4. /\ truth[o] \in {"open", "filled", "cancelled", "closed"}
      /\ EndTrue(rcopy[r], truth'[o], hazard') /\ EndTrue(rnext[r], truth'[o], hazard')
      /\ FillClean' => FillTrue(rcopy[r], truth'[o]) /\ FillTrue(rnext[r], truth'[o])
      /\ FillClean => FillTrue(rnext[r], truth[o])
  <2>1. truth[o] \in {"open", "filled", "cancelled", "closed"}
    BY <1>1, <1>3 DEF Base, Types, BrokerTypes, NamedIsPlaced
  <2>2. [Next]_vars
    BY DEF Next
  <2>3. FillClean => FillTrue(rnext[r], truth[o])
    BY <1>1, <1>3 DEF RecordsInv, FillInv
  <2> QED  BY <1>1, <1>3, <2>1, <2>2, <2>3, TrueStays
<1>6. FillClean' => FillClean
  BY <1>1 DEF FillClean, Clean
<1>7. CASE RefreshPaper(r)
  <2> DEFINE row == PaperRow(o)
  <2>1. /\ o \in PaperOrders /\ Result(r, PaperOutcome(rcopy[r], row)) /\ UNCHANGED <<truth, hazard>>
    BY <1>7 DEF RefreshPaper, Refreshing, brokerVars, history
  <2>2. row \in PaperCopies /\ row.status = truth[o] /\ row.state = sim[o]
    BY <1>1, <1>4, <2>1 DEF PaperRow, PaperCopies, Base, Types, BrokerTypes
  <2>3. /\ x.state = PaperState(rcopy[r], row) /\ x.shown = row.status
        /\ x.fill = (rcopy[r].fill \/ row.state \in {"filled", "closed"} \/ row.status \in {"filled", "closed"})
    BY <1>1, <2>1, <2>2, PaperTyped DEF Result
  <2>4. /\ "overwritten" \notin hazard' /\ sim[o] \in {"filled", "closed"} => truth[o] \in {"filled", "closed", "cancelled"}
        /\ FillClean' /\ sim[o] \in {"filled", "closed"} => truth[o] \in {"filled", "closed"}
    BY <1>6, <2>1 DEF RecordsInv, SimInv, FillClean, Clean
  <2>5. sim[o] \in {None, "working", "filled", "closed"}
    BY <1>1, <2>1 DEF Base, Types, BrokerTypes
  <2>6. \/ x.state = sim[o] /\ sim[o] # None
        \/ x.state = truth[o] \/ x.state \in {"linked", rcopy[r].state}
    BY <2>2, <2>3 DEF PaperState
  <2>7. EndTrue(x, truth'[o], hazard')
    BY <1>4, <2>1, <2>4, <2>5, <2>6 DEF EndTrue
  <2>8. FillClean' => FillTrue(x, truth'[o])
    BY <1>4, <2>1, <2>2, <2>3, <2>4, <2>5, <2>6 DEF FillTrue, FillEvidence
  <2> QED  BY <2>7, <2>8
<1>8. CASE RefreshGap(r)
  BY <1>3, <1>8 DEF RefreshGap, Refreshing
<1>9. CASE RefreshMissing(r)
  <2> DEFINE lost == [rcopy[r] EXCEPT !.state = "unknown"]
  <2>1. UNCHANGED rnext \/ Result(r, lost)
    BY <1>9 DEF RefreshMissing
  <2>2. x = lost
    BY <1>1, <2>1 DEF Result
  <2>3. x.state = "unknown" /\ x.fill = rcopy[r].fill /\ x.shown = rcopy[r].shown
    BY <1>1, <2>2 DEF Execs
  <2> QED  BY <1>4, <2>3 DEF EndTrue, FillTrue, FillEvidence
<1>10. CASE RefreshOrder(r)
  <2> DEFINE isNewer == o \in newer
             s == snap[o]
  <2>1. /\ o \in LiveOrders /\ s \in {"open", "filled", "cancelled", "closed"}
        /\ Result(r, OrderOutcome(rcopy[r], s, isNewer)) /\ UNCHANGED <<truth, hazard>>
    BY <1>1, <1>10 DEF RefreshOrder, Refreshing, Base, Types, BrokerTypes, brokerVars, history
  <2>2. /\ s = "filled" => truth[o] \in {"filled", "closed"}
        /\ s = "cancelled" => truth[o] = "cancelled"
        /\ s = "closed" => truth[o] \in {"filled", "closed", "cancelled"}
        /\ s = "closed" /\ FillClean' => truth[o] \in {"filled", "closed"}
    BY <1>6, <2>1 DEF RecordsInv, SnapInv, FillClean, Clean
  <2>3. isNewer \in BOOLEAN
    OBVIOUS
  <2>4. x = OrderOutcome(rcopy[r], s, isNewer)
    BY <1>1, <2>1 DEF Result
  <2>5. \/ x = rcopy[r]
        \/ x.shown = s /\ x.state = StateOf(s) /\ x.fill = (rcopy[r].fill \/ s = "filled")
    <3> HIDE DEF isNewer, s, o
    <3> QED  BY <1>1, <2>1, <2>3, <2>4, OutcomeSays
  <2> HIDE DEF s, x
  <2>6. EndTrue(x, truth'[o], hazard')
    BY <1>4, <2>1, <2>2, <2>5 DEF EndTrue, StateOf
  <2>7. FillClean' => FillTrue(x, truth'[o])
    BY <1>4, <2>1, <2>2, <2>5 DEF FillTrue, FillEvidence, StateOf
  <2> QED  BY <2>6, <2>7 DEF x
<1>11. CASE RefreshPosition(r)
  <2> DEFINE evidence == mode[r] = "positions"
             p == position[o]
             e == rnext[r]
  <2>1. o \in LiveOrders /\ Result(r, PositionOutcome(e, p, evidence)) /\ UNCHANGED <<truth, hazard>>
    BY <1>1, <1>11 DEF RefreshPosition, Base, RefreshInv, brokerVars, history
  <2>2. /\ p \in {"none", "open", "closed"}
        /\ p = "closed" /\ "foreign" \notin hazard' => truth[o] = "closed"
        /\ p = "open" /\ FillClean' => truth[o] \in {"filled", "closed"}
    BY <1>1, <1>6, <2>1 DEF RecordsInv, SnapInv, FillClean, Clean, Base, Types, BrokerTypes
  <2>3. evidence \in BOOLEAN
    OBVIOUS
  <2>4. x = PositionOutcome(e, p, evidence)
    BY <1>1, <2>1 DEF Result
  <2>5. \/ x = e
        \/ x.state = "working" /\ x.shown = e.shown /\ x.fill = e.fill
        \/ p = "closed" /\ x.state = "closed" /\ x.shown = e.shown /\ x.fill = e.fill
        \/ /\ FillEvidence(e) \/ p = "open"
           /\ x.state = "filled"
    <3> HIDE DEF evidence, p, e, o
    <3>1. e \in Execs
      BY <1>1 DEF e
    <3> QED  BY <2>2, <2>3, <2>4, <3>1, PositionTyped
  <2> HIDE DEF p, x
  <2>6. EndTrue(x, truth'[o], hazard')
    BY <1>4, <2>1, <2>2, <2>5 DEF EndTrue
  <2>7. FillClean' => FillTrue(x, truth'[o])
    BY <1>4, <2>1, <2>2, <2>5 DEF FillTrue, FillEvidence
  <2> QED  BY <2>6, <2>7 DEF x
<1>12. CASE Expire(r)
  <2> DEFINE filled == [rnext[r] EXCEPT !.state = "filled"]
             expired == [rnext[r] EXCEPT !.state = "expired", !.shown = "expired"]
  <2>1. /\ truth' = CancelledAt(o) /\ o \in LiveOrders
        /\ Result(r, IF rnext[r].fill THEN filled ELSE expired)
        /\ truth[o] \in {"filled", "closed"} => "expiry" \in hazard'
    BY <1>1, <1>12 DEF Expire, Base, RefreshInv
  <2>2. truth[o] \in {"open", "cancelled"} => truth'[o] = "cancelled"
    BY <1>1, <1>3, <2>1 DEF CancelledAt, Base, Types, BrokerTypes
  <2>3. x = IF rnext[r].fill THEN filled ELSE expired
    BY <1>1, <2>1 DEF Result
  <2>4. /\ filled.state = "filled"
        /\ expired.state = "expired" /\ expired.shown = "expired" /\ expired.fill = rnext[r].fill
    BY <1>1 DEF Execs
  <2> HIDE DEF filled, expired, x
  <2>5. CASE rnext[r].fill
    <3>1. x = filled
      BY <2>3, <2>5
    <3>2. FillEvidence(rnext[r])
      BY <2>5 DEF FillEvidence
    <3> QED  BY <1>4, <2>4, <3>1, <3>2 DEF EndTrue, FillTrue, x
  <2>6. CASE ~rnext[r].fill
    <3>1. x = expired
      BY <2>3, <2>6
    <3>2. "expiry" \notin hazard' => truth'[o] = "cancelled"
      BY <1>4, <2>1, <2>2
    <3>3. ~FillEvidence(x)
      BY <2>4, <2>6, <3>1 DEF FillEvidence
    <3> QED  BY <2>4, <3>1, <3>2, <3>3 DEF EndTrue, FillTrue, x
  <2> QED  BY <2>5, <2>6
<1> QED  BY <1>1, <1>2, <1>3, <1>7, <1>8, <1>9, <1>10, <1>11, <1>12, RefreshCopies DEF Base

LEMMA RecordsStep ==
  ASSUME TradeAssumption, NullAssumption, RecordsInv, [Next]_vars
  PROVE  RecordsInv'
<1>1. Base /\ Base' /\ SnapInv' /\ SimInv'
  BY BaseStep, SnapStep, SimStep DEF RecordsInv
<1>2. ASSUME NEW e \in Known', e.order # None
      PROVE  /\ EndTrue(e, truth'[e.order], hazard')
             /\ FillClean' => FillTrue(e, truth'[e.order])
  <2>1. CASE e \in Known
    BY <1>2, <2>1, TrueStays
  <2>2. CASE UNCHANGED vars
    <3>1. Known' = Known
      BY <2>2 DEF Known, vars
    <3> QED  BY <1>2, <2>1, <3>1
  <2>3. ASSUME NEW u \in Users, UserStep(u)
        PROVE  e \in Known
    BY <1>1, <1>2, <2>3, UserCopies, NoExecNames DEF Base
  <2>4. ASSUME NEW o \in Orders, OrderStep(o), e \notin Known
        PROVE  /\ EndTrue(e, truth'[e.order], hazard')
               /\ FillClean' => FillTrue(e, truth'[e.order])
    <3>1. e = exec'
      BY <1>1, <1>2, <2>4, OrderCopies, NoExecNames DEF Base
    <3> QED  BY <1>2, <2>4, <3>1, LinkTrue
  <2>5. ASSUME NEW r \in Refreshers, RefreshStep(r), e \notin Known
        PROVE  /\ EndTrue(e, truth'[e.order], hazard')
               /\ FillClean' => FillTrue(e, truth'[e.order])
    <3>1. e = rnext'[r]
      BY <1>1, <1>2, <2>5, RefreshCopies, NoExecNames DEF Base
    <3> QED  BY <1>2, <2>5, <3>1, RefreshTrue
  <2>6. ASSUME BrokerStep \/ \E o \in PaperOrders : PaperOrderStep(o)
        PROVE  e \in Known
    BY <1>1, <1>2, <2>6, OutsideBase
  <2> QED  BY <2>1, <2>2, <2>3, <2>4, <2>5, <2>6 DEF Next
<1>3. EndInv' /\ FillInv'
  BY <1>2 DEF EndInv, FillInv
<1> QED  BY <1>1, <1>3 DEF RecordsInv

LEMMA RecordsHold == Spec => []RecordsInv
<1>1. ASSUME Init
      PROVE  RecordsInv
  <2>1. Base
    BY <1>1, BaseInit, TradeAssumption
  <2>2. Known \subseteq {NoExec}
    BY <1>1 DEF Init, Known, NoTrade
  <2>3. EndInv /\ FillInv
    BY <2>2, NoExecNames DEF EndInv, FillInv
  <2>4. SnapInv /\ SimInv
    BY <1>1, NullAssumption DEF Init, SnapInv, SimInv, States, Terminal, Ended
  <2> QED  BY <2>1, <2>3, <2>4 DEF RecordsInv
<1>2. RecordsInv /\ [Next]_vars => RecordsInv'
  BY RecordsStep, TradeAssumption, NullAssumption
<1> QED  BY <1>1, <1>2, PTL DEF Spec

(* EndIsTrue: unless an expiry met a fill, or a paper order was saved from  *)
(* an old copy of its row, a record at an end names an order that is at    *)
(* that end, however late or mixed the snapshots of it are.                *)
THEOREM EndsAreTrue == Spec => []EndIsTrue
<1>1. RecordsInv => EndIsTrue
  BY DEF RecordsInv, EndInv, EndIsTrue, EndTrue, Known
<1> QED  BY <1>1, RecordsHold, PTL

(* FillIsTrue: unless one of the ways in which a fill is mistaken has       *)
(* happened, a record that shows a fill names an order that was filled.    *)
THEOREM FillsAreTrue == Spec => []FillIsTrue
<1>1. RecordsInv => FillIsTrue
  BY DEF RecordsInv, FillInv, FillIsTrue, FillClean, FillTrue, Clean, Known
<1> QED  BY <1>1, RecordsHold, PTL
=============================================================================
