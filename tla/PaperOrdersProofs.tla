------------------------- MODULE PaperOrdersProofs --------------------------
(***************************************************************************)
(* Theorems about PaperOrders, for any orders, processes, calls and users, *)
(* any size of a batch and any number of errors and crashes.               *)
(***************************************************************************)
EXTENDS PaperOrders, SequenceTheorems, TLAPS

(* The status and the simulation of one row, or of one copy of it. *)
Agrees(r) ==
  CASE r.status = "OPEN" -> r.state \in {None, "working"}
    [] r.status = "FILLED" -> r.state = "filled"
    [] r.status = "CLOSED" -> r.state = "closed"
    [] OTHER -> TRUE

Types ==
  /\ row \in [Orders -> Rows \cup {None}]
  /\ chain \in [Procs -> Seq(Callers)]
  /\ pc \in [Callers -> {"idle", "wait", "simulate", "close"}]
  /\ copies \in [Callers -> [Orders -> Rows \cup {None}]]
  /\ ucopy \in [Users -> {None} \cup [order : Orders, row : Rows]]
  /\ writer \in [Orders -> Procs \cup Users \cup {None}]

Works(c) == pc[c] \in {"simulate", "close"}

InLine(c) == \E i \in 1 .. Len(chain[ProcOf[c]]) : chain[ProcOf[c]][i] = c

(* Whoever has called is in the chain of its process, and first in it when  *)
(* it has read orders.                                                     *)
ChainInv ==
  \A c \in Callers : /\ pc[c] # "idle" => InLine(c)
                     /\ Works(c) => ItsTurn(c)

(* Any copy may become the row, so copies have to be as sound as rows. *)
CopyInv ==
  /\ \A o \in Orders : row[o] # None => Agrees(row[o])
  /\ \A c \in Callers, o \in Orders : copies[c][o] # None =>
       /\ Works(c) /\ row[o] # None /\ Agrees(copies[c][o])
       /\ pc[c] = "close" => copies[c][o].status = "FILLED"
  /\ \A u \in Users : ucopy[u] # None =>
       row[ucopy[u].order] # None /\ Agrees(ucopy[u].row)

(* A copy that differs from its row was left behind by somebody else: who   *)
(* holds the chain, or a user, has not saved the row since reading it.     *)
OwnInv ==
  /\ \A c \in Callers, o \in Orders :
       copies[c][o] # None /\ Says(copies[c][o]) # Says(row[o]) => writer[o] # ProcOf[c]
  /\ \A u \in Users :
       ucopy[u] # None /\ Says(ucopy[u].row) # Says(row[ucopy[u].order])
         => writer[ucopy[u].order] # u
  /\ again \subseteq outdated

Inv == Types /\ ChainInv /\ CopyInv /\ OwnInv

-----------------------------------------------------------------------------
(* What a row can become. *)

(* A close sets both words and leaves the link alone.                       *)
LEMMA ClosedSound ==
  ASSUME NEW r \in Rows
  PROVE  /\ Closed(r) \in Rows /\ Agrees(Closed(r))
         /\ Closed(r).trade = r.trade /\ Closed(r).status = "CLOSED"
  BY DEF Closed, Becomes, Rows, Agrees

(* simulateSingleOrder keeps the two words together, leaves a cancelled     *)
(* order cancelled and never touches the link.                             *)
LEMMA SimulatedSound ==
  ASSUME NEW r \in Rows, Agrees(r), NEW s \in Simulated(r)
  PROVE  /\ s \in Rows /\ Agrees(s) /\ s.trade = r.trade
         /\ r.status = "CANCELLED" => s.status = "CANCELLED"
<1> DEFINE Seen == [r EXCEPT !.seen = TRUE]
<1>1. Seen \in Rows /\ Agrees(Seen) /\ Seen.trade = r.trade /\ Seen.status = r.status
  BY DEF Rows, Agrees
<1>2. r.status \in {"OPEN", "FILLED", "CLOSED", "CANCELLED"}
  BY DEF Rows
<1>3. CASE r.status = "OPEN"
  <2>1. s \in {Becomes(r, "OPEN", "working"), Becomes(r, "FILLED", "filled"), Closed(r)}
    BY <1>3 DEF Simulated
  <2> QED  BY <2>1, <1>3 DEF Closed, Becomes, Rows, Agrees
<1>4. CASE r.status = "FILLED"
  <2>1. s \in {Seen, Closed(r)}
    BY <1>4 DEF Simulated
  <2> QED  BY <2>1, <1>1, <1>4, ClosedSound
<1>5. CASE r.status \in {"CLOSED", "CANCELLED"}
  <2>1. s = Seen
    BY <1>5 DEF Simulated
  <2> QED  BY <2>1, <1>1
<1> QED  BY <1>2, <1>3, <1>4, <1>5

(* A save changes one row, which is then the latest word of its saver, and  *)
(* counts as outdated if the copy was and somebody else had saved.         *)
LEMMA SaveEffect ==
  ASSUME Types, NEW o \in Orders, NEW r \in Rows, NEW copy \in Rows,
         NEW who \in Procs \cup Users, Save(o, r, copy, who)
  PROVE  /\ row' \in [Orders -> Rows \cup {None}] /\ row'[o] = r
         /\ \A p \in Orders : p # o => row'[p] = row[p]
         /\ writer' \in [Orders -> Procs \cup Users \cup {None}] /\ writer'[o] = who
         /\ \A p \in Orders : p # o => writer'[p] = writer[p]
         /\ outdated \subseteq outdated'
         /\ Says(copy) # Says(row[o]) /\ writer[o] # who => o \in outdated'
  BY DEF Types, Save

LEMMA InLineNotEmpty ==
  ASSUME PaperAssumption, Types, NEW c \in Callers, InLine(c)
  PROVE  chain[ProcOf[c]] \in Seq(Callers) /\ chain[ProcOf[c]] # <<>>
<1>1. ProcOf[c] \in Procs
  BY DEF PaperAssumption
<1> QED  BY <1>1 DEF InLine, Types

(* Leaving the chain frees the caller's copies, and the next caller moves   *)
(* to its head.                                                            *)
LEMMA LeavesEffect ==
  ASSUME PaperAssumption, Types, ChainInv, NEW c \in Callers, pc[c] # "idle", ItsTurn(c),
         Leaves(c)
  PROVE  /\ chain' \in [Procs -> Seq(Callers)]
         /\ pc' \in [Callers -> {"idle", "wait", "simulate", "close"}] /\ ChainInv'
         /\ copies' \in [Callers -> [Orders -> Rows \cup {None}]]
         /\ \A e \in Callers, p \in Orders :
              copies'[e][p] # None =>
                /\ e # c /\ copies'[e][p] = copies[e][p]
                /\ pc'[e] = pc[e]
<1>1. ProcOf[c] \in Procs /\ ProcOf \in [Callers -> Procs]
  BY DEF PaperAssumption
<1>2. chain[ProcOf[c]] \in Seq(Callers) /\ Tail(chain[ProcOf[c]]) \in Seq(Callers)
  BY <1>1, InLineNotEmpty DEF ChainInv
<1>3. chain' \in [Procs -> Seq(Callers)]
  BY <1>1, <1>2 DEF Leaves, Types
<1>4. pc' \in [Callers -> {"idle", "wait", "simulate", "close"}]
  BY DEF Leaves, Types
<1>5. copies' \in [Callers -> [Orders -> Rows \cup {None}]]
  BY DEF Leaves, Types
<1>6. ASSUME NEW e \in Callers, pc'[e] # "idle"
      PROVE  InLine(e)' /\ (Works(e)' => ItsTurn(e)')
  <2>1. e # c /\ pc[e] = pc'[e]
    BY <1>6 DEF Leaves, Types
  <2>2. InLine(e) /\ (Works(e)' => ItsTurn(e))
    BY <2>1, <1>6 DEF ChainInv, Works
  <2>3. CASE ProcOf[e] # ProcOf[c]
    <3>1. chain'[ProcOf[e]] = chain[ProcOf[e]]
      BY <2>3, <1>1 DEF Leaves, Types
    <3> QED  BY <2>2, <3>1 DEF InLine, ItsTurn
  <2>4. CASE ProcOf[e] = ProcOf[c]
    <3> DEFINE old == chain[ProcOf[c]]
    <3>1. chain'[ProcOf[e]] = Tail(old)
      BY <2>4, <1>1 DEF Leaves, Types
    <3>2. PICK i \in 1 .. Len(old) : old[i] = e
      BY <2>2, <2>4 DEF InLine
    <3>3. old[1] = c
      BY <1>2, <3>2 DEF ItsTurn
    <3>4. i - 1 \in 1 .. Len(Tail(old)) /\ Tail(old)[i - 1] = e
      BY <3>2, <3>3, <2>1, <1>2
    <3>5. InLine(e)'
      BY <3>1, <3>4 DEF InLine
    <3>6. ~Works(e)'
      BY <2>2, <2>1, <2>4 DEF ItsTurn
    <3> QED  BY <3>5, <3>6
  <2> QED  BY <2>3, <2>4
<1>7. ChainInv'
  BY <1>6 DEF ChainInv, Works
<1>8. ASSUME NEW e \in Callers, NEW p \in Orders, copies'[e][p] # None
      PROVE  e # c /\ copies'[e][p] = copies[e][p] /\ pc'[e] = pc[e]
  BY <1>8 DEF Leaves, Types
<1> QED  BY <1>3, <1>4, <1>5, <1>7, <1>8

(* After an order was dealt with its copy is gone, and the last one takes   *)
(* the caller out of the chain.                                            *)
LEMMA HandledEffect ==
  ASSUME PaperAssumption, Types, ChainInv, NEW c \in Callers, NEW o \in Orders, Works(c),
         Handled(c, o)
  PROVE  /\ chain' \in [Procs -> Seq(Callers)]
         /\ pc' \in [Callers -> {"idle", "wait", "simulate", "close"}] /\ ChainInv'
         /\ copies' \in [Callers -> [Orders -> Rows \cup {None}]]
         /\ \A e \in Callers, p \in Orders :
              copies'[e][p] # None =>
                /\ e # c \/ p # o
                /\ copies'[e][p] = copies[e][p] /\ pc'[e] = pc[e]
<1>1. pc[c] # "idle" /\ ItsTurn(c)
  BY DEF ChainInv, Works
<1>2. CASE \A other \in Orders \ {o} : copies[c][other] = None
  <2>1. Leaves(c)
    BY <1>2 DEF Handled
  <2> QED  BY <2>1, <1>1, LeavesEffect
<1>3. CASE ~(\A other \in Orders \ {o} : copies[c][other] = None)
  <2>1. copies' = [copies EXCEPT ![c][o] = None] /\ UNCHANGED <<chain, pc>>
    BY <1>3 DEF Handled
  <2>2. ChainInv'
    BY <2>1 DEF ChainInv, Works, ItsTurn, InLine
  <2> QED  BY <2>1, <2>2 DEF Types
<1> QED  BY <1>2, <1>3

-----------------------------------------------------------------------------
(* What a call saves: its copy with what the market made of it. *)
CallSaves(c, o, r) ==
  /\ Save(o, r, copies[c][o], ProcOf[c]) /\ Report(o, copies[c][o], r)
  /\ Handled(c, o) /\ UNCHANGED ucopy

(* The save of a call keeps the invariant: it agrees with itself, the       *)
(* copies that others hold of the order have a foreign save after them,     *)
(* and nobody else of the process holds any.                               *)
LEMMA CallSavesKeeps ==
  ASSUME PaperAssumption, NullAssumption, Inv, NEW c \in Callers, NEW o \in Orders,
         Works(c), copies[c][o] # None, NEW r \in Rows, Agrees(r), CallSaves(c, o, r)
  PROVE  Inv'
<1> USE NullAssumption
<1>1. copies[c][o] \in Rows /\ ProcOf[c] \in Procs
  BY DEF Inv, Types, PaperAssumption
<1>2. /\ row' \in [Orders -> Rows \cup {None}] /\ row'[o] = r
      /\ \A p \in Orders : p # o => row'[p] = row[p]
      /\ writer' \in [Orders -> Procs \cup Users \cup {None}] /\ writer'[o] = ProcOf[c]
      /\ \A p \in Orders : p # o => writer'[p] = writer[p]
      /\ outdated \subseteq outdated'
      /\ Says(copies[c][o]) # Says(row[o]) /\ writer[o] # ProcOf[c] => o \in outdated'
  BY <1>1, SaveEffect DEF CallSaves, Inv
<1>3. /\ chain' \in [Procs -> Seq(Callers)]
      /\ pc' \in [Callers -> {"idle", "wait", "simulate", "close"}] /\ ChainInv'
      /\ copies' \in [Callers -> [Orders -> Rows \cup {None}]]
      /\ \A e \in Callers, p \in Orders :
           copies'[e][p] # None =>
             /\ e # c \/ p # o
             /\ copies'[e][p] = copies[e][p] /\ pc'[e] = pc[e]
  BY HandledEffect DEF CallSaves, Inv
<1>4. Types'
  BY <1>2, <1>3 DEF Types, Inv, CallSaves
<1>5. CopyInv'
  <2>1. \A p \in Orders : row'[p] # None => Agrees(row'[p])
    BY <1>2 DEF Inv, CopyInv
  <2>2. ASSUME NEW e \in Callers, NEW p \in Orders, copies'[e][p] # None
        PROVE  /\ Works(e)' /\ row'[p] # None /\ Agrees(copies'[e][p])
               /\ pc'[e] = "close" => copies'[e][p].status = "FILLED"
    <3>1. copies'[e][p] = copies[e][p] /\ pc'[e] = pc[e]
      BY <2>2, <1>3
    <3>2. /\ Works(e) /\ row[p] # None /\ Agrees(copies[e][p])
          /\ pc[e] = "close" => copies[e][p].status = "FILLED"
      BY <2>2, <3>1 DEF Inv, CopyInv
    <3>3. row'[p] # None
      BY <3>2, <1>2
    <3> QED  BY <3>1, <3>2, <3>3 DEF Works
  <2>3. ASSUME NEW u \in Users, ucopy'[u] # None
        PROVE  row'[ucopy'[u].order] # None /\ Agrees(ucopy'[u].row)
    <3>1. ucopy' = ucopy /\ ucopy[u].order \in Orders
      BY <2>3 DEF CallSaves, Inv, Types
    <3> QED  BY <3>1, <2>3, <1>2 DEF Inv, CopyInv
  <2> QED  BY <2>1, <2>2, <2>3 DEF CopyInv
<1>6. OwnInv'
  <2>1. ASSUME NEW e \in Callers, NEW p \in Orders,
               copies'[e][p] # None, Says(copies'[e][p]) # Says(row'[p])
        PROVE  writer'[p] # ProcOf[e]
    <3>1. copies'[e][p] = copies[e][p] /\ (e # c \/ p # o)
      BY <2>1, <1>3
    <3>2. CASE p # o
      BY <3>1, <3>2, <2>1, <1>2 DEF Inv, OwnInv, Says
    <3>3. CASE p = o
      <4>1. Works(e) /\ e # c
        BY <3>1, <3>3, <2>1 DEF Inv, CopyInv
      <4>2. ItsTurn(e) /\ ItsTurn(c)
        BY <4>1 DEF Inv, ChainInv
      <4>3. ProcOf[e] # ProcOf[c]
        BY <4>1, <4>2 DEF ItsTurn
      <4> QED  BY <4>3, <3>3, <1>2
    <3> QED  BY <3>2, <3>3
  <2>2. ASSUME NEW u \in Users, ucopy'[u] # None,
               Says(ucopy'[u].row) # Says(row'[ucopy'[u].order])
        PROVE  writer'[ucopy'[u].order] # u
    <3>1. ucopy' = ucopy /\ ucopy[u].order \in Orders
      BY <2>2 DEF CallSaves, Inv, Types
    <3>2. CASE ucopy[u].order # o
      BY <3>1, <3>2, <2>2, <1>2 DEF Inv, OwnInv, Says
    <3>3. CASE ucopy[u].order = o
      BY <3>1, <3>3, <1>1, <1>2 DEF PaperAssumption
    <3> QED  BY <3>2, <3>3
  <2>3. again' \subseteq outdated'
    <3>1. CASE again' = again
      BY <3>1, <1>2 DEF Inv, OwnInv
    <3>2. CASE again' # again
      <4>1. again' = again \cup {o} /\ row[o].status = "CLOSED" /\ copies[c][o].status # "CLOSED"
        BY <3>2 DEF CallSaves, Report
      <4>2. Says(copies[c][o]) # Says(row[o])
        BY <4>1 DEF Says
      <4>3. writer[o] # ProcOf[c]
        BY <4>2 DEF Inv, OwnInv
      <4> QED  BY <4>1, <4>2, <4>3, <1>2 DEF Inv, OwnInv
    <3> QED  BY <3>1, <3>2
  <2> QED  BY <2>1, <2>2, <2>3 DEF OwnInv
<1> QED  BY <1>3, <1>4, <1>5, <1>6 DEF Inv

(* Rows and copies can only be rows; callers that release or drop what they *)
(* hold, and new readers, disturb nobody.                                  *)
LEMMA CallersKeep ==
  ASSUME PaperAssumption, Inv,
         UNCHANGED <<row, history, ucopy>>,
         chain' \in [Procs -> Seq(Callers)],
         pc' \in [Callers -> {"idle", "wait", "simulate", "close"}], ChainInv',
         copies' \in [Callers -> [Orders -> Rows \cup {None}]],
         \A e \in Callers, p \in Orders :
           copies'[e][p] # None =>
             \/ copies'[e][p] = copies[e][p] /\ pc'[e] = pc[e]
             \/ copies'[e][p] = row[p] /\ Works(e)' /\ (pc'[e] = "close" => row[p].status = "FILLED")
  PROVE  Inv'
<1>1. Types'
  BY DEF Types, Inv, history
<1>2. CopyInv'
  <2>1. ASSUME NEW e \in Callers, NEW p \in Orders, copies'[e][p] # None
        PROVE  /\ Works(e)' /\ row'[p] # None /\ Agrees(copies'[e][p])
               /\ pc'[e] = "close" => copies'[e][p].status = "FILLED"
    <3>1. CASE copies'[e][p] = copies[e][p] /\ pc'[e] = pc[e]
      BY <3>1, <2>1 DEF Inv, CopyInv, Works
    <3>2. CASE copies'[e][p] = row[p] /\ Works(e)' /\ (pc'[e] = "close" => row[p].status = "FILLED")
      BY <3>2, <2>1 DEF Inv, CopyInv
    <3> QED  BY <2>1, <3>1, <3>2
  <2> QED  BY <2>1 DEF CopyInv, Inv
<1>3. OwnInv'
  BY DEF OwnInv, Inv, Says, history
<1> QED  BY <1>1, <1>2, <1>3 DEF Inv

LEMMA EnterKeeps ==
  ASSUME PaperAssumption, Inv, NEW c \in Callers, Enter(c)
  PROVE  Inv'
<1>1. ProcOf[c] \in Procs /\ ProcOf \in [Callers -> Procs]
  BY DEF PaperAssumption
<1>2. chain[ProcOf[c]] \in Seq(Callers)
  BY <1>1 DEF Inv, Types
<1>3. chain' \in [Procs -> Seq(Callers)]
  BY <1>1, <1>2 DEF Enter, Joins, Inv, Types
<1>4. ASSUME NEW e \in Callers, pc'[e] # "idle"
      PROVE  InLine(e)' /\ (Works(e)' => ItsTurn(e)')
  <2> DEFINE old == chain[ProcOf[c]]
  <2>1. chain'[ProcOf[c]] = Append(old, c)
    BY <1>1 DEF Enter, Joins, Inv, Types
  <2>2. CASE e = c
    <3>1. Len(old) + 1 \in 1 .. Len(Append(old, c)) /\ Append(old, c)[Len(old) + 1] = c
      BY <1>2
    <3>2. pc'[c] = "wait"
      BY DEF Enter, Joins, Inv, Types
    <3> QED  BY <3>1, <3>2, <2>1, <2>2 DEF InLine, Works
  <2>3. CASE e # c
    <3>1. pc'[e] = pc[e]
      BY <2>3 DEF Enter, Joins, Inv, Types
    <3>2. InLine(e) /\ (Works(e)' => ItsTurn(e))
      BY <3>1, <1>4 DEF Inv, ChainInv, Works
    <3>3. CASE ProcOf[e] # ProcOf[c]
      <4>1. chain'[ProcOf[e]] = chain[ProcOf[e]]
        BY <3>3, <1>1 DEF Enter, Joins, Inv, Types
      <4> QED  BY <4>1, <3>2 DEF InLine, ItsTurn
    <3>4. CASE ProcOf[e] = ProcOf[c]
      <4>1. PICK i \in 1 .. Len(old) : old[i] = e
        BY <3>2, <3>4 DEF InLine
      <4>2. /\ i \in 1 .. Len(Append(old, c)) /\ Append(old, c)[i] = e
            /\ Head(Append(old, c)) = Head(old)
        BY <4>1, <1>2
      <4> QED  BY <4>2, <2>1, <3>2, <3>4 DEF InLine, ItsTurn
    <3> QED  BY <3>3, <3>4
  <2> QED  BY <2>2, <2>3
<1>5. ChainInv'
  BY <1>4 DEF ChainInv, Works
<1>6. pc' \in [Callers -> {"idle", "wait", "simulate", "close"}] /\ copies' = copies
  BY DEF Enter, Joins, Inv, Types
<1>7. \A e \in Callers, p \in Orders : copies[e][p] # None => pc'[e] = pc[e]
  BY DEF Enter, Joins, Inv, Types, CopyInv, Works
<1> QED  BY <1>3, <1>5, <1>6, <1>7, CallersKeep DEF Enter, Inv, Types

(* A call that takes a set of orders holds their rows as they are. *)
LEMMA TakesKeeps ==
  ASSUME PaperAssumption, Inv, NEW c \in Callers, pc[c] = "wait", ItsTurn(c),
         NEW step \in {"simulate", "close"}, NEW set, Takes(c, step, set),
         \A o \in set : step = "close" => row[o].status = "FILLED",
         UNCHANGED <<row, line, ucopy, history>>
  PROVE  Inv'
<1>1. CASE set = {}
  <2>1. Leaves(c)
    BY <1>1 DEF Takes
  <2> QED  BY <2>1, LeavesEffect, CallersKeep DEF Inv
<1>2. CASE set # {}
  <2>1. /\ pc' = [pc EXCEPT ![c] = step] /\ chain' = chain
        /\ copies' = [copies EXCEPT ![c] = [o \in Orders |-> IF o \in set THEN row[o] ELSE None]]
    BY <1>2 DEF Takes
  <2>2. /\ chain' \in [Procs -> Seq(Callers)]
        /\ pc' \in [Callers -> {"idle", "wait", "simulate", "close"}]
        /\ copies' \in [Callers -> [Orders -> Rows \cup {None}]]
    BY <2>1 DEF Inv, Types
  <2>3. ChainInv'
    BY <2>1 DEF Inv, ChainInv, Types, Works, ItsTurn, InLine
  <2>4. \A e \in Callers, p \in Orders :
          copies'[e][p] # None =>
             \/ copies'[e][p] = copies[e][p] /\ pc'[e] = pc[e]
             \/ copies'[e][p] = row[p] /\ Works(e)' /\ (pc'[e] = "close" => row[p].status = "FILLED")
    BY <2>1 DEF Inv, Types, Works
  <2> QED  BY <2>2, <2>3, <2>4, CallersKeep
<1> QED  BY <1>1, <1>2

LEMMA ReadKeeps ==
  ASSUME PaperAssumption, NullAssumption, Inv, NEW c \in Callers, Read(c)
  PROVE  Inv'
<1>1. CASE Takes(c, "simulate", Batch \ Still)
  BY <1>1, TakesKeeps DEF Read
<1>2. ASSUME NEW o \in Touched, Takes(c, "simulate", {o} \ Still)
      PROVE  Inv'
  BY <1>2, TakesKeeps DEF Read
<1>3. ASSUME NEW o \in Touched, row[o].status = "FILLED", Takes(c, "close", {o} \ Still)
      PROVE  Inv'
  <2>1. \A p \in {o} \ Still : row[p].status = "FILLED"
    BY <1>3
  <2> QED  BY <2>1, <1>3, TakesKeeps DEF Read
<1> QED  BY <1>1, <1>2, <1>3 DEF Read

(* A row that has the latest observation is passed over; any other is       *)
(* saved with one of its outcomes.                                         *)
LEMMA SimulateKeeps ==
  ASSUME PaperAssumption, NullAssumption, Inv, NEW c \in Callers, NEW o \in Orders,
         SimulateOrder(c, o)
  PROVE  Inv'
<1>1. Works(c) /\ copies[c][o] # None /\ copies[c][o] \in Rows /\ Agrees(copies[c][o])
  BY DEF SimulateOrder, Works, Inv, Types, CopyInv
<1>2. CASE copies[c][o].seen
  <2>1. UNCHANGED <<row, history, ucopy>> /\ Handled(c, o)
    BY <1>2 DEF SimulateOrder
  <2> QED  BY <2>1, <1>1, HandledEffect, CallersKeep DEF Inv
<1>3. CASE ~copies[c][o].seen
  <2>1. PICK r \in Simulated(copies[c][o]) :
          Save(o, r, copies[c][o], ProcOf[c]) /\ Report(o, copies[c][o], r)
    BY <1>3 DEF SimulateOrder
  <2>2. r \in Rows /\ Agrees(r)
    BY <1>1, SimulatedSound
  <2>3. CallSaves(c, o, r)
    BY <2>1 DEF CallSaves, SimulateOrder
  <2> QED  BY <2>2, <2>3, <1>1, CallSavesKeeps
<1> QED  BY <1>2, <1>3

LEMMA CloseKeeps ==
  ASSUME PaperAssumption, NullAssumption, Inv, NEW c \in Callers, NEW o \in Orders,
         CloseAtMarket(c, o)
  PROVE  Inv'
<1>1. Works(c) /\ copies[c][o] # None /\ copies[c][o] \in Rows
  BY DEF CloseAtMarket, Works, Inv, Types
<1>2. Closed(copies[c][o]) \in Rows /\ Agrees(Closed(copies[c][o]))
  BY <1>1, ClosedSound
<1>3. CallSaves(c, o, Closed(copies[c][o]))
  BY DEF CallSaves, CloseAtMarket
<1> QED  BY <1>1, <1>2, <1>3, CallSavesKeeps

LEMMA ThrowKeeps ==
  ASSUME PaperAssumption, Inv, NEW c \in Callers, Throw(c)
  PROVE  Inv'
<1>1. pc[c] # "idle" /\ ItsTurn(c) /\ Leaves(c)
  BY DEF Throw, LeavesFailed, Inv, ChainInv, Works
<1> QED  BY <1>1, LeavesEffect, CallersKeep DEF Throw, Inv

LEMMA CrashKeeps ==
  ASSUME PaperAssumption, Inv, NEW p \in Procs, Crash(p)
  PROVE  Inv'
<1>1. chain' \in [Procs -> Seq(Callers)]
  BY DEF Crash, Inv, Types
<1>2. /\ pc' \in [Callers -> {"idle", "wait", "simulate", "close"}]
      /\ copies' \in [Callers -> [Orders -> Rows \cup {None}]]
  BY DEF Crash, Inv, Types
<1>3. ASSUME NEW e \in Callers, pc'[e] # "idle"
      PROVE  InLine(e)' /\ (Works(e)' => ItsTurn(e)')
  <2>1. ProcOf[e] # p /\ ProcOf[e] \in Procs /\ pc'[e] = pc[e]
    BY <1>3 DEF Crash, PaperAssumption
  <2>2. chain'[ProcOf[e]] = chain[ProcOf[e]]
    BY <2>1 DEF Crash, Inv, Types
  <2> QED  BY <2>1, <2>2, <1>3 DEF Inv, ChainInv, Works, InLine, ItsTurn
<1>4. ChainInv'
  BY <1>3 DEF ChainInv, Works
<1>5. \A e \in Callers, o \in Orders :
        copies'[e][o] # None => copies'[e][o] = copies[e][o] /\ pc'[e] = pc[e]
  BY DEF Crash
<1> QED  BY <1>1, <1>2, <1>4, <1>5, CallersKeep DEF Crash

(* Nobody has read an order that is only now created. *)
LEMMA CreateKeeps ==
  ASSUME PaperAssumption, NullAssumption, Inv, NEW o \in Orders, Create(o)
  PROVE  Inv'
<1>1. /\ row' = [row EXCEPT ![o] = NewRow] /\ row[o] = None
      /\ UNCHANGED <<actorVars, history>>
  BY DEF Create
<1>2. NewRow \in Rows /\ Agrees(NewRow) /\ NewRow # None
  <2>1. NewRow \in Rows /\ Agrees(NewRow)
    BY DEF NewRow, Rows, Agrees
  <2> QED  BY <2>1, NullAssumption
<1>3. Types'
  BY <1>1, <1>2 DEF Inv, Types, actorVars, history
<1>4. ChainInv'
  BY <1>1 DEF Inv, ChainInv, Works, InLine, ItsTurn, actorVars
<1>5. row' \in [Orders -> Rows \cup {None}] /\ row'[o] = NewRow
      /\ \A p \in Orders : p # o => row'[p] = row[p]
  BY <1>1, <1>2 DEF Inv, Types
<1>6. /\ \A c \in Callers, p \in Orders : copies[c][p] # None => row'[p] = row[p]
      /\ \A u \in Users : ucopy[u] # None => row'[ucopy[u].order] = row[ucopy[u].order]
  BY <1>1, <1>5 DEF Inv, Types, CopyInv
<1>7. CopyInv'
  BY <1>1, <1>2, <1>5, <1>6 DEF Inv, CopyInv, Works, actorVars
<1>8. OwnInv'
  BY <1>1, <1>6 DEF Inv, OwnInv, Says, actorVars, history
<1> QED  BY <1>3, <1>4, <1>7, <1>8 DEF Inv

LEMMA UserReadKeeps ==
  ASSUME PaperAssumption, Inv, NEW u \in Users, NEW o \in Touched, UserRead(u, o)
  PROVE  Inv'
<1> DEFINE read == [order |-> o, row |-> row[o]]
<1>1. o \in Orders /\ row[o] # None /\ row[o] \in Rows
  BY DEF PaperAssumption, UserRead, Inv, Types
<1>2. /\ ucopy' = [ucopy EXCEPT ![u] = read]
      /\ UNCHANGED <<row, chain, pc, copies, history>>
  BY DEF UserRead
<1>3. read \in [order : Orders, row : Rows] /\ read.order = o /\ read.row = row[o]
  BY <1>1
<1> HIDE DEF read
<1>4. Types'
  BY <1>2, <1>3 DEF Inv, Types, history
<1>5. ChainInv'
  BY <1>2 DEF Inv, ChainInv, Works, InLine, ItsTurn
<1>6. \A v \in Users : ucopy'[v] = IF v = u THEN read ELSE ucopy[v]
  BY <1>2 DEF Inv, Types
<1>7. CopyInv'
  <2>1. \A v \in Users : ucopy'[v] # None => row[ucopy'[v].order] # None /\ Agrees(ucopy'[v].row)
    BY <1>1, <1>3, <1>6 DEF Inv, CopyInv
  <2> QED  BY <2>1, <1>2 DEF Inv, CopyInv, Works
<1>8. OwnInv'
  BY <1>2, <1>3, <1>6 DEF Inv, OwnInv, Says, history
<1> QED  BY <1>4, <1>5, <1>7, <1>8 DEF Inv

(* A cancel or a link saves what was read with one word changed, and ends   *)
(* the request.                                                            *)
LEMMA UserSaveKeeps ==
  ASSUME PaperAssumption, NullAssumption, Inv, NEW u \in Users, ucopy[u] # None,
         NEW r \in Rows, Agrees(r),
         Save(ucopy[u].order, r, ucopy[u].row, u), UserDone(u),
         UNCHANGED <<chain, pc, copies, again>>
  PROVE  Inv'
<1> DEFINE o == ucopy[u].order
<1>1. o \in Orders /\ ucopy[u].row \in Rows
  BY DEF Inv, Types
<1>2. /\ row' \in [Orders -> Rows \cup {None}] /\ row'[o] = r
      /\ \A p \in Orders : p # o => row'[p] = row[p]
      /\ writer' \in [Orders -> Procs \cup Users \cup {None}] /\ writer'[o] = u
      /\ \A p \in Orders : p # o => writer'[p] = writer[p]
      /\ outdated \subseteq outdated'
  BY <1>1, SaveEffect DEF Inv
<1>3. \A v \in Users : ucopy'[v] # None => v # u /\ ucopy'[v] = ucopy[v]
  BY DEF UserDone, Inv, Types
<1>4. Types'
  <2>1. ucopy' \in [Users -> {None} \cup [order : Orders, row : Rows]]
    BY DEF UserDone, Inv, Types
  <2> QED  BY <2>1, <1>2 DEF Inv, Types
<1>5. ChainInv'
  BY DEF Inv, ChainInv, Works, InLine, ItsTurn
<1>6. \A v \in Users : ucopy[v] # None => ucopy[v].order \in Orders
  BY DEF Inv, Types
<1> HIDE DEF o
<1>7. \A p \in Orders : row[p] # None => row'[p] # None
  BY <1>2, NullAssumption
<1>8. CopyInv'
  BY <1>2, <1>3, <1>6, <1>7 DEF Inv, CopyInv, Works
<1>9. OwnInv'
  <2>1. ASSUME NEW c \in Callers, NEW p \in Orders,
               copies'[c][p] # None, Says(copies'[c][p]) # Says(row'[p])
        PROVE  writer'[p] # ProcOf[c]
    <3>1. CASE p = o
      BY <3>1, <1>2 DEF PaperAssumption
    <3>2. CASE p # o
      BY <3>2, <2>1, <1>2 DEF Inv, OwnInv, Says
    <3> QED  BY <3>1, <3>2
  <2>2. ASSUME NEW v \in Users, ucopy'[v] # None,
               Says(ucopy'[v].row) # Says(row'[ucopy'[v].order])
        PROVE  writer'[ucopy'[v].order] # v
    <3>1. v # u /\ ucopy'[v] = ucopy[v] /\ ucopy[v] # None /\ ucopy[v].order \in Orders
      BY <2>2, <1>3, <1>6
    <3>2. CASE ucopy[v].order = o
      BY <3>1, <3>2, <1>2
    <3>3. CASE ucopy[v].order # o
      BY <3>1, <3>3, <2>2, <1>2 DEF Inv, OwnInv, Says
    <3> QED  BY <3>2, <3>3
  <2> QED  BY <2>1, <2>2, <1>2 DEF OwnInv, Inv
<1> QED  BY <1>4, <1>5, <1>8, <1>9 DEF Inv

LEMMA CancelKeeps ==
  ASSUME PaperAssumption, NullAssumption, Inv, NEW u \in Users, Cancel(u)
  PROVE  Inv'
<1> DEFINE r == [ucopy[u].row EXCEPT !.status = "CANCELLED"]
<1>1. ucopy[u] # None /\ ucopy[u].row \in Rows
  BY DEF Cancel, Inv, Types
<1>2. r \in Rows /\ Agrees(r)
  BY <1>1 DEF Rows, Agrees
<1>3. Save(ucopy[u].order, r, ucopy[u].row, u) /\ UserDone(u) /\ UNCHANGED <<chain, pc, copies, again>>
  BY DEF Cancel
<1> QED  BY <1>1, <1>2, <1>3, UserSaveKeeps

LEMMA AttachKeeps ==
  ASSUME PaperAssumption, NullAssumption, Inv, NEW u \in Users, Attach(u)
  PROVE  Inv'
<1> DEFINE r == [ucopy[u].row EXCEPT !.trade = TRUE]
<1>1. ucopy[u] # None /\ ucopy[u].row \in Rows /\ Agrees(ucopy[u].row)
  BY DEF Attach, Inv, Types, CopyInv
<1>2. r \in Rows /\ Agrees(r)
  BY <1>1 DEF Rows, Agrees
<1>3. Save(ucopy[u].order, r, ucopy[u].row, u) /\ UserDone(u) /\ UNCHANGED <<chain, pc, copies, again>>
  BY DEF Attach
<1> QED  BY <1>1, <1>2, <1>3, UserSaveKeeps

(* What the market says changes neither the words of a row nor who it is.   *)
LEMMA MarketKeeps ==
  ASSUME PaperAssumption, NullAssumption, Inv, NEW o \in Orders, Market(o)
  PROVE  /\ Inv'
         /\ \A p \in Orders : row[p] # None => Says(row'[p]) = Says(row[p])
<1> DEFINE Old(r) == IF r = None THEN None ELSE [r EXCEPT !.seen = FALSE]
<1>1. ASSUME NEW r \in Rows \cup {None}
      PROVE  /\ Old(r) \in Rows \cup {None}
             /\ Old(r) # None <=> r # None
             /\ r # None => /\ Agrees(r) => Agrees(Old(r))
                            /\ Says(Old(r)) = Says(r) /\ Old(r).status = r.status
  BY NullAssumption DEF Rows, Agrees, Says
<1>2. /\ row' = [row EXCEPT ![o] = Old(row[o])]
      /\ copies' = [c \in Callers |-> [copies[c] EXCEPT ![o] = Old(copies[c][o])]]
      /\ ucopy' = [u \in Users |-> IF ucopy[u] # None /\ ucopy[u].order = o
                                   THEN [ucopy[u] EXCEPT !.row = Old(ucopy[u].row)] ELSE ucopy[u]]
      /\ UNCHANGED <<chain, pc, history>>
  BY DEF Market
<1> HIDE DEF Old
<1>3. /\ row' \in [Orders -> Rows \cup {None}]
      /\ \A p \in Orders : row'[p] = (IF p = o THEN Old(row[p]) ELSE row[p])
  BY <1>1, <1>2 DEF Inv, Types
<1>4. /\ copies' \in [Callers -> [Orders -> Rows \cup {None}]]
      /\ \A c \in Callers, p \in Orders :
           copies'[c][p] = (IF p = o THEN Old(copies[c][p]) ELSE copies[c][p])
  BY <1>1, <1>2 DEF Inv, Types
<1>5. /\ ucopy' \in [Users -> {None} \cup [order : Orders, row : Rows]]
      /\ \A u \in Users : ucopy'[u] # None =>
           /\ ucopy[u] # None /\ ucopy[u].row \in Rows /\ ucopy[u].order \in Orders
           /\ ucopy'[u].order = ucopy[u].order
           /\ ucopy'[u].row = (IF ucopy[u].order = o THEN Old(ucopy[u].row) ELSE ucopy[u].row)
  <2>1. ASSUME NEW u \in Users, ucopy[u] # None, ucopy[u].order = o
        PROVE  /\ ucopy'[u] \in [order : Orders, row : Rows]
               /\ ucopy'[u].order = o /\ ucopy'[u].row = Old(ucopy[u].row)
               /\ ucopy[u].row \in Rows
    <3>1. ucopy[u] \in [order : Orders, row : Rows]
      BY <2>1 DEF Inv, Types
    <3>2. Old(ucopy[u].row) \in Rows
      BY <3>1, <1>1, NullAssumption
    <3>3. ucopy'[u] = [ucopy[u] EXCEPT !.row = Old(ucopy[u].row)]
      BY <2>1, <1>2
    <3>4. ucopy'[u] = [order |-> o, row |-> Old(ucopy[u].row)]
      BY <3>1, <3>3, <2>1
    <3> QED  BY <3>1, <3>2, <3>4
  <2>2. ASSUME NEW u \in Users, ~(ucopy[u] # None /\ ucopy[u].order = o)
        PROVE  ucopy'[u] = ucopy[u]
    BY <2>2, <1>2
  <2>3. \A u \in Users : ucopy'[u] \in {None} \cup [order : Orders, row : Rows]
    BY <2>1, <2>2 DEF Inv, Types
  <2>4. ucopy' \in [Users -> {None} \cup [order : Orders, row : Rows]]
    BY <2>3, <1>2
  <2>5. ASSUME NEW u \in Users, ucopy'[u] # None
        PROVE  /\ ucopy[u] # None /\ ucopy[u].row \in Rows /\ ucopy[u].order \in Orders
               /\ ucopy'[u].order = ucopy[u].order
               /\ ucopy'[u].row = (IF ucopy[u].order = o THEN Old(ucopy[u].row) ELSE ucopy[u].row)
    <3>1. CASE ucopy[u] # None /\ ucopy[u].order = o
      BY <3>1, <2>1
    <3>2. CASE ~(ucopy[u] # None /\ ucopy[u].order = o)
      BY <3>2, <2>2, <2>5 DEF Inv, Types
    <3> QED  BY <3>1, <3>2
  <2> QED  BY <2>4, <2>5
<1>6. Types'
  BY <1>2, <1>3, <1>4, <1>5 DEF Inv, Types, history
<1>7. ChainInv'
  BY <1>2 DEF Inv, ChainInv, Works, InLine, ItsTurn
<1>8. \A p \in Orders : row[p] # None => row'[p] # None /\ Says(row'[p]) = Says(row[p])
                          /\ (Agrees(row[p]) => Agrees(row'[p]))
  BY <1>1, <1>3 DEF Inv, Types
<1>9. \A p \in Orders : row'[p] # None => row[p] # None
  BY <1>1, <1>3 DEF Inv, Types
<1>10. ASSUME NEW c \in Callers, NEW p \in Orders, copies'[c][p] # None
       PROVE  /\ copies[c][p] # None /\ Says(copies'[c][p]) = Says(copies[c][p])
              /\ Agrees(copies[c][p]) => Agrees(copies'[c][p])
              /\ copies'[c][p].status = copies[c][p].status
  <2>1. copies[c][p] \in Rows \cup {None}
    BY DEF Inv, Types
  <2>2. CASE p = o
    BY <2>1, <2>2, <1>10, <1>4, <1>1
  <2>3. CASE p # o
    BY <2>3, <1>10, <1>4
  <2> QED  BY <2>2, <2>3
<1>11. ASSUME NEW u \in Users, ucopy'[u] # None
       PROVE  /\ Says(ucopy'[u].row) = Says(ucopy[u].row)
              /\ Agrees(ucopy[u].row) => Agrees(ucopy'[u].row)
  <2>1. ucopy[u].row \in Rows /\ ucopy[u].row # None
    BY <1>5, <1>11, NullAssumption
  <2> QED  BY <2>1, <1>1, <1>5, <1>11
<1>12. CopyInv'
  <2>1. \A p \in Orders : row'[p] # None => Agrees(row'[p])
    BY <1>8, <1>9 DEF Inv, CopyInv
  <2>2. \A c \in Callers, p \in Orders : copies'[c][p] # None =>
          /\ Works(c)' /\ row'[p] # None /\ Agrees(copies'[c][p])
          /\ pc'[c] = "close" => copies'[c][p].status = "FILLED"
    BY <1>2, <1>8, <1>10 DEF Inv, CopyInv, Works
  <2>3. \A u \in Users : ucopy'[u] # None => row'[ucopy'[u].order] # None /\ Agrees(ucopy'[u].row)
    BY <1>5, <1>8, <1>11 DEF Inv, CopyInv
  <2> QED  BY <2>1, <2>2, <2>3 DEF CopyInv
<1>13. OwnInv'
  <2>1. ASSUME NEW c \in Callers, NEW p \in Orders, copies'[c][p] # None,
               Says(copies'[c][p]) # Says(row'[p])
        PROVE  writer'[p] # ProcOf[c]
    <3>1. copies[c][p] # None /\ Says(copies[c][p]) # Says(row[p])
      BY <2>1, <1>8, <1>10 DEF Inv, CopyInv
    <3> QED  BY <3>1, <1>2 DEF Inv, OwnInv, history
  <2>2. ASSUME NEW u \in Users, ucopy'[u] # None,
               Says(ucopy'[u].row) # Says(row'[ucopy'[u].order])
        PROVE  writer'[ucopy'[u].order] # u
    <3>1. /\ ucopy[u] # None /\ ucopy'[u].order = ucopy[u].order
          /\ Says(ucopy[u].row) # Says(row[ucopy[u].order])
      BY <2>2, <1>5, <1>8, <1>11 DEF Inv, CopyInv
    <3> QED  BY <3>1, <1>2 DEF Inv, OwnInv, history
  <2> QED  BY <2>1, <2>2, <1>2 DEF Inv, OwnInv, history
<1> QED  BY <1>6, <1>7, <1>8, <1>12, <1>13 DEF Inv

-----------------------------------------------------------------------------
LEMMA InvInit ==
  ASSUME PaperAssumption, Init
  PROVE  Inv
<1>1. Types
  BY DEF Init, Types
<1>2. ChainInv
  BY DEF Init, ChainInv, Works
<1>3. CopyInv
  BY DEF Init, CopyInv
<1>4. OwnInv
  BY DEF Init, OwnInv
<1> QED  BY <1>1, <1>2, <1>3, <1>4 DEF Inv

LEMMA InvStep ==
  ASSUME PaperAssumption, NullAssumption, Inv, [Next]_vars
  PROVE  Inv'
<1>1. ASSUME NEW c \in Callers, Enter(c)
      PROVE  Inv'
  BY <1>1, EnterKeeps
<1>2. ASSUME NEW c \in Callers, Read(c)
      PROVE  Inv'
  BY <1>2, ReadKeeps
<1>3. ASSUME NEW c \in Callers, NEW o \in Orders, SimulateOrder(c, o)
      PROVE  Inv'
  BY <1>3, SimulateKeeps
<1>4. ASSUME NEW c \in Callers, NEW o \in Orders, CloseAtMarket(c, o)
      PROVE  Inv'
  BY <1>4, CloseKeeps
<1>5. ASSUME NEW c \in Callers, Throw(c)
      PROVE  Inv'
  BY <1>5, ThrowKeeps
<1>6. ASSUME NEW p \in Procs, Crash(p)
      PROVE  Inv'
  BY <1>6, CrashKeeps
<1>7. ASSUME NEW o \in Orders, Create(o)
      PROVE  Inv'
  BY <1>7, CreateKeeps
<1>8. ASSUME NEW o \in Orders, Market(o)
      PROVE  Inv'
  BY <1>8, MarketKeeps
<1>9. ASSUME NEW u \in Users, NEW o \in Touched, UserRead(u, o)
      PROVE  Inv'
  BY <1>9, UserReadKeeps
<1>10. ASSUME NEW u \in Users, Cancel(u)
       PROVE  Inv'
  BY <1>10, CancelKeeps
<1>11. ASSUME NEW u \in Users, Attach(u)
       PROVE  Inv'
  BY <1>11, AttachKeeps
<1>12. CASE UNCHANGED vars
  <2>1. Types'
    BY <1>12 DEF Inv, Types, vars, actorVars, history
  <2>2. ChainInv'
    BY <1>12 DEF Inv, ChainInv, Works, InLine, ItsTurn, vars, actorVars
  <2>3. CopyInv'
    BY <1>12 DEF Inv, CopyInv, Works, vars, actorVars
  <2>4. OwnInv'
    BY <1>12 DEF Inv, OwnInv, vars, actorVars, history
  <2> QED  BY <2>1, <2>2, <2>3, <2>4 DEF Inv
<1> QED
  BY <1>1, <1>2, <1>3, <1>4, <1>5, <1>6, <1>7, <1>8, <1>9, <1>10, <1>11, <1>12
     DEF Next, CallStep

LEMMA InvHolds == Spec => []Inv
<1>1. Init => Inv
  BY PaperAssumption, InvInit
<1>2. Inv /\ [Next]_vars => Inv'
  BY PaperAssumption, NullAssumption, InvStep
<1> QED  BY <1>1, <1>2, PTL DEF Spec

(* Status and simulation tell one story: simulateSingleOrder and the close  *)
(* set both, and no copy that may become the row has only one of them.      *)
THEOREM StoriesAlwaysAgree == Spec => []StoriesAgree
<1>1. Inv => StoriesAgree
  BY DEF Inv, CopyInv, Agrees, StoriesAgree
<1> QED  BY <1>1, InvHolds, PTL

(* withSimulationLock: whoever closes an order that was closed already had  *)
(* a copy from before somebody else's save.                                *)
THEOREM ClosesOnce == Spec => []OneClose
<1>1. Inv => OneClose
  BY DEF Inv, OwnInv, OneClose
<1> QED  BY <1>1, InvHolds, PTL

-----------------------------------------------------------------------------
(* A save keeps the cancel and the link of a row if the copy has them; a    *)
(* copy that has not is older than a foreign save.                         *)
LEMMA SaveKeepsWord ==
  ASSUME Types, NEW o \in Orders, NEW r \in Rows, NEW copy \in Rows,
         NEW who \in Procs \cup Users, Save(o, r, copy, who),
         copy.status = "CANCELLED" => r.status = "CANCELLED",
         copy.trade => r.trade,
         Says(copy) # Says(row[o]) => writer[o] # who,
         NEW p \in Orders, row[p] # None, p \notin outdated'
  PROVE  /\ row[p].status = "CANCELLED" => row'[p].status = "CANCELLED"
         /\ row[p].trade => row'[p].trade
<1>1. /\ row'[o] = r /\ \A q \in Orders : q # o => row'[q] = row[q]
      /\ Says(copy) # Says(row[o]) /\ writer[o] # who => o \in outdated'
  BY SaveEffect
<1>2. CASE p = o
  <2>1. Says(copy) = Says(row[o])
    BY <1>1, <1>2
  <2>2. copy.status = row[o].status /\ copy.trade = row[o].trade
    BY <2>1 DEF Says
  <2> QED  BY <2>2, <1>1, <1>2
<1>3. CASE p # o
  BY <1>1, <1>3
<1> QED  BY <1>2, <1>3

LEMMA WordStep ==
  ASSUME PaperAssumption, NullAssumption, Inv, [Next]_vars,
         NEW p \in Orders, row[p] # None, p \notin outdated'
  PROVE  /\ row[p].status = "CANCELLED" => row'[p].status = "CANCELLED"
         /\ row[p].trade => row'[p].trade
<1>1. ASSUME NEW c \in Callers, NEW o \in Orders, SimulateOrder(c, o), ~copies[c][o].seen
      PROVE  /\ row[p].status = "CANCELLED" => row'[p].status = "CANCELLED"
             /\ row[p].trade => row'[p].trade
  <2>1. PICK r \in Simulated(copies[c][o]) : Save(o, r, copies[c][o], ProcOf[c])
    BY <1>1 DEF SimulateOrder
  <2>2. copies[c][o] # None /\ copies[c][o] \in Rows /\ Agrees(copies[c][o]) /\ ProcOf[c] \in Procs
    BY <1>1 DEF SimulateOrder, Inv, Types, CopyInv, PaperAssumption
  <2>3. /\ r \in Rows /\ r.trade = copies[c][o].trade
        /\ copies[c][o].status = "CANCELLED" => r.status = "CANCELLED"
    BY <2>2, SimulatedSound
  <2>4. Says(copies[c][o]) # Says(row[o]) => writer[o] # ProcOf[c]
    BY <2>2 DEF Inv, OwnInv
  <2> QED  BY <2>1, <2>2, <2>3, <2>4, SaveKeepsWord DEF Inv
<1>2. ASSUME NEW c \in Callers, NEW o \in Orders, CloseAtMarket(c, o)
      PROVE  /\ row[p].status = "CANCELLED" => row'[p].status = "CANCELLED"
             /\ row[p].trade => row'[p].trade
  <2>1. /\ copies[c][o] # None /\ copies[c][o] \in Rows /\ ProcOf[c] \in Procs
        /\ copies[c][o].status = "FILLED"
    BY <1>2 DEF CloseAtMarket, Inv, Types, CopyInv, PaperAssumption
  <2>2. Closed(copies[c][o]) \in Rows /\ Closed(copies[c][o]).trade = copies[c][o].trade
    BY <2>1, ClosedSound
  <2>3. Says(copies[c][o]) # Says(row[o]) => writer[o] # ProcOf[c]
    BY <2>1 DEF Inv, OwnInv
  <2>4. Save(o, Closed(copies[c][o]), copies[c][o], ProcOf[c])
    BY <1>2 DEF CloseAtMarket
  <2> QED  BY <2>1, <2>2, <2>3, <2>4, SaveKeepsWord DEF Inv
<1>3. ASSUME NEW u \in Users, Cancel(u) \/ Attach(u)
      PROVE  /\ row[p].status = "CANCELLED" => row'[p].status = "CANCELLED"
             /\ row[p].trade => row'[p].trade
  <2> DEFINE o == ucopy[u].order
             copy == ucopy[u].row
             r == IF Cancel(u) THEN [copy EXCEPT !.status = "CANCELLED"]
                  ELSE [copy EXCEPT !.trade = TRUE]
  <2>1. ucopy[u] # None /\ o \in Orders /\ copy \in Rows
    BY <1>3 DEF Cancel, Attach, Inv, Types
  <2>2. /\ r \in Rows /\ (copy.status = "CANCELLED" => r.status = "CANCELLED")
        /\ copy.trade => r.trade
    BY <2>1 DEF Rows
  <2>3. Save(o, r, copy, u)
    BY <1>3 DEF Cancel, Attach
  <2>4. Says(copy) # Says(row[o]) => writer[o] # u
    BY <2>1 DEF Inv, OwnInv
  <2> HIDE DEF o, copy, r
  <2> QED  BY <2>1, <2>2, <2>3, <2>4, SaveKeepsWord DEF Inv
<1>4. ASSUME NEW o \in Orders, Create(o)
      PROVE  row'[p] = row[p]
  BY <1>4 DEF Create, Inv, Types
<1>5. ASSUME NEW o \in Orders, Market(o)
      PROVE  row'[p].status = row[p].status /\ row'[p].trade = row[p].trade
  <2>1. Says(row'[p]) = Says(row[p])
    BY <1>5, MarketKeeps
  <2> QED  BY <2>1 DEF Says
<1>6. ASSUME NEW c \in Callers, Enter(c) \/ Read(c) \/ Throw(c)
      PROVE  row' = row
  BY <1>6 DEF Enter, Read, Throw
<1>7. ASSUME NEW c \in Callers, NEW o \in Orders, SimulateOrder(c, o), copies[c][o].seen
      PROVE  row' = row
  BY <1>7 DEF SimulateOrder
<1>8. ASSUME NEW q \in Procs, Crash(q)
      PROVE  row' = row
  BY <1>8 DEF Crash
<1>9. ASSUME NEW u \in Users, NEW o \in Touched, UserRead(u, o)
      PROVE  row' = row
  BY <1>9 DEF UserRead
<1>10. CASE UNCHANGED vars
  BY <1>10 DEF vars
<1> QED
  BY <1>1, <1>2, <1>3, <1>4, <1>5, <1>6, <1>7, <1>8, <1>9, <1>10 DEF Next, CallStep

(* What cancelPaperOrder and attachSuggestedTrade told a user holds until   *)
(* somebody saves a copy from before somebody else's save.                 *)
THEOREM UsersWordHolds == Spec => WordHolds
<1>1. Inv /\ [Next]_vars =>
        [\A o \in Orders : row[o] # None /\ o \notin outdated' =>
           /\ row[o].status = "CANCELLED" => row'[o].status = "CANCELLED"
           /\ row[o].trade => row'[o].trade]_vars
  BY PaperAssumption, NullAssumption, WordStep
<1> QED  BY <1>1, InvHolds, PTL DEF Spec, WordHolds

-----------------------------------------------------------------------------
(* The line and the chains *)

(* An order waits at most once in the line, and only orders that exist do;  *)
(* in the chain of a process only its own calls do.                        *)
LineInv ==
  /\ line \in Seq(Orders) /\ IsInjective(line)
  /\ \A i \in 1 .. Len(line) : row[line[i]] # None
  /\ \A p \in Procs : chain[p] \in Seq({c \in Callers : ProcOf[c] = p})
  /\ again \subseteq Orders /\ outdated \subseteq Orders
  /\ failures \in 0 .. MaxFailures

(* Taking an order out of the line leaves the others in it, once each.      *)
LEMMA WithoutSound ==
  ASSUME LineInv, NEW o \in Orders
  PROVE  /\ Without(o) \in Seq(Orders) /\ IsInjective(Without(o))
         /\ \A i \in 1 .. Len(Without(o)) :
              /\ Without(o)[i] # o
              /\ \E j \in 1 .. Len(line) : Without(o)[i] = line[j]
<1>1. line \in Seq(Orders) /\ \A i, j \in 1 .. Len(line) : line[i] = line[j] => i = j
  BY DEF LineInv, IsInjective
<1>2. CASE Waits(o)
  <2> DEFINE at == CHOOSE i \in 1 .. Len(line) : line[i] = o
             left == SubSeq(line, 1, at - 1)
             right == SubSeq(line, at + 1, Len(line))
  <2>1. at \in 1 .. Len(line) /\ line[at] = o
    BY <1>2 DEF Waits
  <2>2. Without(o) = left \o right
    BY <1>2 DEF Without, RemoveAt
  <2>3. /\ left \in Seq(Orders) /\ Len(left) = at - 1
        /\ \A i \in 1 .. at - 1 : left[i] = line[i]
    BY <1>1, <2>1, SubSeqProperties
  <2>4. /\ right \in Seq(Orders) /\ Len(right) = Len(line) - at
        /\ \A i \in 1 .. Len(line) - at : right[i] = line[at + i]
    BY <1>1, <2>1, SubSeqProperties
  <2> HIDE DEF at, left, right
  <2>5. /\ Without(o) \in Seq(Orders) /\ Len(Without(o)) = Len(line) - 1
        /\ \A i \in 1 .. Len(line) - 1 :
             Without(o)[i] = IF i < at THEN line[i] ELSE line[i + 1]
    <3>1. /\ left \o right \in Seq(Orders)
          /\ Len(left \o right) = Len(left) + Len(right)
          /\ \A i \in 1 .. Len(left) + Len(right) :
               (left \o right)[i] = IF i <= Len(left) THEN left[i] ELSE right[i - Len(left)]
      BY <2>3, <2>4, ConcatProperties
    <3>2. Len(line) \in Nat /\ Len(left) + Len(right) = Len(line) - 1
      BY <1>1, <2>1, <2>3, <2>4
    <3>3. ASSUME NEW i \in 1 .. Len(line) - 1
          PROVE  (left \o right)[i] = IF i < at THEN line[i] ELSE line[i + 1]
      <4>1. CASE i < at
        BY <2>1, <2>3, <3>1, <3>2, <4>1
      <4>2. CASE ~(i < at)
        <5>1. i - (at - 1) \in 1 .. Len(line) - at /\ at + (i - (at - 1)) = i + 1
          BY <2>1, <3>2, <4>2
        <5>2. (left \o right)[i] = right[i - (at - 1)]
          BY <2>1, <2>3, <3>1, <3>2, <4>2
        <5> QED  BY <2>4, <4>2, <5>1, <5>2
      <4> QED  BY <4>1, <4>2
    <3> QED  BY <2>2, <3>1, <3>2, <3>3
  <2>6. \A i \in 1 .. Len(Without(o)) :
          Without(o)[i] # o /\ \E j \in 1 .. Len(line) : Without(o)[i] = line[j]
    BY <1>1, <2>1, <2>5
  <2>7. \A i, j \in 1 .. Len(Without(o)) : Without(o)[i] = Without(o)[j] => i = j
    BY <1>1, <2>1, <2>5
  <2> QED  BY <2>5, <2>6, <2>7 DEF IsInjective
<1>3. CASE ~Waits(o)
  BY <1>1, <1>3 DEF Without, Waits, IsInjective
<1> QED  BY <1>2, <1>3

(* An order that is put behind a line without it waits there once.          *)
LEMMA AppendSound ==
  ASSUME NEW s \in Seq(Orders), IsInjective(s), NEW o \in Orders,
         \A i \in 1 .. Len(s) : s[i] # o
  PROVE  /\ Append(s, o) \in Seq(Orders) /\ IsInjective(Append(s, o))
         /\ \A i \in 1 .. Len(Append(s, o)) :
              Append(s, o)[i] = o \/ \E j \in 1 .. Len(s) : Append(s, o)[i] = s[j]
<1>1. /\ Append(s, o) \in Seq(Orders) /\ Len(Append(s, o)) = Len(s) + 1
      /\ \A i \in 1 .. Len(s) : Append(s, o)[i] = s[i]
      /\ Append(s, o)[Len(s) + 1] = o /\ Len(s) \in Nat
  BY AppendProperties
<1>2. \A i \in 1 .. Len(Append(s, o)) : i \in 1 .. Len(s) \/ i = Len(s) + 1
  BY <1>1
<1>3. \A i, j \in 1 .. Len(Append(s, o)) : Append(s, o)[i] = Append(s, o)[j] => i = j
  BY <1>1, <1>2 DEF IsInjective
<1> QED  BY <1>1, <1>2, <1>3 DEF IsInjective

(* A save moves its order to the end of the line, or out of it. *)
LEMMA SaveLine ==
  ASSUME NullAssumption, Types, LineInv, NEW o \in Orders, NEW r \in Rows, NEW copy, NEW who,
         Save(o, r, copy, who)
  PROVE  /\ line' \in Seq(Orders) /\ IsInjective(line')
         /\ \A i \in 1 .. Len(line') : row'[line'[i]] # None
         /\ outdated' \subseteq Orders
<1>1. \A p \in Orders : row'[p] # None \/ (p # o /\ row'[p] = row[p])
  BY DEF Save, Types, NullAssumption
<1>2. line' = Without(o) \/ line' = Append(Without(o), o)
  BY DEF Save
<1>3. /\ line' \in Seq(Orders) /\ IsInjective(line')
      /\ \A i \in 1 .. Len(line') : line'[i] = o \/ \E j \in 1 .. Len(line) : line'[i] = line[j]
  <2> DEFINE others == Without(o)
  <2>1. /\ others \in Seq(Orders) /\ IsInjective(others)
        /\ \A i \in 1 .. Len(others) :
             others[i] # o /\ \E j \in 1 .. Len(line) : others[i] = line[j]
    BY WithoutSound
  <2>2. line' = others \/ line' = Append(others, o)
    BY <1>2
  <2> HIDE DEF others
  <2>3. CASE line' = others
    BY <2>1, <2>3
  <2>4. CASE line' = Append(others, o)
    <3>1. /\ Append(others, o) \in Seq(Orders) /\ IsInjective(Append(others, o))
          /\ \A i \in 1 .. Len(Append(others, o)) :
               \/ Append(others, o)[i] = o
               \/ \E j \in 1 .. Len(others) : Append(others, o)[i] = others[j]
      BY <2>1, AppendSound
    <3> QED  BY <2>1, <2>4, <3>1
  <2> QED  BY <2>2, <2>3, <2>4
<1>4. row'[o] # None
  BY DEF Save, Types, NullAssumption
<1>5. \A i \in 1 .. Len(line') : row'[line'[i]] # None
  BY <1>1, <1>3, <1>4 DEF LineInv
<1>6. outdated' \subseteq Orders
  BY DEF Save, LineInv
<1> QED  BY <1>3, <1>5, <1>6

(* Joining or leaving a chain, only calls of its process are in it.         *)
LEMMA JoinsLine ==
  ASSUME PaperAssumption, Types, LineInv, NEW c \in Callers, Joins(c)
  PROVE  \A p \in Procs : chain'[p] \in Seq({e \in Callers : ProcOf[e] = p})
<1>1. ASSUME NEW p \in Procs
      PROVE  chain'[p] \in Seq({e \in Callers : ProcOf[e] = p})
  <2> DEFINE Own == {e \in Callers : ProcOf[e] = p}
  <2>1. chain[p] \in Seq(Own)
    BY DEF LineInv
  <2>2. CASE ProcOf[c] = p
    <3>1. c \in Own /\ chain'[p] = Append(chain[p], c)
      BY <2>2 DEF Joins, Types
    <3>2. chain'[p] \in Seq(Own)
      <4> HIDE DEF Own
      <4> QED  BY <2>1, <3>1, AppendProperties, HeadTailProperties
    <3> QED  BY <3>2
  <2>3. CASE ProcOf[c] # p
    BY <2>1, <2>3 DEF Joins, Types
  <2> QED  BY <2>2, <2>3
<1> QED  BY <1>1

LEMMA LeavesLine ==
  ASSUME PaperAssumption, Types, ChainInv, LineInv, NEW c \in Callers, pc[c] # "idle", Leaves(c)
  PROVE  \A p \in Procs : chain'[p] \in Seq({e \in Callers : ProcOf[e] = p})
<1>1. ASSUME NEW p \in Procs
      PROVE  chain'[p] \in Seq({e \in Callers : ProcOf[e] = p})
  <2> DEFINE Own == {e \in Callers : ProcOf[e] = p}
  <2>1. chain[p] \in Seq(Own)
    BY DEF LineInv
  <2>2. CASE ProcOf[c] = p
    <3>1. chain[p] # <<>> /\ chain'[p] = Tail(chain[p])
      BY <2>2, InLineNotEmpty DEF Leaves, Types, ChainInv
    <3>2. chain'[p] \in Seq(Own)
      <4> HIDE DEF Own
      <4> QED  BY <2>1, <3>1, AppendProperties, HeadTailProperties
    <3> QED  BY <3>2
  <2>3. CASE ProcOf[c] # p
    BY <2>1, <2>3 DEF Leaves, Types
  <2> QED  BY <2>2, <2>3
<1> QED  BY <1>1

LEMMA HandledLine ==
  ASSUME PaperAssumption, Types, ChainInv, LineInv, NEW c \in Callers, NEW o \in Orders,
         pc[c] # "idle", Handled(c, o)
  PROVE  \A p \in Procs : chain'[p] \in Seq({e \in Callers : ProcOf[e] = p})
<1>1. CASE Leaves(c)
  BY <1>1, LeavesLine
<1>2. CASE chain' = chain
  BY <1>2 DEF LineInv
<1> QED  BY <1>1, <1>2 DEF Handled

LEMMA LineStep ==
  ASSUME PaperAssumption, NullAssumption, Inv, LineInv, [Next]_vars
  PROVE  LineInv'
<1> USE DEF history
<1>1. ASSUME NEW c \in Callers, Enter(c)
      PROVE  LineInv'
  BY <1>1, JoinsLine DEF Enter, LineInv, Inv
<1>2. ASSUME NEW c \in Callers, Read(c)
      PROVE  LineInv'
  <2>1. \E step \in {"simulate", "close"} : \E set : Takes(c, step, set)
    BY <1>2 DEF Read
  <2>2. Leaves(c) \/ chain' = chain
    BY <2>1 DEF Takes
  <2>3. \A p \in Procs : chain'[p] \in Seq({e \in Callers : ProcOf[e] = p})
    BY <1>2, <2>2, LeavesLine DEF Read, LineInv, Inv
  <2> QED  BY <1>2, <2>3 DEF Read, LineInv
<1>3. ASSUME NEW c \in Callers, NEW o \in Orders, SimulateOrder(c, o)
      PROVE  LineInv'
  <2>1. \A p \in Procs : chain'[p] \in Seq({e \in Callers : ProcOf[e] = p})
    BY <1>3, HandledLine DEF SimulateOrder, Inv
  <2>2. CASE UNCHANGED <<row, line, history>>
    BY <1>3, <2>1, <2>2 DEF SimulateOrder, LineInv
  <2>3. CASE \E r \in Simulated(copies[c][o]) :
               Save(o, r, copies[c][o], ProcOf[c]) /\ Report(o, copies[c][o], r)
    <3>1. PICK r \in Simulated(copies[c][o]) :
            Save(o, r, copies[c][o], ProcOf[c]) /\ Report(o, copies[c][o], r)
      BY <2>3
    <3>2. copies[c][o] \in Rows /\ Agrees(copies[c][o])
      BY <1>3 DEF SimulateOrder, Inv, Types, CopyInv
    <3>3. r \in Rows
      BY <3>2, SimulatedSound
    <3>4. again' \subseteq Orders
      BY <3>1 DEF Report, LineInv
    <3> QED  BY <1>3, <2>1, <3>1, <3>3, <3>4, SaveLine DEF SimulateOrder, LineInv, Inv
  <2> QED  BY <1>3, <2>2, <2>3 DEF SimulateOrder
<1>4. ASSUME NEW c \in Callers, NEW o \in Orders, CloseAtMarket(c, o)
      PROVE  LineInv'
  <2> DEFINE copy == copies[c][o]
  <2>1. \A p \in Procs : chain'[p] \in Seq({e \in Callers : ProcOf[e] = p})
    BY <1>4, HandledLine DEF CloseAtMarket, Inv
  <2>2. Closed(copy) \in Rows
    BY <1>4, ClosedSound DEF CloseAtMarket, Inv, Types
  <2>3. again' \subseteq Orders
    BY <1>4 DEF CloseAtMarket, Report, LineInv
  <2>4. Save(o, Closed(copy), copy, ProcOf[c])
    BY <1>4 DEF CloseAtMarket
  <2> QED  BY <1>4, <2>1, <2>2, <2>3, <2>4, SaveLine DEF CloseAtMarket, LineInv, Inv
<1>5. ASSUME NEW c \in Callers, Throw(c)
      PROVE  LineInv'
  <2>1. \A p \in Procs : chain'[p] \in Seq({e \in Callers : ProcOf[e] = p})
    BY <1>5, LeavesLine DEF Throw, LeavesFailed, Inv
  <2> QED  BY <1>5, <2>1 DEF Throw, LineInv, PaperAssumption
<1>6. ASSUME NEW p \in Procs, Crash(p)
      PROVE  LineInv'
  <2>1. \A q \in Procs : chain'[q] \in Seq({e \in Callers : ProcOf[e] = q})
    BY <1>6 DEF Crash, LineInv, Inv, Types
  <2> QED  BY <1>6, <2>1 DEF Crash, LineInv, PaperAssumption
<1>7. ASSUME NEW o \in Orders, Create(o)
      PROVE  LineInv'
  <2>1. \A i \in 1 .. Len(line) : line[i] # o
    BY <1>7 DEF Create, LineInv
  <2>2. \A p \in Orders : row[p] # None \/ p = o => row'[p] # None
    <3>1. NewRow \in Rows
      BY DEF NewRow, Rows
    <3>2. NewRow # None
      BY <3>1, NullAssumption
    <3> QED  BY <1>7, <3>2 DEF Create, Inv, Types
  <2>3. /\ line' \in Seq(Orders) /\ IsInjective(line')
        /\ \A i \in 1 .. Len(line') : line'[i] = o \/ \E j \in 1 .. Len(line) : line'[i] = line[j]
    BY <1>7, <2>1, AppendSound DEF Create, LineInv
  <2>4. \A i \in 1 .. Len(line') : row'[line'[i]] # None
    BY <2>2, <2>3 DEF LineInv
  <2> QED  BY <1>7, <2>3, <2>4 DEF Create, actorVars, LineInv
<1>8. ASSUME NEW o \in Orders, Market(o)
      PROVE  LineInv'
  <2>1. \A p \in Orders : row[p] # None => row'[p] # None
    BY <1>8 DEF Market, Inv, Types, NullAssumption, Rows
  <2>2. \A i \in 1 .. Len(line) : line[i] \in Orders
    BY DEF LineInv
  <2> QED  BY <1>8, <2>1, <2>2 DEF Market, LineInv
<1>9. ASSUME NEW u \in Users, NEW o \in Touched, UserRead(u, o)
      PROVE  LineInv'
  BY <1>9 DEF UserRead, LineInv
<1>10. ASSUME NEW u \in Users, Cancel(u) \/ Attach(u)
       PROVE  LineInv'
  <2> DEFINE o == ucopy[u].order
             copy == ucopy[u].row
  <2>1. o \in Orders /\ copy \in Rows
    BY <1>10 DEF Cancel, Attach, Inv, Types
  <2>2. [copy EXCEPT !.status = "CANCELLED"] \in Rows /\ [copy EXCEPT !.trade = TRUE] \in Rows
    BY <2>1 DEF Rows
  <2>3. PICK r \in Rows : Save(o, r, copy, u)
    BY <1>10, <2>2 DEF Cancel, Attach
  <2> HIDE DEF o, copy
  <2>4. /\ line' \in Seq(Orders) /\ IsInjective(line')
        /\ \A i \in 1 .. Len(line') : row'[line'[i]] # None
        /\ outdated' \subseteq Orders
    BY <2>1, <2>3, SaveLine DEF Inv
  <2>5. UNCHANGED <<chain, again, failures>>
    BY <1>10 DEF Cancel, Attach
  <2> QED  BY <2>4, <2>5 DEF LineInv
<1>11. CASE UNCHANGED vars
  BY <1>11 DEF vars, actorVars, LineInv
<1> QED
  BY <1>1, <1>2, <1>3, <1>4, <1>5, <1>6, <1>7, <1>8, <1>9, <1>10, <1>11 DEF Next, CallStep

(* Rows, copies, steps and chains are well formed, and the line by          *)
(* updated_at, from which batches are taken, has an order once.            *)
THEOREM TypeCorrect == Spec => []TypeOK
<1>1. Init => LineInv
  BY PaperAssumption DEF Init, LineInv, IsInjective, PaperAssumption
<1>2. Inv /\ LineInv /\ [Next]_vars => LineInv'
  BY PaperAssumption, NullAssumption, LineStep
<1>3. Inv /\ LineInv => TypeOK
  BY DEF Inv, Types, LineInv, TypeOK
<1> QED  BY <1>1, <1>2, <1>3, InvHolds, PTL DEF Spec
=============================================================================
