--------------------------- MODULE InventoryProofs ---------------------------
(***************************************************************************)
(* Proofs about Inventory for any kinds, ids, positions, conditions and    *)
(* item sets, whichever calls are cut short.  In the order of the module:  *)
(* a position is held by one row and the bag has one stack of a kind       *)
(* (AlwaysWellPlaced); each call on the stack finds what it relies on      *)
(* (Good), so what is worn is worn well, its conditions hold and every     *)
(* bonus of a set exists; and no unit is lost or made up (the ledger).     *)
(***************************************************************************)
EXTENDS Inventory, WellFoundedInduction, FiniteSetTheorems, TLAPS

\* Each row is a record of its three columns.
Rows ==
    /\ items = [i \in DOMAIN items |-> items[i]]
    /\ \A i \in DOMAIN items :
          items[i] = [kind |-> items[i].kind, quantity |-> items[i].quantity,
                      position |-> items[i].position]

\* A new row of the kind has its position to itself, or is the only one of
\* its kind in the bag.
Free(k, p) == IF p = "bag" THEN Batches(k, p) = {} ELSE At(p) = {}

\* Calls none of which creates a row.
NoCreate(s) ==
    /\ \E S : s \in Seq(S)
    /\ \A n \in 1..Len(s) : s[n].call # "create"

\* A row is created where it has room, at once or after the removal that makes
\* it: nothing runs between Places and the row it creates but that removal.
Room ==
    \/ NoCreate(calls)
    \/ \E c, s : /\ calls = <<c>> \o s /\ NoCreate(s)
                 /\ c.call = "create" /\ Free(c.kind, c.to)
    \/ \E r, c, s : /\ calls = <<r, c>> \o s /\ NoCreate(s)
                    /\ r.call = "remove"
                    /\ c.call = "create" /\ Free(c.kind, c.to)

Inv == Rows /\ WellPlaced /\ Room

-----------------------------------------------------------------------------
(* Calls *)

LEMMA NoCreateEmpty == NoCreate(<<>>)
<1>1. <<>> \in Seq({}) /\ Len(<<>>) = 0
  OBVIOUS
<1> QED
  BY <1>1 DEF NoCreate

LEMMA NoCreateOne == ASSUME NEW c, c.call # "create" PROVE NoCreate(<<c>>)
<1>1. <<c>> \in Seq({c}) /\ Len(<<c>>) = 1
  OBVIOUS
<1>2. ASSUME NEW n \in 1..Len(<<c>>) PROVE <<c>>[n].call # "create"
  <2>1. n = 1
    BY <1>1, <1>2
  <2> QED
    BY <2>1
<1> QED
  BY <1>1, <1>2 DEF NoCreate

LEMMA NoCreateTwo ==
  ASSUME NEW c, NEW d, c.call # "create", d.call # "create"
  PROVE  NoCreate(<<c, d>>)
<1>1. <<c, d>> \in Seq({c, d}) /\ Len(<<c, d>>) = 2
  OBVIOUS
<1>2. ASSUME NEW n \in 1..Len(<<c, d>>) PROVE <<c, d>>[n].call # "create"
  <2>1. n = 1 \/ n = 2
    BY <1>1, <1>2
  <2> QED
    BY <2>1
<1> QED
  BY <1>1, <1>2 DEF NoCreate

LEMMA NoCreateJoin ==
  ASSUME NEW s, NEW t, NoCreate(s), NoCreate(t) PROVE NoCreate(s \o t)
<1>1. PICK S : s \in Seq(S)
  BY DEF NoCreate
<1>2. PICK T : t \in Seq(T)
  BY DEF NoCreate
<1>3. s \in Seq(S \cup T) /\ t \in Seq(S \cup T)
  BY <1>1, <1>2
<1>4. s \o t \in Seq(S \cup T) /\ Len(s \o t) = Len(s) + Len(t)
  BY <1>3
<1>5. ASSUME NEW n \in 1..Len(s \o t) PROVE (s \o t)[n].call # "create"
  <2>1. CASE n <= Len(s)
    BY <1>3, <1>4, <1>5, <2>1 DEF NoCreate
  <2>2. CASE n > Len(s)
    <3>1. n - Len(s) \in 1..Len(t) /\ (s \o t)[n] = t[n - Len(s)]
      BY <1>3, <1>4, <1>5, <2>2
    <3> QED
      BY <3>1 DEF NoCreate
  <2> QED
    BY <1>3, <1>4, <1>5, <2>1, <2>2
<1> QED
  BY <1>4, <1>5 DEF NoCreate

LEMMA NoCreateTail ==
  ASSUME NEW s, s # <<>>, NoCreate(s) PROVE NoCreate(Tail(s))
<1>1. PICK S : s \in Seq(S)
  BY DEF NoCreate
<1>2. /\ Tail(s) \in Seq(S) /\ Len(s) \in Nat \ {0}
      /\ Len(Tail(s)) = Len(s) - 1
  BY <1>1
<1>3. ASSUME NEW n \in 1..Len(Tail(s)) PROVE Tail(s)[n].call # "create"
  <2>1. Tail(s)[n] = s[n + 1] /\ n + 1 \in 1..Len(s)
    BY <1>1, <1>2
  <2> QED
    BY <2>1 DEF NoCreate
<1> QED
  BY <1>2, <1>3 DEF NoCreate

\* What is on the stack once the innermost call has returned.
LEMMA TailNoCreate ==
  ASSUME Room, calls # <<>>, Head(calls).call # "remove"
  PROVE  NoCreate(Tail(calls))
<1>1. CASE NoCreate(calls)
  BY <1>1, NoCreateTail
<1>2. ASSUME NEW c, NEW s, calls = <<c>> \o s, NoCreate(s)
      PROVE  NoCreate(Tail(calls))
  <2>1. PICK S : s \in Seq(S)
    BY <1>2 DEF NoCreate
  <2>2. s \in Seq(S \cup {c}) /\ <<c>> \in Seq(S \cup {c})
    BY <2>1
  <2>3. Tail(calls) = s
    BY <1>2, <2>2
  <2> QED
    BY <1>2, <2>3
<1>3. ASSUME NEW r, NEW c, NEW s, calls = <<r, c>> \o s, NoCreate(s),
             r.call = "remove"
      PROVE  FALSE
  <2>1. PICK S : s \in Seq(S)
    BY <1>3 DEF NoCreate
  <2>2. s \in Seq(S \cup {r, c}) /\ <<r, c>> \in Seq(S \cup {r, c})
    BY <2>1
  <2>3. Head(calls) = r
    BY <1>3, <2>2
  <2> QED
    BY <1>3, <2>3
<1> QED
  BY <1>1, <1>2, <1>3 DEF Room

\* A call that goes on with calls that create no row leaves the stack without.
LEMMA ContinueRoom ==
  ASSUME Room, calls # <<>>, Head(calls).call # "remove",
         NEW next, NoCreate(next), Continue(next)
  PROVE  Room'
<1>1. NoCreate(calls')
  BY TailNoCreate, NoCreateJoin DEF Continue
<1>2. NoCreate(calls)'
  BY <1>1 DEF NoCreate
<1> QED
  BY <1>2 DEF Room

-----------------------------------------------------------------------------
(* Rows *)

\* Places and kinds of the rows that stay, if no row moves or comes.
LEMMA FewerRows ==
  ASSUME DOMAIN items' \subseteq DOMAIN items,
         \A i \in DOMAIN items' : /\ items'[i].kind = items[i].kind
                                  /\ items'[i].position = items[i].position
  PROVE  /\ WellPlaced => WellPlaced'
         /\ \A k, p : Free(k, p) => Free(k, p)'
BY DEF WellPlaced, OnePerPosition, StacksMerged, Free, Batches, At

\* A quantity is written and nothing else of the row.
LEMMA QuantityWritten ==
  ASSUME Rows, NEW i, NEW n,
         items' = [items EXCEPT ![i].quantity = n]
  PROVE  /\ Rows'
         /\ DOMAIN items' = DOMAIN items
         /\ \A j \in DOMAIN items :
               /\ items'[j].kind = items[j].kind
               /\ items'[j].quantity = IF j = i THEN n ELSE items[j].quantity
               /\ items'[j].position = items[j].position
<1>1. DOMAIN items' = DOMAIN items
  BY DEF Rows
<1>2. ASSUME NEW j \in DOMAIN items
      PROVE  items'[j] = [kind |-> items[j].kind,
                          quantity |-> IF j = i THEN n ELSE items[j].quantity,
                          position |-> items[j].position]
  <2>1. items[j] = [kind |-> items[j].kind, quantity |-> items[j].quantity,
                    position |-> items[j].position]
    BY DEF Rows
  <2>2. CASE j = i
    <3>1. items'[j] = [items[j] EXCEPT !.quantity = n]
      BY <1>2, <2>2 DEF Rows
    <3> QED
      BY <2>1, <2>2, <3>1
  <2>3. CASE j # i
    <3>1. items'[j] = items[j]
      BY <1>2, <2>3 DEF Rows
    <3> QED
      BY <2>1, <2>3, <3>1
  <2> QED
    BY <2>2, <2>3
<1>3. items' = [j \in DOMAIN items' |-> items'[j]]
  BY DEF Rows
<1> QED
  BY <1>1, <1>2, <1>3 DEF Rows

\* A new row where it has room.
LEMMA RowAdded ==
  ASSUME Rows, WellPlaced, NEW k, NEW n, NEW p, Free(k, p),
         Item(k) \ DOMAIN items # {}, items' = WithItem(k, n, p)
  PROVE  /\ Rows' /\ WellPlaced'
         /\ NewItem(k) \in Item(k) /\ NewItem(k) \notin DOMAIN items
         /\ DOMAIN items' = DOMAIN items \cup {NewItem(k)}
         /\ items'[NewItem(k)] = [kind |-> k, quantity |-> n, position |-> p]
         /\ \A i \in DOMAIN items : items'[i] = items[i]
<1> DEFINE new == NewItem(k)
<1>1. new \in Item(k) /\ new \notin DOMAIN items
  BY DEF NewItem
<1>2. /\ DOMAIN items' = DOMAIN items \cup {new}
      /\ items'[new] = [kind |-> k, quantity |-> n, position |-> p]
      /\ \A i \in DOMAIN items : items'[i] = items[i]
  BY <1>1 DEF WithItem
<1>3. items' = [i \in DOMAIN items' |-> items'[i]]
  BY <1>2 DEF WithItem
<1>4. Rows'
  BY <1>2, <1>3 DEF Rows
<1>5. WellPlaced'
  BY <1>1, <1>2 DEF WellPlaced, OnePerPosition, StacksMerged, Free, Batches, At
<1> QED
  BY <1>1, <1>2, <1>4, <1>5

\* A row goes where it has room.
LEMMA RowMoved ==
  ASSUME Rows, WellPlaced, NEW i \in DOMAIN items, NEW p,
         Free(items[i].kind, p), items' = [items EXCEPT ![i].position = p]
  PROVE  /\ Rows' /\ WellPlaced'
         /\ DOMAIN items' = DOMAIN items
         /\ \A j \in DOMAIN items :
               /\ items'[j].kind = items[j].kind
               /\ items'[j].quantity = items[j].quantity
               /\ items'[j].position = IF j = i THEN p ELSE items[j].position
<1>1. DOMAIN items' = DOMAIN items
  BY DEF Rows
<1>2. ASSUME NEW j \in DOMAIN items
      PROVE  items'[j] = [kind |-> items[j].kind,
                          quantity |-> items[j].quantity,
                          position |-> IF j = i THEN p ELSE items[j].position]
  <2>1. items[j] = [kind |-> items[j].kind, quantity |-> items[j].quantity,
                    position |-> items[j].position]
    BY DEF Rows
  <2>2. CASE j = i
    <3>1. items'[j] = [items[j] EXCEPT !.position = p]
      BY <1>2, <2>2 DEF Rows
    <3> QED
      BY <2>1, <2>2, <3>1
  <2>3. CASE j # i
    <3>1. items'[j] = items[j]
      BY <1>2, <2>3 DEF Rows
    <3> QED
      BY <2>1, <2>3, <3>1
  <2> QED
    BY <2>2, <2>3
<1>3. items' = [j \in DOMAIN items' |-> items'[j]]
  BY DEF Rows
<1>4. \A j \in DOMAIN items :
         /\ items'[j].kind = items[j].kind
         /\ items'[j].quantity = items[j].quantity
         /\ items'[j].position = IF j = i THEN p ELSE items[j].position
  BY <1>2
<1>5. WellPlaced'
  BY <1>1, <1>4 DEF WellPlaced, OnePerPosition, StacksMerged, Free, Batches, At
<1> QED
  BY <1>1, <1>2, <1>3, <1>4, <1>5 DEF Rows

\* The rows stay and so do the calls a step does not run.
LEMMA SameRows ==
  ASSUME Rows, WellPlaced, UNCHANGED items PROVE Rows' /\ WellPlaced'
BY DEF Rows, WellPlaced, OnePerPosition, StacksMerged, At

-----------------------------------------------------------------------------
(* Steps *)

LEMMA TakeOffNoCreate == ASSUME NEW found PROVE NoCreate(TakeOff(found))
BY NoCreateEmpty, NoCreateOne DEF TakeOff, unEquip, Move

\* A call that writes no row and goes on with calls that create none.
LEMMA Pushed ==
  ASSUME Inv, UNCHANGED items, calls # <<>>, Head(calls).call # "remove",
         NEW next, NoCreate(next), Continue(next)
  PROVE  Inv'
BY SameRows, ContinueRoom DEF Inv

LEMMA RemoveStep == ASSUME Inv, RemoveItem PROVE Inv'
<1> DEFINE c == Head(calls)
<1>1. /\ calls # <<>> /\ c.call = "remove" /\ calls' = <<>> \o Tail(calls)
  BY DEF RemoveItem, Running, Continue
<1>2. /\ Rows'
      /\ DOMAIN items' \subseteq DOMAIN items
      /\ \A i \in DOMAIN items' : /\ items'[i].kind = items[i].kind
                                  /\ items'[i].position = items[i].position
  <2>1. CASE c.quantity = items[c.item].quantity
    <3>1. items' = [i \in DOMAIN items \ {c.item} |-> items[i]]
      BY <2>1 DEF RemoveItem
    <3>2. /\ DOMAIN items' = DOMAIN items \ {c.item}
          /\ \A i \in DOMAIN items' : items'[i] = items[i]
      BY <3>1
    <3>3. items' = [i \in DOMAIN items' |-> items'[i]]
      BY <3>1
    <3> QED
      BY <3>2, <3>3 DEF Inv, Rows
  <2>2. CASE c.quantity # items[c.item].quantity
    <3>1. \E n : items' = [items EXCEPT ![c.item].quantity = n]
      BY <2>2 DEF RemoveItem
    <3> QED
      BY <3>1, QuantityWritten DEF Inv
  <2> QED
    BY <2>1, <2>2
<1>3. WellPlaced' /\ \A k, p : Free(k, p) => Free(k, p)'
  BY <1>2, FewerRows DEF Inv
<1>4. Room'
  <2>1. CASE NoCreate(calls)
    <3>1. NoCreate(calls')
      BY <1>1, <2>1, NoCreateTail, NoCreateEmpty, NoCreateJoin
    <3>2. NoCreate(calls)'
      BY <3>1 DEF NoCreate
    <3> QED
      BY <3>2 DEF Room
  <2>2. ASSUME NEW d, NEW s, calls = <<d>> \o s, NoCreate(s), d.call = "create"
        PROVE  FALSE
    <3>1. PICK S : s \in Seq(S)
      BY <2>2 DEF NoCreate
    <3>2. s \in Seq(S \cup {d}) /\ <<d>> \in Seq(S \cup {d})
      BY <3>1
    <3>3. Head(calls) = d
      BY <2>2, <3>2
    <3> QED
      BY <1>1, <2>2, <3>3
  <2>3. ASSUME NEW r, NEW d, NEW s, calls = <<r, d>> \o s, NoCreate(s),
               d.call = "create", Free(d.kind, d.to)
        PROVE  Room'
    <3>1. PICK S : s \in Seq(S)
      BY <2>3 DEF NoCreate
    <3>2. /\ s \in Seq(S \cup {r, d}) /\ <<r, d>> \in Seq(S \cup {r, d})
          /\ <<d>> \in Seq(S \cup {r, d}) /\ <<>> \in Seq(S \cup {r, d})
      BY <3>1
    <3>3. calls' = <<d>> \o s
      BY <1>1, <2>3, <3>2
    <3>4. Free(d.kind, d.to)'
      BY <1>3, <2>3
    <3>5. \E e, u : /\ calls' = <<e>> \o u /\ NoCreate(u)
                    /\ e.call = "create" /\ Free(e.kind, e.to)'
      BY <2>3, <3>3, <3>4
    <3> QED
      BY <3>5 DEF Room, NoCreate
  <2> QED
    BY <2>1, <2>2, <2>3 DEF Inv, Room
<1> QED
  BY <1>2, <1>3, <1>4 DEF Inv

LEMMA UpdateStep == ASSUME Inv, UpdateItem PROVE Inv'
<1>1. /\ calls # <<>> /\ Head(calls).call # "remove" /\ Continue(<<>>)
      /\ items' = [items EXCEPT ![Head(calls).item].quantity =
                      Head(calls).quantity]
  BY DEF UpdateItem, Running
<1>2. Rows' /\ WellPlaced'
  BY <1>1, QuantityWritten, FewerRows DEF Inv
<1> QED
  BY <1>1, <1>2, ContinueRoom, NoCreateEmpty DEF Inv

\* The row that is created has room.
LEMMA CreateHasRoom ==
  ASSUME Inv, CreateItem PROVE Free(Head(calls).kind, Head(calls).to)
<1> DEFINE c == Head(calls)
<1>1. calls # <<>> /\ c.call = "create"
  BY DEF CreateItem, Running
<1>2. CASE NoCreate(calls)
  <2>1. PICK S : calls \in Seq(S)
    BY <1>2 DEF NoCreate
  <2>2. 1 \in 1..Len(calls) /\ Head(calls) = calls[1]
    BY <1>1, <2>1
  <2> QED
    BY <1>1, <1>2, <2>2 DEF NoCreate
<1>3. ASSUME NEW d, NEW s, calls = <<d>> \o s, NoCreate(s),
             Free(d.kind, d.to)
      PROVE  Free(c.kind, c.to)
  <2>1. PICK S : s \in Seq(S)
    BY <1>3 DEF NoCreate
  <2>2. s \in Seq(S \cup {d}) /\ <<d>> \in Seq(S \cup {d})
    BY <2>1
  <2>3. Head(calls) = d
    BY <1>3, <2>2
  <2> QED
    BY <1>3, <2>3
<1>4. ASSUME NEW r, NEW d, NEW s, calls = <<r, d>> \o s, NoCreate(s),
             r.call = "remove"
      PROVE  FALSE
  <2>1. PICK S : s \in Seq(S)
    BY <1>4 DEF NoCreate
  <2>2. s \in Seq(S \cup {r, d}) /\ <<r, d>> \in Seq(S \cup {r, d})
    BY <2>1
  <2>3. Head(calls) = r
    BY <1>4, <2>2
  <2> QED
    BY <1>1, <1>4, <2>3
<1> QED
  BY <1>2, <1>3, <1>4 DEF Inv, Room

LEMMA CreateStep == ASSUME Inv, CreateItem PROVE Inv'
<1> DEFINE c == Head(calls)
<1>1. /\ calls # <<>> /\ c.call = "create" /\ Continue(<<>>)
      /\ Item(c.kind) \ DOMAIN items # {}
      /\ items' = WithItem(c.kind, c.quantity, c.to)
  BY DEF CreateItem, Running
<1>2. Rows' /\ WellPlaced'
  BY <1>1, CreateHasRoom, RowAdded DEF Inv
<1> QED
  BY <1>1, <1>2, ContinueRoom, NoCreateEmpty DEF Inv

LEMMA AddStep == ASSUME Inv, AddItemToInventory PROVE Inv'
<1> DEFINE c == Head(calls)
<1>1. calls # <<>> /\ c.call # "remove" /\ Continue(<<>>)
  BY DEF AddItemToInventory, Running
<1>2. Rows' /\ WellPlaced'
  <2>1. ASSUME NEW b, items' = [items EXCEPT ![b].quantity = @ + 1]
        PROVE  Rows' /\ WellPlaced'
    <3>1. \E n : items' = [items EXCEPT ![b].quantity = n]
      BY <2>1
    <3> QED
      BY <3>1, QuantityWritten, FewerRows DEF Inv
  <2>2. ASSUME Batches(c.kind, "bag") = {}, Item(c.kind) \ DOMAIN items # {},
               items' = WithItem(c.kind, 1, "bag")
        PROVE  Rows' /\ WellPlaced'
    <3>1. Free(c.kind, "bag")
      BY <2>2 DEF Free
    <3> QED
      BY <2>2, <3>1, RowAdded DEF Inv
  <2> QED
    BY <2>1, <2>2 DEF AddItemToInventory
<1> QED
  BY <1>1, <1>2, ContinueRoom, NoCreateEmpty DEF Inv

LEMMA MoveStep == ASSUME Inv, Joins \/ Clears PROVE Inv'
<1>1. calls # <<>> /\ Head(calls).call = "move" /\ UNCHANGED items
  BY DEF Joins, Clears, Running
<1>2. \E next : NoCreate(next) /\ Continue(next)
  <2>1. CASE Joins
    BY <2>1, NoCreateTwo DEF Joins, Remove, Update
  <2>2. CASE Clears
    BY <1>1, <2>2, NoCreateTwo DEF Clears, unEquip, Move
  <2> QED
    BY <2>1, <2>2
<1> QED
  BY <1>1, <1>2, Pushed

LEMMA PlaceStep == ASSUME Inv, Places PROVE Inv'
<1> DEFINE c == Head(calls)
           item == items[c.item]
<1>1. calls # <<>> /\ c.call = "move" /\ Free(item.kind, c.to)
  BY DEF Places, Running, Free
<1>2. CASE c.quantity = item.quantity
  <2>1. items' = [items EXCEPT ![c.item].position = c.to] /\ Continue(<<>>)
    BY <1>2 DEF Places
  <2>2. Rows' /\ WellPlaced'
    <3>1. CASE c.item \in DOMAIN items
      BY <1>1, <2>1, <3>1, RowMoved DEF Inv
    <3>2. CASE c.item \notin DOMAIN items
      <4>1. items' = items
        BY <2>1, <3>2 DEF Inv, Rows
      <4> QED
        BY <4>1, SameRows DEF Inv
    <3> QED
      BY <3>1, <3>2
  <2> QED
    BY <1>1, <2>1, <2>2, ContinueRoom, NoCreateEmpty DEF Inv
<1>3. CASE c.quantity # item.quantity
  <2>1. PICK r, d : /\ calls' = <<r, d>> \o Tail(calls) /\ UNCHANGED items
                    /\ r.call = "remove" /\ d.call = "create"
                    /\ d.kind = item.kind /\ d.to = c.to
    <3>1. /\ Continue(<<Remove(c.item, c.quantity, FALSE),
                        Create(item.kind, c.quantity, c.to)>>)
          /\ UNCHANGED items
      BY <1>3 DEF Places
    <3>2. Remove(c.item, c.quantity, FALSE).call = "remove"
      BY DEF Remove
    <3>3. LET d == Create(item.kind, c.quantity, c.to)
          IN  d.call = "create" /\ d.kind = item.kind /\ d.to = c.to
      BY DEF Create
    <3> QED
      BY <3>1, <3>2, <3>3 DEF Continue
  <2>2. NoCreate(Tail(calls))
    BY <1>1, TailNoCreate DEF Inv
  <2>3. Free(d.kind, d.to)
    BY <1>1, <2>1
  <2>4. Free(d.kind, d.to)'
    BY <2>1, <2>3 DEF Free, Batches, At
  <2>5. \E x, y, s : /\ calls' = <<x, y>> \o s /\ NoCreate(s)
                     /\ x.call = "remove"
                     /\ y.call = "create" /\ Free(y.kind, y.to)'
    BY <2>1, <2>2, <2>4
  <2>6. Room'
    BY <2>5 DEF Room, NoCreate
  <2> QED
    BY <2>1, <2>6, SameRows DEF Inv
<1> QED
  BY <1>2, <1>3

LEMMA EquipStep ==
  ASSUME Inv, EquipNotAllowed \/ EquipRefused \/ Equips PROVE Inv'
<1>1. calls # <<>> /\ Head(calls).call = "put on" /\ UNCHANGED items
  BY DEF EquipNotAllowed, EquipRefused, Equips, Running
<1>2. CASE EquipNotAllowed
  <2>1. NoCreate(calls)'
    BY <1>2, NoCreateEmpty DEF EquipNotAllowed, NoCreate
  <2> QED
    BY <1>1, <2>1, SameRows DEF Inv, Room
<1>3. CASE EquipRefused
  BY <1>1, <1>3, Pushed, NoCreateEmpty DEF EquipRefused
<1>4. CASE Equips
  <2> DEFINE k == items[Head(calls).item].kind
             dismount == IF Head(calls).to = "pet" /\ riding
                         THEN <<MountOrDismount(FALSE)>> ELSE <<>>
             move == <<Move(Head(calls).item, 1, Head(calls).to)>>
             off == TakeOff(InTheWay(k, Head(calls).to))
  <2>1. Continue(off \o dismount \o move)
    BY <1>4 DEF Equips
  <2>2. NoCreate(off)
    BY TakeOffNoCreate
  <2>3. NoCreate(dismount) /\ NoCreate(move)
    BY NoCreateEmpty, NoCreateOne DEF MountOrDismount, Move
  <2> HIDE DEF off, dismount, move
  <2>4. NoCreate(off \o dismount \o move)
    BY <2>2, <2>3, NoCreateJoin
  <2> QED
    BY <1>1, <2>1, <2>4, Pushed
<1> QED
  BY <1>2, <1>3, <1>4

LEMMA RideStep == ASSUME Inv, MountRefused \/ Mounts \/ Rides PROVE Inv'
<1>1. /\ calls # <<>> /\ Head(calls).call # "remove" /\ UNCHANGED items
  BY DEF MountRefused, Mounts, Rides, Running
<1>2. CASE MountRefused
  BY <1>1, <1>2, Pushed, NoCreateEmpty DEF MountRefused
<1>3. CASE Mounts
  <2> DEFINE off == TakeOff(IF Head(calls).mount THEN At("pet") ELSE {})
             ride == <<Ride(Head(calls).mount)>>
  <2>1. Continue(off \o ride)
    BY <1>3 DEF Mounts
  <2>2. NoCreate(off) /\ NoCreate(ride)
    BY TakeOffNoCreate, NoCreateOne DEF Ride
  <2> HIDE DEF off, ride
  <2> QED
    BY <1>1, <2>1, <2>2, NoCreateJoin, Pushed
<1>4. CASE Rides
  BY <1>1, <1>4, Pushed, NoCreateOne DEF Rides, CheckConditions, Check
<1> QED
  BY <1>2, <1>3, <1>4

LEMMA CheckStep == ASSUME Inv, Unwears \/ Checks \/ Earns PROVE Inv'
<1>1. /\ calls # <<>> /\ Head(calls).call # "remove" /\ UNCHANGED items
  BY DEF Unwears, Checks, Earns, Running
<1>2. CASE Unwears
  BY <1>1, <1>2, Pushed, NoCreateTwo
     DEF Unwears, MountOrDismount, Check, unEquip, Move
<1>3. CASE Checks
  BY <1>1, <1>3, Pushed, NoCreateEmpty, NoCreateOne
     DEF Checks, CheckConditions, Check
<1>4. CASE Earns
  BY <1>1, <1>4, Pushed, NoCreateEmpty DEF Earns
<1> QED
  BY <1>2, <1>3, <1>4

\* What a handler begins with creates no row.
LEMMA Begun ==
  ASSUME Inv, UNCHANGED items, NoCreate(calls') PROVE Inv'
<1>1. NoCreate(calls)'
  BY DEF NoCreate
<1> QED
  BY <1>1, SameRows DEF Inv, Room

LEMMA ItemHandlers ==
  ASSUME Inv,
         \E i \in DOMAIN items :
            \/ EatCandy(i)
            \/ \E n \in 1..items[i].quantity :
                  \/ ItemsDestroy(i, n)
                  \/ \E p \in Position : ItemsRequestMovement(i, n, p)
  PROVE  Inv'
<1>1. NoCreate(<<CheckConditions>>)
  BY NoCreateOne DEF CheckConditions, Check
<1>2. ASSUME NEW i, NEW p PROVE NoCreate(Equip(i, p) \o <<CheckConditions>>)
  <2> DEFINE off == TakeOff(At(p))
             put == <<PutOn(i, p, At(p) # {})>>
  <2>1. NoCreate(off) /\ NoCreate(put)
    BY TakeOffNoCreate, NoCreateOne DEF PutOn
  <2>2. Equip(i, p) = off \o put
    BY DEF Equip
  <2> HIDE DEF off, put
  <2> QED
    BY <1>1, <2>1, <2>2, NoCreateJoin
<1>3. ASSUME NEW i, EatCandy(i) PROVE Inv'
  BY <1>2, <1>3, Begun DEF EatCandy, Handles
<1>4. ASSUME NEW i, NEW n, ItemsDestroy(i, n) PROVE Inv'
  <2> DEFINE first == <<Remove(i, n, TRUE), Earn(n)>>
             then == IF items[i].position \in EquipPosition
                     THEN <<CheckConditions>> ELSE <<>>
  <2>1. calls' = first \o then /\ UNCHANGED items
    BY <1>4 DEF ItemsDestroy, Handles
  <2>2. NoCreate(first) /\ NoCreate(then)
    BY <1>1, NoCreateTwo, NoCreateEmpty DEF Remove, Earn
  <2> HIDE DEF first, then
  <2> QED
    BY <2>1, <2>2, NoCreateJoin, Begun
<1>5. ASSUME NEW i, NEW n, NEW p, ItemsRequestMovement(i, n, p) PROVE Inv'
  <2>1. NoCreate(<<Move(i, n, p)>>)
    BY NoCreateOne DEF Move
  <2>2. NoCreate(<<unEquip(i), CheckConditions>>)
    BY NoCreateTwo DEF unEquip, Move, CheckConditions, Check
  <2> QED
    BY <1>2, <1>5, <2>1, <2>2, Begun DEF ItemsRequestMovement, Handles
<1> QED
  BY <1>3, <1>4, <1>5

LEMMA OtherHandlers ==
  ASSUME Inv,
         \/ \E mount \in BOOLEAN : RideOrWalk(mount)
         \/ OpenMarket \/ LeaveMarket
         \/ \E k \in Kind : BigStoreBuy(k)
         \/ \E lv \in Level : SetLevel(lv)
         \/ HandlerFails
  PROVE  Inv'
<1>1. ASSUME NEW mount, RideOrWalk(mount) PROVE Inv'
  BY <1>1, Begun, NoCreateOne DEF RideOrWalk, Handles, MountOrDismount
<1>2. CASE OpenMarket \/ LeaveMarket
  BY <1>2, Begun, NoCreateEmpty DEF OpenMarket, LeaveMarket, Idle
<1>3. ASSUME NEW k, BigStoreBuy(k) PROVE Inv'
  BY <1>3, Begun, NoCreateOne DEF BigStoreBuy, Add
<1>4. ASSUME NEW lv, SetLevel(lv) PROVE Inv'
  BY <1>4, Begun, NoCreateOne DEF SetLevel, CheckConditions, Check
<1>5. CASE HandlerFails
  BY <1>5, Begun, NoCreateEmpty DEF HandlerFails
<1> QED
  BY <1>1, <1>2, <1>3, <1>4, <1>5

LEMMA InitInv == Init => Inv
<1> SUFFICES ASSUME Init PROVE Inv
  OBVIOUS
<1>1. items = <<>> /\ calls = <<>>
  BY DEF Init
<1>2. DOMAIN items = {} /\ items = [i \in {} |-> items[i]]
  BY <1>1
<1> QED
  BY <1>1, <1>2, NoCreateEmpty
     DEF Inv, Rows, WellPlaced, OnePerPosition, StacksMerged, At, Room

LEMMA InvStep == Inv /\ [Next]_vars => Inv'
<1> SUFFICES ASSUME Inv, [Next]_vars PROVE Inv'
  OBVIOUS
<1>1. CASE UNCHANGED vars
  <2>1. UNCHANGED items /\ UNCHANGED calls
    BY <1>1 DEF vars
  <2>2. \A k, p : Free(k, p) => Free(k, p)'
    BY <2>1 DEF Free, Batches, At
  <2>3. Room'
    <3>1. CASE NoCreate(calls)
      BY <2>1, <3>1 DEF Room, NoCreate
    <3>2. CASE \E c, s : /\ calls = <<c>> \o s /\ NoCreate(s)
                         /\ c.call = "create" /\ Free(c.kind, c.to)
      BY <2>1, <2>2, <3>2 DEF Room, NoCreate
    <3>3. CASE \E r, c, s : /\ calls = <<r, c>> \o s /\ NoCreate(s)
                            /\ r.call = "remove"
                            /\ c.call = "create" /\ Free(c.kind, c.to)
      BY <2>1, <2>2, <3>3 DEF Room, NoCreate
    <3> QED
      BY <3>1, <3>2, <3>3 DEF Inv, Room
  <2> QED
    BY <2>1, <2>3, SameRows DEF Inv
<1>2. CASE Step
  BY <1>2, RemoveStep, UpdateStep, CreateStep, AddStep, MoveStep, PlaceStep,
     EquipStep, RideStep, CheckStep DEF Step
<1>3. CASE Handler \/ HandlerFails
  BY <1>3, ItemHandlers, OtherHandlers DEF Handler
<1> QED
  BY <1>1, <1>2, <1>3 DEF Next

\* The inductive invariant: rows, where they are, and what is still to be made.
THEOREM Inductive == Spec => []Inv
BY InitInv, InvStep, PTL DEF Spec

\* Through every nesting of moves, and whatever fails between two writes, a
\* position is held by one row, and the bag has one stack of a kind.
THEOREM AlwaysWellPlaced == Spec => []WellPlaced
<1>1. Inv => WellPlaced
  BY DEF Inv
<1> QED
  BY <1>1, Inductive, PTL

-----------------------------------------------------------------------------
(* What the calls on the stack rely on *)

\* The running handler ends with a check of the conditions, or rides and then
\* checks.
Checked == calls # <<>> /\ calls[Len(calls)].call \in {"check", "ride"}

\* Everything worn meets its conditions, or a handler was cut short.
Settled ==
    unchecked \/ \A p \in WornPosition \cup {"dragoturkey"} : ~Failing(p)

\* The item the innermost call takes away, to the bag or out of its row.
Leaving ==
    IF /\ calls # <<>>
       /\ \/ Head(calls).call = "move" /\ Head(calls).to = "bag"
          \/ Head(calls).call = "remove"
    THEN {Head(calls).item} ELSE {}

\* n units of a kind may come to a position.
Fit(k, n, p) ==
    /\ p \in WornPosition =>
          /\ n = 1 /\ p \in Template[k].Fits
          /\ At(p) = {} /\ ~AlreadyEquipped(k) /\ Checked
    /\ p \in QuickPosition => Template[k].CanUse

Movable(c) ==
    /\ c.item \in DOMAIN items
    /\ c.quantity \in 1..items[c.item].quantity
    /\ c.to \in Position
    /\ items[c.item].position # c.to
    /\ items[c.item].position \in WornPosition => Checked
    /\ Fit(items[c.item].kind, c.quantity, c.to)

Creatable(c) ==
    /\ c.kind \in Kind
    /\ c.quantity \in Nat \ {0}
    /\ c.to \in Position
    /\ Fit(c.kind, c.quantity, c.to)
    /\ InTheWay(c.kind, c.to) = {}
    /\ c.to = "pet" => ~riding

\* A round of checkConditions begins at its first position.
Round(c) ==
    /\ c.changed \in BOOLEAN /\ c.from \in Nat \ {0}
    /\ ~c.changed => c.from = 1

\* What a call finds when it runs.
Runs(c) ==
    /\ c.call \in {"move", "remove", "update", "create", "put on", "mount",
                   "ride", "check", "earn", "add"}
    /\ c.call = "remove" =>
          /\ c.item \in DOMAIN items
          /\ c.quantity \in 1..items[c.item].quantity
          /\ items[c.item].position \in WornPosition => Checked
          /\ c.wanted \in BOOLEAN
          /\ ~c.wanted =>
                Len(calls) > 1 /\ calls[2].call \in {"update", "create"}
    /\ c.call = "update" =>
          /\ c.item \in DOMAIN items
          /\ c.quantity \in Nat /\ c.quantity > items[c.item].quantity
          /\ items[c.item].position \notin WornPosition
    /\ c.call = "create" => Creatable(c)
    /\ c.call = "add" => c.kind \in Kind
    /\ c.call = "put on" =>
          /\ c.item \in DOMAIN items
          /\ c.to \in WornPosition /\ At(c.to) = {}
          /\ Checked
          /\ c.freed \in BOOLEAN
          /\ c.freed \/ Settled
    /\ c.call = "move" =>
          /\ Movable(c)
          /\ InTheWay(items[c.item].kind, c.to) = {}
          /\ c.to = "pet" => ~riding
    /\ c.call = "mount" => c.mount \in BOOLEAN
    /\ c.call = "ride" => c.mount \in BOOLEAN /\ (c.mount => At("pet") = {})
    /\ c.call = "check" => Round(c)
    /\ c.call = "earn" => c.quantity \in Nat

\* The same of a call that waits for the calls above it, which may still have
\* to take an item away or to make the character walk.
Waits(c) ==
    /\ c.call \in {"check", "earn", "put on", "ride", "move"}
    /\ c.call = "check" => Round(c)
    /\ c.call = "earn" => c.quantity \in Nat
    /\ c.call = "put on" =>
          /\ c.item \in DOMAIN items \ Leaving
          /\ c.to \in WornPosition /\ At(c.to) \subseteq Leaving
          /\ Checked
          /\ c.freed = TRUE
    /\ c.call = "ride" => c.mount = TRUE /\ At("pet") \subseteq Leaving
    /\ c.call = "move" =>
          /\ c.item \notin Leaving
          /\ c.to # "bag"
          /\ Movable(c)
          /\ InTheWay(items[c.item].kind, c.to) \subseteq Leaving
          /\ c.to = "pet" /\ riding =>
                Head(calls).call \in {"mount", "ride"} /\ ~Head(calls).mount

\* A call that writes what the removal above it leaves without a row.
Writes(c) == c.call \in {"update", "create"}
Owed(r, c) ==
    /\ r.call = "remove" /\ ~r.wanted
    /\ c.call = "update" =>
          /\ c.item \in DOMAIN items \ {r.item}
          /\ c.quantity = items[c.item].quantity + r.quantity
          /\ items[c.item].kind = items[r.item].kind
          /\ items[c.item].position \notin WornPosition
    /\ c.call = "create" =>
          /\ Creatable(c)
          /\ c.kind = items[r.item].kind /\ c.quantity = r.quantity

\* A call after which nothing but checks is left to do.
Final(c) ==
    \/ c.call = "put on"
    \/ c.call \in {"move", "create"} /\ c.to # "bag"
    \/ c.call \in {"mount", "ride"} /\ c.mount

\* What may wait under a call: under a check, or under the call that makes the
\* character walk, only another check or the pet it walks with.
Above(c, d) ==
    /\ Final(c) => d.call = "check"
    /\ c.call \in {"check", "mount", "ride"} =>
          d.call = "check" \/ (d.call = "move" /\ d.to = "pet")

Innermost == IF calls = <<>> THEN {} ELSE {Head(calls)}
Waiting == {calls[m] : m \in 2..Len(calls)}

Stack ==
    /\ \E S : calls \in Seq(S)
    /\ \A c \in Innermost : Runs(c)
    /\ \A c \in Waiting : ~Writes(c) => Waits(c)
    /\ \A r \in Innermost, c \in Waiting : Writes(c) => Owed(r, c)
    /\ \A m \in 3..Len(calls) : ~Writes(calls[m])
    /\ \A m, n \in 1..Len(calls) : m < n => Above(calls[m], calls[n])

-----------------------------------------------------------------------------
(* The stack *)

\* The stack after a call has gone on with others.
LEMMA Continued ==
  ASSUME NEW next, \E S : calls \in Seq(S), \E T : next \in Seq(T),
         calls # <<>>, Continue(next)
  PROVE  /\ \E U : calls' \in Seq(U)
         /\ Len(calls) \in Nat \ {0} /\ Len(next) \in Nat
         /\ Len(calls') = Len(next) + Len(calls) - 1
         /\ \A m \in 1..Len(next) : calls'[m] = next[m]
         /\ \A m \in Len(next) + 1 .. Len(calls') :
               calls'[m] = calls[m - Len(next) + 1]
<1>1. PICK S : calls \in Seq(S)
  OBVIOUS
<1>2. PICK T : next \in Seq(T)
  OBVIOUS
<1> DEFINE U == S \cup T
           rest == Tail(calls)
<1>3. calls \in Seq(U) /\ next \in Seq(U)
  BY <1>1, <1>2
<1>4. /\ Len(calls) \in Nat \ {0} /\ Len(next) \in Nat
      /\ rest \in Seq(U) /\ Len(rest) = Len(calls) - 1
      /\ \A m \in 1..Len(rest) : rest[m] = calls[m + 1]
  BY <1>3
<1>5. calls' = next \o rest
  BY DEF Continue
<1> HIDE DEF U, rest
<1>6. /\ calls' \in Seq(U)
      /\ Len(calls') = Len(next) + Len(rest)
      /\ \A m \in 1..Len(calls') :
            calls'[m] = IF m <= Len(next) THEN next[m] ELSE rest[m - Len(next)]
  BY <1>3, <1>4, <1>5
<1>7. ASSUME NEW m \in Len(next) + 1 .. Len(calls')
      PROVE  calls'[m] = calls[m - Len(next) + 1]
  <2>1. m \in 1..Len(calls') /\ ~(m <= Len(next))
    BY <1>4, <1>6
  <2>2. m - Len(next) \in 1..Len(rest)
    BY <1>4, <1>6
  <2> QED
    BY <1>4, <1>6, <2>1, <2>2
<1> QED
  BY <1>4, <1>6, <1>7

\* A call that waits for nothing any more may run.
LEMMA Resumes ==
  ASSUME NEW c, calls' # <<>>, c = Head(calls)', Waits(c)'
  PROVE  Runs(c)'
<1>1. Leaving' = {}
  BY DEF Waits, Leaving
<1>2. CASE c.call = "move"
  BY <1>1, <1>2 DEF Waits, Runs
<1>3. CASE c.call # "move"
  BY <1>1, <1>3 DEF Waits, Runs
<1> QED
  BY <1>2, <1>3

\* A call returns, and nothing but what waited is left.
LEMMA Returned ==
  ASSUME Stack, calls # <<>>, Continue(<<>>)
  PROVE  /\ \E U : calls' \in Seq(U)
         /\ Len(calls) \in Nat \ {0}
         /\ Len(calls') = Len(calls) - 1
         /\ \A m \in 1..Len(calls') :
               /\ calls'[m] = calls[m + 1]
               /\ m + 1 \in 1..Len(calls) /\ m + 1 \in 2..Len(calls)
         /\ Innermost' \subseteq Waiting /\ Waiting' \subseteq Waiting
         /\ Leaving' = {}
<1>1. \E T : <<>> \in Seq(T)
  <2>1. <<>> \in Seq({})
    OBVIOUS
  <2> QED
    BY <2>1
<1>2. /\ \E U : calls' \in Seq(U)
      /\ Len(calls) \in Nat \ {0}
      /\ Len(calls') = Len(calls) - 1
      /\ \A m \in 1..Len(calls') : calls'[m] = calls[m + 1]
  <2> DEFINE none == <<>>
  <2>1. Len(none) = 0
    OBVIOUS
  <2> HIDE DEF none
  <2>2. \A m \in 1..Len(calls') : m \in Len(none) + 1 .. Len(calls')
    BY <2>1
  <2>3. /\ \E U : calls' \in Seq(U)
        /\ Len(calls) \in Nat \ {0}
        /\ Len(calls') = Len(none) + Len(calls) - 1
        /\ \A m \in Len(none) + 1 .. Len(calls') :
              calls'[m] = calls[m - Len(none) + 1]
    BY <1>1, Continued DEF Stack, none
  <2> QED
    BY <2>1, <2>2, <2>3
<1>3. \A m \in 1..Len(calls') : m + 1 \in 1..Len(calls) /\ m + 1 \in 2..Len(calls)
  BY <1>2
<1>4. Innermost' \subseteq Waiting /\ Waiting' \subseteq Waiting
  BY <1>2, <1>3 DEF Innermost, Waiting
<1>5. \A c \in Waiting : ~(c.call = "move" /\ c.to = "bag") /\ c.call # "remove"
  BY DEF Stack, Waits, Writes
<1>6. Leaving' = {}
  BY <1>4, <1>5 DEF Leaving, Innermost
<1> QED
  BY <1>2, <1>3, <1>4, <1>6

\* The call that a call returns to, if any, runs.
LEMMA Popped ==
  ASSUME Stack, calls # <<>>, Continue(<<>>),
         \A c \in Waiting : IF Writes(c) THEN Runs(c)' ELSE Waits(c)'
  PROVE  Stack'
<1>1. /\ \E U : calls' \in Seq(U)
      /\ Len(calls) \in Nat \ {0}
      /\ Len(calls') = Len(calls) - 1
      /\ \A m \in 1..Len(calls') :
            /\ calls'[m] = calls[m + 1]
            /\ m + 1 \in 1..Len(calls) /\ m + 1 \in 2..Len(calls)
      /\ Innermost' \subseteq Waiting /\ Waiting' \subseteq Waiting
  BY Returned
<1>2. /\ \A c \in Innermost' : c = Head(calls)' /\ calls' # <<>>
      /\ \A m \in 2..Len(calls') : ~Writes(calls'[m])
  BY <1>1 DEF Stack, Innermost, Writes
<1>3. \A c \in Waiting' : ~Writes(c)
  BY <1>2 DEF Waiting, Writes
<1>4. \A c \in Innermost' : Runs(c)'
  BY <1>1, <1>2, Resumes
<1>5. \A c \in Waiting' : Waits(c)'
  BY <1>1, <1>3
<1>6. \A m, n \in 1..Len(calls') : m < n => Above(calls'[m], calls'[n])
  <2> SUFFICES ASSUME NEW m \in 1..Len(calls'), NEW n \in 1..Len(calls'),
                      m < n
               PROVE  Above(calls'[m], calls'[n])
    OBVIOUS
  <2>1. m + 1 < n + 1
    BY <1>1
  <2> QED
    BY <1>1, <2>1 DEF Stack
<1>7. \A m \in 3..Len(calls') : ~Writes(calls'[m])
  BY <1>1, <1>2
<1> QED
  BY <1>1, <1>3, <1>4, <1>5, <1>6, <1>7 DEF Stack, Above, Final, Writes

\* A call goes on with another one, above what waits already.
LEMMA PushedOne ==
  ASSUME Stack, calls # <<>>, NEW a, Continue(<<a>>), Runs(a)',
         \A c \in Waiting : ~Writes(c) /\ Waits(c)' /\ Above(a, c)
  PROVE  Stack'
<1> DEFINE next == <<a>>
<1>1. \E T : next \in Seq(T)
  <2>1. next \in Seq({a})
    OBVIOUS
  <2> QED
    BY <2>1
<1>2. Len(next) = 1 /\ next[1] = a
  OBVIOUS
<1> HIDE DEF next
<1>3. /\ \E U : calls' \in Seq(U)
      /\ Len(calls) \in Nat \ {0} /\ Len(calls') = Len(calls)
      /\ calls'[1] = a
      /\ \A m \in 2..Len(calls') : calls'[m] = calls[m]
  <2>1. /\ \E U : calls' \in Seq(U)
        /\ Len(calls) \in Nat \ {0}
        /\ Len(calls') = Len(next) + Len(calls) - 1
        /\ \A m \in 1..Len(next) : calls'[m] = next[m]
        /\ \A m \in Len(next) + 1 .. Len(calls') :
              calls'[m] = calls[m - Len(next) + 1]
    BY <1>1, Continued DEF Stack, next
  <2> QED
    BY <1>2, <2>1
<1>4. Innermost' = {a} /\ Waiting' = Waiting
  BY <1>3 DEF Innermost, Waiting
<1>5. \A m \in 2..Len(calls') : calls'[m] \in Waiting
  BY <1>3 DEF Waiting
<1>6. ASSUME NEW m \in 1..Len(calls'), NEW n \in 1..Len(calls'), m < n
      PROVE  Above(calls'[m], calls'[n])
  <2>1. CASE m = 1
    BY <1>3, <1>5, <1>6, <2>1
  <2>2. CASE m # 1
    BY <1>3, <1>6, <2>2 DEF Stack
  <2> QED
    BY <2>1, <2>2
<1>7. \A m, n \in 1..Len(calls') : m < n => Above(calls'[m], calls'[n])
  BY <1>6
<1>8. \A m \in 3..Len(calls') : ~Writes(calls'[m])
  BY <1>3, <1>5
<1>9. \A c \in Waiting' : ~Writes(c) /\ Waits(c)'
  BY <1>4
<1> QED
  BY <1>3, <1>4, <1>7, <1>8, <1>9 DEF Stack, Above, Final, Writes

\* A call goes on with two others.
LEMMA PushedTwo ==
  ASSUME Stack, calls # <<>>, NEW a, NEW b, Continue(<<a, b>>),
         Runs(a)', IF Writes(b) THEN Owed(a, b)' ELSE Waits(b)', Above(a, b),
         \A c \in Waiting :
             ~Writes(c) /\ Waits(c)' /\ Above(a, c) /\ Above(b, c)
  PROVE  Stack'
<1> DEFINE next == <<a, b>>
<1>1. \E T : next \in Seq(T)
  <2>1. next \in Seq({a, b})
    OBVIOUS
  <2> QED
    BY <2>1
<1>2. Len(next) = 2 /\ next[1] = a /\ next[2] = b
  OBVIOUS
<1> HIDE DEF next
<1>3. /\ \E U : calls' \in Seq(U)
      /\ Len(calls) \in Nat \ {0} /\ Len(calls') = Len(calls) + 1
      /\ calls'[1] = a /\ calls'[2] = b
      /\ \A m \in 3..Len(calls') : calls'[m] = calls[m - 1]
  <2>1. /\ \E U : calls' \in Seq(U)
        /\ Len(calls) \in Nat \ {0}
        /\ Len(calls') = Len(next) + Len(calls) - 1
        /\ \A m \in 1..Len(next) : calls'[m] = next[m]
        /\ \A m \in Len(next) + 1 .. Len(calls') :
              calls'[m] = calls[m - Len(next) + 1]
    BY <1>1, Continued DEF Stack, next
  <2> QED
    BY <1>2, <2>1
<1>4. \A m \in 3..Len(calls') : calls'[m] \in Waiting
  <2>1. \A m \in 3..Len(calls') : m - 1 \in 2..Len(calls)
    BY <1>3
  <2> QED
    BY <1>3, <2>1 DEF Waiting
<1>5. Innermost' = {a} /\ Waiting' \subseteq Waiting \cup {b}
  <2>1. \A m \in 2..Len(calls') : m = 2 \/ m \in 3..Len(calls')
    BY <1>3
  <2> QED
    BY <1>3, <1>4, <2>1 DEF Innermost, Waiting
<1>6. ASSUME NEW m \in 1..Len(calls'), NEW n \in 1..Len(calls'), m < n
      PROVE  Above(calls'[m], calls'[n])
  <2>1. CASE m = 1 \/ m = 2
    <3>1. n = 2 \/ n \in 3..Len(calls')
      BY <1>3, <1>6
    <3> QED
      BY <1>3, <1>4, <1>6, <2>1, <3>1
  <2>2. CASE ~(m = 1 \/ m = 2)
    <3>1. /\ m \in 3..Len(calls') /\ n \in 3..Len(calls')
          /\ m - 1 \in 1..Len(calls) /\ n - 1 \in 1..Len(calls)
          /\ m - 1 < n - 1
      BY <1>3, <1>6, <2>2
    <3> QED
      BY <1>3, <3>1 DEF Stack
  <2> QED
    BY <2>1, <2>2
<1>7. \A m, n \in 1..Len(calls') : m < n => Above(calls'[m], calls'[n])
  BY <1>6
<1>8. \A m \in 3..Len(calls') : ~Writes(calls'[m])
  BY <1>4
<1>9. \A c \in Waiting' : ~Writes(c) => Waits(c)'
  BY <1>5
<1>10. \A r \in Innermost', c \in Waiting' : Writes(c) => Owed(r, c)'
  BY <1>5
<1> QED
  BY <1>3, <1>5, <1>7, <1>8, <1>9, <1>10 DEF Stack, Above, Final, Writes

\* What is last on the stack stays last.
LEMMA LastStays ==
  ASSUME Stack, calls # <<>>, NEW next, \E T : next \in Seq(T),
         Continue(next), Waiting # {}
  PROVE  Checked' <=> Checked
<1>1. /\ \E U : calls' \in Seq(U)
      /\ Len(calls) \in Nat \ {0} /\ Len(next) \in Nat
      /\ Len(calls') = Len(next) + Len(calls) - 1
      /\ \A m \in Len(next) + 1 .. Len(calls') :
            calls'[m] = calls[m - Len(next) + 1]
  BY Continued DEF Stack
<1>2. Len(calls) > 1
  BY <1>1 DEF Waiting
<1>3. /\ Len(calls') \in Len(next) + 1 .. Len(calls')
      /\ Len(calls') - Len(next) + 1 = Len(calls)
  BY <1>1, <1>2
<1>4. calls'[Len(calls')] = calls[Len(calls)]
  BY <1>1, <1>3
<1>5. calls' # <<>>
  BY <1>1, <1>2
<1> QED
  BY <1>4, <1>5 DEF Checked

\* A check waits under whatever else runs.
LEMMA CheckWaits ==
  ASSUME Stack, Checked, Head(calls).call \notin {"check", "ride"}
  PROVE  Waiting # {}
<1>1. PICK S : calls \in Seq(S)
  BY DEF Stack
<1>2. Len(calls) \in Nat \ {0} /\ Head(calls) = calls[1]
  BY <1>1 DEF Checked
<1>3. Len(calls) # 1
  BY <1>2 DEF Checked
<1>4. \A n \in Nat \ {0} : n # 1 => n \in 2..n
  OBVIOUS
<1>5. Len(calls) \in 2..Len(calls)
  BY <1>2, <1>3, <1>4
<1> QED
  BY <1>5 DEF Waiting

LEMMA StaysChecked ==
  ASSUME Stack, calls # <<>>, NEW next, \E T : next \in Seq(T),
         Continue(next), Head(calls).call \notin {"check", "ride"}, Checked
  PROVE  Checked'
BY CheckWaits, LastStays

\* Nothing comes to a position that is worn, and no row changes its kind.
OnlyLess ==
    /\ \A p \in WornPosition : At(p)' \subseteq At(p)
    /\ \A i \in DOMAIN items \cap DOMAIN items' :
          items'[i].kind = items[i].kind

LEMMA LessWorn ==
  ASSUME OnlyLess, NEW k, NEW p
  PROVE  /\ AlreadyEquipped(k)' => AlreadyEquipped(k)
         /\ InTheWay(k, p)' \subseteq InTheWay(k, p)
         /\ \A q \in WornPosition :
                InTheWay(k, p)' \cap At(q)' \subseteq At(q)
<1>1. \A i \in DOMAIN items' :
         items'[i].position \in WornPosition =>
            /\ i \in DOMAIN items
            /\ items'[i].position = items[i].position
            /\ items'[i].kind = items[i].kind
  BY DEF OnlyLess, At
<1>2. EquipPosition \subseteq WornPosition
  BY DEF WornPosition
<1>3. AlreadyEquipped(k)' => AlreadyEquipped(k)
  BY <1>1, <1>2 DEF AlreadyEquipped, EquippedTemplates
<1>4. "weapon" \in WornPosition /\ "shield" \in WornPosition
  BY <1>2, InventoryAssumption
<1>5. InTheWay(k, p)' \subseteq InTheWay(k, p)
  BY <1>1, <1>4 DEF InTheWay, At
<1> QED
  BY <1>3, <1>5 DEF OnlyLess

LEMMA StillFits ==
  ASSUME OnlyLess, Checked => Checked', NEW k, NEW n, NEW p, Fit(k, n, p)
  PROVE  Fit(k, n, p)'
BY LessWorn DEF OnlyLess, Fit

LEMMA StillCreatable ==
  ASSUME OnlyLess, Checked => Checked', UNCHANGED riding,
         NEW c, Creatable(c)
  PROVE  Creatable(c)'
BY LessWorn, StillFits DEF Creatable

LEMMA Wider == \A x, y \in Nat : y >= x => \A z \in 1..x : z \in 1..y
OBVIOUS

\* The rows that do not leave are still there, of the same kind and at the
\* same position, and have not lost a unit.
OthersStay ==
    \A i \in DOMAIN items \ Leaving :
        /\ i \in DOMAIN items'
        /\ items'[i].position = items[i].position
        /\ items[i].quantity \in Nat
        /\ items'[i].quantity \in Nat
        /\ items'[i].quantity >= items[i].quantity

\* A call goes on waiting while nothing comes to a worn position, while what
\* leaves its own leaves it or has left it, and while its item does not leave.
LEMMA StillWaits ==
  ASSUME OnlyLess, OthersStay, Checked => Checked',
         \A p \in WornPosition : At(p)' \cap Leaving \subseteq Leaving',
         NEW c, Waits(c),
         c.call \in {"put on", "move"} => c.item \notin Leaving',
         c.call = "move" /\ c.to = "pet" /\ riding' =>
            Head(calls').call \in {"mount", "ride"} /\ ~Head(calls').mount
  PROVE  Waits(c)'
<1>1. "pet" \in WornPosition
  BY InventoryAssumption DEF WornPosition
<1>2. CASE c.call \in {"check", "earn"}
  BY <1>2 DEF Waits, Round
<1>3. CASE c.call = "put on"
  BY <1>3 DEF Waits, OnlyLess, OthersStay
<1>4. CASE c.call = "ride"
  BY <1>1, <1>4 DEF Waits, OnlyLess
<1>5. CASE c.call = "move"
  <2> DEFINE k == items[c.item].kind
             gone == Leaving
  <2>1. /\ c.item \in DOMAIN items \ Leaving /\ c.item \notin Leaving'
        /\ c.to # "bag" /\ c.to \in Position
        /\ items[c.item].position # c.to
        /\ items[c.item].position \in WornPosition => Checked
        /\ c.quantity \in 1..items[c.item].quantity
    BY <1>5 DEF Waits, Movable
  <2>2. /\ c.item \in DOMAIN items'
        /\ items'[c.item].kind = items[c.item].kind
        /\ items'[c.item].position = items[c.item].position
        /\ c.quantity \in 1..items'[c.item].quantity
    <3>1. /\ c.item \in DOMAIN items'
          /\ items'[c.item].position = items[c.item].position
          /\ items[c.item].quantity \in Nat
          /\ items'[c.item].quantity \in Nat
          /\ items'[c.item].quantity >= items[c.item].quantity
      BY <2>1 DEF OthersStay
    <3>2. items'[c.item].kind = items[c.item].kind
      BY <2>1, <3>1 DEF OnlyLess
    <3>3. c.quantity \in 1..items'[c.item].quantity
      <4>1. PICK x \in Nat : x = items[c.item].quantity
        BY <3>1
      <4>2. PICK y \in Nat : y = items'[c.item].quantity
        BY <3>1
      <4>3. y >= x /\ c.quantity \in 1..x
        BY <2>1, <3>1, <4>1, <4>2
      <4>4. c.quantity \in 1..y
        BY <4>3, Wider
      <4> QED
        BY <4>2, <4>4
    <3> QED
      BY <3>1, <3>2, <3>3
  <2>3. Fit(k, c.quantity, c.to) /\ InTheWay(k, c.to) \subseteq Leaving
    BY <1>5 DEF Waits, Movable
  <2>4. PICK l : l = items[c.item].kind
    OBVIOUS
  <2>5. Fit(l, c.quantity, c.to)'
    BY <2>3, <2>4, StillFits
  <2>6. Movable(c)'
    BY <2>1, <2>2, <2>4, <2>5 DEF Movable
  <2>7. InTheWay(l, c.to)' \subseteq Leaving'
    <3>1. InTheWay(l, c.to)' \subseteq InTheWay(l, c.to)
      BY LessWorn
    <3>2. InTheWay(l, c.to)' \subseteq Leaving
      BY <2>3, <2>4, <3>1
    <3>3. \A i \in InTheWay(l, c.to)' :
             \E p \in {"weapon", "shield"} : i \in At(p)'
      BY DEF InTheWay
    <3>4. {"weapon", "shield"} \subseteq WornPosition
      BY InventoryAssumption DEF WornPosition
    <3> QED
      BY <3>2, <3>3, <3>4
  <2>8. InTheWay(items[c.item].kind, c.to)' \subseteq Leaving'
    BY <2>2, <2>4, <2>7
  <2> QED
    BY <1>5, <2>1, <2>6, <2>8 DEF Waits
<1> QED
  BY <1>2, <1>3, <1>4, <1>5 DEF Waits

-----------------------------------------------------------------------------
(* What is worn *)

\* The types, but for owned.
Typed ==
    /\ \A i \in DOMAIN items :
          /\ items[i].kind \in Kind
          /\ i \in Item(items[i].kind)
          /\ items[i].quantity \in Nat \ {0}
          /\ items[i].position \in Position
    /\ kamas \in Nat
    /\ level \in Level
    /\ riding \in BOOLEAN /\ market \in BOOLEAN /\ unchecked \in BOOLEAN

\* Of a template that is worn once, one item is worn.
OnceWorn ==
    \A i, j \in DOMAIN items :
        /\ items[i].position \in EquipPosition
        /\ items[j].position \in EquipPosition
        /\ Template[items[i].kind].Once /\ Template[items[j].kind].Once
        /\ Template[items[i].kind].Id = Template[items[j].kind].Id
        => i = j

QuickUse ==
    \A i \in DOMAIN items :
        items[i].position \in QuickPosition => Template[items[i].kind].CanUse

Worn == WornWell /\ OnceWorn /\ QuickUse

\* The rows, but perhaps for x, which is n units of k at p, are some of those
\* there were.
Changed(x, k, n, p) ==
    \A i \in DOMAIN items' :
        \/ /\ i \in DOMAIN items
           /\ items'[i].kind = items[i].kind
           /\ items'[i].position = items[i].position
           /\ items[i].position \in WornPosition =>
                 items'[i].quantity = items[i].quantity
        \/ /\ i = x
           /\ items'[i].kind = k
           /\ items'[i].quantity = n
           /\ items'[i].position = p

LEMMA StillWorn ==
  ASSUME Worn, UNCHANGED riding, NEW x, NEW k, NEW n, NEW p,
         Changed(x, k, n, p), Fit(k, n, p), InTheWay(k, p) = {},
         p = "pet" => ~riding
  PROVE  Worn'
<1> USE DEF Changed
<1>1. WornFits'
  BY DEF Worn, WornWell, WornFits, Fit
<1>2. Exclusive'
  <2>1. ASSUME NEW i \in At("weapon")', Template[items'[i].kind].TwoHands,
               NEW j \in At("shield")'
        PROVE  FALSE
    <3>1. /\ i \in DOMAIN items' /\ items'[i].position = "weapon"
          /\ j \in DOMAIN items' /\ items'[j].position = "shield"
      BY <2>1 DEF At
    <3>2. CASE i \in At("weapon") /\ items'[i].kind = items[i].kind
      <4>1. At("shield") = {}
        BY <2>1, <3>2 DEF Worn, WornWell, Exclusive
      <4>2. p = "shield" /\ items'[j].kind = k
        BY <3>1, <4>1 DEF At
      <4>3. i \in InTheWay(k, p)
        BY <2>1, <3>2, <4>2 DEF InTheWay
      <4> QED
        BY <4>3
    <3>3. CASE ~(i \in At("weapon") /\ items'[i].kind = items[i].kind)
      <4>1. p = "weapon" /\ items'[i].kind = k
        BY <3>1, <3>3 DEF At
      <4>2. InTheWay(k, p) = At("shield")
        BY <2>1, <4>1 DEF InTheWay
      <4>3. j \in At("shield")
        BY <3>1, <4>1 DEF At
      <4> QED
        BY <4>2, <4>3
    <3> QED
      BY <3>2, <3>3
  <2>2. riding' => At("pet")' = {}
    BY DEF Worn, WornWell, Exclusive, At
  <2> QED
    BY <2>1, <2>2 DEF Exclusive
<1>3. OnceWorn'
  <2>1. ASSUME NEW i \in DOMAIN items', items'[i].position \in EquipPosition,
               p \in EquipPosition, Template[k].Once,
               Template[items'[i].kind].Id = Template[k].Id
        PROVE  i = x
    <3>1. ~AlreadyEquipped(k)
      BY <2>1 DEF Fit, WornPosition
    <3> QED
      BY <2>1, <3>1 DEF AlreadyEquipped, EquippedTemplates
  <2> QED
    BY <2>1 DEF Worn, OnceWorn
<1>4. QuickUse'
  BY DEF Worn, QuickUse, Fit
<1> QED
  BY <1>1, <1>2, <1>3, <1>4 DEF Worn, WornWell

\* What is worn, and whoever wears it, are the same.
SameWorn ==
    /\ \A p \in WornPosition : At(p)' = At(p)
    /\ \A i \in DOMAIN items \cap DOMAIN items' :
          items'[i].kind = items[i].kind
    /\ UNCHANGED <<level, riding, unchecked>>

LEMMA StillSettled == ASSUME SameWorn, Settled PROVE Settled'
<1>1. ASSUME NEW p \in WornPosition, NEW i \in At(p)
      PROVE  /\ i \in DOMAIN items /\ i \in DOMAIN items'
             /\ items[i].position = p /\ items'[i].position = p
             /\ items'[i].kind = items[i].kind
  BY <1>1 DEF SameWorn, At
<1>2. /\ \A i \in DOMAIN items : items[i].position \in WornPosition =>
             i \in At(items[i].position)
      /\ \A i \in DOMAIN items' : items'[i].position \in WornPosition =>
             i \in At(items'[i].position)
  BY DEF SameWorn, At
<1>3. WornKinds' = WornKinds
  BY <1>1, <1>2 DEF WornKinds
<1>4. ASSUME NEW p \in WornPosition, NEW i \in At(p)
      PROVE  Passes(i)' <=> Passes(i)
  BY <1>1, <1>3, <1>4 DEF Passes, SameWorn
<1>5. ASSUME NEW p \in WornPosition \cup {"dragoturkey"}
      PROVE  Failing(p)' <=> Failing(p)
  <2>1. CASE p = "dragoturkey"
    BY <2>1 DEF Failing, SameWorn
  <2>2. CASE p # "dragoturkey"
    BY <1>4, <2>2 DEF Failing, SameWorn
  <2> QED
    BY <2>1, <2>2
<1> QED
  BY <1>5 DEF Settled, SameWorn

-----------------------------------------------------------------------------
(* The invariant, step by step *)

Good == Inv /\ Typed /\ Worn /\ Stack /\ (Settled \/ Checked)

LEMMA BagFits ==
  ASSUME NEW k, NEW n
  PROVE  Fit(k, n, "bag") /\ InTheWay(k, "bag") = {} /\ "bag" \in Position
BY InventoryAssumption DEF Fit, InTheWay, Position, WornPosition

\* Under a call that is the last but for checks, only checks wait.
LEMMA OnlyChecks ==
  ASSUME Stack, calls # <<>>, Final(Head(calls))
  PROVE  \A c \in Waiting : c.call = "check" /\ Waits(c)' /\ ~Writes(c)
<1>1. \A m \in 2..Len(calls) : Above(Head(calls), calls[m])
  <2>1. PICK S : calls \in Seq(S)
    BY DEF Stack
  <2>2. /\ Len(calls) \in Nat \ {0} /\ Head(calls) = calls[1]
        /\ \A m \in 2..Len(calls) : m \in 1..Len(calls) /\ 1 < m
        /\ 1 \in 1..Len(calls)
    BY <2>1
  <2> QED
    BY <2>2 DEF Stack
<1>2. \A c \in Waiting : c.call = "check"
  BY <1>1 DEF Waiting, Above
<1> QED
  BY <1>2 DEF Stack, Waits, Writes, Round

\* Under any call, what waits is in order.
LEMMA AllAbove ==
  ASSUME Stack, calls # <<>>
  PROVE  /\ \A c \in Waiting : Above(Head(calls), c)
         /\ Runs(Head(calls))
         /\ Head(calls).call # "remove" =>
               \A c \in Waiting : ~Writes(c) /\ Waits(c)
<1>1. \A m \in 2..Len(calls) : Above(Head(calls), calls[m])
  <2>1. PICK S : calls \in Seq(S)
    BY DEF Stack
  <2>2. /\ Len(calls) \in Nat \ {0} /\ Head(calls) = calls[1]
        /\ \A m \in 2..Len(calls) : m \in 1..Len(calls) /\ 1 < m
        /\ 1 \in 1..Len(calls)
    BY <2>1
  <2> QED
    BY <2>2 DEF Stack
<1>2. Head(calls) \in Innermost
  BY DEF Innermost
<1> QED
  BY <1>1, <1>2 DEF Stack, Waiting, Owed

\* A unit, a part of a row or the whole row is gone; a worn row goes whole.
LEMMA Removed ==
  ASSUME Good, RemoveItem, NEW c, c = Head(calls)
  PROVE  /\ DOMAIN items' \subseteq DOMAIN items
         /\ \A i \in DOMAIN items :
               i # c.item => i \in DOMAIN items' /\ items'[i] = items[i]
         /\ c.item \in DOMAIN items' =>
               /\ items'[c.item].kind = items[c.item].kind
               /\ items'[c.item].position = items[c.item].position
               /\ items'[c.item].quantity = items[c.item].quantity - c.quantity
               /\ c.quantity # items[c.item].quantity
               /\ items[c.item].position \notin WornPosition
<1>1. /\ calls # <<>> /\ c.call = "remove"
      /\ c.item \in DOMAIN items
      /\ c.quantity \in 1..items[c.item].quantity
  BY AllAbove DEF Good, RemoveItem, Running, Runs
<1>2. items[c.item].position \in WornPosition =>
         c.quantity = items[c.item].quantity
  BY <1>1 DEF Good, Worn, WornWell, WornFits
<1>3. CASE c.quantity = items[c.item].quantity
  <2>1. items' = [i \in DOMAIN items \ {c.item} |-> items[i]]
    BY <1>3 DEF RemoveItem
  <2> QED
    BY <2>1
<1>4. CASE c.quantity # items[c.item].quantity
  <2>1. items' = [items EXCEPT ![c.item].quantity =
                     items[c.item].quantity - c.quantity]
    BY <1>4 DEF RemoveItem
  <2>2. PICK n : n = items[c.item].quantity - c.quantity
    OBVIOUS
  <2>3. /\ DOMAIN items' = DOMAIN items
        /\ \A j \in DOMAIN items :
              /\ items'[j].kind = items[j].kind
              /\ items'[j].quantity =
                    IF j = c.item THEN n ELSE items[j].quantity
              /\ items'[j].position = items[j].position
    BY <2>1, <2>2, QuantityWritten DEF Good, Inv
  <2>4. ASSUME NEW i \in DOMAIN items, i # c.item PROVE items'[i] = items[i]
    BY <2>1, <2>4 DEF Good, Inv, Rows
  <2> QED
    BY <1>2, <1>4, <2>2, <2>3, <2>4
<1> QED
  BY <1>3, <1>4

LEMMA RemoveGood == ASSUME Good, Inv', RemoveItem PROVE Good'
<1>1. PICK c : c = Head(calls)
  OBVIOUS
<1>2. /\ calls # <<>> /\ c.call = "remove" /\ Continue(<<>>)
      /\ UNCHANGED <<kamas, level, riding, market, unchecked>>
  BY <1>1 DEF RemoveItem, Running
<1>3. /\ c.item \in DOMAIN items
      /\ c.quantity \in 1..items[c.item].quantity
      /\ items[c.item].position \in WornPosition => Checked
  BY <1>1, <1>2, AllAbove DEF Good, Runs
<1>4. /\ DOMAIN items' \subseteq DOMAIN items
      /\ \A i \in DOMAIN items :
            i # c.item => i \in DOMAIN items' /\ items'[i] = items[i]
      /\ c.item \in DOMAIN items' =>
            /\ items'[c.item].kind = items[c.item].kind
            /\ items'[c.item].position = items[c.item].position
            /\ items'[c.item].quantity = items[c.item].quantity - c.quantity
            /\ c.quantity # items[c.item].quantity
            /\ items[c.item].position \notin WornPosition
  BY <1>1, Removed
<1>5. OnlyLess
  BY <1>4 DEF OnlyLess, At
<1>6. Leaving = {c.item} /\ Leaving' = {}
  BY <1>1, <1>2, Returned DEF Leaving, Good
<1>7. \A p \in WornPosition : At(p)' = At(p) \ {c.item}
  BY <1>4 DEF At
<1>8. OthersStay
  BY <1>4, <1>6 DEF OthersStay, Good, Typed
<1>9. Checked => Checked'
  <2>1. \E T : <<>> \in Seq(T)
    <3>1. <<>> \in Seq({})
      OBVIOUS
    <3> QED
      BY <3>1
  <2> QED
    BY <1>1, <1>2, <2>1, StaysChecked DEF Good
<1>10. ASSUME NEW d \in Waiting, Writes(d) PROVE Runs(d)'
  <2>1. Owed(c, d)
    BY <1>1, <1>2, <1>10 DEF Good, Stack, Innermost
  <2>2. CASE d.call = "update"
    <3>1. /\ d.item \in DOMAIN items /\ d.item # c.item
          /\ d.quantity = items[d.item].quantity + c.quantity
          /\ items[d.item].position \notin WornPosition
      BY <2>1, <2>2 DEF Owed
    <3>2. items[d.item].quantity \in Nat /\ items[c.item].quantity \in Nat
      BY <1>3, <3>1 DEF Good, Typed
    <3>3. d.item \in DOMAIN items' /\ items'[d.item] = items[d.item]
      BY <1>4, <3>1
    <3>4. d.quantity \in Nat /\ d.quantity > items'[d.item].quantity
      BY <1>3, <3>1, <3>2, <3>3
    <3> QED
      BY <2>2, <3>1, <3>3, <3>4 DEF Runs
  <2>3. CASE d.call = "create"
    BY <1>2, <1>5, <1>9, <2>1, <2>3, StillCreatable DEF Owed, Runs
  <2> QED
    BY <1>10, <2>2, <2>3 DEF Writes
<1>11. ASSUME NEW d \in Waiting, ~Writes(d) PROVE Waits(d)'
  <2>1. Waits(d)
    BY <1>11 DEF Good, Stack
  <2>2. ~(d.call = "move" /\ d.to = "pet" /\ riding')
    BY <1>1, <1>2, <2>1 DEF Waits
  <2> QED
    BY <1>5, <1>6, <1>7, <1>8, <1>9, <2>1, <2>2, StillWaits
<1>12. Stack'
  BY <1>2, <1>10, <1>11, Popped DEF Good
<1>13. Typed'
  <2>1. ASSUME NEW i \in DOMAIN items'
        PROVE  items'[i].quantity \in Nat \ {0}
    <3>1. CASE i = c.item
      <4>1. items[i].quantity \in Nat \ {0}
        BY <1>4, <2>1 DEF Good, Typed
      <4> QED
        BY <1>3, <1>4, <2>1, <3>1, <4>1
    <3>2. CASE i # c.item
      BY <1>4, <2>1, <3>2 DEF Good, Typed
    <3> QED
      BY <3>1, <3>2
  <2>2. \A i \in DOMAIN items' :
           i \in DOMAIN items /\ items'[i].kind = items[i].kind
           /\ items'[i].position = items[i].position
    BY <1>4
  <2> QED
    BY <1>2, <2>1, <2>2 DEF Good, Typed
<1>14. Worn'
  <2>1. \A k, n, p : Changed(c.item, k, n, p)
    BY <1>4 DEF Changed
  <2> QED
    BY <1>2, <2>1, BagFits, StillWorn, InventoryAssumption DEF Good
<1>15. Settled' \/ Checked'
  <2>1. CASE items[c.item].position \in WornPosition
    BY <1>3, <1>9, <2>1
  <2>2. CASE items[c.item].position \notin WornPosition
    <3>1. SameWorn
      BY <1>2, <1>4, <1>7, <2>2 DEF SameWorn, At
    <3> QED
      BY <1>9, <3>1, StillSettled DEF Good
  <2> QED
    BY <2>1, <2>2
<1> QED
  BY <1>12, <1>13, <1>14, <1>15 DEF Good

\* The stack when a call returns that left what is worn alone.
LEMMA ReturnGood ==
  ASSUME Good, calls # <<>>, Continue(<<>>), OnlyLess, OthersStay,
         \A p \in WornPosition : At(p)' \cap Leaving = {},
         Head(calls).call \notin {"remove", "check", "ride"},
         UNCHANGED riding, Head(calls).call = "mount" => ~riding
  PROVE  Stack' /\ (Checked => Checked')
<1>1. Checked => Checked'
  <2>1. \E T : <<>> \in Seq(T)
    <3>1. <<>> \in Seq({})
      OBVIOUS
    <3> QED
      BY <3>1
  <2> QED
    BY <2>1, StaysChecked DEF Good
<1>2. Leaving' = {}
  BY Returned DEF Good
<1>3. ASSUME NEW d \in Waiting PROVE ~Writes(d) /\ Waits(d)'
  <2>1. Waits(d) /\ ~Writes(d)
    BY <1>3, AllAbove DEF Good
  <2>2. ~(d.call = "move" /\ d.to = "pet" /\ riding')
    BY <2>1 DEF Waits
  <2> QED
    BY <1>1, <1>2, <2>1, <2>2, StillWaits
<1> QED
  BY <1>1, <1>3, Popped DEF Good

LEMMA UpdateGood == ASSUME Good, Inv', UpdateItem PROVE Good'
<1>1. PICK c : c = Head(calls)
  OBVIOUS
<1>2. /\ calls # <<>> /\ c.call = "update" /\ Continue(<<>>)
      /\ items' = [items EXCEPT ![c.item].quantity = c.quantity]
      /\ UNCHANGED <<kamas, level, riding, market, unchecked>>
  BY <1>1 DEF UpdateItem, Running
<1>3. /\ c.item \in DOMAIN items
      /\ c.quantity \in Nat /\ c.quantity > items[c.item].quantity
      /\ items[c.item].position \notin WornPosition
  BY <1>1, <1>2, AllAbove DEF Good, Runs
<1>4. /\ DOMAIN items' = DOMAIN items
      /\ \A j \in DOMAIN items :
            /\ items'[j].kind = items[j].kind
            /\ items'[j].quantity =
                  IF j = c.item THEN c.quantity ELSE items[j].quantity
            /\ items'[j].position = items[j].position
  BY <1>2, QuantityWritten DEF Good, Inv
<1>5. /\ \A p : At(p)' = At(p)
      /\ OnlyLess
  BY <1>4 DEF OnlyLess, At
<1>6. \A j \in DOMAIN items :
         /\ items[j].quantity \in Nat \ {0}
         /\ items'[j].quantity \in Nat \ {0}
         /\ items'[j].quantity >= items[j].quantity
  BY <1>3, <1>4 DEF Good, Typed
<1>7. OthersStay
  BY <1>4, <1>6 DEF OthersStay
<1>8. Leaving = {}
  BY <1>1, <1>2 DEF Leaving
<1>9. Stack' /\ (Checked => Checked')
  BY <1>1, <1>2, <1>5, <1>7, <1>8, ReturnGood
<1>10. Typed'
  BY <1>2, <1>4, <1>6 DEF Good, Typed
<1>11. Worn'
  <2>1. \A k, n, p : Changed(c.item, k, n, p)
    BY <1>3, <1>4 DEF Changed
  <2> QED
    BY <1>2, <2>1, BagFits, StillWorn, InventoryAssumption DEF Good
<1>12. Settled => Settled'
  <2>1. SameWorn
    BY <1>2, <1>4, <1>5 DEF SameWorn
  <2> QED
    BY <2>1, StillSettled
<1> QED
  BY <1>9, <1>10, <1>11, <1>12 DEF Good

\* A unit of k comes to the bag.
Added(k) ==
    /\ DOMAIN items \subseteq DOMAIN items'
    /\ \A i \in DOMAIN items :
          /\ items'[i].kind = items[i].kind
          /\ items'[i].position = items[i].position
          /\ items'[i].quantity \in Nat
          /\ items'[i].quantity >= items[i].quantity
          /\ items[i].position # "bag" =>
                items'[i].quantity = items[i].quantity
    /\ \A i \in DOMAIN items' \ DOMAIN items :
          /\ items'[i].position = "bag" /\ items'[i].quantity = 1
          /\ items'[i].kind = k /\ i \in Item(k)

LEMMA AddGood == ASSUME Good, Inv', AddItemToInventory PROVE Good'
<1>1. PICK c : c = Head(calls)
  OBVIOUS
<1>2. /\ calls # <<>> /\ c.call = "add" /\ Continue(<<>>)
      /\ UNCHANGED <<kamas, level, riding, market, unchecked>>
  BY <1>1 DEF AddItemToInventory, Running
<1>3. c.kind \in Kind
  BY <1>1, <1>2, AllAbove DEF Good, Runs
<1>4. "bag" \notin WornPosition /\ "bag" \notin QuickPosition
  BY InventoryAssumption DEF WornPosition
<1>5. Added(c.kind)
  <2>1. ASSUME NEW b \in Batches(c.kind, "bag"),
               items' = [items EXCEPT ![b].quantity = @ + 1]
        PROVE  Added(c.kind)
    <3>1. b \in DOMAIN items /\ items[b].position = "bag"
      BY DEF Batches, At
    <3>2. PICK n : n = items[b].quantity + 1
      OBVIOUS
    <3>3. n \in Nat /\ n >= items[b].quantity
      BY <3>1, <3>2 DEF Good, Typed
    <3>4. items' = [items EXCEPT ![b].quantity = n]
      BY <2>1, <3>2
    <3>5. /\ DOMAIN items' = DOMAIN items
          /\ \A j \in DOMAIN items :
                /\ items'[j].kind = items[j].kind
                /\ items'[j].quantity =
                      IF j = b THEN n ELSE items[j].quantity
                /\ items'[j].position = items[j].position
      BY <3>4, QuantityWritten DEF Good, Inv
    <3> QED
      BY <3>1, <3>3, <3>5 DEF Added, Good, Typed
  <2>2. ASSUME Batches(c.kind, "bag") = {}, Item(c.kind) \ DOMAIN items # {},
               items' = WithItem(c.kind, 1, "bag")
        PROVE  Added(c.kind)
    <3>1. Free(c.kind, "bag")
      BY <2>2 DEF Free
    <3>2. PICK x : x = NewItem(c.kind)
      OBVIOUS
    <3>3. /\ x \in Item(c.kind) /\ x \notin DOMAIN items
          /\ DOMAIN items' = DOMAIN items \cup {x}
          /\ items'[x] = [kind |-> c.kind, quantity |-> 1, position |-> "bag"]
          /\ \A i \in DOMAIN items : items'[i] = items[i]
      BY <2>2, <3>1, <3>2, RowAdded DEF Good, Inv
    <3> QED
      BY <3>3 DEF Added, Good, Typed
  <2> QED
    BY <1>1, <2>1, <2>2 DEF AddItemToInventory
<1>6. \A p \in WornPosition : At(p)' = At(p)
  BY <1>4, <1>5 DEF At, Added
<1>7. OnlyLess /\ OthersStay
  BY <1>5, <1>6 DEF Added, OnlyLess, OthersStay, Good, Typed
<1>8. Leaving = {}
  BY <1>1, <1>2 DEF Leaving
<1>9. Stack' /\ (Checked => Checked')
  BY <1>1, <1>2, <1>7, <1>8, ReturnGood
<1>10. Typed'
  <2>1. ASSUME NEW i \in DOMAIN items'
        PROVE  /\ items'[i].kind \in Kind
               /\ i \in Item(items'[i].kind)
               /\ items'[i].quantity \in Nat \ {0}
               /\ items'[i].position \in Position
    <3>1. CASE i \in DOMAIN items
      BY <1>5, <3>1 DEF Added, Good, Typed
    <3>2. CASE i \notin DOMAIN items
      BY <1>3, <1>5, <2>1, <3>2, BagFits DEF Added
    <3> QED
      BY <3>1, <3>2
  <2> QED
    BY <1>2, <2>1 DEF Good, Typed
<1>11. Worn'
  <2>1. PICK x : \A i \in DOMAIN items' \ DOMAIN items : i = x
    <3>1. CASE DOMAIN items' = DOMAIN items
      BY <3>1
    <3>2. CASE DOMAIN items' # DOMAIN items
      BY <3>2 DEF AddItemToInventory, WithItem
    <3> QED
      BY <3>1, <3>2
  <2>2. Changed(x, c.kind, 1, "bag")
    BY <1>4, <1>5, <2>1 DEF Added, Changed
  <2> QED
    BY <1>2, <2>2, BagFits, StillWorn, InventoryAssumption DEF Good
<1>12. Settled => Settled'
  <2>1. SameWorn
    BY <1>2, <1>5, <1>6 DEF Added, SameWorn
  <2> QED
    BY <2>1, StillSettled
<1> QED
  BY <1>9, <1>10, <1>11, <1>12 DEF Good

\* A call that is the last but for checks returns.
LEMMA LastReturns ==
  ASSUME Good, calls # <<>>, Continue(<<>>), Final(Head(calls)),
         Head(calls).call \notin {"check", "ride"}
  PROVE  Stack' /\ (Checked => Checked')
<1>1. Checked => Checked'
  <2>1. \E T : <<>> \in Seq(T)
    <3>1. <<>> \in Seq({})
      OBVIOUS
    <3> QED
      BY <3>1
  <2> QED
    BY <2>1, StaysChecked DEF Good
<1> QED
  BY <1>1, OnlyChecks, Popped DEF Good

LEMMA CreateGood == ASSUME Good, Inv', CreateItem PROVE Good'
<1>1. PICK c : c = Head(calls)
  OBVIOUS
<1>2. /\ calls # <<>> /\ c.call = "create" /\ Continue(<<>>)
      /\ Item(c.kind) \ DOMAIN items # {}
      /\ items' = WithItem(c.kind, c.quantity, c.to)
      /\ UNCHANGED <<kamas, level, riding, market, unchecked>>
  BY <1>1 DEF CreateItem, Running
<1>3. Creatable(c)
  BY <1>1, <1>2, AllAbove DEF Good, Runs
<1>4. PICK x : x = NewItem(c.kind)
  OBVIOUS
<1>5. /\ x \in Item(c.kind) /\ x \notin DOMAIN items
      /\ DOMAIN items' = DOMAIN items \cup {x}
      /\ items'[x] = [kind |-> c.kind, quantity |-> c.quantity,
                      position |-> c.to]
      /\ \A i \in DOMAIN items : items'[i] = items[i]
  <2>1. Free(c.kind, c.to)
    BY <1>1, CreateHasRoom DEF Good
  <2>2. Rows /\ WellPlaced
    BY DEF Good, Inv
  <2>3. PICK k, n, p : k = c.kind /\ n = c.quantity /\ p = c.to
    OBVIOUS
  <2>4. /\ Free(k, p) /\ Item(k) \ DOMAIN items # {}
        /\ items' = WithItem(k, n, p)
    BY <1>2, <2>1, <2>3
  <2>5. /\ NewItem(k) \in Item(k)
        /\ NewItem(k) \notin DOMAIN items
        /\ DOMAIN items' = DOMAIN items \cup {NewItem(k)}
        /\ items'[NewItem(k)] =
              [kind |-> k, quantity |-> n, position |-> p]
        /\ \A i \in DOMAIN items : items'[i] = items[i]
    BY <2>2, <2>4, RowAdded
  <2> QED
    BY <1>4, <2>3, <2>5
<1>6. \A p : p # c.to => At(p)' = At(p)
  BY <1>5 DEF At
<1>7. Stack' /\ (Checked => Checked')
  <2>1. CASE c.to = "bag"
    <3>1. \A p \in WornPosition : At(p)' = At(p)
      BY <1>6, <2>1, InventoryAssumption DEF WornPosition
    <3>2. OnlyLess /\ OthersStay
      BY <1>5, <3>1 DEF OnlyLess, OthersStay, Good, Typed
    <3>3. Leaving = {}
      BY <1>1, <1>2 DEF Leaving
    <3> QED
      BY <1>1, <1>2, <3>2, <3>3, ReturnGood
  <2>2. CASE c.to # "bag"
    BY <1>1, <1>2, <2>2, LastReturns DEF Final
  <2> QED
    BY <2>1, <2>2
<1>8. Typed'
  BY <1>2, <1>3, <1>5 DEF Good, Typed, Creatable
<1>9. Worn'
  <2>1. Changed(x, c.kind, c.quantity, c.to)
    BY <1>5 DEF Changed
  <2> QED
    BY <1>2, <1>3, <2>1, StillWorn DEF Good, Creatable
<1>10. Settled' \/ Checked'
  <2>1. CASE c.to \in WornPosition
    BY <1>3, <1>7, <2>1 DEF Creatable, Fit
  <2>2. CASE c.to \notin WornPosition
    <3>1. SameWorn
      BY <1>2, <1>5, <1>6, <2>2 DEF SameWorn
    <3> QED
      BY <1>7, <3>1, StillSettled DEF Good
  <2> QED
    BY <2>1, <2>2
<1> QED
  BY <1>7, <1>8, <1>9, <1>10 DEF Good

\* The rows, and what else the calls on the stack rely on, are the same.
LEMMA NothingWritten ==
  ASSUME Typed, Worn, UNCHANGED <<items, kamas, level, riding, market, unchecked>>
  PROVE  /\ Typed' /\ Worn' /\ (Settled => Settled')
         /\ OnlyLess /\ OthersStay
         /\ \A p : At(p)' = At(p)
<1>1. \A p : At(p)' = At(p)
  BY DEF At
<1>2. OnlyLess /\ SameWorn
  BY <1>1 DEF OnlyLess, SameWorn
<1>3. OthersStay
  BY DEF OthersStay, Typed
<1>4. Typed'
  BY DEF Typed
<1>5. Worn'
  BY <1>1 DEF Worn, WornWell, WornFits, Exclusive, OnceWorn, QuickUse
<1> QED
  BY <1>1, <1>2, <1>3, <1>4, <1>5, StillSettled

LEMMA TwoOnTop ==
  ASSUME Stack, calls # <<>>, NEW a, NEW b, Continue(<<a, b>>)
  PROVE  /\ calls' # <<>> /\ Len(calls') > 1
         /\ Head(calls') = a /\ calls'[2] = b
         /\ \E T : <<a, b>> \in Seq(T)
<1> DEFINE next == <<a, b>>
<1>1. \E T : next \in Seq(T)
  <2>1. next \in Seq({a, b})
    OBVIOUS
  <2> QED
    BY <2>1
<1>2. Len(next) = 2 /\ next[1] = a /\ next[2] = b
  OBVIOUS
<1> HIDE DEF next
<1>3. /\ \E U : calls' \in Seq(U)
      /\ Len(calls) \in Nat \ {0}
      /\ Len(calls') = Len(next) + Len(calls) - 1
      /\ \A m \in 1..Len(next) : calls'[m] = next[m]
  BY <1>1, Continued DEF Stack, next
<1>4. Len(calls') > 1 /\ calls'[1] = a /\ calls'[2] = b
  BY <1>2, <1>3
<1> QED
  BY <1>1, <1>3, <1>4 DEF next

LEMMA OneOnTop ==
  ASSUME Stack, calls # <<>>, NEW a, Continue(<<a>>)
  PROVE  /\ calls' # <<>> /\ Len(calls') = Len(calls)
         /\ Head(calls') = a
         /\ \E T : <<a>> \in Seq(T)
<1> DEFINE next == <<a>>
<1>1. \E T : next \in Seq(T)
  <2>1. next \in Seq({a})
    OBVIOUS
  <2> QED
    BY <2>1
<1>2. Len(next) = 1 /\ next[1] = a
  OBVIOUS
<1> HIDE DEF next
<1>3. /\ \E U : calls' \in Seq(U)
      /\ Len(calls) \in Nat \ {0}
      /\ Len(calls') = Len(next) + Len(calls) - 1
      /\ \A m \in 1..Len(next) : calls'[m] = next[m]
  BY <1>1, Continued DEF Stack, next
<1>4. Len(calls') = Len(calls) /\ calls'[1] = a
  BY <1>2, <1>3
<1> QED
  BY <1>1, <1>3, <1>4 DEF next

\* A call goes on with a removal and the write that is due for it.
LEMMA MovesInTwo ==
  ASSUME Good, Inv', calls # <<>>,
         NEW c, c = Head(calls), c.call = "move",
         UNCHANGED <<items, kamas, level, riding, market, unchecked>>,
         NEW a, a = Remove(c.item, c.quantity, FALSE),
         NEW b, Writes(b), Continue(<<a, b>>),
         (Checked => Checked') => Owed(a, b)',
         b.call = "create" /\ b.to # "bag" => c.to # "bag"
  PROVE  Good'
<1>2. /\ a.call = "remove" /\ a.item = c.item /\ a.quantity = c.quantity
      /\ a.wanted = FALSE
  BY DEF Remove
<1>3. Continue(<<a, b>>) /\ ((Checked => Checked') => Owed(a, b)')
  OBVIOUS
<1>4. /\ calls' # <<>> /\ Len(calls') > 1
      /\ Head(calls') = a /\ calls'[2] = b
      /\ \E T : <<a, b>> \in Seq(T)
  BY <1>3, TwoOnTop DEF Good
<1>5. Checked => Checked'
  BY <1>3, <1>4, StaysChecked DEF Good
<1>6. /\ Typed' /\ Worn' /\ (Settled => Settled')
      /\ OnlyLess /\ OthersStay
      /\ \A p : At(p)' = At(p)
  BY NothingWritten DEF Good
<1>7. Movable(c)
  BY AllAbove DEF Good, Runs
<1>8. Runs(a)'
  BY <1>2, <1>4, <1>5, <1>7 DEF Runs, Movable, Writes
<1>9. Owed(a, b)'
  BY <1>3, <1>5
<1>10. ASSUME NEW d \in Waiting PROVE ~Writes(d) /\ Waits(d)'
  <2>1. ~Writes(d) /\ Waits(d)
    BY <1>10, AllAbove DEF Good
  <2>2. CASE c.to = "bag"
    <3>1. Leaving = {c.item} /\ Leaving' = {c.item}
      BY <1>2, <1>4, <2>2 DEF Leaving
    <3>2. ~(d.call = "move" /\ d.to = "pet" /\ riding')
      BY <2>1 DEF Waits
    <3>3. d.call \in {"put on", "move"} => d.item \notin Leaving'
      BY <2>1, <3>1 DEF Waits
    <3> QED
      BY <1>5, <1>6, <2>1, <3>1, <3>2, <3>3, StillWaits
  <2>3. CASE c.to # "bag"
    BY <2>3, OnlyChecks DEF Good, Final
  <2> QED
    BY <2>1, <2>2, <2>3
<1>11. ASSUME NEW d \in Waiting PROVE Above(a, d) /\ Above(b, d)
  <2>1. CASE b.call = "create" /\ b.to # "bag"
    BY <1>2, <2>1, OnlyChecks DEF Good, Final, Above
  <2>2. CASE ~(b.call = "create" /\ b.to # "bag")
    BY <1>2, <2>2 DEF Writes, Above, Final
  <2> QED
    BY <2>1, <2>2
<1>12. Above(a, b)
  BY <1>2 DEF Above, Final
<1>13. Stack'
  BY <1>3, <1>8, <1>9, <1>10, <1>11, <1>12, PushedTwo DEF Good
<1> QED
  BY <1>5, <1>6, <1>13 DEF Good

LEMMA JoinsGood == ASSUME Good, Inv', Joins PROVE Good'
<1>1. PICK c : c = Head(calls)
  OBVIOUS
<1>2. /\ calls # <<>> /\ c.call = "move"
      /\ UNCHANGED <<items, kamas, level, riding, market, unchecked>>
  BY <1>1 DEF Joins, Running
<1>3. Movable(c)
  BY <1>1, <1>2, AllAbove DEF Good, Runs
<1>4. PICK j \in Batches(items[c.item].kind, c.to) :
         Continue(<<Remove(c.item, c.quantity, FALSE),
                    Update(j, items[j].quantity + c.quantity)>>)
  BY <1>1 DEF Joins
<1>5. /\ j \in DOMAIN items /\ items[j].position = c.to
      /\ items[j].kind = items[c.item].kind
  BY DEF Batches, At
<1>6. c.to \notin WornPosition
  BY <1>3, <1>5 DEF Movable, Fit, At
<1>7. PICK b : b = Update(j, items[j].quantity + c.quantity)
  OBVIOUS
<1>8. /\ b.call = "update" /\ b.item = j
      /\ b.quantity = items[j].quantity + c.quantity
  BY <1>7 DEF Update
<1>9. PICK a : a = Remove(c.item, c.quantity, FALSE)
  OBVIOUS
<1>10. /\ a.call = "remove" /\ a.item = c.item /\ a.quantity = c.quantity
       /\ ~a.wanted
  BY <1>9 DEF Remove
<1>11. Owed(a, b)'
  BY <1>2, <1>3, <1>5, <1>6, <1>8, <1>10 DEF Owed, Movable
<1>12. Continue(<<a, b>>) /\ Writes(b)
  BY <1>4, <1>7, <1>8, <1>9 DEF Writes
<1> QED
  BY <1>1, <1>2, <1>8, <1>9, <1>11, <1>12, MovesInTwo

LEMMA PlacesGood == ASSUME Good, Inv', Places PROVE Good'
<1>1. PICK c : c = Head(calls)
  OBVIOUS
<1>2. /\ calls # <<>> /\ c.call = "move"
      /\ UNCHANGED <<kamas, level, riding, market, unchecked>>
  BY <1>1 DEF Places, Running
<1>3. /\ Movable(c)
      /\ InTheWay(items[c.item].kind, c.to) = {}
      /\ c.to = "pet" => ~riding
  BY <1>1, <1>2, AllAbove DEF Good, Runs
<1>4. PICK i, k, n, p : /\ i = c.item /\ k = items[c.item].kind
                        /\ n = c.quantity /\ p = c.to
  OBVIOUS
<1>5. /\ i \in DOMAIN items /\ items[i].kind = k
      /\ items[i].quantity \in Nat \ {0} /\ k \in Kind
      /\ n \in 1..items[i].quantity
      /\ items[i].position # p /\ p \in Position
      /\ items[i].position \in WornPosition => Checked
      /\ Fit(k, n, p) /\ InTheWay(k, p) = {} /\ (p = "pet" => ~riding)
  BY <1>3, <1>4 DEF Movable, Good, Typed
<1>6. CASE n = items[i].quantity
  <2>1. /\ items' = [items EXCEPT ![i].position = p] /\ Continue(<<>>)
        /\ Free(k, p)
    BY <1>1, <1>4, <1>6 DEF Places, Free
  <2>2. /\ DOMAIN items' = DOMAIN items
        /\ \A j \in DOMAIN items :
              /\ items'[j].kind = items[j].kind
              /\ items'[j].quantity = items[j].quantity
              /\ items'[j].position = IF j = i THEN p ELSE items[j].position
    <3>1. Free(items[i].kind, p)
      BY <1>5, <2>1
    <3> QED
      BY <1>5, <2>1, <3>1, RowMoved DEF Good, Inv
  <2>3. \A q : q # p => At(q)' = At(q) \ {i}
    BY <2>2 DEF At
  <2>4. Stack' /\ (Checked => Checked')
    <3>1. CASE p = "bag"
      <4>1. \A q \in WornPosition : At(q)' = At(q) \ {i}
        BY <2>3, <3>1, InventoryAssumption DEF WornPosition
      <4>2. Leaving = {i}
        BY <1>1, <1>2, <1>4, <3>1 DEF Leaving
      <4>3. OnlyLess /\ OthersStay
        BY <2>2, <4>1, <4>2 DEF OnlyLess, OthersStay, Good, Typed
      <4> QED
        BY <1>1, <1>2, <2>1, <4>1, <4>2, <4>3, ReturnGood
    <3>2. CASE p # "bag"
      BY <1>1, <1>2, <1>4, <2>1, <3>2, LastReturns DEF Final
    <3> QED
      BY <3>1, <3>2
  <2>5. Typed'
    BY <1>2, <1>5, <2>2 DEF Good, Typed
  <2>6. Worn'
    <3>1. Changed(i, k, n, p)
      BY <1>5, <1>6, <2>2 DEF Changed
    <3> QED
      BY <1>2, <1>5, <3>1, StillWorn DEF Good
  <2>7. Settled' \/ Checked'
    <3>1. CASE p \in WornPosition \/ items[i].position \in WornPosition
      BY <1>5, <2>4, <3>1 DEF Fit
    <3>2. CASE ~(p \in WornPosition \/ items[i].position \in WornPosition)
      <4>1. \A q \in WornPosition : At(q)' = At(q)
        BY <2>2, <3>2 DEF At
      <4>2. SameWorn
        BY <1>2, <2>2, <4>1 DEF SameWorn
      <4> QED
        BY <2>4, <4>2, StillSettled DEF Good
    <3> QED
      BY <3>1, <3>2
  <2> QED
    BY <2>4, <2>5, <2>6, <2>7 DEF Good
<1>7. CASE n # items[i].quantity
  <2>1. /\ Continue(<<Remove(c.item, c.quantity, FALSE), Create(k, n, p)>>)
        /\ UNCHANGED items
    BY <1>1, <1>4, <1>7 DEF Places
  <2>2. PICK b : b = Create(k, n, p)
    OBVIOUS
  <2>3. b.call = "create" /\ b.kind = k /\ b.quantity = n /\ b.to = p
    BY <2>2 DEF Create
  <2>4. PICK a : a = Remove(c.item, c.quantity, FALSE)
    OBVIOUS
  <2>5. a.call = "remove" /\ ~a.wanted /\ a.item = i /\ a.quantity = n
    BY <1>4, <2>4 DEF Remove
  <2>6. Creatable(b)
    BY <1>5, <2>3 DEF Creatable
  <2>7. OnlyLess
    BY <1>2, <2>1, NothingWritten DEF Good
  <2>8. (Checked => Checked') => Owed(a, b)'
    BY <1>2, <1>5, <2>1, <2>3, <2>5, <2>6, <2>7, StillCreatable DEF Owed
  <2>9. Continue(<<a, b>>) /\ Writes(b)
    BY <2>1, <2>2, <2>3, <2>4 DEF Writes
  <2> QED
    BY <1>1, <1>2, <1>4, <2>1, <2>3, <2>4, <2>8, <2>9, MovesInTwo
<1> QED
  BY <1>6, <1>7

\* A stack may go to the bag from anywhere else.
LEMMA TakenOff ==
  ASSUME Typed, NEW j \in DOMAIN items, items[j].position # "bag",
         items[j].position \in WornPosition => Checked',
         UNCHANGED items, NEW a, a = unEquip(j)
  PROVE  /\ a.call = "move" /\ a.item = j /\ a.to = "bag"
         /\ Runs(a)' /\ ~Writes(a)
         /\ \A d : Above(a, d)
<1>1. /\ a.call = "move" /\ a.item = j /\ a.to = "bag"
      /\ a.quantity = items[j].quantity
  BY DEF unEquip, Move
<1>2. \A k, n : /\ Fit(k, n, "bag")' /\ InTheWay(k, "bag")' = {}
                /\ "bag" \in Position
  BY InventoryAssumption DEF Fit, InTheWay, Position, WornPosition
<1>3. a.quantity \in 1..items'[j].quantity
  <2>1. PICK n \in Nat \ {0} : n = items[j].quantity
    BY DEF Typed
  <2>2. n \in 1..n
    BY <2>1
  <2> QED
    BY <1>1, <2>1, <2>2
<1>4. Movable(a)'
  BY <1>1, <1>2, <1>3 DEF Movable
<1>5. Runs(a)'
  BY <1>1, <1>2, <1>4, InventoryAssumption DEF Runs
<1> QED
  BY <1>1, <1>5 DEF Writes, Above, Final

LEMMA ClearsGood == ASSUME Good, Inv', Clears PROVE Good'
<1>1. PICK c : c = Head(calls)
  OBVIOUS
<1>2. /\ calls # <<>> /\ c.call = "move" /\ c.to # "bag"
      /\ UNCHANGED <<items, kamas, level, riding, market, unchecked>>
  BY <1>1 DEF Clears, Running
<1>3. PICK j \in At(c.to) : Continue(<<unEquip(j), c>>)
  BY <1>1 DEF Clears
<1>4. PICK a : a = unEquip(j)
  OBVIOUS
<1>5. Continue(<<a, c>>)
  BY <1>3, <1>4
<1>6. /\ Typed' /\ Worn' /\ (Settled => Settled')
      /\ OnlyLess /\ OthersStay
      /\ \A p : At(p)' = At(p)
  BY <1>2, NothingWritten DEF Good
<1>7. /\ calls' # <<>> /\ Head(calls') = a
      /\ \E T : <<a, c>> \in Seq(T)
  BY <1>2, <1>5, TwoOnTop DEF Good
<1>8. Checked => Checked'
  BY <1>1, <1>2, <1>5, <1>7, StaysChecked DEF Good
<1>9. /\ Movable(c) /\ InTheWay(items[c.item].kind, c.to) = {}
      /\ c.to \notin WornPosition
  <2>1. Movable(c) /\ InTheWay(items[c.item].kind, c.to) = {}
    BY <1>1, <1>2, AllAbove DEF Good, Runs
  <2> QED
    BY <1>3, <2>1 DEF Movable, Fit
<1>10. j \in DOMAIN items /\ items[j].position = c.to /\ j # c.item
  BY <1>9 DEF At, Movable
<1>11. /\ a.call = "move" /\ a.item = j /\ a.to = "bag"
       /\ Runs(a)' /\ ~Writes(a) /\ \A d : Above(a, d)
  BY <1>2, <1>4, <1>9, <1>10, TakenOff DEF Good
<1>12. Leaving' = {j}
  BY <1>7, <1>11 DEF Leaving
<1>13. Movable(c)'
  <2>1. PICK k : k = items[c.item].kind
    OBVIOUS
  <2>2. Fit(k, c.quantity, c.to)'
    BY <1>6, <1>8, <1>9, <2>1, StillFits DEF Movable
  <2> QED
    BY <1>2, <1>8, <1>9, <2>1, <2>2 DEF Movable
<1>14. InTheWay(items[c.item].kind, c.to)' = {}
  <2>1. c.to # "weapon" /\ c.to # "shield"
    BY <1>9, InventoryAssumption DEF WornPosition
  <2> QED
    BY <2>1 DEF InTheWay
<1>15. c.to # "pet"
  BY <1>9, InventoryAssumption DEF WornPosition
<1>16. Waits(c)' /\ ~Writes(c)
  BY <1>2, <1>10, <1>12, <1>13, <1>14, <1>15 DEF Waits, Writes
<1>17. Final(c) /\ \A d \in Waiting : d.call = "check" /\ Waits(d)' /\ ~Writes(d)
  BY <1>1, <1>2, OnlyChecks DEF Good, Final
<1>18. \A d \in Waiting : Above(c, d)
  BY <1>17 DEF Above
<1>19. Stack'
  BY <1>2, <1>5, <1>11, <1>16, <1>17, <1>18, PushedTwo DEF Good
<1> QED
  BY <1>6, <1>8, <1>19 DEF Good

LEMMA EmptyStack == ASSUME calls' = <<>> PROVE Stack'
<1>1. <<>> \in Seq({}) /\ Len(<<>>) = 0
  OBVIOUS
<1>2. /\ \E S : calls' \in Seq(S)
      /\ \A m : m \notin 2..Len(calls') /\ m \notin 1..Len(calls')
              /\ m \notin 3..Len(calls')
  BY <1>1
<1>3. Innermost' = {} /\ Waiting' = {}
  BY <1>2 DEF Innermost, Waiting
<1> QED
  BY <1>2, <1>3 DEF Stack

LEMMA EquipNotAllowedGood == ASSUME Good, Inv', EquipNotAllowed PROVE Good'
<1>1. PICK c : c = Head(calls)
  OBVIOUS
<1>2. /\ calls # <<>> /\ c.call = "put on" /\ calls' = <<>>
      /\ unchecked' = (unchecked \/ c.freed)
      /\ UNCHANGED <<items, kamas, level, riding, market>>
  BY <1>1 DEF EquipNotAllowed, Running
<1>3. c.freed \in BOOLEAN /\ (c.freed \/ Settled)
  BY <1>1, <1>2, AllAbove DEF Good, Runs
<1>4. Typed'
  BY <1>2, <1>3 DEF Good, Typed
<1>5. Worn'
  BY <1>2 DEF Good, Worn, WornWell, WornFits, Exclusive, OnceWorn, QuickUse, At
<1>6. Stack'
  BY <1>2, EmptyStack
<1>7. Settled'
  <2>1. CASE c.freed
    BY <1>2, <1>3, <2>1 DEF Settled
  <2>2. CASE ~c.freed
    <3>1. Settled
      BY <1>3, <2>2
    <3>2. unchecked' = unchecked
      BY <1>2, <1>3, <2>2 DEF Good, Typed
    <3> QED
      BY <1>2, <3>1, <3>2, NothingWritten DEF Good
  <2> QED
    BY <2>1, <2>2
<1> QED
  BY <1>4, <1>5, <1>6, <1>7 DEF Good

LEMMA EquipRefusedGood == ASSUME Good, Inv', EquipRefused PROVE Good'
<1>1. /\ calls # <<>> /\ Head(calls).call = "put on" /\ Continue(<<>>)
      /\ UNCHANGED <<items, kamas, level, riding, market, unchecked>>
  BY DEF EquipRefused, Running
<1>2. Stack' /\ (Checked => Checked')
  BY <1>1, LastReturns DEF Final
<1>3. Typed' /\ Worn' /\ (Settled => Settled')
  BY <1>1, NothingWritten DEF Good
<1> QED
  BY <1>2, <1>3 DEF Good

LEMMA Concatenated ==
  ASSUME NEW S, NEW s \in Seq(S), NEW t \in Seq(S)
  PROVE  /\ s \o t \in Seq(S) /\ Len(s \o t) = Len(s) + Len(t)
         /\ \A m \in 1..Len(s \o t) :
               (s \o t)[m] = IF m <= Len(s) THEN s[m] ELSE t[m - Len(s)]
OBVIOUS

LEMMA SameElements ==
  ASSUME NEW S, NEW s \in Seq(S), NEW t \in Seq(S), Len(s) = Len(t),
         \A m \in 1..Len(s) : s[m] = t[m]
  PROVE  s = t
OBVIOUS

LEMMA Pair == ASSUME NEW a, NEW b PROVE <<a>> \o <<b>> = <<a, b>>
<1> DEFINE s == <<a>>
           t == <<b>>
           u == <<a, b>>
           v == s \o t
<1>1. PICK S : S = {a, b}
  OBVIOUS
<1>2. /\ s \in Seq(S) /\ Len(s) = 1 /\ s[1] = a
      /\ t \in Seq(S) /\ Len(t) = 1 /\ t[1] = b
      /\ u \in Seq(S) /\ Len(u) = 2 /\ u[1] = a /\ u[2] = b
  BY <1>1
<1> HIDE DEF s, t, u
<1>3. /\ v \in Seq(S) /\ Len(v) = Len(s) + Len(t)
      /\ \A m \in 1..Len(v) :
            v[m] = IF m <= Len(s) THEN s[m] ELSE t[m - Len(s)]
  BY <1>2, Concatenated
<1> HIDE DEF v
<1>4. Len(v) = 2 /\ 1 \in 1..Len(v) /\ 2 \in 1..Len(v)
  BY <1>2, <1>3
<1>5. v[1] = s[1] /\ v[2] = t[2 - 1]
  BY <1>2, <1>3, <1>4
<1>6. \A n \in 1..Len(v) : v[n] = u[n]
  BY <1>2, <1>4, <1>5
<1>7. v = u
  BY <1>2, <1>3, <1>4, <1>6, SameElements
<1> QED
  BY <1>7 DEF s, t, u, v

LEMMA Joined ==
  ASSUME NEW a, NEW b
  PROVE  /\ <<>> \o <<>> \o <<a>> = <<a>>
         /\ <<>> \o <<a>> = <<a>>
         /\ <<a>> \o <<>> = <<a>>
         /\ <<a>> \o <<b>> = <<a, b>>
         /\ <<a>> \o <<>> \o <<b>> = <<a, b>>
         /\ <<>> \o <<a>> \o <<b>> = <<a, b>>
<1>1. <<>> \o <<a>> = <<a>>
  OBVIOUS
<1>2. <<a>> \o <<>> = <<a>>
  OBVIOUS
<1>3. <<>> \o <<>> = <<>>
  OBVIOUS
<1> QED
  BY <1>1, <1>2, <1>3, Pair

\* What a two-handed weapon and a shield exclude is one item, and not the one
\* that is put on.
LEMMA OneInTheWay ==
  ASSUME WellPlaced, Worn, Typed, NEW i \in DOMAIN items,
         NEW p, p \in Template[items[i].kind].Fits, p \in WornPosition,
         NEW j \in InTheWay(items[i].kind, p)
  PROVE  /\ j \in DOMAIN items /\ j # i /\ items[j].position \in WornPosition
         /\ items[j].position # "bag"
         /\ p # "pet" /\ InTheWay(items[i].kind, p) = {j}
<1>1. \/ /\ p = "weapon" /\ InTheWay(items[i].kind, p) = At("shield")
      \/ /\ p = "shield" /\ InTheWay(items[i].kind, p) \subseteq At("weapon")
  BY DEF InTheWay
<1>2. {"weapon", "shield"} \subseteq WornPosition /\ "bag" \notin WornPosition
  BY InventoryAssumption DEF WornPosition
<1>3. ~({"weapon", "shield"} \subseteq Template[items[i].kind].Fits)
  BY InventoryAssumption DEF Typed
<1>4. items[i].position \in WornPosition =>
         items[i].position \in Template[items[i].kind].Fits
  BY DEF Worn, WornWell, WornFits
<1>5. \A l \in InTheWay(items[i].kind, p) :
         l \in DOMAIN items /\ l # i /\ items[l].position \in WornPosition
         /\ items[l].position # "bag"
         /\ items[l].position = IF p = "weapon" THEN "shield" ELSE "weapon"
  BY <1>1, <1>2, <1>3, <1>4 DEF At
<1>6. \A l \in InTheWay(items[i].kind, p) : l = j
  BY <1>5 DEF WellPlaced, OnePerPosition
<1> QED
  BY <1>1, <1>5, <1>6

LEMMA EquipsGood == ASSUME Good, Inv', Equips PROVE Good'
<1>1. PICK c : c = Head(calls)
  OBVIOUS
<1>2. PICK k : k = items[c.item].kind
  OBVIOUS
<1>3. /\ calls # <<>> /\ c.call = "put on"
      /\ c.to \in Template[k].Fits /\ ~AlreadyEquipped(k)
      /\ UNCHANGED <<items, kamas, level, riding, market, unchecked>>
  BY <1>1, <1>2 DEF Equips, Running
<1>4. PICK m : m = Move(c.item, 1, c.to)
  OBVIOUS
<1>5. /\ m.call = "move" /\ m.item = c.item /\ m.quantity = 1 /\ m.to = c.to
  BY <1>4 DEF Move
<1>6. Continue(TakeOff(InTheWay(k, c.to))
               \o (IF c.to = "pet" /\ riding THEN <<MountOrDismount(FALSE)>>
                   ELSE <<>>)
               \o <<m>>)
  BY <1>1, <1>2, <1>4 DEF Equips
<1>7. /\ c.item \in DOMAIN items
      /\ c.to \in WornPosition /\ At(c.to) = {}
      /\ Checked
  BY <1>1, <1>3, AllAbove DEF Good, Runs
<1>8. /\ Typed' /\ Worn' /\ (Settled => Settled')
      /\ OnlyLess /\ OthersStay
      /\ \A p : At(p)' = At(p)
  BY <1>3, NothingWritten DEF Good
<1>9. /\ k \in Kind
      /\ c.to \in Position /\ c.to \notin QuickPosition /\ c.to # "bag"
  BY <1>2, <1>7, InventoryAssumption DEF Good, Typed, Position, WornPosition
<1>10. Checked' => Movable(m)'
  <2>1. Checked' => Fit(k, 1, c.to)'
    BY <1>3, <1>7, <1>8, <1>9, LessWorn DEF Fit
  <2>2. 1 \in 1..items'[c.item].quantity
    <3>1. PICK n \in Nat \ {0} : n = items[c.item].quantity
      BY <1>7 DEF Good, Typed
    <3>2. 1 \in 1..n
      BY <3>1
    <3> QED
      BY <1>3, <3>1, <3>2
  <2> QED
    BY <1>2, <1>3, <1>5, <1>7, <1>9, <2>1, <2>2 DEF Movable, At
<1>11. \A d \in Waiting : d.call = "check" /\ Waits(d)' /\ ~Writes(d)
  BY <1>1, <1>3, OnlyChecks DEF Good, Final
<1>12. ~Writes(m) /\ \A d \in Waiting : Above(m, d)
  BY <1>5, <1>11 DEF Writes, Above
<1>13. InTheWay(items[c.item].kind, c.to)' = InTheWay(k, c.to)
  BY <1>2, <1>3 DEF InTheWay, At
<1>14. CASE InTheWay(k, c.to) = {} /\ ~(c.to = "pet" /\ riding)
  <2>1. Continue(<<m>>)
    <3>1. TakeOff(InTheWay(k, c.to)) = <<>>
      BY <1>14 DEF TakeOff
    <3> QED
      BY <1>6, <1>14, <3>1, Joined
  <2>2. Checked'
    BY <1>1, <1>3, <1>7, <2>1, OneOnTop, StaysChecked DEF Good
  <2>3. Runs(m)'
    BY <1>3, <1>5, <1>10, <1>13, <1>14, <2>2 DEF Runs
  <2>4. Stack'
    BY <1>3, <1>11, <1>12, <2>1, <2>3, PushedOne DEF Good
  <2> QED
    BY <1>8, <2>2, <2>4 DEF Good
<1>15. CASE InTheWay(k, c.to) = {} /\ c.to = "pet" /\ riding
  <2>1. PICK a : a = MountOrDismount(FALSE)
    OBVIOUS
  <2>2. a.call = "mount" /\ a.mount = FALSE
    BY <2>1 DEF MountOrDismount
  <2>3. Continue(<<a, m>>)
    <3>1. TakeOff(InTheWay(k, c.to)) = <<>>
      BY <1>15 DEF TakeOff
    <3> QED
      BY <1>6, <1>15, <2>1, <3>1, Joined
  <2>4. /\ calls' # <<>> /\ Head(calls') = a
        /\ \E T : <<a, m>> \in Seq(T)
    BY <1>3, <2>3, TwoOnTop DEF Good
  <2>5. Checked'
    BY <1>1, <1>3, <1>7, <2>3, <2>4, StaysChecked DEF Good
  <2>6. Runs(a)'
    BY <2>2 DEF Runs
  <2>7. Leaving' = {}
    BY <2>2, <2>4 DEF Leaving
  <2>8. Waits(m)'
    BY <1>5, <1>9, <1>10, <1>13, <1>15, <2>2, <2>4, <2>5, <2>7 DEF Waits
  <2>9. Above(a, m) /\ \A d \in Waiting : Above(a, d)
    BY <1>5, <1>11, <1>15, <2>2 DEF Above, Final
  <2>10. Stack'
    BY <1>3, <1>11, <1>12, <2>3, <2>6, <2>8, <2>9, PushedTwo DEF Good
  <2> QED
    BY <1>8, <2>5, <2>10 DEF Good
<1>16. CASE InTheWay(k, c.to) # {}
  <2>1. PICK j \in InTheWay(k, c.to) : TakeOff(InTheWay(k, c.to)) = <<unEquip(j)>>
    BY <1>16 DEF TakeOff
  <2>2. /\ j \in DOMAIN items /\ j # c.item /\ items[j].position \in WornPosition
        /\ items[j].position # "bag"
        /\ c.to # "pet" /\ InTheWay(k, c.to) = {j}
    BY <1>2, <1>3, <1>7, <2>1, OneInTheWay DEF Good, Inv
  <2>3. PICK a : a = unEquip(j)
    OBVIOUS
  <2>4. Continue(<<a, m>>)
    BY <1>6, <2>1, <2>2, <2>3, Joined
  <2>5. /\ calls' # <<>> /\ Head(calls') = a
        /\ \E T : <<a, m>> \in Seq(T)
    BY <1>3, <2>4, TwoOnTop DEF Good
  <2>6. Checked'
    BY <1>1, <1>3, <1>7, <2>4, <2>5, StaysChecked DEF Good
  <2>7. /\ a.call = "move" /\ a.item = j /\ a.to = "bag"
        /\ Runs(a)' /\ ~Writes(a) /\ \A d : Above(a, d)
    BY <1>3, <2>2, <2>3, <2>6, TakenOff DEF Good
  <2>8. Leaving' = {j}
    BY <2>5, <2>7 DEF Leaving
  <2>9. Waits(m)'
    BY <1>5, <1>9, <1>10, <1>13, <2>2, <2>6, <2>8 DEF Waits
  <2>10. Stack'
    BY <1>3, <1>11, <1>12, <2>4, <2>7, <2>9, PushedTwo DEF Good
  <2> QED
    BY <1>8, <2>6, <2>10 DEF Good
<1> QED
  BY <1>14, <1>15, <1>16

\* Neither the rows nor the mount change.
LEMMA SameItems ==
  ASSUME Typed, Worn, UNCHANGED <<items, riding>>
  PROVE  /\ Worn' /\ OnlyLess /\ OthersStay
         /\ \A p : At(p)' = At(p)
<1>1. \A p : At(p)' = At(p)
  BY DEF At
<1>2. OnlyLess
  BY <1>1 DEF OnlyLess
<1>3. OthersStay
  BY DEF OthersStay, Typed
<1>4. Worn'
  BY <1>1 DEF Worn, WornWell, WornFits, Exclusive, OnceWorn, QuickUse
<1> QED
  BY <1>1, <1>2, <1>3, <1>4

LEMMA MountRefusedGood == ASSUME Good, Inv', MountRefused PROVE Good'
<1>1. PICK c : c = Head(calls)
  OBVIOUS
<1>2. /\ calls # <<>> /\ c.call = "mount" /\ Continue(<<>>)
      /\ riding = c.mount \/ c.mount
      /\ UNCHANGED <<items, kamas, level, riding, market, unchecked>>
  BY <1>1 DEF MountRefused, Running
<1>3. /\ Typed' /\ Worn' /\ (Settled => Settled')
      /\ OnlyLess /\ OthersStay
  BY <1>2, NothingWritten DEF Good
<1>4. c.mount \in BOOLEAN
  BY <1>1, <1>2, AllAbove DEF Good, Runs
<1>5. Stack' /\ (Checked => Checked')
  <2>1. CASE c.mount
    BY <1>1, <1>2, <2>1, LastReturns DEF Final
  <2>2. CASE ~c.mount
    <3>1. Leaving = {}
      BY <1>1, <1>2 DEF Leaving
    <3>2. ~riding
      BY <1>2, <1>4, <2>2 DEF Good, Typed
    <3> QED
      BY <1>1, <1>2, <1>3, <3>1, <3>2, ReturnGood
  <2> QED
    BY <2>1, <2>2
<1> QED
  BY <1>3, <1>5 DEF Good

\* What goes on top of the stack ends with a check, and so does what waits.
LEMMA EndsChecked ==
  ASSUME Stack, calls # <<>>, NEW next, \E T : next \in Seq(T),
         Continue(next), next # <<>>,
         next[Len(next)].call \in {"check", "ride"},
         Waiting # {} => Checked
  PROVE  Checked'
<1>1. CASE Waiting # {}
  BY <1>1, LastStays
<1>2. CASE Waiting = {}
  <2>1. /\ \E U : calls' \in Seq(U)
        /\ Len(calls) \in Nat \ {0} /\ Len(next) \in Nat
        /\ Len(calls') = Len(next) + Len(calls) - 1
        /\ \A m \in 1..Len(next) : calls'[m] = next[m]
    BY Continued DEF Stack
  <2>2. Len(calls) = 1
    <3>1. PICK n \in Nat \ {0} : n = Len(calls)
      BY <2>1
    <3>2. 2 \notin 2..n
      BY <1>2, <3>1 DEF Waiting
    <3>3. n = 1
      BY <3>2
    <3> QED
      BY <3>1, <3>3
  <2>3. Len(next) \in 1..Len(next)
    OBVIOUS
  <2>4. Len(calls') = Len(next) /\ calls'[Len(calls')] = next[Len(next)]
    BY <2>1, <2>2, <2>3
  <2>5. calls' # <<>>
    BY <2>3, <2>4
  <2> QED
    BY <2>4, <2>5 DEF Checked
<1> QED
  BY <1>1, <1>2

LEMMA UnderCheck ==
  ASSUME Stack, calls # <<>>,
         \A c \in Waiting :
            c.call = "check" \/ (c.call = "move" /\ c.to = "pet")
  PROVE  Waiting # {} => Checked
<1> SUFFICES ASSUME Waiting # {} PROVE Checked
  OBVIOUS
<1>1. PICK S : calls \in Seq(S)
  BY DEF Stack
<1>2. Len(calls) \in Nat \ {0}
  BY <1>1
<1>3. Len(calls) \in 2..Len(calls)
  BY <1>2 DEF Waiting
<1>4. PICK c : c = calls[Len(calls)]
  OBVIOUS
<1>5. c \in Waiting
  BY <1>3, <1>4 DEF Waiting
<1>6. CASE c.call = "check"
  BY <1>4, <1>6 DEF Checked
<1>7. CASE c.call = "move" /\ c.to = "pet"
  <2>1. Waits(c)
    BY <1>5, <1>7 DEF Stack, Writes
  <2>2. "pet" \in WornPosition
    BY InventoryAssumption DEF WornPosition
  <2> QED
    BY <1>7, <2>1, <2>2 DEF Waits, Movable, Fit
<1> QED
  BY <1>5, <1>6, <1>7

LEMMA MountsGood == ASSUME Good, Inv', Mounts PROVE Good'
<1>1. PICK c : c = Head(calls)
  OBVIOUS
<1>2. /\ calls # <<>> /\ c.call = "mount" /\ riding # c.mount
      /\ UNCHANGED <<items, kamas, level, riding, market, unchecked>>
      /\ Continue(TakeOff(IF c.mount THEN At("pet") ELSE {}) \o <<Ride(c.mount)>>)
  BY <1>1 DEF Mounts, Running
<1>3. /\ Typed' /\ Worn' /\ (Settled => Settled')
      /\ OnlyLess /\ OthersStay
      /\ \A p : At(p)' = At(p)
  BY <1>2, NothingWritten DEF Good
<1>4. c.mount \in BOOLEAN
  BY <1>1, <1>2, AllAbove DEF Good, Runs
<1>5. PICK b : b = Ride(c.mount)
  OBVIOUS
<1>6. b.call = "ride" /\ b.mount = c.mount
  BY <1>5 DEF Ride
<1>7. CASE ~c.mount \/ At("pet") = {}
  <2>1. Continue(<<b>>)
    <3>1. TakeOff(IF c.mount THEN At("pet") ELSE {}) = <<>>
      BY <1>7 DEF TakeOff
    <3> QED
      BY <1>2, <1>5, <3>1, Joined
  <2>2. Head(calls') = b /\ calls' # <<>> /\ \E T : <<b>> \in Seq(T)
    BY <1>2, <2>1, OneOnTop DEF Good
  <2>3. Checked => Checked'
    BY <1>1, <1>2, <2>1, <2>2, StaysChecked DEF Good
  <2>4. Runs(b)'
    BY <1>3, <1>4, <1>6, <1>7 DEF Runs
  <2>5. \A d \in Waiting : ~Writes(d) /\ Waits(d)' /\ Above(b, d)
    <3>1. CASE c.mount
      BY <1>1, <1>2, <1>6, <3>1, OnlyChecks DEF Good, Final, Above
    <3>2. CASE ~c.mount
      <4>1. ASSUME NEW d \in Waiting
            PROVE  ~Writes(d) /\ Waits(d)' /\ Above(b, d)
        <5>1. ~Writes(d) /\ Waits(d) /\ Above(c, d)
          BY <1>1, <1>2, <4>1, AllAbove DEF Good
        <5>2. Leaving = {} /\ Leaving' = {}
          BY <1>1, <1>2, <1>6, <2>2 DEF Leaving
        <5>3. Waits(d)'
          BY <1>3, <1>6, <2>2, <2>3, <3>2, <5>1, <5>2, StillWaits
        <5> QED
          BY <1>2, <1>6, <3>2, <5>1, <5>3 DEF Above, Final
      <4> QED
        BY <4>1
    <3> QED
      BY <3>1, <3>2
  <2>6. Stack'
    BY <1>2, <2>1, <2>4, <2>5, PushedOne DEF Good
  <2> QED
    BY <1>3, <2>3, <2>6 DEF Good
<1>8. CASE c.mount /\ At("pet") # {}
  <2>1. PICK j \in At("pet") :
           TakeOff(IF c.mount THEN At("pet") ELSE {}) = <<unEquip(j)>>
    BY <1>8 DEF TakeOff
  <2>2. PICK a : a = unEquip(j)
    OBVIOUS
  <2>3. Continue(<<a, b>>)
    BY <1>2, <1>5, <2>1, <2>2, Pair
  <2>4. /\ calls' # <<>> /\ Head(calls') = a
        /\ \E T : <<a, b>> \in Seq(T)
    BY <1>2, <2>3, TwoOnTop DEF Good
  <2>5. \A d \in Waiting : d.call = "check" /\ Waits(d)' /\ ~Writes(d)
    BY <1>1, <1>2, <1>8, OnlyChecks DEF Good, Final
  <2>6. Checked'
    <3>1. Waiting # {} => Checked
      BY <1>2, <2>5, UnderCheck DEF Good
    <3>2. <<a, b>> # <<>> /\ <<a, b>>[Len(<<a, b>>)] = b
      OBVIOUS
    <3> QED
      BY <1>2, <1>6, <2>3, <2>4, <3>1, <3>2, EndsChecked DEF Good
  <2>7. j \in DOMAIN items /\ items[j].position = "pet" /\ "pet" # "bag"
    BY <2>1, InventoryAssumption DEF At
  <2>8. /\ a.call = "move" /\ a.item = j /\ a.to = "bag"
        /\ Runs(a)' /\ ~Writes(a) /\ \A d : Above(a, d)
    BY <1>2, <2>2, <2>6, <2>7, TakenOff DEF Good
  <2>9. Leaving' = {j}
    BY <2>4, <2>8 DEF Leaving
  <2>10. At("pet")' \subseteq {j}
    <3>1. \A i \in DOMAIN items :
             i # j /\ items[i].position = items[j].position =>
                items[i].position = "bag"
      BY <2>7 DEF Good, Inv, WellPlaced, OnePerPosition
    <3>2. \A i \in At("pet") : i \in DOMAIN items /\ items[i].position = "pet"
      BY DEF At
    <3> QED
      BY <1>3, <2>7, <3>1, <3>2
  <2>11. Waits(b)' /\ ~Writes(b)
    BY <1>4, <1>6, <1>8, <2>9, <2>10 DEF Waits, Writes
  <2>12. \A d \in Waiting : Above(b, d)
    BY <2>5 DEF Above
  <2>13. Stack'
    BY <1>2, <2>3, <2>5, <2>8, <2>11, <2>12, PushedTwo DEF Good
  <2> QED
    BY <1>3, <2>6, <2>13 DEF Good
<1> QED
  BY <1>4, <1>7, <1>8

\* A round of checkConditions that begins.
LEMMA Begins ==
  ASSUME NEW a, NEW n \in Nat \ {0}, NEW changed \in BOOLEAN,
         a = Check(n, changed), ~changed => n = 1
  PROVE  /\ a.call = "check" /\ Round(a)
         /\ Runs(a)' /\ Waits(a)' /\ ~Writes(a)
         /\ \A c : Above(c, a)
         /\ \A d : d.call = "check" \/ (d.call = "move" /\ d.to = "pet")
                    => Above(a, d)
<1>1. a.call = "check" /\ a.from = n /\ a.changed = changed
  BY DEF Check
<1>2. Round(a)
  BY <1>1 DEF Round
<1> QED
  BY <1>1, <1>2 DEF Runs, Waits, Writes, Round, Above, Final

LEMMA RidesGood == ASSUME Good, Inv', Rides PROVE Good'
<1>1. PICK c : c = Head(calls)
  OBVIOUS
<1>2. PICK a : a = CheckConditions
  OBVIOUS
<1>3. /\ calls # <<>> /\ c.call = "ride" /\ riding' = c.mount
      /\ UNCHANGED <<items, kamas, level, market, unchecked>>
      /\ Continue(<<a>>)
  BY <1>1, <1>2 DEF Rides, Running
<1>4. c.mount \in BOOLEAN /\ (c.mount => At("pet") = {})
  BY <1>1, <1>3, AllAbove DEF Good, Runs
<1>5. Typed'
  BY <1>3, <1>4 DEF Good, Typed
<1>6. \A p : At(p)' = At(p)
  BY <1>3 DEF At
<1>7. Worn'
  BY <1>3, <1>4, <1>6
     DEF Good, Worn, WornWell, WornFits, Exclusive, OnceWorn, QuickUse
<1>8. OnlyLess /\ OthersStay
  BY <1>3, <1>6 DEF OnlyLess, OthersStay, Good, Typed
<1>9. /\ a.call = "check" /\ Runs(a)'
      /\ \A d : d.call = "check" \/ (d.call = "move" /\ d.to = "pet")
                    => Above(a, d)
  <2>1. a = Check(1, FALSE) /\ 1 \in Nat \ {0} /\ FALSE \in BOOLEAN
    BY <1>2 DEF CheckConditions
  <2> QED
    BY <2>1, Begins
<1>10. \A d \in Waiting : /\ ~Writes(d) /\ Waits(d)
                          /\ d.call = "check" \/ (d.call = "move" /\ d.to = "pet")
  BY <1>1, <1>3, AllAbove DEF Good, Above
<1>11. Head(calls') = a /\ calls' # <<>> /\ \E T : <<a>> \in Seq(T)
  BY <1>3, OneOnTop DEF Good
<1>12. Checked'
  <2>1. Waiting # {} => Checked
    BY <1>3, <1>10, UnderCheck DEF Good
  <2>2. <<a>> # <<>> /\ <<a>>[Len(<<a>>)] = a
    OBVIOUS
  <2> QED
    BY <1>3, <1>9, <1>11, <2>1, <2>2, EndsChecked DEF Good
<1>13. ASSUME NEW d \in Waiting PROVE Waits(d)'
  <2>1. CASE c.mount
    BY <1>1, <1>3, <2>1, OnlyChecks DEF Good, Final
  <2>2. CASE ~c.mount
    <3>1. Leaving = {} /\ Leaving' = {}
      BY <1>1, <1>3, <1>9, <1>11 DEF Leaving
    <3> QED
      BY <1>3, <1>8, <1>10, <1>12, <2>2, <3>1, StillWaits
  <2> QED
    BY <2>1, <2>2
<1>14. Stack'
  BY <1>3, <1>9, <1>10, <1>13, PushedOne DEF Good
<1> QED
  BY <1>5, <1>7, <1>12, <1>14 DEF Good

LEMMA Least == ASSUME NEW S \in SUBSET Nat, S # {} PROVE Min(S) \in S
<1> DEFINE Less == OpToRel(<, Nat)
<1>1. IsWellFoundedOn(Less, Nat)
  BY NatLessThanWellFounded
<1>2. \A m, n \in Nat : m < n => <<m, n>> \in Less
  BY DEF OpToRel
<1> HIDE DEF Less
<1>3. PICK x \in S : \A y \in S : ~ (<<y, x>> \in Less)
  BY <1>1, WFMin
<1>4. ASSUME NEW y \in S PROVE x <= y
  <2>1. x \in Nat /\ y \in Nat /\ ~(y < x)
    BY <1>2, <1>3
  <2> QED
    BY <2>1
<1> QED
  BY <1>4 DEF Min

LEMMA UnwearsGood == ASSUME Good, Inv', Unwears PROVE Good'
<1>1. PICK c : c = Head(calls)
  OBVIOUS
<1>2. PICK m : m = Min(FailingFrom(c.from))
  OBVIOUS
<1>3. PICK p : p = CheckOrder[m]
  OBVIOUS
<1>4. /\ calls # <<>> /\ c.call = "check" /\ FailingFrom(c.from) # {}
      /\ UNCHANGED <<items, kamas, level, riding, market, unchecked>>
  BY <1>1 DEF Unwears, Running
<1>5. /\ Typed' /\ Worn' /\ (Settled => Settled')
      /\ OnlyLess /\ OthersStay
      /\ \A q : At(q)' = At(q)
  BY <1>4, NothingWritten DEF Good
<1>6. /\ m \in Nat \ {0} /\ Failing(p)
      /\ p \in WornPosition \cup {"dragoturkey"}
  <2>1. c.from \in Nat \ {0}
    BY <1>1, <1>4, AllAbove DEF Good, Runs, Round
  <2>2. CheckOrder \in Seq(WornPosition \cup {"dragoturkey"})
    BY InventoryAssumption
  <2>3. Len(CheckOrder) \in Nat /\ \A n \in 1..Len(CheckOrder) :
           CheckOrder[n] \in WornPosition \cup {"dragoturkey"}
    BY <2>2
  <2>4. \A n \in FailingFrom(c.from) :
           n \in Nat \ {0} /\ n \in 1..Len(CheckOrder) /\ Failing(CheckOrder[n])
    BY <2>1, <2>3 DEF FailingFrom
  <2>5. m \in FailingFrom(c.from)
    BY <1>2, <1>4, <2>4, Least
  <2> QED
    BY <1>3, <2>3, <2>4, <2>5
<1>7. PICK b : b = Check(m + 1, TRUE)
  OBVIOUS
<1>8. /\ b.call = "check" /\ Waits(b)' /\ ~Writes(b)
      /\ \A d : Above(d, b)
      /\ \A d : d.call = "check" \/ (d.call = "move" /\ d.to = "pet")
                    => Above(b, d)
  <2>1. m + 1 \in Nat \ {0} /\ TRUE \in BOOLEAN
    BY <1>6
  <2> QED
    BY <1>7, <2>1, Begins
<1>9. \A d \in Waiting : /\ ~Writes(d) /\ Waits(d)
                         /\ d.call = "check" \/ (d.call = "move" /\ d.to = "pet")
  BY <1>1, <1>4, AllAbove DEF Good, Above
<1>10. Waiting # {} => Checked
  BY <1>4, <1>9, UnderCheck DEF Good
<1>11. Leaving = {}
  BY <1>1, <1>4 DEF Leaving
<1>12. ASSUME NEW a, Continue(<<a, b>>)
       PROVE  Checked' /\ calls' # <<>> /\ Head(calls') = a
  <2>1. /\ calls' # <<>> /\ Head(calls') = a
        /\ \E T : <<a, b>> \in Seq(T)
    BY <1>4, <1>12, TwoOnTop DEF Good
  <2>2. <<a, b>> # <<>> /\ <<a, b>>[Len(<<a, b>>)] = b
    OBVIOUS
  <2>3. Checked'
    BY <1>4, <1>8, <1>10, <1>12, <2>1, <2>2, EndsChecked DEF Good
  <2> QED
    BY <2>1, <2>3
<1>13. CASE p = "dragoturkey"
  <2>1. PICK a : a = MountOrDismount(FALSE)
    OBVIOUS
  <2>2. a.call = "mount" /\ a.mount = FALSE
    BY <2>1 DEF MountOrDismount
  <2>3. Continue(<<a, b>>)
    BY <1>1, <1>2, <1>3, <1>7, <1>13, <2>1 DEF Unwears
  <2>4. Checked' /\ calls' # <<>> /\ Head(calls') = a
    BY <1>12, <2>3
  <2>5. Runs(a)'
    BY <2>2 DEF Runs
  <2>6. Leaving' = {}
    BY <2>2, <2>4 DEF Leaving
  <2>7. ASSUME NEW d \in Waiting
        PROVE  ~Writes(d) /\ Waits(d)' /\ Above(a, d) /\ Above(b, d)
    <3>1. Waits(d)'
      BY <1>5, <1>9, <1>11, <2>2, <2>4, <2>6, StillWaits
    <3> QED
      BY <1>8, <1>9, <2>2, <3>1 DEF Above, Final
  <2>8. Stack'
    BY <1>4, <1>8, <2>3, <2>5, <2>7, PushedTwo DEF Good
  <2> QED
    BY <1>5, <2>4, <2>8 DEF Good
<1>14. CASE p # "dragoturkey"
  <2>1. PICK j \in At(p) : Continue(<<unEquip(j), b>>)
    BY <1>1, <1>2, <1>3, <1>7, <1>14 DEF Unwears
  <2>2. PICK a : a = unEquip(j)
    OBVIOUS
  <2>3. Continue(<<a, b>>)
    BY <2>1, <2>2
  <2>4. Checked' /\ calls' # <<>> /\ Head(calls') = a
    BY <1>12, <2>3
  <2>5. /\ j \in DOMAIN items /\ items[j].position = p /\ p \in WornPosition
        /\ p # "bag"
    BY <1>6, <1>14, InventoryAssumption DEF At, WornPosition
  <2>6. /\ a.call = "move" /\ a.item = j /\ a.to = "bag"
        /\ Runs(a)' /\ ~Writes(a) /\ \A d : Above(a, d)
    BY <1>4, <2>2, <2>4, <2>5, TakenOff DEF Good
  <2>7. Leaving' = {j}
    BY <2>4, <2>6 DEF Leaving
  <2>8. ASSUME NEW d \in Waiting
        PROVE  ~Writes(d) /\ Waits(d)' /\ Above(a, d) /\ Above(b, d)
    <3>1. CASE d.call = "check"
      BY <1>8, <1>9, <2>6, <3>1 DEF Waits, Round
    <3>2. CASE d.call = "move" /\ d.to = "pet"
      <4>1. "pet" \in WornPosition
        BY InventoryAssumption DEF WornPosition
      <4>2. /\ d.item \in DOMAIN items /\ At("pet") = {}
            /\ "pet" \in Template[items[d.item].kind].Fits
            /\ ~riding
        BY <1>1, <1>4, <1>9, <3>2, <4>1 DEF Waits, Movable, Fit
      <4>3. Template[items[d.item].kind].Fits = {"pet"}
        BY <4>2, InventoryAssumption DEF Good, Typed
      <4>4. d.item # j
        <5>1. j \notin At("pet")
          BY <4>2
        <5>2. p \in Template[items[j].kind].Fits /\ p # "pet"
          BY <2>1, <2>5, <4>2 DEF Good, Worn, WornWell, WornFits, At
        <5> QED
          BY <4>3, <5>2
      <4>5. Waits(d)'
        BY <1>4, <1>5, <1>9, <1>11, <2>4, <2>7, <3>2, <4>2, <4>4, StillWaits
      <4> QED
        BY <1>8, <1>9, <2>6, <3>2, <4>5
    <3> QED
      BY <1>9, <3>1, <3>2
  <2>9. Stack'
    BY <1>4, <1>8, <2>3, <2>6, <2>8, PushedTwo DEF Good
  <2> QED
    BY <1>5, <2>4, <2>9 DEF Good
<1> QED
  BY <1>13, <1>14

LEMMA ChecksGood == ASSUME Good, Inv', Checks PROVE Good'
<1>1. PICK c : c = Head(calls)
  OBVIOUS
<1>2. /\ calls # <<>> /\ c.call = "check" /\ FailingFrom(c.from) = {}
      /\ Continue(IF c.changed THEN <<CheckConditions>> ELSE <<>>)
      /\ unchecked' = (unchecked /\ c.changed)
      /\ UNCHANGED <<items, kamas, level, riding, market>>
  BY <1>1 DEF Checks, Running
<1>3. /\ Worn' /\ OnlyLess /\ OthersStay
      /\ \A q : At(q)' = At(q)
  BY <1>2, SameItems DEF Good
<1>4. c.changed \in BOOLEAN /\ (~c.changed => c.from = 1)
  BY <1>1, <1>2, AllAbove DEF Good, Runs, Round
<1>5. Typed'
  BY <1>2, <1>4 DEF Good, Typed
<1>6. \A d \in Waiting : /\ ~Writes(d) /\ Waits(d)
                         /\ d.call = "check" \/ (d.call = "move" /\ d.to = "pet")
                         /\ ~(d.call = "move" /\ d.to = "pet" /\ riding')
  <2>1. ASSUME NEW d \in Waiting
        PROVE  /\ ~Writes(d) /\ Waits(d)
               /\ d.call = "check" \/ (d.call = "move" /\ d.to = "pet")
    BY <1>1, <1>2, AllAbove DEF Good, Above
  <2>2. ASSUME NEW d \in Waiting, d.call = "move", d.to = "pet", riding'
        PROVE  FALSE
    BY <1>1, <1>2, <2>1, <2>2 DEF Waits
  <2> QED
    BY <2>1, <2>2
<1>7. Waiting # {} => Checked
  BY <1>2, <1>6, UnderCheck DEF Good
<1>8. Leaving = {}
  BY <1>1, <1>2 DEF Leaving
<1>9. CASE c.changed
  <2>1. PICK a : a = CheckConditions
    OBVIOUS
  <2>2. Continue(<<a>>)
    BY <1>2, <1>9, <2>1
  <2>3. /\ a.call = "check" /\ Runs(a)'
        /\ \A d : d.call = "check" \/ (d.call = "move" /\ d.to = "pet")
                      => Above(a, d)
    <3>1. a = Check(1, FALSE) /\ 1 \in Nat \ {0} /\ FALSE \in BOOLEAN
      BY <2>1 DEF CheckConditions
    <3> QED
      BY <3>1, Begins
  <2>4. Head(calls') = a /\ calls' # <<>> /\ \E T : <<a>> \in Seq(T)
    BY <1>2, <2>2, OneOnTop DEF Good
  <2>5. Checked'
    <3>1. <<a>> # <<>> /\ <<a>>[Len(<<a>>)] = a
      OBVIOUS
    <3> QED
      BY <1>2, <1>7, <2>2, <2>3, <2>4, <3>1, EndsChecked DEF Good
  <2>6. Leaving' = {}
    BY <2>3, <2>4 DEF Leaving
  <2>7. ASSUME NEW d \in Waiting PROVE Waits(d)'
    BY <1>3, <1>6, <1>8, <2>5, <2>6, StillWaits
  <2>8. Stack'
    BY <1>2, <1>6, <2>2, <2>3, <2>7, PushedOne DEF Good
  <2> QED
    BY <1>3, <1>5, <2>5, <2>8 DEF Good
<1>10. CASE ~c.changed
  <2>1. Continue(<<>>)
    BY <1>2, <1>10
  <2>2. \E T : <<>> \in Seq(T)
    <3>1. <<>> \in Seq({})
      OBVIOUS
    <3> QED
      BY <3>1
  <2>3. Leaving' = {}
    BY <1>2, <2>1, Returned DEF Good
  <2>4. ASSUME NEW d \in Waiting PROVE Waits(d)'
    <3>1. Checked'
      BY <1>2, <1>7, <2>1, <2>2, LastStays DEF Good
    <3> QED
      BY <1>3, <1>6, <1>8, <2>3, <3>1, StillWaits
  <2>5. Stack'
    BY <1>2, <1>6, <2>1, <2>4, Popped DEF Good
  <2>6. Settled'
    <3>1. \A p \in WornPosition \cup {"dragoturkey"} : ~Failing(p)
      <4>1. FailingFrom(1) = {}
        BY <1>2, <1>4, <1>10
      <4> QED
        BY <4>1, InventoryAssumption DEF FailingFrom
    <3>2. ASSUME NEW p PROVE Failing(p)' <=> Failing(p)
      BY <1>2, <1>3 DEF Failing, Passes, WornKinds
    <3> QED
      BY <3>1, <3>2 DEF Settled
  <2> QED
    BY <1>3, <1>5, <2>5, <2>6 DEF Good
<1> QED
  BY <1>4, <1>9, <1>10

LEMMA EarnsGood == ASSUME Good, Inv', Earns PROVE Good'
<1>1. PICK c : c = Head(calls)
  OBVIOUS
<1>2. /\ calls # <<>> /\ c.call = "earn" /\ Continue(<<>>)
      /\ kamas' = kamas + c.quantity
      /\ UNCHANGED <<items, level, riding, market, unchecked>>
  BY <1>1 DEF Earns, Running
<1>3. /\ Worn' /\ OnlyLess /\ OthersStay
      /\ \A q : At(q)' = At(q)
  BY <1>2, SameItems DEF Good
<1>4. c.quantity \in Nat
  BY <1>1, <1>2, AllAbove DEF Good, Runs
<1>5. Typed'
  BY <1>2, <1>4 DEF Good, Typed
<1>6. Leaving = {}
  BY <1>1, <1>2 DEF Leaving
<1>7. Stack' /\ (Checked => Checked')
  BY <1>1, <1>2, <1>3, <1>6, ReturnGood
<1>8. Settled => Settled'
  <2>1. SameWorn
    BY <1>2, <1>3 DEF SameWorn
  <2> QED
    BY <2>1, StillSettled
<1> QED
  BY <1>3, <1>5, <1>7, <1>8 DEF Good

LEMMA Triple == ASSUME NEW a, NEW b, NEW c PROVE <<a, b>> \o <<c>> = <<a, b, c>>
<1> DEFINE s == <<a, b>>
           t == <<c>>
           u == <<a, b, c>>
           v == s \o t
<1>1. PICK S : S = {a, b, c}
  OBVIOUS
<1>2. /\ s \in Seq(S) /\ Len(s) = 2 /\ s[1] = a /\ s[2] = b
      /\ t \in Seq(S) /\ Len(t) = 1 /\ t[1] = c
      /\ u \in Seq(S) /\ Len(u) = 3 /\ u[1] = a /\ u[2] = b /\ u[3] = c
  BY <1>1
<1> HIDE DEF s, t, u
<1>3. /\ v \in Seq(S) /\ Len(v) = Len(s) + Len(t)
      /\ \A m \in 1..Len(v) :
            v[m] = IF m <= Len(s) THEN s[m] ELSE t[m - Len(s)]
  BY <1>2, Concatenated
<1> HIDE DEF v
<1>4. Len(v) = 3 /\ 1 \in 1..Len(v) /\ 2 \in 1..Len(v) /\ 3 \in 1..Len(v)
  BY <1>2, <1>3
<1>5. v[1] = s[1] /\ v[2] = s[2] /\ v[3] = t[3 - 2]
  BY <1>2, <1>3, <1>4
<1>6. \A n \in 1..Len(v) : v[n] = u[n]
  BY <1>2, <1>4, <1>5
<1>7. v = u
  BY <1>2, <1>3, <1>4, <1>6, SameElements
<1> QED
  BY <1>7 DEF s, t, u, v

\* The stack a handler begins with.
LEMMA Fresh ==
  ASSUME NEW s, \E T : s \in Seq(T), calls' = s, s # <<>>, Runs(s[1])',
         \A m \in 2..Len(s) : ~Writes(s[m]) /\ Waits(s[m])',
         \A m, n \in 1..Len(s) : m < n => Above(s[m], s[n])
  PROVE  Stack'
<1>1. \A c \in Innermost' : Runs(c)'
  BY DEF Innermost
<1>2. \A c \in Waiting' : ~Writes(c) /\ Waits(c)'
  BY DEF Waiting
<1>3. \A m \in 3..Len(s) : ~Writes(s[m])
  BY DEF Writes
<1> QED
  BY <1>1, <1>2, <1>3 DEF Stack, Above, Final, Writes

LEMMA FreshOne ==
  ASSUME NEW a, calls' = <<a>>, Runs(a)'
  PROVE  /\ Stack'
         /\ a.call \in {"check", "ride"} => Checked'
<1> DEFINE s == <<a>>
<1>1. \E T : s \in Seq(T)
  <2>1. s \in Seq({a})
    OBVIOUS
  <2> QED
    BY <2>1
<1>2. /\ s # <<>> /\ Len(s) = 1 /\ s[1] = a
      /\ calls' = s
  OBVIOUS
<1> HIDE DEF s
<1>3. Stack'
  BY <1>1, <1>2, Fresh
<1> QED
  BY <1>2, <1>3 DEF Checked

LEMMA TwoBegin ==
  ASSUME NEW a, NEW b, calls' = <<a, b>>
  PROVE  /\ calls' # <<>> /\ Head(calls') = a
         /\ b.call \in {"check", "ride"} => Checked'
BY DEF Checked

LEMMA FreshTwo ==
  ASSUME NEW a, NEW b, calls' = <<a, b>>, Runs(a)',
         ~Writes(b), Waits(b)', Above(a, b)
  PROVE  Stack'
<1> DEFINE s == <<a, b>>
<1>1. \E T : s \in Seq(T)
  <2>1. s \in Seq({a, b})
    OBVIOUS
  <2> QED
    BY <2>1
<1>2. /\ s # <<>> /\ Len(s) = 2 /\ s[1] = a /\ s[2] = b
      /\ calls' = s
  OBVIOUS
<1> HIDE DEF s
<1>3. \A m \in 2..Len(s) : m = 2
  BY <1>2
<1>4. \A m, n \in 1..Len(s) : m < n => m = 1 /\ n = 2
  BY <1>2
<1> QED
  BY <1>1, <1>2, <1>3, <1>4, Fresh

LEMMA ThreeBegin ==
  ASSUME NEW a, NEW b, NEW c, calls' = <<a, b, c>>
  PROVE  /\ calls' # <<>> /\ Head(calls') = a
         /\ c.call \in {"check", "ride"} => Checked'
BY DEF Checked

LEMMA FreshThree ==
  ASSUME NEW a, NEW b, NEW c, calls' = <<a, b, c>>, Runs(a)',
         ~Writes(b), Waits(b)', ~Writes(c), Waits(c)',
         Above(a, b), Above(a, c), Above(b, c)
  PROVE  Stack'
<1> DEFINE s == <<a, b, c>>
<1>1. \E T : s \in Seq(T)
  <2>1. s \in Seq({a, b, c})
    OBVIOUS
  <2> QED
    BY <2>1
<1>2. /\ s # <<>> /\ Len(s) = 3 /\ s[1] = a /\ s[2] = b /\ s[3] = c
      /\ calls' = s
  OBVIOUS
<1> HIDE DEF s
<1>3. \A m \in 2..Len(s) : m = 2 \/ m = 3
  BY <1>2
<1>4. \A m, n \in 1..Len(s) :
         m < n => (m = 1 /\ n = 2) \/ (m = 1 /\ n = 3) \/ (m = 2 /\ n = 3)
  BY <1>2
<1> QED
  BY <1>1, <1>2, <1>3, <1>4, Fresh

LEMMA IdleSettled ==
  ASSUME Good, Idle PROVE Settled /\ Typed /\ Worn /\ WellPlaced
BY DEF Good, Idle, Checked, Inv

LEMMA FirstCheck ==
  ASSUME NEW a, a = CheckConditions
  PROVE  /\ a.call = "check" /\ Runs(a)' /\ Waits(a)' /\ ~Writes(a)
         /\ \A c : Above(c, a)
<1>1. a = Check(1, FALSE) /\ 1 \in Nat \ {0} /\ FALSE \in BOOLEAN
  BY DEF CheckConditions
<1> QED
  BY <1>1, Begins

\* An item is put on a position where it is not.
LEMMA EquipBegins ==
  ASSUME Good, Inv', Idle, NEW i \in DOMAIN items, NEW p \in WornPosition,
         items[i].position # p,
         Handles(Equip(i, p) \o <<CheckConditions>>)
  PROVE  Good'
<1>1. /\ UNCHANGED <<items, kamas, level, riding, market, unchecked>>
      /\ calls' = (TakeOff(At(p)) \o <<PutOn(i, p, At(p) # {})>>)
                  \o <<CheckConditions>>
  BY DEF Handles, Equip
<1>2. /\ Typed' /\ Worn' /\ Settled'
      /\ \A q : At(q)' = At(q)
  BY <1>1, IdleSettled, NothingWritten
<1>3. PICK z : z = CheckConditions
  OBVIOUS
<1>4. /\ z.call = "check" /\ Waits(z)' /\ ~Writes(z) /\ \A d : Above(d, z)
  BY <1>3, FirstCheck
<1>5. CASE At(p) = {}
  <2>1. PICK b : b = PutOn(i, p, FALSE)
    OBVIOUS
  <2>2. b.call = "put on" /\ b.item = i /\ b.to = p /\ b.freed = FALSE
    BY <2>1 DEF PutOn
  <2>3. calls' = <<b, z>>
    <3>1. TakeOff(At(p)) = <<>> /\ (At(p) # {}) = FALSE
      BY <1>5 DEF TakeOff
    <3>2. calls' = (<<>> \o <<b>>) \o <<z>>
      BY <1>1, <1>3, <2>1, <3>1
    <3> QED
      BY <3>2, Joined
  <2>4. Checked'
    BY <1>4, <2>3, TwoBegin
  <2>5. Runs(b)'
    BY <1>1, <1>2, <1>5, <2>2, <2>4 DEF Runs
  <2>6. Stack'
    BY <1>4, <2>3, <2>5, FreshTwo
  <2> QED
    BY <1>2, <2>6 DEF Good
<1>6. CASE At(p) # {}
  <2>1. PICK j \in At(p) : TakeOff(At(p)) = <<unEquip(j)>>
    BY <1>6 DEF TakeOff
  <2>2. PICK a : a = unEquip(j)
    OBVIOUS
  <2>3. PICK b : b = PutOn(i, p, TRUE)
    OBVIOUS
  <2>4. b.call = "put on" /\ b.item = i /\ b.to = p /\ b.freed = TRUE
    BY <2>3 DEF PutOn
  <2>5. calls' = <<a, b, z>>
    <3>1. (At(p) # {}) = TRUE
      BY <1>6
    <3>2. calls' = (<<a>> \o <<b>>) \o <<z>>
      BY <1>1, <1>3, <2>1, <2>2, <2>3, <3>1
    <3>3. calls' = <<a, b>> \o <<z>>
      BY <3>2, Pair
    <3> QED
      BY <3>3, Triple
  <2>6. Checked' /\ calls' # <<>> /\ Head(calls') = a
    BY <1>4, <2>5, ThreeBegin
  <2>7. j \in DOMAIN items /\ items[j].position = p /\ p # "bag"
    BY <2>1, InventoryAssumption DEF At, WornPosition
  <2>8. /\ a.call = "move" /\ a.item = j /\ a.to = "bag"
        /\ Runs(a)' /\ ~Writes(a) /\ \A d : Above(a, d)
    BY <1>1, <2>2, <2>6, <2>7, TakenOff, IdleSettled
  <2>9. Leaving' = {j}
    BY <2>6, <2>8 DEF Leaving
  <2>10. At(p)' \subseteq {j}
    <3>1. \A l \in DOMAIN items :
             l # j /\ items[l].position = items[j].position =>
                items[l].position = "bag"
      BY <2>7, IdleSettled DEF WellPlaced, OnePerPosition
    <3>2. \A l \in At(p) : l \in DOMAIN items /\ items[l].position = p
      BY DEF At
    <3> QED
      BY <1>2, <2>7, <3>1, <3>2
  <2>11. Waits(b)' /\ ~Writes(b)
    BY <1>1, <2>4, <2>6, <2>7, <2>9, <2>10 DEF Waits, Writes
  <2>12. Stack'
    BY <1>4, <2>5, <2>8, <2>11, FreshThree
  <2> QED
    BY <1>2, <2>12 DEF Good
<1> QED
  BY <1>5, <1>6

LEMMA MovementGood ==
  ASSUME Good, Inv', NEW i \in DOMAIN items, NEW n \in 1..items[i].quantity,
         NEW p \in Position, ItemsRequestMovement(i, n, p)
  PROVE  Good'
<1>1. p # items[i].position
  BY DEF ItemsRequestMovement
<1>2. /\ Idle /\ Typed' /\ Worn' /\ Settled'
      /\ UNCHANGED <<items, kamas, level, riding, market, unchecked>>
      /\ \A q : At(q)' = At(q)
  <2>1. /\ Idle
        /\ UNCHANGED <<items, kamas, level, riding, market, unchecked>>
    BY DEF ItemsRequestMovement, Handles
  <2> QED
    BY <2>1, IdleSettled, NothingWritten
<1>3. CASE /\ p = "bag" /\ items[i].position \in EquipPosition
           /\ Handles(<<unEquip(i), CheckConditions>>)
  <2>1. PICK a : a = unEquip(i)
    OBVIOUS
  <2>2. PICK z : z = CheckConditions
    OBVIOUS
  <2>3. calls' = <<a, z>>
    BY <1>3, <2>1, <2>2 DEF Handles
  <2>4. /\ z.call = "check" /\ Waits(z)' /\ ~Writes(z) /\ \A d : Above(d, z)
    BY <2>2, FirstCheck
  <2>5. Checked'
    BY <2>3, <2>4, TwoBegin
  <2>6. Runs(a)'
    BY <1>1, <1>2, <1>3, <2>1, <2>5, TakenOff, IdleSettled
  <2>7. Stack'
    BY <2>3, <2>4, <2>6, FreshTwo
  <2> QED
    BY <1>2, <2>7 DEF Good
<1>4. CASE /\ \/ p = "bag" /\ items[i].position \in QuickPosition
              \/ /\ p \in QuickPosition
                 /\ \/ /\ items[i].position = "bag"
                       /\ Template[items[i].kind].CanUse
                    \/ items[i].position \in QuickPosition
           /\ Handles(<<Move(i, n, p)>>)
  <2>1. PICK a : a = Move(i, n, p)
    OBVIOUS
  <2>2. a.call = "move" /\ a.item = i /\ a.quantity = n /\ a.to = p
    BY <2>1 DEF Move
  <2>3. calls' = <<a>>
    BY <1>4, <2>1 DEF Handles
  <2>4. /\ items[i].position \notin WornPosition
        /\ p \notin WornPosition
    BY <1>4, InventoryAssumption DEF WornPosition
  <2>5. p \in QuickPosition => Template[items[i].kind].CanUse
    BY <1>2, <1>4, IdleSettled, InventoryAssumption DEF Worn, QuickUse
  <2>6. PICK k : k = items[i].kind
    OBVIOUS
  <2>7. Fit(k, n, p)'
    BY <2>4, <2>5, <2>6 DEF Fit
  <2>8. p # "weapon" /\ p # "shield" /\ p # "pet"
    BY <2>4, InventoryAssumption DEF WornPosition
  <2>9. Movable(a)'
    BY <1>1, <1>2, <2>2, <2>4, <2>6, <2>7 DEF Movable
  <2>10. InTheWay(items[i].kind, p)' = {}
    BY <2>8 DEF InTheWay
  <2>11. Runs(a)'
    BY <2>2, <2>8, <2>9, <2>10 DEF Runs
  <2>12. Stack'
    BY <2>3, <2>11, FreshOne
  <2> QED
    BY <1>2, <2>12 DEF Good
<1>5. CASE p \in EquipPosition /\ Handles(Equip(i, p) \o <<CheckConditions>>)
  <2>1. p \in WornPosition
    BY <1>5 DEF WornPosition
  <2> QED
    BY <1>1, <1>2, <1>5, <2>1, EquipBegins
<1> QED
  BY <1>3, <1>4, <1>5 DEF ItemsRequestMovement

LEMMA EatGood ==
  ASSUME Good, Inv', NEW i \in DOMAIN items, EatCandy(i) PROVE Good'
<1>1. "food" \in WornPosition /\ items[i].position # "food"
  BY InventoryAssumption DEF EatCandy, WornPosition
<1> QED
  BY <1>1, EquipBegins DEF EatCandy, Handles

LEMMA DestroyGood ==
  ASSUME Good, Inv', NEW i \in DOMAIN items, NEW n \in 1..items[i].quantity,
         ItemsDestroy(i, n)
  PROVE  Good'
<1>1. /\ Idle /\ items[i].position # "food"
      /\ UNCHANGED <<items, kamas, level, riding, market, unchecked>>
      /\ calls' = <<Remove(i, n, TRUE), Earn(n)>>
                  \o IF items[i].position \in EquipPosition
                     THEN <<CheckConditions>> ELSE <<>>
  BY DEF ItemsDestroy, Handles
<1>2. Typed' /\ Worn' /\ Settled'
  BY <1>1, IdleSettled, NothingWritten
<1>3. PICK a : a = Remove(i, n, TRUE)
  OBVIOUS
<1>4. PICK b : b = Earn(n)
  OBVIOUS
<1>5. /\ a.call = "remove" /\ a.item = i /\ a.quantity = n /\ a.wanted = TRUE
      /\ b.call = "earn" /\ b.quantity = n
  BY <1>3, <1>4 DEF Remove, Earn
<1>6. n \in Nat
  BY <1>1, IdleSettled DEF Typed
<1>7. Waits(b)' /\ ~Writes(b) /\ Above(a, b)
  BY <1>5, <1>6 DEF Waits, Writes, Above, Final
<1>8. CASE items[i].position \in EquipPosition
  <2>1. PICK z : z = CheckConditions
    OBVIOUS
  <2>2. calls' = <<a, b, z>>
    BY <1>1, <1>3, <1>4, <1>8, <2>1, Triple
  <2>3. /\ z.call = "check" /\ Waits(z)' /\ ~Writes(z) /\ \A d : Above(d, z)
    BY <2>1, FirstCheck
  <2>4. Checked'
    BY <2>2, <2>3, ThreeBegin
  <2>5. Runs(a)'
    BY <1>1, <1>5, <2>4 DEF Runs
  <2>6. Stack'
    BY <1>7, <2>2, <2>3, <2>5, FreshThree
  <2> QED
    BY <1>2, <2>6 DEF Good
<1>9. CASE items[i].position \notin EquipPosition
  <2>1. calls' = <<a, b>>
    <3>1. <<a, b>> \o <<>> = <<a, b>>
      OBVIOUS
    <3> QED
      BY <1>1, <1>3, <1>4, <1>9, <3>1
  <2>2. Runs(a)'
    BY <1>1, <1>5, <1>9 DEF Runs, WornPosition
  <2>3. Stack'
    BY <1>7, <2>1, <2>2, FreshTwo
  <2> QED
    BY <1>2, <2>3 DEF Good
<1> QED
  BY <1>8, <1>9

LEMMA OthersGood ==
  ASSUME Good, Inv',
         \/ \E mount \in BOOLEAN : RideOrWalk(mount)
         \/ OpenMarket \/ LeaveMarket
         \/ \E k \in Kind : BigStoreBuy(k)
         \/ \E lv \in Level : SetLevel(lv)
         \/ HandlerFails
  PROVE  Good'
<1>1. ASSUME NEW mount \in BOOLEAN, RideOrWalk(mount) PROVE Good'
  <2>1. PICK a : a = MountOrDismount(mount)
    OBVIOUS
  <2>2. a.call = "mount" /\ a.mount = mount
    BY <2>1 DEF MountOrDismount
  <2>3. /\ Idle /\ calls' = <<a>>
        /\ UNCHANGED <<items, kamas, level, riding, market, unchecked>>
    BY <1>1, <2>1 DEF RideOrWalk, Handles
  <2>4. Runs(a)'
    BY <2>2 DEF Runs
  <2>5. Stack'
    BY <2>3, <2>4, FreshOne
  <2>6. Typed' /\ Worn' /\ Settled'
    BY <2>3, IdleSettled, NothingWritten
  <2> QED
    BY <2>5, <2>6 DEF Good
<1>2. CASE OpenMarket \/ LeaveMarket
  <2>1. /\ Idle /\ calls' = <<>> /\ market' \in BOOLEAN
        /\ UNCHANGED <<items, kamas, level, riding, unchecked>>
    BY <1>2 DEF OpenMarket, LeaveMarket, Idle
  <2>2. Stack'
    BY <2>1, EmptyStack
  <2>3. Worn' /\ \A q : At(q)' = At(q)
    BY <2>1, IdleSettled, SameItems
  <2>4. Typed'
    BY <2>1, IdleSettled DEF Typed
  <2>5. Settled'
    <3>1. SameWorn
      BY <2>1, <2>3 DEF SameWorn
    <3> QED
      BY <2>1, <3>1, IdleSettled, StillSettled
  <2> QED
    BY <2>2, <2>3, <2>4, <2>5 DEF Good
<1>3. ASSUME NEW k \in Kind, BigStoreBuy(k) PROVE Good'
  <2>1. PICK a : a = Add(k)
    OBVIOUS
  <2>2. a.call = "add" /\ a.kind = k
    BY <2>1 DEF Add
  <2>3. /\ Idle /\ calls' = <<a>>
        /\ Template[k].Price <= kamas /\ kamas' = kamas - Template[k].Price
        /\ UNCHANGED <<items, level, riding, market, unchecked>>
    BY <1>3, <2>1 DEF BigStoreBuy
  <2>4. Runs(a)'
    BY <2>2 DEF Runs
  <2>5. Stack'
    BY <2>3, <2>4, FreshOne
  <2>6. Worn' /\ \A q : At(q)' = At(q)
    BY <2>3, IdleSettled, SameItems
  <2>7. Typed'
    <3>1. kamas \in Nat /\ Template[k].Price \in Nat
      BY <2>3, IdleSettled, InventoryAssumption DEF Typed
    <3>2. kamas' \in Nat
      BY <2>3, <3>1
    <3> QED
      BY <2>3, <3>2, IdleSettled DEF Typed
  <2>8. Settled'
    <3>1. SameWorn
      BY <2>3, <2>6 DEF SameWorn
    <3> QED
      BY <2>3, <3>1, IdleSettled, StillSettled
  <2> QED
    BY <2>5, <2>6, <2>7, <2>8 DEF Good
<1>4. ASSUME NEW lv \in Level, SetLevel(lv) PROVE Good'
  <2>1. PICK z : z = CheckConditions
    OBVIOUS
  <2>2. /\ Idle /\ calls' = <<z>> /\ level' = lv
        /\ UNCHANGED <<items, kamas, riding, market, unchecked>>
    BY <1>4, <2>1 DEF SetLevel
  <2>3. z.call = "check" /\ Runs(z)'
    BY <2>1, FirstCheck
  <2>4. Stack' /\ Checked'
    BY <2>2, <2>3, FreshOne
  <2>5. Worn'
    BY <2>2, IdleSettled, SameItems
  <2>6. Typed'
    BY <2>2, IdleSettled DEF Typed
  <2> QED
    BY <2>4, <2>5, <2>6 DEF Good
<1>5. CASE HandlerFails
  <2>1. /\ calls' = <<>> /\ market' = FALSE /\ unchecked' = TRUE
        /\ UNCHANGED <<items, kamas, level, riding>>
    BY <1>5 DEF HandlerFails
  <2>2. Stack'
    BY <2>1, EmptyStack
  <2>3. Worn'
    BY <2>1, SameItems DEF Good
  <2>4. Typed' /\ Settled'
    BY <2>1 DEF Good, Typed, Settled
  <2> QED
    BY <2>2, <2>3, <2>4 DEF Good
<1> QED
  BY <1>1, <1>2, <1>3, <1>4, <1>5

LEMMA InitGood == Init => Good
<1> SUFFICES ASSUME Init PROVE Good
  OBVIOUS
<1>1. /\ items = <<>> /\ calls = <<>> /\ kamas = StartKamas /\ level \in Level
      /\ riding = FALSE /\ market = FALSE /\ unchecked = FALSE
  BY DEF Init
<1>2. DOMAIN items = {}
  BY <1>1
<1>3. Inv
  BY InitInv
<1>4. Typed
  BY <1>1, <1>2, InventoryAssumption DEF Typed
<1>5. Worn
  BY <1>1, <1>2 DEF Worn, WornWell, WornFits, Exclusive, OnceWorn, QuickUse, At
<1>6. Stack
  <2>1. <<>> \in Seq({}) /\ Len(<<>>) = 0
    OBVIOUS
  <2>2. /\ \E S : calls \in Seq(S)
        /\ \A m : m \notin 2..Len(calls) /\ m \notin 1..Len(calls)
                /\ m \notin 3..Len(calls)
    BY <1>1, <2>1
  <2>3. Innermost = {} /\ Waiting = {}
    BY <1>1, <2>2 DEF Innermost, Waiting
  <2> QED
    BY <2>2, <2>3 DEF Stack
<1>7. Settled
  BY <1>1, <1>2 DEF Settled, Failing, At
<1> QED
  BY <1>3, <1>4, <1>5, <1>6, <1>7 DEF Good

LEMMA GoodStep == Good /\ [Next]_vars => Good'
<1> SUFFICES ASSUME Good, [Next]_vars PROVE Good'
  OBVIOUS
<1>1. Inv'
  BY InvStep DEF Good
<1>2. CASE UNCHANGED vars
  <2>1. /\ UNCHANGED <<items, kamas, level, riding, market, unchecked>>
        /\ calls' = calls
    BY <1>2 DEF vars
  <2>2. Typed' /\ Worn' /\ (Settled => Settled')
    BY <2>1, NothingWritten DEF Good
  <2>3. /\ (Checked' <=> Checked) /\ Leaving' = Leaving
        /\ Innermost' = Innermost /\ Waiting' = Waiting
        /\ \A p : At(p)' = At(p)
        /\ \A k : AlreadyEquipped(k)' <=> AlreadyEquipped(k)
    BY <2>1 DEF Checked, Leaving, Innermost, Waiting, At, AlreadyEquipped,
       EquippedTemplates
  <2>4. \A k, n, p : /\ Fit(k, n, p)' <=> Fit(k, n, p)
                     /\ InTheWay(k, p)' = InTheWay(k, p)
    BY <2>1, <2>3 DEF Fit, InTheWay
  <2>5. \A c : /\ Movable(c)' <=> Movable(c)
               /\ Creatable(c)' <=> Creatable(c)
    BY <2>1, <2>3, <2>4 DEF Movable, Creatable
  <2>6. (Settled' <=> Settled)
    BY <2>1, <2>3 DEF Settled, Failing, Passes, WornKinds
  <2>7. ASSUME NEW c PROVE Runs(c)' <=> Runs(c)
    BY <2>1, <2>3, <2>4, <2>5, <2>6 DEF Runs
  <2>8. ASSUME NEW c PROVE Waits(c)' <=> Waits(c)
    BY <2>1, <2>3, <2>4, <2>5 DEF Waits
  <2>9. ASSUME NEW r, NEW c PROVE Owed(r, c)' <=> Owed(r, c)
    BY <2>1, <2>5 DEF Owed
  <2>10. Stack'
    BY <2>1, <2>3, <2>7, <2>8, <2>9 DEF Good, Stack, Writes, Above, Final
  <2> QED
    BY <1>1, <2>2, <2>3, <2>10 DEF Good
<1>3. CASE Step
  BY <1>1, <1>3, RemoveGood, UpdateGood, CreateGood, AddGood, JoinsGood,
     ClearsGood, PlacesGood, EquipNotAllowedGood, EquipRefusedGood, EquipsGood,
     MountRefusedGood, MountsGood, RidesGood, UnwearsGood, ChecksGood,
     EarnsGood DEF Step
<1>4. CASE Handler
  <2>1. CASE \E i \in DOMAIN items :
                \/ EatCandy(i)
                \/ \E n \in 1..items[i].quantity :
                      \/ ItemsDestroy(i, n)
                      \/ \E p \in Position : ItemsRequestMovement(i, n, p)
    BY <1>1, <2>1, EatGood, DestroyGood, MovementGood
  <2>2. CASE \/ \E mount \in BOOLEAN : RideOrWalk(mount)
             \/ OpenMarket \/ LeaveMarket
             \/ \E k \in Kind : BigStoreBuy(k)
             \/ \E lv \in Level : SetLevel(lv)
    BY <1>1, <2>2, OthersGood
  <2> QED
    BY <1>4, <2>1, <2>2 DEF Handler
<1>5. CASE HandlerFails
  BY <1>1, <1>5, OthersGood
<1> QED
  BY <1>2, <1>3, <1>4, <1>5 DEF Next

\* Every call on the stack finds what it relies on when it runs, after any
\* handler has been cut short anywhere.
THEOREM CallsFindTheirGround == Spec => []Good
BY InitGood, GoodStep, PTL DEF Spec

\* What is worn is one unit, where its type goes, and never a two-handed
\* weapon beside a shield nor a pet on a mount, at any moment of equip,
\* mountOrDismount and checkConditions.
THEOREM AlwaysWornWell == Spec => []WornWell
<1>1. Good => WornWell
  BY DEF Good, Worn
<1> QED
  BY <1>1, CallsFindTheirGround, PTL

\* Between handlers everything worn meets its conditions: whatever could break
\* one ends with checkConditions, and its last round finds none broken.
THEOREM ConditionsAlwaysHold == Spec => []ConditionsHold
<1>1. Good => ConditionsHold
  BY DEF Good, ConditionsHold, Idle, Checked, Settled
<1> QED
  BY <1>1, CallsFindTheirGround, PTL

LEMMA SetItemsAreWorn ==
  ASSUME Good, NEW s \in {Template[k].Set : k \in Kind} \ {NoSet},
         NEW i \in ItemsOfSet(s)
  PROVE  /\ i \in DOMAIN items /\ items[i].kind \in Kind
         /\ Template[items[i].kind].Set = s /\ Template[items[i].kind].Once
         /\ items[i].position \in EquipPosition
<1>1. /\ i \in DOMAIN items /\ items[i].position # "bag"
      /\ Template[items[i].kind].Set = s /\ s # NoSet
  BY DEF ItemsOfSet
<1>2. items[i].kind \in Kind /\ items[i].position \in Position
  BY <1>1 DEF Good, Typed
<1>3. /\ Template[items[i].kind].Once /\ ~Template[items[i].kind].CanUse
      /\ Template[items[i].kind].Fits \subseteq EquipPosition
  BY <1>1, <1>2, InventoryAssumption
<1>4. items[i].position \notin QuickPosition
  BY <1>1, <1>3 DEF Good, Worn, QuickUse
<1>5. items[i].position # "food"
  BY <1>1, <1>3, InventoryAssumption
     DEF Good, Worn, WornWell, WornFits, WornPosition
<1> QED
  BY <1>1, <1>2, <1>3, <1>4, <1>5 DEF Position

\* The items of a set that sendItemSetBonus counts are of different templates
\* of the set, so that the number of its bonuses is never passed.
THEOREM BonusesAreIndexed == Spec => []BonusIndexed
<1>1. ASSUME Good, NEW s \in {Template[k].Set : k \in Kind} \ {NoSet}
      PROVE  Cardinality(ItemsOfSet(s)) <= Bonus(s)
  <2> DEFINE f == [i \in ItemsOfSet(s) |-> Template[items[i].kind].Id]
  <2>1. \A i \in ItemsOfSet(s) : Template[items[i].kind].Id \in TemplatesOfSet(s)
    BY <1>1, SetItemsAreWorn DEF TemplatesOfSet
  <2>2. ASSUME NEW i \in ItemsOfSet(s), NEW j \in ItemsOfSet(s),
               Template[items[i].kind].Id = Template[items[j].kind].Id
        PROVE  i = j
    <3>1. /\ i \in DOMAIN items /\ Template[items[i].kind].Once
          /\ items[i].position \in EquipPosition
      BY <1>1, SetItemsAreWorn
    <3>2. /\ j \in DOMAIN items /\ Template[items[j].kind].Once
          /\ items[j].position \in EquipPosition
      BY <1>1, SetItemsAreWorn
    <3> QED
      BY <1>1, <2>2, <3>1, <3>2 DEF Good, Worn, OnceWorn
  <2>3. f \in Injection(ItemsOfSet(s), TemplatesOfSet(s))
    BY <2>1, <2>2 DEF Injection, IsInjective
  <2>4. /\ IsFiniteSet(TemplatesOfSet(s)) /\ Bonus(s) \in Nat
        /\ Cardinality(TemplatesOfSet(s)) <= Bonus(s)
    BY InventoryAssumption
  <2>5. PICK S, T : S = ItemsOfSet(s) /\ T = TemplatesOfSet(s)
    OBVIOUS
  <2> HIDE DEF f
  <2>6. IsFiniteSet(S) /\ Cardinality(S) <= Cardinality(T)
    BY <2>3, <2>4, <2>5, FS_Injection
  <2>7. Cardinality(S) \in Nat /\ Cardinality(T) \in Nat
    BY <2>4, <2>5, <2>6, FS_CardinalityType
  <2> QED
    BY <2>4, <2>5, <2>6, <2>7
<1>2. Good => BonusIndexed
  BY <1>1 DEF BonusIndexed
<1> QED
  BY <1>2, CallsFindTheirGround, PTL

-----------------------------------------------------------------------------
(* Sums of quantities as numbers of units *)

\* The units of some rows, one by one.
UnitsOf(r, S) == UNION {{i} \X (1..r[i].quantity) : i \in S}

LEMMA UnitsOfRow ==
  ASSUME NEW i, NEW n \in Nat
  PROVE  /\ IsFiniteSet({i} \X (1..n))
         /\ Cardinality({i} \X (1..n)) = n
<1>1. IsFiniteSet(1..n) /\ Cardinality(1..n) = n
  BY FS_Interval
<1>2. IsFiniteSet({i}) /\ Cardinality({i}) = 1
  BY FS_Singleton
<1>3. /\ IsFiniteSet({i} \X (1..n))
      /\ Cardinality({i} \X (1..n)) = 1 * n
  BY <1>1, <1>2, FS_Product
<1> QED
  BY <1>3

LEMMA UnitsAreFinite ==
  ASSUME NEW r, NEW S, IsFiniteSet(S), \A i \in S : r[i].quantity \in Nat
  PROVE  IsFiniteSet(UnitsOf(r, S)) /\ Cardinality(UnitsOf(r, S)) \in Nat
<1> DEFINE T == {{i} \X (1..r[i].quantity) : i \in S}
           f == [i \in S |-> {i} \X (1..r[i].quantity)]
<1>1. f \in Surjection(S, T)
  BY DEF Surjection
<1>2. \A t \in T : IsFiniteSet(t)
  <2>1. ASSUME NEW i \in S PROVE IsFiniteSet({i} \X (1..r[i].quantity))
    BY UnitsOfRow
  <2> QED
    BY <2>1
<1> HIDE DEF f
<1>3. IsFiniteSet(T)
  BY <1>1, FS_Surjection
<1> HIDE DEF T
<1>4. IsFiniteSet(UNION T)
  BY <1>2, <1>3, FS_UNION
<1>5. IsFiniteSet(UnitsOf(r, S))
  BY <1>4 DEF T, UnitsOf
<1> QED
  BY <1>5, FS_CardinalityType

\* Without one of the rows, its units are missing.
LEMMA OneRowLess ==
  ASSUME NEW r, NEW S, IsFiniteSet(S), \A i \in S : r[i].quantity \in Nat,
         NEW x \in S
  PROVE  Cardinality(UnitsOf(r, S)) =
            r[x].quantity + Cardinality(UnitsOf(r, S \ {x}))
<1> DEFINE U == UnitsOf(r, S \ {x})
           V == {x} \X (1..r[x].quantity)
<1>1. UnitsOf(r, S) = U \cup V
  BY DEF UnitsOf
<1>2. U \cap V = {}
  BY DEF UnitsOf
<1>3. IsFiniteSet(S \ {x})
  BY FS_RemoveElement
<1>4. IsFiniteSet(U) /\ Cardinality(U) \in Nat
  BY <1>3, UnitsAreFinite
<1>5. IsFiniteSet(V) /\ Cardinality(V) = r[x].quantity
  BY UnitsOfRow
<1> HIDE DEF U, V
<1>6. Cardinality(U \cup V) = Cardinality(U) + Cardinality(V) - Cardinality(U \cap V)
  BY <1>4, <1>5, FS_Union
<1>7. Cardinality(U \cap V) = 0
  BY <1>2, FS_EmptySet
<1>8. Cardinality(U \cup V) = r[x].quantity + Cardinality(U)
  BY <1>4, <1>5, <1>6, <1>7
<1> QED
  BY <1>1, <1>8 DEF U

\* The partial sums of the quantities of rows r.
Summed(r, S, g) ==
    g = [s \in SUBSET S |->
            IF s = {} THEN 0
            ELSE r[CHOOSE x \in s : TRUE].quantity
                 + g[s \ {CHOOSE x \in s : TRUE}]]

\* There are such sums, and they count units.
LEMMA SumsCount ==
  ASSUME NEW r, NEW S, IsFiniteSet(S), \A i \in S : r[i].quantity \in Nat
  PROVE  (CHOOSE g : Summed(r, S, g))[S] = Cardinality(UnitsOf(r, S))
<1> DEFINE count == [s \in SUBSET S |-> Cardinality(UnitsOf(r, s))]
<1>1. ASSUME NEW s \in SUBSET S
      PROVE  /\ IsFiniteSet(s) /\ \A i \in s : r[i].quantity \in Nat
             /\ s = {} => Cardinality(UnitsOf(r, s)) = 0
  <2>1. IsFiniteSet(s)
    BY FS_Subset
  <2>2. UnitsOf(r, {}) = {}
    BY DEF UnitsOf
  <2> QED
    BY <2>1, <2>2, FS_EmptySet
<1>2. ASSUME NEW s \in SUBSET S, s # {}, NEW x, x = CHOOSE y \in s : TRUE
      PROVE  /\ x \in s /\ s \ {x} \in SUBSET S
             /\ Cardinality(UnitsOf(r, s)) =
                   r[x].quantity + Cardinality(UnitsOf(r, s \ {x}))
  <2>1. x \in s
    BY <1>2
  <2> QED
    BY <1>1, <2>1, OneRowLess
<1>3. Summed(r, S, count)
  <2>1. ASSUME NEW s \in SUBSET S
        PROVE  count[s] = IF s = {} THEN 0
                          ELSE r[CHOOSE x \in s : TRUE].quantity
                               + count[s \ {CHOOSE x \in s : TRUE}]
    BY <1>1, <1>2
  <2> QED
    BY <2>1 DEF Summed
<1>4. PICK g : g = (CHOOSE h : Summed(r, S, h)) /\ Summed(r, S, g)
  BY <1>3
<1>5. \A s \in SUBSET S : g[s] = Cardinality(UnitsOf(r, s))
  <2> DEFINE D == {s \in SUBSET S : g[s] # Cardinality(UnitsOf(r, s))}
             R == StrictSubsetOrdering(S)
  <2> SUFFICES ASSUME D # {} PROVE FALSE
    OBVIOUS
  <2>1. IsWellFoundedOn(R, SUBSET S)
    BY FS_StrictSubsetOrderingWellFounded, FS_FiniteSubsetsOfFinite
  <2>2. D \subseteq SUBSET S
    OBVIOUS
  <2>3. \A s, t \in SUBSET S : s \subseteq t /\ s # t => <<s, t>> \in R
    BY DEF StrictSubsetOrdering
  <2> HIDE DEF D, R
  <2>4. PICK s \in D : \A t \in D : ~ (<<t, s>> \in R)
    BY <2>1, <2>2, WFMin
  <2>5. s \in SUBSET S /\ g[s] # Cardinality(UnitsOf(r, s))
    BY DEF D
  <2>6. g[s] = IF s = {} THEN 0
               ELSE r[CHOOSE x \in s : TRUE].quantity
                    + g[s \ {CHOOSE x \in s : TRUE}]
    BY <1>4, <2>5 DEF Summed
  <2>7. s # {}
    BY <1>1, <2>5, <2>6
  <2>8. PICK x : x = CHOOSE y \in s : TRUE
    OBVIOUS
  <2>9. /\ x \in s /\ s \ {x} \in SUBSET S
        /\ Cardinality(UnitsOf(r, s)) =
              r[x].quantity + Cardinality(UnitsOf(r, s \ {x}))
    BY <1>2, <2>5, <2>7, <2>8
  <2>10. s \ {x} \notin D
    BY <2>3, <2>4, <2>5, <2>9
  <2>11. g[s \ {x}] = Cardinality(UnitsOf(r, s \ {x}))
    BY <2>9, <2>10 DEF D
  <2> QED
    BY <2>5, <2>6, <2>7, <2>8, <2>9, <2>11
<1> QED
  BY <1>4, <1>5

RowsOf(k) == {i \in DOMAIN items : items[i].kind = k}

Countable ==
    /\ IsFiniteSet(DOMAIN items)
    /\ \A i \in DOMAIN items : items[i].quantity \in Nat

\* What a character has of a kind is a number of units.
LEMMA TotalCounts ==
  Countable => \A k : Total(k) = Cardinality(UnitsOf(items, RowsOf(k)))
<1> SUFFICES ASSUME Countable, NEW k
             PROVE  Total(k) = Cardinality(UnitsOf(items, RowsOf(k)))
  OBVIOUS
<1>1. Total(k) = (CHOOSE g : Summed(items, RowsOf(k), g))[RowsOf(k)]
  BY DEF Total, MapThenSumSet, MapThenFoldSet, Summed, RowsOf
<1>2. IsFiniteSet(RowsOf(k)) /\ \A i \in RowsOf(k) : items[i].quantity \in Nat
  BY FS_Subset DEF RowsOf, Countable
<1> QED
  BY <1>1, <1>2, SumsCount

LEMMA TotalCountsNext ==
  Countable' => (\A k : Total(k) = Cardinality(UnitsOf(items, RowsOf(k))))'
BY TotalCounts, PTL

\* The units of a kind in one row.
Had(x, k) ==
    IF x \in DOMAIN items /\ items[x].kind = k THEN items[x].quantity ELSE 0

LEMMA WithoutRow ==
  Countable =>
    \A x, k : /\ Total(k) = Had(x, k)
                             + Cardinality(UnitsOf(items, RowsOf(k) \ {x}))
              /\ Cardinality(UnitsOf(items, RowsOf(k) \ {x})) \in Nat
              /\ Total(k) \in Nat /\ Had(x, k) \in Nat
<1> SUFFICES ASSUME Countable, NEW x, NEW k
             PROVE  /\ Total(k) =
                          Had(x, k)
                          + Cardinality(UnitsOf(items, RowsOf(k) \ {x}))
                    /\ Cardinality(UnitsOf(items, RowsOf(k) \ {x})) \in Nat
                    /\ Total(k) \in Nat /\ Had(x, k) \in Nat
  OBVIOUS
<1>1. /\ IsFiniteSet(RowsOf(k)) /\ IsFiniteSet(RowsOf(k) \ {x})
      /\ \A i \in RowsOf(k) : items[i].quantity \in Nat
  BY FS_Subset DEF RowsOf, Countable
<1>2. Cardinality(UnitsOf(items, RowsOf(k) \ {x})) \in Nat
  BY <1>1, UnitsAreFinite
<1>3. Had(x, k) \in Nat
  BY DEF Had, Countable
<1>4. Total(k) = Cardinality(UnitsOf(items, RowsOf(k)))
  BY TotalCounts
<1>5. CASE x \in RowsOf(k)
  <2>1. Had(x, k) = items[x].quantity
    BY <1>5 DEF Had, RowsOf
  <2>2. Cardinality(UnitsOf(items, RowsOf(k))) =
           items[x].quantity + Cardinality(UnitsOf(items, RowsOf(k) \ {x}))
    BY <1>1, <1>5, OneRowLess
  <2> QED
    BY <1>2, <1>3, <1>4, <2>1, <2>2
<1>6. CASE x \notin RowsOf(k)
  <2>1. Had(x, k) = 0 /\ RowsOf(k) \ {x} = RowsOf(k)
    BY <1>6 DEF Had, RowsOf
  <2> QED
    BY <1>2, <1>4, <2>1
<1> QED
  BY <1>5, <1>6

LEMMA WithoutRowNext ==
  Countable' =>
    (\A x, k : /\ Total(k) = Had(x, k)
                              + Cardinality(UnitsOf(items, RowsOf(k) \ {x}))
               /\ Cardinality(UnitsOf(items, RowsOf(k) \ {x})) \in Nat
               /\ Total(k) \in Nat /\ Had(x, k) \in Nat)'
BY WithoutRow, PTL

\* One row, x, may change its quantity, come or go.
OnlyRow(x) ==
    \A i : i # x =>
        /\ i \in DOMAIN items' <=> i \in DOMAIN items
        /\ i \in DOMAIN items =>
              /\ items'[i].kind = items[i].kind
              /\ items'[i].quantity = items[i].quantity

LEMMA OneRowChanges ==
  ASSUME Countable, Countable', NEW x, OnlyRow(x), NEW k
  PROVE  /\ Total(k)' - Had(x, k)' = Total(k) - Had(x, k)
         /\ Total(k) \in Nat /\ Total(k)' \in Nat
         /\ Had(x, k) \in Nat /\ Had(x, k)' \in Nat
<1> DEFINE rest == UnitsOf(items, RowsOf(k) \ {x})
<1>1. rest' = rest
  <2>1. (RowsOf(k) \ {x})' = RowsOf(k) \ {x}
    BY DEF RowsOf, OnlyRow
  <2>2. \A i \in RowsOf(k) \ {x} : items'[i].quantity = items[i].quantity
    BY DEF RowsOf, OnlyRow
  <2> QED
    BY <2>1, <2>2 DEF UnitsOf
<1>2. /\ Total(k) = Had(x, k) + Cardinality(rest)
      /\ Total(k) \in Nat /\ Had(x, k) \in Nat /\ Cardinality(rest) \in Nat
  BY WithoutRow
<1>3. /\ Total(k)' = Had(x, k)' + Cardinality(rest)'
      /\ Total(k)' \in Nat /\ Had(x, k)' \in Nat
      /\ Cardinality(rest)' \in Nat
  BY WithoutRowNext
<1>4. Cardinality(rest)' = Cardinality(rest)
  BY <1>1
<1> QED
  BY <1>2, <1>3, <1>4

-----------------------------------------------------------------------------
(* The ledger: every unit bought and not destroyed is in a row, or is about *)
(* to be written to one.                                                    *)

Writing == {"update", "create", "add"}

\* The units of a kind the innermost call is about to write.
Due(k) ==
    IF calls = <<>> THEN 0
    ELSE LET c == Head(calls) IN
         CASE c.call = "update" /\ items[c.item].kind = k ->
                c.quantity - items[c.item].quantity
           [] c.call = "create" /\ c.kind = k -> c.quantity
           [] c.call = "add" /\ c.kind = k -> 1
           [] OTHER -> 0

Ledger ==
    /\ IsFiniteSet(DOMAIN items)
    /\ owned \in [Kind -> Nat]
    /\ \A k \in Kind : Total(k) + Due(k) = owned[k]

\* Calls whose first, if any, does not write units that left no row.
Still(s) ==
    /\ \E S : s \in Seq(S)
    /\ s # <<>> => s[1].call \notin Writing

LEMMA StillEmpty == Still(<<>>)
<1>1. <<>> \in Seq({})
  OBVIOUS
<1> QED
  BY <1>1 DEF Still

LEMMA StillOne == ASSUME NEW c, c.call \notin Writing PROVE Still(<<c>>)
<1>1. <<c>> \in Seq({c}) /\ <<c>>[1] = c
  OBVIOUS
<1> QED
  BY <1>1 DEF Still

LEMMA StillTwo ==
  ASSUME NEW c, NEW d, c.call \notin Writing PROVE Still(<<c, d>>)
<1>1. <<c, d>> \in Seq({c, d}) /\ <<c, d>>[1] = c
  OBVIOUS
<1> QED
  BY <1>1 DEF Still

LEMMA StillJoin ==
  ASSUME NEW s, NEW t, Still(s), Still(t) PROVE Still(s \o t)
<1>1. PICK S : s \in Seq(S)
  BY DEF Still
<1>2. PICK T : t \in Seq(T)
  BY DEF Still
<1>3. s \in Seq(S \cup T) /\ t \in Seq(S \cup T)
  BY <1>1, <1>2
<1>4. /\ s \o t \in Seq(S \cup T) /\ Len(s \o t) = Len(s) + Len(t)
      /\ \A m \in 1..Len(s \o t) :
            (s \o t)[m] = IF m <= Len(s) THEN s[m] ELSE t[m - Len(s)]
      /\ Len(s) \in Nat /\ Len(t) \in Nat
      /\ s = <<>> <=> Len(s) = 0
      /\ t = <<>> <=> Len(t) = 0
  BY <1>3
<1>5. CASE s \o t = <<>>
  BY <1>4, <1>5 DEF Still
<1>6. CASE s \o t # <<>>
  <2>1. 1 \in 1..Len(s \o t)
    BY <1>4, <1>6
  <2>2. CASE s # <<>>
    <3>1. (s \o t)[1] = s[1]
      BY <1>4, <2>1, <2>2
    <3> QED
      BY <1>4, <2>2, <3>1 DEF Still
  <2>3. CASE s = <<>>
    <3>1. (s \o t)[1] = t[1] /\ t # <<>>
      BY <1>4, <2>1, <2>3
    <3> QED
      BY <1>4, <3>1 DEF Still
  <2> QED
    BY <2>2, <2>3
<1> QED
  BY <1>5, <1>6

LEMMA StillTakeOff == ASSUME NEW found PROVE Still(TakeOff(found))
BY StillEmpty, StillOne DEF TakeOff, unEquip, Move, Writing

\* Nothing that waits writes, but under a removal.
LEMMA StillWaiting ==
  ASSUME Stack, calls # <<>>, \A d \in Waiting : ~Writes(d)
  PROVE  Still(Tail(calls))
<1>1. PICK S : calls \in Seq(S)
  BY DEF Stack
<1>2. /\ Tail(calls) \in Seq(S) /\ Len(calls) \in Nat \ {0}
      /\ Len(Tail(calls)) = Len(calls) - 1
      /\ \A m \in 1..Len(Tail(calls)) : Tail(calls)[m] = calls[m + 1]
  BY <1>1
<1>3. ASSUME Tail(calls) # <<>> PROVE Tail(calls)[1].call \notin Writing
  <2>1. Len(Tail(calls)) # 0
    BY <1>2, <1>3
  <2>2. 2 \in 2..Len(calls) /\ Tail(calls)[1] = calls[2]
    BY <1>2, <2>1
  <2>3. calls[2] \in Waiting
    BY <2>2 DEF Waiting
  <2>4. Waits(calls[2])
    BY <2>3 DEF Stack
  <2> QED
    BY <2>2, <2>4 DEF Waits, Writing
<1> QED
  BY <1>2, <1>3 DEF Still

LEMMA NothingDue == Still(calls) => \A k : Due(k) = 0
<1> SUFFICES ASSUME Still(calls), calls # <<>>, NEW k PROVE Due(k) = 0
  BY DEF Due
<1>1. Head(calls).call \notin Writing
  BY DEF Still
<1> QED
  BY <1>1 DEF Due, Writing

LEMMA NothingDueNext == Still(calls)' => (\A k : Due(k) = 0)'
BY NothingDue, PTL

LEMMA GoesOnStill ==
  ASSUME Stack, calls # <<>>, Head(calls).call # "remove",
         NEW next, Still(next), Continue(next)
  PROVE  Still(calls)'
<1>1. Still(Tail(calls))
  BY AllAbove, StillWaiting
<1>2. Still(calls')
  BY <1>1, StillJoin DEF Continue
<1> QED
  BY <1>2 DEF Still

\* A step that leaves every quantity and owes none.
LEMMA SameQuantities ==
  ASSUME Good, Good', Ledger, UNCHANGED owned, DOMAIN items' = DOMAIN items,
         \A i \in DOMAIN items : /\ items'[i].kind = items[i].kind
                                 /\ items'[i].quantity = items[i].quantity,
         Still(calls), Still(calls)'
  PROVE  Ledger'
<1>1. Countable /\ Countable'
  BY DEF Countable, Good, Typed, Ledger
<1>2. ASSUME NEW k \in Kind PROVE Total(k)' = Total(k)
  <2>1. RowsOf(k)' = RowsOf(k)
    BY DEF RowsOf
  <2>2. UnitsOf(items, RowsOf(k))' = UnitsOf(items, RowsOf(k))
    BY <2>1 DEF UnitsOf, RowsOf
  <2>3. Total(k) = Cardinality(UnitsOf(items, RowsOf(k)))
    BY <1>1, TotalCounts
  <2>4. Total(k)' = Cardinality(UnitsOf(items, RowsOf(k))')
    BY <1>1, TotalCountsNext
  <2> QED
    BY <2>2, <2>3, <2>4
<1> QED
  BY <1>2, NothingDue, NothingDueNext DEF Ledger

\* One row, of kind l, changes by what was due.
LEMMA OneRowLedger ==
  ASSUME Good, Typed', Ledger, NEW x, OnlyRow(x), NEW l \in Kind,
         owned' \in [Kind -> Nat],
         \A k \in Kind : k # l =>
            Had(x, k)' = Had(x, k) /\ Due(k)' = Due(k) /\ owned'[k] = owned[k],
         Had(x, l)' - Had(x, l) + Due(l)' - Due(l) = owned'[l] - owned[l],
         Due(l) \in Int, Due(l)' \in Int
  PROVE  Ledger'
<1>1. IsFiniteSet(DOMAIN items')
  <2>1. DOMAIN items' \subseteq DOMAIN items \cup {x}
    BY DEF OnlyRow
  <2>2. IsFiniteSet(DOMAIN items \cup {x})
    BY FS_AddElement DEF Ledger
  <2> QED
    BY <2>1, <2>2, FS_Subset
<1>2. Countable /\ Countable'
  BY <1>1 DEF Countable, Good, Typed, Ledger
<1>3. ASSUME NEW k \in Kind PROVE Total(k)' + Due(k)' = owned'[k]
  <2>1. /\ Total(k)' - Had(x, k)' = Total(k) - Had(x, k)
        /\ Total(k) \in Nat /\ Total(k)' \in Nat
        /\ Had(x, k) \in Nat /\ Had(x, k)' \in Nat
    BY <1>2, OneRowChanges
  <2>2. Total(k) + Due(k) = owned[k] /\ owned[k] \in Nat /\ owned'[k] \in Nat
    BY DEF Ledger
  <2>3. CASE k = l
    BY <2>1, <2>2, <2>3
  <2>4. CASE k # l
    <3>1. Total(k)' = Total(k)
      BY <2>1, <2>4
    <3> QED
      BY <2>2, <2>4, <3>1
  <2> QED
    BY <2>3, <2>4
<1> QED
  BY <1>1, <1>3 DEF Ledger

LEMMA RemoveLedger ==
  ASSUME Good, Good', Ledger, RemoveItem PROVE Ledger'
<1>1. PICK c : c = Head(calls)
  OBVIOUS
<1>2. PICK l : l = items[c.item].kind
  OBVIOUS
<1>3. /\ calls # <<>> /\ c.call = "remove" /\ Continue(<<>>)
      /\ owned' = [owned EXCEPT ![l] =
                      IF c.wanted THEN owned[l] - c.quantity ELSE owned[l]]
  BY <1>1, <1>2 DEF RemoveItem, Running
<1>4. /\ c.item \in DOMAIN items /\ l \in Kind
      /\ c.quantity \in 1..items[c.item].quantity
      /\ items[c.item].quantity \in Nat
      /\ c.wanted \in BOOLEAN
      /\ ~c.wanted => Len(calls) > 1 /\ Writes(calls[2])
  BY <1>1, <1>2, <1>3, AllAbove DEF Good, Typed, Runs, Writes
<1>5. /\ DOMAIN items' \subseteq DOMAIN items
      /\ \A i \in DOMAIN items :
            i # c.item => i \in DOMAIN items' /\ items'[i] = items[i]
      /\ c.item \in DOMAIN items' =>
            /\ items'[c.item].kind = items[c.item].kind
            /\ items'[c.item].quantity = items[c.item].quantity - c.quantity
      /\ c.item \notin DOMAIN items' => c.quantity = items[c.item].quantity
  <2>1. c.item \notin DOMAIN items' => c.quantity = items[c.item].quantity
    BY <1>1, <1>4 DEF RemoveItem, Good, Inv, Rows
  <2> QED
    BY <1>1, <2>1, Removed
<1>6. OnlyRow(c.item)
  BY <1>5 DEF OnlyRow
<1>7. /\ \A k : k # l => Had(c.item, k)' = 0 /\ Had(c.item, k) = 0
      /\ Had(c.item, l) = items[c.item].quantity
      /\ Had(c.item, l)' = items[c.item].quantity - c.quantity
  <2>1. CASE c.item \in DOMAIN items'
    BY <1>2, <1>4, <1>5, <2>1 DEF Had
  <2>2. CASE c.item \notin DOMAIN items'
    BY <1>2, <1>4, <1>5, <2>2 DEF Had
  <2> QED
    BY <2>1, <2>2
<1>8. \A k : Due(k) = 0
  BY <1>1, <1>3 DEF Due
<1>9. Typed' /\ c.quantity \in Nat
  BY <1>4 DEF Good
<1>10. l \in Kind /\ owned[l] \in Nat
  BY <1>4 DEF Ledger
<1>11. CASE c.wanted
  <2>1. \A d \in Waiting : ~Writes(d)
    BY <1>1, <1>3, <1>11 DEF Good, Stack, Innermost, Owed
  <2>2. Still(calls')
    BY <1>3, <2>1, StillWaiting, StillEmpty, StillJoin DEF Good, Continue
  <2>3. Still(calls)'
    BY <2>2 DEF Still
  <2>4. \A k : Due(k)' = 0
    BY <2>3, NothingDueNext
  <2>5. c.quantity <= owned[l]
    <3>1. Total(l) + Due(l) = owned[l]
      BY <1>4 DEF Ledger
    <3>2. Countable
      BY DEF Countable, Good, Typed, Ledger
    <3>3. Total(l) = Had(c.item, l)
                        + Cardinality(UnitsOf(items, RowsOf(l) \ {c.item}))
          /\ Cardinality(UnitsOf(items, RowsOf(l) \ {c.item})) \in Nat
      BY <3>2, WithoutRow
    <3> QED
      BY <1>4, <1>7, <1>8, <1>10, <3>1, <3>3
  <2>6. /\ owned' \in [Kind -> Nat] /\ owned'[l] = owned[l] - c.quantity
        /\ \A k \in Kind : k # l => owned'[k] = owned[k]
    BY <1>3, <1>4, <1>9, <1>10, <1>11, <2>5 DEF Ledger
  <2> QED
    BY <1>4, <1>6, <1>7, <1>8, <1>9, <1>10, <2>4, <2>6, OneRowLedger
<1>12. CASE ~c.wanted
  <2>1. owned' = owned
    BY <1>3, <1>12 DEF Ledger
  <2>2. PICK d : d = calls[2]
    OBVIOUS
  <2>3. /\ \E U : calls' \in Seq(U)
        /\ Len(calls) \in Nat \ {0}
        /\ Len(calls') = Len(calls) - 1
        /\ \A m \in 1..Len(calls') : calls'[m] = calls[m + 1]
    BY <1>3, Returned DEF Good
  <2>4. calls' # <<>> /\ Head(calls') = d /\ d \in Waiting /\ Writes(d)
    <3>1. 1 \in 1..Len(calls') /\ 2 \in 2..Len(calls)
      BY <1>4, <1>12, <2>3
    <3> QED
      BY <1>4, <1>12, <2>2, <2>3, <3>1 DEF Waiting
  <2>5. Owed(c, d)
    BY <1>1, <1>3, <2>4 DEF Good, Stack, Innermost
  <2>6. Due(l)' = c.quantity /\ \A k : k # l => Due(k)' = 0
    <3>1. CASE d.call = "update"
      <4>1. /\ d.item \in DOMAIN items /\ d.item # c.item
            /\ d.quantity = items[d.item].quantity + c.quantity
            /\ items[d.item].kind = l
        BY <1>2, <2>5, <3>1 DEF Owed
      <4>2. items'[d.item] = items[d.item] /\ items[d.item].quantity \in Nat
        BY <1>5, <4>1 DEF Good, Typed
      <4>3. d.quantity - items'[d.item].quantity = c.quantity
        BY <1>9, <4>1, <4>2
      <4> QED
        BY <2>4, <3>1, <4>1, <4>2, <4>3 DEF Due
    <3>2. CASE d.call = "create"
      <4>1. d.kind = l /\ d.quantity = c.quantity
        BY <1>2, <2>5, <3>2 DEF Owed
      <4> QED
        BY <2>4, <3>2, <4>1 DEF Due
    <3> QED
      BY <2>4, <3>1, <3>2 DEF Writes
  <2>7. owned' \in [Kind -> Nat]
    BY <2>1 DEF Ledger
  <2> QED
    BY <1>4, <1>6, <1>7, <1>8, <1>9, <1>10, <2>1, <2>6, <2>7, OneRowLedger
<1> QED
  BY <1>4, <1>11, <1>12

LEMMA UpdateLedger ==
  ASSUME Good, Good', Ledger, UpdateItem PROVE Ledger'
<1>1. PICK c : c = Head(calls)
  OBVIOUS
<1>2. PICK l : l = items[c.item].kind
  OBVIOUS
<1>3. /\ calls # <<>> /\ c.call = "update" /\ Continue(<<>>)
      /\ items' = [items EXCEPT ![c.item].quantity = c.quantity]
      /\ owned' = owned
  BY <1>1 DEF UpdateItem, Running
<1>4. /\ c.item \in DOMAIN items /\ l \in Kind
      /\ c.quantity \in Nat /\ items[c.item].quantity \in Nat
  BY <1>1, <1>2, <1>3, AllAbove DEF Good, Typed, Runs
<1>5. /\ DOMAIN items' = DOMAIN items
      /\ \A j \in DOMAIN items :
            /\ items'[j].kind = items[j].kind
            /\ items'[j].quantity =
                  IF j = c.item THEN c.quantity ELSE items[j].quantity
  BY <1>3, QuantityWritten DEF Good, Inv
<1>6. OnlyRow(c.item)
  BY <1>5 DEF OnlyRow
<1>7. /\ \A k : k # l => Had(c.item, k)' = 0 /\ Had(c.item, k) = 0
      /\ Had(c.item, l) = items[c.item].quantity
      /\ Had(c.item, l)' = c.quantity
  BY <1>2, <1>4, <1>5 DEF Had
<1>8. /\ Due(l) = c.quantity - items[c.item].quantity
      /\ \A k : k # l => Due(k) = 0
  BY <1>1, <1>2, <1>3 DEF Due
<1>9. Still(calls)'
  BY <1>1, <1>3, GoesOnStill, StillEmpty DEF Good
<1>10. \A k : Due(k)' = 0
  BY <1>9, NothingDueNext
<1>11. owned' \in [Kind -> Nat] /\ owned[l] \in Nat /\ Typed'
  BY <1>3, <1>4 DEF Ledger, Good
<1> QED
  BY <1>3, <1>4, <1>6, <1>7, <1>8, <1>10, <1>11, OneRowLedger

LEMMA CreateLedger ==
  ASSUME Good, Good', Ledger, CreateItem PROVE Ledger'
<1>1. PICK c : c = Head(calls)
  OBVIOUS
<1>2. PICK l, n, p : l = c.kind /\ n = c.quantity /\ p = c.to
  OBVIOUS
<1>3. /\ calls # <<>> /\ c.call = "create" /\ Continue(<<>>)
      /\ Item(l) \ DOMAIN items # {}
      /\ items' = WithItem(l, n, p)
      /\ owned' = owned
  BY <1>1, <1>2 DEF CreateItem, Running
<1>4. l \in Kind /\ n \in Nat
  BY <1>1, <1>2, <1>3, AllAbove DEF Good, Runs, Creatable
<1>5. PICK x : x = NewItem(l)
  OBVIOUS
<1>6. /\ x \notin DOMAIN items
      /\ DOMAIN items' = DOMAIN items \cup {x}
      /\ items'[x] = [kind |-> l, quantity |-> n, position |-> p]
      /\ \A i \in DOMAIN items : items'[i] = items[i]
  <2>1. Free(l, p)
    BY <1>1, <1>2, <1>3, CreateHasRoom DEF Good, CreateItem
  <2>2. Rows /\ WellPlaced
    BY DEF Good, Inv
  <2>3. /\ Free(l, p) /\ Item(l) \ DOMAIN items # {}
        /\ items' = WithItem(l, n, p)
    BY <1>3, <2>1
  <2>4. /\ NewItem(l) \notin DOMAIN items
        /\ DOMAIN items' = DOMAIN items \cup {NewItem(l)}
        /\ items'[NewItem(l)] = [kind |-> l, quantity |-> n, position |-> p]
        /\ \A i \in DOMAIN items : items'[i] = items[i]
    BY <2>2, <2>3, RowAdded
  <2> QED
    BY <1>5, <2>4
<1>7. OnlyRow(x)
  BY <1>6 DEF OnlyRow
<1>8. /\ \A k : Had(x, k) = 0 /\ (k # l => Had(x, k)' = 0)
      /\ Had(x, l)' = n
  BY <1>6 DEF Had
<1>9. Due(l) = n /\ \A k : k # l => Due(k) = 0
  BY <1>1, <1>2, <1>3 DEF Due
<1>10. Still(calls)'
  BY <1>1, <1>3, GoesOnStill, StillEmpty DEF Good
<1>11. \A k : Due(k)' = 0
  BY <1>10, NothingDueNext
<1>12. owned' \in [Kind -> Nat] /\ owned[l] \in Nat /\ Typed'
  BY <1>3, <1>4 DEF Ledger, Good
<1> QED
  BY <1>3, <1>4, <1>7, <1>8, <1>9, <1>11, <1>12, OneRowLedger

LEMMA AddLedger ==
  ASSUME Good, Good', Ledger, AddItemToInventory PROVE Ledger'
<1>1. PICK c : c = Head(calls)
  OBVIOUS
<1>2. PICK l : l = c.kind
  OBVIOUS
<1>3. /\ calls # <<>> /\ c.call = "add" /\ Continue(<<>>)
      /\ owned' = owned
  BY <1>1 DEF AddItemToInventory, Running
<1>4. l \in Kind
  BY <1>1, <1>2, <1>3, AllAbove DEF Good, Runs
<1>5. \E x : OnlyRow(x) /\ Had(x, l) \in Nat /\ Had(x, l)' = Had(x, l) + 1
             /\ \A k : k # l => Had(x, k)' = Had(x, k)
  <2>1. ASSUME NEW b \in Batches(l, "bag"),
               items' = [items EXCEPT ![b].quantity = @ + 1]
        PROVE  /\ OnlyRow(b) /\ Had(b, l) \in Nat /\ Had(b, l)' = Had(b, l) + 1
               /\ \A k : k # l => Had(b, k)' = Had(b, k)
    <3>1. b \in DOMAIN items /\ items[b].kind = l
      BY DEF Batches, At
    <3>2. PICK n : n = items[b].quantity + 1
      OBVIOUS
    <3>3. items' = [items EXCEPT ![b].quantity = n]
      BY <2>1, <3>2
    <3>4. /\ DOMAIN items' = DOMAIN items
          /\ \A j \in DOMAIN items :
                /\ items'[j].kind = items[j].kind
                /\ items'[j].quantity =
                      IF j = b THEN n ELSE items[j].quantity
      BY <3>3, QuantityWritten DEF Good, Inv
    <3>5. OnlyRow(b)
      BY <3>4 DEF OnlyRow
    <3>6. items[b].quantity \in Nat
      BY <3>1 DEF Good, Typed
    <3> QED
      BY <3>1, <3>2, <3>4, <3>5, <3>6 DEF Had
  <2>2. ASSUME Batches(l, "bag") = {}, Item(l) \ DOMAIN items # {},
               items' = WithItem(l, 1, "bag"), NEW x, x = NewItem(l)
        PROVE  /\ OnlyRow(x) /\ Had(x, l) \in Nat /\ Had(x, l)' = Had(x, l) + 1
               /\ \A k : k # l => Had(x, k)' = Had(x, k)
    <3>1. Free(l, "bag")
      BY <2>2 DEF Free
    <3>2. /\ x \notin DOMAIN items
          /\ DOMAIN items' = DOMAIN items \cup {x}
          /\ items'[x] = [kind |-> l, quantity |-> 1, position |-> "bag"]
          /\ \A i \in DOMAIN items : items'[i] = items[i]
      BY <2>2, <3>1, RowAdded DEF Good, Inv
    <3>3. OnlyRow(x)
      BY <3>2 DEF OnlyRow
    <3> QED
      BY <3>2, <3>3 DEF Had
  <2>3. \/ \E b \in Batches(l, "bag") : items' = [items EXCEPT ![b].quantity = @ + 1]
        \/ /\ Batches(l, "bag") = {} /\ Item(l) \ DOMAIN items # {}
           /\ items' = WithItem(l, 1, "bag")
    BY <1>1, <1>2 DEF AddItemToInventory
  <2>4. CASE \E b \in Batches(l, "bag") : items' = [items EXCEPT ![b].quantity = @ + 1]
    BY <2>1, <2>4
  <2>5. CASE /\ Batches(l, "bag") = {} /\ Item(l) \ DOMAIN items # {}
             /\ items' = WithItem(l, 1, "bag")
    BY <2>2, <2>5
  <2> QED
    BY <2>3, <2>4, <2>5
<1>6. PICK x : OnlyRow(x) /\ Had(x, l) \in Nat /\ Had(x, l)' = Had(x, l) + 1
               /\ \A k : k # l => Had(x, k)' = Had(x, k)
  BY <1>5
<1>7. Due(l) = 1 /\ \A k : k # l => Due(k) = 0
  BY <1>1, <1>2, <1>3 DEF Due
<1>8. Still(calls)'
  BY <1>1, <1>3, GoesOnStill, StillEmpty DEF Good
<1>9. \A k : Due(k)' = 0
  BY <1>8, NothingDueNext
<1>10. owned' \in [Kind -> Nat] /\ owned[l] \in Nat /\ Typed'
  BY <1>3, <1>4 DEF Ledger, Good
<1> QED
  BY <1>3, <1>4, <1>6, <1>7, <1>9, <1>10, OneRowLedger

LEMMA MoveLedger ==
  ASSUME Good, Good', Ledger, Joins \/ Clears \/ Places PROVE Ledger'
<1>1. PICK c : c = Head(calls)
  OBVIOUS
<1>2. /\ calls # <<>> /\ c.call = "move" /\ UNCHANGED owned
      /\ \E S : calls \in Seq(S)
  BY <1>1 DEF Joins, Clears, Places, Running, Good, Stack
<1>3. Still(calls)
  BY <1>1, <1>2 DEF Still, Writing
<1>4. ASSUME NEW next, Still(next), Continue(next), UNCHANGED items
      PROVE  Ledger'
  <2>1. Still(calls)'
    BY <1>1, <1>2, <1>4, GoesOnStill DEF Good
  <2> QED
    BY <1>2, <1>3, <1>4, <2>1, SameQuantities
<1>5. CASE Joins
  <2>1. PICK d : /\ Continue(<<Remove(c.item, c.quantity, FALSE), d>>)
                 /\ UNCHANGED items
    BY <1>1, <1>5 DEF Joins
  <2>2. Still(<<Remove(c.item, c.quantity, FALSE), d>>)
    BY StillTwo DEF Remove, Writing
  <2> QED
    BY <1>4, <2>1, <2>2
<1>6. CASE Clears
  <2>1. PICK j : Continue(<<unEquip(j), c>>) /\ UNCHANGED items
    BY <1>1, <1>6 DEF Clears
  <2>2. Still(<<unEquip(j), c>>)
    BY StillTwo DEF unEquip, Move, Writing
  <2> QED
    BY <1>4, <2>1, <2>2
<1>7. CASE Places
  <2>1. CASE c.quantity = items[c.item].quantity
    <3>1. PICK i, p : i = c.item /\ p = c.to
      OBVIOUS
    <3>2. /\ items' = [items EXCEPT ![i].position = p]
          /\ Continue(<<>>) /\ Free(items[i].kind, p)
      BY <1>1, <1>7, <2>1, <3>1 DEF Places, Free
    <3>3. i \in DOMAIN items
      BY <1>1, <1>2, <3>1, AllAbove DEF Good, Runs, Movable
    <3>4. /\ DOMAIN items' = DOMAIN items
          /\ \A j \in DOMAIN items :
                /\ items'[j].kind = items[j].kind
                /\ items'[j].quantity = items[j].quantity
      BY <3>2, <3>3, RowMoved DEF Good, Inv
    <3>5. Still(calls)'
      BY <1>1, <1>2, <3>2, GoesOnStill, StillEmpty DEF Good
    <3> QED
      BY <1>2, <1>3, <3>4, <3>5, SameQuantities
  <2>2. CASE c.quantity # items[c.item].quantity
    <3>1. PICK d : /\ Continue(<<Remove(c.item, c.quantity, FALSE), d>>)
                   /\ UNCHANGED items
      BY <1>1, <1>7, <2>2 DEF Places
    <3>2. Still(<<Remove(c.item, c.quantity, FALSE), d>>)
      BY StillTwo DEF Remove, Writing
    <3> QED
      BY <1>4, <3>1, <3>2
  <2> QED
    BY <2>1, <2>2
<1> QED
  BY <1>5, <1>6, <1>7

\* The other calls write no row.
LEMMA CallLedger ==
  ASSUME Good, Good', Ledger,
         \/ EquipNotAllowed \/ EquipRefused \/ Equips
         \/ MountRefused \/ Mounts \/ Rides
         \/ Unwears \/ Checks \/ Earns
  PROVE  Ledger'
<1>1. /\ calls # <<>> /\ UNCHANGED <<items, owned>>
      /\ Head(calls).call \in {"put on", "mount", "ride", "check", "earn"}
      /\ \E S : calls \in Seq(S)
  BY DEF EquipNotAllowed, EquipRefused, Equips, MountRefused, Mounts, Rides,
     Unwears, Checks, Earns, Running, Good, Stack
<1>2. Still(calls)
  <2>1. Head(calls).call \notin Writing
    BY <1>1 DEF Writing
  <2>2. PICK S : calls \in Seq(S)
    BY <1>1
  <2>3. calls # <<>>
    BY <1>1
  <2>4. Head(calls) = calls[1]
    BY <2>2, <2>3
  <2> QED
    BY <1>1, <2>1, <2>4 DEF Still
<1>3. ASSUME NEW next, Still(next), Continue(next) PROVE Ledger'
  <2>1. Still(calls)'
    BY <1>1, <1>3, GoesOnStill DEF Good
  <2> QED
    BY <1>1, <1>2, <2>1, SameQuantities
<1>4. CASE EquipNotAllowed
  <2>1. Still(calls)'
    BY <1>4, StillEmpty DEF EquipNotAllowed, Still
  <2> QED
    BY <1>1, <1>2, <2>1, SameQuantities
<1>5. CASE EquipRefused \/ MountRefused \/ Earns
  BY <1>3, <1>5, StillEmpty DEF EquipRefused, MountRefused, Earns
<1>6. CASE Equips
  <2> DEFINE k == items[Head(calls).item].kind
             dismount == IF Head(calls).to = "pet" /\ riding
                         THEN <<MountOrDismount(FALSE)>> ELSE <<>>
             move == <<Move(Head(calls).item, 1, Head(calls).to)>>
             off == TakeOff(InTheWay(k, Head(calls).to))
  <2>1. Continue(off \o dismount \o move)
    BY <1>6 DEF Equips
  <2>2. Still(off)
    BY StillTakeOff
  <2>3. Still(dismount) /\ Still(move)
    BY StillEmpty, StillOne DEF MountOrDismount, Move, Writing
  <2> HIDE DEF off, dismount, move
  <2>4. Still(off \o dismount \o move)
    BY <2>2, <2>3, StillJoin
  <2>5. PICK next : next = off \o dismount \o move
    OBVIOUS
  <2> QED
    BY <1>3, <2>1, <2>4, <2>5
<1>7. CASE Mounts
  <2> DEFINE off == TakeOff(IF Head(calls).mount THEN At("pet") ELSE {})
             ride == <<Ride(Head(calls).mount)>>
  <2>1. Continue(off \o ride)
    BY <1>7 DEF Mounts
  <2>2. Still(off) /\ Still(ride)
    BY StillTakeOff, StillOne DEF Ride, Writing
  <2> HIDE DEF off, ride
  <2>3. PICK next : next = off \o ride
    OBVIOUS
  <2>4. Still(next)
    BY <2>2, <2>3, StillJoin
  <2> QED
    BY <1>3, <2>1, <2>3, <2>4
<1>8. CASE Rides
  <2>1. Still(<<CheckConditions>>)
    BY StillOne DEF CheckConditions, Check, Writing
  <2> QED
    BY <1>3, <1>8, <2>1 DEF Rides
<1>9. CASE Unwears
  <2>1. PICK a, b : /\ Continue(<<a, b>>)
                    /\ a = MountOrDismount(FALSE) \/ \E j : a = unEquip(j)
    BY <1>9 DEF Unwears
  <2>2. Still(<<a, b>>)
    BY <2>1, StillTwo DEF MountOrDismount, unEquip, Move, Writing
  <2> QED
    BY <1>3, <2>1, <2>2
<1>10. CASE Checks
  <2>1. Still(<<CheckConditions>>) /\ Still(<<>>)
    BY StillOne, StillEmpty DEF CheckConditions, Check, Writing
  <2>2. Continue(<<CheckConditions>>) \/ Continue(<<>>)
    BY <1>10 DEF Checks
  <2> QED
    BY <1>3, <2>1, <2>2
<1> QED
  BY <1>4, <1>5, <1>6, <1>7, <1>8, <1>9, <1>10

LEMMA HandlerLedger ==
  ASSUME Good, Good', Ledger, Handler \/ HandlerFails PROVE Ledger'
<1>1. ASSUME Idle, UNCHANGED <<items, owned>>, Still(calls') PROVE Ledger'
  <2>1. Still(calls) /\ Still(calls)'
    BY <1>1, StillEmpty DEF Idle, Still
  <2> QED
    BY <1>1, <2>1, SameQuantities
<1>2. Still(<<CheckConditions>>)
  BY StillOne DEF CheckConditions, Check, Writing
<1>3. ASSUME NEW i, NEW p, Handles(Equip(i, p) \o <<CheckConditions>>)
      PROVE  Ledger'
  <2> DEFINE off == TakeOff(At(p))
             put == <<PutOn(i, p, At(p) # {})>>
             check == <<CheckConditions>>
  <2>1. Still(off) /\ Still(put) /\ Still(check)
    BY <1>2, StillTakeOff, StillOne DEF PutOn, Writing
  <2>2. calls' = (off \o put) \o check
    BY <1>3 DEF Handles, Equip
  <2> HIDE DEF off, put, check
  <2>3. Still(calls')
    BY <2>1, <2>2, StillJoin
  <2> QED
    BY <1>1, <1>3, <2>3 DEF Handles
<1>4. ASSUME NEW i, NEW n, ItemsDestroy(i, n) PROVE Ledger'
  <2> DEFINE first == <<Remove(i, n, TRUE), Earn(n)>>
             then == IF items[i].position \in EquipPosition
                     THEN <<CheckConditions>> ELSE <<>>
  <2>1. calls' = first \o then /\ Idle /\ UNCHANGED <<items, owned>>
    BY <1>4 DEF ItemsDestroy, Handles
  <2>2. Still(first) /\ Still(then)
    BY <1>2, StillTwo, StillEmpty DEF Remove, Writing
  <2> HIDE DEF first, then
  <2>3. Still(calls')
    BY <2>1, <2>2, StillJoin
  <2> QED
    BY <1>1, <2>1, <2>3
<1>5. ASSUME NEW i, NEW n, NEW p, ItemsRequestMovement(i, n, p) PROVE Ledger'
  <2>1. Still(<<Move(i, n, p)>>)
    BY StillOne DEF Move, Writing
  <2>2. Still(<<unEquip(i), CheckConditions>>)
    BY StillTwo DEF unEquip, Move, Writing
  <2>3. CASE Handles(<<Move(i, n, p)>>)
    BY <1>1, <2>1, <2>3 DEF Handles
  <2>4. CASE Handles(<<unEquip(i), CheckConditions>>)
    BY <1>1, <2>2, <2>4 DEF Handles
  <2> QED
    BY <1>3, <1>5, <2>3, <2>4 DEF ItemsRequestMovement
<1>6. ASSUME NEW mount, RideOrWalk(mount) PROVE Ledger'
  <2>1. Still(<<MountOrDismount(mount)>>)
    BY StillOne DEF MountOrDismount, Writing
  <2> QED
    BY <1>1, <1>6, <2>1 DEF RideOrWalk, Handles
<1>7. CASE OpenMarket \/ LeaveMarket
  BY <1>1, <1>7, StillEmpty DEF OpenMarket, LeaveMarket, Idle
<1>8. ASSUME NEW lv, SetLevel(lv) PROVE Ledger'
  BY <1>1, <1>2, <1>8 DEF SetLevel
<1>9. ASSUME NEW k \in Kind, BigStoreBuy(k) PROVE Ledger'
  <2>1. PICK a : a = Add(k)
    OBVIOUS
  <2>2. /\ Idle /\ calls' = <<a>> /\ UNCHANGED items
        /\ owned' = [owned EXCEPT ![k] = owned[k] + 1]
        /\ a.call = "add" /\ a.kind = k
    BY <1>9, <2>1 DEF BigStoreBuy, Add
  <2>3. /\ Due(k)' = 1
        /\ \A l : l # k => Due(l)' = 0
        /\ \A l : Due(l) = 0
    BY <2>2 DEF Due, Idle
  <2>4. /\ owned' \in [Kind -> Nat] /\ owned[k] \in Nat
        /\ owned'[k] = owned[k] + 1
        /\ \A l \in Kind : l # k => owned'[l] = owned[l]
    BY <2>2 DEF Ledger
  <2>5. \A x, l : Had(x, l)' = Had(x, l)
    BY <2>2 DEF Had
  <2>6. OnlyRow(0)
    BY <2>2 DEF OnlyRow
  <2>7. PICK h : h = Had(0, k)
    OBVIOUS
  <2>8. h \in Nat
    BY <2>7 DEF Had, Good, Typed
  <2>9. Had(0, k)' - Had(0, k) + Due(k)' - Due(k) = owned'[k] - owned[k]
    BY <2>3, <2>4, <2>5, <2>7, <2>8
  <2>10. Typed'
    BY DEF Good
  <2> QED
    BY <2>3, <2>4, <2>5, <2>6, <2>9, <2>10, OneRowLedger
<1>10. CASE HandlerFails
  <2>1. /\ calls' = <<>> /\ calls # <<>> /\ UNCHANGED items
        /\ owned' = [k \in Kind |->
                        IF Total(k) < owned[k] THEN Total(k) ELSE owned[k]]
    BY <1>10 DEF HandlerFails, Idle
  <2>2. Countable /\ Countable'
    BY <2>1 DEF Countable, Good, Typed, Ledger
  <2>3. ASSUME NEW k \in Kind
        PROVE  /\ Total(k) \in Nat /\ owned'[k] = Total(k)
               /\ Total(k)' = Total(k) /\ Due(k)' = 0
    <3>1. Total(k) \in Nat
      BY <2>2, WithoutRow
    <3>2. Due(k) \in Nat
      <4>1. PICK c : c = Head(calls)
        OBVIOUS
      <4>2. Runs(c)
        BY <2>1, <4>1, AllAbove DEF Good
      <4>3. c.call = "update" =>
               /\ c.item \in DOMAIN items /\ c.quantity \in Nat
               /\ c.quantity > items[c.item].quantity
               /\ items[c.item].quantity \in Nat
        BY <4>2 DEF Runs, Good, Typed
      <4>4. c.call = "create" => c.quantity \in Nat
        BY <4>2 DEF Runs, Creatable
      <4> QED
        BY <2>1, <4>1, <4>3, <4>4 DEF Due
    <3>3. Total(k) + Due(k) = owned[k]
      BY DEF Ledger
    <3>4. Total(k)' = Total(k)
      <4>1. RowsOf(k)' = RowsOf(k)
        BY <2>1 DEF RowsOf
      <4>2. UnitsOf(items, RowsOf(k))' = UnitsOf(items, RowsOf(k))
        BY <2>1, <4>1 DEF UnitsOf
      <4> QED
        BY <2>2, <4>2, TotalCounts, TotalCountsNext
    <3>5. Due(k)' = 0
      BY <2>1 DEF Due
    <3> QED
      BY <2>1, <3>1, <3>2, <3>3, <3>4, <3>5
  <2>4. owned' \in [Kind -> Nat]
    BY <2>1, <2>3
  <2>5. \A k \in Kind : Total(k)' + Due(k)' = owned'[k]
    BY <2>3
  <2> QED
    BY <2>1, <2>4, <2>5 DEF Ledger
<1>11. CASE Handler
  <2>1. CASE \E i \in DOMAIN items :
                \/ EatCandy(i)
                \/ \E n \in 1..items[i].quantity :
                      \/ ItemsDestroy(i, n)
                      \/ \E p \in Position : ItemsRequestMovement(i, n, p)
    BY <1>3, <1>4, <1>5, <2>1 DEF EatCandy
  <2>2. CASE \/ \E mount \in BOOLEAN : RideOrWalk(mount)
             \/ OpenMarket \/ LeaveMarket
             \/ \E k \in Kind : BigStoreBuy(k)
             \/ \E lv \in Level : SetLevel(lv)
    BY <1>6, <1>7, <1>8, <1>9, <2>2
  <2> QED
    BY <1>11, <2>1, <2>2 DEF Handler
<1> QED
  BY <1>10, <1>11

LEMMA InitLedger == Init => Ledger
<1> SUFFICES ASSUME Init PROVE Ledger
  OBVIOUS
<1>1. /\ items = <<>> /\ calls = <<>> /\ owned = [k \in Kind |-> 0]
  BY DEF Init
<1>2. DOMAIN items = {}
  BY <1>1
<1>3. IsFiniteSet(DOMAIN items)
  BY <1>2, FS_EmptySet
<1>4. Countable
  BY <1>2, <1>3 DEF Countable
<1>5. ASSUME NEW k \in Kind PROVE Total(k) + Due(k) = owned[k]
  <2>1. UnitsOf(items, RowsOf(k)) = {}
    BY <1>2 DEF UnitsOf, RowsOf
  <2>2. Total(k) = 0
    BY <1>4, <2>1, TotalCounts, FS_EmptySet
  <2> QED
    BY <1>1, <2>2 DEF Due
<1> QED
  BY <1>1, <1>3, <1>5 DEF Ledger

LEMMA LedgerStep == Good /\ Ledger /\ [Next]_vars => Ledger'
<1> SUFFICES ASSUME Good, Ledger, [Next]_vars PROVE Ledger'
  OBVIOUS
<1>1. Good'
  BY GoodStep
<1>2. CASE UNCHANGED vars
  <2>1. UNCHANGED <<items, owned, calls>>
    BY <1>2 DEF vars
  <2>2. Countable /\ Countable'
    BY <2>1 DEF Countable, Good, Typed, Ledger
  <2>3. ASSUME NEW k PROVE Total(k)' = Total(k) /\ Due(k)' = Due(k)
    <3>1. RowsOf(k)' = RowsOf(k)
      BY <2>1 DEF RowsOf
    <3>2. UnitsOf(items, RowsOf(k))' = UnitsOf(items, RowsOf(k))
      BY <2>1, <3>1 DEF UnitsOf
    <3> QED
      BY <2>1, <2>2, <3>2, TotalCounts, TotalCountsNext DEF Due
  <2> QED
    BY <2>1, <2>3 DEF Ledger
<1>3. CASE Step
  BY <1>1, <1>3, RemoveLedger, UpdateLedger, CreateLedger, AddLedger,
     MoveLedger, CallLedger DEF Step
<1>4. CASE Handler \/ HandlerFails
  BY <1>1, <1>4, HandlerLedger
<1> QED
  BY <1>2, <1>3, <1>4 DEF Next

\* Every unit bought and not destroyed is in a row, or one write away from it.
THEOREM LedgerIsKept == Spec => [](Good /\ Ledger)
BY InitGood, InitLedger, GoodStep, LedgerStep, PTL DEF Spec

\* No stack is ever empty, nothing is lost and kept at once, and no purchase
\* makes a debt.
THEOREM AlwaysTyped == Spec => []TypeOK
<1>1. Good /\ Ledger => TypeOK
  BY DEF Good, Typed, Ledger, TypeOK
<1> QED
  BY <1>1, LedgerIsKept, PTL

\* Between handlers the character has exactly the units it bought and did not
\* destroy, however stacks were split, joined and swapped on the way.
THEOREM AlwaysBalanced == Spec => []Balanced
<1>1. Good /\ Ledger => Balanced
  <2> SUFFICES ASSUME Good, Ledger, Idle, NEW k \in Kind
               PROVE  Total(k) = owned[k]
    BY DEF Balanced
  <2>1. Total(k) + Due(k) = owned[k] /\ Due(k) = 0
    BY DEF Ledger, Due, Idle
  <2>2. Countable
    BY DEF Countable, Good, Typed, Ledger
  <2>3. Total(k) \in Nat
    BY <2>2, WithoutRow
  <2> QED
    BY <2>1, <2>3
<1> QED
  BY <1>1, LedgerIsKept, PTL
=============================================================================
