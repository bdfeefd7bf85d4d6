------------------------------ MODULE Inventory ------------------------------
(***************************************************************************)
(* The items of one character: what it carries, wears, buys and destroys.  *)
(*                                                                         *)
(* The operations on items call one another, each reads the rows it needs  *)
(* and writes one of them at a time: equip calls unEquip, which calls      *)
(* moveItemToPosition, which calls removeItem; checkConditions takes off   *)
(* what no longer may be worn and calls itself until nothing changes, and  *)
(* calls mountOrDismount, which calls it back.  calls is the stack of what *)
(* the running handler has still to do, innermost first.  The goroutine of *)
(* the connection runs one handler at a time; a failure of the database    *)
(* may cut it, and its session, after any write.                           *)
(*                                                                         *)
(* A kind is a template with its effects (what sameItems compares).  Rows  *)
(* whose reads cannot fail are read where they are used, and the error     *)
(* returns no call reaches (an item of somebody else, a quantity beyond    *)
(* the stack, a position out of range) are left out.                       *)
(***************************************************************************)
EXTENDS Integers, Sequences, FiniteSets, FiniteSetsExt

CONSTANTS
    Kind,            \* kinds of items
    Item(_),         \* ids the database may give to the rows of a kind
    Template,        \* of each kind: Id, where it Fits, Level, Once, Set,
                     \*   TwoHands, CanUse, Price
    NoSet,           \* Set of a kind that belongs to no set of items
    Bonus(_),        \* how many bonuses a set has
    Condition(_, _, _, _),
                     \* may this kind be worn with these, at this level, riding
    EquipPosition,   \* positions from amulet to shield
    QuickPosition,   \* positions 35 to 62
    CheckOrder,      \* the positions in the order of checkConditions
    Level,           \* levels of the character
    RideLevel,       \* level from which it may ride (60)
    StartKamas       \* what a new character has

Position == EquipPosition \cup QuickPosition \cup {"bag", "food"}

\* What counts as worn for the conditions: neither in the bag nor a quick slot.
WornPosition == EquipPosition \cup {"food"}

TemplatesOfSet(s) == {Template[k].Id : k \in {l \in Kind : Template[l].Set = s}}

ASSUME InventoryAssumption ==
    /\ \A k, l \in Kind : k # l => Item(k) \cap Item(l) = {}
    /\ {"weapon", "shield", "pet"} \subseteq EquipPosition
    /\ EquipPosition \cap QuickPosition = {}
    /\ {"bag", "food"} \cap (EquipPosition \cup QuickPosition) = {}
    /\ "dragoturkey" \notin Position
    /\ \A k \in Kind :
          /\ Template[k].Fits \subseteq WornPosition
          /\ "pet" \in Template[k].Fits => Template[k].Fits = {"pet"}
          /\ ~({"weapon", "shield"} \subseteq Template[k].Fits)
          /\ Template[k].Price \in Nat
          /\ Template[k].Set # NoSet =>
                /\ Template[k].Once /\ ~Template[k].CanUse
                /\ Template[k].Fits \subseteq EquipPosition
    /\ \A s \in {Template[k].Set : k \in Kind} \ {NoSet} :
          /\ IsFiniteSet(TemplatesOfSet(s))
          /\ Bonus(s) \in Nat
          /\ Cardinality(TemplatesOfSet(s)) <= Bonus(s)
    /\ CheckOrder \in Seq(WornPosition \cup {"dragoturkey"})
    /\ \A p \in WornPosition \cup {"dragoturkey"} :
          \E n \in 1..Len(CheckOrder) : CheckOrder[n] = p
    /\ StartKamas \in Nat

VARIABLES
    items,      \* the rows: kind, quantity and position of each item
    kamas,      \* Character.Kamas
    level,      \* Character.Level()
    riding,     \* Character.Mounting
    market,     \* does the session have an exchangeMarket
    calls,      \* what the running handler has to do, innermost call first
    owned,      \* history: units of each kind bought and not destroyed
    unchecked   \* history: a handler ended before it checked the conditions

vars == <<items, kamas, level, riding, market, calls, owned, unchecked>>

At(p) == {i \in DOMAIN items : items[i].position = p}
Total(k) ==
    MapThenSumSet(LAMBDA i : items[i].quantity,
                  {i \in DOMAIN items : items[i].kind = k})

\* CreateCharacter: no items.
Init ==
    /\ items = <<>>
    /\ kamas = StartKamas
    /\ level \in Level
    /\ riding = FALSE
    /\ market = FALSE
    /\ calls = <<>>
    /\ owned = [k \in Kind |-> 0]
    /\ unchecked = FALSE

-----------------------------------------------------------------------------
(* Calls *)

Move(i, n, p) == [call |-> "move", item |-> i, quantity |-> n, to |-> p]
Remove(i, n, wanted) ==
    [call |-> "remove", item |-> i, quantity |-> n, wanted |-> wanted]
Update(i, n) == [call |-> "update", item |-> i, quantity |-> n]
Create(k, n, p) == [call |-> "create", kind |-> k, quantity |-> n, to |-> p]
PutOn(i, p, freed) ==
    [call |-> "put on", item |-> i, to |-> p, freed |-> freed]
MountOrDismount(mount) == [call |-> "mount", mount |-> mount]
Ride(mount) == [call |-> "ride", mount |-> mount]
Check(n, changed) == [call |-> "check", from |-> n, changed |-> changed]
Earn(n) == [call |-> "earn", quantity |-> n]
Add(k) == [call |-> "add", kind |-> k]

CheckConditions == Check(1, FALSE)

\* unEquip moves the whole stack to the bag.
unEquip(i) == Move(i, items[i].quantity, "bag")

\* The loops that look for an item at a position, and take off the first.
TakeOff(found) ==
    IF found = {} THEN <<>> ELSE <<unEquip(CHOOSE i \in found : TRUE)>>

\* equip first takes off what is at the position.
Equip(i, p) == TakeOff(At(p)) \o <<PutOn(i, p, At(p) # {})>>

Running(name) == calls # <<>> /\ Head(calls).call = name

\* The innermost call goes on with these calls, and then returns.
Continue(next) == calls' = next \o Tail(calls)

-----------------------------------------------------------------------------
(* Rows of items *)

\* Mutant: an emptied stack is kept.
RemoveItemOnly ==
    LET c == Head(calls) IN
    /\ Running("remove")
    /\ items' = [items EXCEPT ![c.item].quantity = @ - c.quantity]
    /\ owned' = [owned EXCEPT ![items[c.item].kind] =
                    IF c.wanted THEN @ - c.quantity ELSE @]
    /\ Continue(<<>>)
    /\ UNCHANGED <<kamas, level, riding, market, unchecked>>

\* removeItem: the whole row, or a part of its quantity.
RemoveItem ==
    LET c == Head(calls) IN
    /\ Running("remove")
    /\ items' =
          IF c.quantity = items[c.item].quantity
          THEN [i \in DOMAIN items \ {c.item} |-> items[i]]
          ELSE [items EXCEPT ![c.item].quantity = @ - c.quantity]
    /\ owned' = [owned EXCEPT ![items[c.item].kind] =
                    IF c.wanted THEN @ - c.quantity ELSE @]
    /\ Continue(<<>>)
    /\ UNCHANGED <<kamas, level, riding, market, unchecked>>

\* The update of a stack, from the row moveItemToPosition has read.
UpdateItem ==
    LET c == Head(calls) IN
    /\ Running("update")
    /\ items' = [items EXCEPT ![c.item].quantity = c.quantity]
    /\ Continue(<<>>)
    /\ UNCHANGED <<kamas, level, riding, market, owned, unchecked>>

NewItem(k) == CHOOSE i \in Item(k) : i \notin DOMAIN items

WithItem(k, n, p) ==
    [i \in DOMAIN items \cup {NewItem(k)} |->
        IF i = NewItem(k) THEN [kind |-> k, quantity |-> n, position |-> p]
        ELSE items[i]]

CreateItem ==
    LET c == Head(calls) IN
    /\ Running("create")
    /\ Item(c.kind) \ DOMAIN items # {}
    /\ items' = WithItem(c.kind, c.quantity, c.to)
    /\ Continue(<<>>)
    /\ UNCHANGED <<kamas, level, riding, market, owned, unchecked>>

\* itemBatch: the stacks at a position an item can join.
Batches(k, p) == {i \in At(p) : items[i].kind = k}

\* Mutant: what is bought always gets a row of its own.
AddItemApart ==
    LET c == Head(calls) IN
    /\ Running("add")
    /\ Item(c.kind) \ DOMAIN items # {}
    /\ items' = WithItem(c.kind, 1, "bag")
    /\ Continue(<<>>)
    /\ UNCHANGED <<kamas, level, riding, market, owned, unchecked>>

\* addItemToInventory, which writes once.
AddItemToInventory ==
    LET c == Head(calls)
        batches == Batches(c.kind, "bag")
    IN
    /\ Running("add")
    /\ \/ \E b \in batches : items' = [items EXCEPT ![b].quantity = @ + 1]
       \/ /\ batches = {}
          /\ Item(c.kind) \ DOMAIN items # {}
          /\ items' = WithItem(c.kind, 1, "bag")
    /\ Continue(<<>>)
    /\ UNCHANGED <<kamas, level, riding, market, owned, unchecked>>

\* The items by whose number sendItemSetBonus indexes the bonuses of a set.
ItemsOfSet(s) ==
    {i \in DOMAIN items :
        Template[items[i].kind].Set = s /\ items[i].position # "bag"}

-----------------------------------------------------------------------------
(* moveItemToPosition *)

\* Mutant: the stack is increased before the item is taken away.
JoinsEarly ==
    LET c == Head(calls) IN
    /\ Running("move")
    /\ \E b \in Batches(items[c.item].kind, c.to) :
          Continue(<<Update(b, items[b].quantity + c.quantity),
                     Remove(c.item, c.quantity, FALSE)>>)
    /\ UNCHANGED <<items, kamas, level, riding, market, owned, unchecked>>

\* A stack of the kind at the position: the item leaves its own row, then the
\* stack gets the quantity it had plus the units moved.
Joins ==
    LET c == Head(calls) IN
    /\ Running("move")
    /\ \E b \in Batches(items[c.item].kind, c.to) :
          Continue(<<Remove(c.item, c.quantity, FALSE),
                     Update(b, items[b].quantity + c.quantity)>>)
    /\ UNCHANGED <<items, kamas, level, riding, market, owned, unchecked>>

\* No such stack: whatever is at the position has to leave it.
Clears ==
    LET c == Head(calls) IN
    /\ Running("move")
    /\ c.to # "bag"
    /\ Batches(items[c.item].kind, c.to) = {}
    /\ \E i \in At(c.to) : Continue(<<unEquip(i), c>>)
    /\ UNCHANGED <<items, kamas, level, riding, market, owned, unchecked>>

\* Mutant: the position need not be free.
PlacesAnyway ==
    LET c == Head(calls)
        item == items[c.item]
    IN
    /\ Running("move")
    /\ Batches(item.kind, c.to) = {}
    /\ IF c.quantity = item.quantity
       THEN /\ items' = [items EXCEPT ![c.item].position = c.to]
            /\ Continue(<<>>)
       ELSE /\ Continue(<<Remove(c.item, c.quantity, FALSE),
                          Create(item.kind, c.quantity, c.to)>>)
            /\ UNCHANGED items
    /\ UNCHANGED <<kamas, level, riding, market, owned, unchecked>>

\* The position is free: the whole row goes there, or a part of it in a row of
\* its own.
Places ==
    LET c == Head(calls)
        item == items[c.item]
    IN
    /\ Running("move")
    /\ IF c.to = "bag" THEN Batches(item.kind, c.to) = {} ELSE At(c.to) = {}
    /\ IF c.quantity = item.quantity
       THEN /\ items' = [items EXCEPT ![c.item].position = c.to]
            /\ Continue(<<>>)
       ELSE /\ Continue(<<Remove(c.item, c.quantity, FALSE),
                          Create(item.kind, c.quantity, c.to)>>)
            /\ UNCHANGED items
    /\ UNCHANGED <<kamas, level, riding, market, owned, unchecked>>

-----------------------------------------------------------------------------
(* equip *)

\* The type of the item does not go there: errNotAllowed ends the handler, not
\* the session, and what was taken off stays off without a check.
EquipNotAllowed ==
    LET c == Head(calls) IN
    /\ Running("put on")
    /\ c.to \notin Template[items[c.item].kind].Fits
    /\ calls' = <<>>
    /\ unchecked' = (unchecked \/ c.freed)
    /\ UNCHANGED <<items, kamas, level, riding, market, owned>>

EquippedTemplates ==
    {Template[items[i].kind].Id :
        i \in {j \in DOMAIN items : items[j].position \in EquipPosition}}

\* Mutant: the effects are compared as well.
SameEquipped(k) ==
    /\ Template[k].Once
    /\ \E i \in DOMAIN items :
          items[i].kind = k /\ items[i].position \in EquipPosition

\* One of its template is worn, and no second one may be.
AlreadyEquipped(k) ==
    Template[k].Once /\ Template[k].Id \in EquippedTemplates

\* The level is too low, or it is worn already: nothing more is done.
EquipRefused ==
    LET c == Head(calls)
        k == items[c.item].kind
    IN
    /\ Running("put on")
    /\ c.to \in Template[k].Fits
    /\ Template[k].Level > level \/ AlreadyEquipped(k)
    /\ Continue(<<>>)
    /\ UNCHANGED <<items, kamas, level, riding, market, owned, unchecked>>

\* Mutant: a shield is put on beside a two-handed weapon.
InTheWayOfWeapon(k, p) ==
    IF p = "weapon" /\ Template[k].TwoHands THEN At("shield") ELSE {}

\* What a two-handed weapon and a shield exclude.
InTheWay(k, p) ==
    CASE p = "weapon" /\ Template[k].TwoHands -> At("shield")
      [] p = "shield" ->
            {i \in At("weapon") : Template[items[i].kind].TwoHands}
      [] OTHER -> {}

\* Mutant: the whole stack is put on.
EquipsStack ==
    LET c == Head(calls)
        k == items[c.item].kind
    IN
    /\ Running("put on")
    /\ c.to \in Template[k].Fits
    /\ Template[k].Level <= level
    /\ ~AlreadyEquipped(k)
    /\ Continue(TakeOff(InTheWay(k, c.to))
                \o <<Move(c.item, items[c.item].quantity, c.to)>>)
    /\ UNCHANGED <<items, kamas, level, riding, market, owned, unchecked>>

\* One unit of the item goes to the position.  A pet is not worn on a mount.
Equips ==
    LET c == Head(calls)
        k == items[c.item].kind
    IN
    /\ Running("put on")
    /\ c.to \in Template[k].Fits
    /\ Template[k].Level <= level
    /\ ~AlreadyEquipped(k)
    /\ Continue(TakeOff(InTheWay(k, c.to))
                \o (IF c.to = "pet" /\ riding THEN <<MountOrDismount(FALSE)>>
                    ELSE <<>>)
                \o <<Move(c.item, 1, c.to)>>)
    /\ UNCHANGED <<items, kamas, level, riding, market, owned, unchecked>>

-----------------------------------------------------------------------------
(* mountOrDismount *)

\* It rides or walks already, or it may not ride.  Whether it has a mount is
\* the state of Mounts: here any ride may be refused.
MountRefused ==
    LET c == Head(calls) IN
    /\ Running("mount")
    /\ riding = c.mount \/ c.mount
    /\ Continue(<<>>)
    /\ UNCHANGED <<items, kamas, level, riding, market, owned, unchecked>>

\* Mutant: the pet is kept.
MountsWithPet ==
    LET c == Head(calls) IN
    /\ Running("mount")
    /\ riding # c.mount
    /\ c.mount => level >= RideLevel
    /\ Continue(<<Ride(c.mount)>>)
    /\ UNCHANGED <<items, kamas, level, riding, market, owned, unchecked>>

\* A pet is taken off before its owner rides.
Mounts ==
    LET c == Head(calls) IN
    /\ Running("mount")
    /\ riding # c.mount
    /\ c.mount => level >= RideLevel
    /\ Continue(TakeOff(IF c.mount THEN At("pet") ELSE {}) \o <<Ride(c.mount)>>)
    /\ UNCHANGED <<items, kamas, level, riding, market, owned, unchecked>>

Rides ==
    /\ Running("ride")
    /\ riding' = Head(calls).mount
    /\ Continue(<<CheckConditions>>)
    /\ UNCHANGED <<items, kamas, level, market, owned, unchecked>>

-----------------------------------------------------------------------------
(* checkConditions *)

WornKinds == {items[i].kind : i \in {j \in DOMAIN items :
                                        items[j].position \in WornPosition}}

Passes(i) ==
    /\ Template[items[i].kind].Level <= level
    /\ Condition(items[i].kind, WornKinds, level, riding)

\* Where the conditions are not met; the mount is checked like an item.
Failing(p) ==
    IF p = "dragoturkey" THEN riding /\ level < RideLevel
    ELSE \E i \in At(p) : ~Passes(i)

FailingFrom(n) == {m \in n..Len(CheckOrder) : Failing(CheckOrder[m])}

\* The next position where they are not met is cleared.
Unwears ==
    LET c == Head(calls)
        failing == FailingFrom(c.from)
        m == Min(failing)
        p == CheckOrder[m]
    IN
    /\ Running("check")
    /\ failing # {}
    /\ \/ /\ p = "dragoturkey"
          /\ Continue(<<MountOrDismount(FALSE), Check(m + 1, TRUE)>>)
       \/ /\ p # "dragoturkey"
          /\ \E i \in At(p) :
                ~Passes(i) /\ Continue(<<unEquip(i), Check(m + 1, TRUE)>>)
    /\ UNCHANGED <<items, kamas, level, riding, market, owned, unchecked>>

\* Mutant: every position is looked at once.
ChecksOnce ==
    LET c == Head(calls) IN
    /\ Running("check")
    /\ FailingFrom(c.from) = {}
    /\ Continue(<<>>)
    /\ unchecked' = FALSE
    /\ UNCHANGED <<items, kamas, level, riding, market, owned>>

\* Mutant: a change in an earlier round counts as one of this round.
ChecksForever ==
    LET c == Head(calls) IN
    /\ Running("check")
    /\ FailingFrom(c.from) = {}
    /\ Continue(IF c.changed THEN <<Check(1, TRUE)>> ELSE <<>>)
    /\ unchecked' = (unchecked /\ c.changed)
    /\ UNCHANGED <<items, kamas, level, riding, market, owned>>

\* The end of a round: what was changed may fail something else, and a round
\* that changed nothing is the last one.
Checks ==
    LET c == Head(calls) IN
    /\ Running("check")
    /\ FailingFrom(c.from) = {}
    /\ Continue(IF c.changed THEN <<CheckConditions>> ELSE <<>>)
    /\ unchecked' = (unchecked /\ c.changed)
    /\ UNCHANGED <<items, kamas, level, riding, market, owned>>

-----------------------------------------------------------------------------
(* Handlers *)

Idle == calls = <<>>

Handles(next) ==
    /\ Idle
    /\ calls' = next
    /\ UNCHANGED <<items, kamas, level, riding, market, owned, unchecked>>

\* handleItemsRequestMovement: to the bag, from where it is worn or from a
\* quick slot; to a position that is worn; or to a quick slot.
ItemsRequestMovement(i, n, p) ==
    /\ i \in DOMAIN items
    /\ p # items[i].position
    /\ n \in 1..items[i].quantity
    /\ \/ /\ p = "bag" /\ items[i].position \in EquipPosition
          /\ Handles(<<unEquip(i), CheckConditions>>)
       \/ /\ p = "bag" /\ items[i].position \in QuickPosition
          /\ Handles(<<Move(i, n, p)>>)
       \/ /\ p \in EquipPosition
          /\ Handles(Equip(i, p) \o <<CheckConditions>>)
       \/ /\ p \in QuickPosition
          /\ \/ /\ items[i].position = "bag"
                /\ Template[items[i].kind].CanUse
                /\ "food" \notin Template[items[i].kind].Fits
             \/ items[i].position \in QuickPosition
          /\ Handles(<<Move(i, n, p)>>)

\* handleItemsDestroy and handleItemsDrop, where food on is out of reach.
ItemsDestroy(i, n) ==
    /\ i \in DOMAIN items
    /\ n \in 1..items[i].quantity
    /\ items[i].position # "food"
    /\ Handles(<<Remove(i, n, TRUE), Earn(n)>>
               \o IF items[i].position \in EquipPosition
                  THEN <<CheckConditions>> ELSE <<>>)

\* A unit destroyed earns one kama.
Earns ==
    /\ Running("earn")
    /\ kamas' = kamas + Head(calls).quantity
    /\ Continue(<<>>)
    /\ UNCHANGED <<items, level, riding, market, owned, unchecked>>

\* handleItemsUseNoConfirm of a candy.
EatCandy(i) ==
    /\ i \in DOMAIN items
    /\ items[i].position \in {"bag"} \cup QuickPosition
    /\ "food" \in Template[items[i].kind].Fits
    /\ Handles(Equip(i, "food") \o <<CheckConditions>>)

\* handleMountRide and the items that call the mount; the handlers of mounts
\* that put it away make its owner dismount.
RideOrWalk(mount) == Handles(<<MountOrDismount(mount)>>)

\* handleExchangeRequest and handleExchangeLeave.
OpenMarket ==
    /\ Idle
    /\ market' = TRUE
    /\ UNCHANGED <<items, kamas, level, riding, calls, owned, unchecked>>

LeaveMarket ==
    /\ Idle
    /\ market' = FALSE
    /\ UNCHANGED <<items, kamas, level, riding, calls, owned, unchecked>>

\* handleExchangeBigStoreBuy: the price is paid, then the item is added.  The
\* rows of a market, which are data, are taken to offer one unit each.
BigStoreBuy(k) ==
    /\ Idle
    /\ market
    /\ Template[k].Price <= kamas
    /\ kamas' = kamas - Template[k].Price
    /\ owned' = [owned EXCEPT ![k] = @ + 1]
    /\ calls' = <<Add(k)>>
    /\ UNCHANGED <<items, level, riding, market, unchecked>>

\* The write of the level in setLevel (see Progression), which ends with a
\* check.
SetLevel(lv) ==
    /\ Idle
    /\ level' = lv
    /\ calls' = <<CheckConditions>>
    /\ UNCHANGED <<items, kamas, riding, market, owned, unchecked>>

\* An error ends the handler and the session: what was written stays, what was
\* not is lost, and the next session starts without a market.
HandlerFails ==
    /\ ~Idle
    /\ calls' = <<>>
    /\ market' = FALSE
    /\ owned' = [k \in Kind |-> IF Total(k) < owned[k] THEN Total(k) ELSE owned[k]]
    /\ unchecked' = TRUE
    /\ UNCHANGED <<items, kamas, level, riding>>

-----------------------------------------------------------------------------
Step ==
    \/ RemoveItem \/ UpdateItem \/ CreateItem \/ AddItemToInventory
    \/ Joins \/ Clears \/ Places
    \/ EquipNotAllowed \/ EquipRefused \/ Equips
    \/ MountRefused \/ Mounts \/ Rides
    \/ Unwears \/ Checks \/ Earns

Handler ==
    \/ \E i \in DOMAIN items :
          \/ EatCandy(i)
          \/ \E n \in 1..items[i].quantity :
                \/ ItemsDestroy(i, n)
                \/ \E p \in Position : ItemsRequestMovement(i, n, p)
    \/ \E mount \in BOOLEAN : RideOrWalk(mount)
    \/ OpenMarket \/ LeaveMarket
    \/ \E k \in Kind : BigStoreBuy(k)
    \/ \E lv \in Level : SetLevel(lv)

Next == Step \/ Handler \/ HandlerFails

Spec == Init /\ [][Next]_vars

\* The goroutine of the connection runs a handler on until it returns.
FairSpec == Spec /\ WF_vars(Step)

-----------------------------------------------------------------------------
(* Properties *)

\* Types; in particular no stack is ever empty and no price makes a debt.
TypeOK ==
    /\ \A i \in DOMAIN items :
          /\ items[i].kind \in Kind
          /\ i \in Item(items[i].kind)
          /\ items[i].quantity \in Nat \ {0}
          /\ items[i].position \in Position
    /\ kamas \in Nat
    /\ level \in Level
    /\ riding \in BOOLEAN /\ market \in BOOLEAN /\ unchecked \in BOOLEAN
    /\ owned \in [Kind -> Nat]

\* Everywhere but in the bag there is one row to a position.
OnePerPosition ==
    \A i, j \in DOMAIN items :
        i # j /\ items[i].position = items[j].position =>
            items[i].position = "bag"

\* The bag holds one stack of a kind, whichever way its units came back to it.
StacksMerged ==
    \A i, j \in At("bag") : items[i].kind = items[j].kind => i = j

\* Each row has its position to itself or, in the bag, is merged with its like,
\* through every swap, split, join and failure of moveItemToPosition.
WellPlaced == OnePerPosition /\ StacksMerged

\* What is worn is where its type goes, one unit of it.
WornFits ==
    \A i \in DOMAIN items :
        items[i].position \in WornPosition =>
            /\ items[i].quantity = 1
            /\ items[i].position \in Template[items[i].kind].Fits

\* A two-handed weapon and a shield, a pet and a mount, exclude each other at
\* every moment, also in the middle of a swap.
Exclusive ==
    /\ \A i \in At("weapon") :
          Template[items[i].kind].TwoHands => At("shield") = {}
    /\ riding => At("pet") = {}

\* What is worn fits its position and what else is worn, at every moment.
WornWell == WornFits /\ Exclusive

\* The items of a set out of the bag never outnumber its bonuses, which
\* sendItemSetBonus indexes by their number: each swap frees before it puts on,
\* and one template is worn once even with different effects.
BonusIndexed ==
    \A s \in {Template[k].Set : k \in Kind} \ {NoSet} :
        Cardinality(ItemsOfSet(s)) <= Bonus(s)

\* Between handlers, everything worn meets its conditions, which what else is
\* worn, the level and the mount bear on, unless a handler was cut short.
ConditionsHold ==
    Idle /\ ~unchecked =>
        \A p \in WornPosition \cup {"dragoturkey"} : ~Failing(p)

\* Between handlers, the character has every unit it bought and did not
\* destroy; a failure in the middle of a move may lose units, never double one.
Balanced == Idle => \A k \in Kind : Total(k) = owned[k]

\* Every handler returns: moves into occupied positions, and checkConditions
\* and mountOrDismount that call each other, do not go on for ever.
HandlersEnd == ~Idle ~> Idle
=============================================================================
