---------------------------- MODULE MountsProofs ----------------------------
(***************************************************************************)
(* Proofs about Mounts for any number of characters and mounts: where a    *)
(* mount is, who uses it, whom the maintenance may delete, and that the    *)
(* detailed specification implements MountKeeping.                         *)
(***************************************************************************)
EXTENDS Mounts, TLAPS

\* Who has a claim to a mount.  A mount with a certificate or in the hands of a
\* handler has no owner, and there is one certificate or handler at most.
ClaimInv ==
    /\ \A m \in Mount : owner[m] # NoCharacter => m \in born
    /\ \A c \in Character : \A k \in certificate[c] :
          owner[k.mount] = NoCharacter /\ k.mount \in born
    /\ \A c \in Character, m \in Mount :
          Carries(c, m) => owner[m] = NoCharacter /\ m \in born
    /\ \A c, d \in Character : \A k \in certificate[c] : ~Carries(d, k.mount)
    /\ \A c, d \in Character : \A k \in certificate[c], l \in certificate[d] :
          l.mount = k.mount => c = d /\ l = k
    /\ \A c, d \in Character, m \in Mount :
          Carries(c, m) /\ Carries(d, m) => c = d

\* Who uses a mount: its owner; it is put away only by a character that has
\* dismounted, and deleted only when nobody uses it.
UseInv ==
    \A c \in Character :
        /\ mountId[c] # NoMount => owner[mountId[c]] = c
        /\ mounting[c] => mountId[c] # NoMount
        /\ pc[c] \in {"unequip", "free"} => ~mounting[c]
        /\ pc[c] = "ride" => mountId[c] # NoMount
        /\ pc[c] = "delete" =>
              owner[subject[c]] = c /\ mountId[c] = NoMount

\* A mount with an owner has no date, and no row without a date is listed.
DateInv ==
    /\ \A m \in Mount : owner[m] # NoCharacter => validity[m] = 0
    /\ \A v \in listed : v.date # 0

Inv == TypeOK /\ ClaimInv /\ UseInv /\ DateInv

-----------------------------------------------------------------------------
(* Types *)

LEMMA InitInv == ASSUME MountsAssumption PROVE Init => Inv
BY DEF MountsAssumption, Init, Inv, TypeOK, ClaimInv, UseInv, DateInv, Carries,
       Moving, Points

\* A handler that goes to another point keeps the types.
LEMMA GotoType ==
  ASSUME TypeOK, NEW c \in Character, NEW point \in Points,
         NEW m \in Mount \cup {NoMount}, Goto(c, point, m),
         point \in Moving \cup {"equip", "delete"} => m # NoMount
  PROVE  /\ pc' \in [Character -> Points]
         /\ subject' \in [Character -> Mount \cup {NoMount}]
         /\ \A d \in Character :
               pc'[d] \in Moving \cup {"equip", "delete"} => subject'[d] # NoMount
BY DEF TypeOK, Goto

LEMMA EndsType ==
  ASSUME TypeOK, NEW c \in Character, Ends(c)
  PROVE  /\ pc' \in [Character -> Points]
         /\ subject' \in [Character -> Mount \cup {NoMount}]
         /\ \A d \in Character :
               pc'[d] \in Moving \cup {"equip", "delete"} => subject'[d] # NoMount
BY DEF TypeOK, Ends, Goto, Points, Moving

\* Every step keeps the types.
LEMMA TypeStep ==
  ASSUME MountsAssumption, TypeOK, [Next]_vars PROVE TypeOK'
<1> USE DEF rows, chars, handler
<1>1. CASE UNCHANGED vars
  BY <1>1 DEF vars, TypeOK, Points, Moving
<1>2. ASSUME NEW c \in Character, Handles(c) PROVE TypeOK'
  <2>0. UNCHANGED server
    BY <1>2 DEF Handles
  <2> USE <2>0
  <2>1. ASSUME NEW m \in Mount, Buy(c, m) PROVE TypeOK'
    <3>1. Goto(c, "deliver", m)
      BY <2>1 DEF Buy
    <3>2. /\ pc' \in [Character -> Points]
          /\ subject' \in [Character -> Mount \cup {NoMount}]
          /\ \A d \in Character :
               pc'[d] \in Moving \cup {"equip", "delete"} => subject'[d] # NoMount
      BY <3>1, GotoType DEF Points, Moving, MountsAssumption
    <3> QED
      BY <2>1, <3>2 DEF Buy, TypeOK, MountsAssumption
  <2>2. ASSUME NEW m \in Mount, PutInCertificateFromShed(c, m) PROVE TypeOK'
    <3>1. Goto(c, "certify", m)
      BY <2>2 DEF PutInCertificateFromShed
    <3>2. /\ pc' \in [Character -> Points]
          /\ subject' \in [Character -> Mount \cup {NoMount}]
          /\ \A d \in Character :
               pc'[d] \in Moving \cup {"equip", "delete"} => subject'[d] # NoMount
      BY <3>1, GotoType DEF Points, Moving, MountsAssumption
    <3> QED
      BY <2>2, <3>2 DEF PutInCertificateFromShed, TypeOK, MountsAssumption
  <2>3. ASSUME NEW m \in Mount, PutInInventoryFromShed(c, m) PROVE TypeOK'
    <3>1. Goto(c, "equip", m) \/ Goto(c, "unequip", m)
      BY <2>3 DEF PutInInventoryFromShed
    <3>2. /\ pc' \in [Character -> Points]
          /\ subject' \in [Character -> Mount \cup {NoMount}]
          /\ \A d \in Character :
               pc'[d] \in Moving \cup {"equip", "delete"} => subject'[d] # NoMount
      BY <3>1, GotoType DEF Points, Moving, MountsAssumption
    <3> QED
      BY <2>3, <3>2 DEF PutInInventoryFromShed, TypeOK
  <2>4. ASSUME NEW k \in certificate[c],
               DestroyCertificate(c, k) \/ PutInShedFromCertificate(c, k)
        PROVE  TypeOK'
    <3>1. k \in [mount : Mount, date : Nat]
      BY DEF TypeOK
    <3>2. CASE DestroyCertificate(c, k)
      BY <3>2 DEF DestroyCertificate, TypeOK, Points, Moving
    <3>3. CASE PutInShedFromCertificate(c, k)
      <4>1. Goto(c, "shelter", k.mount) /\ k.mount \in Mount
        BY <3>1, <3>3 DEF PutInShedFromCertificate
      <4>2. /\ pc' \in [Character -> Points]
            /\ subject' \in [Character -> Mount \cup {NoMount}]
            /\ \A d \in Character :
               pc'[d] \in Moving \cup {"equip", "delete"} => subject'[d] # NoMount
        BY <4>1, GotoType DEF Points, Moving, MountsAssumption
      <4> QED
        BY <3>3, <4>2 DEF PutInShedFromCertificate, TypeOK
    <3> QED
      BY <2>4, <3>2, <3>3
  <2>5. CASE Refused(c) \/ HandlerFails(c) \/ RideEquipped(c)
    <3>1. Ends(c)
      BY <2>5 DEF Refused, HandlerFails, RideEquipped
    <3> QED
      BY <2>5, <3>1, EndsType DEF Refused, HandlerFails, RideEquipped, TypeOK
  <2>6. CASE Deliver(c)
    <3>1. Ends(c) /\ subject[c] \in Mount
      BY <2>6 DEF Deliver, TypeOK, Moving
    <3>2. Certificate(subject[c], validity[subject[c]]) \in [mount : Mount, date : Nat]
      BY <3>1 DEF Certificate, TypeOK
    <3> QED
      BY <2>6, <3>1, <3>2, EndsType DEF Deliver, TypeOK
  <2>7. CASE Shelter(c)
    <3>1. Ends(c)
      BY <2>7 DEF Shelter
    <3> QED
      BY <2>7, <3>1, EndsType DEF Shelter, TypeOK
  <2>8. CASE DeleteFreed(c)
    <3>1. Ends(c)
      BY <2>8 DEF DeleteFreed
    <3> QED
      BY <2>8, <3>1, EndsType DEF DeleteFreed, TypeOK
  <2>9. CASE PutInShedFromInventory(c) \/ MountFree(c)
    <3>1. Goto(c, "unequip", NoMount) \/ Goto(c, "free", NoMount)
      BY <2>9 DEF PutInShedFromInventory, MountFree
    <3>2. /\ pc' \in [Character -> Points]
          /\ subject' \in [Character -> Mount \cup {NoMount}]
          /\ \A d \in Character :
               pc'[d] \in Moving \cup {"equip", "delete"} => subject'[d] # NoMount
      BY <3>1, GotoType DEF Points, Moving
    <3> QED
      BY <2>9, <3>2 DEF PutInShedFromInventory, MountFree, TypeOK
  <2>10. CASE Unequip(c)
    <3>1. Ends(c) \/ (Goto(c, "equip", subject[c]) /\ subject[c] # NoMount)
      BY <2>10 DEF Unequip
    <3>2. /\ pc' \in [Character -> Points]
          /\ subject' \in [Character -> Mount \cup {NoMount}]
          /\ \A d \in Character :
               pc'[d] \in Moving \cup {"equip", "delete"} => subject'[d] # NoMount
      BY <3>1, GotoType, EndsType DEF Points, TypeOK
    <3> QED
      BY <2>10, <3>2 DEF Unequip, TypeOK
  <2>11. CASE EquipMount(c)
    <3>1. Ends(c) \/ Goto(c, "ride", NoMount)
      BY <2>11 DEF EquipMount
    <3>2. /\ pc' \in [Character -> Points]
          /\ subject' \in [Character -> Mount \cup {NoMount}]
          /\ \A d \in Character :
               pc'[d] \in Moving \cup {"equip", "delete"} => subject'[d] # NoMount
      BY <3>1, GotoType, EndsType DEF Points, Moving
    <3> QED
      BY <2>11, <3>2 DEF EquipMount, TypeOK
  <2>12. CASE MountRide(c)
    BY <2>12 DEF MountRide, TypeOK, Points, Moving
  <2>13. CASE Free(c)
    <3>1. Ends(c) \/ (Goto(c, "delete", mountId[c]) /\ mountId[c] # NoMount)
      BY <2>13 DEF Free
    <3>2. /\ pc' \in [Character -> Points]
          /\ subject' \in [Character -> Mount \cup {NoMount}]
          /\ \A d \in Character :
               pc'[d] \in Moving \cup {"equip", "delete"} => subject'[d] # NoMount
      BY <3>1, GotoType, EndsType DEF Points, TypeOK
    <3> QED
      BY <2>13, <3>2 DEF Free, TypeOK
  <2> QED
    BY <1>2, <2>1, <2>2, <2>3, <2>4, <2>5, <2>6, <2>7, <2>8, <2>9, <2>10,
       <2>11, <2>12, <2>13 DEF Handles, Operates
<1>3. CASE Maintains
  <2>1. CASE ListMounts
    BY <2>1 DEF ListMounts, Certificate, TypeOK, Points, Moving
  <2>2. CASE MaintenanceFails \/ \E v \in listed : DeleteInvalid(v) \/ PassOver(v)
    BY <2>2 DEF MaintenanceFails, DeleteInvalid, PassOver, TypeOK, Points, Moving
  <2> QED
    BY <1>3, <2>1, <2>2 DEF Maintains
<1>4. CASE Tick
  BY <1>4 DEF Tick, TypeOK, Points, Moving
<1>5. CASE Restarts
  BY <1>5 DEF Restarts, ServerStops, ServerStarts, TypeOK, Points, Moving
<1> QED
  BY <1>1, <1>2, <1>3, <1>4, <1>5 DEF Next

LEMMA InvTypes == ASSUME Inv PROVE TypeOK /\ ClaimInv /\ UseInv /\ DateInv
BY DEF Inv

-----------------------------------------------------------------------------
(* Claims *)

\* Where the handlers of a character go, that of another one stays.
LEMMA OthersStay ==
  ASSUME TypeOK, NEW c \in Character, NEW point, NEW n, Goto(c, point, n)
  PROVE  /\ \A d \in Character \ {c}, m \in Mount : Carries(d, m)' <=> Carries(d, m)
         /\ \A m \in Mount : Carries(c, m)' <=> point \in Moving /\ n = m
BY DEF Goto, Carries, TypeOK

LEMMA CarriesEnds ==
  ASSUME TypeOK, NEW c \in Character, Ends(c)
  PROVE  \A d \in Character, m \in Mount : Carries(d, m)' <=> d # c /\ Carries(d, m)
BY DEF Ends, Goto, Carries, TypeOK, Moving

\* A step that gives away no mount, writes no certificate and takes no mount
\* into a handler's hands leaves the claims in order.
LEMMA ClaimFrame ==
  ASSUME TypeOK, ClaimInv, owner' = owner, born' = born,
         \A c \in Character : certificate'[c] \subseteq certificate[c],
         \A c \in Character, m \in Mount : Carries(c, m)' => Carries(c, m)
  PROVE  ClaimInv'
<1>1. \A c \in Character : \A k \in certificate'[c] : k \in certificate[c] /\ k.mount \in Mount
  BY DEF TypeOK
<1> QED
  BY <1>1 DEF ClaimInv

\* Every step of a handler keeps the claims.
LEMMA HandlerClaims ==
  ASSUME MountsAssumption, TypeOK, ClaimInv, NEW c \in Character, Handles(c)
  PROVE  ClaimInv'
<1> USE DEF rows, chars, handler
<1>1. ASSUME NEW m \in Mount, Buy(c, m) PROVE ClaimInv'
  <2>1. /\ owner' = owner /\ certificate' = certificate
        /\ born' = born \cup {m} /\ m \notin born
    BY <1>1 DEF Buy, ClaimInv, TypeOK
  <2>2. /\ \A d \in Character \ {c}, n \in Mount : Carries(d, n)' <=> Carries(d, n)
        /\ \A n \in Mount : Carries(c, n)' <=> n = m
    BY <1>1, OthersStay DEF Buy, Moving
  <2>3. \A d \in Character : \A k \in certificate[d] : k.mount \in Mount
    BY DEF TypeOK
  <2> QED
    BY <2>1, <2>2, <2>3 DEF ClaimInv
<1>2. ASSUME NEW m \in Mount, PutInCertificateFromShed(c, m) PROVE ClaimInv'
  <2>1. /\ owner' = [owner EXCEPT ![m] = NoCharacter] /\ certificate' = certificate
        /\ born' = born /\ owner[m] = c /\ c # NoCharacter
    BY <1>2 DEF PutInCertificateFromShed, MountsAssumption
  <2>2. /\ \A d \in Character \ {c}, n \in Mount : Carries(d, n)' <=> Carries(d, n)
        /\ \A n \in Mount : Carries(c, n)' <=> n = m
    BY <1>2, OthersStay DEF PutInCertificateFromShed, Moving
  <2>3. \A d \in Character : \A k \in certificate[d] : k.mount \in Mount
    BY DEF TypeOK
  <2>4. owner \in [Mount -> Character \cup {NoCharacter}]
    BY DEF TypeOK
  <2> QED
    BY <2>1, <2>2, <2>3, <2>4 DEF ClaimInv
<1>3. ASSUME NEW k \in certificate[c], PutInShedFromCertificate(c, k)
      PROVE  ClaimInv'
  <2>1. /\ owner' = owner /\ born' = born
        /\ certificate' = [certificate EXCEPT ![c] = @ \ {k}]
    BY <1>3 DEF PutInShedFromCertificate
  <2>2. /\ \A d \in Character \ {c}, n \in Mount : Carries(d, n)' <=> Carries(d, n)
        /\ \A n \in Mount : Carries(c, n)' <=> n = k.mount
    BY <1>3, OthersStay DEF PutInShedFromCertificate, Moving
  <2>3. \A d \in Character : \A l \in certificate[d] : l.mount \in Mount
    BY DEF TypeOK
  <2>4. \A d \in Character : \A l \in certificate'[d] :
            l \in certificate[d] /\ l.mount # k.mount
    BY <2>1 DEF TypeOK, ClaimInv
  <2>5. owner[k.mount] = NoCharacter /\ k.mount \in born
    BY DEF ClaimInv
  <2>6. \A d \in Character : ~Carries(d, k.mount)
    BY DEF ClaimInv
  <2> QED
    BY <2>1, <2>2, <2>3, <2>4, <2>5, <2>6 DEF ClaimInv
<1>4. CASE Deliver(c)
  <2>0. PICK k : k = Certificate(subject[c], validity[subject[c]])
    OBVIOUS
  <2>1. k.mount \in Mount /\ k.mount = subject[c] /\ Carries(c, k.mount)
    BY <1>4, <2>0 DEF Deliver, Certificate, Carries, TypeOK, Moving
  <2>2. /\ owner' = owner /\ born' = born
        /\ certificate' = [certificate EXCEPT ![c] = @ \cup {k}]
    BY <1>4, <2>0 DEF Deliver
  <2>3. \A d \in Character, n \in Mount : Carries(d, n)' <=> d # c /\ Carries(d, n)
    BY <1>4, CarriesEnds DEF Deliver
  <2>4. \A d \in Character : \A l \in certificate[d] :
            l.mount \in Mount /\ l.mount # k.mount
    BY <2>1 DEF TypeOK, ClaimInv
  <2>5. \A d \in Character : \A l \in certificate'[d] :
            l \in certificate[d] \/ (d = c /\ l = k)
    BY <2>2 DEF TypeOK
  <2>6. \A d \in Character : ~Carries(d, k.mount)'
    BY <2>1, <2>3 DEF ClaimInv
  <2>7. owner[k.mount] = NoCharacter /\ k.mount \in born
    BY <2>1 DEF ClaimInv
  <2>8. \A m \in Mount : owner'[m] # NoCharacter => m \in born'
    BY <2>2 DEF ClaimInv
  <2>9. \A d \in Character : \A l \in certificate'[d] :
            owner'[l.mount] = NoCharacter /\ l.mount \in born'
    BY <2>2, <2>5, <2>7 DEF ClaimInv
  <2>10. \A d \in Character, m \in Mount :
             Carries(d, m)' => owner'[m] = NoCharacter /\ m \in born'
    BY <2>2, <2>3 DEF ClaimInv
  <2>11. \A d, e \in Character : \A l \in certificate'[d] : ~Carries(e, l.mount)'
    BY <2>3, <2>4, <2>5, <2>6 DEF ClaimInv
  <2>12. \A d, e \in Character : \A l \in certificate'[d], j \in certificate'[e] :
             j.mount = l.mount => d = e /\ j = l
    BY <2>4, <2>5 DEF ClaimInv
  <2>13. \A d, e \in Character, m \in Mount :
             Carries(d, m)' /\ Carries(e, m)' => d = e
    BY <2>3 DEF ClaimInv
  <2> QED
    BY <2>8, <2>9, <2>10, <2>11, <2>12, <2>13 DEF ClaimInv
<1>5. CASE Shelter(c)
  <2>1. \A d \in Character, n \in Mount : Carries(d, n)' <=> d # c /\ Carries(d, n)
    BY <1>5, CarriesEnds DEF Shelter
  <2>2. certificate' = certificate /\ born' = born
    BY <1>5 DEF Shelter
  <2>3. CASE owner' = owner
    BY <2>1, <2>2, <2>3, ClaimFrame
  <2>4. CASE owner' = [owner EXCEPT ![subject[c]] = c]
    <3>1. subject[c] \in Mount /\ Carries(c, subject[c])
      BY <1>5 DEF Shelter, Carries, TypeOK, Moving
    <3>2. \A d \in Character : \A l \in certificate[d] :
              l.mount \in Mount /\ l.mount # subject[c]
      BY <3>1 DEF TypeOK, ClaimInv
    <3>3. owner \in [Mount -> Character \cup {NoCharacter}]
      BY DEF TypeOK
    <3> QED
      BY <2>1, <2>2, <2>4, <3>1, <3>2, <3>3 DEF ClaimInv
  <2> QED
    BY <1>5, <2>3, <2>4 DEF Shelter
<1>6. ASSUME NEW k \in certificate[c], DestroyCertificate(c, k) PROVE ClaimInv'
  <2>1. owner' = owner /\ born' = born /\ pc' = pc /\ subject' = subject
    BY <1>6 DEF DestroyCertificate
  <2>2. \A d \in Character : certificate'[d] \subseteq certificate[d]
    BY <1>6 DEF DestroyCertificate, TypeOK
  <2> QED
    BY <2>1, <2>2, ClaimFrame DEF Carries
<1>7. CASE \/ Refused(c) \/ HandlerFails(c) \/ RideEquipped(c) \/ DeleteFreed(c)
           \/ MountRide(c) \/ PutInShedFromInventory(c) \/ MountFree(c)
           \/ Unequip(c) \/ EquipMount(c) \/ Free(c)
           \/ \E m \in Mount : PutInInventoryFromShed(c, m)
  <2>1. owner' = owner /\ born' = born /\ certificate' = certificate
    BY <1>7 DEF Refused, HandlerFails, RideEquipped, DeleteFreed, MountRide,
         PutInShedFromInventory, MountFree, Unequip, EquipMount, Free,
         PutInInventoryFromShed
  <2>2. \/ Ends(c)
        \/ pc' = pc /\ subject' = subject
        \/ \E point \in Points \ Moving, n \in Mount \cup {NoMount} : Goto(c, point, n)
    <3>1. mountId[c] \in Mount \cup {NoMount} /\ subject[c] \in Mount \cup {NoMount}
      BY DEF TypeOK
    <3>2. {"unequip", "equip", "ride", "free", "delete"} \subseteq Points \ Moving
      BY DEF Points, Moving
    <3>3. CASE Refused(c) \/ HandlerFails(c) \/ RideEquipped(c) \/ DeleteFreed(c)
      BY <3>3 DEF Refused, HandlerFails, RideEquipped, DeleteFreed
    <3>4. CASE MountRide(c)
      BY <3>4 DEF MountRide
    <3>5. CASE PutInShedFromInventory(c) \/ MountFree(c)
      BY <3>2, <3>5 DEF PutInShedFromInventory, MountFree
    <3>6. CASE Unequip(c) \/ EquipMount(c) \/ Free(c)
      BY <3>1, <3>2, <3>6 DEF Unequip, EquipMount, Free
    <3>7. CASE \E m \in Mount : PutInInventoryFromShed(c, m)
      BY <3>2, <3>7 DEF PutInInventoryFromShed
    <3> QED
      BY <1>7, <3>3, <3>4, <3>5, <3>6, <3>7
  <2>3. \A d \in Character, m \in Mount : Carries(d, m)' => Carries(d, m)
    <3>1. CASE Ends(c)
      BY <3>1, CarriesEnds
    <3>2. CASE pc' = pc /\ subject' = subject
      BY <3>2 DEF Carries
    <3>3. ASSUME NEW point \in Points \ Moving, NEW n \in Mount \cup {NoMount},
                 Goto(c, point, n)
          PROVE  \A d \in Character, m \in Mount : Carries(d, m)' => Carries(d, m)
      BY <3>3, OthersStay
    <3> QED
      BY <2>2, <3>1, <3>2, <3>3
  <2> QED
    BY <2>1, <2>3, ClaimFrame
<1> QED
  BY <1>1, <1>2, <1>3, <1>4, <1>5, <1>6, <1>7 DEF Handles, Operates

LEMMA ClaimStep ==
  ASSUME MountsAssumption, TypeOK, ClaimInv, [Next]_vars PROVE ClaimInv'
<1>1. CASE \E c \in Character : Handles(c)
  BY <1>1, HandlerClaims
<1>2. CASE Maintains \/ Restarts \/ Tick \/ UNCHANGED vars
  <2>1. UNCHANGED <<born, owner, certificate, pc, subject>>
    BY <1>2 DEF Maintains, Restarts, ServerStops, ServerStarts, Tick, ListMounts, MaintenanceFails, DeleteInvalid,
         PassOver, vars, rows, chars, handler
  <2> QED
    BY <2>1, ClaimFrame DEF Carries
<1> QED
  BY <1>1, <1>2 DEF Next

-----------------------------------------------------------------------------
(* Use *)

\* A handler that writes no owner keeps who uses what, if its own character is
\* in order afterwards.
LEMMA UseFrame ==
  ASSUME UseInv, NEW c \in Character, owner' = owner,
         \A d \in Character \ {c} :
            /\ mountId'[d] = mountId[d] /\ mounting'[d] = mounting[d]
            /\ pc'[d] = pc[d] /\ subject'[d] = subject[d],
         /\ mountId'[c] # NoMount => owner[mountId'[c]] = c
         /\ mounting'[c] => mountId'[c] # NoMount
         /\ pc'[c] \in {"unequip", "free"} => ~mounting'[c]
         /\ pc'[c] = "ride" => mountId'[c] # NoMount
         /\ pc'[c] = "delete" =>
               owner[subject'[c]] = c /\ mountId'[c] = NoMount
  PROVE  UseInv'
BY DEF UseInv

\* Every step of a handler keeps who uses what.
LEMMA HandlerUse ==
  ASSUME MountsAssumption, TypeOK, ClaimInv, UseInv, NEW c \in Character, Handles(c)
  PROVE  UseInv'
<1> USE DEF rows, chars, handler
<1>1. /\ owner \in [Mount -> Character \cup {NoCharacter}]
      /\ mountId \in [Character -> Mount \cup {NoMount}]
      /\ mounting \in [Character -> BOOLEAN]
      /\ pc \in [Character -> Points]
      /\ subject \in [Character -> Mount \cup {NoMount}]
      /\ NoMount \notin Mount /\ NoCharacter \notin Character
  BY DEF TypeOK, MountsAssumption
<1>2. ASSUME NEW m \in Mount, Buy(c, m) PROVE UseInv'
  <2>1. owner' = owner
    BY <1>2 DEF Buy, ClaimInv, TypeOK
  <2> QED
    BY <1>1, <1>2, <2>1 DEF Buy, Goto, UseInv
<1>3. ASSUME NEW m \in Mount, PutInCertificateFromShed(c, m) PROVE UseInv'
  <2>1. \A d \in Character : mountId[d] # m
    BY <1>1, <1>3 DEF PutInCertificateFromShed, UseInv
  <2>2. \A d \in Character : pc[d] = "delete" => subject[d] # m
    BY <1>1, <1>3 DEF PutInCertificateFromShed, UseInv
  <2>3. /\ UNCHANGED <<mountId, mounting>>
        /\ pc' = [pc EXCEPT ![c] = "certify"]
        /\ subject' = [subject EXCEPT ![c] = m]
        /\ owner' = [owner EXCEPT ![m] = NoCharacter]
    BY <1>3 DEF PutInCertificateFromShed, Goto
  <2>4. \A n \in Mount : n # m => owner'[n] = owner[n]
    BY <1>1, <2>3
  <2>5. \A d \in Character : pc[d] = "delete" => subject[d] \in Mount
    BY <1>1 DEF TypeOK
  <2> QED
    BY <1>1, <2>1, <2>2, <2>3, <2>4, <2>5 DEF UseInv
<1>4. CASE Shelter(c)
  <2> DEFINE m == subject[c]
  <2>1. m \in Mount /\ owner[m] = NoCharacter /\ pc[c] = "shelter"
    BY <1>4 DEF Shelter, Carries, TypeOK, ClaimInv, Moving
  <2>2. \A d \in Character : mountId[d] # m
    BY <1>1, <2>1 DEF UseInv
  <2>3. \A d \in Character : pc[d] = "delete" => subject[d] # m
    BY <1>1, <2>1 DEF UseInv
  <2>4. /\ UNCHANGED <<mountId, mounting>>
        /\ pc' = [pc EXCEPT ![c] = "idle"]
        /\ subject' = [subject EXCEPT ![c] = NoMount]
    BY <1>4 DEF Shelter, Ends, Goto
  <2>5. \A n \in Mount : n # m => owner'[n] = owner[n]
    BY <1>1, <1>4, <2>1 DEF Shelter
  <2>6. \A d \in Character : pc[d] = "delete" => subject[d] \in Mount
    BY <1>1 DEF TypeOK
  <2> HIDE DEF m
  <2> QED
    BY <1>1, <2>1, <2>2, <2>3, <2>4, <2>5, <2>6 DEF UseInv
<1>5. ASSUME NEW k \in certificate[c],
             PutInShedFromCertificate(c, k) \/ DestroyCertificate(c, k)
      PROVE  UseInv'
  BY <1>1, <1>5 DEF PutInShedFromCertificate, DestroyCertificate, Goto, UseInv
<1>6. CASE Deliver(c) \/ Refused(c) \/ HandlerFails(c) \/ DeleteFreed(c)
  BY <1>1, <1>6 DEF Deliver, Refused, HandlerFails, DeleteFreed, Ends, Goto, UseInv
<1>7. CASE PutInShedFromInventory(c) \/ MountFree(c)
  BY <1>1, <1>7 DEF PutInShedFromInventory, MountFree, Goto, UseInv
<1>8. ASSUME NEW m \in Mount, PutInInventoryFromShed(c, m) PROVE UseInv'
  BY <1>1, <1>8 DEF PutInInventoryFromShed, Goto, UseInv
<1>9. CASE Unequip(c)
  BY <1>1, <1>9 DEF Unequip, Ends, Goto, UseInv
<1>10. CASE EquipMount(c)
  <2>1. subject[c] \in Mount
    BY <1>10 DEF EquipMount, TypeOK
  <2> QED
    BY <1>1, <1>10, <2>1 DEF EquipMount, Ends, Goto, UseInv
<1>11. CASE RideEquipped(c)
  BY <1>1, <1>11 DEF RideEquipped, Ends, Goto, UseInv
<1>12. CASE MountRide(c)
  BY <1>1, <1>12 DEF MountRide, UseInv
<1>13. CASE Free(c)
  BY <1>1, <1>13 DEF Free, Ends, Goto, UseInv
<1> QED
  BY <1>2, <1>3, <1>4, <1>5, <1>6, <1>7, <1>8, <1>9, <1>10, <1>11, <1>12, <1>13
  DEF Handles, Operates

LEMMA UseStep ==
  ASSUME MountsAssumption, TypeOK, ClaimInv, UseInv, [Next]_vars PROVE UseInv'
<1>1. CASE \E c \in Character : Handles(c)
  BY <1>1, HandlerUse
<1>2. CASE Maintains \/ Restarts \/ Tick \/ UNCHANGED vars
  <2>1. UNCHANGED <<owner, mountId, mounting, pc, subject>>
    BY <1>2 DEF Maintains, Restarts, ServerStops, ServerStarts, Tick, ListMounts, MaintenanceFails, DeleteInvalid,
         PassOver, vars, rows, chars, handler
  <2> QED
    BY <2>1 DEF UseInv
<1> QED
  BY <1>1, <1>2 DEF Next

-----------------------------------------------------------------------------
(* Dates, and the theorems about states *)

LEMMA DateStep ==
  ASSUME MountsAssumption, TypeOK, ClaimInv, DateInv, [Next]_vars PROVE DateInv'
<1> USE DEF rows, chars, handler
<1>1. /\ owner \in [Mount -> Character \cup {NoCharacter}]
      /\ validity \in [Mount -> Nat]
  BY DEF TypeOK
<1>2. CASE UNCHANGED <<owner, validity, listed>>
  BY <1>2 DEF DateInv
<1>3. ASSUME NEW c \in Character, NEW m \in Mount,
             Buy(c, m) \/ PutInCertificateFromShed(c, m)
      PROVE  DateInv'
  BY <1>1, <1>3 DEF Buy, PutInCertificateFromShed, DateInv
<1>4. ASSUME NEW c \in Character, Shelter(c) PROVE DateInv'
  BY <1>1, <1>4 DEF Shelter, DateInv
<1>5. CASE ListMounts
  BY <1>1, <1>5 DEF ListMounts, Certificate, MayExpire, DateInv
<1>6. CASE \/ MaintenanceFails \/ ServerStops
           \/ \E v \in listed : DeleteInvalid(v) \/ PassOver(v)
  BY <1>6 DEF MaintenanceFails, ServerStops, DeleteInvalid, PassOver, DateInv
<1>7. ASSUME NEW c \in Character, Handles(c) PROVE DateInv'
  <2>1. CASE \/ \E m \in Mount : PutInInventoryFromShed(c, m)
             \/ \E k \in certificate[c] :
                   DestroyCertificate(c, k) \/ PutInShedFromCertificate(c, k)
             \/ Refused(c) \/ Deliver(c)
    BY <1>2, <2>1 DEF PutInInventoryFromShed, DestroyCertificate,
         PutInShedFromCertificate, Refused, Deliver
  <2>2. CASE \/ PutInShedFromInventory(c) \/ Unequip(c) \/ EquipMount(c)
             \/ RideEquipped(c) \/ MountRide(c) \/ MountFree(c) \/ Free(c)
    BY <1>2, <2>2 DEF PutInShedFromInventory, Unequip, EquipMount, RideEquipped,
         MountRide, MountFree, Free
  <2>3. CASE DeleteFreed(c) \/ HandlerFails(c)
    BY <1>2, <2>3 DEF DeleteFreed, HandlerFails
  <2> QED
    BY <1>3, <1>4, <1>7, <2>1, <2>2, <2>3 DEF Handles, Operates
<1>8. CASE Tick \/ ServerStarts \/ UNCHANGED vars
  BY <1>2, <1>8 DEF Tick, ServerStarts, vars
<1> QED
  BY <1>5, <1>6, <1>7, <1>8 DEF Next, Maintains, Restarts

LEMMA InvStep == ASSUME MountsAssumption PROVE Inv /\ [Next]_vars => Inv'
BY TypeStep, ClaimStep, UseStep, DateStep DEF Inv

\* The inductive invariant: claims, use and dates of every mount.
THEOREM Inductive == ASSUME MountsAssumption PROVE Spec => []Inv
BY InitInv, InvStep, PTL DEF Spec

\* Types; a handler that moves or deletes a mount knows which one.
THEOREM TypeCorrect == ASSUME MountsAssumption PROVE Spec => []TypeOK
<1>1. Inv => TypeOK
  BY DEF Inv
<1> QED
  BY <1>1, Inductive, PTL

\* No failure between two writes, and no order of the handlers of any number
\* of characters, leaves a mount in two certificates, or in one and in a shed.
THEOREM InOnePlace == ASSUME MountsAssumption PROVE Spec => []OnePlace
<1>1. Inv => OnePlace
  BY DEF Inv, ClaimInv, OnePlace
<1> QED
  BY <1>1, Inductive, PTL

\* Whoever has a mount equipped owns it, and whoever rides has one equipped.
THEOREM UsersOwn == ASSUME MountsAssumption PROVE Spec => []UsedIsOwned
<1>1. Inv => UsedIsOwned
  BY DEF Inv, UseInv, UsedIsOwned
<1> QED
  BY <1>1, Inductive, PTL

\* A handler deletes only what its character owns and nobody refers to, and
\* the maintenance nothing else than that unless its list is old.
THEOREM DeletionIsSafe == ASSUME MountsAssumption PROVE Spec => DeletedIsUnused
<1> USE DEF rows, chars, handler
<1> DEFINE Safe(m) == \/ /\ owner[m] = NoCharacter \/ FreedByOwner(m)
                         /\ \A c \in Character : mountId[c] # m
                      \/ ListedStale(m)
<1>1. ASSUME MountsAssumption, Inv, [Next]_vars, NEW m \in stored \ stored'
      PROVE  Safe(m)
  <2>1. /\ m \in Mount /\ m # NoMount /\ NoCharacter \notin Character
        /\ owner[m] \in Character \cup {NoCharacter}
    BY <1>1 DEF Inv, TypeOK, MountsAssumption
  <2>2. \A c \in Character : mountId[c] = m => owner[m] = c
    BY <1>1, <2>1 DEF Inv, UseInv
  <2>3. ASSUME NEW c \in Character, DeleteFreed(c) PROVE Safe(m)
    <3>1. pc[c] = "delete" /\ subject[c] = m
      BY <2>3 DEF DeleteFreed
    <3>2. owner[m] = c /\ mountId[c] = NoMount
      BY <1>1, <3>1 DEF Inv, UseInv
    <3> QED
      BY <2>1, <2>2, <3>1, <3>2 DEF FreedByOwner
  <2>4. ASSUME NEW v \in listed, DeleteInvalid(v) PROVE Safe(m)
    <3>1. v.mount = m /\ v.date # 0
      BY <1>1, <2>4 DEF DeleteInvalid, Inv, DateInv
    <3>2. CASE validity[m] # v.date
      BY <3>1, <3>2 DEF ListedStale
    <3>3. CASE validity[m] = v.date
      BY <1>1, <2>1, <2>2, <3>1, <3>3 DEF Inv, DateInv
    <3> QED
      BY <3>2, <3>3
  <2>5. \/ \E c \in Character : DeleteFreed(c)
        \/ \E v \in listed : DeleteInvalid(v)
    <3>1. ASSUME NEW c \in Character, Handles(c), ~DeleteFreed(c) PROVE FALSE
      <4>1. m \in stored /\ m \notin stored'
        BY <1>1
      <4>2. stored \subseteq stored'
        BY <3>1 DEF Handles, Operates, Buy, PutInCertificateFromShed, PutInInventoryFromShed,
             DestroyCertificate, PutInShedFromCertificate, Refused, Deliver,
             Shelter, PutInShedFromInventory, Unequip, EquipMount, RideEquipped,
             MountRide, MountFree, Free, HandlerFails
      <4> QED
        BY <4>1, <4>2
    <3>2. ~Tick /\ ~Restarts /\ ~ListMounts /\ ~MaintenanceFails /\ ~UNCHANGED vars
      BY <1>1 DEF Tick, Restarts, ServerStops, ServerStarts, ListMounts,
           MaintenanceFails, vars
    <3>3. \A v \in listed : ~PassOver(v)
      BY <1>1 DEF PassOver
    <3> QED
      BY <1>1, <3>1, <3>2, <3>3 DEF Next, Maintains
  <2> QED
    BY <2>3, <2>4, <2>5
<1>2. Inv /\ [Next]_vars => [\A m \in stored \ stored' : Safe(m)]_vars
  BY <1>1
<1> QED
  BY <1>2, Inductive, PTL DEF Spec, DeletedIsUnused

-----------------------------------------------------------------------------
(* Refinement *)

\* Nobody shares a mount.
LEMMA OneKeeper ==
  ASSUME MountsAssumption, Inv, NEW m \in Mount,
         NEW c \in Character, NEW d \in Character, Keeps(c, m), Keeps(d, m)
  PROVE  c = d
<1>1. c # NoCharacter /\ d # NoCharacter
  BY DEF MountsAssumption
<1> QED
  BY <1>1 DEF Inv, ClaimInv, Keeps

\* So the abstract keeper of a mount is whoever keeps it.
KeeperIsWhoKeeps ==
    \A m \in Mount :
        /\ m \notin born => KeeperOf[m] = Unborn
        /\ m \in born /\ m \notin stored => KeeperOf[m] = Gone
        /\ m \in stored => \A c \in Character : Keeps(c, m) => KeeperOf[m] = c
        /\ m \in stored /\ (\A c \in Character : ~Keeps(c, m)) => KeeperOf[m] = Adrift

LEMMA KeeperUnique == ASSUME MountsAssumption PROVE Inv => KeeperIsWhoKeeps
<1> SUFFICES ASSUME Inv PROVE KeeperIsWhoKeeps
  OBVIOUS
<1>1. ASSUME NEW m \in stored, NEW c \in Character, Keeps(c, m)
      PROVE  KeeperOf[m] = c
  <2>1. m \in Mount /\ m \in born
    BY DEF Inv, TypeOK
  <2>2. PICK d : d = CHOOSE e \in Character : Keeps(e, m)
    OBVIOUS
  <2>3. d \in Character /\ Keeps(d, m)
    BY <1>1, <2>2, Zenon
  <2>4. d = c
    BY <1>1, <2>1, <2>3, OneKeeper
  <2>5. KeeperOf[m] = d
    BY <1>1, <2>1, <2>2 DEF KeeperOf
  <2> QED
    BY <2>4, <2>5
<1>2. stored \subseteq born
  BY DEF Inv, TypeOK
<1> QED
  BY <1>1, <1>2 DEF KeeperIsWhoKeeps, KeeperOf

LEMMA KeeperUniqueNext ==
  ASSUME MountsAssumption PROVE Inv' => KeeperIsWhoKeeps'
BY KeeperUnique, PTL

\* The abstract state of n does not change.
SameKeeper(n) ==
    /\ n \in born' <=> n \in born
    /\ n \in stored' <=> n \in stored
    /\ n \in stored => \A c \in Character : Keeps(c, n)' <=> Keeps(c, n)

\* A step that changes who keeps m, and nothing about other mounts, ...
OnlyChanges(m) == \A n \in Mount \ {m} : SameKeeper(n)

LEMMA KeptTheSame ==
  ASSUME MountsAssumption, Inv, Inv', NEW n \in Mount, SameKeeper(n)
  PROVE  KeeperOf'[n] = KeeperOf[n]
<1>1. KeeperIsWhoKeeps /\ KeeperIsWhoKeeps'
  BY KeeperUnique, KeeperUniqueNext
<1>2. CASE n \notin born
  BY <1>1, <1>2 DEF SameKeeper, KeeperIsWhoKeeps
<1>3. CASE n \in born /\ n \notin stored
  BY <1>1, <1>3 DEF SameKeeper, KeeperIsWhoKeeps
<1>4. CASE n \in stored
  BY <1>1, <1>4 DEF SameKeeper, KeeperIsWhoKeeps
<1> QED
  BY <1>2, <1>3, <1>4

\* A step that touches no mount, owner or certificate, nor what handlers carry.
LEMMA NothingKeptChanges ==
  ASSUME MountsAssumption, Inv, Inv', \A n \in Mount : SameKeeper(n)
  PROVE  [Keeping!KeepNext]_KeeperOf
<1>1. \A n \in Mount : KeeperOf'[n] = KeeperOf[n]
  BY KeptTheSame
<1>2. KeeperOf' = KeeperOf
  BY <1>1 DEF KeeperOf
<1> QED
  BY <1>2

LEMMA ChangedAt ==
  ASSUME MountsAssumption, Inv, Inv', NEW m \in Mount, OnlyChanges(m), NEW k,
         KeeperOf'[m] = k
  PROVE  KeeperOf' = [KeeperOf EXCEPT ![m] = k]
<1>1. \A n \in Mount \ {m} : KeeperOf'[n] = KeeperOf[n]
  BY KeptTheSame DEF OnlyChanges
<1> QED
  BY <1>1 DEF KeeperOf

\* ... is a purchase, a loss or a deletion of the abstract specification, or a
\* stutter if m stays where it is.
LEMMA ChangeIsAbstract ==
  ASSUME MountsAssumption, Inv, Inv', NEW m \in Mount, OnlyChanges(m),
         \/ SameKeeper(m)
         \/ /\ m \notin born /\ m \in stored'
            /\ \E c \in Character : Keeps(c, m)'
         \/ /\ m \in stored /\ m \in stored'
            /\ \E c \in Character : Keeps(c, m)
            /\ \A c \in Character : ~Keeps(c, m)'
         \/ m \in stored /\ m \notin stored' /\ m \in born'
  PROVE  [Keeping!KeepNext]_KeeperOf
<1>1. KeeperIsWhoKeeps /\ KeeperIsWhoKeeps'
  BY KeeperUnique, KeeperUniqueNext
<1>2. CASE SameKeeper(m)
  BY <1>2, NothingKeptChanges DEF OnlyChanges
<1>3. ASSUME m \notin born, m \in stored', NEW c \in Character, Keeps(c, m)'
      PROVE  Keeping!KeepNext
  <2>1. KeeperOf[m] = Unborn /\ KeeperOf'[m] = c
    BY <1>1, <1>3 DEF KeeperIsWhoKeeps
  <2>2. Keeping!Buy(m, c)
    BY <2>1, ChangedAt DEF Keeping!Buy
  <2> QED
    BY <2>2 DEF Keeping!KeepNext
<1>4. ASSUME m \in stored, m \in stored', NEW c \in Character, Keeps(c, m),
             \A d \in Character : ~Keeps(d, m)'
      PROVE  Keeping!KeepNext
  <2>1. KeeperOf[m] = c /\ KeeperOf'[m] = Adrift
    BY <1>1, <1>4 DEF KeeperIsWhoKeeps
  <2>2. Keeping!Lose(m)
    BY <2>1, ChangedAt DEF Keeping!Lose
  <2> QED
    BY <2>2 DEF Keeping!KeepNext
<1>5. CASE m \in stored /\ m \notin stored' /\ m \in born'
  <2>1. KeeperOf[m] \in Character \cup {Adrift} /\ KeeperOf'[m] = Gone
    BY <1>1, <1>5 DEF KeeperIsWhoKeeps
  <2>2. Keeping!Delete(m)
    BY <2>1, ChangedAt DEF Keeping!Delete
  <2> QED
    BY <2>2 DEF Keeping!KeepNext
<1> QED
  BY <1>2, <1>3, <1>4, <1>5

\* What a handler carries, a certificate says and an owner has are all there
\* is to keeping a mount.
LEMMA SameClaims ==
  ASSUME NEW n \in Mount, n \in born' <=> n \in born, n \in stored' <=> n \in stored,
         owner'[n] = owner[n],
         \A d \in Character : Carries(d, n)' <=> Carries(d, n),
         \A d \in Character :
            (\E k \in certificate'[d] : k.mount = n) <=>
            (\E k \in certificate[d] : k.mount = n)
  PROVE  SameKeeper(n)
BY DEF SameKeeper, Keeps

\* A purchase.
LEMMA BuyKeeps ==
  ASSUME MountsAssumption, Inv, Inv', NEW c \in Character, NEW m \in Mount, Buy(c, m)
  PROVE  [Keeping!KeepNext]_KeeperOf
<1> USE DEF rows, chars, handler
<1>1. /\ born' = born \cup {m} /\ stored' = stored \cup {m} /\ m \notin born
      /\ owner' = [owner EXCEPT ![m] = NoCharacter] /\ certificate' = certificate
      /\ Goto(c, "deliver", m)
  BY DEF Buy
<1>2. /\ \A d \in Character \ {c}, n \in Mount : Carries(d, n)' <=> Carries(d, n)
      /\ \A n \in Mount : Carries(c, n)' <=> n = m
  BY <1>1, OthersStay DEF Moving, Inv
<1>3. \A n \in Mount : ~Carries(c, n)
  BY DEF Buy, Carries, Moving
<1>4. owner \in [Mount -> Character \cup {NoCharacter}]
  BY DEF Inv, TypeOK
<1>5. OnlyChanges(m)
  <2> SUFFICES ASSUME NEW n \in Mount \ {m} PROVE SameKeeper(n)
    BY DEF OnlyChanges
  <2> QED
    BY <1>1, <1>2, <1>3, <1>4, SameClaims
<1>6. Keeps(c, m)'
  BY <1>1, <1>2, <1>4 DEF Keeps
<1> QED
  BY <1>1, <1>5, <1>6, ChangeIsAbstract

\* A refused purchase and a handler that fails lose what they carry.
LEMMA EndLoses ==
  ASSUME MountsAssumption, Inv, Inv', NEW c \in Character,
         Refused(c) \/ HandlerFails(c)
  PROVE  [Keeping!KeepNext]_KeeperOf
<1> USE DEF rows, chars, handler
<1>1. /\ UNCHANGED <<born, stored, owner, certificate>>
      /\ Ends(c)
  BY DEF Refused, HandlerFails
<1>2. \A d \in Character, n \in Mount : Carries(d, n)' <=> d # c /\ Carries(d, n)
  BY <1>1, CarriesEnds DEF Inv
<1>3. CASE \A n \in Mount : ~Carries(c, n)
  <2>1. ASSUME NEW n \in Mount PROVE SameKeeper(n)
    BY <1>1, <1>2, <1>3, SameClaims
  <2> QED
    BY <2>1, NothingKeptChanges
<1>4. ASSUME NEW m \in Mount, Carries(c, m) PROVE [Keeping!KeepNext]_KeeperOf
  <2>1. OnlyChanges(m)
    <3> SUFFICES ASSUME NEW n \in Mount \ {m} PROVE SameKeeper(n)
      BY DEF OnlyChanges
    <3>1. ~Carries(c, n)
      BY <1>4 DEF Carries
    <3> QED
      BY <1>1, <1>2, <3>1, SameClaims
  <2>2. Keeps(c, m)
    BY <1>4 DEF Inv, ClaimInv, Keeps
  <2>3. \A d \in Character : ~Keeps(d, m)'
    <3>1. owner[m] = NoCharacter /\ NoCharacter \notin Character
      BY <1>4 DEF Inv, ClaimInv, MountsAssumption
    <3>2. \A d \in Character : ~Carries(d, m)'
      BY <1>2, <1>4 DEF Inv, ClaimInv
    <3>3. \A d \in Character : \A k \in certificate[d] : k.mount # m
      BY <1>4 DEF Inv, ClaimInv
    <3> QED
      BY <1>1, <3>1, <3>2, <3>3 DEF Keeps
  <2>4. CASE m \in stored
    BY <1>1, <2>1, <2>2, <2>3, <2>4, ChangeIsAbstract
  <2>5. CASE m \notin stored
    BY <1>1, <2>1, <2>5, ChangeIsAbstract DEF SameKeeper
  <2> QED
    BY <2>4, <2>5
<1> QED
  BY <1>3, <1>4

\* A certificate that is destroyed loses its mount.
LEMMA DestroyLoses ==
  ASSUME MountsAssumption, Inv, Inv', NEW c \in Character,
         NEW k \in certificate[c], DestroyCertificate(c, k)
  PROVE  [Keeping!KeepNext]_KeeperOf
<1> USE DEF rows, chars, handler
<1> DEFINE m == k.mount
<1>1. /\ UNCHANGED <<born, stored, owner, pc, subject>>
      /\ certificate' = [certificate EXCEPT ![c] = @ \ {k}]
  BY DEF DestroyCertificate
<1>2. \A d \in Character, n \in Mount : Carries(d, n)' <=> Carries(d, n)
  BY <1>1 DEF Carries
<1>3. m \in Mount /\ \A d \in Character : certificate[d] \in SUBSET [mount : Mount, date : Nat]
  BY DEF Inv, TypeOK
<1>4. certificate \in [Character -> SUBSET [mount : Mount, date : Nat]]
  BY DEF Inv, TypeOK
<1>5. OnlyChanges(m)
  <2> SUFFICES ASSUME NEW n \in Mount \ {m} PROVE SameKeeper(n)
    BY DEF OnlyChanges
  <2>1. \A d \in Character : (\E l \in certificate'[d] : l.mount = n) <=>
                             (\E l \in certificate[d] : l.mount = n)
    BY <1>1, <1>4
  <2> QED
    BY <1>1, <1>2, <2>1, SameClaims
<1>6. Keeps(c, m)
  BY DEF Inv, ClaimInv, Keeps
<1>7. \A d \in Character : ~Keeps(d, m)'
  <2>1. owner[m] = NoCharacter /\ NoCharacter \notin Character
    BY DEF Inv, ClaimInv, MountsAssumption
  <2>2. \A d \in Character : ~Carries(d, m)
    BY DEF Inv, ClaimInv
  <2>3. \A d \in Character : \A l \in certificate[d] : l.mount = m => d = c /\ l = k
    BY DEF Inv, ClaimInv
  <2>4. \A d \in Character : \A l \in certificate'[d] : l.mount # m
    BY <1>1, <1>4, <2>3
  <2> QED
    BY <1>1, <1>2, <1>3, <2>1, <2>2, <2>4 DEF Keeps
<1>8. CASE m \in stored
  BY <1>1, <1>3, <1>5, <1>6, <1>7, <1>8, ChangeIsAbstract
<1>9. CASE m \notin stored
  BY <1>1, <1>3, <1>5, <1>9, ChangeIsAbstract DEF SameKeeper
<1> QED
  BY <1>8, <1>9

\* A deletion, by the owner's handler or by the maintenance.
LEMMA DeletionDeletes ==
  ASSUME MountsAssumption, Inv, Inv', NEW m \in Mount,
         stored' = stored \ {m}, UNCHANGED <<born, owner, certificate>>,
         \A d \in Character, n \in Mount : Carries(d, n)' <=> Carries(d, n)
  PROVE  [Keeping!KeepNext]_KeeperOf
<1>1. OnlyChanges(m)
  BY SameClaims DEF OnlyChanges
<1>2. CASE m \in stored
  <2>1. m \in born'
    BY <1>2 DEF Inv, TypeOK
  <2> QED
    BY <1>1, <1>2, <2>1, ChangeIsAbstract
<1>3. CASE m \notin stored
  BY <1>1, <1>3, ChangeIsAbstract DEF SameKeeper
<1> QED
  BY <1>2, <1>3

\* From the shed into the hands of a handler, from there into a certificate or
\* the shed, and from a certificate into its hands: the keeper is the same.
LEMMA MovesKeep ==
  ASSUME MountsAssumption, Inv, Inv', NEW c \in Character,
         \/ \E m \in Mount : PutInCertificateFromShed(c, m)
         \/ Deliver(c) \/ Shelter(c)
         \/ \E k \in certificate[c] : PutInShedFromCertificate(c, k)
  PROVE  \A n \in Mount : SameKeeper(n)
<1> USE DEF rows, chars, handler
<1>1. /\ owner \in [Mount -> Character \cup {NoCharacter}]
      /\ certificate \in [Character -> SUBSET [mount : Mount, date : Nat]]
      /\ NoCharacter \notin Character
  BY DEF Inv, TypeOK, MountsAssumption
<1> SUFFICES ASSUME NEW n \in Mount PROVE SameKeeper(n)
  OBVIOUS
<1>2. ASSUME NEW m \in Mount, PutInCertificateFromShed(c, m) PROVE SameKeeper(n)
  <2>1. /\ UNCHANGED <<born, stored, certificate>>
        /\ owner' = [owner EXCEPT ![m] = NoCharacter] /\ owner[m] = c
        /\ Goto(c, "certify", m)
    BY <1>2 DEF PutInCertificateFromShed
  <2>2. /\ \A d \in Character \ {c}, p \in Mount : Carries(d, p)' <=> Carries(d, p)
        /\ \A p \in Mount : Carries(c, p)' <=> p = m
    BY <2>1, OthersStay DEF Moving, Inv
  <2>3. \A p \in Mount : ~Carries(c, p)
    BY <1>2 DEF PutInCertificateFromShed, Carries, Moving
  <2>4. CASE n = m
    <3>1. \A d \in Character : Keeps(d, m)' <=> d = c
      <4>1. \A d \in Character : ~Carries(d, m)
        BY <1>1, <2>1 DEF Inv, ClaimInv
      <4>2. \A d \in Character : \A k \in certificate[d] : k.mount # m
        BY <1>1, <2>1 DEF Inv, ClaimInv
      <4>3. owner'[m] = NoCharacter
        BY <1>1, <2>1
      <4> QED
        BY <1>1, <2>1, <2>2, <4>1, <4>2, <4>3 DEF Keeps
    <3>2. \A d \in Character : Keeps(d, m) <=> d = c
      BY <1>1, <2>1 DEF Keeps
    <3> QED
      BY <2>1, <2>4, <3>1, <3>2 DEF SameKeeper
  <2>5. CASE n # m
    BY <1>1, <2>1, <2>2, <2>3, <2>5, SameClaims
  <2> QED
    BY <2>4, <2>5
<1>3. CASE Deliver(c)
  <2>1. PICK k : k = Certificate(subject[c], validity[subject[c]])
    OBVIOUS
  <2>2. /\ UNCHANGED <<born, stored, owner>> /\ Ends(c)
        /\ certificate' = [certificate EXCEPT ![c] = @ \cup {k}]
    BY <1>3, <2>1 DEF Deliver
  <2>3. k.mount \in Mount /\ \A p \in Mount : Carries(c, p) <=> p = k.mount
    BY <1>3, <2>1 DEF Deliver, Certificate, Carries, Inv, TypeOK, Moving
  <2>4. \A d \in Character, p \in Mount : Carries(d, p)' <=> d # c /\ Carries(d, p)
    BY <2>2, CarriesEnds DEF Inv
  <2>5. \A d \in Character : (\E l \in certificate'[d] : l.mount = n) <=>
            (\E l \in certificate[d] : l.mount = n) \/ (d = c /\ n = k.mount)
    BY <1>1, <2>2
  <2>6. \A d \in Character : Keeps(d, n)' <=> Keeps(d, n)
    BY <2>2, <2>3, <2>4, <2>5 DEF Keeps
  <2> QED
    BY <2>2, <2>6 DEF SameKeeper
<1>4. CASE Shelter(c)
  <2>1. PICK m : m = subject[c]
    OBVIOUS
  <2>2. m \in Mount /\ \A p \in Mount : Carries(c, p) <=> p = m
    BY <1>4, <2>1 DEF Shelter, Carries, Inv, TypeOK, Moving
  <2>3. /\ UNCHANGED <<born, stored, certificate>> /\ Ends(c)
        /\ owner' = IF m \in stored THEN [owner EXCEPT ![m] = c] ELSE owner
    BY <1>4, <2>1 DEF Shelter
  <2>4. \A d \in Character, p \in Mount : Carries(d, p)' <=> d # c /\ Carries(d, p)
    BY <2>3, CarriesEnds DEF Inv
  <2>5. CASE n = m
    <3>1. owner[m] = NoCharacter
      BY <2>2 DEF Inv, ClaimInv
    <3>2. \A d \in Character : \A k \in certificate[d] : k.mount # m
      BY <2>2 DEF Inv, ClaimInv
    <3>3. \A d \in Character : Carries(d, m) => d = c
      BY <2>2 DEF Inv, ClaimInv
    <3>4. \A d \in Character : Keeps(d, m) <=> d = c
      BY <1>1, <2>2, <3>1, <3>2, <3>3 DEF Keeps
    <3>5. m \in stored => \A d \in Character : Keeps(d, m)' <=> d = c
      BY <1>1, <2>2, <2>3 DEF Keeps
    <3> QED
      BY <2>3, <2>5, <3>4, <3>5 DEF SameKeeper
  <2>6. CASE n # m
    <3>1. owner'[n] = owner[n]
      BY <1>1, <2>3, <2>6
    <3>2. \A d \in Character : Carries(d, n)' <=> Carries(d, n)
      BY <2>2, <2>4, <2>6
    <3> QED
      BY <2>3, <3>1, <3>2, SameClaims
  <2> QED
    BY <2>5, <2>6
<1>5. ASSUME NEW k \in certificate[c], PutInShedFromCertificate(c, k)
      PROVE  SameKeeper(n)
  <2>1. /\ UNCHANGED <<born, stored, owner>> /\ Goto(c, "shelter", k.mount)
        /\ certificate' = [certificate EXCEPT ![c] = @ \ {k}]
    BY <1>5 DEF PutInShedFromCertificate
  <2>2. /\ \A d \in Character \ {c}, p \in Mount : Carries(d, p)' <=> Carries(d, p)
        /\ \A p \in Mount : Carries(c, p)' <=> p = k.mount
    BY <2>1, OthersStay DEF Moving, Inv
  <2>3. \A p \in Mount : ~Carries(c, p)
    BY <1>5 DEF PutInShedFromCertificate, Carries, Moving
  <2>4. \A l \in certificate[c] : l.mount = k.mount => l = k
    BY DEF Inv, ClaimInv
  <2>5. \A d \in Character : (\E l \in certificate'[d] : l.mount = n) <=>
            (\E l \in certificate[d] : l.mount = n) /\ ~(d = c /\ n = k.mount)
    BY <1>1, <2>1, <2>4
  <2>6. \A d \in Character : Keeps(d, n)' <=> Keeps(d, n)
    BY <2>1, <2>2, <2>3, <2>5 DEF Keeps
  <2> QED
    BY <2>1, <2>6 DEF SameKeeper
<1> QED
  BY <1>2, <1>3, <1>4, <1>5

\* Every step is one of the abstract specification or a stutter.
LEMMA StepIsAbstract ==
  ASSUME MountsAssumption, Inv, Inv', [Next]_vars
  PROVE  [Keeping!KeepNext]_KeeperOf
<1> USE DEF rows, chars, handler
<1>1. CASE UNCHANGED <<born, stored, owner, certificate>>
           /\ \A d \in Character, n \in Mount : Carries(d, n)' <=> Carries(d, n)
  <2>1. ASSUME NEW n \in Mount PROVE SameKeeper(n)
    BY <1>1, SameClaims
  <2> QED
    BY <2>1, NothingKeptChanges
<1>2. ASSUME NEW c \in Character, Handles(c) PROVE [Keeping!KeepNext]_KeeperOf
  <2>1. CASE \E m \in Mount : Buy(c, m)
    BY <2>1, BuyKeeps
  <2>2. CASE \/ \E m \in Mount : PutInCertificateFromShed(c, m)
             \/ Deliver(c) \/ Shelter(c)
             \/ \E k \in certificate[c] : PutInShedFromCertificate(c, k)
    BY <2>2, MovesKeep, NothingKeptChanges
  <2>3. CASE \E k \in certificate[c] : DestroyCertificate(c, k)
    BY <2>3, DestroyLoses
  <2>4. CASE Refused(c) \/ HandlerFails(c)
    BY <2>4, EndLoses
  <2>5. CASE DeleteFreed(c)
    <3>1. subject[c] \in Mount /\ stored' = stored \ {subject[c]}
      BY <2>5 DEF DeleteFreed, Inv, TypeOK
    <3>2. Ends(c) /\ \A n \in Mount : ~Carries(c, n)
      BY <2>5 DEF DeleteFreed, Carries, Moving
    <3>3. \A d \in Character, n \in Mount : Carries(d, n)' <=> Carries(d, n)
      BY <3>2, CarriesEnds DEF Inv
    <3>4. UNCHANGED <<born, owner, certificate>>
      BY <2>5 DEF DeleteFreed
    <3> QED
      BY <3>1, <3>3, <3>4, DeletionDeletes
  <2>6. CASE \/ \E m \in Mount : PutInInventoryFromShed(c, m)
             \/ PutInShedFromInventory(c) \/ Unequip(c) \/ EquipMount(c)
             \/ RideEquipped(c) \/ MountRide(c) \/ MountFree(c) \/ Free(c)
    <3>1. UNCHANGED <<born, stored, owner, certificate>>
      BY <2>6 DEF PutInInventoryFromShed, PutInShedFromInventory, Unequip,
           EquipMount, RideEquipped, MountRide, MountFree, Free
    <3>2. /\ \A n \in Mount : ~Carries(c, n) /\ ~Carries(c, n)'
          /\ \A d \in Character \ {c} : pc'[d] = pc[d] /\ subject'[d] = subject[d]
      BY <2>6 DEF PutInInventoryFromShed, PutInShedFromInventory, Unequip, EquipMount,
           RideEquipped, MountRide, MountFree, Free, Ends, Goto, Carries, Moving,
           Inv, TypeOK
    <3>3. \A d \in Character, n \in Mount : Carries(d, n)' <=> Carries(d, n)
      BY <3>2 DEF Carries
    <3> QED
      BY <1>1, <3>1, <3>3
  <2> QED
    BY <1>2, <2>1, <2>2, <2>3, <2>4, <2>5, <2>6 DEF Handles, Operates
<1>3. ASSUME NEW v \in listed, DeleteInvalid(v) PROVE [Keeping!KeepNext]_KeeperOf
  <2>1. v.mount \in Mount /\ stored' = stored \ {v.mount}
    BY <1>3 DEF DeleteInvalid, Inv, TypeOK
  <2>2. UNCHANGED <<born, owner, certificate>>
    BY <1>3 DEF DeleteInvalid
  <2>3. \A d \in Character, n \in Mount : Carries(d, n)' <=> Carries(d, n)
    BY <1>3 DEF DeleteInvalid, Carries
  <2> QED
    BY <2>1, <2>2, <2>3, DeletionDeletes
<1>4. CASE \/ Tick \/ Restarts \/ ListMounts \/ MaintenanceFails \/ UNCHANGED vars
           \/ \E v \in listed : PassOver(v)
  BY <1>1, <1>4 DEF Tick, Restarts, ServerStops, ServerStarts, ListMounts,
       MaintenanceFails, PassOver, vars, Carries
<1> QED
  BY <1>2, <1>3, <1>4 DEF Next, Maintains

\* Mounts implements MountKeeping, with any number of characters and mounts,
\* failures between any two writes and listings of any age.
THEOREM Refinement == ASSUME MountsAssumption PROVE Spec => ImplementsKeeping
<1>1. Init => Keeping!KeepInit
  BY DEF Init, Keeping!KeepInit, KeeperOf
<1>2. Inv /\ Inv' /\ [Next]_vars => [Keeping!KeepNext]_KeeperOf
  BY StepIsAbstract
<1> QED
  BY <1>1, <1>2, Inductive, PTL DEF Spec, ImplementsKeeping, Keeping!KeepSpec
=============================================================================
