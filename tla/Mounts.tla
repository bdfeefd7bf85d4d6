------------------------------- MODULE Mounts -------------------------------
(***************************************************************************)
(* Mounts: bought as a certificate, put into the shed, ridden, put back    *)
(* into a certificate or freed; and the maintenance that deletes those     *)
(* whose certificate has expired.                                          *)
(*                                                                         *)
(* A mount is a row of its own, which its keeper, an item (the             *)
(* certificate) and Character.MountId all refer to.  The handlers change   *)
(* these rows one at a time and may fail between two of them, while        *)
(* deleteInvalidMounts works through a list it read earlier and holds a    *)
(* mutex that no handler takes.  The handlers of one character run one     *)
(* after the other (Sessions).  The process may end between any two writes *)
(* and start anew with the same rows.                                      *)
(*                                                                         *)
(* handleMountRename changes a name only and is left out, and so are the   *)
(* level a ride asks for and what else a dismount sets off (Inventory): a  *)
(* ride may be refused at any time.  A certificate is an item of quantity  *)
(* one: the rows of the market are data, and one that offers several       *)
(* certificates as one item is outside this model.                         *)
(***************************************************************************)
EXTENDS Integers, FiniteSets

CONSTANTS
    Mount,        \* mounts that may be created
    Character,    \* characters of the database
    NoMount,      \* MountId 0
    NoCharacter,  \* CharacterId 0
    Unborn, Adrift, Gone,   \* see MountKeeping
    Lifetime,     \* how long a certificate is valid (20 days)
    MaxTime       \* bound: certificates are issued only if they expire before

ASSUME MountsAssumption ==
    /\ NoMount \notin Mount
    /\ NoCharacter \notin Character
    /\ Unborn # Adrift /\ Unborn # Gone /\ Adrift # Gone
    /\ {Unborn, Adrift, Gone} \cap Character = {}
    /\ Lifetime \in Nat \ {0}
    /\ MaxTime \in Nat

VARIABLES
    born,         \* history: mounts ever created
    stored,       \* the rows of mounts
    owner,        \* their CharacterId
    validity,     \* their Validity; 0 is the zero time
    certificate,  \* the certificates each character carries: mount and date
    mountId,      \* Character.MountId
    mounting,     \* Character.Mounting
    pc,           \* where the handler of each character is
    subject,      \* the mount it is about
    listed,       \* mount and date of the rows the maintenance has to visit
    server,       \* it serves, or maintain has ended, or the process
    now           \* the time

rows == <<born, stored, owner, validity>>
chars == <<certificate, mountId, mounting>>
handler == <<pc, subject>>
vars == <<rows, chars, handler, listed, server, now>>

Init ==
    /\ born = {}
    /\ stored = {}
    /\ owner = [m \in Mount |-> NoCharacter]
    /\ validity = [m \in Mount |-> 0]
    /\ certificate = [c \in Character |-> {}]
    /\ mountId = [c \in Character |-> NoMount]
    /\ mounting = [c \in Character |-> FALSE]
    /\ pc = [c \in Character |-> "idle"]
    /\ subject = [c \in Character |-> NoMount]
    /\ listed = {}
    /\ server = "serving"
    /\ now = 0

Certificate(m, d) == [mount |-> m, date |-> d]

\* Validity.Before(time.Now()) and !Validity.IsZero().
Past(d) == d < now
MayAlwaysExpire(d) == TRUE  \* Mutant: the zero time is not excepted.
MayExpire(d) == d # 0

Goto(c, point, m) ==
    /\ pc' = [pc EXCEPT ![c] = point]
    /\ subject' = [subject EXCEPT ![c] = m]

Ends(c) == Goto(c, "idle", NoMount)

-----------------------------------------------------------------------------
(* Certificates *)

\* Mutant: the mount of a certificate is created without a validity.
BuyForever(c, m) ==
    /\ pc[c] = "idle"
    /\ m \notin born
    /\ now + Lifetime < MaxTime
    /\ born' = born \cup {m}
    /\ stored' = stored \cup {m}
    /\ Goto(c, "deliver", m)
    /\ UNCHANGED <<owner, validity, chars, listed, now>>

\* handleExchangeBigStoreBuy of a certificate creates the mount first.
Buy(c, m) ==
    /\ pc[c] = "idle"
    /\ m \notin born
    /\ now + Lifetime < MaxTime
    /\ born' = born \cup {m}
    /\ stored' = stored \cup {m}
    /\ owner' = [owner EXCEPT ![m] = NoCharacter]
    /\ validity' = [validity EXCEPT ![m] = now + Lifetime]
    /\ Goto(c, "deliver", m)
    /\ UNCHANGED <<chars, listed, now>>

\* Then the price turns out to be too high: the mount stays.
Refused(c) ==
    /\ pc[c] = "deliver"
    /\ Ends(c)
    /\ UNCHANGED <<rows, chars, listed, now>>

\* Or the certificate is added to the items: paid, or from the shed.
Deliver(c) ==
    /\ pc[c] \in {"deliver", "certify"}
    /\ certificate' = [certificate EXCEPT
          ![c] = @ \cup {Certificate(subject[c], validity[subject[c]])}]
    /\ Ends(c)
    /\ UNCHANGED <<rows, mountId, mounting, listed, now>>

\* handleItemsDestroy of a certificate.
DestroyCertificate(c, k) ==
    /\ pc[c] = "idle"
    /\ k \in certificate[c]
    /\ certificate' = [certificate EXCEPT ![c] = @ \ {k}]
    /\ UNCHANGED <<rows, mountId, mounting, handler, listed, now>>

\* handleExchangePutInShedFromCertificate removes the certificate, if it is
\* still valid, ...
PutInShedFromCertificate(c, k) ==
    /\ pc[c] = "idle"
    /\ k \in certificate[c]
    /\ ~Past(k.date)
    /\ certificate' = [certificate EXCEPT ![c] = @ \ {k}]
    /\ Goto(c, "shelter", k.mount)
    /\ UNCHANGED <<rows, mountId, mounting, listed, now>>

\* ... and then gives the mount an owner, if it is still there.
Shelter(c) ==
    LET m == subject[c] IN
    /\ pc[c] = "shelter"
    /\ IF m \in stored
       THEN /\ owner' = [owner EXCEPT ![m] = c]
            /\ validity' = [validity EXCEPT ![m] = 0]
       ELSE UNCHANGED <<owner, validity>>
    /\ Ends(c)
    /\ UNCHANGED <<born, stored, chars, listed, now>>

\* Mutant: the certificate is written before the mount leaves the shed.
CertifiesFirst(c, m) ==
    /\ pc[c] = "idle"
    /\ m \in stored /\ owner[m] = c /\ m # mountId[c]
    /\ now + Lifetime < MaxTime
    /\ certificate' = [certificate EXCEPT
                         ![c] = @ \cup {Certificate(m, now + Lifetime)}]
    /\ UNCHANGED <<rows, mountId, mounting, handler, listed, now>>

\* Mutant: the mount in use is not looked at.
CertifiesEquipped(c, m) ==
    /\ pc[c] = "idle"
    /\ m \in stored /\ owner[m] = c
    /\ now + Lifetime < MaxTime
    /\ owner' = [owner EXCEPT ![m] = NoCharacter]
    /\ validity' = [validity EXCEPT ![m] = now + Lifetime]
    /\ Goto(c, "certify", m)
    /\ UNCHANGED <<born, stored, chars, listed, now>>

\* Mutant: the owner of the mount is not looked at.
CertifiesAny(c, m) ==
    /\ pc[c] = "idle"
    /\ m \in stored /\ m # mountId[c]
    /\ now + Lifetime < MaxTime
    /\ owner' = [owner EXCEPT ![m] = NoCharacter]
    /\ validity' = [validity EXCEPT ![m] = now + Lifetime]
    /\ Goto(c, "certify", m)
    /\ UNCHANGED <<born, stored, chars, listed, now>>

\* handleExchangePutInCertificateFromShed takes the mount from its owner and
\* then adds the certificate (Deliver).
PutInCertificateFromShed(c, m) ==
    /\ pc[c] = "idle"
    /\ m \in stored /\ owner[m] = c
    /\ m # mountId[c]
    /\ now + Lifetime < MaxTime
    /\ owner' = [owner EXCEPT ![m] = NoCharacter]
    /\ validity' = [validity EXCEPT ![m] = now + Lifetime]
    /\ Goto(c, "certify", m)
    /\ UNCHANGED <<born, stored, chars, listed, now>>

-----------------------------------------------------------------------------
(* The mount in use *)

\* handleExchangePutInShedFromInventory: dismounts, then unequips.
PutInShedFromInventory(c) ==
    /\ pc[c] = "idle"
    /\ mountId[c] \in stored
    /\ mounting' = [mounting EXCEPT ![c] = FALSE]
    /\ Goto(c, "unequip", NoMount)
    /\ UNCHANGED <<rows, certificate, mountId, listed, now>>

\* handleExchangePutInInventoryFromShed puts the mount in use into the shed
\* first, ...
PutInInventoryFromShed(c, m) ==
    /\ pc[c] = "idle"
    /\ \/ /\ mountId[c] = NoMount
          /\ Goto(c, "equip", m)
          /\ UNCHANGED mounting
       \/ /\ mountId[c] \in stored
          /\ mounting' = [mounting EXCEPT ![c] = FALSE]
          /\ Goto(c, "unequip", m)
    /\ UNCHANGED <<rows, certificate, mountId, listed, now>>

Unequip(c) ==
    /\ pc[c] = "unequip"
    /\ mountId' = [mountId EXCEPT ![c] = NoMount]
    /\ IF subject[c] = NoMount THEN Ends(c) ELSE Goto(c, "equip", subject[c])
    /\ UNCHANGED <<rows, certificate, mounting, listed, now>>

\* ... and then the mount must be its own, or the request was invalid.
EquipMount(c) ==
    LET m == subject[c] IN
    /\ pc[c] = "equip"
    /\ IF m \in stored /\ owner[m] = c
       THEN /\ mountId' = [mountId EXCEPT ![c] = m]
            /\ Goto(c, "ride", NoMount)
       ELSE Ends(c) /\ UNCHANGED mountId
    /\ UNCHANGED <<rows, certificate, mounting, listed, now>>

\* It rides at once, if it may.
RideEquipped(c) ==
    /\ pc[c] = "ride"
    /\ mounting' \in {mounting, [mounting EXCEPT ![c] = TRUE]}
    /\ Ends(c)
    /\ UNCHANGED <<rows, certificate, mountId, listed, now>>

\* handleMountRide.
MountRide(c) ==
    /\ pc[c] = "idle"
    /\ mounting[c] \/ mountId[c] # NoMount
    /\ mounting' = [mounting EXCEPT ![c] = ~mounting[c]]
    /\ UNCHANGED <<rows, certificate, mountId, handler, listed, now>>

\* Mutant: the mount is freed under its rider.
FreeRidden(c) ==
    /\ pc[c] = "idle"
    /\ Goto(c, "free", NoMount)
    /\ UNCHANGED <<rows, chars, listed, now>>

\* handleMountFree: dismounts, ...
MountFree(c) ==
    /\ pc[c] = "idle"
    /\ mounting' = [mounting EXCEPT ![c] = FALSE]
    /\ Goto(c, "free", NoMount)
    /\ UNCHANGED <<rows, certificate, mountId, listed, now>>

\* Mutant: the mount to delete is read after MountId is cleared.
FreeForgets(c) ==
    /\ pc[c] = "free"
    /\ mountId' = [mountId EXCEPT ![c] = NoMount]
    /\ Goto(c, "delete", NoMount)
    /\ UNCHANGED <<rows, certificate, mounting, listed, now>>

\* Mutant: the mount is deleted before MountId is cleared.
FreeDeletesFirst(c) ==
    /\ pc[c] = "free"
    /\ stored' = stored \ {mountId[c]}
    /\ IF mountId[c] \in stored THEN UNCHANGED <<mountId, handler>>
       ELSE mountId' = [mountId EXCEPT ![c] = NoMount] /\ Ends(c)
    /\ UNCHANGED <<born, owner, validity, certificate, mounting, listed, now>>

\* ... clears MountId, ...
Free(c) ==
    /\ pc[c] = "free"
    /\ mountId' = [mountId EXCEPT ![c] = NoMount]
    /\ IF mountId[c] = NoMount THEN Ends(c) ELSE Goto(c, "delete", mountId[c])
    /\ UNCHANGED <<rows, certificate, mounting, listed, now>>

\* ... and deletes the mount.
DeleteFreed(c) ==
    /\ pc[c] = "delete"
    /\ stored' = stored \ {subject[c]}
    /\ Ends(c)
    /\ UNCHANGED <<born, owner, validity, chars, listed, now>>

\* An error ends the handler: what was written stays.
HandlerFails(c) ==
    /\ pc[c] # "idle"
    /\ Ends(c)
    /\ UNCHANGED <<rows, chars, listed, now>>

-----------------------------------------------------------------------------
(* maintain *)

Tick ==
    /\ now < MaxTime
    /\ now' = now + 1
    /\ UNCHANGED <<rows, chars, handler, listed, server>>

\* deleteInvalidMounts reads all rows; those of a zero time it will pass over.
ListMounts ==
    /\ server = "serving"
    /\ listed = {}
    /\ listed' = {Certificate(m, validity[m]) :
                     m \in {n \in stored : MayExpire(validity[n])}}
    /\ UNCHANGED <<rows, chars, handler, server, now>>

\* Each row it has read is deleted if its date as read is past by then.
DeleteInvalid(v) ==
    /\ v \in listed
    /\ Past(v.date)
    /\ stored' = stored \ {v.mount}
    /\ listed' = listed \ {v}
    /\ UNCHANGED <<born, owner, validity, chars, handler, server, now>>

PassOver(v) ==
    /\ v \in listed
    /\ ~Past(v.date)
    /\ listed' = listed \ {v}
    /\ UNCHANGED <<rows, chars, handler, server, now>>

\* The first error, of the read of all rows or of a deletion, ends maintain.
\* ListenAndServe returns it, and then waits for the accept loop (Lifecycle):
\* the process lists no more, while the open connections are still served.
MaintenanceFails ==
    /\ server = "serving"
    /\ listed' = {}
    /\ server' = "hung"
    /\ UNCHANGED <<rows, chars, handler, now>>

-----------------------------------------------------------------------------
(* The process *)

\* It ends, at any time: nothing but its handlers is left, and those only end
\* too (HandlerFails).
ServerStops ==
    /\ server # "down"
    /\ listed' = {}
    /\ server' = "down"
    /\ UNCHANGED <<rows, chars, handler, now>>

ServerStarts ==
    /\ server = "down"
    /\ \A c \in Character : pc[c] = "idle"
    /\ server' = "serving"
    /\ UNCHANGED <<rows, chars, handler, listed, now>>

-----------------------------------------------------------------------------
Operates(c) ==
    \/ \E m \in Mount :
          Buy(c, m) \/ PutInCertificateFromShed(c, m) \/ PutInInventoryFromShed(c, m)
    \/ \E k \in certificate[c] : DestroyCertificate(c, k) \/ PutInShedFromCertificate(c, k)
    \/ Refused(c) \/ Deliver(c) \/ Shelter(c)
    \/ PutInShedFromInventory(c) \/ Unequip(c) \/ EquipMount(c) \/ RideEquipped(c)
    \/ MountRide(c) \/ MountFree(c) \/ Free(c) \/ DeleteFreed(c)

Handles(c) ==
    /\ (server # "down" /\ Operates(c)) \/ HandlerFails(c)
    /\ UNCHANGED server

Maintains ==
    \/ ListMounts \/ MaintenanceFails
    \/ \E v \in listed : DeleteInvalid(v) \/ PassOver(v)

Restarts == ServerStops \/ ServerStarts

Next ==
    \/ \E c \in Character : Handles(c)
    \/ Maintains
    \/ Restarts
    \/ Tick

Spec == Init /\ [][Next]_vars

\* Time passes, and while the server serves the ticker of maintain goes on and
\* each row it has read gets its turn.  Nothing starts the server again.
FairSpec ==
    /\ Spec
    /\ WF_vars(Tick)
    /\ WF_vars(ListMounts)
    /\ \A m \in Mount :
          /\ WF_vars(\E v \in listed : v.mount = m /\ PassOver(v))
          /\ WF_vars(\E v \in listed : v.mount = m /\ DeleteInvalid(v))

-----------------------------------------------------------------------------
(* Properties *)

Moving == {"deliver", "certify", "shelter"}
Points == Moving \cup {"idle", "unequip", "equip", "ride", "free", "delete"}

\* Types; in particular a handler that moves or deletes a mount knows which.
TypeOK ==
    /\ born \subseteq Mount
    /\ stored \subseteq born
    /\ owner \in [Mount -> Character \cup {NoCharacter}]
    /\ validity \in [Mount -> Nat]
    /\ certificate \in [Character -> SUBSET [mount : Mount, date : Nat]]
    /\ mountId \in [Character -> Mount \cup {NoMount}]
    /\ mounting \in [Character -> BOOLEAN]
    /\ pc \in [Character -> Points]
    /\ subject \in [Character -> Mount \cup {NoMount}]
    /\ \A c \in Character :
          pc[c] \in Moving \cup {"equip", "delete"} => subject[c] # NoMount
    /\ listed \subseteq [mount : Mount, date : Nat]
    /\ server \in {"serving", "hung", "down"}
    /\ server # "serving" => listed = {}
    /\ now \in Nat

\* The handler of c carries m from one row to another.
Carries(c, m) == pc[c] \in Moving /\ subject[c] = m

\* A mount is never in two places: at most one certificate or handler has it,
\* and none while it has an owner.
OnePlace ==
    \A c, d \in Character : \A k \in certificate[c] :
        /\ owner[k.mount] = NoCharacter
        /\ ~Carries(d, k.mount)
        /\ \A l \in certificate[d] : l.mount = k.mount => c = d /\ l = k

\* The mount a character has equipped is its own, and nobody rides without
\* one, also in the middle of a handler.
UsedIsOwned ==
    \A c \in Character :
        /\ mountId[c] # NoMount => owner[mountId[c]] = c
        /\ mounting[c] => mountId[c] # NoMount

FreedByOwner(m) ==
    \E c \in Character : pc[c] = "delete" /\ subject[c] = m /\ owner[m] = c

\* The maintenance read another date than the row has now.
ListedStale(m) == \E v \in listed : v.mount = m /\ v.date # validity[m]

\* A mount with an owner is deleted only by its owner, and none is while a
\* character refers to it with MountId, which would end each of its sessions
\* in handleGameCreate; unless an old listing takes it.
DeletedIsUnused ==
    [][\A m \in stored \ stored' :
          \/ /\ owner[m] = NoCharacter \/ FreedByOwner(m)
             /\ \A c \in Character : mountId[c] # m
          \/ ListedStale(m)]_vars

\* Who keeps a mount: its owner, or who carries its certificate, or whose
\* handler has it in its hands.
Keeps(c, m) ==
    \/ owner[m] = c
    \/ owner[m] = NoCharacter
       /\ (Carries(c, m) \/ \E k \in certificate[c] : k.mount = m)

IsAdrift(m) == m \in stored /\ \A c \in Character : ~Keeps(c, m)

\* The mounts nobody keeps any more are deleted in the end, unless the server
\* stops serving first: by one error of the maintenance, or altogether.
AdriftIsDeleted ==
    \A m \in Mount : IsAdrift(m) ~> (m \notin stored \/ server # "serving")

KeeperOf ==
    [m \in Mount |->
        IF m \notin born THEN Unborn
        ELSE IF m \notin stored THEN Gone
        ELSE IF \E c \in Character : Keeps(c, m)
             THEN CHOOSE c \in Character : Keeps(c, m)
        ELSE Adrift]

Keeping == INSTANCE MountKeeping WITH keeper <- KeeperOf

\* No mount changes hands, and one that is adrift or gone is not kept again.
ImplementsKeeping == Keeping!KeepSpec
=============================================================================
