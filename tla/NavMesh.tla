------------------------------ MODULE NavMesh ------------------------------
(***************************************************************************)
(* The tiles of a detour.NavMesh: slots, references, the position lookup    *)
(* and the links between polygons, each tile paying for its own links from  *)
(* a pool that its data brings along.                                       *)
(*                                                                          *)
(* The chains through MeshTile.Next are a sequence (the free list, whose    *)
(* order decides the next slot) and sets (the hash chains).  A link's index *)
(* in the pool and its place in a polygon's chain are data; which links are *)
(* lost when a pool runs dry depends on that order, so any choice is.       *)
(***************************************************************************)
EXTENDS TileData, Sequences, SequencesExt

CONSTANTS
    Buckets,    \* indices of PosLookup
    Hash,       \* Hash[c]: bucket of the grid cell c
    MaxTiles,   \* params.MaxTiles
    SaltMod,    \* 2^SaltBits
    MaxLinks,   \* MaxLinks[d]: header MaxLinkCount
    OffMesh,    \* the data with off-mesh connections
    AnyLastRef, \* clients restore any reference, not just a slot's newest
    SaltBound,  \* bound of the model: slots with a larger salt stay in use
    NoRef,      \* reference 0
    NoData      \* Header == nil

TileSlot == 1..MaxTiles
MeshRef == [slot : TileSlot, salt : 1..(SaltMod - 1)]

ASSUME NavMeshAssumption ==
    /\ TileRef = MeshRef
    /\ MaxTiles \in Nat \ {0}
    /\ SaltMod \in Nat /\ SaltMod >= 3 /\ SaltBound \in Nat
    /\ Hash \in [{CellOf[d] : d \in Data} -> Buckets]
    /\ MaxLinks \in [Data -> Nat]
    /\ \A d \in Data : Cardinality(Inner[d]) <= MaxLinks[d]
    /\ OffMesh \subseteq Data /\ NoData \notin Data /\ NoRef \notin MeshRef
    /\ AnyLastRef \in BOOLEAN

VARIABLES
    tiles,     \* tiles[i]: Salt and data of slot i
    nextFree,  \* NextFree and the chain behind it
    posLookup, \* posLookup[b]: slots chained in bucket b
    links,     \* the links of all tiles
    pool,      \* pool[i]: length of LinksFreeList of slot i
    missing,   \* history: links that were lost, between tiles still there
    issued,    \* history: references AddTile has returned
    panicked   \* a panic ended the program

vars == <<tiles, nextFree, posLookup, links, pool, missing, issued, panicked>>

Link == [at : TileRef, poly : Nat, via : SUBSET (UNION {Portals[d] : d \in Data}),
         to : TileRef, toPoly : Nat]

TypeOK ==
    /\ tiles \in [TileSlot -> [salt : 1..(SaltMod - 1), data : Data \cup {NoData}]]
    /\ nextFree \in Seq(TileSlot)
    /\ posLookup \in [Buckets -> SUBSET TileSlot]
    /\ \A l \in links \cup missing : l \in Link
    /\ pool \in [TileSlot -> Nat]
    /\ issued \in SUBSET TileRef
    /\ panicked \in BOOLEAN

----------------------------------------------------------------------------

GetTileRef(i) == [slot |-> i, salt |-> tiles[i].salt]
InUse == {i \in TileSlot : tiles[i].data # NoData}
Chained(c) == {i \in posLookup[Hash[c]] : CellOf[tiles[i].data] = c}
GetTileAt(d) == {i \in Chained(CellOf[d]) : LocOf(tiles[i].data) = LocOf(d)}

\* The same cell and the cells around it, where AddTile and RemoveTile look.
CellsAround(c) == {c} \cup {Beside(c, s) : s \in PortalSide}
Neighbours(c) == UNION {Chained(k) : k \in CellsAround(c) \cap DOMAIN Hash}

\* The slot a new tile takes: the first free one, or the one lastRef names,
\* with the salt lastRef had.
SlotFor(lastRef) ==
    {k \in DOMAIN nextFree : IF lastRef = NoRef THEN k = 1
                             ELSE nextFree[k] = lastRef.slot}
NewRef(i, lastRef) == IF lastRef = NoRef THEN GetTileRef(i) ELSE lastRef

\* References the client of this model restores.
Restorable(ref) ==
    /\ ref \in issued
    /\ AnyLastRef \/ \A r \in issued : r.slot = ref.slot => r.salt <= ref.salt

\* The links to make: the new tile's to its neighbours, and theirs to it.
Wanted(ref, d) ==
    UNION {ExtLinks(ref, d, GetTileRef(j), tiles[j].data)
           \cup ExtLinks(GetTileRef(j), tiles[j].data, ref, d) : j \in Neighbours(CellOf[d])}

HeldBy(set, i) == {l \in set : l.at.slot = i}

\* allocLink finds the pool empty for as many links as exceed it.
Lost(wanted, room) ==
    {lost \in SUBSET wanted : \A i \in TileSlot :
        LET asked == Cardinality(HeldBy(wanted, i)) IN
        Cardinality(HeldBy(lost, i)) = IF asked > room[i] THEN asked - room[i] ELSE 0}

\* AddTile, for data of a place that is free and a slot that is free.  With
\* off-mesh connections the code indexes OffMeshCons, which it never sets.
AddTile(d, lastRef) ==
    /\ ~panicked
    /\ GetTileAt(d) = {}
    /\ \E k \in SlotFor(lastRef) :
         LET i == nextFree[k]
             ref == NewRef(i, lastRef)
             inner == InnerLinks(ref, d)
             wanted == Wanted(ref, d)
             room == [pool EXCEPT ![i] = MaxLinks[d] - Cardinality(inner)] IN
         IF d \in OffMesh
         THEN /\ panicked' = TRUE
              /\ UNCHANGED <<tiles, nextFree, posLookup, links, pool, missing, issued>>
         ELSE /\ nextFree' = RemoveAt(nextFree, k)
              /\ tiles' = [tiles EXCEPT ![i] = [salt |-> ref.salt, data |-> d]]
              /\ posLookup' = [posLookup EXCEPT ![Hash[CellOf[d]]] = @ \cup {i}]
              /\ \E lost \in Lost(wanted, room) :
                   LET made == wanted \ lost IN
                   /\ links' = links \cup inner \cup made
                   /\ missing' = missing \cup lost
                   /\ pool' = [j \in TileSlot |-> room[j] - Cardinality(HeldBy(made, j))]
              /\ issued' = issued \cup {ref}
              /\ UNCHANGED panicked

\* salt = (salt + 1) & (1 << SaltBits - 1), and 0 is skipped.
NextSaltMut(salt) == IF salt > 1 THEN salt - 1 ELSE salt + 1
NextSalt(salt) == LET s == (salt + 1) % SaltMod IN IF s = 0 THEN 1 ELSE s

\* unconnectLinks, for every tile around: the links that lead to slot i.
SeveredMut(i) ==
    {l \in links : l.to.slot = i /\ l.at.slot \in Chained(CellOf[tiles[i].data]) \ {i}}
Severed(i) ==
    {l \in links : l.to.slot = i /\ l.at.slot \in Neighbours(CellOf[tiles[i].data]) \ {i}}

\* freeLink puts every severed link back into the pool it came from.
FreedMut(severed, j) == pool[j]
Freed(severed, j) == pool[j] + Cardinality(HeldBy(severed, j))

UnlinkedMut(i) == posLookup
Unlinked(i) == [posLookup EXCEPT ![Hash[CellOf[tiles[i].data]]] = @ \ {i}]

\* RemoveTile with a reference the client was given.  A stale one is refused
\* by its salt; if that matches although the slot is free, Header is nil.
RemoveTile(ref) ==
    /\ ~panicked
    /\ ref \in issued
    /\ tiles[ref.slot].salt = ref.salt
    /\ ref.salt <= SaltBound
    /\ LET i == ref.slot IN
       IF i \notin InUse
       THEN /\ panicked' = TRUE
            /\ UNCHANGED <<tiles, nextFree, posLookup, links, pool, missing>>
       ELSE /\ posLookup' = Unlinked(i)
            /\ links' = {l \in links \ Severed(i) : l.at.slot # i}
            /\ missing' = {l \in missing : i \notin {l.at.slot, l.to.slot}}
            /\ pool' = [[j \in TileSlot |-> Freed(Severed(i), j)] EXCEPT ![i] = 0]
            /\ tiles' = [tiles EXCEPT ![i] = [salt |-> NextSalt(@.salt), data |-> NoData]]
            /\ nextFree' = <<i>> \o nextFree
            /\ UNCHANGED panicked
    /\ UNCHANGED issued

Init ==
    /\ tiles = [i \in TileSlot |-> [salt |-> 1, data |-> NoData]]
    /\ nextFree = [i \in 1..MaxTiles |-> i]
    /\ posLookup = [b \in Buckets |-> {}]
    /\ links = {} /\ missing = {}
    /\ pool = [i \in TileSlot |-> 0]
    /\ issued = {}
    /\ panicked = FALSE

Next ==
    \/ \E d \in Data : AddTile(d, NoRef)
    \/ \E d \in Data, lastRef \in {r \in TileRef : Restorable(r)} : AddTile(d, lastRef)
    \/ \E ref \in TileRef : RemoveTile(ref)

Spec == Init /\ [][Next]_vars

----------------------------------------------------------------------------
(* Properties *)

Present == {[ref |-> GetTileRef(i), data |-> tiles[i].data] : i \in InUse}

\* Slots are neither lost nor used twice, a used slot is chained in the bucket
\* of its own cell only, and one tile lies at a place (AddTile, RemoveTile).
SlotsExact ==
    /\ IsInjective(nextFree)
    /\ Range(nextFree) = TileSlot \ InUse
    /\ \A b \in Buckets : posLookup[b] = {i \in InUse : Hash[CellOf[tiles[i].data]] = b}
    /\ \A i, j \in InUse : LocOf(tiles[i].data) = LocOf(tiles[j].data) => i = j

\* A tile's pool and its links add up to what its data brought: tiles coming
\* and going around it do not leak its links (allocLink, freeLink).
PoolsBalance ==
    \A i \in InUse :
        pool[i] + Cardinality(HeldBy(links, i)) = MaxLinks[tiles[i].data]

\* "expected ErrInvalidParam for stale ref": once its tile is removed, a
\* reference matches its slot again only with a tile restored under it.
StaleRefsRefused ==
    \A ref \in issued : tiles[ref.slot].salt = ref.salt => ref.slot \in InUse

\* The mesh is the directory of its tiles: references keep their meaning, and
\* the links are those the present tiles demand, whatever the history, save
\* those that were refused for want of room (AddTile, RemoveTile).
Directory == INSTANCE TileDirectory WITH
    present <- Present, used <- issued, graph <- links \cup missing, Capacity <- MaxTiles
IsDirectory == Directory!Spec
=============================================================================
