--------------------------- MODULE FragmentsProofs ----------------------------
(***************************************************************************)
(* No space and no record of a table is lost, for all keys and values,     *)
(* lengths and page sizes.  The inductive invariant says of the record     *)
(* that an operation has under way how far it is written (Live) and what   *)
(* is still to be freed (Orphans), and of all others that they are whole.  *)
(* Where a slice comes in its record is told by its offset, so that no     *)
(* proof has to follow a chain from its start.                             *)
(***************************************************************************)
EXTENDS Fragments, WellFoundedInduction, TLAPS

-------------------------------------------------------------------------------
(* The space of a table *)

\* Addresses and headers in a table of m pages.
Address(m) == (0..m) \X (0..PAGEUSED)

BlockSet(m) == [next : 1..PAGEUSED, size : 0..PAGEMAXSPARE, first : BOOLEAN,
                link : Address(m), prev : Address(m), len : Nat,
                key : Key \cup {NoVal}, val : Val \cup {NoVal}, off : Nat]

\* The type of a table.
IsTable(t) ==
    /\ t = [blk |-> t.blk, frag |-> t.frag, free |-> t.free, max |-> t.max,
            index |-> t.index, at |-> t.at]
    /\ t.max \in Nat
    /\ t.free \in Seq(1..t.max)
    /\ DOMAIN t.blk \subseteq Address(t.max)
    /\ t.blk \in [DOMAIN t.blk -> BlockSet(t.max)]
    /\ t.frag \in [Classes -> Address(t.max)]
    /\ t.index \in [Key -> Address(t.max)]
    /\ t.at \in Address(t.max)

\* PagesAreTiled, FreeIsListed and FreeIsJoined, part by part, of any table t; while a
\* step is under way, the blocks F that are listed may be less than those of size 0.
PagesUsed(t) ==
    /\ {a[1] : a \in DOMAIN t.blk} = (1..t.max) \ {t.free[i] : i \in DOMAIN t.free}
    /\ \A i, j \in DOMAIN t.free : t.free[i] = t.free[j] => i = j

Tiles(t) ==
    \A a \in DOMAIN t.blk :
       /\ a[2] % 16 = 0
       /\ t.blk[a].next - a[2] >= FRAGHDR
       /\ t.blk[a].size <= Capacity(t, a)
       /\ t.blk[a].next = PAGEUSED \/ NextHead(t, a) \in DOMAIN t.blk
       /\ a[2] = 0 \/ \E b \in DOMAIN t.blk : NextHead(t, b) = a
       /\ \A b \in DOMAIN t.blk : b[1] = a[1] /\ b[2] > a[2] => b[2] >= t.blk[a].next

Tiled(t) == PagesUsed(t) /\ Tiles(t)

Heads(t, F) ==
    \A i \in Classes : t.frag[i] # Null =>
       t.frag[i] \in F /\ Class(t, t.frag[i]) = i /\ t.blk[t.frag[i]].prev = Null

Linked(t, F) ==
    \A a \in F :
       /\ t.blk[a].prev = Null => t.frag[Class(t, a)] = a
       /\ t.blk[a].prev # Null => t.blk[a].prev \in F /\ t.blk[t.blk[a].prev].link = a
       /\ t.blk[a].link # Null => /\ t.blk[a].link \in F /\ t.blk[t.blk[a].link].prev = a
                                  /\ Class(t, t.blk[a].link) = Class(t, a)

NoRing(t, F) == \A S \in SUBSET F : S # {} => \E a \in S : t.blk[a].prev \notin S

Listed(t, F) == F \subseteq DOMAIN t.blk /\ Heads(t, F) /\ Linked(t, F) /\ NoRing(t, F)

\* The blocks that are free and those that are in use.
FreeIn(t) == {a \in DOMAIN t.blk : t.blk[a].size = 0}

UsedIn(t) == {a \in DOMAIN t.blk : t.blk[a].size # 0}

Joined(t, F) == \A a \in F : NextHead(t, a) \notin F /\ Capacity(t, a) < PAGEMAXSPARE

\* SpaceIsKept of table t.
Space(t) == IsTable(t) /\ Tiled(t) /\ Listed(t, FreeIn(t)) /\ Joined(t, FreeIn(t))

\* Everything but the links
Alike(t, u, x) ==
    /\ u.blk[x].next = t.blk[x].next /\ u.blk[x].size = t.blk[x].size
    /\ u.blk[x].first = t.blk[x].first /\ u.blk[x].len = t.blk[x].len
    /\ u.blk[x].key = t.blk[x].key /\ u.blk[x].val = t.blk[x].val
    /\ u.blk[x].off = t.blk[x].off

\* What a record needs of block x
Keeps(t, u, x) ==
    /\ x \in DOMAIN u.blk
    /\ u.blk[x].size = t.blk[x].size /\ u.blk[x].link = t.blk[x].link
    /\ u.blk[x].first = t.blk[x].first /\ u.blk[x].len = t.blk[x].len
    /\ u.blk[x].key = t.blk[x].key /\ u.blk[x].val = t.blk[x].val
    /\ u.blk[x].off = t.blk[x].off

\* Everything but the blocks and the lists.
Rest(t, u) == u.max = t.max /\ u.free = t.free /\ u.index = t.index /\ u.at = t.at

\* What the constants of a page are to each other.
LEMMA Bytes ==
    /\ PAGEUSED \in Nat /\ PAGEUSED % 16 = 8 /\ PAGEUSED >= 24
    /\ FRAGMIN = 8 /\ HDR = 12 /\ FRAGHDR = 16 /\ LENGTHS = 8
    /\ PAGEMAXSPARE = PAGEUSED - 12 /\ PAGEMINSPARE = 20
  BY PageAssumption DEF FRAGMIN, HDR, FRAGHDR, LENGTHS, PAGEMAXSPARE, PAGEMINSPARE

\* The address 0 that ends a list is the magic page's.
LEMMA NullAddress == ASSUME NEW m \in Nat PROVE Null \in Address(m)
  BY Bytes DEF Null, Address

\* Where a block of a divided page lies, and what its fields range over.
LEMMA Pages ==
    ASSUME NEW t, IsTable(t), Tiled(t), NEW a \in DOMAIN t.blk
    PROVE  /\ a[1] \in 1..t.max /\ a[2] \in 0..PAGEUSED /\ a = <<a[1], a[2]>>
           /\ a # Null
           /\ \A i \in DOMAIN t.free : t.free[i] # a[1]
           /\ t.blk[a] \in BlockSet(t.max)
           /\ t.blk[a].next \in 1..PAGEUSED
           /\ a[2] + 16 <= t.blk[a].next
  <1>1. a \in Address(t.max)
    BY DEF IsTable
  <1>2. a[1] \in 0..t.max /\ a[2] \in 0..PAGEUSED /\ a = <<a[1], a[2]>>
    BY <1>1 DEF Address
  <1>3. a[1] \in 1..t.max /\ \A i \in DOMAIN t.free : t.free[i] # a[1]
    BY DEF Tiled, PagesUsed
  <1>4. a # Null
    BY <1>3 DEF Null
  <1>5. t.blk[a] \in BlockSet(t.max)
    BY DEF IsTable
  <1>6. t.blk[a].next \in 1..PAGEUSED
    BY <1>5 DEF BlockSet
  <1>7. a[2] + 16 <= t.blk[a].next
    BY <1>2, <1>6, Bytes DEF Tiled, Tiles
  <1> QED
    BY <1>2, <1>3, <1>4, <1>5, <1>6, <1>7

\* No block lies in the magic page.
LEMMA NullNoBlock == ASSUME NEW t, IsTable(t), Tiled(t) PROVE Null \notin DOMAIN t.blk
  BY Pages

\* Every block has a list of fragments, and room for what it holds.
LEMMA ClassIn ==
    ASSUME NEW t, IsTable(t), Tiled(t), NEW a \in DOMAIN t.blk
    PROVE  /\ Class(t, a) \in Classes
           /\ Capacity(t, a) \in Nat /\ Capacity(t, a) <= PAGEMAXSPARE
           /\ t.blk[a].size <= Capacity(t, a) /\ t.blk[a].size \in Nat
  <1>1. Capacity(t, a) \in Nat /\ Capacity(t, a) <= PAGEUSED - 12
    BY Pages, Bytes DEF Capacity
  <1>2. Class(t, a) \in Classes
    BY <1>1, Bytes DEF Class, Classes
  <1>3. t.blk[a].size \in Nat
    BY Pages, Bytes DEF BlockSet
  <1> QED
    BY <1>1, <1>2, <1>3, Bytes DEF Tiled, Tiles

\* A table with other blocks.
LEMMA WithBlocks ==
    ASSUME NEW t, IsTable(t), NEW B, DOMAIN B \subseteq Address(t.max),
           B \in [DOMAIN B -> BlockSet(t.max)], NEW u, u = [t EXCEPT !.blk = B]
    PROVE  IsTable(u) /\ Rest(t, u) /\ u.frag = t.frag /\ u.blk = B
  <1>1. u.blk = B /\ u.frag = t.frag /\ Rest(t, u)
    BY DEF IsTable, Rest
  <1>2. u = [blk |-> u.blk, frag |-> u.frag, free |-> u.free, max |-> u.max, index |-> u.index, at |-> u.at]
    BY DEF IsTable
  <1> QED
    BY <1>1, <1>2 DEF IsTable, Rest

\* A table in which one block's header is another one.
LEMMA WithBlock ==
    ASSUME NEW t, IsTable(t), NEW a \in DOMAIN t.blk, NEW r \in BlockSet(t.max),
           NEW u, u = [t EXCEPT !.blk[a] = r]
    PROVE  /\ IsTable(u) /\ Rest(t, u) /\ u.frag = t.frag /\ DOMAIN u.blk = DOMAIN t.blk
           /\ u.blk[a] = r /\ \A x \in DOMAIN t.blk : x # a => u.blk[x] = t.blk[x]
  <1> DEFINE B == [t.blk EXCEPT ![a] = r]
  <1>1. /\ DOMAIN B = DOMAIN t.blk /\ B \in [DOMAIN B -> BlockSet(t.max)]
        /\ B[a] = r /\ \A x \in DOMAIN t.blk : x # a => B[x] = t.blk[x]
    BY DEF IsTable
  <1>2. u = [t EXCEPT !.blk = B]
    OBVIOUS
  <1>3. DOMAIN B \subseteq Address(t.max)
    BY <1>1 DEF IsTable
  <1> HIDE DEF B
  <1> QED
    BY <1>1, <1>2, <1>3, WithBlocks

-------------------------------------------------------------------------------
(* Lists of fragments *)

\* The neighbours of a block in its list are free blocks too.
LEMMA ListedFacts ==
    ASSUME NEW t, NEW F, IsTable(t), Tiled(t), Listed(t, F), NEW a \in F
    PROVE  /\ a \in DOMAIN t.blk
           /\ t.blk[a].prev = Null \/ t.blk[a].prev \in F
           /\ t.blk[a].link = Null \/ t.blk[a].link \in F
           /\ t.blk[a].prev # a /\ t.blk[a].link # a
           /\ Class(t, a) \in Classes
  <1>1. a \in DOMAIN t.blk
    BY DEF Listed
  <1>2. t.blk[a].prev = Null \/ t.blk[a].prev \in F
    BY DEF Listed, Linked
  <1>3. t.blk[a].link = Null \/ t.blk[a].link \in F
    BY DEF Listed, Linked
  <1>4. t.blk[a].prev # a
    <2>1. {a} \in SUBSET F /\ {a} # {}
      OBVIOUS
    <2>2. \E b \in {a} : t.blk[b].prev \notin {a}
      BY <2>1 DEF Listed, NoRing
    <2> QED
      BY <2>2
  <1>5. a # Null
    BY <1>1, NullNoBlock
  <1>6. t.blk[a].link # a
    BY <1>4, <1>5 DEF Listed, Linked
  <1> QED
    BY <1>1, <1>2, <1>3, <1>4, <1>6, ClassIn

\* What clr_fragment changes: the pointers of a block's neighbours in its list.
LEMMA ClrShape ==
    ASSUME NEW t, NEW F, IsTable(t), Tiled(t), Listed(t, F), NEW a \in F,
           NEW u, u = ClrFragment(t, a)
    PROVE  /\ IsTable(u) /\ Rest(t, u)
           /\ DOMAIN u.blk = DOMAIN t.blk
           /\ \A x \in DOMAIN t.blk :
                /\ Alike(t, u, x)
                /\ u.blk[x].link = IF x = t.blk[a].prev THEN t.blk[a].link ELSE t.blk[x].link
                /\ u.blk[x].prev = IF x = t.blk[a].link THEN t.blk[a].prev ELSE t.blk[x].prev
           /\ \A i \in Classes :
                u.frag[i] = IF t.blk[a].prev = Null /\ i = Class(t, a)
                            THEN t.blk[a].link ELSE t.frag[i]
  <1> DEFINE h == t.blk[a]
             s == IF h.prev # Null THEN [t EXCEPT !.blk[h.prev].link = h.link]
                  ELSE [t EXCEPT !.frag[Class(t, a)] = h.link]
  <1>1. a \in DOMAIN t.blk /\ Null \notin DOMAIN t.blk /\ F \subseteq DOMAIN t.blk
    BY NullNoBlock DEF Listed
  <1>2. h.prev = Null \/ h.prev \in DOMAIN t.blk
    BY <1>1, ListedFacts
  <1>3. h.link = Null \/ h.link \in DOMAIN t.blk
    BY <1>1, ListedFacts
  <1>4. Class(t, a) \in Classes
    BY ListedFacts
  <1>5. h \in BlockSet(t.max) /\ h.link \in Address(t.max) /\ h.prev \in Address(t.max)
    BY <1>1 DEF IsTable, BlockSet
  <1>6. /\ IsTable(s) /\ Rest(t, s) /\ DOMAIN s.blk = DOMAIN t.blk
        /\ \A x \in DOMAIN t.blk :
             /\ Alike(t, s, x)
             /\ s.blk[x].link = IF x = h.prev THEN h.link ELSE t.blk[x].link
             /\ s.blk[x].prev = t.blk[x].prev
        /\ \A i \in Classes : s.frag[i] = IF h.prev = Null /\ i = Class(t, a) THEN h.link ELSE t.frag[i]
    <2>1. CASE h.prev # Null
      <3>1. s = [t EXCEPT !.blk[h.prev].link = h.link]
        BY <2>1
      <3> HIDE DEF s
      <3>2. IsTable(s)
        BY <3>1, <1>1, <1>2, <1>5, <2>1 DEF IsTable, BlockSet
      <3>3. Rest(t, s) /\ DOMAIN s.blk = DOMAIN t.blk /\ s.frag = t.frag
        BY <3>1 DEF Rest, IsTable
      <3>4. \A x \in DOMAIN t.blk :
             /\ Alike(t, s, x)
             /\ s.blk[x].link = IF x = h.prev THEN h.link ELSE t.blk[x].link
             /\ s.blk[x].prev = t.blk[x].prev
        BY <3>1, <1>1, <1>2, <1>5, <2>1 DEF IsTable, BlockSet, Alike
      <3> QED
        BY <3>2, <3>3, <3>4, <2>1
    <2>2. CASE h.prev = Null
      <3>1. s = [t EXCEPT !.frag[Class(t, a)] = h.link]
        BY <2>2
      <3> HIDE DEF s
      <3>2. IsTable(s)
        BY <3>1, <1>4, <1>5 DEF IsTable
      <3>3. Rest(t, s) /\ s.blk = t.blk
        BY <3>1 DEF Rest, IsTable
      <3>4. \A i \in Classes : s.frag[i] = IF i = Class(t, a) THEN h.link ELSE t.frag[i]
        BY <3>1, <1>4 DEF IsTable
      <3> QED
        BY <3>2, <3>3, <3>4, <2>2, <1>1 DEF Alike
    <2> QED
      BY <2>1, <2>2
  <1>7. u = IF h.link # Null THEN [s EXCEPT !.blk[h.link].prev = h.prev] ELSE s
    BY DEF ClrFragment
  <1> HIDE DEF s
  <1>8. CASE h.link = Null
    BY <1>6, <1>7, <1>8, <1>1 DEF Alike, Rest
  <1>9. CASE h.link # Null
    <2>1. u = [s EXCEPT !.blk[h.link].prev = h.prev] /\ h.link \in DOMAIN s.blk
      BY <1>7, <1>9, <1>3, <1>6
    <2>2. s.max = t.max /\ s.blk[h.link] \in BlockSet(t.max) /\ h.prev \in Address(s.max)
      BY <2>1, <1>6, <1>5 DEF IsTable, Rest
    <2>3. IsTable(u)
      <3>1. IsTable(s)
        BY <1>6
      <3>2. [s.blk[h.link] EXCEPT !.prev = h.prev] \in BlockSet(s.max)
        BY <2>2 DEF BlockSet
      <3>3. u = [s EXCEPT !.blk[h.link] = [s.blk[h.link] EXCEPT !.prev = h.prev]]
        BY <2>1
      <3> QED
        BY <2>1, <3>1, <3>2, <3>3, WithBlock
    <2>4. Rest(s, u) /\ DOMAIN u.blk = DOMAIN s.blk /\ u.frag = s.frag
      BY <2>1, <1>6 DEF Rest, IsTable
    <2>5. \A x \in DOMAIN s.blk :
             /\ Alike(s, u, x)
             /\ u.blk[x].prev = IF x = h.link THEN h.prev ELSE s.blk[x].prev
             /\ u.blk[x].link = s.blk[x].link
      BY <2>1, <2>2, <1>6 DEF IsTable, BlockSet, Alike
    <2>6. Rest(t, u)
      BY <2>4, <1>6 DEF Rest
    <2>7. \A x \in DOMAIN t.blk : Alike(t, u, x)
      BY <2>5, <1>6 DEF Alike
    <2> QED
      BY <2>3, <2>4, <2>5, <2>6, <2>7, <1>6
  <1> QED
    BY <1>8, <1>9

\* Capacity, list and next block depend on where the next block starts only.
LEMMA ClassAlike ==
    ASSUME NEW t, NEW u, NEW x, u.blk[x].next = t.blk[x].next
    PROVE  Class(u, x) = Class(t, x) /\ Capacity(u, x) = Capacity(t, x) /\ NextHead(u, x) = NextHead(t, x)
  BY DEF Class, Capacity, NextHead

\* A page stays divided when only the links of its blocks change.
LEMMA TiledFrame ==
    ASSUME NEW t, NEW u, Tiled(t), DOMAIN u.blk = DOMAIN t.blk, u.max = t.max, u.free = t.free,
           \A x \in DOMAIN t.blk : u.blk[x].next = t.blk[x].next /\ u.blk[x].size = t.blk[x].size
    PROVE  Tiled(u)
  <1>1. PagesUsed(u)
    BY DEF Tiled, PagesUsed
  <1>2. \A x \in DOMAIN t.blk : Capacity(u, x) = Capacity(t, x) /\ NextHead(u, x) = NextHead(t, x)
    BY ClassAlike
  <1>3. Tiles(u)
    BY <1>2 DEF Tiled, Tiles
  <1> QED
    BY <1>1, <1>3 DEF Tiled

\* The lists stay what they are when no link of theirs changes.
LEMMA ListedFrame ==
    ASSUME NEW t, NEW u, NEW F, Listed(t, F), F \subseteq DOMAIN u.blk, u.frag = t.frag,
           \A x \in F : /\ u.blk[x].next = t.blk[x].next
                        /\ u.blk[x].link = t.blk[x].link /\ u.blk[x].prev = t.blk[x].prev
    PROVE  Listed(u, F)
  <1>1. \A x \in F : Class(u, x) = Class(t, x)
    BY ClassAlike
  <1>2. Heads(u, F)
    BY <1>1 DEF Listed, Heads
  <1>3. Linked(u, F)
    BY <1>1 DEF Listed, Linked
  <1>4. NoRing(u, F)
    BY DEF Listed, NoRing
  <1> QED
    BY <1>2, <1>3, <1>4 DEF Listed

\* clr_fragment takes a block, and it alone, out of the lists.
LEMMA ClrListed ==
    ASSUME NEW t, NEW F, IsTable(t), Tiled(t), Listed(t, F), NEW a \in F,
           NEW u, u = ClrFragment(t, a)
    PROVE  /\ Listed(u, F \ {a}) /\ Tiled(u)
           /\ u.blk[a] = t.blk[a]
           /\ \A x \in DOMAIN t.blk \ F : u.blk[x] = t.blk[x]
  <1> DEFINE h == t.blk[a]
             G == F \ {a}
  <1>1. /\ IsTable(u) /\ Rest(t, u) /\ DOMAIN u.blk = DOMAIN t.blk
        /\ \A x \in DOMAIN t.blk :
              /\ Alike(t, u, x)
              /\ u.blk[x].link = IF x = h.prev THEN h.link ELSE t.blk[x].link
              /\ u.blk[x].prev = IF x = h.link THEN h.prev ELSE t.blk[x].prev
        /\ \A i \in Classes :
             u.frag[i] = IF h.prev = Null /\ i = Class(t, a) THEN h.link ELSE t.frag[i]
    BY ClrShape
  <1>2. \A x \in F : /\ x \in DOMAIN t.blk /\ x # Null
                     /\ t.blk[x].prev = Null \/ t.blk[x].prev \in F
                     /\ t.blk[x].link = Null \/ t.blk[x].link \in F
                     /\ t.blk[x].prev # x /\ t.blk[x].link # x
                     /\ Class(t, x) \in Classes
    BY ListedFacts, NullNoBlock
  <1>3. \A x \in F : Class(u, x) = Class(t, x)
    BY <1>1, <1>2, ClassAlike DEF Alike
  <1>4. \A x \in F : t.blk[x].prev = a => x = h.link
    BY <1>2 DEF Listed, Linked
  <1>5. \A x \in F : t.blk[x].link = a => x = h.prev
    BY <1>2 DEF Listed, Linked
  <1>6. h.prev = Null => t.frag[Class(t, a)] = a
    BY DEF Listed, Linked
  <1>7. \A i \in Classes : t.frag[i] = a => h.prev = Null /\ i = Class(t, a)
    BY <1>2 DEF Listed, Heads
  <1>8. h.prev # Null /\ h.link # Null => h.prev # h.link
    <2> SUFFICES ASSUME h.prev # Null, h.link = h.prev PROVE FALSE
      OBVIOUS
    <2>1. {a, h.prev} \in SUBSET F
      BY <1>2
    <2>2. t.blk[h.prev].prev = a
      BY <1>2 DEF Listed, Linked
    <2>3. \E b \in {a, h.prev} : t.blk[b].prev \notin {a, h.prev}
      BY <2>1 DEF Listed, NoRing
    <2> QED
      BY <2>2, <2>3
  <1>9. Heads(u, G)
    <2> SUFFICES ASSUME NEW i \in Classes, u.frag[i] # Null
                 PROVE  u.frag[i] \in G /\ Class(u, u.frag[i]) = i /\ u.blk[u.frag[i]].prev = Null
      BY DEF Heads
    <2>1. CASE h.prev = Null /\ i = Class(t, a)
      <3>1. u.frag[i] = h.link /\ h.link \in F /\ h.link # a
        BY <2>1, <1>1, <1>2
      <3>2. Class(t, h.link) = i
        BY <2>1, <3>1 DEF Listed, Linked
      <3>3. u.blk[h.link].prev = Null
        BY <3>1, <2>1, <1>1, <1>2
      <3> QED
        BY <3>1, <3>2, <3>3, <1>3
    <2>2. CASE ~(h.prev = Null /\ i = Class(t, a))
      <3>1. u.frag[i] = t.frag[i] /\ t.frag[i] # a
        BY <2>2, <1>1, <1>7
      <3>2. t.frag[i] \in F /\ Class(t, t.frag[i]) = i /\ t.blk[t.frag[i]].prev = Null
        BY <3>1 DEF Listed, Heads
      <3>3. t.frag[i] # h.link
        BY <3>2, <1>2 DEF Listed, Linked
      <3> QED
        BY <3>1, <3>2, <3>3, <1>1, <1>2, <1>3
    <2> QED
      BY <2>1, <2>2
  <1>10. Linked(u, G)
    <2> SUFFICES ASSUME NEW x \in G
                 PROVE  /\ u.blk[x].prev = Null => u.frag[Class(u, x)] = x
                        /\ u.blk[x].prev # Null => u.blk[x].prev \in G /\ u.blk[u.blk[x].prev].link = x
                        /\ u.blk[x].link # Null => /\ u.blk[x].link \in G
                                                   /\ u.blk[u.blk[x].link].prev = x
                                                   /\ Class(u, u.blk[x].link) = Class(u, x)
      BY DEF Linked
    <2>1. x \in F /\ x # a /\ x \in DOMAIN t.blk
      BY <1>2
    <2>2. u.blk[x].prev = Null => u.frag[Class(u, x)] = x
      <3>1. CASE x = h.link
        BY <3>1, <2>1, <1>1, <1>2, <1>3 DEF Listed, Linked
      <3>2. CASE x # h.link
        BY <3>2, <2>1, <1>1, <1>2, <1>3, <1>6 DEF Listed, Linked
      <3> QED
        BY <3>1, <3>2
    <2>3. u.blk[x].prev # Null => u.blk[x].prev \in G /\ u.blk[u.blk[x].prev].link = x
      <3>1. CASE x = h.link
        BY <3>1, <2>1, <1>1, <1>2
      <3>2. CASE x # h.link
        <4>1. u.blk[x].prev = t.blk[x].prev
          BY <3>2, <2>1, <1>1
        <4>2. u.blk[x].prev # Null => u.blk[x].prev \in G /\ t.blk[t.blk[x].prev].link = x
          BY <4>1, <2>1, <1>2, <1>4, <3>2 DEF Listed, Linked
        <4>3. u.blk[x].prev # Null => t.blk[x].prev # h.prev
          BY <4>1, <4>2, <2>1, <1>2 DEF Listed, Linked
        <4> QED
          BY <4>1, <4>2, <4>3, <1>1, <1>2
      <3> QED
        BY <3>1, <3>2
    <2>4. u.blk[x].link # Null => /\ u.blk[x].link \in G
                                  /\ u.blk[u.blk[x].link].prev = x
                                  /\ Class(u, u.blk[x].link) = Class(u, x)
      <3>1. CASE x = h.prev
        <4>1. u.blk[x].link = h.link
          BY <3>1, <2>1, <1>1
        <4>2. Class(t, x) = Class(t, a)
          BY <3>1, <2>1, <1>2 DEF Listed, Linked
        <4>3. h.link # Null => h.link \in G /\ Class(t, h.link) = Class(t, a)
          BY <1>2 DEF Listed, Linked
        <4> QED
          BY <4>1, <4>2, <4>3, <3>1, <1>1, <1>2, <1>3
      <3>2. CASE x # h.prev
        <4>1. u.blk[x].link = t.blk[x].link
          BY <3>2, <2>1, <1>1
        <4>2. u.blk[x].link # Null => /\ u.blk[x].link \in G /\ t.blk[t.blk[x].link].prev = x
                                      /\ Class(t, t.blk[x].link) = Class(t, x)
          BY <4>1, <2>1, <1>2, <1>5, <3>2 DEF Listed, Linked
        <4>3. u.blk[x].link # Null => t.blk[x].link # h.link
          BY <4>1, <4>2, <2>1, <1>2 DEF Listed, Linked
        <4> QED
          BY <4>1, <4>2, <4>3, <2>1, <1>1, <1>2, <1>3
      <3> QED
        BY <3>1, <3>2
    <2> QED
      BY <2>2, <2>3, <2>4
  <1>11. NoRing(u, G)
    <2> SUFFICES ASSUME NEW S \in SUBSET G, S # {}, \A x \in S : u.blk[x].prev \in S
                 PROVE  FALSE
      BY DEF NoRing
    <2>1. CASE h.link \notin S
      <3>1. \A x \in S : t.blk[x].prev \in S
        BY <2>1, <1>1, <1>2
      <3> QED
        BY <3>1 DEF Listed, NoRing
    <2>2. CASE h.link \in S
      <3>1. S \cup {a} \in SUBSET F /\ S \cup {a} # {}
        OBVIOUS
      <3>2. \A x \in S \cup {a} : t.blk[x].prev \in S \cup {a}
        BY <2>2, <1>1, <1>2, <1>4 DEF Listed, Linked
      <3> QED
        BY <3>1, <3>2 DEF Listed, NoRing
    <2> QED
      BY <2>1, <2>2
  <1>12. Tiled(u)
    BY <1>1, TiledFrame DEF Alike, Rest
  <1>13. \A x \in DOMAIN t.blk : x \notin G => u.blk[x].link = t.blk[x].link /\ u.blk[x].prev = t.blk[x].prev
    <2>1. Null \notin DOMAIN t.blk
      BY NullNoBlock
    <2> QED
      BY <2>1, <1>1, <1>2
  <1>14. \A x \in DOMAIN t.blk : x \notin G => u.blk[x] = t.blk[x]
    <2> SUFFICES ASSUME NEW x \in DOMAIN t.blk, x \notin G PROVE u.blk[x] = t.blk[x]
      OBVIOUS
    <2>1. u.blk[x] \in BlockSet(u.max) /\ t.blk[x] \in BlockSet(t.max)
      BY <1>1 DEF IsTable
    <2> QED
      BY <2>1, <1>1, <1>13 DEF BlockSet, Alike
  <1> QED
    BY <1>2, <1>9, <1>10, <1>11, <1>12, <1>14, <1>1 DEF Listed

\* What set_fragment changes if the block is not a whole page: the head of its list.
LEMMA SetShape ==
    ASSUME NEW t, NEW F, IsTable(t), Tiled(t), Listed(t, F), NEW a \in DOMAIN t.blk, a \notin F,
           Capacity(t, a) # PAGEMAXSPARE, NEW u, u = SetFragment(t, a)
    PROVE  LET head == t.frag[Class(t, a)]
           IN  /\ IsTable(u) /\ Rest(t, u)
               /\ DOMAIN u.blk = DOMAIN t.blk
               /\ head = Null \/ head \in F
               /\ \A x \in DOMAIN t.blk :
                    /\ Alike(t, u, x)
                    /\ u.blk[x].link = IF x = a THEN head ELSE t.blk[x].link
                    /\ u.blk[x].prev = IF x = a THEN Null ELSE IF x = head THEN a ELSE t.blk[x].prev
               /\ \A i \in Classes : u.frag[i] = IF i = Class(t, a) THEN a ELSE t.frag[i]
  <1> DEFINE c == Class(t, a)
             head == t.frag[c]
             s == IF head # Null THEN [t EXCEPT !.blk[head].prev = a] ELSE t
             q == [s.blk[a] EXCEPT !.link = head, !.prev = Null]
             w == [s EXCEPT !.blk[a] = q]
  <1>1. c \in Classes
    BY ClassIn
  <1>2. head = Null \/ head \in F
    BY <1>1 DEF Listed, Heads
  <1>3. head \in Address(t.max) /\ a \in Address(t.max) /\ Null \in Address(t.max)
    BY <1>1, NullAddress DEF IsTable
  <1>4. F \subseteq DOMAIN t.blk /\ head # a /\ Null \notin DOMAIN t.blk
    BY <1>2, NullNoBlock DEF Listed
  <1>5. /\ IsTable(s) /\ Rest(t, s) /\ s.frag = t.frag /\ DOMAIN s.blk = DOMAIN t.blk
        /\ \A x \in DOMAIN t.blk : /\ Alike(t, s, x)
                                   /\ s.blk[x].link = t.blk[x].link
                                   /\ s.blk[x].prev = IF x = head THEN a ELSE t.blk[x].prev
    <2>1. CASE head = Null
      BY <2>1, <1>4 DEF Alike, Rest
    <2>2. CASE head # Null
      <3> DEFINE r == [t.blk[head] EXCEPT !.prev = a]
      <3>1. s = [t EXCEPT !.blk[head] = r]
        BY <2>2
      <3>2. t.blk[head] \in BlockSet(t.max) /\ head \in DOMAIN t.blk
        BY <2>2, <1>2, <1>4 DEF IsTable
      <3>3. /\ r \in BlockSet(t.max) /\ r.prev = a /\ r.link = t.blk[head].link
            /\ r.next = t.blk[head].next /\ r.size = t.blk[head].size /\ r.first = t.blk[head].first
            /\ r.len = t.blk[head].len /\ r.key = t.blk[head].key /\ r.val = t.blk[head].val
            /\ r.off = t.blk[head].off
        BY <3>2, <1>3 DEF BlockSet
      <3> HIDE DEF r, s
      <3>4. /\ IsTable(s) /\ Rest(t, s) /\ s.frag = t.frag /\ DOMAIN s.blk = DOMAIN t.blk
            /\ s.blk[head] = r /\ \A x \in DOMAIN t.blk : x # head => s.blk[x] = t.blk[x]
        BY <3>1, <3>2, <3>3, WithBlock
      <3> QED
        BY <3>3, <3>4 DEF Alike
    <2> QED
      BY <2>1, <2>2
  <1>6. u = [w EXCEPT !.frag[c] = a]
    BY DEF SetFragment
  <1> HIDE DEF s
  <1>7. s.blk[a] \in BlockSet(s.max) /\ s.max = t.max /\ head \in Address(s.max) /\ Null \in Address(s.max)
    BY <1>5, <1>3 DEF IsTable, Rest
  <1>8. /\ q \in BlockSet(s.max) /\ q.prev = Null /\ q.link = head
        /\ q.next = s.blk[a].next /\ q.size = s.blk[a].size /\ q.first = s.blk[a].first
        /\ q.len = s.blk[a].len /\ q.key = s.blk[a].key /\ q.val = s.blk[a].val
        /\ q.off = s.blk[a].off
    BY <1>7 DEF BlockSet
  <1> HIDE DEF q
  <1>9. /\ IsTable(w) /\ Rest(s, w) /\ w.frag = s.frag /\ DOMAIN w.blk = DOMAIN s.blk
        /\ w.blk[a] = q /\ \A x \in DOMAIN s.blk : x # a => w.blk[x] = s.blk[x]
    <2>1. IsTable(s) /\ a \in DOMAIN s.blk /\ q \in BlockSet(s.max)
      BY <1>5, <1>8
    <2> QED
      BY <2>1, WithBlock
  <1>99. w.max = t.max
    BY <1>9, <1>7 DEF Rest
  <1> HIDE DEF w
  <1>10. /\ IsTable(u) /\ Rest(w, u) /\ u.blk = w.blk
         /\ u.frag[c] = a /\ \A j \in Classes : j # c => u.frag[j] = w.frag[j]
    <2>1. a \in Address(w.max) /\ IsTable(w)
      BY <1>3, <1>99, <1>9
    <2> HIDE DEF c, head
    <2> QED
      BY <2>1, <1>1, <1>6 DEF IsTable, Rest
  <1>11. Rest(t, u)
    BY <1>5, <1>9, <1>10 DEF Rest
  <1>12. \A x \in DOMAIN t.blk :
           /\ Alike(t, u, x)
           /\ u.blk[x].link = IF x = a THEN head ELSE t.blk[x].link
           /\ u.blk[x].prev = IF x = a THEN Null ELSE IF x = head THEN a ELSE t.blk[x].prev
    BY <1>5, <1>8, <1>9, <1>10 DEF Alike
  <1> QED
    BY <1>1, <1>2, <1>5, <1>9, <1>10, <1>11, <1>12

\* set_fragment puts a block, and it alone, into the lists.
LEMMA SetListed ==
    ASSUME NEW t, NEW F, IsTable(t), Tiled(t), Listed(t, F), NEW a \in DOMAIN t.blk, a \notin F,
           Capacity(t, a) # PAGEMAXSPARE, NEW u, u = SetFragment(t, a)
    PROVE  /\ Listed(u, F \cup {a}) /\ Tiled(u)
           /\ \A x \in DOMAIN t.blk : x \notin F /\ x # a => u.blk[x] = t.blk[x]
  <1> DEFINE c == Class(t, a)
             head == t.frag[c]
             G == F \cup {a}
  <1>1. /\ IsTable(u) /\ Rest(t, u) /\ DOMAIN u.blk = DOMAIN t.blk
        /\ head = Null \/ head \in F
        /\ \A x \in DOMAIN t.blk :
             /\ Alike(t, u, x)
             /\ u.blk[x].link = IF x = a THEN head ELSE t.blk[x].link
             /\ u.blk[x].prev = IF x = a THEN Null ELSE IF x = head THEN a ELSE t.blk[x].prev
        /\ \A i \in Classes : u.frag[i] = IF i = c THEN a ELSE t.frag[i]
    BY SetShape
  <1>2. c \in Classes /\ Null \notin DOMAIN t.blk /\ a # Null /\ F \subseteq DOMAIN t.blk
    BY ClassIn, NullNoBlock DEF Listed
  <1>3. \A x \in DOMAIN t.blk : Class(u, x) = Class(t, x)
    BY <1>1, ClassAlike DEF Alike
  <1>4. \A x \in F : Class(t, x) \in Classes /\ x # a
    BY ListedFacts
  <1>5. head # Null => t.blk[head].prev = Null /\ Class(t, head) = c
    BY <1>2 DEF Listed, Heads
  <1>6. Heads(u, G)
    <2> SUFFICES ASSUME NEW i \in Classes, u.frag[i] # Null
                 PROVE  u.frag[i] \in G /\ Class(u, u.frag[i]) = i /\ u.blk[u.frag[i]].prev = Null
      BY DEF Heads
    <2>1. CASE i = c
      BY <2>1, <1>1, <1>3
    <2>2. CASE i # c
      <3>1. t.frag[i] \in F /\ Class(t, t.frag[i]) = i /\ t.blk[t.frag[i]].prev = Null
        BY <2>2, <1>1 DEF Listed, Heads
      <3>2. t.frag[i] # head /\ t.frag[i] # a
        BY <3>1, <2>2, <1>5, <1>2, <1>4
      <3> QED
        BY <3>1, <3>2, <2>2, <1>1, <1>2, <1>3
    <2> QED
      BY <2>1, <2>2
  <1>7. Linked(u, G)
    <2> SUFFICES ASSUME NEW x \in G
                 PROVE  /\ u.blk[x].prev = Null => u.frag[Class(u, x)] = x
                        /\ u.blk[x].prev # Null => u.blk[x].prev \in G /\ u.blk[u.blk[x].prev].link = x
                        /\ u.blk[x].link # Null => /\ u.blk[x].link \in G
                                                   /\ u.blk[u.blk[x].link].prev = x
                                                   /\ Class(u, u.blk[x].link) = Class(u, x)
      BY DEF Linked
    <2>1. CASE x = a
      BY <2>1, <1>1, <1>2, <1>3, <1>4, <1>5
    <2>2. CASE x # a /\ x = head
      <3>1. x \in F /\ u.blk[x].prev = a /\ u.blk[a].link = x /\ a \in G /\ x # Null
        BY <2>2, <1>1, <1>2
      <3>2. u.blk[x].link = t.blk[x].link /\ t.blk[x].link # a
        BY <2>2, <3>1, <1>1, <1>2, <1>4 DEF Listed, Linked
      <3>3. u.blk[x].link # Null => /\ u.blk[x].link \in F /\ t.blk[u.blk[x].link].prev = x
                                    /\ Class(t, u.blk[x].link) = Class(t, x)
        BY <3>1, <3>2 DEF Listed, Linked
      <3>4. u.blk[x].link # Null => u.blk[x].link # head
        BY <3>1, <3>3, <2>2, <1>5
      <3> QED
        BY <3>1, <3>2, <3>3, <3>4, <1>1, <1>2, <1>3
    <2>3. CASE x # a /\ x # head
      <3>1. /\ x \in F /\ x \in DOMAIN t.blk /\ u.blk[x].prev = t.blk[x].prev
            /\ u.blk[x].link = t.blk[x].link
        BY <2>3, <1>1, <1>2
      <3>2. t.blk[x].prev = Null => t.frag[Class(t, x)] = x /\ Class(t, x) # c
        BY <3>1, <2>3 DEF Listed, Linked
      <3>3. t.blk[x].prev # Null => t.blk[x].prev \in F /\ t.blk[t.blk[x].prev].link = x
        BY <3>1 DEF Listed, Linked
      <3>4. t.blk[x].link # Null => /\ t.blk[x].link \in F /\ t.blk[t.blk[x].link].prev = x
                                    /\ Class(t, t.blk[x].link) = Class(t, x)
        BY <3>1 DEF Listed, Linked
      <3>5. t.blk[x].link # Null => t.blk[x].link # head
        BY <3>1, <3>4, <1>5, <1>2
      <3> QED
        BY <3>1, <3>2, <3>3, <3>4, <3>5, <1>1, <1>2, <1>3, <1>4
    <2> QED
      BY <2>1, <2>2, <2>3
  <1>8. NoRing(u, G)
    <2> SUFFICES ASSUME NEW S \in SUBSET G, S # {}, \A x \in S : u.blk[x].prev \in S
                 PROVE  FALSE
      BY DEF NoRing
    <2>1. a \notin S
      BY <1>1, <1>2
    <2>2. head \notin S
      BY <2>1, <1>1, <1>2
    <2>3. S \in SUBSET F /\ \A x \in S : t.blk[x].prev \in S
      BY <2>1, <2>2, <1>1, <1>2
    <2> QED
      BY <2>3 DEF Listed, NoRing
  <1>9. Tiled(u)
    BY <1>1, TiledFrame DEF Alike, Rest
  <1>10. \A x \in DOMAIN t.blk : x \notin F /\ x # a => u.blk[x] = t.blk[x]
    <2> SUFFICES ASSUME NEW x \in DOMAIN t.blk, x \notin F, x # a PROVE u.blk[x] = t.blk[x]
      OBVIOUS
    <2>1. u.blk[x] \in BlockSet(u.max) /\ t.blk[x] \in BlockSet(t.max)
      BY <1>1 DEF IsTable
    <2>2. u.blk[x].link = t.blk[x].link /\ u.blk[x].prev = t.blk[x].prev
      BY <1>1, <1>2
    <2> QED
      BY <2>1, <2>2, <1>1 DEF BlockSet, Alike
  <1> QED
    BY <1>1, <1>2, <1>6, <1>7, <1>8, <1>9, <1>10 DEF Listed

-------------------------------------------------------------------------------
(* Blocks of a page *)

\* A table without one of its blocks.
LEMMA EraseShape ==
    ASSUME NEW t, IsTable(t), NEW a, NEW u, u = Erase(t, a)
    PROVE  /\ IsTable(u) /\ Rest(t, u) /\ u.frag = t.frag
           /\ DOMAIN u.blk = DOMAIN t.blk \ {a}
           /\ \A x \in DOMAIN u.blk : u.blk[x] = t.blk[x]
  <1> DEFINE B == Restrict(t.blk, DOMAIN t.blk \ {a})
  <1>1. /\ DOMAIN B = DOMAIN t.blk \ {a} /\ \A x \in DOMAIN B : B[x] = t.blk[x]
        /\ DOMAIN B \subseteq Address(t.max) /\ B \in [DOMAIN B -> BlockSet(t.max)]
    BY DEF Restrict, IsTable
  <1>2. u = [t EXCEPT !.blk = B]
    BY DEF Erase
  <1> HIDE DEF B
  <1> QED
    BY <1>1, <1>2, WithBlocks

\* A table with one more block.
LEMMA AddShape ==
    ASSUME NEW t, IsTable(t), NEW a \in Address(t.max), NEW r \in BlockSet(t.max),
           NEW u, u = Add(t, a, r)
    PROVE  /\ IsTable(u) /\ Rest(t, u) /\ u.frag = t.frag
           /\ DOMAIN u.blk = DOMAIN t.blk \cup {a}
           /\ u.blk[a] = r
           /\ \A x \in DOMAIN t.blk : x # a => u.blk[x] = t.blk[x]
  <1> DEFINE B == [x \in DOMAIN t.blk \cup {a} |-> IF x = a THEN r ELSE t.blk[x]]
  <1>1. /\ DOMAIN B = DOMAIN t.blk \cup {a} /\ B[a] = r
        /\ \A x \in DOMAIN t.blk : x # a => B[x] = t.blk[x]
        /\ DOMAIN B \subseteq Address(t.max) /\ B \in [DOMAIN B -> BlockSet(t.max)]
    BY DEF IsTable
  <1>2. u = [t EXCEPT !.blk = B]
    BY DEF Add
  <1> HIDE DEF B
  <1> QED
    BY <1>1, <1>2, WithBlocks

\* The header of a new free block is one.
LEMMA BlankBlock ==
    ASSUME NEW m \in Nat, NEW end \in 1..PAGEUSED
    PROVE  Blank(end) \in BlockSet(m)
  BY Bytes, NullAddress DEF Blank, BlockSet

\* At most one block lies before a block in its page.
LEMMA PredUnique ==
    ASSUME NEW t, IsTable(t), Tiled(t), NEW a \in DOMAIN t.blk, NEW x \in DOMAIN t.blk,
           NextHead(t, x) = NextHead(t, a)
    PROVE  x = a
  <1>1. /\ x[1] = a[1] /\ t.blk[x].next = t.blk[a].next
    BY DEF NextHead
  <1>2. /\ x = <<x[1], x[2]>> /\ a = <<a[1], a[2]>> /\ x[2] \in Nat /\ a[2] \in Nat
        /\ x[2] + 16 <= t.blk[x].next /\ a[2] + 16 <= t.blk[a].next
        /\ t.blk[x].next \in Nat /\ t.blk[a].next \in Nat
    BY Pages
  <1>3. ~(x[2] < a[2]) /\ ~(a[2] < x[2])
    BY <1>1, <1>2 DEF Tiled, Tiles
  <1> QED
    BY <1>1, <1>2, <1>3

\* The next block lies in the same page, further on.
LEMMA NextHeads ==
    ASSUME NEW t, IsTable(t), Tiled(t), NEW a \in DOMAIN t.blk, NEW b \in DOMAIN t.blk,
           NextHead(t, a) = b
    PROVE  b[1] = a[1] /\ b[2] = t.blk[a].next /\ b # a /\ b[2] > a[2]
  <1>1. b[1] = a[1] /\ b[2] = t.blk[a].next
    BY DEF NextHead
  <1>2. a[2] + 16 <= t.blk[a].next /\ t.blk[a].next \in Nat /\ a[2] \in Nat
    BY Pages
  <1> QED
    BY <1>1, <1>2

\* A block with all the space of a page is the only one of its page.
LEMMA PageAlone ==
    ASSUME NEW t, IsTable(t), Tiled(t), NEW a \in DOMAIN t.blk, Capacity(t, a) = PAGEMAXSPARE
    PROVE  /\ a[2] = 0 /\ t.blk[a].next = PAGEUSED
           /\ \A x \in DOMAIN t.blk : x[1] = a[1] => x = a
  <1>1. a[2] = 0 /\ t.blk[a].next = PAGEUSED
    BY Pages, Bytes DEF Capacity
  <1>2. ASSUME NEW x \in DOMAIN t.blk, x[1] = a[1] PROVE x = a
    <2>1. x = <<x[1], x[2]>> /\ a = <<a[1], a[2]>> /\ x[2] \in Nat
      BY Pages
    <2>2. CASE x[2] = 0
      BY <2>1, <2>2, <1>1, <1>2
    <2>3. CASE x[2] > 0
      <3>1. x[2] >= PAGEUSED
        BY <2>3, <1>1, <1>2 DEF Tiled, Tiles
      <3>2. x[2] + 16 <= t.blk[x].next /\ t.blk[x].next <= PAGEUSED /\ t.blk[x].next \in Nat
        BY Pages, Bytes
      <3> QED
        BY <3>1, <3>2, <2>1, Bytes
    <2> QED
      BY <2>1, <2>2, <2>3
  <1> QED
    BY <1>1, <1>2

\* set_fragment gives a whole page back to the free pages.
LEMMA SetPage ==
    ASSUME NEW t, NEW F, IsTable(t), Tiled(t), Listed(t, F), NEW a \in DOMAIN t.blk, a \notin F,
           Capacity(t, a) = PAGEMAXSPARE, NEW u, u = SetFragment(t, a)
    PROVE  /\ IsTable(u) /\ Tiled(u) /\ Listed(u, F)
           /\ u.index = t.index /\ u.at = t.at /\ u.max = t.max
           /\ DOMAIN u.blk = DOMAIN t.blk \ {a}
           /\ \A x \in DOMAIN u.blk : u.blk[x] = t.blk[x]
  <1> DEFINE s == Erase(t, a)
  <1>1. /\ IsTable(s) /\ Rest(t, s) /\ s.frag = t.frag
        /\ DOMAIN s.blk = DOMAIN t.blk \ {a}
        /\ \A x \in DOMAIN s.blk : s.blk[x] = t.blk[x]
    BY EraseShape
  <1>2. u = [s EXCEPT !.free = <<a[1]>> \o s.free]
    BY DEF SetFragment
  <1> HIDE DEF s
  <1>3. a[1] \in 1..t.max /\ (\A i \in DOMAIN t.free : t.free[i] # a[1]) /\ t.free \in Seq(1..t.max)
    BY Pages DEF IsTable
  <1>4. /\ u.blk = s.blk /\ u.frag = s.frag /\ u.max = s.max /\ u.index = s.index /\ u.at = s.at
        /\ u.free = <<a[1]>> \o t.free
    BY <1>1, <1>2 DEF IsTable, Rest
  <1>5. u.free \in Seq(1..t.max)
    BY <1>3, <1>4
  <1>6. IsTable(u)
    <2>1. u = [blk |-> u.blk, frag |-> u.frag, free |-> u.free, max |-> u.max, index |-> u.index, at |-> u.at]
      BY <1>1, <1>2 DEF IsTable
    <2> QED
      BY <2>1, <1>1, <1>4, <1>5 DEF IsTable, Rest
  <1>7. /\ u.max = t.max /\ u.index = t.index /\ u.at = t.at /\ u.frag = t.frag
        /\ DOMAIN u.blk = DOMAIN t.blk \ {a}
        /\ \A x \in DOMAIN u.blk : u.blk[x] = t.blk[x]
    BY <1>1, <1>4 DEF Rest
  <1>8. \A x \in DOMAIN t.blk : x[1] = a[1] => x = a
    BY PageAlone
  <1>9. PagesUsed(u)
    <2>1. /\ \A i \in DOMAIN u.free : u.free[i] = a[1] \/ \E j \in DOMAIN t.free : u.free[i] = t.free[j]
          /\ \A j \in DOMAIN t.free : \E i \in DOMAIN u.free : u.free[i] = t.free[j]
          /\ \E i \in DOMAIN u.free : u.free[i] = a[1]
          /\ \A i, j \in DOMAIN u.free : u.free[i] = u.free[j] => i = j
      <3>1. Len(u.free) = Len(t.free) + 1 /\ Len(t.free) \in Nat
        BY <1>3, <1>4
      <3>2. u.free[1] = a[1] /\ \A i \in 1..Len(t.free) : u.free[i + 1] = t.free[i]
        BY <1>3, <1>4
      <3>3. DOMAIN u.free = 1..(Len(t.free) + 1) /\ DOMAIN t.free = 1..Len(t.free)
        BY <3>1, <1>3, <1>5
      <3>4. \A i \in DOMAIN u.free : i = 1 \/ (i - 1 \in DOMAIN t.free /\ u.free[i] = t.free[i - 1])
        BY <3>1, <3>2, <3>3
      <3>5. \A j \in DOMAIN t.free : j + 1 \in DOMAIN u.free /\ u.free[j + 1] = t.free[j]
        BY <3>1, <3>2, <3>3
      <3>6. \A i, j \in DOMAIN t.free : t.free[i] = t.free[j] => i = j
        BY DEF Tiled, PagesUsed
      <3>7. ASSUME NEW i \in DOMAIN u.free, NEW j \in DOMAIN u.free, u.free[i] = u.free[j] PROVE i = j
        <4>1. i \in Nat /\ j \in Nat
          BY <3>3
        <4>2. CASE i = 1 \/ j = 1
          BY <4>1, <4>2, <3>2, <3>4, <3>7, <1>3
        <4>3. CASE i # 1 /\ j # 1
          <5>1. i - 1 = j - 1
            BY <4>3, <3>4, <3>6, <3>7
          <5> QED
            BY <5>1, <4>1
        <4> QED
          BY <4>2, <4>3
      <3>8. 1 \in DOMAIN u.free
        BY <3>1, <3>3
      <3> QED
        BY <3>2, <3>4, <3>5, <3>7, <3>8
    <2>2. {x[1] : x \in DOMAIN u.blk} = {x[1] : x \in DOMAIN t.blk} \ {a[1]}
      BY <1>7, <1>8
    <2>3. {u.free[i] : i \in DOMAIN u.free} = {t.free[i] : i \in DOMAIN t.free} \cup {a[1]}
      BY <2>1
    <2>4. {x[1] : x \in DOMAIN t.blk} = (1..t.max) \ {t.free[i] : i \in DOMAIN t.free}
      BY DEF Tiled, PagesUsed
    <2>5. {x[1] : x \in DOMAIN u.blk} = (1..u.max) \ {u.free[i] : i \in DOMAIN u.free}
      BY <2>2, <2>3, <2>4, <1>7
    <2> QED
      BY <2>1, <2>5 DEF PagesUsed
  <1>10. Tiles(u)
    <2>1. \A x \in DOMAIN u.blk : /\ Capacity(u, x) = Capacity(t, x) /\ NextHead(u, x) = NextHead(t, x)
                                 /\ NextHead(t, x)[1] = x[1] /\ x[1] # a[1] /\ x \in DOMAIN t.blk
      BY <1>7, <1>8 DEF Capacity, NextHead
    <2>2. \A x \in DOMAIN u.blk : NextHead(t, x) # a
      BY <2>1
    <2>3. \A x \in DOMAIN u.blk : NextHead(t, a) # x
      BY <2>1 DEF NextHead
    <2> QED
      BY <2>1, <2>2, <2>3, <1>7 DEF Tiled, Tiles
  <1>11. Listed(u, F)
    BY <1>7, ListedFrame DEF Listed
  <1> QED
    BY <1>6, <1>7, <1>9, <1>10, <1>11 DEF Tiled

\* The pages in use depend on the pages that blocks lie in only.
LEMMA PagesFrame ==
    ASSUME NEW t, NEW u, Tiled(t), u.max = t.max, u.free = t.free,
           {x[1] : x \in DOMAIN u.blk} = {x[1] : x \in DOMAIN t.blk}
    PROVE  PagesUsed(u)
  <1>1. {u.free[i] : i \in DOMAIN u.free} = {t.free[i] : i \in DOMAIN t.free}
    OBVIOUS
  <1>2. {x[1] : x \in DOMAIN t.blk} = (1..t.max) \ {t.free[i] : i \in DOMAIN t.free}
    BY DEF Tiled, PagesUsed
  <1>3. \A i, j \in DOMAIN u.free : u.free[i] = u.free[j] => i = j
    BY DEF Tiled, PagesUsed
  <1>4. {x[1] : x \in DOMAIN u.blk} = (1..u.max) \ {u.free[i] : i \in DOMAIN u.free}
    BY <1>1, <1>2
  <1> QED
    BY <1>3, <1>4 DEF PagesUsed

\* What joining a block with the next one changes.
LEMMA JoinShape ==
    ASSUME NEW t, IsTable(t), NEW a \in DOMAIN t.blk, NEW b \in DOMAIN t.blk, a # b,
           NEW u, u = Join(t, a, b)
    PROVE  /\ IsTable(u) /\ Rest(t, u) /\ u.frag = t.frag
           /\ DOMAIN u.blk = DOMAIN t.blk \ {b}
           /\ u.blk[a].next = t.blk[b].next
           /\ u.blk[a].prev = t.blk[a].prev
           /\ Keeps(t, u, a)
           /\ \A x \in DOMAIN u.blk : x # a => u.blk[x] = t.blk[x]
  <1> DEFINE s == Erase(t, b)
             r == [s.blk[a] EXCEPT !.next = t.blk[b].next]
  <1>1. /\ IsTable(s) /\ Rest(t, s) /\ s.frag = t.frag
        /\ DOMAIN s.blk = DOMAIN t.blk \ {b}
        /\ \A x \in DOMAIN s.blk : s.blk[x] = t.blk[x]
    BY EraseShape
  <1>2. u = [s EXCEPT !.blk[a] = r]
    BY DEF Join
  <1> HIDE DEF s
  <1>3. s.blk[a] \in BlockSet(s.max) /\ t.blk[b].next \in 1..PAGEUSED /\ s.blk[a] = t.blk[a]
        /\ a \in DOMAIN s.blk
    BY <1>1 DEF IsTable, BlockSet
  <1>4. /\ r \in BlockSet(s.max) /\ r.next = t.blk[b].next /\ r.prev = t.blk[a].prev
        /\ r.link = t.blk[a].link /\ r.size = t.blk[a].size /\ r.first = t.blk[a].first
        /\ r.len = t.blk[a].len /\ r.key = t.blk[a].key /\ r.val = t.blk[a].val
        /\ r.off = t.blk[a].off
    BY <1>3 DEF BlockSet
  <1> HIDE DEF r
  <1>5. /\ IsTable(u) /\ Rest(s, u) /\ u.frag = s.frag /\ DOMAIN u.blk = DOMAIN s.blk
        /\ u.blk[a] = r /\ \A x \in DOMAIN s.blk : x # a => u.blk[x] = s.blk[x]
    BY <1>1, <1>2, <1>3, <1>4, WithBlock
  <1> QED
    BY <1>1, <1>3, <1>4, <1>5 DEF Rest, Keeps

\* A page stays divided when two blocks that lie side by side are joined.
LEMMA JoinTiled ==
    ASSUME NEW t, IsTable(t), Tiled(t), NEW a \in DOMAIN t.blk, NEW b \in DOMAIN t.blk,
           NextHead(t, a) = b, NEW u, u = Join(t, a, b)
    PROVE  Tiled(u)
  <1>1. b[1] = a[1] /\ b[2] = t.blk[a].next /\ b # a /\ b[2] > a[2]
    BY NextHeads
  <1>2. /\ IsTable(u) /\ Rest(t, u) /\ DOMAIN u.blk = DOMAIN t.blk \ {b}
        /\ u.blk[a].next = t.blk[b].next /\ u.blk[a].size = t.blk[a].size
        /\ \A x \in DOMAIN u.blk : x # a => u.blk[x] = t.blk[x]
    BY <1>1, JoinShape DEF Keeps
  <1>3. \A x \in DOMAIN t.blk :
           /\ x = <<x[1], x[2]>> /\ x[2] \in Nat /\ t.blk[x].next \in Nat
           /\ x[2] + 16 <= t.blk[x].next /\ t.blk[x].next <= PAGEUSED
    BY Pages, Bytes
  <1>4. PagesUsed(u)
    <2>1. {x[1] : x \in DOMAIN u.blk} = {x[1] : x \in DOMAIN t.blk}
      BY <1>1, <1>2
    <2>2. u.max = t.max /\ u.free = t.free
      BY <1>2 DEF Rest
    <2> QED
      BY <2>1, <2>2, PagesFrame
  <1>5. \A x \in DOMAIN t.blk : NextHead(t, x) = b => x = a
    BY PredUnique
  <1>6. /\ NextHead(u, a) = NextHead(t, b)
        /\ \A x \in DOMAIN u.blk : x # a => NextHead(u, x) = NextHead(t, x) /\ Capacity(u, x) = Capacity(t, x)
        /\ Capacity(u, a) >= Capacity(t, a)
        /\ t.blk[b].next > t.blk[a].next
    BY <1>1, <1>2, <1>3, Bytes DEF NextHead, Capacity
  <1>7. ASSUME NEW x \in DOMAIN u.blk
        PROVE  /\ x[2] % 16 = 0
               /\ u.blk[x].next - x[2] >= FRAGHDR
               /\ u.blk[x].size <= Capacity(u, x)
    <2>1. CASE x = a
      <3>1. /\ a[2] % 16 = 0 /\ t.blk[a].next - a[2] >= FRAGHDR /\ t.blk[a].size <= Capacity(t, a)
            /\ t.blk[a].size \in Nat /\ Capacity(t, a) \in Nat
        BY ClassIn DEF Tiled, Tiles
      <3>2. u.blk[a].next \in Nat /\ Capacity(u, a) \in Int
        BY <1>2, <1>3, Bytes DEF Capacity
      <3> QED
        BY <2>1, <3>1, <3>2, <1>2, <1>3, <1>6, Bytes
    <2>2. CASE x # a
      BY <2>2, <1>2, <1>6 DEF Tiled, Tiles
    <2> QED
      BY <2>1, <2>2
  <1>8. ASSUME NEW x \in DOMAIN u.blk
        PROVE  u.blk[x].next = PAGEUSED \/ NextHead(u, x) \in DOMAIN u.blk
    <2>1. CASE x = a
      <3>1. t.blk[b].next = PAGEUSED \/ NextHead(t, b) \in DOMAIN t.blk
        BY DEF Tiled, Tiles
      <3>2. NextHead(t, b) \in DOMAIN t.blk => NextHead(t, b) # b
        BY NextHeads
      <3> QED
        BY <2>1, <3>1, <3>2, <1>2, <1>6
    <2>2. CASE x # a
      BY <2>2, <1>2, <1>5, <1>6 DEF Tiled, Tiles
    <2> QED
      BY <2>1, <2>2
  <1>9. ASSUME NEW x \in DOMAIN u.blk
        PROVE  x[2] = 0 \/ \E y \in DOMAIN u.blk : NextHead(u, y) = x
    <2>1. x \in DOMAIN t.blk /\ x # b
      BY <1>2
    <2>2. SUFFICES ASSUME x[2] # 0 PROVE \E y \in DOMAIN u.blk : NextHead(u, y) = x
      OBVIOUS
    <2>3. PICK y \in DOMAIN t.blk : NextHead(t, y) = x
      BY <2>1, <2>2 DEF Tiled, Tiles
    <2>4. CASE y = b
      BY <2>3, <2>4, <1>1, <1>2, <1>6
    <2>5. CASE y # b
      BY <2>1, <2>3, <2>5, <1>2, <1>6
    <2> QED
      BY <2>4, <2>5
  <1>10. ASSUME NEW x \in DOMAIN u.blk, NEW y \in DOMAIN u.blk, y[1] = x[1], y[2] > x[2]
         PROVE  y[2] >= u.blk[x].next
    <2>1. y[2] >= t.blk[x].next
      BY <1>2, <1>10 DEF Tiled, Tiles
    <2>2. CASE x # a
      BY <2>1, <2>2, <1>2
    <2>3. CASE x = a
      <3>1. y[2] # b[2]
        BY <1>1, <1>2, <1>3, <1>10, <2>3
      <3>2. y[2] > b[2] /\ y[1] = b[1]
        BY <2>1, <2>3, <3>1, <1>1, <1>2, <1>3, <1>10
      <3>3. y[2] >= t.blk[b].next
        BY <3>2, <1>2 DEF Tiled, Tiles
      <3> QED
        BY <3>3, <2>3, <1>2
    <2> QED
      BY <2>2, <2>3
  <1>11. Tiles(u)
    BY <1>7, <1>8, <1>9, <1>10 DEF Tiles
  <1> QED
    BY <1>4, <1>11 DEF Tiled

\* What cutting a block in two changes.
LEMMA CutShape ==
    ASSUME NEW t, IsTable(t), NEW a \in DOMAIN t.blk, NEW b \in Address(t.max), b \notin DOMAIN t.blk,
           b[2] \in 1..PAGEUSED, NEW u, u = Cut(t, a, b)
    PROVE  /\ IsTable(u) /\ Rest(t, u) /\ u.frag = t.frag
           /\ DOMAIN u.blk = DOMAIN t.blk \cup {b}
           /\ u.blk[a].next = b[2] /\ u.blk[a].prev = t.blk[a].prev /\ Keeps(t, u, a)
           /\ u.blk[b] = Blank(t.blk[a].next)
           /\ \A x \in DOMAIN t.blk : x # a => u.blk[x] = t.blk[x]
  <1> DEFINE r == [t.blk[a] EXCEPT !.next = b[2]]
             s == [t EXCEPT !.blk[a] = r]
  <1>1. t.blk[a] \in BlockSet(t.max)
    BY DEF IsTable
  <1>2. /\ r \in BlockSet(t.max) /\ r.next = b[2] /\ r.prev = t.blk[a].prev
        /\ r.link = t.blk[a].link /\ r.size = t.blk[a].size /\ r.first = t.blk[a].first
        /\ r.len = t.blk[a].len /\ r.key = t.blk[a].key /\ r.val = t.blk[a].val
        /\ r.off = t.blk[a].off
    BY <1>1 DEF BlockSet
  <1>3. u = Add(s, b, Blank(t.blk[a].next))
    BY DEF Cut
  <1> HIDE DEF r
  <1>4. /\ IsTable(s) /\ Rest(t, s) /\ s.frag = t.frag /\ DOMAIN s.blk = DOMAIN t.blk
        /\ s.blk[a] = r /\ \A x \in DOMAIN t.blk : x # a => s.blk[x] = t.blk[x]
    BY <1>2, WithBlock
  <1> HIDE DEF s
  <1>5. Blank(t.blk[a].next) \in BlockSet(s.max) /\ b \in Address(s.max)
    <2>1. s.max = t.max /\ t.max \in Nat /\ t.blk[a].next \in 1..PAGEUSED
      BY <1>1, <1>4 DEF Rest, IsTable, BlockSet
    <2> QED
      BY <2>1, BlankBlock
  <1>6. /\ IsTable(u) /\ Rest(s, u) /\ u.frag = s.frag
        /\ DOMAIN u.blk = DOMAIN s.blk \cup {b}
        /\ u.blk[b] = Blank(t.blk[a].next)
        /\ \A x \in DOMAIN s.blk : x # b => u.blk[x] = s.blk[x]
    BY <1>3, <1>4, <1>5, AddShape
  <1> QED
    BY <1>2, <1>4, <1>6 DEF Rest, Keeps

\* The free pages after one was taken.
LEMMA TailFacts ==
    ASSUME NEW S, NEW s \in Seq(S), s # <<>>
    PROVE  /\ Tail(s) \in Seq(S) /\ Len(Tail(s)) = Len(s) - 1
           /\ DOMAIN Tail(s) = 1..(Len(s) - 1)
           /\ \A i \in 1..(Len(s) - 1) : Tail(s)[i] = s[i + 1]
  <1>1. Tail(s) \in Seq(S) /\ Len(Tail(s)) = Len(s) - 1
    OBVIOUS
  <1>2. DOMAIN Tail(s) = 1..(Len(s) - 1)
    BY <1>1
  <1>3. ASSUME NEW i \in 1..(Len(s) - 1) PROVE Tail(s)[i] = s[i + 1]
    BY <1>1
  <1> QED
    BY <1>1, <1>2, <1>3

\* A page stays divided when a block is cut in two, each half long enough.
LEMMA CutTiled ==
    ASSUME NEW t, IsTable(t), Tiled(t), NEW a \in DOMAIN t.blk, NEW b,
           b = <<a[1], b[2]>>, b[2] \in Nat, b[2] % 16 = 0, a[2] + 16 <= b[2],
           b[2] + 16 <= t.blk[a].next, t.blk[a].size + a[2] + 12 <= b[2],
           NEW u, u = Cut(t, a, b)
    PROVE  /\ b \in Address(t.max) /\ b \notin DOMAIN t.blk /\ b[2] \in 1..PAGEUSED
           /\ Tiled(u)
  <1>1. \A x \in DOMAIN t.blk :
           /\ x = <<x[1], x[2]>> /\ x[2] \in Nat /\ t.blk[x].next \in Nat
           /\ x[2] + 16 <= t.blk[x].next /\ t.blk[x].next <= PAGEUSED
    BY Pages, Bytes
  <1>2. b[1] = a[1] /\ b[2] \in 1..PAGEUSED /\ b \in Address(t.max)
    <2>1. b[1] = a[1] /\ a[1] \in 0..t.max
      BY Pages
    <2>2. b[2] \in 1..PAGEUSED
      BY <1>1, Bytes
    <2> QED
      BY <2>1, <2>2 DEF Address
  <1>3. b \notin DOMAIN t.blk
    <2> SUFFICES ASSUME b \in DOMAIN t.blk PROVE FALSE
      OBVIOUS
    <2>1. b[2] > a[2]
      BY <1>1, <1>2
    <2>2. b[2] >= t.blk[a].next
      BY <1>2, <2>1 DEF Tiled, Tiles
    <2> QED
      BY <2>2, <1>1, <1>2
  <1>4. /\ IsTable(u) /\ Rest(t, u)
        /\ DOMAIN u.blk = DOMAIN t.blk \cup {b}
        /\ u.blk[a].next = b[2] /\ u.blk[a].size = t.blk[a].size
        /\ u.blk[b] = Blank(t.blk[a].next)
        /\ \A x \in DOMAIN t.blk : x # a => u.blk[x] = t.blk[x]
    BY <1>2, <1>3, CutShape DEF Keeps
  <1>5. u.blk[b].next = t.blk[a].next /\ u.blk[b].size = 0
    BY <1>4 DEF Blank
  <1>6. PagesUsed(u)
    <2>1. {x[1] : x \in DOMAIN u.blk} = {x[1] : x \in DOMAIN t.blk}
      BY <1>2, <1>4
    <2>2. u.max = t.max /\ u.free = t.free
      BY <1>4 DEF Rest
    <2> QED
      BY <2>1, <2>2, PagesFrame
  <1>7. /\ NextHead(u, a) = b /\ NextHead(u, b) = NextHead(t, a)
        /\ Capacity(u, a) = b[2] - a[2] - 12
        /\ Capacity(u, b) = t.blk[a].next - b[2] - 12
        /\ \A x \in DOMAIN t.blk : x # a => NextHead(u, x) = NextHead(t, x) /\ Capacity(u, x) = Capacity(t, x)
    BY <1>2, <1>4, <1>5, Bytes DEF NextHead, Capacity
  <1>8. a \in DOMAIN u.blk /\ b \in DOMAIN u.blk /\ a # b
    BY <1>3, <1>4
  <1>9. t.blk[a].size \in Nat
    BY ClassIn
  <1>10. ASSUME NEW x \in DOMAIN u.blk
         PROVE  /\ x[2] % 16 = 0
                /\ u.blk[x].next - x[2] >= FRAGHDR
                /\ u.blk[x].size <= Capacity(u, x)
    <2>1. CASE x = a
      <3>1. a[2] % 16 = 0
        BY DEF Tiled, Tiles
      <3> QED
        BY <2>1, <3>1, <1>1, <1>2, <1>4, <1>7, <1>9, Bytes
    <2>2. CASE x = b
      BY <2>2, <1>1, <1>2, <1>5, <1>7, Bytes
    <2>3. CASE x # a /\ x # b
      BY <2>3, <1>4, <1>7 DEF Tiled, Tiles
    <2> QED
      BY <2>1, <2>2, <2>3
  <1>11. ASSUME NEW x \in DOMAIN u.blk
         PROVE  u.blk[x].next = PAGEUSED \/ NextHead(u, x) \in DOMAIN u.blk
    <2>1. CASE x = a
      BY <2>1, <1>7, <1>8
    <2>2. CASE x = b
      BY <2>2, <1>4, <1>5, <1>7 DEF Tiled, Tiles
    <2>3. CASE x # a /\ x # b
      BY <2>3, <1>4, <1>7 DEF Tiled, Tiles
    <2> QED
      BY <2>1, <2>2, <2>3
  <1>12. ASSUME NEW x \in DOMAIN u.blk
         PROVE  x[2] = 0 \/ \E y \in DOMAIN u.blk : NextHead(u, y) = x
    <2>1. CASE x = b
      BY <2>1, <1>7, <1>8
    <2>2. CASE x # b
      <3>1. x \in DOMAIN t.blk
        BY <2>2, <1>4
      <3>2. SUFFICES ASSUME x[2] # 0 PROVE \E y \in DOMAIN u.blk : NextHead(u, y) = x
        OBVIOUS
      <3>3. PICK y \in DOMAIN t.blk : NextHead(t, y) = x
        BY <3>1, <3>2 DEF Tiled, Tiles
      <3>4. CASE y = a
        BY <3>3, <3>4, <1>7, <1>8
      <3>5. CASE y # a
        BY <3>3, <3>5, <1>4, <1>7
      <3> QED
        BY <3>4, <3>5
    <2> QED
      BY <2>1, <2>2
  <1>13. ASSUME NEW x \in DOMAIN u.blk, NEW y \in DOMAIN u.blk, y[1] = x[1], y[2] > x[2]
         PROVE  y[2] >= u.blk[x].next
    <2>1. CASE x = a /\ y = b
      BY <2>1, <1>4, <1>2
    <2>2. CASE x = a /\ y # b
      <3>1. y \in DOMAIN t.blk /\ y[2] >= t.blk[a].next
        BY <2>2, <1>4, <1>13 DEF Tiled, Tiles
      <3> QED
        BY <2>2, <3>1, <1>1, <1>2, <1>4
    <2>3. CASE x = b
      <3>1. y # b
        BY <2>3, <1>2, <1>13
      <3>2. y \in DOMAIN t.blk /\ y[1] = a[1] /\ y[2] > a[2]
        BY <2>3, <3>1, <1>1, <1>2, <1>4, <1>13
      <3>3. y[2] >= t.blk[a].next
        BY <3>2 DEF Tiled, Tiles
      <3> QED
        BY <2>3, <3>3, <1>5
    <2>4. CASE x # a /\ x # b /\ y = b
      <3>1. x \in DOMAIN t.blk /\ x[1] = a[1]
        BY <2>4, <1>2, <1>4, <1>13
      <3>2. x[2] < t.blk[a].next
        BY <2>4, <3>1, <1>1, <1>2, <1>13
      <3>3. x[2] <= a[2]
        <4>1. x[2] > a[2] => x[2] >= t.blk[a].next
          BY <3>1 DEF Tiled, Tiles
        <4> QED
          BY <4>1, <3>1, <3>2, <1>1
      <3>4. x[2] # a[2]
        BY <3>1, <2>4, <1>1
      <3>5. a[2] >= t.blk[x].next
        <4>1. a[1] = x[1] /\ a[2] > x[2]
          BY <3>1, <3>3, <3>4, <1>1
        <4> QED
          BY <3>1, <4>1 DEF Tiled, Tiles
      <3> QED
        BY <3>1, <3>5, <2>4, <1>1, <1>2, <1>4
    <2>5. CASE x # a /\ x # b /\ y # b
      BY <2>5, <1>4, <1>13 DEF Tiled, Tiles
    <2> QED
      BY <2>1, <2>2, <2>3, <2>4, <2>5
  <1>14. Tiles(u)
    BY <1>10, <1>11, <1>12, <1>13 DEF Tiles
  <1> QED
    BY <1>2, <1>3, <1>6, <1>14 DEF Tiled

\* The block of a new page, and the table with it
NewHead(t) == <<IF t.free = <<>> THEN t.max + 1 ELSE Head(t.free), 0>>

NewPage(t, new) == [Add(t, new, Blank(PAGEUSED)) EXCEPT
                       !.at = new, !.max = IF t.free = <<>> THEN @ + 1 ELSE @,
                       !.free = IF @ = <<>> THEN @ ELSE Tail(@)]

\* __alloc_data_head's new page becomes one free block.
LEMMA NewPageShape ==
    ASSUME NEW t, IsTable(t), Tiled(t), NEW new, new = NewHead(t), NEW u, u = NewPage(t, new)
    PROVE  /\ IsTable(u) /\ Tiled(u)
           /\ u.frag = t.frag /\ u.index = t.index /\ u.at = new
           /\ new \notin DOMAIN t.blk /\ DOMAIN u.blk = DOMAIN t.blk \cup {new}
           /\ u.blk[new] = Blank(PAGEUSED)
           /\ \A x \in DOMAIN t.blk : u.blk[x] = t.blk[x]
           /\ \A x \in DOMAIN t.blk : x[1] # new[1]
           /\ new # Null
  <1> DEFINE p == new[1]
             m == IF t.free = <<>> THEN t.max + 1 ELSE t.max
             f == IF t.free = <<>> THEN t.free ELSE Tail(t.free)
             B == [x \in DOMAIN t.blk \cup {new} |-> IF x = new THEN Blank(PAGEUSED) ELSE t.blk[x]]
  <1>1. u = [t EXCEPT !.blk = B, !.at = new, !.max = m, !.free = f]
    BY DEF NewPage, Add, IsTable
  <1>2. t.max \in Nat /\ m \in Nat /\ t.max <= m /\ t.free \in Seq(1..t.max)
    BY DEF IsTable
  <1>3. /\ p \in 1..m
        /\ new = <<p, 0>> /\ new \in Address(m) /\ new # Null
        /\ \A x \in DOMAIN t.blk : x[1] # p
        /\ (1..m) \ {f[i] : i \in DOMAIN f} = ((1..t.max) \ {t.free[i] : i \in DOMAIN t.free}) \cup {p}
        /\ f \in Seq(1..m)
        /\ \A i, j \in DOMAIN f : f[i] = f[j] => i = j
    <2>1. CASE t.free = <<>>
      <3>1. p = t.max + 1 /\ m = t.max + 1 /\ f = <<>> /\ DOMAIN f = {} /\ DOMAIN t.free = {}
        BY <2>1 DEF NewHead
      <3>2. \A x \in DOMAIN t.blk : x[1] # p
        BY <3>1, <1>2, Pages
      <3> QED
        BY <3>1, <3>2, <1>2, Bytes DEF Address, Null, NewHead
    <2>2. CASE t.free # <<>>
      <3>1. p = t.free[1] /\ m = t.max /\ f = Tail(t.free) /\ Len(t.free) \in Nat \ {0}
            /\ DOMAIN t.free = 1..Len(t.free)
        BY <2>2, <1>2 DEF NewHead
      <3>2. /\ Len(f) = Len(t.free) - 1 /\ f \in Seq(1..t.max)
            /\ DOMAIN f = 1..(Len(t.free) - 1)
            /\ \A i \in 1..(Len(t.free) - 1) : f[i] = t.free[i + 1]
        BY <3>1, <2>2, <1>2, TailFacts
      <3>3. \A i, j \in DOMAIN t.free : t.free[i] = t.free[j] => i = j
        BY DEF Tiled, PagesUsed
      <3>4. p \in 1..t.max /\ 1 \in DOMAIN t.free
        BY <3>1, <1>2
      <3>5. \A x \in DOMAIN t.blk : x[1] # p
        BY <3>1, <3>4, Pages
      <3>6. \A i \in DOMAIN f : i + 1 \in DOMAIN t.free /\ f[i] = t.free[i + 1] /\ i + 1 # 1
        BY <3>1, <3>2
      <3>7. \A i \in DOMAIN t.free : i = 1 \/ (i - 1 \in DOMAIN f /\ f[i - 1] = t.free[i])
        BY <3>1, <3>2
      <3>8. {t.free[i] : i \in DOMAIN t.free} = {f[i] : i \in DOMAIN f} \cup {p}
        <4> HIDE DEF f, p
        <4>1. p = t.free[1]
          BY <3>1
        <4> QED
          BY <4>1, <3>4, <3>6, <3>7
      <3>9. \A i \in DOMAIN f : f[i] # p
        BY <3>1, <3>3, <3>4, <3>6
      <3>10. ASSUME NEW i \in DOMAIN f, NEW j \in DOMAIN f, f[i] = f[j] PROVE i = j
        <4>1. i + 1 = j + 1
          BY <3>3, <3>6, <3>10
        <4>2. i \in Nat /\ j \in Nat
          BY <3>2
        <4> QED
          BY <4>1, <4>2
      <3>11. new = <<p, 0>> /\ new \in Address(m) /\ new # Null
        BY <3>1, <3>4, <2>2, Bytes DEF Address, Null, NewHead
      <3>12. (1..m) \ {f[i] : i \in DOMAIN f} = ((1..t.max) \ {t.free[i] : i \in DOMAIN t.free}) \cup {p}
        BY <3>1, <3>4, <3>8, <3>9
      <3> QED
        BY <3>1, <3>2, <3>4, <3>5, <3>10, <3>11, <3>12
    <2> QED
      BY <2>1, <2>2
  <1>4. new \notin DOMAIN t.blk
    BY <1>3
  <1>5. /\ DOMAIN B = DOMAIN t.blk \cup {new} /\ B[new] = Blank(PAGEUSED)
        /\ \A x \in DOMAIN t.blk : B[x] = t.blk[x]
    BY <1>4
  <1>6. \A a \in Address(t.max) : a \in Address(m)
    BY <1>2 DEF Address
  <1>7. \A r \in BlockSet(t.max) : r \in BlockSet(m)
    BY <1>6 DEF BlockSet
  <1>8. B \in [DOMAIN B -> BlockSet(m)] /\ DOMAIN B \subseteq Address(m)
    <2>1. Blank(PAGEUSED) \in BlockSet(m)
      BY <1>2, Bytes, BlankBlock
    <2> QED
      BY <2>1, <1>3, <1>5, <1>6, <1>7 DEF IsTable
  <1> HIDE DEF B, m, f, p
  <1>9. /\ u.blk = B /\ u.at = new /\ u.max = m /\ u.free = f /\ u.index = t.index /\ u.frag = t.frag
    BY <1>1 DEF IsTable
  <1>10. t.frag \in [Classes -> Address(m)] /\ t.index \in [Key -> Address(m)]
    BY <1>6 DEF IsTable
  <1>11. IsTable(u)
    <2>1. u = [blk |-> u.blk, frag |-> u.frag, free |-> u.free, max |-> u.max, index |-> u.index, at |-> u.at]
      BY <1>1 DEF IsTable
    <2> QED
      BY <2>1, <1>2, <1>3, <1>8, <1>9, <1>10 DEF IsTable
  <1>12. PagesUsed(u)
    <2>1. {x[1] : x \in DOMAIN u.blk} = {x[1] : x \in DOMAIN t.blk} \cup {p}
      BY <1>3, <1>5, <1>9 DEF p
    <2>2. {x[1] : x \in DOMAIN t.blk} = (1..t.max) \ {t.free[i] : i \in DOMAIN t.free}
      BY DEF Tiled, PagesUsed
    <2>3. {u.free[i] : i \in DOMAIN u.free} = {f[i] : i \in DOMAIN f}
      BY <1>9
    <2>4. {x[1] : x \in DOMAIN u.blk} = (1..u.max) \ {u.free[i] : i \in DOMAIN u.free}
      BY <2>1, <2>2, <2>3, <1>3, <1>9
    <2>5. \A i, j \in DOMAIN u.free : u.free[i] = u.free[j] => i = j
      <3>1. u.free = f
        BY <1>9
      <3>2. \A i, j \in DOMAIN f : f[i] = f[j] => i = j
        BY <1>3
      <3> QED
        BY <3>1, <3>2
    <2> QED
      BY <2>4, <2>5 DEF PagesUsed
  <1>13. /\ Capacity(u, new) = PAGEUSED - 12 /\ u.blk[new].next = PAGEUSED /\ u.blk[new].size = 0
         /\ new[2] = 0 /\ new[1] = p
         /\ \A x \in DOMAIN t.blk : NextHead(u, x) = NextHead(t, x) /\ Capacity(u, x) = Capacity(t, x)
    <2>1. /\ u.blk[new] = Blank(PAGEUSED) /\ new[2] = 0 /\ new[1] = p
          /\ \A x \in DOMAIN t.blk : u.blk[x] = t.blk[x]
      BY <1>3, <1>5, <1>9
    <2>2. u.blk[new].next = PAGEUSED /\ u.blk[new].size = 0
      BY <2>1 DEF Blank
    <2>3. Capacity(u, new) = PAGEUSED - 12
      BY <2>1, <2>2, Bytes DEF Capacity
    <2>4. \A x \in DOMAIN t.blk : NextHead(u, x) = NextHead(t, x) /\ Capacity(u, x) = Capacity(t, x)
      BY <2>1 DEF Capacity, NextHead
    <2> QED
      BY <2>1, <2>2, <2>3, <2>4
  <1>14. Tiles(u)
    <2> SUFFICES ASSUME NEW x \in DOMAIN u.blk
                 PROVE  /\ x[2] % 16 = 0
                        /\ u.blk[x].next - x[2] >= FRAGHDR
                        /\ u.blk[x].size <= Capacity(u, x)
                        /\ u.blk[x].next = PAGEUSED \/ NextHead(u, x) \in DOMAIN u.blk
                        /\ x[2] = 0 \/ \E b \in DOMAIN u.blk : NextHead(u, b) = x
                        /\ \A b \in DOMAIN u.blk : b[1] = x[1] /\ b[2] > x[2] => b[2] >= u.blk[x].next
      BY DEF Tiles
    <2>1. CASE x = new
      <3>1. \A b \in DOMAIN u.blk : ~(b[1] = x[1] /\ b[2] > x[2])
        BY <2>1, <1>3, <1>5, <1>9, <1>13
      <3> QED
        BY <2>1, <3>1, <1>13, Bytes
    <2>2. CASE x # new
      <3>1. x \in DOMAIN t.blk
        BY <2>2, <1>5, <1>9
      <3>2. u.blk[x] = t.blk[x] /\ NextHead(u, x) = NextHead(t, x) /\ Capacity(u, x) = Capacity(t, x)
        BY <3>1, <1>5, <1>9, <1>13
      <3>3. \A b \in DOMAIN t.blk : b \in DOMAIN u.blk /\ NextHead(u, b) = NextHead(t, b)
        BY <1>5, <1>9, <1>13
      <3>4. \A b \in DOMAIN u.blk : b[1] = x[1] => b \in DOMAIN t.blk
        BY <3>1, <1>3, <1>5, <1>9, <1>13
      <3> QED
        BY <3>1, <3>2, <3>3, <3>4 DEF Tiled, Tiles
    <2> QED
      BY <2>1, <2>2
  <1> QED
    BY <1>3, <1>4, <1>5, <1>9, <1>11, <1>12, <1>14 DEF Tiled, p

-------------------------------------------------------------------------------
(* Whole operations on the space *)

\* A page stays divided when a block holds more or less, but not more than fits.
LEMMA ResizeTiled ==
    ASSUME NEW t, NEW u, Tiled(t), DOMAIN u.blk = DOMAIN t.blk, u.max = t.max, u.free = t.free,
           \A x \in DOMAIN t.blk : u.blk[x].next = t.blk[x].next /\ u.blk[x].size <= Capacity(t, x)
    PROVE  Tiled(u)
  <1>1. PagesUsed(u)
    BY PagesFrame
  <1>2. \A x \in DOMAIN t.blk : Capacity(u, x) = Capacity(t, x) /\ NextHead(u, x) = NextHead(t, x)
    BY ClassAlike
  <1>3. Tiles(u)
    BY <1>2 DEF Tiled, Tiles
  <1> QED
    BY <1>1, <1>3 DEF Tiled

\* Blocks that stay where they are do not come to lie beside a free one.
LEMMA JoinedFrame ==
    ASSUME NEW t, NEW u, NEW F, NEW G \in SUBSET F, Joined(t, F),
           \A x \in G : u.blk[x].next = t.blk[x].next
    PROVE  Joined(u, G)
  <1>1. \A x \in G : Capacity(u, x) = Capacity(t, x) /\ NextHead(u, x) = NextHead(t, x)
    BY ClassAlike
  <1> QED
    BY <1>1 DEF Joined

\* The space is kept by what changes only the contents of blocks in use.
LEMMA SpaceFrame ==
    ASSUME NEW t, NEW u, Space(t), IsTable(u),
           DOMAIN u.blk = DOMAIN t.blk, u.frag = t.frag, u.max = t.max, u.free = t.free,
           \A x \in FreeIn(t) : u.blk[x] = t.blk[x],
           \A x \in UsedIn(t) : /\ u.blk[x].next = t.blk[x].next
                                /\ u.blk[x].size # 0 /\ u.blk[x].size <= Capacity(t, x)
    PROVE  Space(u) /\ FreeIn(u) = FreeIn(t) /\ UsedIn(u) = UsedIn(t)
  <1>1. FreeIn(u) = FreeIn(t) /\ UsedIn(u) = UsedIn(t)
    BY DEF FreeIn, UsedIn
  <1>2. Tiled(u)
    <2>1. ASSUME NEW x \in DOMAIN t.blk
          PROVE  u.blk[x].next = t.blk[x].next /\ u.blk[x].size <= Capacity(t, x)
      <3>1. CASE x \in FreeIn(t)
        BY <3>1 DEF Space, Tiled, Tiles
      <3>2. CASE x \in UsedIn(t)
        BY <3>2
      <3> QED
        BY <3>1, <3>2 DEF FreeIn, UsedIn
    <2> QED
      BY <2>1, ResizeTiled DEF Space
  <1>3. Listed(u, FreeIn(t))
    <2>1. FreeIn(t) \subseteq DOMAIN u.blk
      BY DEF FreeIn
    <2> QED
      BY <2>1, ListedFrame DEF Space
  <1>4. Joined(u, FreeIn(t))
    BY JoinedFrame DEF Space
  <1> QED
    BY <1>1, <1>2, <1>3, <1>4 DEF Space

\* A free block is taken out of the lists and joined with the block beside it.
LEMMA MergeFree ==
    ASSUME NEW t, NEW F, IsTable(t), Tiled(t), Listed(t, F), Joined(t, F),
           NEW a \in DOMAIN t.blk, NEW b \in DOMAIN t.blk, NextHead(t, a) = b,
           NEW e \in F, e = a \/ e = b, a \in F => e = a, b \in F => e = b,
           NEW u, u = Join(ClrFragment(t, e), a, b)
    PROVE  /\ IsTable(u) /\ Tiled(u) /\ Listed(u, F \ {e}) /\ Joined(u, F \ {e})
           /\ Rest(t, u)
           /\ DOMAIN u.blk = DOMAIN t.blk \ {b} /\ a \in DOMAIN u.blk
           /\ u.blk[a].next = t.blk[b].next
           /\ NextHead(u, a) = NextHead(t, b)
           /\ u.blk[a].size = t.blk[a].size
           /\ Capacity(u, a) >= Capacity(t, a)
           /\ \A x \in DOMAIN u.blk : /\ u.blk[x].size = t.blk[x].size
                                      /\ x \notin F => Keeps(t, u, x)
                                      /\ x # a => u.blk[x].next = t.blk[x].next
  <1> DEFINE s == ClrFragment(t, e)
  <1>1. b # a /\ b[1] = a[1] /\ b[2] = t.blk[a].next
    BY NextHeads
  <1>2. /\ IsTable(s) /\ Rest(t, s) /\ DOMAIN s.blk = DOMAIN t.blk
        /\ \A x \in DOMAIN t.blk : Alike(t, s, x)
    BY ClrShape
  <1>3. /\ Listed(s, F \ {e}) /\ Tiled(s)
        /\ \A x \in DOMAIN t.blk \ F : s.blk[x] = t.blk[x]
    BY ClrListed
  <1>4. u = Join(s, a, b)
    OBVIOUS
  <1> HIDE DEF s
  <1>5. \A x \in DOMAIN t.blk :
           /\ s.blk[x].next = t.blk[x].next /\ s.blk[x].size = t.blk[x].size
           /\ NextHead(s, x) = NextHead(t, x) /\ Capacity(s, x) = Capacity(t, x)
    BY <1>2 DEF Alike, NextHead, Capacity
  <1>6. NextHead(s, a) = b
    BY <1>5
  <1>7. /\ IsTable(u) /\ Rest(s, u) /\ u.frag = s.frag
        /\ DOMAIN u.blk = DOMAIN t.blk \ {b}
        /\ u.blk[a].next = s.blk[b].next
        /\ u.blk[a].prev = s.blk[a].prev
        /\ Keeps(s, u, a)
        /\ \A x \in DOMAIN u.blk : x # a => u.blk[x] = s.blk[x]
    BY <1>1, <1>2, <1>4, JoinShape
  <1>8. Tiled(u)
    BY <1>2, <1>3, <1>4, <1>6, JoinTiled
  <1>9. F \ {e} \subseteq DOMAIN u.blk /\ a \notin F \ {e}
    <2>1. F \subseteq DOMAIN t.blk
      BY DEF Listed
    <2> QED
      BY <2>1, <1>7
  <1>10. Listed(u, F \ {e})
    BY <1>3, <1>7, <1>9, ListedFrame
  <1>11. Joined(u, F \ {e})
    <2>1. \A x \in F \ {e} : u.blk[x].next = t.blk[x].next
      BY <1>5, <1>7, <1>9
    <2> QED
      BY <2>1, JoinedFrame
  <1>12. /\ u.blk[a].next = t.blk[b].next /\ u.blk[a].size = t.blk[a].size
         /\ NextHead(u, a) = NextHead(t, b)
    BY <1>1, <1>5, <1>7 DEF Keeps, NextHead
  <1>13. Capacity(u, a) >= Capacity(t, a)
    <2>1. b[2] + 16 <= t.blk[b].next /\ t.blk[b].next \in Nat /\ b[2] \in Nat /\ a[2] \in Nat
      BY Pages
    <2> QED
      BY <2>1, <1>1, <1>12, Bytes DEF Capacity
  <1>14. ASSUME NEW x \in DOMAIN u.blk
         PROVE  /\ u.blk[x].size = t.blk[x].size
                /\ x \notin F => Keeps(t, u, x)
                /\ x # a => u.blk[x].next = t.blk[x].next
    <2>1. CASE x = a
      BY <2>1, <1>3, <1>7, <1>12 DEF Keeps
    <2>2. CASE x # a
      BY <2>2, <1>3, <1>5, <1>7 DEF Keeps
    <2> QED
      BY <2>1, <2>2
  <1>15. Rest(t, u) /\ a \in DOMAIN u.blk
    BY <1>1, <1>2, <1>7 DEF Rest
  <1> QED
    BY <1>7, <1>8, <1>10, <1>11, <1>12, <1>13, <1>14, <1>15

\* set_fragment gives back a block that was the only one not listed.
LEMMA PutBack ==
    ASSUME NEW t, NEW F, IsTable(t), Tiled(t), Listed(t, F), Joined(t, F),
           NEW a \in DOMAIN t.blk, a \notin F, FreeIn(t) = F \cup {a},
           NextHead(t, a) \notin F, \A x \in F : NextHead(t, x) # a,
           NEW u, u = SetFragment(t, a)
    PROVE  /\ Space(u) /\ UsedIn(u) = UsedIn(t)
           /\ \A x \in UsedIn(t) : u.blk[x] = t.blk[x]
           /\ u.index = t.index /\ u.at = t.at /\ u.max = t.max
  <1>1. UsedIn(t) = DOMAIN t.blk \ FreeIn(t) /\ F \subseteq DOMAIN t.blk
    BY DEF UsedIn, FreeIn, Listed
  <1>2. CASE Capacity(t, a) = PAGEMAXSPARE
    <2>1. /\ IsTable(u) /\ Tiled(u) /\ Listed(u, F)
          /\ u.index = t.index /\ u.at = t.at /\ u.max = t.max
          /\ DOMAIN u.blk = DOMAIN t.blk \ {a}
          /\ \A x \in DOMAIN u.blk : u.blk[x] = t.blk[x]
      BY <1>2, SetPage
    <2>2. FreeIn(u) = F
      BY <2>1, <1>1 DEF FreeIn
    <2>3. UsedIn(u) = UsedIn(t)
      BY <2>1, <2>2, <1>1 DEF UsedIn, FreeIn
    <2>4. Joined(u, F)
      <3>1. \A x \in F : u.blk[x].next = t.blk[x].next
        BY <2>1, <1>1
      <3> QED
        BY <3>1, JoinedFrame
    <2> QED
      BY <2>1, <2>2, <2>3, <2>4, <1>1 DEF Space
  <1>3. CASE Capacity(t, a) # PAGEMAXSPARE
    <2>1. /\ IsTable(u) /\ Rest(t, u) /\ DOMAIN u.blk = DOMAIN t.blk
          /\ \A x \in DOMAIN t.blk : Alike(t, u, x)
      BY <1>3, SetShape
    <2>2. /\ Listed(u, F \cup {a}) /\ Tiled(u)
          /\ \A x \in DOMAIN t.blk : x \notin F /\ x # a => u.blk[x] = t.blk[x]
      BY <1>3, SetListed
    <2>3. FreeIn(u) = FreeIn(t) /\ UsedIn(u) = UsedIn(t)
      BY <2>1 DEF FreeIn, UsedIn, Alike
    <2>4. Joined(u, F \cup {a})
      <3>1. \A x \in DOMAIN t.blk : NextHead(u, x) = NextHead(t, x) /\ Capacity(u, x) = Capacity(t, x)
        BY <2>1 DEF Alike, NextHead, Capacity
      <3>2. \A x \in F : NextHead(t, x) \notin F /\ NextHead(t, x) # a /\ Capacity(t, x) < PAGEMAXSPARE
        BY DEF Joined
      <3>3. Capacity(t, a) < PAGEMAXSPARE
        BY <1>3, ClassIn, Bytes
      <3>4. NextHead(t, a) # a
        BY NextHeads
      <3> QED
        BY <3>1, <3>2, <3>3, <3>4, <1>1 DEF Joined
    <2> QED
      BY <2>1, <2>2, <2>3, <2>4, <1>1 DEF Space, Rest
  <1> QED
    BY <1>2, <1>3

\* The cut of adjust_data_head is aligned, behind the record and before the end.
LEMMA EndFacts ==
    ASSUME NEW t, IsTable(t), Tiled(t), NEW a \in DOMAIN t.blk, NEW size \in Nat, size > 0,
           Capacity(t, a) >= PAGEMINSPARE + size + HDR, NEW b, b = End(a, size)
    PROVE  /\ b = <<a[1], b[2]>> /\ b[2] \in Nat /\ b[2] % 16 = 0 /\ a[2] + 16 <= b[2]
           /\ b[2] + 16 <= t.blk[a].next /\ size + a[2] + 12 <= b[2]
  <1> DEFINE e == ((a[2] + 12 + size + 15) \div 16) * 16
  <1>1. a[2] \in Nat /\ t.blk[a].next \in Nat /\ a[2] % 16 = 0
    BY Pages DEF Tiled, Tiles
  <1>2. b = <<a[1], e>>
    BY Bytes DEF End
  <1>3. t.blk[a].next >= a[2] + size + 44
    BY <1>1, Bytes DEF Capacity
  <1>4. /\ e \in Nat /\ e % 16 = 0 /\ e <= a[2] + 12 + size + 15 /\ e >= a[2] + 12 + size
    BY <1>1
  <1>5. b[1] = a[1] /\ b[2] = e
    BY <1>2
  <1> HIDE DEF e
  <1>6. e >= a[2] + 16
    BY <1>1, <1>4
  <1> QED
    BY <1>1, <1>2, <1>3, <1>4, <1>5, <1>6

\* adjust_data_head keeps the space, and what the blocks in use hold.
LEMMA AdjustKeeps ==
    ASSUME NEW t, Space(t), NEW a \in UsedIn(t), NEW size \in Nat, size > 0,
           t.blk[a].size <= size, NEW u, u = AdjustDataHead(t, a, size)
    PROVE  /\ Space(u) /\ UsedIn(u) = UsedIn(t)
           /\ \A x \in UsedIn(t) : Keeps(t, u, x)
           /\ u.index = t.index /\ u.at = t.at /\ u.max = t.max
  <1> DEFINE F    == FreeIn(t)
             succ == NextHead(t, a)
             s    == IF IsFree(t, succ) THEN Join(ClrFragment(t, succ), a, succ) ELSE t
             b    == End(a, size)
             G    == F \ {succ}
  <1>1. /\ IsTable(t) /\ Tiled(t) /\ Listed(t, F) /\ Joined(t, F)
        /\ a \in DOMAIN t.blk /\ a \notin F /\ UsedIn(t) = DOMAIN t.blk \ F
    BY DEF Space, UsedIn, FreeIn
  <1>2. CASE ~(Capacity(t, a) >= PAGEMINSPARE + size + HDR)
    <2>1. u = t
      BY <1>2 DEF AdjustDataHead
    <2> QED
      BY <2>1, <1>1 DEF Keeps
  <1>3. CASE Capacity(t, a) >= PAGEMINSPARE + size + HDR
    <2>1. u = SetFragment(Cut(s, a, b), b)
      BY <1>3 DEF AdjustDataHead
    <2>2. IsFree(t, succ) <=> succ \in F
      BY DEF IsFree, FreeIn
    <2>3. /\ IsTable(s) /\ Tiled(s) /\ Listed(s, G) /\ Joined(s, G)
          /\ Rest(t, s) /\ DOMAIN s.blk = UsedIn(t) \cup G
          /\ NextHead(s, a) \notin G
          /\ Capacity(s, a) >= Capacity(t, a)
          /\ \A x \in DOMAIN s.blk : /\ s.blk[x].size = t.blk[x].size
                                     /\ x \notin F => Keeps(t, s, x)
      <3>1. CASE succ \in F
        <4>1. s = Join(ClrFragment(t, succ), a, succ) /\ succ \in DOMAIN t.blk
          BY <3>1, <2>2 DEF FreeIn
        <4>2. /\ IsTable(s) /\ Tiled(s) /\ Listed(s, F \ {succ}) /\ Joined(s, F \ {succ})
              /\ Rest(t, s)
              /\ DOMAIN s.blk = DOMAIN t.blk \ {succ}
              /\ NextHead(s, a) = NextHead(t, succ)
              /\ Capacity(s, a) >= Capacity(t, a)
              /\ \A x \in DOMAIN s.blk : /\ s.blk[x].size = t.blk[x].size
                                         /\ x \notin F => Keeps(t, s, x)
          <5> HIDE DEF F, s, succ
          <5>1. NextHead(t, a) = succ
            BY DEF succ
          <5> QED
            BY <3>1, <4>1, <5>1, <1>1, MergeFree
        <4>3. NextHead(t, succ) \notin F
          BY <3>1, <1>1 DEF Joined
        <4> HIDE DEF F, s, succ
        <4> QED
          BY <3>1, <4>2, <4>3, <1>1 DEF Listed
      <3>2. CASE succ \notin F
        <4>1. s = t /\ G = F
          BY <3>2, <2>2
        <4> HIDE DEF F, s, succ, G
        <4>2. F \subseteq DOMAIN t.blk /\ NextHead(t, a) = succ
          BY <1>1 DEF Listed, succ
        <4>3. Capacity(t, a) >= Capacity(t, a)
          BY <1>1, ClassIn
        <4> QED
          BY <3>2, <4>1, <4>2, <4>3, <1>1 DEF Rest, Keeps
      <3> QED
        BY <3>1, <3>2
    <2> HIDE DEF s, succ, b, F, G
    <2>4. a \in DOMAIN s.blk /\ a \notin F /\ s.blk[a].size = t.blk[a].size /\ t.blk[a].size \in Nat
          /\ Capacity(t, a) \in Nat /\ Capacity(s, a) \in Nat
      BY <1>1, <2>3, ClassIn
    <2>5. Capacity(s, a) >= PAGEMINSPARE + size + HDR
      BY <1>3, <2>3, <2>4, Bytes
    <2>6. /\ b = <<a[1], b[2]>> /\ b[2] \in Nat /\ b[2] % 16 = 0 /\ a[2] + 16 <= b[2]
          /\ b[2] + 16 <= s.blk[a].next /\ size + a[2] + 12 <= b[2]
      BY <2>3, <2>4, <2>5, EndFacts DEF b
    <2>7. s.blk[a].size + a[2] + 12 <= b[2] /\ s.blk[a].next \in 1..PAGEUSED
      <3>1. a[2] \in Nat /\ s.blk[a].next \in 1..PAGEUSED
        BY <2>3, <2>4, Pages
      <3> QED
        BY <3>1, <2>4, <2>6
    <2> DEFINE c == Cut(s, a, b)
    <2>8. b \in Address(s.max) /\ b \notin DOMAIN s.blk /\ b[2] \in 1..PAGEUSED /\ Tiled(c)
      BY <2>3, <2>4, <2>6, <2>7, CutTiled
    <2>9. /\ IsTable(c) /\ Rest(s, c) /\ c.frag = s.frag
          /\ DOMAIN c.blk = DOMAIN s.blk \cup {b}
          /\ c.blk[a].next = b[2] /\ Keeps(s, c, a)
          /\ c.blk[b] = Blank(s.blk[a].next)
          /\ \A x \in DOMAIN s.blk : x # a => c.blk[x] = s.blk[x]
      BY <2>3, <2>4, <2>8, CutShape
    <2>10. u = SetFragment(c, b)
      BY <2>1
    <2> HIDE DEF c
    <2>11. c.blk[b].size = 0 /\ c.blk[b].next = s.blk[a].next
      BY <2>9 DEF Blank
    <2>12. G \subseteq DOMAIN s.blk /\ a \notin G /\ b \notin G
      BY <2>3, <2>4, <2>8 DEF G
    <2>13. Listed(c, G) /\ Joined(c, G)
      <3>1. G \subseteq DOMAIN c.blk /\ \A x \in G : c.blk[x] = s.blk[x]
        BY <2>9, <2>12
      <3>2. Listed(c, G)
        BY <3>1, <2>3, <2>9, ListedFrame
      <3>3. Joined(c, G)
        BY <3>1, <2>3, JoinedFrame
      <3> QED
        BY <3>2, <3>3
    <2>14. FreeIn(c) = G \cup {b} /\ UsedIn(c) = UsedIn(t)
      <3>1. \A x \in DOMAIN s.blk : c.blk[x].size = t.blk[x].size
        BY <2>3, <2>9 DEF Keeps
      <3>2. \A x \in G : t.blk[x].size = 0 /\ x \in DOMAIN t.blk
        BY DEF G, F, FreeIn
      <3>3. \A x \in UsedIn(t) : t.blk[x].size # 0
        BY DEF UsedIn
      <3> QED
        BY <3>1, <3>2, <3>3, <2>3, <2>8, <2>9, <2>11 DEF FreeIn, UsedIn
    <2>15. NextHead(c, b) \notin G
      <3>1. NextHead(c, b) = NextHead(s, a)
        BY <2>6, <2>11 DEF NextHead
      <3> QED
        BY <3>1, <2>3
    <2>16. \A x \in G : NextHead(c, x) # b
      <3>1. NextHead(c, a) = b /\ a \in DOMAIN c.blk
        BY <2>6, <2>9, <2>4 DEF NextHead
      <3> QED
        BY <3>1, <2>8, <2>9, <2>12, PredUnique
    <2>17. b \in DOMAIN c.blk
      BY <2>9
    <2>18. /\ Space(u) /\ UsedIn(u) = UsedIn(c)
           /\ \A x \in UsedIn(c) : u.blk[x] = c.blk[x]
           /\ u.index = c.index /\ u.at = c.at /\ u.max = c.max
      BY <2>8, <2>9, <2>10, <2>12, <2>13, <2>14, <2>15, <2>16, <2>17, PutBack
    <2>19. ASSUME NEW x \in UsedIn(t) PROVE Keeps(t, u, x)
      <3>1. x \in DOMAIN s.blk /\ Keeps(t, s, x)
        BY <1>1, <2>3
      <3>2. Keeps(s, c, x)
        <4>1. CASE x = a
          BY <4>1, <2>9
        <4>2. CASE x # a
          BY <4>2, <3>1, <2>9 DEF Keeps
        <4> QED
          BY <4>1, <4>2
      <3>3. u.blk[x] = c.blk[x] /\ x \in DOMAIN u.blk
        BY <2>14, <2>18 DEF UsedIn
      <3> QED
        BY <3>1, <3>2, <3>3 DEF Keeps
    <2> QED
      BY <2>3, <2>9, <2>14, <2>18, <2>19 DEF Rest
  <1> QED
    BY <1>2, <1>3

\* free_data's block becomes free, and no other; the space is kept.
LEMMA FreeBlockKeeps ==
    ASSUME NEW t, Space(t), NEW a \in UsedIn(t), NEW v, v = FreeBlock(t, a)
    PROVE  /\ Space(v) /\ UsedIn(v) = UsedIn(t) \ {a}
           /\ \A x \in UsedIn(v) : Keeps(t, v, x)
           /\ v.index = t.index /\ v.at = t.at /\ v.max = t.max
  <1> DEFINE F    == FreeIn(t)
             s    == [t EXCEPT !.blk[a] = Blank(@.next)]
             pred == {b \in DOMAIN t.blk : NextHead(t, b) = a /\ IsFree(t, b)}
             cur  == IF pred = {} THEN a ELSE CHOOSE b \in pred : TRUE
             u    == IF pred = {} THEN s ELSE Join(ClrFragment(s, cur), cur, a)
             succ == NextHead(u, cur)
             w    == IF IsFree(u, succ) THEN Join(ClrFragment(u, succ), cur, succ) ELSE u
             G    == F \ {cur}
             H    == G \ {succ}
  <1>1. v = SetFragment(w, cur)
    BY DEF FreeBlock
  <1>2. /\ IsTable(t) /\ Tiled(t) /\ Listed(t, F) /\ Joined(t, F) /\ F \subseteq DOMAIN t.blk
        /\ a \in DOMAIN t.blk /\ a \notin F /\ UsedIn(t) = DOMAIN t.blk \ F
    BY DEF Space, UsedIn, FreeIn, Listed
  <1>3. \A b \in DOMAIN t.blk : IsFree(t, b) <=> b \in F
    BY DEF IsFree, FreeIn
  <1>4. t.blk[a].next \in 1..PAGEUSED /\ t.max \in Nat /\ Capacity(t, a) \in Nat
    <2>1. t.blk[a].next \in 1..PAGEUSED
      BY <1>2, Pages
    <2>2. Capacity(t, a) \in Nat
      BY <1>2, ClassIn
    <2> QED
      BY <2>1, <2>2, <1>2 DEF IsTable
  <1>5. /\ IsTable(s) /\ Rest(t, s) /\ s.frag = t.frag /\ DOMAIN s.blk = DOMAIN t.blk
        /\ s.blk[a].next = t.blk[a].next /\ s.blk[a].size = 0
        /\ \A x \in DOMAIN t.blk : x # a => s.blk[x] = t.blk[x]
    <2>1. s = [t EXCEPT !.blk[a] = Blank(t.blk[a].next)]
      OBVIOUS
    <2>2. Blank(t.blk[a].next) \in BlockSet(t.max)
      BY <1>4, BlankBlock
    <2>3. Blank(t.blk[a].next).next = t.blk[a].next /\ Blank(t.blk[a].next).size = 0
      BY DEF Blank
    <2> HIDE DEF s
    <2> QED
      BY <2>1, <2>2, <2>3, <1>2, WithBlock
  <1> HIDE DEF s
  <1>6. \A x \in DOMAIN t.blk : s.blk[x].next = t.blk[x].next /\ NextHead(s, x) = NextHead(t, x)
    BY <1>5 DEF NextHead
  <1>7. Tiled(s)
    <2>1. \A x \in DOMAIN t.blk : s.blk[x].size <= Capacity(t, x)
      BY <1>2, <1>4, <1>5 DEF Tiled, Tiles
    <2> QED
      BY <2>1, <1>2, <1>5, <1>6, ResizeTiled DEF Rest
  <1>8. Listed(s, F) /\ Joined(s, F)
    <2>1. \A x \in F : s.blk[x] = t.blk[x]
      BY <1>2, <1>5
    <2> QED
      BY <2>1, <1>2, <1>5, ListedFrame, JoinedFrame
  <1>9. FreeIn(s) = F \cup {a} /\ UsedIn(s) = UsedIn(t) \ {a}
    BY <1>2, <1>5 DEF FreeIn, UsedIn
  <1>10. /\ IsTable(u) /\ Tiled(u) /\ Listed(u, G) /\ Joined(u, G)
         /\ Rest(t, u) /\ cur \in DOMAIN u.blk /\ G \subseteq DOMAIN u.blk /\ cur \notin UsedIn(t) \ {a}
         /\ DOMAIN u.blk = (UsedIn(t) \ {a}) \cup {cur} \cup G
         /\ u.blk[cur].size = 0
         /\ \A x \in G : NextHead(u, x) # cur /\ u.blk[x].size = 0
         /\ \A x \in UsedIn(t) \ {a} : Keeps(t, u, x)
    <2>1. CASE pred = {}
      <3>1. cur = a /\ u = s
        BY <2>1
      <3>2. \A x \in F : NextHead(t, x) # a
        BY <2>1, <1>2, <1>3
      <3>3. G = F
        BY <3>1, <1>2
      <3> HIDE DEF cur, u, G, F
      <3>4. \A x \in G : NextHead(u, x) # cur /\ u.blk[x].size = 0
        <4>1. \A x \in F : t.blk[x].size = 0
          BY DEF F, FreeIn
        <4> QED
          BY <4>1, <3>1, <3>2, <3>3, <1>2, <1>5, <1>6
      <3>5. \A x \in UsedIn(t) \ {a} : Keeps(t, u, x)
        BY <3>1, <1>2, <1>5 DEF Keeps
      <3> QED
        BY <3>1, <3>3, <3>4, <3>5, <1>2, <1>5, <1>7, <1>8
    <2>2. CASE pred # {}
      <3>1. cur \in DOMAIN t.blk /\ NextHead(t, cur) = a /\ cur \in F
        <4>1. cur \in pred
          BY <2>2
        <4> QED
          BY <4>1, <1>3
      <3>2. u = Join(ClrFragment(s, cur), cur, a)
        BY <2>2
      <3> HIDE DEF cur, u, F
      <3>3. cur \in DOMAIN s.blk /\ a \in DOMAIN s.blk /\ NextHead(s, cur) = a /\ a \notin F
        BY <3>1, <1>2, <1>5, <1>6
      <3>4. /\ IsTable(u) /\ Tiled(u) /\ Listed(u, G) /\ Joined(u, G)
            /\ Rest(s, u)
            /\ DOMAIN u.blk = DOMAIN s.blk \ {a} /\ cur \in DOMAIN u.blk
            /\ u.blk[cur].size = s.blk[cur].size
            /\ \A x \in DOMAIN u.blk : /\ u.blk[x].size = s.blk[x].size
                                       /\ x \notin F => Keeps(s, u, x)
                                       /\ x # cur => u.blk[x].next = s.blk[x].next
        BY <3>1, <3>2, <3>3, <1>5, <1>7, <1>8, MergeFree
      <3>5. DOMAIN u.blk = (UsedIn(t) \ {a}) \cup {cur} \cup G
        BY <3>1, <3>4, <1>2, <1>5
      <3>6. u.blk[cur].size = 0 /\ \A x \in G : u.blk[x].size = 0
        <4>1. \A x \in F : t.blk[x].size = 0 /\ s.blk[x] = t.blk[x]
          BY <1>2, <1>5 DEF F, FreeIn
        <4> QED
          BY <4>1, <3>1, <3>4, <3>5
      <3>7. \A x \in G : NextHead(u, x) # cur
        <4>1. \A x \in G : NextHead(u, x) = NextHead(t, x)
          BY <3>4, <3>5, <1>2, <1>6 DEF NextHead
        <4>2. \A x \in F : NextHead(t, x) \notin F
          BY <1>2 DEF Joined
        <4> QED
          BY <4>1, <4>2, <3>1
      <3>8. ASSUME NEW x \in UsedIn(t) \ {a} PROVE Keeps(t, u, x)
        <4>1. x \in DOMAIN u.blk /\ x \notin F /\ s.blk[x] = t.blk[x]
          BY <3>5, <1>2, <1>5
        <4> QED
          BY <4>1, <3>4 DEF Keeps
      <3>9. Rest(t, u)
        BY <3>4, <1>5 DEF Rest
      <3>10. G \subseteq DOMAIN u.blk /\ cur \notin UsedIn(t) \ {a}
        BY <3>1, <3>5, <1>2
      <3> QED
        BY <3>4, <3>5, <3>6, <3>7, <3>8, <3>9, <3>10
    <2> QED
      BY <2>1, <2>2
  <1> HIDE DEF u, cur, pred
  <1>11. cur \notin G /\ NextHead(u, cur) = succ
    OBVIOUS
  <1>12. FreeIn(u) = G \cup {cur} /\ UsedIn(u) = UsedIn(t) \ {a}
    <2>1. \A x \in UsedIn(t) \ {a} : u.blk[x].size # 0
      BY <1>10 DEF Keeps, UsedIn
    <2> HIDE DEF G
    <2> QED
      BY <2>1, <1>10 DEF FreeIn, UsedIn
  <1>13. succ # cur
    BY <1>10, <1>11, NextHeads
  <1>14. IsFree(u, succ) <=> succ \in G
    BY <1>12, <1>13 DEF IsFree, FreeIn
  <1> HIDE DEF G, succ, F
  <1>15. /\ IsTable(w) /\ Tiled(w) /\ Listed(w, H) /\ Joined(w, H)
         /\ Rest(t, w) /\ cur \in DOMAIN w.blk
         /\ DOMAIN w.blk = (UsedIn(t) \ {a}) \cup {cur} \cup H
         /\ NextHead(w, cur) \notin H
         /\ w.blk[cur].size = 0
         /\ \A x \in H : NextHead(w, x) # cur /\ w.blk[x].size = 0
         /\ \A x \in UsedIn(t) \ {a} : Keeps(t, w, x)
    <2>1. CASE succ \in G
      <3>1. w = Join(ClrFragment(u, succ), cur, succ)
        BY <2>1, <1>14
      <3>2. succ \in DOMAIN u.blk
        BY <2>1, <1>10
      <3> HIDE DEF w
      <3>3. /\ IsTable(w) /\ Tiled(w) /\ Listed(w, H) /\ Joined(w, H)
            /\ Rest(u, w)
            /\ DOMAIN w.blk = DOMAIN u.blk \ {succ} /\ cur \in DOMAIN w.blk
            /\ NextHead(w, cur) = NextHead(u, succ)
            /\ w.blk[cur].size = u.blk[cur].size
            /\ \A x \in DOMAIN w.blk : /\ w.blk[x].size = u.blk[x].size
                                       /\ x \notin G => Keeps(u, w, x)
                                       /\ x # cur => w.blk[x].next = u.blk[x].next
        BY <2>1, <3>1, <3>2, <1>10, <1>11, MergeFree
      <3>4. succ \notin UsedIn(t) \ {a}
        BY <2>1, <1>12 DEF UsedIn, G, F, FreeIn
      <3>5. DOMAIN w.blk = (UsedIn(t) \ {a}) \cup {cur} \cup H
        BY <3>3, <3>4, <1>10, <1>13
      <3>6. NextHead(w, cur) \notin H
        BY <3>3, <2>1, <1>10 DEF Joined
      <3>7. \A x \in H : NextHead(w, x) # cur /\ w.blk[x].size = 0
        <4>1. \A x \in H : NextHead(w, x) = NextHead(u, x)
          BY <3>3, <3>5, <1>11 DEF NextHead
        <4> QED
          BY <4>1, <3>3, <3>5, <1>10
      <3>8. ASSUME NEW x \in UsedIn(t) \ {a} PROVE Keeps(t, w, x)
        <4>1. x \in DOMAIN w.blk /\ x \notin G
          BY <3>5, <1>2 DEF G
        <4> QED
          BY <4>1, <3>3, <1>10 DEF Keeps
      <3> QED
        BY <3>3, <3>5, <3>6, <3>7, <3>8, <1>10 DEF Rest
    <2>2. CASE succ \notin G
      <3>1. w = u /\ H = G
        BY <2>2, <1>14
      <3> HIDE DEF w, H
      <3> QED
        BY <3>1, <2>2, <1>10, <1>11
    <2> QED
      BY <2>1, <2>2
  <1> HIDE DEF w
  <1>16. cur \notin H
    BY <1>11
  <1>17. FreeIn(w) = H \cup {cur} /\ UsedIn(w) = UsedIn(t) \ {a}
    <2>1. \A x \in UsedIn(t) \ {a} : w.blk[x].size # 0
      BY <1>15 DEF Keeps, UsedIn
    <2> HIDE DEF H
    <2> QED
      BY <2>1, <1>15 DEF FreeIn, UsedIn
  <1> HIDE DEF H
  <1>18. /\ Space(v) /\ UsedIn(v) = UsedIn(w)
         /\ \A x \in UsedIn(w) : v.blk[x] = w.blk[x]
         /\ v.index = w.index /\ v.at = w.at /\ v.max = w.max
    BY <1>1, <1>15, <1>16, <1>17, PutBack
  <1>19. ASSUME NEW x \in UsedIn(v) PROVE Keeps(t, v, x)
    <2>1. v.blk[x] = w.blk[x] /\ Keeps(t, w, x)
      BY <1>15, <1>17, <1>18
    <2> QED
      BY <2>1 DEF Keeps, UsedIn
  <1> QED
    BY <1>15, <1>17, <1>18, <1>19 DEF Rest

\* A list that has room is found if there is one.
LEMMA MinIn == ASSUME NEW S, S \subseteq Nat, S # {} PROVE Min(S) \in S
  <1>1. IsWellFoundedOn(OpToRel(<, Nat), Nat)
    BY NatLessThanWellFounded
  <1>2. \E n \in S : \A m \in S : ~(<<m, n>> \in OpToRel(<, Nat))
    BY <1>1, WFMin
  <1>3. \A m, n \in S : ~(<<m, n>> \in OpToRel(<, Nat)) => n <= m
    BY DEF OpToRel
  <1> QED
    BY <1>2, <1>3 DEF Min

\* A table with another block allocated last.
LEMMA WithAt ==
    ASSUME NEW t, IsTable(t), NEW a \in Address(t.max), NEW u, u = [t EXCEPT !.at = a]
    PROVE  /\ IsTable(u) /\ u.blk = t.blk /\ u.frag = t.frag /\ u.free = t.free
           /\ u.max = t.max /\ u.index = t.index /\ u.at = a
  <1>1. /\ u.blk = t.blk /\ u.frag = t.frag /\ u.free = t.free
        /\ u.max = t.max /\ u.index = t.index /\ u.at = a
    BY DEF IsTable
  <1>2. u = [blk |-> u.blk, frag |-> u.frag, free |-> u.free, max |-> u.max, index |-> u.index, at |-> u.at]
    BY DEF IsTable
  <1> QED
    BY <1>1, <1>2 DEF IsTable

\* __alloc_data_head finds a block that is not in use, with room for the size asked
\* for; it is the only one that is neither in use nor listed.
LEMMA Taken ==
    ASSUME NEW t, Space(t), NEW size \in Nat, size > 0, NEW s, s = __AllocDataHead(t, size),
           NEW n, n = IF size < PAGEMAXSPARE THEN size ELSE PAGEMAXSPARE
    PROVE  /\ IsTable(s) /\ Tiled(s) /\ s.at \in DOMAIN s.blk /\ s.at \notin UsedIn(t)
           /\ Listed(s, FreeIn(t) \ {s.at}) /\ Joined(s, FreeIn(t) \ {s.at})
           /\ DOMAIN s.blk = DOMAIN t.blk \cup {s.at}
           /\ \A x \in DOMAIN t.blk : s.blk[x].size = t.blk[x].size
           /\ \A x \in UsedIn(t) : s.blk[x] = t.blk[x]
           /\ n <= Capacity(s, s.at)
           /\ s.index = t.index
  <1> DEFINE F     == FreeIn(t)
             found == IF size < PAGEMAXSPARE THEN {i \in Roomy(size) : t.frag[i] # Null} ELSE {}
             a     == t.frag[Min(found)]
             succ  == t.blk[a].link
             r     == [t EXCEPT !.frag[Min(found)] = succ, !.at = a]
             new   == NewHead(t)
  <1>1. s = IF found # {}
            THEN IF succ # Null THEN [r EXCEPT !.blk[succ].prev = Null] ELSE r
            ELSE NewPage(t, new)
    BY DEF __AllocDataHead, NewHead, NewPage
  <1>2. /\ IsTable(t) /\ Tiled(t) /\ Listed(t, F) /\ Joined(t, F) /\ F \subseteq DOMAIN t.blk
        /\ UsedIn(t) = DOMAIN t.blk \ F
    BY DEF Space, UsedIn, FreeIn, Listed
  <1>3. CASE found # {}
    <2>1. size < PAGEMAXSPARE /\ n = size
      BY <1>3
    <2>2. Min(found) \in found
      <3>1. found \subseteq Nat
        BY Bytes DEF Roomy, Classes
      <3> QED
        BY <3>1, <1>3, MinIn
    <2> DEFINE i == Min(found)
    <2>3. i \in Classes /\ i >= (size + 7) \div 8 /\ t.frag[i] # Null
      BY <2>1, <2>2, Bytes DEF Roomy
    <2>4. /\ a \in F /\ a \in DOMAIN t.blk /\ Class(t, a) = i /\ t.blk[a].prev = Null
      BY <2>3, <1>2 DEF Listed, Heads
    <2>5. size <= Capacity(t, a)
      <3>1. Capacity(t, a) \in Nat /\ Capacity(t, a) \div 8 >= (size + 7) \div 8
        BY <2>3, <2>4, <1>2, ClassIn, Bytes DEF Class
      <3> HIDE DEF a, i
      <3> QED
        BY <3>1
    <2> DEFINE w == ClrFragment(t, a)
    <2>6. s = [w EXCEPT !.at = a]
      <3>1. s = IF succ # Null THEN [r EXCEPT !.blk[succ].prev = Null] ELSE r
        BY <1>1, <1>3
      <3>2. w = IF succ # Null THEN [[t EXCEPT !.frag[i] = succ] EXCEPT !.blk[succ].prev = Null]
                ELSE [t EXCEPT !.frag[i] = succ]
        BY <2>4 DEF ClrFragment
      <3>3. r = [t EXCEPT !.frag[i] = succ, !.at = a]
        OBVIOUS
      <3> HIDE DEF r, w, succ, a, i, found
      <3> QED
        BY <3>1, <3>2, <3>3, <1>2 DEF IsTable
    <2> HIDE DEF a, i, r, found, new, F
    <2>7. /\ IsTable(w) /\ Rest(t, w) /\ DOMAIN w.blk = DOMAIN t.blk
          /\ \A x \in DOMAIN t.blk : Alike(t, w, x)
      BY <2>4, <1>2, ClrShape
    <2>8. /\ Listed(w, F \ {a}) /\ Tiled(w)
          /\ \A x \in DOMAIN t.blk \ F : w.blk[x] = t.blk[x]
      BY <2>4, <1>2, ClrListed
    <2> HIDE DEF w
    <2>9. a \in Address(w.max)
      BY <2>4, <2>7 DEF IsTable
    <2>10. /\ IsTable(s) /\ s.blk = w.blk /\ s.frag = w.frag /\ s.free = w.free
           /\ s.max = w.max /\ s.index = w.index /\ s.at = a
      BY <2>6, <2>7, <2>9, WithAt
    <2>11. Tiled(s)
      <3>1. \A x \in DOMAIN w.blk : s.blk[x].next = w.blk[x].next /\ s.blk[x].size = w.blk[x].size
        BY <2>10
      <3> QED
        BY <3>1, <2>8, <2>10, TiledFrame
    <2>12. Listed(s, F \ {a})
      <3>1. F \ {a} \subseteq DOMAIN s.blk
        BY <2>7, <2>10, <1>2
      <3> QED
        BY <3>1, <2>8, <2>10, ListedFrame
    <2>13. \A x \in DOMAIN t.blk : s.blk[x].next = t.blk[x].next /\ s.blk[x].size = t.blk[x].size
      BY <2>7, <2>10 DEF Alike
    <2>14. Joined(s, F \ {a})
      BY <2>13, <1>2, JoinedFrame
    <2>15. n <= Capacity(s, s.at)
      BY <2>1, <2>4, <2>5, <2>10, <2>13, ClassAlike
    <2>16. DOMAIN s.blk = DOMAIN t.blk \cup {s.at} /\ s.at \in DOMAIN s.blk /\ s.at \notin UsedIn(t)
      BY <2>4, <2>7, <2>10, <1>2
    <2>17. \A x \in UsedIn(t) : s.blk[x] = t.blk[x]
      BY <2>8, <2>10, <1>2
    <2>18. s.index = t.index
      BY <2>7, <2>10 DEF Rest
    <2> QED
      BY <2>10, <2>11, <2>12, <2>13, <2>14, <2>15, <2>16, <2>17, <2>18 DEF F
  <1>4. CASE found = {}
    <2>1. s = NewPage(t, new) /\ new = NewHead(t)
      BY <1>1, <1>4
    <2> HIDE DEF F, found, r, new
    <2>2. /\ IsTable(s) /\ Tiled(s)
          /\ s.frag = t.frag /\ s.index = t.index /\ s.at = new
          /\ new \notin DOMAIN t.blk /\ DOMAIN s.blk = DOMAIN t.blk \cup {new}
          /\ s.blk[new] = Blank(PAGEUSED)
          /\ \A x \in DOMAIN t.blk : s.blk[x] = t.blk[x]
      BY <2>1, <1>2, NewPageShape
    <2>3. new[2] = 0
      BY <2>1 DEF NewHead
    <2>4. n <= Capacity(s, s.at)
      BY <2>2, <2>3, Bytes DEF Capacity, Blank
    <2>5. F \ {s.at} = F /\ F \subseteq DOMAIN s.blk
      BY <2>2, <1>2
    <2>6. Listed(s, F) /\ Joined(s, F)
      <3>1. \A x \in F : s.blk[x] = t.blk[x]
        BY <2>2, <1>2
      <3> QED
        BY <3>1, <2>2, <2>5, <1>2, ListedFrame, JoinedFrame
    <2> QED
      BY <2>2, <2>4, <2>5, <2>6, <1>2 DEF F
  <1> QED
    BY <1>3, <1>4

\* alloc_data_head makes one more block one in use; the space is kept, and what
\* the others hold.
LEMMA AllocKeeps ==
    ASSUME NEW t, Space(t), NEW size \in Nat, size > 0, NEW first \in BOOLEAN,
           NEW u, u = AllocDataHead(t, size, first)
    PROVE  /\ Space(u) /\ u.at \notin UsedIn(t) /\ UsedIn(u) = UsedIn(t) \cup {u.at}
           /\ u.blk[u.at].size = IF size < PAGEMAXSPARE THEN size ELSE PAGEMAXSPARE
           /\ u.blk[u.at].first = first
           /\ \A x \in UsedIn(t) : Keeps(t, u, x)
           /\ u.index = t.index
  <1> DEFINE s == __AllocDataHead(t, size)
             n == IF size < PAGEMAXSPARE THEN size ELSE PAGEMAXSPARE
             a == s.at
             r == [s.blk[a] EXCEPT !.size = n, !.first = first]
             f == [s EXCEPT !.blk[a] = r]
             G == FreeIn(t) \ {a}
  <1>1. u = IF size < PAGEMAXSPARE THEN AdjustDataHead(f, s.at, size) ELSE f
    BY DEF AllocDataHead
  <1>2. /\ IsTable(s) /\ Tiled(s) /\ a \in DOMAIN s.blk /\ a \notin UsedIn(t)
        /\ Listed(s, G) /\ Joined(s, G)
        /\ DOMAIN s.blk = DOMAIN t.blk \cup {a}
        /\ \A x \in DOMAIN t.blk : s.blk[x].size = t.blk[x].size
        /\ \A x \in UsedIn(t) : s.blk[x] = t.blk[x]
        /\ n <= Capacity(s, a)
        /\ s.index = t.index
    BY Taken
  <1> HIDE DEF s, a
  <1>3. n \in 0..PAGEMAXSPARE /\ n > 0
    BY Bytes, PageAssumption
  <1> HIDE DEF n
  <1>4. r \in BlockSet(s.max) /\ r.size = n /\ r.first = first /\ r.next = s.blk[a].next
    <2>1. s.blk[a] \in BlockSet(s.max)
      BY <1>2 DEF IsTable
    <2> QED
      BY <2>1, <1>3 DEF BlockSet
  <1> HIDE DEF r
  <1>5. f = [s EXCEPT !.blk[a] = r]
    OBVIOUS
  <1> HIDE DEF f
  <1>6. /\ IsTable(f) /\ Rest(s, f) /\ f.frag = s.frag /\ DOMAIN f.blk = DOMAIN s.blk
        /\ f.blk[a] = r /\ \A x \in DOMAIN s.blk : x # a => f.blk[x] = s.blk[x]
    BY <1>2, <1>4, <1>5, WithBlock
  <1>7. FreeIn(f) = G /\ UsedIn(f) = UsedIn(t) \cup {a}
    BY <1>2, <1>3, <1>4, <1>6 DEF FreeIn, UsedIn
  <1>8. Tiled(f)
    <2>1. \A x \in DOMAIN s.blk : f.blk[x].next = s.blk[x].next /\ f.blk[x].size <= Capacity(s, x)
      BY <1>2, <1>4, <1>6 DEF Tiled, Tiles
    <2> QED
      BY <2>1, <1>2, <1>6, ResizeTiled DEF Rest
  <1>9. Listed(f, G) /\ Joined(f, G)
    <2>1. G \subseteq DOMAIN f.blk /\ \A x \in G : f.blk[x] = s.blk[x]
      BY <1>2, <1>6 DEF FreeIn
    <2> HIDE DEF G
    <2> QED
      BY <2>1, <1>2, <1>6, ListedFrame, JoinedFrame
  <1>10. Space(f) /\ a \in UsedIn(f)
    BY <1>6, <1>7, <1>8, <1>9 DEF Space
  <1>11. ASSUME NEW x \in UsedIn(t) PROVE Keeps(t, f, x)
    <2>1. x \in DOMAIN s.blk /\ x # a /\ s.blk[x] = t.blk[x]
      BY <1>2 DEF UsedIn
    <2> QED
      BY <2>1, <1>6 DEF Keeps
  <1>12. f.at = a /\ f.index = t.index
    BY <1>2, <1>6 DEF Rest, a
  <1>13. CASE ~(size < PAGEMAXSPARE)
    <2>1. u = f
      BY <1>1, <1>13
    <2> QED
      BY <2>1, <1>2, <1>4, <1>6, <1>7, <1>10, <1>11, <1>12 DEF n
  <1>14. CASE size < PAGEMAXSPARE
    <2>1. u = AdjustDataHead(f, a, size) /\ n = size
      BY <1>1, <1>14 DEF n, a
    <2>2. f.blk[a].size <= size
      BY <2>1, <1>4, <1>6
    <2>3. /\ Space(u) /\ UsedIn(u) = UsedIn(f)
          /\ \A x \in UsedIn(f) : Keeps(f, u, x)
          /\ u.index = f.index /\ u.at = f.at /\ u.max = f.max
      BY <2>1, <2>2, <1>10, AdjustKeeps
    <2>4. u.blk[a].size = n /\ u.blk[a].first = first
      BY <2>3, <1>4, <1>6, <1>10 DEF Keeps
    <2>5. ASSUME NEW x \in UsedIn(t) PROVE Keeps(t, u, x)
      <3>1. Keeps(t, f, x) /\ Keeps(f, u, x)
        BY <2>3, <1>7, <1>11
      <3> QED
        BY <3>1 DEF Keeps
    <2> QED
      BY <2>1, <2>3, <2>4, <2>5, <1>2, <1>7, <1>12, <1>14
  <1> QED
    BY <1>13, <1>14

-------------------------------------------------------------------------------
(* Records *)

\* The slices of the records of key k
Owned(t, k) == {x \in UsedIn(t) : t.blk[x].key = k}

\* Block x, one of the slices C of a record of k and v up to e: it is linked to the one
\* of C that goes on where it ends, and from one of C unless it is the first.
LiveBlock(t, k, v, C, e, x) ==
    LET r == t.blk[x]
    IN  /\ r.first <=> x = t.index[k]
        /\ r.off + r.size > Pass(k) => r.val = v
        /\ x # e => r.link \in C /\ t.blk[r.link].off = r.off + r.size
        /\ x # t.index[k] => \E y \in C : y # e /\ t.blk[y].link = x
        /\ r.off <= t.blk[e].off
        /\ \A y \in C : /\ t.blk[y].off = r.off => y = x
                        /\ t.blk[y].off > r.off => t.blk[y].off >= r.off + r.size

\* C are the first slices, up to e, of a record that is len bytes long.
Live(t, k, v, len, C, e) ==
    /\ C \subseteq Owned(t, k) /\ t.index[k] \in C /\ e \in C
    /\ t.blk[t.index[k]].off = 0 /\ t.blk[t.index[k]].len = len
    /\ \A x \in C : LiveBlock(t, k, v, C, e, x)

\* How far a record is written when e is its last slice.
Upto(t, e) == t.blk[e].off + t.blk[e].size

\* The slices of k are one record of v, and e is the last one.
Chain(t, k, v, len, e) ==
    /\ v \in Val
    /\ Live(t, k, v, len, Owned(t, k), e)
    /\ t.blk[e].link = Null /\ Upto(t, e) = Size(k, v)

\* The slices of k are a record of v of length len.
Complete(t, k, v, len) == \E e \in Owned(t, k) : Chain(t, k, v, len, e)

\* Key k has one record, of value v, or none.
Whole(t, k, v) ==
    IF v = NoVal THEN Owned(t, k) = {} /\ t.index[k] = Null
    ELSE Complete(t, k, v, Size(k, v))

\* Block x, one of the slices O to be freed: none comes before r, and each that comes
\* after x comes after the one it is linked to.
OrphanBlock(t, O, r, x) ==
    LET b == t.blk[x]
    IN  /\ t.blk[r].off <= b.off
        /\ x # r => ~b.first
        /\ b.link # Null => b.link \in O /\ t.blk[b.link].off > b.off
        /\ \A y \in O : /\ t.blk[y].off = b.off => x = y
                        /\ t.blk[y].off > b.off => b.link # Null /\ t.blk[y].off >= t.blk[b.link].off

\* The slices O are those to be freed from r on.
Orphans(t, k, O, r) ==
    /\ O \subseteq Owned(t, k)
    /\ O = {} => r = Null
    /\ O # {} => r \in O
    /\ \A x \in O : OrphanBlock(t, O, r, x)

\* In the middle of a put for k: C is what is written of the record, up to e, left
\* bytes are missing, and O is what is to be freed, from r on.
Parts(t, k, v, e, left, r, C, O) ==
    /\ v \in Val
    /\ r # Null => ~t.blk[r].first
    /\ C \cup O = Owned(t, k) /\ C \cap O = {}
    /\ Live(t, k, v, Size(k, v), C, e)
    /\ Upto(t, e) + left = Size(k, v)
    /\ Orphans(t, k, O, r)

\* Key k's record is being put.
Partial(t, k, v, e, left, r) == \E C, O \in SUBSET Owned(t, k) : Parts(t, k, v, e, left, r, C, O)

\* What is left of a record that is freed as a whole.
Remains(t, k, r) == r # Null /\ ~t.blk[r].first /\ Orphans(t, k, Owned(t, k), r)

\* Key k has a record of an old value under the new length, and pass bytes of the key
\* remain from slice a on.
Skipping(t, k, v, a, pass) ==
    /\ v \in Val /\ pass \in Nat /\ pass > 0
    /\ a \in Owned(t, k) /\ t.blk[a].off + pass = Pass(k)
    /\ \E w \in Val : Complete(t, k, w, Size(k, v))

\* What the operation under way has made of its key's slices.
JobOK(t, p, j) ==
    /\ j.do = "append" => j.left > 0 /\ Partial(t, j.key, p[j.key], j.at, j.left, j.rest)
    /\ j.do = "write"  => j.left > 0 /\ Partial(t, j.key, p[j.key], j.at, j.left, t.blk[j.at].link)
    /\ j.do = "free"   => /\ j.rest # Null
                          /\ j.at = Null => Remains(t, j.key, j.rest)
                          /\ j.at # Null => Partial(t, j.key, p[j.key], j.at, 0, j.rest)
    /\ j.do = "skip"   => Skipping(t, j.key, p[j.key], j.at, j.left)
    /\ j.do = "read"   => /\ p[j.key] \in Val
                          /\ j.at \in Owned(t, j.key) /\ t.blk[j.at].off = j.left

\* The jobs in a table of m pages.
Jobs(m) ==
    [do : {"idle"}]
      \cup [do : {"append"}, key : Key, at : Address(m), left : Nat, rest : Address(m)]
      \cup [do : {"free"}, key : Key, at : Address(m), rest : Address(m)]
      \cup [do : {"skip", "write", "read"}, key : Key, at : Address(m), left : Nat]

\* Every slice belongs to a key.
HaveKeys(t) == \A x \in UsedIn(t) : t.blk[x].key \in Key

\* The records of all keys are whole, but for the one that an operation is at.
Records(t, p, j) ==
    /\ p \in [Key -> Val \cup {NoVal}]
    /\ j \in Jobs(t.max)
    /\ HaveKeys(t)
    /\ \A k \in Key : j.do \in {"idle", "read"} \/ k # j.key => Whole(t, k, p[k])
    /\ JobOK(t, p, j)

\* The invariant.
Good(t, p, j) == Space(t) /\ Records(t, p, j)

\* The records of the keys other than k are whole.
Others(t, p, k) ==
    /\ Space(t) /\ HaveKeys(t) /\ k \in Key
    /\ p \in [Key -> Val \cup {NoVal}]
    /\ \A q \in Key \ {k} : Whole(t, q, p[q])

\* A step from t to u leaves alone what is not k's.
Apart(t, u, k) ==
    /\ \A x \in UsedIn(t) : t.blk[x].key # k => x \in UsedIn(u) /\ Keeps(t, u, x)
    /\ \A x \in UsedIn(u) : u.blk[x].key # k => x \in UsedIn(t) /\ t.blk[x].key # k
    /\ \A q \in Key \ {k} : u.index[q] = t.index[q]

\* The lengths of a record.
LEMMA Lengths ==
    ASSUME NEW k \in Key, NEW v \in Val
    PROVE  /\ Pass(k) \in Nat /\ Pass(k) >= 8
           /\ ValLen[v] \in Nat /\ Size(k, v) = Pass(k) + ValLen[v] /\ Size(k, v) \in Nat
  BY LenAssumption DEF Pass, Size, LENGTHS

\* What is known of a block in use.
LEMMA UsedFacts ==
    ASSUME NEW t, Space(t), NEW x \in UsedIn(t)
    PROVE  /\ x \in DOMAIN t.blk /\ x # Null /\ x \in Address(t.max)
           /\ t.blk[x].size \in Nat /\ t.blk[x].size > 0 /\ t.blk[x].size <= PAGEMAXSPARE
           /\ t.blk[x].size <= Capacity(t, x) /\ Capacity(t, x) \in Nat
           /\ Capacity(t, x) <= PAGEMAXSPARE
           /\ t.blk[x].off \in Nat /\ t.blk[x].link \in Address(t.max)
           /\ t.blk[x] \in BlockSet(t.max)
  <1>1. x \in DOMAIN t.blk /\ t.blk[x].size # 0 /\ IsTable(t) /\ Tiled(t)
    BY DEF UsedIn, Space
  <1>2. x # Null /\ t.blk[x] \in BlockSet(t.max) /\ x \in Address(t.max)
    BY <1>1, Pages DEF IsTable
  <1>3. /\ Capacity(t, x) \in Nat /\ Capacity(t, x) <= PAGEMAXSPARE
        /\ t.blk[x].size <= Capacity(t, x) /\ t.blk[x].size \in Nat
    BY <1>1, ClassIn
  <1>4. t.blk[x].off \in Nat /\ t.blk[x].link \in Address(t.max)
    BY <1>2 DEF BlockSet
  <1> QED
    BY <1>1, <1>2, <1>3, <1>4, Bytes

\* What is known of a slice of k's record.
LEMMA OwnedFacts ==
    ASSUME NEW t, Space(t), NEW k, NEW x \in Owned(t, k)
    PROVE  /\ x \in UsedIn(t) /\ x \in DOMAIN t.blk /\ x # Null /\ x \in Address(t.max)
           /\ t.blk[x].size \in Nat /\ t.blk[x].size > 0 /\ t.blk[x].off \in Nat
           /\ t.blk[x].key = k /\ t.blk[x].link \in Address(t.max)
  BY UsedFacts DEF Owned

\* What two steps keep, both together keep.
LEMMA KeepsTrans ==
    ASSUME NEW t, NEW s, NEW u, NEW x, Keeps(t, s, x), Keeps(s, u, x)
    PROVE  Keeps(t, u, x)
  BY DEF Keeps

\* The first slices of a record stay what they are if a step keeps them.
LEMMA LiveFrame ==
    ASSUME NEW t, NEW u, NEW k, NEW v, NEW len, NEW C, NEW e, Live(t, k, v, len, C, e),
           u.index[k] = t.index[k], \A x \in C : Keeps(t, u, x)
    PROVE  Live(u, k, v, len, C, e) /\ Upto(u, e) = Upto(t, e)
  <1>1. C \subseteq Owned(u, k)
    BY DEF Live, Keeps, Owned, UsedIn
  <1>2. /\ u.index[k] \in C /\ e \in C /\ u.blk[u.index[k]].off = 0 /\ u.blk[u.index[k]].len = len
        /\ Upto(u, e) = Upto(t, e)
    BY DEF Live, Keeps, Upto
  <1>3. ASSUME NEW x \in C PROVE LiveBlock(u, k, v, C, e, x)
    <2>1. LiveBlock(t, k, v, C, e, x) /\ e \in C
      BY DEF Live
    <2> QED
      BY <2>1 DEF LiveBlock, Keeps
  <1> QED
    BY <1>1, <1>2, <1>3 DEF Live

\* The slices to be freed stay what they are if a step keeps them.
LEMMA OrphansFrame ==
    ASSUME NEW t, NEW u, NEW k, NEW O, NEW r, Orphans(t, k, O, r), \A x \in O : Keeps(t, u, x)
    PROVE  Orphans(u, k, O, r)
  <1>1. O \subseteq Owned(u, k)
    BY DEF Orphans, Keeps, Owned, UsedIn
  <1>2. ASSUME NEW x \in O PROVE OrphanBlock(u, O, r, x)
    <2>1. OrphanBlock(t, O, r, x) /\ r \in O
      BY DEF Orphans
    <2> QED
      BY <2>1 DEF OrphanBlock, Keeps
  <1> QED
    BY <1>1, <1>2 DEF Orphans

\* A record stays whole if a step keeps its slices.
LEMMA WholeFrame ==
    ASSUME NEW t, NEW u, NEW q, NEW v, Whole(t, q, v), Owned(u, q) = Owned(t, q),
           u.index[q] = t.index[q], \A x \in Owned(t, q) : Keeps(t, u, x)
    PROVE  Whole(u, q, v)
  <1>1. CASE v = NoVal
    BY <1>1 DEF Whole
  <1>2. CASE v # NoVal
    <2>1. PICK e \in Owned(t, q) : Chain(t, q, v, Size(q, v), e)
      BY <1>2 DEF Whole, Complete
    <2>2. Live(u, q, v, Size(q, v), Owned(u, q), e) /\ Upto(u, e) = Upto(t, e)
      BY <2>1, LiveFrame DEF Chain
    <2>3. Chain(u, q, v, Size(q, v), e)
      BY <2>1, <2>2 DEF Chain, Keeps
    <2> QED
      BY <2>3, <1>2 DEF Whole, Complete
  <1> QED
    BY <1>1, <1>2

\* The records of other keys stay whole in a step that leaves them alone.
LEMMA OthersFrame ==
    ASSUME NEW t, NEW u, NEW p, NEW k, Others(t, p, k), Space(u), Apart(t, u, k)
    PROVE  Others(u, p, k)
  <1>1. HaveKeys(u)
    BY DEF Others, HaveKeys, Apart, Keeps
  <1>2. ASSUME NEW q \in Key \ {k} PROVE Whole(u, q, p[q])
    <2>1. \A x \in Owned(t, q) : x \in UsedIn(u) /\ Keeps(t, u, x)
      BY DEF Owned, Apart
    <2>2. \A x \in Owned(u, q) : x \in UsedIn(t) /\ Keeps(t, u, x)
      BY DEF Owned, Apart
    <2>3. Owned(u, q) = Owned(t, q)
      BY <2>1, <2>2 DEF Owned, Keeps
    <2> QED
      BY <2>1, <2>3, WholeFrame DEF Others, Apart
  <1> QED
    BY <1>1, <1>2 DEF Others

\* The invariant between two operations.
LEMMA IdleGood ==
    ASSUME NEW u, NEW p, NEW k, Others(u, p, k), Whole(u, k, p[k])
    PROVE  Good(u, p, Idle)
  BY DEF Others, Good, Records, Idle, Jobs, JobOK

\* The invariant in the middle of an operation.
LEMMA JobGood ==
    ASSUME NEW u, NEW p, NEW j, j \in Jobs(u.max), j.do # "idle", Others(u, p, j.key), JobOK(u, p, j),
           j.do # "read"
    PROVE  Good(u, p, j)
  BY DEF Others, Good, Records

\* The invariant holds of the table that a step goes on with.
LEMMA GoesGood ==
    ASSUME NEW u, NEW p, NEW j, Good(u, p, j), Goes(u, j), put' = p
    PROVE  Good(Table, put, job)'
  <1> DEFINE T == Table'
  <1>1. T = [blk |-> blk', frag |-> frag', free |-> free', max |-> max', index |-> index', at |-> Null]
    BY DEF Table
  <1> HIDE DEF T
  <1>2. /\ T.blk = u.blk /\ T.frag = u.frag /\ T.free = u.free /\ T.max = u.max /\ T.index = u.index
        /\ T.at = Null /\ job' = j
    BY <1>1 DEF Goes
  <1>3. T = [blk |-> T.blk, frag |-> T.frag, free |-> T.free, max |-> T.max, index |-> T.index, at |-> T.at]
    BY <1>1
  <1>4. IsTable(T)
    <2>1. Null \in Address(u.max)
      BY NullAddress DEF Good, Space, IsTable
    <2> QED
      BY <2>1, <1>2, <1>3 DEF Good, Space, IsTable
  <1>5. FreeIn(T) = FreeIn(u) /\ UsedIn(T) = UsedIn(u)
    BY <1>2 DEF FreeIn, UsedIn
  <1>6. Space(T)
    <2>1. /\ \A x \in FreeIn(u) : T.blk[x] = u.blk[x]
          /\ \A x \in UsedIn(u) : /\ T.blk[x].next = u.blk[x].next
                                  /\ T.blk[x].size # 0 /\ T.blk[x].size <= Capacity(u, x)
      BY <1>2, UsedFacts DEF Good, UsedIn
    <2> QED
      BY <2>1, <1>2, <1>4, SpaceFrame DEF Good
  <1>7. Records(T, p, j)
    <2>1. \A k : Owned(T, k) = Owned(u, k)
      BY <1>2, <1>5 DEF Owned
    <2>2. \A k, v : Whole(u, k, v) => Whole(T, k, v)
      BY <1>2, <2>1 DEF Whole, Complete, Chain, Live, LiveBlock, Upto
    <2>3. ASSUME NEW k, NEW v, NEW e, NEW left, NEW r, Partial(u, k, v, e, left, r)
          PROVE  Partial(T, k, v, e, left, r)
      <3>1. PICK C, O \in SUBSET Owned(u, k) : Parts(u, k, v, e, left, r, C, O)
        BY <2>3 DEF Partial
      <3>2. Live(T, k, v, Size(k, v), C, e) /\ Upto(T, e) = Upto(u, e)
        BY <3>1, <1>2, <2>1 DEF Parts, Live, LiveBlock, Upto
      <3>3. Orphans(T, k, O, r)
        BY <3>1, <1>2, <2>1 DEF Parts, Orphans, OrphanBlock
      <3>4. Parts(T, k, v, e, left, r, C, O)
        BY <3>1, <3>2, <3>3, <1>2, <2>1 DEF Parts
      <3> QED
        BY <3>4, <2>1 DEF Partial
    <2>4. \A k, r : Remains(u, k, r) => Remains(T, k, r)
      BY <1>2, <2>1 DEF Remains, Orphans, OrphanBlock
    <2>5. \A k, v, a, pass : Skipping(u, k, v, a, pass) => Skipping(T, k, v, a, pass)
      <3>1. \A k, v, len : Complete(u, k, v, len) => Complete(T, k, v, len)
        BY <1>2, <2>1 DEF Complete, Chain, Live, LiveBlock, Upto
      <3> QED
        BY <3>1, <1>2, <2>1 DEF Skipping
    <2>6. JobOK(T, p, j)
      <3>1. JobOK(u, p, j)
        BY DEF Good, Records
      <3> QED
        BY <3>1, <1>2, <2>1, <2>3, <2>4, <2>5 DEF JobOK
    <2> QED
      BY <1>2, <1>5, <2>2, <2>6 DEF Good, Records, HaveKeys
  <1> QED
    BY <1>2, <1>6, <1>7 DEF Good, T

-------------------------------------------------------------------------------
(* Slices of one record *)

\* Block x holds in u what it holds in t; it may be linked to another block.
Holds(t, u, x) ==
    /\ x \in DOMAIN u.blk
    /\ u.blk[x].size = t.blk[x].size /\ u.blk[x].first = t.blk[x].first
    /\ u.blk[x].len = t.blk[x].len /\ u.blk[x].key = t.blk[x].key
    /\ u.blk[x].val = t.blk[x].val /\ u.blk[x].off = t.blk[x].off

\* One more slice behind the last one.
LEMMA Extend ==
    ASSUME NEW t, NEW u, Space(t), NEW k \in Key, NEW v, NEW len, NEW C, NEW e, NEW b,
           Live(t, k, v, len, C, e), u.index[k] = t.index[k],
           \A x \in C : Holds(t, u, x), \A x \in C \ {e} : u.blk[x].link = t.blk[x].link,
           u.blk[e].link = b, b \notin C, b \in Owned(u, k), u.blk[b].off = Upto(t, e),
           ~u.blk[b].first, u.blk[b].size \in Nat, u.blk[b].size > 0,
           u.blk[b].off + u.blk[b].size > Pass(k) => u.blk[b].val = v
    PROVE  Live(u, k, v, len, C \cup {b}, b)
  <1> DEFINE D == C \cup {b}
  <1>1. /\ C \subseteq Owned(t, k) /\ t.index[k] \in C /\ e \in C
        /\ t.blk[t.index[k]].off = 0 /\ t.blk[t.index[k]].len = len
        /\ \A x \in C : LiveBlock(t, k, v, C, e, x)
    BY DEF Live
  <1>2. \A x \in C : x \in Owned(u, k)
    BY <1>1 DEF Owned, UsedIn, Holds
  <1>3. \A x \in C : /\ t.blk[x].size \in Nat /\ t.blk[x].size > 0 /\ t.blk[x].off \in Nat
                     /\ u.blk[x].size = t.blk[x].size /\ u.blk[x].off = t.blk[x].off
    BY <1>1, OwnedFacts DEF Holds
  <1>4. /\ u.blk[b].off = t.blk[e].off + t.blk[e].size /\ u.blk[b].off \in Nat
        /\ \A x \in C : t.blk[x].off < u.blk[b].off
    <2>1. u.blk[b].off = t.blk[e].off + t.blk[e].size
      BY DEF Upto
    <2>2. \A x \in C : t.blk[x].off <= t.blk[e].off
      BY <1>1 DEF LiveBlock
    <2> QED
      BY <2>1, <2>2, <1>1, <1>3
  <1>5. ASSUME NEW x \in C PROVE u.blk[b].off >= t.blk[x].off + t.blk[x].size
    <2>1. CASE x = e
      BY <2>1, <1>3, <1>4
    <2>2. CASE x # e
      <3>1. t.blk[x].off <= t.blk[e].off /\ t.blk[e].off # t.blk[x].off
        BY <2>2, <1>1 DEF LiveBlock
      <3>2. t.blk[e].off >= t.blk[x].off + t.blk[x].size
        BY <3>1, <1>1, <1>3 DEF LiveBlock
      <3> QED
        BY <3>2, <1>1, <1>3, <1>4
    <2> QED
      BY <2>1, <2>2
  <1>6. ASSUME NEW x \in C PROVE LiveBlock(u, k, v, D, b, x)
    <2>1. LiveBlock(t, k, v, C, e, x) /\ Holds(t, u, x) /\ x # b
      BY <1>1
    <2>2. (u.blk[x].first <=> x = u.index[k]) /\ (u.blk[x].off + u.blk[x].size > Pass(k) => u.blk[x].val = v)
      BY <2>1 DEF LiveBlock, Holds
    <2>3. u.blk[x].link \in D /\ u.blk[u.blk[x].link].off = u.blk[x].off + u.blk[x].size
      <3>1. CASE x = e
        BY <3>1, <1>3, <1>4
      <3>2. CASE x # e
        BY <3>2, <2>1, <1>3 DEF LiveBlock
      <3> QED
        BY <3>1, <3>2
    <2>4. x # u.index[k] => \E y \in D : y # b /\ u.blk[y].link = x
      <3>1. x # t.index[k] => \E y \in C : y # e /\ t.blk[y].link = x
        BY <2>1 DEF LiveBlock
      <3> QED
        BY <3>1
    <2>5. u.blk[x].off <= u.blk[b].off
      BY <1>3, <1>4
    <2>6. \A y \in D : /\ u.blk[y].off = u.blk[x].off => y = x
                       /\ u.blk[y].off > u.blk[x].off => u.blk[y].off >= u.blk[x].off + u.blk[x].size
      <3>1. \A y \in C : /\ t.blk[y].off = t.blk[x].off => y = x
                         /\ t.blk[y].off > t.blk[x].off => t.blk[y].off >= t.blk[x].off + t.blk[x].size
        BY <2>1 DEF LiveBlock
      <3> QED
        BY <3>1, <1>3, <1>4, <1>5
    <2> QED
      BY <2>1, <2>2, <2>3, <2>4, <2>5, <2>6 DEF LiveBlock
  <1>7. LiveBlock(u, k, v, D, b, b)
    <2>1. b # u.index[k]
      BY <1>1
    <2>2. \E y \in D : y # b /\ u.blk[y].link = b
      BY <1>1
    <2>3. \A y \in D : /\ u.blk[y].off = u.blk[b].off => y = b
                       /\ u.blk[y].off > u.blk[b].off => u.blk[y].off >= u.blk[b].off + u.blk[b].size
      BY <1>3, <1>4
    <2> QED
      BY <2>1, <2>2, <2>3, <1>4 DEF LiveBlock
  <1> QED
    BY <1>1, <1>2, <1>3, <1>6, <1>7 DEF Live, Holds

\* The first slice of a record.
LEMMA FirstLive ==
    ASSUME NEW u, Space(u), NEW k \in Key, NEW v, NEW len, NEW b \in Owned(u, k), u.index[k] = b,
           u.blk[b].off = 0, u.blk[b].len = len, u.blk[b].first,
           u.blk[b].off + u.blk[b].size > Pass(k) => u.blk[b].val = v
    PROVE  Live(u, k, v, len, {b}, b)
  <1>1. LiveBlock(u, k, v, {b}, b, b)
    BY DEF LiveBlock
  <1> QED
    BY <1>1 DEF Live

\* When one slice is freed those linked behind it are still to be freed.
LEMMA OrphansTail ==
    ASSUME NEW t, Space(t), NEW k, NEW O, NEW r, Orphans(t, k, O, r), r # Null
    PROVE  r \in O /\ Orphans(t, k, O \ {r}, t.blk[r].link)
  <1> DEFINE n == t.blk[r].link
  <1>1. /\ O \subseteq Owned(t, k) /\ r \in O /\ \A x \in O : OrphanBlock(t, O, r, x)
    BY DEF Orphans
  <1>2. \A x \in O : t.blk[x].off \in Nat /\ x # Null
    BY <1>1, OwnedFacts
  <1>3. n # Null => n \in O /\ t.blk[n].off > t.blk[r].off
    BY <1>1 DEF OrphanBlock
  <1>4. ASSUME NEW x \in O \ {r}
        PROVE  t.blk[x].off > t.blk[r].off /\ n # Null /\ t.blk[x].off >= t.blk[n].off
    <2>1. t.blk[r].off <= t.blk[x].off /\ t.blk[x].off # t.blk[r].off
      BY <1>1 DEF OrphanBlock
    <2>2. t.blk[x].off > t.blk[r].off
      BY <2>1, <1>1, <1>2
    <2> QED
      BY <2>2, <1>1 DEF OrphanBlock
  <1>5. n # Null => n \in O \ {r}
    BY <1>1, <1>2, <1>3
  <1>6. ASSUME NEW x \in O \ {r} PROVE OrphanBlock(t, O \ {r}, n, x)
    <2>1. OrphanBlock(t, O, r, x) /\ t.blk[n].off <= t.blk[x].off /\ ~t.blk[x].first
      BY <1>1, <1>2, <1>4, <1>5 DEF OrphanBlock
    <2>2. t.blk[x].link # Null => t.blk[x].link \in O \ {r}
      <3>1. t.blk[x].link # Null => t.blk[x].link \in O /\ t.blk[t.blk[x].link].off > t.blk[x].off
        BY <1>1 DEF OrphanBlock
      <3> QED
        BY <3>1, <1>1, <1>2, <1>4
    <2> QED
      BY <2>1, <2>2 DEF OrphanBlock
  <1>7. Orphans(t, k, O \ {r}, n)
    BY <1>1, <1>4, <1>5, <1>6 DEF Orphans
  <1> QED
    BY <1>1, <1>7

\* The next slice to be freed is not the first of a record.
LEMMA OrphansNext ==
    ASSUME NEW t, Space(t), NEW k, NEW O, NEW r, Orphans(t, k, O, r), r # Null, t.blk[r].link # Null
    PROVE  t.blk[r].link \in O \ {r} /\ ~t.blk[t.blk[r].link].first
  <1> DEFINE n == t.blk[r].link
  <1>1. n \in O \ {r}
    <2>1. Orphans(t, k, O \ {r}, n) /\ O \ {r} \subseteq Owned(t, k)
      BY OrphansTail DEF Orphans
    <2>2. r \in O /\ OrphanBlock(t, O, r, r) /\ r \in Owned(t, k)
      BY DEF Orphans
    <2>3. t.blk[r].off \in Nat
      BY <2>2, OwnedFacts
    <2> QED
      BY <2>2, <2>3 DEF OrphanBlock
  <1>2. OrphanBlock(t, O, r, n)
    BY <1>1 DEF Orphans
  <1> QED
    BY <1>1, <1>2 DEF OrphanBlock

\* Nothing to be freed.
LEMMA NoOrphans == ASSUME NEW t, NEW k PROVE Orphans(t, k, {}, Null)
  BY DEF Orphans

\* The slices of k's record up to block a, and those after it
Before(t, k, a) == {x \in Owned(t, k) : t.blk[x].off <= t.blk[a].off}
After(t, k, a)  == {x \in Owned(t, k) : t.blk[x].off > t.blk[a].off}

\* A complete record can be cut after any of its blocks a.
LEMMA Split ==
    ASSUME NEW t, Space(t), NEW k \in Key, NEW w \in Val, NEW len, Complete(t, k, w, len),
           NEW a \in Owned(t, k), NEW n, n = t.blk[a].link,
           NEW C, C = Before(t, k, a), NEW O, O = After(t, k, a)
    PROVE  /\ Live(t, k, w, len, C, a) /\ Orphans(t, k, O, n)
           /\ C \cup O = Owned(t, k) /\ C \cap O = {}
           /\ n # Null => n \in O /\ ~t.blk[n].first
           /\ \A x \in C \ {a} : t.blk[x].off + t.blk[x].size <= t.blk[a].off
  <1> USE DEF Before, After
  <1> DEFINE W == Owned(t, k)
  <1>1. PICK e \in W : Chain(t, k, w, len, e)
    BY DEF Complete
  <1>2. /\ t.index[k] \in W /\ e \in W
        /\ t.blk[t.index[k]].off = 0 /\ t.blk[t.index[k]].len = len
        /\ \A x \in W : LiveBlock(t, k, w, W, e, x)
        /\ t.blk[e].link = Null
    BY <1>1 DEF Chain, Live
  <1>3. \A x \in W : x # Null /\ t.blk[x].off \in Nat /\ t.blk[x].size \in Nat /\ t.blk[x].size > 0
    BY OwnedFacts
  <1>4. C \cup O = W /\ C \cap O = {} /\ C \subseteq W /\ O \subseteq W
    BY <1>3
  <1>5. \A x \in W : x # e => t.blk[x].link \in W /\ t.blk[x].link # Null
                              /\ t.blk[t.blk[x].link].off = t.blk[x].off + t.blk[x].size
    BY <1>2, <1>3 DEF LiveBlock
  <1>6. \A x, y \in W : /\ t.blk[y].off = t.blk[x].off => y = x
                        /\ t.blk[y].off > t.blk[x].off => t.blk[y].off >= t.blk[x].off + t.blk[x].size
    BY <1>2 DEF LiveBlock
  <1>7. \A x \in C \ {a} : x \in W /\ t.blk[x].off + t.blk[x].size <= t.blk[a].off
    BY <1>3, <1>4, <1>6
  <1>8. \A x \in O : x # t.index[k]
    BY <1>2, <1>3
  <1>9. \A x \in W : (\E y \in W : t.blk[y].off > t.blk[x].off) => x # e
    <2>1. \A x \in W : t.blk[x].off <= t.blk[e].off
      BY <1>2 DEF LiveBlock
    <2> QED
      BY <2>1, <1>3
  <1>10. ASSUME NEW x \in C PROVE LiveBlock(t, k, w, C, a, x)
    <2>1. LiveBlock(t, k, w, W, e, x) /\ x \in W
      BY <1>2, <1>4
    <2>2. x # a => t.blk[x].link \in C /\ t.blk[t.blk[x].link].off = t.blk[x].off + t.blk[x].size
      <3>1. SUFFICES ASSUME x # a PROVE t.blk[x].link \in C /\ t.blk[t.blk[x].link].off = t.blk[x].off + t.blk[x].size
        OBVIOUS
      <3>2. t.blk[x].off + t.blk[x].size <= t.blk[a].off
        BY <3>1, <1>7
      <3>3. x # e
        BY <3>2, <2>1, <1>3, <1>9
      <3> QED
        BY <3>2, <3>3, <2>1, <1>5
    <2>3. x # t.index[k] => \E y \in C : y # a /\ t.blk[y].link = x
      <3>1. SUFFICES ASSUME x # t.index[k] PROVE \E y \in C : y # a /\ t.blk[y].link = x
        OBVIOUS
      <3>2. PICK y \in W : y # e /\ t.blk[y].link = x
        BY <3>1, <2>1 DEF LiveBlock
      <3>3. t.blk[x].off = t.blk[y].off + t.blk[y].size
        BY <3>2, <1>5
      <3>4. t.blk[y].off < t.blk[x].off /\ t.blk[x].off <= t.blk[a].off
        BY <3>3, <2>1, <1>3
      <3>5. t.blk[y].off <= t.blk[a].off /\ y # a
        BY <3>4, <2>1, <1>3
      <3> QED
        BY <3>2, <3>5
    <2>4. t.blk[x].off <= t.blk[a].off
      OBVIOUS
    <2>5. \A y \in C : /\ t.blk[y].off = t.blk[x].off => y = x
                       /\ t.blk[y].off > t.blk[x].off => t.blk[y].off >= t.blk[x].off + t.blk[x].size
      BY <2>1, <1>4, <1>6
    <2>6. (t.blk[x].first <=> x = t.index[k]) /\ (t.blk[x].off + t.blk[x].size > Pass(k) => t.blk[x].val = w)
      BY <2>1 DEF LiveBlock
    <2> HIDE DEF W
    <2> QED
      BY <2>2, <2>3, <2>4, <2>5, <2>6 DEF LiveBlock
  <1>11. Live(t, k, w, len, C, a)
    <2>1. t.index[k] \in C /\ a \in C
      BY <1>2, <1>3
    <2> QED
      BY <2>1, <1>2, <1>4, <1>10 DEF Live
  <1>12. n # Null => n \in O /\ a # e
    BY <1>2, <1>3, <1>5
  <1>13. ASSUME NEW x \in O PROVE OrphanBlock(t, O, n, x) /\ n # Null
    <2>1. x \in W /\ t.blk[x].off > t.blk[a].off /\ a # e
      BY <1>9
    <2>2. n \in W /\ n # Null /\ t.blk[n].off = t.blk[a].off + t.blk[a].size
      BY <2>1, <1>5
    <2>3. t.blk[n].off <= t.blk[x].off
      BY <2>1, <2>2, <1>6
    <2>4. ~t.blk[x].first
      BY <2>1, <1>2, <1>8 DEF LiveBlock
    <2>5. t.blk[x].link # Null => t.blk[x].link \in O /\ t.blk[t.blk[x].link].off > t.blk[x].off
      <3>1. SUFFICES ASSUME t.blk[x].link # Null PROVE t.blk[x].link \in O /\ t.blk[t.blk[x].link].off > t.blk[x].off
        OBVIOUS
      <3>2. x # e
        BY <3>1, <1>2
      <3>3. t.blk[x].link \in W /\ t.blk[t.blk[x].link].off = t.blk[x].off + t.blk[x].size
        BY <3>2, <2>1, <1>5
      <3> QED
        BY <3>3, <2>1, <1>3
    <2>6. \A y \in O : /\ t.blk[y].off = t.blk[x].off => x = y
                       /\ t.blk[y].off > t.blk[x].off => t.blk[x].link # Null /\ t.blk[y].off >= t.blk[t.blk[x].link].off
      <3>1. ASSUME NEW y \in O, t.blk[y].off > t.blk[x].off
            PROVE  t.blk[x].link # Null /\ t.blk[y].off >= t.blk[t.blk[x].link].off
        <4>1. x # e /\ y \in W
          BY <3>1, <2>1, <1>9
        <4> QED
          BY <3>1, <4>1, <2>1, <1>5, <1>6
      <3>2. \A y \in O : t.blk[y].off = t.blk[x].off => x = y
        BY <2>1, <1>6
      <3> QED
        BY <3>1, <3>2
    <2> HIDE DEF W
    <2> QED
      BY <2>2, <2>3, <2>4, <2>5, <2>6 DEF OrphanBlock
  <1>14. Orphans(t, k, O, n)
    <2>1. O = {} => n = Null
      BY <1>12
    <2>2. O # {} => n \in O
      BY <1>12, <1>13
    <2> QED
      BY <2>1, <2>2, <1>4, <1>13 DEF Orphans
  <1>15. n # Null => ~t.blk[n].first
    BY <1>12, <1>2, <1>4, <1>8 DEF LiveBlock
  <1> QED
    BY <1>4, <1>7, <1>11, <1>12, <1>14, <1>15

\* All blocks of a complete record can be freed from its first one on.
LEMMA AllOrphans ==
    ASSUME NEW t, Space(t), NEW k \in Key, NEW v, NEW len, Complete(t, k, v, len)
    PROVE  Orphans(t, k, Owned(t, k), t.index[k]) /\ t.index[k] \in Owned(t, k)
  <1> DEFINE W == Owned(t, k)
  <1>1. PICK e \in W : Chain(t, k, v, len, e)
    BY DEF Complete
  <1>2. /\ t.index[k] \in W /\ e \in W
        /\ t.blk[t.index[k]].off = 0
        /\ \A x \in W : LiveBlock(t, k, v, W, e, x)
        /\ t.blk[e].link = Null
    BY <1>1 DEF Chain, Live
  <1>3. \A x \in W : x # Null /\ t.blk[x].off \in Nat /\ t.blk[x].size \in Nat /\ t.blk[x].size > 0
    BY OwnedFacts
  <1>4. ASSUME NEW x \in W PROVE OrphanBlock(t, W, t.index[k], x)
    <2>1. LiveBlock(t, k, v, W, e, x)
      BY <1>2
    <2>2. t.blk[t.index[k]].off <= t.blk[x].off
      BY <1>2, <1>3
    <2>3. x # t.index[k] => ~t.blk[x].first
      BY <2>1 DEF LiveBlock
    <2>4. x # e => t.blk[x].link \in W /\ t.blk[x].link # Null
                   /\ t.blk[t.blk[x].link].off = t.blk[x].off + t.blk[x].size
      BY <2>1, <1>3 DEF LiveBlock
    <2>5. t.blk[x].link # Null => t.blk[x].link \in W /\ t.blk[t.blk[x].link].off > t.blk[x].off
      BY <2>4, <1>2, <1>3
    <2>6. ASSUME NEW y \in W
          PROVE  /\ t.blk[y].off = t.blk[x].off => x = y
                 /\ t.blk[y].off > t.blk[x].off => t.blk[x].link # Null /\ t.blk[y].off >= t.blk[t.blk[x].link].off
      <3>1. /\ t.blk[y].off = t.blk[x].off => y = x
            /\ t.blk[y].off > t.blk[x].off => t.blk[y].off >= t.blk[x].off + t.blk[x].size
        BY <2>1 DEF LiveBlock
      <3>2. t.blk[y].off > t.blk[x].off => x # e
        <4>1. t.blk[y].off <= t.blk[e].off
          BY <1>2 DEF LiveBlock
        <4> QED
          BY <4>1, <1>3
      <3> QED
        BY <3>1, <3>2, <2>4
    <2> HIDE DEF W
    <2> QED
      BY <2>2, <2>3, <2>5, <2>6 DEF OrphanBlock
  <1> QED
    BY <1>2, <1>4 DEF Orphans

-------------------------------------------------------------------------------
(* Changes of one slice *)

\* Single changes of a table.
Rewrite(t, a, r) == [t EXCEPT !.blk[a] = r]
Relink(t, a, b)  == [t EXCEPT !.blk[a].link = b]
Relen(t, a, len) == [t EXCEPT !.blk[a].len = len]
Reindex(t, k, b) == [t EXCEPT !.index[k] = b]
Moved(t, a)      == [t EXCEPT !.at = a]

\* Writing a block in use within its room keeps the space.
LEMMA Touch ==
    ASSUME NEW t, Space(t), NEW a \in UsedIn(t), NEW r \in BlockSet(t.max),
           r.next = t.blk[a].next, r.size # 0, r.size <= Capacity(t, a),
           NEW u, u = Rewrite(t, a, r)
    PROVE  /\ Space(u) /\ UsedIn(u) = UsedIn(t) /\ DOMAIN u.blk = DOMAIN t.blk
           /\ u.blk[a] = r /\ \A x \in DOMAIN t.blk : x # a => u.blk[x] = t.blk[x]
           /\ u.index = t.index /\ u.at = t.at /\ u.max = t.max
  <1>1. a \in DOMAIN t.blk /\ a \notin FreeIn(t) /\ IsTable(t)
    BY DEF UsedIn, FreeIn, Space
  <1>2. /\ IsTable(u) /\ Rest(t, u) /\ u.frag = t.frag /\ DOMAIN u.blk = DOMAIN t.blk
        /\ u.blk[a] = r /\ \A x \in DOMAIN t.blk : x # a => u.blk[x] = t.blk[x]
    BY <1>1, WithBlock DEF Rewrite
  <1>3. \A x \in UsedIn(t) : /\ u.blk[x].next = t.blk[x].next
                             /\ u.blk[x].size # 0 /\ u.blk[x].size <= Capacity(t, x)
    <2>1. \A x \in UsedIn(t) : x \in DOMAIN t.blk /\ t.blk[x].size # 0 /\ t.blk[x].size <= Capacity(t, x)
      BY UsedFacts DEF UsedIn
    <2> QED
      BY <2>1, <1>2
  <1>4. \A x \in FreeIn(t) : u.blk[x] = t.blk[x]
    BY <1>1, <1>2 DEF FreeIn
  <1>5. Space(u) /\ UsedIn(u) = UsedIn(t)
    <2>1. u.max = t.max /\ u.free = t.free
      BY <1>2 DEF Rest
    <2> QED
      BY <2>1, <1>2, <1>3, <1>4, SpaceFrame
  <1> QED
    BY <1>2, <1>5 DEF Rest

\* What a slice that is written holds.
LEMMA WriteFacts ==
    ASSUME NEW t, Space(t), NEW a \in UsedIn(t), NEW k \in Key, NEW v \in Val, NEW off \in Nat,
           NEW size \in Nat, size > 0, size <= Capacity(t, a), NEW u, u = Write(t, a, k, v, off, size)
    PROVE  /\ Space(u) /\ UsedIn(u) = UsedIn(t) /\ a \in Owned(u, k)
           /\ \A x \in DOMAIN t.blk : x # a => u.blk[x] = t.blk[x]
           /\ u.blk[a].size = size /\ u.blk[a].off = off /\ u.blk[a].key = k /\ u.blk[a].val = v
           /\ u.blk[a].link = t.blk[a].link /\ u.blk[a].first = t.blk[a].first
           /\ u.blk[a].len = t.blk[a].len /\ u.blk[a].next = t.blk[a].next
           /\ u.index = t.index /\ u.at = t.at /\ u.max = t.max
  <1> DEFINE r == [t.blk[a] EXCEPT !.size = size, !.off = off, !.key = k, !.val = v]
  <1>1. u = Rewrite(t, a, r)
    BY DEF Write, Rewrite
  <1>2. t.blk[a] \in BlockSet(t.max) /\ Capacity(t, a) <= PAGEMAXSPARE /\ Capacity(t, a) \in Nat
    BY UsedFacts
  <1>3. size \in 0..PAGEMAXSPARE
    BY <1>2, Bytes
  <1>4. /\ r \in BlockSet(t.max) /\ r.size = size /\ r.off = off /\ r.key = k /\ r.val = v
        /\ r.link = t.blk[a].link /\ r.first = t.blk[a].first
        /\ r.len = t.blk[a].len /\ r.next = t.blk[a].next
    BY <1>2, <1>3 DEF BlockSet
  <1> HIDE DEF r
  <1>5. /\ Space(u) /\ UsedIn(u) = UsedIn(t) /\ DOMAIN u.blk = DOMAIN t.blk
        /\ u.blk[a] = r /\ \A x \in DOMAIN t.blk : x # a => u.blk[x] = t.blk[x]
        /\ u.index = t.index /\ u.at = t.at /\ u.max = t.max
    BY <1>1, <1>4, Touch
  <1> QED
    BY <1>4, <1>5 DEF Owned

\* Linking a slice keeps the space and what it holds.
LEMMA LinkFacts ==
    ASSUME NEW t, Space(t), NEW a \in UsedIn(t), NEW b \in Address(t.max),
           NEW u, u = Relink(t, a, b)
    PROVE  /\ Space(u) /\ UsedIn(u) = UsedIn(t)
           /\ \A x \in DOMAIN t.blk : x # a => u.blk[x] = t.blk[x]
           /\ Holds(t, u, a) /\ u.blk[a].link = b
           /\ u.index = t.index /\ u.at = t.at /\ u.max = t.max
  <1> DEFINE r == [t.blk[a] EXCEPT !.link = b]
  <1>1. u = Rewrite(t, a, r)
    BY DEF Rewrite, Relink, Relen
  <1>2. /\ t.blk[a] \in BlockSet(t.max) /\ t.blk[a].size > 0 /\ t.blk[a].size <= Capacity(t, a)
        /\ t.blk[a].size \in Nat
    BY UsedFacts
  <1>3. /\ r \in BlockSet(t.max) /\ r.size = t.blk[a].size /\ r.off = t.blk[a].off
        /\ r.key = t.blk[a].key /\ r.val = t.blk[a].val /\ r.link = b
        /\ r.first = t.blk[a].first /\ r.len = t.blk[a].len /\ r.next = t.blk[a].next
    BY <1>2 DEF BlockSet
  <1> HIDE DEF r
  <1>4. /\ Space(u) /\ UsedIn(u) = UsedIn(t) /\ DOMAIN u.blk = DOMAIN t.blk
        /\ u.blk[a] = r /\ \A x \in DOMAIN t.blk : x # a => u.blk[x] = t.blk[x]
        /\ u.index = t.index /\ u.at = t.at /\ u.max = t.max
    BY <1>1, <1>2, <1>3, Touch
  <1> QED
    BY <1>3, <1>4 DEF Holds, UsedIn

\* The new lengths of a record keep the space and the rest of the slice.
LEMMA LenFacts ==
    ASSUME NEW t, Space(t), NEW a \in UsedIn(t), NEW len \in Nat,
           NEW u, u = Relen(t, a, len)
    PROVE  /\ Space(u) /\ UsedIn(u) = UsedIn(t)
           /\ \A x \in DOMAIN t.blk : x # a => u.blk[x] = t.blk[x]
           /\ u.blk[a].len = len /\ u.blk[a].link = t.blk[a].link
           /\ u.blk[a].size = t.blk[a].size /\ u.blk[a].off = t.blk[a].off
           /\ u.blk[a].key = t.blk[a].key /\ u.blk[a].val = t.blk[a].val
           /\ u.blk[a].first = t.blk[a].first
           /\ u.index = t.index /\ u.at = t.at /\ u.max = t.max
  <1> DEFINE r == [t.blk[a] EXCEPT !.len = len]
  <1>1. u = Rewrite(t, a, r)
    BY DEF Rewrite, Relink, Relen
  <1>2. /\ t.blk[a] \in BlockSet(t.max) /\ t.blk[a].size > 0 /\ t.blk[a].size <= Capacity(t, a)
        /\ t.blk[a].size \in Nat
    BY UsedFacts
  <1>3. /\ r \in BlockSet(t.max) /\ r.size = t.blk[a].size /\ r.off = t.blk[a].off
        /\ r.key = t.blk[a].key /\ r.val = t.blk[a].val /\ r.link = t.blk[a].link
        /\ r.first = t.blk[a].first /\ r.len = len /\ r.next = t.blk[a].next
    BY <1>2 DEF BlockSet
  <1> HIDE DEF r
  <1>4. /\ Space(u) /\ UsedIn(u) = UsedIn(t) /\ DOMAIN u.blk = DOMAIN t.blk
        /\ u.blk[a] = r /\ \A x \in DOMAIN t.blk : x # a => u.blk[x] = t.blk[x]
        /\ u.index = t.index /\ u.at = t.at /\ u.max = t.max
    BY <1>1, <1>2, <1>3, Touch
  <1> QED
    BY <1>3, <1>4

\* The index changes for one key only.
LEMMA IndexFacts ==
    ASSUME NEW t, Space(t), NEW k \in Key, NEW b \in Address(t.max),
           NEW u, u = Reindex(t, k, b)
    PROVE  /\ Space(u) /\ UsedIn(u) = UsedIn(t) /\ u.blk = t.blk
           /\ u.index[k] = b /\ \A q \in Key \ {k} : u.index[q] = t.index[q]
           /\ u.at = t.at /\ u.max = t.max
  <1>1. /\ u.blk = t.blk /\ u.frag = t.frag /\ u.free = t.free /\ u.at = t.at /\ u.max = t.max
        /\ u.index = [t.index EXCEPT ![k] = b]
    BY DEF Space, IsTable, Reindex
  <1>2. /\ u.index \in [Key -> Address(t.max)]
        /\ u.index[k] = b /\ \A q \in Key \ {k} : u.index[q] = t.index[q]
    BY <1>1 DEF Space, IsTable
  <1>3. u = [blk |-> u.blk, frag |-> u.frag, free |-> u.free, max |-> u.max, index |-> u.index, at |-> u.at]
    BY DEF Space, IsTable, Reindex
  <1>4. IsTable(u)
    BY <1>1, <1>2, <1>3 DEF Space, IsTable
  <1>5. Space(u) /\ UsedIn(u) = UsedIn(t)
    <2>1. \A x \in UsedIn(t) : u.blk[x].size # 0 /\ u.blk[x].size <= Capacity(t, x)
      BY <1>1, UsedFacts DEF UsedIn
    <2> QED
      BY <2>1, <1>1, <1>4, SpaceFrame
  <1> QED
    BY <1>1, <1>2, <1>5

\* Which block was allocated last does not matter to the space.
LEMMA AtFacts ==
    ASSUME NEW t, Space(t), NEW a \in Address(t.max), NEW u, u = Moved(t, a)
    PROVE  /\ Space(u) /\ UsedIn(u) = UsedIn(t) /\ u.blk = t.blk /\ u.index = t.index
           /\ u.at = a /\ u.max = t.max
  <1>1. /\ IsTable(u) /\ u.blk = t.blk /\ u.frag = t.frag /\ u.free = t.free
        /\ u.max = t.max /\ u.index = t.index /\ u.at = a
    BY WithAt DEF Space, Moved
  <1>2. Space(u) /\ UsedIn(u) = UsedIn(t)
    <2>1. \A x \in UsedIn(t) : u.blk[x].size # 0 /\ u.blk[x].size <= Capacity(t, x)
      BY <1>1, UsedFacts DEF UsedIn
    <2> QED
      BY <2>1, <1>1, SpaceFrame
  <1> QED
    BY <1>1, <1>2

\* A step that changes only k's slices leaves the other keys alone.
LEMMA OwnApart ==
    ASSUME NEW t, NEW u, NEW k, UsedIn(u) = UsedIn(t), \A q \in Key \ {k} : u.index[q] = t.index[q],
           \A x \in UsedIn(t) : t.blk[x].key # k => Keeps(t, u, x),
           \A x \in UsedIn(t) : t.blk[x].key = k => u.blk[x].key = k
    PROVE  Apart(t, u, k)
  BY DEF Apart, Keeps

\* What is known of a record in the middle of a put.
LEMMA PartialFacts ==
    ASSUME NEW t, Space(t), NEW k, NEW v, NEW e, NEW left, NEW r, Partial(t, k, v, e, left, r)
    PROVE  /\ v \in Val /\ e \in Owned(t, k) /\ r \in Address(t.max)
  <1>1. PICK C, O \in SUBSET Owned(t, k) : Parts(t, k, v, e, left, r, C, O)
    BY DEF Partial
  <1>2. v \in Val /\ e \in Owned(t, k)
    BY <1>1 DEF Parts, Live
  <1>3. r = Null \/ r \in Owned(t, k)
    BY <1>1 DEF Parts, Orphans
  <1>4. r \in Address(t.max)
    BY <1>3, OwnedFacts, NullAddress DEF Space, IsTable
  <1> QED
    BY <1>2, <1>4

\* The last slice of a record is there, and none is too many.
LEMMA Ended ==
    ASSUME NEW t, Space(t), NEW k \in Key, NEW v, NEW e, NEW C, Live(t, k, v, Size(k, v), C, e),
           v \in Val, Upto(t, e) = Size(k, v), C = Owned(t, k),
           NEW u, u = Relink(t, e, Null)
    PROVE  /\ Space(u) /\ Apart(t, u, k) /\ Complete(u, k, v, Size(k, v))
  <1>1. e \in C /\ C \subseteq Owned(t, k)
    BY DEF Live
  <1>2. \A x \in C : x \in UsedIn(t) /\ x \in DOMAIN t.blk /\ t.blk[x].key = k
    BY <1>1, OwnedFacts
  <1>3. Null \in Address(t.max)
    BY NullAddress DEF Space, IsTable
  <1>4. /\ Space(u) /\ UsedIn(u) = UsedIn(t)
        /\ \A x \in DOMAIN t.blk : x # e => u.blk[x] = t.blk[x]
        /\ Holds(t, u, e) /\ u.blk[e].link = Null
        /\ u.index = t.index /\ u.at = t.at /\ u.max = t.max
    BY <1>1, <1>2, <1>3, LinkFacts
  <1>5. \A x \in DOMAIN t.blk : x \in UsedIn(t) => Holds(t, u, x)
    BY <1>4 DEF Holds, UsedIn
  <1>6. Owned(u, k) = C
    <2>1. \A x \in UsedIn(t) : u.blk[x].key = t.blk[x].key
      BY <1>5 DEF Holds, UsedIn
    <2> QED
      BY <2>1, <1>4 DEF Owned
  <1>7. Live(u, k, v, Size(k, v), C, e)
    <2>1. ASSUME NEW x \in C PROVE LiveBlock(u, k, v, C, e, x)
      <3>1. LiveBlock(t, k, v, C, e, x) /\ \A y \in C : Holds(t, u, y)
        BY <1>2, <1>5 DEF Live
      <3>2. \A y \in C : y # e => u.blk[y].link = t.blk[y].link
        BY <1>2, <1>4
      <3> QED
        BY <3>1, <3>2, <1>1, <1>4 DEF LiveBlock, Holds
    <2>2. u.index[k] \in C /\ u.blk[u.index[k]].off = 0 /\ u.blk[u.index[k]].len = Size(k, v)
      BY <1>2, <1>4, <1>5 DEF Live, Holds
    <2> QED
      BY <2>1, <2>2, <1>1, <1>6 DEF Live
  <1>8. Upto(u, e) = Upto(t, e)
    BY <1>4 DEF Upto, Holds
  <1>9. Complete(u, k, v, Size(k, v))
    BY <1>1, <1>4, <1>6, <1>7, <1>8 DEF Complete, Chain
  <1>10. Apart(t, u, k)
    <2>1. \A x \in UsedIn(t) : t.blk[x].key # k => Keeps(t, u, x)
      BY <1>1, <1>2, <1>4 DEF Keeps, UsedIn
    <2>2. \A x \in UsedIn(t) : t.blk[x].key = k => u.blk[x].key = k
      BY <1>5 DEF Holds, UsedIn
    <2> QED
      BY <2>1, <2>2, <1>4, OwnApart
  <1> QED
    BY <1>4, <1>9, <1>10

\* EndRecord keeps the invariant: the record is whole, or slices are left to free.
LEMMA EndGood ==
    ASSUME NEW t, NEW p, NEW k, NEW rest, Others(t, p, k), Partial(t, k, p[k], t.at, 0, rest),
           EndRecord(t, k, rest), put' = p
    PROVE  Good(Table, put, job)'
  <1>1. Space(t) /\ k \in Key
    BY DEF Others
  <1>2. p[k] \in Val /\ t.at \in Owned(t, k) /\ rest \in Address(t.max)
    BY <1>1, PartialFacts
  <1>3. CASE rest # Null
    <2> DEFINE j == [do |-> "free", key |-> k, at |-> t.at, rest |-> rest]
    <2>1. Goes(t, j)
      BY <1>3 DEF EndRecord
    <2>2. t.at \in Address(t.max) /\ t.at # Null
      BY <1>1, <1>2, OwnedFacts
    <2>3. j \in Jobs(t.max) /\ j.do = "free" /\ j.key = k /\ j.at = t.at /\ j.rest = rest
      BY <1>1, <1>2, <2>2 DEF Jobs
    <2> HIDE DEF j
    <2>4. JobOK(t, p, j)
      BY <2>2, <2>3, <1>3 DEF JobOK
    <2>5. Good(t, p, j)
      BY <2>3, <2>4, JobGood
    <2> QED
      BY <2>1, <2>5, GoesGood
  <1>4. CASE rest = Null
    <2> DEFINE u == Relink(t, t.at, Null)
    <2>1. Goes(u, Idle)
      BY <1>4 DEF EndRecord, Relink
    <2>2. PICK C, O \in SUBSET Owned(t, k) : Parts(t, k, p[k], t.at, 0, rest, C, O)
      BY DEF Partial
    <2>3. O = {}
      <3>1. \A x \in O : x # Null
        BY <1>1, OwnedFacts
      <3> QED
        BY <3>1, <2>2, <1>4 DEF Parts, Orphans
    <2>4. C = Owned(t, k) /\ Live(t, k, p[k], Size(k, p[k]), C, t.at)
      BY <2>2, <2>3 DEF Parts
    <2>5. Upto(t, t.at) = Size(k, p[k])
      <3>1. Upto(t, t.at) \in Nat
        BY <1>1, <1>2, OwnedFacts DEF Upto
      <3> QED
        BY <3>1, <2>2 DEF Parts
    <2> HIDE DEF u
    <2>6. Space(u) /\ Apart(t, u, k) /\ Complete(u, k, p[k], Size(k, p[k]))
      BY <2>4, <2>5, <1>1, <1>2, Ended DEF u
    <2>7. Whole(u, k, p[k])
      BY <2>6, <1>2, NoValAssumption DEF Whole
    <2>8. Good(u, p, Idle)
      BY <2>6, <2>7, OthersFrame, IdleGood
    <2> QED
      BY <2>1, <2>8, GoesGood
  <1> QED
    BY <1>3, <1>4

\* Continue keeps the invariant: it ends the record, or more is to append.
LEMMA ContinueGood ==
    ASSUME NEW t, NEW p, NEW k, NEW left \in Nat, NEW rest, Others(t, p, k),
           Partial(t, k, p[k], t.at, left, rest), Continue(t, k, left, rest), put' = p
    PROVE  Good(Table, put, job)'
  <1>1. Space(t) /\ k \in Key
    BY DEF Others
  <1>2. p[k] \in Val /\ t.at \in Owned(t, k) /\ rest \in Address(t.max)
    BY <1>1, PartialFacts
  <1>3. CASE left > 0
    <2> DEFINE j == [do |-> "append", key |-> k, at |-> t.at, left |-> left, rest |-> rest]
    <2>1. Goes(t, j)
      BY <1>3 DEF Continue
    <2>2. t.at \in Address(t.max)
      BY <1>1, <1>2, OwnedFacts
    <2>3. /\ j \in Jobs(t.max) /\ j.do = "append" /\ j.key = k /\ j.at = t.at /\ j.left = left
          /\ j.rest = rest
      BY <1>1, <1>2, <2>2 DEF Jobs
    <2> HIDE DEF j
    <2>4. JobOK(t, p, j)
      BY <2>3, <1>3 DEF JobOK
    <2>5. Good(t, p, j)
      BY <2>3, <2>4, JobGood
    <2> QED
      BY <2>1, <2>5, GoesGood
  <1>4. CASE left = 0
    BY <1>4, EndGood DEF Continue
  <1> QED
    BY <1>3, <1>4

-------------------------------------------------------------------------------
(* The operations on a record *)

\* The table after a slice was allocated and written
Slice(t, k, v, off, size, first) ==
    LET s == AllocDataHead(t, size, first)
    IN  Write(s, s.at, k, v, off, s.blk[s.at].size)

\* What such a step leaves: u.at is the new slice.
Sliced(t, u, k, v, off, size, first) ==
    /\ Space(u) /\ u.at \notin UsedIn(t) /\ UsedIn(u) = UsedIn(t) \cup {u.at}
    /\ u.blk[u.at].size \in Nat /\ u.blk[u.at].size > 0 /\ u.blk[u.at].size <= size
    /\ u.blk[u.at].off = off /\ u.blk[u.at].key = k /\ u.blk[u.at].val = v
    /\ u.blk[u.at].first = first
    /\ \A x \in UsedIn(t) : Keeps(t, u, x)
    /\ u.index = t.index
    /\ AllocDataHead(t, size, first).at = u.at
    /\ AllocDataHead(t, size, first).blk[u.at].size = u.blk[u.at].size

\* A slice that is allocated and written was nobody's, and holds what was written.
LEMMA NewSlice ==
    ASSUME NEW t, Space(t), NEW k \in Key, NEW v \in Val, NEW off \in Nat,
           NEW size \in Nat, size > 0, NEW first \in BOOLEAN,
           NEW u, u = Slice(t, k, v, off, size, first)
    PROVE  Sliced(t, u, k, v, off, size, first)
  <1> DEFINE s == AllocDataHead(t, size, first)
             b == s.at
             n == s.blk[b].size
  <1>1. u = Write(s, b, k, v, off, n)
    BY DEF Slice
  <1>2. /\ Space(s) /\ b \notin UsedIn(t) /\ UsedIn(s) = UsedIn(t) \cup {b}
        /\ n = IF size < PAGEMAXSPARE THEN size ELSE PAGEMAXSPARE
        /\ s.blk[b].first = first
        /\ \A x \in UsedIn(t) : Keeps(t, s, x)
        /\ s.index = t.index
    BY AllocKeeps
  <1> HIDE DEF s, b, n
  <1>3. n \in Nat /\ n > 0 /\ n <= size
    BY <1>2, Bytes, PageAssumption
  <1>4. n <= Capacity(s, b) /\ b \in UsedIn(s)
    BY <1>2, UsedFacts DEF n
  <1>5. /\ Space(u) /\ UsedIn(u) = UsedIn(s)
        /\ \A x \in DOMAIN s.blk : x # b => u.blk[x] = s.blk[x]
        /\ u.blk[b].size = n /\ u.blk[b].off = off /\ u.blk[b].key = k /\ u.blk[b].val = v
        /\ u.blk[b].first = s.blk[b].first
        /\ u.index = s.index /\ u.at = s.at
    BY <1>1, <1>2, <1>3, <1>4, WriteFacts
  <1>6. ASSUME NEW x \in UsedIn(t) PROVE Keeps(t, u, x)
    <2>1. x \in DOMAIN s.blk /\ x # b /\ x \in DOMAIN u.blk
      BY <1>2, <1>5 DEF UsedIn
    <2> QED
      BY <2>1, <1>2, <1>5 DEF Keeps
  <1>7. u.at = b
    BY <1>5 DEF b
  <1> QED
    BY <1>2, <1>3, <1>5, <1>6, <1>7 DEF s, b, n, Sliced

\* create_node keeps the invariant for a key that owns no slice.
LEMMA CreateGood ==
    ASSUME NEW t, NEW p, NEW k, Others(t, p, k), p[k] \in Val, Owned(t, k) = {},
           CreateNode(t, k, p[k]), put' = p
    PROVE  Good(Table, put, job)'
  <1> DEFINE v    == p[k]
             size == Size(k, v)
             r    == Slice(t, k, v, 0, size, TRUE)
             b    == r.at
             n    == r.blk[b].size
             w    == Relen(r, b, size)
             u    == Reindex(w, k, b)
  <1>1. Space(t) /\ k \in Key
    BY DEF Others
  <1>2. size \in Nat /\ size > 0 /\ Pass(k) \in Nat /\ v \in Val
    BY <1>1, Lengths
  <1>3. /\ Space(r) /\ b \notin UsedIn(t) /\ UsedIn(r) = UsedIn(t) \cup {b}
        /\ n \in Nat /\ n > 0 /\ n <= size
        /\ r.blk[b].off = 0 /\ r.blk[b].key = k /\ r.blk[b].val = v
        /\ r.blk[b].first
        /\ \A x \in UsedIn(t) : Keeps(t, r, x)
        /\ r.index = t.index
        /\ AllocDataHead(t, size, TRUE).at = b
        /\ AllocDataHead(t, size, TRUE).blk[b].size = n
    <2>1. Space(t) /\ k \in Key /\ v \in Val /\ size \in Nat /\ size > 0
      BY <1>1, <1>2
    <2>2. PICK off, first : off = 0 /\ first = TRUE
      OBVIOUS
    <2> HIDE DEF size, v
    <2>3. r = Slice(t, k, v, off, size, first) /\ off \in Nat /\ first \in BOOLEAN
      BY <2>2
    <2> HIDE DEF r
    <2>4. Sliced(t, r, k, v, off, size, first)
      BY <2>1, <2>3, NewSlice
    <2> QED
      BY <2>2, <2>4 DEF Sliced
  <1>4. Continue(u, k, size - n, Null)
    <2>1. u = [r EXCEPT !.blk[b].len = size, !.index[k] = b]
      BY DEF Reindex, Relen
    <2>2. r = Write(AllocDataHead(t, size, TRUE), b, k, v, 0, n)
      BY <1>3 DEF Slice
    <2> HIDE DEF u, w, r, b, n
    <2> QED
      BY <2>1, <2>2, <1>3 DEF CreateNode
  <1> HIDE DEF v, size, b, n, r
  <1>5. b \in UsedIn(r) /\ b \in Address(r.max)
    BY <1>3, UsedFacts
  <1>6. w = Relen(r, b, size) /\ u = Reindex(w, k, b) /\ b = r.at /\ n = r.blk[b].size
    BY DEF b, n
  <1> HIDE DEF u, w
  <1>7. /\ Space(w) /\ UsedIn(w) = UsedIn(r)
        /\ \A x \in DOMAIN r.blk : x # b => w.blk[x] = r.blk[x]
        /\ w.blk[b].len = size
        /\ w.blk[b].size = n /\ w.blk[b].off = 0 /\ w.blk[b].key = k /\ w.blk[b].val = v
        /\ w.blk[b].first
        /\ w.index = t.index /\ w.at = b /\ w.max = r.max
    <2>1. w = Relen(r, b, size) /\ b \in UsedIn(r) /\ Space(r) /\ size \in Nat
      BY <1>2, <1>3, <1>5, <1>6
    <2>2. /\ Space(w) /\ UsedIn(w) = UsedIn(r)
          /\ \A x \in DOMAIN r.blk : x # b => w.blk[x] = r.blk[x]
          /\ w.blk[b].len = size
          /\ w.blk[b].size = r.blk[b].size /\ w.blk[b].off = r.blk[b].off
          /\ w.blk[b].key = r.blk[b].key /\ w.blk[b].val = r.blk[b].val
          /\ w.blk[b].first = r.blk[b].first
          /\ w.index = r.index /\ w.at = r.at /\ w.max = r.max
      BY <2>1, LenFacts
    <2> QED
      BY <2>2, <1>3, <1>6
  <1>8. /\ Space(u) /\ UsedIn(u) = UsedIn(w) /\ u.blk = w.blk
        /\ u.index[k] = b /\ \A q \in Key \ {k} : u.index[q] = w.index[q]
        /\ u.at = b
    BY <1>1, <1>5, <1>6, <1>7, IndexFacts
  <1>9. \A x \in UsedIn(t) : Keeps(t, u, x) /\ t.blk[x].key # k /\ u.blk[x].key # k
    <2>1. \A x \in UsedIn(t) : x \in DOMAIN r.blk /\ x # b /\ x \in DOMAIN u.blk
      BY <1>3, <1>7, <1>8 DEF UsedIn
    <2>2. \A x \in UsedIn(t) : t.blk[x].key # k
      BY DEF Owned
    <2> QED
      BY <2>1, <2>2, <1>3, <1>7, <1>8 DEF Keeps
  <1>10. Apart(t, u, k)
    BY <1>3, <1>7, <1>8, <1>9 DEF Apart
  <1>11. Owned(u, k) = {b}
    BY <1>3, <1>7, <1>8, <1>9 DEF Owned
  <1>12. Live(u, k, v, size, {b}, b)
    BY <1>1, <1>7, <1>8, <1>11, FirstLive
  <1>13. Parts(u, k, v, b, size - n, Null, {b}, {})
    <2>1. Upto(u, b) + (size - n) = size
      BY <1>2, <1>3, <1>7, <1>8 DEF Upto
    <2> QED
      BY <2>1, <1>2, <1>11, <1>12, NoOrphans DEF Parts, size
  <1>14. Partial(u, k, p[k], u.at, size - n, Null)
    <2>1. {b} \in SUBSET Owned(u, k) /\ {} \in SUBSET Owned(u, k)
      BY <1>11
    <2> QED
      BY <2>1, <1>8, <1>13 DEF Partial, v
  <1>15. size - n \in Nat
    BY <1>2, <1>3
  <1>16. Others(u, p, k)
    BY <1>8, <1>10, OthersFrame
  <1> QED
    BY <1>4, <1>14, <1>15, <1>16, ContinueGood

\* Appending a slice keeps the invariant.
LEMMA AppendGood ==
    ASSUME NEW t, NEW p, NEW k, NEW a, NEW left \in Nat, left > 0, NEW rest, Others(t, p, k),
           Partial(t, k, p[k], a, left, rest), AppendSlice(t, k, p[k], a, left, rest), put' = p
    PROVE  Good(Table, put, job)'
  <1> DEFINE v    == p[k]
             size == Size(k, v)
             r    == Slice(t, k, v, size - left, left, FALSE)
             b    == r.at
             n    == r.blk[b].size
             u    == Relink(r, a, b)
  <1>1. Space(t) /\ k \in Key
    BY DEF Others
  <1>2. PICK C, O \in SUBSET Owned(t, k) : Parts(t, k, v, a, left, rest, C, O)
    BY DEF Partial
  <1>3. /\ v \in Val
        /\ rest # Null => ~t.blk[rest].first
        /\ C \cup O = Owned(t, k) /\ C \cap O = {}
        /\ Live(t, k, v, size, C, a)
        /\ Upto(t, a) + left = size
        /\ Orphans(t, k, O, rest)
        /\ a \in C /\ t.index[k] \in C
    BY <1>2 DEF Parts, Live
  <1>4. size \in Nat /\ Pass(k) \in Nat
    BY <1>1, <1>3, Lengths
  <1>5. Upto(t, a) \in Nat /\ size - left = Upto(t, a) /\ size - left \in Nat
    <2> HIDE DEF size
    <2>1. Upto(t, a) \in Nat
      BY <1>1, <1>3, OwnedFacts DEF Upto
    <2> QED
      BY <2>1, <1>3, <1>4
  <1>6. /\ Space(r) /\ b \notin UsedIn(t) /\ UsedIn(r) = UsedIn(t) \cup {b}
        /\ n \in Nat /\ n > 0 /\ n <= left
        /\ r.blk[b].off = size - left /\ r.blk[b].key = k /\ r.blk[b].val = v
        /\ ~r.blk[b].first
        /\ \A x \in UsedIn(t) : Keeps(t, r, x)
        /\ r.index = t.index
        /\ AllocDataHead(t, left, FALSE).at = b
        /\ AllocDataHead(t, left, FALSE).blk[b].size = n
    <2> HIDE DEF size, v
    <2> DEFINE first == FALSE
    <2>1. r = Slice(t, k, v, size - left, left, first) /\ first \in BOOLEAN
      OBVIOUS
    <2> HIDE DEF r, first
    <2>2. Sliced(t, r, k, v, size - left, left, first)
      BY <2>1, <1>1, <1>3, <1>5, NewSlice
    <2> QED
      BY <2>2 DEF first, Sliced
  <1>7. Continue(u, k, left - n, rest)
    <2>1. u = [r EXCEPT !.blk[a].link = b]
      BY DEF Relink
    <2>2. r = Write(AllocDataHead(t, left, FALSE), b, k, v, size - left, n)
      BY <1>6 DEF Slice
    <2> HIDE DEF u, r, b, n
    <2> QED
      BY <2>1, <2>2, <1>6 DEF AppendSlice
  <1> HIDE DEF v, size, b, n, r
  <1>8. a \in UsedIn(r) /\ a # b /\ a \in Owned(t, k) /\ b \in Address(r.max)
    <2>1. a \in Owned(t, k) /\ a \in UsedIn(t)
      BY <1>3 DEF Owned
    <2>2. b \in UsedIn(r)
      BY <1>6
    <2> QED
      BY <2>1, <2>2, <1>6, UsedFacts
  <1>9. u = Relink(r, a, b) /\ b = r.at /\ n = r.blk[b].size
    BY DEF b, n
  <1> HIDE DEF u
  <1>10. /\ Space(u) /\ UsedIn(u) = UsedIn(r)
         /\ \A x \in DOMAIN r.blk : x # a => u.blk[x] = r.blk[x]
         /\ Holds(r, u, a) /\ u.blk[a].link = b
         /\ u.index = t.index /\ u.at = b
    BY <1>6, <1>8, <1>9, LinkFacts
  <1>11. \A x \in UsedIn(t) : Holds(t, u, x) /\ (x # a => Keeps(t, u, x))
    <2>1. \A x \in UsedIn(t) : x \in DOMAIN r.blk /\ x \in DOMAIN u.blk /\ Keeps(t, r, x)
      BY <1>6, <1>10 DEF UsedIn
    <2> QED
      BY <2>1, <1>10 DEF Keeps, Holds
  <1>12. b \in DOMAIN r.blk /\ u.blk[b] = r.blk[b]
    BY <1>6, <1>8, <1>10 DEF UsedIn
  <1>13. Owned(u, k) = Owned(t, k) \cup {b}
    BY <1>6, <1>10, <1>11, <1>12 DEF Owned, Holds
  <1>14. Apart(t, u, k)
    BY <1>6, <1>8, <1>10, <1>11, <1>12 DEF Apart, Holds, Owned
  <1>15. b \notin Owned(t, k) /\ b \notin C /\ b \notin O
    BY <1>6 DEF Owned
  <1>16. Live(u, k, v, size, C \cup {b}, b)
    <2>1. \A x \in C : x \in UsedIn(t)
      BY DEF Owned
    <2>2. /\ \A x \in C : Holds(t, u, x)
          /\ \A x \in C \ {a} : u.blk[x].link = t.blk[x].link
      BY <2>1, <1>11 DEF Keeps
    <2>3. /\ u.index[k] = t.index[k] /\ b \in Owned(u, k) /\ u.blk[b].off = Upto(t, a)
          /\ ~u.blk[b].first /\ u.blk[b].size \in Nat /\ u.blk[b].size > 0 /\ u.blk[b].val = v
      BY <1>5, <1>6, <1>9, <1>10, <1>12, <1>13
    <2> QED
      BY <2>2, <2>3, <1>1, <1>3, <1>10, <1>15, Extend
  <1>17. Orphans(u, k, O, rest) /\ (rest # Null => ~u.blk[rest].first)
    <2>1. \A x \in O : x \in UsedIn(t) /\ x # a
      BY <1>3 DEF Owned
    <2>2. \A x \in O : Keeps(t, u, x)
      BY <2>1, <1>11
    <2>3. rest # Null => rest \in O
      BY <1>3 DEF Orphans
    <2>4. Orphans(u, k, O, rest)
      BY <2>2, <1>3, OrphansFrame
    <2> QED
      BY <2>2, <2>3, <2>4, <1>3 DEF Keeps
  <1>18. Parts(u, k, v, b, left - n, rest, C \cup {b}, O)
    <2>1. Upto(u, b) + (left - n) = size
      BY <1>4, <1>6, <1>9, <1>12 DEF Upto
    <2>2. (C \cup {b}) \cup O = Owned(u, k) /\ (C \cup {b}) \cap O = {}
      BY <1>3, <1>13, <1>15
    <2> QED
      BY <2>1, <2>2, <1>3, <1>16, <1>17 DEF Parts, size
  <1>19. Partial(u, k, p[k], u.at, left - n, rest)
    <2>1. C \cup {b} \in SUBSET Owned(u, k) /\ O \in SUBSET Owned(u, k)
      BY <1>13
    <2> QED
      BY <2>1, <1>10, <1>18 DEF Partial, v
  <1>20. left - n \in Nat
    BY <1>6
  <1>21. Others(u, p, k)
    BY <1>10, <1>14, OthersFrame
  <1> QED
    BY <1>7, <1>19, <1>20, <1>21, ContinueGood

\* Freeing the next slice keeps the invariant, and so do create_node or the end of
\* the operation after the last.
LEMMA FreeGood ==
    ASSUME NEW t, NEW p, NEW k, NEW a, NEW b, Others(t, p, k), b # Null,
           a = Null => Orphans(t, k, Owned(t, k), b),
           a # Null => Partial(t, k, p[k], a, 0, b),
           FreeData(t, k, p[k], a, b), put' = p
    PROVE  Good(Table, put, job)'
  <1> DEFINE s == FreeBlock(t, b)
             n == t.blk[b].link
  <1>1. \/ n # Null /\ Goes(s, [do |-> "free", key |-> k, at |-> a, rest |-> n])
        \/ n = Null /\ a # Null /\ Goes(Relink(s, a, Null), Idle)
        \/ n = Null /\ a = Null /\ p[k] # NoVal /\ CreateNode(s, k, p[k])
        \/ n = Null /\ a = Null /\ p[k] = NoVal /\ Goes(Reindex(s, k, Null), Idle)
    BY DEF FreeData, Relink, Reindex
  <1>2. Space(t) /\ k \in Key /\ p[k] \in Val \cup {NoVal}
    BY DEF Others
  <1>3. \E C, O \in SUBSET Owned(t, k) :
           /\ C \cup O = Owned(t, k) /\ C \cap O = {} /\ Orphans(t, k, O, b)
           /\ a = Null => C = {}
           /\ a # Null => Parts(t, k, p[k], a, 0, b, C, O)
    <2>1. CASE a = Null
      <3>1. {} \in SUBSET Owned(t, k) /\ Owned(t, k) \in SUBSET Owned(t, k)
        OBVIOUS
      <3>2. {} \cup Owned(t, k) = Owned(t, k) /\ {} \cap Owned(t, k) = {} /\ Orphans(t, k, Owned(t, k), b)
        BY <2>1
      <3> QED
        BY <2>1, <3>1, <3>2
    <2>2. CASE a # Null
      BY <2>2 DEF Partial, Parts
    <2> QED
      BY <2>1, <2>2
  <1>4. PICK C, O \in SUBSET Owned(t, k) :
           /\ C \cup O = Owned(t, k) /\ C \cap O = {} /\ Orphans(t, k, O, b)
           /\ a = Null => C = {}
           /\ a # Null => Parts(t, k, p[k], a, 0, b, C, O)
    BY <1>3
  <1>5. /\ b \in O /\ Orphans(t, k, O \ {b}, n)
        /\ n # Null => n \in O \ {b} /\ ~t.blk[n].first
    <2>1. Orphans(t, k, O, b)
      BY <1>4
    <2>2. b \in O /\ Orphans(t, k, O \ {b}, n)
      BY <2>1, <1>2, OrphansTail
    <2>3. n # Null => n \in O \ {b} /\ ~t.blk[n].first
      BY <2>1, <1>2, OrphansNext
    <2> QED
      BY <2>2, <2>3
  <1>6. b \in UsedIn(t) /\ t.blk[b].key = k
    BY <1>5 DEF Owned
  <1>7. /\ Space(s) /\ UsedIn(s) = UsedIn(t) \ {b}
        /\ \A x \in UsedIn(s) : Keeps(t, s, x)
        /\ s.index = t.index /\ s.max = t.max
    BY <1>2, <1>6, FreeBlockKeeps
  <1> HIDE DEF s
  <1>8. Apart(t, s, k)
    BY <1>6, <1>7 DEF Apart, Keeps
  <1>9. Others(s, p, k)
    BY <1>7, <1>8, OthersFrame
  <1>10. Owned(s, k) = C \cup (O \ {b})
    <2>1. Owned(s, k) = Owned(t, k) \ {b}
      BY <1>7 DEF Owned, Keeps
    <2> QED
      BY <2>1, <1>4, <1>5
  <1>11. \A x \in Owned(s, k) : Keeps(t, s, x)
    BY <1>7 DEF Owned
  <1>12. Orphans(s, k, O \ {b}, n)
    BY <1>5, <1>10, <1>11, OrphansFrame
  <1>13. n # Null => ~s.blk[n].first
    BY <1>5, <1>10, <1>11 DEF Keeps
  <1>14. n = Null => O \ {b} = {}
    <2>1. \A x \in O \ {b} : x # Null
      BY <1>7, <1>10, OwnedFacts
    <2> QED
      BY <2>1, <1>12 DEF Orphans
  <1>15. ASSUME a # Null
         PROVE  /\ p[k] \in Val /\ a \in C
                /\ Live(s, k, p[k], Size(k, p[k]), C, a) /\ Upto(s, a) + 0 = Size(k, p[k])
    <2>1. Parts(t, k, p[k], a, 0, b, C, O)
      BY <1>4, <1>15
    <2>2. Live(s, k, p[k], Size(k, p[k]), C, a) /\ Upto(s, a) = Upto(t, a)
      BY <2>1, <1>7, <1>10, <1>11, LiveFrame DEF Parts
    <2> QED
      BY <2>1, <2>2 DEF Parts, Live
  <1>16. ASSUME n # Null, Goes(s, [do |-> "free", key |-> k, at |-> a, rest |-> n])
         PROVE  Good(Table, put, job)'
    <2> DEFINE j == [do |-> "free", key |-> k, at |-> a, rest |-> n]
    <2>1. n \in Address(s.max)
      BY <1>5, <1>7, <1>10, <1>16, OwnedFacts
    <2>2. a \in Address(s.max)
      <3>1. CASE a = Null
        BY <3>1, <1>7, NullAddress DEF Space, IsTable
      <3>2. CASE a # Null
        BY <3>2, <1>7, <1>10, <1>15, OwnedFacts
      <3> QED
        BY <3>1, <3>2
    <2>3. j \in Jobs(s.max) /\ j.do = "free" /\ j.key = k /\ j.at = a /\ j.rest = n
      BY <2>1, <2>2, <1>2 DEF Jobs
    <2>4. Goes(s, j)
      BY <1>16
    <2> HIDE DEF j
    <2>5. a = Null => Remains(s, k, n)
      <3>1. a = Null => Owned(s, k) = O \ {b}
        BY <1>4, <1>10
      <3> QED
        BY <3>1, <1>12, <1>13, <1>16 DEF Remains
    <2>6. a # Null => Partial(s, k, p[k], a, 0, n)
      <3>1. C \in SUBSET Owned(s, k) /\ O \ {b} \in SUBSET Owned(s, k)
        BY <1>10
      <3>2. C \cup (O \ {b}) = Owned(s, k) /\ C \cap (O \ {b}) = {}
        BY <1>4, <1>10
      <3>3. a # Null => Parts(s, k, p[k], a, 0, n, C, O \ {b})
        BY <3>2, <1>12, <1>13, <1>15 DEF Parts
      <3> QED
        BY <3>1, <3>3 DEF Partial
    <2>7. JobOK(s, p, j)
      BY <2>3, <2>5, <2>6, <1>16 DEF JobOK
    <2> QED
      BY <2>3, <2>4, <2>7, <1>9, JobGood, GoesGood
  <1>17. ASSUME n = Null, a # Null, Goes(Relink(s, a, Null), Idle)
         PROVE  Good(Table, put, job)'
    <2> DEFINE u == Relink(s, a, Null)
    <2>1. C = Owned(s, k)
      BY <1>10, <1>14, <1>17
    <2>2. Upto(s, a) = Size(k, p[k])
      <3>1. Upto(s, a) \in Nat
        BY <1>7, <1>10, <1>15, <1>17, OwnedFacts DEF Upto
      <3> QED
        BY <3>1, <1>15, <1>17
    <2>3. Space(u) /\ Apart(s, u, k) /\ Complete(u, k, p[k], Size(k, p[k]))
      BY <2>1, <2>2, <1>2, <1>7, <1>15, <1>17, Ended
    <2> HIDE DEF u
    <2>4. Whole(u, k, p[k])
      BY <2>3, <1>15, <1>17, NoValAssumption DEF Whole
    <2>5. Good(u, p, Idle)
      BY <2>3, <2>4, <1>9, OthersFrame, IdleGood
    <2> QED
      BY <2>5, <1>17, GoesGood DEF u
  <1>18. ASSUME n = Null, a = Null, p[k] # NoVal, CreateNode(s, k, p[k])
         PROVE  Good(Table, put, job)'
    <2>1. Owned(s, k) = {}
      BY <1>4, <1>10, <1>14, <1>18
    <2> QED
      BY <2>1, <1>2, <1>9, <1>18, CreateGood
  <1>19. ASSUME n = Null, a = Null, p[k] = NoVal, Goes(Reindex(s, k, Null), Idle)
         PROVE  Good(Table, put, job)'
    <2> DEFINE u == Reindex(s, k, Null)
    <2>1. Null \in Address(s.max)
      BY <1>7, NullAddress DEF Space, IsTable
    <2>2. /\ Space(u) /\ UsedIn(u) = UsedIn(s) /\ u.blk = s.blk
          /\ u.index[k] = Null /\ \A q \in Key \ {k} : u.index[q] = s.index[q]
      BY <2>1, <1>2, <1>7, IndexFacts
    <2> HIDE DEF u
    <2>3. Apart(s, u, k)
      BY <2>2 DEF Apart, Keeps, UsedIn
    <2>4. Owned(u, k) = {}
      <3>1. Owned(s, k) = {}
        BY <1>4, <1>10, <1>14, <1>19
      <3> QED
        BY <3>1, <2>2 DEF Owned
    <2>5. Whole(u, k, p[k])
      BY <2>2, <2>4, <1>19 DEF Whole
    <2>6. Good(u, p, Idle)
      BY <2>2, <2>3, <2>5, <1>9, OthersFrame, IdleGood
    <2> QED
      BY <2>6, <1>19, GoesGood DEF u
  <1> QED
    BY <1>1, <1>16, <1>17, <1>18, <1>19

\* The table after block a was written; or written, and its remaining space given back.
Placed(t, u, a, k, v, off, size) ==
    /\ Space(u) /\ UsedIn(u) = UsedIn(t) /\ u.index = t.index /\ u.max = t.max
    /\ \A x \in UsedIn(t) : x # a => Keeps(t, u, x)
    /\ a \in DOMAIN u.blk
    /\ u.blk[a].size = size /\ u.blk[a].off = off /\ u.blk[a].key = k /\ u.blk[a].val = v
    /\ u.blk[a].link = t.blk[a].link /\ u.blk[a].first = t.blk[a].first
    /\ u.blk[a].len = t.blk[a].len

Fitted(t, a, k, v, off, size) == Moved(AdjustDataHead(Write(t, a, k, v, off, size), a, size), a)

\* Writing a slice leaves the others alone.
LEMMA WritePlaced ==
    ASSUME NEW t, Space(t), NEW a \in UsedIn(t), NEW k \in Key, NEW v \in Val, NEW off \in Nat,
           NEW size \in Nat, size > 0, size <= Capacity(t, a), NEW u, u = Write(t, a, k, v, off, size)
    PROVE  Placed(t, u, a, k, v, off, size)
  <1>1. /\ Space(u) /\ UsedIn(u) = UsedIn(t) /\ a \in Owned(u, k)
        /\ \A x \in DOMAIN t.blk : x # a => u.blk[x] = t.blk[x]
        /\ u.blk[a].size = size /\ u.blk[a].off = off /\ u.blk[a].key = k /\ u.blk[a].val = v
        /\ u.blk[a].link = t.blk[a].link /\ u.blk[a].first = t.blk[a].first
        /\ u.blk[a].len = t.blk[a].len
        /\ u.index = t.index /\ u.max = t.max
    BY WriteFacts
  <1>2. a \in DOMAIN u.blk
    BY <1>1 DEF UsedIn
  <1>3. ASSUME NEW x \in UsedIn(t), x # a PROVE Keeps(t, u, x)
    <2>1. x \in DOMAIN t.blk /\ x \in DOMAIN u.blk
      BY <1>1 DEF UsedIn
    <2> QED
      BY <2>1, <1>1, <1>3 DEF Keeps
  <1> QED
    BY <1>1, <1>2, <1>3 DEF Placed

\* So does writing the last slice and giving the space behind it back.
LEMMA FitPlaced ==
    ASSUME NEW t, Space(t), NEW a \in UsedIn(t), NEW k \in Key, NEW v \in Val, NEW off \in Nat,
           NEW size \in Nat, size > 0, size <= Capacity(t, a), NEW u, u = Fitted(t, a, k, v, off, size)
    PROVE  Placed(t, u, a, k, v, off, size) /\ u.at = a
  <1> DEFINE w == Write(t, a, k, v, off, size)
             s == AdjustDataHead(w, a, size)
  <1>1. u = Moved(s, a)
    BY DEF Fitted
  <1>2. Placed(t, w, a, k, v, off, size)
    BY WritePlaced
  <1> HIDE DEF w
  <1>3. Space(w) /\ a \in UsedIn(w) /\ w.blk[a].size = size
    BY <1>2 DEF Placed
  <1>4. /\ Space(s) /\ UsedIn(s) = UsedIn(w)
        /\ \A x \in UsedIn(w) : Keeps(w, s, x)
        /\ s.index = w.index /\ s.max = w.max
    BY <1>3, AdjustKeeps
  <1> HIDE DEF s
  <1>5. a \in Address(s.max)
    BY <1>3, <1>4, UsedFacts
  <1>6. /\ Space(u) /\ UsedIn(u) = UsedIn(s) /\ u.blk = s.blk /\ u.index = s.index
        /\ u.at = a /\ u.max = s.max
    BY <1>1, <1>4, <1>5, AtFacts
  <1>7. \A x \in UsedIn(t) : Keeps(w, u, x)
    BY <1>2, <1>4, <1>6 DEF Placed, Keeps
  <1>8. ASSUME NEW x \in UsedIn(t), x # a PROVE Keeps(t, u, x)
    BY <1>2, <1>7, <1>8, KeepsTrans DEF Placed
  <1>9. Keeps(w, u, a)
    BY <1>7
  <1> QED
    BY <1>2, <1>4, <1>6, <1>8, <1>9 DEF Placed, Keeps

\* Writing a slice of k's record neither takes a slice nor loses one.
LEMMA PlacedOwn ==
    ASSUME NEW t, NEW u, NEW a, NEW k, NEW v, NEW off, NEW size, Placed(t, u, a, k, v, off, size),
           a \in Owned(t, k)
    PROVE  Owned(u, k) = Owned(t, k) /\ Apart(t, u, k)
  <1>1. /\ UsedIn(u) = UsedIn(t) /\ u.index = t.index /\ u.blk[a].key = k
        /\ \A x \in UsedIn(t) : x # a => Keeps(t, u, x)
    BY DEF Placed
  <1>2. a \in UsedIn(t) /\ t.blk[a].key = k
    BY DEF Owned
  <1>3. \A x \in UsedIn(t) : u.blk[x].key = t.blk[x].key
    BY <1>1, <1>2 DEF Keeps
  <1>4. Owned(u, k) = Owned(t, k)
    BY <1>1, <1>3 DEF Owned
  <1>5. Apart(t, u, k)
    BY <1>1, <1>2, <1>3, OwnApart
  <1> QED
    BY <1>4, <1>5

\* When the value is written behind the key, the slices up to there are the new
\* record's, and those after it are left over.
LEMMA PutParts ==
    ASSUME NEW t, Space(t), NEW k \in Key, NEW v, NEW a, NEW pass, Skipping(t, k, v, a, pass),
           NEW n \in Nat, n <= ValLen[v], NEW size, size = pass + n, NEW off, off = Pass(k) - pass,
           NEW u, Placed(t, u, a, k, v, off, size)
    PROVE  Partial(u, k, v, a, ValLen[v] - n, t.blk[a].link)
  <1>1. /\ v \in Val /\ pass \in Nat /\ pass > 0
        /\ a \in Owned(t, k) /\ t.blk[a].off + pass = Pass(k)
    BY DEF Skipping
  <1>2. PICK w \in Val : Complete(t, k, w, Size(k, v))
    BY DEF Skipping
  <1> DEFINE len == Size(k, v)
             r   == t.blk[a].link
             C   == Before(t, k, a)
             O   == After(t, k, a)
  <1>3. /\ Live(t, k, w, len, C, a) /\ Orphans(t, k, O, r)
        /\ C \cup O = Owned(t, k) /\ C \cap O = {}
        /\ r # Null => r \in O /\ ~t.blk[r].first
        /\ \A x \in C \ {a} : t.blk[x].off + t.blk[x].size <= t.blk[a].off
    <2>1. Complete(t, k, w, len) /\ r = t.blk[a].link /\ C = Before(t, k, a) /\ O = After(t, k, a)
      BY <1>2
    <2> HIDE DEF len, r, C, O
    <2> QED
      BY <2>1, <1>1, Split
  <1>4. Pass(k) \in Nat /\ ValLen[v] \in Nat /\ len = Pass(k) + ValLen[v]
    BY <1>1, Lengths
  <1>5. \A x \in Owned(t, k) : t.blk[x].off \in Nat /\ t.blk[x].size \in Nat
    BY OwnedFacts
  <1>6. off = t.blk[a].off
    BY <1>1, <1>4, <1>5
  <1>7. \A x \in C : t.blk[x].off <= t.blk[a].off
    BY DEF Before
  <1> HIDE DEF len, r, C, O
  <1>8. Owned(u, k) = Owned(t, k)
    BY <1>1, PlacedOwn
  <1>9. /\ u.index = t.index /\ u.blk[a].size = size /\ u.blk[a].off = t.blk[a].off
        /\ u.blk[a].val = v /\ u.blk[a].link = r /\ u.blk[a].first = t.blk[a].first
        /\ u.blk[a].len = t.blk[a].len
    BY <1>6 DEF Placed, r
  <1>10. \A x \in Owned(t, k) : x # a => Keeps(t, u, x)
    BY DEF Placed, Owned
  <1>11. \A x \in Owned(t, k) : u.blk[x].off = t.blk[x].off /\ u.blk[x].first = t.blk[x].first
                               /\ u.blk[x].len = t.blk[x].len /\ u.blk[x].link = t.blk[x].link
    BY <1>9, <1>10 DEF Keeps, r
  <1>12. ASSUME NEW x \in C PROVE LiveBlock(u, k, v, C, a, x)
    <2>1. LiveBlock(t, k, w, C, a, x) /\ a \in C /\ x \in Owned(t, k)
      BY <1>3 DEF Live
    <2>2. u.blk[x].first <=> x = u.index[k]
      BY <2>1, <1>9, <1>11 DEF LiveBlock
    <2>3. u.blk[x].off + u.blk[x].size > Pass(k) => u.blk[x].val = v
      <3>1. CASE x = a
        BY <3>1, <1>9
      <3>2. CASE x # a
        <4>1. t.blk[x].off + t.blk[x].size <= t.blk[a].off /\ u.blk[x].size = t.blk[x].size
          BY <3>2, <2>1, <1>3, <1>10 DEF Keeps
        <4>2. u.blk[x].off + u.blk[x].size <= Pass(k)
          BY <4>1, <2>1, <1>1, <1>4, <1>5, <1>11
        <4> QED
          BY <4>2, <2>1, <1>4, <1>5, <1>11, <4>1
      <3> QED
        BY <3>1, <3>2
    <2>4. x # a => u.blk[x].link \in C /\ u.blk[u.blk[x].link].off = u.blk[x].off + u.blk[x].size
      <3>1. x # a => t.blk[x].link \in C /\ t.blk[t.blk[x].link].off = t.blk[x].off + t.blk[x].size
        BY <2>1 DEF LiveBlock
      <3>2. x # a => u.blk[x].size = t.blk[x].size
        BY <2>1, <1>10 DEF Keeps
      <3>3. x # a => t.blk[x].link \in Owned(t, k)
        BY <3>1, <1>3
      <3> QED
        BY <3>1, <3>2, <3>3, <2>1, <1>11
    <2>5. x # u.index[k] => \E y \in C : y # a /\ u.blk[y].link = x
      <3>1. x # t.index[k] => \E y \in C : y # a /\ t.blk[y].link = x
        BY <2>1 DEF LiveBlock
      <3> QED
        BY <3>1, <1>3, <1>9, <1>11
    <2>6. u.blk[x].off <= u.blk[a].off
      BY <2>1, <1>7, <1>9, <1>11
    <2>7. \A y \in C : /\ u.blk[y].off = u.blk[x].off => y = x
                       /\ u.blk[y].off > u.blk[x].off => u.blk[y].off >= u.blk[x].off + u.blk[x].size
      <3>1. \A y \in C : /\ t.blk[y].off = t.blk[x].off => y = x
                         /\ t.blk[y].off > t.blk[x].off => t.blk[y].off >= t.blk[x].off + t.blk[x].size
        BY <2>1 DEF LiveBlock
      <3>2. \A y \in C : u.blk[y].off = t.blk[y].off /\ y \in Owned(t, k) /\ t.blk[y].off <= t.blk[a].off
        BY <1>3, <1>7, <1>11
      <3>3. CASE x = a
        BY <3>1, <3>2, <3>3, <1>1, <1>5
      <3>4. CASE x # a
        <4>1. u.blk[x].size = t.blk[x].size
          BY <3>4, <2>1, <1>10 DEF Keeps
        <4> QED
          BY <4>1, <3>1, <3>2
      <3> QED
        BY <3>3, <3>4
    <2> QED
      BY <2>2, <2>3, <2>4, <2>5, <2>6, <2>7 DEF LiveBlock
  <1>13. Live(u, k, v, len, C, a)
    <2>1. /\ C \subseteq Owned(u, k) /\ u.index[k] \in C /\ a \in C
          /\ u.blk[u.index[k]].off = 0 /\ u.blk[u.index[k]].len = len
      BY <1>3, <1>8, <1>9, <1>11 DEF Live
    <2> QED
      BY <2>1, <1>12 DEF Live
  <1>14. a \in C
    BY <1>3 DEF Live
  <1>15. \A x \in O : Keeps(t, u, x)
    BY <1>3, <1>10, <1>14
  <1>16. Orphans(u, k, O, r)
    BY <1>3, <1>15, OrphansFrame
  <1>17. r # Null => ~u.blk[r].first
    BY <1>3, <1>15 DEF Keeps
  <1>18. Upto(u, a) + (ValLen[v] - n) = len
    BY <1>1, <1>4, <1>5, <1>6, <1>9 DEF Upto
  <1>19. Parts(u, k, v, a, ValLen[v] - n, r, C, O)
    BY <1>1, <1>3, <1>8, <1>13, <1>16, <1>17, <1>18 DEF Parts, len
  <1> QED
    BY <1>3, <1>8, <1>19 DEF Partial, r

\* When the next slice is written, it is the new record's last.
LEMMA AdvanceParts ==
    ASSUME NEW t, Space(t), NEW k \in Key, NEW v, NEW a, NEW left \in Nat, NEW n,
           Partial(t, k, v, a, left, n), n # Null, n = t.blk[a].link,
           NEW size \in Nat, size > 0, NEW off, off = Size(k, v) - left,
           NEW u, Placed(t, u, n, k, v, off, size)
    PROVE  Partial(u, k, v, n, left - size, t.blk[n].link)
  <1> DEFINE len == Size(k, v)
             m   == t.blk[n].link
  <1>1. PICK C, O \in SUBSET Owned(t, k) : Parts(t, k, v, a, left, n, C, O)
    BY DEF Partial
  <1>2. /\ v \in Val /\ ~t.blk[n].first
        /\ C \cup O = Owned(t, k) /\ C \cap O = {}
        /\ Live(t, k, v, len, C, a) /\ a \in C
        /\ Upto(t, a) + left = len
        /\ Orphans(t, k, O, n)
    BY <1>1 DEF Parts, Live
  <1>3. n \in O /\ Orphans(t, k, O \ {n}, m)
    BY <1>2, OrphansTail
  <1>4. m # Null => m \in O \ {n} /\ ~t.blk[m].first
    BY <1>2, OrphansNext
  <1>5. n \in Owned(t, k) /\ n \notin C
    BY <1>2, <1>3
  <1>6. len \in Nat
    BY <1>2, Lengths
  <1>7. off = Upto(t, a)
    <2>1. t.blk[a].off \in Nat /\ t.blk[a].size \in Nat
      BY <1>2, OwnedFacts
    <2> QED
      BY <2>1, <1>2, <1>6 DEF Upto
  <1> HIDE DEF len, m
  <1>8. Owned(u, k) = Owned(t, k)
    BY <1>5, PlacedOwn
  <1>9. /\ u.index = t.index /\ u.blk[n].size = size /\ u.blk[n].off = off
        /\ u.blk[n].val = v /\ u.blk[n].link = m /\ ~u.blk[n].first
    BY <1>2 DEF Placed, m
  <1>10. \A x \in Owned(t, k) : x # n => Keeps(t, u, x)
    BY DEF Placed, Owned
  <1>11. \A x \in C : Keeps(t, u, x)
    BY <1>2, <1>5, <1>10
  <1>12. \A x \in O \ {n} : Keeps(t, u, x)
    BY <1>2, <1>10
  <1>13. Live(u, k, v, len, C \cup {n}, n)
    <2>1. \A x \in C : Holds(t, u, x) /\ u.blk[x].link = t.blk[x].link
      BY <1>11 DEF Keeps, Holds
    <2>2. /\ u.blk[a].link = n /\ n \in Owned(u, k) /\ u.index[k] = t.index[k]
          /\ u.blk[n].off = Upto(t, a) /\ u.blk[n].size \in Nat /\ u.blk[n].size > 0
      BY <2>1, <1>2, <1>5, <1>7, <1>8, <1>9
    <2>3. /\ \A x \in C : Holds(t, u, x)
          /\ \A x \in C \ {a} : u.blk[x].link = t.blk[x].link
      BY <2>1
    <2> QED
      BY <2>2, <2>3, <1>2, <1>5, <1>9, Extend
  <1>14. Orphans(u, k, O \ {n}, m)
    BY <1>3, <1>12, OrphansFrame
  <1>15. m # Null => ~u.blk[m].first
    BY <1>4, <1>12 DEF Keeps, m
  <1>16. Upto(u, n) + (left - size) = len
    BY <1>6, <1>9 DEF Upto, len
  <1>17. Parts(u, k, v, n, left - size, m, C \cup {n}, O \ {n})
    <2>1. (C \cup {n}) \cup (O \ {n}) = Owned(u, k) /\ (C \cup {n}) \cap (O \ {n}) = {}
      BY <1>2, <1>3, <1>5, <1>8
    <2> QED
      BY <2>1, <1>2, <1>13, <1>14, <1>15, <1>16 DEF Parts, len
  <1>18. C \cup {n} \in SUBSET Owned(u, k) /\ O \ {n} \in SUBSET Owned(u, k)
    BY <1>2, <1>5, <1>8
  <1> QED
    BY <1>17, <1>18 DEF Partial, m

\* What is known while a put passes the key.
LEMMA SkipFacts ==
    ASSUME NEW t, Space(t), NEW k \in Key, NEW v, NEW a, NEW pass, Skipping(t, k, v, a, pass)
    PROVE  /\ v \in Val /\ pass \in Nat /\ pass > 0 /\ a \in Owned(t, k) /\ a \in UsedIn(t)
           /\ Pass(k) - pass = t.blk[a].off /\ t.blk[a].off \in Nat
           /\ t.blk[a].size \in Nat /\ t.blk[a].size > 0 /\ t.blk[a].size <= Capacity(t, a)
           /\ Capacity(t, a) \in Nat /\ ValLen[v] \in Nat
  <1>1. v \in Val /\ pass \in Nat /\ pass > 0 /\ a \in Owned(t, k) /\ t.blk[a].off + pass = Pass(k)
    BY DEF Skipping
  <1>2. a \in UsedIn(t)
    BY <1>1 DEF Owned
  <1>3. /\ t.blk[a].size \in Nat /\ t.blk[a].size > 0 /\ t.blk[a].size <= Capacity(t, a)
        /\ Capacity(t, a) \in Nat /\ t.blk[a].off \in Nat
    BY <1>2, UsedFacts
  <1>4. Pass(k) \in Nat /\ ValLen[v] \in Nat
    BY <1>1, Lengths
  <1> QED
    BY <1>1, <1>2, <1>3, <1>4

\* A key that does not end in a slice goes on in the one it is linked to.
LEMMA SkipOn ==
    ASSUME NEW t, Space(t), NEW k \in Key, NEW v, NEW a, NEW pass, Skipping(t, k, v, a, pass),
           pass > t.blk[a].size
    PROVE  Skipping(t, k, v, t.blk[a].link, pass - t.blk[a].size)
  <1> DEFINE n == t.blk[a].link
             W == Owned(t, k)
  <1>1. /\ v \in Val /\ pass \in Nat /\ pass > 0 /\ a \in W
        /\ Pass(k) - pass = t.blk[a].off /\ t.blk[a].off \in Nat
        /\ t.blk[a].size \in Nat /\ t.blk[a].size > 0 /\ ValLen[v] \in Nat
    BY SkipFacts
  <1>2. PICK w \in Val : Complete(t, k, w, Size(k, v))
    BY DEF Skipping
  <1>3. PICK e \in W : Chain(t, k, w, Size(k, v), e)
    BY <1>2 DEF Complete
  <1>4. Pass(k) \in Nat /\ Size(k, w) >= Pass(k)
    BY Lengths
  <1>5. a # e
    <2>1. Upto(t, e) = Size(k, w)
      BY <1>3 DEF Chain
    <2> QED
      BY <2>1, <1>1, <1>4 DEF Upto
  <1>6. LiveBlock(t, k, w, W, e, a)
    BY <1>1, <1>3 DEF Chain, Live
  <1>7. n \in W /\ t.blk[n].off = t.blk[a].off + t.blk[a].size
    BY <1>5, <1>6 DEF LiveBlock
  <1>8. /\ pass - t.blk[a].size \in Nat /\ pass - t.blk[a].size > 0
        /\ t.blk[n].off + (pass - t.blk[a].size) = Pass(k)
    BY <1>1, <1>4, <1>7
  <1> HIDE DEF n, W
  <1> QED
    BY <1>1, <1>2, <1>7, <1>8 DEF Skipping, n, W

\* The keys of others stay as they were, when the operations write a block of k's record.
LEMMA PlacedOthers ==
    ASSUME NEW t, NEW u, NEW p, NEW a, NEW k, NEW v, NEW off, NEW size, Others(t, p, k),
           Placed(t, u, a, k, v, off, size), a \in Owned(t, k)
    PROVE  Others(u, p, k)
  BY PlacedOwn, OthersFrame DEF Placed

\* Passing the key and writing the value behind it keep the invariant.
LEMMA SkipGood ==
    ASSUME NEW t, NEW p, NEW k, NEW a, NEW pass, Others(t, p, k), Skipping(t, k, p[k], a, pass),
           SkipKey(t, k, p[k], a, pass), put' = p
    PROVE  Good(Table, put, job)'
  <1> DEFINE v    == p[k]
             link == t.blk[a].link
             room == Capacity(t, a) - pass
             off  == Pass(k) - pass
  <1>1. Space(t) /\ k \in Key
    BY DEF Others
  <1>2. /\ v \in Val /\ pass \in Nat /\ pass > 0 /\ a \in Owned(t, k) /\ a \in UsedIn(t)
        /\ off = t.blk[a].off /\ off \in Nat
        /\ t.blk[a].size \in Nat /\ t.blk[a].size > 0 /\ t.blk[a].size <= Capacity(t, a)
        /\ Capacity(t, a) \in Nat /\ ValLen[v] \in Nat
    BY <1>1, SkipFacts
  <1>3. ASSUME pass > t.blk[a].size,
               Goes(t, [do |-> "skip", key |-> k, at |-> link, left |-> pass - t.blk[a].size])
        PROVE  Good(Table, put, job)'
    <2> DEFINE j == [do |-> "skip", key |-> k, at |-> link, left |-> pass - t.blk[a].size]
    <2>1. Skipping(t, k, v, link, pass - t.blk[a].size)
      BY <1>1, <1>3, SkipOn
    <2>2. link \in Owned(t, k) /\ pass - t.blk[a].size \in Nat
      BY <2>1 DEF Skipping
    <2>3. link \in Address(t.max)
      BY <2>2, <1>1, OwnedFacts
    <2>4. /\ j \in Jobs(t.max) /\ j.do = "skip" /\ j.key = k /\ j.at = link
          /\ j.left = pass - t.blk[a].size
      BY <2>2, <2>3, <1>1 DEF Jobs
    <2>5. Goes(t, j)
      BY <1>3
    <2> HIDE DEF j
    <2>6. JobOK(t, p, j)
      BY <2>1, <2>4 DEF JobOK
    <2> QED
      BY <2>4, <2>5, <2>6, JobGood, GoesGood
  <1>4. ASSUME pass <= t.blk[a].size, ValLen[v] <= room,
               EndRecord(Fitted(t, a, k, v, off, pass + ValLen[v]), k, link)
        PROVE  Good(Table, put, job)'
    <2> DEFINE size == pass + ValLen[v]
               u    == Fitted(t, a, k, v, off, size)
    <2>1. size \in Nat /\ size > 0 /\ size <= Capacity(t, a)
      BY <1>2, <1>4
    <2> HIDE DEF size, off, v
    <2>2. Placed(t, u, a, k, v, off, size) /\ u.at = a
      BY <2>1, <1>1, <1>2, FitPlaced
    <2> HIDE DEF u, link
    <2>3. Others(u, p, k)
      BY <2>2, <1>2, PlacedOthers
    <2>4. Partial(u, k, v, a, ValLen[v] - ValLen[v], link)
      <3>1. size = pass + ValLen[v] /\ off = Pass(k) - pass /\ ValLen[v] <= ValLen[v]
        BY <1>2 DEF size, off
      <3>2. Skipping(t, k, v, a, pass)
        BY DEF v
      <3> QED
        BY <3>1, <3>2, <2>2, <1>1, <1>2, PutParts DEF link
    <2>5. Partial(u, k, p[k], u.at, 0, link)
      <3>1. ValLen[v] - ValLen[v] = 0
        BY <1>2
      <3> QED
        BY <3>1, <2>2, <2>4 DEF v
    <2>6. EndRecord(u, k, link)
      BY <1>4 DEF u, size
    <2> QED
      BY <2>3, <2>5, <2>6, EndGood
  <1>5. ASSUME pass <= t.blk[a].size, ValLen[v] > room,
               Goes(Write(t, a, k, v, off, pass + room),
                    [do |-> "write", key |-> k, at |-> a, left |-> ValLen[v] - room])
        PROVE  Good(Table, put, job)'
    <2> DEFINE size == pass + room
               u    == Write(t, a, k, v, off, size)
               left == ValLen[v] - room
               j    == [do |-> "write", key |-> k, at |-> a, left |-> left]
    <2>1. /\ size \in Nat /\ size > 0 /\ size <= Capacity(t, a) /\ room \in Nat /\ room <= ValLen[v]
          /\ left \in Nat /\ left > 0
      BY <1>2, <1>5
    <2>2. Goes(u, j)
      BY <1>5
    <2>3. size = pass + room /\ off = Pass(k) - pass
      OBVIOUS
    <2> HIDE DEF size, off, v, room
    <2>4. Placed(t, u, a, k, v, off, size)
      BY <2>1, <1>1, <1>2, WritePlaced
    <2> HIDE DEF u
    <2>5. Others(u, p, k)
      BY <2>4, <1>2, PlacedOthers
    <2>6. Partial(u, k, v, a, left, u.blk[a].link)
      <3>1. Skipping(t, k, v, a, pass)
        BY DEF v
      <3>2. Partial(u, k, v, a, left, link)
        BY <3>1, <2>1, <2>3, <2>4, <1>1, PutParts
      <3> QED
        BY <3>2, <2>4 DEF Placed
    <2>7. a \in Address(u.max)
      <3>1. a \in Address(t.max)
        BY <1>1, <1>2, OwnedFacts
      <3> QED
        BY <3>1, <2>4 DEF Placed
    <2> HIDE DEF left
    <2>8. j \in Jobs(u.max) /\ j.do = "write" /\ j.key = k /\ j.at = a /\ j.left = left
      BY <2>1, <2>7, <1>1 DEF Jobs
    <2> HIDE DEF j
    <2>9. JobOK(u, p, j)
      BY <2>1, <2>6, <2>8 DEF JobOK, v
    <2> QED
      BY <2>2, <2>5, <2>8, <2>9, JobGood, GoesGood
  <1>6. CASE pass > t.blk[a].size
    BY <1>2, <1>3, <1>6 DEF SkipKey
  <1>7. CASE pass <= t.blk[a].size
    <2>1. PutValue(t, k, v, a, pass)
      BY <1>2, <1>7 DEF SkipKey
    <2> QED
      BY <2>1, <1>4, <1>5, <1>7 DEF PutValue, Fitted, Moved
  <1> QED
    BY <1>2, <1>6, <1>7

\* Writing the value on into the next slice keeps the invariant.
LEMMA WriteOnGood ==
    ASSUME NEW t, NEW p, NEW k, NEW a, NEW left \in Nat, left > 0, Others(t, p, k),
           Partial(t, k, p[k], a, left, t.blk[a].link), WriteOn(t, k, p[k], a, left), put' = p
    PROVE  Good(Table, put, job)'
  <1> DEFINE v    == p[k]
             n    == t.blk[a].link
             off  == Size(k, v) - left
             size == t.blk[n].size
             link == t.blk[n].link
             full == n # Null /\ size < left /\ size = PAGEMAXSPARE
             fits == n # Null /\ Capacity(t, n) >= left
  <1>1. Space(t) /\ k \in Key
    BY DEF Others
  <1>2. v \in Val /\ a \in Owned(t, k) /\ Partial(t, k, v, a, left, n)
    BY <1>1, PartialFacts
  <1>3. off \in Nat
    <2>1. Upto(t, a) + left = Size(k, v)
      BY <1>2 DEF Partial, Parts
    <2>2. Upto(t, a) \in Nat
      BY <1>1, <1>2, OwnedFacts DEF Upto
    <2> QED
      BY <2>1, <2>2
  <1>4. ASSUME n # Null
        PROVE  /\ n \in Owned(t, k) /\ n \in UsedIn(t) /\ n \in Address(t.max)
               /\ size \in Nat /\ size > 0 /\ size <= Capacity(t, n)
    <2>1. n \in Owned(t, k)
      BY <1>2, <1>4 DEF Partial, Parts, Orphans
    <2>2. n \in UsedIn(t)
      BY <2>1 DEF Owned
    <2> QED
      BY <2>1, <2>2, <1>1, UsedFacts
  <1>5. ASSUME full, Goes(Write(t, n, k, v, off, size),
                          [do |-> "write", key |-> k, at |-> n, left |-> left - size])
        PROVE  Good(Table, put, job)'
    <2> DEFINE u    == Write(t, n, k, v, off, size)
               more == left - size
               j    == [do |-> "write", key |-> k, at |-> n, left |-> more]
    <2>1. /\ n # Null /\ n \in Owned(t, k) /\ n \in UsedIn(t) /\ n \in Address(t.max)
          /\ size \in Nat /\ size > 0 /\ size <= Capacity(t, n) /\ more \in Nat /\ more > 0
      BY <1>4, <1>5
    <2>2. Goes(u, j)
      BY <1>5
    <2>3. off = Size(k, v) - left /\ n = t.blk[a].link /\ more = left - size
      OBVIOUS
    <2> HIDE DEF size, off, v, n, full
    <2>4. Placed(t, u, n, k, v, off, size)
      BY <2>1, <1>1, <1>2, <1>3, WritePlaced
    <2> HIDE DEF u, more
    <2>5. Others(u, p, k)
      BY <2>1, <2>4, PlacedOthers
    <2>6. Partial(u, k, v, n, more, u.blk[n].link)
      <3>1. Partial(u, k, v, n, left - size, t.blk[n].link)
        BY <2>1, <2>3, <2>4, <1>1, <1>2, AdvanceParts
      <3> QED
        BY <3>1, <2>3, <2>4 DEF Placed
    <2>7. n \in Address(u.max)
      BY <2>1, <2>4 DEF Placed
    <2>8. j \in Jobs(u.max) /\ j.do = "write" /\ j.key = k /\ j.at = n /\ j.left = more
      BY <2>1, <2>7, <1>1 DEF Jobs
    <2> HIDE DEF j
    <2>9. JobOK(u, p, j)
      BY <2>1, <2>6, <2>8 DEF JobOK, v
    <2> QED
      BY <2>2, <2>5, <2>8, <2>9, JobGood, GoesGood
  <1>6. ASSUME fits, EndRecord(Fitted(t, n, k, v, off, left), k, link)
        PROVE  Good(Table, put, job)'
    <2> DEFINE u == Fitted(t, n, k, v, off, left)
    <2>1. /\ n # Null /\ n \in Owned(t, k) /\ n \in UsedIn(t) /\ left <= Capacity(t, n)
      <3>1. n # Null /\ Capacity(t, n) >= left
        BY <1>6
      <3>2. Capacity(t, n) \in Nat
        BY <3>1, <1>1, <1>4, UsedFacts
      <3> QED
        BY <3>1, <3>2, <1>4
    <2>2. off = Size(k, v) - left /\ n = t.blk[a].link
      OBVIOUS
    <2>3. EndRecord(u, k, link)
      BY <1>6
    <2> HIDE DEF off, v, n, fits
    <2>4. Placed(t, u, n, k, v, off, left) /\ u.at = n
      BY <2>1, <1>1, <1>2, <1>3, FitPlaced
    <2> HIDE DEF u
    <2>5. Others(u, p, k)
      BY <2>1, <2>4, PlacedOthers
    <2>6. Partial(u, k, v, n, left - left, t.blk[n].link)
      BY <2>1, <2>2, <2>4, <1>1, <1>2, AdvanceParts
    <2>7. left - left = 0
      OBVIOUS
    <2>8. Partial(u, k, p[k], u.at, 0, link)
      BY <2>4, <2>6, <2>7 DEF v
    <2> QED
      BY <2>3, <2>5, <2>8, EndGood
  <1>7. ASSUME AppendSlice(t, k, v, a, left, n) PROVE Good(Table, put, job)'
    BY <1>2, <1>7, AppendGood
  <1>8. \/ full /\ Goes(Write(t, n, k, v, off, size),
                        [do |-> "write", key |-> k, at |-> n, left |-> left - size])
        \/ fits /\ EndRecord(Fitted(t, n, k, v, off, left), k, link)
        \/ AppendSlice(t, k, v, a, left, n)
    BY DEF WriteOn, Fitted, Moved
  <1> QED
    BY <1>5, <1>6, <1>7, <1>8

\* put_replace keeps the invariant for a key that has a record.
LEMMA ReplaceGood ==
    ASSUME NEW t, NEW p, NEW k, NEW w \in Val, Others(t, p, k), Whole(t, k, w), p[k] \in Val,
           PutReplace(t, k, p[k]), put' = p
    PROVE  Good(Table, put, job)'
  <1> DEFINE v == p[k]
             a == t.index[k]
             u == Relen(t, a, Size(k, v))
  <1>1. Space(t) /\ k \in Key
    BY DEF Others
  <1>2. Complete(t, k, w, Size(k, w))
    BY NoValAssumption DEF Whole
  <1>3. Orphans(t, k, Owned(t, k), a) /\ a \in Owned(t, k)
    BY <1>1, <1>2, AllOrphans
  <1>4. ASSUME FreeData(t, k, v, Null, a) PROVE Good(Table, put, job)'
    <2>1. a # Null
      BY <1>1, <1>3, OwnedFacts
    <2> DEFINE none == Null
    <2>2. FreeData(t, k, p[k], none, a) /\ none = Null
      BY <1>4
    <2> HIDE DEF none
    <2> QED
      BY <2>1, <2>2, <1>3, FreeGood
  <1>5. ASSUME SkipKey(u, k, v, a, Pass(k)) PROVE Good(Table, put, job)'
    <2>1. PICK e \in Owned(t, k) : Chain(t, k, w, Size(k, w), e)
      BY <1>2 DEF Complete
    <2>2. a \in UsedIn(t) /\ t.blk[a].key = k /\ Size(k, v) \in Nat /\ Pass(k) \in Nat /\ Pass(k) >= 8
      BY <1>1, <1>3, Lengths DEF Owned
    <2>3. /\ Space(u) /\ UsedIn(u) = UsedIn(t)
          /\ \A x \in DOMAIN t.blk : x # a => u.blk[x] = t.blk[x]
          /\ u.blk[a].len = Size(k, v) /\ u.blk[a].link = t.blk[a].link
          /\ u.blk[a].size = t.blk[a].size /\ u.blk[a].off = t.blk[a].off
          /\ u.blk[a].key = t.blk[a].key /\ u.blk[a].val = t.blk[a].val
          /\ u.blk[a].first = t.blk[a].first
          /\ u.index = t.index
      <3> DEFINE len == Size(k, v)
      <3>1. len \in Nat /\ u = Relen(t, a, len)
        BY <2>2
      <3> HIDE DEF len, u, a, v
      <3>2. /\ Space(u) /\ UsedIn(u) = UsedIn(t)
            /\ \A x \in DOMAIN t.blk : x # a => u.blk[x] = t.blk[x]
            /\ u.blk[a].len = len /\ u.blk[a].link = t.blk[a].link
            /\ u.blk[a].size = t.blk[a].size /\ u.blk[a].off = t.blk[a].off
            /\ u.blk[a].key = t.blk[a].key /\ u.blk[a].val = t.blk[a].val
            /\ u.blk[a].first = t.blk[a].first
            /\ u.index = t.index
        BY <3>1, <2>2, <1>1, LenFacts
      <3> QED
        BY <3>2 DEF len
    <2> HIDE DEF u
    <2>4. \A x \in UsedIn(t) : x # a => Keeps(t, u, x)
      BY <2>3 DEF UsedIn, Keeps
    <2>5. Owned(u, k) = Owned(t, k) /\ Apart(t, u, k)
      <3>1. \A x \in UsedIn(t) : u.blk[x].key = t.blk[x].key
        BY <2>3, <2>4 DEF Keeps
      <3>2. Owned(u, k) = Owned(t, k)
        BY <3>1, <2>3 DEF Owned
      <3>3. \A x \in UsedIn(t) : t.blk[x].key # k => Keeps(t, u, x)
        BY <2>2, <2>4
      <3> QED
        BY <3>1, <3>2, <3>3, <2>3, OwnApart
    <2>6. Others(u, p, k)
      BY <2>3, <2>5, OthersFrame
    <2>7. \A x \in Owned(t, k) : /\ u.blk[x].link = t.blk[x].link /\ u.blk[x].size = t.blk[x].size
                                 /\ u.blk[x].off = t.blk[x].off /\ u.blk[x].val = t.blk[x].val
                                 /\ u.blk[x].first = t.blk[x].first
      BY <2>3, <2>4 DEF Keeps, Owned
    <2>8. Live(u, k, w, Size(k, v), Owned(u, k), e)
      <3>1. /\ a \in Owned(t, k) /\ e \in Owned(t, k) /\ t.blk[a].off = 0
            /\ \A x \in Owned(t, k) : LiveBlock(t, k, w, Owned(t, k), e, x)
        BY <2>1 DEF Chain, Live
      <3>2. \A x \in Owned(t, k) : LiveBlock(u, k, w, Owned(t, k), e, x)
        BY <3>1, <2>3, <2>7 DEF LiveBlock
      <3>3. u.index[k] = a
        BY <2>3
      <3> QED
        BY <3>1, <3>2, <3>3, <2>3, <2>5 DEF Live
    <2>9. Complete(u, k, w, Size(k, v))
      <3>1. Upto(u, e) = Upto(t, e) /\ u.blk[e].link = t.blk[e].link
        BY <2>7 DEF Upto
      <3>2. Chain(u, k, w, Size(k, v), e)
        BY <3>1, <2>1, <2>8 DEF Chain
      <3> QED
        BY <3>2, <2>5 DEF Complete
    <2>10. Skipping(u, k, p[k], a, Pass(k))
      <3>1. u.blk[a].off + Pass(k) = Pass(k)
        BY <2>1, <2>2, <2>3 DEF Chain, Live
      <3> QED
        BY <3>1, <2>2, <2>5, <2>9, <1>3 DEF Skipping
    <2> DEFINE pass == Pass(k)
    <2>11. Skipping(u, k, p[k], a, pass) /\ SkipKey(u, k, p[k], a, pass)
      BY <2>10, <1>5 DEF u
    <2> HIDE DEF pass
    <2> QED
      BY <2>6, <2>11, SkipGood
  <1> QED
    BY <1>4, <1>5 DEF PutReplace, Relen

\* del keeps the invariant for a key that has a record.
LEMMA DelGood ==
    ASSUME NEW t, NEW p, NEW k, NEW w \in Val, Others(t, p, k), Whole(t, k, w), p[k] = NoVal,
           FreeData(t, k, NoVal, Null, t.index[k]), put' = p
    PROVE  Good(Table, put, job)'
  <1> DEFINE a    == t.index[k]
             none == Null
  <1>1. Space(t) /\ k \in Key
    BY DEF Others
  <1>2. Complete(t, k, w, Size(k, w))
    BY NoValAssumption DEF Whole
  <1>3. Orphans(t, k, Owned(t, k), a) /\ a \in Owned(t, k)
    BY <1>1, <1>2, AllOrphans
  <1>4. a # Null
    BY <1>1, <1>3, OwnedFacts
  <1>5. FreeData(t, k, p[k], none, a) /\ none = Null
    OBVIOUS
  <1> HIDE DEF none
  <1> QED
    BY <1>3, <1>4, <1>5, FreeGood

-------------------------------------------------------------------------------
(* The steps *)

\* The inductive invariant.
IInv == Good(Table, put, job)

\* The table that the operations start from is the one of the variables.
LEMMA TableFacts ==
    /\ Table.blk = blk /\ Table.frag = frag /\ Table.free = free /\ Table.max = max
    /\ Table.index = index /\ Table.at = Null
  BY DEF Table

\* The fields of a job.
LEMMA JobFacts ==
    ASSUME NEW m, NEW j \in Jobs(m)
    PROVE  /\ j.do \in {"idle", "append", "free", "skip", "write", "read"}
           /\ j.do = "idle" => j = Idle
           /\ j.do # "idle" => j.key \in Key
           /\ j.do \in {"append", "skip", "write", "read"} => j.left \in Nat
  BY DEF Jobs, Idle

\* In the middle of an operation the records of the other keys are whole.
LEMMA OthersWork ==
    ASSUME NEW t, NEW p, NEW j, Good(t, p, j), j.do \notin {"idle", "read"}
    PROVE  Others(t, p, j.key) /\ JobOK(t, p, j) /\ j.key \in Key
  <1>1. j.key \in Key
    BY JobFacts DEF Good, Records
  <1> QED
    BY <1>1 DEF Good, Records, Others

\* What put becomes.
Puts(p, k, v) == [p EXCEPT ![k] = v]

\* When an operation starts, so are they, and its own.
LEMMA OthersRest ==
    ASSUME NEW t, NEW p, Good(t, p, Idle), NEW k \in Key, NEW v \in Val \cup {NoVal},
           NEW q, q = Puts(p, k, v)
    PROVE  Others(t, q, k) /\ Whole(t, k, p[k]) /\ q[k] = v
  <1>1. Idle.do = "idle"
    BY DEF Idle
  <1>2. /\ q \in [Key -> Val \cup {NoVal}] /\ q[k] = v /\ \A x \in Key \ {k} : q[x] = p[x]
    BY DEF Good, Records, Puts
  <1>3. \A x \in Key : Whole(t, x, p[x])
    BY <1>1 DEF Good, Records
  <1> QED
    BY <1>2, <1>3 DEF Good, Records, Others

\* A key is in the index if it was put.
LEMMA WholeIndex ==
    ASSUME NEW t, Space(t), NEW k \in Key, NEW v, Whole(t, k, v)
    PROVE  t.index[k] # Null <=> v # NoVal
  <1>1. CASE v = NoVal
    BY <1>1 DEF Whole
  <1>2. CASE v # NoVal
    <2>1. Complete(t, k, v, Size(k, v))
      BY <1>2 DEF Whole
    <2>2. t.index[k] \in Owned(t, k)
      BY <2>1, AllOrphans
    <2> QED
      BY <1>2, <2>2, OwnedFacts
  <1> QED
    BY <1>1, <1>2

\* A reader at a slice of a whole record goes on to the slice that comes next, or
\* has reached the end.
LEMMA ExtractGood ==
    ASSUME NEW t, t = Table, NEW p, NEW j, Good(t, p, j), j.do \in {"idle", "read"},
           NEW k \in Key, p[k] \in Val, NEW a \in Owned(t, k), NEW done, done = t.blk[a].off,
           Extract(k, a, done)
    PROVE  Good(t, p, job')
  <1> DEFINE n    == t.blk[a].link
             more == done + t.blk[a].size
             new  == [do |-> "read", key |-> k, at |-> n, left |-> more]
             W    == Owned(t, k)
  <1>1. /\ Space(t) /\ HaveKeys(t) /\ p \in [Key -> Val \cup {NoVal}]
        /\ \A q \in Key : Whole(t, q, p[q])
    BY DEF Good, Records
  <1>2. blk = t.blk
    BY TableFacts
  <1>3. CASE job' = Idle
    <2>1. Idle.do = "idle" /\ Idle \in Jobs(t.max)
      BY DEF Idle, Jobs
    <2>2. JobOK(t, p, Idle)
      BY <2>1 DEF JobOK
    <2> QED
      BY <1>1, <1>3, <2>1, <2>2 DEF Good, Records
  <1>4. CASE (Pass(k) > more \/ n # Null) /\ job' = new
    <2>1. PICK e \in W : Chain(t, k, p[k], Size(k, p[k]), e)
      BY <1>1, NoValAssumption DEF Whole, Complete
    <2>2. Size(k, p[k]) >= Pass(k) /\ Pass(k) \in Nat /\ Size(k, p[k]) \in Nat
      BY Lengths
    <2>3. a # e
      BY <2>1, <2>2, <1>4 DEF Chain, Upto
    <2>4. n \in W /\ t.blk[n].off = more
      BY <2>1, <2>3 DEF Chain, Live, LiveBlock
    <2>5. n \in Address(t.max) /\ more \in Nat
      BY <2>4, <1>1, OwnedFacts
    <2>6. /\ new \in Jobs(t.max) /\ new.do = "read" /\ new.key = k /\ new.at = n /\ new.left = more
      BY <2>5 DEF Jobs
    <2> HIDE DEF new, n, more
    <2>7. JobOK(t, p, new)
      BY <2>4, <2>6 DEF JobOK
    <2> QED
      BY <1>1, <1>4, <2>6, <2>7 DEF Good, Records
  <1> QED
    BY <1>2, <1>3, <1>4 DEF Extract

\* Insert keeps the invariant.
LEMMA InsertStep ==
    ASSUME IInv, NEW k \in Key, NEW v \in Val, Insert(k, v)
    PROVE  IInv'
  <1> DEFINE t == Table
             p == Puts(put, k, v)
  <1>1. Good(t, put, Idle) /\ t.index[k] = Null /\ CreateNode(t, k, v) /\ put' = p
    BY TableFacts DEF IInv, Insert, Puts
  <1> HIDE DEF t
  <1>2. Others(t, p, k) /\ Whole(t, k, put[k]) /\ p[k] = v
    BY <1>1, OthersRest
  <1>3. put[k] = NoVal
    BY <1>1, <1>2, WholeIndex DEF Good
  <1>4. Owned(t, k) = {}
    BY <1>2, <1>3 DEF Whole
  <1> HIDE DEF p
  <1> QED
    BY <1>1, <1>2, <1>4, CreateGood DEF IInv

\* Replace keeps the invariant.
LEMMA ReplaceStep ==
    ASSUME IInv, NEW k \in Key, NEW v \in Val, Replace(k, v)
    PROVE  IInv'
  <1> DEFINE t == Table
             p == Puts(put, k, v)
  <1>1. Good(t, put, Idle) /\ t.index[k] # Null /\ PutReplace(t, k, v) /\ put' = p
    BY TableFacts DEF IInv, Replace, Puts
  <1> HIDE DEF t
  <1>2. Others(t, p, k) /\ Whole(t, k, put[k]) /\ p[k] = v
    BY <1>1, OthersRest
  <1>3. put[k] \in Val
    BY <1>1, <1>2, WholeIndex DEF Good, Records
  <1> HIDE DEF p
  <1> QED
    BY <1>1, <1>2, <1>3, ReplaceGood DEF IInv

\* Del keeps the invariant.
LEMMA DelStep ==
    ASSUME IInv, NEW k \in Key, Del(k)
    PROVE  IInv'
  <1> DEFINE t == Table
             p == Puts(put, k, NoVal)
  <1>1. Good(t, put, Idle) /\ t.index[k] # Null /\ FreeData(t, k, NoVal, Null, t.index[k]) /\ put' = p
    BY TableFacts DEF IInv, Del, Puts
  <1> HIDE DEF t
  <1>2. Others(t, p, k) /\ Whole(t, k, put[k]) /\ p[k] = NoVal
    BY <1>1, OthersRest
  <1>3. put[k] \in Val
    BY <1>1, <1>2, WholeIndex DEF Good, Records
  <1> HIDE DEF p
  <1> QED
    BY <1>1, <1>2, <1>3, DelGood DEF IInv

\* Find keeps the invariant.
LEMMA FindStep ==
    ASSUME IInv, NEW k \in Key, Find(k)
    PROVE  IInv'
  <1> DEFINE t == Table
             a == t.index[k]
             done == 0
  <1>1. /\ Good(t, put, Idle) /\ a # Null /\ Extract(k, a, done) /\ put' = put /\ Table' = t
    BY TableFacts DEF IInv, Find, Table
  <1>2. t = Table
    OBVIOUS
  <1> HIDE DEF t
  <1>3. Idle.do = "idle"
    BY DEF Idle
  <1>4. Space(t) /\ Whole(t, k, put[k]) /\ put \in [Key -> Val \cup {NoVal}]
    BY <1>1, <1>3 DEF Good, Records
  <1>5. put[k] \in Val
    BY <1>1, <1>4, WholeIndex
  <1>6. PICK e \in Owned(t, k) : Chain(t, k, put[k], Size(k, put[k]), e)
    BY <1>4, <1>5, NoValAssumption DEF Whole, Complete
  <1>7. a \in Owned(t, k) /\ done = t.blk[a].off
    BY <1>6 DEF Chain, Live
  <1> HIDE DEF a, done
  <1>8. Good(t, put, job')
    BY <1>1, <1>2, <1>3, <1>5, <1>7, ExtractGood
  <1> QED
    BY <1>1, <1>8 DEF IInv

\* Read keeps the invariant.
LEMMA ReadStep ==
    ASSUME IInv, Read
    PROVE  IInv'
  <1> DEFINE t == Table
  <1>1. /\ Good(t, put, job) /\ job.do = "read" /\ Extract(job.key, job.at, job.left)
        /\ put' = put /\ Table' = t
    BY DEF IInv, Read, Table
  <1>2. t = Table
    OBVIOUS
  <1> HIDE DEF t
  <1>3. /\ job.key \in Key /\ put[job.key] \in Val /\ job.at \in Owned(t, job.key)
        /\ job.left = t.blk[job.at].off
    BY <1>1, JobFacts DEF Good, Records, JobOK
  <1>4. Good(t, put, job')
    BY <1>1, <1>2, <1>3, ExtractGood
  <1> QED
    BY <1>1, <1>4 DEF IInv

\* AppendNext keeps the invariant.
LEMMA AppendStep ==
    ASSUME IInv, AppendNext
    PROVE  IInv'
  <1> DEFINE t == Table
  <1>1. /\ Good(t, put, job) /\ job.do = "append" /\ put' = put
        /\ AppendSlice(t, job.key, put[job.key], job.at, job.left, job.rest)
    BY DEF IInv, AppendNext
  <1> HIDE DEF t
  <1>2. Others(t, put, job.key) /\ JobOK(t, put, job)
    BY <1>1, OthersWork
  <1>3. /\ job.left \in Nat /\ job.left > 0
        /\ Partial(t, job.key, put[job.key], job.at, job.left, job.rest)
    BY <1>1, <1>2, JobFacts DEF JobOK, Good, Records
  <1> QED
    BY <1>1, <1>2, <1>3, AppendGood DEF IInv

\* Free keeps the invariant.
LEMMA FreeStep ==
    ASSUME IInv, Free
    PROVE  IInv'
  <1> DEFINE t == Table
  <1>1. /\ Good(t, put, job) /\ job.do = "free" /\ put' = put
        /\ FreeData(t, job.key, put[job.key], job.at, job.rest)
    BY DEF IInv, Free
  <1> HIDE DEF t
  <1>2. Others(t, put, job.key) /\ JobOK(t, put, job)
    BY <1>1, OthersWork
  <1>3. /\ job.rest # Null
        /\ job.at = Null => Orphans(t, job.key, Owned(t, job.key), job.rest)
        /\ job.at # Null => Partial(t, job.key, put[job.key], job.at, 0, job.rest)
    BY <1>1, <1>2 DEF JobOK, Remains
  <1> QED
    BY <1>1, <1>2, <1>3, FreeGood DEF IInv

\* Skip keeps the invariant.
LEMMA SkipStep ==
    ASSUME IInv, Skip
    PROVE  IInv'
  <1> DEFINE t == Table
  <1>1. /\ Good(t, put, job) /\ job.do = "skip" /\ put' = put
        /\ SkipKey(t, job.key, put[job.key], job.at, job.left)
    BY DEF IInv, Skip
  <1> HIDE DEF t
  <1>2. Others(t, put, job.key) /\ Skipping(t, job.key, put[job.key], job.at, job.left)
    BY <1>1, OthersWork DEF JobOK
  <1> QED
    BY <1>1, <1>2, SkipGood DEF IInv

\* WriteNext keeps the invariant.
LEMMA WriteStep ==
    ASSUME IInv, WriteNext
    PROVE  IInv'
  <1> DEFINE t == Table
  <1>1. /\ Good(t, put, job) /\ job.do = "write" /\ put' = put
        /\ WriteOn(t, job.key, put[job.key], job.at, job.left)
    BY DEF IInv, WriteNext
  <1> HIDE DEF t
  <1>2. Others(t, put, job.key) /\ JobOK(t, put, job)
    BY <1>1, OthersWork
  <1>3. /\ job.left \in Nat /\ job.left > 0
        /\ Partial(t, job.key, put[job.key], job.at, job.left, t.blk[job.at].link)
    BY <1>1, <1>2, JobFacts DEF JobOK, Good, Records
  <1> QED
    BY <1>1, <1>2, <1>3, WriteOnGood DEF IInv

\* Every step keeps the invariant.
LEMMA Step == IInv /\ [Next]_vars => IInv'
  <1> SUFFICES ASSUME IInv, [Next]_vars PROVE IInv'
    OBVIOUS
  <1>1. ASSUME NEW k \in Key, Del(k) PROVE IInv'
    BY <1>1, DelStep
  <1>2. ASSUME NEW k \in Key, Find(k) PROVE IInv'
    BY <1>2, FindStep
  <1>3. ASSUME NEW k \in Key, NEW v \in Val, Insert(k, v) PROVE IInv'
    BY <1>3, InsertStep
  <1>4. ASSUME NEW k \in Key, NEW v \in Val, Replace(k, v) PROVE IInv'
    BY <1>4, ReplaceStep
  <1>5. CASE UNCHANGED vars
    BY <1>5 DEF IInv, Table, vars
  <1> QED
    BY <1>1, <1>2, <1>3, <1>4, <1>5, AppendStep, FreeStep, SkipStep, WriteStep, ReadStep DEF Next

\* An empty table is an invariant state.
LEMMA Start == Init => IInv
  <1> SUFFICES ASSUME Init PROVE IInv
    OBVIOUS
  <1> DEFINE t == Table
  <1>1. /\ t.blk = <<>> /\ t.frag = [i \in Classes |-> Null] /\ t.free = <<>> /\ t.max = 0
        /\ t.index = [k \in Key |-> Null] /\ t.at = Null
        /\ job = Idle /\ put = [k \in Key |-> NoVal]
    BY TableFacts DEF Init
  <1>2. t = [blk |-> t.blk, frag |-> t.frag, free |-> t.free, max |-> t.max, index |-> t.index, at |-> t.at]
    BY DEF Table
  <1>3. DOMAIN t.blk = {} /\ DOMAIN t.free = {}
    BY <1>1
  <1> HIDE DEF t
  <1>4. Null \in Address(t.max)
    BY <1>1, NullAddress
  <1>5. IsTable(t)
    <2>1. t.max \in Nat /\ t.free \in Seq(1..t.max) /\ t.blk \in [DOMAIN t.blk -> BlockSet(t.max)]
      BY <1>1, <1>3
    <2>2. t.frag \in [Classes -> Address(t.max)] /\ t.index \in [Key -> Address(t.max)]
      BY <1>1, <1>4
    <2> QED
      BY <1>1, <1>2, <1>3, <1>4, <2>1, <2>2 DEF IsTable
  <1>6. Tiled(t)
    BY <1>1, <1>3 DEF Tiled, PagesUsed, Tiles
  <1>7. FreeIn(t) = {} /\ UsedIn(t) = {}
    BY <1>3 DEF FreeIn, UsedIn
  <1>8. Space(t)
    BY <1>1, <1>3, <1>5, <1>6, <1>7 DEF Space, Listed, Heads, Linked, NoRing, Joined
  <1>9. Records(t, put, Idle)
    <2>1. Idle \in Jobs(t.max) /\ Idle.do = "idle"
      BY DEF Idle, Jobs
    <2>2. \A k \in Key : Whole(t, k, put[k])
      BY <1>1, <1>7 DEF Whole, Owned
    <2> QED
      BY <1>1, <1>7, <2>1, <2>2 DEF Records, HaveKeys, JobOK
  <1> QED
    BY <1>1, <1>8, <1>9 DEF IInv, Good, t

\* The invariant holds in every state.
THEOREM Invariance == Spec => []IInv
  <1> QED
    BY Start, Step, PTL DEF Spec

-------------------------------------------------------------------------------
(* What the invariant says of the variables *)

\* The space of an invariant state is kept.
LEMMA SpaceHolds == IInv => SpaceIsKept
  <1> SUFFICES ASSUME IInv PROVE SpaceIsKept
    OBVIOUS
  <1> DEFINE t == Table
  <1>1. /\ t.blk = blk /\ t.frag = frag /\ t.free = free /\ t.max = max /\ t.index = index
    BY TableFacts
  <1>2. Space(t) /\ Records(t, put, job)
    BY DEF IInv, Good
  <1>3. FreeIn(t) = FreeBlocks
    BY <1>1 DEF FreeIn, FreeBlocks
  <1>4. TypeOK
    BY <1>1, <1>2 DEF Space, IsTable, Records, TypeOK, Address, BlockSet, Jobs
  <1>5. PagesAreTiled
    BY <1>1, <1>2 DEF Space, Tiled, PagesUsed, Tiles, PagesAreTiled, InUse
  <1>6. FreeIsListed
    <2>1. Heads(t, FreeBlocks) /\ Linked(t, FreeBlocks) /\ NoRing(t, FreeBlocks)
      BY <1>2, <1>3 DEF Space, Listed
    <2> HIDE DEF t
    <2>2. \A a : Class(t, a) = Class(Table, a)
      BY DEF t
    <2> QED
      BY <1>1, <2>1, <2>2 DEF Heads, Linked, NoRing, FreeIsListed
  <1>7. FreeIsJoined
    <2>1. \A a \in FreeBlocks : NextHead(t, a) \notin FreeBlocks /\ Capacity(t, a) < PAGEMAXSPARE
      BY <1>2, <1>3 DEF Space, Joined
    <2>2. \A a : IsFree(t, a) => a \in FreeBlocks
      BY <1>1 DEF IsFree, FreeBlocks
    <2> QED
      BY <2>1, <2>2 DEF FreeIsJoined
  <1> QED
    BY <1>4, <1>5, <1>6, <1>7 DEF SpaceIsKept

\* The links of a whole record.
LEMMA ChainFacts ==
    ASSUME NEW t, Space(t), NEW k \in Key, NEW v \in Val, Whole(t, k, v), NEW x \in Owned(t, k)
    PROVE  /\ t.blk[x].first <=> x = t.index[k]
           /\ t.blk[x].off = 0 => x = t.index[k] /\ t.blk[x].len = Size(k, v)
           /\ t.blk[x].off + t.blk[x].size > Pass(k) => t.blk[x].val = v
           /\ t.blk[x].link = Null => t.blk[x].off + t.blk[x].size = Size(k, v)
           /\ t.blk[x].link # Null => /\ t.blk[x].link \in Owned(t, k)
                                      /\ t.blk[t.blk[x].link].off = t.blk[x].off + t.blk[x].size
           /\ x # t.index[k] => \E y \in Owned(t, k) : t.blk[y].link = x
           /\ \A y \in Owned(t, k) : t.blk[y].off > t.blk[x].off => t.blk[y].off >= t.blk[x].off + t.blk[x].size
           /\ \A y \in Owned(t, k) : t.blk[y].off = t.blk[x].off => y = x
  <1>1. PICK e \in Owned(t, k) : Chain(t, k, v, Size(k, v), e)
    BY NoValAssumption DEF Whole, Complete
  <1>2. /\ t.index[k] \in Owned(t, k) /\ t.blk[t.index[k]].off = 0
        /\ t.blk[t.index[k]].len = Size(k, v)
        /\ \A y \in Owned(t, k) : LiveBlock(t, k, v, Owned(t, k), e, y)
        /\ t.blk[e].link = Null /\ Upto(t, e) = Size(k, v)
    BY <1>1 DEF Chain, Live
  <1>3. \A y \in Owned(t, k) : y # Null
    BY OwnedFacts
  <1>4. LiveBlock(t, k, v, Owned(t, k), e, x)
    BY <1>2
  <1>5. t.blk[x].link = Null <=> x = e
    BY <1>2, <1>3, <1>4 DEF LiveBlock
  <1>6. t.blk[x].off = 0 => x = t.index[k]
    BY <1>2, <1>4 DEF LiveBlock
  <1> QED
    BY <1>2, <1>4, <1>5, <1>6 DEF LiveBlock, Upto

\* A rebuild from an invariant state finds its records: the first slices are those
\* of the index, and one slice is linked to each other one.
LEMMA RebuildHolds == IInv => RebuildFindsAll
  <1> SUFFICES ASSUME IInv, job = Idle PROVE RebuildFindsAll
    BY DEF RebuildFindsAll
  <1> DEFINE t == Table
  <1>1. t.blk = blk /\ t.index = index /\ UsedIn(t) = Slices
    BY TableFacts DEF UsedIn, Slices, FreeBlocks
  <1>2. /\ Space(t) /\ HaveKeys(t) /\ put \in [Key -> Val \cup {NoVal}]
        /\ \A k \in Key : Whole(t, k, put[k])
    BY DEF IInv, Good, Records, Idle
  <1> HIDE DEF t
  <1>3. ASSUME NEW x \in Slices
        PROVE  /\ blk[x].key \in Key /\ x \in Owned(t, blk[x].key) /\ put[blk[x].key] \in Val
               /\ Whole(t, blk[x].key, put[blk[x].key])
    <2>1. blk[x].key \in Key /\ x \in Owned(t, blk[x].key)
      BY <1>1, <1>2 DEF HaveKeys, Owned
    <2> QED
      BY <2>1, <1>2 DEF Whole
  <1>4. ASSUME NEW k \in Key, index[k] # Null
        PROVE  index[k] \in Owned(t, k) /\ put[k] \in Val /\ index[k] \in Slices /\ blk[index[k]].key = k
    <2>1. put[k] \in Val
      BY <1>1, <1>2, <1>4 DEF Whole
    <2>2. index[k] \in Owned(t, k)
      BY <2>1, <1>1, <1>2, NoValAssumption DEF Whole, Complete, Chain, Live
    <2> QED
      BY <2>1, <2>2, <1>1 DEF Owned
  <1>5. Browse = {index[k] : k \in Key} \ {Null}
    <2>1. ASSUME NEW x \in Browse PROVE x \in {index[k] : k \in Key} \ {Null}
      <3>1. x \in Slices /\ blk[x].first
        BY DEF Browse
      <3>2. x = index[blk[x].key] /\ blk[x].key \in Key
        BY <3>1, <1>1, <1>2, <1>3, ChainFacts
      <3>3. x # Null
        BY <3>1, <1>2, <1>3, OwnedFacts
      <3> QED
        BY <3>2, <3>3
    <2>2. ASSUME NEW k \in Key, index[k] # Null PROVE index[k] \in Browse
      BY <2>2, <1>1, <1>2, <1>4, ChainFacts DEF Browse
    <2> QED
      BY <2>1, <2>2
  <1>6. ASSUME NEW a \in Slices \ Browse
        PROVE  \E b \in Slices : /\ blk[b].link = a /\ blk[b].key = blk[a].key /\ blk[b].off < blk[a].off
                                 /\ \A c \in Slices : blk[c].link = a => c = b
    <2> DEFINE k == blk[a].key
    <2>1. k \in Key /\ a \in Owned(t, k) /\ put[k] \in Val /\ Whole(t, k, put[k]) /\ ~blk[a].first
      BY <1>3 DEF Browse
    <2>2. PICK b \in Owned(t, k) : blk[b].link = a
      BY <2>1, <1>1, <1>2, ChainFacts
    <2>3. a # Null
      BY <2>1, <1>2, OwnedFacts
    <2> HIDE DEF k
    <2>4. \A c \in Owned(t, k) : blk[c].off \in Nat /\ blk[c].size \in Nat /\ blk[c].size > 0
      BY <1>1, <1>2, OwnedFacts
    <2>5. \A c \in Owned(t, k) : blk[c].link = a => blk[a].off = blk[c].off + blk[c].size
      BY <2>1, <2>3, <1>1, <1>2, ChainFacts
    <2>6. b \in Slices /\ blk[b].key = k
      BY <1>1 DEF Owned
    <2>7. ASSUME NEW c \in Slices, blk[c].link = a PROVE c = b
      <3>1. c \in Owned(t, k)
        <4>1. /\ blk[c].key \in Key /\ c \in Owned(t, blk[c].key) /\ put[blk[c].key] \in Val
              /\ Whole(t, blk[c].key, put[blk[c].key])
          BY <1>3
        <4>2. a \in Owned(t, blk[c].key)
          BY <4>1, <2>3, <2>7, <1>1, <1>2, ChainFacts
        <4> QED
          BY <4>1, <4>2, <2>1 DEF Owned
      <3>2. blk[a].off = blk[c].off + blk[c].size /\ blk[a].off = blk[b].off + blk[b].size
        BY <3>1, <2>2, <2>5, <2>7
      <3>3. /\ blk[c].off > blk[b].off => blk[c].off >= blk[b].off + blk[b].size
            /\ blk[b].off > blk[c].off => blk[b].off >= blk[c].off + blk[c].size
            /\ blk[b].off = blk[c].off => c = b
        BY <3>1, <2>1, <1>1, <1>2, ChainFacts
      <3> QED
        BY <3>1, <3>2, <3>3, <2>4
    <2>8. blk[b].off < blk[a].off
      BY <2>2, <2>4, <2>5
    <2> QED
      BY <2>2, <2>6, <2>7, <2>8 DEF k
  <1> QED
    BY <1>4, <1>5, <1>6 DEF RebuildFindsAll

\* A slice of a whole record is a piece of what was put last.
LEMMA PieceHolds ==
    ASSUME NEW t, t = Table, Space(t), NEW k \in Key, put[k] \in Val, Whole(t, k, put[k]),
           NEW a \in Owned(t, k), NEW off, off = t.blk[a].off
    PROVE  Piece(k, a, off)
  <1>1. t.blk = blk
    BY TableFacts
  <1>2. a \in Slices /\ blk[a].key = k
    BY <1>1 DEF Owned, UsedIn, Slices, FreeBlocks
  <1>3. /\ blk[a].off = 0 => blk[a].len = Size(k, put[k])
        /\ blk[a].off + blk[a].size > Pass(k) => blk[a].val = put[k]
        /\ blk[a].link = Null => blk[a].off + blk[a].size = Size(k, put[k])
    BY <1>1, ChainFacts
  <1> QED
    BY <1>1, <1>2, <1>3 DEF Piece

\* Readers of an invariant state get what was put last.
LEMMA FindHolds == IInv => FindsLastPut
  <1> SUFFICES ASSUME IInv PROVE FindsLastPut
    OBVIOUS
  <1> DEFINE t == Table
  <1>1. t = Table /\ t.index = index
    BY TableFacts
  <1>2. /\ Space(t) /\ put \in [Key -> Val \cup {NoVal}] /\ job \in Jobs(t.max)
        /\ job.do \in {"idle", "read"} => \A k \in Key : Whole(t, k, put[k])
        /\ JobOK(t, put, job)
    BY DEF IInv, Good, Records
  <1> HIDE DEF t
  <1>3. ASSUME job = Idle, NEW k \in Key
        PROVE  IF put[k] = NoVal THEN index[k] = Null ELSE Piece(k, index[k], 0)
    <2>1. Whole(t, k, put[k])
      BY <1>2, <1>3 DEF Idle
    <2>2. CASE put[k] = NoVal
      BY <2>1, <2>2, <1>1 DEF Whole
    <2>3. CASE put[k] # NoVal
      <3>1. put[k] \in Val
        BY <2>3, <1>2
      <3>2. PICK e \in Owned(t, k) : Chain(t, k, put[k], Size(k, put[k]), e)
        BY <2>1, <3>1, NoValAssumption DEF Whole, Complete
      <3>3. t.index[k] \in Owned(t, k) /\ t.blk[t.index[k]].off = 0
        BY <3>2 DEF Chain, Live
      <3> DEFINE a   == t.index[k]
                 off == t.blk[a].off
      <3>4. a \in Owned(t, k) /\ off = t.blk[a].off
        BY <3>3
      <3> HIDE DEF a, off
      <3>5. Piece(k, a, off)
        BY <3>1, <3>4, <2>1, <1>1, <1>2, PieceHolds
      <3> QED
        BY <3>3, <3>5, <2>3, <1>1 DEF a, off
    <2> QED
      BY <2>2, <2>3
  <1>4. ASSUME job.do = "read" PROVE Piece(job.key, job.at, job.left)
    <2>1. /\ job.key \in Key /\ put[job.key] \in Val /\ job.at \in Owned(t, job.key)
          /\ job.left = t.blk[job.at].off /\ Whole(t, job.key, put[job.key])
      BY <1>2, <1>4, JobFacts DEF JobOK
    <2> QED
      BY <2>1, <1>1, <1>2, PieceHolds
  <1> QED
    BY <1>3, <1>4 DEF FindsLastPut

\* Whatever is put, replaced and deleted, all bytes of the data pages are in use, in
\* the fragments or in the free pages: alloc_data_head, adjust_data_head and free_data
\* neither lose space nor give a block to two records (db.h:1263-1369, 2492-2519).
THEOREM SpaceIsAlwaysKept == Spec => []SpaceIsKept
  BY Invariance, SpaceHolds, PTL

\* Whatever is put, replaced and deleted, between two operations the data pages alone
\* say which records there are: dbtool's rebuild finds those of the index and no
\* others (db.h:2386-2420).
THEOREM RebuildAlwaysFindsAll == Spec => []RebuildFindsAll
  BY Invariance, RebuildHolds, PTL

\* Whatever is put, replaced and deleted, a reader that follows a record's slices
\* gets the value put last for its key, from the first byte to the last
\* (put_replace, create_node and extract_val, db.h:1371-1505, 2588-2625).
THEOREM AlwaysFindsLastPut == Spec => []FindsLastPut
  BY Invariance, FindHolds, PTL
===============================================================================
