------------------------------- MODULE Fragments ------------------------------
(***************************************************************************)
(* The records of a table (class PageCache, znet/common/db.h).  The space  *)
(* of a data page is divided into blocks, each with a header (data_hdr)    *)
(* that knows where the next one starts.  A record is its two lengths, its *)
(* key and its value, cut into slices that lie in a chain of blocks; a     *)
(* block of size 0 is free and is in one of the lists of fragments that    *)
(* start in the magic page, one for each FRAGMIN bytes of capacity.        *)
(*                                                                         *)
(* Abstractions.  Instead of its bytes a slice keeps the key and the value *)
(* that they were copied from and the place in the record where they       *)
(* start.  The index is a function from keys to blocks (BTree), and its    *)
(* pages, which come from the same free list, are left out.  Dirty flags   *)
(* and counters are left out.  The header of a free block (frag_hdr) has   *)
(* its own field for the block before it in the list; in the code it lies  *)
(* over two fields that are written when the block is used again.  A step   *)
(* of the model is one iteration of a loop along a chain: one slice that   *)
(* is allocated, freed, written or read.  No other operation runs between  *)
(* the steps of one: its storage is locked.                                *)
(***************************************************************************)
EXTENDS Integers, Sequences, FiniteSetsExt, Functions

CONSTANTS Key, Val, NoVal,
          KeyLen, ValLen,   \* the lengths of keys and values
          PAGEUSED          \* the bytes of a page that are used

FRAGMIN      == 8
HDR          == 12          \* sizeof(data_hdr); a frag_hdr is longer:
FRAGHDR      == 16
LENGTHS      == 8           \* the two lengths before a record's key
PAGEMAXSPARE == PAGEUSED - HDR
PAGEMINSPARE == FRAGMIN + HDR

ASSUME LenAssumption  == KeyLen \in [Key -> Nat] /\ ValLen \in [Val -> Nat]
ASSUME PageAssumption == PAGEUSED \in Nat /\ PAGEUSED % 16 = 8 /\ PAGEMAXSPARE > LENGTHS
ASSUME NoValAssumption == NoVal \notin Val

VARIABLES blk,     \* the blocks of the data pages, by their addresses <<page, pos>>
          frag,    \* the first block of each list of fragments
          free,    \* the list from free_page_list
          max,     \* max_page_idx
          index,   \* where the index finds a key's record
          job,     \* the operation that is under way, and where it is
          put      \* not in the code: what was put last for each key

vars == <<blk, frag, free, max, index, job, put>>

Null == <<0, 0>>    \* page 0 is the magic page

Classes == 0..(PAGEUSED \div FRAGMIN - 1)

\* The operations work on this record; at is the block that was allocated last.
Table == [blk |-> blk, frag |-> frag, free |-> free, max |-> max, index |-> index, at |-> Null]

Pass(k)    == KeyLen[k] + LENGTHS
Size(k, v) == Pass(k) + ValLen[v]

Capacity(t, a) == t.blk[a].next - a[2] - HDR

Class(t, a) == Capacity(t, a) \div FRAGMIN

IsFree(t, a) == a \in DOMAIN t.blk /\ t.blk[a].size = 0

\* The block after a in its page; no block of that address exists after the last.
NextHead(t, a) == <<a[1], t.blk[a].next>>

Blank(end) == [next |-> end, size |-> 0, first |-> FALSE, link |-> Null, prev |-> Null,
               len |-> 0, key |-> NoVal, val |-> NoVal, off |-> 0]

Add(t, a, r) == [t EXCEPT !.blk = [x \in DOMAIN @ \cup {a} |-> IF x = a THEN r ELSE @[x]]]
Erase(t, a)  == [t EXCEPT !.blk = Restrict(@, DOMAIN @ \ {a})]

\* Block a takes the space of the next one, b; a new free block b cuts a in two.
Join(t, a, b) == [Erase(t, b) EXCEPT !.blk[a].next = t.blk[b].next]
Cut(t, a, b)  == Add([t EXCEPT !.blk[a].next = b[2]], b, Blank(t.blk[a].next))

-------------------------------------------------------------------------------
(* Lists of fragments *)

ClrFragment(t, a) ==
    LET h == t.blk[a]
        s == IF h.prev # Null THEN [t EXCEPT !.blk[h.prev].link = h.link]
             ELSE [t EXCEPT !.frag[Class(t, a)] = h.link]
    IN  IF h.link # Null THEN [s EXCEPT !.blk[h.link].prev = h.prev] ELSE s

\* A page that is free as a whole goes back to the free pages.
SetFragment(t, a) ==
    LET head == t.frag[Class(t, a)]
        s    == IF head # Null THEN [t EXCEPT !.blk[head].prev = a] ELSE t
    IN  IF Capacity(t, a) = PAGEMAXSPARE
        THEN [Erase(t, a) EXCEPT !.free = <<a[1]>> \o @]
        ELSE [s EXCEPT !.blk[a] = [@ EXCEPT !.link = head, !.prev = Null], !.frag[Class(t, a)] = a]

\* The classes whose blocks all have room for size bytes.
Roomy(size) == {i \in Classes : i >= (size + FRAGMIN - 1) \div FRAGMIN}

\* Only its size and its link distinguish the block from a free one until the
\* caller has filled it.
__AllocDataHead(t, size) ==
    LET found == IF size < PAGEMAXSPARE THEN {i \in Roomy(size) : t.frag[i] # Null} ELSE {}
        a     == t.frag[Min(found)]
        succ  == t.blk[a].link
        s     == [t EXCEPT !.frag[Min(found)] = succ, !.at = a]
        new   == <<IF t.free = <<>> THEN t.max + 1 ELSE Head(t.free), 0>>
    IN  IF found # {}
        THEN IF succ # Null THEN [s EXCEPT !.blk[succ].prev = Null] ELSE s
        ELSE [Add(t, new, Blank(PAGEUSED)) EXCEPT
                   !.at = new, !.max = IF t.free = <<>> THEN @ + 1 ELSE @,
                   !.free = IF @ = <<>> THEN @ ELSE Tail(@)]

\* Where the next block starts if block a ends after size bytes.
End(a, size) == <<a[1], ((a[2] + HDR + size + 15) \div 16) * 16>>

MutAdjustDataHead(t, a, size) ==
    IF Capacity(t, a) >= PAGEMINSPARE + size + HDR
    THEN SetFragment(Cut(t, a, End(a, size)), End(a, size))
    ELSE t

\* The space after the first size bytes of block a becomes a fragment if it is
\* worth it, together with a free block that follows.
AdjustDataHead(t, a, size) ==
    LET succ == NextHead(t, a)
        s    == IF IsFree(t, succ) THEN Join(ClrFragment(t, succ), a, succ) ELSE t
    IN  IF Capacity(t, a) >= PAGEMINSPARE + size + HDR
        THEN SetFragment(Cut(s, a, End(a, size)), End(a, size))
        ELSE t

AllocDataHead(t, size, first) ==
    LET s == __AllocDataHead(t, size)
        n == IF size < PAGEMAXSPARE THEN size ELSE PAGEMAXSPARE
        f == [s EXCEPT !.blk[s.at] = [@ EXCEPT !.size = n, !.first = first]]
    IN  IF size < PAGEMAXSPARE THEN AdjustDataHead(f, s.at, size) ELSE f

\* Block a becomes free, joined with the free blocks on both sides.
FreeBlock(t, a) ==
    LET s    == [t EXCEPT !.blk[a] = Blank(@.next)]
        pred == {b \in DOMAIN t.blk : NextHead(t, b) = a /\ IsFree(t, b)}
        cur  == IF pred = {} THEN a ELSE CHOOSE b \in pred : TRUE
        u    == IF pred = {} THEN s ELSE Join(ClrFragment(s, cur), cur, a)
        succ == NextHead(u, cur)
        w    == IF IsFree(u, succ) THEN Join(ClrFragment(u, succ), cur, succ) ELSE u
    IN  SetFragment(w, cur)

-------------------------------------------------------------------------------
(* Jobs: an operation goes on, with table t, from one slice to the next *)

Idle == [do |-> "idle"]

Goes(t, j) ==
    /\ blk' = t.blk
    /\ frag' = t.frag
    /\ free' = t.free
    /\ max' = t.max
    /\ index' = t.index
    /\ job' = j

\* What is copied into block a: size bytes of the record of k and v from off on.
Write(t, a, k, v, off, size) ==
    [t EXCEPT !.blk[a] = [@ EXCEPT !.size = size, !.off = off, !.key = k, !.val = v]]

MutEndRecord(t, k, rest) == Goes([t EXCEPT !.blk[t.at].link = Null], Idle)

\* t.at is the last slice of k's record; those from rest on are not needed any more.
EndRecord(t, k, rest) ==
    \/ /\ rest # Null
       /\ Goes(t, [do |-> "free", key |-> k, at |-> t.at, rest |-> rest])
    \/ /\ rest = Null
       /\ Goes([t EXCEPT !.blk[t.at].link = Null], Idle)

\* t.at is the last slice so far, and left bytes are missing.
Continue(t, k, left, rest) ==
    \/ /\ left > 0
       /\ Goes(t, [do |-> "append", key |-> k, at |-> t.at, left |-> left, rest |-> rest])
    \/ /\ left = 0
       /\ EndRecord(t, k, rest)

CreateNode(t, k, v) ==
    LET s == AllocDataHead(t, Size(k, v), TRUE)
        n == s.blk[s.at].size
    IN  Continue([Write(s, s.at, k, v, 0, n) EXCEPT !.blk[s.at].len = Size(k, v), !.index[k] = s.at],
                 k, Size(k, v) - n, Null)

\* The last left bytes of the record go to new slices after a.
AppendSlice(t, k, v, a, left, rest) ==
    LET s == AllocDataHead(t, left, FALSE)
        n == s.blk[s.at].size
    IN  Continue([Write(s, s.at, k, v, Size(k, v) - left, n) EXCEPT !.blk[a].link = s.at],
                 k, left - n, rest)

\* Block b is freed, and after it the blocks it is linked to.  Then the record
\* of k ends with a; or, if nothing is left of it, it is written anew or deleted.
FreeData(t, k, v, a, b) ==
    LET s == FreeBlock(t, b)
        n == t.blk[b].link
    IN  \/ n # Null /\ Goes(s, [do |-> "free", key |-> k, at |-> a, rest |-> n])
        \/ n = Null /\ a # Null /\ Goes([s EXCEPT !.blk[a].link = Null], Idle)
        \/ n = Null /\ a = Null /\ v # NoVal /\ CreateNode(s, k, v)
        \/ n = Null /\ a = Null /\ v = NoVal /\ Goes([s EXCEPT !.index[k] = Null], Idle)

\* The value is written behind the end of the key in slice a, of which the key
\* takes the first pass bytes.
PutValue(t, k, v, a, pass) ==
    LET room == Capacity(t, a) - pass
        off  == Pass(k) - pass
        s    == AdjustDataHead(Write(t, a, k, v, off, pass + ValLen[v]), a, pass + ValLen[v])
    IN  \/ /\ ValLen[v] <= room
           /\ EndRecord([s EXCEPT !.at = a], k, t.blk[a].link)
        \/ /\ ValLen[v] > room
           /\ Goes(Write(t, a, k, v, off, pass + room),
                   [do |-> "write", key |-> k, at |-> a, left |-> ValLen[v] - room])

\* The slice in which the first pass bytes end, from a on, is the one to write to.
SkipKey(t, k, v, a, pass) ==
    LET r == t.blk[a]
    IN  \/ /\ pass > r.size
           /\ Goes(t, [do |-> "skip", key |-> k, at |-> r.link, left |-> pass - r.size])
        \/ /\ pass <= r.size
           /\ PutValue(t, k, v, a, pass)

\* The last left bytes go to the slices after a: those of full size, one more
\* that has room for the rest, or else new ones.
WriteOn(t, k, v, a, left) ==
    LET n    == t.blk[a].link
        off  == Size(k, v) - left
        size == t.blk[n].size
        s    == AdjustDataHead(Write(t, n, k, v, off, left), n, left)
        full == n # Null /\ size < left /\ size = PAGEMAXSPARE
        fits == n # Null /\ Capacity(t, n) >= left
    IN  \/ /\ full
           /\ Goes(Write(t, n, k, v, off, size),
                   [do |-> "write", key |-> k, at |-> n, left |-> left - size])
        \/ /\ ~full /\ fits
           /\ EndRecord([s EXCEPT !.at = n], k, t.blk[n].link)
        \/ /\ ~full /\ ~fits
           /\ AppendSlice(t, k, v, a, left, n)

\* A record that does not fit in its first block is written anew.
Anew(t, a, size) ==
    \/ size <= PAGEMAXSPARE /\ Capacity(t, a) < size
    \/ size > PAGEMAXSPARE /\ Capacity(t, a) < PAGEMAXSPARE

MutPutReplace(t, k, v) ==
    LET a == t.index[k]
    IN  \/ Anew(t, a, Size(k, v)) /\ FreeData(t, k, v, Null, a)
        \/ ~Anew(t, a, Size(k, v)) /\ SkipKey(t, k, v, a, Pass(k))

PutReplace(t, k, v) ==
    LET a == t.index[k]
    IN  \/ /\ Anew(t, a, Size(k, v))
           /\ FreeData(t, k, v, Null, a)
        \/ /\ ~Anew(t, a, Size(k, v))
           /\ SkipKey([t EXCEPT !.blk[a].len = Size(k, v)], k, v, a, Pass(k))

\* What extract_val does with slice a, after done bytes of the record: it goes on
\* until it has passed the key and no slice follows.
Extract(k, a, done) ==
    LET r == blk[a]
    IN  \/ /\ Pass(k) > done + r.size \/ r.link # Null
           /\ job' = [do |-> "read", key |-> k, at |-> r.link, left |-> done + r.size]
        \/ /\ Pass(k) <= done + r.size /\ r.link = Null
           /\ job' = Idle

-------------------------------------------------------------------------------
Init ==
    /\ blk = <<>>
    /\ frag = [i \in Classes |-> Null]
    /\ free = <<>>
    /\ max = 0
    /\ index = [k \in Key |-> Null]
    /\ job = Idle
    /\ put = [k \in Key |-> NoVal]

Insert(k, v) ==
    /\ job = Idle /\ index[k] = Null
    /\ put' = [put EXCEPT ![k] = v]
    /\ CreateNode(Table, k, v)

Replace(k, v) ==
    /\ job = Idle /\ index[k] # Null
    /\ put' = [put EXCEPT ![k] = v]
    /\ PutReplace(Table, k, v)

Del(k) ==
    /\ job = Idle /\ index[k] # Null
    /\ put' = [put EXCEPT ![k] = NoVal]
    /\ FreeData(Table, k, NoVal, Null, index[k])

Find(k) ==
    /\ job = Idle /\ index[k] # Null
    /\ Extract(k, index[k], 0)
    /\ UNCHANGED <<blk, frag, free, max, index, put>>

AppendNext ==
    /\ job.do = "append"
    /\ AppendSlice(Table, job.key, put[job.key], job.at, job.left, job.rest)
    /\ UNCHANGED put

Free ==
    /\ job.do = "free"
    /\ FreeData(Table, job.key, put[job.key], job.at, job.rest)
    /\ UNCHANGED put

Skip ==
    /\ job.do = "skip"
    /\ SkipKey(Table, job.key, put[job.key], job.at, job.left)
    /\ UNCHANGED put

WriteNext ==
    /\ job.do = "write"
    /\ WriteOn(Table, job.key, put[job.key], job.at, job.left)
    /\ UNCHANGED put

Read ==
    /\ job.do = "read"
    /\ Extract(job.key, job.at, job.left)
    /\ UNCHANGED <<blk, frag, free, max, index, put>>

Next ==
    \/ \E k \in Key : Del(k) \/ Find(k) \/ \E v \in Val : Insert(k, v) \/ Replace(k, v)
    \/ AppendNext \/ Free \/ Skip \/ WriteNext \/ Read

Spec == Init /\ [][Next]_vars

-------------------------------------------------------------------------------
(* Properties *)

\* The free blocks, the others, and the pages that are divided into blocks.
FreeBlocks == {a \in DOMAIN blk : blk[a].size = 0}
Slices     == DOMAIN blk \ FreeBlocks
InUse      == (1..max) \ {free[i] : i \in DOMAIN free}

\* A block has an address in a page that was allocated, and ends in its page; what
\* is copied into it is no longer than what a whole page can hold.
TypeOK ==
    LET Address == (0..max) \X (0..PAGEUSED)
        Block   == [next : 1..PAGEUSED, size : 0..PAGEMAXSPARE, first : BOOLEAN,
                    link : Address, prev : Address, len : Nat,
                    key : Key \cup {NoVal}, val : Val \cup {NoVal}, off : Nat]
    IN  /\ max \in Nat
        /\ free \in Seq(1..max)
        /\ DOMAIN blk \subseteq Address /\ blk \in [DOMAIN blk -> Block]
        /\ frag \in [Classes -> Address]
        /\ index \in [Key -> Address]
        /\ put \in [Key -> Val \cup {NoVal}]
        /\ job \in [do : {"idle"}]
              \cup [do : {"append"}, key : Key, at : Address, left : Nat, rest : Address]
              \cup [do : {"free"}, key : Key, at : Address, rest : Address]
              \cup [do : {"skip", "write", "read"}, key : Key, at : Address, left : Nat]

\* Every data page is divided into blocks, one after the other up to its end;
\* no record is longer than its block, and every block can become a fragment.
PagesAreTiled ==
    /\ {a[1] : a \in DOMAIN blk} = InUse
    /\ \A i, j \in DOMAIN free : free[i] = free[j] => i = j
    /\ \A a \in DOMAIN blk :
          /\ a[2] % 16 = 0
          /\ blk[a].next - a[2] >= FRAGHDR
          /\ blk[a].size <= Capacity(Table, a)
          /\ blk[a].next = PAGEUSED \/ NextHead(Table, a) \in DOMAIN blk
          /\ a[2] = 0 \/ \E b \in DOMAIN blk : NextHead(Table, b) = a
          /\ \A b \in DOMAIN blk : b[1] = a[1] /\ b[2] > a[2] => b[2] >= blk[a].next

\* The free blocks are in the lists, each in the one of its capacity, linked in
\* both directions; no list is a ring, so that each starts in the magic page.
FreeIsListed ==
    /\ \A i \in Classes : frag[i] # Null =>
          frag[i] \in FreeBlocks /\ Class(Table, frag[i]) = i /\ blk[frag[i]].prev = Null
    /\ \A a \in FreeBlocks :
          LET r == blk[a]
          IN  /\ r.prev = Null => frag[Class(Table, a)] = a
              /\ r.prev # Null => r.prev \in FreeBlocks /\ blk[r.prev].link = a
              /\ r.link # Null => /\ r.link \in FreeBlocks /\ blk[r.link].prev = a
                                  /\ Class(Table, r.link) = Class(Table, a)
    /\ \A S \in SUBSET FreeBlocks : S # {} => \E a \in S : blk[a].prev \notin S

\* No free block lies beside another one, and no page is free without being
\* among the free pages.
FreeIsJoined == \A a \in FreeBlocks : ~IsFree(Table, NextHead(Table, a)) /\ Capacity(Table, a) < PAGEMAXSPARE

\* All space is in use, or in the fragments or the free pages, ready to be used.
SpaceIsKept == TypeOK /\ PagesAreTiled /\ FreeIsListed /\ FreeIsJoined

\* What dbtool's PageBrowser takes for the first slice of a record.
Browse == {a \in Slices : blk[a].first}

\* Between two operations every slice belongs to one record: it is the first, or
\* it is linked to from one slice before it in the same record; so that a rebuild
\* from the data pages alone finds the records of the table and no others.
RebuildFindsAll == job = Idle =>
    /\ Browse = {index[k] : k \in Key} \ {Null}
    /\ \A k \in Key : index[k] # Null => blk[index[k]].key = k
    /\ \A a \in Slices \ Browse : \E b \in Slices :
          /\ blk[b].link = a /\ blk[b].key = blk[a].key /\ blk[b].off < blk[a].off
          /\ \A c \in Slices : blk[c].link = a => c = b

\* Slice a holds the bytes of the last put for k from off on, the last of them if
\* no slice follows.
Piece(k, a, off) ==
    /\ put[k] \in Val /\ a \in Slices
    /\ LET r == blk[a]
       IN  /\ r.key = k /\ r.off = off
           /\ off = 0 => r.len = Size(k, put[k])
           /\ off + r.size > Pass(k) => r.val = put[k]
           /\ r.link = Null => off + r.size = Size(k, put[k])

\* What a reader is about to copy is the part of what was put last for its key
\* that comes next, whatever was put, replaced and deleted in the pages that the
\* record shares with others; a key is found if it was put and not deleted.
FindsLastPut ==
    /\ job = Idle => \A k \in Key : IF put[k] = NoVal THEN index[k] = Null ELSE Piece(k, index[k], 0)
    /\ job.do = "read" => Piece(job.key, job.at, job.left)
===============================================================================
