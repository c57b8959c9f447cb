---------------------------- MODULE ElfExecProofs ----------------------------
(***************************************************************************)
(* Proofs about module ElfExec for every size of pages and tables, every   *)
(* file, every table of segments that 32-bit fields can hold, and every    *)
(* call refused or not: a launch that fails gives back what it took and    *)
(* fails once, and a program that starts finds its image in place, but for *)
(* what follows the stored part of a segment whose size wraps.             *)
(***************************************************************************)
EXTENDS ElfExec, FiniteSetTheorems, SequenceTheorems, TLAPS

SegmentType == [load : BOOLEAN, off : 0..(Word - 1), va : 0..(Word - 1),
                stored : 0..(Word - 1), mem : 0..(Word - 1), flags : Flags]

\* Between which steps each thing is held.
BeforeLoad == {"launch", "mint", "init_pd", "init_cspace", "load_zone", "load_pagedir",
               "load_spare"}
Loading == {"header", "segment", "copy", "bss", "unwind", "failed"}
AfterLoad == {"ipc", "cspace", "exec_init", "tcb", "start", "running"}
Ending == {"destroy", "undo_launch", "gone"}

HoldsContext == pc \notin {"launch", "gone"}
HoldsPd == pc \notin {"launch", "mint", "init_pd", "undo_launch", "gone"}
HoldsCspace == HoldsPd /\ pc # "init_cspace"
HoldsZone == pc \in Loading \cup {"load_pagedir", "load_spare"}

Blocks == {<<"context">>, <<"pagedir">>, <<"priv">>} \cup ({"pt"} \X Tables)
Objects == Singles \cup ({"pt"} \X Tables) \cup ({"page"} \X Pages)

Typed ==
    /\ head \in Headers
    /\ segs \in Seq(Segments)
    /\ pc \in BeforeLoad \cup Loading \cup AfterLoad \cup Ending
    /\ seg \in Nat \ {0} /\ done \in Nat
    /\ errx \in BOOLEAN /\ zone \in BOOLEAN
    /\ slots \subseteq {"minted", "spare"}
    /\ thread \in {"none", "stopped", "running"}

(* What is held at each step, by name and not by history. *)
BlocksHeld ==
    /\ blocks \subseteq Blocks
    /\ <<"context">> \in blocks <=> HoldsContext
    /\ pc \in Loading \cup AfterLoad \cup {"load_spare"} => HasPd
    /\ HasPd => pc \in Loading \cup AfterLoad \cup {"load_spare", "destroy"}
    /\ pc \in {"tcb", "start", "running"} => HasThread
    /\ HasThread => pc \in {"tcb", "start", "running", "destroy"}
    /\ \A t \in Tables : <<"pt", t>> \in blocks <=> t \in pts

ObjectsHeld ==
    /\ objs \subseteq Objects
    /\ <<"pd">> \in objs <=> HoldsPd
    /\ <<"cspace">> \in objs <=> HoldsCspace
    /\ <<"tcb">> \in objs <=> HasThread
    /\ \A t \in Tables : <<"pt", t>> \in objs <=> t \in pts
    /\ \A p \in Pages : <<"page", p>> \in objs <=> p \in DOMAIN pages

OthersHeld ==
    /\ zone <=> HoldsZone
    /\ "spare" \in slots <=> pc \in Loading
    /\ "minted" \in slots => pc \notin {"launch", "running", "gone"}
    /\ pc \notin Loading => window = NoPage /\ alt = NoPage

(* Pages exist between load and unload, in tables that exist. *)
PagesHeld ==
    /\ pts \subseteq Tables
    /\ DOMAIN pages \subseteq Pages /\ DOMAIN mem = DOMAIN pages
    /\ \A p \in DOMAIN pages : TableOf(p) \in pts
    /\ pts # {} => HasPd /\ pc # "load_spare"

(* A thread has a record, and its record a directory with an IPC page. *)
ThreadHeld ==
    /\ pc = "running" <=> thread = "running" /\ pc # "destroy"
    /\ pc = "start" => thread = "stopped"
    /\ pc = "destroy" => (thread = "none" <=> ~HasThread)
    /\ pc \notin {"start", "running", "destroy"} => thread = "none"
    /\ HasThread \/ pc \in {"cspace", "exec_init"} => HasPd /\ IpcPage \in DOMAIN pages

(* An error is pending only on the way out. *)
ErrorsApart ==
    /\ pc \notin Ending \cup {"unwind"} => ~errx
    /\ OneError

Accounts == /\ BlocksHeld /\ ObjectsHeld /\ OthersHeld
            /\ PagesHeld /\ ThreadHeld /\ ErrorsApart

-----------------------------------------------------------------------------
(* Where the loader stands, as long as no error is pending. *)
Page(a) == a \div PageSize
Base(p) == p * PageSize

InSegment(i) == i \in 1..Len(segs) /\ segs[i].load /\ ~Malformed(segs[i])

Position ==
    /\ seg <= Len(segs) + 1
    /\ pc \in BeforeLoad \cup {"header"} => DOMAIN pages = {} /\ seg = 1
    /\ pc \in {"segment", "copy", "bss"} => HeaderAccepted(head)
    /\ pc \in {"copy", "bss"} => InSegment(seg)
    /\ pc = "copy" => /\ done <= segs[seg].stored
                      /\ done = 0 \/ segs[seg].va + done <= Base(PageCount)
    /\ pc = "bss" => \E d \in Nat :
                        done = Base(d) /\ (d = 0 \/ Page(segs[seg].va) + d <= PageCount)
    /\ pc \in AfterLoad \cup {"unwind"} => seg = Len(segs) + 1
    /\ \A i \in 1..Len(segs) : i < seg /\ segs[i].load => ~Malformed(segs[i])

(* Segment i has put a unit of the file at address a. *)
Copied(i, a) ==
    /\ i \in 1..Len(segs) /\ segs[i].load
    /\ segs[i].va <= a /\ a < segs[i].va + segs[i].stored
    /\ \/ i < seg
       \/ i = seg /\ pc = "bss"
       \/ i = seg /\ pc = "copy" /\ a < segs[i].va + done

(* Segment i has a page at p with its rights. *)
Mapped(i, p) == p \in DOMAIN pages /\ pages[p] = segs[i].flags

Unit(a) == mem[Page(a)][a % PageSize]

(* u is what may be at address a. *)
UnitIs(a, u) ==
    \/ u = Zero /\ \A i \in 1..Len(segs) : ~Copied(i, a)
    \/ \E i \in 1..Len(segs) : Copied(i, a) /\ u = segs[i].off + a - segs[i].va

(* What is in the pages: zero, or what a segment put there last. *)
Contents == \A a \in Nat : Page(a) \in DOMAIN pages => UnitIs(a, Unit(a))

CopiedMapped ==
    \A i \in 1..Len(segs), a \in Nat : Copied(i, a) => Mapped(i, Page(a))

LoadedMapped ==
    \A i \in 1..Len(segs), a \in Nat :
        i < seg /\ Covers(segs[i], a) /\ Whole(segs[i]) => Mapped(i, Page(a))

BssMapped ==
    pc = "bss" => \A p \in Nat : /\ Page(segs[seg].va) <= p
                                 /\ Base(p) < Base(Page(segs[seg].va)) + done
                                 => Mapped(seg, p)

(* No page is there for nothing. *)
PageWanted(p) == \E i \in 1..Len(segs) : Reaches(segs[i], p)

PagesWanted == \A p \in DOMAIN pages : p # IpcPage => PageWanted(p)

Pictures == Contents /\ CopiedMapped /\ LoadedMapped /\ PagesWanted

InProgress == ~errx /\ pc \notin Ending \cup {"failed"}

Loaded == InProgress => Position /\ Pictures /\ BssMapped

(* The inductive invariant. *)
IInv == Typed /\ Accounts /\ Loaded
-----------------------------------------------------------------------------
(* Addresses and pages. *)

\* An address is the start of its page and an offset.
LEMMA Paging ==
  ASSUME NEW a \in Nat
  PROVE  /\ Page(a) \in Nat /\ a % PageSize \in 0..(PageSize - 1)
         /\ Base(Page(a)) \in Nat
         /\ a = Base(Page(a)) + (a % PageSize)
<1>1. Page(a) \in Nat /\ a % PageSize \in 0..(PageSize - 1)
  BY PagesAssumption DEF Page
<1>2. a = PageSize * (a \div PageSize) + (a % PageSize)
  BY PagesAssumption
<1>3. PageSize * Page(a) = Base(Page(a)) /\ Base(Page(a)) \in Nat
  BY <1>1, PagesAssumption DEF Base
<1> QED BY <1>1, <1>2, <1>3 DEF Page

LEMMA BaseOrder ==
  ASSUME NEW p \in Nat, NEW q \in Nat
  PROVE  /\ Base(p) \in Nat
         /\ p < q => Base(p) + PageSize <= Base(q)
         /\ p <= q => Base(p) <= Base(q)
         /\ Base(p) + Base(q) = Base(p + q)
         /\ Base(p + 1) = Base(p) + PageSize
<1>1. Base(p) \in Nat /\ Base(q) \in Nat
  BY PagesAssumption DEF Base
<1>2. Base(p) + Base(q) = Base(p + q)
  BY PagesAssumption DEF Base
<1>3. Base(p + 1) = Base(p) + PageSize
  BY PagesAssumption DEF Base
<1>4. ASSUME p < q PROVE Base(p) + PageSize <= Base(q)
  <2>1. PICK d \in Nat : q = p + 1 + d
    <3>1. q - p - 1 \in Nat /\ q = p + 1 + (q - p - 1)
      BY <1>4
    <3> QED BY <3>1
  <2>2. Base(q) = Base(p) + PageSize + Base(d)
    BY <2>1, PagesAssumption DEF Base
  <2>3. Base(d) \in Nat
    BY PagesAssumption DEF Base
  <2> QED BY <1>1, <2>2, <2>3, PagesAssumption
<1> QED BY <1>1, <1>2, <1>3, <1>4, PagesAssumption

\* An address between the start of a page and its end lies in that page.
LEMMA PageOf ==
  ASSUME NEW a \in Nat, NEW p \in Nat, Base(p) <= a, a < Base(p) + PageSize
  PROVE  Page(a) = p
<1>0. PICK o \in 0..(PageSize - 1) : a = Base(Page(a)) + o
  BY Paging
<1>1. PICK q \in Nat : q = Page(a) /\ Base(q) \in Nat /\ a = Base(q) + o
  BY <1>0, Paging
<1>2. q < p => Base(q) + PageSize <= Base(p)
  BY BaseOrder
<1>3. p < q => Base(p) + PageSize <= Base(q)
  BY BaseOrder
<1>4. Base(p) \in Nat
  BY BaseOrder
<1> QED BY <1>0, <1>1, <1>2, <1>3, <1>4, PagesAssumption

\* An address of the program lies in one of its pages.
LEMMA PageInRange ==
  ASSUME NEW a \in Nat, a < PageCount * PageSize
  PROVE  Page(a) \in Pages
<1>0. PICK o \in 0..(PageSize - 1) : a = Base(Page(a)) + o
  BY Paging
<1>1. PICK q \in Nat : q = Page(a) /\ Base(q) \in Nat /\ a = Base(q) + o
  BY <1>0, Paging
<1>2. PageCount <= q => Base(PageCount) <= Base(q)
  BY <1>1, BaseOrder, PagesAssumption
<1>3. Base(PageCount) \in Nat /\ a < Base(PageCount)
  BY PagesAssumption DEF Base
<1> QED BY <1>0, <1>1, <1>2, <1>3, PagesAssumption DEF Pages

\* A sum that exceeds the word by less than a word wraps once.
LEMMA WrapsOnce ==
  ASSUME NEW x \in Nat, x < 2 * Word
  PROVE  x % Word = IF x < Word THEN x ELSE x - Word
<1>1. Word \in Nat /\ 0 < Word
  BY FileAssumption
<1>2. PICK q \in Nat, r \in 0..(Word - 1) : r = x % Word /\ x = Word * q + r
  <2>1. /\ x \div Word \in Nat /\ x % Word \in 0..(Word - 1)
        /\ x = Word * (x \div Word) + (x % Word)
    BY <1>1
  <2> QED BY <2>1
<1>3. q < 2
  <2>1. ASSUME q >= 2 PROVE FALSE
    <3>1. Word * q >= Word * 2
      BY <1>1, <2>1
    <3> QED BY <1>1, <1>2, <3>1
  <2> QED BY <2>1
<1>4. q = 0 \/ q = 1
  BY <1>3
<1> QED BY <1>1, <1>2, <1>4

\* A segment of the image has its type.
LEMMA SegmentFacts ==
  ASSUME Typed, NEW i \in 1..Len(segs)
  PROVE  /\ segs[i].load \in BOOLEAN /\ segs[i].off \in Nat /\ segs[i].va \in Nat
         /\ segs[i].stored \in Nat /\ segs[i].mem \in Nat
         /\ segs[i].flags \in Flags
         /\ segs[i].va < Word /\ segs[i].mem < Word
<1>1. segs[i] \in Segments
  BY DEF Typed
<1>2. segs[i] \in SegmentType
  BY <1>1, SegmentsAssumption DEF SegmentType
<1> QED BY <1>2, FileAssumption DEF SegmentType

\* The size to map is at most the size from the start of the first page, and
\* that size where it does not wrap.
LEMMA SizeFacts ==
  ASSUME Typed, NEW i \in 1..Len(segs)
  PROVE  /\ SizeToMap(segs[i]) \in Nat /\ Correction(segs[i]) \in 0..(PageSize - 1)
         /\ SizeToMap(segs[i]) <= segs[i].mem + Correction(segs[i])
         /\ Whole(segs[i]) => SizeToMap(segs[i]) = segs[i].mem + Correction(segs[i])
<1>1. PICK va \in Nat : va = segs[i].va /\ va < Word
  BY SegmentFacts
<1>2. PICK m \in Nat : m = segs[i].mem /\ m < Word
  BY SegmentFacts
<1>3. PICK o \in 0..(PageSize - 1) : o = va % PageSize /\ o <= va
  <2>1. PICK o \in 0..(PageSize - 1) : o = va % PageSize /\ va = Base(Page(va)) + o
    BY Paging
  <2>2. PICK b \in Nat : b = Base(Page(va))
    BY Paging
  <2>3. o <= va
    BY <2>1, <2>2
  <2> QED BY <2>1, <2>3
<1>4. o = Correction(segs[i])
  BY <1>1, <1>3 DEF Correction
<1>5. PICK x \in Nat : x = m + o /\ x < 2 * Word
  <2>1. m + o \in Nat /\ m + o < 2 * Word
    BY <1>1, <1>2, <1>3, FileAssumption
  <2> QED BY <2>1
<1>6. x % Word = IF x < Word THEN x ELSE x - Word
  BY <1>5, WrapsOnce
<1>7. SizeToMap(segs[i]) = x % Word /\ (Whole(segs[i]) <=> x < Word)
  BY <1>2, <1>4, <1>5 DEF SizeToMap, Whole
<1>8. SizeToMap(segs[i]) \in Nat /\ SizeToMap(segs[i]) <= x
  BY <1>5, <1>6, <1>7, FileAssumption
<1> QED BY <1>2, <1>4, <1>5, <1>6, <1>7, <1>8
-----------------------------------------------------------------------------
(* Making a page, and its table, when it is not there. *)

\* What a call of elfloader_get_page for page p may change, whether it is
\* refused or not.
PageMoves(p) ==
  /\ p \in Pages
  /\ pts' = pts \/ pts' = pts \cup {TableOf(p)}
  /\ blocks' = blocks \cup {<<"pt", t>> : t \in pts' \ pts}
  /\ objs' = objs \cup {<<"pt", t>> : t \in pts' \ pts}
                  \cup {<<"page", q>> : q \in DOMAIN pages' \ DOMAIN pages}
  /\ \/ DOMAIN pages' = DOMAIN pages
     \/ DOMAIN pages' = DOMAIN pages \cup {p} /\ TableOf(p) \in pts'
  /\ DOMAIN mem' = DOMAIN pages'

LEMMA RefusedMoves ==
  ASSUME IInv, NEW p \in Pages, NEW flags, NEW exclusive,
         PageRefused(p, flags, exclusive), UNCHANGED <<pages, mem>>
  PROVE  PageMoves(p)
<1>1. DOMAIN mem' = DOMAIN pages' /\ DOMAIN pages' \ DOMAIN pages = {}
  BY DEF IInv, Accounts, PagesHeld
<1>2. CASE UNCHANGED <<pts, objs, blocks>>
  BY <1>1, <1>2 DEF PageMoves
<1>3. CASE /\ get_pagetable(p)
           /\ objs' = objs \cup TableBlock(p)
           /\ blocks' = blocks \cup TableBlock(p)
  BY <1>1, <1>3 DEF PageMoves, get_pagetable, TableBlock, TableMade
<1> QED BY <1>2, <1>3 DEF PageRefused

LEMMA GotMoves ==
  ASSUME IInv, NEW p \in Pages, NEW flags, NEW exclusive,
         PageGot(p, flags, exclusive), DOMAIN mem' = DOMAIN pages'
  PROVE  PageMoves(p) /\ DOMAIN pages' = DOMAIN pages \cup {p}
<1>1. TableOf(p) \in pts'
  BY DEF PageGot, get_pagetable, TableMade
<1>2. /\ pts' = pts \/ pts' = pts \cup {TableOf(p)}
      /\ TableBlock(p) = {<<"pt", t>> : t \in pts' \ pts}
  BY DEF PageGot, get_pagetable, TableBlock, TableMade
<1>3. CASE p \in DOMAIN pages
  <2>1. pages' = pages /\ <<"page", p>> \in objs
    BY <1>3 DEF PageGot, IInv, Accounts, ObjectsHeld
  <2> QED BY <1>1, <1>2, <1>3, <2>1 DEF PageMoves, PageGot
<1>4. CASE p \notin DOMAIN pages
  <2>1. DOMAIN pages' = DOMAIN pages \cup {p}
    BY <1>4 DEF PageGot
  <2> QED BY <1>1, <1>2, <1>4, <2>1 DEF PageMoves, PageGot
<1> QED BY <1>3, <1>4

\* The page and the table are in the books, and nothing else changes in them.
LEMMA MovesKeep ==
  ASSUME IInv, NEW p, PageMoves(p),
         \/ pc \in {"copy", "bss"} /\ pc' \in {"copy", "bss", "unwind"}
         \/ pc = "ipc" /\ pc' \in {"cspace", "destroy"}
  PROVE  BlocksHeld' /\ ObjectsHeld' /\ PagesHeld'
<1>1. p \in Pages /\ TableOf(p) \in Tables
  BY DEF PageMoves, Tables
<1>2. HasPd /\ ~HasThread /\ pc # "load_spare" /\ pc' # "load_spare"
  BY DEF IInv, Accounts, BlocksHeld, Loading, AfterLoad
<1>3. HasPd' /\ ~HasThread'
  BY <1>2 DEF HasPd, HasThread, PageMoves
<1>4. PagesHeld'
  BY <1>1, <1>2, <1>3 DEF IInv, Accounts, PagesHeld, PageMoves
<1>5. \A t \in Tables : t \in pts' \ pts \/ (t \in pts <=> t \in pts')
  BY DEF PageMoves
<1>6. BlocksHeld'
  <2>1. blocks' \subseteq Blocks
    BY <1>1 DEF IInv, Accounts, BlocksHeld, PageMoves, Blocks
  <2>2. <<"context">> \in blocks' <=> HoldsContext'
    BY DEF IInv, Accounts, BlocksHeld, PageMoves, HoldsContext
  <2>3. \A t \in Tables : <<"pt", t>> \in blocks' <=> t \in pts'
    BY <1>5 DEF IInv, Accounts, BlocksHeld, PageMoves
  <2> QED BY <1>3, <2>1, <2>2, <2>3 DEF BlocksHeld, Loading, AfterLoad
<1>7. ObjectsHeld'
  <2>1. objs' \subseteq Objects
    BY <1>1 DEF IInv, Accounts, ObjectsHeld, PageMoves, Objects
  <2>2. /\ <<"pd">> \in objs' <=> <<"pd">> \in objs
        /\ <<"cspace">> \in objs' <=> <<"cspace">> \in objs
        /\ <<"tcb">> \in objs' <=> <<"tcb">> \in objs
    BY DEF PageMoves
  <2>3. \A t \in Tables : <<"pt", t>> \in objs' <=> t \in pts'
    BY <1>5 DEF IInv, Accounts, ObjectsHeld, PageMoves
  <2>4. \A q \in Pages : <<"page", q>> \in objs' <=> q \in DOMAIN pages'
    BY DEF IInv, Accounts, ObjectsHeld, PageMoves
  <2> QED BY <1>2, <1>3, <2>1, <2>2, <2>3, <2>4
          DEF IInv, Accounts, ObjectsHeld, HoldsPd, HoldsCspace
<1> QED BY <1>4, <1>6, <1>7
-----------------------------------------------------------------------------
(* What the two loops of the loader do in one turn. *)

CopyAt == segs[seg].va + done
CopyOffset == CopyAt % PageSize
CopyCount == IF PageSize - CopyOffset > segs[seg].stored - done
             THEN segs[seg].stored - done ELSE PageSize - CopyOffset
BssPage == ((segs[seg].va + done - Correction(segs[seg])) % Word) \div PageSize

\* Where a turn of the copying loop is, and how much it copies.
LEMMA CopyPlace ==
  ASSUME IInv, pc = "copy"
  PROVE  /\ ~errx /\ InSegment(seg) /\ seg \in 1..Len(segs)
         /\ done \in Nat /\ done <= segs[seg].stored /\ segs[seg].stored <= segs[seg].mem
         /\ CopyAt \in Nat /\ CopyAt % Word = CopyAt
         /\ done < segs[seg].stored =>
              /\ Page(CopyAt) \in Pages \/ Beyond(segs[seg])
              /\ CopyOffset \in 0..(PageSize - 1)
              /\ CopyCount \in Nat \ {0}
              /\ CopyCount <= segs[seg].stored - done
              /\ CopyOffset + CopyCount <= PageSize
              /\ done + CopyCount = segs[seg].stored \/ CopyOffset + CopyCount = PageSize
<1>1. /\ ~errx /\ InSegment(seg) /\ done \in Nat /\ done <= segs[seg].stored
      /\ done = 0 \/ segs[seg].va + done <= Base(PageCount)
  BY DEF IInv, Typed, Accounts, ErrorsApart, Loaded, InProgress, Position, Ending
<1>2. seg \in 1..Len(segs) /\ ~Malformed(segs[seg])
  BY <1>1 DEF InSegment
<1>3. /\ segs[seg].va \in Nat /\ segs[seg].stored \in Nat /\ segs[seg].mem \in Nat
      /\ segs[seg].va < Word
  BY <1>2, SegmentFacts DEF IInv
<1>4. segs[seg].stored <= segs[seg].mem
  BY <1>2, <1>3 DEF Malformed
<1>5. PICK at \in Nat : at = CopyAt
  BY <1>1, <1>3 DEF CopyAt
<1>6. PICK top \in Nat : top = Base(PageCount) /\ top < Word
  BY FileAssumption, PagesAssumption DEF Base
<1>7. at % Word = at
  <2>1. at < Word
    BY <1>1, <1>3, <1>5, <1>6, FileAssumption DEF CopyAt
  <2> QED BY <2>1, WrapsOnce, FileAssumption
<1>8. ASSUME done < segs[seg].stored
      PROVE  /\ Page(CopyAt) \in Pages \/ Beyond(segs[seg])
             /\ CopyOffset \in 0..(PageSize - 1)
             /\ CopyCount \in Nat \ {0}
             /\ CopyCount <= segs[seg].stored - done
             /\ CopyOffset + CopyCount <= PageSize
             /\ done + CopyCount = segs[seg].stored \/ CopyOffset + CopyCount = PageSize
  <2>1. top = PageCount * PageSize
    BY <1>6 DEF Base
  <2>2. at < segs[seg].va + segs[seg].mem
    BY <1>1, <1>3, <1>4, <1>5, <1>8 DEF CopyAt
  <2>3. CopyOffset \in 0..(PageSize - 1)
    BY <1>5, Paging DEF CopyOffset
  <2>4. CASE at < top
    <3>1. Page(at) \in Pages
      BY <2>1, <2>4, PageInRange
    <3> QED BY <1>1, <1>3, <1>5, <1>8, <2>3, <3>1, PagesAssumption DEF CopyCount
  <2>5. CASE at >= top
    <3>1. Beyond(segs[seg])
      BY <1>3, <2>1, <2>2, <2>5 DEF Beyond
    <3> QED BY <1>1, <1>3, <1>5, <1>8, <2>3, <3>1, PagesAssumption DEF CopyCount
  <2> QED BY <2>4, <2>5
<1> QED BY <1>1, <1>2, <1>4, <1>5, <1>7, <1>8

\* Where a turn of the other loop is: it counts whole pages.
LEMMA BssPlace ==
  ASSUME IInv, pc = "bss"
  PROVE  /\ ~errx /\ InSegment(seg) /\ seg \in 1..Len(segs)
         /\ segs[seg].stored <= segs[seg].mem
         /\ \E d \in Nat :
              /\ done = Base(d)
              /\ BssPage = Page(segs[seg].va) + d
              /\ BssPage \in Nat
              /\ done < SizeToMap(segs[seg]) =>
                   /\ BssPage \in Pages \/ Beyond(segs[seg])
                   /\ Base(BssPage) < segs[seg].va + segs[seg].mem
              /\ BssPage \in Pages => (done + PageSize) % Word = Base(d + 1)
              /\ done >= SizeToMap(segs[seg]) /\ Whole(segs[seg]) =>
                   segs[seg].va + segs[seg].mem <= Base(BssPage)
<1>1. ~errx /\ InSegment(seg)
  BY DEF IInv, Accounts, ErrorsApart, Loaded, InProgress, Position, Ending
<1>2. seg \in 1..Len(segs) /\ ~Malformed(segs[seg])
  BY <1>1 DEF InSegment
<1>3. PICK va \in Nat, m \in Nat :
           va = segs[seg].va /\ m = segs[seg].mem /\ segs[seg].stored \in Nat /\ va < Word
  BY <1>2, SegmentFacts DEF IInv
<1>4. segs[seg].stored <= segs[seg].mem
  BY <1>2, <1>3 DEF Malformed
<1>5. PICK d \in Nat : done = Base(d) /\ (d = 0 \/ Page(segs[seg].va) + d <= PageCount)
  BY <1>1 DEF IInv, Loaded, InProgress, Position, Ending
<1>7. PICK o \in 0..(PageSize - 1) : o = va % PageSize /\ va = Base(Page(va)) + o
  BY Paging
<1>8. PICK v \in Nat : v = Page(va) /\ Base(v) \in Nat
  BY Paging
<1>9. /\ Base(v) + Base(d) = Base(v + d) /\ Base(d) \in Nat /\ Base(v + d) \in Nat
      /\ v + d \in Nat
  <2>1. Base(d) \in Nat
    BY BaseOrder
  <2>2. Base(v) + Base(d) = Base(v + d)
    BY BaseOrder
  <2> QED BY <1>8, <2>1, <2>2
<1>10. PICK top \in Nat : top = Base(PageCount) /\ top < Word /\ top = PageCount * PageSize
  BY FileAssumption, PagesAssumption DEF Base
<1>16. PICK count \in Nat : count = PageCount
  BY PagesAssumption
<1>17. PICK e \in Nat : e = v + d
  BY <1>9
<1>11. BssPage = v + d
  <2>1. va + done - o = Base(v + d)
    BY <1>5, <1>7, <1>8, <1>9
  <2>2. Page(Base(v + d)) = v + d
    BY <1>9, PageOf, PagesAssumption
  <2>3. Base(v + d) < Word
    <3>1. CASE d = 0
      <4>1. Base(d) = 0
        BY <3>1, PagesAssumption DEF Base
      <4> QED BY <1>3, <1>7, <1>8, <1>9, <4>1, FileAssumption, PagesAssumption
    <3>2. CASE v + d <= PageCount
      <4>1. Base(v + d) <= top
        <5>1. e <= count
          BY <1>16, <1>17, <3>2
        <5> QED BY <1>10, <1>16, <1>17, <5>1, BaseOrder
      <4> QED BY <1>9, <1>10, <4>1, FileAssumption
    <3> QED BY <1>3, <1>5, <1>8, <3>1, <3>2
  <2>4. PICK b \in Nat : b = Base(v + d) /\ b < Word
    BY <1>9, <2>3
  <2>5. b % Word = b
    BY <2>4, WrapsOnce, FileAssumption
  <2>6. Correction(segs[seg]) = o
    BY <1>3, <1>7 DEF Correction
  <2>7. BssPage = (b % Word) \div PageSize
    BY <1>3, <2>1, <2>4, <2>6 DEF BssPage
  <2> QED BY <2>2, <2>4, <2>5, <2>7 DEF Page
<1>12. PICK n \in Nat : /\ n = SizeToMap(segs[seg]) /\ n <= m + o
                        /\ Whole(segs[seg]) => n = m + o
  BY <1>2, <1>3, <1>7, SizeFacts DEF IInv, Correction
<1>13. ASSUME done < n
       PROVE  (BssPage \in Pages \/ Beyond(segs[seg])) /\ Base(BssPage) < va + m
  <2>1. Base(v + d) < va + m
    BY <1>5, <1>7, <1>8, <1>9, <1>12, <1>13
  <2>2. v + d >= PageCount => top <= Base(v + d)
    <3>1. count <= e => Base(count) <= Base(e)
      BY BaseOrder
    <3> QED BY <1>10, <1>16, <1>17, <3>1
  <2>3. v + d >= PageCount => Beyond(segs[seg])
    BY <1>3, <1>9, <1>10, <2>1, <2>2 DEF Beyond
  <2> QED BY <1>9, <1>11, <2>1, <2>3, PagesAssumption DEF Pages
<1>14. ASSUME BssPage \in Pages
       PROVE  (done + PageSize) % Word = Base(d + 1)
  <2>1. v + d + 1 <= PageCount /\ d + 1 <= PageCount
    BY <1>11, <1>14, PagesAssumption DEF Pages
  <2>2. Base(d + 1) = Base(d) + PageSize /\ Base(d + 1) \in Nat
    BY <1>9, BaseOrder, PagesAssumption
  <2>3. Base(d + 1) <= top
    <3>1. PICK k \in Nat : k = d + 1 /\ k <= count
      BY <1>16, <2>1
    <3>2. Base(k) <= Base(count)
      BY <3>1, BaseOrder
    <3> QED BY <1>10, <1>16, <3>1, <3>2
  <2>4. PICK b \in Nat : b = Base(d + 1) /\ b < Word
    BY <1>10, <2>2, <2>3, FileAssumption
  <2>5. b % Word = b
    BY <2>4, WrapsOnce, FileAssumption
  <2> QED BY <1>5, <2>2, <2>4, <2>5
<1>15. ASSUME done >= n, Whole(segs[seg])
       PROVE  va + m <= Base(BssPage)
  BY <1>5, <1>7, <1>8, <1>9, <1>11, <1>12, <1>15
<1> QED BY <1>1, <1>2, <1>3, <1>4, <1>5, <1>8, <1>9, <1>11, <1>12, <1>13, <1>14, <1>15

\* The two loops, turn by turn: done, among the kernel's addresses, refused a
\* page, or a page further.
Failed ==
  /\ pc' = "failed" /\ Beyond(segs[seg])
  /\ UNCHANGED <<seg, done, objs, blocks, pts, pages, mem, errx>>

CopyWrites(p) ==
  mem' = [NewMem(p) EXCEPT ![p] =
            [u \in 0..(PageSize - 1) |->
               IF u \in CopyOffset..(CopyOffset + CopyCount - 1)
               THEN segs[seg].off + done + u - CopyOffset ELSE NewMem(p)[p][u]]]

CopyDone ==
  /\ pc' = "bss" /\ done = segs[seg].stored /\ done' = 0
  /\ UNCHANGED <<seg, objs, blocks, pts, pages, mem, errx>>

Refused(p) ==
  /\ pc' = "unwind" /\ errx' = TRUE /\ UNCHANGED <<seg, done>>
  /\ PageMoves(p)

CopyTurn(p) ==
  /\ pc' = "copy" /\ done < segs[seg].stored /\ done' = done + CopyCount
  /\ UNCHANGED <<seg, errx>>
  /\ PageGot(p, segs[seg].flags, FALSE) /\ PageMoves(p) /\ CopyWrites(p)

BssDone ==
  /\ pc' = "segment" /\ done >= SizeToMap(segs[seg])
  /\ seg' = seg + 1
  /\ UNCHANGED <<done, objs, blocks, pts, pages, mem, errx>>

BssTurn(p) ==
  /\ pc' = "bss" /\ done < SizeToMap(segs[seg])
  /\ done' = (done + PageSize) % Word
  /\ UNCHANGED <<seg, errx>>
  /\ PageGot(p, segs[seg].flags, FALSE) /\ PageMoves(p) /\ mem' = NewMem(p)

\* A page got and zeroed where it is new: the pages with contents are the pages.
LEMMA NewMemDomain ==
  ASSUME IInv, NEW p, NEW flags, NEW exclusive, PageGot(p, flags, exclusive)
  PROVE  DOMAIN NewMem(p) = DOMAIN pages'
<1>1. DOMAIN pages' = DOMAIN pages \cup {p}
  BY DEF PageGot
<1>2. DOMAIN NewMem(p) = DOMAIN mem \cup {p}
  BY DEF NewMem
<1> QED BY <1>1, <1>2 DEF IInv, Accounts, PagesHeld

LEMMA RemapRefusedMoves ==
  ASSUME IInv, NEW p \in Pages, NEW flags, RemapRefused(p, flags), ~errx,
         UNCHANGED <<seg, done>>
  PROVE  Refused(p)
<1>1. pc' = "unwind" /\ errx' = TRUE
  BY DEF RemapRefused, Raises
<1>2. CASE PageRefused(p, flags, FALSE) /\ UNCHANGED <<pages, mem, Via>>
  BY <1>1, <1>2, RefusedMoves DEF Refused
<1>3. CASE PageGot(p, flags, FALSE) /\ mem' = NewMem(p)
  BY <1>1, <1>3, GotMoves, NewMemDomain DEF Refused
<1> QED BY <1>2, <1>3 DEF RemapRefused

LEMMA CopySteps ==
  ASSUME IInv, copy_via_remapper
  PROVE  /\ pc = "copy" /\ UNCHANGED <<head, segs, slots, zone, thread>>
         /\ CopyDone \/ Failed \/ Refused(Page(CopyAt)) \/ CopyTurn(Page(CopyAt))
<1>1. pc = "copy" /\ UNCHANGED <<head, segs, seg, slots, zone, thread>>
  BY DEF copy_via_remapper, File
<1> DEFINE p == Page(CopyAt)
<1>0. (segs[seg].va + done) % Word = CopyAt
  BY <1>1, CopyPlace DEF CopyAt
<1>2. \/ /\ segs[seg].stored - done = 0
         /\ done' = 0 /\ pc' = "bss"
         /\ UNCHANGED <<objs, blocks, pts, pages, mem, errx>>
      \/ /\ segs[seg].stored - done > 0
         /\ RemapRefused(p, segs[seg].flags)
         /\ UNCHANGED done
      \/ /\ segs[seg].stored - done > 0
         /\ Remapped(p, segs[seg].flags)
         /\ mem' = [NewMem(p) EXCEPT ![window'] =
               [u \in 0..(PageSize - 1) |->
                  IF u \in CopyOffset..(CopyOffset + CopyCount - 1)
                  THEN segs[seg].off + done + u - CopyOffset ELSE @[u]]]
         /\ done' = done + CopyCount
         /\ UNCHANGED pc
  BY <1>0 DEF copy_via_remapper, CopyOffset, CopyCount, Page, Space
<1>3. /\ ~errx /\ seg \in 1..Len(segs) /\ done \in Nat
      /\ done < segs[seg].stored => p \in Pages \/ Beyond(segs[seg])
  BY <1>1, CopyPlace
<1>4. segs[seg].stored \in Nat
  BY <1>3, SegmentFacts DEF IInv
<1> HIDE DEF p
<1>5. CASE segs[seg].stored - done = 0
  BY <1>1, <1>2, <1>3, <1>4, <1>5 DEF CopyDone
<1>6. CASE segs[seg].stored - done > 0 /\ RemapRefused(p, segs[seg].flags) /\ UNCHANGED done
  <2>1. CASE p \in Pages
    BY <1>1, <1>3, <1>6, <2>1, RemapRefusedMoves DEF p
  <2>2. CASE p \notin Pages
    <3>1. Beyond(segs[seg])
      BY <1>3, <1>4, <1>6, <2>2
    <3>2. pc' = "failed" /\ UNCHANGED <<objs, blocks, pts, pages, mem, errx>>
      BY <1>6, <2>2 DEF RemapRefused, Space
    <3> QED BY <1>1, <1>6, <3>1, <3>2 DEF Failed
  <2> QED BY <2>1, <2>2
<1>7. CASE /\ segs[seg].stored - done > 0 /\ done' = done + CopyCount /\ UNCHANGED pc
           /\ Remapped(p, segs[seg].flags)
           /\ mem' = [NewMem(p) EXCEPT ![window'] =
                 [u \in 0..(PageSize - 1) |->
                    IF u \in CopyOffset..(CopyOffset + CopyCount - 1)
                    THEN segs[seg].off + done + u - CopyOffset ELSE @[u]]]
  <2>1. window' = p /\ PageGot(p, segs[seg].flags, FALSE) /\ errx' = errx
    BY <1>7 DEF Remapped
  <2>2. p \in Pages /\ done < segs[seg].stored
    BY <1>3, <1>4, <1>7 DEF Remapped
  <2>3. CopyWrites(p)
    BY <1>7, <2>1 DEF CopyWrites
  <2>4. DOMAIN mem' = DOMAIN pages'
    <3>1. DOMAIN mem' = DOMAIN NewMem(p)
      BY <2>3 DEF CopyWrites
    <3> QED BY <2>1, <3>1, NewMemDomain
  <2>5. PageMoves(p)
    BY <2>1, <2>2, <2>4, GotMoves
  <2> QED BY <1>1, <1>7, <2>1, <2>2, <2>3, <2>5 DEF CopyTurn, p
<1> QED BY <1>1, <1>2, <1>5, <1>6, <1>7 DEF p

LEMMA BssSteps ==
  ASSUME IInv, elfparser_bss
  PROVE  /\ pc = "bss" /\ UNCHANGED <<head, segs, slots, zone, thread>>
         /\ BssDone \/ Failed \/ Refused(BssPage) \/ BssTurn(BssPage)
<1>1. pc = "bss" /\ UNCHANGED <<head, segs, slots, zone, thread>>
  BY DEF elfparser_bss, File
<1>2. /\ ~errx
      /\ done < SizeToMap(segs[seg]) => BssPage \in Pages \/ Beyond(segs[seg])
  BY <1>1, BssPlace
<1>3. \/ /\ done >= SizeToMap(segs[seg])
         /\ seg' = seg + 1 /\ pc' = "segment"
         /\ UNCHANGED <<done, objs, blocks, pts, pages, mem, errx>>
      \/ /\ done < SizeToMap(segs[seg])
         /\ RemapRefused(BssPage, segs[seg].flags)
         /\ UNCHANGED <<seg, done>>
      \/ /\ done < SizeToMap(segs[seg])
         /\ Remapped(BssPage, segs[seg].flags)
         /\ mem' = NewMem(BssPage)
         /\ done' = (done + PageSize) % Word
         /\ UNCHANGED <<seg, pc>>
  BY DEF elfparser_bss, BssPage, Space
<1>4. CASE /\ done < SizeToMap(segs[seg])
           /\ Remapped(BssPage, segs[seg].flags)
           /\ mem' = NewMem(BssPage) /\ done' = (done + PageSize) % Word
           /\ UNCHANGED <<seg, pc>>
  <2>1. BssPage \in Pages /\ PageGot(BssPage, segs[seg].flags, FALSE) /\ errx' = errx
    BY <1>4 DEF Remapped
  <2>2. PageMoves(BssPage)
    BY <1>4, <2>1, GotMoves, NewMemDomain
  <2> QED BY <1>1, <1>4, <2>1, <2>2 DEF BssTurn
<1>5. CASE /\ done < SizeToMap(segs[seg])
           /\ RemapRefused(BssPage, segs[seg].flags) /\ UNCHANGED <<seg, done>>
  <2>1. CASE BssPage \in Pages
    BY <1>1, <1>2, <1>5, <2>1, RemapRefusedMoves
  <2>2. CASE BssPage \notin Pages
    BY <1>1, <1>2, <1>5, <2>2 DEF RemapRefused, Failed, Space
  <2> QED BY <2>1, <2>2
<1> QED BY <1>1, <1>3, <1>4, <1>5 DEF BssDone

LEMMA IpcSteps ==
  ASSUME IInv, elfexec_ipc_page
  PROVE  /\ pc = "ipc" /\ ~errx
         /\ UNCHANGED <<head, segs, seg, done, slots, zone, alt, window, thread>>
         /\ PageMoves(IpcPage)
         /\ \/ pc' = "destroy" /\ errx' = TRUE
            \/ /\ pc' = "cspace" /\ errx' = errx
               /\ PageGot(IpcPage, "rw-", TRUE) /\ mem' = NewMem(IpcPage)
<1>1. /\ pc = "ipc"
      /\ UNCHANGED <<head, segs, seg, done, slots, zone, alt, window, thread>>
  BY DEF elfexec_ipc_page, File, Via
<1>2. ~errx /\ IpcPage \in Pages
  BY <1>1, PagesAssumption DEF IInv, Accounts, ErrorsApart, Ending
<1>3. CASE /\ Raises("destroy") /\ PageRefused(IpcPage, "rw-", TRUE)
           /\ UNCHANGED <<pages, mem>>
  BY <1>1, <1>2, <1>3, RefusedMoves DEF Raises
<1>4. CASE /\ PageGot(IpcPage, "rw-", TRUE) /\ mem' = NewMem(IpcPage)
           /\ pc' = "cspace" /\ UNCHANGED errx
  BY <1>1, <1>2, <1>4, GotMoves, NewMemDomain
<1> QED BY <1>3, <1>4 DEF elfexec_ipc_page

\* Blocks are in the books after every step.
LEMMA BlocksKept ==
  ASSUME IInv, Next
  PROVE  BlocksHeld'
<1>1. CASE copy_via_remapper
  <2>1. CASE CopyDone \/ Failed
    BY <1>1, <2>1, CopySteps DEF CopyDone, Failed, IInv, Accounts, BlocksHeld, HasPd, HasThread,
       HoldsContext, Loading, AfterLoad
  <2>2. CASE Refused(Page(CopyAt)) \/ CopyTurn(Page(CopyAt))
    BY <1>1, <2>2, CopySteps, MovesKeep DEF Refused, CopyTurn
  <2> QED BY <1>1, <2>1, <2>2, CopySteps
<1>2. CASE elfparser_bss
  <2>1. CASE BssDone \/ Failed
    BY <1>2, <2>1, BssSteps DEF BssDone, Failed, IInv, Accounts, BlocksHeld, HasPd, HasThread,
       HoldsContext, Loading, AfterLoad
  <2>2. CASE Refused(BssPage) \/ BssTurn(BssPage)
    BY <1>2, <2>2, BssSteps, MovesKeep DEF Refused, BssTurn
  <2> QED BY <1>2, <2>1, <2>2, BssSteps
<1>3. CASE elfexec_ipc_page
  BY <1>3, IpcSteps, MovesKeep
<1> USE DEF Raises, File, Held, Space, Via, Loaders, HasPd, HasThread, HoldsContext, IInv,
             Accounts, Typed, ErrorsApart, BlocksHeld, PagesHeld, Blocks, BeforeLoad,
             Loading, AfterLoad, Ending
<1>4. CASE launch_process
  BY <1>4 DEF launch_process
<1>5. CASE cslot_mint
  BY <1>5 DEF cslot_mint
<1>6. CASE UndoLaunch
  BY <1>6 DEF UndoLaunch
<1>7. CASE elfexec_init_pd
  BY <1>7 DEF elfexec_init_pd
<1>8. CASE elfexec_init_cspace
  BY <1>8 DEF elfexec_init_cspace
<1>9. CASE load_zone
  BY <1>9 DEF load_zone
<1>10. CASE load_pagedir
  BY <1>10 DEF load_pagedir
<1>11. CASE load_spare
  BY <1>11 DEF load_spare
<1>12. CASE elfparser_header
  BY <1>12 DEF elfparser_header
<1>13. CASE elfparser_segment
  BY <1>13 DEF elfparser_segment
<1>14. CASE elfloader_load_end
  BY <1>14 DEF elfloader_load_end
<1>15. CASE cspace_configure
  BY <1>15 DEF cspace_configure
<1>16. CASE exec_init
  BY <1>16 DEF exec_init
<1>17. CASE exec_configure
  BY <1>17 DEF exec_configure
<1>18. CASE elfexec_start
  BY <1>18 DEF elfexec_start
<1>19. CASE Destroy
  BY <1>19 DEF Destroy
<1>20. CASE exec_stop
  BY <1>20 DEF exec_stop
<1>21. CASE exec_destroy
  BY <1>21 DEF exec_destroy
<1>22. CASE elfloader_unload
  BY <1>22 DEF elfloader_unload
<1>23. CASE elfexec_destroy_spaces
  BY <1>23 DEF elfexec_destroy_spaces
<1> QED BY <1>1, <1>2, <1>3, <1>4, <1>5, <1>6, <1>7, <1>8, <1>9, <1>10, <1>11, <1>12, <1>13,
           <1>14, <1>15, <1>16, <1>17, <1>18, <1>19, <1>20, <1>21, <1>22, <1>23
       DEF Next

\* Objects are in the books after every step.
LEMMA ObjectsKept ==
  ASSUME IInv, Next
  PROVE  ObjectsHeld'
<1>1. CASE copy_via_remapper
  <2>1. CASE CopyDone \/ Failed
    BY <1>1, <2>1, CopySteps DEF CopyDone, Failed, IInv, Accounts, ObjectsHeld, HasThread,
       HoldsPd, HoldsCspace
  <2>2. CASE Refused(Page(CopyAt)) \/ CopyTurn(Page(CopyAt))
    BY <1>1, <2>2, CopySteps, MovesKeep DEF Refused, CopyTurn
  <2> QED BY <1>1, <2>1, <2>2, CopySteps
<1>2. CASE elfparser_bss
  <2>1. CASE BssDone \/ Failed
    BY <1>2, <2>1, BssSteps DEF BssDone, Failed, IInv, Accounts, ObjectsHeld, HasThread,
       HoldsPd, HoldsCspace
  <2>2. CASE Refused(BssPage) \/ BssTurn(BssPage)
    BY <1>2, <2>2, BssSteps, MovesKeep DEF Refused, BssTurn
  <2> QED BY <1>2, <2>1, <2>2, BssSteps
<1>3. CASE elfexec_ipc_page
  BY <1>3, IpcSteps, MovesKeep
<1> USE DEF Raises, File, Held, Space, Via, IInv, Accounts, Typed, ErrorsApart, BeforeLoad,
             Loading, AfterLoad, Ending, Singles, Objects, HasPd, HasThread, HoldsPd,
             HoldsCspace, BlocksHeld, ObjectsHeld, PagesHeld, ThreadHeld
<1>4. CASE launch_process
  BY <1>4 DEF launch_process
<1>5. CASE cslot_mint
  BY <1>5 DEF cslot_mint
<1>6. CASE UndoLaunch
  BY <1>6 DEF UndoLaunch
<1>7. CASE elfexec_init_pd
  BY <1>7 DEF elfexec_init_pd
<1>8. CASE elfexec_init_cspace
  BY <1>8 DEF elfexec_init_cspace
<1>9. CASE load_zone
  BY <1>9 DEF load_zone
<1>10. CASE load_pagedir
  BY <1>10 DEF load_pagedir
<1>11. CASE load_spare
  BY <1>11 DEF load_spare
<1>12. CASE elfparser_header
  BY <1>12 DEF elfparser_header
<1>13. CASE elfparser_segment
  BY <1>13 DEF elfparser_segment
<1>14. CASE elfloader_load_end
  BY <1>14 DEF elfloader_load_end
<1>15. CASE cspace_configure
  BY <1>15 DEF cspace_configure
<1>16. CASE exec_init
  BY <1>16 DEF exec_init
<1>17. CASE exec_configure
  BY <1>17 DEF exec_configure
<1>18. CASE elfexec_start
  BY <1>18 DEF elfexec_start
<1>19. CASE Destroy
  BY <1>19 DEF Destroy
<1>20. CASE exec_stop
  BY <1>20 DEF exec_stop
<1>21. CASE exec_destroy
  BY <1>21 DEF exec_destroy
<1>22. CASE elfloader_unload
  BY <1>22 DEF elfloader_unload
<1>23. CASE elfexec_destroy_spaces
  BY <1>23 DEF elfexec_destroy_spaces
<1> QED BY <1>1, <1>2, <1>3, <1>4, <1>5, <1>6, <1>7, <1>8, <1>9, <1>10, <1>11, <1>12, <1>13,
           <1>14, <1>15, <1>16, <1>17, <1>18, <1>19, <1>20, <1>21, <1>22, <1>23
       DEF Next

\* Pages are in tables, and both are there between load and unload.
LEMMA PagesKept ==
  ASSUME IInv, Next
  PROVE  PagesHeld'
<1>1. CASE copy_via_remapper
  <2>1. CASE CopyDone \/ Failed
    BY <1>1, <2>1, CopySteps DEF CopyDone, Failed, IInv, Accounts, PagesHeld, HasPd
  <2>2. CASE Refused(Page(CopyAt)) \/ CopyTurn(Page(CopyAt))
    BY <1>1, <2>2, CopySteps, MovesKeep DEF Refused, CopyTurn
  <2> QED BY <1>1, <2>1, <2>2, CopySteps
<1>2. CASE elfparser_bss
  <2>1. CASE BssDone \/ Failed
    BY <1>2, <2>1, BssSteps DEF BssDone, Failed, IInv, Accounts, PagesHeld, HasPd
  <2>2. CASE Refused(BssPage) \/ BssTurn(BssPage)
    BY <1>2, <2>2, BssSteps, MovesKeep DEF Refused, BssTurn
  <2> QED BY <1>2, <2>1, <2>2, BssSteps
<1>3. CASE elfexec_ipc_page
  BY <1>3, IpcSteps, MovesKeep
<1> USE DEF Raises, File, Held, Space, Via, IInv, Accounts, Typed, ErrorsApart, BeforeLoad,
             Loading, AfterLoad, Ending, HasPd, BlocksHeld, PagesHeld, Loaders
<1>4. CASE launch_process
  BY <1>4 DEF launch_process
<1>5. CASE cslot_mint
  BY <1>5 DEF cslot_mint
<1>6. CASE UndoLaunch
  BY <1>6 DEF UndoLaunch
<1>7. CASE elfexec_init_pd
  BY <1>7 DEF elfexec_init_pd
<1>8. CASE elfexec_init_cspace
  BY <1>8 DEF elfexec_init_cspace
<1>9. CASE load_zone
  BY <1>9 DEF load_zone
<1>10. CASE load_pagedir
  BY <1>10 DEF load_pagedir
<1>11. CASE load_spare
  BY <1>11 DEF load_spare
<1>12. CASE elfparser_header
  BY <1>12 DEF elfparser_header
<1>13. CASE elfparser_segment
  BY <1>13 DEF elfparser_segment
<1>14. CASE elfloader_load_end
  BY <1>14 DEF elfloader_load_end
<1>15. CASE cspace_configure
  BY <1>15 DEF cspace_configure
<1>16. CASE exec_init
  BY <1>16 DEF exec_init
<1>17. CASE exec_configure
  BY <1>17 DEF exec_configure
<1>18. CASE elfexec_start
  BY <1>18 DEF elfexec_start
<1>19. CASE Destroy
  BY <1>19 DEF Destroy
<1>20. CASE exec_stop
  BY <1>20 DEF exec_stop
<1>21. CASE exec_destroy
  BY <1>21 DEF exec_destroy
<1>22. CASE elfloader_unload
  BY <1>22 DEF elfloader_unload
<1>23. CASE elfexec_destroy_spaces
  BY <1>23 DEF elfexec_destroy_spaces
<1> QED BY <1>1, <1>2, <1>3, <1>4, <1>5, <1>6, <1>7, <1>8, <1>9, <1>10, <1>11, <1>12, <1>13,
           <1>14, <1>15, <1>16, <1>17, <1>18, <1>19, <1>20, <1>21, <1>22, <1>23
       DEF Next

\* Slots, address space and the mapping go back with the loader.
LEMMA OthersKept ==
  ASSUME IInv, Next
  PROVE  OthersHeld'
<1>1. CASE copy_via_remapper
  <2>1. CASE CopyDone \/ Failed
    BY <1>1, <2>1, CopySteps DEF CopyDone, Failed, IInv, Accounts, OthersHeld, HoldsZone,
       BeforeLoad, Loading, AfterLoad, Ending
  <2>2. CASE Refused(Page(CopyAt)) \/ CopyTurn(Page(CopyAt))
    BY <1>1, <2>2, CopySteps DEF Refused, CopyTurn, IInv, Accounts, OthersHeld, HoldsZone,
       BeforeLoad, Loading, AfterLoad, Ending
  <2> QED BY <1>1, <2>1, <2>2, CopySteps
<1>2. CASE elfparser_bss
  <2>1. CASE BssDone \/ Failed
    BY <1>2, <2>1, BssSteps DEF BssDone, Failed, IInv, Accounts, OthersHeld, HoldsZone,
       BeforeLoad, Loading, AfterLoad, Ending
  <2>2. CASE Refused(BssPage) \/ BssTurn(BssPage)
    BY <1>2, <2>2, BssSteps DEF Refused, BssTurn, IInv, Accounts, OthersHeld, HoldsZone,
       BeforeLoad, Loading, AfterLoad, Ending
  <2> QED BY <1>2, <2>1, <2>2, BssSteps
<1>3. CASE elfexec_ipc_page
  <2>1. /\ pc = "ipc" /\ pc' \in {"destroy", "cspace"}
        /\ UNCHANGED <<slots, zone, alt, window>>
    BY <1>3, IpcSteps
  <2> QED BY <2>1 DEF IInv, Accounts, OthersHeld, HoldsZone, Loading
<1> USE DEF Raises, File, Held, Space, Via, IInv, Accounts, Typed, ErrorsApart, BeforeLoad,
             Loading, AfterLoad, Ending, OthersHeld, HoldsZone
<1>4. CASE launch_process
  BY <1>4 DEF launch_process
<1>5. CASE cslot_mint
  BY <1>5 DEF cslot_mint
<1>6. CASE UndoLaunch
  BY <1>6 DEF UndoLaunch
<1>7. CASE elfexec_init_pd
  BY <1>7 DEF elfexec_init_pd
<1>8. CASE elfexec_init_cspace
  BY <1>8 DEF elfexec_init_cspace
<1>9. CASE load_zone
  BY <1>9 DEF load_zone
<1>10. CASE load_pagedir
  BY <1>10 DEF load_pagedir
<1>11. CASE load_spare
  BY <1>11 DEF load_spare
<1>12. CASE elfparser_header
  BY <1>12 DEF elfparser_header
<1>13. CASE elfparser_segment
  BY <1>13 DEF elfparser_segment
<1>14. CASE elfloader_load_end
  BY <1>14 DEF elfloader_load_end
<1>15. CASE cspace_configure
  BY <1>15 DEF cspace_configure
<1>16. CASE exec_init
  BY <1>16 DEF exec_init
<1>17. CASE exec_configure
  BY <1>17 DEF exec_configure
<1>18. CASE elfexec_start
  BY <1>18 DEF elfexec_start
<1>19. CASE Destroy
  BY <1>19 DEF Destroy
<1>20. CASE exec_stop
  BY <1>20 DEF exec_stop
<1>21. CASE exec_destroy
  BY <1>21 DEF exec_destroy
<1>22. CASE elfloader_unload
  BY <1>22 DEF elfloader_unload
<1>23. CASE elfexec_destroy_spaces
  BY <1>23 DEF elfexec_destroy_spaces
<1> QED BY <1>1, <1>2, <1>3, <1>4, <1>5, <1>6, <1>7, <1>8, <1>9, <1>10, <1>11, <1>12, <1>13,
           <1>14, <1>15, <1>16, <1>17, <1>18, <1>19, <1>20, <1>21, <1>22, <1>23
       DEF Next

\* No step raises an error while another is pending.
LEMMA ErrorsKept ==
  ASSUME IInv, Next
  PROVE  ErrorsApart'
<1>1. CASE copy_via_remapper
  <2>1. CASE CopyDone
    <3>1. pc' = "bss" /\ ~errx'
      BY <1>1, <2>1, CopySteps, CopyPlace DEF CopyDone
    <3> QED BY <3>1 DEF ErrorsApart, OneError
  <2>2. CASE Refused(Page(CopyAt)) \/ CopyTurn(Page(CopyAt))
    <3>1. pc' = "unwind" \/ (pc' = "copy" /\ ~errx')
      BY <1>1, <2>2, CopySteps, CopyPlace DEF Refused, CopyTurn
    <3> QED BY <3>1 DEF ErrorsApart, OneError
  <2>3. CASE Failed
    <3>1. ~errx' /\ seg' <= Len(segs') /\ Beyond(segs[seg])'
      BY <1>1, <2>3, CopySteps, CopyPlace DEF Failed, IInv, Typed, Beyond
    <3> QED BY <3>1 DEF ErrorsApart, OneError
  <2> QED BY <1>1, <2>1, <2>2, <2>3, CopySteps
<1>2. CASE elfparser_bss
  <2>1. CASE BssDone
    <3>1. pc' = "segment" /\ ~errx'
      BY <1>2, <2>1, BssSteps, BssPlace DEF BssDone
    <3> QED BY <3>1 DEF ErrorsApart, OneError
  <2>2. CASE Refused(BssPage) \/ BssTurn(BssPage)
    <3>1. pc' = "unwind" \/ (pc' = "bss" /\ ~errx')
      BY <1>2, <2>2, BssSteps, BssPlace DEF Refused, BssTurn
    <3> QED BY <3>1 DEF ErrorsApart, OneError
  <2>3. CASE Failed
    <3>1. ~errx' /\ seg' <= Len(segs') /\ Beyond(segs[seg])'
      BY <1>2, <2>3, BssSteps, BssPlace DEF Failed, IInv, Typed, Beyond
    <3> QED BY <3>1 DEF ErrorsApart, OneError
  <2> QED BY <1>2, <2>1, <2>2, <2>3, BssSteps
<1>3. CASE elfexec_ipc_page
  <2>1. pc' = "destroy" \/ (pc' = "cspace" /\ ~errx')
    BY <1>3, IpcSteps
  <2> QED BY <2>1 DEF ErrorsApart, OneError, Ending
<1> USE DEF Raises, File, Held, Space, Via, IInv, Accounts, Typed, ErrorsApart, BeforeLoad,
             Loading, AfterLoad, Ending, OneError, InSegment
<1>4. CASE launch_process
  BY <1>4 DEF launch_process
<1>5. CASE cslot_mint
  BY <1>5 DEF cslot_mint
<1>6. CASE UndoLaunch
  BY <1>6 DEF UndoLaunch
<1>7. CASE elfexec_init_pd
  BY <1>7 DEF elfexec_init_pd
<1>8. CASE elfexec_init_cspace
  BY <1>8 DEF elfexec_init_cspace
<1>9. CASE load_zone
  BY <1>9 DEF load_zone
<1>10. CASE load_pagedir
  BY <1>10 DEF load_pagedir
<1>11. CASE load_spare
  BY <1>11 DEF load_spare
<1>12. CASE elfparser_header
  BY <1>12 DEF elfparser_header
<1>13. CASE elfparser_segment
  BY <1>13 DEF elfparser_segment
<1>14. CASE elfloader_load_end
  BY <1>14 DEF elfloader_load_end
<1>15. CASE cspace_configure
  BY <1>15 DEF cspace_configure
<1>16. CASE exec_init
  BY <1>16 DEF exec_init
<1>17. CASE exec_configure
  BY <1>17 DEF exec_configure
<1>18. CASE elfexec_start
  BY <1>18 DEF elfexec_start
<1>19. CASE Destroy
  BY <1>19 DEF Destroy
<1>20. CASE exec_stop
  BY <1>20 DEF exec_stop
<1>21. CASE exec_destroy
  BY <1>21 DEF exec_destroy
<1>22. CASE elfloader_unload
  BY <1>22 DEF elfloader_unload
<1>23. CASE elfexec_destroy_spaces
  BY <1>23 DEF elfexec_destroy_spaces
<1> QED BY <1>1, <1>2, <1>3, <1>4, <1>5, <1>6, <1>7, <1>8, <1>9, <1>10, <1>11, <1>12, <1>13,
           <1>14, <1>15, <1>16, <1>17, <1>18, <1>19, <1>20, <1>21, <1>22, <1>23
       DEF Next

\* A thread keeps what it runs in.
LEMMA ThreadKept ==
  ASSUME IInv, Next
  PROVE  ThreadHeld'
<1>1. CASE copy_via_remapper
  <2>1. thread' = thread /\ pc = "copy" /\ pc' \in {"copy", "bss", "unwind", "failed"}
    BY <1>1, CopySteps DEF CopyDone, Failed, Refused, CopyTurn
  <2> QED BY <2>1, BlocksKept DEF ThreadHeld, BlocksHeld, IInv, Accounts
<1>2. CASE elfparser_bss
  <2>1. thread' = thread /\ pc = "bss" /\ pc' \in {"segment", "bss", "unwind", "failed"}
    BY <1>2, BssSteps DEF BssDone, Failed, Refused, BssTurn
  <2> QED BY <2>1, BlocksKept DEF ThreadHeld, BlocksHeld, IInv, Accounts
<1>3. CASE elfexec_ipc_page
  <2>1. /\ thread' = thread /\ pc = "ipc" /\ PageMoves(IpcPage)
        /\ pc' = "destroy" \/ (pc' = "cspace" /\ PageGot(IpcPage, "rw-", TRUE))
    BY <1>3, IpcSteps
  <2>2. pc' = "cspace" => IpcPage \in DOMAIN pages'
    BY <2>1 DEF PageGot
  <2>3. HasPd' /\ ~HasThread /\ ~HasThread'
    BY <2>1 DEF IInv, Accounts, BlocksHeld, PageMoves, HasPd, HasThread, AfterLoad
  <2> QED BY <2>1, <2>2, <2>3 DEF ThreadHeld, IInv, Accounts
<1> USE DEF Raises, File, Held, Space, Via, IInv, Accounts, Typed, ErrorsApart, BeforeLoad,
             Loading, AfterLoad, Ending, ThreadHeld, BlocksHeld, PagesHeld, HasPd,
             HasThread, Loaders
<1>4. CASE launch_process
  BY <1>4 DEF launch_process
<1>5. CASE cslot_mint
  BY <1>5 DEF cslot_mint
<1>6. CASE UndoLaunch
  BY <1>6 DEF UndoLaunch
<1>7. CASE elfexec_init_pd
  BY <1>7 DEF elfexec_init_pd
<1>8. CASE elfexec_init_cspace
  BY <1>8 DEF elfexec_init_cspace
<1>9. CASE load_zone
  BY <1>9 DEF load_zone
<1>10. CASE load_pagedir
  BY <1>10 DEF load_pagedir
<1>11. CASE load_spare
  BY <1>11 DEF load_spare
<1>12. CASE elfparser_header
  BY <1>12 DEF elfparser_header
<1>13. CASE elfparser_segment
  BY <1>13 DEF elfparser_segment
<1>14. CASE elfloader_load_end
  BY <1>14 DEF elfloader_load_end
<1>15. CASE cspace_configure
  BY <1>15 DEF cspace_configure
<1>16. CASE exec_init
  BY <1>16 DEF exec_init
<1>17. CASE exec_configure
  BY <1>17 DEF exec_configure
<1>18. CASE elfexec_start
  BY <1>18 DEF elfexec_start
<1>19. CASE Destroy
  BY <1>19 DEF Destroy
<1>20. CASE exec_stop
  BY <1>20 DEF exec_stop
<1>21. CASE exec_destroy
  BY <1>21 DEF exec_destroy
<1>22. CASE elfloader_unload
  BY <1>22 DEF elfloader_unload
<1>23. CASE elfexec_destroy_spaces
  BY <1>23 DEF elfexec_destroy_spaces
<1> QED BY <1>1, <1>2, <1>3, <1>4, <1>5, <1>6, <1>7, <1>8, <1>9, <1>10, <1>11, <1>12, <1>13,
           <1>14, <1>15, <1>16, <1>17, <1>18, <1>19, <1>20, <1>21, <1>22, <1>23
       DEF Next

\* Every step keeps the types.
LEMMA TypedKept ==
  ASSUME IInv, Next
  PROVE  Typed'
<1>1. CASE copy_via_remapper
  <2>1. /\ UNCHANGED <<head, segs, seg, slots, zone, thread>>
        /\ pc' \in {"copy", "bss", "unwind", "failed"} /\ errx' \in {errx, TRUE}
        /\ done' \in {0, done} \/ (done < segs[seg].stored /\ done' = done + CopyCount)
    BY <1>1, CopySteps DEF CopyDone, Failed, Refused, CopyTurn
  <2>2. pc = "copy"
    BY <1>1, CopySteps
  <2>3. done < segs[seg].stored => CopyCount \in Nat
    BY <2>2, CopyPlace
  <2>4. done' \in Nat
    <3>1. done \in Nat
      BY DEF IInv, Typed
    <3> QED BY <2>1, <2>3, <3>1
  <2> QED BY <2>1, <2>4 DEF IInv, Typed, Loading
<1>2. CASE elfparser_bss
  <2>1. /\ UNCHANGED <<head, segs, slots, zone, thread>> /\ seg' \in {seg, seg + 1}
        /\ pc' \in {"segment", "bss", "unwind", "failed"} /\ errx' \in {errx, TRUE}
        /\ done' \in {done, (done + PageSize) % Word}
    BY <1>2, BssSteps DEF BssDone, Failed, Refused, BssTurn
  <2>2. seg + 1 \in Nat \ {0} /\ (done + PageSize) % Word \in Nat
    BY PagesAssumption, FileAssumption DEF IInv, Typed
  <2> QED BY <2>1, <2>2 DEF IInv, Typed, Loading
<1>3. CASE elfexec_ipc_page
  <2>1. /\ UNCHANGED <<head, segs, seg, done, slots, zone, thread>>
        /\ pc' \in {"destroy", "cspace"} /\ errx' \in {errx, TRUE}
    BY <1>3, IpcSteps
  <2> QED BY <2>1 DEF IInv, Typed, AfterLoad, Ending
<1> USE DEF Raises, File, Held, Space, Via, IInv, Accounts, Typed, ErrorsApart, BeforeLoad,
             Loading, AfterLoad, Ending, ThreadHeld, OthersHeld
<1>4. CASE launch_process
  BY <1>4 DEF launch_process
<1>5. CASE cslot_mint
  BY <1>5 DEF cslot_mint
<1>6. CASE UndoLaunch
  BY <1>6 DEF UndoLaunch
<1>7. CASE elfexec_init_pd
  BY <1>7 DEF elfexec_init_pd
<1>8. CASE elfexec_init_cspace
  BY <1>8 DEF elfexec_init_cspace
<1>9. CASE load_zone
  BY <1>9 DEF load_zone
<1>10. CASE load_pagedir
  BY <1>10 DEF load_pagedir
<1>11. CASE load_spare
  BY <1>11 DEF load_spare
<1>12. CASE elfparser_header
  BY <1>12 DEF elfparser_header
<1>13. CASE elfparser_segment
  BY <1>13 DEF elfparser_segment
<1>14. CASE elfloader_load_end
  BY <1>14 DEF elfloader_load_end
<1>15. CASE cspace_configure
  BY <1>15 DEF cspace_configure
<1>16. CASE exec_init
  BY <1>16 DEF exec_init
<1>17. CASE exec_configure
  BY <1>17 DEF exec_configure
<1>18. CASE elfexec_start
  BY <1>18 DEF elfexec_start
<1>19. CASE Destroy
  BY <1>19 DEF Destroy
<1>20. CASE exec_stop
  BY <1>20 DEF exec_stop
<1>21. CASE exec_destroy
  BY <1>21 DEF exec_destroy
<1>22. CASE elfloader_unload
  BY <1>22 DEF elfloader_unload
<1>23. CASE elfexec_destroy_spaces
  BY <1>23 DEF elfexec_destroy_spaces
<1> QED BY <1>1, <1>2, <1>3, <1>4, <1>5, <1>6, <1>7, <1>8, <1>9, <1>10, <1>11, <1>12, <1>13,
           <1>14, <1>15, <1>16, <1>17, <1>18, <1>19, <1>20, <1>21, <1>22, <1>23
       DEF Next

-----------------------------------------------------------------------------
(* The accounts after every step. *)
LEMMA AccountsKept ==
  ASSUME IInv, [Next]_vars
  PROVE  Typed' /\ Accounts'
<1>1. CASE Next
  BY <1>1, TypedKept, BlocksKept, ObjectsKept, OthersKept, PagesKept, ThreadKept, ErrorsKept
     DEF Accounts
<1>2. CASE UNCHANGED vars
  <2>1. Typed'
    BY <1>2 DEF vars, IInv, Typed
  <2>2. BlocksHeld'
    BY <1>2 DEF vars, IInv, Accounts, BlocksHeld, HasPd, HasThread, HoldsContext
  <2>3. ObjectsHeld'
    BY <1>2 DEF vars, IInv, Accounts, ObjectsHeld, HasThread, HoldsPd, HoldsCspace
  <2>4. OthersHeld'
    BY <1>2 DEF vars, IInv, Accounts, OthersHeld, HoldsZone
  <2>5. PagesHeld'
    BY <1>2 DEF vars, IInv, Accounts, PagesHeld, HasPd
  <2>6. ThreadHeld'
    BY <1>2 DEF vars, IInv, Accounts, ThreadHeld, HasPd, HasThread
  <2>7. ErrorsApart'
    BY <1>2 DEF vars, IInv, Accounts, ErrorsApart, OneError
  <2> QED BY <2>1, <2>2, <2>3, <2>4, <2>5, <2>6, <2>7 DEF Accounts
<1> QED BY <1>1, <1>2

-----------------------------------------------------------------------------
(* What the pages hold. *)

\* Pages that nobody touches keep what they hold.
LEMMA SamePictures ==
  ASSUME Pictures, UNCHANGED <<segs, pages, mem>>,
         \A i \in 1..Len(segs), a \in Nat : Copied(i, a)' <=> Copied(i, a),
         \A i \in 1..Len(segs), a \in Nat :
            i < seg' /\ Covers(segs[i], a) /\ Whole(segs[i]) =>
                i < seg \/ Mapped(i, Page(a))
  PROVE  Pictures'
<1>1. Contents'
  <2> SUFFICES ASSUME NEW a \in Nat, (Page(a) \in DOMAIN pages)'
               PROVE  UnitIs(a, Unit(a))'
    BY DEF Contents
  <2>1. UnitIs(a, Unit(a))
    BY DEF Pictures, Contents, Page
  <2>2. Unit(a)' = Unit(a)
    BY DEF Unit, Page
  <2> QED BY <2>1, <2>2 DEF UnitIs
<1>2. CopiedMapped'
  BY DEF Pictures, CopiedMapped, Mapped, Page
<1>3. LoadedMapped'
  BY DEF Pictures, LoadedMapped, Mapped, Page, Covers, Whole, Correction
<1>4. PagesWanted'
  BY DEF Pictures, PagesWanted, PageWanted, Reaches
<1> QED BY <1>1, <1>2, <1>3, <1>4 DEF Pictures

\* A page that is got has the rights asked for, the others keep theirs, and a
\* new one holds zeros, which nobody has written to.
LEMMA GotPage ==
  ASSUME IInv, Pictures, NEW p \in Pages, NEW flags, NEW exclusive,
         PageGot(p, flags, exclusive)
  PROVE  /\ DOMAIN pages' = DOMAIN pages \cup {p} /\ pages'[p] = flags
         /\ \A q \in DOMAIN pages : pages'[q] = pages[q]
         /\ \A a \in Nat : Page(a) \in DOMAIN pages' =>
              UnitIs(a, NewMem(p)[Page(a)][a % PageSize])
<1>1. /\ DOMAIN pages' = DOMAIN pages \cup {p} /\ pages'[p] = flags
      /\ \A q \in DOMAIN pages : pages'[q] = pages[q]
  BY DEF PageGot
<1>2. DOMAIN mem = DOMAIN pages
  BY DEF IInv, Accounts, PagesHeld
<1>3. ASSUME NEW a \in Nat, Page(a) \in DOMAIN pages'
      PROVE  UnitIs(a, NewMem(p)[Page(a)][a % PageSize])
  <2>0. a % PageSize \in 0..(PageSize - 1)
    BY Paging
  <2>1. CASE Page(a) \in DOMAIN pages
    <3>1. NewMem(p)[Page(a)][a % PageSize] = Unit(a)
      BY <1>2, <2>1 DEF NewMem, Unit
    <3> QED BY <2>1, <3>1 DEF Pictures, Contents
  <2>2. CASE Page(a) \notin DOMAIN pages
    <3>1. NewMem(p)[Page(a)] = [u \in 0..(PageSize - 1) |-> Zero]
      BY <1>1, <1>2, <1>3, <2>2 DEF NewMem
    <3>2. NewMem(p)[Page(a)][a % PageSize] = Zero
      BY <2>0, <3>1
    <3>3. \A i \in 1..Len(segs) : ~Copied(i, a)
      BY <2>2 DEF Pictures, CopiedMapped, Mapped
    <3> QED BY <3>2, <3>3 DEF UnitIs
  <2> QED BY <2>1, <2>2
<1> QED BY <1>1, <1>3

\* A step outside the two loops leaves the pages as they are.
LEMMA QuietLoaded ==
  ASSUME IInv, UNCHANGED <<head, segs, seg, pages, mem>>,
         pc \notin {"copy", "bss"}, pc' \notin {"copy", "bss"},
         InProgress' => InProgress /\ Position'
  PROVE  Loaded'
<1> SUFFICES ASSUME InProgress, Position', InProgress' PROVE Pictures' /\ BssMapped'
  BY DEF Loaded
<1>1. \A i \in 1..Len(segs), a \in Nat : Copied(i, a)' <=> Copied(i, a)
  BY DEF Copied
<1>2. Pictures'
  BY <1>1, SamePictures DEF IInv, Loaded
<1> QED BY <1>2 DEF BssMapped

\* The steps that only take something, or end something.
LEMMA OthersLoaded ==
  ASSUME IInv,
         \/ launch_process \/ cslot_mint \/ elfexec_init_pd \/ elfexec_init_cspace
         \/ load_zone \/ load_pagedir \/ load_spare \/ elfparser_header
         \/ elfloader_load_end \/ cspace_configure \/ exec_init \/ exec_configure
         \/ elfexec_start \/ UndoLaunch \/ Destroy \/ exec_stop
         \/ exec_destroy \/ elfloader_unload \/ elfexec_destroy_spaces
  PROVE  Loaded'
<1>1. CASE launch_process
  <2>1. /\ pc \notin {"copy", "bss"} /\ pc' \notin {"copy", "bss"}
        /\ InProgress' => InProgress /\ UNCHANGED <<head, segs, seg, pages, mem>>
    BY <1>1 DEF launch_process, Raises, File, Space, InProgress, Ending
  <2>2. InProgress' => Position'
    BY <1>1, <2>1 DEF launch_process, Raises, IInv, Loaded, InProgress, Position, InSegment,
       BeforeLoad, AfterLoad, Ending
  <2> QED BY <2>1, <2>2, QuietLoaded DEF Loaded
<1>2. CASE cslot_mint
  <2>1. /\ pc \notin {"copy", "bss"} /\ pc' \notin {"copy", "bss"}
        /\ InProgress' => InProgress /\ UNCHANGED <<head, segs, seg, pages, mem>>
    BY <1>2 DEF cslot_mint, Raises, File, Space, InProgress, Ending
  <2>2. InProgress' => Position'
    BY <1>2, <2>1 DEF cslot_mint, Raises, IInv, Loaded, InProgress, Position, InSegment,
       BeforeLoad, AfterLoad, Ending
  <2> QED BY <2>1, <2>2, QuietLoaded DEF Loaded
<1>3. CASE elfexec_init_pd
  <2>1. /\ pc \notin {"copy", "bss"} /\ pc' \notin {"copy", "bss"}
        /\ InProgress' => InProgress /\ UNCHANGED <<head, segs, seg, pages, mem>>
    BY <1>3 DEF elfexec_init_pd, Raises, File, Space, InProgress, Ending
  <2>2. InProgress' => Position'
    BY <1>3, <2>1 DEF elfexec_init_pd, Raises, IInv, Loaded, InProgress, Position, InSegment,
       BeforeLoad, AfterLoad, Ending
  <2> QED BY <2>1, <2>2, QuietLoaded DEF Loaded
<1>4. CASE elfexec_init_cspace
  <2>1. /\ pc \notin {"copy", "bss"} /\ pc' \notin {"copy", "bss"}
        /\ InProgress' => InProgress /\ UNCHANGED <<head, segs, seg, pages, mem>>
    BY <1>4 DEF elfexec_init_cspace, Raises, File, Space, InProgress, Ending
  <2>2. InProgress' => Position'
    BY <1>4, <2>1 DEF elfexec_init_cspace, Raises, IInv, Loaded, InProgress, Position, InSegment,
       BeforeLoad, AfterLoad, Ending
  <2> QED BY <2>1, <2>2, QuietLoaded DEF Loaded
<1>5. CASE load_zone
  <2>1. /\ pc \notin {"copy", "bss"} /\ pc' \notin {"copy", "bss"}
        /\ InProgress' => InProgress /\ UNCHANGED <<head, segs, seg, pages, mem>>
    BY <1>5 DEF load_zone, Raises, File, Space, InProgress, Ending
  <2>2. InProgress' => Position'
    BY <1>5, <2>1 DEF load_zone, Raises, IInv, Loaded, InProgress, Position, InSegment,
       BeforeLoad, AfterLoad, Ending
  <2> QED BY <2>1, <2>2, QuietLoaded DEF Loaded
<1>6. CASE load_pagedir
  <2>1. /\ pc \notin {"copy", "bss"} /\ pc' \notin {"copy", "bss"}
        /\ InProgress' => InProgress /\ UNCHANGED <<head, segs, seg, pages, mem>>
    BY <1>6 DEF load_pagedir, Raises, File, Space, InProgress, Ending
  <2>2. InProgress' => Position'
    BY <1>6, <2>1 DEF load_pagedir, Raises, IInv, Loaded, InProgress, Position, InSegment,
       BeforeLoad, AfterLoad, Ending
  <2> QED BY <2>1, <2>2, QuietLoaded DEF Loaded
<1>7. CASE load_spare
  <2>1. /\ pc \notin {"copy", "bss"} /\ pc' \notin {"copy", "bss"}
        /\ InProgress' => InProgress /\ UNCHANGED <<head, segs, seg, pages, mem>>
    BY <1>7 DEF load_spare, Raises, File, Space, InProgress, Ending
  <2>2. InProgress' => Position'
    BY <1>7, <2>1 DEF load_spare, Raises, IInv, Loaded, InProgress, Position, InSegment,
       BeforeLoad, AfterLoad, Ending
  <2> QED BY <2>1, <2>2, QuietLoaded DEF Loaded
<1>8. CASE elfparser_header
  <2>1. /\ pc \notin {"copy", "bss"} /\ pc' \notin {"copy", "bss"}
        /\ InProgress' => InProgress /\ UNCHANGED <<head, segs, seg, pages, mem>>
    BY <1>8 DEF elfparser_header, Raises, File, Space, InProgress, Ending
  <2>2. InProgress' => Position'
    BY <1>8, <2>1 DEF elfparser_header, Raises, IInv, Loaded, InProgress, Position, InSegment,
       BeforeLoad, AfterLoad, Ending
  <2> QED BY <2>1, <2>2, QuietLoaded DEF Loaded
<1>9. CASE elfloader_load_end
  <2>1. /\ pc \notin {"copy", "bss"} /\ pc' \notin {"copy", "bss"}
        /\ InProgress' => InProgress /\ UNCHANGED <<head, segs, seg, pages, mem>>
    BY <1>9 DEF elfloader_load_end, File, Space, InProgress, Ending
  <2>2. InProgress' => Position'
    BY <1>9, <2>1 DEF elfloader_load_end, IInv, Loaded, InProgress, Position, InSegment,
       BeforeLoad, AfterLoad, Ending
  <2> QED BY <2>1, <2>2, QuietLoaded DEF Loaded
<1>10. CASE cspace_configure
  <2>1. /\ pc \notin {"copy", "bss"} /\ pc' \notin {"copy", "bss"}
        /\ InProgress' => InProgress /\ UNCHANGED <<head, segs, seg, pages, mem>>
    BY <1>10 DEF cspace_configure, Raises, File, Space, InProgress, Ending
  <2>2. InProgress' => Position'
    BY <1>10, <2>1 DEF cspace_configure, Raises, IInv, Loaded, InProgress, Position, InSegment,
       BeforeLoad, AfterLoad, Ending
  <2> QED BY <2>1, <2>2, QuietLoaded DEF Loaded
<1>11. CASE exec_init
  <2>1. /\ pc \notin {"copy", "bss"} /\ pc' \notin {"copy", "bss"}
        /\ InProgress' => InProgress /\ UNCHANGED <<head, segs, seg, pages, mem>>
    BY <1>11 DEF exec_init, Raises, File, Space, InProgress, Ending
  <2>2. InProgress' => Position'
    BY <1>11, <2>1 DEF exec_init, Raises, IInv, Loaded, InProgress, Position, InSegment,
       BeforeLoad, AfterLoad, Ending
  <2> QED BY <2>1, <2>2, QuietLoaded DEF Loaded
<1>12. CASE exec_configure
  <2>1. /\ pc \notin {"copy", "bss"} /\ pc' \notin {"copy", "bss"}
        /\ InProgress' => InProgress /\ UNCHANGED <<head, segs, seg, pages, mem>>
    BY <1>12 DEF exec_configure, Raises, File, Space, InProgress, Ending
  <2>2. InProgress' => Position'
    BY <1>12, <2>1 DEF exec_configure, Raises, IInv, Loaded, InProgress, Position, InSegment,
       BeforeLoad, AfterLoad, Ending
  <2> QED BY <2>1, <2>2, QuietLoaded DEF Loaded
<1>13. CASE elfexec_start
  <2>1. /\ pc \notin {"copy", "bss"} /\ pc' \notin {"copy", "bss"}
        /\ InProgress' => InProgress /\ UNCHANGED <<head, segs, seg, pages, mem>>
    BY <1>13 DEF elfexec_start, Raises, File, Space, InProgress, Ending
  <2>2. InProgress' => Position'
    BY <1>13, <2>1 DEF elfexec_start, Raises, IInv, Loaded, InProgress, Position, InSegment,
       BeforeLoad, AfterLoad, Ending
  <2> QED BY <2>1, <2>2, QuietLoaded DEF Loaded
<1>14. CASE UndoLaunch
  BY <1>14 DEF UndoLaunch, Loaded, InProgress, Ending
<1>15. CASE Destroy
  BY <1>15 DEF Destroy, Loaded, InProgress, Ending
<1>16. CASE exec_stop
  BY <1>16 DEF exec_stop, Loaded, InProgress, Ending
<1>17. CASE exec_destroy
  BY <1>17 DEF exec_destroy, Loaded, InProgress, Ending
<1>18. CASE elfloader_unload
  BY <1>18 DEF elfloader_unload, Loaded, InProgress, Ending
<1>19. CASE elfexec_destroy_spaces
  BY <1>19 DEF elfexec_destroy_spaces, Loaded, InProgress, Ending
<1> QED BY <1>1, <1>2, <1>3, <1>4, <1>5, <1>6, <1>7, <1>8, <1>9, <1>10,
           <1>11, <1>12, <1>13, <1>14, <1>15, <1>16, <1>17, <1>18, <1>19

\* The loader looks at the next entry of the table.
LEMMA SegmentLoaded ==
  ASSUME IInv, elfparser_segment
  PROVE  Loaded'
<1>1. /\ pc = "segment" /\ UNCHANGED <<head, segs, pages, mem, errx>>
      /\ ~errx /\ seg \in Nat \ {0} /\ seg <= Len(segs) + 1 /\ Len(segs) \in Nat
      /\ Position /\ Pictures
  BY DEF elfparser_segment, File, Space, IInv, Typed, Accounts, ErrorsApart, Loaded,
         InProgress, Position, Ending
<1>2. CASE seg > Len(segs) /\ pc' = "unwind" /\ UNCHANGED seg
  <2>1. Position'
    BY <1>1, <1>2 DEF Position, InSegment, BeforeLoad, AfterLoad
  <2> QED BY <1>1, <1>2, <2>1, QuietLoaded DEF InProgress, Ending
<1>3. CASE seg \in 1..Len(segs) /\ ~segs[seg].load /\ seg' = seg + 1 /\ pc' = "segment"
  <2>1. Position'
    BY <1>1, <1>3 DEF Position, InSegment, BeforeLoad, AfterLoad
  <2>2. \A i \in 1..Len(segs) : segs[i].load => (i < seg' <=> i < seg)
    BY <1>1, <1>3
  <2>3. \A i \in 1..Len(segs), a \in Nat : Copied(i, a)' <=> Copied(i, a)
    BY <1>1, <1>3, <2>2 DEF Copied
  <2>4. Pictures'
    BY <1>1, <2>2, <2>3, SamePictures DEF Covers
  <2> QED BY <1>3, <2>1, <2>4 DEF Loaded, BssMapped
<1>4. CASE seg \in 1..Len(segs) /\ Malformed(segs[seg]) /\ pc' = "failed"
  BY <1>4 DEF Loaded, InProgress
<1>5. CASE /\ seg \in 1..Len(segs) /\ segs[seg].load /\ ~Malformed(segs[seg])
           /\ pc' = "copy" /\ seg' = seg /\ done' = 0
  <2>1. segs[seg].va \in Nat /\ segs[seg].stored \in Nat
    BY <1>5, SegmentFacts DEF IInv
  <2>2. Position'
    BY <1>1, <1>5, <2>1 DEF Position, InSegment, BeforeLoad, AfterLoad, Malformed
  <2>3. \A i \in 1..Len(segs), a \in Nat : Copied(i, a)' <=> Copied(i, a)
    BY <1>1, <1>5, <2>1 DEF Copied
  <2>4. Pictures'
    BY <1>1, <1>5, <2>3, SamePictures
  <2> QED BY <1>5, <2>2, <2>4 DEF Loaded, BssMapped
<1>6. /\ done' = 0
      /\ \/ seg > Len(segs) /\ pc' = "unwind" /\ UNCHANGED seg
         \/ ~(seg > Len(segs)) /\ ~segs[seg].load /\ seg' = seg + 1 /\ pc' = pc
         \/ ~(seg > Len(segs)) /\ segs[seg].load /\ Malformed(segs[seg]) /\ pc' = "failed"
         \/ /\ ~(seg > Len(segs)) /\ segs[seg].load /\ ~Malformed(segs[seg])
            /\ pc' = "copy" /\ seg' = seg
  <2>1. segs[seg].load \in BOOLEAN \/ seg > Len(segs)
    <3>1. seg > Len(segs) \/ seg \in 1..Len(segs)
      BY <1>1
    <3> QED BY <3>1, SegmentFacts DEF IInv
  <2> QED BY <2>1 DEF elfparser_segment
<1>7. seg > Len(segs) \/ seg \in 1..Len(segs)
  BY <1>1
<1> QED BY <1>1, <1>2, <1>3, <1>4, <1>5, <1>6, <1>7

\* The stored part of a segment is all copied: its pages are next.
LEMMA CopyDoneLoaded ==
  ASSUME IInv, pc = "copy", UNCHANGED <<head, segs>>, CopyDone
  PROVE  Loaded'
<1>1. /\ pc' = "bss" /\ UNCHANGED <<head, segs, seg, pages, mem, errx>>
      /\ done = segs[seg].stored /\ done' = 0
      /\ ~errx /\ Position /\ Pictures /\ InSegment(seg) /\ seg \in 1..Len(segs)
  BY CopyPlace DEF CopyDone, IInv, Loaded, InProgress, Ending
<1>2. segs[seg].va \in Nat /\ segs[seg].mem \in Nat
  BY <1>1, SegmentFacts DEF IInv
<1>3. \A i \in 1..Len(segs), a \in Nat : Copied(i, a)' <=> Copied(i, a)
  BY <1>1 DEF Copied
<1>4. Pictures'
  BY <1>1, <1>3, SamePictures
<1>6. Position'
  <2>1. done' = Base(0)
    BY <1>1, PagesAssumption DEF Base
  <2>2. \E d \in Nat : done' = Base(d) /\ (d = 0 \/ Page(segs[seg].va) + d <= PageCount)
    BY <2>1
  <2> QED BY <1>1, <2>2 DEF Position, InSegment, BeforeLoad, AfterLoad, Page
<1>7. BssMapped'
  <2> SUFFICES ASSUME NEW p \in Nat, Page(segs[seg].va) <= p,
                      Base(p) < Base(Page(segs[seg].va)) + 0
               PROVE  FALSE
    BY <1>1 DEF BssMapped, Page, Base
  <2>1. PICK v \in Nat : v = Page(segs[seg].va)
    BY <1>2, Paging
  <2>2. Base(v) <= Base(p) /\ Base(v) \in Nat
    BY <2>1, BaseOrder
  <2>3. Base(p) \in Nat
    BY BaseOrder
  <2> QED BY <2>1, <2>2, <2>3
<1> QED BY <1>4, <1>6, <1>7 DEF Loaded

\* The loader has mapped every page of a segment: it is in place.
LEMMA BssDoneLoaded ==
  ASSUME IInv, pc = "bss", UNCHANGED <<head, segs>>, BssDone
  PROVE  Loaded'
<1>1. /\ pc' = "segment" /\ UNCHANGED <<head, segs, pages, mem, errx>> /\ seg' = seg + 1
      /\ done >= SizeToMap(segs[seg])
      /\ ~errx /\ Position /\ Pictures /\ BssMapped /\ InSegment(seg)
      /\ seg \in 1..Len(segs) /\ Len(segs) \in Nat
  BY BssPlace DEF BssDone, IInv, Typed, Loaded, InProgress, Ending
<1>2. segs[seg].va \in Nat /\ segs[seg].mem \in Nat
  BY <1>1, SegmentFacts DEF IInv
<1>3. PICK d \in Nat : /\ done = Base(d)
                       /\ BssPage = Page(segs[seg].va) + d /\ BssPage \in Nat
                       /\ Whole(segs[seg]) =>
                            segs[seg].va + segs[seg].mem <= Base(BssPage)
  BY <1>1, BssPlace
<1>4. PICK v \in Nat : v = Page(segs[seg].va)
  BY <1>2, Paging
<1>5. ASSUME NEW a \in Nat, Covers(segs[seg], a), Whole(segs[seg])
      PROVE  Mapped(seg, Page(a))
  <2>1. segs[seg].va <= a /\ a < segs[seg].va + segs[seg].mem
    BY <1>2, <1>5 DEF Covers
  <2>2. PICK o \in 0..(PageSize - 1) : a = Base(Page(a)) + o
    BY Paging
  <2>3. PICK q \in Nat : q = Page(a) /\ Base(q) \in Nat
    BY Paging
  <2>4. v <= q
    <3>1. PICK o2 \in 0..(PageSize - 1) : segs[seg].va = Base(v) + o2
      BY <1>2, <1>4, Paging
    <3>2. q < v => Base(q) + PageSize <= Base(v)
      BY BaseOrder
    <3>3. Base(v) \in Nat
      BY BaseOrder
    <3> QED BY <1>2, <2>1, <2>2, <2>3, <3>1, <3>2, <3>3, PagesAssumption
  <2>5. Base(v) + Base(d) = Base(v + d)
    BY BaseOrder
  <2>6. Base(q) < Base(v) + done
    <3>1. Base(v) \in Nat /\ Base(d) \in Nat
      BY BaseOrder
    <3> QED BY <1>2, <1>3, <1>4, <1>5, <2>1, <2>2, <2>3, <2>5, <3>1, PagesAssumption
  <2> QED BY <1>1, <1>4, <2>3, <2>4, <2>6 DEF BssMapped
<1>6. Position'
  BY <1>1 DEF Position, InSegment, BeforeLoad, AfterLoad
<1>7. \A i \in 1..Len(segs) : i < seg' => i < seg \/ i = seg
  BY <1>1
<1>8. \A i \in 1..Len(segs), a \in Nat : Copied(i, a)' <=> Copied(i, a)
  BY <1>1 DEF Copied
<1>9. Pictures'
  BY <1>1, <1>5, <1>7, <1>8, SamePictures
<1> QED BY <1>1, <1>6, <1>9 DEF Loaded, BssMapped

\* A page got for a segment that lies in it.
LEMMA GotPictures ==
  ASSUME IInv, Pictures, UNCHANGED <<segs, seg>>,
         NEW p \in Pages, NEW flags, NEW exclusive, PageGot(p, flags, exclusive),
         \A a \in Nat : Page(a) \in DOMAIN pages' => UnitIs(a, Unit(a))',
         \A i \in 1..Len(segs), a \in Nat :
            Copied(i, a)' => Copied(i, a) \/ (Page(a) = p /\ segs[i].flags = flags),
         p # IpcPage => PageWanted(p)
  PROVE  Pictures'
<1>1. /\ DOMAIN pages' = DOMAIN pages \cup {p} /\ pages'[p] = flags
      /\ \A q \in DOMAIN pages : pages'[q] = pages[q]
  BY GotPage
<1>2. Contents'
  BY DEF Contents, Page
<1>3. CopiedMapped'
  BY <1>1 DEF Pictures, CopiedMapped, Mapped, Page
<1>4. LoadedMapped'
  BY <1>1 DEF Pictures, LoadedMapped, Mapped, Page, Covers, Whole, Correction
<1>5. PagesWanted'
  BY <1>1 DEF Pictures, PagesWanted, PageWanted, Reaches
<1> QED BY <1>2, <1>3, <1>4, <1>5 DEF Pictures

\* The addresses that a turn of the copying loop fills: n units of one page.
LEMMA CopyRange ==
  ASSUME IInv, pc = "copy", done < segs[seg].stored, NEW a \in Nat
  PROVE  /\ CopyAt <= a /\ a < CopyAt + CopyCount <=>
              /\ Page(a) = Page(CopyAt)
              /\ a % PageSize \in CopyOffset..(CopyOffset + CopyCount - 1)
         /\ Page(a) = Page(CopyAt) => a - CopyAt = (a % PageSize) - CopyOffset
<1>1. /\ CopyAt \in Nat /\ CopyOffset \in 0..(PageSize - 1) /\ CopyCount \in Nat \ {0}
      /\ CopyOffset + CopyCount <= PageSize
  BY CopyPlace
<1>2. PICK p \in Nat : p = Page(CopyAt) /\ Base(p) \in Nat /\ CopyAt = Base(p) + CopyOffset
  BY <1>1, Paging DEF CopyOffset
<1>3. PICK o \in 0..(PageSize - 1) : o = a % PageSize /\ a = Base(Page(a)) + o
  BY Paging
<1>4. Page(a) = p => a = Base(p) + o
  BY <1>3
<1>5. CopyAt <= a /\ a < CopyAt + CopyCount => Page(a) = p
  <2> SUFFICES ASSUME CopyAt <= a, a < CopyAt + CopyCount PROVE Page(a) = p
    OBVIOUS
  <2>1. Base(p) <= a /\ a < Base(p) + PageSize
    BY <1>1, <1>2, PagesAssumption
  <2> QED BY <2>1, PageOf
<1> QED BY <1>1, <1>2, <1>3, <1>4, <1>5, PagesAssumption

\* What the loop has copied after a turn.
LEMMA CopiedByTurn ==
  ASSUME IInv, pc = "copy", UNCHANGED <<head, segs>>, CopyTurn(Page(CopyAt)),
         NEW i \in 1..Len(segs), NEW a \in Nat
  PROVE  Copied(i, a)' <=> \/ Copied(i, a)
                           \/ i = seg /\ CopyAt <= a /\ a < CopyAt + CopyCount
<1>1. /\ seg \in 1..Len(segs) /\ segs[seg].load /\ done \in Nat /\ done < segs[seg].stored
      /\ CopyCount \in Nat /\ CopyCount <= segs[seg].stored - done
  BY CopyPlace DEF CopyTurn, InSegment
<1>2. /\ segs[seg].va \in Nat /\ segs[seg].stored \in Nat
  BY <1>1, SegmentFacts DEF IInv
<1>3. pc' = "copy" /\ done' = done + CopyCount /\ seg' = seg
  BY DEF CopyTurn
<1>4. CASE i = seg
  <2>1. Copied(seg, a) <=> /\ segs[seg].va <= a /\ a < segs[seg].va + segs[seg].stored
                           /\ a < segs[seg].va + done
    BY <1>1 DEF Copied, IInv, Typed
  <2>2. segs' = segs /\ pc' = "copy" /\ pc = "copy" /\ ~(seg < seg)
    BY <1>1, <1>3
  <2>3. Copied(i, a)' <=> /\ segs[seg].va <= a /\ a < segs[seg].va + segs[seg].stored
                          /\ a < segs[seg].va + (done + CopyCount)
    BY <1>1, <1>3, <1>4, <2>2 DEF Copied
  <2>4. segs[seg].va + done = CopyAt
    BY DEF CopyAt
  <2>5. /\ a < segs[seg].va + (done + CopyCount) => a < segs[seg].va + segs[seg].stored
        /\ a < segs[seg].va + done => a < segs[seg].va + (done + CopyCount)
        /\ a < segs[seg].va + (done + CopyCount) <=> a < CopyAt + CopyCount
        /\ ~(a < segs[seg].va + done) <=> CopyAt <= a
        /\ CopyAt <= a => segs[seg].va <= a
    BY <1>1, <1>2, <2>4
  <2> QED BY <1>4, <2>1, <2>3, <2>5
<1>5. CASE i # seg
  BY <1>1, <1>3, <1>5 DEF Copied
<1> QED BY <1>4, <1>5

LEMMA CopyTurnLoaded ==
  ASSUME IInv, pc = "copy", UNCHANGED <<head, segs>>, CopyTurn(Page(CopyAt))
  PROVE  Loaded'
<1> DEFINE p == Page(CopyAt)
<1>1. /\ pc' = "copy" /\ UNCHANGED <<head, segs, seg, errx>> /\ done' = done + CopyCount
      /\ ~errx /\ Position /\ Pictures /\ InSegment(seg) /\ seg \in 1..Len(segs)
      /\ done \in Nat /\ done < segs[seg].stored /\ p \in Pages /\ CopyAt \in Nat
      /\ CopyOffset \in 0..(PageSize - 1) /\ CopyOffset + CopyCount <= PageSize
      /\ segs[seg].stored <= segs[seg].mem
      /\ CopyCount \in Nat \ {0} /\ CopyCount <= segs[seg].stored - done
      /\ PageGot(p, segs[seg].flags, FALSE)
  BY CopyPlace DEF CopyTurn, PageMoves, IInv, Loaded, InProgress, Ending
<1>2. /\ segs[seg].va \in Nat /\ segs[seg].stored \in Nat /\ segs[seg].off \in Nat
      /\ segs[seg].mem \in Nat
  BY <1>1, SegmentFacts DEF IInv
<1>3. DOMAIN pages' = DOMAIN pages \cup {p} /\ DOMAIN NewMem(p) = DOMAIN pages'
  BY <1>1, NewMemDomain, GotPage
<1>4. ASSUME NEW a \in Nat, Page(a) \in DOMAIN pages'
      PROVE  UnitIs(a, Unit(a))'
  <2>1. UnitIs(a, NewMem(p)[Page(a)][a % PageSize])
    BY <1>1, <1>4, GotPage
  <2>2. a % PageSize \in 0..(PageSize - 1)
    BY Paging
  <2>3. CASE CopyAt <= a /\ a < CopyAt + CopyCount
    <3>1. Page(a) = p /\ a % PageSize \in CopyOffset..(CopyOffset + CopyCount - 1)
      BY <1>1, <2>3, CopyRange
    <3>2. mem'[p] = [u \in 0..(PageSize - 1) |->
               IF u \in CopyOffset..(CopyOffset + CopyCount - 1)
               THEN segs[seg].off + done + u - CopyOffset ELSE NewMem(p)[p][u]]
      BY <1>3 DEF CopyTurn, CopyWrites
    <3>3. Unit(a)' = segs[seg].off + done + (a % PageSize) - CopyOffset
      BY <2>2, <3>1, <3>2 DEF Unit, Page
    <3>4. a - CopyAt = (a % PageSize) - CopyOffset
      BY <1>1, <3>1, CopyRange
    <3>5. PICK o \in 0..(PageSize - 1) : o = a % PageSize
      BY <2>2
    <3>6. Unit(a)' = segs[seg].off + a - segs[seg].va
      <4>1. CopyOffset \in Nat
        BY <1>1, CopyPlace, PagesAssumption
      <4>2. PICK c \in Nat : c = CopyOffset
        BY <4>1
      <4>3. a - (segs[seg].va + done) = o - c
        BY <3>4, <3>5, <4>2 DEF CopyAt
      <4>4. Unit(a)' = segs[seg].off + done + o - c
        BY <3>3, <3>5, <4>2
      <4>5. done \in Nat
        BY <1>1
      <4>6. o \in Nat
        BY <3>5, PagesAssumption
      <4> QED BY <1>2, <4>3, <4>4, <4>5, <4>6
    <3>7. Copied(seg, a)'
      BY <1>1, <2>3, CopiedByTurn
    <3> QED BY <1>1, <3>6, <3>7 DEF UnitIs
  <2>4. CASE ~(CopyAt <= a /\ a < CopyAt + CopyCount)
    <3>1. ~(Page(a) = p /\ a % PageSize \in CopyOffset..(CopyOffset + CopyCount - 1))
      BY <1>1, <2>4, CopyRange
    <3>2. mem' = [NewMem(p) EXCEPT ![p] =
            [u \in 0..(PageSize - 1) |->
               IF u \in CopyOffset..(CopyOffset + CopyCount - 1)
               THEN segs[seg].off + done + u - CopyOffset ELSE NewMem(p)[p][u]]]
      BY DEF CopyTurn, CopyWrites
    <3>3. mem'[Page(a)][a % PageSize] = NewMem(p)[Page(a)][a % PageSize]
      <4>1. CASE Page(a) = p
        <5>1. mem'[p] = [u \in 0..(PageSize - 1) |->
               IF u \in CopyOffset..(CopyOffset + CopyCount - 1)
               THEN segs[seg].off + done + u - CopyOffset ELSE NewMem(p)[p][u]]
          BY <1>3, <3>2
        <5> HIDE DEF p
        <5> QED BY <2>2, <3>1, <4>1, <5>1
      <4>2. CASE Page(a) # p
        BY <1>3, <1>4, <3>2, <4>2
      <4> QED BY <4>1, <4>2
    <3>4. \A i \in 1..Len(segs) : Copied(i, a)' <=> Copied(i, a)
      BY <2>4, CopiedByTurn
    <3> QED BY <1>1, <2>1, <3>3, <3>4 DEF UnitIs, Unit, Page
  <2> QED BY <2>3, <2>4
<1>5. ASSUME NEW i \in 1..Len(segs), NEW a \in Nat, Copied(i, a)'
      PROVE  Copied(i, a) \/ (Page(a) = p /\ segs[i].flags = segs[seg].flags)
  <2>0. Copied(i, a)' <=> \/ Copied(i, a)
                          \/ i = seg /\ CopyAt <= a /\ a < CopyAt + CopyCount
    BY CopiedByTurn
  <2>1. Copied(i, a) \/ (i = seg /\ CopyAt <= a /\ a < CopyAt + CopyCount)
    BY <1>5, <2>0
  <2>2. CASE CopyAt <= a /\ a < CopyAt + CopyCount
    <3>1. Page(a) = p
      BY <1>1, <2>2, CopyRange
    <3> QED BY <2>1, <3>1
  <2> QED BY <2>1, <2>2
<1>6. PICK q \in Nat : /\ q = p /\ Base(q) \in Nat /\ CopyAt = Base(q) + CopyOffset
                       /\ Base(q + 1) = Base(q) + PageSize
  BY <1>1, Paging, BaseOrder DEF CopyOffset
<1>7. PageWanted(p)
  <2>1. segs[seg].load
    BY <1>1 DEF InSegment
  <2>2. CopyAt < segs[seg].va + segs[seg].mem /\ segs[seg].va <= CopyAt
    BY <1>1, <1>2 DEF CopyAt
  <2>3. Base(q) < segs[seg].va + segs[seg].mem /\ segs[seg].va < Base(q + 1)
    <3>1. PICK c \in 0..(PageSize - 1) : c = CopyOffset
      BY <1>1
    <3>2. CopyAt = Base(q) + c
      BY <1>6, <3>1
    <3> QED BY <1>2, <1>6, <2>2, <3>1, <3>2, PagesAssumption
  <2> QED BY <1>1, <1>6, <2>1, <2>3 DEF PageWanted, Reaches, Base
<1> HIDE DEF p
<1>8. Pictures'
  BY <1>1, <1>4, <1>5, <1>7, GotPictures
<1>9. Position'
  <2>1. done' <= segs[seg].stored
    BY <1>1, <1>2
  <2>2. Base(q + 1) <= Base(PageCount)
    <3>1. q + 1 <= PageCount
      BY <1>1, <1>6, PagesAssumption DEF Pages
    <3> QED BY <3>1, BaseOrder, PagesAssumption
  <2>3. segs[seg].va + done' <= Base(q + 1)
    <3>1. PICK c \in Nat, n \in Nat : /\ c = CopyOffset /\ n = CopyCount
                                     /\ c + n <= PageSize /\ done' = done + n
      BY <1>1, PagesAssumption
    <3>2. segs[seg].va + done = Base(q) + c
      BY <1>6, <3>1 DEF CopyAt
    <3> QED BY <1>1, <1>2, <1>6, <3>1, <3>2, PagesAssumption
  <2>4. Base(PageCount) \in Nat
    BY BaseOrder, PagesAssumption
  <2>5. segs[seg].va + done' <= Base(PageCount)
    <3>1. PICK x \in Nat : x = segs[seg].va + done'
      BY <1>1, <1>2
    <3> QED BY <1>6, <2>2, <2>3, <2>4, <3>1, PagesAssumption
  <2> QED BY <1>1, <2>1, <2>5 DEF Position, InSegment, BeforeLoad, AfterLoad, Base
<1> QED BY <1>1, <1>8, <1>9 DEF Loaded, BssMapped

LEMMA BssTurnLoaded ==
  ASSUME IInv, pc = "bss", UNCHANGED <<head, segs>>, BssTurn(BssPage)
  PROVE  Loaded'
<1>1. /\ pc' = "bss" /\ UNCHANGED <<head, segs, seg, errx>>
      /\ done' = (done + PageSize) % Word
      /\ done < SizeToMap(segs[seg])
      /\ ~errx /\ Position /\ Pictures /\ BssMapped /\ InSegment(seg)
      /\ seg \in 1..Len(segs) /\ BssPage \in Pages
      /\ PageGot(BssPage, segs[seg].flags, FALSE) /\ mem' = NewMem(BssPage)
  BY BssPlace DEF BssTurn, PageMoves, IInv, Loaded, InProgress, Ending
<1>2. segs[seg].va \in Nat /\ segs[seg].mem \in Nat
  BY <1>1, SegmentFacts DEF IInv
<1>3. PICK d \in Nat : /\ done = Base(d) /\ BssPage = Page(segs[seg].va) + d
                       /\ Base(BssPage) < segs[seg].va + segs[seg].mem
                       /\ (done + PageSize) % Word = Base(d + 1)
  BY <1>1, BssPlace
<1>4. PICK v \in Nat : v = Page(segs[seg].va)
  BY <1>2, Paging
<1>5. PICK p \in Nat : p = BssPage /\ p = v + d /\ p \in Pages
  BY <1>1, <1>3, <1>4
<1>6. /\ DOMAIN pages' = DOMAIN pages \cup {p} /\ pages'[p] = segs[seg].flags
      /\ \A q \in DOMAIN pages : pages'[q] = pages[q]
  BY <1>1, <1>5, GotPage
<1>7. \A i \in 1..Len(segs), a \in Nat : Copied(i, a)' <=> Copied(i, a)
  BY <1>1 DEF Copied
<1>8. ASSUME NEW a \in Nat, Page(a) \in DOMAIN pages'
      PROVE  UnitIs(a, Unit(a))'
  <2>1. UnitIs(a, NewMem(BssPage)[Page(a)][a % PageSize])
    BY <1>1, <1>8, GotPage
  <2> QED BY <1>1, <1>7, <2>1 DEF UnitIs, Unit, Page
<1>9. PageWanted(p)
  <2>1. PICK o \in 0..(PageSize - 1) : segs[seg].va = Base(v) + o
    BY <1>2, <1>4, Paging
  <2>2. /\ Base(v) \in Nat /\ Base(p) \in Nat /\ Base(v) <= Base(p)
        /\ Base(p + 1) = Base(p) + PageSize
    <3>1. v <= p
      BY <1>5
    <3> QED BY <3>1, BaseOrder
  <2>3. segs[seg].va < Base(p + 1)
    BY <2>1, <2>2, PagesAssumption
  <2> QED BY <1>1, <1>3, <1>5, <2>3 DEF PageWanted, Reaches, InSegment, Base
<1>10. Pictures'
  BY <1>1, <1>5, <1>7, <1>8, <1>9, GotPictures
<1>11. Position'
  <2>1. done' = Base(d + 1) /\ d + 1 \in Nat
    BY <1>1, <1>3
  <2>2. v + (d + 1) <= PageCount
    BY <1>5, PagesAssumption DEF Pages
  <2>3. \E e \in Nat : done' = Base(e) /\ (e = 0 \/ Page(segs[seg].va) + e <= PageCount)
    BY <1>4, <2>1, <2>2
  <2> QED BY <1>1, <2>3 DEF Position, InSegment, BeforeLoad, AfterLoad, Page, Base
<1>12. BssMapped'
  <2> SUFFICES ASSUME NEW q \in Nat, v <= q, Base(q) < Base(v) + done'
               PROVE  Mapped(seg, q)'
    BY <1>1, <1>4 DEF BssMapped, Page, Base
  <2>0. done' = done + PageSize
    BY <1>1, <1>3, BaseOrder
  <2>1. CASE q = p
    BY <1>1, <1>6, <2>1 DEF Mapped
  <2>2. CASE q < p
    <3>1. Base(q) + PageSize <= Base(p)
      BY <2>2, BaseOrder
    <3>2. Base(q) \in Nat
      BY BaseOrder
    <3>3. Base(v) + Base(d) = Base(p)
      BY <1>5, BaseOrder
    <3>4. Base(p) \in Nat
      BY BaseOrder
    <3>5. Base(q) < Base(v) + done
      BY <1>3, <3>1, <3>2, <3>3, <3>4, PagesAssumption
    <3>6. Mapped(seg, q)
      BY <1>1, <1>4, <3>5 DEF BssMapped
    <3> QED BY <1>1, <1>6, <3>6 DEF Mapped
  <2>3. CASE q > p
    <3>1. Base(p) + PageSize <= Base(q)
      BY <2>3, BaseOrder
    <3>2. Base(q) \in Nat
      BY BaseOrder
    <3>3. Base(v) + Base(d) = Base(p)
      BY <1>5, BaseOrder
    <3>4. Base(v) \in Nat
      BY BaseOrder
    <3>5. Base(d) \in Nat
      BY BaseOrder
    <3> QED BY <1>3, <2>0, <3>1, <3>2, <3>3, <3>4, <3>5, PagesAssumption
  <2> QED BY <2>1, <2>2, <2>3
<1> QED BY <1>10, <1>11, <1>12 DEF Loaded

\* The page of the IPC buffer is new: no segment had anything in it.
LEMMA IpcLoaded ==
  ASSUME IInv, elfexec_ipc_page
  PROVE  Loaded'
<1>1. /\ pc = "ipc" /\ ~errx /\ UNCHANGED <<head, segs, seg, done>>
      /\ \/ pc' = "destroy"
         \/ /\ pc' = "cspace"
            /\ PageGot(IpcPage, "rw-", TRUE) /\ mem' = NewMem(IpcPage)
  BY IpcSteps
<1>2. CASE pc' = "destroy"
  BY <1>2 DEF Loaded, InProgress, Ending
<1>3. CASE /\ pc' = "cspace"
           /\ PageGot(IpcPage, "rw-", TRUE) /\ mem' = NewMem(IpcPage)
  <2>1. Position /\ Pictures
    BY <1>1 DEF IInv, Loaded, InProgress, Ending
  <2>2. \A i \in 1..Len(segs), a \in Nat : Copied(i, a)' <=> Copied(i, a)
    BY <1>1, <1>3 DEF Copied
  <2>3. ASSUME NEW a \in Nat, Page(a) \in DOMAIN pages'
        PROVE  UnitIs(a, Unit(a))'
    <3>1. UnitIs(a, NewMem(IpcPage)[Page(a)][a % PageSize])
      BY <1>3, <2>1, <2>3, GotPage, PagesAssumption
    <3> QED BY <1>1, <1>3, <2>2, <3>1 DEF UnitIs, Unit, Page
  <2>4. Pictures'
    BY <1>1, <1>3, <2>1, <2>2, <2>3, GotPictures, PagesAssumption
  <2>5. Position'
    BY <1>1, <1>3, <2>1 DEF Position, InSegment, BeforeLoad, AfterLoad
  <2> QED BY <1>3, <2>4, <2>5 DEF Loaded, BssMapped
<1> QED BY <1>1, <1>2, <1>3

LEMMA LoadedKept ==
  ASSUME IInv, [Next]_vars
  PROVE  Loaded'
<1>1. CASE UNCHANGED vars
  <2>1. InProgress' <=> InProgress
    BY <1>1 DEF vars, InProgress
  <2>2. CASE InProgress
    <3>1. Position /\ Pictures /\ BssMapped
      BY <2>2 DEF IInv, Loaded
    <3>2. \A i \in 1..Len(segs), a \in Nat : Copied(i, a)' <=> Copied(i, a)
      BY <1>1 DEF vars, Copied
    <3>3. Pictures'
      BY <1>1, <3>1, <3>2, SamePictures DEF vars
    <3>4. Position'
      BY <1>1, <3>1 DEF vars, Position, InSegment, Page, Base
    <3>5. BssMapped'
      BY <1>1, <3>1 DEF vars, BssMapped, Mapped, Page, Base
    <3> QED BY <3>3, <3>4, <3>5 DEF Loaded
  <2> QED BY <2>1, <2>2 DEF Loaded
<1>2. CASE elfparser_segment
  BY <1>2, SegmentLoaded
<1>3. CASE copy_via_remapper
  <2>1. CASE CopyDone
    BY <1>3, <2>1, CopySteps, CopyDoneLoaded
  <2>2. CASE Failed \/ Refused(Page(CopyAt))
    BY <2>2 DEF Failed, Refused, Loaded, InProgress
  <2>3. CASE CopyTurn(Page(CopyAt))
    BY <1>3, <2>3, CopySteps, CopyTurnLoaded
  <2> QED BY <1>3, <2>1, <2>2, <2>3, CopySteps
<1>4. CASE elfparser_bss
  <2>1. CASE BssDone
    BY <1>4, <2>1, BssSteps, BssDoneLoaded
  <2>2. CASE Failed \/ Refused(BssPage)
    BY <2>2 DEF Failed, Refused, Loaded, InProgress
  <2>3. CASE BssTurn(BssPage)
    BY <1>4, <2>3, BssSteps, BssTurnLoaded
  <2> QED BY <1>4, <2>1, <2>2, <2>3, BssSteps
<1>5. CASE elfexec_ipc_page
  BY <1>5, IpcLoaded
<1> QED BY <1>1, <1>2, <1>3, <1>4, <1>5, OthersLoaded DEF Next

-----------------------------------------------------------------------------
\* Before the launch nothing is held.
LEMMA InitIInv == Init => IInv
<1> SUFFICES ASSUME Init PROVE IInv
  OBVIOUS
<1>1. Typed
  <2>1. head \in Headers
    <3>1. GoodHeader \in Headers
      BY FileAssumption DEF GoodHeader, Headers
    <3> QED BY <3>1 DEF Init
  <2>2. segs \in Seq(Segments)
    <3>1. CASE segs = <<>>
      BY <3>1
    <3>2. CASE segs \in Images
      <4>1. PICK n \in 1..SegmentsMax : segs \in [1..n -> Segments]
        BY <3>2 DEF Images
      <4>2. n \in Nat
        BY SegmentsAssumption
      <4> QED BY <4>1, <4>2
    <3> QED BY <3>1, <3>2 DEF Init
  <2>3. pc = "launch" /\ seg = 1 /\ done = 0 /\ window = NoPage /\ thread = "none"
    BY DEF Init
  <2>4. objs = {} /\ slots = {} /\ zone = FALSE /\ errx = FALSE
    BY DEF Init
  <2>5. pc \in BeforeLoad
    BY <2>3 DEF BeforeLoad
  <2>6. slots \subseteq {"minted", "spare"} /\ errx \in BOOLEAN /\ zone \in BOOLEAN
    BY <2>4
  <2>7. seg \in Nat \ {0} /\ done \in Nat /\ thread \in {"none", "stopped", "running"}
    BY <2>3
  <2> QED BY <2>1, <2>2, <2>5, <2>6, <2>7 DEF Typed
<1>2. DOMAIN pages = {} /\ DOMAIN mem = {}
  BY DEF Init
<1>3. Accounts
  <2>1. BlocksHeld
    BY DEF Init, BlocksHeld, HoldsContext, HasPd, HasThread, Loading, AfterLoad
  <2>2. ObjectsHeld
    BY <1>2 DEF Init, ObjectsHeld, HoldsPd, HoldsCspace, HasThread
  <2>3. OthersHeld
    BY DEF Init, OthersHeld, HoldsZone, Loading
  <2>4. PagesHeld
    BY <1>2 DEF Init, PagesHeld
  <2>5. ThreadHeld
    BY DEF Init, ThreadHeld, HasThread
  <2>6. ErrorsApart
    BY DEF Init, ErrorsApart, OneError
  <2> QED BY <2>1, <2>2, <2>3, <2>4, <2>5, <2>6 DEF Accounts
<1>4. Loaded
  <2>1. \A i \in 1..Len(segs) : ~(i < seg)
    BY <1>1 DEF Init, Typed
  <2>2. \A i \in 1..Len(segs), a \in Nat : ~Copied(i, a)
    BY <2>1 DEF Init, Copied
  <2>3. Position
    BY <1>1, <1>2, <2>1 DEF Init, Typed, Position, AfterLoad
  <2>4. Pictures
    BY <1>2, <2>1, <2>2 DEF Pictures, Contents, CopiedMapped, LoadedMapped, PagesWanted
  <2> QED BY <2>3, <2>4 DEF Loaded, BssMapped, Init
<1> QED BY <1>1, <1>3, <1>4 DEF IInv

\* After any number of steps of a launch, each refused or not: what is held is
\* in the books, and what is in the pages is what the segments put there.
THEOREM LaunchSound == Spec => []IInv
<1>1. IInv /\ [Next]_vars => IInv'
  BY AccountsKept, LoadedKept DEF IInv
<1> QED BY <1>1, InitIInv, PTL DEF Spec

\* A launch that is refused at any step, or a program destroyed, leaves nothing
\* behind, and no error is raised while another is pending.
THEOREM FailureCorrect == Spec => []FailsCleanly
<1>1. IInv => FailsCleanly
  <2> SUFFICES ASSUME IInv PROVE FailsCleanly
    OBVIOUS
  <2>1. OneError
    BY DEF IInv, Accounts, ErrorsApart
  <2>2. ASSUME pc = "gone"
        PROVE  /\ objs = {} /\ blocks = {} /\ slots = {} /\ ~zone
               /\ pts = {} /\ DOMAIN pages = {}
               /\ window = NoPage /\ alt = NoPage /\ thread = "none"
    <3>1. ~HasPd /\ ~HasThread /\ ~HoldsContext
      BY <2>2 DEF IInv, Accounts, BlocksHeld, HoldsContext, Loading, AfterLoad
    <3>2. pts = {} /\ DOMAIN pages = {}
      BY <3>1 DEF IInv, Accounts, PagesHeld
    <3>3. blocks = {}
      BY <3>1, <3>2 DEF IInv, Accounts, BlocksHeld, Blocks, HasPd, HasThread
    <3>4. objs = {}
      BY <2>2, <3>1, <3>2 DEF IInv, Accounts, ObjectsHeld, Objects, Singles,
                              HoldsPd, HoldsCspace
    <3>5. slots = {} /\ ~zone /\ window = NoPage /\ alt = NoPage
      BY <2>2 DEF IInv, Typed, Accounts, OthersHeld, HoldsZone, Loading
    <3>6. thread = "none"
      BY <2>2 DEF IInv, Accounts, ThreadHeld
    <3> QED BY <3>2, <3>3, <3>4, <3>5, <3>6
  <2> QED BY <2>1, <2>2 DEF FailsCleanly, GivesBackAll
<1> QED BY <1>1, LaunchSound, PTL

-----------------------------------------------------------------------------
(* The image in place. *)

\* The checks of the header leave no table that wraps.
LEMMA TableFits ==
  ASSUME NEW h \in Headers, HeaderAccepted(h)
  PROVE  FileAt + h.phoff + h.size * h.count <= End
<1>1. /\ h.phoff \in 0..(Word - 1) /\ h.size \in 0..HalfMax /\ h.count \in 0..HalfMax
  BY DEF Headers
<1>2. FileAt \in Nat /\ Word \in Nat /\ FileAt < Word /\ End < Word /\ HalfMax \in Nat
  BY FileAssumption DEF End
<1>9. End \in Nat
  BY FileAssumption DEF End
<1>3. h.size * h.count \in Nat /\ h.size * h.count < Word
  <2>1. PICK m \in 0..HalfMax, n \in 0..HalfMax : m = h.size /\ n = h.count
    BY <1>1
  <2>2. m * n <= HalfMax * n
    BY <1>2
  <2>3. HalfMax * n <= HalfMax * HalfMax
    BY <1>2
  <2>4. m * n \in Nat /\ HalfMax * n \in Nat /\ HalfMax * HalfMax \in Nat
    BY <1>2
  <2> QED BY <2>1, <2>2, <2>3, <2>4, FileAssumption
<1>4. PICK t \in Nat : t = h.size * h.count /\ t < Word
  BY <1>3
<1>5. TablePointer(h) = FileAt + h.phoff
  <2>1. FileAt + h.phoff \in Nat /\ FileAt + h.phoff < 2 * Word
    BY <1>1, <1>2
  <2>4. PICK x \in Nat : x = FileAt + h.phoff /\ x < 2 * Word
    BY <2>1
  <2>5. x % Word = IF x < Word THEN x ELSE x - Word
    BY <2>4, WrapsOnce
  <2>2. \/ TablePointer(h) = FileAt + h.phoff
        \/ TablePointer(h) = FileAt + h.phoff - Word
    BY <1>1, <1>2, <2>4, <2>5 DEF TablePointer
  <2>3. TablePointer(h) > FileAt
    BY DEF HeaderAccepted
  <2> QED BY <1>1, <1>2, <2>2, <2>3
<1>6. PICK s \in Nat : s = TablePointer(h) /\ s <= End
  BY <1>1, <1>2, <1>5 DEF HeaderAccepted
<1>7. TableEnd(h) = s + t
  <2>1. s + t \in Nat /\ s + t < 2 * Word
    BY <1>2, <1>4, <1>6, <1>9
  <2>4. PICK x \in Nat : x = s + t /\ x < 2 * Word
    BY <2>1
  <2>5. x % Word = IF x < Word THEN x ELSE x - Word
    BY <2>4, WrapsOnce
  <2>6. TableEnd(h) = x % Word
    BY <1>4, <1>6, <2>4 DEF TableEnd
  <2>2. TableEnd(h) = s + t \/ TableEnd(h) = s + t - Word
    BY <1>2, <1>4, <1>6, <2>4, <2>5, <2>6
  <2>3. TableEnd(h) > s
    BY <1>6 DEF HeaderAccepted
  <2> QED BY <1>2, <1>4, <1>6, <2>2, <2>3
<1> QED BY <1>4, <1>5, <1>6, <1>7 DEF HeaderAccepted

\* The only segment at an address is what a unit there holds.
LEMMA BytesLoaded ==
  ASSUME IInv, pc \in {"start", "running"}, NEW a \in 0..(Word - 1)
  PROVE  LoadedByte(a)
<1> DEFINE S == {i \in DOMAIN segs : Covers(segs[i], a)}
<1> SUFFICES ASSUME Cardinality(S) = 1
             PROVE  LET s == segs[CHOOSE i \in S : TRUE]
                        p == a \div PageSize
                    IN  /\ Whole(s) \/ a < s.va + s.stored =>
                             p \in DOMAIN pages /\ pages[p] = s.flags
                        /\ p \in DOMAIN pages =>
                             mem[p][a % PageSize] =
                               IF a < s.va + s.stored THEN s.off + a - s.va ELSE Zero
  BY DEF LoadedByte
<1>0. a \in Nat
  BY FileAssumption
<1>1. segs \in Seq(Segments) /\ Len(segs) \in Nat /\ DOMAIN segs = 1..Len(segs)
  BY DEF IInv, Typed
<1>2. IsFiniteSet(S)
  <2>1. IsFiniteSet(1..Len(segs))
    BY <1>1, FS_Interval
  <2>2. S \subseteq 1..Len(segs)
    BY <1>1
  <2> QED BY <2>1, <2>2, FS_Subset
<1>3. PICK i : S = {i}
  BY <1>2, FS_Singleton
<1>4. (CHOOSE j \in S : TRUE) = i
  BY <1>3
<1>5. i \in 1..Len(segs) /\ Covers(segs[i], a)
  BY <1>1, <1>3
<1>6. Position /\ Pictures /\ ~errx /\ seg = Len(segs) + 1
  BY DEF IInv, Accounts, ErrorsApart, Loaded, InProgress, Position, Ending, AfterLoad
<1>7. i < seg
  BY <1>1, <1>5, <1>6
<1>9. /\ segs[i].va \in Nat /\ segs[i].stored \in Nat /\ segs[i].mem \in Nat
      /\ segs[i].load /\ segs[i].va <= a
  BY <1>0, <1>5, SegmentFacts DEF IInv, Covers
<1>10. Copied(i, a) <=> a < segs[i].va + segs[i].stored
  BY <1>5, <1>7, <1>9 DEF Copied
<1>8. Whole(segs[i]) \/ a < segs[i].va + segs[i].stored => Mapped(i, Page(a))
  BY <1>0, <1>5, <1>6, <1>7, <1>10 DEF Pictures, LoadedMapped, CopiedMapped
<1>11. ASSUME NEW j \in 1..Len(segs), Copied(j, a)
       PROVE  j = i
  <2>1. segs[j].load /\ segs[j].va <= a /\ a < segs[j].va + segs[j].stored
    BY <1>11 DEF Copied
  <2>2. /\ segs[j].va \in Nat /\ segs[j].stored \in Nat /\ segs[j].mem \in Nat
    BY SegmentFacts DEF IInv
  <2>3. j < seg
    BY <1>1, <1>6
  <2>4. segs[j].stored <= segs[j].mem
    BY <1>6, <2>1, <2>2, <2>3 DEF Position, Malformed
  <2>5. a \in segs[j].va..(segs[j].va + segs[j].mem - 1)
    BY <1>0, <2>1, <2>2, <2>4
  <2>6. j \in S
    BY <1>1, <2>1, <2>5 DEF Covers
  <2> QED BY <1>3, <2>6
<1>13. Page(a) \in DOMAIN pages =>
         Unit(a) = IF a < segs[i].va + segs[i].stored
                   THEN segs[i].off + a - segs[i].va ELSE Zero
  <2> SUFFICES ASSUME Page(a) \in DOMAIN pages
               PROVE  Unit(a) = IF a < segs[i].va + segs[i].stored
                                THEN segs[i].off + a - segs[i].va ELSE Zero
    OBVIOUS
  <2>1. UnitIs(a, Unit(a))
    BY <1>0, <1>6 DEF Pictures, Contents
  <2> QED BY <1>5, <1>10, <1>11, <2>1 DEF UnitIs
<1> HIDE DEF S
<1> QED BY <1>4, <1>8, <1>13 DEF Mapped, Unit, Page

\* Whatever the table of segments says, a program that starts finds every
\* segment whose size does not wrap in place, the stored part of the others,
\* and no page that no segment reaches; what it runs in stays as long as it
\* runs; the table that was read was in the file.
THEOREM ImageCorrect == Spec => []ImageInPlace
<1>1. IInv => ImageInPlace
  <2> SUFFICES ASSUME IInv PROVE ImageInPlace
    OBVIOUS
  <2>1. LoadedExactly
    <3> SUFFICES ASSUME pc \in {"start", "running"}
                 PROVE  /\ \A a \in 0..(Word - 1) : LoadedByte(a)
                        /\ \A p \in DOMAIN pages : p # IpcPage =>
                              \E i \in DOMAIN segs : Reaches(segs[i], p)
      BY DEF LoadedExactly
    <3>1. Pictures /\ DOMAIN segs = 1..Len(segs)
      BY DEF IInv, Typed, Accounts, ErrorsApart, Loaded, InProgress, Ending
    <3>2. \A p \in DOMAIN pages : p # IpcPage => \E i \in DOMAIN segs : Reaches(segs[i], p)
      BY <3>1 DEF Pictures, PagesWanted, PageWanted
    <3> QED BY <3>2, BytesLoaded
  <2>2. RunningHasSpace
    <3>1. ASSUME thread = "running"
          PROVE  Singles \cup {<<"page", IpcPage>>} \subseteq objs
      <4>1. pc \in {"running", "destroy"} /\ HasThread
        BY <3>1 DEF IInv, Accounts, ThreadHeld, BlocksHeld
      <4>2. <<"pd">> \in objs /\ <<"cspace">> \in objs /\ <<"tcb">> \in objs
        BY <4>1 DEF IInv, Accounts, ObjectsHeld, HoldsPd, HoldsCspace
      <4>3. <<"page", IpcPage>> \in objs
        BY <4>1, PagesAssumption DEF IInv, Accounts, ThreadHeld, ObjectsHeld
      <4> QED BY <4>2, <4>3 DEF Singles
    <3>2. \A p \in DOMAIN pages : <<"page", p>> \in objs /\ TableOf(p) \in pts
      BY DEF IInv, Accounts, ObjectsHeld, PagesHeld
    <3>3. \A p \in Pages : <<"page", p>> \in objs => p \in DOMAIN pages
      BY DEF IInv, Accounts, ObjectsHeld
    <3> QED BY <3>1, <3>2, <3>3 DEF RunningHasSpace
  <2>3. TableInside
    <3> SUFFICES ASSUME pc \in {"segment", "copy", "bss"}
                 PROVE  FileAt + head.phoff + head.size * head.count <= End
      BY DEF TableInside
    <3>1. HeaderAccepted(head) /\ head \in Headers
      BY DEF IInv, Typed, Accounts, ErrorsApart, Loaded, InProgress, Position, Ending
    <3> QED BY <3>1, TableFits
  <2> QED BY <2>1, <2>2, <2>3 DEF ImageInPlace
<1> QED BY <1>1, LaunchSound, PTL

=============================================================================
