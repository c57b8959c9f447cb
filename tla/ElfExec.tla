------------------------------ MODULE ElfExec ------------------------------
(***************************************************************************)
(* Starting a program: launch_process of the sandbox, elfexec, the loader, *)
(* the parser of the image, and the thread's record of the root server.    *)
(* One process runs; the kernel and the servers may refuse any call.  The  *)
(* loader reaches the pages of the new program through one page of its own *)
(* address space, which is remapped again and again.                       *)
(*                                                                         *)
(* Data are scaled: a page has PageSize units, a table PerTable pages, and *)
(* pointers wrap at Word.  The content of a unit of the file is its        *)
(* offset; a fresh page holds zeros.                                       *)
(***************************************************************************)
EXTENDS Integers, Sequences, FiniteSets

CONSTANTS PageSize, PerTable, PageCount, IpcPage,
          Word,       \* pointers are below this
          FileAt,     \* where the file lies in the loader's memory
          FileSize,
          HalfMax,    \* what a 16-bit field holds at most
          MinEntry,   \* MIN_PHDR_SIZE
          Segments,   \* the entries that the table of an image may have
          SegmentsMax \* bound: segments of an image

Pages == 0..(PageCount - 1)
TableOf(p) == p \div PerTable
Tables == {TableOf(p) : p \in Pages}
Zero == -1
NoPage == -1
Flags == {"r-x", "rw-"}
Singles == {<<"pd">>, <<"cspace">>, <<"tcb">>}

ASSUME PagesAssumption ==
    /\ PageSize \in Nat \ {0} /\ PerTable \in Nat \ {0} /\ PageCount \in Nat
    /\ IpcPage \in Pages

\* The kernel keeps the top of every address space (KERNEL_BASE_VADDR).  The
\* product of two 16-bit fields does not wrap, nor does the file.
ASSUME FileAssumption ==
    /\ FileAt \in Nat /\ FileSize \in Nat /\ Word \in Nat /\ HalfMax \in Nat \ {0}
    /\ FileAt + FileSize < Word /\ PageCount * PageSize < Word
    /\ HalfMax * HalfMax < Word /\ 1 < Word
    /\ MinEntry \in 0..HalfMax

\* An entry says anything that its 32-bit fields hold.
ASSUME SegmentsAssumption ==
    /\ Segments \subseteq [load : BOOLEAN, off : 0..(Word - 1), va : 0..(Word - 1),
                           stored : 0..(Word - 1), mem : 0..(Word - 1), flags : Flags]
    /\ SegmentsMax \in Nat

\* Headers of every shape, and images of a good header with segments.
Headers == [magic : BOOLEAN, phoff : 0..(Word - 1), size : 0..HalfMax, count : 0..HalfMax]
GoodHeader == [magic |-> TRUE, phoff |-> 1, size |-> MinEntry, count |-> 1]
Images == UNION {[1..n -> Segments] : n \in 1..SegmentsMax}

VARIABLES
    head, segs,  \* the file
    pc,
    seg,         \* segment being loaded
    done,        \* how much of it is copied, then how much is mapped
    objs,        \* kernel objects held: "pd", "cspace", "tcb", tables, pages
    blocks,      \* blocks of mem_fx held
    slots,       \* capability slots held
    zone,        \* the loader's piece of address space
    pts, pages,  \* pagedir: tables made, and page -> access flags
    alt,         \* page whose capability is in the spare slot
    window,      \* page mapped at page_buffer
    mem,         \* contents of the program's pages
    thread,      \* "none", "stopped" or "running"
    errx         \* an error is pending

vars == <<head, segs, pc, seg, done, objs, blocks, slots, zone, pts, pages,
          alt, window, mem, thread, errx>>

File == <<head, segs>>
Held == <<objs, blocks, slots, zone>>
Space == <<pts, pages, mem>>
Via == <<alt, window>>

TypeOK ==
    /\ pc \in {"launch", "mint", "init_pd", "init_cspace", "load_zone", "load_pagedir",
               "load_spare", "header", "segment",
               "copy", "bss", "unwind", "ipc", "cspace", "exec_init", "tcb",
               "start", "running", "gone", "destroy", "undo_launch", "failed"}
    /\ seg \in 1..(SegmentsMax + 1) /\ done \in 0..(PageCount * PageSize)
    /\ objs \subseteq Singles
                      \cup ({"pt"} \X Tables) \cup ({"page"} \X Pages)
    /\ blocks \subseteq {<<"context">>, <<"pagedir">>, <<"priv">>} \cup ({"pt"} \X Tables)
    /\ slots \subseteq {"minted", "spare"}
    /\ zone \in BOOLEAN /\ errx \in BOOLEAN
    /\ pts \subseteq Tables
    /\ DOMAIN pages \subseteq Pages /\ DOMAIN mem = DOMAIN pages
    /\ {alt, window} \subseteq Pages \cup {NoPage}
    /\ thread \in {"none", "stopped", "running"}

Init ==
    /\ \/ head \in Headers /\ segs = <<>>
       \/ head = GoodHeader /\ segs \in Images
    /\ pc = "launch" /\ seg = 1 /\ done = 0
    /\ objs = {} /\ blocks = {} /\ slots = {} /\ zone = FALSE
    /\ pts = {} /\ pages = [p \in {} |-> ""] /\ mem = [p \in {} |-> <<>>]
    /\ alt = NoPage /\ window = NoPage /\ thread = "none" /\ errx = FALSE

\* A refused call leaves its error pending; the caller goes on at pc2.
Raises(pc2) == /\ pc' = IF errx THEN "failed" ELSE pc2
               /\ errx' = TRUE
-----------------------------------------------------------------------------
\* launch_process: a block, a slot, the endpoint minted into it.
launch_process ==
    /\ pc = "launch"
    /\ \/ Raises("gone") /\ UNCHANGED <<blocks, slots>>
       \/ Raises("undo_launch") /\ blocks' = blocks \cup {<<"context">>} /\ UNCHANGED slots
       \/ /\ blocks' = blocks \cup {<<"context">>}
          /\ slots' = slots \cup {"minted"}
          /\ pc' = "mint"
          /\ UNCHANGED errx
    /\ UNCHANGED <<File, seg, done, objs, zone, Space, Via, thread>>

cslot_mint ==
    /\ pc = "mint"
    /\ \/ Raises("undo_launch")
       \/ pc' = "init_pd" /\ UNCHANGED errx
    /\ UNCHANGED <<File, seg, done, Held, Space, Via, thread>>

\* What launch_process undoes itself when a step after the first fails.
UndoLaunch ==
    /\ pc = "undo_launch"
    /\ slots' = slots \ {"minted"}
    /\ blocks' = blocks \ {<<"context">>}
    /\ pc' = "gone"
    /\ UNCHANGED <<File, seg, done, objs, zone, Space, Via, thread, errx>>

elfexec_init_pd ==
    /\ pc = "init_pd"
    /\ \/ Raises("undo_launch") /\ UNCHANGED objs
       \/ objs' = objs \cup {<<"pd">>} /\ pc' = "init_cspace" /\ UNCHANGED errx
    /\ UNCHANGED <<File, seg, done, blocks, slots, zone, Space, Via, thread>>

elfexec_init_cspace ==
    /\ pc = "init_cspace"
    /\ \/ Raises("undo_launch") /\ objs' = objs \ {<<"pd">>}
       \/ objs' = objs \cup {<<"cspace">>} /\ pc' = "load_zone" /\ UNCHANGED errx
    /\ UNCHANGED <<File, seg, done, blocks, slots, zone, Space, Via, thread>>

\* elfloader_load takes address space, the page directory's record and a slot;
\* when one is refused those before it go back.
load_zone ==
    /\ pc = "load_zone"
    /\ \/ Raises("destroy") /\ UNCHANGED zone
       \/ zone' = TRUE /\ pc' = "load_pagedir" /\ UNCHANGED errx
    /\ UNCHANGED <<File, seg, done, objs, blocks, slots, Space, Via, thread>>

load_pagedir ==
    /\ pc = "load_pagedir"
    /\ \/ Raises("destroy") /\ zone' = FALSE /\ UNCHANGED blocks
       \/ /\ blocks' = blocks \cup {<<"pagedir">>}
          /\ pc' = "load_spare" /\ UNCHANGED <<zone, errx>>
    /\ UNCHANGED <<File, seg, done, objs, slots, Space, Via, thread>>

load_spare_ZoneKept ==
    /\ pc = "load_spare"
    /\ \/ /\ Raises("destroy")
          /\ blocks' = blocks \ {<<"pagedir">>}
          /\ UNCHANGED <<zone, slots>>
       \/ /\ slots' = slots \cup {"spare"}
          /\ pc' = "header" /\ UNCHANGED <<zone, blocks, errx>>
    /\ UNCHANGED <<File, seg, done, objs, Space, Via, thread>>

load_spare ==
    /\ pc = "load_spare"
    /\ \/ /\ Raises("destroy") /\ zone' = FALSE
          /\ blocks' = blocks \ {<<"pagedir">>}
          /\ UNCHANGED slots
       \/ /\ slots' = slots \cup {"spare"}
          /\ pc' = "header" /\ UNCHANGED <<zone, blocks, errx>>
    /\ UNCHANGED <<File, seg, done, objs, Space, Via, thread>>
-----------------------------------------------------------------------------
(***************************************************************************)
(* elfparser_load: pointers are unsigned and wrap.                         *)
(***************************************************************************)
TablePointer(h) == (FileAt + h.phoff) % Word
TableEnd(h) == (TablePointer(h) + h.size * h.count) % Word
End == FileAt + FileSize

HeaderAccepted(h) ==
    /\ h.magic
    /\ TablePointer(h) > FileAt /\ TablePointer(h) <= End
    /\ TableEnd(h) > TablePointer(h) /\ h.size >= MinEntry /\ TableEnd(h) <= End

\* A file with a segment has a table of entries; what they say is in segs.
elfparser_header ==
    /\ pc = "header"
    /\ IF HeaderAccepted(head)
       THEN pc' = "segment" /\ UNCHANGED errx
       ELSE Raises("unwind")
    /\ UNCHANGED <<File, seg, done, Held, Space, Via, thread>>

\* What its assertions refuse: a segment that is smaller than its stored part,
\* or whose stored part, if any, does not lie in the file.
ReadSource(s) == (FileAt + s.off) % Word
ReadEnd(s) == (ReadSource(s) + s.stored) % Word
Malformed(s) ==
    \/ s.stored > s.mem
    \/ s.stored > 0 /\ ~(/\ ReadEnd(s) > ReadSource(s)
                         /\ ReadSource(s) >= FileAt /\ ReadEnd(s) <= End)

elfparser_segment_Stays ==
    /\ pc = "segment"
    /\ done' = 0 /\ UNCHANGED seg
    /\ IF seg > Len(segs) THEN pc' = "unwind"
       ELSE IF ~segs[seg].load THEN UNCHANGED pc
       ELSE IF Malformed(segs[seg])
       THEN pc' = "failed" ELSE pc' = "copy"
    /\ UNCHANGED <<File, Held, Space, Via, thread, errx>>

elfparser_segment ==
    /\ pc = "segment"
    /\ done' = 0
    /\ IF seg > Len(segs) THEN pc' = "unwind" /\ UNCHANGED seg
       ELSE IF ~segs[seg].load THEN seg' = seg + 1 /\ UNCHANGED pc
       ELSE IF Malformed(segs[seg])
       THEN pc' = "failed" /\ UNCHANGED seg
       ELSE pc' = "copy" /\ UNCHANGED seg
    /\ UNCHANGED <<File, Held, Space, Via, thread, errx>>

(***************************************************************************)
(* remapper and elfloader_get_page: each call of it makes the page, and    *)
(* its table, if need be, drops what was mapped at page_buffer before, and *)
(* maps the page there.  A page of the kernel's fails the assertion of     *)
(* get_pagetable.                                                          *)
(***************************************************************************)
TableMade(p) == TableOf(p) \in pts

\* A table that cannot be made leaves nothing; one that can stays, even when
\* its page then cannot be made.
get_pagetable(p) ==
    IF TableMade(p) THEN UNCHANGED pts ELSE pts' = pts \cup {TableOf(p)}

TableBlock(p) == IF TableMade(p) THEN {} ELSE {<<"pt", TableOf(p)>>}

PageRefused(p, flags, exclusive) ==
    \/ ~TableMade(p) /\ UNCHANGED <<pts, objs, blocks>>
    \/ /\ p \notin DOMAIN pages
       /\ get_pagetable(p)
       /\ objs' = objs \cup TableBlock(p)
       /\ blocks' = blocks \cup TableBlock(p)
    \/ /\ p \in DOMAIN pages
       /\ exclusive \/ pages[p] # flags
       /\ UNCHANGED <<pts, objs, blocks>>

PageGot(p, flags, exclusive) ==
    /\ p \in DOMAIN pages => ~exclusive /\ pages[p] = flags
    /\ get_pagetable(p)
    /\ objs' = objs \cup TableBlock(p) \cup {<<"page", p>>}
    /\ blocks' = blocks \cup TableBlock(p)
    /\ IF p \in DOMAIN pages THEN UNCHANGED pages
       ELSE pages' = [q \in DOMAIN pages \cup {p} |->
                        IF q = p THEN flags ELSE pages[q]]

NewMem(p) == [q \in DOMAIN mem \cup {p} |->
    IF q \in DOMAIN mem THEN mem[q] ELSE [u \in 0..(PageSize - 1) |-> Zero]]

\* The page is the kernel's, or cannot be had; or it can, and its capability cannot be
\* copied to the spare slot or mapped, when the old mapping is already gone.
RemapRefused(p, flags) ==
    \/ /\ p \notin Pages /\ pc' = "failed"
       /\ UNCHANGED <<objs, blocks, Space, Via, errx>>
    \/ /\ p \in Pages /\ Raises("unwind")
       /\ \/ /\ PageRefused(p, flags, FALSE)
             /\ UNCHANGED <<pages, mem, Via>>
          \/ /\ PageGot(p, flags, FALSE) /\ mem' = NewMem(p)
             /\ window' = NoPage
             /\ alt' \in {NoPage, p}

Remapped(p, flags) ==
    /\ p \in Pages
    /\ PageGot(p, flags, FALSE)
    /\ window' = p /\ alt' = p
    /\ UNCHANGED errx

\* copy_via_remapper: up to the end of the page, or of the segment.  What is
\* written goes to the page mapped at page_buffer.
copy_via_remapper ==
    LET s == segs[seg]
        at == (s.va + done) % Word
        p == at \div PageSize
        length == s.stored - done
        offset == at % PageSize
        room == PageSize - offset
        n == IF room > length THEN length ELSE room
    IN  /\ pc = "copy"
        /\ \/ /\ length = 0
              /\ done' = 0 /\ pc' = "bss"
              /\ UNCHANGED <<objs, blocks, Space, Via, errx>>
           \/ /\ length > 0
              /\ RemapRefused(p, s.flags)
              /\ UNCHANGED done
           \/ /\ length > 0
              /\ Remapped(p, s.flags)
              /\ mem' = [NewMem(p) EXCEPT ![window'] =
                    [u \in 0..(PageSize - 1) |-> IF u \in offset..(offset + n - 1)
                                THEN s.off + done + u - offset ELSE @[u]]]
              /\ done' = done + n
              /\ UNCHANGED pc
        /\ UNCHANGED <<File, seg, slots, zone, thread>>

\* The pages of the whole segment, counted from the start of its first page;
\* the size to map is computed in 32 bits.
Correction(s) == s.va % PageSize
SizeToMap_NoCorrection(s) == s.mem
SizeToMap(s) == (s.mem + Correction(s)) % Word

elfparser_bss ==
    LET s == segs[seg]
        p == ((s.va + done - Correction(s)) % Word) \div PageSize
    IN  /\ pc = "bss"
        /\ \/ /\ done >= SizeToMap(s)
              /\ seg' = seg + 1 /\ pc' = "segment"
              /\ UNCHANGED <<done, objs, blocks, Space, Via, errx>>
           \/ /\ done < SizeToMap(s)
              /\ RemapRefused(p, s.flags)
              /\ UNCHANGED <<seg, done>>
           \/ /\ done < SizeToMap(s)
              /\ Remapped(p, s.flags)
              /\ mem' = NewMem(p)
              /\ done' = (done + PageSize) % Word
              /\ UNCHANGED <<seg, pc>>
        /\ UNCHANGED <<File, slots, zone, thread>>

\* The end of elfloader_load, for better or worse: the mapping, the spare slot
\* and the address space go back.
Loaders == {<<"pagedir">>} \cup ({"pt"} \X Tables)
elfloader_load_end ==
    /\ pc = "unwind"
    /\ window' = NoPage /\ alt' = NoPage
    /\ slots' = slots \ {"spare"}
    /\ zone' = FALSE
    /\ IF errx
       THEN /\ objs' = objs \cap Singles
            /\ blocks' = blocks \ Loaders
            /\ pts' = {} /\ pages' = [p \in {} |-> ""]
            /\ mem' = [p \in {} |-> <<>>]
            /\ pc' = "destroy"
       ELSE pc' = "ipc" /\ UNCHANGED <<objs, blocks, Space>>
    /\ UNCHANGED <<File, seg, done, thread, errx>>
-----------------------------------------------------------------------------
\* elfexec_init goes on: the page of the IPC buffer has to be a new one.
elfexec_ipc_page ==
    /\ pc = "ipc"
    /\ \/ Raises("destroy") /\ PageRefused(IpcPage, "rw-", TRUE) /\ UNCHANGED <<pages, mem>>
       \/ /\ PageGot(IpcPage, "rw-", TRUE) /\ mem' = NewMem(IpcPage)
          /\ pc' = "cspace" /\ UNCHANGED errx
    /\ UNCHANGED <<File, seg, done, slots, zone, Via, thread>>

cspace_configure ==
    /\ pc = "cspace"
    /\ \/ Raises("destroy")
       \/ pc' = "exec_init" /\ UNCHANGED errx
    /\ UNCHANGED <<File, seg, done, Held, Space, Via, thread>>

\* exec_init gives back the record and the thread when configuring fails.
exec_init ==
    /\ pc = "exec_init"
    /\ \/ Raises("destroy") /\ UNCHANGED <<objs, blocks>>
       \/ /\ blocks' = blocks \cup {<<"priv">>}
          /\ objs' = objs \cup {<<"tcb">>}
          /\ pc' = "tcb" /\ UNCHANGED errx
    /\ UNCHANGED <<File, seg, done, slots, zone, Space, Via, thread>>

exec_configure ==
    /\ pc = "tcb"
    /\ \/ /\ Raises("destroy")
          /\ objs' = objs \ {<<"tcb">>}
          /\ blocks' = blocks \ {<<"priv">>}
          /\ UNCHANGED thread
       \/ /\ thread' = "stopped"
          /\ pc' = "start"
          /\ UNCHANGED <<objs, blocks, errx>>
    /\ UNCHANGED <<File, seg, done, slots, zone, Space, Via>>

\* launch_process frees its slot when it has a process to start.
elfexec_start ==
    /\ pc = "start"
    /\ slots' = slots \ {"minted"}
    /\ \/ Raises("destroy") /\ UNCHANGED thread
       \/ thread' = "running" /\ pc' = "running" /\ UNCHANGED errx
    /\ UNCHANGED <<File, seg, done, objs, blocks, zone, Space, Via>>

\* The owner may destroy a program that runs.
Destroy ==
    /\ pc = "running" /\ pc' = "destroy"
    /\ UNCHANGED <<File, seg, done, Held, Space, Via, thread, errx>>

\* elfexec_destroy, call by call: the thread is stopped and its record freed
\* (exec_stop, exec_destroy), then the pages, then the two spaces.  Whether
\* there is a thread is known by priv_cookie, whether a page directory by pd.
HasThread == <<"priv">> \in blocks
HasPd == <<"pagedir">> \in blocks

exec_stop ==
    /\ pc = "destroy" /\ HasThread /\ thread = "running"
    /\ thread' = "stopped"
    /\ UNCHANGED <<File, pc, seg, done, Held, Space, Via, errx>>

exec_destroy ==
    /\ pc = "destroy" /\ HasThread /\ thread # "running"
    /\ objs' = objs \ {<<"tcb">>} /\ blocks' = blocks \ {<<"priv">>}
    /\ thread' = "none"
    /\ UNCHANGED <<File, pc, seg, done, slots, zone, Space, Via, errx>>

elfloader_unload ==
    /\ pc = "destroy" /\ ~HasThread /\ HasPd
    /\ objs' = objs \cap Singles
    /\ blocks' = blocks \ Loaders
    /\ pts' = {} /\ pages' = [p \in {} |-> ""] /\ mem' = [p \in {} |-> <<>>]
    /\ UNCHANGED <<File, pc, seg, done, slots, zone, Via, thread, errx>>

elfexec_destroy_spaces ==
    /\ pc = "destroy" /\ ~HasThread /\ ~HasPd
    /\ objs' = objs \ {<<"cspace">>, <<"pd">>}
    /\ pc' = "undo_launch"
    /\ UNCHANGED <<File, seg, done, blocks, slots, zone, Space, Via, thread, errx>>
-----------------------------------------------------------------------------
Next == launch_process \/ cslot_mint \/ UndoLaunch \/ elfexec_init_pd
        \/ elfexec_init_cspace \/ load_zone \/ load_pagedir
        \/ load_spare \/ elfparser_header
        \/ elfparser_segment \/ copy_via_remapper \/ elfparser_bss
        \/ elfloader_load_end \/ elfexec_ipc_page \/ cspace_configure
        \/ exec_init \/ exec_configure \/ elfexec_start \/ Destroy \/ exec_stop
        \/ exec_destroy \/ elfloader_unload \/ elfexec_destroy_spaces

\* The process runs on while it can; only Destroy is somebody's wish.
Fairness == WF_vars(Next /\ pc # "running")

Spec == Init /\ [][Next]_vars /\ Fairness
-----------------------------------------------------------------------------
\* A launch that is refused at any step, or a program destroyed, leaves nothing
\* behind: no object, block, slot or piece of address space, and no mapping.
GivesBackAll ==
    pc = "gone" => /\ objs = {} /\ blocks = {} /\ slots = {} /\ ~zone
                      /\ pts = {} /\ DOMAIN pages = {}
                      /\ window = NoPage /\ alt = NoPage /\ thread = "none"

\* A segment is whole when its size, counted from the start of its first page,
\* is a 32-bit number.
Whole(s) == s.mem + Correction(s) < Word

\* What a unit of memory holds: the stored part of the only segment there.
\* Of a segment that is not whole, the stored part only is in place.
Covers(s, a) == s.load /\ a \in s.va..(s.va + s.mem - 1)
LoadedByte(a) ==
    LET S == {i \in DOMAIN segs : Covers(segs[i], a)}
    IN  Cardinality(S) = 1 =>
        LET s == segs[CHOOSE i \in S : TRUE]
            p == a \div PageSize
        IN  /\ Whole(s) \/ a < s.va + s.stored =>
                    p \in DOMAIN pages /\ pages[p] = s.flags
            /\ p \in DOMAIN pages =>
                    mem[p][a % PageSize] =
                        IF a < s.va + s.stored THEN s.off + a - s.va ELSE Zero

\* A program that starts has each segment in place: the stored part copied,
\* the rest zero, pages with the segment's rights, and no page besides those
\* between the address and the end of a segment.
Reaches(s, p) == /\ s.load
                 /\ p * PageSize < s.va + s.mem /\ s.va < (p + 1) * PageSize
LoadedExactly ==
    pc \in {"start", "running"} =>
        /\ \A a \in 0..(Word - 1) : LoadedByte(a)
        /\ \A p \in DOMAIN pages : p # IpcPage =>
              \E i \in DOMAIN segs : Reaches(segs[i], p)

\* "make sure that we've loaded enough pages for the rest, as well": a program
\* that starts has a page at every address of its segments.
EnoughPages ==
    pc \in {"start", "running"} =>
        \A i \in DOMAIN segs, a \in 0..(Word - 1) :
            Covers(segs[i], a) => a \div PageSize \in DOMAIN pages

\* A thread never runs without the spaces and pages it runs in; the pages
\* recorded are the objects held.
RunningHasSpace ==
    /\ thread = "running" => Singles \cup {<<"page", IpcPage>>} \subseteq objs
    /\ \A p \in DOMAIN pages : <<"page", p>> \in objs /\ TableOf(p) \in pts
    /\ \A p \in Pages : <<"page", p>> \in objs => p \in DOMAIN pages

\* The table of an accepted header lies within the file, whatever wraps.
TableInside ==
    pc \in {"segment", "copy", "bss"} =>
        FileAt + head.phoff + head.size * head.count <= End

\* No error is raised while another is pending, so that no ERRX_START fails;
\* what fails is an assertion on a segment: it is malformed, or goes on among
\* the kernel's addresses.
Beyond(s) == s.va + s.mem > PageCount * PageSize
OneError ==
    pc = "failed" => /\ ~errx /\ seg <= Len(segs)
                     /\ Malformed(segs[seg]) \/ Beyond(segs[seg])

\* A launch that fails leaves nothing behind, and fails only once.
FailsCleanly == GivesBackAll /\ OneError

\* A program that is started finds its image, from a table inside the file, in
\* pages that stay as long as its thread runs: all of every segment but one
\* whose size wraps (see Whole and EnoughPages), and of that the stored part.
ImageInPlace == LoadedExactly /\ RunningHasSpace /\ TableInside

\* Every launch ends: with a program that runs, a refusal, or an assertion on
\* a segment.
LaunchEnds == <>(pc \in {"running", "gone", "failed"})
=============================================================================
