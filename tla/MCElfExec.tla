------------------------------ MODULE MCElfExec ------------------------------
EXTENDS ElfExec

\* Segments that start a page, begin in one, share one or reach the IPC page;
\* the file holds the stored part or not.  Some have no memory, some reach the
\* kernel's addresses or lie there, the sizes and offsets of some wrap.
Seg(off, va, stored, size) == [load |-> TRUE, off |-> off, va |-> va,
                              stored |-> stored, mem |-> size, flags |-> "rw-"]
MCSegments ==
    {s \in [load : BOOLEAN, off : {1, 3}, va : {0, 1, 3}, stored : 0..3, mem : {2, 3},
            flags : Flags] :
        ~s.load => s.off = 1 /\ s.stored = 0 /\ s.mem = 2 /\ s.va = 0 /\ s.flags = "r-x"}
    \cup {Seg(1, 3, 0, 0), Seg(1, 7, 1, 2), Seg(1, 9, 1, 1), Seg(1, 8, 0, 2),
          Seg(1, 1, 2, 15), Seg(1, 3, 0, 15), Seg(1, 0, 1, 15),
          Seg(15, 1, 2, 2), Seg(1, 1, 10, 15)}
=============================================================================
