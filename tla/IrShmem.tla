------------------------------ MODULE IrShmem -------------------------------
(***************************************************************************)
(* The layout of the shared memory segment (src/iralarm/irshmem.c and the  *)
(* table in config.h): which bytes of the segment belong to which object,  *)
(* and what a store and a load of an object do.  irmem_init sums up the    *)
(* widths of the objects and asks for a segment of that size, but adds an  *)
(* object's offset to an int pointer, so that the objects lie sizeof(int)  *)
(* times as far apart.  Memory is a function from byte offsets to bytes.   *)
(***************************************************************************)
EXTENDS Integers, Sequences

\* enum shm_object, and the objects of config.h in the order of their ids.
BYTE  == 1
INT32 == 4
initial == <<INT32, BYTE, BYTE, BYTE, BYTE, INT32, INT32, INT32, INT32, INT32, BYTE>>

SHM_MLOOP    == 0
SHM_ACTIVE   == 1
SHM_SPKR     == 2
SHM_XMPP     == 3
SHM_VIDEO    == 4
SHM_STLEDON  == 5
SHM_STLEDOFF == 6
SHM_MINRECVD == 7
SHM_MINALRMS == 8
SHM_RSTALRMS == 9
SHM_ALARM    == 10

shmsiz == Len(initial)
Object == 0 .. shmsiz - 1

\* sizeof(int), and the unit in which the kernel gives out memory.
INT  == 4
PAGE == 4096

\* irmem_type: the width iralarmctl loads and stores an object with ...
irmem_type(id) == initial[id + 1]

\* ... and the width of the pointer iralarmd uses for it: ucptr or szptr.
ucptr == {SHM_ACTIVE, SHM_SPKR, SHM_XMPP, SHM_VIDEO, SHM_ALARM}
DaemonWidth(id) == IF id \in ucptr THEN BYTE ELSE INT32

-----------------------------------------------------------------------------
\* cur_offset, summed up over the objects before id.
p_off[id \in 0 .. shmsiz] == IF id = 0 THEN 0 ELSE p_off[id - 1] + initial[id]

\* The size irmem_init asks for, and the memory that is attached for it.
SegmentSize == p_off[shmsiz]
Attached    == 0 .. PAGE * ((SegmentSize + PAGE - 1) \div PAGE) - 1

\* Mutant: every offset is the width of the object before it.
irmem_getptr_nosum(id) == INT * (IF id = 0 THEN 0 ELSE initial[id])

\* (int *) shmptr + p_off, in bytes.
irmem_getptr(id) == INT * p_off[id]

Cells(id, width) == irmem_getptr(id) .. irmem_getptr(id) + width - 1

\* The n-th byte of a little-endian value.
Byte(value, n) == (value \div 256 ^ n) % 256

\* *(type *) ptr = value and *(type *) ptr.
Store(mem, id, width, value) ==
  [a \in DOMAIN mem |->
     IF a \in Cells(id, width) THEN Byte(value, a - irmem_getptr(id)) ELSE mem[a]]

Load(mem, id, width) ==
  LET b(n) == IF n < width THEN mem[irmem_getptr(id) + n] ELSE 0
  IN  b(0) + 256 * b(1) + 65536 * b(2) + 16777216 * b(3)

\* What is left of a value in an object of that width.
Truncated(value, width) == IF width = BYTE THEN value % 256 ELSE value
=============================================================================
