------------------------------ MODULE MCLoader ------------------------------
(***************************************************************************)
(* Files for a memory of 8 bytes, with an ELF header of 2 bytes and        *)
(* program headers of 1: flat binaries of every length, ELF files with all *)
(* tables of two segments, tables and segments cut short by the end of the *)
(* file, and paths that name no file.                                      *)
(***************************************************************************)
EXTENDS Loader

CONSTANT Lengths    \* sizes of the ELF files

Bytes(n) == [k \in 1..n |-> 10 + k]
Flat(n, w) == [regular |-> TRUE, size |-> n, bytes |-> Bytes(n), wrong |-> {w},
               entry |-> 0, phdrs |-> <<>>]
Elf(n, table) == [regular |-> TRUE, size |-> n, bytes |-> Bytes(n), wrong |-> {},
                  entry |-> 4, phdrs |-> table]
Directory == [Flat(4, "magic") EXCEPT !.regular = FALSE]

(* Segments that overlap, have a .bss, run past the end of the file, end   *)
(* with the memory and one byte after it, are larger than one pread, are   *)
(* no PT_LOAD, or are too large together.                                  *)
Segment(load, o, v, fs, ms) ==
  [load |-> load, offset |-> o, vaddr |-> v, filesz |-> fs, memsz |-> ms]
Segments == {Segment(TRUE, 2, 0, 3, 3), Segment(TRUE, 3, 1, 1, 4), Segment(TRUE, 4, 6, 2, 2),
             Segment(TRUE, 3, 6, 3, 3), Segment(TRUE, 5, 2, 3, 4), Segment(TRUE, 3, 1, 4, 4),
             Segment(FALSE, 2, 0, 2, 2)}
Tables == {<<>>} \cup {<<s>> : s \in Segments} \cup {<<s, t>> : s \in Segments, t \in Segments}

MCFiles == {NoFile, Directory}
           \cup {Flat(n, w) : n \in 0..MEM_SIZE, w \in {"magic", "e_machine"}}
           \cup {Elf(n, t) : n \in Lengths, t \in Tables}

(* A fresh heap, and garbage: without program headers, with one that is no *)
(* PT_LOAD, that is, that is out of bounds, and that is too large.         *)
Fill(e, n, table) == [elf |-> e, entry |-> n, phdrs |-> table]
MCFreshHeap == {Fill(FALSE, 0, <<>>)}
MCFills == MCFreshHeap \cup {Fill(TRUE, 7, <<>>)}
           \cup {Fill(TRUE, 7, <<s>>) : s \in {Segment(FALSE, 2, 0, 2, 2), Segment(TRUE, 3, 1, 1, 4),
                                               Segment(TRUE, 3, 6, 3, 3), Segment(TRUE, 0, 0, 2, 9)}}

Argument(flag, f) == [flag |-> flag, file |-> f]
MCCommandLines ==
  {<<>>} \cup {<<Argument("none", f)>> : f \in MCFiles}
  \cup {<<Argument(flag, NoFile), Argument("none", f)>> :
          flag \in {"d", "j", "l"}, f \in {Flat(4, "magic"), Elf(7, <<Segment(TRUE, 2, 0, 3, 3)>>)}}
  \cup {<<Argument("none", Flat(4, "magic")), Argument("d", NoFile)>>}
=============================================================================
