---------------------------- MODULE LoaderProofs ----------------------------
(***************************************************************************)
(* What the loader guarantees of every file, every command line and every  *)
(* failure on the way: how it exits, what may run after an error, and that *)
(* a program starts on the memory its file describes.                      *)
(***************************************************************************)
EXTENDS Loader, TLAPS

(***************************************************************************)
(* The heap.  When binary_or_elf succeeded, the program headers are        *)
(* allocated exactly when it assigned 1 to glob->elf, so that clean_exit   *)
(* frees what there is; a refused file is refused before the stack pointer *)
(* is set.                                                                 *)
(***************************************************************************)
Early == {"main", "open_file", "binary_or_elf", "load", "map_elf"}

Unread == fd = -1 /\ allocated \in {{"glob"}, {"glob", "table"}}
Flat == fd = FD /\ elf = FALSE /\ allocated = {"glob"}
Elf == fd = FD /\ elf = TRUE /\ allocated = {"glob", "prg_header"}

HeapInv ==
  /\ elf \in BOOLEAN
  /\ at \in Early => sp = 0
  /\ at = "main" => allocated = {}
  /\ at \in {"open_file", "binary_or_elf"} => allocated = {"glob"}
  /\ at = "binary_or_elf" => fd = FD
  /\ at = "load" => Unread \/ Flat \/ Elf
  /\ at = "map_elf" => (Unread /\ elf = TRUE) \/ Elf
  /\ at \in {"loaded", "debug", "execute_jit", "execute"} =>
       /\ sp = MEM_SIZE - 4
       /\ (Unread /\ elf = TRUE) \/ Flat \/ Elf
  /\ at = "exit" => \/ /\ status = 0 /\ sp = MEM_SIZE - 4
                       /\ \/ allocated = {}
                          \/ fd = -1 /\ elf = TRUE /\ allocated = {"table"}
                    \/ status = 1 /\ sp = 0 /\ "glob" \notin allocated

(* The heap is as HeapInv says at every step.                              *)
LEMMA HeapStep == HeapInv /\ [Next]_vars => HeapInv'
<1> SUFFICES ASSUME HeapInv, [Next]_vars PROVE HeapInv'
  OBVIOUS
<1> USE DEF HeapInv, Early, Unread, Flat, Elf, FD
<1>1. CASE Usage \/ init_global
  BY <1>1 DEF Usage, init_global, options, header, image
<1>2. CASE open_file \/ open_file_refuses \/ open_file_fails
  BY <1>2 DEF open_file, open_file_refuses, open_file_fails, GivesUp, header, image
<1>3. CASE read_flat \/ read_elf \/ read_refuses
  BY <1>3 DEF read_flat, read_elf, read_refuses, GivesUp, header, image, files
<1>4. CASE read_fails
  BY <1>4 DEF read_fails, GivesUp, image
<1>5. CASE get_program_size_crashes \/ map_elf
  BY <1>5 DEF get_program_size_crashes, map_elf, header, image, files
<1>6. CASE map_elf_refuses \/ segment_refused \/ init_memory_refuses
  BY <1>6 DEF map_elf_refuses, segment_refused, init_memory_refuses, Refuses, image
<1>7. CASE copy_segment \/ skip_segment
  BY <1>7 DEF copy_segment, skip_segment, header, image, files
<1>8. CASE segments_done \/ init_memory
  BY <1>8 DEF segments_done, init_memory, header
<1>9. CASE start \/ killed \/ clean_exit_crashes
  BY <1>9 DEF start, killed, clean_exit_crashes, Executing, header, image, files
<1>10. CASE clean_exit
  BY <1>10 DEF clean_exit, Executing, files
<1>11. CASE UNCHANGED vars
  BY <1>11 DEF vars, header, image, files
<1> QED
  BY <1>1, <1>2, <1>3, <1>4, <1>5, <1>6, <1>7, <1>8, <1>9, <1>10, <1>11
  DEF Next, LoadStep, ended

(* The exit status is 0 exactly when something ran, after which the heap   *)
(* is empty (a table on a garbage glob->elf excepted), for every file and  *)
(* every failure.                                                          *)
THEOREM ExitIsTold == Spec => []ExitTells
<1>1. Init => HeapInv
  BY LoaderAssumption DEF Init, HeapInv, Early
<1>2. HeapInv => ExitTells
  BY LoaderAssumption DEF HeapInv, ExitTells, Garbage
<1> QED BY <1>1, <1>2, HeapStep, PTL DEF Spec

-----------------------------------------------------------------------------
(***************************************************************************)
(* What the loader has read.  A descriptor is only handed on to the code   *)
(* that loads a program when every call so far has succeeded, and then the *)
(* program headers are those of the file; without one nothing is copied.   *)
(***************************************************************************)
Table == [k \in DOMAIN file.phdrs |-> PhdrRead(k)]
Named == args # <<>> /\ Loadable
Open == Named /\ failed = FALSE /\ fd = FD /\ descriptors = {FD}

ReadFlat == Open /\ HeaderReadable /\ ~ check_header /\ elf = FALSE
ReadElf ==
  /\ Open /\ HeaderReadable /\ check_header
  /\ elf = TRUE /\ entry = file.entry /\ phdrs = Table

Zeros == [a \in Addresses |-> 0]

(* The segments before n are inside the memory.                            *)
InBounds(n) ==
  \A k \in DOMAIN file.phdrs : k < n /\ PhdrRead(k).load => ~ OutOfBounds(PhdrRead(k))

(* What the segments before n have put at address a.                       *)
Before(a, n) == {k \in SegmentsAt(a) : k < n}
Written(a, n) ==
  IF Before(a, n) = {} THEN 0
  ELSE LET ph == file.phdrs[Max(Before(a, n))] IN InFile(ph.offset + a - ph.vaddr)

Running == {"loaded", "debug", "execute_jit", "execute"}

LoadInv ==
  /\ args \in CommandLines
  /\ at \in Early => pc = 0
  /\ at \in Early \ {"map_elf"} => seg = 1
  /\ at \in {"main", "open_file", "binary_or_elf"} => failed = FALSE
  /\ at = "open_file" => args # <<>>
  /\ at = "binary_or_elf" => Open
  /\ at = "load" => fd = -1 \/ ReadFlat \/ ReadElf
  /\ at = "map_elf" =>
       \/ fd = -1 /\ elf = TRUE /\ memory = Zeros
       \/ /\ ReadElf
          /\ seg \in Nat /\ InBounds(seg)
          /\ OneTransfer => memory = [a \in Addresses |-> Written(a, seg)]
  /\ at \in Running =>
       \/ fd = -1 /\ elf = TRUE /\ memory = Zeros
       \/ /\ Named /\ HeaderReadable /\ failed = FALSE /\ fd = FD /\ descriptors = {}
          /\ check_header => InBounds(Len(file.phdrs) + 1)
          /\ ~ check_header \/ OneTransfer => memory = [a \in Addresses |-> ByteAt(a)]
          /\ pc = IF check_header THEN file.entry ELSE 0

(* The table in memory has an entry for each one of the file, and an entry *)
(* that is a PT_LOAD is the one of the file.                               *)
LEMMA TableRead ==
  ASSUME args \in CommandLines, Named
  PROVE  /\ file.size \in Nat
         /\ DOMAIN file.phdrs = 1..Len(file.phdrs) /\ Len(file.phdrs) \in Nat
         /\ DOMAIN Table = DOMAIN file.phdrs /\ Len(Table) = Len(file.phdrs)
         /\ \A k \in DOMAIN file.phdrs :
              /\ PhdrRead(k) \in Phdr /\ Table[k] = PhdrRead(k)
              /\ PhdrRead(k).load => PhdrRead(k) = file.phdrs[k]
<1>1. file.size \in Nat /\ file.phdrs \in Seq(Phdr)
  BY FileAssumption DEF Named, Loadable, file
<1>2. /\ DOMAIN file.phdrs = 1..Len(file.phdrs) /\ Len(file.phdrs) \in Nat
      /\ \A k \in DOMAIN file.phdrs : file.phdrs[k] \in Phdr
  BY <1>1
<1>3. NoPhdr \in Phdr /\ NoPhdr.load = FALSE
  BY DEF NoPhdr, Phdr
<1>4. ASSUME NEW k \in DOMAIN file.phdrs
      PROVE  PhdrRead(k) \in Phdr /\ (PhdrRead(k).load => PhdrRead(k) = file.phdrs[k])
  BY <1>2, <1>3 DEF PhdrRead
<1>5. DOMAIN Table = 1..Len(file.phdrs)
  BY <1>2 DEF Table
<1>6. Table \in Seq(Phdr)
  BY <1>2, <1>4 DEF Table
<1>7. Len(Table) = Len(file.phdrs)
  BY <1>2, <1>5, <1>6
<1> QED
  BY <1>1, <1>2, <1>4, <1>7 DEF Table

(* A new largest element is the maximum.                                   *)
LEMMA MaxOfNew ==
  ASSUME NEW S \in SUBSET Nat, NEW n \in Nat, \A k \in S : k < n
  PROVE  Max(S \cup {n}) = n
<1>1. \A x \in S \cup {n} : (\A y \in S \cup {n} : x >= y) <=> x = n
  OBVIOUS
<1> QED
  BY <1>1 DEF Max

(* A segment that fits in one transfer is copied whole.                    *)
LEMMA WholeSegment ==
  ASSUME NEW ph \in Phdr, ph.filesz <= MAX_TRANSFER
  PROVE  Transferred(ph) = ph.filesz
<1>1. ph.filesz \in Nat /\ MAX_TRANSFER \in Nat
  BY LoaderAssumption DEF Phdr
<1> DEFINE S == {ph.filesz, MAX_TRANSFER}
<1>2. \A x \in S : (\A y \in S : x <= y) <=> x = ph.filesz
  BY <1>1
<1> QED
  BY <1>2 DEF Transferred, Min

(* The operators of this module speak of args only.                        *)
LEMMA SameFile ==
  ASSUME args' = args
  PROVE  /\ file' = file /\ (check_header' <=> check_header) /\ Table' = Table
         /\ (Named' <=> Named) /\ (HeaderReadable' <=> HeaderReadable)
         /\ (OneTransfer' <=> OneTransfer)
         /\ \A n : InBounds(n)' <=> InBounds(n)
         /\ \A a : ByteAt(a)' = ByteAt(a)
         /\ \A a, n : Written(a, n)' = Written(a, n)
<1>1. file' = file /\ (check_header' <=> check_header)
  BY DEF file, check_header
<1>2. Table' = Table
  BY DEF file, Table, PhdrRead
<1>3. (Named' <=> Named) /\ (HeaderReadable' <=> HeaderReadable)
  BY DEF file, Named, Loadable, HeaderReadable
<1>7. OneTransfer' <=> OneTransfer
  BY DEF OneTransfer, file, PhdrRead
<1>4. \A n : InBounds(n)' <=> InBounds(n)
  BY DEF InBounds, OutOfBounds, file, PhdrRead
<1>5. \A a : ByteAt(a)' = ByteAt(a)
  BY DEF ByteAt, SegmentsAt, check_header, file, InFile, PhdrRead
<1>6. \A a, n : Written(a, n)' = Written(a, n)
  BY DEF Written, Before, SegmentsAt, file, InFile, PhdrRead
<1> QED BY <1>1, <1>2, <1>3, <1>4, <1>5, <1>6, <1>7

(* Copying a segment extends what has been written by one segment.         *)
LEMMA CopyExtends ==
  ASSUME LoadInv, copy_segment
  PROVE  /\ InBounds(seg + 1)
         /\ OneTransfer => memory' = [a \in Addresses |-> Written(a, seg + 1)]
<1> DEFINE ph == phdrs[seg]
<1>1. /\ args \in CommandLines /\ Named /\ phdrs = Table /\ seg \in Nat /\ InBounds(seg)
      /\ OneTransfer => memory = [a \in Addresses |-> Written(a, seg)]
  BY DEF LoadInv, copy_segment, ReadElf, Open
<1>2. /\ seg \in DOMAIN file.phdrs /\ ph = PhdrRead(seg) /\ ph = file.phdrs[seg]
      /\ ph.load /\ ~ OutOfBounds(ph) /\ ph \in Phdr
      /\ DOMAIN file.phdrs \subseteq Nat
  BY <1>1, TableRead DEF copy_segment, Loads
<1>3. ASSUME NEW k \in DOMAIN file.phdrs, k < seg + 1, PhdrRead(k).load
      PROVE  ~ OutOfBounds(PhdrRead(k))
  <2>1. CASE k < seg
    BY <1>1, <1>3, <2>1 DEF InBounds
  <2>2. CASE k = seg
    BY <1>2, <2>2
  <2> QED
    BY <1>1, <1>2, <1>3, <2>1, <2>2
<1>4. ASSUME OneTransfer, NEW a \in Addresses
      PROVE  (LET k == ph.offset + a - ph.vaddr IN
              IF ph.vaddr <= a /\ a < ph.vaddr + ph.filesz /\ k < file.size
              THEN file.bytes[k + 1] ELSE memory[a]) = Written(a, seg + 1)
  <2> DEFINE S == Before(a, seg)
  <2>1. S \in SUBSET Nat /\ \A k \in S : k < seg
    BY <1>2 DEF Before, SegmentsAt
  <2>2. CASE seg \in SegmentsAt(a)
    <3>1. Before(a, seg + 1) = S \cup {seg}
      BY <1>1, <1>2, <2>2 DEF Before, SegmentsAt
    <3>2. Max(Before(a, seg + 1)) = seg
      BY <1>1, <2>1, <3>1, MaxOfNew
    <3>3. Written(a, seg + 1) = InFile(ph.offset + a - ph.vaddr)
      BY <1>2, <3>1, <3>2 DEF Written
    <3> QED
      BY <1>2, <2>2, <3>3 DEF SegmentsAt, InFile
  <2>3. CASE seg \notin SegmentsAt(a)
    <3>1. Before(a, seg + 1) = S
      BY <1>1, <1>2, <2>3 DEF Before, SegmentsAt
    <3>2. Written(a, seg + 1) = memory[a]
      BY <1>1, <1>4, <3>1 DEF Written
    <3> QED
      BY <1>2, <2>3, <3>2 DEF SegmentsAt
  <2> QED
    BY <2>2, <2>3
<1>5. ASSUME OneTransfer PROVE memory' = [a \in Addresses |-> Written(a, seg + 1)]
  <2>1. Transferred(ph) = ph.filesz
    BY <1>2, <1>5, WholeSegment DEF OneTransfer
  <2> QED
    BY <1>4, <1>5, <2>1 DEF copy_segment
<1> QED
  BY <1>3, <1>5 DEF InBounds

(* So does skipping one that is no PT_LOAD.                                *)
LEMMA SkipExtends ==
  ASSUME LoadInv, skip_segment, fd # -1
  PROVE  /\ InBounds(seg + 1)
         /\ OneTransfer => memory = [a \in Addresses |-> Written(a, seg + 1)]
<1>1. /\ args \in CommandLines /\ Named /\ phdrs = Table /\ seg \in Nat /\ InBounds(seg)
      /\ OneTransfer => memory = [a \in Addresses |-> Written(a, seg)]
  BY DEF LoadInv, skip_segment, ReadElf, Open
<1>2. /\ seg \in DOMAIN file.phdrs /\ ~ PhdrRead(seg).load
      /\ DOMAIN file.phdrs \subseteq Nat
  BY <1>1, TableRead DEF skip_segment, Loads
<1>3. ASSUME NEW k \in DOMAIN file.phdrs, k < seg + 1, PhdrRead(k).load
      PROVE  k < seg
  BY <1>1, <1>2, <1>3
<1>4. ASSUME NEW a PROVE Before(a, seg + 1) = Before(a, seg)
  <2>1. \A k \in SegmentsAt(a) : k \in DOMAIN file.phdrs /\ PhdrRead(k).load
    BY DEF SegmentsAt
  <2>2. \A k \in SegmentsAt(a) : k < seg + 1 <=> k < seg
    BY <1>1, <1>2, <1>3, <2>1
  <2> QED
    BY <2>2 DEF Before
<1>5. \A a : Written(a, seg + 1) = Written(a, seg)
  BY <1>4 DEF Written
<1> QED
  BY <1>1, <1>3, <1>5 DEF InBounds

(* After the last segment memory is what the file describes.               *)
LEMMA AllWritten ==
  ASSUME LoadInv, segments_done, fd # -1
  PROVE  /\ check_header /\ Named /\ InBounds(Len(file.phdrs) + 1)
         /\ OneTransfer => memory = [a \in Addresses |-> ByteAt(a)]
<1>1. /\ args \in CommandLines /\ Named /\ phdrs = Table /\ seg \in Nat /\ InBounds(seg)
      /\ check_header /\ (OneTransfer => memory = [a \in Addresses |-> Written(a, seg)])
  BY DEF LoadInv, segments_done, ReadElf, Open
<1>2. \A k \in DOMAIN file.phdrs : k < seg
  BY <1>1, TableRead DEF segments_done
<1>3. ASSUME NEW a PROVE Written(a, seg) = ByteAt(a)
  <2>1. Before(a, seg) = SegmentsAt(a)
    BY <1>2 DEF Before, SegmentsAt
  <2> QED
    BY <1>1, <2>1 DEF Written, ByteAt
<1> QED
  BY <1>1, <1>2, <1>3 DEF InBounds

(* LoadInv holds at every step.                                            *)
LEMMA LoadInvStep == HeapInv /\ LoadInv /\ [Next]_vars => LoadInv'
<1> SUFFICES ASSUME HeapInv, LoadInv, [Next]_vars PROVE LoadInv'
  OBVIOUS
<1>0. args' = args /\ args \in CommandLines
  BY DEF LoadInv, Next, LoadStep, Usage, init_global, open_file, open_file_refuses,
         open_file_fails, read_flat, read_elf, read_refuses, read_fails, GivesUp,
         get_program_size_crashes, map_elf, map_elf_refuses, Refuses, copy_segment,
         skip_segment, segment_refused, segments_done, init_memory, init_memory_refuses,
         start, killed, clean_exit, clean_exit_crashes, ended, vars, options
<1> USE DEF Early, Running
<1>1. CASE Usage \/ init_global
  BY <1>0, <1>1 DEF LoadInv, Usage, init_global, image
<1>2. CASE open_file \/ open_file_refuses \/ open_file_fails
  BY <1>0, <1>2, SameFile
  DEF LoadInv, HeapInv, open_file, open_file_refuses, open_file_fails, GivesUp,
      Open, Named, header, image
<1>3. CASE read_flat \/ read_refuses \/ read_fails
  BY <1>0, <1>3, SameFile
  DEF LoadInv, HeapInv, read_flat, read_refuses, read_fails, GivesUp, Open,
      ReadFlat, header, image, files
<1>4. CASE read_elf
  BY <1>0, <1>4, SameFile DEF LoadInv, read_elf, Open, ReadElf, Table, header, image, files
<1>5. CASE map_elf
  <2>1. CASE fd = -1
    BY <1>0, <1>5, <2>1 DEF LoadInv, HeapInv, map_elf, header, files, Zeros
  <2>2. CASE fd # -1
    <3>1. ReadElf /\ seg = 1 /\ pc = 0
      BY <1>5, <2>2 DEF LoadInv, map_elf, ReadFlat
    <3>2. \A k \in DOMAIN file.phdrs : ~ (k < seg)
      BY <1>0, <3>1, TableRead DEF ReadElf, Open
    <3>3. InBounds(seg)
      BY <3>2 DEF InBounds
    <3>4. ASSUME NEW a PROVE Written(a, seg) = 0
      BY <3>2 DEF Written, Before, SegmentsAt
    <3>5. memory' = [a \in Addresses |-> Written(a, seg)]
      BY <1>5, <3>4 DEF map_elf
    <3> QED
      BY <1>0, <1>5, <3>1, <3>3, <3>5, SameFile
      DEF LoadInv, map_elf, ReadElf, Open, header, files
  <2> QED
    BY <2>1, <2>2
<1>6. CASE copy_segment
  <2>1. /\ at = "map_elf" /\ at' = at /\ seg \in Nat /\ seg' = seg + 1 /\ pc' = 0
        /\ ReadElf /\ ReadElf'
    BY <1>0, <1>6, SameFile DEF LoadInv, copy_segment, ReadElf, Open, header, files
  <2>2. /\ InBounds(seg')
        /\ OneTransfer => memory' = [a \in Addresses |-> Written(a, seg')]
    BY <1>6, <2>1, CopyExtends
  <2>3. /\ InBounds(seg)'
        /\ OneTransfer' => memory' = [a \in Addresses |-> Written(a, seg)']
    BY <1>0, <2>2, SameFile
  <2> QED
    BY <1>0, <2>1, <2>3 DEF LoadInv
<1>7. CASE skip_segment
  <2>1. CASE fd = -1
    BY <1>0, <1>7, <2>1
    DEF LoadInv, skip_segment, ReadElf, Open, FD, header, files, image, Zeros
  <2>2. CASE fd # -1
    <3>1. /\ at = "map_elf" /\ at' = at /\ seg \in Nat /\ seg' = seg + 1 /\ pc' = 0
          /\ ReadElf /\ ReadElf'
      BY <1>0, <1>7, <2>2, SameFile
      DEF LoadInv, skip_segment, ReadElf, Open, header, files, image
    <3>2. /\ InBounds(seg')
          /\ OneTransfer => memory' = [a \in Addresses |-> Written(a, seg')]
      BY <1>7, <2>2, <3>1, SkipExtends DEF skip_segment, image
    <3>3. /\ InBounds(seg)'
          /\ OneTransfer' => memory' = [a \in Addresses |-> Written(a, seg)']
      BY <1>0, <3>2, SameFile
    <3> QED
      BY <1>0, <3>1, <3>3 DEF LoadInv
  <2> QED
    BY <2>1, <2>2
<1>8. CASE segments_done
  <2>1. CASE fd = -1
    BY <1>0, <1>8, <2>1 DEF LoadInv, segments_done, ReadElf, Open, FD, header, Zeros
  <2>2. CASE fd # -1
    BY <1>0, <1>8, <2>2, AllWritten, SameFile
    DEF LoadInv, segments_done, ReadElf, Open, FD, header
  <2> QED
    BY <2>1, <2>2
<1>9. CASE init_memory
  <2>1. ReadFlat /\ pc = 0
    BY <1>9 DEF LoadInv, init_memory, ReadElf
  <2>2. memory' = [a \in Addresses |-> ByteAt(a)]
    BY <1>9, <2>1 DEF init_memory, ByteAt, InFile, ReadFlat
  <2> QED
    BY <1>0, <1>9, <2>1, <2>2, SameFile DEF LoadInv, init_memory, ReadFlat, Open, FD
<1>10. CASE \/ get_program_size_crashes \/ map_elf_refuses
           \/ segment_refused \/ init_memory_refuses
  BY <1>0, <1>10
  DEF LoadInv, get_program_size_crashes, map_elf_refuses, segment_refused,
      init_memory_refuses, Refuses
<1>11. CASE start
  BY <1>0, <1>11, SameFile DEF LoadInv, start, header, files, image, Zeros
<1>12. CASE killed \/ clean_exit \/ clean_exit_crashes
  BY <1>0, <1>12 DEF LoadInv, killed, clean_exit, clean_exit_crashes
<1>13. CASE UNCHANGED vars
  BY <1>0, <1>13, SameFile
  DEF LoadInv, vars, header, files, image, ReadFlat, ReadElf, Open, Zeros
<1> QED
  BY <1>1, <1>2, <1>3, <1>4, <1>5, <1>6, <1>7, <1>8, <1>9, <1>10, <1>11, <1>12, <1>13
  DEF Next, LoadStep, ended

LEMMA LoadInvHolds == Spec => [](HeapInv /\ LoadInv)
<1>1. Init => HeapInv /\ LoadInv
  BY LoaderAssumption DEF Init, HeapInv, LoadInv, Early, Running
<1> QED BY <1>1, HeapStep, LoadInvStep, PTL DEF Spec

(* Nothing runs after an error, whichever file was refused, call failed or *)
(* segment is out of bounds, but on a glob->elf that is not 0 though       *)
(* binary_or_elf did not assign it.                                        *)
THEOREM NothingRunsAfterError == Spec => []ErrorsStop
<1>1. HeapInv /\ LoadInv => ErrorsStop
  <2> SUFFICES ASSUME LoadInv, Executing, ~ Garbage PROVE ErrorsStop
    BY DEF ErrorsStop
  <2>1. /\ failed = FALSE /\ args \in CommandLines /\ Named /\ HeaderReadable
        /\ check_header => InBounds(Len(file.phdrs) + 1)
    BY DEF LoadInv, Executing, Running, Garbage
  <2>2. \A k \in DOMAIN file.phdrs : k < Len(file.phdrs) + 1
    BY <2>1, TableRead
  <2> QED
    BY <2>1, <2>2 DEF ErrorsStop, InBounds, Named
<1> QED BY <1>1, LoadInvHolds, PTL

(* A program starts on the memory its file describes, for every file and   *)
(* every table of segments that one pread each transfers, overlapping ones *)
(* and ones cut short by the end of the file included; and on a garbage    *)
(* glob->elf, on zeros.                                                    *)
THEOREM StartsOnItsFile == Spec => []StartsOnImage
<1>1. HeapInv /\ LoadInv => StartsOnImage
  BY DEF StartsOnImage, HeapInv, LoadInv, Executing, Running, Garbage, Zeros, FD
<1> QED BY <1>1, LoadInvHolds, PTL
=============================================================================
