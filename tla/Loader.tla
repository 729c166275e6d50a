------------------------------- MODULE Loader -------------------------------
(***************************************************************************)
(* From main() to the first instruction and to the exit: the options, the  *)
(* file, flat or ELF (utils.c), and the segments of an ELF (map_elf.c).    *)
(* Every call into the kernel or the allocator may fail.                   *)
(*                                                                         *)
(* glob comes from malloc.  When binary_or_elf fails it has not assigned   *)
(* glob->elf, elf_header and prg_header, which are then what the allocator *)
(* left there: zero in a fresh heap, the fill pattern in the               *)
(* AddressSanitizer build, whatever else elsewhere.  init_global goes on   *)
(* with them and without a descriptor.                                     *)
(***************************************************************************)
EXTENDS Integers, Sequences, FiniteSetsExt

CONSTANTS
  MEM_SIZE,     \* bytes of emulated memory: 2^32
  HEADER,       \* bytes of an ELF header: 52
  PHDR,         \* bytes of a program header: 32
  NoFile,       \* what a path without a file names
  MAX_TRANSFER, \* bytes that one pread transfers at most: 0x7ffff000 on Linux
  CommandLines, \* sequences of arguments; each has a flag and names a file
  Fills         \* what malloc may leave in glob->elf, in glob->elf_header and
                \* where glob->prg_header points

(* A program header, of which map_elf reads these fields, all unsigned.    *)
Phdr == [load : BOOLEAN, offset : Nat, vaddr : Nat, filesz : Nat, memsz : Nat]

ASSUME LoaderAssumption ==
  /\ MEM_SIZE \in Nat /\ MEM_SIZE > 4
  /\ HEADER \in Nat \ {0} /\ PHDR \in Nat \ {0} /\ MAX_TRANSFER \in Nat \ {0}
  /\ \A f \in Fills : f.elf \in BOOLEAN /\ f.entry \in Nat /\ f.phdrs \in Seq(Phdr)

(* The file that a command line names, if any, has a size and a table.     *)
ASSUME FileAssumption ==
  \A c \in CommandLines : c # <<>> /\ c[Len(c)].file # NoFile =>
    c[Len(c)].file.size \in Nat /\ c[Len(c)].file.phdrs \in Seq(Phdr)

VARIABLES
  at,             \* the function that is running
  args,           \* argv without the program's name
  debug, jit,     \* the options in glob
  elf,            \* glob->elf is not 0
  entry,          \* glob->elf_header.e_entry
  phdrs,          \* the e_phnum program headers at glob->prg_header
  allocated,      \* blocks on the heap: "glob", "prg_header", and "table", a
                  \* table that never became glob->prg_header
  fd,             \* descriptor handed from function to function; -1: none
  descriptors,    \* open descriptors of the process
  seg,            \* the loop index of map_elf
  memory, pc, sp, \* glob->memory, glob->pc, glob->reg[SP]
  status,         \* exit status; -1 before the exit
  failed          \* some call has reported an error

options == <<args, debug, jit>>
header == <<elf, entry, phdrs, allocated>>
files == <<fd, descriptors>>
image == <<memory, pc, sp>>
vars == <<at, options, header, files, seg, image, status, failed>>

FD == 3
Addresses == 0..(MEM_SIZE - 1)
file == args[Len(args)].file

Init ==
  /\ at = "main"
  /\ args \in CommandLines
  /\ debug = FALSE /\ jit = FALSE
  /\ \E f \in Fills : elf = f.elf /\ entry = f.entry /\ phdrs = f.phdrs
  /\ allocated = {}
  /\ fd = -1 /\ descriptors = {}
  /\ seg = 1
  /\ memory = <<>> /\ pc = 0 /\ sp = 0
  /\ status = -1
  /\ failed = FALSE

-----------------------------------------------------------------------------
(* main without arguments, or with malloc failing.                         *)
Usage ==
  /\ at = "main"
  /\ at' = "exit" /\ status' = 1
  /\ failed' = (args # <<>>)
  /\ UNCHANGED <<options, header, files, seg, image>>

(* The options, wherever they stand; the last argument is the path.        *)
init_global ==
  /\ at = "main"
  /\ args # <<>>
  /\ debug' = \E k \in DOMAIN args : args[k].flag = "d"
  /\ jit' = \E k \in DOMAIN args : args[k].flag = "j"
  /\ allocated' = {"glob"}
  /\ at' = "open_file"
  /\ UNCHANGED <<args, elf, entry, phdrs, files, seg, image, status, failed>>

(* binary_or_elf gives up: init_global goes on without a descriptor.       *)
GivesUp(error) ==
  /\ at' = "load"
  /\ fd' = -1
  /\ failed' = error
  /\ UNCHANGED <<options, elf, entry, phdrs, descriptors, seg, image, status>>

Loadable == file # NoFile /\ file.regular /\ file.size < MEM_SIZE

open_file ==
  /\ at = "open_file"
  /\ Loadable
  /\ at' = "binary_or_elf"
  /\ fd' = FD /\ descriptors' = {FD}
  /\ UNCHANGED <<options, header, seg, image, status, failed>>

open_file_refuses == at = "open_file" /\ ~ Loadable /\ GivesUp(FALSE) /\ UNCHANGED allocated
open_file_fails == at = "open_file" /\ Loadable /\ GivesUp(TRUE) /\ UNCHANGED allocated

(* file.wrong is the set of header fields that differ from what            *)
(* check_header requires.                                                  *)
check_header == file.wrong = {}

(* An empty file cannot be mapped, and a file shorter than a header fails  *)
(* the read of the header.                                                 *)
HeaderReadable == file.size # 0 /\ file.size >= HEADER

read_flat ==
  /\ at = "binary_or_elf"
  /\ HeaderReadable /\ ~ check_header
  /\ elf' = FALSE
  /\ at' = "load"
  /\ UNCHANGED <<options, entry, phdrs, allocated, files, seg, image, status, failed>>

(* The table of program headers; a pread that ends early leaves the zeros  *)
(* of calloc, which are no PT_LOAD.  Files end between two entries.        *)
NoPhdr == [load |-> FALSE, offset |-> 0, vaddr |-> 0, filesz |-> 0, memsz |-> 0]
PhdrRead(k) == IF HEADER + k * PHDR <= file.size THEN file.phdrs[k] ELSE NoPhdr

read_elf ==
  /\ at = "binary_or_elf"
  /\ HeaderReadable /\ check_header
  /\ elf' = TRUE
  /\ entry' = file.entry
  /\ phdrs' = [k \in DOMAIN file.phdrs |-> PhdrRead(k)]
  /\ allocated' = allocated \cup {"prg_header"}
  /\ at' = "load"
  /\ UNCHANGED <<options, files, seg, image, status, failed>>

read_refuses ==
  /\ at = "binary_or_elf"
  /\ ~ HeaderReadable
  /\ GivesUp(FALSE)
  /\ UNCHANGED allocated

(* Mutant of read_fails: the descriptor is returned after the error.       *)
read_fails_KeepsFd ==
  /\ at = "binary_or_elf"
  /\ HeaderReadable
  /\ at' = "load"
  /\ failed' = TRUE
  /\ UNCHANGED <<options, header, files, seg, image, status>>

(* mmap, read, or the pread into what calloc returned, fails; the latter   *)
(* is not freed.                                                           *)
read_fails ==
  /\ at = "binary_or_elf"
  /\ HeaderReadable
  /\ GivesUp(TRUE)
  /\ \/ UNCHANGED allocated
     \/ check_header /\ allocated' = allocated \cup {"table"}

-----------------------------------------------------------------------------
(* init_global returns 0: main frees glob.                                 *)
Refuses(error) ==
  /\ at' = "exit" /\ status' = 1
  /\ allocated' = allocated \ {"glob"}
  /\ failed' = (failed \/ error)
  /\ UNCHANGED <<options, elf, entry, phdrs, fd, seg, image>>

(* glob->elf is not 0 although nobody assigned it, and what follows uses   *)
(* an elf_header and a prg_header that nobody assigned either.             *)
Garbage == elf /\ fd = -1

(* Unless e_phnum happens to be 0, get_program_size follows the pointer;   *)
(* it may lead anywhere.                                                   *)
get_program_size_crashes ==
  /\ at = "load" /\ Garbage /\ phdrs # <<>>
  /\ at' = "crash"
  /\ UNCHANGED <<options, header, files, seg, image, status, failed>>

Loads == {k \in DOMAIN phdrs : phdrs[k].load}
get_program_size == MapThenSumSet(LAMBDA k : phdrs[k].memsz, Loads)

map_elf ==
  /\ at = "load" /\ elf
  /\ get_program_size < MEM_SIZE
  /\ memory' = [a \in Addresses |-> 0]
  /\ at' = "map_elf"
  /\ UNCHANGED <<options, header, files, seg, pc, sp, status, failed>>

(* Too large a program, or mmap fails.                                     *)
map_elf_refuses ==
  /\ at = "load" /\ elf
  /\ descriptors' = descriptors \ {fd}
  /\ Refuses(get_program_size < MEM_SIZE)

OutOfBounds(ph) == ph.vaddr + ph.filesz > MEM_SIZE

(* Mutant of copy_segment: memsz bytes are copied.                         *)
copy_segment_Memsz ==
  /\ at = "map_elf" /\ seg \in Loads /\ ~ OutOfBounds(phdrs[seg])
  /\ fd # -1
  /\ LET ph == phdrs[seg] IN
       memory' = [a \in Addresses |->
         LET k == ph.offset + a - ph.vaddr IN
         IF ph.vaddr <= a /\ a < ph.vaddr + ph.memsz /\ k < file.size
         THEN file.bytes[k + 1] ELSE memory[a]]
  /\ seg' = seg + 1
  /\ UNCHANGED <<at, options, header, files, pc, sp, status, failed>>

(* A PT_LOAD segment.  pread stops at the end of the file, and at what one *)
(* call transfers; map_elf takes every count but -1 for the whole segment. *)
Transferred(ph) == Min({ph.filesz, MAX_TRANSFER})

copy_segment ==
  /\ at = "map_elf" /\ seg \in Loads /\ ~ OutOfBounds(phdrs[seg])
  /\ fd # -1
  /\ LET ph == phdrs[seg] IN
       memory' = [a \in Addresses |->
         LET k == ph.offset + a - ph.vaddr IN
         IF ph.vaddr <= a /\ a < ph.vaddr + Transferred(ph) /\ k < file.size
         THEN file.bytes[k + 1] ELSE memory[a]]
  /\ seg' = seg + 1
  /\ UNCHANGED <<at, options, header, files, pc, sp, status, failed>>

(* Mutant of skip_segment: the loop index stays.                           *)
skip_segment_Stuck ==
  /\ at = "map_elf" /\ seg \in DOMAIN phdrs \ Loads
  /\ UNCHANGED vars

skip_segment ==
  /\ at = "map_elf" /\ seg \in DOMAIN phdrs \ Loads
  /\ seg' = seg + 1
  /\ UNCHANGED <<at, options, header, files, image, status, failed>>

(* A segment out of bounds, or a failing pread: that of descriptor -1 does *)
(* fail.                                                                   *)
segment_refused ==
  /\ at = "map_elf" /\ seg \in Loads
  /\ descriptors' = descriptors \ {fd}
  /\ Refuses(~ OutOfBounds(phdrs[seg]))

segments_done ==
  /\ at = "map_elf" /\ seg > Len(phdrs)
  /\ pc' = entry
  /\ sp' = MEM_SIZE - 4
  /\ descriptors' = descriptors \ {fd}
  /\ at' = "loaded"
  /\ UNCHANGED <<options, header, fd, seg, memory, status, failed>>

init_memory ==
  /\ at = "load" /\ ~ elf
  /\ fd # -1
  /\ memory' = [a \in Addresses |-> IF a < file.size THEN file.bytes[a + 1] ELSE 0]
  /\ sp' = MEM_SIZE - 4
  /\ descriptors' = descriptors \ {fd}
  /\ at' = "loaded"
  /\ UNCHANGED <<options, header, fd, seg, pc, status, failed>>

(* Mapping descriptor -1 fails; every other call may.  The descriptor is   *)
(* closed unless the first call failed.                                    *)
init_memory_refuses ==
  /\ at = "load" /\ ~ elf
  /\ descriptors' \in {descriptors, descriptors \ {fd}}
  /\ Refuses(fd # -1)

-----------------------------------------------------------------------------
(* The debugger, the JIT or the interpreter: their own specifications say  *)
(* what they do.  They return, kill the emulator, or go on for ever.       *)
start ==
  /\ at = "loaded"
  /\ at' = IF debug THEN "debug" ELSE IF jit THEN "execute_jit" ELSE "execute"
  /\ UNCHANGED <<options, header, files, seg, image, status, failed>>

Executing == at \in {"debug", "execute_jit", "execute"}

killed ==
  /\ Executing
  /\ at' = "crash"
  /\ UNCHANGED <<options, header, files, seg, image, status, failed>>

(* Mutant of clean_exit: the program headers are not freed.                *)
clean_exit_Leaks ==
  /\ Executing
  /\ memory' = <<>>
  /\ allocated' = allocated \ {"glob"}
  /\ at' = "exit" /\ status' = 0
  /\ UNCHANGED <<options, elf, entry, phdrs, files, seg, pc, sp, failed>>

(* An error of the program does not change the exit status.                *)
clean_exit ==
  /\ Executing
  /\ memory' = <<>>
  /\ allocated' = allocated \ {"glob", IF elf THEN "prg_header" ELSE "glob"}
  /\ at' = "exit" /\ status' = 0
  /\ UNCHANGED <<options, elf, entry, phdrs, files, seg, pc, sp, failed>>

(* free() of a prg_header that nobody assigned.                            *)
clean_exit_crashes ==
  /\ Executing /\ Garbage
  /\ memory' = <<>>
  /\ at' = "crash"
  /\ UNCHANGED <<options, header, files, seg, pc, sp, status, failed>>

ended == at \in {"exit", "crash"} /\ UNCHANGED vars

LoadStep ==
  \/ Usage \/ init_global \/ open_file \/ open_file_refuses \/ open_file_fails
  \/ read_flat \/ read_elf \/ read_refuses \/ read_fails
  \/ get_program_size_crashes \/ map_elf \/ map_elf_refuses
  \/ copy_segment \/ skip_segment \/ segment_refused \/ segments_done
  \/ init_memory \/ init_memory_refuses \/ start

Next == LoadStep \/ killed \/ clean_exit \/ clean_exit_crashes \/ ended

(* The loader is straight-line code and loops over a table.                *)
Spec == Init /\ [][Next]_vars /\ WF_vars(LoadStep)

-----------------------------------------------------------------------------
(* What the file says memory holds: its last segment over an address, with *)
(* zeros where there is none and where the file ends; the whole file when  *)
(* it is no ELF.                                                           *)
InFile(k) == IF k < file.size THEN file.bytes[k + 1] ELSE 0
SegmentsAt(a) == {k \in DOMAIN file.phdrs :
                    LET ph == PhdrRead(k) IN
                    ph.load /\ ph.vaddr <= a /\ a < ph.vaddr + ph.filesz
                            /\ ph.offset + a - ph.vaddr < file.size}
ByteAt(a) == IF ~ check_header THEN InFile(a)
             ELSE IF SegmentsAt(a) = {} THEN 0
             ELSE LET ph == file.phdrs[Max(SegmentsAt(a))] IN InFile(ph.offset + a - ph.vaddr)

(* No segment is larger than what one pread transfers.                     *)
OneTransfer ==
  \A k \in DOMAIN file.phdrs : PhdrRead(k).load => PhdrRead(k).filesz <= MAX_TRANSFER

(* A program starts on the memory its file describes, at its entry, with   *)
(* zeros in its .bss (README: Memory model; map_elf.c:37 "Anonymous        *)
(* mappings are zero-filled") and without the descriptor it was loaded     *)
(* from, unless a segment is larger than one pread, of which map_elf loads *)
(* the beginning.  The stack is at the last word.  On a glob->elf that     *)
(* nobody assigned what starts is nothing of any file: memory is zero.     *)
StartsOnImage ==
  Executing =>
    /\ sp = MEM_SIZE - 4
    /\ IF Garbage
       THEN memory = [a \in Addresses |-> 0]
       ELSE /\ ~ check_header \/ OneTransfer => memory = [a \in Addresses |-> ByteAt(a)]
            /\ pc = IF check_header THEN file.entry ELSE 0
            /\ descriptors = {}

(* Nothing runs after an error, with one exception: neither a file that is *)
(* refused, nor a call that failed on the way, nor a segment out of bounds *)
(* (init_global, binary_or_elf, map_elf).  init_global does not look at    *)
(* what binary_or_elf returns; that the -1 stops it rests on init_memory,  *)
(* so on a 0 in glob->elf.                                                 *)
ErrorsStop ==
  Executing /\ ~ Garbage =>
    /\ Loadable /\ HeaderReadable /\ ~ failed
    /\ check_header => \A k \in DOMAIN file.phdrs :
                         PhdrRead(k).load => ~ OutOfBounds(PhdrRead(k))

(* The exit status is 0 exactly when something ran, and then everything on *)
(* the heap was freed, but for a table that could not be read when         *)
(* glob->elf was garbage (main, clean_exit).                               *)
ExitTells ==
  at = "exit" => /\ status = 0 => sp # 0 /\ allocated \subseteq IF Garbage THEN {"table"} ELSE {}
                 /\ status = 1 => sp = 0 /\ "glob" \notin allocated

(* The loader comes to an end: the program starts, is refused, or crashes. *)
LoadEnds == <>(Executing \/ at \in {"exit", "crash"})

(* README:4 "It loads a MIPS little-endian program (either a flat binary   *)
(* produced with objcopy, or an ELF executable)": a flat binary that fits  *)
(* is only refused when some call failed.                                  *)
FlatBinariesLoad ==
  status = 1 /\ args # <<>> /\ Loadable =>
    failed \/ file.size = 0 \/ check_header
=============================================================================
