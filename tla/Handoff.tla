------------------------------ MODULE Handoff -------------------------------
(***************************************************************************)
(* From the loader to kmain(): what the Multiboot header asks for, what a  *)
(* loader leaves in the registers and in the structure at ebx, how the     *)
(* entry point hands it to kmain(), and what kmain() makes of it.  Words   *)
(* have WordSize values, and the two magic numbers are constants.          *)
(***************************************************************************)
EXTENDS Integers, Sequences

CONSTANTS
  WordSize,      \* the number of values of a word (2^32)
  HeaderMagic,   \* of the header (0x1BADB002)
  LoaderMagic,   \* of a Multiboot loader (0x2BADB002)
  Top            \* default_stack_pointer

ASSUME WordAssumption ==
  /\ WordSize \in Nat /\ 8 < WordSize
  /\ HeaderMagic \in 0..(WordSize - 1) /\ LoaderMagic \in 0..(WordSize - 1)
  /\ HeaderMagic # LoaderMagic /\ Top \in Nat /\ Top >= 16

VARIABLES
  hpc,
  loader,        \* "multiboot", or "foreign"
  valid,         \* the fields the loader has announced in flags
  info,          \* its structure: what is at each offset
  mode,          \* of the display
  eax, ebx, esp,
  stack,         \* address -> word, of what the entry point has pushed
  initial_esp,
  seen           \* the fields kmain() has read, with what it got

handoffVars == <<hpc, loader, valid, info, mode, eax, ebx, esp, stack, initial_esp, seen>>
-----------------------------------------------------------------------------
(* The fields of the structure in their order.  A structure gives each of  *)
(* them a number of bytes, and packs them.                                 *)
FieldNames ==
  <<"flags", "mem_lower", "mem_upper", "boot_device", "cmdline", "mods_count", "mods_addr",
    "num", "size", "addr", "shndx",
    "mmap_length", "mmap_addr", "drives_length", "drives_addr", "config_table",
    "boot_loader_name", "apm_table",
    "control_info", "mode_info", "mode", "interface_seg", "interface_off", "interface_len">>

Number(name) == CHOOSE i \in DOMAIN FieldNames : FieldNames[i] = name
Starts(struct) ==
  LET start[i \in DOMAIN struct] == IF i = 1 THEN 0 ELSE start[i - 1] + struct[i - 1]
  IN start
FieldOffset(struct, name) == Starts(struct)[Number(name)]

(* Definitions marked "seeded" are deliberate faults, as in Interrupts.    *)
(* Seeded: a word of the section table is forgotten.                       *)
multiboot_info_short ==
  [i \in DOMAIN FieldNames |-> IF i = Number("shndx") THEN 0 ELSE 4]

multiboot_info == [i \in DOMAIN FieldNames |-> 4]

(* The structure of the Multiboot specification: the last four are halves. *)
Protocol == [i \in DOMAIN FieldNames |-> IF i > Number("mode_info") THEN 2 ELSE 4]

(* What the header demands, by the values of the flags.                    *)
HeaderFlags == 7
Demanded(bit) == (HeaderFlags \div bit) % 2 = 1
Memory == 2
Video  == 4

(* Seeded: the flags are left out of the sum.                              *)
ChecksumOfMagic == (-HeaderMagic) % WordSize

Checksum == (-(HeaderMagic + HeaderFlags)) % WordSize

(* mode_type is 1.                                                         *)
VideoMode == "text"

Optional  == {{"cmdline"}, {"mmap_addr", "mmap_length"}, {"boot_loader_name"}}
MemFields == {"mem_lower", "mem_upper"}
Junk      == "junk"

(* A field the loader has not announced holds anything.                    *)
Layout(announced) ==
  [o \in {Starts(Protocol)[i] : i \in DOMAIN Protocol} |->
     LET f == FieldNames[CHOOSE i \in DOMAIN Protocol : Starts(Protocol)[i] = o]
     IN IF f \in announced THEN f ELSE Junk]

HandoffInit ==
  /\ hpc = "load" /\ loader \in {"multiboot", "foreign"}
  /\ valid = {} /\ info = [o \in {} |-> Junk]
  /\ mode \in {"text", "linear"} /\ eax = 0 /\ ebx = 0 /\ esp = 0
  /\ stack = [a \in {} |-> 0] /\ initial_esp = 0 /\ seen = {}

(* A Multiboot loader: what the header demands, and whatever else it can.  *)
Load ==
  /\ hpc = "load" /\ loader = "multiboot"
  /\ IF (HeaderMagic + HeaderFlags + Checksum) % WordSize # 0
     THEN hpc' = "refused" /\ UNCHANGED <<valid, info, mode, eax, ebx>>
     ELSE /\ hpc' = "start"
          /\ \E more \in SUBSET Optional, memory \in BOOLEAN :
               /\ Demanded(Memory) => memory
               /\ valid' = (UNION more) \cup (IF memory THEN MemFields ELSE {})
          /\ info' = Layout(valid')
          /\ mode' = IF Demanded(Video) THEN VideoMode ELSE mode
          /\ eax' = LoaderMagic /\ ebx' \in {1, WordSize - 1}
  /\ UNCHANGED <<loader, esp, stack, initial_esp, seen>>

(* Another loader jumps to the entry point and leaves what it will.        *)
LoadForeign ==
  /\ hpc = "load" /\ loader = "foreign" /\ hpc' = "start"
  /\ eax' \in (0..(WordSize - 1)) \ {LoaderMagic} /\ ebx' \in {0, 1}
  /\ UNCHANGED <<loader, valid, info, mode, esp, stack, initial_esp, seen>>
-----------------------------------------------------------------------------
(* mov esp, default_stack_pointer                                          *)
Start ==
  /\ hpc = "start" /\ hpc' = "push esp" /\ esp' = Top
  /\ UNCHANGED <<loader, valid, info, mode, eax, ebx, stack, initial_esp, seen>>

(* A push stores what esp was before it, and so does the call.             *)
Push(from, to, word) ==
  /\ hpc = from /\ hpc' = to
  /\ esp' = esp - 4
  /\ stack' = [a \in DOMAIN stack \cup {esp - 4} |-> IF a = esp - 4 THEN word ELSE stack[a]]
  /\ UNCHANGED <<loader, valid, info, mode, eax, ebx, initial_esp, seen>>

(* Seeded: the arguments are pushed in the order of the parameters.        *)
EntryPointForward ==
  \/ Push("push esp", "push eax", ebx) \/ Push("push eax", "push ebx", eax)
  \/ Push("push ebx", "call", esp) \/ Push("call", "kmain", 0)

EntryPoint ==
  \/ Push("push esp", "push eax", esp) \/ Push("push eax", "push ebx", eax)
  \/ Push("push ebx", "call", ebx) \/ Push("call", "kmain", 0)

(* The parameters of kmain, above the return address.                      *)
mboot_info_ptr == stack[esp + 4]
magic          == stack[esp + 8]
initial_stack  == stack[esp + 12]

Kmain ==
  /\ hpc = "kmain" /\ hpc' = "check" /\ initial_esp' = initial_stack
  /\ UNCHANGED <<loader, valid, info, mode, eax, ebx, esp, stack, seen>>

Expected == LoaderMagic

CheckMagic ==
  /\ hpc = "check" /\ hpc' = IF magic # Expected THEN "panic" ELSE "boot_loader_name"
  /\ UNCHANGED <<loader, valid, info, mode, eax, ebx, esp, stack, initial_esp, seen>>

(* print_kernel_context_info(), field by field; paging takes mem_upper.    *)
After == [boot_loader_name |-> "cmdline", cmdline |-> "mem_lower", mem_lower |-> "mem_upper",
          mem_upper |-> "mmap_addr", mmap_addr |-> "mmap_length", mmap_length |-> "paging"]

At(name) ==
  LET o == FieldOffset(multiboot_info, name)
  IN IF mboot_info_ptr = ebx /\ o \in DOMAIN info THEN info[o] ELSE Junk

ReadField ==
  /\ hpc \in DOMAIN After /\ hpc' = After[hpc]
  /\ seen' = seen \cup {<<hpc, At(hpc)>>}
  /\ UNCHANGED <<loader, valid, info, mode, eax, ebx, esp, stack, initial_esp>>

PagingInit ==
  /\ hpc = "paging" /\ hpc' = "done"
  /\ seen' = seen \cup {<<"mem_upper", At("mem_upper")>>}
  /\ UNCHANGED <<loader, valid, info, mode, eax, ebx, esp, stack, initial_esp>>

HandoffNext ==
  Load \/ LoadForeign \/ Start \/ EntryPoint \/ Kmain \/ CheckMagic \/ ReadField \/ PagingInit

HandoffSpec == HandoffInit /\ [][HandoffNext]_handoffVars
-----------------------------------------------------------------------------
Reading == DOMAIN After \cup {"paging", "done"}

(* The loader takes the header, and gives the kernel what it demands: the  *)
(* console writes to the memory of the text mode, which is on display.     *)
HeaderServes ==
  /\ hpc # "refused"
  /\ hpc \in {"kmain", "check"} \cup Reading /\ loader = "multiboot" => mode = "text"

(* kmain() finds its parameters where the entry point pushed them: what    *)
(* the loader left in the registers, and the stack as it was at first; and *)
(* so it reads the structure of a Multiboot loader, and panics under any   *)
(* other.                                                                  *)
ParametersArrive ==
  /\ hpc \in {"kmain", "check"} \cup Reading =>
       mboot_info_ptr = ebx /\ magic = eax /\ initial_stack = Top
  /\ hpc \in {"check", "panic"} \cup Reading => initial_esp = Top
  /\ hpc \in Reading => loader = "multiboot"
  /\ hpc = "panic" => loader = "foreign"

(* Each field kmain() reads holds what the loader put there under that     *)
(* name, or what it has not announced, as flags is not looked at; but the  *)
(* size of memory is always known, since the header demands it.            *)
FieldsAreTheLoaders ==
  \A s \in seen : s[2] = IF s[1] \in valid \cup MemFields THEN s[1] ELSE Junk
=============================================================================
