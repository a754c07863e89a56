-------------------------- MODULE VirtualMemory --------------------------
(***************************************************************************)
(* The address space of the checker: an identity map of eight sections of  *)
(* 1 MB, set up once (equiv-mmu.h, equiv-pt.c), and the domain access      *)
(* register, which the read/write tracker flips between "check the         *)
(* permissions of kernel memory" and "do not" (equiv-rw-set.c).            *)
(*                                                                         *)
(* An address is a section, an address >> 20.                              *)
(***************************************************************************)
EXTENDS Integers, Sequences

CONSTANTS
  IntStack, Stack,   \* the sections below INT_STACK_ADDR and STACK_ADDR
  Unmapped           \* sections without an entry

kern_dom == 1
user_dom == 2
Domains  == 0..15

\* The sections of procmap_default_mk that have names: the program, the
\* heap, and the copy of the functions under test.
Code == 0
Heap == 1
User == 3
Sections == {Code, Heap, User, 512, 513, 514, IntStack, Stack} \cup Unmapped

ASSUME SectionsAssumption ==
  /\ {IntStack, Stack} \cup Unmapped \subseteq 0..4095
  /\ {IntStack, Stack} \cap {Code, Heap, User, 512, 513, 514} = {}
  /\ Unmapped \cap {Code, Heap, User, 512, 513, 514, IntStack, Stack} = {}

VARIABLES
  procmap,        \* the entries that were pushed
  pt,             \* the page table: pt[s], the descriptor of section s
  dacr,           \* the domain access register: dacr[d], two bits for domain d
  MMU_enabled,
  next            \* the loop variable of vm_map_kernel

vmVars == <<procmap, pt, dacr, MMU_enabled, next>>

\* Access permissions (APX, AP) and the values of a field of dacr.
perm_rw_priv   == "perm_rw_priv"
DOM_no_access  == 0
DOM_client     == 1
DOM_manager    == 3

NoEntry == [tag |-> 0]

\* vm_map_sec: device and normal memory differ in their caching only.
Descriptor(e) == [tag |-> 2, domain |-> e.dom, perm |-> perm_rw_priv]

-----------------------------------------------------------------------------
VMInit ==
  /\ procmap = <<>>
  /\ pt = [s \in Sections |-> NoEntry]
  /\ dacr \in {[d \in Domains |-> DOM_no_access], [d \in Domains |-> DOM_manager]}
  /\ MMU_enabled = FALSE
  /\ next = 1

\* procmap_default_mk(kern_dom, user_dom)
Entry(s, d) == [addr |-> s, dom |-> d]

ProcmapDefaultMk ==
  /\ procmap = <<>>
  /\ procmap' = << Entry(512, kern_dom), Entry(513, kern_dom), Entry(514, kern_dom),
                   Entry(User, user_dom), Entry(Code, kern_dom), Entry(Heap, kern_dom),
                   Entry(IntStack, kern_dom), Entry(Stack, kern_dom) >>
  /\ UNCHANGED <<pt, dacr, MMU_enabled, next>>

\* One iteration of the loop of vm_map_kernel.
VmMapSec ==
  /\ ~ MMU_enabled /\ next \in DOMAIN procmap
  /\ pt' = [pt EXCEPT ![procmap[next].addr] = Descriptor(procmap[next])]
  /\ next' = next + 1
  /\ UNCHANGED <<procmap, dacr, MMU_enabled>>

\* The rest of it: dom_perm of the domains in use, then the MMU is turned on.
dom_ids == {procmap[i].dom : i \in DOMAIN procmap}

VmMmuEnable ==
  /\ ~ MMU_enabled /\ procmap # <<>> /\ next > Len(procmap)
  /\ dacr' = [d \in Domains |-> IF d \in dom_ids THEN DOM_manager ELSE DOM_no_access]
  /\ MMU_enabled' = TRUE
  /\ UNCHANGED <<procmap, pt, next>>

VMBoot == ProcmapDefaultMk \/ VmMapSec \/ VmMmuEnable

\* The domain whose field starts at a bit of the register.
FieldAt(bit) == bit \div 2

\* set_data_faults: bits user_dom and user_dom+1, which is the field of
\* kern_dom, because user_dom = 2 * kern_dom.
DataFaults(enable) ==
  [dacr EXCEPT ![FieldAt(user_dom)] = IF enable THEN DOM_client ELSE DOM_manager]

-----------------------------------------------------------------------------
\* What the memory system answers to an access (the ARM manual, B4): the
\* kind of fault, as the status in the fault status register tells it.
Permitted(mode, perm) == mode # "user" \/ perm # perm_rw_priv

Fault(mode, s) ==
  IF ~ MMU_enabled THEN "none"
  ELSE IF pt[s].tag = 0 THEN "translation"
  ELSE IF dacr[pt[s].domain] = DOM_no_access THEN "domain"
  ELSE IF dacr[pt[s].domain] = DOM_client /\ ~ Permitted(mode, pt[s].perm) THEN "permission"
  ELSE "none"
=============================================================================
