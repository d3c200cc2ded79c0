---------------------------- MODULE MachORegions ----------------------------
(***************************************************************************)
(* What a trace knows of the code it executed: MachORegions and Symbols    *)
(* (lib/xnu-trace/MachORegions.cpp, Symbols.cpp) as FridaStalker uses      *)
(* them.  Both are taken once, when the stalker is created, from a program *)
(* that goes on loading and unloading images and generating code while its *)
(* threads are followed; TraceLog::write saves them when the stalker is    *)
(* destroyed.                                                              *)
(*                                                                         *)
(* Addresses are in bytes, instructions have four.  A page's contents are  *)
(* the sequence of its instructions, an instruction a record of its upper  *)
(* 22 bits, its lower 10 bits and the operation aarch64_decompose finds,   *)
(* NoOp for what is not an instruction.                                    *)
(***************************************************************************)
EXTENDS Integers, Sequences, FiniteSets, SequencesExt, FiniteSetsExt

CONSTANTS
  PageSz,     \* PAGE_SZ
  Images,     \* images: [base, name, segs: [exec, vmaddr, vmsize], text: the pages' contents]
  Main,       \* the images that are never unloaded
  JitMaps,    \* executable regions it may map, over images, too: [base, size, tag]
  JitTexts,   \* for each of them, contents of its pages that it may write
  SymTab,     \* symbols of the images: [base, size, name]
  Threads,    \* thread ids, naturals
  MaxInst,    \* bound: instructions traced, of each thread
  MaxTotal,   \* bound: instructions traced
  MaxChanges  \* bound: changes of the address space after the snapshot

VARIABLES
  images,    \* the images dyld lists
  jits,      \* the regions it has mapped and their pages' contents
  phase,     \* "start", "traced", "written" or "done"; "failed"
  m_regions, \* MachORegions::m_regions
  m_syms,    \* Symbols::m_syms; symbols with one base are in any order
  saved,     \* the symbols write() puts into meta.bin
  trace,     \* what each thread executed: [pc, inst, known]
  changed,   \* history: pages changed since the snapshot
  changes    \* history: changes since the snapshot

programVars == <<images, jits>>
stalkerVars == <<m_regions, m_syms, saved>>
regionVars == <<programVars, phase, stalkerVars, trace, changed, changes>>

NoOp == "none"

-----------------------------------------------------------------------------
(* The program.                                                            *)

RoundUp(size) == ((size + PageSz - 1) \div PageSz) * PageSz   \* roundup_pow2_mul
PageOf(addr) == addr \div PageSz

PagesOf(i) == {PageOf(i.base) + k - 1 : k \in DOMAIN i.text}
PagesIn(m) == PageOf(m.base) .. PageOf(m.base + m.size) - 1

JitPages == UNION {PagesIn(m) : m \in DOMAIN jits}
ImagePages == UNION {PagesOf(i) : i \in images}
Mapped == JitPages \union ImagePages

\* The contents of mapped page p: one mapped later lies over an image.
Memory(p) ==
  IF p \in JitPages
  THEN LET m == CHOOSE m \in DOMAIN jits : p \in PagesIn(m)
       IN jits[m][p - PageOf(m.base) + 1]
  ELSE LET i == CHOOSE i \in images : p \in PagesOf(i)
       IN i.text[p - PageOf(i.base) + 1]

\* The program changes these pages; before the snapshot anything may have happened.
Change(pages) ==
  /\ phase = "traced" /\ changes < MaxChanges
  /\ changes' = changes + 1
  /\ changed' = changed \union pages
  /\ UNCHANGED <<phase, stalkerVars, trace>>

Dlopen(i) ==
  /\ Change(PagesOf(i)) /\ UNCHANGED jits
  /\ i \notin images /\ PagesOf(i) \cap Mapped = {}
  /\ images' = images \union {i}

Dlclose(i) ==
  /\ Change(PagesOf(i)) /\ UNCHANGED jits
  /\ i \in images \ Main /\ PagesOf(i) \cap JitPages = {}
  /\ images' = images \ {i}

\* The program maps region m, if it has not yet, and writes code to it.
WriteCode(m, text) ==
  /\ Change({p \in PagesIn(m) :
               m \in DOMAIN jits => Memory(p) # text[p - PageOf(m.base) + 1]})
  /\ \A n \in DOMAIN jits \ {m} : PagesIn(m) \cap PagesIn(n) = {}
  /\ m \in DOMAIN jits => jits[m] # text
  /\ jits' = (m :> text) @@ jits /\ UNCHANGED images

-----------------------------------------------------------------------------
(* The snapshot.                                                           *)

ExecSegs(i) == {s \in i.segs : s.exec}

\* read_macho_segs_target, get_text_size and get_text_base: the one executable segment
TextSeg(i) == CHOOSE s \in ExecSegs(i) : TRUE

\* They assert that there is one.
HasTextSeg(i) == Cardinality(ExecSegs(i)) = 1

get_dyld_image_infos ==
  {[base |-> i.base, size |-> TextSeg(i).vmsize, slide |-> i.base - TextSeg(i).vmaddr,
    name |-> <<i.name>>, is_jit |-> FALSE] : i \in images}

\* Sizes are rounded up and the bytes read.
ImageInfos ==
  {[base |-> r.base, size |-> RoundUp(r.size), slide |-> r.slide, name |-> r.name,
    is_jit |-> FALSE,
    bytes |-> [p \in PagesIn([r EXCEPT !.size = RoundUp(@)]) |-> Memory(p)]] :
      r \in get_dyld_image_infos}

\* The executable regions: those of images, here page by page, have other tags than 255.
get_vm_regions ==
  {[base |-> p * PageSz, size |-> PageSz, tag |-> 0] : p \in ImagePages \ JitPages}
    \union DOMAIN jits

\* Of these, the ones with tag 255 whose base is no image's, numbered in their names
JitInfos ==
  LET kept == {v \in get_vm_regions : v.tag = 255 /\ \A i \in images : i.base # v.base}
  IN {[base |-> v.base, size |-> v.size, slide |-> 0,
       name |-> <<"jit", Cardinality({w \in kept : w.base < v.base})>>, is_jit |-> TRUE,
       bytes |-> [p \in PagesIn(v) |-> Memory(p)]] : v \in kept}

ByBase(S) == SetToSortSeq(S, LAMBDA a, b : a.base < b.base)

\* MachORegions::reset, with the task suspended or being the caller
ResetRegions == m_regions' = ByBase(ImageInfos \union JitInfos)

\* The symbols of the loaded images
get_symbols == {s \in SymTab : \E i \in images : PageOf(s.base) \in PagesOf(i)}

\* Symbols::reset
ResetSymbols == m_syms' = get_symbols

\* FridaStalker::FridaStalker.  Its arguments symbolicate and stream matter only when
\* the trace is written.
CreateStalker ==
  /\ phase = "start"
  /\ \/ /\ \A i \in images : HasTextSeg(i)
        /\ phase' = "traced" /\ ResetRegions /\ ResetSymbols
     \/ /\ \E i \in images : ~HasTextSeg(i)
        /\ phase' = "failed" /\ UNCHANGED <<m_regions, m_syms>>
  /\ UNCHANGED <<programVars, saved, trace, changed, changes>>

-----------------------------------------------------------------------------
(* Tracing and writing.                                                    *)

InstAt(addr) == Memory(PageOf(addr))[(addr % PageSz) \div 4 + 1]
Traced == FoldSet(LAMBDA t, sum : Len(trace[t]) + sum, 0, Threads)

\* Page p is of code the snapshot has room for.
Recordable(p) ==
  \/ p \in ImagePages
  \/ \E m \in DOMAIN jits :
       p \in PagesIn(m) /\ m.tag = 255 /\ \A i \in images : i.base # m.base

\* A followed thread executes the instruction at pc, which is mapped; instruction_cb logs
\* it.
Execute(t, pc) ==
  /\ phase = "traced" /\ Len(trace[t]) < MaxInst[t] /\ Traced < MaxTotal
  /\ InstAt(pc).op # NoOp
  /\ trace' = [trace EXCEPT ![t] = Append(@,
                 [pc |-> pc, inst |-> InstAt(pc),
                  known |-> PageOf(pc) \notin changed /\ Recordable(PageOf(pc))])]
  /\ UNCHANGED <<programVars, phase, stalkerVars, changed, changes>>

PcsOf(t) == [k \in DOMAIN trace[t] |-> trace[t][k].pc]

\* The intervals write() compares the symbols with, both ends included
Intervals(stream) ==
  IF stream THEN {<<r.base, r.base + r.size>> : r \in ToSet(m_regions)}
  ELSE {<<pc, pc + 4>> : pc \in UNION {ToSet(PcsOf(t)) : t \in Threads}}

\* Slip: a symbol is kept only if it begins in an interval.
SymbolsInIntervals_Begin(S, I) == {s \in S : \E i \in I : i[1] <= s.base /\ s.base <= i[2]}

\* get_symbols_in_intervals
SymbolsInIntervals(S, I) ==
  {s \in S : \E i \in I : s.base <= i[2] /\ i[1] <= s.base + s.size}

\* FridaStalker::~FridaStalker: TraceLog::write.  Without symbolicate there are no
\* symbols.
WriteTrace(symbolicate, stream) ==
  /\ phase = "traced" /\ phase' = "written"
  /\ m_syms' = IF symbolicate THEN m_syms ELSE {}
  /\ saved' = SymbolsInIntervals(m_syms', Intervals(stream))
  /\ UNCHANGED <<programVars, m_regions, trace, changed, changes>>

RegionInit ==
  /\ images \in {S \in SUBSET Images :
                  Main \subseteq S /\ \A i, j \in S : i = j \/ PagesOf(i) \cap PagesOf(j) = {}}
  /\ \E S \in SUBSET JitMaps :
       /\ \A m, n \in S : m = n \/ PagesIn(m) \cap PagesIn(n) = {}
       /\ jits \in {f \in [S -> UNION {JitTexts[m] : m \in S}] : \A m \in S : f[m] \in JitTexts[m]}
  /\ phase = "start" /\ changes = 0 /\ changed = {}
  /\ m_regions = <<>> /\ m_syms = {} /\ saved = {}
  /\ trace = [t \in Threads |-> <<>>]

RegionNext ==
  \/ \E i \in Images : Dlopen(i) \/ Dlclose(i)
  \/ \E m \in JitMaps : \E text \in JitTexts[m] : WriteCode(m, text)
  \/ CreateStalker
  \/ /\ phase = "traced"
     /\ \E t \in Threads, p \in Mapped, k \in 1 .. PageSz \div 4 :
          Execute(t, p * PageSz + 4 * (k - 1))
  \/ \E symbolicate, stream \in BOOLEAN : WriteTrace(symbolicate, stream)

-----------------------------------------------------------------------------
(* Lookups, of regions rs and symbols S.                                   *)

Covers(r, addr) == r.base <= addr /\ addr < r.base + r.size

\* lookup_idx and lookup(addr): the first match; 0 stands for assert(!"no region found")
LookupIdx(rs, addr) ==
  LET found == {k \in DOMAIN rs : Covers(rs[k], addr)}
  IN IF found = {} THEN 0 ELSE Min(found)

\* lookup(image_name), 0 if the assert on exactly one match fails
LookupName(rs, name) ==
  LET found == {k \in DOMAIN rs : rs[k].name = name}
  IN IF Cardinality(found) = 1 THEN Min(found) ELSE 0

\* Slip: every page of a region gets the region's first bytes.
create_hash_NoOffset(rs) ==
  LET At(p) == {k \in DOMAIN rs : p \in DOMAIN rs[k].bytes}
      Jit(p) == {k \in At(p) : rs[k].is_jit}
  IN [p \in UNION {DOMAIN rs[k].bytes : k \in DOMAIN rs} |->
        LET r == rs[IF Jit(p) # {} THEN Max(Jit(p)) ELSE Min(At(p))]
        IN r.bytes[PageOf(r.base)]]

\* create_hash: "jit regions override base regions"
create_hash(rs) ==
  LET At(p) == {k \in DOMAIN rs : p \in DOMAIN rs[k].bytes}
      Jit(p) == {k \in At(p) : rs[k].is_jit}
  IN [p \in UNION {DOMAIN rs[k].bytes : k \in DOMAIN rs} |->
        rs[IF Jit(p) # {} THEN Max(Jit(p)) ELSE Min(At(p))].bytes[p]]

\* lookup_inst through the hash h; a page that is no key shares the slot of some key
LookupInst(h, addr, stranger) ==
  h[IF PageOf(addr) \in DOMAIN h THEN PageOf(addr) ELSE stranger][(addr % PageSz) \div 4 + 1]

\* Symbols::lookup: the first match in the order of the bases, {} for nullptr
SymbolAt(S, addr) ==
  {s \in S : Covers(s, addr) /\ \A o \in S : Covers(o, addr) => s.base <= o.base}
=============================================================================
