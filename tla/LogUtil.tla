------------------------------ MODULE LogUtil -------------------------------
(***************************************************************************)
(* xnu-trace-log-util (tools/xnu-trace-log-util): the reports it makes of  *)
(* a stalker's trace, from the pcs of the threads and from the regions and *)
(* symbols saved with it.  A report is one action; it ends with the result *)
(* in out, or with a failed assert.                                        *)
(***************************************************************************)
EXTENDS MachORegions, BasicBlocks, LoopBlocks

CONSTANTS
  SzRange,  \* the number of values of drcov_bb_t::sz
  Cores,    \* the numbers of threads of the pool
  Limits    \* arguments of --max-histogram-insts

VARIABLES
  out       \* the report

vars == <<regionVars, out>>

Init == RegionInit /\ out = [tool |-> "none", failed |-> FALSE]

-----------------------------------------------------------------------------
(* The trace as it is read back.                                           *)

Executed == UNION {ToSet(PcsOf(t)) : t \in Threads}
Logged == {t \in Threads : trace[t] # <<>>}

\* extract_pcs_from_trace: the front sync frame repeats the first pc
\* (TraceReader!PcsReadBack).
ExtractedPcs(t) == <<PcsOf(t)[1]>> \o PcsOf(t)

\* tbbs: the blocks of each thread, by thread id (m_parsed_logs is a std::map)
AllBbs ==
  LET tids == SetToSortSeq(Logged, <)
  IN FlattenSeq([k \in DOMAIN tids |-> ExtractBbs(ExtractedPcs(tids[k]))])

\* Two regions with the same bytes have one digest; the second finds its bytes moved
\* away and fails the assert on their size.
Loads ==
  LET Bytes(r) == [k \in 1 .. r.size \div PageSz |-> r.bytes[PageOf(r.base) + k - 1]]
  IN \A j, k \in DOMAIN m_regions : Bytes(m_regions[j]) = Bytes(m_regions[k]) => j = k

Report(tool, fails, result) ==
  /\ phase = "written" /\ phase' = "done"
  /\ UNCHANGED <<programVars, stalkerVars, trace, changed, changes>>
  /\ \/ /\ Loads /\ ~fails
        /\ out' = [tool |-> tool, failed |-> FALSE, result |-> result]
     \/ /\ ~Loads \/ fails
        /\ out' = [tool |-> tool, failed |-> TRUE]

\* Some block begins in no region.
Homeless(bbs) == \E k \in DOMAIN bbs : LookupIdx(m_regions, bbs[k].pc) = 0

-----------------------------------------------------------------------------
(* Coverage.                                                               *)

\* drcov_bb_t
DrcovEntry(bb) ==
  LET k == LookupIdx(m_regions, bb.pc)
  IN [mod_off |-> bb.pc - m_regions[k].base, sz |-> bb.sz % SzRange, mod_id |-> k - 1]

write_drcov_coverage ==
  LET bbs == AllBbs
  IN Report("drcov", Homeless(bbs),
       [table |-> [k \in DOMAIN m_regions |-> m_regions[k].base],
        bbs   |-> [k \in DOMAIN bbs |-> DrcovEntry(bbs[k])]])

\* One line: image and offset and, if asked for and found, symbol and offset
LighthouseLine(bb, symbolicate) ==
  LET r == m_regions[LookupIdx(m_regions, bb.pc)]
  IN [name |-> r.name, off |-> bb.pc - r.base,
      sym  |-> IF symbolicate
               THEN {<<s.name, bb.pc - s.base>> : s \in SymbolAt(saved, bb.pc)} ELSE {}]

write_lighthouse_coverage(symbolicate) ==
  LET bbs == AllBbs
  IN Report("lighthouse", Homeless(bbs),
       [symbolicate |-> symbolicate,
        lines |-> [k \in DOMAIN bbs |-> LighthouseLine(bbs[k], symbolicate)]])

-----------------------------------------------------------------------------
(* Calls.                                                                  *)

\* Slip: the caller is the first instruction of the block before.
Caller_First(bb, slide) == bb.pc - slide

\* calling_pc_unslid: the last instruction of the block before
Caller(bb, slide) == bb.pc + bb.sz - 4 - slide

\* last_img_info and last_bb are not reset between threads, so the block before the
\* first of a thread is the last of the thread before.
dump_calls_from(name) ==
  LET bbs == AllBbs
      target == LookupName(m_regions, name)
      called == {k \in 2 .. Len(bbs) :
                   /\ LookupIdx(m_regions, bbs[k - 1].pc) = target
                   /\ \E s \in SymbolAt(saved, bbs[k].pc) : s.base = bbs[k].pc}
      slide == m_regions[target].slide
  IN Report("calls", target = 0 \/ Homeless(bbs),
       [slide |-> slide, target |-> target,
        calls |-> {[sym |-> bbs[k].pc, pc |-> Caller(bbs[k - 1], slide)] : k \in called}])

-----------------------------------------------------------------------------
(* Histogram.                                                              *)

\* The rounds of a loop over n instructions, each with the block it falls into
Rounds(n, cores) ==
  UNION {{i} \X (Start(n, cores, i) + 1 .. End(n, cores, i)) :
           i \in 0 .. NumBlocks(n, cores) - 1}

\* Slip: the cache is indexed by the lower bits.
AddedOp_LowBits(fetched, x) ==
  LET same == {y \in fetched : y[1] = x[1] /\ y[3].lo = x[3].lo}
  IN (CHOOSE y \in same : \A z \in same : y[2] <= z[2])[3].op

\* The operation ARM64InstrHistogram::add counts for <<block, round, inst>>:
\* m_instr_to_op_lut is indexed by the upper 22 bits, so it is that of the first such
\* instruction of the block.
AddedOp(fetched, x) ==
  LET same == {y \in fetched : y[1] = x[1] /\ y[3].hi = x[3].hi}
  IN (CHOOSE y \in same : \A z \in same : y[2] <= z[2])[3].op

\* print(max_num): operations that occurred, most frequent first; std::sort leaves the
\* order of equals open.
Printed(hist, max_num, order) ==
  LET n == IF max_num < 0 THEN Len(order) ELSE max_num
  IN [k \in 1 .. n |-> IF k <= Len(order) THEN <<order[k], hist[order[k]]>> ELSE <<NoOp, 0>>]

\* The pages a page that no region has may be taken for
Strangers ==
  LET pages == UNION {DOMAIN r.bytes : r \in ToSet(m_regions)}
  IN IF \A pc \in Executed : PageOf(pc) \in pages THEN {Min(pages)} ELSE pages

\* sorted[0] is read, so there must be something to print.
dump_histogram(cores, stranger) ==
  LET h == create_hash(m_regions)
      Fetched(t) == LET pcs == ExtractedPcs(t)
                    IN {<<r[1], r[2], LookupInst(h, pcs[r[2]], stranger)>> :
                          r \in Rounds(Len(pcs), cores)}
      Added(fetched) == {<<x[1], x[2], AddedOp(fetched, x)>> : x \in fetched}
      added == UNION {{t} \X Added(Fetched(t)) : t \in Logged}
      ops == {x[2][3] : x \in added}
      hist == [op \in ops |-> Cardinality({x \in added : x[2][3] = op})]  \* operator+=
      Sorted(s) == \A j, k \in DOMAIN s : j < k => hist[s[j]] >= hist[s[k]]
  IN /\ phase = "written" /\ Logged # {}
     /\ \E max_num \in Limits, order \in SetToSeqs(ops) :
          /\ Sorted(order)
          /\ Report("histogram", NoOp \in ops,
               [hist |-> hist, top |-> Printed(hist, max_num, order)])

Next ==
  \/ RegionNext /\ UNCHANGED out
  \/ write_drcov_coverage
  \/ \E symbolicate \in BOOLEAN : write_lighthouse_coverage(symbolicate)
  \/ \E name \in {<<i.name>> : i \in Images} : dump_calls_from(name)
  \/ /\ phase = "written"
     /\ \E cores \in Cores, stranger \in Strangers : dump_histogram(cores, stranger)

Spec == Init /\ [][Next]_vars

-----------------------------------------------------------------------------
(* Properties.                                                             *)

Done(tool) == out.tool = tool /\ ~out.failed
AllKnown == \A t \in Threads : \A k \in DOMAIN trace[t] : trace[t][k].known
\* Where the straight run of instructions that k belongs to begins
RunStart(pcs, k) == Max({j \in 1 .. k : j = 1 \/ pcs[j - 1] + 4 # pcs[j]})

\* The one snapshot of the regions serves the whole trace: for every instruction of an
\* image, or of a region that has tag 0xFF and does not begin at an image's base, whose
\* page the program had left alone since, a region is found and lookup_inst returns the
\* instruction that was executed, also where generated code lies over an image.  A
\* report fails only if there is other code in the trace, if two regions cannot be told
\* apart by their digests, or if the calling image is not there.
FetchesWhatRan ==
  /\ phase = "written" =>
       LET h == create_hash(m_regions) IN
       \A t \in Threads : \A k \in DOMAIN trace[t] :
         trace[t][k].known =>
           /\ LookupIdx(m_regions, trace[t][k].pc) # 0
           /\ PageOf(trace[t][k].pc) \in DOMAIN h
           /\ \A p \in DOMAIN h : LookupInst(h, trace[t][k].pc, p) = trace[t][k].inst
  /\ out.failed /\ Loads => ~AllKnown \/ out.tool = "calls"

\* A call that is listed was made, from that instruction of the calling image to that
\* symbol, unless a thread's trace begins at the symbol (the block before it is then the
\* last one of another thread, or the first pc once more).  A branch out of a run that
\* began in the image, to where the symbol found for it begins, is listed unless the
\* trace of the thread ends right there, although only symbols near executed
\* instructions were saved.
CallsAreSeen ==
  Done("calls") =>
    LET calls == out.result.calls
        slide == out.result.slide
    IN /\ \A c \in calls : \E t \in Logged :
            \/ PcsOf(t)[1] = c.sym
            \/ \E k \in 2 .. Len(trace[t]) :
                 PcsOf(t)[k - 1] = c.pc + slide /\ PcsOf(t)[k] = c.sym
       /\ \A t \in Logged : \A k \in 2 .. Len(trace[t]) - 1 :
            LET pcs == PcsOf(t) IN
            /\ pcs[k - 1] + 4 # pcs[k]
            /\ LookupIdx(m_regions, pcs[RunStart(pcs, k - 1)]) = out.result.target
            /\ \E s \in SymbolAt(m_syms, pcs[k]) : s.base = pcs[k]
            => [sym |-> pcs[k], pc |-> pcs[k - 1] - slide] \in calls

\* What a reader of the coverage files marks was executed, and what was executed is
\* marked, except the last instruction of a thread and, in a drcov file, blocks too long
\* for their size field.  The symbols in a lighthouse file are the ones the program's
\* full symbol table would have given.
CoverageIsTrace ==
  /\ Done("drcov") =>
       LET Base(e) == out.result.table[e.mod_id + 1] + e.mod_off
           marked == UNION {{Base(e) + 4 * n : n \in 0 .. (e.sz \div 4) - 1} :
                              e \in ToSet(out.result.bbs)}
           long == {bb \in ToSet(AllBbs) : bb.sz >= SzRange}
       IN /\ marked \subseteq Executed
          /\ long = {} => Executed \ marked \subseteq {Last(PcsOf(t)) : t \in Logged}
  /\ Done("lighthouse") =>
       LET At(e) == m_regions[LookupName(m_regions, e.name)].base + e.off
           lines == ToSet(out.result.lines)
       IN /\ {At(e) : e \in lines} \subseteq Executed
          /\ \A t \in Logged : \A k \in 1 .. Len(trace[t]) - 1 :
               \E e \in lines : At(e) = PcsOf(t)[RunStart(PcsOf(t), k)]
          /\ \A e \in lines : out.result.symbolicate =>
               e.sym = {<<s.name, At(e) - s.base>> : s \in SymbolAt(m_syms, At(e))}

\* However the trace is divided among the threads of the pool, each of which fills a
\* cache of its own, the histogram counts every instruction once and the first of every
\* thread twice.  If all code in the trace is code that FetchesWhatRan is about, it is
\* exact for each operation that no other operation shares the upper 22 bits of an
\* encoding with.  The lines printed are the most frequent ones.
HistogramIsExact ==
  Done("histogram") =>
    LET hist == out.result.hist
        top == out.result.top
        ran == {<<t, k>> \in Threads \X (1 .. MaxTotal) : k \in DOMAIN trace[t]}
        Inst(x) == trace[x[1]][x[2]].inst
        Times(S) == Cardinality(S) + Cardinality({x \in S : x[2] = 1})
        own == {Inst(x).op : x \in ran} \
                 {Inst(x).op : x \in {y \in ran :
                    \E z \in ran : Inst(y).hi = Inst(z).hi /\ Inst(y).op # Inst(z).op}}
    IN /\ FoldSet(LAMBDA op, sum : hist[op] + sum, 0, DOMAIN hist) = Times(ran)
       /\ AllKnown => \A op \in own :
            op \in DOMAIN hist /\ hist[op] = Times({x \in ran : Inst(x).op = op})
       /\ \A op \in DOMAIN hist : \A k \in DOMAIN top :
            hist[op] > top[k][2] => \E j \in 1 .. k - 1 : top[j][1] = op
=============================================================================
