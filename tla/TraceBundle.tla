---------------------------- MODULE TraceBundle -----------------------------
(***************************************************************************)
(* The trace directory over several tracing sessions: the writing          *)
(* constructor of TraceLog, log() in stream mode, write(), the closing of  *)
(* the files (CompressedFile) and the reading constructor, with a crash    *)
(* possible between any two file operations (lib/xnu-trace/TraceLog.cpp,   *)
(* CompressedFile.cpp, MachORegions.cpp).                                  *)
(*                                                                         *)
(* A CompressedFile that is being written holds nothing on disk until its  *)
(* buffers are first flushed ("empty"), then headers and some data with a  *)
(* decompressed_size of 0 ("partial"), and is "full" once its destructor   *)
(* has run.  A region's contents stand for their digest as well.           *)
(***************************************************************************)
EXTENDS Naturals, FiniteSets

CONSTANTS
  Regions,     \* images a target may have mapped: [base, name, content]
  Prefix(_),   \* the four digest bytes that are part of a file's name
  Threads,     \* target threads
  MaxSessions  \* bound: tracing sessions in one directory

ASSUME ConstantsAssumption == IsFiniteSet(Regions) /\ MaxSessions \in Nat

VARIABLES
  \* the directory
  meta,     \* meta.bin: [state, session, regions]
  regionF,  \* macho-region-*.bin: path -> [state, digest]
  threadF,  \* thread-*.bin: tid -> [state, session, mode]
  \* the writer
  pc,       \* where the tracing process is, "down" if there is none
  session,  \* number of the session
  mode,     \* "whole", or "stream" or "rawStream" (--stream, uncompressed)
  traced,   \* the regions of its target (MachORegions::regions)
  log,      \* the threads it has logged
  reused,   \* reused_macho_regions
  todo,     \* regions whose file write() has not come to yet
  poisoned  \* history: some tracer died with a region file open

dirVars == <<meta, regionF, threadF>>
writerVars == <<session, mode, traced, log, reused, todo, poisoned>>
vars == <<dirVars, pc, writerVars>>

Absent == [state |-> "absent"]
\* image_info::log_path: base name and the first digest bytes
Path(r) == <<r.name, Prefix(r.content)>>
Paths == {Path(r) : r \in Regions}
Contents == {r.content : r \in Regions}

States == {"empty", "partial", "full"}
\* Whether logs are streamed and, if they are, with which compression_level: files
\* that are not streamed are closed as soon as they are written.
Modes == {"whole", "stream", "rawStream"}
TypeOK ==
  /\ meta \in {Absent} \union
       [state : States, session : 1 .. MaxSessions, regions : SUBSET Regions]
  /\ regionF \in [Paths -> {Absent} \union [state : States, digest : Contents]]
  /\ threadF \in [Threads -> {Absent} \union
       [state : States, session : 1 .. MaxSessions, mode : Modes]]
  /\ pc \in {"down", "clean", "log", "scan", "remove", "write", "end", "close", "closed"}
  /\ session \in 0 .. MaxSessions /\ mode \in Modes
  /\ traced \in SUBSET Regions /\ log \in SUBSET Threads
  /\ reused \in SUBSET Paths /\ todo \in SUBSET Regions /\ poisoned \in BOOLEAN

Init ==
  /\ meta = Absent
  /\ regionF = [p \in Paths |-> Absent]
  /\ threadF = [t \in Threads |-> Absent]
  /\ pc = "down" /\ session = 0 /\ mode = "whole" /\ traced = {} /\ log = {} /\ reused = {}
  /\ todo = {} /\ poisoned = FALSE

-----------------------------------------------------------------------------
(* Files.                                                                  *)

Present(f) == {k \in DOMAIN f : f[k] # Absent}

\* stdio writes out what a file being written holds so far
FlushSome ==
  /\ \/ /\ pc \in {"scan", "remove", "write"} /\ meta.state = "empty"
        /\ meta' = [meta EXCEPT !.state = "partial"]
        /\ UNCHANGED <<regionF, threadF>>
     \/ /\ pc = "write"
        /\ \E p \in Present(regionF) :
             /\ regionF[p].state = "empty"
             /\ regionF' = [regionF EXCEPT ![p].state = "partial"]
        /\ UNCHANGED <<meta, threadF>>
     \/ /\ pc \notin {"down", "clean"}
        /\ \E t \in Present(threadF) :
             /\ threadF[t].state = "empty"
             /\ threadF' = [threadF EXCEPT ![t].state = "partial"]
        /\ UNCHANGED <<meta, regionF>>
  /\ UNCHANGED <<pc, writerVars>>

-----------------------------------------------------------------------------
(* The writer.                                                             *)

\* A tracer starts in this directory, on a target with these regions.
Start(rs, m) ==
  /\ pc \in {"down", "closed"} /\ session < MaxSessions
  /\ rs # {}                          \* every target has images
  /\ pc' = "clean" /\ session' = session + 1 /\ mode' = m
  /\ traced' = rs /\ log' = {} /\ reused' = {} /\ todo' = {}
  /\ UNCHANGED <<dirVars, poisoned>>

\* Slip: the constructor removes only meta.bin.
CleanOne_MetaOnly ==
  /\ pc = "clean"
  /\ meta' = Absent
  /\ pc' = "log"
  /\ UNCHANGED <<regionF, threadF, writerVars>>

\* TraceLog::TraceLog removes, one by one in some order, all but the region files.
CleanOne ==
  /\ pc = "clean"
  /\ \/ /\ meta # Absent /\ meta' = Absent
        /\ UNCHANGED <<threadF, pc>>
     \/ /\ \E t \in Present(threadF) : threadF' = [threadF EXCEPT ![t] = Absent]
        /\ UNCHANGED <<meta, pc>>
     \/ /\ meta = Absent /\ Present(threadF) = {}
        /\ pc' = "log"
        /\ UNCHANGED <<meta, threadF>>
  /\ UNCHANGED <<regionF, writerVars>>

\* A thread's file, just opened
NewLog == [state |-> "empty", session |-> session, mode |-> mode]

\* The first log() of a thread; in stream mode it opens the thread's file.
LogThread(t) ==
  /\ pc = "log" /\ t \notin log
  /\ log' = log \union {t}
  /\ threadF' = IF mode # "whole" THEN [threadF EXCEPT ![t] = NewLog] ELSE threadF
  /\ UNCHANGED <<meta, regionF, pc, session, mode, traced, reused, todo, poisoned>>

\* write(): meta.bin is opened, and stays open until write() returns.
WriteMeta ==
  /\ pc = "log"
  /\ meta' = [state |-> "empty", session |-> session, regions |-> traced]
  /\ pc' = "scan"
  /\ UNCHANGED <<regionF, threadF, writerVars>>

\* Slip: the names of the files to keep are put together the wrong way round.
ScanRegions_Swapped ==
  /\ pc = "scan"
  /\ reused' = {<<p[2], p[1]>> : p \in Present(regionF) \intersect {Path(r) : r \in traced}}
  /\ pc' = "remove"
  /\ UNCHANGED <<dirVars, session, mode, traced, log, todo, poisoned>>

\* "find macho-region-*.bin that are unchanged": open each and compare digests.
\* CompressedFile's constructor asserts that the headers can be read.
ScanRegions ==
  /\ pc = "scan"
  /\ LET old == Present(regionF) \intersect {Path(r) : r \in traced} IN
     \/ /\ \A p \in old : regionF[p].state # "empty"
        /\ reused' = {p \in old : \E r \in traced :
                        Path(r) = p /\ regionF[p].digest = r.content}
        /\ pc' = "remove"
     \/ /\ \E p \in old : regionF[p].state = "empty"
        /\ pc' = "down"
        /\ UNCHANGED reused
  /\ UNCHANGED <<dirVars, session, mode, traced, log, todo, poisoned>>

\* Slip: files that are not reused stay.
RemoveRegion_None ==
  /\ pc = "remove"
  /\ pc' = "write"
  /\ todo' = {r \in traced : Path(r) \notin reused}
  /\ UNCHANGED <<dirVars, session, mode, traced, log, reused, poisoned>>

\* "remove all macho-regions-*.bin that aren't reused", one by one
RemoveRegion ==
  /\ pc = "remove"
  /\ \/ /\ \E p \in Present(regionF) \ reused :
             regionF' = [regionF EXCEPT ![p] = Absent]
        /\ UNCHANGED <<pc, todo>>
     \/ /\ Present(regionF) \subseteq reused
        /\ pc' = "write"
        /\ todo' = {r \in traced : Path(r) \notin reused}
        /\ UNCHANGED regionF
  /\ UNCHANGED <<meta, threadF, session, mode, traced, log, reused, poisoned>>

Open == {p \in Present(regionF) : p \notin reused /\ regionF[p].state # "full"}

\* Open the file of a region that is not reused; its digest is in the header.
OpenRegion(r) ==
  /\ pc = "write" /\ Open = {} /\ r \in todo
  /\ regionF' = [regionF EXCEPT ![Path(r)] = [state |-> "empty", digest |-> r.content]]
  /\ todo' = todo \ {r}
  /\ UNCHANGED <<meta, threadF, pc, session, mode, traced, log, reused, poisoned>>

\* Write its bytes; the destructor completes the file.
CloseRegion ==
  /\ pc = "write"
  /\ \E p \in Open : regionF' = [regionF EXCEPT ![p].state = "full"]
  /\ UNCHANGED <<meta, threadF, pc, writerVars>>

\* After the regions come the threads: each file is opened, written and closed;
\* a stream's file is already there and gets only its header changed in memory.
WriteThread(t) ==
  /\ pc = "write" /\ Open = {} /\ todo = {}
  /\ mode = "whole" /\ t \in log
  /\ \/ /\ threadF[t] = Absent
        /\ \A u \in Present(threadF) : threadF[u].state = "full"
        /\ threadF' = [threadF EXCEPT ![t] = NewLog]
     \/ /\ threadF[t] # Absent /\ threadF[t].state # "full"
        /\ threadF' = [threadF EXCEPT ![t].state = "full"]
  /\ UNCHANGED <<meta, regionF, pc, writerVars>>

\* The end of write(): meta.bin's destructor.
CloseMeta ==
  /\ pc = "write" /\ Open = {} /\ todo = {}
  /\ mode = "whole" => \A t \in log : threadF[t] # Absent /\ threadF[t].state = "full"
  /\ meta' = [meta EXCEPT !.state = "full"]
  /\ pc' = "close"
  /\ UNCHANGED <<regionF, threadF, writerVars>>

\* TraceLog's destructor closes the streams.
CloseStreams ==
  /\ pc = "close"
  /\ \/ /\ \E t \in log : /\ threadF[t].state # "full"
                          /\ threadF' = [threadF EXCEPT ![t].state = "full"]
        /\ UNCHANGED pc
     \/ /\ \A t \in log : threadF[t].state = "full"
        /\ pc' = "closed"
        /\ UNCHANGED threadF
  /\ UNCHANGED <<meta, regionF, writerVars>>

\* The process ends without running destructors (abort, exit(-1), a signal).
\* poisoned remembers that it happened while a region file was open.
Crash ==
  /\ pc \notin {"down", "closed"}
  /\ pc' = "down"
  /\ poisoned' = (poisoned \/ (pc = "write" /\ Open # {}))
  /\ UNCHANGED <<dirVars, session, mode, traced, log, reused, todo>>

Next ==
  \/ \E rs \in SUBSET Regions, m \in Modes : Start(rs, m)
  \/ CleanOne \/ WriteMeta \/ ScanRegions \/ RemoveRegion \/ CloseRegion
  \/ \E r \in Regions : OpenRegion(r)
  \/ \E t \in Threads : LogThread(t) \/ WriteThread(t)
  \/ CloseMeta \/ CloseStreams \/ FlushSome \/ Crash

Spec == Init /\ [][Next]_vars

-----------------------------------------------------------------------------
(* The reader, TraceLog::TraceLog(log_dir_path), run at any moment.        *)

\* CompressedFile's reading constructor gets its headers, which are flushed first.
Opens(file) == file # Absent /\ file.state # "empty"

\* What is found for a region: its bytes, or nothing (a partial file has a
\* decompressed_size of 0).
Bytes(digest) ==
  IF \E p \in Present(regionF) : regionF[p].digest = digest /\ regionF[p].state = "full"
  THEN digest ELSE "nothing"

\* The bytes are moved out of a map from digests, so a second region of the same
\* contents finds none.
RegionsFound ==
  /\ \A r \in meta.regions : Bytes(r.content) = r.content
  /\ \A r, s \in meta.regions : r.content = s.content => r = s

\* A file that was not closed has a decompressed_size of 0.  Reading nothing
\* uncompressed fails the assert on fread (of size 0, it returns 0).
LogReads(file) == file.state = "full" \/ file.mode # "rawStream"

\* Every assert on the way holds: meta.bin can be read, there are as many region
\* files as regions, every header can be read, and every region has its bytes.
Readable ==
  /\ Opens(meta) /\ meta.state = "full"
  /\ Cardinality(Present(regionF)) = Cardinality(meta.regions)
  /\ \A p \in Present(regionF) : Opens(regionF[p])
  /\ \A t \in Present(threadF) : Opens(threadF[t]) /\ LogReads(threadF[t])
  /\ RegionsFound

-----------------------------------------------------------------------------
(* Properties.                                                             *)

\* Whatever crashes and earlier sessions left behind, a directory the reader
\* accepts is of one session: no thread's log comes from another session than
\* meta.bin's, and none is truncated but by a crash of a tracer that streamed it
\* compressed.
AcceptedIsOneSession ==
  Readable =>
    \A t \in Present(threadF) :
      /\ threadF[t].session = meta.session
      /\ threadF[t].state = "full" \/ threadF[t].mode = "stream"

\* A session that ended normally leaves that session's regions and a complete log of
\* every thread, streamed or not, and the reader accepts it exactly if no two of the
\* regions have the same contents or the same file name; this whatever regions earlier
\* sessions left to be reused, provided none of those died with a region file open: such
\* a file has the right digest in its header, which is all that TraceLog.cpp:442 compares.
ClosedIsComplete ==
  pc = "closed" /\ ~poisoned =>
    /\ Readable <=> \A r, s \in traced : r.content = s.content \/ Path(r) = Path(s) => r = s
    /\ meta.session = session /\ meta.regions = traced
    /\ Present(threadF) = log
    /\ \A t \in log : threadF[t].state = "full" /\ threadF[t].session = session
=============================================================================
