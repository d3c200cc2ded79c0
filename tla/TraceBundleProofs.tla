------------------------- MODULE TraceBundleProofs --------------------------
(***************************************************************************)
(* Proofs about TraceBundle, for any images, threads and number of         *)
(* sessions.  That a directory the reader accepts is of one session rests  *)
(* on meta.bin: it is gone before a session logs its first thread, and it  *)
(* is complete only when every log of its session is, streams apart.       *)
(***************************************************************************)
EXTENDS TraceBundle, FiniteSetTheorems, TLAPS

\* Where the writer is once write() has opened meta.bin, and once it has closed it
Writing == {"scan", "remove", "write"}
Written == {"close", "closed"}

\* meta.bin is the current session's from WriteMeta on, and absent before.
MetaIsOurs ==
  /\ pc # "down" => session \in 1 .. MaxSessions
  /\ pc = "log" => meta = Absent
  /\ pc \in Writing \union Written =>
       /\ meta # Absent /\ meta.session = session /\ meta.regions = traced
       /\ (meta.state = "full") <=> (pc \in Written)

\* After the cleaning, the thread files are those of the current session's log.
LogsAreOurs ==
  /\ pc = "clean" => log = {}
  /\ pc \notin {"down", "clean"} =>
       /\ \A t \in Present(threadF) :
            t \in log /\ threadF[t].session = session /\ threadF[t].mode = mode
       /\ mode # "whole" \/ pc \in Written => log \subseteq Present(threadF)
       /\ mode = "whole" /\ pc \in Written => \A t \in log : threadF[t].state = "full"
       /\ pc = "closed" => \A t \in log : threadF[t].state = "full"

\* Whatever the writer does, and whether there is one, a complete meta.bin lies
\* beside logs of its own session only, complete unless they were streamed.
FullMetaIsLast ==
  meta # Absent /\ meta.state = "full" =>
    \A t \in Present(threadF) :
      /\ threadF[t].session = meta.session
      /\ threadF[t].state = "full" \/ threadF[t].mode # "whole"

SessionInv == TypeOK /\ MetaIsOurs /\ LogsAreOurs /\ FullMetaIsLast

\* The file p is of a region of the target, and has its contents' digest.
OfTarget(p) == \E r \in traced : Path(r) = p /\ regionF[p].digest = r.content

\* Only the region file being written is incomplete, if no tracer died writing one.
RegionsWhole ==
  ~poisoned => \A p \in Present(regionF) :
                 regionF[p].state = "full" \/ (pc = "write" /\ p \notin reused)

\* The region files kept and those written so far are the target's.
RegionsAreOurs ==
  /\ pc \in {"remove", "write"} =>
       reused \subseteq Present(regionF) /\ \A p \in reused : OfTarget(p)
  /\ pc \in {"write", "close", "closed"} =>
       /\ \A p \in Present(regionF) : OfTarget(p)
       /\ \A r \in traced : r \in todo \/ Path(r) \in Present(regionF)
  /\ pc = "write" => todo \subseteq {r \in traced : Path(r) \notin reused}
  /\ pc \in Written => todo = {}

RegionInv == RegionsWhole /\ RegionsAreOurs

-----------------------------------------------------------------------------
(* Types of files.                                                         *)

MetaFiles == [state : States, session : 1 .. MaxSessions, regions : SUBSET Regions]
RegionFiles == [state : States, digest : Contents]
ThreadFiles == [state : States, session : 1 .. MaxSessions, mode : Modes]

\* A file in the directory is not the absence of one.
LEMMA NotAbsent ==
  /\ \A f \in MetaFiles : f # Absent
  /\ \A f \in RegionFiles : f # Absent
  /\ \A f \in ThreadFiles : f # Absent
  BY DEF MetaFiles, RegionFiles, ThreadFiles, Absent, States

\* A file that is there is a file, and the directory's maps are on what they are on.
LEMMA FilesThere ==
  ASSUME TypeOK
  PROVE  /\ Present(threadF) = {t \in Threads : threadF[t] # Absent}
         /\ Present(regionF) = {p \in Paths : regionF[p] # Absent}
         /\ \A t \in Present(threadF) : threadF[t] \in ThreadFiles
         /\ \A p \in Present(regionF) : regionF[p] \in RegionFiles
         /\ meta # Absent => meta \in MetaFiles
  BY DEF TypeOK, Present, ThreadFiles, RegionFiles, MetaFiles

\* One thread's file changes, and the others stay.
LEMMA OneLogChanges ==
  ASSUME TypeOK, NEW t \in Threads, NEW f \in ThreadFiles \union {Absent},
         threadF' = [threadF EXCEPT ![t] = f]
  PROVE  /\ threadF' \in [Threads -> {Absent} \union ThreadFiles]
         /\ threadF'[t] = f
         /\ \A u \in Threads : u # t => threadF'[u] = threadF[u]
         /\ Present(threadF') = IF f = Absent THEN Present(threadF) \ {t}
                                ELSE Present(threadF) \union {t}
  BY DEF TypeOK, Present, ThreadFiles

\* A file gets another state.
LEMMA StateChanges ==
  ASSUME NEW s \in States
  PROVE  /\ \A f \in ThreadFiles : /\ [f EXCEPT !.state = s] \in ThreadFiles
                                   /\ [f EXCEPT !.state = s].state = s
                                   /\ [f EXCEPT !.state = s].session = f.session
                                   /\ [f EXCEPT !.state = s].mode = f.mode
         /\ \A f \in RegionFiles : /\ [f EXCEPT !.state = s] \in RegionFiles
                                   /\ [f EXCEPT !.state = s].state = s
                                   /\ [f EXCEPT !.state = s].digest = f.digest
         /\ \A f \in MetaFiles : /\ [f EXCEPT !.state = s] \in MetaFiles
                                 /\ [f EXCEPT !.state = s].state = s
                                 /\ [f EXCEPT !.state = s].session = f.session
                                 /\ [f EXCEPT !.state = s].regions = f.regions
  BY DEF ThreadFiles, RegionFiles, MetaFiles

\* The same for one region's file.
LEMMA OneRegionChanges ==
  ASSUME TypeOK, NEW p \in Paths, NEW f \in RegionFiles \union {Absent},
         regionF' = [regionF EXCEPT ![p] = f]
  PROVE  /\ regionF' \in [Paths -> {Absent} \union RegionFiles]
         /\ regionF'[p] = f
         /\ \A q \in Paths : q # p => regionF'[q] = regionF[q]
         /\ Present(regionF') = IF f = Absent THEN Present(regionF) \ {p}
                                ELSE Present(regionF) \union {p}
  BY DEF TypeOK, Present, RegionFiles

-----------------------------------------------------------------------------
(* One session.                                                            *)

LEMMA InitSession == Init => SessionInv
<1> SUFFICES ASSUME Init PROVE SessionInv
  OBVIOUS
<1>1. TypeOK
  <2>1. /\ session \in 0 .. MaxSessions
        /\ pc \in {"down", "clean", "log", "scan", "remove", "write", "end", "close", "closed"}
    BY ConstantsAssumption DEF ConstantsAssumption, Init
  <2>2. poisoned \in BOOLEAN /\ mode \in Modes
    BY Zenon DEF Init, Modes
  <2> QED BY <2>1, <2>2 DEF Init, TypeOK
<1>2. MetaIsOurs /\ LogsAreOurs /\ FullMetaIsLast
  BY DEF Init, MetaIsOurs, LogsAreOurs, FullMetaIsLast, Writing, Written
<1> QED BY <1>1, <1>2 DEF SessionInv

LEMMA StartSession ==
  ASSUME SessionInv, NEW rs \in SUBSET Regions, NEW m \in Modes, Start(rs, m)
  PROVE  SessionInv'
<1>1. TypeOK'
  BY ConstantsAssumption DEF ConstantsAssumption, SessionInv, TypeOK, Start, dirVars
<1>2. MetaIsOurs' /\ LogsAreOurs' /\ FullMetaIsLast'
  BY ConstantsAssumption
  DEF ConstantsAssumption, SessionInv, TypeOK, MetaIsOurs, LogsAreOurs, FullMetaIsLast, Start,
      Writing, Written, Present, dirVars
<1> QED BY <1>1, <1>2 DEF SessionInv

\* Cleaning only removes, and what is left of the old session stays as it was.
LEMMA CleanSession == ASSUME SessionInv, CleanOne PROVE SessionInv'
<1> USE DEF SessionInv
<1>1. CASE meta # Absent /\ meta' = Absent /\ UNCHANGED <<threadF, pc>>
  <2>1. TypeOK'
    BY <1>1 DEF TypeOK, CleanOne, writerVars
  <2>2. MetaIsOurs' /\ LogsAreOurs' /\ FullMetaIsLast'
    BY <1>1 DEF MetaIsOurs, LogsAreOurs, FullMetaIsLast, CleanOne, writerVars, Writing, Written
  <2> QED BY <2>1, <2>2
<1>2. CASE (\E t \in Present(threadF) : threadF' = [threadF EXCEPT ![t] = Absent])
           /\ UNCHANGED <<meta, pc>>
  <2>1. PICK t \in Present(threadF) : threadF' = [threadF EXCEPT ![t] = Absent]
    BY <1>2
  <2>2. t \in Threads
    BY FilesThere
  <2>3. /\ threadF' \in [Threads -> {Absent} \union ThreadFiles]
        /\ Present(threadF') = Present(threadF) \ {t}
        /\ \A u \in Threads : u # t => threadF'[u] = threadF[u]
    BY <2>1, <2>2, OneLogChanges
  <2>4. TypeOK'
    BY <1>2, <2>3 DEF TypeOK, CleanOne, writerVars, ThreadFiles
  <2>5. MetaIsOurs' /\ LogsAreOurs'
    BY <1>2 DEF MetaIsOurs, LogsAreOurs, CleanOne, writerVars, Writing, Written
  <2>6. FullMetaIsLast'
    BY <1>2, <2>3, FilesThere DEF FullMetaIsLast
  <2> QED BY <2>4, <2>5, <2>6
<1>3. CASE meta = Absent /\ Present(threadF) = {} /\ pc' = "log" /\ UNCHANGED <<meta, threadF>>
  <2>1. TypeOK'
    BY <1>3 DEF TypeOK, CleanOne, writerVars
  <2>2. MetaIsOurs' /\ FullMetaIsLast'
    BY <1>3 DEF MetaIsOurs, FullMetaIsLast, CleanOne, writerVars, Writing, Written
  <2>3. LogsAreOurs'
    BY <1>3 DEF LogsAreOurs, CleanOne, writerVars, Writing, Written, Present
  <2> QED BY <2>1, <2>2, <2>3
<1> QED BY <1>1, <1>2, <1>3 DEF CleanOne

LEMMA LogThreadSession ==
  ASSUME SessionInv, NEW t \in Threads, LogThread(t)
  PROVE  SessionInv'
<1> USE DEF SessionInv
<1>1. NewLog \in ThreadFiles /\ NewLog # Absent
  <2>1. NewLog \in ThreadFiles
    BY DEF LogThread, TypeOK, MetaIsOurs, NewLog, ThreadFiles, States
  <2> QED BY <2>1, NotAbsent
<1>2. meta' = Absent
  BY DEF LogThread, MetaIsOurs
<1>3. MetaIsOurs' /\ FullMetaIsLast'
  BY <1>2 DEF LogThread, MetaIsOurs, FullMetaIsLast, Writing, Written
<1>4. CASE mode = "whole"
  <2>1. TypeOK'
    BY <1>4 DEF TypeOK, LogThread
  <2>2. LogsAreOurs'
    BY <1>4 DEF LogsAreOurs, LogThread, Written
  <2> QED BY <1>3, <2>1, <2>2
<1>5. CASE mode # "whole"
  <2>1. threadF' = [threadF EXCEPT ![t] = NewLog]
    BY <1>5 DEF LogThread
  <2>2. /\ threadF' \in [Threads -> {Absent} \union ThreadFiles]
        /\ threadF'[t] = NewLog
        /\ Present(threadF') = Present(threadF) \union {t}
        /\ \A u \in Threads : u # t => threadF'[u] = threadF[u]
    BY <1>1, <2>1, OneLogChanges
  <2>3. TypeOK'
    BY <2>2 DEF TypeOK, LogThread, ThreadFiles
  <2>4. LogsAreOurs'
    <3>1. NewLog.session = session /\ NewLog.mode = mode
      BY DEF NewLog
    <3> QED BY <2>2, <3>1, FilesThere DEF LogsAreOurs, LogThread, Written
  <2> QED BY <1>3, <2>3, <2>4
<1> QED BY <1>4, <1>5

LEMMA WriteMetaSession == ASSUME SessionInv, WriteMeta PROVE SessionInv'
<1> USE DEF SessionInv
<1> DEFINE new == [state |-> "empty", session |-> session, regions |-> traced]
<1>1. /\ new \in MetaFiles /\ new # Absent /\ meta' = new
      /\ new.session = session /\ new.regions = traced /\ new.state = "empty"
  <2>1. new \in MetaFiles
    BY DEF WriteMeta, TypeOK, MetaIsOurs, MetaFiles, States
  <2> QED BY <2>1, NotAbsent DEF WriteMeta
<1> HIDE DEF new
<1>2. TypeOK'
  BY <1>1 DEF TypeOK, WriteMeta, MetaFiles, writerVars
<1>3. MetaIsOurs' /\ FullMetaIsLast'
  BY <1>1 DEF MetaIsOurs, FullMetaIsLast, WriteMeta, writerVars, Writing, Written
<1>4. LogsAreOurs'
  BY DEF LogsAreOurs, WriteMeta, writerVars, Writing, Written
<1> QED BY <1>2, <1>3, <1>4

\* Steps that leave meta.bin and the logs alone.
LEMMA RegionSession ==
  ASSUME SessionInv, TypeOK', UNCHANGED <<meta, threadF, session, mode, traced, log>>,
         \/ pc' = pc
         \/ pc \in Writing /\ pc' \in Writing
         \/ pc' = "down"
  PROVE  SessionInv'
  BY DEF SessionInv, MetaIsOurs, LogsAreOurs, FullMetaIsLast, Writing, Written

\* A log is flushed, or completed.
LEMMA StateSession ==
  ASSUME SessionInv, pc \notin {"down", "clean"}, NEW t \in Present(threadF), NEW s \in States,
         s = "full" \/ threadF[t].state = "empty",
         threadF' = [threadF EXCEPT ![t].state = s],
         UNCHANGED <<meta, regionF, pc, writerVars>>
  PROVE  SessionInv'
<1> USE DEF SessionInv
<1> DEFINE f == [threadF[t] EXCEPT !.state = s]
<1>1. t \in Threads /\ threadF[t] \in ThreadFiles /\ threadF' = [threadF EXCEPT ![t] = f]
  BY FilesThere
<1>2. /\ f \in ThreadFiles /\ f # Absent
      /\ f.state = s /\ f.session = threadF[t].session /\ f.mode = threadF[t].mode
  BY <1>1, StateChanges, NotAbsent
<1> HIDE DEF f
<1>3. /\ threadF' \in [Threads -> {Absent} \union ThreadFiles]
      /\ threadF'[t] = f
      /\ Present(threadF') = Present(threadF)
      /\ \A u \in Threads : u # t => threadF'[u] = threadF[u]
  <2>1. /\ threadF' \in [Threads -> {Absent} \union ThreadFiles]
        /\ threadF'[t] = f
        /\ Present(threadF') = Present(threadF) \union {t}
        /\ \A u \in Threads : u # t => threadF'[u] = threadF[u]
    BY <1>1, <1>2, OneLogChanges
  <2> QED BY <2>1
<1>4. TypeOK'
  BY <1>3 DEF TypeOK, ThreadFiles, writerVars
<1>5. MetaIsOurs'
  BY DEF MetaIsOurs, writerVars
<1>6. LogsAreOurs'
  <2>1. log \subseteq Threads /\ Present(threadF) \subseteq Threads
    BY FilesThere DEF TypeOK
  <2> QED BY <1>2, <1>3, <2>1 DEF LogsAreOurs, writerVars
<1>7. FullMetaIsLast'
  BY <1>2, <1>3, FilesThere DEF FullMetaIsLast
<1> QED BY <1>4, <1>5, <1>6, <1>7

LEMMA WriteThreadSession ==
  ASSUME SessionInv, NEW t \in Threads, WriteThread(t)
  PROVE  SessionInv'
<1> USE DEF SessionInv
<1>1. CASE threadF[t] # Absent
  <2>1. t \in Present(threadF) /\ "full" \in States
    BY <1>1, FilesThere DEF States
  <2>2. threadF' = [threadF EXCEPT ![t].state = "full"]
    BY <1>1 DEF WriteThread
  <2> QED BY <2>1, <2>2, StateSession DEF WriteThread
<1>2. CASE threadF[t] = Absent
  <2>1. threadF' = [threadF EXCEPT ![t] = NewLog]
    BY <1>2 DEF WriteThread
  <2>2. /\ NewLog \in ThreadFiles /\ NewLog # Absent
        /\ NewLog.session = session /\ NewLog.mode = mode
    <3>1. NewLog \in ThreadFiles
      BY DEF WriteThread, TypeOK, MetaIsOurs, NewLog, ThreadFiles, States
    <3> QED BY <3>1, NotAbsent DEF NewLog
  <2>3. /\ threadF' \in [Threads -> {Absent} \union ThreadFiles]
        /\ threadF'[t] = NewLog
        /\ Present(threadF') = Present(threadF) \union {t}
        /\ \A u \in Threads : u # t => threadF'[u] = threadF[u]
    BY <2>1, <2>2, OneLogChanges
  <2>4. TypeOK'
    BY <2>3 DEF TypeOK, WriteThread, ThreadFiles, writerVars
  <2>5. MetaIsOurs' /\ FullMetaIsLast'
    BY DEF MetaIsOurs, FullMetaIsLast, WriteThread, writerVars, Writing, Written
  <2>6. LogsAreOurs'
    BY <2>2, <2>3, FilesThere DEF LogsAreOurs, WriteThread, writerVars, Written
  <2> QED BY <2>4, <2>5, <2>6
<1> QED BY <1>1, <1>2

\* meta.bin is completed last: by then the logs that are not streamed are complete.
LEMMA CloseMetaSession == ASSUME SessionInv, CloseMeta PROVE SessionInv'
<1> USE DEF SessionInv
<1>1. /\ meta \in MetaFiles /\ meta # Absent /\ "full" \in States
      /\ meta.session = session /\ meta.regions = traced
  BY FilesThere DEF CloseMeta, MetaIsOurs, Writing, States
<1>2. /\ meta' \in MetaFiles /\ meta' # Absent /\ meta'.state = "full"
      /\ meta'.session = session /\ meta'.regions = traced
  BY <1>1, StateChanges, NotAbsent DEF CloseMeta
<1>3. TypeOK'
  BY <1>2 DEF TypeOK, CloseMeta, MetaFiles, writerVars
<1>4. MetaIsOurs'
  BY <1>2 DEF MetaIsOurs, CloseMeta, Writing, Written, writerVars
<1>5. LogsAreOurs'
  BY FilesThere DEF LogsAreOurs, CloseMeta, Written, writerVars, TypeOK
<1>6. FullMetaIsLast'
  BY <1>2 DEF LogsAreOurs, FullMetaIsLast, CloseMeta, Written, writerVars
<1> QED BY <1>3, <1>4, <1>5, <1>6

LEMMA CloseStreamsSession == ASSUME SessionInv, CloseStreams PROVE SessionInv'
<1> USE DEF SessionInv
<1>1. CASE pc' = "closed" /\ (\A t \in log : threadF[t].state = "full") /\ UNCHANGED threadF
  <2>1. TypeOK'
    BY <1>1 DEF TypeOK, CloseStreams, writerVars
  <2>2. MetaIsOurs' /\ LogsAreOurs' /\ FullMetaIsLast'
    BY <1>1 DEF MetaIsOurs, LogsAreOurs, FullMetaIsLast, CloseStreams, writerVars, Writing, Written
  <2> QED BY <2>1, <2>2
<1>2. CASE (\E t \in log : /\ threadF[t].state # "full"
                           /\ threadF' = [threadF EXCEPT ![t].state = "full"]) /\ UNCHANGED pc
  <2>1. PICK t \in log : threadF' = [threadF EXCEPT ![t].state = "full"]
    BY <1>2
  <2>2. t \in Present(threadF) /\ "full" \in States
    BY DEF LogsAreOurs, CloseStreams, Written, States
  <2>3. pc \notin {"down", "clean"} /\ UNCHANGED <<meta, regionF, pc, writerVars>>
    BY <1>2 DEF CloseStreams
  <2> QED BY <2>1, <2>2, <2>3, StateSession
<1> QED BY <1>1, <1>2 DEF CloseStreams

LEMMA FlushSession == ASSUME SessionInv, FlushSome PROVE SessionInv'
<1> USE DEF SessionInv
<1>0. "partial" \in States
  BY DEF States
<1>1. CASE /\ pc \in {"scan", "remove", "write"} /\ meta.state = "empty"
           /\ meta' = [meta EXCEPT !.state = "partial"]
           /\ UNCHANGED <<regionF, threadF>>
  <2>1. meta \in MetaFiles /\ meta # Absent
    BY <1>1, FilesThere DEF MetaIsOurs, Writing
  <2>2. /\ meta' \in MetaFiles /\ meta' # Absent /\ meta'.state = "partial"
        /\ meta'.session = meta.session /\ meta'.regions = meta.regions
    BY <1>0, <1>1, <2>1, StateChanges, NotAbsent
  <2>3. TypeOK'
    BY <1>1, <2>2 DEF TypeOK, FlushSome, MetaFiles, writerVars
  <2>4. MetaIsOurs' /\ LogsAreOurs' /\ FullMetaIsLast'
    BY <1>1, <2>2 DEF MetaIsOurs, LogsAreOurs, FullMetaIsLast, FlushSome, writerVars, Writing, Written
  <2> QED BY <2>3, <2>4
<1>2. CASE /\ pc = "write"
           /\ \E p \in Present(regionF) :
                /\ regionF[p].state = "empty"
                /\ regionF' = [regionF EXCEPT ![p].state = "partial"]
           /\ UNCHANGED <<meta, threadF>>
  <2>1. PICK p \in Present(regionF) : regionF' = [regionF EXCEPT ![p].state = "partial"]
    BY <1>2
  <2>2. p \in Paths /\ [regionF[p] EXCEPT !.state = "partial"] \in RegionFiles
    BY <1>0, FilesThere, StateChanges
  <2>3. TypeOK'
    BY <1>2, <2>1, <2>2 DEF TypeOK, FlushSome, RegionFiles, writerVars
  <2> QED BY <1>2, <2>3, RegionSession DEF FlushSome, writerVars
<1>3. CASE /\ pc \notin {"down", "clean"}
           /\ \E t \in Present(threadF) :
                /\ threadF[t].state = "empty"
                /\ threadF' = [threadF EXCEPT ![t].state = "partial"]
           /\ UNCHANGED <<meta, regionF>>
  BY <1>0, <1>3, StateSession DEF FlushSome
<1> QED BY <1>1, <1>2, <1>3 DEF FlushSome

LEMMA CrashSession == ASSUME SessionInv, Crash PROVE SessionInv'
<1>1. TypeOK'
  <2>1. poisoned' \in BOOLEAN
    BY Zenon DEF Crash, SessionInv, TypeOK
  <2> QED BY <2>1 DEF Crash, SessionInv, TypeOK, dirVars
<1> QED BY <1>1, RegionSession DEF Crash, dirVars

\* The steps of write() that are about region files.
LEMMA WriteRegionsSession ==
  ASSUME SessionInv,
         ScanRegions \/ RemoveRegion \/ CloseRegion \/ (\E r \in Regions : OpenRegion(r))
  PROVE  SessionInv'
<1> USE DEF SessionInv
<1>1. CASE ScanRegions
  <2>1. reused' \in SUBSET Paths
    <3>1. {Path(r) : r \in traced} \subseteq Paths
      BY DEF TypeOK, Paths
    <3> QED BY <1>1, <3>1 DEF ScanRegions, TypeOK
  <2>2. TypeOK'
    BY <1>1, <2>1 DEF ScanRegions, TypeOK, dirVars
  <2> QED BY <1>1, <2>2, RegionSession DEF ScanRegions, Writing, dirVars
<1>2. CASE RemoveRegion
  <2>1. regionF' \in [Paths -> {Absent} \union RegionFiles]
    BY <1>2 DEF RemoveRegion, TypeOK, RegionFiles
  <2>2. todo' \in SUBSET Regions
    BY <1>2 DEF RemoveRegion, TypeOK
  <2>3. pc' \in {"remove", "write"}
    BY <1>2 DEF RemoveRegion
  <2>4. TypeOK'
    BY <1>2, <2>1, <2>2, <2>3 DEF RemoveRegion, TypeOK, RegionFiles
  <2> QED BY <1>2, <2>3, <2>4, RegionSession DEF RemoveRegion, Writing
<1>3. CASE CloseRegion
  <2>1. PICK p \in Open : regionF' = [regionF EXCEPT ![p].state = "full"]
    BY <1>3 DEF CloseRegion
  <2>2. p \in Paths /\ [regionF[p] EXCEPT !.state = "full"] \in RegionFiles
    BY FilesThere, StateChanges DEF Open, States
  <2>3. TypeOK'
    BY <1>3, <2>1, <2>2 DEF TypeOK, CloseRegion, RegionFiles, writerVars
  <2> QED BY <1>3, <2>3, RegionSession DEF CloseRegion, writerVars
<1>4. CASE \E r \in Regions : OpenRegion(r)
  <2>1. PICK r \in Regions : OpenRegion(r)
    BY <1>4
  <2>2. Path(r) \in Paths /\ [state |-> "empty", digest |-> r.content] \in RegionFiles
    BY DEF Paths, RegionFiles, States, Contents
  <2>3. regionF' \in [Paths -> {Absent} \union RegionFiles]
    BY <2>1, <2>2 DEF OpenRegion, TypeOK, RegionFiles
  <2>4. TypeOK'
    BY <2>1, <2>3 DEF OpenRegion, TypeOK, RegionFiles
  <2> QED BY <2>1, <2>4, RegionSession DEF OpenRegion
<1> QED BY <1>1, <1>2, <1>3, <1>4

LEMMA NextSession == SessionInv /\ [Next]_vars => SessionInv'
<1> SUFFICES ASSUME SessionInv, [Next]_vars PROVE SessionInv'
  OBVIOUS
<1>1. CASE Next
  BY <1>1, StartSession, CleanSession, LogThreadSession, WriteMetaSession, WriteRegionsSession,
     WriteThreadSession, CloseMetaSession, CloseStreamsSession, FlushSession, CrashSession
  DEF Next
<1>2. CASE UNCHANGED vars
  <2>1. TypeOK'
    BY <1>2 DEF SessionInv, TypeOK, vars, dirVars, writerVars
  <2> QED BY <1>2, <2>1, RegionSession DEF vars, dirVars, writerVars
<1> QED BY <1>1, <1>2

LEMMA AlwaysSession == Spec => []SessionInv
  BY InitSession, NextSession, PTL DEF Spec

\* The directory and the writer keep their types (TraceLog.cpp's files and members).
THEOREM TypeCorrect == Spec => []TypeOK
<1>1. SessionInv => TypeOK
  BY DEF SessionInv
<1> QED BY <1>1, AlwaysSession, PTL

\* Whatever crashes and earlier sessions left in the directory, the reading constructor
\* of TraceLog accepts it only if every log in it is of meta.bin's session and complete,
\* or a compressed stream cut short by a crash.
THEOREM OneSession == Spec => []AcceptedIsOneSession
<1>1. SessionInv => AcceptedIsOneSession
  <2> SUFFICES ASSUME SessionInv, Readable, NEW t \in Present(threadF)
               PROVE  /\ threadF[t].session = meta.session
                      /\ threadF[t].state = "full" \/ threadF[t].mode = "stream"
    BY DEF AcceptedIsOneSession
  <2>1. threadF[t].session = meta.session
    BY DEF SessionInv, FullMetaIsLast, Readable, Opens
  <2>2. threadF[t].state = "full" \/ threadF[t].mode # "whole"
    BY DEF SessionInv, FullMetaIsLast, Readable, Opens
  <2>3. threadF[t].state = "full" \/ threadF[t].mode # "rawStream"
    BY DEF Readable, LogReads
  <2>4. threadF[t].mode \in Modes
    BY FilesThere DEF SessionInv, ThreadFiles
  <2> QED BY <2>1, <2>2, <2>3, <2>4 DEF Modes
<1> QED BY <1>1, AlwaysSession, PTL

-----------------------------------------------------------------------------
(* The regions of a session that ended normally.                           *)

LEMMA InitRegions == Init => RegionInv
  BY DEF Init, RegionInv, RegionsWhole, RegionsAreOurs, Present, Written

\* Steps that leave the region files and what the writer knows of them alone.
LEMMA QuietRegions ==
  ASSUME RegionInv, UNCHANGED <<regionF, traced, reused, todo, poisoned>>,
         \/ pc' = pc
         \/ pc \in {"clean", "log", "close"} /\ pc' \in {"log", "scan", "closed", "down"}
            /\ (pc' = "closed" => pc = "close")
  PROVE  RegionInv'
  BY DEF RegionInv, RegionsWhole, RegionsAreOurs, OfTarget, Written

LEMMA StartRegions ==
  ASSUME RegionInv, NEW rs, NEW m, Start(rs, m)
  PROVE  RegionInv'
  BY DEF RegionInv, RegionsWhole, RegionsAreOurs, OfTarget, Start, dirVars, Written

LEMMA ScanKeeps == ASSUME RegionInv, ScanRegions PROVE RegionInv'
<1>1. UNCHANGED <<regionF, traced, todo, poisoned>> /\ pc' \in {"remove", "down"} /\ pc = "scan"
  BY DEF ScanRegions, dirVars
<1>2. RegionsWhole'
  BY <1>1 DEF RegionInv, RegionsWhole
<1>3. pc' = "remove" => reused' \subseteq Present(regionF') /\ \A p \in reused' : OfTarget(p)'
  BY <1>1 DEF ScanRegions, OfTarget
<1> QED BY <1>1, <1>2, <1>3 DEF RegionInv, RegionsAreOurs, Written

LEMMA RemoveKeeps == ASSUME TypeOK, RegionInv, RemoveRegion PROVE RegionInv'
<1>0. UNCHANGED <<traced, reused, poisoned>> /\ pc = "remove"
  BY DEF RemoveRegion
<1>1. CASE (\E p \in Present(regionF) \ reused : regionF' = [regionF EXCEPT ![p] = Absent])
           /\ UNCHANGED <<pc, todo>>
  <2>1. PICK p \in Present(regionF) \ reused : regionF' = [regionF EXCEPT ![p] = Absent]
    BY <1>1
  <2>2. p \in Paths /\ Present(regionF) \subseteq Paths
    BY FilesThere
  <2>3. /\ Present(regionF') = Present(regionF) \ {p}
        /\ \A q \in Paths : q # p => regionF'[q] = regionF[q]
    BY <2>1, <2>2, OneRegionChanges
  <2>4. RegionsWhole'
    BY <1>0, <1>1, <2>2, <2>3 DEF RegionInv, RegionsWhole
  <2>5. reused' \subseteq Present(regionF') /\ \A q \in reused' : OfTarget(q)'
    BY <1>0, <2>1, <2>2, <2>3 DEF RegionInv, RegionsAreOurs, OfTarget
  <2> QED BY <1>0, <1>1, <2>4, <2>5 DEF RegionInv, RegionsAreOurs, Written
<1>2. CASE /\ Present(regionF) \subseteq reused
           /\ pc' = "write"
           /\ todo' = {r \in traced : Path(r) \notin reused}
           /\ UNCHANGED regionF
  BY <1>0, <1>2 DEF RegionInv, RegionsWhole, RegionsAreOurs, OfTarget, Written
<1> QED BY <1>1, <1>2 DEF RemoveRegion

LEMMA OpenKeeps ==
  ASSUME TypeOK, RegionInv, NEW r \in Regions, OpenRegion(r)
  PROVE  RegionInv'
<1> DEFINE f == [state |-> "empty", digest |-> r.content]
<1>0. /\ UNCHANGED <<traced, reused, poisoned, pc>> /\ pc = "write" /\ r \in todo
      /\ regionF' = [regionF EXCEPT ![Path(r)] = f]
      /\ todo' = todo \ {r} /\ r \in traced /\ Path(r) \notin reused
  BY DEF OpenRegion, RegionInv, RegionsAreOurs
<1>1. Path(r) \in Paths /\ f \in RegionFiles /\ f # Absent /\ f.digest = r.content
  <2>1. Path(r) \in Paths /\ f \in RegionFiles
    BY DEF Paths, RegionFiles, States, Contents
  <2> QED BY <2>1, NotAbsent
<1> HIDE DEF f
<1>2. /\ regionF'[Path(r)] = f
      /\ Present(regionF') = Present(regionF) \union {Path(r)}
      /\ \A q \in Paths : q # Path(r) => regionF'[q] = regionF[q]
  BY <1>0, <1>1, OneRegionChanges
<1>3. Present(regionF) \subseteq Paths
  BY FilesThere
<1>4. RegionsWhole'
  BY <1>0, <1>2, <1>3 DEF RegionInv, RegionsWhole
<1>5. RegionsAreOurs'
  <2>1. \A p \in Present(regionF') : OfTarget(p)'
    BY <1>0, <1>1, <1>2, <1>3 DEF RegionInv, RegionsAreOurs, OfTarget
  <2> QED BY <1>0, <1>2, <2>1 DEF RegionInv, RegionsAreOurs, Written
<1> QED BY <1>4, <1>5 DEF RegionInv

\* The file being written is flushed, or completed.
LEMMA StateRegions ==
  ASSUME TypeOK, RegionInv, pc = "write", NEW p \in Present(regionF), NEW s \in States,
         s = "full" \/ regionF[p].state # "full",
         regionF' = [regionF EXCEPT ![p].state = s],
         UNCHANGED <<pc, traced, reused, todo, poisoned>>
  PROVE  RegionInv'
<1> DEFINE f == [regionF[p] EXCEPT !.state = s]
<1>1. p \in Paths /\ regionF[p] \in RegionFiles /\ regionF' = [regionF EXCEPT ![p] = f]
  BY FilesThere
<1>2. f \in RegionFiles /\ f # Absent /\ f.state = s /\ f.digest = regionF[p].digest
  BY <1>1, StateChanges, NotAbsent
<1> HIDE DEF f
<1>3. /\ regionF'[p] = f
      /\ Present(regionF') = Present(regionF) \union {p}
      /\ \A q \in Paths : q # p => regionF'[q] = regionF[q]
  BY <1>1, <1>2, OneRegionChanges
<1>4. Present(regionF') = Present(regionF) /\ Present(regionF) \subseteq Paths
  BY <1>3, FilesThere
<1>5. RegionsWhole'
  BY <1>2, <1>3, <1>4 DEF RegionInv, RegionsWhole
<1>6. \A q \in Present(regionF') : OfTarget(q)'
  BY <1>2, <1>3, <1>4 DEF RegionInv, RegionsAreOurs, OfTarget
<1>7. RegionsAreOurs'
  BY <1>4, <1>6 DEF RegionInv, RegionsAreOurs, Written
<1> QED BY <1>5, <1>7 DEF RegionInv

\* Without a region file open, all of them are complete unless one was poisoned.
LEMMA ClosingKeeps ==
  ASSUME RegionInv, CloseMeta \/ Crash
  PROVE  RegionInv'
<1>1. CASE CloseMeta
  BY <1>1 DEF CloseMeta, writerVars, Open, RegionInv, RegionsWhole, RegionsAreOurs, OfTarget, Written
<1>2. CASE Crash
  <2>1. RegionsWhole'
    BY <1>2 DEF Crash, dirVars, Open, RegionInv, RegionsWhole
  <2> QED BY <1>2, <2>1 DEF Crash, dirVars, RegionInv, RegionsAreOurs, Written
<1> QED BY <1>1, <1>2

LEMMA NextRegions == SessionInv /\ RegionInv /\ [Next]_vars => RegionInv'
<1> SUFFICES ASSUME SessionInv, RegionInv, [Next]_vars PROVE RegionInv'
  OBVIOUS
<1>0. TypeOK
  BY DEF SessionInv
<1>1. ASSUME NEW rs \in SUBSET Regions, NEW m \in Modes, Start(rs, m) PROVE RegionInv'
  BY <1>1, StartRegions
<1>2. CASE CleanOne \/ WriteMeta \/ CloseStreams \/ (\E t \in Threads : LogThread(t) \/ WriteThread(t))
  <2>1. UNCHANGED <<regionF, traced, reused, todo, poisoned>>
    BY <1>2 DEF CleanOne, WriteMeta, CloseStreams, LogThread, WriteThread, writerVars
  <2>2. \/ pc' = pc
        \/ pc \in {"clean", "log", "close"} /\ pc' \in {"log", "scan", "closed", "down"}
           /\ (pc' = "closed" => pc = "close")
    BY <1>2 DEF CleanOne, WriteMeta, CloseStreams, LogThread, WriteThread
  <2> QED BY <2>1, <2>2, QuietRegions
<1>3. CASE ScanRegions
  BY <1>3, ScanKeeps
<1>4. CASE RemoveRegion
  BY <1>0, <1>4, RemoveKeeps
<1>5. CASE CloseRegion
  <2>1. PICK p \in Open : regionF' = [regionF EXCEPT ![p].state = "full"]
    BY <1>5 DEF CloseRegion
  <2>2. p \in Present(regionF) /\ "full" \in States
    BY DEF Open, States
  <2> QED BY <1>0, <1>5, <2>1, <2>2, StateRegions DEF CloseRegion, writerVars
<1>6. ASSUME NEW r \in Regions, OpenRegion(r) PROVE RegionInv'
  BY <1>0, <1>6, OpenKeeps
<1>7. CASE FlushSome
  <2>1. CASE UNCHANGED regionF
    BY <1>7, <2>1, QuietRegions DEF FlushSome, writerVars
  <2>2. CASE pc = "write" /\ \E p \in Present(regionF) :
                               /\ regionF[p].state = "empty"
                               /\ regionF' = [regionF EXCEPT ![p].state = "partial"]
    <3>1. PICK p \in Present(regionF) : /\ regionF[p].state = "empty"
                                        /\ regionF' = [regionF EXCEPT ![p].state = "partial"]
      BY <2>2
    <3>2. "partial" \in States /\ regionF[p].state # "full"
      BY <3>1 DEF States
    <3> QED BY <1>0, <1>7, <2>2, <3>1, <3>2, StateRegions DEF FlushSome, writerVars
  <2> QED BY <1>7, <2>1, <2>2 DEF FlushSome
<1>8. CASE CloseMeta \/ Crash
  BY <1>8, ClosingKeeps
<1>9. CASE UNCHANGED vars
  BY <1>9, QuietRegions DEF vars, dirVars, writerVars
<1> QED BY <1>1, <1>2, <1>3, <1>4, <1>5, <1>6, <1>7, <1>8, <1>9 DEF Next

LEMMA AlwaysRegions == Spec => [](SessionInv /\ RegionInv)
<1>1. Init => SessionInv /\ RegionInv
  BY InitSession, InitRegions
<1>2. SessionInv /\ RegionInv /\ [Next]_vars => (SessionInv /\ RegionInv)'
  BY NextSession, NextRegions
<1> QED BY <1>1, <1>2, PTL DEF Spec

\* There are as many region files as regions exactly when no two regions share a name.
LEMMA AsManyFiles ==
  ASSUME NEW S \in SUBSET Regions
  PROVE  Cardinality({Path(r) : r \in S}) = Cardinality(S)
           <=> \A r, s \in S : Path(r) = Path(s) => r = s
<1> DEFINE T == {Path(r) : r \in S}
           f == [r \in S |-> Path(r)]
<1>1. IsFiniteSet(S)
  BY ConstantsAssumption, FS_Subset DEF ConstantsAssumption
<1>2. f \in Surjection(S, T)
  BY DEF Surjection
<1>3. Cardinality(T) = Cardinality(S) <=> f \in Injection(S, T)
  BY <1>1, <1>2, FS_Surjection
<1>4. f \in Injection(S, T) <=> \A r, s \in S : f[r] = f[s] => r = s
  BY DEF Injection, IsInjective
<1>5. \A r \in S : f[r] = Path(r)
  OBVIOUS
<1> QED BY <1>3, <1>4, <1>5

\* A session that ended normally has left a directory with its regions and complete
\* logs, which the reader accepts exactly if the regions differ in contents and names;
\* so no session is hurt by what earlier ones left, region files cut short apart.
THEOREM ClosedComplete == Spec => []ClosedIsComplete
<1>1. SessionInv /\ RegionInv => ClosedIsComplete
  <2> SUFFICES ASSUME SessionInv, RegionInv, pc = "closed", ~poisoned
               PROVE  /\ Readable <=> \A r, s \in traced :
                                         r.content = s.content \/ Path(r) = Path(s) => r = s
                      /\ meta.session = session /\ meta.regions = traced
                      /\ Present(threadF) = log
                      /\ \A t \in log : threadF[t].state = "full" /\ threadF[t].session = session
    BY DEF ClosedIsComplete
  <2>1. /\ meta # Absent /\ meta.state = "full"
        /\ meta.session = session /\ meta.regions = traced
    BY DEF SessionInv, MetaIsOurs, Writing, Written
  <2>2. /\ Present(threadF) = log
        /\ \A t \in log : threadF[t].state = "full" /\ threadF[t].session = session
    BY DEF SessionInv, LogsAreOurs, Written
  <2>3. /\ \A p \in Present(regionF) : regionF[p].state = "full" /\ OfTarget(p)
        /\ \A r \in traced : Path(r) \in Present(regionF)
    BY DEF RegionInv, RegionsWhole, RegionsAreOurs, Written
  <2>4. Present(regionF) = {Path(r) : r \in traced}
    BY <2>3 DEF OfTarget
  <2>5. traced \in SUBSET Regions
    BY DEF SessionInv, TypeOK
  <2>6. Cardinality(Present(regionF)) = Cardinality(meta.regions)
          <=> \A r, s \in traced : Path(r) = Path(s) => r = s
    BY <2>1, <2>4, <2>5, AsManyFiles
  <2>7. Opens(meta) /\ \A p \in Present(regionF) : Opens(regionF[p])
    BY <2>1, <2>3 DEF Opens, Present
  <2>8. \A t \in Present(threadF) : Opens(threadF[t]) /\ LogReads(threadF[t])
    BY <2>2 DEF Opens, LogReads, Present
  <2>9. ASSUME \A r, s \in traced : Path(r) = Path(s) => r = s
        PROVE  RegionsFound <=> \A r, s \in traced : r.content = s.content => r = s
    <3>1. ASSUME NEW r \in traced PROVE Bytes(r.content) = r.content
      <4>1. Path(r) \in Present(regionF) /\ regionF[Path(r)].digest = r.content
        BY <2>3, <2>9 DEF OfTarget
      <4> QED BY <2>3, <4>1 DEF Bytes
    <3> QED BY <2>1, <3>1 DEF RegionsFound
  <2>10. Readable <=> \A r, s \in traced : r.content = s.content \/ Path(r) = Path(s) => r = s
    <3>1. Readable <=> Cardinality(Present(regionF)) = Cardinality(meta.regions) /\ RegionsFound
      BY <2>1, <2>7, <2>8 DEF Readable
    <3> QED BY <2>6, <2>9, <3>1
  <2> QED BY <2>1, <2>2, <2>10
<1> QED BY <1>1, AlwaysRegions, PTL
=============================================================================
