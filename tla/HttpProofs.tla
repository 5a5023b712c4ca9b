------------------------------ MODULE HttpProofs ------------------------------
(***************************************************************************)
(* What is proved of the file store, of the cache of Redis connections and *)
(* of the tokens, for any number of requests, blocks, idle connections and *)
(* restarts.  Each part has an inductive invariant; the last section       *)
(* carries the results over to the composition that TLC explores.          *)
(***************************************************************************)
EXTENDS MCHttp, HttpReplyProofs, FiniteSetTheorems, SequenceTheorems, TLAPS

(***************************************************************************)
(* The file store.                                                         *)
(***************************************************************************)
Whole == good = 1..Size /\ size = Size

\* The upload that truncated the file last has written every block behind it.
Restoring(u) == Files!Writing(u) /\ 1..wr[u].at \subseteq good

FileKept    == (exists /\ ~torn) => Whole \/ \E u \in Uploads : Restoring(u)
WritersOpen == (\E u \in Uploads : Files!Writing(u)) \/ stored => exists
Quiet       == \A d \in Downloads : (Files!Reading(d) /\ ~rd[d].disturbed) => \A u \in Uploads : ~Files!Writing(u)
FromStart   == /\ \A u \in Uploads : wr[u].pc \in {"idle", "open"} => wr[u].at = 0
               /\ \A d \in Downloads : rd[d].pc = "open" => rd[d].at = 0 /\ rd[d].got = {}
ReadSoFar   == \A d \in Downloads : (rd[d].pc = "read" /\ ~rd[d].disturbed /\ ~torn) => exists /\ rd[d].got = 1..rd[d].at
NotLate     == \A d \in Downloads : (rd[d].pc \in {"open", "read"} /\ rd[d].late) => exists

StoreInv == Files!TypeOK /\ FileKept /\ FromStart /\ WritersOpen /\ Quiet /\ ReadSoFar /\ NotLate /\ Files!DownloadsAreWhole

\* No upload or download is under way at the start.
LEMMA StoreInitially == Files!Init => StoreInv
<1> SUFFICES ASSUME Files!Init PROVE StoreInv
  OBVIOUS
<1>1. Files!TypeOK
  <2>1. Files!NotRead \in Files!Download
    BY FilesAssumption DEF Files!NotRead, Files!Download
  <2>2. [pc |-> "idle", at |-> 0] \in Files!Upload
    BY FilesAssumption DEF Files!Upload
  <2>3. size \in 0..Size /\ good \subseteq 1..size
    BY FilesAssumption DEF Files!Init
  <2> QED
    BY <2>1, <2>2, <2>3, Zenon DEF Files!Init, Files!TypeOK
<1>2. FileKept /\ FromStart /\ WritersOpen /\ Quiet /\ ReadSoFar /\ NotLate /\ Files!DownloadsAreWhole
  BY DEF Files!Init, FileKept, FromStart, WritersOpen, Quiet, ReadSoFar, NotLate, Files!DownloadsAreWhole, Files!NotRead, Files!Reading, Files!Writing
<1> QED
  BY <1>1, <1>2 DEF StoreInv

\* The type invariant of the store is inductive by itself.
LEMMA StoreTypes == Files!TypeOK /\ [Files!StoreNext]_(Files!storeVars) => Files!TypeOK'
<1> SUFFICES ASSUME Files!TypeOK, [Files!StoreNext]_(Files!storeVars) PROVE Files!TypeOK'
  OBVIOUS
<1> USE FilesAssumption DEF Files!TypeOK
<1>1. ASSUME NEW u \in Uploads, Files!storeWriteHandler(u) PROVE Files!TypeOK'
  <2> USE DEF Files!Upload
  <2>1. CASE Files!Receive(u)
    BY <2>1 DEF Files!Receive
  <2>2. CASE Files!Truncate(u)
    <3>1. rd' \in [Downloads -> Files!Download]
      <4>1. ASSUME NEW d \in Downloads PROVE [rd[d] EXCEPT !.disturbed = TRUE] \in Files!Download
        BY DEF Files!Download
      <4> QED
        BY <2>2, <4>1 DEF Files!Truncate, Files!Disturbed
    <3>2. wr' \in [Uploads -> Files!Upload]
      BY <2>2 DEF Files!Truncate
    <3>3. size' \in 0..Size /\ good' \subseteq 1..size'
      BY <2>2 DEF Files!Truncate
    <3> QED
      BY <2>2, <3>1, <3>2, <3>3, Zenon DEF Files!Truncate
  <2>3. CASE Files!WriteBlock(u)
    BY <2>3 DEF Files!WriteBlock, Files!Writing
  <2>4. CASE Files!WriteFails(u)
    BY <2>4 DEF Files!WriteFails
  <2>5. CASE Files!Written(u)
    BY <2>5 DEF Files!Written
  <2> QED
    BY <1>1, <2>1, <2>2, <2>3, <2>4, <2>5 DEF Files!storeWriteHandler
<1>2. ASSUME NEW d \in Downloads, Files!storeReadHandler(d) PROVE Files!TypeOK'
  <2>0. rd'[d] \in Files!Download
    <3>1. CASE Files!Request(d)
      <4>1. rd'[d] = [pc |-> "open", at |-> 0, got |-> {}, disturbed |-> \E u \in Uploads : Files!Writing(u), late |-> stored]
        BY <3>1 DEF Files!Request, Files!NotRead
      <4>2. ASSUME NEW b \in BOOLEAN, NEW c \in BOOLEAN
            PROVE  [pc |-> "open", at |-> 0, got |-> {}, disturbed |-> b, late |-> c] \in Files!Download
        BY DEF Files!Download
      <4> QED
        BY <4>1, <4>2, Zenon
    <3>2. CASE Files!Open(d)
      BY <3>2 DEF Files!Open, Files!Download
    <3>3. CASE Files!ReadBlock(d)
      <4>1. rd[d] \in Files!Download
        OBVIOUS
      <4>2. CASE rd[d].at < size
        BY <3>3, <4>1, <4>2 DEF Files!ReadBlock, Files!Download
      <4>3. CASE rd[d].at >= size
        BY <3>3, <4>1, <4>3, SMTT(30) DEF Files!ReadBlock, Files!Download
      <4> QED
        BY <3>3, <4>2, <4>3 DEF Files!ReadBlock
    <3> QED
      BY <1>2, <3>1, <3>2, <3>3 DEF Files!storeReadHandler
  <2>1. rd' = [rd EXCEPT ![d] = rd'[d]] /\ UNCHANGED <<exists, size, good, alive, wr, torn, stored>>
    BY <1>2 DEF Files!storeReadHandler, Files!Request, Files!Open, Files!ReadBlock
  <2> QED
    BY <2>0, <2>1
<1>3. CASE Files!Crash
  BY <1>3, ZenonT(60) DEF Files!Crash, Files!Upload, Files!Download
<1>4. CASE Files!Restart
  BY <1>4 DEF Files!Restart
<1>5. CASE UNCHANGED Files!storeVars
  BY <1>5 DEF Files!storeVars
<1> QED
  BY <1>1, <1>2, <1>3, <1>4, <1>5 DEF Files!StoreNext

\* Every step of the handlers, a crash and a restart keep the invariant of the
\* store; one step per action, one conjunct of it at a time.
LEMMA StoreStep == StoreInv /\ [Files!StoreNext]_(Files!storeVars) => StoreInv'
<1> SUFFICES ASSUME StoreInv, [Files!StoreNext]_(Files!storeVars) PROVE StoreInv'
  OBVIOUS
<1>0. Files!TypeOK /\ Files!TypeOK'
  BY StoreTypes DEF StoreInv
<1> DEFINE Others == FileKept /\ FromStart /\ WritersOpen /\ Quiet /\ ReadSoFar /\ NotLate /\ Files!DownloadsAreWhole
<1>i. Others
  BY DEF StoreInv
<1> SUFFICES Others'
  BY <1>0 DEF StoreInv
<1> USE FilesAssumption DEF Files!Writing, Files!Reading, Files!Upload, Files!Download
<1>1. ASSUME NEW u \in Uploads, Files!Receive(u) PROVE Others'
  <2>1. FileKept'
    BY <1>0, <1>i, <1>1 DEF Files!Receive, Files!TypeOK, FileKept, Restoring, Whole
  <2>2. WritersOpen'
    BY <1>0, <1>i, <1>1 DEF Files!Receive, Files!TypeOK, WritersOpen
  <2>3. Quiet'
    BY <1>0, <1>i, <1>1 DEF Files!Receive, Files!TypeOK, Quiet
  <2>4. ReadSoFar'
    BY <1>0, <1>i, <1>1 DEF Files!Receive, Files!TypeOK, ReadSoFar, NotLate, Quiet, FileKept, Restoring, Whole
  <2>5. NotLate'
    BY <1>0, <1>i, <1>1 DEF Files!Receive, Files!TypeOK, NotLate, WritersOpen
  <2>6. Files!DownloadsAreWhole'
    BY <1>0, <1>i, <1>1 DEF Files!Receive, Files!TypeOK, Files!DownloadsAreWhole, ReadSoFar, Quiet, NotLate, FileKept, Restoring, Whole
  <2>7. FromStart'
    BY <1>0, <1>i, <1>1 DEF Files!Receive, Files!TypeOK, FromStart
  <2> QED
    BY <2>1, <2>2, <2>3, <2>4, <2>5, <2>6, <2>7
<1>2. ASSUME NEW u \in Uploads, Files!Truncate(u) PROVE Others'
  <2>1. CASE UNCHANGED <<exists, size, good, rd>> /\ wr' = [wr EXCEPT ![u].pc = "error"]
    BY <1>0, <1>2, <1>i, <2>1 DEF Files!Truncate, Files!TypeOK, FileKept, Restoring, Whole, FromStart, WritersOpen, Quiet, ReadSoFar, NotLate, Files!DownloadsAreWhole
  <2>2. CASE exists' = TRUE /\ size' = 0 /\ good' = {} /\ wr' = [wr EXCEPT ![u].pc = "write"] /\ rd' = Files!Disturbed
    <3>1. FileKept'
      BY <1>0, <1>i, <1>2, <2>2 DEF Files!Truncate, Files!TypeOK, FileKept, FromStart, Restoring, Whole
    <3>2. WritersOpen'
      BY <1>0, <1>i, <1>2, <2>2 DEF Files!Truncate, Files!Disturbed, Files!TypeOK, WritersOpen
    <3>3. Quiet'
      BY <1>0, <1>i, <1>2, <2>2 DEF Files!Truncate, Files!Disturbed, Files!TypeOK, Quiet
    <3>4. ReadSoFar'
      BY <1>0, <1>i, <1>2, <2>2 DEF Files!Truncate, Files!Disturbed, Files!TypeOK, ReadSoFar, NotLate, Quiet, FileKept, Restoring, Whole
    <3>5. NotLate'
      BY <1>0, <1>i, <1>2, <2>2 DEF Files!Truncate, Files!Disturbed, Files!TypeOK, NotLate, WritersOpen
    <3>6. Files!DownloadsAreWhole'
      BY <1>0, <1>i, <1>2, <2>2 DEF Files!Truncate, Files!Disturbed, Files!TypeOK, Files!DownloadsAreWhole, ReadSoFar, Quiet, NotLate, FileKept, Restoring, Whole
    <3>7. FromStart'
      BY <1>0, <1>i, <1>2, <2>2 DEF Files!Truncate, Files!Disturbed, Files!TypeOK, FromStart
    <3> QED
      BY <3>1, <3>2, <3>3, <3>4, <3>5, <3>6, <3>7
  <2> QED
    BY <1>2, <2>1, <2>2 DEF Files!Truncate
<1>3. ASSUME NEW u \in Uploads, Files!WriteBlock(u) PROVE Others'
  BY <1>0, <1>3, <1>i DEF Files!WriteBlock, Files!TypeOK, FileKept, Restoring, Whole, FromStart, WritersOpen, Quiet, ReadSoFar, NotLate, Files!DownloadsAreWhole
<1>4. ASSUME NEW u \in Uploads, Files!WriteFails(u) PROVE Others'
  BY <1>0, <1>4, <1>i DEF Files!WriteFails, Files!TypeOK, FileKept, Restoring, Whole, FromStart, WritersOpen, Quiet, ReadSoFar, NotLate, Files!DownloadsAreWhole
<1>5. ASSUME NEW u \in Uploads, Files!Written(u) PROVE Others'
  <2>1. FileKept'
    <3>1. CASE exists /\ ~torn /\ ~Whole
      <4>1. PICK w \in Uploads : Restoring(w)
        BY <1>i, <3>1 DEF FileKept
      <4>2. CASE w = u
        <5>1. 1..Size \subseteq good
          BY <1>5, <4>1, <4>2 DEF Files!Written, Restoring
        <5>2. size \in 0..Size /\ good \subseteq 1..size
          BY <1>0 DEF Files!TypeOK
        <5>3. size = Size
          <6>1. CASE Size = 0
            BY <5>2, <6>1
          <6>2. CASE Size # 0
            <7>1. Size \in 1..Size
              BY <6>2
            <7>2. Size \in 1..size
              BY <5>1, <5>2, <7>1
            <7> QED
              BY <5>2, <7>2
          <6> QED
            BY <6>1, <6>2
        <5> QED
          BY <3>1, <5>1, <5>2, <5>3 DEF Whole
      <4>3. CASE w # u
        <5>1. Restoring(w)'
          BY <1>0, <1>5, <4>1, <4>3 DEF Files!Written, Files!TypeOK, Restoring
        <5> QED
          BY <5>1 DEF FileKept
      <4> QED
        BY <4>2, <4>3
    <3>2. CASE ~(exists /\ ~torn /\ ~Whole)
      BY <1>5, <3>2 DEF Files!Written, FileKept, Whole
    <3> QED
      BY <3>1, <3>2
  <2>2. WritersOpen'
    BY <1>0, <1>i, <1>5 DEF Files!Written, Files!TypeOK, WritersOpen
  <2>3. Quiet'
    BY <1>0, <1>i, <1>5 DEF Files!Written, Files!TypeOK, Quiet
  <2>4. ReadSoFar'
    BY <1>0, <1>i, <1>5 DEF Files!Written, Files!TypeOK, ReadSoFar, NotLate, Quiet, FileKept, Restoring, Whole
  <2>5. NotLate'
    BY <1>0, <1>i, <1>5 DEF Files!Written, Files!TypeOK, NotLate, WritersOpen
  <2>6. Files!DownloadsAreWhole'
    BY <1>0, <1>i, <1>5 DEF Files!Written, Files!TypeOK, Files!DownloadsAreWhole, ReadSoFar, Quiet, NotLate, FileKept, Restoring, Whole
  <2>7. FromStart'
    BY <1>0, <1>i, <1>5 DEF Files!Written, Files!TypeOK, FromStart
  <2> QED
    BY <2>1, <2>2, <2>3, <2>4, <2>5, <2>6, <2>7
<1>6. ASSUME NEW d \in Downloads, Files!Request(d) PROVE Others'
  <2>1. FileKept'
    BY <1>0, <1>i, <1>6 DEF Files!Request, Files!NotRead, Files!TypeOK, FileKept, Restoring, Whole
  <2>2. WritersOpen'
    BY <1>0, <1>i, <1>6 DEF Files!Request, Files!NotRead, Files!TypeOK, WritersOpen
  <2>3. Quiet'
    BY <1>0, <1>i, <1>6 DEF Files!Request, Files!NotRead, Files!TypeOK, Quiet
  <2>4. ReadSoFar'
    BY <1>0, <1>i, <1>6 DEF Files!Request, Files!NotRead, Files!TypeOK, ReadSoFar
  <2>5. NotLate'
    BY <1>0, <1>i, <1>6 DEF Files!Request, Files!NotRead, Files!TypeOK, NotLate, WritersOpen
  <2>6. Files!DownloadsAreWhole'
    BY <1>0, <1>i, <1>6 DEF Files!Request, Files!NotRead, Files!TypeOK, Files!DownloadsAreWhole
  <2>7. FromStart'
    BY <1>0, <1>i, <1>6 DEF Files!Request, Files!NotRead, Files!TypeOK, FromStart
  <2> QED
    BY <2>1, <2>2, <2>3, <2>4, <2>5, <2>6, <2>7
<1>7. ASSUME NEW d \in Downloads, Files!Open(d) PROVE Others'
  <2>1. FileKept'
    BY <1>0, <1>i, <1>7 DEF Files!Open, Files!TypeOK, FileKept, Restoring, Whole
  <2>2. WritersOpen'
    BY <1>0, <1>i, <1>7 DEF Files!Open, Files!TypeOK, WritersOpen
  <2>3. Quiet'
    BY <1>0, <1>i, <1>7 DEF Files!Open, Files!TypeOK, Quiet
  <2>4. ReadSoFar'
    <3>1. ASSUME rd'[d].pc = "read", ~rd'[d].disturbed, ~torn PROVE exists /\ rd'[d].got = 1..rd'[d].at
      <4>1. exists /\ rd'[d].at = 0 /\ rd'[d].got = {}
        BY <1>0, <1>i, <1>7, <3>1 DEF Files!Open, Files!TypeOK, FromStart
      <4> QED
        BY <4>1
    <3> QED
      BY <1>0, <1>i, <1>7, <3>1 DEF Files!Open, Files!TypeOK, ReadSoFar
  <2>5. NotLate'
    BY <1>0, <1>i, <1>7 DEF Files!Open, Files!TypeOK, NotLate, WritersOpen
  <2>6. Files!DownloadsAreWhole'
    BY <1>0, <1>i, <1>7 DEF Files!Open, Files!TypeOK, Files!DownloadsAreWhole, ReadSoFar, Quiet, NotLate, FileKept, Restoring, Whole
  <2>7. FromStart'
    BY <1>0, <1>i, <1>7 DEF Files!Open, Files!TypeOK, FromStart
  <2> QED
    BY <2>1, <2>2, <2>3, <2>4, <2>5, <2>6, <2>7
<1>8. ASSUME NEW d \in Downloads, Files!ReadBlock(d) PROVE Others'
  <2>1. FileKept'
    BY <1>0, <1>i, <1>8 DEF Files!ReadBlock, Files!TypeOK, FileKept, Restoring, Whole
  <2>2. WritersOpen'
    BY <1>0, <1>i, <1>8 DEF Files!ReadBlock, Files!TypeOK, WritersOpen
  <2>3. Quiet'
    BY <1>0, <1>i, <1>8 DEF Files!ReadBlock, Files!TypeOK, Quiet
  <2>4. ReadSoFar'
    <3>1. ASSUME rd'[d].pc = "read", ~rd'[d].disturbed, ~torn PROVE exists /\ rd'[d].got = 1..rd'[d].at
      <4>1. rd[d].pc = "read" /\ ~rd[d].disturbed /\ rd[d].at < size
        BY <1>0, <1>8, <3>1 DEF Files!ReadBlock, Files!TypeOK
      <4>2. exists /\ rd[d].got = 1..rd[d].at /\ \A u \in Uploads : ~Files!Writing(u)
        BY <1>i, <3>1, <4>1 DEF ReadSoFar, Quiet
      <4>3. good = 1..Size /\ size = Size
        BY <1>i, <3>1, <4>2 DEF FileKept, Restoring, Whole
      <4>4. rd'[d].at = rd[d].at + 1 /\ rd'[d].got = rd[d].got \cup ({rd[d].at + 1} \cap good)
        BY <1>0, <1>8, <3>1 DEF Files!ReadBlock, Files!TypeOK
      <4>5. rd[d].at \in Nat
        BY <1>0 DEF Files!TypeOK
      <4> QED
        BY <4>1, <4>2, <4>3, <4>4, <4>5
    <3> QED
      BY <1>0, <1>i, <1>8, <3>1 DEF Files!ReadBlock, Files!TypeOK, ReadSoFar
  <2>5. NotLate'
    BY <1>0, <1>i, <1>8 DEF Files!ReadBlock, Files!TypeOK, NotLate, WritersOpen
  <2>6. Files!DownloadsAreWhole'
    BY <1>0, <1>i, <1>8 DEF Files!ReadBlock, Files!TypeOK, Files!DownloadsAreWhole, ReadSoFar, Quiet, NotLate, FileKept, Restoring, Whole
  <2>7. FromStart'
    BY <1>0, <1>i, <1>8 DEF Files!ReadBlock, Files!TypeOK, FromStart
  <2> QED
    BY <2>1, <2>2, <2>3, <2>4, <2>5, <2>6, <2>7
<1>9. CASE Files!Crash
  BY <1>0, <1>9, <1>i DEF Files!Crash, Files!TypeOK, FileKept, Restoring, Whole, FromStart, WritersOpen, Quiet, ReadSoFar, NotLate, Files!DownloadsAreWhole
<1>10. CASE Files!Restart
  BY <1>10, <1>i DEF Files!Restart, FileKept, Restoring, Whole, FromStart, WritersOpen, Quiet, ReadSoFar, NotLate, Files!DownloadsAreWhole
<1>11. CASE UNCHANGED Files!storeVars
  BY <1>11, <1>i DEF Files!storeVars, FileKept, Restoring, Whole, FromStart, WritersOpen, Quiet, ReadSoFar, NotLate, Files!DownloadsAreWhole
<1> QED
  BY <1>1, <1>2, <1>3, <1>4, <1>5, <1>6, <1>7, <1>8, <1>9, <1>10, <1>11 DEF Files!StoreNext, Files!storeWriteHandler, Files!storeReadHandler

-----------------------------------------------------------------------------
(***************************************************************************)
(* The cache.  Its proofs are in RedisCacheProofs, whose facts speak of    *)
(* definitions under the name of the instance: they are those of Cache.    *)
(***************************************************************************)
CacheFacts == INSTANCE RedisCacheProofs

\* Both instances of FiniteSets have its definitions.
LEMMA SameSizes == /\ \A S : CacheFacts!Cardinality(S) = Cache!Cardinality(S)
                   /\ \A S : CacheFacts!IsFiniteSet(S) <=> IsFiniteSet(S)
<1>1. \A S : CacheFacts!Cardinality(S) = Cache!Cardinality(S)
  BY Zenon DEF CacheFacts!Cardinality, Cache!Cardinality
<1>2. \A S : CacheFacts!IsFiniteSet(S) <=> IsFiniteSet(S)
  BY Zenon DEF CacheFacts!IsFiniteSet, IsFiniteSet
<1> QED
  BY <1>1, <1>2

\* The initial states and the steps of the cache are those that RedisCacheProofs is about ...
LEMMA SameCache == /\ CacheFacts!CacheParameters
                   /\ Cache!Init => CacheFacts!Init
                   /\ [Cache!CacheNext]_(Cache!redisVars) => [CacheFacts!CacheNext]_(CacheFacts!redisVars)
<1>1. CacheFacts!CacheParameters
  BY CacheAssumption, SameSizes DEF CacheFacts!CacheParameters
<1>2. Cache!Init => CacheFacts!Init
  BY DEF Cache!Init, Cache!Fresh, Cache!NoConn, Cache!Clients, Cache!Keys,
         CacheFacts!Init, CacheFacts!Fresh, CacheFacts!NoConn, CacheFacts!Clients, CacheFacts!Keys
<1>3. Cache!CacheNext => CacheFacts!CacheNext
  BY Zenon DEF Cache!CacheNext, Cache!Begin, Cache!Refuse, Cache!Serve, Cache!Get, Cache!Ping,
       Cache!Dial, Cache!Close, Cache!Set, Cache!Delete, Cache!Exists, Cache!Read, Cache!SetVersion,
       Cache!Pass, Cache!Tick, Cache!Stop, Cache!Start, Cache!Evict, Cache!Takes, Cache!OneMore,
       Cache!Asking, Cache!Due, Cache!Found, Cache!Keys, Cache!Forever, Cache!keys, Cache!server,
       Cache!Clients, Cache!Fresh, Cache!Busy, Cache!Alive, Cache!Reply, Cache!Answered, Cache!Doing,
       Cache!Shortened, Cache!NoConn, Cache!VersionTtl, CacheFacts!CacheNext, CacheFacts!Begin,
       CacheFacts!Refuse, CacheFacts!Serve, CacheFacts!Get, CacheFacts!Ping, CacheFacts!Dial,
       CacheFacts!Close, CacheFacts!Set, CacheFacts!Delete, CacheFacts!Exists, CacheFacts!Read,
       CacheFacts!SetVersion, CacheFacts!Pass, CacheFacts!Tick, CacheFacts!Stop, CacheFacts!Start,
       CacheFacts!Evict, CacheFacts!Takes, CacheFacts!OneMore, CacheFacts!Asking, CacheFacts!Due,
       CacheFacts!Found, CacheFacts!Keys, CacheFacts!Forever, CacheFacts!keys, CacheFacts!server,
       CacheFacts!Clients, CacheFacts!Fresh, CacheFacts!Busy, CacheFacts!Alive, CacheFacts!Reply,
       CacheFacts!Answered, CacheFacts!Doing, CacheFacts!Shortened, CacheFacts!NoConn,
       CacheFacts!VersionTtl
<1>4. UNCHANGED Cache!redisVars => UNCHANGED CacheFacts!redisVars
  BY DEF CacheFacts!redisVars, CacheFacts!server, CacheFacts!keys, Cache!redisVars, Cache!server, Cache!keys
<1> QED
  BY <1>1, <1>2, <1>3, <1>4

\* ... and so is what it proves of them.
LEMMA CacheImplies ==
  CacheFacts!CacheInv => Cache!TypeOK /\ Cache!ConnectionsAccountedFor /\ Cache!VersionKeyStays
<1> SUFFICES ASSUME CacheFacts!TypeOK, CacheFacts!ConnectionsAccountedFor, CacheFacts!VersionKeyStays
             PROVE  Cache!TypeOK /\ Cache!ConnectionsAccountedFor /\ Cache!VersionKeyStays
  BY CacheFacts!CacheImplies
<1>1. Cache!TypeOK
  BY SameSizes DEF Cache!TypeOK, Cache!Clients, Cache!Client, Cache!Keys, Cache!Forever,
       CacheFacts!TypeOK, CacheFacts!Clients, CacheFacts!Client, CacheFacts!Keys, CacheFacts!Forever
<1>2. Cache!ConnectionsAccountedFor
  BY SameSizes DEF Cache!ConnectionsAccountedFor, Cache!Clients, Cache!Busy, Cache!NoConn,
       CacheFacts!ConnectionsAccountedFor, CacheFacts!Clients, CacheFacts!Busy, CacheFacts!NoConn
<1>3. Cache!VersionKeyStays
  BY DEF Cache!VersionKeyStays, Cache!Due, Cache!Asking,
         CacheFacts!VersionKeyStays, CacheFacts!Due, CacheFacts!Asking
<1> QED
  BY <1>1, <1>2, <1>3

\* The service that the handlers are to be is the same under both names.
LEMMA SamePromise ==
  /\ CacheFacts!Promise!Init => Cache!Promise!Init
  /\ [CacheFacts!Promise!Next]_(CacheFacts!Promise!kvars) => [Cache!Promise!Next]_(Cache!Promise!kvars)
<1>1. CacheFacts!Promise!Init => Cache!Promise!Init
  BY DEF CacheFacts!Promise!Init, CacheFacts!Asking, CacheFacts!Question, CacheFacts!Found,
         Cache!Promise!Init, Cache!Asking, Cache!Question, Cache!Found
<1>2. CacheFacts!Promise!Next => Cache!Promise!Next
  BY Zenon DEF Cache!Promise!Next, Cache!Promise!Ask, Cache!Promise!Idle, Cache!Promise!Decline,
       Cache!Promise!Apply, Cache!Promise!Fail, Cache!Promise!Forget, Cache!Promise!Lose,
       Cache!Promise!Provide, Cache!Promise!GoDown, Cache!Promise!ComeUp, Cache!Promise!Tell,
       Cache!Promise!kvars, CacheFacts!Promise!Next, CacheFacts!Promise!Ask, CacheFacts!Promise!Idle,
       CacheFacts!Promise!Decline, CacheFacts!Promise!Apply, CacheFacts!Promise!Fail,
       CacheFacts!Promise!Forget, CacheFacts!Promise!Lose, CacheFacts!Promise!Provide,
       CacheFacts!Promise!GoDown, CacheFacts!Promise!ComeUp, CacheFacts!Promise!Tell,
       CacheFacts!Promise!kvars, Cache!Asking, Cache!Question, Cache!Found, CacheFacts!Asking,
       CacheFacts!Question, CacheFacts!Found
<1>3. UNCHANGED CacheFacts!Promise!kvars => UNCHANGED Cache!Promise!kvars
  BY DEF CacheFacts!Promise!kvars, CacheFacts!Asking, CacheFacts!Question, CacheFacts!Found,
         Cache!Promise!kvars, Cache!Asking, Cache!Question, Cache!Found
<1> QED
  BY <1>1, <1>2, <1>3

-----------------------------------------------------------------------------
(***************************************************************************)
(* The tokens.                                                             *)
(***************************************************************************)
\* What is known of a token under way, and of the clock.
TokenInv ==
  /\ now \in Nat
  /\ token.name # "them" =>
       \/ token = Jwt!NoToken
       \/ /\ token.key = "ours" /\ token.alg = "HS256" /\ token.iss = "podinfo"
          /\ token.at \in Nat /\ token.exp = Jwt!Unix(token.at) + 60

\* The clock starts at 0, without a token.
LEMMA TokenInitially == Jwt!Init => TokenInv
  BY DEF Jwt!Init, TokenInv

\* Only we issue tokens that are not theirs, and no token is ever changed.
LEMMA TokenStep == TokenInv /\ [Jwt!TokenNext]_(Jwt!tokenVars) => TokenInv'
<1> SUFFICES ASSUME TokenInv, [Jwt!TokenNext]_(Jwt!tokenVars) PROVE TokenInv'
  OBVIOUS
<1>1. CASE Jwt!tokenGenerateHandler \/ Jwt!TokenGenerate
  <2>1. PICK name \in {"body", "anonymous"} : token' = Jwt!Issued(name)
    BY <1>1 DEF Jwt!tokenGenerateHandler, Jwt!TokenGenerate
  <2>2. now' = now
    BY <1>1 DEF Jwt!tokenGenerateHandler, Jwt!TokenGenerate
  <2> QED
    BY <2>1, <2>2 DEF TokenInv, Jwt!Issued, Jwt!Unix, Jwt!Minute
<1>2. CASE Jwt!ForeignToken
  <2>1. token'.name = "them" /\ now' = now
    BY <1>2 DEF Jwt!ForeignToken, Jwt!Foreign
  <2> QED
    BY <2>1 DEF TokenInv
<1>3. CASE Jwt!Pass
  BY <1>3 DEF Jwt!Pass, TokenInv, Jwt!NoToken, Jwt!Unix
<1>4. CASE UNCHANGED <<now, token>>
  BY <1>4 DEF TokenInv, Jwt!NoToken, Jwt!Unix
<1> QED
  BY <1>1, <1>2, <1>3, <1>4 DEF Jwt!TokenNext, Jwt!tokenValidateHandler, Jwt!TokenValidate, Jwt!tokenVars

\* Counting exp in whole seconds costs a token at most one of its sixty.
LEMMA TokenTimes ==
  ASSUME NEW issued \in Nat, NEW t \in Nat
  PROVE  /\ Jwt!Unix(t) < Jwt!Unix(issued) + 60 => t - issued < 120
         /\ t - issued <= 118 => Jwt!Unix(t) < Jwt!Unix(issued) + 60
         /\ Jwt!Unix(issued) + 60 # 0
  BY DEF Jwt!Unix

\* Either server accepts a token of ours for its minute, and no longer.
LEMMA TokenAnswers == TokenInv /\ [Jwt!TokenNext]_(Jwt!tokenVars) => [Jwt!Answers]_(Jwt!tokenVars)
<1> SUFFICES ASSUME TokenInv PROVE Jwt!Answers
  OBVIOUS
<1>1. ASSUME token # Jwt!NoToken, Jwt!Ours
      PROVE  /\ token.key = "ours" /\ token.alg = "HS256" /\ token.iss = "podinfo"
             /\ Jwt!Valid(token) => now - token.at < 120
             /\ now - token.at <= 118 => Jwt!Valid(token)
  <2>1. /\ token.key = "ours" /\ token.alg = "HS256" /\ token.iss = "podinfo"
        /\ token.at \in Nat /\ token.exp = Jwt!Unix(token.at) + 60 /\ now \in Nat
    BY <1>1 DEF TokenInv, Jwt!Ours
  <2>2. /\ Jwt!Unix(now) < Jwt!Unix(token.at) + 60 => now - token.at < 120
        /\ now - token.at <= 118 => Jwt!Unix(now) < Jwt!Unix(token.at) + 60
        /\ Jwt!Unix(token.at) + 60 # 0
    BY <2>1, TokenTimes
  <2>3. Jwt!Unix(now) \in Int /\ Jwt!Unix(token.at) \in Int
    BY <2>1 DEF Jwt!Unix
  <2> QED
    BY <2>1, <2>2, <2>3 DEF Jwt!Valid, Jwt!Expired, Jwt!Hmac, Jwt!Verified
<1>2. ASSUME Jwt!tokenValidateHandler
      PROVE  /\ token # Jwt!NoToken
             /\ http'.body = "claims" <=> Jwt!HttpHeader(sent') /\ Jwt!Valid(token) /\ token.iss = "podinfo"
  BY <1>2 DEF Jwt!tokenValidateHandler
<1>3. ASSUME Jwt!TokenValidate
      PROVE  /\ token # Jwt!NoToken
             /\ grpc'.body = "claims" => Jwt!Valid(token) /\ token.iss = "podinfo"
             /\ Jwt!Asked /\ Jwt!Valid(token) /\ token.iss = "podinfo" => grpc'.body = "claims"
  <2>1. token # Jwt!NoToken /\ grpc' = Jwt!GrpcReply(sent')
    BY <1>3 DEF Jwt!TokenValidate
  <2>2. grpc'.body = "claims" => Jwt!Valid(token) /\ token.iss = "podinfo"
    BY <2>1 DEF Jwt!GrpcReply
  <2>3. Jwt!Asked /\ Jwt!Valid(token) /\ token.iss = "podinfo" => grpc'.body = "claims"
    BY <2>1 DEF Jwt!GrpcReply, Jwt!Asked, Jwt!Valid
  <2> QED
    BY <2>1, <2>2, <2>3
<1>4. ASSUME Jwt!Accepted
      PROVE  /\ token.key = "ours" /\ token.alg \in {"HS256", "HS512"} /\ token.iss = "podinfo"
             /\ Jwt!Ours => now - token.at < 120
  <2>1. token # Jwt!NoToken /\ Jwt!Valid(token) /\ token.iss = "podinfo"
    BY <1>2, <1>3, <1>4 DEF Jwt!Accepted
  <2>2. token.key = "ours" /\ token.alg \in {"HS256", "HS512"}
    BY <2>1 DEF Jwt!Valid, Jwt!Hmac, Jwt!Verified
  <2> QED
    BY <1>1, <2>1, <2>2
<1>5. ASSUME Jwt!Ours, now - token.at <= 118, Jwt!Asked
      PROVE  /\ Jwt!tokenValidateHandler => http'.body = "claims"
             /\ Jwt!TokenValidate => grpc'.body = "claims"
  BY <1>1, <1>2, <1>3, <1>5 DEF Jwt!Asked
<1> QED
  BY <1>4, <1>5 DEF Jwt!Answers, Jwt!Minute

-----------------------------------------------------------------------------
(***************************************************************************)
(* Types of the tokens and of the router.                                  *)
(***************************************************************************)
\* The time of exp and of now in whole seconds.
LEMMA UnixTimes == \A t \in 0..MaxTime : Jwt!Unix(t) \in 0..MaxTime
  BY TokensAssumption DEF Jwt!Unix

\* The replies of the two servers.
LEMMA TokenReplies ==
  /\ Jwt!tokenValidateHandler => http'.code = "200" /\ http'.body \in {"claims", "error"}
  /\ Jwt!TokenValidate => /\ grpc'.code \in {"OK", "Unauthenticated"}
                         /\ grpc'.body \in {"none", "claims", "message", "empty"}
<1>1. Jwt!tokenValidateHandler => http'.code = "200" /\ http'.body \in {"claims", "error"}
  BY DEF Jwt!tokenValidateHandler
<1>2. \A words : /\ Jwt!GrpcReply(words).code \in {"OK", "Unauthenticated"}
                 /\ Jwt!GrpcReply(words).body \in {"none", "claims", "message", "empty"}
  BY DEF Jwt!GrpcReply
<1> QED
  BY <1>1, <1>2 DEF Jwt!TokenValidate

\* The types of the tokens, which are inductive.
LEMMA TokenTypes ==
  /\ Jwt!Init => Jwt!TypeOK
  /\ Jwt!TypeOK /\ [Jwt!TokenNext]_(Jwt!tokenVars) => Jwt!TypeOK'
<1> DEFINE Tokens == Jwt!Foreign \cup {Jwt!NoToken}
                      \cup [alg : {"HS256"}, key : {"ours"}, iss : {"podinfo"},
                            exp : Jwt!Minute..(Jwt!Minute + MaxTime), name : {"body", "anonymous"}, at : Starts]
           Http(r) == r.code \in {"none", "200"} /\ r.body \in {"none", "claims", "error"}
           Grpc(r) == /\ r.code \in {"none", "OK", "Unauthenticated"}
                      /\ r.body \in {"none", "claims", "message", "empty"}
<1>0. Jwt!TypeOK <=> now \in 0..MaxTime /\ token \in Tokens /\ sent \in Jwt!Headers /\ Http(http) /\ Grpc(grpc)
  BY DEF Jwt!TypeOK
<1>1. ASSUME Jwt!Init PROVE Jwt!TypeOK
  <2>1. now \in 0..MaxTime /\ token = Jwt!NoToken /\ sent \in Jwt!Headers /\ Http(http) /\ Grpc(grpc)
    BY <1>1, TokensAssumption DEF Jwt!Init, Jwt!NoReply, Jwt!Headers
  <2> QED
    BY <1>0, <2>1
<1>2. ASSUME Jwt!TypeOK, [Jwt!TokenNext]_(Jwt!tokenVars) PROVE Jwt!TypeOK'
  <2>0. now \in 0..MaxTime /\ token \in Tokens /\ sent \in Jwt!Headers /\ Http(http) /\ Grpc(grpc)
    BY <1>0, <1>2
  <2>t. (now' \in 0..MaxTime /\ token' \in Tokens /\ sent' \in Jwt!Headers /\ Http(http') /\ Grpc(grpc')) => Jwt!TypeOK'
    BY DEF Jwt!TypeOK
  <2>1. CASE Jwt!tokenGenerateHandler \/ Jwt!TokenGenerate
    <3>1. PICK name \in {"body", "anonymous"} : token' = Jwt!Issued(name)
      BY <2>1 DEF Jwt!tokenGenerateHandler, Jwt!TokenGenerate
    <3>2. now \in Starts /\ UNCHANGED <<now, sent, http, grpc>>
      BY <2>1 DEF Jwt!tokenGenerateHandler, Jwt!TokenGenerate
    <3>3. Jwt!Unix(now) + Jwt!Minute \in Jwt!Minute..(Jwt!Minute + MaxTime)
      BY <2>0, UnixTimes, TokensAssumption DEF Jwt!Minute
    <3>4. token' \in Tokens
      BY <3>1, <3>2, <3>3 DEF Jwt!Issued
    <3> QED
      BY <2>0, <2>t, <3>2, <3>4
  <2>2. CASE Jwt!ForeignToken
    BY <2>0, <2>2, <2>t DEF Jwt!ForeignToken
  <2>3. CASE Jwt!Pass
    <3>1. now' \in 0..MaxTime /\ UNCHANGED <<token, sent, http, grpc>>
      BY <2>0, <2>3, TokensAssumption DEF Jwt!Pass
    <3> QED
      BY <2>0, <2>t, <3>1
  <2>4. CASE Jwt!tokenValidateHandler
    <3>1. sent' \in Jwt!Headers /\ UNCHANGED <<now, token, grpc>>
      BY <2>4 DEF Jwt!tokenValidateHandler
    <3> QED
      BY <2>0, <2>4, <2>t, <3>1, TokenReplies
  <2>5. CASE Jwt!TokenValidate
    <3>1. sent' \in Jwt!Headers /\ UNCHANGED <<now, token, http>>
      BY <2>5 DEF Jwt!TokenValidate
    <3> QED
      BY <2>0, <2>5, <2>t, <3>1, TokenReplies
  <2>6. CASE UNCHANGED Jwt!tokenVars
    BY <2>0, <2>6, <2>t DEF Jwt!tokenVars
  <2> QED
    BY <1>2, <2>1, <2>2, <2>3, <2>4, <2>5, <2>6 DEF Jwt!TokenNext
<1> QED
  BY <1>1, <1>2

-----------------------------------------------------------------------------
(***************************************************************************)
(* The router.  What the table says row by row, and that a request is      *)
(* given to the first row that takes it.                                   *)
(***************************************************************************)
\* The two halves of the table have sixteen rows each.
LEMMA Halves == /\ Router!OperationalRoutes \in Seq({Router!OperationalRoutes[i] : i \in 1..16})
                /\ Router!DataRoutes \in Seq({Router!DataRoutes[i] : i \in 1..16})
                /\ Len(Router!OperationalRoutes) = 16 /\ Len(Router!DataRoutes) = 16
<1>1. Router!OperationalRoutes = [i \in 1..16 |-> Router!OperationalRoutes[i]]
  BY DEF Router!OperationalRoutes
<1>2. Router!DataRoutes = [i \in 1..16 |-> Router!DataRoutes[i]]
  BY DEF Router!DataRoutes
<1>3. /\ Router!OperationalRoutes \in [1..16 -> {Router!OperationalRoutes[i] : i \in 1..16}]
      /\ Router!DataRoutes \in [1..16 -> {Router!DataRoutes[i] : i \in 1..16}]
  BY <1>1, <1>2
<1>4. /\ Router!OperationalRoutes \in Seq({Router!OperationalRoutes[i] : i \in 1..16})
      /\ Router!DataRoutes \in Seq({Router!DataRoutes[i] : i \in 1..16})
  BY <1>3, SeqDef, ZenonT(60)
<1>5. DOMAIN Router!OperationalRoutes = 1..16 /\ DOMAIN Router!DataRoutes = 1..16
  BY <1>3
<1> QED
  BY <1>4, <1>5, LenProperties

\* The table is one half after the other.
LEMMA TableRows ==
  /\ Router!Routed = 1..32 /\ Len(Router!registerHandlers) = 32
  /\ \A i \in 1..16 : /\ Router!registerHandlers[i] = Router!OperationalRoutes[i]
                      /\ Router!registerHandlers[i + 16] = Router!DataRoutes[i]
<1> DEFINE Rows == {Router!OperationalRoutes[i] : i \in 1..16} \cup {Router!DataRoutes[i] : i \in 1..16}
<1>1. Router!OperationalRoutes \in Seq(Rows) /\ Router!DataRoutes \in Seq(Rows)
  BY Halves
<1> HIDE DEF Rows
<1>2. /\ Len(Router!registerHandlers) = Len(Router!OperationalRoutes) + Len(Router!DataRoutes)
      /\ \A i \in 1..(Len(Router!OperationalRoutes) + Len(Router!DataRoutes)) :
            Router!registerHandlers[i] = IF i <= Len(Router!OperationalRoutes)
                                         THEN Router!OperationalRoutes[i]
                                         ELSE Router!DataRoutes[i - Len(Router!OperationalRoutes)]
  BY <1>1, ConcatProperties DEF Router!registerHandlers
<1>3. Len(Router!registerHandlers) = 32
  BY <1>2, Halves
<1>4. ASSUME NEW i \in 1..32
      PROVE  Router!registerHandlers[i] = IF i <= 16 THEN Router!OperationalRoutes[i] ELSE Router!DataRoutes[i - 16]
  <2>1. i \in 1..(Len(Router!OperationalRoutes) + Len(Router!DataRoutes))
    BY Halves
  <2>2. Router!registerHandlers[i] = IF i <= Len(Router!OperationalRoutes)
                                     THEN Router!OperationalRoutes[i]
                                     ELSE Router!DataRoutes[i - Len(Router!OperationalRoutes)]
    BY <1>2, <2>1
  <2> QED
    BY <2>2, Halves
<1> QED
  BY <1>3, <1>4 DEF Router!Routed

\* A row is labelled by its path or by one of four names, and no handler is called like an error.
Labelled(row) ==
  /\ row.name \in {"", "delay", "status", "store", "cache"}
  /\ Router!urlToLabel(row.label) # ""
  /\ row.handler \notin {Router!NotFound, Router!NotAllowed, "open"}

\* Every row is labelled.
LEMMA RowsLabelled == \A i \in Router!Routed : Labelled(Router!registerHandlers[i])
<1>1.
      /\ Labelled(Router!OperationalRoutes[1]) /\ Labelled(Router!OperationalRoutes[2])
      /\ Labelled(Router!OperationalRoutes[3]) /\ Labelled(Router!OperationalRoutes[4])
      /\ Labelled(Router!OperationalRoutes[5]) /\ Labelled(Router!OperationalRoutes[6])
      /\ Labelled(Router!OperationalRoutes[7]) /\ Labelled(Router!OperationalRoutes[8])
      /\ Labelled(Router!OperationalRoutes[9]) /\ Labelled(Router!OperationalRoutes[10])
      /\ Labelled(Router!OperationalRoutes[11]) /\ Labelled(Router!OperationalRoutes[12])
      /\ Labelled(Router!OperationalRoutes[13]) /\ Labelled(Router!OperationalRoutes[14])
      /\ Labelled(Router!OperationalRoutes[15]) /\ Labelled(Router!OperationalRoutes[16])
  BY ZenonT(60) DEF Labelled, Router!OperationalRoutes, Router!On, Router!ForBrowsers, Router!Named, Router!Route,
         Router!urlToLabel, Router!NotFound, Router!NotAllowed
<1>2.
      /\ Labelled(Router!DataRoutes[1]) /\ Labelled(Router!DataRoutes[2])
      /\ Labelled(Router!DataRoutes[3]) /\ Labelled(Router!DataRoutes[4])
      /\ Labelled(Router!DataRoutes[5]) /\ Labelled(Router!DataRoutes[6])
      /\ Labelled(Router!DataRoutes[7]) /\ Labelled(Router!DataRoutes[8])
      /\ Labelled(Router!DataRoutes[9]) /\ Labelled(Router!DataRoutes[10])
      /\ Labelled(Router!DataRoutes[11]) /\ Labelled(Router!DataRoutes[12])
      /\ Labelled(Router!DataRoutes[13]) /\ Labelled(Router!DataRoutes[14])
      /\ Labelled(Router!DataRoutes[15]) /\ Labelled(Router!DataRoutes[16])
  BY ZenonT(60) DEF Labelled, Router!DataRoutes, Router!On, Router!ForBrowsers, Router!Named, Router!Route,
         Router!urlToLabel, Router!NotFound, Router!NotAllowed
<1>3. \A i \in 1..16 : Labelled(Router!registerHandlers[i]) /\ Labelled(Router!registerHandlers[i + 16])
  BY <1>1, <1>2, TableRows
<1> QED
  BY <1>3, TableRows

\* Only the third row has the page, for browsers, and only the fourth row answers / otherwise.
Paged(row, i) == /\ row.handler = "index" => i = 3 /\ row.agent = "Mozilla"
                 /\ row.handler = "info" /\ row.path = "/" => i = 4

\* The order of the rows for /.
LEMMA RowsPaged == /\ \A i \in Router!Routed : Paged(Router!registerHandlers[i], i)
                   /\ Router!registerHandlers[3].path = "/" /\ Router!registerHandlers[3].methods = {"GET"}
                   /\ Router!registerHandlers[4].methods = {"GET"}
<1>1.
      /\ Paged(Router!OperationalRoutes[1], 1) /\ Paged(Router!OperationalRoutes[2], 2)
      /\ Paged(Router!OperationalRoutes[3], 3) /\ Paged(Router!OperationalRoutes[4], 4)
      /\ Paged(Router!OperationalRoutes[5], 5) /\ Paged(Router!OperationalRoutes[6], 6)
      /\ Paged(Router!OperationalRoutes[7], 7) /\ Paged(Router!OperationalRoutes[8], 8)
      /\ Paged(Router!OperationalRoutes[9], 9) /\ Paged(Router!OperationalRoutes[10], 10)
      /\ Paged(Router!OperationalRoutes[11], 11) /\ Paged(Router!OperationalRoutes[12], 12)
      /\ Paged(Router!OperationalRoutes[13], 13) /\ Paged(Router!OperationalRoutes[14], 14)
      /\ Paged(Router!OperationalRoutes[15], 15) /\ Paged(Router!OperationalRoutes[16], 16)
  BY ZenonT(60) DEF Paged, Router!OperationalRoutes, Router!On, Router!ForBrowsers, Router!Named, Router!Route
<1>2.
      /\ Paged(Router!DataRoutes[1], 17) /\ Paged(Router!DataRoutes[2], 18)
      /\ Paged(Router!DataRoutes[3], 19) /\ Paged(Router!DataRoutes[4], 20)
      /\ Paged(Router!DataRoutes[5], 21) /\ Paged(Router!DataRoutes[6], 22)
      /\ Paged(Router!DataRoutes[7], 23) /\ Paged(Router!DataRoutes[8], 24)
      /\ Paged(Router!DataRoutes[9], 25) /\ Paged(Router!DataRoutes[10], 26)
      /\ Paged(Router!DataRoutes[11], 27) /\ Paged(Router!DataRoutes[12], 28)
      /\ Paged(Router!DataRoutes[13], 29) /\ Paged(Router!DataRoutes[14], 30)
      /\ Paged(Router!DataRoutes[15], 31) /\ Paged(Router!DataRoutes[16], 32)
  BY DEF Paged, Router!DataRoutes, Router!On, Router!ForBrowsers, Router!Named, Router!Route
<1>3. /\ Router!OperationalRoutes[3].path = "/" /\ Router!OperationalRoutes[3].methods = {"GET"}
      /\ Router!OperationalRoutes[4].methods = {"GET"}
  BY DEF Router!OperationalRoutes, Router!On, Router!ForBrowsers, Router!Route
<1>4. \A i \in 1..16 : Paged(Router!registerHandlers[i], i) /\ Paged(Router!registerHandlers[i + 16], i + 16)
  BY <1>1, <1>2, TableRows
<1> QED
  BY <1>3, <1>4, TableRows, SMTT(30)

\* A row offers an operation of the document to every client; a row serves it if it has a handler
\* that documents it or does not take it at all.
Offers(row, operation) == row.path = operation[1] /\ operation[2] \in row.methods /\ row.agent = ""
Serves(row, operation) == row.path = operation[1] /\ operation[2] \in row.methods => row.handler \in operation[3]
AllServe(operation) ==
  /\ Serves(Router!OperationalRoutes[1], operation) /\ Serves(Router!OperationalRoutes[2], operation)
  /\ Serves(Router!OperationalRoutes[3], operation) /\ Serves(Router!OperationalRoutes[4], operation)
  /\ Serves(Router!OperationalRoutes[5], operation) /\ Serves(Router!OperationalRoutes[6], operation)
  /\ Serves(Router!OperationalRoutes[7], operation) /\ Serves(Router!OperationalRoutes[8], operation)
  /\ Serves(Router!OperationalRoutes[9], operation) /\ Serves(Router!OperationalRoutes[10], operation)
  /\ Serves(Router!OperationalRoutes[11], operation) /\ Serves(Router!OperationalRoutes[12], operation)
  /\ Serves(Router!OperationalRoutes[13], operation) /\ Serves(Router!OperationalRoutes[14], operation)
  /\ Serves(Router!OperationalRoutes[15], operation) /\ Serves(Router!OperationalRoutes[16], operation)
  /\ Serves(Router!DataRoutes[1], operation) /\ Serves(Router!DataRoutes[2], operation)
  /\ Serves(Router!DataRoutes[3], operation) /\ Serves(Router!DataRoutes[4], operation)
  /\ Serves(Router!DataRoutes[5], operation) /\ Serves(Router!DataRoutes[6], operation)
  /\ Serves(Router!DataRoutes[7], operation) /\ Serves(Router!DataRoutes[8], operation)
  /\ Serves(Router!DataRoutes[9], operation) /\ Serves(Router!DataRoutes[10], operation)
  /\ Serves(Router!DataRoutes[11], operation) /\ Serves(Router!DataRoutes[12], operation)
  /\ Serves(Router!DataRoutes[13], operation) /\ Serves(Router!DataRoutes[14], operation)
  /\ Serves(Router!DataRoutes[15], operation) /\ Serves(Router!DataRoutes[16], operation)
Excepted == <<"/token/validate", "POST", {"tokenValidate"}>>

\* No row takes a documented operation for a handler that does not document it.
LEMMA RowsServe == \A operation \in Router!Documented : \A i \in Router!Routed : Serves(Router!registerHandlers[i], operation)
<1>1. \A operation \in Router!DocumentedEcho : AllServe(operation)
  <2>1. AllServe(<<"/", "GET", {"index", "info"}>>)
    BY ZenonT(60) DEF AllServe, Serves, Router!OperationalRoutes, Router!DataRoutes, Router!Methods,
           Router!On, Router!ForBrowsers, Router!Named, Router!Route
  <2>2. AllServe(<<"/api/echo", "POST", {"echo"}>>)
    BY ZenonT(60) DEF AllServe, Serves, Router!OperationalRoutes, Router!DataRoutes, Router!Methods,
           Router!On, Router!ForBrowsers, Router!Named, Router!Route
  <2>3. AllServe(<<"/api/info", "GET", {"info"}>>)
    BY ZenonT(60) DEF AllServe, Serves, Router!OperationalRoutes, Router!DataRoutes, Router!Methods,
           Router!On, Router!ForBrowsers, Router!Named, Router!Route
  <2> QED
    BY <2>1, <2>2, <2>3, SMTT(30) DEF Router!DocumentedEcho
<1>2. \A operation \in Router!DocumentedCache : AllServe(operation)
  <2>1. AllServe(<<"/cache/{key}", "GET", {"cacheRead"}>>)
    BY ZenonT(60) DEF AllServe, Serves, Router!OperationalRoutes, Router!DataRoutes, Router!Methods,
           Router!On, Router!ForBrowsers, Router!Named, Router!Route
  <2>2. AllServe(<<"/cache/{key}", "POST", {"cacheWrite"}>>)
    BY ZenonT(60) DEF AllServe, Serves, Router!OperationalRoutes, Router!DataRoutes, Router!Methods,
           Router!On, Router!ForBrowsers, Router!Named, Router!Route
  <2>3. AllServe(<<"/cache/{key}", "DELETE", {"cacheDelete"}>>)
    BY ZenonT(60) DEF AllServe, Serves, Router!OperationalRoutes, Router!DataRoutes, Router!Methods,
           Router!On, Router!ForBrowsers, Router!Named, Router!Route
  <2>4. AllServe(<<"/chunked/{wait}", "GET", {"chunked"}>>)
    BY ZenonT(60) DEF AllServe, Serves, Router!OperationalRoutes, Router!DataRoutes, Router!Methods,
           Router!On, Router!ForBrowsers, Router!Named, Router!Route
  <2>5. AllServe(<<"/delay/{wait}", "GET", {"delay"}>>)
    BY ZenonT(60) DEF AllServe, Serves, Router!OperationalRoutes, Router!DataRoutes, Router!Methods,
           Router!On, Router!ForBrowsers, Router!Named, Router!Route
  <2> QED
    BY <2>1, <2>2, <2>3, <2>4, <2>5 DEF Router!DocumentedCache
<1>3. \A operation \in Router!DocumentedProbes : AllServe(operation)
  <2>1. AllServe(<<"/env", "GET", {"env"}>>)
    BY ZenonT(60) DEF AllServe, Serves, Router!OperationalRoutes, Router!DataRoutes, Router!Methods,
           Router!On, Router!ForBrowsers, Router!Named, Router!Route
  <2>2. AllServe(<<"/headers", "GET", {"headers"}>>)
    BY ZenonT(60) DEF AllServe, Serves, Router!OperationalRoutes, Router!DataRoutes, Router!Methods,
           Router!On, Router!ForBrowsers, Router!Named, Router!Route
  <2>3. AllServe(<<"/healthz", "GET", {"healthz"}>>)
    BY ZenonT(60) DEF AllServe, Serves, Router!OperationalRoutes, Router!DataRoutes, Router!Methods,
           Router!On, Router!ForBrowsers, Router!Named, Router!Route
  <2>4. AllServe(<<"/metrics", "GET", {"metrics"}>>)
    BY ZenonT(60) DEF AllServe, Serves, Router!OperationalRoutes, Router!DataRoutes, Router!Methods,
           Router!On, Router!ForBrowsers, Router!Named, Router!Route
  <2>5. AllServe(<<"/panic", "GET", {"panic"}>>)
    BY ZenonT(60) DEF AllServe, Serves, Router!OperationalRoutes, Router!DataRoutes, Router!Methods,
           Router!On, Router!ForBrowsers, Router!Named, Router!Route
  <2>6. AllServe(<<"/readyz", "GET", {"readyz"}>>)
    BY ZenonT(60) DEF AllServe, Serves, Router!OperationalRoutes, Router!DataRoutes, Router!Methods,
           Router!On, Router!ForBrowsers, Router!Named, Router!Route
  <2> QED
    BY <2>1, <2>2, <2>3, <2>4, <2>5, <2>6 DEF Router!DocumentedProbes
<1>4. \A operation \in Router!DocumentedFlags : AllServe(operation)
  <2>1. AllServe(<<"/readyz/disable", "POST", {"disableReady"}>>)
    BY ZenonT(60) DEF AllServe, Serves, Router!OperationalRoutes, Router!DataRoutes, Router!Methods,
           Router!On, Router!ForBrowsers, Router!Named, Router!Route
  <2>2. AllServe(<<"/readyz/enable", "POST", {"enableReady"}>>)
    BY ZenonT(60) DEF AllServe, Serves, Router!OperationalRoutes, Router!DataRoutes, Router!Methods,
           Router!On, Router!ForBrowsers, Router!Named, Router!Route
  <2>3. AllServe(<<"/status/{code}", "GET", {"status"}>>)
    BY ZenonT(60) DEF AllServe, Serves, Router!OperationalRoutes, Router!DataRoutes, Router!Methods,
           Router!On, Router!ForBrowsers, Router!Named, Router!Route
  <2>4. AllServe(<<"/store", "POST", {"storeWrite"}>>)
    BY ZenonT(60) DEF AllServe, Serves, Router!OperationalRoutes, Router!DataRoutes, Router!Methods,
           Router!On, Router!ForBrowsers, Router!Named, Router!Route
  <2>5. AllServe(<<"/store/{hash}", "GET", {"storeRead"}>>)
    BY ZenonT(60) DEF AllServe, Serves, Router!OperationalRoutes, Router!DataRoutes, Router!Methods,
           Router!On, Router!ForBrowsers, Router!Named, Router!Route
  <2> QED
    BY <2>1, <2>2, <2>3, <2>4, <2>5 DEF Router!DocumentedFlags
<1>5. \A operation \in Router!DocumentedTokens : AllServe(operation)
  <2>1. AllServe(<<"/token", "POST", {"tokenGenerate"}>>)
    BY ZenonT(60) DEF AllServe, Serves, Router!OperationalRoutes, Router!DataRoutes, Router!Methods,
           Router!On, Router!ForBrowsers, Router!Named, Router!Route
  <2>2. AllServe(<<"/token/validate", "POST", {"tokenValidate"}>>)
    BY ZenonT(60) DEF AllServe, Serves, Router!OperationalRoutes, Router!DataRoutes, Router!Methods,
           Router!On, Router!ForBrowsers, Router!Named, Router!Route
  <2>3. AllServe(<<"/version", "GET", {"version"}>>)
    BY ZenonT(60) DEF AllServe, Serves, Router!OperationalRoutes, Router!DataRoutes, Router!Methods,
           Router!On, Router!ForBrowsers, Router!Named, Router!Route
  <2>4. AllServe(<<"/ws/echo", "POST", {"echoWs"}>>)
    BY DEF AllServe, Serves, Router!OperationalRoutes, Router!DataRoutes, Router!Methods,
           Router!On, Router!ForBrowsers, Router!Named, Router!Route
  <2> QED
    BY <2>1, <2>2, <2>3, <2>4 DEF Router!DocumentedTokens
<1>6. ASSUME NEW operation \in Router!Documented
      PROVE  \A i \in 1..16 : /\ Serves(Router!registerHandlers[i], operation)
                              /\ Serves(Router!registerHandlers[i + 16], operation)
  <2>1. AllServe(operation)
    BY <1>1, <1>2, <1>3, <1>4, <1>5 DEF Router!Documented
  <2> QED
    BY <2>1, TableRows DEF AllServe
<1> QED
  BY <1>6, TableRows

\* Some row of the table offers the operation.
Offered(operation) == \E i \in Router!Routed : Offers(Router!registerHandlers[i], operation)

\* A row of either half is a row of the table.
LEMMA OfferedByHalf ==
  ASSUME NEW operation, NEW i \in 1..16,
         Offers(Router!OperationalRoutes[i], operation) \/ Offers(Router!DataRoutes[i], operation)
  PROVE  Offered(operation)
<1>1. i \in Router!Routed /\ i + 16 \in Router!Routed
  BY TableRows
<1>2. Offers(Router!registerHandlers[i], operation) \/ Offers(Router!registerHandlers[i + 16], operation)
  BY TableRows
<1> QED
  BY <1>1, <1>2 DEF Offered

\* Every documented operation but one is taken by a row that takes it from any client.
LEMMA RowsOffer == \A operation \in Router!Documented \ {Excepted} : Offered(operation)
<1>0. /\ 1 \in 1..16 /\ 2 \in 1..16 /\ 3 \in 1..16 /\ 4 \in 1..16 /\ 5 \in 1..16 /\ 7 \in 1..16 /\ 8 \in 1..16 /\ 9 \in 1..16
      /\ 10 \in 1..16 /\ 11 \in 1..16 /\ 12 \in 1..16 /\ 13 \in 1..16 /\ 14 \in 1..16 /\ 15 \in 1..16 /\ 16 \in 1..16
  OBVIOUS
<1>1. \A operation \in Router!DocumentedEcho \ {Excepted} : Offered(operation)
  <2>1.
        /\ Offers(Router!OperationalRoutes[4], <<"/", "GET", {"index", "info"}>>)
        /\ Offers(Router!DataRoutes[10], <<"/api/echo", "POST", {"echo"}>>)
        /\ Offers(Router!DataRoutes[9], <<"/api/info", "GET", {"info"}>>)
    BY DEF Offers, Router!OperationalRoutes, Router!DataRoutes, Router!Methods,
           Router!On, Router!Named, Router!Route
  <2>2.
        /\ Offered(<<"/", "GET", {"index", "info"}>>)
        /\ Offered(<<"/api/echo", "POST", {"echo"}>>)
        /\ Offered(<<"/api/info", "GET", {"info"}>>)
    BY <1>0, <2>1, OfferedByHalf, Zenon
  <2> QED
    BY <2>2 DEF Router!DocumentedEcho, Excepted
<1>2. \A operation \in Router!DocumentedCache \ {Excepted} : Offered(operation)
  <2>1.
        /\ Offers(Router!DataRoutes[5], <<"/cache/{key}", "GET", {"cacheRead"}>>)
        /\ Offers(Router!DataRoutes[3], <<"/cache/{key}", "POST", {"cacheWrite"}>>)
        /\ Offers(Router!DataRoutes[4], <<"/cache/{key}", "DELETE", {"cacheDelete"}>>)
        /\ Offers(Router!DataRoutes[14], <<"/chunked/{wait}", "GET", {"chunked"}>>)
        /\ Offers(Router!OperationalRoutes[10], <<"/delay/{wait}", "GET", {"delay"}>>)
    BY DEF Offers, Router!OperationalRoutes, Router!DataRoutes, Router!Methods,
           Router!On, Router!Named, Router!Route
  <2>2.
        /\ Offered(<<"/cache/{key}", "GET", {"cacheRead"}>>)
        /\ Offered(<<"/cache/{key}", "POST", {"cacheWrite"}>>)
        /\ Offered(<<"/cache/{key}", "DELETE", {"cacheDelete"}>>)
        /\ Offered(<<"/chunked/{wait}", "GET", {"chunked"}>>)
        /\ Offered(<<"/delay/{wait}", "GET", {"delay"}>>)
    BY <1>0, <2>1, OfferedByHalf, Zenon
  <2> QED
    BY <2>2 DEF Router!DocumentedCache, Excepted
<1>3. \A operation \in Router!DocumentedProbes \ {Excepted} : Offered(operation)
  <2>1.
        /\ Offers(Router!OperationalRoutes[8], <<"/env", "GET", {"env"}>>)
        /\ Offers(Router!OperationalRoutes[9], <<"/headers", "GET", {"headers"}>>)
        /\ Offers(Router!OperationalRoutes[11], <<"/healthz", "GET", {"healthz"}>>)
        /\ Offers(Router!OperationalRoutes[1], <<"/metrics", "GET", {"metrics"}>>)
        /\ Offers(Router!OperationalRoutes[15], <<"/panic", "GET", {"panic"}>>)
        /\ Offers(Router!OperationalRoutes[12], <<"/readyz", "GET", {"readyz"}>>)
    BY DEF Offers, Router!OperationalRoutes, Router!DataRoutes, Router!Methods,
           Router!On, Router!Named, Router!Route
  <2>2.
        /\ Offered(<<"/env", "GET", {"env"}>>)
        /\ Offered(<<"/headers", "GET", {"headers"}>>)
        /\ Offered(<<"/healthz", "GET", {"healthz"}>>)
        /\ Offered(<<"/metrics", "GET", {"metrics"}>>)
        /\ Offered(<<"/panic", "GET", {"panic"}>>)
        /\ Offered(<<"/readyz", "GET", {"readyz"}>>)
    BY <1>0, <2>1, OfferedByHalf, Zenon
  <2> QED
    BY <2>2 DEF Router!DocumentedProbes, Excepted
<1>4. \A operation \in Router!DocumentedFlags \ {Excepted} : Offered(operation)
  <2>1.
        /\ Offers(Router!OperationalRoutes[14], <<"/readyz/disable", "POST", {"disableReady"}>>)
        /\ Offers(Router!OperationalRoutes[13], <<"/readyz/enable", "POST", {"enableReady"}>>)
        /\ Offers(Router!OperationalRoutes[16], <<"/status/{code}", "GET", {"status"}>>)
        /\ Offers(Router!DataRoutes[1], <<"/store", "POST", {"storeWrite"}>>)
        /\ Offers(Router!DataRoutes[2], <<"/store/{hash}", "GET", {"storeRead"}>>)
    BY DEF Offers, Router!OperationalRoutes, Router!DataRoutes, Router!Methods,
           Router!On, Router!Named, Router!Route
  <2>2.
        /\ Offered(<<"/readyz/disable", "POST", {"disableReady"}>>)
        /\ Offered(<<"/readyz/enable", "POST", {"enableReady"}>>)
        /\ Offered(<<"/status/{code}", "GET", {"status"}>>)
        /\ Offered(<<"/store", "POST", {"storeWrite"}>>)
        /\ Offered(<<"/store/{hash}", "GET", {"storeRead"}>>)
    BY <1>0, <2>1, OfferedByHalf, Zenon
  <2> QED
    BY <2>2 DEF Router!DocumentedFlags, Excepted
<1>5. \A operation \in Router!DocumentedTokens \ {Excepted} : Offered(operation)
  <2>1.
        /\ Offers(Router!DataRoutes[7], <<"/token", "POST", {"tokenGenerate"}>>)
        /\ Offers(Router!OperationalRoutes[5], <<"/version", "GET", {"version"}>>)
        /\ Offers(Router!DataRoutes[12], <<"/ws/echo", "POST", {"echoWs"}>>)
    BY DEF Offers, Router!OperationalRoutes, Router!DataRoutes, Router!Methods,
           Router!On, Router!Named, Router!Route
  <2>2.
        /\ Offered(<<"/token", "POST", {"tokenGenerate"}>>)
        /\ Offered(<<"/version", "GET", {"version"}>>)
        /\ Offered(<<"/ws/echo", "POST", {"echoWs"}>>)
    BY <1>0, <2>1, OfferedByHalf, Zenon
  <2> QED
    BY <2>2 DEF Router!DocumentedTokens, Excepted
<1> QED
  BY <1>1, <1>2, <1>3, <1>4, <1>5 DEF Router!Documented

\* The types of the router, which are inductive.
LEMMA RouterTypes ==
  /\ Router!Init => Router!TypeOK
  /\ Router!TypeOK /\ [Router!Next]_(Router!vars) => Router!TypeOK'
<1> DEFINE n == Len(Router!registerHandlers)
<1>n. n \in Nat
  BY TableRows
<1>1. ASSUME Router!Init PROVE Router!TypeOK
  <2>1. 1 \in 1..(n + 1)
    BY <1>n
  <2> QED
    BY <1>1, <2>1, Zenon DEF Router!Init, Router!TypeOK
<1>2. ASSUME Router!TypeOK, [Router!Next]_(Router!vars) PROVE Router!TypeOK'
  <2>0. /\ request \in Router!Arrivals /\ at \in 1..(n + 1) /\ mismatch \in BOOLEAN
        /\ outcome \in Router!Handlers \cup {Router!NotFound, Router!NotAllowed, "open"}
    BY <1>2 DEF Router!TypeOK
  <2>1. CASE Router!TakeRoute
    <3>1. outcome' \in Router!Handlers /\ UNCHANGED <<request, at, mismatch>>
      BY <2>1 DEF Router!TakeRoute, Router!Handlers
    <3> QED
      BY <2>0, <3>1 DEF Router!TypeOK
  <2>2. CASE Router!SkipRoute
    <3>1. at' = at + 1 /\ at \in 1..n /\ UNCHANGED <<request, outcome>>
      BY <2>2 DEF Router!SkipRoute, Router!Routed
    <3>2. mismatch' \in BOOLEAN
      BY <2>2 DEF Router!SkipRoute
    <3>3. at' \in 1..(n + 1)
      BY <1>n, <3>1
    <3> QED
      BY <2>0, <3>1, <3>2, <3>3 DEF Router!TypeOK
  <2>3. CASE Router!NoRoute
    <3>1. outcome' \in {Router!NotFound, Router!NotAllowed} /\ UNCHANGED <<request, at, mismatch>>
      BY <2>3 DEF Router!NoRoute
    <3> QED
      BY <2>0, <3>1 DEF Router!TypeOK
  <2>4. CASE UNCHANGED Router!vars
    BY <2>0, <2>4 DEF Router!vars, Router!TypeOK
  <2> QED
    BY <1>2, <2>1, <2>2, <2>3, <2>4 DEF Router!Next
<1> QED
  BY <1>1, <1>2

-----------------------------------------------------------------------------
(* Dispatching: the rows before at do not take the request, and the row    *)
(* that took it has named the handler and the label.                       *)
Takes(row, arrival) == /\ row.path = arrival.path /\ (row.agent = "Mozilla" => arrival.browser)
                       /\ arrival.method \in row.methods
Skipped  == \A i \in Router!Routed : i < at => ~Takes(Router!registerHandlers[i], request)
Taken    == outcome \in Router!Handlers =>
              /\ at \in Router!Routed /\ Takes(Router!registerHandlers[at], request)
              /\ outcome = Router!registerHandlers[at].handler
              /\ label = Router!getRouteName(Router!registerHandlers[at], request)
Refused  == outcome \in {Router!NotFound, Router!NotAllowed} => at \notin Router!Routed
Measured == outcome \notin Router!Handlers => label = ""
DispatchInv == Router!TypeOK /\ Skipped /\ Taken /\ Refused /\ Measured

\* No handler is called like an error or like the absence of an answer.
LEMMA HandlersAreNoErrors == /\ \A h \in Router!Handlers : h \notin {Router!NotFound, Router!NotAllowed, "open"}
                             /\ \A i \in Router!Routed : Router!registerHandlers[i].handler \in Router!Handlers
  BY RowsLabelled DEF Labelled, Router!Handlers

\* The dispatch of a request keeps its invariant.
LEMMA DispatchStep ==
  /\ Router!Init => DispatchInv
  /\ DispatchInv /\ [Router!Next]_(Router!vars) => DispatchInv'
<1>1. ASSUME Router!Init PROVE DispatchInv
  <2>1. outcome = "open" /\ at = 1 /\ label = ""
    BY <1>1 DEF Router!Init
  <2>2. Skipped
    <3>1. \A i \in Router!Routed : ~(i < 1)
      BY TableRows
    <3> QED
      BY <2>1, <3>1 DEF Skipped
  <2>3. Taken /\ Refused /\ Measured
    BY <2>1, HandlersAreNoErrors DEF Taken, Refused, Measured, Router!NotFound, Router!NotAllowed
  <2> QED
    BY <1>1, <2>2, <2>3, RouterTypes DEF DispatchInv
<1>2. ASSUME DispatchInv, [Router!Next]_(Router!vars) PROVE DispatchInv'
  <2>1. Router!TypeOK'
    BY <1>2, RouterTypes DEF DispatchInv
  <2>2. CASE Router!TakeRoute
    <3>1. /\ at \in Router!Routed /\ UNCHANGED <<request, at>>
          /\ Takes(Router!registerHandlers[at], request)
          /\ outcome' = Router!registerHandlers[at].handler
          /\ label' = Router!getRouteName(Router!registerHandlers[at], request)
      BY <2>2 DEF Router!TakeRoute, Router!Fits, Takes
    <3>2. outcome' \in Router!Handlers
      BY <3>1, HandlersAreNoErrors
    <3> QED
      BY <1>2, <2>1, <3>1, <3>2, HandlersAreNoErrors DEF DispatchInv, Skipped, Taken, Refused, Measured
  <2>3. CASE Router!SkipRoute
    <3>1. /\ at \in Router!Routed /\ at' = at + 1 /\ UNCHANGED <<request, outcome, label>> /\ outcome = "open"
          /\ ~Takes(Router!registerHandlers[at], request)
      BY <2>3 DEF Router!SkipRoute, Router!Fits, Takes
    <3>2. Skipped'
      BY <1>2, <3>1, TableRows DEF DispatchInv, Skipped
    <3> QED
      BY <1>2, <2>1, <3>1, <3>2, HandlersAreNoErrors
         DEF DispatchInv, Taken, Refused, Measured, Router!NotFound, Router!NotAllowed
  <2>4. CASE Router!NoRoute
    <3>1. /\ at \notin Router!Routed /\ UNCHANGED <<request, at, label>> /\ outcome = "open"
          /\ outcome' \in {Router!NotFound, Router!NotAllowed}
      BY <2>4 DEF Router!NoRoute
    <3> QED
      BY <1>2, <2>1, <3>1, HandlersAreNoErrors DEF DispatchInv, Skipped, Taken, Refused, Measured
  <2>5. CASE UNCHANGED Router!vars
    BY <1>2, <2>1, <2>5 DEF Router!vars, DispatchInv, Skipped, Taken, Refused, Measured
  <2> QED
    BY <1>2, <2>2, <2>3, <2>4, <2>5 DEF Router!Next
<1> QED
  BY <1>1, <1>2

\* A request with an answer has been tried on every row up to it, so that what the
\* rows say of documented operations and labels holds of the answers.
LEMMA DispatchImplies ==
  ASSUME DispatchInv
  PROVE  Router!LabelsAreBounded /\ Router!DocumentedOperationsReachTheirHandler
<1> USE DEF DispatchInv
<1>1. outcome \in Router!Handlers \cup {Router!NotFound, Router!NotAllowed, "open"}
  BY DEF Router!TypeOK
<1>2. ASSUME outcome \in Router!Handlers PROVE label \in Router!Labels /\ label # ""
  <2> DEFINE row == Router!registerHandlers[at]
  <2>1. at \in Router!Routed /\ label = Router!getRouteName(row, request) /\ Labelled(row)
    BY <1>2, RowsLabelled DEF Taken
  <2>2. Router!urlToLabel(row.label) \in Router!Labels /\ {"delay", "status", "cache"} \subseteq Router!Labels
    BY <2>1 DEF Router!Labels
  <2>3. "store" \in Router!Labels
    <3>1. Router!DataRoutes[1].label = "/store"
      BY DEF Router!DataRoutes, Router!On, Router!Route
    <3>2. Router!registerHandlers[17].label = "/store" /\ 17 \in Router!Routed
      BY <3>1, 1 \in 1..16, 1 + 16 = 17, TableRows
    <3>3. Router!urlToLabel("/store") = "store"
      BY DEF Router!urlToLabel
    <3> QED
      BY <3>2, <3>3 DEF Router!Labels
  <2> HIDE DEF row
  <2> QED
    BY <2>1, <2>2, <2>3 DEF Labelled, Router!getRouteName
<1>3. Router!LabelsAreBounded
  BY <1>1, <1>2 DEF Router!LabelsAreBounded, Measured
<1>4. ASSUME request.path = "/", outcome \in {"index", "info"} PROVE (outcome = "index") <=> request.browser
  <2>1. outcome \in Router!Handlers
    BY <1>1, <1>4 DEF Router!NotFound, Router!NotAllowed
  <2>2. /\ at \in Router!Routed /\ Takes(Router!registerHandlers[at], request)
        /\ outcome = Router!registerHandlers[at].handler
    BY <2>1 DEF Taken
  <2>3. CASE outcome = "index"
    BY <2>2, <2>3, RowsPaged DEF Takes, Paged
  <2>4. CASE outcome = "info"
    <3>1. at = 4
      BY <1>4, <2>2, <2>4, RowsPaged DEF Takes, Paged
    <3>0. /\ Router!registerHandlers[3].path = "/" /\ Router!registerHandlers[3].methods = {"GET"}
          /\ Router!registerHandlers[4].methods = {"GET"}
      BY RowsPaged
    <3>2. request.method = "GET"
      BY <2>2, <3>1, <3>0 DEF Takes
    <3>3. ~Takes(Router!registerHandlers[3], request)
      BY <3>1, TableRows DEF Skipped
    <3>4. ~request.browser
      BY <1>4, <3>2, <3>3, <3>0 DEF Takes
    <3> QED
      BY <2>4, <3>4
  <2> QED
    BY <1>4, <2>3, <2>4
<1>5. ASSUME NEW operation \in Router!Documented \ {Excepted},
             outcome # "open", request.path = operation[1], request.method = operation[2]
      PROVE  outcome \in operation[3]
  <2>1. outcome \in Router!Handlers
    <3> SUFFICES ASSUME outcome \notin Router!Handlers PROVE FALSE
      OBVIOUS
    <3>1. at \notin Router!Routed /\ at \in 1..33
      BY <1>1, <1>5, TableRows DEF Refused, Router!TypeOK
    <3>2. PICK i \in Router!Routed : Offers(Router!registerHandlers[i], operation)
      BY <1>5, RowsOffer DEF Offered
    <3>3. i < at
      BY <3>1, TableRows
    <3> QED
      BY <1>5, <3>2, <3>3 DEF Skipped, Offers, Takes
  <2>2. at \in Router!Routed /\ Takes(Router!registerHandlers[at], request) /\ outcome = Router!registerHandlers[at].handler
    BY <2>1 DEF Taken
  <2>3. Serves(Router!registerHandlers[at], operation)
    BY <2>2, RowsServe
  <2> QED
    BY <1>5, <2>2, <2>3 DEF Serves, Takes
<1>6. Router!DocumentedOperationsReachTheirHandler
  BY <1>4, <1>5 DEF Router!DocumentedOperationsReachTheirHandler, Router!Reaches, Excepted
<1> QED
  BY <1>3, <1>6

-----------------------------------------------------------------------------
(***************************************************************************)
(* The composition.  No part disturbs another one.                         *)
(***************************************************************************)
\* A step of the server is a step of each part or leaves it alone.
LEMMA StepsOfParts ==
  [MCNext]_allVars => /\ [Next]_vars /\ [Router!Next]_(Router!vars)
                      /\ [Files!StoreNext]_(Files!storeVars)
                      /\ [Cache!CacheNext]_(Cache!redisVars)
                      /\ [Jwt!TokenNext]_(Jwt!tokenVars)
<1> SUFFICES ASSUME [MCNext]_allVars
             PROVE  /\ Next \/ UNCHANGED vars
                    /\ Router!Next \/ UNCHANGED Router!vars
                    /\ Files!StoreNext \/ UNCHANGED Files!storeVars
                    /\ Cache!CacheNext \/ UNCHANGED Cache!redisVars
                    /\ Jwt!TokenNext \/ UNCHANGED Jwt!tokenVars
  OBVIOUS
<1>1. /\ UNCHANGED routerVars => UNCHANGED Router!vars
      /\ UNCHANGED fileVars => UNCHANGED Files!storeVars
      /\ UNCHANGED cacheVars => UNCHANGED Cache!redisVars
      /\ UNCHANGED jwtVars => UNCHANGED Jwt!tokenVars
  BY DEF routerVars, fileVars, cacheVars, jwtVars, Router!vars, Files!storeVars,
         Cache!redisVars, Cache!server, Cache!keys, Jwt!tokenVars
<1>2. CASE MCNext
  BY <1>1, <1>2, Zenon DEF MCNext
<1>3. CASE UNCHANGED allVars
  BY <1>1, <1>3 DEF allVars
<1> QED
  BY <1>2, <1>3

\* Every part starts in a state of its own.
LEMMA StartsOfParts == MCInit => Init /\ Router!Init /\ Files!Init /\ Cache!Init /\ Jwt!Init
  BY DEF MCInit

(* A download that succeeds is the whole content, unless an upload of it   *)
(* was at work meanwhile or one had failed before, and it finds the file   *)
(* once an upload succeeded: for any number of uploads, downloads and      *)
(* blocks, with the process killed and restarted at any point.             *)
THEOREM DownloadsStayWhole == MCSpec => []DownloadsAreWhole
<1>1. MCInit => StoreInv
  BY StartsOfParts, StoreInitially
<1>2. StoreInv /\ [MCNext]_allVars => StoreInv'
  BY StepsOfParts, StoreStep
<1>3. StoreInv => DownloadsAreWhole
  BY DEF StoreInv, DownloadsAreWhole
<1> QED
  BY <1>1, <1>2, <1>3, PTL DEF MCSpec

\* The inductive invariant of the cache holds in every state of the server.
LEMMA CacheAlways == MCSpec => []CacheFacts!CacheInv
<1>1. MCInit => CacheFacts!CacheInv
  BY StartsOfParts, SameCache, CacheFacts!CacheInitially
<1>2. CacheFacts!CacheInv /\ [MCNext]_allVars => CacheFacts!CacheInv'
  BY StepsOfParts, SameCache, CacheFacts!CacheStep
<1> QED
  BY <1>1, <1>2, PTL DEF MCSpec

(* The handlers of /cache are an atomic service of one key, be it the one  *)
(* the version is kept under or not: every request takes effect at one     *)
(* instant and is told what it did then, or it fails for an outage during  *)
(* it.  Connections that died in the pool, evictions, any number of other  *)
(* requests and the two commands of a read do not show.                    *)
THEOREM CacheAnswersAtomic == MCSpec => ServesAtomically
<1>1. MCInit => CacheFacts!ServiceInv /\ Cache!Promise!Init
  BY StartsOfParts, SameCache, SamePromise, CacheFacts!ServiceInitially
<1>2. CacheFacts!ServiceInv /\ [MCNext]_allVars
      => CacheFacts!ServiceInv' /\ [Cache!Promise!Next]_(Cache!Promise!kvars)
  BY StepsOfParts, SameCache, SamePromise, CacheFacts!ServiceKept, CacheFacts!ServiceStep
<1> QED
  BY <1>1, <1>2, PTL DEF MCSpec, ServesAtomically, Cache!ServesAtomically, Cache!Promise!Spec

(* Connections are idle in the pool or in the hands of one client; a burst *)
(* of any size leaves at most MaxIdle of them.                             *)
THEOREM CacheConnectionsAccountedFor == MCSpec => []ConnectionsAccountedFor
<1>1. CacheFacts!CacheInv => ConnectionsAccountedFor
  BY CacheImplies DEF ConnectionsAccountedFor
<1> QED
  BY <1>1, CacheAlways, PTL

(* The version outlasts a renewal that hangs or fails while Redis keeps    *)
(* it, until the next one is due, whatever else the pool is used for: it   *)
(* goes before only if Redis loses it or a client changes it.              *)
THEOREM CacheVersionKeyStays == MCSpec => []VersionKeyStays
<1>1. CacheFacts!CacheInv => VersionKeyStays
  BY CacheImplies DEF VersionKeyStays
<1> QED
  BY <1>1, CacheAlways, PTL

(* What is proved of replies holds of the server that TLC explores.        *)
LEMMA RepliesAlways == MCSpec => []ReplyInv
<1>1. MCInit => ReplyInv
  BY StartsOfParts, ReplyInitially
<1>2. ReplyInv /\ [MCNext]_allVars => ReplyInv'
  BY StepsOfParts, ReplyStep
<1> QED
  BY <1>1, <1>2, PTL DEF MCSpec

(* The state of every part stays within its types, with as many counted    *)
(* requests as there are, at most MaxIdle connections at rest, and no      *)
(* block beyond the end of the file.                                       *)
THEOREM HttpTyped == MCSpec => []HttpTypes
<1> DEFINE Parts == {"router", "reply", "files", "jwt"} \cup CacheParts
<1>1. MCInit => StoreInv /\ Jwt!TypeOK /\ Router!TypeOK
  BY StartsOfParts, StoreInitially, TokenTypes, RouterTypes
<1>2. StoreInv /\ [MCNext]_allVars => StoreInv'
  BY StepsOfParts, StoreStep
<1>3. Jwt!TypeOK /\ [MCNext]_allVars => Jwt!TypeOK'
  BY StepsOfParts, TokenTypes
<1>4. Router!TypeOK /\ [MCNext]_allVars => Router!TypeOK'
  BY StepsOfParts, RouterTypes
<1>5. MCInit => part \in Parts
  BY DEF MCInit
<1>6. part \in Parts /\ [MCNext]_allVars => (part \in Parts)'
  BY DEF MCNext, allVars
<1>7. /\ ReplyInv /\ CacheFacts!CacheInv /\ StoreInv /\ Jwt!TypeOK /\ Router!TypeOK
      /\ part \in Parts
      => HttpTypes
  BY ReplyImplies, CacheImplies DEF HttpTypes, StoreInv, CacheParts
<1> QED
  BY <1>1, <1>2, <1>3, <1>4, <1>5, <1>6, <1>7, RepliesAlways, CacheAlways, PTL DEF MCSpec

(* The invariant of the dispatch holds in every state of the server.       *)
LEMMA DispatchAlways == MCSpec => []DispatchInv
<1>1. MCInit => DispatchInv
  BY StartsOfParts, DispatchStep
<1>2. DispatchInv /\ [MCNext]_allVars => DispatchInv'
  BY StepsOfParts, DispatchStep
<1> QED
  BY <1>1, <1>2, PTL DEF MCSpec

(* A documented operation reaches the handler that documents it, though    *)
(* the first matching row wins and several rows share a path: for every    *)
(* row and whatever the client wrote.                                      *)
THEOREM DocumentedOperationsReached == MCSpec => []DocumentedOperationsReachTheirHandler
<1>1. DispatchInv => DocumentedOperationsReachTheirHandler
  BY DispatchImplies DEF DocumentedOperationsReachTheirHandler
<1> QED
  BY <1>1, DispatchAlways, PTL

(* The label of a measured request is one of the table's own, for any set  *)
(* of request URIs.                                                        *)
THEOREM RouteLabelsBounded == MCSpec => []LabelsAreBounded
<1>1. DispatchInv => LabelsAreBounded
  BY DispatchImplies DEF LabelsAreBounded
<1> QED
  BY <1>1, DispatchAlways, PTL

(* A token of ours is accepted by either server for 59 seconds and never   *)
(* for more than 60, whenever it was issued.                               *)
THEOREM TokensAlwaysLastAMinute == MCSpec => TokensLastAMinute
<1>1. MCInit => TokenInv
  BY StartsOfParts, TokenInitially
<1>2. TokenInv /\ [MCNext]_allVars => TokenInv' /\ [Jwt!Answers]_(Jwt!tokenVars)
  BY StepsOfParts, TokenStep, TokenAnswers
<1> QED
  BY <1>1, <1>2, PTL DEF MCSpec, TokensLastAMinute, Jwt!TokensLastAMinute
=============================================================================
