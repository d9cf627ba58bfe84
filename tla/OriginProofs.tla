---------------------------- MODULE OriginProofs ----------------------------
(***************************************************************************)
(* Theorems about the origin, for any channels, renditions, sequence       *)
(* numbers, extensions, bodies, hash and window, and any number of         *)
(* restarts and failing file operations.                                   *)
(***************************************************************************)
EXTENDS Origin, ManifestProofs

-----------------------------------------------------------------------------
(* How the steps of a PUT change the renditions *)

LEMMA NewRenditionType == IsRendition(NewRendition)
BY DEF IsRendition, NewRendition, NoMetadata, Metadata, SegmentRecord

LEMMA MergeType ==
    ASSUME NEW a \in Metadata, NEW b \in Metadata
    PROVE  Merge(a, b) \in Metadata
BY DEF Merge, Fill, Metadata

\* Admitting a PUT creates its rendition and may fill its metadata in; segments
\* and commits stay.
LEMMA TouchedRenditions ==
    ASSUME TypeOK, NEW r \in Streams, NEW metadata \in Metadata
    PROVE  /\ DOMAIN Touched(r, metadata) = DOMAIN streams \cup {r}
           /\ \A q \in DOMAIN Touched(r, metadata) :
                 /\ IsRendition(Touched(r, metadata)[q])
                 /\ Touched(r, metadata)[q].segments = Stream(q).segments
                 /\ Touched(r, metadata)[q].commits = Stream(q).commits
<1>1. DOMAIN Touched(r, metadata) = DOMAIN streams \cup {r}
    BY DEF Touched
<1>2. \A q : IsRendition(Stream(q))
    BY NewRenditionType DEF Stream, TypeOK
<1>3. ASSUME NEW q \in DOMAIN Touched(r, metadata), q # r
      PROVE  Touched(r, metadata)[q] = Stream(q)
    BY <1>1, <1>3 DEF Touched, Stream
<1>4. /\ IsRendition(Touched(r, metadata)[r])
      /\ Touched(r, metadata)[r].segments = Stream(r).segments
      /\ Touched(r, metadata)[r].commits = Stream(r).commits
  <2> DEFINE new == [Stream(r) EXCEPT !.metadata =
                        Merge(Stream(r).metadata, metadata)]
  <2>1. Touched(r, metadata)[r] = new
      BY DEF Touched
  <2>2. Merge(Stream(r).metadata, metadata) \in Metadata
      BY <1>2, MergeType DEF IsRendition
  <2>3. new = [metadata |-> Merge(Stream(r).metadata, metadata),
               segments |-> Stream(r).segments,
               commits |-> Stream(r).commits]
      BY <1>2 DEF IsRendition
  <2> QED BY <1>2, <2>1, <2>2, <2>3 DEF IsRendition
<1> QED BY <1>1, <1>2, <1>3, <1>4

LEMMA CommittedRendition ==
    ASSUME NEW state, IsRendition(state), NEW s \in Sequences,
           NEW record \in SegmentRecord
    PROVE  /\ IsRendition(Committed(state, s, record))
           /\ Committed(state, s, record).metadata = state.metadata
           /\ Committed(state, s, record).commits = Append(state.commits, s)
           /\ DOMAIN Committed(state, s, record).segments
                 = DOMAIN state.segments \cup {s}
           /\ \A q \in DOMAIN state.segments \cup {s} :
                 Committed(state, s, record).segments[q]
                    = IF q = s THEN record ELSE state.segments[q]
<1> DEFINE segments == [q \in DOMAIN state.segments \cup {s} |->
                            IF q = s THEN record ELSE state.segments[q]]
<1>1. Committed(state, s, record) =
          [metadata |-> state.metadata, segments |-> segments,
           commits |-> Append(state.commits, s)]
  <2> DEFINE fields == [metadata |-> state.metadata,
                        segments |-> state.segments,
                        commits |-> state.commits]
  <2>1. state = fields
      BY DEF IsRendition
  <2>2. Committed(state, s, record) =
            [fields EXCEPT !.segments = segments,
                           !.commits = Append(state.commits, s)]
      BY <2>1 DEF Committed
  <2> QED BY <2>2
<1>2. segments \in [DOMAIN state.segments \cup {s} -> SegmentRecord]
    BY DEF IsRendition
<1>3. Append(state.commits, s) \in Seq(Sequences)
    BY DEF IsRendition
<1> QED BY <1>1, <1>2, <1>3 DEF IsRendition

-----------------------------------------------------------------------------
(* Type correctness *)

LEMMA InitTypeOK == Init => TypeOK
BY OriginAssumption DEF Init, TypeOK

LEMMA AdmitTypeOK ==
    ASSUME TypeOK, NEW r \in Streams, NEW metadata \in Metadata,
           Admit(r, metadata)
    PROVE  /\ DOMAIN streams' \subseteq Streams
           /\ \A q \in DOMAIN streams' : IsRendition(streams'[q])
           /\ snapshots' = snapshots
           /\ restarts' = restarts
<1>1. streams' = Touched(r, metadata) /\ UNCHANGED <<snapshots, restarts>>
    BY DEF Admit
<1>2. DOMAIN streams \subseteq Streams
    BY DEF TypeOK
<1> DEFINE touched == Touched(r, metadata)
<1>3. /\ DOMAIN touched = DOMAIN streams \cup {r}
      /\ \A q \in DOMAIN touched : IsRendition(touched[q])
    BY TouchedRenditions
<1>4. streams' = touched
    BY <1>1
<1> HIDE DEF touched
<1>5. \A q \in DOMAIN streams' : IsRendition(streams'[q])
    BY <1>3, <1>4
<1> QED BY <1>1, <1>2, <1>3, <1>4, <1>5

LEMMA WritingType ==
    ASSUME TypeOK, writing # Idle
    PROVE  /\ writing.file \in Files
           /\ writing.file[1] \in Ids
           /\ writing.file[1][1] \in Streams
           /\ writing.file[1][2] \in Sequences
           /\ writing.file[2] \in Exts
           /\ writing.bytes \in Bytes
           /\ writing.file = <<writing.file[1], writing.file[2]>>
BY DEF TypeOK, Files, Ids

LEMMA NextTypeOK == TypeOK /\ [Next]_vars => TypeOK'
<1> SUFFICES ASSUME TypeOK, [Next]_vars
             PROVE  TypeOK'
    OBVIOUS
<1>1. ASSUME NEW r \in Streams, NEW metadata \in Metadata,
             RefuseMetadata(r, metadata)
      PROVE  TypeOK'
    BY <1>1 DEF RefuseMetadata, TypeOK
<1>2. ASSUME NEW id \in Ids, NEW metadata \in Metadata,
             StorageDown(id, metadata)
      PROVE  TypeOK'
  <2>1. id[1] \in Streams /\ Admit(id[1], metadata)
      BY <1>2 DEF StorageDown, Ids
  <2>2. faults' \in 0..MaxFaults
      BY <1>2, OriginAssumption DEF StorageDown, TypeOK
  <2> QED BY <1>2, <2>1, <2>2, AdmitTypeOK DEF StorageDown, TypeOK
<1>3. ASSUME NEW id \in Ids, NEW metadata \in Metadata, NEW ext \in Exts,
             NEW bytes \in Bytes, PutKnown(id, ext, bytes, metadata)
      PROVE  TypeOK'
  <2>1. id[1] \in Streams /\ Admit(id[1], metadata)
      BY <1>3 DEF PutKnown, Ids
  <2>2. accepted' \in [Ids -> SUBSET (Exts \X Bytes \X (0..MaxRestarts))]
      BY <1>3 DEF PutKnown, TypeOK
  <2> QED BY <1>3, <2>1, <2>2, AdmitTypeOK DEF PutKnown, TypeOK
<1>4. ASSUME NEW id \in Ids, NEW metadata \in Metadata, NEW ext \in Exts,
             NEW bytes \in Bytes, BeginWrite(id, ext, bytes, metadata)
      PROVE  TypeOK'
  <2>1. id[1] \in Streams /\ Admit(id[1], metadata)
      BY <1>4 DEF BeginWrite, Ids
  <2>2. <<id, ext>> \in Files
      BY DEF Files
  <2>3. disk' \in [Files -> Bytes \cup {Torn, Missing}]
      BY <1>4, <2>2 DEF BeginWrite, TypeOK
  <2>4. writing' \in [kind : {"writing"}, file : Files, bytes : Bytes]
      BY <1>4, <2>2 DEF BeginWrite
  <2> QED BY <1>4, <2>1, <2>3, <2>4, AdmitTypeOK DEF BeginWrite, TypeOK
<1>5. CASE FillFile
  <2>1. writing.file \in Files /\ writing.bytes \in Bytes
      BY <1>5, WritingType DEF FillFile
  <2>2. disk' \in [Files -> Bytes \cup {Torn, Missing}]
      BY <1>5, <2>1 DEF FillFile, TypeOK
  <2> QED BY <1>5, <2>2 DEF FillFile, TypeOK
<1>6. CASE Commit
  <2> DEFINE id == writing.file[1]
             record == [ext |-> writing.file[2], hash |-> Hash[writing.bytes]]
  <2>1. /\ id \in Ids /\ id[1] \in Streams /\ id[2] \in Sequences
        /\ writing.file[2] \in Exts /\ writing.bytes \in Bytes
      BY <1>6, WritingType DEF Commit
  <2>2. record \in SegmentRecord
      BY <2>1 DEF SegmentRecord, Hashes
  <2>3. streams' = [streams EXCEPT
                       ![id[1]] = Committed(streams[id[1]], id[2], record)]
      BY <1>6 DEF Commit
  <2>4. /\ DOMAIN streams' \subseteq Streams
        /\ \A q \in DOMAIN streams' : IsRendition(streams'[q])
      BY <2>1, <2>2, <2>3, CommittedRendition DEF TypeOK
  <2>5. accepted' \in [Ids -> SUBSET (Exts \X Bytes \X (0..MaxRestarts))]
      BY <1>6, <2>1 DEF Commit, TypeOK
  <2> QED BY <1>6, <2>4, <2>5 DEF Commit, TypeOK
<1>7. CASE FailWrite
  <2>1. faults' \in 0..MaxFaults
      BY <1>7, OriginAssumption DEF FailWrite, TypeOK
  <2> QED BY <1>7, <2>1 DEF FailWrite, TypeOK
<1>8. ASSUME NEW c \in Channels, NEW file \in Renditions \cup {Master},
             GetPlaylist(c, file)
      PROVE  TypeOK'
    BY <1>8 DEF GetPlaylist, TypeOK
<1>9. CASE Restart
    BY <1>9, OriginAssumption DEF Restart, TypeOK
<1>10. ASSUME NEW file \in Pulled, GetSegment(file)
       PROVE  TypeOK'
    BY <1>10 DEF GetSegment, TypeOK
<1>11. CASE UNCHANGED vars
    BY <1>11 DEF vars, TypeOK
<1> QED BY <1>1, <1>2, <1>3, <1>4, <1>5, <1>6, <1>7, <1>8, <1>9, <1>10, <1>11
        DEF Next

\* The maps of the core, the files, the PUT in flight and the histories keep
\* their types, in every state of the origin.
THEOREM TypeCorrect == Spec => []TypeOK
<1>1. Init => TypeOK
    BY InitTypeOK
<1>2. TypeOK /\ [Next]_vars => TypeOK'
    BY NextTypeOK
<1> QED BY <1>1, <1>2, PTL DEF Spec

-----------------------------------------------------------------------------
(* The steps, by what they do to the renditions and the files *)

\* A PUT of rendition r was admitted.
Admits == \E r \in Streams, metadata \in Metadata : Admit(r, metadata)

Begins ==
    \E id \in Ids, metadata \in Metadata, ext \in Exts, bytes \in Bytes :
        BeginWrite(id, ext, bytes, metadata)

LEMMA StepKinds ==
    ASSUME [Next]_vars
    PROVE  \/ streams' = streams /\ disk' = disk
           \/ Admits /\ disk' = disk
           \/ Begins
           \/ FillFile
           \/ Commit
           \/ Restart
<1>1. ASSUME NEW r \in Streams, NEW metadata \in Metadata,
             RefuseMetadata(r, metadata)
      PROVE  streams' = streams /\ disk' = disk
    BY <1>1 DEF RefuseMetadata
<1>2. ASSUME NEW id \in Ids, NEW metadata \in Metadata,
             StorageDown(id, metadata)
      PROVE  Admits /\ disk' = disk
    BY <1>2 DEF StorageDown, Admits, Ids
<1>3. ASSUME NEW id \in Ids, NEW metadata \in Metadata, NEW ext \in Exts,
             NEW bytes \in Bytes, PutKnown(id, ext, bytes, metadata)
      PROVE  Admits /\ disk' = disk
    BY <1>3 DEF PutKnown, Admits, Ids
<1>4. ASSUME FailWrite
      PROVE  streams' = streams /\ disk' = disk
    BY <1>4 DEF FailWrite
<1>5. ASSUME NEW c \in Channels, NEW file, GetPlaylist(c, file)
      PROVE  streams' = streams /\ disk' = disk
    BY <1>5 DEF GetPlaylist
<1>6. ASSUME NEW file \in Pulled, GetSegment(file)
      PROVE  streams' = streams /\ disk' = disk
    BY <1>6 DEF GetSegment
<1>7. ASSUME UNCHANGED vars
      PROVE  streams' = streams /\ disk' = disk
    BY <1>7 DEF vars
<1> QED BY <1>1, <1>2, <1>3, <1>4, <1>5, <1>6, <1>7 DEF Next, Begins

LEMMA BeginsAdmits == Begins => Admits
BY DEF Begins, Admits, BeginWrite, Ids

\* The renditions change when a PUT is admitted or committed, or all at once.
LEMMA StreamSteps ==
    ASSUME [Next]_vars
    PROVE  streams' = streams \/ Admits \/ Commit \/ Restart
<1>1. FillFile => streams' = streams
    BY DEF FillFile
<1> QED BY <1>1, StepKinds, BeginsAdmits

-----------------------------------------------------------------------------
(* The store: what is committed, and what its file holds *)

\* The PUT that holds the mutex has a rendition to commit to, has found its id
\* free, and its file is cut or complete.
WritingFresh ==
    writing # Idle =>
        /\ writing.file[1][1] \in DOMAIN streams
        /\ ~IsCommitted(writing.file[1])
        /\ disk[writing.file] \in {Torn, writing.bytes}

CommittedOnDisk ==
    \A id \in Ids : IsCommitted(id) =>
        /\ disk[<<id, Record(id).ext>>] \in Bytes
        /\ Hash[disk[<<id, Record(id).ext>>]] = Record(id).hash

\* What process number "process" has accepted is committed while it runs.
Recorded(id, ext, bytes, process) ==
    /\ process <= restarts
    /\ process = restarts =>
          /\ IsCommitted(id)
          /\ Record(id) = [ext |-> ext, hash |-> Hash[bytes]]

AcceptedRecorded ==
    \A id \in Ids : \A put \in accepted[id] :
        Recorded(id, put[1], put[2], put[3])

StoreInv ==
    /\ TypeOK
    /\ WritingFresh
    /\ CommittedOnDisk
    /\ AcceptedRecorded

\* Whatever is committed stays committed, under its extension and hash.
KeepsCommits ==
    \A id \in Ids : IsCommitted(id) =>
        IsCommitted(id)' /\ Record(id)' = Record(id)

\* The file of whatever is committed is left alone.
KeepsFiles ==
    \A id \in Ids : IsCommitted(id) =>
        disk'[<<id, Record(id).ext>>] = disk[<<id, Record(id).ext>>]

\* Nothing is committed that was not.
AddsNoCommit == \A id \in Ids : IsCommitted(id)' => IsCommitted(id)

LEMMA SameStreams ==
    ASSUME streams' = streams
    PROVE  KeepsCommits /\ AddsNoCommit
BY DEF KeepsCommits, AddsNoCommit, IsCommitted, Record

LEMMA SameDisk ==
    ASSUME disk' = disk
    PROVE  KeepsFiles
BY DEF KeepsFiles

LEMMA AdmitKeeps ==
    ASSUME TypeOK, NEW r \in Streams, NEW metadata \in Metadata,
           Admit(r, metadata)
    PROVE  /\ KeepsCommits /\ AddsNoCommit
           /\ DOMAIN streams' = DOMAIN streams \cup {r}
           /\ \A q \in DOMAIN streams' :
                 /\ streams'[q].segments = Stream(q).segments
                 /\ streams'[q].commits = Stream(q).commits
<1> DEFINE touched == Touched(r, metadata)
<1>1. streams' = touched
    BY DEF Admit
<1>2. /\ DOMAIN touched = DOMAIN streams \cup {r}
      /\ \A q \in DOMAIN touched :
            /\ touched[q].segments = Stream(q).segments
            /\ touched[q].commits = Stream(q).commits
    BY TouchedRenditions
<1> HIDE DEF touched
<1>3. \A q \in DOMAIN streams : streams'[q].segments = streams[q].segments
    BY <1>1, <1>2 DEF Stream
<1>4. \A q \in DOMAIN streams' \ DOMAIN streams :
          DOMAIN streams'[q].segments = {}
    BY <1>1, <1>2 DEF Stream, NewRendition
<1>5. KeepsCommits
    BY <1>1, <1>2, <1>3 DEF KeepsCommits, IsCommitted, Record
<1>6. AddsNoCommit
    BY <1>3, <1>4 DEF AddsNoCommit, IsCommitted
<1> QED BY <1>1, <1>2, <1>5, <1>6

\* The PUT of these bytes is the one commit of the step.
CommitsExactly(id, ext, bytes) ==
    /\ writing.file = <<id, ext>>
    /\ writing.bytes = bytes
    /\ disk[<<id, ext>>] = bytes
    /\ ~IsCommitted(id)
    /\ IsCommitted(id)' /\ Record(id)' = [ext |-> ext, hash |-> Hash[bytes]]
    /\ \A j \in Ids \ {id} : IsCommitted(j)' => IsCommitted(j)

LEMMA CommitEffect ==
    ASSUME TypeOK, WritingFresh, Commit
    PROVE  KeepsCommits /\ \E id \in Ids, ext \in Exts, bytes \in Bytes :
               CommitsExactly(id, ext, bytes)
<1> PICK id \in Ids, ext \in Exts, bytes \in Bytes :
        writing.file = <<id, ext>> /\ writing.bytes = bytes
    BY WritingType DEF Commit
<1> DEFINE record == [ext |-> ext, hash |-> Hash[bytes]]
           new == Committed(streams[id[1]], id[2], record)
<1>1. id[1] \in Streams /\ id[2] \in Sequences
    BY DEF Ids
<1>2. id[1] \in DOMAIN streams /\ ~IsCommitted(id)
    BY DEF WritingFresh, Commit
<1>3. record \in SegmentRecord /\ IsRendition(streams[id[1]])
    BY <1>1, <1>2 DEF SegmentRecord, Hashes, TypeOK
<1>4. streams' = [streams EXCEPT ![id[1]] = new]
    BY DEF Commit
<1>5. /\ DOMAIN new.segments = DOMAIN streams[id[1]].segments \cup {id[2]}
      /\ \A q \in DOMAIN new.segments :
            new.segments[q] = IF q = id[2] THEN record
                              ELSE streams[id[1]].segments[q]
    BY <1>1, <1>3, CommittedRendition
<1> HIDE DEF new
<1>6. \A j \in Ids : j = <<j[1], j[2]>>
    BY DEF Ids
<1>7. IsCommitted(id)' /\ Record(id)' = record
    BY <1>1, <1>2, <1>4, <1>5 DEF IsCommitted, Record
<1>8. KeepsCommits
  <2> SUFFICES ASSUME NEW j \in Ids, IsCommitted(j)
               PROVE  IsCommitted(j)' /\ Record(j)' = Record(j)
      BY DEF KeepsCommits
  <2>1. CASE j[1] # id[1]
      BY <1>2, <1>4, <2>1 DEF IsCommitted, Record
  <2>2. CASE j[1] = id[1]
    <3>1. j[2] # id[2]
        BY <1>2, <2>2 DEF IsCommitted
    <3> QED BY <1>2, <1>4, <1>5, <2>2, <3>1 DEF IsCommitted, Record
  <2> QED BY <2>1, <2>2
<1>9. ASSUME NEW j \in Ids, j # id, IsCommitted(j)'
      PROVE  IsCommitted(j)
  <2>1. CASE j[1] # id[1]
      BY <1>2, <1>4, <1>9, <2>1 DEF IsCommitted
  <2>2. CASE j[1] = id[1]
    <3>1. j[2] # id[2]
        BY <1>1, <1>6, <1>9, <2>2
    <3> QED BY <1>2, <1>4, <1>5, <1>9, <2>2, <3>1 DEF IsCommitted
  <2> QED BY <2>1, <2>2
<1>10. disk[<<id, ext>>] = bytes
    BY DEF WritingFresh, Commit
<1> QED BY <1>2, <1>7, <1>8, <1>9, <1>10 DEF CommitsExactly

LEMMA InitStoreInv == Init => StoreInv
BY InitTypeOK DEF Init, StoreInv, WritingFresh, CommittedOnDisk,
                  AcceptedRecorded, IsCommitted

\* A file of a committed segment is left alone by every step.
LEMMA StoreInvFrame ==
    ASSUME StoreInv, TypeOK', KeepsCommits, AddsNoCommit,
           KeepsFiles, restarts' = restarts,
           \A id \in Ids : \A put \in accepted'[id] \ accepted[id] :
               Recorded(id, put[1], put[2], put[3]),
           WritingFresh'
    PROVE  StoreInv'
<1>1. CommittedOnDisk'
    BY DEF StoreInv, CommittedOnDisk, KeepsCommits, KeepsFiles, AddsNoCommit
<1>2. AcceptedRecorded'
    BY DEF StoreInv, AcceptedRecorded, Recorded, KeepsCommits
<1> QED BY <1>1, <1>2 DEF StoreInv

\* Writing the file of an id that is not committed touches no committed file.
LEMMA CommittedFileKept ==
    ASSUME TypeOK, NEW id \in Ids, ~IsCommitted(id), NEW ext, NEW content,
           disk' = [disk EXCEPT ![<<id, ext>>] = content]
    PROVE  KeepsFiles
<1> SUFFICES ASSUME NEW j \in Ids, IsCommitted(j)
             PROVE  disk'[<<j, Record(j).ext>>] = disk[<<j, Record(j).ext>>]
    BY DEF KeepsFiles
<1>1. j # id
    OBVIOUS
<1>2. <<j, Record(j).ext>> \in Files
  <2>1. Record(j) \in SegmentRecord
      BY DEF IsCommitted, Record, TypeOK, IsRendition
  <2> QED BY <2>1 DEF Files, SegmentRecord
<1> QED BY <1>1, <1>2 DEF TypeOK

LEMMA BeginWriteKeeps ==
    ASSUME TypeOK, NEW id \in Ids, NEW metadata \in Metadata, NEW ext, NEW bytes,
           BeginWrite(id, ext, bytes, metadata)
    PROVE  KeepsCommits /\ AddsNoCommit /\ KeepsFiles
<1>1. KeepsCommits /\ AddsNoCommit
    BY AdmitKeeps DEF BeginWrite, Ids
<1>2. KeepsFiles
    BY CommittedFileKept DEF BeginWrite
<1> QED BY <1>1, <1>2

LEMMA FillFileKeeps ==
    ASSUME TypeOK, WritingFresh, FillFile
    PROVE  KeepsCommits /\ AddsNoCommit /\ KeepsFiles
<1>1. KeepsCommits /\ AddsNoCommit
    BY SameStreams DEF FillFile
<1>2. /\ writing.file[1] \in Ids /\ ~IsCommitted(writing.file[1])
      /\ writing.file = <<writing.file[1], writing.file[2]>>
    BY WritingType DEF FillFile, WritingFresh
<1>3. disk' = [disk EXCEPT ![<<writing.file[1], writing.file[2]>>] =
                                writing.bytes]
    BY <1>2 DEF FillFile
<1>4. KeepsFiles
    BY <1>2, <1>3, CommittedFileKept
<1> QED BY <1>1, <1>4

\* Only a restart takes back what is committed or touches its file.
LEMMA StepKeeps ==
    ASSUME StoreInv, [Next]_vars, ~Restart
    PROVE  KeepsCommits /\ KeepsFiles
<1> USE DEF StoreInv
<1>1. CASE streams' = streams /\ disk' = disk
    BY <1>1, SameStreams, SameDisk
<1>2. CASE Admits /\ disk' = disk
    BY <1>2, AdmitKeeps, SameDisk DEF Admits
<1>3. CASE Begins
    BY <1>3, BeginWriteKeeps DEF Begins
<1>4. CASE FillFile
    BY <1>4, FillFileKeeps
<1>5. CASE Commit
    BY <1>5, CommitEffect, SameDisk DEF Commit
<1> QED BY <1>1, <1>2, <1>3, <1>4, <1>5, StepKinds

LEMMA NextStoreInv == StoreInv /\ [Next]_vars => StoreInv'
<1> SUFFICES ASSUME StoreInv, [Next]_vars
             PROVE  StoreInv'
    OBVIOUS
<1> USE DEF StoreInv
<1>0. TypeOK'
    BY NextTypeOK
<1>1. ASSUME NEW r \in Streams, NEW metadata \in Metadata,
             RefuseMetadata(r, metadata)
      PROVE  StoreInv'
    BY <1>0, <1>1, SameStreams, SameDisk, StoreInvFrame
       DEF RefuseMetadata, WritingFresh, IsCommitted, Idle
<1>2. ASSUME NEW id \in Ids, NEW metadata \in Metadata,
             StorageDown(id, metadata)
      PROVE  StoreInv'
  <2>1. KeepsCommits /\ AddsNoCommit
      BY <1>2, AdmitKeeps DEF StorageDown, Ids
  <2>2. WritingFresh' /\ restarts' = restarts
      BY <1>2 DEF StorageDown, Admit, WritingFresh, Idle
  <2> QED BY <1>0, <1>2, <2>1, <2>2, SameDisk, StoreInvFrame DEF StorageDown
<1>3. ASSUME NEW id \in Ids, NEW metadata \in Metadata, NEW ext \in Exts,
             NEW bytes \in Bytes, PutKnown(id, ext, bytes, metadata)
      PROVE  StoreInv'
  <2>1. KeepsCommits /\ AddsNoCommit
      BY <1>3, AdmitKeeps DEF PutKnown, Ids
  <2>2. WritingFresh' /\ restarts' = restarts
      BY <1>3 DEF PutKnown, Admit, WritingFresh, Idle
  <2>3. \A j \in Ids : \A put \in accepted'[j] \ accepted[j] :
            Recorded(j, put[1], put[2], put[3])
    <3>1. CASE SameSegment(Record(id), ext, bytes)
      <4>1. Record(id) = [ext |-> ext, hash |-> Hash[bytes]]
        <5>1. Record(id) \in SegmentRecord
            BY <1>3 DEF PutKnown, IsCommitted, Record, TypeOK, IsRendition
        <5> QED BY <3>1, <5>1 DEF SameSegment, SegmentRecord
      <4>2. \A j \in Ids : \A put \in accepted'[j] \ accepted[j] :
                j = id /\ put = <<ext, bytes, restarts>>
          BY <1>3, <3>1 DEF PutKnown, TypeOK
      <4>3. IsCommitted(id) /\ restarts \in Nat
          BY <1>3, OriginAssumption DEF PutKnown, TypeOK
      <4> QED BY <4>1, <4>2, <4>3 DEF Recorded
    <3>2. CASE ~SameSegment(Record(id), ext, bytes)
        BY <1>3, <3>2 DEF PutKnown
    <3> QED BY <3>1, <3>2
  <2> QED BY <1>0, <1>3, <2>1, <2>2, <2>3, SameDisk, StoreInvFrame DEF PutKnown
<1>4. ASSUME NEW id \in Ids, NEW metadata \in Metadata, NEW ext \in Exts,
             NEW bytes \in Bytes, BeginWrite(id, ext, bytes, metadata)
      PROVE  StoreInv'
  <2>1. /\ KeepsCommits /\ AddsNoCommit
        /\ DOMAIN streams' = DOMAIN streams \cup {id[1]}
      BY <1>4, AdmitKeeps DEF BeginWrite, Ids
  <2>2. ~IsCommitted(id)'
      BY <1>4, <2>1 DEF BeginWrite, AddsNoCommit
  <2>3. disk' = [disk EXCEPT ![<<id, ext>>] = Torn]
      BY <1>4 DEF BeginWrite
  <2>4. <<id, ext>> \in Files /\ disk \in [Files -> Bytes \cup {Torn, Missing}]
      BY DEF Files, TypeOK
  <2>5. /\ writing' = [kind |-> "writing", file |-> <<id, ext>>, bytes |-> bytes]
        /\ restarts' = restarts
      BY <1>4 DEF BeginWrite, Admit
  <2>6. WritingFresh'
    <3>1. writing'.file = <<id, ext>> /\ writing'.file[1] = id
        BY <2>5
    <3>2. disk'[<<id, ext>>] = Torn
        BY <2>3, <2>4
    <3> QED BY <2>1, <2>2, <3>1, <3>2 DEF WritingFresh, IsCommitted
  <2>7. KeepsFiles
      BY <1>4, BeginWriteKeeps
  <2> QED BY <1>0, <1>4, <2>1, <2>5, <2>6, <2>7, StoreInvFrame DEF BeginWrite
<1>5. CASE FillFile
  <2>1. /\ streams' = streams /\ writing' = writing /\ accepted' = accepted
        /\ restarts' = restarts
      BY <1>5 DEF FillFile
  <2>2. disk' = [disk EXCEPT ![writing.file] = writing.bytes]
      BY <1>5 DEF FillFile
  <2>3. /\ writing.file \in Files
        /\ disk \in [Files -> Bytes \cup {Torn, Missing}]
        /\ writing.file = <<writing.file[1], writing.file[2]>>
        /\ ~IsCommitted(writing.file[1])
      BY <1>5, WritingType DEF FillFile, TypeOK, WritingFresh
  <2>4. WritingFresh'
      BY <2>1, <2>2, <2>3 DEF WritingFresh, IsCommitted
  <2> QED BY <1>0, <1>5, <2>1, <2>4, FillFileKeeps, StoreInvFrame
<1>6. CASE Commit
  <2> PICK id \in Ids, ext \in Exts, bytes \in Bytes :
          CommitsExactly(id, ext, bytes)
      BY <1>6, CommitEffect
  <2> DEFINE record == [ext |-> ext, hash |-> Hash[bytes]]
  <2>1. KeepsCommits
      BY <1>6, CommitEffect
  <2>2. /\ ~IsCommitted(id)
        /\ IsCommitted(id)' /\ Record(id)' = record
        /\ \A j \in Ids \ {id} : IsCommitted(j)' => IsCommitted(j)
        /\ disk[<<id, ext>>] = bytes
      BY DEF CommitsExactly
  <2>3. /\ disk' = disk /\ writing' = Idle /\ restarts' = restarts
        /\ restarts \in Nat
      BY <1>6, OriginAssumption DEF Commit, TypeOK
  <2>4. accepted' = [accepted EXCEPT
                        ![id] = accepted[id] \cup {<<ext, bytes, restarts>>}]
      BY <1>6 DEF Commit, CommitsExactly
  <2>5. CommittedOnDisk'
    <3> SUFFICES ASSUME NEW j \in Ids, IsCommitted(j)'
                 PROVE  /\ disk[<<j, Record(j)'.ext>>] \in Bytes
                        /\ Hash[disk[<<j, Record(j)'.ext>>]] = Record(j)'.hash
        BY <2>3 DEF CommittedOnDisk
    <3>1. CASE j = id
        BY <2>2, <3>1
    <3>2. CASE j # id
        BY <2>1, <2>2, <3>2 DEF CommittedOnDisk, KeepsCommits
    <3> QED BY <3>1, <3>2
  <2>6. AcceptedRecorded'
    <3> SUFFICES ASSUME NEW j \in Ids, NEW put \in accepted'[j]
                 PROVE  Recorded(j, put[1], put[2], put[3])'
        BY DEF AcceptedRecorded
    <3>1. CASE put \in accepted[j]
        BY <2>1, <2>3, <3>1 DEF AcceptedRecorded, Recorded, KeepsCommits
    <3>2. CASE put \notin accepted[j]
      <4>1. j = id /\ put = <<ext, bytes, restarts>>
          BY <2>4, <3>2 DEF TypeOK
      <4> QED BY <2>2, <2>3, <4>1 DEF Recorded
    <3> QED BY <3>1, <3>2
  <2>7. WritingFresh'
      BY <2>3 DEF WritingFresh, Idle
  <2> QED BY <1>0, <2>5, <2>6, <2>7
<1>7. CASE FailWrite
    BY <1>0, <1>7, SameStreams, SameDisk, StoreInvFrame DEF FailWrite, WritingFresh, Idle
<1>8. ASSUME NEW c \in Channels, NEW file \in Renditions \cup {Master},
             GetPlaylist(c, file)
      PROVE  StoreInv'
    BY <1>0, <1>8, SameStreams, SameDisk, StoreInvFrame
       DEF GetPlaylist, WritingFresh, Idle
<1>9. CASE Restart
  <2>1. WritingFresh' /\ CommittedOnDisk'
      BY <1>9 DEF Restart, WritingFresh, CommittedOnDisk, IsCommitted, Idle
  <2>2. AcceptedRecorded'
    <3> SUFFICES ASSUME NEW id \in Ids, NEW put \in accepted[id]
                 PROVE  Recorded(id, put[1], put[2], put[3])'
        BY <1>9 DEF AcceptedRecorded, Restart
    <3>1. put[3] \in Nat /\ put[3] <= restarts /\ restarts \in Nat
        BY OriginAssumption DEF TypeOK, AcceptedRecorded, Recorded
    <3>2. restarts' = restarts + 1
        BY <1>9 DEF Restart
    <3> QED BY <3>1, <3>2 DEF Recorded
  <2> QED BY <1>0, <2>1, <2>2
<1>10. ASSUME NEW file \in Pulled, GetSegment(file)
       PROVE  StoreInv'
    BY <1>0, <1>10, SameStreams, SameDisk, StoreInvFrame
       DEF GetSegment, WritingFresh, IsCommitted
<1>11. CASE UNCHANGED vars
  <2>1. /\ streams' = streams /\ disk' = disk /\ accepted' = accepted
        /\ writing' = writing /\ restarts' = restarts
      BY <1>11 DEF vars
  <2> QED BY <1>0, <2>1, SameStreams, SameDisk, StoreInvFrame DEF WritingFresh, IsCommitted
<1> QED BY <1>1, <1>2, <1>3, <1>4, <1>5, <1>6, <1>7, <1>8, <1>9, <1>10, <1>11
        DEF Next

\* The inductive invariant of the store.
THEOREM StoreInvariant == Spec => []StoreInv
<1>1. Init => StoreInv
    BY InitStoreInv
<1>2. StoreInv /\ [Next]_vars => StoreInv'
    BY NextStoreInv
<1> QED BY <1>1, <1>2, PTL DEF Spec

\* Every PUT that was answered 200 or 201 is committed as it was sent, up to the
\* hash, and its file is complete, as long as the process runs.
THEOREM AcknowledgedIsStoredHolds == Spec => []AcknowledgedIsStored
<1>1. StoreInv => AcknowledgedIsStored
    BY DEF StoreInv, CommittedOnDisk, AcceptedRecorded, Recorded,
           AcknowledgedIsStored
<1> QED BY <1>1, StoreInvariant, PTL

-----------------------------------------------------------------------------
(* Segments read without the mutex *)

\* What get_segment has just answered is what the file holds.
ReadFresh ==
    reply.kind = "segment" =>
        reply.file \in Files /\ reply.bytes = disk[reply.file]

LEMMA NextReadFresh == ReadFresh /\ [Next]_vars => ReadFresh'
<1> SUFFICES ASSUME ReadFresh, [Next]_vars
             PROVE  ReadFresh'
    OBVIOUS
<1>1. ASSUME NEW file \in Pulled, GetSegment(file)
      PROVE  ReadFresh'
  <2>1. file \in Files /\ disk' = disk
      BY <1>1, OriginAssumption DEF GetSegment
  <2>2. CASE reply' = [kind |-> "segment", file |-> file, bytes |-> disk[file]]
      BY <2>1, <2>2 DEF ReadFresh
  <2>3. CASE reply' = [kind |-> "no segment", file |-> file]
      BY <2>3 DEF ReadFresh
  <2> QED BY <1>1, <2>2, <2>3 DEF GetSegment
<1>2. ASSUME NEW c, NEW file, GetPlaylist(c, file)
      PROVE  ReadFresh'
  <2>1. Served(c, file)' # "segment"
      BY DEF Served
  <2>2. reply' = [kind |-> Served(c, file)', channel |-> c]
      BY <1>2 DEF GetPlaylist
  <2> QED BY <2>1, <2>2 DEF ReadFresh
<1>3. CASE UNCHANGED vars
    BY <1>3 DEF vars, ReadFresh
<1>4. ASSUME reply' = NoReply \/ \E status : reply' = Answer(status)
      PROVE  ReadFresh'
    BY <1>4 DEF ReadFresh, NoReply, Answer
<1>5. ASSUME NEW r, NEW metadata, RefuseMetadata(r, metadata)
      PROVE  ReadFresh'
    BY <1>4, <1>5 DEF RefuseMetadata
<1>6. ASSUME NEW id, NEW metadata,
             \/ StorageDown(id, metadata)
             \/ \E ext, bytes : \/ PutKnown(id, ext, bytes, metadata)
                               \/ BeginWrite(id, ext, bytes, metadata)
      PROVE  ReadFresh'
    BY <1>4, <1>6 DEF StorageDown, PutKnown, BeginWrite
<1>7. CASE FillFile \/ Commit \/ FailWrite \/ Restart
    BY <1>4, <1>7 DEF FillFile, Commit, FailWrite, Restart
<1> QED BY <1>1, <1>2, <1>3, <1>5, <1>6, <1>7 DEF Next

\* The bytes of a committed segment are read whole, and of the hash on record,
\* without the mutex and whatever PUT is being written.
THEOREM CommittedReadWholeHolds == Spec => []CommittedReadWhole
<1>1. Init => ReadFresh
    BY DEF Init, ReadFresh, NoReply
<1>2. StoreInv /\ ReadFresh => CommittedReadWhole
  <2> SUFFICES ASSUME StoreInv, ReadFresh, reply.kind = "segment",
                      IsCommitted(reply.file[1]),
                      Record(reply.file[1]).ext = reply.file[2]
               PROVE  /\ reply.bytes \in Bytes
                      /\ Hash[reply.bytes] = Record(reply.file[1]).hash
      BY DEF CommittedReadWhole
  <2>1. /\ reply.file[1] \in Ids
        /\ reply.file = <<reply.file[1], reply.file[2]>>
        /\ reply.bytes = disk[reply.file]
      BY DEF ReadFresh, Files
  <2> QED BY <2>1 DEF StoreInv, CommittedOnDisk
<1> QED BY <1>1, <1>2, NextReadFresh, StoreInvariant, PTL DEF Spec

-----------------------------------------------------------------------------
(* Metadata *)

\* A rendition that is known keeps what is established of its metadata.
KeepsMetadata ==
    \A r \in DOMAIN streams \cap DOMAIN streams' :
        /\ streams[r].metadata.bandwidth
              \in {Absent, streams'[r].metadata.bandwidth}
        /\ streams[r].metadata.resolution
              \in {Absent, streams'[r].metadata.resolution}

LEMMA AdmitKeepsMetadata ==
    ASSUME TypeOK, NEW r \in Streams, NEW metadata \in Metadata,
           Admit(r, metadata)
    PROVE  KeepsMetadata
<1> SUFFICES ASSUME NEW q \in DOMAIN streams
             PROVE  /\ streams[q].metadata.bandwidth
                          \in {Absent, streams'[q].metadata.bandwidth}
                    /\ streams[q].metadata.resolution
                          \in {Absent, streams'[q].metadata.resolution}
    BY DEF KeepsMetadata
<1>1. streams' = Touched(r, metadata)
    BY DEF Admit
<1>2. CASE q # r
    BY <1>1, <1>2 DEF Touched
<1>3. CASE q = r
  <2> DEFINE fields == [metadata |-> streams[r].metadata,
                        segments |-> streams[r].segments,
                        commits |-> streams[r].commits]
  <2>1. streams[r] = fields
      BY <1>3 DEF TypeOK, IsRendition
  <2>2. streams'[r] = [fields EXCEPT !.metadata = Merge(fields.metadata, metadata)]
      BY <1>1, <1>3, <2>1 DEF Touched, Stream
  <2>3. streams'[r].metadata = Merge(streams[r].metadata, metadata)
      BY <2>2
  <2> QED BY <1>3, <2>3 DEF Merge, Fill
<1> QED BY <1>2, <1>3

\* FR-041 for every sequence of PUTs: an established field is never replaced or
\* removed, whether the PUTs that carry others are refused, fail or succeed.
THEOREM MetadataSticksHolds == Spec => MetadataSticks
<1>1. TypeOK /\ [Next]_vars => [KeepsMetadata]_vars
  <2> SUFFICES ASSUME TypeOK, [Next]_vars
               PROVE  KeepsMetadata
      OBVIOUS
  <2>1. ASSUME streams' = streams
        PROVE  KeepsMetadata
      BY <2>1 DEF KeepsMetadata
  <2>2. CASE Admits
      BY <2>2, AdmitKeepsMetadata DEF Admits
  <2>3. CASE Commit
    <3> PICK r \in Streams, s \in Sequences, record \in SegmentRecord :
            streams' = [streams EXCEPT ![r] = Committed(streams[r], s, record)]
        BY <2>3, WritingType DEF Commit, SegmentRecord, Hashes
    <3> QED BY CommittedRendition DEF KeepsMetadata, TypeOK
  <2>4. CASE Restart
      BY <2>4 DEF Restart, KeepsMetadata
  <2> QED BY <2>1, <2>2, <2>3, <2>4, StreamSteps
<1> QED BY <1>1, TypeCorrect, PTL DEF Spec, MetadataSticks, KeepsMetadata

-----------------------------------------------------------------------------
(* The commit log *)

\* The log names each element of S once.
LogExact(log, S) ==
    /\ {log[i] : i \in DOMAIN log} = S
    /\ \A i, j \in DOMAIN log : log[i] = log[j] => i = j

LogsExact ==
    \A r \in DOMAIN streams :
        LogExact(streams[r].commits, DOMAIN streams[r].segments)

LogInv ==
    /\ StoreInv
    /\ LogsExact

LEMMA AppendExact ==
    ASSUME NEW log \in Seq(Sequences), NEW S, LogExact(log, S),
           NEW s \in Sequences, s \notin S
    PROVE  LogExact(Append(log, s), S \cup {s})
<1> DEFINE new == Append(log, s)
<1>1. /\ DOMAIN new = 1..Len(log) + 1
      /\ DOMAIN log = 1..Len(log)
      /\ Len(log) \in Nat
      /\ \A i \in DOMAIN log : new[i] = log[i]
      /\ new[Len(log) + 1] = s
    OBVIOUS
<1>2. \A i \in DOMAIN log : log[i] # s
    BY DEF LogExact
<1>3. {new[i] : i \in DOMAIN new} = S \cup {s}
    BY <1>1 DEF LogExact
<1>4. \A i, j \in DOMAIN new : new[i] = new[j] => i = j
    BY <1>1, <1>2 DEF LogExact
<1> QED BY <1>3, <1>4 DEF LogExact

\* The commit log of every rendition names each of its segments once.
THEOREM CommitLogExactHolds == Spec => []CommitLogExact
<1>1. Init => LogInv
    BY InitStoreInv DEF Init, LogInv, LogsExact
<1>2. LogInv /\ [Next]_vars => LogInv'
  <2> SUFFICES ASSUME LogInv, [Next]_vars
               PROVE  LogsExact'
      BY NextStoreInv DEF LogInv
  <2>1. CASE streams' = streams
      BY <2>1 DEF LogInv, LogsExact
  <2>2. CASE Admits
    <3>1. LogExact(NewRendition.commits, DOMAIN NewRendition.segments)
        BY DEF LogExact, NewRendition
    <3>2. \A r : LogExact(Stream(r).commits, DOMAIN Stream(r).segments)
        BY <3>1 DEF LogInv, LogsExact, Stream
    <3> QED BY <2>2, <3>2, AdmitKeeps DEF Admits, LogsExact, LogInv, StoreInv
  <2>3. CASE Commit
    <3>1. /\ writing.file[1][1] \in DOMAIN streams
          /\ ~IsCommitted(writing.file[1])
        BY <2>3 DEF Commit, LogInv, StoreInv, WritingFresh
    <3> PICK r \in DOMAIN streams, s \in Sequences, record \in SegmentRecord :
            /\ s \notin DOMAIN streams[r].segments
            /\ streams' = [streams EXCEPT ![r] = Committed(streams[r], s, record)]
        BY <2>3, <3>1, WritingType
           DEF Commit, SegmentRecord, Hashes, IsCommitted, LogInv, StoreInv
    <3> DEFINE new == Committed(streams[r], s, record)
    <3>2. /\ new.commits = Append(streams[r].commits, s)
          /\ DOMAIN new.segments = DOMAIN streams[r].segments \cup {s}
        BY CommittedRendition DEF LogInv, StoreInv, TypeOK
    <3>3. streams[r].commits \in Seq(Sequences)
        BY DEF LogInv, StoreInv, TypeOK, IsRendition
    <3>4. LogExact(new.commits, DOMAIN new.segments)
        BY <3>2, <3>3, AppendExact DEF LogInv, LogsExact
    <3> QED BY <3>4 DEF LogInv, LogsExact
  <2>4. CASE Restart
      BY <2>4 DEF Restart, LogsExact
  <2> QED BY <2>1, <2>2, <2>3, <2>4, StreamSteps
<1>3. LogInv => CommitLogExact
    BY DEF LogInv, LogsExact, LogExact, CommitLogExact
<1> QED BY <1>1, <1>2, <1>3, PTL DEF Spec

-----------------------------------------------------------------------------
(* The write-once store *)

\* The content SegmentStore sees under an id.
ContentOf(id) ==
    IF IsCommitted(id) THEN <<Record(id).ext, disk[<<id, Record(id).ext>>]>>
    ELSE Nothing

LEMMA SameContents ==
    ASSUME KeepsCommits, AddsNoCommit, KeepsFiles
    PROVE  \A id \in Ids : ContentOf(id)' = ContentOf(id)
BY DEF KeepsFiles, KeepsCommits, AddsNoCommit, ContentOf

LEMMA InitImplementsStore == Init => Store!StoreInit
BY DEF Init, Store!StoreInit, IsCommitted

LEMMA StepImplementsStore ==
    ASSUME StoreInv, [Next]_vars
    PROVE  \/ [id \in Ids |-> ContentOf(id)]' = [id \in Ids |-> ContentOf(id)]
           \/ [id \in Ids |-> ContentOf(id)]' = [id \in Ids |-> Nothing]
           \/ \E id \in Ids, content \in Exts \X Bytes :
                 /\ ContentOf(id) = Nothing
                 /\ [j \in Ids |-> ContentOf(j)]' =
                       [[j \in Ids |-> ContentOf(j)] EXCEPT ![id] = content]
<1> USE DEF StoreInv
<1>1. ASSUME \A id \in Ids : ContentOf(id)' = ContentOf(id)
      PROVE  [id \in Ids |-> ContentOf(id)]' = [id \in Ids |-> ContentOf(id)]
    BY <1>1
<1>2. ASSUME streams' = streams, disk' = disk
      PROVE  \A id \in Ids : ContentOf(id)' = ContentOf(id)
    BY <1>2 DEF ContentOf, IsCommitted, Record
<1>3. CASE Admits /\ disk' = disk
    BY <1>1, <1>3, AdmitKeeps, SameDisk, SameContents DEF Admits
<1>4. CASE Begins
    BY <1>1, <1>4, BeginWriteKeeps, SameContents DEF Begins
<1>5. CASE FillFile
    BY <1>1, <1>5, FillFileKeeps, SameContents
<1>6. CASE Commit
  <2> PICK id \in Ids, ext \in Exts, bytes \in Bytes :
          CommitsExactly(id, ext, bytes)
      BY <1>6, CommitEffect
  <2>1. KeepsCommits /\ disk' = disk
      BY <1>6, CommitEffect DEF Commit
  <2>2. ContentOf(id) = Nothing /\ ContentOf(id)' = <<ext, bytes>>
      BY <2>1 DEF CommitsExactly, ContentOf
  <2>3. \A j \in Ids \ {id} : ContentOf(j)' = ContentOf(j)
      BY <2>1 DEF CommitsExactly, KeepsCommits, ContentOf
  <2>4. [j \in Ids |-> ContentOf(j)]' =
            [[j \in Ids |-> ContentOf(j)] EXCEPT ![id] = <<ext, bytes>>]
      BY <2>2, <2>3
  <2> QED BY <2>2, <2>4
<1>7. CASE Restart
  <2>1. \A id \in Ids : ContentOf(id)' = Nothing
      BY <1>7 DEF Restart, ContentOf, IsCommitted
  <2> QED BY <2>1
<1> QED BY <1>1, <1>2, <1>3, <1>4, <1>5, <1>6, <1>7, StepKinds

\* The origin, with its writes in progress, failures and repeated PUTs,
\* implements the write-once store.
THEOREM StoreImplemented == Spec => ImplementsStore
<1> DEFINE store == [id \in Ids |->
                        IF IsCommitted(id)
                        THEN <<Record(id).ext, disk[<<id, Record(id).ext>>]>>
                        ELSE Nothing]
<1>1. StoreInv /\ [Next]_vars => [Store!StoreNext]_store
    BY StepImplementsStore
       DEF ContentOf, Store!StoreNext, Store!Write, Store!Forget
<1> QED BY <1>1, InitImplementsStore, StoreInvariant, PTL
        DEF Spec, ImplementsStore, Store!StoreSpec

\* The same store with the contents forgotten, as the registry sees it: a
\* rendition's committed sequences are set one at a time, and never twice.
Commits ==
    INSTANCE SegmentStore
        WITH Contents <- {"stored"}, Nothing <- "free",
             store <- [id \in Ids |->
                 IF IsCommitted(id) THEN "stored" ELSE "free"]

\* What ingest commits is what Registry calls Publish and Restart.
THEOREM CommitsImplemented == Spec => Commits!StoreSpec
<1> DEFINE seen == [id \in Ids |-> IF IsCommitted(id) THEN "stored" ELSE "free"]
<1>1. Init => Commits!StoreInit
    BY DEF Init, Commits!StoreInit, IsCommitted
<1>2. StoreInv /\ [Next]_vars => [Commits!StoreNext]_seen
  <2> SUFFICES ASSUME StoreInv, [Next]_vars
               PROVE  Commits!StoreNext \/ seen' = seen
      OBVIOUS
  <2> USE DEF StoreInv
  <2>1. ASSUME KeepsCommits, AddsNoCommit
        PROVE  seen' = seen
    <3>1. \A id \in Ids : IsCommitted(id)' <=> IsCommitted(id)
        BY <2>1 DEF KeepsCommits, AddsNoCommit
    <3> QED BY <3>1
  <2>2. CASE streams' = streams
      BY <2>1, <2>2, SameStreams
  <2>3. CASE Admits
      BY <2>1, <2>3, AdmitKeeps DEF Admits
  <2>4. CASE Commit
    <3> PICK id \in Ids, ext \in Exts, bytes \in Bytes :
            CommitsExactly(id, ext, bytes)
        BY <2>4, CommitEffect
    <3>1. KeepsCommits
        BY <2>4, CommitEffect
    <3>2. seen[id] = "free"
        BY DEF CommitsExactly
    <3>3. \A j \in Ids : IsCommitted(j)' <=> j = id \/ IsCommitted(j)
        BY <3>1 DEF CommitsExactly, KeepsCommits
    <3>4. seen' = [seen EXCEPT ![id] = "stored"]
        BY <3>3
    <3> QED BY <3>2, <3>4 DEF Commits!StoreNext, Commits!Write
  <2>5. CASE Restart
      BY <2>5 DEF Restart, IsCommitted, Commits!StoreNext, Commits!Forget
  <2> QED BY <2>2, <2>3, <2>4, <2>5, StreamSteps
<1> QED BY <1>1, <1>2, StoreInvariant, PTL DEF Spec, Commits!StoreSpec

-----------------------------------------------------------------------------
(* Snapshots *)

\* Every known rendition is empty or has a live edge.
SegmentsHaveEdge ==
    \A r \in DOMAIN streams :
        \/ DOMAIN streams[r].segments = {}
        \/ HasMax(DOMAIN streams[r].segments)

ListsHaveEdge ==
    \A c \in DOMAIN snapshots : \A r \in DOMAIN snapshots[c] :
        HasMax(DOMAIN snapshots[c][r].media)

SnapshotInv ==
    /\ StoreInv
    /\ SegmentsHaveEdge
    /\ ListsHaveEdge
    /\ SnapshotPlayable

LEMMA AddKeepsEdge ==
    ASSUME NEW S \in SUBSET Nat, S = {} \/ HasMax(S), NEW s \in Nat
    PROVE  HasMax(S \cup {s})
<1>1. CASE S = {}
    BY <1>1 DEF HasMax
<1>2. CASE HasMax(S)
  <2> PICK m \in S : \A q \in S : m >= q
      BY <1>2 DEF HasMax
  <2>1. CASE s >= m
    <3>1. \A q \in S \cup {s} : s >= q
        BY <2>1
    <3> QED BY <3>1 DEF HasMax
  <2>2. CASE ~(s >= m)
    <3>1. \A q \in S \cup {s} : m >= q
        BY <2>2
    <3> QED BY <3>1 DEF HasMax
  <2> QED BY <2>1, <2>2
<1> QED BY <1>1, <1>2

LEMMA NextSegmentsHaveEdge ==
    ASSUME StoreInv, SegmentsHaveEdge, [Next]_vars
    PROVE  SegmentsHaveEdge'
<1> USE DEF StoreInv
<1>1. CASE streams' = streams
    BY <1>1 DEF SegmentsHaveEdge
<1>2. CASE Admits
  <2>1. \A r : \/ DOMAIN Stream(r).segments = {}
               \/ HasMax(DOMAIN Stream(r).segments)
      BY DEF SegmentsHaveEdge, Stream, NewRendition
  <2> QED BY <1>2, <2>1, AdmitKeeps DEF SegmentsHaveEdge, Admits
<1>3. CASE Commit
  <2>1. writing.file[1][1] \in DOMAIN streams
      BY <1>3 DEF Commit, WritingFresh
  <2> PICK r \in DOMAIN streams, s \in Sequences, record \in SegmentRecord :
          streams' = [streams EXCEPT ![r] = Committed(streams[r], s, record)]
      BY <1>3, <2>1, WritingType DEF Commit, SegmentRecord, Hashes
  <2> DEFINE new == Committed(streams[r], s, record)
  <2>2. DOMAIN new.segments = DOMAIN streams[r].segments \cup {s}
      BY CommittedRendition DEF TypeOK
  <2>3. DOMAIN streams[r].segments \in SUBSET Nat /\ s \in Nat
      BY OriginAssumption DEF TypeOK, IsRendition
  <2>4. HasMax(DOMAIN new.segments)
      BY <2>2, <2>3, AddKeepsEdge DEF SegmentsHaveEdge
  <2> HIDE DEF new
  <2> QED BY <2>4 DEF SegmentsHaveEdge, new
<1>4. CASE Restart
    BY <1>4 DEF Restart, SegmentsHaveEdge
<1> QED BY <1>1, <1>2, <1>3, <1>4, StreamSteps

\* What a successful regeneration of a channel stores.
LEMMA RegeneratedSnapshot ==
    ASSUME StoreInv, SegmentsHaveEdge, NEW c \in Channels,
           Regenerable(ChannelState(c))
    PROVE  LET snapshot == Regenerate(ChannelState(c))
               S(r) == DOMAIN streams[<<c, r>>].segments
           IN  /\ DOMAIN snapshot =
                     {r \in Renditions : <<c, r>> \in DOMAIN streams}
               /\ \A r \in DOMAIN snapshot :
                     /\ S(r) \in SUBSET Nat /\ HasMax(S(r)) /\ NoGap(Present(S(r)))
                     /\ DOMAIN snapshot[r].media = Present(S(r))
                     /\ \A s \in Present(S(r)) :
                           snapshot[r].media[s] =
                               streams[<<c, r>>].segments[s].ext
               /\ \A q, r \in DOMAIN snapshot : Present(S(q)) = Present(S(r))
<1> DEFINE known == {r \in Renditions : <<c, r>> \in DOMAIN streams}
           snapshot == Regenerate(ChannelState(c))
           segments(r) == streams[<<c, r>>].segments
           S(r) == DOMAIN segments(r)
<1>1. DOMAIN ChannelState(c) = known
      /\ \A r \in known : ChannelState(c)[r] = streams[<<c, r>>]
    BY DEF ChannelState
<1>2. DOMAIN snapshot = known
      /\ \A r \in known : snapshot[r].media = MediaPlaylist(segments(r))
    BY <1>1 DEF Regenerate
<1>3. ASSUME NEW r \in known
      PROVE  S(r) \in SUBSET Nat /\ HasMax(S(r)) /\ NoGap(Present(S(r)))
  <2>1. ValidMedia(segments(r))
      BY <1>1 DEF Regenerable
  <2>2. S(r) # {} /\ NoGap(Present(S(r)))
      BY <2>1 DEF ValidMedia
  <2>3. S(r) \in SUBSET Nat
      BY OriginAssumption DEF StoreInv, TypeOK, IsRendition
  <2> QED BY <2>2, <2>3 DEF SegmentsHaveEdge
<1>4. ASSUME NEW q \in known, NEW r \in known
      PROVE  Present(S(q)) = Present(S(r))
  <2>1. LiveSpan(segments(q)) = LiveSpan(segments(r))
      BY <1>1 DEF Regenerable
  <2>2. /\ Min(Present(S(q))) = Min(Present(S(r)))
        /\ Max(Present(S(q))) = Max(Present(S(r)))
      BY <2>1 DEF LiveSpan
  <2> QED BY <1>3, <2>2, SameEndsSameWindow
<1>5. ASSUME NEW r \in known
      PROVE  /\ DOMAIN snapshot[r].media = Present(S(r))
             /\ \A s \in Present(S(r)) :
                   snapshot[r].media[s] = segments(r)[s].ext
    BY <1>2 DEF MediaPlaylist
<1> HIDE DEF snapshot
<1> QED BY <1>2, <1>3, <1>4, <1>5 DEF snapshot

\* A snapshot of channel c can be played in the present state.
Playable(c, snapshot) ==
    \A r \in DOMAIN snapshot :
        LET media == snapshot[r].media
        IN  /\ DOMAIN media # {}
            /\ NoGap(DOMAIN media)
            /\ Cardinality(DOMAIN media) <= WindowSize
            /\ \A q \in DOMAIN snapshot :
                  DOMAIN snapshot[q].media = DOMAIN media
            /\ \A s \in DOMAIN media :
                  LET id == <<<<c, r>>, s>>
                  IN  /\ IsCommitted(id)
                      /\ Record(id).ext = media[s]
                      /\ disk[<<id, media[s]>>] \in Bytes

LEMMA RegeneratedPlayable ==
    ASSUME StoreInv, SegmentsHaveEdge, NEW c \in Channels,
           Regenerable(ChannelState(c))
    PROVE  /\ Playable(c, Regenerate(ChannelState(c)))
           /\ \A r \in DOMAIN Regenerate(ChannelState(c)) :
                 HasMax(DOMAIN Regenerate(ChannelState(c))[r].media)
<1> DEFINE snapshot == Regenerate(ChannelState(c))
           S(r) == DOMAIN streams[<<c, r>>].segments
<1>1. /\ DOMAIN snapshot = {r \in Renditions : <<c, r>> \in DOMAIN streams}
      /\ \A r \in DOMAIN snapshot :
            /\ S(r) \in SUBSET Nat /\ HasMax(S(r)) /\ NoGap(Present(S(r)))
            /\ DOMAIN snapshot[r].media = Present(S(r))
            /\ \A s \in Present(S(r)) :
                  snapshot[r].media[s] = streams[<<c, r>>].segments[s].ext
      /\ \A q, r \in DOMAIN snapshot : Present(S(q)) = Present(S(r))
    BY RegeneratedSnapshot
<1> HIDE DEF snapshot
<1>2. ASSUME NEW r \in DOMAIN snapshot
      PROVE  /\ Present(S(r)) # {}
             /\ HasMax(Present(S(r)))
             /\ Cardinality(Present(S(r))) <= WindowSize
    BY <1>1, EdgeIsPresent, PresentFitsWindow
<1>3. ASSUME NEW r \in DOMAIN snapshot, NEW s \in Present(S(r))
      PROVE  LET id == <<<<c, r>>, s>>
             IN  /\ IsCommitted(id)
                 /\ Record(id).ext = snapshot[r].media[s]
                 /\ disk[<<id, snapshot[r].media[s]>>] \in Bytes
  <2> DEFINE id == <<<<c, r>>, s>>
  <2>1. <<c, r>> \in DOMAIN streams /\ s \in S(r)
      BY <1>1, <1>3 DEF Present
  <2>2. id \in Ids
      BY <2>1 DEF StoreInv, TypeOK, IsRendition, Ids
  <2>3. IsCommitted(id) /\ Record(id).ext = snapshot[r].media[s]
      BY <1>1, <1>3, <2>1 DEF IsCommitted, Record
  <2> QED BY <2>2, <2>3 DEF StoreInv, CommittedOnDisk
<1>4. Playable(c, snapshot)
    BY <1>1, <1>2, <1>3 DEF Playable
<1> QED BY <1>1, <1>2, <1>4 DEF snapshot

\* A snapshot that can be played stays so, however stale it becomes.
LEMMA PlayableKept ==
    ASSUME StoreInv, KeepsCommits, KeepsFiles, NEW c, NEW snapshot,
           Playable(c, snapshot)
    PROVE  Playable(c, snapshot)'
<1> SUFFICES ASSUME NEW r \in DOMAIN snapshot, NEW s \in DOMAIN snapshot[r].media
             PROVE  LET id == <<<<c, r>>, s>>
                    IN  /\ IsCommitted(id)'
                        /\ Record(id)'.ext = snapshot[r].media[s]
                        /\ disk'[<<id, snapshot[r].media[s]>>] \in Bytes
    BY DEF Playable
<1> DEFINE id == <<<<c, r>>, s>>
<1>1. /\ IsCommitted(id)
      /\ Record(id).ext = snapshot[r].media[s]
      /\ disk[<<id, snapshot[r].media[s]>>] \in Bytes
    BY DEF Playable
<1>2. id \in Ids
  <2>1. <<c, r>> \in DOMAIN streams /\ s \in DOMAIN streams[<<c, r>>].segments
      BY <1>1 DEF IsCommitted
  <2> QED BY <2>1 DEF StoreInv, TypeOK, IsRendition, Ids
<1> QED BY <1>1, <1>2 DEF KeepsCommits, KeepsFiles

\* GetPlaylist replaces the snapshot of channel c.
Replaces(c) ==
    /\ Regenerable(ChannelState(c))
    /\ snapshots' = [d \in DOMAIN snapshots \cup {c} |->
          IF d = c THEN Regenerate(ChannelState(c)) ELSE snapshots[d]]

LEMMA SnapshotSteps ==
    ASSUME [Next]_vars, ~Restart
    PROVE  snapshots' = snapshots \/ \E c \in Channels : Replaces(c)
<1>1. ASSUME NEW r \in Streams, NEW metadata \in Metadata,
             RefuseMetadata(r, metadata)
      PROVE  snapshots' = snapshots
    BY <1>1 DEF RefuseMetadata
<1>2. ASSUME NEW id \in Ids, NEW metadata \in Metadata,
             \/ StorageDown(id, metadata)
             \/ \E ext \in Exts, bytes \in Bytes :
                   \/ PutKnown(id, ext, bytes, metadata)
                   \/ BeginWrite(id, ext, bytes, metadata)
      PROVE  snapshots' = snapshots
    BY <1>2 DEF StorageDown, PutKnown, BeginWrite, Admit
<1>3. ASSUME FillFile \/ Commit \/ FailWrite
      PROVE  snapshots' = snapshots
    BY <1>3 DEF FillFile, Commit, FailWrite
<1>4. ASSUME NEW c \in Channels, NEW file, GetPlaylist(c, file)
      PROVE  snapshots' = snapshots \/ Replaces(c)
    BY <1>4 DEF GetPlaylist, Replaces
<1>5. ASSUME NEW file \in Pulled, GetSegment(file)
      PROVE  snapshots' = snapshots
    BY <1>5 DEF GetSegment
<1>6. CASE UNCHANGED vars
    BY <1>6 DEF vars
<1> QED BY <1>1, <1>2, <1>3, <1>4, <1>5, <1>6 DEF Next

LEMMA NextSnapshotInv == SnapshotInv /\ [Next]_vars => SnapshotInv'
<1> SUFFICES ASSUME SnapshotInv, [Next]_vars
             PROVE  SnapshotInv'
    OBVIOUS
<1> USE DEF SnapshotInv
<1>1. StoreInv' /\ SegmentsHaveEdge'
    BY NextStoreInv, NextSegmentsHaveEdge
<1>2. \A c \in DOMAIN snapshots : Playable(c, snapshots[c])
    BY DEF SnapshotPlayable, Playable
<1>3. ASSUME \A c \in DOMAIN snapshots' : \E snapshot :
                 /\ snapshot = snapshots'[c]
                 /\ Playable(c, snapshot)'
                 /\ \A r \in DOMAIN snapshot : HasMax(DOMAIN snapshot[r].media)
      PROVE  SnapshotInv'
  <2>1. ListsHaveEdge'
      BY <1>3 DEF ListsHaveEdge
  <2>2. SnapshotPlayable'
    <3> SUFFICES ASSUME NEW c \in DOMAIN snapshots'
                 PROVE  Playable(c, snapshots[c])'
        BY DEF SnapshotPlayable, Playable
    <3> QED BY <1>3 DEF Playable
  <2> QED BY <1>1, <2>1, <2>2
<1>4. CASE Restart
    BY <1>3, <1>4 DEF Restart
<1>5. ASSUME ~Restart, NEW c \in DOMAIN snapshots, c \in DOMAIN snapshots',
             snapshots'[c] = snapshots[c]
      PROVE  \E snapshot :
                 /\ snapshot = snapshots'[c]
                 /\ Playable(c, snapshot)'
                 /\ \A r \in DOMAIN snapshot : HasMax(DOMAIN snapshot[r].media)
  <2> PICK snapshot : snapshot = snapshots[c]
      OBVIOUS
  <2>1. Playable(c, snapshot)
      BY DEF SnapshotPlayable, Playable
  <2>2. Playable(c, snapshot)'
      BY <1>5, <2>1, StepKeeps, PlayableKept
  <2>3. \A r \in DOMAIN snapshot : HasMax(DOMAIN snapshot[r].media)
      BY DEF ListsHaveEdge
  <2> QED BY <1>5, <2>2, <2>3
<1>6. CASE snapshots' = snapshots /\ ~Restart
    BY <1>3, <1>5, <1>6
<1>7. ASSUME NEW c \in Channels, Replaces(c), ~Restart
      PROVE  SnapshotInv'
  <2> PICK snapshot : snapshot = Regenerate(ChannelState(c))
      OBVIOUS
  <2>1. /\ Playable(c, snapshot)
        /\ \A r \in DOMAIN snapshot : HasMax(DOMAIN snapshot[r].media)
      BY <1>7, RegeneratedPlayable DEF Replaces
  <2>2. Playable(c, snapshot)'
      BY <1>7, <2>1, StepKeeps, PlayableKept
  <2>3. snapshots'[c] = snapshot
      BY <1>7 DEF Replaces
  <2>4. \A d \in DOMAIN snapshots' \ {c} :
            /\ d \in DOMAIN snapshots
            /\ snapshots'[d] = snapshots[d]
      BY <1>7 DEF Replaces
  <2>5. ASSUME NEW d \in DOMAIN snapshots'
        PROVE  \E new :
                   /\ new = snapshots'[d]
                   /\ Playable(d, new)'
                   /\ \A r \in DOMAIN new : HasMax(DOMAIN new[r].media)
    <3>1. CASE d = c
        BY <2>1, <2>2, <2>3, <3>1
    <3>2. CASE d # c
        BY <1>5, <1>7, <2>4, <3>2
    <3> QED BY <3>1, <3>2
  <2> QED BY <1>3, <2>5
<1> QED BY <1>4, <1>6, <1>7, SnapshotSteps

\* The inductive invariant of the snapshots.
THEOREM SnapshotInvariant == Spec => []SnapshotInv
<1>1. Init => SnapshotInv
    BY InitStoreInv DEF Init, SnapshotInv, SegmentsHaveEdge, ListsHaveEdge,
                        SnapshotPlayable
<1>2. SnapshotInv /\ [Next]_vars => SnapshotInv'
    BY NextSnapshotInv
<1> QED BY <1>1, <1>2, PTL DEF Spec

\* Every snapshot the core may serve, fresh or stale, can be played, for every
\* window size and every order in which segments arrive, fail and repeat.
THEOREM SnapshotPlayableHolds == Spec => []SnapshotPlayable
<1>1. SnapshotInv => SnapshotPlayable
    BY DEF SnapshotInv
<1> QED BY <1>1, SnapshotInvariant, PTL

\* Between restarts no step takes a rendition from a snapshot or moves the last
\* sequence it lists back.
THEOREM SnapshotAdvancesHolds == Spec => SnapshotAdvances
<1> DEFINE Advances(c) ==
        /\ c \in DOMAIN snapshots'
        /\ \A r \in DOMAIN snapshots[c] :
              /\ r \in DOMAIN snapshots'[c]
              /\ Max(DOMAIN snapshots'[c][r].media)
                   >= Max(DOMAIN snapshots[c][r].media)
<1>1. SnapshotInv /\ [Next]_vars
        => [restarts' = restarts => \A c \in DOMAIN snapshots : Advances(c)]_vars
  <2> SUFFICES ASSUME SnapshotInv, [Next]_vars, restarts' = restarts,
                      NEW c \in DOMAIN snapshots
               PROVE  Advances(c)
      OBVIOUS
  <2>1. ASSUME NEW r \in DOMAIN snapshots[c]
        PROVE  /\ c \in Channels /\ r \in Renditions
               /\ <<c, r>> \in DOMAIN streams
               /\ Max(DOMAIN snapshots[c][r].media)
                     \in DOMAIN streams[<<c, r>>].segments
               /\ Max(DOMAIN snapshots[c][r].media) \in Nat
    <3> DEFINE last == Max(DOMAIN snapshots[c][r].media)
    <3>1. last \in DOMAIN snapshots[c][r].media
        BY DEF SnapshotInv, ListsHaveEdge, HasMax, Max
    <3>2. IsCommitted(<<<<c, r>>, last>>)
        BY <3>1 DEF SnapshotInv, SnapshotPlayable
    <3>3. <<c, r>> \in DOMAIN streams /\ last \in DOMAIN streams[<<c, r>>].segments
        BY <3>2 DEF IsCommitted
    <3> QED BY <3>3, OriginAssumption
            DEF SnapshotInv, StoreInv, TypeOK, IsRendition, Streams
  <2>2. ASSUME c \in DOMAIN snapshots', snapshots'[c] = snapshots[c]
        PROVE  Advances(c)
    <3> SUFFICES ASSUME NEW r \in DOMAIN snapshots[c]
                 PROVE  Max(DOMAIN snapshots'[c][r].media)
                          >= Max(DOMAIN snapshots[c][r].media)
        BY <2>2
    <3>1. Max(DOMAIN snapshots'[c][r].media) = Max(DOMAIN snapshots[c][r].media)
        BY <2>2
    <3>2. Max(DOMAIN snapshots[c][r].media) \in Nat
        BY <2>1
    <3> QED BY <3>1, <3>2
  <2>3. ASSUME Replaces(c)
        PROVE  Advances(c)
    <3> SUFFICES ASSUME NEW r \in DOMAIN snapshots[c]
                 PROVE  /\ r \in DOMAIN snapshots'[c]
                        /\ Max(DOMAIN snapshots'[c][r].media)
                             >= Max(DOMAIN snapshots[c][r].media)
        BY <2>3 DEF Replaces
    <3> DEFINE S == DOMAIN streams[<<c, r>>].segments
               snapshot == Regenerate(ChannelState(c))
    <3>1. /\ r \in DOMAIN snapshot
          /\ DOMAIN snapshot[r].media = Present(S)
          /\ S \in SUBSET Nat /\ HasMax(S)
        BY <2>1, <2>3, RegeneratedSnapshot DEF SnapshotInv, Replaces
    <3>2. /\ Max(Present(S)) = LiveEdge(S)
          /\ \A s \in S : s <= LiveEdge(S)
          /\ LiveEdge(S) \in Nat
        BY <3>1, EdgeIsPresent
    <3>3. snapshots'[c] = snapshot
        BY <2>3 DEF Replaces
    <3> QED BY <2>1, <3>1, <3>2, <3>3
  <2>4. ~Restart
      BY OriginAssumption DEF Restart, SnapshotInv, StoreInv, TypeOK
  <2>5. ASSUME NEW d \in Channels, Replaces(d), d # c
        PROVE  Advances(c)
      BY <2>2, <2>5 DEF Replaces
  <2> QED BY <2>2, <2>3, <2>4, <2>5, SnapshotSteps
<1> QED BY <1>1, SnapshotInvariant, PTL DEF Spec, SnapshotAdvances

\* Between restarts what a playlist listed is listed again under the same
\* extension, or is older than everything listed: for every window size and
\* every order in which segments arrive.
THEOREM ListedStaysHolds == Spec => ListedStays
<1> DEFINE Stays(c, r) ==
        LET before == snapshots[c][r].media
            after == snapshots'[c][r].media
        IN  \A s \in DOMAIN before :
                \/ s \in DOMAIN after /\ after[s] = before[s]
                \/ \A q \in DOMAIN after : s < q
           Step == restarts' = restarts =>
                      \A c \in DOMAIN snapshots \cap DOMAIN snapshots' :
                          \A r \in DOMAIN snapshots[c] \cap DOMAIN snapshots'[c] :
                              Stays(c, r)
<1>1. SnapshotInv /\ [Next]_vars => Step
  <2> SUFFICES ASSUME SnapshotInv, [Next]_vars, restarts' = restarts,
                      NEW c \in DOMAIN snapshots \cap DOMAIN snapshots',
                      NEW r \in DOMAIN snapshots[c] \cap DOMAIN snapshots'[c]
               PROVE  Stays(c, r)
      OBVIOUS
  <2>1. CASE snapshots'[c] = snapshots[c]
      BY <2>1
  <2>2. ASSUME c \in Channels, Replaces(c)
        PROVE  Stays(c, r)
    <3> DEFINE S == DOMAIN streams[<<c, r>>].segments
               snapshot == Regenerate(ChannelState(c))
    <3>1. snapshots'[c] = snapshot
        BY <2>2 DEF Replaces
    <3>2. /\ DOMAIN snapshot[r].media = Present(S)
          /\ S \in SUBSET Nat /\ HasMax(S)
          /\ \A s \in Present(S) :
                snapshot[r].media[s] = streams[<<c, r>>].segments[s].ext
        BY <2>2, <3>1, RegeneratedSnapshot DEF SnapshotInv, Replaces
    <3> SUFFICES ASSUME NEW s \in DOMAIN snapshots[c][r].media
                 PROVE  \/ /\ s \in Present(S)
                           /\ streams[<<c, r>>].segments[s].ext =
                                 snapshots[c][r].media[s]
                        \/ \A q \in Present(S) : s < q
        BY <3>1, <3>2
    <3>3. /\ IsCommitted(<<<<c, r>>, s>>)
          /\ Record(<<<<c, r>>, s>>).ext = snapshots[c][r].media[s]
        BY DEF SnapshotInv, SnapshotPlayable
    <3>4. /\ s \in S
          /\ streams[<<c, r>>].segments[s].ext = snapshots[c][r].media[s]
        BY <3>3 DEF IsCommitted, Record
    <3> QED BY <3>2, <3>4, UnlistedIsOlder
  <2>3. ~Restart
      BY OriginAssumption DEF Restart, SnapshotInv, StoreInv, TypeOK
  <2>4. ASSUME NEW d \in Channels, Replaces(d), d # c
        PROVE  snapshots'[c] = snapshots[c]
      BY <2>4 DEF Replaces
  <2> QED BY <2>1, <2>2, <2>3, <2>4, SnapshotSteps
<1> QED BY <1>1, SnapshotInvariant, PTL DEF Spec, ListedStays

-----------------------------------------------------------------------------
(* Complete files *)

\* Until the core restarts, a complete file belongs to a committed segment or
\* to the PUT that has just written it.
CompleteIsOwned ==
    restarts = 0 =>
        \A f \in Files : disk[f] \in Bytes =>
            \/ IsCommitted(f[1]) /\ Record(f[1]).ext = f[2]
            \/ writing # Idle /\ writing.file = f

\* What a step does to the files and to the PUT that is being written.
LEMMA WritingSteps ==
    ASSUME [Next]_vars
    PROVE  \/ disk' = disk /\ writing' = writing /\ ~Commit
           \/ Begins
           \/ FillFile
           \/ Commit
           \/ FailWrite
           \/ Restart
<1>1. ASSUME NEW r \in Streams, NEW metadata \in Metadata,
             RefuseMetadata(r, metadata)
      PROVE  disk' = disk /\ writing' = writing
    BY <1>1 DEF RefuseMetadata
<1>2. ASSUME NEW id \in Ids, NEW metadata \in Metadata,
             \/ StorageDown(id, metadata)
             \/ \E ext \in Exts, bytes \in Bytes : PutKnown(id, ext, bytes, metadata)
      PROVE  disk' = disk /\ writing' = writing
    BY <1>2 DEF StorageDown, PutKnown
<1>3. ASSUME NEW c \in Channels, NEW file, GetPlaylist(c, file)
      PROVE  disk' = disk /\ writing' = writing
    BY <1>3 DEF GetPlaylist
<1>4. ASSUME NEW file \in Pulled, GetSegment(file)
      PROVE  disk' = disk /\ writing' = writing
    BY <1>4 DEF GetSegment
<1>5. ASSUME UNCHANGED vars
      PROVE  disk' = disk /\ writing' = writing
    BY <1>5 DEF vars
<1> QED BY <1>1, <1>2, <1>3, <1>4, <1>5 DEF Next, Begins

LEMMA RestartsCounted ==
    ASSUME [Next]_vars
    PROVE  restarts' = restarts \/ Restart
<1>1. ASSUME NEW r \in Streams, NEW metadata \in Metadata,
             RefuseMetadata(r, metadata)
      PROVE  restarts' = restarts
    BY <1>1 DEF RefuseMetadata
<1>2. ASSUME NEW id \in Ids, NEW metadata \in Metadata,
             \/ StorageDown(id, metadata)
             \/ \E ext \in Exts, bytes \in Bytes :
                   \/ PutKnown(id, ext, bytes, metadata)
                   \/ BeginWrite(id, ext, bytes, metadata)
      PROVE  restarts' = restarts
    BY <1>2 DEF StorageDown, PutKnown, BeginWrite, Admit
<1>3. ASSUME FillFile \/ Commit \/ FailWrite
      PROVE  restarts' = restarts
    BY <1>3 DEF FillFile, Commit, FailWrite
<1>4. ASSUME NEW c \in Channels, NEW file, GetPlaylist(c, file)
      PROVE  restarts' = restarts
    BY <1>4 DEF GetPlaylist
<1>5. ASSUME NEW file \in Pulled, GetSegment(file)
      PROVE  restarts' = restarts
    BY <1>5 DEF GetSegment
<1>6. CASE UNCHANGED vars
    BY <1>6 DEF vars
<1> QED BY <1>1, <1>2, <1>3, <1>4, <1>5, <1>6 DEF Next

LEMMA NextCompleteIsOwned ==
    ASSUME StoreInv, CompleteIsOwned, [Next]_vars, restarts' = 0
    PROVE  /\ CompleteIsOwned'
           /\ \A f \in Files : disk[f] \in Bytes => disk'[f] = disk[f]
<1> USE DEF StoreInv
<1>0. restarts = 0 /\ ~Restart
  <2>1. ~Restart
      BY OriginAssumption DEF Restart, TypeOK
  <2> QED BY <2>1, RestartsCounted
<1>1. /\ disk \in [Files -> Bytes \cup {Torn, Missing}]
      /\ Torn \notin Bytes
      /\ \A f \in Files : f[1] \in Ids /\ f[2] \in Exts /\ f = <<f[1], f[2]>>
    BY OriginAssumption DEF TypeOK, Files
<1>k. KeepsCommits
    BY <1>0, StepKeeps
\* A complete file is owned as before when it is not the one being written.
<1>2. ASSUME NEW f \in Files, IsCommitted(f[1]), Record(f[1]).ext = f[2]
      PROVE  IsCommitted(f[1])' /\ Record(f[1])'.ext = f[2]
    BY <1>1, <1>2, <1>k DEF KeepsCommits
<1>3. ASSUME disk' = disk, writing' = writing
      PROVE  CompleteIsOwned'
    BY <1>0, <1>2, <1>3 DEF CompleteIsOwned
<1>4. CASE Begins
  <2> PICK id \in Ids, metadata \in Metadata, ext \in Exts, bytes \in Bytes :
          BeginWrite(id, ext, bytes, metadata)
      BY <1>4 DEF Begins
  <2>1. /\ ~IsCommitted(id) /\ writing = Idle
        /\ disk' = [disk EXCEPT ![<<id, ext>>] = Torn]
        /\ <<id, ext>> \in Files
      BY DEF BeginWrite, Admit, Files
  <2>2. disk[<<id, ext>>] \notin Bytes
      BY <1>0, <2>1 DEF CompleteIsOwned
  <2>3. \A f \in Files : disk'[f] \in Bytes => disk[f] \in Bytes
      BY <1>1, <2>1
  <2>4. \A f \in Files : disk[f] \in Bytes => disk'[f] = disk[f]
      BY <1>1, <2>1, <2>2
  <2>5. CompleteIsOwned'
      BY <1>0, <1>2, <2>1, <2>3 DEF CompleteIsOwned
  <2> QED BY <2>4, <2>5
<1>5. CASE FillFile
  <2>1. /\ writing # Idle /\ writing' = writing
        /\ disk[writing.file] = Torn
        /\ disk' = [disk EXCEPT ![writing.file] = writing.bytes]
        /\ writing.file \in Files
      BY <1>5 DEF FillFile, TypeOK
  <2>2. \A f \in Files : disk[f] \in Bytes => disk'[f] = disk[f]
      BY <1>1, <2>1
  <2>3. \A f \in Files : disk'[f] \in Bytes => disk[f] \in Bytes \/ f = writing.file
      BY <1>1, <2>1
  <2>4. CompleteIsOwned'
      BY <1>0, <1>2, <2>1, <2>3 DEF CompleteIsOwned
  <2> QED BY <2>2, <2>4
<1>6. CASE Commit
  <2>1. disk' = disk
      BY <1>6 DEF Commit
  <2>2. PICK id \in Ids, ext \in Exts, bytes \in Bytes :
           CommitsExactly(id, ext, bytes)
      BY <1>6, CommitEffect
  <2>3. CompleteIsOwned'
      BY <1>0, <1>1, <1>2, <2>1, <2>2 DEF CompleteIsOwned, CommitsExactly
  <2> QED BY <2>1, <2>3
<1>7. CASE FailWrite
  <2>1. disk' = disk /\ disk[writing.file] = Torn
      BY <1>7 DEF FailWrite
  <2>2. CompleteIsOwned'
      BY <1>0, <1>1, <1>2, <2>1 DEF CompleteIsOwned
  <2> QED BY <2>1, <2>2
<1> QED BY <1>0, <1>3, <1>4, <1>5, <1>6, <1>7, WritingSteps

\* Until the core restarts no complete file is written again, whatever is
\* repeated, refused or fails: the overwriting of stored segments needs a restart.
THEOREM KeptUntilRestartHolds == Spec => KeptUntilRestart
<1> DEFINE Inv == StoreInv /\ CompleteIsOwned
           Step == restarts' = 0 =>
                      \A f \in Files : disk[f] \in Bytes => disk'[f] = disk[f]
<1>1. Init => Inv
    BY InitStoreInv, OriginAssumption DEF Init, CompleteIsOwned
<1>2. Inv /\ [Next]_vars => Inv'
  <2> SUFFICES ASSUME StoreInv, CompleteIsOwned, [Next]_vars
               PROVE  CompleteIsOwned'
      BY NextStoreInv
  <2>1. CASE restarts' = 0
      BY <2>1, NextCompleteIsOwned
  <2> QED BY <2>1 DEF CompleteIsOwned
<1>3. Inv /\ [Next]_vars => Step
    BY NextCompleteIsOwned
<1> QED BY <1>1, <1>2, <1>3, PTL DEF Spec, KeptUntilRestart
=============================================================================
