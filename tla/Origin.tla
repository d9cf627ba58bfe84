------------------------------- MODULE Origin -------------------------------
(***************************************************************************)
(* The origin half of the core: segment ingest (core/ingest.rs), the       *)
(* canonical files (core/storage.rs) and the channel snapshots             *)
(* (core/manifest.rs), behind put_segment, get_segment and get_playlist of *)
(* core/http.rs.                                                           *)
(*                                                                         *)
(* put_segment writes the file while it holds the core mutex, so no other  *)
(* locked handler runs from BeginWrite to Commit or FailWrite.             *)
(* get_segment takes no lock: it may read a file in the middle of a write. *)
(* The process may stop at any step: the maps are lost, the files are not. *)
(***************************************************************************)
EXTENDS Manifest, Rendition, Sequences

CONSTANTS Channels, Renditions,
          Sequences,      \* sequence numbers a publisher uses
          Exts,           \* file extensions a publisher uses
          Bytes,          \* segment bodies
          Hash,           \* hash_bytes; unequal bodies may share a hash
          Torn, Missing,  \* a file cut short, and no file at all
          Master,         \* the file name master.m3u8
          Pulled,         \* the files that nodes ask for
          MaxRestarts,    \* bound on the restarts of the core
          MaxFaults       \* bound on the file operations that fail

Streams == Channels \X Renditions

Ids == Streams \X Sequences       \* SegmentId: channel and rendition, sequence

Files == Ids \X Exts              \* root/channel/rendition/sequence.ext

Hashes == {Hash[b] : b \in Bytes}

ASSUME OriginAssumption ==
    /\ Sequences \subseteq Nat
    /\ DOMAIN Hash = Bytes
    /\ Torn \notin Bytes
    /\ Missing \notin Bytes \cup {Torn}
    /\ Pulled \subseteq Files
    /\ MaxRestarts \in Nat
    /\ MaxFaults \in Nat

VARIABLES streams,     \* CoreInner::channels, an entry per known rendition
          snapshots,   \* CoreInner::snapshots
          disk,        \* the canonical files
          writing,     \* the PUT inside fs::write, holding the mutex
          reply,       \* the response of the last step, if it gave one
          accepted,    \* history: what was answered 200 or 201, and by which
                       \* process: its number is "restarts"
          restarts,    \* how often the core has restarted
          faults       \* how many file operations have failed

vars == <<streams, snapshots, disk, writing, reply, accepted, restarts, faults>>

SegmentRecord == [ext : Exts, hash : Hashes]

\* RenditionState: "segments" is a map from the committed sequences.
IsRendition(state) ==
    /\ state = [metadata |-> state.metadata, segments |-> state.segments,
                commits |-> state.commits]
    /\ state.metadata \in Metadata
    /\ DOMAIN state.segments \subseteq Sequences
    /\ state.segments \in [DOMAIN state.segments -> SegmentRecord]
    /\ state.commits \in Seq(Sequences)

\* Wrong on purpose: the bandwidth the master playlist falls back to is stored.
NewRendition_Defaulted ==
    [metadata |-> [NoMetadata EXCEPT !.bandwidth = 1],
     segments |-> <<>>, commits |-> <<>>]

NewRendition == [metadata |-> NoMetadata, segments |-> <<>>, commits |-> <<>>]

\* No PUT is inside fs::write: the mutex is free.
Idle == [kind |-> "idle"]

NoReply == [kind |-> "none"]

TypeOK ==
    /\ DOMAIN streams \subseteq Streams
    /\ \A r \in DOMAIN streams : IsRendition(streams[r])
    /\ DOMAIN snapshots \subseteq Channels
    /\ disk \in [Files -> Bytes \cup {Torn, Missing}]
    /\ writing \in {Idle} \cup [kind : {"writing"}, file : Files, bytes : Bytes]
    /\ accepted \in [Ids -> SUBSET (Exts \X Bytes \X (0..MaxRestarts))]
    /\ restarts \in 0..MaxRestarts
    /\ faults \in 0..MaxFaults

Init ==
    /\ streams = <<>>
    /\ snapshots = <<>>
    /\ disk = [f \in Files |-> Missing]
    /\ writing = Idle
    /\ reply = NoReply
    /\ accepted = [id \in Ids |-> {}]
    /\ restarts = 0
    /\ faults = 0

-----------------------------------------------------------------------------
(* Views of the state *)

\* ChannelState: the known renditions of a channel.
ChannelState(c) ==
    [r \in {q \in Renditions : <<c, q>> \in DOMAIN streams} |-> streams[<<c, r>>]]

KnownChannels == {r[1] : r \in DOMAIN streams}

\* entry(..).or_default()
Stream(r) == IF r \in DOMAIN streams THEN streams[r] ELSE NewRendition

IsCommitted(id) ==
    id[1] \in DOMAIN streams /\ id[2] \in DOMAIN streams[id[1]].segments

Record(id) == streams[id[1]].segments[id[2]]

\* The rendition exists afterwards, with the merged metadata, whatever becomes
\* of the segment.
Touched(r, metadata) ==
    [q \in DOMAIN streams \cup {r} |->
        IF q # r THEN streams[q]
        ELSE [Stream(r) EXCEPT !.metadata = Merge(@, metadata)]]

Answer(status) == [kind |-> "put", status |-> status]

-----------------------------------------------------------------------------
(* put_segment *)

\* The metadata conflicts: 409, before anything is looked at or changed.
RefuseMetadata(r, metadata) ==
    /\ writing = Idle
    /\ ConflictsWith(Stream(r).metadata, metadata)
    /\ reply' = Answer(409)
    /\ UNCHANGED <<streams, snapshots, disk, writing, accepted, restarts, faults>>

\* The metadata is merged from here on.
Admit(r, metadata) ==
    /\ writing = Idle
    /\ ~ConflictsWith(Stream(r).metadata, metadata)
    /\ streams' = Touched(r, metadata)
    /\ UNCHANGED <<snapshots, restarts>>

\* Wrong on purpose: the extension is not compared.
SameSegment_HashOnly(record, ext, bytes) == record.hash = Hash[bytes]

SameSegment(record, ext, bytes) ==
    record.hash = Hash[bytes] /\ record.ext = ext

\* The id is committed: the repetition is 200 or 409, and no file is touched.
PutKnown(id, ext, bytes, metadata) ==
    /\ IsCommitted(id)
    /\ Admit(id[1], metadata)
    /\ \/ /\ SameSegment(Record(id), ext, bytes)
          /\ reply' = Answer(200)
          /\ accepted' = [accepted EXCEPT ![id] = @ \cup {<<ext, bytes, restarts>>}]
       \/ /\ ~SameSegment(Record(id), ext, bytes)
          /\ reply' = Answer(409)
          /\ UNCHANGED accepted
    /\ UNCHANGED <<disk, writing, faults>>

\* create_dir_all or the opening of the file fails: 500.
StorageDown(id, metadata) ==
    /\ ~IsCommitted(id)
    /\ faults < MaxFaults
    /\ Admit(id[1], metadata)
    /\ faults' = faults + 1
    /\ reply' = Answer(500)
    /\ UNCHANGED <<disk, writing, accepted>>

\* Wrong on purpose: the committed segment is not looked up first.
BeginWrite_Unchecked(id, ext, bytes, metadata) ==
    /\ Admit(id[1], metadata)
    /\ disk' = [disk EXCEPT ![<<id, ext>>] = Torn]
    /\ writing' = [kind |-> "writing", file |-> <<id, ext>>, bytes |-> bytes]
    /\ reply' = NoReply
    /\ UNCHANGED <<accepted, faults>>

\* fs::write opens the file and truncates it.
BeginWrite(id, ext, bytes, metadata) ==
    /\ ~IsCommitted(id)
    /\ Admit(id[1], metadata)
    /\ disk' = [disk EXCEPT ![<<id, ext>>] = Torn]
    /\ writing' = [kind |-> "writing", file |-> <<id, ext>>, bytes |-> bytes]
    /\ reply' = NoReply
    /\ UNCHANGED <<accepted, faults>>

\* The last byte reaches the file; the mutex is still held.
FillFile ==
    /\ writing # Idle
    /\ disk[writing.file] = Torn
    /\ disk' = [disk EXCEPT ![writing.file] = writing.bytes]
    /\ reply' = NoReply
    /\ UNCHANGED <<streams, snapshots, writing, accepted, restarts, faults>>

\* Wrong on purpose: what is outside the window of the ARRIVING segment is
\* pruned, as if it were always the newest.
Committed_PrunesByArrival(state, s, record) ==
    [state EXCEPT
        !.segments = [q \in (DOMAIN state.segments \cap LiveRange(s)) \cup {s} |->
                         IF q = s THEN record ELSE state.segments[q]],
        !.commits = Append(state.commits, s)]

Committed(state, s, record) ==
    [state EXCEPT
        !.segments = [q \in DOMAIN state.segments \cup {s} |->
                         IF q = s THEN record ELSE state.segments[q]],
        !.commits = Append(state.commits, s)]

\* fs::write returned: record the segment, log the commit, answer 201.
Commit ==
    /\ writing # Idle
    /\ disk[writing.file] # Torn
    /\ LET id == writing.file[1]
           ext == writing.file[2]
           record == [ext |-> ext, hash |-> Hash[writing.bytes]]
       IN  /\ streams' = [streams EXCEPT
                ![id[1]] = Committed(streams[id[1]], id[2], record)]
           /\ accepted' = [accepted EXCEPT
                ![id] = @ \cup {<<ext, writing.bytes, restarts>>}]
    /\ writing' = Idle
    /\ reply' = Answer(201)
    /\ UNCHANGED <<snapshots, disk, restarts, faults>>

\* fs::write fails on the way: 500, and the cut file stays.
FailWrite ==
    /\ writing # Idle
    /\ disk[writing.file] = Torn
    /\ faults < MaxFaults
    /\ faults' = faults + 1
    /\ writing' = Idle
    /\ reply' = Answer(500)
    /\ UNCHANGED <<streams, snapshots, disk, accepted, restarts>>

-----------------------------------------------------------------------------
(* get_playlist *)

\* What the stored snapshots answer to a request for a file of the channel.  A
\* rendition that is named like the master playlist is never reached.
Served(c, file) ==
    CASE c \notin KnownChannels -> "not found"
      [] c \in KnownChannels \ DOMAIN snapshots -> "unprocessable"
      [] c \in DOMAIN snapshots /\ file = Master -> "master"
      [] c \in DOMAIN snapshots /\ file # Master ->
            IF file \in DOMAIN snapshots[c] THEN "media" ELSE "not found"

\* Wrong on purpose: a failed regeneration drops the stored snapshot.
GetPlaylist_NoFallback(c, file) ==
    /\ writing = Idle
    /\ snapshots' =
          [d \in {e \in DOMAIN snapshots \cup ({c} \cap KnownChannels) :
                    e # c \/ Regenerable(ChannelState(c))} |->
              IF d = c THEN Regenerate(ChannelState(c)) ELSE snapshots[d]]
    /\ UNCHANGED <<streams, disk, writing, accepted, restarts, faults>>
    /\ reply' = [kind |-> Served(c, file)', channel |-> c]

\* get_playlist once a node is chosen: refresh_snapshot replaces the stored
\* snapshot if the channel is valid now and leaves it alone otherwise.
GetPlaylist(c, file) ==
    /\ writing = Idle
    /\ \/ /\ c \in KnownChannels
          /\ Regenerable(ChannelState(c))
          /\ snapshots' = [d \in DOMAIN snapshots \cup {c} |->
                IF d = c THEN Regenerate(ChannelState(c)) ELSE snapshots[d]]
       \/ /\ c \in KnownChannels => ~Regenerable(ChannelState(c))
          /\ UNCHANGED snapshots
    /\ UNCHANGED <<streams, disk, writing, accepted, restarts, faults>>
    /\ reply' = [kind |-> Served(c, file)', channel |-> c]

-----------------------------------------------------------------------------
(* get_segment *)

\* read_segment, at any moment: neither the mutex nor the maps are looked at.
GetSegment(file) ==
    /\ \/ disk[file] # Missing
          /\ reply' = [kind |-> "segment", file |-> file, bytes |-> disk[file]]
       \/ disk[file] = Missing
          /\ reply' = [kind |-> "no segment", file |-> file]
    /\ UNCHANGED <<streams, snapshots, disk, writing, accepted, restarts, faults>>

-----------------------------------------------------------------------------
(* The process stops, at any step, and starts again on the same directory. *)

Restart ==
    /\ restarts < MaxRestarts
    /\ restarts' = restarts + 1
    /\ streams' = <<>>
    /\ snapshots' = <<>>
    /\ writing' = Idle
    /\ reply' = NoReply
    /\ UNCHANGED <<disk, accepted, faults>>

Next ==
    \/ \E r \in Streams, metadata \in Metadata : RefuseMetadata(r, metadata)
    \/ \E id \in Ids, metadata \in Metadata :
        \/ StorageDown(id, metadata)
        \/ \E ext \in Exts, bytes \in Bytes :
              \/ PutKnown(id, ext, bytes, metadata)
              \/ BeginWrite(id, ext, bytes, metadata)
    \/ FillFile
    \/ Commit
    \/ FailWrite
    \/ \E c \in Channels, file \in Renditions \cup {Master} :
          GetPlaylist(c, file)
    \/ \E file \in Pulled : GetSegment(file)
    \/ Restart

Spec == Init /\ [][Next]_vars

-----------------------------------------------------------------------------
(* Properties *)

\* What a publisher was told is stored stays stored while the process runs, up
\* to the hash: an id answered 200 or 201 is committed under that extension and
\* hash, and its file holds, complete, a body of that hash.  Two PUTs of one id
\* with bodies that the hash tells apart are never both accepted.  Bodies of one
\* hash are: docs/api.md:54-56 and ingest.rs:65 promise this of the bytes.
AcknowledgedIsStored ==
    \A id \in Ids : \A put \in accepted[id] :
        put[3] = restarts =>
            /\ IsCommitted(id)
            /\ Record(id) = [ext |-> put[1], hash |-> Hash[put[2]]]
            /\ disk[<<id, put[1]>>] \in Bytes
            /\ Hash[disk[<<id, put[1]>>]] = Hash[put[2]]

\* What a node is told to fetch it fetches whole, although the file is read
\* without the mutex: the bytes of a committed segment are complete and of the
\* hash on record, whatever PUT is being written.
CommittedReadWhole ==
    reply.kind = "segment" =>
        LET id == reply.file[1]
        IN  IsCommitted(id) /\ Record(id).ext = reply.file[2] =>
                /\ reply.bytes \in Bytes
                /\ Hash[reply.bytes] = Record(id).hash

\* The commit log of a rendition names every committed sequence exactly once,
\* through repeated, refused and failed PUTs.
CommitLogExact ==
    \A r \in DOMAIN streams :
        LET log == streams[r].commits
        IN  /\ {log[i] : i \in DOMAIN log} = DOMAIN streams[r].segments
            /\ \A i, j \in DOMAIN log : log[i] = log[j] => i = j

\* FR-041: a metadata field, once established, keeps its value as long as the
\* process runs.
MetadataSticks ==
    [][\A r \in DOMAIN streams \cap DOMAIN streams' :
          /\ streams[r].metadata.bandwidth
                \in {Absent, streams'[r].metadata.bandwidth}
          /\ streams[r].metadata.resolution
                \in {Absent, streams'[r].metadata.resolution}]_vars

\* The committed files are a write-once store that a restart empties.
Nothing == <<>>

Store ==
    INSTANCE SegmentStore
        WITH Contents <- Exts \X Bytes,
             store <- [id \in Ids |->
                 IF IsCommitted(id)
                 THEN <<Record(id).ext, disk[<<id, Record(id).ext>>]>>
                 ELSE Nothing]

ImplementsStore == Store!StoreSpec

\* Whatever snapshot is served, fresh or stale, can be played: every rendition
\* lists the same gap-free run of at most a window of sequences, each of them
\* committed under the listed extension with its complete file on disk.
SnapshotPlayable ==
    \A c \in DOMAIN snapshots : \A r \in DOMAIN snapshots[c] :
        LET media == snapshots[c][r].media
        IN  /\ DOMAIN media # {}
            /\ NoGap(DOMAIN media)
            /\ Cardinality(DOMAIN media) <= WindowSize
            /\ \A q \in DOMAIN snapshots[c] :
                  DOMAIN snapshots[c][q].media = DOMAIN media
            /\ \A s \in DOMAIN media :
                  LET id == <<<<c, r>>, s>>
                  IN  /\ IsCommitted(id)
                      /\ Record(id).ext = media[s]
                      /\ disk[<<id, media[s]>>] \in Bytes

\* A client that reloads never loses a rendition or the newest segments it has
\* seen: the last sequence listed never goes back while the process runs.
SnapshotAdvances ==
    [][restarts' = restarts =>
          \A c \in DOMAIN snapshots :
              /\ c \in DOMAIN snapshots'
              /\ \A r \in DOMAIN snapshots[c] :
                    /\ r \in DOMAIN snapshots'[c]
                    /\ Max(DOMAIN snapshots'[c][r].media)
                         >= Max(DOMAIN snapshots[c][r].media)]_vars

\* A client that reloads finds what it knew: whatever a playlist listed, later
\* playlists list under the same sequence and extension, until it has fallen out
\* at the old end.  A late segment may come in at the old end; none ever
\* disappears from the middle or is exchanged.
ListedStays ==
    [][restarts' = restarts =>
          \A c \in DOMAIN snapshots \cap DOMAIN snapshots' :
              \A r \in DOMAIN snapshots[c] \cap DOMAIN snapshots'[c] :
                  LET before == snapshots[c][r].media
                      after == snapshots'[c][r].media
                  IN  \A s \in DOMAIN before :
                          \/ s \in DOMAIN after /\ after[s] = before[s]
                          \/ \A q \in DOMAIN after : s < q]_vars

\* docs/api.md:56, as far as the code keeps it: until the core restarts, a file
\* that is complete is never written again, be it committed or about to be.
KeptUntilRestart ==
    [][restarts' = 0 =>
          \A f \in Files : disk[f] \in Bytes => disk'[f] = disk[f]]_vars

-----------------------------------------------------------------------------
(* Claims of the documents that the code does not keep *)

\* docs/api.md:56 and ingest.rs:65: a PUT of other bytes under an id that is
\* stored is refused, so all the PUTs of an id that are answered 200 or 201 had
\* the same body.
OneBodyPerId ==
    \A id \in Ids : \A put, other \in accepted[id] : put[2] = other[2]
=============================================================================
