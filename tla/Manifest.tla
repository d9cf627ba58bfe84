------------------------------ MODULE Manifest ------------------------------
(***************************************************************************)
(* core/manifest.rs and the window side of core/ingest.rs as pure          *)
(* operators.  The committed segments of a rendition are a function from   *)
(* sequence numbers to records with an "ext" field; a media playlist is    *)
(* the function from the listed sequence numbers to their extensions, so   *)
(* that #EXT-X-MEDIA-SEQUENCE is the least element of its domain.          *)
(***************************************************************************)
EXTENDS Window, FiniteSetsExt

LiveEdge(committed) == Max(committed)

\* The committed sequences inside the live window: what a node must hold and
\* what a media playlist lists.  Nothing at all when nothing is committed.
Present(committed) ==
    {s \in committed : s \in LiveRange(LiveEdge(committed))}

\* required_segments: the union over the streams, keyed <<stream, sequence>>.
Required(committed) ==
    UNION {{<<r, s>> : s \in Present(committed[r])} : r \in DOMAIN committed}

NoGap(present) == \A s \in Min(present)..Max(present) : s \in present

\* Wrong on purpose: the gap check is missing.
ValidMedia_AllowsGaps(segments) == DOMAIN segments # {}

\* generate_media_playlist succeeds.
ValidMedia(segments) ==
    /\ DOMAIN segments # {}
    /\ NoGap(Present(DOMAIN segments))

MediaPlaylist(segments) ==
    [s \in Present(DOMAIN segments) |-> segments[s].ext]

LiveSpan(segments) ==
    <<Min(Present(DOMAIN segments)), Max(Present(DOMAIN segments))>>

\* regenerate succeeds: "channel" maps each rendition to its state.
Regenerable(channel) ==
    /\ DOMAIN channel # {}
    /\ \A r \in DOMAIN channel : ValidMedia(channel[r].segments)
    /\ \A q, r \in DOMAIN channel :
          LiveSpan(channel[q].segments) = LiveSpan(channel[r].segments)

\* The ChannelSnapshot: the master entry and the media playlist per rendition.
Regenerate(channel) ==
    [r \in DOMAIN channel |-> [metadata |-> channel[r].metadata,
                               media |-> MediaPlaylist(channel[r].segments)]]
=============================================================================
