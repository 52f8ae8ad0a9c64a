------------------------------- MODULE Mp4Muxer -------------------------------
(***************************************************************************)
(* Mp4Muxer: the frames from one key frame to the next become one file,    *)
(* the data first and the sample tables of both tracks behind it.  Frames  *)
(* of one track that follow one another form a chunk of at most k1M bytes. *)
(*                                                                         *)
(* mp4_mdat_, bytes in the code, is the sequence of the frames whose bytes *)
(* it holds.  A file is written to memory and freed: only a compiled-out   *)
(* dump would keep it.                                                     *)
(***************************************************************************)
EXTENDS Mp4Boxes

CONSTANTS
  k1M,          \* bytes in a chunk
  Preamble,     \* bytes of the file in front of the data
  Stale         \* what a member holds that no constructor has set: any value

ASSUME PreambleAssumption == Preamble \in Nat

VARIABLES
  chunk_,             \* the chunks of the file to be, both tracks'
  chunk_offset_,      \* where the last of them starts in the data
  track_offset_,      \* video_chunk_offset_, audio_chunk_offset_
  mp4_header_,        \* video_header_, audio_header_
  mp4_samples_,       \* video_samples_, audio_samples_
  mp4_mdat_,
  began,              \* Reset has run since the muxer was made
  file                \* what the last Flush wrote

mp4Vars == <<chunk_, chunk_offset_, track_offset_, mp4_header_, mp4_samples_, mp4_mdat_,
             began, file>>

NoHeader == [t \in Tracks |-> 0]
NoSamples == [t \in Tracks |-> <<>>]

NoFile == [data |-> <<>>, movie |-> <<>>, began |-> FALSE]

\* The constructor does not set chunk_offset_.
Mp4Init ==
  /\ chunk_ = <<>> /\ mp4_mdat_ = <<>>
  /\ chunk_offset_ = Stale
  /\ track_offset_ = NoSamples /\ mp4_samples_ = NoSamples
  /\ mp4_header_ = NoHeader
  /\ began = FALSE /\ file = NoFile

\* The muxer of a new publisher.
Mp4New ==
  /\ chunk_' = <<>> /\ mp4_mdat_' = <<>>
  /\ chunk_offset_' = Stale
  /\ track_offset_' = NoSamples /\ mp4_samples_' = NoSamples
  /\ mp4_header_' = NoHeader
  /\ began' = FALSE /\ file' = NoFile

-----------------------------------------------------------------------------
(* Chunks.                                                                 *)

LastChunk == Last(chunk_)

Fits(t, len) ==
  chunk_ # <<>> /\ LastChunk.track = t /\ LastChunk.size + len <= k1M

\* The chunk that ends has its offset noted.
Noted == IF chunk_ = <<>> THEN track_offset_
         ELSE [track_offset_ EXCEPT ![LastChunk.track] = Append(@, chunk_offset_)]

NewChunk(t, len) == [track |-> t, size |-> len, count |-> 1]

CalChunk(t, len) ==
  IF Fits(t, len)
  THEN /\ chunk_' = [chunk_ EXCEPT ![Len(chunk_)].size = @ + len,
                                   ![Len(chunk_)].count = @ + 1]
       /\ UNCHANGED <<chunk_offset_, track_offset_>>
  ELSE /\ chunk_' = Append(chunk_, NewChunk(t, len))
       /\ track_offset_' = Noted
       /\ chunk_offset_' = IF chunk_ = <<>> THEN chunk_offset_
                           ELSE chunk_offset_ + LastChunk.size

-----------------------------------------------------------------------------
(* The boxes of a file.                                                    *)

ChunksOf(t) ==
  LET tmp[n \in 0 .. Len(chunk_)] ==
        IF n = 0 THEN <<>>
        ELSE IF chunk_[n].track = t THEN Append(tmp[n - 1], chunk_[n]) ELSE tmp[n - 1]
  IN  tmp[Len(chunk_)]

\* stsc: a chunk with as many samples as the one before has no entry.
SlipSampleToChunk(t) ==              \* compares with the first chunk
  LET tmp == ChunksOf(t)
      new == {i \in 1 .. Len(tmp) : i = 1 \/ tmp[i].count # tmp[1].count}
  IN  [i \in new |-> tmp[i].count]
SampleToChunk(t) ==
  LET tmp == ChunksOf(t)
      new == {i \in 1 .. Len(tmp) : i = 1 \/ tmp[i].count # tmp[i - 1].count}
  IN  [i \in new |-> tmp[i].count]

\* stsz
SampleSize(t) == [i \in 1 .. Len(mp4_samples_[t]) |-> Size(mp4_samples_[t][i])]

\* stco: media_offset_ is where WriteMediaDataBox has put the data.
ChunkOffset(t) == [i \in 1 .. Len(Noted[t]) |-> Noted[t][i] + Preamble]

SampleTables(t) ==
  [stsc |-> SampleToChunk(t), stsz |-> SampleSize(t), stco |-> ChunkOffset(t),
   samples |-> mp4_samples_[t]]

TrackBox(t) ==
  [trak |-> Track(FALSE, t, mp4_samples_[t], mp4_header_[t]), stbl |-> SampleTables(t)]

MovieBox ==
  [mvhd |-> MovieHeader(FALSE, mp4_samples_), tracks |-> [t \in Tracks |-> TrackBox(t)]]

\* Flush; the last chunk's offset has just been noted.
WriteFile ==
  file' = IF mp4_samples_ = NoSamples THEN file
          ELSE [data |-> mp4_mdat_, movie |-> MovieBox, began |-> began]

-----------------------------------------------------------------------------
(* The handlers.                                                           *)

Mp4OnAudio(f) ==
  /\ mp4_samples_' = [mp4_samples_ EXCEPT !["audio"] = Append(@, f)]
  /\ mp4_mdat_' = Append(mp4_mdat_, f)
  /\ CalChunk("audio", Size(f))
  /\ UNCHANGED <<mp4_header_, began, file>>

\* Flush, Reset, and the key frame as the first of the next file.
NextFile(f) ==
  /\ WriteFile
  /\ chunk_' = <<NewChunk("video", Size(f))>>
  /\ chunk_offset_' = 0
  /\ track_offset_' = NoSamples
  /\ mp4_samples_' = [NoSamples EXCEPT !["video"] = <<f>>]
  /\ mp4_mdat_' = <<f>>
  /\ began' = TRUE
  /\ UNCHANGED mp4_header_

Mp4OnVideo(f) ==
  IF f.key THEN NextFile(f)
  ELSE /\ mp4_samples_' = [mp4_samples_ EXCEPT !["video"] = Append(@, f)]
       /\ mp4_mdat_' = Append(mp4_mdat_, f)
       /\ CalChunk("video", Size(f))
       /\ UNCHANGED <<mp4_header_, began, file>>

Mp4OnHeader(t, h) ==
  /\ mp4_header_' = [mp4_header_ EXCEPT ![t] = h]
  /\ UNCHANGED <<chunk_, chunk_offset_, track_offset_, mp4_samples_, mp4_mdat_, began, file>>

-----------------------------------------------------------------------------
(* How a reader of the file finds a sample (ISO 14496-12).                 *)

\* Samples in chunk k: what the last entry up to it says.
PerChunk(table, k) ==
  LET entries == {i \in DOMAIN table.stsc : i <= k}
  IN  table.stsc[CHOOSE i \in entries : \A j \in entries : j <= i]

FirstSample(table, k) == 1 + Total([j \in 1 .. k - 1 |-> PerChunk(table, j)])

Found(table, k, i) ==
  table.stco[k] + Total(SubSeq(table.stsz, FirstSample(table, k), i - 1))

\* Where the data of frame f is in the file.
Where(data, f) ==
  LET i == CHOOSE i \in DOMAIN data : data[i] = f
  IN  Preamble + SizeOf(SubSeq(data, 1, i - 1))

Addressable(data, table) ==
  /\ FirstSample(table, Len(table.stco) + 1) = Len(table.samples) + 1
  /\ \A k \in DOMAIN table.stco :
       \A i \in FirstSample(table, k) .. FirstSample(table, k + 1) - 1 :
         Found(table, k, i) = Where(data, table.samples[i])
=============================================================================
