------------------------------ MODULE TsReader ------------------------------
(***************************************************************************)
(* TsReader (src/src/ts_reader.cpp): from the packets of a transport       *)
(* stream that an SRT publisher sends to calls of the frame and header     *)
(* callbacks.  The payloads of a PID are collected in pes_[pid] and parsed *)
(* when the next payload unit of that PID starts; continuity counters and  *)
(* lengths of PES packets are not looked at.                               *)
(*                                                                         *)
(* The publisher multiplexes units (access units, or groups of ADTS        *)
(* frames) of two PIDs, and tables.  A unit is cut into pieces, one a      *)
(* packet; its shape says what each piece starts with: a NAL, an ADTS      *)
(* frame, or nothing ("rest").  Packets travel several in an SRT message,  *)
(* and a message that is late is lost.  ParseTs runs over a message        *)
(* without interruption; a step here is one of its packets.                *)
(***************************************************************************)
EXTENDS Naturals, Sequences, FiniteSets

CONSTANTS
  Video, Audio,       \* the two elementary PIDs
  Pat, Pmt,           \* the PIDs of the tables
  VideoShapes,        \* codec -> shapes of units
  AudioShapes,
  First,              \* time stamp of unit 0, in place of some 90 kHz value
  Wrap,               \* 2^30: bits 32..30 of a time stamp count these
  NoStamp,            \* a header has no time stamp
  MaxUnits,           \* bound: units per PID
  MaxPackets,         \* bound: packets sent
  PerMessage          \* bound: packets in a message (7 in a live stream)

Elementary == {Video, Audio}
Tables     == {Pat, Pmt}
Pids       == Elementary \cup Tables

ASSUME PidsAssumption ==
  Video # Audio /\ Pat # Pmt /\ Elementary \cap Tables = {}
ASSUME BoundsAssumption ==
  /\ First \in Nat /\ Wrap \in Nat /\ Wrap % 2 = 0 /\ Wrap > 0
  /\ MaxUnits \in Nat /\ MaxPackets \in Nat /\ PerMessage \in Nat \ {0}

Codecs        == {"h264", "h265"}
ParameterSets == {"vps", "sps", "pps"}

\* A key picture starts with its parameter sets, a PPS the last of two or more.
KeyPicture(shape) ==
  /\ shape[1] \in ParameterSets
  /\ \E m \in 2..Len(shape) :
       /\ shape[m] = "pps"
       /\ \A n \in DOMAIN shape : /\ shape[n] \in ParameterSets => n <= m
                                  /\ shape[n] = "idr" => m < n

ASSUME ShapesAssumption ==
  /\ \A c \in Codecs : \A shape \in VideoShapes[c] :
       /\ shape \in Seq(ParameterSets \cup {"idr", "slice", "other", "rest"}) \ {<< >>}
       /\ (\E n \in DOMAIN shape : shape[n] = "idr") => KeyPicture(shape)
  /\ AudioShapes \subseteq Seq({"adts", "rest"}) \ {<< >>}

VARIABLES
  pmt_known,          \* pmt_pid_ is the PID of the PMT
  video_stream_type_, \* codec; memory that was never written until a PMT
  pes_,               \* PID -> pieces collected
  calls,              \* calls of header_callback_ and frame_callback_
  message,            \* packets of the message ParseTs is running over
  codec,              \* of the publisher's video
  described,          \* the PMT has descriptors of its program
  pending,            \* PID -> pieces of the current unit not sent yet
  units,              \* PID -> units started
  sent,               \* packets sent
  outgoing,           \* packets of the message being filled
  heard,              \* PID -> pieces the reader was given, in order
  announced           \* video units that started when the codec was known

reader  == <<pmt_known, video_stream_type_, pes_, calls>>
sender  == <<codec, described, pending, units, sent, outgoing>>
history == <<heard, announced>>
vars    == <<reader, message, sender, history>>

Shapes(pid) ==
  CASE pid = Video -> VideoShapes[codec] [] pid = Audio -> AudioShapes [] OTHER -> {}

Init ==
  /\ pmt_known = FALSE
  /\ video_stream_type_ \in Codecs \cup {"other"}
  /\ pes_ = [p \in Pids |-> << >>]
  /\ calls = << >>
  /\ message = << >>
  /\ codec \in Codecs
  /\ described \in BOOLEAN
  /\ pending = [p \in Elementary |-> << >>]
  /\ units = [p \in Elementary |-> 0]
  /\ sent = 0
  /\ outgoing = << >>
  /\ heard = [p \in Pids |-> << >>]
  /\ announced = {}

Kind(piece) == piece.shape[piece.n]
Starts(piece) == piece.n = 1

-----------------------------------------------------------------------------
(* Time stamps.  The three parts are put together by << 29 and |, so bits   *)
(* 32..30 land one too low.                                                *)

\* The operators named Slip... are slips of the definition after them, used
\* to test that the properties notice: no specification here uses them.
SlipReadStamp(t) ==                                         \* 14 bits for 29..15
  ((t \div Wrap) * (Wrap \div 2)) + (t % (Wrap \div 2))

ReadStamp(t) ==
  LET half   == Wrap \div 2
      high   == t \div Wrap
      low    == t % Wrap
      shared == IF high % 2 = 1 \/ low >= half THEN half ELSE 0
  IN  ((high \div 2) * Wrap) + shared + (low % half)

StampOf(unit) == First + unit

-----------------------------------------------------------------------------
(* OnH264Video, OnH265Video: NALs in order.  Slices are frames; parameter  *)
(* sets gather in header, announced at every PPS that is not the first.    *)

\* What is between the start code at i and the next one.
Nal(pes, i) ==
  {pes[j] : j \in {j \in i..Len(pes) : \A k \in (i + 1)..j : Kind(pes[k]) = "rest"}}

Call(what, pid, stamp, pieces) ==
  [what |-> what, pid |-> pid, stamp |-> stamp, pieces |-> pieces]

\* A call whose contents come from misread bytes.
Junk == Call("junk", NoStamp, NoStamp, {})

IsFrame(pes, i)  == Kind(pes[i]) \in {"idr", "slice"}
IsHeader(pes, i) == Kind(pes[i]) \in ParameterSets

HeaderComplete(pes, i) ==
  Kind(pes[i]) = "pps" /\ \E j \in 1..(i - 1) : IsHeader(pes, j)

SlipHeader(pes, i) ==                           \* announced before the append
  {pes[j] : j \in {j \in 1..(i - 1) : IsHeader(pes, j)}}

Header(pes, i) == {pes[j] : j \in {j \in 1..i : IsHeader(pes, j)}}

\* The elements of a set of numbers in their order: one sequence.
InOrder(S) ==
  {at \in [1..Cardinality(S) -> S] : \A j, k \in 1..Cardinality(S) : j < k => at[j] < at[k]}

Dispatched(pes, stamp) ==
  LET places == {i \in DOMAIN pes : IsFrame(pes, i) \/ HeaderComplete(pes, i)}
  IN  {[k \in DOMAIN at |->
          IF IsFrame(pes, at[k])
          THEN Call("frame", Video, stamp, Nal(pes, at[k]))
          ELSE Call("header", Video, NoStamp, Header(pes, at[k]))] : at \in InOrder(places)}

\* What either makes of the other's NALs is anybody's guess.
OnH264Video(pes, stamp) ==
  IF codec = "h264" THEN Dispatched(pes, stamp) ELSE {<< >>, <<Junk>>}

\* Of the slices that are not random access points only type 1, TRAIL_R, is
\* passed on; the shapes call the others "other".
OnH265Video(pes, stamp) ==
  IF codec = "h265" THEN Dispatched(pes, stamp) ELSE {<< >>, <<Junk>>}

OnVideo(pes, stamp) ==
  CASE video_stream_type_ = "h264"  -> OnH264Video(pes, stamp)
    [] video_stream_type_ = "h265"  -> OnH265Video(pes, stamp)
    [] video_stream_type_ = "other" -> {<< >>}

-----------------------------------------------------------------------------
(* OnAudio: a header and a frame for every ADTS header.  The length of a   *)
(* frame says where the next is looked for, so a gap leaves misread bytes  *)
(* for the rest of the unit.                                               *)

\* The pieces before the first gap.
InSync(pes) ==
  {m \in DOMAIN pes : \A k \in 1..m : pes[k].unit = pes[1].unit /\ pes[k].n = k}

\* The pieces the length of the ADTS frame at i counts.
Adts(shape, i) == {j \in i..Len(shape) : \A k \in (i + 1)..j : shape[k] = "rest"}

\* The header at i is call 2 * i, the frame, if all of it is there, the next.
OnAudio(pes, stamp) ==
  LET shape   == pes[1].shape
      sync    == InSync(pes)
      headers == {i \in sync : shape[i] = "adts"}
      frames  == {i \in headers : Adts(shape, i) \subseteq sync}
      places  == {2 * i : i \in headers} \cup {2 * i + 1 : i \in frames}
      read    == {[k \in DOMAIN at |->
                     LET i == at[k] \div 2 IN
                     IF at[k] % 2 = 0 THEN Call("header", Audio, NoStamp, {pes[i]})
                     ELSE Call("frame", Audio, stamp, {pes[j] : j \in Adts(shape, i)})] :
                  at \in InOrder(places)}
  IN  IF sync = DOMAIN pes THEN read
      ELSE read \cup {Append(c, Junk) : c \in read}

-----------------------------------------------------------------------------
(* ParsePES: the calls that the pieces collected for a PID may lead to.    *)
(* What begins in the middle of a unit is read as if it were a header.     *)

ParsePES(pid, pes) ==
  IF pes = << >> \/ pid \in Tables THEN {<< >>}
  ELSE IF ~Starts(pes[1]) THEN {<< >>, <<Junk>>}
  ELSE LET stamp == ReadStamp(StampOf(pes[1].unit)) IN
       IF pid = Video THEN OnVideo(pes, stamp) ELSE OnAudio(pes, stamp)

\* CollectPES; ParsePES has cleared the string if a unit starts.
CollectPES(packet) ==
  [pes_ EXCEPT ![packet.pid] =
     IF Starts(packet.piece) THEN <<packet.piece>> ELSE Append(@, packet.piece)]

SlipCollectPacket(packet) ==                    \* CollectPES before ParsePES
  LET pid == packet.pid IN
  /\ \E parsed \in IF Starts(packet.piece) THEN ParsePES(pid, Append(pes_[pid], packet.piece))
                   ELSE {<< >>} :
       calls' = calls \o parsed
  /\ pes_' = [pes_ EXCEPT ![pid] =
                IF Starts(packet.piece) THEN << >> ELSE Append(@, packet.piece)]
  /\ heard' = [heard EXCEPT ![pid] = Append(@, packet.piece)]
  /\ message' = Tail(message)
  /\ UNCHANGED <<pmt_known, video_stream_type_>>

\* A packet of an elementary stream, or of a table that is not known as one.
CollectPacket(packet) ==
  LET pid == packet.pid IN
  /\ \E parsed \in IF Starts(packet.piece) THEN ParsePES(pid, pes_[pid]) ELSE {<< >>} :
       calls' = calls \o parsed
  /\ pes_' = CollectPES(packet)
  /\ heard' = [heard EXCEPT ![pid] = Append(@, packet.piece)]
  /\ message' = Tail(message)
  /\ UNCHANGED <<pmt_known, video_stream_type_>>

\* ParsePAT: the PID of the first program's table.
ParsePAT ==
  /\ pmt_known' = TRUE
  /\ message' = Tail(message)
  /\ UNCHANGED <<video_stream_type_, pes_, calls, heard>>

\* ParsePMT.  The descriptors of the program are counted as streams too, so
\* that their parsing runs into the stuffing and fails: ParseTs returns.
ParsePMT ==
  /\ video_stream_type_' = codec
  /\ message' = IF described THEN << >> ELSE Tail(message)
  /\ UNCHANGED <<pmt_known, pes_, calls, heard>>

ParseTsSegment ==
  /\ message # << >>
  /\ LET packet == Head(message) IN
     /\ \/ packet.pid = Pat /\ ParsePAT
        \/ packet.pid = Pmt /\ pmt_known /\ ParsePMT
        \/ packet.pid \in Elementary /\ CollectPacket(packet)
        \/ packet.pid = Pmt /\ ~pmt_known /\ CollectPacket(packet)
     /\ announced' =
          IF packet.pid = Video /\ Starts(packet.piece) /\ video_stream_type_ = codec
          THEN announced \cup {packet.piece.unit} ELSE announced
  /\ UNCHANGED sender

-----------------------------------------------------------------------------
(* The publisher's multiplexer and the network (external).                 *)

\* payload_unit_start_indicator is set if the piece starts a unit.
Packet(pid, piece) == [pid |-> pid, piece |-> piece]

Fill(packet) ==
  /\ message = << >> /\ Len(outgoing) < PerMessage /\ sent < MaxPackets
  /\ sent' = sent + 1
  /\ outgoing' = Append(outgoing, packet)
  /\ UNCHANGED <<reader, message, history, codec, described>>

SendStart(pid) ==
  /\ pending[pid] = << >> /\ units[pid] < MaxUnits
  /\ \E shape \in Shapes(pid) :
       LET unit == [n \in DOMAIN shape |-> [unit |-> units[pid], shape |-> shape, n |-> n]] IN
       /\ Fill(Packet(pid, unit[1]))
       /\ pending' = [pending EXCEPT ![pid] = Tail(unit)]
  /\ units' = [units EXCEPT ![pid] = @ + 1]

SendRest(pid) ==
  /\ pending[pid] # << >>
  /\ Fill(Packet(pid, Head(pending[pid])))
  /\ pending' = [pending EXCEPT ![pid] = Tail(@)]
  /\ UNCHANGED units

\* Sections have no place in a unit: they are one piece.
Section == [unit |-> 0, shape |-> <<"section">>, n |-> 1]

SendTable(pid) ==
  /\ Fill(Packet(pid, Section))
  /\ UNCHANGED <<pending, units>>

\* The message is full, or the publisher flushes it.
Arrive ==
  /\ message = << >> /\ outgoing # << >>
  /\ message' = outgoing
  /\ outgoing' = << >>
  /\ UNCHANGED <<reader, history, codec, described, pending, units, sent>>

Lose ==
  /\ message = << >> /\ outgoing # << >>
  /\ outgoing' = << >>
  /\ UNCHANGED <<reader, message, history, codec, described, pending, units, sent>>

Next ==
  \/ ParseTsSegment
  \/ \E p \in Elementary : SendStart(p) \/ SendRest(p)
  \/ \E p \in Tables : SendTable(p)
  \/ Arrive
  \/ Lose

Spec == Init /\ [][Next]_vars

-----------------------------------------------------------------------------
Shape == VideoShapes["h264"] \cup VideoShapes["h265"] \cup AudioShapes \cup {Section.shape}
Piece == [unit : 0..MaxUnits, shape : Shape, n : Nat \ {0}]

Calls == {Junk} \cup [what : {"header", "frame"}, pid : Elementary,
                     stamp : Nat \cup {NoStamp}, pieces : SUBSET Piece]
PacketType == [pid : Pids, piece : Piece]

\* With the types, the shape of what is collected: only its first piece can
\* start a unit.
TypeOK ==
  /\ \A p \in Pids : \A i \in 2..Len(pes_[p]) : ~Starts(pes_[p][i])
  /\ pmt_known \in BOOLEAN /\ described \in BOOLEAN /\ codec \in Codecs
  /\ video_stream_type_ \in Codecs \cup {"other"}
  /\ pes_ \in [Pids -> Seq(Piece)] /\ heard \in [Pids -> Seq(Piece)]
  /\ calls \in Seq(Calls)
  /\ message \in Seq(PacketType) /\ outgoing \in Seq(PacketType)
  /\ pending \in [Elementary -> Seq(Piece)]
  /\ units \in [Elementary -> 0..MaxUnits] /\ sent \in 0..MaxPackets
  /\ announced \subseteq 0..MaxUnits

\* The frames passed on that have something of a unit, by their place in calls.
Frames(pid, unit) ==
  {k \in DOMAIN calls : /\ calls[k].what = "frame" /\ calls[k].pid = pid
                        /\ \E piece \in calls[k].pieces : piece.unit = unit}

\* Where a frame starts in a unit, and the pieces that belong to it.
FrameStarts(shape) == {n \in DOMAIN shape : shape[n] \in {"idr", "slice", "adts"}}
FrameParts(shape, start) ==
  {n \in start..Len(shape) : \A k \in (start + 1)..n : shape[k] = "rest"}

\* The unit that starts with the at-th piece heard on pid came without a gap,
\* and so did the start of the next.
CameWhole(pid, at) ==
  LET stream == heard[pid]
      first  == stream[at]
      size   == Len(first.shape)
  IN  /\ Starts(first) /\ at + size <= Len(stream) /\ Starts(stream[at + size])
      /\ \A n \in 1..size : stream[at + n - 1] = [first EXCEPT !.n = n]

\* Whatever was lost before and after it, and however packets of the two PIDs
\* and tables were interleaved, a unit that came whole is passed on as exactly
\* its frames, whole and in order, once (for video, if the
\* codec was known when it started).
IntactUnitsDelivered ==
  \A pid \in Elementary : \A at \in DOMAIN heard[pid] :
    LET unit  == heard[pid][at].unit
        shape == heard[pid][at].shape
    IN  CameWhole(pid, at) /\ (pid = Audio \/ unit \in announced) =>
          \E call \in [FrameStarts(shape) -> Frames(pid, unit)] :
            /\ {call[start] : start \in FrameStarts(shape)} = Frames(pid, unit)
            /\ \A start \in FrameStarts(shape) :
                 /\ calls[call[start]].pieces =
                      {[unit |-> unit, shape |-> shape, n |-> n] : n \in FrameParts(shape, start)}
                 /\ \A later \in FrameStarts(shape) :
                      start < later => call[start] < call[later]

\* A frame is stamped with the time of the unit its pieces come from.  Only
\* when the packet a unit starts with is lost are its pieces taken for the
\* unit before; and only from 2^30 on (3 h 18 min at 90 kHz) does ParsePES
\* misread the time itself.
OwnTimestamp ==
  \A i \in DOMAIN calls :
    calls[i].what = "frame" =>
      \A piece \in calls[i].pieces :
        \/ calls[i].stamp = StampOf(piece.unit)
        \/ StampOf(piece.unit) >= Wrap
        \/ \A k \in DOMAIN heard[calls[i].pid] :
             heard[calls[i].pid][k].unit = piece.unit => ~Starts(heard[calls[i].pid][k])

\* When a frame of a key picture is passed on, its parameter sets have been, all
\* of them together, if they were heard.
ParameterSetsFirst ==
  \A k \in DOMAIN calls : calls[k].what = "frame" =>
    \A piece \in calls[k].pieces : Kind(piece) = "idr" =>
      LET sets == {[piece EXCEPT !.n = n] :
                     n \in {n \in DOMAIN piece.shape : piece.shape[n] \in ParameterSets}}
      IN  (\A q \in sets : \E at \in DOMAIN heard[Video] : heard[Video][at] = q) =>
            \E j \in 1..(k - 1) :
              calls[j].what = "header" /\ calls[j].pieces = sets
=============================================================================
