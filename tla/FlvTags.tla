------------------------------- MODULE FlvTags -------------------------------
(***************************************************************************)
(* The tags HttpFlvProtocol writes: each begins with the size of the one   *)
(* before, pre_tag_size_, which is kept from one Send to the next.  A tag  *)
(* is its header's fields, the bytes written behind it before the data     *)
(* (lead), and the size of the data.                                       *)
(***************************************************************************)
EXTENDS Integers, Sequences

k24 == 16777216     \* 2^24, what the low part of a time is cut to

NoTags == [pre_tag_size_ |-> 0, tags |-> <<>>]

Tag(pre, type, data_size, dts, lead, data) ==
  [pre |-> pre, type |-> type, data_size |-> data_size,
   time |-> dts % k24, timeExtended |-> (dts \div k24) % 256, lead |-> lead, data |-> data]

Write(flv, type, data_size, dts, lead, data) ==
  [pre_tag_size_ |-> data_size + 11,
   tags |-> Append(flv.tags, Tag(flv.pre_tag_size_, type, data_size, dts, lead, data))]

SendMetaData(flv, size) == Write(flv, "script", size, 0, 0, size)

SendVideo(flv, size, dts) == Write(flv, "video", size + 5, dts, 5, size)

\* The two bytes in front of the sound are part of the payload.
SendAudio(flv, size, dts) == Write(flv, "audio", size, dts, 0, size)

SendVideoHeader(flv, size) == Write(flv, "video", size + 5, 0, 5, size)

SlipSendAudioHeader(flv, size) ==    \* pre_tag_size_ without the lead
  [Write(flv, "audio", size + 2, 0, 2, size) EXCEPT !.pre_tag_size_ = size + 11]
SendAudioHeader(flv, size) == Write(flv, "audio", size + 2, 0, 2, size)
=============================================================================
