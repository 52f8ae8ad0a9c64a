------------------------------ MODULE NalSplit ------------------------------
(***************************************************************************)
(* The loop by which OnH264Video and OnH265Video (src/src/ts_reader.cpp)   *)
(* cut the bytes of an access unit into NALs.  It looks for 00 00 01 and   *)
(* takes every start code to have one more zero in front, which belongs to *)
(* no NAL.  The loop starts only if the first four bytes are 00 00 00 01.  *)
(***************************************************************************)
EXTENDS Naturals, Integers, Sequences

CONSTANTS
  Bytes,          \* byte values; all but 0 and 1 are alike to the loop
  MaxLen          \* bound: bytes of an access unit

ASSUME BytesAssumption == Bytes \subseteq Nat /\ {0, 1} \subseteq Bytes
ASSUME MaxLenAssumption == MaxLen \in Nat

VARIABLES
  p,              \* the bytes, from p[0]
  len,
  i,
  nal,            \* where the NAL being looked through starts; 0 for NULL
  nals,           \* <<start, length>> of those found
  done

splitVars == <<p, len, i, nal, nals, done>>

SplitInit ==
  /\ len \in 4..MaxLen
  /\ p \in [0..(len - 1) -> Bytes]
  /\ p[0] = 0 /\ p[1] = 0 /\ p[2] = 0 /\ p[3] = 1
  /\ i = 0 /\ nal = 0 /\ nals = << >>
  /\ done = FALSE

StartCode(k) == p[k] = 0 /\ p[k + 1] = 0 /\ p[k + 2] = 1

\* The operators named Slip... are slips of the definition after them, used
\* to test that the property notices: no specification here uses them.
SlipNalBefore(k) == <<nal, k - nal>>             \* start codes of three bytes

\* The NAL that ends before the start code at k.
NalBefore(k) == <<nal, k - nal - 1>>

Skip ==
  /\ i + 3 < len /\ ~StartCode(i)
  /\ i' = i + 1
  /\ UNCHANGED <<p, len, nal, nals, done>>

Cut ==
  /\ i + 3 < len /\ StartCode(i)
  /\ nals' = IF nal # 0 THEN Append(nals, NalBefore(i)) ELSE nals
  /\ i' = i + 3
  /\ nal' = i + 3
  /\ UNCHANGED <<p, len, done>>

\* The last NAL takes the rest.
Finish ==
  /\ i + 3 >= len /\ ~done
  /\ nals' = IF nal # 0 THEN Append(nals, <<nal, len - nal>>) ELSE nals
  /\ done' = TRUE
  /\ UNCHANGED <<p, len, i, nal>>

SplitNext == Skip \/ Cut \/ Finish

SplitSpec == SplitInit /\ [][SplitNext]_splitVars

-----------------------------------------------------------------------------
(* The byte stream of Annex B: a NAL is what lies between start codes and  *)
(* contains no 00 00 00 and no 00 00 01.                                   *)

\* A start code of four bytes at k, with something behind it.
LongCode(k) == k + 4 < len /\ p[k] = 0 /\ StartCode(k + 1)

\* 00 00 00 and 00 00 01 occur in start codes of four bytes only.
LongCodesOnly ==
  \A k \in 0..(len - 3) :
    p[k] = 0 /\ p[k + 1] = 0 /\ p[k + 2] \in {0, 1} =>
      LongCode(k) \/ (k > 0 /\ LongCode(k - 1))

\* <<b, n>> is a NAL: n bytes from b, from one start code to the next or to
\* the end of the bytes.
IsNal(b, n) ==
  /\ b >= 4 /\ LongCode(b - 4)
  /\ b + n = len \/ LongCode(b + n)
  /\ \A k \in b..(b + n - 1) : ~LongCode(k)

\* What the loop hands to the callbacks are the NALs of the byte stream, all
\* of them, whole and in order, provided that all start codes have four bytes.
\* (After one of three bytes the NAL in front of it misses its last byte.)
NalsWhole ==
  done /\ LongCodesOnly =>
    /\ \A j \in DOMAIN nals : IsNal(nals[j][1], nals[j][2])
    /\ \A j, k \in DOMAIN nals : j < k => nals[j][1] < nals[k][1]
    /\ \A b \in 4..(len - 1) :
         LongCode(b - 4) => \E j \in DOMAIN nals : nals[j][1] = b
=============================================================================
