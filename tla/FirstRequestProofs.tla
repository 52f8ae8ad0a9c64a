-------------------------- MODULE FirstRequestProofs --------------------------
(***************************************************************************)
(* Proofs about FirstRequest for any requests, of any length, and any      *)
(* cuts.                                                                   *)
(*                                                                         *)
(* The handshake: how much of what the client wrote the session has used   *)
(* follows from its status, and the rest is in the buffer and on the wire. *)
(* HTTP: the parser is in the state one scan of what was read leaves it    *)
(* in, the buffer and the wire hold the rest, and the scan is followed     *)
(* line by line.  WebSocket: the messages heard are those of the frames    *)
(* the buffer and the wire no longer hold.  HLS and DASH: either the first *)
(* read has all of the request, or no later one looks like a request.      *)
(***************************************************************************)
EXTENDS FirstRequest, SequenceTheorems, NaturalsInduction, WellFoundedInduction, TLAPS

LEMMA LeastOf ==
  ASSUME NEW T, T \subseteq Nat, T # {}
  PROVE  \E m \in T : \A n \in T : m <= n
<1>1. PICK m \in T : \A n \in T : <<n, m>> \notin OpToRel(<, Nat)
  BY NatLessThanWellFounded, WFMin
<1>2. \A n \in T : ~(n < m)
  BY <1>1 DEF OpToRel
<1> QED
  BY <1>2

\* Induction up to a bound.
LEMMA Upto ==
  ASSUME NEW N \in Nat, NEW T, 0 \in T, \A k \in 0 .. N - 1 : k \in T => k + 1 \in T
  PROVE  \A k \in 0 .. N : k \in T
<1> DEFINE F == {k \in 0 .. N : k \notin T}
<1> SUFFICES ASSUME F # {} PROVE FALSE
  OBVIOUS
<1>1. PICK m \in F : \A n \in F : m <= n
  <2>1. F \subseteq Nat
    OBVIOUS
  <2> QED
    BY <2>1, LeastOf
<1>2. m # 0 /\ m \in 0 .. N
  OBVIOUS
<1>3. m - 1 \in 0 .. N - 1 /\ ~(m <= m - 1) /\ m - 1 \in 0 .. N
  BY <1>2
<1>4. m - 1 \in T
  BY <1>1, <1>3
<1>5. (m - 1) + 1 = m
  BY <1>2
<1> QED
  BY <1>3, <1>4, <1>5

-----------------------------------------------------------------------------
(* What stands in front of and behind a place in a sequence.               *)

LEMMA BehindProperties ==
  ASSUME NEW S, NEW s \in Seq(S), NEW n \in 0 .. Len(s)
  PROVE  /\ Behind(s, n) \in Seq(S) /\ Len(Behind(s, n)) = Len(s) - n
         /\ \A i \in 1 .. Len(s) - n : Behind(s, n)[i] = s[n + i]
<1>1. \A i \in n + 1 .. Len(s) : s[i] \in S
  OBVIOUS
<1>2. n + 1 \in Int /\ Len(s) \in Int
  OBVIOUS
<1> DEFINE t == SubSeq(s, n + 1, Len(s))
<1>3. /\ t \in Seq(S) /\ Len(t) = IF n + 1 <= Len(s) THEN Len(s) - (n + 1) + 1 ELSE 0
      /\ \A i \in 1 .. Len(s) - (n + 1) + 1 : t[i] = s[n + 1 + i - 1]
  BY <1>1, <1>2, SubSeqProperties
<1>4. \A i \in 1 .. Len(s) - n : i \in 1 .. Len(s) - (n + 1) + 1 /\ n + 1 + i - 1 = n + i
  OBVIOUS
<1> HIDE DEF t
<1>5. Len(t) = Len(s) - n
  BY <1>3
<1>6. \A i \in 1 .. Len(s) - n : t[i] = s[n + i]
  BY <1>3, <1>4
<1> QED
  BY <1>3, <1>5, <1>6 DEF t, Behind

LEMMA FrontProperties ==
  ASSUME NEW S, NEW s \in Seq(S), NEW n \in 0 .. Len(s)
  PROVE  /\ SubSeq(s, 1, n) \in Seq(S) /\ Len(SubSeq(s, 1, n)) = n
         /\ \A i \in 1 .. n : SubSeq(s, 1, n)[i] = s[i]
         /\ SubSeq(s, 1, n) \o Behind(s, n) = s
<1>1. \A i \in 1 .. n : s[i] \in S
  OBVIOUS
<1>2. 1 \in Int /\ n \in Int /\ 1 \in 1 .. Len(s) + 1 /\ n \in 1 - 1 .. Len(s) /\ Len(s) \in n .. Len(s)
  OBVIOUS
<1>3. /\ SubSeq(s, 1, n) \in Seq(S) /\ Len(SubSeq(s, 1, n)) = IF 1 <= n THEN n - 1 + 1 ELSE 0
      /\ \A i \in 1 .. n - 1 + 1 : SubSeq(s, 1, n)[i] = s[1 + i - 1]
  BY <1>1, <1>2, SubSeqProperties
<1>4. SubSeq(s, 1, n) \o SubSeq(s, n + 1, Len(s)) = SubSeq(s, 1, Len(s))
  BY <1>2, ConcatAdjacentSubSeq
<1>5. SubSeq(s, 1, Len(s)) = s
  BY SubSeqFull
<1> DEFINE f == SubSeq(s, 1, n)
<1>6. f \in Seq(S) /\ f \o Behind(s, n) = s
  BY <1>3, <1>4, <1>5 DEF Behind
<1> HIDE DEF f
<1>7. Len(f) = n
  BY <1>3 DEF f
<1>8. \A i \in 1 .. n : i \in 1 .. n - 1 + 1 /\ 1 + i - 1 = i
  OBVIOUS
<1>9. \A i \in 1 .. n : f[i] = s[i]
  BY <1>3, <1>8 DEF f
<1> QED
  BY <1>6, <1>7, <1>9 DEF f

LEMMA BehindConcat ==
  ASSUME NEW S, NEW s \in Seq(S), NEW t \in Seq(S), NEW n \in 0 .. Len(s)
  PROVE  Behind(s \o t, n) = Behind(s, n) \o t
<1> DEFINE b == Behind(s, n)
           l == Behind(s \o t, n)
           r == b \o t
<1>1. /\ s \o t \in Seq(S) /\ Len(s \o t) = Len(s) + Len(t)
      /\ \A i \in 1 .. Len(s) + Len(t) :
           (s \o t)[i] = IF i <= Len(s) THEN s[i] ELSE t[i - Len(s)]
  BY ConcatProperties
<1>2. /\ b \in Seq(S) /\ Len(b) = Len(s) - n
      /\ \A i \in 1 .. Len(s) - n : b[i] = s[n + i]
  BY BehindProperties
<1>3. /\ l \in Seq(S) /\ Len(l) = Len(s) + Len(t) - n
      /\ \A i \in 1 .. Len(s) + Len(t) - n : l[i] = (s \o t)[n + i]
  <2> DEFINE u == s \o t
  <2>1. u \in Seq(S) /\ Len(u) = Len(s) + Len(t) /\ n \in 0 .. Len(u)
    BY <1>1
  <2> HIDE DEF u
  <2>2. /\ Behind(u, n) \in Seq(S) /\ Len(Behind(u, n)) = Len(u) - n
        /\ \A i \in 1 .. Len(u) - n : Behind(u, n)[i] = u[n + i]
    BY <2>1, BehindProperties
  <2> QED
    BY <2>1, <2>2 DEF u
<1> HIDE DEF b, l
<1>4. /\ r \in Seq(S) /\ Len(r) = Len(b) + Len(t)
      /\ \A i \in 1 .. Len(b) + Len(t) : r[i] = IF i <= Len(b) THEN b[i] ELSE t[i - Len(b)]
  BY <1>2, ConcatProperties
<1> HIDE DEF r
<1>5. ASSUME NEW i \in 1 .. Len(l) PROVE l[i] = r[i]
  <2>0. i \in 1 .. Len(s) + Len(t) - n /\ n + i \in 1 .. Len(s) + Len(t)
    BY <1>3
  <2>1. l[i] = IF n + i <= Len(s) THEN s[n + i] ELSE t[n + i - Len(s)]
    BY <1>1, <1>3, <2>0
  <2>2. r[i] = IF i <= Len(s) - n THEN b[i] ELSE t[i - (Len(s) - n)]
    BY <1>2, <1>3, <1>4
  <2>3. n + i - Len(s) = i - (Len(s) - n) /\ (n + i <= Len(s) <=> i <= Len(s) - n)
    OBVIOUS
  <2> QED
    BY <2>1, <2>2, <2>3, <1>2
<1>6. Len(l) = Len(r)
  BY <1>2, <1>3, <1>4
<1>7. l = r
  BY <1>3, <1>4, <1>5, <1>6, SeqEqual
<1> QED
  BY <1>7 DEF l, r, b

LEMMA BehindBehind ==
  ASSUME NEW S, NEW s \in Seq(S), NEW n \in 0 .. Len(s), NEW m \in 0 .. Len(s) - n
  PROVE  Behind(Behind(s, n), m) = Behind(s, n + m)
<1> DEFINE b == Behind(s, n)
           l == Behind(b, m)
           r == Behind(s, n + m)
<1>1. /\ b \in Seq(S) /\ Len(b) = Len(s) - n
      /\ \A i \in 1 .. Len(s) - n : b[i] = s[n + i]
  BY BehindProperties
<1> HIDE DEF b
<1>2. /\ l \in Seq(S) /\ Len(l) = Len(b) - m
      /\ \A i \in 1 .. Len(b) - m : l[i] = b[m + i]
  <2>1. m \in 0 .. Len(b)
    BY <1>1
  <2> QED
    BY <1>1, <2>1, BehindProperties
<1>3. n + m \in 0 .. Len(s)
  OBVIOUS
<1>4. /\ r \in Seq(S) /\ Len(r) = Len(s) - (n + m)
      /\ \A i \in 1 .. Len(s) - (n + m) : r[i] = s[n + m + i]
  BY <1>3, BehindProperties
<1> HIDE DEF l, r
<1>5. Len(l) = Len(r)
  BY <1>1, <1>2, <1>4
<1>6. ASSUME NEW i \in 1 .. Len(l) PROVE l[i] = r[i]
  <2>1. m + i \in 1 .. Len(s) - n /\ n + (m + i) = n + m + i /\ i \in 1 .. Len(s) - (n + m)
    BY <1>1, <1>2
  <2> QED
    BY <2>1, <1>1, <1>2, <1>4
<1>7. l = r
  BY <1>2, <1>4, <1>5, <1>6, SeqEqual
<1> QED
  BY <1>7 DEF l, r, b

LEMMA BehindNone == ASSUME NEW S, NEW s \in Seq(S) PROVE Behind(s, 0) = s
BY SubSeqFull DEF Behind

LEMMA BehindAll ==
  ASSUME NEW S, NEW s \in Seq(S), NEW t \in Seq(S)
  PROVE  Behind(s \o t, Len(s)) = t /\ Behind(s, Len(s)) = <<>>
<1>1. Behind(s, Len(s)) = <<>>
  BY SubSeqEmpty DEF Behind
<1>2. Behind(s \o t, Len(s)) = Behind(s, Len(s)) \o t
  BY BehindConcat
<1>3. <<>> \o t = t
  BY ConcatEmptySeq
<1> QED
  BY <1>1, <1>2, <1>3

\* In words of their own, which keep the concatenations from the provers.
Joined(a, b, c, r) == a \o (b \o c) = r
Plus(s, d, r) == r = s \o d
Moves(b, w, n, b2, w2) == b2 = b \o SubSeq(w, 1, n) /\ w2 = Behind(w, n)
Same(b2, w2, b, w) == b2 \o w2 = b \o w

\* What a read takes from the front of w is put behind b.
LEMMA ReadMoves ==
  ASSUME NEW S, NEW b \in Seq(S), NEW w \in Seq(S), NEW n \in 0 .. Len(w),
         NEW b2, NEW w2, Moves(b, w, n, b2, w2)
  PROVE  b2 \in Seq(S) /\ w2 \in Seq(S) /\ Same(b2, w2, b, w)
<1> DEFINE f == SubSeq(w, 1, n)
           e == Behind(w, n)
<1>1. f \in Seq(S) /\ e \in Seq(S)
  BY FrontProperties, BehindProperties
<1>2. f \o e = w
  BY FrontProperties
<1> HIDE DEF f, e
<1>3. (b \o f) \o e = b \o (f \o e)
  BY <1>1, ConcatAssociative
<1>4. b \o f \in Seq(S)
  BY <1>1, ConcatProperties
<1>5. b2 = b \o f /\ w2 = e
  BY DEF Moves, f, e
<1> QED
  BY <1>1, <1>2, <1>3, <1>4, <1>5 DEF Same

LEMMA JoinedGrows ==
  ASSUME NEW S, NEW a \in Seq(S), NEW b \in Seq(S), NEW c \in Seq(S), NEW d \in Seq(S),
         NEW r, Joined(a, b, c, r), NEW c2, Plus(c, d, c2), NEW r2, Plus(r, d, r2)
  PROVE  Joined(a, b, c2, r2)
<1>1. (a \o (b \o c)) \o d = a \o (b \o (c \o d))
  <2>1. (b \o c) \o d = b \o (c \o d)
    BY ConcatAssociative
  <2>2. ASSUME NEW x \in Seq(S) PROVE (a \o x) \o d = a \o (x \o d)
    BY ConcatAssociative
  <2>3. b \o c \in Seq(S)
    BY ConcatProperties
  <2> QED
    BY <2>1, <2>2, <2>3
<1>2. a \o (b \o c) = r /\ c2 = c \o d /\ r2 = r \o d
  BY DEF Joined, Plus
<1>3. r2 = (a \o (b \o c)) \o d
  BY <1>2
<1>4. a \o (b \o c2) = a \o (b \o (c \o d))
  BY <1>2
<1>5. a \o (b \o c2) = r2
  BY <1>1, <1>3, <1>4
<1> QED
  BY <1>5 DEF Joined

\* Two ways to cut a sequence, the first no longer than the second.
TwoCuts(S, a, b, c, d) ==
  /\ a \in Seq(S) /\ b \in Seq(S) /\ c \in Seq(S) /\ d \in Seq(S)
  /\ a \o b = c \o d /\ Len(a) <= Len(c)
Between(S, a, b, c, d, u) == u \in Seq(S) /\ a \o u = c /\ b = u \o d

LEMMA BetweenCuts ==
  ASSUME NEW S, NEW a, NEW b, NEW c, NEW d, TwoCuts(S, a, b, c, d)
  PROVE  Between(S, a, b, c, d, Behind(c, Len(a)))
<1>0. /\ a \in Seq(S) /\ b \in Seq(S) /\ c \in Seq(S) /\ d \in Seq(S)
      /\ a \o b = c \o d /\ Len(a) <= Len(c)
  BY DEF TwoCuts
<1>1. Len(a) \in 0 .. Len(c)
  BY <1>0
<1>2. SubSeq(c, 1, Len(a)) \o Behind(c, Len(a)) = c /\ Behind(c, Len(a)) \in Seq(S)
  BY <1>0, <1>1, FrontProperties, BehindProperties
<1>3. b = Behind(c, Len(a)) \o d
  <2>1. Behind(c \o d, Len(a)) = Behind(c, Len(a)) \o d
    BY <1>0, <1>1, BehindConcat
  <2>2. Behind(a \o b, Len(a)) = b
    BY <1>0, BehindAll
  <2> QED
    BY <1>0, <2>1, <2>2
<1>4. a = SubSeq(c, 1, Len(a))
  <2> DEFINE e == SubSeq(c, 1, Len(a))
  <2>1. e \in Seq(S) /\ Len(e) = Len(a) /\ \A i \in 1 .. Len(a) : e[i] = c[i]
    BY <1>0, <1>1, FrontProperties
  <2>2. \A i \in 1 .. Len(a) : (a \o b)[i] = a[i]
    BY <1>0
  <2>3. \A i \in 1 .. Len(c) : (c \o d)[i] = c[i]
    BY <1>0
  <2>4. \A i \in 1 .. Len(a) : i \in 1 .. Len(c)
    BY <1>0
  <2>5. \A i \in 1 .. Len(a) : a[i] = e[i]
    BY <1>0, <2>1, <2>2, <2>3, <2>4
  <2> QED
    BY <1>0, <2>1, <2>5, SeqEqual
<1> QED
  BY <1>2, <1>3, <1>4 DEF Between

-----------------------------------------------------------------------------
(* The loops over a buffer: f[k] is what the loop has made of the first k. *)

IsScan(f, p, bytes) ==
  f = [k \in 0 .. Len(bytes) |-> IF k = 0 THEN p ELSE Loop(f[k - 1], bytes[k])]

LEMMA ScanExists ==
  ASSUME NEW p, NEW bytes, Len(bytes) \in Nat
  PROVE  \E f : IsScan(f, p, bytes)
<1> DEFINE N == Len(bytes)
           To(f, n) == f = [k \in 0 .. n |-> IF k = 0 THEN p ELSE Loop(f[k - 1], bytes[k])]
           T == {n \in 0 .. N : \E f : To(f, n)}
<1> HIDE DEF To
<1>1. 0 \in T
  <2> DEFINE f == [k \in 0 .. 0 |-> p]
  <2>1. f = [k \in 0 .. 0 |-> IF k = 0 THEN p ELSE Loop(f[k - 1], bytes[k])]
    OBVIOUS
  <2>2. To(f, 0)
    BY <2>1 DEF To
  <2> QED
    BY <2>2
<1>2. ASSUME NEW n \in 0 .. N - 1, n \in T PROVE n + 1 \in T
  <2>1. PICK f : To(f, n)
    BY <1>2
  <2> DEFINE g == [k \in 0 .. n + 1 |-> IF k = n + 1 THEN Loop(f[n], bytes[n + 1]) ELSE f[k]]
  <2>2. ASSUME NEW k \in 0 .. n + 1
        PROVE  g[k] = IF k = 0 THEN p ELSE Loop(g[k - 1], bytes[k])
    <3>1. CASE k = n + 1
      <4>1. k - 1 = n /\ n \in 0 .. n + 1 /\ n # n + 1 /\ k # 0
        BY <3>1
      <4>2. g[n] = f[n] /\ g[k] = Loop(f[n], bytes[n + 1])
        BY <4>1, <3>1
      <4> QED
        BY <4>1, <4>2, <3>1
    <3>2. CASE k # n + 1
      <4>1. k \in 0 .. n /\ g[k] = f[k]
        BY <3>2
      <4>2. f[k] = IF k = 0 THEN p ELSE Loop(f[k - 1], bytes[k])
        BY <2>1, <4>1 DEF To
      <4>3. k # 0 => k - 1 \in 0 .. n + 1 /\ k - 1 # n + 1
        BY <4>1
      <4>4. k # 0 => g[k - 1] = f[k - 1]
        BY <4>3
      <4> QED
        BY <4>1, <4>2, <4>4
    <3> QED
      BY <3>1, <3>2
  <2>3. g = [k \in 0 .. n + 1 |-> IF k = 0 THEN p ELSE Loop(g[k - 1], bytes[k])]
    BY <2>2
  <2>4. To(g, n + 1)
    BY <2>3 DEF To
  <2> QED
    BY <2>4
<1>3. N \in T
  <2> HIDE DEF T
  <2>1. \A k \in 0 .. N : k \in T
    BY <1>1, <1>2, Upto
  <2> QED
    BY <2>1
<1> QED
  BY <1>3 DEF To, IsScan

\* There is one such function, and it ends with what Scan is.
LEMMA ScanIs ==
  ASSUME NEW p, NEW bytes, Len(bytes) \in Nat, NEW f, IsScan(f, p, bytes)
  PROVE  Scan(p, bytes) = f[Len(bytes)]
<1> DEFINE N == Len(bytes)
           after[k \in 0 .. N] == IF k = 0 THEN p ELSE Loop(after[k - 1], bytes[k])
<1>1. IsScan(after, p, bytes)
  BY DEF IsScan
<1>2. Scan(p, bytes) = after[N]
  BY DEF Scan
<1> HIDE DEF after
<1>3. \A k \in 0 .. N : after[k] = IF k = 0 THEN p ELSE Loop(after[k - 1], bytes[k])
  BY <1>1 DEF IsScan
<1>4. \A k \in 0 .. N : f[k] = IF k = 0 THEN p ELSE Loop(f[k - 1], bytes[k])
  BY DEF IsScan
<1> DEFINE T == {k \in 0 .. N : after[k] = f[k]}
<1>5. 0 \in T
  BY <1>3, <1>4
<1>6. ASSUME NEW k \in 0 .. N - 1, k \in T PROVE k + 1 \in T
  <2>1. k + 1 \in 0 .. N /\ k + 1 # 0 /\ (k + 1) - 1 = k
    BY <1>6
  <2>2. after[k + 1] = Loop(after[k], bytes[k + 1]) /\ f[k + 1] = Loop(f[k], bytes[k + 1])
    BY <1>3, <1>4, <2>1
  <2> QED
    BY <1>6, <2>1, <2>2
<1>7. N \in T
  <2> HIDE DEF T
  <2>1. \A k \in 0 .. N : k \in T
    BY <1>5, <1>6, Upto
  <2> QED
    BY <2>1
<1> QED
  BY <1>2, <1>7

LEMMA ScanNone == ASSUME NEW p PROVE Scan(p, <<>>) = p
<1>1. PICK f : IsScan(f, p, <<>>)
  BY ScanExists
<1>2. f[0] = p
  BY <1>1 DEF IsScan
<1>3. Scan(p, <<>>) = f[Len(<<>>)]
  BY <1>1, ScanIs
<1> QED
  BY <1>2, <1>3

LEMMA ScanOne == ASSUME NEW p, NEW c PROVE Scan(p, <<c>>) = Loop(p, c)
<1> DEFINE s == <<c>>
<1>0. Len(s) = 1 /\ s[1] = c
  OBVIOUS
<1>1. PICK f : IsScan(f, p, s)
  BY <1>0, ScanExists
<1>2. f[0] = p /\ f[1] = Loop(f[0], s[1])
  BY <1>0, <1>1 DEF IsScan
<1>3. Scan(p, s) = f[Len(s)]
  BY <1>0, <1>1, ScanIs
<1> QED
  BY <1>0, <1>2, <1>3

LEMMA ScanConcat ==
  ASSUME NEW p, NEW S, NEW s \in Seq(S), NEW t \in Seq(S)
  PROVE  Scan(p, s \o t) = Scan(Scan(p, s), t)
<1> DEFINE L == Len(s)
           M == Len(t)
           u == s \o t
<1>0. /\ L \in Nat /\ M \in Nat /\ Len(u) = L + M
      /\ \A k \in 1 .. L : u[k] = s[k]
      /\ \A k \in 1 .. M : u[L + k] = t[k]
  OBVIOUS
<1> HIDE DEF u
<1>1. PICK f : IsScan(f, p, s)
  BY <1>0, ScanExists
<1>2. PICK g : IsScan(g, f[L], t)
  BY <1>0, ScanExists
<1> DEFINE h == [k \in 0 .. L + M |-> IF k <= L THEN f[k] ELSE g[k - L]]
<1>3. \A k \in 0 .. L : f[k] = IF k = 0 THEN p ELSE Loop(f[k - 1], s[k])
  BY <1>1 DEF IsScan
<1>4. \A k \in 0 .. M : g[k] = IF k = 0 THEN f[L] ELSE Loop(g[k - 1], t[k])
  BY <1>2 DEF IsScan
<1>5. ASSUME NEW k \in 0 .. L + M
      PROVE  h[k] = IF k = 0 THEN p ELSE Loop(h[k - 1], u[k])
  <2>1. CASE k = 0
    BY <2>1, <1>0, <1>3
  <2>2. CASE k # 0 /\ k <= L
    <3>1. k \in 0 .. L /\ k \in 1 .. L /\ k - 1 \in 0 .. L + M /\ k - 1 <= L
      BY <2>2, <1>0
    <3>2. h[k] = f[k] /\ h[k - 1] = f[k - 1] /\ u[k] = s[k]
      BY <3>1, <2>2, <1>0
    <3> QED
      BY <3>1, <3>2, <2>2, <1>3
  <2>3. CASE k > L
    <3>1. /\ k - L \in 0 .. M /\ k - L \in 1 .. M /\ k - L # 0 /\ L + (k - L) = k /\ ~(k <= L)
          /\ k - 1 \in 0 .. L + M /\ (k - L) - 1 = (k - 1) - L
      BY <2>3, <1>0
    <3>2. u[k] = t[k - L]
      BY <3>1, <1>0
    <3>3. h[k] = g[k - L]
      BY <3>1
    <3>4. g[k - L] = Loop(g[(k - 1) - L], t[k - L])
      BY <3>1, <1>4
    <3>5. h[k - 1] = g[(k - 1) - L]
      <4>1. CASE k - 1 <= L
        <5>1. k - 1 = L /\ (k - 1) - L = 0
          BY <4>1, <2>3, <1>0
        <5>2. h[k - 1] = f[L]
          BY <5>1, <3>1, <1>0
        <5>3. g[0] = f[L]
          BY <1>4, <1>0
        <5> QED
          BY <5>1, <5>2, <5>3
      <4>2. CASE ~(k - 1 <= L)
        BY <4>2, <3>1
      <4> QED
        BY <4>1, <4>2
    <3> QED
      BY <3>1, <3>2, <3>3, <3>4, <3>5, <2>3
  <2> QED
    BY <2>1, <2>2, <2>3, <1>0
<1>6. IsScan(h, p, u)
  BY <1>5, <1>0 DEF IsScan
<1>7. Scan(p, u) = h[L + M]
  <2> HIDE DEF h
  <2>1. Len(u) \in Nat
    BY <1>0
  <2>2. Scan(p, u) = h[Len(u)]
    BY <1>6, <2>1, ScanIs
  <2> QED
    BY <1>0, <2>2
<1>8. h[L + M] = g[M]
  <2>1. CASE M = 0
    BY <2>1, <1>0, <1>4
  <2>2. CASE M # 0
    BY <2>2, <1>0
  <2> QED
    BY <2>1, <2>2
<1>9. Scan(p, s) = f[L] /\ Scan(f[L], t) = g[M]
  BY <1>0, <1>1, <1>2, ScanIs
<1> QED
  BY <1>7, <1>8, <1>9 DEF u

-----------------------------------------------------------------------------
(* The handshake.  The session tells how much of the request it has        *)
(* consumed, and the rest of it is in the buffer and on the wire.          *)

\* What the client and the server say to each other.
Tokens ==
  Versions \cup Bodies
  \cup {"3", "0", "c1.time", "c1.version", "s1.time", "s1.fake", "random", "s1.digest0", "s1.digest1",
        "hash of c1.digest0", "hash of c1.digest1", "c2.time", "c2.time2", "c2.body",
        "connect", "createStream"}

Statuses == {"kStatus_0", "kStatus_1", "kStatus_2", "kStatus_Done"}

HandshakeTypes ==
  /\ request \in Seq(Tokens)
  /\ Len(request) = 4 \/ Len(request) = 7 \/ Len(request) = 9
  /\ Len(request) = 9 => Behind(request, 7) = Chunks
  /\ wire \in Seq(Tokens) /\ read_buffer_ \in Seq(Tokens) /\ said \in Seq(Tokens)
  /\ session \in [handshake_status : Statuses, version : Tokens, heard : Seq(Tokens)]
  /\ handling \in BOOLEAN /\ short \in BOOLEAN /\ state \in {"open", "closed", "aborted"}
  /\ handling => state = "open"

\* What has been read of the request by now, but for the chunks.
Consumed(s) ==
  CASE s.handshake_status = "kStatus_0" -> 0
    [] s.handshake_status = "kStatus_1" -> 1
    [] s.handshake_status = "kStatus_2" -> 4
    [] s.handshake_status = "kStatus_Done" -> 7

\* What the handler waits for is not there.
Starved(s, bytes) ==
  CASE s.handshake_status = "kStatus_0" -> bytes = <<>>
    [] s.handshake_status = "kStatus_1" -> Len(bytes) < 3
    [] s.handshake_status = "kStatus_2" -> Len(bytes) < 3
    [] s.handshake_status = "kStatus_Done" -> bytes = <<>>

BeforeReply ==
  ~Replied(session) =>
    /\ ~short /\ said = <<>> /\ session.heard = <<>> /\ Len(request) = 4
    /\ session.handshake_status = "kStatus_1" => session.version = request[1]

InStep ==
  ~short /\ state = "open" =>
    /\ Consumed(session) <= Len(request)
    /\ session.heard \o (read_buffer_ \o wire) = Behind(request, Consumed(session))
    /\ session.handshake_status # "kStatus_Done" => session.heard = <<>>
    /\ ~handling => Starved(session, read_buffer_)

HandshakeInv ==
  protocol = "rtmp" =>
    /\ HandshakeTypes /\ BeforeReply /\ InStep
    /\ state # "open" => ~Replied(session)
    /\ state = "aborted" => request[1] # "3"
    /\ ~short /\ Replied(session) => said = ReplyTo(request)

LEMMA ReplyIsToC1 ==
  ASSUME NEW q \in Seq(Tokens), NEW t \in Seq(Tokens), Len(q) >= 4
  PROVE  ReplyTo(q \o t) = ReplyTo(q) /\ ReplyTo(q) \in Seq(Tokens) /\ Len(ReplyTo(q)) = 7
<1>1. /\ (q \o t)[1] = q[1] /\ (q \o t)[2] = q[2] /\ (q \o t)[3] = q[3] /\ (q \o t)[4] = q[4]
  OBVIOUS
<1>2. q[1] \in Tokens /\ q[2] \in Tokens /\ q[3] \in Tokens /\ q[4] \in Tokens
  OBVIOUS
<1>3. ReplyTo(q) \in Seq(Tokens) /\ Len(ReplyTo(q)) = 7
  <2>1. CASE q[3] = "0"
    <3>1. ReplyTo(q) = <<q[1], "s1.time", "0", "s1.fake", q[2], "s1.time", q[4]>>
      BY <2>1 DEF ReplyTo
    <3>2. "s1.time" \in Tokens /\ "0" \in Tokens /\ "s1.fake" \in Tokens
      BY DEF Tokens
    <3> QED
      BY <1>2, <3>1, <3>2
  <2>2. CASE q[3] # "0"
    <3> DEFINE x == IF q[4] = "c1.digest0" THEN "s1.digest0" ELSE "s1.digest1"
               y == IF q[4] = "c1.digest0" THEN "hash of c1.digest0" ELSE "hash of c1.digest1"
    <3>1. ReplyTo(q) = <<q[1], "random", "random", x, "random", "random", y>>
      BY <2>2 DEF ReplyTo
    <3>2. "random" \in Tokens /\ x \in Tokens /\ y \in Tokens
      BY DEF Tokens
    <3> HIDE DEF x, y
    <3> QED
      BY <1>2, <3>1, <3>2
  <2> QED
    BY <2>1, <2>2
<1> QED
  BY <1>1, <1>3 DEF ReplyTo

LEMMA StringTokens ==
  /\ C2 \in Seq(Tokens) /\ Len(C2) = 3 /\ Chunks \in Seq(Tokens) /\ Len(Chunks) = 2
BY DEF C2, Chunks, Tokens

\* The request grows by C2, then by the chunks.
Goes(q, more) == \/ Len(q) = 4 /\ more = C2
                 \/ Len(q) = 7 /\ more = Chunks

LEMMA RequestGrows ==
  ASSUME NEW q \in Seq(Tokens), NEW more, Goes(q, more)
  PROVE  /\ more \in Seq(Tokens) /\ q \o more \in Seq(Tokens)
         /\ Len(q \o more) = Len(q) + Len(more)
         /\ Len(q \o more) = 7 \/ Len(q \o more) = 9
         /\ Len(q \o more) = 9 => Behind(q \o more, 7) = Chunks
         /\ ReplyTo(q \o more) = ReplyTo(q)
<1>1. /\ more \in Seq(Tokens)
      /\ \/ Len(q) = 4 /\ Len(more) = 3
         \/ Len(q) = 7 /\ Len(more) = 2 /\ more = Chunks
  BY StringTokens DEF Goes
<1>2. q \o more \in Seq(Tokens) /\ Len(q \o more) = Len(q) + Len(more)
  BY <1>1, ConcatProperties
<1>3. Len(q \o more) = 7 \/ Len(q \o more) = 9
  <2>1. CASE Len(q) = 4 /\ Len(more) = 3
    BY <1>2, <2>1
  <2>2. CASE Len(q) = 7 /\ Len(more) = 2 /\ more = Chunks
    BY <1>2, <2>2
  <2> QED
    BY <1>1, <2>1, <2>2
<1>4. ASSUME Len(q \o more) = 9 PROVE Behind(q \o more, 7) = Chunks
  <2>1. Len(q) = 7 /\ more = Chunks
    <3>1. CASE Len(q) = 4 /\ Len(more) = 3
      BY <1>2, <1>4, <3>1
    <3> QED
      BY <1>1, <3>1
  <2>2. Behind(q \o more, Len(q)) = more
    BY <1>1, BehindAll
  <2> QED
    BY <2>1, <2>2
<1>5. Len(q) >= 4
  <2>1. CASE Len(q) = 4
    BY <2>1
  <2>2. CASE Len(q) = 7
    BY <2>2
  <2> QED
    BY <1>1, <2>1, <2>2
<1>6. ReplyTo(q \o more) = ReplyTo(q)
  BY <1>1, <1>5, ReplyIsToC1
<1> QED
  BY <1>1, <1>2, <1>3, <1>4, <1>6

LEMMA InitInStep == Init => HandshakeInv
<1> SUFFICES ASSUME Init, protocol = "rtmp" PROVE HandshakeInv
  BY DEF HandshakeInv
<1>1. PICK hello \in Hellos : request = hello /\ wire = hello /\ session = Session
  <2>1. "rtmp" \notin DOMAIN Requests
    BY RequestsAssumption
  <2> QED
    BY <2>1 DEF Init
<1>2. hello \in Seq(Tokens) /\ Len(hello) = 4
  <2>1. PICK version \in Versions, zero \in {"0", "c1.version"}, body \in Bodies :
          hello = <<version, "c1.time", zero, body>>
    BY <1>1 DEF Hellos
  <2>2. version \in Tokens /\ "c1.time" \in Tokens /\ zero \in Tokens /\ body \in Tokens
    BY <2>1 DEF Tokens
  <2> QED
    BY <2>1, <2>2
<1>3. HandshakeTypes
  <2>1. Session \in [handshake_status : Statuses, version : Tokens, heard : Seq(Tokens)]
    <3>1. "3" \in Tokens /\ <<>> \in Seq(Tokens) /\ "kStatus_0" \in Statuses
      BY DEF Tokens, Statuses
    <3> QED
      BY <3>1 DEF Session
  <2>2. read_buffer_ = <<>> /\ said = <<>> /\ handling = FALSE /\ short = FALSE /\ state = "open"
    BY DEF Init
  <2>3. <<>> \in Seq(Tokens)
    OBVIOUS
  <2>4. /\ request \in Seq(Tokens) /\ wire \in Seq(Tokens)
        /\ Len(request) = 4 /\ ~(Len(request) = 9)
    BY <1>1, <1>2
  <2> QED
    BY <1>1, <2>1, <2>2, <2>3, <2>4 DEF HandshakeTypes
<1>4. ~Replied(session) /\ Consumed(session) = 0 /\ session.heard = <<>> /\ session.handshake_status = "kStatus_0"
  BY <1>1 DEF Replied, Session, Consumed
<1>5. BeforeReply
  BY <1>1, <1>2, <1>4 DEF Init, BeforeReply
<1>6. session.heard \o (read_buffer_ \o wire) = Behind(request, Consumed(session))
  <2>1. <<>> \o (<<>> \o hello) = hello
    BY <1>2, ConcatEmptySeq
  <2>2. Behind(hello, 0) = hello
    BY <1>2, BehindNone
  <2> QED
    BY <1>1, <1>4, <2>1, <2>2 DEF Init
<1>7. InStep
  BY <1>1, <1>2, <1>4, <1>6 DEF Init, InStep, Starved
<1> QED
  BY <1>3, <1>4, <1>5, <1>7 DEF Init, HandshakeInv

LEMMA GoOnKeepsStep ==
  ASSUME HandshakeInv, protocol = "rtmp", GoOn
  PROVE  HandshakeInv'
<1>0. HandshakeTypes /\ BeforeReply /\ InStep
  BY DEF HandshakeInv
<1>1. PICK more : /\ Goes(request, more) /\ Len(said) >= 4
                  /\ request' = request \o more /\ wire' = wire \o more
  <2>1. \/ /\ Len(said) >= 1 + 3 /\ Len(request) = 1 + 3
           /\ request' = request \o C2 /\ wire' = wire \o C2
        \/ /\ Len(said) >= 1 + 3 + 3 /\ Len(request) = 1 + 3 + 3
           /\ request' = request \o Chunks /\ wire' = wire \o Chunks
    BY DEF GoOn, s0_len, s1_len, s2_len
  <2>2. Len(said) \in Nat /\ Len(request) \in Nat
    BY <1>0 DEF HandshakeTypes
  <2>3. CASE Len(request) = 1 + 3
    <3>1. Goes(request, C2) /\ Len(said) >= 4 /\ request' = request \o C2 /\ wire' = wire \o C2
      BY <2>1, <2>2, <2>3 DEF Goes
    <3> QED
      BY <3>1
  <2>4. CASE Len(request) # 1 + 3
    <3>1. Goes(request, Chunks) /\ Len(said) >= 4 /\ request' = request \o Chunks /\ wire' = wire \o Chunks
      BY <2>1, <2>2, <2>4 DEF Goes
    <3> QED
      BY <3>1
  <2> QED
    BY <2>3, <2>4
<1>2. /\ state = "open"
      /\ UNCHANGED <<protocol, reads, read_buffer_, handling, session, said, heard, state, short, flv, played>>
  BY DEF GoOn
<1>3. /\ request \in Seq(Tokens) /\ wire \in Seq(Tokens) /\ read_buffer_ \in Seq(Tokens)
      /\ session.heard \in Seq(Tokens) /\ said \in Seq(Tokens)
  BY <1>0 DEF HandshakeTypes
<1>4. /\ more \in Seq(Tokens) /\ request' \in Seq(Tokens)
      /\ Len(request') = Len(request) + Len(more)
      /\ Len(request') = 7 \/ Len(request') = 9
      /\ Len(request') = 9 => Behind(request', 7) = Chunks
      /\ ReplyTo(request') = ReplyTo(request)
  <2>1. \A q \in Seq(Tokens) : \A m :
           Goes(q, m) => /\ m \in Seq(Tokens) /\ q \o m \in Seq(Tokens)
                         /\ Len(q \o m) = Len(q) + Len(m)
                         /\ Len(q \o m) = 7 \/ Len(q \o m) = 9
                         /\ Len(q \o m) = 9 => Behind(q \o m, 7) = Chunks
                         /\ ReplyTo(q \o m) = ReplyTo(q)
    BY RequestGrows
  <2> QED
    BY <2>1, <1>1, <1>3, Zenon
<1>5. Replied(session)
  <2>1. Len(<<>>) = 0
    OBVIOUS
  <2> QED
    BY <1>0, <1>1, <1>3, <2>1 DEF BeforeReply
<1>6. HandshakeTypes'
  <2>1. wire' \in Seq(Tokens)
    BY <1>1, <1>3, <1>4, ConcatProperties
  <2> QED
    BY <1>0, <1>2, <1>4, <2>1 DEF HandshakeTypes
<1>7. BeforeReply'
  BY <1>2, <1>5 DEF BeforeReply, Replied
<1>8. InStep'
  <2> SUFFICES ASSUME ~short PROVE InStep'
    BY <1>2 DEF InStep
  <2>1. /\ Consumed(session) <= Len(request)
        /\ session.heard \o (read_buffer_ \o wire) = Behind(request, Consumed(session))
        /\ session.handshake_status # "kStatus_Done" => session.heard = <<>>
        /\ ~handling => Starved(session, read_buffer_)
    BY <1>0, <1>2 DEF InStep
  <2>2. Consumed(session) \in 0 .. Len(request)
    BY <2>1, <1>0, <1>3 DEF HandshakeTypes, Consumed, Statuses
  <2>3. Behind(request', Consumed(session)) = Behind(request, Consumed(session)) \o more
    BY <1>1, <1>3, <1>4, <2>2, BehindConcat
  <2>4. session.heard \o (read_buffer_ \o wire') = Behind(request', Consumed(session))
    <3>1. /\ Joined(session.heard, read_buffer_, wire, Behind(request, Consumed(session)))
          /\ Plus(wire, more, wire')
          /\ Plus(Behind(request, Consumed(session)), more, Behind(request', Consumed(session)))
      BY <1>1, <2>1, <2>3 DEF Joined, Plus
    <3>2. Joined(session.heard, read_buffer_, wire', Behind(request', Consumed(session)))
      BY <3>1, <1>3, <1>4, JoinedGrows
    <3> QED
      BY <3>2 DEF Joined
  <2>5. Consumed(session) <= Len(request')
    <3>1. Len(more) \in Nat /\ Len(request) \in Nat
      BY <1>3, <1>4
    <3> QED
      BY <1>4, <2>2, <3>1
  <2> QED
    BY <1>2, <2>1, <2>4, <2>5 DEF InStep, Consumed, Starved
<1>9. ~short' /\ Replied(session)' => said' = ReplyTo(request)'
  <2>1. ~short => said = ReplyTo(request)
    BY <1>5 DEF HandshakeInv
  <2> QED
    BY <1>2, <1>4, <2>1
<1> QED
  BY <1>2, <1>6, <1>7, <1>8, <1>9 DEF HandshakeInv

LEMMA OnReadKeepsStep ==
  ASSUME HandshakeInv, protocol = "rtmp", OnRead
  PROVE  HandshakeInv'
<1>0. HandshakeTypes /\ BeforeReply /\ InStep
  BY DEF HandshakeInv
<1>1. PICK n \in 1 .. MaxRead \cup {Len(wire)} :
        /\ n > 0 /\ n <= Len(wire)
        /\ read_buffer_' = read_buffer_ \o SubSeq(wire, 1, n)
        /\ wire' = SubSeq(wire, n + 1, Len(wire))
  BY DEF OnRead
<1>2. /\ ~handling /\ state = "open" /\ handling' = TRUE
      /\ UNCHANGED <<protocol, request, session, said, heard, state, short, flv, played>>
  BY DEF OnRead
<1>3. /\ wire \in Seq(Tokens) /\ read_buffer_ \in Seq(Tokens)
  BY <1>0 DEF HandshakeTypes
<1>4. n \in 0 .. Len(wire)
  BY <1>1, <1>3, FramesAssumption
<1>5. wire' = Behind(wire, n)
  BY <1>1 DEF Behind
<1>6. read_buffer_' \o wire' = read_buffer_ \o wire /\ read_buffer_' \in Seq(Tokens) /\ wire' \in Seq(Tokens)
  <2>1. Moves(read_buffer_, wire, n, read_buffer_', wire')
    BY <1>1, <1>5 DEF Moves
  <2>2. /\ read_buffer_' \in Seq(Tokens) /\ wire' \in Seq(Tokens)
        /\ Same(read_buffer_', wire', read_buffer_, wire)
    BY <1>3, <1>4, <2>1, ReadMoves
  <2> QED
    BY <2>2 DEF Same
<1>7. HandshakeTypes'
  BY <1>0, <1>2, <1>5, <1>6 DEF HandshakeTypes
<1>8. BeforeReply'
  BY <1>0, <1>2 DEF BeforeReply, Replied
<1>9. InStep'
  BY <1>0, <1>2, <1>6 DEF InStep, Consumed
<1>10. ReplyTo(request)' = ReplyTo(request) /\ Replied(session)' = Replied(session)
  BY <1>2
<1> QED
  BY <1>2, <1>7, <1>8, <1>9, <1>10 DEF HandshakeInv

\* b and w are what is left of q behind c.
Left(b, w, q, c) == <<>> \o (b \o w) = Behind(q, c)

\* What is taken of the buffer is taken of what is left of the request.
LEMMA Taken ==
  ASSUME NEW S, NEW b \in Seq(S), NEW w \in Seq(S), NEW q \in Seq(S),
         NEW c \in 0 .. Len(q), Left(b, w, q, c), NEW n \in 0 .. Len(b)
  PROVE  /\ c + n \in 0 .. Len(q) /\ Len(b) + Len(w) = Len(q) - c
         /\ Left(Behind(b, n), w, q, c + n)
         /\ \A k \in 1 .. Len(b) : b[k] = q[c + k]
<1> DEFINE r == Behind(q, c)
           u == b \o w
<1>1. /\ r \in Seq(S) /\ Len(r) = Len(q) - c
      /\ \A i \in 1 .. Len(q) - c : r[i] = q[c + i]
  BY BehindProperties
<1>2. /\ u \in Seq(S) /\ Len(u) = Len(b) + Len(w)
      /\ \A i \in 1 .. Len(b) + Len(w) : u[i] = IF i <= Len(b) THEN b[i] ELSE w[i - Len(b)]
  BY ConcatProperties
<1>3. u = r
  <2>1. ASSUME NEW x \in Seq(S) PROVE <<>> \o x = x
    BY ConcatEmptySeq
  <2> QED
    BY <1>2, <2>1 DEF Left
<1>4. Behind(u, n) = Behind(b, n) \o w
  BY BehindConcat
<1> HIDE DEF r, u
<1>5. Len(b) + Len(w) = Len(q) - c
  BY <1>1, <1>2, <1>3
<1>6. Len(b) \in Nat /\ Len(w) \in Nat
  OBVIOUS
<1>7. c + n \in 0 .. Len(q) /\ n \in 0 .. Len(q) - c
  BY <1>5, <1>6
<1>8. Behind(r, n) = Behind(q, c + n)
  BY <1>7, BehindBehind DEF r
<1>9. Behind(b, n) \o w = Behind(q, c + n)
  BY <1>3, <1>4, <1>8
<1>10. Left(Behind(b, n), w, q, c + n)
  <2>1. Behind(b, n) \o w \in Seq(S)
    BY <1>7, <1>9, BehindProperties
  <2>2. ASSUME NEW x \in Seq(S) PROVE <<>> \o x = x
    BY ConcatEmptySeq
  <2> QED
    BY <1>9, <2>1, <2>2 DEF Left
<1>11. ASSUME NEW k \in 1 .. Len(b) PROVE b[k] = q[c + k]
  <2>1. k \in 1 .. Len(b) + Len(w) /\ k <= Len(b) /\ k \in 1 .. Len(q) - c
    BY <1>5, <1>6
  <2> QED
    BY <2>1, <1>1, <1>2, <1>3
<1> QED
  BY <1>5, <1>7, <1>10, <1>11

\* The handler waits for more.
LEMMA WaitsInStep ==
  ASSUME HandshakeInv, protocol = "rtmp", state = "open", Starved(session, read_buffer_),
         session' = session, read_buffer_' = read_buffer_, said' = said, state' = "open",
         handling' = FALSE, short' = short, UNCHANGED <<protocol, request, wire>>
  PROVE  HandshakeInv'
<1>0. HandshakeTypes /\ BeforeReply /\ InStep
  BY DEF HandshakeInv
<1>1. HandshakeTypes'
  BY <1>0 DEF HandshakeTypes
<1>2. BeforeReply'
  BY <1>0 DEF BeforeReply, Replied
<1>3. InStep'
  BY <1>0 DEF InStep, Consumed, Starved
<1>4. ReplyTo(request)' = ReplyTo(request) /\ Replied(session)' = Replied(session)
  OBVIOUS
<1> QED
  BY <1>1, <1>2, <1>3, <1>4 DEF HandshakeInv

\* The handler has taken n more of the request, and goes on to the next status.
LEMMA TakesInStep ==
  ASSUME HandshakeInv, protocol = "rtmp", state = "open",
         NEW n \in Nat, n <= Len(read_buffer_),
         session'.handshake_status # "kStatus_0",
         session' \in [handshake_status : Statuses, version : Tokens, heard : Seq(Tokens)],
         session'.heard = session.heard, session.handshake_status # "kStatus_Done",
         Consumed(session') = Consumed(session) + n, Replied(session') <=> Replied(session),
         session'.handshake_status = "kStatus_1" => session'.version = request[1],
         read_buffer_' = Behind(read_buffer_, n), said' = said, state' = "open",
         handling' = TRUE, short' = short, UNCHANGED <<protocol, request, wire>>
  PROVE  HandshakeInv'
<1>0. HandshakeTypes /\ BeforeReply /\ InStep
  BY DEF HandshakeInv
<1>1. read_buffer_ \in Seq(Tokens) /\ wire \in Seq(Tokens) /\ request \in Seq(Tokens)
  BY <1>0 DEF HandshakeTypes
<1>2. n \in 0 .. Len(read_buffer_)
  BY <1>1
<1>3. HandshakeTypes'
  <2>1. Behind(read_buffer_, n) \in Seq(Tokens)
    BY <1>1, <1>2, BehindProperties
  <2> QED
    BY <1>0, <2>1 DEF HandshakeTypes
<1>4. BeforeReply'
  BY <1>0 DEF BeforeReply
<1>5. InStep'
  <2> SUFFICES ASSUME ~short PROVE InStep'
    BY DEF InStep
  <2>1. /\ Consumed(session) <= Len(request) /\ session.heard = <<>>
        /\ session.heard \o (read_buffer_ \o wire) = Behind(request, Consumed(session))
    BY <1>0 DEF InStep
  <2>2. Consumed(session) \in 0 .. Len(request)
    <3>1. Consumed(session) \in Nat /\ Len(request) \in Nat
      BY <1>0, <1>1 DEF HandshakeTypes, Consumed, Statuses
    <3> QED
      BY <2>1, <3>1
  <2>3. Left(read_buffer_, wire, request, Consumed(session))
    BY <2>1 DEF Left
  <2>4. /\ Consumed(session) + n \in 0 .. Len(request)
        /\ Left(Behind(read_buffer_, n), wire, request, Consumed(session) + n)
    BY <1>1, <1>2, <2>2, <2>3, Taken
  <2>5. Consumed(session') <= Len(request)
    BY <1>1, <2>4
  <2>6. session'.heard \o (read_buffer_' \o wire') = Behind(request', Consumed(session'))
    BY <2>1, <2>4 DEF Left
  <2> QED
    BY <2>1, <2>5, <2>6 DEF InStep, Consumed
<1>6. ReplyTo(request)' = ReplyTo(request) /\ Replied(session)' = Replied(session)
  BY DEF Replied
<1> QED
  BY <1>3, <1>4, <1>5, <1>6 DEF HandshakeInv

\* The reply is written with no more of the request in the buffer than C0 and
\* C1, since the client waits for it.
LEMMA BeforeC2 ==
  ASSUME HandshakeInv, protocol = "rtmp", state = "open", session.handshake_status = "kStatus_1",
         Len(read_buffer_) >= 3
  PROVE  /\ request \in Seq(Tokens) /\ Len(request) = 4 /\ ~short /\ said = <<>> /\ session.heard = <<>>
         /\ session.version = request[1]
         /\ read_buffer_ \in Seq(Tokens) /\ Len(read_buffer_) = 3 /\ wire = <<>>
         /\ read_buffer_[1] = request[2] /\ read_buffer_[2] = request[3]
         /\ read_buffer_[3] = request[4]
<1>0. HandshakeTypes /\ BeforeReply /\ InStep
  BY DEF HandshakeInv
<1>1. read_buffer_ \in Seq(Tokens) /\ wire \in Seq(Tokens) /\ request \in Seq(Tokens)
  BY <1>0 DEF HandshakeTypes
<1>2. /\ Len(request) = 4 /\ ~short /\ said = <<>> /\ session.heard = <<>>
      /\ session.version = request[1] /\ Consumed(session) = 1
  BY <1>0 DEF BeforeReply, Replied, Consumed
<1>3. Left(read_buffer_, wire, request, 1)
  BY <1>0, <1>2 DEF InStep, Left
<1>4. 1 \in 0 .. Len(request) /\ 0 \in 0 .. Len(read_buffer_)
  <2>1. Len(read_buffer_) \in Nat
    BY <1>1
  <2> QED
    BY <1>2, <2>1
<1>5. /\ Len(read_buffer_) + Len(wire) = Len(request) - 1
      /\ \A k \in 1 .. Len(read_buffer_) : read_buffer_[k] = request[1 + k]
  BY <1>1, <1>3, <1>4, Taken
<1>6. Len(read_buffer_) = 3 /\ Len(wire) = 0
  <2>1. Len(read_buffer_) \in Nat /\ Len(wire) \in Nat
    BY <1>1
  <2>2. Len(read_buffer_) + Len(wire) = 3
    BY <1>2, <1>5
  <2>3. ASSUME NEW x \in Nat, NEW y \in Nat, x + y = 3, x >= 3 PROVE x = 3 /\ y = 0
    BY <2>3
  <2> QED
    BY <2>1, <2>2, <2>3
<1>7. wire = <<>>
  BY <1>1, <1>6
<1>8. read_buffer_[1] = request[2] /\ read_buffer_[2] = request[3] /\ read_buffer_[3] = request[4]
  BY <1>5, <1>6
<1> QED
  BY <1>1, <1>2, <1>6, <1>7, <1>8

LEMMA RepliesInStep ==
  ASSUME HandshakeInv, protocol = "rtmp", state = "open", session.handshake_status = "kStatus_1",
         Len(read_buffer_) >= 3, NEW room \in 0 .. 7, NEW r,
         r = WriteToFd(session, Behind(read_buffer_, 3) \o ReplyTo(request), room),
         session' = r.session, read_buffer_' = r.rest, said' = said \o r.sent,
         state' = "open", handling' = TRUE, short' = (short \/ room < 7),
         UNCHANGED <<protocol, request, wire>>
  PROVE  HandshakeInv'
<1>0. HandshakeTypes
  BY DEF HandshakeInv
<1>1. /\ request \in Seq(Tokens) /\ Len(request) = 4 /\ ~short /\ said = <<>> /\ session.heard = <<>>
      /\ read_buffer_ \in Seq(Tokens) /\ Len(read_buffer_) = 3 /\ wire = <<>>
  BY BeforeC2
<1> DEFINE buffer == Behind(read_buffer_, 3) \o ReplyTo(request)
           taken == IF room < Len(buffer) THEN room ELSE Len(buffer)
<1>2. buffer = ReplyTo(request) /\ buffer \in Seq(Tokens) /\ Len(buffer) = 7
  <2>1. request \o <<>> = request
    BY <1>1, ConcatEmptySeq
  <2>2. ReplyTo(request) \in Seq(Tokens) /\ Len(ReplyTo(request)) = 7
    <3>1. <<>> \in Seq(Tokens) /\ Len(request) >= 4
      BY <1>1
    <3> QED
      BY <1>1, <3>1, ReplyIsToC1
  <2>3. Behind(read_buffer_, 3) = <<>>
    <3>1. Behind(read_buffer_, Len(read_buffer_)) = <<>>
      BY <1>1, BehindAll
    <3> QED
      BY <1>1, <3>1
  <2>4. ASSUME NEW x \in Seq(Tokens) PROVE <<>> \o x = x
    BY ConcatEmptySeq
  <2> QED
    BY <2>2, <2>3, <2>4
<1> HIDE DEF buffer
<1>3. taken \in 0 .. Len(buffer) /\ (room < 7 \/ taken = 7)
  BY <1>2
<1>4. /\ session' = [session EXCEPT !.handshake_status = "kStatus_2"]
      /\ read_buffer_' = Behind(buffer, taken) /\ said' = said \o SubSeq(buffer, 1, taken)
  BY DEF WriteToFd, Outcome, buffer
<1> HIDE DEF taken
<1>5. /\ Behind(buffer, taken) \in Seq(Tokens) /\ SubSeq(buffer, 1, taken) \in Seq(Tokens)
      /\ said' = SubSeq(buffer, 1, taken)
  <2>1. Behind(buffer, taken) \in Seq(Tokens) /\ SubSeq(buffer, 1, taken) \in Seq(Tokens)
    BY <1>2, <1>3, BehindProperties, FrontProperties
  <2>2. ASSUME NEW x \in Seq(Tokens) PROVE <<>> \o x = x
    BY ConcatEmptySeq
  <2> QED
    BY <1>1, <1>4, <2>1, <2>2
<1>6. HandshakeTypes'
  <2>1. session' \in [handshake_status : Statuses, version : Tokens, heard : Seq(Tokens)]
    BY <1>0, <1>4 DEF HandshakeTypes, Statuses
  <2>2. short' \in BOOLEAN /\ handling' \in BOOLEAN /\ state' \in {"open", "closed", "aborted"}
    OBVIOUS
  <2> QED
    BY <1>0, <1>4, <1>5, <2>1, <2>2 DEF HandshakeTypes
<1>7. /\ session'.handshake_status = "kStatus_2" /\ session'.heard = <<>> /\ Replied(session')
      /\ Consumed(session') = 4
  BY <1>0, <1>1, <1>4 DEF HandshakeTypes, Replied, Consumed
<1>8. BeforeReply'
  BY <1>7 DEF BeforeReply
<1>9. short' \/ (read_buffer_' = <<>> /\ said' = ReplyTo(request))
  <2> SUFFICES ASSUME taken = 7 PROVE read_buffer_' = <<>> /\ said' = ReplyTo(request)
    BY <1>3
  <2>1. Behind(buffer, Len(buffer)) = <<>> /\ SubSeq(buffer, 1, Len(buffer)) = buffer
    BY <1>2, BehindAll, SubSeqFull
  <2> QED
    BY <1>2, <1>4, <1>5, <2>1
<1>10. InStep'
  <2> SUFFICES ASSUME ~short' PROVE InStep'
    BY DEF InStep
  <2>1. Behind(request, 4) = <<>>
    BY <1>1, BehindAll
  <2>2. <<>> \o (<<>> \o <<>>) = <<>>
    OBVIOUS
  <2>3. session'.heard \o (read_buffer_' \o wire') = Behind(request', 4)
    BY <1>1, <1>7, <1>9, <2>1, <2>2
  <2>4. 4 <= Len(request')
    BY <1>1
  <2> QED
    BY <1>7, <2>3, <2>4 DEF InStep
<1>11. ~short' => said' = ReplyTo(request)'
  BY <1>9
<1> QED
  BY <1>6, <1>7, <1>8, <1>10, <1>11 DEF HandshakeInv

LEMMA HandleRtmpKeepsStep ==
  ASSUME HandshakeInv, protocol = "rtmp", HandleRtmp
  PROVE  HandshakeInv'
<1>0. HandshakeTypes /\ BeforeReply /\ InStep
  BY DEF HandshakeInv
<1>parsed. PICK room \in 0 .. 7 :
        \E r :
            /\ r = RtmpParse(session, read_buffer_, room)
            /\ session' = r.session /\ read_buffer_' = r.rest /\ said' = said \o r.sent
            /\ state' = After(r.ret) /\ handling' = (r.ret = kSuccess)
            /\ short' = (short \/ (~Replied(session) /\ Replied(r.session) /\ room < 7))
  BY DEF HandleRtmp
<1>1. PICK r :
        /\ r = RtmpParse(session, read_buffer_, room)
        /\ session' = r.session /\ read_buffer_' = r.rest /\ said' = said \o r.sent
        /\ state' = After(r.ret) /\ handling' = (r.ret = kSuccess)
        /\ short' = (short \/ (~Replied(session) /\ Replied(r.session) /\ room < 7))
  BY <1>parsed
<1>2. handling /\ UNCHANGED <<protocol, request, wire>>
  BY DEF HandleRtmp
<1>3. /\ request \in Seq(Tokens) /\ wire \in Seq(Tokens) /\ read_buffer_ \in Seq(Tokens)
      /\ said \in Seq(Tokens) /\ state = "open" /\ short \in BOOLEAN
      /\ session \in [handshake_status : Statuses, version : Tokens, heard : Seq(Tokens)]
  BY <1>0, <1>2 DEF HandshakeTypes
<1>4. Len(read_buffer_) \in Nat
  BY <1>3
<1>5. said \o <<>> = said
  BY <1>3, ConcatEmptySeq
<1>6. After("kNoEnoughData") = "open" /\ After("kSuccess") = "open" /\ kSuccess = "kSuccess"
  BY DEF After, kSuccess, kClose, kError
<1>12. ASSUME NEW s, NEW ret, NEW rest, r = Outcome(s, ret, rest, <<>>),
              Replied(session) \/ ~Replied(s)
       PROVE  /\ session' = s /\ read_buffer_' = rest /\ said' = said /\ short' = short
              /\ state' = After(ret) /\ (ret = "kSuccess" => handling' = TRUE)
              /\ (ret # "kSuccess" => handling' = FALSE)
  <2>1. r.session = s /\ r.rest = rest /\ r.sent = <<>> /\ r.ret = ret
    BY <1>12 DEF Outcome
  <2>2. said' = said \o <<>>
    BY <1>1, <2>1
  <2>3. short' = (short \/ (~Replied(session) /\ Replied(s) /\ room < 7))
    BY <1>1, <2>1
  <2>4. short' = short
    BY <2>3, <1>3, <1>12
  <2>5. handling' = (ret = "kSuccess")
    BY <1>1, <1>6, <2>1
  <2> QED
    BY <1>1, <1>5, <2>1, <2>2, <2>4, <2>5
<1>7. ASSUME r = NotEnough(session, read_buffer_), Starved(session, read_buffer_)
      PROVE  HandshakeInv'
  <2>1. /\ session' = session /\ read_buffer_' = read_buffer_ /\ said' = said
        /\ state' = "open" /\ handling' = FALSE /\ short' = short
    <3>1. r = Outcome(session, "kNoEnoughData", read_buffer_, <<>>)
      BY <1>7 DEF NotEnough
    <3>2. /\ session' = session /\ read_buffer_' = read_buffer_ /\ said' = said /\ short' = short
          /\ state' = After("kNoEnoughData") /\ ("kNoEnoughData" # "kSuccess" => handling' = FALSE)
      <4>1. r.session = session /\ r.rest = read_buffer_ /\ r.sent = <<>> /\ r.ret = "kNoEnoughData"
        BY <3>1 DEF Outcome
      <4>2. said' = said \o <<>>
        BY <1>1, <4>1
      <4>3. short' = (short \/ (~Replied(session) /\ Replied(session) /\ room < 7))
        BY <1>1, <4>1
      <4>4. short' = short
        BY <4>3, <1>3
      <4>5. handling' = FALSE
        BY <1>1, <1>6, <4>1
      <4> QED
        BY <1>1, <1>5, <4>1, <4>2, <4>4, <4>5
    <3> QED
      BY <1>6, <3>2
  <2> QED
    BY <2>1, <1>2, <1>3, <1>7, WaitsInStep
<1>8. CASE session.handshake_status = "kStatus_0"
  <2>0. r = ReadC0(session, read_buffer_)
    BY <1>8, <1>1 DEF RtmpParse
  <2>1. CASE Len(read_buffer_) < 1
    <3>1. Starved(session, read_buffer_)
      BY <1>3, <1>4, <1>8, <2>1 DEF Starved
    <3>2. r = NotEnough(session, read_buffer_)
      BY <2>0, <2>1 DEF ReadC0, s0_len
    <3> QED
      BY <3>1, <3>2, <1>7
  <2>2. CASE ~(Len(read_buffer_) < 1)
    <3>1. r = Outcome([session EXCEPT !.version = read_buffer_[1], !.handshake_status = "kStatus_1"],
                      "kSuccess", Behind(read_buffer_, 1), <<>>)
      BY <2>0, <2>2 DEF ReadC0, s0_len
    <3>2. read_buffer_[1] \in Tokens /\ 1 <= Len(read_buffer_) /\ 1 \in 1 .. Len(read_buffer_)
      BY <1>3, <1>4, <2>2
    <3>3. /\ session' \in [handshake_status : Statuses, version : Tokens, heard : Seq(Tokens)]
          /\ session'.heard = session.heard /\ session'.handshake_status = "kStatus_1"
          /\ session'.version = read_buffer_[1]
      <4>1. session' = [session EXCEPT !.version = read_buffer_[1], !.handshake_status = "kStatus_1"]
        BY <1>1, <3>1 DEF Outcome
      <4>2. "kStatus_1" \in Statuses
        BY DEF Statuses
      <4> QED
        BY <1>3, <3>2, <4>1, <4>2
    <3>4. ~Replied(session) /\ ~Replied(session') /\ Consumed(session) = 0 /\ Consumed(session') = 0 + 1
      BY <1>8, <3>3 DEF Replied, Consumed
    <3>5. /\ read_buffer_' = Behind(read_buffer_, 1) /\ said' = said /\ state' = "open"
          /\ handling' = TRUE /\ short' = short
      <4>1. session' = [session EXCEPT !.version = read_buffer_[1], !.handshake_status = "kStatus_1"]
        BY <1>1, <3>1 DEF Outcome
      <4> QED
        BY <1>6, <1>12, <3>1, <3>4, <4>1
    <3>6. read_buffer_[1] = request[1]
      <4>1. ~short /\ session.heard = <<>> /\ Len(request) = 4
        BY <1>0, <3>4 DEF BeforeReply
      <4>2. Left(read_buffer_, wire, request, 0)
        BY <1>0, <1>3, <3>4, <4>1 DEF InStep, Left
      <4>3. 0 \in 0 .. Len(request) /\ 1 \in 0 .. Len(read_buffer_)
        BY <1>4, <3>2, <4>1
      <4>4. \A k \in 1 .. Len(read_buffer_) : read_buffer_[k] = request[0 + k]
        <5> DEFINE b == read_buffer_
                   w == wire
                   q == request
        <5>1. b \in Seq(Tokens) /\ w \in Seq(Tokens) /\ q \in Seq(Tokens) /\ Left(b, w, q, 0)
              /\ 0 \in 0 .. Len(q) /\ 1 \in 0 .. Len(b)
          BY <1>3, <4>2, <4>3
        <5> HIDE DEF b, w, q
        <5>2. \A k \in 1 .. Len(b) : b[k] = q[0 + k]
          BY <5>1, Taken
        <5> QED
          BY <5>2 DEF b, q
      <4>5. 0 + 1 = 1
        OBVIOUS
      <4> QED
        BY <3>2, <4>4, <4>5
    <3>7. session'.handshake_status # "kStatus_0" /\ session.handshake_status # "kStatus_Done"
      BY <1>8, <3>3
    <3> QED
      BY <1>2, <1>3, <3>2, <3>3, <3>4, <3>5, <3>6, <3>7, TakesInStep
  <2> QED
    BY <2>1, <2>2
<1>9. CASE session.handshake_status = "kStatus_1"
  <2>0. r = ReadC1(session, read_buffer_, room)
    BY <1>9, <1>1 DEF RtmpParse
  <2>1. CASE Len(read_buffer_) < 3
    <3>1. Starved(session, read_buffer_)
      BY <1>9, <2>1 DEF Starved
    <3>2. r = NotEnough(session, read_buffer_)
      BY <2>0, <2>1 DEF ReadC1, s1_len
    <3> QED
      BY <3>1, <3>2, <1>7
  <2>2. CASE ~(Len(read_buffer_) < 3)
    <3>0. Len(read_buffer_) >= 3
      BY <1>4, <2>2
    <3>1. /\ Len(request) = 4 /\ ~short /\ said = <<>> /\ session.heard = <<>>
          /\ session.version = request[1] /\ Len(read_buffer_) = 3
          /\ read_buffer_[1] = request[2] /\ read_buffer_[2] = request[3]
          /\ read_buffer_[3] = request[4]
      BY <1>3, <1>9, <3>0, BeforeC2
    <3>2. ~Replied(session)
      BY <1>9 DEF Replied
    <3>3. ASSUME NEW ret, NEW rest \in Seq(Tokens), r = Outcome(session, ret, rest, <<>>),
                 ret = "assert" \/ ret = "kClose", ret = "assert" => request[1] # "3"
          PROVE  HandshakeInv'
      <4>1. /\ session' = session /\ read_buffer_' = rest /\ said' = said /\ short' = short
            /\ state' = After(ret) /\ handling' = FALSE
        BY <1>12, <3>2, <3>3
      <4>2. \/ ret = "assert" /\ state' = "aborted"
            \/ ret = "kClose" /\ state' = "closed"
        BY <3>3, <4>1 DEF After, kClose, kError
      <4>3. HandshakeTypes'
        BY <1>0, <1>2, <4>1, <4>2 DEF HandshakeTypes
      <4>4. BeforeReply'
        BY <1>0, <1>2, <4>1 DEF BeforeReply, Replied
      <4>5. InStep'
        BY <4>2 DEF InStep
      <4>6. ~Replied(session)'
        BY <3>2, <4>1
      <4> QED
        BY <1>2, <3>3, <4>2, <4>3, <4>4, <4>5, <4>6 DEF HandshakeInv
    <3>4. CASE session.version # "3"
      <4>1. r = Outcome(session, "assert", read_buffer_, <<>>)
        BY <2>0, <2>2, <3>4 DEF ReadC1, s1_len
      <4> QED
        BY <1>3, <3>1, <3>3, <3>4, <4>1
    <3>5. ASSUME NEW reply, reply = ReplyTo(request),
                 r = WriteToFd(session, Behind(read_buffer_, 3) \o reply, room)
          PROVE  HandshakeInv'
      <4>1. r.ret = "kSuccess" /\ Replied(r.session)
        BY <1>3, <3>5 DEF WriteToFd, Outcome, Replied
      <4>2. /\ session' = r.session /\ read_buffer_' = r.rest /\ said' = said \o r.sent
            /\ state' = "open" /\ handling' = TRUE /\ short' = (short \/ room < 7)
        BY <1>1, <1>6, <3>2, <4>1
      <4>3. r = WriteToFd(session, Behind(read_buffer_, 3) \o ReplyTo(request), room)
        BY <3>5
      <4> QED
        BY <1>2, <1>3, <1>9, <3>0, <4>2, <4>3, RepliesInStep
    <3>6. CASE session.version = "3" /\ read_buffer_[2] = "0"
      <4>1. r = WriteToFd(session, Behind(read_buffer_, 3) \o SimpleReply(session.version, read_buffer_), room)
        BY <2>0, <2>2, <3>6 DEF ReadC1, s1_len
      <4>2. SimpleReply(session.version, read_buffer_) = ReplyTo(request)
        BY <3>1, <3>6 DEF SimpleReply, ReplyTo
      <4> QED
        BY <3>5, <4>1, <4>2
    <3>7. CASE session.version = "3" /\ read_buffer_[2] # "0" /\ Scheme(read_buffer_[3]) = -1
      <4>1. r = Outcome(session, "kClose", Behind(read_buffer_, 3), <<>>)
        BY <2>0, <2>2, <3>7 DEF ReadC1, s1_len
      <4>2. Behind(read_buffer_, 3) \in Seq(Tokens)
        <5>1. 3 \in 0 .. Len(read_buffer_)
          BY <3>1
        <5> QED
          BY <1>3, <5>1, BehindProperties
      <4> QED
        BY <3>3, <4>1, <4>2
    <3>8. CASE session.version = "3" /\ read_buffer_[2] # "0" /\ Scheme(read_buffer_[3]) # -1
      <4>1. r = WriteToFd(session, Behind(read_buffer_, 3) \o ComplexReply(Scheme(read_buffer_[3])), room)
        BY <2>0, <2>2, <3>8 DEF ReadC1, s1_len
      <4>2. ComplexReply(Scheme(read_buffer_[3])) = ReplyTo(request)
        BY <3>1, <3>8 DEF ComplexReply, Scheme, S1Digest, S2Hash, ReplyTo
      <4> QED
        BY <3>5, <4>1, <4>2
    <3> QED
      BY <3>4, <3>6, <3>7, <3>8
  <2> QED
    BY <2>1, <2>2
<1>10. CASE session.handshake_status = "kStatus_2"
  <2>0. r = ReadC2(session, read_buffer_)
    BY <1>10, <1>1 DEF RtmpParse
  <2>1. CASE Len(read_buffer_) < 3
    <3>1. Starved(session, read_buffer_)
      BY <1>10, <2>1 DEF Starved
    <3>2. r = NotEnough(session, read_buffer_)
      BY <2>0, <2>1 DEF ReadC2, s2_len
    <3> QED
      BY <3>1, <3>2, <1>7
  <2>2. CASE ~(Len(read_buffer_) < 3)
    <3>1. r = Outcome([session EXCEPT !.handshake_status = "kStatus_Done"], "kSuccess",
                      Behind(read_buffer_, 3), <<>>)
      BY <2>0, <2>2 DEF ReadC2, s2_len
    <3>2. 3 <= Len(read_buffer_)
      BY <1>4, <2>2
    <3>3. /\ session' \in [handshake_status : Statuses, version : Tokens, heard : Seq(Tokens)]
          /\ session'.heard = session.heard /\ session'.handshake_status = "kStatus_Done"
      BY <1>1, <1>3, <3>1 DEF Outcome, Statuses
    <3>4. Replied(session) /\ Replied(session') /\ Consumed(session) = 4 /\ Consumed(session') = 4 + 3
      BY <1>10, <3>3 DEF Replied, Consumed
    <3>5. /\ read_buffer_' = Behind(read_buffer_, 3) /\ said' = said /\ state' = "open"
          /\ handling' = TRUE /\ short' = short
      <4>1. session' = [session EXCEPT !.handshake_status = "kStatus_Done"]
        BY <1>1, <3>1 DEF Outcome
      <4> QED
        BY <1>6, <1>12, <3>1, <3>4, <4>1
    <3>6. /\ session'.handshake_status # "kStatus_0" /\ session.handshake_status # "kStatus_Done"
          /\ session'.handshake_status # "kStatus_1"
      BY <1>10, <3>3
    <3> QED
      BY <1>2, <1>3, <3>2, <3>3, <3>4, <3>5, <3>6, TakesInStep
  <2> QED
    BY <2>1, <2>2
<1>11. CASE session.handshake_status = "kStatus_Done"
  <2>1. /\ session' = [session EXCEPT !.heard = session.heard \o read_buffer_]
        /\ read_buffer_' = <<>> /\ said' = said /\ state' = "open" /\ handling' = FALSE
    BY <1>1, <1>3, <1>5, <1>6, <1>11 DEF RtmpParse, ReadChunks, Outcome
  <2>2. Replied(session)
    BY <1>11 DEF Replied
  <2>3. session.heard \in Seq(Tokens) /\ session.heard \o read_buffer_ \in Seq(Tokens) /\ <<>> \in Seq(Tokens)
    BY <1>3, ConcatProperties
  <2>4. /\ session' \in [handshake_status : Statuses, version : Tokens, heard : Seq(Tokens)]
        /\ session'.heard = session.heard \o read_buffer_
        /\ session'.handshake_status = "kStatus_Done" /\ short' = short
    BY <1>1, <1>3, <1>11, <2>1, <2>2, <2>3
  <2>5. Replied(session') /\ Consumed(session') = 7 /\ Consumed(session) = 7
    BY <1>11, <2>4 DEF Replied, Consumed
  <2>6. HandshakeTypes'
    BY <1>0, <1>2, <2>1, <2>3, <2>4 DEF HandshakeTypes
  <2>7. BeforeReply'
    BY <2>5 DEF BeforeReply
  <2>8. InStep'
    <3> SUFFICES ASSUME ~short PROVE InStep'
      BY <2>4 DEF InStep
    <3>1. Consumed(session) <= Len(request) /\ session.heard \o (read_buffer_ \o wire) = Behind(request, 7)
      BY <1>0, <1>3, <2>5 DEF InStep
    <3>2. (session.heard \o read_buffer_) \o wire = session.heard \o (read_buffer_ \o wire)
      BY <1>3, <2>3, ConcatAssociative, SMTT(60)
    <3>3. <<>> \o wire = wire
      BY <1>3, ConcatEmptySeq
    <3>4. session'.heard \o (read_buffer_' \o wire') = Behind(request', 7)
      BY <1>2, <2>1, <2>4, <3>1, <3>2, <3>3
    <3>5. Starved(session', read_buffer_')
      BY <2>1, <2>4 DEF Starved
    <3> QED
      BY <1>2, <2>4, <2>5, <3>1, <3>4, <3>5 DEF InStep
  <2>9. ~short' => said' = ReplyTo(request)'
    BY <1>2, <2>1, <2>2, <2>4 DEF HandshakeInv
  <2> QED
    BY <1>2, <2>1, <2>5, <2>6, <2>7, <2>8, <2>9 DEF HandshakeInv
<1> QED
  BY <1>3, <1>8, <1>9, <1>10, <1>11 DEF Statuses

LEMMA InStepNow ==
  ASSUME HandshakeInv
  PROVE  HandshakeInStep
<1> SUFFICES ASSUME protocol = "rtmp" PROVE HandshakeInStep
  BY DEF HandshakeInStep
<1>0. HandshakeTypes /\ BeforeReply /\ InStep
  BY DEF HandshakeInv
<1>1. /\ request \in Seq(Tokens) /\ wire \in Seq(Tokens) /\ read_buffer_ \in Seq(Tokens)
      /\ state \in {"open", "closed", "aborted"}
      /\ session \in [handshake_status : Statuses, version : Tokens, heard : Seq(Tokens)]
      /\ Len(request) = 4 \/ Len(request) = 7 \/ Len(request) = 9
      /\ Len(request) = 9 => Behind(request, 7) = Chunks
  BY <1>0 DEF HandshakeTypes
<1>2. state = "aborted" => request[1] # "3"
  BY DEF HandshakeInv
<1> SUFFICES ASSUME ~short
             PROVE  /\ said \in {<<>>, ReplyTo(request)}
                    /\ Replied(session) => said # <<>>
                    /\ IsPrefix(session.heard, Chunks)
                    /\ wire = <<>> /\ ~handling /\ Len(request) > 7 => session.heard = Chunks
  BY <1>2 DEF HandshakeInStep
<1>8. /\ Len(request) >= 4 /\ (Len(request) > 7 => Len(request) = 9)
      /\ 7 <= Len(request) => Len(request) = 7 \/ Len(request) = 9
  <2>1. ASSUME NEW x \in Nat, x = 4 \/ x = 7 \/ x = 9
        PROVE  x >= 4 /\ (x > 7 => x = 9) /\ (7 <= x => x = 7 \/ x = 9)
    BY <2>1
  <2>2. Len(request) \in Nat
    BY <1>1
  <2>3. Len(request) = 4 \/ Len(request) = 7 \/ Len(request) = 9
    BY <1>1
  <2> QED
    BY <2>1, <2>2, <2>3
<1>3. said \in {<<>>, ReplyTo(request)}
  BY <1>0 DEF HandshakeInv, BeforeReply
<1>4. Replied(session) => said # <<>>
  <2>1. Len(request) >= 4
    BY <1>8
  <2>2. <<>> \in Seq(Tokens)
    OBVIOUS
  <2>3. Len(ReplyTo(request)) = 7
    BY <1>1, <2>1, <2>2, ReplyIsToC1
  <2>4. Replied(session) => said = ReplyTo(request)
    BY DEF HandshakeInv
  <2> QED
    BY <2>3, <2>4
<1>5. \/ session.handshake_status # "kStatus_Done" /\ session.heard = <<>>
      \/ session.handshake_status = "kStatus_Done" /\ state = "open"
  <2>1. CASE ~Replied(session)
    BY <1>0, <2>1 DEF BeforeReply, Replied
  <2>2. CASE Replied(session)
    <3>1. state = "open"
      BY <2>2 DEF HandshakeInv
    <3> QED
      BY <1>0, <3>1 DEF InStep
  <2> QED
    BY <2>1, <2>2
<1>6. CASE session.handshake_status # "kStatus_Done" /\ session.heard = <<>>
  <2>1. IsPrefix(<<>>, Chunks)
    BY SubSeqEmpty DEF IsPrefix, Chunks
  <2>2. ASSUME wire = <<>>, ~handling, Len(request) > 7 PROVE FALSE
    <3>1. Len(request) = 9
      BY <1>8, <2>2
    <3>2. Replied(session) /\ state = "open"
      BY <1>0, <3>1 DEF BeforeReply, HandshakeInv
    <3>3. session.handshake_status = "kStatus_2"
      BY <1>6, <3>2 DEF Replied
    <3>4. Left(read_buffer_, wire, request, 4) /\ Len(read_buffer_) < 3
      BY <1>0, <1>6, <2>2, <3>2, <3>3 DEF InStep, Consumed, Starved, Left
    <3>5. 4 \in 0 .. Len(request) /\ 0 \in 0 .. Len(read_buffer_)
      <4>1. Len(read_buffer_) \in Nat
        BY <1>1
      <4> QED
        BY <3>1, <4>1
    <3>6. Len(read_buffer_) + Len(wire) = Len(request) - 4
      BY <1>1, <3>4, <3>5, Taken
    <3>7. Len(wire) = 0 /\ Len(read_buffer_) \in Nat
      BY <1>1, <2>2
    <3>8. Len(read_buffer_) + 0 = 5
      BY <3>1, <3>6, <3>7
    <3> QED
      BY <3>4, <3>7, <3>8
  <2> QED
    BY <1>3, <1>4, <1>6, <2>1, <2>2
<1>7. CASE session.handshake_status = "kStatus_Done" /\ state = "open"
  <2>1. /\ session.heard \o (read_buffer_ \o wire) = Behind(request, 7) /\ 7 <= Len(request)
        /\ ~handling => read_buffer_ = <<>>
    BY <1>0, <1>7 DEF InStep, Consumed, Starved
  <2> DEFINE h == session.heard
             t == read_buffer_ \o wire
  <2>2. h \in Seq(Tokens) /\ t \in Seq(Tokens)
    BY <1>1, ConcatProperties
  <2>3. h \o t = Behind(request, 7)
    BY <2>1
  <2>4. wire = <<>> /\ ~handling => t = <<>>
    BY <2>1
  <2> HIDE DEF h, t
  <2>5. Len(request) = 7 \/ Len(request) = 9
    BY <1>8, <2>1
  <2>6. CASE Len(request) = 7
    <3>1. Behind(request, 7) = <<>>
      <4>1. Behind(request, Len(request)) = <<>>
        BY <1>1, BehindAll
      <4> QED
        BY <2>6, <4>1
    <3>2. h = <<>>
      BY <2>2, <2>3, <3>1
    <3>3. IsPrefix(<<>>, Chunks)
      BY SubSeqEmpty DEF IsPrefix, Chunks
    <3>4. ~(Len(request) > 7)
      BY <2>6
    <3> QED
      BY <1>3, <1>4, <3>2, <3>3, <3>4 DEF h
  <2>7. CASE Len(request) = 9
    <3>1. h \o t = Chunks
      BY <1>1, <2>3, <2>7
    <3>2. IsPrefix(h, Chunks)
      <4>0. 0 \in 0 .. Len(t) /\ Len(h) \in 0 .. Len(h \o t) /\ Len(h) <= Len(h \o t)
        BY <2>2
      <4>1. SubSeq(h \o t, 1, Len(h)) = h
        <5>1. \A i \in 1 .. Len(h) : (h \o t)[i] = h[i]
          BY <2>2
        <5>2. h \o t \in Seq(Tokens)
          BY <2>2, ConcatProperties
        <5> DEFINE u == h \o t
                   g == SubSeq(u, 1, Len(h))
        <5>3. g \in Seq(Tokens) /\ Len(g) = Len(h) /\ \A i \in 1 .. Len(h) : g[i] = u[i]
          <6>1. u \in Seq(Tokens) /\ Len(h) \in 0 .. Len(u)
            BY <4>0, <5>2
          <6> HIDE DEF u
          <6> QED
            BY <6>1, FrontProperties
        <5>4. \A i \in 1 .. Len(h) : g[i] = h[i]
          BY <5>1, <5>3
        <5> HIDE DEF g
        <5>5. g = h
          BY <2>2, <5>3, <5>4, SeqEqual
        <5> QED
          BY <5>5 DEF g
      <4>2. SubSeq(h, 1, Len(h)) = h
        BY <2>2, SubSeqFull
      <4> QED
        BY <3>1, <4>0, <4>1, <4>2 DEF IsPrefix
    <3>3. wire = <<>> /\ ~handling => h = Chunks
      <4>1. h \o <<>> = h
        BY <2>2, ConcatEmptySeq
      <4> QED
        BY <2>4, <3>1, <4>1
    <3> QED
      BY <1>3, <1>4, <3>2, <3>3 DEF h
  <2> QED
    BY <2>5, <2>6, <2>7
<1> QED
  BY <1>5, <1>6, <1>7

\* However TCP cuts what the client writes, and whatever of the reply the
\* socket takes, S0, S1 and S2 are made from the client's own C1 and sent
\* once, and the chunks are read from the byte behind its C2 on
\* (RtmpProtocol::Parse, for every C0 and C1).
THEOREM RtmpHandshakeInStep == Spec => []HandshakeInStep
<1>1. Init => HandshakeInv
  BY InitInStep
<1>2. HandshakeInv /\ [Next]_vars => HandshakeInv'
  <2> SUFFICES ASSUME HandshakeInv, [Next]_vars PROVE HandshakeInv'
    OBVIOUS
  <2>1. CASE protocol # "rtmp"
    <3>1. protocol' = protocol
      BY DEF Next, OnRead, HandleHttp, HandleRtmp, GoOn, Send, vars
    <3> QED
      BY <2>1, <3>1 DEF HandshakeInv
  <2>2. CASE protocol = "rtmp"
    <3>1. CASE OnRead
      BY <2>2, <3>1, OnReadKeepsStep
    <3>2. CASE HandleHttp
      BY <2>2, <3>2 DEF HandleHttp
    <3>3. CASE HandleRtmp
      BY <2>2, <3>3, HandleRtmpKeepsStep
    <3>4. CASE GoOn
      BY <2>2, <3>4, GoOnKeepsStep
    <3>5. CASE Send
      BY <2>2, <3>5 DEF Send
    <3>6. CASE UNCHANGED vars
      <4>1. /\ protocol' = protocol /\ request' = request /\ wire' = wire /\ read_buffer_' = read_buffer_
            /\ handling' = handling /\ session' = session /\ said' = said /\ state' = state
            /\ short' = short
        BY <3>6 DEF vars
      <4>2. HandshakeTypes' = HandshakeTypes /\ BeforeReply' = BeforeReply /\ InStep' = InStep
        BY <4>1 DEF HandshakeTypes, BeforeReply, InStep, Replied, Consumed, Starved
      <4>3. Replied(session)' = Replied(session) /\ ReplyTo(request)' = ReplyTo(request)
        BY <4>1
      <4> QED
        BY <4>1, <4>2, <4>3 DEF HandshakeInv
    <3> QED
      BY <3>1, <3>2, <3>3, <3>4, <3>5, <3>6 DEF Next
  <2> QED
    BY <2>1, <2>2
<1>3. HandshakeInv => HandshakeInStep
  BY InStepNow
<1> QED
  BY <1>1, <1>2, <1>3, PTL DEF Spec

-----------------------------------------------------------------------------
(* The tags of HTTP-FLV.                                                   *)

Tags == [pre : Nat, type : {"script", "video", "audio"}, data_size : Nat, time : Nat,
         timeExtended : Nat, lead : Nat, data : Nat]

\* What a tag says of itself, and how much of the stream it takes.
TagOf(tag, time) ==
  tag.data_size = tag.lead + tag.data /\ tag.time + k24 * tag.timeExtended = time

SizeAt(tags, i) == IF i = 0 THEN 0 ELSE 11 + tags[i].lead + tags[i].data

TagsInv ==
  /\ flv.tags \in Seq(Tags) /\ played \in Seq(Nat) /\ Len(played) = Len(flv.tags)
  /\ flv.pre_tag_size_ = SizeAt(flv.tags, Len(flv.tags))
  /\ \A i \in 1 .. Len(flv.tags) :
       TagOf(flv.tags[i], played[i]) /\ flv.tags[i].pre = SizeAt(flv.tags, i - 1)

LEMMA TagAppended ==
  ASSUME NEW t \in Seq(Tags), NEW tag \in Tags
  PROVE  /\ Append(t, tag) \in Seq(Tags) /\ Len(Append(t, tag)) = Len(t) + 1
         /\ Append(t, tag)[Len(t) + 1] = tag
         /\ \A i \in 1 .. Len(t) : Append(t, tag)[i] = t[i]
BY AppendProperties

LEMMA SizeIsNat ==
  ASSUME NEW t \in Seq(Tags), NEW i \in 0 .. Len(t)
  PROVE  SizeAt(t, i) \in Nat
<1>1. CASE i = 0
  BY <1>1 DEF SizeAt
<1>2. CASE i # 0
  <2>1. t[i] \in Tags
    BY <1>2
  <2>2. t[i].lead \in Nat /\ t[i].data \in Nat
    BY <2>1 DEF Tags
  <2> QED
    BY <1>2, <2>2 DEF SizeAt
<1> QED
  BY <1>1, <1>2

\* A tag written behind the others, with the time it was written for.
LEMMA WriteKeepsTags ==
  ASSUME TagsInv, NEW type \in {"script", "video", "audio"}, NEW lead \in Nat, NEW data \in Nat,
         NEW dts \in Nat, dts \div k24 < 256,
         flv' = Write(flv, type, lead + data, dts, lead, data), played' = Append(played, dts)
  PROVE  TagsInv'
<1> DEFINE tag == Tag(flv.pre_tag_size_, type, lead + data, dts, lead, data)
           N == Len(flv.tags)
<1>1. /\ flv.tags \in Seq(Tags) /\ played \in Seq(Nat) /\ Len(played) = N /\ N \in Nat
      /\ flv.pre_tag_size_ = SizeAt(flv.tags, N)
      /\ \A i \in 1 .. N :
           TagOf(flv.tags[i], played[i]) /\ flv.tags[i].pre = SizeAt(flv.tags, i - 1)
  BY DEF TagsInv
<1>2. flv.pre_tag_size_ \in Nat
  <2>1. N \in 0 .. Len(flv.tags)
    BY <1>1
  <2>2. SizeAt(flv.tags, N) \in Nat
    BY <1>1, <2>1, SizeIsNat
  <2> QED
    BY <1>1, <2>2
<1>3. dts % k24 \in Nat /\ dts \div k24 \in Nat /\ (dts % k24) + k24 * (dts \div k24) = dts
  BY DEF k24
<1>4. (dts \div k24) % 256 = dts \div k24
  BY <1>3
<1>5. tag \in Tags /\ TagOf(tag, dts) /\ tag.pre = flv.pre_tag_size_ /\ tag.lead = lead /\ tag.data = data
  <2>1. tag = [pre |-> flv.pre_tag_size_, type |-> type, data_size |-> lead + data,
               time |-> dts % k24, timeExtended |-> dts \div k24, lead |-> lead, data |-> data]
    BY <1>4 DEF Tag
  <2>2. lead + data \in Nat
    OBVIOUS
  <2> HIDE DEF tag
  <2> QED
    BY <1>2, <1>3, <2>1, <2>2 DEF Tags, TagOf
<1>6. flv'.tags = Append(flv.tags, tag) /\ flv'.pre_tag_size_ = lead + data + 11
  BY DEF Write
<1>12. N = Len(flv.tags)
  OBVIOUS
<1> HIDE DEF tag, N
<1>7. /\ flv'.tags \in Seq(Tags) /\ Len(flv'.tags) = N + 1 /\ flv'.tags[N + 1] = tag
      /\ \A i \in 1 .. N : flv'.tags[i] = flv.tags[i]
  <2>1. /\ Append(flv.tags, tag) \in Seq(Tags) /\ Len(Append(flv.tags, tag)) = Len(flv.tags) + 1
        /\ Append(flv.tags, tag)[Len(flv.tags) + 1] = tag
        /\ \A i \in 1 .. Len(flv.tags) : Append(flv.tags, tag)[i] = flv.tags[i]
    BY <1>1, <1>5, TagAppended
  <2> QED
    BY <1>6, <1>12, <2>1
<1>8. /\ played' \in Seq(Nat) /\ Len(played') = N + 1 /\ played'[N + 1] = dts
      /\ \A i \in 1 .. N : played'[i] = played[i]
  BY <1>1
<1>9. ASSUME NEW i \in 0 .. N PROVE SizeAt(flv'.tags, i) = SizeAt(flv.tags, i)
  <2>1. i = 0 \/ i \in 1 .. N
    BY <1>1
  <2> QED
    BY <1>7, <2>1 DEF SizeAt
<1>10. flv'.pre_tag_size_ = SizeAt(flv'.tags, N + 1)
  <2>1. N + 1 # 0 /\ lead + data + 11 = 11 + lead + data
    BY <1>1
  <2> QED
    BY <1>5, <1>6, <1>7, <2>1 DEF SizeAt
<1>11. ASSUME NEW i \in 1 .. N + 1
       PROVE  TagOf(flv'.tags[i], played'[i]) /\ flv'.tags[i].pre = SizeAt(flv'.tags, i - 1)
  <2>1. CASE i = N + 1
    <3>1. i - 1 = N /\ N \in 0 .. N
      BY <1>1, <2>1
    <3> QED
      BY <1>1, <1>5, <1>7, <1>8, <1>9, <2>1, <3>1
  <2>2. CASE i # N + 1
    <3>1. i \in 1 .. N /\ i - 1 \in 0 .. N
      BY <1>1, <2>2
    <3> QED
      BY <1>1, <1>7, <1>8, <1>9, <3>1
  <2> QED
    BY <2>1, <2>2
<1> QED
  BY <1>7, <1>8, <1>10, <1>11 DEF TagsInv

\* Every tag a player is sent tells its own size, the size of the tag before it
\* and the time of its frame, whatever the publisher sends and in whatever
\* order (HttpFlvProtocol::Send).
THEOREM FlvTagsChain == Spec => []TagsChain
<1>1. Init => TagsInv
  <2> SUFFICES ASSUME Init PROVE TagsInv
    OBVIOUS
  <2>1. flv = [pre_tag_size_ |-> 0, tags |-> <<>>] /\ played = <<>>
    BY DEF Init, NoTags
  <2> QED
    BY <2>1 DEF TagsInv, SizeAt
<1>2. TagsInv /\ [Next]_vars => TagsInv'
  <2> SUFFICES ASSUME TagsInv, [Next]_vars PROVE TagsInv'
    OBVIOUS
  <2>1. CASE Send
    <3>1. PICK size \in Sizes :
            \/ /\ flv' \in {SendMetaData(flv, size), SendVideoHeader(flv, size),
                            SendAudioHeader(flv, size)}
               /\ played' = Append(played, 0)
            \/ \E dts \in Times :
                 /\ flv' \in {SendVideo(flv, size, dts), SendAudio(flv, size, dts)}
                 /\ played' = Append(played, dts)
      BY <2>1 DEF Send
    <3>2. size \in Nat /\ 0 \div k24 < 256
      BY FramesAssumption DEF k24
    <3>3. size + 5 = 5 + size /\ size = 0 + size /\ size + 2 = 2 + size
      BY <3>2
    <3>4. PICK dts \in Nat, type \in {"script", "video", "audio"}, lead \in {0, 2, 5} :
            /\ dts \div k24 < 256 /\ flv' = Write(flv, type, lead + size, dts, lead, size)
            /\ played' = Append(played, dts)
      <4>1. CASE flv' = SendMetaData(flv, size) /\ played' = Append(played, 0)
        BY <3>2, <3>3, <4>1 DEF SendMetaData
      <4>2. CASE flv' = SendVideoHeader(flv, size) /\ played' = Append(played, 0)
        BY <3>2, <3>3, <4>2 DEF SendVideoHeader
      <4>3. CASE flv' = SendAudioHeader(flv, size) /\ played' = Append(played, 0)
        BY <3>2, <3>3, <4>3 DEF SendAudioHeader
      <4>4. ASSUME NEW dts \in Times, flv' = SendVideo(flv, size, dts), played' = Append(played, dts)
            PROVE  \E time \in Nat, type \in {"script", "video", "audio"}, lead \in {0, 2, 5} :
                     /\ time \div k24 < 256 /\ flv' = Write(flv, type, lead + size, time, lead, size)
                     /\ played' = Append(played, time)
        <5>1. flv' = Write(flv, "video", 5 + size, dts, 5, size) /\ dts \in Nat /\ dts \div k24 < 256
          BY <3>3, <4>4, FramesAssumption DEF SendVideo
        <5> QED
          BY <4>4, <5>1
      <4>5. ASSUME NEW dts \in Times, flv' = SendAudio(flv, size, dts), played' = Append(played, dts)
            PROVE  \E time \in Nat, type \in {"script", "video", "audio"}, lead \in {0, 2, 5} :
                     /\ time \div k24 < 256 /\ flv' = Write(flv, type, lead + size, time, lead, size)
                     /\ played' = Append(played, time)
        <5>1. flv' = Write(flv, "audio", 0 + size, dts, 0, size) /\ dts \in Nat /\ dts \div k24 < 256
          BY <3>3, <4>5, FramesAssumption DEF SendAudio
        <5> QED
          BY <4>5, <5>1
      <4> QED
        BY <3>1, <4>1, <4>2, <4>3, <4>4, <4>5
    <3>5. lead \in Nat
      BY <3>4
    <3> QED
      BY <3>2, <3>4, <3>5, WriteKeepsTags
  <2>2. CASE ~Send
    <3>1. flv' = flv /\ played' = played
      BY <2>2 DEF Next, OnRead, HandleHttp, HandleRtmp, GoOn, vars
    <3> QED
      BY <3>1 DEF TagsInv
  <2> QED
    BY <2>1, <2>2
<1>3. TagsInv => TagsChain
  <2> SUFFICES ASSUME TagsInv, NEW i \in DOMAIN flv.tags
               PROVE  /\ flv.tags[i].data_size = flv.tags[i].lead + flv.tags[i].data
                      /\ flv.tags[i].pre = IF i = 1 THEN 0
                                           ELSE 11 + flv.tags[i - 1].lead + flv.tags[i - 1].data
                      /\ flv.tags[i].time + k24 * flv.tags[i].timeExtended = played[i]
    BY DEF TagsChain
  <2>1. i \in 1 .. Len(flv.tags) /\ i \in Nat /\ (i - 1 = 0 <=> i = 1)
    BY DEF TagsInv
  <2>2. TagOf(flv.tags[i], played[i]) /\ flv.tags[i].pre = SizeAt(flv.tags, i - 1)
    BY <2>1 DEF TagsInv
  <2> QED
    BY <2>1, <2>2 DEF TagOf, SizeAt
<1> QED
  BY <1>1, <1>2, <1>3, PTL DEF Spec

\* What the lemmas need to know of a parser: it has the fields of one.
IsParser(p) ==
  /\ DOMAIN p = {"loop", "r_pos", "n_pos", "m_pos", "key_value", "key", "value", "path", "header",
                 "fields", "n", "ret"}
  /\ p.n \in Nat /\ p.r_pos \in Int /\ p.n_pos \in Int /\ p.m_pos \in Int

\* What only the end of a line changes.
Kept(p, q) ==
  /\ q.loop = p.loop /\ q.n_pos = p.n_pos /\ q.path = p.path /\ q.header = p.header
  /\ q.fields = p.fields

LEMMA MarksDiffer ==
  /\ CR # LF /\ CR # Colon /\ CR # Space /\ LF # Colon /\ LF # Space /\ Colon # Space
  /\ Dot # Slash /\ Dot # Space /\ Slash # Space /\ Query # Slash /\ Query # Space /\ Query # Dot
  /\ Query # CR /\ Query # LF /\ Query # Colon /\ Dot # CR /\ Dot # LF /\ Dot # Colon
  /\ Slash # CR /\ Slash # LF /\ Slash # Colon
BY DEF CR, LF, Colon, Space, Dot, Slash, Query

\* One turn of the loop from p to q: a character of the key, of the value, a
\* colon behind the key, a CR.
KeyStep(p, c, q) ==
  /\ IsParser(q) /\ Kept(p, q) /\ q.ret = kNoEnoughData /\ q.n = p.n + 1
  /\ q.key_value = FALSE /\ q.key = Append(p.key, c) /\ q.value = p.value
  /\ q.r_pos = p.r_pos /\ q.m_pos = p.m_pos

ValueStep(p, c, q) ==
  /\ IsParser(q) /\ Kept(p, q) /\ q.ret = kNoEnoughData /\ q.n = p.n + 1
  /\ q.key_value = TRUE /\ q.key = p.key /\ q.r_pos = p.r_pos
  /\ q.m_pos = IF c = Colon THEN p.n ELSE p.m_pos
  /\ c = Space /\ p.m_pos + 1 = p.n => q.value = p.value
  /\ c # Colon /\ ~(c = Space /\ p.m_pos + 1 = p.n) => q.value = Append(p.value, c)

ColonStep(p, q) ==
  /\ IsParser(q) /\ Kept(p, q) /\ q.ret = kNoEnoughData /\ q.n = p.n + 1
  /\ q.key_value = TRUE /\ q.key = p.key /\ q.value = p.value
  /\ q.r_pos = p.r_pos /\ q.m_pos = p.n

CRStep(p, q) ==
  /\ IsParser(q) /\ Kept(p, q) /\ q.ret = kNoEnoughData /\ q.n = p.n + 1
  /\ q.key_value = p.key_value /\ q.key = p.key /\ q.value = p.value
  /\ q.r_pos = p.n /\ q.m_pos = p.m_pos

LEMMA LoopKey ==
  ASSUME NEW p, IsParser(p), p.ret = kNoEnoughData, p.key_value = FALSE, NEW c,
         c \notin {CR, LF, Colon}, ~(c = Space /\ p.m_pos + 1 = p.n), NEW q, q = Loop(p, c)
  PROVE  KeyStep(p, c, q)
<1>1. q = [[p EXCEPT !.key = Append(@, c)] EXCEPT !.n = @ + 1]
  BY DEF Loop, Char, Add
<1> QED
  BY <1>1 DEF KeyStep, IsParser, Kept

LEMMA LoopValue ==
  ASSUME NEW p, IsParser(p), p.ret = kNoEnoughData, p.key_value = TRUE, NEW c,
         c \notin {CR, LF}, NEW q, q = Loop(p, c)
  PROVE  ValueStep(p, c, q)
<1>1. CASE c = Colon
  <2>1. q = [[[p EXCEPT !.value = Append(@, c)] EXCEPT !.m_pos = p.n, !.key_value = TRUE] EXCEPT !.n = @ + 1]
    BY <1>1, MarksDiffer DEF Loop, Char, Add
  <2> DEFINE v == [p EXCEPT !.value = Append(@, c)]
             m == [v EXCEPT !.m_pos = p.n, !.key_value = TRUE]
  <2>2. /\ IsParser(v) /\ Kept(p, v) /\ v.ret = p.ret /\ v.n = p.n /\ v.key_value = TRUE
        /\ v.key = p.key /\ v.r_pos = p.r_pos
    BY DEF IsParser, Kept
  <2> HIDE DEF v
  <2>3. /\ IsParser(m) /\ Kept(p, m) /\ m.ret = p.ret /\ m.n = p.n /\ m.key_value = TRUE
        /\ m.key = p.key /\ m.r_pos = p.r_pos /\ m.m_pos = p.n
    BY <2>2 DEF IsParser, Kept
  <2>4. q = [m EXCEPT !.n = @ + 1]
    BY <2>1 DEF v
  <2> HIDE DEF m
  <2>5. /\ IsParser(q) /\ Kept(p, q) /\ q.ret = p.ret /\ q.n = p.n + 1 /\ q.key_value = TRUE
        /\ q.key = p.key /\ q.r_pos = p.r_pos /\ q.m_pos = p.n
    BY <2>3, <2>4 DEF IsParser, Kept
  <2> QED
    BY <1>1, <2>5, MarksDiffer DEF ValueStep
<1>2. CASE c # Colon /\ c = Space /\ p.m_pos + 1 = p.n
  <2>1. q = [p EXCEPT !.n = @ + 1]
    BY <1>2, MarksDiffer DEF Loop, Char
  <2> QED
    BY <1>2, <2>1 DEF ValueStep, IsParser, Kept
<1>3. CASE c # Colon /\ ~(c = Space /\ p.m_pos + 1 = p.n)
  <2>1. q = [[p EXCEPT !.value = Append(@, c)] EXCEPT !.n = @ + 1]
    BY <1>3 DEF Loop, Char, Add
  <2> QED
    BY <1>3, <2>1 DEF ValueStep, IsParser, Kept
<1> QED
  BY <1>1, <1>2, <1>3

LEMMA LoopColon ==
  ASSUME NEW p, IsParser(p), p.ret = kNoEnoughData, p.key_value = FALSE,
         NEW q, q = Loop(p, Colon)
  PROVE  ColonStep(p, q)
<1>1. q = [[p EXCEPT !.m_pos = p.n, !.key_value = TRUE] EXCEPT !.n = @ + 1]
  BY MarksDiffer DEF Loop, Char
<1> QED
  BY <1>1 DEF ColonStep, IsParser, Kept

LEMMA LoopCR ==
  ASSUME NEW p, IsParser(p), p.ret = kNoEnoughData, NEW q, q = Loop(p, CR)
  PROVE  CRStep(p, q)
<1>1. q = [[p EXCEPT !.r_pos = p.n] EXCEPT !.n = @ + 1]
  BY MarksDiffer DEF Loop, Char
<1> QED
  BY <1>1 DEF CRStep, IsParser, Kept

\* Induction over the sequences of a set.
LEMMA SeqUp ==
  ASSUME NEW S, NEW T, <<>> \in T, \A s \in Seq(S), c \in S : s \in T => Append(s, c) \in T
  PROVE  \A s \in Seq(S) : s \in T
<1> SUFFICES ASSUME NEW s \in Seq(S) PROVE s \in T
  OBVIOUS
<1> DEFINE G == {n \in Nat : \A t \in Seq(S) : Len(t) = n => t \in T}
<1>1. 0 \in G
  <2>1. \A t \in Seq(S) : Len(t) = 0 => t = <<>>
    BY EmptySeq
  <2> QED
    BY <2>1
<1>2. ASSUME NEW n \in Nat, n \in G PROVE n + 1 \in G
  <2> SUFFICES ASSUME NEW t \in Seq(S), Len(t) = n + 1 PROVE t \in T
    OBVIOUS
  <2> DEFINE f == SubSeq(t, 1, n)
  <2>1. n \in 0 .. Len(t)
    OBVIOUS
  <2>2. f \in Seq(S) /\ Len(f) = n /\ \A i \in 1 .. n : f[i] = t[i]
    BY <2>1, FrontProperties
  <2> HIDE DEF f
  <2>3. t[n + 1] \in S
    OBVIOUS
  <2>4. Append(f, t[n + 1]) \in T
    BY <1>2, <2>2, <2>3
  <2>5. Append(f, t[n + 1]) = t
    <3> DEFINE a == Append(f, t[n + 1])
    <3>1. a \in Seq(S) /\ Len(a) = n + 1 /\ \A i \in 1 .. n + 1 : a[i] = t[i]
      BY <2>2, <2>3, AppendProperties
    <3> HIDE DEF a
    <3>2. a = t
      BY <3>1, SeqEqual
    <3> QED
      BY <3>2 DEF a
  <2> QED
    BY <2>4, <2>5
<1>3. Len(s) \in G
  <2> HIDE DEF G
  <2>1. Len(s) \in Nat
    OBVIOUS
  <2>2. \A k \in 0 .. Len(s) : k \in G
    BY <1>1, <1>2, <2>1, Upto, SMTT(60)
  <2> QED
    BY <2>1, <2>2
<1> QED
  BY <1>3

LEMMA ScanAppend ==
  ASSUME NEW p, NEW S, NEW s \in Seq(S), NEW c \in S
  PROVE  Scan(p, Append(s, c)) = Loop(Scan(p, s), c)
<1> DEFINE t == <<c>>
<1>1. Append(s, c) = s \o t /\ t \in Seq(S)
  BY AppendIsConcat
<1>2. Scan(Scan(p, s), t) = Loop(Scan(p, s), c)
  BY ScanOne
<1> HIDE DEF t
<1>3. Scan(p, s \o t) = Scan(Scan(p, s), t)
  BY <1>1, ScanConcat
<1> QED
  BY <1>1, <1>2, <1>3

\* p is at the begin of a line.
InKey(p, s, q) ==
  /\ IsParser(q) /\ Kept(p, q) /\ q.ret = kNoEnoughData /\ q.n = p.n + Len(s)
  /\ q.key_value = FALSE /\ q.key = s /\ q.value = p.value
  /\ q.r_pos = p.r_pos /\ q.m_pos = p.m_pos

LEMMA ScanKey ==
  ASSUME NEW p, IsParser(p), p.ret = kNoEnoughData, p.key_value = FALSE, p.key = <<>>,
         p.m_pos + 1 <= p.n, NEW S, S \cap {CR, LF, Colon} = {}, NEW s \in Seq(S),
         s # <<>> => s[1] # Space
  PROVE  InKey(p, s, Scan(p, s))
<1> DEFINE T == {t \in Seq(S) : (t # <<>> => t[1] # Space) => InKey(p, t, Scan(p, t))}
<1>1. <<>> \in T
  <2>1. Scan(p, <<>>) = p
    BY ScanNone
  <2>2. InKey(p, <<>>, p)
    BY DEF InKey, IsParser, Kept
  <2> QED
    BY <2>1, <2>2
<1>2. ASSUME NEW t \in Seq(S), NEW c \in S, t \in T PROVE Append(t, c) \in T
  <2> DEFINE u == Append(t, c)
             q == Scan(p, t)
  <2>1. u \in Seq(S) /\ u # <<>> /\ Len(u) = Len(t) + 1 /\ Len(t) \in Nat
    BY AppendProperties
  <2>2. t # <<>> => u[1] = t[1] /\ Len(t) > 0
    BY EmptySeq
  <2>3. t = <<>> => u[1] = c
    OBVIOUS
  <2> SUFFICES ASSUME u[1] # Space PROVE InKey(p, u, Scan(p, u))
    BY <2>1
  <2>4. Scan(p, u) = Loop(q, c)
    BY ScanAppend
  <2>5. InKey(p, t, q)
    BY <1>2, <2>2
  <2> HIDE DEF q, u
  <2>6. c \notin {CR, LF, Colon}
    OBVIOUS
  <2>7. ~(c = Space /\ q.m_pos + 1 = q.n)
    <3>1. q.m_pos = p.m_pos /\ q.n = p.n + Len(t) /\ p.n \in Nat /\ p.m_pos \in Int
      BY <2>5 DEF InKey, IsParser
    <3>2. CASE t = <<>>
      BY <3>2, <2>3
    <3>3. CASE t # <<>>
      BY <3>1, <3>3, <2>1, <2>2
    <3> QED
      BY <3>2, <3>3
  <2> DEFINE r == Loop(q, c)
  <2>8. r = Loop(q, c)
    OBVIOUS
  <2> HIDE DEF r
  <2>9. KeyStep(q, c, r)
    <3>1. IsParser(q) /\ q.ret = kNoEnoughData /\ q.key_value = FALSE
      BY <2>5 DEF InKey
    <3> QED
      BY <2>6, <2>7, <2>8, <3>1, LoopKey
  <2>10. r.n = p.n + Len(u)
    BY <2>1, <2>5, <2>9 DEF InKey, KeyStep, IsParser
  <2>11. InKey(p, u, r)
    BY <2>5, <2>9, <2>10 DEF InKey, KeyStep, Kept, u
  <2> QED
    BY <2>4, <2>8, <2>11
<1> HIDE DEF T
<1>3. s \in T
  BY <1>1, <1>2, SeqUp
<1> QED
  BY <1>3 DEF T

\* p is behind the space in front of a value.
InValue(p, s, q) ==
  /\ IsParser(q) /\ Kept(p, q) /\ q.ret = kNoEnoughData /\ q.n = p.n + Len(s)
  /\ q.key_value = TRUE /\ q.key = p.key /\ q.r_pos = p.r_pos /\ q.m_pos < q.n
  /\ ~Has(Colon, s) => q.value = s /\ q.m_pos = p.m_pos

LEMMA ScanValue ==
  ASSUME NEW p, IsParser(p), p.ret = kNoEnoughData, p.key_value = TRUE, p.value = <<>>,
         p.m_pos + 1 < p.n, NEW S, S \cap {CR, LF} = {}, NEW s \in Seq(S)
  PROVE  InValue(p, s, Scan(p, s))
<1> DEFINE T == {t \in Seq(S) : InValue(p, t, Scan(p, t))}
<1>1. <<>> \in T
  <2>1. Scan(p, <<>>) = p
    BY ScanNone
  <2>2. InValue(p, <<>>, p)
    BY DEF InValue, IsParser, Kept
  <2> QED
    BY <2>1, <2>2
<1>2. ASSUME NEW t \in Seq(S), NEW c \in S, t \in T PROVE Append(t, c) \in T
  <2> DEFINE u == Append(t, c)
             q == Scan(p, t)
             r == Loop(q, c)
  <2>1. u \in Seq(S) /\ Len(u) = Len(t) + 1 /\ Len(t) \in Nat
    BY AppendProperties
  <2>2. Scan(p, u) = r
    BY ScanAppend
  <2>3. InValue(p, t, q)
    BY <1>2
  <2>4. ~Has(Colon, u) => ~Has(Colon, t) /\ c # Colon
    <3>1. u[Len(t) + 1] = c /\ \A i \in 1 .. Len(t) : u[i] = t[i]
      BY AppendProperties
    <3>2. DOMAIN u = 1 .. Len(t) + 1 /\ DOMAIN t = 1 .. Len(t)
      BY <2>1, LenProperties
    <3> HIDE DEF u
    <3>3. Len(t) + 1 \in DOMAIN u /\ \A i \in DOMAIN t : i \in DOMAIN u /\ u[i] = t[i]
      BY <2>1, <3>1, <3>2
    <3> QED
      BY <3>1, <3>3 DEF Has
  <2>5. r = Loop(q, c) /\ c \notin {CR, LF}
    OBVIOUS
  <2> HIDE DEF q, r, u
  <2>6. IsParser(q) /\ q.ret = kNoEnoughData /\ q.key_value = TRUE
    BY <2>3 DEF InValue
  <2>7. ValueStep(q, c, r)
    BY <2>5, <2>6, LoopValue
  <2>8. r.n = p.n + Len(u)
    BY <2>1, <2>3, <2>7 DEF InValue, ValueStep, IsParser
  <2>9. r.m_pos < r.n
    <3>1. q.n \in Nat /\ q.m_pos < q.n /\ q.m_pos \in Int
      BY <2>3 DEF InValue, IsParser
    <3>2. r.n = q.n + 1 /\ (r.m_pos = q.m_pos \/ r.m_pos = q.n)
      BY <2>7 DEF ValueStep
    <3> QED
      BY <3>1, <3>2
  <2>10. ASSUME ~Has(Colon, u) PROVE r.value = u /\ r.m_pos = p.m_pos
    <3>1. c # Colon /\ q.value = t /\ q.m_pos = p.m_pos
      BY <2>3, <2>4, <2>10 DEF InValue
    <3>2. q.m_pos + 1 # q.n
      BY <2>1, <2>3, <3>1 DEF InValue, IsParser
    <3> QED
      BY <2>7, <3>1, <3>2 DEF ValueStep, u
  <2>11. InValue(p, u, r)
    BY <2>3, <2>7, <2>8, <2>9, <2>10 DEF InValue, ValueStep, Kept
  <2> QED
    BY <2>1, <2>2, <2>11 DEF u
<1> HIDE DEF T
<1>3. s \in T
  BY <1>1, <1>2, SeqUp
<1> QED
  BY <1>3 DEF T

\* A parser that may have been given up.
LEMMA RequestLineKeeps ==
  ASSUME NEW p, IsParser(p), NEW q, q = RequestLine(p)
  PROVE  /\ IsParser(q) /\ q.n = p.n
         /\ q.loop = p.loop /\ q.r_pos = p.r_pos /\ q.m_pos = p.m_pos
BY DEF RequestLine, IsParser

LEMMA NextLineKeeps ==
  ASSUME NEW p, IsParser(p), NEW q, q = NextLine(p)
  PROVE  /\ IsParser(q) /\ q.n = p.n
         /\ q.loop = p.loop /\ q.r_pos = p.r_pos /\ q.m_pos = p.m_pos
         /\ q.ret = p.ret /\ q.path = p.path /\ q.header = p.header /\ q.fields = p.fields
BY DEF NextLine, IsParser

LEMMA EndOfLineKeeps ==
  ASSUME NEW p, IsParser(p), NEW q, q = EndOfLine(p)
  PROVE  IsParser(q) /\ q.n = p.n
<1> DEFINE a == RequestLine(p)
           b == [p EXCEPT !.header = [k \in DOMAIN @ \cup {p.key} |-> IF k = p.key THEN p.value ELSE @[k]]]
           c == [p EXCEPT !.fields = Fields(@, p.key)]
<1>1. IsParser(a) /\ a.n = p.n
  BY RequestLineKeeps
<1>2. IsParser(b) /\ b.n = p.n
  BY DEF IsParser
<1>3. IsParser(c) /\ c.n = p.n
  BY DEF IsParser
<1>4. q = NextLine(a) \/ q = NextLine(b) \/ q = NextLine(c) \/ q = NextLine(p)
  BY DEF EndOfLine
<1> HIDE DEF a, b, c
<1> QED
  BY <1>1, <1>2, <1>3, <1>4, NextLineKeeps

LEMMA CharKeeps ==
  ASSUME NEW p, IsParser(p), NEW c, NEW q, q = Char(p, c)
  PROVE  IsParser(q) /\ q.n = p.n
<1>1. CASE c = CR
  <2>1. q = [p EXCEPT !.r_pos = p.n]
    BY <1>1, MarksDiffer DEF Char
  <2> QED
    BY <2>1 DEF IsParser
<1>2. CASE c = LF
  <2>1. q = Newline(p)
    BY <1>2, MarksDiffer DEF Char
  <2>2. CASE q = [p EXCEPT !.ret = kSuccess] \/ q = [p EXCEPT !.n_pos = p.n]
    BY <2>2 DEF IsParser
  <2>3. CASE q = [EndOfLine(p) EXCEPT !.n_pos = p.n]
    <3> DEFINE e == EndOfLine(p)
    <3>1. IsParser(e) /\ e.n = p.n
      BY EndOfLineKeeps
    <3>2. q = [e EXCEPT !.n_pos = p.n]
      BY <2>3
    <3> HIDE DEF e
    <3> QED
      BY <3>1, <3>2 DEF IsParser
  <2> QED
    BY <2>1, <2>2, <2>3 DEF Newline
<1>3. CASE c = Colon
  <2> DEFINE v == IF p.key_value THEN Add(p, c) ELSE p
  <2>1. q = [v EXCEPT !.m_pos = p.n, !.key_value = TRUE]
    BY <1>3, MarksDiffer DEF Char
  <2>2. IsParser(v) /\ v.n = p.n
    BY DEF IsParser, Add
  <2> HIDE DEF v
  <2> QED
    BY <2>1, <2>2 DEF IsParser
<1>4. CASE c \notin {CR, LF, Colon}
  <2>1. q = p \/ q = Add(p, c)
    BY <1>4 DEF Char
  <2> QED
    BY <2>1 DEF IsParser, Add
<1> QED
  BY <1>1, <1>2, <1>3, <1>4

\* How far the loop has come, and whether it goes on.
Counts(p, l, q) ==
  /\ IsParser(q) /\ q.n \in p.n .. p.n + l
  /\ q.ret = kNoEnoughData => q.n = p.n + l

LEMMA ScanCounts ==
  ASSUME NEW p, IsParser(p), NEW S, NEW s \in Seq(S)
  PROVE  Counts(p, Len(s), Scan(p, s))
<1> DEFINE T == {t \in Seq(S) : Counts(p, Len(t), Scan(p, t))}
<1>1. <<>> \in T
  <2>1. Scan(p, <<>>) = p /\ Len(<<>>) = 0
    BY ScanNone
  <2>2. Counts(p, 0, p)
    BY DEF Counts, IsParser
  <2> QED
    BY <2>1, <2>2
<1>2. ASSUME NEW t \in Seq(S), NEW c \in S, t \in T PROVE Append(t, c) \in T
  <2> DEFINE u == Append(t, c)
             q == Scan(p, t)
             r == Loop(q, c)
             x == Char(q, c)
  <2>1. u \in Seq(S) /\ Len(u) = Len(t) + 1 /\ Len(t) \in Nat
    BY AppendProperties
  <2>2. Scan(p, u) = r
    BY ScanAppend
  <2>3. Counts(p, Len(t), q)
    BY <1>2
  <2>4. r = IF q.ret # kNoEnoughData THEN q ELSE [x EXCEPT !.n = @ + 1]
    BY DEF Loop
  <2>5. x = Char(q, c)
    OBVIOUS
  <2> HIDE DEF q, r, u, x
  <2>6. IsParser(x) /\ x.n = q.n
    BY <2>3, <2>5, CharKeeps DEF Counts
  <2>7. Counts(p, Len(t) + 1, r)
    <3>1. CASE q.ret # kNoEnoughData
      BY <2>1, <2>3, <2>4, <3>1 DEF Counts, IsParser
    <3>2. CASE q.ret = kNoEnoughData
      <4>1. r = [x EXCEPT !.n = @ + 1]
        BY <2>4, <3>2
      <4>2. IsParser(r) /\ r.n = q.n + 1
        BY <2>6, <4>1 DEF IsParser
      <4>3. q.n = p.n + Len(t) /\ p.n \in Nat
        BY <2>3, <3>2 DEF Counts, IsParser
      <4>4. r.n = p.n + (Len(t) + 1) /\ r.n \in p.n .. p.n + (Len(t) + 1)
        <5>1. ASSUME NEW l \in Nat, NEW m \in Nat, NEW n, n = (m + l) + 1
              PROVE  n = m + (l + 1) /\ n \in m .. m + (l + 1)
          BY <5>1
        <5>2. Len(t) \in Nat
          BY <2>1
        <5> QED
          BY <5>1, <5>2, <4>2, <4>3
      <4> QED
        BY <4>2, <4>4 DEF Counts
    <3> QED
      BY <3>1, <3>2
  <2> QED
    BY <2>1, <2>2, <2>7 DEF u
<1> HIDE DEF T
<1>3. s \in T
  BY <1>1, <1>2, SeqUp
<1> QED
  BY <1>3 DEF T

\* Once it has an outcome, it reads no further.
LEMMA ScanEnds ==
  ASSUME NEW p, p.ret # kNoEnoughData, NEW S, NEW s \in Seq(S)
  PROVE  Scan(p, s) = p
<1> DEFINE T == {t \in Seq(S) : Scan(p, t) = p}
<1>1. <<>> \in T
  BY ScanNone
<1>2. ASSUME NEW t \in Seq(S), NEW c \in S, t \in T PROVE Append(t, c) \in T
  <2>1. Scan(p, Append(t, c)) = Loop(Scan(p, t), c)
    BY ScanAppend
  <2>2. Loop(p, c) = p
    BY DEF Loop
  <2>3. Append(t, c) \in Seq(S)
    BY AppendProperties
  <2> QED
    BY <1>2, <2>1, <2>2, <2>3
<1> HIDE DEF T
<1>3. s \in T
  BY <1>1, <1>2, SeqUp
<1> QED
  BY <1>3 DEF T

\* p has read a CR, and the line before it was not empty, or was.
AtCR(p) == IsParser(p) /\ p.ret = kNoEnoughData /\ p.r_pos = p.n - 1

SuccessStep(p, q) == IsParser(q) /\ Kept(p, q) /\ q.ret = kSuccess /\ q.n = p.n + 1

LEMMA LoopFinal ==
  ASSUME NEW p, AtCR(p), p.n_pos = p.n - 2, NEW q, q = Loop(p, LF)
  PROVE  SuccessStep(p, q)
<1>1. p.n = p.r_pos + 1 /\ p.n = p.n_pos + 2
  BY DEF AtCR, IsParser
<1>2. Char(p, LF) = Newline(p)
  BY MarksDiffer DEF Char
<1>3. Newline(p) = [p EXCEPT !.ret = kSuccess]
  BY <1>1 DEF Newline
<1>4. q = [[p EXCEPT !.ret = kSuccess] EXCEPT !.n = @ + 1]
  BY <1>2, <1>3 DEF Loop, AtCR
<1> QED
  BY <1>4 DEF SuccessStep, Kept, AtCR, IsParser

\* What the end of a line is to the key.
Line(p, path, header, fields, q) ==
  /\ IsParser(q) /\ q.loop = p.loop /\ q.ret = kNoEnoughData /\ q.n = p.n + 1
  /\ q.n_pos = p.n /\ q.r_pos = p.r_pos /\ q.m_pos = p.m_pos
  /\ q.key_value = FALSE /\ q.key = <<>> /\ q.value = <<>>
  /\ q.path = path /\ q.header = header /\ q.fields = fields

LEMMA LoopLine ==
  ASSUME NEW p, AtCR(p), p.n_pos # p.n - 2, NEW q, q = Loop(p, LF),
         NEW e, IsParser(e), e.loop = p.loop, e.ret = kNoEnoughData, e.n = p.n,
         e.r_pos = p.r_pos, e.m_pos = p.m_pos, EndOfLine(p) = NextLine(e)
  PROVE  Line(p, e.path, e.header, e.fields, q)
<1>1. p.n = p.r_pos + 1 /\ ~(p.n = p.n_pos + 2)
  BY DEF AtCR, IsParser
<1>2. Char(p, LF) = Newline(p)
  BY MarksDiffer DEF Char
<1>3. Newline(p) = [NextLine(e) EXCEPT !.n_pos = p.n]
  BY <1>1 DEF Newline
<1> DEFINE f == NextLine(e)
           g == [f EXCEPT !.n_pos = p.n]
<1>4. f = [e EXCEPT !.key = <<>>, !.value = <<>>, !.key_value = FALSE]
  BY DEF NextLine, kNoEnoughData, kError
<1> HIDE DEF f
<1>5. /\ IsParser(f) /\ f.loop = p.loop /\ f.ret = kNoEnoughData /\ f.n = p.n
      /\ f.r_pos = p.r_pos /\ f.m_pos = p.m_pos /\ f.key_value = FALSE /\ f.key = <<>>
      /\ f.value = <<>> /\ f.path = e.path /\ f.header = e.header /\ f.fields = e.fields
  BY <1>4 DEF IsParser
<1>6. /\ IsParser(g) /\ g.loop = p.loop /\ g.ret = kNoEnoughData /\ g.n = p.n /\ g.n_pos = p.n
      /\ g.r_pos = p.r_pos /\ g.m_pos = p.m_pos /\ g.key_value = FALSE /\ g.key = <<>>
      /\ g.value = <<>> /\ g.path = e.path /\ g.header = e.header /\ g.fields = e.fields
  <2>1. p.n \in Int
    BY DEF AtCR, IsParser
  <2> QED
    BY <1>5, <2>1 DEF IsParser
<1>7. q = [g EXCEPT !.n = @ + 1]
  BY <1>2, <1>3 DEF Loop, AtCR, f
<1> HIDE DEF g
<1> QED
  BY <1>6, <1>7 DEF Line, IsParser

AsHeader(p) == [k \in DOMAIN p.header \cup {p.key} |-> IF k = p.key THEN p.value ELSE p.header[k]]

LEMMA LineOfHeader ==
  ASSUME NEW p, AtCR(p), p.n_pos # p.n - 2, NEW q, q = Loop(p, LF), p.loop = "Decode",
         ~Has(GET, p.key)
  PROVE  Line(p, p.path, AsHeader(p), p.fields, q)
<1> DEFINE e == [p EXCEPT !.header = AsHeader(p)]
<1>1. ~IsRequestLine(p)
  BY DEF IsRequestLine
<1>2. e = [p EXCEPT !.header = [k \in DOMAIN @ \cup {p.key} |-> IF k = p.key THEN p.value ELSE @[k]]]
  BY DEF AsHeader
<1>3. EndOfLine(p) = NextLine(e)
  BY <1>1, <1>2 DEF EndOfLine
<1>4. /\ IsParser(e) /\ e.loop = p.loop /\ e.ret = kNoEnoughData /\ e.n = p.n
      /\ e.r_pos = p.r_pos /\ e.m_pos = p.m_pos
      /\ e.path = p.path /\ e.header = AsHeader(p) /\ e.fields = p.fields
  BY DEF AtCR, IsParser
<1> HIDE DEF e
<1>5. Line(p, e.path, e.header, e.fields, q)
  BY <1>3, <1>4, LoopLine
<1> QED
  BY <1>4, <1>5

LEMMA LineOfGet ==
  ASSUME NEW p, AtCR(p), p.n_pos # p.n - 2, NEW q, q = Loop(p, LF), p.loop = "Decode",
         Has(GET, p.key), Has(Space, p.key), FirstPiece(p.key, Space) = <<GET>>,
         NEW path, path = p.path \o PathOf(SecondPiece(p.key, Space))
  PROVE  Line(p, path, p.header, p.fields, q)
<1> DEFINE e == [p EXCEPT !.path = path]
<1>1. IsRequestLine(p)
  BY DEF IsRequestLine
<1>2. e = RequestLine(p)
  BY DEF RequestLine
<1>3. EndOfLine(p) = NextLine(e)
  BY <1>1, <1>2 DEF EndOfLine
<1>4. /\ IsParser(e) /\ e.loop = p.loop /\ e.ret = kNoEnoughData /\ e.n = p.n
      /\ e.r_pos = p.r_pos /\ e.m_pos = p.m_pos
      /\ e.path = path /\ e.header = p.header /\ e.fields = p.fields
  BY DEF AtCR, IsParser
<1> HIDE DEF e
<1>5. Line(p, e.path, e.header, e.fields, q)
  BY <1>3, <1>4, LoopLine
<1> QED
  BY <1>4, <1>5

LEMMA LineOfFields ==
  ASSUME NEW p, AtCR(p), p.n_pos # p.n - 2, NEW q, q = Loop(p, LF), p.loop # "Decode",
         NEW fields, fields = IF IsRequestLine(p) THEN Fields(p.fields, p.key) ELSE p.fields
  PROVE  Line(p, p.path, p.header, fields, q)
<1> DEFINE e == [p EXCEPT !.fields = fields]
<1>1. CASE IsRequestLine(p)
  <2>1. e = [p EXCEPT !.fields = Fields(@, p.key)]
    BY <1>1
  <2>2. EndOfLine(p) = NextLine(e)
    BY <1>1, <2>1 DEF EndOfLine
  <2>3. /\ IsParser(e) /\ e.loop = p.loop /\ e.ret = kNoEnoughData /\ e.n = p.n
        /\ e.r_pos = p.r_pos /\ e.m_pos = p.m_pos
        /\ e.path = p.path /\ e.header = p.header /\ e.fields = fields
    BY DEF AtCR, IsParser
  <2> HIDE DEF e
  <2>4. Line(p, e.path, e.header, e.fields, q)
    BY <2>2, <2>3, LoopLine
  <2> QED
    BY <2>3, <2>4
<1>2. CASE ~IsRequestLine(p)
  <2>1. EndOfLine(p) = NextLine(p)
    BY <1>2 DEF EndOfLine
  <2>2. Line(p, p.path, p.header, p.fields, q)
    BY <2>1, LoopLine DEF AtCR
  <2> QED
    BY <2>2, <1>2
<1> QED
  BY <1>1, <1>2

\* The functions that loops are written as exist.
Runs(f, N, V, step, v0) ==
  /\ f \in [0 .. N -> V] /\ f[0] = v0
  /\ \A k \in 1 .. N : f[k] = step[<<f[k - 1], k>>]

LEMMA RunExists ==
  ASSUME NEW V, NEW N \in Nat, NEW step \in [V \X (1 .. N) -> V], NEW v0 \in V
  PROVE  \E f : Runs(f, N, V, step, v0)
<1> DEFINE T == {n \in 0 .. N : \E f : Runs(f, n, V, step, v0)}
<1>1. 0 \in T
  <2> DEFINE f == [k \in 0 .. 0 |-> v0]
  <2>1. Runs(f, 0, V, step, v0)
    BY DEF Runs
  <2> QED
    BY <2>1
<1>2. ASSUME NEW n \in 0 .. N - 1, n \in T PROVE n + 1 \in T
  <2>1. PICK f : Runs(f, n, V, step, v0)
    BY <1>2
  <2> DEFINE g == [k \in 0 .. n + 1 |-> IF k = n + 1 THEN step[<<f[n], n + 1>>] ELSE f[k]]
  <2>2. n \in 0 .. n /\ f[n] \in V
    BY <2>1 DEF Runs
  <2>3. n + 1 \in 1 .. N
    OBVIOUS
  <2>4. step[<<f[n], n + 1>>] \in V
    BY <2>2, <2>3
  <2>5. g \in [0 .. n + 1 -> V]
    <3>1. \A k \in 0 .. n + 1 : k = n + 1 \/ k \in 0 .. n
      OBVIOUS
    <3> QED
      BY <2>1, <2>4, <3>1 DEF Runs
  <2>6. g[0] = v0
    BY <2>1 DEF Runs
  <2>7. ASSUME NEW k \in 1 .. n + 1 PROVE g[k] = step[<<g[k - 1], k>>]
    <3>1. k - 1 \in 0 .. n /\ k - 1 # n + 1 /\ k - 1 \in 0 .. n + 1
      OBVIOUS
    <3>2. g[k - 1] = f[k - 1]
      BY <3>1
    <3>3. CASE k = n + 1
      <4>1. k - 1 = n /\ k \in 0 .. n + 1
        BY <3>3
      <4>2. g[k] = step[<<f[n], n + 1>>]
        BY <3>3, <4>1
      <4> QED
        BY <3>2, <3>3, <4>1, <4>2
    <3>4. CASE k # n + 1
      <4>1. k \in 1 .. n
        BY <3>4
      <4>2. f[k] = step[<<f[k - 1], k>>]
        BY <4>1, <2>1 DEF Runs
      <4> QED
        BY <3>2, <3>4, <4>2, SMTT(60)
    <3> QED
      BY <3>3, <3>4
  <2>8. Runs(g, n + 1, V, step, v0)
    BY <2>5, <2>6, <2>7 DEF Runs
  <2> QED
    BY <2>8
<1>3. N \in T
  <2> HIDE DEF T
  <2>1. \A k \in 0 .. N : k \in T
    BY <1>1, <1>2, Upto
  <2> QED
    BY <2>1
<1> QED
  BY <1>3

LEMMA AppendHas ==
  ASSUME NEW S, NEW s \in Seq(S), NEW c \in S, NEW u, u = Append(s, c)
  PROVE  /\ u \in Seq(S) /\ Len(u) = Len(s) + 1 /\ Len(s) \in Nat
         /\ u[Len(s) + 1] = c /\ \A i \in 1 .. Len(s) : u[i] = s[i]
         /\ s = <<>> => u[1] = c
         /\ s # <<>> => u[1] = s[1]
         /\ u # <<>>
<1>1. /\ u \in Seq(S) /\ Len(u) = Len(s) + 1 /\ Len(s) \in Nat
      /\ u[Len(s) + 1] = c /\ \A i \in 1 .. Len(s) : u[i] = s[i]
  BY AppendProperties
<1>2. s = <<>> => Len(s) = 0
  OBVIOUS
<1>3. s # <<>> => 1 \in 1 .. Len(s)
  BY EmptySeq
<1>4. u # <<>>
  BY <1>1
<1> QED
  BY <1>1, <1>2, <1>3, <1>4

-----------------------------------------------------------------------------
(* FlattenSeq.                                                             *)

IsFlat(f, S, ss) ==
  /\ f \in [0 .. Len(ss) -> Seq(S)] /\ f[0] = <<>>
  /\ \A k \in 1 .. Len(ss) : f[k] = f[k - 1] \o ss[k]

LEMMA FlatExists ==
  ASSUME NEW S, NEW ss \in Seq(Seq(S))
  PROVE  \E f : IsFlat(f, S, ss)
<1> DEFINE N == Len(ss)
           step == [x \in Seq(S) \X (1 .. N) |-> x[1] \o ss[x[2]]]
<1>1. N \in Nat
  OBVIOUS
<1>2. step \in [Seq(S) \X (1 .. N) -> Seq(S)]
  <2>1. \A k \in 1 .. N : ss[k] \in Seq(S)
    OBVIOUS
  <2>2. \A x \in Seq(S) \X (1 .. N) : x[1] \in Seq(S) /\ x[2] \in 1 .. N
    OBVIOUS
  <2>3. \A a \in Seq(S), b \in Seq(S) : a \o b \in Seq(S)
    BY ConcatProperties
  <2> QED
    BY <2>1, <2>2, <2>3
<1>3. <<>> \in Seq(S)
  OBVIOUS
<1>4. \A v \in Seq(S), k \in 1 .. N : step[<<v, k>>] = v \o ss[k]
  OBVIOUS
<1> HIDE DEF step
<1>5. PICK f : Runs(f, N, Seq(S), step, <<>>)
  BY <1>1, <1>2, <1>3, RunExists
<1>6. \A k \in 1 .. N : f[k - 1] \in Seq(S)
  <2>1. \A k \in 1 .. N : k - 1 \in 0 .. N
    OBVIOUS
  <2> QED
    BY <1>5, <2>1 DEF Runs
<1>7. IsFlat(f, S, ss)
  BY <1>4, <1>5, <1>6 DEF Runs, IsFlat
<1> QED
  BY <1>7

LEMMA FlatIs ==
  ASSUME NEW S, NEW ss \in Seq(Seq(S)), NEW f, IsFlat(f, S, ss)
  PROVE  FlattenSeq(ss) = f[Len(ss)]
<1> DEFINE N == Len(ss)
           flatten[i \in 1 .. N] == IF i = 1 THEN ss[i] ELSE flatten[i - 1] \o ss[i]
           g == [i \in 1 .. N |-> f[i]]
<1>0. N \in Nat
  OBVIOUS
<1>1. CASE N = 0
  <2>1. ss = <<>>
    BY <1>1, EmptySeq
  <2>2. f[0] = <<>>
    BY DEF IsFlat
  <2> QED
    BY <1>1, <2>1, <2>2 DEF FlattenSeq
<1>2. CASE N # 0
  <2>1. ASSUME NEW i \in 1 .. N PROVE g[i] = IF i = 1 THEN ss[i] ELSE g[i - 1] \o ss[i]
    <3>1. f[i] = f[i - 1] \o ss[i]
      BY DEF IsFlat
    <3>2. i # 1 => i - 1 \in 1 .. N
      OBVIOUS
    <3>3. CASE i = 1
      <4>1. f[0] = <<>> /\ ss[1] \in Seq(S)
        BY <1>2 DEF IsFlat
      <4>2. <<>> \o ss[1] = ss[1]
        BY <4>1, ConcatEmptySeq
      <4>3. i - 1 = 0
        BY <3>3
      <4>4. f[i] = ss[i]
        BY <3>1, <3>3, <4>1, <4>2, <4>3
      <4>5. g[i] = f[i]
        OBVIOUS
      <4> QED
        BY <3>3, <4>4, <4>5
    <3>4. CASE i # 1
      BY <3>1, <3>2, <3>4
    <3> QED
      BY <3>3, <3>4
  <2>2. g = [i \in 1 .. N |-> IF i = 1 THEN ss[i] ELSE g[i - 1] \o ss[i]]
    BY <2>1, SMTT(60)
  <2>3. flatten = [i \in 1 .. N |-> IF i = 1 THEN ss[i] ELSE flatten[i - 1] \o ss[i]]
    BY <2>2
  <2>4. FlattenSeq(ss) = flatten[N]
    BY <1>2 DEF FlattenSeq
  <2> HIDE DEF flatten, g
  <2>5. \A i \in 1 .. N : g[i] = IF i = 1 THEN ss[i] ELSE g[i - 1] \o ss[i]
    BY <2>1
  <2>6. \A i \in 1 .. N : flatten[i] = IF i = 1 THEN ss[i] ELSE flatten[i - 1] \o ss[i]
    BY <2>3
  <2> DEFINE T == {k \in 0 .. N - 1 : flatten[k + 1] = g[k + 1]}
  <2>7. 0 \in T
    <3>1. 1 \in 1 .. N /\ 0 \in 0 .. N - 1
      BY <1>2
    <3> QED
      BY <2>5, <2>6, <3>1
  <2>8. ASSUME NEW k \in 0 .. (N - 1) - 1, k \in T PROVE k + 1 \in T
    <3>1. k + 2 \in 1 .. N /\ k + 2 # 1 /\ (k + 2) - 1 = k + 1 /\ k + 1 \in 0 .. N - 1 /\ (k + 1) + 1 = k + 2
      OBVIOUS
    <3>2. flatten[k + 2] = flatten[k + 1] \o ss[k + 2] /\ g[k + 2] = g[k + 1] \o ss[k + 2]
      BY <2>5, <2>6, <3>1
    <3> QED
      BY <2>8, <3>1, <3>2
  <2>9. N - 1 \in T
    <3> HIDE DEF T
    <3>1. N - 1 \in Nat
      BY <1>2
    <3>2. \A k \in 0 .. N - 1 : k \in T
      BY <2>7, <2>8, <3>1, Upto
    <3> QED
      BY <3>1, <3>2
  <2>10. (N - 1) + 1 = N /\ N \in 1 .. N
    BY <1>2
  <2>11. g[N] = f[N]
    BY <2>10 DEF g
  <2> QED
    BY <2>4, <2>9, <2>10, <2>11
<1> QED
  BY <1>1, <1>2

LEMMA FlattenNone == FlattenSeq(<<>>) = <<>>
BY DEF FlattenSeq

LEMMA FlattenAppend ==
  ASSUME NEW S, NEW ss \in Seq(Seq(S)), NEW t \in Seq(S)
  PROVE  /\ FlattenSeq(ss) \in Seq(S)
         /\ FlattenSeq(Append(ss, t)) = FlattenSeq(ss) \o t
<1> DEFINE N == Len(ss)
           uu == Append(ss, t)
<1>1. /\ uu \in Seq(Seq(S)) /\ Len(uu) = N + 1 /\ N \in Nat
      /\ uu[N + 1] = t /\ \A i \in 1 .. N : uu[i] = ss[i]
  BY AppendProperties
<1> HIDE DEF uu
<1>2. PICK f : IsFlat(f, S, ss)
  BY FlatExists
<1>3. PICK g : IsFlat(g, S, uu)
  BY <1>1, FlatExists
<1> DEFINE T == {k \in 0 .. N : f[k] = g[k]}
<1>4. 0 \in T
  BY <1>1, <1>2, <1>3 DEF IsFlat
<1>5. ASSUME NEW k \in 0 .. N - 1, k \in T PROVE k + 1 \in T
  <2>1. k + 1 \in 1 .. N /\ k + 1 \in 1 .. N + 1 /\ (k + 1) - 1 = k
    BY <1>1
  <2>2. f[k + 1] = f[k] \o ss[k + 1]
    BY <1>2, <2>1 DEF IsFlat
  <2>3. g[k + 1] = g[k] \o uu[k + 1]
    BY <1>1, <1>3, <2>1 DEF IsFlat
  <2>4. uu[k + 1] = ss[k + 1] /\ k + 1 \in 0 .. N
    BY <1>1, <2>1
  <2>5. f[k] = g[k]
    BY <1>5
  <2>6. f[k + 1] = g[k + 1]
    BY <2>2, <2>3, <2>4, <2>5
  <2> QED
    BY <2>4, <2>6
<1>6. f[N] = g[N]
  <2> HIDE DEF T
  <2>1. \A k \in 0 .. N : k \in T
    BY <1>1, <1>4, <1>5, Upto
  <2>2. N \in T
    BY <1>1, <2>1
  <2> QED
    BY <2>2 DEF T
<1>7. g[N + 1] = g[N] \o t
  <2>1. N + 1 \in 1 .. N + 1 /\ (N + 1) - 1 = N
    BY <1>1
  <2> QED
    BY <1>1, <1>3, <2>1 DEF IsFlat
<1>8. FlattenSeq(ss) = f[N] /\ FlattenSeq(uu) = g[N + 1]
  BY <1>1, <1>2, <1>3, FlatIs
<1>9. f[N] \in Seq(S)
  <2>1. N \in 0 .. N
    BY <1>1
  <2> QED
    BY <1>2, <2>1 DEF IsFlat
<1> QED
  BY <1>6, <1>7, <1>8, <1>9 DEF uu

LEMMA ConcatAppend ==
  ASSUME NEW S, NEW a \in Seq(S), NEW t \in Seq(S), NEW c \in S
  PROVE  a \o t \in Seq(S) /\ a \o Append(t, c) = Append(a \o t, c)
<1> DEFINE d == <<c>>
           u == a \o t
<1>1. Append(t, c) = t \o d /\ d \in Seq(S)
  BY AppendIsConcat
<1>2. u \in Seq(S)
  BY ConcatProperties
<1>3. Append(u, c) = u \o d
  BY <1>2, AppendIsConcat
<1> HIDE DEF d
<1>4. (a \o t) \o d = a \o (t \o d)
  BY <1>1, ConcatAssociative
<1> QED
  BY <1>1, <1>2, <1>3, <1>4

-----------------------------------------------------------------------------
(* The loop over the path of a URL.                                        *)

PathStates(S) == [first : BOOLEAN, query : BOOLEAN, part : Seq(S), parts : Seq(Seq(S))]

IsPath(f, s, S, url) ==
  /\ f \in [0 .. Len(url) -> PathStates(S)] /\ f[0] = s
  /\ \A k \in 1 .. Len(url) : f[k] = PathChar(f[k - 1], url[k])

LEMMA PathCharIn ==
  ASSUME NEW S, NEW s \in PathStates(S), NEW c \in S
  PROVE  PathChar(s, c) \in PathStates(S)
<1>1. Append(s.part, c) \in Seq(S) /\ Append(s.parts, s.part) \in Seq(Seq(S)) /\ <<>> \in Seq(S)
  BY AppendProperties DEF PathStates
<1> QED
  BY <1>1 DEF PathChar, PathStates

LEMMA PathExists ==
  ASSUME NEW S, NEW s \in PathStates(S), NEW url \in Seq(S)
  PROVE  \E f : IsPath(f, s, S, url)
<1> DEFINE N == Len(url)
           V == PathStates(S)
           step == [x \in V \X (1 .. N) |-> PathChar(x[1], url[x[2]])]
<1>1. N \in Nat /\ \A k \in 1 .. N : url[k] \in S
  OBVIOUS
<1>2. step \in [V \X (1 .. N) -> V]
  <2>1. \A v \in V, c \in S : PathChar(v, c) \in V
    BY PathCharIn
  <2>2. \A x \in V \X (1 .. N) : x[1] \in V /\ x[2] \in 1 .. N
    OBVIOUS
  <2> HIDE DEF V
  <2> QED
    BY <1>1, <2>1, <2>2
<1> HIDE DEF V
<1>3. \A v \in V, k \in 1 .. N : step[<<v, k>>] = PathChar(v, url[k])
  OBVIOUS
<1> HIDE DEF step
<1>4. PICK f : Runs(f, N, V, step, s)
  BY <1>1, <1>2, RunExists DEF V
<1>5. \A k \in 1 .. N : f[k - 1] \in V
  <2>1. \A k \in 1 .. N : k - 1 \in 0 .. N
    OBVIOUS
  <2> QED
    BY <1>4, <2>1 DEF Runs
<1>6. IsPath(f, s, S, url)
  BY <1>3, <1>4, <1>5 DEF Runs, IsPath, V
<1> QED
  BY <1>6

LEMMA PathIs ==
  ASSUME NEW S, NEW s, NEW url, Len(url) \in Nat, NEW f, IsPath(f, s, S, url)
  PROVE  PathScan(s, url) = f[Len(url)]
<1> DEFINE N == Len(url)
           after[k \in 0 .. N] == IF k = 0 THEN s ELSE PathChar(after[k - 1], url[k])
<1>1. \A k \in 0 .. N : f[k] = IF k = 0 THEN s ELSE PathChar(f[k - 1], url[k])
  BY DEF IsPath
<1>2. f = [k \in 0 .. N |-> IF k = 0 THEN s ELSE PathChar(f[k - 1], url[k])]
  BY <1>1 DEF IsPath
<1>3. after = [k \in 0 .. N |-> IF k = 0 THEN s ELSE PathChar(after[k - 1], url[k])]
  BY <1>2
<1>4. PathScan(s, url) = after[N]
  BY DEF PathScan
<1> HIDE DEF after
<1>5. \A k \in 0 .. N : after[k] = IF k = 0 THEN s ELSE PathChar(after[k - 1], url[k])
  BY <1>3
<1> DEFINE T == {k \in 0 .. N : after[k] = f[k]}
<1>6. 0 \in T
  BY <1>1, <1>5
<1>7. ASSUME NEW k \in 0 .. N - 1, k \in T PROVE k + 1 \in T
  <2>1. k + 1 \in 0 .. N /\ k + 1 # 0 /\ (k + 1) - 1 = k
    BY <1>7
  <2>2. after[k + 1] = PathChar(after[k], url[k + 1]) /\ f[k + 1] = PathChar(f[k], url[k + 1])
    BY <1>1, <1>5, <2>1
  <2> QED
    BY <1>7, <2>1, <2>2
<1>8. N \in T
  <2> HIDE DEF T
  <2>1. \A k \in 0 .. N : k \in T
    BY <1>6, <1>7, Upto
  <2> QED
    BY <2>1
<1> QED
  BY <1>4, <1>8

LEMMA PathNone == ASSUME NEW S, NEW s \in PathStates(S) PROVE PathScan(s, <<>>) = s
<1> DEFINE e == <<>>
<1>0. e \in Seq(S) /\ Len(e) = 0
  OBVIOUS
<1> HIDE DEF e
<1>1. PICK f : IsPath(f, s, S, e)
  BY <1>0, PathExists
<1>2. f[0] = s
  BY <1>1 DEF IsPath
<1>3. PathScan(s, e) = f[Len(e)]
  BY <1>0, <1>1, PathIs
<1> QED
  BY <1>0, <1>2, <1>3 DEF e

LEMMA PathAppend ==
  ASSUME NEW S, NEW s \in PathStates(S), NEW t \in Seq(S), NEW c \in S
  PROVE  /\ PathScan(s, t) \in PathStates(S)
         /\ PathScan(s, Append(t, c)) = PathChar(PathScan(s, t), c)
<1> DEFINE N == Len(t)
           u == Append(t, c)
<1>1. u \in Seq(S) /\ Len(u) = N + 1 /\ N \in Nat /\ u[N + 1] = c /\ \A i \in 1 .. N : u[i] = t[i]
  BY AppendHas
<1> HIDE DEF u
<1>2. PICK f : IsPath(f, s, S, t)
  BY PathExists
<1>3. PICK g : IsPath(g, s, S, u)
  BY <1>1, PathExists
<1> DEFINE T == {k \in 0 .. N : f[k] = g[k]}
<1>4. 0 \in T
  BY <1>1, <1>2, <1>3 DEF IsPath
<1>5. ASSUME NEW k \in 0 .. N - 1, k \in T PROVE k + 1 \in T
  <2>1. k + 1 \in 1 .. N /\ k + 1 \in 1 .. N + 1 /\ (k + 1) - 1 = k /\ k + 1 \in 0 .. N
    BY <1>1
  <2>2. f[k + 1] = PathChar(f[k], t[k + 1])
    BY <1>2, <2>1 DEF IsPath
  <2>3. g[k + 1] = PathChar(g[k], u[k + 1])
    BY <1>1, <1>3, <2>1 DEF IsPath
  <2>4. u[k + 1] = t[k + 1]
    BY <1>1, <2>1
  <2>5. f[k] = g[k]
    BY <1>5
  <2>6. f[k + 1] = g[k + 1]
    BY <2>2, <2>3, <2>4, <2>5
  <2> QED
    BY <2>1, <2>6
<1>6. f[N] = g[N]
  <2> HIDE DEF T
  <2>1. \A k \in 0 .. N : k \in T
    BY <1>1, <1>4, <1>5, Upto
  <2>2. N \in T
    BY <1>1, <2>1
  <2> QED
    BY <2>2 DEF T
<1>7. g[N + 1] = PathChar(g[N], c)
  <2>1. N + 1 \in 1 .. N + 1 /\ (N + 1) - 1 = N
    BY <1>1
  <2> QED
    BY <1>1, <1>3, <2>1 DEF IsPath
<1>8. PathScan(s, t) = f[N] /\ PathScan(s, u) = g[N + 1]
  BY <1>1, <1>2, <1>3, PathIs
<1>9. f[N] \in PathStates(S)
  <2>1. N \in 0 .. N
    BY <1>1
  <2> QED
    BY <1>2, <2>1 DEF IsPath
<1> QED
  BY <1>6, <1>7, <1>8, <1>9 DEF u

LEMMA PathOne == ASSUME NEW S, NEW s \in PathStates(S), NEW c \in S PROVE PathScan(s, <<c>>) = PathChar(s, c)
<1> DEFINE e == <<>>
<1>1. Append(e, c) = <<c>> /\ e \in Seq(S)
  OBVIOUS
<1>2. PathScan(s, e) = s
  BY PathNone
<1> HIDE DEF e
<1>3. PathScan(s, Append(e, c)) = PathChar(PathScan(s, e), c)
  BY <1>1, PathAppend
<1> QED
  BY <1>1, <1>2, <1>3

LEMMA PathConcat ==
  ASSUME NEW S, NEW s \in PathStates(S), NEW a \in Seq(S), NEW b \in Seq(S)
  PROVE  PathScan(s, a \o b) = PathScan(PathScan(s, a), b)
<1> DEFINE p == PathScan(s, a)
           T == {t \in Seq(S) : PathScan(s, a \o t) = PathScan(p, t)}
<1>0. p \in PathStates(S)
  <2>1. CASE a = <<>>
    BY <2>1, PathNone
  <2>2. CASE a # <<>>
    <3>1. PICK c : c \in S
      BY <2>2, EmptySeq
    <3> QED
      BY <3>1, PathAppend
  <2> QED
    BY <2>1, <2>2
<1> HIDE DEF p
<1>1. <<>> \in T
  <2>1. a \o <<>> = a
    BY ConcatEmptySeq
  <2>2. PathScan(p, <<>>) = p
    BY <1>0, PathNone
  <2>3. PathScan(s, a) = p
    BY DEF p
  <2> QED
    BY <2>1, <2>2, <2>3
<1>2. ASSUME NEW t \in Seq(S), NEW c \in S, t \in T PROVE Append(t, c) \in T
  <2> DEFINE u == a \o t
  <2>1. u \in Seq(S) /\ a \o Append(t, c) = Append(u, c)
    BY ConcatAppend
  <2>2. PathScan(s, u) = PathScan(p, t)
    BY <1>2
  <2> HIDE DEF u
  <2>3. PathScan(s, Append(u, c)) = PathChar(PathScan(s, u), c)
    BY <2>1, PathAppend
  <2>4. PathScan(p, Append(t, c)) = PathChar(PathScan(p, t), c)
    BY <1>0, PathAppend
  <2>5. Append(t, c) \in Seq(S)
    BY AppendProperties
  <2> QED
    BY <2>1, <2>2, <2>3, <2>4, <2>5
<1> HIDE DEF T
<1>3. b \in T
  BY <1>1, <1>2, SeqUp
<1> QED
  BY <1>3 DEF T, p

-----------------------------------------------------------------------------
(* The loop over the request line of HLS and DASH.                         *)

FieldStates(S) ==
  [spaces : Nat, slashes : Nat, dots : Nat, app : Seq(S), stream : Seq(S), name : Seq(S), type : Seq(S)]

IsField(f, s, S, url) ==
  /\ f \in [0 .. Len(url) -> FieldStates(S)] /\ f[0] = s
  /\ \A k \in 1 .. Len(url) : f[k] = Field(f[k - 1], url[k])

LEMMA FieldIn ==
  ASSUME NEW S, NEW s \in FieldStates(S), NEW c \in S
  PROVE  Field(s, c) \in FieldStates(S)
<1>1. /\ Append(s.app, c) \in Seq(S) /\ Append(s.stream, c) \in Seq(S)
      /\ Append(s.name, c) \in Seq(S) /\ Append(s.type, c) \in Seq(S)
  BY AppendProperties DEF FieldStates
<1>2. s.spaces + 1 \in Nat /\ s.slashes + 1 \in Nat /\ s.dots + 1 \in Nat
  BY DEF FieldStates
<1> QED
  BY <1>1, <1>2 DEF Field, FieldStates

LEMMA FieldExists ==
  ASSUME NEW S, NEW s \in FieldStates(S), NEW url \in Seq(S)
  PROVE  \E f : IsField(f, s, S, url)
<1> DEFINE N == Len(url)
           V == FieldStates(S)
           step == [x \in V \X (1 .. N) |-> Field(x[1], url[x[2]])]
<1>1. N \in Nat /\ \A k \in 1 .. N : url[k] \in S
  OBVIOUS
<1>2. step \in [V \X (1 .. N) -> V]
  <2>1. \A v \in V, c \in S : Field(v, c) \in V
    BY FieldIn
  <2>2. \A x \in V \X (1 .. N) : x[1] \in V /\ x[2] \in 1 .. N
    OBVIOUS
  <2> HIDE DEF V
  <2> QED
    BY <1>1, <2>1, <2>2
<1> HIDE DEF V
<1>3. \A v \in V, k \in 1 .. N : step[<<v, k>>] = Field(v, url[k])
  OBVIOUS
<1> HIDE DEF step
<1>4. PICK f : Runs(f, N, V, step, s)
  BY <1>1, <1>2, RunExists DEF V
<1>5. \A k \in 1 .. N : f[k - 1] \in V
  <2>1. \A k \in 1 .. N : k - 1 \in 0 .. N
    OBVIOUS
  <2> QED
    BY <1>4, <2>1 DEF Runs
<1>6. IsField(f, s, S, url)
  BY <1>3, <1>4, <1>5 DEF Runs, IsField, V
<1> QED
  BY <1>6

LEMMA FieldIs ==
  ASSUME NEW S, NEW s, NEW url, Len(url) \in Nat, NEW f, IsField(f, s, S, url)
  PROVE  FieldScan(s, url) = f[Len(url)]
<1> DEFINE N == Len(url)
           after[k \in 0 .. N] == IF k = 0 THEN s ELSE Field(after[k - 1], url[k])
<1>1. \A k \in 0 .. N : f[k] = IF k = 0 THEN s ELSE Field(f[k - 1], url[k])
  BY DEF IsField
<1>2. f = [k \in 0 .. N |-> IF k = 0 THEN s ELSE Field(f[k - 1], url[k])]
  BY <1>1 DEF IsField
<1>3. after = [k \in 0 .. N |-> IF k = 0 THEN s ELSE Field(after[k - 1], url[k])]
  BY <1>2
<1>4. FieldScan(s, url) = after[N]
  BY DEF FieldScan
<1> HIDE DEF after
<1>5. \A k \in 0 .. N : after[k] = IF k = 0 THEN s ELSE Field(after[k - 1], url[k])
  BY <1>3
<1> DEFINE T == {k \in 0 .. N : after[k] = f[k]}
<1>6. 0 \in T
  BY <1>1, <1>5
<1>7. ASSUME NEW k \in 0 .. N - 1, k \in T PROVE k + 1 \in T
  <2>1. k + 1 \in 0 .. N /\ k + 1 # 0 /\ (k + 1) - 1 = k
    BY <1>7
  <2>2. after[k + 1] = Field(after[k], url[k + 1]) /\ f[k + 1] = Field(f[k], url[k + 1])
    BY <1>1, <1>5, <2>1
  <2> QED
    BY <1>7, <2>1, <2>2
<1>8. N \in T
  <2> HIDE DEF T
  <2>1. \A k \in 0 .. N : k \in T
    BY <1>6, <1>7, Upto
  <2> QED
    BY <2>1
<1> QED
  BY <1>4, <1>8

LEMMA FieldNone == ASSUME NEW S, NEW s \in FieldStates(S) PROVE FieldScan(s, <<>>) = s
<1> DEFINE e == <<>>
<1>0. e \in Seq(S) /\ Len(e) = 0
  OBVIOUS
<1> HIDE DEF e
<1>1. PICK f : IsField(f, s, S, e)
  BY <1>0, FieldExists
<1>2. f[0] = s
  BY <1>1 DEF IsField
<1>3. FieldScan(s, e) = f[Len(e)]
  BY <1>0, <1>1, FieldIs
<1> QED
  BY <1>0, <1>2, <1>3 DEF e

LEMMA FieldAppend ==
  ASSUME NEW S, NEW s \in FieldStates(S), NEW t \in Seq(S), NEW c \in S
  PROVE  /\ FieldScan(s, t) \in FieldStates(S)
         /\ FieldScan(s, Append(t, c)) = Field(FieldScan(s, t), c)
<1> DEFINE N == Len(t)
           u == Append(t, c)
<1>1. u \in Seq(S) /\ Len(u) = N + 1 /\ N \in Nat /\ u[N + 1] = c /\ \A i \in 1 .. N : u[i] = t[i]
  BY AppendHas
<1> HIDE DEF u
<1>2. PICK f : IsField(f, s, S, t)
  BY FieldExists
<1>3. PICK g : IsField(g, s, S, u)
  BY <1>1, FieldExists
<1> DEFINE T == {k \in 0 .. N : f[k] = g[k]}
<1>4. 0 \in T
  BY <1>1, <1>2, <1>3 DEF IsField
<1>5. ASSUME NEW k \in 0 .. N - 1, k \in T PROVE k + 1 \in T
  <2>1. k + 1 \in 1 .. N /\ k + 1 \in 1 .. N + 1 /\ (k + 1) - 1 = k /\ k + 1 \in 0 .. N
    BY <1>1
  <2>2. f[k + 1] = Field(f[k], t[k + 1])
    BY <1>2, <2>1 DEF IsField
  <2>3. g[k + 1] = Field(g[k], u[k + 1])
    BY <1>1, <1>3, <2>1 DEF IsField
  <2>4. u[k + 1] = t[k + 1]
    BY <1>1, <2>1
  <2>5. f[k] = g[k]
    BY <1>5
  <2>6. f[k + 1] = g[k + 1]
    BY <2>2, <2>3, <2>4, <2>5
  <2> QED
    BY <2>1, <2>6
<1>6. f[N] = g[N]
  <2> HIDE DEF T
  <2>1. \A k \in 0 .. N : k \in T
    BY <1>1, <1>4, <1>5, Upto
  <2>2. N \in T
    BY <1>1, <2>1
  <2> QED
    BY <2>2 DEF T
<1>7. g[N + 1] = Field(g[N], c)
  <2>1. N + 1 \in 1 .. N + 1 /\ (N + 1) - 1 = N
    BY <1>1
  <2> QED
    BY <1>1, <1>3, <2>1 DEF IsField
<1>8. FieldScan(s, t) = f[N] /\ FieldScan(s, u) = g[N + 1]
  BY <1>1, <1>2, <1>3, FieldIs
<1>9. f[N] \in FieldStates(S)
  <2>1. N \in 0 .. N
    BY <1>1
  <2> QED
    BY <1>2, <2>1 DEF IsField
<1> QED
  BY <1>6, <1>7, <1>8, <1>9 DEF u

LEMMA FieldOne == ASSUME NEW S, NEW s \in FieldStates(S), NEW c \in S PROVE FieldScan(s, <<c>>) = Field(s, c)
<1> DEFINE e == <<>>
<1>1. Append(e, c) = <<c>> /\ e \in Seq(S)
  OBVIOUS
<1>2. FieldScan(s, e) = s
  BY FieldNone
<1> HIDE DEF e
<1>3. FieldScan(s, Append(e, c)) = Field(FieldScan(s, e), c)
  BY <1>1, FieldAppend
<1> QED
  BY <1>1, <1>2, <1>3

LEMMA FieldConcat ==
  ASSUME NEW S, NEW s \in FieldStates(S), NEW a \in Seq(S), NEW b \in Seq(S)
  PROVE  FieldScan(s, a \o b) = FieldScan(FieldScan(s, a), b)
<1> DEFINE p == FieldScan(s, a)
           T == {t \in Seq(S) : FieldScan(s, a \o t) = FieldScan(p, t)}
<1>0. p \in FieldStates(S)
  <2>1. CASE a = <<>>
    BY <2>1, FieldNone
  <2>2. CASE a # <<>>
    <3>1. PICK c : c \in S
      BY <2>2, EmptySeq
    <3> QED
      BY <3>1, FieldAppend
  <2> QED
    BY <2>1, <2>2
<1> HIDE DEF p
<1>1. <<>> \in T
  <2>1. a \o <<>> = a
    BY ConcatEmptySeq
  <2>2. FieldScan(p, <<>>) = p
    BY <1>0, FieldNone
  <2>3. FieldScan(s, a) = p
    BY DEF p
  <2> QED
    BY <2>1, <2>2, <2>3
<1>2. ASSUME NEW t \in Seq(S), NEW c \in S, t \in T PROVE Append(t, c) \in T
  <2> DEFINE u == a \o t
  <2>1. u \in Seq(S) /\ a \o Append(t, c) = Append(u, c)
    BY ConcatAppend
  <2>2. FieldScan(s, u) = FieldScan(p, t)
    BY <1>2
  <2> HIDE DEF u
  <2>3. FieldScan(s, Append(u, c)) = Field(FieldScan(s, u), c)
    BY <2>1, FieldAppend
  <2>4. FieldScan(p, Append(t, c)) = Field(FieldScan(p, t), c)
    BY <1>0, FieldAppend
  <2>5. Append(t, c) \in Seq(S)
    BY AppendProperties
  <2> QED
    BY <2>1, <2>2, <2>3, <2>4, <2>5
<1> HIDE DEF T
<1>3. b \in T
  BY <1>1, <1>2, SeqUp
<1> QED
  BY <1>3 DEF T, p

\* u is a, the separator, and b.
Cuts(u, sep, a, b) ==
  /\ Len(u) = Len(a) + 1 + Len(b) /\ u[Len(a) + 1] = sep
  /\ \A i \in 1 .. Len(a) : u[i] = a[i] /\ a[i] # sep
  /\ \A i \in 1 .. Len(b) : u[Len(a) + 1 + i] = b[i]

LEMMA CutIs ==
  ASSUME NEW S, NEW u \in Seq(S), NEW sep, NEW n \in 1 .. Len(u), u[n] = sep,
         \A i \in 1 .. n - 1 : u[i] # sep
  PROVE  Has(sep, u) /\ Cut(u, sep) = n
<1>1. DOMAIN u = 1 .. Len(u) /\ Len(u) \in Nat
  BY LenProperties
<1>2. Has(sep, u)
  BY <1>1 DEF Has
<1> DEFINE P(i) == u[i] = sep /\ \A j \in 1 .. i - 1 : u[j] # sep
           c == CHOOSE i \in DOMAIN u : P(i)
<1>3. c \in DOMAIN u /\ P(c)
  BY <1>1
<1>4. Cut(u, sep) = c
  BY <1>2 DEF Cut
<1> HIDE DEF c
<1>5. c \in 1 .. Len(u) /\ c \in Int
  BY <1>1, <1>3
<1>6. ~(c < n)
  <2>1. c < n => c \in 1 .. n - 1
    BY <1>5
  <2> QED
    BY <1>3, <2>1
<1>7. ~(n < c)
  <2>1. n < c => n \in 1 .. c - 1
    BY <1>5
  <2> QED
    BY <1>3, <2>1
<1>8. c = n
  BY <1>5, <1>6, <1>7
<1> QED
  BY <1>2, <1>4, <1>8

LEMMA CutsPieces ==
  ASSUME NEW S, NEW u \in Seq(S), NEW sep, NEW a \in Seq(S), NEW b \in Seq(S), Cuts(u, sep, a, b)
  PROVE  Has(sep, u) /\ FirstPiece(u, sep) = a /\ OtherPieces(u, sep) = b
<1> DEFINE n == Len(a) + 1
<1>1. Len(a) \in Nat /\ Len(b) \in Nat /\ Len(u) = Len(a) + 1 + Len(b)
  BY DEF Cuts
<1>2. n \in 1 .. Len(u) /\ n - 1 = Len(a) /\ n \in 0 .. Len(u) /\ Len(a) \in 0 .. Len(u)
      /\ Len(u) - n = Len(b)
  BY <1>1
<1>3. u[n] = sep /\ \A i \in 1 .. n - 1 : u[i] # sep
  BY <1>1, <1>2 DEF Cuts
<1> HIDE DEF n
<1>4. Has(sep, u) /\ Cut(u, sep) = n
  BY <1>2, <1>3, CutIs
<1>5. FirstPiece(u, sep) = a
  <2> DEFINE f == SubSeq(u, 1, Len(a))
  <2>1. FirstPiece(u, sep) = f
    BY <1>2, <1>4 DEF FirstPiece
  <2>2. f \in Seq(S) /\ Len(f) = Len(a) /\ \A i \in 1 .. Len(a) : f[i] = u[i]
    BY <1>2, FrontProperties
  <2> HIDE DEF f
  <2>3. \A i \in 1 .. Len(a) : f[i] = a[i]
    BY <2>2 DEF Cuts
  <2>4. f = a
    BY <2>2, <2>3, SeqEqual
  <2> QED
    BY <2>1, <2>4
<1>6. OtherPieces(u, sep) = b
  <2> DEFINE f == Behind(u, n)
  <2>1. OtherPieces(u, sep) = f
    BY <1>4 DEF OtherPieces, Behind
  <2>2. f \in Seq(S) /\ Len(f) = Len(b) /\ \A i \in 1 .. Len(b) : f[i] = u[n + i]
    BY <1>2, BehindProperties
  <2> HIDE DEF f
  <2>3. \A i \in 1 .. Len(b) : f[i] = b[i]
    BY <2>2 DEF Cuts, n
  <2>4. f = b
    BY <2>2, <2>3, SeqEqual
  <2> QED
    BY <2>1, <2>4
<1> QED
  BY <1>4, <1>5, <1>6

LEMMA NoPieces ==
  ASSUME NEW S, NEW u \in Seq(S), NEW sep, ~Has(sep, u)
  PROVE  FirstPiece(u, sep) = u /\ OtherPieces(u, sep) = <<>>
<1>1. Len(u) \in Nat /\ (Len(u) + 1) - 1 = Len(u) /\ (Len(u) + 1) + 1 > Len(u)
  OBVIOUS
<1>2. Cut(u, sep) = Len(u) + 1
  BY DEF Cut
<1>3. SubSeq(u, 1, Len(u)) = u
  BY SubSeqFull
<1>4. SubSeq(u, (Len(u) + 1) + 1, Len(u)) = <<>>
  BY <1>1, SubSeqEmpty
<1> QED
  BY <1>1, <1>2, <1>3, <1>4 DEF FirstPiece, OtherPieces

-----------------------------------------------------------------------------
(* The path of a URL.                                                      *)

Alphabet == Words \cup Marks \cup {GET, HEAD} \cup 0 .. 255

PathState(query, part, parts) ==
  [first |-> FALSE, query |-> query, part |-> part, parts |-> parts]

LEMMA WordIsNoMark ==
  ASSUME NEW w \in Words
  PROVE  w \notin {CR, LF, Space, Dot, Slash, Colon, Query} /\ w # GET /\ w # HEAD
BY WordsAssumption DEF Marks

LEMMA PathWord ==
  ASSUME NEW w, w # Slash, w # Query, NEW part, NEW parts
  PROVE  PathChar(PathState(FALSE, part, parts), w) = PathState(FALSE, Append(part, w), parts)
BY DEF PathChar, PathState

LEMMA PathSlash ==
  ASSUME NEW part, NEW parts
  PROVE  PathChar(PathState(FALSE, part, parts), Slash) = PathState(FALSE, <<>>, Append(parts, part))
<1> DEFINE s == PathState(FALSE, part, parts)
<1>1. ~s.first
  BY DEF PathState
<1>3. s = [first |-> FALSE, query |-> FALSE, part |-> part, parts |-> parts]
  BY DEF PathState
<1> HIDE DEF s
<1>2. PathChar(s, Slash) = [s EXCEPT !.parts = Append(@, s.part), !.part = <<>>]
  BY <1>1, MarksDiffer, Zenon DEF PathChar
<1>4. PathChar(s, Slash) = [first |-> FALSE, query |-> FALSE, part |-> <<>>, parts |-> Append(parts, part)]
  BY <1>2, <1>3
<1> QED
  BY <1>4 DEF PathState, s

LEMMA PathQuery ==
  ASSUME NEW query, NEW part, NEW parts
  PROVE  PathChar(PathState(query, part, parts), Query) = PathState(TRUE, part, parts)
BY MarksDiffer DEF PathChar, PathState

LEMMA PathBehindQuery ==
  ASSUME NEW w, w # Slash, NEW part, NEW parts
  PROVE  PathChar(PathState(TRUE, part, parts), w) = PathState(TRUE, part, parts)
BY DEF PathChar, PathState

LEMMA PathStateIn ==
  ASSUME NEW S, NEW query \in BOOLEAN, NEW part \in Seq(S), NEW parts \in Seq(Seq(S))
  PROVE  PathState(query, part, parts) \in PathStates(S)
BY DEF PathState, PathStates

LEMMA HasAppend ==
  ASSUME NEW S, NEW s \in Seq(S), NEW c \in S, NEW x, ~Has(x, Append(s, c))
  PROVE  ~Has(x, s) /\ c # x
<1> DEFINE u == Append(s, c)
<1>1. /\ u \in Seq(S) /\ Len(u) = Len(s) + 1 /\ Len(s) \in Nat /\ u[Len(s) + 1] = c
      /\ \A i \in 1 .. Len(s) : u[i] = s[i]
  BY AppendHas
<1> HIDE DEF u
<1>2. DOMAIN u = 1 .. Len(s) + 1 /\ DOMAIN s = 1 .. Len(s)
  BY <1>1, LenProperties
<1>3. Len(s) + 1 \in DOMAIN u /\ \A i \in DOMAIN s : i \in DOMAIN u /\ u[i] = s[i]
  BY <1>1, <1>2
<1>4. ~Has(x, u)
  BY DEF u
<1> QED
  BY <1>1, <1>3, <1>4 DEF Has

LEMMA HasNot ==
  ASSUME NEW W, NEW s \in Seq(W), NEW x, x \notin W
  PROVE  ~Has(x, s)
<1>1. \A i \in DOMAIN s : s[i] \in W
  BY LenProperties
<1> QED
  BY <1>1 DEF Has

LEMMA PathWords ==
  ASSUME NEW S, NEW part \in Seq(S), NEW parts \in Seq(Seq(S)), NEW words \in Seq(S),
         ~Has(Slash, words), ~Has(Query, words)
  PROVE  PathScan(PathState(FALSE, part, parts), words) = PathState(FALSE, part \o words, parts)
<1> DEFINE s == PathState(FALSE, part, parts)
           T == {t \in Seq(S) : ~Has(Slash, t) /\ ~Has(Query, t) => PathScan(s, t) = PathState(FALSE, part \o t, parts)}
<1>0. s \in PathStates(S)
  BY PathStateIn
<1>1. <<>> \in T
  <2>1. part \o <<>> = part
    BY ConcatEmptySeq
  <2>2. PathScan(s, <<>>) = s
    BY <1>0, PathNone
  <2>3. <<>> \in Seq(S)
    OBVIOUS
  <2> HIDE DEF s
  <2> QED
    BY <2>1, <2>2, <2>3, Zenon DEF s
<1>2. ASSUME NEW t \in Seq(S), NEW c \in S, t \in T PROVE Append(t, c) \in T
  <2> SUFFICES ASSUME ~Has(Slash, Append(t, c)), ~Has(Query, Append(t, c))
               PROVE  PathScan(s, Append(t, c)) = PathState(FALSE, part \o Append(t, c), parts)
    BY AppendProperties
  <2>0. ~Has(Slash, t) /\ c # Slash /\ ~Has(Query, t) /\ c # Query
    BY HasAppend
  <2>1. PathScan(s, Append(t, c)) = PathChar(PathScan(s, t), c)
    BY <1>0, PathAppend
  <2>2. part \o Append(t, c) = Append(part \o t, c)
    BY ConcatAppend
  <2>3. PathChar(PathState(FALSE, part \o t, parts), c) = PathState(FALSE, Append(part \o t, c), parts)
    BY <2>0, PathWord
  <2> QED
    BY <1>2, <2>0, <2>1, <2>2, <2>3
<1> HIDE DEF T
<1>3. words \in T
  BY <1>1, <1>2, SeqUp
<1> QED
  BY <1>3 DEF T

LEMMA PathArguments ==
  ASSUME NEW S, NEW part \in Seq(S), NEW parts \in Seq(Seq(S)), NEW words \in Seq(S), ~Has(Slash, words),
         words # <<>>, words[1] = Query
  PROVE  PathScan(PathState(FALSE, part, parts), words) = PathState(TRUE, part, parts)
<1> DEFINE s == PathState(FALSE, part, parts)
           r == PathState(TRUE, part, parts)
           T == {t \in Seq(S) : t # <<>> /\ ~Has(Slash, t) /\ t[1] = Query => PathScan(s, t) = r}
<1>0. s \in PathStates(S)
  BY PathStateIn
<1>1. <<>> \in T
  OBVIOUS
<1>2. ASSUME NEW t \in Seq(S), NEW c \in S, t \in T PROVE Append(t, c) \in T
  <2> DEFINE u == Append(t, c)
  <2>0. ~Has(Slash, u) => ~Has(Slash, t) /\ c # Slash
    BY HasAppend
  <2>1. PathScan(s, u) = PathChar(PathScan(s, t), c)
    BY <1>0, PathAppend
  <2>2. u \in Seq(S) /\ (t = <<>> => u[1] = c) /\ (t # <<>> => u[1] = t[1])
    BY AppendHas
  <2> HIDE DEF u
  <2>3. ASSUME u[1] = Query, ~Has(Slash, u) PROVE PathScan(s, u) = r
    <3>1. CASE t = <<>>
      <4>1. c = Query /\ PathScan(s, t) = s
        BY <1>0, <2>2, <2>3, <3>1, PathNone
      <4>2. PathChar(s, Query) = r
        BY PathQuery
      <4> QED
        BY <2>1, <4>1, <4>2
    <3>2. CASE t # <<>>
      <4>1. PathScan(s, t) = r
        BY <1>2, <2>0, <2>2, <2>3, <3>2
      <4>2. PathChar(r, c) = r
        BY <2>0, <2>3, PathBehindQuery
      <4> QED
        BY <2>1, <4>1, <4>2
    <3> QED
      BY <3>1, <3>2
  <2> QED
    BY <2>2, <2>3 DEF u
<1> HIDE DEF T
<1>3. words \in T
  BY <1>1, <1>2, SeqUp
<1> QED
  BY <1>3 DEF T

\* A sequence made of another, one element of each.
Made(m, s, R) == m = [i \in DOMAIN s |-> m[i]] /\ \A i \in DOMAIN s : m[i] \in R
MadeOn(m, s, m2, u, v) ==
  m2 = [i \in DOMAIN u |-> m2[i]] /\ (\A i \in DOMAIN s : m2[i] = m[i]) /\ m2[Len(s) + 1] = v
Grows(m, m2, v, R) == m \in Seq(R) /\ m2 = Append(m, v)

LEMMA MadeAppend ==
  ASSUME NEW S, NEW s \in Seq(S), NEW c \in S, NEW u, u = Append(s, c),
         NEW R, NEW m, Made(m, s, R), NEW v \in R, NEW m2, MadeOn(m, s, m2, u, v)
  PROVE  Grows(m, m2, v, R)
<1>1. u \in Seq(S) /\ Len(u) = Len(s) + 1 /\ Len(s) \in Nat
  BY AppendHas
<1>2. DOMAIN s = 1 .. Len(s) /\ DOMAIN u = 1 .. Len(s) + 1
  BY <1>1, LenProperties
<1>3. m \in [1 .. Len(s) -> R]
  BY <1>2 DEF Made
<1>4. m \in Seq(R) /\ Len(m) = Len(s)
  BY <1>1, <1>3, LenProperties
<1> DEFINE a == Append(m, v)
<1>5. a \in Seq(R) /\ Len(a) = Len(s) + 1 /\ a[Len(s) + 1] = v /\ \A i \in 1 .. Len(s) : a[i] = m[i]
  BY <1>4, AppendProperties
<1> HIDE DEF a
<1>6. \A i \in 1 .. Len(s) + 1 : i = Len(s) + 1 \/ i \in 1 .. Len(s)
  BY <1>1
<1>7. \A i \in 1 .. Len(s) + 1 : m2[i] = a[i]
  BY <1>2, <1>5, <1>6 DEF MadeOn
<1>8. m2 \in [1 .. Len(s) + 1 -> R]
  <2>1. \A i \in 1 .. Len(s) + 1 : m2[i] \in R
    BY <1>2, <1>3, <1>6 DEF MadeOn
  <2> QED
    BY <1>2, <2>1 DEF MadeOn
<1>9. m2 \in Seq(R) /\ Len(m2) = Len(s) + 1
  BY <1>1, <1>8, LenProperties
<1>10. m2 = a
  BY <1>5, <1>7, <1>9, SeqEqual
<1> QED
  BY <1>4, <1>10 DEF a, Grows

DirParts(dirs) == [i \in DOMAIN dirs |-> <<dirs[i]>>]

LEMMA DirPartsAppend ==
  ASSUME NEW S, NEW dirs \in Seq(S), NEW d \in S
  PROVE  /\ DirParts(dirs) \in Seq(Seq(S)) /\ Len(DirParts(dirs)) = Len(dirs)
         /\ DirParts(Append(dirs, d)) = Append(DirParts(dirs), <<d>>)
<1> DEFINE u == Append(dirs, d)
           m == DirParts(dirs)
           m2 == DirParts(u)
           v == <<d>>
<1>1. /\ u \in Seq(S) /\ Len(u) = Len(dirs) + 1 /\ Len(dirs) \in Nat /\ u[Len(dirs) + 1] = d
      /\ \A i \in 1 .. Len(dirs) : u[i] = dirs[i]
  BY AppendHas
<1>2. DOMAIN dirs = 1 .. Len(dirs) /\ DOMAIN u = 1 .. Len(dirs) + 1
  BY <1>1, LenProperties
<1>3. u = Append(dirs, d) /\ v \in Seq(S)
  OBVIOUS
<1>4. DOMAIN m = DOMAIN dirs /\ m = [i \in DOMAIN dirs |-> m[i]]
  BY DEF DirParts
<1>5. \A i \in DOMAIN dirs : m[i] \in Seq(S)
  <2>1. \A i \in DOMAIN dirs : m[i] = <<dirs[i]>> /\ dirs[i] \in S
    BY <1>2 DEF DirParts
  <2>2. \A x \in S : <<x>> \in Seq(S)
    OBVIOUS
  <2> HIDE DEF m
  <2> QED
    BY <2>1, <2>2
<1> HIDE DEF u
<1>6. m2 = [i \in DOMAIN u |-> m2[i]]
  BY DEF DirParts
<1>7. \A i \in DOMAIN dirs : m2[i] = m[i]
  <2>1. \A i \in DOMAIN dirs : i \in DOMAIN u /\ u[i] = dirs[i]
    BY <1>1, <1>2
  <2> QED
    BY <2>1 DEF DirParts
<1>8. m2[Len(dirs) + 1] = v
  <2>1. Len(dirs) + 1 \in DOMAIN u
    BY <1>1, <1>2
  <2> QED
    BY <1>1, <2>1 DEF DirParts
<1> HIDE DEF m, m2, v
<1>9. m \in Seq(Seq(S)) /\ m2 = Append(m, v)
  <2> DEFINE R == Seq(S)
  <2>1. v \in R /\ Made(m, dirs, R)
    BY <1>3, <1>4, <1>5 DEF Made
  <2>2. MadeOn(m, dirs, m2, u, v)
    BY <1>6, <1>7, <1>8 DEF MadeOn
  <2> HIDE DEF R
  <2>3. Grows(m, m2, v, R)
    BY <1>3, <2>1, <2>2, MadeAppend
  <2> QED
    BY <2>3 DEF Grows, R
<1>10. Len(m) = Len(dirs)
  BY <1>1, <1>2, <1>4, <1>9, LenProperties
<1> QED
  BY <1>9, <1>10 DEF m, m2, v, u

LEMMA DirectoriesAppend ==
  ASSUME NEW S, Slash \in S, NEW dirs \in Seq(S), NEW d \in S
  PROVE  /\ Directories(dirs) \in Seq(S)
         /\ Directories(Append(dirs, d)) = Directories(dirs) \o <<Slash, d>>
<1> DEFINE u == Append(dirs, d)
           m == [i \in DOMAIN dirs |-> <<Slash, dirs[i]>>]
           m2 == [i \in DOMAIN u |-> <<Slash, u[i]>>]
           v == <<Slash, d>>
<1>1. /\ u \in Seq(S) /\ Len(u) = Len(dirs) + 1 /\ Len(dirs) \in Nat /\ u[Len(dirs) + 1] = d
      /\ \A i \in 1 .. Len(dirs) : u[i] = dirs[i]
  BY AppendHas
<1>2. DOMAIN dirs = 1 .. Len(dirs) /\ DOMAIN u = 1 .. Len(dirs) + 1
  BY <1>1, LenProperties
<1>3. u = Append(dirs, d) /\ v \in Seq(S)
  OBVIOUS
<1>4. DOMAIN m = DOMAIN dirs /\ m = [i \in DOMAIN dirs |-> m[i]]
  OBVIOUS
<1>5. \A i \in DOMAIN dirs : m[i] \in Seq(S)
  <2>1. \A i \in DOMAIN dirs : m[i] = <<Slash, dirs[i]>> /\ dirs[i] \in S
    BY <1>2
  <2>2. \A x \in S : <<Slash, x>> \in Seq(S)
    OBVIOUS
  <2> HIDE DEF m
  <2> QED
    BY <2>1, <2>2
<1> HIDE DEF u
<1>6. m2 = [i \in DOMAIN u |-> m2[i]]
  OBVIOUS
<1>7. \A i \in DOMAIN dirs : m2[i] = m[i]
  <2>1. \A i \in DOMAIN dirs : i \in DOMAIN u /\ u[i] = dirs[i]
    BY <1>1, <1>2
  <2> QED
    BY <2>1
<1>8. m2[Len(dirs) + 1] = v
  <2>1. Len(dirs) + 1 \in DOMAIN u
    BY <1>1, <1>2
  <2> QED
    BY <1>1, <2>1
<1>10. Directories(dirs) = FlattenSeq(m) /\ Directories(u) = FlattenSeq(m2)
  BY DEF Directories
<1> HIDE DEF m, m2, v
<1>9. m \in Seq(Seq(S)) /\ m2 = Append(m, v)
  <2> DEFINE R == Seq(S)
  <2>1. v \in R /\ Made(m, dirs, R)
    BY <1>3, <1>4, <1>5 DEF Made
  <2>2. MadeOn(m, dirs, m2, u, v)
    BY <1>6, <1>7, <1>8 DEF MadeOn
  <2> HIDE DEF R
  <2>3. Grows(m, m2, v, R)
    BY <1>3, <2>1, <2>2, MadeAppend
  <2> QED
    BY <2>3 DEF Grows, R
<1>11. FlattenSeq(m) \in Seq(S) /\ FlattenSeq(Append(m, v)) = FlattenSeq(m) \o v
  BY <1>3, <1>9, FlattenAppend
<1> QED
  BY <1>9, <1>10, <1>11 DEF v, u

LEMMA NoDirectories == Directories(<<>>) = <<>> /\ DirParts(<<>>) = <<>>
<1>1. [i \in DOMAIN <<>> |-> <<Slash, (<<>>)[i]>>] = <<>>
  OBVIOUS
<1> QED
  BY <1>1, FlattenNone DEF Directories, DirParts

UrlChars == Words \cup {Slash, Dot, Query}

LEMMA UrlCharIs ==
  /\ \A c \in UrlChars : c \notin {CR, LF, Space, Colon} /\ c # GET /\ c # HEAD
  /\ Words \subseteq UrlChars /\ Slash \in UrlChars /\ Dot \in UrlChars /\ Query \in UrlChars
<1>1. \A c \in Words : c \notin {CR, LF, Space, Colon} /\ c # GET /\ c # HEAD
  BY WordIsNoMark
<1>2. \A c \in {Slash, Dot, Query} : c # GET /\ c # HEAD
  BY WordsAssumption DEF Marks
<1>3. \A c \in {Slash, Dot, Query} : c \notin {CR, LF, Space, Colon}
  BY MarksDiffer
<1> QED
  BY <1>1, <1>2, <1>3 DEF UrlChars

LEMMA DirectoriesPath ==
  ASSUME NEW dirs \in Seq(Words)
  PROVE  /\ Directories(dirs) \in Seq(UrlChars) /\ DirParts(dirs) \in Seq(Seq(UrlChars))
         /\ PathChar(PathScan(NoPath, Directories(dirs)), Slash) = PathState(FALSE, <<>>, DirParts(dirs))
<1> DEFINE U == UrlChars
           T == {ds \in Seq(Words) :
                   PathChar(PathScan(NoPath, Directories(ds)), Slash) = PathState(FALSE, <<>>, DirParts(ds))}
<1>0. Words \subseteq U /\ Slash \in U /\ Slash \notin Words /\ Query \notin Words
  BY UrlCharIs, WordIsNoMark
<1> HIDE DEF U
<1>1. \A ds \in Seq(Words) : ds \in Seq(U)
  BY <1>0
<1>2. \A ds \in Seq(Words) :
         ds \in Seq(U) => Directories(ds) \in Seq(U) /\ DirParts(ds) \in Seq(Seq(U))
  BY <1>0, DirectoriesAppend, DirPartsAppend
<1>3. NoPath \in PathStates(U)
  BY DEF NoPath, PathStates
<1>4. <<>> \in T
  <2>1. PathScan(NoPath, <<>>) = NoPath
    BY <1>3, PathNone
  <2>2. PathChar(NoPath, Slash) = PathState(FALSE, <<>>, <<>>)
    <3>1. NoPath.first = TRUE
      BY DEF NoPath
    <3>2. PathChar(NoPath, Slash) = [NoPath EXCEPT !.first = FALSE]
      BY <3>1, MarksDiffer, Zenon DEF PathChar
    <3> QED
      BY <3>2 DEF NoPath, PathState
  <2>3. <<>> \in Seq(Words)
    OBVIOUS
  <2> QED
    BY <2>1, <2>2, <2>3, NoDirectories, Zenon
<1>5. ASSUME NEW ds \in Seq(Words), NEW d \in Words, ds \in T PROVE Append(ds, d) \in T
  <2> DEFINE D == Directories(ds)
             P == DirParts(ds)
             p == PathScan(NoPath, D)
             e == <<Slash>>
             f == <<Slash, d>>
             x == PathState(FALSE, <<>>, P)
  <2>1. D \in Seq(U) /\ P \in Seq(Seq(U)) /\ d \in U /\ ds \in Seq(U)
    BY <1>0, <1>1, <1>2
  <2>2. Directories(Append(ds, d)) = D \o f /\ DirParts(Append(ds, d)) = Append(P, <<d>>)
    BY <1>0, <2>1, DirectoriesAppend, DirPartsAppend
  <2>3. e \in Seq(U) /\ f \in Seq(U) /\ f = Append(e, d)
    BY <1>0, <2>1
  <2>4. PathChar(p, Slash) = x
    BY <1>5
  <2>5. p \in PathStates(U)
    BY <1>3, <2>1, PathAppend
  <2>6. PathScan(p, e) = PathChar(p, Slash)
    BY <1>0, <2>5, PathOne
  <2> HIDE DEF D, P, e, f
  <2>7. PathScan(NoPath, D \o f) = PathScan(PathScan(NoPath, D), f)
    <3>1. D \in Seq(U) /\ f \in Seq(U)
      BY <2>1, <2>3
    <3> QED
      BY <1>3, <3>1, PathConcat
  <2> HIDE DEF p
  <2>8. PathScan(p, Append(e, d)) = PathChar(PathScan(p, e), d)
    BY <2>1, <2>3, <2>5, PathAppend
  <2>9. PathChar(x, d) = PathState(FALSE, Append(<<>>, d), P)
    BY <1>0, PathWord
  <2>10. Append(<<>>, d) = <<d>>
    OBVIOUS
  <2>11. PathChar(PathState(FALSE, <<d>>, P), Slash) = PathState(FALSE, <<>>, Append(P, <<d>>))
    BY PathSlash
  <2> HIDE DEF x
  <2>12. PathScan(NoPath, Directories(Append(ds, d))) = PathState(FALSE, <<d>>, P)
    BY <2>2, <2>3, <2>4, <2>6, <2>7, <2>8, <2>9, <2>10 DEF p
  <2>13. Append(ds, d) \in Seq(Words)
    BY AppendProperties
  <2> QED
    BY <2>2, <2>11, <2>12, <2>13
<1> HIDE DEF T
<1>6. dirs \in T
  BY <1>4, <1>5, SeqUp
<1> QED
  BY <1>1, <1>2, <1>6 DEF T, U

IsUrl(url, dirs, name, type, query) ==
  url = Directories(dirs) \o <<Slash>> \o name \o <<Dot, type>> \o query

UrlOf(dirs, name, type, query) ==
  IF query = <<>> THEN Append(DirParts(dirs), name \o <<Dot, type>>) ELSE DirParts(dirs)

LEMMA UrlPath ==
  ASSUME NEW dirs \in Seq(Words), NEW name \in Seq(Words), NEW type \in Words,
         NEW query \in Seq(Words \cup {Query}), query # <<>> => query[1] = Query,
         NEW url, IsUrl(url, dirs, name, type, query)
  PROVE  url \in Seq(UrlChars) /\ PathOf(url) = UrlOf(dirs, name, type, query)
<1> DEFINE U == UrlChars
           W == Words \cup {Dot}
           a == Directories(dirs)
           P == DirParts(dirs)
           e == <<Slash>>
           b == a \o e
           c == b \o name
           f == <<Dot, type>>
           d == c \o f
           part == name \o f
           s == PathState(FALSE, <<>>, P)
           t == PathState(FALSE, part, P)
<1>0. /\ W \subseteq U /\ Slash \in U /\ Slash \notin W /\ Query \notin W /\ Words \subseteq W
      /\ Dot \in W /\ Query \in U /\ Slash \notin Words /\ Slash # Query
  BY UrlCharIs, WordIsNoMark, MarksDiffer
<1>1. a \in Seq(U) /\ P \in Seq(Seq(U)) /\ PathChar(PathScan(NoPath, a), Slash) = s
  BY DirectoriesPath
<1>2. NoPath \in PathStates(U)
  BY DEF NoPath, PathStates
<1>3. url = d \o query
  BY DEF IsUrl
<1> HIDE DEF U, W, a, P
<1>4. e \in Seq(U) /\ name \in Seq(W) /\ name \in Seq(U) /\ f \in Seq(W) /\ f \in Seq(U)
  <2>1. type \in W /\ type \in U /\ Dot \in U /\ Words \subseteq U
    BY <1>0
  <2> QED
    BY <1>0, <2>1
<1>5. query \in Seq(U)
  <2>1. Words \cup {Query} \subseteq U
    BY <1>0
  <2> QED
    BY <2>1
<1> HIDE DEF e, f
<1>6. b \in Seq(U)
  BY <1>1, <1>4, ConcatProperties
<1> HIDE DEF b
<1>7. c \in Seq(U)
  BY <1>4, <1>6, ConcatProperties
<1> HIDE DEF c
<1>8. d \in Seq(U)
  BY <1>4, <1>7, ConcatProperties
<1> HIDE DEF d
<1>9. url \in Seq(U)
  BY <1>3, <1>5, <1>8, ConcatProperties
<1>10. PathScan(NoPath, b) = s
  <2>1. PathScan(NoPath, a) \in PathStates(U)
    BY <1>0, <1>1, <1>2, PathAppend
  <2> DEFINE p == PathScan(NoPath, a)
  <2>2. PathScan(p, e) = PathChar(p, Slash)
    BY <1>0, <2>1, PathOne DEF e
  <2>3. PathScan(NoPath, a \o e) = PathScan(p, e)
    BY <1>1, <1>2, <1>4, PathConcat
  <2> QED
    BY <1>1, <2>2, <2>3 DEF b
<1>11. part \in Seq(W) /\ part \in Seq(U) /\ part # <<>>
  <2>1. part \in Seq(W) /\ part \in Seq(U) /\ Len(part) = Len(name) + Len(f)
    BY <1>4, ConcatProperties
  <2>2. Len(f) = 2 /\ Len(name) \in Nat
    BY DEF f
  <2> HIDE DEF part
  <2>3. Len(part) # 0
    BY <2>1, <2>2
  <2> QED
    BY <2>1, <2>3
<1>12. s \in PathStates(U) /\ t \in PathStates(U)
  <2>1. <<>> \in Seq(U)
    OBVIOUS
  <2> QED
    BY <2>1, <1>1, <1>11, PathStateIn
<1>13. c \o f = b \o part
  BY <1>4, <1>6, ConcatAssociative, SMTT(60) DEF c
<1>14. PathScan(s, part) = t
  <2> DEFINE n == <<>>
  <2>0. n \in Seq(U) /\ P \in Seq(Seq(U)) /\ part \in Seq(U)
    BY <1>1, <1>11
  <2>3. ~Has(Slash, part) /\ ~Has(Query, part)
    BY <1>0, <1>11, HasNot
  <2> HIDE DEF n, part
  <2>1. PathScan(PathState(FALSE, n, P), part) = PathState(FALSE, n \o part, P)
    BY <2>0, <2>3, PathWords
  <2>2. <<>> \o part = part
    BY <2>0, ConcatEmptySeq
  <2> QED
    BY <2>1, <2>2 DEF n
<1> HIDE DEF s, t, part
<1>15. PathScan(NoPath, d) = t
  <2>1. PathScan(NoPath, b \o part) = PathScan(PathScan(NoPath, b), part)
    BY <1>2, <1>6, <1>11, PathConcat
  <2> QED
    BY <2>1, <1>10, <1>13, <1>14 DEF d
<1>16. PathScan(NoPath, url) = PathScan(t, query)
  <2>1. PathScan(NoPath, d \o query) = PathScan(PathScan(NoPath, d), query)
    BY <1>2, <1>5, <1>8, PathConcat
  <2> QED
    BY <2>1, <1>3, <1>15
<1>17. CASE query = <<>>
  <2>1. PathScan(NoPath, url) = t
    BY <1>12, <1>16, <1>17, PathNone
  <2>2. t.query = FALSE /\ t.part = part /\ t.parts = P
    BY DEF t, PathState
  <2>3. PathOf(url) = Append(P, part)
    BY <1>11, <2>1, <2>2 DEF PathOf
  <2> QED
    BY <1>9, <1>17, <2>3 DEF UrlOf, P, part, f, U
<1>18. CASE query # <<>>
  <2> DEFINE X == Words \cup {Query}
  <2>0. query[1] = Query /\ part \in Seq(U) /\ P \in Seq(Seq(U)) /\ query \in Seq(U)
    BY <1>1, <1>5, <1>11, <1>18
  <2>4. Slash \notin X /\ query \in Seq(X)
    BY <1>0
  <2> HIDE DEF X
  <2>5. ~Has(Slash, query)
    BY <2>4, HasNot
  <2>1. PathScan(PathState(FALSE, part, P), query) = PathState(TRUE, part, P)
    BY <1>18, <2>0, <2>5, PathArguments
  <2> DEFINE x == PathState(TRUE, part, P)
  <2>2. x.query = TRUE /\ x.parts = P
    BY DEF PathState
  <2>3. PathOf(url) = P
    BY <1>16, <2>1, <2>2 DEF PathOf, t
  <2> QED
    BY <1>9, <1>18, <2>3 DEF UrlOf, P, U
<1> QED
  BY <1>17, <1>18

KeyChars == UrlChars \cup {Space, GET, HEAD}
Version == <<Space, HTTP, Slash, One, Dot, One>>
IsKey(key, m, url) == key = <<m, Space>> \o url \o Version

LEMMA KeyCharIs ==
  /\ KeyChars \cap {CR, LF, Colon} = {} /\ UrlChars \subseteq KeyChars /\ HTTP \in UrlChars
  /\ One \in UrlChars /\ Space \in KeyChars
  /\ Space # GET /\ Space # HEAD /\ GET \in KeyChars /\ HEAD \in KeyChars
<1>1. {GET, HEAD} \cap {CR, LF, Colon, Space} = {}
  BY WordsAssumption DEF Marks
<1>2. HTTP \in UrlChars /\ One \in UrlChars
  BY WordsAssumption DEF UrlChars
<1>3. \A c \in UrlChars : c \notin {CR, LF, Colon}
  BY UrlCharIs
<1>4. KeyChars \cap {CR, LF, Colon} = {}
  BY <1>1, <1>3, MarksDiffer DEF KeyChars
<1> QED
  BY <1>1, <1>2, <1>4 DEF KeyChars

\* What of the key of a request line the code looks at.
KeyOf(key, m, url) ==
  /\ key \in Seq(KeyChars) /\ key # <<>> /\ key[1] = m /\ Len(key) > 2
  /\ \A i \in 2 .. Len(key) : key[i] # GET /\ key[i] # HEAD
  /\ Has(Space, key) /\ FirstPiece(key, Space) = <<m>> /\ SecondPiece(key, Space) = url

LEMMA RequestKey ==
  ASSUME NEW m \in Words \cup {GET, HEAD}, NEW url \in Seq(UrlChars), NEW key, IsKey(key, m, url)
  PROVE  KeyOf(key, m, url)
<1> DEFINE K == KeyChars
           n == Len(url)
           a == <<m, Space>>
           b == a \o url
           one == <<m>>
           rest == url \o Version
           tail == <<HTTP, Slash, One, Dot, One>>
<1>1. m \in K /\ m # Space
  <2>1. m \in Words => m \in UrlChars
    BY UrlCharIs
  <2>2. Words \subseteq KeyChars
    BY UrlCharIs, KeyCharIs
  <2> QED
    BY <2>2, KeyCharIs, WordIsNoMark
<1>2. Slash \in UrlChars /\ Dot \in UrlChars
  BY UrlCharIs
<1>3. url \in Seq(K) /\ n \in Nat /\ \A i \in 1 .. n : url[i] \in UrlChars
  BY KeyCharIs
<1>4. Version \in Seq(K) /\ Len(Version) = 6 /\ Version[1] = Space
      /\ \A i \in 2 .. 6 : Version[i] \in UrlChars /\ Version[i] = tail[i - 1]
  <2>1. {Space, HTTP, Slash, One, Dot} \subseteq K
    BY <1>2, KeyCharIs
  <2>2. Version \in Seq(K) /\ Len(Version) = 6 /\ Version[1] = Space
    BY <2>1 DEF Version
  <2>3. \A i \in 2 .. 6 : i = 2 \/ i = 3 \/ i = 4 \/ i = 5 \/ i = 6
    OBVIOUS
  <2>4. /\ Version[2] = HTTP /\ Version[3] = Slash /\ Version[4] = One /\ Version[5] = Dot
        /\ Version[6] = One
    BY DEF Version
  <2>5. /\ tail[1] = HTTP /\ tail[2] = Slash /\ tail[3] = One /\ tail[4] = Dot /\ tail[5] = One
    OBVIOUS
  <2>6. \A i \in 2 .. 6 : Version[i] \in UrlChars
    BY <1>2, <2>3, <2>4, KeyCharIs
  <2> HIDE DEF tail
  <2>7. \A i \in 2 .. 6 : Version[i] = tail[i - 1]
    BY <2>3, <2>4, <2>5
  <2> QED
    BY <2>2, <2>6, <2>7
<1>5. a \in Seq(K) /\ Len(a) = 2 /\ a[1] = m /\ a[2] = Space
  BY <1>1, KeyCharIs
<1>6. one \in Seq(K) /\ Len(one) = 1 /\ one[1] = m
  BY <1>1
<1>7. tail \in Seq(K) /\ Len(tail) = 5
  BY <1>2, KeyCharIs
<1> HIDE DEF a, one, tail, K
<1>8. /\ b \in Seq(K) /\ Len(b) = 2 + n /\ b[1] = m /\ b[2] = Space
      /\ \A i \in 1 .. n : b[2 + i] = url[i]
  <2>1. b \in Seq(K) /\ Len(b) = 2 + n
        /\ \A i \in 1 .. 2 + n : b[i] = IF i <= 2 THEN a[i] ELSE url[i - 2]
    <3>1. a \in Seq(K) /\ url \in Seq(K) /\ Len(a) = 2
      BY <1>3, <1>5
    <3>2. /\ b \in Seq(K) /\ Len(b) = Len(a) + Len(url)
          /\ \A i \in 1 .. Len(a) + Len(url) :
                b[i] = IF i <= Len(a) THEN a[i] ELSE url[i - Len(a)]
      BY <3>1, ConcatProperties
    <3> HIDE DEF b
    <3> QED
      BY <3>1, <3>2
  <2>2. 1 \in 1 .. 2 + n /\ 2 \in 1 .. 2 + n /\ \A i \in 1 .. n : 2 + i \in 1 .. 2 + n /\ ~(2 + i <= 2) /\ (2 + i) - 2 = i
    BY <1>3
  <2> HIDE DEF b
  <2> QED
    BY <1>5, <2>1, <2>2
<1>9. /\ rest \in Seq(K) /\ Len(rest) = n + 6
      /\ \A i \in 1 .. n : rest[i] = url[i]
      /\ \A i \in 1 .. 6 : rest[n + i] = Version[i]
  <2>1. rest \in Seq(K) /\ Len(rest) = n + 6
        /\ \A i \in 1 .. n + 6 : rest[i] = IF i <= n THEN url[i] ELSE Version[i - n]
    <3>1. url \in Seq(K) /\ Version \in Seq(K) /\ Len(Version) = 6
      BY <1>3, <1>4
    <3>2. /\ rest \in Seq(K) /\ Len(rest) = Len(url) + Len(Version)
          /\ \A i \in 1 .. Len(url) + Len(Version) :
                rest[i] = IF i <= Len(url) THEN url[i] ELSE Version[i - Len(url)]
      BY <3>1, ConcatProperties
    <3> HIDE DEF rest
    <3> QED
      BY <3>1, <3>2
  <2>2. \A i \in 1 .. n : i \in 1 .. n + 6 /\ i <= n
    BY <1>3
  <2>3. \A i \in 1 .. 6 : n + i \in 1 .. n + 6 /\ ~(n + i <= n) /\ (n + i) - n = i
    BY <1>3
  <2> HIDE DEF rest
  <2> QED
    BY <2>1, <2>2, <2>3
<1>10. key = b \o Version
  BY DEF IsKey, a
<1> HIDE DEF b, rest
<1>11. /\ key \in Seq(K) /\ Len(key) = 2 + n + 6 /\ key[1] = m /\ key[2] = Space
       /\ \A i \in 1 .. n : key[2 + i] = url[i]
       /\ \A i \in 1 .. 6 : key[2 + n + i] = Version[i]
  <2>1. key \in Seq(K) /\ Len(key) = 2 + n + 6
        /\ \A i \in 1 .. 2 + n + 6 : key[i] = IF i <= 2 + n THEN b[i] ELSE Version[i - (2 + n)]
    <3>1. b \in Seq(K) /\ Version \in Seq(K)
      BY <1>4, <1>8
    <3>2. /\ b \o Version \in Seq(K) /\ Len(b \o Version) = Len(b) + Len(Version)
          /\ \A i \in 1 .. Len(b) + Len(Version) :
                (b \o Version)[i] = IF i <= Len(b) THEN b[i] ELSE Version[i - Len(b)]
      BY <3>1, ConcatProperties
    <3>3. Len(b) = 2 + n /\ Len(Version) = 6
      BY <1>4, <1>8
    <3> QED
      BY <3>2, <3>3, <1>10
  <2>2. 1 \in 1 .. 2 + n + 6 /\ 2 \in 1 .. 2 + n + 6 /\ 1 <= 2 + n /\ 2 <= 2 + n
    BY <1>3
  <2>3. \A i \in 1 .. n : 2 + i \in 1 .. 2 + n + 6 /\ 2 + i <= 2 + n
    BY <1>3
  <2>4. \A i \in 1 .. 6 : 2 + n + i \in 1 .. 2 + n + 6 /\ ~(2 + n + i <= 2 + n) /\ (2 + n + i) - (2 + n) = i
    BY <1>3
  <2> QED
    BY <1>8, <2>1, <2>2, <2>3, <2>4, SMTT(60)
<1>12. \A i \in 2 .. Len(key) : key[i] # GET /\ key[i] # HEAD
  <2> SUFFICES ASSUME NEW i \in 2 .. 2 + n + 6 PROVE key[i] # GET /\ key[i] # HEAD
    BY <1>11
  <2>1. CASE i = 2
    BY <2>1, <1>11, KeyCharIs
  <2>2. CASE i # 2 /\ i <= 2 + n
    <3>1. i - 2 \in 1 .. n /\ 2 + (i - 2) = i
      BY <2>2, <1>3
    <3>2. key[i] \in UrlChars
      BY <3>1, <1>3, <1>11
    <3> QED
      BY <3>2, UrlCharIs
  <2>3. CASE ~(i <= 2 + n)
    <3>1. i - (2 + n) \in 1 .. 6 /\ (2 + n) + (i - (2 + n)) = i
      BY <2>3, <1>3
    <3>2. key[i] = Version[i - (2 + n)]
      BY <3>1, <1>11
    <3>3. i - (2 + n) = 1 \/ i - (2 + n) \in 2 .. 6
      BY <3>1
    <3>4. key[i] = Space \/ key[i] \in UrlChars
      BY <3>2, <3>3, <1>4
    <3> QED
      BY <3>4, UrlCharIs, KeyCharIs
  <2> QED
    BY <2>1, <2>2, <2>3
<1>13. Cuts(key, Space, one, rest)
  <2>1. Len(key) = Len(one) + 1 + Len(rest) /\ Len(one) + 1 = 2 /\ Len(rest) = n + 6
    BY <1>3, <1>6, <1>9, <1>11
  <2>2. \A i \in 1 .. Len(one) : key[i] = one[i] /\ one[i] # Space
    <3>1. \A i \in 1 .. 1 : i = 1
      OBVIOUS
    <3> QED
      BY <3>1, <1>1, <1>6, <1>11
  <2>3. ASSUME NEW i \in 1 .. n + 6 PROVE key[2 + i] = rest[i]
    <3>1. CASE i <= n
      BY <3>1, <1>9, <1>11
    <3>2. CASE ~(i <= n)
      <4>1. i - n \in 1 .. 6 /\ n + (i - n) = i /\ (2 + n) + (i - n) = 2 + i
        BY <3>2, <1>3
      <4> QED
        BY <4>1, <1>9, <1>11, SMTT(60)
    <3> QED
      BY <3>1, <3>2
  <2> QED
    BY <2>1, <2>2, <2>3, <1>11 DEF Cuts
<1>14. Cuts(rest, Space, url, tail)
  <2>1. Len(rest) = Len(url) + 1 + Len(tail)
    BY <1>3, <1>7, <1>9
  <2>2. rest[Len(url) + 1] = Space
    BY <1>4, <1>9
  <2>3. \A i \in 1 .. Len(url) : rest[i] = url[i] /\ url[i] # Space
    BY <1>3, <1>9, UrlCharIs
  <2>4. ASSUME NEW i \in 1 .. 5 PROVE rest[Len(url) + 1 + i] = tail[i]
    <3>1. 1 + i \in 1 .. 6 /\ 1 + i \in 2 .. 6 /\ (1 + i) - 1 = i /\ n + (1 + i) = n + 1 + i
      BY <1>3
    <3> QED
      BY <3>1, <1>4, <1>9
  <2> QED
    BY <2>1, <2>2, <2>3, <2>4, <1>7 DEF Cuts
<1>15. Has(Space, key) /\ FirstPiece(key, Space) = one /\ OtherPieces(key, Space) = rest
  <2>1. key \in Seq(K) /\ one \in Seq(K) /\ rest \in Seq(K)
    BY <1>6, <1>9, <1>11
  <2> QED
    BY <2>1, <1>13, CutsPieces
<1>16. FirstPiece(rest, Space) = url
  <2>1. rest \in Seq(K) /\ url \in Seq(K) /\ tail \in Seq(K)
    BY <1>3, <1>7, <1>9
  <2> QED
    BY <2>1, <1>14, CutsPieces
<1>17. Len(key) > 2 /\ key # <<>>
  <2>1. Len(key) > 2
    BY <1>3, <1>11
  <2>2. Len(<<>>) = 0
    OBVIOUS
  <2> QED
    BY <2>1, <2>2
<1> QED
  BY <1>11, <1>12, <1>15, <1>16, <1>17 DEF KeyOf, SecondPiece, one, K

LEMMA AppendOne ==
  ASSUME NEW S, NEW c \in S, NEW d \in S
  PROVE  <<c>> \in Seq(S) /\ <<c, d>> \in Seq(S) /\ Append(<<c>>, d) = <<c, d>>
<1> DEFINE s == <<c>>
           t == <<c, d>>
           u == Append(s, d)
<1>1. s \in Seq(S) /\ t \in Seq(S) /\ Len(s) = 1 /\ Len(t) = 2 /\ s[1] = c /\ t[1] = c /\ t[2] = d
  OBVIOUS
<1> HIDE DEF s, t
<1>2. u \in Seq(S) /\ Len(u) = 2 /\ u[2] = d /\ u[1] = s[1]
  <2>1. /\ u \in Seq(S) /\ Len(u) = Len(s) + 1 /\ u[Len(s) + 1] = d
        /\ \A i \in 1 .. Len(s) : u[i] = s[i]
    <3>1. s \in Seq(S)
      BY <1>1
    <3> QED
      BY <3>1, AppendProperties
  <2> HIDE DEF u
  <2>2. 1 \in 1 .. 1 /\ 1 + 1 = 2
    OBVIOUS
  <2> QED
    BY <1>1, <2>1, <2>2
<1> HIDE DEF u
<1>3. \A i \in 1 .. 2 : i = 1 \/ i = 2
  OBVIOUS
<1>4. \A i \in 1 .. 2 : u[i] = t[i]
  BY <1>1, <1>2, <1>3
<1>5. u = t
  BY <1>1, <1>2, <1>4, SeqEqual
<1> QED
  BY <1>1, <1>5 DEF u, t, s

LEMMA ScanCRLF == ASSUME NEW q PROVE Scan(q, CRLF) = Loop(Loop(q, CR), LF)
<1> DEFINE S == {CR, LF}
           t == <<CR>>
<1>1. t \in Seq(S) /\ LF \in S /\ Append(t, LF) = CRLF
  <2>1. t \in Seq(S) /\ LF \in S /\ Append(t, LF) = <<CR, LF>>
    <3>1. CR \in S /\ LF \in S
      OBVIOUS
    <3> HIDE DEF S
    <3> QED
      BY <3>1, AppendOne
  <2>2. CRLF = <<CR, LF>>
    BY DEF CRLF
  <2> QED
    BY <2>1, <2>2
<1>2. Scan(q, t) = Loop(q, CR)
  BY ScanOne
<1> HIDE DEF S, t
<1>3. Scan(q, Append(t, LF)) = Loop(Scan(q, t), LF)
  BY <1>1, ScanAppend
<1> QED
  BY <1>1, <1>2, <1>3

\* A parser at the begin of a line, and at the end of one that has something in it.
AtBegin(p) ==
  /\ IsParser(p) /\ p.ret = kNoEnoughData /\ p.key_value = FALSE /\ p.key = <<>> /\ p.value = <<>>
  /\ p.n_pos = p.n - 1 /\ p.m_pos + 1 <= p.n

InLine(q) ==
  /\ IsParser(q) /\ q.ret = kNoEnoughData
  /\ q.n_pos + 1 < q.n /\ q.m_pos + 1 <= q.n

AfterLine(q, path, header, fields, s) ==
  /\ AtBegin(s) /\ s.loop = q.loop /\ s.n = q.n + 2
  /\ s.path = path /\ s.header = header /\ s.fields = fields

AfterCR(q, r) ==
  /\ AtCR(r) /\ r.n_pos # r.n - 2 /\ r.n = q.n + 1 /\ r.m_pos + 1 <= r.n
  /\ Kept(q, r) /\ r.key = q.key /\ r.value = q.value

LEMMA LineCR ==
  ASSUME NEW q, InLine(q), NEW r, r = Loop(q, CR)
  PROVE  AfterCR(q, r)
<1>1. CRStep(q, r)
  BY LoopCR DEF InLine
<1>2. /\ IsParser(q) /\ q.n \in Nat /\ q.n_pos \in Int /\ q.m_pos \in Int
      /\ q.n_pos + 1 < q.n /\ q.m_pos + 1 <= q.n
  BY DEF InLine, IsParser
<1>3. r.n = q.n + 1 /\ r.r_pos = q.n /\ r.n_pos = q.n_pos /\ r.m_pos = q.m_pos
  BY <1>1 DEF CRStep, Kept
<1>4. r.r_pos = r.n - 1 /\ r.n_pos # r.n - 2 /\ r.m_pos + 1 <= r.n
  BY <1>2, <1>3
<1> QED
  BY <1>1, <1>3, <1>4 DEF CRStep, AfterCR, AtCR

LEMMA LineDone ==
  ASSUME NEW q, NEW r, AfterCR(q, r), IsParser(q), NEW path, NEW header, NEW fields, NEW s,
         Line(r, path, header, fields, s)
  PROVE  AfterLine(q, path, header, fields, s)
<1>1. /\ q.n \in Nat /\ r.n = q.n + 1 /\ s.n = r.n + 1 /\ s.n_pos = r.n /\ s.m_pos = r.m_pos
      /\ r.m_pos + 1 <= r.n /\ s.m_pos \in Int
  BY DEF AfterCR, Line, IsParser
<1>2. s.n = q.n + 2 /\ s.n_pos = s.n - 1 /\ s.m_pos + 1 <= s.n
  BY <1>1
<1> QED
  BY <1>2 DEF AfterLine, AtBegin, Line, AfterCR, Kept

LEMMA CrlfHeader ==
  ASSUME NEW q, InLine(q), q.loop = "Decode", ~Has(GET, q.key), NEW s, s = Scan(q, CRLF)
  PROVE  AfterLine(q, q.path, AsHeader(q), q.fields, s)
<1> DEFINE r == Loop(q, CR)
<1>1. s = Loop(r, LF)
  BY ScanCRLF
<1>2. AfterCR(q, r)
  BY LineCR
<1> HIDE DEF r
<1>3. /\ AtCR(r) /\ r.n_pos # r.n - 2 /\ r.loop = "Decode" /\ ~Has(GET, r.key)
      /\ r.path = q.path /\ r.fields = q.fields /\ r.header = q.header /\ r.key = q.key
      /\ r.value = q.value
  BY <1>2 DEF AfterCR, Kept
<1>4. Line(r, r.path, AsHeader(r), r.fields, s)
  BY <1>1, <1>3, LineOfHeader
<1>5. AsHeader(r) = AsHeader(q)
  BY <1>3 DEF AsHeader
<1>6. Line(r, q.path, AsHeader(q), q.fields, s)
  BY <1>3, <1>4, <1>5
<1> QED
  BY <1>2, <1>6, LineDone DEF InLine

LEMMA CrlfGet ==
  ASSUME NEW q, InLine(q), q.loop = "Decode", Has(GET, q.key), Has(Space, q.key),
         FirstPiece(q.key, Space) = <<GET>>, NEW path,
         path = q.path \o PathOf(SecondPiece(q.key, Space)), NEW s, s = Scan(q, CRLF)
  PROVE  AfterLine(q, path, q.header, q.fields, s)
<1> DEFINE r == Loop(q, CR)
<1>1. s = Loop(r, LF)
  BY ScanCRLF
<1>2. AfterCR(q, r)
  BY LineCR
<1> HIDE DEF r
<1>3. /\ AtCR(r) /\ r.n_pos # r.n - 2 /\ r.loop = "Decode" /\ r.key = q.key
      /\ r.path = q.path /\ r.fields = q.fields /\ r.header = q.header
  BY <1>2 DEF AfterCR, Kept
<1>4. Line(r, path, r.header, r.fields, s)
  BY <1>1, <1>3, LineOfGet
<1>5. Line(r, path, q.header, q.fields, s)
  BY <1>3, <1>4
<1> QED
  BY <1>2, <1>5, LineDone DEF InLine

LEMMA CrlfFields ==
  ASSUME NEW q, InLine(q), q.loop # "Decode", NEW fields,
         fields = IF IsRequestLine(q) THEN Fields(q.fields, q.key) ELSE q.fields,
         NEW s, s = Scan(q, CRLF)
  PROVE  AfterLine(q, q.path, q.header, fields, s)
<1> DEFINE r == Loop(q, CR)
<1>1. s = Loop(r, LF)
  BY ScanCRLF
<1>2. AfterCR(q, r)
  BY LineCR
<1> HIDE DEF r
<1>3. /\ AtCR(r) /\ r.n_pos # r.n - 2 /\ r.loop # "Decode" /\ r.key = q.key /\ r.loop = q.loop
      /\ r.path = q.path /\ r.fields = q.fields /\ r.header = q.header
  BY <1>2 DEF AfterCR, Kept
<1>4. fields = IF IsRequestLine(r) THEN Fields(r.fields, r.key) ELSE r.fields
  BY <1>3 DEF IsRequestLine
<1>5. Line(r, r.path, r.header, fields, s)
  BY <1>1, <1>3, <1>4, LineOfFields
<1>6. Line(r, q.path, q.header, fields, s)
  BY <1>3, <1>5
<1> QED
  BY <1>2, <1>6, LineDone DEF InLine

\* The empty line ends the request.
LEMMA CrlfFinal ==
  ASSUME NEW p, AtBegin(p), NEW s, s = Scan(p, CRLF)
  PROVE  /\ IsParser(s) /\ s.ret = kSuccess /\ s.n = p.n + 2
         /\ s.path = p.path /\ s.header = p.header /\ s.fields = p.fields
<1> DEFINE r == Loop(p, CR)
<1>1. s = Loop(r, LF)
  BY ScanCRLF
<1>2. CRStep(p, r)
  BY LoopCR DEF AtBegin
<1> HIDE DEF r
<1>3. p.n \in Nat /\ r.n = p.n + 1 /\ r.r_pos = p.n /\ r.n_pos = p.n - 1
  BY <1>2 DEF CRStep, Kept, AtBegin, IsParser
<1>4. r.r_pos = r.n - 1 /\ r.n_pos = r.n - 2
  BY <1>3
<1>5. AtCR(r)
  BY <1>2, <1>4 DEF CRStep, AtCR
<1>6. SuccessStep(r, s)
  BY <1>1, <1>4, <1>5, LoopFinal
<1>7. s.n = p.n + 2
  BY <1>3, <1>6 DEF SuccessStep
<1> QED
  BY <1>2, <1>6, <1>7 DEF SuccessStep, CRStep, Kept

\* What a key at the begin of a line leads to.
LEMMA BeginKey ==
  ASSUME NEW p, AtBegin(p), NEW S, S \cap {CR, LF, Colon} = {}, NEW key \in Seq(S), key # <<>>,
         key[1] # Space, NEW q, q = Scan(p, key)
  PROVE  InKey(p, key, q) /\ InLine(q)
<1>1. InKey(p, key, q)
  BY ScanKey DEF AtBegin
<1>2. Len(key) \in Nat /\ Len(key) > 0
  BY EmptySeq
<1>3. /\ q.n = p.n + Len(key) /\ q.n_pos = p.n_pos /\ q.m_pos = p.m_pos
      /\ p.n_pos = p.n - 1 /\ p.m_pos + 1 <= p.n /\ p.n \in Nat /\ p.m_pos \in Int
  BY <1>1 DEF InKey, Kept, AtBegin, IsParser
<1>4. q.n_pos + 1 < q.n /\ q.m_pos + 1 <= q.n
  BY <1>2, <1>3
<1> QED
  BY <1>1, <1>4 DEF InKey, InLine

LEMMA AppendTwo ==
  ASSUME NEW S, NEW c \in S, NEW d \in S, NEW e \in S
  PROVE  <<c, d, e>> \in Seq(S) /\ Append(<<c, d>>, e) = <<c, d, e>>
<1> DEFINE s == <<c, d>>
           t == <<c, d, e>>
           u == Append(s, e)
<1>1. /\ s \in Seq(S) /\ t \in Seq(S) /\ Len(s) = 2 /\ Len(t) = 3 /\ s[1] = c /\ s[2] = d
      /\ t[1] = c /\ t[2] = d /\ t[3] = e
  OBVIOUS
<1> HIDE DEF s, t
<1>2. u \in Seq(S) /\ Len(u) = 3 /\ u[3] = e /\ u[1] = s[1] /\ u[2] = s[2]
  <2>1. /\ u \in Seq(S) /\ Len(u) = Len(s) + 1 /\ u[Len(s) + 1] = e
        /\ \A i \in 1 .. Len(s) : u[i] = s[i]
    <3>1. s \in Seq(S)
      BY <1>1
    <3> QED
      BY <3>1, AppendProperties
  <2> HIDE DEF u
  <2>2. 1 \in 1 .. 2 /\ 2 \in 1 .. 2 /\ 2 + 1 = 3
    OBVIOUS
  <2> QED
    BY <1>1, <2>1, <2>2
<1> HIDE DEF u
<1>3. \A i \in 1 .. 3 : i = 1 \/ i = 2 \/ i = 3
  OBVIOUS
<1>4. \A i \in 1 .. 3 : u[i] = t[i]
  BY <1>1, <1>2, <1>3
<1>5. u = t
  BY <1>1, <1>2, <1>4, SeqEqual
<1> QED
  BY <1>1, <1>5 DEF u, t, s

\* Scan, character by character.
LEMMA ScanThree ==
  ASSUME NEW p, NEW S, NEW c \in S, NEW d \in S, NEW e \in S
  PROVE  Scan(p, <<c, d, e>>) = Loop(Loop(Scan(p, <<c>>), d), e)
<1> DEFINE a == <<c>>
           b == <<c, d>>
           f == <<c, d, e>>
<1>1. a \in Seq(S) /\ b \in Seq(S) /\ Append(a, d) = b
  BY AppendOne
<1>2. Append(b, e) = f
  BY AppendTwo
<1> HIDE DEF a, b, f
<1>3. Scan(p, Append(a, d)) = Loop(Scan(p, a), d)
  BY <1>1, ScanAppend
<1>4. Scan(p, Append(b, e)) = Loop(Scan(p, b), e)
  BY <1>1, ScanAppend
<1> QED
  BY <1>1, <1>2, <1>3, <1>4 DEF a, b, f

\* A header is kept under its name, its value if it holds no colon.
Kept1(header, name, value, header2) ==
  /\ \A key : key # <<name>> => /\ key \in DOMAIN header2 <=> key \in DOMAIN header
                                /\ key \in DOMAIN header => header2[key] = header[key]
  /\ <<name>> \in DOMAIN header2
  /\ ~Has(Colon, value) => header2[<<name>>] = value

HeaderDone(p, h, s) ==
  /\ AtBegin(s) /\ s.loop = p.loop /\ s.path = p.path /\ s.fields = p.fields
  /\ p.loop = "Decode" => Kept1(p.header, h[1], h[2], s.header)

LEMMA ValueIs ==
  /\ \A c \in Values : c \notin {CR, LF}
  /\ Values \subseteq Alphabet /\ \A c \in Values : c # GET /\ c # HEAD
BY WordsAssumption DEF Values, Alphabet

LEMMA ScanHeader ==
  ASSUME NEW p, AtBegin(p), NEW h \in Words \X Seq(Values), NEW s, s = Scan(p, Header(h))
  PROVE  HeaderDone(p, h, s) /\ Header(h) \in Seq(Values \cup {CR, LF})
<1> DEFINE V == Values \cup {CR, LF}
           name == h[1]
           v == h[2]
           a == <<name>>
           b == <<name, Colon, Space>>
           c == b \o v
<1>1. name \in Words /\ v \in Seq(Values) /\ name # Space /\ name \notin {CR, LF, Colon}
      /\ name # GET /\ name # HEAD
  <2>1. name \in Words /\ v \in Seq(Values)
    OBVIOUS
  <2> QED
    BY <2>1, WordIsNoMark
<1>2. name \in V /\ Colon \in V /\ Space \in V /\ CR \in V /\ LF \in V
  BY <1>1, MarksDiffer DEF Values, Marks
<1>3. Header(h) = c \o CRLF
  BY DEF Header
<1> HIDE DEF name, v, V
<1>4. v \in Seq(V)
  BY <1>1 DEF V
<1>5. b \in Seq(V) /\ CRLF \in Seq(V)
  BY <1>2 DEF CRLF
<1>6. c \in Seq(V)
  BY <1>4, <1>5, ConcatProperties
<1> DEFINE q1 == Scan(p, a)
           q2 == Loop(q1, Colon)
           q3 == Loop(q2, Space)
           q4 == Scan(q3, v)
<1>7. Scan(p, b) = q3
  BY <1>2, ScanThree
<1> HIDE DEF a, b
<1>8. Scan(p, c) = q4
  BY <1>4, <1>5, <1>7, ScanConcat
<1> HIDE DEF c
<1>9. s = Scan(q4, CRLF)
  <2>1. Scan(p, c \o CRLF) = Scan(Scan(p, c), CRLF)
    BY <1>5, <1>6, ScanConcat
  <2> QED
    BY <1>3, <1>8, <2>1
<1>10. Header(h) \in Seq(V)
  BY <1>3, <1>5, <1>6, ConcatProperties
<1>11. InKey(p, a, q1) /\ InLine(q1)
  <2> DEFINE S == {name}
  <2>1. S \cap {CR, LF, Colon} = {} /\ a \in Seq(S) /\ a # <<>> /\ a[1] # Space
    BY <1>1 DEF a
  <2>2. q1 = Scan(p, a)
    OBVIOUS
  <2> HIDE DEF S, q1
  <2> QED
    BY <2>1, <2>2, BeginKey
<1>12. ColonStep(q1, q2)
  <2>1. IsParser(q1) /\ q1.ret = kNoEnoughData /\ q1.key_value = FALSE
    BY <1>11 DEF InKey
  <2>2. q2 = Loop(q1, Colon)
    OBVIOUS
  <2> HIDE DEF q1, q2
  <2> QED
    BY <2>1, <2>2, LoopColon
<1>13. ValueStep(q2, Space, q3)
  <2>1. IsParser(q2) /\ q2.ret = kNoEnoughData /\ q2.key_value = TRUE
    BY <1>12 DEF ColonStep
  <2>2. q3 = Loop(q2, Space) /\ Space \notin {CR, LF}
    BY MarksDiffer
  <2> HIDE DEF q2, q3
  <2> QED
    BY <2>1, <2>2, LoopValue
<1> HIDE DEF q1, q2
<1>14. /\ Kept(p, q3) /\ IsParser(q3) /\ q3.ret = kNoEnoughData /\ q3.key_value = TRUE
       /\ q3.key = a /\ q3.value = <<>> /\ q3.n \in Nat /\ q3.m_pos \in Int
       /\ q3.m_pos + 1 < q3.n /\ q3.n_pos + 1 < q3.n
  <2>1. /\ q1.n \in Nat /\ q1.n_pos \in Int /\ q1.n_pos + 1 < q1.n /\ q1.key = a
        /\ q1.value = <<>> /\ Kept(p, q1)
    BY <1>11 DEF InKey, InLine, IsParser, AtBegin
  <2>2. /\ q2.n = q1.n + 1 /\ q2.m_pos = q1.n /\ q2.key = q1.key /\ q2.value = q1.value /\ Kept(q1, q2)
    BY <1>12 DEF ColonStep
  <2>3. /\ q3.n = q2.n + 1 /\ q3.m_pos = q2.m_pos /\ q3.key = q2.key /\ Kept(q2, q3)
        /\ IsParser(q3) /\ q3.ret = kNoEnoughData /\ q3.key_value = TRUE
        /\ q2.m_pos + 1 = q2.n => q3.value = q2.value
    BY <1>13, MarksDiffer DEF ValueStep
  <2>4. q2.m_pos + 1 = q2.n
    BY <2>1, <2>2
  <2>5. Kept(p, q3)
    BY <2>1, <2>2, <2>3 DEF Kept
  <2>6. q3.n_pos = q1.n_pos
    BY <2>2, <2>3 DEF Kept
  <2>7. q3.n = q1.n + 2 /\ q3.m_pos = q1.n
    BY <2>1, <2>2, <2>3
  <2> QED
    BY <2>1, <2>2, <2>3, <2>4, <2>5, <2>6, <2>7
<1> HIDE DEF q3
<1>15. InValue(q3, v, q4)
  <2> DEFINE S == Values
  <2>1. S \cap {CR, LF} = {} /\ v \in Seq(S)
    BY <1>1, ValueIs
  <2> HIDE DEF S
  <2> QED
    BY <2>1, <1>14, ScanValue
<1> HIDE DEF q4
<1>16. /\ IsParser(q4) /\ q4.ret = kNoEnoughData /\ q4.key = a /\ Kept(p, q4)
       /\ ~Has(Colon, v) => q4.value = v
  BY <1>14, <1>15 DEF InValue, Kept
<1>17. InLine(q4)
  <2>1. /\ q4.n = q3.n + Len(v) /\ q4.m_pos < q4.n /\ q4.n_pos = q3.n_pos
        /\ q4.m_pos \in Int /\ q4.n \in Nat /\ q4.n_pos \in Int
    BY <1>15 DEF InValue, IsParser, Kept
  <2>2. Len(v) \in Nat
    BY <1>1
  <2>3. q4.n_pos + 1 < q4.n /\ q4.m_pos + 1 <= q4.n
    BY <1>14, <2>1, <2>2
  <2> QED
    BY <1>16, <2>3 DEF InLine
<1>18. ~Has(GET, a) /\ ~Has(HEAD, a)
  <2>1. \A i \in DOMAIN a : a[i] = name
    BY DEF a
  <2> QED
    BY <1>1, <2>1 DEF Has
<1>19. CASE p.loop = "Decode"
  <2>1. q4.loop = "Decode" /\ ~Has(GET, q4.key)
    BY <1>16, <1>18, <1>19 DEF Kept
  <2>2. AfterLine(q4, q4.path, AsHeader(q4), q4.fields, s)
    BY <1>9, <1>17, <2>1, CrlfHeader
  <2>3. Kept1(p.header, name, v, AsHeader(q4))
    <3>1. q4.header = p.header /\ q4.key = <<name>>
      BY <1>16 DEF Kept, a
    <3>2. AsHeader(q4) = [k \in DOMAIN p.header \cup {<<name>>} |-> IF k = <<name>> THEN q4.value ELSE p.header[k]]
      BY <3>1 DEF AsHeader
    <3> DEFINE k1 == <<name>>
               hd == AsHeader(q4)
    <3>3. hd = [k \in DOMAIN p.header \cup {k1} |-> IF k = k1 THEN q4.value ELSE p.header[k]]
      BY <3>2
    <3> HIDE DEF k1, hd
    <3>4. /\ \A key : key # k1 => /\ key \in DOMAIN hd <=> key \in DOMAIN p.header
                                  /\ key \in DOMAIN p.header => hd[key] = p.header[key]
          /\ k1 \in DOMAIN hd /\ hd[k1] = q4.value
      BY <3>3
    <3> QED
      BY <3>4, <1>16 DEF Kept1, k1, hd
  <2> QED
    BY <1>10, <1>16, <2>2, <2>3 DEF AfterLine, HeaderDone, Kept, name, v, V
<1>20. CASE p.loop # "Decode"
  <2>1. q4.loop # "Decode" /\ ~IsRequestLine(q4)
    BY <1>16, <1>18, <1>20 DEF Kept, IsRequestLine
  <2>2. AfterLine(q4, q4.path, q4.header, q4.fields, s)
    BY <1>9, <1>17, <2>1, CrlfFields
  <2> QED
    BY <1>10, <1>16, <1>20, <2>2 DEF AfterLine, HeaderDone, Kept, V
<1> QED
  BY <1>19, <1>20

HeaderPairs == Words \X Seq(Values)
LineChars == Values \cup {CR, LF}
KeyHeader == <<SecWebSocketKey>>

LEMMA LinesAppend ==
  ASSUME NEW hs \in Seq(HeaderPairs), NEW h \in HeaderPairs
  PROVE  /\ Lines(hs) \in Seq(LineChars) /\ Header(h) \in Seq(LineChars)
         /\ Lines(Append(hs, h)) = Lines(hs) \o Header(h)
<1> DEFINE S == HeaderPairs
           R == Seq(LineChars)
           u == Append(hs, h)
           m == [i \in DOMAIN hs |-> Header(hs[i])]
           m2 == [i \in DOMAIN u |-> Header(u[i])]
           v == Header(h)
<1>0. \A x \in S : Header(x) \in R
  <2> SUFFICES ASSUME NEW x \in S PROVE Header(x) \in R
    OBVIOUS
  <2> DEFINE name == x[1]
             b == <<name, Colon, Space>>
             w == x[2]
  <2>1. name \in Words /\ w \in Seq(Values) /\ Header(x) = b \o w \o CRLF
    BY DEF HeaderPairs, Header
  <2> HIDE DEF name, w
  <2>2. name \in LineChars /\ Colon \in LineChars /\ Space \in LineChars /\ CR \in LineChars /\ LF \in LineChars
    BY <2>1, WordIsNoMark, MarksDiffer DEF LineChars, Values, Marks
  <2>3. w \in Seq(LineChars)
    BY <2>1 DEF LineChars
  <2>4. b \in Seq(LineChars) /\ CRLF \in Seq(LineChars)
    BY <2>2 DEF CRLF
  <2> HIDE DEF b
  <2>5. b \o w \in Seq(LineChars)
    BY <2>3, <2>4, ConcatProperties
  <2> DEFINE c == b \o w
  <2>6. c \o CRLF \in Seq(LineChars)
    <3>1. c \in Seq(LineChars)
      BY <2>5
    <3> HIDE DEF c
    <3> QED
      BY <3>1, <2>4, ConcatProperties
  <2> QED
    BY <2>1, <2>6
<1>1. /\ u \in Seq(S) /\ Len(u) = Len(hs) + 1 /\ Len(hs) \in Nat /\ u[Len(hs) + 1] = h
      /\ \A i \in 1 .. Len(hs) : u[i] = hs[i]
  BY AppendHas
<1>2. DOMAIN hs = 1 .. Len(hs) /\ DOMAIN u = 1 .. Len(hs) + 1
  BY <1>1, LenProperties
<1>3. u = Append(hs, h) /\ v \in R /\ hs \in Seq(S) /\ h \in S
  BY <1>0
<1>4. Lines(hs) = FlattenSeq(m) /\ Lines(u) = FlattenSeq(m2)
  BY DEF Lines
<1>5. Made(m, hs, R)
  <2>1. \A i \in DOMAIN hs : hs[i] \in S
    BY <1>2
  <2>2. \A i \in DOMAIN hs : m[i] = Header(hs[i])
    OBVIOUS
  <2>3. m = [i \in DOMAIN hs |-> m[i]]
    OBVIOUS
  <2> HIDE DEF m, R, S
  <2> QED
    BY <1>0, <2>1, <2>2, <2>3 DEF Made
<1> HIDE DEF u
<1>6. MadeOn(m, hs, m2, u, v)
  <2>1. \A i \in DOMAIN hs : i \in DOMAIN u /\ u[i] = hs[i]
    BY <1>1, <1>2
  <2>2. Len(hs) + 1 \in DOMAIN u
    BY <1>1, <1>2
  <2>3. \A i \in DOMAIN u : m2[i] = Header(u[i])
    OBVIOUS
  <2>4. m2 = [i \in DOMAIN u |-> m2[i]]
    OBVIOUS
  <2>5. \A i \in DOMAIN hs : m[i] = Header(hs[i])
    OBVIOUS
  <2> HIDE DEF m, m2
  <2>6. \A i \in DOMAIN hs : m2[i] = m[i]
    BY <2>1, <2>3, <2>5
  <2>7. m2[Len(hs) + 1] = v
    BY <1>1, <2>2, <2>3
  <2> QED
    BY <2>4, <2>6, <2>7 DEF MadeOn
<1> HIDE DEF m, m2, v, R, S
<1>7. Grows(m, m2, v, R)
  BY <1>3, <1>5, <1>6, MadeAppend
<1>8. FlattenSeq(m) \in Seq(LineChars) /\ FlattenSeq(Append(m, v)) = FlattenSeq(m) \o v
  <2>1. m \in Seq(Seq(LineChars)) /\ v \in Seq(LineChars)
    BY <1>3, <1>7 DEF Grows, R
  <2> QED
    BY <2>1, FlattenAppend
<1> QED
  BY <1>3, <1>4, <1>7, <1>8 DEF Grows, u, v, R

LEMMA NoLines == Lines(<<>>) = <<>>
<1>1. [i \in DOMAIN <<>> |-> Header((<<>>)[i])] = <<>>
  OBVIOUS
<1> QED
  BY <1>1, FlattenNone DEF Lines

\* What the headers say of the key.
Told(header, hs) ==
  /\ KeyHeader \in DOMAIN header <=> \E i \in DOMAIN hs : hs[i][1] = SecWebSocketKey
  /\ \A i \in DOMAIN hs :
       /\ hs[i][1] = SecWebSocketKey /\ ~Has(Colon, hs[i][2])
       /\ \A j \in DOMAIN hs : hs[j][1] = SecWebSocketKey => j = i
       => header[KeyHeader] = hs[i][2]

LinesDone(p, hs, s) ==
  /\ AtBegin(s) /\ s.loop = p.loop /\ s.path = p.path /\ s.fields = p.fields
  /\ p.loop = "Decode" /\ KeyHeader \notin DOMAIN p.header => Told(s.header, hs)

LEMMA ToldMore ==
  ASSUME NEW hs \in Seq(HeaderPairs), NEW h \in HeaderPairs, NEW header, NEW header2,
         Told(header, hs), Kept1(header, h[1], h[2], header2)
  PROVE  Told(header2, Append(hs, h))
<1> DEFINE u == Append(hs, h)
           n == Len(hs)
<1>1. /\ u \in Seq(HeaderPairs) /\ Len(u) = n + 1 /\ n \in Nat /\ u[n + 1] = h
      /\ \A i \in 1 .. n : u[i] = hs[i]
  BY AppendHas
<1>2. DOMAIN hs = 1 .. n /\ DOMAIN u = 1 .. n + 1
  BY <1>1, LenProperties
<1> HIDE DEF u, n
<1>3. \A i \in DOMAIN u : i = n + 1 \/ i \in DOMAIN hs
  BY <1>1, <1>2
<1>4. n + 1 \in DOMAIN u /\ n + 1 \notin DOMAIN hs /\ \A i \in DOMAIN hs : i \in DOMAIN u /\ u[i] = hs[i]
  BY <1>1, <1>2
<1>5. CASE h[1] = SecWebSocketKey
  <2>1. KeyHeader \in DOMAIN header2 /\ (~Has(Colon, h[2]) => header2[KeyHeader] = h[2])
    BY <1>5 DEF Kept1, KeyHeader
  <2>2. \E i \in DOMAIN u : u[i][1] = SecWebSocketKey
    BY <1>1, <1>4, <1>5
  <2>3. ASSUME NEW i \in DOMAIN u, u[i][1] = SecWebSocketKey, ~Has(Colon, u[i][2]),
               \A j \in DOMAIN u : u[j][1] = SecWebSocketKey => j = i
        PROVE  header2[KeyHeader] = u[i][2]
    <3>1. i = n + 1
      BY <1>1, <1>4, <1>5, <2>3
    <3> QED
      BY <1>1, <2>1, <2>3, <3>1
  <2> QED
    BY <2>1, <2>2, <2>3 DEF Told, u
<1>6. CASE h[1] # SecWebSocketKey
  <2>1. KeyHeader # <<h[1]>>
    <3>1. ASSUME NEW x, NEW y, <<x>> = <<y>> PROVE x = y
      BY <3>1
    <3> QED
      BY <3>1, <1>6 DEF KeyHeader
  <2>2. /\ KeyHeader \in DOMAIN header2 <=> KeyHeader \in DOMAIN header
        /\ KeyHeader \in DOMAIN header => header2[KeyHeader] = header[KeyHeader]
    BY <2>1 DEF Kept1
  <2>3. (\E i \in DOMAIN u : u[i][1] = SecWebSocketKey) <=> \E i \in DOMAIN hs : hs[i][1] = SecWebSocketKey
    BY <1>1, <1>3, <1>4, <1>6
  <2>4. ASSUME NEW i \in DOMAIN u, u[i][1] = SecWebSocketKey, ~Has(Colon, u[i][2]),
               \A j \in DOMAIN u : u[j][1] = SecWebSocketKey => j = i
        PROVE  header2[KeyHeader] = u[i][2]
    <3>1. i \in DOMAIN hs
      BY <1>1, <1>3, <1>6, <2>4
    <3>2. u[i] = hs[i] /\ \A j \in DOMAIN hs : hs[j][1] = SecWebSocketKey => j = i
      BY <1>4, <2>4, <3>1
    <3>3. header[KeyHeader] = hs[i][2]
      BY <2>4, <3>1, <3>2 DEF Told
    <3>4. KeyHeader \in DOMAIN header
      BY <2>4, <3>1, <3>2 DEF Told
    <3> QED
      BY <2>2, <3>2, <3>3, <3>4
  <2> QED
    BY <2>2, <2>3, <2>4 DEF Told, u
<1> QED
  BY <1>5, <1>6

LEMMA ScanLines ==
  ASSUME NEW p, AtBegin(p), NEW hs \in Seq(HeaderPairs)
  PROVE  LinesDone(p, hs, Scan(p, Lines(hs)))
<1> DEFINE T == {t \in Seq(HeaderPairs) : LinesDone(p, t, Scan(p, Lines(t)))}
<1>1. <<>> \in T
  <2>1. Scan(p, Lines(<<>>)) = p
    BY NoLines, ScanNone
  <2>2. LinesDone(p, <<>>, p)
    BY DEF LinesDone, Told
  <2>3. <<>> \in Seq(HeaderPairs)
    OBVIOUS
  <2> QED
    BY <2>1, <2>2, <2>3
<1>2. ASSUME NEW t \in Seq(HeaderPairs), NEW h \in HeaderPairs, t \in T PROVE Append(t, h) \in T
  <2> DEFINE q == Scan(p, Lines(t))
             u == Append(t, h)
             s == Scan(q, Header(h))
             l == Lines(t)
             e == Header(h)
  <2>1. l \in Seq(LineChars) /\ e \in Seq(LineChars) /\ Lines(u) = l \o e
    BY LinesAppend
  <2>2. LinesDone(p, t, q)
    BY <1>2
  <2>3. Scan(p, Lines(u)) = s
    <3> HIDE DEF l, e
    <3>1. Scan(p, l \o e) = Scan(Scan(p, l), e)
      BY <2>1, ScanConcat
    <3> QED
      BY <2>1, <3>1 DEF l, e
  <2>4. HeaderDone(q, h, s)
    <3>1. AtBegin(q)
      BY <2>2 DEF LinesDone
    <3>2. s = Scan(q, Header(h)) /\ h \in Words \X Seq(Values)
      BY DEF HeaderPairs
    <3> HIDE DEF q, s
    <3> QED
      BY <3>1, <3>2, ScanHeader
  <2>5. u \in Seq(HeaderPairs)
    BY AppendProperties
  <2> HIDE DEF q, s, l, e
  <2>6. LinesDone(p, u, s)
    <3>1. ASSUME p.loop = "Decode", KeyHeader \notin DOMAIN p.header PROVE Told(s.header, u)
      <4>1. Told(q.header, t)
        BY <2>2, <3>1 DEF LinesDone
      <4>2. Kept1(q.header, h[1], h[2], s.header)
        BY <2>2, <2>4, <3>1 DEF LinesDone, HeaderDone
      <4> QED
        BY <4>1, <4>2, ToldMore
    <3> QED
      BY <2>2, <2>4, <3>1 DEF LinesDone, HeaderDone
  <2> QED
    BY <2>3, <2>5, <2>6
<1> HIDE DEF T
<1>3. hs \in T
  BY <1>1, <1>2, SeqUp
<1> QED
  BY <1>3 DEF T

\* The parser behind the request line.
FirstDone(loop, m, url, key, s) ==
  /\ AtBegin(s) /\ s.loop = loop
  /\ loop = "Decode" =>
       s.path = (IF m = GET THEN PathOf(url) ELSE <<>>) /\ KeyHeader \notin DOMAIN s.header
  /\ loop # "Decode" =>
       s.fields = IF m = GET \/ (loop = "Dash" /\ m = HEAD) THEN Fields(NoFields, key) ELSE NoFields

LEMMA ParserBegins ==
  ASSUME NEW loop
  PROVE  /\ AtBegin(Parser(loop)) /\ Parser(loop).loop = loop /\ Parser(loop).n = 0
         /\ Parser(loop).path = <<>> /\ Parser(loop).header = <<>>
         /\ Parser(loop).fields = NoFields
BY DEF AtBegin, IsParser, Parser, kNoEnoughData

LEMMA ScanFirst ==
  ASSUME NEW m \in Words \cup {GET, HEAD}, NEW url \in Seq(UrlChars), PathOf(url) \in Seq(Seq(UrlChars)),
         NEW key, IsKey(key, m, url), NEW loop
  PROVE  FirstDone(loop, m, url, key, Scan(Scan(Parser(loop), key), CRLF))
<1> DEFINE p == Parser(loop)
           q == Scan(p, key)
           s == Scan(q, CRLF)
<1>1. KeyOf(key, m, url)
  BY RequestKey
<1>2. /\ AtBegin(p) /\ p.loop = loop /\ p.path = <<>> /\ p.header = <<>> /\ p.fields = NoFields
  BY ParserBegins
<1>3. m # Space /\ HEAD # GET /\ (m \in Words => m # GET /\ m # HEAD)
  BY KeyCharIs, WordIsNoMark, WordsAssumption
<1>4. InKey(p, key, q) /\ InLine(q)
  <2>1. key \in Seq(KeyChars) /\ key # <<>> /\ key[1] # Space
    BY <1>1, <1>3 DEF KeyOf
  <2>2. KeyChars \cap {CR, LF, Colon} = {}
    BY KeyCharIs
  <2>3. q = Scan(p, key)
    OBVIOUS
  <2> HIDE DEF q, p
  <2> QED
    BY <1>2, <2>1, <2>2, <2>3, BeginKey
<1>5. Has(GET, key) <=> m = GET
  <2>1. /\ key[1] = m /\ DOMAIN key = 1 .. Len(key) /\ Len(key) \in Nat /\ Len(key) > 2
        /\ \A i \in 2 .. Len(key) : key[i] # GET
    BY <1>1, LenProperties DEF KeyOf
  <2>2. 1 \in DOMAIN key /\ \A i \in DOMAIN key : i = 1 \/ i \in 2 .. Len(key)
    BY <2>1
  <2> QED
    BY <2>1, <2>2 DEF Has
<1>6. Has(HEAD, key) <=> m = HEAD
  <2>1. /\ key[1] = m /\ DOMAIN key = 1 .. Len(key) /\ Len(key) \in Nat /\ Len(key) > 2
        /\ \A i \in 2 .. Len(key) : key[i] # HEAD
    BY <1>1, LenProperties DEF KeyOf
  <2>2. 1 \in DOMAIN key /\ \A i \in DOMAIN key : i = 1 \/ i \in 2 .. Len(key)
    BY <2>1
  <2> QED
    BY <2>1, <2>2 DEF Has
<1>7. /\ q.loop = loop /\ q.key = key /\ q.path = <<>> /\ q.header = <<>> /\ q.fields = NoFields
  BY <1>2, <1>4 DEF InKey, Kept
<1>8. s = Scan(q, CRLF)
  OBVIOUS
<1> HIDE DEF p, q, s
<1>9. CASE loop = "Decode" /\ m = GET
  <2>1. <<>> \o PathOf(url) = PathOf(url)
    OBVIOUS
  <2>2. FirstPiece(q.key, Space) = <<GET>> /\ PathOf(url) = q.path \o PathOf(SecondPiece(q.key, Space))
        /\ Has(Space, q.key) /\ Has(GET, q.key)
    BY <1>1, <1>5, <1>7, <1>9, <2>1 DEF KeyOf
  <2>3. AfterLine(q, PathOf(url), q.header, q.fields, s)
    BY <1>4, <1>7, <1>8, <1>9, <2>2, CrlfGet
  <2>4. DOMAIN q.header = {}
    BY <1>7
  <2> QED
    BY <1>7, <1>9, <2>3, <2>4 DEF FirstDone, AfterLine, q, s, p
<1>10. CASE loop = "Decode" /\ m # GET
  <2>1. AfterLine(q, q.path, AsHeader(q), q.fields, s)
    BY <1>4, <1>5, <1>7, <1>8, <1>10, CrlfHeader
  <2>2. DOMAIN AsHeader(q) = {key}
    <3>1. DOMAIN q.header = {}
      BY <1>7
    <3> QED
      BY <1>7, <3>1 DEF AsHeader
  <2>3. key # KeyHeader
    <3>1. Len(KeyHeader) = 1
      BY DEF KeyHeader
    <3>2. Len(key) > 2 /\ Len(key) \in Nat
      BY <1>1, LenProperties DEF KeyOf
    <3>0. ASSUME NEW l \in Nat, l > 2 PROVE l # 1
      BY <3>0
    <3>3. Len(key) # 1
      BY <3>0, <3>2
    <3> QED
      BY <3>1, <3>3
  <2> QED
    BY <1>7, <1>10, <2>1, <2>2, <2>3 DEF FirstDone, AfterLine, q, s, p
<1>11. CASE loop # "Decode"
  <2> DEFINE fields == IF IsRequestLine(q) THEN Fields(q.fields, q.key) ELSE q.fields
  <2>1. IsRequestLine(q) <=> m = GET \/ (loop = "Dash" /\ m = HEAD)
    BY <1>5, <1>6, <1>7 DEF IsRequestLine
  <2>2. AfterLine(q, q.path, q.header, fields, s)
    <3>1. fields = IF IsRequestLine(q) THEN Fields(q.fields, q.key) ELSE q.fields
      OBVIOUS
    <3> HIDE DEF fields
    <3> QED
      BY <1>4, <1>7, <1>8, <1>11, <3>1, CrlfFields
  <2>3. fields = IF m = GET \/ (loop = "Dash" /\ m = HEAD) THEN Fields(NoFields, key) ELSE NoFields
    BY <1>7, <2>1
  <2> HIDE DEF fields
  <2> QED
    BY <1>7, <1>11, <2>2, <2>3 DEF FirstDone, AfterLine, q, s, p
<1> QED
  BY <1>9, <1>10, <1>11

-----------------------------------------------------------------------------
(* A request up to the empty line.                                         *)

KeyBytes(q) == <<q.method, Space>> \o RequestUrl(q) \o Version
FirstBytes(q) == KeyBytes(q) \o CRLF
Body(q) == FirstBytes(q) \o Lines(q.headers)
HeadOf(q) == Body(q) \o CRLF
TailOf(q) == IF q.written THEN FramesBytes(q.frames) ELSE <<>>

LEMMA BytesOf == ASSUME NEW q PROVE Bytes(q) = HeadOf(q) \o TailOf(q)
BY DEF Bytes, HeadOf, TailOf, Body, FirstBytes, KeyBytes, Version

IsHttp(q) == q \in HttpRequest /\ (q.query # <<>> => q.query[1] = Query)

PathAsked(q) == IF q.method = GET THEN UrlOf(q.dirs, q.name, q.type, q.query) ELSE <<>>

LineFields(loop, q) ==
  IF q.method = GET \/ (loop = "Dash" /\ q.method = HEAD) THEN Fields(NoFields, KeyBytes(q))
  ELSE NoFields

Whole(loop, q, s) ==
  /\ IsParser(s) /\ s.ret = kSuccess /\ s.n = Len(HeadOf(q))
  /\ loop = "Decode" => s.path = PathAsked(q) /\ Told(s.header, q.headers)
  /\ loop # "Decode" => s.fields = LineFields(loop, q)

LEMMA HttpFields ==
  ASSUME NEW q, q \in HttpRequest
  PROVE  /\ q.method \in Words \cup {GET, HEAD} /\ q.dirs \in Seq(Words) /\ q.name \in Seq(Words)
         /\ q.name # <<>> /\ q.type \in Words /\ q.query \in Seq(Words \cup {Query})
         /\ q.headers \in Seq(HeaderPairs)
         /\ q.frames \in Seq([message : Seq(0 .. 255), mask : {<<>>} \cup [1 .. 4 -> 0 .. 255]])
         /\ q.written \in BOOLEAN
BY DEF HttpRequest, HeaderPairs

LEMMA UrlOfIn ==
  ASSUME NEW dirs \in Seq(Words), NEW name \in Seq(Words), NEW type \in Words, NEW query
  PROVE  UrlOf(dirs, name, type, query) \in Seq(Seq(UrlChars))
<1>1. DirParts(dirs) \in Seq(Seq(UrlChars))
  BY DirectoriesPath
<1>2. name \in Seq(UrlChars) /\ <<Dot, type>> \in Seq(UrlChars)
  <2>1. type \in UrlChars /\ Dot \in UrlChars /\ Words \subseteq UrlChars
    BY UrlCharIs
  <2> QED
    BY <2>1
<1> DEFINE b == <<Dot, type>>
<1> HIDE DEF b
<1>3. name \o b \in Seq(UrlChars)
  BY <1>2, ConcatProperties DEF b
<1>4. Append(DirParts(dirs), name \o b) \in Seq(Seq(UrlChars))
  BY <1>1, <1>3, AppendProperties
<1> QED
  BY <1>1, <1>4 DEF UrlOf, b

LEMMA UrlAsked ==
  ASSUME NEW q, IsHttp(q)
  PROVE  /\ RequestUrl(q) \in Seq(UrlChars)
         /\ PathOf(RequestUrl(q)) = UrlOf(q.dirs, q.name, q.type, q.query)
         /\ PathOf(RequestUrl(q)) \in Seq(Seq(UrlChars))
<1>1. /\ q.dirs \in Seq(Words) /\ q.name \in Seq(Words) /\ q.type \in Words
      /\ q.query \in Seq(Words \cup {Query}) /\ (q.query # <<>> => q.query[1] = Query)
  BY HttpFields DEF IsHttp
<1>2. IsUrl(RequestUrl(q), q.dirs, q.name, q.type, q.query)
  BY DEF IsUrl, RequestUrl
<1> DEFINE dirs == q.dirs
           name == q.name
           type == q.type
           query == q.query
           url == RequestUrl(q)
<1>3. /\ dirs \in Seq(Words) /\ name \in Seq(Words) /\ type \in Words
      /\ query \in Seq(Words \cup {Query}) /\ (query # <<>> => query[1] = Query)
      /\ IsUrl(url, dirs, name, type, query)
  BY <1>1, <1>2
<1> HIDE DEF dirs, name, type, query, url
<1>4. url \in Seq(UrlChars) /\ PathOf(url) = UrlOf(dirs, name, type, query)
  BY <1>3, UrlPath
<1>5. UrlOf(dirs, name, type, query) \in Seq(Seq(UrlChars))
  BY <1>3, UrlOfIn
<1> QED
  BY <1>4, <1>5 DEF dirs, name, type, query, url

LEMMA LinesIn == ASSUME NEW hs \in Seq(HeaderPairs) PROVE Lines(hs) \in Seq(LineChars)
<1>1. CASE \E h : h \in HeaderPairs
  BY <1>1, LinesAppend
<1>2. CASE ~\E h : h \in HeaderPairs
  <2>1. hs = <<>>
    <3>1. HeaderPairs = {} /\ Len(hs) \in Nat /\ hs \in [1 .. Len(hs) -> HeaderPairs]
      BY <1>2
    <3>2. Len(hs) = 0
      BY <3>1
    <3> QED
      BY <3>2, EmptySeq
  <2>2. <<>> \in Seq(LineChars)
    OBVIOUS
  <2> QED
    BY <2>1, <2>2, NoLines, Zenon
<1> QED
  BY <1>1, <1>2

LEMMA HeadChars ==
  ASSUME NEW q, IsHttp(q)
  PROVE  /\ KeyBytes(q) \in Seq(Alphabet) /\ CRLF \in Seq(Alphabet) /\ FirstBytes(q) \in Seq(Alphabet)
         /\ Lines(q.headers) \in Seq(Alphabet) /\ Body(q) \in Seq(Alphabet)
         /\ HeadOf(q) \in Seq(Alphabet)
         /\ KeyOf(KeyBytes(q), q.method, RequestUrl(q))
<1>1. q.method \in Words \cup {GET, HEAD} /\ q.headers \in Seq(HeaderPairs)
  BY HttpFields DEF IsHttp
<1>2. RequestUrl(q) \in Seq(UrlChars)
  BY UrlAsked
<1>3. KeyOf(KeyBytes(q), q.method, RequestUrl(q))
  <2> DEFINE m == q.method
             url == RequestUrl(q)
             key == KeyBytes(q)
  <2>1. m \in Words \cup {GET, HEAD} /\ url \in Seq(UrlChars) /\ IsKey(key, m, url)
    BY <1>1, <1>2 DEF IsKey, KeyBytes
  <2> HIDE DEF m, url, key
  <2>2. KeyOf(key, m, url)
    BY <2>1, RequestKey
  <2> QED
    BY <2>2 DEF m, url, key
<1>4. KeyChars \subseteq Alphabet /\ LineChars \subseteq Alphabet /\ CR \in Alphabet /\ LF \in Alphabet
  BY DEF KeyChars, LineChars, UrlChars, Values, Alphabet, Marks
<1>5. KeyBytes(q) \in Seq(Alphabet)
  <2>1. KeyBytes(q) \in Seq(KeyChars)
    BY <1>3 DEF KeyOf
  <2> QED
    BY <1>4, <2>1
<1>6. CRLF \in Seq(Alphabet)
  BY <1>4 DEF CRLF
<1>7. Lines(q.headers) \in Seq(Alphabet)
  <2>1. Lines(q.headers) \in Seq(LineChars)
    BY <1>1, LinesIn
  <2> QED
    BY <1>4, <2>1
<1>8. FirstBytes(q) \in Seq(Alphabet)
  BY <1>5, <1>6, ConcatProperties DEF FirstBytes
<1>9. Body(q) \in Seq(Alphabet)
  BY <1>7, <1>8, ConcatProperties DEF Body
<1>10. HeadOf(q) \in Seq(Alphabet)
  BY <1>6, <1>9, ConcatProperties DEF HeadOf
<1> QED
  BY <1>3, <1>5, <1>6, <1>7, <1>8, <1>9, <1>10

LEMMA ScanWhole ==
  ASSUME NEW q, IsHttp(q), NEW loop
  PROVE  Whole(loop, q, Scan(Parser(loop), HeadOf(q)))
<1> DEFINE p == Parser(loop)
           key == KeyBytes(q)
           first == FirstBytes(q)
           body == Body(q)
           lines == Lines(q.headers)
           a == Scan(Scan(p, key), CRLF)
           b == Scan(a, lines)
           s == Scan(b, CRLF)
           m == q.method
           url == RequestUrl(q)
           hs == q.headers
<1>1. /\ key \in Seq(Alphabet) /\ CRLF \in Seq(Alphabet) /\ first \in Seq(Alphabet)
      /\ lines \in Seq(Alphabet) /\ body \in Seq(Alphabet) /\ HeadOf(q) \in Seq(Alphabet)
  BY HeadChars
<1>2. m \in Words \cup {GET, HEAD} /\ hs \in Seq(HeaderPairs)
  BY HttpFields DEF IsHttp
<1>3. url \in Seq(UrlChars) /\ PathOf(url) \in Seq(Seq(UrlChars))
      /\ PathOf(url) = UrlOf(q.dirs, q.name, q.type, q.query)
  BY UrlAsked
<1>4. first = key \o CRLF /\ body = first \o lines /\ HeadOf(q) = body \o CRLF /\ IsKey(key, m, url)
  BY DEF FirstBytes, Body, HeadOf, IsKey, KeyBytes
<1>5. Scan(p, HeadOf(q)) = s
  <2> HIDE DEF p, key, first, body, lines
  <2>1. Scan(p, first) = a
    BY <1>1, <1>4, ScanConcat
  <2>2. Scan(p, body) = b
    <3> HIDE DEF a
    <3>1. Scan(p, first \o lines) = Scan(Scan(p, first), lines)
      BY <1>1, ScanConcat
    <3> QED
      BY <1>4, <2>1, <3>1
  <2> HIDE DEF a
  <2>3. Scan(p, body \o CRLF) = Scan(Scan(p, body), CRLF)
    BY <1>1, ScanConcat
  <2> QED
    BY <1>4, <2>2, <2>3
<1>6. FirstDone(loop, m, url, key, a)
  <2> HIDE DEF key, m, url
  <2> QED
    BY <1>2, <1>3, <1>4, ScanFirst
<1>7. b = Scan(a, lines) /\ s = Scan(b, CRLF) /\ lines = Lines(hs) /\ b = Scan(a, Lines(hs))
  OBVIOUS
<1> HIDE DEF a, b, s
<1>8. LinesDone(a, hs, b)
  <2>1. AtBegin(a)
    BY <1>6 DEF FirstDone
  <2>2. hs \in Seq(HeaderPairs) /\ b = Scan(a, Lines(hs))
    BY <1>2, <1>7
  <2> HIDE DEF hs
  <2> QED
    BY <2>1, <2>2, ScanLines
<1>9. AtBegin(b)
  BY <1>8 DEF LinesDone
<1>10. /\ IsParser(s) /\ s.ret = kSuccess /\ s.n = b.n + 2
       /\ s.path = b.path /\ s.header = b.header /\ s.fields = b.fields
  BY <1>7, <1>9, CrlfFinal
<1>11. s.n = Len(HeadOf(q))
  <2>1. b = Scan(p, body)
    <3> HIDE DEF p, key, first, body, lines
    <3>1. Scan(p, first) = a
      BY <1>1, <1>4, ScanConcat DEF a
    <3>2. Scan(p, first \o lines) = Scan(Scan(p, first), lines)
      BY <1>1, ScanConcat
    <3> QED
      BY <1>4, <1>7, <3>1, <3>2
  <2>2. IsParser(p) /\ p.n = 0
    BY ParserBegins DEF AtBegin
  <2>3. Len(body) \in Nat /\ Len(CRLF) = 2 /\ Len(HeadOf(q)) = Len(body) + 2
    <3>1. Len(CRLF) = 2
      BY DEF CRLF
    <3>2. body \in Seq(Alphabet) /\ CRLF \in Seq(Alphabet)
      BY <1>1
    <3> HIDE DEF body
    <3>3. Len(body \o CRLF) = Len(body) + Len(CRLF) /\ Len(body) \in Nat
      BY <3>2, ConcatProperties, LenProperties
    <3>4. Len(HeadOf(q)) = Len(body) + 2
      BY <1>4, <3>1, <3>3
    <3> QED
      BY <3>1, <3>3, <3>4
  <2> HIDE DEF p, body
  <2>4. Counts(p, Len(body), b)
    BY <1>1, <2>1, <2>2, ScanCounts
  <2>5. b.n = Len(body)
    BY <1>9, <2>2, <2>3, <2>4 DEF Counts, AtBegin
  <2> QED
    BY <1>10, <2>3, <2>5
<1>12. loop = "Decode" => s.path = PathAsked(q) /\ Told(s.header, q.headers)
  <2> SUFFICES ASSUME loop = "Decode" PROVE s.path = PathAsked(q) /\ Told(s.header, q.headers)
    OBVIOUS
  <2>1. a.path = PathAsked(q) /\ KeyHeader \notin DOMAIN a.header /\ a.loop = "Decode"
    BY <1>3, <1>6 DEF FirstDone, PathAsked
  <2>2. b.path = a.path /\ Told(b.header, hs)
    BY <1>8, <2>1 DEF LinesDone
  <2> QED
    BY <1>10, <2>1, <2>2
<1>13. loop # "Decode" => s.fields = LineFields(loop, q)
  BY <1>6, <1>8, <1>10 DEF FirstDone, LinesDone, LineFields
<1> QED
  BY <1>5, <1>10, <1>11, <1>12, <1>13 DEF Whole

\* Until then the parser waits.
LEMMA ScanPart ==
  ASSUME NEW q, IsHttp(q), NEW loop, NEW t \in Seq(Alphabet), NEW u \in Seq(Alphabet), u # <<>>,
         HeadOf(q) = t \o u, NEW r, r = Scan(Parser(loop), t)
  PROVE  IsParser(r) /\ r.ret = kNoEnoughData /\ r.n = Len(t)
<1> DEFINE p == Parser(loop)
           s == Scan(p, HeadOf(q))
<1>1. IsParser(p) /\ p.n = 0
  BY ParserBegins DEF AtBegin
<1>2. Whole(loop, q, s)
  BY ScanWhole
<1>3. s.n = Len(HeadOf(q))
  BY <1>2 DEF Whole
<1>4. r = Scan(p, t)
  OBVIOUS
<1> HIDE DEF p
<1>5. s = Scan(r, u)
  BY <1>4, ScanConcat
<1> HIDE DEF s
<1>6. Counts(p, Len(t), r)
  BY <1>1, <1>4, ScanCounts
<1>7. Len(t) \in Nat /\ Len(u) \in Nat /\ Len(u) > 0 /\ Len(HeadOf(q)) = Len(t) + Len(u)
  BY EmptySeq, ConcatProperties, LenProperties
<1>8. r.n \in 0 .. Len(t)
  BY <1>1, <1>6, <1>7 DEF Counts
<1>9. r.ret = kNoEnoughData
  <2> SUFFICES ASSUME r.ret # kNoEnoughData PROVE FALSE
    OBVIOUS
  <2>1. s = r
    BY <1>5, ScanEnds
  <2> QED
    BY <1>3, <1>7, <1>8, <2>1
<1> QED
  BY <1>1, <1>6, <1>7, <1>9 DEF Counts

\* The parser is waiting for the rest of the request: t has been read, some is
\* in the buffer, and some is still to come.
ReadSoFar(q, t, parser, buffer, rest) ==
  /\ t \in Seq(Alphabet) /\ parser = Scan(HttpParser, t)
  /\ Joined(t, buffer, rest, Bytes(q)) /\ Len(t) < Len(HeadOf(q))

Pending(q, parser, buffer, rest) == \E t : ReadSoFar(q, t, parser, buffer, rest)

Rests(v, rest, tail) == v \in Seq(Alphabet) /\ v \o rest = tail

PartDecoded(q, d, rest) ==
  d.ret = kNoEnoughData /\ d.rest = <<>> /\ Pending(q, d.parser, <<>>, rest)

WholeDecoded(q, d, rest) ==
  /\ d.ret = kSuccess /\ Rests(d.rest, rest, TailOf(q))
  /\ d.parser.ret = kNoEnoughData /\ IsParser(d.parser)
  /\ d.parser.path = PathAsked(q) /\ Told(d.parser.header, q.headers)

\* What Decode makes of the parser at the end of its loop.
DecodedTo(p, r, bytes, d) ==
  /\ d.ret = r.ret
  /\ r.ret # kError => d.rest = SubSeq(bytes, r.n - p.n + 1, Len(bytes))
  /\ r.ret = kNoEnoughData => d.parser = r
  /\ r.ret # kNoEnoughData => d.parser = [r EXCEPT !.n = p.n, !.ret = kNoEnoughData]

LEMMA DecodedIs ==
  ASSUME NEW p, NEW r, NEW bytes, NEW d, d = Decoded(p, r, bytes)
  PROVE  DecodedTo(p, r, bytes, d)
<1> DEFINE P == IF r.ret = kNoEnoughData THEN r ELSE [r EXCEPT !.n = p.n, !.ret = kNoEnoughData]
           R == r.ret
           X == IF r.ret = kError THEN bytes ELSE SubSeq(bytes, r.n - p.n + 1, Len(bytes))
<1>1. d = [parser |-> P, ret |-> R, rest |-> X]
  BY DEF Decoded
<1>2. d.parser = P /\ d.ret = R /\ d.rest = X
  <2> HIDE DEF P, R, X
  <2> QED
    BY <1>1
<1>3. (r.ret # kError => X = SubSeq(bytes, r.n - p.n + 1, Len(bytes)))
  OBVIOUS
<1>4. r.ret = kNoEnoughData => P = r
  OBVIOUS
<1>5. r.ret # kNoEnoughData => P = [r EXCEPT !.n = p.n, !.ret = kNoEnoughData]
  BY Zenon
<1> DEFINE Y == [r EXCEPT !.n = p.n, !.ret = kNoEnoughData]
<1> HIDE DEF P, R, X, Y
<1>6. r.ret # kNoEnoughData => P = Y
  BY <1>5 DEF Y
<1>7. r.ret # kNoEnoughData => d.parser = Y
  BY <1>2, <1>6
<1> QED
  BY <1>2, <1>3, <1>4, <1>7, Zenon DEF R, Y, DecodedTo

LEMMA HeadLength == ASSUME NEW q, IsHttp(q) PROVE Len(HeadOf(q)) \in Nat /\ Len(HeadOf(q)) > 0
<1>1. Body(q) \in Seq(Alphabet) /\ CRLF \in Seq(Alphabet) /\ Len(CRLF) = 2
  BY HeadChars DEF CRLF
<1> DEFINE b == Body(q)
<1>2. Len(b \o CRLF) = Len(b) + 2 /\ Len(b) \in Nat
  <2>1. b \in Seq(Alphabet) /\ CRLF \in Seq(Alphabet)
    BY <1>1
  <2> HIDE DEF b
  <2>2. Len(b \o CRLF) = Len(b) + Len(CRLF) /\ Len(b) \in Nat
    BY <2>1, ConcatProperties, LenProperties
  <2> QED
    BY <1>1, <2>2
<1> HIDE DEF b
<1> QED
  BY <1>2 DEF b, HeadOf

LEMMA DecodePart ==
  ASSUME NEW q, IsHttp(q), NEW t, NEW p, NEW buffer \in Seq(Alphabet), NEW rest \in Seq(Alphabet),
         ReadSoFar(q, t, p, buffer, rest), TailOf(q) \in Seq(Alphabet),
         Len(t) + Len(buffer) < Len(HeadOf(q)), NEW d, d = Decode(p, buffer)
  PROVE  PartDecoded(q, d, rest)
<1> DEFINE head == HeadOf(q)
           tail == TailOf(q)
           v == t \o buffer
           r == Scan(p, buffer)
<1>1. /\ t \in Seq(Alphabet) /\ p = Scan(HttpParser, t) /\ Joined(t, buffer, rest, Bytes(q))
      /\ Len(t) < Len(head)
  BY DEF ReadSoFar
<1>2. head \in Seq(Alphabet) /\ tail \in Seq(Alphabet) /\ Bytes(q) = head \o tail
  BY HeadChars, BytesOf
<1>3. v \in Seq(Alphabet) /\ Len(v) = Len(t) + Len(buffer) /\ Len(t) \in Nat /\ Len(buffer) \in Nat
      /\ Len(head) \in Nat
  <2> HIDE DEF head
  <2> QED
    BY <1>1, <1>2, ConcatProperties, LenProperties
<1>4. v \o rest = t \o (buffer \o rest)
  BY <1>1, ConcatAssociative
<1>5. v \o rest = head \o tail
  BY <1>1, <1>2, <1>4 DEF Joined
<1>6. Len(v) < Len(head)
  BY <1>3
<1>7. \E u : u \in Seq(Alphabet) /\ u # <<>> /\ v \o u = head
  <2> HIDE DEF v, head, tail
  <2>1. Len(v) <= Len(head)
    BY <1>3, <1>6
  <2>2. Behind(head, Len(v)) \in Seq(Alphabet) /\ v \o Behind(head, Len(v)) = head
    <3>1. TwoCuts(Alphabet, v, rest, head, tail)
      BY <1>2, <1>3, <1>5, <2>1 DEF TwoCuts
    <3>2. Between(Alphabet, v, rest, head, tail, Behind(head, Len(v)))
      BY <3>1, BetweenCuts
    <3> QED
      BY <3>2, Zenon DEF Between
  <2> DEFINE u == Behind(head, Len(v))
  <2>3. u # <<>>
    <3> SUFFICES ASSUME u = <<>> PROVE FALSE
      OBVIOUS
    <3>1. v \o <<>> = v
      BY <1>3
    <3>2. v = head
      BY <2>2, <3>1
    <3> QED
      BY <1>3, <1>6, <3>2
  <2> QED
    BY <2>2, <2>3
<1>8. PICK u : u \in Seq(Alphabet) /\ u # <<>> /\ v \o u = head
  BY <1>7
<1>9. r = Scan(HttpParser, v)
  BY <1>1, ScanConcat
<1>10. IsParser(r) /\ r.ret = kNoEnoughData /\ r.n = Len(v)
  <2>1. u \in Seq(Alphabet) /\ u # <<>> /\ HeadOf(q) = v \o u /\ v \in Seq(Alphabet)
    BY <1>3, <1>8
  <2>2. r = Scan(Parser("Decode"), v)
    BY <1>9 DEF HttpParser
  <2> HIDE DEF r, v
  <2> QED
    BY <2>1, <2>2, ScanPart, ZenonT(60)
<1>11. p.n = Len(t)
  <2>1. HttpParser = Parser("Decode")
    BY DEF HttpParser
  <2>2. IsParser(HttpParser) /\ HttpParser.n = 0
    BY <2>1, ParserBegins DEF AtBegin
  <2>3. Counts(HttpParser, Len(t), p)
    BY <1>1, <2>2, ScanCounts
  <2>4. Counts(p, Len(buffer), r)
    BY <2>3, ScanCounts DEF Counts
  <2>5. p.n \in 0 .. Len(t) /\ r.n \in p.n .. p.n + Len(buffer)
    BY <1>3, <2>2, <2>3, <2>4 DEF Counts
  <2> HIDE DEF r, v
  <2>6. p.n + Len(buffer) >= Len(t) + Len(buffer)
    BY <1>3, <1>10, <2>5
  <2> QED
    BY <1>3, <2>5, <2>6
<1>12. d = Decoded(p, r, buffer)
  BY DEF Decode
<1> HIDE DEF r
<1>13. d.ret = kNoEnoughData /\ d.parser = r
  <2>1. DecodedTo(p, r, buffer, d)
    BY <1>12, DecodedIs
  <2> QED
    BY <1>10, <2>1, Zenon DEF DecodedTo
<1>14. d.rest = <<>>
  <2>1. d.rest = SubSeq(buffer, r.n - p.n + 1, Len(buffer))
    <3>1. r.ret # kError
      BY <1>10 DEF kNoEnoughData, kError
    <3>2. DecodedTo(p, r, buffer, d)
      BY <1>12, DecodedIs
    <3> QED
      BY <3>1, <3>2 DEF DecodedTo
  <2>2. r.n - p.n + 1 = Len(buffer) + 1
    BY <1>3, <1>10, <1>11
  <2>3. SubSeq(buffer, Len(buffer) + 1, Len(buffer)) = <<>>
    BY <1>3
  <2> QED
    BY <2>1, <2>2, <2>3
<1>15. ReadSoFar(q, v, r, <<>>, rest)
  <2>1. <<>> \o rest = rest
    OBVIOUS
  <2>2. Joined(v, <<>>, rest, Bytes(q))
    BY <1>2, <1>5, <2>1 DEF Joined
  <2> HIDE DEF v
  <2> QED
    BY <1>3, <1>6, <1>9, <2>2 DEF ReadSoFar
<1> QED
  BY <1>13, <1>14, <1>15 DEF PartDecoded, Pending

LEMMA DecodeWhole ==
  ASSUME NEW q, IsHttp(q), NEW t, NEW p, NEW buffer \in Seq(Alphabet), NEW rest \in Seq(Alphabet),
         ReadSoFar(q, t, p, buffer, rest), TailOf(q) \in Seq(Alphabet),
         Len(t) + Len(buffer) >= Len(HeadOf(q)), NEW d, d = Decode(p, buffer)
  PROVE  WholeDecoded(q, d, rest)
<1> DEFINE head == HeadOf(q)
           tail == TailOf(q)
           u == Behind(head, Len(t))
           v == Behind(buffer, Len(u))
           r == Scan(p, buffer)
           s == Scan(HttpParser, head)
           left == buffer \o rest
<1>1. /\ t \in Seq(Alphabet) /\ p = Scan(HttpParser, t) /\ Joined(t, buffer, rest, Bytes(q))
      /\ Len(t) < Len(head)
  BY DEF ReadSoFar
<1>2. head \in Seq(Alphabet) /\ tail \in Seq(Alphabet) /\ Bytes(q) = head \o tail
  BY HeadChars, BytesOf
<1>3. Len(t) \in Nat /\ Len(buffer) \in Nat /\ Len(head) \in Nat /\ left \in Seq(Alphabet)
  <2> HIDE DEF head
  <2> QED
    BY <1>1, <1>2, ConcatProperties, LenProperties
<1>4. t \o left = head \o tail
  BY <1>1, <1>2 DEF Joined
<1>5. u \in Seq(Alphabet) /\ t \o u = head /\ left = u \o tail
  <2> HIDE DEF head, tail, left
  <2>1. Len(t) <= Len(head)
    BY <1>1, <1>3
  <2> QED
    <3>1. TwoCuts(Alphabet, t, left, head, tail)
      BY <1>1, <1>2, <1>3, <1>4, <2>1 DEF TwoCuts
    <3>2. Between(Alphabet, t, left, head, tail, Behind(head, Len(t)))
      BY <3>1, BetweenCuts
    <3> QED
      BY <3>2, Zenon DEF Between, u
<1>6. Len(u) \in Nat /\ Len(head) = Len(t) + Len(u)
  <2> HIDE DEF u, head
  <2>1. Len(t \o u) = Len(t) + Len(u) /\ Len(u) \in Nat
    BY <1>1, <1>5, ConcatProperties, LenProperties
  <2> QED
    BY <1>5, <2>1
<1>7. u # <<>>
  BY <1>1, <1>3, <1>6, EmptySeq
<1>8. v \in Seq(Alphabet) /\ u \o v = buffer /\ tail = v \o rest
  <2>1. Len(u) <= Len(buffer)
    BY <1>3, <1>6
  <2>2. u \o tail = buffer \o rest
    BY <1>5
  <2> HIDE DEF u, tail
  <2>3. TwoCuts(Alphabet, u, tail, buffer, rest)
    BY <1>2, <1>5, <2>1, <2>2 DEF TwoCuts
  <2>4. Between(Alphabet, u, tail, buffer, rest, Behind(buffer, Len(u)))
    BY <2>3, BetweenCuts
  <2> QED
    BY <2>4, Zenon DEF Between, v
<1>9. HttpParser = Parser("Decode")
  BY DEF HttpParser
<1>10. Whole("Decode", q, s)
  BY <1>9, ScanWhole
<1>11. IsParser(s) /\ s.ret = kSuccess /\ s.n = Len(head) /\ s.path = PathAsked(q) /\ Told(s.header, q.headers)
  BY <1>10 DEF Whole
<1>12. r = s
  <2> HIDE DEF u, v, s, head
  <2>1. Scan(p, u) = s
    <3>1. t \in Seq(Alphabet) /\ u \in Seq(Alphabet)
      BY <1>1, <1>5
    <3>2. Scan(HttpParser, t \o u) = Scan(Scan(HttpParser, t), u)
      BY <3>1, ScanConcat
    <3> QED
      BY <1>1, <1>5, <3>2 DEF s
  <2>2. Scan(p, u \o v) = Scan(Scan(p, u), v)
    <3>1. v \in Seq(Alphabet) /\ u \in Seq(Alphabet)
      BY <1>5, <1>8
    <3> QED
      BY <3>1, ScanConcat
  <2>3. Scan(s, v) = s
    <3>1. s.ret # kNoEnoughData
      BY <1>11 DEF kSuccess, kNoEnoughData
    <3> QED
      BY <1>8, <3>1, ScanEnds
  <2> QED
    BY <1>8, <2>1, <2>2, <2>3
<1>13. p.n = Len(t)
  <2>1. t \in Seq(Alphabet) /\ u \in Seq(Alphabet) /\ u # <<>> /\ HeadOf(q) = t \o u
    BY <1>1, <1>5, <1>7
  <2>2. p = Scan(Parser("Decode"), t)
    BY <1>1, <1>9
  <2> HIDE DEF u
  <2> QED
    BY <2>1, <2>2, ScanPart
<1>14. d = Decoded(p, s, buffer)
  BY <1>12 DEF Decode
<1> HIDE DEF s, r
<1>15. d.ret = kSuccess /\ d.parser = [s EXCEPT !.n = p.n, !.ret = kNoEnoughData]
  <2>1. DecodedTo(p, s, buffer, d)
    BY <1>14, DecodedIs
  <2>2. s.ret # kNoEnoughData
    BY <1>11 DEF kSuccess, kNoEnoughData
  <2>3. d.parser = [s EXCEPT !.n = p.n, !.ret = kNoEnoughData]
    BY <2>1, <2>2, Zenon DEF DecodedTo
  <2>4. d.ret = kSuccess
    BY <1>11, <2>1 DEF DecodedTo
  <2> QED
    BY <2>3, <2>4, Zenon
<1>16. d.rest = v
  <2>1. d.rest = SubSeq(buffer, s.n - p.n + 1, Len(buffer))
    <3>1. s.ret # kError
      BY <1>11 DEF kSuccess, kError
    <3>2. DecodedTo(p, s, buffer, d)
      BY <1>14, DecodedIs
    <3> QED
      BY <3>1, <3>2 DEF DecodedTo
  <2>2. s.n - p.n = Len(u)
    BY <1>3, <1>6, <1>11, <1>13
  <2> HIDE DEF u
  <2> QED
    BY <2>1, <2>2 DEF Behind
<1>17. /\ d.parser.ret = kNoEnoughData /\ d.parser.path = s.path /\ d.parser.header = s.header
       /\ IsParser(d.parser)
  <2>1. p.n \in Nat
    BY <1>3, <1>13
  <2> QED
    BY <1>11, <1>15, <2>1 DEF IsParser
<1> QED
  BY <1>8, <1>11, <1>15, <1>16, <1>17 DEF WholeDecoded, Rests

LEMMA DecodeOf ==
  ASSUME NEW q, IsHttp(q), NEW p, NEW buffer \in Seq(Alphabet), NEW rest \in Seq(Alphabet),
         Pending(q, p, buffer, rest), TailOf(q) \in Seq(Alphabet), NEW d, d = Decode(p, buffer)
  PROVE  PartDecoded(q, d, rest) \/ WholeDecoded(q, d, rest)
<1>1. PICK t : ReadSoFar(q, t, p, buffer, rest)
  BY DEF Pending
<1>2. Len(t) \in Nat /\ Len(buffer) \in Nat /\ Len(HeadOf(q)) \in Nat
  BY <1>1, HeadLength, LenProperties DEF ReadSoFar
<1>3. CASE Len(t) + Len(buffer) < Len(HeadOf(q))
  BY <1>1, <1>3, DecodePart
<1>4. CASE Len(t) + Len(buffer) >= Len(HeadOf(q))
  BY <1>1, <1>4, DecodeWhole
<1> QED
  BY <1>2, <1>3, <1>4

\* Of nothing.
LEMMA DecodeNothing ==
  ASSUME NEW p, IsParser(p), p.ret = kNoEnoughData, NEW d, d = Decode(p, <<>>)
  PROVE  d.ret = kNoEnoughData /\ d.parser = p /\ d.rest = <<>>
<1>1. d = Decoded(p, p, <<>>)
  BY ScanNone DEF Decode
<1>2. p.n - p.n + 1 = 1
  BY DEF IsParser
<1>3. SubSeq(<<>>, 1, Len(<<>>)) = <<>>
  OBVIOUS
<1> QED
  BY <1>1, <1>2, <1>3 DEF Decoded, kError, kNoEnoughData

\* A client that has all of its request to come.
LEMMA PendingAtFirst ==
  ASSUME NEW q, IsHttp(q), TailOf(q) \in Seq(Alphabet)
  PROVE  Bytes(q) \in Seq(Alphabet) /\ Pending(q, HttpParser, <<>>, Bytes(q))
<1>1. HeadOf(q) \in Seq(Alphabet)
  BY HeadChars
<1>2. Bytes(q) \in Seq(Alphabet)
  BY <1>1, BytesOf, ConcatProperties
<1>3. HttpParser = Scan(HttpParser, <<>>)
  BY ScanNone
<1>4. Joined(<<>>, <<>>, Bytes(q), Bytes(q))
  BY <1>2 DEF Joined
<1>5. Len(<<>>) < Len(HeadOf(q))
  BY HeadLength
<1>6. ReadSoFar(q, <<>>, HttpParser, <<>>, Bytes(q))
  BY <1>3, <1>4, <1>5 DEF ReadSoFar
<1> QED
  BY <1>2, <1>6 DEF Pending

LEMMA PendingRead ==
  ASSUME NEW q, NEW p, NEW b \in Seq(Alphabet), NEW w \in Seq(Alphabet), Pending(q, p, b, w),
         NEW b2, NEW w2, Same(b2, w2, b, w)
  PROVE  Pending(q, p, b2, w2)
<1>1. PICK t : ReadSoFar(q, t, p, b, w)
  BY DEF Pending
<1>2. ReadSoFar(q, t, p, b2, w2)
  BY <1>1 DEF ReadSoFar, Joined, Same
<1> QED
  BY <1>2 DEF Pending

\* There is more to come.
LEMMA PendingMore ==
  ASSUME NEW q, IsHttp(q), TailOf(q) \in Seq(Alphabet), NEW p, Pending(q, p, <<>>, <<>>)
  PROVE  FALSE
<1>1. PICK t : ReadSoFar(q, t, p, <<>>, <<>>)
  BY DEF Pending
<1>2. t \in Seq(Alphabet) /\ t = Bytes(q) /\ Len(t) < Len(HeadOf(q))
  <2>1. t \in Seq(Alphabet) /\ t \o (<<>> \o <<>>) = Bytes(q)
    BY <1>1 DEF ReadSoFar, Joined
  <2>2. t \o (<<>> \o <<>>) = t
    BY <2>1
  <2> QED
    BY <1>1, <2>1, <2>2 DEF ReadSoFar
<1> DEFINE head == HeadOf(q)
           tail == TailOf(q)
<1>3. head \in Seq(Alphabet) /\ tail \in Seq(Alphabet) /\ t = head \o tail
  BY <1>2, HeadChars, BytesOf
<1> HIDE DEF head, tail
<1>4. Len(t) = Len(head) + Len(tail) /\ Len(head) \in Nat /\ Len(tail) \in Nat
  BY <1>3, ConcatProperties, LenProperties
<1>5. Len(t) < Len(head)
  BY <1>2 DEF head
<1> QED
  BY <1>4, <1>5

\* The file a request is for.
AsksFile(q) == q.method = GET /\ q.query = <<>>

FileAsked(q, p) ==
  /\ AsksFile(q) => /\ FileType(p) = <<q.type>> /\ FileName(p) = q.name
                    /\ Len(p.path) = Len(q.dirs) + 1
                    /\ Len(q.dirs) = 1 => p.path[1] = <<q.dirs[1]>>
  /\ ~AsksFile(q) => FileType(p) = <<>>

LEMMA FileOfPath ==
  ASSUME NEW q, IsHttp(q), NEW p, p.path = PathAsked(q)
  PROVE  FileAsked(q, p)
<1> DEFINE dirs == q.dirs
           name == q.name
           type == q.type
           n == Len(dirs)
           ext == <<Dot, type>>
           t == <<type>>
           u == name \o ext
           parts == DirParts(dirs)
<1>1. dirs \in Seq(Words) /\ name \in Seq(Words) /\ type \in Words /\ n \in Nat
  BY HttpFields DEF IsHttp
<1>2. Words \subseteq UrlChars /\ Dot \in UrlChars
  BY UrlCharIs
<1>3. parts \in Seq(Seq(UrlChars)) /\ Len(parts) = n /\ parts = [i \in DOMAIN dirs |-> <<dirs[i]>>]
  <2>1. parts \in Seq(Seq(UrlChars))
    BY <1>1, DirectoriesPath
  <2>2. parts = [i \in DOMAIN dirs |-> <<dirs[i]>>]
    BY DEF DirParts
  <2>3. DOMAIN parts = DOMAIN dirs /\ DOMAIN dirs = 1 .. Len(dirs) /\ DOMAIN parts = 1 .. Len(parts)
        /\ Len(parts) \in Nat
    <3>1. DOMAIN parts = DOMAIN dirs
      BY <2>2
    <3>2. DOMAIN parts = 1 .. Len(parts) /\ Len(parts) \in Nat
      <4> HIDE DEF parts
      <4> QED
        BY <2>1, LenProperties
    <3>3. DOMAIN dirs = 1 .. Len(dirs)
      BY <1>1, LenProperties
    <3> QED
      BY <3>1, <3>2, <3>3
  <2>4. ASSUME NEW a \in Nat, NEW b \in Nat, 1 .. a = 1 .. b PROVE a = b
    BY <2>4
  <2> HIDE DEF parts
  <2>5. Len(parts) = n
    BY <1>1, <2>3, <2>4
  <2> QED
    BY <2>1, <2>2, <2>5
<1>4. DOMAIN dirs = 1 .. n /\ \A i \in 1 .. n : dirs[i] \in Words /\ parts[i] = <<dirs[i]>>
  BY <1>1, <1>3, LenProperties
<1>5. CASE AsksFile(q)
  <2>1. p.path = Append(parts, u)
    BY <1>5 DEF PathAsked, UrlOf, AsksFile
  <2>2. /\ u \in Seq(UrlChars) /\ name \in Seq(UrlChars) /\ t \in Seq(UrlChars)
        /\ Cuts(u, Dot, name, t)
    <3>1. name \in Seq(UrlChars) /\ ext \in Seq(UrlChars) /\ t \in Seq(UrlChars)
          /\ Len(ext) = 2 /\ ext[1] = Dot /\ ext[2] = type /\ Len(t) = 1 /\ t[1] = type
      BY <1>1, <1>2
    <3>2. Len(name) \in Nat /\ \A i \in 1 .. Len(name) : name[i] # Dot
      BY <1>1, WordIsNoMark, LenProperties
    <3> HIDE DEF ext, t, name
    <3>3. /\ u \in Seq(UrlChars) /\ Len(u) = Len(name) + Len(ext)
          /\ \A i \in 1 .. Len(name) + Len(ext) : u[i] = IF i <= Len(name) THEN name[i] ELSE ext[i - Len(name)]
      BY <3>1, ConcatProperties
    <3> HIDE DEF u
    <3>4. \A i \in 1 .. Len(name) : i \in 1 .. Len(name) + 2 /\ i <= Len(name)
      BY <3>2
    <3>5. /\ Len(name) + 1 \in 1 .. Len(name) + 2 /\ ~(Len(name) + 1 <= Len(name))
          /\ (Len(name) + 1) - Len(name) = 1
          /\ Len(name) + 2 \in 1 .. Len(name) + 2 /\ ~(Len(name) + 2 <= Len(name))
          /\ (Len(name) + 2) - Len(name) = 2 /\ Len(name) + 1 + 1 = Len(name) + 2
      BY <3>2
    <3>6. Len(u) = Len(name) + 2 /\ u[Len(name) + 1] = Dot /\ u[Len(name) + 1 + 1] = type
          /\ \A i \in 1 .. Len(name) : u[i] = name[i]
      BY <3>1, <3>3, <3>4, <3>5
    <3>7. \A i \in 1 .. Len(t) : i = 1
      BY <3>1
    <3>8. Len(u) = Len(name) + 1 + Len(t)
      BY <3>1, <3>2, <3>6
    <3>9. Cuts(u, Dot, name, t)
      BY <3>1, <3>2, <3>6, <3>7, <3>8 DEF Cuts
    <3> QED
      BY <3>1, <3>3, <3>9
  <2> HIDE DEF u, parts, t
  <2>3. FirstPiece(u, Dot) = name /\ OtherPieces(u, Dot) = t
    <3> HIDE DEF name
    <3> QED
      BY <2>2, CutsPieces
  <2>4. /\ Len(p.path) = n + 1 /\ p.path[n + 1] = u /\ p.path # <<>>
        /\ \A i \in 1 .. n : p.path[i] = parts[i]
    <3>1. p.path = Append(parts, u) /\ parts \in Seq(Seq(UrlChars)) /\ u \in Seq(UrlChars)
      BY <1>3, <2>1, <2>2
    <3> DEFINE path == p.path
    <3>2. path = Append(parts, u)
      BY <3>1
    <3> HIDE DEF path
    <3>3. /\ path \in Seq(Seq(UrlChars)) /\ Len(path) = Len(parts) + 1 /\ Len(parts) \in Nat
          /\ path[Len(parts) + 1] = u /\ \A i \in 1 .. Len(parts) : path[i] = parts[i]
          /\ path # <<>>
      <4> DEFINE S == Seq(UrlChars)
      <4>1. parts \in Seq(S) /\ u \in S
        BY <3>1
      <4> HIDE DEF S
      <4>2. /\ path \in Seq(S) /\ Len(path) = Len(parts) + 1 /\ Len(parts) \in Nat
            /\ path[Len(parts) + 1] = u /\ \A i \in 1 .. Len(parts) : path[i] = parts[i]
            /\ path # <<>>
        BY <3>2, <4>1, AppendHas
      <4> QED
        BY <4>2 DEF S
    <3> QED
      BY <1>3, <3>3 DEF path
  <2>5. LastPart(p) = u
    BY <2>4 DEF LastPart
  <2>6. Len(q.dirs) = 1 => p.path[1] = <<q.dirs[1]>>
    <3> SUFFICES ASSUME n = 1 PROVE p.path[1] = <<dirs[1]>>
      OBVIOUS
    <3>1. 1 \in 1 .. n
      OBVIOUS
    <3> QED
      BY <1>4, <2>4, <3>1
  <2> QED
    BY <1>5, <2>3, <2>4, <2>5, <2>6 DEF FileAsked, FileType, FileName, t
<1>6. CASE ~AsksFile(q)
  <2>1. LastPart(p) = <<>> \/ \E i \in 1 .. n : LastPart(p) = <<dirs[i]>>
    <3>1. CASE q.method # GET
      BY <3>1 DEF PathAsked, LastPart
    <3>2. CASE q.method = GET
      <4>1. p.path = parts
        BY <1>6, <3>2 DEF AsksFile, PathAsked, UrlOf
      <4> HIDE DEF parts
      <4>2. CASE n = 0
        <5>1. parts = <<>>
          BY <1>3, <4>2, EmptySeq
        <5> QED
          BY <4>1, <5>1 DEF LastPart
      <4>3. CASE n # 0
        <5>1. n \in 1 .. n
          BY <1>1, <4>3
        <5>2. parts # <<>>
          <6> SUFFICES ASSUME parts = <<>> PROVE FALSE
            OBVIOUS
          <6>1. Len(parts) = 0
            OBVIOUS
          <6> QED
            BY <1>3, <4>3, <6>1
        <5>3. LastPart(p) = parts[n]
          BY <1>3, <4>1, <5>2 DEF LastPart
        <5> QED
          BY <1>4, <5>1, <5>3
      <4> QED
        BY <4>2, <4>3
    <3> QED
      BY <3>1, <3>2
  <2> DEFINE l == LastPart(p)
  <2>2. l \in Seq(UrlChars) /\ ~Has(Dot, l)
    <3>1. CASE l = <<>>
      <4>1. <<>> \in Seq(UrlChars) /\ ~Has(Dot, <<>>)
        BY DEF Has
      <4> QED
        BY <3>1, <4>1
    <3>2. ASSUME NEW i \in 1 .. n, l = <<dirs[i]>> PROVE l \in Seq(UrlChars) /\ ~Has(Dot, l)
      <4> DEFINE w == dirs[i]
      <4>1. w \in UrlChars /\ w # Dot /\ l = <<w>>
        BY <1>2, <1>4, <3>2, WordIsNoMark
      <4> HIDE DEF w
      <4>2. <<w>> \in Seq(UrlChars) /\ ~Has(Dot, <<w>>)
        BY <4>1 DEF Has
      <4> QED
        BY <4>1, <4>2
    <3> QED
      BY <2>1, <3>1, <3>2
  <2> HIDE DEF l
  <2>3. OtherPieces(l, Dot) = <<>>
    BY <2>2, NoPieces
  <2> QED
    BY <1>6, <2>3 DEF FileAsked, FileType, l
<1> QED
  BY <1>5, <1>6

-----------------------------------------------------------------------------
(* What a handler's answer to the whole request is to the client.          *)

Gives(r, e) == r.said = e.said /\ r.heard = e.heard /\ After(r.ret) = e.state

LEMMA AfterIs ==
  /\ After(kSuccess) = "open" /\ After(kError) = "closed" /\ After(kClose) = "closed"
  /\ After(kNoEnoughData) = "open"
  /\ kSuccess # kNoEnoughData /\ kSuccess # kError /\ kSuccess # kClose
  /\ kNoEnoughData # kError
BY DEF After, kSuccess, kError, kClose, kNoEnoughData

IsResult(r, s, ret, rest, said_, heard_) ==
  r.session = s /\ r.ret = ret /\ r.rest = rest /\ r.said = said_ /\ r.heard = heard_

LEMMA ResultIs ==
  ASSUME NEW s, NEW ret, NEW rest, NEW said_, NEW heard_, NEW r, r = Result(s, ret, rest, said_, heard_)
  PROVE  IsResult(r, s, ret, rest, said_, heard_)
BY DEF Result, IsResult

LEMMA OneOf == ASSUME NEW x, NEW y PROVE <<x>> = <<y>> <=> x = y
<1>1. ASSUME <<x>> = <<y>> PROVE x = y
  BY <1>1
<1> QED
  BY <1>1

LEMMA FlvAnswers ==
  ASSUME NEW q, IsHttp(q), NEW d, NEW w, WholeDecoded(q, d, w), NEW s, NEW r, r = FlvAnswer(s, d)
  PROVE  Gives(r, FlvExpected(q)) /\ r.rest = d.rest /\ r.session = [s EXCEPT !.parser = d.parser]
         /\ r.ret \in {kSuccess, kError}
<1> DEFINE p == d.parser
           t == [s EXCEPT !.parser = d.parser]
           name == q.name
           asks == q.method = GET /\ Len(q.dirs) = 1 /\ q.type = FLV /\ q.query = <<>>
           dir == q.dirs[1]
           stream == <<p.path[1], FileName(p)>>
<1>1. FileAsked(q, p) /\ d.ret = kSuccess
  BY FileOfPath DEF WholeDecoded
<1>2. name # <<>> /\ Len(q.dirs) \in Nat
  BY HttpFields, LenProperties DEF IsHttp
<1>3. IsFlvRequest(p) <=> asks
  <2>1. CASE AsksFile(q)
    <3>1. /\ FileType(p) = <<q.type>> /\ FileName(p) = name /\ Len(p.path) = Len(q.dirs) + 1
          /\ Len(q.dirs) = 1 => p.path[1] = <<dir>>
      BY <1>1, <2>1 DEF FileAsked
    <3>2. FileType(p) = <<FLV>> <=> q.type = FLV
      BY <3>1, OneOf
    <3>3. Len(p.path) = 2 <=> Len(q.dirs) = 1
      <4>1. ASSUME NEW a \in Nat, NEW b, b = a + 1 PROVE b = 2 <=> a = 1
        BY <4>1
      <4> QED
        BY <1>2, <3>1, <4>1
    <3>4. <<dir>> # <<>>
      OBVIOUS
    <3> HIDE DEF name, dir
    <3> QED
      BY <1>2, <2>1, <3>1, <3>2, <3>3, <3>4 DEF IsFlvRequest, AsksFile, p
  <2>2. CASE ~AsksFile(q)
    <3>1. FileType(p) = <<>> /\ <<FLV>> # <<>>
      BY <1>1, <2>2 DEF FileAsked
    <3> QED
      BY <2>2, <3>1 DEF IsFlvRequest, AsksFile
  <2> QED
    BY <2>1, <2>2
<1>4. asks => stream = <<<<dir>>, name>>
  BY <1>1 DEF FileAsked, AsksFile
<1>5. d.ret = kSuccess
  BY <1>1
<1>6. CASE ~asks
  <2>1. r = Result(t, kSuccess, d.rest, <<NotFound>>, <<>>)
    BY <1>3, <1>5, <1>6 DEF FlvAnswer
  <2>2. FlvExpected(q) = Served(404, "close", "no found")
    BY <1>6 DEF FlvExpected
  <2>8. IsResult(r, t, kSuccess, d.rest, <<NotFound>>, <<>>)
    <3> HIDE DEF t
    <3> QED
      BY <2>1, ResultIs
  <2> HIDE DEF t
  <2>3. Gives(r, Served(404, "close", "no found"))
    BY <2>8, AfterIs DEF IsResult, Gives, Served, NotFound
  <2> QED
    BY <2>2, <2>3, <2>8 DEF IsResult, t
<1>7. CASE asks /\ <<<<dir>>, name>> \notin Streams
  <2>1. r = Result(t, kError, d.rest, <<>>, <<>>)
    BY <1>3, <1>4, <1>5, <1>7 DEF FlvAnswer
  <2>2. FlvExpected(q) = Silence("closed")
    BY <1>7 DEF FlvExpected
  <2>8. IsResult(r, t, kError, d.rest, <<>>, <<>>)
    <3> HIDE DEF t
    <3> QED
      BY <2>1, ResultIs
  <2> HIDE DEF t
  <2>3. Gives(r, Silence("closed"))
    BY <2>8, AfterIs DEF IsResult, Gives, Silence
  <2> QED
    BY <2>2, <2>3, <2>8 DEF IsResult, t
<1>8. CASE asks /\ <<<<dir>>, name>> \in Streams
  <2> DEFINE g == <<<<dir>>, name>>
             said_ == <<Response(200, "keep-alive", "flv header")>>
             e == [Served(200, "keep-alive", "flv header") EXCEPT !.heard = <<g>>]
  <2>1. r = Result(t, kSuccess, d.rest, said_, <<g>>)
    BY <1>3, <1>4, <1>5, <1>8 DEF FlvAnswer
  <2>2. FlvExpected(q) = e
    BY <1>8 DEF FlvExpected
  <2>3. e.said = said_ /\ e.heard = <<g>> /\ e.state = "open"
    <3> HIDE DEF g
    <3> QED
      BY DEF Served
  <2>8. IsResult(r, t, kSuccess, d.rest, said_, <<g>>)
    <3> HIDE DEF t, g, e, said_
    <3> QED
      BY <2>1, ResultIs
  <2> HIDE DEF t, g, e, said_
  <2>4. Gives(r, e)
    BY <2>3, <2>8, AfterIs DEF IsResult, Gives
  <2> QED
    BY <2>2, <2>4, <2>8 DEF IsResult, t
<1> QED
  BY <1>6, <1>7, <1>8

LEMMA FileAnswers ==
  ASSUME NEW q, IsHttp(q), NEW d, NEW w, WholeDecoded(q, d, w), NEW s, NEW r, r = FileAnswer(s, d)
  PROVE  Gives(r, FileExpected(q)) /\ r.rest = d.rest /\ r.session = [s EXCEPT !.parser = d.parser]
         /\ r.ret \in {kSuccess, kError}
<1> DEFINE p == d.parser
           t == [s EXCEPT !.parser = d.parser]
           asks == q.method = GET /\ q.type = HTML /\ q.query = <<>> /\ q.name \in Files
           found == FileType(p) = <<HTML>> /\ FileName(p) \in Files
<1>1. FileAsked(q, p) /\ d.ret = kSuccess
  BY FileOfPath DEF WholeDecoded
<1>2. found <=> asks
  <2>1. CASE AsksFile(q)
    <3>1. FileType(p) = <<q.type>> /\ FileName(p) = q.name
      BY <1>1, <2>1 DEF FileAsked
    <3>2. FileType(p) = <<HTML>> <=> q.type = HTML
      BY <3>1, OneOf
    <3> QED
      BY <2>1, <3>1, <3>2 DEF AsksFile
  <2>2. CASE ~AsksFile(q)
    <3>1. FileType(p) = <<>> /\ <<HTML>> # <<>>
      BY <1>1, <2>2 DEF FileAsked
    <3> QED
      BY <2>2, <3>1 DEF AsksFile
  <2> QED
    BY <2>1, <2>2
<1>3. asks => FileName(p) = q.name
  BY <1>1 DEF FileAsked, AsksFile
<1>4. CASE asks
  <2>1. r = Result(t, kSuccess, d.rest, <<Response(200, "close", q.name)>>, <<>>)
    BY <1>1, <1>2, <1>3, <1>4 DEF FileAnswer
  <2>2. FileExpected(q) = Served(200, "close", q.name)
    BY <1>4 DEF FileExpected
  <2>8. IsResult(r, t, kSuccess, d.rest, <<Response(200, "close", q.name)>>, <<>>)
    <3> HIDE DEF t
    <3> QED
      BY <2>1, ResultIs
  <2> HIDE DEF t
  <2>3. Gives(r, Served(200, "close", q.name))
    BY <2>8, AfterIs DEF IsResult, Gives, Served
  <2> QED
    BY <2>2, <2>3, <2>8 DEF IsResult, t
<1>5. CASE ~asks
  <2>1. r = Result(t, kSuccess, d.rest, <<NotFound>>, <<>>)
    BY <1>1, <1>2, <1>5 DEF FileAnswer
  <2>2. FileExpected(q) = Served(404, "close", "no found")
    BY <1>5 DEF FileExpected
  <2>8. IsResult(r, t, kSuccess, d.rest, <<NotFound>>, <<>>)
    <3> HIDE DEF t
    <3> QED
      BY <2>1, ResultIs
  <2> HIDE DEF t
  <2>3. Gives(r, Served(404, "close", "no found"))
    BY <2>8, AfterIs DEF IsResult, Gives, Served, NotFound
  <2> QED
    BY <2>2, <2>3, <2>8 DEF IsResult, t
<1> QED
  BY <1>4, <1>5

-----------------------------------------------------------------------------
(* HTTP-FLV and files.                                                     *)

AtMostOne(s) == s = <<>> \/ \E x : s = <<x>>

LEMMA ConcatNone == ASSUME NEW s, AtMostOne(s) PROVE s \o <<>> = s /\ <<>> \o s = s
<1>1. CASE s = <<>>
  BY <1>1
<1>2. ASSUME NEW x, s = <<x>> PROVE s \o <<>> = s /\ <<>> \o s = s
  <2>1. <<x>> \in Seq({x})
    OBVIOUS
  <2>2. s \in Seq({x})
    BY <1>2, <2>1
  <2> QED
    BY <2>2
<1> QED
  BY <1>1, <1>2 DEF AtMostOne

\* What every state of a connection to a HTTP port has.
HttpTypes ==
  /\ IsRequest(protocol, request)
  /\ wire \in Seq(Alphabet) /\ read_buffer_ \in Seq(Alphabet)
  /\ handling \in BOOLEAN /\ (handling => state = "open")

LEMMA RequestIsHttp ==
  ASSUME NEW p, NEW q, IsRequest(p, q)
  PROVE  IsHttp(q) /\ (p # "websocket" => TailOf(q) = <<>>)
<1>1. q \in HttpRequest /\ (q.query # <<>> => q.query[1] = Query)
  BY DEF IsRequest
<1>2. ASSUME p # "websocket" PROVE TailOf(q) = <<>>
  <2>1. q.frames = <<>> /\ q.written
    BY <1>2 DEF IsRequest
  <2>2. [i \in DOMAIN <<>> |-> FrameBytes((<<>>)[i])] = <<>>
    OBVIOUS
  <2> QED
    BY <2>1, <2>2, FlattenNone DEF TailOf, FramesBytes
<1> QED
  BY <1>1, <1>2 DEF IsHttp

LEMMA HttpRead ==
  ASSUME wire \in Seq(Alphabet), read_buffer_ \in Seq(Alphabet), OnRead
  PROVE  /\ wire' \in Seq(Alphabet) /\ read_buffer_' \in Seq(Alphabet)
         /\ Same(read_buffer_', wire', read_buffer_, wire)
         /\ ~handling /\ state = "open" /\ handling' = TRUE
         /\ UNCHANGED <<protocol, request, session, said, heard, state>>
         /\ reads' = IF reads = 2 THEN 2 ELSE reads + 1
         /\ wire # <<>>
<1>1. PICK n \in 1 .. MaxRead \cup {Len(wire)} :
        /\ n > 0 /\ n <= Len(wire)
        /\ read_buffer_' = read_buffer_ \o SubSeq(wire, 1, n)
        /\ wire' = SubSeq(wire, n + 1, Len(wire))
  BY DEF OnRead
<1>2. Len(wire) \in Nat
  BY LenProperties
<1>3. n \in 0 .. Len(wire) /\ Len(wire) # 0
  BY <1>1, <1>2, FramesAssumption
<1>4. Moves(read_buffer_, wire, n, read_buffer_', wire')
  BY <1>1 DEF Moves, Behind
<1>5. /\ read_buffer_' \in Seq(Alphabet) /\ wire' \in Seq(Alphabet)
      /\ Same(read_buffer_', wire', read_buffer_, wire)
  BY <1>3, <1>4, ReadMoves
<1>6. wire # <<>>
  BY <1>3, EmptySeq
<1> QED
  BY <1>5, <1>6 DEF OnRead

Pages == {"flv", "file"}

PageExpected(q) == IF protocol = "flv" THEN FlvExpected(q) ELSE FileExpected(q)

HttpSession(s) == s = [parser |-> s.parser, upgrade |-> s.upgrade]

PageWaits ==
  /\ Pending(request, session.parser, read_buffer_, wire)
  /\ said = <<>> /\ heard = <<>> /\ state = "open"
  /\ ~handling => read_buffer_ = <<>>

PageAnswered ==
  /\ read_buffer_ = <<>> /\ wire = <<>>
  /\ IsParser(session.parser) /\ session.parser.ret = kNoEnoughData
  /\ AtMostOne(said) /\ AtMostOne(heard)
  /\ Got = PageExpected(request)

PageInv ==
  protocol \in Pages => HttpTypes /\ HttpSession(session) /\ (PageWaits \/ PageAnswered)

LEMMA InitPage == Init => PageInv
<1> SUFFICES ASSUME Init, protocol \in Pages PROVE HttpTypes /\ HttpSession(session) /\ PageWaits
  BY DEF PageInv
<1>1. PICK p \in DOMAIN Requests : \E q \in Requests[p] :
          /\ protocol = p /\ request = q /\ wire = Bytes(q)
          /\ session = IF p \in {"hls", "dash"} THEN <<>>
                       ELSE [parser |-> HttpParser, upgrade |-> FALSE]
  BY DEF Init, Pages
<1>2. PICK q \in Requests[p] : 
          /\ protocol = p /\ request = q /\ wire = Bytes(q)
          /\ session = IF p \in {"hls", "dash"} THEN <<>>
                       ELSE [parser |-> HttpParser, upgrade |-> FALSE]
  BY <1>1
<1>3. session = [parser |-> HttpParser, upgrade |-> FALSE] /\ protocol # "websocket"
  BY <1>2 DEF Pages
<1>4. IsRequest(protocol, request)
  BY <1>2, RequestsAssumption
<1>5. IsHttp(request) /\ TailOf(request) = <<>> /\ TailOf(request) \in Seq(Alphabet)
  <2>1. IsHttp(request) /\ TailOf(request) = <<>>
    BY <1>3, <1>4, RequestIsHttp
  <2>2. <<>> \in Seq(Alphabet)
    OBVIOUS
  <2> QED
    BY <2>1, <2>2
<1>6. /\ read_buffer_ = <<>> /\ said = <<>> /\ heard = <<>> /\ state = "open" /\ handling = FALSE
      /\ wire = Bytes(request)
  BY <1>2 DEF Init
<1>7. Bytes(request) \in Seq(Alphabet) /\ Pending(request, HttpParser, <<>>, Bytes(request))
  BY <1>5, PendingAtFirst
<1>8. session.parser = HttpParser /\ HttpSession(session)
  BY <1>3 DEF HttpSession
<1>9. <<>> \in Seq(Alphabet)
  OBVIOUS
<1> QED
  BY <1>4, <1>6, <1>7, <1>8, <1>9 DEF HttpTypes, PageWaits

LEMMA PageRead == ASSUME PageInv, protocol \in Pages, OnRead PROVE PageInv'
<1>1. HttpTypes /\ HttpSession(session) /\ (PageWaits \/ PageAnswered)
  BY DEF PageInv
<1>2. wire \in Seq(Alphabet) /\ read_buffer_ \in Seq(Alphabet)
  BY <1>1 DEF HttpTypes
<1>3. /\ wire' \in Seq(Alphabet) /\ read_buffer_' \in Seq(Alphabet)
      /\ Same(read_buffer_', wire', read_buffer_, wire)
      /\ ~handling /\ state = "open" /\ handling' = TRUE
      /\ protocol' = protocol /\ request' = request /\ session' = session /\ said' = said
      /\ heard' = heard /\ state' = state /\ wire # <<>>
  BY <1>2, HttpRead
<1>4. PageWaits
  BY <1>1, <1>3 DEF PageAnswered
<1>5. Pending(request, session.parser, read_buffer_, wire)
  BY <1>4 DEF PageWaits
<1>6. Pending(request, session.parser, read_buffer_', wire')
  <2> DEFINE q == request
             p == session.parser
             b == read_buffer_
             w == wire
             b2 == read_buffer_'
             w2 == wire'
  <2>1. b \in Seq(Alphabet) /\ w \in Seq(Alphabet) /\ Pending(q, p, b, w) /\ Same(b2, w2, b, w)
    BY <1>2, <1>3, <1>5
  <2> HIDE DEF q, p, b, w, b2, w2
  <2>2. Pending(q, p, b2, w2)
    BY <2>1, PendingRead
  <2> QED
    BY <2>2 DEF q, p, b2, w2
<1>7. PageWaits'
  BY <1>3, <1>4, <1>6 DEF PageWaits
<1>8. HttpTypes' /\ HttpSession(session)'
  BY <1>1, <1>3 DEF HttpTypes, HttpSession
<1> QED
  BY <1>7, <1>8 DEF PageInv

\* A turn that ends with no request.
LEMMA NoAnswer ==
  ASSUME NEW s, NEW d, d.ret = kNoEnoughData, NEW r,
         \/ protocol = "flv" /\ r = FlvAnswer(s, d)
         \/ protocol = "file" /\ r = FileAnswer(s, d)
  PROVE  IsResult(r, [s EXCEPT !.parser = d.parser], kNoEnoughData, d.rest, <<>>, <<>>)
<1> DEFINE t == [s EXCEPT !.parser = d.parser]
<1>1. r = Result(t, d.ret, d.rest, <<>>, <<>>)
  BY AfterIs DEF FlvAnswer, FileAnswer
<1> HIDE DEF t
<1>2. IsResult(r, t, d.ret, d.rest, <<>>, <<>>)
  BY <1>1, ResultIs
<1> QED
  BY <1>2 DEF t

PageAnswers(q, r, d, s) ==
  /\ Gives(r, PageExpected(q)) /\ r.rest = d.rest /\ r.session = [s EXCEPT !.parser = d.parser]
  /\ AtMostOne(r.said) /\ AtMostOne(r.heard) /\ r.ret \in {kSuccess, kError}

LEMMA PageAnswerIs ==
  ASSUME NEW q, IsHttp(q), NEW d, NEW w, WholeDecoded(q, d, w), NEW s, NEW r,
         \/ protocol = "flv" /\ r = FlvAnswer(s, d)
         \/ protocol = "file" /\ r = FileAnswer(s, d)
  PROVE  PageAnswers(q, r, d, s)
<1>1. CASE protocol = "flv" /\ r = FlvAnswer(s, d)
  <2>1. Gives(r, FlvExpected(q)) /\ r.rest = d.rest /\ r.session = [s EXCEPT !.parser = d.parser]
        /\ r.ret \in {kSuccess, kError}
    BY <1>1, FlvAnswers
  <2>2. AtMostOne(FlvExpected(q).said) /\ AtMostOne(FlvExpected(q).heard)
    BY DEF FlvExpected, Served, Silence, AtMostOne
  <2> QED
    BY <1>1, <2>1, <2>2 DEF PageAnswers, PageExpected, Gives
<1>2. CASE protocol = "file" /\ r = FileAnswer(s, d)
  <2>1. Gives(r, FileExpected(q)) /\ r.rest = d.rest /\ r.session = [s EXCEPT !.parser = d.parser]
        /\ r.ret \in {kSuccess, kError}
    BY <1>2, FileAnswers
  <2>2. AtMostOne(FileExpected(q).said) /\ AtMostOne(FileExpected(q).heard)
    BY DEF FileExpected, Served, AtMostOne
  <2> QED
    BY <1>2, <2>1, <2>2 DEF PageAnswers, PageExpected, Gives
<1> QED
  BY <1>1, <1>2

LEMMA SessionParser ==
  ASSUME NEW s, HttpSession(s), NEW p, NEW t, t = [s EXCEPT !.parser = p]
  PROVE  HttpSession(t) /\ t.parser = p /\ t.upgrade = s.upgrade
BY DEF HttpSession

ExpectedRecord(e) == e = [said |-> e.said, heard |-> e.heard, state |-> e.state]

LEMMA PageHandle == ASSUME PageInv, protocol \in Pages, HandleHttp PROVE PageInv'
<1>1. HttpTypes /\ HttpSession(session) /\ (PageWaits \/ PageAnswered)
  BY DEF PageInv
<1> DEFINE q == request
           s == session
           b == read_buffer_
           w == wire
           d == Decode(session.parser, read_buffer_)
           r == Parse(session, read_buffer_)
<1>2. /\ session' = r.session /\ read_buffer_' = r.rest
      /\ said' = said \o r.said /\ heard' = heard \o r.heard
      /\ state' = After(r.ret) /\ handling' = (r.ret = kSuccess) /\ handling
      /\ protocol' = protocol /\ request' = request /\ wire' = wire
  BY DEF HandleHttp
<1>3. \/ protocol = "flv" /\ r = FlvAnswer(s, d)
      \/ protocol = "file" /\ r = FileAnswer(s, d)
  <2>1. protocol = "flv" => r = FlvAnswer(s, d)
    BY DEF Parse, FlvParse
  <2>2. protocol = "file" => r = FileAnswer(s, d)
    BY DEF Parse, FileParse
  <2> QED
    BY <2>1, <2>2 DEF Pages
<1>4. IsRequest(protocol, q) /\ w \in Seq(Alphabet) /\ b \in Seq(Alphabet) /\ state = "open"
  BY <1>1, <1>2 DEF HttpTypes
<1>5. IsHttp(q) /\ TailOf(q) = <<>> /\ <<>> \in Seq(Alphabet) /\ TailOf(q) \in Seq(Alphabet)
  <2>1. IsHttp(q) /\ TailOf(q) = <<>>
    BY <1>4, RequestIsHttp DEF Pages
  <2>2. <<>> \in Seq(Alphabet)
    OBVIOUS
  <2> QED
    BY <2>1, <2>2
<1>6. d = Decode(s.parser, b)
  OBVIOUS
<1>7. HttpSession(s)
  BY <1>1
<1>8. said \o <<>> = said /\ heard \o <<>> = heard
  <2>1. AtMostOne(said) /\ AtMostOne(heard)
    BY <1>1 DEF PageWaits, PageAnswered, AtMostOne
  <2> QED
    BY <2>1, ConcatNone
<1> HIDE DEF q, s, b, w, d, r
<1>9. CASE PageWaits
  <2>1. Pending(q, s.parser, b, w) /\ said = <<>> /\ heard = <<>>
    BY <1>9 DEF PageWaits, q, s, b, w
  <2>2. PartDecoded(q, d, w) \/ WholeDecoded(q, d, w)
    BY <1>4, <1>5, <1>6, <2>1, DecodeOf
  <2>3. CASE PartDecoded(q, d, w)
    <3>1. d.ret = kNoEnoughData /\ d.rest = <<>> /\ Pending(q, d.parser, <<>>, w)
      BY <2>3 DEF PartDecoded
    <3>2. IsResult(r, [s EXCEPT !.parser = d.parser], kNoEnoughData, d.rest, <<>>, <<>>)
      BY <1>3, <3>1, NoAnswer
    <3>3. HttpSession(r.session) /\ r.session.parser = d.parser
      BY <1>7, <3>2, SessionParser DEF IsResult
    <3>4. /\ read_buffer_' = <<>> /\ said' = <<>> /\ heard' = <<>> /\ state' = "open"
          /\ handling' = FALSE
      BY <1>2, <1>8, <2>1, <3>1, <3>2, AfterIs DEF IsResult
    <3>5. Pending(request', session'.parser, read_buffer_', wire')
      BY <1>2, <3>1, <3>3, <3>4 DEF q, w
    <3>6. PageWaits'
      BY <3>4, <3>5 DEF PageWaits
    <3>7. HttpTypes' /\ HttpSession(session)'
      BY <1>2, <1>4, <1>5, <3>3, <3>4 DEF HttpTypes, HttpSession, q, w
    <3> QED
      BY <3>6, <3>7 DEF PageInv
  <2>4. CASE WholeDecoded(q, d, w)
    <3>1. PageAnswers(q, r, d, s)
      BY <1>3, <1>5, <2>4, PageAnswerIs
    <3>2. d.rest = <<>> /\ w = <<>>
      <4>1. d.rest \in Seq(Alphabet) /\ d.rest \o w = <<>>
        BY <1>5, <2>4 DEF WholeDecoded, Rests
      <4>2. Len(d.rest \o w) = Len(d.rest) + Len(w) /\ Len(d.rest) \in Nat /\ Len(w) \in Nat
        BY <1>4, <4>1, ConcatProperties, LenProperties
      <4>3. Len(d.rest \o w) = 0
        BY <4>1
      <4>4. Len(d.rest) = 0 /\ Len(w) = 0
        BY <4>2, <4>3
      <4> QED
        BY <1>4, <4>1, <4>4, EmptySeq
    <3>3. HttpSession(r.session) /\ r.session.parser = d.parser
      BY <1>7, <3>1, SessionParser DEF PageAnswers
    <3>4. IsParser(d.parser) /\ d.parser.ret = kNoEnoughData
      BY <2>4 DEF WholeDecoded
    <3>5. said' = r.said /\ heard' = r.heard
      BY <1>2, <2>1, <3>1, ConcatNone DEF PageAnswers
    <3>6. Got' = [said |-> r.said, heard |-> r.heard, state |-> After(r.ret)]
      BY <1>2, <3>5 DEF Got
    <3> DEFINE e == PageExpected(q)
    <3>7. ExpectedRecord(e)
      BY DEF PageExpected, FlvExpected, FileExpected, Served, Silence, ExpectedRecord
    <3>8. r.said = e.said /\ r.heard = e.heard /\ After(r.ret) = e.state
      BY <3>1 DEF PageAnswers, Gives
    <3>9. PageExpected(request)' = e
      BY <1>2 DEF PageExpected, q, FlvExpected, FileExpected
    <3> HIDE DEF e
    <3>10. Got' = e
      BY <3>6, <3>7, <3>8 DEF ExpectedRecord
    <3>11. read_buffer_' = <<>> /\ wire' = <<>>
      BY <1>2, <3>1, <3>2 DEF PageAnswers, w
    <3>12. PageAnswered'
      BY <1>2, <3>1, <3>3, <3>4, <3>5, <3>9, <3>10, <3>11 DEF PageAnswered, PageAnswers
    <3>13. HttpTypes' /\ HttpSession(session)'
      <4>1. handling' => state' = "open"
        BY <1>2, AfterIs
      <4>2. handling' \in BOOLEAN
        BY <1>2
      <4>3. IsRequest(protocol', request')
        BY <1>2, <1>4 DEF q
      <4> QED
        BY <1>2, <1>5, <3>3, <3>11, <4>1, <4>2, <4>3 DEF HttpTypes, HttpSession
    <3> QED
      BY <3>12, <3>13 DEF PageInv
  <2> QED
    BY <2>2, <2>3, <2>4
<1>10. CASE PageAnswered
  <2>1. b = <<>> /\ w = <<>> /\ IsParser(s.parser) /\ s.parser.ret = kNoEnoughData
    BY <1>10 DEF PageAnswered, b, s, w
  <2>2. d.ret = kNoEnoughData /\ d.parser = s.parser /\ d.rest = <<>>
    BY <1>6, <2>1, DecodeNothing
  <2>3. IsResult(r, [s EXCEPT !.parser = d.parser], kNoEnoughData, d.rest, <<>>, <<>>)
    BY <1>3, <2>2, NoAnswer
  <2>4. HttpSession(r.session) /\ r.session.parser = s.parser
    BY <1>7, <2>2, <2>3, SessionParser DEF IsResult
  <2>5. /\ read_buffer_' = <<>> /\ said' = said /\ heard' = heard /\ state' = "open"
        /\ handling' = FALSE
    BY <1>2, <1>8, <2>2, <2>3, AfterIs DEF IsResult
  <2>6. Got' = Got /\ PageExpected(request)' = PageExpected(request)
    BY <1>2, <1>4, <2>5 DEF Got, PageExpected, FlvExpected, FileExpected
  <2>7. PageAnswered'
    BY <1>2, <1>10, <2>1, <2>4, <2>5, <2>6 DEF PageAnswered, w
  <2>8. HttpTypes' /\ HttpSession(session)'
    BY <1>2, <1>4, <1>5, <2>1, <2>4, <2>5 DEF HttpTypes, HttpSession, q, w
  <2> QED
    BY <2>7, <2>8 DEF PageInv
<1> QED
  BY <1>1, <1>9, <1>10

LEMMA PageStays ==
  ASSUME PageInv, protocol \in Pages, GoOn \/ HandleRtmp \/ Send \/ UNCHANGED vars
  PROVE  PageInv'
<1>1. /\ protocol' = protocol /\ request' = request /\ wire' = wire /\ read_buffer_' = read_buffer_
      /\ handling' = handling /\ session' = session /\ said' = said /\ heard' = heard
      /\ state' = state
  BY DEF GoOn, HandleRtmp, Send, vars, Pages
<1>2. HttpTypes' = HttpTypes /\ HttpSession(session)' = HttpSession(session)
  BY <1>1 DEF HttpTypes, HttpSession
<1>3. PageWaits' = PageWaits /\ PageExpected(request)' = PageExpected(request) /\ Got' = Got
  BY <1>1 DEF PageWaits, PageExpected, FlvExpected, FileExpected, Got
<1>4. PageAnswered' = PageAnswered
  BY <1>1, <1>3 DEF PageAnswered
<1> QED
  BY <1>1, <1>2, <1>3, <1>4 DEF PageInv

LEMMA PageNow ==
  ASSUME PageInv, protocol \in Pages
  PROVE  AnsweredAsAsked
<1> SUFFICES ASSUME wire = <<>>, ~handling PROVE Got = Expected
  BY DEF AnsweredAsAsked, Pages
<1>1. HttpTypes /\ HttpSession(session) /\ (PageWaits \/ PageAnswered)
  BY DEF PageInv
<1>2. CASE PageAnswered
  BY <1>2 DEF PageAnswered, PageExpected, Expected, Pages
<1>3. CASE PageWaits
  <2>1. Pending(request, session.parser, <<>>, <<>>)
    BY <1>3 DEF PageWaits
  <2>2. IsHttp(request) /\ TailOf(request) \in Seq(Alphabet)
    <3>1. IsRequest(protocol, request) /\ protocol # "websocket"
      BY <1>1 DEF HttpTypes, Pages
    <3>2. IsHttp(request) /\ TailOf(request) = <<>>
      BY <3>1, RequestIsHttp
    <3>3. <<>> \in Seq(Alphabet)
      OBVIOUS
    <3> QED
      BY <3>2, <3>3
  <2> QED
    BY <2>1, <2>2, PendingMore
<1> QED
  BY <1>1, <1>2, <1>3

-----------------------------------------------------------------------------
(* The frames of a WebSocket.                                              *)

Byte == 0 .. 255
FrameSet == [message : Seq(Byte), mask : {<<>>} \cup [1 .. 4 -> Byte]]

Cat(S, a, b, u) ==
  /\ u \in Seq(S) /\ Len(u) = Len(a) + Len(b) /\ Len(a) \in Nat /\ Len(b) \in Nat
  /\ \A i \in 1 .. Len(a) : u[i] = a[i]
  /\ \A i \in 1 .. Len(b) : u[Len(a) + i] = b[i]

LEMMA CatIs ==
  ASSUME NEW S, NEW a \in Seq(S), NEW b \in Seq(S), NEW u, Plus(a, b, u)
  PROVE  Cat(S, a, b, u)
<1>0. u = a \o b
  BY DEF Plus
<1>1. /\ u \in Seq(S) /\ Len(u) = Len(a) + Len(b)
      /\ \A i \in 1 .. Len(a) + Len(b) : u[i] = IF i <= Len(a) THEN a[i] ELSE b[i - Len(a)]
  BY <1>0, ConcatProperties
<1>2. Len(a) \in Nat /\ Len(b) \in Nat
  BY LenProperties
<1>3. \A i \in 1 .. Len(a) : i \in 1 .. Len(a) + Len(b) /\ i <= Len(a)
  BY <1>2
<1>4. \A i \in 1 .. Len(b) : Len(a) + i \in 1 .. Len(a) + Len(b) /\ ~(Len(a) + i <= Len(a))
                             /\ (Len(a) + i) - Len(a) = i
  BY <1>2
<1>5. \A i \in 1 .. Len(a) : u[i] = a[i]
  BY <1>1, <1>3
<1>6. \A i \in 1 .. Len(b) : u[Len(a) + i] = b[i]
  BY <1>1, <1>4
<1> QED
  BY <1>1, <1>2, <1>5, <1>6 DEF Cat

\* What stands where in the bytes of a frame.
PeekOf(f) == IF Len(f.message) < 126 THEN 0 ELSE 2
MaskLen(f) == IF f.mask = <<>> THEN 0 ELSE 4
Start(f) == 2 + PeekOf(f)

LengthForm(len, bit, F) ==
  /\ F[2] = bit + (IF len < 126 THEN len ELSE 126)
  /\ len >= 126 => F[3] = len \div 256 /\ F[4] = len % 256

MaskForm(mask, start, F) == mask # <<>> => \A i \in 1 .. 4 : F[start + i] = mask[i]

BodyForm(mask, message, start, F) ==
  \A i \in 1 .. Len(message) :
    F[start + i] = IF mask = <<>> THEN message[i] ELSE XorOf(message[i], mask[((i - 1) % 4) + 1])

MaskBit(mask) == IF mask = <<>> THEN 0 ELSE 128
IsShort(message) == Len(message) < 65536

FrameForm(f, F) ==
  /\ F \in Seq(Byte) /\ Len(F) = Start(f) + MaskLen(f) + Len(f.message)
  /\ LengthForm(Len(f.message), MaskBit(f.mask), F)
  /\ MaskForm(f.mask, Start(f), F)
  /\ BodyForm(f.mask, f.message, Start(f) + MaskLen(f), F)

LEMMA BigEndianTwo ==
  ASSUME NEW b, Len(b) = 2, b[1] \in Byte, b[2] \in Byte
  PROVE  BigEndian(b) = b[1] * 256 + b[2]
<1> DEFINE IsValue(f) == f = [k \in 0 .. Len(b) |-> IF k = 0 THEN 0 ELSE f[k - 1] * 256 + b[k]]
           v == CHOOSE f : IsValue(f)
           g == [k \in 0 .. Len(b) |-> IF k = 0 THEN 0 ELSE IF k = 1 THEN b[1] ELSE b[1] * 256 + b[2]]
<1>1. b[1] \in Int /\ b[2] \in Int
  BY DEF Byte
<1>2. IsValue(g)
  <2>1. g[0] = 0 /\ g[1] = b[1] /\ g[2] = b[1] * 256 + b[2]
    OBVIOUS
  <2>2. \A k \in 0 .. Len(b) : k = 0 \/ k = 1 \/ k = 2
    OBVIOUS
  <2>3. \A k \in 0 .. Len(b) : g[k] = IF k = 0 THEN 0 ELSE g[k - 1] * 256 + b[k]
    BY <1>1, <2>1, <2>2
  <2>4. g = [k \in 0 .. Len(b) |-> g[k]]
    OBVIOUS
  <2> HIDE DEF g
  <2> QED
    BY <2>3, <2>4
<1>3. IsValue(v)
  <2>1. \E f : IsValue(f)
    BY <1>2
  <2> HIDE DEF IsValue
  <2> QED
    BY <2>1
<1>4. BigEndian(b) = v[Len(b)]
  BY DEF BigEndian
<1> HIDE DEF v
<1>5. \A k \in 0 .. 2 : v[k] = IF k = 0 THEN 0 ELSE v[k - 1] * 256 + b[k]
  BY <1>3
<1>6. v[0] = 0
  BY <1>5
<1>7. v[1] = v[0] * 256 + b[1]
  BY <1>5
<1>8. v[1] = b[1]
  BY <1>1, <1>6, <1>7
<1>9. v[2] = v[1] * 256 + b[2]
  BY <1>5
<1> QED
  BY <1>4, <1>8, <1>9

LEMMA UnmaskIs ==
  ASSUME NEW mask \in [1 .. 4 -> Byte], NEW data \in Seq(Byte), NEW u, u = Unmask(mask, data)
  PROVE  /\ u \in Seq(Byte) /\ Len(u) = Len(data) /\ Len(data) \in Nat
         /\ \A i \in 1 .. Len(data) : u[i] = XorOf(data[i], mask[((i - 1) % 4) + 1])
         /\ \A i \in 1 .. Len(data) : ((i - 1) % 4) + 1 \in 1 .. 4
<1>1. Len(data) \in Nat /\ DOMAIN data = 1 .. Len(data) /\ \A i \in 1 .. Len(data) : data[i] \in Byte
  BY LenProperties
<1>2. \A i \in 1 .. Len(data) : ((i - 1) % 4) + 1 \in 1 .. 4
  OBVIOUS
<1>3. \A i \in 1 .. Len(data) : XorOf(data[i], mask[((i - 1) % 4) + 1]) \in Byte
  <2> SUFFICES ASSUME NEW i \in 1 .. Len(data) PROVE XorOf(data[i], mask[((i - 1) % 4) + 1]) \in Byte
    OBVIOUS
  <2> DEFINE x == data[i]
             y == mask[((i - 1) % 4) + 1]
  <2>1. x \in Byte /\ y \in Byte
    BY <1>1, <1>2, SMTT(60)
  <2> HIDE DEF x, y
  <2>2. XorOf(x, y) \in Byte
    BY <2>1, XorAssumption DEF Byte
  <2> QED
    BY <2>2 DEF x, y
<1> DEFINE e(i) == XorOf(data[i], mask[((i - 1) % 4) + 1])
<1>4. u = [i \in 1 .. Len(data) |-> e(i)]
  BY <1>1 DEF Unmask
<1>5. \A i \in 1 .. Len(data) : e(i) \in Byte
  BY <1>3
<1> HIDE DEF e
<1>6. u \in [1 .. Len(data) -> Byte]
  BY <1>4, <1>5
<1>7. u \in Seq(Byte) /\ Len(u) = Len(data)
  BY <1>1, <1>6
<1>8. \A i \in 1 .. Len(data) : u[i] = e(i)
  BY <1>4
<1> QED
  BY <1>1, <1>2, <1>7, <1>8 DEF e

\* Masking is its own inverse.
LEMMA UnmaskTwice ==
  ASSUME NEW mask \in [1 .. 4 -> Byte], NEW data \in Seq(Byte), NEW u, u = Unmask(mask, data)
  PROVE  Unmask(mask, u) = data
<1> DEFINE v == Unmask(mask, u)
           k(i) == ((i - 1) % 4) + 1
<1>1. /\ u \in Seq(Byte) /\ Len(u) = Len(data) /\ Len(data) \in Nat
      /\ \A i \in 1 .. Len(data) : u[i] = XorOf(data[i], mask[k(i)]) /\ k(i) \in 1 .. 4
  BY UnmaskIs
<1>2. v = Unmask(mask, u)
  OBVIOUS
<1> HIDE DEF v
<1>3. /\ v \in Seq(Byte) /\ Len(v) = Len(u)
      /\ \A i \in 1 .. Len(u) : v[i] = XorOf(u[i], mask[k(i)])
  BY <1>1, <1>2, UnmaskIs
<1>4. \A i \in 1 .. Len(data) : v[i] = data[i]
  <2> SUFFICES ASSUME NEW i \in 1 .. Len(data) PROVE v[i] = data[i]
    OBVIOUS
  <2> DEFINE x == data[i]
             y == mask[k(i)]
  <2>1. u[i] = XorOf(x, y) /\ v[i] = XorOf(u[i], y) /\ k(i) \in 1 .. 4
    BY <1>1, <1>3
  <2>2. x \in Byte /\ y \in Byte
    BY <2>1, SMTT(60)
  <2> HIDE DEF x, y
  <2>3. XorOf(XorOf(x, y), y) = x
    BY <2>2, XorAssumption DEF Byte
  <2> QED
    BY <2>1, <2>3 DEF x
<1> HIDE DEF k
<1> QED
  BY <1>1, <1>3, <1>4, SeqEqual DEF v

LEMMA FrameIsForm ==
  ASSUME NEW f \in FrameSet, IsShort(f.message), NEW F, F = FrameBytes(f)
  PROVE  FrameForm(f, F)
<1> DEFINE len == Len(f.message)
           message == f.message
           mask == f.mask
           bit == MaskBit(mask)
           one == <<129>>
           lb == FrameLength(bit, len)
           a == one \o lb
           b == a \o mask
           body == IF mask = <<>> THEN message ELSE Unmask(mask, message)
<1>1. message \in Seq(Byte) /\ len \in Nat /\ mask \in {<<>>} \cup [1 .. 4 -> Byte] /\ len < 65536
  BY LenProperties DEF FrameSet, IsShort
<1>2. one \in Seq(Byte) /\ Len(one) = 1 /\ one[1] = 129
  BY DEF Byte
<1>3. /\ lb \in Seq(Byte) /\ Len(lb) = 1 + PeekOf(f)
      /\ lb[1] = bit + (IF len < 126 THEN len ELSE 126)
      /\ len >= 126 => lb[2] = len \div 256 /\ lb[3] = len % 256
  <2>1. bit \in Nat /\ bit <= 128
    BY DEF MaskBit
  <2> HIDE DEF bit, len
  <2>2. CASE len < 126
    <3>1. lb = <<bit + len>>
      BY <2>2 DEF FrameLength
    <3>2. PeekOf(f) = 0
      BY <2>2 DEF PeekOf, len
    <3>3. bit + len \in Byte
      BY <1>1, <2>1, <2>2 DEF Byte
    <3> DEFINE x == bit + len
    <3>4. ~(len >= 126)
      BY <1>1, <2>2
    <3>5. lb = <<x>> /\ x \in Byte
      BY <3>1, <3>3
    <3> HIDE DEF lb, x
    <3>6. lb \in Seq(Byte) /\ Len(lb) = 1 /\ lb[1] = x
      BY <3>5
    <3> QED
      BY <2>2, <3>2, <3>4, <3>6 DEF x
  <2>3. CASE ~(len < 126)
    <3> DEFINE x == bit + 126
               y == len \div 256
               z == len % 256
    <3>1. lb = <<x, y, z>>
      BY <2>3 DEF FrameLength
    <3>2. PeekOf(f) = 2
      BY <2>3 DEF PeekOf, len
    <3>3. x \in Byte /\ y \in Byte /\ z \in Byte
      BY <1>1, <2>1 DEF Byte
    <3> HIDE DEF lb, x, y, z
    <3>4. lb \in Seq(Byte) /\ Len(lb) = 3 /\ lb[1] = x /\ lb[2] = y /\ lb[3] = z
      BY <3>1, <3>3
    <3> QED
      BY <2>3, <3>2, <3>4 DEF x, y, z
  <2> QED
    BY <2>2, <2>3
<1>4. body \in Seq(Byte) /\ Len(body) = len
      /\ \A i \in 1 .. len : body[i] = IF mask = <<>> THEN message[i] ELSE XorOf(message[i], mask[((i - 1) % 4) + 1])
  <2>1. CASE mask = <<>>
    BY <1>1, <2>1
  <2>2. CASE mask # <<>>
    <3>1. mask \in [1 .. 4 -> Byte]
      BY <1>1, <2>2
    <3>2. body = Unmask(mask, message)
      BY <2>2
    <3> HIDE DEF body, mask, message
    <3>3. body \in Seq(Byte) /\ Len(body) = Len(message)
          /\ \A i \in 1 .. Len(message) : body[i] = XorOf(message[i], mask[((i - 1) % 4) + 1])
      BY <1>1, <3>1, <3>2, UnmaskIs
    <3> QED
      BY <2>2, <3>3 DEF message
  <2> QED
    BY <2>1, <2>2
<1>5. mask \in Seq(Byte) /\ Len(mask) = MaskLen(f)
  <2>1. CASE mask = <<>>
    <3>1. <<>> \in Seq(Byte) /\ Len(<<>>) = 0
      OBVIOUS
    <3> QED
      BY <2>1, <3>1 DEF MaskLen
  <2>2. CASE mask # <<>>
    <3>1. mask \in [1 .. 4 -> Byte] /\ MaskLen(f) = 4
      BY <1>1, <2>2 DEF MaskLen
    <3> DEFINE n == 4
    <3>2. mask \in [1 .. n -> Byte] /\ n \in Nat
      BY <3>1
    <3> HIDE DEF mask, n
    <3>3. mask \in Seq(Byte) /\ Len(mask) = n
      BY <3>2
    <3> QED
      BY <3>1, <3>3 DEF n
  <2> QED
    BY <2>1, <2>2
<1>6. Plus(b, body, F)
  <2> DEFINE x == <<129>> \o FrameLength(0, Len(f.message)) \o f.message
             y == <<129>> \o FrameLength(128, Len(f.message)) \o f.mask \o Unmask(f.mask, f.message)
  <2>0. F = IF f.mask = <<>> THEN x ELSE y
    BY DEF FrameBytes
  <2>1. CASE mask = <<>>
    <3>1. F = a \o message
      <4>1. x = a \o message
        <5> DEFINE k == 0
        <5>1. k = bit
          BY <2>1 DEF MaskBit
        <5>2. x = <<129>> \o FrameLength(k, Len(f.message)) \o f.message
          OBVIOUS
        <5> HIDE DEF k, bit, x
        <5> QED
          BY <5>1, <5>2
      <4> HIDE DEF x, y, a
      <4> QED
        BY <2>0, <2>1, <4>1
    <3>2. a \in Seq(Byte)
      <4> HIDE DEF one, lb
      <4> QED
        BY <1>2, <1>3, ConcatProperties
    <3> HIDE DEF a
    <3>3. b = a
      BY <2>1, <3>2
    <3> HIDE DEF b
    <3> QED
      BY <2>1, <3>1, <3>3 DEF Plus
  <2>2. CASE mask # <<>>
    <3>1. F = y
      <4> HIDE DEF x, y
      <4> QED
        BY <2>0, <2>2
    <3>2. bit = 128
      BY <2>2 DEF MaskBit
    <3>3. body = Unmask(f.mask, f.message)
      BY <2>2
    <3>4. y = b \o Unmask(f.mask, f.message)
      <4> DEFINE k == 128
      <4>1. k = bit
        BY <3>2
      <4>2. y = <<129>> \o FrameLength(k, Len(f.message)) \o f.mask \o Unmask(f.mask, f.message)
        OBVIOUS
      <4> HIDE DEF k, bit, y
      <4> QED
        BY <4>1, <4>2
    <3> HIDE DEF y, b, body
    <3> QED
      BY <3>1, <3>3, <3>4 DEF Plus
  <2> QED
    BY <2>1, <2>2
<1>16. Plus(one, lb, a) /\ Plus(a, mask, b)
  BY DEF Plus
<1> HIDE DEF one, lb, body, mask, message, len, bit
<1>7. Cat(Byte, one, lb, a)
  <2>1. one \in Seq(Byte) /\ lb \in Seq(Byte) /\ Plus(one, lb, a)
    BY <1>2, <1>3, <1>16
  <2> QED
    BY <2>1, CatIs
<1> HIDE DEF a
<1>8. Cat(Byte, a, mask, b)
  <2>1. a \in Seq(Byte) /\ mask \in Seq(Byte) /\ Plus(a, mask, b)
    BY <1>5, <1>7, <1>16 DEF Cat
  <2> QED
    BY <2>1, CatIs
<1> HIDE DEF b
<1>9. Cat(Byte, b, body, F)
  <2>1. b \in Seq(Byte) /\ body \in Seq(Byte) /\ Plus(b, body, F)
    BY <1>4, <1>6, <1>8 DEF Cat
  <2> QED
    BY <2>1, CatIs
<1>10. PeekOf(f) \in {0, 2} /\ MaskLen(f) \in {0, 4} /\ Start(f) = 2 + PeekOf(f)
       /\ (len < 126 => PeekOf(f) = 0) /\ (len >= 126 => PeekOf(f) = 2)
  BY <1>1 DEF PeekOf, MaskLen, Start, len
<1>11. Len(a) = Start(f) /\ a[2] = lb[1] /\ (len >= 126 => a[3] = lb[2] /\ a[4] = lb[3])
  <2>1. Len(a) = 1 + (1 + PeekOf(f))
    BY <1>2, <1>3, <1>7 DEF Cat
  <2>2. \A i \in 1 .. 1 + PeekOf(f) : a[1 + i] = lb[i]
    BY <1>2, <1>3, <1>7 DEF Cat
  <2>3. 1 \in 1 .. 1 + PeekOf(f) /\ 1 + 1 = 2
    BY <1>10
  <2>4. len >= 126 => 2 \in 1 .. 1 + PeekOf(f) /\ 3 \in 1 .. 1 + PeekOf(f) /\ 1 + 2 = 3 /\ 1 + 3 = 4
    BY <1>10
  <2>5. a[2] = lb[1]
    BY <2>2, <2>3
  <2>6. ASSUME len >= 126 PROVE a[3] = lb[2] /\ a[4] = lb[3]
    BY <2>2, <2>4, <2>6
  <2> QED
    BY <1>10, <2>1, <2>5, <2>6
<1>12. /\ Len(b) = Start(f) + MaskLen(f) /\ b[2] = lb[1] /\ (len >= 126 => b[3] = lb[2] /\ b[4] = lb[3])
       /\ \A i \in 1 .. MaskLen(f) : b[Start(f) + i] = mask[i]
  <2>1. 2 \in 1 .. Start(f) /\ (len >= 126 => 3 \in 1 .. Start(f) /\ 4 \in 1 .. Start(f))
    BY <1>10
  <2>2. \A i \in 1 .. Start(f) : b[i] = a[i]
    BY <1>8, <1>11 DEF Cat
  <2>3. \A i \in 1 .. MaskLen(f) : b[Start(f) + i] = mask[i]
    BY <1>5, <1>8, <1>11 DEF Cat
  <2>4. Len(b) = Start(f) + MaskLen(f)
    BY <1>5, <1>8, <1>11 DEF Cat
  <2>5. b[2] = a[2] /\ (len >= 126 => b[3] = a[3] /\ b[4] = a[4])
    BY <2>1, <2>2
  <2> QED
    BY <1>11, <2>3, <2>4, <2>5
<1>13. /\ F \in Seq(Byte) /\ Len(F) = Start(f) + MaskLen(f) + len
       /\ F[2] = lb[1] /\ (len >= 126 => F[3] = lb[2] /\ F[4] = lb[3])
       /\ \A i \in 1 .. MaskLen(f) : F[Start(f) + i] = mask[i]
       /\ \A i \in 1 .. len : F[Start(f) + MaskLen(f) + i] = body[i]
  <2>1. 2 \in 1 .. Start(f) + MaskLen(f)
        /\ (len >= 126 => 3 \in 1 .. Start(f) + MaskLen(f) /\ 4 \in 1 .. Start(f) + MaskLen(f))
        /\ \A i \in 1 .. MaskLen(f) : Start(f) + i \in 1 .. Start(f) + MaskLen(f)
    BY <1>10
  <2>2. \A i \in 1 .. Start(f) + MaskLen(f) : F[i] = b[i]
    BY <1>9, <1>12 DEF Cat
  <2>3. F \in Seq(Byte) /\ Len(F) = Start(f) + MaskLen(f) + len
        /\ \A i \in 1 .. len : F[Start(f) + MaskLen(f) + i] = body[i]
    BY <1>4, <1>9, <1>12 DEF Cat
  <2>4. F[2] = b[2] /\ (len >= 126 => F[3] = b[3] /\ F[4] = b[4])
        /\ \A i \in 1 .. MaskLen(f) : F[Start(f) + i] = b[Start(f) + i]
    BY <2>1, <2>2
  <2> QED
    BY <1>12, <2>3, <2>4
<1>14. mask # <<>> => MaskLen(f) = 4
  BY DEF MaskLen, mask
<1>15. len = Len(f.message) /\ message = f.message /\ mask = f.mask
  BY DEF len, message, mask
<1>17. F \in Seq(Byte) /\ Len(F) = Start(f) + MaskLen(f) + Len(f.message)
  BY <1>13, <1>15
<1>18. LengthForm(len, bit, F)
  BY <1>3, <1>13 DEF LengthForm
<1>19. MaskForm(mask, Start(f), F)
  BY <1>13, <1>14 DEF MaskForm
<1>20. BodyForm(mask, message, Start(f) + MaskLen(f), F)
  BY <1>4, <1>13, <1>15 DEF BodyForm
<1> QED
  BY <1>17, <1>18, <1>19, <1>20 DEF FrameForm, len, bit, mask, message

Agree(F, b) ==
  b \in Seq(Alphabet) /\ \A i \in 1 .. Len(F) : i <= Len(b) => b[i] = F[i]

HeaderRead(f, b) ==
  /\ Len(b) >= 2 => (Masked(b) <=> f.mask # <<>>) /\ PeekLen(b) = PeekOf(f)
  /\ Len(b) >= Start(f) => ExtendedLength(b) = Len(f.message)

LEMMA FrameNumbers ==
  ASSUME NEW f \in FrameSet
  PROVE  /\ Len(f.message) \in Nat /\ PeekOf(f) \in {0, 2} /\ MaskLen(f) \in {0, 4}
         /\ Start(f) = 2 + PeekOf(f)
         /\ (Len(f.message) < 126 => PeekOf(f) = 0) /\ (Len(f.message) >= 126 => PeekOf(f) = 2)
         /\ f.message \in Seq(Byte) /\ f.mask \in {<<>>} \cup [1 .. 4 -> Byte]
         /\ (f.mask = <<>> <=> MaskLen(f) = 0)
<1>1. f.message \in Seq(Byte) /\ f.mask \in {<<>>} \cup [1 .. 4 -> Byte]
  BY DEF FrameSet
<1>2. Len(f.message) \in Nat
  BY <1>1, LenProperties
<1>3. (Len(f.message) < 126 => PeekOf(f) = 0) /\ (Len(f.message) >= 126 => PeekOf(f) = 2)
      /\ PeekOf(f) \in {0, 2}
  BY <1>2 DEF PeekOf
<1>4. Start(f) = 2 + PeekOf(f) /\ MaskLen(f) \in {0, 4} /\ (f.mask = <<>> <=> MaskLen(f) = 0)
  BY DEF Start, MaskLen
<1> QED
  BY <1>1, <1>2, <1>3, <1>4

LEMMA HeaderIsRead ==
  ASSUME NEW f \in FrameSet, IsShort(f.message), NEW F, FrameForm(f, F), NEW b, Agree(F, b)
  PROVE  HeaderRead(f, b)
<1> DEFINE len == Len(f.message)
           bit == MaskBit(f.mask)
           l == IF len < 126 THEN len ELSE 126
<1>1. /\ len \in Nat /\ PeekOf(f) \in {0, 2} /\ MaskLen(f) \in {0, 4} /\ Start(f) = 2 + PeekOf(f)
      /\ (len < 126 => PeekOf(f) = 0) /\ (len >= 126 => PeekOf(f) = 2)
  BY FrameNumbers
<1>2. /\ Len(F) = Start(f) + MaskLen(f) + len /\ F[2] = bit + l
      /\ len >= 126 => F[3] = len \div 256 /\ F[4] = len % 256
  BY DEF FrameForm, LengthForm
<1>3. len < 65536
  BY DEF IsShort
<1>4. (bit = 0 \/ bit = 128) /\ (bit = 0 <=> f.mask = <<>>)
  BY DEF MaskBit
<1>5. l \in 0 .. 126 /\ (l = 126 <=> len >= 126) /\ (len < 126 => l = len)
  <2>1. ASSUME NEW n \in Nat, NEW m, m = IF n < 126 THEN n ELSE 126
        PROVE  m \in 0 .. 126 /\ (m = 126 <=> n >= 126) /\ (n < 126 => m = n)
    BY <2>1
  <2> HIDE DEF len
  <2> QED
    BY <1>1, <2>1
<1>6. b \in Seq(Alphabet) /\ Len(b) \in Nat /\ \A i \in 1 .. Len(F) : i <= Len(b) => b[i] = F[i]
  BY LenProperties DEF Agree
<1>7. 2 \in 1 .. Len(F)
  <2> HIDE DEF len
  <2> QED
    BY <1>1, <1>2
<1> HIDE DEF len, bit, l
<1>8. ASSUME Len(b) >= 2
      PROVE  PayloadLen(b) = l /\ (Masked(b) <=> f.mask # <<>>) /\ PeekLen(b) = PeekOf(f)
  <2>1. b[2] = bit + l
    BY <1>2, <1>6, <1>7, <1>8
  <2>2. ASSUME NEW x, NEW y \in 0 .. 126, x = y \/ x = 128 + y
        PROVE  x % 128 = y /\ (x >= 128 <=> x # y)
    BY <2>2
  <2>3. b[2] % 128 = l /\ (b[2] >= 128 <=> bit # 0)
    <3>1. b[2] = l \/ b[2] = 128 + l
      BY <1>4, <1>5, <2>1
    <3>2. b[2] % 128 = l /\ (b[2] >= 128 <=> b[2] # l)
      BY <1>5, <2>2, <3>1
    <3>3. b[2] # l <=> bit # 0
      BY <1>4, <1>5, <2>1
    <3> QED
      BY <3>2, <3>3
  <2>4. PayloadLen(b) = l /\ (Masked(b) <=> f.mask # <<>>)
    BY <1>4, <2>3 DEF PayloadLen, Masked
  <2>5. l # 127
    BY <1>5
  <2>6. PeekLen(b) = IF l = 126 THEN 2 ELSE 0
    BY <2>4, <2>5 DEF PeekLen
  <2>7. PeekOf(f) = IF l = 126 THEN 2 ELSE 0
    BY <1>1, <1>5
  <2> QED
    BY <2>4, <2>6, <2>7
<1>9. ASSUME Len(b) >= Start(f) PROVE ExtendedLength(b) = len
  <2>1. Len(b) >= 2
    BY <1>1, <1>6, <1>9
  <2>2. PayloadLen(b) = l /\ PeekLen(b) = PeekOf(f)
    BY <1>8, <2>1
  <2>3. CASE len < 126
    BY <1>1, <1>5, <2>2, <2>3 DEF ExtendedLength
  <2>4. CASE len >= 126
    <3> DEFINE c == SubSeq(b, 3, 4)
    <3>1. PeekLen(b) = 2 /\ Start(f) = 4
      BY <1>1, <2>2, <2>4
    <3>2. Len(c) = 2 /\ c[1] = b[3] /\ c[2] = b[4]
      <4>1. 3 \in 1 .. Len(b) + 1 /\ 4 \in 3 - 1 .. Len(b)
        BY <1>6, <1>9, <3>1
      <4>2. Len(c) = 4 - 3 + 1 /\ \A i \in 1 .. 4 - 3 + 1 : c[i] = b[3 + i - 1]
        BY <1>6, <4>1, SubSeqProperties
      <4> HIDE DEF c
      <4>3. 1 \in 1 .. 4 - 3 + 1 /\ 2 \in 1 .. 4 - 3 + 1 /\ 3 + 1 - 1 = 3 /\ 3 + 2 - 1 = 4 /\ 4 - 3 + 1 = 2
        OBVIOUS
      <4> QED
        BY <4>2, <4>3
    <3>3. b[3] = len \div 256 /\ b[4] = len % 256
      <4>1. 3 \in 1 .. Len(F) /\ 4 \in 1 .. Len(F) /\ 3 <= Len(b) /\ 4 <= Len(b)
        BY <1>1, <1>2, <1>6, <1>9, <3>1
      <4> QED
        BY <1>2, <1>6, <2>4, <4>1
    <3>4. ASSUME NEW n \in Nat, n < 65536
          PROVE  n \div 256 \in 0 .. 255 /\ n % 256 \in 0 .. 255 /\ (n \div 256) * 256 + (n % 256) = n
      BY <3>4
    <3>5. BigEndian(c) = c[1] * 256 + c[2]
      <4>1. c[1] \in Byte /\ c[2] \in Byte
        BY <1>1, <1>3, <3>2, <3>3, <3>4 DEF Byte
      <4> HIDE DEF c
      <4> QED
        BY <3>2, <4>1, BigEndianTwo
    <3>6. BigEndian(c) = len
      BY <1>1, <1>3, <3>2, <3>3, <3>4, <3>5
    <3>7. ExtendedLength(b) = BigEndian(SubSeq(b, 3, 2 + 2))
      BY <3>1 DEF ExtendedLength
    <3> QED
      BY <3>6, <3>7
  <2> QED
    BY <1>1, <2>3, <2>4
<1> QED
  BY <1>8, <1>9 DEF HeaderRead, len

\* A frame is complete when all of it is there.
LEMMA FrameComplete ==
  ASSUME NEW f \in FrameSet, IsShort(f.message), NEW F, FrameForm(f, F), NEW b, Agree(F, b)
  PROVE  Complete(b) <=> Len(b) >= Len(F)
<1> DEFINE len == Len(f.message)
<1>1. /\ len \in Nat /\ PeekOf(f) \in {0, 2} /\ MaskLen(f) \in {0, 4} /\ Start(f) = 2 + PeekOf(f)
      /\ (f.mask = <<>> <=> MaskLen(f) = 0)
  BY FrameNumbers
<1>2. Len(F) = Start(f) + MaskLen(f) + len
  BY DEF FrameForm
<1>3. Len(b) \in Nat
  BY LenProperties DEF Agree
<1>4. /\ Len(b) >= 2 => (Masked(b) <=> f.mask # <<>>) /\ PeekLen(b) = PeekOf(f)
      /\ Len(b) >= Start(f) => ExtendedLength(b) = len
  BY HeaderIsRead DEF HeaderRead
<1> HIDE DEF len
<1> DEFINE m == IF Masked(b) THEN 4 ELSE 0
<1>5. Len(b) >= 2 => m = MaskLen(f)
  BY <1>1, <1>4
<1>6. Complete(b) <=> /\ Len(b) >= 2 /\ Len(b) >= 2 + PeekLen(b)
                      /\ Len(b) >= 2 + PeekLen(b) + ExtendedLength(b) + m
  BY DEF Complete
<1> HIDE DEF m
<1>7. CASE ~(Len(b) >= 2)
  <2>1. ~(Len(b) >= Len(F))
    BY <1>1, <1>2, <1>3, <1>7
  <2> QED
    BY <1>6, <1>7, <2>1
<1>8. CASE Len(b) >= 2 /\ ~(Len(b) >= Start(f))
  <2>1. PeekLen(b) = PeekOf(f) /\ ~(Len(b) >= 2 + PeekLen(b)) /\ ~(Len(b) >= Len(F))
    BY <1>1, <1>2, <1>3, <1>4, <1>8
  <2> QED
    BY <1>6, <2>1
<1>9. CASE Len(b) >= Start(f)
  <2>1. Len(b) >= 2
    BY <1>1, <1>3, <1>9
  <2>2. PeekLen(b) = PeekOf(f) /\ ExtendedLength(b) = len /\ m = MaskLen(f)
    BY <1>4, <1>5, <1>9, <2>1
  <2>3. 2 + PeekLen(b) + ExtendedLength(b) + m = Len(F) /\ 2 + PeekLen(b) = Start(f)
    BY <1>1, <1>2, <2>2
  <2> QED
    BY <1>6, <1>9, <2>1, <2>3
<1> QED
  BY <1>7, <1>8, <1>9

\* What SubSeq takes of it.
Piece(b, start, len, c) ==
  Len(c) = len /\ \A i \in 1 .. len : c[i] = b[start + i]

LEMMA PieceIs ==
  ASSUME NEW S, NEW b \in Seq(S), NEW start \in Nat, NEW len \in Nat, start + len <= Len(b),
         NEW c, c = SubSeq(b, start + 1, start + len)
  PROVE  c \in Seq(S) /\ Piece(b, start, len, c)
<1>1. Len(b) \in Nat
  BY LenProperties
<1>2. start + 1 \in 1 .. Len(b) + 1 /\ start + len \in (start + 1) - 1 .. Len(b)
      /\ (start + len) - (start + 1) + 1 = len
  BY <1>1
<1>3. /\ c \in Seq(S) /\ Len(c) = (start + len) - (start + 1) + 1
      /\ \A i \in 1 .. (start + len) - (start + 1) + 1 : c[i] = b[start + 1 + i - 1]
  BY <1>1, <1>2, SubSeqProperties
<1>4. \A i \in 1 .. len : start + 1 + i - 1 = start + i
  OBVIOUS
<1> QED
  BY <1>2, <1>3, <1>4 DEF Piece

LEMMA FrameRead ==
  ASSUME NEW f \in FrameSet, IsShort(f.message), NEW F, FrameForm(f, F), NEW b, Agree(F, b),
         Len(b) >= Len(F), NEW s
  PROVE  IsResult(Frame(s, b), s, kSuccess, Behind(b, Len(F)), <<>>, <<f.message>>)
<1> DEFINE len == Len(f.message)
           start == 2 + PeekLen(b)
           l == ExtendedLength(b)
           k == IF Masked(b) THEN 4 ELSE 0
           data == SubSeq(b, start + 1, start + l + k)
           first == SubSeq(data, 1, 4)
           last == SubSeq(data, 5, Len(data))
           message == IF Masked(b) THEN Unmask(first, last) ELSE data
<1>1. /\ len \in Nat /\ PeekOf(f) \in {0, 2} /\ MaskLen(f) \in {0, 4} /\ Start(f) = 2 + PeekOf(f)
      /\ (f.mask = <<>> <=> MaskLen(f) = 0)
      /\ f.message \in Seq(Byte) /\ f.mask \in {<<>>} \cup [1 .. 4 -> Byte]
  BY FrameNumbers
<1>2. Len(F) = Start(f) + MaskLen(f) + len /\ F \in Seq(Byte)
  BY DEF FrameForm
<1>3. b \in Seq(Alphabet) /\ Len(b) \in Nat /\ \A i \in 1 .. Len(F) : i <= Len(b) => b[i] = F[i]
  BY LenProperties DEF Agree
<1>4. Len(b) >= 2 /\ Len(b) >= Start(f)
  <2> HIDE DEF len
  <2> QED
    BY <1>1, <1>2, <1>3
<1>5. (Masked(b) <=> f.mask # <<>>) /\ start = Start(f) /\ l = len /\ k = MaskLen(f)
  <2>1. HeaderRead(f, b)
    BY HeaderIsRead
  <2> QED
    BY <1>1, <1>4, <2>1 DEF HeaderRead
<1>6. Frame(s, b) = Result(s, kSuccess, SubSeq(b, start + Len(data) + 1, Len(b)), <<>>, <<message>>)
  BY DEF Frame
<1>7. start \in Nat /\ l \in Nat /\ k \in {0, 4}
  <2> HIDE DEF len
  <2> QED
    BY <1>1, <1>5
<1>8. data = SubSeq(b, start + 1, start + (l + k))
  <2> HIDE DEF start, l, k
  <2>1. start + l + k = start + (l + k)
    BY <1>7
  <2> QED
    BY <2>1
<1> HIDE DEF start, l, k
<1>9. data \in Seq(Alphabet) /\ Piece(b, start, l + k, data)
  <2>1. l + k \in Nat /\ start + (l + k) <= Len(b)
    <3> HIDE DEF len
    <3> QED
      BY <1>1, <1>2, <1>3, <1>5, <1>7
  <2>2. b \in Seq(Alphabet) /\ start \in Nat
    BY <1>3, <1>7
  <2> DEFINE n == l + k
  <2>3. n \in Nat /\ start + n <= Len(b) /\ data = SubSeq(b, start + 1, start + n)
    BY <1>8, <2>1
  <2> HIDE DEF n, data
  <2>4. data \in Seq(Alphabet) /\ Piece(b, start, n, data)
    BY <2>2, <2>3, PieceIs
  <2> QED
    BY <2>4 DEF n
<1> HIDE DEF data
<1>10. Len(data) = l + k /\ \A i \in 1 .. l + k : data[i] = F[Start(f) + i]
  <2>1. Len(data) = l + k /\ \A i \in 1 .. l + k : data[i] = b[start + i]
    BY <1>9 DEF Piece
  <2>2. \A i \in 1 .. l + k : Start(f) + i \in 1 .. Len(F) /\ Start(f) + i <= Len(b)
    <3> HIDE DEF len
    <3>1. Start(f) \in Nat /\ l + k \in Nat /\ Len(F) = Start(f) + (l + k) /\ Len(F) \in Nat
      BY <1>1, <1>2, <1>5, <1>7
    <3>2. ASSUME NEW n \in Nat, NEW m \in Nat, NEW o, o = n + m, NEW x \in Nat, x >= o, NEW i \in 1 .. m
          PROVE  n + i \in 1 .. o /\ n + i <= x
      BY <3>2
    <3>3. Len(b) >= Len(F)
      OBVIOUS
    <3> QED
      BY <1>3, <3>1, <3>2, <3>3
  <2> QED
    BY <1>3, <1>5, <2>1, <2>2
<1>11. start + Len(data) + 1 = Len(F) + 1
  <2> HIDE DEF len
  <2> QED
    BY <1>1, <1>2, <1>5, <1>7, <1>10
<1>12. message = f.message
  <2>1. CASE f.mask = <<>>
    <3>1. message = data /\ k = 0 /\ MaskLen(f) = 0
      BY <1>1, <1>5, <2>1
    <3>2. \A i \in 1 .. len : F[Start(f) + i] = f.message[i]
      <4>1. \A i \in 1 .. len : F[Start(f) + MaskLen(f) + i] = f.message[i]
        BY <2>1 DEF FrameForm, BodyForm
      <4>2. Start(f) + MaskLen(f) = Start(f)
        BY <1>1, <3>1
      <4> QED
        BY <4>1, <4>2
    <3>3. l + k = len
      <4> HIDE DEF len
      <4> QED
        BY <1>1, <1>5, <1>7, <3>1
    <3>4. Len(data) = len /\ \A i \in 1 .. len : data[i] = f.message[i]
      BY <1>10, <3>2, <3>3
    <3> DEFINE e == f.message
    <3>5. data \in Seq(Alphabet) /\ e \in Seq(Byte) /\ Len(data) = Len(e) /\ \A i \in 1 .. Len(data) : data[i] = e[i]
      BY <1>1, <1>9, <3>4
    <3>6. Byte \subseteq Alphabet
      BY DEF Byte, Alphabet
    <3> HIDE DEF e
    <3>7. e \in Seq(Alphabet)
      BY <3>5, <3>6
    <3>8. data = e
      BY <3>5, <3>7, SeqEqual
    <3> QED
      BY <3>1, <3>8 DEF e
  <2>2. CASE f.mask # <<>>
    <3> DEFINE mask == f.mask
               e == f.message
               u == Unmask(mask, e)
    <3>1. message = Unmask(first, last) /\ k = 4 /\ MaskLen(f) = 4
      BY <1>1, <1>5, <2>2
    <3>2. mask \in [1 .. 4 -> Byte] /\ e \in Seq(Byte)
      BY <1>1, <2>2
    <3>3. /\ u \in Seq(Byte) /\ Len(u) = Len(e)
          /\ \A i \in 1 .. Len(e) : u[i] = XorOf(e[i], mask[((i - 1) % 4) + 1])
      <4>1. u = Unmask(mask, e)
        OBVIOUS
      <4> HIDE DEF u, mask, e
      <4> QED
        BY <3>2, <4>1, UnmaskIs
    <3>4. Len(data) = 4 + len /\ \A i \in 1 .. 4 + len : data[i] = F[Start(f) + i]
      <4>1. l + k = 4 + len
        <5> HIDE DEF len
        <5> QED
          BY <1>1, <1>5, <1>7, <3>1
      <4> QED
        BY <1>10, <4>1
    <3>5. \A i \in 1 .. 4 : data[i] = mask[i]
      <4>1. \A i \in 1 .. 4 : i \in 1 .. 4 + len
        BY <1>1
      <4>2. \A i \in 1 .. 4 : F[Start(f) + i] = mask[i]
        BY <2>2 DEF FrameForm, MaskForm
      <4> QED
        BY <3>4, <4>1, <4>2
    <3>6. \A i \in 1 .. len : data[4 + i] = u[i]
      <4>1. \A i \in 1 .. len : 4 + i \in 1 .. 4 + len /\ Start(f) + (4 + i) = Start(f) + 4 + i
        BY <1>1
      <4>2. \A i \in 1 .. len : F[Start(f) + 4 + i] = XorOf(e[i], mask[((i - 1) % 4) + 1])
        BY <2>2, <3>1 DEF FrameForm, BodyForm
      <4> HIDE DEF u, mask
      <4> QED
        BY <3>3, <3>4, <4>1, <4>2
    <3> HIDE DEF u, mask, e
    <3>7. first = mask
      <4>1. first \in Seq(Alphabet) /\ Piece(data, 0, 4, first)
        <5> DEFINE z == 0
                   n == 4
        <5>1. z \in Nat /\ n \in Nat /\ z + n <= Len(data) /\ first = SubSeq(data, z + 1, z + n)
          BY <1>1, <3>4
        <5> HIDE DEF z, n, first
        <5>2. first \in Seq(Alphabet) /\ Piece(data, z, n, first)
          BY <1>9, <5>1, PieceIs
        <5> QED
          BY <5>2 DEF z, n
      <4> HIDE DEF first
      <4>2. Len(first) = 4 /\ \A i \in 1 .. 4 : first[i] = mask[i]
        <5>1. \A i \in 1 .. 4 : 0 + i = i
          OBVIOUS
        <5> QED
          BY <3>5, <4>1, <5>1 DEF Piece
      <4>3. DOMAIN first = 1 .. 4 /\ first = [i \in DOMAIN first |-> first[i]]
        BY <4>1, <4>2, LenProperties
      <4>4. mask = [i \in 1 .. 4 |-> mask[i]]
        BY <3>2
      <4> QED
        BY <4>2, <4>3, <4>4
    <3>8. last = u
      <4>1. last \in Seq(Alphabet) /\ Piece(data, 4, len, last)
        <5> DEFINE z == 4
        <5>1. z \in Nat /\ len \in Nat /\ z + len <= Len(data) /\ last = SubSeq(data, z + 1, z + len)
          BY <1>1, <3>4
        <5> HIDE DEF z, last, len
        <5>2. last \in Seq(Alphabet) /\ Piece(data, z, len, last)
          BY <1>9, <5>1, PieceIs
        <5> QED
          BY <5>2 DEF z
      <4> HIDE DEF last
      <4>2. Len(last) = len /\ \A i \in 1 .. len : last[i] = u[i]
        BY <3>6, <4>1 DEF Piece
      <4>3. Byte \subseteq Alphabet /\ Len(u) = len
        BY <3>3 DEF Byte, Alphabet, e
      <4>4. u \in Seq(Alphabet)
        BY <3>3, <4>3
      <4> QED
        BY <4>1, <4>2, <4>3, <4>4, SeqEqual
    <3> HIDE DEF first, last, message
    <3>9. Unmask(mask, u) = e
      BY <3>2, UnmaskTwice DEF u
    <3> QED
      BY <3>1, <3>7, <3>8, <3>9 DEF e
  <2> QED
    BY <2>1, <2>2
<1> HIDE DEF message
<1> DEFINE rest == SubSeq(b, start + Len(data) + 1, Len(b))
<1>13. rest = Behind(b, Len(F))
  BY <1>11 DEF Behind
<1> HIDE DEF rest
<1>14. Frame(s, b) = Result(s, kSuccess, rest, <<>>, <<message>>)
  BY <1>6 DEF rest
<1> DEFINE h == <<message>>
           no == <<>>
<1>15. Frame(s, b) = Result(s, kSuccess, rest, no, h)
  BY <1>14
<1> HIDE DEF h, no
<1>16. IsResult(Frame(s, b), s, kSuccess, rest, no, h)
  BY <1>15, ResultIs
<1> QED
  BY <1>12, <1>13, <1>16 DEF h, no

ShortFrames == {f \in FrameSet : IsShort(f.message)}

LEMMA FrameIn ==
  ASSUME NEW f \in ShortFrames
  PROVE  FrameBytes(f) \in Seq(Byte) /\ FrameForm(f, FrameBytes(f)) /\ f \in FrameSet /\ IsShort(f.message)
<1>1. f \in FrameSet /\ IsShort(f.message)
  BY DEF ShortFrames
<1>2. FrameForm(f, FrameBytes(f))
  BY <1>1, FrameIsForm
<1> QED
  BY <1>1, <1>2 DEF FrameForm

LEMMA FramesAppend ==
  ASSUME NEW hs \in Seq(ShortFrames), NEW h \in ShortFrames
  PROVE  /\ FramesBytes(hs) \in Seq(Byte) /\ FrameBytes(h) \in Seq(Byte)
         /\ FramesBytes(Append(hs, h)) = FramesBytes(hs) \o FrameBytes(h)
<1> DEFINE S == ShortFrames
           R == Seq(Byte)
           u == Append(hs, h)
           m == [i \in DOMAIN hs |-> FrameBytes(hs[i])]
           m2 == [i \in DOMAIN u |-> FrameBytes(u[i])]
           v == FrameBytes(h)
<1>0. \A x \in S : FrameBytes(x) \in R
  BY FrameIn
<1>1. /\ u \in Seq(S) /\ Len(u) = Len(hs) + 1 /\ Len(hs) \in Nat /\ u[Len(hs) + 1] = h
      /\ \A i \in 1 .. Len(hs) : u[i] = hs[i]
  <2>1. hs \in Seq(S) /\ h \in S /\ u = Append(hs, h)
    OBVIOUS
  <2> HIDE DEF S, u
  <2> QED
    BY <2>1, AppendHas
<1>2. DOMAIN hs = 1 .. Len(hs) /\ DOMAIN u = 1 .. Len(hs) + 1
  BY <1>1, LenProperties
<1>3. u = Append(hs, h) /\ v \in R /\ hs \in Seq(S) /\ h \in S
  BY <1>0
<1>4. FramesBytes(hs) = FlattenSeq(m) /\ FramesBytes(u) = FlattenSeq(m2)
  BY DEF FramesBytes
<1>5. Made(m, hs, R)
  <2>1. \A i \in DOMAIN hs : hs[i] \in S
    BY <1>2
  <2>2. \A i \in DOMAIN hs : m[i] = FrameBytes(hs[i])
    OBVIOUS
  <2>3. m = [i \in DOMAIN hs |-> m[i]]
    OBVIOUS
  <2> HIDE DEF m, R, S
  <2> QED
    BY <1>0, <2>1, <2>2, <2>3 DEF Made
<1> HIDE DEF u
<1>6. MadeOn(m, hs, m2, u, v)
  <2>1. \A i \in DOMAIN hs : i \in DOMAIN u /\ u[i] = hs[i]
    BY <1>1, <1>2
  <2>2. Len(hs) + 1 \in DOMAIN u
    BY <1>1, <1>2
  <2>3. \A i \in DOMAIN u : m2[i] = FrameBytes(u[i])
    OBVIOUS
  <2>4. m2 = [i \in DOMAIN u |-> m2[i]]
    OBVIOUS
  <2>5. \A i \in DOMAIN hs : m[i] = FrameBytes(hs[i])
    OBVIOUS
  <2> HIDE DEF m, m2
  <2>6. \A i \in DOMAIN hs : m2[i] = m[i]
    BY <2>1, <2>3, <2>5
  <2>7. m2[Len(hs) + 1] = v
    BY <1>1, <2>2, <2>3
  <2> QED
    BY <2>4, <2>6, <2>7 DEF MadeOn
<1> HIDE DEF m, m2, v, R, S
<1>7. Grows(m, m2, v, R)
  BY <1>3, <1>5, <1>6, MadeAppend
<1>8. FlattenSeq(m) \in Seq(Byte) /\ FlattenSeq(Append(m, v)) = FlattenSeq(m) \o v
  <2>1. m \in Seq(Seq(Byte)) /\ v \in Seq(Byte)
    BY <1>3, <1>7 DEF Grows, R
  <2> QED
    BY <2>1, FlattenAppend
<1> QED
  BY <1>3, <1>4, <1>7, <1>8 DEF Grows, u, v, R

LEMMA NoFrames == FramesBytes(<<>>) = <<>>
<1>1. [i \in DOMAIN <<>> |-> FrameBytes((<<>>)[i])] = <<>>
  OBVIOUS
<1> QED
  BY <1>1, FlattenNone DEF FramesBytes

LEMMA FramesIn == ASSUME NEW hs \in Seq(ShortFrames) PROVE FramesBytes(hs) \in Seq(Byte)
<1>1. CASE \E h : h \in ShortFrames
  BY <1>1, FramesAppend
<1>2. CASE ~\E h : h \in ShortFrames
  <2>1. hs = <<>>
    <3>1. ShortFrames = {} /\ Len(hs) \in Nat /\ hs \in [1 .. Len(hs) -> ShortFrames]
      BY <1>2
    <3>2. Len(hs) = 0
      BY <3>1
    <3> QED
      BY <3>2, EmptySeq
  <2>2. <<>> \in Seq(Byte)
    OBVIOUS
  <2> QED
    BY <2>1, <2>2, NoFrames, Zenon
<1> QED
  BY <1>1, <1>2

Messages(hs) == [i \in DOMAIN hs |-> hs[i].message]

LEMMA MessagesAppend ==
  ASSUME NEW hs \in Seq(ShortFrames), NEW h \in ShortFrames
  PROVE  /\ Messages(hs) \in Seq(Seq(Byte))
         /\ Messages(Append(hs, h)) = Messages(hs) \o <<h.message>>
<1> DEFINE S == ShortFrames
           R == Seq(Byte)
           u == Append(hs, h)
           m == Messages(hs)
           m2 == Messages(u)
           v == h.message
<1>0. \A x \in S : x.message \in R
  BY DEF ShortFrames, FrameSet
<1>1. /\ u \in Seq(S) /\ Len(u) = Len(hs) + 1 /\ Len(hs) \in Nat /\ u[Len(hs) + 1] = h
      /\ \A i \in 1 .. Len(hs) : u[i] = hs[i]
  <2>1. hs \in Seq(S) /\ h \in S /\ u = Append(hs, h)
    OBVIOUS
  <2> HIDE DEF S, u
  <2> QED
    BY <2>1, AppendHas
<1>2. DOMAIN hs = 1 .. Len(hs) /\ DOMAIN u = 1 .. Len(hs) + 1
  BY <1>1, LenProperties
<1>3. u = Append(hs, h) /\ v \in R /\ hs \in Seq(S) /\ h \in S
  BY <1>0
<1>4. /\ m = [i \in DOMAIN hs |-> hs[i].message] /\ m2 = [i \in DOMAIN u |-> u[i].message]
  BY DEF Messages
<1>5. Made(m, hs, R)
  <2>1. \A i \in DOMAIN hs : hs[i] \in S
    BY <1>2
  <2>2. \A i \in DOMAIN hs : m[i] = hs[i].message
    BY <1>4
  <2>3. m = [i \in DOMAIN hs |-> m[i]]
    BY <1>4
  <2> HIDE DEF m, R, S
  <2> QED
    BY <1>0, <2>1, <2>2, <2>3 DEF Made
<1> HIDE DEF u
<1>6. MadeOn(m, hs, m2, u, v)
  <2>1. \A i \in DOMAIN hs : i \in DOMAIN u /\ u[i] = hs[i]
    BY <1>1, <1>2
  <2>2. Len(hs) + 1 \in DOMAIN u
    BY <1>1, <1>2
  <2>3. \A i \in DOMAIN u : m2[i] = u[i].message
    BY <1>4
  <2>4. m2 = [i \in DOMAIN u |-> m2[i]]
    BY <1>4
  <2>5. \A i \in DOMAIN hs : m[i] = hs[i].message
    BY <1>4
  <2> HIDE DEF m, m2
  <2>6. \A i \in DOMAIN hs : m2[i] = m[i]
    BY <2>1, <2>3, <2>5
  <2>7. m2[Len(hs) + 1] = v
    BY <1>1, <2>2, <2>3
  <2> QED
    BY <2>4, <2>6, <2>7 DEF MadeOn
<1> HIDE DEF m, m2, v, R, S
<1>7. Grows(m, m2, v, R)
  BY <1>3, <1>5, <1>6, MadeAppend
<1>8. Append(m, v) = m \o <<v>>
  BY <1>3, <1>7 DEF Grows
<1> QED
  BY <1>3, <1>7, <1>8 DEF Grows, u, v, R, m, m2

LEMMA NoMessages == Messages(<<>>) = <<>>
BY DEF Messages

LEMMA FrontNext ==
  ASSUME NEW S, NEW s \in Seq(S), NEW j \in Nat, j < Len(s)
  PROVE  /\ SubSeq(s, 1, j) \in Seq(S) /\ s[j + 1] \in S /\ j + 1 \in 0 .. Len(s)
         /\ SubSeq(s, 1, j + 1) = Append(SubSeq(s, 1, j), s[j + 1])
<1> DEFINE a == SubSeq(s, 1, j)
           b == SubSeq(s, 1, j + 1)
           c == Append(a, s[j + 1])
<1>1. Len(s) \in Nat /\ j \in 0 .. Len(s) /\ j + 1 \in 0 .. Len(s) /\ j + 1 \in 1 .. Len(s)
  BY LenProperties
<1>2. a \in Seq(S) /\ Len(a) = j /\ \A i \in 1 .. j : a[i] = s[i]
  BY <1>1, FrontProperties
<1>3. b \in Seq(S) /\ Len(b) = j + 1 /\ \A i \in 1 .. j + 1 : b[i] = s[i]
  <2> DEFINE k == j + 1
  <2>1. k \in 0 .. Len(s)
    BY <1>1
  <2> HIDE DEF k
  <2>2. SubSeq(s, 1, k) \in Seq(S) /\ Len(SubSeq(s, 1, k)) = k /\ \A i \in 1 .. k : SubSeq(s, 1, k)[i] = s[i]
    BY <2>1, FrontProperties
  <2> QED
    BY <2>2 DEF k
<1>4. s[j + 1] \in S
  BY <1>1
<1>5. c = Append(a, s[j + 1])
  OBVIOUS
<1> HIDE DEF a, b, c
<1>6. /\ c \in Seq(S) /\ Len(c) = Len(a) + 1 /\ c[Len(a) + 1] = s[j + 1]
      /\ \A i \in 1 .. Len(a) : c[i] = a[i]
  BY <1>2, <1>4, <1>5, AppendHas
<1>7. \A i \in 1 .. j + 1 : b[i] = c[i]
  <2> SUFFICES ASSUME NEW i \in 1 .. j + 1 PROVE b[i] = c[i]
    OBVIOUS
  <2>1. CASE i = j + 1
    BY <1>2, <1>3, <1>6, <2>1
  <2>2. CASE i # j + 1
    <3>1. i \in 1 .. j
      BY <2>2
    <3> QED
      BY <1>2, <1>3, <1>6, <3>1
  <2> QED
    BY <2>1, <2>2
<1>8. b = c
  BY <1>2, <1>3, <1>6, <1>7, SeqEqual
<1> QED
  BY <1>1, <1>2, <1>4, <1>8 DEF a, b, c

LEMMA FrontAll == ASSUME NEW S, NEW s \in Seq(S) PROVE SubSeq(s, 1, Len(s)) = s
<1>1. Len(s) \in 0 .. Len(s) /\ Len(s) \in Nat
  BY LenProperties
<1>2. SubSeq(s, 1, Len(s)) \in Seq(S) /\ Len(SubSeq(s, 1, Len(s))) = Len(s)
      /\ \A i \in 1 .. Len(s) : SubSeq(s, 1, Len(s))[i] = s[i]
  BY <1>1, FrontProperties
<1> QED
  BY <1>2, SeqEqual

\* What the first k frames leave to come.
LeftOf(t, k, R) == R \in Seq(Byte) /\ FramesBytes(SubSeq(t, 1, k)) \o R = FramesBytes(t)

LEMMA FramesLeft ==
  ASSUME NEW frames \in Seq(ShortFrames)
  PROVE  \A k \in 0 .. Len(frames) : \E R : LeftOf(frames, k, R)
<1> DEFINE S == ShortFrames
           T == {t \in Seq(S) : \A k \in 0 .. Len(t) : \E R : LeftOf(t, k, R)}
<1>0. \A t \in Seq(S) : \E R : LeftOf(t, Len(t), R)
  <2> SUFFICES ASSUME NEW t \in Seq(S) PROVE LeftOf(t, Len(t), <<>>)
    OBVIOUS
  <2>1. SubSeq(t, 1, Len(t)) = t
    BY FrontAll
  <2> DEFINE b == FramesBytes(t)
  <2>2. b \in Seq(Byte)
    BY FramesIn
  <2> HIDE DEF b
  <2>3. b \o <<>> = b /\ <<>> \in Seq(Byte)
    BY <2>2
  <2> QED
    BY <2>1, <2>3 DEF LeftOf, b
<1>1. <<>> \in T
  <2>1. <<>> \in Seq(S) /\ Len(<<>>) = 0 /\ \A k \in 0 .. 0 : k = 0
    OBVIOUS
  <2>2. \E R : LeftOf(<<>>, 0, R)
    <3> DEFINE t == <<>>
    <3>1. t \in Seq(S) /\ Len(t) = 0
      BY <2>1
    <3> HIDE DEF t
    <3>2. \E R : LeftOf(t, Len(t), R)
      BY <1>0, <3>1
    <3> QED
      BY <3>1, <3>2 DEF t
  <2> QED
    BY <2>1, <2>2
<1>2. ASSUME NEW t \in Seq(S), NEW c \in S, t \in T PROVE Append(t, c) \in T
  <2> DEFINE u == Append(t, c)
             n == Len(t)
  <2>1. /\ u \in Seq(S) /\ Len(u) = n + 1 /\ n \in Nat /\ u[n + 1] = c
        /\ \A i \in 1 .. n : u[i] = t[i]
    <3>1. u = Append(t, c) /\ t \in Seq(S)
      BY <1>2
    <3> HIDE DEF u, S
    <3> QED
      BY <1>2, <3>1, AppendHas
  <2>2. FramesBytes(u) = FramesBytes(t) \o FrameBytes(c) /\ FrameBytes(c) \in Seq(Byte)
    BY FramesAppend
  <2> HIDE DEF u, n, S
  <2>3. ASSUME NEW k \in 0 .. n PROVE \E R : LeftOf(u, k, R)
    <3>1. PICK R : LeftOf(t, k, R)
      BY <1>2, <2>3 DEF T, n
    <3>2. SubSeq(u, 1, k) = SubSeq(t, 1, k) /\ SubSeq(t, 1, k) \in Seq(S)
      <4> DEFINE a == SubSeq(u, 1, k)
                 b == SubSeq(t, 1, k)
      <4>1. k \in 0 .. Len(t) /\ k \in 0 .. Len(u)
        BY <2>1, <2>3 DEF n
      <4>2. a \in Seq(S) /\ Len(a) = k /\ \A i \in 1 .. k : a[i] = u[i]
        BY <2>1, <4>1, FrontProperties
      <4>3. b \in Seq(S) /\ Len(b) = k /\ \A i \in 1 .. k : b[i] = t[i]
        BY <4>1, FrontProperties
      <4> HIDE DEF a, b
      <4>4. \A i \in 1 .. k : i \in 1 .. n
        BY <2>1, <2>3
      <4>5. \A i \in 1 .. k : a[i] = b[i]
        BY <2>1, <4>2, <4>3, <4>4
      <4>6. a = b
        BY <4>2, <4>3, <4>5, SeqEqual
      <4> QED
        BY <4>3, <4>6 DEF a, b
    <3> DEFINE f == FramesBytes(SubSeq(t, 1, k))
               g == FrameBytes(c)
               all == FramesBytes(t)
    <3>3. f \in Seq(Byte) /\ g \in Seq(Byte) /\ R \in Seq(Byte) /\ f \o R = all
      BY <2>2, <3>1, <3>2, FramesIn DEF LeftOf, S
    <3>4. FramesBytes(u) = all \o g
      BY <2>2
    <3> HIDE DEF f, g, all
    <3>5. f \o (R \o g) = (f \o R) \o g /\ R \o g \in Seq(Byte)
      <4>1. f \in Seq(Byte) /\ R \in Seq(Byte) /\ g \in Seq(Byte)
        BY <3>3
      <4>2. (f \o R) \o g = f \o (R \o g)
        BY <4>1, ConcatAssociative, SMTT(60)
      <4>3. R \o g \in Seq(Byte)
        BY <4>1, ConcatProperties
      <4> QED
        BY <4>2, <4>3
    <3>6. f \o (R \o g) = FramesBytes(u)
      BY <3>3, <3>4, <3>5
    <3>7. LeftOf(u, k, R \o g)
      BY <3>2, <3>5, <3>6 DEF LeftOf, f
    <3> QED
      BY <3>7
  <2>4. \E R : LeftOf(u, n + 1, R)
    BY <1>0, <2>1
  <2>5. \A k \in 0 .. n + 1 : k \in 0 .. n \/ k = n + 1
    BY <2>1
  <2>6. \A k \in 0 .. n + 1 : \E R : LeftOf(u, k, R)
    BY <2>3, <2>4, <2>5
  <2> QED
    BY <2>1, <2>6 DEF T, u
<1> HIDE DEF T
<1>3. frames \in T
  BY <1>1, <1>2, SeqUp
<1> QED
  BY <1>3 DEF T

\* A WebSocket client: h has come of its first j frames, b is in the buffer
\* and w is still to come of the others.
FramesHeard(frames, j, h, b, w) ==
  /\ j \in 0 .. Len(frames) /\ h = Messages(SubSeq(frames, 1, j))
  /\ Joined(FramesBytes(SubSeq(frames, 1, j)), b, w, FramesBytes(frames))

LEMMA SocketFrames ==
  ASSUME NEW p, NEW q, IsRequest(p, q)
  PROVE  /\ q.frames \in Seq(ShortFrames) /\ TailOf(q) \in Seq(Alphabet)
         /\ FramesBytes(q.frames) \in Seq(Alphabet) /\ q.written \in BOOLEAN
<1>1. q.frames \in Seq(FrameSet) /\ q.written \in BOOLEAN
  BY HttpFields DEF IsRequest, FrameSet, Byte
<1>2. \A i \in DOMAIN q.frames : IsShort(q.frames[i].message)
  BY DEF IsRequest, IsShort
<1> DEFINE s == q.frames
<1>3. s \in Seq(ShortFrames)
  <2>1. s \in Seq(FrameSet) /\ \A i \in DOMAIN s : IsShort(s[i].message)
    BY <1>1, <1>2
  <2> HIDE DEF s
  <2>2. DOMAIN s = 1 .. Len(s) /\ Len(s) \in Nat /\ s \in [1 .. Len(s) -> FrameSet]
    BY <2>1, LenProperties
  <2>3. \A i \in 1 .. Len(s) : s[i] \in ShortFrames
    BY <2>1, <2>2 DEF ShortFrames
  <2>4. s \in [1 .. Len(s) -> ShortFrames]
    BY <2>2, <2>3
  <2> QED
    BY <2>2, <2>4
<1>4. Byte \subseteq Alphabet
  BY DEF Byte, Alphabet
<1>5. FramesBytes(q.frames) \in Seq(Alphabet)
  <2>1. FramesBytes(q.frames) \in Seq(Byte)
    BY <1>3, FramesIn
  <2> DEFINE b == FramesBytes(q.frames)
  <2> HIDE DEF b
  <2>2. b \in Seq(Byte)
    BY <2>1 DEF b
  <2>3. b \in Seq(Alphabet)
    BY <1>4, <2>2
  <2> QED
    BY <2>3 DEF b
<1>6. TailOf(q) \in Seq(Alphabet)
  <2>1. <<>> \in Seq(Alphabet)
    OBVIOUS
  <2> QED
    BY <1>5, <2>1, Zenon DEF TailOf
<1> QED
  BY <1>1, <1>3, <1>5, <1>6

\* What is in the buffer and what is to come begin with the next frame.
NextFrame(frames, j, b, w, F, R) ==
  /\ F = FrameBytes(frames[j + 1]) /\ frames[j + 1] \in ShortFrames
  /\ F \in Seq(Alphabet) /\ R \in Seq(Alphabet) /\ Same(b, w, F, R)
  /\ Plus(FramesBytes(SubSeq(frames, 1, j)), F, FramesBytes(SubSeq(frames, 1, j + 1)))
  /\ FramesBytes(SubSeq(frames, 1, j)) \in Seq(Alphabet)
  /\ FramesBytes(SubSeq(frames, 1, j + 1)) \in Seq(Alphabet)
  /\ Plus(FramesBytes(SubSeq(frames, 1, j + 1)), R, FramesBytes(frames))
  /\ Messages(SubSeq(frames, 1, j + 1)) =
       Messages(SubSeq(frames, 1, j)) \o <<frames[j + 1].message>>

LEMMA FrameIsNext ==
  ASSUME NEW frames \in Seq(ShortFrames), NEW j, NEW h,
         NEW b \in Seq(Alphabet), NEW w \in Seq(Alphabet), FramesHeard(frames, j, h, b, w),
         j # Len(frames)
  PROVE  \E F, R : NextFrame(frames, j, b, w, F, R)
<1>1. j \in Nat /\ j < Len(frames) /\ Len(frames) \in Nat /\ j + 1 \in 0 .. Len(frames)
  BY DEF FramesHeard
<1> DEFINE front == SubSeq(frames, 1, j)
           next == SubSeq(frames, 1, j + 1)
           f == frames[j + 1]
           F == FrameBytes(f)
           e == FramesBytes(front)
           n == FramesBytes(next)
           all == FramesBytes(frames)
<1>2. front \in Seq(ShortFrames) /\ f \in ShortFrames /\ next = Append(front, f)
  BY <1>1, FrontNext
<1>3. e \in Seq(Byte) /\ F \in Seq(Byte) /\ n = e \o F
  BY <1>2, FramesAppend
<1>4. Messages(next) = Messages(front) \o <<f.message>>
  BY <1>2, MessagesAppend
<1>5. PICK R : LeftOf(frames, j + 1, R)
  BY <1>1, FramesLeft
<1>6. R \in Seq(Byte) /\ n \o R = all
  BY <1>5 DEF LeftOf
<1>7. e \o (b \o w) = all
  BY DEF FramesHeard, Joined
<1>8. Byte \subseteq Alphabet
  BY DEF Byte, Alphabet
<1>9. F = FrameBytes(frames[j + 1]) /\ f = frames[j + 1]
  OBVIOUS
<1>13. e = FramesBytes(SubSeq(frames, 1, j)) /\ n = FramesBytes(SubSeq(frames, 1, j + 1))
       /\ all = FramesBytes(frames)
  OBVIOUS
<1> HIDE DEF e, n, all, F, f
<1>10. e \in Seq(Alphabet) /\ F \in Seq(Alphabet) /\ R \in Seq(Alphabet)
  BY <1>3, <1>6, <1>8
<1>11. b \o w = F \o R /\ n \in Seq(Alphabet)
  <2> DEFINE x == b \o w
             y == F \o R
  <2>1. x \in Seq(Alphabet) /\ y \in Seq(Alphabet) /\ e \o F \in Seq(Alphabet)
    BY <1>10, ConcatProperties
  <2>2. (e \o F) \o R = e \o y
    BY <1>10, ConcatAssociative, SMTT(60)
  <2>3. e \o x = e \o y
    BY <1>3, <1>6, <1>7, <2>2
  <2> HIDE DEF x, y
  <2>4. Behind(e \o x, Len(e)) = x /\ Behind(e \o y, Len(e)) = y
    BY <1>10, <2>1, BehindAll
  <2>5. x = y
    BY <2>3, <2>4
  <2> QED
    BY <1>3, <2>1, <2>5 DEF x, y
<1>12. Same(b, w, F, R) /\ Plus(e, F, n) /\ Plus(n, R, all)
  BY <1>3, <1>6, <1>11 DEF Same, Plus
<1> QED
  BY <1>2, <1>4, <1>9, <1>10, <1>11, <1>12, <1>13 DEF NextFrame

LEMMA NextAgrees ==
  ASSUME NEW b \in Seq(Alphabet), NEW w \in Seq(Alphabet), NEW F \in Seq(Alphabet),
         NEW R \in Seq(Alphabet), Same(b, w, F, R)
  PROVE  /\ Agree(F, b) /\ (w = <<>> => Len(b) >= Len(F))
         /\ Len(b) >= Len(F) => Between(Alphabet, F, R, b, w, Behind(b, Len(F)))
<1>1. b \o w = F \o R
  BY DEF Same
<1> DEFINE x == b \o w
           y == F \o R
<1>2. /\ Len(x) = Len(b) + Len(w) /\ Len(y) = Len(F) + Len(R)
      /\ Len(b) \in Nat /\ Len(w) \in Nat /\ Len(F) \in Nat /\ Len(R) \in Nat
      /\ \A i \in 1 .. Len(b) + Len(w) : x[i] = IF i <= Len(b) THEN b[i] ELSE w[i - Len(b)]
      /\ \A i \in 1 .. Len(F) + Len(R) : y[i] = IF i <= Len(F) THEN F[i] ELSE R[i - Len(F)]
  BY ConcatProperties, LenProperties
<1>3. x = y
  BY <1>1
<1> HIDE DEF x, y
<1>4. Agree(F, b)
  <2> SUFFICES ASSUME NEW i \in 1 .. Len(F), i <= Len(b) PROVE b[i] = F[i]
    BY DEF Agree
  <2>1. i \in 1 .. Len(b) + Len(w) /\ i \in 1 .. Len(F) + Len(R) /\ i <= Len(F)
    BY <1>2
  <2>2. x[i] = b[i] /\ y[i] = F[i]
    BY <1>2, <2>1
  <2> QED
    BY <1>3, <2>2
<1>5. ASSUME w = <<>> PROVE Len(b) >= Len(F)
  <2>1. Len(w) = 0
    BY <1>5
  <2> QED
    BY <1>2, <1>3, <2>1
<1>6. ASSUME Len(b) >= Len(F) PROVE Between(Alphabet, F, R, b, w, Behind(b, Len(F)))
  <2>1. TwoCuts(Alphabet, F, R, b, w)
    BY <1>1, <1>2, <1>6 DEF TwoCuts
  <2> QED
    BY <2>1, BetweenCuts
<1> QED
  BY <1>4, <1>5, <1>6

\* A frame that is there is the next one.
OneHeard(frames, j, h, b, w, s, v, m) ==
  /\ IsResult(Frame(s, b), s, kSuccess, v, <<>>, <<m>>)
  /\ v \in Seq(Alphabet) /\ FramesHeard(frames, j + 1, h \o <<m>>, v, w)

LEMMA HearFrame ==
  ASSUME NEW frames \in Seq(ShortFrames), NEW j, NEW h,
         NEW b \in Seq(Alphabet), NEW w \in Seq(Alphabet), FramesHeard(frames, j, h, b, w),
         Complete(b), NEW s
  PROVE  \E v, m : OneHeard(frames, j, h, b, w, s, v, m)
<1>0. j \in 0 .. Len(frames) /\ Len(frames) \in Nat /\ h = Messages(SubSeq(frames, 1, j))
      /\ Joined(FramesBytes(SubSeq(frames, 1, j)), b, w, FramesBytes(frames))
  BY DEF FramesHeard
<1>1. CASE j = Len(frames)
  <2>1. SubSeq(frames, 1, j) = frames
    BY <1>1, FrontAll
  <2> DEFINE all == FramesBytes(frames)
             x == b \o w
  <2>2. all \in Seq(Byte) /\ Byte \subseteq Alphabet /\ x \in Seq(Alphabet)
    BY FramesIn, ConcatProperties DEF Byte, Alphabet
  <2>3. all \o x = all
    BY <1>0, <2>1 DEF Joined
  <2>4. Len(x) = Len(b) + Len(w) /\ Len(b) \in Nat /\ Len(w) \in Nat
    BY ConcatProperties, LenProperties
  <2> HIDE DEF all, x
  <2>5. all \in Seq(Alphabet)
    BY <2>2
  <2>6. Len(all \o x) = Len(all) + Len(x) /\ Len(all) \in Nat /\ Len(x) \in Nat
    BY <2>2, <2>5, ConcatProperties, LenProperties
  <2>7. Len(b) = 0
    BY <2>3, <2>4, <2>6
  <2> QED
    BY <2>7 DEF Complete
<1>2. CASE j # Len(frames)
  <2>1. PICK F, R : NextFrame(frames, j, b, w, F, R)
    BY <1>2, FrameIsNext
  <2> DEFINE f == frames[j + 1]
             m == f.message
             v == Behind(b, Len(F))
             e == FramesBytes(SubSeq(frames, 1, j))
             n == FramesBytes(SubSeq(frames, 1, j + 1))
             all == FramesBytes(frames)
  <2>2. /\ F = FrameBytes(f) /\ f \in ShortFrames /\ F \in Seq(Alphabet) /\ R \in Seq(Alphabet)
        /\ Same(b, w, F, R) /\ Plus(n, R, all)
        /\ Messages(SubSeq(frames, 1, j + 1)) = h \o <<m>>
    BY <1>0, <2>1 DEF NextFrame
  <2>3. Agree(F, b) /\ (Len(b) >= Len(F) => Between(Alphabet, F, R, b, w, v))
    BY <2>2, NextAgrees
  <2>4. f \in FrameSet /\ IsShort(f.message) /\ FrameForm(f, F)
    BY <2>2, FrameIn
  <2> HIDE DEF f, m, v, e, n, all
  <2>5. Len(b) >= Len(F)
    BY <2>3, <2>4, FrameComplete
  <2>6. IsResult(Frame(s, b), s, kSuccess, v, <<>>, <<m>>)
    BY <2>3, <2>4, <2>5, FrameRead DEF v, m
  <2>7. v \in Seq(Alphabet) /\ R = v \o w
    BY <2>3, <2>5 DEF Between
  <2>8. Joined(n, v, w, all)
    BY <2>2, <2>7 DEF Joined, Plus
  <2>9. j + 1 \in 0 .. Len(frames)
    BY <1>0, <1>2
  <2>10. FramesHeard(frames, j + 1, h \o <<m>>, v, w)
    BY <2>2, <2>8, <2>9 DEF FramesHeard, n, all
  <2> QED
    BY <2>6, <2>7, <2>10 DEF OneHeard
<1> QED
  BY <1>1, <1>2

\* When nothing is to come and no frame is there, all were heard.
LEMMA HeardAll ==
  ASSUME NEW frames \in Seq(ShortFrames), NEW j, NEW h,
         NEW b \in Seq(Alphabet), FramesHeard(frames, j, h, b, <<>>), ~Complete(b)
  PROVE  h = Messages(frames)
<1>0. j \in 0 .. Len(frames) /\ h = Messages(SubSeq(frames, 1, j))
  BY DEF FramesHeard
<1>1. CASE j = Len(frames)
  BY <1>0, <1>1, FrontAll
<1>2. CASE j # Len(frames)
  <2>0. <<>> \in Seq(Alphabet)
    OBVIOUS
  <2>1. PICK F, R : NextFrame(frames, j, b, <<>>, F, R)
    BY <1>2, <2>0, FrameIsNext
  <2> DEFINE f == frames[j + 1]
  <2>2. /\ F = FrameBytes(f) /\ f \in ShortFrames /\ F \in Seq(Alphabet) /\ R \in Seq(Alphabet)
        /\ Same(b, <<>>, F, R)
    BY <2>1 DEF NextFrame
  <2>3. Agree(F, b) /\ Len(b) >= Len(F)
    BY <2>0, <2>2, NextAgrees
  <2>4. f \in FrameSet /\ IsShort(f.message) /\ FrameForm(f, F)
    BY <2>2, FrameIn
  <2> HIDE DEF f
  <2> QED
    BY <2>3, <2>4, FrameComplete
<1> QED
  BY <1>1, <1>2

UpgradeReply(q) == Response(101, "upgrade", q.headers[CHOOSE i \in Keys(q) : TRUE][2])

Upgrading(s, t, d) == HttpSession(t) /\ t.parser = d.parser /\ (t.upgrade <=> d.ret = kSuccess)

LEMMA UpgradeSession ==
  ASSUME NEW s, HttpSession(s), NEW d, NEW t, t = [s EXCEPT !.parser = d.parser, !.upgrade = d.ret = kSuccess]
  PROVE  Upgrading(s, t, d)
<1> DEFINE b == (d.ret = kSuccess)
<1>1. t = [s EXCEPT !.parser = d.parser, !.upgrade = b] /\ b \in BOOLEAN /\ (b <=> d.ret = kSuccess)
  BY Zenon
<1> HIDE DEF b
<1>2. HttpSession(t) /\ t.parser = d.parser /\ t.upgrade = b
  BY <1>1 DEF HttpSession
<1> QED
  BY <1>1, <1>2 DEF Upgrading

UpgradeAnswer(q, r, t, d) ==
  IF Keys(q) = {} THEN IsResult(r, t, kClose, d.rest, <<>>, <<>>)
  ELSE IsResult(r, t, kSuccess, d.rest, <<UpgradeReply(q)>>, <<>>)

LEMMA UpgradeIs ==
  ASSUME NEW q, NEW s, HttpSession(s), NEW d, NEW w, NEW r, r = Upgrade(s, d),
         IsRequest("websocket", q)
  PROVE  \E t : /\ Upgrading(s, t, d)
                /\ d.ret # kSuccess => IsResult(r, t, d.ret, d.rest, <<>>, <<>>)
                /\ WholeDecoded(q, d, w) => UpgradeAnswer(q, r, t, d)
<1> DEFINE t == [s EXCEPT !.parser = d.parser, !.upgrade = d.ret = kSuccess]
<1>1. Upgrading(s, t, d)
  BY UpgradeSession
<1>2. r = IF d.ret # kSuccess THEN Result(t, d.ret, d.rest, <<>>, <<>>)
      ELSE IF KeyHeader \notin DOMAIN d.parser.header THEN Result(t, kClose, d.rest, <<>>, <<>>)
      ELSE Result(t, kSuccess, d.rest, <<Response(101, "upgrade", d.parser.header[KeyHeader])>>, <<>>)
  BY DEF Upgrade, KeyHeader
<1> HIDE DEF t
<1>3. ASSUME d.ret # kSuccess PROVE IsResult(r, t, d.ret, d.rest, <<>>, <<>>)
  <2>1. r = Result(t, d.ret, d.rest, <<>>, <<>>)
    BY <1>2, <1>3
  <2> QED
    BY <2>1, ResultIs
<1>4. ASSUME WholeDecoded(q, d, w) PROVE UpgradeAnswer(q, r, t, d)
  <2>1. d.ret = kSuccess /\ Told(d.parser.header, q.headers)
    BY <1>4 DEF WholeDecoded
  <2> DEFINE hs == q.headers
             header == d.parser.header
  <2>2. KeyHeader \in DOMAIN header <=> \E i \in DOMAIN hs : hs[i][1] = SecWebSocketKey
    BY <2>1 DEF Told
  <2>3. Keys(q) = {i \in DOMAIN hs : hs[i][1] = SecWebSocketKey}
    BY DEF Keys
  <2>4. CASE Keys(q) = {}
    <3>1. KeyHeader \notin DOMAIN header
      BY <2>2, <2>3, <2>4
    <3>2. r = Result(t, kClose, d.rest, <<>>, <<>>)
      BY <1>2, <2>1, <3>1
    <3>3. IsResult(r, t, kClose, d.rest, <<>>, <<>>)
      BY <3>2, ResultIs
    <3> QED
      BY <2>4, <3>3 DEF UpgradeAnswer
  <2>5. CASE Keys(q) # {}
    <3> DEFINE k == CHOOSE i \in Keys(q) : TRUE
    <3>1. k \in Keys(q)
      BY <2>5
    <3>2. UpgradeReply(q) = Response(101, "upgrade", hs[k][2])
      BY DEF UpgradeReply
    <3> HIDE DEF k
    <3>3. k \in DOMAIN hs /\ hs[k][1] = SecWebSocketKey
      BY <2>3, <3>1
    <3>4. KeyHeader \in DOMAIN header
      BY <2>2, <3>3
    <3>5. ~Has(Colon, hs[k][2]) /\ \A j \in DOMAIN hs : hs[j][1] = SecWebSocketKey => j = k
      <4>1. \A i, j \in Keys(q) : i = j
        BY DEF IsRequest
      <4>2. \A i \in Keys(q) : ~Has(Colon, q.headers[i][2])
        BY DEF IsRequest
      <4>3. \A j \in DOMAIN hs : hs[j][1] = SecWebSocketKey => j \in Keys(q)
        BY <2>3
      <4> QED
        BY <3>1, <4>1, <4>2, <4>3
    <3>6. header[KeyHeader] = hs[k][2]
      BY <2>1, <3>3, <3>5 DEF Told
    <3>7. r = Result(t, kSuccess, d.rest, <<UpgradeReply(q)>>, <<>>)
      BY <1>2, <2>1, <3>2, <3>4, <3>6
    <3> DEFINE a == <<UpgradeReply(q)>>
    <3> HIDE DEF a
    <3>8. r = Result(t, kSuccess, d.rest, a, <<>>)
      BY <3>7 DEF a
    <3>9. IsResult(r, t, kSuccess, d.rest, a, <<>>)
      BY <3>8, ResultIs
    <3> QED
      BY <2>5, <3>9 DEF UpgradeAnswer, a
  <2> QED
    BY <2>4, <2>5
<1> QED
  BY <1>1, <1>3, <1>4

-----------------------------------------------------------------------------
SocketWaits == ~session.upgrade /\ PageWaits

SocketClosed ==
  Keys(request) = {} /\ said = <<>> /\ heard = <<>> /\ state = "closed" /\ ~handling

FramesOf(q, h, b, w) ==
  IF q.written THEN \E j : FramesHeard(q.frames, j, h, b, w)
  ELSE h = <<>> /\ b = <<>> /\ w = <<>>

SocketOpen ==
  /\ session.upgrade /\ Keys(request) # {} /\ said = <<UpgradeReply(request)>> /\ state = "open"
  /\ FramesOf(request, heard, read_buffer_, wire)
  /\ ~handling => ~Complete(read_buffer_)

SocketInv ==
  protocol = "websocket" =>
    HttpTypes /\ HttpSession(session) /\ (SocketWaits \/ SocketClosed \/ SocketOpen)

LEMMA InitSocket == Init => SocketInv
<1> SUFFICES ASSUME Init, protocol = "websocket" PROVE HttpTypes /\ HttpSession(session) /\ SocketWaits
  BY DEF SocketInv
<1>1. PICK p \in DOMAIN Requests : \E q \in Requests[p] :
          /\ protocol = p /\ request = q /\ wire = Bytes(q)
          /\ session = IF p \in {"hls", "dash"} THEN <<>>
                       ELSE [parser |-> HttpParser, upgrade |-> FALSE]
  BY DEF Init
<1>2. PICK q \in Requests[p] : 
          /\ protocol = p /\ request = q /\ wire = Bytes(q)
          /\ session = IF p \in {"hls", "dash"} THEN <<>>
                       ELSE [parser |-> HttpParser, upgrade |-> FALSE]
  BY <1>1
<1>3. session = [parser |-> HttpParser, upgrade |-> FALSE]
  BY <1>2
<1>4. IsRequest(protocol, request)
  BY <1>2, RequestsAssumption
<1>5. IsHttp(request) /\ TailOf(request) \in Seq(Alphabet)
  BY <1>4, RequestIsHttp, SocketFrames
<1>6. /\ read_buffer_ = <<>> /\ said = <<>> /\ heard = <<>> /\ state = "open" /\ handling = FALSE
      /\ wire = Bytes(request)
  BY <1>2 DEF Init
<1>7. Bytes(request) \in Seq(Alphabet) /\ Pending(request, HttpParser, <<>>, Bytes(request))
  BY <1>5, PendingAtFirst
<1>8. session.parser = HttpParser /\ HttpSession(session) /\ ~session.upgrade
  BY <1>3 DEF HttpSession
<1>9. <<>> \in Seq(Alphabet)
  OBVIOUS
<1> QED
  BY <1>4, <1>6, <1>7, <1>8, <1>9 DEF HttpTypes, SocketWaits, PageWaits

LEMMA FramesMoved ==
  ASSUME NEW q, NEW h, NEW b, NEW w, FramesOf(q, h, b, w), NEW b2, NEW w2, Same(b2, w2, b, w),
         w # <<>>
  PROVE  FramesOf(q, h, b2, w2)
<1>1. q.written
  BY DEF FramesOf
<1>2. PICK j : FramesHeard(q.frames, j, h, b, w)
  BY <1>1 DEF FramesOf
<1>3. FramesHeard(q.frames, j, h, b2, w2)
  BY <1>2 DEF FramesHeard, Joined, Same
<1> QED
  BY <1>1, <1>3 DEF FramesOf

LEMMA SocketRead == ASSUME SocketInv, protocol = "websocket", OnRead PROVE SocketInv'
<1>1. HttpTypes /\ HttpSession(session) /\ (SocketWaits \/ SocketClosed \/ SocketOpen)
  BY DEF SocketInv
<1>2. wire \in Seq(Alphabet) /\ read_buffer_ \in Seq(Alphabet)
  BY <1>1 DEF HttpTypes
<1>3. /\ wire' \in Seq(Alphabet) /\ read_buffer_' \in Seq(Alphabet)
      /\ Same(read_buffer_', wire', read_buffer_, wire)
      /\ ~handling /\ state = "open" /\ handling' = TRUE
      /\ protocol' = protocol /\ request' = request /\ session' = session /\ said' = said
      /\ heard' = heard /\ state' = state /\ wire # <<>>
  BY <1>2, HttpRead
<1>4. HttpTypes' /\ HttpSession(session)'
  BY <1>1, <1>3 DEF HttpTypes, HttpSession
<1> DEFINE q == request
           p == session.parser
           b == read_buffer_
           w == wire
           b2 == read_buffer_'
           w2 == wire'
           h == heard
<1>5. CASE SocketWaits
  <2>1. b \in Seq(Alphabet) /\ w \in Seq(Alphabet) /\ Pending(q, p, b, w) /\ Same(b2, w2, b, w)
    BY <1>2, <1>3, <1>5 DEF SocketWaits, PageWaits
  <2> HIDE DEF q, p, b, w, b2, w2
  <2>2. Pending(q, p, b2, w2)
    BY <2>1, PendingRead
  <2>3. SocketWaits'
    BY <1>3, <1>5, <2>2 DEF SocketWaits, PageWaits, q, p, b2, w2
  <2> QED
    BY <1>4, <2>3 DEF SocketInv
<1>6. CASE SocketClosed
  BY <1>3, <1>6 DEF SocketClosed
<1>7. CASE SocketOpen
  <2>1. FramesOf(q, h, b, w) /\ w # <<>> /\ Same(b2, w2, b, w)
    BY <1>3, <1>7 DEF SocketOpen
  <2> HIDE DEF q, p, b, w, b2, w2, h
  <2>2. FramesOf(q, h, b2, w2)
    BY <2>1, FramesMoved
  <2>3. SocketOpen'
    BY <1>3, <1>7, <2>2 DEF SocketOpen, q, h, b2, w2
  <2> QED
    BY <1>4, <2>3 DEF SocketInv
<1> QED
  BY <1>1, <1>5, <1>6, <1>7

\* The turn that reads the rest of the request.
LEMMA SocketUpgrades ==
  ASSUME HttpTypes, HttpSession(session), SocketWaits, protocol = "websocket", HandleHttp
  PROVE  SocketInv'
<1> DEFINE q == request
           s == session
           b == read_buffer_
           w == wire
           d == Decode(session.parser, read_buffer_)
           r == Parse(session, read_buffer_)
<1>2. /\ session' = r.session /\ read_buffer_' = r.rest
      /\ said' = said \o r.said /\ heard' = heard \o r.heard
      /\ state' = After(r.ret) /\ handling' = (r.ret = kSuccess) /\ handling
      /\ protocol' = protocol /\ request' = request /\ wire' = wire
  BY DEF HandleHttp
<1>3. r = Upgrade(s, d)
  BY DEF Parse, WebSocketParse, SocketWaits
<1>4. IsRequest("websocket", q) /\ w \in Seq(Alphabet) /\ b \in Seq(Alphabet) /\ state = "open"
  BY <1>2 DEF HttpTypes
<1>5. IsHttp(q) /\ <<>> \in Seq(Alphabet) /\ TailOf(q) \in Seq(Alphabet)
  <2>1. IsHttp(q) /\ TailOf(q) \in Seq(Alphabet)
    BY <1>4, RequestIsHttp, SocketFrames
  <2>2. <<>> \in Seq(Alphabet)
    OBVIOUS
  <2> QED
    BY <2>1, <2>2
<1>6. d = Decode(s.parser, b) /\ HttpSession(s)
  OBVIOUS
<1>7. Pending(q, s.parser, b, w) /\ said = <<>> /\ heard = <<>>
  BY DEF SocketWaits, PageWaits
<1>8. q = request /\ w = wire
  OBVIOUS
<1> HIDE DEF q, s, b, w, d, r
<1>9. PartDecoded(q, d, w) \/ WholeDecoded(q, d, w)
  BY <1>4, <1>5, <1>6, <1>7, DecodeOf
<1>10. PICK t : /\ Upgrading(s, t, d)
                /\ d.ret # kSuccess => IsResult(r, t, d.ret, d.rest, <<>>, <<>>)
                /\ WholeDecoded(q, d, w) => UpgradeAnswer(q, r, t, d)
  BY <1>3, <1>4, <1>6, UpgradeIs
<1>11. HttpSession(t) /\ t.parser = d.parser /\ (t.upgrade <=> d.ret = kSuccess)
  BY <1>10 DEF Upgrading
<1>12. handling' \in BOOLEAN /\ (handling' => state' = "open") /\ IsRequest(protocol', request')
       /\ wire' \in Seq(Alphabet) /\ request' = q /\ wire' = w
  BY <1>2, <1>4, <1>8, AfterIs
<1>13. CASE PartDecoded(q, d, w)
  <2>1. d.ret = kNoEnoughData /\ d.rest = <<>> /\ Pending(q, d.parser, <<>>, w)
    BY <1>13 DEF PartDecoded
  <2>2. IsResult(r, t, kNoEnoughData, <<>>, <<>>, <<>>)
    BY <1>10, <2>1, AfterIs
  <2>3. /\ session' = t /\ read_buffer_' = <<>> /\ said' = <<>> /\ heard' = <<>>
        /\ state' = "open" /\ handling' = FALSE
    <3>1. <<>> \o <<>> = <<>>
      OBVIOUS
    <3>2. /\ r.session = t /\ r.ret = kNoEnoughData /\ r.rest = <<>> /\ r.said = <<>>
          /\ r.heard = <<>>
      BY <2>2 DEF IsResult
    <3>3. said' = <<>> /\ heard' = <<>>
      BY <1>2, <1>7, <3>1, <3>2
    <3> QED
      BY <1>2, <3>2, <3>3, AfterIs
  <2>4. ~t.upgrade
    BY <1>11, <2>1, AfterIs
  <2>5. SocketWaits'
    BY <1>11, <1>12, <2>1, <2>3, <2>4 DEF SocketWaits, PageWaits
  <2>6. HttpTypes' /\ HttpSession(session)'
    BY <1>5, <1>11, <1>12, <2>3 DEF HttpTypes, HttpSession
  <2> QED
    BY <2>5, <2>6 DEF SocketInv
<1>14. CASE WholeDecoded(q, d, w)
  <2>1. d.ret = kSuccess /\ d.rest \in Seq(Alphabet) /\ d.rest \o w = TailOf(q)
    BY <1>14 DEF WholeDecoded, Rests
  <2>2. UpgradeAnswer(q, r, t, d)
    BY <1>10, <1>14
  <2>3. CASE Keys(q) = {}
    <3>1. IsResult(r, t, kClose, d.rest, <<>>, <<>>)
      BY <2>2, <2>3 DEF UpgradeAnswer
    <3>2. /\ session' = t /\ read_buffer_' = d.rest /\ said' = <<>> /\ heard' = <<>>
          /\ state' = "closed" /\ handling' = FALSE
      <4>1. <<>> \o <<>> = <<>>
        OBVIOUS
      <4>2. /\ r.session = t /\ r.ret = kClose /\ r.rest = d.rest /\ r.said = <<>>
            /\ r.heard = <<>>
        BY <3>1 DEF IsResult
      <4>3. said' = <<>> /\ heard' = <<>>
        BY <1>2, <1>7, <4>1, <4>2
      <4> QED
        BY <1>2, <4>2, <4>3, AfterIs
    <3>3. SocketClosed'
      BY <1>12, <2>3, <3>2 DEF SocketClosed, Keys
    <3>4. HttpTypes' /\ HttpSession(session)'
      BY <1>11, <1>12, <2>1, <3>2 DEF HttpTypes, HttpSession
    <3> QED
      BY <3>3, <3>4 DEF SocketInv
  <2>4. CASE Keys(q) # {}
    <3> DEFINE a == <<UpgradeReply(q)>>
    <3>1. IsResult(r, t, kSuccess, d.rest, a, <<>>)
      BY <2>2, <2>4 DEF UpgradeAnswer
    <3>2. AtMostOne(a) /\ a = <<UpgradeReply(q)>>
      BY DEF AtMostOne
    <3> HIDE DEF a
    <3>3. <<>> \o a = a
      BY <3>2, ConcatNone
    <3>4. /\ session' = t /\ read_buffer_' = d.rest /\ said' = a /\ heard' = <<>>
          /\ state' = "open" /\ handling' = TRUE
      <4>1. <<>> \o <<>> = <<>>
        OBVIOUS
      <4>2. r.session = t /\ r.ret = kSuccess /\ r.rest = d.rest /\ r.said = a /\ r.heard = <<>>
        BY <3>1 DEF IsResult
      <4>3. said' = a
        BY <1>2, <1>7, <3>3, <4>2
      <4>4. heard' = <<>>
        BY <1>2, <1>7, <4>1, <4>2
      <4> QED
        BY <1>2, <4>2, <4>3, <4>4, AfterIs
    <3>5. FramesOf(q, <<>>, d.rest, w)
      <4>1. CASE q.written
        <5> DEFINE all == FramesBytes(q.frames)
                   front == SubSeq(q.frames, 1, 0)
        <5>1. d.rest \o w = all /\ all \in Seq(Alphabet)
          BY <1>4, <2>1, <4>1, SocketFrames DEF TailOf
        <5>2. q.frames \in Seq(ShortFrames) /\ Len(q.frames) \in Nat
          BY <1>4, SocketFrames, LenProperties
        <5>3. front = <<>>
          BY <5>2
        <5>4. FramesBytes(front) = <<>> /\ Messages(front) = <<>>
          BY <5>3, NoFrames, NoMessages
        <5>5. <<>> \o all = all
          <6> HIDE DEF all
          <6> QED
            BY <5>1
        <5>6. 0 \in 0 .. Len(q.frames)
          BY <5>2
        <5> HIDE DEF all
        <5>7. Joined(FramesBytes(front), d.rest, w, all)
          BY <5>1, <5>4, <5>5 DEF Joined
        <5>8. FramesHeard(q.frames, 0, <<>>, d.rest, w)
          BY <5>4, <5>6, <5>7 DEF FramesHeard, all
        <5> QED
          BY <4>1, <5>8 DEF FramesOf
      <4>2. CASE ~q.written
        <5>1. d.rest \o w = <<>>
          BY <2>1, <4>2 DEF TailOf
        <5>2. Len(d.rest \o w) = Len(d.rest) + Len(w) /\ Len(d.rest) \in Nat /\ Len(w) \in Nat
          BY <1>4, <2>1, ConcatProperties, LenProperties
        <5>3. Len(d.rest) = 0 /\ Len(w) = 0
          <6>1. Len(d.rest \o w) = 0
            BY <5>1
          <6> QED
            BY <5>2, <6>1
        <5>4. d.rest = <<>> /\ w = <<>>
          BY <1>4, <2>1, <5>3, EmptySeq
        <5> QED
          BY <4>2, <5>4 DEF FramesOf
      <4> QED
        BY <4>1, <4>2
    <3>6. session'.upgrade
      BY <1>11, <2>1, <3>4
    <3>7. SocketOpen'
      BY <1>12, <2>4, <3>2, <3>4, <3>5, <3>6 DEF SocketOpen
    <3>8. HttpTypes' /\ HttpSession(session)'
      BY <1>11, <1>12, <2>1, <3>4 DEF HttpTypes, HttpSession
    <3> QED
      BY <3>7, <3>8 DEF SocketInv
  <2> QED
    BY <2>3, <2>4
<1> QED
  BY <1>9, <1>13, <1>14

\* A turn that reads a frame, or finds none.
LEMMA SocketHears ==
  ASSUME HttpTypes, HttpSession(session), SocketOpen, protocol = "websocket", HandleHttp
  PROVE  SocketInv'
<1> DEFINE q == request
           s == session
           b == read_buffer_
           w == wire
           h == heard
           r == Parse(session, read_buffer_)
<1>2. /\ session' = r.session /\ read_buffer_' = r.rest
      /\ said' = said \o r.said /\ heard' = heard \o r.heard
      /\ state' = After(r.ret) /\ handling' = (r.ret = kSuccess) /\ handling
      /\ protocol' = protocol /\ request' = request /\ wire' = wire
  BY DEF HandleHttp
<1>3. r = IF Complete(b) THEN Frame(s, b) ELSE Waits(s, b)
  BY DEF Parse, WebSocketParse, SocketOpen
<1>4. IsRequest("websocket", q) /\ w \in Seq(Alphabet) /\ b \in Seq(Alphabet) /\ state = "open"
  BY <1>2 DEF HttpTypes
<1>5. FramesOf(q, h, b, w) /\ s.upgrade /\ Keys(q) # {} /\ said = <<UpgradeReply(q)>>
  BY DEF SocketOpen
<1>6. said \o <<>> = said
  <2>1. AtMostOne(said)
    BY <1>5 DEF AtMostOne
  <2> QED
    BY <2>1, ConcatNone
<1>7. q = request /\ w = wire /\ h = heard /\ s = session /\ HttpSession(s)
  OBVIOUS
<1> HIDE DEF q, s, b, w, h, r
<1>8. handling' \in BOOLEAN /\ (handling' => state' = "open") /\ IsRequest(protocol', request')
       /\ wire' \in Seq(Alphabet) /\ request' = q /\ wire' = w
  BY <1>2, <1>4, <1>7, AfterIs
<1>9. CASE Complete(b)
  <2>1. q.written
    <3> SUFFICES ASSUME ~q.written PROVE FALSE
      OBVIOUS
    <3>1. b = <<>>
      BY <1>5 DEF FramesOf
    <3>2. Len(b) = 0
      BY <3>1
    <3> QED
      BY <1>9, <3>2 DEF Complete
  <2>2. PICK j : FramesHeard(q.frames, j, h, b, w)
    BY <1>5, <2>1 DEF FramesOf
  <2> DEFINE fs == q.frames
  <2>3. fs \in Seq(ShortFrames) /\ FramesHeard(fs, j, h, b, w)
    BY <1>4, <2>2, SocketFrames
  <2>4. fs = q.frames
    OBVIOUS
  <2> HIDE DEF fs
  <2>5. PICK v, m : OneHeard(fs, j, h, b, w, s, v, m)
    BY <1>4, <1>9, <2>3, HearFrame
  <2>6. /\ IsResult(r, s, kSuccess, v, <<>>, <<m>>) /\ v \in Seq(Alphabet)
        /\ FramesHeard(fs, j + 1, h \o <<m>>, v, w)
    BY <1>3, <1>9, <2>5 DEF OneHeard
  <2>7. FramesOf(q, h \o <<m>>, v, w)
    BY <2>1, <2>4, <2>6 DEF FramesOf
  <2>8. /\ session' = s /\ read_buffer_' = v /\ said' = said /\ heard' = h \o <<m>>
        /\ state' = "open" /\ handling' = TRUE
    BY <1>2, <1>6, <1>7, <2>6, AfterIs DEF IsResult
  <2>9. SocketOpen'
    BY <1>5, <1>8, <2>7, <2>8 DEF SocketOpen
  <2>10. HttpTypes' /\ HttpSession(session)'
    BY <1>7, <1>8, <2>6, <2>8 DEF HttpTypes, HttpSession
  <2> QED
    BY <2>9, <2>10 DEF SocketInv
<1>10. CASE ~Complete(b)
  <2>1. r = Result(s, kNoEnoughData, b, <<>>, <<>>)
    BY <1>3, <1>10 DEF Waits
  <2>2. IsResult(r, s, kNoEnoughData, b, <<>>, <<>>)
    BY <2>1, ResultIs
  <2>3. h \o <<>> = h
    <3>1. ASSUME NEW x, NEW S, x \in Seq(S) PROVE x \o <<>> = x
      BY <3>1
    <3>2. \E S : h \in Seq(S)
      <4>1. CASE q.written
        <5>1. PICK j : FramesHeard(q.frames, j, h, b, w)
          BY <1>5, <4>1 DEF FramesOf
        <5>2. h = Messages(SubSeq(q.frames, 1, j)) /\ j \in 0 .. Len(q.frames)
          BY <5>1 DEF FramesHeard
        <5>3. SubSeq(q.frames, 1, j) \in Seq(ShortFrames)
          BY <1>4, <5>2, SocketFrames, FrontProperties
        <5>4. ASSUME NEW z \in Seq(ShortFrames) PROVE \E S : Messages(z) \in Seq(S)
          <6>1. DOMAIN z = 1 .. Len(z) /\ Len(z) \in Nat
            BY LenProperties
          <6>2. Messages(z) \in Seq({z[i].message : i \in 1 .. Len(z)})
            BY <6>1 DEF Messages
          <6> QED
            BY <6>2
        <5> QED
          BY <5>2, <5>3, <5>4
      <4>2. CASE ~q.written
        <5>1. h = <<>>
          BY <1>5, <4>2 DEF FramesOf
        <5>2. <<>> \in Seq({})
          OBVIOUS
        <5> QED
          BY <5>1, <5>2
      <4> QED
        BY <4>1, <4>2
    <3> QED
      BY <3>1, <3>2
  <2>4. /\ session' = s /\ read_buffer_' = b /\ said' = said /\ heard' = h
        /\ state' = "open" /\ handling' = FALSE
    BY <1>2, <1>6, <1>7, <2>2, <2>3, AfterIs DEF IsResult
  <2>5. SocketOpen'
    BY <1>5, <1>8, <1>10, <2>4 DEF SocketOpen
  <2>6. HttpTypes' /\ HttpSession(session)'
    BY <1>4, <1>7, <1>8, <2>4 DEF HttpTypes, HttpSession
  <2> QED
    BY <2>5, <2>6 DEF SocketInv
<1> QED
  BY <1>9, <1>10

LEMMA SocketHandle == ASSUME SocketInv, protocol = "websocket", HandleHttp PROVE SocketInv'
<1>1. HttpTypes /\ HttpSession(session) /\ (SocketWaits \/ SocketClosed \/ SocketOpen)
  BY DEF SocketInv
<1>2. ~SocketClosed
  BY DEF SocketClosed, HandleHttp
<1> QED
  BY <1>1, <1>2, SocketUpgrades, SocketHears

\* The frames are written when the answer has come.
LEMMA SocketRequest ==
  ASSUME NEW q, q \in HttpRequest, q.query # <<>> => q.query[1] = Query,
         \A i, j \in Keys(q) : i = j, \A i \in Keys(q) : ~Has(Colon, q.headers[i][2]),
         \A i \in DOMAIN q.frames : Len(q.frames[i].message) < 65536
  PROVE  IsRequest("websocket", q)
BY DEF IsRequest

LEMMA LikeRequest ==
  ASSUME NEW q, IsRequest("websocket", q), NEW q2, q2 \in HttpRequest,
         q2.headers = q.headers, q2.frames = q.frames, q2.query = q.query
  PROVE  IsRequest("websocket", q2) /\ Keys(q2) = Keys(q)
<1>1. Keys(q2) = Keys(q)
  BY DEF Keys
<1>2. \A i \in Keys(q) : ~Has(Colon, q.headers[i][2])
  BY DEF IsRequest
<1>3. \A i \in DOMAIN q.frames : Len(q.frames[i].message) < 65536
  BY DEF IsRequest
<1>4. (\A i, j \in Keys(q) : i = j) /\ (q.query # <<>> => q.query[1] = Query)
  BY DEF IsRequest
<1>5. \A i \in Keys(q2) : ~Has(Colon, q2.headers[i][2])
  BY <1>1, <1>2
<1>6. \A i \in DOMAIN q2.frames : Len(q2.frames[i].message) < 65536
  BY <1>3
<1>7. (\A i, j \in Keys(q2) : i = j) /\ (q2.query # <<>> => q2.query[1] = Query)
  BY <1>1, <1>4
<1> QED
  BY <1>1, <1>5, <1>6, <1>7, SocketRequest

LEMMA WrittenIs ==
  ASSUME NEW q, IsRequest("websocket", q), NEW q2, q2 = [q EXCEPT !.written = TRUE]
  PROVE  /\ IsRequest("websocket", q2) /\ Keys(q2) = Keys(q) /\ q2.headers = q.headers
         /\ q2.frames = q.frames /\ q2.written
<1>1. q \in HttpRequest
  BY DEF IsRequest
<1>2. /\ q2 \in HttpRequest /\ q2.headers = q.headers /\ q2.frames = q.frames /\ q2.written
      /\ q2.query = q.query
  <2>1. q2 \in HttpRequest
    BY <1>1, ZenonT(60) DEF HttpRequest
  <2>2. q2.headers = q.headers /\ q2.frames = q.frames /\ q2.query = q.query
    BY <1>1 DEF HttpRequest
  <2>3. q2.written
    BY <1>1, Zenon DEF HttpRequest
  <2> QED
    BY <2>1, <2>2, <2>3
<1>3. IsRequest("websocket", q2) /\ Keys(q2) = Keys(q)
  BY <1>2, LikeRequest
<1> QED
  BY <1>2, <1>3

LEMMA SocketGoesOn == ASSUME SocketInv, protocol = "websocket", GoOn PROVE SocketInv'
<1>1. HttpTypes /\ HttpSession(session) /\ (SocketWaits \/ SocketClosed \/ SocketOpen)
  BY DEF SocketInv
<1>2. /\ said # <<>> /\ state = "open" /\ ~request.written
      /\ request' = [request EXCEPT !.written = TRUE]
      /\ wire' = wire \o FramesBytes(request.frames)
      /\ protocol' = protocol /\ read_buffer_' = read_buffer_ /\ handling' = handling
      /\ session' = session /\ said' = said /\ heard' = heard /\ state' = state
  BY DEF GoOn
<1>3. SocketOpen
  BY <1>1, <1>2 DEF SocketWaits, PageWaits, SocketClosed
<1> DEFINE q == request
           q2 == request'
           fs == q.frames
           all == FramesBytes(fs)
<1>4. IsRequest("websocket", q) /\ ~q.written /\ q2 = [q EXCEPT !.written = TRUE]
      /\ fs \in Seq(ShortFrames) /\ all \in Seq(Alphabet)
  <2>1. IsRequest("websocket", q)
    BY <1>1 DEF HttpTypes
  <2> QED
    BY <1>2, <2>1, SocketFrames
<1>5. heard = <<>> /\ read_buffer_ = <<>> /\ wire = <<>>
  BY <1>3, <1>4 DEF SocketOpen, FramesOf
<1>6. q = request /\ q2 = request' /\ fs = q.frames /\ all = FramesBytes(fs)
  OBVIOUS
<1> HIDE DEF q, q2, fs, all
<1>7. IsRequest("websocket", q2) /\ Keys(q2) = Keys(q) /\ q2.headers = q.headers
      /\ q2.frames = fs /\ q2.written
  BY <1>4, <1>6, WrittenIs
<1>8. wire' = all
  <2>1. <<>> \o all = all
    BY <1>4
  <2> QED
    BY <1>2, <1>5, <1>6, <2>1
<1>9. FramesOf(q2, <<>>, <<>>, all)
  <2> DEFINE front == SubSeq(fs, 1, 0)
  <2>1. front = <<>> /\ Len(fs) \in Nat
    BY <1>4
  <2>2. FramesBytes(front) = <<>> /\ Messages(front) = <<>> /\ 0 \in 0 .. Len(fs)
    <3>1. 0 \in 0 .. Len(fs)
      BY <2>1
    <3>2. front = <<>>
      BY <2>1
    <3> HIDE DEF front
    <3> QED
      BY <3>1, <3>2, NoFrames, NoMessages
  <2>3. <<>> \o (<<>> \o all) = all
    BY <1>4
  <2>4. Joined(FramesBytes(front), <<>>, all, all)
    BY <2>2, <2>3 DEF Joined
  <2>5. FramesHeard(fs, 0, <<>>, <<>>, all)
    BY <1>6, <2>2, <2>4 DEF FramesHeard
  <2> QED
    BY <1>7, <2>5 DEF FramesOf
<1>10. UpgradeReply(q2) = UpgradeReply(q)
  BY <1>7 DEF UpgradeReply
<1>11. SocketOpen'
  <2>1. session.upgrade /\ Keys(q) # {} /\ said = <<UpgradeReply(q)>>
        /\ (~handling => ~Complete(read_buffer_))
    BY <1>3, <1>6 DEF SocketOpen
  <2>2. FramesOf(q2, heard', read_buffer_', wire')
    BY <1>2, <1>5, <1>8, <1>9
  <2> QED
    BY <1>2, <1>6, <1>7, <1>10, <2>1, <2>2 DEF SocketOpen
<1>12. HttpTypes' /\ HttpSession(session)'
  BY <1>1, <1>2, <1>4, <1>6, <1>7, <1>8 DEF HttpTypes, HttpSession
<1> QED
  BY <1>11, <1>12 DEF SocketInv

LEMMA SocketStays ==
  ASSUME SocketInv, protocol = "websocket", HandleRtmp \/ Send \/ UNCHANGED vars
  PROVE  SocketInv'
<1>1. /\ protocol' = protocol /\ request' = request /\ wire' = wire /\ read_buffer_' = read_buffer_
      /\ handling' = handling /\ session' = session /\ said' = said /\ heard' = heard
      /\ state' = state
  BY DEF HandleRtmp, Send, vars
<1>2. HttpTypes' = HttpTypes /\ HttpSession(session)' = HttpSession(session)
  BY <1>1 DEF HttpTypes, HttpSession
<1>3. SocketWaits' = SocketWaits
  BY <1>1 DEF SocketWaits, PageWaits
<1>4. SocketClosed' = SocketClosed
  BY <1>1 DEF SocketClosed, Keys
<1>5. SocketOpen' = SocketOpen
  BY <1>1 DEF SocketOpen, Keys, FramesOf
<1> QED
  BY <1>1, <1>2, <1>3, <1>4, <1>5 DEF SocketInv

LEMMA SocketNow ==
  ASSUME SocketInv, protocol = "websocket"
  PROVE  AnsweredAsAsked
<1> SUFFICES ASSUME wire = <<>>, ~handling PROVE Got = WebSocketExpected(request)
  BY DEF AnsweredAsAsked, Expected
<1>1. HttpTypes /\ HttpSession(session) /\ (SocketWaits \/ SocketClosed \/ SocketOpen)
  BY DEF SocketInv
<1>2. IsRequest("websocket", request)
  BY <1>1 DEF HttpTypes
<1>3. CASE SocketWaits
  <2>1. Pending(request, session.parser, <<>>, <<>>)
    BY <1>3 DEF SocketWaits, PageWaits
  <2>2. IsHttp(request) /\ TailOf(request) \in Seq(Alphabet)
    BY <1>2, RequestIsHttp, SocketFrames
  <2> QED
    BY <2>1, <2>2, PendingMore
<1>4. CASE SocketClosed
  BY <1>4 DEF SocketClosed, Got, WebSocketExpected, Silence
<1>5. CASE SocketOpen
  <2> DEFINE q == request
             b == read_buffer_
             h == heard
             fs == q.frames
             x == IF q.written THEN [i \in DOMAIN fs |-> fs[i].message] ELSE <<>>
             e == [Served(101, "upgrade", q.headers[CHOOSE i \in Keys(q) : TRUE][2]) EXCEPT !.heard = x]
  <2>1. Keys(q) # {} /\ said = <<UpgradeReply(q)>> /\ state = "open"
        /\ FramesOf(q, h, b, <<>>) /\ ~Complete(b)
    BY <1>5 DEF SocketOpen
  <2>2. WebSocketExpected(q) = e
    BY <2>1 DEF WebSocketExpected
  <2>3. h = x
    <3>1. CASE q.written
      <4>1. PICK j : FramesHeard(q.frames, j, h, b, <<>>)
        BY <2>1, <3>1 DEF FramesOf
      <4>2. fs \in Seq(ShortFrames) /\ FramesHeard(fs, j, h, b, <<>>) /\ b \in Seq(Alphabet)
        BY <1>1, <1>2, <4>1, SocketFrames DEF HttpTypes
      <4>3. Messages(fs) = x
        BY <3>1 DEF Messages
      <4> HIDE DEF fs, h, b, x
      <4> QED
        BY <2>1, <4>2, <4>3, HeardAll
    <3>2. CASE ~q.written
      BY <2>1, <3>2 DEF FramesOf
    <3> QED
      BY <3>1, <3>2
  <2>4. h = heard /\ q = request
    OBVIOUS
  <2>5. e = [said |-> <<UpgradeReply(q)>>, heard |-> x, state |-> "open"]
    <3> DEFINE y == UpgradeReply(q)
               z == Served(101, "upgrade", q.headers[CHOOSE i \in Keys(q) : TRUE][2])
    <3>1. z = [said |-> <<y>>, heard |-> <<>>, state |-> "open"] /\ e = [z EXCEPT !.heard = x]
      BY DEF Served, UpgradeReply
    <3> HIDE DEF x, y, z, e
    <3>2. e = [said |-> <<y>>, heard |-> x, state |-> "open"]
      BY <3>1
    <3> QED
      BY <3>2 DEF y
  <2> HIDE DEF x, h, q, e
  <2> QED
    BY <2>1, <2>2, <2>3, <2>4, <2>5 DEF Got
<1> QED
  BY <1>1, <1>3, <1>4, <1>5

-----------------------------------------------------------------------------
(* HLS and DASH: what the slashes of the request line tell.                *)

FS(spaces, slashes, dots, app, stream, name, type) ==
  [spaces |-> spaces, slashes |-> slashes, dots |-> dots, app |-> app, stream |-> stream,
   name |-> name, type |-> type]

LEMMA FieldMarks ==
  ASSUME NEW sp \in Nat, NEW sl \in Nat, NEW dt \in Nat, NEW a, NEW s, NEW n, NEW t
  PROVE  /\ Field(FS(sp, sl, dt, a, s, n, t), Space) = FS(sp + 1, sl, dt, a, s, n, t)
         /\ Field(FS(sp, sl, dt, a, s, n, t), Slash) = FS(sp, sl + 1, dt, a, s, n, t)
         /\ Field(FS(sp, sl, dt, a, s, n, t), Dot) = FS(sp, sl, dt + 1, a, s, n, t)
BY MarksDiffer DEF Field, FS

LEMMA FieldWord ==
  ASSUME NEW sp \in Nat, NEW sl \in Nat, NEW dt \in Nat, NEW a, NEW s, NEW n, NEW t,
         NEW c, c # Space, c # Slash, c # Dot
  PROVE  Field(FS(sp, sl, dt, a, s, n, t), c) =
           IF sl = 1 THEN FS(sp, sl, dt, Append(a, c), s, n, t)
           ELSE IF sl = 2 THEN FS(sp, sl, dt, a, Append(s, c), n, t)
           ELSE IF sl = 3 /\ sp < 2 /\ dt = 1 THEN FS(sp, sl, dt, a, s, n, Append(t, c))
           ELSE IF sl = 3 /\ sp < 2 THEN FS(sp, sl, dt, a, s, Append(n, c), t)
           ELSE FS(sp, sl, dt, a, s, n, t)
<1> DEFINE f == FS(sp, sl, dt, a, s, n, t)
<1>1. /\ f.spaces = sp /\ f.slashes = sl /\ f.dots = dt /\ f.app = a /\ f.stream = s
      /\ f.name = n /\ f.type = t
      /\ DOMAIN f = {"spaces", "slashes", "dots", "app", "stream", "name", "type"}
  BY DEF FS
<1>2. /\ [f EXCEPT !.app = Append(@, c)] = FS(sp, sl, dt, Append(a, c), s, n, t)
      /\ [f EXCEPT !.stream = Append(@, c)] = FS(sp, sl, dt, a, Append(s, c), n, t)
      /\ [f EXCEPT !.name = Append(@, c)] = FS(sp, sl, dt, a, s, Append(n, c), t)
      /\ [f EXCEPT !.type = Append(@, c)] = FS(sp, sl, dt, a, s, n, Append(t, c))
  <2> DEFINE A == Append(f.app, c)
             B == Append(f.stream, c)
             C == Append(f.name, c)
             D == Append(f.type, c)
  <2>1. /\ A = Append(a, c) /\ B = Append(s, c) /\ C = Append(n, c) /\ D = Append(t, c)
    BY <1>1
  <2> HIDE DEF A, B, C, D
  <2>2. [f EXCEPT !.app = A] = FS(sp, sl, dt, A, s, n, t)
    BY DEF FS
  <2>3. [f EXCEPT !.stream = B] = FS(sp, sl, dt, a, B, n, t)
    BY DEF FS
  <2>4. [f EXCEPT !.name = C] = FS(sp, sl, dt, a, s, C, t)
    BY DEF FS
  <2>5. [f EXCEPT !.type = D] = FS(sp, sl, dt, a, s, n, D)
    BY DEF FS
  <2> HIDE DEF f
  <2>6. [f EXCEPT !.app = Append(@, c)] = [f EXCEPT !.app = A]
    BY DEF A
  <2>7. [f EXCEPT !.stream = Append(@, c)] = [f EXCEPT !.stream = B]
    BY DEF B
  <2>8. [f EXCEPT !.name = Append(@, c)] = [f EXCEPT !.name = C]
    BY DEF C
  <2>9. [f EXCEPT !.type = Append(@, c)] = [f EXCEPT !.type = D]
    BY DEF D
  <2> QED
    BY <2>1, <2>2, <2>3, <2>4, <2>5, <2>6, <2>7, <2>8, <2>9
<1>3. f = FS(sp, sl, dt, a, s, n, t)
  OBVIOUS
<1> HIDE DEF f
<1> QED
  BY <1>1, <1>2, <1>3, ZenonT(60) DEF Field

LEMMA FSIn ==
  ASSUME NEW S, NEW sp \in Nat, NEW sl \in Nat, NEW dt \in Nat, NEW a \in Seq(S), NEW s \in Seq(S),
         NEW n \in Seq(S), NEW t \in Seq(S)
  PROVE  FS(sp, sl, dt, a, s, n, t) \in FieldStates(S)
BY DEF FS, FieldStates

LEMMA FieldTwo ==
  ASSUME NEW S, NEW s \in FieldStates(S), NEW c \in S, NEW d \in S
  PROVE  FieldScan(s, <<c, d>>) = Field(Field(s, c), d)
<1> DEFINE t == <<c>>
<1>0. FieldScan(s, <<c>>) = Field(s, c)
  BY FieldOne
<1>1. t \in Seq(S) /\ Append(t, d) = <<c, d>> /\ FieldScan(s, t) = Field(s, c)
  <2> DEFINE u == Append(t, d)
             v == <<c, d>>
  <2>1. t \in Seq(S) /\ Len(t) = 1 /\ t[1] = c
    OBVIOUS
  <2>2. v \in Seq(S) /\ Len(v) = 2 /\ v[1] = c /\ v[2] = d
    OBVIOUS
  <2> HIDE DEF t, v
  <2>3. u \in Seq(S) /\ Len(u) = 2 /\ u[1] = c /\ u[2] = d
    <3>1. u = Append(t, d)
      OBVIOUS
    <3> HIDE DEF u
    <3>2. u \in Seq(S) /\ Len(u) = Len(t) + 1 /\ u[Len(t) + 1] = d /\ \A i \in 1 .. Len(t) : u[i] = t[i]
      BY <2>1, <3>1, AppendHas
    <3> QED
      BY <2>1, <3>2
  <2> HIDE DEF u
  <2>4. \A i \in 1 .. 2 : i = 1 \/ i = 2
    OBVIOUS
  <2>5. \A i \in 1 .. 2 : u[i] = v[i]
    BY <2>2, <2>3, <2>4
  <2>6. u = v
    BY <2>2, <2>3, <2>5, SeqEqual
  <2> QED
    BY <1>0, <2>1, <2>6 DEF t, u, v
<1> HIDE DEF t
<1>2. FieldScan(s, Append(t, d)) = Field(FieldScan(s, t), d)
  BY <1>1, FieldAppend, ZenonT(60)
<1> QED
  BY <1>1, <1>2

PlainChars(S) == S \ {Space, Slash, Dot}

\* Words behind the first slash, the second, the third.
LEMMA FieldApp ==
  ASSUME NEW S, NEW sp \in Nat, NEW dt \in Nat, NEW a \in Seq(S), NEW s \in Seq(S), NEW n \in Seq(S),
         NEW t \in Seq(S), NEW w \in Seq(PlainChars(S))
  PROVE  FieldScan(FS(sp, 1, dt, a, s, n, t), w) = FS(sp, 1, dt, a \o w, s, n, t)
<1> DEFINE one == 1
           f == FS(sp, one, dt, a, s, n, t)
           W == PlainChars(S)
           T == {v \in Seq(W) : FieldScan(f, v) = FS(sp, one, dt, a \o v, s, n, t)}
<1>0. one = 1 /\ one \in Nat /\ W \subseteq S
  BY DEF PlainChars
<1> HIDE DEF one
<1>1. f \in FieldStates(S)
  BY <1>0, FSIn
<1>2. <<>> \in T
  <2>1. a \o <<>> = a /\ FieldScan(f, <<>>) = f
    BY <1>1, FieldNone
  <2> QED
    BY <2>1
<1>3. ASSUME NEW v \in Seq(W), NEW c \in W, v \in T PROVE Append(v, c) \in T
  <2> DEFINE b == a \o v
             g == FS(sp, one, dt, b, s, n, t)
  <2>1. v \in Seq(S) /\ c \in S /\ Append(v, c) \in Seq(W)
    BY <1>0, AppendProperties
  <2>2. b \in Seq(S) /\ Append(b, c) = a \o Append(v, c)
    <3>1. a \o Append(v, c) = Append(a \o v, c)
      BY <2>1, ConcatAppend
    <3>2. a \o v \in Seq(S)
      BY <2>1, ConcatProperties
    <3> QED
      BY <3>1, <3>2
  <2>3. FieldScan(f, v) = g
    BY <1>3
  <2> HIDE DEF f, b
  <2>4. FieldScan(f, Append(v, c)) = Field(FieldScan(f, v), c)
    BY <1>1, <2>1, FieldAppend
  <2>5. Field(g, c) = FS(sp, one, dt, Append(b, c), s, n, t)
    BY <1>0, FieldWord DEF PlainChars
  <2> HIDE DEF g
  <2> QED
    BY <2>1, <2>2, <2>3, <2>4, <2>5
<1> HIDE DEF T
<1>4. w \in T
  BY <1>2, <1>3, SeqUp
<1> QED
  BY <1>4 DEF T, f, one

LEMMA FieldStream ==
  ASSUME NEW S, NEW sp \in Nat, NEW dt \in Nat, NEW a \in Seq(S), NEW s \in Seq(S), NEW n \in Seq(S),
         NEW t \in Seq(S), NEW w \in Seq(PlainChars(S))
  PROVE  FieldScan(FS(sp, 2, dt, a, s, n, t), w) = FS(sp, 2, dt, a, s \o w, n, t)
<1> DEFINE two == 2
           f == FS(sp, two, dt, a, s, n, t)
           W == PlainChars(S)
           T == {v \in Seq(W) : FieldScan(f, v) = FS(sp, two, dt, a, s \o v, n, t)}
<1>0. two = 2 /\ two \in Nat /\ W \subseteq S
  BY DEF PlainChars
<1> HIDE DEF two
<1>1. f \in FieldStates(S)
  BY <1>0, FSIn
<1>2. <<>> \in T
  <2>1. s \o <<>> = s /\ FieldScan(f, <<>>) = f
    BY <1>1, FieldNone
  <2> QED
    BY <2>1
<1>3. ASSUME NEW v \in Seq(W), NEW c \in W, v \in T PROVE Append(v, c) \in T
  <2> DEFINE b == s \o v
             g == FS(sp, two, dt, a, b, n, t)
  <2>1. v \in Seq(S) /\ c \in S /\ Append(v, c) \in Seq(W)
    BY <1>0, AppendProperties
  <2>2. b \in Seq(S) /\ Append(b, c) = s \o Append(v, c)
    <3>1. s \o Append(v, c) = Append(s \o v, c)
      BY <2>1, ConcatAppend
    <3>2. s \o v \in Seq(S)
      BY <2>1, ConcatProperties
    <3> QED
      BY <3>1, <3>2
  <2>3. FieldScan(f, v) = g
    BY <1>3
  <2> HIDE DEF f, b
  <2>4. FieldScan(f, Append(v, c)) = Field(FieldScan(f, v), c)
    BY <1>1, <2>1, FieldAppend
  <2>5. Field(g, c) = FS(sp, two, dt, a, Append(b, c), n, t)
    BY <1>0, FieldWord DEF PlainChars
  <2> HIDE DEF g
  <2> QED
    BY <2>1, <2>2, <2>3, <2>4, <2>5
<1> HIDE DEF T
<1>4. w \in T
  BY <1>2, <1>3, SeqUp
<1> QED
  BY <1>4 DEF T, f, two

LEMMA FieldName ==
  ASSUME NEW S, NEW a \in Seq(S), NEW s \in Seq(S), NEW n \in Seq(S),
         NEW t \in Seq(S), NEW w \in Seq(PlainChars(S))
  PROVE  FieldScan(FS(1, 3, 0, a, s, n, t), w) = FS(1, 3, 0, a, s, n \o w, t)
<1> DEFINE three == 3
           one == 1
           zero == 0
           f == FS(one, three, zero, a, s, n, t)
           W == PlainChars(S)
           T == {v \in Seq(W) : FieldScan(f, v) = FS(one, three, zero, a, s, n \o v, t)}
<1>0. /\ three \in Nat /\ one \in Nat /\ zero \in Nat /\ W \subseteq S
      /\ three # 1 /\ three # 2 /\ three = 3 /\ one < 2 /\ zero # 1
  BY DEF PlainChars
<1> HIDE DEF one, three, zero
<1>1. f \in FieldStates(S)
  BY <1>0, FSIn
<1>2. <<>> \in T
  <2>1. n \o <<>> = n /\ FieldScan(f, <<>>) = f
    BY <1>1, FieldNone
  <2> QED
    BY <2>1
<1>3. ASSUME NEW v \in Seq(W), NEW c \in W, v \in T PROVE Append(v, c) \in T
  <2> DEFINE b == n \o v
             g == FS(one, three, zero, a, s, b, t)
  <2>1. v \in Seq(S) /\ c \in S /\ Append(v, c) \in Seq(W)
    BY <1>0, AppendProperties
  <2>2. b \in Seq(S) /\ Append(b, c) = n \o Append(v, c)
    <3>1. n \o Append(v, c) = Append(n \o v, c)
      BY <2>1, ConcatAppend
    <3>2. n \o v \in Seq(S)
      BY <2>1, ConcatProperties
    <3> QED
      BY <3>1, <3>2
  <2>3. FieldScan(f, v) = g
    BY <1>3
  <2> HIDE DEF f, b
  <2>4. FieldScan(f, Append(v, c)) = Field(FieldScan(f, v), c)
    BY <1>1, <2>1, FieldAppend
  <2>5. Field(g, c) = FS(one, three, zero, a, s, Append(b, c), t)
    BY <1>0, FieldWord DEF PlainChars
  <2> HIDE DEF g
  <2> QED
    BY <2>1, <2>2, <2>3, <2>4, <2>5
<1> HIDE DEF T
<1>4. w \in T
  BY <1>2, <1>3, SeqUp
<1> QED
  BY <1>4 DEF T, f, one, three, zero

\* A word behind so many marks.
WordOn(sp, sl, dt, a, s, n, t, c) ==
  IF sl = 1 THEN FS(sp, sl, dt, Append(a, c), s, n, t)
  ELSE IF sl = 2 THEN FS(sp, sl, dt, a, Append(s, c), n, t)
  ELSE IF sl = 3 /\ sp < 2 /\ dt = 1 THEN FS(sp, sl, dt, a, s, n, Append(t, c))
  ELSE IF sl = 3 /\ sp < 2 THEN FS(sp, sl, dt, a, s, Append(n, c), t)
  ELSE FS(sp, sl, dt, a, s, n, t)

\* The words and marks of a request line, one behind the other.
NoWords == <<>>
StartState == FS(1, 0, 0, NoWords, NoWords, NoWords, NoWords)

LEMMA RequestChars ==
  /\ {Space, Slash, Dot} \subseteq KeyChars /\ Words \subseteq PlainChars(KeyChars)
  /\ GET \in PlainChars(KeyChars) /\ HEAD \in PlainChars(KeyChars)
  /\ HTTP \in PlainChars(KeyChars) /\ One \in PlainChars(KeyChars)
  /\ PlainChars(KeyChars) \subseteq KeyChars /\ NoWords \in Seq(KeyChars)
<1>1. \A w \in Words : w # Space /\ w # Slash /\ w # Dot
  BY WordIsNoMark
<1>2. {GET, HEAD} \cap {Space, Slash, Dot} = {} /\ HTTP \in Words /\ One \in Words
  BY WordsAssumption DEF Marks
<1>3. Words \subseteq KeyChars /\ Slash \in KeyChars /\ Dot \in KeyChars
  BY DEF KeyChars, UrlChars
<1>4. <<>> \in Seq(KeyChars)
  OBVIOUS
<1> QED
  BY <1>1, <1>2, <1>3, <1>4, KeyCharIs DEF PlainChars, NoWords

Following(k) == k + 1

LEMMA SpaceWord ==
  ASSUME NEW sp, NEW sl, NEW dt, NEW a, NEW s, NEW n, NEW t,
         FS(sp, sl, dt, a, s, n, t) \in FieldStates(KeyChars), NEW c \in PlainChars(KeyChars)
  PROVE  FieldScan(FS(sp, sl, dt, a, s, n, t), <<Space, c>>) = WordOn(Following(sp), sl, dt, a, s, n, t, c)
<1> DEFINE f == FS(sp, sl, dt, a, s, n, t)
<1>1. f \in FieldStates(KeyChars)
  OBVIOUS
<1>2. c \in KeyChars /\ c # Space /\ c # Slash /\ c # Dot /\ Space \in KeyChars
  BY RequestChars DEF PlainChars
<1>3. ASSUME NEW x \in Nat, NEW y \in Nat, NEW z \in Nat
      PROVE  Field(FS(x, y, z, a, s, n, t), c) = WordOn(x, y, z, a, s, n, t, c)
  BY <1>2, FieldWord DEF WordOn
<1>4. sp \in Nat /\ sl \in Nat /\ dt \in Nat
  BY <1>1 DEF FS, FieldStates
<1>5. Field(f, Space) = FS(Following(sp), sl, dt, a, s, n, t)
  BY <1>4, FieldMarks DEF Following
<1>6. f = FS(sp, sl, dt, a, s, n, t) /\ Following(sp) \in Nat
  BY <1>4 DEF Following
<1> HIDE DEF f
<1>7. FieldScan(f, <<Space, c>>) = Field(Field(f, Space), c)
  BY <1>1, <1>2, FieldTwo
<1> QED
  BY <1>3, <1>4, <1>5, <1>6, <1>7

LEMMA SlashWord ==
  ASSUME NEW sp, NEW sl, NEW dt, NEW a, NEW s, NEW n, NEW t,
         FS(sp, sl, dt, a, s, n, t) \in FieldStates(KeyChars), NEW c \in PlainChars(KeyChars)
  PROVE  FieldScan(FS(sp, sl, dt, a, s, n, t), <<Slash, c>>) = WordOn(sp, Following(sl), dt, a, s, n, t, c)
<1> DEFINE f == FS(sp, sl, dt, a, s, n, t)
<1>1. f \in FieldStates(KeyChars)
  OBVIOUS
<1>2. c \in KeyChars /\ c # Space /\ c # Slash /\ c # Dot /\ Slash \in KeyChars
  BY RequestChars DEF PlainChars
<1>3. ASSUME NEW x \in Nat, NEW y \in Nat, NEW z \in Nat
      PROVE  Field(FS(x, y, z, a, s, n, t), c) = WordOn(x, y, z, a, s, n, t, c)
  BY <1>2, FieldWord DEF WordOn
<1>4. sp \in Nat /\ sl \in Nat /\ dt \in Nat
  BY <1>1 DEF FS, FieldStates
<1>5. Field(f, Slash) = FS(sp, Following(sl), dt, a, s, n, t)
  BY <1>4, FieldMarks DEF Following
<1>6. f = FS(sp, sl, dt, a, s, n, t) /\ Following(sl) \in Nat
  BY <1>4 DEF Following
<1> HIDE DEF f
<1>7. FieldScan(f, <<Slash, c>>) = Field(Field(f, Slash), c)
  BY <1>1, <1>2, FieldTwo
<1> QED
  BY <1>3, <1>4, <1>5, <1>6, <1>7

LEMMA DotWord ==
  ASSUME NEW sp, NEW sl, NEW dt, NEW a, NEW s, NEW n, NEW t,
         FS(sp, sl, dt, a, s, n, t) \in FieldStates(KeyChars), NEW c \in PlainChars(KeyChars)
  PROVE  FieldScan(FS(sp, sl, dt, a, s, n, t), <<Dot, c>>) = WordOn(sp, sl, Following(dt), a, s, n, t, c)
<1> DEFINE f == FS(sp, sl, dt, a, s, n, t)
<1>1. f \in FieldStates(KeyChars)
  OBVIOUS
<1>2. c \in KeyChars /\ c # Space /\ c # Slash /\ c # Dot /\ Dot \in KeyChars
  BY RequestChars DEF PlainChars
<1>3. ASSUME NEW x \in Nat, NEW y \in Nat, NEW z \in Nat
      PROVE  Field(FS(x, y, z, a, s, n, t), c) = WordOn(x, y, z, a, s, n, t, c)
  BY <1>2, FieldWord DEF WordOn
<1>4. sp \in Nat /\ sl \in Nat /\ dt \in Nat
  BY <1>1 DEF FS, FieldStates
<1>5. Field(f, Dot) = FS(sp, sl, Following(dt), a, s, n, t)
  BY <1>4, FieldMarks DEF Following
<1>6. f = FS(sp, sl, dt, a, s, n, t) /\ Following(dt) \in Nat
  BY <1>4 DEF Following
<1> HIDE DEF f
<1>7. FieldScan(f, <<Dot, c>>) = Field(Field(f, Dot), c)
  BY <1>1, <1>2, FieldTwo
<1> QED
  BY <1>3, <1>4, <1>5, <1>6, <1>7

LEMMA FieldsStart ==
  ASSUME NEW m \in Words \cup {GET, HEAD}
  PROVE  FieldScan(NoFields, <<m, Space>>) = StartState /\ NoFields \in FieldStates(KeyChars)
         /\ StartState \in FieldStates(KeyChars)
<1> DEFINE zero == 0
           one == 1
           e == NoWords
           f == FS(zero, zero, zero, e, e, e, e)
<1>1. NoFields = f /\ StartState = FS(one, zero, zero, e, e, e, e)
  BY DEF NoFields, FS, NoWords, StartState
<1>2. zero \in Nat /\ one \in Nat /\ zero + 1 = one /\ zero # 1 /\ zero # 2 /\ zero # 3
  OBVIOUS
<1>3. e \in Seq(KeyChars) /\ m \in KeyChars /\ Space \in KeyChars /\ m # Space /\ m # Slash /\ m # Dot
  BY RequestChars DEF PlainChars
<1> HIDE DEF zero, one, e
<1>4. f \in FieldStates(KeyChars) /\ FS(one, zero, zero, e, e, e, e) \in FieldStates(KeyChars)
  BY <1>2, <1>3, FSIn
<1>5. Field(f, m) = f
  BY <1>2, <1>3, FieldWord
<1>6. Field(f, Space) = FS(one, zero, zero, e, e, e, e)
  BY <1>2, FieldMarks
<1> HIDE DEF f
<1>7. FieldScan(f, <<m, Space>>) = Field(Field(f, m), Space)
  BY <1>3, <1>4, FieldTwo
<1> QED
  BY <1>1, <1>4, <1>5, <1>6, <1>7

FieldScanned(s, a, r) == r = FieldScan(s, a)

\* The line is scanned piece by piece.
FiveScans(q, s1, s2, s3, s4) ==
  /\ FieldScanned(StartState, Directories(q.dirs), s1)
  /\ FieldScanned(s1, <<Slash>>, s2)
  /\ FieldScanned(s2, q.name, s3)
  /\ FieldScanned(s3, <<Dot, q.type>>, s4)
  /\ FieldScanned(s4, Version, Fields(NoFields, KeyBytes(q)))

LEMMA FieldScanIn ==
  ASSUME NEW S, NEW s \in FieldStates(S), NEW a \in Seq(S)
  PROVE  FieldScan(s, a) \in FieldStates(S)
<1>1. CASE a = <<>>
  BY <1>1, FieldNone
<1>2. CASE a # <<>>
  <2>1. PICK c : c \in S
    BY <1>2, EmptySeq
  <2> QED
    BY <2>1, FieldAppend
<1> QED
  BY <1>1, <1>2

LEMMA FieldsOfNone ==
  ASSUME NEW key
  PROVE  Fields(NoFields, key) = FieldScan(NoFields, key)
<1> DEFINE f == NoFields
           g == [f EXCEPT !.spaces = 0]
           h == [g EXCEPT !.slashes = 0]
<1>1. g = f /\ h = f /\ [h EXCEPT !.dots = 0] = f
  <2>1. g = f
    BY DEF NoFields
  <2> HIDE DEF g
  <2>2. h = f
    BY <2>1 DEF NoFields
  <2> HIDE DEF h
  <2>3. [h EXCEPT !.dots = 0] = f
    BY <2>2 DEF NoFields
  <2> QED
    BY <2>1, <2>2, <2>3
<1>2. [f EXCEPT !.spaces = 0, !.slashes = 0, !.dots = 0] = [h EXCEPT !.dots = 0]
  BY Zenon
<1> HIDE DEF f, g, h
<1> QED
  BY <1>1, <1>2, Zenon DEF Fields, f

LEMMA FieldsInFive ==
  ASSUME NEW q, IsHttp(q), q.query = <<>>
  PROVE  \E s1, s2, s3, s4 : FiveScans(q, s1, s2, s3, s4)
<1> DEFINE K == KeyChars
           d == Directories(q.dirs)
           slash == <<Slash>>
           name == q.name
           ext == <<Dot, q.type>>
           first == <<q.method, Space>>
           u1 == d \o slash
           u2 == u1 \o name
           u3 == u2 \o ext
           url == RequestUrl(q)
           start == first \o url
           s1 == FieldScan(StartState, d)
           s2 == FieldScan(s1, slash)
           s3 == FieldScan(s2, name)
           s4 == FieldScan(s3, ext)
<1>1. /\ q.method \in Words \cup {GET, HEAD} /\ q.dirs \in Seq(Words) /\ name \in Seq(Words)
      /\ q.type \in Words
  BY HttpFields DEF IsHttp
<1>2. /\ d \in Seq(K) /\ slash \in Seq(K) /\ name \in Seq(K) /\ ext \in Seq(K) /\ first \in Seq(K)
      /\ Version \in Seq(K)
  <2>1. {Space, Slash, Dot} \subseteq K /\ Words \subseteq K /\ UrlChars \subseteq K
        /\ GET \in K /\ HEAD \in K /\ HTTP \in K /\ One \in K
    BY RequestChars, KeyCharIs DEF PlainChars
  <2>2. d \in Seq(UrlChars)
    BY <1>1, DirectoriesPath
  <2>3. d \in Seq(K)
    <3> HIDE DEF d, K
    <3> QED
      BY <2>1, <2>2
  <2>4. slash \in Seq(K) /\ name \in Seq(K) /\ ext \in Seq(K) /\ first \in Seq(K)
    BY <1>1, <2>1
  <2>5. Version \in Seq(K)
    BY <2>1 DEF Version
  <2> QED
    BY <2>3, <2>4, <2>5
<1>3. url = u3
  <2>1. url = u3 \o <<>>
    BY DEF RequestUrl
  <2>2. u1 \in Seq(K) /\ u2 \in Seq(K) /\ u3 \in Seq(K)
    <3> HIDE DEF d, slash, name, ext, K
    <3>1. u1 \in Seq(K)
      BY <1>2, ConcatProperties
    <3> HIDE DEF u1
    <3>2. u2 \in Seq(K)
      BY <1>2, <3>1, ConcatProperties
    <3> HIDE DEF u2
    <3>3. u3 \in Seq(K)
      BY <1>2, <3>2, ConcatProperties
    <3> QED
      BY <3>1, <3>2, <3>3
  <2> HIDE DEF u3, url, K
  <2> QED
    BY <2>1, <2>2, ConcatEmptySeq
<1>4. KeyBytes(q) = start \o Version
  BY DEF KeyBytes
<1>5. Fields(NoFields, KeyBytes(q)) = FieldScan(NoFields, KeyBytes(q))
  <2> HIDE DEF url, start, u3, u2, u1, d, K
  <2> QED
    BY FieldsOfNone
<1>6. FieldScan(NoFields, first) = StartState /\ NoFields \in FieldStates(K)
      /\ StartState \in FieldStates(K)
  BY <1>1, FieldsStart
<1>7. s1 = FieldScan(StartState, d) /\ s2 = FieldScan(s1, slash) /\ s3 = FieldScan(s2, name)
      /\ s4 = FieldScan(s3, ext)
  OBVIOUS
<1> HIDE DEF K, d, slash, name, ext, first, s1, s2, s3, s4
<1>8. u1 \in Seq(K) /\ FieldScan(StartState, u1) = s2 /\ s1 \in FieldStates(K) /\ s2 \in FieldStates(K)
  <2>1. u1 \in Seq(K)
    BY <1>2, ConcatProperties
  <2>2. s1 \in FieldStates(K)
    BY <1>2, <1>6, <1>7, FieldScanIn
  <2>3. s2 \in FieldStates(K)
    BY <1>2, <2>2, <1>7, FieldScanIn
  <2>4. FieldScan(StartState, u1) = FieldScan(FieldScan(StartState, d), slash)
    BY <1>2, <1>6, FieldConcat
  <2> QED
    BY <1>7, <2>1, <2>2, <2>3, <2>4
<1> HIDE DEF u1
<1>9. u2 \in Seq(K) /\ FieldScan(StartState, u2) = s3 /\ s3 \in FieldStates(K)
  <2>1. u2 \in Seq(K)
    BY <1>2, <1>8, ConcatProperties
  <2>2. s3 \in FieldStates(K)
    BY <1>2, <1>7, <1>8, FieldScanIn
  <2>3. FieldScan(StartState, u2) = FieldScan(FieldScan(StartState, u1), name)
    BY <1>2, <1>6, <1>8, FieldConcat
  <2> QED
    BY <1>7, <1>8, <2>1, <2>2, <2>3
<1> HIDE DEF u2
<1>10. u3 \in Seq(K) /\ FieldScan(StartState, u3) = s4 /\ s4 \in FieldStates(K)
  <2>1. u3 \in Seq(K)
    BY <1>2, <1>9, ConcatProperties
  <2>2. s4 \in FieldStates(K)
    BY <1>2, <1>7, <1>9, FieldScanIn
  <2>3. FieldScan(StartState, u3) = FieldScan(FieldScan(StartState, u2), ext)
    BY <1>2, <1>6, <1>9, FieldConcat
  <2> QED
    BY <1>7, <1>9, <2>1, <2>2, <2>3
<1> HIDE DEF u3, url
<1>11. start \in Seq(K) /\ FieldScan(NoFields, start) = s4
  <2>1. url \in Seq(K) /\ start \in Seq(K)
    BY <1>2, <1>3, <1>10, ConcatProperties
  <2>2. FieldScan(NoFields, start) = FieldScan(FieldScan(NoFields, first), url)
    BY <1>2, <1>6, <2>1, FieldConcat
  <2> QED
    BY <1>3, <1>6, <1>10, <2>1, <2>2
<1> HIDE DEF start
<1>12. FieldScan(NoFields, start \o Version) = FieldScan(FieldScan(NoFields, start), Version)
  BY <1>2, <1>6, <1>11, FieldConcat
<1>13. Fields(NoFields, KeyBytes(q)) = FieldScan(s4, Version)
  BY <1>4, <1>5, <1>11, <1>12
<1>14. FiveScans(q, s1, s2, s3, s4)
  BY <1>7, <1>13 DEF FiveScans, FieldScanned, d, slash, name, ext
<1> QED
  BY <1>14

\* The end of the line.
LEMMA FieldsVersion ==
  ASSUME NEW s \in FieldStates(KeyChars)
  PROVE  FieldScan(s, Version) =
           FieldScan(FieldScan(FieldScan(s, <<Space, HTTP>>), <<Slash, One>>), <<Dot, One>>)
<1> DEFINE K == KeyChars
           a == <<Space, HTTP>>
           b == <<Slash, One>>
           c == <<Dot, One>>
           x == a \o b
<1>1. a \in Seq(K) /\ b \in Seq(K) /\ c \in Seq(K) /\ Version = (a \o b) \o c
  <2>1. {Space, Slash, Dot} \subseteq K /\ HTTP \in K /\ One \in K
    BY RequestChars DEF PlainChars
  <2>2. a \in Seq(K) /\ b \in Seq(K) /\ c \in Seq(K) /\ Version \in Seq(K)
        /\ Len(a) = 2 /\ Len(b) = 2 /\ Len(c) = 2 /\ Len(Version) = 6
        /\ a[1] = Space /\ a[2] = HTTP /\ b[1] = Slash /\ b[2] = One /\ c[1] = Dot /\ c[2] = One
        /\ Version[1] = Space /\ Version[2] = HTTP /\ Version[3] = Slash /\ Version[4] = One
        /\ Version[5] = Dot /\ Version[6] = One
    BY <2>1 DEF Version
  <2> DEFINE y == x \o c
             v == Version
  <2>3. x = a \o b /\ y = x \o c /\ v = Version
    OBVIOUS
  <2> HIDE DEF a, b, c, K, x, y, v
  <2>4. x \in Seq(K) /\ Len(x) = 4 /\ x[1] = a[1] /\ x[2] = a[2] /\ x[3] = b[1] /\ x[4] = b[2]
    <3>1. Plus(a, b, x)
      BY <2>3 DEF Plus
    <3>2. Cat(K, a, b, x)
      BY <2>2, <3>1, CatIs
    <3>3. x \in Seq(K) /\ Len(x) = Len(a) + Len(b)
          /\ (\A i \in 1 .. Len(a) : x[i] = a[i]) /\ \A i \in 1 .. Len(b) : x[Len(a) + i] = b[i]
      BY <3>2 DEF Cat
    <3> QED
      BY <2>2, <3>3
  <2>5. y \in Seq(K) /\ Len(y) = 6 /\ y[1] = x[1] /\ y[2] = x[2] /\ y[3] = x[3] /\ y[4] = x[4]
        /\ y[5] = c[1] /\ y[6] = c[2]
    <3>1. Plus(x, c, y)
      BY <2>3 DEF Plus
    <3>2. Cat(K, x, c, y)
      BY <2>2, <2>4, <3>1, CatIs
    <3>3. y \in Seq(K) /\ Len(y) = Len(x) + Len(c)
          /\ (\A i \in 1 .. Len(x) : y[i] = x[i]) /\ \A i \in 1 .. Len(c) : y[Len(x) + i] = c[i]
      BY <3>2 DEF Cat
    <3> QED
      BY <2>2, <2>4, <3>3
  <2>6. \A i \in 1 .. 6 : i \in {1, 2, 3, 4, 5, 6}
    OBVIOUS
  <2>7. \A i \in 1 .. 6 : y[i] = v[i]
    BY <2>2, <2>3, <2>4, <2>5, <2>6
  <2>8. y = v
    BY <2>2, <2>3, <2>5, <2>7, SeqEqual
  <2> QED
    BY <2>2, <2>3, <2>8
<1>2. x = a \o b
  OBVIOUS
<1> HIDE DEF a, b, c, K, x
<1>3. x \in Seq(K) /\ s \in FieldStates(K)
  BY <1>1, <1>2, ConcatProperties DEF K
<1>4. FieldScan(s, x) = FieldScan(FieldScan(s, a), b)
  BY <1>1, <1>2, <1>3, FieldConcat
<1>5. FieldScan(s, x \o c) = FieldScan(FieldScan(s, x), c)
  BY <1>1, <1>3, FieldConcat
<1> QED
  BY <1>1, <1>2, <1>4, <1>5 DEF a, b, c

LEMMA OneDirectory ==
  ASSUME NEW d \in Words, NEW ds, ds = Append(<<>>, d)
  PROVE  /\ Directories(ds) \in Seq(KeyChars)
         /\ FieldScan(StartState, Directories(ds)) = FS(1, 1, 0, <<d>>, NoWords, NoWords, NoWords)
<1> DEFINE zero == 0
           one == 1
           e == NoWords
           D == Directories(ds)
<1>1. zero \in Nat /\ one \in Nat /\ Following(zero) = one /\ one = 1
  BY DEF Following
<1>2. e \in Seq(KeyChars) /\ d \in PlainChars(KeyChars) /\ {Space, Slash, Dot} \subseteq KeyChars
      /\ d \in KeyChars /\ Slash \in KeyChars
  BY RequestChars
<1>3. D = <<Slash, d>>
  <2> DEFINE n == <<>>
             v == <<Slash, d>>
  <2>1. Directories(n) = <<>>
    BY NoDirectories
  <2>2. n \in Seq(KeyChars) /\ n = <<>> /\ v \in Seq(KeyChars) /\ v = <<Slash, d>> /\ D = Directories(Append(n, d))
    BY <1>2
  <2> HIDE DEF n, v, D
  <2>3. D = Directories(n) \o <<Slash, d>>
    BY <1>2, <2>2, DirectoriesAppend
  <2>4. <<>> \o v = v
    BY <2>2
  <2> QED
    BY <2>1, <2>2, <2>3, <2>4
<1>4. Append(e, d) = <<d>>
  BY DEF NoWords
<1> HIDE DEF zero, one, e, D
<1>5. FieldScan(FS(one, zero, zero, e, e, e, e), <<Slash, d>>) = WordOn(one, Following(zero), zero, e, e, e, e, d)
  <2>1. FS(one, zero, zero, e, e, e, e) \in FieldStates(KeyChars)
    BY <1>1, <1>2 DEF FS, FieldStates
  <2> QED
    BY <1>1, <1>2, <2>1, SlashWord
<1>6. WordOn(one, one, zero, e, e, e, e, d) = FS(one, one, zero, Append(e, d), e, e, e)
  BY <1>1 DEF WordOn
<1>7. StartState = FS(one, zero, zero, e, e, e, e)
  BY DEF StartState, one, zero, e
<1>8. FieldScan(StartState, D) = FS(one, one, zero, <<d>>, e, e, e)
  BY <1>1, <1>3, <1>4, <1>5, <1>6, <1>7
<1>9. D \in Seq(KeyChars)
  BY <1>2, <1>3
<1> QED
  BY <1>8, <1>9 DEF D, one, zero, e

LEMMA TwoDirectories ==
  ASSUME NEW d1 \in Words, NEW d2 \in Words, NEW ds, ds = Append(Append(<<>>, d1), d2)
  PROVE  FieldScan(StartState, Directories(ds)) = FS(1, 2, 0, <<d1>>, <<d2>>, NoWords, NoWords)
<1> DEFINE zero == 0
           one == 1
           two == 2
           e == NoWords
           t == Append(<<>>, d1)
           T == Directories(t)
           D == Directories(ds)
           a == <<d1>>
           v == <<Slash, d2>>
<1>1. zero \in Nat /\ one \in Nat /\ Following(zero) = one /\ one = 1 /\ Following(one) = two /\ two = 2
  BY DEF Following
<1>2. e \in Seq(KeyChars) /\ {d1, d2} \subseteq PlainChars(KeyChars) /\ {Space, Slash, Dot} \subseteq KeyChars
      /\ {d1, d2} \subseteq KeyChars /\ Slash \in KeyChars /\ d1 \in KeyChars
  BY RequestChars
<1>3. T \in Seq(KeyChars) /\ FieldScan(StartState, T) = FS(one, one, zero, a, e, e, e)
  BY OneDirectory
<1>4. t \in Seq(KeyChars) /\ a \in Seq(KeyChars) /\ v \in Seq(KeyChars) /\ Append(e, d2) = <<d2>>
  BY <1>2 DEF NoWords
<1>5. StartState \in FieldStates(KeyChars)
  <2>1. HTTP \in Words \cup {GET, HEAD}
    BY WordsAssumption
  <2> QED
    BY <2>1, FieldsStart
<1>6. ds = Append(t, d2) /\ T = Directories(t) /\ D = Directories(ds)
  OBVIOUS
<1> HIDE DEF zero, one, two, e, t, T, D, a
<1>7. D = T \o v
  <2>1. Directories(Append(t, d2)) = Directories(t) \o <<Slash, d2>>
    BY <1>2, <1>4, DirectoriesAppend
  <2> QED
    BY <1>6, <2>1
<1>8. v = <<Slash, d2>>
  OBVIOUS
<1> HIDE DEF v
<1>9. FieldScan(StartState, T \o v) = FieldScan(FieldScan(StartState, T), v)
  BY <1>3, <1>4, <1>5, FieldConcat
<1>13. /\ {Space, Slash, Dot} \subseteq KeyChars /\ one \in Nat /\ zero \in Nat
       /\ a \in Seq(KeyChars) /\ e \in Seq(KeyChars) /\ d2 \in PlainChars(KeyChars)
  BY <1>1, <1>2, <1>4
<1>10. FieldScan(FS(one, one, zero, a, e, e, e), <<Slash, d2>>) = WordOn(one, Following(one), zero, a, e, e, e, d2)
  <2>1. FS(one, one, zero, a, e, e, e) \in FieldStates(KeyChars)
    BY <1>13 DEF FS, FieldStates
  <2> QED
    BY <1>13, <2>1, SlashWord
<1>11. WordOn(one, two, zero, a, e, e, e, d2) = FS(one, two, zero, a, Append(e, d2), e, e)
  BY <1>1 DEF WordOn
<1>12. FieldScan(StartState, D) = FS(one, two, zero, a, <<d2>>, e, e)
  BY <1>1, <1>3, <1>4, <1>7, <1>8, <1>9, <1>10, <1>11
<1> QED
  BY <1>12 DEF D, one, zero, two, e, a

LEMMA UpToTwo ==
  ASSUME NEW ds \in Seq(Words), Len(ds) <= 2
  PROVE  \/ ds = <<>>
         \/ \E d \in Words : ds = Append(<<>>, d)
         \/ Len(ds) = 2 /\ ds[1] \in Words /\ ds[2] \in Words /\ ds = Append(Append(<<>>, ds[1]), ds[2])
<1>1. Len(ds) \in Nat
  OBVIOUS
<1>2. Len(ds) = 0 \/ Len(ds) = 1 \/ Len(ds) = 2
  <2>1. ASSUME NEW l \in Nat, l <= 2 PROVE l = 0 \/ l = 1 \/ l = 2
    BY <2>1
  <2> QED
    BY <1>1, <2>1
<1>3. CASE Len(ds) = 0
  BY <1>3, EmptySeq
<1>4. CASE Len(ds) = 1
  <2>1. ds[1] \in Words
    BY <1>4
  <2>2. ds = <<ds[1]>>
    BY <1>4
  <2>3. <<ds[1]>> = Append(<<>>, ds[1])
    OBVIOUS
  <2> QED
    BY <2>1, <2>2, <2>3
<1>5. CASE Len(ds) = 2
  <2>1. ds[1] \in Words /\ ds[2] \in Words
    BY <1>5
  <2>2. ds = <<ds[1], ds[2]>>
    BY <1>5
  <2>3. <<ds[1], ds[2]>> = Append(Append(<<>>, ds[1]), ds[2])
    OBVIOUS
  <2> QED
    BY <1>5, <2>1, <2>2, <2>3
<1> QED
  BY <1>2, <1>3, <1>4, <1>5

\* What a request line tells: the stream and the file if there are two parts
\* before the last, and if not, no stream there is.
AskedFields(q, f) ==
  /\ Len(q.dirs) = 2 => f.app = <<q.dirs[1]>> /\ f.stream = <<q.dirs[2]>> /\ f.name = q.name
                        /\ f.type = <<q.type>>
  /\ Len(q.dirs) # 2 => f.app # <<>> /\ f.stream # <<>> /\ Len(f.stream) # 1

FileFields(a, b, name, type, f) ==
  f.app = a /\ f.stream = b /\ f.name = name /\ f.type = <<type>>

NoStreamFields(f) == f.app # <<>> /\ f.stream # <<>> /\ Len(f.stream) # 1

\* The line behind the directories.
LineFrom(s1, name, type, f) ==
  \E s2, s3, s4 :
    /\ FieldScanned(s1, <<Slash>>, s2) /\ FieldScanned(s2, name, s3)
    /\ FieldScanned(s3, <<Dot, type>>, s4) /\ FieldScanned(s4, Version, f)

LEMMA OneMore == ASSUME NEW x PROVE Append(<<x>>, x) = <<x, x>>
<1> DEFINE y == <<x>>
           z == <<x, x>>
<1>1. y = Append(<<>>, x)
  OBVIOUS
<1>2. z = Append(Append(<<>>, x), x)
  OBVIOUS
<1> HIDE DEF y, z
<1>3. Append(y, x) = z
  BY <1>1, <1>2
<1> QED
  BY <1>3 DEF y, z

LEMMA FileAskedFor ==
  ASSUME NEW d1 \in Words, NEW d2 \in Words, NEW name \in Seq(Words), name # <<>>, NEW type \in Words, NEW f,
         LineFrom(FS(1, 2, 0, <<d1>>, <<d2>>, NoWords, NoWords), name, type, f)
  PROVE  FileFields(<<d1>>, <<d2>>, name, type, f)
<1> DEFINE zero == 0
           one == 1
           two == 2
           three == 3
           four == 4
           e == NoWords
           a == <<d1>>
           b == <<d2>>
           t == <<type>>
           s1 == FS(one, two, zero, a, b, e, e)
<1>1. /\ zero \in Nat /\ one \in Nat /\ two \in Nat /\ three \in Nat /\ four \in Nat
      /\ Following(zero) = one /\ Following(one) = two /\ Following(two) = three
      /\ Following(three) = four
      /\ zero = 0 /\ one = 1 /\ two = 2 /\ three = 3 /\ four = 4
  BY DEF Following
<1>2. /\ {Space, Slash, Dot} \subseteq KeyChars /\ Words \subseteq PlainChars(KeyChars) /\ PlainChars(KeyChars) \subseteq KeyChars
      /\ type \in PlainChars(KeyChars) /\ HTTP \in PlainChars(KeyChars) /\ One \in PlainChars(KeyChars) /\ e \in Seq(KeyChars)
      /\ Slash \in KeyChars
  BY RequestChars
<1>3. name \in Seq(PlainChars(KeyChars)) /\ name \in Seq(KeyChars) /\ type \in KeyChars /\ HTTP \in KeyChars /\ One \in KeyChars
  <2> QED
    BY <1>2
<1>4. PICK s2, s3, s4 : /\ s2 = FieldScan(s1, <<Slash>>) /\ s3 = FieldScan(s2, name)
                        /\ s4 = FieldScan(s3, <<Dot, type>>) /\ f = FieldScan(s4, Version)
  BY DEF LineFrom, FieldScanned
<1>5. /\ a \in Seq(KeyChars) /\ b \in Seq(KeyChars) /\ t \in Seq(KeyChars) /\ name \in Seq(KeyChars) /\ Append(e, type) = t
      /\ e \o name = name /\ e \in Seq(KeyChars)
  <2>1. d1 \in KeyChars /\ d2 \in KeyChars
    BY <1>2
  <2>2. Append(e, type) = t
    BY DEF NoWords
  <2>3. e \o name = name
    BY DEF NoWords
  <2> QED
    BY <1>2, <1>3, <2>1, <2>2, <2>3
<1> HIDE DEF zero, one, two, three, four, e, a, b, t, s1
<1>6. s1 = FS(one, two, zero, a, b, e, e)
  BY DEF s1
<1>20. /\ {Space, Slash, Dot} \subseteq KeyChars
       /\ zero \in Nat /\ one \in Nat /\ two \in Nat /\ three \in Nat /\ four \in Nat
       /\ a \in Seq(KeyChars) /\ b \in Seq(KeyChars) /\ t \in Seq(KeyChars) /\ name \in Seq(KeyChars) /\ e \in Seq(KeyChars)
       /\ type \in PlainChars(KeyChars) /\ HTTP \in PlainChars(KeyChars) /\ One \in PlainChars(KeyChars) /\ name \in Seq(PlainChars(KeyChars))
  BY <1>1, <1>2, <1>3, <1>5
<1>7. s2 = FS(one, three, zero, a, b, e, e)
  <2>1. s1 \in FieldStates(KeyChars)
    BY <1>6, <1>20 DEF FS, FieldStates
  <2>2. FieldScan(s1, <<Slash>>) = Field(s1, Slash)
    BY <1>2, <2>1, FieldOne
  <2>3. Field(s1, Slash) = FS(one, Following(two), zero, a, b, e, e)
    BY <1>1, <1>6, FieldMarks DEF Following
  <2> QED
    BY <1>1, <1>4, <2>2, <2>3
<1>8. s3 = FS(one, three, zero, a, b, name, e)
  <2>1. FieldScan(FS(1, 3, 0, a, b, e, e), name) = FS(1, 3, 0, a, b, e \o name, e)
    BY <1>20, FieldName
  <2> QED
    BY <1>1, <1>4, <1>5, <1>7, <2>1
<1>9. s4 = FS(one, three, one, a, b, name, t)
  <2>3. FS(one, three, zero, a, b, name, e) \in FieldStates(KeyChars) 
        /\ type \in PlainChars(KeyChars)
    BY <1>20 DEF FS, FieldStates
  <2>1. FieldScan(FS(one, three, zero, a, b, name, e), <<Dot, type>>) = WordOn(one, three, Following(zero), a, b, name, e, type)
    BY <2>3, DotWord
  <2>2. WordOn(one, three, one, a, b, name, e, type) = FS(one, three, one, a, b, name, t)
    BY <1>1, <1>5 DEF WordOn
  <2> QED
    BY <1>1, <1>4, <1>8, <2>1, <2>2
<1>10. f = FieldScan(FieldScan(FieldScan(s4, <<Space, HTTP>>), <<Slash, One>>), <<Dot, One>>)
  <2>1. s4 \in FieldStates(KeyChars)
    BY <1>9, <1>20 DEF FS, FieldStates
  <2> QED
    BY <1>4, <2>1, FieldsVersion
<1>11. FieldScan(s4, <<Space, HTTP>>) = FS(two, three, one, a, b, name, t)
  <2>3. FS(one, three, one, a, b, name, t) \in FieldStates(KeyChars) 
        /\ HTTP \in PlainChars(KeyChars)
    BY <1>20 DEF FS, FieldStates
  <2>1. FieldScan(FS(one, three, one, a, b, name, t), <<Space, HTTP>>) = WordOn(Following(one), three, one, a, b, name, t, HTTP)
    BY <2>3, SpaceWord
  <2>2. WordOn(two, three, one, a, b, name, t, HTTP) = FS(two, three, one, a, b, name, t)
    BY <1>1, <1>5 DEF WordOn
  <2> QED
    BY <1>1, <1>9, <2>1, <2>2
<1>12. FieldScan(FS(two, three, one, a, b, name, t), <<Slash, One>>) = FS(two, four, one, a, b, name, t)
  <2>3. FS(two, three, one, a, b, name, t) \in FieldStates(KeyChars) 
        /\ One \in PlainChars(KeyChars)
    BY <1>20 DEF FS, FieldStates
  <2>1. FieldScan(FS(two, three, one, a, b, name, t), <<Slash, One>>) = WordOn(two, Following(three), one, a, b, name, t, One)
    BY <2>3, SlashWord
  <2>2. WordOn(two, four, one, a, b, name, t, One) = FS(two, four, one, a, b, name, t)
    BY <1>1, <1>5 DEF WordOn
  <2> QED
    BY <1>1, <2>1, <2>2
<1>13. FieldScan(FS(two, four, one, a, b, name, t), <<Dot, One>>) = FS(two, four, two, a, b, name, t)
  <2>3. FS(two, four, one, a, b, name, t) \in FieldStates(KeyChars) 
        /\ One \in PlainChars(KeyChars)
    BY <1>20 DEF FS, FieldStates
  <2>1. FieldScan(FS(two, four, one, a, b, name, t), <<Dot, One>>) = WordOn(two, four, Following(one), a, b, name, t, One)
    BY <2>3, DotWord
  <2>2. WordOn(two, four, two, a, b, name, t, One) = FS(two, four, two, a, b, name, t)
    BY <1>1, <1>5 DEF WordOn
  <2> QED
    BY <1>1, <2>1, <2>2
<1>14. f = FS(two, four, two, a, b, name, t)
  BY <1>10, <1>11, <1>12, <1>13
<1> QED
  BY <1>14 DEF FS, FileFields, a, b, t

LEMMA NoFileAskedFor1 ==
  ASSUME NEW d1 \in Words, NEW name \in Seq(Words), name # <<>>, NEW type \in Words, NEW f,
         LineFrom(FS(1, 1, 0, <<d1>>, NoWords, NoWords, NoWords), name, type, f)
  PROVE  NoStreamFields(f)
<1> DEFINE zero == 0
           one == 1
           two == 2
           three == 3
           four == 4
           e == NoWords
           a == <<d1>>
           b == Append(name, type)
           c == Append(b, HTTP)
           s1 == FS(one, one, zero, a, e, e, e)
<1>1. /\ zero \in Nat /\ one \in Nat /\ two \in Nat /\ three \in Nat /\ four \in Nat
      /\ Following(zero) = one /\ Following(one) = two /\ Following(two) = three
      /\ Following(three) = four
      /\ zero = 0 /\ one = 1 /\ two = 2 /\ three = 3 /\ four = 4
  BY DEF Following
<1>2. /\ {Space, Slash, Dot} \subseteq KeyChars /\ Words \subseteq PlainChars(KeyChars) /\ PlainChars(KeyChars) \subseteq KeyChars
      /\ type \in PlainChars(KeyChars) /\ HTTP \in PlainChars(KeyChars) /\ One \in PlainChars(KeyChars) /\ e \in Seq(KeyChars)
      /\ Slash \in KeyChars
  BY RequestChars
<1>3. name \in Seq(PlainChars(KeyChars)) /\ name \in Seq(KeyChars) /\ type \in KeyChars /\ HTTP \in KeyChars /\ One \in KeyChars
  <2> QED
    BY <1>2
<1>4. PICK s2, s3, s4 : /\ s2 = FieldScan(s1, <<Slash>>) /\ s3 = FieldScan(s2, name)
                        /\ s4 = FieldScan(s3, <<Dot, type>>) /\ f = FieldScan(s4, Version)
  BY DEF LineFrom, FieldScanned
<1>15. b \in Seq(KeyChars) /\ Len(b) \in Nat /\ Len(b) = Len(name) + 1 /\ Len(name) \in Nat
  <2> QED
    BY <1>3, AppendProperties, LenProperties
<1>5. /\ a \in Seq(KeyChars) /\ b \in Seq(KeyChars) /\ c \in Seq(KeyChars) /\ name \in Seq(KeyChars)
      /\ Append(name, type) = b /\ Append(b, HTTP) = c
      /\ e \o name = name /\ e \in Seq(KeyChars) /\ Len(c) = Len(name) + 2 /\ Len(name) \in Nat /\ a # <<>>
  <2>1. d1 \in KeyChars
    BY <1>2
  <2>3. e \o name = name
    BY DEF NoWords
  <2>4. c = Append(b, HTTP) /\ b = Append(name, type)
    OBVIOUS
  <2> HIDE DEF c, b
  <2>5. c \in Seq(KeyChars) /\ Len(c) = Len(b) + 1
    BY <1>3, <1>15, <2>4, AppendProperties
  <2> QED
    BY <1>2, <1>3, <1>15, <2>1, <2>3, <2>4, <2>5
<1> HIDE DEF zero, one, two, three, four, e, a, b, c, s1
<1>6. s1 = FS(one, one, zero, a, e, e, e)
  BY DEF s1
<1>20. /\ {Space, Slash, Dot} \subseteq KeyChars
       /\ zero \in Nat /\ one \in Nat /\ two \in Nat /\ three \in Nat /\ four \in Nat
       /\ a \in Seq(KeyChars) /\ b \in Seq(KeyChars) /\ c \in Seq(KeyChars) /\ name \in Seq(KeyChars) /\ e \in Seq(KeyChars)
       /\ type \in PlainChars(KeyChars) /\ HTTP \in PlainChars(KeyChars) /\ One \in PlainChars(KeyChars) /\ name \in Seq(PlainChars(KeyChars))
  BY <1>1, <1>2, <1>3, <1>5
<1>7. s2 = FS(one, two, zero, a, e, e, e)
  <2>1. s1 \in FieldStates(KeyChars)
    BY <1>6, <1>20 DEF FS, FieldStates
  <2>2. FieldScan(s1, <<Slash>>) = Field(s1, Slash)
    BY <1>2, <2>1, FieldOne
  <2>3. Field(s1, Slash) = FS(one, Following(one), zero, a, e, e, e)
    BY <1>1, <1>6, FieldMarks DEF Following
  <2> QED
    BY <1>1, <1>4, <2>2, <2>3
<1>8. s3 = FS(one, two, zero, a, name, e, e)
  <2>1. FieldScan(FS(one, 2, zero, a, e, e, e), name) = FS(one, 2, zero, a, e \o name, e, e)
    BY <1>20, FieldStream, SMTT(60)
  <2> QED
    BY <1>1, <1>4, <1>5, <1>7, <2>1
<1>9. s4 = FS(one, two, one, a, b, e, e)
  <2>3. FS(one, two, zero, a, name, e, e) \in FieldStates(KeyChars) 
        /\ type \in PlainChars(KeyChars)
    BY <1>20 DEF FS, FieldStates
  <2>1. FieldScan(FS(one, two, zero, a, name, e, e), <<Dot, type>>) = WordOn(one, two, Following(zero), a, name, e, e, type)
    BY <2>3, DotWord
  <2>2. WordOn(one, two, one, a, name, e, e, type) = FS(one, two, one, a, b, e, e)
    BY <1>1, <1>5 DEF WordOn
  <2> QED
    BY <1>1, <1>4, <1>8, <2>1, <2>2
<1>10. f = FieldScan(FieldScan(FieldScan(s4, <<Space, HTTP>>), <<Slash, One>>), <<Dot, One>>)
  <2>1. s4 \in FieldStates(KeyChars)
    BY <1>9, <1>20 DEF FS, FieldStates
  <2> QED
    BY <1>4, <2>1, FieldsVersion
<1>11. FieldScan(s4, <<Space, HTTP>>) = FS(two, two, one, a, c, e, e)
  <2>3. FS(one, two, one, a, b, e, e) \in FieldStates(KeyChars) 
        /\ HTTP \in PlainChars(KeyChars)
    BY <1>20 DEF FS, FieldStates
  <2>1. FieldScan(FS(one, two, one, a, b, e, e), <<Space, HTTP>>) = WordOn(Following(one), two, one, a, b, e, e, HTTP)
    BY <2>3, SpaceWord
  <2>2. WordOn(two, two, one, a, b, e, e, HTTP) = FS(two, two, one, a, c, e, e)
    BY <1>1, <1>5 DEF WordOn
  <2> QED
    BY <1>1, <1>9, <2>1, <2>2
<1>12. FieldScan(FS(two, two, one, a, c, e, e), <<Slash, One>>) = FS(two, three, one, a, c, e, e)
  <2>3. FS(two, two, one, a, c, e, e) \in FieldStates(KeyChars) 
        /\ One \in PlainChars(KeyChars)
    BY <1>20 DEF FS, FieldStates
  <2>1. FieldScan(FS(two, two, one, a, c, e, e), <<Slash, One>>) = WordOn(two, Following(two), one, a, c, e, e, One)
    BY <2>3, SlashWord
  <2>2. WordOn(two, three, one, a, c, e, e, One) = FS(two, three, one, a, c, e, e)
    BY <1>1, <1>5 DEF WordOn
  <2> QED
    BY <1>1, <2>1, <2>2
<1>13. FieldScan(FS(two, three, one, a, c, e, e), <<Dot, One>>) = FS(two, three, two, a, c, e, e)
  <2>3. FS(two, three, one, a, c, e, e) \in FieldStates(KeyChars) 
        /\ One \in PlainChars(KeyChars)
    BY <1>20 DEF FS, FieldStates
  <2>1. FieldScan(FS(two, three, one, a, c, e, e), <<Dot, One>>) = WordOn(two, three, Following(one), a, c, e, e, One)
    BY <2>3, DotWord
  <2>2. WordOn(two, three, two, a, c, e, e, One) = FS(two, three, two, a, c, e, e)
    BY <1>1, <1>5 DEF WordOn
  <2> QED
    BY <1>1, <2>1, <2>2
<1>14. f = FS(two, three, two, a, c, e, e)
  BY <1>10, <1>11, <1>12, <1>13
<1>18. f.app = a /\ f.stream = c
  BY <1>14 DEF FS
<1>16. Len(c) # 1 /\ Len(c) # 0
  BY <1>5
<1>17. c # <<>>
  BY <1>16
<1> QED
  BY <1>5, <1>16, <1>17, <1>18 DEF NoStreamFields

LEMMA NoFileAskedFor0 ==
  ASSUME NEW name \in Seq(Words), name # <<>>, NEW type \in Words, NEW f,
         LineFrom(StartState, name, type, f)
  PROVE  NoStreamFields(f)
<1> DEFINE zero == 0
           one == 1
           two == 2
           three == 3
           four == 4
           e == NoWords
           b == Append(name, type)
           c == Append(b, HTTP)
           d == <<One>>
           g == <<One, One>>
           s1 == FS(one, zero, zero, e, e, e, e)
<1>1. /\ zero \in Nat /\ one \in Nat /\ two \in Nat /\ three \in Nat /\ four \in Nat
      /\ Following(zero) = one /\ Following(one) = two /\ Following(two) = three
      /\ Following(three) = four
      /\ zero = 0 /\ one = 1 /\ two = 2 /\ three = 3 /\ four = 4
  BY DEF Following
<1>2. /\ {Space, Slash, Dot} \subseteq KeyChars /\ Words \subseteq PlainChars(KeyChars) /\ PlainChars(KeyChars) \subseteq KeyChars
      /\ type \in PlainChars(KeyChars) /\ HTTP \in PlainChars(KeyChars) /\ One \in PlainChars(KeyChars) /\ e \in Seq(KeyChars)
      /\ Slash \in KeyChars
  BY RequestChars
<1>3. name \in Seq(PlainChars(KeyChars)) /\ name \in Seq(KeyChars) /\ type \in KeyChars /\ HTTP \in KeyChars /\ One \in KeyChars
  <2> QED
    BY <1>2
<1>4. PICK s2, s3, s4 : /\ s2 = FieldScan(s1, <<Slash>>) /\ s3 = FieldScan(s2, name)
                        /\ s4 = FieldScan(s3, <<Dot, type>>) /\ f = FieldScan(s4, Version)
  BY DEF LineFrom, FieldScanned, StartState
<1>15. b \in Seq(KeyChars) /\ Len(b) \in Nat /\ Len(b) = Len(name) + 1 /\ Len(name) \in Nat
  <2> QED
    BY <1>3, AppendProperties, LenProperties
<1>19. Append(e, One) = d /\ Append(d, One) = g /\ Len(g) = 2 /\ d \in Seq(KeyChars) /\ g \in Seq(KeyChars)
  <2>1. Append(e, One) = d /\ Len(g) = 2
    BY DEF NoWords
  <2>3. Append(d, One) = g
    BY OneMore
  <2>2. d \in Seq(KeyChars) /\ g \in Seq(KeyChars)
    BY <1>3
  <2> QED
    BY <2>1, <2>2, <2>3
<1>5. /\ b \in Seq(KeyChars) /\ c \in Seq(KeyChars) /\ name \in Seq(KeyChars) /\ d \in Seq(KeyChars) /\ g \in Seq(KeyChars)
      /\ Append(name, type) = b /\ Append(b, HTTP) = c /\ Append(e, One) = d /\ Append(d, One) = g
      /\ e \o name = name /\ e \in Seq(KeyChars) /\ Len(c) = Len(name) + 2 /\ Len(name) \in Nat /\ Len(g) = 2
  <2>3. e \o name = name
    BY DEF NoWords
  <2>4. c = Append(b, HTTP) /\ b = Append(name, type)
    OBVIOUS
  <2> HIDE DEF c, b, d, g
  <2>5. c \in Seq(KeyChars) /\ Len(c) = Len(b) + 1
    BY <1>3, <1>15, <2>4, AppendProperties
  <2> QED
    BY <1>2, <1>3, <1>15, <1>19, <2>3, <2>4, <2>5
<1> HIDE DEF zero, one, two, three, four, e, b, c, d, g, s1
<1>6. s1 = FS(one, zero, zero, e, e, e, e)
  BY DEF s1
<1>20. /\ {Space, Slash, Dot} \subseteq KeyChars
       /\ zero \in Nat /\ one \in Nat /\ two \in Nat /\ three \in Nat /\ four \in Nat
       /\ b \in Seq(KeyChars) /\ c \in Seq(KeyChars) /\ d \in Seq(KeyChars) /\ g \in Seq(KeyChars) /\ name \in Seq(KeyChars) /\ e \in Seq(KeyChars)
       /\ type \in PlainChars(KeyChars) /\ HTTP \in PlainChars(KeyChars) /\ One \in PlainChars(KeyChars) /\ name \in Seq(PlainChars(KeyChars))
  BY <1>1, <1>2, <1>3, <1>5
<1>7. s2 = FS(one, one, zero, e, e, e, e)
  <2>1. s1 \in FieldStates(KeyChars)
    BY <1>6, <1>20 DEF FS, FieldStates
  <2>2. FieldScan(s1, <<Slash>>) = Field(s1, Slash)
    BY <1>2, <2>1, FieldOne
  <2>3. Field(s1, Slash) = FS(one, Following(zero), zero, e, e, e, e)
    BY <1>1, <1>6, FieldMarks DEF Following
  <2> QED
    BY <1>1, <1>4, <2>2, <2>3
<1>8. s3 = FS(one, one, zero, name, e, e, e)
  <2>1. FieldScan(FS(one, 1, zero, e, e, e, e), name) = FS(one, 1, zero, e \o name, e, e, e)
    BY <1>20, FieldApp, SMTT(60)
  <2> QED
    BY <1>1, <1>4, <1>5, <1>7, <2>1
<1>9. s4 = FS(one, one, one, b, e, e, e)
  <2>3. FS(one, one, zero, name, e, e, e) \in FieldStates(KeyChars) 
        /\ type \in PlainChars(KeyChars)
    BY <1>20 DEF FS, FieldStates
  <2>1. FieldScan(FS(one, one, zero, name, e, e, e), <<Dot, type>>) = WordOn(one, one, Following(zero), name, e, e, e, type)
    BY <2>3, DotWord
  <2>2. WordOn(one, one, one, name, e, e, e, type) = FS(one, one, one, b, e, e, e)
    BY <1>1, <1>5 DEF WordOn
  <2> QED
    BY <1>1, <1>4, <1>8, <2>1, <2>2
<1>10. f = FieldScan(FieldScan(FieldScan(s4, <<Space, HTTP>>), <<Slash, One>>), <<Dot, One>>)
  <2>1. s4 \in FieldStates(KeyChars)
    BY <1>9, <1>20 DEF FS, FieldStates
  <2> QED
    BY <1>4, <2>1, FieldsVersion
<1>11. FieldScan(s4, <<Space, HTTP>>) = FS(two, one, one, c, e, e, e)
  <2>3. FS(one, one, one, b, e, e, e) \in FieldStates(KeyChars) 
        /\ HTTP \in PlainChars(KeyChars)
    BY <1>20 DEF FS, FieldStates
  <2>1. FieldScan(FS(one, one, one, b, e, e, e), <<Space, HTTP>>) = WordOn(Following(one), one, one, b, e, e, e, HTTP)
    BY <2>3, SpaceWord
  <2>2. WordOn(two, one, one, b, e, e, e, HTTP) = FS(two, one, one, c, e, e, e)
    BY <1>1, <1>5 DEF WordOn
  <2> QED
    BY <1>1, <1>9, <2>1, <2>2
<1>12. FieldScan(FS(two, one, one, c, e, e, e), <<Slash, One>>) = FS(two, two, one, c, d, e, e)
  <2>3. FS(two, one, one, c, e, e, e) \in FieldStates(KeyChars) 
        /\ One \in PlainChars(KeyChars)
    BY <1>20 DEF FS, FieldStates
  <2>1. FieldScan(FS(two, one, one, c, e, e, e), <<Slash, One>>) = WordOn(two, Following(one), one, c, e, e, e, One)
    BY <2>3, SlashWord
  <2>2. WordOn(two, two, one, c, e, e, e, One) = FS(two, two, one, c, d, e, e)
    BY <1>1, <1>5 DEF WordOn
  <2> QED
    BY <1>1, <2>1, <2>2
<1>13. FieldScan(FS(two, two, one, c, d, e, e), <<Dot, One>>) = FS(two, two, two, c, g, e, e)
  <2>3. FS(two, two, one, c, d, e, e) \in FieldStates(KeyChars) 
        /\ One \in PlainChars(KeyChars)
    BY <1>20 DEF FS, FieldStates
  <2>1. FieldScan(FS(two, two, one, c, d, e, e), <<Dot, One>>) = WordOn(two, two, Following(one), c, d, e, e, One)
    BY <2>3, DotWord
  <2>2. WordOn(two, two, two, c, d, e, e, One) = FS(two, two, two, c, g, e, e)
    BY <1>1, <1>5 DEF WordOn
  <2> QED
    BY <1>1, <2>1, <2>2
<1>14. f = FS(two, two, two, c, g, e, e)
  BY <1>10, <1>11, <1>12, <1>13
<1>18. f.app = c /\ f.stream = g
  BY <1>14 DEF FS
<1>16. Len(g) # 1 /\ Len(g) # 0 /\ Len(c) # 0
  BY <1>5
<1>17. c # <<>> /\ g # <<>>
  BY <1>16
<1> QED
  BY <1>16, <1>17, <1>18 DEF NoStreamFields

LEMMA FieldsAsked ==
  ASSUME NEW q, IsHttp(q), q.query = <<>>, Len(q.dirs) <= 2
  PROVE  AskedFields(q, Fields(NoFields, KeyBytes(q)))
<1> DEFINE ds == q.dirs
           name == q.name
           type == q.type
           f == Fields(NoFields, KeyBytes(q))
<1>1. ds \in Seq(Words) /\ name \in Seq(Words) /\ name # <<>> /\ type \in Words /\ Len(ds) \in Nat
  BY HttpFields, LenProperties DEF IsHttp
<1>2. PICK s1, s2, s3, s4 : FiveScans(q, s1, s2, s3, s4)
  BY FieldsInFive
<1>3. s1 = FieldScan(StartState, Directories(ds)) /\ LineFrom(s1, name, type, f)
  BY <1>2 DEF FiveScans, FieldScanned, LineFrom
<1>4. Len(ds) <= 2
  OBVIOUS
<1> HIDE DEF ds, name, type, f
<1>5. \/ ds = <<>>
      \/ \E d \in Words : ds = Append(<<>>, d)
      \/ Len(ds) = 2 /\ ds[1] \in Words /\ ds[2] \in Words /\ ds = Append(Append(<<>>, ds[1]), ds[2])
  BY <1>1, <1>4, UpToTwo
<1>6. CASE ds = <<>>
  <2>1. s1 = StartState
    <3>1. Directories(<<>>) = <<>>
      BY NoDirectories
    <3>2. StartState \in FieldStates(KeyChars)
      <4>1. HTTP \in Words \cup {GET, HEAD}
        BY WordsAssumption
      <4> QED
        BY <4>1, FieldsStart
    <3>3. FieldScan(StartState, <<>>) = StartState
      BY <3>2, FieldNone
    <3> QED
      BY <1>3, <1>6, <3>1, <3>3
  <2>2. NoStreamFields(f)
    <3>1. name \in Seq(Words) /\ name # <<>> /\ type \in Words /\ LineFrom(StartState, name, type, f)
      BY <1>1, <1>3, <2>1
    <3> QED
      BY <3>1, NoFileAskedFor0
  <2>3. Len(ds) # 2
    <3>1. Len(<<>>) # 2
      OBVIOUS
    <3> QED
      BY <1>6, <3>1
  <2> QED
    BY <2>2, <2>3 DEF AskedFields, NoStreamFields, ds, f
<1>7. ASSUME NEW d \in Words, ds = Append(<<>>, d) PROVE AskedFields(q, f)
  <2>1. s1 = FS(1, 1, 0, <<d>>, NoWords, NoWords, NoWords)
    BY <1>3, <1>7, OneDirectory
  <2>2. NoStreamFields(f)
    <3>1. name \in Seq(Words) /\ name # <<>> /\ type \in Words
          /\ LineFrom(FS(1, 1, 0, <<d>>, NoWords, NoWords, NoWords), name, type, f)
      BY <1>1, <1>3, <2>1
    <3> QED
      BY <3>1, NoFileAskedFor1
  <2>3. Len(ds) # 2
    <3>1. Len(Append(<<>>, d)) = 1
      OBVIOUS
    <3> QED
      BY <1>7, <3>1
  <2> QED
    BY <2>2, <2>3 DEF AskedFields, NoStreamFields, ds, f
<1>8. CASE Len(ds) = 2 /\ ds[1] \in Words /\ ds[2] \in Words /\ ds = Append(Append(<<>>, ds[1]), ds[2])
  <2> DEFINE d1 == ds[1]
             d2 == ds[2]
  <2>1. d1 \in Words /\ d2 \in Words /\ ds = Append(Append(<<>>, d1), d2)
    BY <1>8
  <2> HIDE DEF d1, d2
  <2>2. s1 = FS(1, 2, 0, <<d1>>, <<d2>>, NoWords, NoWords)
    <3>1. FieldScan(StartState, Directories(ds)) = FS(1, 2, 0, <<d1>>, <<d2>>, NoWords, NoWords)
      BY <2>1, TwoDirectories
    <3> QED
      BY <1>3, <3>1
  <2>3. FileFields(<<d1>>, <<d2>>, name, type, f)
    <3>1. name \in Seq(Words) /\ name # <<>> /\ type \in Words
          /\ LineFrom(FS(1, 2, 0, <<d1>>, <<d2>>, NoWords, NoWords), name, type, f)
      BY <1>1, <1>3, <2>2
    <3> QED
      BY <2>1, <3>1, FileAskedFor
  <2> QED
    BY <1>8, <2>3 DEF AskedFields, FileFields, ds, d1, d2, name, type, f
<1> QED
  BY <1>5, <1>6, <1>7, <1>8 DEF f

\* The answer is the expected one, and all that was read is gone.
Answered(r, e) ==
  /\ Gives(r, e) /\ r.session = <<>> /\ r.rest = <<>> /\ r.heard = <<>>
  /\ AtMostOne(r.said) /\ r.ret \in {kSuccess, kClose}

IsExpected(e, said_, state_) == e.said = said_ /\ e.heard = <<>> /\ e.state = state_

LEMMA AnswerOf ==
  ASSUME NEW r, NEW ret \in {kSuccess, kClose}, NEW said_, AtMostOne(said_), NEW none, none = <<>>,
         IsResult(r, none, ret, none, said_, none), NEW e, IsExpected(e, said_, After(ret))
  PROVE  Answered(r, e)
BY DEF IsResult, IsExpected, Answered, Gives

LEMMA NoFieldsAsk == ~Asked(NoFields)
BY DEF Asked, NoFields

LEMMA PublishedIs ==
  ASSUME NEW q, NEW f, AskedFields(q, f), Len(q.dirs) \in Nat
  PROVE  /\ Asked(f) /\ (Published(q) <=> <<f.app, f.stream>> \in Streams)
         /\ Published(q) => f.type = <<q.type>> /\ f.name = q.name
<1>1. CASE Len(q.dirs) = 2
  <2>1. f.app = <<q.dirs[1]>> /\ f.stream = <<q.dirs[2]>> /\ f.type = <<q.type>> /\ f.name = q.name
    BY <1>1 DEF AskedFields
  <2>2. f.app # <<>> /\ f.stream # <<>>
    BY <2>1
  <2> QED
    BY <1>1, <2>1, <2>2 DEF Asked, Published
<1>2. CASE Len(q.dirs) # 2
  <2>1. f.app # <<>> /\ f.stream # <<>> /\ Len(f.stream) # 1
    BY <1>2 DEF AskedFields
  <2>2. ~Published(q)
    BY <1>2 DEF Published
  <2>3. <<f.app, f.stream>> \notin Streams
    <3> SUFFICES ASSUME <<f.app, f.stream>> \in Streams PROVE FALSE
      OBVIOUS
    <3>1. PICK app \in Words, name \in Words : <<f.app, f.stream>> = <<<<app>>, <<name>>>>
      BY StreamsAssumption
    <3>2. f.stream = <<name>>
      BY <3>1
    <3>3. Len(<<name>>) = 1
      OBVIOUS
    <3> QED
      BY <2>1, <3>2, <3>3
  <2> QED
    BY <2>1, <2>2, <2>3 DEF Asked
<1> QED
  BY <1>1, <1>2

LEMMA ExpectedIs ==
  ASSUME NEW x, NEW y, NEW c
  PROVE  /\ IsExpected(Silence(x), <<>>, x)
         /\ IsExpected(Served(x, y, c), <<Response(x, y, c)>>, "open")
         /\ IsExpected([Served(x, y, c) EXCEPT !.state = "closed"], <<Response(x, y, c)>>, "closed")
<1>1. IsExpected(Silence(x), <<>>, x)
  BY DEF IsExpected, Silence
<1>2. IsExpected(Served(x, y, c), <<Response(x, y, c)>>, "open")
  BY DEF IsExpected, Served
<1>3. IsExpected([Served(x, y, c) EXCEPT !.state = "closed"], <<Response(x, y, c)>>, "closed")
  BY DEF IsExpected, Served
<1> QED
  BY <1>1, <1>2, <1>3

LEMMA ServedIs ==
  ASSUME NEW c
  PROVE  IsExpected(Served(200, "keep-alive", c), <<Response(200, "keep-alive", c)>>, "open")
<1> DEFINE n == 200
<1> HIDE DEF n
<1>1. IsExpected(Served(n, "keep-alive", c), <<Response(n, "keep-alive", c)>>, "open")
  BY ExpectedIs
<1> QED
  BY <1>1 DEF n

LEMMA NotServedIs ==
  ASSUME NEW c
  PROVE  IsExpected(Served(404, "close", c), <<Response(404, "close", c)>>, "open")
<1> DEFINE n == 404
<1> HIDE DEF n
<1>1. IsExpected(Served(n, "close", c), <<Response(n, "close", c)>>, "open")
  BY ExpectedIs
<1> QED
  BY <1>1 DEF n

LEMMA SilentAnswer ==
  ASSUME NEW r, r = Result(<<>>, kSuccess, <<>>, <<>>, <<>>)
  PROVE  Answered(r, Silence("open"))
<1> DEFINE n == <<>>
<1>1. r = Result(n, kSuccess, n, n, n) /\ n = <<>>
  OBVIOUS
<1>2. AtMostOne(n) /\ IsExpected(Silence("open"), n, After(kSuccess))
  BY AfterIs, ExpectedIs DEF AtMostOne
<1> HIDE DEF n
<1>3. IsResult(r, n, kSuccess, n, n, n)
  BY <1>1, ResultIs
<1> QED
  BY <1>1, <1>2, <1>3, AnswerOf

LEMMA ResponseAnswer ==
  ASSUME NEW r, NEW ret \in {kSuccess, kClose}, NEW x, r = Result(<<>>, ret, <<>>, <<x>>, <<>>),
         NEW e, IsExpected(e, <<x>>, After(ret))
  PROVE  Answered(r, e)
<1> DEFINE n == <<>>
           s == <<x>>
<1>1. r = Result(n, ret, n, s, n) /\ n = <<>> /\ AtMostOne(s) /\ IsExpected(e, s, After(ret))
  BY DEF AtMostOne
<1> HIDE DEF n, s
<1>2. IsResult(r, n, ret, n, s, n)
  BY <1>1, ResultIs
<1> QED
  BY <1>1, <1>2, AnswerOf

\* What asks for a file of a stream that is published, or may be.
FileRequest(q) == IsHttp(q) /\ q.query = <<>> /\ Len(q.dirs) <= 2

LEMMA HlsGives ==
  ASSUME NEW q, FileRequest(q), NEW d, d.ret = kSuccess, d.fields = LineFields("Hls", q),
         NEW r, r = Read(d, HlsAnswer(d.fields))
  PROVE  Answered(r, HlsExpected(q))
<1> DEFINE f == d.fields
<1>1. Len(q.dirs) \in Nat
  BY HttpFields, LenProperties DEF IsHttp, FileRequest
<1>2. CASE q.method # GET
  <2>1. f = NoFields
    <3>1. "Hls" # "Dash"
      OBVIOUS
    <3> QED
      BY <1>2, <3>1 DEF LineFields
  <2>2. r = Result(<<>>, kSuccess, <<>>, <<>>, <<>>)
    BY <2>1, NoFieldsAsk DEF Read
  <2>3. HlsExpected(q) = Silence("open")
    BY <1>2 DEF HlsExpected
  <2> QED
    BY <2>2, <2>3, SilentAnswer
<1>3. CASE q.method = GET
  <2>1. f = Fields(NoFields, KeyBytes(q))
    BY <1>3 DEF LineFields
  <2>2. AskedFields(q, f)
    BY <2>1, FieldsAsked DEF FileRequest
  <2> HIDE DEF f
  <2>3. /\ Asked(f) /\ (Published(q) <=> <<f.app, f.stream>> \in Streams)
        /\ Published(q) => f.type = <<q.type>> /\ f.name = q.name
    BY <1>1, <2>2, PublishedIs
  <2>4. r = HlsAnswer(f)
    BY <2>3 DEF Read, f
  <2> DEFINE content == <<<<q.type>>, IF q.type = TS THEN q.name ELSE <<>>>>
             nothing == Response(404, "close", <<>>)
             gone == [Served(404, "close", <<>>) EXCEPT !.state = "closed"]
  <2>5. IsExpected(gone, <<nothing>>, After(kClose))
    BY AfterIs, ExpectedIs
  <2>6. CASE ~Published(q)
    <3>1. r = Result(<<>>, kClose, <<>>, <<nothing>>, <<>>)
      BY <2>3, <2>4, <2>6 DEF HlsAnswer
    <3>2. HlsExpected(q) = gone
      BY <1>3, <2>6 DEF HlsExpected
    <3> HIDE DEF nothing, gone
    <3> QED
      BY <2>5, <3>1, <3>2, ResponseAnswer
  <2>7. CASE Published(q) /\ q.type \notin {TS, M3U8}
    <3>1. f.type \notin {<<TS>>, <<M3U8>>}
      BY <2>3, <2>7, OneOf
    <3>2. r = Result(<<>>, kSuccess, <<>>, <<>>, <<>>)
      BY <2>3, <2>4, <2>7, <3>1 DEF HlsAnswer
    <3>3. HlsExpected(q) = Silence("open")
      BY <1>3, <2>7 DEF HlsExpected
    <3> QED
      BY <3>2, <3>3, SilentAnswer
  <2>8. CASE Published(q) /\ q.type \in {TS, M3U8}
    <3>1. f.type \in {<<TS>>, <<M3U8>>} /\ f.type = <<q.type>> /\ f.name = q.name
          /\ (f.type = <<TS>> <=> q.type = TS)
      BY <2>3, <2>8, OneOf
    <3> DEFINE name == IF f.type = <<TS>> THEN f.name ELSE <<>>
    <3>2. Content(f.type, name) = content
      BY <3>1 DEF Content
    <3>3. r = IF Content(f.type, name) \in Held
              THEN Result(<<>>, kSuccess, <<>>,
                       <<Response(200, "keep-alive", Content(f.type, name))>>, <<>>)
              ELSE Result(<<>>, kClose, <<>>, <<nothing>>, <<>>)
      BY <2>3, <2>4, <2>8, <3>1 DEF HlsAnswer
    <3>4. HlsExpected(q) = IF content \in Held THEN Served(200, "keep-alive", content) ELSE gone
      BY <1>3, <2>8 DEF HlsExpected
    <3> DEFINE here == Response(200, "keep-alive", content)
               e == Served(200, "keep-alive", content)
    <3>5. IsExpected(e, <<here>>, After(kSuccess))
      <4>1. IsExpected(e, <<here>>, "open")
        BY ServedIs
      <4> HIDE DEF e, here
      <4> QED
        BY <4>1, AfterIs
    <3>6. r = IF content \in Held THEN Result(<<>>, kSuccess, <<>>, <<here>>, <<>>)
              ELSE Result(<<>>, kClose, <<>>, <<nothing>>, <<>>)
      <4> HIDE DEF name, content, nothing
      <4> QED
        BY <3>2, <3>3
    <3> HIDE DEF here, e, nothing, gone, content
    <3>7. CASE content \in Held
      <4>1. r = Result(<<>>, kSuccess, <<>>, <<here>>, <<>>)
        BY <3>6, <3>7
      <4>2. HlsExpected(q) = e
        BY <3>4, <3>7 DEF e
      <4> QED
        BY <3>5, <4>1, <4>2, ResponseAnswer
    <3>8. CASE content \notin Held
      <4>1. r = Result(<<>>, kClose, <<>>, <<nothing>>, <<>>)
        BY <3>6, <3>8
      <4>2. HlsExpected(q) = gone
        BY <3>4, <3>8
      <4> QED
        BY <2>5, <4>1, <4>2, ResponseAnswer
    <3> QED
      BY <3>7, <3>8
  <2> QED
    BY <2>6, <2>7, <2>8
<1> QED
  BY <1>2, <1>3

\* What names a file for DASH, of what the client asks.
TrackTold(x) == IF x \in {Audio, Video} THEN <<x>> ELSE <<>>

NameTold(type, name) ==
  CASE type = MPD -> <<>>
    [] type = M4S /\ Len(name) = 3 -> <<name[1], name[3]>>
    [] OTHER -> TrackTold(name[1])

SameFile(type, a, b) == a = b \/ (<<<<type>>, a>> \notin Held /\ <<<<type>>, b>> \notin Held)

LEMMA TrackIs ==
  ASSUME NEW name, 1 \in DOMAIN name, \A i \in DOMAIN name : i = 1 \/ name[i] \notin {Audio, Video}
  PROVE  Track(name) = TrackTold(name[1])
<1>1. Audio # Video
  BY WordsAssumption
<1>2. Has(Video, name) <=> name[1] = Video
  BY DEF Has
<1>3. Has(Audio, name) <=> name[1] = Audio
  BY DEF Has
<1> QED
  BY <1>1, <1>2, <1>3 DEF Track, TrackTold

LEMMA NoSegment ==
  ASSUME NEW a, \A track \in {Audio, Video}, time \in Words : a # <<track, time>>
  PROVE  <<<<M4S>>, a>> \notin Held
<1> SUFFICES ASSUME <<<<M4S>>, a>> \in Held PROVE FALSE
  OBVIOUS
<1> DEFINE held == <<<<M4S>>, a>>
<1>1. held \in Held /\ held[1] = <<M4S>> /\ held[2] = a
  OBVIOUS
<1> HIDE DEF held
<1>2. \E track \in {Audio, Video}, time \in Words : held[2] = <<track, time>>
  BY <1>1, StreamsAssumption
<1> QED
  BY <1>1, <1>2

LEMMA PairOf == ASSUME NEW S, NEW x \in S, NEW y \in S PROVE <<x>> \o <<y>> = <<x, y>>
<1> DEFINE a == <<x>>
           b == <<y>>
           e == <<x, y>>
           u == a \o b
<1>1. /\ a \in Seq(S) /\ b \in Seq(S) /\ e \in Seq(S) /\ Len(a) = 1 /\ Len(b) = 1 /\ Len(e) = 2
      /\ a[1] = x /\ b[1] = y /\ e[1] = x /\ e[2] = y
  OBVIOUS
<1>2. Plus(a, b, u)
  BY DEF Plus
<1> HIDE DEF a, b, e, u
<1>3. Cat(S, a, b, u)
  BY <1>1, <1>2, CatIs
<1>4. /\ u \in Seq(S) /\ Len(u) = Len(a) + Len(b)
      /\ \A i \in 1 .. Len(a) : u[i] = a[i]
      /\ \A i \in 1 .. Len(b) : u[Len(a) + i] = b[i]
  BY <1>3 DEF Cat
<1>5. Len(u) = 2 /\ u[1] = x /\ u[2] = y
  BY <1>1, <1>4
<1>6. \A i \in 1 .. 2 : i = 1 \/ i = 2
  OBVIOUS
<1>7. \A i \in 1 .. 2 : u[i] = e[i]
  BY <1>1, <1>5, <1>6
<1>8. u = e
  BY <1>1, <1>4, <1>5, <1>7, SeqEqual
<1> QED
  BY <1>8 DEF a, b, e, u

LEMMA DashSegment ==
  ASSUME NEW f, f.type = <<M4S>>, NEW track, track = Track(FirstPiece(f.name, Underscore)),
         NEW time, time = SecondPiece(f.name, Underscore)
  PROVE  /\ ~TwoPieces(f.name) => DashName(f) = <<>>
         /\ track = <<>> => DashName(f) = <<>>
         /\ TwoPieces(f.name) /\ track # <<>> => DashName(f) = track \o time
<1>1. f.type # <<MP4>>
  BY WordsAssumption, OneOf
<1> DEFINE two == TwoPieces(f.name)
           end == track \o time
<1>2. DashName(f) = IF ~two \/ track = <<>> THEN <<>> ELSE end
  BY <1>1 DEF DashName
<1>3. two <=> TwoPieces(f.name)
  OBVIOUS
<1>4. end = track \o time
  OBVIOUS
<1> HIDE DEF two, end
<1> QED
  BY <1>2, <1>3, <1>4

LEMMA DashNameIs ==
  ASSUME NEW name \in Seq(Words), name # <<>>, IsDashName(name), NEW type \in {M4S, MP4, MPD},
         NEW f, f.type = <<type>>, f.name = name
  PROVE  SameFile(type, DashName(f), NameTold(type, name))
<1>1. M4S # MP4 /\ M4S # MPD /\ MP4 # MPD /\ Underscore \notin {Audio, Video}
  BY WordsAssumption
<1>2. /\ name[1] # Underscore /\ name[1] \in Words /\ Len(name) \in Nat /\ DOMAIN name = 1 .. Len(name)
      /\ \/ Len(name) = 1
         \/ Len(name) = 3 /\ name[2] = Underscore /\ name[3] \notin {Underscore, Audio, Video}
            /\ name[3] \in Words
  <2>1. Len(name) \in Nat /\ DOMAIN name = 1 .. Len(name)
    BY LenProperties
  <2>2. CASE Len(name) = 1
    <3>1. 1 \in 1 .. Len(name)
      BY <2>2
    <3> QED
      BY <2>1, <2>2, <3>1 DEF IsDashName
  <2>3. CASE Len(name) = 3
    <3>1. 1 \in 1 .. Len(name) /\ 3 \in 1 .. Len(name)
      BY <2>3
    <3> QED
      BY <2>1, <2>3, <3>1 DEF IsDashName
  <2> QED
    BY <2>2, <2>3 DEF IsDashName
<1>3. Track(name) = TrackTold(name[1])
  <2>1. 1 \in DOMAIN name
    BY <1>2
  <2>2. \A i \in DOMAIN name : i = 1 \/ i = 2 \/ i = 3
    BY <1>2
  <2>3. CASE Len(name) = 1
    <3>1. \A i \in DOMAIN name : i = 1
      BY <1>2, <2>3
    <3> QED
      BY <2>1, <3>1, TrackIs
  <2>4. CASE Len(name) = 3
    <3>1. \A i \in DOMAIN name : i = 1 \/ name[i] \notin {Audio, Video}
      BY <1>1, <1>2, <2>2, <2>4
    <3> QED
      BY <2>1, <3>1, TrackIs
  <2> QED
    BY <1>2, <2>3, <2>4
<1>4. (f.type = <<M4S>> <=> type = M4S) /\ (f.type = <<MP4>> <=> type = MP4)
  BY OneOf
<1>5. CASE type = MPD
  <2>1. DashName(f) = <<>> /\ NameTold(type, name) = <<>>
    BY <1>1, <1>4, <1>5 DEF DashName, NameTold
  <2> QED
    BY <2>1 DEF SameFile
<1>6. CASE type = MP4
  <2>1. DashName(f) = Track(name)
    BY <1>1, <1>4, <1>6 DEF DashName
  <2>2. NameTold(type, name) = TrackTold(name[1])
    BY <1>1, <1>6 DEF NameTold
  <2> QED
    BY <1>3, <2>1, <2>2 DEF SameFile
<1>7. CASE type = M4S /\ Len(name) = 1
  <2>1. ~Has(Underscore, name)
    <3>1. \A i \in DOMAIN name : i = 1
      BY <1>2, <1>7
    <3> QED
      BY <1>2, <3>1 DEF Has
  <2>2. DashName(f) = <<>>
    BY <1>4, <1>7, <2>1, DashSegment DEF TwoPieces
  <2>3. NameTold(type, name) = TrackTold(name[1])
    BY <1>1, <1>7 DEF NameTold
  <2>4. \A track \in {Audio, Video}, time \in Words : <<>> # <<track, time>>
    OBVIOUS
  <2>5. \A track \in {Audio, Video}, time \in Words : TrackTold(name[1]) # <<track, time>>
    BY DEF TrackTold
  <2>6. <<<<M4S>>, <<>>>> \notin Held
    BY <2>4, NoSegment
  <2>7. <<<<M4S>>, TrackTold(name[1])>> \notin Held
    BY <2>5, NoSegment
  <2> QED
    BY <1>7, <2>2, <2>3, <2>6, <2>7 DEF SameFile
<1>8. CASE type = M4S /\ Len(name) = 3
  <2> DEFINE x == name[1]
             y == name[3]
             a == <<x>>
             b == <<y>>
             u == Underscore
             e == <<x, y>>
  <2>1. /\ x \in Words /\ y \in Words /\ x # u /\ y # u
    BY <1>2, <1>8
  <2>2. a \in Seq(Words) /\ b \in Seq(Words) /\ Len(a) = 1 /\ Len(b) = 1 /\ a[1] = x /\ b[1] = y
    BY <2>1
  <2>3. name[1] = x /\ name[2] = u /\ name[3] = y /\ Len(name) = 3
    BY <1>2, <1>8
  <2>4. a \o b = e
    BY <2>1, PairOf
  <2>5. TrackTold(x) = <<>> => \A track \in {Audio, Video}, time \in Words : e # <<track, time>>
    <3>1. x \in {Audio, Video} => TrackTold(x) # <<>>
      BY DEF TrackTold
    <3>2. \A track, time : e = <<track, time>> => x = track
      OBVIOUS
    <3> QED
      BY <3>1, <3>2
  <2>6. TrackTold(x) = <<>> \/ TrackTold(x) = a
    BY DEF TrackTold
  <2>7. NameTold(type, name) = e
    BY <1>1, <1>8 DEF NameTold
  <2>8. DOMAIN a = {1} /\ DOMAIN b = {1}
    <3>1. DOMAIN a = 1 .. 1 /\ DOMAIN b = 1 .. 1 /\ 1 .. 1 = {1}
      OBVIOUS
    <3> QED
      BY <3>1
  <2>12. x = name[1]
    OBVIOUS
  <2> HIDE DEF x, y, a, b, u, e
  <2>9. Cuts(name, u, a, b)
    <3>1. \A i \in 1 .. 1 : i = 1
      OBVIOUS
    <3> QED
      BY <2>1, <2>2, <2>3, <3>1 DEF Cuts
  <2>10. Has(u, name) /\ FirstPiece(name, u) = a /\ OtherPieces(name, u) = b
    BY <2>2, <2>9, CutsPieces
  <2>11. ~Has(u, b) /\ Track(a) = TrackTold(x)
    <3>1. ~Has(u, b)
      BY <2>1, <2>2, <2>8 DEF Has
    <3>2. Track(a) = TrackTold(a[1])
      BY <2>8, TrackIs
    <3> QED
      BY <2>2, <3>1, <3>2
  <2>13. SecondPiece(name, u) = b
    <3>1. FirstPiece(b, u) = b
      BY <2>2, <2>11, NoPieces
    <3> QED
      BY <2>10, <3>1 DEF SecondPiece
  <2>14. DashName(f) = IF TrackTold(x) = <<>> THEN <<>> ELSE TrackTold(x) \o b
    <3>1. TwoPieces(name)
      BY <2>10, <2>11 DEF TwoPieces, u
    <3>2. Track(FirstPiece(f.name, Underscore)) = TrackTold(x) /\ SecondPiece(f.name, Underscore) = b
      BY <2>10, <2>11, <2>13 DEF u
    <3> QED
      BY <1>4, <1>8, <3>1, <3>2, DashSegment
  <2>15. CASE TrackTold(x) # <<>>
    <3>1. DashName(f) = e
      BY <2>4, <2>6, <2>14, <2>15
    <3> QED
      BY <2>7, <3>1 DEF SameFile
  <2>16. CASE TrackTold(x) = <<>>
    <3>1. DashName(f) = <<>>
      BY <2>14, <2>16
    <3>2. \A track \in {Audio, Video}, time \in Words : <<>> # <<track, time>>
      OBVIOUS
    <3>3. <<<<M4S>>, <<>>>> \notin Held
      BY <3>2, NoSegment
    <3>4. <<<<M4S>>, e>> \notin Held
      BY <2>5, <2>16, NoSegment
    <3> QED
      BY <1>8, <2>7, <3>1, <3>3, <3>4 DEF SameFile
  <2> QED
    BY <2>15, <2>16
<1> QED
  BY <1>2, <1>5, <1>6, <1>7, <1>8

ContentTold(q) == <<<<q.type>>, NameTold(q.type, q.name)>>

LEMMA DashExpectedIs ==
  ASSUME NEW q
  PROVE  DashExpected(q) =
           IF q.method \notin {GET, HEAD} THEN Silence("open")
           ELSE IF Published(q) /\ q.type \notin {M4S, MP4, MPD} THEN Silence("open")
           ELSE IF Published(q) /\ ContentTold(q) \in Held THEN Served(200, "keep-alive", ContentTold(q))
           ELSE Served(404, "close", "no found")
BY DEF DashExpected, ContentTold, NameTold, TrackTold

\* What DASH says.
DashSaid(f) ==
  IF <<f.app, f.stream>> \notin Streams THEN <<Response(404, "close", "no found")>>
  ELSE IF f.type \notin {<<M4S>>, <<MP4>>, <<MPD>>} THEN <<>>
  ELSE IF Content(f.type, DashName(f)) \in Held
       THEN <<Response(200, "keep-alive", Content(f.type, DashName(f)))>>
  ELSE <<Response(404, "close", "no found")>>

LEMMA DashAnswerIs == ASSUME NEW f PROVE DashAnswer(f) = Result(<<>>, kSuccess, <<>>, DashSaid(f), <<>>)
BY DEF DashAnswer, DashSaid

LEMMA SaidAnswer ==
  ASSUME NEW r, NEW x, AtMostOne(x), r = Result(<<>>, kSuccess, <<>>, x, <<>>),
         NEW e, IsExpected(e, x, "open")
  PROVE  Answered(r, e)
<1> DEFINE n == <<>>
<1>1. r = Result(n, kSuccess, n, x, n) /\ n = <<>> /\ IsExpected(e, x, After(kSuccess))
  BY AfterIs
<1> HIDE DEF n
<1>2. IsResult(r, n, kSuccess, n, x, n)
  BY <1>1, ResultIs
<1> QED
  BY <1>1, <1>2, AnswerOf

LEMMA DashGives ==
  ASSUME NEW q, FileRequest(q), IsDashName(q.name), NEW d, d.ret = kSuccess,
         d.fields = LineFields("Dash", q), NEW r, r = Read(d, DashAnswer(d.fields))
  PROVE  Answered(r, DashExpected(q))
<1> DEFINE f == d.fields
<1>1. /\ Len(q.dirs) \in Nat /\ q.name \in Seq(Words) /\ q.name # <<>>
  BY HttpFields, LenProperties DEF IsHttp, FileRequest
<1>2. CASE q.method \notin {GET, HEAD}
  <2>1. f = NoFields
    BY <1>2 DEF LineFields
  <2>2. r = Result(<<>>, kSuccess, <<>>, <<>>, <<>>)
    BY <2>1, NoFieldsAsk DEF Read
  <2>3. DashExpected(q) = Silence("open")
    BY <1>2, DashExpectedIs
  <2> QED
    BY <2>2, <2>3, SilentAnswer
<1>3. CASE q.method \in {GET, HEAD}
  <2>1. f = Fields(NoFields, KeyBytes(q))
    BY <1>3 DEF LineFields
  <2>2. AskedFields(q, f)
    BY <2>1, FieldsAsked DEF FileRequest
  <2> HIDE DEF f
  <2>3. /\ Asked(f) /\ (Published(q) <=> <<f.app, f.stream>> \in Streams)
        /\ Published(q) => f.type = <<q.type>> /\ f.name = q.name
    BY <1>1, <2>2, PublishedIs
  <2> DEFINE said_ == DashSaid(f)
             nothing == Response(404, "close", "no found")
             gone == Served(404, "close", "no found")
             content == ContentTold(q)
             here == Response(200, "keep-alive", content)
             e == Served(200, "keep-alive", content)
  <2>4. r = Result(<<>>, kSuccess, <<>>, said_, <<>>)
    BY <2>3, DashAnswerIs DEF Read, f
  <2>5. IsExpected(gone, <<nothing>>, "open") /\ IsExpected(e, <<here>>, "open")
        /\ IsExpected(Silence("open"), <<>>, "open")
    <3>1. IsExpected(Silence("open"), <<>>, "open")
      BY ExpectedIs
    <3>2. IsExpected(gone, <<nothing>>, "open")
      BY NotServedIs
    <3>3. IsExpected(e, <<here>>, "open")
      BY ServedIs
    <3> QED
      BY <3>1, <3>2, <3>3
  <2>6. AtMostOne(<<>>) /\ AtMostOne(<<here>>) /\ AtMostOne(<<nothing>>)
    BY DEF AtMostOne
  <2>7. DashExpected(q) = IF Published(q) /\ q.type \notin {M4S, MP4, MPD} THEN Silence("open")
                          ELSE IF Published(q) /\ content \in Held THEN e ELSE gone
    BY <1>3, DashExpectedIs
  <2>8. IsExpected(DashExpected(q), said_, "open") /\ AtMostOne(said_)
    <3>1. CASE ~Published(q)
      <4>1. said_ = <<nothing>>
        BY <2>3, <3>1 DEF DashSaid
      <4>2. DashExpected(q) = gone
        BY <2>7, <3>1
      <4> HIDE DEF nothing, gone, said_, e, here
      <4> QED
        BY <2>5, <2>6, <4>1, <4>2
    <3>2. CASE Published(q) /\ q.type \notin {M4S, MP4, MPD}
      <4>1. said_ = <<>>
        <5>1. f.type \notin {<<M4S>>, <<MP4>>, <<MPD>>}
          BY <2>3, <3>2, OneOf
        <5> QED
          BY <2>3, <3>2, <5>1 DEF DashSaid
      <4>2. DashExpected(q) = Silence("open")
        BY <2>7, <3>2
      <4> HIDE DEF nothing, gone, said_, e, here
      <4> QED
        BY <2>5, <2>6, <4>1, <4>2
    <3>3. CASE Published(q) /\ q.type \in {M4S, MP4, MPD}
      <4>1. f.type = <<q.type>> /\ f.name = q.name /\ f.type \in {<<M4S>>, <<MP4>>, <<MPD>>}
        BY <2>3, <3>3
      <4>2. SameFile(q.type, DashName(f), NameTold(q.type, q.name))
        <5> DEFINE t == q.type
                   n == q.name
        <5>1. /\ n \in Seq(Words) /\ n # <<>> /\ IsDashName(n) /\ t \in {M4S, MP4, MPD}
              /\ f.type = <<t>> /\ f.name = n
          BY <1>1, <3>3, <4>1
        <5> HIDE DEF t, n
        <5>2. SameFile(t, DashName(f), NameTold(t, n))
          BY <5>1, DashNameIs
        <5> QED
          BY <5>2 DEF t, n
      <4> DEFINE given == Content(f.type, DashName(f))
      <4>3. given = content \/ (given \notin Held /\ content \notin Held)
        BY <4>1, <4>2 DEF SameFile, Content, ContentTold
      <4>4. said_ = IF given \in Held THEN <<Response(200, "keep-alive", given)>> ELSE <<nothing>>
        BY <2>3, <3>3, <4>1 DEF DashSaid
      <4>5. here = Response(200, "keep-alive", content)
        OBVIOUS
      <4>6. DashExpected(q) = IF content \in Held THEN e ELSE gone
        BY <2>7, <3>3
      <4> HIDE DEF nothing, gone, said_, e, here, given, content
      <4>7. said_ = IF content \in Held THEN <<here>> ELSE <<nothing>>
        BY <4>3, <4>4, <4>5
      <4> QED
        BY <2>5, <2>6, <4>6, <4>7
    <3> QED
      BY <3>1, <3>2, <3>3
  <2> HIDE DEF said_
  <2> QED
    BY <2>4, <2>8, SaidAnswer
<1> QED
  BY <1>2, <1>3

-----------------------------------------------------------------------------
(* A read of HLS or DASH that does not begin the request.                  *)

Streamed == {"Hls", "Dash"}
QuietChars == Alphabet \ {GET, HEAD}

Quiet(p) ==
  /\ IsParser(p) /\ p.loop \in Streamed /\ p.fields = NoFields /\ p.key \in Seq(QuietChars)
  /\ p.ret \in {kSuccess, kNoEnoughData}

LEMMA QuietLine ==
  ASSUME NEW p, Quiet(p), NEW q, q = EndOfLine(p)
  PROVE  Quiet(q)
<1>1. p.loop # "Decode"
  BY DEF Quiet, Streamed
<1>2. ~IsRequestLine(p)
  <2>1. GET \notin QuietChars /\ HEAD \notin QuietChars
    BY DEF QuietChars
  <2>2. p.key \in Seq(QuietChars)
    BY DEF Quiet
  <2> DEFINE key == p.key
  <2>3. key \in Seq(QuietChars) /\ key = p.key
    BY <2>2
  <2> HIDE DEF key
  <2>4. ~Has(GET, key) /\ ~Has(HEAD, key)
    BY <2>1, <2>3, HasNot
  <2> QED
    BY <2>3, <2>4 DEF IsRequestLine
<1>3. q = NextLine(p)
  BY <1>1, <1>2 DEF EndOfLine
<1>4. IsParser(q) /\ q.loop = p.loop /\ q.ret = p.ret /\ q.fields = p.fields
  BY <1>3, NextLineKeeps DEF Quiet
<1>5. q.key \in Seq(QuietChars)
  <2>1. p.ret # kError
    BY DEF Quiet, kError, kSuccess, kNoEnoughData
  <2>2. q = [p EXCEPT !.key = <<>>, !.value = <<>>, !.key_value = FALSE]
    BY <1>3, <2>1 DEF NextLine
  <2>3. q.key = <<>>
    BY <2>2 DEF Quiet, IsParser
  <2>4. <<>> \in Seq(QuietChars)
    OBVIOUS
  <2> QED
    BY <2>3, <2>4
<1> QED
  BY <1>4, <1>5 DEF Quiet

LEMMA QuietChar ==
  ASSUME NEW p, Quiet(p), NEW c \in QuietChars, NEW q, q = Char(p, c)
  PROVE  Quiet(q)
<1>1. CASE c = CR
  <2>1. q = [p EXCEPT !.r_pos = p.n]
    BY <1>1, MarksDiffer DEF Char
  <2> QED
    BY <2>1 DEF IsParser, Quiet
<1>2. CASE c = LF
  <2>1. q = Newline(p)
    BY <1>2, MarksDiffer DEF Char
  <2>2. CASE q = [p EXCEPT !.ret = kSuccess] \/ q = [p EXCEPT !.n_pos = p.n]
    BY <2>2 DEF IsParser, Quiet
  <2>3. CASE q = [EndOfLine(p) EXCEPT !.n_pos = p.n]
    <3> DEFINE e == EndOfLine(p)
    <3>1. Quiet(e)
      BY QuietLine
    <3>2. q = [e EXCEPT !.n_pos = p.n] /\ p.n \in Int
      BY <2>3 DEF Quiet, IsParser
    <3> HIDE DEF e
    <3> QED
      BY <3>1, <3>2 DEF IsParser, Quiet
  <2> QED
    BY <2>1, <2>2, <2>3 DEF Newline
<1>3. CASE c = Colon
  <2> DEFINE v == IF p.key_value THEN Add(p, c) ELSE p
  <2>1. q = [v EXCEPT !.m_pos = p.n, !.key_value = TRUE]
    BY <1>3, MarksDiffer DEF Char
  <2>2. Quiet(v) /\ p.n \in Int
    BY DEF IsParser, Add, Quiet
  <2> HIDE DEF v
  <2> QED
    BY <2>1, <2>2 DEF IsParser, Quiet
<1>4. CASE c \notin {CR, LF, Colon}
  <2>1. q = p \/ q = Add(p, c)
    BY <1>4 DEF Char
  <2>2. Append(p.key, c) \in Seq(QuietChars)
    BY AppendProperties DEF Quiet
  <2>3. CASE q = [p EXCEPT !.value = Append(@, c)] \/ q = p
    BY <2>3 DEF IsParser, Quiet
  <2>4. CASE q = [p EXCEPT !.key = Append(@, c)]
    BY <2>2, <2>4 DEF IsParser, Quiet
  <2> QED
    BY <2>1, <2>3, <2>4 DEF Add
<1> QED
  BY <1>1, <1>2, <1>3, <1>4

LEMMA QuietScan ==
  ASSUME NEW loop \in Streamed, NEW s \in Seq(QuietChars)
  PROVE  Quiet(Scan(Parser(loop), s))
<1> DEFINE p == Parser(loop)
           T == {t \in Seq(QuietChars) : Quiet(Scan(p, t))}
<1>1. <<>> \in T
  <2>1. IsParser(p)
    BY ParserBegins DEF AtBegin
  <2>2. p.loop = loop /\ p.fields = NoFields /\ p.key = <<>> /\ p.ret = kNoEnoughData
    BY DEF Parser
  <2>3. <<>> \in Seq(QuietChars)
    OBVIOUS
  <2> HIDE DEF p
  <2>4. Quiet(p)
    BY <2>1, <2>2, <2>3 DEF Quiet
  <2>5. Scan(p, <<>>) = p
    BY ScanNone
  <2> QED
    BY <2>3, <2>4, <2>5
<1> HIDE DEF p
<1>2. ASSUME NEW t \in Seq(QuietChars), NEW c \in QuietChars, t \in T PROVE Append(t, c) \in T
  <2> DEFINE q == Scan(p, t)
             x == Char(q, c)
             r == Loop(q, c)
  <2>1. Quiet(q)
    BY <1>2
  <2>2. Scan(p, Append(t, c)) = r
    BY ScanAppend
  <2>3. r = IF q.ret # kNoEnoughData THEN q ELSE [x EXCEPT !.n = @ + 1]
    BY DEF Loop
  <2>4. x = Char(q, c) /\ Append(t, c) \in Seq(QuietChars)
    BY AppendProperties
  <2> HIDE DEF q, x, r
  <2>5. Quiet(x)
    BY <2>1, <2>4, QuietChar
  <2>6. Quiet([x EXCEPT !.n = @ + 1])
    <3>1. x.n \in Nat /\ x.n + 1 \in Nat
      BY <2>5 DEF Quiet, IsParser
    <3> QED
      BY <2>5, <3>1 DEF Quiet, IsParser
  <2> QED
    BY <2>1, <2>2, <2>3, <2>4, <2>6
<1> HIDE DEF T
<1>3. s \in T
  BY <1>1, <1>2, SeqUp
<1> QED
  BY <1>3 DEF T, p

\* Nothing is said.
Silent(r) ==
  /\ r.session = <<>> /\ r.rest = <<>> /\ r.said = <<>> /\ r.heard = <<>>
  /\ r.ret \in {kSuccess, kNoEnoughData}

LEMMA QuietRead ==
  ASSUME NEW d, d.fields = NoFields \/ d.ret # kSuccess, NEW answer, NEW r, r = Read(d, answer)
  PROVE  Silent(r)
<1> DEFINE n == <<>>
<1>1. r = Result(n, kSuccess, n, n, n) \/ r = Result(n, kNoEnoughData, n, n, n)
  BY NoFieldsAsk DEF Read, Waits
<1>2. n = <<>>
  OBVIOUS
<1> HIDE DEF n
<1>3. IsResult(r, n, kSuccess, n, n, n) \/ IsResult(r, n, kNoEnoughData, n, n, n)
  BY <1>1, ResultIs
<1> QED
  BY <1>2, <1>3 DEF IsResult, Silent

-----------------------------------------------------------------------------
(* Only the method of a request is one that HLS and DASH look for.         *)

QuietBehind(s) == s # <<>> /\ \A i \in 2 .. Len(s) : s[i] \in QuietChars

LEMMA QuietMore ==
  ASSUME NEW a \in Seq(Alphabet), QuietBehind(a), NEW b \in Seq(QuietChars), NEW s, s = a \o b
  PROVE  QuietBehind(s)
<1>1. Len(a) \in Nat /\ Len(b) \in Nat /\ Len(a) > 0
  BY EmptySeq, LenProperties DEF QuietBehind
<1>2. /\ s \in Seq(Alphabet) /\ Len(s) = Len(a) + Len(b)
      /\ \A i \in 1 .. Len(a) + Len(b) : s[i] = IF i <= Len(a) THEN a[i] ELSE b[i - Len(a)]
  <2>1. b \in Seq(Alphabet)
    BY DEF QuietChars
  <2> QED
    BY <2>1, ConcatProperties
<1>3. s # <<>>
  BY <1>1, <1>2
<1>4. ASSUME NEW i \in 2 .. Len(s) PROVE s[i] \in QuietChars
  <2>1. CASE i <= Len(a)
    <3>1. i \in 2 .. Len(a) /\ s[i] = a[i]
      BY <1>1, <1>2, <2>1
    <3> QED
      BY <3>1 DEF QuietBehind
  <2>2. CASE i > Len(a)
    <3>1. i - Len(a) \in 1 .. Len(b) /\ s[i] = b[i - Len(a)]
      BY <1>1, <1>2, <2>2
    <3> QED
      BY <3>1
  <2> QED
    BY <1>1, <2>1, <2>2
<1> QED
  BY <1>3, <1>4 DEF QuietBehind

LEMMA HeadQuiet ==
  ASSUME NEW q, IsHttp(q)
  PROVE  QuietBehind(HeadOf(q))
<1> DEFINE key == KeyBytes(q)
           lines == Lines(q.headers)
<1>1. LineChars \subseteq QuietChars /\ CR \in QuietChars /\ LF \in QuietChars
  BY WordsAssumption DEF LineChars, Values, QuietChars, Alphabet, Marks
<1>2. CRLF \in Seq(QuietChars)
  BY <1>1 DEF CRLF
<1>3. lines \in Seq(QuietChars)
  <2>1. q.headers \in Seq(HeaderPairs)
    BY HttpFields DEF IsHttp
  <2>2. lines \in Seq(LineChars)
    BY <2>1, LinesIn
  <2> QED
    BY <1>1, <2>2
<1>4. /\ key \in Seq(Alphabet) /\ FirstBytes(q) \in Seq(Alphabet) /\ Body(q) \in Seq(Alphabet)
      /\ KeyOf(key, q.method, RequestUrl(q))
  BY HeadChars
<1>5. FirstBytes(q) = key \o CRLF /\ Body(q) = FirstBytes(q) \o lines /\ HeadOf(q) = Body(q) \o CRLF
  BY DEF FirstBytes, Body, HeadOf
<1> HIDE DEF key, lines
<1>6. QuietBehind(key)
  <2>1. key # <<>> /\ \A i \in 2 .. Len(key) : key[i] # GET /\ key[i] # HEAD
    BY <1>4 DEF KeyOf
  <2>2. \A i \in 2 .. Len(key) : key[i] \in Alphabet
    BY <1>4
  <2> QED
    BY <2>1, <2>2 DEF QuietBehind, QuietChars
<1>7. QuietBehind(FirstBytes(q))
  BY <1>2, <1>4, <1>5, <1>6, QuietMore
<1>8. QuietBehind(Body(q))
  BY <1>3, <1>4, <1>5, <1>7, QuietMore
<1> QED
  BY <1>2, <1>4, <1>5, <1>8, QuietMore

LEMMA QuietRest ==
  ASSUME NEW t \in Seq(Alphabet), NEW u \in Seq(Alphabet), t # <<>>, NEW s, QuietBehind(s), s = t \o u
  PROVE  u \in Seq(QuietChars)
<1>1. Len(t) \in Nat /\ Len(u) \in Nat /\ Len(t) > 0
  BY EmptySeq, LenProperties
<1>2. /\ Len(s) = Len(t) + Len(u)
      /\ \A i \in 1 .. Len(t) + Len(u) : s[i] = IF i <= Len(t) THEN t[i] ELSE u[i - Len(t)]
  BY ConcatProperties
<1>3. ASSUME NEW i \in 1 .. Len(u) PROVE u[i] \in QuietChars
  <2> DEFINE k == Len(t) + i
  <2>1. k \in 2 .. Len(s) /\ k \in 1 .. Len(t) + Len(u) /\ ~(k <= Len(t)) /\ k - Len(t) = i
    BY <1>1, <1>2
  <2> HIDE DEF k
  <2>2. s[k] = u[i]
    BY <1>2, <2>1
  <2> QED
    BY <2>1, <2>2 DEF QuietBehind
<1>4. u \in [1 .. Len(u) -> QuietChars]
  <2>1. u \in [1 .. Len(u) -> Alphabet]
    OBVIOUS
  <2> QED
    BY <1>3, <2>1
<1> QED
  BY <1>1, <1>4, SMTT(60)

-----------------------------------------------------------------------------
(* HLS and DASH.                                                           *)

StreamPorts == {"hls", "dash"}

StreamExpected(q) == IF protocol = "hls" THEN HlsExpected(q) ELSE DashExpected(q)
StreamLoop == IF protocol = "hls" THEN "Hls" ELSE "Dash"

NothingYet == said = <<>> /\ heard = <<>> /\ state = "open"

Unread ==
  reads = 0 /\ ~handling /\ NothingYet /\ read_buffer_ = <<>> /\ wire = Bytes(request)

FirstRead ==
  /\ reads = 1 /\ handling /\ NothingYet
  /\ read_buffer_ # <<>> /\ Plus(read_buffer_, wire, Bytes(request))

OnceAnswered ==
  /\ reads = 1 /\ wire = <<>> /\ read_buffer_ = <<>>
  /\ AtMostOne(said) /\ heard = <<>> /\ Got = StreamExpected(request)

\* The first read took a part; what is left of the request looks like none.
Lost ==
  /\ NothingYet /\ (reads = 2 \/ (reads = 1 /\ wire # <<>>))
  /\ wire \in Seq(QuietChars) /\ read_buffer_ \in Seq(QuietChars)

StreamInv ==
  protocol \in StreamPorts => HttpTypes /\ (Unread \/ FirstRead \/ OnceAnswered \/ Lost)

LEMMA InitStream == Init => StreamInv
<1> SUFFICES ASSUME Init, protocol \in StreamPorts PROVE HttpTypes /\ Unread
  BY DEF StreamInv
<1>1. PICK p \in DOMAIN Requests : \E q \in Requests[p] :
          protocol = p /\ request = q /\ wire = Bytes(q)
  BY DEF Init, StreamPorts
<1>2. PICK q \in Requests[p] : protocol = p /\ request = q /\ wire = Bytes(q)
  BY <1>1
<1>3. IsRequest(protocol, request) /\ protocol # "websocket"
  BY <1>2, RequestsAssumption DEF StreamPorts
<1>4. IsHttp(request) /\ TailOf(request) = <<>>
  BY <1>3, RequestIsHttp
<1>5. <<>> \in Seq(Alphabet)
  OBVIOUS
<1>6. Bytes(request) \in Seq(Alphabet)
  BY <1>4, <1>5, PendingAtFirst
<1>7. /\ read_buffer_ = <<>> /\ NothingYet /\ reads = 0 /\ handling = FALSE
      /\ wire = Bytes(request)
  BY <1>2 DEF Init, NothingYet
<1> QED
  BY <1>3, <1>5, <1>6, <1>7 DEF HttpTypes, Unread

LEMMA ReadIn ==
  ASSUME NEW S, wire \in Seq(S), read_buffer_ \in Seq(S), OnRead
  PROVE  wire' \in Seq(S) /\ read_buffer_' \in Seq(S) /\ read_buffer_' # <<>>
<1>1. PICK n \in 1 .. MaxRead \cup {Len(wire)} :
        /\ n > 0 /\ n <= Len(wire)
        /\ read_buffer_' = read_buffer_ \o SubSeq(wire, 1, n)
        /\ wire' = SubSeq(wire, n + 1, Len(wire))
  BY DEF OnRead
<1>2. Len(wire) \in Nat
  BY LenProperties
<1>3. n \in 0 .. Len(wire) /\ n > 0
  BY <1>1, <1>2, FramesAssumption
<1>4. Moves(read_buffer_, wire, n, read_buffer_', wire')
  BY <1>1 DEF Moves, Behind
<1>5. read_buffer_' \in Seq(S) /\ wire' \in Seq(S)
  BY <1>3, <1>4, ReadMoves
<1>6. read_buffer_' # <<>>
  <2> DEFINE f == SubSeq(wire, 1, n)
             b == read_buffer_
  <2>1. f \in Seq(S) /\ Len(f) = n /\ b \in Seq(S)
    BY <1>3, FrontProperties
  <2>2. read_buffer_' = b \o f
    BY <1>1
  <2> HIDE DEF f, b
  <2>3. Len(b \o f) = Len(b) + Len(f) /\ Len(b) \in Nat
    BY <2>1, ConcatProperties, LenProperties
  <2>4. Len(b \o f) # 0
    BY <1>3, <2>1, <2>3
  <2>5. Len(<<>>) = 0
    OBVIOUS
  <2> QED
    BY <2>2, <2>4, <2>5
<1> QED
  BY <1>5, <1>6

LEMMA StreamRead == ASSUME StreamInv, protocol \in StreamPorts, OnRead PROVE StreamInv'
<1>1. HttpTypes /\ (Unread \/ FirstRead \/ OnceAnswered \/ Lost)
  BY DEF StreamInv
<1>2. wire \in Seq(Alphabet) /\ read_buffer_ \in Seq(Alphabet)
  BY <1>1 DEF HttpTypes
<1>3. /\ wire' \in Seq(Alphabet) /\ read_buffer_' \in Seq(Alphabet)
      /\ Same(read_buffer_', wire', read_buffer_, wire)
      /\ ~handling /\ state = "open" /\ handling' = TRUE
      /\ protocol' = protocol /\ request' = request /\ said' = said
      /\ heard' = heard /\ state' = state /\ wire # <<>>
      /\ reads' = IF reads = 2 THEN 2 ELSE reads + 1
  BY <1>2, HttpRead
<1>4. HttpTypes'
  BY <1>1, <1>3 DEF HttpTypes
<1>5. CASE Unread
  <2>1. read_buffer_' # <<>>
    BY <1>2, ReadIn
  <2>2. reads' = 1
    BY <1>3, <1>5 DEF Unread
  <2>3. Plus(read_buffer_', wire', Bytes(request))
    <3>1. read_buffer_' \o wire' = <<>> \o wire /\ wire = Bytes(request)
      BY <1>3, <1>5 DEF Unread, Same
    <3>2. <<>> \o wire = wire
      BY <1>2, ConcatEmptySeq
    <3> QED
      BY <3>1, <3>2 DEF Plus
  <2>4. FirstRead'
    BY <1>3, <1>5, <2>1, <2>2, <2>3 DEF FirstRead, Unread, NothingYet
  <2> QED
    BY <1>4, <2>4 DEF StreamInv
<1>6. CASE Lost
  <2>1. wire' \in Seq(QuietChars) /\ read_buffer_' \in Seq(QuietChars)
    BY <1>6, ReadIn DEF Lost
  <2>2. reads' = 2
    BY <1>3, <1>6 DEF Lost
  <2>3. Lost'
    BY <1>3, <1>6, <2>1, <2>2 DEF Lost, NothingYet
  <2> QED
    BY <1>4, <2>3 DEF StreamInv
<1> QED
  BY <1>1, <1>3, <1>5, <1>6 DEF FirstRead, OnceAnswered

StreamAnswer(d) == IF protocol = "hls" THEN HlsAnswer(d.fields) ELSE DashAnswer(d.fields)

LEMMA StreamAnswerIs ==
  ASSUME protocol \in StreamPorts, NEW q, IsRequest(protocol, q), NEW d, Whole(StreamLoop, q, d),
         NEW r, r = Read(d, StreamAnswer(d))
  PROVE  Answered(r, StreamExpected(q))
<1>1. FileRequest(q) /\ (protocol = "dash" => IsDashName(q.name))
  <2>1. IsHttp(q)
    BY RequestIsHttp
  <2>2. IsFileOfStream(q) /\ (protocol = "dash" => IsDashName(q.name))
    BY DEF StreamPorts, IsRequest
  <2> QED
    BY <2>1, <2>2 DEF FileRequest, IsFileOfStream
<1>2. StreamLoop # "Decode"
  BY DEF StreamLoop
<1>3. d.ret = kSuccess /\ d.fields = LineFields(StreamLoop, q)
  BY <1>2 DEF Whole
<1>4. CASE protocol = "hls"
  <2>1. d.fields = LineFields("Hls", q) /\ r = Read(d, HlsAnswer(d.fields))
    BY <1>3, <1>4 DEF StreamLoop, StreamAnswer
  <2>2. Answered(r, HlsExpected(q))
    BY <1>1, <1>3, <2>1, HlsGives
  <2> QED
    BY <1>4, <2>2 DEF StreamExpected
<1>5. CASE protocol = "dash"
  <2>1. d.fields = LineFields("Dash", q) /\ r = Read(d, DashAnswer(d.fields))
    BY <1>3, <1>5 DEF StreamLoop, StreamAnswer
  <2>2. Answered(r, DashExpected(q))
    BY <1>1, <1>3, <1>5, <2>1, DashGives
  <2> QED
    BY <1>5, <2>2 DEF StreamExpected
<1> QED
  BY <1>4, <1>5 DEF StreamPorts

LEMMA StreamExpectedIs == ASSUME NEW q PROVE ExpectedRecord(StreamExpected(q))
<1>1. ExpectedRecord(HlsExpected(q))
  BY DEF HlsExpected, Served, Silence, ExpectedRecord
<1>2. ExpectedRecord(DashExpected(q))
  BY DashExpectedIs DEF Served, Silence, ExpectedRecord
<1> QED
  BY <1>1, <1>2 DEF StreamExpected

\* What a turn gives that is not an answer.
LEMMA StreamSilent ==
  ASSUME NEW d, d.fields = NoFields \/ d.ret # kSuccess, NEW r, r = Read(d, StreamAnswer(d))
  PROVE  Silent(r)
<1> DEFINE a == StreamAnswer(d)
<1>1. r = Read(d, a)
  OBVIOUS
<1> HIDE DEF a
<1> QED
  BY <1>1, QuietRead

LEMMA StreamHandle == ASSUME StreamInv, protocol \in StreamPorts, HandleHttp PROVE StreamInv'
<1>1. HttpTypes /\ (Unread \/ FirstRead \/ OnceAnswered \/ Lost)
  BY DEF StreamInv
<1> DEFINE q == request
           b == read_buffer_
           w == wire
           d == Scan(Parser(StreamLoop), read_buffer_)
           r == Parse(session, read_buffer_)
<1>2. /\ read_buffer_' = r.rest
      /\ said' = said \o r.said /\ heard' = heard \o r.heard
      /\ state' = After(r.ret) /\ handling' = (r.ret = kSuccess) /\ handling
      /\ protocol' = protocol /\ request' = request /\ wire' = wire /\ reads' = reads
  BY DEF HandleHttp
<1>3. r = Read(d, StreamAnswer(d))
  <2>1. protocol = "hls" => r = Read(d, StreamAnswer(d))
    BY DEF Parse, HlsParse, OneRead, StreamLoop, StreamAnswer
  <2>2. protocol = "dash" => r = Read(d, StreamAnswer(d))
    BY DEF Parse, DashParse, OneRead, StreamLoop, StreamAnswer
  <2> QED
    BY <2>1, <2>2 DEF StreamPorts
<1>4. IsRequest(protocol, q) /\ w \in Seq(Alphabet) /\ b \in Seq(Alphabet) /\ state = "open"
  BY <1>1, <1>2 DEF HttpTypes
<1>5. IsHttp(q) /\ TailOf(q) = <<>> /\ <<>> \in Seq(Alphabet) /\ HeadOf(q) \in Seq(Alphabet)
      /\ Bytes(q) = HeadOf(q)
  <2>1. IsHttp(q) /\ TailOf(q) = <<>>
    BY <1>4, RequestIsHttp DEF StreamPorts
  <2>2. <<>> \in Seq(Alphabet)
    OBVIOUS
  <2>3. HeadOf(q) \in Seq(Alphabet)
    BY <2>1, HeadChars
  <2> DEFINE h == HeadOf(q)
             e == TailOf(q)
  <2>4. h \in Seq(Alphabet) /\ e = <<>> /\ Bytes(q) = h \o e
    BY <2>1, <2>3, BytesOf
  <2> HIDE DEF h, e
  <2>5. h \o <<>> = h
    BY <2>4, ConcatEmptySeq
  <2>6. Bytes(q) = h
    BY <2>4, <2>5
  <2> QED
    BY <2>1, <2>2, <2>3, <2>6 DEF h
<1>6. d = Scan(Parser(StreamLoop), b) /\ StreamLoop \in Streamed /\ StreamLoop # "Decode"
  BY DEF StreamLoop, Streamed
<1> HIDE DEF q, b, w, d, r
\* A turn that says nothing and leaves nothing.
<1>7. ASSUME Silent(r), AtMostOne(said), AtMostOne(heard)
      PROVE  /\ HttpTypes' /\ read_buffer_' = <<>> /\ said' = said /\ heard' = heard
             /\ state' = state
  <2>1. r.rest = <<>> /\ r.said = <<>> /\ r.heard = <<>> /\ r.ret \in {kSuccess, kNoEnoughData}
    BY <1>7 DEF Silent
  <2>2. said \o <<>> = said /\ heard \o <<>> = heard
    BY <1>7, ConcatNone
  <2>3. state' = "open" /\ handling' \in BOOLEAN
    BY <1>2, <2>1, AfterIs
  <2>4. read_buffer_' = <<>> /\ said' = said /\ heard' = heard /\ state' = state
    BY <1>2, <1>4, <2>1, <2>2, <2>3
  <2>5. HttpTypes'
    BY <1>2, <1>4, <1>5, <2>3, <2>4 DEF HttpTypes, q, w
  <2> QED
    BY <2>4, <2>5
<1>8. CASE FirstRead
  <2>1. Plus(b, w, HeadOf(q)) /\ b # <<>> /\ reads = 1 /\ NothingYet
    BY <1>5, <1>8 DEF FirstRead, b, w, q
  <2>2. AtMostOne(said) /\ AtMostOne(heard) /\ said = <<>> /\ heard = <<>>
    BY <2>1 DEF NothingYet, AtMostOne
  <2>3. CASE w = <<>>
    <3>1. b = HeadOf(q)
      <4>1. HeadOf(q) = b \o <<>>
        BY <2>1, <2>3 DEF Plus
      <4>2. b \o <<>> = b
        BY <1>4, ConcatEmptySeq
      <4> QED
        BY <4>1, <4>2
    <3>2. Whole(StreamLoop, q, d)
      BY <1>5, <1>6, <3>1, ScanWhole
    <3>3. Answered(r, StreamExpected(q))
      BY <1>3, <1>4, <3>2, StreamAnswerIs
    <3> DEFINE e == StreamExpected(q)
    <3>4. /\ Gives(r, e) /\ r.rest = <<>> /\ r.heard = <<>>
          /\ AtMostOne(r.said) /\ r.ret \in {kSuccess, kClose}
      BY <3>3 DEF Answered
    <3>5. ExpectedRecord(e)
      BY StreamExpectedIs
    <3>6. StreamExpected(request)' = e
      BY <1>2 DEF StreamExpected, q
    <3> HIDE DEF e
    <3>7. said' = r.said /\ heard' = <<>>
      <4>1. <<>> \o r.said = r.said
        BY <3>4, ConcatNone
      <4>2. heard \o <<>> = heard
        BY <2>2, ConcatNone
      <4> QED
        BY <1>2, <2>2, <3>4, <4>1, <4>2
    <3>8. Got' = [said |-> r.said, heard |-> <<>>, state |-> After(r.ret)]
      BY <1>2, <3>7 DEF Got
    <3>9. r.said = e.said /\ <<>> = e.heard /\ After(r.ret) = e.state
      BY <3>4 DEF Gives
    <3>10. Got' = e
      BY <3>5, <3>8, <3>9 DEF ExpectedRecord
    <3>11. OnceAnswered'
      BY <1>2, <2>1, <2>3, <3>4, <3>6, <3>7, <3>10 DEF OnceAnswered, w
    <3>12. HttpTypes'
      <4>1. handling' => state' = "open"
        BY <1>2, AfterIs
      <4>2. handling' \in BOOLEAN
        BY <1>2
      <4>3. IsRequest(protocol', request')
        BY <1>2, <1>4 DEF q
      <4>4. wire' = <<>> /\ read_buffer_' = <<>>
        BY <1>2, <2>3, <3>4 DEF w
      <4> QED
        BY <1>5, <4>1, <4>2, <4>3, <4>4 DEF HttpTypes
    <3> QED
      BY <3>11, <3>12 DEF StreamInv
  <2>4. CASE w # <<>>
    <3> DEFINE h == HeadOf(q)
               l == StreamLoop
    <3>1. h = b \o w
      BY <2>1 DEF Plus
    <3>2. QuietBehind(h)
      BY <1>5, HeadQuiet
    <3>3. d.ret = kNoEnoughData
      BY <1>4, <1>5, <1>6, <2>4, <3>1, ScanPart
    <3> HIDE DEF h, l
    <3>4. w \in Seq(QuietChars)
      BY <1>4, <2>1, <3>1, <3>2, QuietRest
    <3>5. d.ret # kSuccess
      BY <3>3, AfterIs
    <3>6. Silent(r)
      BY <1>3, <3>5, StreamSilent
    <3>7. /\ HttpTypes' /\ read_buffer_' = <<>> /\ said' = said /\ heard' = heard
          /\ state' = state
      BY <1>7, <2>2, <3>6
    <3>8. <<>> \in Seq(QuietChars)
      OBVIOUS
    <3>9. Lost'
      BY <1>2, <2>1, <2>4, <3>4, <3>7, <3>8 DEF Lost, NothingYet, w
    <3> QED
      BY <3>7, <3>9 DEF StreamInv
  <2> QED
    BY <2>3, <2>4
<1>9. CASE OnceAnswered
  <2>1. b = <<>> /\ w = <<>> /\ AtMostOne(said) /\ AtMostOne(heard)
    BY <1>9 DEF OnceAnswered, AtMostOne, b, w
  <2>2. d = Parser(StreamLoop)
    BY <1>6, <2>1, ScanNone
  <2>3. d.ret # kSuccess
    BY <2>2, AfterIs DEF Parser
  <2>4. Silent(r)
    BY <1>3, <2>3, StreamSilent
  <2>5. /\ HttpTypes' /\ read_buffer_' = <<>> /\ said' = said /\ heard' = heard
        /\ state' = state
    BY <1>7, <2>1, <2>4
  <2>6. Got' = Got /\ StreamExpected(request)' = StreamExpected(request)
    BY <1>2, <2>5 DEF Got, StreamExpected
  <2>7. OnceAnswered'
    BY <1>2, <1>9, <2>5, <2>6 DEF OnceAnswered
  <2> QED
    BY <2>5, <2>7 DEF StreamInv
<1>10. CASE Lost
  <2>1. b \in Seq(QuietChars) /\ NothingYet
    BY <1>10 DEF Lost, b
  <2>2. Quiet(d)
    BY <1>6, <2>1, QuietScan
  <2>3. d.fields = NoFields
    BY <2>2 DEF Quiet
  <2>4. Silent(r)
    BY <1>3, <2>3, StreamSilent
  <2>5. AtMostOne(said) /\ AtMostOne(heard)
    BY <2>1 DEF NothingYet, AtMostOne
  <2>6. /\ HttpTypes' /\ read_buffer_' = <<>> /\ said' = said /\ heard' = heard
        /\ state' = state
    BY <1>7, <2>4, <2>5
  <2>7. <<>> \in Seq(QuietChars)
    OBVIOUS
  <2>8. Lost'
    BY <1>2, <1>10, <2>6, <2>7 DEF Lost, NothingYet
  <2> QED
    BY <2>6, <2>8 DEF StreamInv
<1>11. ~Unread
  BY <1>2 DEF Unread
<1> QED
  BY <1>1, <1>8, <1>9, <1>10, <1>11

LEMMA StreamStays ==
  ASSUME StreamInv, protocol \in StreamPorts, GoOn \/ HandleRtmp \/ Send \/ UNCHANGED vars
  PROVE  StreamInv'
<1>1. /\ protocol' = protocol /\ request' = request /\ wire' = wire /\ read_buffer_' = read_buffer_
      /\ handling' = handling /\ said' = said /\ heard' = heard
      /\ state' = state /\ reads' = reads
  BY DEF GoOn, HandleRtmp, Send, vars, StreamPorts
<1>2. HttpTypes' = HttpTypes /\ NothingYet' = NothingYet
  BY <1>1 DEF HttpTypes, NothingYet
<1>3. StreamExpected(request)' = StreamExpected(request) /\ Got' = Got
  BY <1>1 DEF StreamExpected, Got
<1>4. Unread' = Unread /\ FirstRead' = FirstRead
  BY <1>1, <1>2 DEF Unread, FirstRead
<1>5. OnceAnswered' = OnceAnswered /\ Lost' = Lost
  BY <1>1, <1>2, <1>3 DEF OnceAnswered, Lost
<1> QED
  BY <1>1, <1>2, <1>4, <1>5 DEF StreamInv

LEMMA StreamNow ==
  ASSUME StreamInv, protocol \in StreamPorts
  PROVE  AnsweredAsAsked
<1> SUFFICES ASSUME wire = <<>>, ~handling
             PROVE  IF reads > 1 THEN Got = Silence("open") ELSE Got = Expected
  BY DEF AnsweredAsAsked, StreamPorts
<1>1. HttpTypes /\ (Unread \/ FirstRead \/ OnceAnswered \/ Lost)
  BY DEF StreamInv
<1>2. CASE Unread
  <2>1. IsHttp(request) /\ TailOf(request) = <<>>
    <3>1. IsRequest(protocol, request) /\ protocol # "websocket"
      BY <1>1 DEF HttpTypes, StreamPorts
    <3> QED
      BY <3>1, RequestIsHttp
  <2> DEFINE h == HeadOf(request)
  <2>2. h \in Seq(Alphabet) /\ Len(h) > 0
    BY <2>1, HeadChars, HeadLength
  <2>3. Bytes(request) = h \o <<>>
    BY <2>1, BytesOf
  <2> HIDE DEF h
  <2>4. h \o <<>> = h
    BY <2>2, ConcatEmptySeq
  <2>5. Len(<<>>) = 0
    OBVIOUS
  <2>6. wire = h
    BY <1>2, <2>3, <2>4 DEF Unread
  <2> QED
    BY <2>2, <2>5, <2>6
<1>3. CASE OnceAnswered
  <2>1. Got = StreamExpected(request) /\ reads = 1
    BY <1>3 DEF OnceAnswered
  <2>2. Expected = StreamExpected(request)
    <3>1. protocol = "hls" => Expected = HlsExpected(request)
      BY DEF Expected
    <3>2. protocol = "dash" => Expected = DashExpected(request)
      BY DEF Expected
    <3> QED
      BY <3>1, <3>2 DEF StreamPorts, StreamExpected
  <2> QED
    BY <2>1, <2>2
<1>4. CASE Lost
  <2>1. reads = 2 /\ NothingYet
    BY <1>4 DEF Lost
  <2>2. Got = Silence("open")
    BY <2>1 DEF NothingYet, Got, Silence
  <2> QED
    BY <2>1, <2>2
<1> QED
  BY <1>1, <1>2, <1>3, <1>4 DEF FirstRead

-----------------------------------------------------------------------------
(* Every HTTP port.                                                        *)

HttpPorts == Pages \cup {"websocket"} \cup StreamPorts

PortInv == protocol \in HttpPorts \cup {"rtmp"} /\ PageInv /\ SocketInv /\ StreamInv

LEMMA InitPort == Init => PortInv
<1> SUFFICES ASSUME Init PROVE PortInv
  OBVIOUS
<1>1. protocol \in DOMAIN Requests \/ protocol = "rtmp"
  BY DEF Init
<1>2. protocol \in HttpPorts \cup {"rtmp"}
  BY <1>1, RequestsAssumption DEF HttpPorts, Pages, StreamPorts
<1> QED
  BY <1>2, InitPage, InitSocket, InitStream DEF PortInv

LEMMA PortStep == PortInv /\ [Next]_vars => PortInv'
<1> SUFFICES ASSUME PortInv, [Next]_vars PROVE PortInv'
  OBVIOUS
<1>1. protocol' = protocol
  BY DEF Next, OnRead, HandleHttp, HandleRtmp, GoOn, Send, vars
<1>2. PageInv /\ SocketInv /\ StreamInv
  BY DEF PortInv
<1>3. OnRead \/ HandleHttp \/ HandleRtmp \/ GoOn \/ Send \/ UNCHANGED vars
  BY DEF Next
<1>4. PageInv'
  <2>1. CASE protocol \in Pages
    BY <1>2, <1>3, <2>1, PageRead, PageHandle, PageStays
  <2>2. CASE protocol \notin Pages
    BY <1>1, <2>2 DEF PageInv
  <2> QED
    BY <2>1, <2>2
<1>5. SocketInv'
  <2>1. CASE protocol = "websocket"
    BY <1>2, <1>3, <2>1, SocketRead, SocketHandle, SocketGoesOn, SocketStays
  <2>2. CASE protocol # "websocket"
    BY <1>1, <2>2 DEF SocketInv
  <2> QED
    BY <2>1, <2>2
<1>6. StreamInv'
  <2>1. CASE protocol \in StreamPorts
    BY <1>2, <1>3, <2>1, StreamRead, StreamHandle, StreamStays
  <2>2. CASE protocol \notin StreamPorts
    BY <1>1, <2>2 DEF StreamInv
  <2> QED
    BY <2>1, <2>2
<1> QED
  BY <1>1, <1>4, <1>5, <1>6 DEF PortInv

\* However TCP cuts what the client writes, and for every request it can
\* make, it gets what it asked for, once: a player its stream, a browser the
\* file, a WebSocket client the messages it sent, the frames that came in one
\* read with the request included.  A HLS or DASH client does if the first
\* read took its request, and is never answered if not (the Parse of the
\* HTTP protocols).
THEOREM RequestAnsweredAsAsked == Spec => []AnsweredAsAsked
<1>1. Init => PortInv
  BY InitPort
<1>2. PortInv /\ [Next]_vars => PortInv'
  BY PortStep
<1>3. PortInv => AnsweredAsAsked
  <2> SUFFICES ASSUME PortInv PROVE AnsweredAsAsked
    OBVIOUS
  <2>1. CASE protocol = "rtmp"
    BY <2>1 DEF AnsweredAsAsked
  <2>2. CASE protocol \in HttpPorts
    BY <2>2, PageNow, SocketNow, StreamNow DEF PortInv, HttpPorts
  <2> QED
    BY <2>1, <2>2 DEF PortInv
<1> QED
  BY <1>1, <1>2, <1>3, PTL DEF Spec
=============================================================================
