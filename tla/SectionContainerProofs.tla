----------------------- MODULE SectionContainerProofs -----------------------
(***************************************************************************)
(* Proofs about the run-length codecs, and about the files of sections     *)
(* that use one of them, for every width of a byte and every input.        *)
(*                                                                         *)
(* Encoded bytes are described by the places at which a pair or packet     *)
(* begins, and by the place in the input that each of these stands for;    *)
(* an encoder adds a place with every round, a decoder goes from one to    *)
(* the next, and a cut stream has fewer of them.                           *)
(***************************************************************************)
EXTENDS SectionContainer, DataLemmas

(* A run is a run: as many equal bytes as it says, and no more than asked. *)
LEMMA RunIsRun ==
  ASSUME NEW S, input \in Seq(S), NEW from \in 0..Len(input) - 1, NEW limit \in Nat \ {0}
  PROVE  LET n == RunAt(from, limit)
         IN /\ n \in 1..Len(input) - from /\ n <= limit
            /\ \A k \in 1..n : input[from + k] = input[from + 1]
<1> DEFINE rest == Len(input) - from
           Equal(n) == \A k \in 1..n - 1 : input[from + 1 + k] = input[from + 1]
           Ends(n) == n = limit \/ n = rest \/ input[from + 1 + n] # input[from + 1]
           T == {n \in 1..rest : n <= limit /\ Equal(n)}
<1>1. Len(input) \in Nat /\ rest \in Nat \ {0}
  OBVIOUS
<1>2. 1 \in T
  <2>1. Equal(1)
    BY <1>1
  <2> QED BY <1>1, <2>1
<1>3. PICK n \in T : \A m \in T : m <= n
  <2>1. T \in SUBSET (0..rest)
    BY <1>1
  <2> HIDE DEF T, rest
  <2>2. T # {}
    BY <1>2
  <2> QED BY <1>1, <2>1, <2>2, GreatestMember
<1>4. n \in 1..rest /\ n <= limit /\ Equal(n) /\ Ends(n)
  <2>1. n \in 1..rest /\ n \in Nat /\ n <= limit /\ Equal(n)
    OBVIOUS
  <2> SUFFICES ASSUME n # limit, n # rest, input[from + 1 + n] = input[from + 1] PROVE FALSE
    BY <2>1
  <2>2. n + 1 \in 1..rest /\ n + 1 <= limit
    BY <1>1, <2>1
  <2>3. Equal(n + 1)
    <3>1. \A k \in 1..(n + 1) - 1 : k \in 1..n - 1 \/ k = n
      BY <2>1
    <3> QED BY <2>1, <3>1
  <2>4. n + 1 \in T
    BY <2>2, <2>3
  <2>5. n + 1 <= n
    <3> HIDE DEF T
    <3> QED BY <1>3, <2>4
  <2> QED BY <2>1, <2>5
<1>5. /\ RunAt(from, limit) \in 1..rest /\ RunAt(from, limit) <= limit
      /\ Equal(RunAt(from, limit))
  <2>1. \E m \in 1..rest : m <= limit /\ Equal(m) /\ Ends(m)
    BY <1>4
  <2> QED BY <2>1 DEF RunAt
<1>6. ASSUME NEW k \in 1..RunAt(from, limit) PROVE input[from + k] = input[from + 1]
  <2>1. CASE k = 1
    BY <2>1
  <2>2. CASE k > 1
    <3>1. k - 1 \in 1..RunAt(from, limit) - 1 /\ from + 1 + (k - 1) = from + k
      BY <1>5, <2>2
    <3> QED BY <1>5, <3>1
  <2> QED BY <1>5, <2>1, <2>2
<1> QED BY <1>5, <1>6

(* Where a literal may end: the recursion has a solution, since every      *)
(* round goes on to a later byte.                                          *)
EndBody(g, e) ==
  IF e < Len(input) /\ e - at < MaxCount /\ RunAt(e, MaxCount) < 3
    THEN g[e + RunAt(e, MaxCount)] ELSE e

LEMMA LiteralEnds ==
  ASSUME NEW S, input \in Seq(S), at \in 0..Len(input) - 1,
         Flag \in Nat \ {0, 1}, RunAt(at, MaxCount) < 3
  PROVE  LiteralEnd \in at + 1..Len(input) /\ LiteralEnd - at <= Flag
<1> DEFINE N == Len(input)
           end == CHOOSE g : g = [e \in 0..N |-> EndBody(g, e)]
<1>1. N \in Nat /\ MaxCount \in Nat \ {0} /\ at \in Nat /\ MaxCount + 1 = Flag
  BY DEF MaxCount
<1>2. ASSUME NEW e \in 0..N - 1
      PROVE  RunAt(e, MaxCount) \in 1..N - e /\ e + RunAt(e, MaxCount) \in e + 1..N
  <2>1. e \in 0..Len(input) - 1
    BY <1>1
  <2>2. RunAt(e, MaxCount) \in 1..Len(input) - e
    BY <1>1, <2>1, RunIsRun
  <2> QED BY <1>1, <2>2
<1>3. LiteralEnd = end[at + RunAt(at, MaxCount)]
  BY DEF LiteralEnd, EndBody
<1>4. end = [e \in 0..N |-> EndBody(end, e)]
  <2> DEFINE Upto(n, g) == g = [e \in N - n..N |-> EndBody(g, e)]
             T == {n \in 0..N : \E g : Upto(n, g)}
  <2>1. 0 \in T
    <3> DEFINE g == [e \in N - 0..N |-> e]
    <3>1. Upto(0, g)
      BY <1>1 DEF EndBody
    <3> HIDE DEF Upto, g
    <3> QED BY <1>1, <3>1
  <2>2. ASSUME NEW n \in 0..N - 1, n \in T PROVE n + 1 \in T
    <3>1. PICK g : Upto(n, g)
      BY <2>2
    <3> DEFINE h == [e \in N - (n + 1)..N |-> EndBody(g, e)]
    <3>2. ASSUME NEW e \in N - (n + 1)..N PROVE EndBody(g, e) = EndBody(h, e)
      <4>1. CASE e < N
        <5>1. e \in 0..N - 1
          BY <1>1, <2>2, <4>1
        <5>2. e + RunAt(e, MaxCount) \in N - n..N
          BY <1>1, <1>2, <2>2, <5>1
        <5>3. \A i \in N - n..N : g[i] = EndBody(g, i) /\ h[i] = EndBody(g, i)
          <6>1. \A i \in N - n..N : i \in N - (n + 1)..N
            BY <1>1, <2>2
          <6> QED BY <3>1, <6>1
        <5>4. g[e + RunAt(e, MaxCount)] = h[e + RunAt(e, MaxCount)]
          BY <5>2, <5>3
        <5> HIDE DEF h
        <5> QED BY <5>4 DEF EndBody
      <4>2. CASE ~(e < N)
        BY <4>2 DEF EndBody
      <4> QED BY <4>1, <4>2
    <3>3. Upto(n + 1, h)
      BY <3>2
    <3>4. n + 1 \in 0..N
      BY <1>1, <2>2
    <3> HIDE DEF Upto, h
    <3> QED BY <3>3, <3>4
  <2>3. N \in T
    <3> HIDE DEF T
    <3>1. \A n \in 0..N : n \in T
      BY <1>1, <2>1, <2>2, BoundedInduction
    <3> QED BY <1>1, <3>1
  <2>4. \E g : g = [e \in 0..N |-> EndBody(g, e)]
    BY <1>1, <2>3
  <2> QED BY <2>4
<1> HIDE DEF end
<1>5. \A e \in at + 1..N : e - at <= Flag => end[e] \in e..N /\ end[e] - at <= Flag
  <2> DEFINE Good(e) == e - at <= Flag => end[e] \in e..N /\ end[e] - at <= Flag
             M == N - (at + 1)
             T == {n \in 0..M : \A e \in N - n..N : Good(e)}
  <2>0. M \in Nat
    BY <1>1
  <2>1. 0 \in T
    <3>1. N \in 0..N /\ EndBody(end, N) = N
      BY <1>1 DEF EndBody
    <3>2. end[N] = N
      BY <1>4, <3>1
    <3> QED BY <1>1, <2>0, <3>2
  <2>2. ASSUME NEW n \in 0..M - 1, n \in T PROVE n + 1 \in T
    <3> DEFINE e == N - (n + 1)
               m == e + RunAt(e, MaxCount)
    <3>1. e \in 0..N - 1 /\ e \in 0..N /\ m \in e + 1..N /\ e >= at + 1
      BY <1>1, <1>2, <2>2, <2>0
    <3>2. m \in N - n..N /\ Good(m)
      BY <1>1, <2>2, <3>1
    <3>3. end[e] = IF e - at < MaxCount /\ RunAt(e, MaxCount) < 3 THEN end[m] ELSE e
      BY <1>4, <3>1 DEF EndBody
    <3>4. Good(e)
      <4>1. CASE e - at < MaxCount /\ RunAt(e, MaxCount) < 3
        <5>1. RunAt(e, MaxCount) \in 1..N - e
          BY <1>2, <3>1
        <5>2. m - at <= Flag
          BY <1>1, <3>1, <4>1, <5>1
        <5> QED BY <1>1, <3>1, <3>2, <3>3, <4>1, <5>2
      <4>2. CASE ~(e - at < MaxCount /\ RunAt(e, MaxCount) < 3)
        BY <1>1, <3>1, <3>3, <4>2
      <4> QED BY <4>1, <4>2
    <3>5. \A i \in N - (n + 1)..N : i = e \/ i \in N - n..N
      BY <1>1, <2>2
    <3> HIDE DEF Good, e
    <3>6. \A i \in N - (n + 1)..N : Good(i)
      BY <2>2, <3>4, <3>5
    <3> QED BY <2>2, <2>0, <3>6
  <2>3. M \in T
    <3> HIDE DEF T, M
    <3>1. \A n \in 0..M : n \in T
      BY <2>0, <2>1, <2>2, BoundedInduction
    <3> QED BY <2>0, <3>1
  <2> QED BY <1>1, <2>0, <2>3
<1> DEFINE first == at + RunAt(at, MaxCount)
<1>6. first \in at + 1..N /\ first - at <= Flag
  <2>1. RunAt(at, MaxCount) \in 1..N - at /\ RunAt(at, MaxCount) <= MaxCount
    BY <1>1, RunIsRun
  <2> QED BY <1>1, <2>1
<1>7. end[first] \in first..N /\ end[first] - at <= Flag
  BY <1>5, <1>6
<1> QED BY <1>1, <1>3, <1>6, <1>7

(***************************************************************************)
(* What encoded bytes say.  A pair, and a packet with the flag, is a byte  *)
(* to copy; any other packet is followed by its bytes.                     *)
(***************************************************************************)

Copied(kind, tag)     == kind = "pairs" \/ tag >= Flag
CountIn(kind, tag)    == IF kind = "pairs" THEN tag ELSE tag % Flag
After(kind, bytes, d) ==
  IF Copied(kind, bytes[d + 1]) THEN d + 2 ELSE d + 1 + CountIn(kind, bytes[d + 1])
Says(kind, bytes, d, k) ==
  IF Copied(kind, bytes[d + 1]) THEN bytes[d + 2] ELSE bytes[d + 1 + k]

(* What is said at place d of bytes comes next in text, where place maps   *)
(* the places of bytes at which something is said to those of text.  It is *)
(* not required of what does not fit into bytes, or has no length.         *)
SaysNext(kind, bytes, text, marks, place, d) ==
  LET n == CountIn(kind, bytes[d + 1])
      next == After(kind, bytes, d)
  IN /\ next \in marks /\ place[next] = place[d] + n /\ place[next] <= Len(text)
     /\ \A k \in 1..n : text[place[d] + k] = Says(kind, bytes, d, k)

Agrees(kind, bytes, text, marks, place, d) ==
  /\ kind = "pairs" => CountIn(kind, bytes[d + 1]) > 0
  /\ CountIn(kind, bytes[d + 1]) > 0 /\ After(kind, bytes, d) <= Len(bytes) =>
       SaysNext(kind, bytes, text, marks, place, d)

Reads(kind, bytes, text, marks, place) ==
  /\ marks \in SUBSET Nat /\ place \in [Nat -> Nat]
  /\ 0 \in marks /\ place[0] = 0
  /\ \A d \in marks :
       /\ place[d] <= Len(text)
       /\ kind = "pairs" => d % 2 = 0
       /\ d < Len(bytes) => Agrees(kind, bytes, text, marks, place, d)

(* bytes is what an encoder makes of the first n bytes of text: everything *)
(* is said in full.                                                        *)
Full(kind, bytes, marks) ==
  /\ marks \in SUBSET (0..Len(bytes)) /\ Len(bytes) \in marks
  /\ \A d \in marks : d < Len(bytes) => After(kind, bytes, d) <= Len(bytes)

Encodes(kind, bytes, text, n) ==
  \E marks, place :
    /\ Reads(kind, bytes, text, marks, place) /\ Full(kind, bytes, marks)
    /\ place[Len(bytes)] = n

(* A decoder that has come to place i of bytes has the right part of text. *)
Decodes(kind, bytes, text, i, part, whole) ==
  \E marks, place :
    /\ Reads(kind, bytes, text, marks, place)
    /\ i \in marks /\ part = SubSeq(text, 1, place[i])
    /\ whole => Len(bytes) \in marks /\ place[Len(bytes)] = Len(text)

(* Nothing says nothing.                                                   *)
LEMMA NothingEncodes ==
  ASSUME NEW kind, NEW S, NEW text \in Seq(S)
  PROVE  Encodes(kind, << >>, text, 0)
<1> DEFINE place == [d \in Nat |-> 0]
<1>1. Reads(kind, << >>, text, {0}, place)
  BY DEF Reads
<1>2. Full(kind, << >>, {0})
  BY DEF Full
<1>3. place[Len(<< >>)] = 0
  OBVIOUS
<1> QED BY <1>1, <1>2, <1>3 DEF Encodes

(* One more pair or packet, whose bytes come next in text.  A packet whose *)
(* tag has no count says nothing, so nothing is asked of it.               *)
LEMMA OneMore ==
  ASSUME Flag \in Nat \ {0, 1}, NEW kind, NEW bytes \in Seq(Nat), NEW T, NEW text \in Seq(T),
         NEW n \in Nat, Encodes(kind, bytes, text, n),
         NEW more \in Seq(Nat), NEW count \in Nat \ {0}, n + count <= Len(text),
         more # << >>,
         kind = "pairs" => Len(more) = 2 /\ more[1] > 0,
         After(kind, more, 0) <= Len(more),
         CountIn(kind, more[1]) > 0 =>
           /\ CountIn(kind, more[1]) = count /\ After(kind, more, 0) = Len(more)
           /\ \A k \in 1..count : text[n + k] = Says(kind, more, 0, k)
  PROVE  Encodes(kind, bytes \o more, text, n + count)
<1>1. PICK all, old, end :
        /\ all = bytes \o more /\ old = Len(bytes) /\ end = Len(bytes) + Len(more)
  OBVIOUS
<1>2. /\ all \in Seq(Nat) /\ Len(all) = end /\ old \in Nat /\ Len(more) \in Nat \ {0} /\ end > old
      /\ end \in Nat /\ end = old + Len(more)
      /\ \A i \in 1..old : all[i] = bytes[i]
      /\ \A i \in 1..Len(more) : all[old + i] = more[i]
      /\ Len(text) \in Nat
  BY <1>1
<1>3. PICK marks, place : /\ Reads(kind, bytes, text, marks, place) /\ Full(kind, bytes, marks)
                          /\ place[old] = n
  BY <1>1 DEF Encodes
<1>31. /\ marks \in SUBSET (0..old) /\ old \in marks /\ place \in [Nat -> Nat]
      /\ 0 \in marks /\ place[0] = 0
  BY <1>1, <1>3 DEF Reads, Full
<1>32. PICK marks2, place2 : marks2 = marks \cup {end} /\ place2 = [place EXCEPT ![end] = n + count]
  OBVIOUS
<1>33. \A d \in marks : d \in Nat /\ d <= old /\ d # end
  BY <1>2, <1>31
<1>4. /\ marks2 \in SUBSET (0..end) /\ end \in marks2 /\ marks2 \in SUBSET Nat
      /\ place2 \in [Nat -> Nat] /\ place2[end] = n + count
      /\ 0 \in marks2 /\ place2[0] = 0 /\ \A d \in marks : place2[d] = place[d]
  <2>1. marks2 \in SUBSET (0..end) /\ end \in marks2 /\ marks2 \in SUBSET Nat /\ 0 \in marks2
    <3>1. ASSUME NEW d \in marks2 PROVE d \in Nat /\ d <= end
      <4>1. d \in marks \/ d = end
        BY <1>32
      <4> QED BY <1>2, <1>33, <4>1
    <3>2. ASSUME NEW d \in marks2 PROVE d \in 0..end
      BY <1>2, <3>1
    <3>3. end \in marks2 /\ 0 \in marks2
      BY <1>31, <1>32
    <3> QED BY <3>1, <3>2, <3>3
  <2>2. place2 \in [Nat -> Nat] /\ place2[end] = n + count
    BY <1>2, <1>31, <1>32
  <2>3. \A d \in marks : place2[d] = place[d]
    BY <1>31, <1>32, <1>33
  <2> QED BY <1>31, <2>1, <2>2, <2>3
<1>5. kind = "pairs" => end % 2 = 0
  <2>1. ASSUME kind = "pairs" PROVE old % 2 = 0 /\ end = old + 2
    BY <1>2, <1>3, <1>31, <2>1 DEF Reads
  <2>2. ASSUME NEW m \in Nat, m % 2 = 0 PROVE (m + 2) % 2 = 0
    BY <2>2
  <2> QED BY <1>2, <2>1, <2>2
<1>6. ASSUME NEW d \in marks, d < old
      PROVE  /\ Agrees(kind, all, text, marks2, place2, d)
             /\ After(kind, all, d) <= end
  <2>1. /\ Agrees(kind, bytes, text, marks, place, d)
        /\ After(kind, bytes, d) <= old
    BY <1>1, <1>3, <1>6 DEF Reads, Full
  <2>2. d \in Nat /\ d + 1 \in 1..old
    BY <1>2, <1>33, <1>6
  <2>3. all[d + 1] = bytes[d + 1]
    BY <1>2, <2>2
  <2>4. After(kind, all, d) = After(kind, bytes, d)
    BY <2>3 DEF After
  <2>5. CASE CountIn(kind, bytes[d + 1]) > 0
    <3> DEFINE c == CountIn(kind, bytes[d + 1])
               next == After(kind, bytes, d)
    <3>0. c \in Nat
      <4>1. bytes[d + 1] \in Nat
        BY <1>1, <2>2
      <4> QED BY <4>1 DEF CountIn
    <3>1. /\ next \in marks /\ place[next] = place[d] + c /\ place[next] <= Len(text)
          /\ \A k \in 1..c : text[place[d] + k] = Says(kind, bytes, d, k)
      BY <1>1, <2>1, <2>5 DEF Agrees, SaysNext
    <3>2. next \in marks2 /\ place2[next] = place2[d] + c /\ place2[next] <= Len(text)
      BY <1>4, <1>6, <1>32, <3>1
    <3>3. ASSUME NEW k \in 1..c PROVE Says(kind, all, d, k) = Says(kind, bytes, d, k)
      <4>1. CASE Copied(kind, bytes[d + 1])
        <5>1. d + 2 \in 1..old
          BY <1>2, <2>1, <2>2, <4>1 DEF After
        <5> QED BY <1>2, <2>3, <4>1, <5>1 DEF Says
      <4>2. CASE ~Copied(kind, bytes[d + 1])
        <5>1. next = d + 1 + c
          BY <4>2 DEF After
        <5>2. d + 1 + c <= old /\ d + 1 + c \in Nat
          BY <1>33, <3>1, <5>1
        <5>4. d + 1 + k \in 1..old
          BY <1>2, <2>2, <5>2, <3>0
        <5> QED BY <1>2, <2>3, <4>2, <5>4 DEF Says
      <4> QED BY <4>1, <4>2
    <3> HIDE DEF c, next
    <3>4. \A k \in 1..c : text[place2[d] + k] = Says(kind, all, d, k)
      BY <1>4, <1>6, <3>1, <3>3
    <3>5. CountIn(kind, all[d + 1]) = c /\ c > 0
      BY <2>3, <2>5 DEF c
    <3>6. SaysNext(kind, all, text, marks2, place2, d)
      BY <2>4, <3>2, <3>4, <3>5 DEF SaysNext, next
    <3>7. CountIn(kind, all[d + 1]) > 0
      BY <3>5
    <3>8. After(kind, all, d) <= end
      BY <1>1, <1>2, <1>33, <2>4, <3>1 DEF next
    <3> QED BY <3>6, <3>7, <3>8 DEF Agrees
  <2>6. CASE ~(CountIn(kind, bytes[d + 1]) > 0)
    <3>1. ~(CountIn(kind, all[d + 1]) > 0)
      BY <2>3, <2>6
    <3>2. Agrees(kind, all, text, marks2, place2, d)
      BY <2>1, <2>6, <3>1 DEF Agrees
    <3>3. After(kind, all, d) \in Nat /\ After(kind, all, d) <= old
      <4>1. bytes[d + 1] \in Nat
        BY <1>1, <2>2
      <4>2. CountIn(kind, bytes[d + 1]) \in Nat
        BY <4>1 DEF CountIn
      <4> QED BY <2>1, <2>2, <2>4, <4>2 DEF After
    <3> QED BY <1>2, <3>2, <3>3
  <2> QED BY <2>5, <2>6
<1>7. /\ Agrees(kind, all, text, marks2, place2, old)
      /\ After(kind, all, old) <= end
  <2>1. all[old + 1] = more[1]
    BY <1>2
  <2>2. After(kind, all, old) = old + After(kind, more, 0)
    <3>1. 0 + 1 = 1 /\ more[0 + 1] = more[1] /\ more[1] \in Nat
      BY <1>2
    <3>2. CountIn(kind, more[1]) \in Nat
      BY <3>1 DEF CountIn
    <3> QED BY <1>2, <2>1, <3>1, <3>2 DEF After
  <2>3. kind = "pairs" => CountIn(kind, more[1]) > 0
    BY DEF CountIn
  <2>4. CASE CountIn(kind, more[1]) > 0
    <3>1. After(kind, all, old) = end
      BY <1>1, <1>2, <2>2, <2>4
    <3>2. ASSUME NEW k \in 1..count PROVE Says(kind, all, old, k) = Says(kind, more, 0, k)
      <4>1. CASE Copied(kind, more[1])
        <5>1. 2 \in 1..Len(more)
          BY <1>2, <4>1 DEF After
        <5> QED BY <1>2, <2>1, <4>1, <5>1 DEF Says
      <4>2. CASE ~Copied(kind, more[1])
        <5>1. 1 + count = Len(more)
          BY <2>4, <4>2 DEF After
        <5>2. 1 + k \in 1..Len(more) /\ old + (1 + k) = old + 1 + k
          BY <1>2, <5>1
        <5>3. all[old + 1 + k] = more[1 + k]
          BY <1>2, <5>2
        <5> QED BY <2>1, <4>2, <5>3 DEF Says
      <4> QED BY <4>1, <4>2
    <3>3. place2[old] = n
      BY <1>3, <1>31, <1>4
    <3>4. SaysNext(kind, all, text, marks2, place2, old)
      <4>1. CountIn(kind, all[old + 1]) = count /\ After(kind, all, old) = end
        BY <2>1, <2>4, <3>1
      <4>2. end \in marks2 /\ place2[end] = place2[old] + count /\ place2[end] <= Len(text)
        BY <1>4, <3>3
      <4>3. \A k \in 1..count : text[place2[old] + k] = Says(kind, all, old, k)
        BY <2>4, <3>2, <3>3
      <4> QED BY <4>1, <4>2, <4>3 DEF SaysNext
    <3>5. CountIn(kind, all[old + 1]) > 0
      BY <2>1, <2>4
    <3> QED BY <1>2, <3>1, <3>4, <3>5 DEF Agrees
  <2>5. CASE ~(CountIn(kind, more[1]) > 0)
    <3>1. ~(CountIn(kind, all[old + 1]) > 0) /\ kind # "pairs"
      BY <2>1, <2>3, <2>5
    <3>2. Agrees(kind, all, text, marks2, place2, old)
      BY <3>1 DEF Agrees
    <3>3. more[1] \in Nat /\ 0 + 1 = 1
      BY <1>2
    <3>4. After(kind, more, 0) \in Nat
      BY <3>3 DEF After, CountIn
    <3> QED BY <1>1, <1>2, <2>2, <3>2, <3>4
  <2> QED BY <2>4, <2>5
<1>8. Reads(kind, all, text, marks2, place2)
  <2>1. ASSUME NEW d \in marks2
        PROVE  /\ place2[d] <= Len(text)
               /\ kind = "pairs" => d % 2 = 0
               /\ d < Len(all) => Agrees(kind, all, text, marks2, place2, d)
    <3>1. CASE d = end
      BY <1>2, <1>4, <1>5, <3>1
    <3>2. CASE d \in marks /\ d # end
      <4>1. d <= old /\ d \in Nat
        BY <1>33, <3>2
      <4>2. Agrees(kind, all, text, marks2, place2, d)
        BY <1>2, <1>6, <1>7, <3>2, <4>1
      <4>3. place2[d] = place[d] /\ place[d] <= Len(text) /\ (kind = "pairs" => d % 2 = 0)
        BY <1>3, <1>4, <3>2 DEF Reads
      <4> QED BY <4>2, <4>3
    <3> QED BY <1>32, <3>1, <3>2
  <2> QED BY <1>4, <2>1 DEF Reads
<1>9. Full(kind, all, marks2)
  <2>1. ASSUME NEW d \in marks2, d < end PROVE After(kind, all, d) <= end
    <3>1. d \in marks /\ d <= old /\ d \in Nat
      BY <1>2, <1>32, <1>33, <2>1
    <3> QED BY <1>2, <1>6, <1>7, <3>1
  <2> QED BY <1>2, <1>4, <2>1 DEF Full
<1> QED BY <1>1, <1>2, <1>4, <1>8, <1>9 DEF Encodes

(* A stream that was cut short says part of what the whole one says.       *)
LEMMA CutStream ==
  ASSUME Flag \in Nat \ {0, 1}, NEW kind, NEW bytes \in Seq(Nat), NEW T, NEW text \in Seq(T),
         Encodes(kind, bytes, text, Len(text)), NEW n \in 0..Len(bytes)
  PROVE  Decodes(kind, SubSeq(bytes, 1, n), text, 0, << >>, n = Len(bytes))
<1>1. PICK marks, place : /\ Reads(kind, bytes, text, marks, place) /\ Full(kind, bytes, marks)
                          /\ place[Len(bytes)] = Len(text)
  BY DEF Encodes
<1>2. PICK cut : cut = SubSeq(bytes, 1, n)
  OBVIOUS
<1>3. /\ cut \in Seq(Nat) /\ Len(cut) = n /\ n \in Nat /\ Len(bytes) \in Nat /\ n <= Len(bytes)
      /\ \A i \in 1..n : cut[i] = bytes[i]
  BY <1>2
<1>4. ASSUME NEW d \in marks, d < n
      PROVE  Agrees(kind, cut, text, marks, place, d)
  <2>1. Agrees(kind, bytes, text, marks, place, d) /\ d \in Nat
    BY <1>1, <1>3, <1>4 DEF Reads
  <2>2. d + 1 \in 1..n /\ cut[d + 1] = bytes[d + 1] /\ bytes[d + 1] \in Nat
    BY <1>3, <1>4, <2>1
  <2>3. PICK c, next : c = CountIn(kind, bytes[d + 1]) /\ next = After(kind, bytes, d)
    OBVIOUS
  <2>4. c \in Nat /\ next \in Nat /\ next = After(kind, cut, d) /\ c = CountIn(kind, cut[d + 1])
    BY <2>1, <2>2, <2>3 DEF CountIn, After
  <2>5. ASSUME c > 0, next <= n PROVE SaysNext(kind, cut, text, marks, place, d)
    <3>1. SaysNext(kind, bytes, text, marks, place, d)
      BY <1>3, <2>1, <2>3, <2>4, <2>5 DEF Agrees
    <3>2. ASSUME NEW k \in 1..c PROVE Says(kind, cut, d, k) = Says(kind, bytes, d, k)
      <4>1. CASE Copied(kind, bytes[d + 1])
        <5>1. d + 2 \in 1..n
          BY <1>3, <2>1, <2>3, <2>5, <4>1 DEF After
        <5> QED BY <1>3, <2>2, <4>1, <5>1 DEF Says
      <4>2. CASE ~Copied(kind, bytes[d + 1])
        <5>1. next = d + 1 + c
          BY <2>3, <4>2 DEF After
        <5>2. d + 1 + k \in 1..n
          <6>1. d + 1 + c <= n
            BY <2>5, <5>1
          <6>2. d \in Nat /\ c \in Nat /\ n \in Nat
            BY <1>3, <2>1, <2>4
          <6> QED BY <6>1, <6>2
        <5> QED BY <1>3, <2>2, <4>2, <5>2 DEF Says
      <4> QED BY <4>1, <4>2
    <3> QED BY <2>3, <2>4, <3>1, <3>2 DEF SaysNext
  <2> QED BY <1>3, <2>1, <2>2, <2>3, <2>4, <2>5 DEF Agrees
<1>5. Reads(kind, cut, text, marks, place)
  BY <1>1, <1>3, <1>4 DEF Reads
<1>6. 0 \in marks /\ << >> = SubSeq(text, 1, place[0])
  BY <1>1 DEF Reads
<1>7. n = Len(bytes) => Len(cut) \in marks /\ place[Len(cut)] = Len(text)
  BY <1>1, <1>3 DEF Full
<1>8. Decodes(kind, cut, text, 0, << >>, n = Len(bytes))
  BY <1>5, <1>6, <1>7 DEF Decodes
<1> QED BY <1>2, <1>8

(* A decoder that writes what is said next still has the right part.       *)
LEMMA DecodedNext ==
  ASSUME Flag \in Nat \ {0, 1}, NEW kind, NEW bytes \in Seq(Nat), NEW text \in Seq(Nat),
         NEW i \in 0..Len(bytes) - 1, NEW part, NEW whole \in BOOLEAN,
         Decodes(kind, bytes, text, i, part, whole),
         NEW count \in Nat \ {0}, count = CountIn(kind, bytes[i + 1]),
         NEW next, next = After(kind, bytes, i), next <= Len(bytes),
         NEW more, more = [k \in 1..count |-> Says(kind, bytes, i, k)]
  PROVE  Decodes(kind, bytes, text, next, part \o more, whole)
<1>1. PICK marks, place :
        /\ Reads(kind, bytes, text, marks, place)
        /\ i \in marks /\ part = SubSeq(text, 1, place[i])
        /\ whole => Len(bytes) \in marks /\ place[Len(bytes)] = Len(text)
  BY DEF Decodes
<1>2. SaysNext(kind, bytes, text, marks, place, i)
  <2>1. Agrees(kind, bytes, text, marks, place, i)
    BY <1>1 DEF Reads
  <2> QED BY <2>1 DEF Agrees
<1>3. PICK from, to : from = place[i] /\ to = place[next]
  OBVIOUS
<1>4. /\ from \in Nat /\ to = from + count /\ to \in Nat /\ to <= Len(text) /\ next \in marks
      /\ \A k \in 1..count : more[k] = text[from + k]
  BY <1>1, <1>2, <1>3 DEF SaysNext, Reads
<1>5. part = SubSeq(text, 1, from)
  BY <1>1, <1>3
<1>6. part \o more = SubSeq(text, 1, to)
  <2>1. \A k \in 1..count : from + k \in 1..Len(text)
    BY <1>4
  <2>2. more \in Seq(Nat) /\ Len(more) = count
    <3>1. \A k \in 1..count : more[k] \in Nat
      <4>1. \A k \in 1..Len(text) : text[k] \in Nat
        OBVIOUS
      <4> QED BY <1>4, <2>1, <4>1
    <3>2. more \in [1..count -> Nat]
      BY <3>1
    <3> QED BY <3>2, FunctionIsSeq
  <2>3. /\ part \in Seq(Nat) /\ Len(part) = from /\ \A k \in 1..from : part[k] = text[k]
    BY <1>4, <1>5
  <2>4. /\ SubSeq(text, 1, to) \in Seq(Nat) /\ Len(SubSeq(text, 1, to)) = to
        /\ \A k \in 1..to : SubSeq(text, 1, to)[k] = text[k]
    BY <1>4
  <2>5. PICK s : s = part \o more
    OBVIOUS
  <2>6. /\ s \in Seq(Nat) /\ Len(s) = to
        /\ \A k \in 1..to : s[k] = IF k <= from THEN part[k] ELSE more[k - from]
    BY <1>4, <2>2, <2>3, <2>5
  <2>7. ASSUME NEW k \in 1..to PROVE s[k] = text[k]
    <3>1. CASE k <= from
      <4>1. k \in 1..from
        BY <1>4, <3>1
      <4> QED BY <2>3, <2>6, <3>1, <4>1
    <3>2. CASE ~(k <= from)
      <4>1. k - from \in 1..count /\ from + (k - from) = k
        BY <1>4, <3>2
      <4>2. more[k - from] = text[from + (k - from)]
        BY <1>4, <4>1
      <4> QED BY <2>6, <3>2, <4>1, <4>2
    <3> QED BY <3>1, <3>2
  <2>8. PICK u : u = SubSeq(text, 1, to)
    OBVIOUS
  <2>9. s = u
    BY <2>4, <2>6, <2>7, <2>8, SeqEqual
  <2> QED BY <2>5, <2>8, <2>9
<1>7. part \o more = SubSeq(text, 1, place[next])
  BY <1>3, <1>6
<1> QED BY <1>1, <1>4, <1>7 DEF Decodes

RightSoFar(bytes, text, i, part, whole) ==
  /\ IsPrefix(part, text)
  /\ whole /\ i = Len(bytes) => part = text
  /\ Len(part) = Len(text) => part = text

(* It never has a wrong one, and all of it at the end of a whole stream.   *)
LEMMA RightPart ==
  ASSUME NEW kind, NEW bytes, NEW text \in Seq(Nat), NEW i \in Nat, NEW part,
         NEW whole \in BOOLEAN, Decodes(kind, bytes, text, i, part, whole)
  PROVE  RightSoFar(bytes, text, i, part, whole)
<1>1. PICK marks, place :
        /\ Reads(kind, bytes, text, marks, place)
        /\ i \in marks /\ part = SubSeq(text, 1, place[i])
        /\ whole => Len(bytes) \in marks /\ place[Len(bytes)] = Len(text)
  BY DEF Decodes
<1>2. PICK n : n = place[i]
  OBVIOUS
<1>3. n \in Nat /\ n <= Len(text) /\ part = SubSeq(text, 1, n)
  BY <1>1, <1>2 DEF Reads
<1>4. /\ part \in Seq(Nat) /\ Len(part) = n /\ \A k \in 1..n : part[k] = text[k]
  BY <1>3
<1>5. SubSeq(part, 1, Len(part)) = part
  BY <1>4
<1>6. n = Len(text) => part = text
  BY <1>3
<1> QED BY <1>1, <1>2, <1>3, <1>4, <1>5, <1>6 DEF IsPrefix, RightSoFar

(* Pairs of a stream are two bytes each, and none counts nothing.          *)
LEMMA PairsAreEven ==
  ASSUME NEW bytes, NEW text, NEW i \in Nat, NEW part, NEW whole \in BOOLEAN,
         Decodes("pairs", bytes, text, i, part, whole)
  PROVE  /\ i % 2 = 0
         /\ i < Len(bytes) => bytes[i + 1] > 0
         /\ whole => Len(bytes) % 2 = 0
BY DEF Decodes, Reads, Agrees, CountIn

(***************************************************************************)
(* The invariant: what has been encoded says what has been read of the     *)
(* input, and what has been decoded is right.                              *)
(***************************************************************************)

CodecVarsTyped ==
  /\ codec \in {"pairs", "packets"} /\ stream \in {"whole", "cut", "foreign"}
  /\ phase \in {"idle", "encode", "decode", "done", "failed"}
  /\ input \in Seq(Byte) /\ encoded \in Seq(Byte) /\ decoded \in Seq(Byte)
  /\ at \in Nat /\ expected \in Nat

CodecInv ==
  /\ CodecVarsTyped
  /\ codec = "pairs" => stream # "foreign"
  /\ phase \in {"idle", "encode"} => decoded = << >> /\ at <= Len(input)
  /\ phase = "encode" => Encodes(codec, encoded, input, at)
  /\ phase \in {"decode", "done", "failed"} =>
       /\ at <= Len(encoded)
       /\ stream # "foreign" =>
            /\ expected = Len(input)
            /\ Decodes(codec, encoded, input, at, decoded, stream = "whole")
  /\ phase = "done" => at = Len(encoded) /\ (codec = "packets" => Len(decoded) = expected)
  /\ phase = "failed" /\ codec = "pairs" => stream # "whole"

LEMMA Bytes ==
  /\ Flag \in Nat \ {0, 1} /\ Byte \subseteq Nat /\ 0 \in Byte
  /\ Symbols \subseteq Byte /\ MaxRun \in Nat \ {0} /\ MaxCount \in Nat \ {0}
  /\ MaxRun = 2 * Flag - 1 /\ MaxCount = Flag - 1
BY CodecAssumption DEF Byte, MaxRun, MaxCount

LEMMA BytesAreNumbers == ASSUME NEW s \in Seq(Byte) PROVE s \in Seq(Nat)
BY Bytes, SeqMonotonic

(* A round of an encoder.                                                  *)
LEMMA EncodedMore ==
  ASSUME CodecInv, phase = "encode", NEW more \in Seq(Byte), NEW count \in Nat \ {0},
         Encodes(codec, encoded \o more, input, at + count), at + count <= Len(input),
         encoded' = encoded \o more, at' = at + count,
         UNCHANGED <<codec, phase, input, decoded, expected, stream>>
  PROVE  CodecInv'
<1>1. encoded' \in Seq(Byte) /\ at' \in Nat
  BY DEF CodecInv, CodecVarsTyped
<1> QED BY <1>1 DEF CodecInv, CodecVarsTyped

LEMMA EncodePairStep == CodecInv /\ EncodePair => CodecInv'
<1> SUFFICES ASSUME CodecInv, EncodePair PROVE CodecInv'
  OBVIOUS
<1>1. PICK n, v, more : n = RunAt(at, MaxRun) /\ v = input[at + 1] /\ more = <<n, v>>
  OBVIOUS
<1>2. /\ codec = "pairs" /\ phase = "encode" /\ at \in 0..Len(input) - 1 /\ input \in Seq(Byte)
      /\ encoded \in Seq(Byte) /\ Encodes("pairs", encoded, input, at)
  BY DEF EncodePair, CodecInv, CodecVarsTyped
<1>3. /\ n \in Nat \ {0} /\ n <= MaxRun /\ at + n <= Len(input) /\ v \in Byte
      /\ \A k \in 1..n : input[at + k] = v
  <2>1. /\ n \in 1..Len(input) - at /\ n <= MaxRun
        /\ \A k \in 1..n : input[at + k] = input[at + 1]
    BY <1>1, <1>2, Bytes, RunIsRun
  <2>2. at \in Nat /\ Len(input) \in Nat /\ at + 1 \in 1..Len(input)
    BY <1>2
  <2> QED BY <1>1, <1>2, <2>1, <2>2
<1>4. n \in Byte /\ more \in Seq(Byte) /\ Len(more) = 2 /\ more[1] = n /\ more[2] = v /\ more # << >>
  BY <1>1, <1>3, Bytes DEF Byte
<1>5. CountIn("pairs", more[1]) = n /\ After("pairs", more, 0) = Len(more)
  BY <1>4 DEF CountIn, After, Copied
<1>6. \A k \in 1..n : input[at + k] = Says("pairs", more, 0, k)
  BY <1>3, <1>4 DEF Says, Copied
<1>7. /\ encoded \in Seq(Nat) /\ more \in Seq(Nat) /\ at \in Nat /\ more[1] > 0
      /\ After("pairs", more, 0) <= Len(more)
  BY <1>2, <1>3, <1>4, <1>5, BytesAreNumbers
<1>8. Encodes("pairs", encoded \o more, input, at + n)
  BY <1>2, <1>3, <1>4, <1>5, <1>6, <1>7, Bytes, OneMore
<1> QED BY <1>1, <1>2, <1>3, <1>4, <1>8, EncodedMore DEF EncodePair

LEMMA EncodeRunPacketStep == CodecInv /\ EncodeRunPacket => CodecInv'
<1> SUFFICES ASSUME CodecInv, EncodeRunPacket PROVE CodecInv'
  OBVIOUS
<1>1. PICK n, v, more : n = RunAt(at, MaxCount) /\ v = input[at + 1] /\ more = <<Flag + n, v>>
  OBVIOUS
<1>2. /\ codec = "packets" /\ phase = "encode" /\ at \in 0..Len(input) - 1 /\ input \in Seq(Byte)
      /\ encoded \in Seq(Byte) /\ Encodes("packets", encoded, input, at)
  BY DEF EncodeRunPacket, CodecInv, CodecVarsTyped
<1>3. /\ n \in Nat \ {0} /\ n <= MaxCount /\ at + n <= Len(input) /\ v \in Byte
      /\ \A k \in 1..n : input[at + k] = v
  <2>1. /\ n \in 1..Len(input) - at /\ n <= MaxCount
        /\ \A k \in 1..n : input[at + k] = input[at + 1]
    BY <1>1, <1>2, Bytes, RunIsRun
  <2>2. at \in Nat /\ Len(input) \in Nat /\ at + 1 \in 1..Len(input)
    BY <1>2
  <2> QED BY <1>1, <1>2, <2>1, <2>2
<1>4. /\ Flag + n \in Byte /\ more \in Seq(Byte) /\ Len(more) = 2
      /\ more[1] = Flag + n /\ more[2] = v /\ more # << >>
  BY <1>1, <1>3, Bytes DEF Byte
<1>5. CountIn("packets", more[1]) = n /\ After("packets", more, 0) = Len(more) /\ Copied("packets", more[1])
  <2>1. (Flag + n) % Flag = n
    BY <1>3, Bytes
  <2>2. Flag + n >= Flag
    BY <1>3, Bytes
  <2> QED BY <1>4, <2>1, <2>2 DEF CountIn, After, Copied
<1>6. \A k \in 1..n : input[at + k] = Says("packets", more, 0, k)
  BY <1>3, <1>4, <1>5 DEF Says
<1>7. /\ encoded \in Seq(Nat) /\ more \in Seq(Nat) /\ at \in Nat
      /\ After("packets", more, 0) <= Len(more)
  BY <1>2, <1>3, <1>4, <1>5, BytesAreNumbers
<1>8. Encodes("packets", encoded \o more, input, at + n)
  BY <1>2, <1>3, <1>4, <1>5, <1>6, <1>7, Bytes, OneMore
<1> QED BY <1>1, <1>2, <1>3, <1>4, <1>8, EncodedMore DEF EncodeRunPacket

(* A literal that is one byte too long has a tag without a count.          *)
LEMMA EncodeLiteralPacketStep == CodecInv /\ EncodeLiteralPacket => CodecInv'
<1> SUFFICES ASSUME CodecInv, EncodeLiteralPacket PROVE CodecInv'
  OBVIOUS
<1>1. PICK n, tag, more : /\ n = LiteralEnd - at /\ tag = n % (2 * Flag)
                          /\ more = <<tag>> \o Slice(input, at, n)
  OBVIOUS
<1>2. /\ codec = "packets" /\ phase = "encode" /\ at \in 0..Len(input) - 1 /\ input \in Seq(Byte)
      /\ encoded \in Seq(Byte) /\ Encodes("packets", encoded, input, at)
      /\ RunAt(at, MaxCount) < 3
  BY DEF EncodeLiteralPacket, CodecInv, CodecVarsTyped
<1>3. n \in Nat \ {0} /\ n <= Flag /\ at + n <= Len(input)
  BY <1>1, <1>2, Bytes, LiteralEnds
<1>4. tag = n /\ tag \in Byte
  <2>1. PICK m : m = 2 * Flag
    OBVIOUS
  <2>2. m \in Nat \ {0} /\ n \in 0..m - 1 /\ tag = n % m
    BY <1>1, <1>3, <2>1, Bytes
  <2>3. n % m = n
    BY <2>2
  <2> QED BY <2>1, <2>2, <2>3 DEF Byte
<1>5. /\ more \in Seq(Byte) /\ Len(more) = 1 + n /\ more[1] = n /\ more # << >>
      /\ \A k \in 1..n : more[1 + k] = input[at + k]
  <2>1. PICK part : part = Slice(input, at, n)
    OBVIOUS
  <2>2. /\ part \in Seq(Byte) /\ Len(part) = n /\ \A k \in 1..n : part[k] = input[at + k]
    BY <1>2, <1>3, <2>1 DEF Slice
  <2>3. PICK first : first = <<tag>>
    OBVIOUS
  <2>4. first \in Seq(Byte) /\ Len(first) = 1 /\ first[1] = n
    BY <1>4, <2>3
  <2>5. more = first \o part
    BY <1>1, <2>1, <2>3
  <2>6. /\ more \in Seq(Byte) /\ Len(more) = 1 + n
        /\ \A i \in 1..1 + n : more[i] = IF i <= 1 THEN first[i] ELSE part[i - 1]
    <3>1. n \in Nat
      BY <1>3
    <3> QED BY <2>2, <2>4, <2>5, <3>1, ConcatProperties
  <2>7. more[1] = n /\ more # << >>
    BY <1>3, <2>4, <2>6
  <2>8. ASSUME NEW k \in 1..n PROVE more[1 + k] = input[at + k]
    <3>1. 1 + k \in 1..1 + n /\ ~(1 + k <= 1) /\ (1 + k) - 1 = k
      BY <1>3
    <3> QED BY <2>2, <2>6, <3>1
  <2> QED BY <2>6, <2>7, <2>8
<1>51. /\ encoded' = encoded \o more /\ at' = at + n
       /\ UNCHANGED <<codec, phase, input, decoded, expected, stream>>
  <2>1. PICK first, part : first = <<tag>> /\ part = Slice(input, at, n)
    OBVIOUS
  <2>2. first \in Seq(Byte) /\ part \in Seq(Byte)
    BY <1>2, <1>3, <1>4, <2>1 DEF Slice
  <2>3. (encoded \o first) \o part = encoded \o (first \o part)
    BY <1>2, <2>2, ConcatAssociative
  <2> QED BY <1>1, <2>1, <2>3 DEF EncodeLiteralPacket
<1>6. CASE n < Flag
  <2>1. n % Flag = n /\ ~(n >= Flag)
    BY <1>3, <1>6, Bytes
  <2>2. /\ CountIn("packets", more[1]) = n /\ After("packets", more, 0) = Len(more)
        /\ ~Copied("packets", more[1])
    BY <1>3, <1>5, <2>1 DEF CountIn, After, Copied
  <2>3. \A k \in 1..n : input[at + k] = Says("packets", more, 0, k)
    BY <1>5, <2>2 DEF Says
  <2>4. /\ encoded \in Seq(Nat) /\ more \in Seq(Nat) /\ at \in Nat
        /\ After("packets", more, 0) <= Len(more)
    BY <1>2, <1>3, <1>5, <2>2, BytesAreNumbers
  <2>5. Encodes("packets", encoded \o more, input, at + n)
    BY <1>2, <1>3, <1>5, <2>2, <2>3, <2>4, Bytes, OneMore
  <2> QED BY <1>2, <1>3, <1>5, <1>51, <2>5, EncodedMore
<1>7. CASE n = Flag
  <2>1. n % Flag = 0 /\ n >= Flag
    BY <1>3, <1>7, Bytes
  <2>2. /\ CountIn("packets", more[1]) = 0 /\ After("packets", more, 0) = 2
    BY <1>5, <2>1 DEF CountIn, After, Copied
  <2>3. /\ encoded \in Seq(Nat) /\ more \in Seq(Nat) /\ at \in Nat
        /\ After("packets", more, 0) <= Len(more)
    BY <1>2, <1>3, <1>5, <2>2, BytesAreNumbers
  <2>4. Encodes("packets", encoded \o more, input, at + n)
    <3>1. ~(CountIn("packets", more[1]) > 0) /\ "packets" # "pairs"
      BY <2>2
    <3> QED BY <1>2, <1>3, <1>5, <2>3, <3>1, Bytes, OneMore
  <2> QED BY <1>2, <1>3, <1>5, <1>51, <2>4, EncodedMore
<1> QED BY <1>3, <1>6, <1>7, Bytes

(* The decoder gets what it may, or less.                                  *)
LEMMA DeliverStep == CodecInv /\ (\E n \in 0..Len(encoded) : Deliver(n)) => CodecInv'
<1> SUFFICES ASSUME CodecInv, NEW n \in 0..Len(encoded), Deliver(n) PROVE CodecInv'
  OBVIOUS
<1>1. /\ CodecVarsTyped /\ phase = "encode" /\ at = Len(input) /\ decoded = << >>
      /\ Encodes(codec, encoded, input, Len(input))
  BY DEF Deliver, CodecInv
<1>2. PICK cut, whole : cut = SubSeq(encoded, 1, n) /\ whole = (n = Len(encoded))
  OBVIOUS
<1>3. cut \in Seq(Byte) /\ Len(cut) = n /\ n \in Nat /\ whole \in BOOLEAN
  BY <1>1, <1>2 DEF CodecVarsTyped
<1>4. Decodes(codec, cut, input, 0, << >>, whole)
  <2>1. encoded \in Seq(Nat)
    BY <1>1, BytesAreNumbers DEF CodecVarsTyped
  <2> QED BY <1>1, <1>2, <2>1, Bytes, CutStream DEF CodecVarsTyped
<1>5. /\ phase' = "decode" /\ at' = 0 /\ encoded' = cut /\ expected' = Len(input)
      /\ stream' = (IF whole THEN "whole" ELSE "cut")
      /\ codec' = codec /\ input' = input /\ decoded' = << >>
  BY <1>1, <1>2 DEF Deliver
<1>6. (stream' = "whole") = whole /\ stream' \in {"whole", "cut"}
  BY <1>3, <1>5
<1>7. CodecVarsTyped'
  BY <1>1, <1>3, <1>5, <1>6 DEF CodecVarsTyped
<1>8. Decodes(codec', encoded', input', at', decoded', stream' = "whole")
  BY <1>4, <1>5, <1>6
<1> QED BY <1>3, <1>5, <1>6, <1>7, <1>8 DEF CodecInv

(* Whatever is not changed by it, decoding ends as it should.              *)
LEMMA EndingStep ==
  ASSUME CodecInv, phase = "decode", phase' \in {"done", "failed"},
         phase' = "done" => at = Len(encoded) /\ (codec = "packets" => Len(decoded) = expected),
         phase' = "failed" /\ codec = "pairs" => stream # "whole",
         UNCHANGED <<codec, input, at, encoded, decoded, expected, stream>>
  PROVE  CodecInv'
<1>1. CodecVarsTyped'
  BY DEF CodecInv, CodecVarsTyped
<1>2. Decodes(codec, encoded, input, at, decoded, stream = "whole")' <=>
        Decodes(codec, encoded, input, at, decoded, stream = "whole")
  BY DEF Decodes, Reads, Agrees, SaysNext, After, CountIn, Copied, Says
<1> QED BY <1>1, <1>2 DEF CodecInv

(* A whole stream of pairs is even.                                        *)
LEMMA RefuseOddStreamStep == CodecInv /\ RefuseOddStream => CodecInv'
<1> SUFFICES ASSUME CodecInv, RefuseOddStream PROVE CodecInv'
  OBVIOUS
<1>1. /\ phase = "decode" /\ codec = "pairs" /\ Len(encoded) % 2 = 1 /\ at \in Nat
      /\ phase' = "failed" /\ UNCHANGED <<codec, input, at, encoded, decoded, expected, stream>>
  BY DEF RefuseOddStream, Decoding, FailOn, CodecInv, CodecVarsTyped
<1>2. Decodes("pairs", encoded, input, at, decoded, stream = "whole")
  BY <1>1 DEF CodecInv
<1>3. stream # "whole"
  <2>1. PICK whole \in BOOLEAN : whole = (stream = "whole")
    OBVIOUS
  <2>2. whole => Len(encoded) % 2 = 0
    BY <1>1, <1>2, <2>1, PairsAreEven
  <2>3. ~whole
    BY <1>1, <2>2
  <2> QED BY <2>1, <2>3
<1> QED BY <1>1, <1>3, EndingStep

(* A decoder that went on to the next pair or packet.                      *)
LEMMA DecodedMore ==
  ASSUME CodecInv, phase = "decode", at < Len(encoded),
         NEW count \in Nat \ {0}, count = CountIn(codec, encoded[at + 1]),
         NEW next \in Nat, next = After(codec, encoded, at), next <= Len(encoded),
         decoded' = decoded \o [k \in 1..count |-> Says(codec, encoded, at, k)], at' = next,
         UNCHANGED <<codec, phase, input, encoded, expected, stream>>
  PROVE  CodecInv'
<1>1. PICK more : more = [k \in 1..count |-> Says(codec, encoded, at, k)]
  OBVIOUS
<1>2. CodecVarsTyped /\ at \in 0..Len(encoded) - 1
  BY DEF CodecInv, CodecVarsTyped
<1>3. \A k \in 1..count : Says(codec, encoded, at, k) \in Byte
  <2>1. ASSUME NEW k \in 1..count PROVE Says(codec, encoded, at, k) \in Byte
    <3>1. \A i \in 1..Len(encoded) : encoded[i] \in Byte
      BY <1>2 DEF CodecVarsTyped
    <3>2. CASE Copied(codec, encoded[at + 1])
      <4>1. at + 2 \in 1..Len(encoded)
        BY <1>2, <3>2 DEF After
      <4> QED BY <3>1, <3>2, <4>1 DEF Says
    <3>3. CASE ~Copied(codec, encoded[at + 1])
      <4>1. next = at + 1 + count
        BY <3>3 DEF After
      <4>2. at + 1 + k \in 1..Len(encoded)
        BY <1>2, <4>1
      <4> QED BY <3>1, <3>3, <4>2 DEF Says
    <3> QED BY <3>2, <3>3
  <2> QED BY <2>1
<1>4. more \in Seq(Byte)
  <2>1. more \in [1..count -> Byte]
    BY <1>1, <1>3
  <2> QED BY <2>1, FunctionIsSeq
<1>5. decoded' \in Seq(Byte) /\ at' \in Nat /\ at' <= Len(encoded)
  BY <1>1, <1>2, <1>4 DEF CodecVarsTyped
<1>6. CodecVarsTyped'
  BY <1>2, <1>5 DEF CodecVarsTyped
<1>7. ASSUME stream # "foreign"
      PROVE  Decodes(codec, encoded, input, at', decoded', stream = "whole")
  <2>1. Decodes(codec, encoded, input, at, decoded, stream = "whole")
    BY <1>7 DEF CodecInv
  <2>2. encoded \in Seq(Nat) /\ input \in Seq(Nat)
    BY <1>2, BytesAreNumbers DEF CodecVarsTyped
  <2>3. (stream = "whole") \in BOOLEAN
    OBVIOUS
  <2> QED BY <1>1, <1>2, <2>1, <2>2, <2>3, Bytes, DecodedNext
<1>8. (Decodes(codec, encoded, input, at, decoded, stream = "whole"))' <=>
        Decodes(codec, encoded, input, at', decoded', stream = "whole")
  BY DEF Decodes, Reads, Agrees, SaysNext, After, CountIn, Copied, Says
<1> QED BY <1>5, <1>6, <1>7, <1>8 DEF CodecInv

LEMMA DecodePairStep == CodecInv /\ DecodePair => CodecInv'
<1> SUFFICES ASSUME CodecInv, DecodePair PROVE CodecInv'
  OBVIOUS
<1>1. /\ phase = "decode" /\ codec = "pairs" /\ Len(encoded) % 2 = 0 /\ at < Len(encoded)
      /\ encoded \in Seq(Byte) /\ at \in Nat /\ stream # "foreign"
      /\ UNCHANGED <<codec, phase, input, encoded, expected, stream>>
      /\ at' = at + 2 /\ decoded' = decoded \o Copies(encoded[at + 2], encoded[at + 1])
  BY DEF DecodePair, Decoding, CodecInv, CodecVarsTyped
<1>2. PICK count, next : count = encoded[at + 1] /\ next = at + 2
  OBVIOUS
<1>3. Decodes("pairs", encoded, input, at, decoded, stream = "whole")
  BY <1>1 DEF CodecInv
<1>4. at % 2 = 0 /\ count > 0
  BY <1>1, <1>2, <1>3, PairsAreEven
<1>5. next \in Nat /\ next <= Len(encoded)
  BY <1>1, <1>2, <1>4
<1>6. count \in Nat \ {0}
  <2>1. encoded[at + 1] \in Byte
    BY <1>1
  <2>2. encoded[at + 1] \in Nat
    BY <2>1, Bytes
  <2> QED BY <1>2, <1>4, <2>2
<1>7. /\ count = CountIn(codec, encoded[at + 1]) /\ next = After(codec, encoded, at)
      /\ Copies(encoded[at + 2], count) = [k \in 1..count |-> Says(codec, encoded, at, k)]
  BY <1>1, <1>2 DEF CountIn, After, Copied, Says, Copies
<1>8. decoded' = decoded \o [k \in 1..count |-> Says(codec, encoded, at, k)]
  BY <1>1, <1>2, <1>7
<1> QED BY <1>1, <1>2, <1>5, <1>6, <1>7, <1>8, DecodedMore

LEMMA DecodePacketStep == CodecInv /\ DecodeNextPacket => CodecInv'
<1> SUFFICES ASSUME CodecInv, DecodeNextPacket PROVE CodecInv'
  OBVIOUS
<1>1. /\ phase = "decode" /\ codec = "packets" /\ at < Len(encoded)
      /\ encoded \in Seq(Byte) /\ at \in Nat
  BY DEF DecodeNextPacket, Decoding, CodecInv, CodecVarsTyped
<1>2. PICK tag, count, next :
        /\ tag = encoded[at + 1] /\ count = tag % Flag
        /\ next = IF tag >= Flag THEN at + 2 ELSE at + 1 + count
  OBVIOUS
<1>3. tag \in Nat /\ count \in Nat /\ next \in Nat
  <2>1. encoded[at + 1] \in Byte
    BY <1>1
  <2>2. tag \in Nat
    BY <1>2, <2>1, Bytes
  <2>3. count \in Nat
    BY <1>2, <2>2, Bytes
  <2> QED BY <1>1, <1>2, <2>2, <2>3
<1>4. count = CountIn(codec, encoded[at + 1]) /\ next = After(codec, encoded, at)
  BY <1>1, <1>2 DEF CountIn, After, Copied
<1>5. CASE phase' = "failed" /\ UNCHANGED <<codec, input, at, encoded, decoded, expected, stream>>
  BY <1>1, <1>5, EndingStep
<1>6. CASE /\ count > 0 /\ next <= Len(encoded) /\ Len(decoded) + count <= expected
           /\ decoded' = decoded \o (IF tag >= Flag THEN Copies(encoded[at + 2], count)
                                                    ELSE Slice(encoded, at + 1, count))
           /\ at' = next
           /\ UNCHANGED <<codec, phase, input, encoded, expected, stream>>
  <2>0. decoded' = decoded \o [k \in 1..count |-> Says(codec, encoded, at, k)] => CodecInv'
    <3>1. count \in Nat \ {0}
      BY <1>3, <1>6
    <3> QED BY <1>1, <1>3, <1>4, <1>6, <3>1, DecodedMore
  <2>1. PICK more : more = [k \in 1..count |-> Says(codec, encoded, at, k)]
    OBVIOUS
  <2>2. CASE tag >= Flag
    <3>1. more = Copies(encoded[at + 2], count)
      BY <1>2, <2>1, <2>2 DEF Says, Copied, Copies
    <3>2. decoded' = decoded \o more
      BY <1>6, <2>2, <3>1
    <3> QED BY <2>0, <2>1, <3>2
  <2>3. CASE ~(tag >= Flag)
    <3>1. PICK part : part = Slice(encoded, at + 1, count)
      OBVIOUS
    <3>2. at + 1 + count <= Len(encoded)
      BY <1>2, <1>6, <2>3
    <3>3. /\ part \in Seq(Byte) /\ Len(part) = count
          /\ \A k \in 1..count : part[k] = encoded[at + 1 + k]
      <4>1. PICK m : m = at + 1
        OBVIOUS
      <4>2. m \in Nat /\ m + count <= Len(encoded) /\ part = SubSeq(encoded, m + 1, m + count)
        BY <1>1, <3>1, <3>2, <4>1 DEF Slice
      <4>3. part \in Seq(Byte) /\ Len(part) = count /\ \A k \in 1..count : part[k] = encoded[m + k]
        BY <1>1, <1>3, <4>2, PartOfSeq DEF IsPart
      <4> QED BY <4>1, <4>3
    <3>4. part = [k \in 1..count |-> encoded[at + 1 + k]]
      <4>1. part = [k \in 1..count |-> part[k]]
        BY <3>3
      <4> QED BY <3>3, <4>1
    <3>5. more = part
      BY <1>1, <1>2, <2>1, <2>3, <3>4 DEF Says, Copied
    <3>6. decoded' = decoded \o more
      BY <1>6, <2>3, <3>1, <3>5
    <3> QED BY <2>0, <2>1, <3>6
  <2> QED BY <2>2, <2>3
<1> QED BY <1>2, <1>5, <1>6 DEF DecodeNextPacket, DecodePacket, FailOn

LEMMA LastDecodingStep == CodecInv /\ (FinishDecoding \/ RefuseSize) => CodecInv'
<1>1. ASSUME CodecInv, FinishDecoding PROVE CodecInv'
  BY <1>1, EndingStep DEF FinishDecoding
<1>2. ASSUME CodecInv, RefuseSize PROVE CodecInv'
  BY <1>2, EndingStep DEF RefuseSize, Decoding, FailOn
<1> QED BY <1>1, <1>2

LEMMA CodecInvStep == CodecInv /\ [NextOfCodec]_codecVars => CodecInv'
<1>1. ASSUME CodecInv, UNCHANGED codecVars PROVE CodecInv'
  BY <1>1 DEF codecVars, CodecInv, CodecVarsTyped
<1> QED BY <1>1, EncodePairStep, EncodeRunPacketStep, EncodeLiteralPacketStep, DeliverStep,
           RefuseOddStreamStep, DecodePairStep, DecodePacketStep, LastDecodingStep DEF NextOfCodec

LEMMA InputsAreBytes ==
  ASSUME NEW s \in BoundedSeq(Symbols, MaxLength)
  PROVE  s \in Seq(Byte)
<1>1. PICK n \in 0..MaxLength : s \in [1..n -> Symbols]
  BY DEF BoundedSeq, SeqOf
<1>2. s \in [1..n -> Byte] /\ n \in Nat
  <2>1. n \in Nat
    BY <1>1, CodecAssumption
  <2> QED BY <1>1, <2>1, Bytes
<1> QED BY <1>2, FunctionIsSeq

LEMMA InitCodecInv == InitCodec => CodecInv
<1> SUFFICES ASSUME InitCodec PROVE CodecInv
  OBVIOUS
<1>1. input \in Seq(Byte)
  BY InputsAreBytes DEF InitCodec
<1>2. << >> \in Seq(Byte)
  OBVIOUS
<1>3. Encodes(codec, encoded, input, at)
  BY <1>1, NothingEncodes DEF InitCodec
<1> QED BY <1>1, <1>2, <1>3 DEF InitCodec, CodecInv, CodecVarsTyped

LEMMA CodecInvImplies == CodecInv => CodecTypeOK /\ NeverWrongBytes
<1> SUFFICES ASSUME CodecInv PROVE CodecTypeOK /\ NeverWrongBytes
  OBVIOUS
<1>1. CodecTypeOK
  BY DEF CodecTypeOK, CodecInv, CodecVarsTyped
<1>2. CASE phase \in {"idle", "encode"}
  <2>1. decoded = << >> /\ input \in Seq(Byte)
    BY <1>2 DEF CodecInv, CodecVarsTyped
  <2>2. IsPrefix(decoded, input)
    BY <2>1 DEF IsPrefix
  <2> QED BY <1>1, <1>2, <2>2 DEF NeverWrongBytes
<1>3. CASE phase \in {"decode", "done", "failed"} /\ stream # "foreign"
  <2>1. Decodes(codec, encoded, input, at, decoded, stream = "whole") /\ expected = Len(input)
    BY <1>3 DEF CodecInv
  <2>2. input \in Seq(Nat) /\ at \in Nat /\ (stream = "whole") \in BOOLEAN
    BY BytesAreNumbers DEF CodecInv, CodecVarsTyped
  <2>3. /\ IsPrefix(decoded, input)
        /\ stream = "whole" /\ at = Len(encoded) => decoded = input
        /\ Len(decoded) = Len(input) => decoded = input
    <3>1. PICK whole \in BOOLEAN : whole = (stream = "whole")
      OBVIOUS
    <3>2. Decodes(codec, encoded, input, at, decoded, whole)
      BY <2>1, <3>1
    <3>3. RightSoFar(encoded, input, at, decoded, whole)
      BY <2>2, <3>2, RightPart
    <3> QED BY <3>1, <3>3 DEF RightSoFar
  <2> QED BY <1>1, <2>1, <2>3 DEF NeverWrongBytes, CodecInv
<1>4. CASE stream = "foreign"
  BY <1>1, <1>4 DEF NeverWrongBytes
<1> QED BY <1>2, <1>3, <1>4 DEF CodecInv, CodecVarsTyped

(***************************************************************************)
(* The theorems about the codecs.                                          *)
(***************************************************************************)

THEOREM CodecInvHolds == CodecSpec => []CodecInv
<1> QED BY InitCodecInv, CodecInvStep, PTL DEF CodecSpec

(* Counts and tags fit in a byte, and both codecs stay inside their bytes. *)
THEOREM CodecTypeCorrect == CodecSpec => []CodecTypeOK
<1> QED BY CodecInvHolds, CodecInvImplies, PTL

(* Whatever is encoded, and wherever its stream is cut, no decoder answers *)
(* with bytes that were not encoded.                                       *)
THEOREM CodecsNeverWrong == CodecSpec => []NeverWrongBytes
<1> QED BY CodecInvHolds, CodecInvImplies, PTL

(***************************************************************************)
(* The layout of a file.                                                   *)
(***************************************************************************)

(* Aligning goes forward.                                                  *)
LEMMA AlignedForward ==
  ASSUME NEW n \in Nat
  PROVE  Aligned(n) \in Nat /\ Aligned(n) >= n
<1>1. Alignment \in Nat \ {0}
  BY ContainerAssumption
<1>2. PICK m, q, r : m = n + Alignment - 1 /\ q = m \div Alignment /\ r = m % Alignment
  OBVIOUS
<1>3. m \in Nat /\ q \in Nat /\ r \in 0..Alignment - 1 /\ m = Alignment * q + r
  BY <1>1, <1>2
<1>4. Aligned(n) = q * Alignment
  BY <1>2 DEF Aligned
<1>5. q * Alignment = Alignment * q /\ q * Alignment \in Nat
  BY <1>1, <1>3
<1> QED BY <1>1, <1>2, <1>3, <1>4, <1>5

(* Each sequence has its place in the concatenation, behind those before.  *)
InTurn(all, seqs, before, n) ==
  /\ Len(all) = before[n] + Len(seqs[n])
  /\ \A i \in 1..n : /\ before[i] + Len(seqs[i]) <= Len(all)
                     /\ \A k \in 1..Len(seqs[i]) : all[before[i] + k] = seqs[i][k]

LEMMA FlattenedParts ==
  ASSUME NEW S, NEW n \in Nat \ {0}, NEW seqs \in [1..n -> Seq(S)],
         NEW before \in [1..n -> Nat], before[1] = 0,
         \A i \in 2..n : before[i] = before[i - 1] + Len(seqs[i - 1])
  PROVE  FlattenSeq(seqs) \in Seq(S) /\ InTurn(FlattenSeq(seqs), seqs, before, n)
<1>1. seqs \in Seq(Seq(S)) /\ Len(seqs) = n
  BY FunctionIsSeq
<1> DEFINE flatten == CHOOSE f : f = [i \in 1..n |-> IF i = 1 THEN seqs[i] ELSE f[i - 1] \o seqs[i]]
<1>2. FlattenSeq(seqs) = flatten[n]
  BY <1>1 DEF FlattenSeq
<1>3. flatten = [i \in 1..n |-> IF i = 1 THEN seqs[i] ELSE flatten[i - 1] \o seqs[i]]
  <2>1. PICK step : step = [x \in Seq(S) \X (1..n) |-> x[1] \o seqs[x[2]]]
    OBVIOUS
  <2>2. step \in [Seq(S) \X (1..n) -> Seq(S)]
    <3>1. \A x \in Seq(S) \X (1..n) : x[1] \o seqs[x[2]] \in Seq(S)
      OBVIOUS
    <3> QED BY <2>1, <3>1
  <2>3. \A v \in Seq(S), i \in 1..n : step[<<v, i>>] = v \o seqs[i]
    BY <2>1
  <2>4. << >> \in Seq(S) /\ n \in Nat
    OBVIOUS
  <2>5. PICK f \in [0..n -> Seq(S)] : f[0] = << >> /\ \A i \in 1..n : f[i] = step[<<f[i - 1], i>>]
    <3>1. \E f : IsRecursive(f, n, Seq(S), << >>, step)
      BY <2>2, <2>4, RecursionUp
    <3> QED BY <3>1 DEF IsRecursive
  <2>6. \A i \in 1..n : f[i] = f[i - 1] \o seqs[i]
    <3>1. \A i \in 1..n : i - 1 \in 0..n
      OBVIOUS
    <3> QED BY <2>3, <2>5, <3>1
  <2>7. f[1] = seqs[1]
    <3>1. 1 \in 1..n /\ 1 - 1 = 0
      OBVIOUS
    <3>2. f[1] = << >> \o seqs[1] /\ seqs[1] \in Seq(S)
      BY <2>5, <2>6, <3>1
    <3> QED BY <3>2, ConcatEmptySeq
  <2>8. PICK g : g = [i \in 1..n |-> f[i]]
    OBVIOUS
  <2>9. g = [i \in 1..n |-> IF i = 1 THEN seqs[i] ELSE g[i - 1] \o seqs[i]]
    <3>1. ASSUME NEW i \in 1..n PROVE g[i] = IF i = 1 THEN seqs[i] ELSE g[i - 1] \o seqs[i]
      <4>1. CASE i = 1
        BY <2>7, <2>8, <4>1
      <4>2. CASE i # 1
        <5>1. i - 1 \in 1..n
          BY <4>2
        <5> QED BY <2>6, <2>8, <4>2, <5>1
      <4> QED BY <4>1, <4>2
    <3>2. g = [i \in 1..n |-> g[i]]
      BY <2>8
    <3> QED BY <3>1, <3>2
  <2> QED BY <2>9
<1> HIDE DEF flatten
<1> DEFINE End(i) == before[i] + Len(seqs[i])
           Good(m) == /\ flatten[m] \in Seq(S) /\ Len(flatten[m]) = End(m)
                      /\ \A i \in 1..m : /\ End(i) <= End(m)
                                         /\ \A k \in 1..Len(seqs[i]) : flatten[m][before[i] + k] = seqs[i][k]
           T == {m \in 0..n - 1 : Good(m + 1)}
<1>4. 0 \in T
  <2>1. flatten[1] = seqs[1] /\ seqs[1] \in Seq(S) /\ Len(seqs[1]) \in Nat
    BY <1>3
  <2>2. \A k \in 1..Len(seqs[1]) : 0 + k = k
    BY <2>1
  <2> QED BY <2>1, <2>2
<1>5. ASSUME NEW m \in 0..(n - 1) - 1, m \in T PROVE m + 1 \in T
  <2>1. PICK j, l : j = m + 1 /\ l = m + 2
    OBVIOUS
  <2>2. j \in 1..n /\ l \in 2..n /\ l \in 1..n /\ l - 1 = j /\ l # 1 /\ j + 1 = l
    BY <2>1
  <2>3. Good(j)
    BY <1>5, <2>1
  <2>4. flatten[l] = flatten[j] \o seqs[l] /\ before[l] = End(j)
    BY <1>3, <2>2
  <2>5. PICK a, b, ab : a = flatten[j] /\ b = seqs[l] /\ ab = flatten[l]
    OBVIOUS
  <2>6. /\ a \in Seq(S) /\ b \in Seq(S) /\ ab = a \o b
        /\ Len(a) = before[l] /\ before[l] \in Nat
    BY <2>2, <2>3, <2>4, <2>5
  <2>7. /\ ab \in Seq(S) /\ Len(ab) = Len(a) + Len(b)
        /\ \A k \in 1..Len(a) : ab[k] = a[k]
        /\ \A k \in 1..Len(b) : ab[Len(a) + k] = b[k]
    <3>1. a \in Seq(S) /\ b \in Seq(S) /\ ab = a \o b
      BY <2>6
    <3>2. a \o b \in Seq(S) /\ Joined(a \o b, a, b)
      BY <3>1, ConcatPlaces
    <3> QED BY <3>1, <3>2 DEF Joined
  <2>8. Len(ab) = End(l) /\ End(j) <= End(l) /\ End(j) \in Nat /\ End(l) \in Nat
    BY <2>2, <2>4, <2>5, <2>6, <2>7
  <2>9. ASSUME NEW i \in 1..l
        PROVE  /\ End(i) <= End(l)
               /\ \A k \in 1..Len(seqs[i]) : ab[before[i] + k] = seqs[i][k]
    <3>1. CASE i = l
      <4>1. End(i) <= End(l)
        BY <2>8, <3>1
      <4>2. \A k \in 1..Len(seqs[i]) : ab[before[i] + k] = seqs[i][k]
        BY <2>5, <2>6, <2>7, <3>1
      <4> QED BY <4>1, <4>2
    <3>2. CASE i # l
      <4>1. i \in 1..j /\ i \in 1..n
        BY <2>2, <3>2
      <4>2. /\ End(i) <= End(j) /\ before[i] \in Nat /\ Len(seqs[i]) \in Nat
            /\ \A k \in 1..Len(seqs[i]) : a[before[i] + k] = seqs[i][k]
        BY <2>3, <2>5, <4>1
      <4>3. \A k \in 1..Len(seqs[i]) : before[i] + k \in 1..Len(a)
        <5>1. Len(a) = End(j) /\ Len(a) \in Nat
          BY <2>4, <2>6, <2>8
        <5>2. before[i] + Len(seqs[i]) <= Len(a)
          BY <4>2, <5>1
        <5> QED BY <4>2, <5>1, <5>2
      <4>4. End(i) <= End(l)
        <5>1. End(i) \in Nat
          BY <4>2
        <5> QED BY <2>8, <4>2, <5>1
      <4>5. \A k \in 1..Len(seqs[i]) : ab[before[i] + k] = seqs[i][k]
        BY <2>7, <4>2, <4>3
      <4> QED BY <4>4, <4>5
    <3> QED BY <3>1, <3>2
  <2>10. Good(l)
    BY <2>5, <2>7, <2>8, <2>9
  <2>11. (m + 1) + 1 = l /\ m + 1 \in 0..n - 1
    BY <2>1
  <2> HIDE DEF Good
  <2> QED BY <2>10, <2>11
<1>6. Good(n)
  <2>1. n - 1 \in Nat /\ n - 1 \in 0..n - 1 /\ (n - 1) + 1 = n
    OBVIOUS
  <2>2. n - 1 \in T
    <3> HIDE DEF T
    <3> QED BY <1>4, <1>5, <2>1, BoundedInduction
  <2> HIDE DEF Good
  <2> QED BY <2>1, <2>2
<1> QED BY <1>2, <1>6 DEF InTurn

(* Where the sections end.                                                 *)
EndsOf(stored, end) ==
  /\ end \in [0..Len(stored) -> Nat] /\ end[0] = TableEnd(Len(stored))
  /\ \A i \in 1..Len(stored) : end[i] = Aligned(end[i - 1]) + Len(stored[i].bytes)

Part(stored, end, i) == Copies(0, Aligned(end[i - 1]) - end[i - 1]) \o stored[i].bytes

LaidOut(stored, end) ==
  [NoFile EXCEPT
    !.table = [i \in DOMAIN stored |->
                 [kind |-> stored[i].kind, compressed |-> stored[i].compressed, offset |-> Aligned(end[i - 1]),
                  size |-> Len(stored[i].bytes), uncompressed |-> stored[i].uncompressed]],
    !.bytes = FlattenSeq([i \in DOMAIN stored |-> Part(stored, end, i)]),
    !.size = end[Len(stored)]]

LEMMA TableEnds == ASSUME NEW n \in Nat PROVE TableEnd(n) \in Nat /\ TableEnd(n) >= HeaderSize
<1>1. HeaderSize \in Nat /\ RecordSize \in Nat
  BY ContainerAssumption
<1>2. PICK m : m = n * RecordSize
  OBVIOUS
<1>3. m \in Nat
  BY <1>1, <1>2
<1> QED BY <1>1, <1>2, <1>3 DEF TableEnd

LEMMA LayoutEnds ==
  ASSUME NEW T, NEW stored \in Seq(T), \A i \in 1..Len(stored) : stored[i].bytes \in Seq(Byte)
  PROVE  \E end : EndsOf(stored, end) /\ Layout(stored) = LaidOut(stored, end)
<1> DEFINE N == Len(stored)
           Body(g, i) == IF i = 0 THEN TableEnd(N) ELSE Aligned(g[i - 1]) + Len(stored[i].bytes)
           end == CHOOSE g : g = [i \in 0..N |-> Body(g, i)]
<1>1. N \in Nat /\ TableEnd(N) \in Nat
  BY TableEnds
<1>2. Layout(stored) = LaidOut(stored, end)
  BY DEF Layout, LaidOut, Part
<1>3. end = [i \in 0..N |-> Body(end, i)]
  <2>1. PICK step : step = [x \in Nat \X (1..N) |-> Aligned(x[1]) + Len(stored[x[2]].bytes)]
    OBVIOUS
  <2>2. step \in [Nat \X (1..N) -> Nat]
    <3>1. ASSUME NEW x \in Nat \X (1..N) PROVE Aligned(x[1]) + Len(stored[x[2]].bytes) \in Nat
      <4>1. x[1] \in Nat /\ x[2] \in 1..N
        OBVIOUS
      <4>2. Aligned(x[1]) \in Nat
        BY <4>1, AlignedForward
      <4>3. Len(stored[x[2]].bytes) \in Nat
        <5>1. stored[x[2]].bytes \in Seq(Byte)
          BY <4>1
        <5> QED BY <5>1
      <4> QED BY <4>2, <4>3
    <3> QED BY <2>1, <3>1
  <2>3. PICK f : IsRecursive(f, N, Nat, TableEnd(N), step)
    BY <1>1, <2>2, RecursionUp
  <2>4. ASSUME NEW i \in 1..N PROVE f[i] = Aligned(f[i - 1]) + Len(stored[i].bytes)
    <3>1. i - 1 \in 0..N
      BY <1>1
    <3>2. <<f[i - 1], i>> \in Nat \X (1..N)
      BY <2>3, <3>1 DEF IsRecursive
    <3> QED BY <2>1, <2>3, <3>2 DEF IsRecursive
  <2>5. f = [i \in 0..N |-> Body(f, i)]
    <3>1. ASSUME NEW i \in 0..N PROVE f[i] = Body(f, i)
      <4>1. i = 0 \/ i \in 1..N
        BY <1>1
      <4> QED BY <2>3, <2>4, <4>1 DEF IsRecursive
    <3>2. f = [i \in 0..N |-> f[i]]
      BY <2>3 DEF IsRecursive
    <3> HIDE DEF Body
    <3> QED BY <3>1, <3>2
  <2> HIDE DEF Body
  <2> QED BY <2>5
<1> HIDE DEF end
<1>4. end[0] = TableEnd(N) /\ \A i \in 1..N : end[i] = Aligned(end[i - 1]) + Len(stored[i].bytes)
  <2>1. \A i \in 0..N : end[i] = Body(end, i)
    <3> HIDE DEF Body
    <3> QED BY <1>3
  <2>2. 0 \in 0..N /\ \A i \in 1..N : i \in 0..N /\ i # 0
    BY <1>1
  <2> QED BY <2>1, <2>2
<1>5. \A i \in 0..N : end[i] \in Nat
  <2> DEFINE S == {i \in 0..N : end[i] \in Nat}
  <2>1. 0 \in S
    BY <1>1, <1>4
  <2>2. ASSUME NEW i \in 0..N - 1, i \in S PROVE i + 1 \in S
    <3>1. i + 1 \in 1..N /\ (i + 1) - 1 = i /\ i + 1 \in 0..N
      BY <1>1
    <3>2. end[i + 1] = Aligned(end[i]) + Len(stored[i + 1].bytes)
      BY <1>4, <3>1
    <3>3. Aligned(end[i]) \in Nat
      BY <2>2, AlignedForward
    <3>4. Len(stored[i + 1].bytes) \in Nat
      BY <3>1
    <3> QED BY <3>1, <3>2, <3>3, <3>4
  <2>3. \A i \in 0..N : i \in S
    <3> HIDE DEF S
    <3> QED BY <1>1, <2>1, <2>2, BoundedInduction
  <2> QED BY <2>3
<1>6. DOMAIN end = 0..N
  BY <1>3
<1>7. end \in [0..N -> Nat]
  <2>1. end = [i \in 0..N |-> end[i]]
    <3> HIDE DEF Body
    <3> QED BY <1>3, <1>6
  <2> QED BY <1>5, <2>1
<1> QED BY <1>2, <1>4, <1>7 DEF EndsOf

LEMMA EndsForward ==
  ASSUME NEW T, NEW stored \in Seq(T), \A i \in 1..Len(stored) : stored[i].bytes \in Seq(Byte),
         NEW end, EndsOf(stored, end)
  PROVE  \A i \in 0..Len(stored) : end[i] \in Nat /\ end[i] >= TableEnd(Len(stored))
<1> DEFINE N == Len(stored)
           S == {i \in 0..N : end[i] >= TableEnd(N)}
<1>1. N \in Nat /\ TableEnd(N) \in Nat /\ \A i \in 0..N : end[i] \in Nat
  <2>1. N \in Nat
    OBVIOUS
  <2> QED BY <2>1, TableEnds DEF EndsOf
<1>2. 0 \in S
  BY <1>1 DEF EndsOf
<1>3. ASSUME NEW i \in 0..N - 1, i \in S PROVE i + 1 \in S
  <2>1. i + 1 \in 1..N /\ (i + 1) - 1 = i /\ i + 1 \in 0..N
    BY <1>1
  <2>2. end[i + 1] = Aligned(end[i]) + Len(stored[i + 1].bytes)
    BY <2>1 DEF EndsOf
  <2>3. Aligned(end[i]) \in Nat /\ Aligned(end[i]) >= end[i] /\ end[i] \in Nat
    <3>1. end[i] \in Nat
      BY <1>1
    <3> QED BY <3>1, AlignedForward
  <2>4. Len(stored[i + 1].bytes) \in Nat
    BY <2>1
  <2>5. end[i] >= TableEnd(N)
    BY <1>3
  <2>6. end[i + 1] >= TableEnd(N)
    BY <1>1, <2>2, <2>3, <2>4, <2>5
  <2> QED BY <2>1, <2>6
<1>4. \A i \in 0..N : i \in S
  <2> HIDE DEF S
  <2> QED BY <1>1, <1>2, <1>3, BoundedInduction
<1> QED BY <1>1, <1>4

(* Every section is at its offset.                                         *)
InFile(f, stored, i) ==
  LET offset == f.table[i].offset
      size   == Len(stored[i].bytes)
  IN /\ offset \in Nat /\ offset >= TableEnd(Len(stored)) /\ offset + size <= f.size
     /\ Slice(f.bytes, offset - TableEnd(Len(stored)), size) = stored[i].bytes

LEMMA SectionsInFile ==
  ASSUME NEW T, NEW stored \in Seq(T), Len(stored) # 0,
         \A i \in 1..Len(stored) : stored[i].bytes \in Seq(Byte)
  PROVE  /\ Layout(stored).bytes \in Seq(Byte) /\ Layout(stored).size \in Nat
         /\ Layout(stored).size = TableEnd(Len(stored)) + Len(Layout(stored).bytes)
         /\ \A i \in 1..Len(stored) : InFile(Layout(stored), stored, i)
<1>1. PICK end : EndsOf(stored, end) /\ Layout(stored) = LaidOut(stored, end)
  BY LayoutEnds
<1>2. PICK n, start, f : n = Len(stored) /\ start = TableEnd(n) /\ f = Layout(stored)
  OBVIOUS
<1>3. n \in Nat \ {0} /\ start \in Nat /\ DOMAIN stored = 1..n
  BY <1>2, TableEnds
<1>4. \A i \in 0..n : end[i] \in Nat /\ end[i] >= start
  BY <1>1, <1>2, EndsForward
<1>5. PICK before, seqs : before = [i \in 1..n |-> end[i - 1] - start]
                          /\ seqs = [i \in 1..n |-> Part(stored, end, i)]
  OBVIOUS
<1>6. f.bytes = FlattenSeq(seqs) /\ f.size = end[n]
      /\ \A i \in 1..n : f.table[i].offset = Aligned(end[i - 1])
  BY <1>1, <1>2, <1>3, <1>5 DEF LaidOut, NoFile
<1>7. ASSUME NEW i \in 1..n
      PROVE  /\ i - 1 \in 0..n /\ end[i - 1] \in Nat /\ end[i - 1] >= start
             /\ Aligned(end[i - 1]) \in Nat /\ Aligned(end[i - 1]) >= end[i - 1]
             /\ stored[i].bytes \in Seq(Byte) /\ Len(stored[i].bytes) \in Nat
             /\ end[i] = Aligned(end[i - 1]) + Len(stored[i].bytes) /\ end[i] \in Nat
  <2>1. i - 1 \in 0..n /\ i \in 0..n
    BY <1>3
  <2>2. Aligned(end[i - 1]) \in Nat /\ Aligned(end[i - 1]) >= end[i - 1]
    BY <1>4, <2>1, AlignedForward
  <2>3. stored[i].bytes \in Seq(Byte)
    BY <1>2
  <2>4. Len(stored[i].bytes) \in Nat
    BY <2>3
  <2>5. end[i] = Aligned(end[i - 1]) + Len(stored[i].bytes)
    BY <1>1, <1>2 DEF EndsOf
  <2> QED BY <1>4, <2>1, <2>2, <2>3, <2>4, <2>5
<1>8. ASSUME NEW i \in 1..n
      PROVE  LET pad == Aligned(end[i - 1]) - end[i - 1]
             IN /\ seqs[i] \in Seq(Byte) /\ Len(seqs[i]) = pad + Len(stored[i].bytes) /\ pad \in Nat
                /\ \A k \in 1..Len(stored[i].bytes) : seqs[i][pad + k] = stored[i].bytes[k]
  <2>1. PICK pad, zeros, b : /\ pad = Aligned(end[i - 1]) - end[i - 1]
                             /\ zeros = Copies(0, pad) /\ b = stored[i].bytes
    OBVIOUS
  <2>2. pad \in Nat /\ b \in Seq(Byte)
    BY <1>7, <2>1
  <2>3. zeros \in Seq(Byte) /\ Len(zeros) = pad
    <3>1. zeros \in [1..pad -> Byte]
      BY <2>1, Bytes DEF Copies
    <3> QED BY <2>2, <3>1, FunctionIsSeq
  <2>4. seqs[i] = zeros \o b
    BY <1>5, <2>1 DEF Part
  <2>5. zeros \o b \in Seq(Byte) /\ Joined(zeros \o b, zeros, b)
    BY <2>2, <2>3, ConcatPlaces
  <2> QED BY <2>1, <2>2, <2>3, <2>4, <2>5 DEF Joined
<1>9. seqs \in [1..n -> Seq(Byte)] /\ before \in [1..n -> Nat] /\ before[1] = 0
  <2>1. seqs \in [1..n -> Seq(Byte)]
    BY <1>5, <1>8
  <2>2. \A i \in 1..n : end[i - 1] - start \in Nat
    <3>1. \A x \in Nat : x >= start => x - start \in Nat
      BY <1>3
    <3> QED BY <1>7, <3>1
  <2>3. 1 \in 1..n /\ 1 - 1 = 0 /\ end[0] = start
    BY <1>1, <1>2, <1>3 DEF EndsOf
  <2> QED BY <1>3, <1>5, <2>1, <2>2, <2>3
<1>10. ASSUME NEW i \in 1..n PROVE before[i] + Len(seqs[i]) = end[i] - start
  <2>1. PICK e, a, z, l : e = end[i - 1] /\ a = Aligned(end[i - 1]) /\ z = end[i] /\ l = Len(stored[i].bytes)
    OBVIOUS
  <2>2. before[i] = e - start /\ Len(seqs[i]) = (a - e) + l /\ z = a + l
    BY <1>5, <1>7, <1>8, <2>1
  <2>3. e \in Nat /\ a \in Nat /\ z \in Nat /\ l \in Nat
    BY <1>7, <2>1
  <2> QED BY <1>3, <2>1, <2>2, <2>3
<1>11. ASSUME NEW i \in 2..n PROVE before[i] = before[i - 1] + Len(seqs[i - 1])
  <2>1. i \in 1..n /\ i - 1 \in 1..n
    BY <1>3
  <2> QED BY <1>5, <1>10, <2>1
<1>12. PICK all : all = FlattenSeq(seqs)
  OBVIOUS
<1>13. /\ all \in Seq(Byte) /\ Len(all) = before[n] + Len(seqs[n])
       /\ \A i \in 1..n : /\ before[i] + Len(seqs[i]) <= Len(all)
                          /\ \A k \in 1..Len(seqs[i]) : all[before[i] + k] = seqs[i][k]
  <2>1. FlattenSeq(seqs) \in Seq(Byte) /\ InTurn(FlattenSeq(seqs), seqs, before, n)
    BY <1>3, <1>9, <1>11, FlattenedParts
  <2> QED BY <1>12, <2>1 DEF InTurn
<1>14. f.size = start + Len(all) /\ f.size \in Nat /\ Len(all) \in Nat
  <2>1. n \in 1..n
    BY <1>3
  <2>2. Len(all) = end[n] - start /\ end[n] \in Nat
    BY <1>7, <1>10, <1>13, <2>1
  <2>3. Len(all) \in Nat
    BY <1>13
  <2> QED BY <1>3, <1>6, <2>2, <2>3
<1>15. ASSUME NEW i \in 1..n PROVE InFile(f, stored, i)
  <2>1. PICK offset, size, b, skip, pad :
          /\ offset = Aligned(end[i - 1]) /\ b = stored[i].bytes /\ size = Len(b)
          /\ skip = offset - start /\ pad = Aligned(end[i - 1]) - end[i - 1]
    OBVIOUS
  <2>2. PICK e, z : e = end[i - 1] /\ z = end[i]
    OBVIOUS
  <2>3. /\ e \in Nat /\ z \in Nat /\ e >= start /\ offset \in Nat /\ offset >= e
        /\ size \in Nat /\ b \in Seq(Byte) /\ z = offset + size
        /\ skip = offset - start /\ pad = offset - e /\ before[i] = e - start
    BY <1>5, <1>7, <2>1, <2>2
  <2>4. offset >= start /\ skip \in Nat /\ pad \in Nat /\ before[i] \in Nat /\ before[i] + pad = skip
    BY <1>3, <2>3
  <2>5. Len(seqs[i]) = pad + size /\ \A k \in 1..size : seqs[i][pad + k] = b[k]
    BY <1>8, <2>1
  <2>6. skip + size <= Len(all)
    <3>1. before[i] + (pad + size) <= Len(all)
      BY <1>13, <2>5
    <3> QED BY <1>14, <2>3, <2>4, <3>1
  <2>7. ASSUME NEW k \in 1..size PROVE all[skip + k] = b[k]
    <3>1. pad + k \in 1..Len(seqs[i]) /\ before[i] + (pad + k) = skip + k
      BY <2>3, <2>4, <2>5
    <3>2. all[before[i] + (pad + k)] = seqs[i][pad + k]
      BY <1>13, <3>1
    <3> QED BY <2>5, <3>1, <3>2
  <2>8. PICK part : part = SubSeq(all, skip + 1, skip + size)
    OBVIOUS
  <2>9. part \in Seq(Byte) /\ Len(part) = size /\ \A k \in 1..size : part[k] = all[skip + k]
    <3>1. all \in Seq(Byte)
      BY <1>13
    <3>2. SubSeq(all, skip + 1, skip + size) \in Seq(Byte)
          /\ IsPart(SubSeq(all, skip + 1, skip + size), all, skip, size)
      BY <2>3, <2>6, <2>4, <3>1, PartOfSeq
    <3> QED BY <2>8, <3>2 DEF IsPart
  <2>10. part = b
    <3>1. Len(part) = Len(b) /\ \A k \in 1..Len(part) : part[k] = b[k]
      BY <2>1, <2>7, <2>9
    <3> QED BY <2>3, <2>9, <3>1, SeqEqual
  <2>11. offset + size <= f.size
    BY <1>3, <1>14, <2>3, <2>4, <2>6
  <2> QED BY <1>2, <1>6, <1>12, <2>1, <2>3, <2>4, <2>8, <2>10, <2>11 DEF InFile, Slice
<1> QED BY <1>2, <1>6, <1>12, <1>13, <1>14, <1>15

(***************************************************************************)
(* The invariant of a file's way.  Every blob says what its section says,  *)
(* in as many bytes; the file is the layout of the blobs, or what has      *)
(* become of it.                                                           *)
(***************************************************************************)

Rows == Len(SectionOrder)
Early == {"codec", "serialize", "compress"}
Kinds == ToSet(SectionOrder) \cup {"unknown"}

Blobs == [kind : Kinds, compressed : BOOLEAN, bytes : Seq(Byte), uncompressed : Nat]

AsStored(s, blob, kind) ==
  LET bytes == SectionBytes(s, kind)
  IN /\ blob.kind = kind /\ blob.uncompressed = Len(bytes)
     /\ IF blob.compressed THEN Encodes("packets", blob.bytes, bytes, Len(bytes)) ELSE blob.bytes = bytes

BlobsInv ==
  /\ blobs \in Seq(Blobs) /\ Len(blobs) <= Rows
  /\ \A i \in 1..Len(blobs) : AsStored(source, blobs[i], SectionOrder[i])

CompressInv ==
  stage = "compress" =>
    /\ Len(blobs) < Rows /\ input = NextSection
    /\ codec = "packets" /\ phase = "encode" /\ stream = "whole"

Records ==
  {r \in [kind : Kinds, compressed : BOOLEAN, offset : Nat, size : Nat, uncompressed : Nat] :
     r.offset >= TableEnd(Rows)}
Files == [size : Nat, magic : {"BSEN", "other"}, major : {1, 2}, table : [1..Rows -> Records], bytes : Seq(Byte)]

(* A file that was cut has lost its table, or the bytes behind.            *)
IsCut(f) ==
  /\ f.size >= Len(f.bytes)
  /\ TableEnd(Rows) <= f.size => f.size = TableEnd(Rows) + Len(f.bytes)

IsOrdered(f, whole) ==
  /\ f.bytes = whole.bytes /\ f.size = whole.size
  /\ \A i \in 1..Rows : \E j \in 1..Rows : f.table[i] = whole.table[j]

FileInv ==
  /\ Len(blobs) = Rows /\ file \in Files /\ IsCut(file)
  /\ IsIntact => IsOrdered(file, Layout(blobs))

ReadInv ==
  /\ stage \in {"offsets", "unpack"} => TableEnd(Rows) <= file.size /\ row \in Nat \ {0}
  /\ stage = "unpack" =>
       /\ row <= Rows /\ codec = "packets" /\ phase \in {"decode", "done", "failed"}
       /\ IsIntact => stream = "whole" /\ input = SectionBytes(source, Record.kind)

ContainerInv ==
  /\ stage \in {"codec", "serialize", "compress", "file", "offsets", "unpack", "resolve",
                "animations", "answered"}
  /\ stage # "codec" => source \in OlderScenes
  /\ row \in 0..Rows + 1
  /\ stage \in Early => file = NoFile /\ damage = Undamaged
  /\ stage \in Early \cup {"file"} => row = 0 /\ sections = << >>
  /\ stage \notin Early => FileInv
  /\ CodecInv /\ BlobsInv /\ CompressInv /\ ReadInv /\ SectionsAsWritten

LEMMA SectionNames ==
  /\ Rows = 10 /\ \A i \in 1..Rows : SectionOrder[i] \in Kinds
  /\ \A i \in 1..Rows : SectionOrder[i] \in ToSet(SectionOrder)
<1>1. Rows = 10 /\ DOMAIN SectionOrder = 1..10
  BY DEF Rows, SectionOrder
<1>2. \A i \in 1..10 : SectionOrder[i] \in ToSet(SectionOrder)
  <2> HIDE DEF SectionOrder
  <2> QED BY <1>1 DEF ToSet
<1> QED BY <1>1, <1>2 DEF Kinds

LEMMA SectionsAreBytes ==
  ASSUME NEW s \in OlderScenes, NEW kind
  PROVE  SectionBytes(s, kind) \in Seq(Byte)
<1>1. CASE kind \in OlderKinds
  BY <1>1, SceneAssumption
<1>2. CASE kind \notin OlderKinds
  <2>1. Base \in Nat \ {0} /\ 0 % Base = 0 /\ 0 \div Base = 0
    BY Bytes DEF Base
  <2>2. SectionBytes(s, kind) = <<0, 0>>
    BY <1>2, <2>1 DEF SectionBytes, Pod
  <2> QED BY <2>2, Bytes
<1> QED BY <1>1, <1>2

(* A codec that begins anew.                                               *)
LEMMA CodecBegins ==
  ASSUME input' \in Seq(Byte), codec' = "packets", phase' = "encode", stream' = "whole",
         at' = 0, expected' = 0, encoded' = << >>, decoded' = << >>
  PROVE  CodecInv'
<1>1. CodecVarsTyped'
  <2>1. << >> \in Seq(Byte)
    OBVIOUS
  <2> QED BY <2>1 DEF CodecVarsTyped
<1>2. Encodes(codec', encoded', input', at')
  BY NothingEncodes
<1> QED BY <1>1, <1>2 DEF CodecInv, CodecVarsTyped

LEMMA UseCodecStep == ContainerInv /\ UseCodec => ContainerInv'
<1> SUFFICES ASSUME ContainerInv, UseCodec PROVE ContainerInv'
  OBVIOUS
<1>1. CodecInv'
  BY CodecInvStep DEF UseCodec, ContainerInv
<1>2. stage = "codec" /\ UNCHANGED <<stage, options, source, blobs, file, damage, row, sections, result>>
  BY DEF UseCodec, containerVars
<1>3. BlobsInv' /\ CompressInv' /\ ReadInv' /\ SectionsAsWritten'
  BY <1>2 DEF ContainerInv, BlobsInv, CompressInv, ReadInv, SectionsAsWritten, IsIntact
<1> QED BY <1>1, <1>2, <1>3 DEF ContainerInv, Early

(* A section more is stored.                                               *)
LEMMA StoredMore ==
  ASSUME ContainerInv, stage \in {"serialize", "compress"}, stage' = "serialize",
         Len(blobs) < Rows, CodecInv', NEW compressed \in BOOLEAN, NEW bytes \in Seq(Byte),
         Store(compressed, bytes, Len(NextSection)),
         IF compressed THEN Encodes("packets", bytes, NextSection, Len(NextSection)) ELSE bytes = NextSection,
         UNCHANGED <<source, file, damage, row, sections>>
  PROVE  ContainerInv'
<1>1. PICK n, kind, blob :
        /\ n = Len(blobs) + 1 /\ kind = SectionOrder[n]
        /\ blob = [kind |-> kind, compressed |-> compressed, bytes |-> bytes,
                   uncompressed |-> Len(NextSection)]
  OBVIOUS
<1>2. blobs' = Append(blobs, blob)
  BY <1>1 DEF Store
<1>3. blobs \in Seq(Blobs) /\ n \in 1..Rows /\ Len(blobs) \in Nat /\ Len(blobs) + 1 = n
  BY <1>1, SectionNames DEF ContainerInv, BlobsInv
<1>4. kind \in Kinds /\ NextSection = SectionBytes(source, kind) /\ source \in OlderScenes
  BY <1>1, <1>3, SectionNames DEF NextSection, ContainerInv
<1>5. Len(NextSection) \in Nat
  BY <1>4, SectionsAreBytes
<1>6. blob \in Blobs /\ AsStored(source, blob, kind)
  BY <1>1, <1>4, <1>5 DEF Blobs, AsStored
<1>7. /\ blobs' \in Seq(Blobs) /\ Len(blobs') = n
      /\ \A i \in 1..Len(blobs) : blobs'[i] = blobs[i]
      /\ blobs'[n] = blob
  BY <1>2, <1>3, <1>6
<1>8. BlobsInv'
  <2>1. ASSUME NEW i \in 1..n PROVE AsStored(source, blobs'[i], SectionOrder[i])
    <3>1. CASE i = n
      BY <1>1, <1>6, <1>7, <3>1
    <3>2. CASE i # n
      <4>1. i \in 1..Len(blobs)
        BY <1>3, <3>2
      <4> QED BY <1>7, <4>1 DEF ContainerInv, BlobsInv
    <3> QED BY <3>1, <3>2
  <2> QED BY <1>3, <1>7, <2>1 DEF BlobsInv
<1>9. CompressInv' /\ ReadInv' /\ SectionsAsWritten'
  BY DEF ContainerInv, CompressInv, ReadInv, SectionsAsWritten, IsIntact
<1> QED BY <1>8, <1>9 DEF ContainerInv, Early

LEMMA StoreAsIsStep == ContainerInv /\ StoreAsIs => ContainerInv'
<1> SUFFICES ASSUME ContainerInv, StoreAsIs PROVE ContainerInv'
  OBVIOUS
<1>1. /\ stage = "serialize" /\ stage' = "serialize" /\ Len(blobs) < Rows
      /\ Store(FALSE, NextSection, Len(NextSection))
      /\ UNCHANGED <<source, file, damage, row, sections>> /\ UNCHANGED codecVars
  BY DEF StoreAsIs, Rows
<1>2. CodecInv'
  BY <1>1, CodecInvStep DEF ContainerInv
<1>3. NextSection \in Seq(Byte)
  BY <1>1, SectionsAreBytes DEF ContainerInv, NextSection
<1> QED BY <1>1, <1>2, <1>3, StoredMore

LEMMA StoreSmallerStep == ContainerInv /\ StoreSmaller => ContainerInv'
<1> SUFFICES ASSUME ContainerInv, StoreSmaller PROVE ContainerInv'
  OBVIOUS
<1>1. /\ stage = "compress" /\ stage' = "serialize" /\ at = Len(input) /\ phase' = "idle"
      /\ UNCHANGED <<source, file, damage, row, sections>>
      /\ UNCHANGED <<codec, input, at, encoded, decoded, expected, stream>>
      /\ Store(TRUE, encoded, Len(input)) \/ Store(FALSE, input, Len(input))
  BY DEF StoreSmaller
<1>2. /\ Len(blobs) < Rows /\ input = NextSection /\ codec = "packets" /\ phase = "encode"
      /\ CodecInv /\ encoded \in Seq(Byte) /\ input \in Seq(Byte)
      /\ Encodes("packets", encoded, NextSection, Len(NextSection))
  BY <1>1 DEF ContainerInv, CompressInv, CodecInv, CodecVarsTyped
<1>3. CodecInv'
  BY <1>1, <1>2 DEF CodecInv, CodecVarsTyped
<1>4. CASE Store(TRUE, encoded, Len(input))
  BY <1>1, <1>2, <1>3, <1>4, StoredMore
<1>5. CASE Store(FALSE, input, Len(input))
  BY <1>1, <1>2, <1>3, <1>5, StoredMore
<1> QED BY <1>1, <1>4, <1>5

LEMMA TryToCompressStep == ContainerInv /\ TryToCompress => ContainerInv'
<1> SUFFICES ASSUME ContainerInv, TryToCompress PROVE ContainerInv'
  OBVIOUS
<1>1. /\ stage = "serialize" /\ stage' = "compress" /\ Len(blobs) < Rows /\ input' = NextSection
      /\ codec' = "packets" /\ phase' = "encode" /\ stream' = "whole" /\ at' = 0 /\ expected' = 0
      /\ encoded' = << >> /\ decoded' = << >>
      /\ UNCHANGED <<source, blobs, file, damage, row, sections>>
  BY DEF TryToCompress, Rows
<1>2. input' \in Seq(Byte)
  BY <1>1, SectionsAreBytes DEF ContainerInv, NextSection
<1>3. CodecInv'
  BY <1>1, <1>2, CodecBegins
<1>4. BlobsInv' /\ ReadInv' /\ SectionsAsWritten'
  BY <1>1 DEF ContainerInv, BlobsInv, ReadInv, SectionsAsWritten, IsIntact
<1>5. CompressInv'
  BY <1>1 DEF CompressInv, NextSection
<1> QED BY <1>1, <1>3, <1>4, <1>5 DEF ContainerInv, Early

LEMMA CompressStep == ContainerInv /\ Compress => ContainerInv'
<1> SUFFICES ASSUME ContainerInv, Compress PROVE ContainerInv'
  OBVIOUS
<1>1. /\ stage = "compress" /\ UNCHANGED <<stage, source, blobs, file, damage, row, sections>>
      /\ EncodeRunPacket \/ EncodeLiteralPacket
  BY DEF Compress, containerVars
<1>2. CodecInv' /\ UNCHANGED <<input, codec, phase, stream>>
  BY <1>1, EncodeRunPacketStep, EncodeLiteralPacketStep
     DEF ContainerInv, EncodeRunPacket, EncodeLiteralPacket
<1>3. BlobsInv' /\ ReadInv' /\ SectionsAsWritten'
  BY <1>1 DEF ContainerInv, BlobsInv, ReadInv, SectionsAsWritten, IsIntact
<1>4. CompressInv'
  BY <1>1, <1>2 DEF ContainerInv, CompressInv, NextSection
<1> QED BY <1>1, <1>2, <1>3, <1>4 DEF ContainerInv, Early

(* What is written, and what can happen to it, are files.                  *)
LEMMA FilesAreWritten ==
  ASSUME BlobsInv, Len(blobs) = Rows
  PROVE  /\ Layout(blobs) \in Files /\ IsCut(Layout(blobs)) /\ IsOrdered(Layout(blobs), Layout(blobs))
         /\ \A i \in 1..Rows :
              LET r == Layout(blobs).table[i]
              IN /\ InFile(Layout(blobs), blobs, i) /\ r.size = Len(blobs[i].bytes) /\ r.kind = blobs[i].kind
                 /\ r.compressed = blobs[i].compressed /\ r.uncompressed = blobs[i].uncompressed
<1>0. \A i \in 1..Len(blobs) : blobs[i] \in Blobs
  BY DEF BlobsInv
<1>1. PICK end : EndsOf(blobs, end) /\ Layout(blobs) = LaidOut(blobs, end)
  <2>1. \A i \in 1..Len(blobs) : blobs[i].bytes \in Seq(Byte)
    BY <1>0 DEF Blobs
  <2> QED BY <2>1, LayoutEnds DEF BlobsInv
<1>2. PICK f : f = Layout(blobs)
  OBVIOUS
<1>3. /\ f.bytes \in Seq(Byte) /\ f.size \in Nat /\ f.size = TableEnd(Rows) + Len(f.bytes)
      /\ \A i \in 1..Rows : InFile(f, blobs, i)
  <2>1. \A i \in 1..Len(blobs) : blobs[i].bytes \in Seq(Byte)
    BY <1>0 DEF Blobs
  <2>2. Len(blobs) # 0 /\ blobs \in Seq(Blobs)
    BY SectionNames DEF BlobsInv
  <2> QED BY <1>2, <2>1, <2>2, SectionsInFile
<1>4. DOMAIN blobs = 1..Rows /\ \A i \in 1..Rows : blobs[i] \in Blobs
  BY DEF BlobsInv
<1>5. /\ f = [size |-> f.size, magic |-> "BSEN", major |-> 1, table |-> f.table, bytes |-> f.bytes]
      /\ f.table = [i \in 1..Rows |->
                      [kind |-> blobs[i].kind, compressed |-> blobs[i].compressed,
                       offset |-> Aligned(end[i - 1]), size |-> Len(blobs[i].bytes),
                       uncompressed |-> blobs[i].uncompressed]]
  BY <1>1, <1>2, <1>4 DEF LaidOut, NoFile
<1>6. ASSUME NEW i \in 1..Rows
      PROVE  /\ f.table[i] \in Records
             /\ f.table[i].size = Len(blobs[i].bytes) /\ f.table[i].kind = blobs[i].kind
             /\ f.table[i].compressed = blobs[i].compressed
             /\ f.table[i].uncompressed = blobs[i].uncompressed
  <2>1. PICK r : r = f.table[i]
    OBVIOUS
  <2>2. r = [kind |-> blobs[i].kind, compressed |-> blobs[i].compressed,
             offset |-> Aligned(end[i - 1]), size |-> Len(blobs[i].bytes),
             uncompressed |-> blobs[i].uncompressed]
    BY <1>5, <2>1
  <2>3. r.offset \in Nat /\ r.offset >= TableEnd(Rows)
    BY <1>3, <2>1 DEF InFile, BlobsInv
  <2>4. /\ blobs[i].kind \in Kinds /\ blobs[i].compressed \in BOOLEAN /\ blobs[i].uncompressed \in Nat
        /\ Len(blobs[i].bytes) \in Nat
    <3>1. blobs[i] \in Blobs
      BY <1>4
    <3>2. blobs[i].bytes \in Seq(Byte)
      BY <3>1 DEF Blobs
    <3> QED BY <3>1, <3>2 DEF Blobs
  <2>5. r.offset = Aligned(end[i - 1])
    BY <2>2
  <2>6. r \in Records
    BY <2>2, <2>3, <2>4, <2>5 DEF Records
  <2> QED BY <2>1, <2>2, <2>6
<1>7. f \in Files
  <2>1. f.table \in [1..Rows -> Records]
    BY <1>5, <1>6
  <2>2. PICK size, table, bytes : size = f.size /\ table = f.table /\ bytes = f.bytes
    OBVIOUS
  <2>3. f = [size |-> size, magic |-> "BSEN", major |-> 1, table |-> table, bytes |-> bytes]
    BY <1>5, <2>2
  <2>4. size \in Nat /\ table \in [1..Rows -> Records] /\ bytes \in Seq(Byte)
    BY <1>3, <2>1, <2>2
  <2> QED BY <2>3, <2>4 DEF Files
<1>8. IsCut(f)
  <2>1. TableEnd(Rows) \in Nat /\ Len(f.bytes) \in Nat
    <3>1. Rows \in Nat
      BY SectionNames
    <3> QED BY <1>3, <3>1, TableEnds
  <2> QED BY <1>3, <2>1 DEF IsCut
<1>9. IsOrdered(f, f)
  BY DEF IsOrdered
<1> QED BY <1>2, <1>3, <1>6, <1>7, <1>8, <1>9

LEMMA FinishFileStep == ContainerInv /\ FinishFile => ContainerInv'
<1> SUFFICES ASSUME ContainerInv, FinishFile PROVE ContainerInv'
  OBVIOUS
<1>1. /\ stage = "serialize" /\ stage' = "file" /\ Len(blobs) = Rows /\ file' = Layout(blobs)
      /\ UNCHANGED <<source, blobs, damage, row, sections>> /\ UNCHANGED codecVars
  BY DEF FinishFile, Rows
<1>2. CodecInv'
  BY <1>1, CodecInvStep DEF ContainerInv
<1>3. BlobsInv' /\ CompressInv' /\ ReadInv' /\ SectionsAsWritten'
  BY <1>1 DEF ContainerInv, BlobsInv, CompressInv, ReadInv, SectionsAsWritten, IsIntact
<1>4. /\ file' \in Files /\ IsCut(file') /\ IsOrdered(file', Layout(blobs'))
  BY <1>1, FilesAreWritten DEF ContainerInv
<1>5. FileInv'
  BY <1>1, <1>4 DEF FileInv
<1> QED BY <1>1, <1>2, <1>3, <1>5 DEF ContainerInv, Early

(* Something happens to the file.                                          *)
LEMMA DamageStep ==
  ASSUME ContainerInv, NEW kind, NEW i, NEW f \in Files, Damage(kind, i, f), IsCut(f),
         kind \in {"none", "swap"} => IsOrdered(f, Layout(blobs))
  PROVE  ContainerInv'
<1>1. /\ stage = "file" /\ damage' = [kind |-> kind, row |-> i] /\ file' = f
      /\ UNCHANGED <<stage, source, blobs, row, sections>> /\ UNCHANGED codecVars
  BY DEF Damage
<1>2. CodecInv'
  BY <1>1, CodecInvStep DEF ContainerInv
<1>3. BlobsInv' /\ CompressInv' /\ ReadInv'
  BY <1>1 DEF ContainerInv, BlobsInv, CompressInv, ReadInv
<1>4. SectionsAsWritten'
  BY <1>1 DEF ContainerInv, SectionsAsWritten
<1>5. FileInv'
  BY <1>1 DEF ContainerInv, FileInv, IsIntact, Early
<1> QED BY <1>1, <1>2, <1>3, <1>4, <1>5 DEF ContainerInv, Early

LEMMA CutShortStep == ContainerInv /\ CutShort => ContainerInv'
<1> SUFFICES ASSUME ContainerInv, NEW n \in 0..file.size - 1,
                    Damage("cut", 0, [file EXCEPT !.size = n,
                                        !.bytes = SubSeq(@, 1, n - TableEnd(Len(file.table)))])
             PROVE  ContainerInv'
  BY DEF CutShort
<1>1. FileInv
  BY DEF Damage, ContainerInv, Early
<1>2. file \in Files /\ IsCut(file) /\ Len(file.table) = Rows /\ TableEnd(Rows) \in Nat
  <2>1. file.table \in [1..Rows -> Records] /\ Rows \in Nat
    BY <1>1, SectionNames DEF FileInv, Files
  <2> QED BY <1>1, <2>1, FunctionIsSeq, TableEnds DEF FileInv
<1>3. PICK m, part, f : /\ m = n - TableEnd(Rows) /\ part = SubSeq(file.bytes, 1, m)
                        /\ f = [file EXCEPT !.size = n, !.bytes = part]
  OBVIOUS
<1>4. file.size \in Nat /\ file.bytes \in Seq(Byte) /\ n \in Nat /\ n < file.size /\ m \in Int
  BY <1>2, <1>3 DEF Files
<1>5. part \in Seq(Byte) /\ Len(part) = (IF 1 <= m THEN m ELSE 0)
  <2>1. CASE 1 <= m
    <3>1. TableEnd(Rows) <= file.size
      BY <1>2, <1>3, <1>4, <2>1
    <3>2. m \in Nat /\ 0 + m <= Len(file.bytes)
      <4>1. file.size = TableEnd(Rows) + Len(file.bytes) /\ Len(file.bytes) \in Nat
        BY <1>2, <1>4, <3>1 DEF IsCut
      <4> QED BY <1>2, <1>3, <1>4, <2>1, <4>1
    <3>3. 0 \in Nat /\ 0 + 1 = 1 /\ 0 + m = m
      BY <3>2
    <3>4. SubSeq(file.bytes, 0 + 1, 0 + m) \in Seq(Byte)
          /\ IsPart(SubSeq(file.bytes, 0 + 1, 0 + m), file.bytes, 0, m)
      BY <1>4, <3>2, <3>3, PartOfSeq
    <3> QED BY <1>3, <2>1, <3>3, <3>4 DEF IsPart
  <2>2. CASE ~(1 <= m)
    <3>1. part = << >>
      BY <1>3, <1>4, <2>2, SubSeqEmpty
    <3> QED BY <2>2, <3>1
  <2> QED BY <2>1, <2>2
<1>6. f \in Files /\ f.size = n /\ f.bytes = part
  BY <1>2, <1>3, <1>4, <1>5 DEF Files
<1>7. IsCut(f)
  BY <1>2, <1>3, <1>4, <1>5, <1>6 DEF IsCut
<1>8. Damage("cut", 0, f)
  BY <1>2, <1>3
<1> QED BY <1>6, <1>7, <1>8, DamageStep

LEMMA ReplaceStep == ContainerInv /\ Replace => ContainerInv'
<1> SUFFICES ASSUME ContainerInv, NEW f, Damage("other", 0, f),
                    f \in {[file EXCEPT !.magic = "other"], [file EXCEPT !.major = 2]}
             PROVE  ContainerInv'
  BY DEF Replace
<1>1. FileInv
  BY DEF Damage, ContainerInv, Early
<1>2. file \in Files /\ IsCut(file)
  BY <1>1 DEF FileInv
<1>3. f \in Files /\ f.bytes = file.bytes /\ f.size = file.size
  <2>1. CASE f = [file EXCEPT !.magic = "other"]
    BY <1>2, <2>1 DEF Files
  <2>2. CASE f = [file EXCEPT !.major = 2]
    BY <1>2, <2>2 DEF Files
  <2> QED BY <2>1, <2>2
<1>4. IsCut(f)
  BY <1>2, <1>3 DEF IsCut
<1> QED BY <1>3, <1>4, DamageStep

(* The records of the table are changed.                                   *)
LEMMA TableStep ==
  ASSUME ContainerInv, NEW kind, NEW i, NEW table \in [1..Rows -> Records],
         Damage(kind, i, [file EXCEPT !.table = table]),
         kind \in {"none", "swap"} =>
           IsIntact /\ \A k \in 1..Rows : \E j \in 1..Rows : table[k] = file.table[j]
  PROVE  ContainerInv'
<1>1. FileInv
  BY DEF Damage, ContainerInv, Early
<1>2. PICK f : f = [file EXCEPT !.table = table]
  OBVIOUS
<1>3. f \in Files /\ IsCut(f) /\ f.bytes = file.bytes /\ f.size = file.size /\ f.table = table
  BY <1>1, <1>2 DEF FileInv, Files, IsCut
<1>4. kind \in {"none", "swap"} => IsOrdered(f, Layout(blobs))
  <2> SUFFICES ASSUME kind \in {"none", "swap"} PROVE IsOrdered(f, Layout(blobs))
    OBVIOUS
  <2>1. IsOrdered(file, Layout(blobs))
    BY <1>1 DEF FileInv
  <2>2. ASSUME NEW k \in 1..Rows PROVE \E j \in 1..Rows : f.table[k] = Layout(blobs).table[j]
    <3>1. PICK j \in 1..Rows : table[k] = file.table[j]
      OBVIOUS
    <3>2. \E l \in 1..Rows : file.table[j] = Layout(blobs).table[l]
      BY <2>1 DEF IsOrdered
    <3> QED BY <1>3, <3>1, <3>2
  <2> QED BY <1>3, <2>1, <2>2 DEF IsOrdered
<1> QED BY <1>2, <1>3, <1>4, DamageStep

LEMMA SwapRowsStep == ContainerInv /\ SwapRows => ContainerInv'
<1> SUFFICES ASSUME ContainerInv, NEW i \in 1..Len(file.table) - 1,
                    Damage("swap", i, [file EXCEPT !.table[i] = file.table[i + 1],
                                                   !.table[i + 1] = file.table[i]])
             PROVE  ContainerInv'
  BY DEF SwapRows
<1>1. FileInv /\ IsIntact
  BY DEF Damage, ContainerInv, Early, IsIntact, Undamaged
<1>2. file \in Files /\ file.table \in [1..Rows -> Records] /\ Len(file.table) = Rows /\ Rows \in Nat
  <2>1. file.table \in [1..Rows -> Records] /\ Rows \in Nat
    BY <1>1, SectionNames DEF FileInv, Files
  <2> QED BY <1>1, <2>1, FunctionIsSeq DEF FileInv
<1>3. i \in 1..Rows /\ i + 1 \in 1..Rows
  BY <1>2
<1>4. PICK table : table = [file.table EXCEPT ![i] = file.table[i + 1], ![i + 1] = file.table[i]]
  OBVIOUS
<1>5. table \in [1..Rows -> Records] /\ \A k \in 1..Rows : \E j \in 1..Rows : table[k] = file.table[j]
  BY <1>2, <1>3, <1>4
<1>6. [file EXCEPT !.table[i] = file.table[i + 1], !.table[i + 1] = file.table[i]]
        = [file EXCEPT !.table = table]
  BY <1>2, <1>4 DEF Files
<1> QED BY <1>1, <1>5, <1>6, TableStep

LEMMA RecordStep ==
  ASSUME ContainerInv, NEW kind, kind \notin {"none", "swap"}, NEW i \in DOMAIN file.table, NEW r,
         FileInv => r \in Records, Damage(kind, i, [file EXCEPT !.table[i] = r])
  PROVE  ContainerInv'
<1>1. FileInv
  BY DEF Damage, ContainerInv, Early
<1>2. file \in Files /\ file.table \in [1..Rows -> Records]
  BY <1>1 DEF FileInv, Files
<1>3. PICK table : table = [file.table EXCEPT ![i] = r]
  OBVIOUS
<1>4. table \in [1..Rows -> Records]
  BY <1>1, <1>2, <1>3
<1>5. [file EXCEPT !.table[i] = r] = [file EXCEPT !.table = table]
  BY <1>2, <1>3 DEF Files
<1> QED BY <1>4, <1>5, TableStep

LEMMA RenameSectionStep == ContainerInv /\ RenameSection => ContainerInv'
<1> SUFFICES ASSUME ContainerInv, NEW i \in DOMAIN file.table, NEW kind \in OlderKinds \cup {"unknown"},
                    Damage("rename", i, [file EXCEPT !.table[i].kind = kind])
             PROVE  ContainerInv'
  BY DEF RenameSection
<1>1. PICK r : r = [file.table[i] EXCEPT !.kind = kind]
  OBVIOUS
<1>2. kind \in Kinds
  <2>1. OlderKinds \subseteq {SectionOrder[k] : k \in 1..10} /\ DOMAIN SectionOrder = 1..10
    BY DEF OlderKinds, SectionOrder
  <2> HIDE DEF SectionOrder
  <2> QED BY <2>1 DEF Kinds, ToSet
<1>3. FileInv => r \in Records
  BY <1>1, <1>2 DEF FileInv, Files, Records
<1>4. [file EXCEPT !.table[i].kind = kind] = [file EXCEPT !.table[i] = r]
  BY <1>1
<1> QED BY <1>3, <1>4, RecordStep

LEMMA RedirectSectionStep == ContainerInv /\ RedirectSection => ContainerInv'
<1> SUFFICES ASSUME ContainerInv, NEW i \in DOMAIN file.table, NEW j \in DOMAIN file.table,
                    Damage("redirect", i,
                           [file EXCEPT !.table[i] = [file.table[j] EXCEPT !.kind = file.table[i].kind]])
             PROVE  ContainerInv'
  BY DEF RedirectSection
<1>1. PICK r : r = [file.table[j] EXCEPT !.kind = file.table[i].kind]
  OBVIOUS
<1>2. ASSUME FileInv PROVE r \in Records
  <2>1. file.table \in [1..Rows -> Records]
    BY <1>2 DEF FileInv, Files
  <2>2. file.table[i] \in Records /\ file.table[j] \in Records
    BY <2>1
  <2>3. PICK p, q : p = file.table[i] /\ q = file.table[j]
    OBVIOUS
  <2> QED BY <1>1, <2>2, <2>3 DEF Records
<1> QED BY <1>1, <1>2, RecordStep

LEMMA MisstateCompressionStep == ContainerInv /\ MisstateCompression => ContainerInv'
<1> SUFFICES ASSUME ContainerInv, NEW i \in DOMAIN file.table,
                    Damage("flag", i, [file EXCEPT !.table[i].compressed = ~@])
             PROVE  ContainerInv'
  BY DEF MisstateCompression
<1>1. PICK r : r = [file.table[i] EXCEPT !.compressed = ~@]
  OBVIOUS
<1>2. FileInv => r \in Records
  BY <1>1 DEF FileInv, Files, Records
<1>3. [file EXCEPT !.table[i].compressed = ~@] = [file EXCEPT !.table[i] = r]
  BY <1>1
<1> QED BY <1>2, <1>3, RecordStep

(* Of a record that the parser takes, it gets the bytes that were stored.  *)
LEMMA StoredBytes ==
  ASSUME ContainerInv, AtRecord, IsInside
  PROVE  /\ row \in 1..Rows /\ Stored \in Seq(Byte) /\ Record \in Records
         /\ IsIntact =>
              LET bytes == SectionBytes(source, Record.kind)
              IN /\ Record.uncompressed = Len(bytes) /\ bytes \in Seq(Byte)
                 /\ IF Record.compressed THEN Encodes("packets", Stored, bytes, Len(bytes))
                                         ELSE Stored = bytes
<1>1. /\ stage = "offsets" /\ FileInv /\ TableEnd(Rows) <= file.size /\ row \in Nat \ {0}
      /\ row <= Len(file.table) /\ source \in OlderScenes
  BY DEF AtRecord, ContainerInv, Early, ReadInv
<1>2. /\ file \in Files /\ file.table \in [1..Rows -> Records] /\ Len(file.table) = Rows
      /\ TableEnd(Rows) \in Nat /\ Rows \in Nat
  <2>1. file.table \in [1..Rows -> Records] /\ Rows \in Nat
    BY <1>1, SectionNames DEF FileInv, Files
  <2> QED BY <1>1, <2>1, FunctionIsSeq, TableEnds DEF FileInv
<1>3. row \in 1..Rows /\ Record \in Records
  BY <1>1, <1>2 DEF Record
<1>4. PICK r, m, all : r = Record /\ m = r.offset - TableEnd(Rows) /\ all = file.bytes
  OBVIOUS
<1>5. /\ r.offset \in Nat /\ r.size \in Nat /\ r.offset >= TableEnd(Rows) /\ r.offset <= file.size
      /\ r.size <= file.size - r.offset /\ r.kind \in Kinds /\ r.compressed \in BOOLEAN
  BY <1>3, <1>4 DEF IsInside, Records
<1>6. all \in Seq(Byte) /\ file.size = TableEnd(Rows) + Len(all) /\ Len(all) \in Nat
  <2>1. all \in Seq(Byte)
    BY <1>2, <1>4 DEF Files
  <2>2. file.size = TableEnd(Rows) + Len(all)
    BY <1>1, <1>4 DEF FileInv, IsCut
  <2> QED BY <2>1, <2>2
<1>7. m \in Nat /\ m + r.size <= Len(all)
  BY <1>2, <1>4, <1>5, <1>6
<1>8. Stored = SubSeq(all, m + 1, m + r.size)
  BY <1>2, <1>4 DEF Stored, Slice
<1>9. Stored \in Seq(Byte)
  BY <1>5, <1>6, <1>7, <1>8, PartOfSeq
<1>10. ASSUME IsIntact
       PROVE  /\ Record.uncompressed = Len(SectionBytes(source, Record.kind))
              /\ SectionBytes(source, Record.kind) \in Seq(Byte)
              /\ IF Record.compressed
                   THEN Encodes("packets", Stored, SectionBytes(source, Record.kind),
                                Len(SectionBytes(source, Record.kind)))
                   ELSE Stored = SectionBytes(source, Record.kind)
  <2>1. IsOrdered(file, Layout(blobs)) /\ Len(blobs) = Rows /\ BlobsInv
    BY <1>1, <1>10 DEF FileInv, ContainerInv
  <2>2. PICK j \in 1..Rows : Record = Layout(blobs).table[j]
    BY <1>3, <2>1 DEF IsOrdered, Record
  <2>3. PICK blob : blob = blobs[j]
    OBVIOUS
  <2>4. /\ InFile(Layout(blobs), blobs, j) /\ r.size = Len(blob.bytes) /\ r.kind = blob.kind
        /\ r.compressed = blob.compressed /\ r.uncompressed = blob.uncompressed
    BY <1>4, <2>1, <2>2, <2>3, FilesAreWritten
  <2>5. Slice(all, m, r.size) = blob.bytes
    BY <1>4, <2>1, <2>2, <2>3, <2>4 DEF InFile, IsOrdered
  <2>6. Stored = blob.bytes
    BY <1>8, <2>5 DEF Slice
  <2>7. AsStored(source, blob, SectionOrder[j])
    BY <2>1, <2>3 DEF BlobsInv
  <2>8. SectionBytes(source, r.kind) \in Seq(Byte)
    BY <1>1, SectionsAreBytes
  <2> QED BY <1>4, <2>4, <2>6, <2>7, <2>8 DEF AsStored
<1> QED BY <1>3, <1>9, <1>10

(* What has been read of a section is entered.                             *)
LEMMA TakenMore ==
  ASSUME ContainerInv, stage \in {"offsets", "unpack"}, stage' = "offsets", row \in 1..Rows,
         NEW bytes, TakeSection(bytes), IsIntact => bytes = SectionBytes(source, Record.kind),
         UNCHANGED <<source, blobs, file, damage>>, UNCHANGED codecVars
  PROVE  ContainerInv'
<1>1. CodecInv'
  BY CodecInvStep DEF ContainerInv
<1>2. row' \in 1..Rows + 1 /\ row' \in Nat \ {0} /\ row' \in 0..Rows + 1
  BY SectionNames DEF TakeSection
<1>3. BlobsInv' /\ CompressInv' /\ FileInv' /\ ReadInv'
  BY <1>2 DEF ContainerInv, BlobsInv, CompressInv, FileInv, ReadInv, IsIntact, Early
<1>4. SectionsAsWritten'
  <2> SUFFICES ASSUME IsIntact, NEW kind \in DOMAIN sections'
               PROVE  sections'[kind] = SectionBytes(source, kind)
    BY DEF SectionsAsWritten, IsIntact
  <2>1. sections' = [k \in DOMAIN sections \cup {Record.kind} |-> IF k = Record.kind THEN bytes ELSE sections[k]]
    BY DEF TakeSection
  <2>2. kind \in DOMAIN sections \/ kind = Record.kind
    BY <2>1
  <2> QED BY <2>1, <2>2 DEF ContainerInv, SectionsAsWritten
<1> QED BY <1>1, <1>2, <1>3, <1>4 DEF ContainerInv, Early

LEMMA TakeAsIsStep == ContainerInv /\ TakeAsIs => ContainerInv'
<1> SUFFICES ASSUME ContainerInv, TakeAsIs PROVE ContainerInv'
  OBVIOUS
<1>1. /\ AtRecord /\ IsInside /\ ~Record.compressed /\ stage = "offsets" /\ stage' = "offsets"
      /\ TakeSection(Stored) /\ UNCHANGED <<source, blobs, file, damage>> /\ UNCHANGED codecVars
  BY DEF TakeAsIs, AtRecord
<1>2. row \in 1..Rows /\ (IsIntact => Stored = SectionBytes(source, Record.kind))
  BY <1>1, StoredBytes
<1> QED BY <1>1, <1>2, TakenMore

LEMMA BeginToUnpackStep == ContainerInv /\ BeginToUnpack => ContainerInv'
<1> SUFFICES ASSUME ContainerInv, BeginToUnpack PROVE ContainerInv'
  OBVIOUS
<1>1. PICK whole, text, bytes, size :
        /\ whole = IsIntact /\ text = SectionBytes(source, Record.kind)
        /\ bytes = Stored /\ size = Record.uncompressed
  OBVIOUS
<1>2. /\ AtRecord /\ IsInside /\ Record.compressed /\ stage = "offsets" /\ stage' = "unpack"
      /\ codec' = "packets" /\ phase' = "decode" /\ at' = 0
      /\ stream' = (IF whole THEN "whole" ELSE "foreign")
      /\ input' = (IF whole THEN text ELSE << >>)
      /\ encoded' = bytes /\ decoded' = << >> /\ expected' = size
      /\ UNCHANGED <<source, blobs, file, damage, row, sections>>
  BY <1>1 DEF BeginToUnpack, AtRecord
<1>3. /\ row \in 1..Rows /\ bytes \in Seq(Byte) /\ Record \in Records /\ size \in Nat
      /\ whole => size = Len(text) /\ text \in Seq(Byte) /\ Encodes("packets", bytes, text, Len(text))
  <2>1. /\ row \in 1..Rows /\ Stored \in Seq(Byte) /\ Record \in Records
        /\ IsIntact => /\ Record.uncompressed = Len(text) /\ text \in Seq(Byte)
                       /\ Encodes("packets", Stored, text, Len(text))
    BY <1>1, <1>2, StoredBytes
  <2> QED BY <1>1, <2>1 DEF Records
<1>4. CodecVarsTyped'
  <2>1. << >> \in Seq(Byte)
    OBVIOUS
  <2> QED BY <1>2, <1>3, <2>1 DEF CodecVarsTyped
<1>5. whole => Decodes("packets", bytes, text, 0, << >>, TRUE)
  <2> SUFFICES ASSUME whole PROVE Decodes("packets", bytes, text, 0, << >>, TRUE)
    OBVIOUS
  <2>1. PICK n : n = Len(bytes)
    OBVIOUS
  <2>2. bytes \in Seq(Nat) /\ n \in 0..Len(bytes) /\ SubSeq(bytes, 1, n) = bytes
    BY <1>3, <2>1, BytesAreNumbers
  <2>3. Decodes("packets", SubSeq(bytes, 1, n), text, 0, << >>, n = Len(bytes))
    BY <1>3, <2>2, Bytes, CutStream
  <2>4. (n = Len(bytes)) = TRUE
    BY <2>1
  <2> QED BY <2>2, <2>3, <2>4
<1>6. CodecInv'
  <2>1. CASE whole
    <3>1. (stream' = "whole") = TRUE
      BY <1>2, <2>1
    <3>2. Decodes(codec', encoded', input', at', decoded', stream' = "whole")
      BY <1>2, <1>5, <2>1, <3>1
    <3> QED BY <1>2, <1>3, <1>4, <2>1, <3>2 DEF CodecInv
  <2>2. CASE ~whole
    BY <1>2, <1>4, <2>2 DEF CodecInv
  <2> QED BY <2>1, <2>2
<1>7. BlobsInv' /\ CompressInv' /\ FileInv' /\ SectionsAsWritten'
  BY <1>2 DEF ContainerInv, BlobsInv, CompressInv, FileInv, SectionsAsWritten, IsIntact, Early
<1>8. ReadInv'
  <2>1. Record' = Record /\ IsIntact' = IsIntact
    BY <1>2 DEF Record, IsIntact
  <2>2. TableEnd(Rows) <= file.size /\ row \in Nat \ {0} /\ row <= Rows
    BY <1>2, <1>3, SectionNames DEF ContainerInv, ReadInv
  <2> QED BY <1>1, <1>2, <2>1, <2>2 DEF ReadInv
<1> QED BY <1>2, <1>6, <1>7, <1>8 DEF ContainerInv, Early

LEMMA UnpackStep == ContainerInv /\ Unpack => ContainerInv'
<1> SUFFICES ASSUME ContainerInv, Unpack PROVE ContainerInv'
  OBVIOUS
<1>1. /\ stage = "unpack" /\ UNCHANGED <<stage, source, blobs, file, damage, row, sections>>
      /\ DecodeNextPacket \/ FinishDecoding \/ RefuseSize
  BY DEF Unpack, containerVars
<1>2. CodecInv'
  BY <1>1, DecodePacketStep, LastDecodingStep DEF ContainerInv
<1>3. UNCHANGED <<input, codec, stream>> /\ phase' \in {"decode", "done", "failed"}
  BY <1>1 DEF DecodeNextPacket, DecodePacket, FinishDecoding, RefuseSize, FailOn, Decoding
<1>4. BlobsInv' /\ CompressInv' /\ FileInv' /\ SectionsAsWritten'
  BY <1>1 DEF ContainerInv, BlobsInv, CompressInv, FileInv, SectionsAsWritten, IsIntact, Early
<1>5. ReadInv'
  BY <1>1, <1>3 DEF ContainerInv, ReadInv, Record, IsIntact
<1> QED BY <1>1, <1>2, <1>4, <1>5 DEF ContainerInv, Early

LEMMA TakeUnpackedStep == ContainerInv /\ TakeUnpacked => ContainerInv'
<1> SUFFICES ASSUME ContainerInv, TakeUnpacked PROVE ContainerInv'
  OBVIOUS
<1>1. /\ stage = "unpack" /\ phase = "done" /\ stage' = "offsets" /\ TakeSection(decoded)
      /\ UNCHANGED <<source, blobs, file, damage>> /\ UNCHANGED codecVars
  BY DEF TakeUnpacked
<1>2. row \in 1..Rows
  BY <1>1, SectionNames DEF ContainerInv, ReadInv
<1>3. IsIntact => decoded = SectionBytes(source, Record.kind)
  BY <1>1, CodecInvImplies DEF ContainerInv, ReadInv, NeverWrongBytes
<1> QED BY <1>1, <1>2, <1>3, TakenMore

LEMMA OpenFileStep == ContainerInv /\ OpenFile => ContainerInv'
<1> SUFFICES ASSUME ContainerInv, OpenFile PROVE ContainerInv'
  OBVIOUS
<1>1. /\ stage = "file" /\ HasGoodTable /\ stage' = "offsets" /\ row' = 1
      /\ UNCHANGED <<source, blobs, file, damage, sections>> /\ UNCHANGED codecVars
  BY DEF OpenFile
<1>2. CodecInv'
  BY <1>1, CodecInvStep DEF ContainerInv
<1>3. TableEnd(Rows) <= file.size /\ 1 \in 0..Rows + 1
  <2>1. file.table \in [1..Rows -> Records] /\ Rows \in Nat
    BY <1>1, SectionNames DEF ContainerInv, Early, FileInv, Files
  <2>2. Len(file.table) = Rows
    BY <2>1, FunctionIsSeq
  <2> QED BY <1>1, <2>1, <2>2 DEF HasGoodTable
<1>4. BlobsInv' /\ CompressInv' /\ FileInv' /\ ReadInv' /\ SectionsAsWritten'
  BY <1>1, <1>3 DEF ContainerInv, BlobsInv, CompressInv, FileInv, ReadInv, SectionsAsWritten, IsIntact, Early
<1> QED BY <1>1, <1>2, <1>3, <1>4 DEF ContainerInv, Early

(* Nothing of what matters here is changed by what follows.                *)
LEMMA LaterStep ==
  ASSUME ContainerInv, stage \notin Early, stage' \in {"resolve", "animations", "answered"},
         UNCHANGED <<source, blobs, file, damage, row, sections>>, UNCHANGED codecVars
  PROVE  ContainerInv'
<1>1. CodecInv'
  BY CodecInvStep DEF ContainerInv
<1>2. BlobsInv' /\ CompressInv' /\ FileInv' /\ ReadInv' /\ SectionsAsWritten'
  BY DEF ContainerInv, BlobsInv, CompressInv, FileInv, ReadInv, SectionsAsWritten, IsIntact, Early
<1> QED BY <1>1, <1>2 DEF ContainerInv, Early

LEMMA ContainerInvStep == ContainerInv /\ [Next]_vars => ContainerInv'
<1>1. ASSUME ContainerInv, UNCHANGED vars PROVE ContainerInv'
  <2>1. CodecInv'
    BY <1>1, CodecInvStep DEF vars, ContainerInv
  <2> QED BY <1>1, <2>1 DEF vars, containerVars, ContainerInv, codecVars, BlobsInv, CompressInv, FileInv,
        ReadInv, SectionsAsWritten, IsIntact, Early, NextSection, Record
<1>2. ASSUME ContainerInv, RefuseFile \/ RefuseRecord \/ RefuseUnpacked \/ RefuseObjects \/ RefuseReference
                             \/ RefuseAnimations \/ CreateObjects \/ Resolve \/ LoadAnimations
      PROVE  ContainerInv'
  BY <1>2, LaterStep DEF RefuseFile, RefuseRecord, RefuseUnpacked, RefuseObjects, RefuseReference,
       RefuseAnimations, CreateObjects, Resolve, LoadAnimations, Refuse, AtRecord, AfterOffsets, Early
<1> QED BY <1>1, <1>2, UseCodecStep, StoreAsIsStep, TryToCompressStep, CompressStep, StoreSmallerStep,
           FinishFileStep, CutShortStep, ReplaceStep, SwapRowsStep, RenameSectionStep, RedirectSectionStep,
           MisstateCompressionStep, OpenFileStep, TakeAsIsStep, BeginToUnpackStep, UnpackStep,
           TakeUnpackedStep DEF Next

LEMMA InitContainerInv == Init => ContainerInv
<1> SUFFICES ASSUME Init PROVE ContainerInv
  OBVIOUS
<1>1. /\ stage \in {"codec", "serialize"} /\ (stage = "serialize" => source \in OlderScenes)
      /\ blobs = << >> /\ file = NoFile /\ damage = Undamaged /\ row = 0 /\ sections = << >>
  BY DEF Init
<1>2. CodecInv
  <2>1. CASE InitCodec
    BY <2>1, InitCodecInv
  <2>2. CASE /\ codec = "packets" /\ phase = "idle" /\ stream = "whole" /\ at = 0 /\ expected = 0
             /\ input = << >> /\ encoded = << >> /\ decoded = << >>
    <3>1. << >> \in Seq(Byte) /\ Len(<< >>) = 0
      OBVIOUS
    <3> QED BY <2>2, <3>1 DEF CodecInv, CodecVarsTyped
  <2> QED BY <2>1, <2>2 DEF Init
<1>3. BlobsInv
  <2>1. << >> \in Seq(Blobs) /\ Len(<< >>) = 0
    OBVIOUS
  <2> QED BY <1>1, <2>1, SectionNames DEF BlobsInv
<1>4. CompressInv /\ ReadInv /\ SectionsAsWritten
  <2>1. DOMAIN << >> = {}
    OBVIOUS
  <2> QED BY <1>1, <2>1 DEF CompressInv, ReadInv, SectionsAsWritten
<1> QED BY <1>1, <1>2, <1>3, <1>4, SectionNames DEF ContainerInv, Early

LEMMA ContainerInvImplies == ContainerInv => TypeOK /\ NeverWrongBytes /\ SectionsAsWritten
<1> SUFFICES ASSUME ContainerInv PROVE TypeOK /\ NeverWrongBytes /\ SectionsAsWritten
  OBVIOUS
<1>1. CodecTypeOK /\ NeverWrongBytes
  BY CodecInvImplies DEF ContainerInv
<1>2. ASSUME NEW blob \in ToSet(blobs) PROVE blob.bytes \in Seq(Byte)
  <2>1. blob \in Blobs
    BY DEF ContainerInv, BlobsInv, ToSet
  <2> QED BY <2>1 DEF Blobs
<1>3. row <= Len(file.table) + 1 /\ file.size >= Len(file.bytes)
  <2>1. CASE stage \in Early
    <3>1. row = 0 /\ file.table = << >> /\ file.bytes = << >> /\ file.size = 0
      BY <2>1 DEF ContainerInv, NoFile
    <3> QED BY <3>1
  <2>2. CASE stage \notin Early
    <3>1. file.table \in [1..Rows -> Records] /\ Rows \in Nat /\ IsCut(file)
      BY <2>2, SectionNames DEF ContainerInv, FileInv, Files
    <3>2. Len(file.table) = Rows
      BY <3>1, FunctionIsSeq
    <3> QED BY <3>1, <3>2 DEF ContainerInv, IsCut
  <2> QED BY <2>1, <2>2
<1> QED BY <1>1, <1>2, <1>3 DEF TypeOK, ContainerInv, BlobsInv, Rows

(***************************************************************************)
(* The theorems about files.                                               *)
(***************************************************************************)

THEOREM ContainerInvHolds == Spec => []ContainerInv
<1> QED BY InitContainerInv, ContainerInvStep, PTL DEF Spec

(* Whatever is done to a file, the parser stays inside it.                 *)
THEOREM ContainerTypeCorrect == Spec => []TypeOK
<1> QED BY ContainerInvHolds, ContainerInvImplies, PTL

(* Neither decoder nor parser gives anybody what was not written.          *)
THEOREM SectionsReadBack == Spec => []ReadAsWritten
<1> QED BY ContainerInvHolds, ContainerInvImplies, PTL DEF ReadAsWritten
=============================================================================
