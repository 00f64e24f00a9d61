------------------------------ MODULE LogsProofs -------------------------------
(* What holds of Logs for any interval, threshold, clock, number of records   *)
(* and of failures. A file is numbered: its halves increase, and the second   *)
(* of a record comes right after the first, if it comes. No half is in two    *)
(* files, and until local time is put back the files follow each other as     *)
(* their names do. All the reader has shown comes from behind its position,   *)
(* or from a file it is done with; and of those it has shown all that is not  *)
(* damaged. Of gzip it gives no record any more once it gave an item unset.   *)
EXTENDS Logs, SequenceTheorems, TLAPS

\* The halves of a file.
Numbered ==
  \A f \in DOMAIN files : \A p \in 1 .. Len(files[f]) :
    /\ files[f][p] <= 2 * written
    /\ files[f][p] % 2 = 0 => p > 1 /\ files[f][p - 1] = files[f][p] - 1
    /\ \A q \in 1 .. p - 1 : files[f][q] < files[f][p]

\* The files, one to another.
Apart ==
  \A f, g \in DOMAIN files :
    f # g => \A p \in 1 .. Len(files[f]), q \in 1 .. Len(files[g]) :
               /\ files[f][p] # files[g][q]
               /\ behind = 0 /\ f[1] < g[1] => files[f][p] < files[g][q]

\* The names of the files, and the file that is written.
Named ==
  /\ \A f \in DOMAIN files :
       /\ f = <<f[1]>> /\ f[1] \in Int
       /\ kind # "rotating" => f = <<0>>
       /\ behind = 0 /\ kind = "rotating" => f[1] <= now
  /\ writer # Absent =>
       /\ writer.bytes <= 2 * written
       /\ writer.at # Closed /\ behind = 0 => \A f \in DOMAIN files : f[1] <= writer.at[1]

FilesInv == TypeOK /\ Numbered /\ Apart /\ Named

-----------------------------------------------------------------------------
(* Numbers, and pairs of halves.                                             *)

LEMMA Parity ==
  /\ \A n \in Int : n % 2 \in {0, 1} /\ (n % 2 = 0 <=> (n + 1) % 2 = 1) /\ (n % 2 = (n + 2) % 2)
  /\ \A n \in Int : (2 * n) % 2 = 0 /\ (2 * n + 1) % 2 = 1
  OBVIOUS

\* Two halves in a row are a pair.
LEMMA PairAt ==
  ASSUME NEW S, NEW s \in Seq(S), NEW p \in 1 .. Len(s) - 1
  PROVE  SubSeq(s, p, p + 1) = <<s[p], s[p + 1]>> /\ s[p] \in S /\ s[p + 1] \in S
<1> DEFINE a == SubSeq(s, p, p + 1)
           b == <<s[p], s[p + 1]>>
<1>1. Len(s) \in Nat /\ p \in Int /\ p + 1 \in Int
  BY LenProperties
<1>2. p \in 1 .. Len(s) /\ p + 1 \in 1 .. Len(s)
  BY <1>1
<1>3. s[p] \in S /\ s[p + 1] \in S
  BY <1>2, ElementOfSeq
<1>4. \A i \in p .. p + 1 : s[i] \in S
  BY <1>1, <1>3
<1>5. a \in Seq(S) /\ Len(a) = 2 /\ a[1] = s[p] /\ a[2] = s[p + 1]
  <2>1. /\ a \in Seq(S)
        /\ Len(a) = IF p <= p + 1 THEN (p + 1) - p + 1 ELSE 0
        /\ \A i \in 1 .. (p + 1) - p + 1 : a[i] = s[p + i - 1]
    BY <1>1, <1>4, SubSeqProperties
  <2> HIDE DEF a
  <2> QED BY <1>1, <2>1
<1>6. b \in Seq(S) /\ Len(b) = 2 /\ b[1] = s[p] /\ b[2] = s[p + 1]
  BY <1>3
<1> HIDE DEF a, b
<1>7. a = b
  <2>1. ASSUME NEW i \in 1 .. Len(a) PROVE a[i] = b[i]
    BY <1>5, <1>6
  <2> QED BY <1>5, <1>6, <2>1, SeqEqual
<1> QED BY <1>3, <1>7 DEF a, b

-----------------------------------------------------------------------------
(* What a step of the writer does to the files: k halves go to the end of w, *)
(* and there may be a new one.                                               *)

Grown(w, k) ==
  /\ DOMAIN files \subseteq DOMAIN files'
  /\ \A f \in DOMAIN files' \ DOMAIN files : files'[f] = <<>>
  /\ \A f \in DOMAIN files \ {w} : files'[f] = files[f]
  /\ k > 0 => w \in DOMAIN files
  /\ w \in DOMAIN files =>
       /\ files'[w] \in Seq(Half) /\ Len(files'[w]) = Len(files[w]) + k
       /\ \A p \in 1 .. Len(files[w]) : files'[w][p] = files[w][p]
       /\ \A p \in 1 .. k : files'[w][Len(files[w]) + p] = 2 * written + p

Numbers(k) == k \in 0 .. 2 /\ written' \in Nat /\ IF k = 0 THEN written' >= written ELSE written' = written + 1

LEMMA FilesType ==
  ASSUME TypeOK, NEW f \in DOMAIN files
  PROVE  /\ files[f] \in Seq(Half) /\ Len(files[f]) \in Nat
         /\ \A p \in 1 .. Len(files[f]) : files[f][p] \in Half /\ files[f][p] \in Nat
         /\ written \in Nat
<1>1. files[f] \in Seq(Half) /\ written \in Nat
  BY BoundsAssumption DEF TypeOK
<1>2. \A p \in 1 .. Len(files[f]) : files[f][p] \in Half
  BY <1>1, ElementOfSeq
<1>3. \A x \in Half : x \in Nat
  BY BoundsAssumption DEF Half
<1> QED BY <1>1, <1>2, <1>3, LenProperties

\* The halves of the files afterwards: those there were, and the new ones.
LEMMA GrownHalf ==
  ASSUME TypeOK, NEW w, NEW k \in 0 .. 2, Grown(w, k),
         NEW f \in DOMAIN files', NEW p \in 1 .. Len(files'[f])
  PROVE  \/ f \in DOMAIN files /\ p \in 1 .. Len(files[f]) /\ files'[f][p] = files[f][p]
         \/ /\ f = w /\ f \in DOMAIN files /\ p - Len(files[f]) \in 1 .. k
            /\ files'[f][p] = 2 * written + (p - Len(files[f]))
<1>1. CASE f \notin DOMAIN files
  <2>1. Len(files'[f]) = 0
    BY <1>1 DEF Grown
  <2> QED BY <2>1
<1>2. CASE f \in DOMAIN files /\ f # w
  BY <1>2 DEF Grown
<1>3. CASE f \in DOMAIN files /\ f = w
  <2> DEFINE n == Len(files[f])
  <2>1. n \in Nat
    BY <1>3, FilesType
  <2>2. Len(files'[f]) = n + k /\ (\A i \in 1 .. n : files'[f][i] = files[f][i])
        /\ \A i \in 1 .. k : files'[f][n + i] = 2 * written + i
    BY <1>3 DEF Grown
  <2> HIDE DEF n
  <2>3. CASE p <= n
    BY <1>3, <2>1, <2>2, <2>3 DEF n
  <2>4. CASE p > n
    <3>1. p - n \in 1 .. k /\ n + (p - n) = p
      BY <2>1, <2>2, <2>4
    <3> QED BY <1>3, <2>2, <3>1 DEF n
  <2> QED BY <2>1, <2>3, <2>4
<1> QED BY <1>1, <1>2, <1>3

LEMMA NumberedKept ==
  ASSUME TypeOK, Numbered, NEW w, NEW k, Numbers(k), Grown(w, k)
  PROVE  Numbered'
<1>1. k \in 0 .. 2 /\ written' \in Nat /\ written \in Nat /\ (k = 0 \/ written' = written + 1) /\ written' >= written
  BY BoundsAssumption DEF Numbers, TypeOK
<1>2. ASSUME NEW f \in DOMAIN files', NEW p \in 1 .. Len(files'[f])
      PROVE  /\ files'[f][p] <= 2 * written'
             /\ files'[f][p] % 2 = 0 => p > 1 /\ files'[f][p - 1] = files'[f][p] - 1
             /\ \A q \in 1 .. p - 1 : files'[f][q] < files'[f][p]
  <2>1. CASE f \in DOMAIN files /\ p \in 1 .. Len(files[f]) /\ files'[f][p] = files[f][p]
    <3>1. Len(files[f]) \in Nat /\ files[f][p] \in Nat
      BY <2>1, FilesType
    <3>2. \A q \in 1 .. p - 1 : files'[f][q] = files[f][q]
      BY <2>1, <3>1 DEF Grown
    <3>3. /\ files[f][p] <= 2 * written
          /\ files[f][p] % 2 = 0 => p > 1 /\ files[f][p - 1] = files[f][p] - 1
          /\ \A q \in 1 .. p - 1 : files[f][q] < files[f][p]
      BY <2>1 DEF Numbered
    <3>4. files'[f][p] <= 2 * written'
      BY <1>1, <2>1, <3>1, <3>3
    <3>5. p > 1 => p - 1 \in 1 .. p - 1
      BY <2>1, <3>1
    <3> QED BY <2>1, <3>2, <3>3, <3>4, <3>5
  <2>2. CASE f = w /\ f \in DOMAIN files /\ p - Len(files[f]) \in 1 .. k
             /\ files'[f][p] = 2 * written + (p - Len(files[f]))
    <3> DEFINE n == Len(files[f])
    <3>1. n \in Nat /\ p \in Int
      BY <2>2, FilesType
    <3>2. k > 0 /\ written' = written + 1
      BY <1>1, <2>2
    <3>3. files'[f][p] <= 2 * written'
      BY <1>1, <2>2, <3>1, <3>2
    <3>4. ASSUME NEW q \in 1 .. p - 1
          PROVE  files'[f][q] < files'[f][p]
      <4>1. q \in 1 .. Len(files'[f])
        <5>1. Len(files'[f]) = n + k
          BY <2>2 DEF Grown
        <5> QED BY <1>1, <3>1, <5>1
      <4>2. CASE q \in 1 .. Len(files[f]) /\ files'[f][q] = files[f][q]
        <5>1. files[f][q] <= 2 * written /\ files[f][q] \in Nat
          BY <2>2, <4>2, FilesType DEF Numbered
        <5> QED BY <1>1, <2>2, <3>1, <4>2, <5>1
      <4>3. CASE q - Len(files[f]) \in 1 .. k /\ files'[f][q] = 2 * written + (q - Len(files[f]))
        BY <1>1, <2>2, <3>1, <4>3
      <4> QED BY <1>1, <4>1, <4>2, <4>3, GrownHalf
    <3>5. ASSUME files'[f][p] % 2 = 0
          PROVE  p > 1 /\ files'[f][p - 1] = files'[f][p] - 1
      <4>1. p - n = 2
        <5>1. p - n \in {1, 2}
          BY <1>1, <2>2
        <5>2. (2 * written + 1) % 2 = 1
          BY <1>1, Parity
        <5> QED BY <2>2, <3>5, <5>1, <5>2
      <4>2. k = 2 /\ p = n + 2
        BY <1>1, <2>2, <3>1, <4>1
      <4>3. files'[f][n + 1] = 2 * written + 1
        BY <2>2, <4>2 DEF Grown
      <4>4. p - 1 = n + 1
        BY <3>1, <4>2
      <4> QED BY <1>1, <2>2, <3>1, <4>1, <4>3, <4>4
    <3> QED BY <3>3, <3>4, <3>5
  <2> QED BY <1>1, <2>1, <2>2, GrownHalf
<1> QED BY <1>2 DEF Numbered

LEMMA ApartKept ==
  ASSUME TypeOK, Numbered, Apart, NEW w, NEW k, Numbers(k), Grown(w, k), behind' = 0 => behind = 0,
         behind = 0 /\ k > 0 => \A f \in DOMAIN files : f[1] \in Int /\ w[1] \in Int /\ f[1] <= w[1]
  PROVE  Apart'
<1>1. k \in 0 .. 2 /\ written \in Nat
  BY BoundsAssumption DEF Numbers, TypeOK
<1>2. ASSUME NEW f \in DOMAIN files', NEW g \in DOMAIN files', f # g,
             NEW p \in 1 .. Len(files'[f]), NEW q \in 1 .. Len(files'[g])
      PROVE  /\ files'[f][p] # files'[g][q]
             /\ behind' = 0 /\ f[1] < g[1] => files'[f][p] < files'[g][q]
  <2>1. CASE f # w /\ g # w
    <3>1. f \in DOMAIN files /\ g \in DOMAIN files /\ files'[f] = files[f] /\ files'[g] = files[g]
      BY <1>1, <2>1, GrownHalf DEF Grown
    <3> QED BY <1>2, <3>1 DEF Apart
  <2>2. CASE f = w
    <3>1. g # w /\ g \in DOMAIN files /\ f \in DOMAIN files /\ files'[g] = files[g]
      BY <1>1, <1>2, <2>2, GrownHalf DEF Grown
    <3>2. files[g][q] \in Nat /\ files[g][q] <= 2 * written
      BY <3>1, FilesType DEF Numbered
    <3>3. CASE p \in 1 .. Len(files[f]) /\ files'[f][p] = files[f][p]
      BY <1>2, <3>1, <3>3 DEF Apart
    <3>4. CASE p - Len(files[f]) \in 1 .. k /\ files'[f][p] = 2 * written + (p - Len(files[f]))
      <4>1. files'[f][p] > 2 * written /\ files'[f][p] \in Nat /\ k > 0
        <5> DEFINE d == p - Len(files[f])
        <5>1. d \in 1 .. k /\ files'[f][p] = 2 * written + d
          BY <3>4
        <5> HIDE DEF d
        <5> QED BY <1>1, <5>1
      <4>2. behind' = 0 => ~ (f[1] < g[1])
        BY <2>2, <3>1, <4>1
      <4> QED BY <1>1, <3>1, <3>2, <4>1, <4>2
    <3> QED BY <1>1, <3>3, <3>4, GrownHalf
  <2>3. CASE g = w
    <3>1. f # w /\ f \in DOMAIN files /\ g \in DOMAIN files /\ files'[f] = files[f]
      BY <1>1, <1>2, <2>3, GrownHalf DEF Grown
    <3>2. files[f][p] \in Nat /\ files[f][p] <= 2 * written
      BY <3>1, FilesType DEF Numbered
    <3>3. CASE q \in 1 .. Len(files[g]) /\ files'[g][q] = files[g][q]
      BY <1>2, <3>1, <3>3 DEF Apart
    <3>4. CASE q - Len(files[g]) \in 1 .. k /\ files'[g][q] = 2 * written + (q - Len(files[g]))
      <4>1. files'[g][q] > 2 * written /\ files'[g][q] \in Nat
        <5> DEFINE d == q - Len(files[g])
        <5>1. d \in 1 .. k /\ files'[g][q] = 2 * written + d
          BY <3>4
        <5> HIDE DEF d
        <5> QED BY <1>1, <5>1
      <4> QED BY <1>1, <3>1, <3>2, <4>1
    <3> QED BY <1>1, <3>3, <3>4, GrownHalf
  <2> QED BY <2>1, <2>2, <2>3
<1> QED BY <1>2 DEF Apart

\* The name of a file, and what it is when it was not made yet.
LEMMA NameType ==
  ASSUME TypeOK
  PROVE  /\ Name = <<Name[1]>> /\ Name[1] \in Int /\ Name \in Seq(Int)
         /\ kind = "rotating" => Name[1] = now - behind
         /\ kind # "rotating" => Name = <<0>>
<1>1. now \in Int /\ behind \in Int
  BY BoundsAssumption, IntervalAssumption DEF TypeOK
<1> QED BY <1>1 DEF Name

LEMMA CreatedFiles ==
  ASSUME NEW all, NEW name
  PROVE  /\ DOMAIN Created(all, name) = DOMAIN all \union {name}
         /\ \A f \in DOMAIN all : Created(all, name)[f] = all[f]
         /\ \A f \in DOMAIN Created(all, name) \ DOMAIN all : Created(all, name)[f] = <<>>
  BY DEF Created

LEMMA PutFiles ==
  ASSUME TypeOK, NEW w \in DOMAIN files, NEW h \in Seq(Half)
  PROVE  /\ DOMAIN Put(w, h) = DOMAIN files
         /\ \A f \in DOMAIN files \ {w} : Put(w, h)[f] = files[f]
         /\ Put(w, h)[w] = files[w] \o h
         /\ files[w] \o h \in Seq(Half) /\ Len(files[w] \o h) = Len(files[w]) + Len(h)
         /\ \A p \in 1 .. Len(files[w]) : (files[w] \o h)[p] = files[w][p]
         /\ \A p \in 1 .. Len(h) : (files[w] \o h)[Len(files[w]) + p] = h[p]
<1> DEFINE a == files[w]
           j == a \o h
<1>1. a \in Seq(Half) /\ Len(a) \in Nat /\ Len(h) \in Nat
  BY FilesType, LenProperties
<1>2. DOMAIN Put(w, h) = DOMAIN files /\ (\A f \in DOMAIN files \ {w} : Put(w, h)[f] = files[f])
      /\ Put(w, h)[w] = j
  BY DEF Put
<1> HIDE DEF a
<1>3. j \in Seq(Half) /\ Len(j) = Len(a) + Len(h)
      /\ \A i \in 1 .. Len(a) + Len(h) : j[i] = IF i <= Len(a) THEN a[i] ELSE h[i - Len(a)]
  BY <1>1, ConcatProperties
<1> HIDE DEF j
<1>4. \A p \in 1 .. Len(a) : j[p] = a[p]
  BY <1>1, <1>3
<1>5. ASSUME NEW p \in 1 .. Len(h) PROVE j[Len(a) + p] = h[p]
  <2>1. Len(a) + p \in 1 .. Len(a) + Len(h) /\ ~ (Len(a) + p <= Len(a)) /\ (Len(a) + p) - Len(a) = p
    BY <1>1
  <2> QED BY <1>3, <2>1
<1> QED BY <1>2, <1>3, <1>4, <1>5 DEF a, j

\* What append() writes: a record, or half of one.
LEMMA RecordType ==
  ASSUME TypeOK, written < MaxRecords
  PROVE  /\ Halves(written + 1) \in Seq(Half) /\ Len(Halves(written + 1)) = 2
         /\ Halves(written + 1)[1] = 2 * written + 1 /\ Halves(written + 1)[2] = 2 * written + 2
         /\ <<2 * written + 1>> \in Seq(Half) /\ Len(<<2 * written + 1>>) = 1
<1>1. written \in Nat
  BY BoundsAssumption DEF TypeOK
<1>2. 2 * written + 1 \in Half /\ 2 * written + 2 \in Half
  BY <1>1, BoundsAssumption DEF Half
<1>3. Halves(written + 1) = <<2 * written + 1, 2 * written + 2>>
  BY <1>1 DEF Halves
<1>4. <<2 * written + 1, 2 * written + 2>> \in Seq(Half) /\ Len(<<2 * written + 1, 2 * written + 2>>) = 2
  BY <1>2
<1>5. <<2 * written + 1>> \in Seq(Half) /\ Len(<<2 * written + 1>>) = 1
  BY <1>2
<1> DEFINE h == Halves(written + 1)
           g == <<2 * written + 1, 2 * written + 2>>
<1>6. g[1] = 2 * written + 1 /\ g[2] = 2 * written + 2
  OBVIOUS
<1>7. h = g /\ g \in Seq(Half) /\ Len(g) = 2
  BY <1>3, <1>4
<1> HIDE DEF h, g
<1>8. h \in Seq(Half) /\ Len(h) = 2 /\ h[1] = 2 * written + 1 /\ h[2] = 2 * written + 2
  BY <1>6, <1>7
<1> QED BY <1>5, <1>8 DEF h

LEMMA PutGrows ==
  ASSUME TypeOK, NEW w \in DOMAIN files, written < MaxRecords,
         NEW h \in {Halves(written + 1), <<2 * written + 1>>},
         files' = Put(w, h) \/ \E name : files' = Created(Put(w, h), name)
  PROVE  Grown(w, Len(h))
<1> DEFINE all == Put(w, h)
<1>1. h \in Seq(Half) /\ Len(h) \in 1 .. 2 /\ \A p \in 1 .. Len(h) : h[p] = 2 * written + p
  BY RecordType
<1>2. /\ DOMAIN all = DOMAIN files
      /\ \A f \in DOMAIN files \ {w} : all[f] = files[f]
      /\ all[w] \in Seq(Half) /\ Len(all[w]) = Len(files[w]) + Len(h)
      /\ \A p \in 1 .. Len(files[w]) : all[w][p] = files[w][p]
      /\ \A p \in 1 .. Len(h) : all[w][Len(files[w]) + p] = 2 * written + p
  <2> DEFINE j == files[w] \o h
  <2>1. /\ DOMAIN all = DOMAIN files
        /\ \A f \in DOMAIN files \ {w} : all[f] = files[f]
        /\ all[w] = j /\ j \in Seq(Half) /\ Len(j) = Len(files[w]) + Len(h)
        /\ \A p \in 1 .. Len(files[w]) : j[p] = files[w][p]
        /\ \A p \in 1 .. Len(h) : j[Len(files[w]) + p] = h[p]
    BY <1>1, PutFiles
  <2> HIDE DEF all, j
  <2> QED BY <1>1, <2>1
<1> HIDE DEF all
<1>3. DOMAIN files \subseteq DOMAIN files'
      /\ (\A f \in DOMAIN files : files'[f] = all[f])
      /\ \A f \in DOMAIN files' \ DOMAIN files : files'[f] = <<>>
  <2>1. CASE files' = all
    BY <1>2, <2>1
  <2>2. CASE \E name : files' = Created(all, name)
    <3>1. PICK name : files' = Created(all, name)
      BY <2>2
    <3>2. /\ DOMAIN Created(all, name) = DOMAIN all \union {name}
          /\ \A f \in DOMAIN all : Created(all, name)[f] = all[f]
          /\ \A f \in DOMAIN Created(all, name) \ DOMAIN all : Created(all, name)[f] = <<>>
      BY CreatedFiles
    <3> QED BY <1>2, <3>1, <3>2
  <2> QED BY <2>1, <2>2 DEF all
<1> QED BY <1>2, <1>3 DEF Grown

\* The constructor, and a step that leaves the files alone.
LEMMA NothingGrows ==
  ASSUME TypeOK,
         files' = files \/ \E name : files' = Created(files, name)
  PROVE  \A w : Grown(w, 0)
<1> TAKE w
<1>1. DOMAIN files \subseteq DOMAIN files'
      /\ (\A f \in DOMAIN files : files'[f] = files[f])
      /\ \A f \in DOMAIN files' \ DOMAIN files : files'[f] = <<>>
  <2>1. CASE files' = files
    BY <2>1
  <2>2. CASE \E name : files' = Created(files, name)
    <3>1. PICK name : files' = Created(files, name)
      BY <2>2
    <3>2. /\ DOMAIN Created(files, name) = DOMAIN files \union {name}
          /\ \A f \in DOMAIN files : Created(files, name)[f] = files[f]
          /\ \A f \in DOMAIN Created(files, name) \ DOMAIN files : Created(files, name)[f] = <<>>
      BY CreatedFiles
    <3> QED BY <3>1, <3>2
  <2> QED BY <2>1, <2>2
<1>2. w \in DOMAIN files => files[w] \in Seq(Half) /\ Len(files[w]) + 0 = Len(files[w])
  BY FilesType
<1> QED BY <1>1, <1>2 DEF Grown

-----------------------------------------------------------------------------
(* The steps of the writer, as what they do to the files and to the writer.  *)

\* The step puts k halves at the end of w, and may make the file of the new name.
Step(w, k) ==
  /\ Numbers(k) /\ Grown(w, k)
  /\ k > 0 => writer # Absent /\ w = writer.at /\ w # Closed
  /\ DOMAIN files' \subseteq DOMAIN files \union {Name}
  /\ written' \in 0 .. MaxRecords /\ failures' \in 0 .. MaxFailures
  /\ UNCHANGED <<kind, clock, reader, shown, base>>

\* The writer stays where it is, or is anew in the file of the new name, or in none.
WriterGoesOn ==
  \/ writer' = Absent
  \/ /\ writer # Absent /\ writer'.at \in {writer.at, Closed} /\ DOMAIN files' = DOMAIN files
     /\ writer' \in [at : {writer.at, Closed}, opened : 1 .. now, bytes : 0 .. 2 * written']
  \/ writer' = [at |-> Name, opened |-> now, bytes |-> 0] /\ Name \in DOMAIN files'

LEMMA WriterType ==
  ASSUME TypeOK, writer # Absent
  PROVE  /\ writer.at \in DOMAIN files \union {Closed} /\ writer.opened \in 1 .. now /\ writer.bytes \in Nat
         /\ \A b : [writer EXCEPT !.bytes = b] = [at |-> writer.at, opened |-> writer.opened, bytes |-> b]
         /\ [writer EXCEPT !.at = Closed] = [at |-> Closed, opened |-> writer.opened, bytes |-> writer.bytes]
         /\ writer = [at |-> writer.at, opened |-> writer.opened, bytes |-> writer.bytes]
<1>1. /\ writer \in [at : DOMAIN files \union {Closed}, opened : 1 .. now, bytes : 0 .. 2 * MaxRecords]
      /\ MaxRecords \in Nat
  BY BoundsAssumption DEF TypeOK
<1> QED BY <1>1

LEMMA WriterSteps ==
  ASSUME FilesInv, Writer
  PROVE  \E w, k : Step(w, k) /\ WriterGoesOn
<1>1. TypeOK /\ written \in Nat /\ failures \in Nat /\ now \in Nat /\ now >= 1
  BY BoundsAssumption DEF FilesInv, TypeOK
<1>2. failures \in 0 .. MaxFailures /\ written \in 0 .. MaxRecords
  BY <1>1 DEF TypeOK
<1>3. CASE OpenWriter
  <2>1. files' = Created(files, Name) /\ written' = written /\ failures' = failures
    BY <1>3 DEF OpenWriter
  <2>2. Grown(Closed, 0)
    BY <1>1, <2>1, NothingGrows
  <2>3. DOMAIN files' = DOMAIN files \union {Name}
    BY <2>1, CreatedFiles
  <2>4. Numbers(0)
    BY <1>1, <2>1 DEF Numbers
  <2>5. Step(Closed, 0)
    BY <1>2, <1>3, <2>1, <2>2, <2>3, <2>4 DEF Step, OpenWriter
  <2>6. WriterGoesOn
    BY <1>3, <2>3 DEF WriterGoesOn, OpenWriter
  <2> QED BY <2>5, <2>6
<1>4. CASE Appends /\ writer.at # Closed /\ (AppendRecord \/ AppendRotates \/ RotationFails \/ AppendFails)
  <2>1. writer # Absent /\ written < MaxRecords /\ written' = written + 1 /\ writer.at \in DOMAIN files
    BY <1>1, <1>4, WriterType DEF Appends
  <2>2. PICK h \in {Halves(written + 1), <<2 * written + 1>>} :
          files' = Put(writer.at, h) \/ files' = Created(Put(writer.at, h), Name)
    BY <1>4 DEF AppendRecord, AppendRotates, RotationFails, AppendFails
  <2>3. h \in Seq(Half) /\ Len(h) \in 1 .. 2
    BY <1>1, <2>1, RecordType
  <2>4. Grown(writer.at, Len(h))
    BY <1>1, <2>1, <2>2, PutGrows
  <2>5. DOMAIN files' \subseteq DOMAIN files \union {Name}
    <3> DEFINE all == Put(writer.at, h)
    <3>1. DOMAIN all = DOMAIN files
      BY <1>1, <2>1, <2>3, PutFiles
    <3>2. files' = all \/ files' = Created(all, Name)
      BY <2>2
    <3> HIDE DEF all
    <3> QED BY <3>1, <3>2, CreatedFiles
  <2>6. Numbers(Len(h))
    BY <1>1, <2>1, <2>3 DEF Numbers
  <2>7. failures' \in 0 .. MaxFailures /\ written' \in 0 .. MaxRecords
    BY <1>1, <1>2, <1>4, <2>1, BoundsAssumption DEF AppendRecord, AppendRotates, RotationFails, AppendFails
  <2>8. UNCHANGED <<kind, clock, reader, shown, base>>
    BY <1>4 DEF Appends
  <2>9. Step(writer.at, Len(h))
    BY <1>4, <2>1, <2>4, <2>5, <2>6, <2>7, <2>8 DEF Step
  <2>10. writer.bytes \in Nat /\ writer.bytes <= 2 * written
    BY <1>1, <2>1, WriterType DEF FilesInv, Named
  <2>11. WriterGoesOn
    <3>0. AppendRecord \/ RotationFails \/ AppendFails => DOMAIN files' = DOMAIN files
      <4>1. ASSUME AppendRecord \/ RotationFails \/ AppendFails
            PROVE  \E g \in {Halves(written + 1), <<2 * written + 1>>} : files' = Put(writer.at, g)
        BY <4>1 DEF AppendRecord, RotationFails, AppendFails
      <4>2. ASSUME NEW g \in {Halves(written + 1), <<2 * written + 1>>}
            PROVE  DOMAIN Put(writer.at, g) = DOMAIN files
        BY DEF Put
      <4> QED BY <4>1, <4>2
    <3>1. CASE AppendRecord
      <4>1. writer' = [at |-> writer.at, opened |-> writer.opened, bytes |-> writer.bytes + 2]
        BY <1>1, <2>1, <3>1, WriterType DEF AppendRecord
      <4>2. writer.bytes + 2 \in 0 .. 2 * written' /\ writer.opened \in 1 .. now
        BY <1>1, <2>1, <2>10, WriterType
      <4> QED BY <2>1, <3>0, <4>1, <4>2, <3>1 DEF WriterGoesOn
    <3>2. CASE AppendRotates
      <4>1. Name \in DOMAIN files'
        <5> DEFINE all == Put(writer.at, Halves(written + 1))
        <5>1. files' = Created(all, Name)
          BY <3>2 DEF AppendRotates
        <5> HIDE DEF all
        <5> QED BY <5>1, CreatedFiles
      <4> QED BY <3>2, <4>1 DEF AppendRotates, WriterGoesOn
    <3>3. CASE RotationFails
      <4>1. writer' = [at |-> Closed, opened |-> now, bytes |-> writer.bytes + 2]
        BY <3>3 DEF RotationFails
      <4>2. writer.bytes + 2 \in 0 .. 2 * written' /\ now \in 1 .. now
        BY <1>1, <2>1, <2>10
      <4> QED BY <2>1, <3>0, <4>1, <4>2, <3>3 DEF WriterGoesOn
    <3>4. CASE AppendFails
      <4>1. \/ writer' = [at |-> writer.at, opened |-> writer.opened, bytes |-> writer.bytes]
            \/ writer' = [at |-> Closed, opened |-> writer.opened, bytes |-> writer.bytes]
        BY <1>1, <2>1, <3>4, WriterType DEF AppendFails
      <4>2. writer.bytes \in 0 .. 2 * written' /\ writer.opened \in 1 .. now
        BY <1>1, <2>1, <2>10, WriterType
      <4> QED BY <2>1, <3>0, <4>1, <4>2, <3>4 DEF WriterGoesOn
    <3> QED BY <1>4, <3>1, <3>2, <3>3, <3>4
  <2> QED BY <2>9, <2>11
<1>5. CASE AppendNowhere \/ WriterEnds
  <2>1. files' = files /\ UNCHANGED <<kind, clock, reader, shown, base>> /\ writer # Absent
    BY <1>5 DEF AppendNowhere, WriterEnds, Appends
  <2>2. written' \in 0 .. MaxRecords /\ written' >= written /\ failures' \in 0 .. MaxFailures
    BY <1>1, <1>2, <1>5, BoundsAssumption DEF AppendNowhere, WriterEnds, Appends
  <2>3. Grown(Closed, 0)
    BY <1>1, <2>1, NothingGrows
  <2>4. Numbers(0)
    BY <1>1, <2>2, BoundsAssumption DEF Numbers
  <2>5. Step(Closed, 0)
    BY <2>1, <2>2, <2>3, <2>4 DEF Step
  <2>6. writer' = writer \/ writer' = Absent
    BY <1>5 DEF AppendNowhere, WriterEnds
  <2>7. writer.bytes \in 0 .. 2 * written' /\ writer.opened \in 1 .. now
    BY <1>1, <2>1, <2>2, WriterType, BoundsAssumption DEF FilesInv, Named
  <2>8. writer = [at |-> writer.at, opened |-> writer.opened, bytes |-> writer.bytes]
    BY <1>1, <2>1, WriterType
  <2>9. WriterGoesOn
    BY <2>1, <2>6, <2>7, <2>8 DEF WriterGoesOn
  <2> QED BY <2>5, <2>9
<1> QED
  BY <1>3, <1>4, <1>5 DEF Writer, AppendRecord, AppendRotates, RotationFails, AppendFails, Appends

LEMMA StepKeepsFiles ==
  ASSUME FilesInv, NEW w, NEW k, Step(w, k), WriterGoesOn
  PROVE  FilesInv'
<1>1. TypeOK /\ Numbered /\ Apart /\ Named
  BY DEF FilesInv
<1>2. kind' = kind /\ now' = now /\ behind' = behind /\ reader' = reader /\ shown' = shown /\ base' = base
  BY DEF Step, clock
<1>3. now \in Nat /\ now >= 1 /\ behind \in Nat /\ written \in Nat /\ written' \in Nat /\ written <= written'
      /\ k \in 0 .. 2
  BY <1>1, BoundsAssumption, IntervalAssumption DEF TypeOK, Step, Numbers
<1>4. DOMAIN files \subseteq DOMAIN files' /\ DOMAIN files' \subseteq DOMAIN files \union {Name}
  BY DEF Step, Grown
<1>5. Name \in Seq(Int) /\ Name = <<Name[1]>> /\ Name[1] \in Int
      /\ (kind = "rotating" => Name[1] = now - behind) /\ (kind # "rotating" => Name = <<0>>)
  BY <1>1, NameType
<1>6. \A f \in DOMAIN files' : f = <<f[1]>> /\ f[1] \in Int
  BY <1>1, <1>4, <1>5 DEF Named
<1>7. Numbered'
  BY <1>1, NumberedKept DEF Step
<1>8. Apart'
  <2>1. ASSUME behind = 0, k > 0, NEW f \in DOMAIN files
        PROVE  f[1] \in Int /\ w[1] \in Int /\ f[1] <= w[1]
    <3>1. w \in DOMAIN files /\ writer # Absent /\ w = writer.at /\ w # Closed
      BY <2>1 DEF Step, Grown
    <3> QED BY <2>1, <1>1, <3>1 DEF Named
  <2> QED BY <1>1, <1>2, <2>1, ApartKept DEF Step
<1>9. \A f \in DOMAIN files' : files'[f] \in Seq(Half)
  <2> SUFFICES ASSUME NEW f \in DOMAIN files' PROVE files'[f] \in Seq(Half)
    OBVIOUS
  <2>1. CASE f \in DOMAIN files
    BY <1>1, <2>1, FilesType DEF Step, Grown
  <2>2. CASE f \notin DOMAIN files
    <3>1. files'[f] = <<>>
      BY <2>2 DEF Step, Grown
    <3>2. <<>> \in Seq(Half)
      OBVIOUS
    <3> QED BY <3>1, <3>2
  <2> QED BY <2>1, <2>2
<1>10. writer' # Absent =>
         /\ writer' \in [at : DOMAIN files' \union {Closed}, opened : 1 .. now, bytes : 0 .. 2 * MaxRecords]
         /\ writer'.bytes <= 2 * written'
         /\ writer'.at # Closed /\ behind = 0 => \A f \in DOMAIN files' : f[1] <= writer'.at[1]
  <2>1. written' \in 0 .. MaxRecords
    BY DEF Step
  <2>2. 2 * written' <= 2 * MaxRecords /\ 2 * written' \in Nat /\ 2 * MaxRecords \in Nat
    <3>1. MaxRecords \in Nat
      BY BoundsAssumption
    <3>2. written' \in Nat /\ written' <= MaxRecords
      BY <2>1, <3>1
    <3>3. \A x, y \in Nat : x <= y => 2 * x <= 2 * y /\ 2 * x \in Nat /\ 2 * y \in Nat
      OBVIOUS
    <3> QED BY <3>1, <3>2, <3>3
  <2>3. CASE writer' = [at |-> Name, opened |-> now, bytes |-> 0] /\ Name \in DOMAIN files'
    <3>1. writer' \in [at : DOMAIN files' \union {Closed}, opened : 1 .. now, bytes : 0 .. 2 * MaxRecords]
      BY <1>3, <2>2, <2>3
    <3>2. writer'.bytes <= 2 * written' /\ writer'.at = Name
      <4>1. writer'.bytes = 0 /\ writer'.at = Name
        BY <2>3
      <4> QED BY <2>2, <4>1
    <3>3. behind = 0 => \A f \in DOMAIN files' : f[1] <= Name[1]
      BY <1>1, <1>3, <1>4, <1>5 DEF Named
    <3> QED BY <3>1, <3>2, <3>3
  <2>4. CASE /\ writer # Absent /\ writer'.at \in {writer.at, Closed} /\ DOMAIN files' = DOMAIN files
             /\ writer' \in [at : {writer.at, Closed}, opened : 1 .. now, bytes : 0 .. 2 * written']
    <3>1. writer.at \in DOMAIN files \union {Closed}
      BY <1>1, <2>4, WriterType
    <3>2. writer' \in [at : DOMAIN files' \union {Closed}, opened : 1 .. now, bytes : 0 .. 2 * MaxRecords]
          /\ writer'.bytes <= 2 * written'
      <4>1. /\ writer' = [at |-> writer'.at, opened |-> writer'.opened, bytes |-> writer'.bytes]
            /\ writer'.opened \in 1 .. now /\ writer'.bytes \in 0 .. 2 * written'
            /\ writer'.at \in {writer.at, Closed}
        BY <2>4
      <4>2. writer'.at \in DOMAIN files' \union {Closed}
        BY <1>4, <3>1, <4>1
      <4>3. writer'.bytes \in 0 .. 2 * MaxRecords /\ writer'.bytes <= 2 * written'
        BY <2>2, <4>1
      <4> QED BY <4>1, <4>2, <4>3
    <3>3. ASSUME writer'.at # Closed, behind = 0, NEW f \in DOMAIN files'
          PROVE  f[1] <= writer'.at[1]
      <4>1. writer'.at = writer.at /\ writer.at # Closed
        BY <2>4, <3>3
      <4>2. \A g \in DOMAIN files : g[1] <= writer.at[1]
        BY <1>1, <2>4, <3>3, <4>1 DEF Named
      <4> QED BY <2>4, <3>3, <4>1, <4>2
    <3> QED BY <3>2, <3>3
  <2> QED BY <2>3, <2>4 DEF WriterGoesOn
<1>11. Named'
  <2>1. \A f \in DOMAIN files' : (kind # "rotating" => f = <<0>>) /\ (behind = 0 /\ kind = "rotating" => f[1] <= now)
    BY <1>1, <1>3, <1>4, <1>5 DEF Named
  <2> QED BY <1>2, <1>6, <1>10, <2>1 DEF Named
<1>12. TypeOK'
  <2>1. DOMAIN files' \subseteq Seq(Int)
    BY <1>1, <1>4, <1>5 DEF TypeOK
  <2>2. reader # Absent =>
          reader \in [at : DOMAIN files' \union {Closed}, paths : SUBSET DOMAIN files', pos : Nat, ended : BOOLEAN]
    BY <1>1, <1>4 DEF TypeOK
  <2>3. base \in 0 .. written'
    BY <1>1, <1>3 DEF TypeOK
  <2>4. written' \in 0 .. MaxRecords /\ failures' \in 0 .. MaxFailures
    BY DEF Step
  <2> QED BY <1>1, <1>2, <1>9, <1>10, <2>1, <2>2, <2>3, <2>4 DEF TypeOK
<1> QED BY <1>7, <1>8, <1>11, <1>12 DEF FilesInv

\* Time goes on or is put back: the order of the names counts until it is.
LEMMA ClockKeepsFiles ==
  ASSUME FilesInv, Tick \/ TurnBack
  PROVE  FilesInv' /\ (behind' = 0 => behind = 0)
         /\ UNCHANGED <<kind, files, writer, reader, written, shown, base>>
<1>1. UNCHANGED <<kind, files, writer, reader, written, failures, shown, base>> /\ (behind' = 0 => behind = 0)
  BY DEF Tick, TurnBack
<1>2. now' \in 1 .. MaxTime /\ now <= now' /\ behind' \in Turns \union {0} /\ now \in Nat /\ now' \in Nat
  BY BoundsAssumption DEF Tick, TurnBack, FilesInv, TypeOK
<1>3. TypeOK'
  BY <1>1, <1>2 DEF FilesInv, TypeOK
<1>4. Numbered' /\ Apart'
  BY <1>1 DEF FilesInv, Numbered, Apart
<1>5. Named'
  <2>1. \A f \in DOMAIN files : f[1] \in Int
    BY DEF FilesInv, Named
  <2> QED BY <1>1, <1>2, <2>1 DEF FilesInv, Named
<1> QED BY <1>1, <1>3, <1>4, <1>5 DEF FilesInv

-----------------------------------------------------------------------------
(* The reader r, made when b records were written, that has shown the pairs  *)
(* of sh. All of it is stated of the files as they are.                      *)

\* The m-th pair of a file is a record; the first n of them are.
Whole(f, m) == files[f][2 * m - 1] % 2 = 1 /\ files[f][2 * m] = files[f][2 * m - 1] + 1
Sound(f, n) ==
  /\ n \in Nat \ {0} /\ 2 * n <= Len(files[f])
  /\ \A m \in 1 .. n : Whole(f, m)

\* The second half of the record whose first is at q was not written.
Broken(f, q) == files[f][q] % 2 = 1 /\ files[f][q + 1] # files[f][q] + 1

(* Where the reader is: at an even position, or behind the damage; when it   *)
(* has come to the end, nothing sound of the first b records is before it.   *)
Placed(r, b) ==
  /\ kind # "rotating" => r.paths = {}
  /\ kind = "rotating" /\ r.ended => r.at = Closed /\ r.paths = {}
  /\ r.at # Closed =>
       /\ r.at \notin r.paths /\ r.pos <= Len(files[r.at])
       /\ \A g \in r.paths : r.at[1] <= g[1]
       /\ kind = "rotating" => r.pos % 2 = 0
       /\ r.pos % 2 = 1 => \A n : Sound(r.at, n) => 2 * n < r.pos
       /\ r.ended => \A n : Sound(r.at, n) /\ files[r.at][2 * n] <= 2 * b => 2 * n <= r.pos
       /\ r.pos < Len(files[r.at]) /\ files[r.at][r.pos + 1] % 2 = 0 =>
            \E q \in 1 .. r.pos : Broken(r.at, q)

\* A pair it has shown is in a file, behind its position or in a file it is done with.
From(r, pair) ==
  \E f \in DOMAIN files : \E p \in 1 .. Len(files[f]) - 1 :
    /\ pair = <<files[f][p], files[f][p + 1]>>
    /\ f \notin r.paths /\ \A g \in r.paths : f[1] <= g[1]
    /\ IF f = r.at THEN p + 1 <= r.pos ELSE r.at # Closed => f[1] <= r.at[1]

Sourced(r, sh) == \A i \in DOMAIN sh : sh[i][2] # Unset => From(r, sh[i])

\* What is not set was given at the end of a gzip log, and nothing is set after it.
Blind(r, sh) ==
  \A i \in DOMAIN sh : sh[i][2] = Unset =>
    /\ kind = "gzip" /\ r.ended
    /\ \A j \in DOMAIN sh : i < j => sh[j] = <<Unset, Unset>>

\* What is sound and behind it was shown.
Passed(r, b, f, n) == IF f = r.at THEN 2 * n <= r.pos ELSE files[f][2 * n] <= 2 * b
Covered(r, sh, b) ==
  \A f \in DOMAIN files \ r.paths : \A n :
    Sound(f, n) /\ Passed(r, b, f, n) =>
      \E i \in DOMAIN sh : sh[i] = <<files[f][2 * n - 1], files[f][2 * n]>>

\* What it has shown that is no record is behind damage.
Misled(sh) ==
  \A i \in DOMAIN sh :
    \/ IsWhole(sh[i]) \/ sh[i][2] = Unset
    \/ /\ kind # "gzip"
       /\ \E f \in DOMAIN files : \E p \in 1 .. Len(files[f]) - 1 :
            sh[i] = <<files[f][p], files[f][p + 1]>> /\ \E q \in 1 .. p : Broken(f, q)

Ordered(sh) ==
  \A i, j \in DOMAIN sh :
    i < j /\ sh[i][2] # Unset /\ sh[j][2] # Unset =>
      sh[i] # sh[j] /\ (behind = 0 => sh[i][1] < sh[j][1])

ReaderInv ==
  /\ reader = Absent => shown = <<>>
  /\ reader # Absent => /\ Placed(reader, base) /\ Sourced(reader, shown)
                         /\ Covered(reader, shown, base) /\ Blind(reader, shown)
  /\ Misled(shown) /\ Ordered(shown)

Inv == FilesInv /\ ReaderInv

LEMMA ReaderType ==
  ASSUME TypeOK, reader # Absent
  PROVE  /\ reader.at \in DOMAIN files \union {Closed} /\ reader.paths \subseteq DOMAIN files
         /\ reader.pos \in Nat /\ reader.ended \in BOOLEAN
         /\ base \in Nat /\ base <= written /\ written \in Nat
  BY BoundsAssumption DEF TypeOK

\* No file has the name of none.
LEMMA ClosedIsNone ==
  ASSUME Named
  PROVE  Closed \notin DOMAIN files
<1>1. \A x : <<x>> # <<>>
  OBVIOUS
<1> QED BY <1>1 DEF Named, Closed

-----------------------------------------------------------------------------
(* A step of the writer: what the reader has passed stays as it was.         *)

\* A file only grows, by halves of later records, the first of which is odd.
LEMMA Growth ==
  ASSUME FilesInv, NEW w, NEW k, Step(w, k), NEW f \in DOMAIN files
  PROVE  /\ f \in DOMAIN files'
         /\ Len(files[f]) \in Nat /\ Len(files'[f]) \in Nat /\ Len(files[f]) <= Len(files'[f])
         /\ \A p \in 1 .. Len(files[f]) : files'[f][p] = files[f][p]
         /\ \A p \in 1 .. Len(files'[f]) : p > Len(files[f]) => files'[f][p] > 2 * written
         /\ Len(files[f]) < Len(files'[f]) => files'[f][Len(files[f]) + 1] = 2 * written + 1
<1>1. TypeOK /\ Grown(w, k) /\ k \in 0 .. 2 /\ written \in Nat
  BY BoundsAssumption DEF FilesInv, Step, Numbers, TypeOK
<1>2. Len(files[f]) \in Nat
  BY <1>1, FilesType
<1>3. CASE f # w
  <2>1. files'[f] = files[f] /\ f \in DOMAIN files'
    BY <1>1, <1>3 DEF Grown
  <2> QED BY <1>2, <2>1
<1>4. CASE f = w
  <2> DEFINE n == Len(files[f])
             h == files'[f]
  <2>1. f \in DOMAIN files' /\ Len(h) = n + k /\ (\A p \in 1 .. n : h[p] = files[f][p])
        /\ (\A p \in 1 .. k : h[n + p] = 2 * written + p) /\ n \in Nat
    BY <1>1, <1>2, <1>4 DEF Grown
  <2> HIDE DEF n, h
  <2>2. ASSUME NEW p \in 1 .. Len(h), p > n PROVE h[p] > 2 * written
    <3>1. p - n \in 1 .. k /\ n + (p - n) = p
      BY <1>1, <2>1, <2>2
    <3>2. h[p] = 2 * written + (p - n)
      BY <2>1, <3>1
    <3> QED BY <1>1, <3>1, <3>2
  <2>3. n < Len(h) => h[n + 1] = 2 * written + 1
    BY <1>1, <2>1
  <2>4. n <= Len(h) /\ Len(h) \in Nat
    BY <1>1, <2>1
  <2> QED BY <2>1, <2>2, <2>3, <2>4 DEF n, h
<1> QED BY <1>3, <1>4

LEMMA SoundBefore ==
  ASSUME FilesInv, NEW w, NEW k, Step(w, k), NEW f \in DOMAIN files, NEW n, Sound(f, n)',
         2 * n <= Len(files[f])
  PROVE  Sound(f, n) /\ files'[f][2 * n] = files[f][2 * n] /\ files'[f][2 * n - 1] = files[f][2 * n - 1]
<1>1. n \in Nat \ {0} /\ \A m \in 1 .. n : files'[f][2 * m - 1] % 2 = 1 /\ files'[f][2 * m] = files'[f][2 * m - 1] + 1
  BY DEF Sound, Whole
<1>2. Len(files[f]) \in Nat /\ \A p \in 1 .. Len(files[f]) : files'[f][p] = files[f][p]
  BY Growth
<1>3. ASSUME NEW m \in 1 .. n
      PROVE  files'[f][2 * m] = files[f][2 * m] /\ files'[f][2 * m - 1] = files[f][2 * m - 1]
  <2>1. 2 * m \in 1 .. Len(files[f]) /\ 2 * m - 1 \in 1 .. Len(files[f])
    BY <1>1, <1>2
  <2> QED BY <1>2, <2>1
<1>4. n \in 1 .. n
  BY <1>1
<1> QED BY <1>1, <1>3, <1>4 DEF Sound, Whole

\* New halves are of records later than those the reader is to show.
LEMMA SoundInReach ==
  ASSUME FilesInv, NEW w, NEW k, Step(w, k), NEW f \in DOMAIN files, NEW n, Sound(f, n)',
         NEW b \in Nat, b <= written, files'[f][2 * n] <= 2 * b
  PROVE  2 * n <= Len(files[f])
<1>1. n \in Nat \ {0} /\ 2 * n <= Len(files'[f])
  BY DEF Sound
<1>2. Len(files[f]) \in Nat /\ Len(files'[f]) \in Nat /\ written \in Nat
      /\ \A p \in 1 .. Len(files'[f]) : p > Len(files[f]) => files'[f][p] > 2 * written
  BY Growth, BoundsAssumption DEF FilesInv, TypeOK
<1>3. 2 * n \in 1 .. Len(files'[f])
  BY <1>1, <1>2
<1>4. ASSUME 2 * n > Len(files[f]) PROVE FALSE
  <2>1. files'[f][2 * n] > 2 * written
    BY <1>2, <1>3, <1>4
  <2>2. f \in DOMAIN files'
    BY Growth
  <2>3. files'[f][2 * n] \in Int
    <3>1. TypeOK /\ Grown(w, k) /\ k \in 0 .. 2
      BY DEF FilesInv, Step, Numbers
    <3>2. CASE 2 * n \in 1 .. Len(files[f]) /\ files'[f][2 * n] = files[f][2 * n]
      BY <1>4, <3>2, <1>2
    <3>3. CASE 2 * n - Len(files[f]) \in 1 .. k /\ files'[f][2 * n] = 2 * written + (2 * n - Len(files[f]))
      BY <1>1, <1>2, <3>3
    <3> QED BY <1>3, <2>2, <3>1, <3>2, <3>3, GrownHalf
  <2> QED BY <1>2, <2>1, <2>3
<1> QED BY <1>1, <1>2, <1>4

LEMMA StepKeepsPlaced ==
  ASSUME FilesInv, NEW w, NEW k, Step(w, k), reader # Absent, Placed(reader, base)
  PROVE  Placed(reader, base)'
<1>1. kind' = kind /\ reader' = reader /\ base' = base
  BY DEF Step
<1>2. CASE reader.at = Closed
  BY <1>1, <1>2 DEF Placed
<1>3. CASE reader.at # Closed
  <2>0. PICK f, pos : f = reader.at /\ pos = reader.pos
    OBVIOUS
  <2>1. f \in DOMAIN files /\ pos \in Nat /\ base \in Nat /\ base <= written /\ written \in Nat
    BY <1>3, <2>0, ReaderType DEF FilesInv
  <2>2. /\ f \in DOMAIN files'
        /\ Len(files[f]) \in Nat /\ Len(files'[f]) \in Nat /\ Len(files[f]) <= Len(files'[f])
        /\ \A p \in 1 .. Len(files[f]) : files'[f][p] = files[f][p]
        /\ Len(files[f]) < Len(files'[f]) => files'[f][Len(files[f]) + 1] = 2 * written + 1
    BY <2>1, Growth
  <2>3. /\ pos <= Len(files[f])
        /\ pos % 2 = 1 => \A n : Sound(f, n) => 2 * n < pos
        /\ reader.ended => \A n : Sound(f, n) /\ files[f][2 * n] <= 2 * base => 2 * n <= pos
        /\ pos < Len(files[f]) /\ files[f][pos + 1] % 2 = 0 => \E q \in 1 .. pos : Broken(f, q)
    BY <1>3, <2>0 DEF Placed
  <2>4. (2 * written + 1) % 2 = 1 /\ (2 * written + 1) \in Nat
    BY <2>1, Parity
  <2>5. ASSUME pos % 2 = 1, NEW n, Sound(f, n)'
        PROVE  2 * n < pos
    <3>1. n \in Nat \ {0} /\ 2 * n <= Len(files'[f])
          /\ \A m \in 1 .. n : files'[f][2 * m - 1] % 2 = 1 /\ files'[f][2 * m] = files'[f][2 * m - 1] + 1
      BY <2>5 DEF Sound, Whole
    <3>2. CASE 2 * n <= Len(files[f])
      BY <2>1, <2>3, <2>5, <3>2, SoundBefore
    <3>3. CASE 2 * n > Len(files[f])
      <4>1. PICK m \in 1 .. n : 2 * m - 1 = pos /\ 2 * m = pos + 1
        <5>1. PICK m \in Nat : pos = 2 * m + 1
          <6>1. pos = 2 * (pos \div 2) + 1 /\ pos \div 2 \in Nat
            BY <2>1, <2>5
          <6> QED BY <6>1
        <5>2. m + 1 \in 1 .. n /\ 2 * (m + 1) - 1 = pos /\ 2 * (m + 1) = pos + 1
          BY <2>2, <2>3, <3>1, <3>3, <5>1
        <5> QED BY <5>2
      <4>2. files'[f][pos] % 2 = 1 /\ files'[f][pos + 1] = files'[f][pos] + 1
        BY <3>1, <4>1
      <4>3. CASE pos + 1 <= Len(files[f])
        <5>1. m \in Nat \ {0} /\ 2 * m <= Len(files'[f]) /\ \A l \in 1 .. m : l \in 1 .. n
          BY <2>1, <2>2, <3>1, <4>1, <4>3
        <5>2. Sound(f, m)'
          BY <3>1, <5>1 DEF Sound, Whole
        <5>3. Sound(f, m)
          BY <2>1, <4>1, <4>3, <5>2, SoundBefore
        <5> QED BY <2>1, <2>3, <2>5, <4>1, <5>3
      <4>4. CASE pos = Len(files[f])
        <5>1. files'[f][pos + 1] = 2 * written + 1
          BY <2>2, <3>1, <3>3, <4>4
        <5>2. files'[f][pos] = 2 * written
          <6>1. pos \in 1 .. Len(files[f])
            BY <2>1, <2>5, <4>4, Parity
          <6>2. files'[f][pos] = files[f][pos] /\ files[f][pos] \in Nat
            BY <2>1, <2>2, <6>1, FilesType DEF FilesInv
          <6> QED BY <2>1, <4>2, <5>1, <6>2
        <5> QED BY <2>1, <4>2, <5>2, Parity
      <4> QED BY <2>1, <2>2, <2>3, <4>3, <4>4
    <3> QED BY <2>2, <3>1, <3>2, <3>3
  <2>6. ASSUME reader.ended, NEW n, Sound(f, n)', files'[f][2 * n] <= 2 * base
        PROVE  2 * n <= pos
    <3>1. 2 * n <= Len(files[f])
      BY <2>1, <2>6, SoundInReach
    <3>2. Sound(f, n) /\ files'[f][2 * n] = files[f][2 * n]
      BY <2>1, <2>6, <3>1, SoundBefore
    <3> QED BY <2>3, <2>6, <3>2
  <2>7. ASSUME pos < Len(files'[f]), files'[f][pos + 1] % 2 = 0
        PROVE  \E q \in 1 .. pos : Broken(f, q)'
    <3>1. pos < Len(files[f])
      BY <2>1, <2>2, <2>3, <2>4, <2>7
    <3>2. files'[f][pos + 1] = files[f][pos + 1]
      BY <2>1, <2>2, <3>1
    <3>3. PICK q \in 1 .. pos : Broken(f, q)
      BY <2>3, <2>7, <3>1, <3>2
    <3>4. files'[f][q] = files[f][q] /\ files'[f][q + 1] = files[f][q + 1]
      <4>1. q \in 1 .. Len(files[f]) /\ q + 1 \in 1 .. Len(files[f])
        BY <2>1, <2>2, <3>1
      <4> QED BY <2>2, <4>1
    <3> QED BY <3>3, <3>4 DEF Broken
  <2>8. pos <= Len(files'[f])
    BY <2>1, <2>2, <2>3
  <2>9. reader'.at = f /\ reader'.pos = pos /\ reader'.paths = reader.paths /\ reader'.ended = reader.ended
    BY <1>1, <2>0
  <2>10. /\ f \notin reader.paths
         /\ \A g \in reader.paths : f[1] <= g[1]
         /\ kind = "rotating" => pos % 2 = 0
         /\ kind # "rotating" => reader.paths = {}
         /\ ~ (kind = "rotating" /\ reader.ended)
    BY <1>3, <2>0 DEF Placed
  <2> QED BY <1>1, <2>5, <2>6, <2>7, <2>8, <2>9, <2>10 DEF Placed
<1> QED BY <1>2, <1>3

LEMMA StepKeepsSourced ==
  ASSUME FilesInv, NEW w, NEW k, Step(w, k), Sourced(reader, shown)
  PROVE  Sourced(reader, shown)'
<1>1. reader' = reader /\ shown' = shown
  BY DEF Step
<1>2. ASSUME NEW i \in DOMAIN shown, shown[i][2] # Unset PROVE From(reader, shown[i])'
  <2>0. PICK f \in DOMAIN files : \E p \in 1 .. Len(files[f]) - 1 :
          /\ shown[i] = <<files[f][p], files[f][p + 1]>>
          /\ f \notin reader.paths /\ \A g \in reader.paths : f[1] <= g[1]
          /\ IF f = reader.at THEN p + 1 <= reader.pos ELSE reader.at # Closed => f[1] <= reader.at[1]
    BY <1>2 DEF Sourced, From
  <2>1. PICK p \in 1 .. Len(files[f]) - 1 :
          /\ shown[i] = <<files[f][p], files[f][p + 1]>>
          /\ f \notin reader.paths /\ \A g \in reader.paths : f[1] <= g[1]
          /\ IF f = reader.at THEN p + 1 <= reader.pos ELSE reader.at # Closed => f[1] <= reader.at[1]
    BY <2>0
  <2>2. /\ f \in DOMAIN files' /\ Len(files[f]) \in Nat /\ Len(files'[f]) \in Nat
        /\ Len(files[f]) <= Len(files'[f]) /\ \A j \in 1 .. Len(files[f]) : files'[f][j] = files[f][j]
    BY Growth
  <2>3. p \in 1 .. Len(files[f]) /\ p + 1 \in 1 .. Len(files[f]) /\ p \in 1 .. Len(files'[f]) - 1
    BY <2>2
  <2>4. files'[f][p] = files[f][p] /\ files'[f][p + 1] = files[f][p + 1]
    BY <2>2, <2>3
  <2> QED BY <1>1, <2>1, <2>2, <2>3, <2>4 DEF From
<1> QED BY <1>1, <1>2 DEF Sourced

LEMMA StepKeepsCovered ==
  ASSUME FilesInv, NEW w, NEW k, Step(w, k), reader # Absent, Placed(reader, base),
         Covered(reader, shown, base)
  PROVE  Covered(reader, shown, base)'
<1>1. reader' = reader /\ shown' = shown /\ base' = base
  BY DEF Step
<1>2. TypeOK /\ base \in Nat /\ base <= written /\ reader.pos \in Nat /\ Named
  BY ReaderType DEF FilesInv
<1>3. ASSUME NEW f \in DOMAIN files' \ reader.paths, NEW n, Sound(f, n)',
             IF f = reader.at THEN 2 * n <= reader.pos ELSE files'[f][2 * n] <= 2 * base
      PROVE  \E i \in DOMAIN shown : shown[i] = <<files'[f][2 * n - 1], files'[f][2 * n]>>
  <2>1. n \in Nat \ {0} /\ 2 * n <= Len(files'[f])
    BY <1>3 DEF Sound
  <2>2. f \in DOMAIN files
    <3>1. ASSUME f \notin DOMAIN files PROVE FALSE
      <4>1. files'[f] = <<>>
        BY <3>1 DEF Step, Grown
      <4>2. Len(files'[f]) = 0
        BY <4>1
      <4> QED BY <2>1, <4>2
    <3> QED BY <3>1
  <2>3. 2 * n <= Len(files[f])
    <3>1. CASE f = reader.at
      <4>1. reader.pos <= Len(files[f]) /\ Len(files[f]) \in Nat
        BY <1>2, <2>2, <3>1, ClosedIsNone, FilesType DEF Placed
      <4> QED BY <1>2, <1>3, <2>1, <3>1, <4>1
    <3>2. CASE f # reader.at
      BY <1>2, <1>3, <2>2, <3>2, SoundInReach
    <3> QED BY <3>1, <3>2
  <2>4. Sound(f, n) /\ files'[f][2 * n] = files[f][2 * n] /\ files'[f][2 * n - 1] = files[f][2 * n - 1]
    BY <1>3, <2>2, <2>3, SoundBefore
  <2>5. Passed(reader, base, f, n)
    BY <1>3, <2>4 DEF Passed
  <2> QED BY <2>2, <2>4, <2>5 DEF Covered
<1> QED BY <1>1, <1>3 DEF Covered, Passed

LEMMA StepKeepsMisled ==
  ASSUME FilesInv, NEW w, NEW k, Step(w, k), Misled(shown)
  PROVE  Misled(shown)'
<1>1. kind' = kind /\ shown' = shown
  BY DEF Step
<1>2. ASSUME NEW i \in DOMAIN shown, NEW f \in DOMAIN files, NEW p \in 1 .. Len(files[f]) - 1,
             shown[i] = <<files[f][p], files[f][p + 1]>>, NEW q \in 1 .. p, Broken(f, q)
      PROVE  /\ f \in DOMAIN files' /\ p \in 1 .. Len(files'[f]) - 1
             /\ shown[i] = <<files'[f][p], files'[f][p + 1]>> /\ Broken(f, q)'
  <2>1. /\ f \in DOMAIN files' /\ Len(files[f]) \in Nat /\ Len(files'[f]) \in Nat
        /\ Len(files[f]) <= Len(files'[f]) /\ \A j \in 1 .. Len(files[f]) : files'[f][j] = files[f][j]
    BY Growth
  <2>2. /\ p \in 1 .. Len(files[f]) /\ p + 1 \in 1 .. Len(files[f]) /\ p \in 1 .. Len(files'[f]) - 1
        /\ q \in 1 .. Len(files[f]) /\ q + 1 \in 1 .. Len(files[f])
    BY <2>1
  <2> QED BY <1>2, <2>1, <2>2 DEF Broken
<1> SUFFICES ASSUME NEW i \in DOMAIN shown, ~ IsWhole(shown[i]), shown[i][2] # Unset
             PROVE  /\ kind # "gzip"
                    /\ \E f \in DOMAIN files' : \E p \in 1 .. Len(files'[f]) - 1 :
                         /\ shown[i] = <<files'[f][p], files'[f][p + 1]>>
                         /\ \E q \in 1 .. p : Broken(f, q)'
  BY <1>1 DEF Misled
<1>3. kind # "gzip"
      /\ \E f \in DOMAIN files : \E p \in 1 .. Len(files[f]) - 1 :
           shown[i] = <<files[f][p], files[f][p + 1]>> /\ \E q \in 1 .. p : Broken(f, q)
  BY DEF Misled
<1>4. PICK f \in DOMAIN files : \E p \in 1 .. Len(files[f]) - 1 :
        shown[i] = <<files[f][p], files[f][p + 1]>> /\ \E q \in 1 .. p : Broken(f, q)
  BY <1>3
<1>5. PICK p \in 1 .. Len(files[f]) - 1 :
        shown[i] = <<files[f][p], files[f][p + 1]>> /\ \E q \in 1 .. p : Broken(f, q)
  BY <1>4
<1>6. PICK q \in 1 .. p : Broken(f, q)
  BY <1>5
<1>7. /\ f \in DOMAIN files' /\ p \in 1 .. Len(files'[f]) - 1
      /\ shown[i] = <<files'[f][p], files'[f][p + 1]>> /\ Broken(f, q)'
  BY <1>2, <1>5, <1>6
<1> QED BY <1>3, <1>7

LEMMA WriterKeepsReader ==
  ASSUME FilesInv, ReaderInv, NEW w, NEW k, Step(w, k)
  PROVE  ReaderInv'
<1>1. reader' = reader /\ shown' = shown /\ base' = base /\ behind' = behind
  BY DEF Step, clock
<1>2. Misled(shown)' /\ Ordered(shown)'
  BY <1>1, StepKeepsMisled DEF ReaderInv, Ordered
<1>3. CASE reader # Absent
  <2>1. Blind(reader, shown)'
    BY <1>1, <1>3 DEF ReaderInv, Blind, Step
  <2> QED BY <1>1, <1>2, <1>3, <2>1, StepKeepsPlaced, StepKeepsSourced, StepKeepsCovered DEF ReaderInv
<1>4. CASE reader = Absent
  BY <1>1, <1>2, <1>4 DEF ReaderInv
<1> QED BY <1>3, <1>4

\* Neither do the steps that leave what the reader is stated of.
LEMMA ReaderStands ==
  ASSUME ReaderInv, UNCHANGED <<kind, files, reader, shown, base>>, behind' = 0 => behind = 0
  PROVE  ReaderInv'
<1>1. Ordered(shown)'
  BY DEF ReaderInv, Ordered
<1> QED BY <1>1
        DEF ReaderInv, Placed, Sourced, From, Covered, Passed, Blind, Misled, Sound, Whole, Broken

LEMMA ClockKeepsReader ==
  ASSUME FilesInv, ReaderInv, Tick \/ TurnBack
  PROVE  ReaderInv'
  BY ClockKeepsFiles, ReaderStands

-----------------------------------------------------------------------------
(* The steps of the reader, which leave the files as they are.               *)

Pairs == Seq((Half \union {Unset}) \X (Half \union {Unset}))
Readers == [at : DOMAIN files \union {Closed}, paths : SUBSET DOMAIN files, pos : Nat, ended : BOOLEAN]

LEMMA ReaderGoesOn ==
  ASSUME FilesInv, UNCHANGED <<kind, files, clock, writer, written, failures>>,
         reader' = Absent => shown' = <<>>,
         reader' # Absent => /\ reader' \in Readers /\ Placed(reader', base')
                             /\ Sourced(reader', shown') /\ Covered(reader', shown', base')
                             /\ Blind(reader', shown'),
         shown' \in Pairs, base' \in 0 .. written, Misled(shown'), Ordered(shown')
  PROVE  Inv'
<1>1. FilesInv'
  <2>1. /\ kind' = kind /\ files' = files /\ now' = now /\ behind' = behind
        /\ writer' = writer /\ written' = written /\ failures' = failures
    BY DEF clock
  <2>2. reader' # Absent => reader' \in Readers'
    BY <2>1 DEF Readers
  <2>3. TypeOK'
    BY <2>1, <2>2 DEF FilesInv, TypeOK, Pairs, Readers
  <2>4. Numbered'
    BY <2>1 DEF FilesInv, Numbered
  <2>5. Apart'
    BY <2>1 DEF FilesInv, Apart
  <2>6. Named'
    BY <2>1 DEF FilesInv, Named
  <2> QED BY <2>3, <2>4, <2>5, <2>6 DEF FilesInv
<1>2. ReaderInv'
  <2>1. reader' # Absent => Placed(reader, base)'
    BY DEF Placed, Sound, Whole, Broken, clock
  <2>2. reader' # Absent => Sourced(reader, shown)'
    BY DEF Sourced, From, clock
  <2>3. ASSUME reader' # Absent PROVE Covered(reader, shown, base)'
    <3>1. Covered(reader', shown', base') /\ files' = files
      BY <2>3
    <3>2. \A f, n : (Sound(f, n)' <=> Sound(f, n))
                 /\ (Passed(reader, base, f, n)' <=> Passed(reader', base', f, n))
      BY <3>1 DEF Sound, Whole, Passed
    <3> QED BY <3>1, <3>2 DEF Covered
  <2>4. Misled(shown)' /\ (reader' # Absent => Blind(reader, shown)')
    BY DEF Misled, Broken, Blind, clock
  <2>5. Ordered(shown)'
    BY DEF Ordered, clock
  <2> QED BY <2>1, <2>2, <2>3, <2>4, <2>5 DEF ReaderInv
<1> QED BY <1>1, <1>2 DEF Inv

\* The program has shown nothing yet.
LEMMA NothingShown ==
  /\ <<>> \in Pairs /\ Misled(<<>>) /\ Ordered(<<>>)
  /\ \A r : Sourced(r, <<>>) /\ Blind(r, <<>>)
  BY DEF Pairs, Misled, Ordered, Sourced, Blind

LEMMA OpenReaderKeepsInv ==
  ASSUME Inv, OpenReader
  PROVE  Inv'
<1>1. FilesInv /\ TypeOK /\ Named /\ Numbered
  BY DEF Inv, FilesInv
<1>2. UNCHANGED <<kind, files, clock, writer, written, failures>> /\ shown' = <<>> /\ base' = written
  BY DEF OpenReader
<1>3. written \in Nat
  BY <1>1, BoundsAssumption DEF TypeOK
<1>4. CASE kind = "rotating" \/ DOMAIN files = {}
  <2>1. reader' = [at |-> Closed, paths |-> DOMAIN files, pos |-> 0, ended |-> FALSE]
    BY <1>4 DEF OpenReader
  <2>2. reader'.at = Closed /\ reader'.paths = DOMAIN files /\ reader'.pos = 0 /\ reader'.ended = FALSE
        /\ reader' \in Readers
    BY <2>1 DEF Readers
  <2>3. Placed(reader', base')
    BY <1>4, <2>2 DEF Placed
  <2>4. Covered(reader', shown', base')
    BY <2>2 DEF Covered
  <2>5. reader' # Absent
    BY <2>1 DEF Absent
  <2> QED BY <1>1, <1>2, <1>3, <2>2, <2>3, <2>4, <2>5, NothingShown, ReaderGoesOn
<1>5. CASE kind # "rotating" /\ DOMAIN files # {}
  <2>1. reader' = [at |-> <<0>>, paths |-> {}, pos |-> 0, ended |-> FALSE]
    BY <1>5 DEF OpenReader
  <2>2. <<0>> \in DOMAIN files
    BY <1>1, <1>5 DEF Named
  <2>3. reader'.at = <<0>> /\ reader'.paths = {} /\ reader'.pos = 0 /\ reader'.ended = FALSE
        /\ reader' \in Readers
    BY <2>1, <2>2 DEF Readers
  <2>4. Len(files[<<0>>]) \in Nat
    BY <1>1, <2>2, FilesType
  <2>5. Placed(reader', base')
    <3>1. ~ (0 < Len(files[<<0>>]) /\ files[<<0>>][0 + 1] % 2 = 0)
      <4>1. 0 < Len(files[<<0>>]) => 1 \in 1 .. Len(files[<<0>>])
        BY <2>4
      <4> QED BY <1>1, <2>2, <4>1 DEF Numbered
    <3>2. 0 % 2 = 0
      OBVIOUS
    <3> QED BY <1>5, <2>3, <2>4, <3>1, <3>2 DEF Placed
  <2>6. Covered(reader', shown', base')
    <3>1. ASSUME NEW f \in DOMAIN files, NEW n, Sound(f, n), Passed(reader', base', f, n)
          PROVE  FALSE
      <4>1. f = <<0>> /\ n \in Nat \ {0}
        BY <1>1, <1>5, <3>1 DEF Named, Sound
      <4> QED BY <2>3, <3>1, <4>1 DEF Passed
    <3> QED BY <3>1 DEF Covered
  <2>7. reader' # Absent
    BY <2>1 DEF Absent
  <2> QED BY <1>1, <1>2, <1>3, <2>3, <2>5, <2>6, <2>7, NothingShown, ReaderGoesOn
<1> QED BY <1>4, <1>5

LEMMA CloseReaderKeepsInv ==
  ASSUME Inv, CloseReader
  PROVE  Inv'
<1>1. written \in Nat
  BY BoundsAssumption DEF Inv, FilesInv, TypeOK
<1> QED BY <1>1, NothingShown, ReaderGoesOn DEF CloseReader, Inv

\* What a step of next() starts from.
LEMMA ReadsFrom ==
  ASSUME Inv, Reads
  PROVE  /\ FilesInv /\ TypeOK /\ Named /\ Numbered /\ Apart
         /\ UNCHANGED <<kind, files, clock, writer, written, failures>> /\ base' = base
         /\ reader # Absent /\ reader \in Readers /\ shown \in Pairs /\ base \in 0 .. written
         /\ Placed(reader, base) /\ Sourced(reader, shown) /\ Covered(reader, shown, base)
         /\ Blind(reader, shown) /\ Misled(shown) /\ Ordered(shown)
  BY DEF Inv, FilesInv, ReaderInv, Reads, TypeOK, Readers, Pairs

LEMMA OpenNextKeepsInv ==
  ASSUME Inv, OpenNext
  PROVE  Inv'
<1>1. /\ FilesInv /\ TypeOK /\ Named /\ Numbered
      /\ UNCHANGED <<kind, files, clock, writer, written, failures>> /\ base' = base
      /\ reader # Absent /\ reader \in Readers /\ shown \in Pairs /\ base \in 0 .. written
      /\ Placed(reader, base) /\ Sourced(reader, shown) /\ Covered(reader, shown, base)
      /\ Blind(reader, shown) /\ Misled(shown) /\ Ordered(shown)
  BY ReadsFrom DEF OpenNext
<1>2. reader.at = Closed /\ shown' = shown
  BY <1>1 DEF OpenNext, Opened
<1>3. PICK name \in reader.paths :
        /\ \A other \in reader.paths : name[1] <= other[1]
        /\ reader' = [reader EXCEPT !.at = name, !.paths = @ \ {name}, !.pos = 0]
  BY DEF OpenNext
<1>4. name \in DOMAIN files
  BY <1>1, <1>3 DEF Readers
<1>5. /\ reader'.at = name /\ reader'.paths = reader.paths \ {name} /\ reader'.pos = 0
      /\ reader'.ended = reader.ended /\ reader' \in Readers
  BY <1>1, <1>3, <1>4 DEF Readers
<1>6. name # Closed /\ Len(files[name]) \in Nat
  BY <1>1, <1>4, ClosedIsNone, FilesType
<1>7. kind = "rotating" /\ ~ reader.ended
  BY <1>1, <1>3 DEF Placed
<1>8. reader' # Absent
  <2>1. DOMAIN reader' = {"at", "paths", "pos", "ended"}
    BY <1>5 DEF Readers
  <2> QED BY <2>1 DEF Absent
<1>9. Placed(reader', base')
  <2>1. ~ (0 < Len(files[name]) /\ files[name][0 + 1] % 2 = 0)
    <3>1. 0 < Len(files[name]) => 1 \in 1 .. Len(files[name])
      BY <1>6
    <3> QED BY <1>1, <1>4, <3>1 DEF Numbered
  <2>2. 0 % 2 = 0
    OBVIOUS
  <2> QED BY <1>3, <1>5, <1>6, <1>7, <2>1, <2>2 DEF Placed
<1>10. Sourced(reader', shown)
  <2> SUFFICES ASSUME NEW i \in DOMAIN shown, shown[i][2] # Unset PROVE From(reader', shown[i])
    BY DEF Sourced
  <2>1. PICK f \in DOMAIN files : \E p \in 1 .. Len(files[f]) - 1 :
          /\ shown[i] = <<files[f][p], files[f][p + 1]>>
          /\ f \notin reader.paths /\ \A g \in reader.paths : f[1] <= g[1]
    BY <1>1 DEF Sourced, From
  <2>2. f # name /\ f[1] <= name[1] /\ f \notin reader'.paths /\ \A g \in reader'.paths : f[1] <= g[1]
    BY <1>3, <1>5, <2>1
  <2> QED BY <1>5, <2>1, <2>2 DEF From
<1>11. Covered(reader', shown, base)
  <2> SUFFICES ASSUME NEW f \in DOMAIN files \ reader'.paths, NEW n, Sound(f, n), Passed(reader', base, f, n)
               PROVE  \E i \in DOMAIN shown : shown[i] = <<files[f][2 * n - 1], files[f][2 * n]>>
    BY DEF Covered
  <2>1. f # name
    <3>1. n \in Nat \ {0}
      BY DEF Sound
    <3> QED BY <1>5, <3>1 DEF Passed
  <2>2. f \notin reader.paths /\ f # reader.at
    BY <1>1, <1>2, <1>5, <2>1, ClosedIsNone
  <2>3. Passed(reader, base, f, n)
    BY <1>5, <2>1, <2>2 DEF Passed
  <2> QED BY <1>1, <2>2, <2>3 DEF Covered
<1>12. Blind(reader', shown')
  BY <1>1, <1>2, <1>5 DEF Blind
<1> QED BY <1>1, <1>2, <1>5, <1>8, <1>9, <1>10, <1>11, <1>12, ReaderGoesOn

LEMMA NoFileKeepsInv ==
  ASSUME Inv, NoFile
  PROVE  Inv'
<1>1. /\ FilesInv /\ TypeOK /\ Named /\ Numbered
      /\ UNCHANGED <<kind, files, clock, writer, written, failures>> /\ base' = base
      /\ reader # Absent /\ reader \in Readers /\ shown \in Pairs /\ base \in 0 .. written
      /\ Placed(reader, base) /\ Sourced(reader, shown) /\ Covered(reader, shown, base)
      /\ Blind(reader, shown) /\ Misled(shown) /\ Ordered(shown)
  BY ReadsFrom DEF NoFile
<1>2. reader.at = Closed /\ reader.paths = {} /\ shown' = shown /\ reader' = [reader EXCEPT !.ended = TRUE]
  BY <1>1 DEF NoFile, Opened
<1>3. /\ reader'.at = Closed /\ reader'.paths = {} /\ reader'.pos = reader.pos
      /\ reader'.ended = TRUE /\ reader' \in Readers /\ reader' # Absent
  BY <1>1, <1>2 DEF Readers, Absent
<1>4. Placed(reader', base')
  BY <1>3 DEF Placed
<1>5. Sourced(reader', shown) /\ Covered(reader', shown, base)
  BY <1>1, <1>2, <1>3 DEF Sourced, From, Covered, Passed
<1>6. Blind(reader', shown')
  BY <1>1, <1>2, <1>3 DEF Blind
<1> QED BY <1>1, <1>2, <1>3, <1>4, <1>5, <1>6, ReaderGoesOn

\* What the reader is given by one fread or gzread: the next two halves of its file.
LEMMA NextPair ==
  ASSUME Inv, Reads, Opened, Left >= 2
  PROVE  /\ reader.at \in DOMAIN files /\ reader.pos \in Nat /\ Len(files[reader.at]) \in Nat
         /\ reader.pos + 2 <= Len(files[reader.at])
         /\ Ahead = <<files[reader.at][reader.pos + 1], files[reader.at][reader.pos + 2]>>
         /\ files[reader.at][reader.pos + 1] \in Half /\ files[reader.at][reader.pos + 2] \in Half
         /\ Ahead \in Half \X Half
<1>1. reader.at \in DOMAIN files /\ reader.pos \in Nat /\ TypeOK
  BY ReadsFrom DEF Readers, Opened
<1>2. files[reader.at] \in Seq(Half) /\ Len(files[reader.at]) \in Nat
  BY <1>1, FilesType
<1> DEFINE s == files[reader.at]
           pos == reader.pos
<1>3. s \in Seq(Half) /\ Len(s) \in Nat /\ pos \in Nat /\ pos + 2 <= Len(s)
  BY <1>1, <1>2 DEF Left
<1>4. Ahead = SubSeq(s, pos + 1, pos + 2)
  BY DEF Ahead
<1> HIDE DEF s, pos
<1>5. pos + 1 \in 1 .. Len(s) - 1 /\ (pos + 1) + 1 = pos + 2
  BY <1>3
<1>6. SubSeq(s, pos + 1, (pos + 1) + 1) = <<s[pos + 1], s[(pos + 1) + 1]>>
      /\ s[pos + 1] \in Half /\ s[(pos + 1) + 1] \in Half
  BY <1>3, <1>5, PairAt
<1>7. Ahead = <<s[pos + 1], s[pos + 2]>> /\ s[pos + 1] \in Half /\ s[pos + 2] \in Half
  BY <1>4, <1>5, <1>6
<1>8. Ahead \in Half \X Half
  BY <1>7
<1> QED BY <1>1, <1>3, <1>7, <1>8 DEF s, pos

\* If the half at the position is a second one, or the pair is no record, there is damage.
LEMMA DamageBehind ==
  ASSUME NEW x \in Nat, NEW y \in Nat, NEW z \in Nat, z % 2 = 0, y = z - 1
  PROVE  x % 2 = 1 => y # x + 1
<1>1. y % 2 = 1
  BY Parity
<1>2. x % 2 = 1 => (x + 1) % 2 = 0
  BY Parity
<1> QED BY <1>1, <1>2

LEMMA ReadRecordKeepsInv ==
  ASSUME Inv, ReadRecord
  PROVE  Inv'
<1>1. /\ FilesInv /\ TypeOK /\ Named /\ Numbered /\ Apart
      /\ UNCHANGED <<kind, files, clock, writer, written, failures>> /\ base' = base
      /\ reader # Absent /\ reader \in Readers /\ shown \in Pairs /\ base \in 0 .. written
      /\ Placed(reader, base) /\ Sourced(reader, shown) /\ Covered(reader, shown, base)
      /\ Blind(reader, shown) /\ Misled(shown) /\ Ordered(shown)
  BY ReadsFrom DEF ReadRecord
<1>2. PICK f, pos : f = reader.at /\ pos = reader.pos
  OBVIOUS
<1>3. PICK s : s = files[f]
  OBVIOUS
<1>4. /\ f \in DOMAIN files /\ pos \in Nat /\ Len(s) \in Nat /\ pos + 2 <= Len(s)
      /\ Ahead = <<s[pos + 1], s[pos + 2]>>
      /\ s[pos + 1] \in Half /\ s[pos + 2] \in Half /\ Ahead \in Half \X Half
  BY <1>2, <1>3, NextPair DEF ReadRecord
<1>5. \A p \in 1 .. Len(s) : s[p] \in Nat
  BY <1>1, <1>3, <1>4, FilesType
<1>6. f # Closed
  BY <1>1, <1>4, ClosedIsNone
<1>7. shown' = Append(shown, Ahead) /\ (kind = "gzip" => IsWhole(Ahead))
      /\ reader' = [reader EXCEPT !.pos = @ + 2]
  BY DEF ReadRecord, RecordAhead
<1>8. /\ reader'.at = f /\ reader'.pos = pos + 2 /\ reader'.paths = reader.paths
      /\ reader'.ended = reader.ended /\ reader' \in Readers
  <2>1. reader.pos + 2 \in Nat
    BY <1>2, <1>4
  <2>2. reader' = [at |-> reader.at, paths |-> reader.paths, pos |-> reader.pos + 2, ended |-> reader.ended]
    BY <1>1, <1>7 DEF Readers
  <2>3. reader.at \in DOMAIN files \union {Closed} /\ reader.paths \in SUBSET DOMAIN files
        /\ reader.ended \in BOOLEAN
    BY <1>1 DEF Readers
  <2>4. reader' \in Readers
    BY <2>1, <2>2, <2>3 DEF Readers
  <2> QED BY <1>2, <2>2, <2>4
<1>9. reader' # Absent
  <2>1. DOMAIN reader' = {"at", "paths", "pos", "ended"}
    BY <1>8 DEF Readers
  <2> QED BY <2>1 DEF Absent
<1>10. /\ shown' \in Pairs /\ Len(shown) \in Nat
       /\ DOMAIN shown = 1 .. Len(shown) /\ DOMAIN shown' = 1 .. Len(shown) + 1
       /\ \A i \in DOMAIN shown : shown'[i] = shown[i]
       /\ shown'[Len(shown) + 1] = Ahead
  BY <1>1, <1>4, <1>7, AppendProperties, LenProperties DEF Pairs
<1>11. (\A i \in DOMAIN shown : shown[i][2] # Unset) /\ Ahead[2] # Unset
  <2>1. ASSUME NEW i \in DOMAIN shown, shown[i][2] = Unset PROVE FALSE
    <3>1. kind = "gzip" /\ reader.ended
      BY <1>1, <2>1 DEF Blind
    <3> QED BY <3>1 DEF ReadRecord, RecordAhead
  <2>2. Ahead[2] = s[pos + 2] /\ s[pos + 2] \in Half
    BY <1>4
  <2>3. 0 \notin Half
    BY BoundsAssumption DEF Half
  <2> QED BY <2>1, <2>2, <2>3 DEF Unset
<1>12. /\ f \notin reader.paths /\ pos <= Len(s)
       /\ \A g \in reader.paths : f[1] <= g[1]
       /\ kind = "rotating" => pos % 2 = 0
       /\ pos % 2 = 1 => \A n : Sound(f, n) => 2 * n < pos
       /\ reader.ended => \A n : Sound(f, n) /\ s[2 * n] <= 2 * base => 2 * n <= pos
       /\ s[pos + 1] % 2 = 0 => \E q \in 1 .. pos : Broken(f, q)
       /\ kind # "rotating" => reader.paths = {}
       /\ ~ (kind = "rotating" /\ reader.ended)
  BY <1>1, <1>2, <1>3, <1>4, <1>6 DEF Placed
<1>13. \A p \in 1 .. Len(s) :
         /\ s[p] <= 2 * written
         /\ s[p] % 2 = 0 => p > 1 /\ s[p - 1] = s[p] - 1
         /\ \A q \in 1 .. p - 1 : s[q] < s[p]
  BY <1>1, <1>3, <1>4 DEF Numbered
<1>14. pos + 1 \in 1 .. Len(s) /\ pos + 2 \in 1 .. Len(s) /\ pos + 1 \in 1 .. Len(s) - 1
  BY <1>4
<1>15. Placed(reader', base')
  <2>1. (pos + 2) % 2 = pos % 2
    BY <1>4, Parity
  <2>2. pos % 2 = 1 => \A n : Sound(f, n) => 2 * n < pos + 2
    <3> SUFFICES ASSUME pos % 2 = 1, NEW n, Sound(f, n) PROVE 2 * n < pos + 2
      OBVIOUS
    <3>1. 2 * n < pos
      BY <1>12
    <3>2. n \in Nat
      BY DEF Sound
    <3> QED BY <1>4, <3>1, <3>2
  <2>3. reader.ended => \A n : Sound(f, n) /\ s[2 * n] <= 2 * base => 2 * n <= pos + 2
    <3> SUFFICES ASSUME reader.ended, NEW n, Sound(f, n), s[2 * n] <= 2 * base PROVE 2 * n <= pos + 2
      OBVIOUS
    <3>1. 2 * n <= pos
      BY <1>12
    <3>2. n \in Nat
      BY DEF Sound
    <3> QED BY <1>4, <3>1, <3>2
  <2>4. ASSUME pos + 2 < Len(s), s[(pos + 2) + 1] % 2 = 0
        PROVE  \E q \in 1 .. pos + 2 : Broken(f, q)
    <3>1. (pos + 2) + 1 \in 1 .. Len(s) /\ ((pos + 2) + 1) - 1 = pos + 2
      BY <1>4, <2>4
    <3>2. s[pos + 2] = s[(pos + 2) + 1] - 1
      BY <1>13, <2>4, <3>1
    <3>3. s[pos + 1] \in Nat /\ s[pos + 2] \in Nat /\ s[(pos + 2) + 1] \in Nat
      BY <1>5, <1>14, <3>1
    <3>4. CASE s[pos + 1] % 2 = 1
      <4>1. s[pos + 2] # s[pos + 1] + 1
        BY <2>4, <3>2, <3>3, <3>4, DamageBehind
      <4>2. (pos + 1) + 1 = pos + 2 /\ pos + 1 \in 1 .. pos + 2
        BY <1>4
      <4>3. Broken(f, pos + 1)
        BY <1>3, <3>4, <4>1, <4>2 DEF Broken
      <4> QED BY <4>2, <4>3
    <3>5. CASE s[pos + 1] % 2 = 0
      <4>1. PICK q \in 1 .. pos : Broken(f, q)
        BY <1>12, <3>5
      <4>2. q \in 1 .. pos + 2
        BY <1>4
      <4> QED BY <4>1, <4>2
    <3> QED BY <3>3, <3>4, <3>5, Parity
  <2> QED BY <1>1, <1>3, <1>4, <1>8, <1>12, <2>1, <2>2, <2>3, <2>4 DEF Placed
<1>16. Sourced(reader', shown')
  <2>1. ASSUME NEW i \in DOMAIN shown PROVE From(reader', shown[i])
    <3>1. PICK g \in DOMAIN files : \E p \in 1 .. Len(files[g]) - 1 :
            /\ shown[i] = <<files[g][p], files[g][p + 1]>>
            /\ g \notin reader.paths /\ \A h \in reader.paths : g[1] <= h[1]
            /\ IF g = f THEN p + 1 <= pos ELSE f # Closed => g[1] <= f[1]
      BY <1>1, <1>2, <1>11 DEF Sourced, From
    <3>2. PICK p \in 1 .. Len(files[g]) - 1 :
            /\ shown[i] = <<files[g][p], files[g][p + 1]>>
            /\ g \notin reader.paths /\ \A h \in reader.paths : g[1] <= h[1]
            /\ IF g = f THEN p + 1 <= pos ELSE f # Closed => g[1] <= f[1]
      BY <3>1
    <3>3. g = f => p + 1 <= pos + 2
      BY <1>3, <1>4, <3>2
    <3> QED BY <1>8, <3>2, <3>3 DEF From
  <2>2. From(reader', Ahead)
    <3>1. (pos + 1) + 1 = pos + 2 /\ (pos + 1) + 1 <= pos + 2
      BY <1>4
    <3> QED BY <1>3, <1>4, <1>8, <1>12, <1>14, <3>1 DEF From
  <2>3. \A i \in DOMAIN shown' : i \in DOMAIN shown \/ i = Len(shown) + 1
    BY <1>10
  <2> QED BY <1>10, <2>1, <2>2, <2>3 DEF Sourced
<1>17. Covered(reader', shown', base')
  <2> SUFFICES ASSUME NEW g \in DOMAIN files \ reader.paths, NEW n, Sound(g, n), Passed(reader', base, g, n)
               PROVE  \E i \in DOMAIN shown' : shown'[i] = <<files[g][2 * n - 1], files[g][2 * n]>>
    BY <1>1, <1>8 DEF Covered
  <2>1. CASE Passed(reader, base, g, n)
    <3>1. PICK i \in DOMAIN shown : shown[i] = <<files[g][2 * n - 1], files[g][2 * n]>>
      BY <1>1, <2>1 DEF Covered
    <3>2. i \in DOMAIN shown' /\ shown'[i] = shown[i]
      BY <1>10
    <3> QED BY <3>1, <3>2
  <2>2. CASE ~ Passed(reader, base, g, n)
    <3>1. g = f /\ 2 * n <= pos + 2 /\ ~ (2 * n <= pos) /\ n \in Nat
      BY <1>2, <1>8, <2>2 DEF Passed, Sound
    <3>2. pos % 2 = 0
      BY <1>4, <1>12, <3>1, Parity
    <3>3. 2 * n = pos + 2 /\ 2 * n - 1 = pos + 1
      <4>1. 2 * n # pos + 1
        BY <1>4, <3>1, <3>2, Parity
      <4> QED BY <1>4, <3>1, <4>1
    <3>4. Len(shown) + 1 \in DOMAIN shown'
      BY <1>10
    <3> QED BY <1>3, <1>4, <1>10, <3>1, <3>3, <3>4
  <2> QED BY <2>1, <2>2
<1>18. Misled(shown')
  <2>1. ASSUME ~ IsWhole(Ahead)
        PROVE  /\ kind # "gzip"
               /\ \E g \in DOMAIN files : \E p \in 1 .. Len(files[g]) - 1 :
                    Ahead = <<files[g][p], files[g][p + 1]>> /\ \E q \in 1 .. p : Broken(g, q)
    <3>1. s[pos + 1] \in Nat /\ (pos + 1) + 1 = pos + 2
      BY <1>4, <1>5, <1>14
    <3>2. \E q \in 1 .. pos + 1 : Broken(f, q)
      <4>1. CASE s[pos + 1] % 2 = 1
        <5>1. s[pos + 2] # s[pos + 1] + 1
          BY <1>4, <2>1, <4>1 DEF IsWhole
        <5>2. Broken(f, pos + 1) /\ pos + 1 \in 1 .. pos + 1
          BY <1>3, <1>4, <3>1, <4>1, <5>1 DEF Broken
        <5> QED BY <5>2
      <4>2. CASE s[pos + 1] % 2 = 0
        <5>1. PICK q \in 1 .. pos : Broken(f, q)
          BY <1>12, <4>2
        <5>2. q \in 1 .. pos + 1
          BY <1>4
        <5> QED BY <5>1, <5>2
      <4> QED BY <3>1, <4>1, <4>2, Parity
    <3>3. Ahead = <<files[f][pos + 1], files[f][(pos + 1) + 1]>> /\ pos + 1 \in 1 .. Len(files[f]) - 1
      BY <1>3, <1>4, <1>14, <3>1
    <3> QED BY <1>4, <1>7, <2>1, <3>2, <3>3
  <2>2. \A i \in DOMAIN shown' : i \in DOMAIN shown \/ i = Len(shown) + 1
    BY <1>10
  <2>3. ASSUME NEW i \in DOMAIN shown'
        PROVE  \/ IsWhole(shown'[i]) \/ shown'[i][2] = Unset
               \/ /\ kind # "gzip"
                  /\ \E g \in DOMAIN files : \E p \in 1 .. Len(files[g]) - 1 :
                       shown'[i] = <<files[g][p], files[g][p + 1]>> /\ \E q \in 1 .. p : Broken(g, q)
    <3>1. CASE i \in DOMAIN shown
      BY <1>1, <1>10, <3>1 DEF Misled
    <3>2. CASE i = Len(shown) + 1
      BY <1>10, <2>1, <3>2
    <3> QED BY <2>2, <3>1, <3>2
  <2> QED BY <2>3 DEF Misled
<1>19. Ordered(shown')
  <2>1. ASSUME NEW i \in DOMAIN shown PROVE shown[i] # Ahead /\ (behind = 0 => shown[i][1] < Ahead[1])
    <3>1. PICK g \in DOMAIN files : \E p \in 1 .. Len(files[g]) - 1 :
            /\ shown[i] = <<files[g][p], files[g][p + 1]>>
            /\ IF g = f THEN p + 1 <= pos ELSE f # Closed => g[1] <= f[1]
      BY <1>1, <1>2, <1>11 DEF Sourced, From
    <3>2. PICK p \in 1 .. Len(files[g]) - 1 :
            /\ shown[i] = <<files[g][p], files[g][p + 1]>>
            /\ IF g = f THEN p + 1 <= pos ELSE f # Closed => g[1] <= f[1]
      BY <3>1
    <3>3. shown[i][1] = files[g][p] /\ Ahead[1] = s[pos + 1]
      BY <1>4, <3>2
    <3>4. p \in 1 .. Len(files[g]) /\ Len(files[g]) \in Nat
      BY <1>1, FilesType
    <3>5. CASE g = f
      <4>1. p \in 1 .. (pos + 1) - 1
        BY <1>4, <3>2, <3>4, <3>5
      <4>2. files[g][p] < s[pos + 1]
        BY <1>3, <1>13, <1>14, <3>5, <4>1
      <4>3. files[g][p] \in Nat /\ s[pos + 1] \in Nat
        BY <1>3, <1>5, <1>14, <3>4, <3>5
      <4> QED BY <3>3, <4>2, <4>3
    <3>6. CASE g # f
      <4>1. g[1] <= f[1]
        BY <1>6, <3>2, <3>6
      <4>2. g = <<g[1]>> /\ f = <<f[1]>> /\ g[1] \in Int /\ f[1] \in Int
        BY <1>1, <1>4 DEF Named
      <4>3. g[1] # f[1]
        BY <3>6, <4>2
      <4>4. g[1] < f[1]
        BY <4>1, <4>2, <4>3
      <4>5. files[g][p] # s[pos + 1] /\ (behind = 0 => files[g][p] < s[pos + 1])
        BY <1>1, <1>3, <1>4, <1>14, <3>4, <3>6, <4>4 DEF Apart
      <4> QED BY <3>3, <4>5
    <3> QED BY <3>5, <3>6
  <2>2. ASSUME NEW i \in DOMAIN shown', NEW j \in DOMAIN shown', i < j
        PROVE  shown'[i] # shown'[j] /\ (behind = 0 => shown'[i][1] < shown'[j][1])
    <3>1. i \in DOMAIN shown
      BY <1>10, <2>2
    <3>2. CASE j \in DOMAIN shown
      BY <1>1, <1>10, <1>11, <2>2, <3>1, <3>2 DEF Ordered
    <3>3. CASE j = Len(shown) + 1
      BY <1>10, <2>1, <3>1, <3>3
    <3> QED BY <1>10, <3>2, <3>3
  <2> QED BY <2>2 DEF Ordered
<1>20. Blind(reader', shown')
  <2>1. \A i \in DOMAIN shown' : shown'[i][2] # Unset
    BY <1>10, <1>11
  <2> QED BY <2>1 DEF Blind
<1> QED BY <1>1, <1>8, <1>9, <1>10, <1>15, <1>16, <1>17, <1>18, <1>19, <1>20, ReaderGoesOn

\* The end of a file that rotates: what is sound in it was shown.
LEMMA FileEndKeepsInv ==
  ASSUME Inv, ReadEnd, kind = "rotating"
  PROVE  Inv'
<1>1. /\ FilesInv /\ TypeOK /\ Named
      /\ UNCHANGED <<kind, files, clock, writer, written, failures>> /\ base' = base
      /\ reader # Absent /\ reader \in Readers /\ shown \in Pairs /\ base \in 0 .. written
      /\ Placed(reader, base) /\ Sourced(reader, shown) /\ Covered(reader, shown, base)
      /\ Blind(reader, shown) /\ Misled(shown) /\ Ordered(shown)
  BY ReadsFrom DEF ReadEnd
<1>2. PICK f, pos : f = reader.at /\ pos = reader.pos
  OBVIOUS
<1>3. f # Closed /\ f \in DOMAIN files /\ pos \in Nat /\ Len(files[f]) \in Nat /\ Len(files[f]) - pos < 2
  BY <1>1, <1>2, FilesType DEF ReadEnd, Opened, Left, Readers
<1>4. shown' = shown /\ reader' = [reader EXCEPT !.at = Closed]
  BY DEF ReadEnd
<1>5. reader'.at = Closed /\ reader'.paths = reader.paths /\ reader'.ended = reader.ended /\ reader' \in Readers
  BY <1>1, <1>4 DEF Readers
<1>6. reader' # Absent
  <2>1. DOMAIN reader' = {"at", "paths", "pos", "ended"}
    BY <1>5 DEF Readers
  <2> QED BY <2>1 DEF Absent
<1>7. pos % 2 = 0 /\ ~ reader.ended
  BY <1>1, <1>2, <1>3 DEF Placed
<1>8. Placed(reader', base')
  BY <1>1, <1>5, <1>7 DEF Placed
<1>9. Sourced(reader', shown)
  BY <1>1, <1>5, ClosedIsNone DEF Sourced, From
<1>10. Covered(reader', shown, base)
  <2> SUFFICES ASSUME NEW g \in DOMAIN files \ reader.paths, NEW n, Sound(g, n), Passed(reader', base, g, n)
               PROVE  \E i \in DOMAIN shown : shown[i] = <<files[g][2 * n - 1], files[g][2 * n]>>
    BY <1>5 DEF Covered
  <2>1. Passed(reader, base, g, n)
    <3>1. CASE g = f
      <4>1. n \in Nat /\ 2 * n <= Len(files[f])
        BY <3>1 DEF Sound
      <4>2. 2 * n # pos + 1
        BY <1>3, <1>7, <4>1, Parity
      <4>3. 2 * n <= pos
        BY <1>3, <4>1, <4>2
      <4> QED BY <1>2, <3>1, <4>3 DEF Passed
    <3>2. CASE g # f
      BY <1>1, <1>2, <1>5, <3>2, ClosedIsNone DEF Passed
    <3> QED BY <3>1, <3>2
  <2> QED BY <1>1, <2>1 DEF Covered
<1>11. Blind(reader', shown')
  BY <1>1, <1>4, <1>5 DEF Blind
<1> QED BY <1>1, <1>4, <1>5, <1>6, <1>8, <1>9, <1>10, <1>11, ReaderGoesOn

\* The end of another log: what is left is read, and is no record.
LEMMA LogEndKeepsInv ==
  ASSUME Inv, ReadEnd, kind # "rotating"
  PROVE  Inv'
<1>1. /\ FilesInv /\ TypeOK /\ Named
      /\ UNCHANGED <<kind, files, clock, writer, written, failures>> /\ base' = base
      /\ reader # Absent /\ reader \in Readers /\ shown \in Pairs /\ base \in 0 .. written
      /\ Placed(reader, base) /\ Sourced(reader, shown) /\ Covered(reader, shown, base)
      /\ Blind(reader, shown) /\ Misled(shown) /\ Ordered(shown)
  BY ReadsFrom DEF ReadEnd
<1>2. PICK f, pos, len : f = reader.at /\ pos = reader.pos /\ len = Len(files[f])
  OBVIOUS
<1>3. f # Closed /\ f \in DOMAIN files /\ pos \in Nat /\ len \in Nat /\ len - pos < 2
  BY <1>1, <1>2, FilesType DEF ReadEnd, Opened, Left, Readers
<1>4. /\ f \notin reader.paths /\ pos <= len
      /\ \A g \in reader.paths : f[1] <= g[1]
      /\ pos % 2 = 1 => \A n : Sound(f, n) => 2 * n < pos
      /\ reader.paths = {}
  BY <1>1, <1>2, <1>3 DEF Placed
<1>5. shown' = shown /\ reader' = [reader EXCEPT !.pos = @ + Left, !.ended = TRUE] /\ pos + Left = len
  BY <1>2, <1>3 DEF ReadEnd, Left
<1>6. /\ reader'.at = f /\ reader'.paths = reader.paths /\ reader'.pos = len
      /\ reader'.ended = TRUE /\ reader' \in Readers
  <2>1. reader' = [at |-> f, paths |-> reader.paths, pos |-> len, ended |-> TRUE]
    BY <1>1, <1>2, <1>5 DEF Readers
  <2>2. f \in DOMAIN files \union {Closed} /\ reader.paths \in SUBSET DOMAIN files
    BY <1>1, <1>3 DEF Readers
  <2>3. reader' \in Readers
    BY <1>3, <2>1, <2>2 DEF Readers
  <2> QED BY <2>1, <2>3
<1>7. reader' # Absent
  <2>1. DOMAIN reader' = {"at", "paths", "pos", "ended"}
    BY <1>6 DEF Readers
  <2> QED BY <2>1 DEF Absent
<1>8. ASSUME NEW n, Sound(f, n) PROVE n \in Nat /\ 2 * n <= len /\ 2 * n <= pos
  <2>1. n \in Nat /\ 2 * n <= len
    BY <1>2, <1>8 DEF Sound
  <2>2. CASE pos % 2 = 1
    <3>1. 2 * n < pos
      BY <1>4, <1>8, <2>2
    <3> QED BY <1>3, <2>1, <3>1
  <2>3. CASE pos % 2 = 0
    <3>1. 2 * n # pos + 1
      BY <1>3, <2>1, <2>3, Parity
    <3> QED BY <1>3, <2>1, <3>1
  <2> QED BY <1>3, <2>2, <2>3, Parity
<1>9. Placed(reader', base')
  <2>1. ASSUME len % 2 = 1, NEW n, Sound(f, n) PROVE 2 * n < len
    <3>1. n \in Nat /\ 2 * n <= len
      BY <1>8, <2>1
    <3>2. 2 * n # len
      BY <2>1, <3>1, Parity
    <3> QED BY <1>3, <3>1, <3>2
  <2>2. ASSUME NEW n, Sound(f, n) PROVE 2 * n <= len
    BY <1>8, <2>2
  <2>3. Len(files[f]) = len /\ len <= len /\ ~ (len < len)
    BY <1>2, <1>3
  <2> HIDE <1>3, <1>5, <1>8
  <2>4. kind # "rotating"
    OBVIOUS
  <2>5. /\ f \notin reader.paths /\ \A g \in reader.paths : f[1] <= g[1]
        /\ reader.paths = {}
    BY <1>4
  <2> QED BY <1>6, <2>1, <2>2, <2>3, <2>4, <2>5 DEF Placed
<1>10. Sourced(reader', shown)
  <2> SUFFICES ASSUME NEW i \in DOMAIN shown, shown[i][2] # Unset PROVE From(reader', shown[i])
    BY DEF Sourced
  <2>1. PICK g \in DOMAIN files : \E p \in 1 .. Len(files[g]) - 1 :
          /\ shown[i] = <<files[g][p], files[g][p + 1]>>
          /\ g \notin reader.paths /\ \A h \in reader.paths : g[1] <= h[1]
          /\ IF g = f THEN p + 1 <= pos ELSE f # Closed => g[1] <= f[1]
    BY <1>1, <1>2 DEF Sourced, From
  <2>2. PICK p \in 1 .. Len(files[g]) - 1 :
          /\ shown[i] = <<files[g][p], files[g][p + 1]>>
          /\ g \notin reader.paths /\ \A h \in reader.paths : g[1] <= h[1]
          /\ IF g = f THEN p + 1 <= pos ELSE f # Closed => g[1] <= f[1]
    BY <2>1
  <2>3. g = f => p + 1 <= len
    BY <1>2, <1>3, <2>2
  <2> QED BY <1>6, <2>2, <2>3 DEF From
<1>11. Covered(reader', shown, base)
  <2> SUFFICES ASSUME NEW g \in DOMAIN files \ reader.paths, NEW n, Sound(g, n), Passed(reader', base, g, n)
               PROVE  \E i \in DOMAIN shown : shown[i] = <<files[g][2 * n - 1], files[g][2 * n]>>
    BY <1>6 DEF Covered
  <2>1. Passed(reader, base, g, n)
    BY <1>2, <1>6, <1>8 DEF Passed
  <2> QED BY <1>1, <2>1 DEF Covered
<1>12. Blind(reader', shown')
  BY <1>1, <1>5, <1>6 DEF Blind
<1> QED BY <1>1, <1>5, <1>6, <1>7, <1>9, <1>10, <1>11, <1>12, ReaderGoesOn

\* A stream that was cut: nothing behind the cut is sound.
LEMMA ReadFailsKeepsInv ==
  ASSUME Inv, ReadFails
  PROVE  Inv'
<1>1. /\ FilesInv /\ TypeOK /\ Named
      /\ UNCHANGED <<kind, files, clock, writer, written, failures>> /\ base' = base
      /\ reader # Absent /\ reader \in Readers /\ shown \in Pairs /\ base \in 0 .. written
      /\ Placed(reader, base) /\ Sourced(reader, shown) /\ Covered(reader, shown, base)
      /\ Blind(reader, shown) /\ Misled(shown) /\ Ordered(shown)
  BY ReadsFrom DEF ReadFails
<1>2. PICK f, pos : f = reader.at /\ pos = reader.pos
  OBVIOUS
<1>3. /\ f # Closed /\ f \in DOMAIN files /\ pos \in Nat /\ Len(files[f]) \in Nat /\ pos + 2 <= Len(files[f])
      /\ Ahead = <<files[f][pos + 1], files[f][pos + 2]>>
  BY <1>2, NextPair DEF ReadFails, Opened
<1>4. shown' = shown /\ reader' = [reader EXCEPT !.ended = TRUE] /\ kind # "rotating"
  BY DEF ReadFails
<1>5. /\ reader'.at = f /\ reader'.paths = reader.paths /\ reader'.pos = pos
      /\ reader'.ended = TRUE /\ reader' \in Readers
  BY <1>1, <1>2, <1>4 DEF Readers
<1>6. reader' # Absent
  <2>1. DOMAIN reader' = {"at", "paths", "pos", "ended"}
    BY <1>5 DEF Readers
  <2> QED BY <2>1 DEF Absent
<1>7. /\ f \notin reader.paths /\ pos <= Len(files[f])
      /\ \A g \in reader.paths : f[1] <= g[1]
      /\ pos % 2 = 1 => \A n : Sound(f, n) => 2 * n < pos
      /\ files[f][pos + 1] % 2 = 0 => \E q \in 1 .. pos : Broken(f, q)
      /\ reader.paths = {}
  BY <1>1, <1>2, <1>3, <1>4 DEF Placed
<1>8. ASSUME NEW n, Sound(f, n), ~ (2 * n <= pos) PROVE FALSE
  <2>1. n \in Nat \ {0} /\ \A m \in 1 .. n : Whole(f, m)
    BY <1>8 DEF Sound
  <2>2. pos % 2 = 0
    <3>1. CASE pos % 2 = 1
      <4>1. 2 * n < pos
        BY <1>7, <1>8, <3>1
      <4> QED BY <1>3, <1>8, <2>1, <4>1
    <3> QED BY <1>3, <3>1, Parity
  <2>3. PICK m \in Nat : pos = 2 * m
    <3>1. pos = 2 * (pos \div 2) /\ pos \div 2 \in Nat
      BY <1>3, <2>2
    <3> QED BY <3>1
  <2>4. m + 1 \in 1 .. n /\ 2 * (m + 1) - 1 = pos + 1 /\ 2 * (m + 1) = pos + 2
    BY <1>3, <1>8, <2>1, <2>3
  <2>5. files[f][pos + 1] % 2 = 1 /\ files[f][pos + 2] = files[f][pos + 1] + 1
    BY <2>1, <2>4 DEF Whole
  <2>6. IsWhole(Ahead)
    BY <1>3, <2>5 DEF IsWhole
  <2> QED BY <2>6 DEF ReadFails
<1>9. Placed(reader', base')
  BY <1>4, <1>5, <1>7, <1>8 DEF Placed
<1>10. Sourced(reader', shown)
  BY <1>1, <1>2, <1>5 DEF Sourced, From
<1>11. Covered(reader', shown, base)
  BY <1>1, <1>2, <1>5 DEF Covered, Passed
<1>12. Blind(reader', shown')
  BY <1>1, <1>4, <1>5 DEF Blind
<1> QED BY <1>1, <1>4, <1>5, <1>6, <1>9, <1>10, <1>11, <1>12, ReaderGoesOn

(* T next() at the end, or where no record can be read: nothing sound is     *)
(* there, and if it was so before, nothing at all is read.                   *)
LEMMA ReadUnsetKeepsInv ==
  ASSUME Inv, ReadUnset
  PROVE  Inv'
<1>1. /\ FilesInv /\ TypeOK /\ Named
      /\ UNCHANGED <<kind, files, clock, writer, written, failures>> /\ base' = base
      /\ reader # Absent /\ reader \in Readers /\ shown \in Pairs /\ base \in 0 .. written
      /\ Placed(reader, base) /\ Sourced(reader, shown) /\ Covered(reader, shown, base)
      /\ Blind(reader, shown) /\ Misled(shown) /\ Ordered(shown)
  BY ReadsFrom DEF ReadUnset
<1>2. PICK f, pos, len : f = reader.at /\ pos = reader.pos /\ len = Len(files[f])
  OBVIOUS
<1>3. f # Closed /\ f \in DOMAIN files /\ pos \in Nat /\ len \in Nat
  BY <1>1, <1>2, FilesType DEF ReadUnset, Opened, Readers
<1>4. kind = "gzip" /\ reader' = [reader EXCEPT !.ended = TRUE] /\ ~ RecordAhead
  BY DEF ReadUnset
<1>5. /\ f \notin reader.paths /\ pos <= len
      /\ \A g \in reader.paths : f[1] <= g[1]
      /\ pos % 2 = 1 => \A n : Sound(f, n) => 2 * n < pos
      /\ reader.ended => \A n : Sound(f, n) /\ files[f][2 * n] <= 2 * base => 2 * n <= pos
      /\ pos < len /\ files[f][pos + 1] % 2 = 0 => \E q \in 1 .. pos : Broken(f, q)
      /\ reader.paths = {}
  BY <1>1, <1>2, <1>3, <1>4 DEF Placed
<1>6. PICK half \in Scrap : shown' = Append(shown, <<half, Unset>>)
  BY DEF ReadUnset
<1>7. half \in Half \union {Unset} /\ (reader.ended => half = Unset)
  <2>1. CASE reader.ended \/ Left = 0
    <3>1. half = Unset
      BY <1>6, <2>1 DEF Scrap
    <3> QED BY <3>1
  <2>2. CASE ~ (reader.ended \/ Left = 0)
    <3>1. half \in {Unset, files[f][pos + 1]}
      BY <1>2, <1>6, <2>2 DEF Scrap
    <3>2. len - pos # 0 /\ pos + 1 \in 1 .. len
      BY <1>2, <1>3, <1>5, <2>2 DEF Left
    <3>3. files[f][pos + 1] \in Half
      BY <1>1, <1>2, <1>3, <3>2, FilesType
    <3> QED BY <2>2, <3>1, <3>3
  <2> QED BY <2>1, <2>2
<1>8. /\ reader'.at = f /\ reader'.paths = reader.paths /\ reader'.pos = pos
      /\ reader'.ended = TRUE /\ reader' \in Readers /\ reader' # Absent
  <2>1. /\ reader'.at = f /\ reader'.paths = reader.paths /\ reader'.pos = pos
        /\ reader'.ended = TRUE /\ reader' \in Readers
    BY <1>1, <1>2, <1>4 DEF Readers
  <2>2. DOMAIN reader' = {"at", "paths", "pos", "ended"}
    BY <2>1 DEF Readers
  <2> QED BY <2>1, <2>2 DEF Absent
<1>9. ASSUME NEW n, Sound(f, n), files[f][2 * n] <= 2 * base, ~ (2 * n <= pos) PROVE FALSE
  <2>1. n \in Nat \ {0} /\ 2 * n <= len /\ \A m \in 1 .. n : Whole(f, m)
    BY <1>2, <1>9 DEF Sound
  <2>2. ~ reader.ended
    BY <1>5, <1>9
  <2>3. pos % 2 = 0
    <3>1. CASE pos % 2 = 1
      <4>1. 2 * n < pos
        BY <1>5, <1>9, <3>1
      <4> QED BY <1>3, <1>9, <2>1, <4>1
    <3> QED BY <1>3, <3>1, Parity
  <2>4. PICK m \in Nat : pos = 2 * m
    <3>1. pos = 2 * (pos \div 2) /\ pos \div 2 \in Nat
      BY <1>3, <2>3
    <3> QED BY <3>1
  <2>5. m + 1 \in 1 .. n /\ 2 * (m + 1) - 1 = pos + 1 /\ 2 * (m + 1) = pos + 2 /\ pos + 2 <= len
    BY <1>3, <1>9, <2>1, <2>4
  <2>6. files[f][pos + 1] % 2 = 1 /\ files[f][pos + 2] = files[f][pos + 1] + 1
    BY <2>1, <2>5 DEF Whole
  <2>7. Left >= 2
    BY <1>2, <1>3, <2>5 DEF Left
  <2>8. Ahead = <<files[f][pos + 1], files[f][pos + 2]>>
    BY <1>2, <2>7, NextPair DEF ReadUnset
  <2>9. IsWhole(Ahead)
    BY <2>6, <2>8 DEF IsWhole
  <2> QED BY <1>4, <2>2, <2>7, <2>9 DEF RecordAhead
<1>10. Placed(reader', base')
  <2>1. \A n : Sound(f, n) /\ files[f][2 * n] <= 2 * base => 2 * n <= pos
    BY <1>9
  <2> HIDE <1>9
  <2>2. kind # "rotating"
    BY <1>4
  <2> QED BY <1>1, <1>2, <1>5, <1>8, <2>1, <2>2 DEF Placed
<1>11. /\ shown' \in Pairs /\ Len(shown) \in Nat
       /\ DOMAIN shown = 1 .. Len(shown) /\ DOMAIN shown' = 1 .. Len(shown) + 1
       /\ \A i \in DOMAIN shown : shown'[i] = shown[i]
       /\ shown'[Len(shown) + 1] = <<half, Unset>>
  <2>1. PICK item : item = <<half, Unset>>
    OBVIOUS
  <2>2. item \in (Half \union {Unset}) \X (Half \union {Unset})
    BY <1>7, <2>1
  <2> QED BY <1>1, <1>6, <2>1, <2>2, AppendProperties, LenProperties DEF Pairs
<1>12. \A i \in DOMAIN shown' : i \in DOMAIN shown \/ (i = Len(shown) + 1 /\ shown'[i] = <<half, Unset>>)
  BY <1>11
<1>13. \A i \in DOMAIN shown' : shown'[i][2] # Unset => i \in DOMAIN shown /\ shown'[i] = shown[i]
  <2>1. <<half, Unset>>[2] = Unset
    OBVIOUS
  <2> QED BY <1>11, <1>12, <2>1
<1>14. Sourced(reader', shown')
  <2> SUFFICES ASSUME NEW i \in DOMAIN shown, shown[i][2] # Unset PROVE From(reader', shown[i])
    BY <1>13 DEF Sourced
  <2>1. From(reader, shown[i])
    BY <1>1 DEF Sourced
  <2> QED BY <1>2, <1>8, <2>1 DEF From
<1>15. Covered(reader', shown', base')
  <2> SUFFICES ASSUME NEW g \in DOMAIN files \ reader.paths, NEW n, Sound(g, n), Passed(reader', base, g, n)
               PROVE  \E i \in DOMAIN shown' : shown'[i] = <<files[g][2 * n - 1], files[g][2 * n]>>
    BY <1>1, <1>8 DEF Covered
  <2>1. Passed(reader, base, g, n)
    BY <1>2, <1>8 DEF Passed
  <2>2. PICK i \in DOMAIN shown : shown[i] = <<files[g][2 * n - 1], files[g][2 * n]>>
    BY <1>1, <2>1 DEF Covered
  <2>3. i \in DOMAIN shown' /\ shown'[i] = shown[i]
    BY <1>11
  <2> QED BY <2>2, <2>3
<1>16. Blind(reader', shown')
  <2> SUFFICES ASSUME NEW i \in DOMAIN shown', shown'[i][2] = Unset, NEW j \in DOMAIN shown', i < j
               PROVE  shown'[j] = <<Unset, Unset>>
    BY <1>4, <1>8 DEF Blind
  <2>1. i \in DOMAIN shown
    BY <1>11
  <2>2. shown[i][2] = Unset
    BY <1>11, <2>1
  <2>3. reader.ended /\ half = Unset
    BY <1>1, <1>7, <2>1, <2>2 DEF Blind
  <2>4. CASE j \in DOMAIN shown
    <3>1. shown[j] = <<Unset, Unset>>
      BY <1>1, <2>1, <2>2, <2>4 DEF Blind
    <3> QED BY <1>11, <2>4, <3>1
  <2>5. CASE j \notin DOMAIN shown
    BY <1>12, <2>3, <2>5
  <2> QED BY <2>4, <2>5
<1>17. Misled(shown')
  <2>1. ASSUME NEW i \in DOMAIN shown', shown'[i][2] # Unset
        PROVE  IsWhole(shown'[i])
    <3>1. i \in DOMAIN shown /\ shown'[i] = shown[i] /\ shown[i][2] # Unset
      BY <1>13, <2>1
    <3> QED BY <1>1, <1>4, <3>1 DEF Misled
  <2> QED BY <2>1 DEF Misled
<1>18. Ordered(shown')
  BY <1>1, <1>13 DEF Ordered
<1> QED BY <1>1, <1>8, <1>10, <1>11, <1>14, <1>15, <1>16, <1>17, <1>18, ReaderGoesOn

-----------------------------------------------------------------------------
(* The theorems.                                                             *)

LEMMA InitInv == Init => Inv
<1> SUFFICES ASSUME Init PROVE Inv
  OBVIOUS
<1>1. DOMAIN files = {} /\ written = 0 /\ base = 0 /\ failures = 0 /\ now = 1 /\ behind = 0
      /\ writer = Absent /\ reader = Absent /\ shown = <<>> /\ kind \in Kinds
  BY DEF Init
<1>2. TypeOK
  BY <1>1, BoundsAssumption DEF TypeOK
<1>3. Numbered /\ Apart /\ Named
  BY <1>1 DEF Numbered, Apart, Named
<1>4. ReaderInv
  BY <1>1 DEF ReaderInv, Misled, Ordered
<1> QED BY <1>2, <1>3, <1>4 DEF Inv, FilesInv

LEMMA Invariant == Spec => []Inv
<1>1. ASSUME Inv, [Next]_vars PROVE Inv'
  <2>1. CASE Tick \/ TurnBack
    BY <1>1, <2>1, ClockKeepsFiles, ClockKeepsReader DEF Inv
  <2>2. CASE Writer
    <3>1. PICK w, k : Step(w, k) /\ WriterGoesOn
      BY <1>1, <2>2, WriterSteps DEF Inv
    <3> QED BY <1>1, <3>1, StepKeepsFiles, WriterKeepsReader DEF Inv
  <2>3. CASE Reader
    <3>1. CASE OpenReader \/ CloseReader \/ OpenNext \/ NoFile
      BY <1>1, <3>1, OpenReaderKeepsInv, CloseReaderKeepsInv, OpenNextKeepsInv, NoFileKeepsInv
    <3>2. CASE ReadRecord \/ ReadFails \/ ReadUnset
      BY <1>1, <3>2, ReadRecordKeepsInv, ReadFailsKeepsInv, ReadUnsetKeepsInv
    <3>3. CASE ReadEnd
      BY <1>1, <3>3, FileEndKeepsInv, LogEndKeepsInv
    <3> QED BY <2>3, <3>1, <3>2, <3>3 DEF Reader
  <2>4. CASE UNCHANGED vars
    <3>1. UNCHANGED <<kind, files, now, behind, writer, reader, written, failures, shown, base>>
      BY <2>4 DEF vars, clock
    <3>2. FilesInv'
      BY <1>1, <3>1 DEF Inv, FilesInv, TypeOK, Numbered, Apart, Named
    <3>3. ReaderInv'
      BY <1>1, <3>1, ReaderStands DEF Inv
    <3> QED BY <3>2, <3>3 DEF Inv
  <2> QED BY <1>1, <2>1, <2>2, <2>3, <2>4 DEF Next
<1> QED BY InitInv, <1>1, PTL DEF Spec

\* Every variable of the logs keeps its type, for any bounds.
THEOREM TypeCorrect == Spec => []TypeOK
<1>1. Inv => TypeOK
  BY DEF Inv, FilesInv
<1> QED BY <1>1, Invariant, PTL

(* A reader gets no record twice, and records in the order they were written *)
(* until local time is put back, however the log rotates, fails and is       *)
(* written while it is read (RotatingLogReader::next and rotate_file).       *)
THEOREM RecordsComeInOrder == Spec => []RecordsInOrder
<1>1. Inv => RecordsInOrder
  <2> SUFFICES ASSUME Inv PROVE RecordsInOrder
    OBVIOUS
  <2>1. ASSUME NEW i \in DOMAIN shown, IsWhole(shown[i]) PROVE shown[i][2] # Unset
    <3>1. shown \in Seq((Half \union {Unset}) \X (Half \union {Unset}))
      BY DEF Inv, FilesInv, TypeOK
    <3>2. shown[i] \in (Half \union {Unset}) \X (Half \union {Unset})
      BY <3>1, ElementOfSeq
    <3>3. shown[i][1] \in Nat
      BY <3>2, BoundsAssumption DEF Half, Unset
    <3> QED BY <2>1, <3>3 DEF IsWhole, Unset
  <2> QED BY <2>1 DEF Inv, ReaderInv, Ordered, RecordsInOrder
<1> QED BY <1>1, Invariant, PTL

(* What a reader gives for a record and is none lies behind a failed write   *)
(* of the same file (PlainLogReader::next, RotatingLogReader::next), or T    *)
(* next() of a GzipLogReader gave it unset, from the end of what can be      *)
(* read on, and no record after it.                                          *)
THEOREM OnlyDamageMisleadsReaders == Spec => []OnlyDamageMisleads
<1>1. Inv => OnlyDamageMisleads
  <2> SUFFICES ASSUME Inv, NEW i \in DOMAIN shown, ~ IsWhole(shown[i])
               PROVE  \/ /\ kind # "gzip"
                         /\ \E f \in DOMAIN files : \E p \in 1 .. Len(files[f]) - 1 :
                              /\ shown[i] = SubSeq(files[f], p, p + 1)
                              /\ \E q \in 1 .. p : ~ IsWhole(SubSeq(files[f], q, q + 1)) /\ files[f][q] % 2 = 1
                      \/ /\ kind = "gzip" /\ reader.ended /\ shown[i][2] = Unset
                         /\ \A j \in DOMAIN shown : i < j => shown[j] = <<Unset, Unset>>
    BY DEF OnlyDamageMisleads
  <2>1. CASE shown[i][2] = Unset
    <3>1. reader # Absent
      <4>1. shown = <<>> => DOMAIN shown = {}
        OBVIOUS
      <4> QED BY <4>1 DEF Inv, ReaderInv
    <3>2. Blind(reader, shown)
      BY <3>1 DEF Inv, ReaderInv
    <3>3. /\ kind = "gzip" /\ reader.ended
          /\ \A j \in DOMAIN shown : i < j => shown[j] = <<Unset, Unset>>
      BY <2>1, <3>2 DEF Blind
    <3> QED BY <2>1, <3>3
  <2>2. CASE shown[i][2] # Unset
    <3>1. kind # "gzip"
          /\ \E f \in DOMAIN files : \E p \in 1 .. Len(files[f]) - 1 :
               shown[i] = <<files[f][p], files[f][p + 1]>> /\ \E q \in 1 .. p : Broken(f, q)
      BY <2>2 DEF Inv, ReaderInv, Misled
    <3>2. PICK f \in DOMAIN files : \E p \in 1 .. Len(files[f]) - 1 :
            shown[i] = <<files[f][p], files[f][p + 1]>> /\ \E q \in 1 .. p : Broken(f, q)
      BY <3>1
    <3>3. PICK p \in 1 .. Len(files[f]) - 1 :
            shown[i] = <<files[f][p], files[f][p + 1]>> /\ \E q \in 1 .. p : Broken(f, q)
      BY <3>2
    <3>4. PICK q \in 1 .. p : Broken(f, q)
      BY <3>3
    <3>5. files[f] \in Seq(Half) /\ Len(files[f]) \in Nat
      BY FilesType DEF Inv, FilesInv
    <3>6. q \in 1 .. Len(files[f]) - 1
      BY <3>5
    <3>7. SubSeq(files[f], p, p + 1) = <<files[f][p], files[f][p + 1]>>
          /\ SubSeq(files[f], q, q + 1) = <<files[f][q], files[f][q + 1]>>
      BY <3>5, <3>6, PairAt
    <3>8. ~ IsWhole(SubSeq(files[f], q, q + 1)) /\ files[f][q] % 2 = 1
      <4>1. PICK x, y : x = files[f][q] /\ y = files[f][q + 1]
        OBVIOUS
      <4>2. x % 2 = 1 /\ y # x + 1
        BY <3>4, <4>1 DEF Broken
      <4>3. ~ IsWhole(<<x, y>>)
        BY <4>2 DEF IsWhole
      <4> QED BY <3>7, <4>1, <4>2, <4>3
    <3> QED BY <3>1, <3>3, <3>7, <3>8
  <2> QED BY <2>1, <2>2
<1> QED BY <1>1, Invariant, PTL

\* The pairs that no failed write comes before are the sound ones.
LEMMA UndamagedIsSound ==
  ASSUME FilesInv, NEW f \in DOMAIN files, NEW n \in Undamaged(f)
  PROVE  Sound(f, n) /\ SubSeq(files[f], 2 * n - 1, 2 * n) = <<files[f][2 * n - 1], files[f][2 * n]>>
<1> DEFINE s == files[f]
<1>1. s \in Seq(Half) /\ Len(s) \in Nat
  BY FilesType DEF FilesInv
<1>2. n \in 1 .. Len(s) \div 2 /\ \A m \in 1 .. n : IsWhole(SubSeq(s, 2 * m - 1, 2 * m))
  BY DEF Undamaged
<1> HIDE DEF s
<1>3. n \in Nat \ {0} /\ 2 * n <= Len(s)
  BY <1>1, <1>2
<1>4. ASSUME NEW m \in 1 .. n
      PROVE  /\ SubSeq(s, 2 * m - 1, 2 * m) = <<s[2 * m - 1], s[2 * m]>>
             /\ s[2 * m - 1] % 2 = 1 /\ s[2 * m] = s[2 * m - 1] + 1
  <2>1. 2 * m - 1 \in 1 .. Len(s) - 1 /\ (2 * m - 1) + 1 = 2 * m
    BY <1>1, <1>3
  <2>2. SubSeq(s, 2 * m - 1, (2 * m - 1) + 1) = <<s[2 * m - 1], s[(2 * m - 1) + 1]>>
    BY <1>1, <2>1, PairAt
  <2>3. SubSeq(s, 2 * m - 1, 2 * m) = <<s[2 * m - 1], s[2 * m]>>
    BY <2>1, <2>2
  <2> QED BY <1>2, <2>3 DEF IsWhole
<1>5. n \in 1 .. n
  BY <1>3
<1> QED BY <1>3, <1>4, <1>5 DEF s, Sound, Whole

(* A reader that has come to the end has shown every record that was written *)
(* when it was made and no failed write comes before in its file, whatever   *)
(* is appended meanwhile (the readers' next, over all the files).            *)
THEOREM UndamagedComeOut == Spec => []UndamagedAreShown
<1>1. Inv => UndamagedAreShown
  <2> SUFFICES ASSUME Inv, reader # Absent, reader.ended, NEW f \in DOMAIN files,
                      NEW n \in Undamaged(f), files[f][2 * n] <= 2 * base
               PROVE  \E i \in DOMAIN shown : shown[i] = SubSeq(files[f], 2 * n - 1, 2 * n)
    BY DEF UndamagedAreShown
  <2>1. FilesInv /\ Named /\ Placed(reader, base) /\ Covered(reader, shown, base)
    BY DEF Inv, FilesInv, ReaderInv
  <2>2. Sound(f, n) /\ SubSeq(files[f], 2 * n - 1, 2 * n) = <<files[f][2 * n - 1], files[f][2 * n]>>
    BY <2>1, UndamagedIsSound
  <2>3. reader.paths = {}
    BY <2>1 DEF Placed
  <2>4. Passed(reader, base, f, n)
    BY <2>1, <2>2, ClosedIsNone DEF Placed, Passed
  <2>5. \E i \in DOMAIN shown : shown[i] = <<files[f][2 * n - 1], files[f][2 * n]>>
    BY <2>1, <2>2, <2>3, <2>4 DEF Covered
  <2> QED BY <2>2, <2>5
<1> QED BY <1>1, Invariant, PTL
=============================================================================
