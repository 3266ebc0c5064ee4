------------------------ MODULE MCWebRequests_proofs ------------------------
(***************************************************************************)
(* What a worker of the embedded server does with a request, for all       *)
(* files, handlers, requests and configurations: proofs about the parts of *)
(* MCWebRequests.                                                          *)
(***************************************************************************)
EXTENDS MCWebRequests, SequenceTheorems, FiniteSetTheorems, WellFoundedInduction, TLAPS

(***************************************************************************)
(* Numbers: the least of a set, and functions defined step by step.        *)
(***************************************************************************)
LEMMA MinIsLeast ==
  ASSUME NEW Z \in SUBSET Nat, Z # {}
  PROVE  Min(Z) \in Z /\ \A y \in Z : Min(Z) <= y
<1> DEFINE R == {ss \in Nat \X Nat : ss[1] < ss[2]}
<1>1. OpToRel(<, Nat) = R
  BY DEF OpToRel
<1>2. IsWellFoundedOn(R, Nat)
  BY Zenon, <1>1, NatLessThanWellFounded
<1>3. PICK x \in Z : \A y \in Z : ~ (<<y, x>> \in R)
  <2> HIDE DEF R
  <2> QED
    BY <1>2, WFMin
<1>4. ASSUME NEW y \in Z PROVE x <= y
  <2>1. x \in Nat /\ y \in Nat
    OBVIOUS
  <2>2. ~ (y < x)
    BY <1>3, <2>1
  <2> QED
    BY <2>1, <2>2
<1> QED
  BY <1>4 DEF Min

\* What holds at the beginning, and at i when it holds at i - 1, holds up to n.
LEMMA StepByStep ==
  ASSUME NEW n \in Nat, NEW T, NEW f, f[0] \in T,
         \A i \in 1..n : f[i - 1] \in T => f[i] \in T
  PROVE  \A i \in 0..n : f[i] \in T
<1> DEFINE Bad == {i \in 0..n : f[i] \notin T}
<1>1. SUFFICES ASSUME Bad # {} PROVE FALSE
  OBVIOUS
<1>2. Min(Bad) \in Bad /\ \A y \in Bad : Min(Bad) <= y
  BY <1>1, MinIsLeast
<1>3. Min(Bad) \in 1..n /\ Min(Bad) - 1 \in 0..n /\ Min(Bad) - 1 \notin Bad
  BY <1>2
<1> QED
  BY <1>2, <1>3

\* A recursion over 0..n whose steps stay within T has a solution.
Solutions(n, T, a, next) ==
  {f \in [0..n -> T] : f[0] = a /\ \A i \in 1..n : f[i] = next[i][f[i - 1]]}

LEMMA Recursion ==
  ASSUME NEW n \in Nat, NEW T, NEW a \in T, NEW next \in [1..n -> [T -> T]]
  PROVE  Solutions(n, T, a, next) # {}
<1> DEFINE upTo(k, f) == f[0] = a /\ \A i \in 1..k : f[i] = next[i][f[i - 1]]
           Solved == {k \in 0..n : \E f \in [0..k -> T] : upTo(k, f)}
           id == [k \in 0..n |-> k]
<1>1. 0 \in Solved
  <2> DEFINE z == [i \in 0..0 |-> a]
  <2>1. z \in [0..0 -> T] /\ z[0] = a /\ 1..0 = {} /\ 0 \in 0..n
    OBVIOUS
  <2> HIDE DEF z
  <2>2. upTo(0, z)
    BY <2>1
  <2> QED BY <2>1, <2>2
<1>2. ASSUME NEW k \in 1..n, k - 1 \in Solved
      PROVE  k \in Solved
  <2>0. k - 1 \in 0..n /\ k \in 0..n
    OBVIOUS
  <2>1. PICK f \in [0..k - 1 -> T] : upTo(k - 1, f)
    BY <1>2
  <2> DEFINE g == [i \in 0..k |-> IF i = k THEN next[k][f[k - 1]] ELSE f[i]]
  <2>2. f[k - 1] \in T /\ next[k] \in [T -> T]
    OBVIOUS
  <2>3. next[k][f[k - 1]] \in T
    BY <2>2
  <2>4. g \in [0..k -> T]
    BY <2>3
  <2>5. ASSUME NEW i \in 1..k PROVE g[i] = next[i][g[i - 1]]
    <3>1. i - 1 \in 0..k - 1 /\ i \in 0..k /\ g[i - 1] = f[i - 1]
      OBVIOUS
    <3>2. CASE i = k
      BY <3>1, <3>2
    <3>3. CASE i # k
      BY <2>1, <3>1, <3>3
    <3> QED BY <3>2, <3>3
  <2>6. g[0] = a
    BY <2>1
  <2> HIDE DEF g
  <2>7. upTo(k, g)
    BY <2>5, <2>6
  <2> QED
    BY <2>0, <2>4, <2>7
<1>3. n \in Solved
  <2> HIDE DEF Solved
  <2>1. id[0] \in Solved /\ \A i \in 1..n : id[i - 1] \in Solved => id[i] \in Solved
    BY <1>1, <1>2
  <2>2. \A i \in 0..n : id[i] \in Solved
    <3> HIDE DEF id
    <3> QED BY <2>1, StepByStep
  <2> QED BY <2>2
<1> QED
  BY <1>3 DEF Solutions

-----------------------------------------------------------------------------
(***************************************************************************)
(* The password files.                                                     *)
(***************************************************************************)

\* The records of u in d that a file holds.
Hits(file, u, d) ==
  {i \in 1..Len(file) : file[i].kind = "record" /\ file[i].user = u /\ file[i].domain = d}

\* Lookup gives the password of the first of them.
LEMMA LookupIs ==
  ASSUME NEW file \in Seq(PW!Lines), NEW u, NEW d
  PROVE  PW!Lookup(file, u, d) =
           IF Hits(file, u, d) = {} THEN PW!None ELSE file[Min(Hits(file, u, d))].pass
<1>1. ASSUME NEW i \in DOMAIN file
      PROVE  file[i] = PW!Record(u, d, file[i].pass) <=> i \in Hits(file, u, d)
  <2>1. file[i] \in PW!Lines /\ i \in 1..Len(file)
    OBVIOUS
  <2>2. file[i] = [kind |-> file[i].kind, user |-> file[i].user,
                   domain |-> file[i].domain, pass |-> file[i].pass]
    BY <2>1 DEF PW!Lines
  <2>3. i \in Hits(file, u, d) => file[i] = PW!Record(u, d, file[i].pass)
    BY <2>2 DEF Hits, PW!Record, PW!Line
  <2>4. file[i] = PW!Record(u, d, file[i].pass) =>
          file[i].kind = "record" /\ file[i].user = u /\ file[i].domain = d
    BY DEF PW!Record, PW!Line
  <2> QED
    BY <2>1, <2>3, <2>4 DEF Hits
<1>2. ASSUME file = PW!Absent PROVE Hits(file, u, d) = {}
  BY <1>2 DEF Hits, PW!Absent, PW!Line
<1>3. Hits(file, u, d) \subseteq DOMAIN file
  BY DEF Hits
<1>4. PW!SelectInSeq(file, LAMBDA l : l.kind = "record" /\ l.user = u /\ l.domain = d)
        = IF Hits(file, u, d) # {} THEN Min(Hits(file, u, d)) ELSE 0
  BY DEF PW!SelectInSeq, PW!Min, Min, Hits
<1>. QED
  BY <1>1, <1>2, <1>3, <1>4 DEF PW!Lookup

\* One more line counts only when there was no record.
LEMMA LookupAppend ==
  ASSUME NEW file \in Seq(PW!Lines), NEW l \in PW!Lines, NEW u, NEW d
  PROVE  LET hit == l.kind = "record" /\ l.user = u /\ l.domain = d
         IN /\ PW!Lookup(Append(file, l), u, d) =
                 IF Hits(file, u, d) # {} THEN PW!Lookup(file, u, d)
                 ELSE IF hit THEN l.pass ELSE PW!None
            /\ Hits(Append(file, l), u, d) = {} <=> Hits(file, u, d) = {} /\ ~hit
<1> DEFINE g == Append(file, l)
           hit == l.kind = "record" /\ l.user = u /\ l.domain = d
<1>1. /\ g \in Seq(PW!Lines) /\ Len(g) = Len(file) + 1 /\ g[Len(file) + 1] = l
      /\ \A i \in 1..Len(file) : g[i] = file[i]
      /\ Len(file) \in Nat
  OBVIOUS
<1>2. Hits(g, u, d) = Hits(file, u, d) \cup (IF hit THEN {Len(file) + 1} ELSE {})
  BY <1>1 DEF Hits
<1>3. Hits(file, u, d) \subseteq 1..Len(file) /\ Hits(file, u, d) \subseteq Nat
      /\ Hits(g, u, d) \subseteq Nat
  BY <1>1 DEF Hits
<1> HIDE DEF g, hit
<1>4. CASE Hits(file, u, d) # {}
  <2> DEFINE m == Min(Hits(file, u, d))
             k == Min(Hits(g, u, d))
  <2>1. m \in Hits(file, u, d) /\ \A y \in Hits(file, u, d) : m <= y
    BY <1>3, <1>4, MinIsLeast
  <2>2. k \in Hits(g, u, d) /\ \A y \in Hits(g, u, d) : k <= y
    BY <1>2, <1>3, <1>4, MinIsLeast
  <2>3. m \in Hits(g, u, d) /\ m \in 1..Len(file)
    BY <1>2, <1>3, <2>1
  <2> HIDE DEF m, k
  <2>4. k = m
    BY <1>1, <1>2, <1>3, <2>1, <2>2, <2>3
  <2>5. PW!Lookup(file, u, d) = file[m].pass /\ PW!Lookup(g, u, d) = g[m].pass
    BY ZenonT(40), <1>1, <1>2, <1>4, <2>4, LookupIs DEF m, k
  <2> QED
    BY <1>1, <1>2, <1>4, <2>3, <2>5 DEF g, hit
<1>5. CASE Hits(file, u, d) = {} /\ hit
  <2>1. Hits(g, u, d) = {Len(file) + 1}
    BY <1>2, <1>5
  <2>2. Min(Hits(g, u, d)) = Len(file) + 1
    BY <1>3, <2>1, MinIsLeast
  <2>3. PW!Lookup(g, u, d) = l.pass /\ Hits(g, u, d) # {}
    BY ZenonT(40), <1>1, <2>1, <2>2, LookupIs
  <2> QED
    BY <1>5, <2>3 DEF g, hit
<1>6. CASE Hits(file, u, d) = {} /\ ~hit
  BY <1>1, <1>2, <1>6, LookupIs DEF g, hit
<1>. QED
  BY <1>4, <1>5, <1>6

LEMMA LookupEmpty ==
  ASSUME NEW u, NEW d
  PROVE  /\ PW!Lookup(<<>>, u, d) = PW!None /\ Hits(<<>>, u, d) = {}
         /\ PW!Lookup(PW!Absent, u, d) = PW!None /\ Hits(PW!Absent, u, d) = {}
<1>1. <<>> \in Seq(PW!Lines) /\ Hits(<<>>, u, d) = {} /\ Hits(PW!Absent, u, d) = {}
  BY DEF Hits, PW!Absent, PW!Line
<1>2. PW!Lookup(PW!Absent, u, d) = PW!None
  BY DEF PW!Lookup
<1>. QED
  BY <1>1, <1>2, LookupIs

\* What is copied are records.
Records == {l \in PW!Lines : l.kind = "record"}
Args == [user : PW!Texts, domain : PW!Texts, pass : PW!Texts]

LEMMA CopiedIsRecords ==
  ASSUME w_args \in Args
  PROVE  /\ w_args.pass = PW!None => PW!NewLines = <<>>
         /\ w_args.pass # PW!None => PW!NewLines = <<PW!Record(w_args.user, w_args.domain, w_args.pass)>>
         /\ PW!Record(w_args.user, w_args.domain, w_args.pass) \in Records
         /\ PW!NewLines \in Seq(Records)
         /\ \A l \in PW!Lines : PW!Copied(l) \in Seq(Records)
<1>1. PW!Record(w_args.user, w_args.domain, w_args.pass) \in Records
  BY DEF Args, Records, PW!Lines, PW!Record, PW!Line
<1>2. PW!NewLines = IF w_args.pass = PW!None THEN <<>>
                    ELSE <<PW!Record(w_args.user, w_args.domain, w_args.pass)>>
  BY DEF PW!NewLines
<1>3. PW!NewLines \in Seq(Records)
  BY <1>1, <1>2
<1>4. ASSUME NEW l \in PW!Lines PROVE PW!Copied(l) \in Seq(Records)
  <2>1. l.kind = "record" => <<l>> \in Seq(Records)
    <3>1. l.kind = "record" => l \in Records
      BY DEF Records
    <3> QED BY <3>1
  <2>2. <<>> \in Seq(Records)
    OBVIOUS
  <2> QED
    BY <1>3, <2>1, <2>2 DEF PW!Copied
<1>. QED
  BY <1>1, <1>2, <1>3, <1>4

LEMMA CopiedLinesAre ==
  ASSUME w_fp \in Seq(PW!Lines), w_args \in Args
  PROVE  /\ PW!CopiedLines \in [0..Len(w_fp) -> Seq(Records)]
         /\ PW!CopiedLines[0] = <<>>
         /\ \A k \in 1..Len(w_fp) :
              PW!CopiedLines[k] = PW!CopiedLines[k - 1] \o PW!Copied(w_fp[k])
<1> DEFINE n == Len(w_fp)
           T == Seq(Records)
           next == [k \in 1..n |-> [x \in T |-> x \o PW!Copied(w_fp[k])]]
           Solves(f) == f = [k \in 0..n |-> IF k = 0 THEN <<>> ELSE f[k - 1] \o PW!Copied(w_fp[k])]
<1>1. n \in Nat /\ <<>> \in T /\ \A k \in 1..n : PW!Copied(w_fp[k]) \in T
  BY CopiedIsRecords
<1>2. next \in [1..n -> [T -> T]]
  BY <1>1
<1>3. PICK f \in [0..n -> T] : f[0] = <<>> /\ \A k \in 1..n : f[k] = next[k][f[k - 1]]
  <2> DEFINE a == <<>>
  <2>1. a \in T /\ n \in Nat
    BY <1>1
  <2> HIDE DEF next, T, n, a
  <2>2. Solutions(n, T, a, next) # {}
    BY <1>2, <2>1, Recursion
  <2> QED BY <2>2 DEF a, Solutions
<1>4. Solves(f)
  <2>1. ASSUME NEW k \in 1..n PROVE next[k][f[k - 1]] = f[k - 1] \o PW!Copied(w_fp[k])
    <3>1. f[k - 1] \in T
      BY <1>1
    <3> QED BY <3>1
  <2> DEFINE g == [k \in 0..n |-> IF k = 0 THEN <<>> ELSE f[k - 1] \o PW!Copied(w_fp[k])]
  <2>2. ASSUME NEW k \in 0..n PROVE f[k] = g[k]
    <3>1. CASE k = 0
      BY <1>3, <3>1
    <3>2. CASE k # 0
      <4>1. k \in 1..n
        BY <1>1, <3>2
      <4> HIDE DEF next, T
      <4> QED BY <1>3, <2>1, <3>2, <4>1
    <3> QED BY <3>1, <3>2
  <2>3. f = [k \in 0..n |-> f[k]] /\ g = [k \in 0..n |-> g[k]]
    OBVIOUS
  <2> HIDE DEF next, T, g
  <2>4. f = g
    BY SMTT(30), <2>2, <2>3
  <2> QED BY <2>4 DEF g
<1>5. Solves(PW!CopiedLines)
  <2>1. PW!CopiedLines = CHOOSE g : Solves(g)
    BY DEF PW!CopiedLines
  <2> QED BY Zenon, <1>4, <2>1
<1>. DEFINE L == PW!CopiedLines
<1>6. /\ L[0] = <<>> /\ \A k \in 1..n : L[k] = L[k - 1] \o PW!Copied(w_fp[k])
      /\ L = [k \in 0..n |-> L[k]]
  <2> HIDE DEF T, next
  <2>1. L = [k \in 0..n |-> IF k = 0 THEN <<>> ELSE L[k - 1] \o PW!Copied(w_fp[k])]
    BY <1>5
  <2> HIDE DEF L
  <2>2. 0 \in 0..n /\ \A k \in 1..n : k \in 0..n /\ k # 0
    BY <1>1
  <2>3. L[0] = <<>>
    BY <2>1, <2>2
  <2>4. ASSUME NEW k \in 1..n PROVE L[k] = L[k - 1] \o PW!Copied(w_fp[k])
    BY <2>1, <2>2
  <2>5. L = [k \in 0..n |-> L[k]]
    BY <2>1
  <2> QED
    BY <2>3, <2>4, <2>5
<1> HIDE DEF L
<1>7. \A k \in 0..n : L[k] \in T
  <2>0. ASSUME NEW k \in 1..n, L[k - 1] \in T PROVE L[k] \in T
    BY ZenonT(40), <1>1, <1>6, <2>0, ConcatProperties
  <2>1. L[0] \in T /\ \A k \in 1..n : L[k - 1] \in T => L[k] \in T
    BY <1>1, <1>6, <2>0
  <2> HIDE DEF T, n
  <2> QED BY <1>1, <2>1, StepByStep
<1>8. L \in [0..n -> T]
  BY <1>6, <1>7
<1>. QED
  BY <1>6, <1>8 DEF L

-----------------------------------------------------------------------------
\* What the copy of the first lines knows of u in d: what the first lines know, but of
\* the user whose password is changed.
Agree(new, lines, u, d) ==
  IF u = w_args.user /\ d = w_args.domain
  THEN /\ Hits(new, u, d) = {} <=> w_args.pass = PW!None \/ Hits(lines, u, d) = {}
       /\ Hits(new, u, d) # {} => PW!Lookup(new, u, d) = w_args.pass
  ELSE /\ Hits(new, u, d) = {} <=> Hits(lines, u, d) = {}
       /\ PW!Lookup(new, u, d) = PW!Lookup(lines, u, d)

LEMMA CopyOne ==
  ASSUME w_args \in Args, NEW u, NEW d, NEW new \in Seq(Records), NEW lines \in Seq(PW!Lines),
         NEW l \in PW!Lines, Agree(new, lines, u, d)
  PROVE  Agree(new \o PW!Copied(l), Append(lines, l), u, d)
<1> DEFINE r == PW!Record(w_args.user, w_args.domain, w_args.pass)
           new2 == new \o PW!Copied(l)
           lines2 == Append(lines, l)
           other == Append(new, l)
           mine == Append(new, r)
           hit(x) == x.kind = "record" /\ x.user = u /\ x.domain = d
<1>1. new \in Seq(PW!Lines)
  BY DEF Records
<1>2. r \in PW!Lines /\ r.kind = "record" /\ r.user = w_args.user /\ r.domain = w_args.domain
      /\ r.pass = w_args.pass
  BY CopiedIsRecords DEF Records, PW!Record, PW!Line
<1>3. new2 = IF l.kind # "record" THEN new
             ELSE IF PW!IsArgs(l) THEN IF w_args.pass = PW!None THEN new ELSE mine
             ELSE other
  <2>1. new \o <<>> = new /\ new \o <<r>> = Append(new, r) /\ new \o <<l>> = Append(new, l)
    <3> HIDE DEF r
    <3> QED BY <1>1, <1>2, AppendIsConcat, ConcatEmptySeq
  <2> QED
    BY <2>1, CopiedIsRecords DEF PW!Copied
<1>a. r \in PW!Lines
  BY <1>2
<1> HIDE DEF r
<1>b. /\ PW!Lookup(lines2, u, d) = IF Hits(lines, u, d) # {} THEN PW!Lookup(lines, u, d)
                                   ELSE IF hit(l) THEN l.pass ELSE PW!None
      /\ Hits(lines2, u, d) = {} <=> Hits(lines, u, d) = {} /\ ~hit(l)
  BY <1>1, <1>2, LookupAppend
<1>c. /\ PW!Lookup(other, u, d) = IF Hits(new, u, d) # {} THEN PW!Lookup(new, u, d)
                                   ELSE IF hit(l) THEN l.pass ELSE PW!None
      /\ Hits(other, u, d) = {} <=> Hits(new, u, d) = {} /\ ~hit(l)
  BY <1>1, <1>2, LookupAppend
<1>d. /\ PW!Lookup(mine, u, d) = IF Hits(new, u, d) # {} THEN PW!Lookup(new, u, d)
                                   ELSE IF hit(r) THEN r.pass ELSE PW!None
      /\ Hits(mine, u, d) = {} <=> Hits(new, u, d) = {} /\ ~hit(r)
  BY <1>1, <1>2, LookupAppend
<1>5. /\ Hits(lines, u, d) = {} => PW!Lookup(lines, u, d) = PW!None
      /\ Hits(new, u, d) = {} => PW!Lookup(new, u, d) = PW!None
  BY <1>1, LookupIs
<1>6. PW!IsArgs(l) <=> l.user = w_args.user /\ l.domain = w_args.domain
  BY DEF PW!IsArgs
<1> SUFFICES Agree(new2, lines2, u, d)
  OBVIOUS
<1> HIDE DEF new2, lines2, other, mine
<1>11. Agree(new, lines, u, d)
  OBVIOUS
<1>7. CASE l.kind # "record"
  BY <1>11, <1>3, <1>b, <1>c, <1>d, <1>5, <1>7 DEF Agree
<1>8. CASE l.kind = "record" /\ ~PW!IsArgs(l)
  BY <1>11, <1>3, <1>b, <1>c, <1>d, <1>5, <1>6, <1>8 DEF Agree
<1>9. CASE l.kind = "record" /\ PW!IsArgs(l) /\ w_args.pass = PW!None
  BY <1>11, <1>3, <1>b, <1>c, <1>d, <1>5, <1>6, <1>9 DEF Agree
<1>10. CASE l.kind = "record" /\ PW!IsArgs(l) /\ w_args.pass # PW!None
  <2>1. CASE u = w_args.user /\ d = w_args.domain
    BY <1>11, <1>2, <1>3, <1>b, <1>c, <1>d, <1>5, <1>6, <1>10, <2>1 DEF Agree
  <2>2. CASE ~(u = w_args.user /\ d = w_args.domain)
    BY <1>11, <1>2, <1>3, <1>b, <1>c, <1>d, <1>5, <1>6, <1>10, <2>2 DEF Agree
  <2> QED BY <2>1, <2>2
<1>. QED
  BY <1>7, <1>8, <1>9, <1>10

\* The new file is the old one with the password that was asked for.
NewFile == PW!CopiedLines[Len(w_fp)] \o (IF PW!Found THEN <<>> ELSE PW!NewLines)

LEMMA CopyUpdates ==
  ASSUME w_fp \in Seq(PW!Lines), w_args \in Args
  PROVE  /\ NewFile \in Seq(Records)
         /\ \A u, d : PW!Lookup(NewFile, u, d) =
              IF u = w_args.user /\ d = w_args.domain THEN w_args.pass
              ELSE PW!Lookup(w_fp, u, d)
<1> DEFINE n == Len(w_fp)
           L == PW!CopiedLines
<1>1. /\ L \in [0..n -> Seq(Records)] /\ L[0] = <<>>
      /\ \A k \in 1..n : L[k] = L[k - 1] \o PW!Copied(w_fp[k])
  BY CopiedLinesAre
<1>2. n \in Nat /\ L[n] \in Seq(Records)
  BY <1>1
<1>3. NewFile \in Seq(Records)
  <2>1. PW!NewLines \in Seq(Records) /\ <<>> \in Seq(Records)
    BY CopiedIsRecords
  <2> HIDE DEF L
  <2> QED
    BY <1>2, <2>1, ConcatProperties DEF NewFile, L
<1>4. ASSUME NEW u, NEW d
      PROVE  Agree(L[n], w_fp, u, d)
  <2> DEFINE first(k) == SubSeq(w_fp, 1, k)
             Good == {k \in 0..n : Agree(L[k], first(k), u, d)}
             id == [k \in 0..n |-> k]
  <2>1. 0 \in Good
    <3>1. first(0) = <<>>
      OBVIOUS
    <3>2. Agree(<<>>, <<>>, u, d)
      BY LookupEmpty DEF Agree
    <3> QED BY <1>1, <1>2, <3>1, <3>2
  <2>2. ASSUME NEW k \in 1..n, k - 1 \in Good
        PROVE  k \in Good
    <3>1. k - 1 \in 0..n /\ k \in 0..n /\ w_fp[k] \in PW!Lines
      OBVIOUS
    <3>2. first(k) = Append(first(k - 1), w_fp[k]) /\ first(k - 1) \in Seq(PW!Lines)
      OBVIOUS
    <3>3. L[k - 1] \in Seq(Records) /\ L[k] = L[k - 1] \o PW!Copied(w_fp[k])
      BY <1>1, <3>1
    <3>4. Agree(L[k - 1], first(k - 1), u, d)
      BY <2>2
    <3> HIDE DEF L, first
    <3>5. Agree(L[k], first(k), u, d)
      BY <3>1, <3>2, <3>3, <3>4, CopyOne
    <3> QED BY <3>1, <3>5
  <2>3. n \in Good
    <3> HIDE DEF Good
    <3>1. id[0] \in Good /\ \A k \in 1..n : id[k - 1] \in Good => id[k] \in Good
      BY <2>1, <2>2
    <3>2. \A k \in 0..n : id[k] \in Good
      <4> HIDE DEF id
      <4> QED BY <1>2, <3>1, StepByStep
    <3> QED BY <1>2, <3>2
  <2>4. first(n) = w_fp
    OBVIOUS
  <2> QED
    BY <2>3, <2>4
<1>5. PW!Found <=> Hits(w_fp, w_args.user, w_args.domain) # {}
  BY DEF PW!Found, Hits, PW!IsArgs
<1>6. ASSUME NEW u, NEW d
      PROVE  PW!Lookup(NewFile, u, d) =
               IF u = w_args.user /\ d = w_args.domain THEN w_args.pass
               ELSE PW!Lookup(w_fp, u, d)
  <2> DEFINE r == PW!Record(w_args.user, w_args.domain, w_args.pass)
  <2>1. Agree(L[n], w_fp, u, d) /\ L[n] \in Seq(PW!Lines)
    BY <1>2, <1>4 DEF Records
  <2>2. r \in PW!Lines /\ r.kind = "record" /\ r.user = w_args.user /\ r.domain = w_args.domain
        /\ r.pass = w_args.pass
    BY CopiedIsRecords DEF Records, PW!Record, PW!Line
  <2>3. NewFile = IF PW!Found \/ w_args.pass = PW!None THEN L[n] ELSE Append(L[n], r)
    <3> HIDE DEF L, r
    <3>1. L[n] \o <<>> = L[n] /\ L[n] \o <<r>> = Append(L[n], r)
      BY <2>1, <2>2, AppendIsConcat, ConcatEmptySeq
    <3> QED BY <3>1, CopiedIsRecords DEF NewFile, L, r
  <2>4. \A f \in Seq(PW!Lines) : Hits(f, u, d) = {} => PW!Lookup(f, u, d) = PW!None
    BY LookupIs
  <2>5. PW!Lookup(Append(L[n], r), u, d) =
          IF Hits(L[n], u, d) # {} THEN PW!Lookup(L[n], u, d)
          ELSE IF r.kind = "record" /\ r.user = u /\ r.domain = d THEN r.pass ELSE PW!None
    <3> HIDE DEF L, r
    <3> QED BY <2>1, <2>2, LookupAppend
  <2> HIDE DEF L, r, n
  <2> QED
    BY <1>5, <2>1, <2>2, <2>3, <2>4, <2>5 DEF Agree
<1>. QED
  BY <1>3, <1>6

\* A line that is there.
Present == {l \in PW!Lines : l.kind # "absent"}

\* The users of less have their passwords of full, or none.
Less(less, full) ==
  \A u, d : PW!Lookup(less, u, d) \in {PW!Lookup(full, u, d), PW!None}

\* A beginning of a file knows less.
LEMMA BeginningIsLess ==
  ASSUME NEW full \in Seq(PW!Lines), NEW k \in 0..Len(full)
  PROVE  SubSeq(full, 1, k) \in Seq(PW!Lines) /\ Less(SubSeq(full, 1, k), full)
<1> DEFINE less == SubSeq(full, 1, k)
<1>1. less \in Seq(PW!Lines) /\ Len(less) = k /\ \A i \in 1..k : less[i] = full[i]
  OBVIOUS
<1> HIDE DEF less
<1>2. ASSUME NEW u, NEW d
      PROVE  PW!Lookup(less, u, d) \in {PW!Lookup(full, u, d), PW!None}
  <2> DEFINE H == Hits(full, u, d)
             B == Hits(less, u, d)
  <2>1. B = H \cap 1..k /\ H \subseteq Nat /\ B \subseteq Nat
    BY <1>1 DEF Hits
  <2>2. CASE B = {}
    BY <1>1, <2>2, LookupIs
  <2>3. CASE B # {}
    <3>1. /\ Min(B) \in B /\ \A y \in B : Min(B) <= y
          /\ Min(H) \in H /\ \A y \in H : Min(H) <= y
      BY <2>1, <2>3, MinIsLeast
    <3>2. Min(B) = Min(H) /\ Min(B) \in 1..k
      <4> DEFINE b == Min(B)
                 h == Min(H)
      <4>1. b \in H /\ b \in 1..k /\ b \in Nat /\ h \in Nat /\ h <= b
        BY <2>1, <3>1
      <4>2. h \in 1..k
        BY <1>1, <4>1, <3>1 DEF Hits
      <4>3. b <= h
        BY <2>1, <3>1, <4>2
      <4> HIDE DEF b, h
      <4>4. b = h
        BY <4>1, <4>3
      <4> QED BY <4>1, <4>4 DEF b, h
    <3>3. PW!Lookup(less, u, d) = less[Min(B)].pass /\ PW!Lookup(full, u, d) = full[Min(H)].pass
      BY ZenonT(40), <1>1, <2>1, <2>3, LookupIs
    <3> QED BY <1>1, <3>2, <3>3
  <2> QED BY <2>2, <2>3
<1>. QED
  BY <1>1, <1>2 DEF less, Less

LEMMA BrokenLine ==
  ASSUME NEW l \in PW!Lines
  PROVE  LET broken == [l EXCEPT !.pass = PW!None]
         IN /\ broken \in PW!Lines /\ broken.kind = l.kind /\ broken.user = l.user
            /\ broken.domain = l.domain /\ broken.pass = PW!None
<1> DEFINE broken == [l EXCEPT !.pass = PW!None]
<1>1. l = [kind |-> l.kind, user |-> l.user, domain |-> l.domain, pass |-> l.pass]
  BY DEF PW!Lines
<1>2. broken = [kind |-> l.kind, user |-> l.user, domain |-> l.domain, pass |-> PW!None]
  BY <1>1
<1> HIDE DEF broken
<1>3. l.kind \in {"record", "meta", "include", "junk", "cut", "absent"}
      /\ l.user \in PW!Texts /\ l.domain \in PW!Texts /\ PW!None \in PW!Texts
  BY DEF PW!Lines, PW!Texts
<1>4. broken \in PW!Lines
  BY <1>2, <1>3 DEF PW!Lines
<1>. QED
  BY <1>2, <1>4 DEF broken

\* So does a file whose last password is None.
LEMMA BrokenIsLess ==
  ASSUME NEW full \in Seq(Records)
  PROVE  LET less == [full EXCEPT ![Len(full)].pass = PW!None]
         IN less \in Seq(Records) /\ Less(less, full)
<1> DEFINE n == Len(full)
           less == [full EXCEPT ![n].pass = PW!None]
<1>1. \A l \in Records : [l EXCEPT !.pass = PW!None] \in Records
  BY BrokenLine DEF Records
<1>2. /\ less \in Seq(Records) /\ Len(less) = n /\ n \in Nat
      /\ \A i \in 1..n : less[i] = IF i = n THEN [full[i] EXCEPT !.pass = PW!None] ELSE full[i]
  <2> DEFINE new(i) == IF i = n THEN [full[i] EXCEPT !.pass = PW!None] ELSE full[i]
  <2>1. n \in Nat /\ full \in [1..n -> Records] /\ DOMAIN full = 1..n
    OBVIOUS
  <2>2. \A i \in 1..n : new(i) \in Records
    BY <1>1, <2>1
  <2>3. less = [i \in 1..n |-> new(i)]
    BY <2>1, Zenon
  <2> HIDE DEF new, less
  <2>4. less \in [1..n -> Records] /\ \A i \in 1..n : less[i] = new(i)
    BY <2>2, <2>3
  <2>5. less \in Seq(Records) /\ Len(less) = n
    BY <2>1, <2>4
  <2> QED BY <2>1, <2>4, <2>5 DEF new
<1>3. \A i \in 1..n : full[i] \in Records /\ full[i] \in PW!Lines
  BY DEF Records
<1>4. less \in Seq(PW!Lines) /\ full \in Seq(PW!Lines)
  BY <1>2 DEF Records
<1>5. \A i \in 1..n : /\ less[i].kind = full[i].kind /\ less[i].user = full[i].user
                       /\ less[i].domain = full[i].domain
                       /\ less[i].pass \in {full[i].pass, PW!None}
  <2> TAKE i \in 1..n
  <2>1. CASE i = n
    BY <1>2, <1>3, <2>1, BrokenLine
  <2>2. CASE i # n
    BY <1>2, <2>2
  <2> QED BY <2>1, <2>2
<1> HIDE DEF less, n
<1>6. ASSUME NEW u, NEW d
      PROVE  PW!Lookup(less, u, d) \in {PW!Lookup(full, u, d), PW!None}
  <2>1. Hits(less, u, d) = Hits(full, u, d)
    BY <1>2, <1>5 DEF Hits, n
  <2>2. CASE Hits(full, u, d) = {}
    BY <1>4, <2>1, <2>2, LookupIs
  <2>3. CASE Hits(full, u, d) # {}
    <3> DEFINE m == Min(Hits(full, u, d))
    <3>0. Hits(full, u, d) \subseteq 1..n /\ Hits(full, u, d) \subseteq Nat
      BY <1>2 DEF Hits, n
    <3>1. m \in Hits(full, u, d) /\ m \in 1..n
      BY <2>3, <3>0, MinIsLeast
    <3>2. PW!Lookup(less, u, d) = less[m].pass /\ PW!Lookup(full, u, d) = full[m].pass
      BY ZenonT(40), <1>4, <2>1, <2>3, LookupIs
    <3> QED BY <1>5, <3>1, <3>2
  <2> QED BY <2>2, <2>3
<1>. QED
  BY <1>2, <1>6 DEF less, n, Less

\* So does a file that has only a piece of its next line, and the mark of it.
LEMMA PieceIsLess ==
  ASSUME NEW full \in Seq(Present), NEW k \in 0..Len(full) - 1,
         full[k + 1].kind = "record", NEW piece \in PW!Pieces(full[k + 1])
  PROVE  LET less == SubSeq(full, 1, k) \o piece
         IN less \in Seq(Present) /\ Less(less, full)
<1> DEFINE begin == SubSeq(full, 1, k)
           l == full[k + 1]
           junk == PW!Line("junk", PW!None, PW!None, PW!None)
           broken == [l EXCEPT !.pass = PW!None]
<1>1. full \in Seq(PW!Lines) /\ l \in Present /\ l \in PW!Lines /\ l.kind = "record"
  BY DEF Present
<1>2. k \in 0..Len(full) /\ k + 1 \in 0..Len(full) /\ begin \in Seq(Present)
      /\ SubSeq(full, 1, k + 1) = Append(begin, l)
  OBVIOUS
<1>3. Less(begin, full) /\ Less(Append(begin, l), full)
  <2> HIDE DEF begin, l
  <2> QED BY <1>1, <1>2, BeginningIsLess DEF begin
<1>4. /\ PW!Cut \in Present /\ PW!Cut.kind = "cut"
      /\ junk \in Present /\ junk.kind = "junk"
      /\ broken \in Present /\ broken.pass = PW!None
  <2>1. PW!Line("junk", PW!None, PW!None, PW!None) \in PW!Lines
        /\ PW!Line("cut", PW!None, PW!None, PW!None) \in PW!Lines
    BY DEF PW!Line, PW!Lines, PW!Texts
  <2>2. junk.kind = "junk" /\ PW!Cut.kind = "cut"
    BY DEF PW!Cut, PW!Line
  <2> QED BY <1>1, <2>1, <2>2, BrokenLine DEF PW!Cut, Present
<1>5. piece = <<>> \/ \E x \in {junk, broken, l} : piece = <<x, PW!Cut>>
  BY DEF PW!Pieces
<1> HIDE DEF begin, l, junk, broken
\* One line more, of which nobody learns a password.
<1>6. ASSUME NEW f \in Seq(Present), Less(f, full), NEW x \in Present,
             x.kind # "record" \/ x.pass = PW!None
      PROVE  Append(f, x) \in Seq(Present) /\ Less(Append(f, x), full)
  <2>0. f \in Seq(PW!Lines) /\ x \in PW!Lines
    BY DEF Present
  <2>1. ASSUME NEW u, NEW d
        PROVE  PW!Lookup(Append(f, x), u, d) \in {PW!Lookup(full, u, d), PW!None}
    <3>1. PW!Lookup(Append(f, x), u, d) \in {PW!Lookup(f, u, d), PW!None}
      BY <1>6, <2>0, LookupAppend
    <3>2. PW!Lookup(f, u, d) \in {PW!Lookup(full, u, d), PW!None}
      BY <1>6 DEF Less
    <3> QED BY <3>1, <3>2
  <2>2. Append(f, x) \in Seq(Present)
    OBVIOUS
  <2> QED BY <2>1, <2>2 DEF Less
<1>7. \A x, y \in Present : begin \o <<x, y>> = Append(Append(begin, x), y)
  BY <1>2
<1>8. begin \o <<>> = begin
  BY <1>2
<1>9. ASSUME NEW x \in {junk, broken, l}, piece = <<x, PW!Cut>>
      PROVE  begin \o piece \in Seq(Present) /\ Less(begin \o piece, full)
  <2>1. x \in Present
    BY <1>1, <1>4
  <2>2. Append(begin, x) \in Seq(Present) /\ Less(Append(begin, x), full)
    <3>1. CASE x = l
      BY <1>2, <1>3, <2>1, <3>1
    <3>2. CASE x # l
      BY <1>2, <1>3, <1>4, <1>6, <2>1, <3>2
    <3> QED BY <3>1, <3>2
  <2>3. begin \o piece = Append(Append(begin, x), PW!Cut)
    BY <1>4, <1>7, <1>9, <2>1
  <2> QED BY <1>4, <1>6, <2>2, <2>3
<1>10. begin \o piece \in Seq(Present) /\ Less(begin \o piece, full)
  BY <1>2, <1>3, <1>5, <1>8, <1>9
<1>. QED
  BY <1>10 DEF begin

\* What is copied knows as much as the new file, or less when records are lost.
LEMMA CopyLoses ==
  ASSUME PW!Copy, w_fp \in Seq(PW!Lines), w_args \in Args, w_lost \in BOOLEAN
  PROVE  /\ w_fp2' \in Seq(Present) /\ w_lost' \in BOOLEAN
         /\ \A u, d : \/ PW!Lookup(w_fp2', u, d) = PW!Lookup(NewFile, u, d)
                      \/ w_lost' /\ PW!Lookup(w_fp2', u, d) = PW!None
<1> DEFINE copied == PW!CopiedLines[Len(w_fp)]
           new == IF PW!Found THEN <<>> ELSE PW!NewLines
           r == PW!Record(w_args.user, w_args.domain, w_args.pass)
<1>1. \/ w_fp2' = copied \o new /\ UNCHANGED w_lost
      \/ new = <<>> /\ w_fp2' = Append(copied, PW!Cut) /\ UNCHANGED w_lost
      \/ new # <<>> /\ w_lost' /\ w_fp2' = [copied EXCEPT ![Len(copied)].pass = PW!None]
         /\ w_lost' \in BOOLEAN
  BY DEF PW!Copy
<1>2. copied \in Seq(Records) /\ NewFile \in Seq(Records) /\ NewFile = copied \o new
      /\ (new # <<>> => new = <<r>>) /\ r \in Records
  <2>1. copied \in Seq(Records)
    BY CopiedLinesAre
  <2>2. NewFile = copied \o new
    BY DEF NewFile
  <2> QED
    BY <2>1, <2>2, CopyUpdates, CopiedIsRecords
<1> HIDE DEF copied, new, r
<1>3. \A f \in Seq(Records) : f \in Seq(Present) /\ f \in Seq(PW!Lines)
  <2> TAKE f \in Seq(Records)
  <2>1. \A i \in 1..Len(f) : f[i] \in Present /\ f[i] \in PW!Lines
    BY DEF Records, Present
  <2> QED BY <2>1
<1>4. CASE w_fp2' = copied \o new /\ UNCHANGED w_lost
  BY <1>2, <1>3, <1>4
<1>5. CASE new = <<>> /\ w_fp2' = Append(copied, PW!Cut) /\ UNCHANGED w_lost
  <2>1. PW!Line("cut", PW!None, PW!None, PW!None) \in PW!Lines
        /\ PW!Line("cut", PW!None, PW!None, PW!None).kind = "cut"
    BY DEF PW!Line, PW!Lines, PW!Texts
  <2>2. PW!Cut \in PW!Lines /\ PW!Cut \in Present /\ PW!Cut.kind # "record"
    BY <2>1 DEF PW!Cut, Present
  <2>3. NewFile = copied
    BY <1>2, <1>5, ConcatEmptySeq
  <2>4. ASSUME NEW u, NEW d
        PROVE  PW!Lookup(w_fp2', u, d) = PW!Lookup(copied, u, d)
    <3>1. copied \in Seq(PW!Lines)
      BY <1>2, <1>3
    <3>2. Hits(copied, u, d) = {} => PW!Lookup(copied, u, d) = PW!None
      BY <3>1, LookupIs
    <3> QED BY <1>5, <2>2, <3>1, <3>2, LookupAppend
  <2>5. w_fp2' \in Seq(Present)
    BY <1>2, <1>3, <1>5, <2>2
  <2> QED BY <1>5, <2>3, <2>4, <2>5
<1>6. CASE new # <<>> /\ w_lost' /\ w_fp2' = [copied EXCEPT ![Len(copied)].pass = PW!None]
           /\ w_lost' \in BOOLEAN
  <2>1. w_fp2' \in Seq(Records) /\ Less(w_fp2', copied)
    BY <1>2, <1>6, BrokenIsLess
  <2>2. NewFile = Append(copied, r) /\ copied \in Seq(PW!Lines) /\ r \in PW!Lines
    <3>1. NewFile = copied \o <<r>> /\ r \in PW!Lines
      BY <1>2, <1>6 DEF Records
    <3>2. copied \o <<r>> = Append(copied, r)
      BY <1>2
    <3> QED BY <1>2, <1>3, <3>1, <3>2
  <2>3. ASSUME NEW u, NEW d
        PROVE  PW!Lookup(w_fp2', u, d) \in {PW!Lookup(NewFile, u, d), PW!None}
    <3>1. Hits(copied, u, d) = {} => PW!Lookup(copied, u, d) = PW!None
      BY <2>2, LookupIs
    <3>2. PW!Lookup(w_fp2', u, d) \in {PW!Lookup(copied, u, d), PW!None}
      BY <2>1 DEF Less
    <3>3. Hits(copied, u, d) # {} => PW!Lookup(NewFile, u, d) = PW!Lookup(copied, u, d)
      BY <2>2, LookupAppend
    <3> QED BY <3>1, <3>2, <3>3
  <2> QED BY <1>3, <1>6, <2>1, <2>3
<1>. QED
  BY <1>1, <1>4, <1>5, <1>6

-----------------------------------------------------------------------------
\* What a change of the password file has reached at each of its steps.
PwStages == {"idle", "create", "open", "open_tmp", "copy", "close", "remove", "rename"}
AsBefore == w_disk.file = w_old \/ (w_old = PW!Absent /\ w_disk.file = <<>>)
IsNew(file) == file \in Seq(Present) /\ PW!Updated(file)

PwInv ==
  /\ w_pc \in PwStages /\ w_args \in Args /\ w_lost \in BOOLEAN /\ w_nonce_count \in Nat
  /\ w_disk = [file |-> w_disk.file, tmp |-> w_disk.tmp]
  /\ w_disk.file \in Seq(PW!Lines) /\ w_old \in Seq(PW!Lines)
  /\ w_pc = "create" => w_disk.file = w_old
  /\ w_pc \in {"open", "open_tmp", "copy", "close", "remove"} => AsBefore
  /\ w_pc \in {"open_tmp", "copy", "close", "remove"} => w_disk.file # PW!Absent
  /\ w_pc \in {"open_tmp", "copy"} => w_fp = w_disk.file
  /\ w_pc \in {"close", "remove", "rename"} => IsNew(w_fp2)
  /\ w_pc = "close" => \E k \in 0..Len(w_fp2) : w_disk.tmp = SubSeq(w_fp2, 1, k)
  /\ w_pc = "copy" => w_disk.tmp = <<>>
  /\ w_pc \in {"remove", "rename"} => IsNew(w_disk.tmp)
  /\ w_pc = "rename" => AsBefore \/ w_disk.file = PW!Absent
  /\ PW!PasswordsSurvive

LEMMA AbsentIsNotNew ==
  /\ \A file \in Seq(Present) : file # PW!Absent /\ file \in Seq(PW!Lines)
  /\ PW!Absent \in Seq(PW!Lines) /\ <<>> \in Seq(PW!Lines) /\ PW!Absent # <<>>
<1>1. ASSUME NEW file \in Seq(Present) PROVE file # PW!Absent /\ file \in Seq(PW!Lines)
  <2>1. Len(file) = 1 => file[1].kind # "absent"
    BY DEF Present
  <2>2. Len(PW!Absent) = 1 /\ PW!Absent[1].kind = "absent"
    BY DEF PW!Absent, PW!Line
  <2>3. file \in Seq(PW!Lines)
    BY DEF Present
  <2> QED
    BY <2>1, <2>2, <2>3
<1>2. PW!Absent \in Seq(PW!Lines) /\ PW!Absent # <<>>
  <2>1. PW!Line("absent", PW!None, PW!None, PW!None) \in PW!Lines
    BY DEF PW!Line, PW!Lines, PW!Texts
  <2> QED BY <2>1 DEF PW!Absent
<1>. QED
  BY <1>1, <1>2

LEMMA PwInit ==
  ASSUME PW!Init PROVE PwInv
<1>1. w_disk.file \in Files /\ Files \subseteq Seq(PW!Lines) /\ w_disk = [file |-> w_disk.file, tmp |-> w_disk.tmp]
  BY PasswordsAssumption DEF PW!Init, PW!FileAssumption
<1>2. w_args \in Args
  BY DEF PW!Init, PW!NoArgs, PW!Texts, Args
<1>3. w_pc = "idle" /\ w_lost = FALSE /\ w_nonce_count = 0 /\ w_old = w_disk.file
      /\ w_returned = -1
  BY DEF PW!Init
<1>4. PW!PasswordsSurvive
  BY <1>3 DEF PW!PasswordsSurvive
<1>. QED
  BY <1>1, <1>2, <1>3, <1>4 DEF PwInv, PwStages

\* One step: while args and old stay as they are, so does what is asked for.
LEMMA PwStep ==
  ASSUME PwInv, [PW!Next]_(PW!vars) PROVE PwInv'
<1> USE AbsentIsNotNew DEF PwInv, PwStages
<1>0. ASSUME UNCHANGED <<w_args, w_old, w_lost>>
      PROVE  \A file : (PW!Updated(file) <=> PW!Updated(file)')
  BY <1>0 DEF PW!Updated
<1>1. CASE UNCHANGED PW!vars
  BY <1>1 DEF PW!vars, PW!call, AsBefore, IsNew, PW!PasswordsSurvive, PW!Updated
<1>2. CASE PW!Challenge
  BY <1>2 DEF PW!Challenge, PW!call, AsBefore, IsNew, PW!PasswordsSurvive, PW!Updated
<1>3. ASSUME NEW u \in Users \cup BadNames, NEW d \in Domains, NEW p \in Passwords \cup {PW!Empty},
             PW!Call(u, d, p)
      PROVE  PwInv'
  <2>1. w_args' \in Args
    BY <1>3, PasswordsAssumption DEF PW!Call, Args, PW!FileAssumption, PW!Texts
  <2>2. /\ w_disk' = w_disk /\ w_old' = w_disk.file /\ w_lost' = FALSE
        /\ w_nonce_count' = w_nonce_count
        /\ w_pc' = "create" \/ (w_pc' = "idle" /\ w_returned' = 0)
    BY <1>3 DEF PW!Call, PW!Returns
  <2>3. PW!PasswordsSurvive'
    BY <2>2 DEF PW!PasswordsSurvive
  <2>4. /\ w_disk' = [file |-> w_disk'.file, tmp |-> w_disk'.tmp]
        /\ w_disk'.file \in Seq(PW!Lines) /\ w_old' \in Seq(PW!Lines)
        /\ w_disk'.file = w_old' /\ w_nonce_count' \in Nat
    BY <2>2
  <2>5. w_pc' \in {"create", "idle"} /\ AsBefore' /\ w_lost' \in BOOLEAN
    BY <2>2, <2>4 DEF AsBefore
  <2> HIDE AbsentIsNotNew
  <2> QED
    BY <2>1, <2>3, <2>4, <2>5
<1>4. CASE PW!Create
  <2>1. w_pc' = "open" /\ w_disk'.file \in {w_old, <<>>} /\ AsBefore'
        /\ w_disk' = [file |-> w_disk'.file, tmp |-> w_disk'.tmp]
    BY <1>4 DEF PW!Create, PW!At, AsBefore
  <2> QED
    BY <1>4, <2>1 DEF PW!Create, PW!At, PW!PasswordsSurvive, AsBefore
<1>5. CASE PW!OpenFile
  BY <1>0, <1>5 DEF PW!OpenFile, PW!Returns, AsBefore, PW!PasswordsSurvive
<1>6. CASE PW!OpenTmp
  BY <1>0, <1>6 DEF PW!OpenTmp, PW!Returns, AsBefore, PW!PasswordsSurvive
<1>7. CASE PW!Copy
  <2>1. UNCHANGED <<w_args, w_old>>
    BY <1>7 DEF PW!Copy
  <2>2. NewFile \in Seq(Records) /\ \A u, d : PW!Lookup(NewFile, u, d) =
              IF u = w_args.user /\ d = w_args.domain THEN w_args.pass
              ELSE PW!Lookup(w_fp, u, d)
    BY <1>7, CopyUpdates DEF PW!Copy, PW!At
  <2>3. \A u, d : PW!Lookup(w_fp, u, d) = PW!Lookup(w_old, u, d)
    BY <1>7, LookupEmpty DEF PW!Copy, PW!At, AsBefore
  <2>4. w_fp2' \in Seq(Present) /\ w_lost' \in BOOLEAN
        /\ \A u, d : \/ PW!Lookup(w_fp2', u, d) = PW!Lookup(NewFile, u, d)
                     \/ w_lost' /\ PW!Lookup(w_fp2', u, d) = PW!None
    BY <1>7, CopyLoses DEF PW!Copy, PW!At
  <2>5. PW!Updated(w_fp2)'
    BY <2>1, <2>2, <2>3, <2>4 DEF PW!Updated
  <2>6. w_fp2' \in Seq(Present) /\ w_disk' = w_disk /\ w_disk.tmp = <<>>
        /\ SubSeq(w_fp2', 1, 0) = <<>> /\ 0 \in 0..Len(w_fp2')
    BY <1>7, <2>4 DEF PW!Copy, PW!At
  <2>7. \E k \in 0..Len(w_fp2') : w_disk'.tmp = SubSeq(w_fp2', 1, k)
    BY <2>6
  <2>8. PW!PasswordsSurvive'
    BY <1>7, <2>6 DEF PW!Copy, PW!At, AsBefore, PW!PasswordsSurvive
  <2> QED
    BY <1>7, <2>4, <2>5, <2>6, <2>7, <2>8 DEF PW!Copy, PW!At, AsBefore, IsNew
<1>8. CASE PW!Flush
  <2>1. w_disk'.file = w_disk.file /\ w_disk' = [file |-> w_disk'.file, tmp |-> w_disk'.tmp]
        /\ IsNew(w_fp2)' /\ w_pc = "close"
    BY <1>8 DEF PW!Flush, PW!call, IsNew, PW!Updated
  <2>2. PICK k \in 0..Len(w_fp2) : w_disk.tmp = SubSeq(w_fp2, 1, k)
    BY <2>1
  <2>3. w_fp2 \in Seq(Present) /\ Len(w_disk.tmp) = k
    BY <2>1, <2>2 DEF IsNew
  <2>4. k + 1 \in 0..Len(w_fp2) /\ w_disk'.tmp = SubSeq(w_fp2, 1, k + 1) /\ w_fp2' = w_fp2
    BY <1>8, <2>3 DEF PW!Flush, PW!call
  <2>5. \E i \in 0..Len(w_fp2') : w_disk'.tmp = SubSeq(w_fp2', 1, i)
    BY <2>4
  <2>6. PW!PasswordsSurvive'
    BY <1>8, <2>1 DEF PW!Flush, PW!call, AsBefore, PW!PasswordsSurvive
  <2> QED
    BY <1>8, <2>1, <2>5, <2>6 DEF PW!Flush, PW!call, AsBefore
<1>9. CASE PW!Close
  <2>1. /\ IsNew(w_fp2) /\ w_fp2' = w_fp2 /\ w_pc = "close" /\ w_pc' = "remove"
        /\ UNCHANGED <<w_args, w_old>> /\ w_lost' \in BOOLEAN /\ (w_lost => w_lost')
        /\ w_disk'.file = w_disk.file /\ w_disk' = [file |-> w_disk'.file, tmp |-> w_disk'.tmp]
    BY <1>9 DEF PW!Close, PW!At
  <2>2. IsNew(w_fp2)'
    BY <2>1 DEF IsNew, PW!Updated
  <2>3. IsNew(w_disk.tmp)'
    <3>1. CASE w_disk.tmp = w_fp2 /\ UNCHANGED <<w_disk, w_lost>>
      BY <2>1, <3>1 DEF IsNew, PW!Updated
    <3>2. CASE ~(w_disk.tmp = w_fp2 /\ UNCHANGED <<w_disk, w_lost>>)
      <4>1. PICK k \in 0..Len(w_fp2) : w_disk.tmp = SubSeq(w_fp2, 1, k)
        BY <2>1
      <4>2. w_fp2 \in Seq(Present) /\ Len(w_disk.tmp) = k
        BY <2>1, <4>1 DEF IsNew
      <4>3. /\ Len(w_disk.tmp) < Len(w_fp2) /\ w_fp2[Len(w_disk.tmp) + 1].kind = "record"
            /\ \E piece \in PW!Pieces(w_fp2[Len(w_disk.tmp) + 1]) :
                  w_disk' = [w_disk EXCEPT !.tmp = @ \o piece]
            /\ w_lost'
        BY <1>9, <3>2 DEF PW!Close
      <4>4. PICK piece \in PW!Pieces(w_fp2[k + 1]) : w_disk'.tmp = SubSeq(w_fp2, 1, k) \o piece
        BY <4>1, <4>2, <4>3
      <4>5. k \in 0..Len(w_fp2) - 1 /\ w_fp2[k + 1].kind = "record"
        BY <4>2, <4>3
      <4>6. w_disk'.tmp \in Seq(Present) /\ Less(w_disk'.tmp, w_fp2)
        BY <4>2, <4>4, <4>5, PieceIsLess
      <4>7. PW!Updated(w_disk.tmp)'
        BY <2>1, <4>3, <4>6 DEF IsNew, PW!Updated, Less
      <4> QED BY <4>6, <4>7 DEF IsNew
    <3> QED BY <3>1, <3>2
  <2>4. PW!PasswordsSurvive'
    BY <2>1 DEF AsBefore, PW!PasswordsSurvive
  <2> QED
    BY <1>9, <2>1, <2>2, <2>3, <2>4 DEF PW!Close, AsBefore
<1>10. CASE PW!RemoveOld
  <2>1. IsNew(w_fp2)' /\ w_pc = "remove" /\ w_disk'.tmp = w_disk.tmp /\ UNCHANGED w_fp2
        /\ w_disk' = [file |-> w_disk'.file, tmp |-> w_disk'.tmp]
        /\ w_disk'.file \in {PW!Absent, w_disk.file} /\ w_disk.tmp # PW!Absent
    BY <1>10 DEF PW!RemoveOld, PW!At, IsNew, PW!Updated
  <2>2. PW!Updated(w_disk.tmp)' /\ IsNew(w_disk.tmp)'
    BY <1>10, <2>1 DEF PW!RemoveOld, IsNew, PW!Updated
  <2> QED
    BY <1>10, <2>1, <2>2 DEF PW!RemoveOld, PW!At, AsBefore, PW!PasswordsSurvive
<1>11. CASE PW!Rename
  <2>1. w_pc = "rename" /\ w_pc' = "idle" /\ IsNew(w_disk.tmp)
        /\ UNCHANGED <<w_args, w_old, w_lost>>
    BY <1>11 DEF PW!Rename, PW!Returns
  <2>2. CASE w_disk' = [file |-> w_disk.tmp, tmp |-> PW!Absent]
    <3>1. w_disk'.file = w_disk.tmp /\ w_disk' = [file |-> w_disk'.file, tmp |-> w_disk'.tmp]
          /\ w_disk.tmp # PW!Absent
      BY <2>1, <2>2 DEF IsNew
    <3>2. PW!Updated(w_disk.file)'
      BY <2>1, <3>1 DEF IsNew, PW!Updated
    <3> QED
      BY <1>11, <2>1, <3>1, <3>2 DEF PW!Rename, PW!Returns, PW!PasswordsSurvive, IsNew
  <2>3. CASE UNCHANGED w_disk
    <3>1. PW!Updated(w_disk.tmp)' /\ w_disk.tmp # PW!Absent
      BY <2>1, <2>3 DEF IsNew, PW!Updated
    <3> QED
      BY <1>11, <2>1, <2>3, <3>1 DEF PW!Rename, PW!Returns, PW!PasswordsSurvive, AsBefore
  <2> QED
    BY <1>11, <2>2, <2>3 DEF PW!Rename
<1>12. CASE PW!Killed
  <2>1. PW!Updated(w_disk.file)' <=> PW!Updated(w_disk.file)
    BY <1>12 DEF PW!Killed, PW!Updated
  <2>2. PW!Updated(w_disk.tmp)' <=> PW!Updated(w_disk.tmp)
    BY <1>12 DEF PW!Killed, PW!Updated
  <2> QED
    BY <1>12, <2>1, <2>2 DEF PW!Killed, PW!Returns, PW!PasswordsSurvive
<1>. QED
  BY <1>1, <1>2, <1>3, <1>4, <1>5, <1>6, <1>7, <1>8, <1>9, <1>10, <1>11, <1>12
     DEF PW!Next, PW!Modify

\* The passwords are one part of what a behaviour may look at.
LEMMA MCStepsOfPasswords ==
  /\ MCInit => PW!Init
  /\ [MCNext]_mcVars => [PW!Next]_(PW!vars)
<1>1. MCInit => PW!Init
  BY DEF MCInit
<1>2. UNCHANGED wVars => UNCHANGED PW!vars
  BY DEF wVars, PW!vars, PW!call
<1>. QED
  BY <1>1, <1>2 DEF MCNext, In, mcVars

THEOREM PwAlways == MCSpec => []PwInv
<1>1. MCInit => PwInv
  BY PwInit, MCStepsOfPasswords
<1>2. PwInv /\ [MCNext]_mcVars => PwInv'
  BY PwStep, MCStepsOfPasswords
<1>. QED
  BY <1>1, <1>2, PTL DEF MCSpec

\* A change of a password, cut short anywhere, loses no other, unless the disk was full or
\* the file did not end in a newline: mg_modify_passwords_file.
THEOREM PasswordsSurviveHolds == MCSpec => []PasswordsSurvive
<1>1. PwInv => PasswordsSurvive
  BY DEF PwInv, PasswordsSurvive
<1>. QED
  BY <1>1, PwAlways, PTL

\* The loop over a file's lines ends at the record that Lookup finds.
LEMMA LoopIs ==
  ASSUME NEW file \in Seq(PW!Lines), NEW q, NEW b
  PROVE  PW!Loop(file, q, b) =
           IF Hits(file, q.user, DOMAIN_) # {}
           THEN q.pass # PW!None /\ q.pass = PW!Lookup(file, q.user, DOMAIN_)
           ELSE b /\ \E k \in DOMAIN file : file[k].kind = "include"
<1> DEFINE hits == Hits(file, q.user, DOMAIN_)
<1>1. PW!SelectInSeq(file, LAMBDA l : l.kind = "record" /\ l.user = q.user /\ l.domain = DOMAIN_)
        = IF hits # {} THEN Min(hits) ELSE 0
  BY DEF PW!SelectInSeq, PW!Min, Min, Hits
<1>2. hits # {} => Min(hits) # 0
  <2>1. hits \in SUBSET Nat /\ 0 \notin hits
    BY DEF Hits
  <2> QED BY <2>1, MinIsLeast
<1>3. PW!Lookup(file, q.user, DOMAIN_) = IF hits = {} THEN PW!None ELSE file[Min(hits)].pass
  BY LookupIs
<1>. QED
  BY <1>1, <1>2, <1>3 DEF PW!Loop, PW!check_password

LEMMA VerdictIs ==
  ASSUME PwInv PROVE PW!VerdictByRecord
<1> SUFFICES ASSUME NEW u \in Users, NEW p \in Passwords \cup {PW!None}, NEW n \in 0..MaxNonces
             PROVE  LET q == [user |-> u, pass |-> p, nonce |-> n]
                        here == PW!Lookup(w_disk.file, u, DOMAIN_)
                        there == PW!Lookup(Included, u, DOMAIN_)
                        answers == n < w_nonce_count /\ p # PW!None
                    IN /\ PW!is_authorized_for_put(w_disk.file, q) =>
                            PW!check_authorization(w_disk.file, q) /\ answers /\ p \in {here, there}
                       /\ w_disk.file # PW!Absent =>
                            /\ PW!check_authorization(w_disk.file, q) => PW!is_authorized_for_put(w_disk.file, q)
                            /\ here # PW!None =>
                                 (PW!check_authorization(w_disk.file, q) <=> answers /\ p = here)
  BY Zenon DEF PW!VerdictByRecord
<1> DEFINE q == [user |-> u, pass |-> p, nonce |-> n]
           file == w_disk.file
           inner == PW!Loop(Included, q, FALSE)
<1>1. file \in Seq(PW!Lines) /\ Included \in Seq(PW!Lines) /\ u # PW!None /\ n \in Nat /\ w_nonce_count \in Nat
  BY PasswordsAssumption DEF PwInv, PW!FileAssumption
<1>2. q.user = u /\ q.pass = p /\ q.nonce = n
  OBVIOUS
<1>3. PW!parse_auth_header(q) <=> n < w_nonce_count
  BY <1>1, <1>2 DEF PW!parse_auth_header
<1>4. inner <=> Hits(Included, u, DOMAIN_) # {} /\ p # PW!None /\ p = PW!Lookup(Included, u, DOMAIN_)
  <2> HIDE DEF q
  <2> QED BY <1>1, <1>2, LoopIs
<1>5. PW!read_auth_file(file, q) <=>
        IF Hits(file, u, DOMAIN_) # {} THEN p # PW!None /\ p = PW!Lookup(file, u, DOMAIN_)
        ELSE inner /\ \E k \in DOMAIN file : file[k].kind = "include"
  <2>1. PW!read_auth_file(file, q) = PW!Loop(file, q, inner)
    BY DEF PW!read_auth_file
  <2> HIDE DEF q, inner
  <2> QED BY <1>1, <1>2, <2>1, LoopIs
<1>6. Hits(file, u, DOMAIN_) = {} => PW!Lookup(file, u, DOMAIN_) = PW!None
  BY <1>1, LookupIs
<1> HIDE DEF q, inner
<1>7. PW!authorize(file, q) <=> n < w_nonce_count /\ PW!read_auth_file(file, q)
  BY <1>3 DEF PW!authorize
<1>8. /\ PW!is_authorized_for_put(file, q) <=> file # PW!Absent /\ PW!authorize(file, q)
      /\ PW!check_authorization(file, q) <=> file = PW!Absent \/ PW!authorize(file, q)
  BY DEF PW!is_authorized_for_put, PW!check_authorization
<1>. QED
  BY <1>4, <1>5, <1>6, <1>7, <1>8 DEF q

\* A user is let in with the password of the first record and with no other:
\* check_authorization, is_authorized_for_put, read_auth_file.
THEOREM VerdictByRecordHolds == MCSpec => []VerdictByRecord
<1>1. PwInv => VerdictByRecord
  BY VerdictIs DEF VerdictByRecord
<1>. QED
  BY <1>1, PwAlways, PTL

-----------------------------------------------------------------------------
(***************************************************************************)
(* The processes of CGI scripts.                                           *)
(***************************************************************************)
Pointers == [gen : Nat, from : Nat, size : Nat]
Blocks == [buflen : Nat, bufused : Nat, top : Nat, gen : Nat, var : Seq(Pointers)]

\* One environment of EnvironmentInBounds.
InOrder(var, bufused) ==
  \A i \in DOMAIN var :
    var[i].from + var[i].size <= (IF i = Len(var) THEN bufused ELSE var[i + 1].from)

InBounds(env) ==
  /\ env.bufused <= env.buflen
  /\ \/ env.top <= env.buflen
     \/ env.bufused = env.buflen /\ env.top = env.buflen + 1
  /\ Len(env.var) < MAX_CGI_ENVIR_VARS
  /\ InOrder(env.var, env.bufused)

GoodBlocks == {env \in Blocks : InBounds(env)}

LEMMA NoEnvInBounds == CGI!NoEnv \in GoodBlocks
<1>1. CGI!NoEnv \in Blocks
  BY ScriptsAssumption DEF CGI!CgiAssumption, CGI!NoEnv, Blocks
<1>2. CGI!NoEnv.bufused = 0 /\ CGI!NoEnv.top = 0 /\ CGI!NoEnv.buflen = CGI_ENVIRONMENT_SIZE /\ CGI!NoEnv.var = <<>>
  BY DEF CGI!NoEnv
<1>. QED
  BY <1>1, <1>2, ScriptsAssumption DEF CGI!CgiAssumption, GoodBlocks, InBounds, InOrder

LEMMA AddenvInBounds ==
  ASSUME NEW env \in GoodBlocks, NEW s \in Nat
  PROVE  CGI!addenv(env, s) \in GoodBlocks
<1> DEFINE space == env.buflen - env.bufused
           will_do(k) == (space <= ESTIMATE => k > 0) /\ s <= space + k * CGI_ENVIRONMENT_SIZE
           fits(k) == k \in 0..s + 1 /\ will_do(k) /\ \A i \in 0..k - 1 : ~will_do(i)
           grows == CHOOSE k \in 0..s + 1 : will_do(k) /\ \A i \in 0..k - 1 : ~will_do(i)
           new == CGI!addenv(env, s)
           one == [gen |-> env.gen + grows, from |-> env.bufused, size |-> s]
           room == MAX_CGI_ENVIR_VARS - Len(env.var)
<1>1. /\ env.buflen \in Nat /\ env.bufused \in Nat /\ env.gen \in Nat /\ env.var \in Seq(Pointers)
      /\ InBounds(env) /\ space \in Nat
      /\ ESTIMATE \in Nat /\ CGI_ENVIRONMENT_SIZE \in Nat \ {0} /\ MAX_CGI_ENVIR_VARS \in Nat \ {0}
  BY ScriptsAssumption DEF CGI!CgiAssumption, GoodBlocks, Blocks, InBounds
<1>2. \E k \in 0..s + 1 : will_do(k) /\ \A i \in 0..k - 1 : ~will_do(i)
  <2> DEFINE Z == {k \in 0..s + 1 : will_do(k)}
  <2>1. \A a, b \in Nat : b # 0 => a * b >= a
    <3> TAKE a, b \in Nat
    <3> HAVE b # 0
    <3>1. b - 1 \in Nat /\ a * b = a * (b - 1) + a
      OBVIOUS
    <3>2. a * (b - 1) >= 0
      BY <3>1
    <3> QED BY <3>1, <3>2
  <2>2. (s + 1) * CGI_ENVIRONMENT_SIZE >= s + 1 /\ (s + 1) * CGI_ENVIRONMENT_SIZE \in Nat
    BY <1>1, <2>1
  <2>3. s + 1 \in Z
    BY <1>1, <2>2
  <2>4. Min(Z) \in Z /\ \A y \in Z : Min(Z) <= y
    <3>1. Z \in SUBSET Nat /\ Z # {}
      BY <2>3
    <3> HIDE DEF Z
    <3> QED BY <3>1, MinIsLeast
  <2> DEFINE k == Min(Z)
  <2>5. k \in 0..s + 1 /\ will_do(k)
    BY <2>4
  <2>6. ASSUME NEW i \in 0..k - 1 PROVE ~will_do(i)
    <3>1. i \in 0..s + 1 /\ i < k
      BY <2>5
    <3>2. i \notin Z
      BY <2>4, <3>1
    <3> QED BY <3>1, <3>2
  <2> HIDE DEF k, Z
  <2> QED
    BY <2>5, <2>6
<1>3. grows \in 0..s + 1 /\ will_do(grows)
  BY <1>2
<1> HIDE DEF grows
<1>4. /\ grows \in Nat /\ grows * CGI_ENVIRONMENT_SIZE \in Nat
      /\ env.bufused + s <= env.buflen + grows * CGI_ENVIRONMENT_SIZE
  BY <1>1, <1>3
<1>5. new = [buflen |-> env.buflen + grows * CGI_ENVIRONMENT_SIZE,
             bufused |-> env.bufused + s, top |-> env.bufused + s, gen |-> env.gen + grows,
             var |-> IF room < 2 THEN env.var ELSE Append(env.var, one)]
  BY DEF CGI!addenv, grows
<1>6. one \in Pointers /\ one.from = env.bufused /\ one.size = s
  BY <1>1, <1>4 DEF Pointers
<1> HIDE DEF one, new
<1>7. /\ new \in Blocks /\ new.bufused <= new.buflen /\ new.bufused = env.bufused + s
      /\ new.top <= new.buflen
      /\ new.var = IF room < 2 THEN env.var ELSE Append(env.var, one)
  <2> DEFINE more == grows * CGI_ENVIRONMENT_SIZE
             var == IF room < 2 THEN env.var ELSE Append(env.var, one)
  <2>1. var \in Seq(Pointers)
    BY <1>1, <1>6
  <2>2. more \in Nat /\ env.bufused + s <= env.buflen + more
    BY <1>4
  <2>3. new = [buflen |-> env.buflen + more, bufused |-> env.bufused + s,
               top |-> env.bufused + s, gen |-> env.gen + grows, var |-> var]
    BY <1>5
  <2> DEFINE len == env.buflen + more
             used == env.bufused + s
             gen == env.gen + grows
  <2>4. len \in Nat /\ used \in Nat /\ gen \in Nat /\ used <= len
    BY SMTT(30), <1>1, <1>4, <2>2
  <2> HIDE DEF more, var, len, used, gen
  <2>5. new = [buflen |-> len, bufused |-> used, top |-> used, gen |-> gen, var |-> var]
    BY <2>3 DEF len, used, gen
  <2>6. new \in Blocks /\ new.bufused = used /\ new.top = used /\ new.buflen = len /\ new.var = var
    BY <2>1, <2>4, <2>5 DEF Blocks
  <2> QED BY <2>4, <2>6 DEF var, used
<1>8. /\ Len(env.var) < MAX_CGI_ENVIR_VARS /\ DOMAIN env.var = 1..Len(env.var) /\ Len(env.var) \in Nat
      /\ \A i \in DOMAIN env.var : env.var[i].from \in Nat /\ env.var[i].size \in Nat
      /\ \A i \in DOMAIN env.var :
           env.var[i].from + env.var[i].size <=
             (IF i = Len(env.var) THEN env.bufused ELSE env.var[i + 1].from)
  <2>1. Len(env.var) < MAX_CGI_ENVIR_VARS /\ InOrder(env.var, env.bufused)
    BY <1>1 DEF InBounds
  <2>2. DOMAIN env.var = 1..Len(env.var) /\ Len(env.var) \in Nat
    BY <1>1
  <2>3. \A i \in DOMAIN env.var : env.var[i].from \in Nat /\ env.var[i].size \in Nat
    <3> TAKE i \in DOMAIN env.var
    <3>1. env.var[i] \in Pointers
      BY <1>1
    <3> QED BY <3>1 DEF Pointers
  <2> QED
    BY <2>1, <2>2, <2>3, Zenon DEF InOrder
<1>9. CASE room < 2
  <2>1. new.var = env.var
    BY <1>7, <1>9
  <2>2. ASSUME NEW i \in DOMAIN env.var
        PROVE  env.var[i].from + env.var[i].size <=
                 (IF i = Len(env.var) THEN new.bufused ELSE env.var[i + 1].from)
    <3> DEFINE e == env.var[i].from + env.var[i].size
    <3>1. e \in Nat
      BY <1>8
    <3> HIDE DEF e
    <3>2. i = Len(env.var) => e <= env.bufused
      BY <1>8 DEF e
    <3>3. i # Len(env.var) => e <= env.var[i + 1].from
      BY <1>8 DEF e
    <3>4. i = Len(env.var) => e <= new.bufused
      BY <1>1, <1>7, <3>1, <3>2
    <3> QED
      BY <3>3, <3>4 DEF e
  <2>3. InOrder(env.var, new.bufused)
    BY <2>2, Zenon DEF InOrder
  <2>4. InBounds(new)
    BY <1>7, <1>8, <2>1, <2>3 DEF InBounds
  <2> QED
    BY <1>7, <2>4 DEF GoodBlocks, new
<1>10. CASE ~(room < 2)
  <2> DEFINE n == Len(env.var)
             var == Append(env.var, one)
  <2>1. /\ Len(var) = n + 1 /\ var[n + 1] = one /\ \A i \in 1..n : var[i] = env.var[i]
        /\ DOMAIN var = 1..n + 1
    BY <1>1, <1>6
  <2>2. n + 1 < MAX_CGI_ENVIR_VARS /\ n \in Nat
    BY <1>1, <1>8, <1>10
  <2>3. new.var = var
    BY <1>7, <1>10
  <2> HIDE DEF var, n
  <2>4. ASSUME NEW i \in DOMAIN var
        PROVE  var[i].from + var[i].size <= (IF i = Len(var) THEN new.bufused ELSE var[i + 1].from)
    <3>1. CASE i = n + 1
      BY <1>1, <1>6, <1>7, <2>1, <3>1
    <3>2. CASE i = n /\ n # 0
      <4>1. i \in 1..n /\ i \in DOMAIN env.var /\ i # Len(var) /\ var[i + 1] = one
        BY <2>1, <2>2, <3>2 DEF n
      <4>2. env.var[i].from + env.var[i].size <= env.bufused
        BY <1>8, <3>2, <4>1 DEF n
      <4> QED
        BY <1>6, <2>1, <4>1, <4>2
    <3>3. CASE i \in 1..n - 1
      <4>1. i \in 1..n /\ i + 1 \in 1..n /\ i # Len(var) /\ i # n
        BY <2>1, <2>2, <3>3
      <4>2. env.var[i].from + env.var[i].size <= env.var[i + 1].from
        BY <1>8, <4>1 DEF n
      <4>3. var[i] = env.var[i] /\ var[i + 1] = env.var[i + 1]
        BY <2>1, <4>1
      <4> QED
        BY <4>1, <4>2, <4>3
    <3> QED
      BY <2>1, <2>2, <3>1, <3>2, <3>3
  <2>5. Len(var) < MAX_CGI_ENVIR_VARS
    BY <2>1, <2>2
  <2>6. InOrder(var, new.bufused)
    BY <2>4, Zenon DEF InOrder
  <2>7. InBounds(new)
    BY <1>7, <2>3, <2>5, <2>6 DEF InBounds
  <2> QED
    BY <1>7, <2>7 DEF GoodBlocks, new
<1>. QED
  BY <1>9, <1>10 DEF new

\* The last '\0' is within the buffer, or right behind it when that is full.
LEMMA TerminatedInBounds ==
  ASSUME NEW e \in GoodBlocks
  PROVE  [e EXCEPT !.top = e.bufused + 1] \in GoodBlocks
<1> DEFINE all == [e EXCEPT !.top = e.bufused + 1]
<1>1. /\ e \in Blocks /\ e.bufused \in Nat /\ e.buflen \in Nat /\ InBounds(e)
      /\ e.gen \in Nat /\ e.var \in Seq(Pointers)
  BY DEF GoodBlocks, Blocks
<1>2. e = [buflen |-> e.buflen, bufused |-> e.bufused, top |-> e.top, gen |-> e.gen,
           var |-> e.var]
  BY <1>1, Zenon DEF Blocks
<1>3. all = [buflen |-> e.buflen, bufused |-> e.bufused, top |-> e.bufused + 1, gen |-> e.gen,
             var |-> e.var]
  BY <1>2
<1> HIDE DEF all
<1>4. /\ all \in Blocks /\ all.top = e.bufused + 1
      /\ all.buflen = e.buflen /\ all.bufused = e.bufused /\ all.var = e.var
  BY <1>1, <1>3 DEF Blocks
<1>5. all.top <= all.buflen \/ (all.bufused = all.buflen /\ all.top = all.buflen + 1)
  BY <1>1, <1>4 DEF InBounds
<1>6. InBounds(all)
  BY <1>1, <1>4, <1>5 DEF InBounds
<1>. QED
  BY <1>4, <1>6 DEF GoodBlocks, all

LEMMA PreparedInBounds ==
  ASSUME NEW sizes \in Seq(Nat)
  PROVE  CGI!prepare_cgi_environment(sizes) \in GoodBlocks
<1> DEFINE n == Len(sizes)
           T == GoodBlocks
           a == CGI!NoEnv
           next == [k \in 1..n |-> [x \in T |-> CGI!addenv(x, sizes[k])]]
           Solves(f) == f = [k \in 0..n |-> IF k = 0 THEN CGI!NoEnv ELSE CGI!addenv(f[k - 1], sizes[k])]
           env == CHOOSE f : Solves(f)
<1>1. n \in Nat /\ a \in T /\ \A k \in 1..n : sizes[k] \in Nat
  BY NoEnvInBounds
<1>2. next \in [1..n -> [T -> T]]
  BY <1>1, AddenvInBounds
<1>3. PICK f \in [0..n -> T] : f[0] = a /\ \A k \in 1..n : f[k] = next[k][f[k - 1]]
  <2> HIDE DEF next, T, n, a
  <2>1. Solutions(n, T, a, next) # {}
    BY <1>1, <1>2, Recursion
  <2> QED BY <2>1 DEF Solutions
<1>4. Solves(f)
  <2>1. ASSUME NEW k \in 1..n PROVE next[k][f[k - 1]] = CGI!addenv(f[k - 1], sizes[k])
    <3>1. f[k - 1] \in T
      BY SMTT(30), <1>1
    <3> QED BY <3>1
  <2> DEFINE g == [k \in 0..n |-> IF k = 0 THEN CGI!NoEnv ELSE CGI!addenv(f[k - 1], sizes[k])]
  <2>2. ASSUME NEW k \in 0..n PROVE f[k] = g[k]
    <3>1. CASE k = 0
      BY <1>3, <3>1
    <3>2. CASE k # 0
      <4>1. k \in 1..n
        BY <1>1, <3>2
      <4> HIDE DEF next, T
      <4> QED BY <1>3, <2>1, <3>2, <4>1
    <3> QED BY <3>1, <3>2
  <2>3. f = [k \in 0..n |-> f[k]] /\ g = [k \in 0..n |-> g[k]]
    OBVIOUS
  <2> HIDE DEF next, T, g
  <2>4. f = g
    BY <2>2, <2>3
  <2> QED BY <2>4 DEF g
<1>5. Solves(env)
  BY <1>4
<1>6. CGI!prepare_cgi_environment(sizes) = [env[n] EXCEPT !.top = env[n].bufused + 1]
  BY DEF CGI!prepare_cgi_environment
<1> HIDE DEF env
<1>7. env[0] = a /\ \A k \in 1..n : env[k] = CGI!addenv(env[k - 1], sizes[k])
  <2> HIDE DEF T, next
  <2>1. 0 \in 0..n /\ \A k \in 1..n : k \in 0..n /\ k # 0
    BY <1>1
  <2> QED BY <1>5, <2>1
<1>8. \A k \in 0..n : env[k] \in T
  <2>1. env[0] \in T /\ \A k \in 1..n : env[k - 1] \in T => env[k] \in T
    BY <1>1, <1>7, AddenvInBounds
  <2> HIDE DEF T, n
  <2> QED BY <1>1, <2>1, StepByStep
<1> HIDE DEF n
<1>. QED
  BY <1>1, <1>6, <1>8, TerminatedInBounds

-----------------------------------------------------------------------------
CgStages == {"idle", "pipe", "spawn", "mark", "fdopen", "forward", "close_in", "head", "stderr",
             "copy", "done", "over"}
Jobs == [pc : CgStages, q : Requests \cup {CGI!NoJob.q}, left : Int, blk : GoodBlocks]

CgInv ==
  /\ g_job \in [Workers -> Jobs]
  /\ DOMAIN g_child = Workers
  /\ CGI!NothingLeftBehind

LEMMA CgInit ==
  ASSUME CGI!Init PROVE CgInv
<1>1. CGI!NoJob.pc = "idle" /\ CGI!NoJob \in Jobs
  BY NoEnvInBounds DEF CGI!NoJob, Jobs, CgStages
<1>. QED
  BY <1>1 DEF CGI!Init, CgInv, CGI!NothingLeftBehind

\* The ends of two requests' pipes are not the same.
LEMMA EndsApart ==
  ASSUME NEW v \in Workers, NEW w \in Workers, v # w
  PROVE  /\ \A some : CGI!EndsOf(v, some) \cap CGI!EndsOf(w, CGI!Pipes) = {}
         /\ CGI!Stdio(v) \cap CGI!EndsOf(w, CGI!Pipes) = {}
  BY DEF CGI!EndsOf, CGI!End, CGI!Stdio

LEMMA CgStep ==
  ASSUME CgInv, [CGI!Next]_(CGI!vars) PROVE CgInv'
<1> USE DEF CgInv
<1> DEFINE Over(w) == g_job[w].pc = "over" =>
             /\ g_child[w] = CGI!NoChild
             /\ g_server \cap CGI!EndsOf(w, CGI!Pipes) \subseteq {CGI!End(w, "err", "w")}
             /\ g_cloexec \cap CGI!EndsOf(w, CGI!Pipes) = {}
<1>1. CASE UNCHANGED CGI!vars
  BY <1>1 DEF CGI!vars, CGI!NothingLeftBehind
<1> SUFFICES ASSUME NEW w \in Workers, CGI!Worker(w) \/ CGI!Script(w) PROVE CgInv'
  BY <1>1 DEF CGI!Next
<1>2. \A v \in Workers : Over(v)
  BY DEF CGI!NothingLeftBehind
\* A step that goes on in w's request.
<1>3. ASSUME NEW from, NEW to \in CgStages, CGI!Goto(w, from, to)
      PROVE  /\ g_job' \in [Workers -> Jobs] /\ g_job[w].pc = from /\ g_job'[w].pc = to
             /\ \A v \in Workers \ {w} : g_job'[v] = g_job[v]
  BY <1>3 DEF CGI!Goto, Jobs
\* What it leaves of the others'.
<1>4. ASSUME \A v \in Workers \ {w} : g_job'[v] = g_job[v] /\ g_child'[v] = g_child[v],
             g_job' \in [Workers -> Jobs], DOMAIN g_child' = Workers,
             \A v \in Workers \ {w} :
               /\ g_server' \cap CGI!EndsOf(v, CGI!Pipes) \subseteq g_server
               /\ g_cloexec' \cap CGI!EndsOf(v, CGI!Pipes) \subseteq g_cloexec,
             Over(w)'
      PROVE  CgInv'
  <2>1. ASSUME NEW v \in Workers PROVE Over(v)'
    <3>1. CASE v = w
      BY <1>4, <3>1
    <3>2. CASE v # w
      BY <1>2, <1>4, <3>2
    <3> QED BY <3>1, <3>2
  <2> QED
    BY <1>4, <2>1 DEF CGI!NothingLeftBehind
<1>5. ASSUME NEW v \in Workers \ {w}
      PROVE  /\ \A some : CGI!EndsOf(w, some) \cap CGI!EndsOf(v, CGI!Pipes) = {}
             /\ CGI!Stdio(w) \cap CGI!EndsOf(v, CGI!Pipes) = {}
  BY EndsApart
<1>6. ASSUME NEW q \in Requests, CGI!Begin(w, q) PROVE CgInv'
  <2>1. q.body \in Int /\ CGI!prepare_cgi_environment(q.env) \in GoodBlocks
    BY ScriptsAssumption, PreparedInBounds DEF CGI!CgiAssumption
  <2>2. PICK pc \in {"pipe", "done"} :
          g_job' = [g_job EXCEPT ![w] = [CGI!NoJob EXCEPT !.pc = pc, !.q = q, !.left = q.body,
                                               !.blk = CGI!prepare_cgi_environment(q.env)]]
    BY <1>6 DEF CGI!Begin
  <2> DEFINE b == CGI!prepare_cgi_environment(q.env)
  <2>3. [CGI!NoJob EXCEPT !.pc = pc, !.q = q, !.left = q.body, !.blk = b]
          \in [pc : {pc}, q : {q}, left : {q.body}, blk : {b}]
    <3> DEFINE n == CGI!NoJob
    <3>1. n = [pc |-> n.pc, q |-> n.q, left |-> n.left, blk |-> n.blk]
      BY DEF CGI!NoJob
    <3> HIDE DEF b, n
    <3>2. [n EXCEPT !.pc = pc, !.q = q, !.left = q.body, !.blk = b]
          \in [pc : {pc}, q : {q}, left : {q.body}, blk : {b}]
      BY <3>1
    <3> QED BY <3>2 DEF n
  <2>4. g_job' \in [Workers -> Jobs] /\ g_job'[w].pc # "over"
        /\ \A v \in Workers \ {w} : g_job'[v] = g_job[v]
    BY <2>1, <2>2, <2>3 DEF Jobs, CgStages
  <2> QED
    BY <1>4, <1>6, <2>4 DEF CGI!Begin
<1>7. CASE CGI!Pipe(w)
  BY <1>3, <1>4, <1>5, <1>7 DEF CGI!Pipe, CgStages
<1>8. CASE CGI!Spawn(w)
  BY <1>3, <1>4, <1>8 DEF CGI!Spawn, CgStages
<1>9. CASE CGI!Mark(w)
  BY <1>3, <1>4, <1>5, <1>9 DEF CGI!Mark, CgStages
<1>10. CASE CGI!Fdopen(w)
  BY <1>3, <1>4, <1>10 DEF CGI!Fdopen, CgStages
<1>11. CASE CGI!Forward(w)
  <2>1. ASSUME g_job' = [g_job EXCEPT ![w].left = @ - 1], g_job[w].pc = "forward"
        PROVE  /\ g_job' \in [Workers -> Jobs] /\ g_job'[w].pc = "forward"
               /\ \A v \in Workers \ {w} : g_job'[v] = g_job[v]
    BY <2>1 DEF Jobs
  <2> QED
    BY <1>3, <1>4, <1>11, <2>1 DEF CGI!Forward, CgStages
<1>12. CASE CGI!CloseIn(w)
  BY <1>3, <1>4, <1>12 DEF CGI!CloseIn, CgStages
<1>13. CASE CGI!ReadHead(w)
  BY <1>3, <1>4, <1>13 DEF CGI!ReadHead, CgStages
<1>14. CASE CGI!Stderr(w)
  BY <1>3, <1>4, <1>14 DEF CGI!Stderr, CgStages
<1>15. CASE CGI!Copy(w)
  BY <1>3, <1>4, <1>15 DEF CGI!Copy, CgStages
<1>16. CASE CGI!Done(w)
  BY <1>3, <1>4, <1>16 DEF CGI!Done, CgStages
<1>17. CASE CGI!Script(w)
  <2>1. g_child[w].st \in {"forked", "run"}
    BY <1>17 DEF CGI!Script, CGI!Exec, CGI!ReadsInput, CGI!Writes, CGI!Exits, CGI!Does
  <2>2. UNCHANGED <<g_job, g_server, g_cloexec>>
    BY <1>17 DEF CGI!Script, CGI!Exec, CGI!ReadsInput, CGI!Writes, CGI!Exits
  <2>3. DOMAIN g_child' = Workers /\ \A v \in Workers \ {w} : g_child'[v] = g_child[v]
    BY <1>17 DEF CGI!Script, CGI!Exec, CGI!ReadsInput, CGI!Writes, CGI!Exits, CGI!GoesOn, CGI!Dies
  <2>4. g_job[w].pc # "over"
    BY <1>2, <2>1 DEF CGI!NoChild
  <2> QED
    BY <1>4, <2>2, <2>3, <2>4
<1>. QED
  BY <1>6, <1>7, <1>8, <1>9, <1>10, <1>11, <1>12, <1>13, <1>14, <1>15, <1>16, <1>17
     DEF CGI!Worker

LEMMA MCStepsOfScripts ==
  /\ MCInit => CGI!Init
  /\ [MCNext]_mcVars => [CGI!Next]_(CGI!vars)
<1>1. MCInit => CGI!Init
  BY DEF MCInit
<1>2. UNCHANGED gVars => UNCHANGED CGI!vars
  BY DEF gVars, CGI!vars
<1>. QED
  BY <1>1, <1>2 DEF MCNext, In, mcVars

\* A request leaves no process and no pipe behind, and its environment stays within its
\* buffer, but for a last '\0' that may lie right behind it: handle_cgi_request, addenv.
THEOREM ScriptsCleanedUpHolds == MCSpec => []ScriptsCleanedUp
<1>1. MCInit => CgInv
  BY CgInit, MCStepsOfScripts
<1>2. CgInv /\ [MCNext]_mcVars => CgInv'
  BY CgStep, MCStepsOfScripts
<1>3. CgInv => ScriptsCleanedUp
  <2>1. ASSUME CgInv, NEW w \in Workers PROVE InBounds(g_job[w].blk)
    BY <2>1 DEF CgInv, Jobs, GoodBlocks
  <2>2. CgInv => CGI!EnvironmentInBounds
    BY <2>1 DEF CGI!EnvironmentInBounds, InBounds, InOrder
  <2> QED BY <2>2 DEF CgInv, ScriptsCleanedUp
<1>. QED
  BY <1>1, <1>2, <1>3, PTL DEF MCSpec

-----------------------------------------------------------------------------
-----------------------------------------------------------------------------
(***************************************************************************)
(* Files: what a job knows.                                                *)
(***************************************************************************)
EarlyStages == {"idle", "lookup", "auth", "callback", "serve"}
PutStages == {"PUT", "put_dir", "put_open", "put_write", "put_close"}
DeleteStages == {"DELETE", "rmdir", "remove"}
MkcolStages == {"MKCOL", "mkdir"}
Stages == EarlyStages \cup PutStages \cup DeleteStages \cup MkcolStages
            \cup {"static", "ssi", "list", "cgi", "send", "done"}

\* Each field has its type; q, seen and sent may be anything.
Fields == {"pc", "q", "path", "stat", "script", "put", "cb", "ino", "pos", "left", "seen",
           "ok", "status", "error", "announced", "sent", "must_close", "changed", "disturbed",
           "whole", "date", "unsaved"}
Full(j) == j = [f \in Fields |-> j[f]]
Stats == [found : BOOLEAN, gz : BOOLEAN, dir : BOOLEAN, size : Nat, mtime : Nat]
Typed(j) ==
  /\ j.pc \in Stages /\ j.path \in Seq(STRING) /\ j.stat \in Stats /\ j.ino \in 0..MaxInodes
  /\ j.script \in BOOLEAN /\ j.put \in BOOLEAN /\ j.cb \in BOOLEAN
  /\ j.changed \in BOOLEAN /\ j.disturbed \in BOOLEAN
  /\ j.pos \in Nat /\ j.left \in Int /\ j.status \in Int /\ j.error \in Int
  /\ j.announced \in Int /\ j.date \in Nat
  /\ j.whole \in Seq(Marks) /\ j.unsaved \in Seq(Marks)
IsJob(j) == Full(j) /\ Typed(j)

\* The user may write, or there is a handler that authorizes.
Authorized(j) ==
  \/ j.q.user \in config.put_users
  \/ get_request_handler(handlers, "auth", j.q.path, config.begins) # "NULL"

\* Until a method is chosen, or has begun its work, nothing was done and nothing refused.
Clean(j) ==
  /\ ~j.changed /\ j.error = 0 /\ j.status = 0 /\ j.ino = 0 /\ j.pos = 0 /\ j.seen = {}
  /\ j.unsaved = <<>>

\* A request that has begun; its path is the one asked for until an error page is sent.
Begun(j) ==
  /\ j.pc \in EarlyStages \cup {"PUT", "DELETE", "MKCOL"} => Clean(j)
  /\ j.pc \in PutStages \cup DeleteStages \cup MkcolStages \cup (EarlyStages \ {"idle"}) =>
       j.path = j.q.path /\ j.error = 0
  /\ j.pc # "idle" => j.q \in clients.requests
  /\ j.pc \notin {"send", "done"} => j.sent = <<>>
  /\ j.stat.gz => j.stat.found

\* One that changes files has the method and the right to do so.
Working(j) ==
  /\ j.pc \in PutStages => j.q.method = "PUT"
  /\ j.pc \in DeleteStages => j.q.method = "DELETE"
  /\ j.pc \in MkcolStages => j.q.method = "MKCOL"
  /\ j.pc \in PutStages \cup DeleteStages \cup MkcolStages => Authorized(j)
  /\ j.pc \in {"put_dir", "put_open"} => j.ino = 0 /\ j.unsaved = <<>>
  /\ j.pc = "remove" => j.seen = {}
  /\ j.pc = "put_write" => j.left \in 0..Len(j.q.body)

\* One that has changed a file is not refused any more but for these errors.
Changed(j) ==
  j.changed =>
    /\ j.pc \in {"put_dir", "put_open", "put_write", "put_close", "rmdir",
                 "static", "ssi", "cgi", "send", "done"}
    /\ j.q.method \in {"PUT", "DELETE", "MKCOL"} /\ Authorized(j)
    /\ j.error \in {0, 204, 411, 417, 500}
    /\ j.pc \in {"static", "ssi", "cgi", "send"} => j.error # 0

Answered(j) ==
  /\ j.error = 204 => j.q.method = "DELETE" /\ j.pc \in {"static", "ssi", "cgi", "send", "done"}
  /\ j.status = 201 /\ j.q.method = "MKCOL" => j.pc = "done"
  /\ j.status = 304 => j.pc = "done"

Chosen(j) ==
  /\ j.pc \in {"auth", "callback", "serve"} =>
       /\ j.put <=> is_put_or_delete_method(j.q)
       /\ j.cb => j.script
       /\ j.pc = "serve" => ~j.cb
  /\ j.pc = "serve" /\ j.put /\ ~j.script => Authorized(j)
  /\ j.pc \in {"auth", "serve"} /\ ~j.cb /\ j.script /\ j.put => ~j.stat.found
  /\ j.pc = "static" /\ j.error = 0 /\ j.q.method = "PUT" => ~j.stat.found

\* One that holds an inode open.
Holds(j) == j.pc \in {"put_write", "put_close", "send"}
Opened(j) ==
  /\ j.ino # 0 =>
       /\ j.pc \in {"put_write", "put_close", "send", "done", "static", "ssi", "cgi"}
       /\ j.pc \in {"static", "ssi", "cgi"} => j.error # 0 /\ j.q.method = "PUT"
  /\ j.pc \in {"send", "done"} /\ j.q.method = "GET" /\ j.ino # 0 =>
       j.status = IF j.q.range = <<>> THEN 200 ELSE 206
  /\ Holds(j) => j.ino # 0

Local(j) ==
  IsJob(j) /\ Begun(j) /\ Working(j) /\ Changed(j) /\ Answered(j) /\ Chosen(j) /\ Opened(j)

\* What mg_stat found is what is there.
Fresh(j) ==
  /\ j.stat.found => /\ Exists(Served(j)) /\ j.stat.size = Len(File(Served(j)).data)
                     /\ j.stat.mtime = File(Served(j)).mtime
  /\ ~j.stat.found \/ j.stat.gz => ~Exists(j.path)

Start(j) ==
  LET from == IF j.q.range = <<>> THEN 0 ELSE j.q.range[1]
  IN IF from > Len(j.whole) THEN Len(j.whole) ELSE from

\* What was sent is a part of the whole, and what is left the rest of what was announced.
Sending(j) ==
  /\ j.stat.size = Len(j.whole) /\ j.announced = Slice(j).cl
  /\ Start(j) <= j.pos /\ j.pos <= Len(j.whole)
  /\ j.sent = SubSeq(j.whole, Start(j) + 1, j.pos)
  /\ j.left = j.announced - (j.pos - Start(j)) /\ (j.announced >= 0 => j.left >= 0)
  /\ j.pc = "send" => inodes[j.ino].data = j.whole
  /\ j.pc = "done" => j.left <= 0 \/ j.pos = Len(j.whole)

\* The file of a PUT has what was written, and what was not is still to be written; when a part
\* of the body was missed (j.ok is FALSE then), it is only the file that was asked for.
Writing(j) ==
  /\ Exists(j.path) /\ fs[j.path] = j.ino
  /\ j.ok /\ j.q.range = <<>> /\ j.q.length = "given" =>
       LET data == inodes[j.ino].data
           body == j.q.body
       IN IF j.pc = "done" THEN data = body
          ELSE /\ j.pos + Len(j.unsaved) + j.left = Len(body) /\ j.left >= 0
               /\ data = SubSeq(body, 1, j.pos)
               /\ j.unsaved = SubSeq(body, j.pos + 1, j.pos + Len(j.unsaved))
               /\ j.pc = "put_close" => j.left = 0

Looked(j) ==
  ~j.changed /\ (j.pc = "static" \/ (j.pc \in {"auth", "serve"} /\ config.document_root /\ ~j.cb)) =>
    Fresh(j)
Sent(j) ==
  /\ j.pc \in {"send", "done"} /\ j.q.method = "GET" /\ j.ino # 0 =>
       /\ Sending(j)
       /\ Exists(j.path) => /\ fs[j.path] = j.ino /\ File(j.path).data = j.whole
                            /\ File(j.path).mtime <= j.date
  /\ j.pc = "send" /\ j.q.method = "PUT" => j.error # 0
Written(j) ==
  \/ j.pc \in {"put_write", "put_close"}
  \/ j.pc = "done" /\ j.q.method = "PUT" /\ j.ino # 0 /\ j.error = 0
  => Writing(j)
Removed(j) ==
  /\ j.q.method = "DELETE" /\ j.error = 204 /\ j.seen = {} /\ j.path = j.q.path => ~Exists(j.path)
  /\ j.q.method = "MKCOL" /\ j.status = 201 => IsDir(j.path)
Unmodified(p) ==
  Exists(p) /\ p \in DOMAIN copies /\ copies[p].clean => File(p).mtime <= copies[p].date
NotModified(j) == j.status = 304 => Unmodified(j.path)

\* As long as nobody else has changed what the job works on.
Undisturbed(j) ==
  ~j.disturbed => Looked(j) /\ Sent(j) /\ Written(j) /\ Removed(j) /\ NotModified(j)

\* An inode that is open has the name by which it was opened, or none.
Held(j) == IF j.pc = "send" THEN Served(j) ELSE j.path
OpenBy(j) ==
  Holds(j) => /\ inodes[j.ino].mtime # 0
              /\ \A p \in Paths : fs[p] = j.ino => p = Held(j)
SameName(j, k) == Holds(j) /\ Holds(k) /\ j.ino = k.ino => Held(j) = Held(k)
OpenInodes == \A t, u \in Workers : OpenBy(job[t]) /\ SameName(job[t], job[u])

FileSystem ==
  /\ fs \in [Paths -> 0..MaxInodes] /\ Paths \subseteq Seq(STRING)
  /\ inodes \in [1..MaxInodes -> Inodes]
  /\ now \in Nat
Named ==
  /\ now # 0
  /\ \A i \in 1..MaxInodes : inodes[i].mtime <= now
  /\ \A p \in Paths : fs[p] # 0 => inodes[fs[p]].mtime # 0
  /\ \A p, r \in Paths : fs[p] # 0 /\ fs[p] = fs[r] => p = r

\* A copy that was sent whole, and of one file, differs from the file only when that was
\* changed later.
Copies ==
  \A p \in DOMAIN copies :
    copies[p].clean =>
      /\ copies[p].date \in 0..now
      /\ Exists(p) /\ File(p).mtime < copies[p].date => File(p).data = copies[p].data

\* The world is one of those that were given.
World0 ==
  \E w \in Worlds : /\ config = w.config /\ clients.requests = w.clients.requests
                    /\ Paths = DOMAIN w.fs /\ DOMAIN clients = {"requests", "left"}
Registered ==
  /\ handlers \in Seq(Handlers)
  /\ \A i \in 1..Len(handlers) : handlers[i].call # "NULL"

\* First what is known of each job, then what is known of the files.
Shared == World0 /\ Registered /\ FileSystem
JobsInv ==
  /\ Shared
  /\ job = [t \in Workers |-> job[t]]
  /\ \A t \in Workers : Local(job[t])
FilesInv ==
  /\ JobsInv /\ Named /\ Copies /\ OpenInodes
  /\ \A t \in Workers : job[t].date <= now /\ Undisturbed(job[t])

-----------------------------------------------------------------------------
(***************************************************************************)
(* Files: what is given, and the handlers.                                 *)
(***************************************************************************)
Asked(q) ==
  /\ q.path \in Seq(STRING) /\ (q.path = <<>> \/ q.path \in Paths)
  /\ q.body \in Seq(Marks) /\ q.range \in Seq(Nat) /\ Len(q.range) <= 2

LEMMA WorldFacts ==
  ASSUME World0
  PROVE  /\ \A q \in clients.requests : Asked(q)
         /\ Paths \subseteq Seq(STRING)
         /\ config.index_files \in Seq(STRING)
         /\ \A n \in DOMAIN config.gz : config.gz[n] \in STRING
         /\ \A h \in config.changes : h \in Handlers /\ (h.type = "auth" => h.call # "NULL")
         /\ MaxInodes \in Nat /\ MaxNow \in Nat /\ SSI_LEVELS \in Nat
<1>1. PICK w \in Worlds : /\ config = w.config /\ clients.requests = w.clients.requests
                          /\ Paths = DOMAIN w.fs
  BY DEF World0
<1>. QED
  BY <1>1, WorldsAssumption DEF Asked

\* A handler that may be asked about a path.
Covers(uri, path, begins) ==
  uri = path \/ IsStrictPrefix(uri, path) \/ Matches(uri, path, begins)

LEMMA FirstOf ==
  ASSUME NEW n \in Nat, NEW At \in SUBSET (1..n), NEW x, x = IF At # {} THEN Min(At) ELSE 0
  PROVE  x \in 0..n /\ (x # 0 <=> At # {}) /\ (x # 0 => x \in At)
<1>1. At \in SUBSET Nat
  OBVIOUS
<1>2. At # {} => x \in At
  BY <1>1, MinIsLeast
<1>3. At = {} => x = 0
  OBVIOUS
<1>4. \A y \in At : y \in 1..n
  OBVIOUS
<1>5. CASE At = {}
  BY <1>3, <1>5
<1>6. CASE At # {}
  <2>1. x \in At /\ x \in 1..n
    BY <1>2, <1>4, <1>6
  <2>2. x \in 0..n /\ x # 0
    BY <2>1
  <2> QED BY <1>6, <2>1, <2>2
<1>. QED
  BY <1>5, <1>6

LEMMA HandlerFound ==
  ASSUME NEW hs \in Seq(Handlers), \A i \in 1..Len(hs) : hs[i].call # "NULL", NEW path, NEW begins
  PROVE  get_request_handler(hs, "auth", path, begins) # "NULL" <=>
           \E i \in 1..Len(hs) : hs[i].type = "auth" /\ Covers(hs[i].uri, path, begins)
<1> DEFINE eq(h) == h.type = "auth" /\ h.uri = path
           above(h) == h.type = "auth" /\ IsStrictPrefix(h.uri, path)
           like(h) == h.type = "auth" /\ Matches(h.uri, path, begins)
           e == SelectInSeq(hs, eq)
           a == SelectInSeq(hs, above)
           l == SelectInSeq(hs, like)
           Eq == {i \in 1..Len(hs) : eq(hs[i])}
           Above == {i \in 1..Len(hs) : above(hs[i])}
           Like == {i \in 1..Len(hs) : like(hs[i])}
           at == IF e # 0 THEN e ELSE IF a # 0 THEN a ELSE l
<1>0. Len(hs) \in Nat
  OBVIOUS
<1>1. e \in 0..Len(hs) /\ (e # 0 <=> Eq # {})
  <2>1. e = IF Eq # {} THEN Min(Eq) ELSE 0
    BY DEF SelectInSeq
  <2> HIDE DEF e
  <2> QED BY <1>0, <2>1, FirstOf
<1>2. a \in 0..Len(hs) /\ (a # 0 <=> Above # {})
  <2>1. a = IF Above # {} THEN Min(Above) ELSE 0
    BY DEF SelectInSeq
  <2> HIDE DEF a
  <2> QED BY <1>0, <2>1, FirstOf
<1>3. l \in 0..Len(hs) /\ (l # 0 <=> Like # {})
  <2>1. l = IF Like # {} THEN Min(Like) ELSE 0
    BY DEF SelectInSeq
  <2> HIDE DEF l
  <2> QED BY <1>0, <2>1, FirstOf
<1>4. get_request_handler(hs, "auth", path, begins)
        = IF at = 0 THEN "NULL" ELSE hs[at].call
  BY DEF get_request_handler
<1>5. at # 0 <=> \E i \in 1..Len(hs) : eq(hs[i]) \/ above(hs[i]) \/ like(hs[i])
  <2> HIDE DEF e, a, l
  <2> QED BY <1>1, <1>2, <1>3
<1>6. at \in 0..Len(hs)
  <2> HIDE DEF e, a, l
  <2> QED BY <1>1, <1>2, <1>3
<1>7. at # 0 => hs[at].call # "NULL"
  <2> HIDE DEF at
  <2> QED BY <1>6
<1>. QED
  <2> HIDE DEF at
  <2> QED BY <1>4, <1>5, <1>7 DEF Covers

\* The handlers that authorize do not become less.
LEMMA HandlersStay ==
  ASSUME Registered, NEW h \in Handlers, h.type = "auth" => h.call # "NULL",
         handlers' = mg_set_handler_type(handlers, h.type, h.uri, h.call)
  PROVE  /\ Registered'
         /\ \A i \in 1..Len(handlers) : handlers[i].type = "auth" =>
              \E k \in 1..Len(handlers') : /\ handlers'[k].type = "auth"
                                           /\ handlers'[k].uri = handlers[i].uri
<1> DEFINE at == {i \in DOMAIN handlers : Same(handlers[i], h.type, h.uri)}
           i0 == CHOOSE n \in at : \A m \in at : n <= m
           n0 == Len(handlers)
<1>0. handlers \in Seq(Handlers) /\ n0 \in Nat /\ DOMAIN handlers = 1..n0
      /\ \A i \in 1..n0 : handlers[i] \in Handlers /\ handlers[i].call # "NULL"
  BY DEF Registered
<1>1. at # {} => i0 \in 1..n0 /\ handlers[i0].type = h.type
  <2>1. at \in SUBSET Nat
    BY <1>0
  <2>2. at # {} => i0 \in at
    <3> HIDE DEF at
    <3> QED BY <2>1, MinIsLeast
  <2> QED BY <1>0, <2>2 DEF Same
<1>2. CASE at # {} /\ h.call = "NULL"
  <2> DEFINE l == SubSeq(handlers, 1, i0 - 1)
             r == SubSeq(handlers, i0 + 1, n0)
  <2>1. handlers' = l \o r
    BY Zenon, <1>2 DEF mg_set_handler_type, RemoveAt
  <2>0. i0 \in Nat /\ 1 <= i0 /\ i0 <= n0 /\ handlers[i0].type # "auth" /\ n0 \in Nat /\ n0 = Len(handlers)
    BY <1>0, <1>1, <1>2
  <2>. HIDE DEF at, i0, n0
  <2>2. l \in Seq(Handlers) /\ Len(l) = i0 - 1 /\ \A i \in 1..i0 - 1 : l[i] = handlers[i]
    <3>1. \A i \in 1..i0 - 1 : handlers[i] \in Handlers
      BY <1>0, <2>0
    <3>2. l \in Seq(Handlers) /\ Len(l) = (IF 1 <= i0 - 1 THEN i0 - 1 - 1 + 1 ELSE 0)
          /\ \A i \in 1..i0 - 1 - 1 + 1 : l[i] = handlers[1 + i - 1]
      BY <2>0, <3>1, SubSeqProperties
    <3> HIDE DEF l
    <3> QED BY <2>0, <3>2
  <2>3. r \in Seq(Handlers) /\ Len(r) = n0 - i0 /\ \A i \in 1..n0 - i0 : r[i] = handlers[i0 + i]
    <3>1. \A i \in i0 + 1..n0 : handlers[i] \in Handlers
      BY <1>0, <2>0
    <3>2. r \in Seq(Handlers) /\ Len(r) = (IF i0 + 1 <= n0 THEN n0 - (i0 + 1) + 1 ELSE 0)
          /\ \A i \in 1..n0 - (i0 + 1) + 1 : r[i] = handlers[i0 + 1 + i - 1]
      BY SMTT(30), <2>0, <3>1, SubSeqProperties
    <3> HIDE DEF r
    <3>3. n0 - (i0 + 1) + 1 = n0 - i0 /\ (~ (i0 + 1 <= n0) => n0 - i0 = 0)
      BY <2>0
    <3>4. \A i \in 1..n0 - i0 : i0 + 1 + i - 1 = i0 + i
      BY <2>0
    <3> QED BY <3>2, <3>3, <3>4
  <2> HIDE DEF l, r
  <2>4. l \o r \in Seq(Handlers) /\ Len(l \o r) = n0 - 1
        /\ \A i \in 1..n0 - 1 : (l \o r)[i] = IF i <= i0 - 1 THEN l[i] ELSE r[i - (i0 - 1)]
    <3>1. Len(l) + Len(r) = n0 - 1
      <4>1. Len(l) = i0 - 1 /\ Len(r) = n0 - i0
        BY <2>2, <2>3
      <4>2. i0 - 1 + (n0 - i0) = n0 - 1
        BY <2>0
      <4> QED BY <4>1, <4>2
    <3>2. l \o r \in Seq(Handlers) /\ Len(l \o r) = Len(l) + Len(r)
          /\ \A i \in 1..Len(l) + Len(r) : (l \o r)[i] = IF i <= Len(l) THEN l[i] ELSE r[i - Len(l)]
      BY <2>2, <2>3, ConcatProperties
    <3> QED BY <2>2, <3>1, <3>2
  <2>5. \A i \in 1..n0 - 1 : handlers'[i] = IF i < i0 THEN handlers[i] ELSE handlers[i + 1]
    <3> TAKE i \in 1..n0 - 1
    <3>1. CASE i < i0
      BY <2>0, <2>1, <2>2, <2>4, <3>1
    <3>2. CASE ~ (i < i0)
      <4>1. i - (i0 - 1) \in 1..n0 - i0 /\ i0 + (i - (i0 - 1)) = i + 1 /\ ~ (i <= i0 - 1)
        BY <2>0, <3>2
      <4> QED BY <2>1, <2>3, <2>4, <3>2, <4>1
    <3> QED BY <3>1, <3>2
  <2>6. Registered'
    <3>1. ASSUME NEW i \in 1..n0 - 1 PROVE handlers'[i].call # "NULL"
      BY <1>0, <2>0, <2>5
    <3> QED BY <2>1, <2>4, <3>1 DEF Registered
  <2>7. ASSUME NEW i \in 1..n0, handlers[i].type = "auth"
        PROVE  \E k \in 1..Len(handlers') : /\ handlers'[k].type = "auth"
                                            /\ handlers'[k].uri = handlers[i].uri
    <3>0. Len(handlers') = n0 - 1
      BY <2>1, <2>4
    <3>1. i # i0
      BY <2>0, <2>7
    <3>2. CASE i < i0
      <4>1. i \in 1..n0 - 1
        BY <2>0, <3>2
      <4> QED BY <2>5, <2>7, <3>0, <3>2, <4>1
    <3>3. CASE i > i0
      <4>1. i - 1 \in 1..n0 - 1 /\ ~ (i - 1 < i0) /\ (i - 1) + 1 = i
        BY <2>0, <3>3
      <4>2. handlers'[i - 1] = handlers[i]
        BY <2>5, <4>1
      <4> QED
        BY <2>7, <3>0, <4>1, <4>2
    <3> QED BY <2>0, <3>1, <3>2, <3>3
  <2> QED BY <2>0, <2>6, <2>7
<1>3. CASE at # {} /\ h.call # "NULL"
  <2>1. handlers' = [handlers EXCEPT ![i0].call = h.call]
    BY <1>3 DEF mg_set_handler_type
  <2> HIDE DEF at, i0
  <2> DEFINE g == [handlers[i0] EXCEPT !.call = h.call]
  <2>2. g \in Handlers /\ g.call # "NULL" /\ g.type = handlers[i0].type /\ g.uri = handlers[i0].uri
    BY <1>0, <1>1, <1>3 DEF Handlers
  <2>3. handlers' = [handlers EXCEPT ![i0] = g]
    BY <2>1
  <2> HIDE DEF g
  <2>4. handlers' \in Seq(Handlers) /\ Len(handlers') = n0
        /\ \A i \in 1..n0 : handlers'[i] = IF i = i0 THEN g ELSE handlers[i]
    BY <1>0, <1>1, <1>3, <2>2, <2>3, ExceptSeq
  <2> QED
    BY <1>0, <2>2, <2>4 DEF Registered
<1>4. CASE at = {} /\ h.call = "NULL"
  BY <1>4 DEF mg_set_handler_type, Registered
<1>5. CASE at = {} /\ h.call # "NULL"
  <2> DEFINE g == [type |-> h.type, uri |-> h.uri, call |-> h.call]
  <2>1. handlers' = Append(handlers, g)
    BY <1>5 DEF mg_set_handler_type
  <2>2. g \in Handlers /\ g.call # "NULL"
    BY <1>5 DEF Handlers
  <2> HIDE DEF at, i0, g
  <2>3. /\ Append(handlers, g) \in Seq(Handlers) /\ Len(Append(handlers, g)) = n0 + 1
        /\ \A i \in 1..n0 : Append(handlers, g)[i] = handlers[i]
        /\ Append(handlers, g)[n0 + 1] = g
    BY <1>0, <2>2, AppendProperties
  <2>4. \A i \in 1..n0 + 1 : i \in 1..n0 \/ i = n0 + 1
    BY <1>0
  <2>5. Registered'
    BY <1>0, <2>1, <2>2, <2>3, <2>4 DEF Registered
  <2> QED
    BY <1>0, <2>1, <2>3, <2>5
<1>. QED
  BY <1>2, <1>3, <1>4, <1>5

\* So whoever was authorized stays so.
LEMMA AuthorizedStays ==
  ASSUME Registered, Registered', config' = config,
         \A i \in 1..Len(handlers) : handlers[i].type = "auth" =>
              \E k \in 1..Len(handlers') : /\ handlers'[k].type = "auth"
                                           /\ handlers'[k].uri = handlers[i].uri
  PROVE  \A t \in Workers : job' = job /\ Authorized(job[t]) => Authorized(job[t])'
<1> SUFFICES ASSUME NEW t \in Workers, job' = job, Authorized(job[t]) PROVE Authorized(job[t])'
  OBVIOUS
<1> DEFINE p == job[t].q.path
<1>1. CASE job[t].q.user \in config.put_users
  BY <1>1 DEF Authorized
<1>2. CASE get_request_handler(handlers, "auth", p, config.begins) # "NULL"
  <2>1. \E i \in 1..Len(handlers) : handlers[i].type = "auth" /\ Covers(handlers[i].uri, p, config.begins)
    BY <1>2, HandlerFound DEF Registered
  <2>2. \E i \in 1..Len(handlers') : handlers'[i].type = "auth" /\ Covers(handlers'[i].uri, p, config.begins)
    BY <2>1
  <2>3. get_request_handler(handlers', "auth", p, config.begins) # "NULL"
    BY <2>2, HandlerFound DEF Registered
  <2> QED BY <2>3 DEF Authorized
<1>. QED
  BY <1>1, <1>2 DEF Authorized

-----------------------------------------------------------------------------
-----------------------------------------------------------------------------
(***************************************************************************)
(* Files: what is known of a job, step by step.                            *)
(***************************************************************************)
\* k has the same as j of what it works on, of its choice, of its verdict, of its path.
Work(k, j) ==
  /\ k.q = j.q /\ k.ino = j.ino /\ k.pos = j.pos /\ k.left = j.left /\ k.seen = j.seen
  /\ k.ok = j.ok /\ k.announced = j.announced /\ k.changed = j.changed
  /\ k.disturbed = j.disturbed /\ k.whole = j.whole /\ k.date = j.date /\ k.unsaved = j.unsaved
Choice(k, j) == k.script = j.script /\ k.put = j.put /\ k.cb = j.cb
Verdict(k, j) == k.status = j.status /\ k.error = j.error
Target(k, j) == k.path = j.path /\ k.stat = j.stat

\* A path that took the place of the one that was asked for.
Becomes(m, j) ==
  /\ Full(m) /\ Typed(m) /\ m.pc = j.pc /\ Work(m, j) /\ Choice(m, j) /\ Verdict(m, j)
  /\ m.sent = j.sent /\ (m.stat.gz => m.stat.found)

LEMMA StatTyped ==
  ASSUME FileSystem, NEW p
  PROVE  mg_stat(p) \in Stats /\ ~mg_stat(p).gz /\ (mg_stat(p).found <=> Exists(p))
<1>1. CASE ~Exists(p)
  BY <1>1 DEF mg_stat, NoStat, Stats
<1>2. CASE Exists(p)
  <2>1. File(p) \in Inodes
    BY <1>2, WorldsAssumption DEF FileSystem, Exists, File
  <2> DEFINE n == Len(File(p).data)
  <2>2. n \in Nat /\ File(p).dir \in BOOLEAN /\ File(p).mtime \in Nat
    BY <2>1 DEF Inodes
  <2>3. mg_stat(p) = [found |-> TRUE, gz |-> FALSE, dir |-> File(p).dir, size |-> n, mtime |-> File(p).mtime]
    BY <1>2 DEF mg_stat
  <2> HIDE DEF n
  <2> QED BY <1>2, <2>2, <2>3 DEF Stats
<1>. QED
  BY <1>1, <1>2

LEMMA KindOf == \A p : Kind(p) \in {"cgi", "ssi", "static"}
BY DEF Kind

LEMMA Early ==
  /\ EarlyStages = {"idle", "lookup", "auth", "callback", "serve"}
  /\ Stages = {"idle", "lookup", "auth", "callback", "serve", "PUT", "put_dir", "put_open",
               "put_write", "put_close", "DELETE", "rmdir", "remove", "MKCOL", "mkdir",
               "static", "ssi", "list", "cgi", "send", "done"}
BY DEF Stages, EarlyStages, PutStages, DeleteStages, MkcolStages

\* The fields after send_http_error, with a page and without.
PageOf(m, s, p, st, kind) == [m EXCEPT !.error = s, !.path = p, !.stat = st, !.pc = kind]
NoPageOf(m, s, e) == [m EXCEPT !.status = s, !.pc = "done", !.must_close = TRUE, !.error = e]

LEMMA WithPage ==
  ASSUME NEW m, Full(m), NEW s, NEW p, NEW st, NEW kind,
         NEW k, k = PageOf(m, s, p, st, kind)
  PROVE  /\ Full(k) /\ Work(k, m) /\ Choice(k, m) /\ k.pc = kind /\ k.status = m.status
         /\ k.error = s /\ k.path = p /\ k.stat = st /\ k.sent = m.sent
<1>1. Full(k)
  BY DEF PageOf, NoPageOf, Full, Fields
<1>2. Work(k, m)
  BY DEF PageOf, NoPageOf, Full, Fields, Work
<1>. QED
  BY <1>1, <1>2 DEF PageOf, NoPageOf, Full, Fields, Choice

LEMMA WithoutPage ==
  ASSUME NEW m, Full(m), NEW s, NEW e,
         NEW k, k = NoPageOf(m, s, e)
  PROVE  /\ Full(k) /\ Work(k, m) /\ Choice(k, m) /\ Target(k, m) /\ k.pc = "done"
         /\ k.status = s /\ k.error = e /\ k.sent = m.sent
<1>1. Full(k)
  BY DEF PageOf, NoPageOf, Full, Fields
<1>2. Work(k, m)
  BY DEF PageOf, NoPageOf, Full, Fields, Work
<1>. QED
  BY <1>1, <1>2 DEF PageOf, NoPageOf, Full, Fields, Choice, Target

\* And after a reply that closes the connection.
ClosedOf(m, s) == [Reply(m, s) EXCEPT !.must_close = TRUE]
SentOf(m, s, data) == [Reply(m, s) EXCEPT !.must_close = TRUE, !.sent = data]

LEMMA WithClose ==
  ASSUME NEW m, Full(m), NEW s, NEW data, NEW k, k = ClosedOf(m, s) \/ k = SentOf(m, s, data)
  PROVE  /\ Full(k) /\ Work(k, m) /\ Choice(k, m) /\ Target(k, m) /\ k.pc = "done"
         /\ k.status = s /\ k.error = m.error
<1>1. Full(k)
  BY DEF ClosedOf, SentOf, Reply, Full, Fields
<1>2. Work(k, m)
  BY ZenonT(40) DEF ClosedOf, SentOf, Reply, Full, Fields, Work
<1>3. Choice(k, m) /\ Target(k, m)
  BY ZenonT(40) DEF ClosedOf, SentOf, Reply, Full, Fields, Choice, Target
<1>4. k.pc = "done" /\ k.status = s /\ k.error = m.error
  BY ZenonT(40) DEF ClosedOf, SentOf, Reply, Full, Fields
<1>. QED
  BY <1>1, <1>2, <1>3, <1>4

\* A request is over.
LEMMA Ended ==
  ASSUME NEW j, Local(j), j.q \in clients.requests, j.pc \notin {"send", "done"},
         NEW k, Full(k), k.pc = "done", Work(k, j), Choice(k, j), Target(k, j),
         k.status \in Int, k.error \in Int,
         k.error = j.error \/ (k.error # 204 /\ ~j.changed) \/ k.error \in {411, 417, 500}
           \/ (k.error = 204 /\ j.q.method = "DELETE")
  PROVE  Local(k)
<1>1. Typed(k)
  BY DEF Local, IsJob, Typed, Work, Choice, Target, Stages
<1>. QED
  BY SMTT(30), <1>1 DEF EarlyStages, PutStages, DeleteStages, MkcolStages, Clean, Local, IsJob, Work, Choice,
    Target, Begun, Working, Changed, Answered, Chosen, Opened, Authorized, Holds, Typed

LEMMA EndedByReply ==
  ASSUME NEW j, Local(j), j.q \in clients.requests, j.pc \notin {"send", "done"}, NEW s \in Int
  PROVE  Local(Reply(j, s))
<1> DEFINE k == Reply(j, s)
<1>1. Full(k) /\ Work(k, j) /\ Choice(k, j) /\ Target(k, j) /\ k.pc = "done" /\ k.status = s
      /\ k.error = j.error
  BY DEF Reply, Local, IsJob, Full, Fields, Work, Choice, Target
<1> HIDE DEF k
<1>2. k.error \in Int
  BY <1>1 DEF Local, IsJob, Typed
<1>3. Local(k)
  BY <1>1, <1>2, Ended
<1>. QED
  BY <1>3 DEF k

LEMMA EndedAndClosed ==
  ASSUME NEW j, Local(j), j.q \in clients.requests, j.pc \notin {"send", "done"}, NEW s \in Int,
         NEW data
  PROVE  Local(ClosedOf(j, s)) /\ Local(SentOf(j, s, data))
<1> SUFFICES ASSUME NEW k, k = ClosedOf(j, s) \/ k = SentOf(j, s, data) PROVE Local(k)
  OBVIOUS
<1>1. /\ Full(k) /\ Work(k, j) /\ Choice(k, j) /\ Target(k, j) /\ k.pc = "done"
      /\ k.status = s /\ k.error = j.error
  BY WithClose DEF Local, IsJob
<1>2. k.error \in Int
  BY <1>1 DEF Local, IsJob, Typed
<1>. QED
  BY <1>1, <1>2, Ended

LEMMA EndedByError ==
  ASSUME FileSystem, NEW j, Local(j), j.q \in clients.requests, j.pc \notin {"send", "done"},
         NEW m, Becomes(m, j), NEW s \in {204, 304, 401, 403, 404, 405, 409, 411, 415, 417, 423, 500, 503},
         j.changed => s \in {204, 411, 417, 500}, s = 204 => j.q.method = "DELETE"
  PROVE  Local(send_http_error(m, s))
<1> DEFINE k == send_http_error(m, s)
<1>1. CASE m.error = 0 /\ s \in DOMAIN config.pages /\ Exists(config.pages[s])
  <2> DEFINE p == config.pages[s]
  <2>1. k = [m EXCEPT !.error = s, !.path = p, !.stat = mg_stat(p), !.pc = Kind(p)]
    BY <1>1 DEF send_http_error
  <2>2. p \in Seq(STRING) /\ mg_stat(p) \in Stats /\ ~mg_stat(p).gz
    BY <1>1, StatTyped DEF FileSystem, Exists
  <2>3. Kind(p) \in {"cgi", "ssi", "static"}
    BY KindOf
  <2> HIDE DEF k, p
  <2>. DEFINE kind == Kind(p)
              st == mg_stat(p)
  <2>. HIDE DEF kind, st
  <2>7. k = PageOf(m, s, p, st, kind) /\ Full(m)
    BY <2>1 DEF kind, st, Becomes, PageOf
  <2>8. Full(k) /\ Work(k, m) /\ Choice(k, m) /\ k.pc = kind /\ k.status = m.status /\ k.error = s
        /\ k.path = p /\ k.stat = st /\ k.sent = m.sent
    BY <2>7, WithPage
  <2>4. Full(k) /\ Work(k, j) /\ Choice(k, j) /\ k.pc = Kind(p) /\ k.status = j.status /\ k.error = s
        /\ k.path = p /\ k.stat = mg_stat(p) /\ k.sent = j.sent
    BY <2>8 DEF Work, Choice, Verdict, Becomes, kind, st
  <2>5. Typed(k)
    BY <2>2, <2>3, <2>4 DEF Local, IsJob, Typed, Work, Choice, Stages
  <2>6. Local(k)
    BY <1>1, <2>2, <2>3, <2>4, <2>5 DEF EarlyStages, PutStages, DeleteStages, MkcolStages, Clean, Local, IsJob, Work, Choice,
    Begun, Working, Changed, Answered, Chosen, Opened, Authorized, Holds
  <2> QED BY <2>6 DEF k
<1>2. CASE ~ (m.error = 0 /\ s \in DOMAIN config.pages /\ Exists(config.pages[s]))
  <2>1. k = [Reply(m, s) EXCEPT !.must_close = TRUE, !.error = IF @ = 0 THEN s ELSE @]
    BY <1>2 DEF send_http_error
  <2>. DEFINE e == IF m.error = 0 THEN s ELSE m.error
  <2>6. k = NoPageOf(m, s, e) /\ Full(m)
    BY <2>1 DEF NoPageOf, Reply, Becomes, Full, Fields
  <2>7. e = s \/ e = j.error
    BY DEF Becomes, Verdict
  <2> HIDE DEF k, e
  <2>8. Full(k) /\ Work(k, m) /\ Choice(k, m) /\ Target(k, m) /\ k.pc = "done" /\ k.status = s
        /\ k.error = e
    BY <2>6, WithoutPage
  <2>2. Full(k) /\ Work(k, j) /\ Choice(k, j) /\ Target(k, m) /\ k.pc = "done" /\ k.status = s
        /\ k.error = e
    BY <2>8 DEF Work, Choice, Becomes
  <2>3. k.error \in Int /\ (k.error = s \/ k.error = j.error)
    BY <2>2, <2>7 DEF Local, IsJob, Typed
  <2>4. Typed(k)
    BY <2>2, <2>3, <2>6 DEF Becomes, Typed, Target, Stages, Work, Choice
  <2>5. Local(k)
    BY <2>2, <2>3, <2>4 DEF EarlyStages, PutStages, DeleteStages, MkcolStages, Clean, Local, IsJob, Work, Choice,
    Target, Begun, Working, Changed, Answered, Chosen, Opened, Authorized, Holds, Becomes
  <2> QED BY <2>5 DEF k
<1>. QED
  BY <1>1, <1>2

LEMMA BecomesItself == ASSUME NEW j, Local(j) PROVE Becomes(j, j)
BY DEF Becomes, Local, IsJob, Work, Choice, Verdict, Begun

LEMMA ForFile ==
  ASSUME FileSystem, NEW j, Local(j), j.pc = "serve", NEW m, Becomes(m, j),
         j.q.method = "PUT" => ~m.stat.found
  PROVE  Local(handle_file_based_request(m))
<1>0. j.q \in clients.requests /\ ~j.changed
  BY DEF Local, Begun, EarlyStages, Clean
<1>1. CASE Kind(m.path) = "static" /\ is_not_modified(m)
  <2>1. handle_file_based_request(m) = send_http_error(m, 304)
    BY <1>1 DEF handle_file_based_request
  <2> QED BY <1>0, <2>1, EndedByError
<1>2. CASE ~ (Kind(m.path) = "static" /\ is_not_modified(m))
  <2> DEFINE k == [m EXCEPT !.pc = Kind(m.path)]
  <2>1. handle_file_based_request(m) = k
    BY <1>2 DEF handle_file_based_request
  <2>2. Full(k) /\ Work(k, j) /\ Choice(k, j) /\ Target(k, m) /\ Verdict(k, j) /\ k.pc = Kind(m.path)
        /\ k.sent = j.sent
    BY DEF Becomes, Full, Fields, Work, Choice, Target, Verdict
  <2> HIDE DEF k
  <2>3. Typed(k)
    BY <2>2, KindOf DEF Becomes, Typed, Target, Stages, Work, Choice, Verdict
  <2>4. k.pc \in {"cgi", "ssi", "static"}
    BY <2>2, KindOf
  <2>5. Local(k)
    BY <1>0, <2>2, <2>3, <2>4 DEF EarlyStages, PutStages, DeleteStages, MkcolStages, Clean, Local, IsJob, Work, Choice,
    Target, Verdict, Begun, Working, Changed, Answered, Chosen, Opened, Authorized, Holds, Becomes
  <2> QED BY <2>1, <2>5
<1>. QED
  BY <1>1, <1>2

LEMMA Interpreted ==
  ASSUME FileSystem, NEW j, Local(j), j.pc \in {"lookup", "callback"}
  PROVE  Local([interpret_uri(j) EXCEPT !.pc = "auth"])
<1> DEFINE m == interpret_uri(j)
           k == [m EXCEPT !.pc = "auth"]
           put == is_put_or_delete_method(j.q)
           k0 == [j EXCEPT !.put = put, !.cb = FALSE, !.script = FALSE, !.stat = NoStat]
           above == {p \in Paths : IsStrictPrefix(p, j.path) /\ Exists(p) /\ Kind(p) = "cgi"} # {}
           inIt == Kind(j.path) = "cgi" /\ ~put
<1>0. put \in BOOLEAN /\ above \in BOOLEAN /\ inIt \in BOOLEAN /\ (put => inIt = FALSE) /\ NoStat \in Stats
      /\ ~NoStat.found /\ ~NoStat.gz
  BY DEF is_put_or_delete_method, NoStat, Stats
<1>1. \/ m = k0
      \/ m = [k0 EXCEPT !.stat = mg_stat(j.path), !.script = inIt]
      \/ Exists(Zipped(j.path)) /\ m = [k0 EXCEPT !.stat = [mg_stat(Zipped(j.path)) EXCEPT !.gz = TRUE]]
      \/ m = [k0 EXCEPT !.script = above]
  BY DEF interpret_uri
<1> DEFINE zip == [mg_stat(Zipped(j.path)) EXCEPT !.gz = TRUE]
<1>2. mg_stat(j.path) \in Stats /\ ~mg_stat(j.path).gz
  BY StatTyped
<1>3. Exists(Zipped(j.path)) => zip \in Stats /\ zip.found
  BY StatTyped DEF Stats
<1> HIDE DEF put, above, inIt, zip, m
<1>4. Full(k0) /\ k0.put = put /\ k0.cb = FALSE /\ k0.script = FALSE /\ k0.stat = NoStat
      /\ Work(k0, j) /\ Verdict(k0, j) /\ k0.path = j.path /\ k0.sent = j.sent
  BY DEF Local, IsJob, Full, Fields, Work, Verdict
<1> HIDE DEF k0
<1>5. /\ Full(k) /\ k.put = put /\ k.cb = FALSE /\ k.pc = "auth" /\ k.path = j.path /\ k.sent = j.sent
      /\ Work(k, j) /\ Verdict(k, j)
      /\ k.script \in BOOLEAN /\ k.stat \in Stats /\ (k.stat.gz => k.stat.found)
      /\ k.script /\ put => ~k.stat.found
  <2>1. CASE m = k0
    BY <1>0, <1>4, <2>1 DEF Full, Fields, Work, Verdict
  <2>2. CASE m = [k0 EXCEPT !.stat = mg_stat(j.path), !.script = inIt]
    <3>1. Full(k) /\ k.put = put /\ k.cb = FALSE /\ k.pc = "auth" /\ k.path = j.path /\ k.sent = j.sent
          /\ Work(k, j) /\ Verdict(k, j) /\ k.stat = mg_stat(j.path) /\ k.script = inIt
      BY <1>4, <2>2 DEF Full, Fields, Work, Verdict
    <3> QED BY <1>0, <1>2, <3>1
  <2>3. CASE Exists(Zipped(j.path)) /\ m = [k0 EXCEPT !.stat = zip]
    <3>1. Full(k) /\ k.put = put /\ k.cb = FALSE /\ k.pc = "auth" /\ k.path = j.path /\ k.sent = j.sent
          /\ Work(k, j) /\ Verdict(k, j) /\ k.stat = zip /\ k.script = FALSE
      BY <1>4, <2>3 DEF Full, Fields, Work, Verdict
    <3> QED BY <1>0, <1>3, <2>3, <3>1
  <2>4. CASE m = [k0 EXCEPT !.script = above]
    <3>1. Full(k) /\ k.put = put /\ k.cb = FALSE /\ k.pc = "auth" /\ k.path = j.path /\ k.sent = j.sent
          /\ Work(k, j) /\ Verdict(k, j) /\ k.stat = NoStat /\ k.script = above
      BY <1>4, <2>4 DEF Full, Fields, Work, Verdict
    <3> QED BY <1>0, <3>1
  <2> QED BY <1>1, <2>1, <2>2, <2>3, <2>4 DEF zip
<1> HIDE DEF k
<1>6. Typed(k)
  BY <1>0, <1>5 DEF Local, IsJob, Typed, Work, Verdict, Stages, EarlyStages
<1>7. k.put <=> is_put_or_delete_method(k.q)
  BY <1>5 DEF put, Work
<1>8. Local(k)
  BY <1>5, <1>6, <1>7 DEF EarlyStages, PutStages, DeleteStages, MkcolStages, Clean, Local, IsJob, Work,
    Verdict, Begun, Working, Changed, Answered, Chosen, Opened, Authorized, Holds
<1>. QED
  BY <1>8 DEF k, m

-----------------------------------------------------------------------------
\* A step of t that changes nothing but its job.
Moves(t) == Quiet /\ \E k : Step(t, k) /\ Local(k)

LEMMA BeginLocal ==
  ASSUME Shared, NEW t \in Workers, NEW q \in clients.requests, Begin(t, q)
  PROVE  \E k : Step(t, k) /\ Local(k)
<1> DEFINE j == [Idle EXCEPT !.q = q, !.path = q.path, !.date = now]
<1>1. q.path \in Seq(STRING) /\ now \in Nat /\ MaxInodes \in Nat
  BY WorldFacts DEF Shared, FileSystem, Asked
<1>2. /\ Full(Idle) /\ Idle.stat = NoStat /\ Idle.pc = "idle" /\ ~Idle.changed /\ Idle.error = 0 /\ Idle.status = 0
      /\ Idle.ino = 0 /\ Idle.pos = 0 /\ Idle.seen = {} /\ Idle.unsaved = <<>> /\ Idle.sent = <<>>
      /\ Idle.script = FALSE /\ Idle.put = FALSE /\ Idle.cb = FALSE /\ Idle.left = 0 /\ Idle.announced = -1
      /\ Idle.changed = FALSE /\ Idle.disturbed = FALSE /\ Idle.whole = <<>>
  BY DEF Idle, Full, Fields
<1> HIDE DEF j
<1>3. /\ Full(j) /\ Choice(j, Idle) /\ Verdict(j, Idle) /\ j.stat = NoStat /\ j.pc = "idle" /\ j.path = q.path
      /\ j.q = q /\ j.date = now /\ j.ino = 0 /\ j.pos = 0 /\ j.seen = {} /\ j.unsaved = <<>> /\ j.sent = <<>>
      /\ j.left = 0 /\ j.announced = -1 /\ j.changed = FALSE /\ j.disturbed = FALSE /\ j.whole = <<>>
  BY <1>2 DEF j, Full, Fields, Choice, Verdict
<1>4. NoStat \in Stats /\ ~NoStat.gz /\ <<>> \in Seq(Marks)
  BY DEF NoStat, Stats
<1>5. Typed(j)
  <2>1. j.script \in BOOLEAN /\ j.put \in BOOLEAN /\ j.cb \in BOOLEAN /\ j.status \in Int /\ j.error \in Int
    <3>1. Idle.script \in BOOLEAN /\ Idle.put \in BOOLEAN /\ Idle.cb \in BOOLEAN
      BY DEF Idle
    <3> QED BY <1>2, <1>3, <3>1 DEF Choice, Verdict
  <2>2. j.announced \in Int
    BY <1>3
  <2>3. j.pc \in Stages /\ j.path \in Seq(STRING) /\ j.stat \in Stats /\ j.ino \in 0..MaxInodes
    BY <1>1, <1>3, <1>4, Early
  <2>4. j.changed \in BOOLEAN /\ j.disturbed \in BOOLEAN
    BY <1>3
  <2>5. j.pos \in Nat /\ j.left \in Int /\ j.date \in Nat /\ j.whole \in Seq(Marks) /\ j.unsaved \in Seq(Marks)
    BY <1>1, <1>3, <1>4
  <2> QED
    BY <2>1, <2>2, <2>3, <2>4, <2>5 DEF Typed
<1>6. Local(j)
  BY <1>2, <1>3, <1>4, <1>5 DEF EarlyStages, PutStages, DeleteStages, MkcolStages, Clean, Local, IsJob,
    Choice, Verdict, Begun, Working, Changed, Answered, Chosen, Opened, Authorized, Holds
<1> DEFINE go == [j EXCEPT !.pc = "lookup"]
<1>7. Local(go)
  <2>1. /\ Full(go) /\ go.pc = "lookup" /\ Work(go, j) /\ Choice(go, j) /\ Verdict(go, j) /\ Target(go, j)
        /\ go.sent = j.sent
    BY <1>3 DEF Full, Fields, Choice, Verdict, Work, Target
  <2> HIDE DEF go
  <2>2. Typed(go)
    BY <1>6, <2>1, Early DEF Typed, Choice, Verdict, Work, Target, Local, IsJob
  <2>3. j.path = j.q.path
    BY <1>3
  <2> QED
    BY <1>3, <1>6, <2>1, <2>2, <2>3 DEF EarlyStages, PutStages, DeleteStages, MkcolStages, Clean, Local, IsJob,
      Choice, Verdict, Work, Target, Begun, Working, Changed, Answered, Chosen, Opened, Authorized, Holds
<1>8. Local(Reply(j, 302)) /\ Local(Reply(j, 0)) /\ Local(send_http_error(j, 503))
  BY <1>3, <1>6, EndedByReply, EndedByError, BecomesItself DEF Shared
<1>9. Step(t, Reply(j, 302)) \/ Step(t, Reply(j, 0)) \/ Step(t, send_http_error(j, 503)) \/ Step(t, go)
  BY DEF Begin, j
<1>. QED
  BY <1>7, <1>8, <1>9

\* What most steps change: how far the request is.
LEMMA Going ==
  ASSUME NEW j, Full(j), NEW pc, NEW k, k = [j EXCEPT !.pc = pc]
  PROVE  /\ Full(k) /\ k.pc = pc /\ Work(k, j) /\ Choice(k, j) /\ Verdict(k, j) /\ Target(k, j)
         /\ k.sent = j.sent
<1>1. Full(k)
  BY DEF Full, Fields
<1>2. Work(k, j)
  BY DEF Full, Fields, Work
<1>. QED
  BY <1>1, <1>2 DEF Full, Fields, Choice, Verdict, Target

LEMMA LookupLocal ==
  ASSUME Shared, NEW t \in Workers, Local(job[t]), Lookup(t)
  PROVE  Moves(t)
<1> DEFINE j == job[t]
           put == is_put_or_delete_method(j.q)
           k == [j EXCEPT !.cb = TRUE, !.script = TRUE, !.pc = "auth", !.put = put]
<1>1. j.pc = "lookup" /\ Quiet /\ (Step(t, k) \/ Step(t, [interpret_uri(j) EXCEPT !.pc = "auth"]))
  BY DEF Lookup
<1>2. Local([interpret_uri(j) EXCEPT !.pc = "auth"])
  BY <1>1, Interpreted DEF Shared
<1>3. put \in BOOLEAN
  BY DEF is_put_or_delete_method
<1>4. Local(k)
  <2> HIDE DEF put
  <2>1. Full(k) /\ k.pc = "auth" /\ k.script = TRUE /\ k.cb = TRUE /\ k.put = put /\ Work(k, j) /\ Verdict(k, j)
        /\ Target(k, j) /\ k.sent = j.sent
    BY DEF Local, IsJob, Full, Fields, Verdict, Work, Target
  <2> HIDE DEF k
  <2>2. Typed(k)
    BY <1>3, <2>1, Early DEF Typed, Verdict, Work, Target, Local, IsJob
  <2>3. k.put <=> is_put_or_delete_method(k.q)
    BY <2>1 DEF put, Work
  <2> QED
    BY <1>1, <2>1, <2>2, <2>3 DEF EarlyStages, PutStages, DeleteStages, MkcolStages, Clean, Local, IsJob,
      Verdict, Work, Target, Begun, Working, Changed, Answered, Chosen, Opened, Authorized, Holds
<1>. QED
  <2> HIDE DEF k
  <2> QED BY <1>1, <1>2, <1>4 DEF Moves

LEMMA CallbackLocal ==
  ASSUME Shared, NEW t \in Workers, Local(job[t]), Callback(t)
  PROVE  Moves(t)
<1> DEFINE j == job[t]
<1>1. j.pc = "callback" /\ Quiet /\ (Step(t, Reply(j, 0)) \/ Step(t, [interpret_uri(j) EXCEPT !.pc = "auth"]))
  BY DEF Callback
<1>2. Local([interpret_uri(j) EXCEPT !.pc = "auth"])
  BY <1>1, Interpreted DEF Shared
<1>3. Local(Reply(j, 0))
  BY <1>1, EndedByReply DEF Local, Begun
<1>. QED
  BY <1>1, <1>2, <1>3 DEF Moves

LEMMA AuthLocal ==
  ASSUME Shared, NEW t \in Workers, Local(job[t]), Auth(t)
  PROVE  Moves(t)
<1> DEFINE j == job[t]
           pc == IF j.cb THEN "callback" ELSE "serve"
           go == [j EXCEPT !.pc = pc]
           bad == send_authorization_request(j)
           handled == get_request_handler(handlers, "auth", j.path, config.begins) # "NULL"
<1>1. j.pc = "auth" /\ Quiet /\ j.q \in clients.requests /\ ~j.changed /\ j.path = j.q.path
  BY DEF Auth, Local, Begun, EarlyStages, Clean
<1>2. Local(Reply(j, 0)) /\ Local(send_http_error(j, 405))
  BY <1>1, EndedByReply, EndedByError, BecomesItself DEF Shared
<1>3. Local(bad)
  <2>1. /\ Full(bad) /\ Work(bad, j) /\ Choice(bad, j) /\ Target(bad, j) /\ bad.pc = "done"
        /\ bad.status = 401 /\ bad.error = 401
    <3>1. bad = NoPageOf(j, 401, 401) /\ Full(j)
      BY DEF send_authorization_request, NoPageOf, Reply, Local, IsJob, Full, Fields
    <3> HIDE DEF bad
    <3> QED BY <3>1, WithoutPage
  <2> HIDE DEF bad
  <2> QED BY <1>1, <2>1, Ended
<1>4. \/ Step(t, go) /\ (j.put /\ ~j.script /\ ~j.cb => Authorized(j))
      \/ Step(t, Reply(j, 0)) \/ Step(t, send_http_error(j, 405)) \/ Step(t, bad)
  <2> HIDE DEF go, bad
  <2>1. CASE handled
    <3>1. Authorized(j)
      BY <1>1, <2>1 DEF Authorized
    <3> QED BY <2>1, <3>1 DEF Auth, go, bad
  <2>2. CASE ~handled /\ j.put /\ ~j.script /\ ~j.cb
    <3>1. j.q.user \in config.put_users => Authorized(j)
      BY DEF Authorized
    <3>2. \/ Step(t, send_http_error(j, 405))
          \/ Step(t, IF j.q.user \in config.put_users THEN go ELSE bad)
      BY <2>2 DEF Auth, go, bad
    <3> QED BY <3>1, <3>2
  <2>3. CASE ~handled /\ ~ (j.put /\ ~j.script /\ ~j.cb)
    <3>1. Step(t, IF check_authorization(j) THEN go ELSE bad)
      BY <2>3 DEF Auth, go, bad
    <3> QED BY <2>3, <3>1
  <2> QED BY <2>1, <2>2, <2>3
<1>5. ASSUME j.put /\ ~j.script /\ ~j.cb => Authorized(j)
      PROVE  Local(go)
  <2> HIDE DEF pc
  <2>1. /\ Full(go) /\ go.pc = pc /\ Work(go, j) /\ Choice(go, j) /\ Verdict(go, j) /\ Target(go, j)
        /\ go.sent = j.sent
    BY Going DEF Local, IsJob
  <2> HIDE DEF go
  <2>2. pc = IF j.cb THEN "callback" ELSE "serve"
    BY DEF pc
  <2>3. Typed(go)
    BY <2>1, <2>2, Early DEF Typed, Choice, Verdict, Work, Target, Local, IsJob
  <2>4. Authorized(go) <=> Authorized(j)
    BY <2>1 DEF Authorized, Work
  <2> QED
    BY <1>1, <1>5, <2>1, <2>2, <2>3, <2>4 DEF EarlyStages, PutStages, DeleteStages, MkcolStages, Clean, Local, IsJob,
      Choice, Verdict, Work, Target, Begun, Working, Changed, Answered, Chosen, Opened, Holds
<1>. QED
  <2> HIDE DEF go, bad
  <2> QED BY <1>1, <1>2, <1>3, <1>4, <1>5 DEF Moves

LEMMA ServeLocal ==
  ASSUME Shared, NEW t \in Workers, Local(job[t]), Serve(t)
  PROVE  Moves(t)
<1> DEFINE j == job[t]
           m == j.q.method
           i == Index(j.path)
           p == Append(j.path, config.index_files[i])
           dir == [j EXCEPT !.path = p, !.stat = mg_stat(p)]
           list == [j EXCEPT !.pc = "list"]
           opt == [Reply(j, 200) EXCEPT !.must_close = TRUE]
           go == [j EXCEPT !.pc = m]
<1>1. j.pc = "serve" /\ Quiet /\ j.q \in clients.requests /\ ~j.changed /\ j.path = j.q.path
  BY DEF Serve, Local, Begun, EarlyStages, Clean
<1>2. \A s \in {403, 404, 405} : Local(send_http_error(j, s))
  BY <1>1, EndedByError, BecomesItself DEF Shared
<1>3. Local(Reply(j, 301))
  BY <1>1, EndedByReply
<1>4. Local(opt)
  <2>1. opt = ClosedOf(j, 200)
    BY DEF ClosedOf
  <2> QED BY <1>1, <2>1, EndedAndClosed
<1>5. Local(list)
  <2>1. /\ Full(list) /\ list.pc = "list" /\ Work(list, j) /\ Choice(list, j) /\ Verdict(list, j) /\ Target(list, j)
        /\ list.sent = j.sent
    BY Going DEF Local, IsJob
  <2> HIDE DEF list
  <2>3. Typed(list)
    BY <2>1, Early DEF Typed, Choice, Verdict, Work, Target, Local, IsJob
  <2> QED
    BY <1>1, <2>1, <2>3 DEF EarlyStages, PutStages, DeleteStages, MkcolStages, Clean, Local, IsJob,
      Choice, Verdict, Work, Target, Begun, Working, Changed, Answered, Chosen, Opened, Holds
<1>6. ASSUME j.put, ~j.script, m # "PATCH" PROVE Local(go)
  <2>1. /\ Full(go) /\ go.pc = m /\ Work(go, j) /\ Choice(go, j) /\ Verdict(go, j) /\ Target(go, j)
        /\ go.sent = j.sent
    <3> HIDE DEF m
    <3> QED BY Going DEF Local, IsJob
  <2>2. m \in {"PUT", "DELETE", "MKCOL"}
    BY <1>1, <1>6 DEF Local, Chosen, is_put_or_delete_method
  <2> HIDE DEF go
  <2>3. Typed(go)
    BY <2>1, <2>2, Early DEF Typed, Choice, Verdict, Work, Target, Local, IsJob
  <2>4. Authorized(j) /\ (Authorized(go) <=> Authorized(j))
    BY <1>1, <1>6, <2>1 DEF Authorized, Work, Local, Chosen
  <2> QED
    BY <1>1, <2>1, <2>2, <2>3, <2>4 DEF EarlyStages, PutStages, DeleteStages, MkcolStages, Clean, Local, IsJob,
      Choice, Verdict, Work, Target, Begun, Working, Changed, Answered, Chosen, Opened, Holds
<1>7. ASSUME j.script \/ m # "PUT" PROVE Local(handle_file_based_request(j))
  <2>1. m = "PUT" => ~j.stat.found
    BY <1>1, <1>7 DEF Local, Chosen, is_put_or_delete_method
  <2> QED BY <1>1, <2>1, ForFile, BecomesItself DEF Shared
<1>8. ASSUME i # 0, m \in {"GET", "HEAD"} PROVE Local(handle_file_based_request(dir))
  <2>1. i \in 1..Len(config.index_files)
    <3> DEFINE At == {n \in 1..Len(config.index_files) : Exists(Append(j.path, config.index_files[n]))}
    <3>1. i = IF At # {} THEN Min(At) ELSE 0
      BY DEF Index, SelectInSeq
    <3>2. Len(config.index_files) \in Nat
      BY WorldFacts DEF Shared
    <3> HIDE DEF i, At
    <3>3. At \in SUBSET (1..Len(config.index_files))
      BY DEF At
    <3>4. i \in 0..Len(config.index_files)
      BY <3>1, <3>2, <3>3, FirstOf
    <3> QED BY <1>8, <3>2, <3>4
  <2> DEFINE st == mg_stat(p)
  <2>2. p \in Seq(STRING)
    <3>1. config.index_files[i] \in STRING
      BY <2>1, WorldFacts DEF Shared
    <3> HIDE DEF i
    <3> QED BY <3>1 DEF Local, IsJob, Typed
  <2>3. st \in Stats /\ ~st.gz
    BY StatTyped DEF Shared
  <2>4. dir = [j EXCEPT !.path = p, !.stat = st]
    OBVIOUS
  <2> HIDE DEF p, st, dir
  <2>5. Full(dir) /\ dir.path = p /\ dir.stat = st /\ dir.pc = j.pc /\ Work(dir, j) /\ Choice(dir, j) /\ Verdict(dir, j)
        /\ dir.sent = j.sent
    BY <2>4 DEF Local, IsJob, Full, Fields, Work, Choice, Verdict
  <2>6. Typed(dir)
    BY <2>2, <2>3, <2>5 DEF Typed, Choice, Verdict, Work, Local, IsJob
  <2>7. Becomes(dir, j)
    BY <2>3, <2>5, <2>6 DEF Becomes
  <2> QED BY <1>1, <1>8, <2>7, ForFile DEF Shared
<1> HIDE DEF dir, i
<1>9. Step(t, IF ~config.document_root THEN send_http_error(j, 404)
          ELSE IF j.script THEN handle_file_based_request(j)
          ELSE IF j.put
               THEN IF m = "PATCH" THEN send_http_error(j, 405) ELSE go
          ELSE IF ~j.stat.found \/ Name(j.path) \in config.hidden THEN send_http_error(j, 404)
          ELSE IF j.stat.dir /\ ~j.q.slash THEN Reply(j, 301)
          ELSE IF m = "PROPFIND" THEN list
          ELSE IF m = "OPTIONS" THEN opt
          ELSE IF m \notin {"GET", "HEAD"} THEN send_http_error(j, 405)
          ELSE IF j.stat.dir
               THEN IF i # 0 THEN handle_file_based_request(dir)
                    ELSE IF config.listing THEN list ELSE send_http_error(j, 403)
          ELSE handle_file_based_request(j))
  BY DEF Serve, Directory, dir, i
<1> HIDE DEF list, opt, go
<1>10. ~j.put => m # "PUT"
  BY <1>1 DEF Local, Chosen, is_put_or_delete_method
<1>11. \/ Step(t, send_http_error(j, 403)) \/ Step(t, send_http_error(j, 404)) \/ Step(t, send_http_error(j, 405))
       \/ Step(t, Reply(j, 301)) \/ Step(t, list) \/ Step(t, opt)
       \/ Step(t, go) /\ j.put /\ ~j.script /\ m # "PATCH"
       \/ Step(t, handle_file_based_request(j)) /\ (j.script \/ m # "PUT")
       \/ Step(t, handle_file_based_request(dir)) /\ i # 0 /\ m \in {"GET", "HEAD"}
  <2> HIDE DEF m
  <2> QED BY <1>9, <1>10, Zenon
<1>. QED
  BY <1>1, <1>2, <1>3, <1>4, <1>5, <1>6, <1>7, <1>8, <1>11 DEF Moves

-----------------------------------------------------------------------------
-----------------------------------------------------------------------------
\* GET, HEAD, PROPFIND

LEMMA SliceTyped ==
  ASSUME NEW j, Asked(j.q), j.stat.size \in Nat
  PROVE  /\ Slice(j).from \in Nat /\ Slice(j).cl \in Int
         /\ Slice(j).from = IF j.q.range = <<>> THEN 0 ELSE j.q.range[1]
         /\ j.q.range # <<>> => j.q.range[1] \in Nat /\ Len(j.q.range) \in {1, 2}
         /\ Len(j.q.range) = 2 => j.q.range[2] \in Nat
<1> DEFINE rg == j.q.range
           n == Len(rg)
           r == Slice(j)
           c == j.stat.size
           a == rg[1]
           b == rg[2]
           x == (IF b > c THEN c ELSE b) - a + 1
<1>1. rg \in Seq(Nat) /\ n \in Nat /\ n <= 2 /\ c \in Nat
  BY DEF Asked
<1>2. (rg = <<>> => n = 0) /\ (rg # <<>> => n # 0) /\ (n = 1 \/ n = 2 => a \in Nat) /\ (n = 2 => b \in Nat)
  <2>1. rg = <<>> => n = 0
    OBVIOUS
  <2>2. rg # <<>> => n # 0
    BY <1>1, EmptySeq
  <2>3. (n = 1 \/ n = 2 => a \in Nat) /\ (n = 2 => b \in Nat)
    BY <1>1, ElementOfSeq
  <2> QED BY <2>1, <2>2, <2>3
<1>3. r = IF rg = <<>> THEN [from |-> 0, cl |-> c]
          ELSE IF n = 1 THEN [from |-> a, cl |-> c - a]
          ELSE [from |-> a, cl |-> x]
  BY DEF Slice
<1>4. n = 2 => x \in Int
  BY <1>1, <1>2
<1> SUFFICES /\ r.from \in Nat /\ r.cl \in Int /\ r.from = IF rg = <<>> THEN 0 ELSE a
             /\ rg # <<>> => a \in Nat /\ n \in {1, 2}
             /\ n = 2 => b \in Nat
  OBVIOUS
<1> HIDE DEF rg, n, r, c, a, b, x
<1>5. CASE rg = <<>>
  BY <1>1, <1>2, <1>3, <1>5
<1>6. CASE rg # <<>>
  <2>1. n = 1 \/ n = 2
    BY <1>1, <1>2, <1>6
  <2>2. a \in Nat
    BY <1>2, <2>1
  <2>3. r.from = a /\ r.cl = IF n = 1 THEN c - a ELSE x
    BY <1>3, <1>6
  <2>4. r.cl \in Int
    BY <1>1, <1>4, <2>1, <2>2, <2>3
  <2> QED BY <1>2, <1>6, <2>1, <2>2, <2>3, <2>4
<1>. QED
  BY <1>5, <1>6

LEMMA OpenLocal ==
  ASSUME Shared, NEW t \in Workers, Local(job[t]), Open(t)
  PROVE  Moves(t)
<1> DEFINE j == job[t]
           p == Served(j)
           r == Slice(j)
           data == File(p).data
           status == IF j.q.range = <<>> THEN 200 ELSE 206
           pos == IF r.from > Len(data) THEN Len(data) ELSE r.from
           pc == IF j.q.method = "HEAD" THEN "done" ELSE "send"
           k == [j EXCEPT !.ino = fs[p], !.whole = data, !.announced = r.cl,
                         !.status = status, !.pos = pos, !.left = r.cl, !.date = now, !.pc = pc]
<1>1. j.pc = "static" /\ Quiet /\ j.q \in clients.requests
  BY DEF Open, Local, Begun, EarlyStages
<1>2. CASE ~Exists(p)
  <2>1. Step(t, send_http_error(j, 500))
    BY <1>2 DEF Open
  <2>2. Local(send_http_error(j, 500))
    BY <1>1, EndedByError, BecomesItself DEF Shared
  <2> QED BY <1>1, <2>1, <2>2 DEF Moves
<1>3. CASE Exists(p)
  <2>1. Step(t, k)
    BY <1>3 DEF Open
  <2>2. /\ fs[p] \in 1..MaxInodes /\ data \in Seq(Marks) /\ Len(data) \in Nat /\ now \in Nat
    BY <1>3, WorldsAssumption DEF Shared, FileSystem, Exists, File, Inodes
  <2>3. r.from \in Nat /\ r.cl \in Int
    <3>1. Asked(j.q) /\ j.stat.size \in Nat
      BY <1>1, WorldFacts DEF Shared, Local, IsJob, Typed, Stats
    <3> HIDE DEF r
    <3> QED BY <3>1, SliceTyped DEF r
  <2>4. status \in Int /\ pos \in Nat /\ pc \in {"done", "send"}
    <3> HIDE DEF data, r
    <3> QED BY <2>2, <2>3
  <2>5. status = IF j.q.range = <<>> THEN 200 ELSE 206
    OBVIOUS
  <2> DEFINE ino == fs[p]
             cl == r.cl
  <2>6. k = [j EXCEPT !.ino = ino, !.whole = data, !.announced = cl,
                         !.status = status, !.pos = pos, !.left = cl, !.date = now, !.pc = pc]
    OBVIOUS
  <2> HIDE DEF ino, data, cl, status, pos, pc, k
  <2>7. Full(k)
    BY ZenonT(40), <2>6 DEF Local, IsJob, Full, Fields
  <2>8. /\ k.ino = ino /\ k.whole = data /\ k.announced = cl /\ k.status = status /\ k.pos = pos /\ k.left = cl
        /\ k.date = now /\ k.pc = pc /\ k.q = j.q /\ k.error = j.error /\ k.changed = j.changed
    BY <2>6 DEF Local, IsJob, Full, Fields
  <2>9. Choice(k, j) /\ Target(k, j) /\ k.unsaved = j.unsaved /\ k.disturbed = j.disturbed
        /\ k.seen = j.seen /\ k.sent = j.sent /\ k.ok = j.ok
    BY <2>6 DEF Local, IsJob, Full, Fields, Choice, Target
  <2>10. ino \in 1..MaxInodes /\ cl \in Int
    BY <2>2, <2>3 DEF ino, cl
  <2>11. Typed(k)
    BY <2>2, <2>4, <2>8, <2>9, <2>10, Early, WorldsAssumption DEF Local, IsJob, Typed, Choice, Target
  <2>12. Local(k)
    BY <1>1, <2>4, <2>5, <2>7, <2>8, <2>9, <2>10, <2>11 DEF EarlyStages, PutStages, DeleteStages, MkcolStages, Clean, Local,
      IsJob, Choice, Target, Begun, Working, Changed, Answered, Chosen, Opened, Holds, Authorized, status
  <2> QED BY <1>1, <2>1, <2>12 DEF Moves
<1>. QED
  BY <1>2, <1>3

LEMMA SendLocal ==
  ASSUME Shared, NEW t \in Workers, Local(job[t]), Send(t)
  PROVE  Moves(t)
<1> DEFINE j == job[t]
           data == inodes[j.ino].data
           k == [j EXCEPT !.sent = Append(@, data[j.pos + 1]), !.pos = @ + 1, !.left = @ - 1]
           done == [j EXCEPT !.pc = "done"]
<1>1. j.pc = "send" /\ Quiet /\ j.q \in clients.requests /\ (Step(t, k) \/ Step(t, done))
  BY DEF Send, Local, Begun, EarlyStages
<1>2. Local(k)
  <2> DEFINE x == Append(j.sent, data[j.pos + 1])
  <2>1. k = [j EXCEPT !.sent = x, !.pos = j.pos + 1, !.left = j.left - 1]
    BY DEF Local, IsJob, Full, Fields
  <2> HIDE DEF x, k
  <2>2. Full(k)
    BY <2>1 DEF Local, IsJob, Full, Fields
  <2>3. Choice(k, j) /\ Target(k, j) /\ Verdict(k, j) /\ k.pc = j.pc /\ k.pos = j.pos + 1 /\ k.left = j.left - 1
    BY <2>1 DEF Local, IsJob, Full, Fields, Choice, Target, Verdict
  <2>4. /\ k.q = j.q /\ k.ino = j.ino /\ k.seen = j.seen
        /\ k.ok = j.ok /\ k.announced = j.announced /\ k.changed = j.changed
        /\ k.disturbed = j.disturbed /\ k.whole = j.whole /\ k.date = j.date /\ k.unsaved = j.unsaved
    BY <2>1 DEF Local, IsJob, Full, Fields
  <2>6. j.pos + 1 \in Nat /\ j.left - 1 \in Int
    BY SMTT(30) DEF Local, IsJob, Typed
  <2>5. Typed(k)
    BY <2>3, <2>4, <2>6 DEF Local, IsJob, Typed, Choice, Target, Verdict
  <2> QED
    BY <1>1, <2>2, <2>3, <2>4, <2>5 DEF EarlyStages, PutStages, DeleteStages, MkcolStages, Clean, Local,
      IsJob, Choice, Target, Verdict, Begun, Working, Changed, Answered, Chosen, Opened, Holds, Authorized
<1>3. Local(done)
  <2>1. /\ Full(done) /\ done.pc = "done" /\ Work(done, j) /\ Choice(done, j) /\ Verdict(done, j) /\ Target(done, j)
    BY Going DEF Local, IsJob
  <2> HIDE DEF done
  <2>2. Typed(done)
    BY <2>1, Early DEF Local, IsJob, Typed, Choice, Target, Verdict, Work
  <2> QED
    BY <1>1, <2>1, <2>2 DEF EarlyStages, PutStages, DeleteStages, MkcolStages, Clean, Local,
      IsJob, Choice, Target, Verdict, Work, Begun, Working, Changed, Answered, Chosen, Opened, Holds, Authorized
<1>. QED
  BY <1>1, <1>2, <1>3 DEF Moves

LEMMA PagesLocal ==
  ASSUME Shared, NEW t \in Workers, Local(job[t]), Ssi(t) \/ List(t) \/ Cgi(t)
  PROVE  Moves(t)
<1> DEFINE j == job[t]
<1>1. j.pc \in {"ssi", "list", "cgi"} /\ Quiet /\ j.q \in clients.requests
  BY DEF Ssi, List, Cgi, Local, Begun, EarlyStages
<1>2. Local(send_http_error(j, 500))
  BY <1>1, EndedByError, BecomesItself DEF Shared
<1>3. ASSUME NEW s \in {0, 200, 207}, NEW data
      PROVE  Local(ClosedOf(j, s)) /\ Local(SentOf(j, s, data))
  BY <1>1, EndedAndClosed
<1>4. CASE Ssi(t)
  <2> DEFINE x == send_ssi_file(j.path)
  <2>1. Step(t, send_http_error(j, 500)) \/ Step(t, [Reply(j, 200) EXCEPT !.must_close = TRUE, !.sent = x])
    BY <1>4 DEF Ssi
  <2> HIDE DEF x
  <2>2. Step(t, send_http_error(j, 500)) \/ Step(t, SentOf(j, 200, x))
    BY <2>1 DEF SentOf
  <2> QED BY <1>1, <1>2, <1>3, <2>2 DEF Moves
<1>5. CASE List(t)
  <2> DEFINE s == IF j.q.method = "PROPFIND" THEN 207 ELSE 200
  <2>1. \E x : Step(t, send_http_error(j, 500)) \/ Step(t, [Reply(j, s) EXCEPT !.must_close = TRUE, !.sent = x])
    BY Zenon, <1>5 DEF List
  <2>2. s \in {0, 200, 207}
    OBVIOUS
  <2> HIDE DEF s
  <2>3. \E x : Step(t, send_http_error(j, 500)) \/ Step(t, SentOf(j, s, x))
    BY Zenon, <2>1 DEF SentOf
  <2> QED BY <1>1, <1>2, <1>3, <2>2, <2>3 DEF Moves
<1>6. CASE Cgi(t)
  <2>1. Step(t, ClosedOf(j, 0))
    BY <1>6 DEF Cgi, ClosedOf
  <2> QED BY <1>1, <1>3, <2>1 DEF Moves
<1>. QED
  BY <1>4, <1>5, <1>6

-----------------------------------------------------------------------------
\* PUT, DELETE, MKCOL

\* A step of t that changes a file.
Touches(t) ==
  /\ UNCHANGED <<config, handlers, now, copies, clients>> /\ FileSystem'
  /\ \E k, paths, unlink : Touch(t, k, paths, unlink) /\ Local([k EXCEPT !.changed = TRUE])

LEMMA Changing ==
  ASSUME NEW j, Local(j), Authorized(j),
         j.pc \in {"put_dir", "put_open", "put_write", "put_close", "rmdir",
                   "static", "ssi", "cgi", "send", "done"},
         j.q.method \in {"PUT", "DELETE", "MKCOL"}, j.error \in {0, 204, 411, 417, 500},
         j.pc \in {"static", "ssi", "cgi", "send"} => j.error # 0
  PROVE  Local([j EXCEPT !.changed = TRUE])
<1> DEFINE k == [j EXCEPT !.changed = TRUE]
<1>1. Full(k)
  BY ZenonT(40) DEF Local, IsJob, Full, Fields
<1>2. /\ k.pc = j.pc /\ k.q = j.q /\ k.ino = j.ino /\ k.pos = j.pos /\ k.left = j.left /\ k.seen = j.seen
      /\ k.ok = j.ok /\ k.announced = j.announced /\ k.changed = TRUE
      /\ k.disturbed = j.disturbed /\ k.whole = j.whole /\ k.date = j.date /\ k.unsaved = j.unsaved
  BY DEF Local, IsJob, Full, Fields
<1>3. Choice(k, j) /\ Target(k, j) /\ Verdict(k, j) /\ k.sent = j.sent
  BY DEF Local, IsJob, Full, Fields, Choice, Target, Verdict
<1> HIDE DEF k
<1>4. Typed(k)
  BY ZenonT(40), <1>2, <1>3 DEF Local, IsJob, Typed, Choice, Target, Verdict
<1>5. Authorized(k)
  BY <1>2 DEF Authorized
<1>6. Local(k)
  BY <1>1, <1>2, <1>3, <1>4, <1>5 DEF EarlyStages, PutStages, DeleteStages, MkcolStages, Clean, Local,
      IsJob, Choice, Target, Verdict, Begun, Working, Changed, Answered, Chosen, Opened, Holds
<1>. QED
  BY <1>6 DEF k

\* A job that goes on to its next stage, with some of what it works on and its status set.
WorksFrom(k, j) ==
  /\ Full(k) /\ k.q = j.q /\ Choice(k, j) /\ Target(k, j) /\ k.sent = j.sent
  /\ k.changed = j.changed /\ k.disturbed = j.disturbed /\ k.announced = j.announced
  /\ k.whole = j.whole /\ k.date = j.date /\ k.error = j.error
  /\ k.pos \in Nat /\ k.left \in Int /\ k.status \in Int /\ k.unsaved \in Seq(Marks)
  /\ k.ino \in 0..MaxInodes
  /\ k.pc = "put_write" => k.left \in 0..Len(k.q.body)
  /\ k.status # 201 \/ k.q.method # "MKCOL"
  /\ k.status # 304
  /\ \/ k.q.method = "PUT" /\ k.pc \in {"put_dir", "put_open"} /\ k.ino = 0 /\ k.unsaved = <<>>
     \/ k.q.method = "PUT" /\ k.pc \in {"put_write", "put_close", "done"} /\ k.ino # 0
     \/ k.q.method = "DELETE" /\ k.pc = "rmdir" /\ k.ino = 0
     \/ k.q.method = "DELETE" /\ k.pc = "remove" /\ k.ino = 0 /\ k.seen = {} /\ ~k.changed
     \/ k.q.method = "MKCOL" /\ k.pc = "mkdir" /\ k.ino = 0 /\ ~k.changed

LEMMA WorksOn ==
  ASSUME NEW j, Local(j), Authorized(j), j.pc # "send", j.pc # "done",
         j.q \in clients.requests, j.path = j.q.path, j.error = 0,
         NEW k, WorksFrom(k, j)
  PROVE  Local(k)
<1>1. Typed(k)
  BY Early DEF Local, IsJob, Typed, Choice, Target, WorksFrom
<1>2. Authorized(k)
  BY DEF Authorized, WorksFrom
<1>. QED
  BY <1>1, <1>2 DEF EarlyStages, PutStages, DeleteStages, MkcolStages, Clean, Local, WorksFrom,
      IsJob, Choice, Target, Begun, Working, Changed, Answered, Chosen, Opened, Holds

\* A new stage, and a status.
StageOf(j, s, pc) == [j EXCEPT !.status = s, !.pc = pc]

LEMMA WithStage ==
  ASSUME NEW j, Full(j), NEW s, NEW pc, NEW k, k = StageOf(j, s, pc)
  PROVE  /\ Full(k) /\ Work(k, j) /\ Choice(k, j) /\ Target(k, j) /\ k.sent = j.sent
         /\ k.error = j.error /\ k.status = s /\ k.pc = pc
<1>1. Full(k)
  BY DEF StageOf, Full, Fields
<1>2. Work(k, j)
  BY DEF StageOf, Full, Fields, Work
<1>. QED
  BY <1>1, <1>2 DEF StageOf, Full, Fields, Choice, Target

LEMMA Refused ==
  ASSUME Shared, NEW j, Local(j), j.q \in clients.requests, j.pc \notin {"send", "done"},
         NEW s \in {204, 304, 401, 403, 404, 405, 409, 411, 415, 417, 423, 500, 503},
         j.changed => s \in {204, 411, 417, 500}, s = 204 => j.q.method = "DELETE"
  PROVE  Local(send_http_error(j, s))
BY BecomesItself, EndedByError DEF Shared

\* What is known of an inode that is written.
LEMMA Rewritten ==
  ASSUME NEW x \in Inodes, NEW d \in Seq(Marks), NEW n \in Nat
  PROVE  /\ [x EXCEPT !.data = d, !.mtime = n] \in Inodes
         /\ [x EXCEPT !.data = d, !.mtime = n].data = d
         /\ [x EXCEPT !.data = d, !.mtime = n].mtime = n
         /\ [x EXCEPT !.data = d, !.mtime = n].dir = x.dir
BY DEF Inodes

-----------------------------------------------------------------------------
LEMMA MakeTyped ==
  ASSUME FileSystem, MaxInodes \in Nat, Room, NEW p, NEW dir \in BOOLEAN, Make(p, dir), UNCHANGED now
  PROVE  /\ FileSystem' /\ Free \in 1..MaxInodes /\ inodes[Free].mtime = 0
         /\ (p \in Paths => fs'[p] = Free)
<1> DEFINE None0 == {i \in 1..MaxInodes : inodes[i].mtime = 0}
           i0 == Min(None0)
<1>1. i0 \in None0 /\ \A i \in None0 : i0 <= i
  <2>1. None0 # {} /\ None0 \in SUBSET Nat
    BY DEF Room
  <2> HIDE DEF None0
  <2> QED BY <2>1, MinIsLeast
<1> HIDE DEF i0
<1>2. i0 \in 1..MaxInodes /\ inodes[i0].mtime = 0 /\ \A i \in 1..MaxInodes : inodes[i].mtime = 0 => i0 <= i
  BY <1>1
<1>3. \A k \in 1..i0 - 1 : inodes[k].mtime # 0
  <2> SUFFICES ASSUME NEW k \in 1..i0 - 1, inodes[k].mtime = 0 PROVE FALSE
    OBVIOUS
  <2>1. k \in 1..MaxInodes /\ ~ (i0 <= k)
    BY <1>2
  <2> QED BY <1>2, <2>1
<1>4. Free \in 1..MaxInodes /\ inodes[Free].mtime = 0
  BY <1>2, <1>3 DEF Free
<1> DEFINE new == [dir |-> dir, data |-> <<>>, mtime |-> now, writable |-> TRUE]
<1>5. new \in Inodes
  BY DEF FileSystem, Inodes
<1>6. fs' = [fs EXCEPT ![p] = Free] /\ inodes' = [inodes EXCEPT ![Free] = new]
  BY DEF Make
<1> HIDE DEF new
<1>7. fs \in [Paths -> 0..MaxInodes] /\ inodes \in [1..MaxInodes -> Inodes] /\ Free \in 0..MaxInodes
  BY <1>4 DEF FileSystem
<1>8. fs' \in [Paths -> 0..MaxInodes] /\ inodes' \in [1..MaxInodes -> Inodes] /\ (p \in Paths => fs'[p] = Free)
  BY <1>5, <1>6, <1>7
<1>9. Paths' = Paths
  BY <1>8 DEF Paths
<1>. QED
  BY <1>4, <1>8, <1>9 DEF FileSystem

LEMMA WriteTyped ==
  ASSUME NEW data \in Seq(Marks), NEW pos \in Nat, NEW marks \in Seq(Marks)
  PROVE  WriteAll(data, pos, marks) \in Seq(Marks)
<1> DEFINE n == Len(marks)
           d == Len(data)
           m == IF pos + n < d THEN d ELSE pos + n
           e(i) == IF i \in pos + 1..pos + n THEN marks[i - pos]
                   ELSE IF i <= d THEN data[i] ELSE Zero
<1>1. n \in Nat /\ d \in Nat
  OBVIOUS
<1>2. m \in Nat
  BY <1>1
<1>3. ASSUME NEW i \in 1..m PROVE e(i) \in Marks
  <2>1. CASE i \in pos + 1..pos + n
    <3>1. i - pos \in 1..n
      BY <1>1, <1>2, <2>1
    <3>2. marks[i - pos] \in Marks
      BY <3>1, ElementOfSeq
    <3> QED BY <2>1, <3>2
  <2>2. CASE ~ (i \in pos + 1..pos + n)
    <3>1. i <= d => data[i] \in Marks
      BY <1>1, <1>2, ElementOfSeq
    <3>2. Zero \in Marks
      BY DEF Marks
    <3> QED BY <2>2, <3>1, <3>2
  <2> QED BY <2>1, <2>2
<1>4. WriteAll(data, pos, marks) = [i \in 1..m |-> e(i)]
  BY DEF WriteAll
<1> HIDE DEF e, m
<1>. QED
  BY <1>2, <1>3, <1>4

\* PUT works on a path that fs knows, below document_root.
LEMMA Named0 ==
  ASSUME Shared, NEW j, Local(j),
         j.pc \in PutStages \cup DeleteStages \cup MkcolStages
  PROVE  /\ j.q \in clients.requests /\ ~ (j.pc \in {"idle", "send", "done"})
         /\ j.path = j.q.path /\ j.error = 0 /\ Authorized(j) /\ Becomes(j, j)
         /\ (j.path # <<>> => j.path \in Paths) /\ j.path \in Seq(STRING)
         /\ j.q.body \in Seq(Marks) /\ MaxInodes \in Nat /\ Len(j.q.body) \in Nat
         /\ (j.q.range # <<>> => j.q.range[1] \in Nat)
<1>1. j.q \in clients.requests /\ ~ (j.pc \in {"idle", "send", "done"})
      /\ j.path = j.q.path /\ j.error = 0 /\ Authorized(j)
  BY DEF Local, Begun, Working, PutStages, DeleteStages, MkcolStages, EarlyStages
<1>2. Asked(j.q) /\ MaxInodes \in Nat
  BY <1>1, WorldFacts DEF Shared
<1>3. j.q.range # <<>> => j.q.range[1] \in Nat
  <2> DEFINE rg == j.q.range
  <2>1. rg \in Seq(Nat)
    BY <1>2 DEF Asked
  <2> HIDE DEF rg
  <2>2. rg # <<>> => Len(rg) # 0 /\ Len(rg) \in Nat
    BY <2>1, EmptySeq
  <2>3. rg # <<>> => rg[1] \in Nat
    BY <2>1, <2>2, ElementOfSeq
  <2> QED BY <2>3 DEF rg
<1>. QED
  BY <1>1, <1>2, <1>3, BecomesItself DEF Asked

LEMMA PutLocal ==
  ASSUME Shared, NEW t \in Workers, Local(job[t]), Put(t)
  PROVE  Moves(t)
<1> DEFINE j == job[t]
<1>1. /\ j.pc = "PUT" /\ Quiet
      /\ \/ Step(t, StageOf(j, 201, "put_dir")) \/ Step(t, Reply(j, 200))
         \/ Step(t, send_http_error(j, 403)) \/ Step(t, StageOf(j, 200, "put_open"))
  BY DEF Put, StageOf
<1>2. /\ j.q \in clients.requests /\ j.path = j.q.path /\ j.error = 0 /\ Authorized(j)
      /\ j.q.method = "PUT" /\ ~j.changed /\ j.ino = 0 /\ j.unsaved = <<>>
  BY <1>1, Named0 DEF Local, Working, Begun, Clean, PutStages
<1>3. Local(Reply(j, 200)) /\ Local(send_http_error(j, 403))
  BY <1>1, <1>2, EndedByReply, Refused
<1>4. ASSUME NEW pc \in {"put_dir", "put_open"}, NEW s \in {200, 201}
      PROVE Local(StageOf(j, s, pc))
  <2> DEFINE k == StageOf(j, s, pc)
  <2>1. Full(k) /\ Work(k, j) /\ Choice(k, j) /\ Target(k, j) /\ k.sent = j.sent
        /\ k.error = j.error /\ k.status = s /\ k.pc = pc
    BY WithStage DEF Local, IsJob
  <2> HIDE DEF k
  <2>2. WorksFrom(k, j)
    BY <1>2, <2>1 DEF WorksFrom, Work, Local, IsJob, Typed
  <2>3. Local(k)
    BY <1>1, <1>2, <2>2, WorksOn
  <2> QED BY <2>3 DEF k
<1>. QED
  BY <1>1, <1>3, <1>4 DEF Moves

LEMMA PutDirLocal ==
  ASSUME Shared, NEW t \in Workers, Local(job[t]), PutDir(t)
  PROVE  Moves(t) \/ Touches(t)
<1> DEFINE j == job[t]
           p == SubSeq(j.path, 1, j.pos + 1)
           open == [j EXCEPT !.pc = "put_open", !.pos = 0]
           next == [j EXCEPT !.pos = @ + 1]
<1>1. /\ j.pc = "put_dir"
      /\ \/ Quiet /\ (Step(t, Reply(j, 201)) \/ Step(t, open) \/ Step(t, next) \/ Step(t, send_http_error(j, 500)))
         \/ Room /\ Make(p, TRUE) /\ Touch(t, next, {p}, FALSE) /\ UNCHANGED <<config, handlers, now, copies, clients>>
  BY DEF PutDir
<1>2. /\ j.q \in clients.requests /\ j.path = j.q.path /\ j.error = 0 /\ Authorized(j) 
      /\ j.q.method = "PUT" /\ j.ino = 0 /\ j.unsaved = <<>> /\ MaxInodes \in Nat
  BY <1>1, Named0 DEF Local, Working, PutStages
<1>3. Local(Reply(j, 201)) /\ Local(send_http_error(j, 500))
  BY <1>1, <1>2, EndedByReply, Refused
<1>4. ASSUME NEW k, k = open \/ k = next
      PROVE  Local(k) /\ k.pc \in {"put_dir", "put_open"} /\ k.error = 0 /\ Authorized(k) /\ k.q = j.q
  <2>1. Full(k)
    BY <1>4 DEF Local, IsJob, Full, Fields
  <2>2. /\ k.q = j.q /\ k.ino = j.ino /\ k.left = j.left /\ k.seen = j.seen
        /\ k.ok = j.ok /\ k.announced = j.announced /\ k.changed = j.changed
        /\ k.disturbed = j.disturbed /\ k.whole = j.whole /\ k.date = j.date /\ k.unsaved = j.unsaved
    BY ZenonT(40), <1>4 DEF Local, IsJob, Full, Fields
  <2>3. Choice(k, j) /\ Target(k, j) /\ Verdict(k, j)
    BY ZenonT(40), <1>4 DEF Local, IsJob, Full, Fields, Choice, Target, Verdict
  <2>4. k.sent = j.sent /\ (k.pos = 0 \/ k.pos = j.pos + 1) /\ k.pc \in {"put_dir", "put_open"}
    BY <1>1, <1>4 DEF Local, IsJob, Full, Fields
  <2> HIDE DEF open, next
  <2>5. k.pos \in Nat
    BY <2>4 DEF Local, IsJob, Typed
  <2>6. k.status # 304
    BY <1>1, <2>3 DEF Verdict, Local, Answered
  <2>8. WorksFrom(k, j)
    BY <1>1, <1>2, <2>1, <2>2, <2>3, <2>4, <2>5, <2>6 DEF WorksFrom, Verdict, Local, IsJob, Typed
  <2>7. Local(k)
    BY <1>1, <1>2, <2>8, WorksOn
  <2> QED BY <1>2, <2>2, <2>3, <2>4, <2>7 DEF Authorized, Verdict
<1>5. ASSUME Room, Make(p, TRUE), Touch(t, next, {p}, FALSE), UNCHANGED <<config, handlers, now, copies, clients>>
      PROVE  Touches(t)
  <2>1. FileSystem'
    BY <1>2, <1>5, MakeTyped DEF Shared
  <2>2. Local([next EXCEPT !.changed = TRUE])
    <3>1. Local(next) /\ next.pc \in {"put_dir", "put_open"} /\ next.error = 0 /\ Authorized(next) /\ next.q = j.q
      BY <1>4
    <3> HIDE DEF next
    <3> QED BY <1>2, <3>1, Changing
  <2> HIDE DEF next, p
  <2> QED BY <1>5, <2>1, <2>2 DEF Touches
<1>. QED
  <2> HIDE DEF p
  <2> QED BY ZenonT(40), <1>1, <1>3, <1>4, <1>5 DEF Moves

LEMMA ErrorFields ==
  ASSUME NEW j, Full(j), j.error = 0, NEW s
  PROVE  /\ send_http_error(j, s).error = s
         /\ send_http_error(j, s).pc \in {"static", "ssi", "cgi", "done"}
         /\ Full(send_http_error(j, s)) /\ Work(send_http_error(j, s), j)
<1> DEFINE k == send_http_error(j, s)
<1>1. CASE s \in DOMAIN config.pages /\ Exists(config.pages[s])
  <2> DEFINE p == config.pages[s]
  <2>1. k = PageOf(j, s, p, mg_stat(p), Kind(p))
    BY <1>1 DEF send_http_error, PageOf
  <2> HIDE DEF k, p
  <2> QED BY <2>1, WithPage, KindOf DEF k
<1>2. CASE ~ (s \in DOMAIN config.pages /\ Exists(config.pages[s]))
  <2>1. k = NoPageOf(j, s, s)
    BY <1>2 DEF send_http_error, NoPageOf, Reply, Full, Fields
  <2> HIDE DEF k
  <2> QED BY <2>1, WithoutPage DEF k
<1>. QED
  BY <1>1, <1>2

ForwardOf(j, i) == [Forward(j) EXCEPT !.ino = i]

LEMMA Forwarded ==
  ASSUME Shared, NEW j, Local(j), j.pc = "put_open", NEW i \in 1..MaxInodes,
         NEW o, o = ForwardOf(j, i)
  PROVE  /\ Local(o) /\ Authorized(o) /\ o.q = j.q /\ o.ino = i
         /\ \/ o.error \in {411, 417} /\ o.pc \in {"static", "ssi", "cgi", "done"}
            \/ /\ o.error = 0 /\ o.pc = "put_write" /\ Target(o, j)
               /\ o.pos = IF j.q.range = <<>> THEN 0 ELSE j.q.range[1]
               /\ o.left = IF j.q.length = "given" THEN Len(j.q.body) ELSE 0
               /\ o.unsaved = <<>>
<1> DEFINE k == Forward(j)
<1>1. o = [k EXCEPT !.ino = i]
  BY DEF ForwardOf
<1>6. i \in 0..MaxInodes /\ i # 0 /\ Typed(j)
  BY WorldsAssumption DEF Local, IsJob
<1>2. /\ j.q \in clients.requests /\ j.path = j.q.path /\ j.error = 0 /\ Authorized(j) /\ Full(j)
      /\ j.q.method = "PUT" /\ j.ino = 0 /\ j.unsaved = <<>> /\ MaxInodes \in Nat
      /\ Len(j.q.body) \in Nat
      /\ (j.q.range # <<>> => j.q.range[1] \in Nat)
  BY Named0 DEF Local, Working, PutStages, IsJob
<1>3. ASSUME NEW s \in {411, 417}, k = send_http_error(j, s)
      PROVE  /\ Local(o) /\ Authorized(o) /\ o.q = j.q /\ o.error = s /\ o.ino = i
             /\ o.pc \in {"static", "ssi", "cgi", "done"}
  <2> HIDE DEF k
  <2>1. Local(k)
    BY <1>2, <1>3, Refused
  <2>2. k.q = j.q /\ k.error = s /\ k.pc \in {"static", "ssi", "cgi", "done"}
    BY <1>2, <1>3, ErrorFields DEF Work
  <2>3. Full(o)
    BY <1>1, <2>1 DEF Local, IsJob, Full, Fields
  <2>4. Choice(o, k) /\ Target(o, k) /\ Verdict(o, k) /\ o.ino = i /\ o.pc = k.pc /\ o.sent = k.sent
    BY <1>1, <2>1 DEF Local, IsJob, Full, Fields, Choice, Target, Verdict
  <2>5. /\ o.q = k.q /\ o.pos = k.pos /\ o.left = k.left /\ o.seen = k.seen
        /\ o.ok = k.ok /\ o.announced = k.announced /\ o.changed = k.changed
        /\ o.disturbed = k.disturbed /\ o.whole = k.whole /\ o.date = k.date /\ o.unsaved = k.unsaved
    BY <1>1, <2>1 DEF Local, IsJob, Full, Fields
  <2>6. Typed(o)
    BY <1>6, <2>1, <2>4, <2>5 DEF Local, IsJob, Typed, Choice, Target, Verdict
  <2>7. Authorized(o) /\ (Authorized(o) <=> Authorized(k))
    BY <1>2, <2>2, <2>5 DEF Authorized
  <2>8. Local(o)
    BY <1>2, <2>1, <2>2, <2>3, <2>4, <2>5, <2>6, <2>7 DEF EarlyStages, PutStages, DeleteStages, MkcolStages, Clean, Local,
      IsJob, Choice, Target, Verdict, Begun, Working, Changed, Answered, Chosen, Opened, Holds
  <2> QED BY <2>2, <2>4, <2>5, <2>7, <2>8 DEF Verdict
<1> DEFINE status == IF j.q.expect = "continue" THEN 100 ELSE 200
           pos == IF j.q.range = <<>> THEN 0 ELSE j.q.range[1]
           left == IF j.q.length = "given" THEN Len(j.q.body) ELSE 0
<1>4. ASSUME k = [j EXCEPT !.status = status, !.pos = pos, !.left = left, !.pc = "put_write"]
      PROVE  /\ Local(o) /\ Authorized(o) /\ o.q = j.q /\ o.error = 0 /\ o.pc = "put_write" /\ o.ino = i
             /\ Target(o, j) /\ o.pos = pos /\ o.left = left /\ o.unsaved = <<>>
  <2>1. status \in {100, 200} /\ pos \in Nat /\ left \in Int /\ left \in 0..Len(j.q.body)
    BY <1>2
  <2> HIDE DEF status, pos, left
  <2>2. o = [j EXCEPT !.status = status, !.pos = pos, !.left = left, !.pc = "put_write", !.ino = i]
    BY <1>1, <1>2, <1>4 DEF Full, Fields
  <2> HIDE DEF k
  <2>3. Full(o)
    BY <1>2, <2>2 DEF Full, Fields
  <2>4. Choice(o, j) /\ Target(o, j) /\ o.error = j.error /\ o.status = status /\ o.ino = i
        /\ o.pc = "put_write" /\ o.sent = j.sent /\ o.pos = pos /\ o.left = left
    <3>1. Choice(o, j)
      BY ZenonT(40), <1>2, <2>2 DEF Full, Fields, Choice
    <3>2. Target(o, j) /\ o.error = j.error /\ o.sent = j.sent
      BY ZenonT(40), <1>2, <2>2 DEF Full, Fields, Target
    <3>3. o.status = status /\ o.ino = i /\ o.pc = "put_write" /\ o.pos = pos /\ o.left = left
      BY <1>2, <2>2 DEF Full, Fields
    <3> QED BY <3>1, <3>2, <3>3
  <2>5. /\ o.q = j.q /\ o.seen = j.seen
        /\ o.ok = j.ok /\ o.announced = j.announced /\ o.changed = j.changed
        /\ o.disturbed = j.disturbed /\ o.whole = j.whole /\ o.date = j.date /\ o.unsaved = j.unsaved
    BY <1>2, <2>2 DEF Full, Fields
  <2>6. WorksFrom(o, j)
    <3>1. o.ino \in 0..MaxInodes /\ o.ino # 0 /\ o.status \in Int /\ o.status # 201 /\ o.status # 304
      BY <1>6, <2>1, <2>4
    <3>2. o.unsaved \in Seq(Marks)
      BY <1>6, <2>5 DEF Typed
    <3> QED BY <1>2, <2>1, <2>3, <2>4, <2>5, <3>1, <3>2 DEF WorksFrom
  <2>7. Authorized(o)
    BY <1>2, <2>5 DEF Authorized
  <2>8. Local(o)
    BY <1>2, <2>6, WorksOn
  <2> QED BY <1>2, <2>4, <2>5, <2>7, <2>8
<1>5. \/ k = send_http_error(j, 411) \/ k = send_http_error(j, 417)
      \/ k = [j EXCEPT !.status = status, !.pos = pos, !.left = left, !.pc = "put_write"]
  BY DEF Forward
<1> HIDE DEF k
<1>. QED
  BY <1>3, <1>4, <1>5

LEMMA PutOpenLocal ==
  ASSUME Shared, NEW t \in Workers, Local(job[t]), PutOpen(t)
  PROVE  Moves(t) \/ Touches(t)
<1> DEFINE j == job[t]
           k == Forward(j)
           i == fs'[j.path]
           old == [inodes EXCEPT ![fs[j.path]].data = <<>>, ![fs[j.path]].mtime = now]
<1>1. /\ j.pc = "put_open"
      /\ \/ Quiet /\ Step(t, send_http_error(j, 500))
         \/ /\ ~IsDir(j.path) /\ Touch(t, [k EXCEPT !.ino = i], {j.path}, FALSE)
            /\ \/ Exists(j.path) /\ inodes' = old /\ UNCHANGED fs
               \/ Room /\ Make(j.path, FALSE)
            /\ UNCHANGED <<config, handlers, now, copies, clients>>
  BY DEF PutOpen
<1>2. /\ j.q \in clients.requests /\ j.path = j.q.path /\ j.error = 0 /\ Authorized(j) 
      /\ j.q.method = "PUT" /\ j.ino = 0 /\ j.unsaved = <<>> /\ MaxInodes \in Nat
      /\ (j.path # <<>> => j.path \in Paths) /\ Len(j.q.body) \in Nat
      /\ (j.q.range # <<>> => j.q.range[1] \in Nat)
  BY <1>1, Named0 DEF Local, Working, PutStages
<1>3. Local(send_http_error(j, 500))
  <2> HIDE DEF k, i, old
  <2> QED BY <1>1, <1>2, Refused
<1>4. ASSUME ~IsDir(j.path), Touch(t, [k EXCEPT !.ino = i], {j.path}, FALSE),
             \/ Exists(j.path) /\ inodes' = old /\ UNCHANGED fs
             \/ Room /\ Make(j.path, FALSE),
             UNCHANGED <<config, handlers, now, copies, clients>>
      PROVE  Touches(t)
  <2>1. j.path \in Paths
    BY Zenon, <1>2, <1>4 DEF IsDir
  <2>2. FileSystem' /\ i \in 1..MaxInodes
    <3>1. CASE Room /\ Make(j.path, FALSE)
      BY Zenon, <1>2, <1>4, <2>1, <3>1, MakeTyped DEF Shared
    <3>2. CASE Exists(j.path) /\ inodes' = old /\ UNCHANGED fs
      <4> DEFINE n == fs[j.path]
      <4>0. fs \in [Paths -> 0..MaxInodes] /\ inodes \in [1..MaxInodes -> Inodes] /\ now \in Nat
        BY DEF Shared, FileSystem
      <4>6. n \in 0..MaxInodes /\ n # 0
        BY <2>1, <3>2, <4>0 DEF Exists
      <4>1. n \in 1..MaxInodes /\ inodes \in [1..MaxInodes -> Inodes] /\ now \in Nat
        BY <1>2, <4>0, <4>6
      <4>2. [inodes[n] EXCEPT !.data = <<>>, !.mtime = now] \in Inodes
        <5> HIDE DEF n
        <5>1. inodes[n] \in Inodes /\ <<>> \in Seq(Marks)
          BY SMTT(30), <4>1
        <5> QED BY Zenon, <4>1, <5>1, Rewritten
      <4>3. old = [inodes EXCEPT ![n] = [inodes[n] EXCEPT !.data = <<>>, !.mtime = now]]
        BY Zenon, <4>1
      <4>4. old \in [1..MaxInodes -> Inodes]
        BY Zenon, <4>1, <4>2, <4>3
      <4>5. Paths' = Paths /\ i = n
        BY <3>2 DEF Paths
      <4> HIDE DEF old, n
      <4> QED BY <1>4, <3>2, <4>1, <4>4, <4>5 DEF Shared, FileSystem
    <3> QED BY Zenon, <1>4, <3>1, <3>2
  <2> DEFINE o == [k EXCEPT !.ino = i]
  <2>3. /\ Local(o) /\ Authorized(o) /\ o.q = j.q /\ o.error \in {0, 411, 417}
        /\ o.pc \in {"put_write", "static", "ssi", "cgi", "done"}
        /\ (o.pc \in {"static", "ssi", "cgi"} => o.error # 0)
    <3>1. o = ForwardOf(j, i)
      BY DEF ForwardOf
    <3> HIDE DEF o, i
    <3> QED BY <1>1, <2>2, <3>1, Forwarded
  <2>4. Local([o EXCEPT !.changed = TRUE])
    <3> HIDE DEF o
    <3> QED BY <1>2, <2>3, Changing
  <2> HIDE DEF k, i
  <2> QED BY Zenon, <1>4, <2>2, <2>4 DEF Touches
<1>. QED
  <2> HIDE DEF k, i, old
  <2> QED BY <1>1, <1>3, <1>4 DEF Moves

-----------------------------------------------------------------------------
\* What is written reaches the file.
FlushOf(j) == [j EXCEPT !.pos = j.pos + Len(j.unsaved), !.unsaved = <<>>]

LEMMA WithFlush ==
  ASSUME NEW j, Full(j), NEW k, k = FlushOf(j)
  PROVE  /\ Full(k) /\ Choice(k, j) /\ Target(k, j) /\ Verdict(k, j) /\ k.pc = j.pc /\ k.sent = j.sent
         /\ k.q = j.q /\ k.ino = j.ino /\ k.left = j.left /\ k.seen = j.seen
         /\ k.ok = j.ok /\ k.announced = j.announced /\ k.changed = j.changed
         /\ k.disturbed = j.disturbed /\ k.whole = j.whole /\ k.date = j.date
         /\ k.pos = j.pos + Len(j.unsaved) /\ k.unsaved = <<>>
<1>1. Full(k)
  BY DEF FlushOf, Full, Fields
<1>2. Choice(k, j) /\ Target(k, j) /\ Verdict(k, j) /\ k.pc = j.pc /\ k.sent = j.sent
  BY DEF FlushOf, Full, Fields, Choice, Target, Verdict
<1>3. /\ k.q = j.q /\ k.ino = j.ino /\ k.left = j.left /\ k.seen = j.seen
      /\ k.ok = j.ok /\ k.announced = j.announced /\ k.changed = j.changed
      /\ k.disturbed = j.disturbed /\ k.whole = j.whole /\ k.date = j.date
      /\ k.pos = j.pos + Len(j.unsaved) /\ k.unsaved = <<>>
  BY DEF FlushOf, Full, Fields
<1>. QED
  BY <1>1, <1>2, <1>3

\* How the inodes change then.
RewriteOf(x, d, n) == [x EXCEPT !.data = d, !.mtime = n]

LEMMA FlushedInodes ==
  ASSUME FileSystem, MaxInodes \in Nat, NEW j, Local(j), j.ino # 0,
         inodes' = [inodes EXCEPT ![j.ino].data = WriteAll(@, j.pos, j.unsaved), ![j.ino].mtime = now]
  PROVE  /\ j.ino \in 1..MaxInodes /\ inodes' \in [1..MaxInodes -> Inodes]
         /\ inodes'[j.ino].data = WriteAll(inodes[j.ino].data, j.pos, j.unsaved)
         /\ inodes'[j.ino].mtime = now /\ inodes'[j.ino].dir = inodes[j.ino].dir
         /\ \A i \in 1..MaxInodes : i # j.ino => inodes'[i] = inodes[i]
<1> DEFINE i == j.ino
           d == WriteAll(inodes[i].data, j.pos, j.unsaved)
           x == RewriteOf(inodes[i], d, now)
<1>1. i \in 1..MaxInodes /\ inodes \in [1..MaxInodes -> Inodes] /\ now \in Nat /\ j.pos \in Nat
      /\ j.unsaved \in Seq(Marks)
  BY DEF Local, IsJob, Typed, FileSystem
<1>2. inodes[i] \in Inodes /\ inodes[i].data \in Seq(Marks)
  BY <1>1 DEF Inodes
<1>3. d \in Seq(Marks)
  BY <1>1, <1>2, WriteTyped
<1>4. inodes' = [inodes EXCEPT ![i] = x]
  BY <1>1 DEF RewriteOf
<1> HIDE DEF d
<1>5. x \in Inodes /\ x.data = d /\ x.mtime = now /\ x.dir = inodes[i].dir
  <2> DEFINE y == inodes[i]
  <2>1. y \in Inodes
    BY <1>2
  <2> HIDE DEF y, i
  <2> QED BY <1>1, <1>3, <2>1 DEF RewriteOf, Inodes
<1> HIDE DEF x, i
<1>6. /\ inodes' \in [1..MaxInodes -> Inodes] /\ inodes'[i] = x
      /\ \A n \in 1..MaxInodes : n # i => inodes'[n] = inodes[n]
  BY <1>1, <1>4, <1>5
<1>. QED
  BY <1>1, <1>5, <1>6 DEF i, d

\* The answer that comes with it may be any.
Writes(j) ==
  /\ Local(j) /\ Authorized(j) /\ j.q.method = "PUT" /\ j.ino # 0 /\ j.error \in {0, 204, 411, 417, 500}
  /\ j.pc \in {"put_write", "static", "ssi", "cgi", "done"}
  /\ j.pc \in {"static", "ssi", "cgi"} => j.error # 0

LEMMA FlushLocal ==
  ASSUME Shared, NEW t \in Workers, NEW j, Writes(j), Flush(t, j)
  PROVE  Touches(t)
<1> DEFINE k == FlushOf(j)
           m == [j EXCEPT !.pos = @ + Len(j.unsaved), !.unsaved = <<>>]
<1>0. Local(j) /\ Full(j) /\ MaxInodes \in Nat /\ FileSystem /\ j.ino # 0 /\ j.pos \in Nat
      /\ Len(j.unsaved) \in Nat
  BY WorldFacts DEF Writes, Local, IsJob, Shared, Typed
<1>1. m = k
  BY <1>0 DEF FlushOf, Full, Fields
<1>2. Touch(t, m, {job[t].path}, FALSE) /\ UNCHANGED <<config, handlers, fs, now, copies, clients>>
      /\ inodes' = [inodes EXCEPT ![j.ino].data = WriteAll(@, j.pos, j.unsaved), ![j.ino].mtime = now]
  BY DEF Flush
<1> HIDE DEF m
<1>3. FileSystem'
  <2>1. inodes' \in [1..MaxInodes -> Inodes]
    BY <1>0, <1>2, FlushedInodes
  <2> QED BY SMTT(30), <1>0, <1>2, <2>1 DEF FileSystem, Paths
<1>4. /\ Full(k) /\ Choice(k, j) /\ Target(k, j) /\ Verdict(k, j) /\ k.pc = j.pc /\ k.sent = j.sent
      /\ k.q = j.q /\ k.ino = j.ino /\ k.left = j.left /\ k.seen = j.seen
      /\ k.ok = j.ok /\ k.announced = j.announced /\ k.changed = j.changed
      /\ k.disturbed = j.disturbed /\ k.whole = j.whole /\ k.date = j.date
      /\ k.pos = j.pos + Len(j.unsaved) /\ k.unsaved = <<>>
  BY <1>0, WithFlush
<1> HIDE DEF k
<1>5. k.pos \in Nat /\ k.unsaved \in Seq(Marks)
  BY <1>0, <1>4
<1>6. Typed(k)
  BY <1>0, <1>4, <1>5 DEF Typed, Choice, Target, Verdict, Local, IsJob
<1>7. Authorized(k)
  BY <1>4 DEF Authorized, Writes
<1>8. Local(k)
  BY <1>4, <1>6, <1>7 DEF Writes, EarlyStages, PutStages, DeleteStages, MkcolStages, Clean, Local,
      IsJob, Choice, Target, Verdict, Begun, Working, Changed, Answered, Chosen, Opened, Holds
<1>9. Local([k EXCEPT !.changed = TRUE])
  BY <1>4, <1>7, <1>8, Changing DEF Writes, Verdict
<1>. QED
  BY <1>1, <1>2, <1>3, <1>9 DEF Touches

\* An error that is answered while a PUT, a DELETE or a MKCOL works.
LEMMA ErrorWhileWorking ==
  ASSUME Shared, NEW j, Local(j), j.pc \in PutStages \cup DeleteStages \cup MkcolStages,
         NEW s \in {204, 304, 401, 403, 404, 405, 409, 411, 415, 417, 423, 500, 503},
         j.changed => s \in {204, 411, 417, 500}, s = 204 => j.q.method = "DELETE",
         NEW e, e = send_http_error(j, s)
  PROVE  /\ Local(e) /\ Authorized(e) /\ Work(e, j) /\ e.error = s /\ e.pc \in {"static", "ssi", "cgi", "done"}
<1>1. j.q \in clients.requests /\ j.error = 0 /\ Authorized(j) /\ Full(j) /\ j.pc \notin {"send", "done"}
  BY Named0 DEF Local, IsJob
<1>2. Local(e) /\ Work(e, j) /\ e.error = s /\ e.pc \in {"static", "ssi", "cgi", "done"}
  BY <1>1, Refused, ErrorFields
<1>. QED
  BY <1>1, <1>2 DEF Authorized, Work

\* One mark more is waiting to be written.
Mark(j) == j.q.body[Len(j.q.body) - j.left + 1]
WroteOf(j) == [j EXCEPT !.unsaved = Append(j.unsaved, Mark(j)), !.left = j.left - 1]

LEMMA WithMark ==
  ASSUME NEW j, Full(j), NEW k, k = WroteOf(j)
  PROVE  /\ Full(k) /\ Choice(k, j) /\ Target(k, j) /\ Verdict(k, j) /\ k.sent = j.sent
         /\ k.pc = j.pc /\ k.q = j.q /\ k.ino = j.ino /\ k.seen = j.seen /\ k.pos = j.pos
         /\ k.ok = j.ok /\ k.announced = j.announced /\ k.changed = j.changed
         /\ k.disturbed = j.disturbed /\ k.whole = j.whole /\ k.date = j.date
         /\ k.left = j.left - 1 /\ k.unsaved = Append(j.unsaved, Mark(j))
<1>1. Full(k) /\ Choice(k, j) /\ Target(k, j) /\ Verdict(k, j) /\ k.sent = j.sent
  BY DEF WroteOf, Full, Fields, Choice, Target, Verdict
<1>2. /\ k.pc = j.pc /\ k.q = j.q /\ k.ino = j.ino /\ k.seen = j.seen /\ k.pos = j.pos
      /\ k.ok = j.ok /\ k.announced = j.announced /\ k.changed = j.changed
      /\ k.disturbed = j.disturbed /\ k.whole = j.whole /\ k.date = j.date
      /\ k.left = j.left - 1 /\ k.unsaved = Append(j.unsaved, Mark(j))
  BY DEF WroteOf, Full, Fields
<1>. QED
  BY <1>1, <1>2

\* The next n marks of the body came with the head and could not be written.
MissedOf(j, n) == [j EXCEPT !.ok = FALSE, !.left = @ - n]
Unchanged(k, j) ==
  /\ k.pc = j.pc /\ k.q = j.q /\ k.ino = j.ino /\ k.pos = j.pos /\ k.seen = j.seen
  /\ k.announced = j.announced /\ k.changed = j.changed /\ k.unsaved = j.unsaved
  /\ k.disturbed = j.disturbed /\ k.whole = j.whole /\ k.date = j.date

LEMMA Missing ==
  ASSUME NEW j, Full(j), NEW n, NEW k, k = MissedOf(j, n)
  PROVE  /\ Full(k) /\ k.left = j.left - n /\ Choice(k, j) /\ Verdict(k, j) /\ Target(k, j)
         /\ k.sent = j.sent /\ k.ok = FALSE /\ Unchanged(k, j)
<1>1. Full(k)
  BY DEF MissedOf, Full, Fields
<1>2. k.left = j.left - n /\ k.ok = FALSE /\ k.sent = j.sent
  BY DEF MissedOf, Full, Fields
<1>3. Choice(k, j) /\ Verdict(k, j) /\ Target(k, j)
  BY DEF MissedOf, Full, Fields, Choice, Verdict, Target
<1>4. Unchanged(k, j)
  BY DEF MissedOf, Full, Fields, Unchanged
<1>. QED
  BY <1>1, <1>2, <1>3, <1>4

LEMMA WroteWrites ==
  ASSUME Shared, NEW j, Local(j), j.pc = "put_write", j.left > 0, NEW k, k = WroteOf(j)
  PROVE  Writes(k)
<1>1. /\ j.q \in clients.requests /\ j.path = j.q.path /\ j.error = 0 /\ Authorized(j)
      /\ j.q.method = "PUT" /\ j.ino # 0 /\ j.left \in 0..Len(j.q.body) /\ Len(j.q.body) \in Nat
      /\ j.q.body \in Seq(Marks) /\ Typed(j) /\ Full(j) /\ j.status # 304
  BY Named0 DEF Local, Working, PutStages, Opened, Holds, IsJob, Answered
<1>2. Mark(j) \in Marks
  <2> DEFINE n == Len(j.q.body)
             l == j.left
  <2>1. n \in Nat /\ l \in 0..n /\ l > 0
    BY <1>1
  <2>2. n - l + 1 \in 1..n
    <3> HIDE DEF n, l
    <3> QED BY <2>1
  <2> QED BY <1>1, <2>2, ElementOfSeq DEF Mark
<1>3. Append(j.unsaved, Mark(j)) \in Seq(Marks)
  BY <1>1, <1>2, AppendProperties DEF Typed
<1>4. /\ Full(k) /\ Choice(k, j) /\ Target(k, j) /\ Verdict(k, j) /\ k.sent = j.sent
      /\ k.pc = j.pc /\ k.q = j.q /\ k.ino = j.ino /\ k.seen = j.seen /\ k.pos = j.pos
      /\ k.ok = j.ok /\ k.announced = j.announced /\ k.changed = j.changed
      /\ k.disturbed = j.disturbed /\ k.whole = j.whole /\ k.date = j.date
      /\ k.left = j.left - 1 /\ k.unsaved = Append(j.unsaved, Mark(j))
  BY <1>1, WithMark
<1>5. k.left \in 0..Len(k.q.body) /\ k.left \in Int
  BY <1>1, <1>4
<1>6. WorksFrom(k, j)
  BY <1>1, <1>3, <1>4, <1>5 DEF WorksFrom, Typed, Verdict
<1>7. Local(k)
  BY <1>1, <1>6, WorksOn
<1>. QED
  BY <1>1, <1>4, <1>7 DEF Writes, Authorized, Verdict

LEMMA DoneWrites ==
  ASSUME Shared, NEW j, Local(j), j.pc = "put_close", NEW k, k = [j EXCEPT !.pc = "done"]
  PROVE  Writes(k) /\ Full(k) /\ k.pc = "done" /\ Work(k, j) /\ Choice(k, j) /\ Verdict(k, j)
         /\ Target(k, j) /\ k.sent = j.sent
<1>1. /\ j.q \in clients.requests /\ j.path = j.q.path /\ j.error = 0 /\ Authorized(j)
      /\ j.q.method = "PUT" /\ j.ino # 0 /\ Typed(j) /\ Full(j) /\ j.status # 304
  BY Named0 DEF Local, Working, PutStages, Opened, Holds, IsJob, Answered
<1>2. /\ Full(k) /\ k.pc = "done" /\ Work(k, j) /\ Choice(k, j) /\ Verdict(k, j)
      /\ Target(k, j) /\ k.sent = j.sent
  BY <1>1, Going
<1>3. WorksFrom(k, j)
  BY <1>1, <1>2 DEF WorksFrom, Typed, Verdict, Work
<1>4. Local(k)
  BY <1>1, <1>3, WorksOn
<1>. QED
  BY <1>1, <1>2, <1>4 DEF Writes, Authorized, Work, Verdict

LEMMA PutWriteLocal ==
  ASSUME Shared, NEW t \in Workers, Local(job[t]), PutWrite(t)
  PROVE  Moves(t) \/ Touches(t)
<1> DEFINE j == job[t]
           mark == j.q.body[Len(j.q.body) - j.left + 1]
           k == [j EXCEPT !.unsaved = Append(@, mark), !.left = @ - 1]
           e == send_http_error(j, 500)
           close == [j EXCEPT !.pc = "put_close"]
<1>1. /\ j.pc = "put_write"
      /\ \/ j.left > 0 /\ (Flush(t, k) \/ Flush(t, e) \/ (Step(t, k) /\ Quiet) \/ (Step(t, e) /\ Quiet))
         \/ \E n \in 1..j.left : Step(t, MissedOf(j, n)) /\ Quiet
         \/ j.left = 0 /\ Step(t, close) /\ Quiet
         \/ Step(t, e) /\ Quiet
  BY DEF PutWrite, MissedOf
<1>2. /\ j.q \in clients.requests /\ j.path = j.q.path /\ j.error = 0 /\ Authorized(j)
      /\ j.q.method = "PUT" /\ j.ino # 0 /\ j.left \in 0..Len(j.q.body) /\ Len(j.q.body) \in Nat
      /\ j.q.body \in Seq(Marks) /\ Typed(j) /\ Full(j)
  BY <1>1, Named0 DEF Local, Working, PutStages, Opened, Holds, IsJob
<1>3. Writes(e)
  <2>1. /\ Local(e) /\ Authorized(e) /\ Work(e, j) /\ e.error = 500 /\ e.pc \in {"static", "ssi", "cgi", "done"}
    <3> HIDE DEF e
    <3> QED BY <1>1, ErrorWhileWorking DEF PutStages, e
  <2> HIDE DEF e
  <2> QED BY <1>2, <2>1 DEF Writes, Work
<1>4. ASSUME j.left > 0 PROVE Writes(k)
  <2>1. k = WroteOf(j)
    BY <1>2 DEF WroteOf, Mark, Full, Fields
  <2> HIDE DEF k
  <2> QED BY <1>1, <1>4, <2>1, WroteWrites
<1>5. Local(close)
  <2> HIDE DEF mark, k, e
  <2>0. Full(j) /\ close = [j EXCEPT !.pc = "put_close"]
    BY <1>2
  <2> HIDE DEF close, j
  <2>1. /\ Full(close) /\ close.pc = "put_close" /\ Work(close, j) /\ Choice(close, j) /\ Verdict(close, j)
        /\ Target(close, j) /\ close.sent = j.sent
    BY <2>0, Going
  <2> USE DEF j
  <2>2. j.status # 304
    BY <1>1 DEF Local, Answered
  <2>3. WorksFrom(close, j)
    BY <1>2, <2>1, <2>2 DEF WorksFrom, Typed, Verdict, Work
  <2> QED BY <1>1, <1>2, <2>3, WorksOn
<1>7. ASSUME NEW n \in 1..j.left PROVE Local(MissedOf(j, n))
  <2> HIDE DEF mark, k, e, close
  <2>0. PICK missed : missed = MissedOf(j, n)
    OBVIOUS
  <2>1. /\ Full(missed) /\ missed.left = j.left - n /\ Unchanged(missed, j) /\ Choice(missed, j)
        /\ Verdict(missed, j) /\ Target(missed, j) /\ missed.sent = j.sent
    <3>1. Full(j)
      BY <1>2
    <3> HIDE DEF j
    <3> QED BY <2>0, <3>1, Missing
  <2>2. j.status # 304
    BY <1>1 DEF Local, Answered
  <2>3. missed.left \in 0..Len(missed.q.body) /\ missed.left \in Int
    BY <1>2, <2>1 DEF Unchanged
  <2>4. WorksFrom(missed, j)
    BY <1>1, <1>2, <2>1, <2>2, <2>3 DEF WorksFrom, Typed, Verdict, Unchanged
  <2>5. Local(missed)
    BY <1>1, <1>2, <2>4, WorksOn
  <2> QED BY <2>0, <2>5
<1> HIDE DEF k, e, close
<1>6. CASE j.left > 0 /\ (Flush(t, k) \/ Flush(t, e))
  BY <1>3, <1>4, <1>6, FlushLocal
<1>. QED
  BY <1>1, <1>3, <1>4, <1>5, <1>6, <1>7 DEF Moves, Writes

LEMMA PutCloseLocal ==
  ASSUME Shared, NEW t \in Workers, Local(job[t]), PutClose(t)
  PROVE  Moves(t) \/ Touches(t)
<1> DEFINE j == job[t]
           k == [j EXCEPT !.pc = "done"]
           lost == [k EXCEPT !.ok = FALSE]
<1>1. j.pc = "put_close" /\ (Flush(t, k) \/ (Step(t, k) /\ Quiet) \/ (Step(t, lost) /\ Quiet))
  BY DEF PutClose
<1>2. /\ j.q \in clients.requests /\ j.path = j.q.path /\ j.error = 0 /\ Authorized(j)
      /\ j.q.method = "PUT" /\ j.ino # 0 /\ Typed(j) /\ Full(j) /\ j.status # 304
  BY <1>1, Named0 DEF Local, Working, PutStages, Opened, Holds, IsJob, Answered
<1>3. /\ Writes(k) /\ Full(k) /\ k.pc = "done" /\ Work(k, j) /\ Choice(k, j) /\ Verdict(k, j)
      /\ Target(k, j) /\ k.sent = j.sent
  BY <1>1, DoneWrites
<1>4. Local(lost)
  <2> HIDE DEF k
  <2>1. Full(lost) /\ Choice(lost, k) /\ Target(lost, k) /\ Verdict(lost, k) /\ lost.sent = k.sent
    BY <1>3 DEF Full, Fields, Choice, Target, Verdict
  <2>2. /\ lost.q = k.q /\ lost.ino = k.ino /\ lost.pos = k.pos /\ lost.left = k.left /\ lost.pc = k.pc
        /\ lost.announced = k.announced /\ lost.changed = k.changed
        /\ lost.disturbed = k.disturbed /\ lost.whole = k.whole /\ lost.date = k.date /\ lost.unsaved = k.unsaved
    BY <1>3 DEF Full, Fields
  <2> HIDE DEF lost
  <2>3. WorksFrom(lost, j)
    BY <1>2, <1>3, <2>1, <2>2 DEF WorksFrom, Typed, Verdict, Work, Choice, Target
  <2> QED BY <1>1, <1>2, <2>3, WorksOn
<1> HIDE DEF k, lost
<1>5. CASE Flush(t, k)
  BY <1>3, <1>5, FlushLocal
<1>. QED
  BY <1>1, <1>3, <1>4, <1>5 DEF Moves, Writes

LEMMA DeleteLocal ==
  ASSUME Shared, NEW t \in Workers, Local(job[t]), Delete(t) \/ Mkcol(t)
  PROVE  Moves(t)
<1> DEFINE j == job[t]
           g(pc) == [j EXCEPT !.pc = pc]
<1>1. /\ Quiet
      /\ \/ /\ j.pc = "DELETE"
            /\ \/ Step(t, send_http_error(j, 404)) \/ Step(t, send_http_error(j, 403))
               \/ Step(t, g("rmdir")) \/ Step(t, g("remove"))
         \/ /\ j.pc = "MKCOL"
            /\ \/ Step(t, send_http_error(j, 405)) \/ Step(t, send_http_error(j, 415))
               \/ Step(t, g("mkdir"))
  BY DEF Delete, Mkcol
<1>2. /\ j.q \in clients.requests /\ j.path = j.q.path /\ j.error = 0 /\ Authorized(j) /\ ~j.changed
      /\ j.ino = 0 /\ Typed(j) /\ Full(j) /\ j.status # 304 /\ j.status # 201 /\ j.seen = {}
      /\ (j.pc = "DELETE" => j.q.method = "DELETE") /\ (j.pc = "MKCOL" => j.q.method = "MKCOL")
  BY <1>1, Named0 DEF Local, Working, DeleteStages, MkcolStages, IsJob, Begun, Clean
<1>3. /\ Local(send_http_error(j, 403)) /\ Local(send_http_error(j, 404))
      /\ Local(send_http_error(j, 405)) /\ Local(send_http_error(j, 415))
  <2> HIDE DEF g
  <2> QED BY <1>1, <1>2, Refused
<1>4. ASSUME NEW pc,
             (j.pc = "DELETE" /\ pc \in {"rmdir", "remove"}) \/ (j.pc = "MKCOL" /\ pc = "mkdir")
      PROVE  Local(g(pc))
  <2> DEFINE k == g(pc)
  <2>1. /\ Full(k) /\ k.pc = pc /\ Work(k, j) /\ Choice(k, j) /\ Verdict(k, j)
        /\ Target(k, j) /\ k.sent = j.sent
    BY <1>2, Going
  <2> HIDE DEF k
  <2>2. WorksFrom(k, j)
    BY <1>2, <1>4, <2>1 DEF WorksFrom, Typed, Verdict, Work
  <2>3. Local(k)
    BY <1>1, <1>2, <2>2, WorksOn
  <2> QED BY <2>3 DEF k
<1>5. CASE j.pc = "DELETE"
  <2>1. Local(g("rmdir")) /\ Local(g("remove"))
    <3> HIDE DEF g
    <3>1. ASSUME NEW pc \in {"rmdir", "remove"} PROVE Local(g(pc))
      BY <1>4, <1>5
    <3> QED BY <3>1
  <2> HIDE DEF g
  <2> QED BY <1>1, <1>3, <1>5, <2>1 DEF Moves
<1>6. CASE j.pc = "MKCOL"
  <2>1. Local(g("mkdir"))
    <3> HIDE DEF g
    <3> QED BY <1>4, <1>6
  <2> HIDE DEF g
  <2> QED BY <1>1, <1>3, <1>6, <2>1 DEF Moves
<1>. QED
  BY <1>1, <1>5, <1>6

LEMMA UnlinkLocal ==
  ASSUME Shared, NEW t \in Workers, NEW j, NEW p, Local([j EXCEPT !.changed = TRUE]), Unlink(t, j, p)
  PROVE  Touches(t)
<1>1. FileSystem'
  <2>1. fs' = [fs EXCEPT ![p] = 0] /\ 0 \in 0..MaxInodes /\ fs \in [Paths -> 0..MaxInodes]
    BY WorldsAssumption DEF Unlink, Shared, FileSystem
  <2>2. fs' \in [Paths -> 0..MaxInodes]
    BY <2>1
  <2>3. Paths' = Paths
    BY <2>2 DEF Paths
  <2> QED BY <2>2, <2>3 DEF Shared, FileSystem, Unlink
<1>. QED
  BY <1>1 DEF Touches, Unlink

LEMMA RemoveFileLocal ==
  ASSUME Shared, NEW t \in Workers, Local(job[t]), RemoveFile(t)
  PROVE  Moves(t) \/ Touches(t)
<1> DEFINE j == job[t]
           gone == send_http_error(j, 204)
           e == send_http_error(j, 423)
<1>1. j.pc = "remove" /\ (Unlink(t, gone, j.path) \/ (Step(t, e) /\ Quiet))
  BY DEF RemoveFile
<1>2. j.q.method = "DELETE" /\ ~j.changed
  BY <1>1 DEF Local, Working, DeleteStages, Changed
<1>3. /\ Local(gone) /\ Authorized(gone) /\ Work(gone, j) /\ gone.error = 204
      /\ gone.pc \in {"static", "ssi", "cgi", "done"}
  <2> HIDE DEF gone
  <2> QED BY <1>1, <1>2, ErrorWhileWorking DEF DeleteStages, gone
<1>4. Local(e)
  <2> HIDE DEF e
  <2> QED BY <1>1, <1>2, ErrorWhileWorking DEF DeleteStages, e
<1> HIDE DEF gone, e
<1>5. Local([gone EXCEPT !.changed = TRUE])
  BY <1>2, <1>3, Changing DEF Work
<1>. QED
  BY <1>1, <1>4, <1>5, UnlinkLocal DEF Moves

\* What remove_directory notes of an entry.
SeenOf(j, seen, ok) == [j EXCEPT !.seen = seen, !.ok = ok]

LEMMA WithSeen ==
  ASSUME NEW j, Full(j), NEW seen, NEW ok, NEW k, k = SeenOf(j, seen, ok)
  PROVE  /\ Full(k) /\ Choice(k, j) /\ Target(k, j) /\ Verdict(k, j) /\ k.pc = j.pc /\ k.sent = j.sent
         /\ k.q = j.q /\ k.ino = j.ino /\ k.left = j.left /\ k.seen = seen
         /\ k.ok = ok /\ k.announced = j.announced /\ k.changed = j.changed
         /\ k.disturbed = j.disturbed /\ k.whole = j.whole /\ k.date = j.date
         /\ k.pos = j.pos /\ k.unsaved = j.unsaved
<1>1. Full(k)
  BY DEF SeenOf, Full, Fields
<1>2. Choice(k, j) /\ Target(k, j) /\ Verdict(k, j) /\ k.pc = j.pc /\ k.sent = j.sent
  BY DEF SeenOf, Full, Fields, Choice, Target, Verdict
<1>3. /\ k.q = j.q /\ k.ino = j.ino /\ k.left = j.left /\ k.seen = seen
      /\ k.ok = ok /\ k.announced = j.announced /\ k.changed = j.changed
      /\ k.disturbed = j.disturbed /\ k.whole = j.whole /\ k.date = j.date
      /\ k.pos = j.pos /\ k.unsaved = j.unsaved
  BY DEF SeenOf, Full, Fields
<1>. QED
  BY <1>1, <1>2, <1>3

\* Whatever it notes, it goes on or answers.
LEMMA Removing ==
  ASSUME Shared, NEW j, Local(j), j.pc = "rmdir", NEW seen, NEW ok, NEW s \in {204, 500},
         NEW k, k = SeenOf(j, seen, ok) \/ k = send_http_error(SeenOf(j, seen, ok), s)
  PROVE  /\ Local(k) /\ Local([k EXCEPT !.changed = TRUE])
         /\ k.q = j.q /\ k.date = j.date /\ k.disturbed = j.disturbed /\ k.seen = seen /\ k.ino = 0
         /\ \/ k.pc = "rmdir" /\ k.error = 0
            \/ k.pc \in {"static", "ssi", "cgi", "done"} /\ k.error = s
<1> DEFINE n == SeenOf(j, seen, ok)
<1>1. /\ j.q \in clients.requests /\ j.path = j.q.path /\ j.error = 0 /\ Authorized(j)
      /\ j.q.method = "DELETE" /\ j.ino = 0 /\ Typed(j) /\ Full(j) /\ j.status # 304
  BY Named0 DEF Local, Working, DeleteStages, Opened, IsJob, Answered
<1>2. /\ Full(n) /\ Choice(n, j) /\ Target(n, j) /\ Verdict(n, j) /\ n.pc = j.pc /\ n.sent = j.sent
      /\ n.q = j.q /\ n.ino = j.ino /\ n.left = j.left /\ n.seen = seen
      /\ n.ok = ok /\ n.announced = j.announced /\ n.changed = j.changed
      /\ n.disturbed = j.disturbed /\ n.whole = j.whole /\ n.date = j.date
      /\ n.pos = j.pos /\ n.unsaved = j.unsaved
  BY <1>1, WithSeen
<1> HIDE DEF n
<1>3. WorksFrom(n, j)
  BY <1>1, <1>2 DEF WorksFrom, Typed, Verdict
<1>4. Local(n) /\ n.pc = "rmdir" /\ Authorized(n) /\ n.error = 0
  BY <1>1, <1>2, <1>3, WorksOn DEF Authorized, Verdict
<1>5. CASE k = n
  <2>1. Local([k EXCEPT !.changed = TRUE])
    BY <1>1, <1>2, <1>4, <1>5, Changing
  <2> QED BY <1>1, <1>2, <1>4, <1>5, <2>1
<1>6. CASE k = send_http_error(n, s)
  <2>1. Local(k) /\ Authorized(k) /\ Work(k, n) /\ k.error = s /\ k.pc \in {"static", "ssi", "cgi", "done"}
    BY <1>1, <1>2, <1>4, <1>6, ErrorWhileWorking DEF DeleteStages
  <2>2. Local([k EXCEPT !.changed = TRUE])
    BY <1>1, <1>2, <2>1, Changing DEF Work
  <2> QED BY <1>1, <1>2, <2>1, <2>2 DEF Work
<1>. QED
  BY <1>5, <1>6 DEF n

LEMMA Noting ==
  ASSUME Shared, NEW j, Local(j), j.pc = "rmdir", NEW seen, NEW ok, NEW k, k = SeenOf(j, seen, ok)
  PROVE  /\ Local(k) /\ Local([k EXCEPT !.changed = TRUE]) /\ k.pc = "rmdir"
         /\ k.q = j.q /\ k.date = j.date /\ k.disturbed = j.disturbed /\ k.seen = seen /\ k.ino = 0
<1> DEFINE s == 204
<1>1. s \in {204, 500}
  OBVIOUS
<1> HIDE DEF s
<1>2. /\ Local(k) /\ Local([k EXCEPT !.changed = TRUE])
      /\ k.q = j.q /\ k.date = j.date /\ k.disturbed = j.disturbed /\ k.seen = seen /\ k.ino = 0
  BY <1>1, Removing
<1>3. k.pc = j.pc
  BY WithSeen DEF Local, IsJob
<1>. QED
  BY <1>2, <1>3

LEMMA RemoveEntryLocal ==
  ASSUME Shared, NEW t \in Workers, Local(job[t]), RemoveEntry(t)
  PROVE  Moves(t) \/ Touches(t)
<1> DEFINE j == job[t]
<1>0. PICK p \in Paths : \E ok :
        LET k == [j EXCEPT !.seen = @ \cup {p}, !.ok = ok]
            last(r) == IF p = j.path THEN send_http_error(r, IF r.ok THEN 204 ELSE 500) ELSE r
        IN /\ j.pc = "rmdir"
           /\ IF File(p).dir
             THEN IF Children(p) = {} THEN Unlink(t, last(k), p)
                  ELSE Step(t, last(k)) /\ Quiet
             ELSE \/ Unlink(t, [k EXCEPT !.ok = FALSE], p)
                  \/ Step(t, k) /\ Quiet
  BY ZenonT(40) DEF RemoveEntry
<1>1. PICK ok :
        LET k == [j EXCEPT !.seen = @ \cup {p}, !.ok = ok]
            last(r) == IF p = j.path THEN send_http_error(r, IF r.ok THEN 204 ELSE 500) ELSE r
        IN /\ j.pc = "rmdir"
           /\ IF File(p).dir
             THEN IF Children(p) = {} THEN Unlink(t, last(k), p)
                  ELSE Step(t, last(k)) /\ Quiet
             ELSE \/ Unlink(t, [k EXCEPT !.ok = FALSE], p)
                  \/ Step(t, k) /\ Quiet
  BY Zenon, <1>0
<1> DEFINE seen == j.seen \cup {p}
           k == SeenOf(j, seen, ok)
           s == IF k.ok THEN 204 ELSE 500
           last == IF p = j.path THEN send_http_error(k, s) ELSE k
           kept == SeenOf(j, seen, FALSE)
<1>2. j.pc = "rmdir" /\ Full(j)
  BY <1>1 DEF Local, IsJob
<1>3. [j EXCEPT !.seen = @ \cup {p}, !.ok = ok] = k /\ [k EXCEPT !.ok = FALSE] = kept
  BY <1>2 DEF SeenOf, Full, Fields
<1>4. \/ Unlink(t, last, p) \/ Unlink(t, kept, p)
      \/ Quiet /\ (Step(t, last) \/ Step(t, k))
  <2> DEFINE k1 == [j EXCEPT !.seen = @ \cup {p}, !.ok = ok]
             last1 == IF p = j.path THEN send_http_error(k1, IF k1.ok THEN 204 ELSE 500) ELSE k1
  <2>1. \/ Unlink(t, last1, p) \/ Unlink(t, [k1 EXCEPT !.ok = FALSE], p)
        \/ Quiet /\ (Step(t, last1) \/ Step(t, k1))
    <3> HIDE DEF k, kept, last, s, seen
    <3> QED BY <1>1
  <2>2. k1 = k
    BY <1>3
  <2> HIDE DEF k1, k, kept
  <2> QED BY <1>3, <2>1, <2>2
<1>5. s \in {204, 500}
  OBVIOUS
<1> HIDE DEF seen, s
<1>6. Local(last) /\ Local([last EXCEPT !.changed = TRUE])
  <2>1. last = SeenOf(j, seen, ok) \/ last = send_http_error(SeenOf(j, seen, ok), s)
    OBVIOUS
  <2> HIDE DEF last
  <2> QED BY <1>2, <1>5, <2>1, Removing
<1>7. Local(k)
  <2>1. k = SeenOf(j, seen, ok)
    OBVIOUS
  <2> HIDE DEF k, kept, last
  <2> QED BY <1>2, <2>1, Noting
<1>8. Local([kept EXCEPT !.changed = TRUE])
  <2>1. kept = SeenOf(j, seen, FALSE)
    OBVIOUS
  <2> HIDE DEF k, kept, last
  <2> QED BY <1>2, <2>1, Noting
<1> HIDE DEF last, k, kept
<1>. QED
  BY SMTT(30), <1>4, <1>6, <1>7, <1>8, UnlinkLocal DEF Moves

LEMMA RemoveGoneLocal ==
  ASSUME Shared, NEW t \in Workers, Local(job[t]), RemoveGone(t)
  PROVE  Moves(t)
<1> DEFINE j == job[t]
           s == IF j.ok THEN 204 ELSE 500
<1>1. j.pc = "rmdir" /\ Step(t, send_http_error(j, s)) /\ Quiet /\ s \in {204, 500}
  BY DEF RemoveGone
<1>2. j.q.method = "DELETE"
  BY <1>1 DEF Local, Working, DeleteStages
<1> HIDE DEF s
<1>3. Local(send_http_error(j, s))
  BY <1>1, <1>2, ErrorWhileWorking DEF DeleteStages
<1>. QED
  BY <1>1, <1>3 DEF Moves

LEMMA MkdirLocal ==
  ASSUME Shared, NEW t \in Workers, Local(job[t]), Mkdir(t)
  PROVE  Moves(t) \/ Touches(t)
<1> DEFINE j == job[t]
           k == Reply(j, 201)
<1>1. /\ j.pc = "mkdir"
      /\ \/ Quiet /\ (Step(t, send_http_error(j, 405)) \/ Step(t, send_http_error(j, 409)))
         \/ /\ Room /\ Make(j.path, TRUE) /\ Touch(t, k, {j.path}, FALSE)
            /\ UNCHANGED <<config, handlers, now, copies, clients>>
  BY DEF Mkdir
<1>2. /\ j.q \in clients.requests /\ j.error = 0 /\ Authorized(j) /\ ~j.changed
      /\ j.q.method = "MKCOL" /\ MaxInodes \in Nat /\ Full(j)
  BY <1>1, Named0 DEF Local, Working, MkcolStages, Changed, IsJob
<1>3. Local(send_http_error(j, 405)) /\ Local(send_http_error(j, 409))
  BY <1>1, <1>2, Refused
<1>4. Local([k EXCEPT !.changed = TRUE])
  <2>1. Local(k)
    BY <1>1, <1>2, EndedByReply
  <2>2. k.pc = "done" /\ k.error = 0 /\ k.q = j.q
    BY <1>2 DEF Reply, Full, Fields
  <2>3. Authorized(k)
    BY <1>2, <2>2 DEF Authorized
  <2> HIDE DEF k
  <2> QED BY <1>2, <2>1, <2>2, <2>3, Changing
<1>5. Room /\ Make(j.path, TRUE) /\ UNCHANGED now => FileSystem'
  BY <1>2, MakeTyped DEF Shared
<1> HIDE DEF k
<1>6. CASE Quiet /\ (Step(t, send_http_error(j, 405)) \/ Step(t, send_http_error(j, 409)))
  BY <1>3, <1>6 DEF Moves
<1>7. CASE /\ Room /\ Make(j.path, TRUE) /\ Touch(t, k, {j.path}, FALSE)
           /\ UNCHANGED <<config, handlers, now, copies, clients>>
  BY <1>4, <1>5, <1>7 DEF Touches
<1>. QED
  BY <1>1, <1>6, <1>7

-----------------------------------------------------------------------------
-----------------------------------------------------------------------------
\* The steps together

LEMMA IdleLocal == MaxInodes \in Nat => Local(Idle)
<1>1. /\ Full(Idle) /\ Idle.stat = NoStat /\ Idle.pc = "idle" /\ Idle.path = <<>>
      /\ Idle.error = 0 /\ Idle.status = 0
      /\ Idle.ino = 0 /\ Idle.pos = 0 /\ Idle.seen = {} /\ Idle.unsaved = <<>> /\ Idle.sent = <<>>
      /\ Idle.script = FALSE /\ Idle.put = FALSE /\ Idle.cb = FALSE /\ Idle.left = 0 /\ Idle.announced = -1
      /\ Idle.changed = FALSE /\ Idle.disturbed = FALSE /\ Idle.whole = <<>> /\ Idle.date = 0
  BY DEF Idle, Full, Fields
<1>2. Idle.script \in BOOLEAN /\ Idle.put \in BOOLEAN /\ Idle.cb \in BOOLEAN
      /\ Idle.changed \in BOOLEAN /\ Idle.disturbed \in BOOLEAN
  BY DEF Idle
<1>3. NoStat \in Stats /\ ~NoStat.gz
  BY DEF NoStat, Stats
<1> DEFINE j == Idle
<1> HIDE DEF j
<1> SUFFICES ASSUME MaxInodes \in Nat PROVE Local(j)
  BY DEF j
<1>4. Typed(j)
  <2>1. j.announced \in Int
    BY <1>1 DEF j
  <2>2. j.pc \in Stages /\ j.path \in Seq(STRING) /\ j.stat \in Stats /\ j.ino \in 0..MaxInodes
    BY <1>1, <1>3, Early DEF j
  <2>3. j.pos \in Nat /\ j.left \in Int /\ j.date \in Nat /\ j.whole \in Seq(Marks) /\ j.unsaved \in Seq(Marks)
        /\ j.status \in Int /\ j.error \in Int
    BY <1>1 DEF j
  <2> QED BY <1>2, <2>1, <2>2, <2>3 DEF Typed, j
<1>. QED
  BY <1>1, <1>3, <1>4 DEF j, EarlyStages, PutStages, DeleteStages, MkcolStages, Clean, Local, IsJob,
    Begun, Working, Changed, Answered, Chosen, Opened, Holds

\* What is known of a job stays known when the job is the same in the next state.
LEMMA LocalCarries ==
  ASSUME NEW t \in Workers, NEW k, Local(k), job'[t] = k, clients'.requests = clients.requests,
         Authorized(k) => Authorized(job[t])'
  PROVE  Local(job[t])'
<1>1. IsJob(job[t])'
  BY DEF Local, IsJob, Full, Typed, Stages, Stats, Marks
<1>2. Begun(job[t])'
  BY DEF Local, Begun, Clean
<1>3. Working(job[t])' /\ Changed(job[t])'
  BY DEF Local, Working, Changed
<1>4. Answered(job[t])' /\ Chosen(job[t])' /\ Opened(job[t])'
  BY DEF Local, Answered, Chosen, Opened, Holds
<1>. QED
  BY <1>1, <1>2, <1>3, <1>4 DEF Local

LEMMA AuthorizedCarries ==
  ASSUME NEW t \in Workers, NEW k, job'[t] = k, UNCHANGED <<config, handlers>>
  PROVE  Authorized(k) => Authorized(job[t])'
BY DEF Authorized

\* Another has changed a file.
DisturbedOf(j, b) == [j EXCEPT !.disturbed = b]

LEMMA Disturbing ==
  ASSUME NEW j, Local(j), NEW b \in BOOLEAN, NEW k, k = DisturbedOf(j, b)
  PROVE  /\ Local(k) /\ Full(k) /\ k.pc = j.pc /\ k.q = j.q /\ k.ino = j.ino /\ k.pos = j.pos /\ k.left = j.left /\ k.seen = j.seen
         /\ k.ok = j.ok /\ k.announced = j.announced /\ k.changed = j.changed
         /\ k.disturbed = b /\ k.whole = j.whole /\ k.date = j.date /\ k.unsaved = j.unsaved
         /\ Choice(k, j) /\ Target(k, j) /\ Verdict(k, j) /\ k.sent = j.sent
<1>1. Full(k)
  BY DEF DisturbedOf, Local, IsJob, Full, Fields
<1>2. /\ k.pc = j.pc /\ k.q = j.q /\ k.ino = j.ino /\ k.pos = j.pos /\ k.left = j.left /\ k.seen = j.seen
      /\ k.ok = j.ok /\ k.announced = j.announced /\ k.changed = j.changed
      /\ k.disturbed = b /\ k.whole = j.whole /\ k.date = j.date /\ k.unsaved = j.unsaved
  BY DEF DisturbedOf, Local, IsJob, Full, Fields
<1>3. Choice(k, j) /\ Target(k, j) /\ Verdict(k, j) /\ k.sent = j.sent
  BY DEF DisturbedOf, Local, IsJob, Full, Fields, Choice, Target, Verdict
<1>4. Typed(k)
  BY <1>2, <1>3 DEF Local, IsJob, Typed, Choice, Target, Verdict
<1>5. Authorized(j) => Authorized(k)
  BY <1>2 DEF Authorized
<1>6. Local(k)
  BY <1>1, <1>2, <1>3, <1>4, <1>5 DEF EarlyStages, PutStages, DeleteStages, MkcolStages, Clean, Local,
      IsJob, Choice, Target, Verdict, Begun, Working, Changed, Answered, Chosen, Opened, Holds
<1>. QED
  BY <1>1, <1>2, <1>3, <1>6

\* After such a step, each of the others is as it was but for that.
Disturbs(u, p, unlink) ==
  \/ job[u].disturbed
  \/ ~(unlink /\ job[u].pc = "send")
     /\ \E r \in p, x \in {job[u].path, Served(job[u])} : IsPrefix(r, x) \/ IsPrefix(x, r)

LEMMA Touched ==
  ASSUME JobsInv, NEW t \in Workers, NEW k, NEW p, NEW unlink, Touch(t, k, p, unlink)
  PROVE  /\ job' = [u \in Workers |-> job'[u]] /\ job'[t] = [k EXCEPT !.changed = TRUE]
         /\ \A u \in Workers \ {t} : job'[u] = DisturbedOf(job[u], Disturbs(u, p, unlink))
<1>1. job' = [u \in Workers |-> IF u = t THEN [k EXCEPT !.changed = TRUE]
                                ELSE DisturbedOf(job[u], Disturbs(u, p, unlink))]
  BY DEF Touch, Disturbs, DisturbedOf
<1>. QED
  BY <1>1

LEMMA OthersTouched ==
  ASSUME JobsInv, NEW t \in Workers, NEW k, NEW p, NEW unlink, Touch(t, k, p, unlink), NEW u \in Workers \ {t}
  PROVE  Local(job'[u])
<1> DEFINE b == Disturbs(u, p, unlink)
<1>1. b \in BOOLEAN
  <2>1. job[u].disturbed \in BOOLEAN
    BY DEF JobsInv, Local, IsJob, Typed
  <2> QED BY <2>1 DEF Disturbs
<1>2. Local(job[u])
  BY DEF JobsInv
<1>3. job'[u] = DisturbedOf(job[u], b)
  BY DEF Touch, Disturbs, DisturbedOf
<1> HIDE DEF b
<1>. QED
  BY <1>1, <1>2, <1>3, Disturbing

\* The directory tree keeps its paths.
LEMMA PathsStay ==
  ASSUME NEW t \in Workers, Worker(t)
  PROVE  Paths' = Paths
<1>1. ASSUME NEW p, NEW i, fs' = [fs EXCEPT ![p] = i] PROVE Paths' = Paths
  BY <1>1 DEF Paths
<1>2. CASE UNCHANGED fs
  BY <1>2 DEF Paths
<1>3. CASE PutDir(t)
  BY <1>1, <1>2, <1>3 DEF PutDir, Make, Quiet
<1>4. CASE PutOpen(t)
  BY <1>1, <1>2, <1>4 DEF PutOpen, Make, Quiet
<1>5. CASE RemoveFile(t)
  BY <1>1, <1>2, <1>5 DEF RemoveFile, Unlink, Quiet
<1>6. CASE RemoveEntry(t)
  BY ZenonT(40), <1>1, <1>2, <1>6 DEF RemoveEntry, Unlink, Quiet
<1>7. CASE Mkdir(t)
  BY Zenon, <1>1, <1>2, <1>7 DEF Mkdir, Make, Quiet
<1>8. CASE PutWrite(t) \/ PutClose(t)
  BY Zenon, <1>2, <1>8 DEF PutWrite, PutClose, Flush, Quiet
<1>9. CASE (\E q \in clients.requests : Begin(t, q)) \/ Finish(t)
  BY Zenon, <1>2, <1>9 DEF Begin, Finish
<1>10. CASE \/ Lookup(t) \/ Auth(t) \/ Callback(t) \/ Serve(t)
            \/ Open(t) \/ Send(t) \/ Ssi(t) \/ List(t) \/ Cgi(t)
            \/ Put(t) \/ Delete(t) \/ RemoveGone(t) \/ Mkcol(t)
  BY <1>2, <1>10 DEF Lookup, Auth, Callback, Serve, Open, Send, Ssi, List, Cgi, Put, Delete, RemoveGone,
    Mkcol, Quiet
<1>. QED
  BY <1>3, <1>4, <1>5, <1>6, <1>7, <1>8, <1>9, <1>10 DEF Worker

\* What each step of a worker does with the jobs.
LEMMA WorkerMoves ==
  ASSUME JobsInv, NEW t \in Workers, Worker(t)
  PROVE  \/ /\ UNCHANGED <<config, handlers, fs, inodes, now>> /\ clients'.requests = clients.requests
            /\ DOMAIN clients' = DOMAIN clients /\ \E k : Step(t, k) /\ Local(k)
         \/ Touches(t)
<1>1. Shared /\ Local(job[t])
  BY DEF JobsInv
<1>2. Moves(t) => /\ UNCHANGED <<config, handlers, fs, inodes, now>> /\ clients'.requests = clients.requests
                  /\ DOMAIN clients' = DOMAIN clients /\ \E k : Step(t, k) /\ Local(k)
  BY DEF Moves, Quiet
<1>3. CASE \E q \in clients.requests : Begin(t, q)
  <2>1. PICK q \in clients.requests : Begin(t, q)
    BY <1>3
  <2>2. \E k : Step(t, k) /\ Local(k)
    BY <1>1, <2>1, BeginLocal
  <2>3. clients' = [clients EXCEPT !.left = @ - 1] /\ UNCHANGED <<config, handlers, fs, inodes, now>>
    BY <2>1 DEF Begin
  <2> QED BY <2>2, <2>3
<1>4. CASE Finish(t)
  BY <1>1, <1>4, IdleLocal, WorldsAssumption DEF Finish
<1>5. CASE Lookup(t) \/ Auth(t) \/ Callback(t) \/ Serve(t)
  BY <1>1, <1>2, <1>5, LookupLocal, AuthLocal, CallbackLocal, ServeLocal
<1>6. CASE Open(t) \/ Send(t) \/ Ssi(t) \/ List(t) \/ Cgi(t)
  BY <1>1, <1>2, <1>6, OpenLocal, SendLocal, PagesLocal
<1>7. CASE Put(t) \/ PutDir(t) \/ PutOpen(t) \/ PutWrite(t) \/ PutClose(t)
  BY <1>1, <1>2, <1>7, PutLocal, PutDirLocal, PutOpenLocal, PutWriteLocal, PutCloseLocal
<1>8. CASE Delete(t) \/ RemoveFile(t) \/ RemoveEntry(t) \/ RemoveGone(t) \/ Mkcol(t) \/ Mkdir(t)
  BY <1>1, <1>2, <1>8, DeleteLocal, RemoveFileLocal, RemoveEntryLocal, RemoveGoneLocal, MkdirLocal
<1>. QED
  BY <1>3, <1>4, <1>5, <1>6, <1>7, <1>8 DEF Worker

LEMMA JobsAfterWorker ==
  ASSUME JobsInv, NEW t \in Workers, Worker(t)
  PROVE  JobsInv'
<1>1. Paths' = Paths
  BY PathsStay
<1>2. CASE /\ UNCHANGED <<config, handlers, fs, inodes, now>> /\ clients'.requests = clients.requests
           /\ DOMAIN clients' = DOMAIN clients /\ \E k : Step(t, k) /\ Local(k)
  <2>1. PICK k : Step(t, k) /\ Local(k)
    BY <1>2
  <2>2. /\ job' = [u \in Workers |-> job'[u]] /\ job'[t] = k /\ \A u \in Workers \ {t} : job'[u] = job[u]
    BY <2>1 DEF Step, JobsInv
  <2>3. Shared'
    BY <1>1, <1>2 DEF JobsInv, Shared, World0, Registered, FileSystem
  <2>4. ASSUME NEW u \in Workers PROVE Local(job[u])'
    <3> DEFINE m == job'[u]
    <3>1. Local(m)
      BY <2>1, <2>2 DEF JobsInv
    <3>2. Authorized(m) => Authorized(job[u])'
      BY <1>2, AuthorizedCarries
    <3> QED BY <1>2, <3>1, <3>2, LocalCarries
  <2> QED BY <2>2, <2>3, <2>4 DEF JobsInv
<1>3. CASE Touches(t)
  <2>1. PICK k, p, unlink : Touch(t, k, p, unlink) /\ Local([k EXCEPT !.changed = TRUE])
    BY <1>3 DEF Touches
  <2>2. UNCHANGED <<config, handlers, now, copies, clients>> /\ FileSystem'
    BY <1>3 DEF Touches
  <2>3. Shared'
    BY <1>1, <2>2 DEF JobsInv, Shared, World0, Registered
  <2>4. ASSUME NEW u \in Workers PROVE Local(job[u])'
    <3> DEFINE m == job'[u]
    <3>1. Local(m)
      BY <2>1, Touched, OthersTouched
    <3>2. Authorized(m) => Authorized(job[u])'
      BY <2>2, AuthorizedCarries
    <3> QED BY <2>2, <3>1, <3>2, LocalCarries
  <2>5. job' = [u \in Workers |-> job'[u]]
    BY <2>1, Touched
  <2> QED BY <2>3, <2>4, <2>5 DEF JobsInv
<1>. QED
  BY <1>2, <1>3, WorkerMoves

LEMMA JobsInit == Init => JobsInv
<1> SUFFICES ASSUME Init PROVE JobsInv
  OBVIOUS
<1>1. PICK w \in Worlds : config = w.config /\ fs = w.fs /\ inodes = w.inodes /\ clients = w.clients
  BY DEF Init
<1>2. MaxInodes \in Nat /\ handlers = w.config.handlers /\ now = 1 /\ job = [t \in Workers |-> Idle]
  BY <1>1, WorldsAssumption DEF Init
<1>3. World0
  BY <1>1, WorldsAssumption DEF World0, Paths
<1>4. Registered
  <2>1. handlers \in Seq(Handlers) /\ \A i \in DOMAIN handlers : handlers[i].call # "NULL"
    BY <1>2, WorldsAssumption
  <2> QED BY <2>1 DEF Registered
<1>5. FileSystem
  BY <1>1, <1>2, WorldsAssumption DEF FileSystem, Paths
<1>. QED
  BY <1>2, <1>3, <1>4, <1>5, IdleLocal DEF JobsInv, Shared

LEMMA JobsStep == JobsInv /\ [Next]_vars => JobsInv'
<1> SUFFICES ASSUME JobsInv, [Next]_vars PROVE JobsInv'
  OBVIOUS
<1>1. ASSUME UNCHANGED <<config, fs, inodes, job, clients>>, Registered', now' \in Nat,
             \A t \in Workers : Authorized(job[t]) => Authorized(job[t])'
      PROVE  JobsInv'
  <2>1. Shared'
    BY <1>1 DEF JobsInv, Shared, World0, FileSystem, Paths
  <2>2. ASSUME NEW t \in Workers PROVE Local(job[t])'
    <3> DEFINE k == job[t]
    <3>1. Local(k) /\ job'[t] = k /\ clients'.requests = clients.requests
      BY <1>1 DEF JobsInv
    <3>2. Authorized(k) => Authorized(job[t])'
      BY <1>1
    <3> QED BY <3>1, <3>2, LocalCarries
  <2> QED BY <1>1, <2>1, <2>2 DEF JobsInv
<1>2. CASE \E t \in Workers : Worker(t)
  BY <1>2, JobsAfterWorker
<1>3. CASE \E h \in config.changes : SetHandler(h.type, h.uri, h.call)
  <2>1. PICK h \in config.changes : SetHandler(h.type, h.uri, h.call)
    BY <1>3
  <2>2. h \in Handlers /\ (h.type = "auth" => h.call # "NULL")
    BY <2>1, WorldsAssumption DEF JobsInv, Shared, World0
  <2>3. /\ handlers' = mg_set_handler_type(handlers, h.type, h.uri, h.call)
        /\ UNCHANGED <<config, fs, inodes, now, job, copies, clients>>
    BY <2>1 DEF SetHandler
  <2>4. Registered /\ now \in Nat
    BY DEF JobsInv, Shared, FileSystem
  <2>5. /\ Registered'
        /\ \A i \in 1..Len(handlers) : handlers[i].type = "auth" =>
             \E k \in 1..Len(handlers') : /\ handlers'[k].type = "auth"
                                          /\ handlers'[k].uri = handlers[i].uri
    BY <2>2, <2>3, <2>4, HandlersStay
  <2>6. \A t \in Workers : Authorized(job[t]) => Authorized(job[t])'
    BY <2>3, <2>4, <2>5, AuthorizedStays
  <2> QED BY <1>1, <2>3, <2>4, <2>5, <2>6
<1>4. CASE Tick \/ UNCHANGED vars
  <2>1. UNCHANGED <<config, handlers, fs, inodes, job, clients>> /\ now' \in Nat
    BY <1>4 DEF Tick, vars, JobsInv, Shared, FileSystem
  <2>2. Registered'
    BY <2>1 DEF JobsInv, Shared, Registered
  <2>3. \A t \in Workers : Authorized(job[t]) => Authorized(job[t])'
    BY <2>1 DEF Authorized
  <2> QED BY <1>1, <2>1, <2>2, <2>3
<1>. QED
  BY <1>2, <1>3, <1>4 DEF Next

LEMMA MCStepsOfFiles ==
  /\ MCInit => Init
  /\ [MCNext]_mcVars => [Next]_vars
<1>1. MCInit => Init
  BY DEF MCInit
<1>. QED
  BY <1>1 DEF MCNext, In, mcVars

\* A request that is refused has changed nothing, and what was changed was changed by one
\* who may: handle_request, put_file, delete_file, mkcol.
THEOREM RefusedChangesNothingHolds == MCSpec => []RefusedChangesNothing
<1>1. MCInit => JobsInv
  BY JobsInit, MCStepsOfFiles
<1>2. JobsInv /\ [MCNext]_mcVars => JobsInv'
  BY JobsStep, MCStepsOfFiles
<1>3. JobsInv => RefusedChangesNothing
  <2> SUFFICES ASSUME JobsInv, NEW t \in Workers
               PROVE  LET j == job[t]
                      IN /\ j.error \in {401, 403, 404, 405, 409, 415} => ~j.changed
                         /\ j.changed /\ get_request_handler(handlers, "auth", j.q.path, config.begins) = "NULL" =>
                              j.q.user \in config.put_users
    BY DEF RefusedChangesNothing
  <2>1. Changed(job[t])
    BY DEF JobsInv, Local
  <2> QED BY <2>1 DEF Changed, Authorized
<1>. QED
  BY <1>1, <1>2, <1>3, PTL DEF MCSpec

-----------------------------------------------------------------------------
-----------------------------------------------------------------------------
(***************************************************************************)
(* Files: what is known of them.  First the steps that change none and     *)
(* open none.                                                              *)
(***************************************************************************)
Simple(k, j) ==
  /\ k.q = j.q /\ k.ino = j.ino /\ k.disturbed = j.disturbed /\ k.date = j.date
  /\ j.pc \notin {"send", "done"} /\ k.pc \notin {"send", "put_write", "put_close"}
  /\ j.pc \in {"put_write", "put_close"} /\ k.pc = "done" => k.error # 0
  /\ ~k.disturbed /\ ~k.changed
       /\ (k.pc = "static" \/ (k.pc \in {"auth", "serve"} /\ config.document_root /\ ~k.cb)) => Fresh(k)
  /\ j.error # 0 => k.error # 0
  /\ k.error = 204 => \/ j.error = 204 /\ k.seen = j.seen /\ k.path = j.path
                      \/ k.seen # {} \/ k.path # k.q.path \/ ~Exists(k.path)
  /\ k.status = 201 => k.q.method # "MKCOL"
  /\ k.status = 304 /\ ~k.disturbed => NotModified(k)

LEMMA SimpleSteps ==
  ASSUME NEW j, Local(j), Undisturbed(j), NEW k, Simple(k, j)
  PROVE  Undisturbed(k) /\ ~Holds(k) /\ k.date = j.date
<1> SUFFICES ASSUME ~k.disturbed PROVE Looked(k) /\ Sent(k) /\ Written(k) /\ Removed(k) /\ NotModified(k)
  BY DEF Undisturbed, Simple, Holds
<1>1. Looked(k)
  BY DEF Simple, Looked
<1>2. Sent(k) /\ Written(k)
  BY DEF Simple, Sent, Written, Local, Opened, Working, PutStages
<1>3. Removed(k)
  <2>1. ~j.disturbed /\ Removed(j)
    BY DEF Simple, Undisturbed
  <2> QED BY <2>1 DEF Simple, Removed
<1>4. NotModified(k)
  BY DEF Simple, NotModified
<1>. QED
  BY <1>1, <1>2, <1>3, <1>4

LEMMA FreshStat == ASSUME NEW k, k.stat = mg_stat(k.path) PROVE Fresh(k)
<1>1. CASE ~Exists(k.path)
  <2>1. ~k.stat.found /\ ~k.stat.gz
    BY <1>1 DEF mg_stat, NoStat
  <2> QED BY <1>1, <2>1 DEF Fresh, Served
<1>2. CASE Exists(k.path)
  <2>1. k.stat = [found |-> TRUE, gz |-> FALSE, dir |-> File(k.path).dir,
                  size |-> Len(File(k.path).data), mtime |-> File(k.path).mtime]
    BY <1>2 DEF mg_stat
  <2>2. k.stat.found /\ ~k.stat.gz /\ k.stat.size = Len(File(k.path).data)
        /\ k.stat.mtime = File(k.path).mtime
    BY <2>1
  <2> QED BY <1>2, <2>2 DEF Fresh, Served
<1>. QED
  BY <1>1, <1>2

\* The two ways an error is answered.
LEMMA ErrorOf ==
  ASSUME NEW m, Full(m), NEW s, NEW k, k = send_http_error(m, s)
  PROVE  /\ Work(k, m) /\ Choice(k, m)
         /\ \/ /\ m.error = 0 /\ k.error = s /\ k.status = m.status
               /\ Exists(k.path) /\ Fresh(k) /\ k.pc \in {"cgi", "ssi", "static"}
            \/ /\ k.pc = "done" /\ k.status = s /\ Target(k, m)
               /\ k.error = IF m.error = 0 THEN s ELSE m.error
<1>1. CASE m.error = 0 /\ s \in DOMAIN config.pages /\ Exists(config.pages[s])
  <2> DEFINE p == config.pages[s]
             st == mg_stat(p)
             kind == Kind(p)
  <2>1. k = PageOf(m, s, p, st, kind)
    BY <1>1 DEF send_http_error, PageOf
  <2>2. kind \in {"cgi", "ssi", "static"} /\ Exists(p)
    BY <1>1, KindOf
  <2>3. /\ Work(k, m) /\ Choice(k, m) /\ k.pc = kind /\ k.status = m.status
        /\ k.error = s /\ k.path = p /\ k.stat = st
    <3> HIDE DEF p, st, kind
    <3> QED BY <2>1, WithPage
  <2>4. Fresh(k)
    <3>1. k.stat = mg_stat(k.path)
      BY <2>3
    <3> QED BY <3>1, FreshStat
  <2> HIDE DEF p, st, kind
  <2> QED BY <1>1, <2>2, <2>3, <2>4
<1>2. CASE ~ (m.error = 0 /\ s \in DOMAIN config.pages /\ Exists(config.pages[s]))
  <2> DEFINE e == IF m.error = 0 THEN s ELSE m.error
  <2>1. k = NoPageOf(m, s, e)
    BY <1>2 DEF send_http_error, NoPageOf, Reply, Full, Fields
  <2>2. /\ Work(k, m) /\ Choice(k, m) /\ Target(k, m) /\ k.pc = "done" /\ k.status = s /\ k.error = e
    <3> HIDE DEF e
    <3> QED BY <2>1, WithoutPage
  <2> QED BY <2>2
<1>. QED
  BY <1>1, <1>2

LEMMA SimpleError ==
  ASSUME NEW j, Local(j), j.pc \notin {"send", "done"},
         NEW m, Becomes(m, j), Target(m, j) \/ j.error = 0,
         NEW s \in {204, 304, 401, 403, 404, 405, 409, 411, 415, 417, 423, 500, 503},
         s = 204 => j.path = j.q.path /\ m.path = j.path /\ (j.seen # {} \/ ~Exists(j.path)),
         s = 304 /\ ~j.disturbed => Unmodified(m.path),
         NEW k, k = send_http_error(m, s)
  PROVE  Simple(k, j)
<1>1. /\ Work(k, m) /\ Choice(k, m)
      /\ \/ /\ m.error = 0 /\ k.error = s /\ k.status = m.status
            /\ Exists(k.path) /\ Fresh(k) /\ k.pc \in {"cgi", "ssi", "static"}
         \/ /\ k.pc = "done" /\ k.status = s /\ Target(k, m)
            /\ k.error = IF m.error = 0 THEN s ELSE m.error
  BY ErrorOf DEF Becomes
<1>2. /\ k.q = j.q /\ k.ino = j.ino /\ k.disturbed = j.disturbed /\ k.date = j.date /\ k.seen = j.seen
      /\ m.error = j.error /\ m.status = j.status
  BY <1>1 DEF Becomes, Work, Verdict
<1>3. (j.status = 201 => j.q.method # "MKCOL") /\ j.status # 304 /\ j.error \in Int
  BY DEF Local, Answered, IsJob, Typed
<1>4. k.status = 304 /\ ~k.disturbed => NotModified(k)
  <2> SUFFICES ASSUME k.status = 304, ~k.disturbed PROVE NotModified(k)
    OBVIOUS
  <2>1. s = 304 /\ k.path = m.path
    BY <1>1, <1>2, <1>3 DEF Target
  <2> QED BY <1>2, <2>1 DEF NotModified
<1>5. k.error = 204 => \/ j.error = 204 /\ k.seen = j.seen /\ k.path = j.path
                       \/ k.seen # {} \/ k.path # k.q.path \/ ~Exists(k.path)
  BY <1>1, <1>2 DEF Target
<1>6. j.error # 0 => k.error # 0
  BY <1>1, <1>2
<1>7. j.pc \in {"put_write", "put_close"} /\ k.pc = "done" => k.error # 0
  BY <1>1, <1>2
<1>. QED
  BY <1>1, <1>2, <1>3, <1>4, <1>5, <1>6, <1>7 DEF Simple

LEMMA SimpleEnd ==
  ASSUME NEW j, Local(j), j.pc \notin {"send", "done", "put_write", "put_close"},
         NEW k, k.pc = "done", Work(k, j), Target(k, j), k.error = j.error \/ k.error = 401,
         k.status # 304, k.status = 201 => k.q.method # "MKCOL"
  PROVE  Simple(k, j)
BY DEF Simple, Work, Target

\* One that goes on.
LEMMA SimpleMove ==
  ASSUME NEW j, Local(j), j.pc \notin {"send", "done", "put_write", "put_close"},
         NEW k, Work(k, j) \/ (k.q = j.q /\ k.ino = j.ino /\ k.disturbed = j.disturbed /\ k.date = j.date),
         k.pc \notin {"static", "auth", "serve", "send", "done", "put_write", "put_close"},
         k.error = 0, j.error = 0, k.status # 304, k.status = 201 => k.q.method # "MKCOL"
  PROVE  Simple(k, j)
BY DEF Simple, Work

\* A step of t that changes nothing but its job, and opens nothing.
Calms(t) == Quiet /\ \E k : Step(t, k) /\ Simple(k, job[t])

LEMMA Replied ==
  ASSUME NEW j, Local(j), j.pc \notin {"send", "done", "put_write", "put_close"},
         NEW s, s # 304, s # 201 \/ j.q.method # "MKCOL", NEW data
  PROVE  Simple(Reply(j, s), j) /\ Simple(ClosedOf(j, s), j) /\ Simple(SentOf(j, s, data), j)
<1> DEFINE r == Reply(j, s)
<1>1. Simple(r, j)
  <2>1. r.pc = "done" /\ Work(r, j) /\ Target(r, j) /\ r.error = j.error /\ r.status = s /\ r.q = j.q
    BY DEF Reply, Local, IsJob, Full, Fields, Work, Target
  <2> HIDE DEF r
  <2> QED BY <2>1, SimpleEnd
<1>2. ASSUME NEW k, k = ClosedOf(j, s) \/ k = SentOf(j, s, data) PROVE Simple(k, j)
  <2>1. k.pc = "done" /\ Work(k, j) /\ Target(k, j) /\ k.error = j.error /\ k.status = s
    BY <1>2, WithClose DEF Local, IsJob
  <2> QED BY <2>1, SimpleEnd DEF Work
<1>. QED
  BY <1>1, <1>2

LEMMA SimpleRefusal ==
  ASSUME NEW j, Local(j), j.pc \notin {"send", "done"},
         NEW s \in {401, 403, 404, 405, 409, 411, 415, 417, 423, 500, 503}
  PROVE  Simple(send_http_error(j, s), j)
<1> DEFINE k == send_http_error(j, s)
<1>1. Becomes(j, j) /\ Target(j, j) /\ s # 204 /\ s # 304
      /\ s \in {204, 304, 401, 403, 404, 405, 409, 411, 415, 417, 423, 500, 503}
  BY BecomesItself DEF Target
<1>2. k = send_http_error(j, s)
  OBVIOUS
<1> HIDE DEF k
<1>3. Simple(k, j)
  BY <1>1, <1>2, SimpleError
<1>. QED
  BY <1>3 DEF k

-----------------------------------------------------------------------------
\* What interpret_uri finds is what is there.
LEMMA InterpretedFresh ==
  ASSUME FileSystem, NEW j, Full(j), NEW k, k = [interpret_uri(j) EXCEPT !.pc = "auth"]
  PROVE  /\ Full(k) /\ Work(k, j) /\ Verdict(k, j) /\ k.path = j.path /\ k.pc = "auth"
         /\ config.document_root => Fresh(k)
<1> DEFINE m == interpret_uri(j)
           put == is_put_or_delete_method(j.q)
           k0 == [j EXCEPT !.put = put, !.cb = FALSE, !.script = FALSE, !.stat = NoStat]
           above == {p \in Paths : IsStrictPrefix(p, j.path) /\ Exists(p) /\ Kind(p) = "cgi"} # {}
           inIt == Kind(j.path) = "cgi" /\ ~put
           st == mg_stat(Zipped(j.path))
           zip == [st EXCEPT !.gz = TRUE]
           here == mg_stat(j.path)
<1>1. \/ ~config.document_root /\ m = k0
      \/ m = [k0 EXCEPT !.stat = here, !.script = inIt]
      \/ ~Exists(j.path) /\ Exists(Zipped(j.path)) /\ m = [k0 EXCEPT !.stat = zip]
      \/ ~Exists(j.path) /\ m = [k0 EXCEPT !.script = above]
  BY Zenon DEF interpret_uri
<1>2. ~NoStat.found /\ ~NoStat.gz
  BY DEF NoStat
<1>3. Exists(Zipped(j.path)) => zip.found /\ zip.gz /\ zip.size = st.size /\ zip.mtime = st.mtime
                                /\ st.size = Len(File(Zipped(j.path)).data)
                                /\ st.mtime = File(Zipped(j.path)).mtime
  <2> SUFFICES ASSUME Exists(Zipped(j.path))
               PROVE  zip.found /\ zip.gz /\ zip.size = st.size /\ zip.mtime = st.mtime
                      /\ st.size = Len(File(Zipped(j.path)).data) /\ st.mtime = File(Zipped(j.path)).mtime
    OBVIOUS
  <2>1. st = [found |-> TRUE, gz |-> FALSE, dir |-> File(Zipped(j.path)).dir,
              size |-> Len(File(Zipped(j.path)).data), mtime |-> File(Zipped(j.path)).mtime]
    BY DEF mg_stat
  <2> HIDE DEF st
  <2> QED BY <2>1
<1> HIDE DEF put, above, inIt, zip, m, here, st
<1>4. /\ Full(k0) /\ k0.stat = NoStat /\ Work(k0, j) /\ Verdict(k0, j) /\ k0.path = j.path
  BY DEF Full, Fields, Work, Verdict
<1> HIDE DEF k0
<1>5. k = [m EXCEPT !.pc = "auth"]
  BY DEF m
<1>6. CASE ~config.document_root /\ m = k0
  BY <1>4, <1>5, <1>6 DEF Full, Fields, Work, Verdict
<1>7. CASE m = [k0 EXCEPT !.stat = here, !.script = inIt]
  <2>1. Full(k) /\ Work(k, j) /\ Verdict(k, j) /\ k.path = j.path /\ k.pc = "auth" /\ k.stat = here
    BY ZenonT(40), <1>4, <1>5, <1>7 DEF Full, Fields, Work, Verdict
  <2>2. k.stat = mg_stat(k.path)
    BY <2>1 DEF here
  <2>3. Fresh(k)
    BY <2>2, FreshStat
  <2> QED BY <2>1, <2>3
<1>8. CASE ~Exists(j.path) /\ Exists(Zipped(j.path)) /\ m = [k0 EXCEPT !.stat = zip]
  <2>1. Full(k) /\ Work(k, j) /\ Verdict(k, j) /\ k.path = j.path /\ k.pc = "auth" /\ k.stat = zip
    BY ZenonT(40), <1>4, <1>5, <1>8 DEF Full, Fields, Work, Verdict
  <2>2. Served(k) = Zipped(j.path)
    BY <1>3, <1>8, <2>1 DEF Served
  <2>3. Fresh(k)
    BY <1>3, <1>8, <2>1, <2>2 DEF Fresh
  <2> QED BY <2>1, <2>3
<1>9. CASE ~Exists(j.path) /\ m = [k0 EXCEPT !.script = above]
  <2>1. Full(k) /\ Work(k, j) /\ Verdict(k, j) /\ k.path = j.path /\ k.pc = "auth" /\ k.stat = NoStat
    BY ZenonT(40), <1>4, <1>5, <1>9 DEF Full, Fields, Work, Verdict
  <2>2. Fresh(k)
    BY <1>2, <1>9, <2>1 DEF Fresh
  <2> QED BY <2>1, <2>2
<1>. QED
  BY <1>1, <1>6, <1>7, <1>8, <1>9

\* Nothing was done before a method is chosen.
LEMMA EarlyFacts ==
  ASSUME NEW j, Local(j), j.pc \in {"lookup", "auth", "callback", "serve", "PUT", "DELETE", "MKCOL"}
  PROVE  /\ ~j.changed /\ j.error = 0 /\ j.status = 0 /\ j.ino = 0 /\ j.seen = {} /\ Full(j)
         /\ j.path = j.q.path
BY DEF Local, IsJob, Begun, Clean, EarlyStages, PutStages, DeleteStages, MkcolStages

LEMMA LookupCalm ==
  ASSUME Shared, NEW t \in Workers, Local(job[t]), Lookup(t) \/ Callback(t)
  PROVE  Calms(t)
<1> DEFINE j == job[t]
           found == [interpret_uri(j) EXCEPT !.pc = "auth"]
           put == is_put_or_delete_method(j.q)
           app == [j EXCEPT !.cb = TRUE, !.script = TRUE, !.pc = "auth", !.put = put]
<1>1. /\ j.pc \in {"lookup", "callback"} /\ Quiet
      /\ Step(t, found) \/ Step(t, app) \/ Step(t, Reply(j, 0))
  BY DEF Lookup, Callback
<1>2. ~j.changed /\ j.error = 0 /\ j.status = 0 /\ Full(j)
  BY <1>1, EarlyFacts
<1>3. Simple(found, j)
  <2>1. /\ Work(found, j) /\ Verdict(found, j) /\ found.path = j.path /\ found.pc = "auth"
        /\ config.document_root => Fresh(found)
    <3> HIDE DEF found
    <3> QED BY <1>2, InterpretedFresh DEF Shared, found
  <2> HIDE DEF found
  <2> QED BY <1>1, <1>2, <2>1 DEF Simple, Work, Verdict
<1>4. Simple(app, j)
  <2> HIDE DEF put
  <2>1. /\ Work(app, j) /\ Verdict(app, j) /\ app.path = j.path /\ app.pc = "auth" /\ app.cb = TRUE
    BY <1>2 DEF Full, Fields, Work, Verdict
  <2> HIDE DEF app
  <2> QED BY <1>1, <1>2, <2>1 DEF Simple, Work, Verdict
<1>5. Simple(Reply(j, 0), j)
  BY <1>1, Replied
<1> HIDE DEF found, app
<1>. QED
  BY <1>1, <1>3, <1>4, <1>5 DEF Calms

LEMMA AuthCalm ==
  ASSUME Shared, NEW t \in Workers, Local(job[t]), Undisturbed(job[t]), Auth(t)
  PROVE  Calms(t)
<1> DEFINE j == job[t]
           pc == IF j.cb THEN "callback" ELSE "serve"
           go == [j EXCEPT !.pc = pc]
           bad == send_authorization_request(j)
<1>1. /\ j.pc = "auth" /\ Quiet
      /\ Step(t, go) \/ Step(t, Reply(j, 0)) \/ Step(t, send_http_error(j, 405)) \/ Step(t, bad)
  BY DEF Auth
<1>2. ~j.changed /\ j.error = 0 /\ j.status = 0 /\ Full(j)
  BY <1>1, EarlyFacts
<1>3. Simple(go, j)
  <2> HIDE DEF pc
  <2>1. /\ go.pc = pc /\ Work(go, j) /\ Choice(go, j) /\ Verdict(go, j) /\ Target(go, j)
    BY <1>2, Going
  <2> HIDE DEF go
  <2>2. pc = IF j.cb THEN "callback" ELSE "serve"
    BY DEF pc
  <2>3. ~j.disturbed /\ config.document_root /\ ~j.cb => Fresh(j)
    BY <1>1, <1>2 DEF Undisturbed, Looked
  <2>4. Fresh(j) => Fresh(go)
    BY <2>1 DEF Fresh, Served, Target
  <2> QED
    BY <1>1, <1>2, <2>1, <2>2, <2>3, <2>4 DEF Simple, Work, Choice, Verdict
<1>4. Simple(Reply(j, 0), j) /\ Simple(send_http_error(j, 405), j)
  <2> HIDE DEF go, bad, pc
  <2> QED BY SMTT(30), <1>1, Replied, SimpleRefusal
<1>5. Simple(bad, j)
  <2>1. bad = NoPageOf(j, 401, 401)
    BY <1>2 DEF send_authorization_request, NoPageOf, Reply, Full, Fields
  <2> HIDE DEF bad
  <2>2. Work(bad, j) /\ Target(bad, j) /\ bad.pc = "done" /\ bad.status = 401 /\ bad.error = 401
    BY <1>2, <2>1, WithoutPage
  <2> QED BY <1>1, <2>2, SimpleEnd
<1> HIDE DEF go, bad
<1>. QED
  BY <1>1, <1>3, <1>4, <1>5 DEF Calms

\* A file is answered as not modified only when it is not.
LEMMA FileCalm ==
  ASSUME Shared, Named, NEW j, Local(j), j.pc = "serve", NEW m, Becomes(m, j), ~j.disturbed => Fresh(m),
         NEW k, k = handle_file_based_request(m)
  PROVE  Simple(k, j)
<1>0. ~j.changed /\ j.error = 0 /\ j.status = 0 /\ Full(j) /\ Full(m) /\ (m.stat.gz => m.stat.found)
  BY EarlyFacts DEF Becomes
<1>1. CASE Kind(m.path) = "static" /\ is_not_modified(m)
  <2>1. k = send_http_error(m, 304)
    BY <1>1 DEF handle_file_based_request
  <2>2. ASSUME ~j.disturbed PROVE Unmodified(m.path)
    <3> SUFFICES ASSUME Exists(m.path) PROVE File(m.path).mtime <= copies[m.path].date
      BY DEF Unmodified
    <3>1. m.stat.found /\ ~m.stat.gz /\ m.stat.mtime = File(m.path).mtime
      BY <1>0, <2>2 DEF Fresh, Served
    <3>2. File(m.path).mtime # 0
      BY DEF Named, Exists, File
    <3> QED BY <1>1, <3>1, <3>2 DEF is_not_modified
  <2>3. j.pc \notin {"send", "done"} /\ (Target(m, j) \/ j.error = 0)
    BY <1>0
  <2> DEFINE s == 304
  <2>4. s \in {204, 304, 401, 403, 404, 405, 409, 411, 415, 417, 423, 500, 503} /\ s # 204 /\ k = send_http_error(m, s)
    BY <2>1
  <2> HIDE DEF s
  <2> QED BY <2>2, <2>3, <2>4, SimpleError
<1>2. CASE ~ (Kind(m.path) = "static" /\ is_not_modified(m))
  <2>1. k = [m EXCEPT !.pc = Kind(m.path)]
    BY <1>2 DEF handle_file_based_request
  <2> DEFINE kind == Kind(m.path)
  <2>2. kind \in {"cgi", "ssi", "static"} /\ k = [m EXCEPT !.pc = kind]
    BY <2>1, KindOf
  <2> HIDE DEF kind
  <2>3. Full(k) /\ Work(k, m) /\ Target(k, m) /\ Verdict(k, m) /\ k.pc = kind
    BY <1>0, <2>2, Going
  <2>4. Fresh(m) => Fresh(k)
    BY <2>3 DEF Fresh, Served, Target
  <2> QED BY <1>0, <2>2, <2>3, <2>4 DEF Becomes, Simple, Work, Verdict
<1>. QED
  BY <1>1, <1>2

LEMMA ServeCalm ==
  ASSUME Shared, Named, NEW t \in Workers, Local(job[t]), Undisturbed(job[t]), Serve(t)
  PROVE  Calms(t)
<1> DEFINE j == job[t]
           m == j.q.method
           i == Index(j.path)
           p == Append(j.path, config.index_files[i])
           dir == [j EXCEPT !.path = p, !.stat = mg_stat(p)]
           list == [j EXCEPT !.pc = "list"]
           opt == [Reply(j, 200) EXCEPT !.must_close = TRUE]
           go == [j EXCEPT !.pc = m]
           root == config.document_root
<1>1. j.pc = "serve" /\ Quiet /\ j.q \in clients.requests
  BY DEF Serve, Local, Begun, EarlyStages, Clean
<1>2. ~j.changed /\ j.error = 0 /\ j.status = 0 /\ Full(j) /\ ~j.cb
  BY <1>1, EarlyFacts DEF Local, Chosen
<1>3. /\ Simple(send_http_error(j, 403), j) /\ Simple(send_http_error(j, 404), j) /\ Simple(send_http_error(j, 405), j)
      /\ Simple(Reply(j, 301), j)
  <2> HIDE DEF go, dir, list, opt
  <2> QED BY <1>1, SimpleRefusal, Replied
<1>4. Simple(opt, j)
  <2>1. opt = ClosedOf(j, 200)
    BY DEF ClosedOf
  <2> HIDE DEF opt, go, dir, list
  <2> QED BY <1>1, <2>1, Replied
<1>5. Simple(list, j)
  <2>1. list.pc = "list" /\ Work(list, j) /\ Verdict(list, j)
    BY <1>2, Going
  <2> HIDE DEF list
  <2> QED BY <1>1, <1>2, <2>1, SimpleMove DEF Verdict
<1>6. ASSUME j.put, m # "PATCH" PROVE Simple(go, j)
  <2>1. go.pc = m /\ Work(go, j) /\ Verdict(go, j)
    <3> HIDE DEF m
    <3> QED BY <1>2, Going
  <2>2. m \in {"PUT", "DELETE", "MKCOL"}
    BY <1>1, <1>6 DEF Local, Chosen, is_put_or_delete_method
  <2> HIDE DEF go
  <2> QED BY <1>1, <1>2, <2>1, <2>2, SimpleMove DEF Verdict
<1>7. ASSUME root PROVE Simple(handle_file_based_request(j), j)
  <2>1. ~j.disturbed => Fresh(j)
    BY <1>1, <1>2, <1>7 DEF Undisturbed, Looked
  <2> DEFINE f == handle_file_based_request(j)
  <2>2. Becomes(j, j) /\ f = handle_file_based_request(j)
    BY BecomesItself
  <2> HIDE DEF f, dir, go, list, opt
  <2>3. Simple(f, j)
    BY <1>1, <2>1, <2>2, FileCalm
  <2> QED BY <2>3 DEF f
<1>8. ASSUME i # 0 PROVE Simple(handle_file_based_request(dir), j)
  <2>1. i \in 1..Len(config.index_files)
    <3> DEFINE At == {n \in 1..Len(config.index_files) : Exists(Append(j.path, config.index_files[n]))}
    <3>1. i = IF At # {} THEN Min(At) ELSE 0
      BY DEF Index, SelectInSeq
    <3>2. Len(config.index_files) \in Nat
      BY WorldFacts DEF Shared
    <3> HIDE DEF i, At
    <3>3. At \in SUBSET (1..Len(config.index_files))
      BY DEF At
    <3>4. i \in 0..Len(config.index_files)
      BY <3>1, <3>2, <3>3, FirstOf
    <3> QED BY <1>8, <3>2, <3>4
  <2> DEFINE st == mg_stat(p)
  <2>2. p \in Seq(STRING)
    <3>1. config.index_files[i] \in STRING
      BY <2>1, WorldFacts DEF Shared
    <3> HIDE DEF i
    <3> QED BY <3>1 DEF Local, IsJob, Typed
  <2>3. st \in Stats /\ ~st.gz
    BY StatTyped DEF Shared
  <2>4. dir = [j EXCEPT !.path = p, !.stat = st]
    OBVIOUS
  <2> HIDE DEF p, st, dir
  <2>5. Full(dir) /\ dir.path = p /\ dir.stat = st /\ dir.pc = j.pc /\ Work(dir, j) /\ Choice(dir, j) /\ Verdict(dir, j)
        /\ dir.sent = j.sent
    BY <1>2, <2>4 DEF Full, Fields, Work, Choice, Verdict
  <2>6. Typed(dir)
    BY <2>2, <2>3, <2>5 DEF Typed, Choice, Verdict, Work, Local, IsJob
  <2>7. Becomes(dir, j)
    BY <2>3, <2>5, <2>6 DEF Becomes
  <2>8. Fresh(dir)
    <3>1. dir.stat = mg_stat(dir.path)
      BY <2>5 DEF st
    <3> QED BY <3>1, FreshStat
  <2> DEFINE f == handle_file_based_request(dir)
  <2>9. f = handle_file_based_request(dir)
    OBVIOUS
  <2> HIDE DEF f, go, list, opt
  <2>10. Simple(f, j)
    BY <1>1, <2>7, <2>8, <2>9, FileCalm
  <2> QED BY <2>10 DEF f
<1> HIDE DEF dir, i
<1>9. Step(t, IF ~root THEN send_http_error(j, 404)
          ELSE IF j.script THEN handle_file_based_request(j)
          ELSE IF j.put
               THEN IF m = "PATCH" THEN send_http_error(j, 405) ELSE go
          ELSE IF ~j.stat.found \/ Name(j.path) \in config.hidden THEN send_http_error(j, 404)
          ELSE IF j.stat.dir /\ ~j.q.slash THEN Reply(j, 301)
          ELSE IF m = "PROPFIND" THEN list
          ELSE IF m = "OPTIONS" THEN opt
          ELSE IF m \notin {"GET", "HEAD"} THEN send_http_error(j, 405)
          ELSE IF j.stat.dir
               THEN IF i # 0 THEN handle_file_based_request(dir)
                    ELSE IF config.listing THEN list ELSE send_http_error(j, 403)
          ELSE handle_file_based_request(j))
  BY DEF Serve, Directory, dir, i
<1> HIDE DEF list, opt, go, root
<1>11. \/ Step(t, send_http_error(j, 403)) \/ Step(t, send_http_error(j, 404)) \/ Step(t, send_http_error(j, 405))
       \/ Step(t, Reply(j, 301)) \/ Step(t, list) \/ Step(t, opt)
       \/ Step(t, go) /\ j.put /\ m # "PATCH"
       \/ Step(t, handle_file_based_request(j)) /\ root
       \/ Step(t, handle_file_based_request(dir)) /\ i # 0
  <2> HIDE DEF m
  <2> QED BY <1>9, Zenon
<1>. QED
  BY <1>1, <1>3, <1>4, <1>5, <1>6, <1>7, <1>8, <1>11 DEF Calms

LEMMA PagesCalm ==
  ASSUME Shared, NEW t \in Workers, Local(job[t]), Ssi(t) \/ List(t) \/ Cgi(t)
  PROVE  Calms(t)
<1> DEFINE j == job[t]
<1>1. j.pc \in {"ssi", "list", "cgi"} /\ Quiet
  BY DEF Ssi, List, Cgi
<1>2. Simple(send_http_error(j, 500), j)
  BY <1>1, SimpleRefusal
<1>3. ASSUME NEW s \in {0, 200, 207}, NEW data
      PROVE  Simple(ClosedOf(j, s), j) /\ Simple(SentOf(j, s, data), j)
  BY <1>1, Replied
<1>4. CASE Ssi(t)
  <2> DEFINE x == send_ssi_file(j.path)
  <2>1. Step(t, send_http_error(j, 500)) \/ Step(t, [Reply(j, 200) EXCEPT !.must_close = TRUE, !.sent = x])
    BY <1>4 DEF Ssi
  <2> HIDE DEF x
  <2>2. Step(t, send_http_error(j, 500)) \/ Step(t, SentOf(j, 200, x))
    BY <2>1 DEF SentOf
  <2> QED BY <1>1, <1>2, <1>3, <2>2 DEF Calms
<1>5. CASE List(t)
  <2> DEFINE s == IF j.q.method = "PROPFIND" THEN 207 ELSE 200
  <2>1. \E x : Step(t, send_http_error(j, 500)) \/ Step(t, [Reply(j, s) EXCEPT !.must_close = TRUE, !.sent = x])
    BY Zenon, <1>5 DEF List
  <2>2. s \in {0, 200, 207}
    OBVIOUS
  <2> HIDE DEF s
  <2>3. \E x : Step(t, send_http_error(j, 500)) \/ Step(t, SentOf(j, s, x))
    BY Zenon, <2>1 DEF SentOf
  <2> QED BY <1>1, <1>2, <1>3, <2>2, <2>3 DEF Calms
<1>6. CASE Cgi(t)
  BY <1>1, <1>3, <1>6 DEF Cgi, Calms, ClosedOf
<1>. QED
  BY <1>4, <1>5, <1>6

-----------------------------------------------------------------------------
-----------------------------------------------------------------------------
\* What is known of a job stays known when nothing it speaks of changes.
LEMMA UndisturbedCarries ==
  ASSUME UNCHANGED <<config, fs, inodes, copies>>, NEW u, NEW k, job'[u] = k, Undisturbed(k)
  PROVE  Undisturbed(job[u])'
<1> SUFFICES ASSUME ~k.disturbed
             PROVE  /\ Looked(job[u])' /\ Sent(job[u])' /\ Written(job[u])' /\ Removed(job[u])'
                    /\ NotModified(job[u])'
  BY DEF Undisturbed
<1>1. Looked(k) /\ Sent(k) /\ Written(k) /\ Removed(k) /\ NotModified(k)
  BY DEF Undisturbed
<1>2. Looked(job[u])'
  BY <1>1 DEF Looked, Fresh, Exists, Paths, File, Served, Zipped
<1>3. Sent(job[u])'
  BY <1>1 DEF Sent, Sending, Exists, Paths, File, Slice, Start
<1>4. Written(job[u])'
  BY <1>1 DEF Written, Writing, Exists, Paths
<1>5. Removed(job[u])' /\ NotModified(job[u])'
  BY <1>1 DEF Removed, NotModified, Unmodified, IsDir, Exists, Paths, File
<1>. QED
  BY <1>2, <1>3, <1>4, <1>5

LEMMA OpenCarries ==
  ASSUME UNCHANGED <<config, fs, inodes>>, NEW u, NEW k, job'[u] = k, OpenBy(k)
  PROVE  OpenBy(job[u])'
BY DEF OpenBy, Holds, Held, Served, Zipped, Paths

LEMMA SameNameCarries ==
  ASSUME config' = config, NEW u, NEW v, NEW k, NEW m, job'[u] = k, job'[v] = m, SameName(k, m)
  PROVE  SameName(job[u], job[v])'
BY DEF SameName, Holds, Held, Served, Zipped

\* After a step that changes no file, of t, what is known of t's job suffices.
LEMMA AfterCalm ==
  ASSUME FilesInv, JobsInv', UNCHANGED <<config, fs, inodes, now, copies>>, NEW t \in Workers,
         NEW k, Step(t, k), Undisturbed(k), k.date <= now, OpenBy(k),
         \A u \in Workers : SameName(k, job[u]) /\ SameName(job[u], k)
  PROVE  FilesInv'
<1>1. job'[t] = k /\ \A u \in Workers \ {t} : job'[u] = job[u]
  BY DEF Step, FilesInv, JobsInv
<1>2. Named' /\ Copies'
  BY DEF FilesInv, Named, Copies, Exists, File, Paths
<1>3. ASSUME NEW u \in Workers PROVE (job[u].date <= now)' /\ Undisturbed(job[u])' /\ OpenBy(job[u])'
  <2> DEFINE m == job'[u]
  <2>1. m.date <= now /\ Undisturbed(m) /\ OpenBy(m)
    BY <1>1 DEF FilesInv, OpenInodes
  <2> QED BY <2>1, UndisturbedCarries, OpenCarries
<1>4. ASSUME NEW u \in Workers, NEW v \in Workers PROVE SameName(job[u], job[v])'
  <2> DEFINE m == job'[u]
             n == job'[v]
  <2>0. SameName(k, k)
    BY DEF SameName
  <2>1. SameName(m, n)
    BY <1>1, <2>0 DEF FilesInv, OpenInodes
  <2> QED BY <2>1, SameNameCarries
<1>. QED
  BY <1>2, <1>3, <1>4 DEF FilesInv, OpenInodes

-----------------------------------------------------------------------------
LEMMA NotHolding ==
  ASSUME NEW k, ~Holds(k)
  PROVE  OpenBy(k) /\ \A j : SameName(k, j) /\ SameName(j, k)
BY DEF OpenBy, SameName

LEMMA AfterSimple ==
  ASSUME FilesInv, JobsInv', UNCHANGED <<config, fs, inodes, now, copies>>, NEW t \in Workers, Calms(t)
  PROVE  FilesInv'
<1>1. PICK k : Step(t, k) /\ Simple(k, job[t])
  BY DEF Calms
<1> DEFINE j == job[t]
<1>2. Local(j) /\ Undisturbed(j) /\ j.date <= now
  BY DEF FilesInv, JobsInv
<1>3. Undisturbed(k) /\ ~Holds(k) /\ k.date = j.date
  <2> HIDE DEF j
  <2>1. Simple(k, j)
    BY <1>1 DEF j
  <2> QED BY <1>2, <2>1, SimpleSteps
<1>. QED
  BY <1>1, <1>2, <1>3, NotHolding, AfterCalm

LEMMA AfterBegin ==
  ASSUME FilesInv, JobsInv', NEW t \in Workers, NEW q \in clients.requests, Begin(t, q)
  PROVE  FilesInv'
<1> DEFINE j == [Idle EXCEPT !.q = q, !.path = q.path, !.date = now]
           go == [j EXCEPT !.pc = "lookup"]
<1>1. /\ Full(Idle) /\ Idle.error = 0 /\ Idle.status = 0 /\ Idle.ino = 0
  BY DEF Idle, Full, Fields
<1> HIDE DEF j
<1>2. Full(j) /\ j.error = 0 /\ j.status = 0 /\ j.ino = 0 /\ j.date = now
  BY <1>1 DEF j, Full, Fields
<1>3. ASSUME NEW k, k = Reply(j, 302) \/ k = Reply(j, 0) \/ k = go \/ k = send_http_error(j, 503)
      PROVE  Undisturbed(k) /\ ~Holds(k) /\ k.date = now
  <2>1. CASE k = Reply(j, 302) \/ k = Reply(j, 0) \/ k = go
    <3>1. k.pc \in {"done", "lookup"} /\ k.ino = 0 /\ k.error = 0 /\ k.status \in {0, 302} /\ k.date = now
      <4>1. CASE k = Reply(j, 302)
        BY <1>2, <4>1 DEF Reply, Full, Fields
      <4>2. CASE k = Reply(j, 0)
        BY <1>2, <4>2 DEF Reply, Full, Fields
      <4>3. CASE k = go
        BY <1>2, <4>3 DEF Full, Fields
      <4> QED BY <2>1, <4>1, <4>2, <4>3
    <3> QED BY <3>1 DEF Undisturbed, Looked, Sent, Written, Removed, NotModified, Holds
  <2>2. CASE k = send_http_error(j, 503)
    <3> DEFINE s == 503
    <3>1. k = send_http_error(j, s)
      BY <2>2
    <3> HIDE DEF s
    <3>2. /\ Work(k, j) /\ Choice(k, j)
          /\ \/ /\ j.error = 0 /\ k.error = s /\ k.status = j.status
                /\ Exists(k.path) /\ Fresh(k) /\ k.pc \in {"cgi", "ssi", "static"}
             \/ /\ k.pc = "done" /\ k.status = s /\ Target(k, j)
                /\ k.error = IF j.error = 0 THEN s ELSE j.error
      BY <1>2, <3>1, ErrorOf
    <3> QED
      BY <1>2, <3>2 DEF s, Work, Undisturbed, Looked, Sent, Written, Removed, NotModified, Holds
  <2> QED BY <1>3, <2>1, <2>2
<1>4. UNCHANGED <<config, fs, inodes, now, copies>> /\ now \in Nat
  BY DEF Begin, FilesInv, JobsInv, Shared, FileSystem
<1>5. PICK k : Step(t, k) /\ (k = Reply(j, 302) \/ k = Reply(j, 0) \/ k = go \/ k = send_http_error(j, 503))
  BY DEF Begin, j
<1>6. Undisturbed(k) /\ ~Holds(k) /\ k.date <= now
  BY <1>3, <1>4, <1>5
<1>. QED
  BY <1>4, <1>5, <1>6, NotHolding, AfterCalm

-----------------------------------------------------------------------------
\* Sending

LEMMA AfterOpen ==
  ASSUME FilesInv, JobsInv', NEW t \in Workers, Open(t)
  PROVE  FilesInv'
<1> DEFINE j == job[t]
           p == Served(j)
           r == Slice(j)
           data == File(p).data
           status == IF j.q.range = <<>> THEN 200 ELSE 206
           pos == IF r.from > Len(data) THEN Len(data) ELSE r.from
           pc == IF j.q.method = "HEAD" THEN "done" ELSE "send"
           k == [j EXCEPT !.ino = fs[p], !.whole = data, !.announced = r.cl,
                         !.status = status, !.pos = pos, !.left = r.cl, !.date = now, !.pc = pc]
<1>1. /\ j.pc = "static" /\ j.q \in clients.requests /\ Local(j) /\ Undisturbed(j) /\ Full(j)
      /\ UNCHANGED <<config, fs, inodes, now, copies>>
  BY DEF Open, Quiet, FilesInv, JobsInv, Local, IsJob, Begun, EarlyStages
<1>2. CASE ~Exists(p)
  <2>1. Step(t, send_http_error(j, 500)) /\ Quiet
    BY <1>2 DEF Open
  <2>2. Simple(send_http_error(j, 500), j)
    <3> HIDE DEF k, j
    <3> QED BY <1>1, SimpleRefusal
  <2> QED BY <1>1, <2>1, <2>2, AfterSimple DEF Calms
<1>3. CASE Exists(p)
  <2>1. Step(t, k)
    BY <1>3 DEF Open
  <2>2. /\ fs[p] \in 1..MaxInodes /\ data \in Seq(Marks) /\ Len(data) \in Nat /\ now \in Nat /\ p \in Paths
        /\ inodes[fs[p]].mtime # 0 /\ inodes[fs[p]].mtime <= now /\ inodes[fs[p]].data = data
        /\ \A x \in Paths : fs[x] = fs[p] => x = p
    BY <1>3, WorldsAssumption DEF FilesInv, JobsInv, Shared, FileSystem, Named, Exists, File, Inodes
  <2> DEFINE first == IF j.q.range = <<>> THEN 0 ELSE j.q.range[1]
  <2>3. r.from \in Nat /\ r.cl \in Int /\ r.from = first
    <3>1. Asked(j.q) /\ j.stat.size \in Nat
      BY <1>1, WorldFacts DEF FilesInv, JobsInv, Shared, Local, IsJob, Typed, Stats
    <3> HIDE DEF r
    <3> QED BY <3>1, SliceTyped DEF r
  <2>4. pc \in {"done", "send"} /\ (j.q.method = "GET" => pc = "send") /\ (pc = "done" => j.q.method = "HEAD")
    OBVIOUS
  <2>5. pos = (IF first > Len(data) THEN Len(data) ELSE first) /\ first \in Nat /\ pos \in 0..Len(data)
    <3> HIDE DEF data, r, first
    <3> QED BY <2>2, <2>3
  <2> DEFINE ino == fs[p]
             cl == r.cl
             n == Len(data)
  <2>6. k = [j EXCEPT !.ino = ino, !.whole = data, !.announced = cl,
                         !.status = status, !.pos = pos, !.left = cl, !.date = now, !.pc = pc]
    OBVIOUS
  <2>s. status # 201 /\ status # 304
    OBVIOUS
  <2> HIDE DEF ino, data, cl, status, pos, pc, k
  <2>8. /\ k.ino = ino /\ k.whole = data /\ k.announced = cl /\ k.status = status /\ k.pos = pos /\ k.left = cl
        /\ k.date = now /\ k.pc = pc /\ k.q = j.q /\ k.error = j.error /\ k.changed = j.changed
    BY <1>1, <2>6 DEF Full, Fields
  <2>9. Target(k, j) /\ k.disturbed = j.disturbed /\ k.seen = j.seen /\ k.sent = j.sent
    BY <1>1, <2>6 DEF Full, Fields, Target
  <2>10. ino \in 1..MaxInodes /\ cl \in Int /\ p = Served(k) /\ p = Served(j)
    BY <2>2, <2>3, <2>8, <2>9 DEF ino, cl, Served, Target
  <2>11. OpenBy(k) /\ k.date <= now
    <3>1. k.pc = "send" \/ k.pc = "done"
      BY <2>4, <2>8
    <3>2. Held(k) = p \/ k.pc = "done"
      BY <2>10, <3>1 DEF Held
    <3> HIDE DEF p
    <3> QED BY <2>2, <2>8, <3>1, <3>2 DEF OpenBy, Holds, ino
  <2>12. ASSUME NEW u \in Workers PROVE SameName(k, job[u]) /\ SameName(job[u], k)
    <3>1. OpenBy(job[u])
      BY DEF FilesInv, OpenInodes
    <3>2. Holds(k) /\ Holds(job[u]) /\ job[u].ino = k.ino => Held(job[u]) = Held(k)
      <4> SUFFICES ASSUME Holds(k), Holds(job[u]), job[u].ino = k.ino PROVE Held(job[u]) = Held(k)
        OBVIOUS
      <4>1. p = Held(job[u])
        <5> HIDE DEF p
        <5> QED BY <2>2, <2>8, <3>1 DEF OpenBy, ino
      <4>2. p = Held(k)
        BY <2>4, <2>8, <2>10 DEF Holds, Held
      <4> QED BY <4>1, <4>2
    <3> QED BY <3>2 DEF SameName
  <2>13. Undisturbed(k)
    <3> SUFFICES ASSUME ~k.disturbed
                 PROVE  Looked(k) /\ Sent(k) /\ Written(k) /\ Removed(k) /\ NotModified(k)
      BY DEF Undisturbed
    <3>1. Looked(j) /\ Removed(j) /\ ~j.disturbed
      BY <1>1, <2>9 DEF Undisturbed
    <3>2. ~j.changed => Fresh(j)
      BY <1>1, <3>1 DEF Looked
    <3>3. ~j.changed => /\ j.stat.found /\ j.stat.size = Len(data) /\ (j.stat.gz => ~Exists(j.path))
      BY <1>1, <1>3, <3>2 DEF Fresh, Served, data, Local, Begun
    <3>4. Sent(k)
      <4>1. ASSUME k.q.method = "GET"
            PROVE  /\ Sending(k)
                   /\ Exists(k.path) => fs[k.path] = k.ino /\ File(k.path).data = k.whole /\ File(k.path).mtime <= k.date
        <5>1. ~j.changed
          BY <1>1, <2>8, <4>1 DEF Local, Changed
        <5>2. k.pc = "send"
          BY <2>4, <2>8, <4>1
        <5>3. Exists(k.path) => k.path = p
          BY <2>9, <2>10, <3>3, <5>1 DEF Target, Served
        <5>4. Slice(k).cl = cl
          <6>1. Slice(k) = Slice(j)
            BY <2>8, <2>9 DEF Slice, Target
          <6> QED BY <6>1 DEF cl
        <5>5. Start(k) = pos
          BY <2>5, <2>8 DEF Start
        <5>6. k.sent = SubSeq(k.whole, pos + 1, pos)
          <6>1. k.sent = <<>>
            BY <1>1, <2>9 DEF Local, Begun
          <6>2. SubSeq(data, pos + 1, pos) = <<>>
            BY <2>2, <2>5, SubSeqProperties
          <6> QED BY <2>8, <6>1, <6>2
        <5>7. inodes[k.ino].data = k.whole
          BY <2>2, <2>8 DEF ino
        <5>8. Sending(k)
          <6>1. k.stat.size = Len(k.whole) /\ k.announced = Slice(k).cl
            BY <2>8, <2>9, <3>3, <5>1, <5>4 DEF Target
          <6>2. Start(k) <= k.pos /\ k.pos <= Len(k.whole)
            BY <2>2, <2>5, <2>8, <5>5
          <6>3. k.sent = SubSeq(k.whole, Start(k) + 1, k.pos)
            BY <2>8, <5>5, <5>6
          <6>4. k.left = k.announced - (k.pos - Start(k)) /\ (k.announced >= 0 => k.left >= 0)
            BY <2>2, <2>5, <2>8, <2>10, <5>5
          <6> QED BY <5>2, <5>7, <6>1, <6>2, <6>3, <6>4 DEF Sending
        <5>9. ASSUME Exists(k.path)
              PROVE  fs[k.path] = k.ino /\ File(k.path).data = k.whole /\ File(k.path).mtime <= k.date
          BY <2>2, <2>8, <5>3, <5>9 DEF ino, File
        <5> QED BY <5>8, <5>9
      <4>2. ASSUME k.pc = "send", k.q.method = "PUT", k.error = 0
            PROVE  FALSE
        <5>1. ~j.stat.found
          BY <1>1, <2>8, <4>2 DEF Local, Chosen
        <5>2. ~j.changed
          BY <1>1, <2>8, <4>2 DEF Local, Changed
        <5> QED BY <3>3, <5>1, <5>2
      <4> QED BY <4>1, <4>2 DEF Sent
    <3>5. Written(k)
      BY <2>4, <2>8 DEF Written
    <3>6. Looked(k)
      BY <2>4, <2>8 DEF Looked
    <3>7. Removed(k) /\ NotModified(k)
      BY <2>s, <2>8, <2>9, <3>1 DEF Removed, NotModified, Target
    <3> QED BY <3>4, <3>5, <3>6, <3>7
  <2> QED BY <1>1, <2>1, <2>11, <2>12, <2>13, AfterCalm
<1>. QED
  BY <1>2, <1>3

-----------------------------------------------------------------------------
\* Parts of what is sent or written.
LEMMA PartOf ==
  ASSUME NEW whole \in Seq(Marks), NEW a \in Nat, NEW c \in Nat, a <= c, c <= Len(whole)
  PROVE  /\ SubSeq(whole, a + 1, c) \in Seq(Marks) /\ Len(SubSeq(whole, a + 1, c)) = c - a
         /\ \A i \in 1..(c - a) : SubSeq(whole, a + 1, c)[i] = whole[a + i]
<1> DEFINE y == SubSeq(whole, a + 1, c)
           m == a + 1
<1>1. \A i \in m..c : whole[i] \in Marks
  BY ElementOfSeq
<1>2. m \in Int /\ c \in Int /\ y = SubSeq(whole, m, c)
  OBVIOUS
<1> HIDE DEF m, y
<1>3. /\ y \in Seq(Marks) /\ Len(y) = IF m <= c THEN c - m + 1 ELSE 0
      /\ \A i \in 1..c - m + 1 : y[i] = whole[m + i - 1]
  BY <1>1, <1>2, SubSeqProperties
<1>4. (IF m <= c THEN c - m + 1 ELSE 0) = c - a /\ c - m + 1 = c - a
      /\ \A i \in 1..(c - a) : m + i - 1 = a + i
  BY DEF m
<1>5. y \in Seq(Marks) /\ Len(y) = c - a /\ \A i \in 1..(c - a) : y[i] = whole[a + i]
  BY <1>3, <1>4
<1>. QED
  BY <1>5 DEF y, m

LEMMA OneMore ==
  ASSUME NEW whole \in Seq(Marks), NEW a \in Nat, NEW b \in Nat, a <= b, b < Len(whole)
  PROVE  /\ Append(SubSeq(whole, a + 1, b), whole[b + 1]) = SubSeq(whole, a + 1, b + 1)
         /\ Len(SubSeq(whole, a + 1, b)) = b - a
<1> DEFINE s == SubSeq(whole, a + 1, b)
           x == Append(s, whole[b + 1])
           y == SubSeq(whole, a + 1, b + 1)
           n == Len(whole)
<1>1. n \in Nat /\ b < n /\ \A i \in 1..n : whole[i] \in Marks
  BY ElementOfSeq
<1>2. s \in Seq(Marks) /\ Len(s) = b - a /\ \A i \in 1..(b - a) : s[i] = whole[a + i]
  BY <1>1, PartOf
<1>5. y \in Seq(Marks) /\ Len(y) = b + 1 - a /\ \A i \in 1..(b + 1 - a) : y[i] = whole[a + i]
  <2> DEFINE c == b + 1
  <2>1. c \in Nat /\ a <= c /\ c <= Len(whole) /\ y = SubSeq(whole, a + 1, c)
    BY <1>1
  <2> HIDE DEF c, y
  <2>2. y \in Seq(Marks) /\ Len(y) = c - a /\ \A i \in 1..(c - a) : y[i] = whole[a + i]
    BY <2>1, PartOf
  <2> QED BY <2>2 DEF c
<1>6. x \in Seq(Marks) /\ Len(x) = b - a + 1 /\ (\A i \in 1..(b - a) : x[i] = s[i]) /\ x[b - a + 1] = whole[b + 1]
  <2> DEFINE e == whole[b + 1]
  <2>1. e \in Marks
    BY <1>1
  <2> HIDE DEF e, s
  <2> QED BY <1>2, <2>1, AppendProperties
<1> HIDE DEF x, y, s
<1>7. ASSUME NEW i \in 1..Len(x) PROVE x[i] = y[i]
  <2>1. CASE i <= b - a
    BY <1>2, <1>5, <1>6, <2>1
  <2>2. CASE i = b - a + 1
    BY <1>5, <1>6, <2>2
  <2> QED BY <1>6, <2>1, <2>2
<1>. QED
  <2>1. x = y
    BY <1>5, <1>6, <1>7, SeqEqual
  <2> QED BY <1>2, <2>1 DEF x, y, s

LEMMA AfterSend ==
  ASSUME FilesInv, JobsInv', NEW t \in Workers, Send(t)
  PROVE  FilesInv'
<1> DEFINE j == job[t]
           data == inodes[j.ino].data
           x == Append(j.sent, data[j.pos + 1])
           more == [j EXCEPT !.sent = x, !.pos = j.pos + 1, !.left = j.left - 1]
           done == [j EXCEPT !.pc = "done"]
<1>1. /\ j.pc = "send" /\ Local(j) /\ Undisturbed(j) /\ Full(j) /\ j.date <= now /\ j.ino # 0
      /\ j.pos \in Nat /\ j.left \in Int /\ j.announced \in Int /\ j.whole \in Seq(Marks) /\ Len(j.whole) \in Nat
      /\ UNCHANGED <<config, fs, inodes, now, copies>>
  BY SMTT(30) DEF Send, Quiet, FilesInv, JobsInv, Local, IsJob, Typed, Opened, Holds
<1>2. \/ j.left > 0 /\ j.pos < Len(data) /\ Step(t, more)
      \/ ~ (j.left > 0 /\ j.pos < Len(data)) /\ Step(t, done)
  <2>1. [j EXCEPT !.sent = Append(@, data[j.pos + 1]), !.pos = @ + 1, !.left = @ - 1] = more
    BY <1>1 DEF Full, Fields
  <2> QED BY <2>1 DEF Send
<1>3. ASSUME NEW k, \/ k = more /\ j.left > 0 /\ j.pos < Len(data)
                    \/ k = done /\ ~ (j.left > 0 /\ j.pos < Len(data))
      PROVE  /\ k.date <= now /\ Undisturbed(k) /\ OpenBy(k)
             /\ \A u \in Workers : SameName(k, job[u]) /\ SameName(job[u], k)
  <2> HIDE DEF x
  <2>1. /\ k.pc \in {"send", "done"} /\ k.q = j.q /\ k.ino = j.ino /\ k.disturbed = j.disturbed
        /\ k.date = j.date /\ k.whole = j.whole /\ k.announced = j.announced /\ k.seen = j.seen
        /\ Target(k, j) /\ Verdict(k, j)
    <3>1. CASE k = more
      BY <1>1, <3>1 DEF Full, Fields, Target, Verdict
    <3>2. CASE k = done
      BY <1>1, <3>2 DEF Full, Fields, Target, Verdict
    <3> QED BY <1>3, <3>1, <3>2
  <2>2. \/ /\ k.pc = "send" /\ k.pos = j.pos + 1 /\ k.left = j.left - 1 /\ k.sent = x /\ j.left > 0 /\ j.pos < Len(data)
        \/ /\ k.pc = "done" /\ k.pos = j.pos /\ k.left = j.left /\ k.sent = j.sent /\ ~ (j.left > 0 /\ j.pos < Len(data))
    <3>1. CASE k = more /\ j.left > 0 /\ j.pos < Len(data)
      BY <1>1, <3>1 DEF Full, Fields
    <3>2. CASE k = done /\ ~ (j.left > 0 /\ j.pos < Len(data))
      BY <1>1, <3>2 DEF Full, Fields
    <3> QED BY <1>3, <3>1, <3>2
  <2> HIDE DEF more, done
  <2>3. OpenBy(k) /\ \A u \in Workers : SameName(k, job[u]) /\ SameName(job[u], k)
    <3>1. k.pc = "send" => Held(k) = Held(j)
      BY <1>1, <2>1 DEF Held, Served, Target
    <3>2. OpenBy(j) /\ \A u \in Workers : SameName(j, job[u]) /\ SameName(job[u], j)
      BY DEF FilesInv, OpenInodes
    <3>3. Holds(k) => k.pc = "send"
      BY <2>1 DEF Holds
    <3> HIDE DEF j
    <3> QED BY <1>1, <2>1, <3>1, <3>2, <3>3 DEF OpenBy, SameName, Holds
  <2>4. Undisturbed(k)
    <3> SUFFICES ASSUME ~k.disturbed
                 PROVE  Looked(k) /\ Sent(k) /\ Written(k) /\ Removed(k) /\ NotModified(k)
      BY DEF Undisturbed
    <3>1. Sent(j) /\ Removed(j) /\ NotModified(j)
      BY <1>1, <2>1 DEF Undisturbed
    <3>2. Looked(k)
      BY <2>1 DEF Looked
    <3>3. Removed(k) /\ NotModified(k)
      BY <2>1, <3>1 DEF Removed, NotModified, Target, Verdict
    <3>4. Written(k)
      BY <1>1, <2>1, <3>1 DEF Written, Sent, Verdict
    <3>5. ASSUME k.q.method = "GET" PROVE Sending(k)
      <4>1. Sending(j) /\ data = j.whole
        BY <1>1, <2>1, <3>1, <3>5 DEF Sent, Sending
      <4> DEFINE n == Len(j.whole)
                 a == Start(j)
      <4>2. /\ j.stat.size = n /\ j.announced = Slice(j).cl /\ a <= j.pos /\ j.pos <= n /\ j.sent = SubSeq(j.whole, a + 1, j.pos)
            /\ j.left = j.announced - (j.pos - a) /\ (j.announced >= 0 => j.left >= 0) /\ a \in Nat
        <5>1. a \in Nat
          <6>1. Asked(j.q)
            BY <1>1, WorldFacts DEF FilesInv, JobsInv, Shared, Local, Begun
          <6>2. j.q.range # <<>> => j.q.range[1] \in Nat
            BY SMTT(30), <6>1 DEF Asked
          <6> QED BY <1>1, <6>2 DEF Start
        <5> QED BY <4>1, <5>1 DEF Sending
      <4>3. Slice(k) = Slice(j) /\ Start(k) = a
        BY <2>1 DEF Slice, Start, Target
      <4>4. k.stat.size = Len(k.whole) /\ k.announced = Slice(k).cl
        BY <2>1, <4>2, <4>3 DEF Target
      <4>5. CASE k.pc = "send"
        <5>1. k.sent = SubSeq(k.whole, a + 1, k.pos)
          <6>1. Append(SubSeq(j.whole, a + 1, j.pos), j.whole[j.pos + 1]) = SubSeq(j.whole, a + 1, j.pos + 1)
            BY <1>1, <2>2, <4>1, <4>2, <4>5, OneMore
          <6>2. k.sent = x /\ x = Append(SubSeq(j.whole, a + 1, j.pos), j.whole[j.pos + 1])
            BY <2>2, <4>1, <4>2, <4>5 DEF x
          <6> QED BY <2>1, <2>2, <4>5, <6>1, <6>2
        <5>2. inodes[k.ino].data = k.whole
          BY <2>1, <4>1
        <5> HIDE DEF a, n, data
        <5>3. a <= k.pos /\ k.pos <= Len(k.whole) /\ k.left = k.announced - (k.pos - a)
              /\ (k.announced >= 0 => k.left >= 0)
          <6>1. k.pos = j.pos + 1 /\ k.left = j.left - 1 /\ j.left > 0 /\ j.pos < n
            BY <2>2, <4>1, <4>5 DEF n
          <6>2. k.announced = j.announced /\ Len(k.whole) = n /\ n \in Nat
            BY <1>1, <2>1 DEF n
          <6>3. j.pos \in Nat /\ j.left \in Int /\ j.announced \in Int
            BY <1>1
          <6>4. a \in Nat /\ a <= j.pos /\ j.left = j.announced - (j.pos - a)
            BY <4>2
          <6> HIDE DEF j
          <6> QED BY SMTT(30), <6>1, <6>2, <6>3, <6>4
        <5> QED BY <4>3, <4>4, <4>5, <5>1, <5>2, <5>3 DEF Sending
      <4>6. CASE k.pc = "done"
        <5> HIDE DEF a, n, data
        <5>1. k.left <= 0 \/ k.pos = Len(k.whole)
          BY <1>1, <2>1, <2>2, <4>1, <4>2, <4>6 DEF n
        <5> QED BY <1>1, <2>1, <2>2, <4>2, <4>3, <4>4, <4>6, <5>1 DEF Sending, n
      <4> QED BY <2>1, <4>5, <4>6
    <3>6. Sent(k)
      <4>1. k.q.method = "GET" => (Exists(k.path) => /\ fs[k.path] = k.ino /\ File(k.path).data = k.whole
                            /\ File(k.path).mtime <= k.date)
        BY <1>1, <2>1, <3>1 DEF Sent, Target
      <4>2. k.pc = "send" /\ k.q.method = "PUT" => k.error # 0
        BY <1>1, <2>1, <3>1 DEF Sent, Verdict
      <4> QED BY <3>5, <4>1, <4>2 DEF Sent
    <3> QED BY <3>2, <3>3, <3>4, <3>6
  <2> QED BY <1>1, <2>1, <2>3, <2>4
<1> HIDE DEF more, done, data
<1>4. PICK k : Step(t, k) /\ (\/ k = more /\ j.left > 0 /\ j.pos < Len(data)
                              \/ k = done /\ ~ (j.left > 0 /\ j.pos < Len(data)))
  BY <1>2
<1>5. /\ k.date <= now /\ Undisturbed(k) /\ OpenBy(k)
      /\ \A u \in Workers : SameName(k, job[u]) /\ SameName(job[u], k)
  BY <1>3, <1>4
<1>. QED
  BY <1>1, <1>4, <1>5, AfterCalm

-----------------------------------------------------------------------------
\* What was sent to the end is as long as was announced, and the whole file or a range of it.
LEMMA SentWhole ==
  ASSUME World0, NEW j, Local(j), Sending(j), j.pc = "done"
  PROVE  /\ j.q.range = <<>> => j.sent = j.whole /\ j.announced = Len(j.sent)
         /\ Len(j.q.range) = 2 /\ j.q.range[1] <= j.q.range[2] /\ j.q.range[2] < Len(j.whole) =>
              j.sent = SubSeq(j.whole, j.q.range[1] + 1, j.q.range[2] + 1) /\ j.announced = Len(j.sent)
<1> DEFINE n == Len(j.whole)
           w == j.whole
           r == j.q.range
           pos == j.pos
           left == j.left
           cl == j.announced
<1>1. /\ w \in Seq(Marks) /\ n \in Nat /\ pos \in Nat /\ left \in Int /\ cl \in Int /\ n = Len(w)
      /\ j.q \in clients.requests
  BY DEF Local, IsJob, Typed, Begun
<1>2. r \in Seq(Nat) /\ j.stat.size = n /\ cl = Slice(j).cl /\ Start(j) <= pos /\ pos <= n
      /\ j.sent = SubSeq(w, Start(j) + 1, pos) /\ left = cl - (pos - Start(j)) /\ (cl >= 0 => left >= 0)
      /\ (left <= 0 \/ pos = n)
  BY <1>1, WorldFacts DEF Sending, Asked
<1>3. ASSUME r = <<>> PROVE j.sent = w /\ cl = Len(j.sent)
  <2>1. Slice(j).cl = n
    BY <1>2, <1>3 DEF Slice
  <2>2. Start(j) = 0
    BY <1>1, <1>3 DEF Start
  <2> HIDE DEF n, w, r, pos, left, cl
  <2>3. pos = n
    BY <1>1, <1>2, <2>1, <2>2
  <2>4. j.sent = SubSeq(w, 1, n)
    BY <1>2, <2>2, <2>3
  <2>5. SubSeq(w, 1, n) = w
    BY <1>1, SubSeqProperties
  <2> QED BY <1>1, <1>2, <2>1, <2>4, <2>5
<1>4. ASSUME Len(r) = 2, r[1] <= r[2], r[2] < n
      PROVE  j.sent = SubSeq(w, r[1] + 1, r[2] + 1) /\ cl = Len(j.sent)
  <2> DEFINE a == r[1]
             b == r[2]
  <2>1. a \in Nat /\ b \in Nat /\ a <= b /\ b < n /\ r # <<>>
    <3> HIDE DEF r
    <3>1. 1 \in 1..Len(r) /\ 2 \in 1..Len(r) /\ r # <<>>
      <4>1. Len(<<>>) = 0
        OBVIOUS
      <4>2. Len(r) = 2
        BY <1>4
      <4>3. r # <<>>
        BY <4>1, <4>2
      <4>4. 1 \in 1..2 /\ 2 \in 1..2
        OBVIOUS
      <4> QED BY <4>2, <4>3, <4>4
    <3>2. r[1] \in Nat /\ r[2] \in Nat
      BY <1>2, <3>1, ElementOfSeq
    <3> QED BY <1>4, <3>1, <3>2
  <2>2. Start(j) = a
    BY <1>1, <2>1 DEF Start
  <2>3. Slice(j).cl = b - a + 1
    <3>1. Slice(j) = [from |-> a, cl |-> (IF b > n THEN n ELSE b) - a + 1]
      BY <1>2, <1>4, <2>1 DEF Slice
    <3>2. ~ (b > n)
      BY <1>1, <2>1
    <3> HIDE DEF a, b, n
    <3> QED BY <3>1, <3>2
  <2> HIDE DEF n, w, r, pos, left, cl, a, b
  <2>4. pos = b + 1
    <3>1. cl >= 0
      BY <1>2, <2>1, <2>3
    <3>0. left = cl - (pos - a) /\ cl = b - a + 1 /\ (cl >= 0 => left >= 0)
      BY <1>2, <2>2, <2>3
    <3>2. left >= 0 /\ left = b - a + 1 - (pos - a)
      BY <1>1, <2>1, <3>0, <3>1
    <3>3. left = b + 1 - pos
      BY <1>1, <2>1, <3>2
    <3> QED BY SMTT(30), <1>1, <1>2, <2>1, <3>2, <3>3
  <2>5. j.sent = SubSeq(w, a + 1, b + 1)
    BY <1>2, <2>2, <2>4
  <2>6. Len(SubSeq(w, a + 1, b + 1)) = b - a + 1
    <3> DEFINE c == b + 1
    <3>1. c \in Nat /\ a <= c /\ c <= Len(w)
      BY <1>1, <2>1
    <3> HIDE DEF c
    <3>2. Len(SubSeq(w, a + 1, c)) = c - a
      BY <1>1, <2>1, <3>1, PartOf
    <3>3. c - a = b - a + 1
      BY <2>1 DEF c
    <3> QED BY <3>2, <3>3 DEF c
  <2> QED BY <1>2, <2>3, <2>5, <2>6 DEF a, b
<1>. QED
  BY <1>3, <1>4

LEMMA AfterFinish ==
  ASSUME FilesInv, JobsInv', NEW t \in Workers, Finish(t)
  PROVE  FilesInv'
<1> DEFINE j == job[t]
           keeps == j.q.method = "GET" /\ j.status = 200 /\ j.error = 0 /\ j.ino # 0
           new == [data |-> j.sent, date |-> j.date, clean |-> ~j.disturbed]
<1>1. /\ j.pc = "done" /\ Step(t, Idle) /\ UNCHANGED <<config, handlers, fs, inodes, now, clients>>
      /\ ~keeps => copies' = copies
      /\ keeps => copies' = [p \in DOMAIN copies \cup {j.path} |-> IF p = j.path THEN new ELSE copies[p]]
  BY DEF Finish
<1>2. job'[t] = Idle /\ \A u \in Workers \ {t} : job'[u] = job[u]
  BY <1>1 DEF Step, FilesInv, JobsInv
<1>3. Local(j) /\ Undisturbed(j) /\ j.date <= now /\ World0 /\ Idle.pc = "idle" /\ Idle.status = 0 /\ Idle.error = 0
      /\ Idle.date = 0 /\ now \in Nat /\ j.date \in Nat
  BY DEF FilesInv, JobsInv, Shared, FileSystem, Idle, Local, IsJob, Typed
\* What is kept is what the file holds, or held until later than it is dated.
<1>4. ASSUME keeps, ~j.disturbed
      PROVE  /\ Exists(j.path) => /\ File(j.path).data = j.sent
                                  /\ File(j.path).mtime <= j.date
  <2>1. Sending(j) /\ (Exists(j.path) => File(j.path).data = j.whole /\ File(j.path).mtime <= j.date)
    BY <1>1, <1>3, <1>4 DEF Undisturbed, Sent
  <2>2. j.q.range = <<>>
    BY <1>1, <1>3, <1>4 DEF Local, Opened
  <2>3. j.sent = j.whole
    BY <1>1, <1>3, <2>1, <2>2, SentWhole
  <2> QED BY <2>1, <2>3
<1>5. ASSUME NEW p \in DOMAIN copies'
      PROVE  (p \in DOMAIN copies /\ copies'[p] = copies[p]) \/ (keeps /\ p = j.path /\ copies'[p] = new)
  <2> HIDE DEF new, keeps
  <2>1. CASE ~keeps
    BY <1>1, <2>1
  <2>2. CASE keeps
    BY <1>1, <2>2
  <2> QED BY <2>1, <2>2
<1>6. new.data = j.sent /\ new.date = j.date /\ new.clean = ~j.disturbed
  OBVIOUS
<1> HIDE DEF new, keeps, j
<1>7. Copies'
  <2> SUFFICES ASSUME NEW p \in DOMAIN copies', copies'[p].clean
               PROVE  /\ copies'[p].date \in 0..now
                      /\ Exists(p)' /\ File(p)'.mtime < copies'[p].date => File(p)'.data = copies'[p].data
    BY <1>1 DEF Copies
  <2>1. (Exists(p)' <=> Exists(p)) /\ File(p)' = File(p)
    BY <1>1 DEF Exists, File, Paths
  <2>2. CASE p \in DOMAIN copies /\ copies'[p] = copies[p]
    BY <2>1, <2>2 DEF FilesInv, Copies
  <2>3. CASE keeps /\ p = j.path /\ copies'[p] = new
    <3>1. copies'[p].date \in 0..now
      BY <1>3, <1>6, <2>3
    <3> QED BY <1>4, <1>6, <2>1, <2>3, <3>1
  <2> QED BY <1>5, <2>2, <2>3
<1>8. Named' /\ OpenBy(Idle)
  BY <1>1, <1>3 DEF FilesInv, Named, Paths, OpenBy, Holds
<1>9. ASSUME NEW u \in Workers, NEW v \in Workers PROVE OpenBy(job[u])' /\ SameName(job[u], job[v])'
  <2> DEFINE m == job'[u]
             n == job'[v]
  <2>1. ~Holds(Idle)
    BY <1>3 DEF Holds
  <2>2. OpenBy(m) /\ SameName(m, n)
    BY <1>2, <1>8, <2>1, NotHolding DEF FilesInv, OpenInodes
  <2> QED BY <1>1, <2>2, OpenCarries, SameNameCarries
<1>10. ASSUME NEW u \in Workers PROVE (job[u].date <= now)' /\ Undisturbed(job[u])'
  <2> DEFINE k == job'[u]
  <2>1. k.date <= now /\ Undisturbed(k)
    <3>1. Undisturbed(Idle)
      BY <1>3 DEF Undisturbed, Looked, Sent, Written, Removed, NotModified
    <3> QED BY <1>2, <1>3, <3>1 DEF FilesInv
  <2>2. Undisturbed(job[u])'
    <3> SUFFICES ASSUME ~k.disturbed
                 PROVE  /\ Looked(job[u])' /\ Sent(job[u])' /\ Written(job[u])' /\ Removed(job[u])'
                        /\ NotModified(job[u])'
      BY DEF Undisturbed
    <3>1. Looked(k) /\ Sent(k) /\ Written(k) /\ Removed(k) /\ NotModified(k)
      BY SMTT(30), <2>1 DEF Undisturbed
    <3>2. Looked(job[u])'
      BY SMTT(30), <1>1, <3>1 DEF Looked, Fresh, Exists, Paths, File, Served, Zipped
    <3>3. Sent(job[u])'
      BY <1>1, <3>1 DEF Sent, Sending, Exists, Paths, File, Slice, Start
    <3>4. Written(job[u])' /\ Removed(job[u])'
      BY <1>1, <3>1 DEF Written, Writing, Exists, Paths, Removed, IsDir, File
    <3>5. NotModified(job[u])'
      <4> SUFFICES ASSUME NEW p, p = k.path, k.status = 304, Exists(p)', p \in DOMAIN copies', copies'[p].clean
                   PROVE  File(p)'.mtime <= copies'[p].date
        BY DEF NotModified, Unmodified
      <4>1. Exists(p) /\ File(p)' = File(p)
        BY <1>1 DEF Exists, File, Paths
      <4>2. CASE p \in DOMAIN copies /\ copies'[p] = copies[p]
        BY <3>1, <4>1, <4>2 DEF NotModified, Unmodified
      <4>3. CASE keeps /\ p = j.path /\ copies'[p] = new
        BY <1>4, <1>6, <4>1, <4>3
      <4> QED BY <1>5, <4>2, <4>3
    <3> QED BY <3>2, <3>3, <3>4, <3>5
  <2> QED BY <1>1, <2>1, <2>2
<1>. QED
  BY <1>7, <1>8, <1>9, <1>10 DEF FilesInv, OpenInodes

-----------------------------------------------------------------------------
-----------------------------------------------------------------------------
\* PUT, DELETE and MKCOL where they leave the files alone.
LEMMA PutCalm ==
  ASSUME Shared, NEW t \in Workers, Local(job[t]), Put(t)
  PROVE  Calms(t)
<1> DEFINE j == job[t]
<1>1. /\ j.pc = "PUT" /\ Quiet
      /\ \/ Step(t, StageOf(j, 201, "put_dir")) \/ Step(t, Reply(j, 200))
         \/ Step(t, send_http_error(j, 403)) \/ Step(t, StageOf(j, 200, "put_open"))
  BY DEF Put, StageOf
<1>2. j.error = 0 /\ Full(j) /\ j.q.method = "PUT"
  BY <1>1 DEF Local, IsJob, Working, PutStages, Begun
<1>3. Simple(Reply(j, 200), j) /\ Simple(send_http_error(j, 403), j)
  <2> HIDE DEF j
  <2>1. Local(j) /\ j.pc = "PUT"
    BY <1>1 DEF j
  <2>2. Simple(Reply(j, 200), j)
    <3> DEFINE s == 200
    <3>1. s # 304 /\ s # 201
      OBVIOUS
    <3> HIDE DEF s
    <3>2. Simple(Reply(j, s), j)
      BY <2>1, <3>1, Replied
    <3> QED BY <3>2 DEF s
  <2> QED BY <2>1, <2>2, SimpleRefusal
<1>4. ASSUME NEW s \in {200, 201}, NEW pc \in {"put_dir", "put_open"}
      PROVE  Simple(StageOf(j, s, pc), j)
  <2> DEFINE k == StageOf(j, s, pc)
  <2>1. Work(k, j) /\ k.error = j.error /\ k.status = s /\ k.pc = pc
    BY <1>2, WithStage
  <2> HIDE DEF k, j
  <2>2. Local(j) /\ j.pc = "PUT" /\ k.q = j.q
    BY <1>1, <2>1 DEF j, Work
  <2>3. Simple(k, j)
    BY <1>2, <2>1, <2>2, SimpleMove
  <2> QED BY <2>3 DEF k
<1>. QED
  BY <1>1, <1>3, <1>4 DEF Calms

LEMMA DeleteCalm ==
  ASSUME Shared, NEW t \in Workers, Local(job[t]), Delete(t) \/ Mkcol(t)
  PROVE  Calms(t)
<1> DEFINE j == job[t]
           g(pc) == [j EXCEPT !.pc = pc]
<1>1. /\ Quiet /\ j.pc \in {"DELETE", "MKCOL"}
      /\ \/ \E s \in {403, 404, 405, 415} : Step(t, send_http_error(j, s))
         \/ \E pc \in {"rmdir", "remove", "mkdir"} : Step(t, g(pc))
  BY DEF Delete, Mkcol
<1>2. j.error = 0 /\ j.status = 0 /\ Full(j)
  BY <1>1, EarlyFacts
<1>3. ASSUME NEW s \in {403, 404, 405, 415} PROVE Simple(send_http_error(j, s), j)
  <2> HIDE DEF j
  <2>1. Local(j) /\ j.pc \notin {"send", "done"}
    BY <1>1 DEF j
  <2> QED BY <2>1, SimpleRefusal
<1>4. ASSUME NEW pc \in {"rmdir", "remove", "mkdir"} PROVE Simple(g(pc), j)
  <2> DEFINE k == g(pc)
  <2>1. k.pc = pc /\ Work(k, j) /\ Verdict(k, j)
    BY <1>2, Going
  <2> HIDE DEF k, j
  <2>2. Local(j) /\ j.pc \in {"DELETE", "MKCOL"}
    BY <1>1 DEF j
  <2>3. Simple(k, j)
    BY <1>2, <2>1, <2>2, SimpleMove DEF Verdict
  <2> QED BY <2>3 DEF k
<1> HIDE DEF j, g
<1>. QED
  BY <1>1, <1>3, <1>4 DEF Calms, j

LEMMA GoneCalm ==
  ASSUME Shared, NEW t \in Workers, Local(job[t]), RemoveGone(t)
  PROVE  Calms(t)
<1> DEFINE j == job[t]
           s == IF j.ok THEN 204 ELSE 500
           k == send_http_error(j, s)
<1>1. j.pc = "rmdir" /\ Step(t, k) /\ Quiet /\ s \in {204, 500} /\ ~Exists(j.path)
  BY DEF RemoveGone
<1>2. Becomes(j, j) /\ Target(j, j) /\ j.path = j.q.path
  BY <1>1, BecomesItself DEF Target, Local, Begun, DeleteStages
<1> HIDE DEF s, k
<1>3. Simple(k, j)
  <2> HIDE DEF j
  <2>1. Local(j) /\ j.pc \notin {"send", "done"}
    BY <1>1 DEF j
  <2>2. /\ s = 204 => j.path = j.q.path /\ j.path = j.path /\ (j.seen # {} \/ ~Exists(j.path))
        /\ s = 304 /\ ~j.disturbed => Unmodified(j.path)
        /\ s \in {204, 304, 401, 403, 404, 405, 409, 411, 415, 417, 423, 500, 503}
    BY <1>1, <1>2
  <2> QED BY <1>2, <2>1, <2>2, SimpleError DEF k
<1>. QED
  BY <1>1, <1>3 DEF Calms

\* remove_directory has looked at an entry.
LEMMA SeenSimple ==
  ASSUME NEW j, Local(j), j.pc = "rmdir", NEW seen, seen # {}, NEW ok, NEW s \in {204, 500},
         NEW k, k = SeenOf(j, seen, ok) \/ k = send_http_error(SeenOf(j, seen, ok), s)
  PROVE  Simple(k, j) /\ k.status # 304
<1> DEFINE m == SeenOf(j, seen, ok)
<1>1. /\ Full(m) /\ Target(m, j) /\ Verdict(m, j) /\ m.pc = j.pc
      /\ m.q = j.q /\ m.ino = j.ino /\ m.seen = seen
      /\ m.disturbed = j.disturbed /\ m.date = j.date
  BY WithSeen DEF Local, IsJob
<1>2. j.error = 0 /\ j.status # 304 /\ j.q.method = "DELETE"
  BY DEF Local, Begun, DeleteStages, Answered, Working
<1> HIDE DEF m
<1>3. CASE k = m
  BY <1>1, <1>2, <1>3, SimpleMove DEF Verdict
<1>4. CASE k = send_http_error(m, s)
  <2>1. /\ Work(k, m) /\ Choice(k, m)
        /\ \/ /\ m.error = 0 /\ k.error = s /\ k.status = m.status
              /\ Exists(k.path) /\ Fresh(k) /\ k.pc \in {"cgi", "ssi", "static"}
           \/ /\ k.pc = "done" /\ k.status = s /\ Target(k, m)
              /\ k.error = IF m.error = 0 THEN s ELSE m.error
    BY <1>1, <1>4, ErrorOf
  <2> QED BY <1>1, <1>2, <2>1 DEF Simple, Work, Verdict
<1>. QED
  BY <1>3, <1>4 DEF m

\* A directory entry is removed, or only looked at.
LEMMA EntryCases ==
  ASSUME Shared, NEW t \in Workers, Local(job[t]), RemoveEntry(t)
  PROVE  \/ Calms(t)
         \/ \E p \in Paths : \E k : /\ Unlink(t, k, p) /\ Simple(k, job[t]) /\ Local(k)
                                      /\ k.seen # {} /\ k.status # 304
<1> DEFINE j == job[t]
<1>0. PICK p \in Paths : \E ok :
        LET k == [j EXCEPT !.seen = @ \cup {p}, !.ok = ok]
            last(r) == IF p = j.path THEN send_http_error(r, IF r.ok THEN 204 ELSE 500) ELSE r
        IN /\ j.pc = "rmdir"
           /\ IF File(p).dir
             THEN IF Children(p) = {} THEN Unlink(t, last(k), p)
                  ELSE Step(t, last(k)) /\ Quiet
             ELSE \/ Unlink(t, [k EXCEPT !.ok = FALSE], p)
                  \/ Step(t, k) /\ Quiet
  BY Zenon DEF RemoveEntry
<1>1. PICK ok :
        LET k == [j EXCEPT !.seen = @ \cup {p}, !.ok = ok]
            last(r) == IF p = j.path THEN send_http_error(r, IF r.ok THEN 204 ELSE 500) ELSE r
        IN /\ j.pc = "rmdir"
           /\ IF File(p).dir
             THEN IF Children(p) = {} THEN Unlink(t, last(k), p)
                  ELSE Step(t, last(k)) /\ Quiet
             ELSE \/ Unlink(t, [k EXCEPT !.ok = FALSE], p)
                  \/ Step(t, k) /\ Quiet
  BY Zenon, <1>0
<1> DEFINE seen == j.seen \cup {p}
           k == SeenOf(j, seen, ok)
           s == IF k.ok THEN 204 ELSE 500
           last == IF p = j.path THEN send_http_error(k, s) ELSE k
           kept == SeenOf(j, seen, FALSE)
<1>2. j.pc = "rmdir" /\ Full(j)
  BY <1>1 DEF Local, IsJob
<1>3. [j EXCEPT !.seen = @ \cup {p}, !.ok = ok] = k /\ [k EXCEPT !.ok = FALSE] = kept
  BY <1>2 DEF SeenOf, Full, Fields
<1>4. \/ Unlink(t, last, p) \/ Unlink(t, kept, p)
      \/ Quiet /\ (Step(t, last) \/ Step(t, k))
  <2> DEFINE k1 == [j EXCEPT !.seen = @ \cup {p}, !.ok = ok]
             last1 == IF p = j.path THEN send_http_error(k1, IF k1.ok THEN 204 ELSE 500) ELSE k1
  <2>1. \/ Unlink(t, last1, p) \/ Unlink(t, [k1 EXCEPT !.ok = FALSE], p)
        \/ Quiet /\ (Step(t, last1) \/ Step(t, k1))
    <3> HIDE DEF k, kept, last, s, seen
    <3> QED BY <1>1
  <2>2. k1 = k
    BY <1>3
  <2> HIDE DEF k1, k, kept
  <2> QED BY <1>3, <2>1, <2>2
<1>5. s \in {204, 500} /\ seen # {}
  OBVIOUS
<1> HIDE DEF seen, s
<1>6. /\ Simple(last, j) /\ last.status # 304 /\ Local(last) /\ last.seen # {}
  <2>1. last = SeenOf(j, seen, ok) \/ last = send_http_error(SeenOf(j, seen, ok), s)
    OBVIOUS
  <2> HIDE DEF last, j
  <2>2. Local(j) /\ j.pc = "rmdir"
    BY <1>2 DEF j
  <2>3. Local(last) /\ Local([last EXCEPT !.changed = TRUE]) /\ last.seen = seen
    BY <1>5, <2>1, <2>2, Removing
  <2>4. Simple(last, j) /\ last.status # 304
    BY <1>5, <2>1, <2>2, SeenSimple
  <2> QED BY <1>5, <2>3, <2>4
<1>7. ASSUME NEW c, NEW m, m = SeenOf(j, seen, c)
      PROVE  Simple(m, j) /\ m.status # 304 /\ Local(m) /\ m.seen # {}
  <2> HIDE DEF last, k, kept, j
  <2>1. Local(j) /\ j.pc = "rmdir"
    BY <1>2 DEF j
  <2>2. Local(m) /\ Local([m EXCEPT !.changed = TRUE]) /\ m.seen = seen
    BY <1>7, <2>1, Noting
  <2>3. Simple(m, j) /\ m.status # 304
    BY <1>5, <1>7, <2>1, SeenSimple
  <2> QED BY <1>5, <2>2, <2>3
<1>8. Simple(k, j)
  <2>1. k = SeenOf(j, seen, ok)
    OBVIOUS
  <2> HIDE DEF last, k, kept
  <2> QED BY <1>7, <2>1
<1>9. Simple(kept, j) /\ Local(kept) /\ kept.seen # {} /\ kept.status # 304
  <2> DEFINE c == FALSE
  <2>1. kept = SeenOf(j, seen, c) /\ c = FALSE
    OBVIOUS
  <2> HIDE DEF last, k, kept, c
  <2> QED BY <1>7, <2>1
<1> HIDE DEF last, k, kept
<1>10. CASE Unlink(t, last, p)
  BY <1>6, <1>10
<1>11. CASE Unlink(t, kept, p)
  BY <1>9, <1>11
<1>12. CASE Quiet /\ (Step(t, last) \/ Step(t, k))
  BY <1>6, <1>8, <1>12 DEF Calms
<1>. QED
  BY <1>4, <1>10, <1>11, <1>12

LEMMA PutDirCases ==
  ASSUME Shared, NEW t \in Workers, Local(job[t]), PutDir(t)
  PROVE  \/ Calms(t)
         \/ \E p, k : /\ Room /\ Make(p, TRUE) /\ Touch(t, k, {p}, FALSE) /\ Simple(k, job[t])
                      /\ k.q.method = "PUT" /\ k.ino = 0 /\ k.pc = "put_dir" /\ k.error = 0 /\ Full(k)
                      /\ UNCHANGED <<config, handlers, now, copies, clients>> /\ ~Exists(p)
<1> DEFINE j == job[t]
           p == SubSeq(j.path, 1, j.pos + 1)
           open == [j EXCEPT !.pc = "put_open", !.pos = 0]
           next == [j EXCEPT !.pos = @ + 1]
<1>1. /\ j.pc = "put_dir"
      /\ \/ Quiet /\ (Step(t, Reply(j, 201)) \/ Step(t, open) \/ Step(t, next) \/ Step(t, send_http_error(j, 500)))
         \/ /\ Room /\ Make(p, TRUE) /\ Touch(t, next, {p}, FALSE) /\ UNCHANGED <<config, handlers, now, copies, clients>>
            /\ ~Exists(p)
  BY DEF PutDir
<1>2. j.error = 0 /\ Full(j) /\ j.q.method = "PUT" /\ j.ino = 0 /\ j.status # 304
  BY <1>1 DEF Local, IsJob, Working, PutStages, Begun, Answered
<1>3. Simple(Reply(j, 201), j) /\ Simple(send_http_error(j, 500), j)
  <2> HIDE DEF j
  <2>1. Local(j) /\ j.pc = "put_dir"
    BY <1>1 DEF j
  <2>2. Simple(Reply(j, 201), j)
    <3> DEFINE s == 201
    <3>1. s # 304
      OBVIOUS
    <3> HIDE DEF s
    <3>2. Simple(Reply(j, s), j)
      BY <1>2, <2>1, <3>1, Replied
    <3> QED BY <3>2 DEF s
  <2> QED BY <2>1, <2>2, SimpleRefusal
<1>4. ASSUME NEW k, k = open \/ k = next
      PROVE  Simple(k, j) /\ Full(k) /\ k.q = j.q /\ k.ino = 0 /\ k.error = 0
             /\ (k = next => k.pc = "put_dir")
  <2>1. /\ Full(k) /\ k.q = j.q /\ k.ino = j.ino /\ k.error = j.error /\ k.status = j.status
        /\ k.disturbed = j.disturbed /\ k.date = j.date
    <3>1. CASE k = open
      BY ZenonT(40), <1>2, <3>1 DEF Full, Fields
    <3>2. CASE k = next
      BY <1>2, <3>2 DEF Full, Fields
    <3> QED BY <1>4, <3>1, <3>2
  <2>2. k.pc \in {"put_dir", "put_open"} /\ (k = next => k.pc = "put_dir")
    BY ZenonT(40), <1>1, <1>2, <1>4 DEF Full, Fields
  <2> HIDE DEF open, next, j
  <2>3. Local(j) /\ j.pc = "put_dir"
    BY <1>1 DEF j
  <2>4. Simple(k, j)
    BY <1>2, <2>1, <2>2, <2>3, SimpleMove
  <2> QED BY <1>2, <2>1, <2>2, <2>4
<1>5. Simple(open, j) /\ Simple(next, j) /\ Full(next) /\ next.q = j.q /\ next.ino = 0 /\ next.error = 0
      /\ next.pc = "put_dir"
  BY <1>4
<1> HIDE DEF p, open, next
<1>6. CASE Quiet /\ (Step(t, Reply(j, 201)) \/ Step(t, open) \/ Step(t, next) \/ Step(t, send_http_error(j, 500)))
  BY <1>3, <1>5, <1>6 DEF Calms
<1>7. CASE /\ Room /\ Make(p, TRUE) /\ Touch(t, next, {p}, FALSE) /\ UNCHANGED <<config, handlers, now, copies, clients>>
           /\ ~Exists(p)
  <2>1. Simple(next, job[t]) /\ next.q.method = "PUT"
    BY <1>2, <1>5
  <2> QED BY <1>5, <1>7, <2>1
<1>. QED
  BY <1>1, <1>6, <1>7

-----------------------------------------------------------------------------
-----------------------------------------------------------------------------
\* Writing: the file stays open, or is closed.
Continues(k, j) ==
  /\ k.q = j.q /\ k.ino = j.ino /\ k.path = j.path /\ k.date = j.date /\ k.disturbed = j.disturbed
  /\ k.pc \in {"put_write", "put_close", "done"} /\ k.status = j.status /\ k.error = j.error

LEMMA WritingOn ==
  ASSUME NEW j, Local(j), j.pc \in {"put_write", "put_close"}, NEW k, Continues(k, j),
         ~k.disturbed => Written(k)
  PROVE  /\ Undisturbed(k)
         /\ OpenBy(j) => OpenBy(k)
         /\ \A m : (SameName(j, m) => SameName(k, m)) /\ (SameName(m, j) => SameName(m, k))
<1>1. j.q.method = "PUT" /\ j.status # 304 /\ Holds(j) /\ Held(j) = j.path
  BY DEF Local, Working, PutStages, Answered, Holds, Held
<1>2. Looked(k) /\ Sent(k) /\ Removed(k) /\ NotModified(k)
  BY <1>1 DEF Continues, Looked, Sent, Removed, NotModified
<1>3. k.ino = j.ino /\ Held(k) = Held(j)
  BY <1>1 DEF Continues, Held
<1>. QED
  BY <1>1, <1>2, <1>3 DEF Undisturbed, OpenBy, SameName

LEMMA AfterWriting ==
  ASSUME FilesInv, JobsInv', UNCHANGED <<config, fs, inodes, now, copies>>, NEW t \in Workers,
         job[t].pc \in {"put_write", "put_close"}, NEW k, Step(t, k), Continues(k, job[t]),
         ~k.disturbed => Written(k)
  PROVE  FilesInv'
<1> DEFINE j == job[t]
<1>1. Local(j) /\ j.date <= now /\ OpenBy(j) /\ \A u \in Workers : SameName(j, job[u]) /\ SameName(job[u], j)
  BY DEF FilesInv, JobsInv, OpenInodes
<1>2. /\ Undisturbed(k) /\ OpenBy(k) /\ k.date <= now
      /\ \A u \in Workers : SameName(k, job[u]) /\ SameName(job[u], k)
  <2>1. j.pc \in {"put_write", "put_close"} /\ Continues(k, j)
    OBVIOUS
  <2>2. k.date = j.date
    BY <2>1 DEF Continues
  <2> HIDE DEF j
  <2> QED BY <1>1, <2>1, <2>2, WritingOn
<1>. QED
  BY <1>2, AfterCalm

\* One mark more is waiting to be written, and what was is still the next of the body.
LEMMA OneWritten ==
  ASSUME World0, NEW j, Local(j), j.pc = "put_write", j.left > 0, Writing(j), NEW k, k = WroteOf(j)
  PROVE  Writing(k)
<1>1. /\ Target(k, j) /\ k.pc = "put_write" /\ k.q = j.q /\ k.ino = j.ino /\ k.pos = j.pos
      /\ k.left = j.left - 1 /\ k.unsaved = Append(j.unsaved, Mark(j)) /\ k.ok = j.ok
  BY WithMark DEF Local, IsJob
<1>2. Exists(k.path) /\ fs[k.path] = k.ino
  BY <1>1 DEF Writing, Target
<1>3. ASSUME j.ok, j.q.range = <<>>, j.q.length = "given"
      PROVE  /\ k.pos + Len(k.unsaved) + k.left = Len(k.q.body) /\ k.left >= 0
             /\ k.unsaved = SubSeq(k.q.body, k.pos + 1, k.pos + Len(k.unsaved))
             /\ inodes[k.ino].data = SubSeq(k.q.body, 1, k.pos)
  <2> DEFINE body == j.q.body
             n == Len(body)
             pos == j.pos
             m == Len(j.unsaved)
             left == j.left
             b == pos + m
  <2>1. body \in Seq(Marks) /\ n \in Nat /\ pos \in Nat /\ left \in Int /\ m \in Nat /\ left > 0 /\ n = Len(body)
    <3>1. Asked(j.q) /\ j.unsaved \in Seq(Marks) /\ pos \in Nat /\ left \in Int
      BY WorldFacts DEF Local, IsJob, Typed, Begun
    <3>2. body \in Seq(Marks)
      BY <3>1 DEF Asked
    <3> HIDE DEF body, pos, left
    <3> QED BY <3>1, <3>2 DEF left
  <2>2. /\ pos + m + left = n /\ inodes[j.ino].data = SubSeq(body, 1, pos)
        /\ j.unsaved = SubSeq(body, pos + 1, pos + m)
    BY <1>3 DEF Writing
  <2>3. Mark(j) = body[n - left + 1]
    BY DEF Mark
  <2> HIDE DEF body, n, pos, m, left
  <2>4. n - left + 1 = b + 1 /\ b \in Nat /\ pos <= b /\ b < n /\ left - 1 >= 0 /\ pos + (m + 1) + (left - 1) = n
        /\ pos + (m + 1) = b + 1
    <3>1. b \in Nat /\ pos <= b /\ b + left = n
      BY <2>1, <2>2
    <3>2. pos + (m + 1) = b + 1
      BY <2>1
    <3> HIDE DEF b
    <3>3. n - left + 1 = b + 1 /\ b < n /\ left - 1 >= 0
      BY <2>1, <3>1
    <3>4. b + 1 + (left - 1) = n
      BY <2>1, <3>1
    <3> QED BY <3>1, <3>2, <3>3, <3>4
  <2>5. Append(SubSeq(body, pos + 1, b), body[b + 1]) = SubSeq(body, pos + 1, b + 1)
    <3> HIDE DEF b
    <3> QED BY <2>1, <2>4, OneMore
  <2>6. k.unsaved = SubSeq(body, pos + 1, b + 1)
    BY <1>1, <2>2, <2>3, <2>4, <2>5
  <2>7. Len(k.unsaved) = m + 1
    <3> DEFINE x == j.unsaved
               y == Mark(j)
    <3>1. x \in Seq(Marks) /\ Len(x) = m
      BY DEF m, Local, IsJob, Typed
    <3>2. y \in Marks
      <4>1. n - left + 1 \in 1..Len(body)
        BY <2>1, <2>4
      <4> QED BY <2>1, <2>3, <4>1, ElementOfSeq
    <3>3. k.unsaved = Append(x, y)
      BY <1>1
    <3> HIDE DEF x, y
    <3> QED BY <3>1, <3>2, <3>3, AppendProperties
  <2>8. k.q.body = body /\ k.pos = pos /\ k.left = left - 1 /\ k.ino = j.ino
    BY <1>1 DEF body, pos, left
  <2> HIDE DEF b
  <2>9. k.pos + Len(k.unsaved) + k.left = n /\ k.left >= 0 /\ k.pos + Len(k.unsaved) = b + 1
    BY <2>4, <2>7, <2>8
  <2> QED BY <2>1, <2>2, <2>6, <2>8, <2>9
<1>. QED
  BY <1>1, <1>2, <1>3 DEF Writing

LEMMA PutWriteCases ==
  ASSUME FilesInv, NEW t \in Workers, PutWrite(t), NEW k, k = WroteOf(job[t])
  PROVE  /\ job[t].pc = "put_write"
         /\ \/ Calms(t)
            \/ Quiet /\ Step(t, k) /\ job[t].left > 0
            \/ \E n \in 1..job[t].left : Quiet /\ Step(t, MissedOf(job[t], n))
            \/ Quiet /\ Step(t, [job[t] EXCEPT !.pc = "put_close"]) /\ job[t].left = 0
            \/ Flush(t, k) /\ job[t].left > 0
            \/ Flush(t, send_http_error(job[t], 500))
<1> DEFINE j == job[t]
           k1 == [j EXCEPT !.unsaved = Append(@, j.q.body[Len(j.q.body) - j.left + 1]), !.left = @ - 1]
           e == send_http_error(j, 500)
<1>1. j.pc = "put_write" /\ Local(j) /\ Full(j)
  BY DEF PutWrite, FilesInv, JobsInv, Local, IsJob
<1>2. k1 = k
  BY <1>1 DEF WroteOf, Mark, Full, Fields
<1> HIDE DEF e
<1>3. Simple(e, j)
  <2> HIDE DEF j
  <2> QED BY <1>1, SimpleRefusal DEF e
<1>4. \/ j.left > 0 /\ (Flush(t, k1) \/ Flush(t, e) \/ (Step(t, k1) /\ Quiet) \/ (Step(t, e) /\ Quiet))
      \/ \E n \in 1..j.left : Step(t, MissedOf(j, n)) /\ Quiet
      \/ j.left = 0 /\ Step(t, [j EXCEPT !.pc = "put_close"]) /\ Quiet
      \/ Step(t, e) /\ Quiet
  BY DEF PutWrite, MissedOf, e
<1> HIDE DEF k1
<1>. QED
  BY <1>1, <1>2, <1>3, <1>4 DEF Calms, e

\* Writing goes on in memory, or comes to its end.
LEMMA AfterMark ==
  ASSUME FilesInv, JobsInv', NEW t \in Workers, job[t].pc = "put_write", Quiet,
         NEW k, Step(t, k),
         \/ k = WroteOf(job[t]) /\ job[t].left > 0
         \/ \E n \in 1..job[t].left : k = MissedOf(job[t], n)
         \/ k = [job[t] EXCEPT !.pc = "put_close"] /\ job[t].left = 0
  PROVE  FilesInv'
<1> DEFINE j == job[t]
<1>1. Local(j) /\ Full(j) /\ World0 /\ j.pc = "put_write" /\ Undisturbed(j)
  BY DEF FilesInv, JobsInv, Local, IsJob, Shared
<1>2. CASE k = WroteOf(j) /\ j.left > 0
  <2>1. Continues(k, j)
    BY <1>1, <1>2, WithMark DEF Continues, Target, Verdict
  <2>2. ASSUME ~k.disturbed PROVE Written(k)
    <3> HIDE DEF j
    <3>1. Writing(j)
      BY <1>1, <2>1, <2>2 DEF Undisturbed, Written, Continues
    <3> QED BY <1>1, <1>2, <3>1, OneWritten DEF Written
  <2> QED BY <1>1, <2>1, <2>2, AfterWriting DEF Quiet
<1>3. CASE k = [j EXCEPT !.pc = "put_close"] /\ j.left = 0
  <2>1. k.pc = "put_close" /\ Work(k, j) /\ Target(k, j) /\ Verdict(k, j)
    BY <1>1, <1>3, Going
  <2>2. Continues(k, j)
    BY <2>1 DEF Continues, Work, Target, Verdict
  <2>3. ASSUME ~k.disturbed PROVE Written(k)
    <3>1. Writing(j)
      BY <1>1, <2>2, <2>3 DEF Undisturbed, Written, Continues
    <3> HIDE DEF j
    <3> QED BY <1>1, <1>3, <2>1, <3>1 DEF Written, Writing, Work, Target
  <2> QED BY <1>1, <2>2, <2>3, AfterWriting DEF Quiet
<1>4. CASE \E n \in 1..j.left : k = MissedOf(j, n)
  <2>0. PICK n : k = MissedOf(j, n)
    BY <1>4
  <2>1. k.pc = "put_write" /\ Unchanged(k, j) /\ Target(k, j) /\ Verdict(k, j) /\ k.ok = FALSE
    <3> HIDE DEF j
    <3>1. Unchanged(k, j) /\ Target(k, j) /\ Verdict(k, j) /\ k.ok = FALSE
      BY <1>1, <2>0, Missing
    <3> QED BY <1>1, <3>1 DEF Unchanged
  <2>2. Continues(k, j)
    BY <2>1 DEF Continues, Unchanged, Target, Verdict
  <2>3. ASSUME ~k.disturbed PROVE Written(k)
    <3>1. Writing(j)
      BY <1>1, <2>2, <2>3 DEF Undisturbed, Written, Continues
    <3> HIDE DEF j
    <3> QED BY <1>1, <2>1, <3>1 DEF Written, Writing, Unchanged, Target
  <2> QED BY <1>1, <2>2, <2>3, AfterWriting DEF Quiet
<1>. QED
  BY <1>2, <1>3, <1>4

\* A file that is closed has what was to be written, unless that fails.
LEMMA PutCloseCases ==
  ASSUME FilesInv, JobsInv', NEW t \in Workers, PutClose(t)
  PROVE  /\ job[t].pc = "put_close"
         /\ FilesInv' \/ Flush(t, [job[t] EXCEPT !.pc = "done"])
<1> DEFINE j == job[t]
           k == [j EXCEPT !.pc = "done"]
           lost == [k EXCEPT !.ok = FALSE]
<1>1. j.pc = "put_close" /\ Local(j) /\ Full(j) /\ World0 /\ Undisturbed(j)
  BY DEF PutClose, FilesInv, JobsInv, Local, IsJob, Shared
<1>2. \/ j.unsaved = <<>> /\ Step(t, k) /\ Quiet
      \/ Flush(t, k)
      \/ Step(t, lost) /\ Quiet
  BY DEF PutClose
<1>3. k.pc = "done" /\ Work(k, j) /\ Target(k, j) /\ Verdict(k, j) /\ Full(k)
  BY <1>1, Going
<1>4. Continues(k, j)
  BY <1>3 DEF Continues, Work, Target, Verdict
<1>5. lost.pc = "done" /\ Continues(lost, j) /\ lost.ok = FALSE /\ lost.ino = j.ino /\ lost.path = j.path
  <2>1. /\ lost.q = k.q /\ lost.ino = k.ino /\ lost.path = k.path /\ lost.date = k.date /\ lost.disturbed = k.disturbed
        /\ lost.pc = k.pc /\ lost.status = k.status /\ lost.error = k.error /\ lost.ok = FALSE
    <3> HIDE DEF k
    <3> QED BY <1>3 DEF Full, Fields
  <2> HIDE DEF k, lost
  <2> QED BY <1>3, <1>4, <2>1 DEF Continues
<1> HIDE DEF k, lost
<1>6. ASSUME ~j.disturbed PROVE Writing(j)
  BY <1>1, <1>6 DEF Undisturbed, Written
<1>7. CASE j.unsaved = <<>> /\ Step(t, k) /\ Quiet
  <2>1. ASSUME ~k.disturbed PROVE Writing(k)
    <3>1. Writing(j)
      BY <1>4, <1>6, <2>1 DEF Continues
    <3>2. ASSUME j.q.range = <<>>, j.q.length = "given", j.ok PROVE inodes[j.ino].data = j.q.body
      <4> DEFINE body == j.q.body
                 n == Len(body)
                 pos == j.pos
      <4>1. body \in Seq(Marks) /\ n \in Nat /\ pos \in Nat
        <5>1. j.q \in clients.requests /\ pos \in Nat
          BY <1>1 DEF Local, IsJob, Typed, Begun
        <5>2. Asked(j.q)
          BY <1>1, <5>1, WorldFacts
        <5> QED BY <5>1, <5>2 DEF Asked
      <4>2. pos + 0 + 0 = n /\ inodes[j.ino].data = SubSeq(body, 1, pos)
        <5>1. Len(<<>>) = 0
          OBVIOUS
        <5> QED BY <1>1, <1>7, <3>1, <3>2, <5>1 DEF Writing
      <4> HIDE DEF body, pos
      <4>3. SubSeq(body, 1, n) = body
        BY <4>1, SubSeqProperties
      <4> QED BY <4>1, <4>2, <4>3 DEF body
    <3>3. k.ok = j.ok
      BY <1>1 DEF Full, Fields, k
    <3>4. /\ Exists(k.path) /\ fs[k.path] = k.ino
          /\ k.q.range = <<>> /\ k.q.length = "given" /\ k.ok => inodes[k.ino].data = k.q.body
      BY <1>3, <3>1, <3>2, <3>3 DEF Writing, Work, Target
    <3> QED BY <1>3, <3>4 DEF Writing
  <2> QED BY <1>1, <1>4, <1>7, <2>1, AfterWriting DEF Quiet, Written
<1>8. CASE Step(t, lost) /\ Quiet
  <2>1. ASSUME ~lost.disturbed PROVE Writing(lost)
    <3>1. Writing(j)
      BY <1>5, <1>6, <2>1 DEF Continues
    <3> QED BY <1>5, <3>1 DEF Writing
  <2> QED BY <1>1, <1>5, <1>8, <2>1, AfterWriting DEF Quiet, Written
<1>. QED
  BY <1>1, <1>2, <1>7, <1>8 DEF k

-----------------------------------------------------------------------------
-----------------------------------------------------------------------------
(***************************************************************************)
(* Files: the steps that change what p stands for.                         *)
(***************************************************************************)
Apart(x, p) == x = p => p \notin Seq(STRING)

Changes(t, k, p, unlink) ==
  /\ Touch(t, k, {p}, unlink) /\ unlink \in BOOLEAN
  /\ UNCHANGED <<config, now, copies>> /\ Paths' = Paths
  /\ \A x \in Paths : x # p => fs'[x] = fs[x] /\ (fs[x] # 0 => inodes'[fs[x]] = inodes[fs[x]])
  /\ \A i \in 1..MaxInodes : inodes'[i] = inodes[i] \/ inodes'[i].mtime = now
  /\ \A u \in Workers \ {t} : Holds(job[u]) /\ Apart(Held(job[u]), p) =>
       inodes'[job[u].ino] = inodes[job[u].ino]
  /\ unlink => inodes' = inodes /\ (p \in Paths => fs'[p] = 0)
  /\ p \in Paths =>
       /\ fs'[p] # 0 => \/ inodes'[fs'[p]].mtime = now
                        \/ fs'[p] = fs[p] /\ inodes'[fs[p]] = inodes[fs[p]]
       /\ \/ fs'[p] = fs[p] \/ fs'[p] = 0
          \/ fs'[p] \in 1..MaxInodes /\ inodes[fs'[p]].mtime = 0

LEMMA ChangedNamed ==
  ASSUME FilesInv, NEW t \in Workers, NEW k, NEW p, NEW unlink, Changes(t, k, p, unlink), FileSystem'
  PROVE  Named' /\ Copies'
<1>1. /\ now' = now /\ now # 0 /\ now \in Nat /\ Paths' = Paths /\ copies' = copies
      /\ \A x \in Paths : x # p => fs'[x] = fs[x] /\ (fs[x] # 0 => inodes'[fs[x]] = inodes[fs[x]])
      /\ \A i \in 1..MaxInodes : inodes'[i] = inodes[i] \/ inodes'[i].mtime = now
      /\ p \in Paths => /\ fs'[p] # 0 => \/ inodes'[fs'[p]].mtime = now
                                         \/ fs'[p] = fs[p] /\ inodes'[fs[p]] = inodes[fs[p]]
                        /\ \/ fs'[p] = fs[p] \/ fs'[p] = 0
                           \/ fs'[p] \in 1..MaxInodes /\ inodes[fs'[p]].mtime = 0
  BY DEF Changes, FilesInv, Named, JobsInv, Shared, FileSystem
<1>2. /\ \A i \in 1..MaxInodes : inodes[i].mtime <= now
      /\ \A x \in Paths : fs[x] # 0 => inodes[fs[x]].mtime # 0
      /\ \A x, r \in Paths : fs[x] # 0 /\ fs[x] = fs[r] => x = r
  BY DEF FilesInv, Named
<1>3. \A i \in 1..MaxInodes : inodes'[i].mtime <= now
  BY <1>1, <1>2
<1>4. \A x \in Paths : fs'[x] # 0 => inodes'[fs'[x]].mtime # 0
  BY <1>1, <1>2
<1>5. ASSUME NEW x \in Paths, NEW r \in Paths, fs'[x] # 0, fs'[x] = fs'[r] PROVE x = r
  BY <1>1, <1>2, <1>5
<1>6. Named'
  BY <1>1, <1>3, <1>4, <1>5 DEF Named
<1>7. Copies'
  <2> SUFFICES ASSUME NEW x \in DOMAIN copies, copies[x].clean
               PROVE  /\ copies[x].date \in 0..now
                      /\ x \in Paths /\ fs'[x] # 0 /\ inodes'[fs'[x]].mtime < copies[x].date =>
                           inodes'[fs'[x]].data = copies[x].data
    BY <1>1 DEF Copies, Exists, File
  <2>1. /\ copies[x].date \in 0..now
        /\ x \in Paths /\ fs[x] # 0 /\ inodes[fs[x]].mtime < copies[x].date =>
             inodes[fs[x]].data = copies[x].data
    BY DEF FilesInv, Copies, Exists, File
  <2>2. CASE x # p
    BY <1>1, <2>1, <2>2
  <2>3. CASE x = p
    <3> DEFINE d == copies[x].date
    <3>1. d \in 0..now /\ ~ (now < d)
      BY <1>1, <2>1
    <3> HIDE DEF d
    <3> QED BY <1>1, <2>1, <2>3, <3>1 DEF d
  <2> QED BY <2>2, <2>3
<1>. QED
  BY <1>6, <1>7

LEMMA OtherIs ==
  ASSUME NEW t \in Workers, NEW k, NEW p, NEW unlink, Touch(t, k, p, unlink), NEW u \in Workers \ {t},
         NEW b, b = Disturbs(u, p, unlink)
  PROVE  job'[u] = DisturbedOf(job[u], b)
BY DEF Touch, Disturbs, DisturbedOf

\* The others: their files are open by the same names.
LEMMA ChangedOpen ==
  ASSUME FilesInv, NEW t \in Workers, NEW k, NEW p, NEW unlink, Changes(t, k, p, unlink), FileSystem',
         NEW u \in Workers \ {t}
  PROVE  /\ OpenBy(job[u])'
         /\ Holds(job[u])' <=> Holds(job[u])
         /\ Held(job[u])' = Held(job[u]) /\ job'[u].ino = job[u].ino /\ job'[u].date = job[u].date
<1> DEFINE j == job[u]
           m == job'[u]
           b == Disturbs(u, {p}, unlink)
<1>1. Local(j) /\ b \in BOOLEAN /\ m = DisturbedOf(j, b)
  <2>1. j.disturbed \in BOOLEAN /\ Local(j) /\ JobsInv
    BY DEF FilesInv, JobsInv, Local, IsJob, Typed
  <2>2. b \in BOOLEAN
    BY <2>1 DEF Disturbs
  <2> HIDE DEF b
  <2>3. job'[u] = DisturbedOf(job[u], b)
    <3> DEFINE s == {p}
    <3>1. Touch(t, k, s, unlink) /\ b = Disturbs(u, s, unlink)
      BY DEF Changes, b
    <3> HIDE DEF s
    <3> QED BY <3>1, OtherIs
  <2> QED BY <2>1, <2>2, <2>3
<1>2. m.pc = j.pc /\ m.ino = j.ino /\ Target(m, j) /\ m.date = j.date
  <2> HIDE DEF j, m, b
  <2> QED BY <1>1, Disturbing
<1>3. Holds(job[u])' <=> Holds(job[u])
  BY <1>2 DEF Holds
<1>4. Held(job[u])' = Held(job[u])
  BY <1>2 DEF Held, Served, Zipped, Target, Changes
<1>5. ASSUME Holds(j) PROVE OpenBy(job[u])'
  <2>1. /\ inodes[j.ino].mtime # 0 /\ \A x \in Paths : fs[x] = j.ino => x = Held(j)
    BY <1>5 DEF FilesInv, OpenInodes, OpenBy
  <2>2. j.ino # 0 /\ j.ino \in 0..MaxInodes /\ MaxInodes \in Nat /\ now # 0
    BY <1>1, <1>5, WorldsAssumption DEF Local, IsJob, Typed, Opened, FilesInv, Named
  <2>3. inodes'[j.ino].mtime # 0
    BY <2>1, <2>2 DEF Changes
  <2>4. ASSUME NEW x \in Paths, fs'[x] = j.ino PROVE x = Held(j)
    BY <2>1, <2>2, <2>4 DEF Changes
  <2>5. Paths' = Paths
    BY DEF Changes
  <2> QED BY <1>2, <1>4, <2>3, <2>4, <2>5 DEF OpenBy
<1>. QED
  BY <1>2, <1>3, <1>4, <1>5 DEF OpenBy

\* What they know of theirs, unless they have been disturbed.
LEMMA ChangedApart ==
  ASSUME FilesInv, NEW t \in Workers, NEW k, NEW p, NEW unlink, Changes(t, k, p, unlink), FileSystem',
         NEW u \in Workers \ {t}, ~job'[u].disturbed
  PROVE  /\ ~job[u].disturbed
         /\ \/ unlink /\ job[u].pc = "send"
            \/ Apart(job[u].path, p) /\ Apart(Served(job[u]), p)
<1> DEFINE j == job[u]
           m == job'[u]
           b == Disturbs(u, {p}, unlink)
<1>1. m = DisturbedOf(j, b) /\ Full(j)
  <2>1. Local(j) /\ JobsInv
    BY DEF FilesInv, JobsInv
  <2> HIDE DEF b
  <2>2. job'[u] = DisturbedOf(job[u], b)
    <3> DEFINE s == {p}
    <3>1. Touch(t, k, s, unlink) /\ b = Disturbs(u, s, unlink)
      BY DEF Changes, b
    <3> HIDE DEF s
    <3> QED BY <3>1, OtherIs
  <2> QED BY <2>1, <2>2 DEF Local, IsJob
<1>2. m.disturbed = b
  <2> HIDE DEF b, j, m
  <2> QED BY <1>1 DEF DisturbedOf, Full, Fields
<1>3. /\ ~j.disturbed
      /\ \/ unlink /\ j.pc = "send"
         \/ \A x \in {j.path, Served(j)} : ~IsPrefix(p, x)
  BY <1>2 DEF Disturbs
<1>4. p \in Seq(STRING) => IsPrefix(p, p)
  BY DEF IsPrefix
<1>. QED
  BY <1>3, <1>4 DEF Apart

-----------------------------------------------------------------------------
\* What is known of a job stays known when only a path it does not speak of has changed.
LEMMA KnownApart ==
  ASSUME FilesInv, NEW t \in Workers, NEW k, NEW p, NEW unlink, Changes(t, k, p, unlink),
         NEW u \in Workers \ {t}, NEW m, job'[u] = m, Local(m),
         Looked(m), Sent(m), Written(m), Removed(m), NotModified(m), Apart(m.path, p), Apart(Served(m), p),
         m.pc = job[u].pc, m.ino = job[u].ino, Target(m, job[u])
  PROVE  Looked(job[u])' /\ Sent(job[u])' /\ Written(job[u])' /\ Removed(job[u])' /\ NotModified(job[u])'
<1> DEFINE x == m.path
<1>0. PICK s : s = Served(m)
  OBVIOUS
<1>1. /\ config' = config /\ copies' = copies /\ Paths' = Paths /\ Paths \subseteq Seq(STRING)
      /\ Served(job[u])' = s
  BY <1>0 DEF Changes, FilesInv, JobsInv, Shared, FileSystem, Served, Zipped
<1>2. ASSUME NEW y, Apart(y, p)
      PROVE  /\ Exists(y)' <=> Exists(y)
             /\ Exists(y) => fs'[y] = fs[y] /\ File(y)' = File(y)
             /\ IsDir(y)' <=> IsDir(y)
  <2>1. y \in Paths => y # p
    BY <1>1, <1>2 DEF Apart
  <2>2. /\ Exists(y)' <=> Exists(y)
        /\ Exists(y) => fs'[y] = fs[y] /\ File(y)' = File(y)
    BY <1>1, <2>1 DEF Changes, Exists, File
  <2> QED BY <2>2 DEF IsDir
<1>3. /\ Exists(x)' <=> Exists(x)
      /\ Exists(x) => fs'[x] = fs[x] /\ File(x)' = File(x)
      /\ IsDir(x)' <=> IsDir(x)
  BY <1>2
<1>4. /\ Exists(s)' <=> Exists(s)
      /\ Exists(s) => fs'[s] = fs[s] /\ File(s)' = File(s)
  BY <1>0, <1>2
<1>5. m.pc = "send" => inodes'[m.ino] = inodes[m.ino]
  <2> SUFFICES ASSUME m.pc = "send" PROVE inodes'[m.ino] = inodes[m.ino]
    OBVIOUS
  <2>1. Holds(job[u]) /\ Held(job[u]) = Served(m)
    BY DEF Holds, Held, Served, Target
  <2> QED BY <2>1 DEF Changes
<1>6. Looked(job[u])'
  <2>1. Looked(m) /\ Served(m) = s
    BY <1>0
  <2> HIDE DEF x
  <2> QED BY <1>1, <1>3, <1>4, <2>1 DEF Looked, Fresh, x
<1>7. Sent(job[u])'
  <2>1. ASSUME Sending(m) PROVE Sending(job[u])'
    BY <1>5, <2>1 DEF Sending, Slice, Start
  <2> QED BY <1>3, <2>1 DEF Sent
<1>8. Written(job[u])'
  <2>1. ASSUME Writing(m) PROVE Writing(job[u])'
    <3>1. Exists(x) /\ fs[x] = m.ino /\ Exists(x)' /\ fs'[x] = m.ino /\ inodes'[m.ino] = inodes[m.ino]
      BY <1>3, <2>1 DEF Writing, File
    <3> QED BY <2>1, <3>1 DEF Writing
  <2> QED BY <2>1 DEF Written
<1>9. Removed(job[u])'
  BY <1>3 DEF Removed
<1>10. NotModified(job[u])'
  BY <1>1, <1>3 DEF NotModified, Unmodified
<1>. QED
  BY <1>6, <1>7, <1>8, <1>9, <1>10

\* So it does while a file is sent whose name goes.
LEMMA KnownSending ==
  ASSUME FilesInv, NEW t \in Workers, NEW k, NEW p, Changes(t, k, p, TRUE),
         NEW u \in Workers \ {t}, NEW m, job'[u] = m, Local(m), m.pc = "send", Sent(m), Removed(m)
  PROVE  Looked(job[u])' /\ Sent(job[u])' /\ Written(job[u])' /\ Removed(job[u])' /\ NotModified(job[u])'
<1>1. /\ config' = config /\ Paths' = Paths /\ inodes' = inodes /\ (p \in Paths => fs'[p] = 0)
      /\ \A x \in Paths : x # p => fs'[x] = fs[x]
  BY DEF Changes
<1>2. m.status # 304 /\ ~ (m.status = 201 /\ m.q.method = "MKCOL")
  BY DEF Local, Answered
<1>3. Looked(job[u])' /\ Written(job[u])' /\ NotModified(job[u])'
  BY <1>2 DEF Looked, Written, NotModified
<1>4. ASSUME Exists(m.path)'
      PROVE  Exists(m.path) /\ fs'[m.path] = fs[m.path] /\ File(m.path)' = File(m.path)
  BY <1>1, <1>4 DEF Exists, File
<1>5. Sent(job[u])'
  <2>1. ASSUME Sending(m) PROVE Sending(job[u])'
    BY <1>1, <2>1 DEF Sending, Slice, Start
  <2> QED BY <1>4, <2>1 DEF Sent
<1>6. Removed(job[u])'
  BY <1>2, <1>4 DEF Removed
<1>. QED
  BY <1>3, <1>5, <1>6

LEMMA ChangedOthers ==
  ASSUME FilesInv, NEW t \in Workers, NEW k, NEW p, NEW unlink, Changes(t, k, p, unlink), FileSystem',
         NEW u \in Workers \ {t}
  PROVE  Undisturbed(job[u])'
<1> DEFINE j == job[u]
           m == job'[u]
           b == Disturbs(u, {p}, unlink)
<1> SUFFICES ASSUME ~m.disturbed
             PROVE  /\ Looked(job[u])' /\ Sent(job[u])' /\ Written(job[u])' /\ Removed(job[u])'
                    /\ NotModified(job[u])'
  BY DEF Undisturbed
<1>1. /\ ~j.disturbed
      /\ \/ unlink /\ j.pc = "send"
         \/ Apart(j.path, p) /\ Apart(Served(j), p)
  BY ChangedApart
<1>2. Local(j) /\ Looked(j) /\ Sent(j) /\ Written(j) /\ Removed(j) /\ NotModified(j)
  BY <1>1 DEF FilesInv, JobsInv, Undisturbed
<1>3. m = DisturbedOf(j, b) /\ b \in BOOLEAN
  <2>1. j.disturbed \in BOOLEAN
    BY <1>2 DEF Local, IsJob, Typed
  <2>2. b \in BOOLEAN
    BY <2>1 DEF Disturbs
  <2> HIDE DEF b
  <2>3. job'[u] = DisturbedOf(job[u], b)
    <3> DEFINE s == {p}
    <3>1. Touch(t, k, s, unlink) /\ b = Disturbs(u, s, unlink)
      BY DEF Changes, b
    <3> HIDE DEF s
    <3> QED BY <3>1, OtherIs
  <2> QED BY <2>2, <2>3
<1>4. PICK n : n = job'[u]
  OBVIOUS
<1> HIDE DEF m, b, j
<1>5. /\ Local(n) /\ n.pc = j.pc /\ n.q = j.q /\ n.ino = j.ino /\ n.pos = j.pos /\ n.left = j.left /\ n.seen = j.seen
      /\ n.ok = j.ok /\ n.announced = j.announced /\ n.changed = j.changed
      /\ n.whole = j.whole /\ n.date = j.date /\ n.unsaved = j.unsaved
      /\ Choice(n, j) /\ Target(n, j) /\ Verdict(n, j) /\ n.sent = j.sent
  BY <1>2, <1>3, <1>4, Disturbing DEF m
<1>6. Looked(n)
  BY <1>2, <1>5 DEF Looked, Fresh, Served, Target, Choice
<1>7. Sent(n)
  <2>1. ASSUME Sending(j) PROVE Sending(n)
    BY <1>5, <2>1 DEF Sending, Slice, Start, Target
  <2> QED BY SMTT(30), <1>2, <1>5, <2>1 DEF Sent, Target, Verdict
<1>8. Written(n) /\ Removed(n) /\ NotModified(n)
  BY <1>2, <1>5 DEF Written, Writing, Removed, NotModified, Target, Verdict
<1>9. CASE unlink /\ j.pc = "send"
  <2>1. Changes(t, k, p, TRUE)
    <3>1. unlink = TRUE
      BY <1>9 DEF Changes
    <3> QED BY <3>1
  <2> QED BY <1>4, <1>5, <1>7, <1>8, <1>9, <2>1, KnownSending
<1>10. CASE Apart(j.path, p) /\ Apart(Served(j), p)
  <2>1. Apart(n.path, p) /\ Apart(Served(n), p)
    BY <1>5, <1>10 DEF Target, Served
  <2>2. n.pc = job[u].pc /\ n.ino = job[u].ino /\ Target(n, job[u])
    BY <1>5 DEF j
  <2> QED BY <1>4, <1>5, <1>6, <1>7, <1>8, <2>1, <2>2, KnownApart
<1>. QED
  BY <1>1, <1>9, <1>10

\* After a step of t that changes files, what is known of t's job suffices.
LEMMA AfterChange ==
  ASSUME FilesInv, JobsInv', NEW t \in Workers, NEW k, NEW p, NEW unlink, Changes(t, k, p, unlink),
         job'[t].date <= now, Undisturbed(job[t])', OpenBy(job[t])',
         \A u \in Workers \ {t} : SameName(job[t], job[u])'
  PROVE  FilesInv'
<1>1. FileSystem' /\ now' = now
  BY DEF JobsInv, Shared, Changes
<1>2. Named' /\ Copies'
  BY <1>1, ChangedNamed
<1>3. ASSUME NEW u \in Workers PROVE (job[u].date <= now)' /\ Undisturbed(job[u])' /\ OpenBy(job[u])'
  <2>1. CASE u = t
    BY <1>1, <2>1
  <2>2. CASE u # t
    <3>1. job[u].date <= now
      BY DEF FilesInv
    <3> QED BY <1>1, <2>2, <3>1, ChangedOpen, ChangedOthers
  <2> QED BY <2>1, <2>2
<1>4. ASSUME NEW u \in Workers, NEW v \in Workers PROVE SameName(job[u], job[v])'
  <2>1. CASE u = t /\ v = t
    BY <2>1 DEF SameName
  <2>2. CASE u = t /\ v # t
    BY <2>2
  <2>3. CASE u # t /\ v = t
    <3>1. SameName(job[v], job[u])'
      BY <2>3
    <3> QED BY <3>1 DEF SameName
  <2>4. CASE u # t /\ v # t
    <3>1. /\ Holds(job[u])' <=> Holds(job[u])
          /\ Held(job[u])' = Held(job[u]) /\ job'[u].ino = job[u].ino
      BY <1>1, <2>4, ChangedOpen
    <3>2. /\ Holds(job[v])' <=> Holds(job[v])
          /\ Held(job[v])' = Held(job[v]) /\ job'[v].ino = job[v].ino
      BY <1>1, <2>4, ChangedOpen
    <3>3. SameName(job[u], job[v])
      BY DEF FilesInv, OpenInodes
    <3> QED BY <3>1, <3>2, <3>3 DEF SameName
  <2> QED BY <2>1, <2>2, <2>3, <2>4
<1>. QED
  BY <1>2, <1>3, <1>4 DEF FilesInv, OpenInodes

\* A job that has changed a file and holds none open.
LEMMA AfterChangeAlone ==
  ASSUME FilesInv, JobsInv', NEW t \in Workers, NEW k, NEW p, NEW unlink, Changes(t, k, p, unlink),
         NEW m, job'[t] = m, Local(m), m.changed, m.date <= now, m.status # 304, ~Holds(m),
         m.q.method = "PUT" /\ m.ino # 0 => m.error # 0,
         m.q.method = "DELETE" /\ m.error = 204 /\ m.seen = {} /\ m.path = m.q.path => ~Exists(m.path)',
         m.q.method = "MKCOL" /\ m.status = 201 => IsDir(m.path)'
  PROVE  FilesInv'
<1>1. m.q.method \in {"PUT", "DELETE", "MKCOL"}
  BY DEF Local, Changed
<1>2. Undisturbed(job[t])'
  <2>1. Looked(job[t])'
    BY DEF Looked
  <2>2. Sent(job[t])'
    BY <1>1 DEF Sent, Holds
  <2>3. Written(job[t])'
    BY DEF Written, Holds
  <2>4. Removed(job[t])' /\ NotModified(job[t])'
    BY DEF Removed, NotModified
  <2> QED BY <2>1, <2>2, <2>3, <2>4 DEF Undisturbed
<1>3. OpenBy(job[t])' /\ \A u \in Workers \ {t} : SameName(job[t], job[u])'
  BY DEF OpenBy, SameName, Holds
<1>. QED
  BY <1>2, <1>3, AfterChange

-----------------------------------------------------------------------------
-----------------------------------------------------------------------------
\* The four ways of changing files.
LEMMA MakeChanges ==
  ASSUME FilesInv, NEW t \in Workers, NEW k, NEW p, NEW dir \in BOOLEAN, Room, Make(p, dir),
         Touch(t, k, {p}, FALSE), UNCHANGED <<config, now, copies>>, Paths' = Paths, ~Exists(p)
  PROVE  /\ Changes(t, k, p, FALSE)
         /\ p \in Paths => fs'[p] \in 1..MaxInodes /\ inodes[fs'[p]].mtime = 0 /\ inodes'[fs'[p]].mtime = now
                           /\ inodes'[fs'[p]].data = <<>> /\ inodes'[fs'[p]].dir = dir
<1> DEFINE i == Free
           new == [dir |-> dir, data |-> <<>>, mtime |-> now, writable |-> TRUE]
<1>1. MaxInodes \in Nat /\ FileSystem /\ Named /\ FileSystem'
  <2>1. MaxInodes \in Nat /\ FileSystem /\ Named
    BY WorldsAssumption DEF FilesInv, JobsInv, Shared
  <2> QED BY <2>1, MakeTyped
<1>2. i \in 1..MaxInodes /\ inodes[i].mtime = 0
  BY <1>1, MakeTyped
<1>3. fs' = [fs EXCEPT ![p] = i] /\ inodes' = [inodes EXCEPT ![i] = new]
  BY DEF Make
<1>4. new.mtime = now /\ new.data = <<>> /\ new.dir = dir
  OBVIOUS
<1> HIDE DEF i, new
<1>5. fs \in [Paths -> 0..MaxInodes] /\ inodes \in [1..MaxInodes -> Inodes]
  BY <1>1 DEF FileSystem
<1>6. /\ inodes'[i] = new /\ \A n \in 1..MaxInodes : n # i => inodes'[n] = inodes[n]
      /\ p \in Paths => fs'[p] = i
      /\ \A x \in Paths : x # p => fs'[x] = fs[x]
  BY <1>2, <1>3, <1>5
<1>7. ASSUME NEW n \in 1..MaxInodes, inodes[n].mtime # 0 PROVE inodes'[n] = inodes[n]
  BY <1>2, <1>6, <1>7
<1>8. ASSUME NEW x \in Paths, x # p, fs[x] # 0 PROVE inodes'[fs[x]] = inodes[fs[x]]
  <2>1. fs[x] \in 1..MaxInodes /\ inodes[fs[x]].mtime # 0
    BY <1>1, <1>5, <1>8 DEF Named
  <2> QED BY <1>7, <2>1
<1>9. ASSUME NEW u \in Workers, Holds(job[u]) PROVE inodes'[job[u].ino] = inodes[job[u].ino]
  <2>1. job[u].ino \in 0..MaxInodes /\ job[u].ino # 0 /\ inodes[job[u].ino].mtime # 0
    BY <1>9 DEF FilesInv, JobsInv, Local, IsJob, Typed, Opened, OpenInodes, OpenBy
  <2>2. job[u].ino \in 1..MaxInodes
    BY <1>1, <2>1
  <2> QED BY <1>7, <2>1, <2>2
<1>10. \A n \in 1..MaxInodes : inodes'[n] = inodes[n] \/ inodes'[n].mtime = now
  BY <1>4, <1>6
<1>11. Changes(t, k, p, FALSE)
  BY <1>2, <1>4, <1>6, <1>8, <1>9, <1>10 DEF Changes
<1>. QED
  BY <1>2, <1>4, <1>6, <1>11

LEMMA UnlinkChanges ==
  ASSUME FilesInv, NEW t \in Workers, NEW k, NEW p, Unlink(t, k, p), Paths' = Paths
  PROVE  Changes(t, k, p, TRUE)
<1>1. fs \in [Paths -> 0..MaxInodes]
  BY DEF FilesInv, JobsInv, Shared, FileSystem
<1>2. /\ p \in Paths => fs'[p] = 0
      /\ \A x \in Paths : x # p => fs'[x] = fs[x]
  BY <1>1 DEF Unlink
<1>3. Touch(t, k, {p}, TRUE) /\ UNCHANGED <<config, inodes, now, copies>>
  BY DEF Unlink
<1>. QED
  BY <1>2, <1>3 DEF Changes

\* What is known of a file and of those that have it open.
LEMMA OneFile ==
  ASSUME FilesInv, NEW p \in Paths, NEW n \in 1..MaxInodes, fs[p] = n
  PROVE  /\ p \in Seq(STRING)
         /\ \A x \in Paths : x # p => fs[x] # n
         /\ \A u \in Workers : Holds(job[u]) /\ job[u].ino = n => Held(job[u]) = p
<1>1. p \in Seq(STRING) /\ n # 0
  BY DEF FilesInv, JobsInv, Shared, FileSystem
<1>2. \A x \in Paths : x # p => fs[x] # n
  BY <1>1 DEF FilesInv, Named
<1>3. \A u \in Workers : Holds(job[u]) /\ job[u].ino = n => Held(job[u]) = p
  BY DEF FilesInv, OpenInodes, OpenBy
<1>. QED
  BY <1>1, <1>2, <1>3

LEMMA EmptyChanges ==
  ASSUME FilesInv, NEW t \in Workers, NEW k, NEW p, Exists(p), UNCHANGED fs,
         inodes' = [inodes EXCEPT ![fs[p]].data = <<>>, ![fs[p]].mtime = now],
         Touch(t, k, {p}, FALSE), UNCHANGED <<config, now, copies>>
  PROVE  /\ Changes(t, k, p, FALSE) /\ fs[p] \in 1..MaxInodes
         /\ inodes'[fs[p]].mtime = now /\ inodes'[fs[p]].data = <<>>
<1> DEFINE n == fs[p]
           x0 == RewriteOf(inodes[n], <<>>, now)
<1>1. MaxInodes \in Nat /\ fs \in [Paths -> 0..MaxInodes] /\ inodes \in [1..MaxInodes -> Inodes] /\ now \in Nat
  BY WorldsAssumption DEF FilesInv, JobsInv, Shared, FileSystem
<1>2. p \in Paths /\ n \in 1..MaxInodes /\ Paths' = Paths
  BY <1>1 DEF Exists, Paths
<1>3. inodes' = [inodes EXCEPT ![n] = x0]
  BY <1>1, <1>2 DEF RewriteOf
<1>4. x0.mtime = now /\ x0.data = <<>>
  <2> DEFINE y == inodes[n]
             d == <<>>
  <2>1. y \in Inodes
    BY <1>1, <1>2
  <2>2. x0 = RewriteOf(y, d, now) /\ d = <<>>
    OBVIOUS
  <2> HIDE DEF y, d, x0
  <2>3. RewriteOf(y, d, now).mtime = now /\ RewriteOf(y, d, now).data = d
    BY <2>1 DEF RewriteOf, Inodes
  <2> QED BY <2>2, <2>3
<1> HIDE DEF x0, n
<1>5. inodes'[n] = x0 /\ \A i \in 1..MaxInodes : i # n => inodes'[i] = inodes[i]
  BY <1>1, <1>2, <1>3
<1>6. /\ p \in Seq(STRING)
      /\ \A x \in Paths : x # p => fs[x] # n
      /\ \A u \in Workers : Holds(job[u]) /\ job[u].ino = n => Held(job[u]) = p
  <2>1. fs[p] = n
    BY DEF n
  <2> QED BY <1>2, <2>1, OneFile
<1>7. ASSUME NEW x \in Paths, x # p, fs[x] # 0 PROVE inodes'[fs[x]] = inodes[fs[x]]
  <2>1. fs[x] \in 1..MaxInodes
    BY <1>1, <1>7
  <2>2. fs[x] # n
    BY <1>6, <1>7
  <2> QED BY <1>5, <2>1, <2>2
<1>8. ASSUME NEW u \in Workers, Holds(job[u]), Apart(Held(job[u]), p)
      PROVE  inodes'[job[u].ino] = inodes[job[u].ino]
  <2>1. job[u].ino \in 0..MaxInodes /\ job[u].ino # 0
    BY <1>8 DEF FilesInv, JobsInv, Local, IsJob, Typed, Opened
  <2>2. job[u].ino # n
    BY <1>6, <1>8 DEF Apart
  <2>3. job[u].ino \in 1..MaxInodes
    BY <1>1, <2>1
  <2> QED BY <1>5, <2>2, <2>3
<1>9. \A i \in 1..MaxInodes : inodes'[i] = inodes[i] \/ inodes'[i].mtime = now
  BY <1>4, <1>5
<1>10. fs'[p] = n /\ fs[p] = n
  BY DEF n
<1>11. Changes(t, k, p, FALSE)
  BY <1>2, <1>4, <1>5, <1>7, <1>8, <1>9, <1>10 DEF Changes
<1>. QED
  BY <1>2, <1>4, <1>5, <1>10, <1>11

LEMMA FlushChanges ==
  ASSUME FilesInv, NEW t \in Workers, job[t].pc \in {"put_write", "put_close"},
         NEW m, Local(m), m.ino = job[t].ino, Flush(t, m),
         NEW p, p = job[t].path, NEW k, k = FlushOf(m)
  PROVE  /\ Changes(t, k, p, FALSE) /\ m.ino \in 1..MaxInodes
         /\ inodes'[m.ino].mtime = now /\ inodes'[m.ino].data = WriteAll(inodes[m.ino].data, m.pos, m.unsaved)
<1> DEFINE j == job[t]
           n == m.ino
<1>1. MaxInodes \in Nat /\ FileSystem /\ now \in Nat /\ Paths' = Paths
  BY WorldsAssumption DEF FilesInv, JobsInv, Shared, FileSystem, Flush, Paths
<1>2. Local(j) /\ Holds(j) /\ Held(j) = p /\ OpenBy(j) /\ p \in Seq(STRING)
  BY DEF FilesInv, JobsInv, OpenInodes, Holds, Held, Local, IsJob, Typed
<1>3. n # 0
  BY <1>2 DEF Local, Opened
<1>4. inodes' = [inodes EXCEPT ![m.ino].data = WriteAll(@, m.pos, m.unsaved), ![m.ino].mtime = now]
      /\ UNCHANGED <<config, fs, now, copies>>
  BY SMTT(30) DEF Flush
<1>5. /\ n \in 1..MaxInodes
      /\ inodes'[n].data = WriteAll(inodes[n].data, m.pos, m.unsaved)
      /\ inodes'[n].mtime = now
      /\ \A i \in 1..MaxInodes : i # n => inodes'[i] = inodes[i]
  BY Zenon, <1>1, <1>3, <1>4, FlushedInodes
<1>6. Touch(t, k, {p}, FALSE)
  <2>1. [m EXCEPT !.pos = @ + Len(m.unsaved), !.unsaved = <<>>] = k
    BY DEF FlushOf, Local, IsJob, Full, Fields
  <2> QED BY <2>1 DEF Flush
<1>7. ASSUME NEW x \in Paths, x # p, fs[x] # 0 PROVE inodes'[fs[x]] = inodes[fs[x]]
  <2>1. fs[x] \in 1..MaxInodes
    BY <1>1, <1>7 DEF FileSystem
  <2>2. fs[x] # n
    BY <1>2, <1>7 DEF OpenBy
  <2> QED BY <1>5, <2>1, <2>2
<1>8. ASSUME NEW u \in Workers, Holds(job[u]), Apart(Held(job[u]), p)
      PROVE  inodes'[job[u].ino] = inodes[job[u].ino]
  <2>1. job[u].ino \in 0..MaxInodes /\ job[u].ino # 0
    BY <1>8 DEF FilesInv, JobsInv, Local, IsJob, Typed, Opened
  <2>2. SameName(j, job[u])
    BY DEF FilesInv, OpenInodes
  <2>3. job[u].ino # n
    BY <1>2, <1>8, <2>2 DEF Apart, SameName
  <2> QED BY <1>1, <1>5, <2>1, <2>3
<1>9. \A i \in 1..MaxInodes : inodes'[i] = inodes[i] \/ inodes'[i].mtime = now
  BY <1>5
<1>10. p \in Paths /\ fs[p] # 0 => inodes'[fs[p]] = inodes[fs[p]] \/ inodes'[fs[p]].mtime = now
  BY SMTT(30), <1>1, <1>9 DEF FileSystem
<1>11. Changes(t, k, p, FALSE)
  BY Zenon, <1>1, <1>4, <1>6, <1>7, <1>8, <1>9, <1>10 DEF Changes
<1>. QED
  BY <1>5, <1>11

-----------------------------------------------------------------------------
-----------------------------------------------------------------------------
\* The jobs of those who change files.
ChangedOf(k) == [k EXCEPT !.changed = TRUE]

LEMMA WithChange ==
  ASSUME NEW k, Full(k), NEW m, m = ChangedOf(k)
  PROVE  /\ m.pc = k.pc /\ m.q = k.q /\ m.ino = k.ino /\ m.pos = k.pos /\ m.left = k.left /\ m.seen = k.seen
         /\ m.ok = k.ok /\ m.changed /\ m.disturbed = k.disturbed /\ m.date = k.date /\ m.unsaved = k.unsaved
         /\ Target(m, k) /\ Verdict(m, k)
<1>1. /\ m.pc = k.pc /\ m.q = k.q /\ m.ino = k.ino /\ m.pos = k.pos /\ m.left = k.left /\ m.seen = k.seen
      /\ m.ok = k.ok /\ m.changed /\ m.disturbed = k.disturbed /\ m.date = k.date /\ m.unsaved = k.unsaved
  BY DEF ChangedOf, Full, Fields
<1>2. Target(m, k) /\ Verdict(m, k)
  BY DEF ChangedOf, Full, Fields, Target, Verdict
<1>. QED
  BY <1>1, <1>2

LEMMA AuthorizedBack ==
  ASSUME NEW t, NEW m, job'[t] = m, UNCHANGED <<config, handlers>>
  PROVE  Authorized(job[t])' => Authorized(m)
BY DEF Authorized

LEMMA LocalBack ==
  ASSUME NEW t, NEW m, job'[t] = m, UNCHANGED <<config, handlers, clients>>, Local(job[t])'
  PROVE  Local(m)
<1>0. Authorized(job[t])' => Authorized(m)
  BY AuthorizedBack
<1>1. IsJob(m)
  BY DEF Local, IsJob, Full, Typed, Stages, Stats, Marks
<1>2. Begun(m)
  BY DEF Local, Begun, Clean
<1>3. Working(m) /\ Changed(m)
  BY <1>0 DEF Local, Working, Changed
<1>4. Answered(m) /\ Opened(m)
  BY DEF Local, Answered, Opened, Holds
<1>5. Chosen(m)
  BY <1>0 DEF Local, Chosen
<1>. QED
  BY <1>1, <1>2, <1>3, <1>4, <1>5 DEF Local

LEMMA OwnJob ==
  ASSUME FilesInv, JobsInv', NEW t \in Workers, NEW k, Full(k), NEW p, NEW unlink, Touch(t, k, p, unlink),
         UNCHANGED <<config, handlers, clients>>, NEW m, m = job'[t]
  PROVE  /\ Local(m)
         /\ m.pc = k.pc /\ m.q = k.q /\ m.ino = k.ino /\ m.pos = k.pos /\ m.left = k.left /\ m.seen = k.seen
         /\ m.ok = k.ok /\ m.changed /\ m.disturbed = k.disturbed /\ m.date = k.date /\ m.unsaved = k.unsaved
         /\ Target(m, k) /\ Verdict(m, k)
<1>1. Local(job[t])'
  BY DEF JobsInv
<1>2. Local(m)
  BY <1>1, LocalBack
<1>3. m = ChangedOf(k)
  BY Touched DEF FilesInv, ChangedOf
<1>. QED
  BY <1>2, <1>3, WithChange

LEMMA AfterPutDir ==
  ASSUME FilesInv, JobsInv', Paths' = Paths, NEW t \in Workers, PutDir(t)
  PROVE  FilesInv'
<1>1. Shared /\ Local(job[t]) /\ job[t].date <= now
  BY DEF FilesInv, JobsInv
<1>2. CASE Calms(t)
  BY <1>2, AfterSimple DEF Calms, Quiet
<1>3. CASE \E p, k : /\ Room /\ Make(p, TRUE) /\ Touch(t, k, {p}, FALSE) /\ Simple(k, job[t])
                     /\ k.q.method = "PUT" /\ k.ino = 0 /\ k.pc = "put_dir" /\ k.error = 0 /\ Full(k)
                     /\ UNCHANGED <<config, handlers, now, copies, clients>> /\ ~Exists(p)
  <2>1. PICK p, k : /\ Room /\ Make(p, TRUE) /\ Touch(t, k, {p}, FALSE) /\ Simple(k, job[t])
                    /\ k.q.method = "PUT" /\ k.ino = 0 /\ k.pc = "put_dir" /\ k.error = 0 /\ Full(k)
                    /\ UNCHANGED <<config, handlers, now, copies, clients>> /\ ~Exists(p)
    BY <1>3
  <2>2. Changes(t, k, p, FALSE)
    BY <2>1, MakeChanges
  <2>3. PICK m : m = job'[t]
    OBVIOUS
  <2>4. /\ Local(m) /\ m.pc = k.pc /\ m.q = k.q /\ m.ino = k.ino /\ m.changed /\ m.date = k.date
        /\ Target(m, k) /\ Verdict(m, k)
    <3> DEFINE s == {p}
               b == FALSE
    <3>1. Touch(t, k, s, b) /\ UNCHANGED <<config, handlers, clients>> /\ Full(k)
      BY <2>1
    <3> HIDE DEF s, b
    <3> QED BY <2>3, <3>1, OwnJob
  <2>5. m.status # 304 /\ ~Holds(m) /\ m.date <= now
    BY <1>1, <2>1, <2>4 DEF Local, Answered, Holds, Simple
  <2>6. m.q.method = "PUT" /\ m.ino = 0
    BY <2>1, <2>4
  <2> QED BY ZenonT(40), <2>2, <2>3, <2>4, <2>5, <2>6, AfterChangeAlone
<1>. QED
  BY <1>1, <1>2, <1>3, PutDirCases

LEMMA AfterRemoveEntry ==
  ASSUME FilesInv, JobsInv', Paths' = Paths, NEW t \in Workers, RemoveEntry(t)
  PROVE  FilesInv'
<1>1. Shared /\ Local(job[t]) /\ job[t].date <= now
  BY DEF FilesInv, JobsInv
<1>2. CASE Calms(t)
  BY <1>2, AfterSimple DEF Calms, Quiet
<1>3. CASE \E p \in Paths : \E k : /\ Unlink(t, k, p) /\ Simple(k, job[t]) /\ Local(k)
                                     /\ k.seen # {} /\ k.status # 304
  <2>0. PICK p \in Paths : \E k : /\ Unlink(t, k, p) /\ Simple(k, job[t]) /\ Local(k)
                                   /\ k.seen # {} /\ k.status # 304
    BY <1>3
  <2>1. PICK k : /\ Unlink(t, k, p) /\ Simple(k, job[t]) /\ Local(k)
                 /\ k.seen # {} /\ k.status # 304
    BY <2>0
  <2>2. Changes(t, k, p, TRUE)
    BY <2>1, UnlinkChanges
  <2>3. PICK m : m = job'[t]
    OBVIOUS
  <2>4. /\ Local(m) /\ m.pc = k.pc /\ m.q = k.q /\ m.ino = k.ino /\ m.changed /\ m.date = k.date /\ m.seen = k.seen
        /\ Target(m, k) /\ Verdict(m, k)
    <3> DEFINE s == {p}
               b == TRUE
    <3>1. Touch(t, k, s, b) /\ UNCHANGED <<config, handlers, clients>> /\ Full(k)
      BY <2>1 DEF Unlink, Local, IsJob
    <3> HIDE DEF s, b
    <3> QED BY <2>3, <3>1, OwnJob
  <2>5. m.status # 304 /\ ~Holds(m) /\ m.date <= now
    BY <1>1, <2>1, <2>4 DEF Holds, Simple, Verdict
  <2>6. m.q.method = "DELETE" /\ m.seen # {}
    <3>1. job[t].pc = "rmdir"
      BY DEF RemoveEntry
    <3> QED BY <1>1, <2>1, <2>4, <3>1 DEF Simple, Local, Working, DeleteStages
  <2> QED BY ZenonT(40), <2>2, <2>3, <2>4, <2>5, <2>6, AfterChangeAlone
<1>. QED
  BY <1>1, <1>2, <1>3, EntryCases

LEMMA AfterRemoveFile ==
  ASSUME FilesInv, JobsInv', Paths' = Paths, NEW t \in Workers, RemoveFile(t)
  PROVE  FilesInv'
<1> DEFINE j == job[t]
           p == j.path
           s == 204
           k == send_http_error(j, s)
           e == send_http_error(j, 423)
<1>1. /\ j.pc = "remove" /\ Local(j) /\ Full(j) /\ j.date <= now
      /\ Unlink(t, k, p) \/ (Step(t, e) /\ Quiet)
  BY DEF RemoveFile, FilesInv, JobsInv, Local, IsJob
<1>2. j.error = 0 /\ j.path = j.q.path /\ j.status # 304 /\ j.q.method = "DELETE"
  BY <1>1 DEF Local, Begun, Working, DeleteStages, Answered
<1>3. CASE Step(t, e) /\ Quiet
  <2>1. Simple(e, j)
    <3> HIDE DEF e, j
    <3>1. Local(j) /\ j.pc = "remove"
      BY <1>1
    <3> QED BY <3>1, SimpleRefusal DEF e
  <2> HIDE DEF e, k
  <2>2. Calms(t)
    BY <1>3, <2>1 DEF Calms
  <2> QED BY <1>3, <2>2, AfterSimple DEF Quiet
<1>4. CASE Unlink(t, k, p)
  <2>1. /\ Work(k, j) /\ k.error = s /\ (k.status = j.status \/ k.status = s)
        /\ k.pc \in {"cgi", "ssi", "static", "done"}
    <3>1. /\ Work(k, j) /\ Choice(k, j)
          /\ \/ /\ j.error = 0 /\ k.error = s /\ k.status = j.status
                /\ Exists(k.path) /\ Fresh(k) /\ k.pc \in {"cgi", "ssi", "static"}
             \/ /\ k.pc = "done" /\ k.status = s /\ Target(k, j)
                /\ k.error = IF j.error = 0 THEN s ELSE j.error
      <4> HIDE DEF s, j, k
      <4>1. Full(j) /\ k = send_http_error(j, s)
        BY <1>1 DEF k
      <4> QED BY <4>1, ErrorOf
    <3> HIDE DEF s, k
    <3> QED BY <1>2, <3>1
  <2>2. Full(k)
    BY <1>1, <1>2, ErrorFields
  <2>3. k.status # 304
    BY <1>2, <2>1
  <2> HIDE DEF k, s, p
  <2>4. Changes(t, k, p, TRUE)
    BY <1>4, UnlinkChanges
  <2>5. PICK m : m = job'[t]
    OBVIOUS
  <2>6. /\ Local(m) /\ m.pc = k.pc /\ m.q = k.q /\ m.ino = k.ino /\ m.changed /\ m.date = k.date /\ m.seen = k.seen
        /\ Target(m, k) /\ Verdict(m, k)
    <3> DEFINE r == {p}
               b == TRUE
    <3>1. Touch(t, k, r, b) /\ UNCHANGED <<config, handlers, clients>>
      BY <1>4 DEF Unlink
    <3> HIDE DEF r, b
    <3> QED BY <2>2, <2>5, <3>1, OwnJob
  <2>7. m.status # 304 /\ ~Holds(m) /\ m.date <= now /\ m.q.method = "DELETE" /\ m.q = j.q
    BY <1>1, <1>2, <2>1, <2>3, <2>6 DEF Holds, Verdict, Work
  <2>8. m.path = m.q.path => ~Exists(m.path)'
    <3>1. p \in Paths => fs'[p] = 0
      BY <2>4 DEF Changes
    <3>2. m.path = m.q.path => m.path = p
      BY <1>2, <2>7 DEF p
    <3> QED BY <3>1, <3>2 DEF Exists
  <2> HIDE DEF j
  <2> QED BY ZenonT(40), <2>4, <2>5, <2>6, <2>7, <2>8, AfterChangeAlone
<1>. QED
  BY <1>1, <1>3, <1>4

LEMMA AfterMkdir ==
  ASSUME FilesInv, JobsInv', Paths' = Paths, NEW t \in Workers, Mkdir(t)
  PROVE  FilesInv'
<1> DEFINE j == job[t]
           p == j.path
           k == Reply(j, 201)
<1>1. /\ j.pc = "mkdir" /\ Local(j) /\ Full(j) /\ j.date <= now /\ Shared
      /\ \/ Quiet /\ (Step(t, send_http_error(j, 405)) \/ Step(t, send_http_error(j, 409)))
         \/ /\ ~Exists(p) /\ Room /\ Make(p, TRUE) /\ Touch(t, k, {p}, FALSE)
            /\ UNCHANGED <<config, handlers, now, copies, clients>>
  BY ZenonT(40) DEF Mkdir, FilesInv, JobsInv, Local, IsJob
<1>2. /\ j.error = 0 /\ j.q.method = "MKCOL" /\ p \in Seq(STRING) /\ (p = <<>> \/ p \in Paths)
  BY <1>1, Named0 DEF MkcolStages, Local, Working
<1>3. CASE Quiet /\ (Step(t, send_http_error(j, 405)) \/ Step(t, send_http_error(j, 409)))
  <2>1. Simple(send_http_error(j, 405), j) /\ Simple(send_http_error(j, 409), j)
    <3> HIDE DEF j
    <3>1. Local(j) /\ j.pc = "mkdir"
      BY <1>1
    <3> QED BY <3>1, SimpleRefusal
  <2>2. Calms(t)
    BY <1>3, <2>1 DEF Calms
  <2> QED BY <1>3, <2>2, AfterSimple DEF Quiet
<1>4. CASE /\ ~Exists(p) /\ Room /\ Make(p, TRUE) /\ Touch(t, k, {p}, FALSE)
           /\ UNCHANGED <<config, handlers, now, copies, clients>>
  <2>1. Full(k) /\ Target(k, j) /\ Work(k, j) /\ k.error = j.error /\ k.status = 201 /\ k.pc = "done"
    <3>1. Full(k)
      BY <1>1 DEF Reply, Full, Fields
    <3>2. k.error = j.error /\ k.status = 201 /\ k.pc = "done"
      BY <1>1 DEF Reply, Full, Fields
    <3>3. Target(k, j)
      BY <1>1 DEF Reply, Full, Fields, Target
    <3>4. Work(k, j)
      BY <1>1 DEF Reply, Full, Fields, Work
    <3> QED BY <3>1, <3>2, <3>3, <3>4
  <2> HIDE DEF k, p
  <2>2. /\ Changes(t, k, p, FALSE)
        /\ p \in Paths => fs'[p] \in 1..MaxInodes /\ inodes'[fs'[p]].dir = TRUE
    BY <1>4, MakeChanges
  <2>3. PICK m : m = job'[t]
    OBVIOUS
  <2>4. /\ Local(m) /\ m.pc = k.pc /\ m.q = k.q /\ m.ino = k.ino /\ m.changed /\ m.date = k.date
        /\ Target(m, k) /\ Verdict(m, k)
    <3> DEFINE r == {p}
               b == FALSE
    <3>1. Touch(t, k, r, b) /\ UNCHANGED <<config, handlers, clients>>
      BY <1>4
    <3> HIDE DEF r, b
    <3> QED BY <2>1, <2>3, <3>1, OwnJob
  <2>5. m.status # 304 /\ ~Holds(m) /\ m.date <= now /\ m.q.method = "MKCOL"
    BY <1>1, <1>2, <2>1, <2>4 DEF Holds, Verdict, Work
  <2>6. IsDir(m.path)'
    <3>1. m.path = p
      BY <2>1, <2>4 DEF Target, p
    <3>2. p \in Paths => fs'[p] # 0
      <4>1. 0 \notin 1..MaxInodes
        BY WorldsAssumption
      <4> QED BY <2>2, <4>1
    <3> QED BY <1>2, <2>2, <3>1, <3>2 DEF IsDir, Exists, File
  <2> HIDE DEF j
  <2> QED BY <2>2, <2>3, <2>4, <2>5, <2>6, AfterChangeAlone
<1>. QED
  BY <1>1, <1>3, <1>4

-----------------------------------------------------------------------------
-----------------------------------------------------------------------------
\* Written at the end of a part of the body, the next marks make the longer part.
LEMMA WriteAtEnd ==
  ASSUME NEW body \in Seq(Marks), NEW pos \in Nat, NEW n \in Nat, pos + n <= Len(body)
  PROVE  WriteAll(SubSeq(body, 1, pos), pos, SubSeq(body, pos + 1, pos + n)) = SubSeq(body, 1, pos + n)
<1> DEFINE b == pos + n
           data == SubSeq(body, 1, pos)
           marks == SubSeq(body, pos + 1, b)
           x == SubSeq(body, 1, b)
           w == WriteAll(data, pos, marks)
<1>1. b \in Nat /\ pos <= b /\ b <= Len(body) /\ b - pos = n
  OBVIOUS
<1> HIDE DEF b
<1>2. data \in Seq(Marks) /\ Len(data) = pos /\ \A i \in 1..pos : data[i] = body[i]
  <2> DEFINE a == 0
             y == SubSeq(body, a + 1, pos)
  <2>1. a \in Nat /\ a <= pos /\ pos <= Len(body) /\ y = data
    BY <1>1
  <2> HIDE DEF a, y, data
  <2>2. y \in Seq(Marks) /\ Len(y) = pos - a /\ \A i \in 1..(pos - a) : y[i] = body[a + i]
    BY <2>1, PartOf DEF y
  <2> QED BY <2>1, <2>2 DEF a
<1>3. marks \in Seq(Marks) /\ Len(marks) = n /\ \A i \in 1..n : marks[i] = body[pos + i]
  <2> HIDE DEF marks
  <2>1. marks \in Seq(Marks) /\ Len(marks) = b - pos /\ \A i \in 1..(b - pos) : marks[i] = body[pos + i]
    BY <1>1, PartOf DEF marks
  <2> QED BY <1>1, <2>1
<1>4. x \in Seq(Marks) /\ Len(x) = b /\ \A i \in 1..b : x[i] = body[i]
  <2> DEFINE a == 0
             y == SubSeq(body, a + 1, b)
  <2>1. a \in Nat /\ a <= b /\ y = x
    BY <1>1
  <2> HIDE DEF a, y, x
  <2>2. y \in Seq(Marks) /\ Len(y) = b - a /\ \A i \in 1..(b - a) : y[i] = body[a + i]
    BY <1>1, <2>1, PartOf DEF y
  <2> QED BY <1>1, <2>1, <2>2 DEF a
<1> HIDE DEF data, marks, x
<1>5. w \in Seq(Marks)
  BY <1>2, <1>3, WriteTyped
<1>6. Len(w) = b /\ \A i \in 1..b : w[i] = IF i \in pos + 1..b THEN marks[i - pos]
                                            ELSE IF i <= pos THEN data[i] ELSE Zero
  <2>1. pos + Len(marks) = b /\ (IF b < Len(data) THEN Len(data) ELSE b) = b
    BY <1>1, <1>2, <1>3 DEF b
  <2>2. w = [i \in 1..b |-> IF i \in pos + 1..b THEN marks[i - pos]
                            ELSE IF i <= pos THEN data[i] ELSE Zero]
    BY <1>2, <2>1 DEF WriteAll
  <2>3. DOMAIN w = 1..b
    BY <2>2
  <2>4. Len(w) = b
    <3> HIDE DEF w
    <3> QED BY <1>1, <1>5, <2>3
  <2> QED BY <2>2, <2>4
<1> HIDE DEF w
<1>7. ASSUME NEW i \in 1..b PROVE w[i] = x[i]
  <2>1. CASE i <= pos
    <3>1. i \notin pos + 1..b /\ i \in 1..pos
      BY <1>1, <2>1
    <3> QED BY <1>2, <1>4, <1>6, <2>1, <3>1
  <2>2. CASE ~ (i <= pos)
    <3>1. i \in pos + 1..b /\ i - pos \in 1..n /\ pos + (i - pos) = i
      BY <1>1, <2>2
    <3> QED BY <1>3, <1>4, <1>6, <3>1
  <2> QED BY <2>1, <2>2
<1>8. w = x
  BY <1>4, <1>5, <1>6, <1>7, SeqEqual
<1>. QED
  BY <1>8 DEF w, x, data, marks, b

\* A job that has written and may go on with it.
LEMMA AfterChangeWriting ==
  ASSUME FilesInv, JobsInv', NEW t \in Workers, NEW k, NEW p, NEW unlink, Changes(t, k, p, unlink),
         NEW m, job'[t] = m, Local(m), m.changed, m.date <= now, m.status # 304,
         m.q.method = "PUT", m.path = p, m.pc \in {"put_write", "put_close", "done"},
         ~m.disturbed => Written(job[t])',
         inodes'[m.ino].mtime # 0, \A x \in Paths : fs'[x] = m.ino => x = p,
         \A u \in Workers \ {t} : Holds(job[u]) /\ job[u].ino = m.ino => Held(job[u]) = p
  PROVE  FilesInv'
<1>1. Undisturbed(job[t])'
  <2>1. Looked(job[t])' /\ Sent(job[t])'
    BY DEF Looked, Sent
  <2>2. Removed(job[t])' /\ NotModified(job[t])'
    BY DEF Removed, NotModified
  <2> QED BY <2>1, <2>2 DEF Undisturbed
<1>2. Paths' = Paths /\ FileSystem'
  BY DEF Changes, JobsInv, Shared
<1>3. Held(job[t])' = p
  BY DEF Held
<1>4. OpenBy(job[t])'
  BY <1>2, <1>3 DEF OpenBy
<1>5. ASSUME NEW u \in Workers \ {t} PROVE SameName(job[t], job[u])'
  <2>1. /\ Holds(job[u])' <=> Holds(job[u])
        /\ Held(job[u])' = Held(job[u]) /\ job'[u].ino = job[u].ino
    BY <1>2, ChangedOpen
  <2> QED BY <1>3, <2>1 DEF SameName
<1>. QED
  BY <1>1, <1>4, <1>5, AfterChange

-----------------------------------------------------------------------------
-----------------------------------------------------------------------------
\* A file is opened to be written.
LEMMA ForwardStatus ==
  ASSUME NEW j, Full(j), j.error = 0, j.status # 304, NEW i, NEW o, o = ForwardOf(j, i)
  PROVE  Full(o) /\ o.status # 304 /\ o.date = j.date /\ o.disturbed = j.disturbed /\ o.q = j.q
<1> DEFINE k == Forward(j)
           status == IF j.q.expect = "continue" THEN 100 ELSE 200
           pos == IF j.q.range = <<>> THEN 0 ELSE j.q.range[1]
           left == IF j.q.length = "given" THEN Len(j.q.body) ELSE 0
           go == [j EXCEPT !.status = status, !.pos = pos, !.left = left, !.pc = "put_write"]
<1>1. k = send_http_error(j, 411) \/ k = send_http_error(j, 417) \/ k = go
  BY DEF Forward
<1>2. ASSUME NEW s \in {411, 417}, NEW e, e = send_http_error(j, s)
      PROVE  Full(e) /\ e.status # 304 /\ e.date = j.date /\ e.disturbed = j.disturbed /\ e.q = j.q
  <2>1. /\ Work(e, j) /\ Choice(e, j)
        /\ \/ /\ j.error = 0 /\ e.error = s /\ e.status = j.status
              /\ Exists(e.path) /\ Fresh(e) /\ e.pc \in {"cgi", "ssi", "static"}
           \/ /\ e.pc = "done" /\ e.status = s /\ Target(e, j)
              /\ e.error = IF j.error = 0 THEN s ELSE j.error
    BY <1>2, ErrorOf
  <2>2. Full(e)
    BY <1>2, ErrorFields
  <2> QED BY <2>1, <2>2 DEF Work
<1>3. Full(go) /\ go.status # 304 /\ go.date = j.date /\ go.disturbed = j.disturbed /\ go.q = j.q
  <2>1. status # 304
    OBVIOUS
  <2> HIDE DEF status, pos, left
  <2> QED BY ZenonT(40), <2>1 DEF Full, Fields
<1> HIDE DEF go, k
<1>4. Full(k) /\ k.status # 304 /\ k.date = j.date /\ k.disturbed = j.disturbed /\ k.q = j.q
  <2>1. CASE k = go
    BY <1>3, <2>1
  <2>2. CASE k = send_http_error(j, 411)
    BY <1>2, <2>2
  <2>3. CASE k = send_http_error(j, 417)
    BY <1>2, <2>3
  <2> QED BY <1>1, <2>1, <2>2, <2>3
<1>5. o = [k EXCEPT !.ino = i]
  BY SMTT(30) DEF ForwardOf, k
<1>. QED
  BY <1>4, <1>5 DEF Full, Fields

LEMMA PutOpenCases ==
  ASSUME FilesInv, Paths' = Paths, NEW t \in Workers, PutOpen(t), NEW p, p = job[t].path,
         NEW i, i = fs'[p], NEW k, k = ForwardOf(job[t], i)
  PROVE  \/ Calms(t)
         \/ /\ p \in Paths /\ i \in 1..MaxInodes /\ Changes(t, k, p, FALSE)
            /\ inodes'[i].mtime = now /\ inodes'[i].data = <<>> /\ Touch(t, k, {p}, FALSE)
            /\ UNCHANGED <<config, handlers, now, copies, clients>>
            /\ \A u \in Workers : Holds(job[u]) /\ job[u].ino = i => Held(job[u]) = p
<1> DEFINE j == job[t]
<1>1. /\ j.pc = "put_open" /\ Local(j) /\ Full(j) /\ Shared
      /\ \/ Quiet /\ Step(t, send_http_error(j, 500))
         \/ /\ ~IsDir(p) /\ Touch(t, k, {p}, FALSE)
            /\ \/ /\ Exists(p) /\ UNCHANGED fs
                  /\ inodes' = [inodes EXCEPT ![fs[p]].data = <<>>, ![fs[p]].mtime = now]
               \/ ~Exists(p) /\ Room /\ Make(p, FALSE)
            /\ UNCHANGED <<config, handlers, now, copies, clients>>
  BY DEF PutOpen, ForwardOf, FilesInv, JobsInv, Local, IsJob
<1>2. p = <<>> \/ p \in Paths
  BY <1>1, Named0 DEF PutStages
<1>3. CASE Quiet /\ Step(t, send_http_error(j, 500))
  <2>1. Simple(send_http_error(j, 500), j)
    <3> HIDE DEF j
    <3>1. Local(j) /\ j.pc = "put_open"
      BY SMTT(30), <1>1
    <3> QED BY <3>1, SimpleRefusal
  <2> QED BY <1>3, <2>1 DEF Calms
<1>4. CASE /\ ~IsDir(p) /\ Touch(t, k, {p}, FALSE)
           /\ Exists(p) /\ UNCHANGED fs
           /\ inodes' = [inodes EXCEPT ![fs[p]].data = <<>>, ![fs[p]].mtime = now]
           /\ UNCHANGED <<config, handlers, now, copies, clients>>
  <2>1. /\ Changes(t, k, p, FALSE) /\ fs[p] \in 1..MaxInodes
        /\ inodes'[fs[p]].mtime = now /\ inodes'[fs[p]].data = <<>>
    BY Zenon, <1>4, EmptyChanges
  <2>2. p \in Paths /\ i = fs[p]
    BY <1>4 DEF Exists
  <2>3. \A u \in Workers : Holds(job[u]) /\ job[u].ino = i => Held(job[u]) = p
    BY <2>1, <2>2, OneFile
  <2> QED BY Zenon, <1>4, <2>1, <2>2, <2>3
<1>5. CASE /\ ~IsDir(p) /\ Touch(t, k, {p}, FALSE)
           /\ ~Exists(p) /\ Room /\ Make(p, FALSE)
           /\ UNCHANGED <<config, handlers, now, copies, clients>>
  <2>0. p \in Paths
    BY <1>2, <1>5 DEF IsDir
  <2>1. /\ Changes(t, k, p, FALSE) /\ i \in 1..MaxInodes /\ inodes[i].mtime = 0 /\ inodes'[i].mtime = now
        /\ inodes'[i].data = <<>>
    BY <1>5, <2>0, MakeChanges
  <2>3. \A u \in Workers : Holds(job[u]) /\ job[u].ino = i => Held(job[u]) = p
    BY <2>1 DEF FilesInv, OpenInodes, OpenBy
  <2> QED BY <1>5, <2>0, <2>1, <2>3
<1>. QED
  BY Zenon, <1>1, <1>3, <1>4, <1>5

LEMMA AfterPutOpen ==
  ASSUME FilesInv, JobsInv', Paths' = Paths, NEW t \in Workers, PutOpen(t)
  PROVE  FilesInv'
<1> DEFINE j == job[t]
<1>0. PICK p : p = j.path
  OBVIOUS
<1>1. PICK i : i = fs'[p]
  OBVIOUS
<1>2. PICK k : k = ForwardOf(j, i)
  OBVIOUS
<1>3. CASE Calms(t)
  BY <1>3, AfterSimple DEF Calms, Quiet
<1>4. CASE /\ p \in Paths /\ i \in 1..MaxInodes /\ Changes(t, k, p, FALSE)
           /\ inodes'[i].mtime = now /\ inodes'[i].data = <<>> /\ Touch(t, k, {p}, FALSE)
           /\ UNCHANGED <<config, handlers, now, copies, clients>>
           /\ \A u \in Workers : Holds(job[u]) /\ job[u].ino = i => Held(job[u]) = p
  <2>1. /\ j.pc = "put_open" /\ Local(j) /\ Full(j) /\ Shared /\ j.date <= now /\ j.error = 0 /\ j.status # 304
        /\ j.q.method = "PUT"
    BY DEF PutOpen, FilesInv, JobsInv, Local, IsJob, Begun, Working, PutStages, Answered
  <2>2. /\ Local(k) /\ k.ino = i
        /\ \/ k.error \in {411, 417} /\ k.pc \in {"static", "ssi", "cgi", "done"}
           \/ /\ k.error = 0 /\ k.pc = "put_write" /\ Target(k, j)
              /\ k.pos = IF j.q.range = <<>> THEN 0 ELSE j.q.range[1]
              /\ k.left = IF j.q.length = "given" THEN Len(j.q.body) ELSE 0
              /\ k.unsaved = <<>>
    <3> HIDE DEF j
    <3> QED BY <1>2, <1>4, <2>1, Forwarded
  <2>3. Full(k) /\ k.status # 304 /\ k.date = j.date /\ k.disturbed = j.disturbed /\ k.q = j.q
    <3> HIDE DEF j
    <3> QED BY <1>2, <2>1, ForwardStatus
  <2>4. PICK m : m = job'[t]
    OBVIOUS
  <2>5. /\ Local(m) /\ m.pc = k.pc /\ m.q = k.q /\ m.ino = k.ino /\ m.pos = k.pos /\ m.left = k.left
        /\ m.changed /\ m.date = k.date /\ m.unsaved = k.unsaved
        /\ Target(m, k) /\ Verdict(m, k)
    <3> DEFINE r == {p}
               b == FALSE
    <3>1. Touch(t, k, r, b) /\ UNCHANGED <<config, handlers, clients>>
      BY <1>4
    <3> HIDE DEF r, b
    <3> QED BY <2>3, <2>4, <3>1, OwnJob
  <2>6. m.status # 304 /\ m.date <= now /\ m.q.method = "PUT" /\ m.q = j.q /\ m.ino = i
    BY <2>1, <2>2, <2>3, <2>5 DEF Verdict
  <2>7. CASE k.error \in {411, 417} /\ k.pc \in {"static", "ssi", "cgi", "done"}
    <3>1. ~Holds(m) /\ m.error # 0
      BY <2>5, <2>7 DEF Holds, Verdict
    <3> QED BY <1>4, <2>4, <2>5, <2>6, <3>1, AfterChangeAlone
  <2>8. CASE /\ k.error = 0 /\ k.pc = "put_write" /\ Target(k, j)
             /\ k.pos = IF j.q.range = <<>> THEN 0 ELSE j.q.range[1]
             /\ k.left = IF j.q.length = "given" THEN Len(j.q.body) ELSE 0
             /\ k.unsaved = <<>>
    <3>1. m.path = p /\ m.pc = "put_write" /\ m.unsaved = <<>>
      BY <1>0, <2>5, <2>8 DEF Target
    <3>2. /\ Named' /\ FileSystem' /\ now # 0 /\ i # 0
      <4>1. FileSystem' /\ now # 0
        BY DEF JobsInv, Shared, FilesInv, Named
      <4> DEFINE b == FALSE
      <4>2. Changes(t, k, p, b)
        BY <1>4
      <4> HIDE DEF b
      <4>3. Named'
        BY <4>1, <4>2, ChangedNamed
      <4>4. i # 0
        BY <1>4, WorldsAssumption
      <4> QED BY <4>1, <4>3, <4>4
    <3>3. \A x \in Paths : fs'[x] = i => x = p
      BY <1>1, <1>4, <3>2 DEF Named
    <3>4. Writing(job[t])'
      <4>1. Exists(m.path)' /\ fs'[m.path] = m.ino
        BY <1>1, <1>4, <2>6, <3>1, <3>2 DEF Exists
      <4>2. ASSUME m.q.range = <<>>, m.q.length = "given"
            PROVE  /\ m.pos + Len(m.unsaved) + m.left = Len(m.q.body) /\ m.left >= 0
                   /\ inodes'[m.ino].data = SubSeq(m.q.body, 1, m.pos)
                   /\ m.unsaved = SubSeq(m.q.body, m.pos + 1, m.pos + Len(m.unsaved))
        <5> DEFINE body == m.q.body
                   n == Len(body)
        <5>1. body \in Seq(Marks) /\ n \in Nat
          <6> HIDE DEF j
          <6>1. j.q.body \in Seq(Marks) /\ Len(j.q.body) \in Nat
            BY <2>1, Named0 DEF PutStages
          <6> QED BY <2>6, <6>1
        <5>2. m.pos = 0 /\ m.left = n
          BY <2>5, <2>6, <2>8, <4>2
        <5> HIDE DEF body, n
        <5>3. SubSeq(body, 1, 0) = <<>> /\ Len(<<>>) = 0
          BY <5>1, SubSeqProperties
        <5>4. 0 + 1 = 1 /\ 0 + 0 = 0 /\ 0 + 0 + n = n /\ n >= 0
          BY <5>1
        <5>5. m.pos + Len(m.unsaved) + m.left = n /\ m.left >= 0
          BY <3>1, <5>2, <5>3, <5>4
        <5>6. inodes'[m.ino].data = SubSeq(body, 1, m.pos)
          BY <1>4, <2>6, <5>2, <5>3
        <5>7. m.unsaved = SubSeq(body, m.pos + 1, m.pos + Len(m.unsaved))
          BY <3>1, <5>2, <5>3, <5>4
        <5> QED BY <5>5, <5>6, <5>7 DEF body, n
      <4> QED BY <2>4, <3>1, <4>1, <4>2 DEF Writing
    <3>5. Written(job[t])'
      BY <3>4 DEF Written
    <3>6. /\ m.pc \in {"put_write", "put_close", "done"} /\ inodes'[m.ino].mtime # 0
          /\ \A x \in Paths : fs'[x] = m.ino => x = p
          /\ \A u \in Workers \ {t} : Holds(job[u]) /\ job[u].ino = m.ino => Held(job[u]) = p
      BY <1>4, <2>6, <3>1, <3>2, <3>3
    <3> DEFINE b == FALSE
    <3>7. job'[t] = m /\ Local(m) /\ m.changed /\ Changes(t, k, p, b)
      BY <1>4, <2>4, <2>5
    <3>8. m.date <= now /\ m.status # 304 /\ m.q.method = "PUT" /\ m.path = p
      BY <2>6, <3>1
    <3>9. ~m.disturbed => Written(job[t])'
      BY <3>5
    <3> HIDE DEF j, b
    <3> QED BY <3>6, <3>7, <3>8, <3>9, AfterChangeWriting
  <2> QED BY <2>2, <2>7, <2>8
<1>. QED
  BY ZenonT(40), <1>0, <1>1, <1>2, <1>3, <1>4, PutOpenCases

-----------------------------------------------------------------------------
-----------------------------------------------------------------------------
\* What was written reaches the file.
Flushed(t, k, p, b, m, n) ==
  /\ Changes(t, k, p, b) /\ Local(m) /\ n.ino \in 1..MaxInodes
  /\ inodes'[n.ino].mtime = now /\ inodes'[n.ino].data = WriteAll(inodes[n.ino].data, n.pos, n.unsaved)
  /\ m.pc = n.pc /\ m.q = n.q /\ m.ino = n.ino /\ m.pos = n.pos + Len(n.unsaved) /\ m.left = n.left
  /\ m.unsaved = <<>> /\ m.ok = n.ok /\ m.changed /\ m.disturbed = n.disturbed /\ m.date = n.date
  /\ Target(m, n) /\ Verdict(m, n)

LEMMA FlushOwn ==
  ASSUME FilesInv, JobsInv', NEW t \in Workers, job[t].pc \in {"put_write", "put_close"},
         NEW n, Local(n), n.ino = job[t].ino, Flush(t, n), NEW p, p = job[t].path,
         NEW k, k = FlushOf(n), NEW m, m = job'[t],
         NEW b, b = FALSE
  PROVE  Flushed(t, k, p, b, m, n)
<1>1. /\ Changes(t, k, p, b) /\ n.ino \in 1..MaxInodes
      /\ inodes'[n.ino].mtime = now /\ inodes'[n.ino].data = WriteAll(inodes[n.ino].data, n.pos, n.unsaved)
  BY FlushChanges
<1>2. Full(n)
  BY DEF Local, IsJob
<1>3. /\ Full(k) /\ Target(k, n) /\ Verdict(k, n) /\ k.pc = n.pc
      /\ k.q = n.q /\ k.ino = n.ino /\ k.left = n.left /\ k.ok = n.ok
      /\ k.disturbed = n.disturbed /\ k.date = n.date
      /\ k.pos = n.pos + Len(n.unsaved) /\ k.unsaved = <<>>
  BY <1>2, WithFlush
<1>4. /\ Local(m)
      /\ m.pc = k.pc /\ m.q = k.q /\ m.ino = k.ino /\ m.pos = k.pos /\ m.left = k.left
      /\ m.ok = k.ok /\ m.changed /\ m.disturbed = k.disturbed /\ m.date = k.date /\ m.unsaved = k.unsaved
      /\ Target(m, k) /\ Verdict(m, k)
  <2> DEFINE r == {p}
  <2>1. Touch(t, k, r, b) /\ UNCHANGED <<config, handlers, clients>>
    BY Zenon, <1>1 DEF Changes, Flush
  <2> HIDE DEF r
  <2> QED BY SMTT(30), <1>3, <2>1, OwnJob
<1>5. Target(m, n) /\ Verdict(m, n)
  BY <1>3, <1>4 DEF Target, Verdict
<1>. QED
  BY <1>1, <1>3, <1>4, <1>5 DEF Flushed

\* Nobody has that file open by another name.
LEMMA OpenAlone ==
  ASSUME FilesInv, NEW t \in Workers, Holds(job[t]), job[t].pc # "send", UNCHANGED fs
  PROVE  /\ \A x \in Paths : fs'[x] = job[t].ino => x = job[t].path
         /\ \A u \in Workers \ {t} : Holds(job[u]) /\ job[u].ino = job[t].ino => Held(job[u]) = job[t].path
<1>1. Held(job[t]) = job[t].path
  BY DEF Held
<1>2. OpenBy(job[t]) /\ \A u \in Workers : SameName(job[t], job[u])
  BY DEF FilesInv, OpenInodes
<1>. QED
  BY <1>1, <1>2 DEF OpenBy, SameName

\* The whole of what was to be written then is in the file.
LEMMA WrittenOut ==
  ASSUME World0, NEW j, Local(j), j.pc \in {"put_write", "put_close"}, Writing(j),
         j.ok, j.q.range = <<>>, j.q.length = "given"
  PROVE  /\ WriteAll(inodes[j.ino].data, j.pos, j.unsaved) = SubSeq(j.q.body, 1, j.pos + Len(j.unsaved))
         /\ j.pos + Len(j.unsaved) \in Nat /\ j.left \in Int /\ j.left >= 0
         /\ j.pos + Len(j.unsaved) + j.left = Len(j.q.body) /\ j.q.body \in Seq(Marks)
<1> DEFINE body == j.q.body
           pos == j.pos
           n == Len(j.unsaved)
           left == j.left
<1>1. body \in Seq(Marks) /\ pos \in Nat /\ n \in Nat /\ left \in Int
  BY SMTT(30), WorldFacts DEF Local, IsJob, Typed, Begun, Asked
<1>2. /\ pos + n + left = Len(body) /\ left >= 0 /\ inodes[j.ino].data = SubSeq(body, 1, pos)
      /\ j.unsaved = SubSeq(body, pos + 1, pos + n)
  BY DEF Writing
<1> HIDE DEF body, pos, n, left
<1>3. pos + n <= Len(body) /\ pos + n \in Nat
  <2> DEFINE b == pos + n
             l == Len(body)
  <2>1. b \in Nat /\ l \in Nat /\ b + left = l
    BY <1>1, <1>2
  <2> HIDE DEF b, l
  <2>2. b <= l
    BY <1>1, <1>2, <2>1
  <2> QED BY <2>1, <2>2 DEF b, l
<1>4. WriteAll(SubSeq(body, 1, pos), pos, SubSeq(body, pos + 1, pos + n)) = SubSeq(body, 1, pos + n)
  BY <1>1, <1>3, WriteAtEnd
<1>5. WriteAll(inodes[j.ino].data, pos, j.unsaved) = SubSeq(body, 1, pos + n)
  BY <1>2, <1>4
<1>. QED
  BY <1>1, <1>2, <1>3, <1>5 DEF body, pos, n, left

\* A job that has written what it holds, and goes on or ends.
LEMMA AfterFlush ==
  ASSUME FilesInv, JobsInv', NEW t \in Workers, NEW n, Local(n), Flush(t, n), n.status # 304,
         Continues(n, job[t]), n.error = 0,
         \/ job[t].pc = "put_write" /\ n.pc = "put_write"
         \/ job[t].pc = "put_close" /\ n.pc = "done" /\ n.left = job[t].left,
         ~n.disturbed => /\ Exists(n.path) /\ fs[n.path] = n.ino
                         /\ n.ok /\ n.q.range = <<>> /\ n.q.length = "given" =>
                              /\ WriteAll(inodes[n.ino].data, n.pos, n.unsaved) =
                                   SubSeq(n.q.body, 1, n.pos + Len(n.unsaved))
                              /\ n.pos + Len(n.unsaved) \in Nat /\ n.left \in Int /\ n.left >= 0
                              /\ n.pos + Len(n.unsaved) + n.left = Len(n.q.body) /\ n.q.body \in Seq(Marks)
                              /\ n.pc = "done" => n.left = 0
  PROVE  FilesInv'
<1> DEFINE j == job[t]
           b == FALSE
<1>0. PICK p : p = j.path
  OBVIOUS
<1>1. PICK k : k = FlushOf(n)
  OBVIOUS
<1>2. PICK m : m = job'[t]
  OBVIOUS
<1>3. Local(j) /\ j.date <= now /\ j.q.method = "PUT" /\ Holds(j) /\ j.pc # "send" /\ now # 0
  BY DEF FilesInv, JobsInv, Local, Working, PutStages, Holds, Named
<1>4. n.ino = j.ino /\ n.q = j.q /\ n.path = j.path /\ n.date = j.date
  BY DEF Continues
<1>5. /\ Changes(t, k, p, b) /\ Local(m) /\ n.ino \in 1..MaxInodes
      /\ inodes'[n.ino].mtime = now /\ inodes'[n.ino].data = WriteAll(inodes[n.ino].data, n.pos, n.unsaved)
      /\ m.pc = n.pc /\ m.q = n.q /\ m.ino = n.ino /\ m.pos = n.pos + Len(n.unsaved) /\ m.left = n.left
      /\ m.unsaved = <<>> /\ m.ok = n.ok /\ m.changed /\ m.disturbed = n.disturbed /\ m.date = n.date
      /\ Target(m, n) /\ Verdict(m, n)
  <2>1. j.pc \in {"put_write", "put_close"}
    OBVIOUS
  <2> HIDE DEF j
  <2>2. job[t].pc \in {"put_write", "put_close"} /\ n.ino = job[t].ino /\ p = job[t].path /\ b = FALSE
    BY <1>0, <1>4, <2>1 DEF j
  <2> HIDE DEF b
  <2>3. Flushed(t, k, p, b, m, n)
    BY ZenonT(40), <1>1, <1>2, <2>2, FlushOwn
  <2> QED BY <2>3 DEF Flushed
<1>6. UNCHANGED fs /\ Paths' = Paths
  BY DEF Flush, Paths
<1>7. ASSUME ~m.disturbed PROVE Writing(job[t])'
  <2>1. Exists(n.path) /\ fs[n.path] = n.ino
    BY <1>5, <1>7
  <2>2. Exists(m.path)' /\ fs'[m.path] = m.ino
    BY <1>5, <1>6, <2>1 DEF Exists, Target
  <2>3. ASSUME m.ok, m.q.range = <<>>, m.q.length = "given"
        PROVE  /\ m.pos + Len(m.unsaved) + m.left = Len(m.q.body) /\ m.left >= 0
               /\ inodes'[m.ino].data = SubSeq(m.q.body, 1, m.pos)
               /\ m.unsaved = SubSeq(m.q.body, m.pos + 1, m.pos + Len(m.unsaved))
               /\ m.pc = "done" => inodes'[m.ino].data = m.q.body
    <3> DEFINE body == m.q.body
               c == m.pos
               l == m.left
    <3>1. /\ WriteAll(inodes[n.ino].data, n.pos, n.unsaved) = SubSeq(body, 1, c)
          /\ c \in Nat /\ l \in Int /\ l >= 0 /\ c + l = Len(body) /\ body \in Seq(Marks)
          /\ n.pc = "done" => l = 0
      BY <1>5, <1>7, <2>3
    <3>2. inodes'[m.ino].data = SubSeq(body, 1, c)
      BY <1>5, <3>1
    <3> HIDE DEF body, c, l
    <3>3. Len(<<>>) = 0 /\ c + 0 = c
      BY <3>1
    <3>4. SubSeq(body, c + 1, c) = <<>>
      BY <3>1, SubSeqProperties
    <3>5. l = 0 => SubSeq(body, 1, c) = body
      BY <3>1, SubSeqProperties
    <3>6. m.pos + Len(m.unsaved) = c
      BY <1>5, <3>3 DEF c
    <3>7. m.pos + Len(m.unsaved) + m.left = Len(m.q.body)
      BY <3>1, <3>6 DEF body, l
    <3>8. m.unsaved = SubSeq(m.q.body, m.pos + 1, m.pos + Len(m.unsaved))
      BY <1>5, <3>4, <3>6 DEF body, c
    <3>9. m.pc = "done" => inodes'[m.ino].data = m.q.body
      <4> SUFFICES ASSUME m.pc = "done" PROVE inodes'[m.ino].data = body
        BY DEF body
      <4>1. n.pc = "done"
        BY <1>5
      <4>2. SubSeq(body, 1, c) = body
        BY <3>1, <3>5, <4>1
      <4> QED BY <3>2, <4>2
    <3>10. m.left >= 0
      BY <3>1 DEF l
    <3> QED BY <3>2, <3>7, <3>8, <3>9, <3>10 DEF body, c
  <2>4. m.pc \in {"put_write", "done"}
    BY <1>5
  <2> HIDE DEF j
  <2> QED BY <1>2, <2>2, <2>3, <2>4 DEF Writing
<1>8. /\ m.pc \in {"put_write", "put_close", "done"} /\ inodes'[m.ino].mtime # 0
      /\ \A x \in Paths : fs'[x] = m.ino => x = p
      /\ \A u \in Workers \ {t} : Holds(job[u]) /\ job[u].ino = m.ino => Held(job[u]) = p
  BY <1>0, <1>3, <1>4, <1>5, <1>6, OpenAlone
<1>9. m.date <= now /\ m.status # 304 /\ m.q.method = "PUT" /\ m.path = p
  BY <1>0, <1>3, <1>4, <1>5 DEF Target, Verdict
<1>10. job'[t] = m /\ Local(m) /\ m.changed /\ Changes(t, k, p, b)
  BY <1>2, <1>5
<1>11. ~m.disturbed => Written(job[t])'
  BY <1>7 DEF Written
<1> HIDE DEF j, b
<1>. QED
  BY <1>8, <1>9, <1>10, <1>11, AfterChangeWriting

LEMMA AfterPutWrite ==
  ASSUME FilesInv, JobsInv', Paths' = Paths, NEW t \in Workers, PutWrite(t)
  PROVE  FilesInv'
<1> DEFINE j == job[t]
           s == 500
<1>1. PICK k : k = WroteOf(j)
  OBVIOUS
<1>2. PICK e : e = send_http_error(j, s)
  OBVIOUS
<1>3. /\ j.pc = "put_write"
      /\ \/ Calms(t)
         \/ Quiet /\ Step(t, k) /\ j.left > 0
         \/ \E n \in 1..j.left : Quiet /\ Step(t, MissedOf(j, n))
         \/ Quiet /\ Step(t, [j EXCEPT !.pc = "put_close"]) /\ j.left = 0
         \/ Flush(t, k) /\ j.left > 0
         \/ Flush(t, e)
  BY <1>1, <1>2, PutWriteCases
<1>4. Local(j) /\ Full(j) /\ Shared /\ World0 /\ j.date <= now /\ j.status # 304 /\ Undisturbed(j) /\ j.error = 0
      /\ j.q.method = "PUT"
  BY <1>3 DEF FilesInv, JobsInv, Shared, Local, IsJob, Answered, Begun, Working, PutStages
<1>5. CASE Calms(t)
  BY <1>5, AfterSimple DEF Calms, Quiet
<1>6. CASE Quiet /\ Step(t, k) /\ j.left > 0
  BY <1>1, <1>3, <1>6, AfterMark
<1>7. CASE Quiet /\ Step(t, [j EXCEPT !.pc = "put_close"]) /\ j.left = 0
  BY <1>3, <1>7, AfterMark
<1>10. CASE \E n \in 1..j.left : Quiet /\ Step(t, MissedOf(j, n))
  BY <1>3, <1>10, AfterMark
<1>8. CASE Flush(t, k) /\ j.left > 0
  <2>1. /\ Target(k, j) /\ Verdict(k, j) /\ k.pc = j.pc /\ k.q = j.q /\ k.ino = j.ino /\ k.date = j.date
        /\ k.disturbed = j.disturbed
    BY <1>1, <1>4, WithMark
  <2>2. Local(k)
    <3> HIDE DEF j
    <3> QED BY <1>1, <1>3, <1>4, <1>8, WroteWrites DEF Writes
  <2>3. Continues(k, j) /\ k.error = 0 /\ k.status # 304 /\ k.pc = "put_write"
    BY <1>3, <1>4, <2>1 DEF Continues, Target, Verdict
  <2>4. ASSUME ~k.disturbed PROVE Writing(k)
    <3>1. Writing(j)
      BY <1>3, <1>4, <2>1, <2>4 DEF Undisturbed, Written
    <3> HIDE DEF j
    <3> QED BY <1>1, <1>3, <1>4, <1>8, <3>1, OneWritten
  <2>5. ASSUME ~k.disturbed
        PROVE  /\ Exists(k.path) /\ fs[k.path] = k.ino
               /\ k.ok /\ k.q.range = <<>> /\ k.q.length = "given" =>
                    /\ WriteAll(inodes[k.ino].data, k.pos, k.unsaved) =
                         SubSeq(k.q.body, 1, k.pos + Len(k.unsaved))
                    /\ k.pos + Len(k.unsaved) \in Nat /\ k.left \in Int /\ k.left >= 0
                    /\ k.pos + Len(k.unsaved) + k.left = Len(k.q.body) /\ k.q.body \in Seq(Marks)
                    /\ k.pc = "done" => k.left = 0
    <3>1. Writing(k)
      BY <2>4, <2>5
    <3>2. Exists(k.path) /\ fs[k.path] = k.ino
      BY <3>1 DEF Writing
    <3> HIDE DEF j
    <3>3. k.pc # "done" /\ k.pc \in {"put_write", "put_close"}
      BY <2>3
    <3> QED BY <1>4, <2>2, <3>1, <3>2, <3>3, WrittenOut
  <2> QED BY <1>3, <1>8, <2>2, <2>3, <2>5, AfterFlush
<1>9. CASE Flush(t, e)
  <2>1. /\ Local(e) /\ Work(e, j) /\ e.error = s /\ e.pc \in {"static", "ssi", "cgi", "done"}
    <3>1. s \in {204, 304, 401, 403, 404, 405, 409, 411, 415, 417, 423, 500, 503} /\ s \in {204, 411, 417, 500} /\ s # 204
      OBVIOUS
    <3> HIDE DEF s, j
    <3> QED BY <1>2, <1>3, <1>4, <3>1, ErrorWhileWorking DEF PutStages
  <2>2. e.status # 304
    <3>1. /\ Work(e, j) /\ Choice(e, j)
          /\ \/ /\ j.error = 0 /\ e.error = s /\ e.status = j.status
                /\ Exists(e.path) /\ Fresh(e) /\ e.pc \in {"cgi", "ssi", "static"}
             \/ /\ e.pc = "done" /\ e.status = s /\ Target(e, j)
                /\ e.error = IF j.error = 0 THEN s ELSE j.error
      <4> HIDE DEF s, j
      <4> QED BY <1>2, <1>4, ErrorOf
    <3> QED BY <1>4, <3>1
  <2>3. PICK p : p = j.path
    OBVIOUS
  <2>4. PICK m : m = job'[t]
    OBVIOUS
  <2>5. PICK g : g = FlushOf(e)
    OBVIOUS
  <2> DEFINE b == FALSE
  <2>6. /\ Changes(t, g, p, b) /\ Local(m) /\ m.pc = e.pc /\ m.q = e.q /\ m.changed /\ m.date = e.date
        /\ Verdict(m, e)
    <3>1. e.ino = job[t].ino /\ p = job[t].path /\ job[t].pc \in {"put_write", "put_close"} /\ b = FALSE
      BY <1>3, <2>1, <2>3 DEF Work
    <3> HIDE DEF s, j, b
    <3>2. Flushed(t, g, p, b, m, e)
      BY <1>9, <2>1, <2>4, <2>5, <3>1, FlushOwn
    <3> QED BY <3>2 DEF Flushed
  <2>7. m.status # 304 /\ ~Holds(m) /\ m.date <= now /\ m.q.method = "PUT" /\ m.error # 0
    BY <1>4, <2>1, <2>2, <2>6 DEF Verdict, Holds, Work
  <2> HIDE DEF j, s, b
  <2> QED BY <2>4, <2>6, <2>7, AfterChangeAlone
<1> HIDE DEF s
<1>. QED
  BY <1>3, <1>5, <1>6, <1>7, <1>8, <1>9, <1>10

LEMMA AfterPutClose ==
  ASSUME FilesInv, JobsInv', NEW t \in Workers, PutClose(t)
  PROVE  FilesInv'
<1> DEFINE j == job[t]
<1>1. PICK k : k = [j EXCEPT !.pc = "done"]
  OBVIOUS
<1>2. j.pc = "put_close" /\ (FilesInv' \/ Flush(t, k))
  BY <1>1, PutCloseCases
<1>3. Local(j) /\ Full(j) /\ Shared /\ World0 /\ j.status # 304 /\ Undisturbed(j) /\ j.error = 0
  BY <1>2 DEF FilesInv, JobsInv, Shared, Local, IsJob, Answered, Begun, PutStages
<1>4. CASE Flush(t, k)
  <2>1. Local(k) /\ k.pc = "done" /\ Work(k, j) /\ Verdict(k, j) /\ Target(k, j)
    <3> HIDE DEF j
    <3> QED BY <1>1, <1>2, <1>3, DoneWrites DEF Writes
  <2>2. Continues(k, j) /\ k.error = 0 /\ k.status # 304 /\ k.left = j.left
    BY <1>3, <2>1 DEF Continues, Work, Target, Verdict
  <2>3. ASSUME ~k.disturbed
        PROVE  /\ Exists(k.path) /\ fs[k.path] = k.ino
               /\ k.ok /\ k.q.range = <<>> /\ k.q.length = "given" =>
                    /\ WriteAll(inodes[k.ino].data, k.pos, k.unsaved) =
                         SubSeq(k.q.body, 1, k.pos + Len(k.unsaved))
                    /\ k.pos + Len(k.unsaved) \in Nat /\ k.left \in Int /\ k.left >= 0
                    /\ k.pos + Len(k.unsaved) + k.left = Len(k.q.body) /\ k.q.body \in Seq(Marks)
                    /\ k.pc = "done" => k.left = 0
    <3>1. Writing(j)
      BY <1>2, <1>3, <2>1, <2>3 DEF Undisturbed, Written, Work
    <3>2. Exists(k.path) /\ fs[k.path] = k.ino
      BY <2>1, <3>1 DEF Writing, Work, Target
    <3>3. ASSUME j.ok, j.q.range = <<>>, j.q.length = "given"
          PROVE  /\ WriteAll(inodes[j.ino].data, j.pos, j.unsaved) = SubSeq(j.q.body, 1, j.pos + Len(j.unsaved))
                 /\ j.pos + Len(j.unsaved) \in Nat /\ j.left \in Int /\ j.left >= 0
                 /\ j.pos + Len(j.unsaved) + j.left = Len(j.q.body) /\ j.q.body \in Seq(Marks)
                 /\ j.left = 0
      <4>1. j.left = 0
        BY <1>2, <3>1, <3>3 DEF Writing
      <4> HIDE DEF j
      <4> QED BY <1>2, <1>3, <3>1, <3>3, <4>1, WrittenOut
    <3>4. k.ok = j.ok
      BY <1>1, <1>3 DEF Full, Fields
    <3> HIDE DEF j
    <3> QED BY <2>1, <3>2, <3>3, <3>4 DEF Work
  <2> QED BY <1>2, <1>4, <2>1, <2>2, <2>3, AfterFlush
<1>. QED
  BY <1>2, <1>4

-----------------------------------------------------------------------------
-----------------------------------------------------------------------------
LEMMA FilesAfterWorker ==
  ASSUME FilesInv, NEW t \in Workers, Worker(t)
  PROVE  FilesInv'
<1>1. JobsInv /\ Shared /\ Named /\ Local(job[t]) /\ Undisturbed(job[t])
  BY DEF FilesInv, JobsInv
<1>2. JobsInv'
  BY <1>1, JobsAfterWorker
<1>3. Paths' = Paths
  BY PathsStay
<1>4. Calms(t) => FilesInv'
  BY <1>2, AfterSimple DEF Calms, Quiet
<1>5. CASE \E q \in clients.requests : Begin(t, q)
  BY <1>2, <1>5, AfterBegin
<1>6. CASE Finish(t)
  BY <1>2, <1>6, AfterFinish
<1>7. CASE Open(t) \/ Send(t)
  BY <1>2, <1>7, AfterOpen, AfterSend
<1>8. CASE Lookup(t) \/ Auth(t) \/ Callback(t) \/ Serve(t)
  BY <1>1, <1>4, <1>8, LookupCalm, AuthCalm, ServeCalm
<1>9. CASE Ssi(t) \/ List(t) \/ Cgi(t)
  BY <1>1, <1>4, <1>9, PagesCalm
<1>10. CASE Put(t) \/ Delete(t) \/ RemoveGone(t) \/ Mkcol(t)
  BY <1>1, <1>4, <1>10, PutCalm, DeleteCalm, GoneCalm
<1>11. CASE PutDir(t) \/ PutOpen(t)
  BY <1>2, <1>3, <1>11, AfterPutDir, AfterPutOpen
<1>12. CASE PutWrite(t) \/ PutClose(t)
  BY <1>2, <1>3, <1>12, AfterPutWrite, AfterPutClose
<1>13. CASE RemoveFile(t) \/ RemoveEntry(t) \/ Mkdir(t)
  BY <1>2, <1>3, <1>13, AfterRemoveFile, AfterRemoveEntry, AfterMkdir
<1>. QED
  BY <1>5, <1>6, <1>7, <1>8, <1>9, <1>10, <1>11, <1>12, <1>13 DEF Worker

LEMMA FilesInit == Init => FilesInv
<1> SUFFICES ASSUME Init PROVE FilesInv
  OBVIOUS
<1>1. PICK w \in Worlds : config = w.config /\ fs = w.fs /\ inodes = w.inodes /\ clients = w.clients
  BY DEF Init
<1>2. now = 1 /\ copies = [p \in {} |-> 0] /\ job = [t \in Workers |-> Idle]
  BY DEF Init
<1>3. Named
  <2>1. \A i \in 1..MaxInodes : inodes[i].mtime <= now
    BY <1>1, <1>2, WorldsAssumption
  <2>2. \A p \in Paths : fs[p] # 0 => inodes[fs[p]].mtime = 1 /\ \A r \in Paths : fs[r] = fs[p] => r = p
    BY <1>1, WorldsAssumption DEF Paths
  <2> QED BY <1>2, <2>1, <2>2 DEF Named
<1>4. Copies
  BY <1>2 DEF Copies
<1>5. Idle.pc = "idle" /\ Idle.status = 0 /\ Idle.error = 0 /\ Idle.date = 0
  BY DEF Idle
<1>6. ~Holds(Idle) /\ Undisturbed(Idle)
  BY <1>5 DEF Holds, Undisturbed, Looked, Sent, Written, Removed, NotModified
<1>7. OpenInodes
  BY <1>2, <1>6, NotHolding DEF OpenInodes
<1>8. ASSUME NEW t \in Workers PROVE job[t].date <= now /\ Undisturbed(job[t])
  BY <1>2, <1>5, <1>6
<1>. QED
  BY <1>3, <1>4, <1>7, <1>8, JobsInit DEF FilesInv

LEMMA FilesStep == FilesInv /\ [Next]_vars => FilesInv'
<1> SUFFICES ASSUME FilesInv, [Next]_vars PROVE FilesInv'
  OBVIOUS
<1>1. JobsInv'
  BY JobsStep DEF FilesInv
<1>2. now \in Nat
  BY DEF FilesInv, JobsInv, Shared, FileSystem
\* A step of nobody's: an application's, or of the clock.
<1>3. ASSUME UNCHANGED <<config, fs, inodes, copies, job>>, now' = now \/ now' = now + 1
      PROVE  FilesInv'
  <2>1. Named'
    <3>1. ASSUME NEW i \in 1..MaxInodes PROVE inodes'[i].mtime <= now'
      <4>1. inodes[i].mtime \in Nat /\ inodes[i].mtime <= now
        BY DEF FilesInv, Named, JobsInv, Shared, FileSystem, Inodes
      <4> QED BY <1>2, <1>3, <4>1
    <3>2. now' # 0
      BY <1>2, <1>3 DEF FilesInv, Named
    <3> QED BY <1>3, <3>1, <3>2 DEF FilesInv, Named, Paths
  <2>2. Copies'
    <3> SUFFICES ASSUME NEW p \in DOMAIN copies, copies[p].clean
                 PROVE  /\ copies[p].date \in 0..now'
                        /\ Exists(p)' /\ File(p)'.mtime < copies[p].date => File(p)'.data = copies[p].data
      BY <1>3 DEF Copies
    <3>1. (Exists(p)' <=> Exists(p)) /\ File(p)' = File(p)
      BY <1>3 DEF Exists, File, Paths
    <3>2. copies[p].date \in 0..now
      BY DEF FilesInv, Copies
    <3>3. copies[p].date \in 0..now'
      BY <1>2, <1>3, <3>2
    <3> QED BY <3>1, <3>3 DEF FilesInv, Copies
  <2>3. ASSUME NEW u \in Workers PROVE (job[u].date <= now)' /\ Undisturbed(job[u])' /\ OpenBy(job[u])'
    <3> DEFINE k == job[u]
    <3>1. k.date <= now /\ Undisturbed(k) /\ OpenBy(k) /\ job'[u] = k /\ k.date \in Nat
      BY <1>3 DEF FilesInv, OpenInodes, JobsInv, Local, IsJob, Typed
    <3> HIDE DEF k
    <3>2. k.date <= now'
      BY <1>2, <1>3, <3>1
    <3>3. Undisturbed(job[u])' /\ OpenBy(job[u])'
      BY <1>3, <3>1, UndisturbedCarries, OpenCarries
    <3> QED BY <3>1, <3>2, <3>3
  <2>4. ASSUME NEW u \in Workers, NEW v \in Workers PROVE SameName(job[u], job[v])'
    <3> DEFINE k == job[u]
               m == job[v]
    <3>1. SameName(k, m) /\ job'[u] = k /\ job'[v] = m
      BY <1>3 DEF FilesInv, OpenInodes
    <3> HIDE DEF k, m
    <3> QED BY <1>3, <3>1, SameNameCarries
  <2> QED BY <1>1, <2>1, <2>2, <2>3, <2>4 DEF FilesInv, OpenInodes
<1>4. CASE \E t \in Workers : Worker(t)
  BY <1>4, FilesAfterWorker
<1>5. CASE \E h \in config.changes : SetHandler(h.type, h.uri, h.call)
  BY <1>3, <1>5 DEF SetHandler
<1>6. CASE Tick \/ UNCHANGED vars
  BY <1>3, <1>6 DEF Tick, vars
<1>. QED
  BY <1>4, <1>5, <1>6 DEF Next

LEMMA FilesHold ==
  /\ MCInit => FilesInv
  /\ FilesInv /\ [MCNext]_mcVars => FilesInv'
BY FilesInit, FilesStep, MCStepsOfFiles

\* What was answered with success has been done, unless another worked on the same path:
\* put_file, handle_request, mkcol and the page for 204.
THEOREM SuccessMeansDoneHolds == MCSpec => []SuccessMeansDone
<1>1. FilesInv => SuccessMeansDone
  <2> SUFFICES ASSUME FilesInv, NEW t \in Workers, NEW j, j = job[t], ~j.disturbed, j.error \in {0, 204}
               PROVE  /\ Done(j, "PUT") /\ j.ino # 0 /\ j.q.range = <<>> /\ j.q.length = "given" /\ j.ok =>
                           Exists(j.path) /\ File(j.path).data = j.q.body
                      /\ Done(j, "DELETE") /\ j.error = 204 /\ j.seen = {} /\ j.path = j.q.path =>
                           ~Exists(j.path)
                      /\ Done(j, "MKCOL") /\ j.status = 201 => IsDir(j.path)
    BY DEF SuccessMeansDone
  <2>1. Answered(j) /\ Written(j) /\ Removed(j)
    BY DEF FilesInv, JobsInv, Local, Undisturbed
  <2>2. ASSUME Done(j, "PUT"), j.ino # 0, j.q.range = <<>>, j.q.length = "given", j.ok
        PROVE  Exists(j.path) /\ File(j.path).data = j.q.body
    <3>1. j.pc = "done" /\ j.error = 0 /\ j.q.method = "PUT"
      BY <2>1, <2>2 DEF Answered, Done
    <3>2. Writing(j)
      BY <2>1, <2>2, <3>1 DEF Written
    <3> QED BY <2>2, <3>1, <3>2 DEF Writing, File
  <2> QED BY <2>1, <2>2 DEF Removed, Done
<1>. QED
  BY <1>1, FilesHold, PTL DEF MCSpec

\* A client gets as much as was announced, of one version of the file, and 304 only for
\* what it has: handle_static_file_request, send_file_data, handle_not_modified_static_file_request.
THEOREM AnswersAreTrueHolds == MCSpec => []AnswersAreTrue
<1>1. FilesInv => BodyAsAnnounced
  <2> SUFFICES ASSUME FilesInv, NEW t \in Workers, NEW j, j = job[t],
                      Done(j, "GET"), j.ino # 0, ~j.disturbed
               PROVE  LET r == j.q.range
                          inside == Len(r) = 2 /\ r[1] <= r[2] /\ r[2] < Len(j.whole)
                      IN /\ r = <<>> => j.sent = j.whole /\ j.announced = Len(j.sent)
                         /\ inside => j.sent = SubSeq(j.whole, r[1] + 1, r[2] + 1)
                                      /\ j.announced = Len(j.sent)
    BY DEF BodyAsAnnounced
  <2>1. World0 /\ Local(j) /\ Sent(j)
    BY DEF FilesInv, JobsInv, Shared, Undisturbed
  <2>2. Sending(j) /\ j.pc = "done"
    BY <2>1 DEF Sent, Done
  <2> QED BY <2>1, <2>2, SentWhole
<1>2. FilesInv => NotModifiedIsTrue
  <2> SUFFICES ASSUME FilesInv, NEW t \in Workers, NEW p, p = job[t].path, job[t].status = 304,
                      p \in DOMAIN copies, Exists(p), ~job[t].disturbed, copies[p].clean,
                      File(p).mtime # copies[p].date
               PROVE  copies[p].data = File(p).data
    BY DEF NotModifiedIsTrue
  <2>1. File(p).mtime <= copies[p].date
    BY DEF FilesInv, Undisturbed, NotModified, Unmodified
  <2>2. now \in Nat /\ copies[p].date \in 0..now
    BY DEF FilesInv, Copies, JobsInv, Shared, FileSystem
  <2>3. File(p).mtime \in Nat
    <3>1. fs[p] \in 1..MaxInodes
      BY WorldsAssumption DEF FilesInv, JobsInv, Shared, FileSystem, Exists, Paths
    <3> QED BY <3>1 DEF FilesInv, JobsInv, Shared, FileSystem, File, Inodes
  <2>4. File(p).mtime < copies[p].date
    BY <2>1, <2>2, <2>3
  <2> QED BY <2>4 DEF FilesInv, Copies
<1>3. FilesInv => AnswersAreTrue
  BY <1>1, <1>2 DEF AnswersAreTrue
<1>. QED
  BY <1>3, FilesHold, PTL DEF MCSpec

=============================================================================
