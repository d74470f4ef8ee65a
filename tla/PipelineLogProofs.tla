-------------------------- MODULE PipelineLogProofs --------------------------
(***************************************************************************)
(* Proofs about PipelineLog, for any writers, followers, readers, number   *)
(* of events and page size.                                                *)
(*                                                                         *)
(* The file is always complete lines of two pieces each and perhaps the    *)
(* beginning of one more, so its k-th newline is piece 2 * k and its       *)
(* records can be read off without counting.  Only the holder of the lock  *)
(* knows anything of the file: how many lines there are, and whether the   *)
(* last is torn.  Every step therefore keeps the complete lines, the fact  *)
(* Kept, which is all that a reader without a lock can rely on: what its   *)
(* first read call gave still stands up to the last newline.  Behind it    *)
(* there is at most the beginning of one record.  When that one is no      *)
(* longer in the file, the write it belongs to was given up: its event is  *)
(* Dead, it has no record and never gets one.  So a page has at most one   *)
(* line of two records, the one that begins with a dead event; all others  *)
(* are lines of the file, and a line of the file that is accepted has the  *)
(* number of its place.                                                    *)
(***************************************************************************)
EXTENDS PipelineLog, FiniteSetTheorems, SequenceTheorems, TLAPS

(* The even numbers up to 2 * n.                                           *)
Evens(n) == {2 * k : k \in 1..n}

(* There are n of them.                                                    *)
LEMMA EvensCount ==
    ASSUME NEW n \in Nat PROVE IsFiniteSet(Evens(n)) /\ Cardinality(Evens(n)) = n
<1> DEFINE g == [k \in 1..n |-> 2 * k]
<1>1. g \in [1..n -> Evens(n)]
  BY DEF Evens
<1>2. \A j, k \in 1..n : g[j] = g[k] => j = k
  OBVIOUS
<1>3. \A x \in Evens(n) : \E k \in 1..n : g[k] = x
  BY DEF Evens
<1>4. ExistsBijection(1..n, Evens(n))
  <2>1. g \in Bijection(1..n, Evens(n))
    BY <1>1, <1>2, <1>3 DEF Bijection, Injection, Surjection, IsInjective
  <2> QED  BY <2>1 DEF ExistsBijection
<1> QED  BY <1>4, FS_CountingElements, FS_NatBijection

(* The file as n complete lines of two pieces and perhaps a torn one.      *)
Paired(f, n) ==
    /\ f \in Seq(Pieces) /\ n \in Nat
    /\ Len(f) = 2 * n \/ Len(f) = 2 * n + 1
    /\ \A k \in 1..n : f[2 * k - 1].part = "begin" /\ f[2 * k].part = "end"
    /\ Len(f) = 2 * n + 1 => f[2 * n + 1].part = "begin"

(* Every position belongs to a line.                                       *)
LEMMA Parity ==
    ASSUME NEW i \in Nat PROVE \E k \in Nat : i = 2 * k \/ i = 2 * k + 1
<1>1. i \div 2 \in Nat /\ (i = 2 * (i \div 2) \/ i = 2 * (i \div 2) + 1)
  OBVIOUS
<1> QED  BY <1>1

(* The newlines of such a file are at the even positions.                  *)
LEMMA PairedEnds ==
    ASSUME NEW f, NEW n, Paired(f, n) PROVE Ends(f) = Evens(n)
<1>1. /\ n \in Nat /\ Len(f) \in Nat /\ (Len(f) = 2 * n \/ Len(f) = 2 * n + 1)
  BY DEF Paired
<1>2. ASSUME NEW i \in Ends(f) PROVE i \in Evens(n)
  <2>1. i \in 1..Len(f) /\ f[i].part = "end" /\ i \in Nat
    BY <1>1 DEF Ends
  <2>2. PICK k \in Nat : i = 2 * k \/ i = 2 * k + 1
    BY <2>1, Parity
  <2>3. CASE i = 2 * k
    <3>1. k \in 1..n
      BY <1>1, <2>1, <2>3
    <3> QED  BY <2>3, <3>1 DEF Evens
  <2>4. CASE i = 2 * k + 1
    <3>1. CASE k + 1 \in 1..n
      <4>1. PICK m \in 1..n : m = k + 1
        BY <3>1
      <4>2. f[2 * m - 1].part = "begin"
        BY DEF Paired
      <4>3. 2 * m - 1 = i
        BY <1>1, <2>4, <4>1
      <4> QED  BY <2>1, <4>2, <4>3
    <3>2. CASE k + 1 \notin 1..n
      <4>1. i = 2 * n + 1 /\ Len(f) = 2 * n + 1
        BY <1>1, <2>1, <2>4, <3>2
      <4> QED  BY <2>1, <4>1 DEF Paired
    <3> QED  BY <3>1, <3>2
  <2> QED  BY <2>2, <2>3, <2>4
<1>3. ASSUME NEW i \in Evens(n) PROVE i \in Ends(f)
  <2>1. PICK k \in 1..n : i = 2 * k
    BY DEF Evens
  <2>2. i \in 1..Len(f) /\ f[i].part = "end"
    BY <1>1, <2>1 DEF Paired
  <2> QED  BY <2>2 DEF Ends
<1> QED  BY <1>2, <1>3

(* The k-th line ends at 2 * k, and the records are read off there.        *)
LEMMA PairedRecords ==
    ASSUME NEW f, NEW n, Paired(f, n)
    PROVE  /\ Cardinality(Ends(f)) = n /\ n \in Nat
           /\ \A k \in 1..n : Line(f, 2 * k) = k
           /\ Records(f) = [k \in 1..n |-> <<f[2 * k].ev, f[2 * k].seq>>]
           /\ Records(f) \in Seq(Events \X Nat) /\ Len(Records(f)) = n
           /\ ValidLength(f) = 2 * n
<1>1. Ends(f) = Evens(n) /\ n \in Nat
  BY PairedEnds DEF Paired
<1>2. Cardinality(Ends(f)) = n
  BY <1>1, EvensCount
<1>3. ASSUME NEW k \in 1..n PROVE Line(f, 2 * k) = k
  <2>1. {j \in Ends(f) : j <= 2 * k} = Evens(k)
    BY <1>1 DEF Evens
  <2> QED  BY <2>1, EvensCount DEF Line
<1> DEFINE at(k) == CHOOSE j \in Ends(f) : Line(f, j) = k
<1>4. ASSUME NEW k \in 1..n PROVE at(k) = 2 * k
  <2>1. 2 * k \in Ends(f) /\ Line(f, 2 * k) = k
    BY <1>1, <1>3 DEF Evens
  <2>2. ASSUME NEW j \in Ends(f), Line(f, j) = k PROVE j = 2 * k
    <3>1. PICK m \in 1..n : j = 2 * m
      BY <1>1 DEF Evens
    <3> QED  BY <1>3, <2>2, <3>1
  <2> QED  BY <2>1, <2>2
<1>5. Records(f) = [k \in 1..n |-> <<f[2 * k].ev, f[2 * k].seq>>]
  <2>1. Records(f) = [k \in 1..n |-> <<f[at(k)].ev, f[at(k)].seq>>]
    BY <1>2, Zenon DEF Records
  <2> HIDE DEF at
  <2> QED  BY <1>4, <2>1
<1>6. Records(f) \in Seq(Events \X Nat) /\ Len(Records(f)) = n
  <2>1. ASSUME NEW k \in 1..n PROVE <<f[2 * k].ev, f[2 * k].seq>> \in Events \X Nat
    <3>1. 2 * k \in 1..Len(f) /\ f \in Seq(Pieces)
      BY DEF Paired
    <3>2. f[2 * k] \in Pieces
      BY <3>1
    <3> QED  BY <3>2 DEF Pieces
  <2>2. Records(f) \in [1..n -> Events \X Nat]
    BY <1>5, <2>1
  <2> QED  BY <1>1, <2>2
<1>7. ValidLength(f) = 2 * n
  <2>1. CASE n = 0
    BY <1>1, <2>1 DEF ValidLength, Evens
  <2>2. CASE n # 0
    <3>1. 2 * n \in Evens(n) /\ \A x \in Evens(n) : x <= 2 * n /\ x \in Nat
      BY <1>1, <2>2 DEF Evens
    <3>2. Max(Evens(n)) = 2 * n
      BY <1>1, <3>1 DEF Max
    <3> QED  BY <1>1, <3>1, <3>2 DEF ValidLength
  <2> QED  BY <2>1, <2>2
<1> QED  BY <1>1, <1>2, <1>3, <1>5, <1>6, <1>7

-----------------------------------------------------------------------------
(* The invariant.                                                          *)

(* The complete records of the log.                                        *)
Lines == Cardinality(Ends(file))

(* The event has a complete record.                                        *)
Logged(e) == \E k \in 1..Lines : file[2 * k].ev = e

(* The complete lines are whole records of distinct local events, in order *)
(* of their numbers; only the last line may be torn.                       *)
FileOK ==
    /\ Paired(file, Lines)
    /\ \A k \in 1..Lines :
        /\ file[2 * k - 1].ev = file[2 * k].ev
        /\ file[2 * k - 1].seq = k /\ file[2 * k].seq = k
        /\ file[2 * k].ev \in local
    /\ \A j, k \in 1..Lines : file[2 * j].ev = file[2 * k].ev => j = k

(* A writer's events are numbered up to its count, and a write that        *)
(* returned has its record.                                                *)
EventsOK ==
    /\ \A e \in local : e[2] <= count[e[1]]
    /\ \A e \in done : Logged(e)

(* The steps a writer takes with the lock.                                 *)
Holding == {"locate", "truncate", "begin", "end", "unlock"}

(* What a writer knows at each step: only the holder of the lock knows     *)
(* anything of the file, and its event has no record before its last piece.*)
WriterOK(w) ==
    /\ lock = w <=> pc[w] \in Holding
    /\ pc[w] \in {"lock", "locate", "truncate", "begin", "end"}
         => Event(w) \in local /\ ~Logged(Event(w))
    /\ pc[w] = "unlock" => Event(w) \in local /\ Logged(Event(w))
    /\ pc[w] = "truncate" => valid[w] = 2 * Lines
    /\ pc[w] \in {"truncate", "begin", "end"} => seq[w] = Lines + 1
    /\ pc[w] = "begin" => Len(file) = 2 * Lines
    /\ pc[w] = "end" => Len(file) = 2 * Lines + 1 /\ file[2 * Lines + 1] = Piece(w, "begin")

(* An event that was given up: it has no record and no writer.             *)
Dead(e) ==
    /\ e \in local /\ ~Logged(e)
    /\ \A w \in Writers : Event(w) = e => pc[w] = "idle"

(* The torn line is a writer's that is about to end it, or given up.       *)
TornOK ==
    Len(file) = 2 * Lines + 1 =>
        \/ Dead(file[2 * Lines + 1].ev)
        \/ \E w \in Writers : pc[w] = "end" /\ file[2 * Lines + 1].ev = Event(w)

(* What the first read call gave behind b lines: lines that were complete  *)
(* still stand in the file, and a torn one does so unless it was given up. *)
FitsAt(r, b, h) ==
    /\ base[r] = 2 * b /\ b + h <= Lines
    /\ Paired(buffer[r], h)
    /\ \A i \in 1..2 * h : buffer[r][i] = file[2 * b + i]
    /\ Len(buffer[r]) = 2 * h + 1 =>
        \/ 2 * b + 2 * h + 1 <= Len(file)
             /\ file[2 * b + 2 * h + 1] = buffer[r][2 * h + 1]
        \/ Dead(buffer[r][2 * h + 1].ev)

Fits(r) == \E b, h \in Nat : FitsAt(r, b, h)

(* The k-th consumed line: the record of that number, or a mix that begins *)
(* with a dead event.                                                      *)
LineOK(k, x) ==
    IF x[1] = x[2] THEN k <= Lines /\ x[1] = file[2 * k].ev
                   ELSE Dead(x[1]) /\ Logged(x[2])

(* A consumer that holds x stands at the end of a line; without a mix at   *)
(* that of the last record it holds.                                       *)
Placed(offset, x) ==
    \E n \in Len(x)..Lines :
        offset = 2 * n /\ (~Mixed(x) => n = Len(x))

ClientOK(r) ==
    /\ Len(seen[r]) = cursor[r].sequence
    /\ Placed(cursor[r].offset, seen[r])
    /\ \A k \in 1..Len(seen[r]) : LineOK(k, seen[r][k])
    /\ mode[r] = "follow" => base[r] = Cursor(r).offset /\ Fits(r)

(* The inductive invariant.                                                *)
LogInv ==
    /\ TypeOK /\ FileOK /\ EventsOK /\ TornOK
    /\ \A w \in Writers : WriterOK(w)
    /\ \A r \in Clients : ClientOK(r)

-----------------------------------------------------------------------------
(* The three changes of the file.                                          *)

(* Cutting a torn line off keeps the complete ones.                        *)
LEMMA TruncatePaired ==
    ASSUME NEW f, NEW n, Paired(f, n)
    PROVE  /\ Paired(SubSeq(f, 1, 2 * n), n) /\ Len(SubSeq(f, 1, 2 * n)) = 2 * n
           /\ \A i \in 1..2 * n : SubSeq(f, 1, 2 * n)[i] = f[i]
<1> DEFINE g == SubSeq(f, 1, 2 * n)
<1>1. n \in Nat /\ f \in Seq(Pieces) /\ 2 * n \in Nat /\ 2 * n <= Len(f)
  BY DEF Paired
<1>2. g \in Seq(Pieces) /\ Len(g) = 2 * n /\ \A i \in 1..2 * n : g[i] = f[i]
  BY <1>1
<1> HIDE DEF g
<1>3. ASSUME NEW k \in 1..n PROVE g[2 * k - 1].part = "begin" /\ g[2 * k].part = "end"
  <2>1. 2 * k - 1 \in 1..2 * n /\ 2 * k \in 1..2 * n
    BY <1>1
  <2>2. f[2 * k - 1].part = "begin" /\ f[2 * k].part = "end"
    BY DEF Paired
  <2> QED  BY <1>2, <2>1, <2>2
<1>4. Paired(g, n)
  BY <1>1, <1>2, <1>3 DEF Paired
<1> QED  BY <1>2, <1>4 DEF g

(* A beginning appended to complete lines is a torn line.                  *)
LEMMA BeginPaired ==
    ASSUME NEW f, NEW n, Paired(f, n), Len(f) = 2 * n, NEW p \in Pieces, p.part = "begin"
    PROVE  /\ Paired(Append(f, p), n) /\ Len(Append(f, p)) = 2 * n + 1
           /\ Append(f, p)[2 * n + 1] = p
           /\ \A i \in 1..2 * n : Append(f, p)[i] = f[i]
<1> DEFINE g == Append(f, p)
<1>1. n \in Nat /\ f \in Seq(Pieces)
  BY DEF Paired
<1>2. /\ g \in Seq(Pieces) /\ Len(g) = 2 * n + 1 /\ g[2 * n + 1] = p
      /\ \A i \in 1..2 * n : g[i] = f[i]
  BY <1>1
<1> HIDE DEF g
<1>3. ASSUME NEW k \in 1..n PROVE g[2 * k - 1].part = "begin" /\ g[2 * k].part = "end"
  <2>1. 2 * k - 1 \in 1..2 * n /\ 2 * k \in 1..2 * n
    BY <1>1
  <2>2. f[2 * k - 1].part = "begin" /\ f[2 * k].part = "end"
    BY DEF Paired
  <2> QED  BY <1>2, <2>1, <2>2
<1>4. Paired(g, n)
  BY <1>1, <1>2, <1>3 DEF Paired
<1> QED  BY <1>2, <1>4 DEF g

(* Its end makes it one more complete line.                                *)
LEMMA EndPaired ==
    ASSUME NEW f, NEW n, Paired(f, n), Len(f) = 2 * n + 1, NEW p \in Pieces, p.part = "end"
    PROVE  /\ Paired(Append(f, p), n + 1) /\ Append(f, p)[2 * (n + 1)] = p
           /\ Append(f, p)[2 * (n + 1) - 1] = f[2 * n + 1]
           /\ \A i \in 1..2 * n : Append(f, p)[i] = f[i]
<1> DEFINE g == Append(f, p)
<1>1. n \in Nat /\ f \in Seq(Pieces)
  BY DEF Paired
<1>2. /\ g \in Seq(Pieces) /\ Len(g) = 2 * n + 2 /\ g[2 * n + 2] = p
      /\ \A i \in 1..2 * n + 1 : g[i] = f[i]
  BY <1>1
<1> HIDE DEF g
<1>3. ASSUME NEW k \in 1..n + 1 PROVE g[2 * k - 1].part = "begin" /\ g[2 * k].part = "end"
  <2>1. CASE k \in 1..n
    <3>1. 2 * k - 1 \in 1..2 * n + 1 /\ 2 * k \in 1..2 * n + 1
      BY <1>1, <2>1
    <3>2. f[2 * k - 1].part = "begin" /\ f[2 * k].part = "end"
      BY <2>1 DEF Paired
    <3> QED  BY <1>2, <3>1, <3>2
  <2>2. CASE k \notin 1..n
    <3>1. 2 * k - 1 = 2 * n + 1 /\ 2 * k = 2 * n + 2 /\ 2 * n + 1 \in 1..2 * n + 1
      BY <1>1, <2>2
    <3>2. g[2 * k - 1] = f[2 * n + 1] /\ g[2 * k] = p
      BY <1>2, <3>1
    <3> QED  BY <3>2 DEF Paired
  <2> QED  BY <2>1, <2>2
<1>4. Paired(g, n + 1)
  <2>1. n + 1 \in Nat /\ Len(g) = 2 * (n + 1)
    BY <1>1, <1>2
  <2> QED  BY <1>1, <1>2, <1>3, <2>1 DEF Paired
<1>5. g[2 * (n + 1)] = p /\ g[2 * (n + 1) - 1] = f[2 * n + 1]
  <2>1. 2 * (n + 1) = 2 * n + 2 /\ 2 * (n + 1) - 1 = 2 * n + 1 /\ 2 * n + 1 \in 1..2 * n + 1
    BY <1>1
  <2> QED  BY <1>2, <2>1
<1>6. \A i \in 1..2 * n : g[i] = f[i]
  BY <1>1, <1>2
<1> QED  BY <1>4, <1>5, <1>6 DEF g

-----------------------------------------------------------------------------
(* The complete lines stand.                                               *)
Kept == Lines <= Lines' /\ \A i \in 1..2 * Lines : file'[i] = file[i]

(* A torn one stands too, unless its event was given up, and what was      *)
(* given up stays so.                                                      *)
GivenUp ==
    /\ \A e : Dead(e) => Dead(e)'
    /\ Len(file) = 2 * Lines + 1 =>
        \/ 2 * Lines + 1 <= Len(file') /\ file'[2 * Lines + 1] = file[2 * Lines + 1]
        \/ \E e : e = file[2 * Lines + 1].ev /\ Dead(e)'

(* The number of lines, and where their pieces are.                        *)
LEMMA LinesType ==
    ASSUME FileOK
    PROVE  /\ Lines \in Nat /\ file \in Seq(Pieces) /\ 2 * Lines <= Len(file)
           /\ Len(file) = 2 * Lines \/ Len(file) = 2 * Lines + 1
           /\ \A k \in 1..Lines : 2 * k - 1 \in 1..2 * Lines /\ 2 * k \in 1..2 * Lines
<1>1. Paired(file, Lines)
  BY DEF FileOK
<1>2. Lines \in Nat /\ file \in Seq(Pieces) /\ (Len(file) = 2 * Lines \/ Len(file) = 2 * Lines + 1)
  BY <1>1 DEF Paired
<1> QED  BY <1>2

(* A file with as many lines as before and the same pieces in them.        *)
LEMMA SameLines ==
    ASSUME FileOK, Paired(file', Lines), \A i \in 1..2 * Lines : file'[i] = file[i],
           local \subseteq local'
    PROVE  /\ Lines' = Lines /\ FileOK' /\ Kept /\ \A e : Logged(e)' <=> Logged(e)
<1> DEFINE n == Lines
<1>1. n \in Nat /\ \A k \in 1..n : 2 * k - 1 \in 1..2 * n /\ 2 * k \in 1..2 * n
  BY LinesType
<1>2. Lines' = n
  BY PairedRecords DEF Lines
<1>3. \A k \in 1..n : file'[2 * k - 1] = file[2 * k - 1] /\ file'[2 * k] = file[2 * k]
  BY <1>1
<1> HIDE DEF n
<1>4. FileOK'
  BY <1>2, <1>3 DEF FileOK, n
<1>5. Kept
  BY <1>1, <1>2 DEF Kept, n
<1>6. \A e : Logged(e)' <=> Logged(e)
  BY <1>2, <1>3 DEF Logged, n
<1> QED  BY <1>2, <1>4, <1>5, <1>6 DEF n

(* What was read still fits while the complete lines stand.                *)
LEMMA FitsKept ==
    ASSUME LogInv, NEW r \in Clients, Kept, GivenUp, FileOK', NEW b \in Nat, NEW h \in Nat,
           FitsAt(r, b, h), UNCHANGED <<buffer[r], base[r]>>
    PROVE  FitsAt(r, b, h)'
<1>1. PICK l, n \in Nat : l = Lines /\ n = Lines'
  BY LinesType DEF LogInv, FileOK, Paired
<1>2. /\ base[r] = 2 * b /\ b + h <= l /\ Paired(buffer[r], h)
      /\ \A i \in 1..2 * h : buffer[r][i] = file[2 * b + i]
  BY <1>1 DEF FitsAt
<1>3. l <= n /\ \A i \in 1..2 * l : file'[i] = file[i]
  BY <1>1 DEF Kept
<1>4. b + h <= n
  BY <1>1, <1>2, <1>3
<1>5. ASSUME NEW i \in 1..2 * h PROVE buffer[r][i] = file'[2 * b + i]
  <2>1. 2 * b + i \in 1..2 * l
    BY <1>2
  <2> QED  BY <1>2, <1>3, <2>1
<1>6. ASSUME Len(buffer[r]) = 2 * h + 1
      PROVE  \/ 2 * b + 2 * h + 1 <= Len(file')
                  /\ file'[2 * b + 2 * h + 1] = buffer[r][2 * h + 1]
             \/ \E e : e = buffer[r][2 * h + 1].ev /\ Dead(e)'
  <2>1. PICK x, t : x = 2 * b + 2 * h + 1 /\ t = buffer[r][2 * h + 1] /\ x \in Nat
    OBVIOUS
  <2>2. (x <= Len(file) /\ file[x] = t) \/ Dead(t.ev)
    BY <1>6, <2>1 DEF FitsAt
  <2>3. CASE Dead(t.ev)
    BY <2>1, <2>3 DEF GivenUp
  <2>4. CASE x <= Len(file) /\ file[x] = t
    <3>1. /\ Len(file) \in Nat /\ (Len(file) = 2 * l \/ Len(file) = 2 * l + 1)
          /\ Len(file') \in Nat /\ 2 * n <= Len(file')
      <4>1. Paired(file, l)
        BY <1>1 DEF LogInv, FileOK
      <4>2. Paired(file', n)
        BY <1>1 DEF FileOK
      <4> QED  BY <4>1, <4>2 DEF Paired
    <3>2. CASE x <= 2 * l
      <4>1. x \in 1..2 * l /\ x <= Len(file')
        BY <1>3, <2>1, <3>1, <3>2
      <4> QED  BY <1>3, <2>1, <2>4, <4>1
    <3>3. CASE ~(x <= 2 * l)
      <4>1. x = 2 * l + 1 /\ Len(file) = 2 * l + 1
        BY <2>1, <2>4, <3>1, <3>3
      <4>2. \/ x <= Len(file') /\ file'[x] = file[x]
            \/ \E e : e = file[x].ev /\ Dead(e)'
        BY <1>1, <4>1 DEF GivenUp
      <4> QED  BY <2>1, <2>4, <4>2
    <3> QED  BY <3>2, <3>3
  <2> QED  BY <2>2, <2>3, <2>4
<1>7. ASSUME NEW e, e = buffer[r][2 * h + 1].ev, Dead(e)' PROVE Dead(buffer[r][2 * h + 1].ev)'
  BY <1>7 DEF Dead, Logged, Event
<1> QED  BY <1>1, <1>2, <1>4, <1>5, <1>6, <1>7 DEF FitsAt

(* What a line of the log or a mix is, it stays.                           *)
LEMMA LineKept ==
    ASSUME LogInv, Kept, GivenUp, Lines' \in Nat, NEW k \in Nat \ {0}, NEW x, LineOK(k, x)
    PROVE  LineOK(k, x)'
<1>1. PICK l, n \in Nat : l = Lines /\ n = Lines'
  BY LinesType DEF LogInv
<1>2. l <= n /\ \A i \in 1..2 * l : file'[i] = file[i]
  BY <1>1 DEF Kept
<1>3. CASE x[1] = x[2]
  <2>1. k <= l /\ x[1] = file[2 * k].ev
    BY <1>1, <1>3 DEF LineOK
  <2>2. 2 * k \in 1..2 * l /\ k <= n
    BY <1>2, <2>1
  <2> QED  BY <1>1, <1>2, <1>3, <2>1, <2>2 DEF LineOK
<1>4. CASE x[1] # x[2]
  <2>1. Dead(x[1]) /\ Logged(x[2])
    BY <1>4 DEF LineOK
  <2>2. PICK j \in 1..l : file[2 * j].ev = x[2]
    BY <1>1, <2>1 DEF Logged
  <2>3. j \in 1..n /\ file'[2 * j].ev = x[2]
    BY <1>2, <2>2
  <2>4. Logged(x[2])'
    BY <1>1, <2>3 DEF Logged
  <2>5. Dead(x[1])'
    BY <2>1 DEF GivenUp
  <2> QED  BY <1>4, <2>4, <2>5 DEF LineOK
<1> QED  BY <1>3, <1>4

(* A client is not disturbed while the complete lines stand.               *)
LEMMA ClientKept ==
    ASSUME LogInv, NEW r \in Clients, Kept, GivenUp, FileOK', UNCHANGED reading
    PROVE  ClientOK(r)'
<1>1. /\ Lines \in Nat /\ Lines' \in Nat /\ Lines <= Lines'
      /\ seen[r] \in Seq(Events \X Events) /\ ClientOK(r)
  BY LinesType DEF LogInv, TypeOK, Kept, FileOK, Paired
<1>2. UNCHANGED <<cursor[r], seen[r], buffer[r], base[r], mode[r]>>
  BY DEF reading
<1>3. Placed(cursor[r].offset, seen[r])'
  <2>1. PICK n \in Len(seen[r])..Lines :
          cursor[r].offset = 2 * n /\ (~Mixed(seen[r]) => n = Len(seen[r]))
    BY <1>1 DEF ClientOK, Placed
  <2>2. n \in Len(seen[r])..Lines'
    BY <1>1
  <2> QED  BY <1>2, <2>1, <2>2 DEF Placed, Mixed
<1>4. ASSUME NEW k \in 1..Len(seen[r]) PROVE LineOK(k, seen[r][k])'
  <2>1. PICK x : x = seen[r][k]
    OBVIOUS
  <2>2. LineOK(k, x) /\ k \in Nat \ {0}
    BY <1>1, <2>1 DEF ClientOK
  <2>3. LineOK(k, x)'
    BY <1>1, <2>2, LineKept
  <2> QED  BY <1>2, <2>1, <2>3 DEF LineOK, Dead, Logged, Event
<1>5. ASSUME mode[r] = "follow" PROVE base[r] = Cursor(r).offset /\ Fits(r)'
  <2>1. base[r] = Cursor(r).offset /\ Fits(r)
    BY <1>1, <1>5 DEF ClientOK
  <2>2. PICK b, h \in Nat : FitsAt(r, b, h)
    BY <2>1 DEF Fits
  <2>3. FitsAt(r, b, h)'
    BY <1>2, <2>2, FitsKept
  <2> QED  BY <2>1, <2>3 DEF Fits
<1> QED  BY <1>1, <1>2, <1>3, <1>4, <1>5 DEF ClientOK, Cursor

-----------------------------------------------------------------------------
(* The writers.                                                            *)

(* A step of w leaves alone a writer without the lock.                     *)
LEMMA OtherKeeps ==
    ASSUME LogInv, NEW w \in Writers, NEW v \in Writers \ {w}, lock # v, lock' # v,
           pc'[v] = pc[v], count'[v] = count[v], local \subseteq local',
           \A e : Logged(e)' => Logged(e) \/ e = Event(w)
    PROVE  WriterOK(v)'
<1>1. WriterOK(v) /\ pc[v] \notin Holding
  BY DEF LogInv, WriterOK
<1>2. Event(v)' = Event(v) /\ Event(v) # Event(w)
  BY DEF Event
<1>3. Logged(Event(v))' => Logged(Event(v))
  <2>1. PICK e : e = Event(v)
    OBVIOUS
  <2>2. Logged(e)' => Logged(e)
    BY <1>2, <2>1
  <2>3. Logged(Event(v))' <=> Logged(e)'
    BY <1>2, <2>1 DEF Logged
  <2> QED  BY <2>1, <2>2, <2>3
<1> QED  BY <1>1, <1>2, <1>3 DEF WriterOK, Holding

(* A step that leaves the file and a writer's own state alone.             *)
LEMMA StillKeeps ==
    ASSUME NEW v, WriterOK(v), file' = file, lock' = v <=> lock = v, pc'[v] = pc[v],
           count'[v] = count[v], seq'[v] = seq[v], valid'[v] = valid[v], local \subseteq local'
    PROVE  WriterOK(v)'
  BY DEF WriterOK, Event, Piece, Logged, Lines, Ends

(* A file that does not change keeps its lines.                            *)
LEMMA SameFile ==
    ASSUME FileOK, file' = file, local \subseteq local'
    PROVE  Lines' = Lines /\ FileOK' /\ Kept /\ \A e : Logged(e)' <=> Logged(e)
<1>1. Paired(file', Lines) /\ \A i \in 1..2 * Lines : file'[i] = file[i]
  BY DEF FileOK
<1> QED  BY <1>1, SameLines

(* The event of a writer at work.                                          *)
LEMMA EventType ==
    ASSUME LogInv, NEW w \in Writers, pc[w] # "idle"
    PROVE  Event(w) \in local /\ Event(w) \in Events
<1>1. pc[w] \in {"idle", "lock", "locate", "truncate", "begin", "end", "unlock"} /\ local \subseteq Events
  BY DEF LogInv, TypeOK
<1>2. WriterOK(w)
  BY DEF LogInv
<1> QED  BY <1>1, <1>2 DEF WriterOK

(* A writer at work gives up no event but its own.                         *)
LEMMA DeadKept ==
    ASSUME NEW w \in Writers, pc[w] # "idle", count' = count, local' = local,
           \A v \in Writers \ {w} : pc'[v] = pc[v],
           \A e : Logged(e)' => Logged(e) \/ e = Event(w),
           NEW e, Dead(e)
    PROVE  Dead(e)'
<1>1. e # Event(w) /\ e \in local /\ ~Logged(e)
  BY DEF Dead
<1>2. ~Logged(e)' /\ e \in local'
  BY <1>1
<1>3. ASSUME NEW v \in Writers, Event(v)' = e PROVE pc'[v] = "idle"
  <2>1. Event(v) = e
    BY <1>3 DEF Event
  <2>2. pc[v] = "idle" /\ v # w
    BY <1>1, <2>1 DEF Dead
  <2> QED  BY <2>2
<1> QED  BY <1>2, <1>3 DEF Dead

(* A step that leaves the file alone, and every writer that is about to    *)
(* end its record.                                                         *)
LEMMA TornStill ==
    ASSUME TornOK, FileOK, file' = file, \A e : Dead(e) => Dead(e)',
           \A v \in Writers : pc[v] = "end" =>
                \/ pc'[v] = "end" /\ count'[v] = count[v]
                \/ \E e : e = Event(v) /\ Dead(e)'
    PROVE  TornOK' /\ GivenUp
<1>1. Lines' = Lines /\ Lines \in Nat /\ Len(file) \in Nat
  BY LinesType DEF Lines
<1>2. GivenUp
  BY <1>1 DEF GivenUp
<1>3. ASSUME Len(file) = 2 * Lines + 1
      PROVE  \/ \E e : e = file[2 * Lines + 1].ev /\ Dead(e)'
             \/ \E w \in Writers : pc'[w] = "end" /\ file[2 * Lines + 1].ev = Event(w)'
  <2>1. CASE Dead(file[2 * Lines + 1].ev)
    BY <2>1
  <2>2. CASE \E w \in Writers : pc[w] = "end" /\ file[2 * Lines + 1].ev = Event(w)
    <3>1. PICK w \in Writers : pc[w] = "end" /\ file[2 * Lines + 1].ev = Event(w)
      BY <2>2
    <3>2. CASE pc'[w] = "end" /\ count'[w] = count[w]
      BY <3>1, <3>2 DEF Event
    <3>3. CASE \E e : e = Event(w) /\ Dead(e)'
      BY <3>1, <3>3
    <3> QED  BY <3>1, <3>2, <3>3
  <2> QED  BY <1>3, <2>1, <2>2 DEF TornOK
<1>4. ASSUME NEW e, e = file[2 * Lines + 1].ev, Dead(e)' PROVE Dead(file[2 * Lines + 1].ev)'
  BY <1>1, <1>4 DEF Dead, Logged, Event
<1> QED  BY <1>1, <1>2, <1>3, <1>4 DEF TornOK

(* A new event is in the local log and not yet in the run log.             *)
LEMMA WriteLocalKeeps == ASSUME LogInv, NEW w \in Writers, WriteLocal(w) PROVE LogInv' /\ Kept
<1> DEFINE e == <<w, count[w] + 1>>
<1>1. /\ TypeOK /\ FileOK /\ EventsOK /\ TornOK /\ WriterOK(w) /\ pc[w] = "idle" /\ count[w] < MaxEvents
      /\ count[w] \in 0..MaxEvents /\ MaxEvents \in Nat /\ file' = file /\ lock' = lock
      /\ UNCHANGED reading /\ done' = done /\ local' = local \cup {e}
      /\ count' = [count EXCEPT ![w] = @ + 1] /\ pc' = [pc EXCEPT ![w] = "lock"]
      /\ seq' = seq /\ valid' = valid
  BY LogBoundsAssumption DEF LogInv, TypeOK, WriteLocal, Goto
<1>2. /\ pc'[w] = "lock" /\ count'[w] = count[w] + 1
      /\ \A v \in Writers \ {w} : pc'[v] = pc[v] /\ count'[v] = count[v]
  BY <1>1 DEF TypeOK
<1>3. e \in Events
  BY <1>1 DEF Events
<1>4. TypeOK'
  <2>1. count' \in [Writers -> 0..MaxEvents]
    <3>1. count[w] + 1 \in 0..MaxEvents /\ count \in [Writers -> 0..MaxEvents]
      BY <1>1 DEF TypeOK
    <3> QED  BY <1>1, <3>1
  <2>2. local' \subseteq Events
    BY <1>1, <1>3 DEF TypeOK
  <2>3. pc' \in [Writers -> {"idle", "lock", "locate", "truncate", "begin", "end", "unlock"}]
    BY <1>1 DEF TypeOK
  <2> QED  BY <1>1, <2>1, <2>2, <2>3 DEF TypeOK, reading
<1>5. Lines' = Lines /\ FileOK' /\ Kept /\ \A x : Logged(x)' <=> Logged(x)
  BY <1>1, SameFile
<1>6. EventsOK'
  <2>1. ASSUME NEW x \in local' PROVE x[2] <= count'[x[1]]
    <3>1. CASE x = e
      BY <1>1, <1>2, <3>1
    <3>2. CASE x \in local
      <4>1. x \in Events /\ x[2] <= count[x[1]]
        BY <1>1, <3>2 DEF TypeOK, EventsOK
      <4>2. x[1] \in Writers /\ x[2] \in Nat /\ count[x[1]] \in Nat
        BY <1>1, <4>1 DEF Events, TypeOK
      <4>3. count[x[1]] <= count'[x[1]] /\ count'[x[1]] \in Nat
        BY <1>1, <1>2, <4>2
      <4> QED  BY <4>1, <4>2, <4>3
    <3> QED  BY <1>1, <3>1, <3>2
  <2>2. \A x \in done' : Logged(x)'
    BY <1>1, <1>5 DEF EventsOK
  <2> QED  BY <2>1, <2>2 DEF EventsOK
<1>7. WriterOK(w)'
  <2>1. Event(w)' = e
    BY <1>2 DEF Event
  <2>2. ~Logged(e)
    <3>1. SUFFICES ASSUME NEW k \in 1..Lines, file[2 * k].ev = e PROVE FALSE
      BY DEF Logged
    <3>2. e \in local
      BY <1>1, <3>1 DEF FileOK
    <3>3. count[w] + 1 <= count[w]
      BY <1>1, <3>2 DEF EventsOK
    <3> QED  BY <1>1, <3>3
  <2>3. ~Logged(Event(w))'
    <3>1. PICK x : x = e
      OBVIOUS
    <3>2. ~Logged(x)'
      BY <1>5, <2>2, <3>1
    <3> QED  BY <2>1, <3>1, <3>2 DEF Logged
  <2>4. lock' # w
    BY <1>1 DEF WriterOK, Holding
  <2> QED  BY <1>1, <1>2, <2>1, <2>3, <2>4 DEF WriterOK, Holding
<1>8. ASSUME NEW v \in Writers \ {w} PROVE WriterOK(v)'
  <2>1. WriterOK(v)
    BY DEF LogInv
  <2> QED  BY <1>1, <1>2, <2>1, StillKeeps
<1>9. TornOK' /\ GivenUp
  <2>1. e \notin local
    <3>1. SUFFICES ASSUME e \in local PROVE FALSE
      OBVIOUS
    <3>2. count[w] + 1 <= count[w]
      BY <1>1, <3>1 DEF EventsOK
    <3> QED  BY <1>1, <3>2
  <2>2. ASSUME NEW x, Dead(x) PROVE Dead(x)'
    <3>1. x \in local' /\ ~Logged(x)'
      BY <1>1, <1>5, <2>2 DEF Dead
    <3>2. ASSUME NEW v \in Writers, Event(v)' = x PROVE pc'[v] = "idle"
      <4>1. v # w
        BY <1>2, <2>1, <2>2, <3>2 DEF Dead, Event
      <4>2. Event(v) = x
        BY <1>2, <3>2, <4>1 DEF Event
      <4> QED  BY <1>2, <2>2, <4>1, <4>2 DEF Dead
    <3> QED  BY <3>1, <3>2 DEF Dead
  <2> QED  BY <1>1, <1>2, <2>2, TornStill
<1>10. \A r \in Clients : ClientOK(r)'
  BY <1>1, <1>5, <1>9, ClientKept
<1> QED  BY <1>4, <1>5, <1>6, <1>7, <1>8, <1>9, <1>10 DEF LogInv

(* The lock is taken when nobody has it.                                   *)
LEMMA AcquireKeeps == ASSUME LogInv, NEW w \in Writers, Acquire(w) PROVE LogInv' /\ Kept
<1>1. /\ TypeOK /\ FileOK /\ EventsOK /\ TornOK /\ WriterOK(w) /\ pc[w] = "lock" /\ lock = NoWriter
      /\ lock' = w /\ file' = file /\ UNCHANGED reading /\ done' = done /\ local' = local
      /\ count' = count /\ pc' = [pc EXCEPT ![w] = "locate"] /\ seq' = seq /\ valid' = valid
  BY DEF LogInv, Acquire, Goto
<1>2. pc'[w] = "locate" /\ \A v \in Writers \ {w} : pc'[v] = pc[v]
  BY <1>1 DEF TypeOK
<1>3. TypeOK'
  BY <1>1 DEF TypeOK, reading
<1>4. Lines' = Lines /\ FileOK' /\ Kept /\ \A x : Logged(x)' <=> Logged(x)
  BY <1>1, SameFile
<1>5. EventsOK'
  BY <1>1, <1>4 DEF EventsOK
<1>6. WriterOK(w)'
  BY <1>1, <1>2, <1>4 DEF WriterOK, Holding, Event, Logged
<1>7. ASSUME NEW v \in Writers \ {w} PROVE WriterOK(v)'
  <2>1. WriterOK(v) /\ lock # v
    BY <1>1, LogWritersAssumption DEF LogInv
  <2> QED  BY <1>1, <1>2, <2>1, StillKeeps
<1>8. TornOK' /\ GivenUp
  <2>1. ASSUME NEW e, Dead(e) PROVE Dead(e)'
    BY <1>1, <1>2, <1>4, <2>1, DeadKept
  <2> QED  BY <1>1, <1>2, <2>1, TornStill
<1>9. \A r \in Clients : ClientOK(r)'
  BY <1>1, <1>4, <1>8, ClientKept
<1> QED  BY <1>3, <1>4, <1>5, <1>6, <1>7, <1>8, <1>9 DEF LogInv

(* The writer finds the complete lines and the number of the next one.     *)
LEMMA LocateKeeps == ASSUME LogInv, NEW w \in Writers, Locate(w) PROVE LogInv' /\ Kept
<1> DEFINE x == IF Len(file) > ValidLength(file) THEN "truncate" ELSE "begin"
<1>1. /\ TypeOK /\ FileOK /\ EventsOK /\ TornOK /\ WriterOK(w) /\ pc[w] = "locate"
      /\ lock' = lock /\ file' = file /\ UNCHANGED reading /\ done' = done /\ local' = local
      /\ count' = count /\ pc' = [pc EXCEPT ![w] = x]
      /\ seq' = [seq EXCEPT ![w] = NextSequence(file)]
      /\ valid' = [valid EXCEPT ![w] = ValidLength(file)]
  BY DEF LogInv, Locate, Goto
<1>2. ValidLength(file) = 2 * Lines /\ Lines \in Nat /\ file \in Seq(Pieces)
      /\ (Len(file) = 2 * Lines \/ Len(file) = 2 * Lines + 1)
  BY <1>1, PairedRecords, LinesType DEF FileOK
<1>3. NextSequence(file) = Lines + 1
  <2>1. CASE Lines = 0
    BY <1>2, <2>1 DEF NextSequence
  <2>2. CASE Lines # 0
    <3>1. Lines \in 1..Lines
      BY <1>2, <2>2
    <3>2. file[2 * Lines].seq = Lines
      BY <1>1, <3>1 DEF FileOK
    <3> QED  BY <1>2, <2>2, <3>2 DEF NextSequence
  <2> QED  BY <2>1, <2>2
<1>4. /\ pc'[w] = x /\ seq'[w] = Lines + 1 /\ valid'[w] = 2 * Lines /\ x \in {"truncate", "begin"}
      /\ \A v \in Writers \ {w} : pc'[v] = pc[v] /\ seq'[v] = seq[v] /\ valid'[v] = valid[v]
      /\ x = "begin" => Len(file) = 2 * Lines
  BY <1>1, <1>2, <1>3 DEF TypeOK
<1> HIDE DEF x
<1>5. TypeOK'
  BY <1>1, <1>2, <1>3, <1>4 DEF TypeOK, reading
<1>6. Lines' = Lines /\ FileOK' /\ Kept /\ \A e : Logged(e)' <=> Logged(e)
  BY <1>1, SameFile
<1>7. EventsOK'
  BY <1>1, <1>6 DEF EventsOK
<1>8. WriterOK(w)'
  BY <1>1, <1>4, <1>6 DEF WriterOK, Holding, Event, Logged
<1>9. ASSUME NEW v \in Writers \ {w} PROVE WriterOK(v)'
  <2>1. WriterOK(v)
    BY DEF LogInv
  <2> QED  BY <1>1, <1>4, <2>1, StillKeeps
<1>10. TornOK' /\ GivenUp
  <2>1. ASSUME NEW e, Dead(e) PROVE Dead(e)'
    BY <1>1, <1>4, <1>6, <2>1, DeadKept
  <2> QED  BY <1>1, <1>4, <2>1, TornStill
<1>11. \A r \in Clients : ClientOK(r)'
  BY <1>1, <1>6, <1>10, ClientKept
<1> QED  BY <1>5, <1>6, <1>7, <1>8, <1>9, <1>10, <1>11 DEF LogInv

(* A torn line is cut off; the complete ones stand.                        *)
LEMMA TruncateKeeps == ASSUME LogInv, NEW w \in Writers, Truncate(w) PROVE LogInv' /\ Kept
<1>1. /\ TypeOK /\ FileOK /\ EventsOK /\ TornOK /\ WriterOK(w) /\ pc[w] = "truncate" /\ lock = w
      /\ lock' = lock /\ UNCHANGED reading /\ done' = done /\ local' = local
      /\ count' = count /\ pc' = [pc EXCEPT ![w] = "begin"] /\ seq' = seq /\ valid' = valid
      /\ file' = SubSeq(file, 1, 2 * Lines) /\ seq[w] = Lines + 1
  BY DEF LogInv, Truncate, Goto, WriterOK, Holding
<1>2. pc'[w] = "begin" /\ \A v \in Writers \ {w} : pc'[v] = pc[v]
  BY <1>1 DEF TypeOK
<1>3. /\ Paired(file', Lines) /\ Len(file') = 2 * Lines
      /\ \A i \in 1..2 * Lines : file'[i] = file[i]
  <2>1. Paired(file, Lines) /\ file' = SubSeq(file, 1, 2 * Lines)
    BY <1>1 DEF FileOK
  <2> QED  BY <2>1, TruncatePaired
<1>4. Lines' = Lines /\ FileOK' /\ Kept /\ \A e : Logged(e)' <=> Logged(e)
  BY <1>1, <1>3, SameLines
<1>5. TypeOK'
  <2>1. file' \in Seq(Pieces)
    BY <1>3 DEF Paired
  <2> QED  BY <1>1, <2>1 DEF TypeOK, reading
<1>6. EventsOK'
  BY <1>1, <1>4 DEF EventsOK
<1>7. WriterOK(w)'
  <2>1. Event(w)' = Event(w) /\ (Logged(Event(w))' <=> Logged(Event(w)))
    <3>1. PICK e : e = Event(w)
      OBVIOUS
    <3> QED  BY <1>1, <1>4, <3>1 DEF Logged, Event
  <2> QED  BY <1>1, <1>2, <1>3, <1>4, <2>1 DEF WriterOK, Holding
<1>8. ASSUME NEW v \in Writers \ {w} PROVE WriterOK(v)'
  BY <1>1, <1>2, <1>4, OtherKeeps
<1>9. TornOK' /\ GivenUp
  <2>1. ASSUME NEW e, Dead(e) PROVE Dead(e)'
    BY <1>1, <1>2, <1>4, <2>1, DeadKept
  <2>2. ASSUME Len(file) = 2 * Lines + 1 PROVE Dead(file[2 * Lines + 1].ev)
    <3>1. ASSUME NEW v \in Writers, pc[v] = "end" PROVE FALSE
      <4>1. WriterOK(v)
        BY DEF LogInv
      <4>2. lock = v
        BY <3>1, <4>1 DEF WriterOK, Holding
      <4> QED  BY <1>1, <3>1, <4>2
    <3> QED  BY <1>1, <2>2, <3>1 DEF TornOK
  <2>3. GivenUp
    BY <2>1, <2>2 DEF GivenUp
  <2>4. TornOK'
    <3>1. Lines \in Nat
      BY <1>1, LinesType
    <3> QED  BY <1>3, <1>4, <3>1 DEF TornOK
  <2> QED  BY <2>3, <2>4
<1>10. \A r \in Clients : ClientOK(r)'
  BY <1>1, <1>4, <1>9, ClientKept
<1> QED  BY <1>4, <1>5, <1>6, <1>7, <1>8, <1>9, <1>10 DEF LogInv

(* The beginning of a record is a torn line.                               *)
LEMMA AppendBeginKeeps == ASSUME LogInv, NEW w \in Writers, AppendBegin(w) PROVE LogInv' /\ Kept
<1>1. /\ TypeOK /\ FileOK /\ EventsOK /\ TornOK /\ WriterOK(w) /\ pc[w] = "begin" /\ lock = w
      /\ lock' = lock /\ UNCHANGED reading /\ done' = done /\ local' = local
      /\ count' = count /\ pc' = [pc EXCEPT ![w] = "end"] /\ seq' = seq /\ valid' = valid
      /\ file' = Append(file, Piece(w, "begin")) /\ seq[w] = Lines + 1 /\ Len(file) = 2 * Lines
  BY DEF LogInv, AppendBegin, Goto, WriterOK, Holding
<1>2. pc'[w] = "end" /\ \A v \in Writers \ {w} : pc'[v] = pc[v]
  BY <1>1 DEF TypeOK
<1>3. Piece(w, "begin") \in Pieces /\ Piece(w, "begin").part = "begin"
  <2>1. Event(w) \in Events /\ seq[w] \in Nat
    BY <1>1, EventType DEF TypeOK
  <2> QED  BY <2>1 DEF Piece, Pieces
<1>4. /\ Paired(file', Lines) /\ Len(file') = 2 * Lines + 1
      /\ file'[2 * Lines + 1] = Piece(w, "begin")
      /\ \A i \in 1..2 * Lines : file'[i] = file[i]
  BY <1>1, <1>3, BeginPaired DEF FileOK
<1>5. Lines' = Lines /\ FileOK' /\ Kept /\ \A e : Logged(e)' <=> Logged(e)
  BY <1>1, <1>4, SameLines
<1>6. TypeOK'
  <2>1. file' \in Seq(Pieces)
    BY <1>4 DEF Paired
  <2> QED  BY <1>1, <2>1 DEF TypeOK, reading
<1>7. EventsOK'
  BY <1>1, <1>5 DEF EventsOK
<1>8. WriterOK(w)'
  <2>1. /\ Event(w)' = Event(w) /\ Piece(w, "begin")' = Piece(w, "begin")
        /\ Logged(Event(w))' <=> Logged(Event(w))
    <3>1. PICK e : e = Event(w)
      OBVIOUS
    <3> QED  BY <1>1, <1>5, <3>1 DEF Logged, Event, Piece
  <2> QED  BY <1>1, <1>2, <1>4, <1>5, <2>1 DEF WriterOK, Holding
<1>9. ASSUME NEW v \in Writers \ {w} PROVE WriterOK(v)'
  BY <1>1, <1>2, <1>5, OtherKeeps
<1>10. TornOK' /\ GivenUp
  <2>1. ASSUME NEW e, Dead(e) PROVE Dead(e)'
    BY <1>1, <1>2, <1>5, <2>1, DeadKept
  <2>2. GivenUp
    <3>1. Lines \in Nat
      BY <1>1, LinesType
    <3> QED  BY <1>1, <2>1, <3>1 DEF GivenUp
  <2>3. file'[2 * Lines + 1].ev = Event(w)'
    BY <1>1, <1>4 DEF Piece, Event
  <2> QED  BY <1>2, <1>5, <2>2, <2>3 DEF TornOK
<1>11. \A r \in Clients : ClientOK(r)'
  BY <1>1, <1>5, <1>10, ClientKept
<1> QED  BY <1>5, <1>6, <1>7, <1>8, <1>9, <1>10, <1>11 DEF LogInv

(* Its end completes a line: the record of an event that had none.         *)
LEMMA AppendEndKeeps == ASSUME LogInv, NEW w \in Writers, AppendEnd(w) PROVE LogInv' /\ Kept
<1>1. /\ TypeOK /\ FileOK /\ EventsOK /\ TornOK /\ WriterOK(w) /\ pc[w] = "end" /\ lock = w
      /\ lock' = lock /\ UNCHANGED reading /\ done' = done /\ local' = local
      /\ count' = count /\ pc' = [pc EXCEPT ![w] = "unlock"] /\ seq' = seq /\ valid' = valid
      /\ file' = Append(file, Piece(w, "end")) /\ seq[w] = Lines + 1
      /\ Len(file) = 2 * Lines + 1 /\ file[2 * Lines + 1] = Piece(w, "begin")
      /\ Event(w) \in local /\ ~Logged(Event(w))
  BY DEF LogInv, AppendEnd, Goto, WriterOK, Holding
<1>2. pc'[w] = "unlock" /\ \A v \in Writers \ {w} : pc'[v] = pc[v]
  BY <1>1 DEF TypeOK
<1>3. Piece(w, "end") \in Pieces /\ Piece(w, "end").part = "end"
  <2>1. Event(w) \in Events /\ seq[w] \in Nat
    BY <1>1, EventType DEF TypeOK
  <2> QED  BY <2>1 DEF Piece, Pieces
<1>4. PICK n \in Nat : n = Lines
  BY <1>1, LinesType
<1>5. PICK m \in Nat : m = n + 1
  OBVIOUS
<1>6. /\ Paired(file', m) /\ file'[2 * m] = Piece(w, "end")
      /\ file'[2 * m - 1] = Piece(w, "begin")
      /\ \A i \in 1..2 * n : file'[i] = file[i]
  <2>1. Paired(file, n) /\ Len(file) = 2 * n + 1 /\ file[2 * n + 1] = Piece(w, "begin")
    BY <1>1, <1>4 DEF FileOK
  <2>2. file' = Append(file, Piece(w, "end"))
    BY <1>1
  <2>3. PICK p \in Pieces : p = Piece(w, "end")
    BY <1>3
  <2>4. /\ Paired(Append(file, p), n + 1) /\ Append(file, p)[2 * (n + 1)] = p
        /\ Append(file, p)[2 * (n + 1) - 1] = file[2 * n + 1]
        /\ \A i \in 1..2 * n : Append(file, p)[i] = file[i]
    <3>1. p.part = "end"
      BY <1>3, <2>3
    <3> QED  BY <2>1, <3>1, EndPaired, ZenonT(60)
  <2> QED  BY <1>5, <2>1, <2>2, <2>3, <2>4
<1>7. Lines' = m
  BY <1>6, PairedRecords DEF Lines
<1>8. \A k \in 1..m : k = m \/ k \in 1..n
  BY <1>5
<1>9. /\ \A k \in 1..n : file'[2 * k - 1] = file[2 * k - 1] /\ file'[2 * k] = file[2 * k]
      /\ m \in 1..m /\ \A k \in 1..n : k \in 1..m
  BY <1>5, <1>6
<1>10. /\ file'[2 * m].ev = Event(w) /\ file'[2 * m].seq = m
       /\ file'[2 * m - 1].ev = Event(w) /\ file'[2 * m - 1].seq = m
  <2>1. seq[w] = m
    BY <1>1, <1>4, <1>5
  <2> QED  BY <1>6, <2>1 DEF Piece
<1>11. \A k \in 1..n : file[2 * k].ev # Event(w)
  BY <1>1, <1>4 DEF Logged
<1>12. FileOK'
  <2>1. ASSUME NEW k \in 1..m
        PROVE  /\ file'[2 * k - 1].ev = file'[2 * k].ev
               /\ file'[2 * k - 1].seq = k /\ file'[2 * k].seq = k
               /\ file'[2 * k].ev \in local'
    <3>1. CASE k = m
      BY <1>1, <1>10, <3>1
    <3>2. CASE k \in 1..n
      BY <1>1, <1>4, <1>9, <3>2 DEF FileOK
    <3> QED  BY <1>8, <3>1, <3>2
  <2>2. ASSUME NEW j \in 1..m, NEW k \in 1..m, file'[2 * j].ev = file'[2 * k].ev PROVE j = k
    <3>1. CASE j \in 1..n /\ k \in 1..n
      BY <1>1, <1>4, <1>9, <2>2, <3>1 DEF FileOK
    <3>2. CASE j \in 1..n /\ k = m
      BY <1>9, <1>10, <1>11, <2>2, <3>2
    <3>3. CASE j = m /\ k \in 1..n
      BY <1>9, <1>10, <1>11, <2>2, <3>3
    <3> QED  BY <1>8, <3>1, <3>2, <3>3
  <2> QED  BY <1>6, <1>7, <2>1, <2>2 DEF FileOK
<1>13. Kept
  BY <1>4, <1>5, <1>6, <1>7 DEF Kept
<1>14. ASSUME NEW e PROVE Logged(e)' <=> Logged(e) \/ e = Event(w)
  <2>1. Logged(e)' <=> \E k \in 1..m : file'[2 * k].ev = e
    BY <1>7 DEF Logged
  <2>2. Logged(e) <=> \E k \in 1..n : file[2 * k].ev = e
    BY <1>4 DEF Logged
  <2> QED  BY <1>8, <1>9, <1>10, <2>1, <2>2
<1>15. TypeOK'
  <2>1. file' \in Seq(Pieces)
    BY <1>6 DEF Paired
  <2> QED  BY <1>1, <2>1 DEF TypeOK, reading
<1>16. EventsOK'
  BY <1>1, <1>14 DEF EventsOK
<1>17. WriterOK(w)'
  <2>1. Event(w)' = Event(w) /\ Logged(Event(w))'
    <3>1. PICK e : e = Event(w)
      OBVIOUS
    <3> QED  BY <1>1, <1>14, <3>1 DEF Logged, Event
  <2> QED  BY <1>1, <1>2, <2>1 DEF WriterOK, Holding
<1>18. ASSUME NEW v \in Writers \ {w} PROVE WriterOK(v)'
  <2>1. \A e : Logged(e)' => Logged(e) \/ e = Event(w)
    BY <1>14
  <2> QED  BY <1>1, <1>2, <2>1, OtherKeeps
<1>19. TornOK' /\ GivenUp
  <2>1. ASSUME NEW e, Dead(e) PROVE Dead(e)'
    BY <1>1, <1>2, <1>14, <2>1, DeadKept
  <2>2. Len(file') = 2 * m /\ 2 * m - 1 = 2 * n + 1 /\ 2 * n + 1 <= Len(file')
    <3>1. file \in Seq(Pieces) /\ Len(file) = 2 * n + 1
      BY <1>1, <1>4 DEF TypeOK
    <3>2. Len(file') = Len(file) + 1
      BY <1>1, <3>1
    <3> QED  BY <1>5, <3>1, <3>2
  <2>3. file'[2 * n + 1] = file[2 * n + 1]
    BY <1>1, <1>4, <1>6, <2>2
  <2>4. GivenUp
    BY <1>4, <2>1, <2>2, <2>3 DEF GivenUp
  <2>5. TornOK'
    BY <1>7, <2>2 DEF TornOK
  <2> QED  BY <2>4, <2>5
<1>20. \A r \in Clients : ClientOK(r)'
  BY <1>1, <1>12, <1>13, <1>19, ClientKept
<1> QED  BY <1>12, <1>13, <1>15, <1>16, <1>17, <1>18, <1>19, <1>20 DEF LogInv

(* A write that returns has its record.                                    *)
LEMMA ReturnKeeps == ASSUME LogInv, NEW w \in Writers, Return(w) PROVE LogInv' /\ Kept
<1>1. /\ TypeOK /\ FileOK /\ EventsOK /\ TornOK /\ WriterOK(w) /\ pc[w] = "unlock" /\ lock = w
      /\ lock' = NoWriter /\ file' = file /\ UNCHANGED reading /\ done' = done \cup {Event(w)}
      /\ local' = local /\ count' = count /\ pc' = [pc EXCEPT ![w] = "idle"]
      /\ seq' = seq /\ valid' = valid /\ NoWriter \notin Writers
  BY LogWritersAssumption DEF LogInv, Return, Goto, WriterOK, Holding
<1>2. pc'[w] = "idle" /\ \A v \in Writers \ {w} : pc'[v] = pc[v]
  BY <1>1 DEF TypeOK
<1>3. Event(w) \in Events /\ Logged(Event(w))
  BY <1>1, EventType DEF WriterOK
<1>4. TypeOK'
  BY <1>1, <1>3 DEF TypeOK, reading
<1>5. Lines' = Lines /\ FileOK' /\ Kept /\ \A e : Logged(e)' <=> Logged(e)
  BY <1>1, SameFile
<1>6. EventsOK'
  BY <1>1, <1>3, <1>5 DEF EventsOK
<1>7. WriterOK(w)'
  BY <1>1, <1>2 DEF WriterOK, Holding
<1>8. ASSUME NEW v \in Writers \ {w} PROVE WriterOK(v)'
  BY <1>1, <1>2, <1>5, OtherKeeps
<1>9. TornOK' /\ GivenUp
  <2>1. ASSUME NEW e, Dead(e) PROVE Dead(e)'
    BY <1>1, <1>2, <1>5, <2>1, DeadKept
  <2> QED  BY <1>1, <1>2, <2>1, TornStill
<1>10. \A r \in Clients : ClientOK(r)'
  BY <1>1, <1>5, <1>9, ClientKept
<1> QED  BY <1>4, <1>5, <1>6, <1>7, <1>8, <1>9, <1>10 DEF LogInv

(* A write that ends early leaves the file as it is and gives the lock     *)
(* back.                                                                   *)
LEMMA AbandonKeeps == ASSUME LogInv, NEW w \in Writers, Abandon(w) PROVE LogInv' /\ Kept
<1>1. /\ TypeOK /\ FileOK /\ EventsOK /\ TornOK /\ WriterOK(w)
      /\ lock' = (IF lock = w THEN NoWriter ELSE lock) /\ file' = file /\ UNCHANGED reading
      /\ done' = done /\ local' = local /\ count' = count /\ pc' = [pc EXCEPT ![w] = "idle"]
      /\ seq' = seq /\ valid' = valid /\ NoWriter \notin Writers /\ pc[w] # "idle"
  BY LogWritersAssumption DEF LogInv, Abandon, Goto
<1>2. pc'[w] = "idle" /\ \A v \in Writers \ {w} : pc'[v] = pc[v]
  BY <1>1 DEF TypeOK
<1>3. TypeOK'
  BY <1>1 DEF TypeOK, reading
<1>4. Lines' = Lines /\ FileOK' /\ Kept /\ \A e : Logged(e)' <=> Logged(e)
  BY <1>1, SameFile
<1>5. EventsOK'
  BY <1>1, <1>4 DEF EventsOK
<1>6. WriterOK(w)'
  BY <1>1, <1>2 DEF WriterOK, Holding
<1>7. ASSUME NEW v \in Writers \ {w} PROVE WriterOK(v)'
  <2>1. WriterOK(v)
    BY DEF LogInv
  <2> QED  BY <1>1, <1>2, <2>1, StillKeeps
<1>8. TornOK' /\ GivenUp
  <2>1. ASSUME NEW e, Dead(e) PROVE Dead(e)'
    BY <1>1, <1>2, <1>4, <2>1, DeadKept
  <2>2. ASSUME pc[w] = "end" PROVE \E e : e = Event(w) /\ Dead(e)'
    <3>1. PICK e : e = Event(w)
      OBVIOUS
    <3>2. e \in local' /\ ~Logged(e)'
      BY <1>1, <1>4, <2>2, <3>1 DEF WriterOK
    <3>3. ASSUME NEW v \in Writers, Event(v)' = e PROVE pc'[v] = "idle"
      BY <1>1, <1>2, <3>1, <3>3 DEF Event
    <3> QED  BY <3>1, <3>2, <3>3 DEF Dead
  <2> QED  BY <1>1, <1>2, <2>1, <2>2, TornStill
<1>9. \A r \in Clients : ClientOK(r)'
  BY <1>1, <1>4, <1>8, ClientKept
<1> QED  BY <1>3, <1>4, <1>5, <1>6, <1>7, <1>8, <1>9 DEF LogInv

-----------------------------------------------------------------------------
(* The readers.                                                            *)

(* What follows the first a elements of a sequence.                        *)
LEMMA SuffixOf ==
    ASSUME NEW S, NEW f \in Seq(S), NEW a \in Nat
    PROVE  /\ SubSeq(f, a + 1, Len(f)) \in Seq(S)
           /\ Len(f) <= a => SubSeq(f, a + 1, Len(f)) = <<>>
           /\ a <= Len(f) => Len(SubSeq(f, a + 1, Len(f))) = Len(f) - a
           /\ \A i \in 1..Len(f) - a : SubSeq(f, a + 1, Len(f))[i] = f[a + i]
<1>1. a + 1 \in Int /\ Len(f) \in Int /\ Len(f) \in Nat
  OBVIOUS
<1>2. \A i \in a + 1..Len(f) : f[i] \in S
  OBVIOUS
<1>3. /\ SubSeq(f, a + 1, Len(f)) \in Seq(S)
      /\ Len(SubSeq(f, a + 1, Len(f)))
           = IF a + 1 <= Len(f) THEN Len(f) - (a + 1) + 1 ELSE 0
      /\ \A i \in 1..Len(f) - (a + 1) + 1 :
            SubSeq(f, a + 1, Len(f))[i] = f[(a + 1) + i - 1]
  BY <1>1, <1>2, SubSeqProperties
<1>4. ASSUME Len(f) <= a PROVE SubSeq(f, a + 1, Len(f)) = <<>>
  <2>1. Len(f) < a + 1
    BY <1>1, <1>4
  <2> QED  BY <1>1, <2>1, SubSeqEmpty
<1>5. ASSUME NEW i \in 1..Len(f) - a PROVE SubSeq(f, a + 1, Len(f))[i] = f[a + i]
  <2>1. i \in 1..Len(f) - (a + 1) + 1 /\ (a + 1) + i - 1 = a + i
    BY <1>1
  <2> QED  BY <1>3, <2>1
<1>6. ASSUME a <= Len(f) PROVE Len(SubSeq(f, a + 1, Len(f))) = Len(f) - a
  <2>1. PICK x : x = Len(SubSeq(f, a + 1, Len(f)))
    OBVIOUS
  <2>2. x = IF a + 1 <= Len(f) THEN Len(f) - (a + 1) + 1 ELSE 0
    BY <1>3, <2>1
  <2>3. x = Len(f) - a
    BY <1>1, <1>6, <2>2
  <2> QED  BY <2>1, <2>3
<1> QED  BY <1>3, <1>4, <1>5, <1>6

(* What follows the first q lines of a file.                               *)
LEMMA SuffixPaired ==
    ASSUME NEW f, NEW n, Paired(f, n), NEW q \in 0..n
    PROVE  /\ Paired(SubSeq(f, 2 * q + 1, Len(f)), n - q)
           /\ n - q \in 0..Len(SubSeq(f, 2 * q + 1, Len(f)))
           /\ \A i \in 1..2 * (n - q) : SubSeq(f, 2 * q + 1, Len(f))[i] = f[2 * q + i]
<1> DEFINE g == SubSeq(f, 2 * q + 1, Len(f))
           m == n - q
<1>1. n \in Nat /\ f \in Seq(Pieces) /\ (Len(f) = 2 * n \/ Len(f) = 2 * n + 1) /\ Len(f) \in Nat
  BY DEF Paired
<1>2. m \in Nat /\ q \in Nat /\ n = q + m
  BY <1>1
<1>3. /\ g \in Seq(Pieces) /\ Len(g) = Len(f) - 2 * q
      /\ \A i \in 1..Len(f) - 2 * q : g[i] = f[2 * q + i]
  <2>1. 2 * q \in Nat /\ 2 * q <= Len(f)
    BY <1>1, <1>2
  <2> QED  BY <1>1, <2>1, SuffixOf
<1> HIDE DEF g, m
<1>4. Len(g) = 2 * m \/ Len(g) = 2 * m + 1
  BY <1>1, <1>2, <1>3
<1>5. ASSUME NEW k \in 1..m PROVE g[2 * k - 1].part = "begin" /\ g[2 * k].part = "end"
  <2>1. PICK j \in 1..n : j = q + k
    BY <1>1, <1>2
  <2>2. /\ 2 * k - 1 \in 1..Len(f) - 2 * q /\ 2 * k \in 1..Len(f) - 2 * q
        /\ 2 * q + (2 * k - 1) = 2 * j - 1 /\ 2 * q + 2 * k = 2 * j
    BY <1>1, <1>2, <2>1
  <2>3. f[2 * j - 1].part = "begin" /\ f[2 * j].part = "end"
    BY DEF Paired
  <2>4. g[2 * k - 1] = f[2 * j - 1] /\ g[2 * k] = f[2 * j]
    BY <1>3, <2>2
  <2> QED  BY <2>3, <2>4
<1>6. Len(g) = 2 * m + 1 => g[2 * m + 1].part = "begin"
  <2>1. SUFFICES ASSUME Len(g) = 2 * m + 1 PROVE g[2 * m + 1].part = "begin"
    OBVIOUS
  <2>2. Len(f) = 2 * n + 1 /\ 2 * q + (2 * m + 1) = 2 * n + 1 /\ 2 * m + 1 \in 1..Len(f) - 2 * q
    BY <1>1, <1>2, <1>3, <2>1
  <2>3. f[2 * n + 1].part = "begin"
    BY <2>2 DEF Paired
  <2> QED  BY <1>3, <2>2, <2>3
<1>7. Paired(g, m)
  BY <1>2, <1>3, <1>4, <1>5, <1>6 DEF Paired
<1>8. m \in 0..Len(g) /\ \A i \in 1..2 * m : g[i] = f[2 * q + i]
  BY <1>1, <1>2, <1>3, <1>4
<1> QED  BY <1>7, <1>8 DEF g, m

(* A second read call that goes on where the first one ended gives what    *)
(* one call would have given.                                              *)
LEMMA Straight ==
    ASSUME NEW S, NEW f \in Seq(S), NEW a \in Nat, NEW g \in Seq(S),
           a + Len(g) <= Len(f), \A i \in 1..Len(g) : g[i] = f[a + i]
    PROVE  g \o SubSeq(f, a + Len(g) + 1, Len(f)) = SubSeq(f, a + 1, Len(f))
<1> DEFINE t == SubSeq(f, a + Len(g) + 1, Len(f))
           u == SubSeq(f, a + 1, Len(f))
<1>1. PICK d, m \in Nat : d = Len(g) /\ m = Len(f)
  OBVIOUS
<1>2. a <= m /\ a + d \in Nat /\ a + d <= m
  BY <1>1
<1>3. u \in Seq(S) /\ Len(u) = m - a /\ \A i \in 1..m - a : u[i] = f[a + i]
  BY <1>1, <1>2, SuffixOf
<1>4. /\ t \in Seq(S) /\ Len(t) = m - (a + d)
      /\ \A i \in 1..m - (a + d) : t[i] = f[(a + d) + i]
  <2>1. PICK c \in Nat : c = a + d
    BY <1>2
  <2>2. t = SubSeq(f, c + 1, Len(f)) /\ c <= Len(f)
    BY <1>1, <1>2, <2>1
  <2>3. /\ SubSeq(f, c + 1, Len(f)) \in Seq(S) /\ Len(SubSeq(f, c + 1, Len(f))) = Len(f) - c
        /\ \A i \in 1..Len(f) - c : SubSeq(f, c + 1, Len(f))[i] = f[c + i]
    BY <2>2, SuffixOf
  <2> HIDE DEF t
  <2> QED  BY <1>1, <2>1, <2>2, <2>3
<1> HIDE DEF t, u
<1>5. /\ g \o t \in Seq(S) /\ Len(g \o t) = m - a
      /\ \A i \in 1..m - a : (g \o t)[i] = IF i <= d THEN g[i] ELSE t[i - d]
  <2>1. /\ g \o t \in Seq(S) /\ Len(g \o t) = Len(g) + Len(t)
        /\ \A i \in 1..Len(g) + Len(t) : (g \o t)[i] = IF i <= Len(g) THEN g[i] ELSE t[i - Len(g)]
    <3>1. PICK y \in Seq(S) : y = t
      BY <1>4
    <3>2. /\ g \o y \in Seq(S) /\ Len(g \o y) = Len(g) + Len(y)
          /\ \A i \in 1..Len(g) + Len(y) : (g \o y)[i] = IF i <= Len(g) THEN g[i] ELSE y[i - Len(g)]
      BY ConcatProperties
    <3> QED  BY <3>1, <3>2
  <2>2. Len(g) + Len(t) = m - a
    BY <1>1, <1>2, <1>4
  <2> QED  BY <1>1, <2>1, <2>2
<1>6. ASSUME NEW i \in 1..m - a PROVE (g \o t)[i] = u[i]
  <2>1. CASE i <= d
    <3>1. i \in 1..Len(g)
      BY <1>1, <2>1
    <3> QED  BY <1>3, <1>5, <2>1, <3>1
  <2>2. CASE ~(i <= d)
    <3>1. PICK j \in 1..m - (a + d) : j = i - d
      <4>1. i - d \in 1..m - (a + d)
        BY <1>2, <2>2
      <4> QED  BY <4>1
    <3>2. (a + d) + j = a + i
      BY <1>1, <1>2, <3>1
    <3> QED  BY <1>3, <1>4, <1>5, <2>2, <3>1, <3>2
  <2> QED  BY <2>1, <2>2
<1>7. g \o t = u
  <2>1. Len(g \o t) = Len(u)
    BY <1>3, <1>5
  <2>2. \A i \in 1..Len(g \o t) : (g \o t)[i] = u[i]
    BY <1>5, <1>6
  <2> QED  BY <1>3, <1>5, <2>1, <2>2, SeqEqual
<1> QED  BY <1>7 DEF t, u

(* One that goes on at the end of a later line, behind a torn line that    *)
(* is no longer there, gives lines of two pieces again.                    *)
Spliced(b, f, x) == b \o SubSeq(f, 2 * x, Len(f))

SplicedLines(g, m, b, h, f, x) ==
    /\ Paired(g, m) /\ m \in Nat /\ h < m
    /\ \A i \in 1..2 * h + 1 : g[i] = b[i]
    /\ \A k \in h + 1..m : g[2 * k] = f[2 * (x + k - (h + 1))]
    /\ \A k \in h + 2..m : g[2 * k - 1] = f[2 * (x + k - (h + 1)) - 1]

LEMMA SplicePaired ==
    ASSUME NEW f, NEW n, Paired(f, n), NEW b, NEW h, Paired(b, h), Len(b) = 2 * h + 1,
           NEW x \in 1..n, NEW m, m = h + 1 + n - x, NEW g, g = Spliced(b, f, x)
    PROVE  SplicedLines(g, m, b, h, f, x)
<1>1. /\ n \in Nat /\ f \in Seq(Pieces) /\ (Len(f) = 2 * n \/ Len(f) = 2 * n + 1) /\ Len(f) \in Nat
      /\ h \in Nat /\ b \in Seq(Pieces) /\ x \in Nat
  BY DEF Paired
<1>2. PICK a, l \in Nat : a = 2 * x - 1 /\ l = Len(f)
  <2>1. 2 * x - 1 \in Nat
    BY <1>1
  <2> QED  BY <1>1, <2>1
<1>3. PICK t : t = SubSeq(f, 2 * x, Len(f))
  OBVIOUS
<1>4. t \in Seq(Pieces) /\ Len(t) = l - a /\ \A i \in 1..l - a : t[i] = f[a + i]
  <2>1. t = SubSeq(f, a + 1, Len(f)) /\ a <= Len(f)
    BY <1>1, <1>2, <1>3
  <2> QED  BY <1>1, <1>2, <2>1, SuffixOf
<1>5. g \in Seq(Pieces) /\ Len(g) = Len(b) + Len(t)
      /\ \A i \in 1..Len(b) + Len(t) : g[i] = IF i <= Len(b) THEN b[i] ELSE t[i - Len(b)]
  BY <1>1, <1>3, <1>4, ConcatProperties DEF Spliced
<1>6. /\ m \in Nat /\ h < m /\ (Len(g) = 2 * m \/ Len(g) = 2 * m + 1)
      /\ Len(g) = 2 * m + 1 => l = 2 * n + 1
      /\ Len(g) = 2 * h + 1 + (l - a) /\ 2 * h + 1 <= Len(g)
  <2>1. Len(g) = 2 * h + 1 + (l - a)
    BY <1>4, <1>5
  <2>2. m \in Nat /\ h < m
    BY <1>1
  <2>3. (l = 2 * n \/ l = 2 * n + 1) /\ a = 2 * x - 1 /\ m = h + 1 + n - x
    BY <1>1, <1>2
  <2> HIDE DEF Paired
  <2>4. l - a = 2 * (n - x) + 1 \/ l - a = 2 * (n - x) + 2
    BY <1>1, <2>3
  <2>5. Len(g) = 2 * m \/ Len(g) = 2 * m + 1
    BY <1>1, <2>1, <2>3, <2>4
  <2>6. Len(g) = 2 * m + 1 => l = 2 * n + 1
    BY <1>1, <2>1, <2>3
  <2>7. 2 * h + 1 <= Len(g)
    BY <1>1, <2>1, <2>4
  <2> QED  BY <2>1, <2>2, <2>5, <2>6, <2>7
<1>7. \A i \in 1..2 * h + 1 : g[i] = b[i]
  BY <1>1, <1>4, <1>5, <1>6
<1>8. ASSUME NEW i \in 2 * h + 2..Len(g) PROVE g[i] = f[2 * x - 1 + i - (2 * h + 1)]
  <2>1. PICK j \in 1..l - a : j = i - (2 * h + 1)
    BY <1>1, <1>2, <1>6
  <2>2. i \in 1..Len(b) + Len(t) /\ ~(i <= Len(b)) /\ i - Len(b) = j
    BY <1>1, <1>4, <1>5, <1>6, <2>1
  <2>3. g[i] = t[j]
    BY <1>5, <2>2
  <2>4. a + j = 2 * x - 1 + i - (2 * h + 1)
    BY <1>1, <1>2, <2>1
  <2> QED  BY <1>4, <2>1, <2>3, <2>4
<1>9. ASSUME NEW k \in h + 1..m
      PROVE  g[2 * k] = f[2 * (x + k - (h + 1))] /\ x + k - (h + 1) \in 1..n
  <2>1. 2 * k \in 2 * h + 2..Len(g) /\ x + k - (h + 1) \in 1..n
    BY <1>1, <1>6
  <2>2. 2 * x - 1 + 2 * k - (2 * h + 1) = 2 * (x + k - (h + 1))
    BY <1>1, <1>6
  <2> QED  BY <1>8, <2>1, <2>2
<1>10. ASSUME NEW k \in h + 2..m PROVE g[2 * k - 1] = f[2 * (x + k - (h + 1)) - 1]
  <2>1. 2 * k - 1 \in 2 * h + 2..Len(g)
    BY <1>1, <1>6
  <2>2. 2 * x - 1 + (2 * k - 1) - (2 * h + 1) = 2 * (x + k - (h + 1)) - 1
    BY <1>1, <1>6
  <2> QED  BY <1>8, <2>1, <2>2
<1>11. ASSUME NEW k \in 1..m PROVE g[2 * k - 1].part = "begin" /\ g[2 * k].part = "end"
  <2>1. CASE k <= h
    <3>1. k \in 1..h /\ 2 * k - 1 \in 1..2 * h + 1 /\ 2 * k \in 1..2 * h + 1
      BY <1>1, <2>1
    <3>2. b[2 * k - 1].part = "begin" /\ b[2 * k].part = "end"
      BY <3>1 DEF Paired
    <3> QED  BY <1>7, <3>1, <3>2
  <2>2. CASE ~(k <= h)
    <3>1. k \in h + 1..m
      BY <1>1, <1>6, <2>2
    <3>2. PICK j \in 1..n : j = x + k - (h + 1)
      BY <1>9, <3>1
    <3>3. f[2 * j - 1].part = "begin" /\ f[2 * j].part = "end"
      BY DEF Paired
    <3>4. g[2 * k].part = "end"
      BY <1>9, <3>1, <3>2, <3>3
    <3>5. CASE k = h + 1
      <4>1. 2 * k - 1 = 2 * h + 1 /\ 2 * h + 1 \in 1..2 * h + 1 /\ b[2 * h + 1].part = "begin"
        BY <1>1, <3>5 DEF Paired
      <4> QED  BY <1>7, <3>4, <4>1
    <3>6. CASE k # h + 1
      <4>1. k \in h + 2..m
        BY <1>1, <1>6, <3>1, <3>6
      <4> QED  BY <1>10, <3>2, <3>3, <3>4, <4>1
    <3> QED  BY <3>5, <3>6
  <2> QED  BY <2>1, <2>2
<1>12. ASSUME Len(g) = 2 * m + 1 PROVE g[2 * m + 1].part = "begin"
  <2>1. 2 * m + 1 \in 2 * h + 2..Len(g) /\ Len(f) = 2 * n + 1
    BY <1>1, <1>2, <1>6, <1>12
  <2>2. 2 * x - 1 + (2 * m + 1) - (2 * h + 1) = 2 * n + 1
    BY <1>1, <1>6
  <2>3. f[2 * n + 1].part = "begin"
    BY <2>1 DEF Paired
  <2> QED  BY <1>8, <2>1, <2>2, <2>3
<1>13. Paired(g, m)
  BY <1>5, <1>6, <1>11, <1>12 DEF Paired
<1> QED  BY <1>6, <1>7, <1>9, <1>10, <1>13 DEF SplicedLines

(* A client that does nothing, while the file does not change.             *)
LEMMA ClientSame ==
    ASSUME NEW r, ClientOK(r), UNCHANGED <<file, local, pc, count>>,
           UNCHANGED <<cursor[r], seen[r], buffer[r], base[r], mode[r]>>
    PROVE  ClientOK(r)'
<1>1. Lines' = Lines /\ \A e : Dead(e)' <=> Dead(e)
  BY DEF Lines, Dead, Logged, Event
<1>2. \A e : Logged(e)' <=> Logged(e)
  BY <1>1 DEF Logged
<1>3. ASSUME NEW k \in 1..Len(seen[r]) PROVE LineOK(k, seen[r][k])'
  <2>1. PICK x : x = seen[r][k]
    OBVIOUS
  <2>2. LineOK(k, x)
    BY <2>1 DEF ClientOK
  <2>3. LineOK(k, x)'
    BY <1>1, <1>2, <2>2 DEF LineOK
  <2> QED  BY <2>1, <2>3 DEF LineOK, Dead, Logged, Event
<1>4. Placed(cursor[r].offset, seen[r])'
  BY <1>1 DEF ClientOK, Placed, Mixed
<1>5. ASSUME mode[r] = "follow" PROVE Fits(r)' /\ base[r] = Cursor(r).offset
  <2>1. PICK b, h \in Nat : FitsAt(r, b, h)
    BY <1>5 DEF ClientOK, Fits
  <2>2. FitsAt(r, b, h)'
    BY <1>1, <2>1 DEF FitsAt, Dead, Logged, Event, Paired
  <2> QED  BY <1>5, <2>2 DEF Fits, ClientOK
<1> QED  BY <1>3, <1>4, <1>5 DEF ClientOK, Cursor

(* A step of a client r leaves everything but r's own reading alone.       *)
LEMMA ClientStep ==
    ASSUME LogInv, NEW r \in Clients, UNCHANGED <<file, lock, local, done, writing>>,
           TypeOK', ClientOK(r)',
           \A s \in Clients \ {r} :
             UNCHANGED <<cursor[s], seen[s], buffer[s], base[s], mode[s]>>
    PROVE  LogInv' /\ Kept
<1>1. /\ FileOK /\ EventsOK /\ TornOK /\ file' = file /\ lock' = lock /\ local' = local /\ done' = done
      /\ count' = count /\ pc' = pc /\ seq' = seq /\ valid' = valid
  BY DEF LogInv, writing
<1>2. Lines' = Lines /\ FileOK' /\ Kept /\ \A e : Logged(e)' <=> Logged(e)
  BY <1>1, SameFile
<1>3. EventsOK'
  BY <1>1, <1>2 DEF EventsOK
<1>4. ASSUME NEW v \in Writers PROVE WriterOK(v)'
  <2>1. WriterOK(v)
    BY DEF LogInv
  <2> QED  BY <1>1, <2>1, StillKeeps
<1>5. ASSUME NEW s \in Clients PROVE ClientOK(s)'
  <2>1. CASE s = r
    BY <2>1
  <2>2. CASE s # r
    <3>1. ClientOK(s)
      BY DEF LogInv
    <3> QED  BY <1>1, <2>2, <3>1, ClientSame
  <2> QED  BY <2>1, <2>2
<1>6. TornOK'
  <2>1. \A e : Dead(e) => Dead(e)'
    BY <1>1, <1>2 DEF Dead, Event
  <2> QED  BY <1>1, <2>1, TornStill
<1> QED  BY <1>2, <1>3, <1>4, <1>5, <1>6 DEF LogInv

(* The state of a client, and the cursor and records it goes on from.      *)
LEMMA ClientTypes ==
    ASSUME LogInv, NEW r \in Clients
    PROVE  /\ Lines \in Nat /\ file \in Seq(Pieces) /\ Paired(file, Lines) /\ ClientOK(r)
           /\ seen[r] \in Seq(Events \X Events)
           /\ cursor[r] \in [offset : Nat, sequence : Nat, anchor : BOOLEAN]
           /\ Derived(r) \in Seq(Events \X Events)
           /\ Cursor(r).sequence = Len(Derived(r))
           /\ Placed(Cursor(r).offset, Derived(r))
           /\ \A k \in 1..Len(Derived(r)) : LineOK(k, Derived(r)[k])
<1>1. TypeOK /\ FileOK /\ ClientOK(r)
  BY DEF LogInv
<1>2. Lines \in Nat /\ file \in Seq(Pieces) /\ Paired(file, Lines)
  BY <1>1, LinesType DEF FileOK
<1>3. /\ cursor[r] \in [offset : Nat, sequence : Nat, anchor : BOOLEAN]
      /\ seen[r] \in Seq(Events \X Events)
  BY <1>1 DEF TypeOK
<1>4. CASE cursor[r].anchor
  <2>1. Cursor(r) = cursor[r] /\ Derived(r) = seen[r]
    BY <1>4 DEF Cursor, Derived
  <2> QED  BY <1>1, <1>2, <1>3, <2>1 DEF ClientOK
<1>5. CASE ~cursor[r].anchor
  <2>1. Cursor(r) = NoCursor /\ Derived(r) = <<>>
    BY <1>5 DEF Cursor, Derived
  <2>2. Cursor(r).offset = 0 /\ Cursor(r).sequence = 0 /\ Len(Derived(r)) = 0
    BY <2>1 DEF NoCursor
  <2>3. Derived(r) \in Seq(Events \X Events)
    BY <2>1
  <2>4. Placed(Cursor(r).offset, Derived(r))
    <3>1. 0 \in 0..Lines /\ 0 = 2 * 0
      BY <1>2
    <3> QED  BY <2>2, <3>1 DEF Placed
  <2>5. \A k \in 1..Len(Derived(r)) : LineOK(k, Derived(r)[k])
    BY <2>2
  <2> QED  BY <1>1, <1>2, <1>3, <2>2, <2>3, <2>4, <2>5
<1> QED  BY <1>4, <1>5

(* The first read call of a page gives lines of the file.                  *)
LEMMA BeginFollowKeeps ==
    ASSUME LogInv, NEW r \in Clients, BeginFollow(r) PROVE LogInv' /\ Kept
<1>1. /\ TypeOK /\ UNCHANGED <<file, lock, local, done, writing>> /\ cursor' = cursor /\ seen' = seen
      /\ mode' = [mode EXCEPT ![r] = "follow"]
      /\ base' = [base EXCEPT ![r] = Cursor(r).offset]
      /\ buffer' = [buffer EXCEPT ![r] = SubSeq(file, Cursor(r).offset + 1, Len(file))]
  BY DEF LogInv, BeginFollow
<1>2. PICK l \in Nat : l = Lines
  BY ClientTypes
<1>3. PICK q \in 0..l : Cursor(r).offset = 2 * q
  <2>1. Derived(r) \in Seq(Events \X Events) /\ Placed(Cursor(r).offset, Derived(r))
    BY ClientTypes
  <2>2. PICK q \in Len(Derived(r))..Lines : Cursor(r).offset = 2 * q
    BY <2>1 DEF Placed
  <2>3. q \in 0..l
    BY <1>2, <2>1
  <2> QED  BY <2>2, <2>3
<1>4. PICK g : g = SubSeq(file, 2 * q + 1, Len(file))
  OBVIOUS
<1>5. PICK h \in Nat : h = l - q
  OBVIOUS
<1>6. /\ Paired(g, h) /\ \A i \in 1..2 * h : g[i] = file[2 * q + i]
  <2>1. Paired(file, l)
    BY <1>2, ClientTypes
  <2> QED  BY <1>4, <1>5, <2>1, SuffixPaired, Zenon
<1>7. ASSUME Len(g) = 2 * h + 1
      PROVE  2 * q + 2 * h + 1 <= Len(file) /\ file[2 * q + 2 * h + 1] = g[2 * h + 1]
  <2>1. file \in Seq(Pieces) /\ 2 * l <= Len(file) /\ Len(file) \in Nat
    BY <1>2, ClientTypes DEF Paired
  <2>2. PICK a \in Nat : a = 2 * q
    OBVIOUS
  <2>3. g = SubSeq(file, a + 1, Len(file)) /\ a <= Len(file)
    BY <1>4, <1>5, <2>1, <2>2
  <2>4. Len(g) = Len(file) - a /\ \A i \in 1..Len(file) - a : g[i] = file[a + i]
    BY <2>1, <2>3, SuffixOf
  <2>5. 2 * h + 1 \in 1..Len(file) - a /\ a + (2 * h + 1) = 2 * q + 2 * h + 1
    BY <1>7, <2>1, <2>2, <2>4
  <2> QED  BY <2>1, <2>2, <2>4, <2>5
<1>8. g \in Seq(Pieces)
  BY <1>6 DEF Paired
<1>9. buffer' = [buffer EXCEPT ![r] = g] /\ base' = [base EXCEPT ![r] = 2 * q]
  BY <1>1, <1>3, <1>4
<1>10. /\ mode'[r] = "follow" /\ base'[r] = 2 * q /\ buffer'[r] = g
       /\ \A s \in Clients \ {r} : UNCHANGED <<cursor[s], seen[s], buffer[s], base[s], mode[s]>>
  BY <1>1, <1>9 DEF TypeOK
<1>11. TypeOK'
  <2>1. mode' \in [Clients -> {"idle", "follow", "read", "raised"}]
    BY <1>1 DEF TypeOK
  <2>2. base' \in [Clients -> Nat]
    BY <1>1, <1>9 DEF TypeOK
  <2>3. buffer' \in [Clients -> Seq(Pieces)]
    BY <1>1, <1>8, <1>9 DEF TypeOK
  <2> QED  BY <1>1, <2>1, <2>2, <2>3 DEF TypeOK, writing
<1>12. ClientOK(r)'
  <2>1. Lines' = l /\ file' = file /\ \A e : Dead(e)' <=> Dead(e)
    BY <1>1, <1>2 DEF Lines, Dead, Logged, Event, writing
  <2>2. FitsAt(r, q, h)'
    <3>1. q + h <= l /\ q \in Nat
      BY <1>5
    <3> QED  BY <1>6, <1>7, <1>10, <2>1, <3>1 DEF FitsAt
  <2>3. Fits(r)'
    BY <2>2 DEF Fits
  <2>4. /\ Len(seen[r]) = cursor[r].sequence /\ Placed(cursor[r].offset, seen[r])'
        /\ \A k \in 1..Len(seen[r]) : LineOK(k, seen[r][k])'
    <3>1. ClientOK(r)
      BY ClientTypes
    <3>2. Placed(cursor[r].offset, seen[r])'
      BY <1>1, <1>2, <2>1, <3>1 DEF ClientOK, Placed, Mixed
    <3>3. ASSUME NEW k \in 1..Len(seen[r]) PROVE LineOK(k, seen[r][k])'
      <4>1. PICK x : x = seen[r][k]
        OBVIOUS
      <4>2. LineOK(k, x)
        BY <3>1, <4>1 DEF ClientOK
      <4>3. LineOK(k, x)'
        BY <1>1, <1>2, <2>1, <4>2 DEF LineOK, Logged
      <4> QED  BY <1>1, <4>1, <4>3 DEF LineOK, Dead, Logged, Event
    <3> QED  BY <3>1, <3>2, <3>3 DEF ClientOK
  <2>5. Cursor(r)' = Cursor(r) /\ seen'[r] = seen[r] /\ cursor'[r] = cursor[r]
    BY <1>1 DEF Cursor
  <2> QED  BY <1>3, <1>10, <2>3, <2>4, <2>5 DEF ClientOK
<1> QED  BY <1>1, <1>10, <1>11, <1>12, ClientStep

(* A client that is not in follow, with the cursor and records it had.     *)
LEMMA ClientRests ==
    ASSUME LogInv, NEW r \in Clients, UNCHANGED <<file, local, pc, count>>,
           UNCHANGED <<cursor[r], seen[r]>>, mode'[r] # "follow"
    PROVE  ClientOK(r)'
<1>1. Lines' = Lines /\ \A e : (Dead(e)' <=> Dead(e)) /\ (Logged(e)' <=> Logged(e))
  BY DEF Lines, Dead, Logged, Event
<1>2. ClientOK(r)
  BY DEF LogInv
<1>3. Placed(cursor[r].offset, seen[r])'
  BY <1>1, <1>2 DEF ClientOK, Placed, Mixed
<1>4. ASSUME NEW k \in 1..Len(seen[r]) PROVE LineOK(k, seen[r][k])'
  <2>1. PICK x : x = seen[r][k]
    OBVIOUS
  <2>2. LineOK(k, x)
    BY <1>2, <2>1 DEF ClientOK
  <2>3. LineOK(k, x)'
    BY <1>1, <2>2 DEF LineOK
  <2> QED  BY <2>1, <2>3 DEF LineOK, Dead, Logged, Event
<1> QED  BY <1>2, <1>3, <1>4 DEF ClientOK

(* A read of the whole file leaves the cursor alone.                       *)
LEMMA BeginReadKeeps ==
    ASSUME LogInv, NEW r \in Clients, BeginRead(r) PROVE LogInv' /\ Kept
<1>1. /\ TypeOK /\ UNCHANGED <<file, lock, local, done, writing>> /\ cursor' = cursor /\ seen' = seen
      /\ mode' = [mode EXCEPT ![r] = "read"] /\ base' = [base EXCEPT ![r] = 0]
      /\ buffer' = [buffer EXCEPT ![r] = file]
  BY DEF LogInv, BeginRead
<1>2. /\ mode'[r] = "read"
      /\ \A s \in Clients \ {r} : UNCHANGED <<cursor[s], seen[s], buffer[s], base[s], mode[s]>>
  BY <1>1 DEF TypeOK
<1>3. TypeOK'
  BY <1>1 DEF TypeOK, writing
<1>4. ClientOK(r)'
  BY <1>1, <1>2, ClientRests DEF writing
<1> QED  BY <1>1, <1>2, <1>3, <1>4, ClientStep

LEMMA EndReadKeeps ==
    ASSUME LogInv, NEW r \in Clients, EndRead(r) PROVE LogInv' /\ Kept
<1>1. /\ TypeOK /\ UNCHANGED <<file, lock, local, done, writing>> /\ cursor' = cursor /\ seen' = seen
      /\ base' = [base EXCEPT ![r] = 0] /\ buffer' = [buffer EXCEPT ![r] = <<>>]
  BY DEF LogInv, EndRead
<1>2. PICK x \in {"idle", "raised"} : mode' = [mode EXCEPT ![r] = x]
  BY DEF EndRead
<1>3. /\ mode'[r] = x
      /\ \A s \in Clients \ {r} : UNCHANGED <<cursor[s], seen[s], buffer[s], base[s], mode[s]>>
  BY <1>1, <1>2 DEF TypeOK
<1>4. TypeOK'
  <2>1. mode' \in [Clients -> {"idle", "follow", "read", "raised"}]
    BY <1>1, <1>2 DEF TypeOK
  <2>2. base' \in [Clients -> Nat] /\ buffer' \in [Clients -> Seq(Pieces)]
    BY <1>1 DEF TypeOK
  <2> QED  BY <1>1, <2>1, <2>2 DEF TypeOK, writing
<1>5. ClientOK(r)'
  BY <1>1, <1>3, ClientRests DEF writing
<1> QED  BY <1>1, <1>3, <1>4, <1>5, ClientStep

(* The m lines of a page behind b lines of the file: the first h are the   *)
(* next ones of the file; the one after them, if there is one, begins with *)
(* an event that was given up and ends as a line of the file does, from    *)
(* which it goes on.                                                       *)
PageShape(p, b, h, g, m) ==
    /\ Paired(p, m) /\ h <= m
    /\ \A k \in 1..h :
        p[2 * k - 1] = file[2 * (b + k) - 1] /\ p[2 * k] = file[2 * (b + k)] /\ b + k <= Lines
    /\ \A k \in h + 1..m : p[2 * k] = file[2 * (b + g + k)] /\ b + g + k <= Lines
    /\ \A k \in h + 2..m : p[2 * k - 1] = file[2 * (b + g + k) - 1]
    /\ m > h => Dead(p[2 * h + 1].ev)

(* The offset in the file after c lines of the page.                       *)
OffsetAfter(r, p, c) ==
    IF 2 * c <= Len(buffer[r]) THEN base[r] + 2 * c ELSE p - 1 + 2 * c - Len(buffer[r])

(* Every page has that shape.                                              *)
LEMMA PageLines ==
    ASSUME LogInv, NEW r \in Clients, NEW b \in Nat, NEW h \in Nat, FitsAt(r, b, h),
           NEW p \in Resume(r)
    PROVE  \E i, g, m \in Nat :
             /\ PageShape(Page(r, p), b, i, g, m)
             /\ \A c \in 0..m :
                  OffsetAfter(r, p, c) = IF c <= i THEN 2 * (b + c) ELSE 2 * (b + g + c)
<1>1. PICK l, n \in Nat : l = Lines /\ n = Len(buffer[r])
  <2>1. Lines \in Nat
    BY ClientTypes
  <2>2. buffer[r] \in Seq(Pieces)
    BY DEF LogInv, TypeOK
  <2>3. Len(buffer[r]) \in Nat
    BY <2>2
  <2> QED  BY <2>1, <2>3
<1>2. /\ Paired(file, l) /\ file \in Seq(Pieces) /\ Len(file) \in Nat
      /\ (Len(file) = 2 * l \/ Len(file) = 2 * l + 1)
  BY <1>1, ClientTypes DEF Paired
<1>3. /\ base[r] = 2 * b /\ b + h <= l /\ Paired(buffer[r], h)
      /\ \A i \in 1..2 * h : buffer[r][i] = file[2 * b + i]
      /\ buffer[r] \in Seq(Pieces) /\ (n = 2 * h \/ n = 2 * h + 1)
  BY <1>1 DEF FitsAt, Paired
<1>4. CASE ~Replaced(r)
  <2>1. p = 2 * b + n + 1
    BY <1>1, <1>3, <1>4 DEF Resume
  <2>2. 2 * b + n <= Len(file) /\ \A i \in 1..n : buffer[r][i] = file[2 * b + i]
    <3>1. CASE n = 2 * h
      BY <1>2, <1>3, <3>1
    <3>2. CASE n = 2 * h + 1
      <4>1. buffer[r] # <<>> /\ buffer[r][n].part = "begin"
        <5>1. n # 0
          BY <3>2
        <5>2. buffer[r] # <<>>
          BY <1>1, <5>1
        <5>3. buffer[r][2 * h + 1].part = "begin"
          BY <1>1, <1>3, <3>2 DEF Paired
        <5> QED  BY <3>2, <5>2, <5>3
      <4>2. 2 * b + n <= Len(file) /\ file[2 * b + n] = buffer[r][n]
        BY <1>1, <1>3, <1>4, <4>1 DEF Replaced
      <4>3. ASSUME NEW i \in 1..n PROVE buffer[r][i] = file[2 * b + i]
        <5>1. CASE i \in 1..2 * h
          BY <1>3, <5>1
        <5>2. CASE i = n
          BY <4>2, <5>2
        <5>3. i \in 1..2 * h \/ i = n
          BY <3>2
        <5> QED  BY <5>1, <5>2, <5>3
      <4> QED  BY <4>2, <4>3
    <3> QED  BY <1>3, <3>1, <3>2
  <2>3. Page(r, p) = SubSeq(file, 2 * b + 1, Len(file))
    <3>1. PICK a \in Nat, f \in Seq(Pieces) : a = 2 * b /\ f = buffer[r]
      BY <1>3
    <3>2. f \o SubSeq(file, a + Len(f) + 1, Len(file)) = SubSeq(file, a + 1, Len(file))
      BY <1>1, <1>2, <2>2, <3>1, Straight
    <3> QED  BY <1>1, <2>1, <3>1, <3>2 DEF Page
  <2>4. PICK m \in Nat : m = l - b
    BY <1>3
  <2>5. PICK x : x = Page(r, p)
    OBVIOUS
  <2>6. Paired(x, m) /\ \A i \in 1..2 * m : x[i] = file[2 * b + i]
    <3>1. b \in 0..l
      BY <1>3
    <3>2. PICK y : y = SubSeq(file, 2 * b + 1, Len(file))
      OBVIOUS
    <3>3. Paired(y, l - b) /\ \A i \in 1..2 * (l - b) : y[i] = file[2 * b + i]
      <4>1. Paired(file, l)
        BY <1>2
      <4> HIDE DEF Paired
      <4>2. /\ Paired(SubSeq(file, 2 * b + 1, Len(file)), l - b)
            /\ \A i \in 1..2 * (l - b) : SubSeq(file, 2 * b + 1, Len(file))[i] = file[2 * b + i]
        BY <3>1, <4>1, SuffixPaired
      <4> QED  BY <3>2, <4>2, Zenon
    <3>4. y = x
      BY <2>3, <2>5, <3>2
    <3> QED  BY <2>4, <3>3, <3>4
  <2>7. ASSUME NEW k \in 1..m
        PROVE  /\ x[2 * k - 1] = file[2 * (b + k) - 1] /\ x[2 * k] = file[2 * (b + k)]
               /\ b + k <= l
    <3>1. /\ 2 * k - 1 \in 1..2 * m /\ 2 * k \in 1..2 * m /\ b + k <= l
          /\ 2 * b + (2 * k - 1) = 2 * (b + k) - 1 /\ 2 * b + 2 * k = 2 * (b + k)
      BY <2>4
    <3> QED  BY <2>6, <3>1
  <2>8. PageShape(x, b, m, 0, m)
    BY <1>1, <2>6, <2>7 DEF PageShape
  <2>9. \A c \in 0..m :
          OffsetAfter(r, p, c) = IF c <= m THEN 2 * (b + c) ELSE 2 * (b + 0 + c)
    <3>1. ASSUME NEW c \in 0..m PROVE OffsetAfter(r, p, c) = 2 * (b + c)
      <4>1. OffsetAfter(r, p, c) = IF 2 * c <= n THEN 2 * b + 2 * c ELSE p - 1 + 2 * c - n
        BY <1>1, <1>3 DEF OffsetAfter
      <4>2. p - 1 + 2 * c - n = 2 * b + 2 * c
        BY <2>1
      <4> QED  BY <4>1, <4>2
    <3> QED  BY <3>1
  <2> QED  BY <2>5, <2>8, <2>9
<1>5. CASE Replaced(r)
  <2>1. n # 0 /\ buffer[r][n].part = "begin"
    BY <1>1, <1>3, <1>5 DEF Replaced
  <2>2. n = 2 * h + 1
    <3>1. ASSUME n = 2 * h PROVE FALSE
      <4>1. h \in 1..h
        BY <2>1, <3>1
      <4>2. buffer[r][2 * h].part = "end"
        BY <1>3, <4>1 DEF Paired
      <4> QED  BY <2>1, <3>1, <4>2
    <3> QED  BY <1>3, <3>1
  <2>3. Dead(buffer[r][2 * h + 1].ev)
    BY <1>1, <1>3, <1>5, <2>2 DEF Replaced, FitsAt
  <2>4. ASSUME NEW k \in 1..h
        PROVE  /\ buffer[r][2 * k - 1] = file[2 * (b + k) - 1]
               /\ buffer[r][2 * k] = file[2 * (b + k)] /\ b + k <= l
    <3>1. /\ 2 * k - 1 \in 1..2 * h /\ 2 * k \in 1..2 * h /\ b + k <= l
          /\ 2 * b + (2 * k - 1) = 2 * (b + k) - 1 /\ 2 * b + 2 * k = 2 * (b + k)
      BY <1>3
    <3> QED  BY <1>3, <3>1
  <2>5. CASE p = Len(file) + 1
    <3>1. Page(r, p) = buffer[r]
      <4>1. SubSeq(file, Len(file) + 1, Len(file)) = <<>>
        BY <1>2, SuffixOf
      <4>2. buffer[r] \o <<>> = buffer[r]
        BY <1>3, ConcatEmptySeq
      <4> QED  BY <2>5, <4>1, <4>2 DEF Page
    <3>2. PageShape(Page(r, p), b, h, 0, h)
      BY <1>1, <1>3, <2>4, <3>1 DEF PageShape
    <3>3. \A c \in 0..h :
            OffsetAfter(r, p, c) = IF c <= h THEN 2 * (b + c) ELSE 2 * (b + 0 + c)
      BY <1>1, <1>3, <2>2 DEF OffsetAfter
    <3> QED  BY <3>2, <3>3
  <2>6. CASE p \in Ends(file) /\ p > base[r] + Len(buffer[r])
    <3>1. PICK y \in 1..l : p = 2 * y
      BY <1>2, <2>6, PairedEnds DEF Evens
    <3>2. PICK g \in Nat : b + g + h + 1 = y
      <4>1. y - (b + h + 1) \in Nat /\ b + (y - (b + h + 1)) + h + 1 = y
        BY <1>1, <1>3, <2>2, <2>6, <3>1
      <4> QED  BY <4>1
    <3>3. PICK m : m = h + 1 + l - y
      OBVIOUS
    <3>4. PICK x : x = Page(r, p)
      OBVIOUS
    <3>5. /\ Paired(x, m) /\ m \in Nat /\ h < m
          /\ \A i \in 1..2 * h + 1 : x[i] = buffer[r][i]
          /\ \A k \in h + 1..m : x[2 * k] = file[2 * (y + k - (h + 1))]
          /\ \A k \in h + 2..m : x[2 * k - 1] = file[2 * (y + k - (h + 1)) - 1]
      <4>1. x = Spliced(buffer[r], file, y) /\ Len(buffer[r]) = 2 * h + 1
        BY <1>1, <2>2, <3>1, <3>4 DEF Page, Spliced
      <4>2. Paired(file, l) /\ Paired(buffer[r], h)
        BY <1>2, <1>3
      <4>3. PICK f : f = buffer[r]
        OBVIOUS
      <4>4. x = Spliced(f, file, y) /\ Len(f) = 2 * h + 1 /\ Paired(f, h)
        BY <4>1, <4>2, <4>3
      <4>5. SplicedLines(x, m, f, h, file, y)
        BY <3>3, <4>2, <4>4, SplicePaired
      <4> QED  BY <4>3, <4>5 DEF SplicedLines
    <3>6. ASSUME NEW k \in h + 1..m
          PROVE  y + k - (h + 1) = b + g + k /\ b + g + k <= l
      BY <1>3, <3>2, <3>3, <3>5
    <3>7. ASSUME NEW k \in 1..h
          PROVE  /\ x[2 * k - 1] = file[2 * (b + k) - 1] /\ x[2 * k] = file[2 * (b + k)]
                 /\ b + k <= l
      <4>1. 2 * k - 1 \in 1..2 * h + 1 /\ 2 * k \in 1..2 * h + 1
        OBVIOUS
      <4> QED  BY <2>4, <3>5, <4>1
    <3>8. ASSUME NEW k \in h + 2..m PROVE x[2 * k - 1] = file[2 * (b + g + k) - 1]
      <4>1. k \in h + 1..m
        BY <3>5
      <4> QED  BY <3>5, <3>6, <4>1
    <3>9. \A k \in h + 1..m : x[2 * k] = file[2 * (b + g + k)] /\ b + g + k <= l
      BY <3>5, <3>6
    <3>10. Dead(x[2 * h + 1].ev)
      <4>1. 2 * h + 1 \in 1..2 * h + 1
        OBVIOUS
      <4>2. x[2 * h + 1] = buffer[r][2 * h + 1]
        BY <3>5, <4>1
      <4> QED  BY <2>3, <4>2
    <3>11. PageShape(x, b, h, g, m)
      BY <1>1, <3>5, <3>7, <3>8, <3>9, <3>10 DEF PageShape
    <3>12. \A c \in 0..m :
             OffsetAfter(r, p, c) = IF c <= h THEN 2 * (b + c) ELSE 2 * (b + g + c)
      <4>1. ASSUME NEW c \in 0..m
            PROVE  OffsetAfter(r, p, c) = IF c <= h THEN 2 * (b + c) ELSE 2 * (b + g + c)
        <5>1. OffsetAfter(r, p, c)
                = IF 2 * c <= 2 * h + 1 THEN 2 * b + 2 * c ELSE p - 1 + 2 * c - (2 * h + 1)
          BY <1>1, <1>3, <2>2 DEF OffsetAfter
        <5>2. c \in Nat /\ (2 * c <= 2 * h + 1 <=> c <= h)
          BY <3>5
        <5>3. p - 1 + 2 * c - (2 * h + 1) = 2 * (b + g + c)
          BY <3>1, <3>2, <5>2
        <5> QED  BY <5>1, <5>2, <5>3
      <4> QED  BY <4>1
    <3> QED  BY <3>4, <3>5, <3>11, <3>12
  <2> QED  BY <1>5, <2>5, <2>6 DEF Resume
<1> QED  BY <1>4, <1>5

(* follow takes the first lines of a page, at most MaxPage.                *)
AtMost(n) == IF n < MaxPage THEN n ELSE MaxPage

LEMMA PageTaken ==
    ASSUME NEW r, NEW p, NEW n, Paired(Page(r, p), n), NEW c, c = AtMost(n)
    PROVE  /\ c \in 0..n /\ PageLength(r, p) = 2 * c /\ Paired(Taken(r, p), c)
           /\ \A i \in 1..2 * c : Taken(r, p)[i] = Page(r, p)[i]
           /\ PageRecords(r, p) \in Seq(Events \X Events) /\ Len(PageRecords(r, p)) = c
           /\ \A k \in 1..c :
                PageRecords(r, p)[k] = <<Page(r, p)[2 * k - 1].ev, Page(r, p)[2 * k].ev>>
           /\ \A k \in 1..c : Line(Taken(r, p), 2 * k) = k
           /\ Ends(Taken(r, p)) = Evens(c)
<1>1. PICK x : x = Page(r, p)
  OBVIOUS
<1>2. n \in Nat /\ (\A k \in 1..n : Line(x, 2 * k) = k) /\ Ends(x) = Evens(n)
  BY <1>1, PairedRecords, PairedEnds
<1>3. c \in 0..n /\ c <= MaxPage /\ c \in Nat /\ MaxPage \in Nat /\ (c = n \/ c = MaxPage)
  BY <1>1, <1>2, LogBoundsAssumption DEF AtMost
<1>4. {i \in Ends(x) : Line(x, i) <= MaxPage} = Evens(c)
  <2>1. ASSUME NEW i \in Ends(x), Line(x, i) <= MaxPage PROVE i \in Evens(c)
    <3>1. PICK k \in 1..n : i = 2 * k
      BY <1>2 DEF Evens
    <3>2. Line(x, i) = k
      BY <1>2, <3>1
    <3>3. k \in 1..c
      BY <1>2, <1>3, <2>1, <3>2
    <3> QED  BY <3>1, <3>3 DEF Evens
  <2>2. ASSUME NEW i \in Evens(c) PROVE i \in Ends(x) /\ Line(x, i) <= MaxPage
    <3>1. PICK k \in 1..c : i = 2 * k
      BY DEF Evens
    <3>2. k \in 1..n /\ k <= MaxPage
      BY <1>2, <1>3
    <3> QED  BY <1>2, <3>1, <3>2 DEF Evens
  <2> QED  BY <2>1, <2>2
<1>5. PageLength(r, p) = 2 * c
  <2>1. PageLength(r, p) = IF Evens(c) = {} THEN 0 ELSE Max(Evens(c))
    BY <1>1, <1>4 DEF PageLength
  <2>2. CASE c = 0
    BY <2>1, <2>2 DEF Evens
  <2>3. CASE c # 0
    <3>1. 2 * c \in Evens(c) /\ \A i \in Evens(c) : i <= 2 * c /\ i \in Nat
      BY <1>3, <2>3 DEF Evens
    <3>2. Max(Evens(c)) = 2 * c
      BY <1>3, <3>1 DEF Max
    <3> QED  BY <2>1, <3>1, <3>2
  <2> QED  BY <2>2, <2>3
<1> DEFINE t == Taken(r, p)
<1>6. t = SubSeq(x, 1, 2 * c)
  BY <1>1, <1>5 DEF Taken
<1> HIDE DEF t
<1>7. Paired(t, c) /\ \A i \in 1..2 * c : t[i] = x[i]
  <2>2. x \in Seq(Pieces) /\ 2 * n <= Len(x) /\ Len(x) \in Nat
    BY <1>1 DEF Paired
  <2>3. 2 * c \in Nat /\ 2 * c <= Len(x)
    BY <1>2, <1>3, <2>2
  <2>4. t \in Seq(Pieces) /\ Len(t) = 2 * c /\ \A i \in 1..2 * c : t[i] = x[i]
    BY <1>6, <2>2, <2>3
  <2>5. ASSUME NEW k \in 1..c PROVE t[2 * k - 1].part = "begin" /\ t[2 * k].part = "end"
    <3>1. k \in 1..n /\ 2 * k - 1 \in 1..2 * c /\ 2 * k \in 1..2 * c
      BY <1>2, <1>3
    <3>2. x[2 * k - 1].part = "begin" /\ x[2 * k].part = "end"
      BY <1>1, <3>1 DEF Paired
    <3> QED  BY <2>4, <3>1, <3>2
  <2> QED  BY <1>3, <2>4, <2>5 DEF Paired
<1>8. Cardinality(Ends(t)) = c /\ (\A k \in 1..c : Line(t, 2 * k) = k) /\ Ends(t) = Evens(c)
  BY <1>7, PairedRecords, PairedEnds
<1> DEFINE at(k) == CHOOSE j \in Ends(t) : Line(t, j) = k
<1>9. ASSUME NEW k \in 1..c PROVE at(k) = 2 * k
  <2>1. 2 * k \in Ends(t) /\ Line(t, 2 * k) = k
    BY <1>8 DEF Evens
  <2>2. ASSUME NEW j \in Ends(t), Line(t, j) = k PROVE j = 2 * k
    <3>1. PICK i \in 1..c : j = 2 * i
      BY <1>8 DEF Evens
    <3> QED  BY <1>8, <2>2, <3>1
  <2> QED  BY <2>1, <2>2
<1>10. PageRecords(r, p) = [k \in 1..c |-> <<t[2 * k - 1].ev, t[2 * k].ev>>]
  <2>1. PageRecords(r, p) = [k \in 1..c |-> <<t[at(k) - 1].ev, t[at(k)].ev>>]
    <3>1. PageRecords(r, p) = [k \in 1..Cardinality(Ends(t)) |->
              <<t[(CHOOSE j \in Ends(t) : Line(t, j) = k) - 1].ev,
                t[CHOOSE j \in Ends(t) : Line(t, j) = k].ev>>]
      BY Zenon DEF PageRecords, t
    <3> QED  BY <1>8, <3>1, Zenon
  <2> HIDE DEF at
  <2> QED  BY <1>9, <2>1
<1>11. ASSUME NEW k \in 1..c
       PROVE  /\ <<t[2 * k - 1].ev, t[2 * k].ev>> \in Events \X Events
              /\ t[2 * k - 1] = x[2 * k - 1] /\ t[2 * k] = x[2 * k]
  <2>1. 2 * k - 1 \in 1..2 * c /\ 2 * k \in 1..2 * c
    BY <1>3
  <2>2. t \in Seq(Pieces) /\ 2 * c <= Len(t) /\ Len(t) \in Nat
    BY <1>3, <1>7 DEF Paired
  <2>3. 2 * k - 1 \in 1..Len(t) /\ 2 * k \in 1..Len(t)
    BY <1>3, <2>1, <2>2
  <2>4. t[2 * k - 1] \in Pieces /\ t[2 * k] \in Pieces
    BY <2>2, <2>3
  <2> QED  BY <1>7, <2>1, <2>4 DEF Pieces
<1>12. PageRecords(r, p) \in Seq(Events \X Events) /\ Len(PageRecords(r, p)) = c
  <2>1. PageRecords(r, p) \in [1..c -> Events \X Events]
    BY <1>10, <1>11
  <2> QED  BY <1>3, <2>1
<1> QED  BY <1>1, <1>3, <1>5, <1>7, <1>8, <1>10, <1>11, <1>12 DEF t

(* A line of the file that is accepted has the number of its place.        *)
LEMMA AcceptedNumber ==
    ASSUME FileOK, NEW t, NEW c, Paired(t, c), Ends(t) = Evens(c), NEW q \in Nat,
           MayAccept(t, q + 1), NEW k \in 1..c, Line(t, 2 * k) = k,
           NEW j \in 1..Lines, t[2 * k - 1] = file[2 * j - 1], t[2 * k] = file[2 * j]
    PROVE  j = q + k /\ t[2 * k - 1].ev = file[2 * (q + k)].ev /\ t[2 * k].ev = t[2 * k - 1].ev
<1>1. c \in Nat /\ Lines \in Nat /\ 2 * k \in Ends(t)
  BY LinesType DEF Paired, Evens
<1>2. /\ file[2 * j - 1].ev = file[2 * j].ev /\ file[2 * j - 1].seq = j /\ file[2 * j].seq = j
  BY DEF FileOK
<1>3. Framed(t, 2 * k)
  BY <1>1 DEF MayAccept
<1>4. Whole(t, 2 * k)
  BY <1>2, <1>3 DEF Whole
<1>5. t[2 * k].seq = q + 1 + Line(t, 2 * k) - 1
  BY <1>1, <1>4 DEF MayAccept
<1>6. j = q + 1 + k - 1
  BY <1>2, <1>5
<1> QED  BY <1>1, <1>2, <1>6

(* The consumed lines of a page are numbered on from what was consumed.    *)
LEMMA PageAccepted ==
    ASSUME LogInv, NEW r \in Clients, NEW p, NEW b \in Nat, NEW h \in Nat, NEW g \in Nat,
           NEW m \in Nat, PageShape(Page(r, p), b, h, g, m), NEW c, c = AtMost(m),
           NEW q \in Nat, MayAccept(Taken(r, p), q + 1), NEW k \in 1..c
    PROVE  /\ LineOK(q + k, PageRecords(r, p)[k])
           /\ k = h + 1 => PageRecords(r, p)[k][1] # PageRecords(r, p)[k][2]
<1>1. PICK x, t, l : x = Page(r, p) /\ t = Taken(r, p) /\ l = Lines
  OBVIOUS
<1>2. l \in Nat /\ FileOK
  BY <1>1, LinesType DEF LogInv
<1>3. /\ c \in 0..m /\ Paired(t, c) /\ \A i \in 1..2 * c : t[i] = x[i]
      /\ PageRecords(r, p)[k] = <<x[2 * k - 1].ev, x[2 * k].ev>>
      /\ Line(t, 2 * k) = k /\ Ends(t) = Evens(c)
  <2>1. Paired(Page(r, p), m)
    BY DEF PageShape
  <2> QED  BY <1>1, <2>1, PageTaken
<1>4. t[2 * k - 1] = x[2 * k - 1] /\ t[2 * k] = x[2 * k]
  <2>1. 2 * k - 1 \in 1..2 * c /\ 2 * k \in 1..2 * c
    BY <1>3
  <2> QED  BY <1>3, <2>1
<1>5. ASSUME NEW j \in 1..l, x[2 * k - 1] = file[2 * j - 1], x[2 * k] = file[2 * j]
      PROVE  LineOK(q + k, PageRecords(r, p)[k])
  <2>1. j = q + k /\ t[2 * k - 1].ev = file[2 * (q + k)].ev /\ t[2 * k].ev = t[2 * k - 1].ev
    BY <1>1, <1>2, <1>3, <1>4, <1>5, AcceptedNumber
  <2>2. q + k <= l
    BY <1>2, <2>1
  <2> QED  BY <1>1, <1>3, <1>4, <2>1, <2>2 DEF LineOK
<1>6. CASE k <= h
  <2>1. k \in 1..h /\ b + k \in 1..l
    BY <1>1, <1>2, <1>3, <1>6 DEF PageShape
  <2>2. x[2 * k - 1] = file[2 * (b + k) - 1] /\ x[2 * k] = file[2 * (b + k)]
    BY <1>1, <2>1 DEF PageShape
  <2>3. LineOK(q + k, PageRecords(r, p)[k])
    <3>1. PICK j \in 1..l : j = b + k
      BY <2>1
    <3> QED  BY <1>5, <2>2, <3>1
  <2> QED  BY <1>3, <1>6, <2>3
<1>7. CASE k > h + 1
  <2>1. k \in h + 2..m /\ k \in h + 1..m
    BY <1>3, <1>7
  <2>2. PICK j \in 1..l : j = b + g + k
    BY <1>1, <1>2, <2>1 DEF PageShape
  <2>3. x[2 * k - 1] = file[2 * (b + g + k) - 1] /\ x[2 * k] = file[2 * (b + g + k)]
    BY <1>1, <2>1 DEF PageShape
  <2> QED  BY <1>5, <1>7, <2>2, <2>3
<1>8. CASE k = h + 1
  <2>1. k \in h + 1..m /\ m > h /\ 2 * k - 1 = 2 * h + 1
    BY <1>3, <1>8
  <2>2. PICK j \in 1..l : j = b + g + k
    BY <1>1, <1>2, <2>1 DEF PageShape
  <2>3. Dead(x[2 * k - 1].ev) /\ x[2 * k] = file[2 * j]
    BY <1>1, <2>1, <2>2 DEF PageShape
  <2>4. Logged(x[2 * k].ev)
    BY <1>1, <2>2, <2>3 DEF Logged
  <2>5. x[2 * k - 1].ev # x[2 * k].ev
    BY <2>3, <2>4 DEF Dead
  <2> QED  BY <1>3, <2>3, <2>4, <2>5 DEF LineOK
<1> QED  BY <1>3, <1>6, <1>7, <1>8

(* The follower takes the lines behind its cursor, or raises and keeps it. *)
LEMMA EndFollowKeeps ==
    ASSUME LogInv, NEW r \in Clients, EndFollow(r) PROVE LogInv' /\ Kept
<1>1. /\ TypeOK /\ mode[r] = "follow" /\ UNCHANGED <<file, lock, local, done, writing>>
      /\ buffer' = [buffer EXCEPT ![r] = <<>>] /\ base' = [base EXCEPT ![r] = 0]
  BY DEF LogInv, EndFollow
<1>2. /\ Lines' = Lines /\ file' = file
      /\ \A e : (Dead(e)' <=> Dead(e)) /\ (Logged(e)' <=> Logged(e))
  BY <1>1 DEF Lines, Dead, Logged, Event, writing
<1>3. /\ buffer' \in [Clients -> Seq(Pieces)] /\ base' \in [Clients -> Nat]
      /\ \A s \in Clients \ {r} : buffer'[s] = buffer[s] /\ base'[s] = base[s]
  BY <1>1 DEF TypeOK
<1>4. CASE mode' = [mode EXCEPT ![r] = "raised"] /\ cursor' = cursor /\ seen' = seen
  <2>1. mode'[r] = "raised" /\ \A s \in Clients \ {r} : mode'[s] = mode[s]
    BY <1>1, <1>4 DEF TypeOK
  <2>2. TypeOK'
    BY <1>1, <1>3, <1>4 DEF TypeOK, writing
  <2>3. ClientOK(r)'
    BY <1>1, <1>4, <2>1, ClientRests DEF writing
  <2> QED  BY <1>1, <1>3, <1>4, <2>1, <2>2, <2>3, ClientStep
<1>5. ASSUME NEW p \in Resume(r), NEW anchor \in BOOLEAN,
             MayAccept(Taken(r, p), Cursor(r).sequence + 1),
             cursor' = [cursor EXCEPT ![r] =
                          [offset |-> PageOffset(r, p),
                           sequence |-> Cursor(r).sequence + Len(PageRecords(r, p)),
                           anchor |-> anchor]],
             seen' = [seen EXCEPT ![r] = Derived(r) \o PageRecords(r, p)],
             mode' = [mode EXCEPT ![r] = "idle"]
      PROVE  LogInv' /\ Kept
  <2>1. PICK l \in Nat : l = Lines
    BY ClientTypes
  <2>2. PICK s \in Seq(Events \X Events) : s = Derived(r)
    BY ClientTypes
  <2>3. PICK q \in Nat : q = Len(s)
    OBVIOUS
  <2>4. /\ Cursor(r).sequence = q /\ ClientOK(r)
        /\ \A k \in 1..q : LineOK(k, s[k])
    BY <2>2, <2>3, ClientTypes
  <2>5. PICK b \in q..l : Cursor(r).offset = 2 * b /\ (~Mixed(s) => b = q)
    BY <2>1, <2>2, <2>3, ClientTypes DEF Placed
  <2>6. PICK h \in Nat : FitsAt(r, b, h)
    <3>1. PICK x, h \in Nat : FitsAt(r, x, h)
      BY <1>1, <2>4 DEF ClientOK, Fits
    <3>2. base[r] = 2 * b /\ base[r] = 2 * x
      BY <1>1, <2>4, <2>5, <3>1 DEF ClientOK, FitsAt
    <3>3. x = b
      BY <3>2
    <3> QED  BY <3>1, <3>3
  <2>7. PICK i, g, m \in Nat :
          /\ PageShape(Page(r, p), b, i, g, m)
          /\ \A c \in 0..m :
               OffsetAfter(r, p, c) = IF c <= i THEN 2 * (b + c) ELSE 2 * (b + g + c)
    <3>1. b \in Nat
      OBVIOUS
    <3> QED  BY <2>6, <3>1, PageLines
  <2>8. PICK c : c = AtMost(m)
    OBVIOUS
  <2>9. PICK a : a = PageRecords(r, p)
    OBVIOUS
  <2>10. /\ c \in 0..m /\ PageLength(r, p) = 2 * c
         /\ a \in Seq(Events \X Events) /\ Len(a) = c
    BY <2>7, <2>8, <2>9, PageTaken DEF PageShape
  <2>11. ASSUME NEW k \in 1..c PROVE LineOK(q + k, a[k]) /\ (k = i + 1 => a[k][1] # a[k][2])
    <3>1. b \in Nat /\ MayAccept(Taken(r, p), q + 1)
      BY <1>5, <2>4
    <3>2. /\ LineOK(q + k, PageRecords(r, p)[k])
          /\ k = i + 1 => PageRecords(r, p)[k][1] # PageRecords(r, p)[k][2]
      BY <2>7, <2>8, <3>1, PageAccepted, ZenonT(60)
    <3> QED  BY <2>9, <3>2
  <2>12. PICK n \in b..l : PageOffset(r, p) = 2 * n /\ n >= b + c /\ (c <= i => n = b + c)
    <3>1. PageOffset(r, p) = OffsetAfter(r, p, c)
      BY <2>10 DEF PageOffset, OffsetAfter
    <3>2. CASE c <= i
      <4>1. b + c \in b..l
        <5>1. CASE c = 0
          BY <5>1
        <5>2. CASE c # 0
          <6>1. c \in 1..i
            BY <2>10, <3>2, <5>2
          <6>2. b + c <= l
            BY <2>1, <2>7, <6>1 DEF PageShape
          <6> QED  BY <2>10, <6>2
        <5> QED  BY <5>1, <5>2
      <4>2. PageOffset(r, p) = 2 * (b + c)
        BY <2>7, <2>10, <3>1, <3>2
      <4>3. PICK n \in b..l : n = b + c
        BY <4>1
      <4> QED  BY <4>2, <4>3
    <3>3. CASE ~(c <= i)
      <4>1. c \in i + 1..m
        BY <2>10, <3>3
      <4>2. b + g + c <= l
        BY <2>1, <2>7, <4>1 DEF PageShape
      <4>3. PageOffset(r, p) = 2 * (b + g + c)
        BY <2>7, <2>10, <3>1, <3>3
      <4>4. b + g + c \in b..l /\ b + g + c >= b + c
        BY <2>10, <4>2
      <4> QED  BY <3>3, <4>3, <4>4
    <3> QED  BY <3>2, <3>3
  <2>13. PICK z : z = s \o a
    OBVIOUS
  <2>14. /\ z \in Seq(Events \X Events) /\ Len(z) = q + c
         /\ \A k \in 1..q + c : z[k] = IF k <= q THEN s[k] ELSE a[k - q]
    BY <2>3, <2>10, <2>13, ConcatProperties
  <2>15. ASSUME NEW k \in 1..q + c PROVE LineOK(k, z[k])
    <3>1. CASE k <= q
      BY <2>4, <2>14, <3>1
    <3>2. CASE ~(k <= q)
      <4>1. PICK j \in 1..c : j = k - q
        BY <2>10, <3>2
      <4>2. q + j = k /\ z[k] = a[j]
        BY <2>14, <3>2, <4>1
      <4> QED  BY <2>11, <4>2
    <3> QED  BY <3>1, <3>2
  <2>16. ASSUME ~Mixed(z) PROVE n = q + c
    <3>1. \A k \in 1..q + c : z[k][1] = z[k][2]
      BY <1>5, <2>14, <2>16 DEF Mixed
    <3>2. ASSUME NEW k \in 1..q PROVE s[k][1] = s[k][2]
      <4>1. k \in 1..q + c /\ k <= q
        BY <2>10
      <4> QED  BY <2>14, <3>1, <4>1
    <3>3. b = q
      BY <2>3, <2>5, <3>2 DEF Mixed
    <3>4. c <= i
      <4>1. SUFFICES ASSUME ~(c <= i) PROVE FALSE
        OBVIOUS
      <4>2. PICK k \in 1..c : k = i + 1
        BY <2>10, <4>1
      <4>3. q + k \in 1..q + c /\ ~(q + k <= q) /\ (q + k) - q = k
        BY <2>10
      <4>4. z[q + k] = a[k]
        BY <2>14, <4>3
      <4> QED  BY <2>11, <3>1, <4>2, <4>3, <4>4
    <3> QED  BY <2>12, <3>3, <3>4
  <2>17. PICK d : d = [offset |-> 2 * n, sequence |-> q + c, anchor |-> anchor]
    OBVIOUS
  <2>18. /\ d \in [offset : Nat, sequence : Nat, anchor : BOOLEAN]
         /\ d.offset = 2 * n /\ d.sequence = q + c
    BY <2>10, <2>17
  <2>19. cursor' = [cursor EXCEPT ![r] = d] /\ seen' = [seen EXCEPT ![r] = z]
    BY <1>5, <2>2, <2>4, <2>9, <2>10, <2>12, <2>13, <2>17
  <2>20. /\ cursor'[r] = d /\ seen'[r] = z /\ mode'[r] = "idle"
         /\ \A x \in Clients \ {r} : cursor'[x] = cursor[x] /\ seen'[x] = seen[x] /\ mode'[x] = mode[x]
    <3>1. DOMAIN cursor = Clients /\ DOMAIN seen = Clients /\ DOMAIN mode = Clients
      BY <1>1 DEF TypeOK
    <3> QED  BY <1>5, <2>19, <3>1
  <2>21. TypeOK'
    <3>1. cursor' \in [Clients -> [offset : Nat, sequence : Nat, anchor : BOOLEAN]]
      BY <1>1, <2>18, <2>19 DEF TypeOK
    <3>2. seen' \in [Clients -> Seq(Events \X Events)]
      BY <1>1, <2>14, <2>19 DEF TypeOK
    <3>3. mode' \in [Clients -> {"idle", "follow", "read", "raised"}]
      BY <1>1, <1>5 DEF TypeOK
    <3> QED  BY <1>1, <1>3, <3>1, <3>2, <3>3 DEF TypeOK, writing
  <2>22. ClientOK(r)'
    <3>1. Len(seen'[r]) = cursor'[r].sequence
      BY <2>14, <2>18, <2>20
    <3>2. Placed(cursor[r].offset, seen[r])'
      <4>1. n \in q + c..l
        BY <2>5, <2>10, <2>12
      <4> QED  BY <1>2, <2>1, <2>14, <2>16, <2>18, <2>20, <4>1 DEF Placed, Mixed
    <3>3. ASSUME NEW k \in 1..Len(z) PROVE LineOK(k, seen[r][k])'
      <4>1. PICK x : x = z[k]
        OBVIOUS
      <4>2. LineOK(k, x)'
        BY <1>2, <2>14, <2>15, <4>1 DEF LineOK
      <4> QED  BY <2>20, <4>1, <4>2 DEF LineOK, Dead, Logged, Event
    <3> QED  BY <2>20, <3>1, <3>2, <3>3 DEF ClientOK
  <2> QED  BY <1>1, <1>3, <2>20, <2>21, <2>22, ClientStep
<1>6. CASE \E p \in Resume(r) : \E anchor \in {TRUE, ~Mixed(PageRecords(r, p))} :
             /\ MayAccept(Taken(r, p), Cursor(r).sequence + 1)
             /\ cursor' = [cursor EXCEPT ![r] =
                            [offset |-> PageOffset(r, p),
                             sequence |-> Cursor(r).sequence + Len(PageRecords(r, p)),
                             anchor |-> anchor]]
             /\ seen' = [seen EXCEPT ![r] = Derived(r) \o PageRecords(r, p)]
             /\ mode' = [mode EXCEPT ![r] = "idle"]
  <2>1. \A p : \A anchor \in {TRUE, ~Mixed(PageRecords(r, p))} : anchor \in BOOLEAN
    BY DEF Mixed
  <2> QED  BY <1>5, <1>6, <2>1
<1> QED  BY <1>4, <1>6, Zenon DEF EndFollow

-----------------------------------------------------------------------------
(* The invariant holds from the start and every step keeps it.             *)

LEMMA InitLog == Init => LogInv
<1> SUFFICES ASSUME Init PROVE LogInv
  OBVIOUS
<1>1. TypeOK
  <2>1. NoCursor \in [offset : Nat, sequence : Nat, anchor : BOOLEAN]
    BY DEF NoCursor
  <2>2. cursor \in [Clients -> [offset : Nat, sequence : Nat, anchor : BOOLEAN]]
    BY <2>1 DEF Init
  <2> QED  BY <2>2, LogBoundsAssumption DEF Init, TypeOK
<1>2. Ends(file) = {} /\ Cardinality({}) = 0 /\ Lines = 0
  <2>1. Ends(file) = {}
    BY DEF Init, Ends
  <2> QED  BY <2>1, FS_EmptySet DEF Lines
<1>3. FileOK
  <2>1. file \in Seq(Pieces) /\ Len(file) = 0
    BY DEF Init
  <2> QED  BY <1>2, <2>1 DEF FileOK, Paired
<1>4. EventsOK /\ TornOK
  <2>1. Len(file) = 0
    BY DEF Init
  <2>2. TornOK
    BY <1>2, <2>1 DEF TornOK
  <2> QED  BY <2>2 DEF Init, EventsOK
<1>5. \A w \in Writers : WriterOK(w)
  BY LogWritersAssumption DEF Init, WriterOK, Holding
<1>6. ASSUME NEW r \in Clients PROVE ClientOK(r)
  <2>1. /\ cursor[r].offset = 0 /\ cursor[r].sequence = 0 /\ seen[r] = <<>>
        /\ mode[r] = "idle"
    BY DEF Init, NoCursor
  <2>2. Placed(cursor[r].offset, seen[r])
    <3>1. 0 \in 0..0 /\ 0 = 2 * 0
      OBVIOUS
    <3> QED  BY <1>2, <2>1, <3>1 DEF Placed
  <2> QED  BY <2>1, <2>2 DEF ClientOK
<1> QED  BY <1>1, <1>3, <1>4, <1>5, <1>6 DEF LogInv

LEMMA LogStep == ASSUME LogInv, Next PROVE LogInv' /\ Kept
<1>1. ASSUME NEW w \in Writers, WriteLocal(w) \/ Write(w) \/ Abandon(w) PROVE LogInv' /\ Kept
  <2>1. \/ WriteLocal(w) \/ Abandon(w)
        \/ Acquire(w) \/ Locate(w) \/ Truncate(w)
        \/ AppendBegin(w) \/ AppendEnd(w) \/ Return(w)
    BY <1>1 DEF Write
  <2>2. CASE WriteLocal(w) \/ Abandon(w)
    BY <2>2, WriteLocalKeeps, AbandonKeeps
  <2>3. CASE Acquire(w) \/ Locate(w) \/ Truncate(w)
    BY <2>3, AcquireKeeps, LocateKeeps, TruncateKeeps
  <2>4. CASE AppendBegin(w) \/ AppendEnd(w) \/ Return(w)
    BY <2>4, AppendBeginKeeps, AppendEndKeeps, ReturnKeeps
  <2> QED  BY <2>1, <2>2, <2>3, <2>4
<1>2. ASSUME NEW r \in Followers, Follow(r) PROVE LogInv' /\ Kept
  <2>1. r \in Clients
    BY DEF Clients
  <2> QED  BY <1>2, <2>1, BeginFollowKeeps, EndFollowKeeps DEF Follow
<1>3. ASSUME NEW r \in Readers, BeginRead(r) \/ EndRead(r) PROVE LogInv' /\ Kept
  <2>1. r \in Clients
    BY DEF Clients
  <2> QED  BY <1>3, <2>1, BeginReadKeeps, EndReadKeeps
<1> QED  BY <1>1, <1>2, <1>3 DEF Next

LEMMA LogStutter == ASSUME LogInv, UNCHANGED vars PROVE LogInv'
<1>1. /\ TypeOK /\ FileOK /\ EventsOK /\ TornOK
      /\ file' = file /\ lock' = lock /\ local' = local /\ done' = done /\ count' = count /\ pc' = pc /\ seq' = seq /\ valid' = valid
      /\ cursor' = cursor /\ seen' = seen /\ buffer' = buffer /\ base' = base /\ mode' = mode
  BY DEF LogInv, vars
<1>2. FileOK' /\ \A e : Logged(e)' <=> Logged(e)
  BY <1>1, SameFile
<1>3. TypeOK'
  BY <1>1 DEF TypeOK
<1>4. EventsOK'
  BY <1>1, <1>2 DEF EventsOK
<1>5. ASSUME NEW v \in Writers PROVE WriterOK(v)'
  <2>1. WriterOK(v)
    BY DEF LogInv
  <2> QED  BY <1>1, <2>1, StillKeeps
<1>6. ASSUME NEW r \in Clients PROVE ClientOK(r)'
  <2>1. ClientOK(r)
    BY DEF LogInv
  <2> QED  BY <1>1, <2>1, ClientSame
<1>7. TornOK'
  <2>1. \A e : Dead(e) => Dead(e)'
    BY <1>1, <1>2 DEF Dead, Event
  <2> QED  BY <1>1, <2>1, TornStill
<1> QED  BY <1>2, <1>3, <1>4, <1>5, <1>6, <1>7 DEF LogInv

LEMMA LogInvariant == Spec => []LogInv
<1>1. LogInv /\ [Next]_vars => LogInv'
  BY LogStep, LogStutter
<1> QED  BY <1>1, InitLog, PTL DEF Spec

-----------------------------------------------------------------------------
(* Results.                                                                *)

(* The log, its writers and its clients keep their types: no sequence      *)
(* number, offset or page of events.py leaves its range.                   *)
THEOREM LogTypeCorrect == Spec => []TypeOK
<1>1. LogInv => TypeOK
  BY DEF LogInv
<1> QED  BY <1>1, LogInvariant, PTL

(* Every complete line is one record and the lines are numbered from 1,    *)
(* whichever writers died between the two pieces of a record:              *)
(* _append_position never raises.                                          *)
THEOREM LogStaysValid == Spec => []LogValid
<1>1. ASSUME LogInv PROVE LogValid
  <2>1. PICK n \in Nat : n = Lines
    BY <1>1, LinesType DEF LogInv
  <2>2. FileOK /\ Paired(file, n)
    BY <1>1, <2>1 DEF LogInv, FileOK
  <2>3. /\ Ends(file) = Evens(n) /\ Len(Records(file)) = n
        /\ Records(file) = [k \in 1..n |-> <<file[2 * k].ev, file[2 * k].seq>>]
    BY <2>2, PairedEnds, PairedRecords
  <2>4. ASSUME NEW i \in Ends(file) PROVE Whole(file, i)
    <3>1. PICK k \in 1..n : i = 2 * k
      BY <2>3 DEF Evens
    <3>2. /\ file[2 * k - 1].part = "begin" /\ file[2 * k - 1].ev = file[2 * k].ev
          /\ file[2 * k - 1].seq = file[2 * k].seq
      BY <2>1, <2>2 DEF FileOK, Paired
    <3>3. ASSUME i > 2 PROVE file[i - 2].part = "end"
      <4>1. PICK j \in 1..n : j = k - 1
        BY <3>1, <3>3
      <4>2. file[2 * j].part = "end"
        BY <2>2 DEF Paired
      <4>3. 2 * j = i - 2
        BY <3>1, <4>1
      <4> QED  BY <4>2, <4>3
    <3>4. i > 1
      BY <3>1
    <3> QED  BY <3>1, <3>2, <3>3, <3>4 DEF Whole, Framed
  <2>5. ASSUME NEW k \in 1..n PROVE Records(file)[k][2] = 1 + k - 1
    <3>1. file[2 * k].seq = k
      BY <2>1, <2>2 DEF FileOK
    <3> QED  BY <2>3, <3>1
  <2> QED  BY <2>3, <2>4, <2>5 DEF LogValid, Valid
<1> QED  BY <1>1, LogInvariant, PTL

(* An event whose write returned has one record, an abandoned one at most  *)
(* one, and every record's event is in the local log of its attempt.       *)
THEOREM RecordsMirroredOnce == Spec => []MirroredOnce
<1>1. ASSUME LogInv PROVE MirroredOnce
  <2>1. PICK n \in Nat : n = Lines
    BY <1>1, LinesType DEF LogInv
  <2>2. FileOK /\ EventsOK /\ Paired(file, n)
    BY <1>1, <2>1 DEF LogInv, FileOK
  <2>3. /\ Len(Records(file)) = n
        /\ Records(file) = [k \in 1..n |-> <<file[2 * k].ev, file[2 * k].seq>>]
    BY <2>2, PairedRecords
  <2> DEFINE logged(e) == {i \in 1..Len(Records(file)) : Records(file)[i][1] = e}
  <2>4. ASSUME NEW e PROVE logged(e) = {k \in 1..n : file[2 * k].ev = e}
    BY <2>3
  <2> HIDE DEF logged
  <2>5. ASSUME NEW e
        PROVE  /\ e \in done => logged(e) # {}
               /\ Cardinality(logged(e)) <= 1
               /\ logged(e) # {} => e \in local
    <3>1. e \in done => logged(e) # {}
      BY <2>1, <2>2, <2>4 DEF EventsOK, Logged
    <3>2. Cardinality(logged(e)) <= 1
      <4>1. CASE logged(e) = {}
        BY <4>1, FS_EmptySet
      <4>2. CASE logged(e) # {}
        <5>1. PICK k : k \in logged(e)
          BY <4>2
        <5>2. \A j \in logged(e) : j = k
          BY <2>1, <2>2, <2>4, <5>1 DEF FileOK
        <5>3. logged(e) = {k}
          BY <5>1, <5>2
        <5>4. Cardinality({k}) = 1
          BY FS_Singleton
        <5> QED  BY <5>3, <5>4
      <4> QED  BY <4>1, <4>2
    <3>3. logged(e) # {} => e \in local
      BY <2>1, <2>2, <2>4 DEF FileOK
    <3> QED  BY <3>1, <3>2, <3>3
  <2> QED  BY <2>5 DEF MirroredOnce, logged
<1> QED  BY <1>1, LogInvariant, PTL

(* A sequence whose elements another one begins with.                      *)
LEMMA PrefixOf ==
    ASSUME NEW S, NEW s \in Seq(S), NEW t \in Seq(S), Len(s) <= Len(t),
           \A i \in 1..Len(s) : s[i] = t[i]
    PROVE  IsPrefix(s, t)
<1>1. PICK n \in Nat : n = Len(s)
  OBVIOUS
<1>2. /\ SubSeq(s, 1, n) \in Seq(S) /\ Len(SubSeq(s, 1, n)) = n
      /\ \A i \in 1..n : SubSeq(s, 1, n)[i] = s[i]
  BY <1>1
<1>3. /\ SubSeq(t, 1, n) \in Seq(S) /\ Len(SubSeq(t, 1, n)) = n
      /\ \A i \in 1..n : SubSeq(t, 1, n)[i] = t[i]
  BY <1>1
<1>4. SubSeq(s, 1, n) = SubSeq(t, 1, n)
  <2>1. \A i \in 1..n : SubSeq(s, 1, n)[i] = SubSeq(t, 1, n)[i]
    BY <1>1, <1>2, <1>3
  <2> QED  BY <1>2, <1>3, <2>1, SeqEqual
<1> QED  BY <1>1, <1>4 DEF IsPrefix

(* A follower consumes the records of the log in order, and its cursor is  *)
(* at the end of the last of them, whatever the writers cut off between    *)
(* the two read calls of its pages; a line it consumes that is no record   *)
(* of the log begins with an event that has none.                          *)
THEOREM FollowersSeePrefix == Spec => []FollowerPrefix
<1>1. ASSUME LogInv PROVE FollowerPrefix
  <2>1. ASSUME NEW r \in Followers, NEW log, log = Records(file)
        PROVE  /\ Len(seen[r]) = cursor[r].sequence
               /\ \A k \in 1..Len(seen[r]) :
                    IF seen[r][k][1] = seen[r][k][2]
                    THEN k <= Len(log) /\ seen[r][k][1] = log[k][1]
                    ELSE /\ \A i \in 1..Len(log) : log[i][1] # seen[r][k][1]
                         /\ \E i \in 1..Len(log) : log[i][1] = seen[r][k][2]
               /\ \E n \in Len(seen[r])..Len(log) :
                    /\ cursor[r].offset = 2 * n
                    /\ ~Mixed(seen[r]) => n = Len(seen[r])
    <3>1. r \in Clients
      BY DEF Clients
    <3>2. PICK n \in Nat : n = Lines
      BY <1>1, <3>1, ClientTypes
    <3>3. Paired(file, n) /\ ClientOK(r) /\ seen[r] \in Seq(Events \X Events)
      BY <1>1, <3>1, <3>2, ClientTypes
    <3>4. Len(log) = n /\ \A k \in 1..n : log[k][1] = file[2 * k].ev
      <4>1. Len(log) = n /\ log = [k \in 1..n |-> <<file[2 * k].ev, file[2 * k].seq>>]
        BY <2>1, <3>3, PairedRecords
      <4> QED  BY <4>1
    <3>5. ASSUME NEW k \in 1..Len(seen[r])
          PROVE  IF seen[r][k][1] = seen[r][k][2]
                 THEN k <= Len(log) /\ seen[r][k][1] = log[k][1]
                 ELSE /\ \A i \in 1..Len(log) : log[i][1] # seen[r][k][1]
                      /\ \E i \in 1..Len(log) : log[i][1] = seen[r][k][2]
      <4>1. PICK x : x = seen[r][k]
        OBVIOUS
      <4>2. LineOK(k, x) /\ k \in Nat /\ k >= 1
        BY <3>3, <4>1 DEF ClientOK
      <4>3. CASE x[1] = x[2]
        BY <3>2, <3>4, <4>1, <4>2, <4>3 DEF LineOK
      <4>4. CASE x[1] # x[2]
        BY <3>2, <3>4, <4>1, <4>2, <4>4 DEF LineOK, Dead, Logged
      <4> QED  BY <4>3, <4>4
    <3> QED  BY <3>2, <3>3, <3>4, <3>5 DEF ClientOK, Placed
  <2> QED  BY <2>1 DEF FollowerPrefix
<1> QED  BY <1>1, LogInvariant, PTL

(* No step cuts off, replaces or renumbers a complete record: a writer's   *)
(* recovery removes a torn last line and nothing else.                     *)
THEOREM RecordsNeverLost == Spec => NothingLost
<1>1. ASSUME LogInv, LogInv', Next PROVE IsPrefix(Records(file), Records(file'))
  <2>1. PICK n \in Nat : n = Lines
    BY <1>1, LinesType DEF LogInv
  <2>2. PICK m \in Nat : m = Lines'
    BY <1>1 DEF LogInv, FileOK, Paired
  <2>3. Paired(file, n) /\ Paired(file', m)
    BY <1>1, <2>1, <2>2 DEF LogInv, FileOK
  <2>4. n <= m /\ \A i \in 1..2 * n : file'[i] = file[i]
    BY <1>1, <2>1, <2>2, LogStep DEF Kept
  <2>5. /\ Records(file) \in Seq(Events \X Nat) /\ Len(Records(file)) = n
        /\ Records(file) = [k \in 1..n |-> <<file[2 * k].ev, file[2 * k].seq>>]
    BY <2>3, PairedRecords
  <2>6. /\ Records(file') \in Seq(Events \X Nat) /\ Len(Records(file')) = m
        /\ Records(file') = [k \in 1..m |-> <<file'[2 * k].ev, file'[2 * k].seq>>]
    BY <2>3, PairedRecords
  <2>7. ASSUME NEW k \in 1..n PROVE Records(file)[k] = Records(file')[k]
    <3>1. k \in 1..m /\ 2 * k \in 1..2 * n
      BY <2>4
    <3> QED  BY <2>4, <2>5, <2>6, <3>1
  <2> QED  BY <2>4, <2>5, <2>6, <2>7, PrefixOf
<1>2. LogInv /\ LogInv' /\ [Next]_vars => [IsPrefix(Records(file), Records(file'))]_vars
  BY <1>1
<1> QED  BY <1>2, LogInvariant, PTL DEF Spec, NothingLost

=============================================================================
