----------------------------- MODULE SasmReading -----------------------------
(***************************************************************************)
(* Which statements are assembled, for every source, however its files     *)
(* include each other and whatever the heap does with the list of those    *)
(* that wait: whole files, and on a heap that keeps what was freed one for *)
(* every statement that includes one, in the order of these.               *)
(***************************************************************************)
EXTENDS SasmTrace, SasmProofs, SequenceTheorems

----------------------------------------------------------------------------
(* Counting the files included *)

\* How many of the first i statements of p include a file.
Count(p, i) == Cardinality({j \in 1 .. i : p[j].kind = "include"})

LEMMA CountIs ==
    ASSUME NEW p, NEW i \in Nat
    PROVE  /\ Count(p, 0) = 0 /\ Count(p, i) \in Nat
           /\ Count(p, i + 1) = Count(p, i) + (IF p[i + 1].kind = "include" THEN 1 ELSE 0)
           /\ \A j \in 0 .. i : Count(p, j) \in Nat /\ Count(p, j) <= Count(p, i)
<1> DEFINE Set(j) == {k \in 1 .. j : p[k].kind = "include"}
<1>1. \A j \in Nat : IsFiniteSet(1 .. j)
  BY FS_Interval
<1>2. \A j \in Nat : Set(j) \subseteq 1 .. j
  OBVIOUS
<1>3. ASSUME NEW j \in Nat PROVE IsFiniteSet(Set(j)) /\ Cardinality(Set(j)) \in Nat
  <2>1. Set(j) \in SUBSET (1 .. j)
    BY <1>2
  <2>2. IsFiniteSet(Set(j))
    BY <1>1, <2>1, FS_Subset
  <2>. QED  BY <2>2, FS_CardinalityType
<1>4. Cardinality(Set(0)) = 0
  <2>1. Set(0) = {}
    OBVIOUS
  <2>. QED  BY <2>1, FS_EmptySet
<1>5. Cardinality(Set(i + 1)) = Cardinality(Set(i)) + (IF p[i + 1].kind = "include" THEN 1 ELSE 0)
  <2>1. CASE p[i + 1].kind = "include"
    <3>1. Set(i + 1) = Set(i) \union {i + 1} /\ i + 1 \notin Set(i)
      BY <2>1
    <3>. HIDE DEF Set
    <3>2. Cardinality(Set(i) \union {i + 1}) = Cardinality(Set(i)) + 1
      BY <1>3, <3>1, FS_AddElement
    <3>. QED  BY <2>1, <3>1, <3>2
  <2>2. CASE p[i + 1].kind # "include"
    <3>1. Set(i + 1) = Set(i)
      BY <2>2
    <3>. HIDE DEF Set
    <3>. QED  BY <1>3, <2>2, <3>1
  <2>. QED  BY <2>1, <2>2
<1>6. ASSUME NEW j \in 0 .. i PROVE Cardinality(Set(j)) <= Cardinality(Set(i))
  <2>1. j \in Nat /\ Set(j) \in SUBSET Set(i)
    OBVIOUS
  <2>. HIDE DEF Set
  <2>. QED  BY <1>3, <2>1, FS_Subset
<1>7. \A j : Count(p, j) = Cardinality(Set(j))
  BY DEF Count
<1>. HIDE DEF Set
<1>. QED  BY <1>3, <1>4, <1>5, <1>6, <1>7

LEMMA CountKept ==
    ASSUME NEW p, NEW q, NEW i \in Nat, \A j \in 1 .. i : p[j] = q[j]
    PROVE  Count(p, i) = Count(q, i)
<1>1. {j \in 1 .. i : p[j].kind = "include"} = {j \in 1 .. i : q[j].kind = "include"}
  OBVIOUS
<1>. QED  BY <1>1 DEF Count

----------------------------------------------------------------------------
(* The invariant *)

Newest == Len(begun)

\* The files in the order they were included: those begun, then those that wait.
Queue(k) == IF k <= Newest THEN begun[k].file ELSE files[k - Newest]

HistoryTypes == read \in Seq(Statement) /\ begun \in Seq([file : STRING, at : Nat])

\* Every file begun has its place: behind it the next one begins, or else what
\* is left of it is still to be read.
InPlace ==
    /\ begun # <<>> /\ begun[1] = [file |-> source.main, at |-> 0]
    /\ \A j \in DOMAIN begun : begun[j].file \in DOMAIN source.text /\ begun[j].at <= Len(read)
    /\ \A j \in 1 .. Newest - 1 : begun[j + 1].at = begun[j].at + Len(Text(j))
    /\ begun[Newest].at + Len(Text(Newest)) = Len(read) + Len(text)
    /\ \A k \in DOMAIN text : text[k] = Text(Newest)[Len(Text(Newest)) - Len(text) + k]

\* As far as it has been read, it is there statement by statement.
Copied ==
    \A j \in DOMAIN begun : \A k \in DOMAIN Text(j) :
        begun[j].at + k <= Len(read) => read[begun[j].at + k] = Text(j)[k]

\* Every statement that includes a file has its turn in the queue.
Queued ==
    /\ Newest + Len(files) = 1 + Includes(Len(read))
    /\ \A i \in DOMAIN read : read[i].kind = "include" => Queue(1 + Includes(i)) = read[i].name

\* The first statement of the j-th file that includes one; it names this file.
Leads(j, fn) ==
    \E i \in IncludesOf(j) : read[i].name = fn /\ \A k \in IncludesOf(j) : i <= k

\* Each file begun was included first by the one before it, and only what the
\* last one includes waits.
Chained ==
    /\ \A j \in 1 .. Newest - 1 : Leads(j, begun[j + 1].file)
    /\ files = <<>> => IncludesOf(Newest) = {}
    /\ files # <<>> => Leads(Newest, Head(files))

Followed ==
    /\ HistoryTypes
    /\ host.freed \in {"kept", "cleared", "reused"}
    /\ status # "wild" =>
          /\ InPlace /\ Copied
          /\ host.freed # "cleared" => Queued
          /\ host.freed = "cleared" => Chained
          /\ host.freed = "reused" => Newest = 1
          /\ phase # "parse" => text = <<>> /\ files = <<>>

\* A file that is begun is a sequence of statements.
LEMMA TextType ==
    ASSUME Types, NEW f \in DOMAIN source.text
    PROVE  source.text[f] \in Seq(Statement)
BY SasmAssumption DEF Types

----------------------------------------------------------------------------
(* The steps *)

LEMMA InitFollowed == TraceInit => Followed
<1>. SUFFICES ASSUME TraceInit PROVE Followed
  OBVIOUS
<1>1. /\ Init /\ read = <<>> /\ begun = <<[file |-> source.main, at |-> 0]>>
      /\ text = source.text[source.main] /\ files = <<>> /\ phase = "parse"
  BY DEF TraceInit, Init
<1>2. /\ source.main \in DOMAIN source.text /\ source.main \in STRING
      /\ text \in Seq(Statement)
  BY <1>1, SasmAssumption DEF Init
<1>3. read \in Seq(Statement) /\ Len(read) = 0 /\ DOMAIN read = {} /\ Len(files) = 0
  BY <1>1
<1>4. PICK main : main = source.main /\ main \in STRING
  BY <1>2
<1>5. PICK e : /\ e = [file |-> source.main, at |-> 0] /\ e \in [file : STRING, at : Nat]
               /\ e.file = source.main /\ e.at = 0
  <2>1. PICK e : e = [file |-> main, at |-> 0]
    OBVIOUS
  <2>2. e \in [file : STRING, at : Nat] /\ e.file = main /\ e.at = 0
    BY <1>4, <2>1
  <2>. QED  BY <1>4, <2>1, <2>2
<1>6. /\ begun = <<e>> /\ begun \in Seq([file : STRING, at : Nat]) /\ begun # <<>>
      /\ Len(begun) = 1 /\ DOMAIN begun = {1} /\ begun[1] = e
  BY <1>1, <1>5
<1>7. Newest = 1 /\ Text(1) = text /\ Len(text) \in Nat
  BY <1>1, <1>2, <1>5, <1>6 DEF Newest, Text
<1>8. InPlace
  <2>1. \A k \in DOMAIN text : Len(text) - Len(text) + k = k
    BY <1>2
  <2>. QED  BY <1>2, <1>3, <1>5, <1>6, <1>7, <2>1 DEF InPlace
<1>9. Copied
  <2>1. \A k \in DOMAIN Text(1) : ~(0 + k <= 0)
    BY <1>2, <1>7
  <2>. QED  BY <1>3, <1>5, <1>6, <2>1 DEF Copied
<1>10. Queued
  <2>1. Includes(0) = 0
    BY CountIs DEF Includes, Count
  <2>. QED  BY <1>3, <1>7, <2>1 DEF Queued
<1>11. Chained
  <2>1. FileEnd(1) = 0 /\ IncludesOf(1) = {}
    BY <1>3, <1>5, <1>6 DEF FileEnd, IncludesOf
  <2>. QED  BY <1>1, <1>7, <2>1 DEF Chained
<1>12. host.freed \in {"kept", "cleared", "reused"}
  BY SasmAssumption DEF TraceInit, Init
<1>. QED  BY <1>1, <1>3, <1>6, <1>7, <1>8, <1>9, <1>10, <1>11, <1>12 DEF Followed, HistoryTypes

\* What a statement that is parsed changes here.
LEMMA ParseIs ==
    ASSUME Parsing, parse
    PROVE  /\ status = "ok" /\ text # <<>> /\ stmt \in Statement
           /\ text' = Tail(text) /\ read' = Append(read, stmt)
           /\ files' = IF stmt.kind = "include" THEN Append(files, stmt.name) ELSE files
           /\ UNCHANGED <<source, host, phase, begun>> /\ phase = "parse" /\ Types
<1>1. PICK kind : Reads(kind)
  BY DEF parse, stmts, lbl_def, include, data, data_str, equ, equrel, res, pusht, pushtv, op,
         yyerror, Defines
<1>2. CASE include
  BY <1>1, <1>2, ReadsType DEF parse, include, Reads
<1>3. CASE ~include
  <2>1. stmt.kind # "include" /\ UNCHANGED files
    BY <1>3 DEF parse, stmts, lbl_def, data, data_str, equ, equrel, res, pusht, pushtv, op,
                yyerror, Defines, Reads
  <2>. QED  BY <1>1, <2>1, ReadsType DEF parse, Reads
<1>. QED  BY <1>2, <1>3

\* A statement parsed: what has been read stays in its place ...
LEMMA ParsePlaced ==
    ASSUME Parsing, HistoryTypes, InPlace, Copied, parse
    PROVE  InPlace' /\ Copied'
<1>1. /\ status = "ok" /\ text # <<>> /\ stmt \in Statement /\ stmt = Head(text)
      /\ text' = Tail(text) /\ read' = Append(read, stmt)
      /\ files' = IF stmt.kind = "include" THEN Append(files, stmt.name) ELSE files
      /\ UNCHANGED <<source, host, phase, begun>> /\ phase = "parse"
      /\ text \in Seq(Statement) /\ files \in Seq(STRING)
  BY ParseIs DEF stmt, Types
<1>2. read \in Seq(Statement) /\ begun \in Seq([file : STRING, at : Nat])
  BY DEF HistoryTypes
<1>5. PICK s, n, p : s = stmt /\ n = Len(read) /\ p = Append(read, s) /\ p = read'
  BY <1>1
<1>6. s \in Statement /\ n \in Nat /\ n + 1 \in Nat
  BY <1>1, <1>2, <1>5
<1>7. Len(p) = n + 1 /\ DOMAIN read = 1 .. n /\ DOMAIN p = 1 .. n + 1
  BY <1>1, <1>2, <1>5, <1>6, AppendIs
<1>8. (\A i \in 1 .. n : p[i] = read[i]) /\ p[n + 1] = s
  BY <1>1, <1>2, <1>5, <1>6, AppendIs
<1>9. PICK l \in Nat : /\ Len(text) = l + 1 /\ DOMAIN text = 1 .. l + 1 /\ text[1] = s
                      /\ Len(text') = l /\ DOMAIN text' = 1 .. l
                      /\ \A k \in 1 .. l : text'[k] = text[k + 1]
  <2>1. Len(Tail(text)) = Len(text) - 1 /\ Len(text) \in Nat /\ Len(text) # 0
    BY <1>1, HeadTailProperties
  <2>2. PICK l \in Nat : Len(text) = l + 1 /\ Len(Tail(text)) = l
    <3>1. Len(text) - 1 \in Nat /\ Len(text) = (Len(text) - 1) + 1
      BY <2>1
    <3>. QED  BY <2>1, <3>1
  <2>3. Tail(text) \in Seq(Statement) /\ \A k \in 1 .. l : Tail(text)[k] = text[k + 1]
    BY <1>1, <2>2, HeadTailProperties
  <2>. QED  BY <1>1, <1>5, <1>6, <1>7, <1>8, <2>2, <2>3
<1>10. PICK b \in Nat : b = Newest /\ b = Newest' /\ b >= 1 /\ DOMAIN begun = 1 .. b
  BY <1>1, <1>2 DEF Newest, InPlace
<1>11. \A j : Text(j)' = Text(j)
  BY <1>1 DEF Text
<1>12. ASSUME NEW j \in 1 .. b
      PROVE  /\ Text(j) \in Seq(Statement) /\ Len(Text(j)) \in Nat
             /\ DOMAIN Text(j) = 1 .. Len(Text(j)) /\ begun[j].at \in Nat
  <2>1. Text(j) \in Seq(Statement)
    BY <1>10, ParseIs, TextType DEF InPlace, Text
  <2>2. begun[j] \in [file : STRING, at : Nat]
    BY <1>2, <1>10, ElementType
  <2>. QED  BY <2>1, <2>2
<1>13. PICK t, at, m : t = Text(b) /\ at = begun[b].at /\ m = Len(t)
  OBVIOUS
<1>14. /\ b \in 1 .. b /\ at \in Nat /\ m \in Nat /\ at <= n /\ at + m = n + (l + 1)
        /\ \A k \in 1 .. l + 1 : text[k] = t[m - (l + 1) + k]
  <2>1. b \in 1 .. b /\ b \in DOMAIN begun
    BY <1>10
  <2>2. /\ begun[b].at <= Len(read) /\ begun[b].at + Len(Text(b)) = Len(read) + Len(text)
        /\ \A k \in DOMAIN text : text[k] = Text(b)[Len(Text(b)) - Len(text) + k]
    BY <1>10, <2>1 DEF InPlace
  <2>3. begun[b].at \in Nat /\ Len(Text(b)) \in Nat
    BY <1>12, <2>1
  <2>. QED  BY <1>5, <1>9, <1>13, <2>1, <2>2, <2>3
<1>15. InPlace'
  <2>1. at + m = (n + 1) + l
    BY <1>6, <1>7, <1>8, <1>13, <1>14
  <2>2. ASSUME NEW k \in 1 .. l PROVE text'[k] = t[m - l + k]
    <3>1. k + 1 \in 1 .. l + 1 /\ m - (l + 1) + (k + 1) = m - l + k
      BY <1>13, <1>14
    <3>. QED  BY <1>9, <1>13, <1>14, <3>1
  <2>3. ASSUME NEW j \in 1 .. b PROVE begun[j].at <= n + 1
    <3>1. begun[j].at <= n
      BY <1>5, <1>10 DEF InPlace
    <3>. QED  BY <1>6, <1>7, <1>8, <1>12, <3>1
  <2>4. /\ begun # <<>> /\ begun[1] = [file |-> source.main, at |-> 0]
        /\ \A j \in DOMAIN begun : begun[j].file \in DOMAIN source.text
        /\ \A j \in 1 .. b - 1 : begun[j + 1].at = begun[j].at + Len(Text(j))
    BY <1>10 DEF InPlace
  <2>5. begun[b].at + Len(Text(b)) = Len(p) + Len(text')
    BY <1>5, <1>6, <1>7, <1>8, <1>9, <1>13, <1>14, <2>1
  <2>6. \A k \in DOMAIN text' : text'[k] = Text(b)[Len(Text(b)) - Len(text') + k]
    BY <1>9, <1>13, <1>14, <2>2
  <2>. QED  BY <1>1, <1>5, <1>6, <1>7, <1>8, <1>10, <1>11, <2>3, <2>4, <2>5, <2>6 DEF InPlace
<1>16. ASSUME NEW j \in 1 .. b, NEW k \in DOMAIN Text(j), begun[j].at + k <= n + 1
       PROVE  p[begun[j].at + k] = Text(j)[k]
  <2>1. PICK a, w : a = begun[j].at /\ w = Len(Text(j))
    OBVIOUS
  <2>2. a \in Nat /\ w \in Nat /\ k \in 1 .. w /\ a + k <= n + 1
    BY <1>12, <1>16, <2>1
  <2>3. CASE a + k <= n
    <3>1. a + k \in 1 .. n
      BY <1>5, <1>6, <1>7, <1>8, <2>2, <2>3
    <3>2. read[a + k] = Text(j)[k]
      BY <1>5, <1>6, <1>7, <1>8, <1>10, <2>1, <2>3 DEF Copied
    <3>. QED  BY <1>5, <1>6, <1>7, <1>8, <2>1, <3>1, <3>2
  <2>4. CASE a + k = n + 1 /\ j # b
    <3>1. j \in 1 .. b - 1 /\ j + 1 \in 1 .. b
      BY <2>4
    <3>2. begun[j + 1].at = a + w /\ begun[j + 1].at <= n
      BY <1>5, <1>6, <1>7, <1>8, <1>10, <2>1, <3>1 DEF InPlace
    <3>. QED  BY <1>6, <1>7, <1>8, <2>2, <2>4, <3>2
  <2>5. CASE a + k = n + 1 /\ j = b
    <3>1. at = a
      BY <1>13, <2>1, <2>5
    <3>2. k = m - (l + 1) + 1 /\ 1 \in 1 .. l + 1
      BY <1>6, <1>14, <2>2, <2>5, <3>1
    <3>3. Text(j)[k] = text[1]
      BY <1>13, <1>14, <2>5, <3>2
    <3>4. begun[j].at + k = n + 1
      BY <2>1, <2>5
    <3>5. text[1] = p[n + 1]
      BY <1>8, <1>9
    <3>. QED  BY <3>3, <3>4, <3>5
  <2>. QED  BY <1>5, <1>6, <1>7, <1>8, <2>2, <2>3, <2>4, <2>5
<1>17. Copied'
  <2>1. begun' = begun /\ DOMAIN begun = 1 .. b /\ read' = p /\ Len(p) = n + 1
    BY <1>1, <1>5, <1>6, <1>7, <1>8, <1>10
  <2>. QED  BY <1>11, <1>16, <2>1 DEF Copied
<1>. QED  BY <1>15, <1>17

\* ... every statement that includes a file gets its turn ...
LEMMA ParseQueued ==
    ASSUME Parsing, HistoryTypes, InPlace, Queued, parse
    PROVE  Queued'
<1>1. /\ status = "ok" /\ text # <<>> /\ stmt \in Statement /\ stmt = Head(text)
      /\ text' = Tail(text) /\ read' = Append(read, stmt)
      /\ files' = IF stmt.kind = "include" THEN Append(files, stmt.name) ELSE files
      /\ UNCHANGED <<source, host, phase, begun>> /\ phase = "parse"
      /\ text \in Seq(Statement) /\ files \in Seq(STRING)
  BY ParseIs DEF stmt, Types
<1>2. read \in Seq(Statement) /\ begun \in Seq([file : STRING, at : Nat])
  BY DEF HistoryTypes
<1>5. PICK s, n, p : s = stmt /\ n = Len(read) /\ p = Append(read, s) /\ p = read'
  BY <1>1
<1>6. s \in Statement /\ n \in Nat /\ n + 1 \in Nat
  BY <1>1, <1>2, <1>5
<1>7. Len(p) = n + 1 /\ DOMAIN read = 1 .. n /\ DOMAIN p = 1 .. n + 1
  BY <1>1, <1>2, <1>5, <1>6, AppendIs
<1>8. (\A i \in 1 .. n : p[i] = read[i]) /\ p[n + 1] = s
  BY <1>1, <1>2, <1>5, <1>6, AppendIs
<1>10. PICK b \in Nat : b = Newest /\ b = Newest' /\ b >= 1 /\ DOMAIN begun = 1 .. b
  BY <1>1, <1>2 DEF Newest, InPlace
<1>18. PICK r, g, files1 : r = read /\ g = Len(files) /\ files1 = files'
  OBVIOUS
<1>19. /\ g \in Nat /\ b + g = 1 + Count(r, n)
       /\ \A i \in 1 .. n : r[i].kind = "include" => Queue(1 + Count(r, i)) = r[i].name
  <2>1. \A i : Includes(i) = Count(r, i)
    BY <1>18 DEF Includes, Count
  <2>2. Len(files) \in Nat
    BY <1>1
  <2>. QED  BY <1>5, <1>7, <1>10, <1>18, <2>1, <2>2 DEF Queued
<1>20. ASSUME NEW i \in 1 .. n
       PROVE  Count(p, i) = Count(r, i) /\ Count(r, i) \in Nat /\ Count(r, i) <= Count(r, n)
  <2>1. Count(p, i) = Count(r, i)
    BY <1>6, <1>7, <1>8, <1>18, CountKept
  <2>. QED  BY <1>6, <1>7, <1>8, <2>1, CountIs
<1>21. /\ Count(r, n) \in Nat
       /\ Count(p, n + 1) = Count(r, n) + (IF s.kind = "include" THEN 1 ELSE 0)
  <2>1. Count(p, n) = Count(r, n)
    BY <1>6, <1>7, <1>8, <1>18, CountKept
  <2>2. Count(p, n + 1) = Count(p, n) + (IF p[n + 1].kind = "include" THEN 1 ELSE 0)
    BY <1>6, <1>7, <1>8, CountIs
  <2>3. Count(r, n) \in Nat
    BY <1>6, <1>7, <1>8, CountIs
  <2>. QED  BY <1>8, <2>1, <2>2, <2>3
<1>22. \A x : Queue(x)' = IF x <= b THEN begun[x].file ELSE files1[x - b]
  BY <1>1, <1>10, <1>18 DEF Queue
<1>23. \A x : Queue(x) = IF x <= b THEN begun[x].file ELSE files[x - b]
  BY <1>10 DEF Queue
<1>24. /\ Len(files1) = g + (IF s.kind = "include" THEN 1 ELSE 0)
       /\ \A x \in 1 .. g : files1[x] = files[x]
       /\ s.kind = "include" => files1[g + 1] = s.name
  <2>1. CASE s.kind = "include"
    <3>1. s.name \in STRING /\ files1 = Append(files, s.name)
      BY <1>1, <1>5, <1>6, <1>7, <1>8, <1>18, <2>1, StatementType
    <3>. QED  BY <1>1, <1>18, <2>1, <3>1, AppendIs
  <2>2. CASE s.kind # "include"
    BY <1>1, <1>5, <1>18, <1>19, <2>2
  <2>. QED  BY <2>1, <2>2
<1>25. ASSUME NEW i \in 1 .. n + 1, p[i].kind = "include"
       PROVE  Queue(1 + Count(p, i))' = p[i].name
  <2>1. CASE i \in 1 .. n
    <3>1. PICK x : x = 1 + Count(r, i)
      OBVIOUS
    <3>2. x \in Nat /\ x <= b + g /\ x = 1 + Count(p, i)
      BY <1>19, <1>20, <1>21, <2>1, <3>1
    <3>3. Queue(x) = p[i].name
      BY <1>6, <1>7, <1>8, <1>18, <1>19, <1>25, <2>1, <3>1
    <3>4. x > b => x - b \in 1 .. g
      BY <1>19, <3>2
    <3>5. Queue(x)' = Queue(x)
      BY <1>22, <1>23, <1>24, <3>2, <3>4
    <3>. QED  BY <3>2, <3>3, <3>5
  <2>2. CASE i = n + 1
    <3>1. 1 + Count(p, i) = b + g + 1 /\ s.kind = "include"
      BY <1>6, <1>7, <1>8, <1>19, <1>21, <1>25, <2>2
    <3>2. (b + g + 1) - b = g + 1 /\ ~(b + g + 1 <= b)
      BY <1>19
    <3>. QED  BY <1>8, <1>22, <1>24, <2>2, <3>1, <3>2
  <2>. QED  BY <1>6, <1>7, <1>8, <2>1, <2>2
<1>26. Queued'
  <2>1. b + Len(files1) = 1 + Count(p, n + 1)
    BY <1>19, <1>21, <1>24
  <2>2. /\ files' = files1 /\ Newest' = b /\ read' = p /\ Len(p) = n + 1
        /\ DOMAIN p = 1 .. n + 1
    BY <1>5, <1>6, <1>7, <1>8, <1>10, <1>18
  <2>3. \A i : Includes(i)' = Count(p, i)
    BY <2>2 DEF Includes, Count
  <2>. QED  BY <1>25, <2>1, <2>2, <2>3 DEF Queued
<1>. QED  BY <1>26

\* ... and the first of those in a file is where the next file comes from.
LEMMA ParseChained ==
    ASSUME Parsing, HistoryTypes, InPlace, Chained, parse
    PROVE  Chained'
<1>1. /\ status = "ok" /\ text # <<>> /\ stmt \in Statement /\ stmt = Head(text)
      /\ text' = Tail(text) /\ read' = Append(read, stmt)
      /\ files' = IF stmt.kind = "include" THEN Append(files, stmt.name) ELSE files
      /\ UNCHANGED <<source, host, phase, begun>> /\ phase = "parse"
      /\ text \in Seq(Statement) /\ files \in Seq(STRING)
  BY ParseIs DEF stmt, Types
<1>2. read \in Seq(Statement) /\ begun \in Seq([file : STRING, at : Nat])
  BY DEF HistoryTypes
<1>5. PICK s, n, p : s = stmt /\ n = Len(read) /\ p = Append(read, s) /\ p = read'
  BY <1>1
<1>6. s \in Statement /\ n \in Nat /\ n + 1 \in Nat
  BY <1>1, <1>2, <1>5
<1>7. Len(p) = n + 1 /\ DOMAIN read = 1 .. n /\ DOMAIN p = 1 .. n + 1
  BY <1>1, <1>2, <1>5, <1>6, AppendIs
<1>8. (\A i \in 1 .. n : p[i] = read[i]) /\ p[n + 1] = s
  BY <1>1, <1>2, <1>5, <1>6, AppendIs
<1>10. PICK b \in Nat : b = Newest /\ b = Newest' /\ b >= 1 /\ DOMAIN begun = 1 .. b
  BY <1>1, <1>2 DEF Newest, InPlace
<1>11. \A j \in 1 .. b : begun[j].at \in Nat /\ begun[j].at <= n
  <2>. SUFFICES ASSUME NEW j \in 1 .. b PROVE begun[j].at \in Nat /\ begun[j].at <= n
    OBVIOUS
  <2>1. begun[j] \in [file : STRING, at : Nat]
    BY <1>2, <1>10, ElementType
  <2>2. begun[j].at <= n
    BY <1>5, <1>10 DEF InPlace
  <2>. QED  BY <2>1, <2>2
<1>12. ASSUME NEW j \in 1 .. b - 1 PROVE IncludesOf(j)' = IncludesOf(j)
  <2>1. j + 1 \in 1 .. b /\ j # b /\ Len(begun) = b
    BY <1>10 DEF Newest
  <2>2. PICK e \in Nat : e = begun[j + 1].at /\ e <= n
    BY <1>11, <2>1
  <2>3. FileEnd(j) = e /\ FileEnd(j)' = e
    BY <1>1, <2>1, <2>2 DEF FileEnd
  <2>4. \A i \in begun[j].at + 1 .. e : i \in 1 .. n /\ p[i] = read[i]
    BY <1>6, <1>8, <1>11, <2>2
  <2>. QED  BY <1>1, <1>5, <2>3, <2>4 DEF IncludesOf
<1>13. /\ FileEnd(b) = n /\ FileEnd(b)' = n + 1
       /\ IncludesOf(b)' = IncludesOf(b) \union (IF s.kind = "include" THEN {n + 1} ELSE {})
  <2>1. Len(begun) = b /\ Len(begun') = b
    BY <1>1, <1>10 DEF Newest
  <2>2. FileEnd(b) = n /\ FileEnd(b)' = n + 1
    BY <1>5, <1>7, <2>1 DEF FileEnd
  <2>3. PICK at \in Nat : at = begun[b].at /\ at <= n /\ at = begun'[b].at
    BY <1>1, <1>10, <1>11
  <2>4. at + 1 .. n + 1 = (at + 1 .. n) \union {n + 1}
    BY <1>6, <2>3
  <2>5. \A i \in at + 1 .. n : p[i] = read[i]
    BY <1>6, <1>8, <2>3
  <2>6. IncludesOf(b) = {i \in at + 1 .. n : read[i].kind = "include"}
    BY <2>2, <2>3 DEF IncludesOf
  <2>7. IncludesOf(b)' = {i \in at + 1 .. n + 1 : p[i].kind = "include"}
    BY <1>5, <2>2, <2>3 DEF IncludesOf
  <2>. QED  BY <1>8, <2>2, <2>4, <2>5, <2>6, <2>7
<1>14. \A j \in 1 .. b : \A i \in IncludesOf(j) : i \in 1 .. n
  <2>. SUFFICES ASSUME NEW j \in 1 .. b, NEW i \in IncludesOf(j) PROVE i \in 1 .. n
    OBVIOUS
  <2>1. FileEnd(j) \in Nat /\ FileEnd(j) <= n
    <3>1. CASE j = b
      BY <1>6, <1>13, <3>1
    <3>2. CASE j # b
      <4>1. j + 1 \in 1 .. b /\ Len(begun) = b
        BY <1>10, <3>2 DEF Newest
      <4>. QED  BY <1>11, <3>2, <4>1 DEF FileEnd
    <3>. QED  BY <3>1, <3>2
  <2>2. i \in begun[j].at + 1 .. FileEnd(j)
    BY DEF IncludesOf
  <2>. QED  BY <1>6, <1>11, <2>1, <2>2
<1>15. ASSUME NEW j \in 1 .. b, NEW fn, Leads(j, fn) PROVE Leads(j, fn)'
  <2>1. PICK i \in IncludesOf(j) : read[i].name = fn /\ \A k \in IncludesOf(j) : i <= k
    BY <1>15 DEF Leads
  <2>2. i \in 1 .. n /\ p[i].name = fn
    BY <1>8, <1>14, <2>1
  <2>3. i \in IncludesOf(j)' /\ \A k \in IncludesOf(j)' : i <= k
    <3>1. CASE j = b
      <4>1. i <= n + 1
        BY <1>6, <2>2
      <4>2. IncludesOf(b)' = IncludesOf(b) \/ IncludesOf(b)' = IncludesOf(b) \union {n + 1}
        BY <1>13
      <4>. QED  BY <2>1, <3>1, <4>1, <4>2
    <3>2. CASE j # b
      <4>1. j \in 1 .. b - 1
        <5>1. b \in Nat
          BY <1>10
        <5>2. \A y \in Nat : \A x \in 1 .. y : x # y => x \in 1 .. y - 1
          OBVIOUS
        <5>. QED  BY <3>2, <5>1, <5>2
      <4>. QED  BY <1>12, <2>1, <4>1
    <3>. QED  BY <3>1, <3>2
  <2>. QED  BY <1>5, <2>2, <2>3 DEF Leads
<1>16. b \in 1 .. b
  BY <1>10
<1>17. \A j \in 1 .. b - 1 : Leads(j, begun[j + 1].file)'
  <2>. SUFFICES ASSUME NEW j \in 1 .. b - 1 PROVE Leads(j, begun[j + 1].file)'
    OBVIOUS
  <2>1. PICK fn : fn = begun[j + 1].file /\ fn = begun'[j + 1].file
    BY <1>1
  <2>2. j \in 1 .. b
    OBVIOUS
  <2>3. Leads(j, fn)
    <3>1. j \in 1 .. Newest - 1
      <4>1. Newest = b
        BY <1>10
      <4>. QED  BY <4>1
    <3>. QED  BY <2>1, <3>1 DEF Chained
  <2>4. Leads(j, fn)'
    BY <1>15, <2>2, <2>3
  <2>. QED  BY <2>1, <2>4 DEF Leads
<1>18. CASE files # <<>>
  <2>1. files' # <<>> /\ Head(files') = Head(files)
    <3>1. CASE s.kind = "include"
      <4>1. s.name \in STRING /\ files' = Append(files, s.name)
        BY <1>1, <1>5, <1>6, <3>1, StatementType
      <4>. QED  BY <1>1, <1>18, <4>1
    <3>2. CASE s.kind # "include"
      BY <1>1, <1>5, <1>18, <3>2
    <3>. QED  BY <3>1, <3>2
  <2>2. PICK fn : fn = Head(files) /\ fn = Head(files')
    BY <2>1
  <2>3. Leads(b, fn)'
    <3>1. Leads(b, fn)
      BY <1>10, <1>18, <2>2 DEF Chained
    <3>. QED  BY <1>15, <1>16, <3>1
  <2>4. Leads(b, Head(files))'
    BY <2>2, <2>3 DEF Leads
  <2>. QED  BY <1>10, <1>17, <2>1, <2>4 DEF Chained
<1>19. CASE files = <<>> /\ s.kind = "include"
  <2>1. s.name \in STRING /\ files' = Append(files, s.name)
    BY <1>1, <1>5, <1>6, <1>19, StatementType
  <2>2. files' # <<>> /\ Head(files') = s.name
    <3>1. \A x \in STRING : Append(<<>>, x) # <<>> /\ Head(Append(<<>>, x)) = x
      OBVIOUS
    <3>. QED  BY <1>19, <2>1, <3>1
  <2>3. IncludesOf(b)' = {n + 1}
    BY <1>10, <1>13, <1>19 DEF Chained
  <2>4. Leads(b, s.name)'
    BY <1>5, <1>6, <1>8, <2>3 DEF Leads
  <2>5. Leads(b, Head(files))'
    BY <2>2, <2>4 DEF Leads
  <2>. QED  BY <1>10, <1>17, <2>2, <2>5 DEF Chained
<1>20. CASE files = <<>> /\ s.kind # "include"
  <2>1. files' = <<>> /\ IncludesOf(b)' = {}
    BY <1>1, <1>5, <1>10, <1>13, <1>20 DEF Chained
  <2>. QED  BY <1>10, <1>17, <2>1 DEF Chained
<1>. QED  BY <1>18, <1>19, <1>20

LEMMA ParseFollowed ==
    ASSUME Parsing, Followed, parse
    PROVE  Followed'
<1>1. /\ status = "ok" /\ stmt \in Statement /\ read' = Append(read, stmt)
      /\ UNCHANGED <<host, phase, begun>> /\ phase = "parse"
  BY ParseIs
<1>2. HistoryTypes /\ HistoryTypes'
  BY <1>1, AppendIs DEF Followed, HistoryTypes
<1>3. InPlace /\ Copied /\ InPlace' /\ Copied'
  BY <1>1, <1>2, ParsePlaced DEF Followed
<1>4. host.freed # "cleared" => Queued'
  BY <1>1, <1>2, <1>3, ParseQueued DEF Followed
<1>5. host.freed = "cleared" => Chained'
  BY <1>1, <1>2, <1>3, ParseChained DEF Followed
<1>. QED  BY <1>1, <1>2, <1>3, <1>4, <1>5 DEF Followed, Newest

\* Nothing of it changes while the image is finished.
LEMMA FollowedKept ==
    ASSUME Followed, UNCHANGED <<source, host, text, files, read, begun>>,
           status' # "wild" => status # "wild",
           phase' # "parse" => phase # "parse" \/ (text = <<>> /\ files = <<>>)
    PROVE  Followed'
<1>1. \A j : Text(j)' = Text(j)
  BY DEF Text
<1>2. InPlace => InPlace'
  BY <1>1 DEF InPlace, Newest
<1>3. Copied => Copied'
  BY <1>1 DEF Copied
<1>4. Queued => Queued'
  BY DEF Queued, Queue, Newest, Includes
<1>5. Chained => Chained'
  BY DEF Chained, Leads, IncludesOf, FileEnd, Newest
<1>. QED  BY <1>2, <1>3, <1>4, <1>5 DEF Followed, HistoryTypes, Newest

\* The next file begun: the one that has waited longest.
LEMMA WrapFollowed ==
    ASSUME Types, Types', Followed, yywrap, begin, UNCHANGED read
    PROVE  Followed'
<1>1. /\ status = "ok" /\ phase = "parse" /\ text = <<>> /\ files # <<>>
      /\ UNCHANGED <<source, host, phase, read>>
      /\ files \in Seq(STRING)
  BY DEF yywrap, Types
<1>2. PICK fn \in STRING : fn = Head(files) /\ fn = files[1]
  <2>1. Head(files) \in STRING /\ Head(files) = files[1]
    BY <1>1
  <2>. QED  BY <2>1
<1>3. PICK g \in Nat : /\ Len(files) = g + 1 /\ Len(Tail(files)) = g
                      /\ \A x \in 1 .. g : Tail(files)[x] = files[x + 1]
  <2>1. Len(Tail(files)) = Len(files) - 1 /\ Len(files) \in Nat /\ Len(files) # 0
    BY <1>1, HeadTailProperties
  <2>2. PICK g \in Nat : Len(files) = g + 1 /\ Len(Tail(files)) = g
    <3>1. Len(files) - 1 \in Nat /\ Len(files) = (Len(files) - 1) + 1
      BY <2>1
    <3>. QED  BY <2>1, <3>1
  <2>3. \A x \in 1 .. g : Tail(files)[x] = files[x + 1]
    BY <1>1, <2>2, HeadTailProperties
  <2>. QED  BY <2>2, <2>3
<1>4. PICK n, e : /\ n = Len(read) /\ e = [file |-> fn, at |-> n]
  OBVIOUS
<1>5. /\ n \in Nat /\ e \in [file : STRING, at : Nat] /\ e.file = fn /\ e.at = n
      /\ begun \in Seq([file : STRING, at : Nat]) /\ read \in Seq(Statement)
  BY <1>2, <1>4 DEF Followed, HistoryTypes
<1>6. begun' = Append(begun, e)
  <2>1. files' = Tail(files) \/ files' = <<>>
    BY DEF yywrap
  <2>2. Len(files') < Len(files)
    BY <1>3, <2>1
  <2>. QED  BY <1>2, <1>4, <2>2 DEF begin, Taken
<1>7. HistoryTypes'
  BY <1>1, <1>5, <1>6, AppendIs DEF HistoryTypes
<1>8. SUFFICES ASSUME status' # "wild"
               PROVE  /\ InPlace' /\ Copied'
                      /\ host.freed = "kept" => Queued'
                      /\ host.freed = "cleared" => Chained'
  <2>1. host.freed = "reused" => status' = "wild"
    BY DEF yywrap
  <2>. QED  BY <1>1, <1>7, <1>8, <2>1 DEF Followed
<1>9. /\ fn \in DOMAIN source.text /\ text' = source.text[fn]
      /\ InPlace /\ Copied
      /\ host.freed = "kept" => Queued /\ files' = Tail(files)
      /\ host.freed = "cleared" => Chained /\ files' = <<>>
  BY <1>1, <1>2, <1>8 DEF yywrap, Followed
<1>10. PICK b, begun1 : b = Newest /\ begun1 = begun'
  OBVIOUS
<1>11. /\ b \in Nat /\ b >= 1 /\ DOMAIN begun = 1 .. b /\ b \in DOMAIN begun
       /\ Len(begun) = b
  BY <1>5, <1>9, <1>10 DEF Newest, InPlace
<1>12. /\ Newest' = b + 1 /\ DOMAIN begun1 = 1 .. b + 1 /\ begun1[b + 1] = e
       /\ \A j \in 1 .. b : begun1[j] = begun[j]
  BY <1>5, <1>6, <1>10, <1>11, AppendIs DEF Newest
<1>13. /\ Text(b + 1)' = source.text[fn] /\ text' = Text(b + 1)'
       /\ \A j \in 1 .. b : Text(j)' = Text(j)
  BY <1>1, <1>5, <1>9, <1>10, <1>12 DEF Text
<1>14. /\ \A j \in 1 .. b : begun[j].at <= n /\ begun[j].file \in DOMAIN source.text
       /\ \A j \in 1 .. b - 1 : begun[j + 1].at = begun[j].at + Len(Text(j))
       /\ begun[1] = [file |-> source.main, at |-> 0]
  BY <1>4, <1>9, <1>10, <1>11 DEF InPlace
<1>15. n = begun[b].at + Len(Text(b))
  <2>1. begun[b].at + Len(Text(b)) = n + 0
    BY <1>1, <1>4, <1>9, <1>10 DEF InPlace
  <2>. QED  BY <1>5, <2>1
<1>16. PICK w \in Nat : w = Len(text') /\ DOMAIN text' = 1 .. w
  BY DEF Types
<1>17. InPlace'
  <2>1. begun1 # <<>> /\ begun1[1] = [file |-> source.main, at |-> 0]
    BY <1>11, <1>12, <1>14
  <2>2. ASSUME NEW j \in 1 .. b + 1
        PROVE  begun1[j].file \in DOMAIN source.text /\ begun1[j].at <= n
    <3>1. CASE j \in 1 .. b
      BY <1>12, <1>14, <3>1
    <3>2. CASE j = b + 1
      BY <1>5, <1>9, <1>12, <3>2
    <3>. QED  BY <1>11, <3>1, <3>2
  <2>3. ASSUME NEW j \in 1 .. b
        PROVE  begun1[j + 1].at = begun1[j].at + Len(Text(j)')
    <3>1. CASE j \in 1 .. b - 1
      <4>1. j + 1 \in 1 .. b
        BY <1>11, <3>1
      <4>. QED  BY <1>12, <1>13, <1>14, <3>1, <4>1
    <3>2. CASE j = b
      BY <1>5, <1>12, <1>13, <1>15, <3>2
    <3>. QED  BY <1>11, <3>1, <3>2
  <2>4. \A k \in 1 .. w : text'[k] = Text(b + 1)'[w - w + k]
    BY <1>13, <1>16
  <2>5. begun1[b + 1].at = n /\ (b + 1) - 1 = b
    BY <1>5, <1>11, <1>12
  <2>. QED  BY <1>1, <1>4, <1>10, <1>12, <1>13, <1>16, <2>1, <2>2, <2>3, <2>4, <2>5 DEF InPlace
<1>18. Copied'
  <2>1. ASSUME NEW j \in 1 .. b + 1, NEW k \in DOMAIN Text(j)', begun1[j].at + k <= n
        PROVE  read[begun1[j].at + k] = Text(j)'[k]
    <3>1. CASE j \in 1 .. b
      BY <1>4, <1>9, <1>11, <1>12, <1>13, <2>1, <3>1 DEF Copied
    <3>2. CASE j = b + 1
      <4>1. k \in 1 .. w /\ n + k <= n
        BY <1>5, <1>12, <1>13, <1>16, <2>1, <3>2
      <4>. QED  BY <1>5, <4>1
    <3>. QED  BY <1>11, <3>1, <3>2
  <2>. QED  BY <1>1, <1>4, <1>10, <1>12, <2>1 DEF Copied
<1>19. ASSUME host.freed = "kept" PROVE Queued'
  <2> DEFINE c == Count(read, n)
  <2>1. b + (g + 1) = 1 + c /\ c \in Nat
    <3>1. c = Includes(Len(read))
      BY <1>4 DEF Includes, Count
    <3>2. c \in Nat
      BY <1>5, CountIs
    <3>. HIDE DEF c
    <3>. QED  BY <1>3, <1>9, <1>19, <1>10, <3>1, <3>2 DEF Queued
  <2>2. ASSUME NEW x \in 1 .. b + (g + 1) PROVE Queue(x)' = Queue(x)
    <3>1. CASE x \in 1 .. b
      BY <1>10, <1>11, <1>12, <3>1 DEF Queue
    <3>2. CASE x = b + 1
      <4>1. ~(b + 1 <= b) /\ (b + 1) - b = 1
        BY <1>11
      <4>. QED  BY <1>2, <1>5, <1>10, <1>12, <3>2, <4>1 DEF Queue
    <3>3. CASE x > b + 1
      <4>1. PICK y \in 1 .. g : y = x - (b + 1) /\ y + 1 = x - b
        <5>1. x - (b + 1) \in 1 .. g /\ (x - (b + 1)) + 1 = x - b
          BY <1>11, <3>3
        <5>. QED  BY <5>1
      <4>2. ~(x <= b) /\ ~(x <= b + 1)
        BY <1>11, <3>3
      <4>. QED  BY <1>3, <1>9, <1>19, <1>10, <1>12, <4>1, <4>2 DEF Queue
    <3>. QED  BY <1>11, <3>1, <3>2, <3>3
  <2>3. ASSUME NEW i \in 1 .. n PROVE 1 + Includes(i) \in 1 .. b + (g + 1)
    <3>1. Count(read, i) \in Nat /\ Count(read, i) <= c
      BY <1>5, CountIs
    <3>. QED  BY <1>11, <2>1, <3>1 DEF Includes, Count
  <2>4. \A i : Includes(i)' = Includes(i)
    BY <1>1 DEF Includes
  <2>5. (b + 1) + g = 1 + Includes(n)
    BY <1>11, <2>1 DEF Includes, Count
  <2>6. DOMAIN read = 1 .. n
    BY <1>4, <1>5
  <2>. HIDE DEF c
  <2>7. \A i \in 1 .. n : read[i].kind = "include" => Queue(1 + Includes(i))' = read[i].name
    BY <1>9, <1>19, <2>2, <2>3, <2>4, <2>6 DEF Queued
  <2>. QED  BY <1>1, <1>3, <1>4, <1>9, <1>19, <1>12, <2>4, <2>5, <2>6, <2>7 DEF Queued
<1>20. ASSUME host.freed = "cleared" PROVE Chained'
  <2>2. ASSUME NEW j \in 1 .. b PROVE FileEnd(j)' = FileEnd(j) /\ IncludesOf(j)' = IncludesOf(j)
    <3>1. Len(begun') = b + 1 /\ j # b + 1
      BY <1>11, <1>12 DEF Newest
    <3>2. FileEnd(j)' = FileEnd(j)
      <4>1. CASE j = b
        <5>1. FileEnd(j)' = begun1[b + 1].at
          BY <1>10, <3>1, <4>1 DEF FileEnd
        <5>. QED  BY <1>4, <1>5, <1>11, <1>12, <4>1, <5>1 DEF FileEnd
      <4>2. CASE j # b
        <5>1. j + 1 \in 1 .. b
          BY <1>11, <4>2
        <5>2. FileEnd(j) = begun[j + 1].at
          BY <1>11, <4>2 DEF FileEnd
        <5>3. FileEnd(j)' = begun1[j + 1].at
          BY <1>10, <3>1 DEF FileEnd
        <5>. QED  BY <1>12, <5>1, <5>2, <5>3
      <4>. QED  BY <4>1, <4>2
    <3>3. begun'[j].at = begun[j].at
      BY <1>10, <1>12
    <3>. QED  BY <1>1, <3>2, <3>3 DEF IncludesOf
  <2>3. ASSUME NEW j \in 1 .. b, NEW name, Leads(j, name) PROVE Leads(j, name)'
    BY <1>1, <2>2, <2>3 DEF Leads
  <2>4. ASSUME NEW j \in 1 .. b PROVE Leads(j, begun[j + 1].file)'
    <3>1. PICK name : name = begun1[j + 1].file
      OBVIOUS
    <3>2. Leads(j, name)
      <4>1. CASE j = b
        BY <1>1, <1>2, <1>5, <1>9, <1>10, <1>12, <1>20, <3>1, <4>1 DEF Chained
      <4>2. CASE j # b
        <5>1. j \in 1 .. b - 1 /\ j + 1 \in 1 .. b
          BY <1>11, <4>2
        <5>. QED  BY <1>9, <1>10, <1>12, <1>20, <3>1, <5>1 DEF Chained
      <4>. QED  BY <4>1, <4>2
    <3>3. Leads(j, name)'
      BY <2>3, <3>2
    <3>. QED  BY <1>10, <3>1, <3>3 DEF Leads
  <2>5. IncludesOf(b + 1)' = {}
    <3>1. FileEnd(b + 1)' = n
      BY <1>1, <1>4, <1>12 DEF FileEnd, Newest
    <3>2. begun'[b + 1].at = n
      BY <1>5, <1>10, <1>12
    <3>3. n + 1 .. n = {}
      BY <1>5
    <3>. QED  BY <3>1, <3>2, <3>3 DEF IncludesOf
  <2>6. (b + 1) - 1 = b
    BY <1>11
  <2>. QED  BY <1>9, <1>12, <1>20, <2>4, <2>5, <2>6 DEF Chained
<1>. QED  BY <1>17, <1>18, <1>19, <1>20

LEMMA NextFollowed == Types /\ Parsing /\ Followed /\ [TraceNext]_traceVars => Followed'
<1>. SUFFICES ASSUME Types, Parsing, Followed, [TraceNext]_traceVars PROVE Followed'
  OBVIOUS
<1>1. Types'
  <2>1. [Next]_vars
    BY DEF TraceNext, traceVars, parse, Next
  <2>. QED  BY <2>1, NextTypes
<1>2. CASE parse
  BY <1>2, ParseFollowed
<1>3. CASE yywrap /\ begin /\ UNCHANGED read
  BY <1>1, <1>3, WrapFollowed
<1>4. CASE (yyaccept \/ write_data \/ write_prologue) /\ begin /\ UNCHANGED read
  <2>1. /\ UNCHANGED <<source, host, text, files>> /\ status = "ok"
        /\ phase # "parse" \/ (text = <<>> /\ files = <<>>)
    BY <1>4 DEF yyaccept, write_data, write_prologue
  <2>2. Len(files) \in Nat /\ ~(Len(files) < Len(files))
    BY DEF Types
  <2>3. begun' = begun
    BY <1>4, <2>1, <2>2 DEF begin, Taken
  <2>. QED  BY <1>4, <2>1, <2>3, FollowedKept
<1>5. CASE UNCHANGED traceVars
  <2>1. UNCHANGED <<source, host, text, files, read, begun, status, phase>>
    BY <1>5 DEF traceVars, vars
  <2>. QED  BY <2>1, FollowedKept
<1>. QED  BY <1>2, <1>3, <1>4, <1>5 DEF TraceNext

----------------------------------------------------------------------------
(* What has been read in the end *)

LEMMA AllRead ==
    ASSUME Types, Followed, status = "done", phase = "main"
    PROVE  ReadsAll
<1>1. /\ InPlace /\ Copied /\ text = <<>> /\ files = <<>>
      /\ host.freed # "cleared" => Queued
      /\ host.freed = "cleared" => Chained
      /\ host.freed = "reused" => Newest = 1
      /\ read \in Seq(Statement) /\ begun \in Seq([file : STRING, at : Nat])
  BY DEF Followed, HistoryTypes
<1>2. PICK n, b : n = Len(read) /\ b = Newest
  OBVIOUS
<1>3. n \in Nat /\ DOMAIN read = 1 .. n
  BY <1>1, <1>2
<1>4. b \in Nat /\ b >= 1 /\ DOMAIN begun = 1 .. b /\ Len(begun) = b
  BY <1>1, <1>2 DEF Newest, InPlace
<1>5. ASSUME Queued PROVE Len(begun) = 1 + Includes(n)
  <2>1. b + 0 = 1 + Includes(Len(read))
    BY <1>1, <1>2, <1>5 DEF Queued
  <2>. QED  BY <1>2, <1>4, <2>1
<1>6. ASSUME Queued, NEW i \in DOMAIN read, read[i].kind = "include"
      PROVE  begun[1 + Includes(i)].file = read[i].name /\ Includes(n) > 0
  <2>1. Count(read, i) \in Nat /\ Count(read, i) <= Count(read, n) /\ Count(read, n) \in Nat
    BY <1>3, CountIs
  <2>2. Includes(i) = Count(read, i) /\ Includes(n) = Count(read, n)
    BY DEF Includes, Count
  <2>3. 1 + Includes(i) <= b
    BY <1>4, <1>5, <1>6, <2>1, <2>2
  <2>4. Count(read, i) > 0
    <3>1. i - 1 \in Nat /\ (i - 1) + 1 = i
      BY <1>3
    <3>2. /\ Count(read, i - 1) \in Nat
          /\ Count(read, (i - 1) + 1) = Count(read, i - 1) + 1
      BY <1>6, <3>1, CountIs
    <3>. QED  BY <3>1, <3>2
  <2>5. begun[1 + Includes(i)].file = read[i].name
    BY <1>2, <1>6, <2>3 DEF Queued, Queue
  <2>. QED  BY <2>1, <2>2, <2>4, <2>5
<1>7. ASSUME NEW j \in DOMAIN begun, NEW end,
             end = IF j = Len(begun) THEN Len(read) ELSE begun[j + 1].at
      PROVE  Text(j) = SubSeq(read, begun[j].at + 1, end)
  <2>1. PICK t, at, w : t = Text(j) /\ at = begun[j].at /\ w = Len(t)
    OBVIOUS
  <2>2. t \in Seq(Statement) /\ w \in Nat /\ DOMAIN t = 1 .. w
    BY <1>1, <2>1, TextType DEF InPlace, Text
  <2>3. at \in Nat
    <3>1. begun[j] \in [file : STRING, at : Nat]
      BY <1>1, ElementType
    <3>. QED  BY <2>1, <3>1
  <2>4. end = at + w /\ end <= n
    <3>1. CASE j = b
      <4>1. begun[b].at + Len(Text(b)) = n + 0
        BY <1>1, <1>2 DEF InPlace
      <4>. QED  BY <1>2, <1>3, <1>4, <1>7, <2>1, <3>1, <4>1
    <3>2. CASE j # b
      <4>1. j \in 1 .. b - 1 /\ j + 1 \in 1 .. b
        BY <1>4, <3>2
      <4>2. begun[j + 1].at = at + w /\ begun[j + 1].at <= n
        BY <1>1, <1>2, <1>4, <2>1, <4>1 DEF InPlace
      <4>. QED  BY <1>4, <1>7, <3>2, <4>2
    <3>. QED  BY <3>1, <3>2
  <2>5. \A k \in 1 .. w : read[at + k] = t[k]
    <3>1. \A k \in 1 .. w : at + k <= n
      BY <1>3, <2>2, <2>3, <2>4
    <3>. QED  BY <1>1, <1>2, <2>1, <2>2, <3>1 DEF Copied
  <2>6. PICK p : p = SubSeq(read, at + 1, end)
    OBVIOUS
  <2>7. /\ p \in Seq(Statement) /\ Len(p) = w
        /\ \A k \in 1 .. w : p[k] = read[at + k]
    <3>1. at + 1 \in Int /\ end \in Int /\ \A i \in at + 1 .. end : i \in DOMAIN read
      BY <1>3, <2>2, <2>3, <2>4
    <3>2. \A i \in at + 1 .. end : read[i] \in Statement
      BY <1>1, <3>1, ElementType
    <3>3. /\ p \in Seq(Statement)
          /\ Len(p) = IF at + 1 <= end THEN end - (at + 1) + 1 ELSE 0
          /\ \A k \in 1 .. end - (at + 1) + 1 : p[k] = read[at + 1 + k - 1]
      BY <2>6, <3>1, <3>2, SubSeqProperties
    <3>4. end - (at + 1) + 1 = w
      BY <2>2, <2>3, <2>4
    <3>5. \A k \in 1 .. w : at + 1 + k - 1 = at + k
      BY <2>3
    <3>6. Len(p) = w
      BY <2>2, <2>3, <2>4, <3>3
    <3>. QED  BY <3>3, <3>4, <3>5, <3>6
  <2>8. \A k \in 1 .. w : p[k] = t[k]
    BY <2>5, <2>7
  <2>9. p = t
    BY <2>1, <2>2, <2>7, <2>8, SeqEqual
  <2>. QED  BY <2>1, <2>6, <2>9
<1>8. begun[1] = [file |-> source.main, at |-> 0]
  BY <1>1 DEF InPlace
<1>9. ASSUME NEW j \in DOMAIN begun
      PROVE  Text(j) = SubSeq(read, begun[j].at + 1, FileEnd(j))
  BY <1>7 DEF FileEnd
<1>10. ASSUME Queued PROVE AllIncluded
  BY <1>2, <1>5, <1>6, <1>10 DEF AllIncluded
<1>11. ASSUME host.freed = "reused" PROVE ~IncludesAny
  <2>1. Queued /\ 1 = 1 + Includes(n)
    BY <1>1, <1>2, <1>4, <1>5, <1>11
  <2>2. Includes(n) \in Nat
    BY <1>3, CountIs DEF Includes, Count
  <2>3. ~(Includes(n) > 0)
    BY <2>1, <2>2
  <2>. QED  BY <1>6, <2>1, <2>3 DEF IncludesAny
<1>12. ASSUME Chained PROVE FirstIncluded
  <2>. SUFFICES ASSUME NEW j \in DOMAIN begun
                PROVE  \/ IncludesOf(j) = {} /\ j = Len(begun)
                       \/ \E i \in IncludesOf(j) :
                             /\ \A k \in IncludesOf(j) : i <= k
                             /\ j < Len(begun) /\ begun[j + 1].file = read[i].name
    BY DEF FirstIncluded
  <2>1. CASE j = b
    BY <1>1, <1>2, <1>4, <1>12, <2>1 DEF Chained
  <2>2. CASE j # b
    <3>1. j \in 1 .. b - 1 /\ j < Len(begun)
      BY <1>4, <2>2
    <3>. QED  BY <1>2, <1>12, <3>1 DEF Chained, Leads
  <2>. QED  BY <2>1, <2>2
<1>. QED  BY <1>1, <1>8, <1>9, <1>10, <1>11, <1>12 DEF ReadsAll

\* The image is finished in the last phase.
Finished == status = "done" => phase = "main"

LEMMA FinishedKept == Types /\ Finished /\ [Next]_vars => Finished'
BY DEF Finished, Next, vars, stmts, lbl_def, include, data, data_str, equ, equrel, res, pusht,
       pushtv, op, yyerror, Defines, Reads, push0, push1, emit, yywrap, yyaccept, write_data,
       write_prologue

\* For every source, however its files include each other, and every heap: what
\* has been assembled in the end is a sequence of whole files that begins with
\* the main one.  On a heap that keeps what was freed they are one for every
\* statement that includes a file, in the order of these; on one that clears it,
\* each was included first by the one before it, and the other files are lost;
\* where the freed block is used again, no program that includes a file gets to
\* its end (include, yywrap).
THEOREM EverythingRead == TraceSpec => []ReadsAll
<1>1. TraceInit => Init /\ Types /\ Parsing /\ Followed /\ Finished
  <2>1. TraceInit => Init /\ Followed
    BY InitFollowed DEF TraceInit
  <2>2. Init => Parsing /\ phase # "main" /\ status = "ok"
    BY InitParsing DEF Init
  <2>. QED  BY <2>1, <2>2 DEF Parsing, Finished
<1>2. Types /\ Parsing /\ Followed /\ Finished /\ [TraceNext]_traceVars
      => (Types /\ Parsing /\ Followed /\ Finished)'
  <2>1. [TraceNext]_traceVars => [Next]_vars
    BY DEF TraceNext, traceVars, parse, Next
  <2>. QED  BY <2>1, NextFollowed, NextParsing, NextTypes, FinishedKept
<1>3. Types /\ Followed /\ Finished => ReadsAll
  BY AllRead DEF Finished, ReadsAll
<1>. QED  BY <1>1, <1>2, <1>3, PTL DEF TraceSpec

=============================================================================
