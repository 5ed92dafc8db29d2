----------------------- MODULE CatalogIngestionProofs -----------------------
(***************************************************************************)
(* The catalogue's filling, for any lists, plans, workers and faults; the  *)
(* cutting of the registry's dump, for any dump, limit and batch size; and *)
(* what the real lists make of the seeded catalogue, for any documents and *)
(* any number of imports.                                                  *)
(***************************************************************************)
EXTENDS CatalogIngestion, CatalogueContents, FiniteSetTheorems, SequenceTheorems,
        WellFoundedInduction, TLAPS

-----------------------------------------------------------------------------
(* The registry's command cuts its dump into batches.                      *)

\* The numbers of the lines of full files are the multiples of the size.
LEMMA Remainders ==
  ASSUME NEW size \in Nat \ {0}, NEW q \in Nat, NEW k \in 1 .. size
  PROVE  (q * size + k) % size = 0 <=> k = size
  BY SMT

\* A file is full where the next record opens another; the numbers of the lines go on.
LEMMA OpensWhenFull ==
  ASSUME NEW size \in Nat \ {0}, NEW last \in Nat \ {0}, NEW k \in 1 .. size
  PROVE  /\ OpensBatch(Number(last, k, size), size) <=> k = size
         /\ Number(last, k, size) + 1 = Number(last, k + 1, size)
         /\ k = size => Number(last, k, size) + 1 = Number(last + 1, 1, size)
<1> DEFINE q == last - 1
<1>1. q \in Nat /\ k \in Nat
  OBVIOUS
<1>2. Number(last, k, size) = q * size + k /\ Number(last, k + 1, size) = q * size + (k + 1)
  BY DEF Number
<1>3. Number(last + 1, 1, size) = q * size + size + 1
  <2>1. last + 1 - 1 = q + 1
    OBVIOUS
  <2>2. (q + 1) * size = q * size + size
    BY <1>1
  <2> QED BY <2>1, <2>2 DEF Number
<1> HIDE DEF q
<1>4. OpensBatch(Number(last, k, size), size) <=> k = size
  BY <1>1, <1>2, Remainders DEF OpensBatch
<1>5. q * size \in Nat
  BY <1>1
<1> QED BY <1>1, <1>2, <1>3, <1>4, <1>5

\* The next document adds its place to those of the records, or nothing.
LEMMA ImportedGrows ==
  ASSUME NEW dump \in Seq(Documents), NEW n \in Nat
  PROVE  /\ IsFiniteSet(Imported(dump, n)) /\ Cardinality(Imported(dump, n)) \in Nat
         /\ ParseDocument(dump[n + 1]) = Absent => Imported(dump, n + 1) = Imported(dump, n)
         /\ ParseDocument(dump[n + 1]) # Absent =>
              /\ Imported(dump, n + 1) = Imported(dump, n) \cup {n + 1}
              /\ Cardinality(Imported(dump, n + 1)) = Cardinality(Imported(dump, n)) + 1
<1>1. IsFiniteSet(1 .. n)
  BY FS_Interval
<1>2. IsFiniteSet(Imported(dump, n)) /\ Cardinality(Imported(dump, n)) \in Nat
  BY <1>1, FS_Subset, FS_CardinalityType DEF Imported
<1>3. 1 .. n + 1 = (1 .. n) \cup {n + 1} /\ n + 1 \notin 1 .. n
  OBVIOUS
<1>4. ASSUME ParseDocument(dump[n + 1]) = Absent
      PROVE  Imported(dump, n + 1) = Imported(dump, n)
  BY <1>3, <1>4 DEF Imported
<1>5. ASSUME ParseDocument(dump[n + 1]) # Absent
      PROVE  /\ Imported(dump, n + 1) = Imported(dump, n) \cup {n + 1}
             /\ Cardinality(Imported(dump, n + 1)) = Cardinality(Imported(dump, n)) + 1
  <2>1. Imported(dump, n + 1) = Imported(dump, n) \cup {n + 1}
    BY <1>3, <1>5 DEF Imported
  <2>2. n + 1 \notin Imported(dump, n)
    BY <1>3 DEF Imported
  <2> QED BY <1>2, <2>1, <2>2, FS_AddElement
<1> QED BY <1>2, <1>4, <1>5

\* Where a line is.
IsLine(x, files, size) ==
  \E b \in 1 .. Len(files) : \E i \in 1 .. Len(files[b]) :
    x = <<Number(b, i, size), files[b][i]>>

LEMMA LineFacts ==
  ASSUME NEW S, NEW files \in Seq(Seq(S)), NEW size \in Nat, NEW x
  PROVE  x \in LinesOf(files, size) <=> IsLine(x, files, size)
<1>1. /\ DOMAIN files = 1 .. Len(files)
      /\ \A b \in 1 .. Len(files) : DOMAIN files[b] = 1 .. Len(files[b])
  BY LenProperties, ElementOfSeq
<1>2. ASSUME x \in LinesOf(files, size) PROVE IsLine(x, files, size)
  <2>1. PICK b \in DOMAIN files : x \in {<<Number(b, i, size), files[b][i]>> : i \in DOMAIN files[b]}
    BY <1>2 DEF LinesOf
  <2>2. PICK i \in DOMAIN files[b] : x = <<Number(b, i, size), files[b][i]>>
    BY <2>1
  <2> QED BY <1>1, <2>2 DEF IsLine
<1>3. ASSUME NEW b \in 1 .. Len(files), NEW i \in 1 .. Len(files[b]),
             x = <<Number(b, i, size), files[b][i]>>
      PROVE  x \in LinesOf(files, size)
  <2>1. b \in DOMAIN files /\ i \in DOMAIN files[b]
    BY <1>1
  <2>2. x \in {<<Number(b, j, size), files[b][j]>> : j \in DOMAIN files[b]}
    BY <1>3, <2>1
  <2> QED BY <2>1, <2>2 DEF LinesOf
<1> QED BY <1>2, <1>3 DEF IsLine

\* A file more.
LEMMA FileOpened ==
  ASSUME NEW S, NEW files \in Seq(Seq(S)), NEW record \in S, NEW size \in Nat
  PROVE  LET last == Len(files)
             opened == WithFile(files, record)
         IN  /\ opened \in Seq(Seq(S)) /\ Len(opened) = last + 1
             /\ opened[last + 1] = <<record>>
             /\ \A b \in 1 .. last : opened[b] = files[b]
             /\ LinesOf(opened, size) = LinesOf(files, size) \cup {<<Number(last + 1, 1, size), record>>}
<1> DEFINE last == Len(files)
           opened == WithFile(files, record)
           line == <<Number(last + 1, 1, size), record>>
<1>1. last \in Nat
  BY LenProperties
<1>2. /\ opened \in Seq(Seq(S)) /\ Len(opened) = last + 1
      /\ opened[last + 1] = <<record>>
      /\ \A b \in 1 .. last : opened[b] = files[b]
  <2>1. <<record>> \in Seq(S)
    OBVIOUS
  <2> QED BY <1>1, <2>1, AppendProperties DEF WithFile
<1>3. Len(<<record>>) = 1 /\ <<record>>[1] = record
  OBVIOUS
<1> HIDE DEF last, opened
<1>4. ASSUME NEW x PROVE x \in LinesOf(opened, size) <=> x \in LinesOf(files, size) \/ x = line
  <2>1. x \in LinesOf(files, size) <=>
          \E b \in 1 .. last : \E i \in 1 .. Len(files[b]) :
            x = <<Number(b, i, size), files[b][i]>>
    <3>1. x \in LinesOf(files, size) <=> IsLine(x, files, size)
      BY LineFacts
    <3> QED BY <3>1 DEF IsLine, last
  <2>2. x \in LinesOf(opened, size) <=>
          \E b \in 1 .. last + 1 : \E i \in 1 .. Len(opened[b]) :
            x = <<Number(b, i, size), opened[b][i]>>
    <3>1. x \in LinesOf(opened, size) <=> IsLine(x, opened, size)
      BY <1>2, LineFacts
    <3> QED BY <1>2, <3>1 DEF IsLine
  <2>3. 1 .. last + 1 = (1 .. last) \cup {last + 1}
    BY <1>1
  <2>4. (\E i \in 1 .. Len(opened[last + 1]) : x = <<Number(last + 1, i, size), opened[last + 1][i]>>)
          <=> x = line
    BY <1>2, <1>3
  <2>5. ASSUME NEW b \in 1 .. last
        PROVE  (\E i \in 1 .. Len(opened[b]) : x = <<Number(b, i, size), opened[b][i]>>)
                 <=> (\E i \in 1 .. Len(files[b]) : x = <<Number(b, i, size), files[b][i]>>)
    BY <1>2
  <2> HIDE DEF line
  <2> DEFINE In(b) == \E i \in 1 .. Len(opened[b]) : x = <<Number(b, i, size), opened[b][i]>>
             Was(b) == \E i \in 1 .. Len(files[b]) : x = <<Number(b, i, size), files[b][i]>>
  <2>6. /\ x \in LinesOf(opened, size) <=> \E b \in 1 .. last + 1 : In(b)
        /\ x \in LinesOf(files, size) <=> \E b \in 1 .. last : Was(b)
        /\ In(last + 1) <=> x = line
        /\ \A b \in 1 .. last : In(b) <=> Was(b)
    BY <2>1, <2>2, <2>4, <2>5
  <2> HIDE DEF In, Was
  <2> QED BY <2>3, <2>6
<1>5. LinesOf(opened, size) = LinesOf(files, size) \cup {line}
  BY <1>4
<1> QED BY <1>2, <1>5 DEF last, opened

\* A line more in the last file.
LEMMA FileGrows ==
  ASSUME NEW S, NEW files \in Seq(Seq(S)), NEW record \in S, NEW size \in Nat, files # <<>>
  PROVE  LET last == Len(files)
             longer == WithLine(files, record)
         IN  /\ last # 0 /\ longer \in Seq(Seq(S)) /\ Len(longer) = last
             /\ Len(longer[last]) = Len(files[last]) + 1
             /\ \A b \in 1 .. last - 1 : longer[b] = files[b]
             /\ LinesOf(longer, size) = LinesOf(files, size)
                  \cup {<<Number(last, Len(files[last]) + 1, size), record>>}
<1> DEFINE last == Len(files)
           longer == WithLine(files, record)
           old == files[last]
           new == Append(old, record)
           k == Len(old)
           line == <<Number(last, k + 1, size), record>>
<1>1. last \in Nat /\ last # 0 /\ last \in 1 .. last
  BY LenProperties, EmptySeq
<1>2. old \in Seq(S) /\ k \in Nat
  BY <1>1, ElementOfSeq, LenProperties
<1>3. /\ new \in Seq(S) /\ Len(new) = k + 1 /\ new[k + 1] = record
      /\ \A i \in 1 .. k : new[i] = old[i]
  BY <1>2, AppendProperties
<1>4. /\ longer \in Seq(Seq(S)) /\ Len(longer) = last
      /\ \A b \in 1 .. last : longer[b] = IF b = last THEN new ELSE files[b]
  <2>1. longer = [files EXCEPT ![last] = new]
    BY DEF WithLine
  <2> HIDE DEF new, longer
  <2> QED BY <1>1, <1>3, <2>1, ExceptSeq
<1> HIDE DEF longer
<1>5. /\ longer[last] = new /\ 1 .. last = (1 .. last - 1) \cup {last}
      /\ \A b \in 1 .. last - 1 : longer[b] = files[b]
  <2> HIDE DEF last, new
  <2>1. 1 .. last = (1 .. last - 1) \cup {last} /\ \A b \in 1 .. last - 1 : b \in 1 .. last /\ b # last
    BY <1>1
  <2> QED BY <1>1, <1>4, <2>1
<1>6. ASSUME NEW x PROVE x \in LinesOf(longer, size) <=> x \in LinesOf(files, size) \/ x = line
  <2>1. x \in LinesOf(files, size) <=>
          \E b \in 1 .. last : \E i \in 1 .. Len(files[b]) :
            x = <<Number(b, i, size), files[b][i]>>
    <3>1. x \in LinesOf(files, size) <=> IsLine(x, files, size)
      BY LineFacts
    <3> QED BY <3>1 DEF IsLine
  <2>2. x \in LinesOf(longer, size) <=>
          \E b \in 1 .. last : \E i \in 1 .. Len(longer[b]) :
            x = <<Number(b, i, size), longer[b][i]>>
    <3>1. x \in LinesOf(longer, size) <=> IsLine(x, longer, size)
      BY <1>4, LineFacts
    <3> HIDE DEF last
    <3> QED BY <1>4, <3>1 DEF IsLine
  <2> HIDE DEF last, old, new, k, line
  <2>3. (\E i \in 1 .. Len(new) : x = <<Number(last, i, size), new[i]>>)
          <=> (\E i \in 1 .. k : x = <<Number(last, i, size), old[i]>>) \/ x = line
    <3>1. 1 .. k + 1 = (1 .. k) \cup {k + 1}
      BY <1>2
    <3> QED BY <1>3, <3>1 DEF line
  <2> QED BY <1>5, <2>1, <2>2, <2>3 DEF old, k
<1>7. LinesOf(longer, size) = LinesOf(files, size) \cup {line}
  BY <1>6
<1>8. Len(longer[last]) = k + 1
  BY <1>3, <1>5
<1> QED BY <1>1, <1>4, <1>5, <1>7, <1>8 DEF longer

-----------------------------------------------------------------------------
\* The fields of the command's state.
CutFields == {"pc", "dump", "at", "limit", "size", "written", "files"}

\* A record read is the next one.
LEMMA RecordsGrow ==
  ASSUME NEW dump \in Seq(Documents), NEW n \in Nat
  PROVE  /\ ParseDocument(dump[n + 1]) = Absent => RecordsOf(dump, n + 1) = RecordsOf(dump, n)
         /\ ParseDocument(dump[n + 1]) # Absent =>
              RecordsOf(dump, n + 1) = RecordsOf(dump, n) \cup
                {<<Cardinality(Imported(dump, n)) + 1, ParseDocument(dump[n + 1])>>}
<1>1. CASE ParseDocument(dump[n + 1]) = Absent
  BY <1>1, ImportedGrows DEF RecordsOf
<1>2. CASE ParseDocument(dump[n + 1]) # Absent
  <2> DEFINE line(k) == <<Cardinality(Imported(dump, k)), ParseDocument(dump[k])>>
             places == Imported(dump, n)
             more == Imported(dump, n + 1)
             before == {line(k) : k \in places}
             after == {line(k) : k \in more}
  <2>1. more = places \cup {n + 1} /\ Cardinality(more) = Cardinality(places) + 1
    BY <1>2, ImportedGrows
  <2>2. RecordsOf(dump, n) = before /\ RecordsOf(dump, n + 1) = after
    BY DEF RecordsOf
  <2>3. line(n + 1) = <<Cardinality(places) + 1, ParseDocument(dump[n + 1])>>
    BY <2>1
  <2> HIDE DEF line, places, more
  <2>4. after = before \cup {line(n + 1)}
    BY <2>1
  <2> HIDE DEF before, after
  <2> QED BY <1>2, <2>2, <2>3, <2>4 DEF places
<1> QED BY <1>1, <1>2

\* A command that has not read a document yet, idle or at work.
LEMMA NothingCut ==
  ASSUME NEW dump \in Seq(Documents), NEW limit \in Nat, NEW size \in Nat \ {0},
         NEW pc \in {"idle", "cutting"}
  PROVE  /\ cut = [Cutting(dump, limit, size) EXCEPT !.pc = pc] => CutInv
         /\ cut' = [Cutting(dump, limit, size) EXCEPT !.pc = pc] => CutInv'
<1> DEFINE c == [Cutting(dump, limit, size) EXCEPT !.pc = pc]
<1>1. /\ c.pc = pc /\ c.dump = dump /\ c.at = 0 /\ c.limit = limit
      /\ c.size = size /\ c.written = 0 /\ c.files = <<>>
  BY DEF Cutting
<1>2. <<>> \in Seq(Seq({ParseDocument(d) : d \in Documents})) /\ Len(<<>>) = 0
      /\ DOMAIN <<>> = {}
  BY EmptySeq
<1>3. c = [pc |-> pc, dump |-> dump, at |-> 0, limit |-> limit, size |-> size,
           written |-> 0, files |-> <<>>]
  BY DEF Cutting
<1>4. Imported(dump, 0) = {} /\ Cardinality(Imported(dump, 0)) = 0
  BY FS_EmptySet DEF Imported
<1>5. LinesOf(<<>>, size) = {} /\ RecordsOf(dump, 0) = {}
  BY <1>2, <1>4 DEF LinesOf, RecordsOf
<1>6. 0 <= Len(dump) /\ 0 <= limit
  BY LenProperties
<1> HIDE DEF c
<1>7. ASSUME cut = c PROVE CutInv
  <2>1. CutTypeOK
    BY <1>2, <1>3, <1>7 DEF CutTypeOK
  <2>2. BatchesAreTheDump
    BY <1>1, <1>2, <1>5, <1>7 DEF BatchesAreTheDump
  <2>3. /\ cut.dump = dump /\ cut.at = 0 /\ cut.limit = limit
        /\ cut.written = 0 /\ cut.files = <<>>
    BY <1>1, <1>7
  <2> QED BY <1>4, <1>6, <2>1, <2>2, <2>3 DEF CutInv
<1>8. ASSUME cut' = c PROVE CutInv'
  <2>1. CutTypeOK'
    BY <1>2, <1>3, <1>8 DEF CutTypeOK
  <2>2. BatchesAreTheDump'
    BY <1>1, <1>2, <1>5, <1>8 DEF BatchesAreTheDump
  <2>3. /\ cut'.dump = dump /\ cut'.at = 0 /\ cut'.limit = limit
        /\ cut'.written = 0 /\ cut'.files = <<>>
    BY <1>1, <1>8
  <2> QED BY <1>4, <1>6, <2>1, <2>2, <2>3 DEF CutInv
<1> QED BY <1>7, <1>8 DEF c

\* A record is written: it is the next line, in a file that has room for it or in
\* a new one.
LEMMA WriteKeeps ==
  ASSUME CutInv, cut.pc = "cutting", cut.at < Len(cut.dump),
         ParseDocument(cut.dump[cut.at + 1]) # Absent, cut.written < cut.limit,
         cut' = Written(ParseDocument(cut.dump[cut.at + 1]))
  PROVE  CutInv'
<1> DEFINE record == ParseDocument(cut.dump[cut.at + 1])
           S == {ParseDocument(d) : d \in Documents}
           files == cut.files
           size == cut.size
           last == Len(files)
           at == cut.at + 1
           written == cut.written + 1
           opened == WithFile(files, record)
           longer == WithLine(files, record)
<1>1. /\ cut.dump \in Seq(Documents) /\ cut.at \in Nat /\ cut.limit \in Nat
      /\ size \in Nat \ {0} /\ cut.written \in Nat /\ files \in Seq(Seq(S))
      /\ DOMAIN cut = CutFields
  BY DEF CutInv, CutTypeOK, CutFields
<1>2. record \in S /\ at \in Nat
  <2>1. Len(cut.dump) \in Nat /\ at \in 1 .. Len(cut.dump)
    BY <1>1, LenProperties
  <2>2. cut.dump[at] \in Documents
    BY <1>1, <2>1, ElementOfSeq
  <2> QED BY <1>1, <2>2
<1> HIDE DEF record, S, files, size
<1>3. last \in Nat /\ DOMAIN files = 1 .. last
  BY <1>1, LenProperties
<1>4. /\ opened \in Seq(Seq(S)) /\ Len(opened) = last + 1
      /\ opened[last + 1] = <<record>>
      /\ \A b \in 1 .. last : opened[b] = files[b]
      /\ LinesOf(opened, size) =
           LinesOf(files, size) \cup {<<Number(last + 1, 1, size), record>>}
  <2>1. files \in Seq(Seq(S)) /\ record \in S /\ size \in Nat
    BY <1>1, <1>2
  <2> QED BY <2>1, FileOpened, SMTT(30)
<1>5. ASSUME files # <<>>
      PROVE  /\ last # 0 /\ longer \in Seq(Seq(S)) /\ Len(longer) = last
             /\ Len(longer[last]) = Len(files[last]) + 1
             /\ \A b \in 1 .. last - 1 : longer[b] = files[b]
             /\ LinesOf(longer, size) = LinesOf(files, size)
                  \cup {<<Number(last, Len(files[last]) + 1, size), record>>}
  <2>1. files \in Seq(Seq(S)) /\ record \in S /\ size \in Nat
    BY <1>1, <1>2
  <2> QED BY <1>5, <2>1, FileGrows, SMTT(30)
<1>6. /\ LinesOf(files, size) = RecordsOf(cut.dump, cut.at)
      /\ \A b \in 1 .. last : Len(files[b]) \in 1 .. size /\ (b < last => Len(files[b]) = size)
      /\ cut.written = IF files = <<>> THEN 0 ELSE Number(last, Len(files[last]), size)
      /\ cut.written = Cardinality(Imported(cut.dump, cut.at))
  BY <1>3 DEF CutInv, BatchesAreTheDump, files, size
<1>7. /\ RecordsOf(cut.dump, at) = RecordsOf(cut.dump, cut.at) \cup {<<written, record>>}
      /\ Cardinality(Imported(cut.dump, at)) = written
  <2>1. cut.dump \in Seq(Documents) /\ cut.at \in Nat /\ record # Absent
    BY <1>1 DEF record
  <2>2. RecordsOf(cut.dump, at) = RecordsOf(cut.dump, cut.at)
          \cup {<<Cardinality(Imported(cut.dump, cut.at)) + 1, record>>}
    BY <2>1, RecordsGrow DEF record
  <2>3. Cardinality(Imported(cut.dump, at)) = Cardinality(Imported(cut.dump, cut.at)) + 1
    BY <2>1, ImportedGrows DEF record
  <2> HIDE DEF at
  <2> QED BY <1>6, <2>2, <2>3
<1>8. /\ at <= Len(cut.dump) /\ written <= cut.limit /\ written \in Nat /\ at \in Nat
  BY <1>1, LenProperties
<1>9. ASSUME NEW new \in Seq(Seq(S)), new # <<>>,
             cut' = [cut EXCEPT !.at = @ + 1, !.written = @ + 1, !.files = new],
             LinesOf(new, size) = LinesOf(files, size) \cup {<<written, record>>},
             \A b \in 1 .. Len(new) :
               Len(new[b]) \in 1 .. size /\ (b < Len(new) => Len(new[b]) = size),
             written = Number(Len(new), Len(new[Len(new)]), size)
      PROVE  CutInv'
  <2>1. /\ cut'.pc = "cutting" /\ cut'.dump = cut.dump /\ cut'.at = at
        /\ cut'.limit = cut.limit /\ cut'.size = size /\ cut'.written = written
        /\ cut'.files = new /\ DOMAIN cut' = CutFields
    BY <1>1, <1>9 DEF CutFields, size
  <2> HIDE DEF at, written
  <2>2. CutTypeOK'
    <3>1. cut' = [pc |-> "cutting", dump |-> cut.dump, at |-> at, limit |-> cut.limit,
                  size |-> size, written |-> written, files |-> new]
      BY <1>1, <1>9 DEF CutFields, size, at, written, CutInv, CutTypeOK
    <3> QED BY <1>1, <1>8, <3>1 DEF CutTypeOK, S
  <2>3. DOMAIN new = 1 .. Len(new)
    BY LenProperties
  <2>4. BatchesAreTheDump'
    BY <1>6, <1>7, <1>9, <2>1, <2>3 DEF BatchesAreTheDump
  <2> QED BY <1>7, <1>8, <1>9, <2>1, <2>2, <2>4 DEF CutInv
<1>10. ASSUME files # <<>>
       PROVE  /\ last \in Nat \ {0} /\ Len(files[last]) \in 1 .. size
              /\ cut.written = Number(last, Len(files[last]), size)
              /\ OpensBatch(cut.written, size) <=> Len(files[last]) = size
              /\ written = Number(last, Len(files[last]) + 1, size)
              /\ Len(files[last]) = size => written = Number(last + 1, 1, size)
  <2> DEFINE k == Len(files[last])
  <2>1. last \in Nat \ {0} /\ last \in 1 .. last
    BY <1>3, <1>5, <1>10
  <2>2. k \in 1 .. size /\ cut.written = Number(last, k, size)
    BY <1>6, <1>10, <2>1
  <2> HIDE DEF k, last
  <2>3. /\ OpensBatch(cut.written, size) <=> k = size
        /\ cut.written + 1 = Number(last, k + 1, size)
        /\ k = size => cut.written + 1 = Number(last + 1, 1, size)
    BY <1>1, <2>1, <2>2, OpensWhenFull
  <2> QED BY <2>1, <2>2, <2>3 DEF k
<1> HIDE DEF opened, longer, last
<1>11. CASE OpensBatch(cut.written, size)
  <2>1. cut' = [cut EXCEPT !.at = @ + 1, !.written = @ + 1, !.files = opened]
    BY <1>11 DEF Written, record, files, size, opened
  <2>2. opened # <<>>
    BY <1>3, <1>4, EmptySeq
  <2>3. /\ written = Number(last + 1, 1, size)
        /\ \A b \in 1 .. last : Len(files[b]) = size
    <3>1. CASE files = <<>>
      <4>1. last = 0 /\ cut.written = 0
        BY <1>6, <3>1, EmptySeq DEF last
      <4>2. Number(last + 1, 1, size) = 1
        BY <1>1, <4>1 DEF Number
      <4> QED BY <4>1, <4>2
    <3>2. CASE files # <<>>
      <4>1. Len(files[last]) = size /\ written = Number(last + 1, 1, size)
        BY <1>10, <1>11, <3>2
      <4>2. \A b \in 1 .. last : b = last \/ b < last
        BY <1>3
      <4> QED BY <1>6, <4>1, <4>2
    <3> QED BY <3>1, <3>2
  <2>4. ASSUME NEW b \in 1 .. last + 1
        PROVE  Len(opened[b]) \in 1 .. size /\ (b < last + 1 => Len(opened[b]) = size)
    <3>1. CASE b = last + 1
      <4>1. Len(opened[b]) = 1
        BY <1>4, <3>1
      <4> QED BY <1>1, <1>3, <3>1, <4>1
    <3>2. CASE b \in 1 .. last
      <4>1. Len(opened[b]) = size
        BY <1>4, <2>3, <3>2
      <4> QED BY <1>1, <4>1
    <3> QED BY <1>3, <3>1, <3>2
  <2>5. /\ \A b \in 1 .. Len(opened) :
             Len(opened[b]) \in 1 .. size /\ (b < Len(opened) => Len(opened[b]) = size)
        /\ written = Number(Len(opened), Len(opened[Len(opened)]), size)
    <3>1. Len(opened[last + 1]) = 1
      BY <1>4
    <3> QED BY <1>4, <2>3, <2>4, <3>1
  <2>6. LinesOf(opened, size) = LinesOf(files, size) \cup {<<written, record>>}
    BY <1>4, <2>3
  <2> HIDE DEF written
  <2> QED BY <1>4, <1>9, <2>1, <2>2, <2>5, <2>6
<1>12. CASE ~OpensBatch(cut.written, size)
  <2>1. files # <<>>
    <3>1. 0 % size = 0
      BY <1>1
    <3> QED BY <1>6, <1>12, <3>1 DEF OpensBatch
  <2>2. cut' = [cut EXCEPT !.at = @ + 1, !.written = @ + 1, !.files = longer]
    BY <1>12, <2>1 DEF Written, record, files, size, longer
  <2>3. /\ last \in Nat \ {0} /\ Len(files[last]) \in 1 .. size /\ Len(files[last]) # size
        /\ written = Number(last, Len(files[last]) + 1, size)
    BY <1>10, <1>12, <2>1
  <2>4. /\ longer \in Seq(Seq(S)) /\ Len(longer) = last
        /\ Len(longer[last]) = Len(files[last]) + 1
        /\ \A b \in 1 .. last - 1 : longer[b] = files[b]
        /\ LinesOf(longer, size) = LinesOf(files, size)
             \cup {<<Number(last, Len(files[last]) + 1, size), record>>}
    BY <1>5, <2>1
  <2>5. ASSUME NEW b \in 1 .. last
        PROVE  Len(longer[b]) \in 1 .. size /\ (b < last => Len(longer[b]) = size)
    <3>1. CASE b = last
      <4> DEFINE k == Len(files[last])
      <4>1. Len(longer[b]) = k + 1 /\ k \in 1 .. size /\ k # size /\ ~(b < last)
        BY <2>3, <2>4, <3>1
      <4> HIDE DEF k, last
      <4>2. k + 1 \in 1 .. size
        BY <1>1, <4>1
      <4> QED BY <4>1, <4>2
    <3>2. CASE b \in 1 .. last - 1
      <4>1. longer[b] = files[b] /\ b < last
        BY <2>3, <2>4, <3>2
      <4> QED BY <1>6, <4>1
    <3> QED BY <2>3, <3>1, <3>2
  <2>6. longer # <<>>
    BY <2>3, <2>4, EmptySeq
  <2>7. /\ \A b \in 1 .. Len(longer) :
             Len(longer[b]) \in 1 .. size /\ (b < Len(longer) => Len(longer[b]) = size)
        /\ written = Number(Len(longer), Len(longer[Len(longer)]), size)
        /\ LinesOf(longer, size) = LinesOf(files, size) \cup {<<written, record>>}
    BY <2>3, <2>4, <2>5
  <2> HIDE DEF written
  <2> QED BY <1>9, <2>2, <2>4, <2>6, <2>7
<1> QED BY <1>11, <1>12

\* Every step of the command keeps its invariant.
LEMMA CutStep == ASSUME CutInv, [CutNext]_cut PROVE CutInv'
<1>1. /\ cut.dump \in Seq(Documents) /\ cut.at \in Nat /\ cut.limit \in Nat
      /\ cut.size \in Nat \ {0} /\ cut.written \in Nat
      /\ DOMAIN cut = CutFields
  BY DEF CutInv, CutTypeOK, CutFields
<1>2. CASE StartCut
  <2>1. PICK dump \in Dumps, limit \in Limits, size \in Sizes : cut' = Cutting(dump, limit, size)
    BY <1>2 DEF StartCut
  <2>2. dump \in Seq(Documents) /\ limit \in Nat /\ size \in Nat \ {0}
    BY DocumentsAssumption
  <2>3. cut' = [Cutting(dump, limit, size) EXCEPT !.pc = "cutting"]
    BY <2>1 DEF Cutting
  <2> QED BY <2>2, <2>3, NothingCut
<1>3. ASSUME NEW pc \in {"done", "failed"}, cut' = [cut EXCEPT !.pc = pc],
             pc = "done" => cut.written = cut.limit \/ cut.at = Len(cut.dump)
      PROVE  CutInv'
  <2>1. /\ cut'.pc = pc /\ cut'.dump = cut.dump /\ cut'.at = cut.at
        /\ cut'.limit = cut.limit /\ cut'.size = cut.size /\ cut'.written = cut.written
        /\ cut'.files = cut.files
    BY <1>1, <1>3 DEF CutFields
  <2>2. CutTypeOK'
    BY <1>3 DEF CutInv, CutTypeOK
  <2>3. BatchesAreTheDump'
    BY <1>3, <2>1 DEF CutInv, BatchesAreTheDump
  <2> QED BY <2>1, <2>2, <2>3 DEF CutInv
<1>4. CASE EndCut
  <2>1. CASE cut.at = Len(cut.dump)
    BY <1>3, <1>4, <2>1 DEF EndCut
  <2>2. CASE cut.at # Len(cut.dump)
    BY <1>3, <1>4, <2>2 DEF EndCut
  <2> QED BY <2>1, <2>2
<1>5. CASE ReadDocument
  <2> DEFINE record == ParseDocument(cut.dump[cut.at + 1])
  <2>1. cut.pc = "cutting" /\ cut.at < Len(cut.dump) /\ Len(cut.dump) \in Nat
    BY <1>1, <1>5, LenProperties DEF ReadDocument
  <2>2. CASE record = Absent
    <3>1. cut' = [cut EXCEPT !.at = @ + 1]
      BY <1>5, <2>2 DEF ReadDocument
    <3>2. /\ cut'.pc = cut.pc /\ cut'.dump = cut.dump /\ cut'.at = cut.at + 1
          /\ cut'.limit = cut.limit /\ cut'.size = cut.size /\ cut'.written = cut.written
          /\ cut'.files = cut.files
      BY <1>1, <3>1 DEF CutFields
    <3>3. /\ RecordsOf(cut.dump, cut.at + 1) = RecordsOf(cut.dump, cut.at)
          /\ Imported(cut.dump, cut.at + 1) = Imported(cut.dump, cut.at)
      BY <1>1, <2>2, RecordsGrow, ImportedGrows
    <3>4. CutTypeOK'
      <4>1. cut.at + 1 \in Nat
        BY <1>1
      <4> QED BY <3>1, <4>1 DEF CutInv, CutTypeOK
    <3>5. BatchesAreTheDump'
      BY <2>1, <3>2, <3>3 DEF CutInv, BatchesAreTheDump
    <3> QED BY <1>1, <2>1, <3>2, <3>3, <3>4, <3>5 DEF CutInv
  <2>3. CASE record # Absent /\ cut.written >= cut.limit
    <3>1. cut' = [cut EXCEPT !.pc = "done"]
      BY <1>5, <2>3 DEF ReadDocument
    <3>2. cut.written = cut.limit
      BY <1>1, <2>3 DEF CutInv
    <3> QED BY <1>3, <3>1, <3>2
  <2>4. CASE record # Absent /\ ~(cut.written >= cut.limit)
    <3>1. cut' = Written(record) /\ cut.written < cut.limit
      BY <1>1, <1>5, <2>4 DEF ReadDocument
    <3> QED BY <2>1, <2>4, <3>1, WriteKeeps
  <2> QED BY <2>2, <2>3, <2>4
<1>6. CASE UNCHANGED cut
  BY <1>6 DEF CutInv, CutTypeOK, BatchesAreTheDump
<1> QED BY <1>2, <1>4, <1>5, <1>6 DEF CutNext

\* The invariant of the command that cuts a dump, for any dump, limit and batch
\* size (cli.py 102-132).
THEOREM CutIsSound == CutSpec => []CutInv
<1>1. ASSUME CutInit PROVE CutInv
  <2>1. <<>> \in Seq(Documents) /\ 1 \in Nat \ {0}
    OBVIOUS
  <2> QED BY <1>1, <2>1, NothingCut DEF CutInit
<1> QED BY <1>1, CutStep, PTL DEF CutSpec

\* Wherever the command stops, its files hold the records read so far, each once
\* and in the dump's order (cli.py 102-132).
THEOREM BatchesAreTheDumpHolds == CutSpec => []BatchesAreTheDump
  BY CutIsSound, PTL DEF CutInv

-----------------------------------------------------------------------------
(* What the seed and the lists make of the catalogue.                      *)

\* A set of naturals has a least member: the order of the naturals is well-founded.
LEMMA MinFacts ==
  ASSUME NEW S, S \subseteq Nat, S # {}
  PROVE  Min(S) \in S /\ \A n \in S : Min(S) <= n
<1> DEFINE less == OpToRel(<, Nat)
<1>1. less = {ss \in Nat \X Nat : ss[1] < ss[2]}
  BY DEF OpToRel
<1>2. IsWellFoundedOn(less, Nat)
  BY NatLessThanWellFounded
<1> HIDE DEF less
<1>3. \E m \in S : \A n \in S : ~ (<<n, m>> \in less)
  BY <1>2, WFMin, Zenon
<1>4. \A m, n \in Nat : <<n, m>> \in less <=> n < m
  BY <1>1
<1>5. \A m, n \in Nat : ~ (n < m) <=> m <= n
  OBVIOUS
<1>6. \E m \in S : \A n \in S : m <= n
  BY <1>3, <1>4, <1>5
<1> QED BY <1>6 DEF Min

\* A code agrees with a prefix of it digit by digit.
LEMMA PrefixFacts ==
  ASSUME NEW code \in Seq(Nat), NEW p \in Seq(Nat), IsPrefix(p, code)
  PROVE  \A i \in 1 .. Len(p) : p[i] = code[i]
<1> DEFINE n == Len(p)
           s == SubSeq(code, 1, n)
<1>1. n \in Nat /\ n <= Len(code) /\ Len(code) \in Nat
  BY LenProperties DEF IsPrefix
<1>2. \A i \in 1 .. n : code[i] \in Nat
  BY <1>1, ElementOfSeq
<1>3. \A i \in 1 .. n : s[i] = code[i]
  <2>1. \A i \in 1 .. n - 1 + 1 : s[i] = code[1 + i - 1]
    <3> HIDE DEF n
    <3> QED BY <1>1, <1>2, SubSeqProperties
  <2> HIDE DEF s, n
  <2> QED BY <1>1, <2>1
<1>4. SubSeq(p, 1, n) = p
  BY SubSeqFull
<1> QED BY <1>3, <1>4 DEF IsPrefix

-----------------------------------------------------------------------------
\* The importer's four lists of rules, one after the other.
LEMMA Joined ==
  ASSUME NEW a1, NEW a2, NEW a3, NEW a4, NEW a5, NEW a6, NEW a7, NEW a8, NEW a9,
         NEW a10, NEW a11, NEW a12
  PROVE  <<a1, a2, a3, a4>> \o <<a5, a6>> \o <<a7, a8, a9>> \o <<a10, a11, a12>>
           = <<a1, a2, a3, a4, a5, a6, a7, a8, a9, a10, a11, a12>>
<1> DEFINE S == {a1, a2, a3, a4, a5, a6, a7, a8, a9, a10, a11, a12}
           p == <<a1, a2, a3, a4>>
           q == <<a5, a6>>
           r == <<a7, a8, a9>>
           s == <<a10, a11, a12>>
           all == <<a1, a2, a3, a4, a5, a6, a7, a8, a9, a10, a11, a12>>
<1>1. p \in Seq(S) /\ q \in Seq(S) /\ r \in Seq(S) /\ s \in Seq(S) /\ all \in Seq(S)
  OBVIOUS
<1>2. Len(p) = 4 /\ Len(q) = 2 /\ Len(r) = 3 /\ Len(s) = 3 /\ Len(all) = 12
  OBVIOUS
<1>3. /\ \A i \in 1 .. 4 : all[i] = p[i]
      /\ \A i \in 5 .. 6 : all[i] = q[i - 4]
      /\ \A i \in 7 .. 9 : all[i] = r[i - 6]
      /\ \A i \in 10 .. 12 : all[i] = s[i - 9]
  OBVIOUS
<1> HIDE DEF S, p, q, r, s, all
<1> DEFINE two == p \o q
           three == two \o r
           four == three \o s
<1>4. /\ two \in Seq(S) /\ Len(two) = 6
      /\ \A i \in 1 .. 6 : two[i] = IF i <= 4 THEN p[i] ELSE q[i - 4]
  <2>1. p \in Seq(S) /\ q \in Seq(S) /\ Len(p) = 4 /\ Len(q) = 2
    BY <1>1, <1>2
  <2>2. /\ two \in Seq(S) /\ Len(two) = Len(p) + Len(q)
        /\ \A i \in 1 .. Len(p) + Len(q) :
             two[i] = IF i <= Len(p) THEN p[i] ELSE q[i - Len(p)]
    BY <2>1, ConcatProperties, Zenon
  <2> HIDE DEF two
  <2> QED BY <2>1, <2>2
<1> HIDE DEF two
<1>5. /\ three \in Seq(S) /\ Len(three) = 9
      /\ \A i \in 1 .. 9 : three[i] = IF i <= 6 THEN two[i] ELSE r[i - 6]
  <2>1. two \in Seq(S) /\ r \in Seq(S) /\ Len(two) = 6 /\ Len(r) = 3
    BY <1>1, <1>2, <1>4
  <2>2. /\ three \in Seq(S) /\ Len(three) = Len(two) + Len(r)
        /\ \A i \in 1 .. Len(two) + Len(r) :
             three[i] = IF i <= Len(two) THEN two[i] ELSE r[i - Len(two)]
    BY <2>1, ConcatProperties, Zenon
  <2> HIDE DEF three
  <2> QED BY <2>1, <2>2
<1> HIDE DEF three
<1>6. /\ four \in Seq(S) /\ Len(four) = 12
      /\ \A i \in 1 .. 12 : four[i] = IF i <= 9 THEN three[i] ELSE s[i - 9]
  <2>1. three \in Seq(S) /\ s \in Seq(S) /\ Len(three) = 9 /\ Len(s) = 3
    BY <1>1, <1>2, <1>5
  <2>2. /\ four \in Seq(S) /\ Len(four) = Len(three) + Len(s)
        /\ \A i \in 1 .. Len(three) + Len(s) :
             four[i] = IF i <= Len(three) THEN three[i] ELSE s[i - Len(three)]
    BY <2>1, ConcatProperties, Zenon
  <2> HIDE DEF four
  <2> QED BY <2>1, <2>2
<1> HIDE DEF four
<1>7. \A i \in 1 .. 12 : four[i] = all[i]
  BY <1>3, <1>4, <1>5, <1>6, SMTT(30)
<1>8. four = all
  <2>1. four \in Seq(S) /\ all \in Seq(S) /\ Len(four) = Len(all) /\ Len(four) = 12
    BY <1>1, <1>2, <1>6
  <2>2. \A i \in 1 .. Len(four) : four[i] = all[i]
    BY <1>7, <2>1
  <2> QED BY <2>1, <2>2, SeqEqual, Zenon
<1> QED BY <1>8 DEF four, three, two, p, q, r, s, all

\* The rules, by their numbers.
LEMMA RuleList ==
  /\ DOMAIN Rules = 1 .. 12
  /\ Rules[1] = Under({<<62>>}, {"it", "software-development"})
  /\ Rules[2] = Under({<<63, 1>>}, {"it", "data-analytics"})
  /\ Rules[3] = Under({<<58, 2>>}, {"it", "software-development"})
  /\ Rules[4] = Exactly(<<74, 1, 0>>, {"it", "ui-ux-design"})
  /\ Rules[5] = Under({<<69, 2, 0>>}, {"accounting", "bookkeeping", "tax-advisory"})
  /\ Rules[6] = Under({<<69, 1, 0>>}, {"legal", "corporate-law", "contracts"})
  /\ Rules[7] = Under({<<73, 1, 1>>, <<73, 1, 2>>}, {"marketing", "paid-media"})
  /\ Rules[8] = Under({<<73>>}, {"marketing"})
  /\ Rules[9] = Under({<<70, 2, 1>>}, {"marketing", "pr"})
  /\ Rules[10] = Under({<<78, 1, 0>>}, {"hr", "recruiting"})
  /\ Rules[11] = Under({<<78, 2, 0>>, <<78, 3, 0>>}, {"hr", "staffing"})
  /\ Rules[12] = Under({<<85, 4, 2>>}, {"hr", "training"})
<1> DEFINE r1 == Under({<<62>>}, {"it", "software-development"})
           r2 == Under({<<63, 1>>}, {"it", "data-analytics"})
           r3 == Under({<<58, 2>>}, {"it", "software-development"})
           r4 == Exactly(<<74, 1, 0>>, {"it", "ui-ux-design"})
           r5 == Under({<<69, 2, 0>>}, {"accounting", "bookkeeping", "tax-advisory"})
           r6 == Under({<<69, 1, 0>>}, {"legal", "corporate-law", "contracts"})
           r7 == Under({<<73, 1, 1>>, <<73, 1, 2>>}, {"marketing", "paid-media"})
           r8 == Under({<<73>>}, {"marketing"})
           r9 == Under({<<70, 2, 1>>}, {"marketing", "pr"})
           r10 == Under({<<78, 1, 0>>}, {"hr", "recruiting"})
           r11 == Under({<<78, 2, 0>>, <<78, 3, 0>>}, {"hr", "staffing"})
           r12 == Under({<<85, 4, 2>>}, {"hr", "training"})
<1>1. Rules = <<r1, r2, r3, r4>> \o <<r5, r6>> \o <<r7, r8, r9>> \o <<r10, r11, r12>>
  BY DEF Rules, ItRules, OfficeRules, MarketingRules, HrRules
<1> HIDE DEF r1, r2, r3, r4, r5, r6, r7, r8, r9, r10, r11, r12
<1>2. Rules = <<r1, r2, r3, r4, r5, r6, r7, r8, r9, r10, r11, r12>>
  BY <1>1, Joined
<1>3. /\ DOMAIN Rules = 1 .. 12
      /\ Rules[1] = r1
      /\ Rules[2] = r2
      /\ Rules[3] = r3
      /\ Rules[4] = r4
      /\ Rules[5] = r5
      /\ Rules[6] = r6
      /\ Rules[7] = r7
      /\ Rules[8] = r8
      /\ Rules[9] = r9
      /\ Rules[10] = r10
      /\ Rules[11] = r11
      /\ Rules[12] = r12
  BY <1>2
<1> QED BY <1>3 DEF r1, r2, r3, r4, r5, r6, r7, r8, r9, r10, r11, r12

\* Where a rule knows a code by a prefix of length l.
Place(n, l, code) ==
  \/ n = 1 /\ l = 1 /\ code[1] = 62
  \/ n = 2 /\ l = 2 /\ code[1] = 63
  \/ n = 3 /\ l = 2 /\ code[1] = 58
  \/ n = 4 /\ l = 3 /\ code[1] = 74
  \/ n = 5 /\ l = 3 /\ code[1] = 69 /\ code[2] = 2
  \/ n = 6 /\ l = 3 /\ code[1] = 69 /\ code[2] = 1
  \/ n = 7 /\ l = 3 /\ code[1] = 73
  \/ n = 8 /\ l = 1 /\ code[1] = 73
  \/ n = 9 /\ l = 3 /\ code[1] = 70
  \/ n = 10 /\ l = 3 /\ code[1] = 78 /\ code[2] = 1
  \/ n = 11 /\ l = 3 /\ code[1] = 78 /\ code[2] \in {2, 3}
  \/ n = 12 /\ l = 3 /\ code[1] = 85

\* A rule that knows a code by a prefix tells the code's first digits.
LEMMA KnownBy ==
  ASSUME NEW code \in Seq(Nat), NEW n \in DOMAIN Rules, NEW p \in Rules[n].at,
         Applies([Rules[n] EXCEPT !.at = {p}], code)
  PROVE  Place(n, Len(p), code)
<1>1. ASSUME p \in Seq(Nat), IsPrefix(p, code)
      PROVE  \A i \in 1 .. Len(p) : p[i] = code[i]
  BY <1>1, PrefixFacts
<1>2. ASSUME NEW at, NEW categories, Rules[n] = Under(at, categories)
      PROVE  p \in at /\ IsPrefix(p, code)
  BY <1>2 DEF Under, Applies
<1>3. ASSUME NEW only, NEW categories, Rules[n] = Exactly(only, categories)
      PROVE  p = only /\ code = only
  BY <1>3 DEF Exactly, Applies
<1>4. CASE n = 1
  <2>1. p \in {<<62>>} /\ IsPrefix(p, code)
    BY <1>2, <1>4, RuleList
  <2>2. p = <<62>> => p \in Seq(Nat) /\ Len(p) = 1 /\ p[1] = 62
    OBVIOUS
  <2>3. p \in Seq(Nat) /\ Len(p) = 1 /\ p[1] = 62
    BY <2>1, <2>2
  <2>4. code[1] = p[1]
    BY <1>1, <2>1, <2>3
  <2> QED BY <1>4, <2>3, <2>4 DEF Place
<1>5. CASE n = 2
  <2>1. p \in {<<63, 1>>} /\ IsPrefix(p, code)
    BY <1>2, <1>5, RuleList
  <2>2. p = <<63, 1>> => p \in Seq(Nat) /\ Len(p) = 2 /\ p[1] = 63 /\ p[2] = 1
    OBVIOUS
  <2>3. p \in Seq(Nat) /\ Len(p) = 2 /\ p[1] = 63 /\ p[2] \in {1}
    BY <2>1, <2>2
  <2>4. code[1] = p[1] /\ code[2] = p[2]
    BY <1>1, <2>1, <2>3
  <2> QED BY <1>5, <2>3, <2>4 DEF Place
<1>6. CASE n = 3
  <2>1. p \in {<<58, 2>>} /\ IsPrefix(p, code)
    BY <1>2, <1>6, RuleList
  <2>2. p = <<58, 2>> => p \in Seq(Nat) /\ Len(p) = 2 /\ p[1] = 58 /\ p[2] = 2
    OBVIOUS
  <2>3. p \in Seq(Nat) /\ Len(p) = 2 /\ p[1] = 58 /\ p[2] \in {2}
    BY <2>1, <2>2
  <2>4. code[1] = p[1] /\ code[2] = p[2]
    BY <1>1, <2>1, <2>3
  <2> QED BY <1>6, <2>3, <2>4 DEF Place
<1>7. CASE n = 4
  <2>1. p = <<74, 1, 0>> /\ code = <<74, 1, 0>>
    BY <1>3, <1>7, RuleList
  <2> QED BY <1>7, <2>1 DEF Place
<1>8. CASE n = 5
  <2>1. p \in {<<69, 2, 0>>} /\ IsPrefix(p, code)
    BY <1>2, <1>8, RuleList
  <2>2. p = <<69, 2, 0>> => p \in Seq(Nat) /\ Len(p) = 3 /\ p[1] = 69 /\ p[2] = 2
    OBVIOUS
  <2>3. p \in Seq(Nat) /\ Len(p) = 3 /\ p[1] = 69 /\ p[2] \in {2}
    BY <2>1, <2>2
  <2>4. code[1] = p[1] /\ code[2] = p[2]
    BY <1>1, <2>1, <2>3
  <2> QED BY <1>8, <2>3, <2>4 DEF Place
<1>9. CASE n = 6
  <2>1. p \in {<<69, 1, 0>>} /\ IsPrefix(p, code)
    BY <1>2, <1>9, RuleList
  <2>2. p = <<69, 1, 0>> => p \in Seq(Nat) /\ Len(p) = 3 /\ p[1] = 69 /\ p[2] = 1
    OBVIOUS
  <2>3. p \in Seq(Nat) /\ Len(p) = 3 /\ p[1] = 69 /\ p[2] \in {1}
    BY <2>1, <2>2
  <2>4. code[1] = p[1] /\ code[2] = p[2]
    BY <1>1, <2>1, <2>3
  <2> QED BY <1>9, <2>3, <2>4 DEF Place
<1>10. CASE n = 7
  <2>1. p \in {<<73, 1, 1>>, <<73, 1, 2>>} /\ IsPrefix(p, code)
    BY <1>2, <1>10, RuleList
  <2>2. p = <<73, 1, 1>> => p \in Seq(Nat) /\ Len(p) = 3 /\ p[1] = 73 /\ p[2] = 1
    OBVIOUS
  <2>3. p = <<73, 1, 2>> => p \in Seq(Nat) /\ Len(p) = 3 /\ p[1] = 73 /\ p[2] = 1
    OBVIOUS
  <2>4. p \in Seq(Nat) /\ Len(p) = 3 /\ p[1] = 73 /\ p[2] \in {1}
    BY <2>1, <2>2, <2>3
  <2>5. code[1] = p[1] /\ code[2] = p[2]
    BY <1>1, <2>1, <2>4
  <2> QED BY <1>10, <2>4, <2>5 DEF Place
<1>11. CASE n = 8
  <2>1. p \in {<<73>>} /\ IsPrefix(p, code)
    BY <1>2, <1>11, RuleList
  <2>2. p = <<73>> => p \in Seq(Nat) /\ Len(p) = 1 /\ p[1] = 73
    OBVIOUS
  <2>3. p \in Seq(Nat) /\ Len(p) = 1 /\ p[1] = 73
    BY <2>1, <2>2
  <2>4. code[1] = p[1]
    BY <1>1, <2>1, <2>3
  <2> QED BY <1>11, <2>3, <2>4 DEF Place
<1>12. CASE n = 9
  <2>1. p \in {<<70, 2, 1>>} /\ IsPrefix(p, code)
    BY <1>2, <1>12, RuleList
  <2>2. p = <<70, 2, 1>> => p \in Seq(Nat) /\ Len(p) = 3 /\ p[1] = 70 /\ p[2] = 2
    OBVIOUS
  <2>3. p \in Seq(Nat) /\ Len(p) = 3 /\ p[1] = 70 /\ p[2] \in {2}
    BY <2>1, <2>2
  <2>4. code[1] = p[1] /\ code[2] = p[2]
    BY <1>1, <2>1, <2>3
  <2> QED BY <1>12, <2>3, <2>4 DEF Place
<1>13. CASE n = 10
  <2>1. p \in {<<78, 1, 0>>} /\ IsPrefix(p, code)
    BY <1>2, <1>13, RuleList
  <2>2. p = <<78, 1, 0>> => p \in Seq(Nat) /\ Len(p) = 3 /\ p[1] = 78 /\ p[2] = 1
    OBVIOUS
  <2>3. p \in Seq(Nat) /\ Len(p) = 3 /\ p[1] = 78 /\ p[2] \in {1}
    BY <2>1, <2>2
  <2>4. code[1] = p[1] /\ code[2] = p[2]
    BY <1>1, <2>1, <2>3
  <2> QED BY <1>13, <2>3, <2>4 DEF Place
<1>14. CASE n = 11
  <2>1. p \in {<<78, 2, 0>>, <<78, 3, 0>>} /\ IsPrefix(p, code)
    BY <1>2, <1>14, RuleList
  <2>2. p = <<78, 2, 0>> => p \in Seq(Nat) /\ Len(p) = 3 /\ p[1] = 78 /\ p[2] = 2
    OBVIOUS
  <2>3. p = <<78, 3, 0>> => p \in Seq(Nat) /\ Len(p) = 3 /\ p[1] = 78 /\ p[2] = 3
    OBVIOUS
  <2>4. p \in Seq(Nat) /\ Len(p) = 3 /\ p[1] = 78 /\ p[2] \in {2, 3}
    BY <2>1, <2>2, <2>3
  <2>5. code[1] = p[1] /\ code[2] = p[2]
    BY <1>1, <2>1, <2>4
  <2> QED BY <1>14, <2>4, <2>5 DEF Place
<1>15. CASE n = 12
  <2>1. p \in {<<85, 4, 2>>} /\ IsPrefix(p, code)
    BY <1>2, <1>15, RuleList
  <2>2. p = <<85, 4, 2>> => p \in Seq(Nat) /\ Len(p) = 3 /\ p[1] = 85 /\ p[2] = 4
    OBVIOUS
  <2>3. p \in Seq(Nat) /\ Len(p) = 3 /\ p[1] = 85 /\ p[2] \in {4}
    BY <2>1, <2>2
  <2>4. code[1] = p[1] /\ code[2] = p[2]
    BY <1>1, <2>1, <2>3
  <2> QED BY <1>15, <2>3, <2>4 DEF Place
<1> QED BY <1>4, <1>5, <1>6, <1>7, <1>8, <1>9, <1>10, <1>11, <1>12, <1>13, <1>14, <1>15, RuleList

\* A rule is a record, and it gives a category at least.
LEMMA RuleShape ==
  \A n \in DOMAIN Rules :
    /\ DOMAIN Rules[n] = {"at", "exact", "categories"}
    /\ Rules[n].categories # {}
<1>1. ASSUME NEW at, NEW categories
      PROVE  /\ DOMAIN Under(at, categories) = {"at", "exact", "categories"}
             /\ DOMAIN Exactly(at, categories) = {"at", "exact", "categories"}
             /\ Under(at, categories).categories = categories
             /\ Exactly(at, categories).categories = categories
  BY DEF Under, Exactly
<1>2. \A n \in DOMAIN Rules : DOMAIN Rules[n] = {"at", "exact", "categories"}
  BY <1>1, RuleList
<1>3. \A n \in DOMAIN Rules : Rules[n].categories # {}
  BY <1>1, RuleList
<1> QED BY <1>2, <1>3

\* What a longer prefix of the same code says of the rules.
LEMMA LongerFirst ==
  ASSUME NEW code, NEW n \in Nat, NEW m \in Nat, NEW k \in Nat, NEW l \in Nat,
         Place(n, k, code), Place(m, l, code)
  PROVE  (n = m => k = l) /\ (n < m => l < k)
  BY DEF Place

\* The first rule that applies is the one with the longest prefix: where two know a
\* code, the if-chain has the more specific one first.
LEMMA FirstIsLongest ==
  ASSUME NEW code \in Seq(Nat)
  PROVE  /\ Fits(code) # {} <=> MapOkved(code) # {}
         /\ Fits(code) # {} => MapOkved(code) = LongestRule(code)
<1> DEFINE S == {n \in DOMAIN Rules : Applies(Rules[n], code)}
           Knows(n, p) == p \in Rules[n].at /\ Applies([Rules[n] EXCEPT !.at = {p}], code)
<1>1. DOMAIN Rules = 1 .. 12
  BY RuleList
<1>2. ASSUME NEW n \in DOMAIN Rules
      PROVE  Applies(Rules[n], code) <=> \E p \in Rules[n].at : Knows(n, p)
  <2> DEFINE rule == Rules[n]
             by(p) == [rule EXCEPT !.at = {p}]
  <2>1. \A p : by(p).at = {p} /\ by(p).exact = rule.exact
    BY RuleShape
  <2> HIDE DEF rule, by
  <2>2. Applies(rule, code) <=> \E p \in rule.at : Applies(by(p), code)
    BY <2>1 DEF Applies
  <2> QED BY <2>2 DEF rule, by
<1>3. /\ \A n \in DOMAIN Rules : \A p : <<n, p>> \in Fits(code) <=> Knows(n, p)
      /\ \A r \in Fits(code) :
           r = <<r[1], r[2]>> /\ r[1] \in DOMAIN Rules /\ Knows(r[1], r[2])
  <2> DEFINE ats == UNION {Rules[n].at : n \in DOMAIN Rules}
  <2>1. Fits(code) = {r \in (DOMAIN Rules) \X ats : Knows(r[1], r[2])}
    BY DEF Fits
  <2>2. \A n \in DOMAIN Rules : \A p : Knows(n, p) => p \in ats
    OBVIOUS
  <2> HIDE DEF Knows, ats
  <2> QED BY <2>1, <2>2
<1>4. ASSUME NEW r \in Fits(code)
      PROVE  Place(r[1], Len(r[2]), code) /\ r[1] \in Nat /\ Len(r[2]) \in Nat
  <2>1. Place(r[1], Len(r[2]), code)
    BY <1>3, KnownBy
  <2> QED BY <2>1 DEF Place
<1> HIDE DEF Knows
<1>5. /\ \A n \in S : \E p : <<n, p>> \in Fits(code)
      /\ \A r \in Fits(code) : r[1] \in S
  BY <1>2, <1>3 DEF Knows
<1>6. S \subseteq Nat /\ S \subseteq DOMAIN Rules
  BY <1>1
<1>7. MapOkved(code) = IF S = {} THEN {} ELSE Rules[Min(S)].categories
  BY DEF MapOkved
<1> HIDE DEF S
<1>8. S = {} <=> Fits(code) = {}
  BY <1>5
<1>9. S # {} => Min(S) \in S /\ \A n \in S : Min(S) <= n
  BY <1>6, MinFacts
<1>10. Fits(code) # {} <=> MapOkved(code) # {}
  BY <1>6, <1>7, <1>8, <1>9, RuleShape
<1>11. ASSUME Fits(code) # {} PROVE MapOkved(code) = LongestRule(code)
  <2> DEFINE m == Min(S)
             Best(r) == \A q \in Fits(code) : Len(q[2]) <= Len(r[2])
             best == CHOOSE r \in Fits(code) : Best(r)
  <2>1. m \in S /\ m \in Nat /\ \A n \in S : m <= n
    BY <1>6, <1>8, <1>9, <1>11
  <2> HIDE DEF m
  <2>2. PICK p : <<m, p>> \in Fits(code)
    BY <1>5, <2>1
  <2>3. Place(m, Len(p), code) /\ Len(p) \in Nat
    BY <1>4, <2>2
  <2>4. ASSUME NEW q \in Fits(code)
        PROVE  Len(q[2]) <= Len(p) /\ (q[1] # m => Len(q[2]) < Len(p))
    <3>1. q[1] \in Nat /\ Len(q[2]) \in Nat /\ Place(q[1], Len(q[2]), code) /\ m <= q[1]
      BY <1>4, <1>5, <2>1
    <3>2. (m = q[1] => Len(p) = Len(q[2])) /\ (m < q[1] => Len(q[2]) < Len(p))
      BY <2>1, <2>3, <3>1, LongerFirst
    <3> QED BY <2>1, <2>3, <3>1, <3>2
  <2>5. Best(<<m, p>>)
    BY <2>4
  <2>6. best \in Fits(code) /\ Best(best)
    BY <2>2, <2>5
  <2> HIDE DEF best
  <2>7. Len(p) <= Len(best[2])
    BY <2>2, <2>6
  <2>8. best[1] = m
    BY <1>4, <2>3, <2>4, <2>6, <2>7
  <2>9. LongestRule(code) = Rules[best[1]].categories
    BY DEF LongestRule, best
  <2> QED BY <1>7, <1>8, <1>11, <2>8, <2>9 DEF m
<1> QED BY <1>10, <1>11

-----------------------------------------------------------------------------
\* The categories of the seed.
CategoryList == {"it", "software-development", "devops-cloud", "quality-assurance",
  "data-analytics", "ai-ml", "cybersecurity", "ui-ux-design", "accounting", "bookkeeping",
  "tax-advisory", "payroll", "audit-assurance", "financial-reporting",
  "marketplace-accounting", "legal", "corporate-law", "contracts", "intellectual-property",
  "compliance-regulatory", "dispute-resolution", "labor-law", "marketing", "seo", "content",
  "paid-media", "branding", "pr", "hr", "recruiting", "staffing", "eor-peo", "training"}

\* The roots in their order, and their children.
LEMMA TreeList ==
  /\ Len(TreeOrder) = 5
  /\ TreeOrder[1] = "it" /\ TreeOrder[2] = "accounting" /\ TreeOrder[3] = "legal"
  /\ TreeOrder[4] = "marketing" /\ TreeOrder[5] = "hr"
  /\ Tree["it"] = ItCategories /\ Tree["accounting"] = AccountingCategories
  /\ Tree["legal"] = LegalCategories /\ Tree["marketing"] = MarketingCategories
  /\ Tree["hr"] = HrCategories
  BY DEF TreeOrder, Tree

\* No category is below two roots, and no root below another.
LEMMA TreeApart ==
  ASSUME NEW n \in 1 .. 5, NEW m \in 1 .. 5
  PROVE  /\ TreeOrder[n] \notin Tree[TreeOrder[m]]
         /\ n # m => TreeOrder[n] # TreeOrder[m]
         /\ n # m => Tree[TreeOrder[n]] \cap Tree[TreeOrder[m]] = {}
<1>1. 1 .. 5 = {1, 2, 3, 4, 5}
  OBVIOUS
<1>2. TreeOrder[n] \notin Tree[TreeOrder[m]] /\ (n # m => TreeOrder[n] # TreeOrder[m])
  BY <1>1, TreeList
     DEF ItCategories, AccountingCategories, LegalCategories, MarketingCategories, HrCategories
<1>3. ASSUME n # m PROVE Tree[TreeOrder[n]] \cap Tree[TreeOrder[m]] = {}
  BY <1>1, <1>3, TreeList
     DEF ItCategories, AccountingCategories, LegalCategories, MarketingCategories, HrCategories
<1> QED BY <1>2, <1>3

\* The categories below the first n roots, with them.
Sown(n) == UNION {{TreeOrder[m]} \cup Tree[TreeOrder[m]] : m \in 1 .. n}

\* The roots that a whole seed is done with, and their children, are all categories.
LEMMA AllSown == CategoryList \subseteq Sown(Len(TreeOrder))
<1>1. /\ {"it"} \cup ItCategories \subseteq Sown(5)
      /\ {"accounting"} \cup AccountingCategories \subseteq Sown(5)
      /\ {"legal"} \cup LegalCategories \subseteq Sown(5)
      /\ {"marketing"} \cup MarketingCategories \subseteq Sown(5)
      /\ {"hr"} \cup HrCategories \subseteq Sown(5)
  <2>1. \A m \in 1 .. 5 : {TreeOrder[m]} \cup Tree[TreeOrder[m]] \subseteq Sown(5)
    BY DEF Sown
  <2> QED BY <2>1, TreeList
<1>2. CategoryList \subseteq ({"it"} \cup ItCategories) \cup ({"accounting"} \cup AccountingCategories)
        \cup ({"legal"} \cup LegalCategories) \cup ({"marketing"} \cup MarketingCategories)
        \cup ({"hr"} \cup HrCategories)
  BY DEF CategoryList, ItCategories, AccountingCategories, LegalCategories,
         MarketingCategories, HrCategories
<1> QED BY <1>1, <1>2, TreeList

\* References that are there.
Fine(country, form, categories) ==
  /\ country \in Countries /\ LegalFormOf(country, form) # NoForm
  /\ categories \subseteq CategoryList

\* The legal forms that the lists name are seeded: UNK for every country.
LEMMA FormFacts ==
  /\ \A country \in Countries : LegalFormOf(country, "UNK") # NoForm
  /\ \A form \in {"OOO", "AO", "PAO", "IP"} : LegalFormOf("RU", form) # NoForm
  /\ LegalFormOf("PL", "SP_Z_O_O") # NoForm /\ LegalFormOf("DE", "GMBH") # NoForm
  /\ LegalFormOf("UA", "TOV") # NoForm /\ LegalFormOf("GB", "LTD") # NoForm
  /\ LegalFormOf("US", "LLC") # NoForm
<1>1. ASSUME NEW country, NEW form,
             <<country, form>> \in LegalForms \/ <<Anywhere, form>> \in LegalForms
      PROVE  LegalFormOf(country, form) # NoForm
  <2>1. \A a, b : <<a, b>> # <<>>
    OBVIOUS
  <2> QED BY <1>1, <2>1 DEF LegalFormOf, NoForm
<1>2. <<Anywhere, "UNK">> \in LegalForms
  BY DEF LegalForms
<1>3. /\ \A form \in {"OOO", "AO", "PAO", "IP"} : <<"RU", form>> \in LegalForms
      /\ <<"PL", "SP_Z_O_O">> \in LegalForms /\ <<"DE", "GMBH">> \in LegalForms
      /\ <<"UA", "TOV">> \in LegalForms /\ <<"GB", "LTD">> \in LegalForms
      /\ <<"US", "LLC">> \in LegalForms
  BY DEF LegalForms
<1> QED BY <1>1, <1>2, <1>3

\* The same of an entry, whose country is always Russia.
GoodEntry(e) == e.form \in {"UNK", "OOO", "AO"} /\ e.categories \subseteq CategoryList

\* Every entry of the curated lists names a form and categories that the seed has.
LEMMA CuratedFacts ==
  \A s \in DOMAIN Curated : \A e \in Curated[s] : GoodEntry(e)
<1>1. ASSUME NEW e \in OutsourcingFirst PROVE GoodEntry(e)
  BY SMTT(60) DEF OutsourcingFirst, Software, Company, GoodEntry, CategoryList
<1>2. ASSUME NEW e \in OutsourcingSecond PROVE GoodEntry(e)
  BY SMTT(60) DEF OutsourcingSecond, Software, Company, GoodEntry, CategoryList
<1>3. ASSUME NEW e \in ConsultingEntries PROVE GoodEntry(e)
  BY SMTT(60) DEF ConsultingEntries, Company, GoodEntry, CategoryList
<1>4. ASSUME NEW e \in MarketingEntries \cup HrEntries PROVE GoodEntry(e)
  BY SMTT(60) DEF MarketingEntries, HrEntries, Company, GoodEntry, CategoryList
<1>5. ASSUME NEW e \in RegionalEntries PROVE GoodEntry(e)
  BY SMTT(60) DEF RegionalEntries, Software, Company, GoodEntry, CategoryList
<1>6. /\ DOMAIN Curated = {"ru_outsourcing", "ru_business_services", "ru_regional_it"}
      /\ Curated["ru_outsourcing"] = OutsourcingFirst \cup OutsourcingSecond
      /\ Curated["ru_business_services"] = ConsultingEntries \cup MarketingEntries \cup HrEntries
      /\ Curated["ru_regional_it"] = RegionalEntries
  BY DEF Curated
<1> QED BY <1>1, <1>2, <1>3, <1>4, <1>5, <1>6

\* A demo provider of the seed names a country, a city, a form and categories it has.
LEMMA SeedFacts ==
  ASSUME NEW p \in SeedProviders
  PROVE  /\ Fine(p.country, p.form, p.categories)
         /\ p.city \in Cities[p.country]
<1>1. /\ p.country \in Countries /\ p.city \in Cities[p.country]
  BY SMTT(30) DEF SeedProviders, BalticProviders, Listing, Countries, Cities
<1>2. p.categories \subseteq CategoryList
  BY SMTT(30) DEF SeedProviders, BalticProviders, Listing, CategoryList
<1>3. <<p.country, p.form>> \in {<<"EE", "UNK">>, <<"PL", "SP_Z_O_O">>, <<"DE", "GMBH">>,
                                 <<"UA", "TOV">>, <<"GB", "LTD">>, <<"US", "LLC">>}
  BY DEF SeedProviders, BalticProviders, Listing
<1>4. LegalFormOf(p.country, p.form) # NoForm
  <2> DEFINE form == LegalFormOf(p.country, p.form)
  <2> QED BY <1>1, <1>3, FormFacts
<1> QED BY <1>1, <1>2, <1>4 DEF Fine

\* The rules name categories that the seed has.
LEMMA RuleCategories ==
  \A n \in DOMAIN Rules : Rules[n].categories \subseteq CategoryList
<1>1. ASSUME NEW at, NEW categories
      PROVE  /\ Under(at, categories).categories = categories
             /\ Exactly(at, categories).categories = categories
  BY DEF Under, Exactly
<1> QED BY <1>1, RuleList DEF CategoryList

\* A record: its categories are those of the longest prefix of the first activity
\* that any rule knows.
LEMMA RecordFacts ==
  ASSUME NEW d \in Documents, ParseDocument(d) # Absent
  PROVE  /\ ParseDocument(d).categories = LongestRule(FirstKnown(d.activities))
         /\ ParseDocument(d).categories \subseteq CategoryList
         /\ ParseDocument(d).form \in {"UNK", "OOO", "AO", "PAO", "IP"}
         /\ d.town = Absent /\ CityFromLocation(d) # Absent =>
              CityFromLocation(d) \in Cities["RU"]
<1> DEFINE codes == d.activities
           known == {n \in DOMAIN codes : Fits(codes[n]) # {}}
           code == codes[Min(known)]
<1>1. codes \in Seq(Seq(Nat)) /\ DOMAIN codes \subseteq Nat
  <2>1. codes \in Seq(Seq(Nat))
    BY DocumentsAssumption
  <2> QED BY <2>1, LenProperties
<1>2. \A n \in DOMAIN codes : codes[n] \in Seq(Nat)
  BY <1>1, LenProperties, ElementOfSeq
<1>3. Mapped(d) = known
  BY <1>2, FirstIsLongest DEF Mapped
<1>4. /\ Mapped(d) # {}
      /\ ParseDocument(d).categories = MapOkved(codes[Min(Mapped(d))])
      /\ ParseDocument(d).form = InferLegalForm(d)
  BY DEF ParseDocument
<1>5. code \in Seq(Nat) /\ Fits(code) # {}
  <2>1. Min(known) \in known
    BY <1>1, <1>3, <1>4, MinFacts
  <2> QED BY <1>2, <2>1
<1>6. ParseDocument(d).categories = LongestRule(FirstKnown(codes))
  BY <1>3, <1>4, <1>5, FirstIsLongest DEF FirstKnown
<1>7. ParseDocument(d).categories \subseteq CategoryList
  <2> DEFINE S == {n \in DOMAIN Rules : Applies(Rules[n], code)}
  <2>1. ParseDocument(d).categories = IF S = {} THEN {} ELSE Rules[Min(S)].categories
    BY <1>3, <1>4 DEF MapOkved
  <2>2. S \subseteq DOMAIN Rules /\ S \subseteq Nat
    BY RuleList
  <2> HIDE DEF S
  <2>3. S # {} => Min(S) \in DOMAIN Rules
    BY <2>2, MinFacts
  <2> QED BY <2>1, <2>3, RuleCategories
<1>8. InferLegalForm(d) \in {"UNK", "OOO", "AO", "PAO", "IP"}
  BY DEF InferLegalForm
<1>9. ASSUME d.town = Absent, CityFromLocation(d) # Absent
      PROVE  CityFromLocation(d) \in Cities["RU"]
  <2>1. d.region \in DOMAIN RegionToCity /\ CityFromLocation(d) = RegionToCity[d.region]
    BY <1>9 DEF CityFromLocation
  <2> QED BY <2>1 DEF RegionToCity, Cities
<1> QED BY <1>4, <1>6, <1>7, <1>8, <1>9

\* What an item says is there: its country, its form and its categories; a record of
\* the registry has those of the longest prefix.
OfferFine(i) ==
  /\ Fine(i.country, i.form, i.categories)
  /\ i.source = "ru_fns" =>
       /\ i.categories = LongestRule(FirstKnown(i.from.activities))
       /\ i.from.town = Absent /\ CityFromLocation(i.from) # Absent =>
            CityFromLocation(i.from) \in Cities["RU"]

\* What an item is made of.
LEMMA OfferParts ==
  ASSUME NEW source, NEW id, NEW host, NEW country, NEW form, NEW categories, NEW from,
         NEW i, i = Offer(source, id, host, country, form, categories, from)
  PROVE  /\ i.source = source /\ i.country = country /\ i.form = form
         /\ i.categories = categories /\ i.from = from
BY DEF Offer

\* Every item of every list, and of every record, names what is there.
LEMMA OfferFacts ==
  ASSUME NEW i \in Offers
  PROVE  OfferFine(i)
<1>1. CASE i \in CuratedItems
  <2>0. PICK s \in DOMAIN Curated :
          \E e \in Curated[s] : i = Offer(s, e.id, e.host, "RU", e.form, e.categories, e)
    BY <1>1 DEF CuratedItems
  <2>1. PICK e \in Curated[s] : i = Offer(s, e.id, e.host, "RU", e.form, e.categories, e)
    BY <2>0
  <2>2. /\ i.source = s /\ i.country = "RU" /\ i.form = e.form
        /\ i.categories = e.categories
    BY <2>1, OfferParts
  <2>3. e.form \in {"UNK", "OOO", "AO"} /\ e.categories \subseteq CategoryList
    BY CuratedFacts DEF GoodEntry
  <2>4. "RU" \in Countries /\ LegalFormOf("RU", e.form) # NoForm
    <3>1. "RU" \in Countries
      BY DEF Countries
    <3> QED BY <2>3, <3>1, FormFacts
  <2>5. s # "ru_fns"
    BY DEF Curated
  <2> QED BY <2>2, <2>3, <2>4, <2>5 DEF OfferFine, Fine
<1>2. CASE i \in NicheItems
  <2>1. PICK n \in Niche, digits \in {0, 10, 12} :
          i = Offer("ru_marketplace", n.host, n.host, "RU", NicheForm(digits),
                    NicheCategories, n)
    BY <1>2 DEF NicheItems
  <2>2. /\ i.source = "ru_marketplace" /\ i.country = "RU" /\ i.form = NicheForm(digits)
        /\ i.categories = NicheCategories
    BY <2>1, OfferParts
  <2>3. NicheForm(digits) \in {"UNK", "OOO", "IP"}
    BY DEF NicheForm
  <2>4. "RU" \in Countries /\ LegalFormOf("RU", NicheForm(digits)) # NoForm
    <3>1. "RU" \in Countries
      BY DEF Countries
    <3> QED BY <2>3, <3>1, FormFacts
  <2>5. NicheCategories \subseteq CategoryList
    BY DEF NicheCategories, CategoryList
  <2> QED BY <2>2, <2>4, <2>5 DEF OfferFine, Fine
<1>3. CASE i \in DemoSpiderItems
  <2>1. PICK e \in DemoItems :
          i = Offer("demo", e.slug, DemoHost, e.country, e.form, e.categories, e)
    BY <1>3 DEF DemoSpiderItems
  <2>2. /\ i.source = "demo" /\ i.country = e.country /\ i.form = e.form
        /\ i.categories = e.categories
    BY <2>1, OfferParts
  <2>3. <<e.country, e.form>> \in {<<"PL", "SP_Z_O_O">>, <<"DE", "GMBH">>, <<"CZ", "UNK">>}
    BY DEF DemoItems, Listing
  <2>4. e.country \in Countries
    BY <2>3 DEF Countries
  <2>5. LegalFormOf(e.country, e.form) # NoForm
    <3> DEFINE form == LegalFormOf(e.country, e.form)
    <3> QED BY <2>3, <2>4, FormFacts
  <2>6. e.categories \subseteq CategoryList
    BY SMTT(30) DEF DemoItems, Listing, CategoryList
  <2> QED BY <2>2, <2>4, <2>5, <2>6 DEF OfferFine, Fine
<1>4. CASE i \in RegistryItems
  <2> DEFINE r(d) == ParseDocument(d)
  <2>1. PICK d \in Documents :
          /\ r(d) # Absent
          /\ i = Offer("ru_fns", r(d).id, NoHost, "RU", r(d).form, r(d).categories, d)
    BY <1>4, Zenon DEF RegistryItems
  <2>2. /\ i.source = "ru_fns" /\ i.country = "RU" /\ i.form = r(d).form
        /\ i.categories = r(d).categories /\ i.from = d
    <3> HIDE DEF r
    <3> QED BY <2>1, OfferParts
  <2>3. /\ r(d).categories = LongestRule(FirstKnown(d.activities))
        /\ r(d).categories \subseteq CategoryList
        /\ r(d).form \in {"UNK", "OOO", "AO", "PAO", "IP"}
        /\ d.town = Absent /\ CityFromLocation(d) # Absent =>
             CityFromLocation(d) \in Cities["RU"]
    BY <2>1, RecordFacts
  <2> HIDE DEF r
  <2>4. "RU" \in Countries /\ LegalFormOf("RU", r(d).form) # NoForm
    <3>1. "RU" \in Countries
      BY DEF Countries
    <3> QED BY <2>3, <3>1, FormFacts
  <2> QED BY <2>2, <2>3, <2>4 DEF OfferFine, Fine
<1> QED BY <1>1, <1>2, <1>3, <1>4 DEF Offers

-----------------------------------------------------------------------------
(* Who is who on the lists.                                                *)

\* The homepages of the curated sources.
OutsourcingHosts == {"reksoft.ru", "auriga.com", "firstlinesoftware.com", "digdes.com",
  "cinimex.ru", "lanit.ru", "ibs.ru", "croc.ru", "softline.ru", "simbirsoft.com",
  "agima.ru", "redmadrobot.ru", "redcollar.studio", "mobileup.ru", "livetyping.com",
  "surf.dev", "naumen.ru", "otr.ru", "t1.ru", "arcadia.spb.ru"}
BusinessHosts == {"b1.ru", "kept.ru", "delprof.ru", "fbk.ru", "glavbuh-assistent.ru",
  "pgplaw.ru", "epam.ru", "gorodissky.ru", "ashmanov.com", "ikra.agency", "ancor.ru",
  "colemanservices.ru"}
RegionalHosts == {"effective.tech", "axbit.ru", "krista.ru", "itrium.ru", "itconstruct.ru",
  "deiteriylab.ru", "uspek.com", "southitpark.ru"}

\* No two entries of a source have one id or one homepage.
LEMMA OutsourcingApart ==
  ASSUME NEW e \in OutsourcingFirst \cup OutsourcingSecond,
         NEW f \in OutsourcingFirst \cup OutsourcingSecond
  PROVE  /\ e.host \in OutsourcingHosts
         /\ e.id = f.id \/ e.host = f.host => e = f
<1>1. ASSUME NEW g \in OutsourcingFirst PROVE g.host \in OutsourcingHosts
  BY SMTT(60) DEF OutsourcingFirst, Software, Company, OutsourcingHosts
<1>2. ASSUME NEW g \in OutsourcingSecond PROVE g.host \in OutsourcingHosts
  BY SMTT(60) DEF OutsourcingSecond, Software, Company, OutsourcingHosts
<1>3. ASSUME e \in OutsourcingFirst, f \in OutsourcingFirst,
             e.id = f.id \/ e.host = f.host
      PROVE  e = f
  BY <1>3, SMTT(120) DEF OutsourcingFirst, Software, Company
<1>4. ASSUME e \in OutsourcingSecond, f \in OutsourcingSecond,
             e.id = f.id \/ e.host = f.host
      PROVE  e = f
  BY <1>4, SMTT(120) DEF OutsourcingSecond, Software, Company
<1>5. ASSUME NEW a \in OutsourcingFirst, NEW b \in OutsourcingSecond
      PROVE  a.id # b.id /\ a.host # b.host
  BY SMTT(120) DEF OutsourcingFirst, OutsourcingSecond, Software, Company
<1> QED BY <1>1, <1>2, <1>3, <1>4, <1>5

\* The entries of ru_business_services.
BusinessEntries == ConsultingEntries \cup MarketingEntries \cup HrEntries

\* The same of the second source.
LEMMA BusinessApart ==
  ASSUME NEW e \in BusinessEntries, NEW f \in BusinessEntries
  PROVE  /\ e.host \in BusinessHosts
         /\ e.id = f.id \/ e.host = f.host => e = f
<1>1. /\ \A g \in ConsultingEntries : g.host \in BusinessHosts
      /\ \A g \in MarketingEntries \cup HrEntries : g.host \in BusinessHosts
  BY SMTT(60) DEF ConsultingEntries, MarketingEntries, HrEntries, Company, BusinessHosts
<1>2. ASSUME NEW a \in ConsultingEntries, NEW b \in ConsultingEntries,
             a.id = b.id \/ a.host = b.host
      PROVE  a = b
  BY <1>2, SMTT(120) DEF ConsultingEntries, Company
<1>3. ASSUME NEW a \in MarketingEntries \cup HrEntries, NEW b \in MarketingEntries \cup HrEntries,
             a.id = b.id \/ a.host = b.host
      PROVE  a = b
  BY <1>3, SMTT(120) DEF MarketingEntries, HrEntries, Company
<1>4. ASSUME NEW a \in ConsultingEntries, NEW b \in MarketingEntries \cup HrEntries
      PROVE  a.id # b.id /\ a.host # b.host
  BY SMTT(120) DEF ConsultingEntries, MarketingEntries, HrEntries, Company
<1> QED BY <1>1, <1>2, <1>3, <1>4 DEF BusinessEntries

\* The same of the third.
LEMMA RegionalApart ==
  ASSUME NEW e \in RegionalEntries, NEW f \in RegionalEntries
  PROVE  /\ e.host \in RegionalHosts
         /\ e.id = f.id \/ e.host = f.host => e = f
<1>1. e.host \in RegionalHosts
  BY SMTT(60) DEF RegionalEntries, Software, Company, RegionalHosts
<1>2. ASSUME e.id = f.id \/ e.host = f.host PROVE e = f
  BY <1>2, SMTT(120) DEF RegionalEntries, Software, Company
<1> QED BY <1>1, <1>2

\* No homepage is in two of the sources, and none is the demo's.
LEMMA ListHostsApart ==
  /\ OutsourcingHosts \cap BusinessHosts = {} /\ OutsourcingHosts \cap RegionalHosts = {}
  /\ BusinessHosts \cap RegionalHosts = {}
  /\ DemoHost \notin OutsourcingHosts \cup BusinessHosts \cup RegionalHosts
  BY SMTT(60) DEF OutsourcingHosts, BusinessHosts, RegionalHosts, DemoHost

\* Entries of one source and id, or of one homepage, are one.
LEMMA CuratedApart ==
  ASSUME NEW s \in DOMAIN Curated, NEW t \in DOMAIN Curated,
         NEW e \in Curated[s], NEW f \in Curated[t]
  PROVE  /\ e.host \in OutsourcingHosts \cup BusinessHosts \cup RegionalHosts
         /\ s = t /\ e.id = f.id => e = f
         /\ e.host = f.host => s = t /\ e = f
<1> DEFINE H(u) == IF u = "ru_outsourcing" THEN OutsourcingHosts
                   ELSE IF u = "ru_business_services" THEN BusinessHosts ELSE RegionalHosts
<1>1. /\ DOMAIN Curated = {"ru_outsourcing", "ru_business_services", "ru_regional_it"}
      /\ Curated["ru_outsourcing"] = OutsourcingFirst \cup OutsourcingSecond
      /\ Curated["ru_business_services"] = BusinessEntries
      /\ Curated["ru_regional_it"] = RegionalEntries
  BY DEF Curated, BusinessEntries
<1>2. ASSUME NEW u \in DOMAIN Curated, NEW a \in Curated[u], NEW b \in Curated[u]
      PROVE  a.host \in H(u) /\ (a.id = b.id \/ a.host = b.host => a = b)
  <2>1. CASE u = "ru_outsourcing"
    BY <1>1, <2>1, OutsourcingApart
  <2>2. CASE u = "ru_business_services"
    BY <1>1, <2>2, BusinessApart
  <2>3. CASE u = "ru_regional_it"
    BY <1>1, <2>3, RegionalApart
  <2> QED BY <1>1, <2>1, <2>2, <2>3
<1>3. ASSUME NEW u \in DOMAIN Curated, NEW v \in DOMAIN Curated, u # v
      PROVE  H(u) \cap H(v) = {}
  BY <1>1, <1>3, ListHostsApart
<1>4. \A u : H(u) \subseteq OutsourcingHosts \cup BusinessHosts \cup RegionalHosts
  OBVIOUS
<1> HIDE DEF H
<1>5. e.host \in H(s) /\ f.host \in H(t)
  BY <1>2
<1>6. e.host = f.host => s = t
  BY <1>3, <1>5
<1> QED BY <1>2, <1>4, <1>5, <1>6

\* No candidate of the niche is on another list.
LEMMA NicheHosts ==
  ASSUME NEW n \in Niche
  PROVE  n.host \notin OutsourcingHosts \cup BusinessHosts \cup RegionalHosts \cup {DemoHost}
<1>1. ASSUME n \in NicheAnywhere PROVE n.host \notin OutsourcingHosts \cup BusinessHosts \cup RegionalHosts \cup {DemoHost}
  BY <1>1, SMTT(120) DEF NicheAnywhere, Near, OutsourcingHosts, BusinessHosts, RegionalHosts, DemoHost
<1>2. ASSUME n \in NicheInCities PROVE n.host \notin OutsourcingHosts \cup BusinessHosts \cup RegionalHosts \cup {DemoHost}
  BY <1>2, SMTT(120) DEF NicheInCities, Near, OutsourcingHosts, BusinessHosts, RegionalHosts, DemoHost
<1> QED BY <1>1, <1>2 DEF Niche

\* No candidate of the niche is named twice.
LEMMA NicheApart ==
  ASSUME NEW n \in Niche, NEW m \in Niche, n.host = m.host
  PROVE  n = m
<1>1. ASSUME NEW a \in Niche PROVE a = [host |-> a.host, city |-> a.city]
  BY SMTT(60) DEF Niche, NicheAnywhere, NicheInCities, Near
<1>2. ASSUME NEW a \in NicheAnywhere, NEW b \in NicheAnywhere, a.host = b.host
      PROVE  a.city = b.city
  BY <1>2, SMTT(120) DEF NicheAnywhere, Near
<1>3. ASSUME NEW a \in NicheInCities, NEW b \in NicheInCities, a.host = b.host
      PROVE  a.city = b.city
  BY <1>3, SMTT(120) DEF NicheInCities, Near
<1>4. ASSUME NEW a \in NicheAnywhere, NEW b \in NicheInCities
      PROVE  a.host # b.host
  BY SMTT(120) DEF NicheAnywhere, NicheInCities, Near
<1>5. n.city = m.city
  BY <1>2, <1>3, <1>4 DEF Niche
<1>6. n = [host |-> n.host, city |-> n.city] /\ m = [host |-> m.host, city |-> m.city]
  BY <1>1
<1> QED BY <1>5, <1>6

\* What an item has from the list it comes from.
LEMMA OfferKinds ==
  ASSUME NEW i \in Offers
  PROVE  \/ \E s \in DOMAIN Curated : \E e \in Curated[s] :
              i.source = s /\ i.id = e.id /\ i.host = e.host /\ i.from = e
         \/ \E n \in Niche :
              i.source = "ru_marketplace" /\ i.id = n.host /\ i.host = n.host /\ i.from = n
         \/ i.source = "ru_fns" /\ i.host = NoHost
         \/ i.source = "demo" /\ i.host = DemoHost
<1>1. ASSUME NEW source, NEW id, NEW host, NEW country, NEW form, NEW categories, NEW from,
             i = Offer(source, id, host, country, form, categories, from)
      PROVE  i.source = source /\ i.id = id /\ i.host = host /\ i.from = from
  BY <1>1 DEF Offer
<1>2. CASE i \in CuratedItems
  <2>1. PICK s \in DOMAIN Curated :
          \E e \in Curated[s] : i = Offer(s, e.id, e.host, "RU", e.form, e.categories, e)
    BY <1>2 DEF CuratedItems
  <2>2. PICK e \in Curated[s] : i = Offer(s, e.id, e.host, "RU", e.form, e.categories, e)
    BY <2>1
  <2>3. i.source = s /\ i.id = e.id /\ i.host = e.host /\ i.from = e
    BY <1>1, <2>2
  <2> QED BY <2>3
<1>3. CASE i \in NicheItems
  <2>1. PICK n \in Niche, digits \in {0, 10, 12} :
          i = Offer("ru_marketplace", n.host, n.host, "RU", NicheForm(digits),
                    NicheCategories, n)
    BY <1>3 DEF NicheItems
  <2>2. i.source = "ru_marketplace" /\ i.id = n.host /\ i.host = n.host /\ i.from = n
    BY <1>1, <2>1
  <2> QED BY <2>2
<1>4. CASE i \in DemoSpiderItems
  <2>1. PICK e \in DemoItems :
          i = Offer("demo", e.slug, DemoHost, e.country, e.form, e.categories, e)
    BY <1>4 DEF DemoSpiderItems
  <2> QED BY <1>1, <2>1
<1>5. CASE i \in RegistryItems
  <2> DEFINE r(d) == ParseDocument(d)
  <2>1. PICK d \in Documents :
          i = Offer("ru_fns", r(d).id, NoHost, "RU", r(d).form, r(d).categories, d)
    BY <1>5, Zenon DEF RegistryItems
  <2> HIDE DEF r
  <2> QED BY <1>1, <2>1
<1> QED BY <1>2, <1>3, <1>4, <1>5 DEF Offers

\* Items of one source key have one homepage and are one company; those of one
\* homepage have one source key.
LEMMA KeysAndHosts ==
  ASSUME NEW i \in Offers, NEW j \in Offers
  PROVE  /\ i.source = "demo" <=> i.host = DemoHost
         /\ i.source # "seed"
         /\ i.source # "demo" /\ j.source # "demo" =>
              /\ i.source = j.source /\ i.id = j.id => i.host = j.host /\ OneCompany(i, j)
              /\ i.host = j.host /\ i.host # NoHost => i.source = j.source /\ i.id = j.id
<1> DEFINE ListHosts == OutsourcingHosts \cup BusinessHosts \cup RegionalHosts
           FromList(k) == \E s \in DOMAIN Curated : \E e \in Curated[s] :
                            k.source = s /\ k.id = e.id /\ k.host = e.host /\ k.from = e
           FromNiche(k) == \E n \in Niche :
              k.source = "ru_marketplace" /\ k.id = n.host /\ k.host = n.host /\ k.from = n
           FromRegistry(k) == k.source = "ru_fns" /\ k.host = NoHost
           FromDemo(k) == k.source = "demo" /\ k.host = DemoHost
<1>1. DOMAIN Curated = {"ru_outsourcing", "ru_business_services", "ru_regional_it"}
  BY DEF Curated
<1>2. ASSUME NEW k \in Offers
      PROVE  FromList(k) \/ FromNiche(k) \/ FromRegistry(k) \/ FromDemo(k)
  BY OfferKinds
<1>3. ASSUME NEW k, FromList(k) PROVE k.source \in DOMAIN Curated /\ k.host \in ListHosts
  BY <1>3, CuratedApart
<1>4. ASSUME NEW k, FromNiche(k)
      PROVE  k.source = "ru_marketplace" /\ k.host \notin ListHosts /\ k.host # DemoHost
  BY <1>4, NicheHosts
<1>5. DemoHost \notin ListHosts /\ NoHost # DemoHost
  BY ListHostsApart, NoHostAssumption
<1>6. ASSUME FromList(i), FromList(j)
      PROVE  /\ i.source = j.source /\ i.id = j.id => i.host = j.host /\ i.from = j.from
             /\ i.host = j.host => i.source = j.source /\ i.id = j.id
  <2>1. PICK s \in DOMAIN Curated :
          \E e \in Curated[s] : i.source = s /\ i.id = e.id /\ i.host = e.host /\ i.from = e
    BY <1>6
  <2>2. PICK e \in Curated[s] : i.source = s /\ i.id = e.id /\ i.host = e.host /\ i.from = e
    BY <2>1
  <2>3. PICK t \in DOMAIN Curated :
          \E f \in Curated[t] : j.source = t /\ j.id = f.id /\ j.host = f.host /\ j.from = f
    BY <1>6
  <2>4. PICK f \in Curated[t] : j.source = t /\ j.id = f.id /\ j.host = f.host /\ j.from = f
    BY <2>3
  <2>5. (s = t /\ e.id = f.id => e = f) /\ (e.host = f.host => s = t /\ e = f)
    BY CuratedApart
  <2> QED BY <2>2, <2>4, <2>5
<1>7. ASSUME FromNiche(i), FromNiche(j)
      PROVE  /\ i.id = j.id => i.host = j.host /\ i.from = j.from
             /\ i.host = j.host => i.id = j.id
  BY <1>7, NicheApart
<1> HIDE DEF ListHosts, FromList, FromNiche
<1>8. \A k \in Offers : (k.source = "demo" <=> k.host = DemoHost) /\ k.source # "seed"
  BY <1>1, <1>2, <1>3, <1>4, <1>5
<1>9. ASSUME i.source # "demo", j.source # "demo", i.source = j.source, i.id = j.id
      PROVE  i.host = j.host /\ OneCompany(i, j)
  BY <1>1, <1>2, <1>3, <1>4, <1>6, <1>7, <1>9 DEF OneCompany
<1>10. ASSUME i.source # "demo", j.source # "demo", i.host = j.host, i.host # NoHost
       PROVE  i.source = j.source /\ i.id = j.id
  BY <1>1, <1>2, <1>3, <1>4, <1>6, <1>7, <1>10
<1> QED BY <1>8, <1>9, <1>10

-----------------------------------------------------------------------------
(* The seed and the imports.                                               *)

\* At the start there is no category and no row.
LEMMA ContentInvInit == ContentInit => ContentInv
<1> SUFFICES ASSUME ContentInit PROVE ContentInv
  OBVIOUS
<1>1. tree = <<>> /\ sown = 0 /\ seed = "running" /\ companies = {}
  BY DEF ContentInit
<1>2. 1 .. sown = {} /\ sown \in 0 .. Len(TreeOrder)
  BY <1>1, TreeList
<1>3. DOMAIN tree = {}
  BY <1>1
<1> QED BY <1>1, <1>2, <1>3 DEF ContentInv

\* A root and its children move none of the categories placed before.
LEMMA SowRootKeeps == ContentInv /\ SowRoot => ContentInv'
<1> SUFFICES ASSUME ContentInv, SowRoot PROVE ContentInv'
  OBVIOUS
<1> DEFINE root == TreeOrder[sown + 1]
           parent(c) == IF c \in Tree[root] THEN root
                        ELSE IF c \in DOMAIN tree THEN tree[c] ELSE Root
           slugs == DOMAIN tree \cup {root} \cup Tree[root]
<1>1. /\ seed = "running" /\ sown < Len(TreeOrder) /\ sown' = sown + 1
      /\ tree' = [c \in slugs |-> parent(c)]
      /\ seed' = seed /\ companies' = companies
  BY DEF SowRoot, Upserted
<1>2. /\ sown \in 0 .. 4 /\ sown' \in 1 .. 5 /\ Len(TreeOrder) = 5
      /\ 1 .. sown' = (1 .. sown) \cup {sown'}
      /\ \A n \in 1 .. sown : n \in 1 .. 5 /\ n # sown'
  BY <1>1, TreeList DEF ContentInv
<1>3. /\ DOMAIN tree = Sown(sown)
      /\ \A n \in 1 .. sown :
           /\ tree[TreeOrder[n]] = Root
           /\ \A c \in Tree[TreeOrder[n]] : tree[c] = TreeOrder[n]
  BY DEF ContentInv, Sown
<1>4. root = TreeOrder[sown']
  BY <1>1
<1> HIDE DEF root
<1>5. DOMAIN tree' = Sown(sown')
  <2>1. DOMAIN tree' = Sown(sown) \cup {root} \cup Tree[root]
    BY <1>1, <1>3
  <2> QED BY <1>2, <1>4, <2>1 DEF Sown
<1>6. \A c \in slugs : tree'[c] = parent(c)
  BY <1>1
<1>7. \A n \in 1 .. sown' : TreeOrder[n] \in slugs /\ Tree[TreeOrder[n]] \subseteq slugs
  <2>1. slugs = Sown(sown')
    BY <1>1, <1>5
  <2> QED BY <2>1 DEF Sown
<1> HIDE DEF slugs
<1>8. ASSUME NEW n \in 1 .. sown
      PROVE  /\ tree'[TreeOrder[n]] = Root
             /\ \A c \in Tree[TreeOrder[n]] : tree'[c] = TreeOrder[n]
  <2>1. /\ TreeOrder[n] \notin Tree[root]
        /\ Tree[TreeOrder[n]] \cap Tree[root] = {}
    BY <1>2, <1>4, TreeApart
  <2>2. TreeOrder[n] \in DOMAIN tree /\ Tree[TreeOrder[n]] \subseteq DOMAIN tree
    BY <1>3 DEF Sown
  <2>3. n \in 1 .. sown'
    BY <1>2
  <2> QED BY <1>3, <1>6, <1>7, <2>1, <2>2, <2>3
<1>9. tree'[root] = Root /\ \A c \in Tree[root] : tree'[c] = root
  <2>1. root \notin Tree[root] /\ root \notin DOMAIN tree
    <3>1. ASSUME NEW n \in 1 .. sown
          PROVE  root # TreeOrder[n] /\ root \notin Tree[TreeOrder[n]]
      BY <1>2, <1>4, TreeApart
    <3>2. root \notin Tree[root]
      BY <1>2, <1>4, TreeApart
    <3> QED BY <1>3, <3>1, <3>2 DEF Sown
  <2>2. sown' \in 1 .. sown'
    BY <1>2
  <2> QED BY <1>4, <1>6, <1>7, <2>1, <2>2
<1>10. \A n \in 1 .. sown' :
         /\ tree'[TreeOrder[n]] = Root
         /\ \A c \in Tree[TreeOrder[n]] : tree'[c] = TreeOrder[n]
  BY <1>2, <1>4, <1>8, <1>9
<1>11. /\ seed' = "running" /\ companies' = {}
       /\ sown' \in 0 .. Len(TreeOrder)
  BY <1>1, <1>2 DEF ContentInv
<1> QED BY <1>5, <1>10, <1>11 DEF ContentInv, Sown

\* A seed that is through has every category.
LEMMA SownIsAll ==
  ASSUME ContentInv, sown = Len(TreeOrder), NEW slugs, slugs \subseteq CategoryList
  PROVE  Linked(slugs) = slugs
<1>1. DOMAIN tree = Sown(Len(TreeOrder))
  BY DEF ContentInv, Sown
<1> QED BY <1>1, AllSown DEF Linked

\* The seed's providers find what they name, so that it is not rolled back.
LEMMA SeedRowsKeeps == ContentInv /\ SeedRows => ContentInv'
<1> SUFFICES ASSUME ContentInv, SeedRows PROVE ContentInv'
  OBVIOUS
<1> DEFINE lost == {p \in SeedProviders : p.country \notin Countries
                                           \/ p.city \notin Cities[p.country]}
<1>1. seed = "running" /\ sown = Len(TreeOrder)
  BY DEF SeedRows
<1>2. lost = {}
  BY SeedFacts DEF Fine
<1>3. /\ seed' = "done" /\ companies' = {SeedRow(p) : p \in SeedProviders}
      /\ tree' = tree /\ sown' = sown
  BY <1>2, Zenon DEF SeedRows
<1>4. ASSUME NEW p \in SeedProviders
      PROVE  /\ DOMAIN SeedRow(p) = {"key", "host", "form", "linked", "asked", "of"}
             /\ Resolved(SeedRow(p)) /\ RowApart(SeedRow(p)) /\ SeedRow(p).of \subseteq Offers
  <2>1. Fine(p.country, p.form, p.categories)
    BY SeedFacts
  <2>2. Linked(p.categories) = p.categories
    BY <1>1, <2>1, SownIsAll DEF Fine
  <2>3. /\ DOMAIN SeedRow(p) = {"key", "host", "form", "linked", "asked", "of"}
        /\ SeedRow(p).of = {} /\ SeedRow(p).asked = p.categories
        /\ SeedRow(p).linked = Linked(p.categories)
        /\ SeedRow(p).form = LegalFormOf(p.country, p.form)
        /\ SeedRow(p).host = DemoHost /\ SeedRow(p).key = <<"seed", p.slug>>
    BY DEF SeedRow
  <2>4. Resolved(SeedRow(p))
    BY <2>1, <2>2, <2>3 DEF Fine, Resolved
  <2>5. RowApart(SeedRow(p))
    BY <2>3 DEF RowApart
  <2> QED BY <2>3, <2>4, <2>5
<1>5. \A c \in companies' :
        /\ DOMAIN c = {"key", "host", "form", "linked", "asked", "of"}
        /\ Resolved(c) /\ RowApart(c) /\ c.of \subseteq Offers
  BY <1>3, <1>4
<1> QED BY <1>1, <1>3, <1>5 DEF ContentInv

\* A root that is sown again moves nothing.
LEMMA UpsertedAgain ==
  ASSUME ContentInv, sown = Len(TreeOrder), NEW n \in 1 .. Len(TreeOrder)
  PROVE  /\ DOMAIN Upserted(TreeOrder[n]) = DOMAIN tree
         /\ \A c \in DOMAIN tree : Upserted(TreeOrder[n])[c] = tree[c]
<1> DEFINE root == TreeOrder[n]
           parent(c) == IF c \in Tree[root] THEN root
                        ELSE IF c \in DOMAIN tree THEN tree[c] ELSE Root
           slugs == DOMAIN tree \cup {root} \cup Tree[root]
<1>1. n \in 1 .. sown
  OBVIOUS
<1>2. /\ DOMAIN tree = Sown(sown)
      /\ \A c \in Tree[root] : tree[c] = root
  BY <1>1 DEF ContentInv, Sown
<1>3. root \in DOMAIN tree /\ Tree[root] \subseteq DOMAIN tree
  BY <1>1, <1>2 DEF Sown
<1>4. slugs = DOMAIN tree /\ \A c \in DOMAIN tree : parent(c) = tree[c]
  BY <1>2, <1>3
<1>5. Upserted(root) = [c \in slugs |-> parent(c)]
  BY DEF Upserted
<1> QED BY <1>4, <1>5

\* The seed that runs again leaves every row with all that it names.
LEMMA SeedAgainKeeps == ContentInv /\ SeedAgain => ContentInv'
<1> SUFFICES ASSUME ContentInv, SeedAgain PROVE ContentInv'
  OBVIOUS
<1>1. seed = "done" /\ sown = Len(TreeOrder) /\ seed' = seed /\ sown' = sown
  BY DEF SeedAgain, ContentInv
<1>3. CASE \E n \in 1 .. Len(TreeOrder) :
             tree' = Upserted(TreeOrder[n]) /\ companies' = companies
  <2>1. /\ DOMAIN tree' = DOMAIN tree /\ companies' = companies
        /\ \A c \in DOMAIN tree : tree'[c] = tree[c]
    BY <1>1, <1>3, UpsertedAgain
  <2>2. \A n \in 1 .. sown :
          TreeOrder[n] \in DOMAIN tree /\ Tree[TreeOrder[n]] \subseteq DOMAIN tree
    BY DEF ContentInv
  <2>3. \A n \in 1 .. sown :
          /\ tree'[TreeOrder[n]] = Root
          /\ \A c \in Tree[TreeOrder[n]] : tree'[c] = TreeOrder[n]
    BY <2>1, <2>2 DEF ContentInv
  <2>4. \A c \in companies : /\ DOMAIN c = {"key", "host", "form", "linked", "asked", "of"}
                            /\ Resolved(c) /\ RowApart(c) /\ c.of \subseteq Offers
    BY DEF ContentInv
  <2> QED BY <1>1, <2>1, <2>3, <2>4 DEF ContentInv
<1>4. ASSUME NEW p \in SeedProviders, NEW c \in companies,
             companies' = (companies \ {c}) \cup
               {[c EXCEPT !.linked = Linked(p.categories), !.asked = p.categories]},
             tree' = tree
      PROVE  ContentInv'
  <2> DEFINE d == [c EXCEPT !.linked = Linked(p.categories), !.asked = p.categories]
  <2>1. /\ DOMAIN c = {"key", "host", "form", "linked", "asked", "of"}
        /\ Resolved(c) /\ RowApart(c) /\ c.of \subseteq Offers
    BY DEF ContentInv
  <2>2. Linked(p.categories) = p.categories
    BY <1>1, SeedFacts, SownIsAll DEF Fine
  <2>3. /\ DOMAIN d = DOMAIN c
        /\ d.linked = p.categories /\ d.asked = p.categories
        /\ d.form = c.form /\ d.key = c.key /\ d.host = c.host /\ d.of = c.of
    BY <2>1, <2>2
  <2> HIDE DEF d
  <2>4. Resolved(d) /\ RowApart(d)
    BY <2>1, <2>3 DEF Resolved, RowApart
  <2>5. companies' = (companies \ {c}) \cup {d}
    BY <1>4 DEF d
  <2> QED BY <1>1, <1>4, <2>1, <2>3, <2>4, <2>5 DEF ContentInv
<1> QED BY <1>3, <1>4 DEF SeedAgain

\* A row that takes an item in stays one that found all it names.
LEMMA AbsorbingKeeps ==
  ASSUME ContentInv, seed = "done", NEW i \in Offers, NEW c,
         DOMAIN c = {"key", "host", "form", "linked", "asked", "of"},
         c.linked = c.asked, c.of \subseteq Offers
  PROVE  /\ DOMAIN Absorbing(c, i) = {"key", "host", "form", "linked", "asked", "of"}
         /\ Resolved(Absorbing(c, i)) /\ Absorbing(c, i).of \subseteq Offers
<1> DEFINE form == LegalFormOf(i.country, i.form)
           got == Linked(i.categories)
<1>1. Fine(i.country, i.form, i.categories)
  BY OfferFacts DEF OfferFine
<1>2. form # NoForm
  BY <1>1 DEF Fine
<1>3. got = i.categories
  BY <1>1, SownIsAll DEF Fine, ContentInv
<1>4. Absorbing(c, i) =
        [c EXCEPT !.form = IF form = NoForm THEN @ ELSE form,
                  !.host = IF i.host = NoHost THEN @ ELSE i.host,
                  !.linked = @ \cup got, !.asked = @ \cup i.categories,
                  !.of = @ \cup {i}]
  BY DEF Absorbing
<1> HIDE DEF form, got
<1>5. /\ DOMAIN Absorbing(c, i) = {"key", "host", "form", "linked", "asked", "of"}
      /\ Absorbing(c, i).form = form /\ Absorbing(c, i).linked = c.linked \cup got
      /\ Absorbing(c, i).asked = c.asked \cup i.categories
      /\ Absorbing(c, i).of = c.of \cup {i}
  BY <1>2, <1>4
<1> QED BY <1>2, <1>3, <1>5 DEF Resolved

\* What a row is after an item.
LEMMA AbsorbedParts ==
  ASSUME NEW i \in Offers, NEW c,
         DOMAIN c = {"key", "host", "form", "linked", "asked", "of"}
  PROVE  /\ Absorbing(c, i).key = c.key /\ Absorbing(c, i).of = c.of \cup {i}
         /\ Absorbing(c, i).host = IF i.host = NoHost THEN c.host ELSE i.host
<1> DEFINE form == LegalFormOf(i.country, i.form)
           got == Linked(i.categories)
<1>1. Absorbing(c, i) =
        [c EXCEPT !.form = IF form = NoForm THEN @ ELSE form,
                  !.host = IF i.host = NoHost THEN @ ELSE i.host,
                  !.linked = @ \cup got, !.asked = @ \cup i.categories,
                  !.of = @ \cup {i}]
  BY DEF Absorbing
<1> HIDE DEF form, got
<1> QED BY <1>1

\* A new row holds its one item.
LEMMA NewApart ==
  ASSUME NEW i \in Offers
  PROVE  RowApart(Absorbing(NewCompany(i), i))
<1> DEFINE c == NewCompany(i)
           d == Absorbing(c, i)
<1>1. /\ DOMAIN c = {"key", "host", "form", "linked", "asked", "of"}
      /\ c.key = <<i.source, i.id>> /\ c.host = i.host /\ c.of = {}
  BY DEF NewCompany
<1> HIDE DEF c
<1>2. d.key = <<i.source, i.id>> /\ d.host = i.host /\ d.of = {i}
  BY <1>1, AbsorbedParts
<1>3. i.source = "demo" <=> i.host = DemoHost
  BY KeysAndHosts
<1> HIDE DEF d
<1>4. RowApart(d)
  BY <1>2, <1>3 DEF RowApart
<1> QED BY <1>4 DEF c, d

\* A row that is found by an item's source key or homepage is of that company.
LEMMA MergedApart ==
  ASSUME NEW i \in Offers, NEW c \in Existing(i), RowApart(c), c.of \subseteq Offers,
         DOMAIN c = {"key", "host", "form", "linked", "asked", "of"}
  PROVE  RowApart(Absorbing(c, i))
<1> DEFINE d == Absorbing(c, i)
<1>1. \/ c.key = <<i.source, i.id>>
      \/ c.host = i.host /\ i.host # NoHost
  BY DEF Existing
<1>2. d.key = c.key /\ d.of = c.of \cup {i} /\ d.host = IF i.host = NoHost THEN c.host ELSE i.host
  BY AbsorbedParts
<1>3. (i.source = "demo" <=> i.host = DemoHost) /\ i.source # "seed" /\ NoHost # DemoHost
  BY KeysAndHosts, NoHostAssumption
<1> HIDE DEF d
<1>4. CASE c.host = DemoHost
  <2>1. c.key[1] \in {"seed", "demo"} /\ \A j \in c.of : j.source = "demo"
    BY <1>4 DEF RowApart
  <2>2. i.source = "demo"
    BY <1>1, <1>3, <1>4, <2>1
  <2>3. d.host = DemoHost
    BY <1>2, <1>3, <2>2
  <2>4. RowApart(d)
    BY <1>2, <2>1, <2>2, <2>3 DEF RowApart
  <2> QED BY <2>4 DEF d
<1>5. CASE c.host # DemoHost
  <2>1. /\ c.of # {}
        /\ \A j \in c.of :
             j.source # "demo" /\ c.key = <<j.source, j.id>> /\ c.host = j.host
    BY <1>5 DEF RowApart
  <2>2. PICK j \in c.of :
          j.source # "demo" /\ c.key = <<j.source, j.id>> /\ c.host = j.host
    BY <2>1
  <2>3. i.source # "demo"
    BY <1>1, <1>3, <1>5, <2>2
  <2>4. i.source = j.source /\ i.id = j.id /\ i.host = j.host
    <3>1. j \in Offers
      BY <2>2
    <3>2. /\ i.source = j.source /\ i.id = j.id => i.host = j.host
          /\ i.host = j.host /\ i.host # NoHost => i.source = j.source /\ i.id = j.id
      BY <2>2, <2>3, <3>1, KeysAndHosts
    <3>3. c.key = <<i.source, i.id>> => i.source = j.source /\ i.id = j.id
      BY <2>2
    <3> QED BY <1>1, <2>2, <3>2, <3>3
  <2>5. d.host = c.host /\ d.key = <<i.source, i.id>> /\ i.host = c.host
    BY <1>2, <2>2, <2>4
  <2>6. RowApart(d)
    BY <1>2, <1>5, <2>1, <2>3, <2>5 DEF RowApart
  <2> QED BY <2>6 DEF d
<1> QED BY <1>4, <1>5

\* An import keeps every row one that found all it names, and of one company.
LEMMA ImportKeeps ==
  ASSUME ContentInv, NEW i \in Offers, Import(i)
  PROVE  ContentInv'
<1> DEFINE Good(c) == /\ DOMAIN c = {"key", "host", "form", "linked", "asked", "of"}
                      /\ Resolved(c) /\ RowApart(c) /\ c.of \subseteq Offers
<1>1. seed = "done" /\ tree' = tree /\ sown' = sown /\ seed' = seed
  BY DEF Import
<1>2. \A c \in companies : Good(c)
  BY DEF ContentInv
<1>3. \A c \in companies' : Good(c)
  <2>1. CASE Existing(i) = {}
    <3>1. companies' = companies \cup {Absorbing(NewCompany(i), i)}
      BY <2>1 DEF Import
    <3>2. /\ DOMAIN NewCompany(i) = {"key", "host", "form", "linked", "asked", "of"}
          /\ NewCompany(i).linked = NewCompany(i).asked /\ NewCompany(i).of \subseteq Offers
      BY DEF NewCompany
    <3>3. Good(Absorbing(NewCompany(i), i))
      BY <1>1, <3>2, AbsorbingKeeps, NewApart
    <3> HIDE DEF Good
    <3> QED BY <1>2, <3>1, <3>3
  <2>2. CASE Existing(i) # {}
    <3>1. PICK c \in Existing(i) : companies' = (companies \ {c}) \cup {Absorbing(c, i)}
      BY <2>2 DEF Import
    <3>2. c \in companies
      BY DEF Existing
    <3>3. DOMAIN c = {"key", "host", "form", "linked", "asked", "of"}
          /\ c.linked = c.asked /\ c.of \subseteq Offers /\ RowApart(c)
      BY <1>2, <3>2 DEF Resolved
    <3>4. RowApart(Absorbing(c, i))
      BY <3>1, <3>3, MergedApart
    <3>5. Good(Absorbing(c, i))
      BY <1>1, <3>3, <3>4, AbsorbingKeeps
    <3> HIDE DEF Good
    <3> QED BY <1>2, <3>1, <3>5
  <2> QED BY <2>1, <2>2
<1> QED BY <1>1, <1>3 DEF ContentInv

\* The tree is as far as the seed has come, every row found all that its items name,
\* and it is of one company, for any documents and any number of imports (db/seed.py,
\* pipeline.py).
THEOREM ContentIsSound == ContentSpec => []ContentInv
<1>1. ContentInit => ContentInv
  BY ContentInvInit
<1>2. ContentInv /\ [ContentNext]_contentVars => ContentInv'
  <2> SUFFICES ASSUME ContentInv, [ContentNext]_contentVars PROVE ContentInv'
    OBVIOUS
  <2>1. CASE SowRoot
    BY <2>1, SowRootKeeps
  <2>2. CASE SeedRows
    BY <2>2, SeedRowsKeeps
  <2>3. ASSUME NEW i \in Offers, Import(i) PROVE ContentInv'
    BY <2>3, ImportKeeps
  <2>4. CASE SeedAgain
    BY <2>4, SeedAgainKeeps
  <2>5. CASE UNCHANGED contentVars
    BY <2>5 DEF ContentInv, contentVars
  <2> QED BY <2>1, <2>2, <2>3, <2>4, <2>5 DEF ContentNext
<1> QED BY <1>1, <1>2, PTL DEF ContentSpec

\* The seed never fails, no category is moved by a later root, and every demo
\* provider finds its form and categories (seed.py 358-373, 456-460, 485).
THEOREM SeedIsWholeHolds == ContentSpec => []SeedIsWhole
<1>1. ContentInv => SeedIsWhole
  BY DEF ContentInv, SeedIsWhole
<1> QED BY <1>1, ContentIsSound, PTL

\* No list names a category, a form or a country that is not there
\* (pipeline.py 82-92, 181-188).
THEOREM ListsResolveHolds == ContentSpec => []ListsResolve
<1>1. ContentInv => ListsResolve
  <2> SUFFICES ASSUME ContentInv, NEW c \in companies, NEW i \in c.of
               PROVE  Resolved(c) /\ i.country \in Countries
    BY DEF ListsResolve
  <2>1. Resolved(c) /\ i \in Offers
    BY DEF ContentInv
  <2> QED BY <2>1, OfferFacts DEF OfferFine, Fine
<1> QED BY <1>1, ContentIsSound, PTL

\* Whatever the order of its if-chain, the importer gives a record the categories of
\* the most specific OKVED prefix (ru_fns_sme_registry.py 29-44, 73-108, 131-154).
THEOREM RegistryResolvesHolds == ContentSpec => []RegistryResolves
<1>1. ContentInv => RegistryResolves
  <2> SUFFICES ASSUME ContentInv, NEW c \in companies, NEW i \in c.of, i.source = "ru_fns"
               PROVE  /\ Resolved(c)
                      /\ i.categories = LongestRule(FirstKnown(i.from.activities))
                      /\ i.from.town = Absent /\ CityFromLocation(i.from) # Absent =>
                           CityFromLocation(i.from) \in Cities["RU"]
    BY DEF RegistryResolves
  <2>1. Resolved(c) /\ i \in Offers
    BY DEF ContentInv
  <2> QED BY <2>1, OfferFacts DEF OfferFine
<1> QED BY <1>1, ContentIsSound, PTL

\* No two entries of the lists are one company to the pipeline, whatever was imported
\* before (pipeline.py 96-128, 200-215).
THEOREM CompaniesApartHolds == ContentSpec => []CompaniesApart
<1>1. ContentInv => CompaniesApart
  <2> SUFFICES ASSUME ContentInv, NEW c \in companies, NEW i \in c.of, NEW j \in c.of,
                      i.source # "demo", j.source # "demo"
               PROVE  OneCompany(i, j)
    BY DEF CompaniesApart
  <2>1. RowApart(c) /\ i \in Offers /\ j \in Offers
    BY DEF ContentInv
  <2>2. c.key = <<i.source, i.id>> /\ c.key = <<j.source, j.id>>
    BY <2>1 DEF RowApart
  <2>3. i.source = j.source /\ i.id = j.id
    BY <2>2
  <2> QED BY <2>1, <2>3, KeysAndHosts
<1> QED BY <1>1, ContentIsSound, PTL

-----------------------------------------------------------------------------
(* What the crawl is given.                                                *)

USE NoneAssumption, KindAssumption, FactsAssumption, FeedAssumption,
    NamesAssumption, BoundsAssumption, NoneOutside

WorkerState ==
  [pc : PCs, task : Tasks \cup {None}, src : Nat, pos : Nat, yielded : Nat,
   item : Items \cup {None}, row : Entries \cup {None},
   slug : Slugs \cup {None}, dropped : SUBSET Entries]

-----------------------------------------------------------------------------
(* What a spider yields.                                                   *)

LEMMA MergeIsFacts ==
  ASSUME NEW a \in Facts, NEW b \in Facts
  PROVE  Merge(a, b) \in Facts
  BY DEF Merge, Or, Facts

LEMMA IfIsFacts ==
  ASSUME NEW got, NEW a \in Facts
  PROVE  If(got, a) \in Facts
  BY DEF If, Nothing, Facts

LEMMA ItemIsItem ==
  ASSUME NEW e \in Entries, NEW name \in Texts, NEW facts \in Facts
  PROVE  /\ Item(e, name, facts) \in Items
         /\ Item(e, name, facts).entry = e
<1>1. /\ facts["mail"] \in Texts \cup {None}
      /\ facts["tax"] \in Texts \cup {None}
      /\ facts["city"] \in Texts \cup {None}
  BY DEF Facts, Fields
<1>2. HostOf[e] \in Texts \cup {None}
  OBVIOUS
<1>3. QED
  BY <1>1, <1>2 DEF Item, Items

\* Whatever pages a spider can read, it drops the entry or yields a well-formed
\* item for it.
LEMMA YieldsItems ==
  ASSUME NEW e \in Entries, NEW item \in Yields(e), item # None
  PROVE  item \in Items /\ item.entry = e
<1>1. /\ Card[e] \in Facts /\ Landing[e] \in Facts /\ Home[e] \in Facts
      /\ Contact[e] \in Facts
  OBVIOUS
<1>2. Kind[e] \in {"demo", "seed", "registry", "market"}
  OBVIOUS
<1>3. CASE Kind[e] \in {"demo", "registry"}
  <2>1. item = ListedItem(e)
    BY <1>3 DEF Yields
  <2>2. Card[e]["name"] \in Texts
    BY <1>1, <1>3 DEF Facts, Fields
  <2>3. QED
    BY <2>1, <2>2, <1>1, ItemIsItem DEF ListedItem
<1>4. CASE Kind[e] = "seed"
  <2>1. PICK home : item = SeedItem(e, home)
    BY <1>4 DEF Yields
  <2>2. Card[e]["name"] \in Texts
    BY <1>1, <1>4 DEF Facts, Fields
  <2>3. If(home, Home[e])["mail"] \in Texts \cup {None}
    BY <1>1, IfIsFacts DEF Facts, Fields
  <2>4. [Card[e] EXCEPT !["mail"] = If(home, Home[e])["mail"], !["tax"] = None]
          \in Facts
    BY <1>1, <2>3 DEF Facts, Fields
  <2>5. QED
    BY <2>1, <2>2, <2>4, ItemIsItem DEF SeedItem
<1>5. CASE Kind[e] = "market"
  <2>1. PICK home, contact : item = MarketItem(e, home, contact)
    BY <1>5 DEF Yields, Candidate
  <2>2. MarketContacts(e, home, contact) \in Facts
    BY <1>1, MergeIsFacts, IfIsFacts DEF MarketContacts
  <2>3. MarketName(e, home) \in Texts
    <3>1. HostOf[e] \in Texts
      BY <1>5
    <3>2. /\ Card[e]["name"] \in Texts \cup {None}
          /\ Landing[e]["name"] \in Texts \cup {None}
          /\ Home[e]["name"] \in Texts \cup {None}
      BY <1>1 DEF Facts, Fields
    <3>3. QED
      BY <3>1, <3>2 DEF MarketName, Or
  <2>4. DEFINE facts == MarketContacts(e, home, contact)
  <2>5. [facts EXCEPT !["city"] = Or(facts["city"], Card[e]["city"])] \in Facts
    BY <1>1, <2>2 DEF Or, Facts, Fields
  <2>6. QED
    BY <2>1, <2>3, <2>5, ItemIsItem DEF MarketItem
<1>6. QED
  BY <1>2, <1>3, <1>4, <1>5

-----------------------------------------------------------------------------
(* Steps of one execution.                                                 *)

\* A worker changes to a state of an execution and the others keep theirs.
LEMMA WorkerTyped ==
  ASSUME TypeOK, NEW w \in Workers, NEW n \in WorkerState,
         worker' = [worker EXCEPT ![w] = n]
  PROVE  /\ worker' \in [Workers -> WorkerState]
         /\ worker'[w] = n
         /\ \A v \in Workers : v # w => worker'[v] = worker[v]
  BY DEF TypeOK, WorkerState

LEMMA IdleTyped ==
  /\ Idle \in WorkerState
  /\ Idle.pc = "idle" /\ Idle.task = None /\ Idle.src = 0 /\ Idle.pos = 0
  /\ Idle.yielded = 0 /\ Idle.item = None /\ Idle.row = None
  /\ Idle.slug = None /\ Idle.dropped = {}
  BY DEF Idle, WorkerState, PCs

\* What an execution knows of its place and of what is behind it survives when
\* the tables only grow.
LEMMA PlaceStays ==
  ASSUME NEW v \in Workers, worker'[v] = worker[v],
         Present \subseteq Present', Absorbed \subseteq Absorbed',
         PlaceOK(v), ProgressOK(v)
  PROVE  PlaceOK(v)' /\ ProgressOK(v)'
<1>1. PlaceOK(v)'
  BY DEF PlaceOK, Busy, Source, Entry, SourcesLeft
<1>2. ASSUME NEW list, NEW k, Covered(v, list, k) PROVE Covered(v, list, k)'
  BY <1>2 DEF Covered
<1>3. ASSUME NEW p, SourceDone(v, p) PROVE SourceDone(v, p)'
  BY <1>2, <1>3 DEF SourceDone
<1>4. ProgressOK(v)'
  BY <1>2, <1>3 DEF ProgressOK, Busy, Source
<1>5. QED
  BY <1>1, <1>4

\* A step of a busy worker that lets the tables grow preserves the invariant
\* when it preserves it for that worker.
LEMMA WorkerStep ==
  ASSUME IngestionInv, NEW w \in Workers, Busy(w), NEW n \in WorkerState,
         worker' = [worker EXCEPT ![w] = n],
         providers' \in [Entries -> Rows \cup {None}],
         cities' \in SUBSET Texts, queue' \in SUBSET Tasks,
         tries' \in [Tasks -> 0 .. MaxRetries], faults' \in 0 .. MaxFaults,
         absorbed' \in [Entries -> Entries \cup {None}],
         seeder' = seeder, overlapped' \in SUBSET Workers,
         \A v \in Workers : v # w /\ v \in overlapped => v \in overlapped',
         Present \subseteq Present', Absorbed \subseteq Absorbed',
         KeysUnique', AbsorbedStays',
         PlaceOK(w)', ProgressOK(w)',
         Busy(w)' /\ w \notin overlapped' => w \notin overlapped,
         w \notin overlapped => AloneOK(w)'
  PROVE  IngestionInv'
<1>1. /\ worker' \in [Workers -> WorkerState] /\ worker'[w] = n
      /\ \A v \in Workers : v # w => worker'[v] = worker[v]
  BY WorkerTyped DEF IngestionInv
<1>2. TypeOK'
  BY <1>1 DEF IngestionInv, TypeOK, WorkerState
<1>3. ASSUME NEW v \in Workers, v # w
      PROVE  PlaceOK(v)' /\ ProgressOK(v)'
  BY <1>1, <1>3, PlaceStays DEF IngestionInv
<1>4. ASSUME NEW v \in Workers, v # w
      PROVE  AloneOK(v)'
  BY <1>1, <1>4 DEF IngestionInv, AloneOK, Busy
<1>5. AloneOK(w)'
  <2>1. CASE Busy(w)' /\ w \notin overlapped'
    BY <2>1 DEF IngestionInv, AloneOK
  <2>2. CASE ~(Busy(w)' /\ w \notin overlapped')
    BY <2>2 DEF AloneOK, Busy
  <2>3. QED
    BY <2>1, <2>2
<1>6. QED
  BY <1>2, <1>3, <1>4, <1>5 DEF IngestionInv

\* A step that only moves the worker.
LEMMA QuietStep ==
  ASSUME IngestionInv, NEW w \in Workers, Busy(w), NEW n \in WorkerState,
         worker' = [worker EXCEPT ![w] = n], Reads,
         PlaceOK(w)', ProgressOK(w)', w \notin overlapped => AloneOK(w)'
  PROVE  IngestionInv'
<1>1. Present' = Present /\ Absorbed' = Absorbed
  BY DEF Reads, tables, history, Present, Absorbed
<1>2. KeysUnique' /\ AbsorbedStays'
  BY <1>1 DEF IngestionInv, KeysUnique, AbsorbedStays, SeedOwned, Reads, tables, history
<1>3. QED
  BY <1>1, <1>2, WorkerStep DEF IngestionInv, TypeOK, Reads, tables, broker, history

\* A worker that stays at its item keeps what it has behind it.
LEMMA SameItem ==
  ASSUME IngestionInv, NEW w \in Workers,
         worker[w].pc \in InList, worker'[w].pc \in InList \cup {"conflict", "failed"},
         worker'[w].task = worker[w].task, worker'[w].src = worker[w].src,
         worker'[w].pos = worker[w].pos, worker'[w].dropped = worker[w].dropped,
         Absorbed \subseteq Absorbed'
  PROVE  ProgressOK(w)'
<1>1. ASSUME NEW list, NEW k, Covered(w, list, k) PROVE Covered(w, list, k)'
  BY <1>1 DEF Covered
<1>2. ASSUME NEW p, SourceDone(w, p) PROVE SourceDone(w, p)'
  BY <1>1, <1>2 DEF SourceDone
<1>3. Busy(w) /\ ProgressOK(w)
  BY DEF IngestionInv, Busy, InList, InUpsert
<1>4. QED
  BY <1>1, <1>2, <1>3 DEF ProgressOK, Busy, Source, InList, InUpsert

\* The worker moves to another point of the upsert of its item.
LEMMA MoveStep ==
  ASSUME IngestionInv, NEW w \in Workers, worker[w].pc \in InUpsert,
         NEW n \in WorkerState, worker' = [worker EXCEPT ![w] = n], Reads,
         n.pc \in InUpsert \ {"city"},
         n.task = worker[w].task, n.src = worker[w].src, n.pos = worker[w].pos,
         n.item = worker[w].item, n.yielded = worker[w].yielded,
         n.dropped = worker[w].dropped,
         n.pc = "insert" => n.slug \in Slugs /\ ~SlugTaken(n.slug),
         n.pc \in {"update", "link"} => n.row \in Present,
         n.pc \in {"id", "host", "name", "slug", "insert"} /\ w \notin overlapped =>
           worker[w].item.entry \notin Present
  PROVE  IngestionInv'
<1>1. /\ worker'[w] = n
      /\ \A v \in Workers \ {w} : worker'[v] = worker[v]
  BY ZenonT(30), WorkerTyped DEF IngestionInv
<1>2. Present' = Present /\ Absorbed' = Absorbed /\ overlapped' = overlapped
      /\ (\A s : SlugTaken(s)' = SlugTaken(s)) /\ seeder' = seeder
  BY DEF Reads, tables, history, Present, Absorbed, SlugTaken
<1>3. PlaceOK(w) /\ AloneOK(w) /\ Busy(w)
  BY DEF IngestionInv, Busy, InUpsert
<1>4. PlaceOK(w)'
  <2>1. /\ n.task \in Tasks /\ n.src \in DOMAIN Plan[n.task] /\ n.pos \in Nat \ {0}
        /\ n.pos \in DOMAIN Feed[Plan[n.task][n.src]]
        /\ n.item \in Items /\ n.item.entry = Feed[Plan[n.task][n.src]][n.pos]
        /\ n.yielded <= n.pos
    BY <1>3 DEF PlaceOK, Source, Entry, InList, InUpsert
  <2>2. n.pc \notin {"city", "connect", "ok", "crawl"}
    BY DEF InUpsert
  <2>3. /\ Busy(w)' => worker'[w].task \in Tasks
        /\ worker'[w].src \in DOMAIN Plan[worker'[w].task]
        /\ worker'[w].pos \in Nat \ {0}
    BY <1>1, <2>1
  <2>4. /\ worker'[w].pos \in DOMAIN Feed[Source(w)']
        /\ worker'[w].item \in Items /\ worker'[w].item.entry = Entry(w)'
        /\ worker'[w].yielded <= worker'[w].pos
    BY <1>1, <2>1 DEF Source, Entry
  <2>5. /\ worker'[w].pc = "insert" => worker'[w].slug \in Slugs
        /\ worker'[w].pc \in {"update", "link"} => worker'[w].row \in Present'
        /\ worker'[w].pc \notin {"city", "connect", "ok", "crawl"}
    BY <1>1, <1>2, <2>2
  <2>6. QED
    BY <2>3, <2>4, <2>5 DEF PlaceOK
<1>5. ProgressOK(w)'
  BY <1>1, <1>2, SameItem DEF InList
<1>6. ASSUME w \notin overlapped PROVE AloneOK(w)'
  BY <1>1, <1>2, <1>3, <1>6 DEF AloneOK, Busy, InUpsert
<1>7. QED
  BY <1>3, <1>4, <1>5, <1>6, QuietStep

LEMMA GoStep ==
  ASSUME IngestionInv, NEW w \in Workers, worker[w].pc \in InUpsert,
         NEW pc \in {"source", "id", "host", "name", "slug"}, Go(w, pc), Reads,
         pc # "source" /\ w \notin overlapped => worker[w].item.entry \notin Present
  PROVE  IngestionInv'
<1> DEFINE n == [worker[w] EXCEPT !.pc = pc]
<1>1. worker[w] \in WorkerState
  BY DEF IngestionInv, TypeOK, WorkerState
<1>2. /\ n \in WorkerState /\ n.pc = pc
      /\ n.task = worker[w].task /\ n.src = worker[w].src /\ n.pos = worker[w].pos
      /\ n.item = worker[w].item /\ n.yielded = worker[w].yielded
      /\ n.dropped = worker[w].dropped
  BY <1>1 DEF WorkerState, PCs, InUpsert
<1>3. worker' = [worker EXCEPT ![w] = n]
  BY DEF Go
<1> HIDE DEF n
<1>4. QED
  BY <1>2, <1>3, MoveStep DEF InUpsert

LEMMA FindStep ==
  ASSUME IngestionInv, NEW w \in Workers, worker[w].pc \in InUpsert,
         NEW e \in Present, Find(w, e), Reads
  PROVE  IngestionInv'
<1> DEFINE n == [worker[w] EXCEPT !.pc = "update", !.row = e]
<1>1. worker[w] \in WorkerState /\ e \in Entries
  BY DEF IngestionInv, TypeOK, WorkerState, Present
<1>2. /\ n \in WorkerState /\ n.pc = "update" /\ n.row = e
      /\ n.task = worker[w].task /\ n.src = worker[w].src /\ n.pos = worker[w].pos
      /\ n.item = worker[w].item /\ n.yielded = worker[w].yielded
      /\ n.dropped = worker[w].dropped
  BY <1>1 DEF WorkerState, PCs, InUpsert
<1>3. worker' = [worker EXCEPT ![w] = n]
  BY DEF Find
<1> HIDE DEF n
<1>4. QED
  BY <1>2, <1>3, MoveStep DEF InUpsert

\* The steps that look for the row of an item and for a slug.
LEMMA FindByInv ==
  ASSUME IngestionInv, NEW w \in Workers,
         FindBySource(w) \/ FindByPublicId(w) \/ FindByDomain(w) \/ FindByName(w)
  PROVE  IngestionInv'
<1>1. worker[w].pc \in InUpsert /\ AloneOK(w) /\ Busy(w)
  BY DEF IngestionInv, Busy, InUpsert, FindBySource, FindByPublicId, FindByDomain,
         FindByName
<1>2. CASE FindBySource(w)
  <2>1. CASE Item_(w).entry \in Present
    BY <1>1, <1>2, <2>1, FindStep DEF FindBySource
  <2>2. CASE Item_(w).entry \notin Present
    BY <1>1, <1>2, <2>2, GoStep DEF FindBySource, Item_
  <2>3. QED
    BY <2>1, <2>2
<1>3. ASSUME NEW S \in SUBSET Present, NEW pc \in {"host", "name", "slug"},
             worker[w].pc \in {"id", "host", "name"}, OneOf(w, S, pc), Reads
      PROVE  IngestionInv'
  <2>1. CASE S = {}
    <3>1. w \notin overlapped => worker[w].item.entry \notin Present
      BY <1>1, <1>3 DEF AloneOK
    <3>2. QED
      BY <1>1, <1>3, <2>1, <3>1, GoStep DEF OneOf
  <2>2. CASE S # {}
    <3>1. PICK e \in S : Find(w, e)
      BY <1>3, <2>2 DEF OneOf
    <3>2. QED
      BY <1>1, <1>3, <3>1, FindStep
  <2>3. QED
    BY <2>1, <2>2
<1>4. CASE FindByPublicId(w)
  BY <1>3, <1>4 DEF FindByPublicId
<1>5. CASE FindByDomain(w)
  BY <1>3, <1>5 DEF FindByDomain
<1>6. CASE FindByName(w)
  BY <1>3, <1>6 DEF FindByName
<1>7. QED
  BY <1>2, <1>4, <1>5, <1>6

LEMMA MakeSlugInv ==
  ASSUME IngestionInv, NEW w \in Workers, MakeSlug(w)
  PROVE  IngestionInv'
<1>1. /\ worker[w].pc = "slug" /\ worker[w].pc \in InUpsert /\ AloneOK(w) /\ Busy(w)
      /\ worker[w] \in WorkerState /\ worker[w].item \in Items /\ Reads
  BY DEF IngestionInv, TypeOK, WorkerState, PlaceOK, Busy, InList, InUpsert, MakeSlug
<1>2. PICK k \in 1 .. MaxSlugs :
        /\ FreeSlug(SlugOf[Item_(w).name], k)
        /\ worker' = [worker EXCEPT ![w].pc = "insert",
                                    ![w].slug = <<SlugOf[Item_(w).name], k>>]
  BY DEF MakeSlug
<1> DEFINE s == <<SlugOf[Item_(w).name], k>>
<1> DEFINE n == [worker[w] EXCEPT !.pc = "insert", !.slug = s]
<1>3. s \in Slugs /\ ~SlugTaken(s)
  BY <1>1, <1>2 DEF Slugs, FreeSlug, Items, Item_
<1>4. worker' = [worker EXCEPT ![w] = n]
  BY <1>2
<1> HIDE DEF s
<1>5. /\ n \in WorkerState /\ n.pc = "insert" /\ n.slug = s
      /\ n.task = worker[w].task /\ n.src = worker[w].src /\ n.pos = worker[w].pos
      /\ n.item = worker[w].item /\ n.yielded = worker[w].yielded
      /\ n.dropped = worker[w].dropped
  BY <1>1, <1>3 DEF WorkerState, PCs, InUpsert
<1> HIDE DEF n
<1>6. w \notin overlapped => worker[w].item.entry \notin Present
  BY <1>1 DEF AloneOK
<1>7. QED
  BY <1>1, <1>3, <1>4, <1>5, <1>6, MoveStep DEF InUpsert

\* The exception leaves run_spider, with the tables and the history as they were.
LEMMA RaiseStep ==
  ASSUME IngestionInv, NEW w \in Workers, Busy(w), worker[w].pc # "idle",
         worker[w].pc \in InList \cup {"connect"},
         NEW pc \in {"conflict", "failed"}, Raise(w, pc),
         w \notin overlapped => pc # "conflict" \/ worker[w].task \in RunAll,
         UNCHANGED <<tables, broker, seeder, history>>, faults' \in 0 .. MaxFaults
  PROVE  IngestionInv'
<1> DEFINE again == [Idle EXCEPT !.pc = "connect", !.task = worker[w].task,
                                 !.src = worker[w].src + 1,
                                 !.dropped = worker[w].dropped]
<1> DEFINE ended == [worker[w] EXCEPT !.pc = pc]
<1>1. /\ worker[w] \in WorkerState /\ worker[w].task \in Tasks
      /\ worker[w].src \in Nat
  BY DEF IngestionInv, TypeOK, WorkerState, PlaceOK
<1>2. /\ again \in WorkerState /\ again.pc = "connect" /\ again.task = worker[w].task
      /\ again.src = worker[w].src + 1 /\ again.yielded = 0
  <2>1. worker[w].src + 1 \in Nat /\ worker[w].dropped \in SUBSET Entries
    BY <1>1 DEF WorkerState
  <2>2. QED
    BY <1>1, <2>1 DEF Idle, WorkerState, PCs
<1>3. /\ ended \in WorkerState /\ ended.pc = pc /\ ended.task = worker[w].task
      /\ ended.src = worker[w].src /\ ended.pos = worker[w].pos
      /\ ended.dropped = worker[w].dropped
  BY <1>1 DEF WorkerState, PCs
<1>4. worker' = [worker EXCEPT ![w] = IF worker[w].task \in RunAll THEN again ELSE ended]
  BY DEF Raise
<1>5. Present' = Present /\ Absorbed' = Absorbed
  BY DEF tables, history, Present, Absorbed
<1>6. KeysUnique' /\ AbsorbedStays'
  BY <1>5 DEF IngestionInv, KeysUnique, AbsorbedStays, SeedOwned, tables, history
<1> HIDE DEF again, ended
<1>7. PICK n \in {again, ended} :
        /\ worker' = [worker EXCEPT ![w] = n]
        /\ n = IF worker[w].task \in RunAll THEN again ELSE ended
  BY <1>4
<1>8. n \in WorkerState /\ worker'[w] = n
  BY <1>2, <1>3, <1>7, WorkerTyped DEF IngestionInv
<1>9. PlaceOK(w)'
  BY <1>1, <1>2, <1>3, <1>7, <1>8 DEF PlaceOK, Busy, InList, InUpsert
<1>10. ProgressOK(w)'
  <2>1. CASE worker[w].task \in RunAll
    BY <1>2, <1>7, <1>8, <2>1 DEF ProgressOK
  <2>2. CASE worker[w].task \notin RunAll
    BY <1>3, <1>7, <1>8, <2>2 DEF ProgressOK, InList, InUpsert
  <2>3. QED
    BY <2>1, <2>2
<1>11. ASSUME w \notin overlapped PROVE AloneOK(w)'
  <2>1. \A v \in Workers \ {w} : ~Busy(v)'
    BY <1>7, <1>8, <1>11, WorkerTyped DEF IngestionInv, AloneOK, Busy
  <2>2. seeder'.pc # "write"
    BY <1>11 DEF IngestionInv, AloneOK
  <2>3. n.pc = "connect" \/ n.pc = "failed"
    BY <1>2, <1>3, <1>7, <1>11
  <2>4. QED
    BY <1>8, <2>1, <2>2, <2>3 DEF AloneOK
<1>12. QED
  BY <1>5, <1>6, <1>7, <1>8, <1>9, <1>10, <1>11, WorkerStep
     DEF IngestionInv, TypeOK, tables, broker, history

\* A worker becomes free.
LEMMA FreeStep ==
  ASSUME IngestionInv, NEW w \in Workers, Busy(w), Free(w),
         UNCHANGED <<tables, seeder, absorbed>>,
         queue' \in SUBSET Tasks, tries' \in [Tasks -> 0 .. MaxRetries],
         faults' \in 0 .. MaxFaults
  PROVE  IngestionInv'
<1>1. Idle \in WorkerState /\ worker'[w] = Idle
  BY IdleTyped, WorkerTyped DEF IngestionInv, Free
<1>2. Present' = Present /\ Absorbed' = Absorbed
  BY DEF tables, Present, Absorbed
<1>3. KeysUnique' /\ AbsorbedStays'
  BY <1>2 DEF IngestionInv, KeysUnique, AbsorbedStays, SeedOwned, tables
<1>4. PlaceOK(w)' /\ ProgressOK(w)' /\ AloneOK(w)' /\ ~Busy(w)'
  BY <1>1, IdleTyped DEF PlaceOK, ProgressOK, AloneOK, Busy, InList, InUpsert
<1>5. QED
  BY <1>1, <1>2, <1>3, <1>4, WorkerStep DEF IngestionInv, TypeOK, Free, tables

-----------------------------------------------------------------------------
(* Executions.                                                             *)

LEMMA ConnectInv ==
  ASSUME IngestionInv, NEW w \in Workers, Connect(w)
  PROVE  IngestionInv'
<1> DEFINE start == [worker[w] EXCEPT !.pc = "crawl", !.pos = 1]
<1> DEFINE done == [worker[w] EXCEPT !.pc = "ok"]
<1>1. /\ worker[w] \in WorkerState /\ worker[w].pc = "connect" /\ Busy(w) /\ Reads
      /\ worker[w].task \in Tasks /\ worker[w].src \in Nat \ {0}
      /\ worker[w].yielded = 0 /\ AloneOK(w) /\ ProgressOK(w)
  BY DEF IngestionInv, TypeOK, WorkerState, PlaceOK, Busy, Connect
<1>2. /\ start \in WorkerState /\ start.pc = "crawl" /\ start.pos = 1
      /\ start.task = worker[w].task /\ start.src = worker[w].src
      /\ start.yielded = 0 /\ start.dropped = worker[w].dropped
  BY <1>1 DEF WorkerState, PCs
<1>3. /\ done \in WorkerState /\ done.pc = "ok" /\ done.task = worker[w].task
      /\ done.src = worker[w].src /\ done.dropped = worker[w].dropped
  BY <1>1 DEF WorkerState, PCs
<1>4. worker' = [worker EXCEPT ![w] = IF SourcesLeft(w) THEN start ELSE done]
  BY DEF Connect, Go
<1> HIDE DEF start, done
<1>5. PICK n \in {start, done} :
        /\ worker' = [worker EXCEPT ![w] = n]
        /\ n = IF SourcesLeft(w) THEN start ELSE done
  BY <1>4
<1>6. /\ n \in WorkerState /\ worker'[w] = n
      /\ \A v \in Workers \ {w} : worker'[v] = worker[v]
  BY <1>2, <1>3, <1>5, WorkerTyped DEF IngestionInv
<1>7. Absorbed' = Absorbed /\ overlapped' = overlapped /\ seeder' = seeder
  BY <1>1 DEF Reads, history, Absorbed
<1>8. PlaceOK(w)'
  <2>1. CASE SourcesLeft(w)
    <3>1. n.src \in DOMAIN Plan[n.task]
      <4>1. n.src \in 1 .. Len(Plan[n.task]) /\ Plan[n.task] \in Seq(Sources)
        BY <1>1, <1>2, <1>5, <2>1 DEF SourcesLeft
      <4>2. QED
        BY <4>1
    <3>2. QED
      BY <1>1, <1>2, <1>5, <1>6, <2>1, <3>1 DEF PlaceOK, Busy, InList, InUpsert
  <2>2. CASE ~SourcesLeft(w)
    BY <1>1, <1>3, <1>5, <1>6, <2>2 DEF PlaceOK, Busy, SourcesLeft, InList, InUpsert
  <2>3. QED
    BY <2>1, <2>2
<1>9. ProgressOK(w)'
  <2>1. /\ n.task = worker[w].task /\ n.src = worker[w].src
        /\ n.dropped = worker[w].dropped /\ n.pc \in {"crawl", "ok"}
        /\ n.pc = "crawl" => n.pos = 1
    BY <1>2, <1>3, <1>5
  <2>2. ASSUME NEW p, SourceDone(w, p) PROVE SourceDone(w, p)'
    BY <1>6, <1>7, <2>1, <2>2 DEF SourceDone, Covered
  <2>3. \A list : Covered(w, list, 0)'
    BY DEF Covered
  <2>4. QED
    BY <1>1, <1>6, <2>1, <2>2, <2>3 DEF ProgressOK, Busy, InList, InUpsert
<1>10. ASSUME w \notin overlapped PROVE AloneOK(w)'
  BY <1>1, <1>2, <1>3, <1>5, <1>6, <1>7, <1>10 DEF AloneOK, Busy
<1>11. QED
  BY <1>1, <1>5, <1>6, <1>8, <1>9, <1>10, QuietStep

LEMMA TakeInv ==
  ASSUME IngestionInv, NEW w \in Workers, NEW t \in Tasks, Take(w, t)
  PROVE  IngestionInv'
<1> DEFINE n == [Idle EXCEPT !.pc = "connect", !.task = t, !.src = 1]
<1>1. n \in WorkerState /\ n.pc = "connect" /\ n.task = t /\ n.src = 1 /\ n.yielded = 0
  BY IdleTyped DEF WorkerState, PCs
<1>2. worker' = [worker EXCEPT ![w] = n]
  BY DEF Take
<1> HIDE DEF n
<1>3. /\ worker' \in [Workers -> WorkerState] /\ worker'[w] = n
      /\ \A v \in Workers : v # w => worker'[v] = worker[v]
  BY <1>1, <1>2, WorkerTyped DEF IngestionInv
<1>4. Present' = Present /\ Absorbed' = Absorbed
  BY DEF Take, tables, Present, Absorbed
<1>5. TypeOK'
  BY <1>3 DEF IngestionInv, TypeOK, WorkerState, Take, tables
<1>6. KeysUnique' /\ AbsorbedStays'
  BY <1>4 DEF IngestionInv, KeysUnique, AbsorbedStays, SeedOwned, Take, tables
<1>7. ASSUME NEW v \in Workers PROVE PlaceOK(v)' /\ ProgressOK(v)'
  <2>1. CASE v = w
    BY <1>1, <1>3, <2>1 DEF PlaceOK, ProgressOK, Busy, InList, InUpsert
  <2>2. CASE v # w
    BY <1>3, <1>4, <2>2, PlaceStays DEF IngestionInv
  <2>3. QED
    BY <2>1, <2>2
<1>8. ASSUME NEW v \in Workers, v \notin overlapped', Busy(v)'
      PROVE  AloneOK(v)'
  <2>1. CASE v = w
    <3>1. (\A u \in Workers \ {w} : ~Busy(u)) /\ seeder.pc # "write"
      BY <1>8, <2>1 DEF Take
    <3>2. QED
      BY <1>1, <1>3, <2>1, <3>1 DEF AloneOK, Busy, Take
  <2>2. CASE v # w
    <3>1. Busy(v)
      BY <1>3, <1>8, <2>2 DEF Busy
    <3>2. v \in overlapped'
      BY <2>2, <3>1 DEF Take
    <3>3. QED
      BY <1>8, <3>2
  <2>3. QED
    BY <2>1, <2>2
<1>9. \A v \in Workers : AloneOK(v)'
  BY <1>8 DEF AloneOK
<1>10. QED
  BY <1>5, <1>6, <1>7, <1>9 DEF IngestionInv

LEMMA ConnectFailsInv ==
  ASSUME IngestionInv, NEW w \in Workers, ConnectFails(w)
  PROVE  IngestionInv'
<1>1. /\ worker[w].pc = "connect" /\ Busy(w) /\ worker[w].task \in Tasks
      /\ worker[w] \in WorkerState /\ AloneOK(w) /\ ProgressOK(w) /\ PlaceOK(w)
      /\ UNCHANGED <<tables, seeder, faults, absorbed>>
  BY DEF IngestionInv, TypeOK, WorkerState, PlaceOK, Busy, ConnectFails
<1>2. CASE Raise(w, "failed") /\ UNCHANGED <<queue, tries, overlapped>>
  BY <1>1, <1>2, RaiseStep DEF broker, history, IngestionInv, TypeOK
<1>3. CASE Retry(w) /\ tries[worker[w].task] < MaxRetries
  <2>1. /\ tries' = [tries EXCEPT ![worker[w].task] = @ + 1]
        /\ queue' = queue \cup {worker[w].task} /\ Free(w)
    BY <1>3 DEF Retry
  <2>2. tries[worker[w].task] + 1 \in 0 .. MaxRetries
    BY <1>1, <1>3 DEF IngestionInv, TypeOK
  <2>3. queue' \in SUBSET Tasks /\ tries' \in [Tasks -> 0 .. MaxRetries]
    BY <1>1, <2>1, <2>2 DEF IngestionInv, TypeOK
  <2>4. QED
    BY <1>1, <2>1, <2>3, FreeStep DEF IngestionInv, TypeOK
<1>4. CASE Retry(w) /\ ~(tries[worker[w].task] < MaxRetries)
  <2> DEFINE n == [worker[w] EXCEPT !.pc = "failed"]
  <2>1. worker' = [worker EXCEPT ![w] = n] /\ UNCHANGED <<tries, queue, overlapped>>
    BY <1>4 DEF Retry, Go
  <2>2. n \in WorkerState /\ n.pc = "failed" /\ n.task = worker[w].task
    BY <1>1 DEF WorkerState, PCs
  <2> HIDE DEF n
  <2>3. worker'[w] = n /\ \A v \in Workers \ {w} : worker'[v] = worker[v]
    BY <2>1, <2>2, WorkerTyped DEF IngestionInv
  <2>4. PlaceOK(w)' /\ ProgressOK(w)'
    BY <1>1, <2>2, <2>3 DEF PlaceOK, ProgressOK, Busy, InList, InUpsert
  <2>5. w \notin overlapped => AloneOK(w)'
    BY <1>1, <2>1, <2>2, <2>3 DEF AloneOK, Busy
  <2>6. Reads
    BY <1>1, <2>1 DEF Reads, broker, history
  <2>7. QED
    BY <1>1, <2>1, <2>2, <2>4, <2>5, <2>6, QuietStep
<1>5. QED
  BY <1>2, <1>3, <1>4 DEF ConnectFails

LEMMA EndInv ==
  ASSUME IngestionInv, NEW w \in Workers, RunFails(w) \/ Acknowledge(w) \/ Crash(w)
  PROVE  IngestionInv'
<1>1. worker[w] \in WorkerState /\ PlaceOK(w)
  BY DEF IngestionInv, TypeOK, WorkerState
<1>2. CASE RunFails(w)
  <2>1. worker[w].pc \in InList /\ Busy(w)
    BY <1>1, <1>2 DEF RunFails, WorkerState, PCs, InList, Busy
  <2>2. faults' \in 0 .. MaxFaults
    BY <1>2 DEF IngestionInv, TypeOK, RunFails
  <2>3. QED
    BY <1>2, <2>1, <2>2, RaiseStep DEF RunFails, Busy
<1>3. CASE Acknowledge(w)
  BY <1>3, FreeStep DEF Acknowledge, Busy, IngestionInv, TypeOK, broker
<1>4. CASE Crash(w)
  <2>1. worker[w].task \in Tasks
    BY <1>1, <1>4 DEF PlaceOK, Crash
  <2>2. faults' \in 0 .. MaxFaults /\ queue' \in SUBSET Tasks
    BY <1>4, <2>1 DEF IngestionInv, TypeOK, Crash
  <2>3. QED
    BY <1>4, <2>2, FreeStep DEF Crash, IngestionInv, TypeOK
<1>5. QED
  BY <1>2, <1>3, <1>4

\* Steps that touch neither workers nor tables.
LEMMA BrokerStep ==
  ASSUME IngestionInv, UNCHANGED <<tables, worker, absorbed, overlapped>>,
         seeder' = seeder, TypeOK'
  PROVE  IngestionInv'
<1>1. Present' = Present /\ Absorbed' = Absorbed
  BY DEF tables, Present, Absorbed
<1>2. KeysUnique' /\ AbsorbedStays'
  BY <1>1 DEF IngestionInv, KeysUnique, AbsorbedStays, SeedOwned, tables
<1>3. ASSUME NEW v \in Workers PROVE PlaceOK(v)' /\ ProgressOK(v)' /\ AloneOK(v)'
  <2>1. PlaceOK(v)' /\ ProgressOK(v)'
    BY <1>1, PlaceStays DEF IngestionInv
  <2>2. \A s : SlugTaken(s)' = SlugTaken(s)
    BY <1>1 DEF SlugTaken, tables
  <2>3. AloneOK(v)'
    BY <1>1, <2>2 DEF IngestionInv, AloneOK, Busy, tables
  <2>4. QED
    BY <2>1, <2>3
<1>4. QED
  BY <1>2, <1>3 DEF IngestionInv

LEMMA VisibilityTimeoutInv ==
  ASSUME IngestionInv, NEW w \in Workers, VisibilityTimeout(w)
  PROVE  IngestionInv'
<1>1. worker[w].task \in Tasks
  BY DEF IngestionInv, PlaceOK, VisibilityTimeout
<1>2. TypeOK'
  BY <1>1 DEF IngestionInv, TypeOK, VisibilityTimeout, tables, history
<1>3. QED
  BY <1>2, BrokerStep DEF VisibilityTimeout, tables, history

-----------------------------------------------------------------------------
(* One item.                                                               *)

\* A worker that was alone is still so, away from the steps that rely on it.
LEMMA StillAlone ==
  ASSUME IngestionInv, NEW w \in Workers, Busy(w), w \notin overlapped,
         NEW n \in WorkerState, worker' = [worker EXCEPT ![w] = n], seeder' = seeder,
         n.pc \notin {"id", "host", "name", "slug", "insert", "conflict"},
         n.pc = "city" => n.item.city \notin cities'
  PROVE  AloneOK(w)'
<1>1. worker'[w] = n /\ \A v \in Workers \ {w} : worker'[v] = worker[v]
  BY WorkerTyped DEF IngestionInv
<1>2. (\A v \in Workers \ {w} : ~Busy(v)) /\ seeder.pc # "write"
  BY DEF IngestionInv, AloneOK
<1>3. QED
  BY <1>1, <1>2 DEF AloneOK, Busy

LEMMA CrawlInv ==
  ASSUME IngestionInv, NEW w \in Workers, Crawl(w)
  PROVE  IngestionInv'
<1>1. /\ worker[w].pc = "crawl" /\ Busy(w) /\ Reads /\ worker[w] \in WorkerState
      /\ PlaceOK(w) /\ ProgressOK(w) /\ AloneOK(w)
      /\ worker[w].task \in Tasks /\ worker[w].src \in DOMAIN Plan[worker[w].task]
      /\ worker[w].pos \in Nat \ {0} /\ worker[w].yielded < worker[w].pos
      /\ worker[w].yielded \in Nat
  BY DEF IngestionInv, TypeOK, WorkerState, PlaceOK, Busy, InList, Crawl
<1>2. Absorbed' = Absorbed /\ overlapped' = overlapped /\ UNCHANGED <<tables, seeder>>
  BY <1>1 DEF Reads, history, Absorbed
<1>3. /\ Source(w) \in Sources /\ Feed[Source(w)] \in Seq(Entries)
      /\ worker[w].src \in Nat \ {0}
  <2>1. Plan[worker[w].task] \in Seq(Sources)
    BY <1>1
  <2>2. Source(w) \in Sources
    BY <1>1, <2>1 DEF Source
  <2>3. worker[w].src \in Nat \ {0}
    BY <1>1, <2>1
  <2>4. QED
    BY <2>2, <2>3
<1>4. CASE Exhausted(w)
  <2> DEFINE n == [worker[w] EXCEPT !.pc = "connect", !.src = @ + 1, !.pos = 0,
                                    !.yielded = 0]
  <2>1. worker' = [worker EXCEPT ![w] = n]
    BY <1>4 DEF Crawl
  <2>2. /\ n \in WorkerState /\ n.pc = "connect" /\ n.task = worker[w].task
        /\ n.src = worker[w].src + 1 /\ n.yielded = 0 /\ n.dropped = worker[w].dropped
    <3>1. worker[w].src + 1 \in Nat
      BY <1>3
    <3>2. worker[w] \in WorkerState
      BY <1>1
    <3>3. QED
      BY <3>1, <3>2 DEF WorkerState, PCs
  <2> HIDE DEF n
  <2>3. worker'[w] = n /\ \A v \in Workers \ {w} : worker'[v] = worker[v]
    BY <2>1, <2>2, WorkerTyped DEF IngestionInv
  <2>4. PlaceOK(w)'
    <3>1. worker[w].task \in Tasks
      BY <1>1
    <3>2. worker[w].src + 1 \in Nat \ {0}
      BY <1>3
    <3>3. QED
      BY <2>2, <2>3, <3>1, <3>2 DEF PlaceOK, Busy, InList, InUpsert
  <2>5. ProgressOK(w)'
    <3>1. ASSUME NEW p, SourceDone(w, p) PROVE SourceDone(w, p)'
      BY <1>2, <2>2, <2>3, <3>1 DEF SourceDone, Covered
    <3>2. ASSUME worker[w].task \notin RunAll PROVE SourceDone(w, worker[w].src)
      <4>1. Covered(w, Feed[Source(w)], worker[w].pos - 1)
        BY <1>1, <3>2 DEF ProgressOK, InList
      <4>2. ASSUME Len(Feed[Source(w)]) <= Limit[worker[w].task]
            PROVE  Len(Feed[Source(w)]) <= worker[w].pos - 1
        <5>1. Len(Feed[Source(w)]) \in Nat /\ Limit[worker[w].task] \in Nat
          BY <1>1, <1>3
        <5>2. worker[w].pos > Len(Feed[Source(w)])
              \/ worker[w].yielded >= Limit[worker[w].task]
          BY <1>4 DEF Exhausted
        <5>3. worker[w].pos \in Nat \ {0} /\ worker[w].yielded \in Nat
              /\ worker[w].yielded < worker[w].pos
          BY <1>1
        <5>4. QED
          BY <4>2, <5>1, <5>2, <5>3
      <4>3. Len(Feed[Source(w)]) \in Nat /\ worker[w].pos - 1 \in Nat
        BY <1>1, <1>3
      <4>4. ASSUME Len(Feed[Source(w)]) <= Limit[worker[w].task]
            PROVE  Covered(w, Feed[Source(w)], Len(Feed[Source(w)]))
        <5>1. 1 .. Len(Feed[Source(w)]) \subseteq 1 .. (worker[w].pos - 1)
          BY <4>2, <4>3, <4>4
        <5>2. QED
          BY <4>1, <5>1 DEF Covered
      <4>5. QED
        BY <4>4 DEF SourceDone, Source
    <3>3. ASSUME worker[w].task \notin RunAll, NEW p \in DOMAIN Plan[worker[w].task],
                 p < worker[w].src + 1
          PROVE  SourceDone(w, p)'
      <4>1. p < worker[w].src \/ p = worker[w].src
        <5>1. Plan[worker[w].task] \in Seq(Sources)
          BY <1>1
        <5>2. p \in Nat
          BY <5>1, <3>3
        <5>3. QED
          BY <1>3, <3>3, <5>2
      <4>2. SourceDone(w, p)
        BY <1>1, <3>2, <3>3, <4>1 DEF ProgressOK, InList
      <4>3. QED
        BY <3>1, <4>2
    <3>4. QED
      BY <2>2, <2>3, <3>3 DEF ProgressOK, InList, InUpsert
  <2>6. w \notin overlapped => AloneOK(w)'
    BY <1>1, <1>2, <2>1, <2>2, StillAlone
  <2>7. QED
    BY <1>1, <2>1, <2>2, <2>4, <2>5, <2>6, QuietStep
<1>5. CASE ~Exhausted(w)
  <2>1. /\ worker[w].pos \in DOMAIN Feed[Source(w)] /\ Entry(w) \in Entries
    BY <1>1, <1>3, <1>5 DEF Exhausted, Entry
  <2> DEFINE past == Drop(worker[w], Entry(w))
  <2>2. PICK item \in Yields(Entry(w)) :
          worker' = [worker EXCEPT ![w] = IF item = None THEN past
                                          ELSE Hold(worker[w], item)]
    BY <1>5 DEF Crawl
  <2>3. CASE item = None
    <3>1. worker' = [worker EXCEPT ![w] = past]
      BY <2>2, <2>3
    <3>2. /\ past \in WorkerState /\ past.pc = "crawl" /\ past.task = worker[w].task
          /\ past.src = worker[w].src /\ past.pos = worker[w].pos + 1
          /\ past.yielded = worker[w].yielded
          /\ past.dropped = worker[w].dropped \cup {Entry(w)}
      <4>1. /\ worker[w].pos + 1 \in Nat
            /\ worker[w].dropped \cup {Entry(w)} \in SUBSET Entries
        BY <1>1, <2>1 DEF WorkerState
      <4>2. worker[w] \in WorkerState /\ worker[w].pc = "crawl"
        BY <1>1
      <4>3. QED
        BY <4>1, <4>2 DEF Drop, WorkerState, PCs
    <3> HIDE DEF past
    <3>3. worker'[w] = past /\ \A v \in Workers \ {w} : worker'[v] = worker[v]
      BY <3>1, <3>2, WorkerTyped DEF IngestionInv
    <3>4. PlaceOK(w)'
      <4>1. /\ past.task \in Tasks /\ past.src \in DOMAIN Plan[past.task]
            /\ past.pos \in Nat \ {0} /\ past.yielded < past.pos
        <5>1. /\ past.task = worker[w].task /\ past.src = worker[w].src
              /\ past.pos = worker[w].pos + 1 /\ past.yielded = worker[w].yielded
          BY <3>2
        <5>2. /\ worker[w].task \in Tasks
              /\ worker[w].src \in DOMAIN Plan[worker[w].task]
              /\ worker[w].pos \in Nat \ {0} /\ worker[w].yielded \in Nat
              /\ worker[w].yielded < worker[w].pos
          BY <1>1
        <5> HIDE DEF past
        <5> DEFINE pos == worker[w].pos
                   yielded == worker[w].yielded
        <5>3. pos + 1 \in Nat \ {0} /\ yielded < pos + 1
          <6>1. pos \in Nat \ {0} /\ yielded \in Nat /\ yielded < pos
            BY <5>2
          <6> HIDE DEF pos, yielded
          <6> QED BY <6>1, SMTT(30)
        <5> QED BY <5>1, <5>2, <5>3, SMTT(30)
      <4>2. QED
        BY <3>2, <3>3, <4>1 DEF PlaceOK, Busy, InList, InUpsert
    <3>5. ProgressOK(w)'
      <4>1. ASSUME NEW list, NEW k, Covered(w, list, k) PROVE Covered(w, list, k)'
        BY <1>2, <3>2, <3>3, <4>1 DEF Covered
      <4>2. ASSUME NEW p, SourceDone(w, p) PROVE SourceDone(w, p)'
        BY <3>2, <3>3, <4>1, <4>2 DEF SourceDone
      <4>3. ASSUME worker[w].task \notin RunAll
            PROVE  Covered(w, Feed[Source(w)], worker[w].pos - 1)'
        <5>2. Feed[Source(w)][worker[w].pos] \in worker'[w].dropped
          BY <3>2, <3>3 DEF Entry
        <5>3. Source(w)' = Source(w) /\ worker'[w].pos = worker[w].pos + 1
          BY <3>2, <3>3 DEF Source
        <5>4. Covered(w, Feed[Source(w)], worker[w].pos - 1)
          BY <1>1, <4>3 DEF ProgressOK, InList
        <5>5. ASSUME NEW k \in 1 .. worker[w].pos, k \in DOMAIN Feed[Source(w)]
              PROVE  Feed[Source(w)][k] \in Absorbed' \cup worker'[w].dropped
          <6>1. k \in 1 .. (worker[w].pos - 1) \/ k = worker[w].pos
            BY <1>1
          <6>2. QED
            BY <1>2, <3>2, <3>3, <5>2, <5>4, <5>5, <6>1 DEF Covered
        <5>6. worker'[w].pos - 1 = worker[w].pos
          BY <1>1, <5>3
        <5>7. QED
          BY <5>3, <5>5, <5>6 DEF Covered
      <4>4. ASSUME worker[w].task \notin RunAll, NEW p \in DOMAIN Plan[worker[w].task],
                   p < worker[w].src
            PROVE  SourceDone(w, p)'
        BY <1>1, <4>2, <4>4 DEF ProgressOK, InList
      <4>5. QED
        BY <3>2, <3>3, <4>3, <4>4 DEF ProgressOK
    <3>6. w \notin overlapped => AloneOK(w)'
      BY <1>1, <1>2, <3>1, <3>2, StillAlone
    <3>7. QED
      BY <1>1, <3>1, <3>2, <3>4, <3>5, <3>6, QuietStep
  <2>4. CASE item # None
    <3>1. item \in Items /\ item.entry = Entry(w)
      BY <2>1, <2>4, YieldsItems
    <3> DEFINE n == Hold(worker[w], item)
    <3>2. worker' = [worker EXCEPT ![w] = n]
      BY <2>2, <2>4
    <3>3. /\ n \in WorkerState /\ n.pc \in {"source", "city"} /\ n.task = worker[w].task
          /\ n.src = worker[w].src /\ n.pos = worker[w].pos
          /\ n.yielded = worker[w].yielded + 1 /\ n.item = item
          /\ n.dropped = worker[w].dropped
          /\ n.pc = "city" => item.city \notin cities \cup {None}
      <4>1. worker[w].yielded + 1 \in Nat /\ worker[w] \in WorkerState
        BY <1>1
      <4>2. QED
        BY ZenonT(30), <3>1, <4>1 DEF Hold, WorkerState, PCs, InUpsert
    <3> HIDE DEF n
    <3>4. worker'[w] = n /\ \A v \in Workers \ {w} : worker'[v] = worker[v]
      BY <3>2, <3>3, WorkerTyped DEF IngestionInv
    <3>5. PlaceOK(w)'
      <4>1. Source(w)' = Source(w) /\ Entry(w)' = Entry(w)
        BY <3>3, <3>4 DEF Source, Entry
      <4>2. worker'[w].yielded <= worker'[w].pos
        BY <1>1, <3>3, <3>4
      <4>3. QED
        BY <1>1, <2>1, <3>1, <3>3, <3>4, <4>1, <4>2 DEF PlaceOK, Busy, InList, InUpsert
    <3>6. ProgressOK(w)'
      <4>1. worker[w].pc \in InList /\ worker'[w].pc \in InList \cup {"conflict", "failed"}
        BY <1>1, <3>3, <3>4 DEF InList, InUpsert
      <4>2. QED
        BY <1>2, <3>3, <3>4, <4>1, SameItem
    <3>7. w \notin overlapped => AloneOK(w)'
      BY <1>1, <1>2, <3>2, <3>3, StillAlone DEF tables
    <3>8. QED
      BY <1>1, <3>2, <3>3, <3>5, <3>6, <3>7, QuietStep
  <2>5. QED
    BY <2>3, <2>4
<1>6. QED
  BY <1>4, <1>5

LEMMA InsertCityInv ==
  ASSUME IngestionInv, NEW w \in Workers, InsertCity(w)
  PROVE  IngestionInv'
<1>1. /\ worker[w].pc = "city" /\ worker[w].pc \in InUpsert /\ Busy(w)
      /\ worker[w] \in WorkerState /\ AloneOK(w)
      /\ worker[w].item \in Items /\ worker[w].item.city \in Texts
      /\ UNCHANGED <<providers, broker, seeder, faults, history>>
  BY DEF IngestionInv, TypeOK, WorkerState, PlaceOK, Busy, InUpsert, InsertCity, Items
<1>2. CASE Item_(w).city \in cities
  <2>1. Raise(w, "conflict") /\ UNCHANGED cities
    BY <1>2 DEF InsertCity
  <2>2. w \in overlapped
    BY <1>1, <1>2 DEF AloneOK, Item_
  <2>3. QED
    BY <1>1, <2>1, <2>2, RaiseStep DEF tables, InList, IngestionInv, TypeOK
<1>3. CASE Item_(w).city \notin cities
  <2> DEFINE n == [worker[w] EXCEPT !.pc = "source"]
  <2>1. worker' = [worker EXCEPT ![w] = n] /\ cities' = cities \cup {Item_(w).city}
    BY <1>3 DEF InsertCity, Go
  <2>2. /\ n \in WorkerState /\ n.pc = "source" /\ n.task = worker[w].task
        /\ n.src = worker[w].src /\ n.pos = worker[w].pos /\ n.item = worker[w].item
        /\ n.yielded = worker[w].yielded /\ n.dropped = worker[w].dropped
    BY <1>1 DEF WorkerState, PCs, InUpsert
  <2> HIDE DEF n
  <2>3. worker'[w] = n /\ cities' \in SUBSET Texts
    BY <1>1, <2>1, <2>2, WorkerTyped DEF IngestionInv, TypeOK, Item_
  <2>4. Present' = Present /\ Absorbed' = Absorbed
    BY <1>1 DEF history, Present, Absorbed
  <2>5. KeysUnique' /\ AbsorbedStays'
    BY <1>1, <2>4 DEF IngestionInv, KeysUnique, AbsorbedStays, SeedOwned, history
  <2>6. PlaceOK(w)'
    <3>1. /\ n.task \in Tasks /\ n.src \in DOMAIN Plan[n.task] /\ n.pos \in Nat \ {0}
          /\ n.pos \in DOMAIN Feed[Plan[n.task][n.src]]
          /\ n.item \in Items /\ n.item.entry = Feed[Plan[n.task][n.src]][n.pos]
          /\ n.yielded <= n.pos
      BY <1>1, <2>2 DEF IngestionInv, PlaceOK, Source, Entry, InList, InUpsert
    <3>2. QED
      BY <2>2, <2>3, <3>1 DEF PlaceOK, Source, Entry, Busy
  <2>7. ProgressOK(w)'
    BY <1>1, <2>2, <2>3, <2>4, SameItem DEF InList, InUpsert
  <2>8. w \notin overlapped => AloneOK(w)'
    BY <1>1, <2>1, <2>2, StillAlone
  <2>9. QED
    BY <1>1, <2>1, <2>2, <2>3, <2>4, <2>5, <2>6, <2>7, <2>8, WorkerStep
       DEF IngestionInv, TypeOK, broker, history
<1>4. QED
  BY <1>2, <1>3

LEMMA InsertInv ==
  ASSUME IngestionInv, NEW w \in Workers, Insert(w)
  PROVE  IngestionInv'
<1>1. /\ worker[w].pc = "insert" /\ worker[w].pc \in InUpsert /\ Busy(w)
      /\ worker[w] \in WorkerState /\ AloneOK(w)
      /\ worker[w].item \in Items /\ worker[w].slug \in Slugs
      /\ UNCHANGED <<cities, broker, seeder, faults, history>>
  BY DEF IngestionInv, TypeOK, WorkerState, PlaceOK, Busy, InUpsert, Insert
<1> DEFINE e == Item_(w).entry
<1>2. e \in Entries
  BY <1>1 DEF Items, Item_
<1>3. CASE e \in Present \/ SlugTaken(worker[w].slug)
  <2>1. Raise(w, "conflict") /\ UNCHANGED providers
    BY <1>3 DEF Insert
  <2>2. w \in overlapped
    BY <1>1, <1>3 DEF AloneOK, Item_
  <2>3. QED
    BY <1>1, <2>1, <2>2, RaiseStep DEF tables, InList, IngestionInv, TypeOK
<1>4. CASE e \notin Present /\ ~SlugTaken(worker[w].slug)
  <2> DEFINE n == [worker[w] EXCEPT !.pc = "link", !.row = e]
  <2> DEFINE row == NewRow(Item_(w), worker[w].slug)
  <2>1. /\ worker' = [worker EXCEPT ![w] = n]
        /\ providers' = [providers EXCEPT ![e] = row]
    <3>1. worker' = [worker EXCEPT ![w] = n]
      BY <1>4 DEF Insert
    <3>2. providers' = [providers EXCEPT ![e] = row]
      BY <1>4 DEF Insert
    <3>3. QED
      BY <3>1, <3>2
  <2>2. row \in Rows /\ row.slug = worker[w].slug
    BY <1>1 DEF NewRow, Rows, Items, Item_
  <2> HIDE DEF e, row
  <2>3. /\ n \in WorkerState /\ n.pc = "link" /\ n.task = worker[w].task
        /\ n.src = worker[w].src /\ n.pos = worker[w].pos /\ n.item = worker[w].item
        /\ n.yielded = worker[w].yielded /\ n.dropped = worker[w].dropped /\ n.row = e
    BY <1>1, <1>2 DEF WorkerState, PCs, InUpsert
  <2> HIDE DEF n
  <2>4. worker'[w] = n
    BY <2>1, <2>3, WorkerTyped DEF IngestionInv
  <2>5. providers \in [Entries -> Rows \cup {None}]
    BY DEF IngestionInv, TypeOK
  <2>6. /\ providers' \in [Entries -> Rows \cup {None}]
        /\ providers'[e] = row /\ \A d \in Entries \ {e} : providers'[d] = providers[d]
        /\ Present' = Present \cup {e}
    BY <1>2, <2>1, <2>2, <2>5 DEF Present
  <2>7. Absorbed' = Absorbed /\ absorbed' = absorbed
    BY <1>1 DEF history, Absorbed
  <2>8. KeysUnique'
    <3>1. \A d \in Present : providers'[d] = providers[d] /\ providers[d].slug # row.slug
      BY <1>4, <2>2, <2>6 DEF SlugTaken, Present
    <3>2. ASSUME NEW c \in Present', NEW d \in Present',
                 providers'[c].slug = providers'[d].slug
          PROVE  c = d
      <4>1. CASE c \in Present /\ d \in Present
        BY <3>1, <3>2, <4>1 DEF IngestionInv, KeysUnique
      <4>2. CASE ~(c \in Present /\ d \in Present)
        BY <2>6, <3>1, <3>2, <4>2
      <4>3. QED
        BY <4>1, <4>2
    <3>3. QED
      BY <3>2 DEF KeysUnique
  <2>9. AbsorbedStays'
    <3>1. \A d \in Present : providers'[d] = providers[d]
      BY <1>4, <2>6 DEF Present
    <3>2. QED
      BY <2>6, <2>7, <3>1 DEF IngestionInv, AbsorbedStays, SeedOwned
  <2>10. PlaceOK(w)'
    <3>1. /\ n.task \in Tasks /\ n.src \in DOMAIN Plan[n.task] /\ n.pos \in Nat \ {0}
          /\ n.pos \in DOMAIN Feed[Plan[n.task][n.src]]
          /\ n.item \in Items /\ n.item.entry = Feed[Plan[n.task][n.src]][n.pos]
          /\ n.yielded <= n.pos /\ n.row \in Present'
      BY <1>1, <2>3, <2>6 DEF IngestionInv, PlaceOK, Source, Entry, InList, InUpsert
    <3>2. QED
      BY <2>3, <2>4, <3>1 DEF PlaceOK, Source, Entry, Busy
  <2>11. ProgressOK(w)'
    BY <1>1, <2>3, <2>4, <2>7, SameItem DEF InList, InUpsert
  <2>12. w \notin overlapped => AloneOK(w)'
    BY <1>1, <2>1, <2>3, StillAlone
  <2>13. /\ cities' \in SUBSET Texts /\ queue' \in SUBSET Tasks
         /\ tries' \in [Tasks -> 0 .. MaxRetries] /\ faults' \in 0 .. MaxFaults
         /\ absorbed' \in [Entries -> Entries \cup {None}] /\ seeder' = seeder
         /\ overlapped' = overlapped /\ overlapped' \in SUBSET Workers
    BY <1>1 DEF IngestionInv, TypeOK, broker, history
  <2>14. Present \subseteq Present' /\ Absorbed \subseteq Absorbed'
    BY <2>6, <2>7
  <2>15. providers' \in [Entries -> Rows \cup {None}]
    BY <2>6
  <2>16. QED
    BY <1>1, <2>1, <2>3, <2>8, <2>9, <2>10, <2>11, <2>12, <2>13, <2>14, <2>15, WorkerStep
<1>5. QED
  BY <1>3, <1>4

\* A step that changes one row, and neither its slug nor, by less, its categories.
LEMMA RowChanges ==
  ASSUME IngestionInv, NEW r \in Present, NEW row \in Rows,
         row.slug = providers[r].slug, providers[r].linked \subseteq row.linked,
         providers' = [providers EXCEPT ![r] = row]
  PROVE  /\ providers' \in [Entries -> Rows \cup {None}]
         /\ Present' = Present
         /\ KeysUnique'
         /\ \A d \in Present : /\ providers'[d].slug = providers[d].slug
                               /\ providers[d].linked \subseteq providers'[d].linked
<1>1. providers \in [Entries -> Rows \cup {None}] /\ r \in Entries
  BY DEF IngestionInv, TypeOK, Present
<1>2. /\ providers' \in [Entries -> Rows \cup {None}]
      /\ providers'[r] = row /\ \A d \in Entries \ {r} : providers'[d] = providers[d]
  BY <1>1
<1>3. Present' = Present
  BY <1>2 DEF Present
<1>4. \A d \in Present : /\ providers'[d].slug = providers[d].slug
                         /\ providers[d].linked \subseteq providers'[d].linked
  BY <1>2 DEF Present
<1>5. KeysUnique'
  BY <1>3, <1>4 DEF IngestionInv, KeysUnique
<1>6. QED
  BY <1>2, <1>3, <1>4, <1>5

LEMMA UpdatedRow ==
  ASSUME NEW old \in Rows, NEW item \in Items
  PROVE  LET row == Updated(old, item)
         IN  /\ row \in Rows /\ row.slug = old.slug /\ row.linked = old.linked
             /\ old.host # None => row.host # None
             /\ old.mail # None => row.mail # None
             /\ old.tax # None => row.tax # None
             /\ old.city # None => row.city # None
<1>1. /\ item.name \in Texts
      /\ Or(item.host, old.host) \in Texts \cup {None}
      /\ Or(item.mail, old.mail) \in Texts \cup {None}
      /\ Or(item.tax, old.tax) \in Texts \cup {None}
      /\ Or(item.city, old.city) \in Texts \cup {None}
  BY DEF Items, Rows, Or
<1>2. QED
  BY ZenonT(30), <1>1 DEF Updated, Rows, Or

LEMMA UpdateInv ==
  ASSUME IngestionInv, NEW w \in Workers, Update(w)
  PROVE  IngestionInv'
<1>1. /\ worker[w].pc = "update" /\ worker[w].pc \in InUpsert /\ Busy(w)
      /\ worker[w] \in WorkerState
      /\ worker[w].item \in Items /\ worker[w].row \in Present
      /\ UNCHANGED <<cities, broker, seeder, faults, history>>
  BY DEF IngestionInv, TypeOK, WorkerState, PlaceOK, Busy, InUpsert, Update
<1> DEFINE r == worker[w].row
<1> DEFINE row == Updated(providers[r], Item_(w))
<1> DEFINE n == [worker[w] EXCEPT !.pc = "link"]
<1>2. worker' = [worker EXCEPT ![w] = n] /\ providers' = [providers EXCEPT ![r] = row]
  BY DEF Update, Go
<1>3. /\ row \in Rows /\ row.slug = providers[r].slug
      /\ row.linked = providers[r].linked
  <2>1. providers[r] \in Rows /\ Item_(w) \in Items
    BY <1>1 DEF IngestionInv, TypeOK, Present, Item_
  <2>2. QED
    BY <2>1, UpdatedRow
<1>4. /\ n \in WorkerState /\ n.pc = "link" /\ n.task = worker[w].task
      /\ n.src = worker[w].src /\ n.pos = worker[w].pos /\ n.item = worker[w].item
      /\ n.yielded = worker[w].yielded /\ n.dropped = worker[w].dropped /\ n.row = r
  BY <1>1 DEF WorkerState, PCs, InUpsert
<1> HIDE DEF n, row
<1>5. worker'[w] = n
  BY <1>2, <1>4, WorkerTyped DEF IngestionInv
<1>6. /\ providers' \in [Entries -> Rows \cup {None}] /\ Present' = Present /\ KeysUnique'
      /\ \A d \in Present : /\ providers'[d].slug = providers[d].slug
                            /\ providers[d].linked \subseteq providers'[d].linked
  BY <1>1, <1>2, <1>3, RowChanges
<1>7. Absorbed' = Absorbed /\ absorbed' = absorbed
  BY <1>1 DEF history, Absorbed
<1>8. AbsorbedStays'
  BY ZenonT(30), <1>6, <1>7 DEF IngestionInv, AbsorbedStays, SeedOwned
<1>9. PlaceOK(w)'
  <2>1. /\ n.task \in Tasks /\ n.src \in DOMAIN Plan[n.task] /\ n.pos \in Nat \ {0}
        /\ n.pos \in DOMAIN Feed[Plan[n.task][n.src]]
        /\ n.item \in Items /\ n.item.entry = Feed[Plan[n.task][n.src]][n.pos]
        /\ n.yielded <= n.pos /\ n.row \in Present'
    BY <1>1, <1>4, <1>6 DEF IngestionInv, PlaceOK, Source, Entry, InList, InUpsert
  <2>2. QED
    BY <1>4, <1>5, <2>1 DEF PlaceOK, Source, Entry, Busy
<1>10. ProgressOK(w)'
  BY <1>1, <1>4, <1>5, <1>7, SameItem DEF InList, InUpsert
<1>11. w \notin overlapped => AloneOK(w)'
  BY <1>1, <1>2, <1>4, StillAlone
<1>12. /\ cities' \in SUBSET Texts /\ queue' \in SUBSET Tasks
       /\ tries' \in [Tasks -> 0 .. MaxRetries] /\ faults' \in 0 .. MaxFaults
       /\ absorbed' \in [Entries -> Entries \cup {None}] /\ seeder' = seeder
       /\ overlapped' = overlapped /\ overlapped' \in SUBSET Workers
  BY <1>1 DEF IngestionInv, TypeOK, broker, history
<1>13. Present \subseteq Present' /\ Absorbed \subseteq Absorbed'
  BY <1>6, <1>7
<1>14. providers' \in [Entries -> Rows \cup {None}] /\ KeysUnique'
  BY <1>6
<1>15. QED
  BY <1>1, <1>2, <1>4, <1>8, <1>9, <1>10, <1>11, <1>12, <1>13, <1>14, WorkerStep

LEMMA LinkInv ==
  ASSUME IngestionInv, NEW w \in Workers, Link(w)
  PROVE  IngestionInv'
<1>1. /\ worker[w].pc = "link" /\ worker[w].pc \in InUpsert /\ Busy(w)
      /\ worker[w] \in WorkerState
      /\ worker[w].item \in Items /\ worker[w].item.entry = Entry(w)
      /\ worker[w].item.entry \in Entries
      /\ worker[w].row \in Present /\ worker[w].row \in Entries
      /\ worker[w].task \in Tasks /\ worker[w].src \in DOMAIN Plan[worker[w].task]
      /\ worker[w].pos \in Nat \ {0} /\ worker[w].yielded \in Nat
      /\ worker[w].yielded <= worker[w].pos
      /\ UNCHANGED <<cities, broker, seeder, faults, overlapped>>
  BY DEF IngestionInv, TypeOK, WorkerState, PlaceOK, Busy, InList, InUpsert, Link, Items,
         Present
<1> DEFINE r == worker[w].row
<1> DEFINE e == worker[w].item.entry
<1> DEFINE row == WithCategories(providers[r], worker[w].item)
<1> DEFINE n == [worker[w] EXCEPT !.pc = "crawl", !.pos = @ + 1, !.item = None,
                                  !.row = None, !.slug = None]
<1>2. /\ worker' = [worker EXCEPT ![w] = n] /\ providers' = [providers EXCEPT ![r] = row]
      /\ absorbed' = [absorbed EXCEPT ![e] = r]
  <2>1. worker' = [worker EXCEPT ![w] = n]
    BY DEF Link
  <2>2. providers' = [providers EXCEPT ![r] = row]
    BY DEF Link, Item_
  <2>3. absorbed' = [absorbed EXCEPT ![e] = r]
    BY DEF Link, Item_
  <2>4. QED
    BY <2>1, <2>2, <2>3
<1>3. /\ row \in Rows /\ row.slug = providers[r].slug
      /\ row.linked = providers[r].linked \cup {e}
  <2>1. providers[r] \in Rows
    BY <1>1 DEF IngestionInv, TypeOK, Present
  <2>2. QED
    BY <1>1, <2>1 DEF WithCategories, Rows
<1>4. /\ n \in WorkerState /\ n.pc = "crawl" /\ n.task = worker[w].task
      /\ n.src = worker[w].src /\ n.pos = worker[w].pos + 1
      /\ n.yielded = worker[w].yielded /\ n.dropped = worker[w].dropped
  <2>1. worker[w].pos + 1 \in Nat /\ worker[w] \in WorkerState
    BY <1>1
  <2>2. QED
    BY <2>1 DEF WorkerState, PCs
<1> HIDE DEF n, row
<1>5. worker'[w] = n
  BY <1>2, <1>4, WorkerTyped DEF IngestionInv
<1>6. /\ providers' \in [Entries -> Rows \cup {None}] /\ Present' = Present /\ KeysUnique'
      /\ \A d \in Present : /\ providers'[d].slug = providers[d].slug
                            /\ providers[d].linked \subseteq providers'[d].linked
  BY <1>1, <1>2, <1>3, RowChanges
<1>7. /\ absorbed \in [Entries -> Entries \cup {None}]
      /\ absorbed' \in [Entries -> Entries \cup {None}]
      /\ absorbed'[e] = r /\ \A d \in Entries \ {e} : absorbed'[d] = absorbed[d]
      /\ Absorbed' = Absorbed \cup {e}
  <2>1. absorbed \in [Entries -> Entries \cup {None}]
    BY DEF IngestionInv, TypeOK
  <2>2. r # None
    BY <1>1
  <2>3. QED
    BY <1>1, <1>2, <2>1, <2>2 DEF Absorbed
<1>8. AbsorbedStays'
  <2>1. providers'[r] = row
    BY <1>1, <1>2 DEF IngestionInv, TypeOK
  <2>2. e \in providers'[r].linked
    BY <1>3, <2>1
  <2>3. ASSUME NEW d \in Absorbed', d # e
        PROVE  /\ absorbed'[d] \in Present'
               /\ d \in providers'[absorbed'[d]].linked \/ SeedOwned(providers'[absorbed'[d]])
    <3>1. d \in Absorbed /\ absorbed'[d] = absorbed[d]
      BY <1>7, <2>3 DEF Absorbed
    <3>2. QED
      BY <1>6, <3>1 DEF IngestionInv, AbsorbedStays, SeedOwned
  <2>4. QED
    BY <1>1, <1>6, <1>7, <2>2, <2>3 DEF AbsorbedStays, SeedOwned
<1>9. PlaceOK(w)'
  <2>1. /\ n.task \in Tasks /\ n.src \in DOMAIN Plan[n.task]
        /\ n.pos \in Nat \ {0} /\ n.yielded < n.pos
    BY SMTT(30), <1>1, <1>4
  <2>2. QED
    BY <1>4, <1>5, <2>1 DEF PlaceOK, Busy, InList, InUpsert
<1>10. ProgressOK(w)'
  <2>1. ASSUME NEW list, NEW k, Covered(w, list, k) PROVE Covered(w, list, k)'
    BY <1>4, <1>5, <1>7, <2>1 DEF Covered
  <2>2. ASSUME NEW p, SourceDone(w, p) PROVE SourceDone(w, p)'
    BY <1>4, <1>5, <2>1, <2>2 DEF SourceDone
  <2>3. ASSUME worker[w].task \notin RunAll
        PROVE  Covered(w, Feed[Source(w)], worker[w].pos - 1)'
    <3>1. Covered(w, Feed[Source(w)], worker[w].pos - 1)
      BY <1>1, <2>3 DEF IngestionInv, ProgressOK, InList
    <3>2. Source(w)' = Source(w) /\ worker'[w].pos - 1 = worker[w].pos
      <4>1. Source(w)' = Source(w) /\ worker'[w].pos = worker[w].pos + 1
        BY <1>4, <1>5 DEF Source
      <4>2. worker[w].pos \in Nat
        BY <1>1
      <4>3. QED
        BY <4>1, <4>2
    <3>3. ASSUME NEW k \in 1 .. worker[w].pos, k \in DOMAIN Feed[Source(w)]
          PROVE  Feed[Source(w)][k] \in Absorbed' \cup worker'[w].dropped
      <4>1. k \in 1 .. (worker[w].pos - 1) \/ k = worker[w].pos
        BY <1>1
      <4>2. QED
        BY <1>1, <1>4, <1>5, <1>7, <3>1, <3>3, <4>1 DEF Covered, Entry
    <3>4. QED
      BY <3>2, <3>3 DEF Covered
  <2>4. ASSUME worker[w].task \notin RunAll, NEW p \in DOMAIN Plan[worker[w].task],
               p < worker[w].src
        PROVE  SourceDone(w, p)'
    BY <1>1, <2>2, <2>4 DEF IngestionInv, ProgressOK, InList
  <2>5. QED
    BY <1>4, <1>5, <2>3, <2>4 DEF ProgressOK
<1>11. w \notin overlapped => AloneOK(w)'
  BY <1>1, <1>2, <1>4, StillAlone
<1>12. QED
  BY <1>1, <1>2, <1>4, <1>6, <1>7, <1>8, <1>9, <1>10, <1>11, WorkerStep
     DEF IngestionInv, TypeOK, broker

-----------------------------------------------------------------------------
(* The seed command.                                                       *)

\* Busy workers keep their place and are not alone.
LEMMA SeederStep ==
  ASSUME IngestionInv, TypeOK', UNCHANGED <<worker, absorbed>>, Present \subseteq Present',
         KeysUnique', AbsorbedStays',
         \A v \in Workers : Busy(v) => v \in overlapped'
  PROVE  IngestionInv'
<1>1. Absorbed' = Absorbed
  BY DEF Absorbed
<1>2. ASSUME NEW v \in Workers PROVE PlaceOK(v)' /\ ProgressOK(v)' /\ AloneOK(v)'
  <2>1. PlaceOK(v)' /\ ProgressOK(v)'
    BY <1>1, PlaceStays DEF IngestionInv
  <2>2. AloneOK(v)'
    BY DEF AloneOK, Busy
  <2>3. QED
    BY <2>1, <2>2
<1>3. QED
  BY <1>2 DEF IngestionInv

LEMMA CardTexts ==
  ASSUME NEW e \in Demo
  PROVE  /\ e \in Entries /\ Card[e]["city"] \in Texts \cup {None}
         /\ Card[e] \in Facts
  BY DEF Facts, Fields

LEMMA SeedReadInv ==
  ASSUME IngestionInv, SeedRead
  PROVE  IngestionInv'
<1>1. UNCHANGED <<tables, worker, absorbed>> /\ UNCHANGED <<queue, tries, faults>>
  BY DEF SeedRead, broker
<1>2. SeedCities \subseteq Texts
  BY CardTexts DEF SeedCities
<1>3. seeder' \in [pc : {"idle", "write", "done"}, rows : SUBSET Demo, cities : SUBSET Texts]
  BY <1>2 DEF SeedRead
<1>4. overlapped' \in SUBSET Workers /\ \A v \in Workers : Busy(v) => v \in overlapped'
  BY DEF SeedRead, IngestionInv, TypeOK
<1>5. TypeOK'
  BY <1>1, <1>3, <1>4 DEF IngestionInv, TypeOK, tables
<1>6. Present' = Present /\ Absorbed' = Absorbed
  BY <1>1 DEF tables, Present, Absorbed
<1>7. KeysUnique' /\ AbsorbedStays'
  BY <1>1, <1>6 DEF IngestionInv, KeysUnique, AbsorbedStays, SeedOwned, tables
<1>8. QED
  BY <1>1, <1>4, <1>5, <1>6, <1>7, SeederStep

\* What the seed command does to the rows: those that were there keep their
\* slug and what is known of them; but for its own, their categories too.
LEMMA SeedWritten ==
  ASSUME IngestionInv, SeedWrite
  PROVE  /\ providers' \in [Entries -> Rows \cup {None}]
         /\ \A e \in Present :
              /\ providers'[e] \in Rows
              /\ \A f \in {"slug", "host", "mail", "tax", "city"} :
                   providers'[e][f] = providers[e][f]
              /\ SeedOwned(providers[e]) \/ providers'[e].linked = providers[e].linked
         /\ \A e \in Present' \ Present :
              /\ e \in Demo /\ providers'[e].slug = SeedSlug(e)
              /\ ~SlugTaken(SeedSlug(e))
<1> DEFINE clash == \/ \E e \in seeder.rows : SlugTaken(SeedSlug(e)) \/ e \in Present
                    \/ seeder.cities \cap cities # {}
<1> DEFINE seeded(e) == IF e \in seeder.rows THEN NewRow(ListedItem(e), SeedSlug(e))
                        ELSE providers[e]
<1> DEFINE owner(row) == {e \in Demo : SeedSlug(e) = row.slug}
<1>1. providers \in [Entries -> Rows \cup {None}] /\ seeder.rows \subseteq Demo
  BY DEF IngestionInv, TypeOK
<1>2. CASE clash
  <2>1. providers' = providers
    BY <1>2 DEF SeedWrite, tables
  <2>2. QED
    BY <1>1, <2>1 DEF Present
<1>3. CASE ~clash
  <2>1. providers' = [e \in Entries |->
                       IF seeded(e) = None \/ owner(seeded(e)) = {} THEN seeded(e)
                       ELSE [seeded(e) EXCEPT !.linked = owner(seeded(e))]]
    BY <1>3 DEF SeedWrite
  <2>2. ASSUME NEW e \in seeder.rows
        PROVE  seeded(e) \in Rows /\ seeded(e).slug = SeedSlug(e)
    <3>1. NewRow(ListedItem(e), SeedSlug(e)) \in Rows
      <4>1. e \in Entries /\ Kind[e] = "demo" /\ Card[e] \in Facts
        BY <1>1
      <4>2. Card[e]["name"] \in Texts
        BY <4>1 DEF Facts, Fields
      <4>3. ListedItem(e) \in Items
        BY <4>1, <4>2, ItemIsItem DEF ListedItem
      <4>4. SeedSlug(e) \in Slugs
        BY <4>2 DEF SeedSlug, Slugs
      <4>5. QED
        BY <4>3, <4>4 DEF NewRow, Items, Rows
    <3>2. QED
      BY <3>1 DEF NewRow
  <2>3. ASSUME NEW e \in Entries PROVE seeded(e) \in Rows \cup {None}
    BY <1>1, <2>2, <2>3
  <2>4. ASSUME NEW row \in Rows
        PROVE  /\ [row EXCEPT !.linked = owner(row)] \in Rows
               /\ \A f \in {"slug", "host", "mail", "tax", "city"} :
                    [row EXCEPT !.linked = owner(row)][f] = row[f]
    BY <1>1, <2>4 DEF Rows
  <2> HIDE DEF seeded, owner
  <2>5. providers' \in [Entries -> Rows \cup {None}]
    BY <2>1, <2>3, <2>4
  <2>6. \A e \in Present : seeded(e) = providers[e] /\ providers[e] \in Rows
    BY ZenonT(30), <1>1, <1>3 DEF seeded, Present
  <2>7. ASSUME NEW e \in Present
        PROVE  /\ providers'[e] \in Rows
               /\ \A f \in {"slug", "host", "mail", "tax", "city"} :
                    providers'[e][f] = providers[e][f]
               /\ SeedOwned(providers[e]) \/ providers'[e].linked = providers[e].linked
    <3>1. /\ e \in Entries /\ providers[e] \in Rows /\ seeded(e) = providers[e]
          /\ providers[e] # None
      BY <2>6 DEF Present
    <3>2. CASE owner(providers[e]) = {}
      BY <2>1, <3>1, <3>2
    <3>3. CASE owner(providers[e]) # {}
      <4>1. providers'[e] = [providers[e] EXCEPT !.linked = owner(providers[e])]
        BY <2>1, <3>1, <3>3
      <4>2. SeedOwned(providers[e])
        BY <3>3 DEF owner, SeedOwned
      <4>3. QED
        BY <2>4, <3>1, <4>1, <4>2
    <3>4. QED
      BY <3>2, <3>3
  <2>8. ASSUME NEW e \in Present' \ Present
        PROVE  /\ e \in Demo /\ providers'[e].slug = SeedSlug(e)
               /\ ~SlugTaken(SeedSlug(e))
    <3>1. e \in Entries /\ providers[e] = None /\ providers'[e] # None
      BY <2>8 DEF Present
    <3>2. seeded(e) # None
      BY <2>1, <3>1
    <3>3. e \in seeder.rows
      BY <3>1, <3>2 DEF seeded
    <3>4. seeded(e) \in Rows /\ seeded(e).slug = SeedSlug(e)
      BY <2>2, <3>3
    <3>5. providers'[e].slug = seeded(e).slug
      BY <2>1, <2>4, <3>1, <3>4
    <3>6. QED
      BY <1>1, <1>3, <3>3, <3>4, <3>5
  <2>9. QED
    BY <2>5, <2>7, <2>8
<1>4. QED
  BY <1>2, <1>3

LEMMA SeedWriteInv ==
  ASSUME IngestionInv, SeedWrite
  PROVE  IngestionInv'
<1>1. /\ UNCHANGED <<worker, absorbed, overlapped, queue, tries, faults>>
      /\ seeder.pc = "write" /\ seeder'.pc = "done"
  BY DEF SeedWrite, broker, history
<1>2. Present \subseteq Present'
  BY SeedWritten DEF Present
<1>3. cities' \in SUBSET Texts
  BY DEF SeedWrite, IngestionInv, TypeOK, tables
<1>4. TypeOK'
  <2>1. seeder' \in [pc : {"idle", "write", "done"}, rows : SUBSET Demo,
                     cities : SUBSET Texts]
    BY DEF SeedWrite
  <2>2. QED
    BY <1>1, <1>3, <2>1, SeedWritten DEF IngestionInv, TypeOK
<1>5. \A v \in Workers : Busy(v) => v \in overlapped'
  BY <1>1 DEF IngestionInv, AloneOK
<1>6. \A e \in Present : providers'[e].slug = providers[e].slug
  BY SeedWritten
<1>7. KeysUnique'
  <2>1. ASSUME NEW c \in Present', NEW d \in Present',
               providers'[c].slug = providers'[d].slug
        PROVE  c = d
    <3>1. CASE c \in Present /\ d \in Present
      BY <1>6, <2>1, <3>1 DEF IngestionInv, KeysUnique
    <3>2. ASSUME NEW a \in Present, NEW b \in Present' \ Present
          PROVE  providers'[a].slug # providers'[b].slug
      <4>1. providers'[b].slug = SeedSlug(b) /\ ~SlugTaken(SeedSlug(b))
        BY SeedWritten
      <4>2. providers'[a].slug = providers[a].slug
        BY <1>6
      <4>3. QED
        BY <4>1, <4>2 DEF SlugTaken
    <3>3. CASE (c \in Present) # (d \in Present)
      BY <2>1, <3>2, <3>3
    <3>4. CASE c \notin Present /\ d \notin Present
      <4>1. c \in Demo /\ d \in Demo /\ SeedSlug(c) = SeedSlug(d)
        BY <2>1, <3>4, SeedWritten
      <4>2. QED
        BY <4>1, DemoAssumption DEF SeedSlug
    <3>5. QED
      BY <3>1, <3>3, <3>4
  <2>2. QED
    BY <2>1 DEF KeysUnique
<1>8. AbsorbedStays'
  <2>1. ASSUME NEW e \in Absorbed
        PROVE  /\ absorbed[e] \in Present'
               /\ e \in providers'[absorbed[e]].linked \/ SeedOwned(providers'[absorbed[e]])
    <3>1. /\ absorbed[e] \in Present
          /\ e \in providers[absorbed[e]].linked \/ SeedOwned(providers[absorbed[e]])
      BY DEF IngestionInv, AbsorbedStays
    <3>2. SeedOwned(providers'[absorbed[e]]) \/ ~SeedOwned(providers[absorbed[e]])
      BY <1>6, <3>1 DEF SeedOwned
    <3>3. QED
      BY <1>2, <3>1, <3>2, SeedWritten
  <2>2. QED
    BY <1>1, <2>1 DEF AbsorbedStays, Absorbed, SeedOwned, SeedSlug
<1>9. QED
  BY <1>1, <1>2, <1>4, <1>5, <1>7, <1>8, SeederStep

-----------------------------------------------------------------------------
(* The theorems.                                                           *)

LEMMA InitInv == Init => IngestionInv
<1> SUFFICES ASSUME Init PROVE IngestionInv
  OBVIOUS
<1>1. \A w \in Workers : worker[w] = Idle
  BY DEF Init
<1>2. TypeOK
  BY IdleTyped DEF Init, TypeOK, WorkerState
<1>3. Present = {} /\ Absorbed = {}
  BY DEF Init, Present, Absorbed
<1>4. KeysUnique /\ AbsorbedStays
  BY <1>3 DEF KeysUnique, AbsorbedStays
<1>5. ASSUME NEW w \in Workers PROVE PlaceOK(w) /\ ProgressOK(w) /\ AloneOK(w)
  BY <1>1, IdleTyped DEF PlaceOK, ProgressOK, AloneOK, Busy, InList, InUpsert
<1>6. QED
  BY <1>2, <1>4, <1>5 DEF IngestionInv

LEMMA StepInv == IngestionInv /\ [Next]_vars => IngestionInv'
<1> SUFFICES ASSUME IngestionInv, [Next]_vars PROVE IngestionInv'
  OBVIOUS
<1>1. CASE UNCHANGED vars
  <2>1. TypeOK'
    BY <1>1 DEF IngestionInv, TypeOK, vars, tables, broker, history
  <2>2. QED
    BY <1>1, <2>1, BrokerStep DEF vars, tables, history
<1>2. ASSUME NEW w \in Workers, Run(w) \/ Fault(w) PROVE IngestionInv'
  <2>1. ASSUME Upsert(w) PROVE IngestionInv'
    BY <2>1, CrawlInv, InsertCityInv, FindByInv, MakeSlugInv, InsertInv, UpdateInv,
       LinkInv DEF Upsert
  <2>2. QED
    BY <1>2, <2>1, TakeInv, ConnectInv, EndInv, ConnectFailsInv, VisibilityTimeoutInv
       DEF Run, Fault
<1>3. CASE SeedRead
  BY <1>3, SeedReadInv
<1>4. CASE SeedWrite
  BY <1>4, SeedWriteInv
<1>5. QED
  BY <1>1, <1>2, <1>3, <1>4 DEF Next

(* The inductive invariant of the filling of the catalogue holds for any   *)
(* lists, plans, sites, workers and numbers of faults.                     *)
THEOREM Invariant == Spec => []IngestionInv
  BY InitInv, StepInv, PTL DEF Spec

(* A run that nothing else ran next to has never ended on a unique         *)
(* constraint (pipeline.py 61-93, 169-178, 196-268).                       *)
THEOREM LonelyRunNeverConflictsHolds == Spec => []LonelyRunNeverConflicts
<1>1. IngestionInv => LonelyRunNeverConflicts
  BY DEF IngestionInv, AloneOK, LonelyRunNeverConflicts, Busy
<1>2. QED
  BY <1>1, Invariant, PTL

(* What an upsert brought in stays in its row under its categories         *)
(* (pipeline.py 181-193, 270-320).                                         *)
THEOREM AbsorbedStaysHolds == Spec => []AbsorbedStays
<1>1. IngestionInv => AbsorbedStays
  BY DEF IngestionInv
<1>2. QED
  BY <1>1, Invariant, PTL

(* A task that answers "ok" has gone through all of its sources            *)
(* (tasks.py 99-143).                                                      *)
THEOREM OkMeansAllHolds == Spec => []OkMeansAll
<1>1. IngestionInv => OkMeansAll
  <2> SUFFICES ASSUME IngestionInv, NEW w \in Workers, worker[w].pc = "ok",
                      worker[w].task \notin RunAll,
                      NEW s \in DOMAIN Plan[worker[w].task],
                      Len(Feed[Plan[worker[w].task][s]]) <= Limit[worker[w].task],
                      NEW k \in DOMAIN Feed[Plan[worker[w].task][s]]
               PROVE  Feed[Plan[worker[w].task][s]][k] \in Absorbed \cup worker[w].dropped
    BY DEF OkMeansAll
  <2> DEFINE list == Feed[Plan[worker[w].task][s]]
  <2>1. worker[w].task \in Tasks /\ ~SourcesLeft(w) /\ ProgressOK(w) /\ Busy(w)
        /\ worker[w].src \in Nat
    BY DEF IngestionInv, TypeOK, PlaceOK, Busy
  <2>2. Plan[worker[w].task] \in Seq(Sources)
    BY <2>1
  <2>3. s < worker[w].src
    BY SMTT(30), <2>1, <2>2 DEF SourcesLeft
  <2>4. SourceDone(w, s)
    BY <2>1, <2>3 DEF ProgressOK
  <2>5. list \in Seq(Entries)
    BY <2>2
  <2>6. k \in 1 .. Len(list)
    BY <2>5
  <2>7. QED
    BY <2>4, <2>6 DEF SourceDone, Covered
<1>2. QED
  BY <1>1, Invariant, PTL

(* A slug never changes, and a host, address, tax id, city or category     *)
(* once known is never lost (pipeline.py 270-319).                         *)
THEOREM NothingForgottenHolds == Spec => NothingForgotten
<1>1. IngestionInv /\ [Next]_vars => [\A r \in Present : ~Forgets(r)]_vars
  <2> SUFFICES ASSUME IngestionInv, Next, NEW r \in Present PROVE ~Forgets(r)
    OBVIOUS
  <2>1. providers[r] \in Rows /\ r \in Entries /\ providers[r] # None
        /\ providers \in [Entries -> Rows \cup {None}]
    BY DEF IngestionInv, TypeOK, Present
  <2>2. ASSUME providers'[r] = providers[r] PROVE ~Forgets(r)
    BY <2>1, <2>2 DEF Forgets
  <2>3. ASSUME NEW w \in Workers, Insert(w) PROVE ~Forgets(r)
    <3>1. providers'[r] = providers[r]
      BY <2>1, <2>3 DEF Insert
    <3>2. QED
      BY <2>2, <3>1
  <2>4. ASSUME NEW w \in Workers, Update(w) PROVE ~Forgets(r)
    <3> DEFINE row == Updated(providers[r], Item_(w))
    <3>1. CASE worker[w].row = r
      <4>1. providers'[r] = row
        BY <2>1, <2>4, <3>1 DEF Update
      <4>2. Item_(w) \in Items
        BY <2>4 DEF IngestionInv, PlaceOK, Update, InUpsert, Item_
      <4>3. /\ row.slug = providers[r].slug /\ row.linked = providers[r].linked
            /\ row \in Rows
            /\ \A f \in {"host", "mail", "tax", "city"} :
                 providers[r][f] # None => row[f] # None
        BY <2>1, <4>2, UpdatedRow
      <4>4. row # None
        BY <4>3
      <4>5. QED
        BY <4>1, <4>3, <4>4 DEF Forgets
    <3>2. CASE worker[w].row # r
      BY <2>1, <2>2, <2>4, <3>2 DEF Update
    <3>3. QED
      BY <3>1, <3>2
  <2>5. ASSUME NEW w \in Workers, Link(w) PROVE ~Forgets(r)
    <3> DEFINE row == WithCategories(providers[r], Item_(w))
    <3>1. CASE worker[w].row = r
      <4>1. providers'[r] = row
        BY <2>1, <2>5, <3>1 DEF Link
      <4>2. Item_(w) \in Items
        BY <2>5 DEF IngestionInv, PlaceOK, Link, InUpsert, Item_
      <4>3. /\ row.slug = providers[r].slug /\ row \in Rows
            /\ providers[r].linked \subseteq row.linked
            /\ \A f \in {"host", "mail", "tax", "city"} : row[f] = providers[r][f]
        BY ZenonT(30), <2>1, <4>2 DEF WithCategories, Rows, Items
      <4>4. row # None
        BY <4>3
      <4>5. QED
        BY <4>1, <4>3, <4>4 DEF Forgets
    <3>2. CASE worker[w].row # r
      BY <2>1, <2>2, <2>5, <3>2 DEF Link
    <3>3. QED
      BY <3>1, <3>2
  <2>6. ASSUME SeedWrite PROVE ~Forgets(r)
    <3>1. providers'[r] # None
      BY <2>6, SeedWritten
    <3>2. QED
      BY <2>6, <3>1, SeedWritten DEF Forgets
  <2>7. ASSUME providers' = providers PROVE ~Forgets(r)
    BY <2>2, <2>7
  <2>8. ASSUME NEW w \in Workers, Run(w) \/ Fault(w) PROVE ~Forgets(r)
    <3>1. CASE Upsert(w)
      BY <2>3, <2>4, <2>5, <2>7, <3>1
         DEF Upsert, Crawl, InsertCity, FindBySource, FindByPublicId, FindByDomain,
             FindByName, MakeSlug, Reads, tables
    <3>2. CASE Fault(w)
      BY <2>7, <3>2 DEF Fault, ConnectFails, RunFails, Crash, VisibilityTimeout, tables
    <3>3. CASE Connect(w) \/ Acknowledge(w) \/ \E t \in Tasks : Take(w, t)
      BY <2>7, <3>3 DEF Connect, Acknowledge, Take, Reads, tables
    <3>4. QED
      BY <2>8, <3>1, <3>2, <3>3 DEF Run
  <2>9. CASE SeedRead
    BY <2>7, <2>9 DEF SeedRead, tables
  <2>10. QED
    BY <2>6, <2>8, <2>9 DEF Next
<1>2. QED
  BY <1>1, Invariant, PTL DEF Spec, NothingForgotten

=============================================================================
