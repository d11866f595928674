--------------------------- MODULE StationProofs ---------------------------
(***************************************************************************)
(* The station configuration and the values of its inputs, for every set   *)
(* of blobs and of records.  The validation is a long sequence of checks   *)
(* that ends at the first failure: it is reduced, step by step, to what a  *)
(* consistent configuration is, said without an order.  What is read from  *)
(* a configuration that passed it follows from there.                      *)
(***************************************************************************)
EXTENDS FieldInputs, WellFoundedInduction, FiniteSetTheorems, TLAPS

\* A set of numbers has a least one.
LEMMA MinFacts ==
  ASSUME NEW S, S \subseteq Nat, S # {}
  PROVE  Min(S) \in S /\ \A x \in S : Min(S) <= x
<1>1. PICK x \in S : \A y \in S : ~ (<<y, x>> \in OpToRel(<, Nat))
  BY WFMin, NatLessThanWellFounded, Zenon
<1>2. ASSUME NEW y \in S PROVE x <= y
  <2>1. x \in Nat /\ y \in Nat
    OBVIOUS
  <2>2. ~ (y < x)
    BY <1>1, <2>1 DEF OpToRel
  <2>3. QED
    BY <2>1, <2>2
<1>3. QED
  BY <1>2 DEF Min

-----------------------------------------------------------------------------
(* Reports *)

\* Of reports in their order, the first error; and Ok if there is none.
LEMMA FirstErrorFacts ==
  ASSUME NEW n \in Nat, NEW reports, DOMAIN reports = 1..n
  PROVE  /\ FirstError(reports) = Ok <=> \A i \in 1..n : reports[i] = Ok
         /\ FirstError(reports) # Ok =>
              \E i \in 1..n : /\ reports[i] # Ok /\ FirstError(reports) = reports[i]
                              /\ \A j \in 1..(i - 1) : reports[j] = Ok
<1> DEFINE failed == {i \in DOMAIN reports : reports[i] # Ok}
<1>1. FirstError(reports) = IF failed = {} THEN Ok ELSE reports[Min(failed)]
  BY DEF FirstError
<1>2. CASE failed = {}
  BY <1>1, <1>2
<1>3. CASE failed # {}
  <2>1. failed \subseteq Nat
    OBVIOUS
  <2>2. Min(failed) \in failed /\ \A x \in failed : Min(failed) <= x
    BY MinFacts, <1>3, <2>1
  <2> DEFINE m == Min(failed)
  <2>3. m \in 1..n /\ reports[m] # Ok /\ FirstError(reports) = reports[m]
    BY <2>2, <1>1, <1>3
  <2>4. \A j \in 1..(m - 1) : j \in 1..n /\ ~(m <= j)
    BY <2>3
  <2>5. \A j \in 1..(m - 1) : reports[j] = Ok
    BY <2>2, <2>4
  <2> HIDE DEF m
  <2>6. QED
    BY <2>3, <2>5
<1>4. QED
  BY <1>2, <1>3

\* The same of so many reports written one by one: Ok if all are, and one of
\* them if not.
LEMMA TwoReports ==
  ASSUME NEW r1, NEW r2
  PROVE  /\ FirstError(<<r1, r2>>) = Ok <=>
              /\ r1 = Ok /\ r2 = Ok
         /\ FirstError(<<r1, r2>>) \in {Ok, r1, r2}
<1> DEFINE reports == <<r1, r2>>
<1>1. /\ DOMAIN reports = 1..2
      /\ \A i \in 1..2 : reports[i] \in {r1, r2}
      /\ (\A i \in 1..2 : reports[i] = Ok) <=>
              /\ r1 = Ok /\ r2 = Ok
  OBVIOUS
<1> HIDE DEF reports
<1>2. /\ FirstError(reports) = Ok <=>
           /\ r1 = Ok /\ r2 = Ok
      /\ FirstError(reports) \in {Ok, r1, r2}
  BY <1>1, FirstErrorFacts
<1>3. QED
  BY <1>2 DEF reports

LEMMA ThreeReports ==
  ASSUME NEW r1, NEW r2, NEW r3
  PROVE  /\ FirstError(<<r1, r2, r3>>) = Ok <=>
              /\ r1 = Ok /\ r2 = Ok /\ r3 = Ok
         /\ FirstError(<<r1, r2, r3>>) \in {Ok, r1, r2, r3}
<1> DEFINE reports == <<r1, r2, r3>>
<1>1. /\ DOMAIN reports = 1..3
      /\ \A i \in 1..3 : reports[i] \in {r1, r2, r3}
      /\ (\A i \in 1..3 : reports[i] = Ok) <=>
              /\ r1 = Ok /\ r2 = Ok /\ r3 = Ok
  OBVIOUS
<1> HIDE DEF reports
<1>2. /\ FirstError(reports) = Ok <=>
           /\ r1 = Ok /\ r2 = Ok /\ r3 = Ok
      /\ FirstError(reports) \in {Ok, r1, r2, r3}
  BY <1>1, FirstErrorFacts
<1>3. QED
  BY <1>2 DEF reports

LEMMA FiveReports ==
  ASSUME NEW r1, NEW r2, NEW r3, NEW r4, NEW r5
  PROVE  /\ FirstError(<<r1, r2, r3, r4, r5>>) = Ok <=>
              /\ r1 = Ok /\ r2 = Ok /\ r3 = Ok /\ r4 = Ok /\ r5 = Ok
         /\ FirstError(<<r1, r2, r3, r4, r5>>) \in {Ok, r1, r2, r3, r4, r5}
<1> DEFINE reports == <<r1, r2, r3, r4, r5>>
<1>1. /\ DOMAIN reports = 1..5
      /\ \A i \in 1..5 : reports[i] \in {r1, r2, r3, r4, r5}
      /\ (\A i \in 1..5 : reports[i] = Ok) <=>
              /\ r1 = Ok /\ r2 = Ok /\ r3 = Ok /\ r4 = Ok /\ r5 = Ok
  OBVIOUS
<1> HIDE DEF reports
<1>2. /\ FirstError(reports) = Ok <=>
           /\ r1 = Ok /\ r2 = Ok /\ r3 = Ok /\ r4 = Ok /\ r5 = Ok
      /\ FirstError(reports) \in {Ok, r1, r2, r3, r4, r5}
  BY <1>1, FirstErrorFacts
<1>3. QED
  BY <1>2 DEF reports

LEMMA SixReports ==
  ASSUME NEW r1, NEW r2, NEW r3, NEW r4, NEW r5, NEW r6
  PROVE  /\ FirstError(<<r1, r2, r3, r4, r5, r6>>) = Ok <=>
              /\ r1 = Ok /\ r2 = Ok /\ r3 = Ok /\ r4 = Ok /\ r5 = Ok
              /\ r6 = Ok
         /\ FirstError(<<r1, r2, r3, r4, r5, r6>>) \in {Ok, r1, r2, r3, r4, r5, r6}
<1> DEFINE reports == <<r1, r2, r3, r4, r5, r6>>
<1>1. /\ DOMAIN reports = 1..6
      /\ \A i \in 1..6 : reports[i] \in {r1, r2, r3, r4, r5, r6}
      /\ (\A i \in 1..6 : reports[i] = Ok) <=>
              /\ r1 = Ok /\ r2 = Ok /\ r3 = Ok /\ r4 = Ok /\ r5 = Ok
              /\ r6 = Ok
  OBVIOUS
<1> HIDE DEF reports
<1>2. /\ FirstError(reports) = Ok <=>
           /\ r1 = Ok /\ r2 = Ok /\ r3 = Ok /\ r4 = Ok /\ r5 = Ok
           /\ r6 = Ok
      /\ FirstError(reports) \in {Ok, r1, r2, r3, r4, r5, r6}
  BY <1>1, FirstErrorFacts
<1>3. QED
  BY <1>2 DEF reports

LEMMA SevenReports ==
  ASSUME NEW r1, NEW r2, NEW r3, NEW r4, NEW r5, NEW r6, NEW r7
  PROVE  /\ FirstError(<<r1, r2, r3, r4, r5, r6, r7>>) = Ok <=>
              /\ r1 = Ok /\ r2 = Ok /\ r3 = Ok /\ r4 = Ok /\ r5 = Ok
              /\ r6 = Ok /\ r7 = Ok
         /\ FirstError(<<r1, r2, r3, r4, r5, r6, r7>>) \in {Ok, r1, r2, r3, r4, r5, r6, r7}
<1> DEFINE reports == <<r1, r2, r3, r4, r5, r6, r7>>
<1>1. /\ DOMAIN reports = 1..7
      /\ \A i \in 1..7 : reports[i] \in {r1, r2, r3, r4, r5, r6, r7}
      /\ (\A i \in 1..7 : reports[i] = Ok) <=>
              /\ r1 = Ok /\ r2 = Ok /\ r3 = Ok /\ r4 = Ok /\ r5 = Ok
              /\ r6 = Ok /\ r7 = Ok
  OBVIOUS
<1> HIDE DEF reports
<1>2. /\ FirstError(reports) = Ok <=>
           /\ r1 = Ok /\ r2 = Ok /\ r3 = Ok /\ r4 = Ok /\ r5 = Ok
           /\ r6 = Ok /\ r7 = Ok
      /\ FirstError(reports) \in {Ok, r1, r2, r3, r4, r5, r6, r7}
  BY <1>1, FirstErrorFacts
<1>3. QED
  BY <1>2 DEF reports

LEMMA NineReports ==
  ASSUME NEW r1, NEW r2, NEW r3, NEW r4, NEW r5, NEW r6, NEW r7, NEW r8, NEW r9
  PROVE  /\ FirstError(<<r1, r2, r3, r4, r5, r6, r7, r8, r9>>) = Ok <=>
              /\ r1 = Ok /\ r2 = Ok /\ r3 = Ok /\ r4 = Ok /\ r5 = Ok
              /\ r6 = Ok /\ r7 = Ok /\ r8 = Ok /\ r9 = Ok
         /\ FirstError(<<r1, r2, r3, r4, r5, r6, r7, r8, r9>>)
              \in {Ok, r1, r2, r3, r4, r5, r6, r7, r8, r9}
<1> DEFINE reports == <<r1, r2, r3, r4, r5, r6, r7, r8, r9>>
<1>1. /\ DOMAIN reports = 1..9
      /\ \A i \in 1..9 : reports[i] \in {r1, r2, r3, r4, r5, r6, r7, r8, r9}
      /\ (\A i \in 1..9 : reports[i] = Ok) <=>
              /\ r1 = Ok /\ r2 = Ok /\ r3 = Ok /\ r4 = Ok /\ r5 = Ok
              /\ r6 = Ok /\ r7 = Ok /\ r8 = Ok /\ r9 = Ok
  OBVIOUS
<1> HIDE DEF reports
<1>2. /\ FirstError(reports) = Ok <=>
           /\ r1 = Ok /\ r2 = Ok /\ r3 = Ok /\ r4 = Ok /\ r5 = Ok
           /\ r6 = Ok /\ r7 = Ok /\ r8 = Ok /\ r9 = Ok
      /\ FirstError(reports) \in {Ok, r1, r2, r3, r4, r5, r6, r7, r8, r9}
  BY <1>1, FirstErrorFacts
<1>3. QED
  BY <1>2 DEF reports

-----------------------------------------------------------------------------
(* The header and the directory *)

\* A header passes its checks exactly if it is good, and ends before the blob.
LEMMA HeaderFacts ==
  ASSUME NEW b, IsDecoded(b)
  PROVE  ValidateHeader(b) = Ok <=>
           HeaderIsGood(b) /\ b.total_size >= ExpectedHeaderSize(b)
<1> DEFINE r1 == When(b.blob_size < Fixed \/ b.blob_size > MaxBlobSize, Report("SIZE", 0, 0))
           r2 == When(b.magic # "STCF", Report("MAGIC", 0, 0))
           r3 == When(b.major # 1 \/ b.minor > 1, Report("VERSION", 0, 0))
           r4 == When(b.section_count \notin 1..16, Report("SECTION_COUNT", 0, 0))
           r5 == When(\/ b.header_size # ExpectedHeaderSize(b)
                      \/ b.total_size # b.blob_size
                      \/ b.total_size < ExpectedHeaderSize(b), Report("HEADER", 0, 0))
           r6 == When(b.station_id = 0, Report("STATION_ID", 0, 0))
           r7 == When(b.revision = 0, Report("REVISION", 0, 0))
           r8 == When(b.flags # 0 \/ b.reserved # 0, Report("HEADER", 0, 0))
           r9 == When(~b.crc, Report("CRC", 0, 0))
<1>1. ValidateHeader(b) = FirstError(<<r1, r2, r3, r4, r5, r6, r7, r8, r9>>)
  BY DEF ValidateHeader
<1>2. ValidateHeader(b) = Ok <=>
        /\ r1 = Ok /\ r2 = Ok /\ r3 = Ok /\ r4 = Ok /\ r5 = Ok
        /\ r6 = Ok /\ r7 = Ok /\ r8 = Ok /\ r9 = Ok
  <2> HIDE DEF r1, r2, r3, r4, r5, r6, r7, r8, r9
  <2> QED BY <1>1, NineReports
<1>3. \A result : result # "OK" => Report(result, 0, 0) # Ok
  BY DEF Report, Ok
<1>4. ValidateHeader(b) = Ok <=>
        /\ ~(b.blob_size < Fixed \/ b.blob_size > MaxBlobSize)
        /\ b.magic = "STCF"
        /\ ~(b.major # 1 \/ b.minor > 1)
        /\ b.section_count \in 1..16
        /\ b.header_size = ExpectedHeaderSize(b)
        /\ b.total_size = b.blob_size
        /\ ~(b.total_size < ExpectedHeaderSize(b))
        /\ b.station_id # 0 /\ b.revision # 0 /\ b.flags = 0 /\ b.reserved = 0 /\ b.crc
  BY <1>2, <1>3 DEF When
<1>5. /\ b.blob_size \in Nat /\ b.minor \in Nat /\ b.section_count \in Nat
      /\ b.total_size \in Nat
  BY Zenon DEF IsDecoded
<1>6. ~(b.total_size < ExpectedHeaderSize(b)) <=> b.total_size >= ExpectedHeaderSize(b)
  BY <1>5 DEF ExpectedHeaderSize, Fixed, Descriptor
<1>7. ~(b.blob_size < Fixed \/ b.blob_size > MaxBlobSize) <=> b.blob_size \in Fixed..MaxBlobSize
  <2>1. Fixed \in Nat /\ MaxBlobSize \in Nat
    BY SMT DEF Fixed, MaxBlobSize
  <2>2. QED
    BY <1>5, <2>1
<1>8. ~(b.major # 1 \/ b.minor > 1) <=> b.major = 1 /\ b.minor \in {0, 1}
  BY <1>5
<1> HIDE DEF r1, r2, r3, r4, r5, r6, r7, r8, r9
<1>9. QED
  BY <1>4, <1>6, <1>7, <1>8 DEF HeaderIsGood, ExpectedHeaderSize

\* A section that is within the blob, and apart from the ones before it.
IsApart(b, i) ==
  LET s == b.sections[i]
  IN /\ s.type # 0 /\ s.version # 0
     /\ b.header_size <= s.offset /\ End(s) <= b.total_size
     /\ s.entry_count # 0 /\ s.entry_size # 0 /\ s.entry_count * s.entry_size = s.length
     /\ \A j \in 1..(i - 1) :
          LET c == b.sections[j]
          IN c.type # s.type /\ (End(s) <= c.offset \/ End(c) <= s.offset)

SectionTypes(b) ==
  \A i \in 1..b.section_count :
    LET s == b.sections[i]
    IN /\ s.version \in Nat /\ s.offset \in Nat /\ s.length \in Nat
       /\ s.entry_count \in Nat /\ s.entry_size \in Nat

\* The report of an error is not Ok.
LEMMA NotOk == \A result, type, entry : result # "OK" => Report(result, type, entry) # Ok
  BY DEF Report, Ok

\* A section passes the comparison with those before it exactly if it differs
\* from all of them in type, and overlaps none.
LEMMA CompareFacts ==
  ASSUME NEW b, b.section_count \in Nat, SectionTypes(b), NEW i \in 1..b.section_count
  PROVE  CompareSections(b, i) = Ok <=>
           \A j \in 1..(i - 1) :
             LET s == b.sections[i]
                 c == b.sections[j]
             IN c.type # s.type /\ (End(s) <= c.offset \/ End(c) <= s.offset)
<1> DEFINE s == b.sections[i]
           same(c) == When(c.type = s.type, Report("DUPLICATE_SECTION", s.type, i - 1))
           over(c) == When(s.offset < c.offset + c.length /\ c.offset < s.offset + s.length,
                           Report("SECTION_OVERLAP", s.type, i - 1))
           reports == [j \in 1..(i - 1) |->
                         FirstError(<<same(b.sections[j]), over(b.sections[j])>>)]
<1>1. CompareSections(b, i) = FirstError(reports)
  BY DEF CompareSections
<1>2. CompareSections(b, i) = Ok <=> \A j \in 1..(i - 1) : reports[j] = Ok
  <2>1. i - 1 \in Nat /\ DOMAIN reports = 1..(i - 1)
    OBVIOUS
  <2> HIDE DEF reports
  <2>2. QED
    BY <1>1, <2>1, FirstErrorFacts
<1>3. ASSUME NEW j \in 1..(i - 1)
      PROVE  reports[j] = Ok <=>
               b.sections[j].type # s.type /\
               (End(s) <= b.sections[j].offset \/ End(b.sections[j]) <= s.offset)
  <2> DEFINE c == b.sections[j]
  <2>1. reports[j] = FirstError(<<same(c), over(c)>>)
    OBVIOUS
  <2>2. reports[j] = Ok <=> same(c) = Ok /\ over(c) = Ok
    <3> HIDE DEF same, over, reports, c
    <3> QED BY <2>1, TwoReports
  <2>3. same(c) = Ok <=> c.type # s.type
    BY NotOk DEF When
  <2>4. over(c) = Ok <=> ~(s.offset < c.offset + c.length /\ c.offset < s.offset + s.length)
    BY NotOk DEF When
  <2>5. /\ s.offset \in Nat /\ s.length \in Nat
        /\ c.offset \in Nat /\ c.length \in Nat
    <3>1. i \in 1..b.section_count /\ j \in 1..b.section_count
      OBVIOUS
    <3>2. QED
      BY <3>1 DEF SectionTypes
  <2> HIDE DEF s, c, same, over, reports
  <2>6. ~(s.offset < c.offset + c.length /\ c.offset < s.offset + s.length) <=>
          End(s) <= c.offset \/ End(c) <= s.offset
    BY <2>5 DEF End
  <2>7. QED
    BY <2>2, <2>3, <2>4, <2>6 DEF c
<1> HIDE DEF reports
<1>4. QED
  BY <1>2, <1>3

\* A section passes its checks exactly if it is apart.
LEMMA SectionFacts ==
  ASSUME NEW b, b.section_count \in Nat, b.header_size \in Nat, b.total_size \in Nat,
         SectionTypes(b), NEW i \in 1..b.section_count
  PROVE  ValidateSection(b, i) = Ok <=> IsApart(b, i)
<1> DEFINE s == b.sections[i]
           r1 == When(s.type = 0 \/ s.version = 0, Report("HEADER", s.type, i - 1))
           r2 == When(s.offset < b.header_size \/ s.offset + s.length > b.total_size,
                      Report("SECTION_BOUNDS", s.type, i - 1))
           r3 == When(\/ s.entry_count = 0 \/ s.entry_size = 0
                      \/ s.entry_count * s.entry_size # s.length,
                      Report("ENTRY_SIZE", s.type, i - 1))
           r4 == CompareSections(b, i)
<1>1. ValidateSection(b, i) = FirstError(<<FirstError(<<r1, r2, r3>>), r4>>)
  BY DEF ValidateSection
<1>2. ValidateSection(b, i) = Ok <=> r1 = Ok /\ r2 = Ok /\ r3 = Ok /\ r4 = Ok
  <2> HIDE DEF r1, r2, r3, r4
  <2> QED BY <1>1, TwoReports, ThreeReports
<1>3. r1 = Ok <=> s.type # 0 /\ s.version # 0
  BY NotOk DEF When
<1>4. r2 = Ok <=> ~(s.offset < b.header_size \/ s.offset + s.length > b.total_size)
  BY NotOk DEF When
<1>5. r3 = Ok <=> s.entry_count # 0 /\ s.entry_size # 0 /\ s.entry_count * s.entry_size = s.length
  BY NotOk DEF When
<1>6. s.offset \in Nat /\ s.length \in Nat
  BY DEF SectionTypes
<1> HIDE DEF r1, r2, r3, r4, s
<1>7. ~(s.offset < b.header_size \/ s.offset + s.length > b.total_size) <=>
        b.header_size <= s.offset /\ End(s) <= b.total_size
  BY <1>6 DEF End
<1>8. r4 = Ok <=> \A j \in 1..(i - 1) :
          LET c == b.sections[j]
          IN c.type # s.type /\ (End(s) <= c.offset \/ End(c) <= s.offset)
  BY CompareFacts DEF r4, s
<1>9. QED
  BY <1>2, <1>3, <1>4, <1>5, <1>7, <1>8 DEF IsApart, s

\* The sections pass their checks exactly if all are apart.
LEMMA SectionsFacts ==
  ASSUME NEW b, b.section_count \in Nat, b.header_size \in Nat, b.total_size \in Nat,
         SectionTypes(b)
  PROVE  ValidateSections(b) = Ok <=> \A i \in 1..b.section_count : IsApart(b, i)
<1> DEFINE reports == [i \in 1..b.section_count |-> ValidateSection(b, i)]
<1>1. ValidateSections(b) = FirstError(reports)
  BY DEF ValidateSections
<1>2. DOMAIN reports = 1..b.section_count
      /\ \A i \in 1..b.section_count : reports[i] = Ok <=> IsApart(b, i)
  BY SectionFacts
<1> HIDE DEF reports
<1>3. QED
  BY <1>1, <1>2, FirstErrorFacts

\* The section of a type passes the checks of its version, its size of entries
\* and their number.
LEMMA ShapeFacts ==
  ASSUME NEW s, s.entry_count \in Nat, NEW type \in 1..4
  PROVE  ValidateShape(s, type) = Ok <=>
           /\ s.version = SectionVersion[type]
           /\ s.entry_size = EntrySize[type]
           /\ s.entry_count <= MaxEntries[type]
<1> DEFINE r1 == When(s.version # SectionVersion[type], Report("VERSION", type, 0))
           r2 == When(s.entry_size # EntrySize[type], Report("ENTRY_SIZE", type, 0))
           r3 == When(s.entry_count > MaxEntries[type],
                      Report(IF type = FIELD_INPUTS THEN "ENTRY_COUNT" ELSE "ENTRY_SIZE", type, 0))
<1>1. ValidateShape(s, type) = FirstError(<<r1, r2, r3>>)
  BY DEF ValidateShape
<1>2. ValidateShape(s, type) = Ok <=> r1 = Ok /\ r2 = Ok /\ r3 = Ok
  <2> HIDE DEF r1, r2, r3
  <2> QED BY <1>1, ThreeReports
<1>3. r1 = Ok <=> s.version = SectionVersion[type]
  BY NotOk DEF When
<1>4. r2 = Ok <=> s.entry_size = EntrySize[type]
  BY NotOk DEF When
<1>5. r3 = Ok <=> ~(s.entry_count > MaxEntries[type])
  BY NotOk DEF When
<1> HIDE DEF r1, r2, r3
<1>6. MaxEntries[type] \in Nat
  BY SMT DEF MaxEntries
<1>7. QED
  BY <1>2, <1>3, <1>4, <1>5, <1>6

\* As many values as places: no two are the same.
LEMMA DistinctFacts ==
  ASSUME NEW n \in Nat, NEW f, DOMAIN f = 1..n
  PROVE  Cardinality({f[i] : i \in 1..n}) = n <=>
           \A i, j \in 1..n : f[i] = f[j] => i = j
<1> DEFINE T == {f[i] : i \in 1..n}
           g == [i \in 1..n |-> f[i]]
<1>1. g \in Surjection(1..n, T)
  BY DEF Surjection
<1>2. IsFiniteSet(1..n) /\ Cardinality(1..n) = n
  BY FS_Interval
<1>3. Cardinality(T) = n <=> g \in Injection(1..n, T)
  BY <1>1, <1>2, FS_Surjection
<1>4. g \in Injection(1..n, T) <=> \A i, j \in 1..n : f[i] = f[j] => i = j
  BY DEF Injection, IsInjective
<1>5. QED
  BY <1>3, <1>4

\* A product is positive if both of its factors are.
LEMMA ProductFacts ==
  ASSUME NEW m \in Nat, NEW n \in Nat
  PROVE  m * n > 0 <=> m # 0 /\ n # 0
  BY SMT

\* The section that is found is one of the directory, of the type looked for.
LEMMA FindFacts ==
  ASSUME NEW b, b.section_count \in Nat, NEW type, HasSection(b, type)
  PROVE  \E i \in 1..b.section_count :
           b.sections[i].type = type /\ Section(b, type) = b.sections[i]
<1>1. Find(b, type) \subseteq Nat /\ Find(b, type) # {}
  BY DEF Find, HasSection
<1>2. Min(Find(b, type)) \in Find(b, type)
  BY <1>1, MinFacts
<1>3. QED
  BY <1>2 DEF Find, Section

\* Sections apart from the ones before them are apart from all others: what
\* the checks say, one section after the other, is a good directory.
LEMMA DirectoryFacts ==
  ASSUME NEW b, b.section_count \in Nat, b.header_size \in Nat, b.total_size \in Nat,
         SectionTypes(b)
  PROVE  DirectoryIsGood(b) <=>
           /\ \A i \in 1..b.section_count : IsApart(b, i)
           /\ HasSection(b, FIELD_INPUTS)
           /\ \A type \in 1..4 : HasSection(b, type) => ValidateShape(Section(b, type), type) = Ok
<1> DEFINE n == b.section_count
           S(i) == b.sections[i]
           sections == {S(i) : i \in 1..n}
           types == {s.type : s \in sections}
           f == [i \in 1..n |-> S(i).type]
           distinct == \A i, j \in 1..n : S(i).type = S(j).type => i = j
           apart(i) == \A j \in 1..n : i = j \/ End(S(i)) <= S(j).offset \/ End(S(j)) <= S(i).offset
           fits(i) == /\ S(i).type # 0 /\ S(i).version # 0
                      /\ b.header_size <= S(i).offset /\ End(S(i)) <= b.total_size
                      /\ S(i).length > 0 /\ S(i).length = S(i).entry_count * S(i).entry_size
           shaped(i) == S(i).type \in DOMAIN EntrySize =>
                          /\ S(i).version = SectionVersion[S(i).type]
                          /\ S(i).entry_size = EntrySize[S(i).type]
                          /\ S(i).entry_count <= MaxEntries[S(i).type]
<1>1. Cardinality(types) = n <=> distinct
  <2>1. types = {f[i] : i \in 1..n}
    OBVIOUS
  <2>2. Cardinality({f[i] : i \in 1..n}) = n <=> \A i, j \in 1..n : f[i] = f[j] => i = j
    <3>1. DOMAIN f = 1..n
      OBVIOUS
    <3> HIDE DEF f
    <3>2. QED
      BY <3>1, DistinctFacts
  <2>3. QED
    BY <2>1, <2>2
<1>2. FIELD_INPUTS \in types <=> HasSection(b, FIELD_INPUTS)
  BY DEF HasSection, Find
<1>3. DirectoryIsGood(b) <=>
        /\ distinct /\ HasSection(b, FIELD_INPUTS)
        /\ \A i \in 1..n : fits(i) /\ shaped(i) /\ apart(i)
  <2>1. DirectoryIsGood(b) <=>
          /\ distinct /\ HasSection(b, FIELD_INPUTS)
          /\ \A i \in 1..n : fits(i) /\ shaped(i) /\
               \A j \in 1..n : S(i) = S(j) \/ End(S(i)) <= S(j).offset \/ End(S(j)) <= S(i).offset
    BY <1>1, <1>2 DEF DirectoryIsGood
  <2>2. distinct => \A i, j \in 1..n : S(i) = S(j) <=> i = j
    OBVIOUS
  <2> HIDE DEF fits, shaped, distinct
  <2>3. QED
    BY <2>1, <2>2
<1>4. /\ DOMAIN EntrySize = 1..4
      /\ \A i \in 1..n : /\ S(i).offset \in Nat /\ S(i).length \in Nat
                         /\ S(i).entry_count \in Nat /\ S(i).entry_size \in Nat
  BY DEF EntrySize, SectionTypes
<1>5. (\A i \in 1..n : IsApart(b, i)) <=> distinct /\ \A i \in 1..n : fits(i) /\ apart(i)
  <2> DEFINE before(i) == \A j \in 1..(i - 1) :
                            /\ S(j).type # S(i).type
                            /\ End(S(i)) <= S(j).offset \/ End(S(j)) <= S(i).offset
  <2>1. ASSUME NEW i \in 1..n
        PROVE  IsApart(b, i) <=> fits(i) /\ before(i)
    <3>1. S(i).length = S(i).entry_count * S(i).entry_size =>
            (S(i).length > 0 <=> S(i).entry_count # 0 /\ S(i).entry_size # 0)
      BY <1>4, ProductFacts
    <3>2. QED
      BY <3>1 DEF IsApart
  <2>2. (\A i \in 1..n : before(i)) <=> distinct /\ \A i \in 1..n : apart(i)
    <3>1. ASSUME \A i \in 1..n : before(i)
          PROVE  distinct /\ \A i \in 1..n : apart(i)
      <4>1. ASSUME NEW i \in 1..n, NEW j \in 1..n, i # j
            PROVE  S(i).type # S(j).type /\
                   (End(S(i)) <= S(j).offset \/ End(S(j)) <= S(i).offset)
        <5>1. i \in 1..(j - 1) \/ j \in 1..(i - 1)
          BY <4>1, b.section_count \in Nat
        <5>2. QED
          BY <5>1, <3>1
      <4>2. QED
        BY <4>1
    <3>2. ASSUME distinct, \A i \in 1..n : apart(i)
          PROVE  \A i \in 1..n : before(i)
      <4>1. \A i \in 1..n : \A j \in 1..(i - 1) : j \in 1..n /\ i # j
        BY b.section_count \in Nat
      <4>2. QED
        BY <3>2, <4>1
    <3>3. QED
      BY <3>1, <3>2
  <2> HIDE DEF before, fits, distinct, apart
  <2>3. QED
    BY <2>1, <2>2
<1>6. distinct => ((\A i \in 1..n : shaped(i)) <=>
        \A type \in 1..4 : HasSection(b, type) => ValidateShape(Section(b, type), type) = Ok)
  <2> SUFFICES ASSUME distinct
               PROVE  (\A i \in 1..n : shaped(i)) <=>
                        \A type \in 1..4 : HasSection(b, type) =>
                          ValidateShape(Section(b, type), type) = Ok
    OBVIOUS
  <2>1. ASSUME NEW i \in 1..n, S(i).type \in 1..4
        PROVE  /\ HasSection(b, S(i).type)
               /\ Section(b, S(i).type) = S(i)
               /\ ValidateShape(S(i), S(i).type) = Ok <=> shaped(i)
    <3>1. HasSection(b, S(i).type)
      BY DEF HasSection, Find
    <3>2. Section(b, S(i).type) = S(i)
      BY <3>1, FindFacts
    <3>3. ValidateShape(S(i), S(i).type) = Ok <=> shaped(i)
      BY <2>1, <1>4, ShapeFacts
    <3>4. QED
      BY <3>1, <3>2, <3>3
  <2>2. \A i \in 1..n : S(i).type \notin 1..4 => shaped(i)
    BY <1>4
  <2>3. \A type \in 1..4 : HasSection(b, type) => \E i \in 1..n : S(i).type = type
    BY DEF HasSection, Find
  <2> HIDE DEF shaped
  <2>4. QED
    BY <2>1, <2>2, <2>3
<1> HIDE DEF distinct, fits, shaped, apart
<1>7. QED
  BY <1>3, <1>5, <1>6

-----------------------------------------------------------------------------
(* Entries *)

\* A report that, if it is an error, is of the entry e of a section.
IsAbout(r, type, e) == r = Ok \/ (r.section_type = type /\ r.entry_index = e - 1)

\* Reports made for an entry are about it.
LEMMA AboutFacts ==
  \A type, e : /\ IsAbout(Ok, type, e)
               /\ \A result : IsAbout(Report(result, type, e - 1), type, e)
BY DEF IsAbout, Report

\* A name is valid if it has a letter first and an end.
LEMMA NameFacts ==
  ASSUME NEW name \in [1..3 -> {0, 1}]
  PROVE  NameIsValid(name) <=> name \in Names
<1>1. DOMAIN name = 1..3 /\ name[1] \in {0, 1} /\ name[2] \in {0, 1} /\ name[3] \in {0, 1}
  OBVIOUS
<1>2. NameIsValid(name) <=> name[1] # 0 /\ (name[2] = 0 \/ name[3] = 0)
  BY <1>1 DEF NameIsValid
<1>3. name = <<name[1], name[2], name[3]>>
  OBVIOUS
<1>4. name \in Names <=> \/ name[1] = 1 /\ name[2] = 0 /\ name[3] = 0
                         \/ name[1] = 1 /\ name[2] = 0 /\ name[3] = 1
                         \/ name[1] = 1 /\ name[2] = 1 /\ name[3] = 0
  <2>1. ASSUME NEW x, NEW y, NEW z
        PROVE  name = <<x, y, z>> <=> name[1] = x /\ name[2] = y /\ name[3] = z
    BY <1>3
  <2>2. name \in Names <=> name = <<1, 0, 0>> \/ name = <<1, 0, 1>> \/ name = <<1, 1, 0>>
    BY DEF Names
  <2>3. QED
    BY <2>1, <2>2, Zenon
<1>5. QED
  BY <1>1, <1>2, <1>4

\* What is decoded of a section.
EntriesRead(b, type) ==
  \E n \in Nat : /\ DOMAIN Entries(b, type) = 1..n
                 /\ \A e \in 1..n : Entries(b, type)[e].name \in [1..3 -> {0, 1}]

\* The four types of sections.
LEMMA TypesDiffer ==
  /\ FIELD_INPUTS # SIGNALS /\ FIELD_INPUTS # POINTS /\ FIELD_INPUTS # TRACKS
  /\ SIGNALS # POINTS /\ SIGNALS # TRACKS /\ POINTS # TRACKS
BY DEF FIELD_INPUTS, SIGNALS, POINTS, TRACKS

\* An input passes the comparison with those before it exactly if it shares
\* neither its id nor its place with one of them.
LEMMA CompareInputsFacts ==
  ASSUME NEW entries, NEW n \in Nat, DOMAIN entries = 1..n, NEW e \in 1..n
  PROVE  /\ IsAbout(CompareInputs(entries, e), FIELD_INPUTS, e)
         /\ CompareInputs(entries, e) = Ok <=>
              \A c \in 1..(e - 1) :
                /\ entries[c].logical_id # entries[e].logical_id
                /\ \/ entries[c].card_index # entries[e].card_index
                   \/ entries[c].channel_index # entries[e].channel_index
<1> DEFINE id(c) == When(entries[c].logical_id = entries[e].logical_id,
                         Report("DUPLICATE_INPUT_ID", FIELD_INPUTS, e - 1))
           place(c) == When(/\ entries[c].card_index = entries[e].card_index
                            /\ entries[c].channel_index = entries[e].channel_index,
                            Report("DUPLICATE_INPUT_LOCATION", FIELD_INPUTS, e - 1))
           reports == [c \in 1..(e - 1) |-> FirstError(<<id(c), place(c)>>)]
<1>1. CompareInputs(entries, e) = FirstError(reports)
  BY DEF CompareInputs
<1>2. ASSUME NEW c \in 1..(e - 1)
      PROVE  /\ reports[c] = Ok <=>
                  /\ entries[c].logical_id # entries[e].logical_id
                  /\ \/ entries[c].card_index # entries[e].card_index
                     \/ entries[c].channel_index # entries[e].channel_index
             /\ IsAbout(reports[c], FIELD_INPUTS, e)
  <2>1. reports[c] = FirstError(<<id(c), place(c)>>)
    OBVIOUS
  <2>2. id(c) = Ok <=> entries[c].logical_id # entries[e].logical_id
    BY NotOk DEF When
  <2>3. place(c) = Ok <=> \/ entries[c].card_index # entries[e].card_index
                          \/ entries[c].channel_index # entries[e].channel_index
    BY NotOk DEF When
  <2>4. IsAbout(id(c), FIELD_INPUTS, e) /\ IsAbout(place(c), FIELD_INPUTS, e)
    BY AboutFacts DEF When
  <2> HIDE DEF reports, id, place
  <2>5. reports[c] = Ok <=> id(c) = Ok /\ place(c) = Ok
    BY <2>1, TwoReports
  <2>6. reports[c] \in {Ok, id(c), place(c)}
    BY <2>1, TwoReports
  <2>7. QED
    BY <2>2, <2>3, <2>4, <2>5, <2>6, AboutFacts
<1>3. e - 1 \in Nat /\ DOMAIN reports = 1..(e - 1)
  OBVIOUS
<1> HIDE DEF reports, id, place
<1>4. CompareInputs(entries, e) = Ok <=> \A c \in 1..(e - 1) : reports[c] = Ok
  BY <1>1, <1>3, FirstErrorFacts
<1>5. CompareInputs(entries, e) # Ok => \E c \in 1..(e - 1) : CompareInputs(entries, e) = reports[c]
  BY <1>1, <1>3, FirstErrorFacts
<1>6. IsAbout(CompareInputs(entries, e), FIELD_INPUTS, e)
  BY <1>2, <1>5, AboutFacts
<1>7. QED
  BY <1>2, <1>4, <1>6

\* A field input passes its checks exactly if it is good.
LEMMA InputFacts ==
  ASSUME NEW b, EntriesRead(b, FIELD_INPUTS), NEW e \in DOMAIN Entries(b, FIELD_INPUTS)
  PROVE  /\ IsAbout(ValidateEntry(b, FIELD_INPUTS, e), FIELD_INPUTS, e)
         /\ ValidateEntry(b, FIELD_INPUTS, e) = Ok <=> EntryIsGood(b, FIELD_INPUTS, e)
<1> DEFINE entries == Entries(b, FIELD_INPUTS)
           n == entries[e]
           r1 == When(n.logical_id = 0, Report("INPUT_ID", FIELD_INPUTS, e - 1))
           r2 == When(n.card_index \notin Cards \/ n.channel_index \notin Channels,
                      Report("INPUT_LOCATION", FIELD_INPUTS, e - 1))
           r3 == When(n.type \notin InputTypes, Report("INPUT_TYPE", FIELD_INPUTS, e - 1))
           r4 == When(n.encoding \notin InputEncodings,
                      Report("INPUT_ENCODING", FIELD_INPUTS, e - 1))
           r5 == When(~NameIsValid(n.name), Report("INPUT_NAME", FIELD_INPUTS, e - 1))
           r6 == When(n.flags # 0, Report("INPUT_FLAGS", FIELD_INPUTS, e - 1))
           r7 == CompareInputs(entries, e)
<1>1. ValidateEntry(b, FIELD_INPUTS, e) = FirstError(<<r1, r2, r3, r4, r5, r6, r7>>)
  BY TypesDiffer DEF ValidateEntry, ValidateInput
<1>2. /\ r1 = Ok <=> n.logical_id # 0
      /\ r2 = Ok <=> n.card_index \in Cards /\ n.channel_index \in Channels
      /\ r3 = Ok <=> n.type \in InputTypes
      /\ r4 = Ok <=> n.encoding \in InputEncodings
      /\ r5 = Ok <=> NameIsValid(n.name)
      /\ r6 = Ok <=> n.flags = 0
  BY NotOk DEF When
<1>3. /\ IsAbout(r1, FIELD_INPUTS, e) /\ IsAbout(r2, FIELD_INPUTS, e)
      /\ IsAbout(r3, FIELD_INPUTS, e) /\ IsAbout(r4, FIELD_INPUTS, e)
      /\ IsAbout(r5, FIELD_INPUTS, e) /\ IsAbout(r6, FIELD_INPUTS, e)
  BY AboutFacts DEF When
<1>4. PICK k \in Nat : DOMAIN entries = 1..k /\ \A c \in 1..k : entries[c].name \in [1..3 -> {0, 1}]
  BY DEF EntriesRead
<1>5. NameIsValid(n.name) <=> n.name \in Names
  BY <1>4, NameFacts
<1>6. /\ IsAbout(r7, FIELD_INPUTS, e)
      /\ r7 = Ok <=> \A c \in 1..(e - 1) :
                       /\ entries[c].logical_id # n.logical_id
                       /\ \/ entries[c].card_index # n.card_index
                          \/ entries[c].channel_index # n.channel_index
  BY <1>4, CompareInputsFacts
<1>7. EntryIsGood(b, FIELD_INPUTS, e) <=>
        /\ n.logical_id # 0 /\ n.flags = 0 /\ n.name \in Names
        /\ n.card_index \in Cards /\ n.channel_index \in Channels
        /\ n.type \in InputTypes /\ n.encoding \in InputEncodings
        /\ \A c \in 1..(e - 1) :
             /\ entries[c].logical_id # n.logical_id
             /\ \/ entries[c].card_index # n.card_index
                \/ entries[c].channel_index # n.channel_index
  BY TypesDiffer DEF EntryIsGood, FieldsAreGood, Id, References
<1> HIDE DEF r1, r2, r3, r4, r5, r6, r7, entries, n
<1>8. ValidateEntry(b, FIELD_INPUTS, e) = Ok <=>
        r1 = Ok /\ r2 = Ok /\ r3 = Ok /\ r4 = Ok /\ r5 = Ok /\ r6 = Ok /\ r7 = Ok
  BY <1>1, SevenReports
<1>9. ValidateEntry(b, FIELD_INPUTS, e) \in {Ok, r1, r2, r3, r4, r5, r6, r7}
  BY <1>1, SevenReports
<1>10. QED
  BY <1>2, <1>3, <1>5, <1>6, <1>7, <1>8, <1>9, AboutFacts

\* What the entries of one section rely on in another one: the inputs are good.
InputsAreGood(b) ==
  /\ EntriesRead(b, FIELD_INPUTS)
  /\ \A e \in DOMAIN Entries(b, FIELD_INPUTS) : EntryIsGood(b, FIELD_INPUTS, e)

\* Good inputs share neither ids nor places.
LEMMA DistinctInputs ==
  ASSUME NEW b, InputsAreGood(b)
  PROVE  \A i, j \in DOMAIN Entries(b, FIELD_INPUTS) :
           LET m == Entries(b, FIELD_INPUTS)[i]
               n == Entries(b, FIELD_INPUTS)[j]
           IN \/ m.logical_id = n.logical_id
              \/ m.card_index = n.card_index /\ m.channel_index = n.channel_index
              => i = j
<1> DEFINE entries == Entries(b, FIELD_INPUTS)
<1>1. PICK k \in Nat : DOMAIN entries = 1..k
  BY DEF InputsAreGood, EntriesRead
<1>2. \A e \in 1..k : \A c \in 1..(e - 1) :
        /\ entries[c].logical_id # entries[e].logical_id
        /\ \/ entries[c].card_index # entries[e].card_index
           \/ entries[c].channel_index # entries[e].channel_index
  BY <1>1, TypesDiffer DEF InputsAreGood, EntryIsGood, Id
<1>3. \A i, j \in 1..k : i # j => i \in 1..(j - 1) \/ j \in 1..(i - 1)
  OBVIOUS
<1> HIDE DEF entries
<1>4. QED
  BY <1>1, <1>2, <1>3 DEF entries

\* A reference to the first input of an id is to the only one.
LEMMA RefersFacts ==
  ASSUME NEW b, InputsAreGood(b), NEW id, NEW type
  PROVE  LET inputs == Entries(b, FIELD_INPUTS)
         IN RefersTo(b, id, type) <=>
              \E i \in DOMAIN inputs : inputs[i].logical_id = id /\ inputs[i].type = type
<1> DEFINE inputs == Entries(b, FIELD_INPUTS)
<1>1. PICK k \in Nat : DOMAIN inputs = 1..k
  BY DEF InputsAreGood, EntriesRead
<1>2. InputsOf(b, id) # {} => Min(InputsOf(b, id)) \in InputsOf(b, id)
  <2>1. InputsOf(b, id) \subseteq Nat
    BY <1>1 DEF InputsOf
  <2>2. QED
    BY <2>1, MinFacts
<1>3. \A i, j \in InputsOf(b, id) : i = j
  BY DistinctInputs DEF InputsOf
<1>4. QED
  BY <1>2, <1>3 DEF RefersTo, InputOf, InputsOf

\* A signal passes its checks exactly if it is good.
LEMMA SignalFacts ==
  ASSUME NEW b, InputsAreGood(b), EntriesRead(b, SIGNALS), NEW e \in DOMAIN Entries(b, SIGNALS)
  PROVE  /\ IsAbout(ValidateEntry(b, SIGNALS, e), SIGNALS, e)
         /\ ValidateEntry(b, SIGNALS, e) = Ok <=> EntryIsGood(b, SIGNALS, e)
<1> DEFINE entries == Entries(b, SIGNALS)
           inputs == Entries(b, FIELD_INPUTS)
           n == entries[e]
           r1 == When(n.signal_id = 0,
                      Report("OBJECT_ID", SIGNALS, e - 1))
           r2 == When(n.flags # 0,
                      Report("OBJECT_FLAGS", SIGNALS, e - 1))
           r3 == When(~NameIsValid(n.name),
                      Report("OBJECT_NAME", SIGNALS, e - 1))
           r4 == When(\/ Relays(n) = {}
                      \/ \E id \in Relays(n) : ~RefersTo(b, id, SIGNAL_RELAY),
                      Report("OBJECT_REFERENCE", SIGNALS, e - 1))
           r5 == When(\E c \in 1..(e - 1) : entries[c].signal_id = n.signal_id,
                      Report("DUPLICATE_OBJECT_ID", SIGNALS, e - 1))
<1>1. ValidateEntry(b, SIGNALS, e) = FirstError(<<r1, r2, r3, r4, r5>>)
  BY TypesDiffer DEF ValidateEntry, ValidateSignal
<1>2. /\ r1 = Ok <=> n.signal_id # 0
      /\ r2 = Ok <=> n.flags = 0
      /\ r3 = Ok <=> NameIsValid(n.name)
      /\ r4 = Ok <=> Relays(n) # {} /\ \A id \in Relays(n) : RefersTo(b, id, SIGNAL_RELAY)
      /\ r5 = Ok <=> \A c \in 1..(e - 1) : entries[c].signal_id # n.signal_id
  BY NotOk DEF When
<1>3. /\ IsAbout(r1, SIGNALS, e)
      /\ IsAbout(r2, SIGNALS, e)
      /\ IsAbout(r3, SIGNALS, e)
      /\ IsAbout(r4, SIGNALS, e)
      /\ IsAbout(r5, SIGNALS, e)
  BY AboutFacts DEF When
<1>4. NameIsValid(n.name) <=> n.name \in Names
  BY NameFacts DEF EntriesRead
<1>5. \A id, type : RefersTo(b, id, type) <=>
        \E i \in DOMAIN inputs : inputs[i].logical_id = id /\ inputs[i].type = type
  BY RefersFacts
<1>6. EntryIsGood(b, SIGNALS, e) <=>
        /\ n.signal_id # 0 /\ n.flags = 0 /\ n.name \in Names /\ Relays(n) # {}
        /\ \A id \in Relays(n) : \E i \in DOMAIN inputs :
             inputs[i].logical_id = id /\ inputs[i].type = SIGNAL_RELAY
        /\ \A c \in 1..(e - 1) : entries[c].signal_id # n.signal_id
  <2>1. EntryIsGood(b, SIGNALS, e) <=>
          /\ FieldsAreGood(SIGNALS, n)
          /\ \A r \in References(SIGNALS, n) :
               \E i \in DOMAIN inputs : inputs[i].logical_id = r[1] /\ inputs[i].type = r[2]
          /\ \A c \in 1..(e - 1) : Id(SIGNALS, entries[c]) # Id(SIGNALS, n)
    BY TypesDiffer, Zenon DEF EntryIsGood
  <2>2. \A m : Id(SIGNALS, m) = m.signal_id
    BY TypesDiffer DEF Id
  <2>3. FieldsAreGood(SIGNALS, n) <=>
          n.signal_id # 0 /\ n.flags = 0 /\ n.name \in Names /\ Relays(n) # {}
    BY <2>2, TypesDiffer DEF FieldsAreGood
  <2>4. References(SIGNALS, n) = {<<id, SIGNAL_RELAY>> : id \in Relays(n)}
    BY TypesDiffer DEF References
  <2>5. (\A r \in References(SIGNALS, n) :
           \E i \in DOMAIN inputs : inputs[i].logical_id = r[1] /\ inputs[i].type = r[2]) <=>
        \A id \in Relays(n) : \E i \in DOMAIN inputs :
          inputs[i].logical_id = id /\ inputs[i].type = SIGNAL_RELAY
    <3> DEFINE relays == Relays(n)
               found(id, type) == \E i \in DOMAIN inputs :
                                    inputs[i].logical_id = id /\ inputs[i].type = type
    <3>1. \A r \in References(SIGNALS, n) : \E id \in relays : r = <<id, SIGNAL_RELAY>>
      BY <2>4
    <3>2. \A id \in relays : <<id, SIGNAL_RELAY>> \in References(SIGNALS, n)
      BY <2>4
    <3>3. \A id : <<id, SIGNAL_RELAY>>[1] = id /\ <<id, SIGNAL_RELAY>>[2] = SIGNAL_RELAY
      OBVIOUS
    <3> HIDE DEF inputs, n, relays, found
    <3>4. (\A r \in References(SIGNALS, n) : found(r[1], r[2])) <=>
            \A id \in relays : found(id, SIGNAL_RELAY)
      BY <3>1, <3>2, <3>3
    <3>5. QED
      BY <3>4 DEF found, relays
  <2> HIDE DEF inputs, n, entries
  <2>6. QED
    BY <2>1, <2>2, <2>3, <2>5
<1> HIDE DEF r1, r2, r3, r4, r5, entries, n, inputs
<1>7. ValidateEntry(b, SIGNALS, e) = Ok <=>
        r1 = Ok /\ r2 = Ok /\ r3 = Ok /\ r4 = Ok /\ r5 = Ok
  BY <1>1, FiveReports
<1>8. ValidateEntry(b, SIGNALS, e) \in {Ok, r1, r2, r3, r4, r5}
  BY <1>1, FiveReports
<1>9. ValidateEntry(b, SIGNALS, e) = Ok <=> EntryIsGood(b, SIGNALS, e)
  BY <1>2, <1>4, <1>5, <1>6, <1>7
<1>10. QED
  BY <1>3, <1>8, <1>9, AboutFacts

\* A point passes its checks exactly if it is good: an end without an input
\* would refer to the id 0, which no good input has.
LEMMA PointFacts ==
  ASSUME NEW b, InputsAreGood(b), EntriesRead(b, POINTS), NEW e \in DOMAIN Entries(b, POINTS)
  PROVE  /\ IsAbout(ValidateEntry(b, POINTS, e), POINTS, e)
         /\ ValidateEntry(b, POINTS, e) = Ok <=> EntryIsGood(b, POINTS, e)
<1> DEFINE entries == Entries(b, POINTS)
           inputs == Entries(b, FIELD_INPUTS)
           n == entries[e]
           r1 == When(n.point_id = 0,
                      Report("OBJECT_ID", POINTS, e - 1))
           r2 == When(\/ n.end_a_input_id = 0 \/ n.end_b_input_id = 0
                      \/ n.end_a_input_id = n.end_b_input_id,
                      Report("OBJECT_REFERENCE", POINTS, e - 1))
           r3 == When(n.flags # 0,
                      Report("OBJECT_FLAGS", POINTS, e - 1))
           r4 == When(~NameIsValid(n.name),
                      Report("OBJECT_NAME", POINTS, e - 1))
           r5 == When(\E id \in {n.end_a_input_id, n.end_b_input_id} :
                        ~RefersTo(b, id, POINT_POSITION),
                      Report("OBJECT_REFERENCE", POINTS, e - 1))
           r6 == When(\E c \in 1..(e - 1) : entries[c].point_id = n.point_id,
                      Report("DUPLICATE_OBJECT_ID", POINTS, e - 1))
<1>1. ValidateEntry(b, POINTS, e) = FirstError(<<r1, r2, r3, r4, r5, r6>>)
  BY TypesDiffer DEF ValidateEntry, ValidatePoint
<1>2. /\ r1 = Ok <=> n.point_id # 0
      /\ r2 = Ok <=> /\ n.end_a_input_id # 0 /\ n.end_b_input_id # 0
                     /\ n.end_a_input_id # n.end_b_input_id
      /\ r3 = Ok <=> n.flags = 0
      /\ r4 = Ok <=> NameIsValid(n.name)
      /\ r5 = Ok <=> /\ RefersTo(b, n.end_a_input_id, POINT_POSITION)
                     /\ RefersTo(b, n.end_b_input_id, POINT_POSITION)
      /\ r6 = Ok <=> \A c \in 1..(e - 1) : entries[c].point_id # n.point_id
  BY NotOk DEF When
<1>3. /\ IsAbout(r1, POINTS, e)
      /\ IsAbout(r2, POINTS, e)
      /\ IsAbout(r3, POINTS, e)
      /\ IsAbout(r4, POINTS, e)
      /\ IsAbout(r5, POINTS, e)
      /\ IsAbout(r6, POINTS, e)
  BY AboutFacts DEF When
<1>4. NameIsValid(n.name) <=> n.name \in Names
  BY NameFacts DEF EntriesRead
<1>5. \A id, type : RefersTo(b, id, type) <=>
        \E i \in DOMAIN inputs : inputs[i].logical_id = id /\ inputs[i].type = type
  BY RefersFacts
<1>6. \A i \in DOMAIN inputs : inputs[i].logical_id # 0
  BY TypesDiffer DEF InputsAreGood, EntryIsGood, FieldsAreGood, Id
<1>7. EntryIsGood(b, POINTS, e) <=>
        /\ n.point_id # 0 /\ n.flags = 0 /\ n.name \in Names
        /\ n.end_a_input_id # n.end_b_input_id
        /\ \A id \in {n.end_a_input_id, n.end_b_input_id} : \E i \in DOMAIN inputs :
             inputs[i].logical_id = id /\ inputs[i].type = POINT_POSITION
        /\ \A c \in 1..(e - 1) : entries[c].point_id # n.point_id
  <2>1. EntryIsGood(b, POINTS, e) <=>
          /\ FieldsAreGood(POINTS, n)
          /\ \A r \in References(POINTS, n) :
               \E i \in DOMAIN inputs : inputs[i].logical_id = r[1] /\ inputs[i].type = r[2]
          /\ \A c \in 1..(e - 1) : Id(POINTS, entries[c]) # Id(POINTS, n)
    BY TypesDiffer, Zenon DEF EntryIsGood
  <2>2. \A m : Id(POINTS, m) = m.point_id
    BY TypesDiffer DEF Id
  <2>3. FieldsAreGood(POINTS, n) <=>
          /\ n.point_id # 0 /\ n.flags = 0 /\ n.name \in Names
          /\ n.end_a_input_id # n.end_b_input_id
    BY <2>2, TypesDiffer DEF FieldsAreGood
  <2>4. References(POINTS, n) = {<<n.end_a_input_id, POINT_POSITION>>,
                                 <<n.end_b_input_id, POINT_POSITION>>}
    BY TypesDiffer DEF References
  <2>5. (\A r \in References(POINTS, n) :
           \E i \in DOMAIN inputs : inputs[i].logical_id = r[1] /\ inputs[i].type = r[2]) <=>
        \A id \in {n.end_a_input_id, n.end_b_input_id} : \E i \in DOMAIN inputs :
          inputs[i].logical_id = id /\ inputs[i].type = POINT_POSITION
    <3> HIDE DEF inputs, n
    <3> QED BY <2>4
  <2> HIDE DEF inputs, n, entries
  <2>6. QED
    BY <2>1, <2>2, <2>3, <2>5
<1> HIDE DEF r1, r2, r3, r4, r5, r6, entries, n, inputs
<1>8. ValidateEntry(b, POINTS, e) = Ok <=>
        r1 = Ok /\ r2 = Ok /\ r3 = Ok /\ r4 = Ok /\ r5 = Ok /\ r6 = Ok
  BY <1>1, SixReports
<1>9. ValidateEntry(b, POINTS, e) \in {Ok, r1, r2, r3, r4, r5, r6}
  BY <1>1, SixReports
<1>10. ValidateEntry(b, POINTS, e) = Ok <=> EntryIsGood(b, POINTS, e)
  BY <1>2, <1>4, <1>5, <1>6, <1>7, <1>8
<1>11. QED
  BY <1>3, <1>9, <1>10, AboutFacts

\* A track passes its checks exactly if it is good.
LEMMA TrackFacts ==
  ASSUME NEW b, InputsAreGood(b), EntriesRead(b, TRACKS), NEW e \in DOMAIN Entries(b, TRACKS)
  PROVE  /\ IsAbout(ValidateEntry(b, TRACKS, e), TRACKS, e)
         /\ ValidateEntry(b, TRACKS, e) = Ok <=> EntryIsGood(b, TRACKS, e)
<1> DEFINE entries == Entries(b, TRACKS)
           inputs == Entries(b, FIELD_INPUTS)
           n == entries[e]
           r1 == When(n.track_id = 0,
                      Report("OBJECT_ID", TRACKS, e - 1))
           r2 == When(n.input_id = 0 \/ InputsOf(b, n.input_id) = {},
                      Report("OBJECT_REFERENCE", TRACKS, e - 1))
           r3 == When(\/ n.kind \notin DOMAIN TrackInput
                      \/ ~RefersTo(b, n.input_id, TrackInput[n.kind]),
                      Report("OBJECT_TYPE", TRACKS, e - 1))
           r4 == When(n.flags # 0,
                      Report("OBJECT_FLAGS", TRACKS, e - 1))
           r5 == When(~NameIsValid(n.name),
                      Report("OBJECT_NAME", TRACKS, e - 1))
           r6 == When(\E c \in 1..(e - 1) : entries[c].track_id = n.track_id,
                      Report("DUPLICATE_OBJECT_ID", TRACKS, e - 1))
<1>1. ValidateEntry(b, TRACKS, e) = FirstError(<<r1, r2, r3, r4, r5, r6>>)
  BY TypesDiffer DEF ValidateEntry, ValidateTrack
<1>2. /\ r1 = Ok <=> n.track_id # 0
      /\ r2 = Ok <=> n.input_id # 0 /\ InputsOf(b, n.input_id) # {}
      /\ r3 = Ok <=> /\ n.kind \in DOMAIN TrackInput
                     /\ RefersTo(b, n.input_id, TrackInput[n.kind])
      /\ r4 = Ok <=> n.flags = 0
      /\ r5 = Ok <=> NameIsValid(n.name)
      /\ r6 = Ok <=> \A c \in 1..(e - 1) : entries[c].track_id # n.track_id
  BY NotOk DEF When
<1>3. /\ IsAbout(r1, TRACKS, e)
      /\ IsAbout(r2, TRACKS, e)
      /\ IsAbout(r3, TRACKS, e)
      /\ IsAbout(r4, TRACKS, e)
      /\ IsAbout(r5, TRACKS, e)
      /\ IsAbout(r6, TRACKS, e)
  BY AboutFacts DEF When
<1>4. NameIsValid(n.name) <=> n.name \in Names
  BY NameFacts DEF EntriesRead
<1>5. \A id, type : RefersTo(b, id, type) <=>
        \E i \in DOMAIN inputs : inputs[i].logical_id = id /\ inputs[i].type = type
  BY RefersFacts
<1>6. \A i \in DOMAIN inputs : inputs[i].logical_id # 0
  BY TypesDiffer DEF InputsAreGood, EntryIsGood, FieldsAreGood, Id
<1>7. \A id : InputsOf(b, id) # {} <=> \E i \in DOMAIN inputs : inputs[i].logical_id = id
  BY DEF InputsOf
<1>8. EntryIsGood(b, TRACKS, e) <=>
        /\ n.track_id # 0 /\ n.flags = 0 /\ n.name \in Names /\ n.kind \in DOMAIN TrackInput
        /\ \E i \in DOMAIN inputs :
             inputs[i].logical_id = n.input_id /\ inputs[i].type = TrackInput[n.kind]
        /\ \A c \in 1..(e - 1) : entries[c].track_id # n.track_id
  <2>1. EntryIsGood(b, TRACKS, e) <=>
          /\ FieldsAreGood(TRACKS, n)
          /\ \A r \in References(TRACKS, n) :
               \E i \in DOMAIN inputs : inputs[i].logical_id = r[1] /\ inputs[i].type = r[2]
          /\ \A c \in 1..(e - 1) : Id(TRACKS, entries[c]) # Id(TRACKS, n)
    BY TypesDiffer, Zenon DEF EntryIsGood
  <2>2. \A m : Id(TRACKS, m) = m.track_id
    BY TypesDiffer DEF Id
  <2>3. FieldsAreGood(TRACKS, n) <=>
          /\ n.track_id # 0 /\ n.flags = 0 /\ n.name \in Names
          /\ n.kind \in DOMAIN TrackInput
    BY <2>2, TypesDiffer DEF FieldsAreGood
  <2>4. References(TRACKS, n) = {<<n.input_id, TrackInput[n.kind]>>}
    BY TypesDiffer DEF References
  <2>5. (\A r \in References(TRACKS, n) :
           \E i \in DOMAIN inputs : inputs[i].logical_id = r[1] /\ inputs[i].type = r[2]) <=>
        \E i \in DOMAIN inputs :
          inputs[i].logical_id = n.input_id /\ inputs[i].type = TrackInput[n.kind]
    <3> HIDE DEF inputs, n
    <3> QED BY <2>4
  <2> HIDE DEF inputs, n, entries
  <2>6. QED
    BY <2>1, <2>2, <2>3, <2>5
<1> HIDE DEF r1, r2, r3, r4, r5, r6, entries, n, inputs
<1>9. ValidateEntry(b, TRACKS, e) = Ok <=>
        r1 = Ok /\ r2 = Ok /\ r3 = Ok /\ r4 = Ok /\ r5 = Ok /\ r6 = Ok
  BY <1>1, SixReports
<1>10. ValidateEntry(b, TRACKS, e) \in {Ok, r1, r2, r3, r4, r5, r6}
  BY <1>1, SixReports
<1>11. ValidateEntry(b, TRACKS, e) = Ok <=> EntryIsGood(b, TRACKS, e)
  BY <1>2, <1>4, <1>5, <1>6, <1>7, <1>8, <1>9
<1>12. QED
  BY <1>3, <1>10, <1>11, AboutFacts

-----------------------------------------------------------------------------
(* The verdict *)

\* An entry of any section, likewise.
LEMMA EntryFacts ==
  ASSUME NEW b, NEW type \in 1..4, EntriesRead(b, type),
         type = FIELD_INPUTS \/ InputsAreGood(b),
         NEW e \in DOMAIN Entries(b, type)
  PROVE  /\ IsAbout(ValidateEntry(b, type, e), type, e)
         /\ ValidateEntry(b, type, e) = Ok <=> EntryIsGood(b, type, e)
<1>1. CASE type = FIELD_INPUTS
  BY <1>1, InputFacts
<1>2. CASE type = SIGNALS
  BY <1>2, TypesDiffer, SignalFacts
<1>3. CASE type = POINTS
  BY <1>3, TypesDiffer, PointFacts
<1>4. CASE type = TRACKS
  BY <1>4, TypesDiffer, TrackFacts
<1>5. QED
  BY <1>1, <1>2, <1>3, <1>4 DEF FIELD_INPUTS, SIGNALS, POINTS, TRACKS

\* The report of the entries of a section names the first bad one.
NamesFirst(b, type, r) ==
  \E e \in DOMAIN Entries(b, type) :
    /\ r.section_type = type /\ r.entry_index = e - 1
    /\ ~EntryIsGood(b, type, e)
    /\ \A c \in 1..(e - 1) : EntryIsGood(b, type, c)

\* The entries of a section pass exactly if all are good, and if not, the first
\* bad one is named.
LEMMA EntriesFacts ==
  ASSUME NEW b, NEW type \in 1..4, EntriesRead(b, type),
         type = FIELD_INPUTS \/ InputsAreGood(b),
         type = FIELD_INPUTS => HasSection(b, type),
         HasSection(b, type) => ValidateShape(Section(b, type), type) = Ok
  PROVE  LET r == ValidateEntries(b, type)
         IN /\ r = Ok <=> \A e \in DOMAIN Entries(b, type) : EntryIsGood(b, type, e)
            /\ r # Ok => NamesFirst(b, type, r)
<1> DEFINE r == ValidateEntries(b, type)
           reports == [e \in DOMAIN Entries(b, type) |-> ValidateEntry(b, type, e)]
<1>1. CASE ~HasSection(b, type)
  <2>1. r = Ok
    BY <1>1 DEF ValidateEntries, When
  <2>2. DOMAIN Entries(b, type) = {}
    BY <1>1 DEF Entries
  <2>3. QED
    BY <2>1, <2>2
<1>2. CASE HasSection(b, type)
  <2>1. r = FirstError(reports)
    BY <1>2 DEF ValidateEntries
  <2>2. PICK n \in Nat : DOMAIN Entries(b, type) = 1..n
    BY DEF EntriesRead
  <2>3. DOMAIN reports = 1..n
    BY <2>2
  <2>4. \A e \in 1..n : /\ IsAbout(reports[e], type, e)
                        /\ reports[e] = Ok <=> EntryIsGood(b, type, e)
    BY <2>2, EntryFacts
  <2> HIDE DEF reports, r
  <2>5. r = Ok <=> \A e \in 1..n : reports[e] = Ok
    BY <2>1, <2>3, FirstErrorFacts
  <2>6. ASSUME r # Ok
        PROVE  NamesFirst(b, type, r)
    <3>1. PICK e \in 1..n : /\ reports[e] # Ok /\ r = reports[e]
                            /\ \A c \in 1..(e - 1) : reports[c] = Ok
      BY <2>1, <2>3, <2>6, FirstErrorFacts
    <3>2. \A c \in 1..(e - 1) : c \in 1..n
      OBVIOUS
    <3>3. QED
      BY <2>2, <2>4, <3>1, <3>2 DEF NamesFirst, IsAbout
  <2>7. QED
    BY <2>2, <2>4, <2>5, <2>6 DEF r
<1>3. QED
  BY <1>1, <1>2

\* What is decoded has the types that the checks rely on.
LEMMA DecodedFacts ==
  ASSUME NEW b, IsDecoded(b)
  PROVE  /\ b.section_count \in Nat /\ b.header_size \in Nat /\ b.total_size \in Nat
         /\ HeaderIsGood(b) => SectionTypes(b)
         /\ ValidateHeader(b) = Ok /\ ValidateSections(b) = Ok =>
              \A type \in 1..4 : EntriesRead(b, type)
<1>1. /\ b.section_count \in Nat /\ b.header_size \in Nat /\ b.total_size \in Nat
      /\ HeaderIsGood(b) => SectionTypes(b)
  BY DEF IsDecoded, SectionTypes
<1>2. ASSUME ValidateHeader(b) = Ok, ValidateSections(b) = Ok, NEW type \in 1..4
      PROVE  EntriesRead(b, type)
  <2>1. CASE ~HasSection(b, type)
    <3>1. Entries(b, type) = <<>>
      BY <2>1 DEF Entries
    <3>2. 0 \in Nat /\ DOMAIN Entries(b, type) = 1..0
      BY <3>1
    <3>3. QED
      BY <3>2 DEF EntriesRead
  <2>2. CASE HasSection(b, type)
    <3>1. /\ DOMAIN Entries(b, type) = 1..Section(b, type).entry_count
          /\ \A e \in 1..Section(b, type).entry_count :
               Entries(b, type)[e].name \in [1..3 -> {0, 1}]
      BY <1>2, <2>2 DEF IsDecoded, Entries
    <3>2. Section(b, type).entry_count \in Nat
      <4>1. HeaderIsGood(b)
        BY <1>2, HeaderFacts
      <4>2. QED
        BY <1>1, <2>2, <4>1, FindFacts DEF SectionTypes
    <3>3. QED
      BY <3>1, <3>2 DEF EntriesRead
  <2>3. QED
    BY <2>1, <2>2
<1>3. QED
  BY <1>1, <1>2

\* A good header and directory pass the first two steps of the validation.
LEMMA DirectoryPasses ==
  ASSUME NEW b, IsDecoded(b)
  PROVE  HeaderIsGood(b) /\ DirectoryIsGood(b) <=>
           /\ ValidateHeader(b) = Ok /\ ValidateSections(b) = Ok
           /\ HasSection(b, FIELD_INPUTS)
           /\ \A type \in 1..4 : HasSection(b, type) => ValidateShape(Section(b, type), type) = Ok
<1>1. ASSUME HeaderIsGood(b), DirectoryIsGood(b)
      PROVE  b.total_size >= ExpectedHeaderSize(b)
  <2>1. b.section_count \in 1..16 /\ b.header_size = ExpectedHeaderSize(b)
    BY <1>1 DEF HeaderIsGood, ExpectedHeaderSize
  <2>2. SectionTypes(b)
    BY <1>1, DecodedFacts
  <2>3. IsApart(b, 1)
    BY <1>1, <2>1, <2>2, DecodedFacts, DirectoryFacts
  <2>4. /\ b.header_size <= b.sections[1].offset
        /\ b.sections[1].offset + b.sections[1].length <= b.total_size
    BY <2>3 DEF IsApart, End
  <2>5. b.sections[1].offset \in Nat /\ b.sections[1].length \in Nat
    BY <2>1, <2>2 DEF SectionTypes
  <2>6. b.header_size \in Nat /\ b.total_size \in Nat
    BY DecodedFacts
  <2>7. QED
    BY <2>1, <2>4, <2>5, <2>6
<1>2. HeaderIsGood(b) =>
        /\ ValidateSections(b) = Ok <=> \A i \in 1..b.section_count : IsApart(b, i)
        /\ DirectoryIsGood(b) <=>
             /\ \A i \in 1..b.section_count : IsApart(b, i)
             /\ HasSection(b, FIELD_INPUTS)
             /\ \A type \in 1..4 : HasSection(b, type) => ValidateShape(Section(b, type), type) = Ok
  BY DecodedFacts, SectionsFacts, DirectoryFacts
<1>3. ValidateHeader(b) = Ok <=> HeaderIsGood(b) /\ b.total_size >= ExpectedHeaderSize(b)
  BY HeaderFacts
<1>4. QED
  BY <1>1, <1>2, <1>3

\* A blob that is accepted passed every step.
LEMMA ShapesPass ==
  ASSUME NEW b, Validate(b) = Ok
  PROVE  /\ ValidateHeader(b) = Ok /\ ValidateSections(b) = Ok
         /\ HasSection(b, FIELD_INPUTS)
         /\ \A type \in 1..4 : HasSection(b, type) => ValidateShape(Section(b, type), type) = Ok
<1> DEFINE reports == [type \in 1..4 |-> ValidateEntries(b, type)]
<1>1. ValidateHeader(b) = Ok /\ ValidateSections(b) = Ok /\ FirstError(reports) = Ok
  BY DEF Validate
<1>2. \A type \in 1..4 : ValidateEntries(b, type) = Ok
  <2>1. /\ 4 \in Nat /\ DOMAIN reports = 1..4
        /\ \A type \in 1..4 : reports[type] = ValidateEntries(b, type)
    OBVIOUS
  <2> HIDE DEF reports
  <2>2. QED
    BY <1>1, <2>1, FirstErrorFacts
<1>3. FIELD_INPUTS \in 1..4
  BY DEF FIELD_INPUTS
<1>4. QED
  BY <1>1, <1>2, <1>3, NotOk DEF ValidateEntries, When

\* If header and directory are good, the entries decide, and the first bad one,
\* by type and by place, is named.
LEMMA FaultFacts ==
  ASSUME NEW b, IsDecoded(b), HeaderIsGood(b), DirectoryIsGood(b)
  PROVE  LET r == Validate(b)
         IN /\ r = Ok <=> BadEntries(b) = {}
            /\ r # Ok => /\ <<r.section_type, r.entry_index + 1>> \in BadEntries(b)
                         /\ \A bad \in BadEntries(b) :
                              \/ bad[1] > r.section_type
                              \/ bad[1] = r.section_type /\ bad[2] > r.entry_index
<1> DEFINE r == Validate(b)
           reports == [type \in 1..4 |-> ValidateEntries(b, type)]
           good(type) == \A e \in DOMAIN Entries(b, type) : EntryIsGood(b, type, e)
<1>1. /\ ValidateHeader(b) = Ok /\ ValidateSections(b) = Ok
      /\ HasSection(b, FIELD_INPUTS)
      /\ \A type \in 1..4 : HasSection(b, type) => ValidateShape(Section(b, type), type) = Ok
  BY DirectoryPasses
<1>2. r = FirstError(reports)
  BY <1>1 DEF Validate
<1>3. \A type \in 1..4 : EntriesRead(b, type)
  BY <1>1, DecodedFacts
<1>4. FIELD_INPUTS = 1
  BY DEF FIELD_INPUTS
<1>5. /\ reports[1] = Ok <=> good(1)
      /\ reports[1] # Ok => NamesFirst(b, 1, reports[1])
  BY <1>1, <1>3, <1>4, EntriesFacts
<1>6. good(1) => InputsAreGood(b)
  BY <1>3, <1>4 DEF InputsAreGood
<1>7. ASSUME good(1), NEW type \in 1..4
      PROVE  /\ reports[type] = Ok <=> good(type)
             /\ reports[type] # Ok => NamesFirst(b, type, reports[type])
  BY <1>1, <1>3, <1>4, <1>6, <1>7, EntriesFacts
<1>8. 4 \in Nat /\ DOMAIN reports = 1..4
  OBVIOUS
<1>9. \A type, e : <<type, e>> \in BadEntries(b) <=>
        type \in 1..4 /\ e \in DOMAIN Entries(b, type) /\ ~EntryIsGood(b, type, e)
  BY DEF BadEntries
<1>10. \A bad \in BadEntries(b) : bad = <<bad[1], bad[2]>>
  BY DEF BadEntries
<1> HIDE DEF reports
<1>11. r = Ok <=> \A type \in 1..4 : reports[type] = Ok
  <2> HIDE DEF r
  <2> QED BY <1>2, <1>8, FirstErrorFacts
<1>12. r = Ok <=> BadEntries(b) = {}
  <2>1. r = Ok <=> \A type \in 1..4 : good(type)
    BY <1>5, <1>7, <1>11
  <2>2. BadEntries(b) = {} <=> \A type \in 1..4 : good(type)
    <3>1. ASSUME BadEntries(b) = {}, NEW type \in 1..4, NEW e \in DOMAIN Entries(b, type)
          PROVE  EntryIsGood(b, type, e)
      BY <1>9, <3>1
    <3>2. ASSUME \A type \in 1..4 : good(type), NEW bad \in BadEntries(b)
          PROVE  FALSE
      <4>1. <<bad[1], bad[2]>> \in BadEntries(b)
        BY <1>10
      <4>2. QED
        BY <1>9, <3>2, <4>1
    <3>3. QED
      BY <3>1, <3>2
  <2>3. QED
    BY <2>1, <2>2
<1>13. ASSUME r # Ok
       PROVE  /\ <<r.section_type, r.entry_index + 1>> \in BadEntries(b)
              /\ \A bad \in BadEntries(b) :
                   \/ bad[1] > r.section_type
                   \/ bad[1] = r.section_type /\ bad[2] > r.entry_index
  <2>1. PICK type \in 1..4 : /\ reports[type] # Ok /\ r = reports[type]
                             /\ \A u \in 1..(type - 1) : reports[u] = Ok
    <3> HIDE DEF r
    <3> QED BY <1>2, <1>8, <1>13, FirstErrorFacts
  <2>2. type = 1 \/ good(1)
    BY <1>5, <2>1
  <2>3. NamesFirst(b, type, r)
    BY <1>5, <1>7, <2>1, <2>2
  <2>4. \A u \in 1..(type - 1) : u \in 1..4 /\ good(u)
    <3>1. \A u \in 1..(type - 1) : u \in 1..4 /\ reports[u] = Ok /\ (type = 1 \/ good(1))
      BY <2>1, <2>2
    <3>2. QED
      BY <3>1, <1>7
  <2>5. PICK e \in DOMAIN Entries(b, type) :
          /\ r.section_type = type /\ r.entry_index = e - 1
          /\ ~EntryIsGood(b, type, e)
          /\ \A c \in 1..(e - 1) : EntryIsGood(b, type, c)
    BY <2>3 DEF NamesFirst
  <2>6. PICK n \in Nat : DOMAIN Entries(b, type) = 1..n
    BY <1>3 DEF EntriesRead
  <2>7. <<r.section_type, r.entry_index + 1>> \in BadEntries(b)
    BY <1>9, <2>5, <2>6
  <2>8. ASSUME NEW bad \in BadEntries(b)
        PROVE  \/ bad[1] > r.section_type
               \/ bad[1] = r.section_type /\ bad[2] > r.entry_index
    <3>1. /\ bad[1] \in 1..4 /\ bad[2] \in DOMAIN Entries(b, bad[1])
          /\ ~EntryIsGood(b, bad[1], bad[2])
      BY <1>9, <1>10
    <3>2. bad[1] \notin 1..(type - 1)
      BY <2>4, <3>1
    <3>3. bad[1] > type \/ bad[1] = type
      BY <3>1, <3>2
    <3>4. bad[1] = type => bad[2] > e - 1
      BY <2>5, <2>6, <3>1
    <3>5. QED
      BY <2>5, <3>3, <3>4
  <2>9. QED
    BY <2>7, <2>8
<1>14. QED
  BY <1>12, <1>13

\* A blob passes the validation exactly if it is consistent.
LEMMA VerdictFacts ==
  ASSUME NEW b, IsDecoded(b)
  PROVE  Validate(b) = Ok <=> Consistent(b)
<1>1. Validate(b) = Ok => HeaderIsGood(b) /\ DirectoryIsGood(b)
  BY ShapesPass, DirectoryPasses
<1>2. QED
  BY <1>1, FaultFacts DEF Consistent

-----------------------------------------------------------------------------
(* The active configuration and the values *)

\* What was presented is a blob with its verdict, and what is active is valid.
ConfigInv ==
  /\ context.state \in {"EMPTY", "VALID", "INVALID"}
  /\ presented # None => presented \in Blobs \cup First /\ report = Validate(presented)
  /\ context.state = "VALID" =>
       presented # None /\ context.blob = presented /\ Validate(presented) = Ok
  /\ context.state # "VALID" => context.blob = None

\* The values are bits that the cards of the inputs of a configuration sent last.
AreValuesOf(b, vals, tk) ==
  /\ DOMAIN vals \subseteq DOMAIN Entries(b, FIELD_INPUTS)
  /\ \A i \in DOMAIN vals :
       LET n == Entries(b, FIELD_INPUTS)[i]
       IN n.card_index \in DOMAIN tk /\ vals[i] = Bit(n.channel_index, tk[n.card_index])

\* The configuration of the values kept.  It may have been replaced since, but
\* not by another one of its release.
IsKept(b) ==
  /\ Validate(b) = Ok /\ active = Release(b)
  /\ presented # None
  /\ b \in First /\ presented \in First => b = presented
  /\ AreValuesOf(b, values, taken)

ValuesInv ==
  \/ active = None /\ values = NoValues
  \/ \E b \in Blobs \cup First : IsKept(b)

StationInv == ConfigInv /\ ValuesInv

\* What is assumed of a blob, and of two of one release.
LEMMA BlobFacts ==
  ASSUME NEW b \in Blobs \cup First
  PROVE  /\ b # None /\ Release(b) # None /\ IsDecoded(b)
         /\ \A c \in Blobs \cup First :
              Release(b) = Release(c) => b = c \/ (b \in First /\ c \in First)
         /\ b \in Blobs => b \notin First
BY FieldInputsAssumption

\* What a valid configuration has.
LEMMA ActiveFacts ==
  ASSUME StationInv, context.state = "VALID"
  PROVE  /\ presented \in Blobs \cup First /\ context.blob = presented
         /\ Validate(presented) = Ok /\ Consistent(presented)
         /\ HasSection(presented, FIELD_INPUTS)
         /\ InputsAreGood(presented)
         /\ Inputs = Entries(presented, FIELD_INPUTS)
         /\ DOMAIN Inputs = 1..GetSection(FIELD_INPUTS).found.entry_count
         /\ GetSection(FIELD_INPUTS).found.entry_count \in Nat
         /\ GetHeader = Answer("OK", Release(presented))
<1>1. /\ presented \in Blobs \cup First /\ context.blob = presented
      /\ Validate(presented) = Ok
  BY DEF StationInv, ConfigInv
<1>2. IsDecoded(presented)
  BY <1>1, BlobFacts
<1>3. Consistent(presented)
  BY <1>1, <1>2, VerdictFacts
<1>4. /\ ValidateHeader(presented) = Ok /\ ValidateSections(presented) = Ok
      /\ HasSection(presented, FIELD_INPUTS)
  BY <1>1, ShapesPass
<1>5. FIELD_INPUTS \in 1..4
  BY DEF FIELD_INPUTS
<1>6. EntriesRead(presented, FIELD_INPUTS)
  BY <1>2, <1>4, <1>5, DecodedFacts
<1>7. InputsAreGood(presented)
  <2>1. \A type \in 1..4 : \A e \in DOMAIN Entries(presented, type) :
          ~EntryIsGood(presented, type, e) => <<type, e>> \in BadEntries(presented)
    BY DEF BadEntries
  <2>2. QED
    BY <1>3, <1>5, <1>6, <2>1 DEF InputsAreGood, Consistent
<1>8. GetSection(FIELD_INPUTS) = Answer("OK", Section(presented, FIELD_INPUTS))
  BY <1>1, <1>4 DEF GetSection
<1>9. Inputs = Entries(presented, FIELD_INPUTS)
  BY <1>4, <1>8 DEF Inputs, Entries, Answer
<1>10. /\ DOMAIN Inputs = 1..Section(presented, FIELD_INPUTS).entry_count
       /\ Section(presented, FIELD_INPUTS).entry_count \in Nat
  <2>1. DOMAIN Section(presented, FIELD_INPUTS).entries
          = 1..Section(presented, FIELD_INPUTS).entry_count
    BY <1>2, <1>4, <1>5 DEF IsDecoded
  <2>2. SectionTypes(presented) /\ presented.section_count \in Nat
    BY <1>2, <1>3, DecodedFacts DEF Consistent
  <2>3. QED
    BY <1>4, <1>9, <2>1, <2>2, FindFacts DEF SectionTypes, Entries
<1>11. GetHeader = Answer("OK", Release(presented))
  BY <1>1 DEF GetHeader, Release
<1>12. QED
  BY <1>1, <1>3, <1>4, <1>7, <1>8, <1>9, <1>10, <1>11 DEF Answer

\* The synchronised values are of the configuration that is active.
LEMMA SyncFacts ==
  ASSUME StationInv
  PROVE  /\ context.state = "VALID" =>
              /\ Synced = Release(presented)
              /\ AreValuesOf(presented, SyncedValues, taken)
         /\ context.state # "VALID" => Synced = None /\ SyncedValues = NoValues
<1>1. \A b, tk : AreValuesOf(b, NoValues, tk)
  BY DEF AreValuesOf, NoValues
<1>2. CASE active = None
  <2>1. values = NoValues
    <3>1. \A b \in Blobs \cup First : ~IsKept(b)
      BY <1>2, BlobFacts DEF IsKept
    <3>2. QED
      BY <3>1 DEF StationInv, ValuesInv
  <2>2. SyncedValues = NoValues
    BY <2>1 DEF SyncedValues
  <2>3. QED
    BY <1>1, <2>2, ActiveFacts DEF Synced, Answer
<1>3. CASE active # None
  <2>1. PICK b \in Blobs \cup First : IsKept(b)
    BY <1>3 DEF StationInv, ValuesInv
  <2>2. CASE context.state # "VALID"
    BY <1>3, <2>2 DEF SyncedValues, Changed, Synced
  <2>3. CASE context.state = "VALID"
    <3>1. /\ GetHeader.found = Release(presented) /\ presented \in Blobs \cup First
      BY <2>3, ActiveFacts DEF Answer
    <3>2. Synced = Release(presented)
      BY <2>3, <3>1 DEF Synced
    <3>3. CASE active = Release(presented)
      <4>1. b = presented
        BY <2>1, <3>1, <3>3, BlobFacts DEF IsKept
      <4>2. SyncedValues = values
        BY <2>3, <3>1, <3>3 DEF SyncedValues, Changed
      <4>3. QED
        BY <2>1, <2>3, <3>2, <4>1, <4>2 DEF IsKept
    <3>4. CASE active # Release(presented)
      <4>1. SyncedValues = NoValues
        BY <1>3, <3>1, <3>4 DEF SyncedValues, Changed
      <4>2. QED
        BY <1>1, <2>3, <3>2, <4>1
    <3>5. QED
      BY <3>3, <3>4
  <2>4. QED
    BY <2>2, <2>3
<1>4. QED
  BY <1>2, <1>3

\* A step that keeps the configuration and synchronises the values keeps the
\* invariant.
LEMMA SyncKeeps ==
  ASSUME StationInv, UNCHANGED configVars, active' = Synced,
         context.state = "VALID" => AreValuesOf(presented, values', taken'),
         context.state # "VALID" => values' = NoValues
  PROVE  StationInv'
<1>1. ConfigInv'
  BY DEF StationInv, ConfigInv, configVars
<1>2. ValuesInv'
  <2>1. CASE context.state = "VALID"
    <3>1. IsKept(presented)'
      BY <2>1, ActiveFacts, SyncFacts, BlobFacts
      DEF IsKept, StationInv, ConfigInv, configVars, AreValuesOf
    <3>2. QED
      BY <2>1, <3>1, ActiveFacts DEF ValuesInv, configVars
  <2>2. CASE context.state # "VALID"
    BY <2>2, SyncFacts DEF ValuesInv
  <2>3. QED
    BY <2>1, <2>2
<1>3. QED
  BY <1>1, <1>2 DEF StationInv

\* A value that is read synchronises the values.
LEMMA ReadKeeps ==
  ASSUME StationInv, Read
  PROVE  StationInv'
BY SyncFacts, SyncKeeps DEF Read, Sync

\* A record of a card gives its inputs their bits, after the values have been
\* synchronised.
LEMMA CardRecordKeeps ==
  ASSUME StationInv, NEW r, CardRecord(r)
  PROVE  StationInv'
<1>1. active' = Synced /\ UNCHANGED configVars
  BY DEF CardRecord
<1>2. CASE ~IsConfigured(r.card)
  BY <1>1, <1>2, SyncFacts, SyncKeeps DEF CardRecord
<1>3. CASE IsConfigured(r.card)
  <2> DEFINE own == {i \in DOMAIN Inputs : Inputs[i].card_index = r.card}
             new == [i \in own |-> Bit(Inputs[i].channel_index, r.on)]
  <2>1. context.state = "VALID"
    BY <1>3 DEF IsConfigured
  <2>2. AreValuesOf(presented, SyncedValues, taken) /\ Inputs = Entries(presented, FIELD_INPUTS)
    BY <2>1, SyncFacts, ActiveFacts
  <2>3. /\ values' = Over(new, SyncedValues)
        /\ taken' = Over([card \in {r.card} |-> r.on], taken)
    BY <1>3 DEF CardRecord
  <2>4. /\ DOMAIN values' = own \cup DOMAIN SyncedValues
        /\ \A i \in DOMAIN values' :
             values'[i] = IF i \in own THEN Bit(Inputs[i].channel_index, r.on) ELSE SyncedValues[i]
    BY <2>3 DEF Over
  <2>5. /\ DOMAIN taken' = {r.card} \cup DOMAIN taken
        /\ taken'[r.card] = r.on
        /\ \A card \in DOMAIN taken : card # r.card => taken'[card] = taken[card]
    BY <2>3 DEF Over
  <2>6. AreValuesOf(presented, values', taken')
    <3>1. DOMAIN values' \subseteq DOMAIN Inputs
      BY <2>2, <2>4 DEF AreValuesOf
    <3>2. ASSUME NEW i \in DOMAIN values'
          PROVE  /\ Inputs[i].card_index \in DOMAIN taken'
                 /\ values'[i] = Bit(Inputs[i].channel_index, taken'[Inputs[i].card_index])
      <4>1. CASE i \in own
        BY <2>4, <2>5, <4>1
      <4>2. CASE i \notin own
        <5>1. i \in DOMAIN SyncedValues /\ Inputs[i].card_index # r.card
          BY <2>4, <3>1, <4>2
        <5>2. /\ Inputs[i].card_index \in DOMAIN taken
              /\ SyncedValues[i] = Bit(Inputs[i].channel_index, taken[Inputs[i].card_index])
          BY <2>2, <5>1 DEF AreValuesOf
        <5>3. QED
          BY <2>4, <2>5, <4>2, <5>1, <5>2
      <4>3. QED
        BY <4>1, <4>2
    <3>3. QED
      BY <2>2, <3>1, <3>2 DEF AreValuesOf
  <2>7. QED
    BY <1>1, <2>1, <2>6, SyncKeeps
<1>4. QED
  BY <1>2, <1>3

\* Another configuration leaves the values to the next synchronisation.
LEMMA PresentKeeps ==
  ASSUME StationInv, NEW b \in Blobs \cup First, b \in Blobs \/ presented = None, Present(b)
  PROVE  StationInv'
<1>1. /\ report' = Validate(b) /\ presented' = b
      /\ context' = IF report' = Ok THEN [blob |-> b, state |-> "VALID", last_error |-> "OK"]
                    ELSE Inactive("INVALID", report'.result)
      /\ UNCHANGED <<active, values, taken>>
  BY DEF Present, Activate, inputVars
<1>2. ConfigInv'
  BY <1>1, BlobFacts DEF ConfigInv, Inactive
<1>3. ASSUME NEW c \in Blobs \cup First, IsKept(c)
      PROVE  IsKept(c)'
  <2>1. c \in First => b \notin First
    BY <1>3, BlobFacts DEF IsKept
  <2>2. QED
    BY <1>1, <1>3, <2>1, BlobFacts DEF IsKept, AreValuesOf
<1>4. ValuesInv'
  BY <1>1, <1>3 DEF StationInv, ValuesInv
<1>5. QED
  BY <1>2, <1>4 DEF StationInv

\* So does the end of a configuration.
LEMMA WithdrawKeeps ==
  ASSUME StationInv, Withdraw
  PROVE  StationInv'
<1>1. UNCHANGED <<presented, report, active, values, taken>> /\ context' = Inactive("EMPTY", "OK")
  BY DEF Withdraw, Deactivate, inputVars
<1>2. ConfigInv'
  BY <1>1 DEF StationInv, ConfigInv, Inactive
<1>3. ValuesInv'
  BY <1>1 DEF StationInv, ValuesInv, IsKept, AreValuesOf
<1>4. QED
  BY <1>2, <1>3 DEF StationInv

\* Whatever is presented, withdrawn, received and read, the configuration that is
\* active passed the validation, and the values kept are those of a release that
\* was active, whose blob is the only one of its release.
THEOREM Invariance == Spec => []StationInv
<1>1. Init => StationInv
  BY DEF Init, ConfigInit, Inactive, StationInv, ConfigInv, ValuesInv
<1>2. StationInv /\ [Next]_vars => StationInv'
  <2> SUFFICES ASSUME StationInv, [Next]_vars PROVE StationInv'
    OBVIOUS
  <2>1. ASSUME NEW b \in Blobs, Present(b) PROVE StationInv'
    BY <2>1, PresentKeeps
  <2>2. ASSUME presented = None, NEW b \in First, Present(b) PROVE StationInv'
    BY <2>2, PresentKeeps
  <2>3. CASE Withdraw
    BY <2>3, WithdrawKeeps
  <2>4. ASSUME NEW r \in Records, CardRecord(r) PROVE StationInv'
    BY <2>4, CardRecordKeeps
  <2>5. CASE Read
    BY <2>5, ReadKeeps
  <2>6. CASE UNCHANGED vars
    BY <2>6 DEF vars, configVars, inputVars, StationInv, ConfigInv, ValuesInv, IsKept, AreValuesOf
  <2>7. QED
    BY <2>1, <2>2, <2>3, <2>4, <2>5, <2>6 DEF Next
<1>3. QED
  BY <1>1, <1>2, PTL DEF Spec

-----------------------------------------------------------------------------
(* What is read *)

\* The least element of a set of one.
LEMMA MinOfOne ==
  ASSUME NEW S, NEW i \in S, S \subseteq Nat, \A j \in S : j = i
  PROVE  Min(S) = i
BY MinFacts

\* The getters by index and by key serve the entries of the active configuration.
LEMMA GetFacts ==
  ASSUME StationInv, context.state = "VALID", NEW type \in 1..4, HasSection(presented, type)
  PROVE  LET entries == Entries(presented, type)
         IN /\ GetSection(type).result = "OK"
            /\ GetSection(type).found.entry_count \in Nat
            /\ DOMAIN entries = 1..GetSection(type).found.entry_count
            /\ \A i \in DOMAIN entries : GetEntry(type, i - 1) = Answer("OK", entries[i])
            /\ GetSection(type).found.entries = entries
<1> DEFINE entries == Entries(presented, type)
           s == Section(presented, type)
<1>1. /\ presented \in Blobs \cup First /\ context.blob = presented
      /\ Validate(presented) = Ok /\ Consistent(presented)
  BY ActiveFacts
<1>2. IsDecoded(presented)
  BY <1>1, BlobFacts
<1>3. GetSection(type) = Answer("OK", s)
  BY <1>1 DEF GetSection
<1>4. entries = s.entries
  BY DEF Entries
<1>5. DOMAIN entries = 1..s.entry_count /\ s.entry_count \in Nat
  <2>1. ValidateHeader(presented) = Ok /\ ValidateSections(presented) = Ok
    BY <1>1, ShapesPass
  <2>2. DOMAIN s.entries = 1..s.entry_count
    BY <1>2, <2>1 DEF IsDecoded
  <2>3. SectionTypes(presented) /\ presented.section_count \in Nat
    BY <1>1, <1>2, DecodedFacts DEF Consistent
  <2>4. QED
    BY <1>4, <2>2, <2>3, FindFacts DEF SectionTypes
<1>6. GetSection(type).result = "OK" /\ GetSection(type).found = s
  BY <1>3 DEF Answer
<1>7. ASSUME NEW i \in DOMAIN entries
      PROVE  GetEntry(type, i - 1) = Answer("OK", entries[i])
  <2>1. ~(i - 1 >= s.entry_count) /\ i - 1 + 1 = i
    BY <1>5
  <2>2. QED
    BY <1>4, <1>6, <2>1 DEF GetEntry
<1> HIDE DEF entries, s
<1>8. QED
  BY <1>4, <1>5, <1>6, <1>7 DEF entries, s

\* The searches serve an entry that agrees alone with the key.
LEMMA SearchFacts ==
  ASSUME StationInv, context.state = "VALID", NEW type \in 1..4, HasSection(presented, type),
         NEW key, NEW i \in DOMAIN Entries(presented, type),
         \A j \in DOMAIN Entries(presented, type) :
           (\A f \in DOMAIN key : Entries(presented, type)[j][f] = key[f]) <=> j = i
  PROVE  FindEntry(type, key) = Answer("OK", Entries(presented, type)[i])
<1> DEFINE entries == Entries(presented, type)
           matching == {j \in DOMAIN entries : \A f \in DOMAIN key : entries[j][f] = key[f]}
<1>1. /\ GetSection(type).result = "OK" /\ GetSection(type).found.entries = entries
      /\ GetSection(type).found.entry_count \in Nat
      /\ DOMAIN entries = 1..GetSection(type).found.entry_count
  BY GetFacts
<1>2. i \in matching /\ matching \subseteq Nat /\ \A j \in matching : j = i
  BY <1>1
<1>3. FindEntry(type, key) = IF matching = {} THEN Answer("NOT_FOUND", None)
                             ELSE Answer("OK", entries[Min(matching)])
  BY <1>1 DEF FindEntry
<1> HIDE DEF matching
<1>4. QED
  BY <1>2, <1>3, MinOfOne

\* The getters of an input and of its value, by id, by place and by location.
LEMMA InputGetters ==
  ASSUME StationInv, context.state = "VALID", NEW i \in DOMAIN Inputs
  PROVE  LET n == Inputs[i]
         IN /\ FindInputById(n.logical_id) = Answer("OK", n)
            /\ FindInputByLocation(n.card_index, n.channel_index) = Answer("OK", n)
            /\ ValueOf(n.logical_id) = IF i \in DOMAIN SyncedValues
                                       THEN Answer("OK", SyncedValues[i])
                                       ELSE Answer("NOT_FOUND", None)
            /\ GetEntry(FIELD_INPUTS, i - 1) = Answer("OK", n)
            /\ ValueByIndex(i - 1) = IF i \in DOMAIN SyncedValues
                                     THEN Answer("OK", <<n.logical_id, SyncedValues[i]>>)
                                     ELSE Answer("NOT_FOUND", None)
<1> DEFINE n == Inputs[i]
<1>1. /\ HasSection(presented, FIELD_INPUTS) /\ InputsAreGood(presented)
      /\ Inputs = Entries(presented, FIELD_INPUTS)
      /\ DOMAIN Inputs = 1..GetSection(FIELD_INPUTS).found.entry_count
      /\ GetSection(FIELD_INPUTS).found.entry_count \in Nat
  BY ActiveFacts
<1>2. FIELD_INPUTS \in 1..4
  BY DEF FIELD_INPUTS
<1>3. \A j \in DOMAIN Inputs :
        \/ Inputs[j].logical_id = n.logical_id
        \/ Inputs[j].card_index = n.card_index /\ Inputs[j].channel_index = n.channel_index
        => j = i
  BY <1>1, DistinctInputs
<1>4. FindInputById(n.logical_id) = Answer("OK", n)
  <2> DEFINE key == [logical_id |-> n.logical_id]
  <2>1. \A j \in DOMAIN Inputs : (\A f \in DOMAIN key : Inputs[j][f] = key[f]) <=>
          Inputs[j].logical_id = n.logical_id
    OBVIOUS
  <2> HIDE DEF key
  <2>2. \A j \in DOMAIN Inputs : (\A f \in DOMAIN key : Inputs[j][f] = key[f]) <=> j = i
    BY <1>3, <2>1
  <2>3. FindEntry(FIELD_INPUTS, key) = Answer("OK", n)
    BY <1>1, <1>2, <2>2, SearchFacts
  <2>4. QED
    BY <2>3 DEF FindInputById, key
<1>5. FindInputByLocation(n.card_index, n.channel_index) = Answer("OK", n)
  <2> DEFINE key == [card_index |-> n.card_index, channel_index |-> n.channel_index]
  <2>1. \A j \in DOMAIN Inputs : (\A f \in DOMAIN key : Inputs[j][f] = key[f]) <=>
          Inputs[j].card_index = n.card_index /\ Inputs[j].channel_index = n.channel_index
    OBVIOUS
  <2> HIDE DEF key
  <2>2. \A j \in DOMAIN Inputs : (\A f \in DOMAIN key : Inputs[j][f] = key[f]) <=> j = i
    BY <1>3, <2>1
  <2>3. FindEntry(FIELD_INPUTS, key) = Answer("OK", n)
    BY <1>1, <1>2, <2>2, SearchFacts
  <2>4. QED
    BY <2>3 DEF FindInputByLocation, key
<1>6. ValueOf(n.logical_id) = IF i \in DOMAIN SyncedValues THEN Answer("OK", SyncedValues[i])
                              ELSE Answer("NOT_FOUND", None)
  <2> DEFINE matching == {j \in DOMAIN Inputs : Inputs[j].logical_id = n.logical_id}
  <2>1. i \in matching /\ matching \subseteq Nat /\ \A j \in matching : j = i
    BY <1>1, <1>3
  <2>2. Min(matching) = i
    <3> HIDE DEF matching
    <3> QED BY <2>1, MinOfOne
  <2>3. QED
    BY <2>1, <2>2 DEF ValueOf
<1>7. GetEntry(FIELD_INPUTS, i - 1) = Answer("OK", n)
  BY <1>1, <1>2, GetFacts
<1>8. ValueByIndex(i - 1) = IF i \in DOMAIN SyncedValues
                            THEN Answer("OK", <<n.logical_id, SyncedValues[i]>>)
                            ELSE Answer("NOT_FOUND", None)
  <2>1. i - 1 + 1 = i
    BY <1>1
  <2>2. QED
    BY <1>7, <2>1 DEF ValueByIndex, Answer
<1>9. QED
  BY <1>4, <1>5, <1>6, <1>7, <1>8

\* A value that is read, by the id of an input or by its place, is the bit of
\* its channel in the last record of its card, whatever configurations were
\* active in between (input_card_sync_configuration and the functions that call it).
THEOREM ValuesStayWithInputs == Spec => []ValuesAreOfTheirInput
<1>1. StationInv => ValuesAreOfTheirInput
  <2> SUFFICES ASSUME StationInv, context.state = "VALID", NEW i \in DOMAIN Inputs
               PROVE  LET n == Inputs[i]
                      IN /\ ValueOf(n.logical_id).result = "OK" =>
                              /\ n.card_index \in DOMAIN taken
                              /\ ValueOf(n.logical_id).found
                                   = Bit(n.channel_index, taken[n.card_index])
                         /\ StateOf(n.logical_id) = StateByIndex(i - 1)
                         /\ FindInputByLocation(n.card_index, n.channel_index)
                              = FindInputById(n.logical_id)
    BY DEF ValuesAreOfTheirInput
  <2> DEFINE n == Inputs[i]
  <2>1. /\ FindInputById(n.logical_id) = Answer("OK", n)
        /\ FindInputByLocation(n.card_index, n.channel_index) = Answer("OK", n)
        /\ ValueOf(n.logical_id) = IF i \in DOMAIN SyncedValues THEN Answer("OK", SyncedValues[i])
                                   ELSE Answer("NOT_FOUND", None)
        /\ GetEntry(FIELD_INPUTS, i - 1) = Answer("OK", n)
        /\ ValueByIndex(i - 1) = IF i \in DOMAIN SyncedValues
                                 THEN Answer("OK", <<n.logical_id, SyncedValues[i]>>)
                                 ELSE Answer("NOT_FOUND", None)
    BY InputGetters
  <2>2. ValueOf(n.logical_id).result = "OK" =>
          /\ n.card_index \in DOMAIN taken
          /\ ValueOf(n.logical_id).found = Bit(n.channel_index, taken[n.card_index])
    BY <2>1, ActiveFacts, SyncFacts DEF AreValuesOf, Answer
  <2>3. StateOf(n.logical_id) = StateByIndex(i - 1)
    BY <2>1 DEF StateOf, StateByIndex, Answer
  <2>4. QED
    BY <2>1, <2>2, <2>3
<1>2. QED
  BY <1>1, Invariance, PTL

\* In a snapshot that is logged the bit of every id is that of the channel of an
\* input of that id, in the last record of its card (v_1sTasks): as many inputs
\* as there are ids, and no two of the same, are one for each.
THEOREM SnapshotsAreTrue == Spec => []SnapshotTellsInputs
<1>1. StationInv => SnapshotTellsInputs
  <2> SUFFICES ASSUME StationInv, SnapshotComplete(Image), NEW id \in 1..InputCount
               PROVE  \E i \in DOMAIN Inputs :
                        /\ Inputs[i].logical_id = id
                        /\ (id \in Image) <=>
                             (Inputs[i].channel_index \in taken[Inputs[i].card_index])
    BY DEF SnapshotTellsInputs
  <2>1. /\ context.state = "VALID"
        /\ GetSection(FIELD_INPUTS).found.entry_count = InputCount
        /\ \A i \in DOMAIN Inputs :
             ValueByIndex(i - 1).result = "OK" /\ Inputs[i].logical_id \in 1..InputCount
    BY DEF SnapshotComplete
  <2>2. /\ InputsAreGood(presented) /\ Inputs = Entries(presented, FIELD_INPUTS)
        /\ DOMAIN Inputs = 1..InputCount /\ InputCount \in Nat
    BY <2>1, ActiveFacts
  <2>3. \A i, j \in DOMAIN Inputs : Inputs[i].logical_id = Inputs[j].logical_id => i = j
    BY <2>2, DistinctInputs
  <2>4. PICK i \in DOMAIN Inputs : Inputs[i].logical_id = id
    <3> DEFINE ids == [j \in 1..InputCount |-> Inputs[j].logical_id]
    <3>1. ids \in Injection(1..InputCount, 1..InputCount)
      BY <2>1, <2>2, <2>3 DEF Injection, IsInjective
    <3>2. IsFiniteSet(1..InputCount)
      BY <2>2, FS_Interval
    <3>3. ids \in Surjection(1..InputCount, 1..InputCount)
      BY <3>1, <3>2, FS_Injection
    <3>4. QED
      BY <2>2, <3>3 DEF Surjection
  <2>5. ASSUME NEW j \in DOMAIN Inputs
        PROVE  /\ j \in DOMAIN SyncedValues
               /\ ValueByIndex(j - 1).found[1] = Inputs[j].logical_id
               /\ SyncedValues[j] = Bit(Inputs[j].channel_index, taken[Inputs[j].card_index])
    <3>1. ValueByIndex(j - 1) = IF j \in DOMAIN SyncedValues
                                THEN Answer("OK", <<Inputs[j].logical_id, SyncedValues[j]>>)
                                ELSE Answer("NOT_FOUND", None)
      BY <2>1, InputGetters
    <3>2. j \in DOMAIN SyncedValues
      BY <2>1, <3>1 DEF Answer
    <3>3. ValueByIndex(j - 1).found[1] = Inputs[j].logical_id
      BY <3>1, <3>2 DEF Answer
    <3>4. AreValuesOf(presented, SyncedValues, taken)
      BY <2>1, SyncFacts
    <3>5. QED
      BY <2>2, <3>2, <3>3, <3>4 DEF AreValuesOf
  <2>6. DOMAIN SyncedValues \subseteq DOMAIN Inputs
    BY <2>1, <2>2, SyncFacts DEF AreValuesOf
  <2>7. id \in Image <=> SyncedValues[i] = 1
    <3>1. id \in Image <=> \E j \in DOMAIN SyncedValues :
                             SyncedValues[j] = 1 /\ ValueByIndex(j - 1).found[1] = id
      BY DEF Image
    <3>2. QED
      BY <2>3, <2>4, <2>5, <2>6, <3>1
  <2>8. QED
    BY <2>4, <2>5, <2>7 DEF Bit
<1>2. QED
  BY <1>1, Invariance, PTL

-----------------------------------------------------------------------------
(* The judgement *)

\* The state of the configuration and the values that are kept have their types,
\* and a release that was seen is of a station and of a revision.
LEMMA ConfigTypes ==
  ASSUME StationInv
  PROVE  ConfigTypeOK
<1>1. context.state \in {"EMPTY", "VALID", "INVALID"}
  BY DEF StationInv, ConfigInv
<1>2. (context.blob # None) <=> (context.state = "VALID")
  BY ActiveFacts, BlobFacts DEF StationInv, ConfigInv
<1>3. CASE active = None /\ values = NoValues
  BY <1>1, <1>2, <1>3 DEF ConfigTypeOK, NoValues
<1>4. ASSUME NEW b \in Blobs \cup First, IsKept(b)
      PROVE  ConfigTypeOK
  <2>1. Consistent(b)
    BY <1>4, BlobFacts, VerdictFacts DEF IsKept
  <2>2. active.station_id # 0 /\ active.revision # 0
    BY <1>4, <2>1 DEF IsKept, Release, Consistent, HeaderIsGood
  <2>3. \A i \in DOMAIN values : values[i] \in {0, 1}
    BY <1>4 DEF IsKept, AreValuesOf, Bit
  <2>4. QED
    BY <1>1, <1>2, <2>2, <2>3 DEF ConfigTypeOK
<1>5. QED
  BY <1>3, <1>4 DEF StationInv, ValuesInv

\* A blob is accepted exactly if it is consistent, and a rejection names the
\* first bad entry.
LEMMA Judgement ==
  ASSUME StationInv
  PROVE  ConfigAcceptsConsistent /\ ConfigNamesFirstFault
<1> SUFFICES ASSUME presented # None
             PROVE  /\ report = Ok <=> Consistent(presented)
                    /\ HeaderIsGood(presented) /\ DirectoryIsGood(presented) =>
                         \/ report = Ok
                         \/ /\ <<report.section_type, report.entry_index + 1>>
                                 \in BadEntries(presented)
                            /\ \A bad \in BadEntries(presented) :
                                 \/ bad[1] > report.section_type
                                 \/ bad[1] = report.section_type /\ bad[2] > report.entry_index
  BY DEF ConfigAcceptsConsistent, ConfigNamesFirstFault
<1>1. report = Validate(presented) /\ IsDecoded(presented)
  BY BlobFacts DEF StationInv, ConfigInv
<1>2. QED
  BY <1>1, VerdictFacts, FaultFacts

\* Good entries of a section do not share ids.
LEMMA DistinctIds ==
  ASSUME NEW b, NEW type \in 1..4, NEW k \in Nat, DOMAIN Entries(b, type) = 1..k,
         \A e \in DOMAIN Entries(b, type) : EntryIsGood(b, type, e)
  PROVE  \A i, j \in DOMAIN Entries(b, type) :
           Id(type, Entries(b, type)[i]) = Id(type, Entries(b, type)[j]) => i = j
<1> DEFINE id(i) == Id(type, Entries(b, type)[i])
<1>1. \A e \in 1..k : \A c \in 1..(e - 1) : id(c) # id(e)
  BY Zenon DEF EntryIsGood
<1>2. \A i, j \in 1..k : i # j => i \in 1..(j - 1) \/ j \in 1..(i - 1)
  OBVIOUS
<1> HIDE DEF id
<1>3. \A i, j \in 1..k : id(i) = id(j) => i = j
  BY <1>1, <1>2
<1>4. QED
  BY <1>3 DEF id

\* An object is found by the field that holds its id.
LEMMA ObjectFacts ==
  ASSUME StationInv, context.state = "VALID", NEW type \in 1..4, HasSection(presented, type),
         NEW i \in DOMAIN Entries(presented, type), NEW key,
         \A j \in DOMAIN Entries(presented, type) :
           (\A f \in DOMAIN key : Entries(presented, type)[j][f] = key[f]) <=>
             Id(type, Entries(presented, type)[j]) = Id(type, Entries(presented, type)[i])
  PROVE  FindEntry(type, key) = Answer("OK", Entries(presented, type)[i])
<1>1. BadEntries(presented) = {}
  BY ActiveFacts DEF Consistent
<1>2. \A e \in DOMAIN Entries(presented, type) :
        ~EntryIsGood(presented, type, e) => <<type, e>> \in BadEntries(presented)
  BY DEF BadEntries
<1>3. \A e \in DOMAIN Entries(presented, type) : EntryIsGood(presented, type, e)
  BY <1>1, <1>2
<1>4. /\ GetSection(type).found.entry_count \in Nat
      /\ DOMAIN Entries(presented, type) = 1..GetSection(type).found.entry_count
  BY GetFacts
<1>5. \A j \in DOMAIN Entries(presented, type) :
        Id(type, Entries(presented, type)[j]) = Id(type, Entries(presented, type)[i]) => j = i
  BY <1>3, <1>4, DistinctIds
<1>6. \A j \in DOMAIN Entries(presented, type) :
        (\A f \in DOMAIN key : Entries(presented, type)[j][f] = key[f]) <=> j = i
  BY <1>5
<1>7. QED
  BY <1>6, SearchFacts

\* What the active configuration refers to is found in it, and each of its
\* objects is found by its own id.
LEMMA ReferencesServed ==
  ASSUME StationInv
  PROVE  ReferencesAreServed
<1> SUFFICES ASSUME NEW type \in {SIGNALS, POINTS, TRACKS},
                    GetSection(type).result = "OK",
                    NEW i \in 1..GetSection(type).found.entry_count
             PROVE  LET n == GetEntry(type, i - 1).found
                    IN /\ n = CASE type = SIGNALS -> FindSignalById(n.signal_id).found
                                [] type = POINTS -> FindPointById(n.point_id).found
                                [] type = TRACKS -> FindTrackById(n.track_id).found
                       /\ \A r \in References(type, n) :
                            /\ FindInputById(r[1]).result = "OK"
                            /\ FindInputById(r[1]).found.type = r[2]
  BY DEF ReferencesAreServed
<1> DEFINE entries == Entries(presented, type)
           n == entries[i]
<1>1. context.state = "VALID"
  BY DEF GetSection, Answer
<1>2. type \in 1..4
  BY DEF SIGNALS, POINTS, TRACKS
<1>3. /\ context.blob = presented /\ BadEntries(presented) = {}
      /\ Inputs = Entries(presented, FIELD_INPUTS)
  BY <1>1, ActiveFacts DEF Consistent
<1>4. HasSection(presented, type)
  BY <1>1, <1>3 DEF GetSection, Answer
<1>5. i \in DOMAIN entries /\ GetEntry(type, i - 1) = Answer("OK", n)
  BY <1>1, <1>2, <1>4, GetFacts
<1>6. n = CASE type = SIGNALS -> FindSignalById(n.signal_id).found
            [] type = POINTS -> FindPointById(n.point_id).found
            [] type = TRACKS -> FindTrackById(n.track_id).found
  <2>1. CASE type = SIGNALS
    <3> DEFINE key == [signal_id |-> n.signal_id]
    <3>1. \A j \in DOMAIN entries :
            (\A f \in DOMAIN key : entries[j][f] = key[f]) <=> Id(type, entries[j]) = Id(type, n)
      BY <2>1, TypesDiffer DEF Id
    <3> HIDE DEF key
    <3>2. FindEntry(type, key) = Answer("OK", n)
      BY <1>1, <1>2, <1>4, <1>5, <3>1, ObjectFacts
    <3>3. QED
      BY <2>1, <3>2, TypesDiffer DEF FindSignalById, Answer, key
  <2>2. CASE type = POINTS
    <3> DEFINE key == [point_id |-> n.point_id]
    <3>1. \A j \in DOMAIN entries :
            (\A f \in DOMAIN key : entries[j][f] = key[f]) <=> Id(type, entries[j]) = Id(type, n)
      BY <2>2, TypesDiffer DEF Id
    <3> HIDE DEF key
    <3>2. FindEntry(type, key) = Answer("OK", n)
      BY <1>1, <1>2, <1>4, <1>5, <3>1, ObjectFacts
    <3>3. QED
      BY <2>2, <3>2, TypesDiffer DEF FindPointById, Answer, key
  <2>3. CASE type = TRACKS
    <3> DEFINE key == [track_id |-> n.track_id]
    <3>1. \A j \in DOMAIN entries :
            (\A f \in DOMAIN key : entries[j][f] = key[f]) <=> Id(type, entries[j]) = Id(type, n)
      BY <2>3, TypesDiffer DEF Id
    <3> HIDE DEF key
    <3>2. FindEntry(type, key) = Answer("OK", n)
      BY <1>1, <1>2, <1>4, <1>5, <3>1, ObjectFacts
    <3>3. QED
      BY <2>3, <3>2, TypesDiffer DEF FindTrackById, Answer, key
  <2>4. QED
    BY <2>1, <2>2, <2>3
<1>7. ASSUME NEW r \in References(type, n)
      PROVE  FindInputById(r[1]).result = "OK" /\ FindInputById(r[1]).found.type = r[2]
  <2>1. <<type, i>> \notin BadEntries(presented) => EntryIsGood(presented, type, i)
    BY <1>2, <1>5 DEF BadEntries
  <2>2. PICK k \in DOMAIN Inputs : Inputs[k].logical_id = r[1] /\ Inputs[k].type = r[2]
    BY <1>3, <1>7, <2>1, Zenon DEF EntryIsGood
  <2>3. FindInputById(r[1]) = Answer("OK", Inputs[k])
    BY <1>1, <2>2, InputGetters
  <2>4. QED
    BY <2>2, <2>3 DEF Answer
<1>8. GetEntry(type, i - 1).found = n
  BY <1>5 DEF Answer
<1>9. QED
  BY <1>6, <1>7, <1>8

\* A blob is accepted exactly if it is consistent, a rejection names its first
\* bad entry, what is kept has its type, and what the active configuration
\* refers to is found in it (station_config_validate, station_config_activate
\* and the getters).
THEOREM ConfigStaysJudged == Spec => []ConfigIsJudged
<1>1. StationInv => ConfigIsJudged
  BY Judgement, ConfigTypes, ReferencesServed DEF ConfigIsJudged
<1>2. QED
  BY <1>1, Invariance, PTL
=============================================================================
