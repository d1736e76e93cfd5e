-------------------------- MODULE GoooParserProofs --------------------------
(* Theorems about GoooParser, for files of any length and any texts.          *)
EXTENDS GoooParser, FiniteSetTheorems, TLAPS

\* A scanned line is a line of the file.
LEMMA NextIsLine ==
  ASSUME TypeOK, Reading
  PROVE  /\ NextLine \in Line /\ Value(NextLine) \in Text
         /\ at + 1 \in 1 .. Len(file) /\ at \in Nat /\ Len(file) \in Nat
<1>1. file \in Seq(Line)
  BY TextAssumption DEF TypeOK
<1>2. Len(file) \in Nat /\ at \in 0 .. Len(file) /\ at < Len(file)
  BY <1>1 DEF TypeOK, Reading
<1>3. at + 1 \in 1 .. Len(file) /\ at \in Nat
  BY <1>2
<1>4. NextLine \in Line
  BY <1>1, <1>3 DEF NextLine
<1> QED
  BY <1>2, <1>3, <1>4, TextAssumption DEF Line, Value

\* Words of the switches are words.
LEMMA WordsOfKinds ==
  ASSUME NEW k \in Kind
  PROVE  Singles[k] \subseteq Word /\ Lists[k] \subseteq Word
BY DEF Word

\* Every step keeps every variable in its type.
THEOREM TypeCorrect == Spec => []TypeOK
<1>1. Init => TypeOK
  <2> SUFFICES ASSUME Init PROVE TypeOK
    OBVIOUS
  <2>1. file \in Seq(Line)
    BY TextAssumption DEF Init
  <2>2. Len(file) \in Nat
    BY <2>1
  <2>3. NothingSingle \in [Word -> Text]
    BY TextAssumption DEF NothingSingle
  <2>4. NothingListed \in [Word -> Seq(1 .. Len(file))]
    BY DEF NothingListed
  <2> QED
    BY <2>2, <2>3, <2>4 DEF Init, TypeOK
<1>2. TypeOK /\ [Next]_parserVars => TypeOK'
  <2> SUFFICES ASSUME TypeOK, [Next]_parserVars PROVE TypeOK'
    OBVIOUS
  <2>1. CASE Set
    <3>1. at' \in 0 .. Len(file)
      BY <2>1, NextIsLine DEF Set
    <3>2. single' \in [Word -> Text]
      BY <2>1, NextIsLine DEF Set, TypeOK
    <3> QED
      BY <2>1, <3>1, <3>2 DEF Set, Reading, TypeOK
  <2>2. CASE Add
    <3>1. at' \in 0 .. Len(file) /\ at + 1 \in 1 .. Len(file) /\ NextLine.word \in Word
      BY <2>2, NextIsLine DEF Add, Line
    <3>2. list \in [Word -> Seq(1 .. Len(file))] /\ list' = [list EXCEPT ![NextLine.word] = Append(@, at + 1)]
      BY <2>2 DEF Add, TypeOK
    <3>3. Append(list[NextLine.word], at + 1) \in Seq(1 .. Len(file))
      BY <3>1, <3>2
    <3>4. list' \in [Word -> Seq(1 .. Len(file))]
      BY <3>2, <3>3
    <3> QED
      BY <2>2, <3>1, <3>4 DEF Add, Reading, TypeOK
  <2>3. CASE Pass
    <3>1. at' \in 0 .. Len(file)
      BY <2>3, NextIsLine DEF Pass
    <3> QED
      BY <2>3, <3>1 DEF Pass, Reading, TypeOK
  <2>4. CASE Refused
    <3>1. NothingSingle \in [Word -> Text]
      BY TextAssumption DEF NothingSingle
    <3>2. NothingListed \in [Word -> Seq(1 .. Len(file))]
      BY DEF NothingListed
    <3> QED
      BY <2>4, <3>1, <3>2 DEF Refused, TypeOK
  <2>5. CASE Accept
    BY <2>5 DEF Accept, TypeOK
  <2>6. CASE UNCHANGED parserVars
    BY <2>6 DEF parserVars, TypeOK
  <2> QED
    BY <2>1, <2>2, <2>3, <2>4, <2>5, <2>6 DEF Next, Refuse, Reject
<1> QED
  BY <1>1, <1>2, PTL DEF Spec

-----------------------------------------------------------------------------
(* The scan *)

\* The lines said so far, of one word.
SaidBy(w) == {n \in 1 .. at : SaysAt(w, n)}

\* One line more: who it adds to.
LEMMA OneLineMore ==
  ASSUME TypeOK, Reading, at' = at + 1, file' = file, kind' = kind, NEW w \in Word
  PROVE  SaidBy(w)' = SaidBy(w) \union (IF SaysAt(w, at + 1) THEN {at + 1} ELSE {})
<1>1. 1 .. at + 1 = (1 .. at) \union {at + 1}
  BY NextIsLine
<1>2. \A n : SaysAt(w, n)' <=> SaysAt(w, n)
  BY DEF SaysAt, Says, Value
<1>3. SaidBy(w)' = {n \in 1 .. at + 1 : SaysAt(w, n)}
  BY <1>2 DEF SaidBy
<1> QED
  BY <1>1, <1>3 DEF SaidBy

\* A line says something to a word of its switch only as its own word.
LEMMA SaysOwnWord ==
  ASSUME NEW w, NEW line, NEW words
  PROVE  /\ Says(line, {w}) => line.word = w
         /\ (w \in words /\ Says(line, {w})) => Says(line, words)
         /\ Says(line, words) => Says(line, {line.word})
BY DEF Says

\* No word is both single and listed.
LEMMA SwitchesDisjoint ==
  ASSUME NEW k \in Kind
  PROVE  Singles[k] \intersect Lists[k] = {}
<1>1. CASE k = "meta"
  BY <1>1 DEF Singles, Lists
<1>2. CASE k = "program"
  BY <1>2 DEF Singles, Lists
<1> QED
  BY <1>1, <1>2 DEF Kind

\* A step that scans a line.
Scan == Set \/ Add \/ Pass

\* What every scanning step does, and what the line it scans says.
LEMMA ScanStep ==
  ASSUME TypeOK, Scan
  PROVE  /\ Reading /\ status = "reading" /\ at' = at + 1
         /\ file' = file /\ kind' = kind /\ status' = status
         /\ ~Bad(at + 1)
<1>1. /\ Reading /\ at' = at + 1 /\ file' = file /\ kind' = kind /\ status' = status
      /\ NextLine.text # Long
  BY DEF Scan, Set, Add, Pass
<1>2. ~(Says(NextLine, Singles[kind] \union Lists[kind]) /\ Malformed(NextLine))
  BY DEF Scan, Set, Add, Pass, Says
<1> QED
  BY <1>1, <1>2 DEF Reading, Bad, NextLine

NoneBad == \A n \in 1 .. at : ~Bad(n)

\* Scanning keeps the lines before free of mistakes.
LEMMA NoneBadKept ==
  ASSUME TypeOK, Scan, NoneBad
  PROVE  NoneBad'
<1>1. at' = at + 1 /\ file' = file /\ kind' = kind /\ ~Bad(at + 1) /\ Reading
  BY ScanStep
<1>2. 1 .. at + 1 = (1 .. at) \union {at + 1}
  BY <1>1, NextIsLine
<1>3. \A n : Bad(n)' <=> Bad(n)
  BY <1>1 DEF Bad, Says, Malformed, Value
<1>4. \A n \in 1 .. at + 1 : ~Bad(n)
  BY <1>1, <1>2 DEF NoneBad
<1> QED
  BY <1>1, <1>3, <1>4 DEF NoneBad

Increasing(numbers) == \A i, k \in DOMAIN numbers : i < k => numbers[i] < numbers[k]

ListExact(w) == Range(list[w]) = SaidBy(w) /\ Increasing(list[w])

\* One more number, larger than all, keeps a sequence increasing.
LEMMA AppendIncreasing ==
  ASSUME NEW n \in Nat, NEW numbers \in Seq(Nat), Increasing(numbers),
         \A m \in Range(numbers) : m < n
  PROVE  /\ Increasing(Append(numbers, n))
         /\ Range(Append(numbers, n)) = Range(numbers) \union {n}
<1> DEFINE len == Len(numbers)
           more == Append(numbers, n)
<1>1. len \in Nat /\ DOMAIN numbers = 1 .. len /\ DOMAIN more = 1 .. len + 1
      /\ (\A i \in 1 .. len : more[i] = numbers[i]) /\ more[len + 1] = n
  OBVIOUS
<1>2. 1 .. len + 1 = (1 .. len) \union {len + 1}
  BY <1>1
<1>3. Range(more) = Range(numbers) \union {n}
  BY <1>1, <1>2 DEF Range
<1>4. ASSUME NEW i \in 1 .. len + 1, NEW k \in 1 .. len + 1, i < k
      PROVE  more[i] < more[k]
  <2>1. i \in 1 .. len
    BY <1>1, <1>4
  <2>2. CASE k = len + 1
    BY <1>1, <2>1, <2>2 DEF Range
  <2>3. CASE k # len + 1
    <3>1. k \in 1 .. len
      BY <1>1, <2>3
    <3> QED
      BY <1>1, <1>4, <2>1, <3>1 DEF Increasing
  <2> QED
    BY <2>2, <2>3
<1> QED
  BY <1>1, <1>3, <1>4 DEF Increasing

\* Scanning keeps the list of each word the list of the lines that say it.
LEMMA ListExactKept ==
  ASSUME TypeOK, Scan, NEW w \in Lists[kind], ListExact(w)
  PROVE  ListExact(w)'
<1>1. at' = at + 1 /\ file' = file /\ kind' = kind /\ Reading
  BY ScanStep
<1>2. kind \in Kind /\ w \in Word
  BY WordsOfKinds DEF TypeOK
<1>3. SaidBy(w)' = SaidBy(w) \union (IF SaysAt(w, at + 1) THEN {at + 1} ELSE {})
  BY <1>1, <1>2, OneLineMore
<1>4. CASE Add /\ NextLine.word = w
  <2>1. SaysAt(w, at + 1)
    BY <1>4 DEF Add, SaysAt, Says, NextLine
  <2>2. list' = [list EXCEPT ![w] = Append(@, at + 1)] /\ list \in [Word -> Seq(1 .. Len(file))]
    BY <1>4 DEF Add, TypeOK
  <2>3. list'[w] = Append(list[w], at + 1) /\ list[w] \in Seq(Nat)
    <3>1. list[w] \in Seq(1 .. Len(file))
      BY <1>2, <2>2
    <3>2. list[w] \in Seq(Nat)
      BY <3>1
    <3> QED
      BY <1>2, <2>2, <3>2
  <2>4. at + 1 \in Nat /\ \A m \in Range(list[w]) : m < at + 1
    <3>1. at \in Nat
      BY <1>1, NextIsLine
    <3>2. Range(list[w]) \subseteq 1 .. at
      BY DEF ListExact, SaidBy
    <3> QED
      BY <3>1, <3>2
  <2>5. PICK later : later = list'[w]
    OBVIOUS
  <2>6. Increasing(later) /\ Range(later) = Range(list[w]) \union {at + 1}
    BY <2>3, <2>4, <2>5, AppendIncreasing DEF ListExact
  <2> QED
    BY <1>3, <2>1, <2>5, <2>6 DEF ListExact, Increasing
<1>5. CASE ~(Add /\ NextLine.word = w)
  <2>1. list'[w] = list[w]
    BY <1>2, <1>5 DEF Scan, Set, Add, Pass, TypeOK
  <2>2. ~SaysAt(w, at + 1)
    <3>1. Set => ~Says(NextLine, {w})
      BY <1>2, SwitchesDisjoint DEF Set, Says
    <3>2. Pass => ~Says(NextLine, {w})
      BY DEF Pass, Says
    <3>3. Add => ~Says(NextLine, {w})
      BY <1>5 DEF Says
    <3> QED
      BY <3>1, <3>2, <3>3 DEF Scan, SaysAt, NextLine
  <2> QED
    BY <1>3, <2>1, <2>2 DEF ListExact, Increasing
<1> QED
  BY <1>4, <1>5

SingleExact(w) ==
  \/ single[w] = "" /\ \A n \in 1 .. at : ~SaysAt(w, n)
  \/ \E n \in 1 .. at : LastToSay(w, n) /\ single[w] = Value(file[n])

\* Scanning keeps the value of each single word that of the last line to say it.
LEMMA SingleExactKept ==
  ASSUME TypeOK, Scan, NEW w \in Singles[kind], SingleExact(w)
  PROVE  SingleExact(w)'
<1>1. at' = at + 1 /\ file' = file /\ kind' = kind /\ Reading
  BY ScanStep
<1>2. kind \in Kind /\ w \in Word /\ at \in Nat
  BY <1>1, NextIsLine, WordsOfKinds DEF TypeOK
<1>3. \A n : SaysAt(w, n)' <=> SaysAt(w, n)
  BY <1>1 DEF SaysAt, Says, Value
<1>4. \A n : Value(file[n])' = Value(file[n])
  BY <1>1 DEF Value
<1>5. CASE Set /\ NextLine.word = w
  <2>1. SaysAt(w, at + 1)
    BY <1>5 DEF Set, SaysAt, Says, NextLine
  <2>2. single'[w] = Value(file[at + 1])
    BY <1>2, <1>5 DEF Set, TypeOK, NextLine
  <2>3. PICK here : here = at + 1
    OBVIOUS
  <2>4. here \in 1 .. at' /\ {m \in here + 1 .. at' : TRUE} = {}
    BY <1>1, <1>2, <2>3
  <2>5. LastToSay(w, here)'
    BY <1>3, <2>1, <2>3, <2>4 DEF LastToSay
  <2>6. single'[w] = Value(file[here])'
    BY <1>4, <2>2, <2>3
  <2> QED
    BY <2>4, <2>5, <2>6 DEF SingleExact
<1>6. CASE ~(Set /\ NextLine.word = w)
  <2>1. single'[w] = single[w]
    BY <1>2, <1>6 DEF Scan, Set, Add, Pass, TypeOK
  <2>2. ~SaysAt(w, at + 1)
    <3>1. Add => ~Says(NextLine, {w})
      BY <1>2, SwitchesDisjoint DEF Add, Says
    <3>2. Pass => ~Says(NextLine, {w})
      BY DEF Pass, Says
    <3>3. Set => ~Says(NextLine, {w})
      BY <1>6 DEF Says
    <3> QED
      BY <3>1, <3>2, <3>3 DEF Scan, SaysAt, NextLine
  <2>3. CASE single[w] = "" /\ \A n \in 1 .. at : ~SaysAt(w, n)
    <3>1. 1 .. at + 1 = (1 .. at) \union {at + 1}
      BY <1>2
    <3>2. \A n \in 1 .. at + 1 : ~SaysAt(w, n)
      BY <2>2, <2>3, <3>1
    <3> QED
      BY <1>1, <1>3, <2>1, <2>3, <3>2 DEF SingleExact
  <2>4. CASE \E n \in 1 .. at : LastToSay(w, n) /\ single[w] = Value(file[n])
    <3>1. PICK n \in 1 .. at : LastToSay(w, n) /\ single[w] = Value(file[n])
      BY <2>4
    <3>2. SaysAt(w, n) /\ \A m \in n + 1 .. at + 1 : ~SaysAt(w, m)
      BY <1>2, <2>2, <3>1 DEF LastToSay
    <3>3. LastToSay(w, n)' /\ n \in 1 .. at'
      BY <1>1, <1>2, <1>3, <3>2 DEF LastToSay
    <3> QED
      BY <1>4, <2>1, <3>1, <3>3 DEF SingleExact
  <2> QED
    BY <2>3, <2>4 DEF SingleExact
<1> QED
  BY <1>5, <1>6

\* What was gathered is what the lines so far say (ScanIsExact).
THEOREM ScansAreExact == Spec => []ScanIsExact
<1> DEFINE Exact == NoneBad /\ (\A w \in Lists[kind] : ListExact(w)) /\ (\A w \in Singles[kind] : SingleExact(w))
<1>1. Init => Exact
  <2> SUFFICES ASSUME Init PROVE Exact
    OBVIOUS
  <2>1. at = 0 /\ 1 .. at = {} /\ kind \in Kind
    BY DEF Init
  <2>2. \A w \in Lists[kind] : list[w] = <<>>
    BY <2>1, WordsOfKinds DEF Init, NothingListed
  <2>3. \A w \in Singles[kind] : single[w] = ""
    BY <2>1, WordsOfKinds DEF Init, NothingSingle
  <2>4. \A w \in Lists[kind] : ListExact(w)
    BY <2>1, <2>2 DEF ListExact, SaidBy, Range, Increasing
  <2> QED
    BY <2>1, <2>3, <2>4 DEF NoneBad, SingleExact
<1>2. TypeOK /\ (status # "refused" => Exact) /\ [Next]_parserVars => (status # "refused" => Exact)'
  <2> SUFFICES ASSUME TypeOK, status # "refused" => Exact, [Next]_parserVars, status' # "refused"
               PROVE  Exact'
    OBVIOUS
  <2>1. CASE Scan
    <3>1. Exact /\ kind' = kind
      BY <2>1, ScanStep
    <3>2. NoneBad'
      BY <2>1, <3>1, NoneBadKept
    <3>3. \A w \in Lists[kind] : ListExact(w)'
      BY <2>1, <3>1, ListExactKept
    <3>4. \A w \in Singles[kind] : SingleExact(w)'
      BY <2>1, <3>1, SingleExactKept
    <3> QED
      BY <3>1, <3>2, <3>3, <3>4
  <2>2. CASE Refused
    BY <2>2 DEF Refused
  <2>3. CASE Accept \/ UNCHANGED parserVars
    <3>1. /\ kind' = kind /\ file' = file /\ at' = at /\ single' = single /\ list' = list
          /\ status # "refused"
      BY <2>3 DEF Accept, parserVars
    <3>2. Exact
      BY <3>1
    <3>3. NoneBad'
      BY <3>1, <3>2 DEF NoneBad, Bad, Malformed, Says, Value
    <3>4. \A w \in Lists[kind] : ListExact(w)'
      BY <3>1, <3>2 DEF ListExact, SaidBy, Increasing, SaysAt, Says, Value
    <3>5. \A w \in Singles[kind] : SingleExact(w)'
      BY <3>1, <3>2 DEF SingleExact, LastToSay, SaysAt, Says, Value
    <3> QED
      BY <3>1, <3>3, <3>4, <3>5
  <2> QED
    BY <2>1, <2>2, <2>3 DEF Next, Scan, Refuse, Reject
<1>3. (status # "refused" => Exact) => ScanIsExact
  BY DEF NoneBad, ListExact, SaidBy, Increasing, SingleExact, ScanIsExact
<1> QED
  BY <1>1, <1>2, <1>3, TypeCorrect, PTL DEF Spec

-----------------------------------------------------------------------------
(* The whole file *)

\* An increasing sequence counts its own elements.
LEMMA IncreasingCounts ==
  ASSUME NEW n \in Nat, NEW s \in [1 .. n -> Nat], \A i, k \in 1 .. n : i < k => s[i] < s[k],
         NEW j \in 0 .. n
  PROVE  Cardinality({s[i] : i \in 1 .. j}) = j /\ IsFiniteSet({s[i] : i \in 1 .. j})
<1> DEFINE front == [i \in 1 .. j |-> s[i]]
           values == {s[i] : i \in 1 .. j}
<1>1. 1 .. j \subseteq 1 .. n /\ j \in Nat
  OBVIOUS
<1>2. \A i, k \in 1 .. j : s[i] = s[k] => i = k
  <2> SUFFICES ASSUME NEW i \in 1 .. j, NEW k \in 1 .. j, s[i] = s[k] PROVE i = k
    OBVIOUS
  <2>1. i \in 1 .. n /\ k \in 1 .. n /\ s[i] \in Nat /\ s[k] \in Nat
    BY <1>1
  <2>2. ~(i < k) /\ ~(k < i)
    BY <2>1
  <2> QED
    BY <2>1, <2>2
<1>3. front \in Bijection(1 .. j, values)
  BY <1>2 DEF Bijection, Injection, Surjection, IsInjective
<1>4. IsFiniteSet(1 .. j) /\ Cardinality(1 .. j) = j
  BY <1>1, FS_Interval
<1>5. ExistsBijection(1 .. j, values)
  BY <1>3 DEF ExistsBijection
<1> QED
  BY <1>4, <1>5, FS_Bijection

\* What is known when the scan is over.
Scanned ==
  /\ TypeOK /\ at = Len(file) /\ NoneBad
  /\ \A w \in Lists[kind] : ListExact(w)
  /\ \A w \in Singles[kind] : SingleExact(w)

\* Then lists are the lines of their words.
LEMMA ScannedList ==
  ASSUME Scanned, NEW w \in Lists[kind]
  PROVE  /\ list[w] \in Seq(Nat) /\ Range(list[w]) = Numbers(w) /\ Increasing(list[w])
         /\ Numbers(w) \subseteq DOMAIN file
         /\ DOMAIN Listed[w] = 1 .. Len(list[w]) /\ Len(list[w]) \in Nat
         /\ \A i \in 1 .. Len(list[w]) : Listed[w][i] = Value(file[list[w][i]]) /\ list[w][i] \in Numbers(w)
<1>1. kind \in Kind /\ w \in Word /\ file \in Seq(Line) /\ at = Len(file)
  BY WordsOfKinds, TextAssumption DEF Scanned, TypeOK
<1>2. DOMAIN file = 1 .. at
  BY <1>1
<1>3. list[w] \in Seq(1 .. Len(file)) /\ Len(file) \in Nat
  BY <1>1 DEF Scanned, TypeOK
<1>4. list[w] \in Seq(Nat) /\ DOMAIN list[w] = 1 .. Len(list[w]) /\ Len(list[w]) \in Nat
  BY <1>3
<1>5. Range(list[w]) = Numbers(w) /\ Increasing(list[w])
  BY <1>2 DEF Scanned, ListExact, SaidBy, Numbers
<1>6. \A i \in 1 .. Len(list[w]) : list[w][i] \in Numbers(w)
  BY <1>4, <1>5 DEF Range
<1>7. Listed[w] = [i \in DOMAIN list[w] |-> Value(file[list[w][i]])]
  BY <1>1 DEF Listed
<1> QED
  BY <1>4, <1>5, <1>6, <1>7 DEF Numbers

\* And single words have the values that are final, or none.
LEMMA ScannedSingle ==
  ASSUME Scanned, NEW w \in Singles[kind]
  PROVE  /\ single[w] # "" <=> Numbers(w) # {}
         /\ single[w] # "" => Final(w, single[w])
         /\ \A value : Final(w, value) => single[w] = value
<1>1. file \in Seq(Line) /\ at = Len(file)
  BY TextAssumption DEF Scanned, TypeOK
<1>2. DOMAIN file = 1 .. at /\ at \in Nat
  BY <1>1
<1>3. CASE single[w] = "" /\ \A n \in 1 .. at : ~SaysAt(w, n)
  <2>1. Numbers(w) = {}
    BY <1>2, <1>3 DEF Numbers
  <2> QED
    BY <1>3, <2>1 DEF Final
<1>4. CASE \E n \in 1 .. at : LastToSay(w, n) /\ single[w] = Value(file[n])
  <2>1. PICK n \in 1 .. at : LastToSay(w, n) /\ single[w] = Value(file[n])
    BY <1>4
  <2>2. n \in Numbers(w) /\ single[w] # ""
    BY <1>2, <2>1 DEF LastToSay, Numbers, SaysAt, Says
  <2>3. \A m \in Numbers(w) : m <= n
    <3> SUFFICES ASSUME NEW m \in Numbers(w), ~(m <= n) PROVE FALSE
      OBVIOUS
    <3>1. m \in 1 .. at /\ SaysAt(w, m)
      BY <1>2 DEF Numbers
    <3>2. m \in n + 1 .. at
      BY <1>2, <2>1, <3>1
    <3> QED
      BY <2>1, <3>1, <3>2 DEF LastToSay
  <2>4. \A m \in Numbers(w) : (\A k \in Numbers(w) : k <= m) => m = n
    <3> SUFFICES ASSUME NEW m \in Numbers(w), \A k \in Numbers(w) : k <= m PROVE m = n
      OBVIOUS
    <3>1. n <= m /\ m <= n /\ m \in 1 .. at /\ n \in 1 .. at
      BY <1>2, <2>2, <2>3 DEF Numbers
    <3> QED
      BY <3>1
  <2> QED
    BY <2>1, <2>2, <2>3, <2>4 DEF Final
<1> QED
  BY <1>3, <1>4 DEF Scanned, SingleExact

\* The check at the end of ParseProgram asks for a good program.
LEMMA ProgramCheck ==
  ASSUME Scanned, kind = "program"
  PROVE  ValidProgram(single, Listed) <=> GoodProgram
<1>1. \A w \in {"case", "program", "namespace", "output"} : single[w] # "" <=> Numbers(w) # {}
  BY ScannedSingle DEF Singles
<1>2. "obligation" \in Lists[kind]
  BY DEF Lists
<1> DEFINE l == list["obligation"]
<1>3. /\ l \in Seq(Nat) /\ Len(l) \in Nat /\ Range(l) = Numbers("obligation") /\ Increasing(l)
      /\ Len(Listed["obligation"]) = Len(l) /\ Numbers("obligation") \subseteq DOMAIN file
  <2>1. DOMAIN Listed["obligation"] = 1 .. Len(l) /\ Len(l) \in Nat
    BY <1>2, ScannedList
  <2>2. "obligation" \in Word
    BY <1>2, WordsOfKinds DEF Scanned, TypeOK
  <2>3. Len(Listed["obligation"]) = Len(l)
    BY <2>1
  <2> QED
    BY <1>2, <2>3, ScannedList
<1>4. ASSUME Len(l) = 1 PROVE \E n \in DOMAIN file : Numbers("obligation") = {n}
  <2>1. Range(l) = {l[1]}
    BY <1>3, <1>4 DEF Range
  <2> QED
    BY <1>3, <2>1
<1>5. ASSUME NEW n \in DOMAIN file, Numbers("obligation") = {n} PROVE Len(l) = 1
  <2>0. DOMAIN l = 1 .. Len(l) /\ n \in Range(l) /\ \A m \in Range(l) : m = n
    BY <1>3, <1>5
  <2>1. PICK i \in 1 .. Len(l) : l[i] = n
    BY <2>0 DEF Range
  <2>2. \A k \in 1 .. Len(l) : l[k] = n
    BY <2>0 DEF Range
  <2>3. n \in Nat
    BY <1>3, <2>1
  <2>4. ~(Len(l) >= 2)
    <3> SUFFICES ASSUME Len(l) >= 2 PROVE FALSE
      OBVIOUS
    <3>1. 1 \in DOMAIN l /\ 2 \in DOMAIN l
      BY <1>3
    <3>2. l[1] < l[2]
      BY <1>3, <3>1 DEF Increasing
    <3>3. l[1] = n /\ l[2] = n
      BY <1>3, <2>2
    <3> QED
      BY <2>3, <3>2, <3>3
  <2>5. Len(l) >= 1
    BY <1>3, <2>1
  <2>6. Len(l) \in Nat
    BY <1>3
  <2>7. \A k \in Nat : ~(k >= 2) /\ k >= 1 => k = 1
    OBVIOUS
  <2> QED
    BY <2>4, <2>5, <2>6, <2>7
<1> QED
  BY <1>1, <1>3, <1>4, <1>5 DEF ValidProgram, GoodProgram

\* validateMeta asks for a good meta file: its list of indicators is the
\* expected one when the lines that say indicator are.
LEMMA IndicatorCheck ==
  ASSUME Scanned, kind = "meta"
  PROVE  Listed["indicator"] = ExpectedIndicators <=>
           /\ Cardinality(Numbers("indicator")) = Len(ExpectedIndicators)
           /\ \A n \in Numbers("indicator") :
                Value(file[n]) = ExpectedIndicators[Cardinality(Numbers("indicator") \intersect 1 .. n)]
<1> DEFINE l == list["indicator"]
           said == Numbers("indicator")
<1>1. "indicator" \in Lists[kind] /\ "indicator" \in Word
  BY WordsOfKinds DEF Lists, Scanned, TypeOK
<1>2. /\ l \in Seq(Nat) /\ Range(l) = said /\ Increasing(l)
      /\ DOMAIN Listed["indicator"] = 1 .. Len(l) /\ Len(l) \in Nat
      /\ \A i \in 1 .. Len(l) : Listed["indicator"][i] = Value(file[l[i]]) /\ l[i] \in said
  BY <1>1, ScannedList
<1>3. PICK len \in Nat : len = Len(l) /\ l \in [1 .. len -> Nat] /\ DOMAIN l = 1 .. len
  BY <1>2
<1>4. \A i, k \in 1 .. len : i < k => l[i] < l[k]
  BY <1>2, <1>3 DEF Increasing
<1>5. said = {l[i] : i \in 1 .. len}
  BY <1>2, <1>3 DEF Range
<1>6. Cardinality(said) = len
  BY <1>3, <1>4, <1>5, IncreasingCounts
<1>7. \A j \in 1 .. len : Cardinality(said \intersect 1 .. l[j]) = j
  <2> TAKE j \in 1 .. len
  <2>1. \A i \in 1 .. len : l[i] \in Nat /\ (l[i] \in 1 .. l[j] <=> l[i] # 0 /\ i <= j)
    <3> TAKE i \in 1 .. len
    <3>1. l[i] \in Nat /\ l[j] \in Nat
      BY <1>3
    <3>2. i <= j => l[i] <= l[j]
      BY <1>3, <1>4, <3>1
    <3>3. ~(i <= j) => l[j] < l[i]
      BY <1>3, <1>4
    <3> QED
      BY <3>1, <3>2, <3>3
  <2>2. \A i \in 1 .. len : l[i] # 0
    <3>1. file \in Seq(Line)
      BY TextAssumption DEF Scanned, TypeOK
    <3>2. DOMAIN file = 1 .. Len(file) /\ Len(file) \in Nat
      BY <3>1
    <3>3. said \subseteq DOMAIN file
      BY <1>1, ScannedList
    <3> QED
      BY <1>5, <3>2, <3>3
  <2>3. said \intersect 1 .. l[j] = {l[i] : i \in 1 .. j}
    <3>1. 1 .. j = {i \in 1 .. len : i <= j}
      BY <1>3
    <3> QED
      BY <1>5, <2>1, <2>2, <3>1
  <2>4. j \in 0 .. len
    OBVIOUS
  <2>5. Cardinality({l[i] : i \in 1 .. j}) = j
    BY <1>3, <1>4, <2>4, IncreasingCounts
  <2> QED
    BY <2>3, <2>5
<1>8. Len(ExpectedIndicators) = 7 /\ DOMAIN ExpectedIndicators = 1 .. 7
  BY DEF ExpectedIndicators
<1>9. Listed["indicator"] = ExpectedIndicators <=>
        len = 7 /\ \A i \in 1 .. len : Value(file[l[i]]) = ExpectedIndicators[i]
  <2>1. Listed["indicator"] = [i \in 1 .. len |-> Value(file[l[i]])]
    BY <1>1, <1>3 DEF Listed
  <2>2. ExpectedIndicators = [i \in 1 .. 7 |-> ExpectedIndicators[i]]
    BY DEF ExpectedIndicators
  <2>3. 1 .. len = 1 .. 7 => len = 7
    <3> SUFFICES ASSUME 1 .. len = 1 .. 7 PROVE len = 7
      OBVIOUS
    <3>1. 7 \in 1 .. len
      OBVIOUS
    <3>2. len \in 1 .. 7
      BY <3>1
    <3> QED
      BY <3>1, <3>2
  <2>4. ASSUME Listed["indicator"] = ExpectedIndicators
        PROVE  len = 7 /\ \A i \in 1 .. len : Value(file[l[i]]) = ExpectedIndicators[i]
    <3>1. 1 .. len = 1 .. 7
      BY <1>8, <2>1, <2>4
    <3> QED
      BY <2>1, <2>3, <2>4, <3>1
  <2> QED
    BY <2>1, <2>2, <2>4
<1>10. (\A n \in said : Value(file[n]) = ExpectedIndicators[Cardinality(said \intersect 1 .. n)])
         <=> \A i \in 1 .. len : Value(file[l[i]]) = ExpectedIndicators[i]
  BY <1>5, <1>7
<1> QED
  BY <1>6, <1>8, <1>9, <1>10

\* The rest of validateMeta.
LEMMA MetaCheck ==
  ASSUME Scanned, kind = "meta"
  PROVE  ValidMeta(single, Listed) <=> GoodMeta
<1>1. \A w \in {"program", "namespace", "receipt_schema", "receipt_policy", "impact_policy"} :
        single[w] # "" <=> Numbers(w) # {}
  BY ScannedSingle DEF Singles
<1>2. \A w \in {"claim", "obligation", "edge", "activity"} : Listed[w] # <<>> <=> Numbers(w) # {}
  <2> TAKE w \in {"claim", "obligation", "edge", "activity"}
  <2>1. w \in Lists[kind]
    BY DEF Lists
  <2>2. /\ list[w] \in Seq(Nat) /\ Range(list[w]) = Numbers(w)
        /\ DOMAIN Listed[w] = 1 .. Len(list[w]) /\ Len(list[w]) \in Nat
    BY <2>1, ScannedList
  <2>3. w \in Word
    BY <2>1, WordsOfKinds DEF Scanned, TypeOK
  <2>4. Listed[w] = [i \in 1 .. Len(list[w]) |-> Value(file[list[w][i]])]
    BY <2>2, <2>3 DEF Listed
  <2>5. Listed[w] # <<>> <=> Len(list[w]) # 0
    BY <2>2, <2>4
  <2>6. Numbers(w) # {} <=> Len(list[w]) # 0
    <3>1. DOMAIN list[w] = 1 .. Len(list[w])
      BY <2>2
    <3>2. (1 .. Len(list[w])) # {} <=> Len(list[w]) # 0
      BY <2>2
    <3> QED
      BY <2>2, <3>1, <3>2 DEF Range
  <2> QED
    BY <2>5, <2>6
<1>3. \A w \in DOMAIN FixedValues : single[w] = FixedValues[w] <=> Final(w, FixedValues[w])
  <2> TAKE w \in DOMAIN FixedValues
  <2>1. DOMAIN FixedValues = {"delta_definition", "improvement_policy", "unchanged_claim",
                              "regression_claim", "precedence", "receipt_policy"}
    BY DEF FixedValues
  <2>2. w \in Singles[kind]
    BY <2>1 DEF Singles
  <2>3. FixedValues[w] # ""
    <3>1. /\ FixedValues["delta_definition"] # "" /\ FixedValues["improvement_policy"] # ""
          /\ FixedValues["unchanged_claim"] # "" /\ FixedValues["regression_claim"] # ""
          /\ FixedValues["precedence"] # "" /\ FixedValues["receipt_policy"] # ""
      BY DEF FixedValues
    <3> QED
      BY <2>1, <3>1
  <2> QED
    BY <2>2, <2>3, ScannedSingle
<1>4. Listed["indicator"] = ExpectedIndicators <=>
           /\ Cardinality(Numbers("indicator")) = Len(ExpectedIndicators)
           /\ \A n \in Numbers("indicator") :
                Value(file[n]) = ExpectedIndicators[Cardinality(Numbers("indicator") \intersect 1 .. n)]
  BY IndicatorCheck
<1> QED
  BY <1>1, <1>2, <1>3, <1>4 DEF ValidMeta, GoodMeta

\* A file is accepted exactly when it is good (VerdictIsExact).
THEOREM VerdictsAreExact == Spec => []VerdictIsExact
<1> DEFINE Judged == /\ VerdictIsExact
                     /\ status = "accepted" => Valid
<1>1. Init => Judged
  BY DEF Init, VerdictIsExact
<1>2. TypeOK /\ ScanIsExact /\ Judged /\ [Next]_parserVars => Judged'
  <2> SUFFICES ASSUME TypeOK, ScanIsExact, Judged, [Next]_parserVars PROVE Judged'
    OBVIOUS
  <2>0. DOMAIN file = 1 .. Len(file)
    <3>1. file \in Seq(Line)
      BY TextAssumption DEF TypeOK
    <3> QED
      BY <3>1
  <2>1. status = "reading" /\ at = Len(file) => (Valid <=> GoodFile)
    <3> SUFFICES ASSUME status = "reading", at = Len(file) PROVE Valid <=> GoodFile
      OBVIOUS
    <3>1. Scanned
      BY DEF Scanned, ScanIsExact, NoneBad, ListExact, SaidBy, Increasing, SingleExact
    <3>2. \A n \in DOMAIN file : ~Bad(n)
      BY <2>0, <3>1 DEF Scanned, NoneBad
    <3> QED
      BY <3>1, <3>2, MetaCheck, ProgramCheck DEF Valid, GoodFile, TypeOK, Kind
  <2>2. GoodFile' <=> GoodFile
    <3>1. kind' = kind /\ file' = file
      BY DEF Next, Set, Add, Pass, Refuse, Accept, Reject, Refused, parserVars
    <3> QED
      BY <3>1 DEF GoodFile, GoodMeta, GoodProgram, Final, Numbers, SaysAt, Says, Value, Bad, Malformed
  <2>3. CASE Scan
    <3>1. status' = "reading"
      BY <2>3, ScanStep
    <3> QED
      BY <3>1 DEF VerdictIsExact
  <2>4. CASE Refuse
    <3>1. Bad(at + 1) /\ at + 1 \in DOMAIN file
      BY <2>0, <2>4, NextIsLine DEF Refuse, Bad, NextLine
    <3>2. ~GoodFile /\ status' = "refused"
      BY <2>4, <3>1 DEF GoodFile, Refuse, Refused
    <3> QED
      BY <2>2, <3>2 DEF VerdictIsExact
  <2>5. CASE Accept
    <3>1. status' = "accepted" /\ GoodFile /\ Valid
      BY <2>1, <2>5 DEF Accept
    <3>2. Valid'
      BY <2>5, <3>1 DEF Accept, Valid, Listed, Value
    <3> QED
      BY <2>2, <3>1, <3>2 DEF VerdictIsExact
  <2>6. CASE Reject
    <3>1. status' = "refused" /\ ~GoodFile
      BY <2>1, <2>6 DEF Reject, Refused
    <3> QED
      BY <2>2, <3>1 DEF VerdictIsExact
  <2>7. CASE UNCHANGED parserVars
    <3>1. Valid' <=> Valid
      BY <2>7 DEF parserVars, Valid, Listed, Value
    <3> QED
      BY <2>2, <2>7, <3>1 DEF parserVars, VerdictIsExact
  <2> QED
    BY <2>3, <2>4, <2>5, <2>6, <2>7 DEF Next, Scan
<1> QED
  BY <1>1, <1>2, TypeCorrect, ScansAreExact, PTL DEF Spec

-----------------------------------------------------------------------------
(* What the planner sees of it *)

\* What an accepted program says of effects, of its obligation and of its last
\* decision reaches the plan (RestrictionsReachThePlan).
THEOREM RestrictionsReach == Spec => []RestrictionsReachThePlan
<1>1. Spec => [](status = "accepted" => Valid)
  <2>1. Init => (status = "accepted" => Valid)
    BY DEF Init
  <2>2. (status = "accepted" => Valid) /\ [Next]_parserVars => (status = "accepted" => Valid)'
    BY DEF Next, Set, Add, Pass, Refuse, Accept, Reject, Refused, Reading, parserVars, Valid, Listed, Value
  <2> QED
    BY <2>1, <2>2, PTL DEF Spec
<1>2. TypeOK /\ ScanIsExact /\ (status = "accepted" => Valid) => RestrictionsReachThePlan
  <2> SUFFICES ASSUME TypeOK, ScanIsExact, Valid, status = "accepted", kind = "program"
               PROVE  RestrictionsReachThePlan
    BY DEF RestrictionsReachThePlan
  <2>1. Scanned
    BY DEF Scanned, TypeOK, ScanIsExact, NoneBad, ListExact, SaidBy, Increasing, SingleExact
  <2> DEFINE refuted == ValidationRefuted(GivenMeta, Parsed)
             unknown == ValidationUnknown(Parsed)
  <2>2. refuted # {} => Reduce(unknown, refuted) = "REFUTED"
    BY DEF Reduce
  <2>3. ASSUME NEW n \in Numbers("effect"), Value(file[n]) \in GivenMeta.forbidden
        PROVE  refuted # {}
    <3>1. "effect" \in Lists[kind]
      BY DEF Lists
    <3>2. /\ Range(list["effect"]) = Numbers("effect") /\ list["effect"] \in Seq(Nat)
          /\ DOMAIN Listed["effect"] = 1 .. Len(list["effect"])
          /\ \A i \in 1 .. Len(list["effect"]) : Listed["effect"][i] = Value(file[list["effect"][i]])
      BY <2>1, <3>1, ScannedList
    <3>3. PICK i \in 1 .. Len(list["effect"]) : list["effect"][i] = n
      <4>1. DOMAIN list["effect"] = 1 .. Len(list["effect"])
        BY <3>2
      <4> QED
        BY <3>2, <4>1 DEF Range
    <3>4. Value(file[n]) \in Range(Listed["effect"])
      BY <3>2, <3>3 DEF Range
    <3>5. Value(file[n]) \in Parsed.effects \cap GivenMeta.forbidden
      BY <2>3, <3>4 DEF Parsed
    <3>6. "FORBIDDEN_EFFECT" \in Claim(Parsed.effects \cap GivenMeta.forbidden # {}, "FORBIDDEN_EFFECT")
      BY <3>5 DEF Claim
    <3> QED
      BY <3>6 DEF ValidationRefuted
  <2>4. ASSUME NEW n \in Numbers("obligation"),
               \E field \in {"contract", "fixture", "toolchain", "runner"} :
                 ObligationOf[Value(file[n])][field] # GivenMeta.obligation[field]
        PROVE  refuted # {}
    <3>1. "obligation" \in Lists[kind] /\ GoodProgram
      BY <2>1, ProgramCheck DEF Lists, Valid
    <3>2. Numbers("obligation") = {n}
      BY <3>1 DEF GoodProgram
    <3>3. /\ DOMAIN Listed["obligation"] = 1 .. Len(list["obligation"]) /\ Len(list["obligation"]) \in Nat
          /\ Range(list["obligation"]) = Numbers("obligation") /\ list["obligation"] \in Seq(Nat)
          /\ \A i \in 1 .. Len(list["obligation"]) :
               /\ Listed["obligation"][i] = Value(file[list["obligation"][i]])
               /\ list["obligation"][i] \in Numbers("obligation")
      BY <2>1, <3>1, ScannedList
    <3>4. 1 \in 1 .. Len(list["obligation"])
      <4>1. DOMAIN list["obligation"] = 1 .. Len(list["obligation"])
        BY <3>3
      <4>2. PICK i \in 1 .. Len(list["obligation"]) : list["obligation"][i] = n
        BY <3>2, <3>3, <4>1 DEF Range
      <4> QED
        BY <3>3, <4>2
    <3>5. Listed["obligation"][1] = Value(file[n])
      BY <3>2, <3>3, <3>4
    <3>6. Parsed.obligation = ObligationOf[Value(file[n])]
      BY <3>5 DEF Parsed
    <3>7. "OBLIGATION_CONTRACT_MISMATCH" \in
            Claim(\E field \in {"contract", "fixture", "toolchain", "runner"} :
                    Parsed.obligation[field] # GivenMeta.obligation[field],
                  "OBLIGATION_CONTRACT_MISMATCH")
      BY <2>4, <3>6 DEF Claim
    <3> QED
      BY <3>7 DEF ValidationRefuted
  <2>5. ASSUME NEW value \in Text \ {"", "CLOSED"}, Final("decision", value)
        PROVE  Reduce(unknown, refuted) # "CLOSED"
    <3>1. Parsed.top = value
      BY <2>1, <2>5, ScannedSingle DEF Singles, Parsed
    <3>2. CASE value = "UNKNOWN"
      <4>1. unknown # {}
        BY <3>1, <3>2 DEF ValidationUnknown, Claim
      <4> QED
        BY <4>1 DEF Reduce
    <3>3. CASE value = "REFUTED"
      <4>1. "EXPLICIT_REFUTED_TOP_LEVEL_DECISION" \in
              Claim(Parsed.top = "REFUTED", "EXPLICIT_REFUTED_TOP_LEVEL_DECISION")
        BY <3>1, <3>3 DEF Claim
      <4>2. refuted # {}
        BY <4>1 DEF ValidationRefuted
      <4> QED
        BY <2>2, <4>2
    <3>4. CASE value \notin {"UNKNOWN", "REFUTED"}
      <4>1. "UNKNOWN_TOP_LEVEL_DECISION_FAIL_CLOSED" \in
              Claim(Parsed.top \notin {"", "CLOSED", "UNKNOWN", "REFUTED"},
                    "UNKNOWN_TOP_LEVEL_DECISION_FAIL_CLOSED")
        BY <3>1, <3>4 DEF Claim
      <4>2. refuted # {}
        BY <4>1 DEF ValidationRefuted
      <4> QED
        BY <2>2, <4>2
    <3> QED
      BY <3>2, <3>3, <3>4
  <2> QED
    BY <2>2, <2>3, <2>4, <2>5 DEF RestrictionsReachThePlan
<1> QED
  BY <1>1, <1>2, TypeCorrect, ScansAreExact, PTL
=============================================================================
