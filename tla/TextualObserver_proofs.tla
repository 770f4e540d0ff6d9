------------------------- MODULE TextualObserver_proofs -------------------------
(***************************************************************************)
(* What an event reports (TextualObserver): one line at most while it is   *)
(* paused, a whole cycle of its patterns at a time, only what was sent, in *)
(* the order it was sent in, and all of it that matches; and that a        *)
(* command's verdict is that of the whole text.  For every text, every cut *)
(* of it into chunks and every moment of pause() and resume().             *)
(***************************************************************************)
EXTENDS TextualObserver, SequenceTheorems, FiniteSetTheorems, WellFoundedInduction, TLAPS

\* A chunk is cut when the lines of the one before are done; and a paused event that has reported
\* a line has broken off, and gets no other chunk.
OneChunk == chunk # <<>> => todo = <<>>
BrokeOff == late = 1 => paused /\ Idle
PausedInv == late \in {0, 1} /\ OneChunk /\ BrokeOff

LEMMA PausedInit == ASSUME Init PROVE PausedInv
BY DEF Init, PausedInv, OneChunk, BrokeOff, Idle

LEMMA PausedNext == ASSUME PausedInv, [Next]_vars PROVE PausedInv'
<1> USE DEF PausedInv, OneChunk, BrokeOff, Idle
<1>1. CASE Receive
  \* A paused event does not look at the chunk.
  BY <1>1 DEF Receive
<1>2. CASE CutLines
  BY <1>2 DEF CutLines, Cut
<1>3. CASE ProcessLine
  <2>1. todo # <<>> /\ chunk = <<>> /\ late = 0
    BY <1>3 DEF ProcessLine
  <2>2. paused => todo' = <<>>
    BY <1>3 DEF ProcessLine, RemainingLines
  <2>3. chunk' = <<>> /\ paused' = paused /\ (late' = 0 \/ (paused /\ late' = 1))
    BY <1>3, <2>1 DEF ProcessLine
  <2> QED
    BY <2>2, <2>3
<1>4. CASE CutPieces
  BY <1>4 DEF CutPieces
<1>5. CASE ProcessPiece
  <2>1. todo # <<>> /\ chunk = <<>> /\ late = 0
    BY <1>5 DEF ProcessPiece
  <2>2. chunk' = <<>> /\ late' = 0
    BY <1>5, <2>1 DEF ProcessPiece
  <2> QED
    BY <2>2
<1>6. CASE Pause
  BY <1>6 DEF Pause, Pausing
<1>7. CASE PauseCutsLines
  BY <1>7 DEF PauseCutsLines, Pausing, Cut
<1>8. CASE Resume
  BY <1>8 DEF Resume
<1>9. CASE UNCHANGED vars
  BY <1>9 DEF vars
<1> QED
  BY <1>1, <1>2, <1>3, <1>4, <1>5, <1>6, <1>7, <1>8, <1>9 DEF Next

\* A paused event reports at most the line it was looking at (TextualEvent.pause() and the test of
\* _paused in data_received()): however many lines of the chunk were left when pause() came.
THEOREM PausedEventBreaksOff == Spec => []OneLineWhilePaused
<1>1. PausedInv => OneLineWhilePaused
  BY DEF PausedInv, OneLineWhilePaused
<1> QED
  BY <1>1, PausedInit, PausedNext, PTL DEF Spec

-----------------------------------------------------------------------------
(* A cycle takes a line for each pattern.                                   *)

\* A set of numbers has a smallest one.
Below == {ss \in Nat \X Nat : ss[1] < ss[2]}
LEMMA Smallest == ASSUME NEW S \in SUBSET Nat, S # {} PROVE \E n \in S : \A m \in S : n <= m
<1>1. IsWellFoundedOn(Below, Nat)
  BY NatLessThanWellFounded DEF OpToRel, Below
<1>2. PICK n \in S : \A m \in S : <<m, n>> \notin Below
  BY <1>1, WFMin
<1>3. \A m \in S : ~(m < n)
  BY <1>2 DEF Below
<1> QED
  BY <1>3

\* _current_ret and copy_compiled_patterns are two parts of one order of the patterns: those that
\* have taken a line, and those that have yet to.
Count == Len(Patterns)
Orders == [1..Count -> 1..Count]
IsSeq(s) == \E S : s \in Seq(S)
InCycle(order, lines, rest) ==
    /\ IsInjective(order)
    /\ kind = "sequence" => \A i \in 1..Count : order[i] = i
    /\ Len(lines) + Len(rest) = Count
    /\ \A i \in 1..Len(lines) : Has(lines[i].text, Patterns[order[i]])
    /\ \A i \in 1..Len(rest) : rest[i] = order[Len(lines) + i]
CycleInv ==
    /\ pending \in Seq(1..Count) /\ IsSeq(gathered) /\ IsSeq(occurred)
    /\ kind \in {"all", "sequence"} =>
          /\ \E order \in Orders : InCycle(order, gathered, pending)
          /\ CyclesAreWhole

LEMMA CountIsNat == Count \in Nat /\ DOMAIN Patterns = 1..Count
BY PatternsAssumption DEF Count

LEMMA AppendIsSeq ==
    ASSUME NEW s, IsSeq(s), NEW x
    PROVE  /\ IsSeq(Append(s, x)) /\ Len(Append(s, x)) = Len(s) + 1 /\ Len(s) \in Nat
           /\ \A i \in 1..Len(s) : Append(s, x)[i] = s[i]
           /\ Append(s, x)[Len(s) + 1] = x
           /\ DOMAIN s = 1..Len(s) /\ DOMAIN Append(s, x) = 1..(Len(s) + 1)
<1>1. PICK S : s \in Seq(S)
  BY DEF IsSeq
<1>2. s \in Seq(S \cup {x}) /\ x \in S \cup {x}
  BY <1>1
<1>3. Append(s, x) \in Seq(S \cup {x})
  BY <1>2
<1> QED
  BY <1>2, <1>3 DEF IsSeq

\* The pattern that takes the line is found in it, and is one of those that are pending: the next
\* one in a sequence.
LEMMA MatchingTakes ==
    ASSUME CycleInv, kind \in {"all", "sequence"}, NEW line, NEW i, i = Matching(line), i # 0
    PROVE  /\ i \in 1..Len(pending) /\ Has(line.text, Patterns[pending[i]])
           /\ kind = "sequence" => i = 1
<1> DEFINE found == {j \in DOMAIN pending : Has(line.text, Patterns[pending[j]])}
<1>1. found \in SUBSET Nat /\ found \subseteq 1..Len(pending)
  BY DEF CycleInv
<1>2. \A j \in found : Has(line.text, Patterns[pending[j]])
  OBVIOUS
<1>3. i \in found /\ (kind = "sequence" => i = 1)
  <2>1. CASE kind = "sequence"
    <3>1. i = IF 1 \in found THEN 1 ELSE 0
      BY <2>1 DEF Matching
    <3> HIDE DEF found
    <3> QED
      BY <3>1
  <2>2. CASE kind = "all"
    <3>1. i = IF found = {} THEN 0 ELSE CHOOSE j \in found : \A k \in found : j <= k
      BY <2>2 DEF Matching
    <3> HIDE DEF found
    <3>2. found # {}
      BY <3>1
    <3>3. \E j \in found : \A k \in found : j <= k
      BY <1>1, <3>2, Smallest
    <3> QED
      BY <2>2, <3>1, <3>2, <3>3
  <2> QED
    BY <2>1, <2>2
<1> QED
  BY <1>1, <1>2, <1>3

\* Taking the i-th of the patterns after the first g moves it to the place after those.
Moved(g, i) ==
    [k \in 1..Count |->
        IF k = g + 1 THEN g + i ELSE IF g + 1 < k /\ k <= g + i THEN k - 1 ELSE k]

LEMMA MovedIsInjective ==
    ASSUME NEW g \in Nat, NEW i \in Nat \ {0}, g + i <= Count
    PROVE  Moved(g, i) \in Orders /\ IsInjective(Moved(g, i))
BY CountIsNat DEF Moved, Orders, IsInjective

LEMMA OrderMoves ==
    ASSUME NEW order \in Orders, IsInjective(order),
           NEW g \in Nat, NEW i \in Nat \ {0}, g + i <= Count
    PROVE  LET next == [k \in 1..Count |-> order[Moved(g, i)[k]]]
           IN  next \in Orders /\ IsInjective(next)
<1> DEFINE moved == Moved(g, i)
<1>1. moved \in Orders /\ IsInjective(moved)
  BY MovedIsInjective
<1> HIDE DEF moved
<1> DEFINE next == [k \in 1..Count |-> order[moved[k]]]
<1>2. next \in Orders /\ IsInjective(next)
  BY <1>1 DEF Orders, IsInjective
<1> QED
  BY <1>2 DEF moved

LEMMA RemovedAt ==
    ASSUME NEW S, NEW s \in Seq(S), NEW i \in 1..Len(s)
    PROVE  /\ RemoveAt(s, i) \in Seq(S) /\ Len(RemoveAt(s, i)) = Len(s) - 1
           /\ \A k \in 1..(Len(s) - 1) : RemoveAt(s, i)[k] = IF k < i THEN s[k] ELSE s[k + 1]
<1> DEFINE front == SubSeq(s, 1, i - 1)
           back == SubSeq(s, i + 1, Len(s))
<1>0. Len(s) \in Nat /\ i \in Nat /\ 1 <= i /\ i <= Len(s)
  OBVIOUS
<1>1. /\ front \in Seq(S) /\ Len(front) = i - 1
      /\ \A k \in 1..(i - 1) : front[k] = s[k]
  BY SubSeqProperties
<1>2. /\ back \in Seq(S) /\ Len(back) = Len(s) - i
      /\ \A k \in 1..(Len(s) - i) : back[k] = s[i + k]
  BY SubSeqProperties
<1> HIDE DEF front, back
<1>3. front \o back \in Seq(S) /\ Len(front \o back) = Len(s) - 1
  <2>1. front \o back \in Seq(S) /\ Len(front \o back) = Len(front) + Len(back)
    BY <1>1, <1>2, ConcatProperties
  <2>2. (i - 1) + (Len(s) - i) = Len(s) - 1
    BY <1>0
  <2> QED
    BY <1>1, <1>2, <2>1, <2>2
<1>4. ASSUME NEW k \in 1..(Len(s) - 1), k < i PROVE (front \o back)[k] = s[k]
  <2>1. k \in 1..(i - 1) /\ k \in 1..(Len(front) + Len(back)) /\ k <= Len(front)
    BY <1>0, <1>1, <1>2, <1>4
  <2>2. (front \o back)[k] = front[k]
    BY <1>1, <1>2, <2>1, ConcatProperties
  <2> QED
    BY <1>1, <2>1, <2>2
<1>5. ASSUME NEW k \in 1..(Len(s) - 1), ~(k < i) PROVE (front \o back)[k] = s[k + 1]
  <2>1. /\ k \in 1..(Len(front) + Len(back)) /\ ~(k <= Len(front))
        /\ k - (i - 1) \in 1..(Len(s) - i) /\ i + (k - (i - 1)) = k + 1
    BY <1>0, <1>1, <1>2, <1>5
  <2>2. (front \o back)[k] = IF k <= Len(front) THEN front[k] ELSE back[k - Len(front)]
    BY <1>1, <1>2, <2>1, ConcatProperties
  <2> QED
    BY <1>1, <1>2, <2>1, <2>2
<1>6. \A k \in 1..(Len(s) - 1) : (front \o back)[k] = IF k < i THEN s[k] ELSE s[k + 1]
  BY <1>4, <1>5
<1> QED
  BY <1>3, <1>6 DEF RemoveAt, front, back

\* A line is taken, and the cycle goes on.
LEMMA CycleGoesOn ==
    ASSUME CycleInv, NEW order \in Orders, InCycle(order, gathered, pending),
           NEW i \in 1..Len(pending), kind = "sequence" => i = 1,
           NEW line, Has(line.text, Patterns[pending[i]]),
           NEW lines, lines = Append(gathered, [text |-> line.text, no |-> line.no]),
           NEW rest, rest = RemoveAt(pending, i)
    PROVE  \E next \in Orders : InCycle(next, lines, rest)
<1> DEFINE g == Len(gathered)
           n == Len(pending)
           next == [k \in 1..Count |-> order[Moved(g, i)[k]]]
<1>1. /\ g \in Nat /\ n \in Nat /\ Count \in Nat /\ g + n = Count
      /\ i \in Nat \ {0} /\ i <= n /\ g + i <= Count
  BY CountIsNat, AppendIsSeq DEF CycleInv, InCycle
<1>2. next \in Orders /\ IsInjective(next)
  BY <1>1, OrderMoves DEF InCycle
<1>3. /\ Len(lines) = g + 1 /\ lines[g + 1].text = line.text
      /\ \A k \in 1..g : lines[k] = gathered[k]
  BY AppendIsSeq DEF CycleInv
<1>4. /\ Len(rest) = n - 1
      /\ \A k \in 1..(n - 1) : rest[k] = IF k < i THEN pending[k] ELSE pending[k + 1]
  BY RemovedAt DEF CycleInv
<1>5. \A k \in 1..Count :
        next[k] = IF k = g + 1 THEN order[g + i]
                  ELSE IF g + 1 < k /\ k <= g + i THEN order[k - 1] ELSE order[k]
  BY <1>1 DEF Moved
<1>6. /\ \A k \in 1..g : Has(gathered[k].text, Patterns[order[k]])
      /\ \A k \in 1..n : pending[k] = order[g + k]
      /\ kind = "sequence" => \A k \in 1..Count : order[k] = k
  BY DEF InCycle
<1> HIDE DEF next, g, n
<1>7. ASSUME kind = "sequence", NEW k \in 1..Count PROVE next[k] = k
  <2>1. i = 1
    BY <1>7
  <2>2. ~(g + 1 < k /\ k <= g + i)
    BY <1>1, <2>1
  <2>3. next[k] = IF k = g + 1 THEN order[g + 1] ELSE order[k]
    BY <1>5, <2>1, <2>2
  <2>4. order[k] = k
    BY <1>6, <1>7
  <2> QED
    BY <2>3, <2>4
<1>8. \A k \in 1..(g + 1) : Has(lines[k].text, Patterns[next[k]])
  <2>1. Has(lines[g + 1].text, Patterns[next[g + 1]])
    <3>1. g + 1 \in 1..Count
      BY <1>1
    <3>2. next[g + 1] = order[g + i]
      BY <1>5, <3>1
    <3>3. pending[i] = order[g + i]
      BY <1>1, <1>6
    <3> QED
      BY <1>3, <3>2, <3>3
  <2>2. ASSUME NEW k \in 1..g PROVE Has(lines[k].text, Patterns[next[k]])
    <3>1. k \in 1..Count /\ k # g + 1 /\ ~(g + 1 < k)
      BY <1>1
    <3>2. next[k] = order[k]
      BY <1>5, <3>1
    <3> QED
      BY <1>3, <1>6, <3>2
  <2>3. \A k \in 1..(g + 1) : k = g + 1 \/ k \in 1..g
    BY <1>1
  <2> QED
    BY <2>1, <2>2, <2>3
<1>9. ASSUME NEW k \in 1..(n - 1) PROVE rest[k] = next[g + 1 + k]
  <2>1. CASE k < i
    BY <1>1, <1>4, <1>5, <1>6, <2>1
  <2>2. CASE ~(k < i)
    BY <1>1, <1>4, <1>5, <1>6, <2>2
  <2> QED
    BY <2>1, <2>2
<1>10. Len(lines) + Len(rest) = Count
  <2>1. Len(lines) = g + 1 /\ Len(rest) = n - 1
    BY <1>3, <1>4
  <2>2. (g + 1) + (n - 1) = Count
    BY <1>1
  <2> QED
    BY <2>1, <2>2
<1>11. InCycle(next, lines, rest)
  BY <1>1, <1>2, <1>3, <1>4, <1>7, <1>8, <1>9, <1>10 DEF InCycle
<1> QED
  BY <1>2, <1>11

\* The last pattern takes a line: the cycle is whole.
LEMMA CycleEnds ==
    ASSUME CycleInv, NEW order \in Orders, InCycle(order, gathered, pending), Len(pending) = 1,
           NEW line, Has(line.text, Patterns[pending[1]]),
           NEW lines, lines = Append(gathered, [text |-> line.text, no |-> line.no])
    PROVE  CycleIsWhole(lines)
<1> DEFINE g == Len(gathered)
<1>1. g \in Nat /\ Count \in Nat /\ g + 1 = Count /\ DOMAIN Patterns = 1..Count
  BY CountIsNat, AppendIsSeq DEF CycleInv, InCycle
<1>2. /\ Len(lines) = g + 1 /\ lines[g + 1].text = line.text
      /\ \A k \in 1..g : lines[k] = gathered[k]
  BY AppendIsSeq DEF CycleInv
<1>3. /\ \A k \in 1..g : Has(gathered[k].text, Patterns[order[k]])
      /\ pending[1] = order[g + 1]
  BY <1>1 DEF InCycle
<1> HIDE DEF g
<1>4. \A k \in 1..Count : Has(lines[k].text, Patterns[order[k]])
  BY <1>1, <1>2, <1>3
<1>5. Len(lines) = Len(Patterns)
  BY <1>1, <1>2 DEF Count
<1> QED
  BY <1>1, <1>4, <1>5 DEF CycleIsWhole, InCycle, Orders

\* A cycle begins.
AllPatterns == [k \in DOMAIN Patterns |-> k]
LEMMA CycleBegins ==
    /\ AllPatterns \in Seq(1..Count)
    /\ \E order \in Orders : InCycle(order, <<>>, AllPatterns)
<1>1. Count \in Nat /\ DOMAIN Patterns = 1..Count
  BY CountIsNat
<1>2. AllPatterns \in Seq(1..Count) /\ Len(AllPatterns) = Count /\ AllPatterns \in Orders
  BY <1>1 DEF AllPatterns, Orders
<1>3. InCycle(AllPatterns, <<>>, AllPatterns)
  BY <1>1, <1>2 DEF InCycle, AllPatterns, IsInjective
<1> QED
  BY <1>2, <1>3

LEMMA CycleInit == ASSUME Init PROVE CycleInv
<1>1. IsSeq(<<>>)
  BY DEF IsSeq
<1>2. pending = AllPatterns /\ gathered = <<>> /\ occurred = <<>>
  BY DEF Init, AllPatterns
<1>3. CyclesAreWhole
  BY <1>2 DEF CyclesAreWhole
<1> QED
  BY <1>1, <1>2, <1>3, CycleBegins DEF CycleInv

LEMMA CycleKept ==
    ASSUME CycleInv, UNCHANGED <<kind, pending, gathered, occurred>>
    PROVE  CycleInv'
BY DEF CycleInv, InCycle, CyclesAreWhole, CycleIsWhole

\* The cycles and the cycle under way after a step.
LEMMA CycleStep ==
    ASSUME kind' = kind, pending' \in Seq(1..Count), IsSeq(gathered'), IsSeq(occurred'),
           kind \in {"all", "sequence"} =>
              /\ \E order \in Orders : InCycle(order, gathered', pending')
              /\ \A k \in DOMAIN occurred' : CycleIsWhole(occurred'[k])
    PROVE  CycleInv'
BY DEF CycleInv, InCycle, CyclesAreWhole, CycleIsWhole

LEMMA CycleLine == ASSUME CycleInv, ProcessLine PROVE CycleInv'
<1> DEFINE line == Head(todo)
           i == IF line.full \/ ~fullOnly THEN Matching(line) ELSE 0
           takes == i # 0
           occurs == takes /\ (kind \in {"any", "prompts"} \/ Len(pending) = 1)
           lines == Append(gathered, [text |-> line.text, no |-> line.no])
<1>1. /\ occurred' = IF occurs THEN Append(occurred, lines) ELSE occurred
      /\ gathered' = CASE occurs -> <<>> [] takes /\ ~occurs -> lines [] OTHER -> gathered
      /\ pending' = NextPending(i, occurs)
      /\ kind' = kind
  BY DEF ProcessLine
<1>2. takes => i = Matching(line)
  OBVIOUS
<1>3. /\ occurs <=> takes /\ (kind \in {"any", "prompts"} \/ Len(pending) = 1)
      /\ lines = Append(gathered, [text |-> line.text, no |-> line.no])
      /\ takes <=> i # 0
  OBVIOUS
<1> HIDE DEF line, i, takes, occurs, lines
<1>4. /\ IsSeq(lines) /\ IsSeq(Append(occurred, lines)) /\ DOMAIN occurred = 1..Len(occurred)
      /\ DOMAIN Append(occurred, lines) = 1..(Len(occurred) + 1)
      /\ \A k \in 1..Len(occurred) : Append(occurred, lines)[k] = occurred[k]
      /\ Append(occurred, lines)[Len(occurred) + 1] = lines
      /\ Len(occurred) \in Nat
  BY <1>3, AppendIsSeq DEF CycleInv
<1>5. IsSeq(<<>>)
  BY DEF IsSeq
<1>6. CASE ~takes
  <2>1. occurred' = occurred /\ gathered' = gathered /\ pending' = pending
    BY <1>1, <1>3, <1>6 DEF NextPending
  <2> QED
    BY <1>1, <2>1, CycleKept
<1>7. CASE occurs
  <2>1. occurred' = Append(occurred, lines) /\ gathered' = <<>> /\ pending' = AllPatterns
    BY <1>1, <1>7 DEF NextPending, AllPatterns
  <2>2. ASSUME kind \in {"all", "sequence"} PROVE CycleIsWhole(lines)
    <3>1. Len(pending) = 1 /\ takes
      BY <1>3, <1>7, <2>2
    <3>2. i \in 1..Len(pending) /\ Has(line.text, Patterns[pending[i]])
      BY <1>2, <1>3, <2>2, <3>1, MatchingTakes
    <3>3. i = 1
      BY <3>1, <3>2
    <3>4. PICK order \in Orders : InCycle(order, gathered, pending)
      BY <2>2 DEF CycleInv
    <3> QED
      BY <1>3, <3>1, <3>2, <3>3, <3>4, CycleEnds
  <2>3. ASSUME kind \in {"all", "sequence"}, NEW k \in DOMAIN Append(occurred, lines)
        PROVE  CycleIsWhole(Append(occurred, lines)[k])
    <3>1. CASE k = Len(occurred) + 1
      BY <1>4, <2>2, <2>3, <3>1
    <3>2. CASE k \in 1..Len(occurred)
      BY <1>4, <2>3, <3>2 DEF CycleInv, CyclesAreWhole
    <3> QED
      BY <1>4, <3>1, <3>2
  <2> QED
    BY <1>1, <1>4, <1>5, <2>1, <2>3, CycleBegins, CycleStep
<1>8. CASE takes /\ ~occurs
  <2>1. occurred' = occurred /\ gathered' = lines /\ pending' = RemoveAt(pending, i)
    BY <1>1, <1>3, <1>8 DEF NextPending
  <2>2. kind \notin {"any", "prompts"}
    BY <1>3, <1>8
  <2>3. kind \in {"all", "sequence"}
    BY <2>2 DEF ProcessLine, Events, LineEvents
  <2>4. /\ i \in 1..Len(pending) /\ Has(line.text, Patterns[pending[i]])
        /\ kind = "sequence" => i = 1
    BY <1>2, <1>3, <1>8, <2>3, MatchingTakes
  <2>5. RemoveAt(pending, i) \in Seq(1..Count)
    BY <2>4, RemovedAt DEF CycleInv
  <2>6. PICK order \in Orders : InCycle(order, gathered, pending)
    BY <2>3 DEF CycleInv
  <2>7. \E next \in Orders : InCycle(next, lines, RemoveAt(pending, i))
    BY <1>3, <2>4, <2>6, CycleGoesOn
  <2>8. \A k \in DOMAIN occurred : CycleIsWhole(occurred[k])
    BY <2>3 DEF CycleInv, CyclesAreWhole
  <2>9. IsSeq(occurred)
    BY DEF CycleInv
  <2> QED
    BY <1>1, <1>4, <2>1, <2>5, <2>7, <2>8, <2>9, CycleStep
<1> QED
  BY <1>3, <1>6, <1>7, <1>8

LEMMA CycleNext == ASSUME CycleInv, [Next]_vars PROVE CycleInv'
<1>1. CASE ProcessLine
  BY <1>1, CycleLine
<1>2. CASE ~ProcessLine
  <2>1. UNCHANGED <<kind, pending, gathered, occurred>>
    BY <1>2 DEF Next, Receive, CutLines, CutPieces, ProcessPiece, Pause, PauseCutsLines, Resume,
                vars
  <2> QED
    BY <2>1, CycleKept
<1> QED
  BY <1>1, <1>2

\* An occurrence of "all" or "sequence" is a whole cycle: one line for each of the patterns, in
\* their order for "sequence" (LineEvent.on_new_line, copy_compiled_patterns and _current_ret);
\* whatever the patterns, however the text was cut, and whatever pauses lost of it in between.
THEOREM OccurrencesAreWholeCycles == Spec => []CyclesAreWhole
<1>1. CycleInv => CyclesAreWhole
  BY DEF CycleInv, CyclesAreWhole
<1> QED
  BY <1>1, CycleInit, CycleNext, PTL DEF Spec

-----------------------------------------------------------------------------
(* Lines and places.                                                        *)

Texts == Seq(Tokens \cup {Newline})
\* The newlines in the first i tokens.
Up(s, i) == Newlines(SubSeq(s, 1, i))

\* A sequence of numbers that begins at 0 and goes up by one at most.
Climb(f, n) ==
    /\ f \in [0..n -> Nat] /\ f[0] = 0
    /\ \A i \in 1..n : f[i] = f[i - 1] \/ f[i] = f[i - 1] + 1

LEMMA ClimbRises ==
    ASSUME NEW n \in Nat, NEW f, Climb(f, n), NEW i \in 0..n, NEW j \in 0..n, i <= j
    PROVE  f[i] <= f[j]
<1> DEFINE S == {k \in 0..n : i <= k /\ ~(f[i] <= f[k])}
<1>1. SUFFICES ASSUME S # {} PROVE FALSE
  OBVIOUS
<1>2. PICK k \in S : \A m \in S : k <= m
  <2>1. S \in SUBSET Nat
    OBVIOUS
  <2> HIDE DEF S
  <2> QED
    BY <1>1, <2>1, Smallest
<1>3. k \in 1..n /\ i <= k - 1 /\ k - 1 \in 0..n
  <2>1. k # i
    BY DEF Climb
  <2> QED
    BY <2>1
<1>4. f[i] <= f[k - 1]
  <2>1. k - 1 \notin S
    <3>1. ~(k <= k - 1)
      BY <1>3
    <3> HIDE DEF S
    <3> QED
      BY <1>2, <3>1
  <2> QED
    BY <1>3, <2>1
<1>5. f[k] >= f[k - 1] /\ f[k] \in Nat /\ f[k - 1] \in Nat /\ f[i] \in Nat
  <2>1. f \in [0..n -> Nat] /\ (f[k] = f[k - 1] \/ f[k] = f[k - 1] + 1)
    BY <1>3 DEF Climb
  <2>2. k \in 0..n
    BY <1>3
  <2>3. f[k] \in Nat /\ f[k - 1] \in Nat /\ f[i] \in Nat
    BY <1>3, <2>1, <2>2
  <2> QED
    BY <2>1, <2>3
<1>6. ~(f[i] <= f[k])
  BY <1>2
<1> QED
  BY <1>4, <1>5, <1>6

LEMMA ClimbReaches ==
    ASSUME NEW n \in Nat, NEW f, Climb(f, n), NEW v \in Nat, v <= f[n]
    PROVE  \E i \in 0..n : f[i] = v
<1> DEFINE S == {k \in 0..n : v <= f[k]}
<1>1. S \in SUBSET Nat /\ n \in S
  OBVIOUS
<1>2. PICK k \in S : \A m \in S : k <= m
  <2> HIDE DEF S
  <2> QED
    BY <1>1, Smallest
<1>3. k \in 0..n /\ v <= f[k] /\ f[k] \in Nat
  BY DEF Climb
<1>4. CASE k = 0
  BY <1>3, <1>4 DEF Climb
<1>5. CASE k # 0
  <2>1. k \in 1..n /\ k - 1 \in 0..n /\ ~(k <= k - 1)
    BY <1>3, <1>5
  <2>2. k - 1 \notin S
    <3> HIDE DEF S
    <3> QED
      BY <1>2, <2>1
  <2>3. ~(v <= f[k - 1])
    BY <2>1, <2>2
  <2>4. f[k - 1] \in Nat /\ (f[k] = f[k - 1] \/ f[k] = f[k - 1] + 1)
    BY <2>1 DEF Climb
  <2>5. f[k] = v
    BY <1>3, <2>3, <2>4
  <2> QED
    BY <1>3, <2>5
<1> QED
  BY <1>4, <1>5

\* The newlines are counted one by one.
LEMMA UpSteps ==
    ASSUME NEW s \in Texts
    PROVE  /\ Up(s, 0) = 0 /\ \A i \in 0..Len(s) : Up(s, i) \in Nat
           /\ \A i \in 1..Len(s) :
                 Up(s, i) = IF s[i] = Newline THEN Up(s, i - 1) + 1 ELSE Up(s, i - 1)
<1> DEFINE N(i) == {j \in 1..i : s[j] = Newline}
<1>0. Len(s) \in Nat /\ \A i \in 1..Len(s) : s[i] \in Tokens \cup {Newline}
  BY DEF Texts
<1>1. ASSUME NEW i \in 0..Len(s)
      PROVE  Up(s, i) = Cardinality(N(i)) /\ IsFiniteSet(N(i)) /\ Up(s, i) \in Nat
  <2>1. /\ SubSeq(s, 1, i) \in Texts /\ Len(SubSeq(s, 1, i)) = i
        /\ \A j \in 1..i : SubSeq(s, 1, i)[j] = s[j]
    BY <1>0, SubSeqProperties DEF Texts
  <2>2. DOMAIN SubSeq(s, 1, i) = 1..i
    BY <2>1 DEF Texts
  <2>3. {j \in DOMAIN SubSeq(s, 1, i) : SubSeq(s, 1, i)[j] = Newline} = N(i)
    BY <2>1, <2>2
  <2>4. IsFiniteSet(N(i))
    <3>1. IsFiniteSet(1..i) /\ N(i) \in SUBSET (1..i)
      BY FS_Interval
    <3> HIDE DEF N
    <3> QED
      BY <3>1, FS_Subset
  <2>5. Up(s, i) = Cardinality(N(i))
    BY <2>3 DEF Up, Newlines
  <2> HIDE DEF N
  <2> QED
    BY <2>4, <2>5, FS_CardinalityType
<1>2. Up(s, 0) = 0
  <2>1. N(0) = {}
    OBVIOUS
  <2>2. 0 \in 0..Len(s)
    BY <1>0
  <2> HIDE DEF N
  <2> QED
    BY <1>1, <2>1, <2>2, FS_EmptySet
<1>3. ASSUME NEW i \in 1..Len(s)
      PROVE  Up(s, i) = IF s[i] = Newline THEN Up(s, i - 1) + 1 ELSE Up(s, i - 1)
  <2>1. i \in 0..Len(s) /\ i - 1 \in 0..Len(s)
    BY <1>0
  <2>2. i \notin N(i - 1)
    BY <2>1
  <2>3. N(i) = IF s[i] = Newline THEN N(i - 1) \cup {i} ELSE N(i - 1)
    BY <2>1
  <2> HIDE DEF N
  <2> QED
    BY <1>1, <2>1, <2>2, <2>3, FS_AddElement
<1> QED
  BY <1>1, <1>2, <1>3

LEMMA UpClimbs ==
    ASSUME NEW s \in Texts, NEW n \in 0..Len(s)
    PROVE  n \in Nat /\ Climb([i \in 0..n |-> Up(s, i)], n)
<1>1. Len(s) \in Nat /\ n \in Nat
  BY DEF Texts
<1>2. /\ Up(s, 0) = 0 /\ \A i \in 0..n : Up(s, i) \in Nat
      /\ \A i \in 1..n : Up(s, i) = Up(s, i - 1) \/ Up(s, i) = Up(s, i - 1) + 1
  <2>1. (\A i \in 0..n : i \in 0..Len(s)) /\ (\A i \in 1..n : i \in 1..Len(s))
    BY <1>1
  <2> QED
    BY <2>1, UpSteps
<1> QED
  BY <1>1, <1>2 DEF Climb

LEMMA UpRises ==
    ASSUME NEW s \in Texts, NEW i \in 0..Len(s), NEW j \in 0..Len(s), i <= j
    PROVE  Up(s, i) <= Up(s, j)
<1> DEFINE f == [k \in 0..j |-> Up(s, k)]
<1>1. j \in Nat /\ Climb(f, j) /\ i \in 0..j /\ j \in 0..j
  BY UpClimbs
<1>2. f[i] <= f[j]
  <2> HIDE DEF f
  <2> QED
    BY <1>1, ClimbRises
<1> QED
  BY <1>1, <1>2

LEMMA UpReaches ==
    ASSUME NEW s \in Texts, NEW n \in 0..Len(s), NEW v \in Nat, v <= Up(s, n)
    PROVE  \E i \in 0..n : Up(s, i) = v
<1> DEFINE f == [k \in 0..n |-> Up(s, k)]
<1>1. n \in Nat /\ Climb(f, n) /\ v <= f[n]
  BY UpClimbs
<1>2. \E i \in 0..n : f[i] = v
  <2> HIDE DEF f
  <2> QED
    BY <1>1, ClimbReaches
<1> QED
  BY <1>1, <1>2

\* The ends of a set of places.
LEMMA Extremes ==
    ASSUME NEW n \in Nat, NEW S \in SUBSET (1..n), S # {}
    PROVE  /\ Min(S) \in S /\ \A x \in S : Min(S) <= x
           /\ Max(S) \in S /\ \A x \in S : x <= Max(S)
<1>1. \E x \in S : \A y \in S : x <= y
  BY Smallest
<1>2. \E x \in S : \A y \in S : x >= y
  <2> DEFINE R == {n - x : x \in S}
  <2>1. R \in SUBSET Nat /\ R # {}
    <3>1. \A x \in S : x \in 1..n /\ n - x \in Nat
      OBVIOUS
    <3> QED
      BY <3>1
  <2>2. PICK r \in R : \A m \in R : r <= m
    <3> HIDE DEF R
    <3> QED
      BY <2>1, Smallest
  <2>3. PICK x \in S : r = n - x
    OBVIOUS
  <2>4. ASSUME NEW y \in S PROVE x >= y
    <3>1. n - y \in R
      OBVIOUS
    <3>2. r <= n - y
      BY <2>2, <3>1
    <3> QED
      BY <2>3, <3>2
  <2> QED
    BY <2>4
<1> QED
  BY <1>1, <1>2 DEF Min, Max

\* A piece lies between two newlines, but for the first and the last.
LEMMA Pieces ==
    ASSUME NEW text \in Texts, text # <<>>
    PROVE  LET pieces == SplitLines(text)
               count == Up(text, Len(text) - 1) + 1
           IN  /\ count \in Nat \ {0} /\ DOMAIN pieces = 1..count /\ Len(pieces) = count
               /\ count <= Newlines(text) + 1
               /\ \A k \in 1..count : \E a \in 0..Len(text), b \in 1..Len(text) :
                     /\ a < b /\ pieces[k] = SubSeq(text, a + 1, b) /\ Up(text, a) = k - 1
                     /\ \A i \in (a + 1)..(b - 1) : text[i] \in Tokens
                     /\ k = 1 => a = 0
                     /\ k # 1 => a >= 1 /\ text[a] = Newline
                     /\ k < count => text[b] = Newline
                     /\ k = count => b = Len(text)
<1> DEFINE L == Len(text)
           count == Up(text, L - 1) + 1
           places(k) == {i \in 1..L : Up(text, i - 1) + 1 = k}
           pieces == [k \in 1..count |-> SubSeq(text, Min(places(k)), Max(places(k)))]
<1>1. /\ L \in Nat /\ L >= 1 /\ DOMAIN text = 1..L
      /\ \A i \in 1..L : text[i] \in Tokens \cup {Newline}
  BY EmptySeq DEF Texts
<1>2. SplitLines(text) = pieces
  <2>1. \A i \in 1..L : LineNo(text, i) = Up(text, i - 1) + 1
    BY DEF LineNo, Up
  <2>2. LineNo(text, L) = count
    BY DEF LineNo, Up
  <2>3. \A k : {i \in DOMAIN text : LineNo(text, i) = k} = places(k)
    BY <1>1, <2>1
  <2> HIDE DEF places, L, count
  <2>4. SplitLines(text) =
           [k \in 1..count |-> SubSeq(text, Min({i \in DOMAIN text : LineNo(text, i) = k}),
                                            Max({i \in DOMAIN text : LineNo(text, i) = k}))]
    BY <2>2 DEF SplitLines, L
  <2> QED
    BY <2>3, <2>4
<1>3. L - 1 \in 0..L /\ 0 \in 0..L /\ L \in 0..L
  BY <1>1
<1>4. /\ Up(text, 0) = 0 /\ \A i \in 0..L : Up(text, i) \in Nat
      /\ \A i \in 1..L : Up(text, i) = IF text[i] = Newline THEN Up(text, i - 1) + 1
                                                            ELSE Up(text, i - 1)
  BY UpSteps
<1>5. count \in Nat \ {0}
  BY <1>3, <1>4
<1>6. count <= Newlines(text) + 1
  <2>1. Up(text, L - 1) <= Up(text, L)
    BY <1>1, <1>3, UpRises
  <2>2. Up(text, L) = Newlines(text)
    BY SubSeqFull DEF Up, Texts
  <2> QED
    BY <1>3, <1>4, <2>1, <2>2
<1>7. ASSUME NEW k \in 1..count
      PROVE  \E a \in 0..L, b \in 1..L :
                /\ a < b /\ pieces[k] = SubSeq(text, a + 1, b) /\ Up(text, a) = k - 1
                /\ \A i \in (a + 1)..(b - 1) : text[i] \in Tokens
                /\ k = 1 => a = 0
                /\ k # 1 => a >= 1 /\ text[a] = Newline
                /\ k < count => text[b] = Newline
                /\ k = count => b = L
  <2> DEFINE m == Min(places(k))
             b == Max(places(k))
  <2>1. places(k) # {}
    <3>1. k - 1 \in Nat /\ k - 1 <= Up(text, L - 1)
      BY <1>3, <1>4, <1>5
    <3>2. PICK i \in 0..(L - 1) : Up(text, i) = k - 1
      BY <1>3, <3>1, UpReaches
    <3>3. i + 1 \in 1..L /\ (i + 1) - 1 = i /\ (k - 1) + 1 = k
      BY <1>1
    <3> QED
      BY <3>2, <3>3
  <2>2. places(k) \in SUBSET (1..L)
    OBVIOUS
  <2>3. /\ m \in places(k) /\ \A x \in places(k) : m <= x
        /\ b \in places(k) /\ \A x \in places(k) : x <= b
    <3> HIDE DEF places
    <3> QED
      BY <1>1, <2>1, <2>2, Extremes
  <2>4. m \in 1..L /\ b \in 1..L /\ Up(text, m - 1) + 1 = k /\ Up(text, b - 1) + 1 = k
    BY <2>3
  <2>5. \A x \in 1..L : Up(text, x - 1) + 1 = k => m <= x /\ x <= b
    BY <2>3
  <2>6. pieces[k] = SubSeq(text, m, b)
    OBVIOUS
  <2> HIDE DEF m, b, places, pieces
  <2>7. m - 1 \in 0..L /\ b - 1 \in 0..L /\ m - 1 < b /\ (m - 1) + 1 = m /\ m <= b
    BY <1>1, <2>4, <2>5
  <2>8. Up(text, m - 1) = k - 1 /\ Up(text, b - 1) = k - 1
    <3>1. Up(text, m - 1) \in Nat /\ Up(text, b - 1) \in Nat /\ k \in Nat
      BY <1>4, <1>5, <2>7
    <3> QED
      BY <2>4, <3>1
  <2>9. ASSUME NEW i \in m..(b - 1) PROVE text[i] \in Tokens
    <3>1. i \in 1..L /\ i - 1 \in 0..L /\ i \in 0..L /\ i <= b - 1 /\ m - 1 <= i - 1
      BY <1>1, <2>4
    <3>2. Up(text, i) <= k - 1
      BY <2>7, <2>8, <3>1, UpRises
    <3>3. k - 1 <= Up(text, i - 1)
      BY <2>7, <2>8, <3>1, UpRises
    <3>4. text[i] # Newline
      <4>1. Up(text, i - 1) \in Nat /\ Up(text, i) \in Nat /\ k \in Nat
        BY <1>4, <3>1
      <4>2. ~(Up(text, i) = Up(text, i - 1) + 1)
        BY <3>2, <3>3, <4>1
      <4> QED
        BY <1>4, <3>1, <4>2
    <3> QED
      BY <1>1, <3>1, <3>4
  <2>10. k = 1 => m - 1 = 0
    <3>1. 1 \in 1..L /\ 1 - 1 = 0
      BY <1>1
    <3>2. k = 1 => m <= 1
      BY <1>4, <2>5, <3>1
    <3> QED
      BY <2>4, <3>2
  <2>11. k = count => b = L
    <3>1. L \in 1..L /\ Up(text, L - 1) + 1 = count
      BY <1>1
    <3>2. k = count => L <= b
      BY <2>5, <3>1
    <3> QED
      BY <2>4, <3>2
  <2>12. k < count => text[b] = Newline
    <3>1. SUFFICES ASSUME k < count, text[b] # Newline PROVE FALSE
      OBVIOUS
    <3>2. b # L
      BY <2>4, <3>1
    <3>3. b + 1 \in 1..L /\ (b + 1) - 1 = b /\ ~(b + 1 <= b)
      <4>1. b \in 1..L
        BY <2>4
      <4> HIDE DEF L
      <4> QED
        BY <1>1, <3>2, <4>1
    <3>4. Up(text, b) = k - 1
      BY <1>4, <2>4, <2>8, <3>1
    <3>5. Up(text, b) + 1 = k
      BY <3>4
    <3> QED
      BY <2>5, <3>3, <3>5
  <2>13. k # 1 => m - 1 >= 1 /\ text[m - 1] = Newline
    <3>1. SUFFICES ASSUME k # 1 PROVE m - 1 >= 1 /\ text[m - 1] = Newline
      OBVIOUS
    <3>2. m - 1 # 0
      <4>1. SUFFICES ASSUME m - 1 = 0 PROVE FALSE
        OBVIOUS
      <4>2. Up(text, 0) = k - 1 /\ k \in Nat
        BY <1>5, <2>8, <4>1
      <4> QED
        BY <1>4, <3>1, <4>2
    <3>3. m - 1 \in 1..L /\ m - 1 >= 1 /\ (m - 1) - 1 \in 0..L /\ ~(m <= m - 1)
      BY <2>4, <2>7, <3>2
    <3>4. text[m - 1] = Newline
      <4>1. SUFFICES ASSUME text[m - 1] # Newline PROVE FALSE
        OBVIOUS
      <4>2. Up(text, (m - 1) - 1) = k - 1
        BY <1>4, <2>8, <3>3, <4>1
      <4>3. Up(text, (m - 1) - 1) + 1 = k
        <5>1. k \in Nat
          BY <1>5
        <5> QED
          BY <4>2, <5>1
      <4> QED
        BY <2>5, <3>3, <4>3
    <3> QED
      BY <3>3, <3>4
  <2> QED
    BY <2>4, <2>6, <2>7, <2>8, <2>9, <2>10, <2>11, <2>12, <2>13
<1>8. DOMAIN pieces = 1..count /\ Len(pieces) = count
  BY <1>5
<1> HIDE DEF pieces
<1>9. PICK cut : cut = pieces
  OBVIOUS
<1>10. DOMAIN cut = 1..count /\ Len(cut) = count
  BY <1>8, <1>9
<1>11. \A k \in 1..count : \E a \in 0..L, b \in 1..L :
                /\ a < b /\ cut[k] = SubSeq(text, a + 1, b) /\ Up(text, a) = k - 1
                /\ \A i \in (a + 1)..(b - 1) : text[i] \in Tokens
                /\ k = 1 => a = 0
                /\ k # 1 => a >= 1 /\ text[a] = Newline
                /\ k < count => text[b] = Newline
                /\ k = count => b = L
  BY <1>7, <1>9, Zenon
<1>12. SplitLines(text) = cut
  BY <1>2, <1>9
<1> QED
  BY <1>5, <1>6, <1>10, <1>11, <1>12, Zenon

LEMMA UpTo ==
    ASSUME NEW n \in Nat, NEW S, 0 \in S, \A i \in 1..n : i - 1 \in S => i \in S
    PROVE  \A i \in 0..n : i \in S
<1> DEFINE R == {i \in 0..n : i \notin S}
<1>1. SUFFICES ASSUME R # {} PROVE FALSE
  OBVIOUS
<1>2. PICK i \in R : \A m \in R : i <= m
  <2>1. R \in SUBSET Nat
    OBVIOUS
  <2> HIDE DEF R
  <2> QED
    BY <1>1, <2>1, Smallest
<1>3. i \in 1..n /\ i - 1 \in 0..n /\ ~(i <= i - 1)
  BY <1>2
<1>4. i - 1 \notin R
  <2> HIDE DEF R
  <2> QED
    BY <1>2, <1>3
<1> QED
  BY <1>2, <1>3, <1>4

\* The text c is what is behind place r of the text s.
Behind(s, c, r) ==
    /\ r \in Nat /\ Len(s) = r + Len(c)
    /\ \A i \in 1..Len(c) : c[i] = s[r + i]

LEMMA UpBehind ==
    ASSUME NEW s \in Texts, NEW c \in Texts, NEW r, Behind(s, c, r)
    PROVE  \A i \in 0..Len(c) : Up(s, r + i) = Up(s, r) + Up(c, i)
<1> DEFINE S == {i \in 0..Len(c) : Up(s, r + i) = Up(s, r) + Up(c, i)}
<1>1. Len(c) \in Nat /\ r \in Nat /\ Len(s) = r + Len(c) /\ Len(s) \in Nat
  BY DEF Texts, Behind
<1>2. 0 \in S
  <2>1. r + 0 = r /\ 0 \in 0..Len(c) /\ r \in 0..Len(s)
    BY <1>1
  <2>2. Up(s, r) \in Nat /\ Up(c, 0) = 0
    BY <2>1, UpSteps
  <2> QED
    BY <2>1, <2>2
<1>3. ASSUME NEW i \in 1..Len(c), i - 1 \in S PROVE i \in S
  <2>1. /\ r + i \in 1..Len(s) /\ (r + i) - 1 = r + (i - 1) /\ i \in 0..Len(c)
        /\ i - 1 \in 0..Len(c) /\ r \in 0..Len(s)
    BY <1>1
  <2>2. Up(s, r + (i - 1)) = Up(s, r) + Up(c, i - 1)
    BY <1>3
  <2>3. c[i] = s[r + i]
    BY DEF Behind
  <2>4. /\ Up(s, r + i) = IF s[r + i] = Newline THEN Up(s, (r + i) - 1) + 1
                                                ELSE Up(s, (r + i) - 1)
        /\ Up(c, i) = IF c[i] = Newline THEN Up(c, i - 1) + 1 ELSE Up(c, i - 1)
        /\ Up(s, r) \in Nat /\ Up(c, i - 1) \in Nat
    BY <2>1, UpSteps
  <2>5. Up(s, r + i) = Up(s, r) + Up(c, i)
    BY <2>1, <2>2, <2>3, <2>4
  <2> QED
    BY <2>1, <2>5
<1> HIDE DEF S
<1>4. \A i \in 0..Len(c) : i \in S
  BY <1>1, <1>2, <1>3, UpTo
<1> QED
  BY <1>4 DEF S

LEMMA UpGrows ==
    ASSUME NEW s \in Texts, NEW t \in Texts, NEW i \in 0..Len(s)
    PROVE  Up(s \o t, i) = Up(s, i)
<1> DEFINE T == Tokens \cup {Newline}
<1>1. /\ s \in Seq(T) /\ s \o t \in Seq(T) /\ Len(s \o t) = Len(s) + Len(t)
      /\ Len(s) \in Nat /\ Len(t) \in Nat /\ i \in Nat /\ i <= Len(s)
  BY ConcatProperties DEF Texts
<1>2. \A j \in 1..i : (s \o t)[j] = s[j] /\ s[j] \in T
  <2>1. ASSUME NEW j \in 1..i PROVE (s \o t)[j] = s[j] /\ s[j] \in T
    <3>1. j \in 1..(Len(s) + Len(t)) /\ j <= Len(s) /\ j \in 1..Len(s)
      BY <1>1
    <3> QED
      BY <1>1, <3>1, ConcatProperties DEF Texts
  <2> QED
    BY <2>1
<1> HIDE DEF T
<1>3. /\ SubSeq(s, 1, i) \in Seq(T) /\ Len(SubSeq(s, 1, i)) = i
      /\ \A j \in 1..i : SubSeq(s, 1, i)[j] = s[j]
  BY <1>1, <1>2, SubSeqProperties
<1>4. /\ SubSeq(s \o t, 1, i) \in Seq(T) /\ Len(SubSeq(s \o t, 1, i)) = i
      /\ \A j \in 1..i : SubSeq(s \o t, 1, i)[j] = (s \o t)[j]
  BY <1>1, <1>2, SubSeqProperties
<1>5. SubSeq(s \o t, 1, i) = SubSeq(s, 1, i)
  BY <1>2, <1>3, <1>4, SeqEqual
<1> QED
  BY <1>5 DEF Up

\* The text w is found in s behind place a.
Lies(s, w, a) ==
    /\ a \in Nat /\ a + Len(w) <= Len(s)
    /\ \A i \in 1..Len(w) : w[i] = s[a + i]
\* The text may have got a "None" put before it.
Said(text, w) == text = w \/ text = <<None>> \o w
\* Part of one line of s, and the number of that line.
Fragment(s, text, no) ==
    \E w \in Seq(Tokens), a \in Nat : Said(text, w) /\ Lies(s, w, a) /\ no = Up(s, a) + 1

LEMMA FragmentGrows ==
    ASSUME NEW s \in Texts, NEW t \in Texts, NEW text, NEW no, Fragment(s, text, no)
    PROVE  Fragment(s \o t, text, no)
<1>1. PICK w \in Seq(Tokens), a \in Nat : Said(text, w) /\ Lies(s, w, a) /\ no = Up(s, a) + 1
  BY DEF Fragment
<1>2. /\ Len(w) \in Nat /\ Len(s) \in Nat /\ Len(t) \in Nat /\ a + Len(w) <= Len(s)
      /\ Len(s \o t) = Len(s) + Len(t)
  BY <1>1, ConcatProperties DEF Lies, Texts
<1>3. Up(s \o t, a) = Up(s, a)
  BY <1>2, UpGrows
<1>4. ASSUME NEW i \in 1..Len(w) PROVE w[i] = (s \o t)[a + i]
  <2>1. a + i \in 1..(Len(s) + Len(t)) /\ a + i <= Len(s)
    BY <1>2
  <2>2. (s \o t)[a + i] = s[a + i]
    BY <2>1, ConcatProperties DEF Texts
  <2> QED
    BY <1>1, <2>2 DEF Lies
<1>5. a + Len(w) <= Len(s \o t)
  BY <1>2
<1>6. Lies(s \o t, w, a)
  BY <1>4, <1>5 DEF Lies
<1> QED
  BY <1>1, <1>3, <1>6 DEF Fragment

\* There is no newline in a text of tokens.
LEMMA UpFlat ==
    ASSUME NEW s \in Texts, NEW w \in Seq(Tokens), NEW a, Lies(s, w, a)
    PROVE  \A i \in 0..Len(w) : Up(s, a + i) = Up(s, a)
<1> DEFINE S == {i \in 0..Len(w) : Up(s, a + i) = Up(s, a)}
<1>1. Len(w) \in Nat /\ a \in Nat /\ a + Len(w) <= Len(s) /\ Len(s) \in Nat
  BY DEF Lies, Texts
<1>2. 0 \in S
  <2>1. a + 0 = a /\ 0 \in 0..Len(w)
    BY <1>1
  <2> QED
    BY <2>1
<1>3. ASSUME NEW i \in 1..Len(w), i - 1 \in S PROVE i \in S
  <2>1. a + i \in 1..Len(s) /\ (a + i) - 1 = a + (i - 1) /\ i \in 0..Len(w)
    BY <1>1
  <2>2. s[a + i] \in Tokens
    BY DEF Lies
  <2>3. s[a + i] # Newline
    BY <2>2, NewlineAssumption
  <2>4. Up(s, a + i) = Up(s, (a + i) - 1)
    BY <2>1, <2>3, UpSteps
  <2> QED
    BY <1>3, <2>1, <2>4
<1> HIDE DEF S
<1>4. \A i \in 0..Len(w) : i \in S
  BY <1>1, <1>2, <1>3, UpTo
<1> QED
  BY <1>4 DEF S

\* A fragment is found in its line.
LEMMA LiesInLine ==
    ASSUME NEW s \in Texts, NEW w \in Seq(Tokens), NEW a, Lies(s, w, a)
    PROVE  Has(LineOf(s, Up(s, a) + 1), w)
<1> DEFINE n == Up(s, a) + 1
           places == {i \in DOMAIN s : s[i] # Newline /\ LineNo(s, i) = n}
           m == Min(places)
           x == Max(places)
           line == SubSeq(s, m, x)
<1>1. /\ Len(w) \in Nat /\ a \in Nat /\ a + Len(w) <= Len(s) /\ Len(s) \in Nat
      /\ DOMAIN s = 1..Len(s) /\ \A i \in 1..Len(s) : s[i] \in Tokens \cup {Newline}
  BY DEF Lies, Texts
<1>2. LineOf(s, n) = IF places = {} THEN <<>> ELSE line
  BY DEF LineOf
<1>3. ASSUME NEW i \in 1..Len(w) PROVE a + i \in places
  <2>1. a + i \in 1..Len(s) /\ (a + i) - 1 = a + (i - 1) /\ i - 1 \in 0..Len(w)
    BY <1>1
  <2>2. s[a + i] \in Tokens
    BY DEF Lies
  <2>3. Up(s, (a + i) - 1) = Up(s, a)
    BY <2>1, UpFlat
  <2>4. LineNo(s, a + i) = n
    BY <2>3 DEF LineNo, Up
  <2> QED
    BY <1>1, <2>1, <2>2, <2>4, NewlineAssumption
<1>4. places \in SUBSET (1..Len(s))
  BY <1>1
<1>5. CASE places = {}
  <2>1. Len(w) = 0
    BY <1>1, <1>3, <1>5
  <2>2. LineOf(s, n) = <<>> /\ w = <<>>
    BY <1>2, <1>5, <2>1
  <2>3. /\ 0 \in 0..Len(<<>>) /\ 0 + Len(<<>>) <= Len(<<>>)
        /\ SubSeq(<<>>, 0 + 1, 0 + Len(<<>>)) = <<>>
    OBVIOUS
  <2> QED
    BY <2>2, <2>3 DEF Has
<1>6. CASE places # {}
  <2>1. /\ m \in 1..Len(s) /\ x \in 1..Len(s)
        /\ \A i \in places : m <= i /\ i <= x
    <3> HIDE DEF places
    <3> QED
      BY <1>1, <1>4, <1>6, Extremes
  <2> HIDE DEF m, x, places
  <2>2. m <= x
    <3>1. PICK j \in places : TRUE
      BY <1>6
    <3>2. j \in Int /\ m \in Int /\ x \in Int /\ m <= j /\ j <= x
      BY <1>1, <1>4, <2>1, <3>1
    <3> QED
      BY <3>2
  <2>3. /\ line \in Seq(Tokens \cup {Newline}) /\ Len(line) = x - m + 1
        /\ \A j \in 1..(x - m + 1) : line[j] = s[m + j - 1]
    <3>1. \A j \in m..x : s[j] \in Tokens \cup {Newline}
      BY <1>1, <2>1
    <3> QED
      BY <2>1, <2>2, <3>1, SubSeqProperties
  <2> DEFINE i == IF w = <<>> THEN 0 ELSE a + 1 - m
  <2>4. i \in 0..Len(line) /\ i + Len(w) <= Len(line)
    <3>1. CASE w = <<>>
      BY <2>1, <2>2, <2>3, <3>1
    <3>2. CASE w # <<>>
      <4>1. Len(w) >= 1
        BY <3>2, EmptySeq
      <4>2. m <= a + 1 /\ a + Len(w) <= x
        <5>1. a + 1 \in places /\ a + Len(w) \in places
          BY <1>1, <1>3, <4>1
        <5> QED
          BY <2>1, <5>1
      <4>3. a + 1 - m \in Nat /\ (a + 1 - m) + Len(w) <= x - m + 1
        BY <1>1, <2>1, <4>2
      <4> QED
        BY <1>1, <2>1, <2>2, <2>3, <3>2, <4>3
    <3> QED
      BY <3>1, <3>2
  <2>5. SubSeq(line, i + 1, i + Len(w)) = w
    <3>1. ASSUME NEW j \in 1..Len(w) PROVE line[i + j] = w[j]
      <4>1. w # <<>> /\ i = a + 1 - m
        BY <1>1, EmptySeq
      <4>2. i + j \in 1..(x - m + 1) /\ m + (i + j) - 1 = a + j
        BY <1>1, <2>1, <2>3, <2>4, <4>1
      <4>3. line[i + j] = s[a + j]
        BY <2>3, <4>2
      <4> QED
        BY <4>3 DEF Lies
    <3>2. i \in Int /\ i + 1 \in Int /\ i + Len(w) \in Int
      BY <1>1, <2>1
    <3> HIDE DEF i, line
    <3>3. ASSUME NEW j \in (i + 1)..(i + Len(w)) PROVE line[j] \in Tokens
      <4>1. j - i \in 1..Len(w) /\ i + (j - i) = j
        BY <1>1, <3>2
      <4> QED
        BY <3>1, <4>1
    <3>4. /\ SubSeq(line, i + 1, i + Len(w)) \in Seq(Tokens)
          /\ Len(SubSeq(line, i + 1, i + Len(w))) = Len(w)
          /\ \A j \in 1..Len(w) : SubSeq(line, i + 1, i + Len(w))[j] = line[i + j]
      <4>1. /\ (IF i + 1 <= i + Len(w) THEN (i + Len(w)) - (i + 1) + 1 ELSE 0) = Len(w)
            /\ (i + Len(w)) - (i + 1) + 1 = Len(w)
            /\ \A j \in 1..Len(w) : (i + 1) + j - 1 = i + j
        BY <1>1, <3>2
      <4> QED
        BY <3>2, <3>3, <4>1, SubSeqProperties
    <3> QED
      BY <3>1, <3>4, SeqEqual
  <2> HIDE DEF i, line
  <2>6. Has(line, w)
    BY <2>4, <2>5 DEF Has
  <2> QED
    BY <1>2, <1>6, <2>6
<1> QED
  BY <1>5, <1>6

LEMMA SaidText ==
    ASSUME NEW w \in Seq(Tokens), NEW text, Said(text, w)
    PROVE  (IF text # <<>> /\ Head(text) = None THEN Tail(text) ELSE text) = w
<1>1. CASE text = w
  <2>1. text # <<>> => Head(text) \in Tokens
    BY <1>1
  <2> QED
    BY <1>1, <2>1, NewlineAssumption
<1>2. CASE text = <<None>> \o w
  <2> DEFINE T == Tokens \cup {None}
  <2>1. <<None>> \in Seq(T) /\ w \in Seq(T) /\ Len(<<None>>) = 1 /\ <<None>>[1] = None
    OBVIOUS
  <2>2. /\ text \in Seq(T) /\ Len(text) = 1 + Len(w) /\ Len(w) \in Nat
        /\ \A i \in 1..(1 + Len(w)) : text[i] = IF i <= 1 THEN None ELSE w[i - 1]
    <3>1. /\ text \in Seq(T) /\ Len(text) = Len(<<None>>) + Len(w)
          /\ \A i \in 1..(Len(<<None>>) + Len(w)) :
                text[i] = IF i <= Len(<<None>>) THEN <<None>>[i] ELSE w[i - Len(<<None>>)]
      BY <1>2, <2>1, ConcatProperties
    <3>2. \A i \in 1..(1 + Len(w)) : i <= 1 => i = 1
      OBVIOUS
    <3> QED
      BY <2>1, <3>1, <3>2
  <2>3. text # <<>> /\ Head(text) = None
    BY <2>2
  <2>4. /\ Tail(text) \in Seq(T) /\ Len(Tail(text)) = Len(w)
        /\ \A i \in 1..Len(w) : Tail(text)[i] = text[i + 1]
    <3>1. /\ Tail(text) \in Seq(T) /\ Len(Tail(text)) = Len(text) - 1
          /\ \A i \in 1..Len(Tail(text)) : Tail(text)[i] = text[i + 1]
      BY <2>2, <2>3, HeadTailProperties
    <3>2. Len(text) - 1 = Len(w)
      BY <2>2
    <3> QED
      BY <3>1, <3>2
  <2>5. \A i \in 1..Len(w) : Tail(text)[i] = w[i]
    <3>1. \A i \in 1..Len(w) : i + 1 \in 1..(1 + Len(w)) /\ ~(i + 1 <= 1) /\ (i + 1) - 1 = i
      BY <2>2
    <3> QED
      BY <2>2, <2>4, <3>1
  <2>6. Tail(text) = w
    BY <2>1, <2>4, <2>5, SeqEqual
  <2> QED
    BY <2>3, <2>6
<1> QED
  BY <1>1, <1>2 DEF Said

\* What is a fragment of a line was sent.
LEMMA FragmentWasSent ==
    ASSUME sent \in Texts, NEW o, Fragment(sent, o.text, o.no)
    PROVE  TextWasSent(o)
<1>1. PICK w \in Seq(Tokens), a \in Nat :
        Said(o.text, w) /\ Lies(sent, w, a) /\ o.no = Up(sent, a) + 1
  BY DEF Fragment
<1>2. (IF o.text # <<>> /\ Head(o.text) = None THEN Tail(o.text) ELSE o.text) = w
  BY <1>1, SaidText
<1>3. Has(LineOf(sent, o.no), w)
  BY <1>1, LiesInLine
<1> QED
  BY <1>2, <1>3 DEF TextWasSent
-----------------------------------------------------------------------------
(* The lines of a chunk.                                                    *)

\* What text is made of, and what may have got before it.
Marks == Tokens \cup {Newline, None}
Heads == {<<>>, <<None>>}

LEMMA TextsAreMarks ==
    /\ Texts \subseteq Seq(Marks) /\ Seq(Tokens) \subseteq Texts /\ Heads \subseteq Seq(Marks)
    /\ Seq(Tokens) \subseteq Seq(Marks)
BY DEF Texts, Marks, Heads

LEMMA SaidAs ==
    ASSUME NEW w \in Seq(Marks), NEW text
    PROVE  Said(text, w) <=> \E h \in Heads : text = h \o w
<1>1. <<>> \o w = w
  BY ConcatEmptySeq
<1> QED
  BY <1>1 DEF Said, Heads

LEMMA FrontIs ==
    ASSUME NEW S, NEW s \in Seq(S), s # <<>>
    PROVE  /\ Front(s) \in Seq(S) /\ Len(Front(s)) = Len(s) - 1
           /\ \A i \in 1..(Len(s) - 1) : Front(s)[i] = s[i]
<1> DEFINE n == Len(s) - 1
<1>1. n \in Nat /\ n \in Int /\ 1 \in Int /\ \A i \in 1..n : s[i] \in S
  BY EmptySeq
<1>2. n = Len(s) - 1
  OBVIOUS
<1> HIDE DEF n
<1>3. /\ SubSeq(s, 1, n) \in Seq(S) /\ Len(SubSeq(s, 1, n)) = IF 1 <= n THEN n - 1 + 1 ELSE 0
      /\ \A i \in 1..(n - 1 + 1) : SubSeq(s, 1, n)[i] = s[1 + i - 1]
  BY <1>1, SubSeqProperties
<1>4. /\ (IF 1 <= n THEN n - 1 + 1 ELSE 0) = n /\ n - 1 + 1 = n
      /\ \A i \in 1..n : 1 + i - 1 = i
  BY <1>1
<1> QED
  BY <1>2, <1>3, <1>4 DEF Front

\* Putting something before a text leaves its end as it was.
LEMMA EndOfConcat ==
    ASSUME NEW S, NEW h \in Seq(S), NEW q \in Seq(S), q # <<>>
    PROVE  /\ h \o q # <<>> /\ Last(h \o q) = Last(q) /\ Front(h \o q) = h \o Front(q)
           /\ Front(q) \in Seq(S) /\ Len(Front(q)) = Len(q) - 1
           /\ \A i \in 1..(Len(q) - 1) : Front(q)[i] = q[i]
<1> DEFINE p == h \o q
           H == Len(h)
           Q == Len(q)
<1>1. H \in Nat /\ Q \in Nat /\ Q >= 1
  BY EmptySeq
<1>2. /\ p \in Seq(S) /\ Len(p) = H + Q
      /\ \A i \in 1..(H + Q) : p[i] = IF i <= H THEN h[i] ELSE q[i - H]
  BY ConcatProperties
<1>3. /\ Front(q) \in Seq(S) /\ Len(Front(q)) = Q - 1
      /\ \A i \in 1..(Q - 1) : Front(q)[i] = q[i]
  BY FrontIs
<1>4. /\ Front(p) \in Seq(S) /\ Len(Front(p)) = H + Q - 1
      /\ \A i \in 1..(H + Q - 1) : Front(p)[i] = p[i]
  <2>1. p # <<>>
    <3>1. Len(p) # 0
      BY <1>1, <1>2
    <3> QED
      BY <3>1
  <2> HIDE DEF p, H, Q
  <2>2. Len(p) - 1 = H + Q - 1
    BY <1>1, <1>2
  <2>3. /\ Front(p) \in Seq(S) /\ Len(Front(p)) = Len(p) - 1
        /\ \A i \in 1..(Len(p) - 1) : Front(p)[i] = p[i]
    BY <1>2, <2>1, FrontIs
  <2> QED
    BY <2>2, <2>3
<1>5. /\ h \o Front(q) \in Seq(S) /\ Len(h \o Front(q)) = H + (Q - 1)
      /\ \A i \in 1..(H + (Q - 1)) : (h \o Front(q))[i] = IF i <= H THEN h[i] ELSE Front(q)[i - H]
  <2> HIDE DEF Q
  <2>1. Len(Front(q)) = Q - 1 /\ Front(q) \in Seq(S)
    BY <1>3
  <2>2. /\ h \o Front(q) \in Seq(S) /\ Len(h \o Front(q)) = H + Len(Front(q))
        /\ \A i \in 1..(H + Len(Front(q))) :
              (h \o Front(q))[i] = IF i <= H THEN h[i] ELSE Front(q)[i - H]
    BY <2>1, ConcatProperties
  <2> QED
    BY <2>1, <2>2
<1>6. p # <<>> /\ Last(p) = Last(q)
  <2>1. H + Q \in 1..(H + Q) /\ ~(H + Q <= H) /\ (H + Q) - H = Q
    BY <1>1
  <2>2. p[H + Q] = q[Q]
    BY <1>2, <2>1
  <2> QED
    BY <1>2, <2>1, <2>2 DEF Last
<1>7. ASSUME NEW i \in 1..(H + Q - 1) PROVE Front(p)[i] = (h \o Front(q))[i]
  <2> HIDE DEF p, H, Q
  <2>1. i \in 1..(H + Q) /\ i \in 1..(H + (Q - 1))
    BY <1>1
  <2>2. CASE i <= H
    BY <1>2, <1>4, <1>5, <2>1, <2>2
  <2>3. CASE ~(i <= H)
    <3>1. i - H \in 1..(Q - 1)
      BY <1>1, <2>3
    <3> QED
      BY <1>2, <1>3, <1>4, <1>5, <2>1, <2>3, <3>1
  <2> QED
    BY <2>2, <2>3
<1>8. Front(p) = h \o Front(q)
  <2> HIDE DEF p, H, Q
  <2>1. H + (Q - 1) = H + Q - 1
    BY <1>1
  <2> QED
    BY <1>4, <1>5, <1>7, <2>1, SeqEqual
<1> QED
  BY <1>3, <1>6, <1>8

\* Part of s, with a newline nowhere but at its end.
Stretch(s, q, a) ==
    /\ q \in Texts /\ q # <<>> /\ Lies(s, q, a)
    /\ \A i \in 1..(Len(q) - 1) : q[i] \in Tokens

\* Such a line, without its newline, is a fragment; and it is kept when it has none.
LEMMA StretchIsFragment ==
    ASSUME NEW s \in Texts, NEW q, NEW a, Stretch(s, q, a), NEW line, Said(line, q)
    PROVE  /\ Fragment(s, Stripped(line), Up(s, a) + 1)
           /\ IsFull(line) => KeptOf(line) = None
           /\ ~IsFull(line) => KeptOf(line) = line /\ q \in Seq(Tokens)
<1>1. /\ q \in Seq(Marks) /\ q \in Texts /\ q # <<>> /\ a \in Nat /\ Len(q) \in Nat /\ Len(q) >= 1
      /\ a + Len(q) <= Len(s)
  BY TextsAreMarks, EmptySeq DEF Stretch, Lies
<1>2. PICK h \in Heads : line = h \o q
  BY <1>1, SaidAs
<1>3. h \in Seq(Marks)
  BY TextsAreMarks
<1>4. /\ line # <<>> /\ Last(line) = Last(q) /\ Front(line) = h \o Front(q)
      /\ Front(q) \in Seq(Marks) /\ Len(Front(q)) = Len(q) - 1
      /\ \A i \in 1..(Len(q) - 1) : Front(q)[i] = q[i]
  BY <1>1, <1>2, <1>3, EndOfConcat
<1>5. IsFull(line) <=> q[Len(q)] = Newline
  BY <1>4 DEF IsFull, Last
<1>6. \A i \in 1..Len(q) : q[i] \in Tokens \cup {Newline}
  BY <1>1 DEF Texts
<1>7. CASE IsFull(line)
  <2>1. Front(q) \in Seq(Tokens)
    <3>1. \A i \in 1..Len(Front(q)) : Front(q)[i] \in Tokens
      BY <1>4 DEF Stretch
    <3> QED
      BY <1>4, <3>1
  <2>2. Lies(s, Front(q), a)
    <3>1. \A i \in 1..(Len(q) - 1) : i \in 1..Len(q)
      BY <1>1
    <3>2. a + (Len(q) - 1) <= Len(s)
      BY <1>1 DEF Texts
    <3> QED
      BY <1>1, <1>4, <3>1, <3>2 DEF Stretch, Lies
  <2>3. Stripped(line) = h \o Front(q)
    BY <1>4, <1>7 DEF Stripped
  <2>4. Said(Stripped(line), Front(q))
    BY <1>4, <2>3, SaidAs
  <2>5. Fragment(s, Stripped(line), Up(s, a) + 1)
    BY <1>1, <2>1, <2>2, <2>4 DEF Fragment
  <2> QED
    BY <1>7, <2>5 DEF KeptOf
<1>8. CASE ~IsFull(line)
  <2>1. \A i \in 1..Len(q) : q[i] \in Tokens
    <3>1. \A i \in 1..Len(q) : i \in 1..(Len(q) - 1) \/ i = Len(q)
      BY <1>1
    <3>2. q[Len(q)] \in Tokens
      BY <1>1, <1>5, <1>6, <1>8
    <3> QED
      BY <3>1, <3>2 DEF Stretch
  <2>2. q \in Seq(Tokens)
    BY <1>1, <2>1
  <2>3. Stripped(line) = line /\ KeptOf(line) = line
    BY <1>8 DEF Stripped, KeptOf
  <2>4. Lies(s, q, a)
    BY DEF Stretch
  <2>5. Fragment(s, Stripped(line), Up(s, a) + 1)
    BY <1>1, <2>2, <2>3, <2>4 DEF Fragment
  <2> QED
    BY <1>8, <2>2, <2>3, <2>5
<1> QED
  BY <1>7, <1>8

\* Where a line begins.
Begins(s, a) == a = 0 \/ s[a] = Newline
EndsLine(q) == q[Len(q)] = Newline

\* The line that has been kept goes on with the first piece of the chunk.
LEMMA StretchIsJoined ==
    ASSUME NEW s \in Texts, NEW p, NEW r, Stretch(s, p, r),
           NEW w \in Seq(Tokens), NEW c, Lies(s, w, c), c + Len(w) = r
    PROVE  /\ Stretch(s, w \o p, c) /\ Up(s, c) = Up(s, r)
           /\ c + Len(w \o p) = r + Len(p)
           /\ EndsLine(p) => EndsLine(w \o p)
<1> DEFINE q == w \o p
           T == Tokens \cup {Newline}
           W == Len(w)
           P == Len(p)
<1>1. /\ W \in Nat /\ P \in Nat /\ P >= 1 /\ c \in Nat /\ r = c + W /\ r + P <= Len(s)
      /\ p \in Seq(T) /\ w \in Seq(T) /\ p # <<>>
  BY EmptySeq, TextsAreMarks DEF Stretch, Lies, Texts
<1>2. /\ q \in Seq(T) /\ Len(q) = W + P
      /\ \A i \in 1..(W + P) : q[i] = IF i <= W THEN w[i] ELSE p[i - W]
  BY <1>1, ConcatProperties
<1>3. /\ \A i \in 1..W : w[i] = s[c + i] /\ w[i] \in Tokens
      /\ \A i \in 1..P : p[i] = s[r + i]
      /\ \A i \in 1..(P - 1) : p[i] \in Tokens
  BY DEF Stretch, Lies
<1> HIDE DEF q, T, W, P
<1>4. ASSUME NEW i \in 1..(W + P)
      PROVE  q[i] = s[c + i] /\ (i <= W + P - 1 => q[i] \in Tokens)
  <2>1. CASE i <= W
    <3>1. i \in 1..W
      BY <1>1, <2>1
    <3> QED
      BY <1>2, <1>3, <2>1, <3>1
  <2>2. CASE ~(i <= W)
    <3>1. i - W \in 1..P /\ r + (i - W) = c + i /\ (i <= W + P - 1 => i - W \in 1..(P - 1))
      BY <1>1, <2>2
    <3>2. q[i] = p[i - W]
      BY <1>2, <2>2
    <3> QED
      BY <1>3, <3>1, <3>2
  <2> QED
    BY <2>1, <2>2
<1>5. q # <<>>
  <2>1. Len(q) # 0
    BY <1>1, <1>2
  <2> QED
    BY <2>1
<1>6. Lies(s, q, c)
  <2>1. c + (W + P) <= Len(s)
    BY <1>1 DEF Texts
  <2> QED
    BY <1>1, <1>2, <1>4, <2>1 DEF Lies
<1>7. \A i \in 1..(Len(q) - 1) : q[i] \in Tokens
  <2>1. \A i \in 1..(W + P - 1) : i \in 1..(W + P) /\ i <= W + P - 1
    BY <1>1
  <2>2. Len(q) - 1 = W + P - 1
    BY <1>1, <1>2
  <2> QED
    BY <1>4, <2>1, <2>2
<1>8. Stretch(s, q, c)
  BY <1>2, <1>5, <1>6, <1>7 DEF Stretch, Texts, T
<1>9. Up(s, c) = Up(s, r)
  <2>1. W \in 0..W /\ c + W = r
    BY <1>1
  <2> QED
    BY <2>1, UpFlat DEF W
<1>10. c + Len(q) = r + P
  BY <1>1, <1>2
<1>11. EndsLine(p) => EndsLine(q)
  <2>1. W + P \in 1..(W + P) /\ ~(W + P <= W) /\ (W + P) - W = P
    BY <1>1
  <2>2. q[W + P] = p[P]
    BY <1>2, <2>1
  <2> QED
    BY <1>2, <2>2 DEF EndsLine, P
<1> QED
  BY <1>8, <1>9, <1>10, <1>11 DEF q, P

\* The newlines before a chunk.
LEMMA UpBefore ==
    ASSUME NEW s \in Texts, NEW c \in Texts, NEW r, Behind(s, c, r)
    PROVE  /\ Newlines(s) - Newlines(c) = Up(s, r) /\ Up(s, r) \in Nat
           /\ Newlines(s) = Up(s, Len(s))
<1>1. Newlines(s) = Up(s, Len(s)) /\ Newlines(c) = Up(c, Len(c))
  BY SubSeqFull DEF Up, Texts
<1>2. /\ Len(c) \in 0..Len(c) /\ r + Len(c) = Len(s) /\ r \in 0..Len(s) /\ Len(s) \in 0..Len(s)
  BY DEF Behind, Texts
<1>3. Up(s, Len(s)) = Up(s, r) + Up(c, Len(c))
  BY <1>2, UpBehind
<1>4. Up(s, r) \in Nat /\ Up(c, Len(c)) \in Nat
  BY <1>2, UpSteps
<1> QED
  BY <1>1, <1>3, <1>4

\* A piece of the chunk is such a line, and has the number of the line it is part of.
LEMMA PieceIsStretch ==
    ASSUME NEW s \in Texts, NEW c \in Texts, c # <<>>, NEW r, Behind(s, c, r),
           NEW k \in DOMAIN SplitLines(c)
    PROVE  \E a : /\ Stretch(s, SplitLines(c)[k], a) /\ Up(s, a) = Up(s, r) + (k - 1)
                  /\ k = 1 => a = r
                  /\ k # 1 => Begins(s, a)
                  /\ k = Len(SplitLines(c)) => a + Len(SplitLines(c)[k]) = Len(s)
                  /\ k # Len(SplitLines(c)) => EndsLine(SplitLines(c)[k])
<1> DEFINE count == Up(c, Len(c) - 1) + 1
           p == SplitLines(c)[k]
           T == Tokens \cup {Newline}
<1>0. /\ DOMAIN SplitLines(c) = 1..count /\ Len(SplitLines(c)) = count
      /\ \A j \in 1..count : \E a \in 0..Len(c), b \in 1..Len(c) :
            /\ a < b /\ SplitLines(c)[j] = SubSeq(c, a + 1, b) /\ Up(c, a) = j - 1
            /\ \A i \in (a + 1)..(b - 1) : c[i] \in Tokens
            /\ j = 1 => a = 0
            /\ j # 1 => a >= 1 /\ c[a] = Newline
            /\ j < count => c[b] = Newline
            /\ j = count => b = Len(c)
  BY Pieces
<1>1. DOMAIN SplitLines(c) = 1..count /\ Len(SplitLines(c)) = count
  BY <1>0
<1> HIDE DEF count
<1>2. PICK a \in 0..Len(c), b \in 1..Len(c) :
          /\ a < b /\ p = SubSeq(c, a + 1, b) /\ Up(c, a) = k - 1
          /\ \A i \in (a + 1)..(b - 1) : c[i] \in Tokens
          /\ k = 1 => a = 0
          /\ k # 1 => a >= 1 /\ c[a] = Newline
          /\ k < count => c[b] = Newline
          /\ k = count => b = Len(c)
  BY <1>0
<1>3. /\ Len(c) \in Nat /\ r \in Nat /\ Len(s) = r + Len(c)
      /\ \A i \in 1..Len(c) : c[i] = s[r + i] /\ c[i] \in T
  BY DEF Behind, Texts
<1> HIDE DEF p, T
<1>4. p \in Seq(T) /\ Len(p) = b - a /\ \A i \in 1..(b - a) : p[i] = c[a + i]
  <2>1. \A i \in (a + 1)..b : i \in 1..Len(c)
    BY <1>3
  <2>2. \A i \in (a + 1)..b : c[i] \in T
    BY <1>3, <2>1
  <2>3. /\ a + 1 \in Int /\ b \in Int
        /\ (IF a + 1 <= b THEN b - (a + 1) + 1 ELSE 0) = b - a /\ b - (a + 1) + 1 = b - a
        /\ \A i \in 1..(b - a) : (a + 1) + i - 1 = a + i
    BY <1>2
  <2>4. /\ SubSeq(c, a + 1, b) \in Seq(T)
        /\ Len(SubSeq(c, a + 1, b)) = IF a + 1 <= b THEN b - (a + 1) + 1 ELSE 0
        /\ \A i \in 1..(b - (a + 1) + 1) : SubSeq(c, a + 1, b)[i] = c[(a + 1) + i - 1]
    <3>1. PICK m \in Int : m = a + 1
      BY <2>3
    <3>2. \A i \in m..b : c[i] \in T
      BY <2>2, <3>1
    <3>3. /\ SubSeq(c, m, b) \in Seq(T)
          /\ Len(SubSeq(c, m, b)) = IF m <= b THEN b - m + 1 ELSE 0
          /\ \A i \in 1..(b - m + 1) : SubSeq(c, m, b)[i] = c[m + i - 1]
      BY <2>3, <3>2, SubSeqProperties
    <3> QED
      BY <3>1, <3>3
  <2> QED
    BY <1>2, <2>3, <2>4
<1>5. p # <<>>
  <2>1. Len(p) # 0
    BY <1>2, <1>4
  <2> QED
    BY <2>1
<1>6. Lies(s, p, r + a)
  <2>1. r + a \in Nat /\ (r + a) + (b - a) <= Len(s)
    BY <1>2, <1>3
  <2>2. ASSUME NEW i \in 1..(b - a) PROVE p[i] = s[(r + a) + i]
    <3>1. a + i \in 1..Len(c) /\ r + (a + i) = (r + a) + i
      BY <1>2, <1>3
    <3> QED
      BY <1>3, <1>4, <3>1
  <2> QED
    BY <1>4, <2>1, <2>2 DEF Lies
<1>7. ASSUME NEW i \in 1..(Len(p) - 1) PROVE p[i] \in Tokens
  <2>1. i \in 1..(b - a) /\ a + i \in (a + 1)..(b - 1)
    BY <1>2, <1>4
  <2> QED
    BY <1>2, <1>4, <2>1
<1>8. Stretch(s, p, r + a)
  BY <1>4, <1>5, <1>6, <1>7 DEF Stretch, Texts, T
<1>9. Up(s, r + a) = Up(s, r) + (k - 1)
  BY <1>2, UpBehind
<1>10. k = 1 => r + a = r
  BY <1>2, <1>3
<1>11. k = count => (r + a) + Len(p) = Len(s)
  <2>1. SUFFICES ASSUME k = count PROVE (r + a) + Len(p) = Len(s)
    OBVIOUS
  <2>2. b = Len(c) /\ a \in Nat
    BY <1>2, <2>1
  <2> QED
    BY <1>3, <1>4, <2>2
<1>12. k # 1 => Begins(s, r + a)
  <2>1. a >= 1 => a \in 1..Len(c)
    BY <1>2
  <2> QED
    BY <1>2, <1>3, <2>1 DEF Begins
<1>13. k # count => EndsLine(p)
  <2>1. SUFFICES ASSUME k # count PROVE p[Len(p)] = Newline
    BY DEF EndsLine
  <2>2. k < count
    <3>1. count \in Nat /\ k \in 1..count
      BY <1>1, Pieces
    <3> QED
      BY <2>1, <3>1
  <2>3. b - a \in 1..(b - a) /\ a + (b - a) = b
    BY <1>2
  <2> QED
    BY <1>2, <1>4, <2>2, <2>3
<1> QED
  BY <1>1, <1>8, <1>9, <1>10, <1>11, <1>12, <1>13 DEF p

\* Where the line that has the number of the k-th piece begins; and that it is all there is.
LineBegins(s, c, k, a) == (Newlines(s) - Newlines(c)) + k = Up(s, a) + 1
EndsText(s, q, a) == a + Len(q) = Len(s)

\* The lines of a chunk, the first of which begins with what was kept, or with "None".
LEMMA LinesAreStretches ==
    ASSUME NEW s \in Texts, NEW c \in Texts, c # <<>>, NEW r, Behind(s, c, r),
           NEW w \in Seq(Tokens), NEW place, Lies(s, w, place), place + Len(w) = r,
           NEW first, Said(first, w \o SplitLines(c)[1]),
           NEW k \in DOMAIN SplitLines(c)
    PROVE  \E q, a : /\ Stretch(s, q, a)
                     /\ Said(IF k = 1 THEN first ELSE SplitLines(c)[k], q)
                     /\ LineBegins(s, c, k, a)
                     /\ k = Len(SplitLines(c)) => EndsText(s, q, a)
                     /\ k # Len(SplitLines(c)) => EndsLine(q)
                     /\ k # 1 \/ Begins(s, place) => Begins(s, a)
                     /\ k # 1 \/ first = w \o SplitLines(c)[1] =>
                           q = IF k = 1 THEN first ELSE SplitLines(c)[k]
<1> DEFINE p == SplitLines(c)[k]
           line == IF k = 1 THEN first ELSE SplitLines(c)[k]
<1>1. PICK a : /\ Stretch(s, p, a) /\ Up(s, a) = Up(s, r) + (k - 1)
               /\ k = 1 => a = r
               /\ k # 1 => Begins(s, a)
               /\ k = Len(SplitLines(c)) => a + Len(p) = Len(s)
               /\ k # Len(SplitLines(c)) => EndsLine(p)
  BY PieceIsStretch
<1>2. k \in Nat
  BY Pieces
<1>3. (Newlines(s) - Newlines(c)) + k = Up(s, a) + 1
  BY <1>1, <1>2, UpBefore
<1>4. CASE k # 1
  <2>1. Said(line, p)
    BY <1>4 DEF Said
  <2> QED
    BY <1>1, <1>3, <1>4, <2>1 DEF LineBegins, EndsText
<1>5. CASE k = 1
  <2>1. Said(line, w \o p) /\ Stretch(s, p, r) /\ a = r
    BY <1>1, <1>5
  <2>2. /\ Stretch(s, w \o p, place) /\ Up(s, place) = Up(s, r)
        /\ place + Len(w \o p) = r + Len(p)
        /\ EndsLine(p) => EndsLine(w \o p)
    BY <2>1, StretchIsJoined
  <2> QED
    <3>1. LineBegins(s, c, k, place)
      BY <1>1, <1>3, <2>1, <2>2 DEF LineBegins
    <3>2. k = Len(SplitLines(c)) => EndsText(s, w \o p, place)
      BY <1>1, <2>1, <2>2 DEF EndsText
    <3> QED
      BY <1>1, <1>5, <2>1, <2>2, <3>1, <3>2
<1> QED
  BY <1>4, <1>5

-----------------------------------------------------------------------------
(* What an event reports was sent.                                          *)

\* How much of what was sent has been cut into lines, or lost in a pause.
Read == Len(sent) - Len(chunk)
IsPart(o) == Fragment(sent, o.text, o.no)

\* What is behind is cut next; only an event reports.
SourceInv ==
    /\ sent \in Texts /\ chunk \in Texts /\ Behind(sent, chunk, Read)
    /\ kind \in Events \cup Commands
    /\ kind \notin Events => occurred = <<>>

\* Every line that an event has yet to look at, or has taken, is part of one line; what it keeps
\* is the end of what was read, for a pause loses it with what comes after.
PartsInv ==
    /\ IsSeq(todo) /\ \A i \in DOMAIN todo : IsPart(todo[i])
    /\ \A i \in DOMAIN gathered : IsPart(gathered[i])
    /\ \A k \in DOMAIN occurred : \A i \in DOMAIN occurred[k] : IsPart(occurred[k][i])
    /\ cache # None =>
          \E w \in Seq(Tokens), a \in Nat : Said(cache, w) /\ Lies(sent, w, a) /\ a + Len(w) = Read
    /\ paused /\ Idle => cache = None

\* The lines taken come before those to come; no line is after the one that was read last.
NoneAfter(cycles, lines, n) ==
    /\ \A k \in DOMAIN cycles : \A i \in DOMAIN cycles[k] : cycles[k][i].no <= n
    /\ \A i \in DOMAIN lines : lines[i].no <= n
Ascend(lines) == \A i, j \in DOMAIN lines : i < j => lines[i].no <= lines[j].no
CyclesAscend(cycles) ==
    \A k, m \in DOMAIN cycles : \A i \in DOMAIN cycles[k], j \in DOMAIN cycles[m] :
        k < m \/ (k = m /\ i < j) => cycles[k][i].no <= cycles[m][j].no
TakenBefore(cycles, lines) ==
    \A k \in DOMAIN cycles : \A i \in DOMAIN cycles[k], j \in DOMAIN lines :
        cycles[k][i].no <= lines[j].no
Top == Up(sent, Read) + 1
NumbersInv ==
    /\ CyclesAscend(occurred) /\ Ascend(gathered) /\ TakenBefore(occurred, gathered)
    /\ NoneAfter(occurred, gathered, Top)
    /\ \A i \in DOMAIN todo : NoneAfter(occurred, gathered, todo[i].no) /\ todo[i].no <= Top
    /\ kind # "prompts" => Ascend(todo)
    /\ kind = "prompts" => gathered = <<>>

EventInv == PausedInv /\ CycleInv /\ SourceInv /\ (kind \in Events => PartsInv /\ NumbersInv)

LEMMA PartNumber ==
    ASSUME NEW s \in Texts, NEW text, NEW no, Fragment(s, text, no)
    PROVE  no \in Nat
<1>1. PICK w \in Seq(Tokens), a \in Nat : Lies(s, w, a) /\ no = Up(s, a) + 1
  BY DEF Fragment
<1>2. a \in 0..Len(s)
  BY <1>1 DEF Lies, Texts
<1> QED
  BY <1>1, <1>2, UpSteps

LEMMA PartNumbers ==
    ASSUME SourceInv, PartsInv
    PROVE  /\ \A i \in DOMAIN todo : todo[i].no \in Nat
           /\ \A i \in DOMAIN gathered : gathered[i].no \in Nat
           /\ \A k \in DOMAIN occurred : \A i \in DOMAIN occurred[k] : occurred[k][i].no \in Nat
<1>1. \A o : IsPart(o) => o.no \in Nat
  BY PartNumber DEF IsPart, SourceInv
<1> QED
  BY <1>1 DEF PartsInv

LEMMA TopIsNat == ASSUME SourceInv PROVE Top \in Nat /\ Up(sent, Read) \in Nat
<1>1. Read \in 0..Len(sent)
  BY DEF SourceInv, Behind, Texts
<1> QED
  BY <1>1, UpSteps DEF Top, SourceInv

\* A later bound is a bound.
LEMMA Later ==
    ASSUME SourceInv, PartsInv, NEW n \in Nat, NEW m \in Nat, n <= m,
           NoneAfter(occurred, gathered, n)
    PROVE  NoneAfter(occurred, gathered, m)
<1>1. \A x \in Nat : x <= n => x <= m
  OBVIOUS
<1>2. \A i \in DOMAIN gathered : gathered[i].no <= m
  BY <1>1, PartNumbers DEF NoneAfter
<1>3. \A k \in DOMAIN occurred : \A i \in DOMAIN occurred[k] : occurred[k][i].no <= m
  <2>1. ASSUME NEW k \in DOMAIN occurred, NEW i \in DOMAIN occurred[k]
        PROVE  occurred[k][i].no <= m
    <3>1. occurred[k][i].no \in Nat /\ occurred[k][i].no <= n
      BY PartNumbers DEF NoneAfter
    <3> QED
      BY <1>1, <3>1
  <2> QED
    BY <2>1
<1> QED
  BY <1>2, <1>3 DEF NoneAfter

-----------------------------------------------------------------------------

LEMMA EventInit == ASSUME Init PROVE EventInv
<1>1. PausedInv /\ CycleInv
  BY PausedInit, CycleInit
<1>2. /\ sent = <<>> /\ chunk = <<>> /\ todo = <<>> /\ gathered = <<>> /\ occurred = <<>>
      /\ cache = None /\ kind \in Events \cup Commands
  BY DEF Init
<1>3. Read = 0 /\ Behind(sent, chunk, Read) /\ sent \in Texts /\ chunk \in Texts
  BY <1>2 DEF Read, Behind, Texts
<1>4. SourceInv
  BY <1>2, <1>3 DEF SourceInv
<1>5. PartsInv
  BY <1>2 DEF PartsInv, IsSeq
<1>6. NumbersInv
  BY <1>2 DEF NumbersInv, CyclesAscend, Ascend, TakenBefore, NoneAfter
<1> QED
  BY <1>1, <1>4, <1>5, <1>6 DEF EventInv

LEMMA ChunksAreTexts == \A text \in Chunks : text \in Texts /\ text # <<>>
<1>1. SUFFICES ASSUME NEW text \in Chunks PROVE text \in Texts /\ text # <<>>
  OBVIOUS
<1>2. PICK n \in 1..MaxChunk : text \in [1..n -> Tokens \cup {Newline}]
  BY DEF Chunks
<1>3. n \in Nat /\ 1 \in 1..n
  BY MaxChunkAssumption
<1>4. text \in Seq(Tokens \cup {Newline})
  BY <1>2, <1>3
<1>5. Len(text) = n
  BY <1>2, <1>3
<1> QED
  BY <1>3, <1>4, <1>5 DEF Texts

\* What comes is behind what was read; or it is lost with what was kept.
LEMMA EventReceives == ASSUME EventInv, Receive PROVE EventInv'
<1>1. PICK text \in Texts : sent' = sent \o text /\ chunk' = IF paused THEN <<>> ELSE text
  BY ChunksAreTexts DEF Receive
<1>2. /\ chunk = <<>> /\ todo = <<>>
      /\ UNCHANGED <<kind, todo, cache, paused, gathered, occurred, pending>>
  BY DEF Receive, Idle
<1>3. /\ sent \in Texts /\ sent' \in Texts /\ Len(sent) \in Nat /\ Len(text) \in Nat
      /\ Len(sent') = Len(sent) + Len(text)
      /\ \A i \in 1..(Len(sent) + Len(text)) :
            sent'[i] = IF i <= Len(sent) THEN sent[i] ELSE text[i - Len(sent)]
  BY <1>1, ConcatProperties DEF EventInv, SourceInv, Texts
<1>4. Read = Len(sent)
  BY <1>2, <1>3 DEF Read
<1>5. chunk' \in Texts /\ Behind(sent', chunk', Read') /\ Read' = IF paused THEN Len(sent')
                                                                            ELSE Len(sent)
  <2>1. CASE paused
    <3>1. chunk' = <<>> /\ Len(<<>>) = 0
      BY <1>1, <2>1
    <3> QED
      BY <1>3, <2>1, <3>1 DEF Read, Behind, Texts
  <2>2. CASE ~paused
    <3>1. chunk' = text
      BY <1>1, <2>2
    <3>2. Read' = Len(sent)
      BY <1>3, <3>1 DEF Read
    <3>3. \A i \in 1..Len(text) : /\ Len(sent) + i \in 1..(Len(sent) + Len(text))
                                  /\ ~(Len(sent) + i <= Len(sent))
                                  /\ (Len(sent) + i) - Len(sent) = i
      BY <1>3
    <3>4. \A i \in 1..Len(text) : text[i] = sent'[Len(sent) + i]
      BY <1>3, <3>3
    <3> QED
      BY <1>3, <2>2, <3>1, <3>2, <3>4 DEF Behind
  <2> QED
    BY <2>1, <2>2
<1>6. SourceInv'
  BY <1>2, <1>3, <1>5 DEF EventInv, SourceInv
<1>7. ASSUME kind \in Events PROVE PartsInv' /\ NumbersInv'
  <2>1. PartsInv /\ NumbersInv /\ SourceInv
    BY <1>7 DEF EventInv
  <2>2. \A o : IsPart(o) => IsPart(o)'
    BY <1>1, <1>3, FragmentGrows DEF IsPart
  <2>3. ASSUME cache' # None
        PROVE  \E w \in Seq(Tokens), a \in Nat :
                  Said(cache', w) /\ Lies(sent', w, a) /\ a + Len(w) = Read'
    <3>1. ~paused
      BY <1>2, <2>1, <2>3 DEF PartsInv, Idle
    <3>2. PICK w \in Seq(Tokens), a \in Nat :
              Said(cache, w) /\ Lies(sent, w, a) /\ a + Len(w) = Read
      BY <1>2, <2>1, <2>3 DEF PartsInv
    <3>3. Lies(sent', w, a)
      <4>1. Len(w) \in Nat /\ a + Len(w) <= Len(sent)
        BY <3>2 DEF Lies
      <4>2. \A i \in 1..Len(w) : a + i \in 1..(Len(sent) + Len(text)) /\ a + i <= Len(sent)
        BY <1>3, <4>1
      <4>3. \A i \in 1..Len(w) : w[i] = sent'[a + i]
        BY <1>3, <3>2, <4>2 DEF Lies
      <4>4. a + Len(w) <= Len(sent')
        BY <1>3, <4>1
      <4> QED
        BY <4>3, <4>4 DEF Lies
    <3>4. a + Len(w) = Read' /\ Said(cache', w)
      BY <1>2, <1>4, <1>5, <3>1, <3>2
    <3> QED
      BY <3>3, <3>4
  <2>4. IsSeq(todo')
    BY <1>2, <2>1 DEF PartsInv
  <2>5. (paused /\ Idle => cache = None)'
    BY <1>2, <2>1 DEF PartsInv, Idle
  <2>6. /\ \A i \in DOMAIN todo' : IsPart(todo[i])'
        /\ \A i \in DOMAIN gathered' : IsPart(gathered[i])'
        /\ \A k \in DOMAIN occurred' : \A i \in DOMAIN occurred'[k] : IsPart(occurred[k][i])'
    <3>1. \A i \in DOMAIN gathered : IsPart(gathered[i])'
      BY <1>2, <2>1, <2>2 DEF PartsInv, IsPart
    <3>2. \A k \in DOMAIN occurred : \A i \in DOMAIN occurred[k] : IsPart(occurred[k][i])'
      BY <1>2, <2>1, <2>2 DEF PartsInv, IsPart
    <3>3. \A i \in DOMAIN todo' : IsPart(todo[i])'
      BY <1>2
    <3> QED
      BY <1>2, <3>1, <3>2, <3>3
  <2>7. PartsInv'
    BY <2>3, <2>4, <2>5, <2>6 DEF PartsInv
  <2>8. Top \in Nat /\ Top' \in Nat /\ Top <= Top'
    <3>1. Up(sent', Len(sent)) = Up(sent, Len(sent)) /\ Up(sent, Len(sent)) \in Nat
      <4>1. Len(sent) \in 0..Len(sent)
        BY <1>3
      <4> QED
        BY <1>1, <1>3, <4>1, UpGrows, UpSteps
    <3>2. Up(sent', Len(sent)) <= Up(sent', Read')
      <4>1. Len(sent) \in 0..Len(sent') /\ Read' \in 0..Len(sent') /\ Len(sent) <= Read'
        BY <1>3, <1>5
      <4> QED
        BY <1>3, <4>1, UpRises
    <3>3. Up(sent', Read') \in Nat
      <4>1. Read' \in 0..Len(sent')
        BY <1>3, <1>5
      <4> QED
        BY <1>3, <4>1, UpSteps
    <3>4. Top = Up(sent, Len(sent)) + 1 /\ Top' = Up(sent', Read') + 1
      BY <1>4 DEF Top
    <3> QED
      BY <3>1, <3>2, <3>3, <3>4
  <2>9. NoneAfter(occurred, gathered, Top')
    BY <2>1, <2>8, Later DEF NumbersInv
  <2>10. NumbersInv'
    <3>1. CyclesAscend(occurred) /\ Ascend(gathered) /\ TakenBefore(occurred, gathered)
      BY <2>1 DEF NumbersInv
    <3>2. Ascend(todo)
      BY <1>2 DEF Ascend
    <3>3. /\ CyclesAscend(occurred)' /\ Ascend(gathered)' /\ TakenBefore(occurred, gathered)'
          /\ NoneAfter(occurred, gathered, Top)' /\ Ascend(todo)'
      BY <1>2, <2>9, <3>1, <3>2
    <3>4. \A i \in DOMAIN todo' : FALSE
      BY <1>2
    <3>5. kind' = "prompts" => gathered' = <<>>
      BY <1>2, <2>1 DEF NumbersInv
    <3> QED
      BY <3>3, <3>4, <3>5 DEF NumbersInv
  <2> QED
    BY <2>7, <2>10
<1>8. PausedInv' /\ CycleInv'
  BY PausedNext, CycleNext DEF EventInv, Next
<1> QED
  BY <1>2, <1>6, <1>7, <1>8 DEF EventInv

\* Reverse() or not, the lines are the same.
LEMMA InOrderIs ==
    ASSUME NEW lines, NEW n \in Nat, lines = [k \in 1..n |-> lines[k]]
    PROVE  /\ DOMAIN InOrder(lines) = 1..n /\ IsSeq(InOrder(lines)) /\ IsSeq(lines)
           /\ \A i \in 1..n : \E k \in 1..n : InOrder(lines)[i] = lines[k]
           /\ kind # "prompts" => InOrder(lines) = lines
           /\ kind = "prompts" => \A i \in 1..n : InOrder(lines)[i] = lines[(n - i) + 1]
<1> DEFINE S == {lines[k] : k \in 1..n}
<1>1. \A k \in 1..n : lines[k] \in S
  OBVIOUS
<1> HIDE DEF S
<1>2. lines \in [1..n -> S]
  BY <1>1
<1>3. lines \in Seq(S) /\ Len(lines) = n /\ DOMAIN lines = 1..n
  BY <1>2
<1>4. CASE kind # "prompts"
  BY <1>3, <1>4 DEF InOrder, IsSeq
<1>5. CASE kind = "prompts"
  <2>1. \A i \in 1..n : (n - i) + 1 \in 1..n
    OBVIOUS
  <2>2. InOrder(lines) = [i \in 1..n |-> lines[(n - i) + 1]]
    BY <1>3, <1>5 DEF InOrder, Reverse
  <2>3. InOrder(lines) \in [1..n -> S]
    BY <1>1, <2>1, <2>2
  <2>4. InOrder(lines) \in Seq(S)
    BY <2>3
  <2> QED
    BY <1>3, <1>5, <2>1, <2>2, <2>3, <2>4 DEF IsSeq
<1> QED
  BY <1>4, <1>5

\* A chunk is cut: its lines go on from what was kept, or from nothing, and so do their numbers.
LEMMA EventCuts ==
    ASSUME EventInv, kind \in Events, chunk # <<>>,
           NEW w \in Seq(Tokens), NEW place \in Nat, Lies(sent, w, place), place + Len(w) = Read,
           NEW first, Said(first, w \o SplitLines(chunk)[1]), Cut(first),
           UNCHANGED <<kind, sent, gathered, occurred>>
    PROVE  SourceInv' /\ PartsInv' /\ NumbersInv'
<1> DEFINE pieces == SplitLines(chunk)
           count == Len(pieces)
           before == Newlines(sent) - Newlines(chunk)
           line(k) == IF k = 1 THEN first ELSE pieces[k]
           item(k) == [text |-> Stripped(line(k)), full |-> IsFull(line(k)), no |-> before + k]
           lines == [k \in DOMAIN pieces |-> item(k)]
<1>1. /\ todo' = InOrder(lines) /\ cache' = KeptOf(line(count)) /\ chunk' = <<>>
  BY DEF Cut
<1>2. /\ PartsInv /\ NumbersInv /\ SourceInv /\ sent \in Texts /\ chunk \in Texts
      /\ Behind(sent, chunk, Read) /\ Len(sent) \in Nat
  BY DEF EventInv, SourceInv, Texts
<1>3. count \in Nat /\ 1 \in 1..count /\ count \in 1..count /\ DOMAIN pieces = 1..count
  BY <1>2, Pieces
<1>4. before = Up(sent, Read) /\ before \in Nat
  BY <1>2, UpBefore
<1>5. ASSUME NEW k \in 1..count
      PROVE  \E q, a : /\ Stretch(sent, q, a) /\ Said(line(k), q) /\ before + k = Up(sent, a) + 1
                       /\ k = count => a + Len(q) = Len(sent)
  <2>1. k \in DOMAIN SplitLines(chunk)
    BY <1>3
  <2>2. line(k) = IF k = 1 THEN first ELSE SplitLines(chunk)[k]
    OBVIOUS
  <2> HIDE DEF line
  <2>3. \E q, a : /\ Stretch(sent, q, a)
                  /\ Said(IF k = 1 THEN first ELSE SplitLines(chunk)[k], q)
                  /\ LineBegins(sent, chunk, k, a)
                  /\ k = Len(SplitLines(chunk)) => EndsText(sent, q, a)
    <3> HIDE DEF pieces, count, before, item, lines
    <3> QED
      BY <1>2, <2>1, LinesAreStretches
  <2> QED
    BY <2>2, <2>3 DEF LineBegins, EndsText
<1>6. Read' = Len(sent') /\ SourceInv' /\ Read' = Len(sent)
  <2>1. Read' = Len(sent)
    BY <1>1, <1>2 DEF Read
  <2>2. Behind(sent', chunk', Read') /\ chunk' \in Texts
    BY <1>1, <1>2, <2>1 DEF Behind, Texts
  <2> QED
    BY <1>2, <2>1, <2>2 DEF SourceInv
<1>7. \A k \in 1..count : lines[k] = item(k) /\ lines[k].no = before + k
  BY <1>3
<1>8. lines = [k \in 1..count |-> lines[k]]
  BY <1>3
<1>9. Top = before + 1 /\ Top' = Up(sent, Len(sent)) + 1 /\ Up(sent, Len(sent)) \in Nat
  <2>1. Len(sent) \in 0..Len(sent)
    BY <1>2
  <2> QED
    BY <1>2, <1>4, <1>6, <2>1, UpSteps DEF Top
<1>10. ASSUME NEW k \in 1..count
       PROVE  /\ Fragment(sent, lines[k].text, lines[k].no)
              /\ before + k <= Up(sent, Len(sent)) + 1
              /\ k = count /\ cache' # None => line(count) = cache' /\
                    \E q \in Seq(Tokens), a \in Nat :
                        Said(cache', q) /\ Lies(sent, q, a) /\ a + Len(q) = Len(sent)
  <2>1. PICK q, a : /\ Stretch(sent, q, a) /\ Said(line(k), q) /\ before + k = Up(sent, a) + 1
                    /\ k = count => a + Len(q) = Len(sent)
    BY <1>5
  <2>2. lines[k].text = Stripped(line(k)) /\ lines[k].no = before + k
    BY <1>7
  <2> HIDE DEF lines, line, item, pieces, count, before
  <2>3. /\ Fragment(sent, Stripped(line(k)), Up(sent, a) + 1)
        /\ IsFull(line(k)) => KeptOf(line(k)) = None
        /\ ~IsFull(line(k)) => KeptOf(line(k)) = line(k) /\ q \in Seq(Tokens)
    BY <1>2, <2>1, StretchIsFragment
  <2>4. Fragment(sent, lines[k].text, lines[k].no)
    BY <2>1, <2>2, <2>3
  <2>5. before + k <= Up(sent, Len(sent)) + 1
    <3>1. a \in 0..Len(sent) /\ Len(sent) \in 0..Len(sent) /\ a <= Len(sent)
      BY <1>2, <2>1 DEF Stretch, Lies, Texts
    <3>2. Up(sent, a) <= Up(sent, Len(sent)) /\ Up(sent, a) \in Nat
      BY <1>2, <3>1, UpRises, UpSteps
    <3> QED
      BY <1>9, <2>1, <3>2
  <2>6. ASSUME k = count, cache' # None
        PROVE  line(count) = cache' /\
                    \E u \in Seq(Tokens), b \in Nat :
                        Said(cache', u) /\ Lies(sent, u, b) /\ b + Len(u) = Len(sent)
    <3>1. line(k) = cache' /\ q \in Seq(Tokens)
      BY <1>1, <2>3, <2>6
    <3>2. Lies(sent, q, a) /\ a \in Nat
      BY <2>1 DEF Stretch, Lies
    <3> QED
      BY <2>1, <2>6, <3>1, <3>2
  <2> QED
    BY <2>4, <2>5, <2>6
<1>11. /\ DOMAIN todo' = 1..count /\ IsSeq(todo')
       /\ \A i \in 1..count : \E k \in 1..count : todo'[i] = lines[k]
       /\ kind # "prompts" => todo' = lines
  <2> HIDE DEF lines, count
  <2> QED
    BY <1>1, <1>3, <1>8, InOrderIs
<1> HIDE DEF lines, line, item, pieces, count, before
<1>12. PartsInv'
  <2>1. ASSUME NEW i \in DOMAIN todo' PROVE IsPart(todo[i])'
    <3>1. PICK k \in 1..count : todo'[i] = lines[k]
      BY <1>11
    <3>2. Fragment(sent', todo'[i].text, todo'[i].no)
      BY <1>10, <3>1
    <3> QED
      BY <3>2 DEF IsPart
  <2>2. /\ \A i \in DOMAIN gathered : IsPart(gathered[i])'
        /\ \A k \in DOMAIN occurred : \A i \in DOMAIN occurred[k] : IsPart(occurred[k][i])'
    BY <1>2 DEF PartsInv, IsPart
  <2>3. ~(Idle')
    <3>1. 1 \in DOMAIN todo'
      BY <1>3, <1>11
    <3>2. 1 \notin DOMAIN <<>>
      OBVIOUS
    <3> QED
      BY <3>1, <3>2 DEF Idle
  <2>4. cache' # None =>
          \E q \in Seq(Tokens), a \in Nat :
              Said(cache', q) /\ Lies(sent', q, a) /\ a + Len(q) = Read'
    BY <1>3, <1>6, <1>10
  <2> QED
    BY <1>11, <2>1, <2>2, <2>3, <2>4 DEF PartsInv
<1>13. NumbersInv'
  <2>1. ASSUME NEW i \in DOMAIN todo'
        PROVE  NoneAfter(occurred, gathered, todo'[i].no) /\ todo'[i].no <= Top'
    <3>1. PICK k \in 1..count : todo'[i] = lines[k]
      BY <1>11
    <3>2. todo'[i].no = before + k /\ k \in Nat /\ k >= 1
      BY <1>3, <1>7, <3>1
    <3>3. before + k \in Nat /\ before + 1 \in Nat /\ before + 1 <= before + k
      BY <1>4, <3>2
    <3>4. NoneAfter(occurred, gathered, before + 1)
      BY <1>2, <1>9 DEF NumbersInv
    <3>5. NoneAfter(occurred, gathered, before + k)
      BY <1>2, <3>3, <3>4, Later
    <3> QED
      BY <1>9, <1>10, <3>2, <3>5
  <2>2. NoneAfter(occurred, gathered, Top')
    <3>1. before + 1 <= Up(sent, Len(sent)) + 1
      BY <1>3, <1>10
    <3>2. Top \in Nat /\ Top' \in Nat /\ Top <= Top'
      BY <1>4, <1>9, <3>1
    <3> QED
      BY <1>2, <3>2, Later DEF NumbersInv
  <2>3. kind # "prompts" => Ascend(todo')
    <3>1. SUFFICES ASSUME kind # "prompts", NEW i \in DOMAIN todo', NEW j \in DOMAIN todo', i < j
                   PROVE  todo'[i].no <= todo'[j].no
      BY DEF Ascend
    <3>2. i \in 1..count /\ j \in 1..count /\ todo' = lines
      BY <1>11, <3>1
    <3>3. todo'[i].no = before + i /\ todo'[j].no = before + j
      BY <1>7, <3>2
    <3>4. i \in Int /\ j \in Int
      BY <3>2
    <3>5. before + i <= before + j
      BY <1>4, <3>1, <3>4
    <3> QED
      BY <3>3, <3>5
  <2>4. /\ CyclesAscend(occurred) /\ Ascend(gathered) /\ TakenBefore(occurred, gathered)
        /\ kind = "prompts" => gathered = <<>>
    BY <1>2 DEF NumbersInv
  <2>5. /\ CyclesAscend(occurred)' /\ Ascend(gathered)' /\ TakenBefore(occurred, gathered)'
        /\ NoneAfter(occurred, gathered, Top)'
    BY <2>2, <2>4
  <2>6. \A i \in DOMAIN todo' : NoneAfter(occurred', gathered', todo'[i].no) /\ todo'[i].no <= Top'
    BY <2>1
  <2>7. kind' # "prompts" => Ascend(todo')
    BY <2>3
  <2> QED
    BY <2>4, <2>5, <2>6, <2>7 DEF NumbersInv
<1> QED
  BY <1>6, <1>12, <1>13

\* CutLines completes what was kept.
LEMMA EventCutsLines == ASSUME EventInv, CutLines PROVE EventInv'
<1> DEFINE piece == SplitLines(chunk)[1]
<1>1. kind \in Events /\ chunk # <<>> /\ Cut(Completed(cache, piece))
      /\ UNCHANGED <<kind, sent, gathered, occurred>>
  BY DEF CutLines
<1>2. PartsInv /\ SourceInv
  BY <1>1 DEF EventInv
<1>3. \E w \in Seq(Tokens), place \in Nat :
         /\ Lies(sent, w, place) /\ place + Len(w) = Read
         /\ Said(Completed(cache, piece), w \o piece)
  <2>1. piece \in Seq(Marks)
    <3>1. 1 \in DOMAIN SplitLines(chunk)
      BY <1>1, <1>2, Pieces DEF SourceInv
    <3>2. PICK a : Stretch(sent, piece, a)
      BY <1>1, <1>2, <3>1, PieceIsStretch DEF SourceInv
    <3> QED
      BY <3>2, TextsAreMarks DEF Stretch
  <2> HIDE DEF piece
  <2>2. CASE cache = None
    <3>1. <<>> \in Seq(Tokens) /\ Len(<<>>) = 0 /\ <<>> \o piece = piece
      BY <2>1, ConcatEmptySeq
    <3>2. Read \in Nat /\ Read + 0 = Read /\ Read + 0 <= Len(sent)
      BY <1>2 DEF SourceInv, Behind, Texts
    <3>3. Lies(sent, <<>>, Read)
      BY <3>1, <3>2 DEF Lies
    <3>4. Said(Completed(cache, piece), <<>> \o piece)
      BY <2>2, <3>1 DEF Completed, Said
    <3> QED
      BY <3>1, <3>2, <3>3, <3>4
  <2>3. CASE cache # None
    <3>1. PICK w \in Seq(Tokens), place \in Nat :
              Said(cache, w) /\ Lies(sent, w, place) /\ place + Len(w) = Read
      BY <1>2, <2>3 DEF PartsInv
    <3>2. w \in Seq(Marks)
      BY TextsAreMarks
    <3>3. PICK h \in Heads : cache = h \o w
      BY <3>1, <3>2, SaidAs
    <3>4. Completed(cache, piece) = h \o (w \o piece) /\ w \o piece \in Seq(Marks)
      <4>1. h \in Seq(Marks)
        BY TextsAreMarks
      <4>2. (h \o w) \o piece = h \o (w \o piece)
        BY <2>1, <3>2, <4>1, ConcatAssociative
      <4>3. w \o piece \in Seq(Marks)
        BY <2>1, <3>2, ConcatProperties
      <4> QED
        BY <2>3, <3>3, <4>2, <4>3 DEF Completed
    <3>5. Said(Completed(cache, piece), w \o piece)
      BY <3>4, SaidAs
    <3> QED
      BY <3>1, <3>5
  <2> QED
    BY <2>2, <2>3
<1>4. PICK w \in Seq(Tokens), place \in Nat :
         /\ Lies(sent, w, place) /\ place + Len(w) = Read
         /\ Said(Completed(cache, piece), w \o piece)
  BY <1>3
<1>5. SourceInv' /\ PartsInv' /\ NumbersInv'
  BY <1>1, <1>4, EventCuts
<1>6. PausedInv' /\ CycleInv'
  BY PausedNext, CycleNext DEF EventInv, Next
<1> QED
  BY <1>5, <1>6 DEF EventInv

\* PauseCutsLines begins with "None" instead.
LEMMA EventPauseCuts == ASSUME EventInv, PauseCutsLines PROVE EventInv'
<1> DEFINE piece == SplitLines(chunk)[1]
<1>1. kind \in Events /\ chunk # <<>> /\ Cut(<<None>> \o piece)
      /\ UNCHANGED <<kind, sent, gathered, occurred>>
  BY DEF PauseCutsLines
<1>2. SourceInv
  BY DEF EventInv
<1>3. piece \in Seq(Marks)
  <2>1. 1 \in DOMAIN SplitLines(chunk)
    BY <1>1, <1>2, Pieces DEF SourceInv
  <2>2. PICK a : Stretch(sent, piece, a)
    BY <1>1, <1>2, <2>1, PieceIsStretch DEF SourceInv
  <2> QED
    BY <2>2, TextsAreMarks DEF Stretch
<1>4. <<>> \in Seq(Tokens) /\ Len(<<>>) = 0 /\ Said(<<None>> \o piece, <<>> \o piece)
  <2>1. <<>> \o piece = piece
    BY <1>3, ConcatEmptySeq
  <2> QED
    BY <2>1 DEF Said
<1>5. Read \in Nat /\ Read + 0 = Read /\ Read + 0 <= Len(sent)
  BY <1>2 DEF SourceInv, Behind, Texts
<1>6. Lies(sent, <<>>, Read)
  BY <1>4, <1>5 DEF Lies
<1>7. SourceInv' /\ PartsInv' /\ NumbersInv'
  BY <1>1, <1>4, <1>5, <1>6, EventCuts
<1>8. PausedInv' /\ CycleInv'
  BY PausedNext, CycleNext DEF EventInv, Next
<1> QED
  BY <1>7, <1>8 DEF EventInv

\* A line is taken: it comes after those taken before, and it is part of what was sent as they are.
LEMMA LineIsTaken ==
    ASSUME CycleInv, SourceInv, PartsInv, NumbersInv, NEW item, IsPart(item),
           NoneAfter(occurred, gathered, item.no), item.no <= Top,
           NEW lines, lines = Append(gathered, [text |-> item.text, no |-> item.no])
    PROVE  /\ IsSeq(lines) /\ Ascend(lines) /\ TakenBefore(occurred, lines)
           /\ \A i \in DOMAIN lines : IsPart(lines[i])
           /\ \A n \in Nat : NoneAfter(occurred, gathered, n) /\ item.no <= n
                             => NoneAfter(occurred, lines, n)
<1> DEFINE g == Len(gathered)
<1>1. /\ IsSeq(lines) /\ Len(lines) = g + 1 /\ g \in Nat
      /\ \A i \in 1..g : lines[i] = gathered[i]
      /\ lines[g + 1].text = item.text /\ lines[g + 1].no = item.no
      /\ DOMAIN gathered = 1..g /\ DOMAIN lines = 1..(g + 1)
  BY AppendIsSeq DEF CycleInv
<1> HIDE DEF g
<1>2. \A i \in DOMAIN lines : (i \in 1..g /\ lines[i] = gathered[i]) \/ i = g + 1
  <2>1. \A i \in 1..(g + 1) : i \in 1..g \/ i = g + 1
    BY <1>1
  <2> QED
    BY <1>1, <2>1
<1>3. \A i \in DOMAIN lines : IsPart(lines[i])
  <2>1. IsPart(lines[g + 1])
    BY <1>1 DEF IsPart
  <2>2. \A i \in 1..g : IsPart(gathered[i])
    BY <1>1 DEF PartsInv
  <2> QED
    BY <1>2, <2>1, <2>2
<1>4. ASSUME NEW n \in Nat, NoneAfter(occurred, gathered, n), item.no <= n
      PROVE  NoneAfter(occurred, lines, n)
  <2>1. \A i \in 1..g : gathered[i].no <= n
    BY <1>1, <1>4 DEF NoneAfter
  <2>2. \A i \in DOMAIN lines : lines[i].no <= n
    BY <1>1, <1>2, <1>4, <2>1
  <2> QED
    BY <1>4, <2>2 DEF NoneAfter
<1>5. Ascend(lines)
  <2>1. SUFFICES ASSUME NEW i \in DOMAIN lines, NEW j \in DOMAIN lines, i < j
                 PROVE  lines[i].no <= lines[j].no
    BY DEF Ascend
  <2>2. i \in 1..g
    BY <1>1, <2>1
  <2>3. CASE j = g + 1
    BY <1>1, <2>2, <2>3 DEF NoneAfter
  <2>4. CASE j \in 1..g
    <3>1. gathered[i].no <= gathered[j].no
      BY <1>1, <2>1, <2>2, <2>4 DEF NumbersInv, Ascend
    <3> QED
      BY <1>1, <2>2, <2>4, <3>1
  <2> QED
    BY <1>2, <2>3, <2>4
<1>6. TakenBefore(occurred, lines)
  <2>1. SUFFICES ASSUME NEW k \in DOMAIN occurred, NEW i \in DOMAIN occurred[k],
                        NEW j \in DOMAIN lines
                 PROVE  occurred[k][i].no <= lines[j].no
    BY DEF TakenBefore
  <2>2. CASE j = g + 1
    BY <1>1, <2>2 DEF NoneAfter
  <2>3. CASE j \in 1..g
    <3>1. occurred[k][i].no <= gathered[j].no
      BY <1>1, <2>3 DEF NumbersInv, TakenBefore
    <3> QED
      BY <1>1, <2>3, <3>1
  <2> QED
    BY <1>2, <2>2, <2>3
<1> QED
  BY <1>1, <1>3, <1>4, <1>5, <1>6

\* An occurrence is reported: the cycles still come in the order of their lines.
LEMMA CycleIsReported ==
    ASSUME CycleInv, NEW lines, Ascend(lines), CyclesAscend(occurred), TakenBefore(occurred, lines),
           \A k \in DOMAIN occurred : \A i \in DOMAIN occurred[k] : IsPart(occurred[k][i]),
           \A i \in DOMAIN lines : IsPart(lines[i]),
           NEW cycles, cycles = Append(occurred, lines)
    PROVE  /\ CyclesAscend(cycles) /\ TakenBefore(cycles, <<>>)
           /\ \A k \in DOMAIN cycles : \A i \in DOMAIN cycles[k] : IsPart(cycles[k][i])
           /\ \A n : NoneAfter(occurred, lines, n) => NoneAfter(cycles, <<>>, n)
<1> DEFINE c == Len(occurred)
<1>1. /\ c \in Nat /\ \A k \in 1..c : cycles[k] = occurred[k]
      /\ cycles[c + 1] = lines /\ DOMAIN occurred = 1..c /\ DOMAIN cycles = 1..(c + 1)
  BY AppendIsSeq DEF CycleInv
<1> HIDE DEF c
<1>2. \A k \in DOMAIN cycles :
         (k \in 1..c /\ cycles[k] = occurred[k]) \/ (k = c + 1 /\ cycles[k] = lines)
  <2>1. \A k \in 1..(c + 1) : k \in 1..c \/ k = c + 1
    BY <1>1
  <2> QED
    BY <1>1, <2>1
<1>3. DOMAIN <<>> = {}
  OBVIOUS
<1>4. TakenBefore(cycles, <<>>)
  BY <1>3 DEF TakenBefore
<1>5. \A k \in DOMAIN cycles : \A i \in DOMAIN cycles[k] : IsPart(cycles[k][i])
  BY <1>1, <1>2
<1>6. ASSUME NEW n, NoneAfter(occurred, lines, n) PROVE NoneAfter(cycles, <<>>, n)
  BY <1>1, <1>2, <1>3, <1>6 DEF NoneAfter
<1>7. CyclesAscend(cycles)
  <2>1. SUFFICES ASSUME NEW k \in DOMAIN cycles, NEW m \in DOMAIN cycles,
                        NEW i \in DOMAIN cycles[k], NEW j \in DOMAIN cycles[m],
                        k < m \/ (k = m /\ i < j)
                 PROVE  cycles[k][i].no <= cycles[m][j].no
    BY DEF CyclesAscend
  <2>2. k \in 1..(c + 1) /\ m \in 1..(c + 1)
    BY <1>1
  <2>3. CASE m \in 1..c
    <3>1. k \in 1..c
      BY <1>1, <2>1, <2>2, <2>3
    <3> QED
      BY <1>1, <2>1, <2>3, <3>1 DEF CyclesAscend
  <2>4. CASE m = c + 1 /\ k \in 1..c
    BY <1>1, <2>4 DEF TakenBefore
  <2>5. CASE m = c + 1 /\ k = c + 1
    <3>1. k = m /\ cycles[k] = lines /\ ~(k < m)
      BY <1>1, <2>5
    <3>2. i < j
      BY <2>1, <3>1
    <3> QED
      BY <3>1, <3>2 DEF Ascend
  <2> QED
    BY <1>2, <2>3, <2>4, <2>5
<1> QED
  BY <1>4, <1>5, <1>6, <1>7

\* What is left to look at after a line.
LEMMA TailIs ==
    ASSUME NEW s, IsSeq(s), s # <<>>
    PROVE  /\ IsSeq(Tail(s)) /\ 1 \in DOMAIN s /\ Head(s) = s[1]
           /\ \A i \in DOMAIN Tail(s) : /\ i \in Nat /\ i + 1 \in DOMAIN s /\ 1 < i + 1
                                        /\ Tail(s)[i] = s[i + 1]
<1>1. PICK S : s \in Seq(S)
  BY DEF IsSeq
<1>2. /\ Tail(s) \in Seq(S) /\ Len(Tail(s)) = Len(s) - 1
      /\ \A i \in 1..Len(Tail(s)) : Tail(s)[i] = s[i + 1]
  BY <1>1, HeadTailProperties
<1>3. Len(s) \in Nat /\ Len(s) >= 1 /\ DOMAIN s = 1..Len(s) /\ DOMAIN Tail(s) = 1..(Len(s) - 1)
  BY <1>1, <1>2, EmptySeq
<1>4. \A i \in 1..(Len(s) - 1) : i \in Nat /\ i + 1 \in 1..Len(s) /\ 1 < i + 1
  BY <1>3
<1>5. Head(s) = s[1] /\ 1 \in 1..Len(s)
  BY <1>1, <1>3
<1> QED
  BY <1>2, <1>3, <1>4, <1>5 DEF IsSeq

LEMMA EventProcesses == ASSUME EventInv, ProcessLine PROVE EventInv'
<1> DEFINE line == Head(todo)
           i == IF line.full \/ ~fullOnly THEN Matching(line) ELSE 0
           takes == i # 0
           occurs == takes /\ (kind \in {"any", "prompts"} \/ Len(pending) = 1)
           lines == Append(gathered, [text |-> line.text, no |-> line.no])
<1>1. /\ kind \in Events /\ todo # <<>>
      /\ occurred' = IF occurs THEN Append(occurred, lines) ELSE occurred
      /\ gathered' = CASE occurs -> <<>> [] takes /\ ~occurs -> lines [] OTHER -> gathered
      /\ todo' = RemainingLines(occurs)
      /\ cache' = IF occurs \/ paused THEN None ELSE cache
      /\ UNCHANGED <<kind, sent, chunk, paused>>
  BY DEF ProcessLine
<1>2. /\ occurs => takes
      /\ takes /\ kind = "prompts" => occurs
      /\ lines = Append(gathered, [text |-> line.text, no |-> line.no])
  OBVIOUS
<1>3. CycleInv /\ SourceInv /\ PartsInv /\ NumbersInv /\ chunk = <<>>
  BY <1>1 DEF EventInv, PausedInv, OneChunk
<1>4. /\ IsSeq(Tail(todo)) /\ 1 \in DOMAIN todo /\ line = todo[1]
      /\ \A k \in DOMAIN Tail(todo) : /\ k + 1 \in DOMAIN todo /\ 1 < k + 1
                                      /\ k \in Nat /\ Tail(todo)[k] = todo[k + 1]
  BY <1>1, <1>3, TailIs DEF PartsInv
<1>5. /\ IsPart(line) /\ NoneAfter(occurred, gathered, line.no) /\ line.no <= Top /\ line.no \in Nat
  BY <1>3, <1>4, PartNumbers DEF PartsInv, NumbersInv
<1>6. todo' = <<>> \/ (todo' = Tail(todo) /\ ~paused /\ ~(occurs /\ kind = "prompts"))
  BY <1>1 DEF RemainingLines
<1> HIDE DEF line, i, takes, occurs, lines
<1>7. /\ IsSeq(lines) /\ Ascend(lines) /\ TakenBefore(occurred, lines)
      /\ \A k \in DOMAIN lines : IsPart(lines[k])
      /\ \A n \in Nat : NoneAfter(occurred, gathered, n) /\ line.no <= n
                        => NoneAfter(occurred, lines, n)
  BY <1>2, <1>3, <1>5, LineIsTaken
<1>8. /\ Read' = Read /\ Top' = Top /\ \A o : IsPart(o)' <=> IsPart(o)
  BY <1>1 DEF Read, Top, IsPart
<1>9. SourceInv'
  BY <1>1, <1>3, <1>8 DEF SourceInv
\* What has been taken after the step.
<1>10. /\ CyclesAscend(occurred') /\ Ascend(gathered') /\ TakenBefore(occurred', gathered')
       /\ \A k \in DOMAIN gathered' : IsPart(gathered'[k])
       /\ \A k \in DOMAIN occurred' : \A j \in DOMAIN occurred'[k] : IsPart(occurred'[k][j])
       /\ \A n \in Nat : NoneAfter(occurred, gathered, n) /\ (takes => line.no <= n)
                         => NoneAfter(occurred', gathered', n)
       /\ kind = "prompts" => gathered' = <<>>
  <2>1. CASE ~takes
    <3>1. occurred' = occurred /\ gathered' = gathered
      BY <1>1, <1>2, <2>1
    <3> QED
      BY <1>3, <3>1 DEF NumbersInv, PartsInv
  <2>2. CASE takes /\ ~occurs
    <3>1. occurred' = occurred /\ gathered' = lines /\ kind # "prompts"
      BY <1>1, <1>2, <2>2
    <3>2. CyclesAscend(occurred)
      BY <1>3 DEF NumbersInv
    <3>3. \A k \in DOMAIN occurred : \A j \in DOMAIN occurred[k] : IsPart(occurred[k][j])
      BY <1>3 DEF PartsInv
    <3> QED
      BY <1>7, <2>2, <3>1, <3>2, <3>3
  <2>3. CASE occurs
    <3>1. occurred' = Append(occurred, lines) /\ gathered' = <<>> /\ takes
      BY <1>1, <1>2, <2>3
    <3>2. CyclesAscend(occurred)
      BY <1>3 DEF NumbersInv
    <3>3. \A k \in DOMAIN occurred : \A j \in DOMAIN occurred[k] : IsPart(occurred[k][j])
      BY <1>3 DEF PartsInv
    <3>4. /\ CyclesAscend(occurred') /\ TakenBefore(occurred', <<>>)
          /\ \A k \in DOMAIN occurred' : \A j \in DOMAIN occurred'[k] : IsPart(occurred'[k][j])
          /\ \A n : NoneAfter(occurred, lines, n) => NoneAfter(occurred', <<>>, n)
      BY <1>3, <1>7, <3>1, <3>2, <3>3, CycleIsReported
    <3>5. DOMAIN <<>> = {} /\ Ascend(<<>>)
      BY DEF Ascend
    <3> QED
      BY <1>7, <3>1, <3>4, <3>5
  <2> QED
    BY <2>1, <2>2, <2>3
<1>11. PartsInv'
  <2>1. IsSeq(todo') /\ \A k \in DOMAIN todo' : IsPart(todo'[k])
    <3>1. CASE todo' = <<>>
      <4>1. IsSeq(<<>>) /\ DOMAIN <<>> = {}
        BY DEF IsSeq
      <4> QED
        BY <3>1, <4>1
    <3>2. CASE todo' = Tail(todo)
      BY <1>3, <1>4, <3>2 DEF PartsInv
    <3> QED
      BY <1>6, <3>1, <3>2
  <2>2. paused' => cache' = None
    BY <1>1
  <2>3. cache' # None =>
           \E w \in Seq(Tokens), a \in Nat :
              Said(cache', w) /\ Lies(sent', w, a) /\ a + Len(w) = Read'
    <3>1. cache' # None => cache # None /\ cache' = cache
      BY <1>1
    <3> QED
      BY <1>1, <1>3, <1>8, <3>1 DEF PartsInv
  <2>4. /\ \A k \in DOMAIN todo' : IsPart(todo[k])'
        /\ \A k \in DOMAIN gathered' : IsPart(gathered[k])'
        /\ \A k \in DOMAIN occurred' : \A j \in DOMAIN occurred'[k] : IsPart(occurred[k][j])'
    BY <1>1, <1>10, <2>1 DEF IsPart
  <2> QED
    BY <2>1, <2>2, <2>3, <2>4 DEF PartsInv
<1>12. NumbersInv'
  <2>1. NoneAfter(occurred', gathered', Top)
    BY <1>3, <1>5, <1>10, TopIsNat DEF NumbersInv
  <2>2. ASSUME NEW k \in DOMAIN todo'
        PROVE  NoneAfter(occurred', gathered', todo'[k].no) /\ todo'[k].no <= Top
    <3>1. todo' = Tail(todo) /\ ~(occurs /\ kind = "prompts")
      <4>1. DOMAIN <<>> = {}
        OBVIOUS
      <4> QED
        BY <1>6, <2>2, <4>1
    <3>2. k + 1 \in DOMAIN todo /\ 1 < k + 1 /\ todo'[k] = todo[k + 1]
      BY <1>4, <2>2, <3>1
    <3>3. todo'[k].no \in Nat /\ NoneAfter(occurred, gathered, todo'[k].no) /\ todo'[k].no <= Top
      BY <1>3, <3>2, PartNumbers DEF NumbersInv
    <3>4. takes => line.no <= todo'[k].no
      <4>1. SUFFICES ASSUME takes PROVE line.no <= todo'[k].no
        OBVIOUS
      <4>2. kind # "prompts"
        BY <1>2, <3>1, <4>1
      <4>3. todo[1].no <= todo[k + 1].no
        BY <1>3, <1>4, <3>2, <4>2 DEF NumbersInv, Ascend
      <4> QED
        BY <1>4, <3>2, <4>3
    <3> QED
      BY <1>10, <3>3, <3>4
  <2>3. kind # "prompts" => Ascend(todo')
    <3>1. CASE todo' = <<>>
      BY <3>1 DEF Ascend
    <3>2. CASE todo' = Tail(todo)
      <4>1. SUFFICES ASSUME kind # "prompts", NEW k \in DOMAIN Tail(todo),
                            NEW j \in DOMAIN Tail(todo), k < j
                     PROVE  Tail(todo)[k].no <= Tail(todo)[j].no
        BY <3>2 DEF Ascend
      <4>2. /\ k + 1 \in DOMAIN todo /\ j + 1 \in DOMAIN todo /\ k \in Nat /\ j \in Nat
            /\ Tail(todo)[k] = todo[k + 1] /\ Tail(todo)[j] = todo[j + 1]
        BY <1>4
      <4>3. k + 1 < j + 1
        BY <4>1, <4>2
      <4>4. todo[k + 1].no <= todo[j + 1].no
        BY <1>3, <4>1, <4>2, <4>3 DEF NumbersInv, Ascend
      <4> QED
        BY <4>2, <4>4
    <3> QED
      BY <1>6, <3>1, <3>2
  <2>4. /\ CyclesAscend(occurred)' /\ Ascend(gathered)' /\ TakenBefore(occurred, gathered)'
        /\ NoneAfter(occurred, gathered, Top)'
    BY <1>8, <1>10, <2>1
  <2>5. \A k \in DOMAIN todo' : NoneAfter(occurred', gathered', todo'[k].no) /\ todo'[k].no <= Top'
    BY <1>8, <2>2
  <2>6. /\ kind' # "prompts" => Ascend(todo')
        /\ kind' = "prompts" => gathered' = <<>>
    BY <1>1, <1>10, <2>3
  <2> QED
    BY <2>4, <2>5, <2>6 DEF NumbersInv
<1>13. PausedInv' /\ CycleInv'
  BY PausedNext, CycleNext DEF EventInv, Next
<1> QED
  BY <1>9, <1>11, <1>12, <1>13 DEF EventInv

\* Nothing is read nor taken: a pause loses what was kept.
LEMMA EventRests ==
    ASSUME EventInv, UNCHANGED <<kind, sent, chunk, todo, gathered, occurred>>,
           cache' = None \/ (cache' = cache /\ (paused' => paused))
    PROVE  SourceInv' /\ (kind \in Events => PartsInv' /\ NumbersInv')
<1>1. Read' = Read /\ Top' = Top
  BY DEF Read, Top
<1>2. SourceInv'
  BY <1>1 DEF EventInv, SourceInv
<1>3. ASSUME kind \in Events PROVE PartsInv' /\ NumbersInv'
  <2>1. PartsInv /\ NumbersInv
    BY <1>3 DEF EventInv
  <2>2. NumbersInv'
    <3>1. NoneAfter(occurred, gathered, Top)'
      BY <1>1, <2>1 DEF NumbersInv
    <3>2. /\ CyclesAscend(occurred)' /\ Ascend(gathered)' /\ TakenBefore(occurred, gathered)'
          /\ kind # "prompts" => Ascend(todo)'
          /\ \A i \in DOMAIN todo : NoneAfter(occurred, gathered, todo[i].no) /\ todo[i].no <= Top
      BY <2>1 DEF NumbersInv
    <3> QED
      BY <1>1, <2>1, <3>1, <3>2 DEF NumbersInv
  <2>3. PartsInv'
    <3>1. /\ IsSeq(todo') /\ \A i \in DOMAIN todo' : IsPart(todo[i])'
          /\ \A i \in DOMAIN gathered' : IsPart(gathered[i])'
          /\ \A k \in DOMAIN occurred' : \A i \in DOMAIN occurred'[k] : IsPart(occurred[k][i])'
      BY <2>1 DEF PartsInv, IsPart
    <3>2. cache' # None => cache' = cache
      OBVIOUS
    <3>3. cache' # None =>
             \E w \in Seq(Tokens), a \in Nat :
                Said(cache', w) /\ Lies(sent', w, a) /\ a + Len(w) = Read'
      BY <1>1, <2>1, <3>2 DEF PartsInv
    <3>4. (paused /\ Idle)' => cache' = None
      BY <2>1 DEF PartsInv, Idle
    <3> QED
      BY <3>1, <3>3, <3>4 DEF PartsInv
  <2> QED
    BY <2>2, <2>3
<1> QED
  BY <1>2, <1>3

\* A command reports nothing here.
LEMMA CommandRests ==
    ASSUME EventInv, kind \in Commands, UNCHANGED <<kind, sent, occurred>>,
           chunk' \in {<<>>, chunk}
    PROVE  SourceInv' /\ kind' \notin Events
<1>1. kind \notin Events
  BY DEF Events, LineEvents, Commands
<1>2. sent \in Texts /\ chunk \in Texts /\ Behind(sent, chunk, Read) /\ Len(sent) \in Nat
  BY DEF EventInv, SourceInv, Texts
<1>3. CASE chunk' = chunk
  BY <1>1, <1>3 DEF EventInv, SourceInv, Read
<1>4. CASE chunk' = <<>>
  <2>1. Read' = Len(sent)
    BY <1>2, <1>4 DEF Read
  <2>2. Behind(sent', chunk', Read') /\ chunk' \in Texts
    BY <1>2, <1>4, <2>1 DEF Behind, Texts
  <2> QED
    BY <1>1, <1>2, <2>2 DEF EventInv, SourceInv
<1> QED
  BY <1>3, <1>4

LEMMA EventNext == ASSUME EventInv, [Next]_vars PROVE EventInv'
<1>1. PausedInv' /\ CycleInv'
  BY PausedNext, CycleNext DEF EventInv
<1>2. CASE Receive
  BY <1>2, EventReceives
<1>3. CASE CutLines
  BY <1>3, EventCutsLines
<1>4. CASE ProcessLine
  BY <1>4, EventProcesses
<1>5. CASE CutPieces
  <2>1. kind \in Commands /\ UNCHANGED <<kind, sent, occurred>> /\ chunk' \in {<<>>, chunk}
    BY <1>5 DEF CutPieces
  <2> QED
    BY <1>1, <2>1, CommandRests DEF EventInv
<1>6. CASE ProcessPiece
  <2>1. kind \in Commands /\ UNCHANGED <<kind, sent, occurred>> /\ chunk' \in {<<>>, chunk}
    BY <1>6 DEF ProcessPiece
  <2> QED
    BY <1>1, <2>1, CommandRests DEF EventInv
<1>7. CASE Pause
  <2>1. UNCHANGED <<kind, sent, chunk, todo, gathered, occurred>> /\ cache' = None
    BY <1>7 DEF Pause, Pausing
  <2> QED
    BY <1>1, <2>1, EventRests DEF EventInv
<1>8. CASE PauseCutsLines
  BY <1>8, EventPauseCuts
<1>9. CASE Resume
  <2>1. /\ UNCHANGED <<kind, sent, chunk, todo, gathered, occurred>>
        /\ cache' = cache /\ (paused' => paused)
    BY <1>9 DEF Resume
  <2> QED
    BY <1>1, <2>1, EventRests DEF EventInv
<1>10. CASE UNCHANGED vars
  <2>1. /\ UNCHANGED <<kind, sent, chunk, todo, gathered, occurred>>
        /\ cache' = cache /\ (paused' => paused)
    BY <1>10 DEF vars
  <2> QED
    BY <1>1, <2>1, EventRests DEF EventInv
<1> QED
  BY <1>2, <1>3, <1>4, <1>5, <1>6, <1>7, <1>8, <1>9, <1>10 DEF Next

LEMMA EventIsReal == ASSUME EventInv PROVE OccurrencesAreReal
<1>1. CASE kind \in Events
  <2>1. PartsInv /\ NumbersInv /\ sent \in Texts
    BY <1>1 DEF EventInv, SourceInv
  <2>2. \A k \in DOMAIN occurred : \A m \in DOMAIN occurred[k] : TextWasSent(occurred[k][m])
    <3>1. \A o : IsPart(o) => TextWasSent(o)
      BY <2>1, FragmentWasSent DEF IsPart
    <3> QED
      BY <2>1, <3>1 DEF PartsInv
  <2>3. InLineOrder
    BY <2>1 DEF NumbersInv, CyclesAscend, InLineOrder
  <2>4. CyclesAreWhole
    BY DEF EventInv, CycleInv, CyclesAreWhole
  <2> QED
    BY <2>2, <2>3, <2>4 DEF OccurrencesAreReal
<1>2. CASE kind \notin Events
  <2>1. occurred = <<>>
    BY <1>2 DEF EventInv, SourceInv
  <2> QED
    BY <2>1 DEF OccurrencesAreReal, InLineOrder, CyclesAreWhole
<1> QED
  BY <1>1, <1>2

\* What an event reports is part of one line that the device has sent (fragments of two lines, or
\* from before and after a pause, are never joined by _update_from_cached_incomplete_line), in the
\* order it was sent in, though Wait4prompts looks at the lines of a chunk backwards, and a whole
\* cycle at a time; for every text, every cut of it into chunks, every patterns and prompts, and
\* every moment of pause() and resume().
THEOREM OccurrencesComeFromTheDevice == Spec => []OccurrencesAreReal
<1>1. EventInv => OccurrencesAreReal
  BY EventIsReal
<1> QED
  BY <1>1, EventInit, EventNext, PTL DEF Spec

-----------------------------------------------------------------------------
(* Whole lines.                                                             *)

\* Where a line ends.
Ends(s, b) == b = Len(s) \/ (b < Len(s) /\ s[b + 1] = Newline)

\* A fragment that begins and ends where a line does is the line.
LEMMA WholeLine ==
    ASSUME NEW s \in Texts, NEW w \in Seq(Tokens), NEW a, Lies(s, w, a), Begins(s, a),
           Ends(s, a + Len(w))
    PROVE  LineOf(s, Up(s, a) + 1) = w
<1> DEFINE n == Up(s, a) + 1
           b == a + Len(w)
           places == {i \in DOMAIN s : s[i] # Newline /\ LineNo(s, i) = n}
<1>1. /\ Len(w) \in Nat /\ a \in Nat /\ b <= Len(s) /\ b \in Nat /\ Len(s) \in Nat
      /\ DOMAIN s = 1..Len(s) /\ b = a + Len(w)
  BY DEF Lies, Texts
<1>2. LineOf(s, n) = IF places = {} THEN <<>> ELSE SubSeq(s, Min(places), Max(places))
  BY DEF LineOf
<1>3. a \in 0..Len(s) /\ b \in 0..Len(s) /\ Up(s, a) \in Nat /\ Up(s, b) = Up(s, a)
  <2>1. a \in 0..Len(s) /\ b \in 0..Len(s) /\ Len(w) \in 0..Len(w)
    BY <1>1
  <2> QED
    BY <1>1, <2>1, UpFlat, UpSteps
<1>4. places = (a + 1)..b
  <2>1. ASSUME NEW i \in (a + 1)..b PROVE i \in places
    <3>1. i - a \in 1..Len(w) /\ a + (i - a) = i /\ i \in 1..Len(s) /\ (i - a) - 1 \in 0..Len(w)
          /\ a + ((i - a) - 1) = i - 1
      BY <1>1
    <3>2. s[i] \in Tokens
      <4>1. w[i - a] = s[a + (i - a)] /\ w[i - a] \in Tokens
        BY <3>1 DEF Lies
      <4> QED
        BY <3>1, <4>1
    <3>3. Up(s, i - 1) = Up(s, a)
      BY <3>1, UpFlat
    <3>4. LineNo(s, i) = n
      BY <3>3 DEF LineNo, Up
    <3> QED
      BY <1>1, <3>1, <3>2, <3>4, NewlineAssumption
  <2>2. ASSUME NEW i \in places PROVE i \in (a + 1)..b
    <3>1. i \in 1..Len(s) /\ s[i] # Newline /\ Up(s, i - 1) + 1 = n
      BY <1>1 DEF LineNo, Up
    <3>2. i \in Nat /\ i >= 1 /\ i <= Len(s) /\ i - 1 \in 0..Len(s)
      BY <1>1, <3>1
    <3>3. Up(s, i - 1) \in Nat
      BY <3>2, UpSteps
    <3>4. Up(s, i - 1) = Up(s, a)
      BY <1>3, <3>1, <3>3
    <3> HIDE DEF places, n
    <3>5. ~(i <= a)
      <4>1. SUFFICES ASSUME i <= a PROVE FALSE
        OBVIOUS
      <4>2. a \in 1..Len(s) /\ a - 1 \in 0..Len(s) /\ i - 1 <= a - 1
        BY <1>1, <3>2, <4>1
      <4>3. s[a] = Newline
        BY <4>2 DEF Begins
      <4>4. Up(s, a) = Up(s, a - 1) + 1 /\ Up(s, a - 1) \in Nat
        BY <4>2, <4>3, UpSteps
      <4>5. Up(s, i - 1) <= Up(s, a - 1)
        BY <3>2, <4>2, UpRises
      <4> QED
        BY <3>3, <3>4, <4>4, <4>5
    <3>6. i <= b
      <4>1. SUFFICES ASSUME ~(i <= b) PROVE FALSE
        OBVIOUS
      <4>2. b < Len(s) /\ i > b
        BY <1>1, <3>2, <4>1
      <4>3. s[b + 1] = Newline
        <5>2. Ends(s, b)
          OBVIOUS
        <5>3. b \in Nat /\ Len(s) \in Nat /\ b < Len(s)
          BY <1>1, <4>2
        <5> HIDE DEF b
        <5>1. b # Len(s)
          BY <5>3
        <5> QED
          BY <5>1, <5>2 DEF Ends
      <4>4. i # b + 1
        BY <3>1, <4>3
      <4>5. b + 1 \in 1..Len(s) /\ b + 1 \in 0..Len(s) /\ (b + 1) - 1 = b /\ b + 1 <= i - 1
        BY <1>1, <3>2, <4>2, <4>4
      <4>6. Up(s, b + 1) = Up(s, b) + 1
        BY <4>3, <4>5, UpSteps
      <4>7. Up(s, b + 1) <= Up(s, i - 1)
        BY <3>2, <4>5, UpRises
      <4> QED
        BY <1>3, <3>3, <3>4, <4>6, <4>7
    <3> QED
      BY <1>1, <3>2, <3>5, <3>6
  <2> HIDE DEF places
  <2> QED
    BY <2>1, <2>2
<1> HIDE DEF places, n, b
<1>5. CASE w = <<>>
  <2>1. Len(w) = 0
    BY <1>5
  <2>2. b < a + 1
    BY <1>1, <2>1
  <2>3. places = {}
    BY <1>1, <1>4, <2>2
  <2> QED
    BY <1>2, <1>5, <2>3 DEF n
<1>6. CASE w # <<>>
  <2>1. Len(w) >= 1 /\ a + 1 \in (a + 1)..b /\ b \in (a + 1)..b
    <3>1. Len(w) # 0
      BY <1>6, EmptySeq
    <3> QED
      BY <1>1, <3>1
  <2>2. Min(places) = a + 1 /\ Max(places) = b
    <3>1. places \in SUBSET (1..Len(s)) /\ places # {}
      <4>1. (a + 1)..b \in SUBSET (1..Len(s))
        BY <1>1
      <4> QED
        BY <1>4, <2>1, <4>1
    <3>2. /\ Min(places) \in places /\ \A x \in places : Min(places) <= x
          /\ Max(places) \in places /\ \A x \in places : x <= Max(places)
      BY <1>1, <3>1, Extremes
    <3>3. Min(places) \in (a + 1)..b /\ Max(places) \in (a + 1)..b
          /\ Min(places) <= a + 1 /\ b <= Max(places)
      BY <1>4, <2>1, <3>2
    <3> HIDE DEF places
    <3> QED
      BY <1>1, <3>3
  <2>3. LineOf(s, n) = SubSeq(s, a + 1, b)
    BY <1>2, <1>4, <2>1, <2>2
  <2>4. SubSeq(s, a + 1, b) = w
    <3>1. ASSUME NEW i \in (a + 1)..b PROVE s[i] \in Tokens
      <4>1. PICK j \in 1..Len(w) : a + j = i
        <5>1. i - a \in 1..Len(w) /\ a + (i - a) = i
          BY <1>1
        <5> QED
          BY <5>1
      <4>2. w[j] = s[a + j] /\ w[j] \in Tokens
        BY DEF Lies
      <4> QED
        BY <4>1, <4>2
    <3>2. /\ a + 1 \in Int /\ b \in Int
          /\ (IF a + 1 <= b THEN b - (a + 1) + 1 ELSE 0) = Len(w) /\ b - (a + 1) + 1 = Len(w)
          /\ \A j \in 1..Len(w) : (a + 1) + j - 1 = a + j
      BY <1>1, <2>1
    <3>3. /\ SubSeq(s, a + 1, b) \in Seq(Tokens)
          /\ Len(SubSeq(s, a + 1, b)) = IF a + 1 <= b THEN b - (a + 1) + 1 ELSE 0
          /\ \A j \in 1..(b - (a + 1) + 1) : SubSeq(s, a + 1, b)[j] = s[(a + 1) + j - 1]
      <4>1. PICK m \in Int : m = a + 1
        BY <3>2
      <4>2. \A i \in m..b : s[i] \in Tokens
        BY <3>1, <4>1
      <4>3. /\ SubSeq(s, m, b) \in Seq(Tokens)
            /\ Len(SubSeq(s, m, b)) = IF m <= b THEN b - m + 1 ELSE 0
            /\ \A j \in 1..(b - m + 1) : SubSeq(s, m, b)[j] = s[m + j - 1]
        BY <3>2, <4>2, SubSeqProperties
      <4> QED
        BY <4>1, <4>3
    <3>4. \A j \in 1..Len(w) : SubSeq(s, a + 1, b)[j] = w[j]
      BY <3>2, <3>3 DEF Lies
    <3> QED
      BY <3>2, <3>3, <3>4, SeqEqual
  <2> QED
    BY <2>3, <2>4 DEF n
<1> QED
  BY <1>5, <1>6

\* A line that has ended stays as it is.
LEMMA LineStays ==
    ASSUME NEW s \in Texts, NEW t \in Texts, NEW n \in Nat, n <= Up(s, Len(s))
    PROVE  LineOf(s \o t, n) = LineOf(s, n)
<1> DEFINE places == {i \in DOMAIN s : s[i] # Newline /\ LineNo(s, i) = n}
           u == s \o t
           others == {i \in DOMAIN u : u[i] # Newline /\ LineNo(u, i) = n}
<1>1. /\ u \in Texts /\ Len(u) = Len(s) + Len(t) /\ Len(s) \in Nat /\ Len(t) \in Nat
      /\ \A i \in 1..(Len(s) + Len(t)) : u[i] = IF i <= Len(s) THEN s[i] ELSE t[i - Len(s)]
      /\ DOMAIN s = 1..Len(s) /\ DOMAIN u = 1..(Len(s) + Len(t))
      /\ \A i \in 1..Len(s) : s[i] \in Tokens \cup {Newline}
  BY ConcatProperties DEF Texts
<1>2. /\ LineOf(u, n) = IF others = {} THEN <<>> ELSE SubSeq(u, Min(others), Max(others))
      /\ LineOf(s, n) = IF places = {} THEN <<>> ELSE SubSeq(s, Min(places), Max(places))
  BY DEF LineOf
<1>3. ASSUME NEW i \in 1..Len(s) PROVE u[i] = s[i] /\ LineNo(u, i) = LineNo(s, i)
  <2>1. i \in 1..(Len(s) + Len(t)) /\ i <= Len(s) /\ i - 1 \in 0..Len(s)
    BY <1>1
  <2>2. Up(u, i - 1) = Up(s, i - 1)
    BY <2>1, UpGrows
  <2> QED
    BY <1>1, <2>1, <2>2 DEF LineNo, Up
<1>4. others = places
  <2>1. ASSUME NEW i \in places PROVE i \in others
    <3>1. i \in 1..Len(s) /\ i \in 1..(Len(s) + Len(t))
      BY <1>1
    <3> QED
      BY <1>1, <1>3, <3>1
  <2>2. ASSUME NEW i \in others PROVE i \in places
    <3>1. i \in 1..(Len(s) + Len(t)) /\ Up(u, i - 1) + 1 = n
      BY <1>1 DEF LineNo, Up
    <3> HIDE DEF others, places, u
    <3>2. i \in 1..Len(s)
      <4>1. SUFFICES ASSUME ~(i <= Len(s)) PROVE FALSE
        BY <1>1, <3>1
      <4>2. Len(s) \in 0..Len(u) /\ i - 1 \in 0..Len(u) /\ Len(s) <= i - 1 /\ Len(s) \in 0..Len(s)
        BY <1>1, <3>1, <4>1
      <4>3. Up(u, Len(s)) <= Up(u, i - 1) /\ Up(u, i - 1) \in Nat
        BY <1>1, <4>2, UpRises, UpSteps
      <4>4. Up(u, Len(s)) = Up(s, Len(s)) /\ Up(s, Len(s)) \in Nat
        BY <4>2, UpGrows, UpSteps DEF u
      <4> QED
        BY <3>1, <4>3, <4>4
    <3>3. u[i] # Newline /\ LineNo(u, i) = n
      BY DEF others
    <3> QED
      BY <1>1, <1>3, <3>2, <3>3 DEF places
  <2> HIDE DEF others, places
  <2> QED
    BY <2>1, <2>2
<1>5. CASE places = {}
  BY <1>2, <1>4, <1>5
<1>6. CASE places # {}
  <2> DEFINE m == Min(places)
             x == Max(places)
  <2>1. places \in SUBSET (1..Len(s))
    BY <1>1
  <2>2. m \in 1..Len(s) /\ x \in 1..Len(s)
    <3> HIDE DEF places
    <3> QED
      BY <1>1, <1>6, <2>1, Extremes
  <2>3. LineOf(u, n) = SubSeq(u, m, x) /\ LineOf(s, n) = SubSeq(s, m, x)
    BY <1>2, <1>4, <1>6
  <2> HIDE DEF m, x, places, others, u
  <2>4. \A j \in m..x : j \in 1..Len(s)
    BY <1>1, <2>2
  <2>5. \A j \in m..x : u[j] = s[j] /\ s[j] \in Tokens \cup {Newline}
    BY <1>1, <1>3, <2>4
  <2>6. /\ SubSeq(s, m, x) \in Texts /\ SubSeq(u, m, x) \in Texts
        /\ Len(SubSeq(s, m, x)) = Len(SubSeq(u, m, x))
        /\ \A j \in 1..(x - m + 1) : /\ SubSeq(s, m, x)[j] = s[m + j - 1]
                                     /\ SubSeq(u, m, x)[j] = u[m + j - 1]
        /\ Len(SubSeq(s, m, x)) = IF m <= x THEN x - m + 1 ELSE 0
    <3>1. m \in Int /\ x \in Int
      BY <2>2
    <3> QED
      BY <2>5, <3>1, SubSeqProperties DEF Texts
  <2>7. ASSUME NEW j \in 1..Len(SubSeq(s, m, x)) PROVE SubSeq(s, m, x)[j] = SubSeq(u, m, x)[j]
    <3>1. j \in 1..(x - m + 1) /\ m + j - 1 \in m..x
      <4>1. DEFINE l == Len(SubSeq(s, m, x))
      <4>2. l = IF m <= x THEN x - m + 1 ELSE 0
        BY <2>6
      <4>3. j \in 1..l
        OBVIOUS
      <4> HIDE DEF l
      <4> QED
        BY <2>2, <4>2, <4>3
    <3> QED
      BY <2>5, <2>6, <3>1
  <2>8. SubSeq(s, m, x) = SubSeq(u, m, x)
    BY <2>6, <2>7, SeqEqual DEF Texts
  <2> QED
    BY <2>3, <2>8 DEF u
<1> QED
  BY <1>5, <1>6


\* A line of the chunk that ends with it or with a newline: whole, if it begins where a line does.
LEMMA StretchEnds ==
    ASSUME NEW s \in Texts, NEW q, NEW a, Stretch(s, q, a), EndsText(s, q, a) \/ EndsLine(q)
    PROVE  /\ Stripped(q) \in Seq(Tokens)
           /\ Begins(s, a) => Stripped(q) = LineOf(s, Up(s, a) + 1)
           /\ Up(s, a) + 1 <= Up(s, Len(s)) => IsFull(q)
           /\ IsFull(q) => /\ KeptOf(q) = None
                           /\ Begins(s, a + Len(q))
                           /\ Up(s, a + Len(q)) = Up(s, a) + 1
           /\ ~IsFull(q) => /\ KeptOf(q) = q /\ q \in Seq(Tokens) /\ q # <<>>
                            /\ EndsText(s, q, a) /\ Up(s, Len(s)) = Up(s, a)
<1>1. /\ q \in Texts /\ q # <<>> /\ a \in Nat /\ Len(q) \in Nat /\ Len(q) >= 1
      /\ a + Len(q) <= Len(s) /\ Len(s) \in Nat
  BY EmptySeq DEF Stretch, Lies, Texts
<1>2. /\ \A i \in 1..Len(q) : q[i] = s[a + i] /\ q[i] \in Tokens \cup {Newline}
      /\ \A i \in 1..(Len(q) - 1) : q[i] \in Tokens
  BY DEF Stretch, Lies, Texts
<1>3. IsFull(q) <=> q[Len(q)] = Newline
  BY <1>1 DEF IsFull, Last
<1>4. a \in 0..Len(s) /\ Up(s, a) \in Nat /\ Len(q) \in 1..Len(q)
  <2>1. a \in 0..Len(s) /\ Len(q) \in 1..Len(q)
    BY <1>1
  <2> QED
    BY <2>1, UpSteps
<1>5. CASE IsFull(q)
  <2> DEFINE f == Front(q)
             b == a + Len(q)
  <2>1. /\ f \in Seq(Tokens \cup {Newline}) /\ Len(f) = Len(q) - 1
        /\ \A i \in 1..(Len(q) - 1) : f[i] = q[i]
    BY <1>1, FrontIs DEF Texts
  <2> HIDE DEF f, b
  <2>2. f \in Seq(Tokens)
    BY <1>2, <2>1
  <2>3. b \in 1..Len(s) /\ b \in Nat /\ a + Len(f) = b - 1 /\ (b - 1) + 1 = b /\ b - 1 < Len(s)
        /\ a + Len(f) <= Len(s) /\ Len(f) \in 0..Len(f)
    BY <1>1, <2>1 DEF b
  <2>4. s[b] = Newline
    BY <1>2, <1>3, <1>4, <1>5 DEF b
  <2>5. Lies(s, f, a)
    <3>1. \A i \in 1..(Len(q) - 1) : i \in 1..Len(q)
      BY <1>1
    <3> QED
      BY <1>1, <1>2, <2>1, <2>3, <3>1 DEF Lies
  <2>6. Ends(s, a + Len(f))
    BY <2>3, <2>4 DEF Ends
  <2>7. Stripped(q) = f
    BY <1>5 DEF Stripped, f
  <2>8. Begins(s, a) => f = LineOf(s, Up(s, a) + 1)
    BY <2>2, <2>5, <2>6, WholeLine
  <2>9. Up(s, b) = Up(s, a) + 1
    <3>1. Up(s, b - 1) = Up(s, a)
      BY <2>2, <2>3, <2>5, UpFlat
    <3> QED
      BY <2>3, <2>4, <3>1, UpSteps
  <2>10. Begins(s, b) /\ KeptOf(q) = None
    BY <1>5, <2>4 DEF Begins, KeptOf
  <2> QED
    BY <1>5, <2>2, <2>7, <2>8, <2>9, <2>10 DEF b
<1>6. CASE ~IsFull(q)
  <2>1. q \in Seq(Tokens)
    <3>1. \A i \in 1..Len(q) : i \in 1..(Len(q) - 1) \/ i = Len(q)
      BY <1>1
    <3>2. q[Len(q)] \in Tokens
      BY <1>2, <1>3, <1>4, <1>6
    <3>3. \A i \in 1..Len(q) : q[i] \in Tokens
      BY <1>2, <3>1, <3>2
    <3> QED
      BY <1>1, <3>3 DEF Texts
  <2>2. EndsText(s, q, a)
    BY <1>3, <1>6 DEF EndsLine
  <2>3. Lies(s, q, a) /\ Ends(s, a + Len(q))
    BY <2>2 DEF Stretch, EndsText, Ends
  <2>4. Stripped(q) = q /\ KeptOf(q) = q
    BY <1>6 DEF Stripped, KeptOf
  <2>5. Begins(s, a) => q = LineOf(s, Up(s, a) + 1)
    BY <2>1, <2>3, WholeLine
  <2>6. Up(s, Len(s)) = Up(s, a)
    <3>1. Len(q) \in 0..Len(q) /\ a + Len(q) = Len(s)
      BY <1>1, <2>2 DEF EndsText
    <3> QED
      BY <2>1, <2>3, <3>1, UpFlat
  <2>7. ~(Up(s, a) + 1 <= Up(s, Len(s)))
    BY <1>4, <2>6
  <2> QED
    BY <1>1, <1>6, <2>1, <2>2, <2>4, <2>5, <2>6, <2>7
<1> QED
  BY <1>5, <1>6

LEMMA LiesGrows ==
    ASSUME NEW s \in Texts, NEW t \in Texts, NEW w \in Seq(Tokens), NEW a, Lies(s, w, a)
    PROVE  Lies(s \o t, w, a) /\ (Begins(s, a) => Begins(s \o t, a))
<1>1. /\ Len(w) \in Nat /\ Len(s) \in Nat /\ Len(t) \in Nat /\ a \in Nat /\ a + Len(w) <= Len(s)
      /\ Len(s \o t) = Len(s) + Len(t)
      /\ \A i \in 1..(Len(s) + Len(t)) :
            (s \o t)[i] = IF i <= Len(s) THEN s[i] ELSE t[i - Len(s)]
  BY ConcatProperties DEF Lies, Texts
<1>2. ASSUME NEW i \in 1..Len(w) PROVE w[i] = (s \o t)[a + i]
  <2>1. a + i \in 1..(Len(s) + Len(t)) /\ a + i <= Len(s)
    BY <1>1
  <2> QED
    BY <1>1, <2>1 DEF Lies
<1>3. a + Len(w) <= Len(s \o t)
  BY <1>1
<1>4. Begins(s, a) => Begins(s \o t, a)
  <2>1. a = 0 \/ (a \in 1..(Len(s) + Len(t)) /\ a <= Len(s))
    BY <1>1
  <2> QED
    BY <1>1, <2>1 DEF Begins
<1> QED
  BY <1>1, <1>2, <1>3, <1>4 DEF Lies

\* A text of tokens has no "None" before it.
LEMMA SaidPlainly ==
    ASSUME NEW w \in Seq(Tokens), NEW text \in Seq(Tokens), Said(text, w)
    PROVE  text = w
<1>1. text # <<>> => Head(text) \in Tokens
  OBVIOUS
<1>2. ~(text # <<>> /\ Head(text) = None)
  BY <1>1, NewlineAssumption
<1> QED
  BY <1>2, SaidText

\* What is found in a fragment is a fragment of the same line.
LEMMA FoundInFragment ==
    ASSUME NEW s \in Texts, NEW text \in Seq(Tokens), NEW no, Fragment(s, text, no),
           NEW p \in Seq(Tokens), Has(text, p)
    PROVE  Fragment(s, p, no)
<1>1. PICK w \in Seq(Tokens), a \in Nat : Said(text, w) /\ Lies(s, w, a) /\ no = Up(s, a) + 1
  BY DEF Fragment
<1>2. text = w
  BY <1>1, SaidPlainly
<1>3. PICK i \in 0..Len(w) : i + Len(p) <= Len(w) /\ SubSeq(w, i + 1, i + Len(p)) = p
  BY <1>2 DEF Has
<1>4. /\ Len(p) \in Nat /\ Len(w) \in Nat /\ i \in Nat /\ a + Len(w) <= Len(s) /\ Len(s) \in Nat
      /\ \A j \in 1..Len(w) : w[j] = s[a + j] /\ w[j] \in Tokens
  BY <1>1 DEF Lies, Texts
<1>5. ASSUME NEW j \in 1..Len(p) PROVE p[j] = s[(a + i) + j]
  <2>1. \A k \in (i + 1)..(i + Len(p)) : k \in 1..Len(w)
    BY <1>3, <1>4
  <2>2. \A k \in (i + 1)..(i + Len(p)) : w[k] \in Tokens
    BY <1>4, <2>1
  <2>3. /\ i + 1 \in Int /\ i + Len(p) \in Int /\ j \in 1..((i + Len(p)) - (i + 1) + 1)
        /\ (i + 1) + j - 1 = i + j /\ i + j \in 1..Len(w) /\ a + (i + j) = (a + i) + j
    BY <1>3, <1>4
  <2>4. SubSeq(w, i + 1, i + Len(p))[j] = w[(i + 1) + j - 1]
    BY <2>2, <2>3, SubSeqProperties
  <2> QED
    BY <1>3, <1>4, <2>3, <2>4
<1>6. a + i \in Nat /\ (a + i) + Len(p) <= Len(s)
  BY <1>3, <1>4
<1>7. Lies(s, p, a + i)
  BY <1>5, <1>6 DEF Lies
<1>8. Up(s, a + i) = Up(s, a)
  BY <1>1, UpFlat
<1>9. Said(p, p)
  BY DEF Said
<1> QED
  BY <1>1, <1>6, <1>7, <1>8, <1>9 DEF Fragment

\* An empty line has no text in it.
LEMMA NothingInEmpty ==
    ASSUME NEW p \in Seq(Tokens), p # <<>>
    PROVE  ~Has(<<>>, p)
<1>1. SUFFICES ASSUME NEW i \in 0..Len(<<>>), i + Len(p) <= Len(<<>>) PROVE FALSE
  BY DEF Has
<1>2. Len(p) \in Nat /\ Len(p) >= 1 /\ Len(<<>>) = 0
  BY EmptySeq
<1> QED
  BY <1>1, <1>2


-----------------------------------------------------------------------------
(* Every line with a match is reported.                                     *)

\* What any event, and Wait4prompts, look for; a line with it; that it has been reported (by
\* Wait4prompts: it or a later one), or has yet to be looked at.
Single == {"any", "prompts"}
Wanted == IF kind = "any" THEN ToSet(Patterns) ELSE Prompts
Matches(n) == \E p \in Wanted : Has(LineOf(sent, n), p)
Covered(n) == \E k \in DOMAIN occurred : IF kind = "any" THEN occurred[k][1].no = n
                                         ELSE n <= occurred[k][1].no
ToDo(n) == \E i \in DOMAIN todo : todo[i].no = n
WasRead(n) == n <= Up(sent, Read) \/ (n = Top /\ chunk = <<>> /\ ~fullOnly)

\* A regular expression that matches the empty text is found in what has not been sent yet.
NoEmpty == <<>> \notin Prompts /\ \A i \in DOMAIN Patterns : Patterns[i] # <<>>

SteadyInv ==
    /\ paused => everPaused
    /\ isDone /\ kind \in Events => Idle
    /\ kind = "any" => pending = AllPatterns
    /\ kind = "prompts" => fullOnly = FALSE
    /\ kind \in Single => gathered = <<>> /\ \A k \in DOMAIN occurred : DOMAIN occurred[k] = {1}

\* The lines to look at are whole, and what is kept is the whole beginning of the line that is
\* read next, but in a line that was reported.
Keeps(w) == IF w = <<>> THEN None ELSE w
IsLine(o) ==
    /\ o.text \in Seq(Tokens)
    /\ Covered(o.no) \/ o.text = LineOf(sent, o.no)
    /\ o.no <= Up(sent, Read) => o.full
KeptInv ==
    Covered(Top) \/
    \E w \in Seq(Tokens), a \in Nat :
        Begins(sent, a) /\ Lies(sent, w, a) /\ a + Len(w) = Read /\ cache = Keeps(w)
Descend(lines) == \A i, j \in DOMAIN lines : i < j => lines[j].no <= lines[i].no
PromptsInv ==
    /\ \A k \in DOMAIN occurred : \E p \in Prompts : Fragment(sent, p, occurred[k][1].no)
    /\ Descend(todo)
WholeInv ==
    /\ \A i \in DOMAIN todo : IsLine(todo[i])
    /\ cache # None => cache \in Seq(Tokens)
    /\ KeptInv
    /\ \A n \in Nat \ {0} : WasRead(n) /\ Matches(n) => Covered(n) \/ ToDo(n)
    /\ kind = "prompts" => PromptsInv

Quiet == kind \in Single /\ ~isDone /\ ~dropped /\ ~everPaused
MatchInv == EventInv /\ SteadyInv /\ (Quiet => WholeInv)

LEMMA SteadyInit == ASSUME Init PROVE SteadyInv
<1>1. /\ kind \in Events \cup Commands
      /\ fullOnly \in IF kind \in LineEvents THEN BOOLEAN ELSE {FALSE}
      /\ paused = FALSE /\ isDone = FALSE /\ pending = AllPatterns
      /\ gathered = <<>> /\ occurred = <<>>
  BY DEF Init, AllPatterns
<1>2. DOMAIN <<>> = {}
  OBVIOUS
<1> QED
  BY <1>1, <1>2 DEF SteadyInv, LineEvents

\* An event of one line takes the line and reports it, with all the patterns pending again.
LEMMA SteadyLine == ASSUME EventInv, SteadyInv, ProcessLine PROVE SteadyInv'
<1> DEFINE line == Head(todo)
           i == IF line.full \/ ~fullOnly THEN Matching(line) ELSE 0
           takes == i # 0
           occurs == takes /\ (kind \in {"any", "prompts"} \/ Len(pending) = 1)
           item == [text |-> line.text, no |-> line.no]
           taken == Append(gathered, item)
<1>1. /\ kind \in Events /\ todo # <<>>
      /\ occurred' = IF occurs THEN Append(occurred, taken) ELSE occurred
      /\ gathered' = CASE occurs -> <<>> [] takes /\ ~occurs -> taken [] OTHER -> gathered
      /\ pending' = NextPending(i, occurs)
      /\ todo' = RemainingLines(occurs)
      /\ UNCHANGED <<kind, fullOnly, chunk, paused, everPaused>>
  BY DEF ProcessLine
<1>2. occurs => takes
  OBVIOUS
<1>3. kind \in Single /\ takes => occurs
  BY DEF Single
<1> HIDE DEF line, i, takes, occurs, item
<1>4. chunk = <<>>
  BY <1>1 DEF EventInv, PausedInv, OneChunk
<1>5. isDone' => todo' = <<>>
  BY <1>1 DEF RemainingLines
<1>6. kind = "any" => pending' = AllPatterns
  <2>1. kind = "any" => kind \in Single /\ pending = AllPatterns
    BY DEF SteadyInv, Single
  <2>2. takes <=> i # 0
    BY DEF takes
  <2> QED
    BY <1>1, <1>2, <1>3, <2>1, <2>2 DEF NextPending, AllPatterns
<1>7. ASSUME kind \in Single
      PROVE  gathered' = <<>> /\ \A k \in DOMAIN occurred' : DOMAIN occurred'[k] = {1}
  <2>1. gathered = <<>> /\ \A k \in DOMAIN occurred : DOMAIN occurred[k] = {1}
    BY <1>7 DEF SteadyInv
  <2>2. gathered' = <<>>
    BY <1>1, <1>3, <1>7, <2>1
  <2>3. CASE ~occurs
    BY <1>1, <2>1, <2>2, <2>3
  <2>4. CASE occurs
    <3>1. taken = <<item>> /\ DOMAIN taken = {1}
      BY <2>1
    <3>2. IsSeq(occurred)
      BY DEF EventInv, CycleInv
    <3> HIDE DEF taken
    <3>3. /\ \A k \in 1..Len(occurred) : occurred'[k] = occurred[k]
          /\ occurred'[Len(occurred) + 1] = taken
          /\ DOMAIN occurred = 1..Len(occurred) /\ DOMAIN occurred' = 1..(Len(occurred) + 1)
          /\ Len(occurred) \in Nat
      BY <1>1, <2>4, <3>2, AppendIsSeq
    <3>4. \A k \in 1..(Len(occurred) + 1) : k \in 1..Len(occurred) \/ k = Len(occurred) + 1
      BY <3>3
    <3> QED
      BY <2>1, <2>2, <3>1, <3>3, <3>4
  <2> QED
    BY <2>3, <2>4
<1> QED
  BY <1>1, <1>4, <1>5, <1>6, <1>7 DEF SteadyInv, Idle

LEMMA SteadyNext == ASSUME EventInv, SteadyInv, [Next]_vars PROVE SteadyInv'
<1>1. CASE ProcessLine
  BY <1>1, SteadyLine
<1>2. CASE CutPieces \/ ProcessPiece
  <2>1. kind \in Commands /\ UNCHANGED <<kind, fullOnly, paused, everPaused>>
    BY <1>2 DEF CutPieces, ProcessPiece
  <2>2. kind \notin Events /\ kind \notin Single
    BY <2>1 DEF Events, LineEvents, Commands, Single
  <2> QED
    BY <2>1, <2>2 DEF SteadyInv, Events, LineEvents, Single
<1>3. CASE Receive \/ CutLines \/ PauseCutsLines
  <2>1. /\ UNCHANGED <<kind, fullOnly, isDone, pending, gathered, occurred>>
        /\ kind \in Events => ~isDone
        /\ paused' => everPaused'
    BY <1>3 DEF Receive, CutLines, PauseCutsLines, Pausing, SteadyInv, Idle
  <2> QED
    BY <2>1 DEF SteadyInv
<1>4. CASE Pause \/ Resume \/ UNCHANGED vars
  <2>1. /\ UNCHANGED <<kind, fullOnly, isDone, pending, gathered, occurred, chunk, todo>>
        /\ paused' => everPaused'
    BY <1>4 DEF Pause, Pausing, Resume, vars, SteadyInv
  <2> QED
    BY <2>1 DEF SteadyInv, Idle
<1> QED
  BY <1>1, <1>2, <1>3, <1>4 DEF Next


LEMMA WantedIs ==
    ASSUME NEW p \in Wanted
    PROVE  p \in Seq(Tokens) /\ (NoEmpty => p # <<>>)
<1>1. CASE kind = "any"
  <2>1. PICK i \in DOMAIN Patterns : p = Patterns[i]
    BY <1>1 DEF Wanted, ToSet
  <2> QED
    BY <2>1, PatternsAssumption DEF NoEmpty
<1>2. CASE kind # "any"
  BY <1>2, PromptsAssumption DEF Wanted, NoEmpty
<1> QED
  BY <1>1, <1>2

\* There is nothing yet in a line that has not begun.
LEMMA NothingYet ==
    ASSUME NoEmpty, sent \in Texts, Begins(sent, Len(sent))
    PROVE  ~Matches(Up(sent, Len(sent)) + 1)
<1> DEFINE e == Len(sent)
<1>1. e \in Nat /\ e + 0 = e /\ <<>> \in Seq(Tokens) /\ Len(<<>>) = 0
  BY DEF Texts
<1>2. Lies(sent, <<>>, e) /\ Ends(sent, e + Len(<<>>))
  BY <1>1 DEF Lies, Ends
<1>3. LineOf(sent, Up(sent, e) + 1) = <<>>
  BY <1>1, <1>2, WholeLine
<1>4. \A p \in Wanted : ~Has(<<>>, p)
  BY WantedIs, NothingInEmpty
<1> QED
  BY <1>3, <1>4 DEF Matches

LEMMA WholeInit == ASSUME Init, NoEmpty PROVE WholeInv
<1>1. /\ sent = <<>> /\ chunk = <<>> /\ todo = <<>> /\ occurred = <<>> /\ cache = None
      /\ DOMAIN <<>> = {} /\ Len(<<>>) = 0 /\ <<>> \in Seq(Tokens) /\ <<>> \in Texts
  BY DEF Init, Texts
<1>2. Read = 0 /\ Up(sent, 0) = 0 /\ Begins(sent, Len(sent)) /\ Top = 1
  BY <1>1, UpSteps DEF Read, Top, Begins
<1>3. KeptInv
  <2>1. Lies(sent, <<>>, 0) /\ 0 + Len(<<>>) = Read /\ cache = Keeps(<<>>) /\ Begins(sent, 0)
    BY <1>1, <1>2 DEF Lies, Keeps, Begins
  <2> QED
    BY <1>1, <2>1 DEF KeptInv
<1>4. ASSUME NEW n \in Nat \ {0}, WasRead(n), Matches(n) PROVE FALSE
  <2>1. n = 1
    BY <1>2, <1>4 DEF WasRead
  <2> QED
    BY <1>1, <1>2, <1>4, <2>1, NothingYet
<1>5. PromptsInv
  BY <1>1 DEF PromptsInv, Descend
<1> QED
  BY <1>1, <1>3, <1>4, <1>5 DEF WholeInv

\* What comes completes no line that was read.
LEMMA WholeReceives ==
    ASSUME EventInv, SteadyInv, Quiet, WholeInv, Receive
    PROVE  WholeInv'
<1>1. ~paused
  BY DEF Quiet, SteadyInv
<1>2. PICK text \in Texts : text # <<>> /\ sent' = sent \o text /\ chunk' = text
  BY <1>1, ChunksAreTexts DEF Receive
<1>3. chunk = <<>> /\ todo = <<>> /\ UNCHANGED <<kind, fullOnly, todo, cache, occurred>>
  BY DEF Receive, Idle
<1>4. /\ sent \in Texts /\ sent' \in Texts /\ Len(sent) \in Nat /\ Len(text) \in Nat
      /\ Len(sent') = Len(sent) + Len(text) /\ Len(sent) \in 0..Len(sent)
  BY <1>2, ConcatProperties DEF EventInv, SourceInv, Texts
<1>5. Read = Len(sent) /\ Read' = Len(sent)
  BY <1>2, <1>3, <1>4 DEF Read
<1>6. Up(sent', Len(sent)) = Up(sent, Len(sent)) /\ Up(sent, Len(sent)) \in Nat
  BY <1>2, <1>4, UpGrows, UpSteps
<1>7. Top' = Top /\ Up(sent', Read') = Up(sent, Read)
  BY <1>5, <1>6 DEF Top
<1>8. \A n : Covered(n)' <=> Covered(n)
  BY <1>3 DEF Covered
<1>9. KeptInv'
  <2>1. CASE Covered(Top)
    BY <1>7, <1>8, <2>1 DEF KeptInv
  <2>2. CASE ~Covered(Top)
    <3>1. PICK w \in Seq(Tokens), a \in Nat :
              Begins(sent, a) /\ Lies(sent, w, a) /\ a + Len(w) = Read /\ cache = Keeps(w)
      BY <2>2 DEF WholeInv, KeptInv
    <3>2. Begins(sent', a) /\ Lies(sent', w, a)
      BY <1>2, <1>4, <3>1, LiesGrows
    <3> QED
      BY <1>3, <1>5, <3>1, <3>2 DEF KeptInv
  <2> QED
    BY <2>1, <2>2
<1>10. ASSUME NEW n \in Nat \ {0}, WasRead(n)', Matches(n)' PROVE Covered(n)'
  <2>1. n <= Up(sent, Len(sent))
    BY <1>2, <1>5, <1>7, <1>10 DEF WasRead
  <2>2. LineOf(sent', n) = LineOf(sent, n)
    BY <1>2, <1>4, <2>1, LineStays
  <2>3. Wanted' = Wanted
    BY <1>3 DEF Wanted
  <2>4. Matches(n) /\ WasRead(n)
    BY <1>5, <1>10, <2>1, <2>2, <2>3 DEF Matches, WasRead
  <2>5. ~ToDo(n)
    BY <1>3 DEF ToDo
  <2> QED
    BY <1>8, <2>4, <2>5 DEF WholeInv
<1>11. ASSUME kind = "prompts" PROVE PromptsInv'
  <2>1. ASSUME NEW k \in DOMAIN occurred
        PROVE  \E p \in Prompts : Fragment(sent', p, occurred'[k][1].no)
    <3>1. PICK p \in Prompts : Fragment(sent, p, occurred[k][1].no)
      BY <1>11 DEF WholeInv, PromptsInv
    <3> QED
      BY <1>2, <1>3, <1>4, <3>1, FragmentGrows
  <2> QED
    BY <1>3, <2>1 DEF PromptsInv, Descend
<1>12. \A i \in DOMAIN todo' : FALSE
  BY <1>3
<1>13. cache' # None => cache' \in Seq(Tokens)
  BY <1>3 DEF WholeInv
<1> QED
  BY <1>3, <1>9, <1>10, <1>11, <1>12, <1>13 DEF WholeInv


\* The first line of the chunk goes on from what was kept of it, and from its beginning if it has
\* not been reported.
LEMMA GoesOn ==
    ASSUME EventInv, kind \in Events, WholeInv, NEW piece \in Seq(Marks)
    PROVE  \E w \in Seq(Tokens), place \in Nat :
              /\ Lies(sent, w, place) /\ place + Len(w) = Read
              /\ Completed(cache, piece) = w \o piece
              /\ Covered(Top) \/ Begins(sent, place)
<1>1. PartsInv /\ SourceInv
  BY DEF EventInv
<1>2. <<>> \in Seq(Tokens) /\ Len(<<>>) = 0 /\ <<>> \o piece = piece
  BY ConcatEmptySeq
<1>3. Read \in Nat /\ Read + 0 = Read /\ Read + 0 <= Len(sent)
  BY <1>1 DEF SourceInv, Behind, Texts
<1>4. CASE ~Covered(Top)
  <2>1. PICK w \in Seq(Tokens), a \in Nat :
            Begins(sent, a) /\ Lies(sent, w, a) /\ a + Len(w) = Read /\ cache = Keeps(w)
    BY <1>4 DEF WholeInv, KeptInv
  <2>2. Completed(cache, piece) = w \o piece
    BY <1>2, <2>1, NoneAssumption DEF Keeps, Completed
  <2> QED
    BY <2>1, <2>2
<1>5. CASE Covered(Top) /\ cache = None
  <2>1. Lies(sent, <<>>, Read)
    BY <1>2, <1>3 DEF Lies
  <2> QED
    BY <1>2, <1>3, <1>5, <2>1 DEF Completed
<1>6. CASE Covered(Top) /\ cache # None
  <2>1. PICK w \in Seq(Tokens), a \in Nat :
            Said(cache, w) /\ Lies(sent, w, a) /\ a + Len(w) = Read
    BY <1>1, <1>6 DEF PartsInv
  <2>2. cache = w
    BY <1>6, <2>1, SaidPlainly DEF WholeInv
  <2> QED
    BY <1>6, <2>1, <2>2 DEF Completed
<1> QED
  BY <1>4, <1>5, <1>6

\* A chunk is cut into whole lines, numbered one after the other, up to the last that has begun.
LEMMA WholeCuts ==
    ASSUME EventInv, SteadyInv, Quiet, WholeInv, NoEmpty, CutLines
    PROVE  WholeInv'
<1> DEFINE pieces == SplitLines(chunk)
           count == Len(pieces)
           piece == pieces[1]
           first == Completed(cache, piece)
           before == Newlines(sent) - Newlines(chunk)
           line(k) == IF k = 1 THEN first ELSE pieces[k]
           item(k) == [text |-> Stripped(line(k)), full |-> IsFull(line(k)), no |-> before + k]
           lines == [k \in DOMAIN pieces |-> item(k)]
           all == Up(sent, Len(sent))
<1>1. /\ kind \in Events /\ chunk # <<>>
      /\ todo' = InOrder(lines) /\ cache' = KeptOf(line(count)) /\ chunk' = <<>>
      /\ UNCHANGED <<kind, fullOnly, sent, occurred>>
  BY DEF CutLines, Cut
<1>2. /\ SourceInv /\ sent \in Texts /\ chunk \in Texts /\ Behind(sent, chunk, Read)
      /\ Len(sent) \in Nat /\ Len(sent) \in 0..Len(sent) /\ todo = <<>>
  BY <1>1 DEF EventInv, SourceInv, Texts, PausedInv, OneChunk
<1>3. count \in Nat /\ 1 \in 1..count /\ count \in 1..count /\ DOMAIN pieces = 1..count
  BY <1>1, <1>2, Pieces
<1>4. before = Up(sent, Read) /\ before \in Nat
  BY <1>2, UpBefore
<1>5. piece \in Seq(Marks)
  <2>1. 1 \in DOMAIN SplitLines(chunk)
    BY <1>3
  <2>2. PICK a : Stretch(sent, SplitLines(chunk)[1], a)
    BY <1>1, <1>2, <2>1, PieceIsStretch
  <2> QED
    BY <2>2, TextsAreMarks DEF Stretch
<1>6. PICK w \in Seq(Tokens), place \in Nat :
          /\ Lies(sent, w, place) /\ place + Len(w) = Read
          /\ first = w \o piece
          /\ Covered(Top) \/ Begins(sent, place)
  <2> HIDE DEF piece
  <2> QED
    BY <1>1, <1>5, GoesOn
<1>7. ASSUME NEW k \in 1..count
      PROVE  \E a : /\ Stretch(sent, line(k), a) /\ before + k = Up(sent, a) + 1
                    /\ EndsText(sent, line(k), a) \/ (k # count /\ EndsLine(line(k)))
                    /\ k # 1 \/ Begins(sent, place) => Begins(sent, a)
  <2>1. k \in DOMAIN SplitLines(chunk) /\ Said(first, w \o SplitLines(chunk)[1])
    BY <1>3, <1>6 DEF Said
  <2>2. line(k) = IF k = 1 THEN first ELSE SplitLines(chunk)[k]
    OBVIOUS
  <2>3. first = w \o SplitLines(chunk)[1]
    BY <1>6
  <2> HIDE DEF line, first
  <2>4. \E q, a : /\ Stretch(sent, q, a)
                  /\ LineBegins(sent, chunk, k, a)
                  /\ k = Len(SplitLines(chunk)) => EndsText(sent, q, a)
                  /\ k # Len(SplitLines(chunk)) => EndsLine(q)
                  /\ k # 1 \/ Begins(sent, place) => Begins(sent, a)
                  /\ q = IF k = 1 THEN first ELSE SplitLines(chunk)[k]
    <3> HIDE DEF pieces, count, before, item, lines, all, piece
    <3>1. \E q, a : /\ Stretch(sent, q, a)
                    /\ Said(IF k = 1 THEN first ELSE SplitLines(chunk)[k], q)
                    /\ LineBegins(sent, chunk, k, a)
                    /\ k = Len(SplitLines(chunk)) => EndsText(sent, q, a)
                    /\ k # Len(SplitLines(chunk)) => EndsLine(q)
                    /\ k # 1 \/ Begins(sent, place) => Begins(sent, a)
                    /\ k # 1 \/ first = w \o SplitLines(chunk)[1] =>
                          q = IF k = 1 THEN first ELSE SplitLines(chunk)[k]
      <4>1. /\ sent \in Texts /\ chunk \in Texts /\ chunk # <<>> /\ Behind(sent, chunk, Read)
            /\ Lies(sent, w, place) /\ place + Len(w) = Read
        BY <1>1, <1>2, <1>6
      <4> QED
        BY <2>1, <4>1, LinesAreStretches
    <3> QED
      BY <2>3, <3>1
  <2> QED
    BY <2>2, <2>4 DEF LineBegins
<1>8. Read' = Len(sent) /\ Top' = all + 1 /\ Top = before + 1 /\ Up(sent', Read') = all
      /\ all \in Nat /\ \A n : (Covered(n)' <=> Covered(n)) /\ (Matches(n)' <=> Matches(n))
  <2>1. Read' = Len(sent)
    BY <1>1, <1>2 DEF Read
  <2>2. all \in Nat
    BY <1>2, UpSteps
  <2> QED
    BY <1>1, <1>4, <2>1, <2>2 DEF Top, Covered, Matches, Wanted
<1>9. ASSUME NEW k \in 1..count
      PROVE  /\ Stripped(line(k)) \in Seq(Tokens)
             /\ Covered(before + k) \/ Stripped(line(k)) = LineOf(sent, before + k)
             /\ before + k <= all => IsFull(line(k))
             /\ k = count =>
                   /\ cache' # None => cache' \in Seq(Tokens)
                   /\ IsFull(line(k)) =>
                         cache' = None /\ Begins(sent, Len(sent)) /\ all = before + k
                   /\ ~IsFull(line(k)) =>
                         /\ all + 1 = before + k
                         /\ Covered(all + 1) \/
                            \E u \in Seq(Tokens), a \in Nat :
                               /\ Begins(sent, a) /\ Lies(sent, u, a) /\ a + Len(u) = Len(sent)
                               /\ cache' = Keeps(u)
  <2>1. PICK a : /\ Stretch(sent, line(k), a) /\ before + k = Up(sent, a) + 1
                 /\ EndsText(sent, line(k), a) \/ (k # count /\ EndsLine(line(k)))
                 /\ k # 1 \/ Begins(sent, place) => Begins(sent, a)
    BY <1>7
  <2>2. k = count => cache' = KeptOf(line(k)) /\ EndsText(sent, line(k), a)
    BY <1>1, <2>1
  <2>3. Covered(before + k) \/ Begins(sent, a)
    <3>1. k = 1 => Top = before + k
      BY <1>8
    <3> QED
      BY <1>6, <2>1, <3>1
  <2>4. a \in Nat /\ Up(sent, a) \in Nat /\ k \in Nat
    <3>1. a \in 0..Len(sent)
      BY <1>2, <2>1 DEF Stretch, Lies, Texts
    <3> QED
      BY <1>2, <1>3, <3>1, UpSteps
  <2> HIDE DEF lines, line, item, pieces, count, before, first, piece
  <2> DEFINE q == line(k)
  <2>5. /\ Stripped(q) \in Seq(Tokens)
        /\ Begins(sent, a) => Stripped(q) = LineOf(sent, Up(sent, a) + 1)
        /\ Up(sent, a) + 1 <= all => IsFull(q)
        /\ IsFull(q) => /\ KeptOf(q) = None /\ Begins(sent, a + Len(q))
                        /\ Up(sent, a + Len(q)) = Up(sent, a) + 1
        /\ ~IsFull(q) => /\ KeptOf(q) = q /\ q \in Seq(Tokens) /\ q # <<>>
                         /\ EndsText(sent, q, a) /\ all = Up(sent, a)
    <3> HIDE DEF q
    <3>1. Stretch(sent, q, a) /\ (EndsText(sent, q, a) \/ EndsLine(q))
      BY <2>1 DEF q
    <3> QED
      BY <1>2, <3>1, StretchEnds
  <2> HIDE DEF q, all
  <2>6. Covered(before + k) \/ Stripped(q) = LineOf(sent, before + k)
    BY <2>1, <2>3, <2>5
  <2>7. before + k <= all => IsFull(q)
    BY <2>1, <2>5
  <2>8. ASSUME k = count
        PROVE  /\ cache' # None => cache' \in Seq(Tokens)
               /\ IsFull(q) => cache' = None /\ Begins(sent, Len(sent)) /\ all = before + k
               /\ ~IsFull(q) =>
                     /\ all + 1 = before + k
                     /\ Covered(all + 1) \/
                        \E u \in Seq(Tokens), b \in Nat :
                           /\ Begins(sent, b) /\ Lies(sent, u, b) /\ b + Len(u) = Len(sent)
                           /\ cache' = Keeps(u)
    <3>1. cache' = KeptOf(q) /\ a + Len(q) = Len(sent)
      BY <2>2, <2>8 DEF q, EndsText
    <3>2. CASE IsFull(q)
      <4>1. all = before + k
        BY <2>1, <2>5, <3>1, <3>2 DEF all
      <4> QED
        BY <2>5, <3>1, <3>2, <4>1
    <3>3. CASE ~IsFull(q)
      <4>1. all + 1 = before + k /\ cache' = q /\ q \in Seq(Tokens) /\ cache' = Keeps(q)
        BY <2>1, <2>5, <3>1, <3>3 DEF Keeps
      <4>2. Lies(sent, q, a)
        BY <2>1 DEF Stretch, q
      <4>3. Covered(all + 1) \/ Begins(sent, a)
        BY <2>3, <4>1
      <4> QED
        BY <2>4, <3>1, <3>3, <4>1, <4>2, <4>3
    <3> QED
      BY <3>2, <3>3
  <2> QED
    BY <2>5, <2>6, <2>7, <2>8 DEF q
<1>10. /\ DOMAIN todo' = 1..count
       /\ \A i \in 1..count : \E k \in 1..count : todo'[i] = lines[k]
       /\ kind # "prompts" => todo' = lines
       /\ kind = "prompts" => \A i \in 1..count : todo'[i] = lines[(count - i) + 1]
       /\ \A k \in 1..count : lines[k] = item(k)
  <2>1. lines = [k \in 1..count |-> lines[k]] /\ \A k \in 1..count : lines[k] = item(k)
    BY <1>3
  <2> HIDE DEF lines, count, item
  <2> QED
    BY <1>1, <1>3, <2>1, InOrderIs
<1> HIDE DEF lines, line, pieces, count, before, first, piece, all
<1>11. \A k \in 1..count : /\ lines[k].text = Stripped(line(k)) /\ lines[k].full = IsFull(line(k))
                           /\ lines[k].no = before + k
  <2>1. ASSUME NEW k \in 1..count
        PROVE  /\ lines[k].text = Stripped(line(k)) /\ lines[k].full = IsFull(line(k))
               /\ lines[k].no = before + k
    <3>1. lines[k] = item(k)
      BY <1>10
    <3> QED
      BY <3>1
  <2> QED
    BY <2>1
<1> HIDE DEF item
<1>12. ASSUME NEW i \in DOMAIN todo' PROVE IsLine(todo[i])'
  <2>1. PICK k \in 1..count : todo'[i] = lines[k]
    BY <1>10
  <2>2. /\ todo'[i].text = Stripped(line(k)) /\ todo'[i].full = IsFull(line(k))
        /\ todo'[i].no = before + k
    BY <1>11, <2>1
  <2> QED
    BY <1>1, <1>8, <1>9, <2>2 DEF IsLine
<1>13. cache' # None => cache' \in Seq(Tokens)
  BY <1>3, <1>9
<1>14. KeptInv'
  <2>1. CASE IsFull(line(count))
    <3>1. Begins(sent, Len(sent)) /\ cache' = None
      BY <1>3, <1>9, <2>1
    <3>2. <<>> \in Seq(Tokens) /\ Len(<<>>) = 0 /\ Len(sent) + 0 = Len(sent)
      BY <1>2
    <3>3. Lies(sent, <<>>, Len(sent)) /\ cache' = Keeps(<<>>)
      BY <1>2, <3>1, <3>2 DEF Lies, Keeps
    <3> QED
      BY <1>1, <1>2, <1>8, <3>1, <3>2, <3>3 DEF KeptInv
  <2>2. CASE ~IsFull(line(count))
    <3>1. Covered(all + 1) \/
          \E u \in Seq(Tokens), a \in Nat :
             /\ Begins(sent, a) /\ Lies(sent, u, a) /\ a + Len(u) = Len(sent)
             /\ cache' = Keeps(u)
      BY <1>3, <1>9, <2>2
    <3> QED
      BY <1>1, <1>8, <3>1 DEF KeptInv
  <2> QED
    BY <2>1, <2>2
<1>15. ASSUME NEW n \in Nat \ {0}, WasRead(n)', Matches(n)' PROVE Covered(n)' \/ ToDo(n)'
  <2>1. Matches(n) /\ (n <= all \/ n = all + 1)
    BY <1>1, <1>8, <1>15 DEF WasRead
  <2>2. CASE n <= before
    <3>1. WasRead(n)
      BY <1>4, <2>2 DEF WasRead
    <3>2. ~ToDo(n)
      BY <1>2 DEF ToDo
    <3> QED
      BY <1>8, <2>1, <3>1, <3>2 DEF WholeInv
  <2>3. CASE ~(n <= before) /\ n <= before + count
    <3>1. n - before \in 1..count /\ before + (n - before) = n
      BY <1>3, <1>4, <2>3
    <3>2. lines[n - before].no = n
      BY <1>11, <3>1
    <3>3. PICK i \in 1..count : todo'[i] = lines[n - before]
      <4>1. CASE kind # "prompts"
        BY <1>10, <3>1, <4>1
      <4>2. CASE kind = "prompts"
        <5>1. DEFINE k == n - before
        <5>2. k \in 1..count
          BY <3>1
        <5> HIDE DEF k
        <5>3. (count - k) + 1 \in 1..count /\ (count - ((count - k) + 1)) + 1 = k
          BY <1>3, <5>2
        <5>4. todo'[(count - k) + 1] = lines[k]
          BY <1>10, <4>2, <5>3
        <5> QED
          BY <5>3, <5>4 DEF k
      <4> QED
        BY <4>1, <4>2
    <3> QED
      BY <1>10, <3>2, <3>3 DEF ToDo
  <2>4. CASE n > before + count
    <3>1. IsFull(line(count)) /\ Begins(sent, Len(sent)) /\ n = all + 1
      <4>1. ~IsFull(line(count)) => all + 1 = before + count
        BY <1>3, <1>9
      <4>2. IsFull(line(count)) => Begins(sent, Len(sent)) /\ all = before + count
        BY <1>3, <1>9
      <4> QED
        BY <1>3, <1>4, <1>8, <2>1, <2>4, <4>1, <4>2
    <3> QED
      BY <1>2, <2>1, <3>1, NothingYet DEF all
  <2> QED
    BY <1>3, <1>4, <2>2, <2>3, <2>4
<1>16. ASSUME kind = "prompts" PROVE PromptsInv'
  <2>1. Descend(todo)'
    <3>1. SUFFICES ASSUME NEW i \in 1..count, NEW j \in 1..count, i < j
                   PROVE  todo'[j].no <= todo'[i].no
      BY <1>10 DEF Descend
    <3>2. /\ (count - i) + 1 \in 1..count /\ (count - j) + 1 \in 1..count
          /\ before + ((count - j) + 1) <= before + ((count - i) + 1)
      BY <1>3, <1>4, <3>1
    <3>3. todo'[i] = lines[(count - i) + 1] /\ todo'[j] = lines[(count - j) + 1]
      BY <1>10, <1>16
    <3>4. /\ lines[(count - i) + 1].no = before + ((count - i) + 1)
          /\ lines[(count - j) + 1].no = before + ((count - j) + 1)
      BY <1>11, <3>2
    <3> QED
      BY <3>2, <3>3, <3>4
  <2> QED
    BY <1>1, <1>16, <2>1 DEF WholeInv, PromptsInv
<1> QED
  BY <1>1, <1>12, <1>13, <1>14, <1>15, <1>16 DEF WholeInv


\* A line is taken when, and only when, there is in it what is looked for.
LEMMA MatchingFinds ==
    ASSUME kind \in Single, SteadyInv, NEW line
    PROVE  Matching(line) # 0 <=> \E p \in Wanted : Has(line.text, p)
<1> DEFINE found == {j \in DOMAIN pending : Has(line.text, Patterns[pending[j]])}
<1>1. CASE kind = "prompts"
  BY <1>1 DEF Matching, Wanted
<1>2. CASE kind = "any"
  <2>1. DOMAIN pending = 1..Count /\ DOMAIN Patterns = 1..Count /\ Count \in Nat
        /\ \A j \in 1..Count : pending[j] = j
    BY <1>2, CountIsNat DEF SteadyInv, AllPatterns
  <2>2. found \in SUBSET (1..Count)
    BY <2>1
  <2>3. found # {} <=> \E p \in Wanted : Has(line.text, p)
    <3>1. Wanted = {Patterns[j] : j \in 1..Count}
      BY <1>2, <2>1 DEF Wanted, ToSet
    <3> QED
      BY <2>1, <3>1
  <2>4. Matching(line) = IF found = {} THEN 0
                         ELSE CHOOSE j \in found : \A k \in found : j <= k
    BY <1>2 DEF Matching
  <2> HIDE DEF found
  <2>5. found # {} => \E j \in found : \A k \in found : j <= k
    <3>1. found \in SUBSET Nat
      BY <2>1, <2>2
    <3> QED
      BY <3>1, Smallest
  <2>6. found # {} => Matching(line) \in 1..Count
    BY <2>2, <2>4, <2>5
  <2>7. \A x \in 1..Count : x # 0
    BY <2>1
  <2> QED
    BY <2>3, <2>4, <2>6, <2>7
<1> QED
  BY <1>1, <1>2 DEF Single

\* The occurrence of a line covers it, and what was covered stays so.
LEMMA CoveredGrows ==
    ASSUME CycleInv, kind' = kind, NEW item,
           occurred' = occurred \/ occurred' = Append(occurred, <<item>>)
    PROVE  /\ \A n : Covered(n) => Covered(n)'
           /\ occurred' = Append(occurred, <<item>>) =>
                 /\ item.no \in Nat => Covered(item.no)'
                 /\ kind = "prompts" => \A n : n <= item.no => Covered(n)'
                 /\ \A k \in DOMAIN occurred' :
                       (k \in DOMAIN occurred /\ occurred'[k] = occurred[k])
                       \/ occurred'[k] = <<item>>
<1>1. CASE occurred' = occurred /\ occurred' # Append(occurred, <<item>>)
  BY <1>1 DEF Covered
<1>2. CASE occurred' = Append(occurred, <<item>>)
  <2>1. IsSeq(occurred)
    BY DEF CycleInv
  <2>2. /\ \A k \in 1..Len(occurred) : occurred'[k] = occurred[k]
        /\ occurred'[Len(occurred) + 1] = <<item>> /\ Len(occurred) \in Nat
        /\ DOMAIN occurred = 1..Len(occurred) /\ DOMAIN occurred' = 1..(Len(occurred) + 1)
    BY <1>2, <2>1, AppendIsSeq
  <2>3. /\ \A k \in DOMAIN occurred : k \in DOMAIN occurred' /\ occurred'[k] = occurred[k]
        /\ \E k \in DOMAIN occurred' : occurred'[k] = <<item>>
        /\ \A k \in DOMAIN occurred' : (k \in DOMAIN occurred /\ occurred'[k] = occurred[k])
                                       \/ occurred'[k] = <<item>>
    <3>1. /\ \A k \in 1..(Len(occurred) + 1) : k \in 1..Len(occurred) \/ k = Len(occurred) + 1
          /\ \A k \in 1..Len(occurred) : k \in 1..(Len(occurred) + 1)
          /\ Len(occurred) + 1 \in 1..(Len(occurred) + 1)
      BY <2>2
    <3> QED
      BY <2>2, <3>1
  <2>4. <<item>>[1] = item
    OBVIOUS
  <2>5. \A n : Covered(n) => Covered(n)'
    BY <2>3 DEF Covered
  <2>6. kind = "prompts" => \A n : n <= item.no => Covered(n)'
    BY <2>3, <2>4 DEF Covered
  <2>7. item.no \in Nat => Covered(item.no)'
    <3>1. item.no \in Nat => item.no <= item.no
      OBVIOUS
    <3> QED
      BY <2>3, <2>4, <3>1 DEF Covered
  <2> QED
    BY <2>3, <2>5, <2>6, <2>7
<1> QED
  BY <1>1, <1>2

\* A line with a match is reported when it is looked at, with those before it that are not.
LEMMA WholeProcesses ==
    ASSUME EventInv, SteadyInv, Quiet, WholeInv, ProcessLine, Quiet'
    PROVE  WholeInv'
<1> DEFINE line == Head(todo)
           i == IF line.full \/ ~fullOnly THEN Matching(line) ELSE 0
           takes == i # 0
           occurs == takes /\ (kind \in {"any", "prompts"} \/ Len(pending) = 1)
           taken == Append(gathered, [text |-> line.text, no |-> line.no])
<1>1. /\ kind \in Events /\ todo # <<>>
      /\ occurred' = IF occurs THEN Append(occurred, taken) ELSE occurred
      /\ cache' = IF occurs \/ paused THEN None ELSE cache
      /\ todo' = RemainingLines(occurs)
      /\ dropped' = (dropped \/ (occurs /\ line.full /\ cache # None))
      /\ UNCHANGED <<kind, fullOnly, sent, chunk, paused>>
  BY DEF ProcessLine
<1>2. /\ kind \in Single /\ ~isDone' /\ ~dropped' /\ ~paused
  BY DEF Quiet, SteadyInv
<1>3. occurs <=> takes
  BY <1>2 DEF Single
<1>4. takes <=> (line.full \/ ~fullOnly) /\ \E p \in Wanted : Has(line.text, p)
  <2>1. Matching(line) # 0 <=> \E p \in Wanted : Has(line.text, p)
    BY <1>2, MatchingFinds
  <2> QED
    BY <2>1
<1>5. PICK item, no : /\ taken = <<item>> /\ item.no = line.no /\ no = line.no
  <2>1. taken = <<[text |-> line.text, no |-> line.no]>>
    BY <1>2 DEF SteadyInv
  <2>2. [text |-> line.text, no |-> line.no].no = line.no
    OBVIOUS
  <2> QED
    BY <2>1, <2>2
<1> HIDE DEF takes, i, taken, occurs, line
<1>6. CycleInv /\ SourceInv /\ PartsInv /\ NumbersInv /\ chunk = <<>> /\ sent \in Texts
  BY <1>1 DEF EventInv, PausedInv, OneChunk, SourceInv
<1>7. /\ 1 \in DOMAIN todo /\ line = todo[1]
      /\ \A k \in DOMAIN Tail(todo) : /\ k + 1 \in DOMAIN todo /\ 1 < k + 1
                                      /\ k \in Nat /\ Tail(todo)[k] = todo[k + 1]
  BY <1>1, <1>6, TailIs DEF PartsInv, line
<1>8. /\ IsLine(line) /\ IsPart(line) /\ line.no <= Top /\ line.no \in Nat
      /\ \A k \in DOMAIN todo : todo[k].no \in Nat
  BY <1>6, <1>7, PartNumbers DEF WholeInv, PartsInv, NumbersInv
<1>9. /\ Read' = Read /\ Top' = Top /\ Up(sent', Read') = Up(sent, Read)
      /\ Top \in Nat /\ Up(sent, Read) \in Nat /\ Top = Up(sent, Read) + 1
      /\ \A n : (WasRead(n)' <=> WasRead(n)) /\ (Matches(n)' <=> Matches(n))
  <2>1. Read' = Read /\ Top' = Top
    BY <1>1 DEF Read, Top
  <2> QED
    BY <1>1, <1>6, <2>1, TopIsNat DEF Top, WasRead, Matches, Wanted
<1>10. /\ \A n : Covered(n) => Covered(n)'
       /\ occurs => /\ Covered(no)'
                    /\ kind = "prompts" => \A n : n <= no => Covered(n)'
                    /\ \A k \in DOMAIN occurred' :
                          (k \in DOMAIN occurred /\ occurred'[k] = occurred[k])
                          \/ occurred'[k] = <<item>>
  <2>1. occurred' = IF occurs THEN Append(occurred, <<item>>) ELSE occurred
    BY <1>1, <1>5
  <2>2. item.no = no /\ no \in Nat /\ kind' = kind
    BY <1>1, <1>5, <1>8
  <2>3. /\ \A n : Covered(n) => Covered(n)'
        /\ occurred' = Append(occurred, <<item>>) =>
              /\ item.no \in Nat => Covered(item.no)'
              /\ kind = "prompts" => \A n : n <= item.no => Covered(n)'
              /\ \A k \in DOMAIN occurred' :
                    (k \in DOMAIN occurred /\ occurred'[k] = occurred[k])
                    \/ occurred'[k] = <<item>>
    BY <1>6, <2>1, <2>2, CoveredGrows
  <2> QED
    BY <2>1, <2>2, <2>3
<1>11. todo' = IF occurs /\ kind = "prompts" THEN <<>> ELSE Tail(todo)
  BY <1>1, <1>2 DEF RemainingLines
<1>12. ~line.full => line.no = Top
  <2>1. ~line.full => ~(line.no <= Up(sent, Read))
    BY <1>8 DEF IsLine
  <2> QED
    BY <1>8, <1>9, <2>1
<1>13. \A k \in DOMAIN todo' : todo' = Tail(todo) /\ k \in DOMAIN Tail(todo)
  <2>1. DOMAIN <<>> = {}
    OBVIOUS
  <2> QED
    BY <1>11, <2>1
<1>14. \A k \in DOMAIN todo' : IsLine(todo[k])'
  <2>1. ASSUME NEW k \in DOMAIN todo' PROVE IsLine(todo[k])'
    <3>1. k + 1 \in DOMAIN todo /\ todo'[k] = todo[k + 1]
      BY <1>7, <1>13
    <3>2. IsLine(todo[k + 1])
      BY <3>1 DEF WholeInv
    <3> QED
      BY <1>1, <1>9, <1>10, <3>1, <3>2 DEF IsLine
  <2> QED
    BY <2>1
<1>15. cache' # None => cache' \in Seq(Tokens)
  BY <1>1 DEF WholeInv
<1>16. KeptInv'
  <2>1. CASE Covered(Top)'
    BY <1>9, <2>1 DEF KeptInv
  <2>2. CASE ~Covered(Top)'
    <3>1. ~Covered(Top)
      BY <1>9, <1>10, <2>2
    <3>2. cache' = cache
      <4>1. CASE ~occurs
        BY <1>1, <1>2, <4>1
      <4>2. CASE occurs
        <5>1. line.full
          BY <1>5, <1>9, <1>10, <1>12, <2>2, <4>2
        <5> QED
          BY <1>1, <1>2, <4>2, <5>1
      <4> QED
        BY <4>1, <4>2
    <3>3. PICK w \in Seq(Tokens), a \in Nat :
              Begins(sent, a) /\ Lies(sent, w, a) /\ a + Len(w) = Read /\ cache = Keeps(w)
      BY <3>1 DEF WholeInv, KeptInv
    <3> QED
      BY <1>1, <1>9, <3>2, <3>3 DEF KeptInv
  <2> QED
    BY <2>1, <2>2
<1>17. ASSUME NEW n \in Nat \ {0}, WasRead(n), Matches(n) PROVE Covered(n)' \/ ToDo(n)'
  <2>1. CASE Covered(n)
    BY <1>10, <2>1
  <2>2. CASE line.no = n /\ ~Covered(n)
    <3>1. line.text = LineOf(sent, n)
      BY <1>8, <2>2 DEF IsLine
    <3>2. line.full \/ ~fullOnly
      <4>1. ~line.full => n = Top /\ ~(n <= Up(sent, Read))
        BY <1>9, <1>12, <2>2
      <4> QED
        BY <1>17, <4>1 DEF WasRead
    <3>3. occurs
      BY <1>3, <1>4, <1>17, <3>1, <3>2 DEF Matches
    <3> QED
      BY <1>5, <1>10, <2>2, <3>3
  <2>3. CASE line.no # n /\ ~Covered(n)
    <3>1. PICK j \in DOMAIN todo : todo[j].no = n
      BY <1>17, <2>3 DEF WholeInv, ToDo
    <3>2. PICK S : todo \in Seq(S)
      BY <1>6 DEF PartsInv, IsSeq
    <3>3. j \in 1..Len(todo) /\ Len(todo) \in Nat /\ j # 1
      BY <1>7, <2>3, <3>1, <3>2
    <3>4. CASE occurs /\ kind = "prompts"
      <4>1. 1 < j
        BY <3>3
      <4>2. todo[j].no <= todo[1].no
        BY <1>7, <3>4, <4>1 DEF WholeInv, PromptsInv, Descend
      <4> QED
        BY <1>5, <1>7, <1>10, <3>1, <3>4, <4>2
    <3>5. CASE ~(occurs /\ kind = "prompts")
      <4>1. DOMAIN Tail(todo) = 1..(Len(todo) - 1)
        BY <1>1, <3>2
      <4>2. j - 1 \in 1..(Len(todo) - 1) /\ (j - 1) + 1 = j
        BY <3>3
      <4>3. j - 1 \in DOMAIN todo' /\ todo'[j - 1] = todo[j]
        BY <1>7, <1>11, <3>5, <4>1, <4>2
      <4> QED
        BY <3>1, <4>3 DEF ToDo
    <3> QED
      BY <3>4, <3>5
  <2> QED
    BY <2>1, <2>2, <2>3
<1>18. ASSUME kind = "prompts" PROVE PromptsInv'
  <2>1. Descend(todo) /\ \A k \in DOMAIN occurred :
                            \E p \in Prompts : Fragment(sent, p, occurred[k][1].no)
    BY <1>18 DEF WholeInv, PromptsInv
  <2>2. Descend(todo)'
    <3>1. SUFFICES ASSUME NEW k \in DOMAIN todo', NEW j \in DOMAIN todo', k < j
                   PROVE  todo'[j].no <= todo'[k].no
      BY DEF Descend
    <3>2. /\ k + 1 \in DOMAIN todo /\ j + 1 \in DOMAIN todo /\ k \in Nat /\ j \in Nat
          /\ todo'[k] = todo[k + 1] /\ todo'[j] = todo[j + 1]
      BY <1>7, <1>13
    <3>3. k + 1 < j + 1
      BY <3>1, <3>2
    <3> QED
      BY <2>1, <3>2, <3>3 DEF Descend
  <2>3. CASE ~occurs
    <3>1. occurred' = occurred
      BY <1>1, <2>3
    <3> QED
      BY <1>1, <2>1, <2>2, <3>1 DEF PromptsInv
  <2>4. CASE occurs
    <3>1. PICK p \in Prompts : Has(line.text, p)
      BY <1>3, <1>4, <1>18, <2>4 DEF Wanted
    <3>2. Fragment(sent, p, line.no)
      <4>1. p \in Seq(Tokens) /\ line.text \in Seq(Tokens) /\ Fragment(sent, line.text, line.no)
        BY <1>8, PromptsAssumption DEF IsLine, IsPart
      <4> QED
        BY <1>6, <3>1, <4>1, FoundInFragment
    <3>3. <<item>>[1].no = line.no
      BY <1>5
    <3>4. \A k \in DOMAIN occurred' : \E r \in Prompts : Fragment(sent, r, occurred'[k][1].no)
      BY <1>10, <2>1, <2>4, <3>2, <3>3
    <3> QED
      BY <1>1, <2>2, <3>4 DEF PromptsInv
  <2> QED
    BY <2>3, <2>4
<1>19. \A n \in Nat \ {0} : WasRead(n)' /\ Matches(n)' => Covered(n)' \/ ToDo(n)'
  BY <1>9, <1>17
<1> QED
  BY <1>1, <1>14, <1>15, <1>16, <1>18, <1>19 DEF WholeInv


LEMMA MatchInit == ASSUME Init, NoEmpty PROVE MatchInv
BY EventInit, SteadyInit, WholeInit DEF MatchInv

\* What is not the handling of a chunk or of a line changes none of it, or is a pause.
LEMMA MatchNext == ASSUME MatchInv, [Next]_vars, NoEmpty PROVE MatchInv'
<1>1. EventInv' /\ SteadyInv' /\ EventInv /\ SteadyInv
  BY EventNext, SteadyNext DEF MatchInv
<1>2. ASSUME Quiet' PROVE WholeInv'
  <2>1. CASE Receive
    <3>1. Quiet /\ WholeInv
      BY <1>2, <2>1 DEF Receive, Quiet, MatchInv
    <3> QED
      BY <1>1, <2>1, <3>1, WholeReceives
  <2>2. CASE CutLines
    <3>1. Quiet /\ WholeInv
      BY <1>2, <2>2 DEF CutLines, Quiet, MatchInv
    <3> QED
      BY <1>1, <2>2, <3>1, WholeCuts
  <2>3. CASE ProcessLine
    <3>1. kind' = kind /\ dropped' = (dropped \/ dropped') /\ everPaused' = everPaused
          /\ kind \in Events /\ todo # <<>>
      BY <2>3 DEF ProcessLine
    <3>2. ~isDone
      BY <1>1, <3>1 DEF SteadyInv, Idle
    <3>3. Quiet /\ WholeInv
      BY <1>2, <3>1, <3>2 DEF Quiet, MatchInv
    <3> QED
      BY <1>1, <1>2, <2>3, <3>3, WholeProcesses
  <2>4. CASE CutPieces \/ ProcessPiece
    <3>1. kind' = kind /\ kind \in Commands
      BY <2>4 DEF CutPieces, ProcessPiece
    <3> QED
      BY <1>2, <3>1 DEF Quiet, Single, Commands
  <2>5. CASE Pause \/ PauseCutsLines
    <3>1. everPaused' = TRUE
      BY <2>5 DEF Pause, PauseCutsLines, Pausing
    <3> QED
      BY <1>2, <3>1 DEF Quiet
  <2>6. CASE Resume
    <3>1. paused /\ everPaused' = everPaused
      BY <2>6 DEF Resume
    <3> QED
      BY <1>1, <1>2, <3>1 DEF Quiet, SteadyInv
  <2>7. CASE UNCHANGED vars
    <3>1. UNCHANGED <<kind, fullOnly, sent, chunk, cache, todo, isDone, occurred, dropped,
                      everPaused>>
      BY <2>7 DEF vars
    <3>2. Quiet /\ WholeInv
      BY <1>2, <3>1 DEF Quiet, MatchInv
    <3>3. /\ Top' = Top /\ Read' = Read /\ Wanted' = Wanted
          /\ \A n : /\ Covered(n)' <=> Covered(n)
                    /\ ToDo(n)' <=> ToDo(n)
      BY <3>1 DEF Top, Read, Covered, ToDo, Wanted
    <3>4. /\ \A n : /\ WasRead(n)' <=> WasRead(n)
                    /\ Matches(n)' <=> Matches(n)
          /\ \A k \in DOMAIN todo : IsLine(todo[k])' <=> IsLine(todo[k])
      BY <3>1, <3>3 DEF WasRead, Matches, IsLine
    <3>5. KeptInv' <=> KeptInv
      BY <3>1, <3>3 DEF KeptInv
    <3>6. PromptsInv' <=> PromptsInv
      BY <3>1 DEF PromptsInv
    <3> QED
      BY <3>1, <3>2, <3>3, <3>4, <3>5, <3>6 DEF WholeInv
  <2> QED
    BY <2>1, <2>2, <2>3, <2>4, <2>5, <2>6, <2>7 DEF Next
<1> QED
  BY <1>1, <1>2 DEF MatchInv

\* When everything has been looked at, what was read and has a match is covered.
LEMMA MatchOccurs == ASSUME MatchInv PROVE EveryMatchOccurs
<1>1. SUFFICES ASSUME Idle, ~isDone, ~dropped, ~everPaused
      PROVE  /\ kind = "any" =>
                   \A n \in MatchingLines(ToSet(Patterns), IF fullOnly THEN FullLinesOf(sent)
                                                           ELSE LinesOf(sent)) :
                      \E k \in DOMAIN occurred : occurred[k][1].no = n
             /\ LET prompts == MatchingLines(Prompts, LinesOf(sent))
                IN kind = "prompts" /\ prompts # {} =>
                     occurred # <<>> /\ Last(occurred)[1].no = Max(prompts)
  BY DEF EveryMatchOccurs
<1> DEFINE all == Up(sent, Len(sent))
<1>2. /\ EventInv /\ SteadyInv /\ SourceInv /\ sent \in Texts /\ chunk = <<>> /\ todo = <<>>
      /\ (kind \in Single => WholeInv) /\ Len(sent) \in Nat /\ chunk \in Texts
      /\ Behind(sent, chunk, Read)
  BY <1>1 DEF MatchInv, EventInv, SourceInv, Quiet, Idle, Texts
<1>3. Read = Len(sent) /\ Newlines(sent) = all /\ all \in Nat /\ Top = all + 1
  <2>1. Read = Len(sent)
    BY <1>2 DEF Read
  <2>2. Newlines(sent) = all
    BY <1>2, UpBefore
  <2> QED
    BY <1>2, <2>1, <2>2, TopIsNat DEF Top
<1>4. LinesOf(sent) = 1..(all + 1) /\ FullLinesOf(sent) = 1..all
  BY <1>3 DEF LinesOf, FullLinesOf
<1> HIDE DEF all
<1>5. ASSUME kind \in Single, NEW n \in Nat \ {0}, n <= all \/ (n = all + 1 /\ ~fullOnly),
             NEW p \in Wanted, Has(LineOf(sent, n), p)
      PROVE  Covered(n)
  <2>1. WasRead(n) /\ Matches(n)
    BY <1>2, <1>3, <1>5 DEF WasRead, Matches, all
  <2>2. ~ToDo(n)
    BY <1>2 DEF ToDo
  <2> QED
    BY <1>2, <1>5, <2>1, <2>2 DEF WholeInv
<1>6. ASSUME kind = "any",
             NEW n \in MatchingLines(ToSet(Patterns), IF fullOnly THEN FullLinesOf(sent)
                                                      ELSE LinesOf(sent))
      PROVE  \E k \in DOMAIN occurred : occurred[k][1].no = n
  <2>1. PICK p \in ToSet(Patterns) : Has(LineOf(sent, n), p)
    BY DEF MatchingLines
  <2>2. n \in IF fullOnly THEN 1..all ELSE 1..(all + 1)
    BY <1>4 DEF MatchingLines
  <2>3. n \in Nat \ {0} /\ (n <= all \/ (n = all + 1 /\ ~fullOnly))
    BY <1>3, <2>2
  <2>4. Covered(n)
    BY <1>5, <1>6, <2>1, <2>3 DEF Single, Wanted
  <2> QED
    BY <1>6, <2>4 DEF Covered
<1> DEFINE prompts == MatchingLines(Prompts, LinesOf(sent))
<1>7. ASSUME kind = "prompts", prompts # {}
      PROVE  occurred # <<>> /\ Last(occurred)[1].no = Max(prompts)
  <2>1. ASSUME NEW n \in prompts PROVE n \in Nat /\ Covered(n)
    <3>1. PICK p \in Prompts : Has(LineOf(sent, n), p)
      BY DEF MatchingLines
    <3>2. n \in 1..(all + 1)
      BY <1>4 DEF MatchingLines
    <3>3. n \in Nat \ {0} /\ (n <= all \/ n = all + 1) /\ ~fullOnly
      BY <1>2, <1>3, <1>7, <3>2 DEF SteadyInv
    <3>4. Covered(n)
      BY <1>5, <1>7, <3>1, <3>3 DEF Single, Wanted
    <3> QED
      BY <3>3, <3>4
  <2>2. prompts \in SUBSET (1..(all + 1)) /\ all + 1 \in Nat
    BY <1>3, <1>4 DEF MatchingLines
  <2> HIDE DEF prompts
  <2>3. Max(prompts) \in prompts /\ \A x \in prompts : x <= Max(prompts)
    BY <1>7, <2>2, Extremes
  <2>4. PICK k \in DOMAIN occurred : Max(prompts) <= occurred[k][1].no
    BY <1>7, <2>1, <2>3 DEF Covered
  <2>5. PICK S : occurred \in Seq(S)
    BY <1>2 DEF EventInv, CycleInv, IsSeq
  <2>6. k \in 1..Len(occurred) /\ Len(occurred) \in 1..Len(occurred) /\ occurred # <<>>
        /\ DOMAIN occurred = 1..Len(occurred) /\ Len(occurred) \in Nat
    BY <2>4, <2>5
  <2> DEFINE e == Len(occurred)
             m == occurred[e][1].no
  <2>7. /\ PartsInv /\ NumbersInv
        /\ \A j \in DOMAIN occurred : DOMAIN occurred[j] = {1} /\ occurred[j][1].no \in Nat
    <3>1. PartsInv /\ NumbersInv
      BY <1>2, <1>7 DEF EventInv, Events
    <3>2. \A j \in DOMAIN occurred : DOMAIN occurred[j] = {1}
      BY <1>2, <1>7 DEF SteadyInv, Single
    <3> QED
      BY <1>2, <3>1, <3>2, PartNumbers
  <2>8. occurred[k][1].no <= m
    <3>1. CASE k = e
      <4>1. m \in Nat
        BY <2>6, <2>7
      <4> QED
        BY <3>1, <4>1
    <3>2. CASE k # e
      <4>1. k < e
        BY <2>6, <3>2
      <4>2. 1 \in DOMAIN occurred[k] /\ 1 \in DOMAIN occurred[e]
        BY <2>6, <2>7
      <4> QED
        BY <2>6, <2>7, <4>1, <4>2 DEF NumbersInv, CyclesAscend
    <3> QED
      BY <3>1, <3>2
  <2>9. m \in prompts
    <3>1. WholeInv
      BY <1>2, <1>7 DEF Single
    <3>2. PICK p \in Prompts : Fragment(sent, p, m)
      BY <1>7, <2>6, <3>1 DEF WholeInv, PromptsInv
    <3>3. PICK w \in Seq(Tokens), a \in Nat :
              Said(p, w) /\ Lies(sent, w, a) /\ m = Up(sent, a) + 1
      BY <3>2 DEF Fragment
    <3>4. p = w
      BY <3>3, PromptsAssumption, SaidPlainly
    <3>5. Has(LineOf(sent, m), p)
      BY <1>2, <3>3, <3>4, LiesInLine
    <3>6. m \in 1..(all + 1)
      <4>1. a \in 0..Len(sent) /\ Len(sent) \in 0..Len(sent) /\ a <= Len(sent)
        BY <1>2, <3>3 DEF Lies
      <4>2. Up(sent, a) <= all /\ Up(sent, a) \in Nat
        BY <1>2, <4>1, UpRises, UpSteps DEF all
      <4> QED
        BY <1>3, <3>3, <4>2
    <3> QED
      BY <1>4, <3>5, <3>6 DEF MatchingLines, prompts
  <2>10. m = Max(prompts)
    <3>1. m <= Max(prompts) /\ Max(prompts) <= occurred[k][1].no
      BY <2>3, <2>4, <2>9
    <3>2. m \in Nat /\ Max(prompts) \in Nat /\ occurred[k][1].no \in Nat
      BY <2>1, <2>3, <2>6, <2>7
    <3> HIDE DEF m
    <3> QED
      BY <2>8, <3>1, <3>2
  <2>11. Last(occurred) = occurred[e]
    BY DEF Last
  <2> QED
    BY <2>6, <2>10, <2>11
<1> QED
  BY <1>6, <1>7

\* Wherever the text was cut into chunks, an event that matches any pattern reports every line with
\* one, and the last line with a prompt is the last that Wait4prompts reports, so the device knows
\* its state: for every text, patterns and prompts, but the empty one, which is found in a line that
\* the device has not begun to send.
THEOREM EveryMatchIsReported == NoEmpty /\ Spec => []EveryMatchOccurs
<1>1. SUFFICES ASSUME NoEmpty PROVE Spec => []EveryMatchOccurs
  OBVIOUS
<1>2. MatchInv => EveryMatchOccurs
  BY MatchOccurs
<1>3. Init => MatchInv
  BY <1>1, MatchInit
<1>4. MatchInv /\ [Next]_vars => MatchInv'
  BY <1>1, MatchNext
<1> QED
  BY <1>2, <1>3, <1>4, PTL DEF Spec

-----------------------------------------------------------------------------
(* A text without its newlines.                                             *)

\* The tokens in the first i places that are no newlines.
Others(s, i) == i - Up(s, i)

LEMMA OthersClimb ==
    ASSUME NEW s \in Texts
    PROVE  /\ \A i \in 0..Len(s) : Others(s, i) \in Nat /\ Up(s, i) \in Nat
           /\ Others(s, 0) = 0
           /\ \A i \in 1..Len(s) :
                 Others(s, i) = IF s[i] = Newline THEN Others(s, i - 1) ELSE Others(s, i - 1) + 1
<1> DEFINE S == {i \in 0..Len(s) : Up(s, i) <= i}
<1>1. Len(s) \in Nat
  BY DEF Texts
<1>2. 0 \in S
  BY <1>1, UpSteps
<1>3. ASSUME NEW i \in 1..Len(s), i - 1 \in S PROVE i \in S
  <2>1. i \in 0..Len(s) /\ i - 1 \in 0..Len(s)
    BY <1>1
  <2>2. Up(s, i - 1) <= i - 1
    BY <1>3
  <2>3. Up(s, i) \in {Up(s, i - 1), Up(s, i - 1) + 1} /\ Up(s, i - 1) \in Nat
    BY <2>1, UpSteps
  <2>4. Up(s, i) <= i
    BY <2>1, <2>2, <2>3
  <2> QED
    BY <2>1, <2>4
<1>4. \A i \in 0..Len(s) : Up(s, i) <= i
  <2> HIDE DEF S
  <2>1. \A i \in 0..Len(s) : i \in S
    BY <1>1, <1>2, <1>3, UpTo
  <2> QED
    BY <2>1 DEF S
<1>5. ASSUME NEW i \in 0..Len(s) PROVE Others(s, i) \in Nat /\ Up(s, i) \in Nat
  <2>1. Up(s, i) \in Nat /\ Up(s, i) <= i /\ i \in Nat
    BY <1>1, <1>4, UpSteps
  <2> QED
    BY <2>1 DEF Others
<1>6. Others(s, 0) = 0
  BY UpSteps DEF Others
<1>7. ASSUME NEW i \in 1..Len(s)
      PROVE  Others(s, i) = IF s[i] = Newline THEN Others(s, i - 1) ELSE Others(s, i - 1) + 1
  <2>1. i \in 0..Len(s) /\ i - 1 \in 0..Len(s)
    BY <1>1
  <2>2. Up(s, i) = IF s[i] = Newline THEN Up(s, i - 1) + 1 ELSE Up(s, i - 1)
    BY UpSteps
  <2>3. Up(s, i - 1) \in Nat /\ i \in Nat
    BY <1>5, <2>1
  <2> QED
    BY <2>2, <2>3 DEF Others
<1> QED
  BY <1>5, <1>6, <1>7

LEMMA OthersRise ==
    ASSUME NEW s \in Texts, NEW i \in 0..Len(s), NEW j \in 0..Len(s), i <= j
    PROVE  Others(s, i) <= Others(s, j)
<1> DEFINE f == [k \in 0..Len(s) |-> Others(s, k)]
<1>1. Len(s) \in Nat
  BY DEF Texts
<1>2. Climb(f, Len(s))
  <2>1. f \in [0..Len(s) -> Nat]
    BY OthersClimb
  <2>2. f[0] = 0
    BY <1>1, OthersClimb
  <2>3. ASSUME NEW k \in 1..Len(s) PROVE f[k] = f[k - 1] \/ f[k] = f[k - 1] + 1
    <3>1. k \in 0..Len(s) /\ k - 1 \in 0..Len(s)
      BY <1>1
    <3>2. Others(s, k) = Others(s, k - 1) \/ Others(s, k) = Others(s, k - 1) + 1
      BY OthersClimb
    <3> QED
      BY <3>1, <3>2
  <2> QED
    BY <2>1, <2>2, <2>3 DEF Climb
<1>3. f[i] = Others(s, i) /\ f[j] = Others(s, j)
  OBVIOUS
<1> HIDE DEF f
<1>4. f[i] <= f[j]
  BY <1>1, <1>2, ClimbRises
<1> QED
  BY <1>3, <1>4

\* No two of them are the same number of tokens into the text.
LEMMA OthersDiffer ==
    ASSUME NEW s \in Texts, NEW i \in 1..Len(s), NEW j \in 1..Len(s),
           s[i] # Newline, s[j] # Newline, Others(s, i) = Others(s, j)
    PROVE  i = j
<1>1. Len(s) \in Nat
  BY DEF Texts
<1>2. ASSUME NEW x \in 1..Len(s), NEW y \in 1..Len(s), s[y] # Newline, x < y
      PROVE  Others(s, x) # Others(s, y)
  <2>1. x \in 0..Len(s) /\ y - 1 \in 0..Len(s) /\ x <= y - 1
    BY <1>1, <1>2
  <2>2. Others(s, x) <= Others(s, y - 1) /\ Others(s, y) = Others(s, y - 1) + 1
    BY <1>2, <2>1, OthersRise, OthersClimb
  <2>3. Others(s, x) \in Nat /\ Others(s, y - 1) \in Nat
    BY <2>1, OthersClimb
  <2> QED
    BY <2>2, <2>3
<1>3. ~(i < j) /\ ~(j < i)
  BY <1>2
<1> QED
  BY <1>1, <1>3

\* The k-th of them is somewhere.
LEMMA OthersAre ==
    ASSUME NEW s \in Texts, NEW k \in 1..Others(s, Len(s))
    PROVE  \E i \in 1..Len(s) : s[i] # Newline /\ Others(s, i) = k
<1> DEFINE S == {i \in 0..Len(s) : k <= Others(s, i)}
<1>1. Len(s) \in Nat /\ Len(s) \in 0..Len(s)
  BY DEF Texts
<1>2. k \in Nat /\ 1 <= k /\ k <= Others(s, Len(s))
  BY <1>1, OthersClimb
<1>3. S \in SUBSET Nat /\ S # {}
  BY <1>1, <1>2
<1> HIDE DEF S
<1>4. PICK i \in S : \A m \in S : i <= m
  BY <1>3, Smallest
<1>5. i \in 0..Len(s) /\ k <= Others(s, i)
  BY <1>4 DEF S
<1>6. i \in 1..Len(s) /\ i - 1 \in 0..Len(s) /\ ~(i <= i - 1)
  <2>1. i # 0
    BY <1>2, <1>5, OthersClimb
  <2> QED
    BY <1>1, <1>5, <2>1
<1>7. ~(k <= Others(s, i - 1))
  BY <1>4, <1>6 DEF S
<1>8. Others(s, i - 1) \in Nat
  BY <1>6, OthersClimb
<1>9. Others(s, i) = IF s[i] = Newline THEN Others(s, i - 1) ELSE Others(s, i - 1) + 1
  BY <1>6, OthersClimb
<1> QED
  BY <1>2, <1>5, <1>6, <1>7, <1>8, <1>9

\* They are what is left of the text, in their order.
LEMMA LeftOver ==
    ASSUME NEW s \in Texts
    PROVE  /\ WithoutNewlines(s) \in Seq(Tokens)
           /\ Len(WithoutNewlines(s)) = Others(s, Len(s))
           /\ \A i \in 1..Len(s) : s[i] # Newline =>
                 /\ Others(s, i) \in 1..Others(s, Len(s))
                 /\ WithoutNewlines(s)[Others(s, i)] = s[i]
<1> DEFINE n == Others(s, Len(s))
           Is(k, i) == s[i] # Newline /\ i = k + LineNo(s, i) - 1
           place(k) == CHOOSE i \in DOMAIN s : Is(k, i)
           w == [k \in 1..n |-> s[place(k)]]
<1>1. /\ Len(s) \in Nat /\ DOMAIN s = 1..Len(s) /\ Len(s) \in 0..Len(s)
      /\ \A i \in 1..Len(s) : s[i] \in Tokens \cup {Newline}
  BY DEF Texts
<1>2. n \in Nat
  BY <1>1, OthersClimb
<1>3. Newlines(s) = Up(s, Len(s))
  BY SubSeqFull DEF Up, Texts
<1>4. WithoutNewlines(s) = w
  BY <1>3 DEF WithoutNewlines, Others
<1>5. ASSUME NEW i \in 1..Len(s), s[i] # Newline, NEW k \in Nat PROVE Is(k, i) <=> Others(s, i) = k
  <2>1. i \in Nat /\ i - 1 \in 0..Len(s) /\ i \in 0..Len(s)
    BY <1>1
  <2>2. Up(s, i) = Up(s, i - 1) /\ Up(s, i - 1) \in Nat
    BY <1>5, <2>1, UpSteps
  <2>3. LineNo(s, i) = Up(s, i) + 1
    BY <2>2 DEF LineNo, Up
  <2> QED
    BY <1>5, <2>1, <2>2, <2>3 DEF Others
<1> HIDE DEF n, Is
<1>6. ASSUME NEW i \in 1..Len(s), s[i] # Newline
      PROVE  place(Others(s, i)) = i /\ Others(s, i) \in 1..n
  <2> DEFINE k == Others(s, i)
  <2>1. i \in 0..Len(s) /\ i <= Len(s) /\ i - 1 \in 0..Len(s) /\ i \in DOMAIN s
    BY <1>1
  <2>2. k \in Nat /\ k <= n /\ k = Others(s, i - 1) + 1 /\ Others(s, i - 1) \in Nat
    BY <1>1, <1>6, <2>1, OthersClimb, OthersRise DEF n
  <2> HIDE DEF k
  <2>3. Is(k, i)
    BY <1>5, <1>6, <2>2 DEF k
  <2>4. place(k) \in DOMAIN s /\ Is(k, place(k))
    BY <2>1, <2>3
  <2> HIDE DEF place
  <2>5. place(k) \in 1..Len(s) /\ s[place(k)] # Newline
    BY <1>1, <2>4 DEF Is
  <2>6. Others(s, place(k)) = k
    BY <1>5, <2>2, <2>4, <2>5
  <2>7. place(k) = i
    BY <1>6, <2>5, <2>6, OthersDiffer DEF k
  <2>8. k \in 1..n
    BY <1>2, <2>2
  <2> QED
    BY <2>7, <2>8 DEF k
<1> HIDE DEF place
<1>7. ASSUME NEW k \in 1..n PROVE w[k] \in Tokens
  <2>1. PICK i \in 1..Len(s) : s[i] # Newline /\ Others(s, i) = k
    BY OthersAre DEF n
  <2>2. w[k] = s[i]
    BY <1>6, <2>1
  <2> QED
    BY <1>1, <2>1, <2>2
<1>8. w \in Seq(Tokens) /\ Len(w) = n
  BY <1>2, <1>7
<1>9. ASSUME NEW i \in 1..Len(s), s[i] # Newline PROVE w[Others(s, i)] = s[i]
  BY <1>6, <1>9
<1> HIDE DEF w
<1> QED
  BY <1>4, <1>6, <1>8, <1>9 DEF n

LEMMA PrefixIs ==
    ASSUME NEW s \in Texts, NEW p \in 0..Len(s)
    PROVE  /\ SubSeq(s, 1, p) \in Texts /\ Len(SubSeq(s, 1, p)) = p
           /\ \A i \in 1..p : SubSeq(s, 1, p)[i] = s[i]
           /\ \A i \in 0..p : /\ Up(SubSeq(s, 1, p), i) = Up(s, i)
                              /\ Others(SubSeq(s, 1, p), i) = Others(s, i)
<1> DEFINE T == Tokens \cup {Newline}
           u == SubSeq(s, 1, p)
<1>1. Len(s) \in Nat /\ p \in Nat /\ p <= Len(s) /\ \A i \in 1..Len(s) : s[i] \in T
  BY DEF Texts
<1>2. ASSUME NEW r \in Texts, NEW i \in Nat, i <= Len(r)
      PROVE  /\ SubSeq(r, 1, i) \in Texts /\ Len(SubSeq(r, 1, i)) = i
             /\ \A j \in 1..i : SubSeq(r, 1, i)[j] = r[j]
  <2>1. Len(r) \in Nat /\ \A j \in 1..Len(r) : r[j] \in T
    BY DEF Texts
  <2>2. \A j \in 1..i : r[j] \in T
    BY <1>2, <2>1
  <2> QED
    BY <2>2, SubSeqProperties DEF Texts
<1>3. u \in Texts /\ Len(u) = p /\ \A i \in 1..p : u[i] = s[i]
  BY <1>1, <1>2
<1> HIDE DEF T, u
<1>4. ASSUME NEW i \in 0..p PROVE SubSeq(u, 1, i) = SubSeq(s, 1, i)
  <2>1. i \in Nat /\ i <= p /\ i <= Len(s) /\ \A j \in 1..i : j \in 1..p
    BY <1>1
  <2>2. /\ SubSeq(u, 1, i) \in Texts /\ Len(SubSeq(u, 1, i)) = i
        /\ \A j \in 1..i : SubSeq(u, 1, i)[j] = u[j]
    BY <1>2, <1>3, <2>1
  <2>3. /\ SubSeq(s, 1, i) \in Texts /\ Len(SubSeq(s, 1, i)) = i
        /\ \A j \in 1..i : SubSeq(s, 1, i)[j] = s[j]
    BY <1>2, <2>1
  <2>4. \A j \in 1..i : SubSeq(u, 1, i)[j] = SubSeq(s, 1, i)[j]
    BY <1>3, <2>1, <2>2, <2>3
  <2> QED
    BY <2>2, <2>3, <2>4, SeqEqual DEF Texts
<1>5. \A i \in 0..p : Up(u, i) = Up(s, i)
  BY <1>4 DEF Up
<1> QED
  BY <1>3, <1>5 DEF u, Others

\* What has come before a text grows is as it was.
LEMMA PrefixStays ==
    ASSUME NEW s \in Texts, NEW t \in Texts, NEW p \in 0..Len(s)
    PROVE  SubSeq(s \o t, 1, p) = SubSeq(s, 1, p)
<1>1. /\ s \o t \in Texts /\ Len(s \o t) = Len(s) + Len(t) /\ Len(s) \in Nat /\ Len(t) \in Nat
      /\ \A i \in 1..(Len(s) + Len(t)) : (s \o t)[i] = IF i <= Len(s) THEN s[i] ELSE t[i - Len(s)]
  BY ConcatProperties DEF Texts
<1>2. p \in 0..Len(s \o t)
  BY <1>1
<1>3. /\ SubSeq(s \o t, 1, p) \in Texts /\ Len(SubSeq(s \o t, 1, p)) = p
      /\ \A i \in 1..p : SubSeq(s \o t, 1, p)[i] = (s \o t)[i]
  BY <1>1, <1>2, PrefixIs
<1>4. /\ SubSeq(s, 1, p) \in Texts /\ Len(SubSeq(s, 1, p)) = p
      /\ \A i \in 1..p : SubSeq(s, 1, p)[i] = s[i]
  BY PrefixIs
<1>5. \A i \in 1..p : (s \o t)[i] = s[i]
  <2>1. \A i \in 1..p : i \in 1..(Len(s) + Len(t)) /\ i <= Len(s)
    BY <1>1
  <2> QED
    BY <1>1, <2>1
<1> QED
  BY <1>3, <1>4, <1>5, SeqEqual DEF Texts

\* A stretch without its newline.
LEMMA StripIs ==
    ASSUME NEW s \in Texts, NEW q, NEW a, Stretch(s, q, a)
    PROVE  /\ Stripped(q) \in Seq(Tokens) /\ Lies(s, Stripped(q), a)
           /\ \A i \in (a + 1)..(a + Len(q) - 1) : s[i] # Newline
           /\ IsFull(q) <=> EndsLine(q)
           /\ IsFull(q) => /\ Len(q) = Len(Stripped(q)) + 1 /\ s[a + Len(q)] = Newline
                           /\ Up(s, a + Len(q)) = Up(s, a) + 1
           /\ ~IsFull(q) => /\ Stripped(q) = q /\ s[a + Len(q)] # Newline
                            /\ Up(s, a + Len(q)) = Up(s, a)
<1>1. /\ q \in Texts /\ q # <<>> /\ a \in Nat /\ Len(q) \in Nat /\ Len(q) >= 1
      /\ a + Len(q) <= Len(s) /\ Len(s) \in Nat
  BY EmptySeq DEF Stretch, Lies, Texts
<1>2. /\ \A i \in 1..Len(q) : q[i] = s[a + i] /\ q[i] \in Tokens \cup {Newline}
      /\ \A i \in 1..(Len(q) - 1) : q[i] \in Tokens
  BY DEF Stretch, Lies, Texts
<1>3. IsFull(q) <=> q[Len(q)] = Newline
  BY <1>1 DEF IsFull, Last
<1>4. Len(q) \in 1..Len(q) /\ q[Len(q)] = s[a + Len(q)]
  BY <1>1, <1>2
<1>5. ASSUME NEW i \in (a + 1)..(a + Len(q) - 1) PROVE s[i] # Newline
  <2>1. i - a \in 1..(Len(q) - 1) /\ i - a \in 1..Len(q) /\ a + (i - a) = i
    BY <1>1
  <2> QED
    BY <1>2, <2>1, NewlineAssumption
<1>6. /\ \A w \in Seq(Tokens) : Lies(s, w, a) => Up(s, a + Len(w)) = Up(s, a)
      /\ a \in 0..Len(s) /\ Up(s, a) \in Nat
  <2>1. \A w \in Seq(Tokens) : Len(w) \in 0..Len(w)
    OBVIOUS
  <2>2. a \in 0..Len(s)
    BY <1>1
  <2> QED
    BY <2>1, <2>2, UpFlat, UpSteps
<1>7. CASE IsFull(q)
  <2> DEFINE f == Front(q)
  <2>1. /\ f \in Seq(Tokens \cup {Newline}) /\ Len(f) = Len(q) - 1
        /\ \A i \in 1..(Len(q) - 1) : f[i] = q[i]
    BY <1>1, FrontIs DEF Texts
  <2> HIDE DEF f
  <2>2. f \in Seq(Tokens)
    BY <1>2, <2>1
  <2>3. Lies(s, f, a)
    <3>1. \A i \in 1..(Len(q) - 1) : i \in 1..Len(q)
      BY <1>1
    <3>2. a + Len(f) <= Len(s)
      BY <1>1, <2>1
    <3> QED
      BY <1>1, <1>2, <2>1, <3>1, <3>2 DEF Lies
  <2>4. Stripped(q) = f
    BY <1>7 DEF Stripped, f
  <2>5. Up(s, a + Len(q)) = Up(s, a) + 1
    <3>1. /\ a + Len(q) \in 1..Len(s) /\ (a + Len(q)) - 1 = a + Len(f) /\ Len(f) \in 0..Len(f)
      BY <1>1, <2>1
    <3>2. Up(s, a + Len(f)) = Up(s, a)
      BY <1>6, <2>2, <2>3
    <3> QED
      BY <1>3, <1>4, <1>7, <3>1, <3>2, UpSteps
  <2>6. Len(q) = Len(f) + 1
    BY <1>1, <2>1
  <2> QED
    BY <1>3, <1>4, <1>5, <1>7, <2>2, <2>3, <2>4, <2>5, <2>6 DEF EndsLine
<1>8. CASE ~IsFull(q)
  <2>1. q \in Seq(Tokens)
    <3>1. \A i \in 1..Len(q) : i \in 1..(Len(q) - 1) \/ i = Len(q)
      BY <1>1
    <3>2. q[Len(q)] \in Tokens
      BY <1>2, <1>3, <1>4, <1>8
    <3>3. \A i \in 1..Len(q) : q[i] \in Tokens
      BY <1>2, <3>1, <3>2
    <3> QED
      BY <1>1, <3>3 DEF Texts
  <2>2. Lies(s, q, a) /\ Stripped(q) = q
    BY <1>8 DEF Stretch, Stripped
  <2>3. Up(s, a + Len(q)) = Up(s, a)
    BY <1>6, <2>1, <2>2
  <2> QED
    BY <1>3, <1>4, <1>5, <1>8, <2>1, <2>2, <2>3 DEF EndsLine
<1> QED
  BY <1>7, <1>8

\* The newlines are left out stretch by stretch.
LEMMA JoinedIs ==
    ASSUME NEW s \in Texts, NEW q, NEW a, Stretch(s, q, a)
    PROVE  WithoutNewlines(SubSeq(s, 1, a + Len(q)))
                = WithoutNewlines(SubSeq(s, 1, a)) \o Stripped(q)
<1> DEFINE b == a + Len(q)
           u == SubSeq(s, 1, a)
           v == SubSeq(s, 1, b)
           w == WithoutNewlines(u)
           z == WithoutNewlines(v)
           f == Stripped(q)
           n == Others(s, a)
<1>1. /\ a \in Nat /\ Len(q) \in Nat /\ Len(q) >= 1 /\ b <= Len(s) /\ Len(s) \in Nat /\ b \in Nat
      /\ a \in 0..Len(s) /\ b \in 0..Len(s) /\ a <= b /\ b \in 0..b /\ a \in 0..a
  <2>1. a \in Nat /\ Len(q) \in Nat /\ q # <<>> /\ a + Len(q) <= Len(s) /\ Len(s) \in Nat
        /\ Len(q) >= 1
    BY EmptySeq DEF Stretch, Lies, Texts
  <2> QED
    BY <2>1
<1>2. /\ f \in Seq(Tokens) /\ Lies(s, f, a)
      /\ IsFull(q) => Len(q) = Len(f) + 1 /\ Up(s, b) = Up(s, a) + 1
      /\ ~IsFull(q) => f = q /\ Up(s, b) = Up(s, a)
  BY StripIs
<1> HIDE DEF b, f
<1>3. /\ u \in Texts /\ Len(u) = a /\ \A i \in 1..a : u[i] = s[i]
      /\ v \in Texts /\ Len(v) = b /\ \A i \in 1..b : v[i] = s[i]
      /\ \A i \in 0..a : Others(u, i) = Others(s, i)
      /\ \A i \in 0..b : Others(v, i) = Others(s, i)
  BY <1>1, PrefixIs
<1> HIDE DEF u, v
<1>4. n \in Nat /\ Len(f) \in Nat /\ Others(s, b) = n + Len(f)
  <2>1. Up(s, a) \in Nat /\ n \in Nat /\ n = a - Up(s, a) /\ Others(s, b) = b - Up(s, b)
    BY <1>1, OthersClimb DEF Others
  <2>2. Len(f) \in Nat
    BY <1>2
  <2>3. b = a + Len(q)
    BY DEF b
  <2> HIDE DEF n
  <2>4. CASE IsFull(q)
    <3>1. Others(s, b) = (a + (Len(f) + 1)) - (Up(s, a) + 1) /\ a \in Nat
      BY <1>1, <1>2, <2>1, <2>3, <2>4
    <3> QED
      BY <2>1, <2>2, <3>1
  <2>5. CASE ~IsFull(q)
    <3>1. Others(s, b) = (a + Len(f)) - Up(s, a) /\ a \in Nat
      BY <1>1, <1>2, <2>1, <2>3, <2>5
    <3> QED
      BY <2>1, <2>2, <3>1
  <2> QED
    BY <2>1, <2>2, <2>4, <2>5
<1>5. /\ w \in Seq(Tokens) /\ Len(w) = n
      /\ \A i \in 1..a : s[i] # Newline => w[Others(s, i)] = s[i]
  <2>1. \A i \in 1..a : i \in 0..a
    BY <1>1
  <2>2. /\ w \in Seq(Tokens) /\ Len(w) = Others(u, Len(u))
        /\ \A i \in 1..Len(u) : u[i] # Newline => w[Others(u, i)] = u[i]
    BY <1>3, LeftOver
  <2> HIDE DEF w
  <2> QED
    BY <1>1, <1>3, <2>1, <2>2
<1>6. /\ z \in Seq(Tokens) /\ Len(z) = n + Len(f)
      /\ \A i \in 1..b : s[i] # Newline => z[Others(s, i)] = s[i]
  <2>1. \A i \in 1..b : i \in 0..b
    BY <1>1
  <2>2. /\ z \in Seq(Tokens) /\ Len(z) = Others(v, Len(v))
        /\ \A i \in 1..Len(v) : v[i] # Newline => z[Others(v, i)] = v[i]
    BY <1>3, LeftOver
  <2> HIDE DEF z, n
  <2> QED
    BY <1>1, <1>3, <1>4, <2>1, <2>2
<1> HIDE DEF w, z
<1> HIDE DEF n
<1>7. /\ w \o f \in Seq(Tokens) /\ Len(w \o f) = n + Len(f)
      /\ \A k \in 1..(n + Len(f)) : (w \o f)[k] = IF k <= n THEN w[k] ELSE f[k - n]
  <2>1. w \in Seq(Tokens) /\ f \in Seq(Tokens) /\ Len(w) = n
    BY <1>2, <1>5
  <2> QED
    BY <2>1, ConcatProperties
<1>8. ASSUME NEW k \in 1..n PROVE z[k] = w[k]
  <2>1. PICK i \in 1..a : u[i] # Newline /\ Others(u, i) = k
    <3>1. k \in 1..Others(u, Len(u))
      BY <1>1, <1>3 DEF n
    <3>2. \E i \in 1..Len(u) : u[i] # Newline /\ Others(u, i) = k
      BY <1>3, <3>1, OthersAre
    <3> QED
      BY <1>3, <3>2
  <2>2. i \in 0..a /\ i \in 1..b /\ s[i] # Newline
    BY <1>1, <1>3, <2>1
  <2>3. Others(s, i) = k
    BY <1>3, <2>1, <2>2
  <2> QED
    BY <1>5, <1>6, <2>2, <2>3
<1>9. ASSUME NEW j \in 1..Len(f) PROVE z[n + j] = f[j]
  <2>1. f[j] = s[a + j] /\ f[j] \in Tokens
    BY <1>2 DEF Lies
  <2>2. j \in 0..Len(f) /\ a + j \in 1..b /\ a + j \in 0..Len(s) /\ j \in Nat
    <3>1. Len(f) <= Len(q)
      BY <1>1, <1>2, <1>4
    <3> QED
      BY <1>1, <1>4, <3>1 DEF b
  <2>3. Up(s, a + j) = Up(s, a)
    BY <1>2, <2>2, UpFlat
  <2>4. Others(s, a + j) = n + j
    <3>1. Up(s, a) \in Nat
      BY <1>1, OthersClimb
    <3> QED
      BY <1>1, <2>2, <2>3, <3>1 DEF Others, n
  <2>5. s[a + j] # Newline
    BY <2>1, NewlineAssumption
  <2> QED
    BY <1>6, <2>1, <2>2, <2>4, <2>5
<1>10. ASSUME NEW k \in 1..(n + Len(f)) PROVE z[k] = (w \o f)[k]
  <2>1. CASE k <= n
    <3>1. k \in 1..n
      BY <1>4, <2>1
    <3> QED
      BY <1>7, <1>8, <2>1, <3>1
  <2>2. CASE ~(k <= n)
    <3>1. k - n \in 1..Len(f) /\ n + (k - n) = k
      BY <1>4, <2>2
    <3> QED
      BY <1>7, <1>9, <2>2, <3>1
  <2> QED
    BY <2>1, <2>2
<1>11. z = w \o f
  BY <1>6, <1>7, <1>10, SeqEqual
<1> QED
  BY <1>11 DEF z, w, u, v, f, b

-----------------------------------------------------------------------------
(* What a command has read.                                                 *)

\* No two newlines have as many newlines before them.
LEMMA NewlinesDiffer ==
    ASSUME NEW s \in Texts, NEW i \in 1..Len(s), NEW j \in 1..Len(s),
           s[i] = Newline, s[j] = Newline, Up(s, i) = Up(s, j)
    PROVE  i = j
<1>1. Len(s) \in Nat
  BY DEF Texts
<1>2. ASSUME NEW x \in 1..Len(s), NEW y \in 1..Len(s), s[y] = Newline, x < y
      PROVE  Up(s, x) # Up(s, y)
  <2>1. x \in 0..Len(s) /\ y - 1 \in 0..Len(s) /\ x <= y - 1
    BY <1>1, <1>2
  <2>2. Up(s, x) <= Up(s, y - 1) /\ Up(s, y) = Up(s, y - 1) + 1
    BY <1>2, <2>1, UpRises, UpSteps
  <2>3. Up(s, x) \in Nat /\ Up(s, y - 1) \in Nat
    BY <2>1, UpSteps
  <2> QED
    BY <2>2, <2>3
<1>3. ~(i < j) /\ ~(j < i)
  BY <1>2
<1> QED
  BY <1>1, <1>3

\* The pieces lie one behind the other, from place p to the end of what was sent.
LiesAt(pieces, p, k, a) ==
    /\ Stretch(sent, pieces[k], a) /\ Up(sent, a) = Up(sent, p) + (k - 1)
    /\ k = 1 => a = p
    /\ k # 1 => Begins(sent, a)
    /\ k = Len(pieces) => EndsText(sent, pieces[k], a)
    /\ k # Len(pieces) => EndsLine(pieces[k])
Placed(pieces, p) == \A k \in DOMAIN pieces : \E a \in 0..Len(sent) : LiesAt(pieces, p, k, a)

\* How much a command has read: what it has yet to read lies behind.
ReadTo(p) ==
    /\ p \in 0..Len(sent)
    /\ todo = <<>> => p = Read
    /\ IsSeq(todo) /\ Placed(todo, p)

\* The first piece is read.
LEMMA PieceIsRead ==
    ASSUME sent \in Texts, NEW pieces, IsSeq(pieces), pieces # <<>>, NEW p \in 0..Len(sent),
           Placed(pieces, p)
    PROVE  LET q == Head(pieces)
           IN  /\ Stretch(sent, q, p)
               /\ EndsText(sent, q, p) \/ EndsLine(q)
               /\ p + Len(q) \in 0..Len(sent)
               /\ Tail(pieces) = <<>> => p + Len(q) = Len(sent)
               /\ IsSeq(Tail(pieces)) /\ Placed(Tail(pieces), p + Len(q))
<1> DEFINE q == Head(pieces)
           rest == Tail(pieces)
           b == p + Len(q)
<1>1. /\ IsSeq(rest) /\ 1 \in DOMAIN pieces /\ q = pieces[1]
      /\ \A k \in DOMAIN rest : k \in Nat /\ k + 1 \in DOMAIN pieces /\ 1 < k + 1
                                /\ rest[k] = pieces[k + 1]
  BY TailIs
<1>2. PICK S : pieces \in Seq(S)
  BY DEF IsSeq
<1>3. /\ Len(pieces) \in Nat /\ Len(pieces) >= 1 /\ Len(rest) = Len(pieces) - 1
      /\ DOMAIN pieces = 1..Len(pieces) /\ DOMAIN rest = 1..(Len(pieces) - 1)
  <2>1. Len(pieces) \in Nat /\ DOMAIN pieces = 1..Len(pieces) /\ Len(pieces) >= 1
    BY <1>2, EmptySeq
  <2>2. rest \in Seq(S) /\ Len(rest) = Len(pieces) - 1
    BY <1>2, HeadTailProperties
  <2> QED
    BY <2>1, <2>2
<1> HIDE DEF q, rest
<1>4. rest = <<>> => Len(pieces) = 1
  <2>1. Len(<<>>) = 0
    OBVIOUS
  <2>2. rest = <<>> => Len(rest) = 0
    BY <2>1
  <2> QED
    BY <1>3, <2>2
<1>5. LiesAt(pieces, p, 1, p)
  <2>1. PICK a \in 0..Len(sent) : LiesAt(pieces, p, 1, a)
    BY <1>1 DEF Placed
  <2>2. a = p
    BY <2>1 DEF LiesAt
  <2> QED
    BY <2>1, <2>2
<1>6. /\ Stretch(sent, q, p)
      /\ Len(pieces) = 1 => EndsText(sent, q, p)
      /\ Len(pieces) # 1 => EndsLine(q)
  BY <1>1, <1>5 DEF LiesAt
<1>7. b \in 1..Len(sent) /\ b \in 0..Len(sent) /\ Len(sent) \in Nat
  <2>1. /\ q # <<>> /\ Len(q) \in Nat /\ p \in Nat /\ p + Len(q) <= Len(sent) /\ Len(sent) \in Nat
        /\ Len(q) >= 1
    BY <1>6, EmptySeq DEF Stretch, Lies, Texts
  <2> QED
    BY <2>1
<1>8. Len(pieces) # 1 => sent[b] = Newline /\ Up(sent, b) = Up(sent, p) + 1
  BY <1>6, StripIs
<1>9. ASSUME NEW k \in DOMAIN rest PROVE \E a \in 0..Len(sent) : LiesAt(rest, b, k, a)
  <2>1. k \in Nat /\ k >= 1 /\ k + 1 \in DOMAIN pieces /\ rest[k] = pieces[k + 1] /\ Len(pieces) # 1
    BY <1>1, <1>3
  <2>2. PICK a \in 0..Len(sent) : LiesAt(pieces, p, k + 1, a)
    BY <2>1 DEF Placed
  <2>3. /\ Stretch(sent, rest[k], a) /\ Up(sent, a) = Up(sent, p) + ((k + 1) - 1)
        /\ Begins(sent, a)
        /\ k + 1 = Len(pieces) => EndsText(sent, rest[k], a)
        /\ k + 1 # Len(pieces) => EndsLine(rest[k])
    BY <2>1, <2>2 DEF LiesAt
  <2>4. Up(sent, p) \in Nat /\ Up(sent, a) = Up(sent, b) + (k - 1)
    <3>1. Up(sent, p) \in Nat
      BY UpSteps
    <3> QED
      BY <1>8, <2>1, <2>3, <3>1
  <2>5. k = Len(rest) <=> k + 1 = Len(pieces)
    BY <1>3, <2>1
  <2>6. ASSUME k = 1 PROVE a = b
    <3>1. Up(sent, a) = Up(sent, b) /\ Up(sent, a) # 0
      BY <1>8, <2>1, <2>4, <2>6
    <3>2. a # 0
      BY <3>1, UpSteps
    <3>3. a \in 1..Len(sent) /\ sent[a] = Newline
      BY <1>7, <2>3, <3>2 DEF Begins
    <3> QED
      BY <1>7, <1>8, <2>1, <3>1, <3>3, NewlinesDiffer
  <2> QED
    BY <2>3, <2>4, <2>5, <2>6 DEF LiesAt
<1>10. rest = <<>> => b = Len(sent)
  BY <1>4, <1>6 DEF EndsText
<1> QED
  BY <1>1, <1>6, <1>7, <1>9, <1>10 DEF Placed, q, rest

\* What is behind a place.
Rest(s, e) == SubSeq(s, e + 1, Len(s))
LEMMA RestIs ==
    ASSUME NEW s \in Texts, NEW e \in 0..Len(s)
    PROVE  /\ Rest(s, e) \in Texts /\ Behind(s, Rest(s, e), e) /\ Len(Rest(s, e)) = Len(s) - e
           /\ \A i \in 1..Len(Rest(s, e)) : Rest(s, e)[i] = s[e + i]
<1> DEFINE T == Tokens \cup {Newline}
           t == Rest(s, e)
<1>1. PICK n, m : n = Len(s) /\ m = e + 1
  OBVIOUS
<1>2. n \in Nat /\ e \in Nat /\ e <= n /\ m \in Nat /\ m = e + 1 /\ \A i \in 1..n : s[i] \in T
  BY <1>1 DEF Texts
<1>3. t = SubSeq(s, m, n)
  BY <1>1 DEF Rest
<1> HIDE DEF T, t
<1>4. \A i \in m..n : s[i] \in T
  BY <1>2
<1>5. /\ t \in Seq(T)
      /\ Len(t) = IF m <= n THEN n - m + 1 ELSE 0
      /\ \A i \in 1..(n - m + 1) : t[i] = s[m + i - 1]
  BY <1>2, <1>3, <1>4, SubSeqProperties
<1>6. Len(t) = n - e /\ \A i \in 1..(n - e) : t[i] = s[e + i]
  <2>1. /\ (IF m <= n THEN n - m + 1 ELSE 0) = n - e /\ n - m + 1 = n - e
        /\ \A i \in 1..(n - e) : m + i - 1 = e + i
    BY <1>2
  <2> QED
    BY <1>5, <2>1
<1>7. n = e + (n - e)
  BY <1>2
<1> QED
  BY <1>1, <1>2, <1>5, <1>6, <1>7 DEF Behind, Texts, T, t

LEMMA RestGrows ==
    ASSUME NEW s \in Texts, NEW c \in Texts, NEW e \in 0..Len(s)
    PROVE  Rest(s \o c, e) = Rest(s, e) \o c
<1> DEFINE u == s \o c
           t == Rest(s, e)
           v == Rest(u, e)
<1>1. /\ u \in Texts /\ Len(u) = Len(s) + Len(c) /\ Len(s) \in Nat /\ Len(c) \in Nat
      /\ \A i \in 1..(Len(s) + Len(c)) : u[i] = IF i <= Len(s) THEN s[i] ELSE c[i - Len(s)]
      /\ e \in Nat /\ e <= Len(s)
  BY ConcatProperties DEF Texts
<1>2. t \in Texts /\ Len(t) = Len(s) - e /\ \A i \in 1..Len(t) : t[i] = s[e + i]
  BY RestIs
<1>3. v \in Texts /\ Len(v) = Len(u) - e /\ \A i \in 1..Len(v) : v[i] = u[e + i]
  <2>1. e \in 0..Len(u)
    BY <1>1
  <2> HIDE DEF u
  <2> QED
    BY <1>1, <2>1, RestIs
<1> HIDE DEF u, t, v
<1>4. /\ t \o c \in Texts /\ Len(t \o c) = Len(t) + Len(c)
      /\ \A i \in 1..(Len(t) + Len(c)) : (t \o c)[i] = IF i <= Len(t) THEN t[i] ELSE c[i - Len(t)]
  BY <1>2, ConcatProperties DEF Texts
<1>5. Len(v) = Len(t) + Len(c) /\ Len(t) \in Nat
  BY <1>1, <1>2, <1>3
<1>6. ASSUME NEW i \in 1..(Len(t) + Len(c)) PROVE v[i] = (t \o c)[i]
  <2>1. v[i] = u[e + i] /\ e + i \in 1..(Len(s) + Len(c))
    BY <1>1, <1>2, <1>3, <1>5
  <2>2. CASE i <= Len(t)
    <3>1. i \in 1..Len(t) /\ e + i <= Len(s)
      BY <1>1, <1>2, <1>5, <2>2
    <3> QED
      BY <1>1, <1>2, <1>4, <2>1, <2>2, <3>1
  <2>3. CASE ~(i <= Len(t))
    <3>1. ~(e + i <= Len(s)) /\ (e + i) - Len(s) = i - Len(t)
      BY <1>1, <1>2, <1>5, <2>3
    <3> QED
      BY <1>1, <1>4, <2>1, <2>3, <3>1
  <2> QED
    BY <2>2, <2>3
<1>7. v = t \o c
  BY <1>3, <1>4, <1>5, <1>6, SeqEqual DEF Texts
<1> QED
  BY <1>7 DEF u, t, v

\* A stretch of a text is a stretch of what is behind a place before it.
LEMMA StretchBehind ==
    ASSUME NEW s \in Texts, NEW t \in Texts, NEW e, Behind(s, t, e),
           NEW q, NEW p, Stretch(s, q, p), e <= p
    PROVE  /\ Stretch(t, q, p - e)
           /\ EndsText(s, q, p) <=> EndsText(t, q, p - e)
<1>1. /\ e \in Nat /\ Len(s) = e + Len(t) /\ Len(t) \in Nat /\ p \in Nat /\ Len(q) \in Nat
      /\ \A i \in 1..Len(t) : t[i] = s[e + i]
      /\ p + Len(q) <= Len(s) /\ \A i \in 1..Len(q) : q[i] = s[p + i]
  <2>1. Len(t) \in Nat /\ (q \in Texts => Len(q) \in Nat)
    BY DEF Texts
  <2>2. Lies(s, q, p) /\ q \in Texts
    BY DEF Stretch
  <2> QED
    BY <2>1, <2>2 DEF Behind, Lies
<1>2. p - e \in Nat /\ (p - e) + Len(q) <= Len(t)
  BY <1>1
<1>3. ASSUME NEW i \in 1..Len(q) PROVE q[i] = t[(p - e) + i]
  <2>1. (p - e) + i \in 1..Len(t) /\ e + ((p - e) + i) = p + i
    BY <1>1, <1>2
  <2> QED
    BY <1>1, <2>1
<1>4. Stretch(t, q, p - e)
  BY <1>2, <1>3 DEF Stretch, Lies
<1>5. EndsText(s, q, p) <=> EndsText(t, q, p - e)
  BY <1>1 DEF EndsText
<1> QED
  BY <1>4, <1>5

-----------------------------------------------------------------------------
(* What a command has found.                                                *)

Kept == IF cache = None THEN <<>> ELSE cache

\* The echo was not found: all that was read is kept, without its newlines.
BeforeEcho(p) ==
    /\ ~started /\ ~failed /\ ~isDone
    /\ Kept = WithoutNewlines(SubSeq(sent, 1, p))
    /\ \A i \in EchoEnds : i > p

\* The echo ends here, and the output begins.
Starts(e) == e \in EchoEnds /\ \A i \in EchoEnds : e <= i
EndsAt(t, n) == Has(LineOf(t, n), Prompt)
FailsAt(t, n) == Has(LineOf(t, n), Failure)
Found(t) == \E n \in FullLinesOf(t) : FailsAt(t, n) /\ \A m \in 1..n : ~EndsAt(t, m)

\* What is known of the output t that was read, up to place q, when the command goes on: it keeps
\* the line it has not seen the end of ...
GoesOnFrom(t, q, kept, fails) ==
    /\ q \in 0..Len(t)
    /\ kept \in Seq(Tokens) /\ ~Has(kept, Prompt)
    /\ \E b \in 0..Len(t) : Lies(t, kept, b) /\ b + Len(kept) = q /\ Begins(t, b)
    /\ \A n \in 1..Up(t, q) : ~EndsAt(t, n)
    /\ fails <=> (\E n \in 1..Up(t, q) : FailsAt(t, n))
\* ... and when it is done.
IsOver(t, fails, waits) ==
    /\ fails <=> Found(t)
    /\ (\E n \in LinesOf(t) : EndsAt(t, n)) \/ (~waits /\ Found(t))
Waits == kind # "command"
AfterEcho(p) ==
    /\ started
    /\ isDone => Idle
    /\ ~isDone => Waits \/ ~failed
    /\ \E e \in 0..p : /\ Starts(e)
                       /\ ~isDone => GoesOnFrom(Rest(sent, e), p - e, Kept, failed)
                       /\ isDone => IsOver(Rest(sent, e), failed, Waits)

\* A command is not paused.
ReadInv == \E p \in 0..Len(sent) : (~isDone => ReadTo(p)) /\ (BeforeEcho(p) \/ AfterEcho(p))
PieceInv ==
    kind \in Commands =>
        /\ left = 0 /\ ~paused
        /\ started \in BOOLEAN /\ failed \in BOOLEAN /\ isDone \in BOOLEAN
        /\ ReadInv
CommandInv == EventInv /\ PieceInv

LEMMA EchoEndsAre ==
    ASSUME sent \in Texts
    PROVE  EchoEnds \in SUBSET (1..Len(sent)) /\ \A i \in EchoEnds : sent[i] = Newline
BY DEF EchoEnds, Texts

\* Where the echo was found, it is found in a longer text; and nowhere else before its end.
LEMMA EchoEndsGrow ==
    ASSUME sent \in Texts, NEW text \in Texts, sent' = sent \o text
    PROVE  \A i \in 1..Len(sent) : i \in EchoEnds' <=> i \in EchoEnds
<1>1. /\ sent' \in Texts /\ Len(sent') = Len(sent) + Len(text) /\ Len(sent) \in Nat
      /\ Len(text) \in Nat
      /\ \A i \in 1..(Len(sent) + Len(text)) :
            sent'[i] = IF i <= Len(sent) THEN sent[i] ELSE text[i - Len(sent)]
      /\ DOMAIN sent = 1..Len(sent) /\ DOMAIN sent' = 1..(Len(sent) + Len(text))
  BY ConcatProperties DEF Texts
<1>2. ASSUME NEW i \in 1..Len(sent) PROVE i \in EchoEnds' <=> i \in EchoEnds
  <2>1. /\ i \in 0..Len(sent) /\ i \in 1..(Len(sent) + Len(text)) /\ i <= Len(sent)
        /\ i \in DOMAIN sent /\ i \in DOMAIN sent'
    BY <1>1
  <2>2. SubSeq(sent', 1, i) = SubSeq(sent, 1, i)
    BY <2>1, PrefixStays
  <2>3. sent'[i] = sent[i]
    BY <1>1, <2>1
  <2> QED
    BY <2>1, <2>2, <2>3 DEF EchoEnds
<1> QED
  BY <1>2

LEMMA CommandsAreNoEvents == ASSUME kind \in Commands PROVE kind \notin Events
BY DEF Events, LineEvents, Commands

LEMMA PieceInit == ASSUME Init PROVE PieceInv
<1>1. SUFFICES ASSUME kind \in Commands PROVE left = 0 /\ ReadInv
  BY DEF PieceInv, Init
<1>2. /\ sent = <<>> /\ chunk = <<>> /\ todo = <<>> /\ cache = None /\ ~paused /\ ~isDone
      /\ ~started /\ ~failed
  BY DEF Init
<1>3. left = 0
  <2>1. kind \notin Events
    BY <1>1, CommandsAreNoEvents
  <2> QED
    BY <2>1 DEF Init
<1>4. sent \in Texts /\ Len(sent) = 0 /\ 0 \in 0..Len(sent) /\ Read = 0
  BY <1>2 DEF Texts, Read
<1>5. ReadTo(0)
  <2>1. DOMAIN todo = {}
    BY <1>2
  <2>2. IsSeq(todo)
    BY <1>2 DEF IsSeq
  <2> QED
    BY <1>4, <2>1, <2>2 DEF ReadTo, Placed
<1>6. BeforeEcho(0)
  <2>1. EchoEnds = {}
    BY <1>4, EchoEndsAre
  <2>2. Kept = <<>>
    BY <1>2 DEF Kept
  <2>3. WithoutNewlines(SubSeq(sent, 1, 0)) = <<>>
    <3> DEFINE w == WithoutNewlines(SubSeq(sent, 1, 0))
    <3>1. SubSeq(sent, 1, 0) \in Texts /\ Len(SubSeq(sent, 1, 0)) = 0
      BY <1>4, PrefixIs
    <3>2. w \in Seq(Tokens) /\ Len(w) = 0
      BY <3>1, LeftOver, OthersClimb
    <3> HIDE DEF w
    <3>3. w = <<>>
      BY <3>2, EmptySeq
    <3> QED
      BY <3>3 DEF w
  <2> QED
    BY <1>2, <2>1, <2>2, <2>3 DEF BeforeEcho
<1> QED
  BY <1>2, <1>3, <1>4, <1>5, <1>6 DEF ReadInv

\* A step that leaves what was read and found as it is.
LEMMA ReadRests ==
    ASSUME ReadInv, UNCHANGED <<kind, sent, chunk, cache, todo, isDone, started, failed>>
    PROVE  ReadInv'
<1>1. EchoEnds' = EchoEnds /\ Kept' = Kept /\ Read' = Read /\ (Idle' <=> Idle)
  BY DEF EchoEnds, Kept, Read, Idle
<1>2. \A p : /\ ReadTo(p)' <=> ReadTo(p)
             /\ BeforeEcho(p)' <=> BeforeEcho(p)
  BY <1>1 DEF ReadTo, Placed, LiesAt, BeforeEcho
<1>3. \A e : Starts(e)' <=> Starts(e)
  BY <1>1 DEF Starts
<1>4. \A p : AfterEcho(p)' <=> AfterEcho(p)
  BY <1>1, <1>3 DEF AfterEcho, Waits
<1> QED
  BY <1>2, <1>4 DEF ReadInv

\* What comes changes nothing of what was read.
LEMMA GoesOnGrows ==
    ASSUME NEW t \in Texts, NEW text \in Texts, NEW q, NEW kept, NEW fails,
           GoesOnFrom(t, q, kept, fails)
    PROVE  GoesOnFrom(t \o text, q, kept, fails)
<1>1. kept \in Seq(Tokens) /\ q \in 0..Len(t) /\ ~Has(kept, Prompt)
  BY DEF GoesOnFrom
<1>2. Len(t) \in Nat /\ Len(text) \in Nat /\ Len(t \o text) = Len(t) + Len(text)
  BY ConcatProperties DEF Texts
<1>3. \A x \in 0..Len(t) : x \in 0..Len(t \o text)
  BY <1>2
<1>4. \E b \in 0..Len(t \o text) : /\ Lies(t \o text, kept, b) /\ b + Len(kept) = q
                                   /\ Begins(t \o text, b)
  <2>1. PICK b \in 0..Len(t) : Lies(t, kept, b) /\ b + Len(kept) = q /\ Begins(t, b)
    BY DEF GoesOnFrom
  <2>2. Lies(t \o text, kept, b) /\ Begins(t \o text, b)
    BY <1>1, <2>1, LiesGrows
  <2> QED
    BY <1>3, <2>1, <2>2
<1>5. Up(t \o text, q) = Up(t, q)
  BY <1>1, UpGrows
<1>6. ASSUME NEW n \in 1..Up(t, q) PROVE LineOf(t \o text, n) = LineOf(t, n)
  <2>1. /\ q \in 0..Len(t) /\ Len(t) \in 0..Len(t) /\ q <= Len(t)
    BY <1>1, <1>2
  <2>2. Up(t, q) \in Nat /\ Up(t, Len(t)) \in Nat /\ Up(t, q) <= Up(t, Len(t))
    BY <2>1, UpSteps, UpRises
  <2>3. n \in Nat /\ n <= Up(t, Len(t))
    BY <2>2
  <2> QED
    BY <2>3, LineStays
<1>7. \A n \in 1..Up(t, q) : /\ EndsAt(t \o text, n) <=> EndsAt(t, n)
                             /\ FailsAt(t \o text, n) <=> FailsAt(t, n)
  BY <1>6 DEF EndsAt, FailsAt
<1>8. /\ \A n \in 1..Up(t, q) : ~EndsAt(t, n)
      /\ fails <=> (\E n \in 1..Up(t, q) : FailsAt(t, n))
  BY DEF GoesOnFrom
<1>9. /\ \A n \in 1..Up(t \o text, q) : ~EndsAt(t \o text, n)
      /\ fails <=> (\E n \in 1..Up(t \o text, q) : FailsAt(t \o text, n))
  BY <1>5, <1>7, <1>8
<1> QED
  BY <1>1, <1>3, <1>4, <1>9 DEF GoesOnFrom

LEMMA PieceReceives == ASSUME CommandInv, kind \in Commands, Receive PROVE ReadInv'
<1>1. /\ ~paused /\ ReadInv /\ sent \in Texts /\ chunk = <<>> /\ todo = <<>> /\ ~isDone
      /\ UNCHANGED <<kind, cache, todo, isDone, started, failed>>
  BY DEF CommandInv, PieceInv, EventInv, SourceInv, Receive, Idle
<1>2. PICK text \in Texts : sent' = sent \o text /\ chunk' = text
  BY <1>1, ChunksAreTexts DEF Receive
<1>3. /\ sent' \in Texts /\ Len(sent') = Len(sent) + Len(text) /\ Len(sent) \in Nat
      /\ Len(text) \in Nat
  BY <1>1, <1>2, ConcatProperties DEF Texts
<1>4. PICK p \in 0..Len(sent) : ReadTo(p) /\ (BeforeEcho(p) \/ AfterEcho(p))
  BY <1>1 DEF ReadInv
<1>5. p = Len(sent) /\ Read' = Len(sent) /\ p \in 0..Len(sent')
  <2>1. Read = Len(sent)
    BY <1>1, <1>3 DEF Read
  <2>2. p = Read
    BY <1>1, <1>4 DEF ReadTo
  <2>3. Read' = Len(sent)
    BY <1>2, <1>3 DEF Read
  <2> QED
    BY <1>3, <2>1, <2>2, <2>3
<1>6. ReadTo(p)'
  <2>1. todo' = <<>> /\ IsSeq(todo')
    BY <1>1, <1>4 DEF ReadTo
  <2>2. DOMAIN todo' = {}
    BY <2>1
  <2> QED
    BY <1>5, <2>1, <2>2 DEF ReadTo, Placed
<1>7. /\ EchoEnds \in SUBSET (1..Len(sent)) /\ EchoEnds' \in SUBSET (1..Len(sent'))
      /\ \A i \in 1..Len(sent) : i \in EchoEnds' <=> i \in EchoEnds
  <2>1. EchoEnds' \in SUBSET (1..Len(sent'))
    BY <1>3 DEF EchoEnds, Texts
  <2> QED
    BY <1>1, <1>2, <2>1, EchoEndsAre, EchoEndsGrow
<1>8. CASE BeforeEcho(p)
  <2>1. Kept' = WithoutNewlines(SubSeq(sent', 1, p))
    <3>1. SubSeq(sent', 1, p) = SubSeq(sent, 1, p)
      BY <1>1, <1>2, PrefixStays
    <3>2. Kept' = Kept
      BY <1>1 DEF Kept
    <3> QED
      BY <1>8, <3>1, <3>2 DEF BeforeEcho
  <2>2. ASSUME NEW i \in EchoEnds' PROVE i > p
    <3>1. (i \in 1..Len(sent') /\ i \notin EchoEnds) \/ i > p
      BY <1>7, <1>8 DEF BeforeEcho
    <3> QED
      BY <1>3, <1>5, <1>7, <3>1
  <2>3. BeforeEcho(p)'
    BY <1>1, <1>8, <2>1, <2>2 DEF BeforeEcho
  <2> QED
    BY <1>5, <1>6, <2>3 DEF ReadInv
<1>9. CASE AfterEcho(p)
  <2>1. PICK e \in 0..p : Starts(e) /\ GoesOnFrom(Rest(sent, e), p - e, Kept, failed)
    BY <1>1, <1>9 DEF AfterEcho
  <2>2. e \in EchoEnds /\ e \in 1..Len(sent) /\ e \in 0..Len(sent) /\ \A i \in EchoEnds : e <= i
    BY <1>3, <1>7, <2>1 DEF Starts
  <2>3. Starts(e)'
    <3>1. ASSUME NEW i \in EchoEnds' PROVE e <= i
      <4>1. i \in 1..Len(sent') /\ (i \in EchoEnds \/ ~(i <= Len(sent)))
        BY <1>3, <1>7
      <4> QED
        BY <1>3, <2>2, <4>1
    <3>2. e \in EchoEnds'
      BY <1>7, <2>2
    <3> QED
      BY <3>1, <3>2 DEF Starts
  <2>4. Rest(sent', e) = Rest(sent, e) \o text /\ Rest(sent, e) \in Texts
    BY <1>1, <1>2, <2>2, RestGrows, RestIs
  <2>5. GoesOnFrom(Rest(sent', e), p - e, Kept', failed')
    <3>1. Kept' = Kept /\ failed' = failed
      BY <1>1 DEF Kept
    <3>2. GoesOnFrom(Rest(sent, e) \o text, p - e, Kept, failed)
      BY <2>1, <2>4, GoesOnGrows
    <3> QED
      BY <2>4, <3>1, <3>2
  <2>6. AfterEcho(p)'
    <3>1. started' /\ ~isDone' /\ (Waits' \/ ~failed')
      BY <1>1, <1>9 DEF AfterEcho, Waits
    <3> QED
      BY <2>3, <2>5, <3>1 DEF AfterEcho
  <2> QED
    BY <1>5, <1>6, <2>6 DEF ReadInv
<1> QED
  BY <1>4, <1>8, <1>9

\* What comes is cut into pieces, none of which has been read.
LEMMA PieceCuts == ASSUME CommandInv, kind \in Commands, CutPieces PROVE ReadInv'
<1> DEFINE pieces == SplitLines(chunk)
<1>1. /\ ReadInv /\ sent \in Texts /\ chunk \in Texts /\ chunk # <<>> /\ todo = <<>>
      /\ Behind(sent, chunk, Read)
      /\ todo' = pieces /\ chunk' = <<>>
      /\ UNCHANGED <<kind, sent, cache, isDone, started, failed>>
  BY DEF CommandInv, PieceInv, EventInv, SourceInv, PausedInv, OneChunk, CutPieces
<1>2. PICK p \in 0..Len(sent) : (~isDone => ReadTo(p)) /\ (BeforeEcho(p) \/ AfterEcho(p))
  BY <1>1 DEF ReadInv
<1>3. ~isDone /\ p = Read
  <2>1. ~isDone
    BY <1>1, <1>2 DEF BeforeEcho, AfterEcho, Idle
  <2> QED
    BY <1>1, <1>2, <2>1 DEF ReadTo
<1>4. \E n \in Nat \ {0} : DOMAIN pieces = 1..n /\ Len(pieces) = n
  BY <1>1, Pieces
<1>5. PICK n \in Nat \ {0} : DOMAIN pieces = 1..n /\ Len(pieces) = n
  BY <1>4
<1>6. ASSUME NEW k \in 1..n
      PROVE  \E a : /\ Stretch(sent, pieces[k], a) /\ Up(sent, a) = Up(sent, p) + (k - 1)
                    /\ k = 1 => a = p
                    /\ k # 1 => Begins(sent, a)
                    /\ k = Len(pieces) => a + Len(pieces[k]) = Len(sent)
                    /\ k # Len(pieces) => EndsLine(pieces[k])
  BY <1>1, <1>3, <1>5, PieceIsStretch
<1>7. pieces = [k \in 1..n |-> pieces[k]]
  BY <1>5 DEF SplitLines
<1> HIDE DEF pieces
<1>8. ASSUME NEW k \in 1..n
      PROVE  pieces[k] \in Texts /\ \E a \in 0..Len(sent) : LiesAt(pieces, p, k, a)
  <2>1. PICK a : /\ Stretch(sent, pieces[k], a) /\ Up(sent, a) = Up(sent, p) + (k - 1)
                 /\ k = 1 => a = p
                 /\ k # 1 => Begins(sent, a)
                 /\ k = Len(pieces) => a + Len(pieces[k]) = Len(sent)
                 /\ k # Len(pieces) => EndsLine(pieces[k])
    BY <1>6
  <2>2. LiesAt(pieces, p, k, a)
    BY <2>1 DEF LiesAt, EndsText
  <2>3. pieces[k] \in Texts /\ a \in Nat /\ a + Len(pieces[k]) <= Len(sent)
    BY <2>1 DEF Stretch, Lies
  <2>4. a \in 0..Len(sent)
    <3>1. Len(pieces[k]) \in Nat /\ Len(sent) \in Nat
      BY <1>1, <2>3 DEF Texts
    <3> QED
      BY <2>3, <3>1
  <2> QED
    BY <2>2, <2>3, <2>4
<1>9. IsSeq(pieces)
  <2>1. [k \in 1..n |-> pieces[k]] \in Seq(Texts)
    BY <1>8
  <2> QED
    BY <1>7, <2>1 DEF IsSeq
<1>10. ReadTo(p)'
  <2>1. todo' # <<>>
    <3>1. 1 \in DOMAIN pieces
      BY <1>5
    <3> QED
      BY <1>1, <3>1
  <2>2. \A k \in DOMAIN pieces : \E a \in 0..Len(sent) : LiesAt(pieces, p, k, a)
    BY <1>5, <1>8
  <2> QED
    BY <1>1, <1>9, <2>1, <2>2 DEF ReadTo, Placed, LiesAt
<1>11. BeforeEcho(p)' \/ AfterEcho(p)'
  <2>1. EchoEnds' = EchoEnds /\ Kept' = Kept /\ Waits' = Waits
    BY <1>1 DEF EchoEnds, Kept, Waits
  <2>2. CASE BeforeEcho(p)
    BY <1>1, <2>1, <2>2 DEF BeforeEcho
  <2>3. CASE AfterEcho(p)
    <3>1. \A e : Starts(e)' <=> Starts(e)
      BY <2>1 DEF Starts
    <3> QED
      BY <1>1, <1>3, <2>1, <2>3, <3>1 DEF AfterEcho
  <2> QED
    BY <1>2, <2>2, <2>3
<1> QED
  BY <1>1, <1>2, <1>10, <1>11 DEF ReadInv

\* What is kept is the line that has not ended; what was found is in the lines that have.
LEMMA GoesOnWhole ==
    ASSUME NEW t \in Texts, NEW kept, NEW fails, GoesOnFrom(t, Len(t), kept, fails)
    PROVE  /\ ~\E n \in LinesOf(t) : EndsAt(t, n)
           /\ fails <=> Found(t)
<1> DEFINE all == Up(t, Len(t))
<1>1. Len(t) \in Nat /\ Len(t) \in 0..Len(t) /\ all \in Nat
  <2>1. Len(t) \in Nat
    BY DEF Texts
  <2>2. Len(t) \in 0..Len(t)
    BY <2>1
  <2> QED
    BY <2>1, <2>2, UpSteps
<1>2. Newlines(t) = all
  BY SubSeqFull DEF Up, Texts
<1>3. LinesOf(t) = 1..(all + 1) /\ FullLinesOf(t) = 1..all
  BY <1>2 DEF LinesOf, FullLinesOf
<1>4. PICK b \in 0..Len(t) : Lies(t, kept, b) /\ b + Len(kept) = Len(t) /\ Begins(t, b)
  BY DEF GoesOnFrom
<1>5. /\ kept \in Seq(Tokens) /\ ~Has(kept, Prompt)
      /\ \A n \in 1..all : ~EndsAt(t, n)
      /\ fails <=> (\E n \in 1..all : FailsAt(t, n))
  BY DEF GoesOnFrom
<1>6. LineOf(t, all + 1) = kept
  <2>1. Ends(t, b + Len(kept))
    BY <1>4 DEF Ends
  <2>2. LineOf(t, Up(t, b) + 1) = kept
    BY <1>4, <1>5, <2>1, WholeLine
  <2>3. Up(t, b + Len(kept)) = Up(t, b)
    <3>1. Len(kept) \in 0..Len(kept)
      BY <1>5
    <3> QED
      BY <1>4, <1>5, <3>1, UpFlat
  <2> QED
    BY <1>4, <2>2, <2>3
<1> HIDE DEF all
<1>7. ~EndsAt(t, all + 1)
  BY <1>5, <1>6 DEF EndsAt
<1>8. \A n \in 1..(all + 1) : n \in 1..all \/ n = all + 1
  BY <1>1
<1>9. ~\E n \in LinesOf(t) : EndsAt(t, n)
  BY <1>3, <1>5, <1>7, <1>8
<1>10. \A n \in 1..all : \A m \in 1..n : m \in 1..all
  BY <1>1
<1>11. fails <=> Found(t)
  BY <1>3, <1>5, <1>10 DEF Found
<1> QED
  BY <1>9, <1>11

\* A device that has sent nothing has sent no line with the prompt.
LEMMA NothingFound ==
    /\ ~\E n \in LinesOf(<<>>) : EndsAt(<<>>, n)
    /\ ~Found(<<>>)
<1>1. PICK t : t = <<>>
  OBVIOUS
<1>2. t \in Texts /\ Len(t) = 0 /\ DOMAIN t = {}
  BY <1>1 DEF Texts
<1>3. Newlines(t) = 0
  <2>1. Up(t, 0) = 0
    BY <1>2, UpSteps
  <2>2. SubSeq(t, 1, Len(t)) = t
    BY <1>2, SubSeqFull DEF Texts
  <2> QED
    BY <1>2, <2>1, <2>2 DEF Up
<1>4. LinesOf(t) = {1} /\ FullLinesOf(t) = {}
  BY <1>3 DEF LinesOf, FullLinesOf
<1>5. LineOf(t, 1) = <<>>
  BY <1>2 DEF LineOf
<1>6. ~EndsAt(t, 1)
  BY <1>5, PromptAssumption, NothingInEmpty DEF EndsAt
<1> QED
  BY <1>1, <1>4, <1>6 DEF Found

LEMMA PieceIsWhole == ASSUME CommandInv PROVE CommandIsWhole
<1>1. SUFFICES ASSUME kind \in Commands, Idle
      PROVE  /\ started = (EchoEnds # {})
             /\ failed = Found(Output)
             /\ isDone = ((\E n \in LinesOf(Output) : EndsAt(Output, n))
                          \/ (kind = "command" /\ Found(Output)))
  BY DEF CommandIsWhole, Found, EndsAt, FailsAt
<1>2. /\ ReadInv /\ sent \in Texts /\ chunk = <<>> /\ todo = <<>>
      /\ started \in BOOLEAN /\ failed \in BOOLEAN /\ isDone \in BOOLEAN
  BY <1>1 DEF CommandInv, PieceInv, EventInv, SourceInv, Idle
<1>3. PICK p \in 0..Len(sent) : (~isDone => ReadTo(p)) /\ (BeforeEcho(p) \/ AfterEcho(p))
  BY <1>2 DEF ReadInv
<1>4. ~isDone => p = Len(sent)
  <2>1. Len(sent) \in Nat
    BY <1>2 DEF Texts
  <2>2. Read = Len(sent)
    BY <1>2, <2>1 DEF Read
  <2> QED
    BY <1>2, <1>3, <2>2 DEF ReadTo
<1>5. EchoEnds \in SUBSET (1..Len(sent)) /\ Len(sent) \in Nat
  BY <1>2, EchoEndsAre DEF Texts
<1>6. CASE BeforeEcho(p)
  <2>1. ~isDone /\ ~started /\ ~failed
    BY <1>6 DEF BeforeEcho
  <2>2. EchoEnds = {}
    <3>1. \A i \in EchoEnds : i > Len(sent) /\ i \in 1..Len(sent)
      BY <1>4, <1>5, <1>6, <2>1 DEF BeforeEcho
    <3>2. \A i \in 1..Len(sent) : ~(i > Len(sent))
      BY <1>5
    <3> QED
      BY <3>1, <3>2
  <2>3. Output = <<>>
    BY <2>2 DEF Output
  <2>4. ~(\E n \in LinesOf(Output) : EndsAt(Output, n)) /\ ~Found(Output)
    BY <2>3, NothingFound
  <2> QED
    BY <1>2, <2>1, <2>2, <2>4 DEF Found
<1>7. CASE AfterEcho(p)
  <2>1. PICK e \in 0..p : /\ Starts(e)
                          /\ ~isDone => GoesOnFrom(Rest(sent, e), p - e, Kept, failed)
                          /\ isDone => IsOver(Rest(sent, e), failed, Waits)
    BY <1>7 DEF AfterEcho
  <2>2. EchoEnds # {} /\ e \in EchoEnds /\ \A i \in EchoEnds : e <= i
    BY <2>1 DEF Starts
  <2>3. Min(EchoEnds) = e
    <3>1. Min(EchoEnds) \in EchoEnds /\ \A i \in EchoEnds : Min(EchoEnds) <= i
      BY <1>5, <2>2, Extremes
    <3>2. PICK x : x = Min(EchoEnds)
      OBVIOUS
    <3>3. x <= e /\ e <= x
      BY <2>2, <3>1, <3>2
    <3>4. e \in Nat /\ x \in Nat
      <4>1. \A i \in 1..Len(sent) : i \in Nat
        BY <1>5
      <4>2. x \in EchoEnds /\ e \in EchoEnds
        BY <2>2, <3>1, <3>2
      <4> QED
        BY <1>5, <4>1, <4>2
    <3> QED
      BY <3>2, <3>3, <3>4
  <2>4. PICK t : t = Rest(sent, e)
    OBVIOUS
  <2>5. Output = t
    BY <2>2, <2>3, <2>4 DEF Output, Rest
  <2>6. started /\ (~isDone => Waits \/ ~failed)
    BY <1>7 DEF AfterEcho
  <2>7. CASE isDone
    <3>1. IsOver(t, failed, Waits)
      BY <2>1, <2>4, <2>7
    <3>2. /\ failed <=> Found(t)
          /\ (\E n \in LinesOf(t) : EndsAt(t, n)) \/ (kind = "command" /\ Found(t))
      BY <3>1 DEF IsOver, Waits
    <3> QED
      BY <1>2, <2>2, <2>5, <2>6, <2>7, <3>2 DEF Found
  <2>8. CASE ~isDone
    <3>1. e \in 0..Len(sent)
      BY <1>5, <2>2
    <3>2. t \in Texts /\ Len(t) = p - e
      BY <1>2, <1>4, <2>4, <2>8, <3>1, RestIs
    <3>3. GoesOnFrom(t, Len(t), Kept, failed)
      BY <2>1, <2>4, <2>8, <3>2
    <3>4. ~(\E n \in LinesOf(t) : EndsAt(t, n)) /\ (failed <=> Found(t))
      BY <3>2, <3>3, GoesOnWhole
    <3>5. ~(kind = "command" /\ failed)
      BY <2>6, <2>8 DEF Waits
    <3> QED
      BY <1>2, <2>2, <2>5, <2>6, <2>8, <3>4, <3>5 DEF Found
  <2> QED
    BY <2>7, <2>8
<1> QED
  BY <1>3, <1>6, <1>7

-----------------------------------------------------------------------------
(* A command looks at a piece.                                              *)

\* The line that is completed ends as the piece does.
LEMMA StrippedJoined ==
    ASSUME NEW w \in Seq(Tokens), NEW q \in Texts, q # <<>>
    PROVE  (IsFull(w \o q) <=> IsFull(q)) /\ Stripped(w \o q) = w \o Stripped(q)
<1>1. w \in Seq(Marks) /\ q \in Seq(Marks)
  BY TextsAreMarks
<1>2. w \o q # <<>> /\ Last(w \o q) = Last(q) /\ Front(w \o q) = w \o Front(q)
  BY <1>1, EndOfConcat
<1>3. IsFull(w \o q) <=> IsFull(q)
  BY <1>2 DEF IsFull
<1> QED
  BY <1>2, <1>3 DEF Stripped

LEMMA CompletedIs ==
    ASSUME NEW q \in Texts
    PROVE  Completed(cache, q) = Kept \o q
<1>1. <<>> \o q = q
  BY ConcatEmptySeq DEF Texts
<1> QED
  BY <1>1 DEF Completed, Kept

\* The line that the piece q completes.
Joins(line, kept, q) == line = kept \o q

\* A line of the output is completed and, if it has not ended, kept.
LEMMA LineIsRead ==
    ASSUME NEW t \in Texts, NEW r, NEW kept, NEW fails \in BOOLEAN, GoesOnFrom(t, r, kept, fails),
           NEW q, Stretch(t, q, r), EndsText(t, q, r) \/ EndsLine(q),
           NEW line, Joins(line, kept, q), NEW waits \in BOOLEAN,
           NEW ends \in BOOLEAN, ends <=> Has(Stripped(line), Prompt),
           NEW now \in BOOLEAN, now <=> (~ends /\ IsFull(line) /\ Has(Stripped(line), Failure))
    PROVE  /\ ends \/ (now /\ ~waits) => IsOver(t, fails \/ now, waits)
           /\ ~ends => GoesOnFrom(t, r + Len(q), IF IsFull(line) THEN <<>> ELSE line, fails \/ now)
<1> DEFINE all == Up(t, Len(t))
           n == Up(t, r) + 1
           next == r + Len(q)
<1>1. PICK b \in 0..Len(t) : Lies(t, kept, b) /\ b + Len(kept) = r /\ Begins(t, b)
  BY DEF GoesOnFrom
<1>2. /\ kept \in Seq(Tokens) /\ ~Has(kept, Prompt) /\ r \in 0..Len(t)
      /\ \A m \in 1..Up(t, r) : ~EndsAt(t, m)
      /\ fails <=> (\E m \in 1..Up(t, r) : FailsAt(t, m))
  BY DEF GoesOnFrom
<1>3. /\ Stretch(t, line, b) /\ Up(t, b) = Up(t, r) /\ b + Len(line) = next
      /\ EndsLine(q) => EndsLine(line)
  BY <1>1, <1>2, StretchIsJoined DEF Joins
<1>4. EndsText(t, line, b) \/ EndsLine(line)
  BY <1>3 DEF EndsText
<1>5. /\ Stripped(line) = LineOf(t, n)
      /\ n <= all => IsFull(line)
      /\ IsFull(line) => Begins(t, next) /\ Up(t, next) = n
      /\ ~IsFull(line) => /\ line \in Seq(Tokens) /\ Stripped(line) = line
                          /\ EndsText(t, line, b) /\ Up(t, next) = Up(t, r)
  <2>1. /\ Stripped(line) = LineOf(t, Up(t, b) + 1)
        /\ Up(t, b) + 1 <= Up(t, Len(t)) => IsFull(line)
        /\ IsFull(line) => /\ Begins(t, b + Len(line))
                           /\ Up(t, b + Len(line)) = Up(t, b) + 1
        /\ ~IsFull(line) => line \in Seq(Tokens) /\ EndsText(t, line, b)
    <3>1. Stretch(t, line, b) /\ Begins(t, b)
      BY <1>1, <1>3
    <3> QED
      BY <1>4, <3>1, StretchEnds
  <2>2. ~IsFull(line) => Stripped(line) = line /\ Up(t, b + Len(line)) = Up(t, b)
    BY <1>3, StripIs
  <2> QED
    BY <1>3, <2>1, <2>2
<1>6. /\ Len(t) \in Nat /\ next \in 0..Len(t) /\ Len(t) \in 0..Len(t)
      /\ next <= Len(t) /\ r <= Len(t)
  <2>1. /\ Len(t) \in Nat /\ q \in Texts /\ r + Len(q) <= Len(t)
    BY DEF Stretch, Lies, Texts
  <2>2. Len(q) \in Nat
    BY <2>1 DEF Texts
  <2> QED
    BY <1>2, <2>1, <2>2
<1>7. /\ all \in Nat /\ Up(t, r) \in Nat /\ n \in Nat /\ n >= 1 /\ Up(t, r) <= all
      /\ Up(t, next) <= all /\ (IsFull(line) => n <= all)
  <2>1. all \in Nat /\ Up(t, r) \in Nat /\ Up(t, r) <= all /\ Up(t, next) <= all
    BY <1>2, <1>6, UpSteps, UpRises
  <2> QED
    BY <1>5, <2>1
<1>8. LinesOf(t) = 1..(all + 1) /\ FullLinesOf(t) = 1..all
  <2>1. Newlines(t) = all
    BY SubSeqFull DEF Up, Texts
  <2> QED
    BY <2>1 DEF LinesOf, FullLinesOf
<1>9. /\ ends <=> EndsAt(t, n)
      /\ now <=> (~ends /\ IsFull(line) /\ FailsAt(t, n))
  BY <1>5 DEF EndsAt, FailsAt
<1>10. \A m \in 1..n : m \in 1..Up(t, r) \/ m = n
  BY <1>7
<1>11. \A m \in 1..Up(t, r) : m \in 1..all /\ \A k \in 1..m : k \in 1..Up(t, r)
  BY <1>7
<1> HIDE DEF all, n, next
<1>12. CASE ends
  <2>1. n \in LinesOf(t) /\ EndsAt(t, n)
    BY <1>7, <1>8, <1>9, <1>12 DEF n
  <2>2. ~now
    BY <1>9, <1>12
  <2>3. ASSUME Found(t) PROVE fails
    <3>1. PICK m \in 1..all : FailsAt(t, m) /\ \A k \in 1..m : ~EndsAt(t, k)
      BY <1>8, <2>3 DEF Found
    <3>2. ~(n <= m)
      <4>1. n \in 1..m => ~EndsAt(t, n)
        BY <3>1
      <4> QED
        BY <1>7, <2>1, <4>1
    <3>3. m \in 1..Up(t, r)
      BY <1>7, <3>2 DEF n
    <3> QED
      BY <1>2, <3>1, <3>3
  <2>4. ASSUME fails PROVE Found(t)
    <3>1. PICK m \in 1..Up(t, r) : FailsAt(t, m)
      BY <1>2, <2>4
    <3>2. m \in 1..all /\ \A k \in 1..m : ~EndsAt(t, k)
      BY <1>2, <1>11
    <3> QED
      BY <1>8, <3>1, <3>2 DEF Found
  <2>5. IsOver(t, fails \/ now, waits)
    BY <2>1, <2>2, <2>3, <2>4 DEF IsOver
  <2> QED
    BY <1>12, <2>5
<1>13. CASE ~ends
  <2>1. \A m \in 1..n : ~EndsAt(t, m)
    BY <1>2, <1>9, <1>10, <1>13
  <2>2. ASSUME now, ~waits PROVE IsOver(t, fails \/ now, waits)
    <3>1. n \in 1..all /\ FailsAt(t, n)
      BY <1>7, <1>9, <2>2
    <3>2. Found(t)
      BY <1>8, <2>1, <3>1 DEF Found
    <3> QED
      BY <2>2, <3>2 DEF IsOver
  <2>3. GoesOnFrom(t, next, IF IsFull(line) THEN <<>> ELSE line, fails \/ now)
    <3>1. CASE IsFull(line)
      <4>1. PICK w : w = <<>>
        OBVIOUS
      <4>2. w \in Seq(Tokens) /\ ~Has(w, Prompt) /\ Len(w) = 0
        BY <4>1, PromptAssumption, NothingInEmpty
      <4>3. Lies(t, w, next) /\ next + Len(w) = next
        BY <1>6, <4>2 DEF Lies
      <4>4. Up(t, next) = n /\ Begins(t, next)
        BY <1>5, <3>1
      <4>5. (fails \/ now) <=> (\E m \in 1..n : FailsAt(t, m))
        <5>1. \A m \in 1..Up(t, r) : m \in 1..n
          BY <1>7 DEF n
        <5>2. n \in 1..n
          BY <1>7
        <5> QED
          BY <1>2, <1>9, <1>10, <1>13, <3>1, <5>1, <5>2
      <4>6. GoesOnFrom(t, next, w, fails \/ now)
        BY <1>6, <2>1, <4>2, <4>3, <4>4, <4>5 DEF GoesOnFrom
      <4> QED
        BY <3>1, <4>1, <4>6
    <3>2. CASE ~IsFull(line)
      <4>1. line \in Seq(Tokens) /\ Stripped(line) = line /\ Up(t, next) = Up(t, r)
        BY <1>5, <3>2
      <4>2. ~Has(line, Prompt) /\ ~now
        BY <1>9, <1>13, <3>2, <4>1
      <4>3. Lies(t, line, b)
        BY <1>3 DEF Stretch
      <4>4. GoesOnFrom(t, next, line, fails \/ now)
        BY <1>1, <1>2, <1>3, <1>6, <4>1, <4>2, <4>3 DEF GoesOnFrom
      <4> QED
        BY <3>2, <4>4
    <3> QED
      BY <3>1, <3>2
  <2> QED
    BY <1>13, <2>2, <2>3 DEF next
<1> QED
  BY <1>12, <1>13

\* A piece that ends the first full line with the echo starts the output; another is joined to what
\* was read.
LEMMA EchoIsSought ==
    ASSUME sent \in Texts, NEW p \in 0..Len(sent), BeforeEcho(p),
           NEW q, Stretch(sent, q, p), p + Len(q) \in 0..Len(sent),
           NEW line, line = Completed(cache, q), DetectStart(line), UNCHANGED <<kind, sent>>
    PROVE  /\ started' \in BOOLEAN /\ failed' = failed /\ ~isDone'
           /\ BeforeEcho(p + Len(q))' \/ AfterEcho(p + Len(q))'
<1> DEFINE b == p + Len(q)
           read == WithoutNewlines(SubSeq(sent, 1, b))
           found == IsFull(line) /\ Has(Stripped(line), Echo)
<1>1. /\ ~started /\ ~failed /\ ~isDone /\ Kept = WithoutNewlines(SubSeq(sent, 1, p))
      /\ \A i \in EchoEnds : i > p
  BY DEF BeforeEcho
<1>2. /\ started' = found /\ cache' = (IF found THEN None ELSE Stripped(line))
      /\ failed' = failed /\ isDone' = isDone
  BY DEF DetectStart
<1>3. q \in Texts /\ q # <<>> /\ Len(q) \in Nat /\ Len(q) >= 1 /\ p \in Nat /\ Len(sent) \in Nat
  BY EmptySeq DEF Stretch, Texts
<1>4. b \in 1..Len(sent) /\ b \in 0..b /\ b \in 0..Len(sent) /\ b \in Nat
  BY <1>3
<1>5. Kept \in Seq(Tokens) /\ read \in Seq(Tokens)
  <2>1. SubSeq(sent, 1, p) \in Texts /\ SubSeq(sent, 1, b) \in Texts
    BY <1>4, PrefixIs
  <2> QED
    BY <1>1, <2>1, LeftOver
<1>6. (IsFull(line) <=> IsFull(q)) /\ Stripped(line) = read
  <2>1. line = Kept \o q
    BY <1>3, CompletedIs
  <2>2. (IsFull(Kept \o q) <=> IsFull(q)) /\ Stripped(Kept \o q) = Kept \o Stripped(q)
    BY <1>3, <1>5, StrippedJoined
  <2>3. read = Kept \o Stripped(q)
    BY <1>1, JoinedIs
  <2> HIDE DEF read
  <2> QED
    BY <2>1, <2>2, <2>3
<1>7. (IsFull(q) <=> sent[b] = Newline) /\ \A i \in (p + 1)..(b - 1) : sent[i] # Newline
  <2>1. /\ \A i \in (p + 1)..(p + Len(q) - 1) : sent[i] # Newline
        /\ IsFull(q) => sent[p + Len(q)] = Newline
        /\ ~IsFull(q) => sent[p + Len(q)] # Newline
    BY StripIs
  <2> QED
    BY <2>1
<1>8. found <=> b \in EchoEnds
  <2>1. b \in DOMAIN sent
    BY <1>4 DEF Texts
  <2> QED
    BY <1>6, <1>7, <2>1 DEF EchoEnds
<1>9. ASSUME NEW i \in EchoEnds PROVE b <= i
  <2>1. i \in 1..Len(sent) /\ sent[i] = Newline /\ i > p
    BY <1>1, EchoEndsAre
  <2>2. i \notin (p + 1)..(b - 1)
    BY <1>7, <2>1
  <2> HIDE DEF b
  <2> QED
    BY <1>3, <1>4, <2>1, <2>2
<1>10. EchoEnds' = EchoEnds /\ sent' = sent
  BY DEF EchoEnds
<1>11. started' \in BOOLEAN /\ ~isDone' /\ ~failed' /\ failed' = failed
  BY <1>1, <1>2
<1> HIDE DEF b, read, found
<1>12. CASE found
  <2>1. started' /\ cache' = None
    BY <1>2, <1>12
  <2>2. Starts(b)'
    BY <1>8, <1>9, <1>10, <1>12 DEF Starts
  <2> DEFINE t == Rest(sent, b)
  <2>3. t \in Texts /\ Len(t) \in Nat
    BY <1>4, RestIs DEF Texts
  <2> HIDE DEF t
  <2>4. GoesOnFrom(t, 0, Kept', failed')
    <3>1. PICK w : w = Kept'
      OBVIOUS
    <3>2. w = <<>>
      BY <2>1, <3>1 DEF Kept
    <3>3. w \in Seq(Tokens) /\ Len(w) = 0 /\ ~Has(w, Prompt)
      BY <3>2, PromptAssumption, NothingInEmpty
    <3>4. 0 \in 0..Len(t) /\ Lies(t, w, 0) /\ 0 + Len(w) = 0 /\ Begins(t, 0)
      BY <2>3, <3>3 DEF Lies, Begins
    <3>5. \A n \in 1..Up(t, 0) : FALSE
      BY <2>3, UpSteps
    <3>6. GoesOnFrom(t, 0, w, failed')
      BY <1>11, <3>3, <3>4, <3>5 DEF GoesOnFrom
    <3> QED
      BY <3>1, <3>6
  <2>5. b - b = 0
    BY <1>4
  <2>6. AfterEcho(b)'
    BY <1>4, <1>10, <1>11, <2>1, <2>2, <2>4, <2>5 DEF AfterEcho, t
  <2> QED
    BY <1>11, <2>6 DEF b
<1>13. CASE ~found
  <2>1. ~started' /\ cache' = read
    BY <1>2, <1>6, <1>13
  <2>2. Kept' = read
    <3>1. read # None
      BY <1>5, NoneAssumption
    <3> QED
      BY <2>1, <3>1 DEF Kept
  <2>3. ASSUME NEW i \in EchoEnds PROVE i > b
    <3>1. b <= i /\ i # b /\ i \in 1..Len(sent)
      BY <1>8, <1>9, <1>13, EchoEndsAre
    <3> QED
      BY <1>4, <3>1
  <2>4. BeforeEcho(b)'
    BY <1>10, <1>11, <2>1, <2>2, <2>3 DEF BeforeEcho, read
  <2> QED
    BY <1>11, <2>4 DEF b
<1> QED
  BY <1>12, <1>13

\* A line of the output ends the command, or it goes on.
LEMMA OutputIsRead ==
    ASSUME sent \in Texts, NEW p \in 0..Len(sent), AfterEcho(p), ~isDone, failed \in BOOLEAN,
           NEW q, Stretch(sent, q, p), EndsText(sent, q, p) \/ EndsLine(q),
           NEW line, line = Completed(cache, q), OnNewLine(line), UNCHANGED <<kind, sent>>,
           isDone' => Idle'
    PROVE  /\ started' = started /\ failed' \in BOOLEAN /\ isDone' \in BOOLEAN
           /\ AfterEcho(p + Len(q))'
<1> DEFINE b == p + Len(q)
           ends == Has(Stripped(line), Prompt)
           now == ~ends /\ IsFull(line) /\ Has(Stripped(line), Failure)
<1>1. /\ failed' = (failed \/ now) /\ isDone' = (ends \/ (now /\ kind = "command"))
      /\ cache' = KeptOf(line) /\ started' = started
  BY DEF OnNewLine
<1>2. PICK e \in 0..p : Starts(e) /\ GoesOnFrom(Rest(sent, e), p - e, Kept, failed)
  BY DEF AfterEcho
<1>3. started /\ (Waits \/ ~failed)
  BY DEF AfterEcho
<1>4. /\ q \in Texts /\ Len(q) \in Nat /\ p \in Nat /\ e \in 0..Len(sent) /\ e <= p /\ e \in Nat
      /\ e \in 0..b /\ (p - e) + Len(q) = b - e
  <2>1. q \in Texts /\ Len(q) \in Nat /\ Len(sent) \in Nat
    BY DEF Stretch, Texts
  <2> QED
    BY <2>1
<1>5. PICK t \in Texts : t = Rest(sent, e) /\ Behind(sent, t, e)
  BY <1>4, RestIs
<1>6. Stretch(t, q, p - e) /\ (EndsText(t, q, p - e) \/ EndsLine(q))
  BY <1>4, <1>5, StretchBehind
<1>7. Joins(line, Kept, q)
  BY <1>4, CompletedIs DEF Joins
<1>8. GoesOnFrom(t, p - e, Kept, failed)
  BY <1>2, <1>5
<1>9. Waits \in BOOLEAN /\ Waits' = Waits /\ (Waits <=> kind # "command")
  BY DEF Waits
<1>10. Kept \in Seq(Tokens)
  BY <1>8 DEF GoesOnFrom
<1>11. ends \in BOOLEAN /\ now \in BOOLEAN
  BY DEF Has
<1>12. /\ ends \/ (now /\ ~Waits) => IsOver(t, failed \/ now, Waits)
       /\ ~ends => GoesOnFrom(t, b - e, IF IsFull(line) THEN <<>> ELSE line, failed \/ now)
  <2>1. PICK f, g : f = ends /\ g = now
    OBVIOUS
  <2>2. /\ f \in BOOLEAN /\ g \in BOOLEAN /\ (f <=> Has(Stripped(line), Prompt))
        /\ g <=> (~f /\ IsFull(line) /\ Has(Stripped(line), Failure))
    BY <1>11, <2>1
  <2>3. PICK r : r = p - e
    OBVIOUS
  <2>4. /\ f \/ (g /\ ~Waits) => IsOver(t, failed \/ g, Waits)
        /\ ~f => GoesOnFrom(t, r + Len(q), IF IsFull(line) THEN <<>> ELSE line, failed \/ g)
    BY <1>6, <1>7, <1>8, <1>9, <2>2, <2>3, LineIsRead
  <2>5. r + Len(q) = b - e
    BY <1>4, <2>3
  <2> HIDE DEF ends, now, b
  <2> QED
    BY <2>1, <2>4, <2>5
<1> HIDE DEF ends, now, b
<1>13. Starts(e)' /\ Rest(sent', e) = t
  <2>1. EchoEnds' = EchoEnds
    BY DEF EchoEnds
  <2> QED
    BY <1>2, <1>5, <2>1 DEF Starts
<1>14. failed' \in BOOLEAN /\ isDone' \in BOOLEAN /\ (isDone' <=> ends \/ (now /\ ~Waits))
  BY <1>1, <1>9, <1>11
<1>15. ASSUME ~isDone' PROVE GoesOnFrom(t, b - e, Kept', failed') /\ (Waits' \/ ~failed')
  <2>1. ~ends /\ (Waits \/ ~now)
    BY <1>14, <1>15
  <2>2. Waits' \/ ~failed'
    BY <1>1, <1>3, <1>9, <2>1
  <2>3. GoesOnFrom(t, b - e, IF IsFull(line) THEN <<>> ELSE line, failed')
    BY <1>1, <1>12, <2>1
  <2>4. Kept' = IF IsFull(line) THEN <<>> ELSE line
    <3>1. CASE IsFull(line)
      BY <1>1, <3>1 DEF Kept, KeptOf
    <3>2. CASE ~IsFull(line)
      <4>1. line \in Seq(Tokens)
        BY <2>3, <3>2 DEF GoesOnFrom
      <4>2. line # None
        BY <4>1, NoneAssumption
      <4> QED
        BY <1>1, <3>2, <4>2 DEF Kept, KeptOf
    <3> QED
      BY <3>1, <3>2
  <2> QED
    BY <2>2, <2>3, <2>4
<1>16. ASSUME isDone' PROVE IsOver(t, failed', Waits')
  BY <1>1, <1>9, <1>12, <1>14, <1>16
<1>17. AfterEcho(b)'
  BY <1>1, <1>3, <1>4, <1>13, <1>15, <1>16 DEF AfterEcho
<1> QED
  BY <1>1, <1>14, <1>17 DEF b

LEMMA PieceIsProcessed ==
    ASSUME CommandInv, kind \in Commands, ProcessPiece
    PROVE  /\ started' \in BOOLEAN /\ failed' \in BOOLEAN /\ isDone' \in BOOLEAN
           /\ ReadInv'
<1>1. /\ ReadInv /\ sent \in Texts /\ todo # <<>> /\ chunk = <<>> /\ chunk' = <<>>
      /\ started \in BOOLEAN /\ failed \in BOOLEAN /\ isDone \in BOOLEAN
      /\ UNCHANGED <<kind, sent>>
  BY DEF CommandInv, PieceInv, EventInv, SourceInv, PausedInv, OneChunk, ProcessPiece
<1>2. PICK q, rest : q = Head(todo) /\ rest = Tail(todo)
  OBVIOUS
<1>3. PICK line : line = Completed(cache, q)
  OBVIOUS
<1>4. /\ IF started THEN OnNewLine(line) ELSE DetectStart(line)
      /\ todo' = IF isDone' THEN <<>> ELSE rest
  BY <1>2, <1>3 DEF ProcessPiece
<1>5. PICK p \in 0..Len(sent) : (~isDone => ReadTo(p)) /\ (BeforeEcho(p) \/ AfterEcho(p))
  BY <1>1 DEF ReadInv
<1>6. ~isDone
  BY <1>1, <1>5 DEF BeforeEcho, AfterEcho, Idle
<1>7. IsSeq(todo) /\ Placed(todo, p)
  BY <1>5, <1>6 DEF ReadTo
<1>8. /\ Stretch(sent, q, p)
      /\ EndsText(sent, q, p) \/ EndsLine(q)
      /\ p + Len(q) \in 0..Len(sent)
      /\ rest = <<>> => p + Len(q) = Len(sent)
      /\ IsSeq(rest) /\ Placed(rest, p + Len(q))
  BY <1>1, <1>2, <1>7, PieceIsRead
<1>9. PICK b : b = p + Len(q)
  OBVIOUS
<1>10. ASSUME ~isDone' PROVE ReadTo(b)'
  <2>1. todo' = rest /\ sent' = sent
    BY <1>1, <1>4, <1>10
  <2>2. Read' = Len(sent)
    <3>1. Len(<<>>) = 0 /\ Len(sent) \in Nat
      BY <1>1 DEF Texts
    <3> QED
      BY <1>1, <3>1 DEF Read
  <2>3. Placed(rest, b)'
    BY <1>1, <1>8, <1>9 DEF Placed, LiesAt
  <2>4. b \in 0..Len(sent) /\ (rest = <<>> => b = Len(sent)) /\ IsSeq(rest)
    BY <1>8, <1>9
  <2>5. Placed(todo, b)'
    BY <2>1, <2>3 DEF Placed, LiesAt
  <2>6. IsSeq(todo)'
    BY <2>1, <2>4 DEF IsSeq
  <2> QED
    BY <2>1, <2>2, <2>4, <2>5, <2>6 DEF ReadTo
<1>11. isDone' => Idle'
  BY <1>1, <1>4 DEF Idle
<1>12. ASSUME isDone' \in BOOLEAN, BeforeEcho(b)' \/ AfterEcho(b)' PROVE ReadInv'
  <2>1. b \in 0..Len(sent')
    BY <1>1, <1>8, <1>9
  <2> QED
    BY <1>10, <1>12, <2>1 DEF ReadInv
<1>13. CASE BeforeEcho(p)
  <2>1. DetectStart(line)
    BY <1>4, <1>13 DEF BeforeEcho
  <2>2. /\ started' \in BOOLEAN /\ failed' = failed /\ ~isDone'
        /\ BeforeEcho(p + Len(q))' \/ AfterEcho(p + Len(q))'
    BY <1>1, <1>3, <1>8, <1>13, <2>1, EchoIsSought
  <2>3. BeforeEcho(b)' \/ AfterEcho(b)'
    BY <1>9, <2>2
  <2>4. isDone' \in BOOLEAN
    BY <1>1, <2>1 DEF DetectStart
  <2> QED
    BY <1>1, <1>12, <2>2, <2>3, <2>4
<1>14. CASE AfterEcho(p)
  <2>1. OnNewLine(line)
    BY <1>4, <1>14 DEF AfterEcho
  <2>2. /\ started' = started /\ failed' \in BOOLEAN /\ isDone' \in BOOLEAN
        /\ AfterEcho(p + Len(q))'
    BY <1>1, <1>3, <1>6, <1>8, <1>11, <1>14, <2>1, OutputIsRead
  <2>3. AfterEcho(b)'
    BY <1>9, <2>2
  <2> QED
    BY <1>1, <1>12, <2>2, <2>3
<1> QED
  BY <1>5, <1>13, <1>14

LEMMA CommandNext == ASSUME CommandInv, [Next]_vars PROVE CommandInv'
<1>1. EventInv'
  BY EventNext DEF CommandInv
<1>2. kind' = kind
  BY DEF Next, Receive, CutLines, ProcessLine, CutPieces, ProcessPiece, Pause, PauseCutsLines,
         Resume, vars
<1>3. SUFFICES ASSUME kind \in Commands
      PROVE  /\ left' = 0 /\ ~paused'
             /\ started' \in BOOLEAN /\ failed' \in BOOLEAN /\ isDone' \in BOOLEAN
             /\ ReadInv'
  BY <1>1, <1>2 DEF CommandInv, PieceInv
<1>4. /\ left = 0 /\ ~paused /\ ReadInv /\ kind \notin Events
      /\ started \in BOOLEAN /\ failed \in BOOLEAN /\ isDone \in BOOLEAN
  BY <1>3, CommandsAreNoEvents DEF CommandInv, PieceInv
<1>5. CASE Receive
  <2>1. UNCHANGED <<left, paused, started, failed, isDone>>
    BY <1>5 DEF Receive
  <2> QED
    BY <1>3, <1>4, <1>5, <2>1, PieceReceives
<1>6. CASE CutPieces
  <2>1. UNCHANGED <<left, paused, started, failed, isDone>>
    BY <1>6 DEF CutPieces
  <2> QED
    BY <1>3, <1>4, <1>6, <2>1, PieceCuts
<1>7. CASE ProcessPiece
  <2>1. UNCHANGED <<left, paused>>
    BY <1>7 DEF ProcessPiece
  <2> QED
    BY <1>3, <1>4, <1>7, <2>1, PieceIsProcessed
<1>8. CASE CutLines \/ ProcessLine \/ PauseCutsLines
  BY <1>4, <1>8 DEF CutLines, ProcessLine, PauseCutsLines
<1>9. CASE Pause
  BY <1>4, <1>9 DEF Pause, Pausing
<1>10. CASE Resume
  BY <1>4, <1>10 DEF Resume
<1>11. CASE UNCHANGED vars
  <2>1. UNCHANGED <<left, paused, kind, sent, chunk, cache, todo, isDone, started, failed>>
    BY <1>11 DEF vars
  <2> QED
    BY <1>4, <2>1, ReadRests
<1> QED
  BY <1>5, <1>6, <1>7, <1>8, <1>9, <1>10, <1>11 DEF Next

\* Where the text is cut does not matter to a command (data_received, _detect_start_of_cmd_output
\* and on_new_line): it is done when its echo has been found in the lines joined up to a full one,
\* and then a prompt in a line (or, if it does not wait for the prompt, a failure in a full line);
\* and it has failed when a failure was found in a full line before the prompt; for every text,
\* every cut of it into chunks, every echo, prompt and failure.
THEOREM CutsDoNotMatter == Spec => []CommandIsWhole
<1>1. Init => CommandInv
  BY EventInit, PieceInit DEF CommandInv
<1>2. CommandInv /\ [Next]_vars => CommandInv'
  BY CommandNext
<1>3. CommandInv => CommandIsWhole
  BY PieceIsWhole
<1> QED
  BY <1>1, <1>2, <1>3, PTL DEF Spec
=============================================================================
