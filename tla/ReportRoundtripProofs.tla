------------------------ MODULE ReportRoundtripProofs ------------------------
(***************************************************************************)
(* Theorems about ReportRoundtrip for any number of attempts, any answers  *)
(* and reports, and any way a roundtrip is configured to end; and first,   *)
(* about PromptExtraction for any response: what the scan finds is what is *)
(* there by a definition of the blocks that does not scan.                 *)
(***************************************************************************)
EXTENDS ReportRoundtrip, FiniteSetTheorems, SequenceTheorems, WellFoundedInduction, TLAPS

-----------------------------------------------------------------------------
(***************************************************************************)
(* The extraction.  Nothing is said about a function defined by recursion  *)
(* until it is shown that one exists; what a scan of the first i lines has *)
(* established is shown for the least i for which it could fail.           *)
(***************************************************************************)

(* The text of a line.  Those of Foreign are named because the provers     *)
(* know of no literal that it is in STRING.                                *)
Line == STRING \cup {"tagged", "hot", "bare"}

(* A set of numbers has a least one.                                       *)
LEMMA LeastIsThere ==
    ASSUME NEW S \in SUBSET Nat, S # {} PROVE \E n \in S : \A m \in S : n <= m
  <1> DEFINE R == {p \in Nat \X Nat : p[1] < p[2]}
  <1>1. IsWellFoundedOn(R, Nat)
    BY NatLessThanWellFounded, Zenon DEF OpToRel
  <1>2. PICK n \in S : \A m \in S : <<m, n>> \notin R
    <2> HIDE DEF R
    <2> QED BY <1>1, WFMin
  <1>3. \A m \in S : ~(m < n)
    BY <1>2
  <1> QED BY <1>3

LEMMA ScanUnfolds ==
    ASSUME NEW lines \in Seq(Line)
    PROVE  Scan(lines) = [i \in 0..Len(lines) |->
                              IF i = 0 THEN Outside ELSE ScanLine(Scan(lines)[i - 1], lines, i)]
  <1> DEFINE From(g, n) == g = [i \in 0..n |->
                                  IF i = 0 THEN Outside ELSE ScanLine(g[i - 1], lines, i)]
             Bad == {n \in Nat : ~\E g : From(g, n)}
  <1>1. ASSUME Bad # {} PROVE FALSE
    <2>1. PICK n \in Bad : \A m \in Bad : n <= m
      <3>1. Bad \in SUBSET Nat
        OBVIOUS
      <3> HIDE DEF Bad
      <3> QED BY <1>1, <3>1, LeastIsThere
    <2>2. n # 0
      <3>1. From([i \in 0..0 |-> Outside], 0)
        OBVIOUS
      <3> QED BY <2>1, <3>1
    <2>3. n \in Nat /\ n - 1 \in Nat /\ ~(n <= n - 1)
      BY <2>1, <2>2
    <2>4. n - 1 \notin Bad
      <3> HIDE DEF Bad
      <3> QED BY <2>1, <2>3
    <2>5. PICK h : From(h, n - 1)
      BY <2>3, <2>4
    <2> DEFINE g == [i \in 0..n |-> IF i = n THEN ScanLine(h[n - 1], lines, n) ELSE h[i]]
    <2>6. ASSUME NEW i \in 0..n
          PROVE  g[i] = IF i = 0 THEN Outside ELSE ScanLine(g[i - 1], lines, i)
      BY <2>2, <2>3, <2>5
    <2>7. From(g, n)
      BY <2>6
    <2> QED BY <2>1, <2>7
  <1>2. Len(lines) \in Nat
    OBVIOUS
  <1>3. \E g : From(g, Len(lines))
    BY <1>1, <1>2
  <1>4. Scan(lines) = CHOOSE g : From(g, Len(lines))
    BY Zenon DEF Scan
  <1> HIDE DEF From
  <1>5. From(Scan(lines), Len(lines))
    BY <1>3, <1>4, Zenon
  <1> QED BY <1>5, Zenon DEF From

LEMMA ScanSteps ==
    ASSUME NEW lines \in Seq(Line)
    PROVE  /\ Scan(lines)[0] = Outside
           /\ \A i \in 1..Len(lines) :
                 Scan(lines)[i] = ScanLine(Scan(lines)[i - 1], lines, i)
  <1> DEFINE scan == Scan(lines)
  <1>1. scan = [i \in 0..Len(lines) |->
                   IF i = 0 THEN Outside ELSE ScanLine(scan[i - 1], lines, i)]
    BY ScanUnfolds
  <1>2. \A i \in 0..Len(lines) :
            scan[i] = IF i = 0 THEN Outside ELSE ScanLine(scan[i - 1], lines, i)
    <2> HIDE DEF scan
    <2> QED BY <1>1
  <1>3. Len(lines) \in Nat
    OBVIOUS
  <1> HIDE DEF scan
  <1>4. scan[0] = Outside /\ \A i \in 1..Len(lines) : scan[i] = ScanLine(scan[i - 1], lines, i)
    BY <1>2, <1>3
  <1> QED BY <1>4 DEF scan

(* The first text of some lines, and the lines without their label.        *)
LEMMA FirstTextIsFirst ==
    ASSUME NEW lines \in Seq(Line)
    PROVE  /\ FirstText(lines) \in 0..Len(lines)
           /\ FirstText(lines) = 0 => \A i \in 1..Len(lines) : lines[i] = "blank"
           /\ FirstText(lines) # 0 => /\ lines[FirstText(lines)] # "blank"
                                      /\ \A i \in 1..(FirstText(lines) - 1) : lines[i] = "blank"
  <1> DEFINE T == {i \in 1..Len(lines) : lines[i] # "blank"}
  <1>1. FirstText(lines) = IF T # {} THEN Min(T) ELSE 0
    BY DEF FirstText, SelectInSeq
  <1>2. CASE T = {}
    BY <1>1, <1>2
  <1>3. CASE T # {}
    <2>1. T \in SUBSET Nat
      OBVIOUS
    <2>2. \E n \in T : \A m \in T : n <= m
      <3> HIDE DEF T
      <3> QED BY <1>3, <2>1, LeastIsThere
    <2>3. Min(T) \in T /\ \A m \in T : Min(T) <= m
      <3> HIDE DEF T
      <3> QED BY <2>2 DEF Min
    <2>4. FirstText(lines) \in T /\ \A m \in T : FirstText(lines) <= m
      BY <1>1, <1>3, <2>3
    <2> QED BY <2>4
  <1> QED BY <1>2, <1>3

LEMMA StrippedIsText ==
    ASSUME NEW lines \in Seq(Line) PROVE StripLabel(lines) \in Seq(Line)
  <1>1. FirstText(lines) \in 0..Len(lines)
    BY FirstTextIsFirst
  <1>2. CASE FirstText(lines) > 0
    <2>1. SubSeq(lines, 1, FirstText(lines) - 1) \in Seq(Line)
      BY <1>1, <1>2
    <2>2. SubSeq(lines, FirstText(lines) + 1, Len(lines)) \in Seq(Line)
      BY <1>1, <1>2
    <2>3. RemoveAt(lines, FirstText(lines)) \in Seq(Line)
      BY <2>1, <2>2 DEF RemoveAt
    <2> QED BY <2>3 DEF StripLabel
  <1>3. CASE ~(FirstText(lines) > 0)
    BY <1>3 DEF StripLabel, BodyStartsWithLabel
  <1> QED BY <1>2, <1>3

(* The body of a block, and how its first text is found in the lines.      *)
LEMMA BodyIsInside ==
    ASSUME NEW lines \in Seq(Line), NEW o \in 1..Len(lines), NEW i \in 1..Len(lines), o < i
    PROVE  /\ SubSeq(lines, o + 1, i - 1) \in Seq(Line)
           /\ IsInstruction(lines, <<o, i>>) <=>
                 lines[o] = "tagged" \/ BodyStartsWithLabel(SubSeq(lines, o + 1, i - 1))
  <1> DEFINE body == SubSeq(lines, o + 1, i - 1)
             inside == {k \in (o + 1)..(i - 1) : lines[k] # "blank"}
             t == FirstText(body)
  <1>1. /\ body \in Seq(Line)
        /\ Len(body) = i - 1 - o
        /\ \A k \in 1..Len(body) : body[k] = lines[o + k]
    BY DEF body
  <1> HIDE DEF body
  <1>2. /\ t \in 0..Len(body)
        /\ t = 0 => \A k \in 1..Len(body) : body[k] = "blank"
        /\ t # 0 => body[t] # "blank" /\ \A k \in 1..(t - 1) : body[k] = "blank"
    BY <1>1, FirstTextIsFirst
  <1>3. BodyStartsWithLabel(body) <=> t > 0 /\ body[t] = "label"
    BY DEF BodyStartsWithLabel
  <1> HIDE DEF t
  <1>4. ASSUME BodyStartsWithLabel(body)
        PROVE  \E k \in inside : lines[k] = "label" /\ \A l \in inside : k <= l
    <2>1. t > 0 /\ lines[o + t] = "label" /\ o + t \in inside
      BY <1>1, <1>2, <1>3, <1>4
    <2>2. ASSUME NEW l \in inside, l < o + t PROVE FALSE
      <3>1. l - o \in 1..(t - 1) /\ l - o \in 1..Len(body) /\ o + (l - o) = l
        BY <1>1, <1>2, <2>2
      <3> QED BY <1>1, <1>2, <2>1, <3>1
    <2>3. \A l \in inside : o + t <= l
      BY <1>2, <2>2
    <2> QED BY <2>1, <2>3
  <1>5. ASSUME NEW k \in inside, lines[k] = "label", \A l \in inside : k <= l
        PROVE  BodyStartsWithLabel(body)
    <2>1. k - o \in 1..Len(body) /\ body[k - o] = "label"
      BY <1>1, <1>5
    <2>2. t # 0
      BY <1>2, <2>1
    <2>3. o + t \in inside
      BY <1>1, <1>2, <2>2
    <2>4. k <= o + t /\ ~(k < o + t)
      <3>1. k <= o + t
        BY <1>5, <2>3
      <3>2. ASSUME k < o + t PROVE FALSE
        <4>1. k - o \in 1..(t - 1)
          BY <1>2, <2>1, <3>2
        <4> QED BY <1>2, <2>1, <2>2, <4>1
      <3> QED BY <3>1, <3>2
    <2>5. k - o = t
      BY <1>2, <2>4
    <2> QED BY <1>2, <1>3, <2>1, <2>2, <2>5
  <1>6. IsInstruction(lines, <<o, i>>) <=>
            lines[o] = "tagged" \/ \E k \in inside : lines[k] = "label" /\ \A l \in inside : k <= l
    BY DEF IsInstruction
  <1>7. IsInstruction(lines, <<o, i>>) <=> lines[o] = "tagged" \/ BodyStartsWithLabel(body)
    BY <1>4, <1>5, <1>6
  <1> QED BY <1>1, <1>7 DEF body

(* Where a block ends.                                                     *)
LEMMA EndIsFirst ==
    ASSUME NEW lines \in Seq(Line), NEW o \in 1..Len(lines), NEW i \in 1..Len(lines),
           o < i, lines[i] = "bare", \A j \in (o + 1)..(i - 1) : lines[j] # "bare"
    PROVE  Ends(lines, o) # {} /\ End(lines, o) = i
  <1>1. i \in Ends(lines, o)
    BY DEF Ends, Fences, FenceLine
  <1>2. i \in Nat /\ \A j \in Ends(lines, o) : j \in Nat /\ i <= j
    BY DEF Ends, Fences
  <1>3. End(lines, o) \in Ends(lines, o) /\ \A j \in Ends(lines, o) : End(lines, o) <= j
    BY <1>1, <1>2 DEF End
  <1>4. End(lines, o) \in Nat /\ End(lines, o) <= i /\ i <= End(lines, o)
    BY <1>1, <1>2, <1>3
  <1>5. End(lines, o) = i
    BY <1>2, <1>4
  <1> QED BY <1>1, <1>5

(* The fences that open a block, and of those the ones that the scan has   *)
(* seen closed behind line i, and of those the instructions.               *)
Opened(lines) == {k \in 1..Len(lines) : Scan(lines)[k].open = k}
Closed(lines, i) == {k \in Opened(lines) : k <= i /\ k # Scan(lines)[i].open}
Told(lines, i) == {k \in Closed(lines, i) : IsInstruction(lines, <<k, End(lines, k)>>)}

ScanInv(lines, i) ==
    LET acc == Scan(lines)[i]
    IN  /\ acc = [open |-> acc.open, found |-> acc.found]
        /\ acc.open \in 0..i /\ acc.found \in Seq(Seq(Line))
        /\ acc.open # 0 => /\ acc.open \in Opened(lines)
                           /\ \A j \in (acc.open + 1)..i : lines[j] # "bare"
        /\ \A k \in Opened(lines) : k <= i => lines[k] \in FenceLine
        /\ \A k \in Closed(lines, i) : Ends(lines, k) # {} /\ End(lines, k) \in 1..i
        /\ Len(acc.found) = 0 => Told(lines, i) = {}
        /\ Len(acc.found) = 1 => \E k \in Told(lines, i) :
               Told(lines, i) = {k} /\ IsTextOf(acc.found[1], lines, <<k, End(lines, k)>>)

LEMMA ScanInvInit == ASSUME NEW lines \in Seq(Line) PROVE ScanInv(lines, 0)
  <1>1. Scan(lines)[0] = [open |-> 0, found |-> <<>>]
    BY ScanSteps DEF Outside
  <1>2. \A k \in Opened(lines) : ~(k <= 0)
    BY DEF Opened
  <1>3. Closed(lines, 0) = {} /\ Told(lines, 0) = {}
    BY <1>2 DEF Closed, Told
  <1> QED BY <1>1, <1>2, <1>3 DEF ScanInv

LEMMA ScanInvStep ==
    ASSUME NEW lines \in Seq(Line), NEW i \in 1..Len(lines), ScanInv(lines, i - 1)
    PROVE  ScanInv(lines, i)
  <1> DEFINE old == Scan(lines)[i - 1]
             new == Scan(lines)[i]
  <1>1. new = ScanLine(old, lines, i)
    BY ScanSteps
  <1>2. \A k \in Opened(lines) : k \in 1..Len(lines)
    BY DEF Opened
  <1>3. i \in Opened(lines) <=> new.open = i
    BY DEF Opened
  <1>4. /\ old = [open |-> old.open, found |-> old.found]
        /\ old.open \in 0..(i - 1) /\ old.found \in Seq(Seq(Line))
        /\ old.open # 0 => /\ old.open \in Opened(lines)
                           /\ \A j \in (old.open + 1)..(i - 1) : lines[j] # "bare"
        /\ \A k \in Opened(lines) : k <= i - 1 => lines[k] \in FenceLine
        /\ \A k \in Closed(lines, i - 1) : Ends(lines, k) # {} /\ End(lines, k) \in 1..(i - 1)
        /\ Len(old.found) = 0 => Told(lines, i - 1) = {}
        /\ Len(old.found) = 1 => \E k \in Told(lines, i - 1) :
               Told(lines, i - 1) = {k} /\ IsTextOf(old.found[1], lines, <<k, End(lines, k)>>)
    BY DEF ScanInv
  <1>5. Closed(lines, i - 1) = {k \in Opened(lines) : k <= i - 1 /\ k # old.open}
    BY DEF Closed
  <1>6. Closed(lines, i) = {k \in Opened(lines) : k <= i /\ k # new.open}
    BY DEF Closed
  <1>7. ASSUME /\ new = [open |-> new.open, found |-> new.found]
               /\ new.open \in 0..i /\ new.found \in Seq(Seq(Line))
               /\ new.open # 0 => /\ new.open \in Opened(lines)
                                  /\ \A j \in (new.open + 1)..i : lines[j] # "bare"
               /\ new.open = i => lines[i] \in FenceLine
               /\ \A k \in Closed(lines, i) : Ends(lines, k) # {} /\ End(lines, k) \in 1..i
               /\ Len(new.found) = 0 => Told(lines, i) = {}
               /\ Len(new.found) = 1 => \E k \in Told(lines, i) :
                      Told(lines, i) = {k} /\ IsTextOf(new.found[1], lines, <<k, End(lines, k)>>)
        PROVE  ScanInv(lines, i)
    <2>1. \A k \in Opened(lines) : k <= i => lines[k] \in FenceLine
      BY <1>2, <1>3, <1>4, <1>7
    <2> QED BY <1>7, <2>1 DEF ScanInv
  <1> HIDE DEF old, new
  <1>8. CASE old.open = 0 /\ lines[i] \in FenceLine
    <2>1. new = [open |-> i, found |-> old.found]
      BY <1>1, <1>4, <1>8 DEF ScanLine
    <2>2. i \in Opened(lines)
      BY <1>3, <2>1
    <2>3. Closed(lines, i) = Closed(lines, i - 1)
      BY <1>2, <1>5, <1>6, <1>8, <2>1
    <2>4. Told(lines, i) = Told(lines, i - 1)
      BY <2>3 DEF Told
    <2>5. \A k \in Closed(lines, i) : Ends(lines, k) # {} /\ End(lines, k) \in 1..i
      BY <1>4, <2>3
    <2>6. new.open = i /\ new.found = old.found /\ new = [open |-> new.open, found |-> new.found]
      BY <2>1
    <2>7. \A j \in (new.open + 1)..i : FALSE
      BY <2>6
    <2> QED BY <1>4, <1>7, <1>8, <2>2, <2>4, <2>5, <2>6, <2>7
  <1>9. CASE (old.open = 0 /\ lines[i] \notin FenceLine) \/ (old.open # 0 /\ lines[i] # "bare")
    <2>1. new = old
      BY <1>1, <1>9 DEF ScanLine
    <2>2. i \notin Opened(lines)
      BY <1>3, <1>4, <2>1
    <2>3. Closed(lines, i) = Closed(lines, i - 1)
      BY <1>2, <1>5, <1>6, <2>1, <2>2
    <2>4. Told(lines, i) = Told(lines, i - 1)
      BY <2>3 DEF Told
    <2>5. \A k \in Closed(lines, i) : Ends(lines, k) # {} /\ End(lines, k) \in 1..i
      BY <1>4, <2>3
    <2> QED BY <1>4, <1>7, <1>9, <2>1, <2>4, <2>5
  <1>10. CASE old.open # 0 /\ lines[i] = "bare"
    <2> DEFINE o == old.open
               body == SubSeq(lines, o + 1, i - 1)
               told == lines[o] = "tagged" \/ BodyStartsWithLabel(body)
    <2>1. o \in 1..Len(lines) /\ o < i /\ o \in Opened(lines)
      BY <1>2, <1>4, <1>10
    <2>2. Ends(lines, o) # {} /\ End(lines, o) = i
      BY <1>4, <1>10, <2>1, EndIsFirst
    <2>3. body \in Seq(Line) /\ (IsInstruction(lines, <<o, i>>) <=> told)
      BY <2>1, BodyIsInside
    <2>4. StripLabel(body) \in Seq(Line)
      BY <2>3, StrippedIsText
    <2>5. IsTextOf(StripLabel(body), lines, <<o, i>>)
      BY DEF IsTextOf
    <2>6. new = [open |-> 0,
                 found |-> IF told THEN Append(old.found, StripLabel(body)) ELSE old.found]
      BY <1>1, <1>10 DEF ScanLine
    <2>7. i \notin Opened(lines)
      BY <1>3, <2>6
    <2>8. Closed(lines, i) = Closed(lines, i - 1) \cup {o}
      BY <1>2, <1>5, <1>6, <2>1, <2>6, <2>7
    <2>9. Told(lines, i) = IF told THEN Told(lines, i - 1) \cup {o} ELSE Told(lines, i - 1)
      BY <2>2, <2>3, <2>8 DEF Told
    <2>10. \A k \in Closed(lines, i) : Ends(lines, k) # {} /\ End(lines, k) \in 1..i
      BY <1>4, <2>2, <2>8
    <2> HIDE DEF o, body, told
    <2>11. CASE told
      <3>1. /\ new.found \in Seq(Seq(Line)) /\ new.found = Append(old.found, StripLabel(body))
            /\ Len(new.found) = Len(old.found) + 1
        BY <1>4, <2>4, <2>6, <2>11
      <3>2. Len(new.found) = 1 => new.found[1] = StripLabel(body) /\ Told(lines, i) = {o}
        BY <1>4, <2>4, <2>9, <2>11, <3>1
      <3>3. Len(new.found) # 0
        BY <1>4, <3>1
      <3>4. new.open = 0 /\ new = [open |-> new.open, found |-> new.found]
        BY <2>6
      <3>5. Len(new.found) = 1 => \E k \in Told(lines, i) :
                Told(lines, i) = {k} /\ IsTextOf(new.found[1], lines, <<k, End(lines, k)>>)
        BY <2>2, <2>5, <3>2
      <3>6. new.open \in 0..i /\ new.open # i
        BY <3>4
      <3> QED BY <1>7, <2>10, <3>1, <3>3, <3>4, <3>5, <3>6
    <2>12. CASE ~told
      <3>1. new = [open |-> 0, found |-> old.found] /\ Told(lines, i) = Told(lines, i - 1)
        BY <2>6, <2>9, <2>12
      <3> QED BY <1>4, <1>7, <2>10, <3>1
    <2> QED BY <2>11, <2>12
  <1> QED BY <1>8, <1>9, <1>10

LEMMA ScanInvHolds ==
    ASSUME NEW lines \in Seq(Line) PROVE \A i \in 0..Len(lines) : ScanInv(lines, i)
  <1> DEFINE Bad == {i \in 0..Len(lines) : ~ScanInv(lines, i)}
  <1>1. Bad \in SUBSET Nat
    OBVIOUS
  <1>2. ASSUME Bad # {} PROVE FALSE
    <2>1. PICK i \in Bad : \A j \in Bad : i <= j
      <3> HIDE DEF Bad
      <3> QED BY <1>1, <1>2, LeastIsThere
    <2>2. i # 0
      BY <2>1, ScanInvInit
    <2>3. i \in 1..Len(lines) /\ i - 1 \in 0..Len(lines) /\ ~(i <= i - 1)
      BY <2>1, <2>2
    <2>4. i - 1 \notin Bad
      <3> HIDE DEF Bad
      <3> QED BY <2>1, <2>3
    <2>5. ScanInv(lines, i - 1)
      BY <2>3, <2>4
    <2>6. ScanInv(lines, i)
      BY <2>3, <2>5, ScanInvStep
    <2> QED BY <2>1, <2>6
  <1> QED BY <1>2

(* The scan finds the fences that open a block: no other set of fences is  *)
(* such that a fence is in it just when it lies in no earlier block of it. *)
Solves(S, lines) ==
    \A i \in Fences(lines) :
        i \in S <=> \A k \in S : k < i => Ends(lines, k) # {} /\ End(lines, k) < i

LEMMA OpenedSolves ==
    ASSUME NEW lines \in Seq(Line)
    PROVE  Opened(lines) \in SUBSET Fences(lines) /\ Solves(Opened(lines), lines)
  <1>1. Len(lines) \in Nat /\ Len(lines) \in 0..Len(lines)
    OBVIOUS
  <1>2. \A k \in Opened(lines) : k \in 1..Len(lines)
    BY DEF Opened
  <1>3. Opened(lines) \in SUBSET Fences(lines)
    <2>1. ScanInv(lines, Len(lines))
      BY <1>1, ScanInvHolds
    <2>2. \A k \in Opened(lines) : k <= Len(lines) => lines[k] \in FenceLine
      BY <2>1 DEF ScanInv
    <2> QED BY <1>1, <1>2, <2>2 DEF Fences
  <1>4. ASSUME NEW i \in Fences(lines)
        PROVE  i \in Opened(lines) <=>
                   \A k \in Opened(lines) : k < i => Ends(lines, k) # {} /\ End(lines, k) < i
    <2> DEFINE old == Scan(lines)[i - 1]
               new == Scan(lines)[i]
    <2>1. i \in 1..Len(lines) /\ lines[i] \in FenceLine /\ i - 1 \in 0..Len(lines)
      BY DEF Fences
    <2>2. ScanInv(lines, i - 1) /\ new = ScanLine(old, lines, i)
      BY <2>1, ScanInvHolds, ScanSteps
    <2>3. /\ old = [open |-> old.open, found |-> old.found]
          /\ old.open \in 0..(i - 1)
          /\ old.open # 0 => /\ old.open \in Opened(lines)
                             /\ \A j \in (old.open + 1)..(i - 1) : lines[j] # "bare"
          /\ \A k \in Closed(lines, i - 1) : Ends(lines, k) # {} /\ End(lines, k) \in 1..(i - 1)
      BY <2>2 DEF ScanInv
    <2>4. Closed(lines, i - 1) = {k \in Opened(lines) : k <= i - 1 /\ k # old.open}
      BY DEF Closed
    <2>5. i \in Opened(lines) <=> new.open = i
      BY <2>1 DEF Opened
    <2> HIDE DEF old, new
    <2>6. CASE old.open = 0
      <3>1. new.open = i
        BY <2>1, <2>2, <2>3, <2>6 DEF ScanLine
      <3>2. ASSUME NEW k \in Opened(lines), k < i PROVE Ends(lines, k) # {} /\ End(lines, k) < i
        <4>1. k \in Closed(lines, i - 1)
          BY <1>2, <2>1, <2>4, <2>6, <3>2
        <4> QED BY <2>1, <2>3, <4>1
      <3> QED BY <2>5, <3>1, <3>2
    <2>7. CASE old.open # 0
      <3>1. new.open # i
        BY <2>1, <2>2, <2>3, <2>7 DEF ScanLine
      <3>2. old.open \in Opened(lines) /\ old.open < i
        BY <2>1, <2>3, <2>7
      <3>3. ASSUME Ends(lines, old.open) # {}, End(lines, old.open) < i PROVE FALSE
        <4>1. Ends(lines, old.open) \in SUBSET Nat
          BY DEF Ends, Fences
        <4>2. \E n \in Ends(lines, old.open) : \A m \in Ends(lines, old.open) : n <= m
          BY <3>3, <4>1, LeastIsThere
        <4>3. End(lines, old.open) \in Ends(lines, old.open)
          BY <4>2 DEF End
        <4>4. End(lines, old.open) \in (old.open + 1)..(i - 1) /\ lines[End(lines, old.open)] = "bare"
          BY <2>1, <2>3, <3>3, <4>3 DEF Ends, Fences
        <4> QED BY <2>3, <2>7, <4>4
      <3> QED BY <2>5, <3>1, <3>2, <3>3
    <2> QED BY <2>6, <2>7
  <1> QED BY <1>3, <1>4 DEF Solves

LEMMA OpeningIsUnique ==
    ASSUME NEW lines \in Seq(Line),
           NEW S \in SUBSET Fences(lines), Solves(S, lines),
           NEW T \in SUBSET Fences(lines), Solves(T, lines)
    PROVE  S = T
  <1> DEFINE D == {i \in Fences(lines) : ~(i \in S <=> i \in T)}
  <1>1. D \in SUBSET Nat /\ \A i \in Fences(lines) : i \in Nat
    BY DEF Fences
  <1>2. ASSUME D # {} PROVE FALSE
    <2>1. PICK i \in D : \A j \in D : i <= j
      <3> HIDE DEF D
      <3> QED BY <1>1, <1>2, LeastIsThere
    <2>2. \A k \in Fences(lines) : k < i => (k \in S <=> k \in T)
      BY <1>1, <2>1
    <2>3. i \in S <=> i \in T
      BY <1>1, <2>1, <2>2 DEF Solves
    <2> QED BY <2>1, <2>3
  <1> QED BY <1>2

LEMMA BlocksAreScanned ==
    ASSUME NEW lines \in Seq(Line)
    PROVE  Blocks(lines) = {<<k, End(lines, k)>> : k \in Closed(lines, Len(lines))}
  <1>1. Opening(lines) = CHOOSE S \in SUBSET Fences(lines) : Solves(S, lines)
    BY Zenon DEF Opening, Solves
  <1>2. Opening(lines) \in SUBSET Fences(lines) /\ Solves(Opening(lines), lines)
    BY <1>1, OpenedSolves
  <1>3. Opening(lines) = Opened(lines)
    BY <1>2, OpenedSolves, OpeningIsUnique
  <1>4. Len(lines) \in Nat /\ Len(lines) \in 0..Len(lines)
    OBVIOUS
  <1>5. ScanInv(lines, Len(lines))
    BY <1>4, ScanInvHolds
  <1> DEFINE o == Scan(lines)[Len(lines)].open
  <1>6. o # 0 => Ends(lines, o) = {}
    <2>1. o \in 0..Len(lines) /\ (o # 0 => \A j \in (o + 1)..Len(lines) : lines[j] # "bare")
      BY <1>5 DEF ScanInv
    <2> HIDE DEF o
    <2> QED BY <2>1 DEF Ends, Fences
  <1>7. Closed(lines, Len(lines)) = {k \in Opened(lines) : Ends(lines, k) # {}}
    <2>1. \A k \in Opened(lines) : k \in 1..Len(lines) /\ k <= Len(lines) /\ k # 0
      BY DEF Opened
    <2>2. Closed(lines, Len(lines)) = {k \in Opened(lines) : k # o}
      BY <2>1 DEF Closed
    <2>3. \A k \in Closed(lines, Len(lines)) : Ends(lines, k) # {}
      BY <1>5 DEF ScanInv
    <2> HIDE DEF o
    <2> QED BY <1>6, <2>1, <2>2, <2>3
  <1> QED BY <1>3, <1>7 DEF Blocks

(* extract_codex_next_prompt returns, from every response it accepts, all  *)
(* that the response instructs.                                            *)
LEMMA ExtractIsTheInstruction ==
    ASSUME NEW lines \in Seq(Line), Extractable(lines)
    PROVE  IsTheInstruction(Extract(lines), lines)
  <1> DEFINE acc == Scan(lines)[Len(lines)]
             n == Len(lines)
  <1>1. n \in Nat /\ ScanInv(lines, n)
    BY ScanInvHolds
  <1>2. /\ acc.found \in Seq(Seq(Line))
        /\ Len(acc.found) = 1 => \E k \in Told(lines, n) :
               Told(lines, n) = {k} /\ IsTextOf(acc.found[1], lines, <<k, End(lines, k)>>)
    BY <1>1 DEF ScanInv
  <1>3. Matches(lines) = acc.found \o BodyOnlyMatches(lines)
    BY DEF Matches, FencedMatches
  <1>4. Instructions(lines) = {<<k, End(lines, k)>> : k \in Told(lines, n)}
    <2> DEFINE block(k) == <<k, End(lines, k)>>
    <2>1. Blocks(lines) = {block(k) : k \in Closed(lines, n)}
      BY BlocksAreScanned
    <2>2. Told(lines, n) = {k \in Closed(lines, n) : IsInstruction(lines, block(k))}
      BY DEF Told
    <2> HIDE DEF block, n
    <2>3. Instructions(lines) = {block(k) : k \in Told(lines, n)}
      BY <2>1, <2>2 DEF Instructions
    <2> QED BY <2>3 DEF block
  <1> HIDE DEF acc, n
  <1>5. CASE BodyOnlyMatches(lines) = <<>>
    <2>1. Matches(lines) = acc.found
      BY <1>2, <1>3, <1>5
    <2>2. Len(acc.found) = 1 /\ Extract(lines) = acc.found[1]
      BY <2>1 DEF Extractable, Extract
    <2>3. PICK k \in Told(lines, n) :
              Told(lines, n) = {k} /\ IsTextOf(Extract(lines), lines, <<k, End(lines, k)>>)
      BY <1>2, <2>2
    <2>4. Instructions(lines) = {<<k, End(lines, k)>>}
      BY <1>4, <2>3
    <2> QED BY <2>3, <2>4 DEF IsTheInstruction
  <1>6. CASE BodyOnlyMatches(lines) # <<>>
    <2> DEFINE first == FirstText(lines)
               rest == SubSeq(lines, first + 1, Len(lines))
    <2>1. /\ \A i \in 1..Len(lines) : lines[i] \notin FenceLine
          /\ BodyStartsWithLabel(lines)
          /\ Cardinality({i \in 1..Len(lines) : lines[i] = "label"}) = 1
          /\ BodyOnlyMatches(lines) = <<rest>>
      BY <1>6 DEF BodyOnlyMatches
    <2>2. /\ first \in 1..Len(lines) /\ lines[first] = "label"
          /\ \A i \in 1..(first - 1) : lines[i] = "blank"
      BY <2>1, FirstTextIsFirst DEF BodyStartsWithLabel
    <2>3. rest \in Seq(Line)
      BY <2>2
    <2> HIDE DEF first, rest
    <2>4. Len(acc.found) = 0 /\ acc.found = <<>>
      <3>1. Len(acc.found \o <<rest>>) = Len(acc.found) + 1
        BY <1>2, <2>3
      <3> QED BY <1>2, <1>3, <2>1, <3>1 DEF Extractable
    <2>5. Extract(lines) = rest
      BY <1>3, <2>1, <2>4 DEF Extract
    <2>6. \A i \in 1..Len(lines) : lines[i] = "label" <=> i = first
      <3> DEFINE L == {i \in 1..Len(lines) : lines[i] = "label"}
      <3>1. PICK x : L = {x}
        <4>1. IsFiniteSet(1..Len(lines))
          BY FS_Interval
        <4>2. IsFiniteSet(L)
          BY <4>1, FS_Subset
        <4> QED BY <2>1, <4>2, FS_Singleton
      <3> QED BY <2>2, <3>1
    <2>7. Fences(lines) = {}
      BY <2>1 DEF Fences
    <2>8. IsTextAfterLabel(rest, lines)
      BY <2>2, <2>6, <2>7 DEF IsTextAfterLabel, rest
    <2> QED BY <2>5, <2>8 DEF IsTheInstruction
  <1> QED BY <1>5, <1>6

-----------------------------------------------------------------------------
ToPm == {"activate_pm", "copy_pm", "paste_pm", "submit_pm"}
Answering == {"wait_pm", "reactivate_pm", "copy_response"}
ToAgent == {"staged", "activate_agent", "copy_agent", "read_back", "paste_agent", "inspect",
            "snapshot", "submit_agent"}
Submitted == {"confirm", "await", "pop_stopped", "pop_confirmed", "pop_artifact"}
Phase == {"idle", "read", "save_response", "extract", "enqueue", "stage"}
           \cup ToPm \cup Answering \cup ToAgent \cup Submitted

(* Reasons to end before, and after, the submit to the local agent.        *)
Unsent == {"blocked", "staged_only", "clipboard_mismatch", "paste_failed"}
Popped == {"stopped_for_queue", "confirmed", "artifact"}
Outcome == {"none", "error", "unconfirmed", "artifact_timeout"} \cup Unsent \cup Popped

Typed == /\ pc \in Phase
         /\ attempt \in Nat
         /\ pc # "idle" => attempt \in Attempt
         /\ status \in [Attempt -> {"absent", "pending", "in_progress", "blocked", "completed"}]
         /\ result \in [Attempt -> Outcome]
         /\ payload = [a \in Attempt |-> payload[a]]
         /\ boxes = [pm |-> boxes.pm, agent |-> boxes.agent]
         /\ chat = [asked |-> chat.asked, last |-> chat.last]
         /\ paused \in BOOLEAN

(* What lies on the way to an app is the prompt that passed the gate, or   *)
(* what the user has put there in this attempt.                            *)
Mine(text) == text = prompt \/ (text = Foreign /\ attempt \in tampered)

PromptInv ==
    /\ pc \in ToPm => prompt.is = "pm" /\ prompt.of = attempt /\ ~Hot(prompt.lines)
    /\ pc \in ToAgent => prompt = payload[attempt] /\ ~Hot(prompt.lines)
    /\ pc \in ToAgent \cup {"enqueue", "stage"} => payload[attempt].is = "agent"
    /\ pc \in {"paste_pm", "read_back", "paste_agent"} => Mine(clipboard)
    /\ pc = "submit_pm" => prompt \in boxes.pm \/ attempt \in tampered

(* An attempt tells an app something only after its submit, and its        *)
(* command says nothing before the extraction.                             *)
Reached(app, a) == \E s \in sent : s[1] = app /\ s[2] = a

BeforePm == {"read"} \cup ToPm
BeforeQueue == BeforePm \cup Answering \cup {"save_response", "extract"}

OrderInv ==
    /\ \A a \in tampered : a \in Attempt /\ a <= attempt
    /\ \A s \in sent : s[1] \in App /\ s[2] \in Attempt /\ s[2] <= attempt
    /\ Reached("pm", attempt) => pc \notin BeforePm
    /\ Reached("agent", attempt) => pc \in Submitted \cup {"idle"}
    /\ \A a \in Attempt :
          a > attempt \/ (a = attempt /\ pc \in BeforeQueue) => payload[a] = Nothing

(* What is in a composer is the user's, or was gated in an attempt since   *)
(* which nothing has been submitted to the app.                            *)
Gated(app, a, text) == a \in Attempt /\ Prepared(app, a, text) /\ ~Hot(text.lines)

Kept(app, text) ==
    IF text.is = "foreign"
    THEN app \in drafts \/ tampered # {}
    ELSE \E a \in Attempt : /\ Gated(app, a, text) /\ a <= attempt
                            /\ \A t \in sent : t[1] = app => t[2] < a

BoxInv == \A app \in App : \A text \in boxes[app] : Kept(app, text)

(* And so is what was submitted.                                           *)
Sent(s, text) ==
    IF text.is = "foreign"
    THEN s[1] \in drafts \/ \E a \in tampered : a <= s[2]
    ELSE \E a \in Attempt : /\ Gated(s[1], a, text) /\ a <= s[2]
                            /\ \A t \in sent : t[1] = s[1] => t[2] < a \/ s[2] <= t[2]

SentInv == \A s \in sent : \A text \in s[3] : Sent(s, text)

(* How an attempt ended tells what has become of its command.              *)
ResultInv ==
    \A a \in Attempt :
        /\ a > attempt \/ (a = attempt /\ pc # "idle") => result[a] = "none"
        /\ result[a] = "blocked" => paused
        /\ result[a] \in Unsent => ~Reached("agent", a)
        /\ result[a] \in Popped /\ status[a] = "pending" => a \in ignored

(* From the question on, what will be taken for the answer to it is one,   *)
(* or the wait was too short, or the user interfered.                      *)
Excused(a) == a \in early \/ a \in tampered

FreshInv ==
    /\ pc \in Answering /\ attempt \notin tampered =>
           chat.asked = Nothing \/ chat.asked.of = attempt
    /\ pc = "wait_pm" => chat.asked # Nothing \/ chat.last.of = attempt \/ Excused(attempt)
    /\ pc \in {"reactivate_pm", "copy_response"} => chat.last.of = attempt \/ Excused(attempt)
    /\ pc = "save_response" => clipboard.of = attempt \/ Excused(attempt)
    /\ pc = "extract" => response.of = attempt \/ Excused(attempt)
    /\ AnswerIsFresh

IInv == Typed /\ PromptInv /\ OrderInv /\ BoxInv /\ SentInv /\ ResultInv /\ FreshInv

-----------------------------------------------------------------------------
LEMMA InitInv == ASSUME Init PROVE IInv
  <1> USE BoundsAssumption
      DEF Init, Phase, ToPm, Answering, ToAgent, Submitted, Outcome, Unsent, Popped
  <1>1. Typed
    BY DEF Typed, Nothing, Text
  <1>2. PromptInv /\ OrderInv /\ BoxInv /\ SentInv
    BY DEF PromptInv, OrderInv, BoxInv, SentInv, Reached, BeforePm, BeforeQueue, App
  <1>3. ResultInv /\ FreshInv
    BY DEF ResultInv, FreshInv, AnswerIsFresh
  <1> QED BY <1>1, <1>2, <1>3 DEF IInv

LEMMA TypedStep == ASSUME IInv, Next PROVE Typed'
  <1> USE BoundsAssumption
      DEF IInv, Typed, Attempt, Outcome, Unsent, Popped, Phase, ToPm, Answering, ToAgent, Submitted,
          At, Goto, work, queue, disk, desk, meddling, history
  <1>1. CASE Expire \/ Raise
    BY <1>1 DEF Expire, Fail, Finish, Guarded, Raise, MayRaise
  <1>2. CASE Start
    BY <1>2 DEF Start
  <1>3. CASE ReadReport
    BY <1>3 DEF ReadReport, Finish
  <1>4. CASE ActivatePm \/ ReactivatePm \/ ActivateAgent
    BY <1>4 DEF ActivatePm, Pass, ReactivatePm, ActivateAgent
  <1>5. CASE CopyPmPrompt \/ CopyAgentPrompt
    BY <1>5 DEF CopyPmPrompt, CopyTo, CopyAgentPrompt
  <1>6. CASE PastePmPrompt
    BY <1>6 DEF PastePmPrompt, Pasted, Finish
  <1>7. CASE SubmitPmPrompt
    BY <1>7 DEF SubmitPmPrompt, Submit, Question
  <1>8. CASE WaitForAnswer
    BY <1>8 DEF WaitForAnswer
  <1>9. CASE CaptureResponse
    BY <1>9 DEF CaptureResponse
  <1>10. CASE SaveResponse
    BY <1>10 DEF SaveResponse
  <1>11. CASE ExtractPrompt
    BY <1>11 DEF ExtractPrompt
  <1>12. CASE Enqueue
    BY <1>12 DEF Enqueue
  <1>13. CASE Stage
    BY <1>13 DEF Stage, Finish
  <1>14. CASE GateStaged
    BY <1>14 DEF GateStaged, Finish
  <1>15. CASE ReadBack
    BY <1>15 DEF ReadBack, Finish
  <1>16. CASE PasteAgentPrompt
    BY <1>16 DEF PasteAgentPrompt, Pasted, Finish
  <1>17. CASE InspectBeforeSubmit \/ TakeSnapshot
    BY <1>17 DEF InspectBeforeSubmit, TakeSnapshot
  <1>18. CASE SubmitAgentPrompt
    BY <1>18 DEF SubmitAgentPrompt, Submit
  <1>19. CASE ConfirmSubmit \/ AwaitArtifact
    BY <1>19 DEF ConfirmSubmit, Finish, AwaitArtifact
  <1>20. CASE PopStopped \/ PopConfirmed \/ PopArtifact
    BY <1>20 DEF PopStopped, Pop, Finish, PopConfirmed, PopArtifact
  <1>21. CASE PmAnswers
    BY <1>21 DEF PmAnswers
  <1>22. CASE UserCopies \/ \E app \in App : UserTypes(app)
    BY <1>22 DEF UserCopies, UserTypes, Meddle
  <1>23. CASE WriteReport
    BY <1>23 DEF WriteReport
  <1>24. CASE \E c \in Attempt : PeerTakes(c)
    BY <1>24 DEF PeerTakes, CanPop
  <1>25. CASE \E c \in Attempt : OwnerCompletes(c)
    BY <1>25 DEF OwnerCompletes
  <1> QED BY <1>1, <1>2, <1>3, <1>4, <1>5, <1>6, <1>7, <1>8, <1>9, <1>10, <1>11, <1>12,
             <1>13, <1>14, <1>15, <1>16, <1>17, <1>18, <1>19, <1>20, <1>21, <1>22,
             <1>23, <1>24, <1>25
             DEF Next, Roundtrip, Environment

LEMMA PromptStep == ASSUME IInv, Next PROVE PromptInv'
  <1> USE DEF IInv, Typed, PromptInv, Mine, Phase, ToPm, Answering, ToAgent, Submitted, At, Goto,
          work, queue, disk, desk, meddling, history, Text
  <1>1. CASE Expire \/ Raise
    BY <1>1 DEF Expire, Fail, Finish, Guarded, Raise, MayRaise
  <1>2. CASE Start
    BY <1>2 DEF Start
  <1>3. CASE ReadReport
    BY <1>3 DEF ReadReport, Finish
  <1>4. CASE ActivatePm \/ ReactivatePm \/ ActivateAgent
    BY <1>4 DEF ActivatePm, Pass, ReactivatePm, ActivateAgent
  <1>5. CASE CopyPmPrompt \/ CopyAgentPrompt
    BY <1>5 DEF CopyPmPrompt, CopyTo, CopyAgentPrompt
  <1>6. CASE PastePmPrompt
    BY <1>6 DEF PastePmPrompt, Pasted, Finish
  <1>7. CASE SubmitPmPrompt
    BY <1>7 DEF SubmitPmPrompt, Submit, Question
  <1>8. CASE WaitForAnswer
    BY <1>8 DEF WaitForAnswer
  <1>9. CASE CaptureResponse
    BY <1>9 DEF CaptureResponse
  <1>10. CASE SaveResponse
    BY <1>10 DEF SaveResponse
  <1>11. CASE ExtractPrompt
    BY <1>11 DEF ExtractPrompt
  <1>12. CASE Enqueue
    BY <1>12 DEF Enqueue
  <1>13. CASE Stage
    BY <1>13 DEF Stage, Finish
  <1>14. CASE GateStaged
    BY <1>14 DEF GateStaged, Finish
  <1>15. CASE ReadBack
    BY <1>15 DEF ReadBack, Finish
  <1>16. CASE PasteAgentPrompt
    BY <1>16 DEF PasteAgentPrompt, Pasted, Finish
  <1>17. CASE InspectBeforeSubmit \/ TakeSnapshot
    BY <1>17 DEF InspectBeforeSubmit, TakeSnapshot
  <1>18. CASE SubmitAgentPrompt
    BY <1>18 DEF SubmitAgentPrompt, Submit
  <1>19. CASE ConfirmSubmit \/ AwaitArtifact
    BY <1>19 DEF ConfirmSubmit, Finish, AwaitArtifact
  <1>20. CASE PopStopped \/ PopConfirmed \/ PopArtifact
    BY <1>20 DEF PopStopped, Pop, Finish, PopConfirmed, PopArtifact
  <1>21. CASE PmAnswers
    BY <1>21 DEF PmAnswers
  <1>22. CASE UserCopies \/ \E app \in App : UserTypes(app)
    BY <1>22 DEF UserCopies, UserTypes, Meddle
  <1>23. CASE WriteReport
    BY <1>23 DEF WriteReport
  <1>24. CASE \E c \in Attempt : PeerTakes(c)
    BY <1>24 DEF PeerTakes, CanPop
  <1>25. CASE \E c \in Attempt : OwnerCompletes(c)
    BY <1>25 DEF OwnerCompletes
  <1> QED BY <1>1, <1>2, <1>3, <1>4, <1>5, <1>6, <1>7, <1>8, <1>9, <1>10, <1>11, <1>12,
             <1>13, <1>14, <1>15, <1>16, <1>17, <1>18, <1>19, <1>20, <1>21, <1>22,
             <1>23, <1>24, <1>25
             DEF Next, Roundtrip, Environment

LEMMA OrderStep == ASSUME IInv, Next PROVE OrderInv'
  <1> USE DEF IInv, Typed, OrderInv, Reached, App, BeforePm, BeforeQueue, Phase, ToPm, Answering,
          ToAgent, Submitted, At, Goto, work, queue, disk, desk, meddling, history
  <1>1. CASE Expire \/ Raise
    BY <1>1 DEF Expire, Fail, Finish, Guarded, Raise, MayRaise
  <1>2. CASE Start
    BY <1>2, BoundsAssumption DEF Start, Attempt
  <1>3. CASE ReadReport
    BY <1>3 DEF ReadReport, Finish
  <1>4. CASE ActivatePm \/ ReactivatePm \/ ActivateAgent
    BY <1>4 DEF ActivatePm, Pass, ReactivatePm, ActivateAgent
  <1>5. CASE CopyPmPrompt \/ CopyAgentPrompt
    BY <1>5 DEF CopyPmPrompt, CopyTo, CopyAgentPrompt
  <1>6. CASE PastePmPrompt
    BY <1>6 DEF PastePmPrompt, Pasted, Finish
  <1>7. CASE SubmitPmPrompt
    BY <1>7 DEF SubmitPmPrompt, Submit, Question
  <1>8. CASE WaitForAnswer
    BY <1>8 DEF WaitForAnswer
  <1>9. CASE CaptureResponse
    BY <1>9 DEF CaptureResponse
  <1>10. CASE SaveResponse
    BY <1>10 DEF SaveResponse
  <1>11. CASE ExtractPrompt
    BY <1>11 DEF ExtractPrompt
  <1>12. CASE Enqueue
    BY <1>12 DEF Enqueue
  <1>13. CASE Stage
    BY <1>13 DEF Stage, Finish
  <1>14. CASE GateStaged
    BY <1>14 DEF GateStaged, Finish
  <1>15. CASE ReadBack
    BY <1>15 DEF ReadBack, Finish
  <1>16. CASE PasteAgentPrompt
    BY <1>16 DEF PasteAgentPrompt, Pasted, Finish
  <1>17. CASE InspectBeforeSubmit \/ TakeSnapshot
    BY <1>17 DEF InspectBeforeSubmit, TakeSnapshot
  <1>18. CASE SubmitAgentPrompt
    BY <1>18 DEF SubmitAgentPrompt, Submit
  <1>19. CASE ConfirmSubmit \/ AwaitArtifact
    BY <1>19 DEF ConfirmSubmit, Finish, AwaitArtifact
  <1>20. CASE PopStopped \/ PopConfirmed \/ PopArtifact
    BY <1>20 DEF PopStopped, Pop, Finish, PopConfirmed, PopArtifact
  <1>21. CASE PmAnswers
    BY <1>21 DEF PmAnswers
  <1>22. CASE UserCopies \/ \E app \in App : UserTypes(app)
    BY <1>22 DEF UserCopies, UserTypes, Meddle
  <1>23. CASE WriteReport
    BY <1>23 DEF WriteReport
  <1>24. CASE \E c \in Attempt : PeerTakes(c)
    BY <1>24 DEF PeerTakes, CanPop
  <1>25. CASE \E c \in Attempt : OwnerCompletes(c)
    BY <1>25 DEF OwnerCompletes
  <1> QED BY <1>1, <1>2, <1>3, <1>4, <1>5, <1>6, <1>7, <1>8, <1>9, <1>10, <1>11, <1>12,
             <1>13, <1>14, <1>15, <1>16, <1>17, <1>18, <1>19, <1>20, <1>21, <1>22,
             <1>23, <1>24, <1>25
             DEF Next, Roundtrip, Environment

(* A step that sends nothing, puts nothing into a composer and does not    *)
(* change what a gated text is prepared for.                               *)
LEMMA Unmoved ==
    ASSUME IInv, boxes' = boxes, sent' = sent, drafts \subseteq drafts',
           tampered \subseteq tampered', attempt' \in Nat, attempt <= attempt',
           \A app, a, text : Gated(app, a, text) => Gated(app, a, text)'
    PROVE  BoxInv' /\ SentInv'
  <1>1. ASSUME NEW app \in App, NEW text \in boxes[app], Kept(app, text)
        PROVE  Kept(app, text)'
    <2>1. CASE text.is = "foreign"
      BY <1>1, <2>1 DEF Kept
    <2>2. CASE text.is # "foreign"
      <3>1. PICK a \in Attempt : /\ Gated(app, a, text) /\ a <= attempt
                                 /\ \A t \in sent : t[1] = app => t[2] < a
        BY <1>1, <2>2 DEF Kept
      <3>2. a <= attempt'
        BY <3>1 DEF IInv, Typed, Attempt
      <3>3. Gated(app, a, text)' /\ \A t \in sent' : t[1] = app => t[2] < a
        BY <3>1
      <3> QED BY <2>2, <3>2, <3>3 DEF Kept
    <2> QED BY <2>1, <2>2
  <1>2. BoxInv'
    BY <1>1 DEF IInv, BoxInv
  <1>3. ASSUME NEW s \in sent, NEW text \in s[3], Sent(s, text)
        PROVE  Sent(s, text)'
    <2>1. CASE text.is = "foreign"
      BY <1>3, <2>1 DEF Sent
    <2>2. CASE text.is # "foreign"
      <3>1. PICK a \in Attempt : /\ Gated(s[1], a, text) /\ a <= s[2]
                                 /\ \A t \in sent : t[1] = s[1] => t[2] < a \/ s[2] <= t[2]
        BY <1>3, <2>2 DEF Sent
      <3>2. Gated(s[1], a, text)'
        BY <3>1
      <3> QED BY <2>2, <3>1, <3>2 DEF Sent
    <2> QED BY <2>1, <2>2
  <1>4. SentInv'
    BY <1>3 DEF IInv, SentInv
  <1> QED BY <1>2, <1>4

(* A step that puts the prompt, or what the user has on the clipboard, into*)
(* a composer, or takes something out of it, and does nothing else.        *)
LEMMA Filled ==
    ASSUME IInv, NEW app \in App,
           UNCHANGED <<attempt, payload, sent, drafts, tampered>>,
           boxes' = [boxes EXCEPT ![app] = boxes'[app]],
           \A text \in boxes'[app] : text \in boxes[app] \/ Kept(app, text)
    PROVE  BoxInv' /\ SentInv'
  <1>1. \A other, text : Kept(other, text)' <=> Kept(other, text)
    BY DEF Kept, Gated, Prepared
  <1>2. \A s, text : Sent(s, text)' <=> Sent(s, text)
    BY DEF Sent, Gated, Prepared
  <1>3. ASSUME NEW other \in App, NEW text \in boxes'[other] PROVE Kept(other, text)
    <2>1. CASE other = app
      BY <1>3, <2>1 DEF IInv, BoxInv
    <2>2. CASE other # app
      <3>1. boxes'[other] = boxes[other]
        BY <2>2 DEF IInv, Typed, App
      <3> QED BY <1>3, <3>1 DEF IInv, BoxInv
    <2> QED BY <2>1, <2>2
  <1>4. BoxInv'
    BY <1>1, <1>3 DEF BoxInv
  <1>5. SentInv'
    BY <1>2 DEF IInv, SentInv
  <1> QED BY <1>4, <1>5

(* A submit to an app.                                                     *)
LEMMA Taken ==
    ASSUME IInv, NEW app \in App, Submit(app), attempt \in Attempt,
           UNCHANGED <<attempt, payload, drafts, tampered>>
    PROVE  BoxInv' /\ SentInv'
  <1>1. \A other, a, text : Gated(other, a, text)' <=> Gated(other, a, text)
    BY DEF Gated, Prepared
  <1>2. boxes'[app] = {} /\ \A other \in App \ {app} : boxes'[other] = boxes[other]
    BY DEF Submit, IInv, Typed, App
  <1>3. sent' = sent \cup {<<app, attempt, boxes[app]>>}
    BY DEF Submit
  <1>4. ASSUME NEW other \in App, NEW text \in boxes'[other] PROVE Kept(other, text)'
    <2>1. other # app /\ text \in boxes[other]
      BY <1>2, <1>4
    <2>2. Kept(other, text)
      BY <2>1 DEF IInv, BoxInv
    <2>3. CASE text.is = "foreign"
      BY <2>2, <2>3 DEF Kept
    <2>4. CASE text.is # "foreign"
      <3>1. PICK a \in Attempt : /\ Gated(other, a, text) /\ a <= attempt
                                 /\ \A t \in sent : t[1] = other => t[2] < a
        BY <2>2, <2>4 DEF Kept
      <3>2. \A t \in sent' : t[1] = other => t[2] < a
        BY <1>3, <2>1, <3>1
      <3> QED BY <1>1, <2>4, <3>1, <3>2 DEF Kept
    <2> QED BY <2>3, <2>4
  <1>5. ASSUME NEW s \in sent', NEW text \in s[3] PROVE Sent(s, text)'
    <2>1. CASE s \in sent
      <3>1. Sent(s, text) /\ s[2] \in Attempt /\ s[2] <= attempt
        BY <1>5, <2>1 DEF IInv, SentInv, OrderInv
      <3>2. CASE text.is = "foreign"
        BY <3>1, <3>2 DEF Sent
      <3>3. CASE text.is # "foreign"
        <4>1. PICK a \in Attempt : /\ Gated(s[1], a, text) /\ a <= s[2]
                                   /\ \A t \in sent : t[1] = s[1] => t[2] < a \/ s[2] <= t[2]
          BY <3>1, <3>3 DEF Sent
        <4>2. \A t \in sent' : t[1] = s[1] => t[2] < a \/ s[2] <= t[2]
          BY <1>3, <3>1, <4>1
        <4> QED BY <1>1, <3>3, <4>1, <4>2 DEF Sent
      <3> QED BY <3>2, <3>3
    <2>2. CASE s \notin sent
      <3>1. s[1] = app /\ s[2] = attempt /\ text \in boxes[app]
        BY <1>3, <1>5, <2>2
      <3>2. Kept(app, text)
        BY <3>1 DEF IInv, BoxInv
      <3>3. CASE text.is = "foreign"
        BY <3>1, <3>2, <3>3 DEF Kept, Sent, IInv, OrderInv
      <3>4. CASE text.is # "foreign"
        <4>1. PICK a \in Attempt : /\ Gated(app, a, text) /\ a <= attempt
                                   /\ \A t \in sent : t[1] = app => t[2] < a
          BY <3>2, <3>4 DEF Kept
        <4>2. \A t \in sent' : t[1] = app => t[2] < a \/ attempt <= t[2]
          BY <1>3, <4>1, BoundsAssumption DEF Attempt
        <4> QED BY <1>1, <3>1, <3>4, <4>1, <4>2 DEF Sent
      <3> QED BY <3>3, <3>4
    <2> QED BY <2>1, <2>2
  <1> QED BY <1>4, <1>5 DEF BoxInv, SentInv

(* Before an attempt has told an app something, the prompt it has for it   *)
(* may be put there, and what the user has on the clipboard.               *)
LEMMA MineIsKept ==
    ASSUME IInv, NEW app \in App, NEW text, attempt \in Attempt, Mine(text),
           Gated(app, attempt, prompt), ~Reached(app, attempt), prompt.is # "foreign"
    PROVE  Kept(app, text)
  <1>1. CASE text = Foreign
    BY <1>1 DEF Kept, Mine, Foreign, Text
  <1>2. CASE text = prompt
    <2>1. \A t \in sent : t[1] = app => t[2] < attempt
      BY BoundsAssumption DEF IInv, OrderInv, Reached, Attempt
    <2>2. attempt <= attempt
      BY BoundsAssumption DEF Attempt
    <2> QED BY <1>2, <2>1, <2>2 DEF Kept
  <1> QED BY <1>1, <1>2 DEF Mine

LEMMA PmPasteKeeps == ASSUME IInv, PastePmPrompt PROVE BoxInv' /\ SentInv'
  <1>1. "pm" \in App /\ attempt \in Attempt
    BY DEF PastePmPrompt, At, IInv, Typed, App
  <1>2. /\ UNCHANGED <<attempt, payload, sent, drafts, tampered>>
        /\ \E box \in Pasted("pm") \cup {{}} : boxes' = [boxes EXCEPT !.pm = box]
    BY DEF PastePmPrompt, queue, desk, meddling, history
  <1>3. boxes' = [boxes EXCEPT !["pm"] = boxes'["pm"]] /\ boxes'["pm"] \subseteq boxes["pm"] \cup {clipboard}
    BY <1>2 DEF Pasted, IInv, Typed
  <1>4. Gated("pm", attempt, prompt) /\ prompt.is # "foreign" /\ Mine(clipboard)
    BY <1>1 DEF PastePmPrompt, At, IInv, PromptInv, ToPm, Gated, Prepared
  <1>5. ~Reached("pm", attempt)
    BY DEF PastePmPrompt, At, IInv, OrderInv, BeforePm, ToPm
  <1>6. Kept("pm", clipboard)
    BY <1>1, <1>4, <1>5, MineIsKept
  <1> QED BY <1>1, <1>2, <1>3, <1>6, Filled

LEMMA AgentPasteKeeps == ASSUME IInv, PasteAgentPrompt PROVE BoxInv' /\ SentInv'
  <1>1. "agent" \in App /\ attempt \in Attempt
    BY DEF PasteAgentPrompt, At, IInv, Typed, App
  <1>2. /\ UNCHANGED <<attempt, payload, sent, drafts, tampered>>
        /\ \E box \in Pasted("agent") \cup {boxes.agent} : boxes' = [boxes EXCEPT !.agent = box]
    BY DEF PasteAgentPrompt, queue, desk, meddling, history
  <1>3. /\ boxes' = [boxes EXCEPT !["agent"] = boxes'["agent"]]
        /\ boxes'["agent"] \subseteq boxes["agent"] \cup {clipboard}
    BY <1>2 DEF Pasted, IInv, Typed
  <1>4. Gated("agent", attempt, prompt) /\ prompt.is # "foreign" /\ Mine(clipboard)
    BY <1>1 DEF PasteAgentPrompt, At, IInv, PromptInv, ToAgent, Gated, Prepared
  <1>5. ~Reached("agent", attempt)
    BY DEF PasteAgentPrompt, At, IInv, OrderInv, Submitted
  <1>6. Kept("agent", clipboard)
    BY <1>1, <1>4, <1>5, MineIsKept
  <1> QED BY <1>1, <1>2, <1>3, <1>6, Filled

LEMMA ExtractKeeps == ASSUME IInv, ExtractPrompt PROVE BoxInv' /\ SentInv'
  <1>1. attempt \in Attempt /\ payload[attempt].is # "agent"
    BY DEF ExtractPrompt, At, IInv, Typed, OrderInv, BeforeQueue, Nothing, Text
  <1>2. \A a \in Attempt \ {attempt} : payload'[a] = payload[a]
    BY DEF ExtractPrompt, IInv, Typed
  <1>3. \A app, a, text : Gated(app, a, text) => Gated(app, a, text)'
    BY <1>1, <1>2 DEF Gated, Prepared
  <1>4. UNCHANGED <<boxes, sent, drafts, tampered, attempt>>
    BY DEF ExtractPrompt, desk, meddling, history
  <1>5. attempt \in Nat /\ attempt <= attempt
    BY DEF IInv, Typed
  <1> QED BY <1>3, <1>4, <1>5, Unmoved

LEMMA DraftKeeps == ASSUME IInv, NEW app \in App, UserTypes(app) PROVE BoxInv' /\ SentInv'
  <1>1. /\ UNCHANGED <<attempt, payload, sent, tampered>>
        /\ drafts' = drafts \cup {app}
        /\ boxes' = [boxes EXCEPT ![app] = @ \cup {Foreign}]
    BY DEF UserTypes, queue, history
  <1>2. \A other, a, text : Gated(other, a, text)' <=> Gated(other, a, text)
    BY <1>1 DEF Gated, Prepared
  <1>3. ASSUME NEW other \in App, NEW text \in boxes'[other] PROVE Kept(other, text)'
    <2>1. text \in boxes[other] \/ (other = app /\ text = Foreign)
      BY <1>1, <1>3 DEF IInv, Typed, App
    <2>2. CASE text \in boxes[other]
      <3>1. Kept(other, text)
        BY <2>2 DEF IInv, BoxInv
      <3> QED BY <1>1, <1>2, <3>1 DEF Kept
    <2>3. CASE other = app /\ text = Foreign
      BY <1>1, <2>3 DEF Kept, Foreign, Text
    <2> QED BY <2>1, <2>2, <2>3
  <1>4. ASSUME NEW s \in sent, NEW text \in s[3] PROVE Sent(s, text)'
    <2>1. Sent(s, text)
      BY <1>4 DEF IInv, SentInv
    <2> QED BY <1>1, <1>2, <2>1 DEF Sent
  <1> QED BY <1>1, <1>3, <1>4 DEF BoxInv, SentInv

LEMMA SentStep == ASSUME IInv, Next PROVE BoxInv' /\ SentInv'
  <1>1. ASSUME UNCHANGED <<boxes, sent, payload, drafts>>, tampered \subseteq tampered',
               attempt' \in Nat, attempt <= attempt'
        PROVE  BoxInv' /\ SentInv'
    <2>1. \A app, a, text : Gated(app, a, text) => Gated(app, a, text)'
      BY <1>1 DEF Gated, Prepared
    <2> QED BY <1>1, <2>1, Unmoved
  <1>2. attempt \in Nat /\ attempt <= attempt
    BY DEF IInv, Typed
  <1>3. CASE Start
    BY <1>1, <1>2, <1>3 DEF Start, queue, desk, meddling, history
  <1>4. CASE Expire \/ Raise \/ ReadReport \/ ActivatePm \/ ReactivatePm \/ ActivateAgent
    BY <1>1, <1>2, <1>4
       DEF Expire, Raise, Fail, ReadReport, ActivatePm, ReactivatePm, ActivateAgent, Pass, queue, desk,
           meddling, history
  <1>5. CASE CopyPmPrompt \/ CopyAgentPrompt \/ WaitForAnswer \/ CaptureResponse \/ SaveResponse
    BY <1>1, <1>2, <1>5
       DEF CopyPmPrompt, CopyAgentPrompt, CopyTo, WaitForAnswer, CaptureResponse, SaveResponse, queue,
           desk, meddling, history
  <1>6. CASE PastePmPrompt \/ PasteAgentPrompt \/ ExtractPrompt
    BY <1>6, PmPasteKeeps, AgentPasteKeeps, ExtractKeeps
  <1>7. CASE SubmitPmPrompt
    <2>1. "pm" \in App /\ attempt \in Attempt /\ Submit("pm")
      BY <1>7 DEF SubmitPmPrompt, At, App, IInv, Typed
    <2>2. UNCHANGED <<attempt, payload, drafts, tampered>>
      BY <1>7 DEF SubmitPmPrompt, queue, desk, meddling
    <2> QED BY <2>1, <2>2, Taken
  <1>8. CASE SubmitAgentPrompt
    <2>1. "agent" \in App /\ attempt \in Attempt
      BY <1>8 DEF SubmitAgentPrompt, At, App, IInv, Typed
    <2>2. /\ UNCHANGED <<attempt, payload, drafts, tampered>>
          /\ Submit("agent") \/ UNCHANGED <<boxes, sent>>
      BY <1>8 DEF SubmitAgentPrompt, queue, desk, meddling
    <2>3. CASE Submit("agent")
      BY <2>1, <2>2, <2>3, Taken
    <2>4. CASE UNCHANGED <<boxes, sent>>
      BY <1>1, <1>2, <2>2, <2>4
    <2> QED BY <2>2, <2>3, <2>4
  <1>9. CASE Enqueue \/ Stage \/ GateStaged \/ ReadBack \/ InspectBeforeSubmit \/ TakeSnapshot
    BY <1>1, <1>2, <1>9
       DEF Enqueue, Stage, GateStaged, ReadBack, InspectBeforeSubmit, TakeSnapshot, queue, desk,
           meddling, history
  <1>10. CASE ConfirmSubmit \/ AwaitArtifact \/ PopStopped \/ PopConfirmed \/ PopArtifact
    BY <1>1, <1>2, <1>10
       DEF ConfirmSubmit, AwaitArtifact, PopStopped, PopConfirmed, PopArtifact, Pop, queue, desk,
           meddling, history
  <1>11. CASE PmAnswers \/ UserCopies \/ WriteReport
    BY <1>1, <1>2, <1>11
       DEF PmAnswers, UserCopies, Meddle, WriteReport, queue, desk, meddling, history
  <1>12. CASE \E app \in App : UserTypes(app)
    BY <1>12, DraftKeeps
  <1>13. CASE \E c \in Attempt : PeerTakes(c) \/ OwnerCompletes(c)
    BY <1>1, <1>2, <1>13 DEF PeerTakes, OwnerCompletes, desk, meddling, history
  <1> QED BY <1>3, <1>4, <1>5, <1>6, <1>7, <1>8, <1>9, <1>10, <1>11, <1>12, <1>13
          DEF Next, Roundtrip, Environment

LEMMA ResultStep == ASSUME IInv, Next PROVE ResultInv'
  <1> USE DEF IInv, Typed, ResultInv, OrderInv, Reached, App, Outcome, Unsent, Popped,
          Phase, ToPm, Answering, ToAgent, Submitted, At, Goto, work, queue, disk, desk, meddling, history
  <1>1. CASE Expire \/ Raise
    BY <1>1 DEF Expire, Fail, Finish, Guarded, Raise, MayRaise
  <1>2. CASE Start
    BY <1>2, BoundsAssumption DEF Start, Attempt
  <1>3. CASE ReadReport
    BY <1>3 DEF ReadReport, Finish
  <1>4. CASE ActivatePm \/ ReactivatePm \/ ActivateAgent
    BY <1>4 DEF ActivatePm, Pass, ReactivatePm, ActivateAgent
  <1>5. CASE CopyPmPrompt \/ CopyAgentPrompt
    BY <1>5 DEF CopyPmPrompt, CopyTo, CopyAgentPrompt
  <1>6. CASE PastePmPrompt
    BY <1>6 DEF PastePmPrompt, Pasted, Finish
  <1>7. CASE SubmitPmPrompt
    BY <1>7 DEF SubmitPmPrompt, Submit, Question
  <1>8. CASE WaitForAnswer
    BY <1>8 DEF WaitForAnswer
  <1>9. CASE CaptureResponse
    BY <1>9 DEF CaptureResponse
  <1>10. CASE SaveResponse
    BY <1>10 DEF SaveResponse
  <1>11. CASE ExtractPrompt
    BY <1>11 DEF ExtractPrompt
  <1>12. CASE Enqueue
    BY <1>12 DEF Enqueue
  <1>13. CASE Stage
    BY <1>13 DEF Stage, Finish
  <1>14. CASE GateStaged
    BY <1>14 DEF GateStaged, Finish
  <1>15. CASE ReadBack
    BY <1>15 DEF ReadBack, Finish
  <1>16. CASE PasteAgentPrompt
    BY <1>16 DEF PasteAgentPrompt, Pasted, Finish
  <1>17. CASE InspectBeforeSubmit \/ TakeSnapshot
    BY <1>17, ZenonT(60) DEF InspectBeforeSubmit, TakeSnapshot
  <1>18. CASE SubmitAgentPrompt
    BY <1>18 DEF SubmitAgentPrompt, Submit
  <1>19. CASE ConfirmSubmit \/ AwaitArtifact
    BY <1>19 DEF ConfirmSubmit, Finish, AwaitArtifact
  <1>20. CASE PopStopped \/ PopConfirmed \/ PopArtifact
    BY <1>20 DEF PopStopped, Pop, Finish, PopConfirmed, PopArtifact
  <1>21. CASE PmAnswers
    BY <1>21 DEF PmAnswers
  <1>22. CASE UserCopies \/ \E app \in App : UserTypes(app)
    BY <1>22 DEF UserCopies, UserTypes, Meddle
  <1>23. CASE WriteReport
    BY <1>23 DEF WriteReport
  <1>24. CASE \E c \in Attempt : PeerTakes(c)
    BY <1>24 DEF PeerTakes, CanPop
  <1>25. CASE \E c \in Attempt : OwnerCompletes(c)
    BY <1>25 DEF OwnerCompletes
  <1> QED BY <1>1, <1>2, <1>3, <1>4, <1>5, <1>6, <1>7, <1>8, <1>9, <1>10, <1>11, <1>12,
             <1>13, <1>14, <1>15, <1>16, <1>17, <1>18, <1>19, <1>20, <1>21, <1>22,
             <1>23, <1>24, <1>25
             DEF Next, Roundtrip, Environment

LEMMA FreshStep == ASSUME IInv, Next PROVE FreshInv'
  <1> USE DEF IInv, Typed, FreshInv, PromptInv, Mine, Excused, AnswerIsFresh, Phase, ToPm, Answering,
          ToAgent, Submitted, At, Goto, work, queue, disk, desk, meddling, history, Text, Nothing, Foreign
  <1>1. CASE Expire \/ Raise
    BY <1>1 DEF Expire, Fail, Finish, Guarded, Raise, MayRaise
  <1>2. CASE Start
    BY <1>2 DEF Start
  <1>3. CASE ReadReport
    BY <1>3 DEF ReadReport, Finish
  <1>4. CASE ActivatePm \/ ReactivatePm \/ ActivateAgent
    BY <1>4 DEF ActivatePm, Pass, ReactivatePm, ActivateAgent
  <1>5. CASE CopyPmPrompt \/ CopyAgentPrompt
    BY <1>5 DEF CopyPmPrompt, CopyTo, CopyAgentPrompt
  <1>6. CASE PastePmPrompt
    BY <1>6 DEF PastePmPrompt, Pasted, Finish
  <1>7. CASE SubmitPmPrompt
    BY <1>7 DEF SubmitPmPrompt, Submit, Question
  <1>8. CASE WaitForAnswer
    BY <1>8 DEF WaitForAnswer
  <1>9. CASE CaptureResponse
    BY <1>9 DEF CaptureResponse
  <1>10. CASE SaveResponse
    BY <1>10 DEF SaveResponse
  <1>11. CASE ExtractPrompt
    BY <1>11 DEF ExtractPrompt
  <1>12. CASE Enqueue
    BY <1>12 DEF Enqueue
  <1>13. CASE Stage
    BY <1>13 DEF Stage, Finish
  <1>14. CASE GateStaged
    BY <1>14 DEF GateStaged, Finish
  <1>15. CASE ReadBack
    BY <1>15 DEF ReadBack, Finish
  <1>16. CASE PasteAgentPrompt
    BY <1>16 DEF PasteAgentPrompt, Pasted, Finish
  <1>17. CASE InspectBeforeSubmit \/ TakeSnapshot
    BY <1>17 DEF InspectBeforeSubmit, TakeSnapshot
  <1>18. CASE SubmitAgentPrompt
    BY <1>18 DEF SubmitAgentPrompt, Submit
  <1>19. CASE ConfirmSubmit \/ AwaitArtifact
    BY <1>19 DEF ConfirmSubmit, Finish, AwaitArtifact
  <1>20. CASE PopStopped \/ PopConfirmed \/ PopArtifact
    BY <1>20 DEF PopStopped, Pop, Finish, PopConfirmed, PopArtifact
  <1>21. CASE PmAnswers
    BY <1>21 DEF PmAnswers
  <1>22. CASE UserCopies \/ \E app \in App : UserTypes(app)
    BY <1>22 DEF UserCopies, UserTypes, Meddle
  <1>23. CASE WriteReport
    BY <1>23 DEF WriteReport
  <1>24. CASE \E c \in Attempt : PeerTakes(c)
    BY <1>24 DEF PeerTakes, CanPop
  <1>25. CASE \E c \in Attempt : OwnerCompletes(c)
    BY <1>25 DEF OwnerCompletes
  <1> QED BY <1>1, <1>2, <1>3, <1>4, <1>5, <1>6, <1>7, <1>8, <1>9, <1>10, <1>11, <1>12,
             <1>13, <1>14, <1>15, <1>16, <1>17, <1>18, <1>19, <1>20, <1>21, <1>22,
             <1>23, <1>24, <1>25
             DEF Next, Roundtrip, Environment

THEOREM RoundtripInductive == Spec => []IInv
  <1>1. Init => IInv
    BY InitInv
  <1>2. IInv /\ [Next]_vars => IInv'
    <2> SUFFICES ASSUME IInv, [Next]_vars PROVE IInv'
      OBVIOUS
    <2>1. CASE Next
      BY <2>1, TypedStep, PromptStep, OrderStep, SentStep, ResultStep, FreshStep DEF IInv
    <2>2. CASE UNCHANGED vars
      <3>1. UNCHANGED <<attempt, payload, sent, boxes, drafts, tampered>>
        BY <2>2 DEF vars, queue, desk, meddling, history
      <3>2. \A app, text : Kept(app, text)' <=> Kept(app, text)
        BY <3>1 DEF Kept, Gated, Prepared
      <3>3. \A s, text : Sent(s, text)' <=> Sent(s, text)
        BY <3>1 DEF Sent, Gated, Prepared
      <3>4. BoxInv' /\ SentInv'
        BY <3>1, <3>2, <3>3 DEF IInv, BoxInv, SentInv
      <3>5. (Typed /\ PromptInv /\ OrderInv /\ ResultInv /\ FreshInv)'
        BY <2>2 DEF vars, work, queue, disk, desk, meddling, history, IInv, Typed, PromptInv, Mine,
                    OrderInv, Reached, ResultInv, FreshInv, Excused, AnswerIsFresh
      <3> QED BY <3>4, <3>5 DEF IInv
    <2> QED BY <2>1, <2>2
  <1> QED BY <1>1, <1>2, PTL DEF Spec

-----------------------------------------------------------------------------
(* What an app gets was gated in an attempt since which it has got nothing,*)
(* or is the user's; a blocked attempt told the agent nothing.             *)
THEOREM OnlyGatedIsSubmitted == Spec => []SubmittedWasGated
  <1>1. ASSUME IInv PROVE SubmittedWasGated
    <2>1. ASSUME NEW s \in sent, NEW text \in s[3], text.is # "foreign"
          PROVE  /\ ~Hot(text.lines)
                 /\ \E a \in 1..s[2] :
                       /\ Prepared(s[1], a, text)
                       /\ ~\E t \in sent : t[1] = s[1] /\ t[2] \in a..(s[2] - 1)
      <3>1. PICK a \in Attempt : /\ Gated(s[1], a, text) /\ a <= s[2]
                                 /\ \A t \in sent : t[1] = s[1] => t[2] < a \/ s[2] <= t[2]
        BY <1>1, <2>1 DEF IInv, SentInv, Sent
      <3>2. a \in 1..s[2] /\ \A t \in sent : t[2] \in Nat
        BY <1>1, <2>1, <3>1, BoundsAssumption DEF IInv, OrderInv, Attempt
      <3>3. ASSUME NEW t \in sent, t[1] = s[1], t[2] \in a..(s[2] - 1) PROVE FALSE
        BY <1>1, <2>1, <3>1, <3>2, <3>3, BoundsAssumption DEF IInv, OrderInv, Attempt
      <3> QED BY <3>1, <3>2, <3>3 DEF Gated
    <2>2. ASSUME NEW s \in sent, NEW text \in s[3], text.is = "foreign"
          PROVE  s[1] \in drafts \/ \E a \in tampered : a <= s[2]
      BY <1>1, <2>2 DEF IInv, SentInv, Sent
    <2>3. \A a \in Attempt : result[a] = "blocked" =>
              paused /\ ~\E s \in sent : s[1] = "agent" /\ s[2] = a
      BY <1>1 DEF IInv, ResultInv, Reached, Unsent
    <2> QED BY <2>1, <2>2, <2>3 DEF SubmittedWasGated
  <1> QED BY <1>1, RoundtripInductive, PTL

(* The enqueued instruction answers the attempt's own question, unless the *)
(* wait was too short or the user interfered.                              *)
THEOREM AnswersAreFresh == Spec => []AnswerIsFresh
  <1>1. IInv => AnswerIsFresh
    BY DEF IInv, FreshInv
  <1> QED BY <1>1, RoundtripInductive, PTL

(* A submitted command goes to a second consumer only for one of the three *)
(* reasons.                                                                *)
THEOREM SecondHandoversHaveCause == Spec => SecondHandoverHasCause
  <1>1. ASSUME IInv, Next, NEW c \in peers' \ peers,
               \E s \in sent : s[1] = "agent" /\ s[2] = c
        PROVE  c \in ignored \/ result[c] \in {"none", "unconfirmed", "artifact_timeout", "error"}
    <2>1. c \in Attempt /\ PeerTakes(c)
      <3>1. PICK d \in Attempt : PeerTakes(d)
        BY <1>1
           DEF Next, Start, Roundtrip, Environment, Expire, Raise, Fail, ReadReport, ActivatePm,
               ReactivatePm, ActivateAgent, Pass, CopyPmPrompt, CopyAgentPrompt, CopyTo,
               PastePmPrompt, SubmitPmPrompt, WaitForAnswer, CaptureResponse, SaveResponse,
               ExtractPrompt, Enqueue, Stage, GateStaged, ReadBack, PasteAgentPrompt,
               InspectBeforeSubmit, TakeSnapshot, SubmitAgentPrompt, ConfirmSubmit, AwaitArtifact,
               PopStopped, PopConfirmed, PopArtifact, Pop, PmAnswers, UserCopies, UserTypes, WriteReport,
               OwnerCompletes, history
      <3>2. c = d
        BY <1>1, <3>1 DEF PeerTakes
      <3> QED BY <3>1, <3>2
    <2>2. status[c] = "pending"
      BY <2>1 DEF PeerTakes, CanPop
    <2>3. result[c] \notin Unsent
      BY <1>1, <2>1 DEF IInv, ResultInv, Reached
    <2>4. result[c] \in Popped => c \in ignored
      BY <2>1, <2>2, <1>1 DEF IInv, ResultInv
    <2> QED BY <1>1, <2>1, <2>3, <2>4 DEF IInv, Typed, Outcome
  <1>2. IInv /\ [Next]_vars =>
            [\A c \in peers' \ peers :
                 (\E s \in sent : s[1] = "agent" /\ s[2] = c) =>
                     c \in ignored \/ result[c] \in {"none", "unconfirmed", "artifact_timeout",
                                                     "error"}]_vars
    BY <1>1
  <1> QED BY <1>2, RoundtripInductive, PTL DEF Spec, SecondHandoverHasCause

(* The answers are sequences of lines, and so is what is extracted from.   *)
LinesInv == /\ chat.last.lines \in Seq(Line)
            /\ pc = "save_response" => clipboard.lines \in Seq(Line)
            /\ pc = "extract" => response.lines \in Seq(Line)

LEMMA AnswersAreLines == \A lines \in Answers : lines \in Seq(Line)
  <1>1. \A lines \in Seq(STRING) : lines \in Seq(Line)
    BY DEF Line
  <1> QED BY <1>1, AnswersAssumption

LEMMA ForeignIsALine == Foreign.lines \in Seq(Line)
  <1>1. "tagged" \in Line /\ "hot" \in Line /\ "bare" \in Line
    BY DEF Line
  <1>2. <<"tagged", "hot", "bare">> \in Seq(Line)
    BY <1>1
  <1> QED BY <1>2 DEF Foreign, Text

LEMMA LinesStep == ASSUME IInv, LinesInv, Next PROVE LinesInv'
  <1> USE DEF LinesInv, At, Goto, Text, work, queue, disk, desk, meddling, history
  <1>1. CASE Expire \/ Raise
    BY <1>1 DEF Expire, Raise, Fail, Finish
  <1>2. CASE Start \/ ReadReport \/ ActivatePm \/ ReactivatePm \/ ActivateAgent
    BY <1>2 DEF Start, ReadReport, Finish, ActivatePm, ReactivatePm, ActivateAgent, Pass
  <1>3. CASE CopyPmPrompt \/ CopyAgentPrompt \/ PastePmPrompt
    BY <1>3 DEF CopyPmPrompt, CopyAgentPrompt, CopyTo, PastePmPrompt, Finish
  <1>4. CASE SubmitPmPrompt \/ WaitForAnswer
    BY <1>4 DEF SubmitPmPrompt, WaitForAnswer, IInv, Typed
  <1>5. CASE CaptureResponse
    BY <1>5 DEF CaptureResponse
  <1>6. CASE SaveResponse
    BY <1>6 DEF SaveResponse
  <1>7. CASE ExtractPrompt \/ Enqueue \/ Stage \/ GateStaged
    BY <1>7 DEF ExtractPrompt, Enqueue, Stage, GateStaged, Finish
  <1>8. CASE ReadBack \/ PasteAgentPrompt \/ InspectBeforeSubmit \/ TakeSnapshot
    BY <1>8 DEF ReadBack, PasteAgentPrompt, InspectBeforeSubmit, TakeSnapshot, Finish
  <1>9. CASE SubmitAgentPrompt \/ ConfirmSubmit \/ AwaitArtifact
    BY <1>9 DEF SubmitAgentPrompt, ConfirmSubmit, AwaitArtifact, Finish
  <1>10. CASE PopStopped \/ PopConfirmed \/ PopArtifact
    BY <1>10 DEF PopStopped, PopConfirmed, PopArtifact, Pop, Finish
  <1>11. CASE PmAnswers
    <2>1. PICK lines \in Answers :
              chat' = [asked |-> Nothing, last |-> Text("answer", chat.asked.of, lines)]
      BY <1>11 DEF PmAnswers
    <2>2. lines \in Seq(Line)
      BY <2>1, AnswersAreLines
    <2> QED BY <1>11, <2>1, <2>2 DEF PmAnswers
  <1>12. CASE UserCopies \/ \E app \in App : UserTypes(app)
    BY <1>12, ForeignIsALine DEF UserCopies, UserTypes, Meddle
  <1>13. CASE WriteReport \/ \E c \in Attempt : PeerTakes(c) \/ OwnerCompletes(c)
    BY <1>13 DEF WriteReport, PeerTakes, OwnerCompletes
  <1> QED BY <1>1, <1>2, <1>3, <1>4, <1>5, <1>6, <1>7, <1>8, <1>9, <1>10, <1>11, <1>12, <1>13
             DEF Next, Roundtrip, Environment

(* Only an extraction changes what a command says.                         *)
LEMMA PayloadIsExtracted ==
    ASSUME Next, NEW a \in Attempt, payload'[a] # payload[a] PROVE ExtractPrompt
  BY DEF Next, Start, Roundtrip, Environment, Expire, Raise, Fail, ReadReport, ActivatePm,
         ReactivatePm, ActivateAgent, Pass, CopyPmPrompt, CopyAgentPrompt, CopyTo,
         PastePmPrompt, SubmitPmPrompt, WaitForAnswer, CaptureResponse, SaveResponse,
         Enqueue, Stage, GateStaged, ReadBack, PasteAgentPrompt,
         InspectBeforeSubmit, TakeSnapshot, SubmitAgentPrompt, ConfirmSubmit, AwaitArtifact,
         PopStopped, PopConfirmed, PopArtifact, Pop, PmAnswers, UserCopies, UserTypes, WriteReport,
         PeerTakes, OwnerCompletes, queue

(* What is enqueued is all that the response instructs, whatever the PM    *)
(* assistant answers and whoever takes the clipboard meanwhile.            *)
THEOREM OnlyTheInstructionIsEnqueued == Spec => ExtractedIsTheBlock
  <1>1. ASSUME Init PROVE LinesInv
    <2>1. Nothing.lines \in Seq(Line)
      BY DEF Nothing, Text
    <2>2. pc = "idle" /\ chat.last = Nothing
      BY <1>1 DEF Init
    <2> QED BY <2>1, <2>2 DEF LinesInv
  <1>2. IInv /\ LinesInv /\ [Next]_vars => LinesInv'
    <2> SUFFICES ASSUME IInv, LinesInv, [Next]_vars PROVE LinesInv'
      OBVIOUS
    <2>1. CASE UNCHANGED vars
      BY <2>1 DEF vars, work, desk, LinesInv
    <2> QED BY <2>1, LinesStep
  <1>3. ASSUME IInv, LinesInv, Next, NEW a \in Attempt, payload'[a] # payload[a]
        PROVE  IsTheInstruction(payload'[a].lines, response.lines)
    <2>1. /\ response.lines \in Seq(Line) /\ Extractable(response.lines)
          /\ payload' = [payload EXCEPT ![attempt] =
                            Text("agent", response.of, Extract(response.lines))]
      BY <1>3, PayloadIsExtracted DEF ExtractPrompt, At, LinesInv
    <2>2. payload'[a].lines = Extract(response.lines)
      BY <1>3, <2>1 DEF IInv, Typed, Text
    <2> QED BY <2>1, <2>2, ExtractIsTheInstruction
  <1>4. IInv /\ LinesInv /\ [Next]_vars =>
            [\A a \in Attempt :
                 payload'[a] # payload[a] =>
                     IsTheInstruction(payload'[a].lines, response.lines)]_vars
    BY <1>3
  <1> QED BY <1>1, <1>2, <1>4, RoundtripInductive, PTL DEF Spec, ExtractedIsTheBlock
=============================================================================
