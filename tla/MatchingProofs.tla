--------------------------- MODULE MatchingProofs ---------------------------
(***************************************************************************)
(* knuth_morris_pratt and boyer_moore answer exactly whether the pattern   *)
(* occurs in the text, for every alphabet, pattern and text.               *)
(***************************************************************************)
EXTENDS Matching, TLAPS

\* The loops that compute pi: nothing longer than k can be extended by the
\* next character, and the entries so far are the longest borders.
PrefixInv ==
    pc = "prefix" =>
        /\ i \in 1 .. m /\ k < i /\ Border(k, i)
        /\ i < m => \A l \in k + 1 .. i - 1 : Border(l, i) => pattern[l] # pattern[i]
        /\ \A x \in 0 .. i - 1 : LongestBorder(pi[x], x + 1)

MatchInv ==
    pc = "match" =>
        /\ i \in 0 .. n /\ k <= i /\ Ends(k, i)
        /\ i < n => \A l \in k + 1 .. m - 1 :
                        l <= i /\ Ends(l, i) => pattern[l] # text[i]
        /\ \A o \in Offsets : o + m <= i => ~OccursAt(o)
        /\ \A x \in 0 .. m - 1 : LongestBorder(pi[x], x + 1)

\* bad_char knows the last position of each character before position e.
LastBefore(e) ==
    \A c \in Alphabet : \A x \in 0 .. e - 1 : x > bad_char[c] => pattern[x] # c

ScanInv ==
    /\ pc = "table" => i \in 0 .. m /\ LastBefore(i) /\ s = 0 /\ j = m - 1
    /\ pc = "scan" =>
        /\ LastBefore(m)
        /\ \A o \in Offsets : o < s => ~OccursAt(o)
        /\ s <= n - m => \A x \in j + 1 .. m - 1 : pattern[x] = text[s + x]

MInv == TypeOK /\ PrefixInv /\ MatchInv /\ ScanInv /\ Exact
-----------------------------------------------------------------------------
(* Facts about Agree.                                                      *)

\* Of two prefixes that end the same text, the shorter ends the longer.
LEMMA AgreeShrink ==
    ASSUME NEW p, NEW q, NEW e \in Int, NEW l \in Nat, NEW b \in Nat, b <= l,
           Agree(p, q, l, e), Agree(p, q, b, e)
    PROVE  Agree(p, p, b, l)
<1> SUFFICES ASSUME NEW x \in 0 .. b - 1 PROVE p[x] = p[l - b + x]
  BY DEF Agree
<1>1. p[x] = q[e - b + x]
  BY DEF Agree
<1>2. l - b + x \in 0 .. l - 1 /\ e - l + (l - b + x) = e - b + x
  OBVIOUS
<1>3. p[l - b + x] = q[e - b + x]
  BY <1>2 DEF Agree
<1> QED BY <1>1, <1>3

\* A prefix that ends a longer prefix ends whatever that one ends.
LEMMA AgreeCompose ==
    ASSUME NEW p, NEW q, NEW e \in Int, NEW l \in Nat, NEW b \in Nat, b <= l,
           Agree(p, q, l, e), Agree(p, p, b, l)
    PROVE  Agree(p, q, b, e)
<1> SUFFICES ASSUME NEW x \in 0 .. b - 1 PROVE p[x] = q[e - b + x]
  BY DEF Agree
<1>1. p[x] = p[l - b + x]
  BY DEF Agree
<1>2. l - b + x \in 0 .. l - 1 /\ e - l + (l - b + x) = e - b + x
  OBVIOUS
<1>3. p[l - b + x] = q[e - b + x]
  BY <1>2 DEF Agree
<1> QED BY <1>1, <1>3

\* One more character.
LEMMA AgreeExtend ==
    ASSUME NEW p, NEW q, NEW e \in Int, NEW l \in Nat
    PROVE  Agree(p, q, l + 1, e + 1) <=> Agree(p, q, l, e) /\ p[l] = q[e]
<1>1. \A x \in Int : (e + 1) - (l + 1) + x = e - l + x
  OBVIOUS
<1>2. ASSUME Agree(p, q, l + 1, e + 1) PROVE Agree(p, q, l, e) /\ p[l] = q[e]
  <2>1. \A x \in 0 .. l : p[x] = q[e - l + x]
    BY <1>1, <1>2 DEF Agree
  <2>2. e - l + l = e /\ l \in 0 .. l
    OBVIOUS
  <2> QED BY <2>1, <2>2 DEF Agree
<1>3. ASSUME Agree(p, q, l, e), p[l] = q[e] PROVE Agree(p, q, l + 1, e + 1)
  <2> SUFFICES ASSUME NEW x \in 0 .. l PROVE p[x] = q[e - l + x]
    BY <1>1 DEF Agree
  <2>1. CASE x = l
    BY <2>1, <1>3
  <2>2. CASE x < l
    BY <2>2, <1>3 DEF Agree
  <2> QED BY <2>1, <2>2
<1> QED BY <1>2, <1>3

\* The empty prefix ends everywhere.
LEMMA AgreeEmpty ==
    ASSUME NEW p, NEW q, NEW e \in Int
    PROVE  Agree(p, q, 0, e)
BY DEF Agree

\* An occurrence is the whole pattern ending in the text.
LEMMA OccursEnds ==
    ASSUME m \in Nat, NEW o \in Int
    PROVE  OccursAt(o) <=> Ends(m, o + m)
<1>1. \A x \in Int : (o + m) - m + x = o + x
  OBVIOUS
<1> QED BY <1>1 DEF OccursAt, Ends, Agree
-----------------------------------------------------------------------------
(* The conjuncts of TypeOK.                                                *)

\* The types, spelt out.
LEMMA TypeFacts ==
    ASSUME TypeOK
    PROVE  /\ StringsOK /\ IndicesOK
           /\ m \in 1 .. MaxPattern /\ n \in 0 .. MaxText
           /\ m \in Nat \ {0} /\ n \in Nat
<1>1. StringsOK /\ IndicesOK
  BY Zenon DEF TypeOK
<1>2. m \in 1 .. MaxPattern /\ n \in 0 .. MaxText
  BY <1>1 DEF StringsOK
<1> QED BY <1>1, <1>2, MatchingAssumption

\* Between a and e.
LEMMA IntervalFacts ==
    ASSUME NEW a \in Nat, NEW e \in Nat, NEW b \in a + 1 .. e
    PROVE  b \in Nat /\ a < b /\ b <= e
OBVIOUS

\* The strings do not change, so their types do not.
LEMMA SameStrings ==
    ASSUME StringsOK, UNCHANGED <<m, n, pattern, text>>
    PROVE  StringsOK'
BY DEF StringsOK, Strings

\* The invariant when a function is called.
LEMMA MatchingInit == Init => MInv
<1> SUFFICES ASSUME Init PROVE MInv
  OBVIOUS
<1>0. m \in 1 .. MaxPattern /\ n \in 0 .. MaxText /\ m \in Nat \ {0} /\ n \in Nat
  BY MatchingAssumption DEF Init
<1>1. TypeOK
  <2>1. StringsOK
    BY Zenon DEF StringsOK, Init
  <2>2. IndicesOK
    BY <1>0 DEF IndicesOK, Init
  <2> QED BY <2>1, <2>2, Zenon DEF TypeOK, Init
<1>2. PrefixInv
  <2>1. Border(0, 1)
    BY AgreeEmpty DEF Border
  <2>2. pi[0] = 0
    BY <1>0 DEF Init
  <2> QED BY <1>0, <2>1, <2>2 DEF PrefixInv, LongestBorder, Init
<1>3. MatchInv /\ Exact
  BY DEF MatchInv, Exact, Init
<1>4. ScanInv
  BY <1>0 DEF ScanInv, LastBefore, Init
<1> QED BY <1>1, <1>2, <1>3, <1>4 DEF MInv
-----------------------------------------------------------------------------
(* knuth_morris_pratt, first loop.                                         *)

\* A fallback while the table is filled gives up no border that can grow.
LEMMA PrefixFallInv == MInv /\ PrefixFall => MInv'
<1> SUFFICES ASSUME MInv, PrefixFall PROVE MInv'
  OBVIOUS
<1>0. /\ StringsOK /\ IndicesOK /\ result \in BOOLEAN
      /\ m \in Nat \ {0}
  BY TypeFacts, Zenon DEF MInv, TypeOK
<1>1. /\ pc = "prefix" /\ pc' = "prefix" /\ i \in 1 .. m /\ i < m
      /\ k \in 1 .. i - 1 /\ k' = pi[k - 1] /\ m \in Nat \ {0}
  BY <1>0 DEF MInv, IndicesOK, PrefixInv, PrefixFall, FallBack
<1>a. /\ pattern[k] # pattern[i]
      /\ Border(k, i)
      /\ \A l \in k + 1 .. i - 1 : Border(l, i) => pattern[l] # pattern[i]
  BY <1>1 DEF MInv, PrefixInv, PrefixFall
<1>2. UNCHANGED <<m, n, pattern, text, i, pi, bad_char, s, j, result>>
  BY DEF PrefixFall, strings, bmVars
<1>3. LongestBorder(k', k) /\ k' \in 0 .. k - 1 /\ Border(k', k)
  BY <1>1 DEF MInv, PrefixInv, LongestBorder
<1>4. TypeOK'
  <2>1. StringsOK'
    BY <1>0, <1>2, SameStrings
  <2>2. k' \in 0 .. m - 1
    BY <1>1, <1>3
  <2>3. IndicesOK'
    BY <2>2, <1>0, <1>1, <1>2 DEF IndicesOK
  <2> QED BY <2>1, <2>3, <1>0, <1>1, <1>2, Zenon DEF TypeOK
<1>5. Border(k', i)
  BY <1>1, <1>a, <1>3, AgreeCompose DEF Border
<1>6. ASSUME NEW l \in k' + 1 .. i - 1, Border(l, i) PROVE pattern[l] # pattern[i]
  <2>1. CASE l > k
    BY <2>1, <1>1, <1>a, <1>3, <1>6
  <2>2. CASE l = k
    BY <2>2, <1>a
  <2>3. CASE l < k
    <3>1. Border(l, k)
      BY <2>3, <1>1, <1>a, <1>3, <1>6, AgreeShrink DEF Border
    <3> QED BY <3>1, <2>3, <1>1, <1>3 DEF LongestBorder
  <2> QED BY <2>1, <2>2, <2>3, <1>1, <1>3
<1>7. PrefixInv'
  BY <1>1, <1>2, <1>3, <1>5, <1>6 DEF MInv, PrefixInv, LongestBorder, Border
<1>8. MatchInv' /\ ScanInv' /\ Exact'
  BY <1>1 DEF MatchInv, ScanInv, Exact
<1> QED BY <1>4, <1>7, <1>8 DEF MInv

\* An entry of pi is the longest border.
LEMMA PrefixStepInv == MInv /\ PrefixStep => MInv'
<1> SUFFICES ASSUME MInv, PrefixStep PROVE MInv'
  OBVIOUS
<1>0. /\ StringsOK /\ IndicesOK /\ result \in BOOLEAN
      /\ m \in Nat \ {0}
  BY TypeFacts, Zenon DEF MInv, TypeOK
<1>1. /\ pc = "prefix" /\ pc' = "prefix" /\ i \in 1 .. m /\ i < m
      /\ k \in 0 .. i - 1 /\ m \in Nat \ {0} /\ i' = i + 1
  BY <1>0 DEF MInv, IndicesOK, PrefixInv, PrefixStep
<1>d. pi' = [pi EXCEPT ![i] = k'] /\ pi \in [0 .. m - 1 -> 0 .. m - 1]
  BY <1>0, Zenon DEF IndicesOK, PrefixStep
<1>a. k = 0 \/ pattern[k] = pattern[i]
  BY DEF PrefixStep
<1>b. k' = IF pattern[k] = pattern[i] THEN k + 1 ELSE k
  BY DEF PrefixStep, Extended
<1>c. /\ Border(k, i)
      /\ \A l \in k + 1 .. i - 1 : Border(l, i) => pattern[l] # pattern[i]
      /\ \A x \in 0 .. i - 1 : LongestBorder(pi[x], x + 1)
  BY <1>1 DEF MInv, PrefixInv
<1>2. UNCHANGED <<m, n, pattern, text, bad_char, s, j, result>>
  BY DEF PrefixStep, strings, bmVars
<1>3. k' \in 0 .. i
  BY <1>1, <1>b
<1>4. TypeOK'
  <2>1. StringsOK'
    BY <1>0, <1>2, SameStrings
  <2>2. IndicesOK'
    BY <1>0, <1>1, <1>2, <1>3, <1>d DEF IndicesOK
  <2> QED BY <2>1, <2>2, <1>0, <1>1, <1>2, Zenon DEF TypeOK
<1>5. Border(k', i + 1)
  <2>1. CASE pattern[k] = pattern[i]
    BY <2>1, <1>1, <1>b, <1>c, AgreeExtend DEF Border
  <2>2. CASE pattern[k] # pattern[i]
    BY <2>2, <1>1, <1>a, <1>b, AgreeEmpty DEF Border
  <2> QED BY <2>1, <2>2
<1>6. ASSUME NEW b \in Nat, k' < b, b <= i, Border(b, i + 1) PROVE FALSE
  <2> DEFINE l == b - 1
  <2>1. l \in Nat /\ b = l + 1 /\ k' <= l /\ l <= i - 1
    BY <1>1, <1>3, <1>6
  <2>a. Agree(pattern, pattern, l + 1, i + 1)
    BY <2>1, <1>6 DEF Border
  <2> HIDE DEF l
  <2>2. Border(l, i) /\ pattern[l] = pattern[i]
    BY <2>1, <2>a, <1>1, AgreeExtend DEF Border
  <2>3. l > k
    BY <2>1, <2>2, <1>1, <1>b
  <2> QED BY <2>1, <2>2, <2>3, <1>1, <1>c
<1>7. LongestBorder(k', i + 1)
  <2>1. k' \in 0 .. (i + 1) - 1
    BY <1>1, <1>3
  <2>2. ASSUME NEW b, b \in k' + 1 .. (i + 1) - 1 PROVE ~Border(b, i + 1)
    <3>0. (i + 1) - 1 = i /\ k' \in Nat /\ i \in Nat
      BY <1>1, <1>3
    <3>1. b \in Nat /\ k' < b /\ b <= i
      BY <3>0, <2>2, IntervalFacts, Zenon
    <3> QED BY <3>1, <1>6
  <2> QED BY <2>1, <2>2, <1>5 DEF LongestBorder
<1>8. \A l, e : (Border(l, e))' <=> Border(l, e)
  BY <1>2 DEF Border
<1>9. \A x \in 0 .. i : LongestBorder(pi'[x], x + 1)
  <2> TAKE x \in 0 .. i
  <2>1. CASE x = i
    BY <2>1, <1>1, <1>7, <1>d
  <2>2. CASE x < i
    <3>1. pi'[x] = pi[x] /\ x \in 0 .. i - 1
      BY <2>2, <1>1, <1>d
    <3> QED BY <3>1, <1>c
  <2> QED BY <2>1, <2>2, <1>1
<1>10. \A x \in 0 .. i : (LongestBorder(pi[x], x + 1))'
  BY <1>9, <1>2 DEF LongestBorder, Border
<1>11. \A l \in k' + 1 .. i' - 1 : ~(Border(l, i))'
  <2>1. i' = i + 1 /\ i' - 1 = i
    BY <1>1
  <2>2. k' \in Nat /\ i \in Nat
    BY <1>1, <1>3
  <2>3. \A l \in k' + 1 .. i : l \in Nat /\ k' < l /\ l <= i
    BY <2>2, IntervalFacts, Zenon
  <2> QED BY <2>1, <2>3, <1>6, <1>8
<1>12. PrefixInv'
  <2>1. i' \in 1 .. m' /\ k' < i' /\ i' - 1 = i
    BY <1>1, <1>2, <1>3
  <2>2. (Border(k, i))'
    BY <1>1, <1>5, <1>8
  <2> QED BY <2>1, <2>2, <1>1, <1>10, <1>11 DEF PrefixInv
<1>13. MatchInv' /\ ScanInv' /\ Exact'
  BY <1>1 DEF MatchInv, ScanInv, Exact
<1> QED BY <1>4, <1>12, <1>13 DEF MInv

\* The table is complete when the loop ends.
LEMMA PrefixEndInv == MInv /\ PrefixEnd => MInv'
<1> SUFFICES ASSUME MInv, PrefixEnd PROVE MInv'
  OBVIOUS
<1>0. /\ StringsOK /\ IndicesOK /\ result \in BOOLEAN
      /\ m \in Nat \ {0} /\ n \in Nat
  BY TypeFacts, Zenon DEF MInv, TypeOK
<1>1. /\ pc = "prefix" /\ pc' = "match" /\ i = m /\ i' = 0 /\ k' = 0
      /\ \A x \in 0 .. m - 1 : LongestBorder(pi[x], x + 1)
  BY <1>0 DEF MInv, PrefixInv, PrefixEnd
<1>2. UNCHANGED <<m, n, pattern, text, pi, bad_char, s, j, result>>
  BY DEF PrefixEnd, strings, bmVars
<1>3. TypeOK'
  <2>1. StringsOK'
    BY <1>0, <1>2, SameStrings
  <2>2. IndicesOK'
    BY <1>0, <1>1, <1>2, SMTT(40) DEF IndicesOK
  <2> QED BY <2>1, <2>2, <1>0, <1>1, <1>2, Zenon DEF TypeOK
<1>4. \A x \in 0 .. m - 1 : (LongestBorder(pi[x], x + 1))'
  BY <1>1, <1>2 DEF LongestBorder, Border
<1>5. (Ends(0, 0))'
  BY AgreeEmpty DEF Ends
<1>6. MatchInv'
  <2>1. /\ i' \in 0 .. n' /\ k' <= i'
        /\ \A l \in k' + 1 .. m' - 1 : ~(l <= i')
        /\ \A o \in Offsets' : ~(o + m' <= i')
    BY <1>0, <1>1, <1>2 DEF Offsets
  <2> QED BY <2>1, <1>1, <1>2, <1>4, <1>5 DEF MatchInv
<1>7. PrefixInv' /\ ScanInv' /\ Exact'
  BY <1>1 DEF PrefixInv, ScanInv, Exact
<1> QED BY <1>3, <1>6, <1>7 DEF MInv
-----------------------------------------------------------------------------
(* knuth_morris_pratt, second loop.                                        *)

\* A fallback in the text gives up no prefix that can grow.
LEMMA MatchFallInv == MInv /\ MatchFall => MInv'
<1> SUFFICES ASSUME MInv, MatchFall PROVE MInv'
  OBVIOUS
<1>0. /\ StringsOK /\ IndicesOK /\ result \in BOOLEAN
      /\ m \in Nat \ {0} /\ n \in Nat
  BY TypeFacts, Zenon DEF MInv, TypeOK
<1>1. /\ pc = "match" /\ pc' = "match" /\ i \in 0 .. n /\ i < n
      /\ k \in 1 .. m - 1 /\ k <= i /\ k' = pi[k - 1]
  BY <1>0 DEF MInv, IndicesOK, MatchInv, MatchFall, FallBack
<1>a. /\ pattern[k] # text[i]
      /\ Ends(k, i)
      /\ \A l \in k + 1 .. m - 1 : l <= i /\ Ends(l, i) => pattern[l] # text[i]
      /\ \A o \in Offsets : o + m <= i => ~OccursAt(o)
      /\ \A x \in 0 .. m - 1 : LongestBorder(pi[x], x + 1)
  BY <1>1 DEF MInv, MatchInv, MatchFall
<1>2. UNCHANGED <<m, n, pattern, text, i, pi, bad_char, s, j, result>>
  BY DEF MatchFall, strings, bmVars
<1>3. LongestBorder(k', k) /\ k' \in 0 .. k - 1 /\ Border(k', k)
  BY <1>0, <1>1, <1>a DEF LongestBorder
<1>4. TypeOK'
  <2>1. StringsOK'
    BY <1>0, <1>2, SameStrings
  <2>2. k' \in 0 .. m - 1
    BY <1>0, <1>1, <1>3
  <2>3. IndicesOK'
    BY <2>2, <1>0, <1>1, <1>2 DEF IndicesOK
  <2> QED BY <2>1, <2>3, <1>0, <1>1, <1>2, Zenon DEF TypeOK
<1>5. Ends(k', i)
  BY <1>0, <1>1, <1>a, <1>3, AgreeCompose DEF Ends, Border
<1>6. ASSUME NEW l \in Nat, k' < l, l <= m - 1, l <= i, Ends(l, i)
      PROVE  pattern[l] # text[i]
  <2>1. CASE l > k
    BY <2>1, <1>0, <1>1, <1>a, <1>6
  <2>2. CASE l = k
    BY <2>2, <1>a
  <2>3. CASE l < k
    <3>1. Border(l, k)
      BY <2>3, <1>1, <1>a, <1>6, AgreeShrink DEF Ends, Border
    <3> QED BY <3>1, <2>3, <1>1, <1>3, <1>6 DEF LongestBorder
  <2> QED BY <2>1, <2>2, <2>3, <1>1
<1>7. \A l \in k' + 1 .. m - 1 : l <= i /\ Ends(l, i) => pattern[l] # text[i]
  <2>1. k' \in Nat /\ m - 1 \in Nat
    BY <1>0, <1>1, <1>3
  <2>2. \A l \in k' + 1 .. m - 1 : l \in Nat /\ k' < l /\ l <= m - 1
    BY <2>1, IntervalFacts, Zenon
  <2> QED BY <2>2, <1>6
<1>8. MatchInv'
  <2>1. k' <= i
    BY <1>0, <1>1, <1>3
  <2> QED BY <2>1, <1>1, <1>a, <1>2, <1>5, <1>7
          DEF MatchInv, LongestBorder, Border, Ends, Offsets, OccursAt
<1>9. PrefixInv' /\ ScanInv' /\ Exact'
  BY <1>1 DEF PrefixInv, ScanInv, Exact
<1> QED BY <1>4, <1>8, <1>9 DEF MInv

\* With one more character the text ends in the pattern exactly when k
\* reaches m; otherwise k is again the longest prefix that ends the text.
LEMMA MatchStepInv == MInv /\ MatchStep => MInv'
<1> SUFFICES ASSUME MInv, MatchStep PROVE MInv'
  OBVIOUS
<1>0. /\ StringsOK /\ IndicesOK /\ result \in BOOLEAN
      /\ m \in Nat \ {0} /\ n \in Nat
  BY TypeFacts, Zenon DEF MInv, TypeOK
<1>1. /\ pc = "match" /\ i \in 0 .. n /\ i < n
      /\ k \in 0 .. m - 1 /\ k <= i
  BY <1>0 DEF MInv, IndicesOK, MatchInv, MatchStep
<1>a. /\ Ends(k, i)
      /\ \A l \in k + 1 .. m - 1 : l <= i /\ Ends(l, i) => pattern[l] # text[i]
      /\ \A o \in Offsets : o + m <= i => ~OccursAt(o)
      /\ \A x \in 0 .. m - 1 : LongestBorder(pi[x], x + 1)
  BY <1>1 DEF MInv, MatchInv
<1>b. k = 0 \/ pattern[k] = text[i]
  BY DEF MatchStep
<1>c. k' = IF pattern[k] = text[i] THEN k + 1 ELSE k
  BY DEF MatchStep, Extended
<1>2. UNCHANGED <<m, n, pattern, text, pi, bad_char, s, j>>
  BY DEF MatchStep, strings, bmVars
<1>3. k' \in 0 .. m /\ k' <= i + 1
  BY <1>0, <1>1, <1>c
<1>5. Ends(k', i + 1)
  <2>1. CASE pattern[k] = text[i]
    BY <2>1, <1>0, <1>1, <1>a, <1>c, AgreeExtend DEF Ends
  <2>2. CASE pattern[k] # text[i]
    BY <2>2, <1>0, <1>1, <1>b, <1>c, AgreeEmpty DEF Ends
  <2> QED BY <2>1, <2>2
<1>6. ASSUME NEW b \in Nat, k' < b, b <= m, b <= i + 1, Ends(b, i + 1) PROVE FALSE
  <2> DEFINE l == b - 1
  <2>1. l \in Nat /\ b = l + 1 /\ k' <= l /\ l <= m - 1 /\ l <= i
    BY <1>0, <1>1, <1>3, <1>6
  <2>a. Agree(pattern, text, l + 1, i + 1)
    BY <2>1, <1>6 DEF Ends
  <2> HIDE DEF l
  <2>2. Ends(l, i) /\ pattern[l] = text[i]
    BY <2>1, <2>a, <1>1, AgreeExtend DEF Ends
  <2>3. l > k
    BY <2>1, <2>2, <1>0, <1>1, <1>c
  <2> QED BY <2>1, <2>2, <2>3, <1>0, <1>1, <1>a
<1>7. CASE k' = m
  <2>1. pc' = "done" /\ i' = i
    BY <1>7, Zenon DEF MatchStep, Return
  <2>2. result'
    BY <1>7, Zenon DEF MatchStep, Return
  <2>3. TypeOK'
    <3>1. StringsOK'
      BY <1>0, <1>2, SameStrings
    <3>2. IndicesOK'
      BY <1>0, <1>2, <1>3, <2>1 DEF IndicesOK
    <3>3. result' \in BOOLEAN
      BY <1>7, Zenon DEF MatchStep, Return
    <3> QED BY <3>1, <3>2, <3>3, <2>1, Zenon DEF TypeOK
  <2>4. OccursAt(i + 1 - m)
    <3>1. (i + 1 - m) + m = i + 1 /\ i + 1 - m \in Int
      BY <1>0, <1>1
    <3> QED BY <3>1, <1>0, <1>5, <1>7, OccursEnds
  <2>5. i + 1 - m \in Offsets
    BY <1>0, <1>1, <1>3, <1>7 DEF Offsets
  <2>6. Occurs'
    BY <2>4, <2>5, <1>2 DEF Occurs, Offsets, OccursAt
  <2>7. Exact'
    BY <2>2, <2>6, Zenon DEF Exact
  <2>8. PrefixInv' /\ MatchInv' /\ ScanInv'
    BY <2>1 DEF PrefixInv, MatchInv, ScanInv
  <2> QED BY <2>3, <2>7, <2>8 DEF MInv
<1>8. CASE k' # m
  <2>1. pc' = "match" /\ i' = i + 1
    BY <1>8, <1>1, Zenon DEF MatchStep
  <2>2. k' \in 0 .. m - 1
    BY <1>0, <1>3, <1>8
  <2>3. TypeOK'
    <3>1. StringsOK'
      BY <1>0, <1>2, SameStrings
    <3>2. IndicesOK'
      BY <1>0, <1>1, <1>2, <2>1, <2>2 DEF IndicesOK
    <3>3. result' \in BOOLEAN
      BY <1>0, <1>8, Zenon DEF MatchStep
    <3> QED BY <3>1, <3>2, <3>3, <2>1, Zenon DEF TypeOK
  <2>4. \A l \in k' + 1 .. m - 1 : ~(l <= i + 1 /\ Ends(l, i + 1))
    <3>1. k' \in Nat /\ m - 1 \in Nat
      BY <1>0, <2>2
    <3>2. \A l \in k' + 1 .. m - 1 : l \in Nat /\ k' < l /\ l <= m - 1
      BY <3>1, IntervalFacts, Zenon
    <3>3. \A l \in Nat : l <= m - 1 => l <= m
      BY <1>0
    <3> QED BY <3>2, <3>3, <1>6
  <2>5. ASSUME NEW o \in Offsets, o + m <= i + 1 PROVE ~OccursAt(o)
    <3>0. o \in Int
      BY <1>0 DEF Offsets
    <3>1. CASE o + m <= i
      BY <3>1, <1>a
    <3>2. CASE o + m > i
      <4>1. o + m = i + 1
        BY <3>0, <3>2, <2>5, <1>0, <1>1
      <4>2. m <= i + 1 /\ k' < m
        BY <3>0, <4>1, <1>0, <1>1, <2>2 DEF Offsets
      <4>3. ~Ends(m, i + 1)
        BY <4>2, <1>0, <1>6
      <4> QED BY <4>1, <4>3, <3>0, <1>0, OccursEnds
    <3> QED BY <3>0, <3>1, <3>2, <1>0, <1>1
  <2>6. MatchInv'
    <3>1. i' \in 0 .. n' /\ k' <= i'
      BY <1>0, <1>1, <1>2, <1>3, <2>1
    <3>2. \A l \in k' + 1 .. m' - 1 : ~(l <= i' /\ (Ends(l, i))')
      BY <2>1, <2>4, <1>2 DEF Ends
    <3>3. \A o \in Offsets' : o + m' <= i' => ~(OccursAt(o))'
      BY <2>1, <2>5, <1>2 DEF Offsets, OccursAt
    <3>4. \A x \in 0 .. m' - 1 : (LongestBorder(pi[x], x + 1))'
      BY <1>2, <1>a DEF LongestBorder, Border
    <3>5. (Ends(k, i))'
      BY <2>1, <1>2, <1>5 DEF Ends
    <3> QED BY <3>1, <3>2, <3>3, <3>4, <3>5 DEF MatchInv
  <2>7. PrefixInv' /\ ScanInv' /\ Exact'
    BY <2>1 DEF PrefixInv, ScanInv, Exact
  <2> QED BY <2>3, <2>6, <2>7 DEF MInv
<1> QED BY <1>7, <1>8

\* At the end of the text every offset is behind i.
LEMMA MatchEndInv == MInv /\ MatchEnd => MInv'
<1> SUFFICES ASSUME MInv, MatchEnd PROVE MInv'
  OBVIOUS
<1>0. /\ StringsOK /\ IndicesOK /\ result \in BOOLEAN
      /\ m \in Nat \ {0} /\ n \in Nat
  BY TypeFacts, Zenon DEF MInv, TypeOK
<1>1. pc = "match" /\ i = n
  BY <1>0 DEF MInv, MatchInv, MatchEnd
<1>2. UNCHANGED <<m, n, pattern, text, i, k, pi, bad_char, s, j>>
  BY DEF MatchEnd, strings, kmpVars, bmVars
<1>3. pc' = "done" /\ ~result' /\ result' \in BOOLEAN
  BY Zenon DEF MatchEnd, Return
<1>4. TypeOK'
  <2>1. StringsOK'
    BY <1>0, <1>2, SameStrings
  <2>2. IndicesOK'
    BY <1>0, <1>2, <1>3 DEF IndicesOK
  <2> QED BY <2>1, <2>2, <1>3, Zenon DEF TypeOK
<1>5. \A o \in Offsets : ~OccursAt(o)
  <2>1. \A o \in Offsets : o + m <= i
    BY <1>0, <1>1 DEF Offsets
  <2> QED BY <2>1, <1>1 DEF MInv, MatchInv
<1>6. ~Occurs'
  BY <1>2, <1>5 DEF Occurs, Offsets, OccursAt
<1>7. Exact'
  BY <1>3, <1>6, Zenon DEF Exact
<1>8. PrefixInv' /\ MatchInv' /\ ScanInv'
  BY <1>3 DEF PrefixInv, MatchInv, ScanInv
<1> QED BY <1>4, <1>7, <1>8 DEF MInv
-----------------------------------------------------------------------------
(* boyer_moore.                                                            *)

\* bad_char holds the last positions so far.
LEMMA TableStepInv == MInv /\ TableStep => MInv'
<1> SUFFICES ASSUME MInv, TableStep PROVE MInv'
  OBVIOUS
<1>0. /\ StringsOK /\ IndicesOK /\ result \in BOOLEAN
      /\ m \in Nat \ {0} /\ n \in Nat
  BY TypeFacts, Zenon DEF MInv, TypeOK
<1>1. /\ pc = "table" /\ pc' = "table" /\ i \in 0 .. m /\ i < m /\ i' = i + 1
      /\ s = 0 /\ j = m - 1
  BY <1>0 DEF MInv, ScanInv, TableStep
<1>2. UNCHANGED <<m, n, pattern, text, k, pi, s, j, result>>
  BY DEF TableStep, strings, kmpVars
<1>3. /\ bad_char' = [bad_char EXCEPT ![pattern[i]] = i]
      /\ bad_char \in [Alphabet -> -1 .. m - 1]
  BY <1>0, Zenon DEF TableStep, IndicesOK
<1>4. LastBefore(i)
  BY <1>1 DEF MInv, ScanInv
<1>5. TypeOK'
  <2>1. StringsOK'
    BY <1>0, <1>2, SameStrings
  <2>2. bad_char' \in [Alphabet -> -1 .. m - 1]
    <3>1. i \in -1 .. m - 1
      BY <1>0, <1>1
    <3>2. \A S : \A g \in [Alphabet -> S] : \A c, v :
              v \in S => [g EXCEPT ![c] = v] \in [Alphabet -> S]
      OBVIOUS
    <3> QED BY <3>1, <3>2, <1>3, Zenon
  <2>3. IndicesOK'
    BY <2>2, <1>0, <1>1, <1>2 DEF IndicesOK
  <2> QED BY <2>1, <2>3, <1>0, <1>1, <1>2, Zenon DEF TypeOK
<1>6. ASSUME NEW c \in Alphabet, NEW x \in 0 .. i, x > bad_char'[c]
      PROVE  pattern[x] # c
  <2>1. CASE c = pattern[i]
    <3>1. bad_char'[c] = i
      BY <2>1, <1>3
    <3> QED BY <3>1, <1>1, <1>6
  <2>2. CASE c # pattern[i]
    <3>1. bad_char'[c] = bad_char[c]
      BY <2>2, <1>3
    <3>2. CASE x = i
      BY <3>2, <2>2
    <3>3. CASE x < i
      <4>1. x \in 0 .. i - 1 /\ x > bad_char[c]
        BY <3>1, <3>3, <1>1, <1>6
      <4> QED BY <4>1, <1>4 DEF LastBefore
    <3> QED BY <3>2, <3>3, <1>1
  <2> QED BY <2>1, <2>2
<1>7. ScanInv'
  <2>1. i' \in 0 .. m' /\ i' - 1 = i
    BY <1>0, <1>1, <1>2
  <2>2. (LastBefore(i))'
    BY <2>1, <1>2, <1>6 DEF LastBefore
  <2> QED BY <2>1, <2>2, <1>1, <1>2 DEF ScanInv
<1>8. PrefixInv' /\ MatchInv' /\ Exact'
  BY <1>1 DEF PrefixInv, MatchInv, Exact
<1> QED BY <1>5, <1>7, <1>8 DEF MInv

\* bad_char is complete when its loop ends.
LEMMA TableEndInv == MInv /\ TableEnd => MInv'
<1> SUFFICES ASSUME MInv, TableEnd PROVE MInv'
  OBVIOUS
<1>0. /\ StringsOK /\ IndicesOK /\ result \in BOOLEAN
      /\ m \in Nat \ {0} /\ n \in Nat
  BY TypeFacts, Zenon DEF MInv, TypeOK
<1>1. pc = "table" /\ pc' = "scan" /\ i = m /\ s = 0 /\ j = m - 1
  BY <1>0 DEF MInv, ScanInv, TableEnd
<1>2. UNCHANGED <<m, n, pattern, text, i, k, pi, bad_char, s, j, result>>
  BY DEF TableEnd, strings, kmpVars, bmVars
<1>3. TypeOK'
  <2>1. StringsOK'
    BY <1>0, <1>2, SameStrings
  <2>2. IndicesOK'
    BY <1>0, <1>1, <1>2 DEF IndicesOK
  <2> QED BY <2>1, <2>2, <1>0, <1>1, <1>2, Zenon DEF TypeOK
<1>4. (LastBefore(m))'
  BY <1>1, <1>2 DEF MInv, ScanInv, LastBefore
<1>5. ScanInv'
  <2>1. /\ \A o \in Offsets' : ~(o < s')
        /\ \A x \in j' + 1 .. m' - 1 : FALSE
    BY <1>0, <1>1, <1>2 DEF Offsets
  <2> QED BY <2>1, <1>1, <1>2, <1>4 DEF ScanInv
<1>6. PrefixInv' /\ MatchInv' /\ Exact'
  BY <1>1 DEF PrefixInv, MatchInv, Exact
<1> QED BY <1>3, <1>5, <1>6 DEF MInv

\* Equal characters from the right.
LEMMA ScanCompareInv == MInv /\ ScanCompare => MInv'
<1> SUFFICES ASSUME MInv, ScanCompare PROVE MInv'
  OBVIOUS
<1>0. /\ StringsOK /\ IndicesOK /\ result \in BOOLEAN
      /\ m \in Nat \ {0} /\ n \in Nat
  BY TypeFacts, Zenon DEF MInv, TypeOK
<1>1. /\ pc = "scan" /\ pc' = "scan" /\ s <= n - m
      /\ j \in 0 .. m - 1 /\ j' = j - 1
  BY <1>0 DEF IndicesOK, ScanCompare
<1>a. pattern[j] = text[s + j]
  BY DEF ScanCompare
<1>2. UNCHANGED <<m, n, pattern, text, i, k, pi, bad_char, s, result>>
  BY DEF ScanCompare, strings, kmpVars
<1>3. TypeOK'
  <2>1. StringsOK'
    BY <1>0, <1>2, SameStrings
  <2>2. IndicesOK'
    BY <1>0, <1>1, <1>2 DEF IndicesOK
  <2> QED BY <2>1, <2>2, <1>0, <1>1, <1>2, Zenon DEF TypeOK
<1>4. \A x \in j' + 1 .. m - 1 : pattern[x] = text[s + x]
  <2>1. j' + 1 = j
    BY <1>0, <1>1
  <2>2. \A x \in j + 1 .. m - 1 : pattern[x] = text[s + x]
    BY <1>1 DEF MInv, ScanInv
  <2>3. \A x \in j .. m - 1 : x = j \/ x \in j + 1 .. m - 1
    BY <1>0, <1>1
  <2> QED BY <2>1, <2>2, <2>3, <1>a
<1>5. ScanInv'
  BY <1>1, <1>2, <1>4 DEF MInv, ScanInv, LastBefore, Offsets, OccursAt
<1>6. PrefixInv' /\ MatchInv' /\ Exact'
  BY <1>1 DEF PrefixInv, MatchInv, Exact
<1> QED BY <1>3, <1>5, <1>6 DEF MInv

\* All characters are equal: an occurrence.
LEMMA ScanFoundInv == MInv /\ ScanFound => MInv'
<1> SUFFICES ASSUME MInv, ScanFound PROVE MInv'
  OBVIOUS
<1>0. /\ StringsOK /\ IndicesOK /\ result \in BOOLEAN
      /\ m \in Nat \ {0} /\ n \in Nat
  BY TypeFacts, Zenon DEF MInv, TypeOK
<1>1. pc = "scan" /\ s <= n - m /\ s \in Nat /\ j = -1
  BY <1>0 DEF IndicesOK, ScanFound
<1>2. UNCHANGED <<m, n, pattern, text, i, k, pi, bad_char, s, j>>
  BY DEF ScanFound, strings, kmpVars, bmVars
<1>3. pc' = "done" /\ result' /\ result' \in BOOLEAN
  BY Zenon DEF ScanFound, Return
<1>4. TypeOK'
  <2>1. StringsOK'
    BY <1>0, <1>2, SameStrings
  <2>2. IndicesOK'
    BY <1>0, <1>2, <1>3 DEF IndicesOK
  <2> QED BY <2>1, <2>2, <1>3, Zenon DEF TypeOK
<1>5. OccursAt(s) /\ s \in Offsets
  <2>1. \A x \in 0 .. m - 1 : x \in j + 1 .. m - 1
    BY <1>0, <1>1
  <2>2. OccursAt(s)
    BY <2>1, <1>1 DEF MInv, ScanInv, OccursAt
  <2> QED BY <2>2, <1>0, <1>1 DEF Offsets
<1>6. Occurs'
  BY <1>2, <1>5 DEF Occurs, Offsets, OccursAt
<1>7. Exact'
  BY <1>3, <1>6, Zenon DEF Exact
<1>8. PrefixInv' /\ MatchInv' /\ ScanInv'
  BY <1>3 DEF PrefixInv, MatchInv, ScanInv
<1> QED BY <1>4, <1>7, <1>8 DEF MInv

\* An offset behind the shift would put a character of the pattern that comes
\* after the last c under the mismatched c.
LEMMA ScanShiftInv == MInv /\ ScanShift => MInv'
<1> SUFFICES ASSUME MInv, ScanShift PROVE MInv'
  OBVIOUS
<1>0. /\ StringsOK /\ IndicesOK /\ result \in BOOLEAN
      /\ m \in Nat \ {0} /\ n \in Nat
  BY TypeFacts, Zenon DEF MInv, TypeOK
<1>1. /\ pc = "scan" /\ pc' = "scan" /\ s <= n - m /\ s \in Nat
      /\ j \in 0 .. m - 1 /\ j' = m - 1
  BY <1>0 DEF IndicesOK, ScanShift
<1>a. pattern[j] # text[s + j]
  BY DEF ScanShift
<1>2. UNCHANGED <<m, n, pattern, text, i, k, pi, bad_char, result>>
  BY DEF ScanShift, strings, kmpVars
<1> DEFINE c == text[s + j]
           bad == bad_char[c]
<1>3. c \in Alphabet
  <2>1. text \in [0 .. n - 1 -> Alphabet]
    BY <1>0 DEF StringsOK, Strings
  <2>2. s + j \in 0 .. n - 1
    BY <1>0, <1>1
  <2> QED BY <2>1, <2>2
<1>4. bad \in -1 .. m - 1
  <2>1. bad_char \in [Alphabet -> -1 .. m - 1]
    BY <1>0, Zenon DEF IndicesOK
  <2> QED BY <2>1, <1>3
<1>5. s' = s + IF j - bad > 1 THEN j - bad ELSE 1
  BY DEF ScanShift, Shift
<1>b. \A x \in 0 .. m - 1 : x > bad => pattern[x] # c
  BY <1>1, <1>3 DEF MInv, ScanInv, LastBefore
<1> HIDE DEF bad
<1>6. s' \in Nat /\ s < s' /\ (s' = s + 1 \/ s' = s + j - bad)
  BY <1>0, <1>1, <1>4, <1>5
<1>7. TypeOK'
  <2>1. StringsOK'
    BY <1>0, <1>2, SameStrings
  <2>2. IndicesOK'
    BY <1>0, <1>1, <1>2, <1>6 DEF IndicesOK
  <2> QED BY <2>1, <2>2, <1>0, <1>1, <1>2, Zenon DEF TypeOK
<1>8. ASSUME NEW o \in Offsets, o < s' PROVE ~OccursAt(o)
  <2>0. o \in Int
    BY <1>0 DEF Offsets
  <2>1. CASE o < s
    BY <2>1, <1>1 DEF MInv, ScanInv
  <2>2. CASE o = s
    BY <2>2, <1>1, <1>a DEF OccursAt
  <2>3. CASE o > s
    <3> DEFINE x == s + j - o
    <3>1. x \in 0 .. m - 1 /\ x > bad /\ o + x = s + j
      BY <2>0, <2>3, <1>0, <1>1, <1>4, <1>6, <1>8
    <3> HIDE DEF x
    <3>2. pattern[x] # text[o + x]
      BY <3>1, <1>b
    <3> QED BY <3>1, <3>2 DEF OccursAt
  <2> QED BY <2>0, <2>1, <2>2, <2>3, <1>1
<1>9. ScanInv'
  <2>1. \A x \in j' + 1 .. m' - 1 : FALSE
    BY <1>0, <1>1, <1>2
  <2>2. \A o \in Offsets' : o < s' => ~(OccursAt(o))'
    BY <1>2, <1>8 DEF Offsets, OccursAt
  <2>3. (LastBefore(m))'
    BY <1>1, <1>2 DEF MInv, ScanInv, LastBefore
  <2> QED BY <2>1, <2>2, <2>3, <1>1 DEF ScanInv
<1>10. PrefixInv' /\ MatchInv' /\ Exact'
  BY <1>1 DEF PrefixInv, MatchInv, Exact
<1> QED BY <1>7, <1>9, <1>10 DEF MInv

\* The scan ends when no offset is left.
LEMMA ScanEndInv == MInv /\ ScanEnd => MInv'
<1> SUFFICES ASSUME MInv, ScanEnd PROVE MInv'
  OBVIOUS
<1>0. /\ StringsOK /\ IndicesOK /\ result \in BOOLEAN
      /\ m \in Nat \ {0} /\ n \in Nat
  BY TypeFacts, Zenon DEF MInv, TypeOK
<1>1. pc = "scan" /\ s > n - m /\ s \in Nat
  BY <1>0 DEF IndicesOK, ScanEnd, TriedAll
<1>2. UNCHANGED <<m, n, pattern, text, i, k, pi, bad_char, s, j>>
  BY DEF ScanEnd, strings, kmpVars, bmVars
<1>3. pc' = "done" /\ ~result' /\ result' \in BOOLEAN
  BY Zenon DEF ScanEnd, Return
<1>4. TypeOK'
  <2>1. StringsOK'
    BY <1>0, <1>2, SameStrings
  <2>2. IndicesOK'
    BY <1>0, <1>2, <1>3 DEF IndicesOK
  <2> QED BY <2>1, <2>2, <1>3, Zenon DEF TypeOK
<1>5. \A o \in Offsets : ~OccursAt(o)
  <2>1. \A o \in Offsets : o < s
    BY <1>0, <1>1 DEF Offsets
  <2> QED BY <2>1, <1>1 DEF MInv, ScanInv
<1>6. ~Occurs'
  BY <1>2, <1>5 DEF Occurs, Offsets, OccursAt
<1>7. Exact'
  BY <1>3, <1>6, Zenon DEF Exact
<1>8. PrefixInv' /\ MatchInv' /\ ScanInv'
  BY <1>3 DEF PrefixInv, MatchInv, ScanInv
<1> QED BY <1>4, <1>7, <1>8 DEF MInv

\* Stuttering keeps the invariant.
LEMMA MatchingStutter == MInv /\ UNCHANGED vars => MInv'
<1> SUFFICES ASSUME MInv, UNCHANGED vars PROVE MInv'
  OBVIOUS
<1>1. UNCHANGED <<pc, m, n, pattern, text, i, k, pi, bad_char, s, j, result>>
  BY Zenon DEF vars, strings, kmpVars, bmVars
<1>2. TypeOK'
  BY <1>1, Zenon DEF MInv, TypeOK, StringsOK, IndicesOK, Strings
<1>3. PrefixInv' /\ MatchInv' /\ ScanInv'
  BY <1>1 DEF MInv, PrefixInv, MatchInv, ScanInv, LastBefore, LongestBorder,
     Border, Ends, OccursAt, Offsets
<1>4. Exact'
  <2>1. Occurs' <=> Occurs
    BY <1>1 DEF Occurs, Offsets, OccursAt
  <2> QED BY <2>1, <1>1, Zenon DEF MInv, Exact
<1> QED BY <1>2, <1>3, <1>4 DEF MInv
-----------------------------------------------------------------------------
\* The inductive invariant of both functions.
THEOREM MatchingInvariant == Spec => []MInv
<1>1. Init => MInv
  BY MatchingInit
<1>2. MInv /\ [Next]_vars => MInv'
  BY PrefixFallInv, PrefixStepInv, PrefixEndInv, MatchFallInv, MatchStepInv,
     MatchEndInv, TableStepInv, TableEndInv, ScanCompareInv, ScanFoundInv,
     ScanShiftInv, ScanEndInv, MatchingStutter, Zenon
     DEF Next, knuth_morris_pratt, boyer_moore, Done
<1> QED BY <1>1, <1>2, PTL DEF Spec

\* knuth_morris_pratt and boyer_moore index pattern, text, pi and bad_char
\* inside their bounds, whatever the pattern and the text.
THEOREM MatchingTypeCorrect == Spec => []TypeOK
<1>1. MInv => TypeOK
  BY DEF MInv
<1> QED BY <1>1, MatchingInvariant, PTL

\* knuth_morris_pratt and boyer_moore return TRUE exactly when the pattern
\* occurs in the text.
THEOREM MatchingExact == Spec => []Exact
<1>1. MInv => Exact
  BY DEF MInv
<1> QED BY <1>1, MatchingInvariant, PTL

\* The failure function of knuth_morris_pratt holds the longest borders.
THEOREM FailureFunction == Spec => []PiIsLongest
<1>1. MInv => PiIsLongest
  BY DEF MInv, PrefixInv, MatchInv, PiIsLongest
<1> QED BY <1>1, MatchingInvariant, PTL

\* The second loop of knuth_morris_pratt gives up no prefix that can still grow,
\* and the shifts of boyer_moore skip no occurrence.
THEOREM NoOccurrenceMissed == Spec => []NothingMissed
<1>1. MInv => KmpKeepsLongest
  BY DEF MInv, MatchInv, KmpKeepsLongest
<1>2. MInv => BmSkipsNothing
  BY DEF MInv, ScanInv, BmSkipsNothing
<1>3. MInv => NothingMissed
  BY <1>1, <1>2 DEF NothingMissed
<1> QED BY <1>3, MatchingInvariant, PTL
=============================================================================
