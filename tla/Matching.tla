------------------------------ MODULE Matching ------------------------------
(***************************************************************************)
(* The two substring searches of fat32.c, knuth_morris_pratt and           *)
(* boyer_moore, loop by loop, on every pattern and text up to a length.    *)
(* The searches behind system calls 12 and 19 apply them to the contents   *)
(* of text files (module Search).                                          *)
(*                                                                         *)
(* A string is a function on 0 .. length - 1, as strlen delimits it. The   *)
(* shell does not send an empty pattern.                                   *)
(***************************************************************************)
EXTENDS Integers

CONSTANTS
    Alphabet,      \* unsigned char
    MaxPattern,    \* bound: length of a pattern
    MaxText        \* bound: length of a text

ASSUME MatchingAssumption == MaxPattern \in Nat /\ MaxText \in Nat

VARIABLES
    pc,            \* the loop: "prefix", "match", "table", "scan", or "done"
    m, n,          \* the lengths
    pattern, text,
    i,             \* the loop variable of a for loop
    k,             \* knuth_morris_pratt: k of the first loop, j of the second
    pi,            \* its failure function
    bad_char,      \* boyer_moore: last position of each character
    s, j,          \* its offset in the text and position in the pattern
    result         \* what the function returns

strings == <<m, n, pattern, text>>
kmpVars == <<k, pi>>
bmVars == <<bad_char, s, j>>
vars == <<pc, strings, i, kmpVars, bmVars, result>>
-----------------------------------------------------------------------------
Strings(len) == [0 .. len - 1 -> Alphabet]

\* Either function is called. pi is an array of m entries of which only the
\* first is set before the loop; an unset entry counts as 0 here.
Init ==
    /\ m \in 1 .. MaxPattern /\ n \in 0 .. MaxText
    /\ pattern \in Strings(m) /\ text \in Strings(n)
    /\ \/ pc = "prefix" /\ i = 1
       \/ pc = "table" /\ i = 0
    /\ k = 0 /\ pi = [x \in 0 .. m - 1 |-> 0]
    /\ bad_char = [c \in Alphabet |-> -1]
    /\ s = 0 /\ j = m - 1
    /\ result = FALSE

Return(answer) == pc' = "done" /\ result' = answer
-----------------------------------------------------------------------------
(* knuth_morris_pratt                                                      *)

\* The next shorter prefix to try behind one of length l.
FallBack(l) == pi[l - 1]

\* Mutant: a mismatch starts over with the empty prefix.
PrefixRestart ==
    /\ pc = "prefix" /\ i < m
    /\ k > 0 /\ pattern[k] # pattern[i]
    /\ k' = 0
    /\ UNCHANGED <<pc, strings, i, pi, bmVars, result>>

\* The inner while loop that computes pi.
PrefixFall ==
    /\ pc = "prefix" /\ i < m
    /\ k > 0 /\ pattern[k] # pattern[i]
    /\ k' = FallBack(k)
    /\ UNCHANGED <<pc, strings, i, pi, bmVars, result>>

Extended(l, c) == IF pattern[l] = c THEN l + 1 ELSE l

PrefixStep ==
    /\ pc = "prefix" /\ i < m
    /\ k = 0 \/ pattern[k] = pattern[i]
    /\ k' = Extended(k, pattern[i])
    /\ pi' = [pi EXCEPT ![i] = k']
    /\ i' = i + 1
    /\ UNCHANGED <<pc, strings, bmVars, result>>

PrefixEnd ==
    /\ pc = "prefix" /\ i >= m
    /\ pc' = "match" /\ i' = 0 /\ k' = 0
    /\ UNCHANGED <<strings, pi, bmVars, result>>

\* The same loops over the text.
MatchFall ==
    /\ pc = "match" /\ i < n
    /\ k > 0 /\ pattern[k] # text[i]
    /\ k' = FallBack(k)
    /\ UNCHANGED <<pc, strings, i, pi, bmVars, result>>

\* Mutant: the search goes on behind a match.
MatchOn ==
    /\ pc = "match" /\ i < n
    /\ k = 0 \/ pattern[k] = text[i]
    /\ k' = Extended(k, text[i])
    /\ i' = i + 1
    /\ UNCHANGED <<pc, strings, pi, bmVars, result>>

MatchStep ==
    /\ pc = "match" /\ i < n
    /\ k = 0 \/ pattern[k] = text[i]
    /\ k' = Extended(k, text[i])
    /\ IF k' = m THEN Return(TRUE) /\ UNCHANGED i
                 ELSE i' = i + 1 /\ UNCHANGED <<pc, result>>
    /\ UNCHANGED <<strings, pi, bmVars>>

MatchEnd ==
    /\ pc = "match" /\ i >= n
    /\ Return(FALSE)
    /\ UNCHANGED <<strings, i, kmpVars, bmVars>>

knuth_morris_pratt ==
    PrefixFall \/ PrefixStep \/ PrefixEnd \/ MatchFall \/ MatchStep \/ MatchEnd
-----------------------------------------------------------------------------
(* boyer_moore                                                             *)

\* Mutant: the table keeps the first position of a character.
TableFirst ==
    /\ pc = "table" /\ i < m
    /\ bad_char' = [bad_char EXCEPT ![pattern[i]] = IF @ = -1 THEN i ELSE @]
    /\ i' = i + 1
    /\ UNCHANGED <<pc, strings, kmpVars, s, j, result>>

TableStep ==
    /\ pc = "table" /\ i < m
    /\ bad_char' = [bad_char EXCEPT ![pattern[i]] = i]
    /\ i' = i + 1
    /\ UNCHANGED <<pc, strings, kmpVars, s, j, result>>

TableEnd ==
    /\ pc = "table" /\ i >= m
    /\ pc' = "scan"
    /\ UNCHANGED <<strings, i, kmpVars, bmVars, result>>

\* The inner while loop: from the right, as long as the characters agree.
ScanCompare ==
    /\ pc = "scan" /\ s <= n - m
    /\ j >= 0 /\ pattern[j] = text[s + j]
    /\ j' = j - 1
    /\ UNCHANGED <<pc, strings, i, kmpVars, bad_char, s, result>>

ScanFound ==
    /\ pc = "scan" /\ s <= n - m
    /\ j < 0
    /\ Return(TRUE)
    /\ UNCHANGED <<strings, i, kmpVars, bmVars>>

\* Mutant: the shift may be 0.
ShiftOrStay(c) == IF j - bad_char[c] > 0 THEN j - bad_char[c] ELSE 0

\* How far the text's character c lets the pattern move.
Shift(c) == IF j - bad_char[c] > 1 THEN j - bad_char[c] ELSE 1

ScanShift ==
    /\ pc = "scan" /\ s <= n - m
    /\ j >= 0 /\ pattern[j] # text[s + j]
    /\ s' = s + Shift(text[s + j])
    /\ j' = m - 1
    /\ UNCHANGED <<pc, strings, i, kmpVars, bad_char, result>>

\* Mutant: the last offset is not tried.
TriedAllButOne == s >= n - m

TriedAll == s > n - m

ScanEnd ==
    /\ pc = "scan"
    /\ TriedAll
    /\ Return(FALSE)
    /\ UNCHANGED <<strings, i, kmpVars, bmVars>>

boyer_moore ==
    TableStep \/ TableEnd \/ ScanCompare \/ ScanFound \/ ScanShift \/ ScanEnd

Done == pc = "done" /\ UNCHANGED vars

Next == knuth_morris_pratt \/ boyer_moore \/ Done

\* Interrupts are off: nothing stops a loop.
Spec == Init /\ [][Next]_vars /\ WF_vars(Next)
-----------------------------------------------------------------------------
(* What the functions should compute.                                      *)

\* The first l characters of p end the first e characters of q.
Agree(p, q, l, e) == \A x \in 0 .. l - 1 : p[x] = q[e - l + x]
Border(l, e) == Agree(pattern, pattern, l, e)
Ends(l, e) == Agree(pattern, text, l, e)

\* The pattern stands in the text at offset o.
OccursAt(o) == \A x \in 0 .. m - 1 : pattern[x] = text[o + x]
Offsets == 0 .. n - m
Occurs == \E o \in Offsets : OccursAt(o)

LongestBorder(l, e) ==
    /\ l \in 0 .. e - 1 /\ Border(l, e)
    /\ \A b \in l + 1 .. e - 1 : ~Border(b, e)
-----------------------------------------------------------------------------
(* Properties.                                                             *)

StringsOK ==
    /\ m \in 1 .. MaxPattern /\ n \in 0 .. MaxText
    /\ pattern \in Strings(m) /\ text \in Strings(n)

IndicesOK ==
    /\ i \in Nat /\ s \in Nat
    /\ k \in 0 .. m /\ pi \in [0 .. m - 1 -> 0 .. m - 1]
    /\ bad_char \in [Alphabet -> -1 .. m - 1]
    /\ j \in -1 .. m - 1
    /\ pc = "prefix" => i <= m
    /\ pc \in {"prefix", "match"} => k < m

\* Every variable holds a value of its declared type. The indices the code
\* uses on pattern and text stay inside them.
TypeOK ==
    /\ pc \in {"prefix", "match", "table", "scan", "done"}
    /\ result \in BOOLEAN
    /\ StringsOK /\ IndicesOK

\* Both functions answer exactly whether the pattern occurs in the text.
Exact == pc = "done" => (result <=> Occurs)

\* The failure function of knuth_morris_pratt: pi[x] is the length of the
\* longest proper border of the first x + 1 characters.
PiIsLongest ==
    /\ pc = "prefix" => \A x \in 0 .. i - 1 : LongestBorder(pi[x], x + 1)
    /\ pc = "match" => \A x \in 0 .. m - 1 : LongestBorder(pi[x], x + 1)

\* Between two characters of the text, k is the longest prefix of the pattern
\* that ends there: a fallback gives up nothing that could still grow, and
\* nothing before was a match.
KmpKeepsLongest ==
    pc = "match" =>
        /\ k <= i /\ Ends(k, i)
        /\ i < n => \A l \in k + 1 .. m - 1 :
                        l <= i /\ Ends(l, i) => pattern[l] # text[i]
        /\ \A o \in Offsets : o + m <= i => ~OccursAt(o)

\* boyer_moore's shifts skip no occurrence: the offsets behind s were tried, or
\* ruled out by the last position of the mismatched character.
BmSkipsNothing ==
    pc = "scan" =>
        /\ \A o \in Offsets : o < s => ~OccursAt(o)
        /\ s <= n - m => \A x \in j + 1 .. m - 1 : pattern[x] = text[s + x]

\* Neither function passes over an occurrence on its way: KMP by falling back,
\* Boyer-Moore by shifting.
NothingMissed == KmpKeepsLongest /\ BmSkipsNothing

\* Both functions return: the fallbacks get shorter and every shift moves on.
Terminates == <>(pc = "done")
=============================================================================
