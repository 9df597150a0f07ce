-------------------------------- MODULE StrUtil --------------------------------
(***************************************************************************)
(* tokenize and strto of src/src/util/str.cc and str.h.  A string is a     *)
(* sequence of characters; a StrRef is the text it refers to.              *)
(***************************************************************************)
EXTENDS Integers, Sequences, FiniteSets

CONSTANTS
  Spaces,      \* the characters isspace() accepts
  DigitValue   \* a function: what each decimal digit is worth

Occurrences(s, sep) == {i \in DOMAIN s : s[i] = sep}

\* The k-th of some positions.
Nth(places, k) == CHOOSE i \in places : Cardinality({j \in places : j <= i}) = k

\* What s has at some positions, in order.
Those(s, places) == [k \in 1..Cardinality(places) |-> s[Nth(places, k)]]

\* Where memchr finds sep in s, for each position to start from that has one
\* at or after it.
Memchr(s, sep) ==
  [i \in 1..Len(s) |-> CHOOSE j \in i..Len(s) :
                        s[j] = sep /\ \A k \in i..(j - 1) : s[k] # sep]

\* Where the cursor of tokenize's loop is after k tokens.
Cursor(s, sep) ==
  LET cursor[k \in 0..Cardinality(Occurrences(s, sep))] ==
        IF k = 0 THEN 1 ELSE Memchr(s, sep)[cursor[k - 1]] + 1
  IN cursor

\* Mutant of Tokenize: the loop runs once less, and the rest is one token.
TokenizeStopsEarly(s, sep) ==
  LET count == Cardinality(Occurrences(s, sep)) - 1
      cursor == Cursor(s, sep)
  IN IF count < 1 THEN <<s>>
     ELSE Append([k \in 1..count |-> SubSeq(s, cursor[k - 1], cursor[k] - 2)],
                 SubSeq(s, cursor[count], Len(s)))

\* tokenize()
Tokenize(s, sep) ==
  LET count == Cardinality(Occurrences(s, sep))
      cursor == Cursor(s, sep)
  IN Append([k \in 1..count |-> SubSeq(s, cursor[k - 1], cursor[k] - 2)],
            SubSeq(s, cursor[count], Len(s)))

-------------------------------------------------------------------------------
(* What tokenize should do, told from the positions of the separators.     *)

\* What s has between its separators number n - 1 and n.
Part(s, sep, n) ==
  LET seps == Occurrences(s, sep) IN
  SubSeq(s, IF n = 1 THEN 1 ELSE Nth(seps, n - 1) + 1,
         IF n > Cardinality(seps) THEN Len(s) ELSE Nth(seps, n) - 1)

-------------------------------------------------------------------------------
\* What std::stoll reads of s: spaces and a sign are skipped, and what
\* follows the digits is ignored.
NumberIn(s) ==
  LET skip == {i \in 1..Len(s) : \A j \in 1..i : s[j] \in Spaces}
      rest == SubSeq(s, Cardinality(skip) + 1, Len(s))
      signed == rest # <<>> /\ Head(rest) \in {"-", "+"}
      text == IF signed THEN Tail(rest) ELSE rest
      len == Cardinality({i \in 1..Len(text) :
                            \A j \in 1..i : text[j] \in DOMAIN DigitValue})
  IN [negative |-> signed /\ Head(rest) = "-", digits |-> SubSeq(text, 1, len)]

\* What the first k of the digits are worth, for each k.
ValueOf(digits) ==
  LET value[k \in 0..Len(digits)] ==
        IF k = 0 THEN 0 ELSE 10 * value[k - 1] + DigitValue[digits[k]]
  IN value

Stoll(s) == LET digits == NumberIn(s).digits
                magnitude == ValueOf(digits)[Len(digits)]
            IN IF NumberIn(s).negative THEN 0 - magnitude ELSE magnitude

\* Mutant of OutOfRange: the value is compared with the lower bound only.
OutOfRangeBelow(v, lo, hi) == v < lo

OutOfRange(v, lo, hi) == v < lo \/ v > hi

\* What strto<T>(s) throws, for a type T of the values lo..hi: a text without
\* a digit throws what stoll does, which is no Error; a number too large for
\* stoll is an Error as well.
StrtoThrows(s, lo, hi) ==
  IF NumberIn(s).digits = <<>> THEN "invalid_argument"
  ELSE IF OutOfRange(Stoll(s), lo, hi) THEN "Error" ELSE "none"

\* What it returns otherwise: T(val) keeps val modulo the width of T.
Strto(s, lo, hi) == lo + ((Stoll(s) - lo) % (hi - lo + 1))
===============================================================================
