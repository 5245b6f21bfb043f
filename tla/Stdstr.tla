------------------------------- MODULE Stdstr -------------------------------
(***************************************************************************)
(* The conversions, comparisons and fills of common/stdstr.c. A text is    *)
(* the sequence of its characters without the terminator; a digit is the   *)
(* number that it stands for.                                              *)
(***************************************************************************)
EXTENDS Integers, Sequences

CONSTANT WordBytes   (* Bytes of the stores in memset's middle part, 8.     *)

ASSUME StdstrAssumption == WordBytes \in Nat \ {0}

RECURSIVE Digits(_, _, _)
Digits(number, base, room) ==
  IF number = 0 \/ room = 0 THEN <<>>
  ELSE <<number % base>> \o Digits(number \div base, base, room - 1)

RECURSIVE Swaps(_, _, _)
Swaps(text, left, right) ==
  IF left >= right THEN text
  ELSE Swaps([text EXCEPT ![left] = text[right], ![right] = text[left]], left + 1, right - 1)

(* end_index is exclusive and the indices of the code start with 0.        *)
str_reverse(text, start_index, end_index) == Swaps(text, start_index + 1, end_index)

Untouched == <<>>

(* Mutant: the terminator is not accounted for.                            *)
ConvertFull(number, size, base, prefix) ==
  IF size < prefix + 2 THEN [ret |-> "small", text |-> Untouched]
  ELSE IF number = 0 THEN [ret |-> "success", text |-> <<0>>]
  ELSE LET text == Digits(number, base, size - prefix)
       IN  IF number >= base^(size - prefix) THEN [ret |-> "small", text |-> text]
           ELSE [ret |-> "success", text |-> str_reverse(text, 0, Len(text))]

(* ultoa has no prefix and ultox the prefix 0x, which is left out of text. *)
Convert(number, size, base, prefix) ==
  IF size < prefix + 2 THEN [ret |-> "small", text |-> Untouched]
  ELSE IF number = 0 THEN [ret |-> "success", text |-> <<0>>]
  ELSE LET room == size - 1 - prefix
           text == Digits(number, base, room)
       IN  IF number >= base^room THEN [ret |-> "small", text |-> text]
           ELSE [ret |-> "success", text |-> str_reverse(text, 0, Len(text))]

ultoa(number, size) == Convert(number, size, 10, 0)
ultox(number, size) == Convert(number, size, 16, 2)

(* The first index at which the loop stops: a difference or an end.        *)
Stop(a, b) ==
  CHOOSE i \in 1 .. (Len(a) + 1) :
    /\ i > Len(a) \/ i > Len(b) \/ a[i] # b[i]
    /\ \A j \in 1 .. (i - 1) : j <= Len(b) /\ a[j] = b[j]

CharAt(text, i) == IF i <= Len(text) THEN text[i] ELSE 0

str_cmp(a, b) == CharAt(a, Stop(a, b)) - CharAt(b, Stop(a, b))

(* Mutant: a text equals those that start with it.                         *)
str_ncmp_prefix(a, b) ==
  LET i == Stop(a, b) IN IF i <= Len(a) /\ i <= Len(b) THEN a[i] - b[i] ELSE 0

str_ncmp(a, b) ==
  LET i == Stop(a, b)
  IN  IF i <= Len(a) /\ i <= Len(b) THEN a[i] - b[i]
      ELSE IF Len(a) = Len(b) THEN 0
      ELSE IF i > Len(a) THEN -b[i]
      ELSE a[i]

(* Mutant: the head runs to the next boundary, however short the area is.  *)
HeadPartUnbounded(start, size) == (WordBytes - (start % WordBytes)) % WordBytes

HeadPart(start, size) ==
  LET gap == (WordBytes - (start % WordBytes)) % WordBytes IN IF gap < size THEN gap ELSE size

(* The stores of memset and volatile_memset, by address and width.         *)
memset(start, size) ==
  LET head  == HeadPart(start, size)
      words == (size - head) \div WordBytes
      tail  == start + head + words * WordBytes
  IN     {[at |-> start + i, bytes |-> 1] : i \in 0 .. (head - 1)}
    \cup {[at |-> start + head + i * WordBytes, bytes |-> WordBytes] : i \in 0 .. (words - 1)}
    \cup {[at |-> a, bytes |-> 1] : a \in tail .. (start + size - 1)}
=============================================================================
