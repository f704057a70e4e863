------------------------------ MODULE Strings ------------------------------
(***************************************************************************)
(* The string routines of the kernel (src/Utils.cc) and its string class   *)
(* (src/KString.cc), as operators on memory: a text is the bytes from its  *)
(* first character on, the terminator 0 and what happens to lie behind it  *)
(* included.  Char i of the code is m[i + 1].                              *)
(***************************************************************************)
EXTENDS Integers, Sequences, FiniteSets, FiniteSetsExt, SequencesExt

CONSTANTS
    Letters,    \* characters
    TextRoom        \* bytes of memory a text is given; the one behind is zero
ASSUME RoomForText == TextRoom \in Nat \ {0}

Bytes == Letters \cup {0}
Texts == {Append(m, 0) : m \in [1 .. TextRoom -> Bytes]}

VARIABLES
    text, needle,   \* two texts in memory
    kstr            \* a KString: its size and what was appended to it

stringVars == <<text, needle, kstr>>

\* content are the bytes written from fData on, said the texts they are meant to
\* be, odd whether one of them was empty.
NoString == [state |-> "none", size |-> 0, content |-> <<>>, said |-> <<>>, odd |-> FALSE,
             added |-> 0]

\* What a text is, read the way C reads it.
Length(m) == Min({i \in 0 .. TextRoom : m[i + 1] = 0})
Value(m) == SubSeq(m, 1, Length(m))
NonEmpty(m) == m[1] # 0

StringsInit == text \in Texts /\ needle \in Texts /\ kstr = NoString
----------------------------------------------------------------------------
Byte(m, i) == IF i < Len(m) THEN m[i + 1] ELSE 0

\* rt_string_len: the first byte is not looked at.
StrLen(m) == Min({i \in 1 .. Len(m) : Byte(m, i) = 0})

\* rt_string_len with a limit, which is tested before the index moves on.
StrLenUpTo(m, limit) == IF StrLen(m) <= limit + 1 THEN StrLen(m) ELSE limit

\* rt_string_cmp counts the places that differ.
StrCmp(a, b, n) == Cardinality({i \in 0 .. n - 1 : Byte(a, i) # Byte(b, i)})

From(m, i) == SubSeq(m, i + 1, Len(m))

StrInShort(m, what) ==
    LET hits == {i \in 0 .. StrLen(m) - 2 : StrCmp(From(m, i), what, StrLen(what)) = 0}
    IN  IF hits = {} THEN -1 ELSE Min(hits)

\* rt_string_in_string: the offset, or -1 for nullptr.
StrIn(m, what) ==
    LET hits == {i \in 0 .. StrLen(m) - 1 : StrCmp(From(m, i), what, StrLen(what)) = 0}
    IN  IF hits = {} THEN -1 ELSE Min(hits)

\* rt_string_has_char: the zero test comes after the step, so not for the first.
HasChar(m, c) ==
    LET hits == {i \in 0 .. StrLen(m) - 1 : m[i + 1] = c}
    IN  IF hits = {} THEN -1 ELSE Min(hits)

\* StringBuilder::Equals for characters, and for wide characters, which ends
\* with the second text.
Equals(a, b) == StrLen(b) = StrLen(a) /\ \A i \in 0 .. StrLen(b) - 1 : Byte(b, i) = Byte(a, i)
EqualsWide(a, b) ==
    LET end == Min({i \in 0 .. Len(b) : Byte(b, i) = 0})
    IN  \A i \in 0 .. end - 1 : Byte(a, i) = Byte(b, i)

\* rt_set_memory(p, 0, len) stores len words of four bytes.
Zeroed(len) == 4 * len

\* KString(size): the check stops the kernel for less than two characters.  No
\* byte of the buffer is meant for a terminator.
Build(n) ==
    /\ kstr.state = "none"
    /\ kstr' = [NoString EXCEPT !.state = IF n > 1 THEN "built" ELSE "stopped", !.size = n]
    /\ UNCHANGED <<text, needle>>

\* StringBuilder::Construct: nothing for an empty text.  Else a string is made,
\* and what is returned keeps the address of the copy of it that Ref(T) took as
\* a parameter, whose destructor has freed the buffer; see CodeLoader for what
\* its callers do with it.
Construct ==
    /\ kstr.state = "none"
    /\ kstr' = [NoString EXCEPT !.state = IF text[1] = 0 THEN "empty"
                                         ELSE IF StrLen(text) > 1 THEN "dead" ELSE "stopped"]
    /\ UNCHANGED <<text, needle>>

\* What rt_string_append moves, and what was meant.  At most two are appended.
Extended(m) ==
    [kstr EXCEPT !.content = @ \o SubSeq(m, 1, StrLen(m)), !.said = @ \o Value(m),
                 !.odd = @ \/ m[1] = 0, !.added = @ + 1]

\* KString += characters, which asks nothing about the room left.
AppendChars(m) ==
    /\ kstr.state = "built" /\ kstr.added < 2
    /\ kstr' = Extended(m)
    /\ UNCHANGED <<text, needle>>

\* KString += another string that holds m, refused when m alone is too long.
AppendString(m) ==
    /\ kstr.state = "built" /\ kstr.added < 2
    /\ StrLen(m) <= kstr.size
    /\ kstr' = Extended(m)
    /\ UNCHANGED <<text, needle>>

\* operator== and operator!= of KString with a text: the size must be the length.
IsText(k, m) == StrLen(m) = k.size /\ \A i \in 0 .. StrLen(m) - 1 : Byte(m, i) = Byte(k.content, i)
IsNotText(k, m) == StrLen(m) = k.size /\ \A i \in 0 .. StrLen(m) - 1 : Byte(m, i) # Byte(k.content, i)

StringsNext ==
    \/ \E n \in 0 .. TextRoom : Build(n)
    \/ Construct
    \/ \E m \in {text, needle} : AppendChars(m) \/ AppendString(m)
----------------------------------------------------------------------------
StringsTypeOK ==
    /\ text \in Texts /\ needle \in Texts
    /\ kstr.state \in {"none", "empty", "stopped", "built", "dead"} /\ kstr.added \in 0 .. 2
    /\ kstr.size \in 0 .. TextRoom /\ kstr.odd \in BOOLEAN

\* rt_string_len (Utils.cc:50) is the length of a text that is not empty and at
\* least 1 for one that is: it never misses a terminator but the first byte.
LenExact == IF NonEmpty(text) THEN StrLen(text) = Length(text) ELSE StrLen(text) >= 1

\* The limited rt_string_len (:33) is exact up to its limit, and goes past the
\* limit by at most one, when the text ends there.
LimitKept ==
    NonEmpty(text) => \A limit \in 1 .. TextRoom :
        /\ Length(text) <= limit => StrLenUpTo(text, limit) = Length(text)
        /\ StrLenUpTo(text, limit) \in {Length(text), limit}
        /\ StrLenUpTo(text, limit) <= limit + 1

\* rt_string_in_string (:187) finds the first occurrence of a needle and
\* nothing else, although it compares bytes behind the end of the text.
FoundExact ==
    NonEmpty(text) /\ NonEmpty(needle) =>
        LET n == Length(needle)
            at == {i \in 0 .. Length(text) - n : SubSeq(text, i + 1, i + n) = Value(needle)}
        IN  StrIn(text, needle) = IF at = {} THEN -1 ELSE Min(at)

\* The two Equals (KString.cc:132, :146) and rt_string_has_char (Utils.cc:200)
\* on texts that are not empty: the first is equality, the second accepts
\* every text that begins with the second one.
EqualsExact ==
    NonEmpty(text) /\ NonEmpty(needle) =>
        /\ Equals(text, needle) <=> Value(text) = Value(needle)
        /\ EqualsWide(text, needle) <=> IsPrefix(Value(needle), Value(text))
        /\ \A c \in Letters : HasChar(text, c) # -1 <=> c \in ToSet(Value(text))

\* A KString reads as the texts appended to it, one behind the other, as long as
\* none of them was empty (KString.cc:188), and even past the end of its buffer:
\* its bytes end at the first of the four times as many that rt_set_memory zeroed
\* (Utils.cc:62).
Terminated ==
    kstr.state = "built" /\ ~kstr.odd /\ Len(kstr.content) < Zeroed(kstr.size) =>
        LET zeros == {i \in 0 .. Zeroed(kstr.size) - 1 : Byte(kstr.content, i) = 0}
        IN  /\ zeros # {} /\ Min(zeros) = Len(kstr.said)
            /\ SubSeq(kstr.content, 1, Min(zeros)) = kstr.said

\* The comparisons of a KString take its size for its length (KString.cc:45,
\* :72): == finds only a text as long as the buffer, and finds it when what was
\* appended begins with it, whatever follows; a string with room left equals no
\* text, its own included.  != is never true together with ==; both may be false.
ComparesRight ==
    kstr.state = "built" /\ ~kstr.odd /\ NonEmpty(needle) =>
        /\ IsText(kstr, needle) <=> Length(needle) = kstr.size /\ IsPrefix(Value(needle), kstr.said)
        /\ IsNotText(kstr, needle) => ~IsText(kstr, needle) /\ Length(needle) = kstr.size
=============================================================================
