----------------------------- MODULE Containers -----------------------------
(***************************************************************************)
(* Two containers of NewKit: MutableArray (MutableArray.h), whose members  *)
(* hide those of the class it is derived from, and JsonStreamReader::In    *)
(* (Json.h), which reads a text character by character into a key and a    *)
(* value.                                                                  *)
(***************************************************************************)
EXTENDS Naturals, Sequences

CONSTANTS
    Items,       \* values added to an array
    NoItem,
    JsonLength   \* characters of a text behind the first
ASSUME ItemsAssumption == NoItem \notin Items /\ JsonLength \in Nat

VARIABLES
    node,     \* MutableArray: the value of its only node, or NoItem
    base,     \* the node of the base class: the value, or NoItem
    first,    \* what was added first, or NoItem
    said,     \* the answer of the last call
    fNodeCount,
    json      \* the reader: text, place, what it fills, key and value

containerVars == <<node, base, first, said, fNodeCount, json>>

JsonTexts == UNION {[1 .. n -> {":", ",", "}", "]", "x", "newline"}] : n \in 0 .. JsonLength}

ContainersInit ==
    /\ node = NoItem /\ base = NoItem /\ first = NoItem /\ said = "nothing" /\ fNodeCount = 0
    /\ \E t \in JsonTexts, array \in BOOLEAN :
         json = [text |-> t, at |-> 1, array |-> array, probe |-> array, key |-> <<>>, value |-> <<>>]
-----------------------------------------------------------------------------
\* MutableArray::Add: a node that is used has no next one.
Add(v) ==
    /\ node' = IF node = NoItem THEN v ELSE node
    /\ first' = IF first = NoItem THEN v ELSE first
    /\ said' = IF node = NoItem THEN "added" ELSE "refused"
    /\ fNodeCount' = IF node = NoItem THEN fNodeCount + 1 ELSE fNodeCount
    /\ UNCHANGED <<base, json>>

\* Remove is that of the base class, and so are the nodes it looks at: its
\* first node has the index 0 whether it is used or not.
RemoveIndex(index) ==
    /\ base' = IF index = 0 THEN NoItem ELSE base
    /\ said' = IF index = 0 THEN "removed" ELSE "refused"
    /\ UNCHANGED <<node, first, fNodeCount, json>>

EndVal == IF json.array THEN "]" ELSE "}"

\* One turn of the loop of In.  "end" stands for the terminator and for a place of
\* the zeroed buffer that is passed over.
ReadChar(c) ==
    CASE c = "newline" -> json
      [] c # "newline" /\ json.probe /\ c \in {EndVal, ","} ->
           [json EXCEPT !.probe = FALSE, !.value = Append(@, "end")]
      [] c \notin {"newline", EndVal, ","} /\ json.probe -> [json EXCEPT !.value = Append(@, c)]
      [] c # "newline" /\ ~json.probe /\ json.array -> json
      [] c = ":" /\ ~json.probe /\ ~json.array -> [json EXCEPT !.probe = TRUE, !.key = Append(@, "end")]
      [] OTHER -> [json EXCEPT !.key = Append(@, c)]

Step ==
    /\ json.at <= Len(json.text)
    /\ json' = [ReadChar(json.text[json.at]) EXCEPT !.at = @ + 1]
    /\ UNCHANGED <<node, base, first, said, fNodeCount>>

ArrayNext ==
    \/ \E v \in Items : Add(v)
    \/ \E i \in {0, 1} : RemoveIndex(i)
-----------------------------------------------------------------------------
UpTo(s, stops) == LET hits == {i \in 1 .. Len(s) : s[i] \in stops}
                  IN  IF hits = {} THEN s ELSE SubSeq(s, 1, (CHOOSE i \in hits : \A j \in hits : i <= j) - 1)
CString(s) == UpTo(s, {"end"})

ContainersTypeOK ==
    /\ node \in Items \cup {NoItem} /\ fNodeCount \in 0 .. 1
    /\ said \in {"nothing", "added", "removed", "refused"}

\* What was added first to a MutableArray is its only element for good:
\* Remove (MutableArray.h:113) answers true for index 0 and removes nothing,
\* because the list it works on is not the one Add (:170) fills.
FirstStays == node = first /\ fNodeCount = IF first = NoItem THEN 0 ELSE 1

\* Each beginning of a text without its line ends.
Shown(t) ==
    LET f[i \in 0 .. Len(t)] ==
          IF i = 0 THEN <<>> ELSE IF t[i] = "newline" THEN f[i - 1] ELSE Append(f[i - 1], t[i])
    IN  f

\* A text that was read (Json.h:78) has the first key before the first colon
\* and the first value up to the first comma or end; what follows them is kept
\* behind the terminators and never seen, and line ends count nowhere.
JsonFirst ==
    json.at > Len(json.text) =>
        LET body == Shown(json.text)[Len(json.text)]
            key == UpTo(body, {":"})
            rest == IF json.array THEN body ELSE SubSeq(body, Len(key) + 2, Len(body))
        IN  /\ CString(json.key) = IF json.array THEN <<>> ELSE key
            /\ CString(json.value) = UpTo(rest, {IF json.array THEN "]" ELSE "}", ","})
=============================================================================
