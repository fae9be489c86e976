----------------------------- MODULE RESPParser -----------------------------
(***************************************************************************)
(* projects/06-distributed-cache: class RESPParser, parseArray over an     *)
(* array of bulk strings as serializeBulkString writes them, one step per  *)
(* round of its loop.                                                      *)
(*                                                                         *)
(* The text is the sequence of the lines that its CRLFs separate; a line is*)
(* <<first character, rest>>.  A value is one line, several if it has CRLFs*)
(* of its own, and none if it is null.  The text may have been cut off at  *)
(* the end of a line.                                                      *)
(***************************************************************************)
EXTENDS Integers, Sequences, SequencesExt

CONSTANTS
  LineTexts,             \* lines a value may be made of, Blank among them
  MaxValues, MaxLines    \* bounds: values of an array, lines of a value

VARIABLES
  sent,                  \* the values that were serialized
  lines,                 \* what arrived, split at its CRLFs
  lineIdx, parsed        \* the loop's position (from 0) and its result

vars == <<sent, lines, lineIdx, parsed>>
-----------------------------------------------------------------------------
Blank == <<"", "">>
ValuesOf(n) == UNION {[1..k -> LineTexts] : k \in 1..n}
Null == <<>>
NullHeader == <<"$", "-1">>
LengthHeader == <<"$", "length">>

(* serializeBulkString(): which length it is matters to nobody.            *)
SerializeBulkString(v) == IF v = Null THEN <<NullHeader>> ELSE <<LengthHeader>> \o v

(* split('\r\n'): the last line is what follows the last CRLF.             *)
Text(values) == FlattenSeq([i \in DOMAIN values |-> SerializeBulkString(values[i])])
CutOff(text, n) == Append(SubSeq(text, 1, n), Blank)

Init ==
  /\ sent \in UNION {[1..n -> ValuesOf(MaxLines) \cup {Null}] : n \in 0..MaxValues}
  /\ \E n \in 0..Len(Text(sent)) : lines \in {CutOff(Text(sent), n), SubSeq(Text(sent), 1, n)}
  /\ lineIdx = 0
  /\ parsed = <<>>
-----------------------------------------------------------------------------
(* The line at an index; past the end it is undefined, pushed as ''.       *)
LineAt(i) == IF i < Len(lines) THEN lines[i + 1] ELSE Blank

NullHasAValue(prefix) == FALSE   \* mutant
IsNull(prefix) == prefix = NullHeader

(* One round of the loop; the array's header, line 0 in the code, is left  *)
(* out and gives the number of rounds.                                     *)
Round ==
  /\ Len(parsed) < Len(sent)
  /\ lineIdx < Len(lines)
  /\ LET prefix == LineAt(lineIdx) IN
     \/ /\ prefix[1] = "$"
        /\ IF IsNull(prefix)
           THEN parsed' = Append(parsed, Blank) /\ lineIdx' = lineIdx + 1
           ELSE parsed' = Append(parsed, LineAt(lineIdx + 1)) /\ lineIdx' = lineIdx + 2
     \/ /\ prefix[1] = "+"
        /\ parsed' = Append(parsed, <<"", prefix[2]>>)
        /\ lineIdx' = lineIdx + 1
     \/ /\ prefix[1] \notin {"$", "+"}
        /\ parsed' = Append(parsed, prefix)
        /\ lineIdx' = lineIdx + 1
  /\ UNCHANGED <<sent, lines>>

Spec == Init /\ [][Round]_vars
-----------------------------------------------------------------------------
(* The parser does not read the lengths, so a value with a CRLF throws it  *)
(* out of step.  Of all other values it returns the ones that arrived in   *)
(* full, whatever their first character, null as '', then at most one ''   *)
(* for each of the rest.                                                   *)
OneLine == \A i \in DOMAIN sent : sent[i] = Null \/ Len(sent[i]) = 1
Decoded(v) == IF v = Null THEN Blank ELSE Head(v)
Arrived(i) == IsPrefix(Text(SubSeq(sent, 1, i)), lines)
RoundTrip ==
  OneLine => \A i \in DOMAIN parsed :
               parsed[i] = IF Arrived(i) THEN Decoded(sent[i]) ELSE Blank
=============================================================================
