------------------------------ MODULE EscapeJSON -----------------------------
(***************************************************************************)
(* A text value on its way from a row to the browser: EscapeJSON takes its *)
(* bytes one after another, the handler puts quotation marks around them,  *)
(* and the browser's JSON parser (external, RFC 8259) reads them back.     *)
(* Names of columns take the same way.                                     *)
(*                                                                         *)
(* A byte is told apart as far as either side does.                        *)
(***************************************************************************)
EXTENDS Naturals, Sequences

CONSTANT MaxLength   \* bound: bytes of a value

\* Bytes with an escape of their own, further control characters (below 0x20),
\* letters that mean something behind a backslash, one that does not, and bytes of
\* UTF-8 sequences, which are negative as a char.
Short   == {"quote", "backslash", "backspace", "formfeed", "newline", "return", "tab"}
Control == {"nul", "escape"}
Bytes   == Short \cup Control \cup {"letter_n", "letter_u", "letter", "high"}

\* The letter behind the backslash.
Letter == [quote |-> "quote", backslash |-> "backslash", backspace |-> "letter_b",
           formfeed |-> "letter_f", newline |-> "letter_n", return |-> "letter_r",
           tab |-> "letter_t"]

\* The four hexadecimal digits of a byte, one symbol here.
Hex == [nul |-> "hex_nul", escape |-> "hex_escape", high |-> "hex_high"]

VARIABLES
  value,    \* the bytes of the value
  done,     \* bytes escaped so far
  output,   \* what EscapeJSON and the handler have written
  pos,      \* the parser: symbols it has read
  state,    \* the parser: "outside", "inside", "escape", "closed" or "broken"
  parsed    \* the parser: the text so far

vars == <<value, done, output, pos, state, parsed>>

Init ==
  /\ value \in UNION {[1..n -> Bytes] : n \in 0..MaxLength}
  /\ done = 0
  /\ output = <<"quote">>
  /\ pos = 0
  /\ state = "outside"
  /\ parsed = <<>>

Escaped(c) ==
  IF c \in Short THEN <<"backslash", Letter[c]>>
  ELSE IF c \in Control THEN <<"backslash", "letter_u", Hex[c]>>
  ELSE <<c>>

Escape ==
  /\ done < Len(value)
  /\ output' = output \o Escaped(value[done + 1])
  /\ done' = done + 1
  /\ UNCHANGED <<value, pos, state, parsed>>

Close ==
  /\ done = Len(value)
  /\ done' = done + 1
  /\ output' = Append(output, "quote")
  /\ UNCHANGED <<value, pos, state, parsed>>

(***************************************************************************)
(* The parser of the browser.                                              *)
(***************************************************************************)

Symbol == output[pos + 1]

Take(s, t) == state' = s /\ parsed' = t

\* Behind a backslash: one of the letters, or u and four digits.  (Digits that name
\* a byte of a UTF-8 sequence would be another character: no text is read from them.)
ReadEscape ==
  /\ state = "escape"
  /\ IF \E c \in Short : Letter[c] = Symbol
     THEN Take("inside", Append(parsed, CHOOSE c \in Short : Letter[c] = Symbol)) /\ pos' = pos + 1
     ELSE IF Symbol = "letter_u" /\ \E c \in Control : output[pos + 2] = Hex[c]
     THEN /\ Take("inside", Append(parsed, CHOOSE c \in Control : output[pos + 2] = Hex[c]))
          /\ pos' = pos + 2
     ELSE Take("broken", parsed) /\ pos' = pos + 1

\* In the text: a raw control character is an error, a quotation mark the end.
ReadPlain ==
  /\ state = "inside"
  /\ pos' = pos + 1
  /\ IF Symbol = "backslash" THEN Take("escape", parsed)
     ELSE IF Symbol = "quote" THEN Take("closed", parsed)
     ELSE IF Symbol \in Control \cup Short THEN Take("broken", parsed)
     ELSE Take("inside", Append(parsed, Symbol))

Open == state = "outside" /\ Take("inside", <<>>) /\ pos' = pos + 1

\* A value ends with its quotation mark; more text behind it is an error.
ReadBehind == state = "closed" /\ Take("broken", parsed) /\ pos' = pos + 1

Read ==
  /\ done > Len(value)
  /\ pos < Len(output)
  /\ Open \/ ReadPlain \/ ReadEscape \/ ReadBehind
  /\ UNCHANGED <<value, done, output>>

Finished ==
  /\ done > Len(value)
  /\ pos = Len(output) \/ state = "broken"
  /\ UNCHANGED vars

Next == Escape \/ Close \/ (state # "broken" /\ Read) \/ Finished

(***************************************************************************)
(* Properties.                                                             *)
(***************************************************************************)

Symbols == Bytes \cup {"letter_b", "letter_f", "letter_r", "letter_t",
                       "hex_nul", "hex_escape", "hex_high"}

TypeOK ==
  /\ value \in Seq(Bytes)
  /\ done \in 0..Len(value) + 1
  /\ output \in Seq(Symbols)
  /\ pos \in 0..Len(output)
  /\ state \in {"outside", "inside", "escape", "closed", "broken"}
  /\ parsed \in Seq(Bytes)

\* The browser reads what the database held: the answer is one string to its end,
\* whatever quotation marks, backslashes and control characters are in the value.
RoundTrip ==
  (done > Len(value) /\ (pos = Len(output) \/ state = "broken")) =>
    state = "closed" /\ pos = Len(output) /\ parsed = value

\* Nothing in a value ends its string or adds to it while it is read.
ParsedIsPrefix ==
  /\ Len(parsed) <= Len(value)
  /\ \A i \in 1..Len(parsed) : parsed[i] = value[i]
  /\ state = "closed" => Len(parsed) = Len(value)
=============================================================================
