----------------------------- MODULE SecretFile -----------------------------
(***************************************************************************)
(* How a secret is written to secrets.env and read back (SecretStore of    *)
(* memory-bank-app).  It is written in the notation of Rust's {:?} and     *)
(* read as a JSON string, two notations that agree on the characters that  *)
(* a secret may be expected to have.                                       *)
(*                                                                         *)
(* A character is the name of its class: "a", "n" and "u" are safe in a    *)
(* shell, " " is a blank, "dq" a double quote, "bs" a backslash, "nl" a    *)
(* line break and "zw" a character that does not show.  \u{200b} is        *)
(* shortened to "bs", "u".  What only a hand-written file has, single      *)
(* quotes, comments and "export ", is left out.                            *)
(***************************************************************************)
EXTENDS Naturals, Sequences, SequencesExt

Safe == {"a", "n", "u"}
Visible == Safe \cup {" ", "dq", "bs", "nl"}

Escaped(char) ==
  CASE char \in {"dq", "bs"} -> <<"bs", char>>
    [] char = "nl" -> <<"bs", "n">>
    [] char = "zw" -> <<"bs", "u">>
    [] OTHER -> <<char>>

Quoted(chars) == <<"dq">> \o chars \o <<"dq">>

\* What is written for the first characters of the value, by their number.
EscapedTo(value) ==
  LET text[i \in 0..Len(value)] == IF i = 0 THEN <<>> ELSE text[i - 1] \o Escaped(value[i])
  IN  text

EscapeEnvValue(value) ==
  IF value # <<>> /\ ToSet(value) \subseteq Safe THEN value
  ELSE Quoted(EscapedTo(value)[Len(value)])

\* A JSON string, read from the left: what it says so far, whether the last
\* character was a backslash that still asks for another, whether it is valid.
NothingRead == [text |-> <<>>, open |-> FALSE, valid |-> TRUE]
ReadNext(read, char) ==
  IF read.open
  THEN [text |-> Append(read.text, IF char = "n" THEN "nl" ELSE char),
        open |-> FALSE, valid |-> read.valid /\ char \in {"dq", "bs", "n"}]
  ELSE [text |-> IF char = "bs" THEN read.text ELSE Append(read.text, char),
        open |-> char = "bs", valid |-> read.valid /\ char \notin {"dq", "nl"}]
ReadTo(chars) ==
  LET read[i \in 0..Len(chars)] == IF i = 0 THEN NothingRead ELSE ReadNext(read[i - 1], chars[i])
  IN  read
ReadJson(chars) == ReadTo(chars)[Len(chars)]

\* What is not JSON is taken as it stands, without its quotes.
UnescapeEnvValue(chars) ==
  IF Len(chars) < 2 \/ Head(chars) # "dq" \/ Last(chars) # "dq" THEN chars
  ELSE LET inside == SubSeq(chars, 2, Len(chars) - 1)
           read == ReadJson(inside) IN
       IF read.valid /\ ~read.open THEN read.text ELSE inside

\* A secret of visible characters is read as it was written; ASSUMEd of all
\* the short ones, so that TLC evaluates it before it looks at any state.
\* SecretsKept of InstallationProofs proves it of all, without the assumption.
ASSUME VisibleSecretsKept ==
  \A length \in 0..4 : \A value \in [1..length -> Visible] :
    UnescapeEnvValue(EscapeEnvValue(value)) = value
=============================================================================
