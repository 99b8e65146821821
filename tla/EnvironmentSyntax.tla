-------------------------- MODULE EnvironmentSyntax ---------------------------
(***************************************************************************)
(* One entry of a managed environment file as text: how its value is read  *)
(* and written back (internal/service/environment.go, environment_import.go *)
(* and formatEnvironmentValue).                                            *)
(*                                                                         *)
(* raw is what follows "=" on the line, as a sequence of characters.  The  *)
(* text may be hand-written; the editor, moves between the two files and   *)
(* imports rewrite it.  value and note are what an operator has been shown *)
(* or has entered: the value, and the trailing comment.                    *)
(***************************************************************************)
EXTENDS Integers, Sequences, SequencesExt, FiniteSetsExt

CONSTANTS
  MaxText,      \* length of a hand-written text
  MaxValue,     \* length of a value that is entered
  Stray         \* what hand-written values may hold: see HandWritten

Characters == {"z", "space", "#", "'", "quote", "backslash", "$"}
Quotes == {"'", "quote"}

VARIABLES raw, value, note
vars == <<raw, value, note>>

Upto(n) == UNION {[1 .. k -> Characters] : k \in 0 .. n}
From(s, i) == SubSeq(s, i, Len(s))
Until(s, i) == SubSeq(s, 1, i)
Starts(s, c) == s # <<>> /\ s[1] = c

NotSpace(s) == {i \in DOMAIN s : s[i] # "space"}
TrimRight(s) == IF NotSpace(s) = {} THEN <<>> ELSE Until(s, Max(NotSpace(s)))
Trim(s) == IF NotSpace(s) = {} THEN <<>> ELSE SubSeq(s, Min(NotSpace(s)), Max(NotSpace(s)))
Only(s, I) == FoldLeftDomain(LAMBDA kept, i : IF i \in I THEN Append(kept, s[i]) ELSE kept, <<>>, s)

(* Whether the character at i follows a c that does not itself follow one, *)
(* counting from the given position on.                                    *)
Follows(s, c, first) ==
  LET f[i \in DOMAIN s] == i > first /\ s[i - 1] = c /\ ~f[i - 1] IN f

decodeEnvironmentEscapes(s) ==
  LET second == Follows(s, "$", 1)
  IN Only(s, {i \in DOMAIN s : ~(s[i] = "$" /\ second[i])})

(* The closing quote of a text that starts with one; 0 when it has none.   *)
environmentQuoteEnd(s) ==
  LET escaped == Follows(s, "backslash", 2)
      closing == {i \in 2 .. Len(s) : s[i] = s[1] /\ ~(s[1] = "quote" /\ escaped[i])}
  IN IF closing = {} THEN 0 ELSE Min(closing)

(* strconv.Unquote of a text in double quotes: only a backslash and a      *)
(* quote may be escaped.                                                   *)
Unquotes(s) ==
  LET escaped == Follows(s, "backslash", 2)
  IN \A i \in 2 .. Len(s) - 1 : escaped[i] => s[i] \in {"backslash", "quote"}
Unquote(s) ==
  LET escaped == Follows(s, "backslash", 2)
  IN Only(s, {i \in 2 .. Len(s) - 1 : ~(s[i] = "backslash" /\ ~escaped[i])})

(* A quoted text followed by nothing or by a comment.                      *)
Closed(s) ==
  /\ s # <<>> /\ s[1] \in Quotes
  /\ environmentQuoteEnd(s) > 1
  /\ LET trailing == Trim(From(s, environmentQuoteEnd(s) + 1))
     IN trailing = <<>> \/ Starts(trailing, "#")
Quoted(s) == Closed(s) /\ (s[1] = "quote" => Unquotes(Until(s, environmentQuoteEnd(s))))

Hashes(s) == {i \in 2 .. Len(s) : s[i] = "#" /\ s[i - 1] = "space"}
BeforeComment(s) == IF Hashes(s) = {} THEN s ELSE Until(s, Min(Hashes(s)) - 1)

parseEnvironmentValue(text) ==
  LET s == Trim(text)
      quoted == Until(s, environmentQuoteEnd(s))
  IN IF s = <<>> THEN <<>>
     ELSE IF ~Quoted(s) THEN decodeEnvironmentEscapes(Trim(BeforeComment(s)))
     ELSE IF s[1] = "'" THEN SubSeq(quoted, 2, Len(quoted) - 1)
     ELSE decodeEnvironmentEscapes(Unquote(quoted))

(* The comment that parseEnvironmentValue leaves out of the value.         *)
Comment(text) ==
  LET s == Trim(text)
  IN IF s = <<>> THEN <<>>
     ELSE IF Quoted(s) THEN Trim(From(s, environmentQuoteEnd(s) + 1))
     ELSE IF Hashes(s) = {} THEN <<>>
     ELSE From(s, Min(Hashes(s)))

validEnvironmentValueSyntax(text) ==
  LET s == Trim(text)
  IN (s # <<>> /\ s[1] \in Quotes) => Quoted(s)

(* EscapeQuotesOnly forgets the backslash. *)
EscapeQuotesOnly(c) == CASE c = "quote" -> <<"backslash", "quote">>
                         [] c = "$" -> <<"$", "$">>
                         [] OTHER -> <<c>>
Escape(c) == CASE c = "backslash" -> <<"backslash", "backslash">>
               [] c = "quote" -> <<"backslash", "quote">>
               [] c = "$" -> <<"$", "$">>
               [] OTHER -> <<c>>
formatEnvironmentValue(v) ==
  IF v # <<>> /\ \A i \in DOMAIN v : v[i] = "z" THEN v
  ELSE <<"quote">> \o FlattenSeq([i \in DOMAIN v |-> Escape(v[i])]) \o <<"quote">>

(* The scan for a trailing comment keeps track of quotes anywhere in the   *)
(* text: open[i] is the quote that is open after i characters.             *)
Scan(s) ==
  LET st[i \in 0 .. Len(s)] ==
        IF i = 0 THEN [open |-> "none", escaped |-> FALSE]
        ELSE LET p == st[i - 1]
             IN CASE p.open = "quote" /\ s[i] = "backslash" /\ ~p.escaped -> [p EXCEPT !.escaped = TRUE]
                  [] p.open # "none" /\ s[i] = p.open /\ ~p.escaped -> [open |-> "none", escaped |-> FALSE]
                  [] p.open = "none" /\ s[i] \in Quotes -> [open |-> s[i], escaped |-> FALSE]
                  [] OTHER -> [p EXCEPT !.escaped = FALSE]
  IN st

(* The scan without the quotes: a "#" inside quotes starts a comment.      *)
SuffixInQuotes(s) ==
  LET hash == {i \in DOMAIN s : s[i] = "#" /\ (i > 1 => s[i - 1] = "space")}
      start == {j \in 1 .. Min(hash) : \A k \in j .. Min(hash) - 1 : s[k] = "space"}
  IN IF hash = {} THEN <<>> ELSE From(s, Min(start))

environmentCommentSuffix(s) ==
  LET st == Scan(s)
      hash == {i \in DOMAIN s : s[i] = "#" /\ st[i - 1].open = "none" /\ (i > 1 => s[i - 1] = "space")}
      start == {j \in 1 .. Min(hash) : \A k \in j .. Min(hash) - 1 : s[k] = "space"}
  IN IF hash = {} THEN <<>> ELSE From(s, Min(start))

importedEntryCommentSuffix(s) ==
  LET comment == environmentCommentSuffix(s)
  IN IF Starts(comment, "#") THEN <<"space">> \o comment ELSE comment

formatEnvironmentEntry(s, v) == formatEnvironmentValue(v) \o environmentCommentSuffix(s)

(* Hand-written texts.  Stray says which of two forms are among them:      *)
(* "hash", a value that starts with "#", and "quote", a quote inside an    *)
(* unquoted value or a comment that touches the closing quote.             *)
HandWritten(s) ==
  LET t == Trim(s)
  IN /\ Starts(t, "#") => "hash" \in Stray
     /\ "quote" \in Stray \/ IF Quoted(t) THEN ~Starts(From(t, environmentQuoteEnd(t) + 1), "#")
                             ELSE \A i \in DOMAIN t : t[i] \notin Quotes

Init ==
  /\ raw \in {s \in Upto(MaxText) : HandWritten(s)}
  /\ value = parseEnvironmentValue(raw)
  /\ note = Comment(raw)

(* Update of a variable, or of a secret with a new value (replace): the    *)
(* same value leaves the text of a variable as it is.                      *)
Update(v, replace) ==
  /\ raw' = IF v # parseEnvironmentValue(raw) \/ replace THEN formatEnvironmentEntry(TrimRight(raw), v) ELSE raw
  /\ value' = v
  /\ UNCHANGED note

(* A rename keeps what follows "=".                                        *)
renameEnvironmentEntry ==
  /\ raw' = TrimRight(raw)
  /\ UNCHANGED <<value, note>>

(* A move to the other file takes the text along.                          *)
appendRawEnvironmentVariable ==
  /\ validEnvironmentValueSyntax(Trim(raw))
  /\ raw' = Trim(raw)
  /\ UNCHANGED <<value, note>>

(* The text is imported under a key that the file does not have.           *)
ImportNew ==
  /\ validEnvironmentValueSyntax(raw)
  /\ raw' = formatEnvironmentValue(parseEnvironmentValue(raw)) \o importedEntryCommentSuffix(Trim(raw))
  /\ UNCHANGED <<value, note>>

(* A text is imported under the key of this entry.                         *)
ImportOver(text) ==
  /\ validEnvironmentValueSyntax(text)
  /\ value' = parseEnvironmentValue(text)
  /\ raw' = IF value' # parseEnvironmentValue(raw) THEN formatEnvironmentEntry(TrimRight(raw), value') ELSE raw
  /\ UNCHANGED note

Next ==
  \/ \E v \in Upto(MaxValue), replace \in BOOLEAN : Update(v, replace)
  \/ renameEnvironmentEntry
  \/ appendRawEnvironmentVariable
  \/ ImportNew
  \/ \E text \in Upto(MaxValue) : ImportOver(text)

Spec == Init /\ [][Next]_vars

(* What is read back is the value that was shown or entered, after any     *)
(* sequence of edits, renames, moves and imports: parseEnvironmentValue is *)
(* the inverse of what the writers produce, comments included.             *)
ValueReadBack == parseEnvironmentValue(raw) = value

(* The trailing comment of the line survives every edit of its value.      *)
CommentKept == Comment(raw) = note
=============================================================================
